---------------------------- MODULE MCSessionLife ----------------------------
(* Instance of SessionLife and of its refinement SessionReports for TLC.     *)
EXTENDS SessionReports

AllModes == {"gateway", "bastion", "shell", "chefRemote"}

\* SIGALRM may arrive anywhere in the main program.
Anywhere == MainPcs \cup EndPcs
==============================================================================
