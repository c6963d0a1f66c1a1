--------------------------- MODULE SessionReports ---------------------------
(***************************************************************************)
(* SessionLife implements ReportProtocol.  A history variable notes how    *)
(* many reports had been sent when the process was first disturbed: when   *)
(* SIGALRM hit it outside its two waits, or when the shell forked a child  *)
(* that reports for itself.                                                *)
(***************************************************************************)
EXTENDS SessionLife

VARIABLE cut   \* number of reports sent before the disturbance, -1 before it

\* Where the process spends its time: connecting to the proxy, session loop.
Waits == {"proxy", "loop"}

Disturbed ==
  \/ pc["alrm"] = "idle" /\ pc'["alrm"] # "idle" /\ pc["main"] \notin Waits
  \/ shellChild' /\ ~shellChild

ReportsInit == Init /\ cut = -1

ReportsNext ==
  /\ Next
  /\ cut' = IF cut = -1 /\ Disturbed THEN Len(reports) ELSE cut

ReportsSpec ==
  /\ ReportsInit /\ [][ReportsNext]_<<vars, cut>>
  /\ Fairness

\* The reports sent undisturbed.
Told == IF cut = -1 THEN reports ELSE SubSeq(reports, 1, cut)

Protocol == INSTANCE ReportProtocol WITH reports <- Told

\* The reports of a session implement ReportProtocol up to the first
\* disturbance: announced once, updated while it runs, then one verdict and at
\* most its repetition, whatever peers, proxy, timers and fatal() do
\* (susshi_report_client_send_report()).
ReportsFollowProtocol == Protocol!Spec
=============================================================================
