---------------------------- MODULE MCTargetLogin ----------------------------
(***************************************************************************)
(* TargetLogin with two addresses and three profiles.                      *)
(***************************************************************************)
EXTENDS TargetLogin

MCPreferences ==
  {<<"publickey", "keyboard-interactive", "password">>,
   <<"agent", "password", "keyboard-interactive">>,
   <<"password", "keyboard-interactive", "agent">>}
=============================================================================
