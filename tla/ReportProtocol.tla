--------------------------- MODULE ReportProtocol ---------------------------
(***************************************************************************)
(* What Chef is promised about the reports of one session: the session is  *)
(* announced once, is reported as active any number of times, and ends     *)
(* with a verdict, after which nothing else follows.  A session that never *)
(* started gets a verdict only.  A failure may be repeated, but never      *)
(* changed into something else.                                            *)
(***************************************************************************)
EXTENDS Sequences

VARIABLE reports   \* the session states received for the session

Verdicts == {"finished", "failed", "denied"}

Open == reports = <<>> \/ reports[Len(reports)] \notin Verdicts

Init == reports = <<>>

Announce ==
  /\ reports = <<>>
  /\ reports' = <<"new">>

Update ==
  /\ reports # <<>> /\ Open
  /\ reports' = Append(reports, "active")

\* Only an announced session can be finished, and none of those is denied.
Decide ==
  \E v \in Verdicts :
    /\ Open
    /\ v = "finished" => reports # <<>>
    /\ v = "denied" => reports = <<>>
    /\ reports' = Append(reports, v)

Repeat ==
  /\ ~Open /\ reports[Len(reports)] # "finished"
  /\ reports' = Append(reports, reports[Len(reports)])

Next == Announce \/ Update \/ Decide \/ Repeat

Spec == Init /\ [][Next]_reports
=============================================================================
