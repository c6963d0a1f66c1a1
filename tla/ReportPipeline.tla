--------------------------- MODULE ReportPipeline ---------------------------
(***************************************************************************)
(* The way of a report from a session process to Chef: a bounded POSIX     *)
(* message queue, written without blocking (src/susshid/report.c), the     *)
(* reporting daemon that reads it in bulks (report-daemon.c), the upload   *)
(* with failover between Chef servers (chef.c), and the shutdown in which  *)
(* the master stops the sessions and then its daemons (helpers.c).         *)
(***************************************************************************)
EXTENDS Integers, Sequences, FiniteSets, SequencesExt

CONSTANTS
  Sessions,      \* session processes
  Deaf,          \* those not in the session loop, which do not end on SIGINT
  MaxReports,    \* bound: reports each session sends
  QueueMax,      \* mq_maxmsg of the message queue
  Bulk,          \* reports uploaded at once (100)
  NumChefs,      \* chef_server_urls.num_report
  Codes,         \* HTTP codes of a Chef server, 0 if it cannot be reached
  PollTime,      \* timeout of the session loop's poll (5 seconds)
  MasterSleep,   \* pause of the master after signalling sessions (3 seconds)
  DrainSleep,    \* pause of the terminating daemon (5 seconds)
  DrainWait,     \* its wait for a first report (5 seconds)
  Horizon        \* bound: the clock stops at this second, and waits end there

ASSUME PipelineAssumption ==
  /\ Deaf \subseteq Sessions
  /\ MaxReports \in [Sessions -> Nat]
  /\ QueueMax \in Nat \ {0}
  /\ Bulk \in Nat \ {0}
  /\ NumChefs \in Nat
  /\ Codes \subseteq Nat
  /\ PollTime \in Nat /\ MasterSleep \in Nat
  /\ DrainSleep \in Nat /\ DrainWait \in Nat
  /\ Horizon \in Nat /\ MasterSleep <= Horizon /\ PollTime < Horizon

\* What the shutdown relies on: a session notices SIGINT before the daemon has
\* slept.
ASSUME ShutdownAssumption == PollTime < MasterSleep + DrainSleep

VARIABLES
  now,          \* seconds, counted from the start of the shutdown
  master,       \* what the master does
  monitor,      \* what the health monitor daemon does, "none" without one
  running,      \* the session processes that are still alive
  sent,         \* number of reports each session has sent
  queue,        \* the message queue
  lost,         \* history: reports refused by the full queue
  daemon,       \* what the reporting daemon does
  terminating,  \* argument of susshi_report_client_read_report_records()
  sigint,       \* int_store.received_sigint
  batch,        \* the reports collected so far
  wakeAt,       \* until when the daemon sleeps, or waits for a first report
  chef,         \* number of Chef servers tried for this upload
  code,         \* http_code
  received,     \* external: reports each Chef server has processed
  dropped       \* history: reports whose upload was given up

masterVars == <<master, monitor>>

vars == <<now, masterVars, running, sent, queue, lost, daemon, terminating, sigint,
          batch, wakeAt, chef, code, received, dropped>>

daemonVars == <<daemon, terminating, batch, wakeAt, chef, code, received, dropped>>

\* The n-th report of session s.
Report == [session : Sessions, n : Nat, state : {"new", "active", "finished"}]

Chefs == 1..NumChefs

\* The end of a wait of d seconds.
After(d) == IF now + d < Horizon THEN now + d ELSE Horizon

TypeOK ==
  /\ now \in 0..Horizon
  /\ master \in {"serving", "alone", "sleeping", "waiting", "monitor", "rsyslog", "gone"}
  /\ monitor \in {"none", "starting", "tested", "paused", "missed", "stopping", "stopped"}
  /\ running \subseteq Sessions
  /\ sent \in [Sessions -> Nat] /\ \A s \in Sessions : sent[s] <= MaxReports[s]
  /\ queue \in Seq(Report) /\ Len(queue) <= QueueMax
  /\ lost \subseteq Report
  /\ daemon \in {"reading", "uploading", "uploaded", "sleeping", "stopped"}
  /\ terminating \in BOOLEAN
  /\ sigint \in BOOLEAN
  /\ batch \in Seq(Report) /\ Len(batch) <= Bulk
  /\ wakeAt \in 0..Horizon
  /\ chef \in 0..NumChefs
  /\ code \in Nat
  /\ received \in [Chefs -> Seq(Report)]
  /\ dropped \subseteq Report

-----------------------------------------------------------------------------
Init ==
  /\ now = 0 /\ master = "serving" /\ monitor \in {"none", "starting"}
  /\ running = Sessions /\ sent = [s \in Sessions |-> 0]
  /\ queue = <<>> /\ lost = {}
  /\ daemon = "reading" /\ terminating = FALSE /\ sigint = FALSE
  /\ batch = <<>> /\ wakeAt = 0
  /\ chef = 0 /\ code = 599
  /\ received = [c \in Chefs |-> <<>>] /\ dropped = {}

(***************************************************************************)
(* Session processes.                                                      *)
(***************************************************************************)

\* mq_send() on a queue opened with O_NONBLOCK; nobody looks at the result.
SendRecord(r) ==
  IF Len(queue) < QueueMax
    THEN queue' = Append(queue, r) /\ UNCHANGED lost
    ELSE lost' = lost \cup {r} /\ UNCHANGED queue

\* susshi_report_client_send_report(); a verdict, here "finished", ends the
\* session, and is the only report of one that never started.
SendReport(s, state) ==
  /\ s \in running /\ sent[s] < MaxReports[s]
  /\ state = "new" => sent[s] = 0
  /\ state = "active" => sent[s] > 0
  /\ sent[s] = MaxReports[s] - 1 => state = "finished"
  /\ SendRecord([session |-> s, n |-> sent[s] + 1, state |-> state])
  /\ sent' = [sent EXCEPT ![s] = @ + 1]
  /\ running' = IF state = "finished" THEN running \ {s} ELSE running
  /\ UNCHANGED <<now, masterVars, sigint, daemonVars>>

\* A session that never started ends without a report.
EndsSilently(s) ==
  /\ s \in running /\ sent[s] = 0
  /\ running' = running \ {s}
  /\ UNCHANGED <<now, masterVars, sent, queue, lost, sigint, daemonVars>>

(***************************************************************************)
(* The reporting daemon.                                                   *)
(***************************************************************************)

\* mq_timedreceive() returns a report.  The signal may have arrived after it
\* was tested.
ReadRecord ==
  /\ daemon = "reading" /\ queue # <<>> /\ Len(batch) < Bulk
  /\ batch' = Append(batch, Head(queue))
  /\ queue' = Tail(queue)
  /\ UNCHANGED <<now, masterVars, running, sent, lost, daemon, terminating, sigint,
                 wakeAt, chef, code, received, dropped>>

\* How long the terminating daemon waits for the next report: DrainWait for the
\* first one and no time for the others.
DrainTimeout == batch # <<>> \/ now >= wakeAt

\* Mutant of StopReading: the signal discards what was collected.
StopReadingDiscards ==
  /\ daemon = "reading"
  /\ \/ Len(batch) = Bulk
     \/ ~terminating /\ sigint
     \/ queue = <<>> /\ (terminating => DrainTimeout)
  /\ daemon' = IF batch = <<>> \/ (sigint /\ ~terminating) THEN "uploaded" ELSE "uploading"
  /\ UNCHANGED <<now, masterVars, running, sent, queue, lost, terminating, sigint,
                 batch, wakeAt, chef, code, received, dropped>>

\* The bulk is complete, the queue stayed empty for the waiting time, or the
\* signal was seen.
StopReading ==
  /\ daemon = "reading"
  /\ \/ Len(batch) = Bulk
     \/ ~terminating /\ sigint
     \/ queue = <<>> /\ (terminating => DrainTimeout)
  /\ daemon' = IF batch = <<>> THEN "uploaded" ELSE "uploading"
  /\ UNCHANGED <<now, masterVars, running, sent, queue, lost, terminating, sigint,
                 batch, wakeAt, chef, code, received, dropped>>

\* susshi_chef_json_post() tries the next server.
NextChef == chef < NumChefs /\ (code < 200 \/ code > 406)

\* One Chef server is asked.  It has stored the reports if it says so, and it
\* may have stored them if the answer is unreadable or does not arrive.
PostToChef(c) ==
  /\ daemon = "uploading" /\ NextChef
  /\ chef' = chef + 1
  /\ code' = c
  /\ \/ /\ c = 200 \/ c < 200 \/ c > 406
        /\ received' = [received EXCEPT ![chef + 1] = @ \o batch]
     \/ /\ c # 200
        /\ UNCHANGED received
  /\ UNCHANGED <<now, masterVars, running, sent, queue, lost, daemon, terminating,
                 sigint, batch, wakeAt, dropped>>

\* susshi_chef_upload_report() returns; its result is ignored.
UploadReturns ==
  /\ daemon = "uploading" /\ ~NextChef
  /\ daemon' = "uploaded"
  /\ dropped' = IF code = 200 THEN dropped ELSE dropped \cup ToSet(batch)
  /\ UNCHANGED <<now, masterVars, running, sent, queue, lost, terminating, sigint,
                 batch, wakeAt, chef, code, received>>

\* Mutant of ReadAgain: the drain ends only with a full bulk, never a short one.
ReadAgainForever == terminating => Len(batch) <= Bulk

\* The daemon's loops: read until the signal was seen, and drain the queue as
\* long as the bulks are full.
ReadAgain == terminating => Len(batch) >= Bulk

\* Mutant of RecordsRead: the terminating daemon does not pause.
RecordsReadNoPause ==
  /\ daemon = "uploaded"
  /\ batch' = <<>> /\ chef' = 0 /\ code' = 599
  /\ terminating' = (terminating \/ sigint)
  /\ daemon' = IF ReadAgain THEN "reading" ELSE "stopped"
  /\ wakeAt' = After(DrainWait)
  /\ UNCHANGED <<now, masterVars, running, sent, queue, lost, sigint, received,
                 dropped>>

\* Mutant of RecordsRead: the next bulk starts with the reports of the last one.
RecordsReadKeepsBatch ==
  /\ daemon = "uploaded"
  /\ chef' = 0 /\ code' = 599
  /\ terminating' = (terminating \/ sigint)
  /\ daemon' = IF ~ReadAgain THEN "stopped"
               ELSE IF terminating' THEN "sleeping" ELSE "reading"
  /\ wakeAt' = After(DrainSleep)
  /\ UNCHANGED <<now, masterVars, running, sent, queue, lost, sigint, batch, received,
                 dropped>>

\* susshi_report_client_read_report_records() returns and is called again, with
\* terminating set once the signal was seen; then it sleeps first.
RecordsRead ==
  /\ daemon = "uploaded"
  /\ batch' = <<>> /\ chef' = 0 /\ code' = 599
  /\ terminating' = (terminating \/ sigint)
  /\ daemon' = IF ~ReadAgain THEN "stopped"
               ELSE IF terminating' THEN "sleeping" ELSE "reading"
  /\ wakeAt' = After(DrainSleep)
  /\ UNCHANGED <<now, masterVars, running, sent, queue, lost, sigint, received,
                 dropped>>

DrainWakesUp ==
  /\ daemon = "sleeping" /\ now >= wakeAt
  /\ daemon' = "reading"
  /\ wakeAt' = After(DrainWait)
  /\ UNCHANGED <<now, masterVars, running, sent, queue, lost, terminating, sigint,
                 batch, chef, code, received, dropped>>

(***************************************************************************)
(* The health monitor daemon, which serves in threads of its own.          *)
(***************************************************************************)

\* Its server is started and received_sigint is tested a first time.
MonitorReady ==
  /\ monitor = "starting"
  /\ monitor' = "tested"
  /\ UNCHANGED <<now, master, running, sent, queue, lost, sigint, daemonVars>>

\* Only then it calls pause().
MonitorPauses ==
  /\ monitor = "tested"
  /\ monitor' = "paused"
  /\ UNCHANGED <<now, master, running, sent, queue, lost, sigint, daemonVars>>

\* pause() returned, or was not reached: the loop ends and the daemon exits.
MonitorStops ==
  /\ monitor = "stopping"
  /\ monitor' = "stopped"
  /\ UNCHANGED <<now, master, running, sent, queue, lost, sigint, daemonVars>>

(***************************************************************************)
(* susshi_cleanup() in the master.                                         *)
(***************************************************************************)

\* SIGINT for all session processes.
SignalSessions ==
  /\ master = "serving"
  /\ master' = IF running = {} THEN "alone" ELSE "sleeping"
  /\ UNCHANGED <<now, monitor, running, sent, queue, lost, sigint, daemonVars>>

\* After a pause, if there were any sessions, SIGINT for the daemon.
SignalDaemon ==
  /\ master = "alone" \/ (master = "sleeping" /\ now >= MasterSleep)
  /\ master' = "waiting"
  /\ sigint' = TRUE
  /\ UNCHANGED <<now, monitor, running, sent, queue, lost, daemonVars>>

\* SIGINT for the monitor daemon: its handler sets the flag.  Between the test
\* of the flag and pause() that is too late.
SigintMonitor ==
  monitor' = CASE monitor = "none" -> "none"
               [] monitor = "tested" -> "missed"
               [] OTHER -> "stopping"

\* waitpid() for the reporting daemon returns; the monitor daemon is next.
DaemonReaped ==
  /\ master = "waiting" /\ daemon = "stopped"
  /\ master' = "monitor"
  /\ SigintMonitor
  /\ UNCHANGED <<now, running, sent, queue, lost, sigint, daemonVars>>

\* waitpid() for the monitor daemon returns, or there is none; SIGTERM for
\* rsyslogd.
MonitorReaped ==
  /\ master = "monitor" /\ monitor \in {"none", "stopped"}
  /\ master' = "rsyslog"
  /\ UNCHANGED <<now, monitor, running, sent, queue, lost, sigint, daemonVars>>

\* waitpid() for rsyslogd, an external program, returns.
RsyslogReaped ==
  /\ master = "rsyslog"
  /\ master' = "gone"
  /\ UNCHANGED <<now, monitor, running, sent, queue, lost, sigint, daemonVars>>

\* A second of the shutdown.  The session loop sees SIGINT when its poll times
\* out, and then reports at once.
Tick ==
  /\ master \in {"sleeping", "waiting"} /\ now < Horizon
  /\ now >= PollTime => running \subseteq Deaf
  /\ now' = now + 1
  /\ UNCHANGED <<masterVars, running, sent, queue, lost, sigint, daemonVars>>

-----------------------------------------------------------------------------
SessionStep ==
  \E s \in Sessions :
    \/ \E state \in {"new", "active", "finished"} : SendReport(s, state)
    \/ EndsSilently(s)

DaemonStep ==
  \/ ReadRecord \/ StopReading
  \/ \E c \in Codes : PostToChef(c)
  \/ UploadReturns \/ RecordsRead \/ DrainWakesUp

\* A session in its loop ends after SIGINT.
Interrupted(s) ==
  master # "serving" /\ (SendReport(s, "finished") \/ EndsSilently(s))

MasterStep == SignalDaemon \/ DaemonReaped \/ MonitorReaped \/ RsyslogReaped

MonitorStep == MonitorReady \/ MonitorPauses \/ MonitorStops

Next ==
  SessionStep \/ DaemonStep \/ MonitorStep \/ SignalSessions \/ MasterStep \/ Tick

Spec == Init /\ [][Next]_vars

\* Every process is scheduled and time passes; every Chef server answers, or
\* its connection fails, in the end, and rsyslogd ends on SIGTERM.
FairSpec ==
  /\ Spec
  /\ WF_vars(DaemonStep) /\ WF_vars(MonitorStep) /\ WF_vars(MasterStep) /\ WF_vars(Tick)
  /\ \A s \in Sessions \ Deaf : WF_vars(Interrupted(s))

-----------------------------------------------------------------------------
(***************************************************************************)
(* Properties.                                                             *)
(***************************************************************************)

\* The reports of each session are in the order in which they were sent.
Ordered(seq) ==
  \A i, j \in 1..Len(seq) :
    i < j /\ seq[i].session = seq[j].session => seq[i].n < seq[j].n

\* No Chef server sees the reports of a session out of order or twice, although
\* bulks are posted again after a failure.
ChefsSeeOrder == \A c \in Chefs : Ordered(received[c])

\* No report vanishes: it is in the queue or in the daemon's hands, a Chef
\* server has it, the queue was full, or its upload was given up.
NoSilentLoss ==
  \A s \in Sessions : \A k \in 1..sent[s] :
    \E r \in ToSet(queue) \cup ToSet(batch) \cup lost \cup dropped
             \cup UNION {ToSet(received[c]) : c \in Chefs} :
      r.session = s /\ r.n = k

\* When the daemon has stopped, the queue holds no report of a session that was
\* in its loop when the shutdown began: the three pauses are long enough.
ShutdownDrained ==
  daemon = "stopped" => \A i \in 1..Len(queue) : queue[i].session \in Deaf

\* The shutdown ends, whatever is in the queue and whatever Chef answers, unless
\* the monitor daemon's SIGINT comes between its test and its pause(): then
\* susshi_cleanup() waits for it forever.
ShutdownEnds == master # "serving" ~> master = "gone" \/ monitor = "missed"
=============================================================================
