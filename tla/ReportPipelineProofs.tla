------------------------ MODULE ReportPipelineProofs ------------------------
(***************************************************************************)
(* Proofs about the way of a report to Chef, for any number of sessions,   *)
(* reports and Chef servers, any size of the queue and of a bulk and any   *)
(* pauses that satisfy ShutdownAssumption: no Chef server sees the reports *)
(* of a session out of order or twice, no report vanishes, and the daemon  *)
(* stops with an empty queue but for the sessions that ignore the signal.  *)
(***************************************************************************)
EXTENDS ReportPipeline, TLAPS

USE DEF masterVars

-----------------------------------------------------------------------------
(***************************************************************************)
(* Types.                                                                  *)
(***************************************************************************)

\* A session sends a report.
LEMMA TypedSend ==
  ASSUME TypeOK, NEW s \in Sessions, NEW state \in {"new", "active", "finished"},
         SendReport(s, state)
  PROVE  TypeOK'
<1> DEFINE r == [session |-> s, n |-> sent[s] + 1, state |-> state]
<1>1. sent[s] \in Nat /\ sent[s] < MaxReports[s]
  BY DEF TypeOK, SendReport
<1>2. r \in Report
  BY <1>1 DEF Report
<1>3. SendRecord(r)
  BY DEF SendReport
<1>4. queue' \in Seq(Report) /\ Len(queue') <= QueueMax /\ lost' \subseteq Report
  <2>1. CASE Len(queue) < QueueMax
    <3>1. queue' = Append(queue, r) /\ lost' = lost
      BY <1>3, <2>1 DEF SendRecord
    <3> HIDE DEF r
    <3>2. queue' \in Seq(Report) /\ Len(queue') = Len(queue) + 1 /\ Len(queue) \in Nat
      BY <1>2, <3>1 DEF TypeOK
    <3> QED
      BY <2>1, <3>1, <3>2, PipelineAssumption DEF TypeOK
  <2>2. CASE ~(Len(queue) < QueueMax)
    BY <1>2, <1>3, <2>2 DEF SendRecord, TypeOK
  <2> QED
    BY <2>1, <2>2
<1>5. sent' \in [Sessions -> Nat] /\ \A t \in Sessions : sent'[t] <= MaxReports[t]
  <2>1. sent' = [sent EXCEPT ![s] = sent[s] + 1] /\ MaxReports \in [Sessions -> Nat]
    BY PipelineAssumption DEF SendReport
  <2>2. sent \in [Sessions -> Nat] /\ \A t \in Sessions : sent[t] <= MaxReports[t]
    BY DEF TypeOK
  <2> QED
    BY <1>1, <2>1, <2>2
<1>6. running' \subseteq Sessions
  BY DEF SendReport, TypeOK
<1> QED
  BY <1>4, <1>5, <1>6 DEF SendReport, TypeOK, daemonVars

\* A session ends without a report, and the master's steps.
LEMMA TypedProcesses ==
  ASSUME TypeOK,
         SignalSessions \/ MasterStep \/ MonitorStep \/ Tick \/ \E s \in Sessions : EndsSilently(s)
  PROVE  TypeOK'
<1>1. CASE \E s \in Sessions : EndsSilently(s)
  BY <1>1 DEF EndsSilently, TypeOK, daemonVars
<1>2. CASE SignalSessions
  BY <1>2 DEF SignalSessions, TypeOK, daemonVars
<1>3. CASE MasterStep \/ MonitorStep
  BY <1>3 DEF MasterStep, SignalDaemon, DaemonReaped, SigintMonitor, MonitorReaped,
         RsyslogReaped, MonitorStep, MonitorReady, MonitorPauses, MonitorStops, TypeOK, daemonVars
<1>4. CASE Tick
  <2>1. now' \in 0..Horizon
    BY <1>4, PipelineAssumption DEF Tick, TypeOK
  <2> QED
    BY <1>4, <2>1 DEF Tick, TypeOK, daemonVars
<1> QED
  BY <1>1, <1>2, <1>3, <1>4

\* A step of the daemon.
LEMMA TypedDaemon ==
  ASSUME TypeOK, DaemonStep
  PROVE  TypeOK'
<1>1. CASE ReadRecord
  <2>1. Head(queue) \in Report /\ Tail(queue) \in Seq(Report) /\ Len(Tail(queue)) = Len(queue) - 1
        /\ Len(queue) \in Nat
    BY <1>1 DEF ReadRecord, TypeOK
  <2>2. batch' \in Seq(Report) /\ Len(batch') = Len(batch) + 1 /\ Len(batch) \in Nat
    BY <1>1, <2>1 DEF ReadRecord, TypeOK
  <2>3. Len(batch') <= Bulk /\ Len(queue') <= QueueMax
    BY <1>1, <2>1, <2>2, PipelineAssumption DEF ReadRecord, TypeOK
  <2> QED
    BY <1>1, <2>1, <2>2, <2>3 DEF ReadRecord, TypeOK
<1>2. CASE StopReading
  BY <1>2 DEF StopReading, TypeOK
<1>3. ASSUME NEW c \in Codes, PostToChef(c) PROVE TypeOK'
  <2>1. chef' \in 0..NumChefs /\ chef + 1 \in Chefs /\ code' \in Nat
    BY <1>3, PipelineAssumption DEF PostToChef, NextChef, TypeOK, Chefs
  <2>2. received' \in [Chefs -> Seq(Report)]
    <3>1. received \in [Chefs -> Seq(Report)] /\ batch \in Seq(Report)
      BY DEF TypeOK
    <3>2. received[chef + 1] \o batch \in Seq(Report)
      BY <2>1, <3>1
    <3>3. \/ received' = received
          \/ received' = [received EXCEPT ![chef + 1] = received[chef + 1] \o batch]
      BY <1>3 DEF PostToChef
    <3> QED
      BY <2>1, <3>1, <3>2, <3>3
  <2> QED
    BY <1>3, <2>1, <2>2 DEF PostToChef, TypeOK
<1>4. CASE UploadReturns
  <2>1. ToSet(batch) \subseteq Report
    BY DEF ToSet, TypeOK
  <2> QED
    BY <1>4, <2>1 DEF UploadReturns, TypeOK
<1>5. CASE RecordsRead
  <2>1. batch' \in Seq(Report) /\ Len(batch') <= Bulk /\ chef' \in 0..NumChefs /\ code' \in Nat
    BY <1>5, PipelineAssumption DEF RecordsRead
  <2>2. wakeAt' \in 0..Horizon
    BY <1>5, PipelineAssumption DEF RecordsRead, TypeOK, After
  <2>3. terminating' \in BOOLEAN
    BY <1>5 DEF RecordsRead, TypeOK
  <2>4. daemon' \in {"reading", "sleeping", "stopped"}
    BY <1>5 DEF RecordsRead
  <2> QED
    BY <1>5, <2>1, <2>2, <2>3, <2>4 DEF RecordsRead, TypeOK
<1>6. CASE DrainWakesUp
  <2>1. wakeAt' \in 0..Horizon
    BY <1>6, PipelineAssumption DEF DrainWakesUp, TypeOK, After
  <2> QED
    BY <1>6, <2>1 DEF DrainWakesUp, TypeOK
<1> QED
  BY <1>1, <1>2, <1>3, <1>4, <1>5, <1>6 DEF DaemonStep

\* The initial values have their types.
LEMMA TypedInit == Init => TypeOK
<1> SUFFICES ASSUME Init PROVE TypeOK
  OBVIOUS
<1>1. /\ queue \in Seq(Report) /\ Len(queue) <= QueueMax
      /\ batch \in Seq(Report) /\ Len(batch) <= Bulk
  BY PipelineAssumption DEF Init
<1>2. received \in [Chefs -> Seq(Report)]
  BY DEF Init
<1>3. sent \in [Sessions -> Nat] /\ \A s \in Sessions : sent[s] <= MaxReports[s]
  BY PipelineAssumption DEF Init
<1>4. now \in 0..Horizon /\ wakeAt \in 0..Horizon /\ chef \in 0..NumChefs /\ code \in Nat
  BY PipelineAssumption DEF Init
<1> QED
  BY <1>1, <1>2, <1>3, <1>4 DEF Init, TypeOK

\* Every step keeps the types.
LEMMA TypedNext == TypeOK /\ [Next]_vars => TypeOK'
<1> SUFFICES ASSUME TypeOK, [Next]_vars PROVE TypeOK'
  OBVIOUS
<1>1. CASE SessionStep
  BY <1>1, TypedSend, TypedProcesses DEF SessionStep
<1>2. CASE DaemonStep
  BY <1>2, TypedDaemon
<1>3. CASE SignalSessions \/ MasterStep \/ MonitorStep \/ Tick
  BY <1>3, TypedProcesses
<1>4. CASE UNCHANGED vars
  BY <1>4 DEF vars, TypeOK
<1> QED
  BY <1>1, <1>2, <1>3, <1>4 DEF Next

\* The pipeline's state has its types: the queue never exceeds mq_maxmsg and a
\* bulk never its limit, whatever the sessions send.
THEOREM TypeCorrect == Spec => []TypeOK
<1>1. Init => TypeOK
  BY TypedInit
<1>2. TypeOK /\ [Next]_vars => TypeOK'
  BY TypedNext
<1> QED
  BY <1>1, <1>2, PTL DEF Spec

-----------------------------------------------------------------------------
(***************************************************************************)
(* The shutdown.                                                           *)
(***************************************************************************)

\* After the first poll every session in its loop has seen SIGINT and is gone.
PollOver == now > PollTime => running \subseteq Deaf

\* The daemon is signalled after the pause, unless there was nobody to wait for.
SignalledLate ==
  /\ master = "alone" => running = {}
  /\ sigint => running = {} \/ now >= MasterSleep
  /\ terminating => sigint

\* Once the terminating daemon has slept, no session in its loop is left.
SleptLong ==
  terminating =>
    \/ running \subseteq Deaf
    \/ daemon = "sleeping" /\ wakeAt > PollTime

\* The reports of the queue are those of sessions that ignore SIGINT.
OnlyDeaf(q) == \A i \in 1..Len(q) : q[i].session \in Deaf

\* A short bulk of the terminating daemon means that the queue was empty.
DrainedAtEnd ==
  /\ terminating /\ daemon \in {"uploading", "uploaded"} /\ Len(batch) < Bulk => OnlyDeaf(queue)
  /\ daemon = "stopped" => terminating /\ OnlyDeaf(queue)

ShutdownInv == PollOver /\ SignalledLate /\ SleptLong /\ DrainedAtEnd

\* A report that is sent leaves the queue with reports of sessions that ignore
\* SIGINT if the sender does.
LEMMA DeafSend ==
  ASSUME TypeOK, NEW s \in Sessions, NEW state \in {"new", "active", "finished"},
         SendReport(s, state), running \subseteq Deaf, OnlyDeaf(queue)
  PROVE  OnlyDeaf(queue')
<1> DEFINE r == [session |-> s, n |-> sent[s] + 1, state |-> state]
<1>1. r.session \in Deaf /\ SendRecord(r)
  BY DEF SendReport
<1>2. r \in Report
  BY DEF Report, TypeOK
<1> HIDE DEF r
<1>3. queue' = queue \/ queue' = Append(queue, r)
  BY <1>1 DEF SendRecord
<1>4. CASE queue' = Append(queue, r)
  <2>1. queue \in Seq(Report)
    BY DEF TypeOK
  <2>2. Len(queue') = Len(queue) + 1
    BY <1>2, <1>4, <2>1
  <2>3. \A i \in 1..Len(queue') : queue'[i] = IF i <= Len(queue) THEN queue[i] ELSE r
    BY <1>2, <1>4, <2>1, <2>2
  <2> QED
    BY <1>1, <2>1, <2>2, <2>3 DEF OnlyDeaf
<1> QED
  BY <1>3, <1>4 DEF OnlyDeaf

\* The steps of the sessions.
LEMMA ShutdownSession ==
  ASSUME TypeOK, ShutdownInv, SessionStep
  PROVE  ShutdownInv'
<1>1. PICK s \in Sessions :
        (\E state \in {"new", "active", "finished"} : SendReport(s, state)) \/ EndsSilently(s)
  BY DEF SessionStep
<1>2. /\ UNCHANGED <<now, master, sigint, daemon, terminating, batch, wakeAt>>
      /\ running' \subseteq running /\ s \in running
  BY <1>1 DEF SendReport, EndsSilently, daemonVars
<1>3. PollOver' /\ SignalledLate' /\ SleptLong'
  BY <1>2 DEF ShutdownInv, PollOver, SignalledLate, SleptLong
<1>4. terminating /\ daemon # "sleeping" => running \subseteq Deaf
  BY DEF ShutdownInv, SleptLong
<1>5. terminating /\ daemon # "sleeping" /\ OnlyDeaf(queue) => OnlyDeaf(queue')
  BY <1>1, <1>4, DeafSend DEF EndsSilently
<1>6. DrainedAtEnd'
  BY <1>2, <1>5 DEF ShutdownInv, DrainedAtEnd
<1> QED
  BY <1>3, <1>6 DEF ShutdownInv

\* The steps of the master and the clock.
LEMMA ShutdownMaster ==
  ASSUME TypeOK, ShutdownInv, SignalSessions \/ MasterStep \/ MonitorStep \/ Tick
  PROVE  ShutdownInv'
<1>1. /\ UNCHANGED <<running, queue, daemon, terminating, batch, wakeAt>>
      /\ now' = now \/ now' = now + 1
  BY DEF SignalSessions, MasterStep, SignalDaemon, DaemonReaped, SigintMonitor, MonitorReaped,
         RsyslogReaped, MonitorStep, MonitorReady, MonitorPauses, MonitorStops, Tick, daemonVars
<1>2. SleptLong' /\ DrainedAtEnd'
  BY <1>1 DEF ShutdownInv, SleptLong, DrainedAtEnd, OnlyDeaf
<1>3. now \in Nat /\ PollTime \in Nat /\ MasterSleep \in Nat
  BY PipelineAssumption DEF TypeOK
<1>4. PollOver' /\ SignalledLate'
  <2>1. CASE SignalSessions
    BY <2>1 DEF SignalSessions, ShutdownInv, PollOver, SignalledLate, daemonVars
  <2>2. CASE MasterStep \/ MonitorStep
    BY <2>2 DEF MasterStep, SignalDaemon, DaemonReaped, SigintMonitor, MonitorReaped,
         RsyslogReaped, MonitorStep, MonitorReady, MonitorPauses, MonitorStops, ShutdownInv, PollOver, SignalledLate,
                daemonVars
  <2>3. CASE Tick
    BY <1>3, <2>3 DEF Tick, ShutdownInv, PollOver, SignalledLate, daemonVars
  <2> QED
    BY <2>1, <2>2, <2>3
<1> QED
  BY <1>2, <1>4 DEF ShutdownInv

\* The steps of the daemon.
LEMMA ShutdownDaemon ==
  ASSUME TypeOK, ShutdownInv, DaemonStep
  PROVE  ShutdownInv'
<1>1. UNCHANGED <<now, masterVars, running, sigint>> /\ terminating' = (terminating \/ terminating')
  BY DEF DaemonStep, ReadRecord, StopReading, PostToChef, UploadReturns, RecordsRead,
         DrainWakesUp, TypeOK
<1>2. PollOver'
  BY <1>1 DEF ShutdownInv, PollOver
<1>3. now \in Nat /\ PollTime \in Nat /\ MasterSleep \in Nat /\ DrainSleep \in Nat
      /\ Horizon \in Nat /\ wakeAt \in Nat
  BY PipelineAssumption DEF TypeOK
<1>4. CASE ReadRecord \/ \E c \in Codes : PostToChef(c)
  <2>1. /\ UNCHANGED <<terminating, daemon, wakeAt>>
        /\ daemon \in {"reading", "uploading"}
        /\ daemon = "uploading" => UNCHANGED <<batch, queue>>
    BY <1>4 DEF ReadRecord, PostToChef
  <2> QED
    BY <1>1, <1>2, <2>1 DEF ShutdownInv, SignalledLate, SleptLong, DrainedAtEnd
<1>5. CASE StopReading
  <2>1. terminating => Len(batch) = Bulk \/ queue = <<>>
    BY <1>5 DEF StopReading
  <2>2. terminating /\ Len(batch) < Bulk => OnlyDeaf(queue)
    BY <2>1, PipelineAssumption DEF OnlyDeaf
  <2> QED
    BY <1>1, <1>2, <1>5, <2>2 DEF StopReading, ShutdownInv, SignalledLate, SleptLong, DrainedAtEnd
<1>6. CASE UploadReturns
  BY <1>1, <1>2, <1>6 DEF UploadReturns, ShutdownInv, SignalledLate, SleptLong, DrainedAtEnd
<1>7. CASE RecordsRead
  <2>1. /\ daemon = "uploaded" /\ UNCHANGED queue
        /\ terminating' => sigint
        /\ daemon' \in {"stopped", "sleeping", "reading"}
        /\ daemon' = "stopped" => terminating /\ terminating' /\ ~(Len(batch) >= Bulk)
        /\ daemon' = "reading" => ~terminating'
        /\ wakeAt' = After(DrainSleep)
    BY <1>7 DEF RecordsRead, ReadAgain, ShutdownInv, SignalledLate
  <2>2. sigint => running = {} \/ After(DrainSleep) > PollTime
    BY <1>3, PipelineAssumption, ShutdownAssumption DEF After, ShutdownInv, SignalledLate
  <2>3. SignalledLate' /\ SleptLong'
    BY <1>1, <2>1, <2>2 DEF ShutdownInv, SignalledLate, SleptLong
  <2>4. daemon' = "stopped" => Len(batch) < Bulk
    BY <2>1, PipelineAssumption DEF TypeOK
  <2> QED
    BY <1>2, <2>1, <2>3, <2>4 DEF ShutdownInv, DrainedAtEnd
<1>8. CASE DrainWakesUp
  <2>1. wakeAt > PollTime => running \subseteq Deaf
    BY <1>3, <1>8 DEF DrainWakesUp, ShutdownInv, PollOver
  <2> QED
    BY <1>1, <1>2, <1>8, <2>1 DEF DrainWakesUp, ShutdownInv, SignalledLate, SleptLong, DrainedAtEnd
<1> QED
  BY <1>4, <1>5, <1>6, <1>7, <1>8 DEF DaemonStep

\* The invariant of the shutdown holds at first and is kept.
LEMMA ShutdownInductive ==
  /\ Init => ShutdownInv
  /\ TypeOK /\ ShutdownInv /\ [Next]_vars => ShutdownInv'
<1>1. Init => ShutdownInv
  BY PipelineAssumption DEF Init, ShutdownInv, PollOver, SignalledLate, SleptLong, DrainedAtEnd
<1>2. ASSUME TypeOK, ShutdownInv, [Next]_vars PROVE ShutdownInv'
  <2>1. CASE UNCHANGED vars
    BY <1>2, <2>1 DEF vars, ShutdownInv, PollOver, SignalledLate, SleptLong, DrainedAtEnd, OnlyDeaf
  <2> QED
    BY <1>2, <2>1, ShutdownSession, ShutdownMaster, ShutdownDaemon DEF Next
<1> QED
  BY <1>1, <1>2

\* When the reporting daemon has stopped, the queue holds no report of a session
\* that was in its loop, for all pauses that satisfy ShutdownAssumption:
\* susshi_cleanup() waits long enough whatever the sessions do meanwhile.
THEOREM ShutdownComplete == Spec => []ShutdownDrained
<1>1. ShutdownInv => ShutdownDrained
  BY DEF ShutdownInv, DrainedAtEnd, ShutdownDrained, OnlyDeaf
<1> QED
  BY <1>1, TypeCorrect, ShutdownInductive, PTL DEF Spec

-----------------------------------------------------------------------------
(***************************************************************************)
(* Accounting.                                                             *)
(***************************************************************************)

\* The reports that some Chef server has, and those of which nothing more is
\* done: the queue refused them or their upload was given up.
Delivered == UNION {ToSet(received[c]) : c \in Chefs}
Settled == lost \cup dropped \cup Delivered

\* What the upload says is so: at 200 the last server asked has the bulk, and a
\* bulk that is done is with a server or given up.
UploadHonest ==
  /\ daemon \notin {"uploading", "uploaded"} => code = 599
  /\ code = 200 => chef \in Chefs /\ ToSet(batch) \subseteq ToSet(received[chef])
  /\ daemon = "uploaded" => code = 200 \/ ToSet(batch) \subseteq dropped

LossInv == UploadHonest /\ NoSilentLoss

\* The reports in a sequence, after one more is appended, after the first is
\* taken off and after another sequence is appended.
LEMMA SetOfSeq ==
  ASSUME NEW q \in Seq(Report)
  PROVE  /\ \A r \in Report : ToSet(Append(q, r)) = ToSet(q) \cup {r}
         /\ q # <<>> => ToSet(q) = {Head(q)} \cup ToSet(Tail(q))
         /\ \A p \in Seq(Report) : ToSet(p \o q) = ToSet(p) \cup ToSet(q)
<1>1. ASSUME NEW r \in Report PROVE ToSet(Append(q, r)) = ToSet(q) \cup {r}
  <2>1. DOMAIN Append(q, r) = 1..(Len(q) + 1) /\ Len(q) \in Nat /\ DOMAIN q = 1..Len(q)
    OBVIOUS
  <2>2. \A i \in 1..Len(q) : Append(q, r)[i] = q[i]
    OBVIOUS
  <2>3. Append(q, r)[Len(q) + 1] = r
    OBVIOUS
  <2>4. 1..(Len(q) + 1) = 1..Len(q) \cup {Len(q) + 1}
    BY <2>1
  <2> QED
    BY <2>1, <2>2, <2>3, <2>4 DEF ToSet
<1>2. ASSUME q # <<>> PROVE ToSet(q) = {Head(q)} \cup ToSet(Tail(q))
  <2>1. Len(q) \in Nat /\ Len(q) > 0 /\ DOMAIN q = 1..Len(q) /\ DOMAIN Tail(q) = 1..(Len(q) - 1)
    BY <1>2
  <2>2. Head(q) = q[1] /\ \A i \in 1..(Len(q) - 1) : Tail(q)[i] = q[i + 1]
    BY <1>2
  <2>3. \A i \in 1..Len(q) : i = 1 \/ (i - 1 \in 1..(Len(q) - 1) /\ q[i] = Tail(q)[i - 1])
    BY <2>1, <2>2
  <2>4. ToSet(q) \subseteq {Head(q)} \cup ToSet(Tail(q))
    <3>1. \A i \in 1..Len(q) : q[i] = Head(q) \/ \E j \in DOMAIN Tail(q) : q[i] = Tail(q)[j]
      BY <2>1, <2>2, <2>3
    <3> QED
      BY <2>1, <3>1 DEF ToSet
  <2>5. \A i \in 1..(Len(q) - 1) : i + 1 \in 1..Len(q) /\ Tail(q)[i] = q[i + 1]
    BY <2>1, <2>2
  <2>6. {Head(q)} \cup ToSet(Tail(q)) \subseteq ToSet(q)
    BY <2>1, <2>2, <2>5 DEF ToSet
  <2> QED
    BY <2>4, <2>6
<1>3. ASSUME NEW p \in Seq(Report) PROVE ToSet(p \o q) = ToSet(p) \cup ToSet(q)
  <2>1. /\ Len(p) \in Nat /\ Len(q) \in Nat /\ DOMAIN p = 1..Len(p) /\ DOMAIN q = 1..Len(q)
        /\ DOMAIN (p \o q) = 1..(Len(p) + Len(q))
    OBVIOUS
  <2>2. \A i \in 1..(Len(p) + Len(q)) :
          (p \o q)[i] = IF i <= Len(p) THEN p[i] ELSE q[i - Len(p)]
    BY <2>1
  <2>3. ToSet(p \o q) \subseteq ToSet(p) \cup ToSet(q)
    <3>1. \A i \in 1..(Len(p) + Len(q)) : i \in 1..Len(p) \/ i - Len(p) \in 1..Len(q)
      BY <2>1
    <3>2. \A i \in 1..(Len(p) + Len(q)) :
            (\E j \in 1..Len(p) : (p \o q)[i] = p[j]) \/ (\E j \in 1..Len(q) : (p \o q)[i] = q[j])
      BY <2>1, <2>2, <3>1
    <3> QED
      BY <2>1, <3>2 DEF ToSet
  <2>4. ToSet(p) \subseteq ToSet(p \o q)
    <3>1. \A i \in 1..Len(p) : i \in 1..(Len(p) + Len(q)) /\ (p \o q)[i] = p[i]
      BY <2>1, <2>2
    <3> QED
      BY <2>1, <3>1 DEF ToSet
  <2>5. ToSet(q) \subseteq ToSet(p \o q)
    <3>1. \A i \in 1..Len(q) : /\ Len(p) + i \in 1..(Len(p) + Len(q))
                               /\ (p \o q)[Len(p) + i] = q[i]
      BY <2>1, <2>2
    <3> QED
      BY <2>1, <3>1 DEF ToSet
  <2> QED
    BY <2>3, <2>4, <2>5
<1> QED
  BY <1>1, <1>2, <1>3

\* All reports that are accounted for; NoSilentLoss says that they are all.
Known == ToSet(queue) \cup ToSet(batch) \cup Settled

\* NoSilentLoss is kept if nothing is forgotten and nothing is sent.
LEMMA KnownKept ==
  ASSUME NoSilentLoss, UNCHANGED sent, Known \subseteq Known'
  PROVE  NoSilentLoss'
BY DEF NoSilentLoss, Known, Settled, Delivered

\* A session sends a report: it is queued or it counts as lost.
LEMMA LossSend ==
  ASSUME TypeOK, LossInv, NEW s \in Sessions, NEW state \in {"new", "active", "finished"},
         SendReport(s, state)
  PROVE  LossInv'
<1> DEFINE r == [session |-> s, n |-> sent[s] + 1, state |-> state]
<1>1. /\ sent \in [Sessions -> Nat] /\ queue \in Seq(Report)
      /\ sent' = [sent EXCEPT ![s] = sent[s] + 1] /\ SendRecord(r)
      /\ UNCHANGED <<daemon, batch, code, chef, received, dropped>>
  BY DEF TypeOK, SendReport, daemonVars
<1>2. r \in Report /\ r.session = s /\ r.n = sent[s] + 1
  BY <1>1 DEF Report
<1> HIDE DEF r
<1>3. Known \cup {r} \subseteq Known'
  <2>1. UNCHANGED <<ToSet(batch), dropped, Delivered>>
    BY <1>1 DEF Delivered
  <2>2. \/ ToSet(queue') = ToSet(queue) \cup {r} /\ lost' = lost
        \/ ToSet(queue') = ToSet(queue) /\ lost' = lost \cup {r}
    <3>1. queue \in Seq(Report) /\ r \in Report
      BY <1>1, <1>2
    <3>2. ToSet(Append(queue, r)) = ToSet(queue) \cup {r}
      BY <3>1, SetOfSeq
    <3>3. \/ queue' = Append(queue, r) /\ lost' = lost
          \/ queue' = queue /\ lost' = lost \cup {r}
      <4>1. SendRecord(r)
        BY <1>1
      <4> QED
        BY <4>1 DEF SendRecord
    <3> QED
      BY <3>2, <3>3
  <2> QED
    BY <2>1, <2>2 DEF Known, Settled
<1>4. NoSilentLoss'
  <2> SUFFICES ASSUME NEW t \in Sessions, NEW k \in 1..sent'[t]
               PROVE  \E x \in Known' : x.session = t /\ x.n = k
    BY DEF NoSilentLoss, Known, Settled, Delivered
  <2>1. CASE k \in 1..sent[t]
    BY <1>3, <2>1 DEF LossInv, NoSilentLoss, Known, Settled, Delivered
  <2>2. CASE k \notin 1..sent[t]
    <3>1. t = s /\ k = sent[s] + 1
      BY <1>1, <2>2
    <3> QED
      BY <1>2, <1>3, <3>1
  <2> QED
    BY <2>1, <2>2
<1>5. UploadHonest'
  BY <1>1 DEF LossInv, UploadHonest
<1> QED
  BY <1>4, <1>5 DEF LossInv

\* A step of the daemon: a report is taken from the queue, it stays in hand
\* until the upload ends, and then it is settled.
LEMMA LossDaemon ==
  ASSUME TypeOK, LossInv, DaemonStep
  PROVE  LossInv'
<1>1. UNCHANGED <<sent, lost>>
  BY DEF DaemonStep, ReadRecord, StopReading, PostToChef, UploadReturns, RecordsRead, DrainWakesUp
<1>2. queue \in Seq(Report) /\ batch \in Seq(Report) /\ received \in [Chefs -> Seq(Report)]
  BY DEF TypeOK
<1> SUFFICES UploadHonest' /\ Known \subseteq Known'
  BY <1>1, KnownKept DEF LossInv
<1>3. CASE ReadRecord
  <2>1. Head(queue) \in Report
    BY <1>2, <1>3 DEF ReadRecord
  <2>2. /\ ToSet(batch') = ToSet(batch) \cup {Head(queue)}
        /\ ToSet(queue) = {Head(queue)} \cup ToSet(queue')
    BY <1>2, <1>3, <2>1, SetOfSeq DEF ReadRecord
  <2>3. UNCHANGED <<code, daemon, Settled>> /\ daemon = "reading"
    BY <1>3 DEF ReadRecord, Settled, Delivered
  <2> QED
    BY <2>2, <2>3 DEF LossInv, UploadHonest, Known
<1>4. CASE StopReading
  <2>1. ToSet(<<>>) = {}
    BY DEF ToSet
  <2>2. daemon = "reading" /\ UNCHANGED <<queue, batch, code, chef, received, dropped>>
    BY <1>4 DEF StopReading
  <2>3. daemon' = "uploaded" => ToSet(batch) = {}
    BY <1>4, <2>1 DEF StopReading
  <2> QED
    BY <1>1, <2>2, <2>3 DEF LossInv, UploadHonest, Known, Settled, Delivered
<1>5. ASSUME NEW c \in Codes, PostToChef(c) PROVE UploadHonest' /\ Known \subseteq Known'
  <2>1. /\ daemon = "uploading" /\ UNCHANGED <<daemon, queue, batch, dropped>>
        /\ code' = c /\ chef' = chef + 1 /\ chef + 1 \in Chefs
    BY <1>5, PipelineAssumption DEF PostToChef, NextChef, TypeOK, Chefs
  <2>2. ToSet(received[chef + 1] \o batch) = ToSet(received[chef + 1]) \cup ToSet(batch)
    BY <1>2, <2>1, SetOfSeq
  <2>3. \/ received' = [received EXCEPT ![chef + 1] = received[chef + 1] \o batch]
        \/ c # 200 /\ received' = received
    BY <1>5 DEF PostToChef
  <2>4. c = 200 => ToSet(batch') \subseteq ToSet(received'[chef'])
    <3>1. c = 200 => received'[chef + 1] = received[chef + 1] \o batch
      BY <1>2, <2>1, <2>3
    <3>2. c = 200 => ToSet(received'[chef + 1]) = ToSet(received[chef + 1]) \cup ToSet(batch)
      BY <2>2, <3>1
    <3>3. batch' = batch /\ chef' = chef + 1
      BY <2>1
    <3>4. c = 200 => ToSet(batch) \subseteq ToSet(received'[chef + 1])
      BY <3>2
    <3> QED
      BY <3>3, <3>4
  <2>5. \A d \in Chefs : ToSet(received[d]) \subseteq ToSet(received'[d])
    BY <1>2, <2>1, <2>2, <2>3
  <2>6. Known \subseteq Known'
    BY <1>1, <2>1, <2>5 DEF Known, Settled, Delivered
  <2>7. UploadHonest'
    BY <2>1, <2>4 DEF UploadHonest
  <2> QED
    BY <2>6, <2>7
<1>6. CASE UploadReturns
  BY <1>1, <1>6 DEF UploadReturns, LossInv, UploadHonest, Known, Settled, Delivered
<1>7. CASE RecordsRead
  <2>1. daemon = "uploaded" /\ UNCHANGED <<queue, received, dropped>>
    BY <1>7 DEF RecordsRead
  <2>2. ToSet(batch) \subseteq Settled
    BY <2>1 DEF LossInv, UploadHonest, Settled, Delivered
  <2>3. code' = 599 /\ daemon' # "uploaded"
    BY <1>7 DEF RecordsRead
  <2> QED
    BY <1>1, <2>1, <2>2, <2>3 DEF UploadHonest, Known, Settled, Delivered
<1>8. CASE DrainWakesUp
  BY <1>1, <1>8 DEF DrainWakesUp, LossInv, UploadHonest, Known, Settled, Delivered
<1> QED
  BY <1>3, <1>4, <1>5, <1>6, <1>7, <1>8 DEF DaemonStep

\* The invariant of the accounting holds at first and is kept.
LEMMA LossInductive ==
  /\ Init => LossInv
  /\ TypeOK /\ LossInv /\ [Next]_vars => LossInv'
<1>1. Init => LossInv
  BY DEF Init, LossInv, UploadHonest, NoSilentLoss
<1>2. ASSUME TypeOK, LossInv, [Next]_vars PROVE LossInv'
  <2>1. CASE SignalSessions \/ MasterStep \/ MonitorStep \/ Tick \/ (\E s \in Sessions : EndsSilently(s))
             \/ UNCHANGED vars
    <3>1. UNCHANGED <<sent, queue, lost, daemonVars>>
      BY <2>1 DEF SignalSessions, MasterStep, SignalDaemon, DaemonReaped, SigintMonitor, MonitorReaped,
         RsyslogReaped, MonitorStep, MonitorReady, MonitorPauses, MonitorStops, Tick, EndsSilently,
                  vars, daemonVars
    <3> QED
      BY <1>2, <3>1 DEF daemonVars, LossInv, UploadHonest, NoSilentLoss
  <2>2. CASE \E s \in Sessions : \E state \in {"new", "active", "finished"} : SendReport(s, state)
    BY <1>2, <2>2, LossSend
  <2> QED
    BY <1>2, <2>1, <2>2, LossDaemon DEF Next, SessionStep
<1> QED
  BY <1>1, <1>2

\* No report vanishes between susshi_report_client_send_report() and the Chef
\* servers, although the results of mq_send() and of the upload are ignored: the
\* two places where one may be given up are the full queue and the failed upload.
THEOREM NothingLostSilently == Spec => []NoSilentLoss
<1>1. LossInv => NoSilentLoss
  BY DEF LossInv
<1> QED
  BY <1>1, TypeCorrect, LossInductive, PTL DEF Spec

-----------------------------------------------------------------------------
(***************************************************************************)
(* Order.                                                                  *)
(***************************************************************************)

\* The reports of p are older than those of q.
Precedes(p, q) ==
  \A i \in 1..Len(p), j \in 1..Len(q) : p[i].session = q[j].session => p[i].n < q[j].n

\* The reports of p were sent.
WereSent(p) == \A i \in 1..Len(p) : p[i].n <= sent[p[i].session]

\* The bulk in hand comes before the queue.
InHand ==
  /\ Ordered(batch) /\ Ordered(queue) /\ Precedes(batch, queue)
  /\ WereSent(batch) /\ WereSent(queue)

\* What a Chef server has comes before the queue, and before the bulk in hand as
\* long as the server was not asked to take it.
AtChef(c) ==
  /\ Ordered(received[c]) /\ WereSent(received[c])
  /\ Precedes(received[c], queue)
  /\ c > chef => Precedes(received[c], batch)

\* No server was asked while the bulk is collected.
NobodyAsked == daemon \notin {"uploading", "uploaded"} => chef = 0

OrderInv == InHand /\ NobodyAsked /\ \A c \in Chefs : AtChef(c)

\* Report r is younger than those of p, older than those of q.
Younger(r, p) == \A i \in 1..Len(p) : p[i].session = r.session => p[i].n < r.n
Older(r, q) == \A i \in 1..Len(q) : r.session = q[i].session => r.n < q[i].n

\* A report is appended.
LEMMA OrderAppend ==
  ASSUME NEW p \in Seq(Report), NEW r \in Report
  PROVE  /\ Ordered(p) /\ Younger(r, p) => Ordered(Append(p, r))
         /\ \A q \in Seq(Report) :
              /\ Precedes(q, p) /\ Younger(r, q) => Precedes(q, Append(p, r))
              /\ Precedes(p, q) /\ Older(r, q) => Precedes(Append(p, r), q)
<1> DEFINE a == Append(p, r)
<1>1. Len(p) \in Nat /\ Len(a) = Len(p) + 1
  OBVIOUS
<1>2. \A i \in 1..Len(a) : IF i \in 1..Len(p) THEN a[i] = p[i] ELSE i = Len(p) + 1 /\ a[i] = r
  BY <1>1
<1> HIDE DEF a
<1>3. Ordered(p) /\ Younger(r, p) => Ordered(a)
  BY <1>1, <1>2 DEF Ordered, Younger
<1>4. ASSUME NEW q \in Seq(Report), Precedes(q, p), Younger(r, q) PROVE Precedes(q, a)
  BY <1>1, <1>2, <1>4 DEF Precedes, Younger
<1>5. ASSUME NEW q \in Seq(Report), Precedes(p, q), Older(r, q) PROVE Precedes(a, q)
  BY <1>1, <1>2, <1>5 DEF Precedes, Older
<1> QED
  BY <1>3, <1>4, <1>5 DEF a

\* The first report is taken off.
LEMMA OrderTail ==
  ASSUME NEW q \in Seq(Report), q # <<>>
  PROVE  /\ Ordered(q) => Ordered(Tail(q)) /\ Older(Head(q), Tail(q))
         /\ \A p \in Seq(Report) :
              Precedes(p, q) => Precedes(p, Tail(q)) /\ Younger(Head(q), p)
<1> DEFINE t == Tail(q)
<1> DEFINE h == Head(q)
<1>1. Len(q) \in Nat /\ Len(q) > 0 /\ Len(t) = Len(q) - 1
  OBVIOUS
<1>2. \A i \in 1..Len(t) : i + 1 \in 2..Len(q) /\ t[i] = q[i + 1]
  BY <1>1
<1>3. h = q[1] /\ 1 \in 1..Len(q) /\ \A i \in 2..Len(q) : i \in 1..Len(q) /\ 1 < i
  BY <1>1
<1> HIDE DEF t, h
<1>4. Ordered(q) => Ordered(t)
  <2> SUFFICES ASSUME Ordered(q), NEW i \in 1..Len(t), NEW j \in 1..Len(t),
                      i < j, t[i].session = t[j].session
               PROVE  t[i].n < t[j].n
    BY DEF Ordered
  <2>1. /\ i + 1 \in 1..Len(q) /\ j + 1 \in 1..Len(q) /\ i + 1 < j + 1
        /\ t[i] = q[i + 1] /\ t[j] = q[j + 1]
    BY <1>1, <1>2
  <2> QED
    BY <2>1 DEF Ordered
<1>5. Ordered(q) => Older(h, t)
  BY <1>2, <1>3 DEF Ordered, Older
<1>6. ASSUME NEW p \in Seq(Report), Precedes(p, q) PROVE Precedes(p, t) /\ Younger(h, p)
  BY <1>2, <1>3, <1>6 DEF Precedes, Younger
<1> QED
  BY <1>4, <1>5, <1>6 DEF t, h

\* A bulk is appended to what a Chef server has.
LEMMA OrderConcat ==
  ASSUME NEW p \in Seq(Report), NEW b \in Seq(Report)
  PROVE  /\ Ordered(p) /\ Ordered(b) /\ Precedes(p, b) => Ordered(p \o b)
         /\ \A q \in Seq(Report) : Precedes(p, q) /\ Precedes(b, q) => Precedes(p \o b, q)
<1> DEFINE a == p \o b
<1>1. Len(p) \in Nat /\ Len(b) \in Nat /\ Len(a) = Len(p) + Len(b)
  OBVIOUS
<1>2. \A i \in 1..Len(a) :
        IF i \in 1..Len(p) THEN a[i] = p[i]
        ELSE i > Len(p) /\ i - Len(p) \in 1..Len(b) /\ a[i] = b[i - Len(p)]
  BY <1>1
<1> HIDE DEF a
<1>3. Ordered(p) /\ Ordered(b) /\ Precedes(p, b) => Ordered(a)
  <2> SUFFICES ASSUME Ordered(p), Ordered(b), Precedes(p, b),
                      NEW i \in 1..Len(a), NEW j \in 1..Len(a),
                      i < j, a[i].session = a[j].session
               PROVE  a[i].n < a[j].n
    BY DEF Ordered
  <2>1. CASE j \in 1..Len(p)
    BY <1>1, <1>2, <2>1 DEF Ordered
  <2>2. CASE i \in 1..Len(p) /\ j \notin 1..Len(p)
    BY <1>1, <1>2, <2>2 DEF Precedes
  <2>3. CASE i \notin 1..Len(p) /\ j \notin 1..Len(p)
    <3>1. /\ i - Len(p) \in 1..Len(b) /\ j - Len(p) \in 1..Len(b) /\ i - Len(p) < j - Len(p)
          /\ a[i] = b[i - Len(p)] /\ a[j] = b[j - Len(p)]
      BY <1>1, <1>2, <2>3
    <3> QED
      BY <3>1 DEF Ordered
  <2> QED
    BY <2>1, <2>2, <2>3
<1>4. ASSUME NEW q \in Seq(Report), Precedes(p, q), Precedes(b, q) PROVE Precedes(a, q)
  BY <1>2, <1>4 DEF Precedes
<1> QED
  BY <1>3, <1>4 DEF a

\* The reports of a sequence were sent, after it was appended to, shortened or
\* put behind another.
LEMMA SentSeq ==
  ASSUME NEW p \in Seq(Report), WereSent(p)
  PROVE  /\ \A r \in Report : r.n <= sent[r.session] => WereSent(Append(p, r))
         /\ p # <<>> => WereSent(Tail(p)) /\ Head(p).n <= sent[Head(p).session]
         /\ \A q \in Seq(Report) : WereSent(q) => WereSent(p \o q)
<1>1. ASSUME NEW r \in Report, r.n <= sent[r.session] PROVE WereSent(Append(p, r))
  <2>1. /\ Len(Append(p, r)) = Len(p) + 1 /\ Len(p) \in Nat
        /\ \A i \in 1..(Len(p) + 1) : Append(p, r)[i] = IF i \in 1..Len(p) THEN p[i] ELSE r
    OBVIOUS
  <2> QED
    BY <1>1, <2>1 DEF WereSent
<1>2. ASSUME p # <<>> PROVE WereSent(Tail(p)) /\ Head(p).n <= sent[Head(p).session]
  <2>1. Len(p) \in Nat /\ Len(p) > 0 /\ Len(Tail(p)) = Len(p) - 1 /\ Head(p) = p[1]
    BY <1>2
  <2>2. \A i \in 1..Len(Tail(p)) : i + 1 \in 1..Len(p) /\ Tail(p)[i] = p[i + 1]
    BY <1>2, <2>1
  <2> QED
    BY <2>1, <2>2 DEF WereSent
<1>3. ASSUME NEW q \in Seq(Report), WereSent(q) PROVE WereSent(p \o q)
  <2>1. Len(p) \in Nat /\ Len(q) \in Nat /\ Len(p \o q) = Len(p) + Len(q)
    OBVIOUS
  <2>2. \A i \in 1..Len(p \o q) :
          IF i \in 1..Len(p) THEN (p \o q)[i] = p[i]
          ELSE i - Len(p) \in 1..Len(q) /\ (p \o q)[i] = q[i - Len(p)]
    BY <2>1
  <2> QED
    BY <1>3, <2>2 DEF WereSent
<1> QED
  BY <1>1, <1>2, <1>3

\* A session sends a report, younger than all that it sent before.
LEMMA OrderSend ==
  ASSUME TypeOK, OrderInv, NEW s \in Sessions, NEW state \in {"new", "active", "finished"},
         SendReport(s, state)
  PROVE  OrderInv'
<1> DEFINE r == [session |-> s, n |-> sent[s] + 1, state |-> state]
<1>1. /\ sent \in [Sessions -> Nat] /\ queue \in Seq(Report) /\ batch \in Seq(Report)
      /\ received \in [Chefs -> Seq(Report)]
      /\ sent' = [sent EXCEPT ![s] = sent[s] + 1]
      /\ UNCHANGED <<daemon, batch, chef, received>>
  BY DEF TypeOK, SendReport, daemonVars
<1>2. SendRecord(r)
  BY DEF SendReport
<1>3. r \in Report /\ r.session = s /\ r.n = sent[s] + 1
  BY <1>1 DEF Report
<1> HIDE DEF r
<1>4. queue' = queue \/ queue' = Append(queue, r)
  BY <1>2 DEF SendRecord
<1>5. ASSUME NEW p \in Seq(Report), WereSent(p)
      PROVE  Younger(r, p) /\ WereSent(p)' /\ (Precedes(p, queue) => Precedes(p, queue'))
  <2>1. \A i \in 1..Len(p) : p[i].session \in Sessions /\ p[i].n \in Nat
    <3>1. \A i \in 1..Len(p) : p[i] \in Report
      OBVIOUS
    <3> QED
      BY <3>1 DEF Report
  <2>2. \A x \in Sessions : sent[x] \in Nat /\ sent'[x] \in Nat /\ sent[x] <= sent'[x]
    BY <1>1
  <2>3. \A i \in 1..Len(p) : p[i].n <= sent[p[i].session]
    BY <1>5 DEF WereSent
  <2>4. Younger(r, p)
    BY <1>3, <2>1, <2>2, <2>3 DEF Younger
  <2>5. \A i \in 1..Len(p) : p[i].n <= sent'[p[i].session]
    BY <2>1, <2>2, <2>3
  <2>6. Precedes(p, queue) => Precedes(p, queue')
    BY <1>1, <1>3, <1>4, <2>4, OrderAppend
  <2> QED
    BY <2>4, <2>5, <2>6 DEF WereSent
<1>6. Ordered(queue') /\ WereSent(queue)'
  <2>1. Ordered(queue') /\ Younger(r, queue) /\ \A i \in 1..Len(queue) : queue[i].n <= sent'[queue[i].session]
    BY <1>1, <1>3, <1>4, <1>5, OrderAppend DEF OrderInv, InHand, WereSent
  <2>2. CASE queue' = Append(queue, r)
    <3>1. /\ Len(queue') = Len(queue) + 1 /\ Len(queue) \in Nat
          /\ \A i \in 1..(Len(queue) + 1) : queue'[i] = IF i \in 1..Len(queue) THEN queue[i] ELSE r
      BY <1>1, <1>3, <2>2
    <3>2. r.n <= sent'[r.session]
      BY <1>1, <1>3
    <3> QED
      BY <2>1, <3>1, <3>2 DEF WereSent
  <2> QED
    BY <1>4, <2>1, <2>2 DEF WereSent
<1>7. InHand'
  BY <1>1, <1>5, <1>6 DEF OrderInv, InHand
<1>8. ASSUME NEW c \in Chefs PROVE AtChef(c)'
  <2>1. received[c] \in Seq(Report) /\ AtChef(c)
    BY <1>1 DEF OrderInv
  <2>2. WereSent(received[c])' /\ Precedes(received[c], queue')
    BY <1>1, <1>5, <2>1 DEF AtChef
  <2> QED
    BY <1>1, <2>1, <2>2 DEF AtChef
<1>9. NobodyAsked'
  BY <1>1 DEF OrderInv, NobodyAsked
<1> QED
  BY <1>7, <1>8, <1>9 DEF OrderInv

\* The daemon takes the oldest report of the queue into its bulk.
LEMMA OrderRead ==
  ASSUME TypeOK, OrderInv, ReadRecord
  PROVE  OrderInv'
<1> DEFINE h == Head(queue)
<1>1. /\ queue \in Seq(Report) /\ batch \in Seq(Report) /\ received \in [Chefs -> Seq(Report)]
      /\ queue # <<>>
  BY DEF TypeOK, ReadRecord
<1>2. batch' = Append(batch, h) /\ queue' = Tail(queue) /\ UNCHANGED <<sent, received, chef, daemon>>
  BY DEF ReadRecord
<1>3. h \in Report /\ Tail(queue) \in Seq(Report)
  BY <1>1
<1> HIDE DEF h
<1>4. /\ Ordered(Tail(queue)) /\ Older(h, Tail(queue))
      /\ Precedes(batch, Tail(queue)) /\ Younger(h, batch)
  BY <1>1, OrderTail DEF h, OrderInv, InHand
<1>5. Ordered(batch') /\ Precedes(batch', queue')
  BY <1>1, <1>2, <1>3, <1>4, OrderAppend DEF OrderInv, InHand
<1>6. WereSent(Append(batch, h)) /\ WereSent(Tail(queue))
  BY <1>1, <1>3, SentSeq DEF h, OrderInv, InHand
<1>7. InHand'
  BY <1>2, <1>4, <1>5, <1>6 DEF InHand, WereSent
<1>8. ASSUME NEW c \in Chefs PROVE AtChef(c)'
  <2>1. received[c] \in Seq(Report) /\ AtChef(c) /\ c > chef
    BY <1>1, PipelineAssumption DEF OrderInv, NobodyAsked, ReadRecord, Chefs
  <2>2. Precedes(received[c], Tail(queue)) /\ Younger(h, received[c])
    BY <1>1, <2>1, OrderTail DEF h, AtChef
  <2>3. Precedes(received[c], Append(batch, h))
    BY <1>1, <1>3, <2>1, <2>2, OrderAppend DEF AtChef
  <2> QED
    BY <1>2, <2>1, <2>2, <2>3 DEF AtChef, WereSent
<1>9. NobodyAsked'
  BY <1>2 DEF OrderInv, NobodyAsked
<1> QED
  BY <1>7, <1>8, <1>9 DEF OrderInv

\* A Chef server takes the bulk, which it was not asked to take before.
LEMMA OrderPost ==
  ASSUME TypeOK, OrderInv, NEW k \in Codes, PostToChef(k)
  PROVE  OrderInv'
<1>1. /\ queue \in Seq(Report) /\ batch \in Seq(Report) /\ received \in [Chefs -> Seq(Report)]
      /\ chef \in Nat /\ chef' = chef + 1 /\ chef + 1 \in Chefs /\ daemon = "uploading"
      /\ UNCHANGED <<sent, queue, batch, daemon>>
  BY PipelineAssumption DEF TypeOK, PostToChef, NextChef, Chefs
<1>2. \/ received' = received
      \/ received' = [received EXCEPT ![chef + 1] = received[chef + 1] \o batch]
  BY DEF PostToChef
<1>3. InHand' /\ NobodyAsked'
  BY <1>1 DEF OrderInv, InHand, NobodyAsked, WereSent
<1>4. ASSUME NEW c \in Chefs PROVE AtChef(c)'
  <2>1. received[c] \in Seq(Report) /\ AtChef(c) /\ InHand /\ c \in Nat
    BY <1>1 DEF OrderInv, Chefs
  <2>2. CASE received'[c] = received[c]
    BY <1>1, <2>1, <2>2 DEF AtChef, WereSent
  <2>3. CASE c = chef + 1 /\ received'[c] = received[c] \o batch
    <3>1. Ordered(received[c] \o batch) /\ Precedes(received[c] \o batch, queue)
      BY <1>1, <2>1, <2>3, OrderConcat DEF AtChef, InHand
    <3>2. WereSent(received[c] \o batch)
      BY <1>1, <2>1, SentSeq DEF AtChef, InHand
    <3>3. ~(c > chef')
      BY <1>1, <2>3
    <3> QED
      BY <1>1, <2>3, <3>1, <3>2, <3>3 DEF AtChef, WereSent
  <2> QED
    BY <1>1, <1>2, <2>2, <2>3
<1> QED
  BY <1>3, <1>4 DEF OrderInv

\* The next bulk starts empty.
LEMMA OrderNewBulk ==
  ASSUME TypeOK, OrderInv, RecordsRead
  PROVE  OrderInv'
<1>1. batch' = <<>> /\ chef' = 0 /\ UNCHANGED <<sent, queue, received>>
  BY DEF RecordsRead
<1>2. \A q : Ordered(<<>>) /\ Precedes(<<>>, q) /\ Precedes(q, <<>>)
  BY DEF Ordered, Precedes
<1>3. WereSent(batch)'
  BY <1>1 DEF WereSent
<1>4. InHand' /\ NobodyAsked'
  BY <1>1, <1>2, <1>3 DEF OrderInv, InHand, NobodyAsked, WereSent
<1>5. \A c \in Chefs : AtChef(c)'
  BY <1>1, <1>2 DEF OrderInv, AtChef, WereSent
<1> QED
  BY <1>4, <1>5 DEF OrderInv

\* The invariant of the order holds at first and is kept.
LEMMA OrderInductive ==
  /\ Init => OrderInv
  /\ TypeOK /\ OrderInv /\ [Next]_vars => OrderInv'
<1>1. ASSUME Init PROVE OrderInv
  <2>1. queue = <<>> /\ batch = <<>> /\ chef = 0 /\ \A c \in Chefs : received[c] = <<>>
    BY <1>1 DEF Init
  <2>2. Ordered(<<>>) /\ Precedes(<<>>, <<>>) /\ WereSent(<<>>)
    BY DEF Ordered, Precedes, WereSent
  <2> QED
    BY <2>1, <2>2 DEF OrderInv, InHand, NobodyAsked, AtChef
<1>2. ASSUME TypeOK, OrderInv, [Next]_vars PROVE OrderInv'
  <2>1. CASE SignalSessions \/ MasterStep \/ MonitorStep \/ Tick \/ (\E s \in Sessions : EndsSilently(s))
             \/ StopReading \/ UploadReturns \/ DrainWakesUp \/ UNCHANGED vars
    <3>1. /\ UNCHANGED <<sent, queue, batch, chef, received>>
          /\ \/ daemon' = daemon
             \/ daemon' \in {"uploading", "uploaded"}
             \/ daemon = "sleeping" /\ daemon' = "reading"
      BY <2>1 DEF SignalSessions, MasterStep, SignalDaemon, DaemonReaped, SigintMonitor, MonitorReaped,
         RsyslogReaped, MonitorStep, MonitorReady, MonitorPauses, MonitorStops, Tick, EndsSilently,
                  StopReading, UploadReturns, DrainWakesUp, vars, daemonVars
    <3> QED
      BY <1>2, <3>1 DEF OrderInv, InHand, NobodyAsked, AtChef, WereSent
  <2>2. CASE \E s \in Sessions : \E state \in {"new", "active", "finished"} : SendReport(s, state)
    BY <1>2, <2>2, OrderSend
  <2> QED
    BY <1>2, <2>1, <2>2, OrderRead, OrderPost, OrderNewBulk DEF Next, SessionStep, DaemonStep
<1> QED
  BY <1>1, <1>2

\* No Chef server sees the reports of a session out of order or twice, although
\* susshi_chef_json_post() sends a bulk again, to the next server, when it does
\* not know whether the last one took it.
THEOREM ReportsInOrder == Spec => []ChefsSeeOrder
<1>1. OrderInv => ChefsSeeOrder
  BY DEF OrderInv, AtChef, ChefsSeeOrder
<1> QED
  BY <1>1, TypeCorrect, OrderInductive, PTL DEF Spec
=============================================================================
