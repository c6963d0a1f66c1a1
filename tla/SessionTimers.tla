--------------------------- MODULE SessionTimers ---------------------------
(***************************************************************************)
(* The interval timer of a session process (src/susshid/signal.c).         *)
(*                                                                         *)
(* One ITIMER_REAL serves four purposes: the maximum session time, the     *)
(* maximum idle time, the periodic report and the log rotation.  The timer *)
(* is set to whatever comes first, plus two seconds; the SIGALRM handler   *)
(* closes the session or reports, and sets the timer again.  Packets move  *)
(* the time of the last I/O, but never the timer.                          *)
(***************************************************************************)
EXTENDS Integers, FiniteSetsExt

CONSTANTS
  MaxSessionSecs,  \* susshi_session.max_session_secs, from Chef
  MaxIdleSecs,     \* susshi_session.max_session_idle_secs, from Chef
  ReportPeriod,    \* susshi_cfg.report_period
  LogPeriods,      \* what determine_next_log_period() may answer
  Horizon          \* bound: the clock stops at this second

ASSUME TimersAssumption ==
  /\ MaxSessionSecs \in Nat
  /\ MaxIdleSecs \in Nat
  /\ ReportPeriod \in Nat \ {0}
  /\ LogPeriods \subseteq Nat
  /\ Horizon \in Nat

VARIABLES
  now,          \* time(NULL), counted from the connection
  phase,        \* what the process is doing
  lastIo,       \* susshi_report.last_io_time
  armed,        \* the timer is running
  deadline,     \* when it expires, if it is running
  startedAt,    \* history: when the login ended
  reportedAt    \* history: when the last report was sent

timersVars == <<now, phase, lastIo, armed, deadline, startedAt, reportedAt>>

\* susshi_report.session_start_time: the second in which the client connected.
sessionStart == 0

\* Seconds added "for further calculations in susshi_timer_alarm_handler".
SafetyBuffer == 2

\* The log timer fires this many seconds after midnight.
LogDelay == 5

Phases == {"login", "running", "closed", "fatal"}

TimersTypeOK ==
  /\ now \in Nat
  /\ phase \in Phases
  /\ lastIo \in 0..now
  /\ armed \in BOOLEAN
  /\ deadline \in Nat
  /\ startedAt \in 0..now
  /\ reportedAt \in 0..now

-----------------------------------------------------------------------------
\* Seconds until the session has lasted, or has been idle, for its maximum.
UntilMaxSession == sessionStart + MaxSessionSecs - now
UntilMaxIdle == lastIo + MaxIdleSecs - now

\* Seconds until the next multiple of the report period.
UntilReport ==
  sessionStart + ((now - sessionStart) \div ReportPeriod + 1) * ReportPeriod - now

\* Mutant of Delay: the idle time is left out.
DelayWithoutIdle(log) ==
  Min({UntilMaxSession, UntilReport, log + LogDelay}) + SafetyBuffer

\* The value given to setitimer().
Delay(log) ==
  Min({UntilMaxSession, UntilMaxIdle, UntilReport, log + LogDelay}) + SafetyBuffer

\* setitimer() refuses a negative value, which
\* is fatal, and takes zero as the request to stop the timer.
susshi_timer_alarms_register ==
  \E log \in LogPeriods :
    IF Delay(log) < 0
      THEN /\ phase' = "fatal"
           /\ armed' = FALSE
           /\ UNCHANGED deadline
      ELSE /\ phase' = "running"
           /\ armed' = (Delay(log) > 0)
           /\ deadline' = now + Delay(log)

TimersInit ==
  /\ now = 0
  /\ phase = "login"
  /\ lastIo = 0
  /\ armed = FALSE
  /\ deadline = 0
  /\ startedAt = 0
  /\ reportedAt = 0

\* The login to the target succeeded: the timer is set for the first time and
\* the first report is sent.
TimersStart ==
  /\ phase = "login"
  /\ susshi_timer_alarms_register
  /\ startedAt' = now
  /\ reportedAt' = now
  /\ UNCHANGED <<now, lastIo>>

\* A packet of the client or the target that counts as I/O.
Packet ==
  /\ phase = "running"
  /\ lastIo' = now
  /\ UNCHANGED <<now, phase, armed, deadline, startedAt, reportedAt>>

Expired == UntilMaxSession <= 0 \/ UntilMaxIdle <= 0

\* susshi_timer_alarm_handler() when a maximum is reached.
AlarmCloses ==
  /\ phase = "running" /\ armed /\ now = deadline
  /\ Expired
  /\ phase' = "closed"
  /\ armed' = FALSE
  /\ UNCHANGED <<now, lastIo, deadline, startedAt, reportedAt>>

\* Mutant of AlarmReports: the handler does not set the timer again.
AlarmReportsOnce ==
  /\ phase = "running" /\ armed /\ now = deadline
  /\ ~Expired
  /\ reportedAt' = now
  /\ armed' = FALSE
  /\ UNCHANGED <<now, phase, lastIo, deadline, startedAt>>

\* susshi_timer_alarm_handler() otherwise: report and set the timer again.
AlarmReports ==
  /\ phase = "running" /\ armed /\ now = deadline
  /\ ~Expired
  /\ reportedAt' = now
  /\ susshi_timer_alarms_register
  /\ UNCHANGED <<now, lastIo, startedAt>>

\* The client or the target ends the session.
PeerEnds ==
  /\ phase \in {"login", "running"}
  /\ phase' = "closed"
  /\ armed' = FALSE
  /\ UNCHANGED <<now, lastIo, deadline, startedAt, reportedAt>>

\* A second passes.  SIGALRM is delivered in the second in which it is due.
Tick ==
  /\ phase \in {"login", "running"}
  /\ armed => now < deadline
  /\ now < Horizon
  /\ now' = now + 1
  /\ UNCHANGED <<phase, lastIo, armed, deadline, startedAt, reportedAt>>

TimersNext == TimersStart \/ Packet \/ AlarmCloses \/ AlarmReports \/ PeerEnds \/ Tick

TimersSpec == TimersInit /\ [][TimersNext]_timersVars

TimersFairSpec ==
  /\ TimersSpec /\ WF_timersVars(Tick)
  /\ WF_timersVars(AlarmCloses) /\ WF_timersVars(AlarmReports)

-----------------------------------------------------------------------------
(***************************************************************************)
(* Properties.                                                             *)
(***************************************************************************)

\* The login ended before a maximum was exceeded by the safety buffer.
TimelyLogin ==
  /\ startedAt < sessionStart + MaxSessionSecs + SafetyBuffer
  /\ startedAt < MaxIdleSecs + SafetyBuffer

\* After a timely login no session outlives its maximum time, and none stays
\* idle for longer than its maximum, by more than the safety buffer, although
\* packets never touch the timer.
LimitsEnforced ==
  phase = "running" /\ TimelyLogin =>
    /\ now <= sessionStart + MaxSessionSecs + SafetyBuffer
    /\ now <= lastIo + MaxIdleSecs + SafetyBuffer

\* After a timely login a running session has sent a report within the last
\* report period, give or take the safety buffer: Chef sees no silent session.
ReportsRegular ==
  phase = "running" /\ TimelyLogin => now <= reportedAt + ReportPeriod + SafetyBuffer

\* No setitimer() call of the handler ever fails, nor stops the timer.
TimerKeepsRunning ==
  [][phase = "running" /\ armed => phase' = "closed" \/ armed']_timersVars

\* After a timely login the session is closed in the end, whatever the peers
\* do: the maximum session time needs no cooperation.
SessionEnds == phase = "running" /\ TimelyLogin ~> phase = "closed"

============================================================================
