--------------------------- MODULE SessionProofs ---------------------------
(***************************************************************************)
(* Proofs about a session process: about its interval timer, SessionTimers,*)
(* for all limits, report periods and answers of                           *)
(* determine_next_log_period(); and about its life, SessionLife and        *)
(* SessionReports, for every set of modes, every number of targets and     *)
(* alarms, and every set of places at which SIGALRM may interrupt the main *)
(* program.  The two specifications share no variable.                     *)
(***************************************************************************)
EXTENDS SessionTimers, SessionReports, TLAPS

-----------------------------------------------------------------------------
(***************************************************************************)
(* The value given to setitimer().                                         *)
(***************************************************************************)

\* The minimum of four integers is one of them and bounds them all.
LEMMA MinOfFour ==
  ASSUME NEW a \in Int, NEW b \in Int, NEW c \in Int, NEW d \in Int,
         NEW S, S = {a, b, c, d}
  PROVE  Min(S) \in S /\ \A x \in S : Min(S) <= x
<1>1. \E x \in S : \A y \in S : x <= y
  <2>1. CASE a <= b /\ a <= c /\ a <= d
    BY <2>1
  <2>2. CASE b <= a /\ b <= c /\ b <= d
    BY <2>2
  <2>3. CASE c <= a /\ c <= b /\ c <= d
    BY <2>3
  <2>4. CASE d <= a /\ d <= b /\ d <= c
    BY <2>4
  <2>5. QED
    BY <2>1, <2>2, <2>3, <2>4
<1>2. Min(S) = CHOOSE x \in S : \A y \in S : x <= y
  BY DEF Min
<1> DEFINE least(x) == \A y \in S : x <= y
<1>3. \E x \in S : least(x)
  BY <1>1
<1>4. Min(S) = CHOOSE x \in S : least(x)
  BY <1>2
<1> HIDE DEF least
<1>5. Min(S) \in S /\ least(Min(S))
  BY <1>3, <1>4, Zenon
<1>6. QED
  BY <1>5 DEF least

\* The next report is due in one to ReportPeriod seconds.
LEMMA UntilReportBounds ==
  ASSUME now \in Nat
  PROVE  UntilReport \in 1..ReportPeriod
<1> USE TimersAssumption
<1> DEFINE q == now \div ReportPeriod
           r == now % ReportPeriod
<1>1. /\ q \in Nat
      /\ r \in 0..(ReportPeriod - 1)
      /\ now = ReportPeriod * q + r
  OBVIOUS
<1>2. UntilReport = (q + 1) * ReportPeriod - now
  BY DEF UntilReport, sessionStart
<1> HIDE DEF q, r
<1>3. (q + 1) * ReportPeriod = ReportPeriod * q + ReportPeriod
  BY <1>1
<1>4. QED
  BY <1>1, <1>2, <1>3

\* The timer is set to the first of the four events, plus the safety buffer.
LEMMA DelayBounds ==
  ASSUME TimersTypeOK, NEW log \in LogPeriods
  PROVE  /\ Delay(log) \in Int
         /\ Delay(log) <= UntilMaxSession + SafetyBuffer
         /\ Delay(log) <= UntilMaxIdle + SafetyBuffer
         /\ Delay(log) <= ReportPeriod + SafetyBuffer
         /\ (UntilMaxSession + SafetyBuffer > 0 /\ UntilMaxIdle + SafetyBuffer > 0)
              => Delay(log) > 0
<1> USE TimersAssumption
<1>1. /\ UntilMaxSession \in Int
      /\ UntilMaxIdle \in Int
      /\ UntilReport \in 1..ReportPeriod
      /\ log + LogDelay \in Int /\ log + LogDelay > 0
  BY UntilReportBounds DEF TimersTypeOK, UntilMaxSession, UntilMaxIdle, sessionStart, LogDelay
<1> DEFINE l == log + LogDelay
           S == {UntilMaxSession, UntilMaxIdle, UntilReport, l}
           m == Min(S)
<1>2. l \in Int /\ UntilReport \in Int
  BY <1>1
<1>3. Delay(log) = m + 2
  BY DEF Delay, SafetyBuffer
<1>4. l > 0
  BY <1>1
<1> HIDE DEF l
<1>5. m \in S /\ \A x \in S : m <= x
  <2>1. S = {UntilMaxSession, UntilMaxIdle, UntilReport, l}
    OBVIOUS
  <2> HIDE DEF S
  <2>2. QED
    BY <1>1, <1>2, <2>1, MinOfFour, Zenon
<1> HIDE DEF m
<1>6. QED
  BY <1>1, <1>2, <1>3, <1>4, <1>5 DEF SafetyBuffer

-----------------------------------------------------------------------------
(***************************************************************************)
(* The inductive invariant.  What makes LimitsEnforced and ReportsRegular  *)
(* true is that the deadline never lies behind any of the limits, which    *)
(* packets can only move away from it.                                     *)
(***************************************************************************)

DeadlineCovers ==
  armed => /\ phase = "running"
           /\ now <= deadline
           /\ deadline <= sessionStart + MaxSessionSecs + SafetyBuffer
           /\ deadline <= lastIo + MaxIdleSecs + SafetyBuffer
           /\ deadline <= reportedAt + ReportPeriod + SafetyBuffer

\* No I/O is counted before the session loop runs.
NoIoDuringLogin == phase = "login" => lastIo = 0 /\ ~armed

TimelyIsArmed == phase = "running" /\ TimelyLogin => armed

IInv == TimersTypeOK /\ DeadlineCovers /\ NoIoDuringLogin /\ TimelyIsArmed

\* It holds when the client connects.
LEMMA InitIInv == TimersInit => IInv
<1> SUFFICES ASSUME TimersInit PROVE IInv
  OBVIOUS
<1>1. armed = FALSE /\ phase = "login" /\ lastIo = 0
  BY DEF TimersInit
<1>2. armed \in BOOLEAN
  BY <1>1, Zenon
<1>3. TimersTypeOK
  BY <1>2 DEF TimersInit, TimersTypeOK, Phases
<1>4. QED
  BY <1>1, <1>3 DEF IInv, DeadlineCovers, NoIoDuringLogin, TimelyIsArmed

\* Setting the timer in a state of the right type.
LEMMA RegisterStep ==
  ASSUME TimersTypeOK, susshi_timer_alarms_register
  PROVE  /\ phase' \in {"running", "fatal"}
         /\ armed' \in BOOLEAN
         /\ deadline' \in Nat
         /\ armed' => /\ phase' = "running"
                      /\ now < deadline'
                      /\ deadline' <= sessionStart + MaxSessionSecs + SafetyBuffer
                      /\ deadline' <= lastIo + MaxIdleSecs + SafetyBuffer
                      /\ deadline' <= now + ReportPeriod + SafetyBuffer
         /\ (UntilMaxSession + SafetyBuffer > 0 /\ UntilMaxIdle + SafetyBuffer > 0)
              => armed' /\ phase' = "running"
<1> USE TimersAssumption
<1>1. PICK log \in LogPeriods :
        \/ Delay(log) < 0 /\ phase' = "fatal" /\ armed' = FALSE /\ deadline' = deadline
        \/ /\ ~(Delay(log) < 0)
           /\ phase' = "running"
           /\ armed' = (Delay(log) > 0)
           /\ deadline' = now + Delay(log)
  BY DEF susshi_timer_alarms_register
<1>2. /\ Delay(log) \in Int
      /\ Delay(log) <= UntilMaxSession + SafetyBuffer
      /\ Delay(log) <= UntilMaxIdle + SafetyBuffer
      /\ Delay(log) <= ReportPeriod + SafetyBuffer
      /\ (UntilMaxSession + SafetyBuffer > 0 /\ UntilMaxIdle + SafetyBuffer > 0)
           => Delay(log) > 0
  BY DelayBounds
<1>3. CASE Delay(log) < 0
  <2>1. phase' = "fatal" /\ armed' = FALSE /\ deadline' = deadline
    BY <1>1, <1>3, Zenon
  <2>2. ~(Delay(log) > 0)
    BY <1>2, <1>3
  <2>3. armed' \in BOOLEAN /\ ~armed'
    BY <2>1, Zenon
  <2>4. QED
    BY <1>2, <2>1, <2>2, <2>3 DEF TimersTypeOK
<1>4. CASE ~(Delay(log) < 0)
  <2>1. /\ phase' = "running"
        /\ armed' = (Delay(log) > 0)
        /\ deadline' = now + Delay(log)
    BY <1>1, <1>4, Zenon
  <2>2. /\ armed' \in BOOLEAN
        /\ armed' => Delay(log) > 0
        /\ Delay(log) > 0 => armed'
    <3> DEFINE positive == Delay(log) > 0
    <3>1. armed' = positive /\ positive \in BOOLEAN
      BY <2>1
    <3> HIDE DEF positive
    <3>2. armed' \in BOOLEAN /\ (armed' => positive) /\ (positive => armed')
      BY <3>1, Zenon
    <3>3. QED
      BY <3>2 DEF positive
  <2>3. QED
    BY <1>2, <1>4, <2>1, <2>2
    DEF TimersTypeOK, UntilMaxSession, UntilMaxIdle, SafetyBuffer, sessionStart
<1>5. QED
  BY <1>3, <1>4

\* Every step of the clock, the peers and the handler keeps it.
LEMMA NextIInv == IInv /\ [TimersNext]_timersVars => IInv'
<1> SUFFICES ASSUME IInv, [TimersNext]_timersVars PROVE IInv'
  OBVIOUS
<1> USE TimersAssumption DEF IInv, sessionStart, SafetyBuffer
<1>1. CASE TimersStart
  <2>1. TimersTypeOK /\ susshi_timer_alarms_register
    BY <1>1 DEF TimersStart
  <2>2. phase = "login" /\ startedAt' = now /\ reportedAt' = now /\ UNCHANGED <<now, lastIo>>
    BY <1>1 DEF TimersStart
  <2>3. TimersTypeOK'
    BY <2>1, <2>2, RegisterStep DEF TimersTypeOK, Phases
  <2>4. DeadlineCovers'
    BY <2>1, <2>2, RegisterStep DEF TimersTypeOK, DeadlineCovers
  <2>5. NoIoDuringLogin'
    BY <2>1, <2>2, RegisterStep DEF NoIoDuringLogin
  <2>6. TimelyIsArmed'
    <3> SUFFICES ASSUME TimelyLogin' PROVE armed'
      BY DEF TimelyIsArmed
    <3>1. now < MaxSessionSecs + 2 /\ now < MaxIdleSecs + 2 /\ lastIo = 0
      BY <2>2 DEF TimelyLogin, NoIoDuringLogin
    <3>2. UntilMaxSession + SafetyBuffer > 0 /\ UntilMaxIdle + SafetyBuffer > 0
      BY <3>1 DEF TimersTypeOK, UntilMaxSession, UntilMaxIdle
    <3>3. QED
      BY <2>1, <3>2, RegisterStep
  <2>7. QED
    BY <2>3, <2>4, <2>5, <2>6
<1>2. CASE Packet
  <2>1. phase = "running" /\ lastIo' = now
          /\ UNCHANGED <<now, phase, armed, deadline, startedAt, reportedAt>>
    BY <1>2 DEF Packet
  <2>2. TimersTypeOK'
    BY <2>1 DEF TimersTypeOK
  <2>3. QED
    BY <2>1, <2>2 DEF TimersTypeOK, DeadlineCovers, NoIoDuringLogin, TimelyIsArmed, TimelyLogin
<1>3. CASE AlarmCloses \/ PeerEnds
  <2>1. phase' = "closed" /\ armed' = FALSE
          /\ UNCHANGED <<now, lastIo, deadline, startedAt, reportedAt>>
    BY <1>3, Zenon DEF AlarmCloses, PeerEnds
  <2>2. armed' \in BOOLEAN /\ ~armed'
    BY <2>1, Zenon
  <2>3. TimersTypeOK'
    BY <2>1, <2>2 DEF TimersTypeOK, Phases
  <2>4. QED
    BY <2>1, <2>2, <2>3 DEF DeadlineCovers, NoIoDuringLogin, TimelyIsArmed
<1>4. CASE AlarmReports
  <2>1. TimersTypeOK /\ susshi_timer_alarms_register
    BY <1>4 DEF AlarmReports
  <2>2. phase = "running" /\ reportedAt' = now /\ UNCHANGED <<now, lastIo, startedAt>> /\ ~Expired
    BY <1>4 DEF AlarmReports
  <2>3. UntilMaxSession + SafetyBuffer > 0 /\ UntilMaxIdle + SafetyBuffer > 0
    BY <2>2 DEF Expired, TimersTypeOK, UntilMaxSession, UntilMaxIdle
  <2>4. TimersTypeOK'
    BY <2>1, <2>2, RegisterStep DEF TimersTypeOK, Phases
  <2>5. DeadlineCovers'
    BY <2>1, <2>2, RegisterStep DEF TimersTypeOK, DeadlineCovers
  <2>6. NoIoDuringLogin' /\ TimelyIsArmed'
    BY <2>1, <2>3, RegisterStep DEF NoIoDuringLogin, TimelyIsArmed
  <2>7. QED
    BY <2>4, <2>5, <2>6
<1>5. CASE Tick
  <2>1. /\ phase \in {"login", "running"} /\ (armed => now < deadline) /\ now' = now + 1
        /\ UNCHANGED <<phase, lastIo, armed, deadline, startedAt, reportedAt>>
    BY <1>5 DEF Tick
  <2>2. TimersTypeOK'
    BY <2>1 DEF TimersTypeOK
  <2>3. QED
    BY <2>1, <2>2 DEF TimersTypeOK, DeadlineCovers, NoIoDuringLogin, TimelyIsArmed, TimelyLogin
<1>6. CASE UNCHANGED timersVars
  BY <1>6 DEF timersVars, TimersTypeOK, DeadlineCovers, NoIoDuringLogin, TimelyIsArmed, TimelyLogin
<1>7. QED
  BY <1>1, <1>2, <1>3, <1>4, <1>5, <1>6 DEF TimersNext

\* The inductive invariant holds throughout.
THEOREM Invariance == TimersSpec => []IInv
BY InitIInv, NextIInv, PTL DEF TimersSpec

\* Whatever the limits and the report period are, a session that logged in in
\* time never exceeds its maximum session or idle time by more than the two
\* seconds of the safety buffer.
THEOREM Limits == TimersSpec => []LimitsEnforced
<1>1. IInv => LimitsEnforced
  BY TimersAssumption
  DEF IInv, TimersTypeOK, DeadlineCovers, TimelyIsArmed, LimitsEnforced, SafetyBuffer, sessionStart
<1>2. QED
  BY <1>1, Invariance, PTL

\* Nor is it silent for longer than the report period and the safety buffer.
THEOREM Reports == TimersSpec => []ReportsRegular
<1>1. IInv => ReportsRegular
  BY TimersAssumption
  DEF IInv, TimersTypeOK, DeadlineCovers, TimelyIsArmed, ReportsRegular, SafetyBuffer
<1>2. QED
  BY <1>1, Invariance, PTL

\* A timer that runs is kept running by the handler until the session closes:
\* no later setitimer() call is given zero or a negative value.
THEOREM KeepsRunning == TimersSpec => TimerKeepsRunning
<1>1. IInv /\ [TimersNext]_timersVars => [phase = "running" /\ armed => phase' = "closed" \/ armed']_timersVars
  <2> SUFFICES ASSUME IInv, TimersNext, phase = "running", armed PROVE phase' = "closed" \/ armed'
    BY DEF timersVars
  <2>1. CASE AlarmReports
    <3>1. TimersTypeOK /\ susshi_timer_alarms_register /\ ~Expired
      BY <2>1 DEF AlarmReports, IInv
    <3>2. UntilMaxSession + SafetyBuffer > 0 /\ UntilMaxIdle + SafetyBuffer > 0
      BY <3>1, TimersAssumption
      DEF Expired, TimersTypeOK, UntilMaxSession, UntilMaxIdle, SafetyBuffer, sessionStart
    <3>3. QED
      BY <3>1, <3>2, RegisterStep
  <2>2. CASE ~AlarmReports
    BY <2>2 DEF TimersNext, TimersStart, Packet, AlarmCloses, PeerEnds, Tick
  <2>3. QED
    BY <2>1, <2>2
<1>2. QED
  BY <1>1, Invariance, PTL DEF TimersSpec, TimerKeepsRunning

-----------------------------------------------------------------------------
(***************************************************************************)
(* The life of a session.                                                  *)
(***************************************************************************)

\* A context below susshi_end_session().
Ending == {"end", "lastLog", "failHook", "ended"}

\* The handler ends the session through a disconnect function only, and
\* therefore never returns from susshi_end_session().
HandlerDisconnects == pc["alrm"] \in Ending => busy # {}

Typed == TypeOK /\ HandlerDisconnects

\* The parts of the type invariant.
Positions ==
  /\ pc \in [Contexts -> MainPcs \cup EndPcs \cup AlarmPcs]
  /\ pc["main"] \in MainPcs \cup EndPcs
  /\ pc["alrm"] \in AlarmPcs \cup EndPcs

Counters == tried \in 0..MaxTargets /\ alarms \in 0..MaxAlarms

Booleans ==
  /\ exited \in BOOLEAN /\ proxied \in BOOLEAN /\ authed \in BOOLEAN
  /\ started \in BOOLEAN /\ sig \in BOOLEAN /\ shellChild \in BOOLEAN

Flags ==
  /\ mode \in Modes \cup {"unset"}
  /\ proxyError \in {"none", "resolve", "other"}
  /\ alarm \in {"off", "timeout", "timer"}
  /\ closed \subseteq Sides
  /\ busy \subseteq {"individual", "standard"}

Outputs ==
  /\ reportState \in ReportKinds
  /\ prepared \in [Contexts -> ReportKinds]
  /\ reports \in Seq(SessionStates)
  /\ hooks \in Seq(Hooks)

Parts == Positions /\ Counters /\ Booleans /\ Flags /\ Outputs

\* They make up the type invariant.
LEMMA TypeParts == TypeOK <=> Parts
BY DEF TypeOK, Parts, Positions, Counters, Booleans, Flags, Outputs

\* The same for the successor.
LEMMA TypePartsNext == TypeOK' <=> Parts'
BY DEF TypeOK, Parts, Positions, Counters, Booleans, Flags, Outputs

\* Control and the variables that steps leave alone.
USE LifeAssumption DEF Contexts, Running, At, Main, Goto, Exit, loginVars, sessionVars,
                       signalVars, reportVars, outputVars

\* A report extends the sequence by one state, or leaves it alone.
LEMMA ReportType ==
  ASSUME Outputs, NEW c \in Contexts, NEW kind \in ReportKinds, SendReport(c, kind)
  PROVE  /\ reportState' \in ReportKinds /\ reports' \in Seq(SessionStates)
         /\ prepared' \in [Contexts -> ReportKinds]
         /\ reports' = reports \/ reports' = Append(reports, StateOf(kind))
<1>1. StateOf(kind) \in SessionStates
  BY DEF StateOf, SessionStates, ReportKinds
<1>2. prepared' \in [Contexts -> ReportKinds]
  <2>1. "none" \in ReportKinds
    BY DEF ReportKinds
  <2> QED
    BY <2>1 DEF SendReport, Outputs
<1> QED
  BY <1>1, <1>2 DEF SendReport, Outputs

\* A hook extends the sequence of hooks.
LEMMA HookType ==
  ASSUME Outputs, NEW h \in Hooks, RunHook(h)
  PROVE  hooks' \in Seq(Hooks)
BY DEF RunHook, Outputs

\* The initial states have the types.
LEMMA TypeInit == Init => Typed
<1> SUFFICES ASSUME Init PROVE Typed
  OBVIOUS
<1>1. Positions /\ HandlerDisconnects
  BY DEF Init, Positions, HandlerDisconnects, MainPcs, EndPcs, AlarmPcs, Ending
<1>2. Counters
  BY DEF Init, Counters
<1>3. Booleans
  BY DEF Init, Booleans
<1>4. Flags
  BY DEF Init, Flags
<1>5. Outputs
  BY DEF Init, Outputs, ReportKinds
<1> QED
  BY <1>1, <1>2, <1>3, <1>4, <1>5, TypeParts DEF Typed, Parts

\* The login keeps the types.
LEMMA TypeLogin == Typed /\ LoginStep => Typed'
<1> SUFFICES ASSUME Typed, LoginStep PROVE Typed'
  OBVIOUS
<1>parts. Positions /\ Counters /\ Booleans /\ Flags /\ Outputs /\ HandlerDisconnects
  BY TypeParts DEF Typed, Parts
<1>login. pc["alrm"] = "idle"
  BY DEF LoginStep, ClientConnects, KeyExchange, LoginString, ProxyConnected, ProxyFails,
         Authenticated, NotAuthenticated, AuthFailed, TargetConnectFails, TargetSkipped,
         NoTargetLeft, TargetRefused, ShellDenied, LoggedIn, Starts, Register, FirstReport,
         EnterLoop
<1>1. Positions' /\ pc'["alrm"] = "idle"
  BY <1>parts, <1>login DEF LoginStep, ClientConnects, KeyExchange, LoginString,
                            ProxyConnected, ProxyFails, Authenticated, NotAuthenticated,
                            AuthFailed, TargetConnectFails, TargetSkipped, NoTargetLeft,
                            TargetRefused, ShellDenied, LoggedIn, Starts, Register,
                            FirstReport, EnterLoop, Positions, MainPcs, EndPcs, AlarmPcs
<1>2. Counters'
  BY <1>parts DEF LoginStep, ClientConnects, KeyExchange, LoginString, ProxyConnected,
                  ProxyFails, Authenticated, NotAuthenticated, AuthFailed, TargetConnectFails,
                  TargetSkipped, NoTargetLeft, TargetRefused, ShellDenied, LoggedIn, Starts,
                  Register, FirstReport, EnterLoop, Counters
<1>3. Booleans'
  BY <1>parts DEF LoginStep, ClientConnects, KeyExchange, LoginString, ProxyConnected,
                  ProxyFails, Authenticated, NotAuthenticated, AuthFailed, TargetConnectFails,
                  TargetSkipped, NoTargetLeft, TargetRefused, ShellDenied, LoggedIn, Starts,
                  Register, FirstReport, EnterLoop, Booleans
<1>4. Flags'
  BY <1>parts DEF LoginStep, ClientConnects, KeyExchange, LoginString, ProxyConnected,
                  ProxyFails, Authenticated, NotAuthenticated, AuthFailed, TargetConnectFails,
                  TargetSkipped, NoTargetLeft, TargetRefused, ShellDenied, LoggedIn, Starts,
                  Register, FirstReport, EnterLoop, Flags, susshi_session_set_timeout_alarm,
       susshi_session_cancel_timeout_alarm
<1>5. Outputs'
  BY <1>parts, ReportType, HookType DEF LoginStep, ClientConnects, KeyExchange, LoginString,
                                        ProxyConnected, ProxyFails, Authenticated,
                                        NotAuthenticated, AuthFailed, TargetConnectFails,
                                        TargetSkipped, NoTargetLeft, TargetRefused,
                                        ShellDenied, LoggedIn, Starts, Register, FirstReport,
                                        EnterLoop, Outputs, Hooks, ReportKinds
<1> QED
  BY <1>1, <1>2, <1>3, <1>4, <1>5, TypePartsNext DEF Typed, Parts, HandlerDisconnects, Ending

\* So do the loops.
LEMMA TypeLoop == Typed /\ LoopStep => Typed'
<1> SUFFICES ASSUME Typed, LoopStep PROVE Typed'
  OBVIOUS
<1>parts. Positions /\ Counters /\ Booleans /\ Flags /\ Outputs /\ HandlerDisconnects
  BY TypeParts DEF Typed, Parts
<1>loop. pc["alrm"] = "idle"
  BY DEF LoopStep, CallbackCloses, PeerLost, ClosedSeen, TargetDisconnects, InspectionFails,
         SignalSeen, SocketError, OtherLoopEnds, ShellRefused, ShellExec, ShellStart, InSession
<1>1. Positions' /\ pc'["alrm"] = "idle"
  BY <1>parts, <1>loop DEF LoopStep, CallbackCloses, PeerLost, ClosedSeen, TargetDisconnects,
                           InspectionFails, SignalSeen, SocketError, OtherLoopEnds,
                           ShellRefused, ShellExec, ShellStart, InSession, Positions, MainPcs,
                           EndPcs, AlarmPcs
<1>2. Counters'
  BY <1>parts DEF LoopStep, CallbackCloses, PeerLost, ClosedSeen, TargetDisconnects,
                  InspectionFails, SignalSeen, SocketError, OtherLoopEnds, ShellRefused,
                  ShellExec, ShellStart, InSession, Counters
<1>3. Booleans'
  BY <1>parts DEF LoopStep, CallbackCloses, PeerLost, ClosedSeen, TargetDisconnects,
                  InspectionFails, SignalSeen, SocketError, OtherLoopEnds, ShellRefused,
                  ShellExec, ShellStart, InSession, Booleans
<1>4. Flags'
  BY <1>parts DEF LoopStep, CallbackCloses, PeerLost, ClosedSeen, TargetDisconnects,
                  InspectionFails, SignalSeen, SocketError, OtherLoopEnds, ShellRefused,
                  ShellExec, ShellStart, InSession, Flags, Sides
<1>5. Outputs'
  <2>1. StateOf("failed") \in SessionStates
    BY DEF StateOf, SessionStates
  <2>2. CASE ShellExec
    BY <1>parts, <2>1, <2>2, HookType DEF ShellExec, Outputs, Hooks
  <2>3. CASE UNCHANGED outputVars
    BY <1>parts, <2>3 DEF Outputs
  <2> QED
    BY <2>2, <2>3 DEF LoopStep, CallbackCloses, PeerLost, ClosedSeen, TargetDisconnects,
                      InspectionFails, SignalSeen, SocketError, OtherLoopEnds, ShellRefused,
                      ShellExec, ShellStart, InSession
<1> QED
  BY <1>1, <1>2, <1>3, <1>4, <1>5, TypePartsNext DEF Typed, Parts, HandlerDisconnects, Ending

\* So does the end of a session, in either context.
LEMMA TypeEnd == Typed /\ EndStep => Typed'
<1> SUFFICES ASSUME Typed, EndStep PROVE Typed'
  OBVIOUS
<1>parts. Positions /\ Counters /\ Booleans /\ Flags /\ Outputs /\ HandlerDisconnects
  BY TypeParts DEF Typed, Parts
<1>1. Positions' /\ HandlerDisconnects'
  BY <1>parts DEF EndStep, LastReport, Finish, Disconnect, EndSession, LastLog, FailHook,
                  Ended, Fatal, Die, Positions, HandlerDisconnects, MainPcs, EndPcs, AlarmPcs,
                  Ending
<1>2. Counters'
  BY <1>parts DEF EndStep, LastReport, Finish, Disconnect, EndSession, LastLog, FailHook,
                  Ended, Fatal, Die, Counters
<1>3. Booleans'
  <2>1. UNCHANGED <<proxied, authed, started, sig, shellChild>>
    BY DEF EndStep, LastReport, Finish, Disconnect, EndSession, LastLog, FailHook, Ended,
           Fatal, Die
  <2>2. exited' \in {exited, TRUE}
    BY DEF EndStep, LastReport, Finish, Disconnect, EndSession, LastLog, FailHook, Ended,
           Fatal, Die
  <2> QED
    BY <1>parts, <2>1, <2>2 DEF Booleans
<1>4. Flags'
  <2>1. UNCHANGED <<mode, proxyError, alarm, closed>>
    BY DEF EndStep, LastReport, Finish, Disconnect, EndSession, LastLog, FailHook, Ended,
           Fatal, Die
  <2>2. busy' = busy \/ \E f \in {"individual", "standard"} : busy' = busy \cup {f}
    BY DEF EndStep, LastReport, Finish, Disconnect, EndSession, LastLog, FailHook, Ended,
           Fatal, Die
  <2> QED
    BY <1>parts, <2>1, <2>2 DEF Flags
<1>5. Outputs'
  BY <1>parts, ReportType, HookType DEF EndStep, LastReport, Finish, Disconnect, EndSession,
                                        LastLog, FailHook, Ended, Fatal, Die, Outputs, Hooks,
                                        ReportKinds
<1> QED
  BY <1>1, <1>2, <1>3, <1>4, <1>5, TypePartsNext DEF Typed, Parts

\* Signals, their handlers, and failing calls.
SignalStep ==
  \/ HandlerStep \/ (\E c \in Contexts : Fails(c))
  \/ SignalArrives \/ AlarmArrives \/ AlarmLocksUp

\* They keep the types as well.
LEMMA TypeSignal == Typed /\ SignalStep => Typed'
<1> SUFFICES ASSUME Typed, SignalStep PROVE Typed'
  OBVIOUS
<1>parts. Positions /\ Counters /\ Booleans /\ Flags /\ Outputs /\ HandlerDisconnects
  BY TypeParts DEF Typed, Parts
<1>1. Positions' /\ HandlerDisconnects'
  BY <1>parts DEF SignalStep, HandlerStep, TimedOut, TimerExpired, PeriodicReport, Rearm,
                  Fails, SignalArrives, AlarmArrives, AlarmLocksUp, Positions, HandlerDisconnects, MainPcs,
                  EndPcs, AlarmPcs, Ending
<1>2. Counters'
  BY <1>parts DEF SignalStep, HandlerStep, TimedOut, TimerExpired, PeriodicReport, Rearm,
                  Fails, SignalArrives, AlarmArrives, AlarmLocksUp, Counters
<1>3. Booleans'
  BY <1>parts DEF SignalStep, HandlerStep, TimedOut, TimerExpired, PeriodicReport, Rearm,
                  Fails, SignalArrives, AlarmArrives, AlarmLocksUp, Booleans
<1>4. Flags'
  BY <1>parts DEF SignalStep, HandlerStep, TimedOut, TimerExpired, PeriodicReport, Rearm,
                  Fails, SignalArrives, AlarmArrives, AlarmLocksUp, Flags, Sides
<1>5. Outputs'
  BY <1>parts, ReportType DEF SignalStep, HandlerStep, TimedOut, TimerExpired, PeriodicReport,
                              Rearm, Fails, SignalArrives, AlarmArrives, AlarmLocksUp, Outputs, ReportKinds
<1> QED
  BY <1>1, <1>2, <1>3, <1>4, <1>5, TypePartsNext DEF Typed, Parts

\* Noting the state of a report changes nothing else.
LEMMA TypeReport == Typed /\ ReportStep => Typed'
<1> SUFFICES ASSUME Typed, ReportStep PROVE Typed'
  OBVIOUS
<1>parts. Positions /\ Counters /\ Booleans /\ Flags /\ Outputs /\ HandlerDisconnects
  BY TypeParts DEF Typed, Parts
<1>1. PICK c \in Contexts, kind \in ReportKinds : PrepareReport(c, kind)
  BY DEF ReportStep
<1>2. Positions' /\ HandlerDisconnects' /\ Counters' /\ Booleans' /\ Flags'
  BY <1>parts, <1>1 DEF PrepareReport, Positions, HandlerDisconnects, Counters, Booleans, Flags
<1>3. Outputs'
  BY <1>parts, <1>1 DEF PrepareReport, Outputs
<1> QED
  BY <1>2, <1>3, TypePartsNext DEF Typed, Parts

\* Every step is one of these.
LEMMA StepCases == Next <=> LoginStep \/ LoopStep \/ EndStep \/ ReportStep \/ SignalStep
BY DEF Next, SignalStep

\* Every step keeps the types.
LEMMA TypeStep == Typed /\ [Next]_vars => Typed'
<1> SUFFICES ASSUME Typed, [Next]_vars PROVE Typed'
  OBVIOUS
<1>1. CASE UNCHANGED vars
  BY <1>1 DEF vars, Typed, TypeOK, HandlerDisconnects
<1> QED
  BY <1>1, StepCases, TypeLogin, TypeLoop, TypeEnd, TypeReport, TypeSignal

\* The types hold forever: the handler keeps to its positions and never
\* continues in the main program (susshi_end_session(), which the disconnect
\* functions do not return from).
THEOREM TypeCorrect == Spec => []TypeOK
<1>1. Init => Typed
  BY TypeInit
<1>2. Typed /\ [Next]_vars => Typed'
  BY TypeStep
<1>3. Typed => TypeOK
  BY DEF Typed
<1> QED
  BY <1>1, <1>2, <1>3, PTL DEF Spec

-----------------------------------------------------------------------------
(***************************************************************************)
(* A session that entered its loop is reported as ended before the exit.   *)
(***************************************************************************)

Finished == \E i \in 1..Len(reports) : reports[i] = "finished"
Reported == \E i \in 1..Len(reports) : reports[i] \in {"finished", "failed"}

\* Only sessions to a target have timers, they start with their loop, and only
\* the loop of a started session ends it without a disconnect function.
ModeWhere ==
  /\ pc["main"] = "loop" /\ ToTarget => started
  /\ pc["main"] \in Ending /\ busy = {} => started
  /\ ~ToTarget => /\ alarm = "off" /\ pc["alrm"] = "idle"
                  /\ ~started /\ pc["main"] \notin {"proxy", "register", "enter"}
  /\ mode = "chefRemote" => pc["main"] \notin {"start", "first", "last"}
  /\ mode = "unset" =>
       pc["main"] \in {"connect", "kex", "auth", "authFailed", "failed"} \cup EndPcs

\* Past the authentication the client is known, and the proxy is connected.
LoginDone ==
  /\ pc["main"] \in {"connect", "kex", "auth", "proxy"} => ~authed /\ proxyError = "none"
  /\ pc["main"] \in {"login", "start", "register", "first", "enter", "loop"}
       => authed /\ proxyError = "none"

\* The loop is left for the end of the session only.
StartedWhere ==
  started => /\ authed /\ proxyError = "none"
             /\ pc["main"] \in {"loop", "last", "finished"} \cup EndPcs

\* A report is being written only where one is sent.
PreparedWhere ==
  \A c \in Contexts : prepared[c] # "none" =>
    pc[c] \in {"first", "periodic", "last", "fatal", "timedOut", "end"}

\* The last report was sent, or a context is writing it.
LastUnderWay == Finished \/ \E c \in Contexts : prepared[c] = "last"

\* The verdict was reported, or the main program is writing the last report.
Said == Reported \/ prepared["main"] = "last"

\* The report comes before everything else that ends a session.
ReportedFirst ==
  /\ reportState = "last" => LastUnderWay
  /\ started /\ (exited \/ pc["main"] = "finished") => Said
  /\ \A c \in Contexts :
       started /\ pc[c] \in {"lastLog", "failHook", "ended", "die"} => Said

StartedInv == ModeWhere /\ LoginDone /\ StartedWhere /\ PreparedWhere /\ ReportedFirst

\* What a step may do to the reports: send one more.
ReportsGrow == reports' = reports \/ \E s \in SessionStates : reports' = Append(reports, s)

\* No step takes a report back.
LEMMA StepReports == Typed /\ [Next]_vars => ReportsGrow
<1> SUFFICES ASSUME Typed, [Next]_vars PROVE ReportsGrow
  OBVIOUS
<1> USE DEF ReportsGrow
<1>1. Outputs
  BY TypeParts DEF Typed, Parts
<1>2. \A kind \in ReportKinds : StateOf(kind) \in SessionStates
  BY DEF StateOf, SessionStates, ReportKinds
<1>3. ASSUME NEW c \in Contexts, NEW kind \in ReportKinds, SendReport(c, kind)
      PROVE  ReportsGrow
  BY <1>1, <1>2, <1>3, ReportType
<1>4. CASE LoginStep
  BY <1>3, <1>4 DEF LoginStep, ClientConnects, KeyExchange, LoginString, ProxyConnected,
                    ProxyFails, Authenticated, NotAuthenticated, AuthFailed,
                    TargetConnectFails, TargetSkipped, NoTargetLeft, TargetRefused,
                    ShellDenied, LoggedIn, Starts, Register, FirstReport, EnterLoop, ReportKinds
<1>5. CASE LoopStep
  BY <1>2, <1>5 DEF LoopStep, CallbackCloses, PeerLost, ClosedSeen, TargetDisconnects,
                    InspectionFails, SignalSeen, SocketError, OtherLoopEnds, ShellRefused,
                    ShellExec, ShellStart, InSession, ReportKinds
<1>6. CASE EndStep
  BY <1>3, <1>6 DEF EndStep, LastReport, Finish, Disconnect, EndSession, LastLog, FailHook,
                    Ended, Fatal, Die, ReportKinds
<1>7. CASE SignalStep
  BY <1>3, <1>7 DEF SignalStep, HandlerStep, TimedOut, TimerExpired, PeriodicReport, Rearm,
                    Fails, SignalArrives, AlarmArrives, AlarmLocksUp, ReportKinds
<1>8. CASE ReportStep
  BY <1>8 DEF ReportStep, PrepareReport
<1> QED
  BY <1>4, <1>5, <1>6, <1>7, <1>8, StepCases DEF vars

\* A report has one of the states.
LEMMA StateIsReported == \A kind \in ReportKinds : StateOf(kind) \in SessionStates
BY DEF StateOf, SessionStates, ReportKinds

\* A verdict that was reported stays reported.
LEMMA ReportedStays ==
  ASSUME Outputs, ReportsGrow
  PROVE  (Reported => Reported') /\ (Finished => Finished')
BY DEF Outputs, ReportsGrow, Reported, Finished

\* What the two ways of ending a session report.
LEMMA ReportVerdict ==
  ASSUME Outputs, NEW c \in Contexts, NEW kind \in {"last", "failed", "fatal"},
         SendReport(c, kind), authed, proxyError = "none",
         reportState = "last" => LastUnderWay, c = "main" => prepared["alrm"] = "none"
  PROVE  Said'
<1>1. CASE prepared[c] = "none"
  BY <1>1 DEF SendReport, Duplicate, LastUnderWay, Said, Finished, Reported
<1>2. CASE prepared[c] = kind /\ kind = "last"
  <2>1. reports' = Append(reports, "finished")
    BY <1>2 DEF SendReport, Suppressed, StateOf
  <2> QED
    BY <2>1 DEF Said, Reported, Outputs
<1>3. CASE prepared[c] = kind /\ kind \in {"failed", "fatal"}
  <2>1. reports' = Append(reports, "failed")
    BY <1>3 DEF SendReport, Suppressed, StateOf
  <2> QED
    BY <2>1 DEF Said, Reported, Outputs
<1> QED
  BY <1>1, <1>2, <1>3 DEF SendReport

\* The state of the reports is "last" only with a last report, sent or under way.
LEMMA LastReported ==
  ASSUME Outputs, NEW c \in Contexts, NEW kind \in ReportKinds, SendReport(c, kind),
         reportState = "last" => LastUnderWay
  PROVE  reportState' = "last" => LastUnderWay'
<1> SUFFICES ASSUME LastUnderWay PROVE LastUnderWay'
  BY DEF SendReport
<1>1. CASE prepared[c] = "last" /\ kind = "last"
  <2>1. reports' = Append(reports, "finished") \/ UNCHANGED <<prepared, reports>>
    BY <1>1 DEF SendReport, Suppressed, StateOf
  <2>2. CASE reports' = Append(reports, "finished")
    BY <2>2 DEF LastUnderWay, Finished, Outputs
  <2>3. CASE UNCHANGED <<prepared, reports>>
    BY <2>3 DEF LastUnderWay, Finished
  <2> QED
    BY <2>1, <2>2, <2>3
<1>2. CASE ~(prepared[c] = "last" /\ kind = "last")
  <2>1. \A d \in Contexts : prepared[d] = "last" => prepared'[d] = "last"
    BY <1>2 DEF SendReport, Outputs
  <2>2. Finished => Finished'
    BY ReportType, ReportedStays, StateIsReported DEF ReportsGrow
  <2> QED
    BY <2>1, <2>2 DEF LastUnderWay
<1> QED
  BY <1>1, <1>2

\* Sending another report leaves the main program's last one where it was.
LEMMA SaidStays ==
  ASSUME Outputs, ReportsGrow, Said,
         \/ UNCHANGED prepared
         \/ \E kind \in ReportKinds : SendReport("alrm", kind)
         \/ \E kind \in ReportKinds \ {"last"} : SendReport("main", kind)
         \/ prepared["main"] # "last"
  PROVE  Said'
<1>1. Reported => Reported'
  BY ReportedStays
<1>2. prepared["main"] = "last" => prepared'["main"] = "last"
  BY DEF SendReport, Outputs
<1> QED
  BY <1>1, <1>2 DEF Said

\* The initial states satisfy the invariant.
LEMMA StartedInit == Init => StartedInv
BY DEF Init, StartedInv, ModeWhere, ToTarget, Ending, LoginDone, StartedWhere,
       PreparedWhere, ReportedFirst

\* Every step keeps the login and the loop where they are.
LEMMA StartedPlaces ==
  Typed /\ StartedInv /\ [Next]_vars => ModeWhere' /\ LoginDone' /\ StartedWhere'
<1> SUFFICES ASSUME Typed, StartedInv, [Next]_vars PROVE ModeWhere' /\ LoginDone' /\ StartedWhere'
  OBVIOUS
<1>1. Positions /\ ModeWhere /\ LoginDone /\ StartedWhere
  BY TypeParts DEF Typed, Parts, StartedInv
<1>mode. mode \in {"unset", "gateway", "bastion", "shell", "chefRemote"}
  BY TypeParts DEF Typed, Parts, Flags
<1>2. CASE LoginStep
  <2>1. ModeWhere'
    BY <1>1, <1>mode, <1>2 DEF LoginStep, ClientConnects, KeyExchange, LoginString,
                               ProxyConnected, ProxyFails, Authenticated, NotAuthenticated,
                               AuthFailed, TargetConnectFails, TargetSkipped, NoTargetLeft,
                               TargetRefused, ShellDenied, LoggedIn, Starts, Register,
                               FirstReport, EnterLoop, Positions, ModeWhere, ToTarget, EndPcs, Ending
  <2>2. LoginDone' /\ StartedWhere'
    BY <1>1, <1>2 DEF LoginStep, ClientConnects, KeyExchange, LoginString, ProxyConnected,
                      ProxyFails, Authenticated, NotAuthenticated, AuthFailed,
                      TargetConnectFails, TargetSkipped, NoTargetLeft, TargetRefused,
                      ShellDenied, LoggedIn, Starts, Register, FirstReport, EnterLoop,
                      Positions, LoginDone, StartedWhere, EndPcs
  <2> QED
    BY <2>1, <2>2
<1>3. CASE LoopStep
  <2>1. ModeWhere'
    BY <1>1, <1>mode, <1>3 DEF LoopStep, CallbackCloses, PeerLost, ClosedSeen,
                               TargetDisconnects, InspectionFails, SignalSeen, SocketError,
                               OtherLoopEnds, ShellRefused, ShellExec, ShellStart, InSession,
                               Positions, ModeWhere, ToTarget, EndPcs, Ending
  <2>2. LoginDone' /\ StartedWhere'
    BY <1>1, <1>3 DEF LoopStep, CallbackCloses, PeerLost, ClosedSeen, TargetDisconnects,
                      InspectionFails, SignalSeen, SocketError, OtherLoopEnds, ShellRefused,
                      ShellExec, ShellStart, InSession, Positions, LoginDone, StartedWhere,
                      EndPcs
  <2> QED
    BY <2>1, <2>2
<1>4. CASE EndStep
  <2>1. ModeWhere'
    BY <1>1, <1>mode, <1>4 DEF EndStep, LastReport, Finish, Disconnect, EndSession, LastLog,
                               FailHook, Ended, Fatal, Die, Positions, ModeWhere, ToTarget,
                               EndPcs, Ending
  <2>2. LoginDone' /\ StartedWhere'
    BY <1>1, <1>4 DEF EndStep, LastReport, Finish, Disconnect, EndSession, LastLog, FailHook,
                      Ended, Fatal, Die, Positions, LoginDone, StartedWhere, EndPcs
  <2> QED
    BY <2>1, <2>2
<1>5. CASE SignalStep
  <2>1. ModeWhere'
    BY <1>1, <1>mode, <1>5 DEF SignalStep, HandlerStep, TimedOut, TimerExpired,
                               PeriodicReport, Rearm, Fails, SignalArrives, AlarmArrives, AlarmLocksUp,
                               Positions, ModeWhere, ToTarget, EndPcs, Ending
  <2>2. LoginDone' /\ StartedWhere'
    BY <1>1, <1>5 DEF SignalStep, HandlerStep, TimedOut, TimerExpired, PeriodicReport, Rearm,
                      Fails, SignalArrives, AlarmArrives, AlarmLocksUp, Positions, LoginDone, StartedWhere,
                      EndPcs
  <2> QED
    BY <2>1, <2>2
<1>6. CASE ReportStep
  BY <1>1, <1>6 DEF ReportStep, PrepareReport, ModeWhere, ToTarget, LoginDone, StartedWhere
<1> QED
  BY <1>1, <1>2, <1>3, <1>4, <1>5, <1>6, StepCases DEF vars, ModeWhere, ToTarget, LoginDone,
       StartedWhere

\* A context leaves a place where a report is sent with the report.
LEMMA PreparedPlaces ==
  Typed /\ StartedInv /\ [Next]_vars => PreparedWhere'
<1> SUFFICES ASSUME Typed, StartedInv, [Next]_vars PROVE PreparedWhere'
  OBVIOUS
<1>1. Positions /\ Outputs /\ PreparedWhere
  BY TypeParts DEF Typed, Parts, StartedInv
<1>2. CASE LoginStep
  <2>1. CASE FirstReport
    BY <1>1, <2>1 DEF FirstReport, SendReport, Duplicate, Positions, Outputs, PreparedWhere
  <2>2. CASE ~FirstReport
    <3>1. /\ UNCHANGED <<prepared, pc["alrm"]>> /\ pc["main"] # "first"
          /\ pc["main"] \in MainPcs \ {"last", "first"}
      BY <1>1, <1>2, <2>2 DEF LoginStep, ClientConnects, KeyExchange, LoginString,
           ProxyConnected, ProxyFails, Authenticated, NotAuthenticated, AuthFailed,
           TargetConnectFails, TargetSkipped, NoTargetLeft, TargetRefused, ShellDenied,
           LoggedIn, Starts, Register, EnterLoop, Positions, MainPcs
    <3> QED
      BY <1>1, <3>1 DEF PreparedWhere, MainPcs
  <2> QED
    BY <2>1, <2>2
<1>3. CASE LoopStep
  BY <1>1, <1>3 DEF LoopStep, CallbackCloses, PeerLost, ClosedSeen, TargetDisconnects,
                    InspectionFails, SignalSeen, SocketError, OtherLoopEnds, ShellRefused,
                    ShellExec, ShellStart, InSession, Positions, Outputs, PreparedWhere
<1>4. CASE EndStep
  <2>1. ASSUME NEW c \in Contexts, NEW kind \in ReportKinds \ {"none"}, SendReport(c, kind),
               \A d \in Contexts \ {c} : pc'[d] = pc[d]
        PROVE  PreparedWhere'
    BY <1>1, <2>1 DEF SendReport, Outputs, PreparedWhere
  <2>2. ASSUME NEW c \in Contexts, UNCHANGED prepared, prepared[c] = "none",
               \A d \in Contexts \ {c} : pc'[d] = pc[d]
        PROVE  PreparedWhere'
    BY <1>1, <2>2 DEF PreparedWhere
  <2>3. CASE LastReport \/ Finish
    BY <1>1, <2>1, <2>2, <2>3 DEF LastReport, Finish, Positions, PreparedWhere, ReportKinds
  <2>4. ASSUME NEW c \in Contexts,
               (\E f \in {"individual", "standard"} : Disconnect(c, f)) \/ LastLog(c)
                 \/ FailHook(c) \/ Ended(c) \/ Die(c)
        PROVE  PreparedWhere'
    <3>1. pc[c] \in {"individual", "standard", "lastLog", "failHook", "ended", "die"}
      BY <2>4 DEF Disconnect, LastLog, FailHook, Ended, Die
    <3>2. UNCHANGED prepared /\ \A d \in Contexts \ {c} : pc'[d] = pc[d]
      BY <1>1, <2>4 DEF Disconnect, LastLog, FailHook, Ended, Die, Positions
    <3> QED
      BY <1>1, <2>2, <3>1, <3>2 DEF PreparedWhere
  <2>5. ASSUME NEW c \in Contexts, EndSession(c) \/ Fatal(c) PROVE PreparedWhere'
    <3>1. \A d \in Contexts \ {c} : pc'[d] = pc[d]
      BY <1>1, <2>5 DEF EndSession, Fatal, Positions
    <3>2. CASE EndSession(c) /\ closed # {} /\ ~started
      BY <1>1, <2>5, <3>1, <3>2 DEF EndSession, PreparedWhere
    <3> QED
      BY <2>1, <2>5, <3>1, <3>2 DEF EndSession, Fatal, ReportKinds
  <2> QED
    BY <1>4, <2>3, <2>4, <2>5 DEF EndStep
<1>5. CASE SignalStep
  BY <1>1, <1>5 DEF SignalStep, HandlerStep, TimedOut, TimerExpired, PeriodicReport, Rearm,
                    Fails, SignalArrives, AlarmArrives, AlarmLocksUp, SendReport, Positions,
                    Outputs, PreparedWhere
<1>6. CASE ReportStep
  BY <1>1, <1>6 DEF ReportStep, PrepareReport, Reporting, Positions, Outputs, PreparedWhere
<1> QED
  BY <1>1, <1>2, <1>3, <1>4, <1>5, <1>6, StepCases DEF vars, PreparedWhere

\* Every step keeps the order of the report and what follows it.
LEMMA StartedReports ==
  Typed /\ StartedInv /\ [Next]_vars => ReportedFirst'
<1> SUFFICES ASSUME Typed, StartedInv, [Next]_vars PROVE ReportedFirst'
  OBVIOUS
<1>types. Positions /\ Outputs
  BY TypeParts DEF Typed, Parts
<1>inv. ModeWhere /\ LoginDone /\ StartedWhere /\ PreparedWhere /\ ReportedFirst
  BY DEF StartedInv
<1>grow. ReportsGrow
  BY StepReports
<1>stays. (Reported => Reported') /\ (Finished => Finished')
  BY <1>types, <1>grow, ReportedStays
<1>keep. UNCHANGED prepared => (Said => Said') /\ (LastUnderWay => LastUnderWay')
  BY <1>stays DEF Said, LastUnderWay
<1>last. \A c \in Contexts, kind \in ReportKinds :
           SendReport(c, kind) => (reportState' = "last" => LastUnderWay')
  BY <1>inv, <1>types, LastReported DEF ReportedFirst
<1>1. CASE LoginStep
  <2>1. ~started /\ (started' => EnterLoop)
    BY <1>1, <1>inv DEF LoginStep, ClientConnects, KeyExchange, LoginString, ProxyConnected,
                        ProxyFails, Authenticated, NotAuthenticated, AuthFailed,
                        TargetConnectFails, TargetSkipped, NoTargetLeft, TargetRefused,
                        ShellDenied, LoggedIn, Starts, Register, FirstReport, EnterLoop,
                        StartedWhere, EndPcs
  <2>2. UNCHANGED <<reportState, prepared>> \/ SendReport("main", "first")
    BY <1>1 DEF LoginStep, ClientConnects, KeyExchange, LoginString, ProxyConnected,
                ProxyFails, Authenticated, NotAuthenticated, AuthFailed, TargetConnectFails,
                TargetSkipped, NoTargetLeft, TargetRefused, ShellDenied, LoggedIn, Starts,
                Register, FirstReport, EnterLoop
  <2>3. reportState' = "last" => LastUnderWay'
    BY <2>2, <1>inv, <1>keep, <1>last DEF ReportedFirst, ReportKinds
  <2> QED
    BY <2>1, <2>3, <1>types DEF EnterLoop, ReportedFirst, Positions, EndPcs
<1>2. CASE LoopStep
  <2>1. /\ pc["alrm"] = "idle" /\ ~exited
        /\ UNCHANGED <<exited, started, reportState, prepared>>
    BY <1>2 DEF LoopStep, CallbackCloses, PeerLost, ClosedSeen, TargetDisconnects,
                InspectionFails, SignalSeen, SocketError, OtherLoopEnds, ShellRefused,
                ShellExec, ShellStart, InSession
  <2>2. started => \A c \in Contexts :
                     pc'[c] \notin {"lastLog", "failHook", "ended", "die", "finished"}
    BY <1>2, <1>types, <1>inv DEF LoopStep, CallbackCloses, PeerLost, ClosedSeen,
                                  TargetDisconnects, InspectionFails, SignalSeen, SocketError,
                                  OtherLoopEnds, ShellRefused, ShellExec, ShellStart,
                                  InSession, Positions, StartedWhere, ModeWhere
  <2> QED
    BY <2>1, <2>2, <1>inv, <1>keep DEF ReportedFirst
<1>3. CASE EndStep
  <2>1. ~exited /\ UNCHANGED started
    BY <1>3 DEF EndStep, LastReport, Finish, Disconnect, EndSession, LastLog, FailHook, Ended,
                Fatal, Die
  <2>2. \/ UNCHANGED <<reportState, prepared>>
        \/ \E c \in Contexts, kind \in ReportKinds : SendReport(c, kind)
    BY <1>3 DEF EndStep, LastReport, Finish, Disconnect, EndSession, LastLog, FailHook, Ended,
                Fatal, Die, ReportKinds
  <2>3. reportState' = "last" => LastUnderWay'
    BY <2>2, <1>inv, <1>keep, <1>last DEF ReportedFirst
  <2>4. started /\ (LastReport \/ \E c \in Contexts : EndSession(c) \/ Fatal(c)) => Said'
    <3> SUFFICES ASSUME started, NEW c \in Contexts,
                        (c = "main" /\ LastReport) \/ EndSession(c) \/ Fatal(c)
                 PROVE  Said'
      OBVIOUS
    <3>1. authed /\ proxyError = "none" /\ (reportState = "last" => LastUnderWay)
      BY <1>inv DEF StartedWhere, ReportedFirst
    <3>2. c = "main" => prepared["alrm"] = "none"
      BY <1>inv DEF LastReport, EndSession, Fatal, PreparedWhere
    <3>3. \E kind \in {"last", "failed", "fatal"} : SendReport(c, kind)
      BY DEF LastReport, EndSession, Fatal
    <3> QED
      BY <3>1, <3>2, <3>3, <1>types, ReportVerdict
  <2>5. CASE LastReport \/ \E c \in Contexts : EndSession(c) \/ Fatal(c)
    BY <2>1, <2>3, <2>4, <2>5 DEF ReportedFirst
  <2>6. CASE Finish
    <3>1. started => Said
      BY <2>6, <1>inv DEF Finish, StartedWhere, ReportedFirst, EndPcs
    <3> QED
      BY <2>1, <2>3, <2>6, <3>1, <1>keep DEF Finish, ReportedFirst
  <2>7. ASSUME NEW c \in Contexts, NEW f \in {"individual", "standard"}, Disconnect(c, f)
        PROVE  ReportedFirst'
    <3>1. \A d \in Contexts : pc'[d] = pc[d] \/ pc'[d] \in {"fatal", "end"}
      BY <2>7, <1>types DEF Disconnect, Positions
    <3> QED
      BY <2>1, <2>3, <2>7, <3>1, <1>inv, <1>keep DEF Disconnect, ReportedFirst
  <2>8. ASSUME NEW c \in Contexts, LastLog(c) \/ FailHook(c) \/ Ended(c) \/ Die(c)
        PROVE  ReportedFirst'
    <3>1. started => Said
      BY <2>8, <1>inv DEF LastLog, FailHook, Ended, Die, ReportedFirst
    <3>2. UNCHANGED prepared
      BY <2>8 DEF LastLog, FailHook, Ended, Die
    <3> QED
      BY <2>1, <2>3, <3>1, <3>2, <1>keep DEF ReportedFirst
  <2> QED
    BY <1>3, <2>5, <2>6, <2>7, <2>8 DEF EndStep
<1>4. CASE SignalStep
  <2>1. ~exited /\ UNCHANGED <<exited, started>>
    BY <1>4 DEF SignalStep, HandlerStep, TimedOut, TimerExpired, PeriodicReport, Rearm, Fails,
                SignalArrives, AlarmArrives, AlarmLocksUp
  <2>2. \A c \in Contexts :
          pc'[c] \in {"lastLog", "failHook", "ended", "die", "finished"} => pc'[c] = pc[c]
    BY <1>4, <1>types DEF SignalStep, HandlerStep, TimedOut, TimerExpired, PeriodicReport,
                          Rearm, Fails, SignalArrives, AlarmArrives, AlarmLocksUp, Positions
  <2>3. \/ UNCHANGED <<reportState, prepared>>
        \/ SendReport("alrm", "failed") \/ SendReport("alrm", "periodic")
    BY <1>4 DEF SignalStep, HandlerStep, TimedOut, TimerExpired, PeriodicReport, Rearm, Fails,
                SignalArrives, AlarmArrives, AlarmLocksUp
  <2>4. reportState' = "last" => LastUnderWay'
    BY <2>3, <1>inv, <1>keep, <1>last DEF ReportedFirst, ReportKinds
  <2>5. Said => Said'
    BY <2>3, <1>types, <1>grow, SaidStays DEF ReportKinds
  <2> QED
    BY <2>1, <2>2, <2>4, <2>5, <1>inv DEF ReportedFirst
<1>5. CASE UNCHANGED vars
  BY <1>5, <1>inv, <1>keep DEF vars, ReportedFirst
<1>6. CASE ReportStep
  <2>1. PICK c \in Contexts, kind \in ReportKinds : PrepareReport(c, kind)
    BY <1>6 DEF ReportStep
  <2>2. reportState' = "last" => LastUnderWay'
    BY <2>1, <1>types DEF PrepareReport, LastUnderWay, Outputs
  <2>3. Said => Said'
    BY <2>1, <1>types, <1>stays DEF PrepareReport, Said, Outputs
  <2> QED
    BY <2>1, <2>2, <2>3, <1>inv DEF PrepareReport, ReportedFirst
<1> QED
  BY <1>1, <1>2, <1>3, <1>4, <1>5, <1>6, StepCases

\* A session that entered its loop is reported as finished or failed before the
\* process exits, whichever of main program and SIGALRM handler ends it, unless
\* the handler ends it while the main program is writing the last report.
THEOREM StartedReported == Spec => []StartedSessionReported
<1>1. Init => Typed /\ StartedInv
  BY TypeInit, StartedInit
<1>2. Typed /\ StartedInv /\ [Next]_vars => (Typed /\ StartedInv)'
  BY TypeStep, StartedPlaces, PreparedPlaces, StartedReports DEF StartedInv
<1>3. StartedInv => StartedSessionReported
  BY DEF StartedInv, ReportedFirst, Said, Reported, StartedSessionReported
<1> QED
  BY <1>1, <1>2, <1>3, PTL DEF Spec

-----------------------------------------------------------------------------
(***************************************************************************)
(* At most one of the two verdict hooks runs.                              *)
(***************************************************************************)

\* A verdict hook has run.
Decided == \E i \in 1..Len(hooks) : hooks[i] \in {"finished", "failed"}

AtMostOne ==
  \A i, j \in 1..Len(hooks) :
    hooks[i] \in {"finished", "failed"} /\ hooks[j] \in {"finished", "failed"} => i = j

\* The timeout alarm outlives the proxy connection only in a process that is in
\* susshi_disconnect_standard() or about to die.
TimeoutAlarm ==
  alarm = "timeout" \/ pc["alrm"] \in {"timedOut", "standard"} =>
    \/ pc["main"] \in {"proxy", "standard", "fatal", "die"}
    \/ pc["main"] \in Ending /\ "standard" \in busy

\* The timer disconnects for a maximum that is reached, and the session loop
\* ends the session of its own accord for a closed side only.
ClosedFirst ==
  /\ pc["alrm"] = "individual" => "gateway" \in closed
  /\ pc["main"] = "end" /\ busy = {} => closed # {}
  /\ pc["main"] = "failHook" => busy # {}

\* After the hook the process is about to exit, and the handler runs no other.
DecidedWhere ==
  Decided /\ mode # "shell" /\ ~exited =>
    \/ /\ pc["main"] = "ended" /\ busy # {}
       /\ pc["alrm"] # "failHook"
       /\ pc["alrm"] = "end" => closed # {}
    \/ pc["alrm"] = "ended"

VerdictInv == OneVerdictHook /\ TimeoutAlarm /\ ClosedFirst /\ DecidedWhere


\* What most steps do to the hooks: run none, or one that is not a verdict.
Quiet ==
  hooks' = hooks \/ \E h \in Hooks \ {"finished", "failed"} : hooks' = Append(hooks, h)

\* Such a step decides nothing.
LEMMA QuietDecides ==
  ASSUME Outputs, Quiet
  PROVE  (Decided' => Decided) /\ (AtMostOne => AtMostOne')
<1>1. CASE hooks' = hooks
  BY <1>1 DEF Decided, AtMostOne
<1>2. ASSUME NEW h \in Hooks \ {"finished", "failed"}, hooks' = Append(hooks, h)
      PROVE  (Decided' => Decided) /\ (AtMostOne => AtMostOne')
  <2>1. /\ Len(hooks) \in Nat /\ Len(hooks') = Len(hooks) + 1
        /\ \A i \in 1..Len(hooks) : hooks'[i] = hooks[i]
        /\ hooks'[Len(hooks) + 1] = h
    BY <1>2 DEF Outputs
  <2>2. \A i \in 1..Len(hooks') : hooks'[i] \in {"finished", "failed"} => i \in 1..Len(hooks)
    BY <2>1
  <2> QED
    BY <2>1, <2>2 DEF Decided, AtMostOne
<1> QED
  BY <1>1, <1>2 DEF Quiet

\* The first verdict is the only one.
LEMMA FirstVerdict ==
  ASSUME Outputs, ~Decided, NEW h \in Hooks, hooks' = Append(hooks, h)
  PROVE  AtMostOne'
<1>1. /\ Len(hooks) \in Nat /\ Len(hooks') = Len(hooks) + 1
      /\ \A i \in 1..Len(hooks) : hooks'[i] = hooks[i]
  BY DEF Outputs
<1>2. \A i \in 1..Len(hooks') : hooks'[i] \in {"finished", "failed"} => i = Len(hooks')
  BY <1>1 DEF Decided
<1> QED
  BY <1>2 DEF AtMostOne

\* The initial states satisfy the invariant.
LEMMA VerdictInit == Init => VerdictInv
BY DEF Init, VerdictInv, OneVerdictHook, TimeoutAlarm, ClosedFirst, DecidedWhere, Decided,
       Ending

\* Every step keeps the alarm and the closed flags where they belong.
LEMMA VerdictPlaces ==
  Typed /\ VerdictInv /\ [Next]_vars => TimeoutAlarm' /\ ClosedFirst'
<1> SUFFICES ASSUME Typed, VerdictInv, [Next]_vars PROVE TimeoutAlarm' /\ ClosedFirst'
  OBVIOUS
<1>1. Positions /\ TimeoutAlarm /\ ClosedFirst
  BY TypeParts DEF Typed, Parts, VerdictInv
<1>2. CASE LoginStep
  BY <1>1, <1>2 DEF LoginStep, ClientConnects, KeyExchange, LoginString, ProxyConnected,
                    ProxyFails, Authenticated, NotAuthenticated, AuthFailed,
                    TargetConnectFails, TargetSkipped, NoTargetLeft, TargetRefused,
                    ShellDenied, LoggedIn, Starts, Register, FirstReport, EnterLoop,
                    susshi_session_set_timeout_alarm, susshi_session_cancel_timeout_alarm,
                    Positions, TimeoutAlarm, ClosedFirst, Ending
<1>3. CASE LoopStep
  BY <1>1, <1>3 DEF LoopStep, CallbackCloses, PeerLost, ClosedSeen, TargetDisconnects,
                    InspectionFails, SignalSeen, SocketError, OtherLoopEnds, ShellRefused,
                    ShellExec, ShellStart, InSession, Positions, TimeoutAlarm, ClosedFirst,
                    Ending
<1>4. CASE EndStep
  BY <1>1, <1>4 DEF EndStep, LastReport, Finish, Disconnect, EndSession, LastLog, FailHook,
                    Ended, Fatal, Die, Positions, TimeoutAlarm, ClosedFirst, Ending
<1>5. CASE SignalStep
  BY <1>1, <1>5 DEF SignalStep, HandlerStep, TimedOut, TimerExpired, PeriodicReport, Rearm,
                    Fails, SignalArrives, AlarmArrives, AlarmLocksUp, Positions, TimeoutAlarm, ClosedFirst,
                    Ending
<1>6. CASE ReportStep
  BY <1>1, <1>6 DEF ReportStep, PrepareReport, TimeoutAlarm, ClosedFirst
<1> QED
  BY <1>1, <1>2, <1>3, <1>4, <1>5, <1>6, StepCases DEF vars, TimeoutAlarm, ClosedFirst

\* Every step keeps a decision where it is about to exit.
LEMMA VerdictHooks ==
  Typed /\ VerdictInv /\ [Next]_vars => OneVerdictHook' /\ DecidedWhere'
<1> SUFFICES ASSUME Typed, VerdictInv, [Next]_vars PROVE OneVerdictHook' /\ DecidedWhere'
  OBVIOUS
<1>types. Positions /\ Outputs /\ HandlerDisconnects
  BY TypeParts DEF Typed, Parts
<1>inv. TimeoutAlarm /\ ClosedFirst /\ DecidedWhere /\ (mode # "shell" => AtMostOne)
  BY DEF VerdictInv, OneVerdictHook, AtMostOne
<1> SUFFICES (mode' # "shell" => AtMostOne') /\ DecidedWhere'
  BY DEF OneVerdictHook, AtMostOne
<1>quiet. Quiet => (Decided' => Decided) /\ (AtMostOne => AtMostOne')
  BY <1>types, QuietDecides
<1>1. CASE LoginStep
  <2>1. Quiet
    BY <1>1 DEF LoginStep, ClientConnects, KeyExchange, LoginString, ProxyConnected,
                ProxyFails, Authenticated, NotAuthenticated, AuthFailed, TargetConnectFails,
                TargetSkipped, NoTargetLeft, TargetRefused, ShellDenied, LoggedIn, Starts,
                Register, FirstReport, EnterLoop, Quiet, RunHook, Hooks
  <2>2. mode' # "shell" => mode # "shell"
    BY <1>1 DEF LoginStep, ClientConnects, KeyExchange, LoginString, ProxyConnected,
                ProxyFails, Authenticated, NotAuthenticated, AuthFailed, TargetConnectFails,
                TargetSkipped, NoTargetLeft, TargetRefused, ShellDenied, LoggedIn, Starts,
                Register, FirstReport, EnterLoop
  <2>3. mode' # "shell" => ~Decided
    BY <1>1, <1>inv, <2>2 DEF LoginStep, ClientConnects, KeyExchange, LoginString,
                              ProxyConnected, ProxyFails, Authenticated, NotAuthenticated,
                              AuthFailed, TargetConnectFails, TargetSkipped, NoTargetLeft,
                              TargetRefused, ShellDenied, LoggedIn, Starts, Register,
                              FirstReport, EnterLoop, DecidedWhere
  <2> QED
    BY <2>1, <2>2, <2>3, <1>inv, <1>quiet DEF DecidedWhere
<1>2. CASE LoopStep
  <2>1. UNCHANGED mode /\ (Quiet \/ mode = "shell")
    BY <1>2 DEF LoopStep, CallbackCloses, PeerLost, ClosedSeen, TargetDisconnects,
                InspectionFails, SignalSeen, SocketError, OtherLoopEnds, ShellRefused,
                ShellExec, ShellStart, InSession, Quiet
  <2>2. mode # "shell" => ~Decided
    BY <1>2, <1>inv DEF LoopStep, CallbackCloses, PeerLost, ClosedSeen, TargetDisconnects,
                        InspectionFails, SignalSeen, SocketError, OtherLoopEnds, ShellRefused,
                        ShellExec, ShellStart, InSession, DecidedWhere
  <2> QED
    BY <2>1, <2>2, <1>inv, <1>quiet DEF DecidedWhere
<1>3. CASE EndStep
  <2>mode. UNCHANGED mode /\ ~exited
    BY <1>3 DEF EndStep, LastReport, Finish, Disconnect, EndSession, LastLog, FailHook, Ended,
                Fatal, Die
  <2>1. CASE LastReport
    <3>1. Quiet /\ (mode # "shell" => ~Decided)
      BY <2>1, <1>inv DEF LastReport, Quiet, DecidedWhere
    <3> QED
      BY <3>1, <2>mode, <1>inv, <1>quiet DEF DecidedWhere
  <2>2. CASE Finish
    <3>1. mode # "shell" => ~Decided
      BY <2>2, <1>inv DEF Finish, DecidedWhere
    <3>2. hooks' = hooks \/ \E h \in Hooks : hooks' = Append(hooks, h)
      BY <2>2 DEF Finish, RunHook, Hooks
    <3>3. mode # "shell" => AtMostOne'
      BY <3>1, <3>2, <1>types, <1>inv, FirstVerdict DEF AtMostOne
    <3> QED
      BY <2>2, <2>mode, <3>3 DEF Finish, DecidedWhere
  <2>3. ASSUME NEW c \in Contexts, FailHook(c)
        PROVE  (mode' # "shell" => AtMostOne') /\ DecidedWhere'
    <3>1. mode # "shell" => ~Decided
      BY <2>3, <1>inv DEF FailHook, DecidedWhere
    <3>2. hooks' = hooks \/ \E h \in Hooks : hooks' = Append(hooks, h)
      BY <2>3 DEF FailHook, RunHook, Hooks
    <3>3. mode # "shell" => AtMostOne'
      BY <3>1, <3>2, <1>types, <1>inv, FirstVerdict DEF AtMostOne
    <3>4. \/ pc'["main"] = "ended" /\ busy' # {} /\ pc'["alrm"] = "idle"
          \/ pc'["alrm"] = "ended"
      BY <2>3, <1>types, <1>inv DEF FailHook, Positions, ClosedFirst
    <3> QED
      BY <2>mode, <3>3, <3>4 DEF DecidedWhere
  <2>4. ASSUME NEW c \in Contexts,
               \/ \E f \in {"individual", "standard"} : Disconnect(c, f)
               \/ EndSession(c) \/ LastLog(c) \/ Ended(c) \/ Fatal(c) \/ Die(c)
        PROVE  (mode' # "shell" => AtMostOne') /\ DecidedWhere'
    <3>1. Quiet
      BY <2>4 DEF Disconnect, EndSession, LastLog, Ended, Fatal, Die, Quiet
    <3>2. mode # "shell" /\ Decided => DecidedWhere'
      BY <2>4, <2>mode, <1>types, <1>inv
         DEF Disconnect, EndSession, LastLog, Ended, Fatal, Die, Positions, DecidedWhere,
             TimeoutAlarm, ClosedFirst, HandlerDisconnects, Ending
    <3> QED
      BY <2>mode, <3>1, <3>2, <1>inv, <1>quiet DEF DecidedWhere
  <2> QED
    BY <1>3, <2>1, <2>2, <2>3, <2>4 DEF EndStep
<1>4. CASE SignalStep
  <2>1. Quiet /\ UNCHANGED mode /\ ~exited
    BY <1>4 DEF SignalStep, HandlerStep, TimedOut, TimerExpired, PeriodicReport, Rearm, Fails,
                SignalArrives, AlarmArrives, AlarmLocksUp, Quiet
  <2>2. mode # "shell" /\ Decided => DecidedWhere'
    BY <1>4, <1>types, <1>inv DEF SignalStep, HandlerStep, TimedOut, TimerExpired,
                                  PeriodicReport, Rearm, Fails, SignalArrives, AlarmArrives, AlarmLocksUp,
                                  Positions, DecidedWhere
  <2> QED
    BY <2>1, <2>2, <1>inv, <1>quiet DEF DecidedWhere
<1>5. CASE UNCHANGED vars
  BY <1>5, <1>inv DEF vars, DecidedWhere, Decided, AtMostOne
<1>6. CASE ReportStep
  BY <1>6, <1>inv DEF ReportStep, PrepareReport, DecidedWhere, Decided, AtMostOne
<1> QED
  BY <1>1, <1>2, <1>3, <1>4, <1>5, <1>6, StepCases

\* The hooks session-finished and session-failed exclude each other, however
\* the SIGALRM handler interrupts the end of the session.
THEOREM OneVerdict == Spec => []OneVerdictHook
<1>1. Init => Typed /\ StartedInv /\ VerdictInv
  BY TypeInit, StartedInit, VerdictInit
<1>2. Typed /\ StartedInv /\ VerdictInv /\ [Next]_vars => (Typed /\ StartedInv /\ VerdictInv)'
  BY TypeStep, StartedPlaces, PreparedPlaces, StartedReports, VerdictPlaces, VerdictHooks DEF StartedInv,
       VerdictInv
<1>3. VerdictInv => OneVerdictHook
  BY DEF VerdictInv
<1> QED
  BY <1>1, <1>2, <1>3, PTL DEF Spec

-----------------------------------------------------------------------------
(***************************************************************************)
(* The reports implement ReportProtocol until the first disturbance.       *)
(***************************************************************************)

\* Nothing, or nothing final, has been reported.
OpenReports == reports = <<>> \/ reports[Len(reports)] \notin Protocol!Verdicts

\* The number of reports sent before the disturbance.
CutWithin == cut \in Nat \cup {-1} /\ cut <= Len(reports)

\* The timer of the session is not set before it is registered.
TimerWhere ==
  pc["main"] \in {"connect", "kex", "auth", "proxy", "login", "start", "register"} =>
    alarm # "timer" /\ pc["alrm"] \notin {"timer", "periodic", "rearm", "individual"}

\* The first disturbance is the first one.
HandlerWaits == cut = -1 => ~shellChild /\ (pc["alrm"] # "idle" => pc["main"] \in Waits)

\* Positions of the main program before the first report, or without one.
Early == {"connect", "kex", "auth", "proxy", "login", "start", "register", "first",
          "authFailed", "failed"}

\* What the process has said, by where it is: before the first report,
NothingYet ==
  cut = -1 /\ pc["alrm"] = "idle" /\ pc["main"] \in Early =>
    reports = <<>> /\ busy = {} /\ closed = {}

\* when the timeout hits the proxy connection,
ProxySays ==
  cut = -1 /\ pc["main"] = "proxy" =>
    /\ closed = {}
    /\ pc["alrm"] = "timedOut" => reports = <<>>
    /\ pc["alrm"] \in {"standard", "end", "fatal"} =>
         reports # <<>> /\ reports[Len(reports)] = "denied"

\* in the loop, where the timer comes and goes or ends the session,
LoopSays ==
  cut = -1 =>
    /\ pc["main"] \in {"enter", "loop"} /\ pc["alrm"] \in {"idle", "timer", "periodic", "rearm"} =>
         /\ busy = {} /\ OpenReports
         /\ reports = <<>> => mode = "chefRemote"
    /\ pc["main"] = "loop" /\ pc["alrm"] \in {"individual", "fatal", "end"} =>
         /\ started /\ reports # <<>> /\ OpenReports
         /\ pc["alrm"] = "end" => closed # {}

\* and when the main program ends the session.
EndSays ==
  cut = -1 =>
    /\ pc["main"] \in {"standard", "individual", "end", "fatal"} =>
         /\ OpenReports
         /\ reports # <<>> => authed
         /\ started => reports # <<>>
         /\ pc["main"] \in {"standard", "individual"} => busy = {}
    /\ pc["main"] \in {"lastLog", "ended"} /\ busy = {} => reportState = "last"
    /\ pc["main"] = "last" =>
         \/ reportState = "last" /\ prepared["main"] = "none"
         \/ reports # <<>> /\ OpenReports

\* Undisturbed, the report the main program is writing is the latest.
PreparedSays == cut = -1 /\ prepared["main"] # "none" => reportState = prepared["main"]

SaysInv == NothingYet /\ ProxySays /\ LoopSays /\ EndSays
ProtocolInv == CutWithin /\ TimerWhere /\ HandlerWaits /\ PreparedSays /\ SaysInv

\* All invariants together.
Inv == Typed /\ StartedInv /\ VerdictInv /\ ProtocolInv

\* The last report and what it leaves open.
LEMMA AppendOpen ==
  ASSUME reports \in Seq(SessionStates), NEW s \in SessionStates, reports' = Append(reports, s)
  PROVE  /\ reports' # <<>> /\ reports'[Len(reports')] = s
         /\ s \in {"new", "active"} => OpenReports'
BY DEF OpenReports, Protocol!Verdicts

\* The initial states satisfy the invariant.
LEMMA ProtocolInit == ReportsInit => ProtocolInv
<1> SUFFICES ASSUME ReportsInit PROVE ProtocolInv
  OBVIOUS
<1>1. CutWithin
  BY DEF ReportsInit, Init, CutWithin
<1>2. TimerWhere /\ HandlerWaits /\ PreparedSays /\ SaysInv
  BY DEF ReportsInit, Init, TimerWhere, HandlerWaits, PreparedSays, SaysInv, NothingYet, ProxySays,
         LoopSays, EndSays
<1> QED
  BY <1>1, <1>2 DEF ProtocolInv

\* The reports before the disturbance are not touched any more.
LEMMA CutStep == Inv /\ [ReportsNext]_<<vars, cut>> => CutWithin'
<1> SUFFICES ASSUME Inv, [ReportsNext]_<<vars, cut>> PROVE CutWithin'
  OBVIOUS
<1>1. Outputs /\ CutWithin
  BY TypeParts DEF Inv, Typed, Parts, ProtocolInv
<1>2. ReportsGrow /\ cut' \in {cut, Len(reports)}
  BY StepReports DEF Inv, ReportsNext, vars
<1>3. Len(reports) \in Nat /\ Len(reports') \in Nat /\ Len(reports) <= Len(reports')
  BY <1>1, <1>2 DEF Outputs, ReportsGrow
<1> QED
  BY <1>1, <1>2, <1>3 DEF CutWithin

\* The timer stays where it is, and a disturbance is noticed.
LEMMA PlacesStep == Inv /\ ReportsNext => TimerWhere' /\ HandlerWaits'
<1> SUFFICES ASSUME Inv, ReportsNext PROVE TimerWhere' /\ HandlerWaits'
  OBVIOUS
<1>1. Positions /\ TimerWhere /\ HandlerWaits /\ TimeoutAlarm
  BY TypeParts DEF Inv, Typed, Parts, ProtocolInv, VerdictInv
<1>2. cut' = -1 => cut = -1 /\ ~Disturbed
  BY TypeParts DEF Inv, Typed, Parts, Outputs, ReportsNext
<1>3. CASE LoginStep
  BY <1>1, <1>2, <1>3 DEF LoginStep, ClientConnects, KeyExchange, LoginString, ProxyConnected,
                          ProxyFails, Authenticated, NotAuthenticated, AuthFailed,
                          TargetConnectFails, TargetSkipped, NoTargetLeft, TargetRefused,
                          ShellDenied, LoggedIn, Starts, Register, FirstReport, EnterLoop,
                          susshi_session_set_timeout_alarm,
                          susshi_session_cancel_timeout_alarm, Positions, TimerWhere,
                          HandlerWaits, Disturbed
<1>4. CASE LoopStep
  BY <1>1, <1>2, <1>4 DEF LoopStep, CallbackCloses, PeerLost, ClosedSeen, TargetDisconnects,
                          InspectionFails, SignalSeen, SocketError, OtherLoopEnds,
                          ShellRefused, ShellExec, ShellStart, InSession, Positions,
                          TimerWhere, HandlerWaits, Disturbed
<1>5. CASE EndStep
  BY <1>1, <1>2, <1>5 DEF EndStep, LastReport, Finish, Disconnect, EndSession, LastLog,
                          FailHook, Ended, Fatal, Die, Positions, TimerWhere, HandlerWaits,
                          Disturbed, Waits
<1>6. CASE SignalStep
  <2>alarm. alarm \in {"off", "timeout", "timer"}
    BY TypeParts DEF Inv, Typed, Parts, Flags
  <2>1. TimerWhere'
    BY <1>1, <1>6, <2>alarm DEF SignalStep, HandlerStep, TimedOut, TimerExpired,
                                PeriodicReport, Rearm, Fails, SignalArrives, AlarmArrives, AlarmLocksUp,
                                Positions, TimerWhere
  <2>2. CASE AlarmArrives \/ AlarmLocksUp
    <3>1. pc["alrm"] = "idle" /\ pc'["alrm"] # "idle" /\ UNCHANGED <<pc["main"], shellChild>>
      BY <2>2, <1>1 DEF AlarmArrives, AlarmLocksUp, Positions
    <3> QED
      BY <2>1, <3>1, <1>1, <1>2 DEF HandlerWaits, Disturbed
  <2>3. CASE ~(AlarmArrives \/ AlarmLocksUp)
    BY <2>1, <2>3, <1>1, <1>2, <1>6 DEF SignalStep, HandlerStep, TimedOut, TimerExpired,
                                        PeriodicReport, Rearm, Fails, SignalArrives,
                                        AlarmArrives, AlarmLocksUp, Positions, HandlerWaits
  <2> QED
    BY <2>2, <2>3
<1>7. CASE ReportStep
  BY <1>1, <1>2, <1>7 DEF ReportStep, PrepareReport, TimerWhere, HandlerWaits
<1> QED
  BY <1>3, <1>4, <1>5, <1>6, <1>7, StepCases DEF ReportsNext

\* Undisturbed, no handler reports while the main program does.
LEMMA PreparedStep == Inv /\ Next /\ cut = -1 => PreparedSays'
<1> SUFFICES ASSUME Inv, Next, cut = -1 PROVE PreparedSays'
  OBVIOUS
<1>types. Outputs
  BY TypeParts DEF Inv, Typed, Parts
<1>inv. PreparedSays /\ HandlerWaits /\ PreparedWhere
  BY DEF Inv, ProtocolInv, StartedInv
<1>1. CASE UNCHANGED <<reportState, prepared>>
  BY <1>1, <1>inv DEF PreparedSays
<1>2. ASSUME NEW c \in Contexts, NEW kind \in ReportKinds, SendReport(c, kind)
      PROVE  PreparedSays'
  BY <1>2, <1>inv, <1>types DEF SendReport, PreparedSays, Outputs
<1>3. CASE ReportStep
  <2>1. PICK c \in Contexts, kind \in ReportKinds : PrepareReport(c, kind)
    BY <1>3 DEF ReportStep
  <2>2. CASE c = "main"
    BY <2>1, <2>2, <1>types DEF PrepareReport, PreparedSays, Outputs
  <2>3. CASE c = "alrm"
    <3>1. prepared["main"] = "none"
      BY <2>1, <2>3, <1>inv DEF PrepareReport, Reporting, HandlerWaits, PreparedWhere, Waits
    <3> QED
      BY <2>1, <2>3, <3>1, <1>types DEF PrepareReport, PreparedSays, Outputs
  <2> QED
    BY <2>2, <2>3
<1>4. CASE LoginStep
  BY <1>1, <1>2, <1>4 DEF LoginStep, ClientConnects, KeyExchange, LoginString, ProxyConnected,
                          ProxyFails, Authenticated, NotAuthenticated, AuthFailed,
                          TargetConnectFails, TargetSkipped, NoTargetLeft, TargetRefused,
                          ShellDenied, LoggedIn, Starts, Register, FirstReport, EnterLoop,
                          ReportKinds
<1>5. CASE LoopStep
  BY <1>1, <1>5 DEF LoopStep, CallbackCloses, PeerLost, ClosedSeen, TargetDisconnects,
                    InspectionFails, SignalSeen, SocketError, OtherLoopEnds, ShellRefused,
                    ShellExec, ShellStart, InSession
<1>6. CASE EndStep
  BY <1>1, <1>2, <1>6 DEF EndStep, LastReport, Finish, Disconnect, EndSession, LastLog,
                          FailHook, Ended, Fatal, Die, ReportKinds
<1>7. CASE SignalStep
  BY <1>1, <1>2, <1>7 DEF SignalStep, HandlerStep, TimedOut, TimerExpired, PeriodicReport,
                          Rearm, Fails, SignalArrives, AlarmArrives, AlarmLocksUp, ReportKinds
<1> QED
  BY <1>3, <1>4, <1>5, <1>6, <1>7, StepCases

\* The login says nothing but the first report.
LEMMA SaysLogin == Inv /\ LoginStep /\ cut = -1 => SaysInv'
<1> SUFFICES ASSUME Inv, LoginStep, cut = -1 PROVE SaysInv'
  OBVIOUS
<1>types. Positions /\ Outputs /\ mode \in {"unset", "gateway", "bastion", "shell", "chefRemote"}
  BY TypeParts DEF Inv, Typed, Parts, Flags
<1>says. NothingYet /\ ProxySays /\ LoopSays /\ EndSays
  BY DEF Inv, ProtocolInv, SaysInv
<1>mode. ModeWhere /\ LoginDone /\ StartedWhere
  BY DEF Inv, StartedInv
<1>1. pc["alrm"] = "idle" /\ pc'["alrm"] = "idle" /\ UNCHANGED <<closed, busy>>
  BY <1>types DEF LoginStep, ClientConnects, KeyExchange, LoginString, ProxyConnected,
                  ProxyFails, Authenticated, NotAuthenticated, AuthFailed, TargetConnectFails,
                  TargetSkipped, NoTargetLeft, TargetRefused, ShellDenied, LoggedIn, Starts,
                  Register, FirstReport, EnterLoop, Positions
<1>2. CASE FirstReport
  <2>1. reports' = Append(reports, "new")
    BY <1>2 DEF FirstReport, SendReport, Duplicate, Suppressed, StateOf
  <2>2. reports' # <<>> /\ OpenReports'
    BY <2>1, <1>types, AppendOpen DEF Outputs, SessionStates
  <2> QED
    BY <1>1, <1>2, <2>2, <1>types, <1>says DEF FirstReport, Positions, SaysInv, NothingYet,
         ProxySays, LoopSays, EndSays, Early
<1>3. CASE ~FirstReport /\ UNCHANGED reports
  <2>1. OpenReports' = OpenReports
    BY <1>3 DEF OpenReports
  <2>2. NothingYet' /\ ProxySays'
    BY <1>1, <1>3, <1>types, <1>says, <1>mode DEF LoginStep, ClientConnects, KeyExchange,
         LoginString, ProxyConnected, ProxyFails, Authenticated, NotAuthenticated, AuthFailed,
         TargetConnectFails, TargetSkipped, NoTargetLeft, TargetRefused, ShellDenied,
         LoggedIn, Starts, Register, FirstReport, EnterLoop, Positions, NothingYet, ProxySays,
         Early
  <2>3. LoopSays'
    <3>1. pc'["main"] \in {"enter", "loop"} => EnterLoop \/ LoggedIn
      BY <1>1, <1>3, <1>types DEF LoginStep, ClientConnects, KeyExchange, LoginString,
                                  ProxyConnected, ProxyFails, Authenticated, NotAuthenticated,
                                  AuthFailed, TargetConnectFails, TargetSkipped, NoTargetLeft,
                                  TargetRefused, ShellDenied, LoggedIn, Starts, Register,
                                  FirstReport, EnterLoop, Positions
    <3>2. CASE EnterLoop
      BY <3>2, <1>1, <2>1, <1>types, <1>says DEF EnterLoop, Positions, LoopSays
    <3>3. CASE LoggedIn
      BY <3>3, <1>1, <1>3, <1>types, <1>says DEF LoggedIn, Positions, NothingYet, LoopSays,
           Early, OpenReports
    <3> QED
      BY <3>1, <3>2, <3>3, <1>1 DEF LoopSays
  <2>4. EndSays'
    BY <1>1, <1>3, <2>1, <1>types, <1>says, <1>mode DEF LoginStep, ClientConnects,
         KeyExchange, LoginString, ProxyConnected, ProxyFails, Authenticated,
         NotAuthenticated, AuthFailed, TargetConnectFails, TargetSkipped, NoTargetLeft,
         TargetRefused, ShellDenied, LoggedIn, Starts, Register, FirstReport, EnterLoop,
         Positions, NothingYet, EndSays, StartedWhere, EndPcs, Early, OpenReports
  <2> QED
    BY <2>2, <2>3, <2>4 DEF SaysInv
<1> QED
  BY <1>2, <1>3 DEF LoginStep, ClientConnects, KeyExchange, LoginString, ProxyConnected,
                    ProxyFails, Authenticated, NotAuthenticated, AuthFailed,
                    TargetConnectFails, TargetSkipped, NoTargetLeft, TargetRefused,
                    ShellDenied, LoggedIn, Starts, Register, FirstReport, EnterLoop

\* The loops say nothing; what the forked child says is a disturbance.
LEMMA SaysLoop == Inv /\ LoopStep /\ cut = -1 /\ ~shellChild' => SaysInv'
<1> SUFFICES ASSUME Inv, LoopStep, cut = -1, ~shellChild' PROVE SaysInv'
  OBVIOUS
<1>types. Positions /\ Outputs /\ mode \in {"unset", "gateway", "bastion", "shell", "chefRemote"}
  BY TypeParts DEF Inv, Typed, Parts, Flags
<1>says. NothingYet /\ ProxySays /\ LoopSays /\ EndSays
  BY DEF Inv, ProtocolInv, SaysInv
<1>mode. ModeWhere /\ LoginDone /\ StartedWhere
  BY DEF Inv, StartedInv
<1>1. /\ pc["alrm"] = "idle" /\ pc'["alrm"] = "idle" /\ pc["main"] = "loop"
      /\ UNCHANGED <<reports, reportState, busy, mode, started, authed>>
      /\ pc'["main"] \in {"loop", "end", "individual", "standard", "last", "finished"}
      /\ pc'["main"] = "last" => mode = "shell"
      /\ OpenReports' = OpenReports
  BY <1>types DEF LoopStep, CallbackCloses, PeerLost, ClosedSeen, TargetDisconnects,
                  InspectionFails, SignalSeen, SocketError, OtherLoopEnds, ShellRefused,
                  ShellExec, ShellStart, InSession, Positions, OpenReports
<1>2. NothingYet' /\ ProxySays' /\ LoopSays'
  BY <1>1, <1>says DEF NothingYet, ProxySays, LoopSays, Early
<1>3. EndSays'
  BY <1>1, <1>says, <1>mode, <1>types DEF LoopSays, EndSays, LoginDone, ModeWhere, ToTarget
<1> QED
  BY <1>2, <1>3 DEF SaysInv

\* The end of the session, step by step.
LEMMA SaysEnd == Inv /\ EndStep /\ cut = -1 => SaysInv'
<1> SUFFICES ASSUME Inv, EndStep, cut = -1 PROVE SaysInv'
  OBVIOUS
<1>types. Positions /\ Outputs /\ mode \in {"unset", "gateway", "bastion", "shell", "chefRemote"}
  BY TypeParts DEF Inv, Typed, Parts, Flags
<1>says. NothingYet /\ ProxySays /\ LoopSays /\ EndSays
  BY DEF Inv, ProtocolInv, SaysInv
<1>mode. ModeWhere /\ LoginDone /\ StartedWhere
  BY DEF Inv, StartedInv
<1>more. TimeoutAlarm /\ ClosedFirst /\ TimerWhere /\ HandlerWaits /\ HandlerDisconnects
  BY DEF Inv, VerdictInv, ProtocolInv, Typed
<1>prep. PreparedSays /\ PreparedWhere
  BY DEF Inv, ProtocolInv, StartedInv
<1>kept. UNCHANGED <<closed, started, authed, mode, proxyError>>
  BY DEF EndStep, LastReport, Finish, Disconnect, EndSession, LastLog, FailHook, Ended, Fatal,
         Die
<1>1. CASE LastReport \/ Finish
  BY <1>1, <1>kept, <1>types, <1>says, <1>more DEF LastReport, Finish, Positions, SaysInv,
       NothingYet, ProxySays, LoopSays, EndSays, OpenReports, Early
<1>2. ASSUME NEW c \in Contexts, NEW f \in {"individual", "standard"}, Disconnect(c, f)
      PROVE  SaysInv'
  <2>1. OpenReports' = OpenReports
    BY <1>2 DEF Disconnect, OpenReports
  <2>2. CASE c = "main"
    BY <1>2, <2>1, <2>2, <1>kept, <1>types, <1>says, <1>more DEF Disconnect, Positions,
         SaysInv, NothingYet, ProxySays, LoopSays, EndSays, Early
  <2>3. CASE c = "alrm"
    BY <1>2, <2>1, <2>3, <1>kept, <1>types, <1>says, <1>more DEF Disconnect, Positions,
         SaysInv, NothingYet, ProxySays, LoopSays, EndSays, Early, Waits, HandlerWaits,
         TimeoutAlarm, ClosedFirst, TimerWhere, Ending
  <2> QED
    BY <2>2, <2>3
<1>3. ASSUME NEW c \in Contexts, EndSession(c) PROVE SaysInv'
  <2>1. CASE c = "main"
    <3>1. SendReport("main", "last") => reportState' = "last"
      BY <1>prep DEF SendReport, Duplicate, PreparedSays
    <3>2. /\ pc["main"] = "end" /\ pc'["alrm"] = "idle" /\ busy' = busy
          /\ pc'["main"] \in {"failHook", "lastLog", "ended"}
          /\ pc'["main"] = "lastLog" => SendReport("main", "last")
          /\ pc'["main"] = "ended" => ~started
      BY <1>3, <2>1, <1>types DEF EndSession, Positions
    <3>3. pc'["main"] = "ended" => busy # {}
      BY <3>2, <1>mode DEF ModeWhere, Ending
    <3> QED
      BY <3>1, <3>2, <3>3 DEF SaysInv, NothingYet, ProxySays, LoopSays, EndSays, Early
  <2>2. CASE c = "alrm"
    BY <1>3, <2>2, <1>kept, <1>types, <1>says, <1>more DEF EndSession, Positions, SaysInv,
         NothingYet, ProxySays, LoopSays, EndSays, Early, HandlerWaits, Waits
  <2> QED
    BY <2>1, <2>2
<1>4. ASSUME NEW c \in Contexts, LastLog(c) \/ FailHook(c) \/ Ended(c) \/ Die(c) PROVE SaysInv'
  <2>1. OpenReports' = OpenReports /\ UNCHANGED <<reports, reportState, prepared, busy>>
    BY <1>4 DEF LastLog, FailHook, Ended, Die, OpenReports
  <2>2. c = "main" => prepared["main"] = "none"
    BY <1>4, <1>prep DEF LastLog, FailHook, Ended, Die, PreparedWhere
  <2> QED
    BY <1>4, <2>1, <2>2, <1>kept, <1>types, <1>says, <1>more DEF LastLog, FailHook, Ended, Die,
         Positions, SaysInv, NothingYet, ProxySays, LoopSays, EndSays, Early, ClosedFirst,
         HandlerDisconnects, HandlerWaits, Waits, Ending
<1>5. ASSUME NEW c \in Contexts, Fatal(c) PROVE SaysInv'
  BY <1>5, <1>kept, <1>types, <1>says, <1>more DEF Fatal, Positions, SaysInv, NothingYet,
       ProxySays, LoopSays, EndSays, Early, HandlerWaits, Waits
<1> QED
  BY <1>1, <1>2, <1>3, <1>4, <1>5 DEF EndStep

\* The handlers, failing calls and signals.
LEMMA SaysSignal == Inv /\ SignalStep /\ cut = -1 /\ ~Disturbed => SaysInv'
<1> SUFFICES ASSUME Inv, SignalStep, cut = -1, ~Disturbed PROVE SaysInv'
  OBVIOUS
<1>types. Positions /\ Outputs /\ mode \in {"unset", "gateway", "bastion", "shell", "chefRemote"}
  BY TypeParts DEF Inv, Typed, Parts, Flags
<1>says. NothingYet /\ ProxySays /\ LoopSays /\ EndSays
  BY DEF Inv, ProtocolInv, SaysInv
<1>mode. ModeWhere /\ LoginDone /\ StartedWhere
  BY DEF Inv, StartedInv
<1>more. TimeoutAlarm /\ TimerWhere /\ HandlerWaits
  BY DEF Inv, VerdictInv, ProtocolInv
<1>alarm. alarm \in {"off", "timeout", "timer"}
  BY TypeParts DEF Inv, Typed, Parts, Flags
<1>1. CASE TimedOut
  <2>1. pc["main"] = "proxy"
    BY <1>1, <1>more DEF TimedOut, TimeoutAlarm, HandlerWaits, Waits, Ending
  <2>2. reports' = Append(reports, "denied")
    BY <1>1, <1>mode, <2>1 DEF TimedOut, SendReport, Duplicate, Suppressed, StateOf, LoginDone
  <2>3. reports' # <<>> /\ reports'[Len(reports')] = "denied"
    BY <2>2, <1>types, AppendOpen DEF Outputs, SessionStates
  <2> QED
    BY <1>1, <2>1, <2>3, <1>types, <1>says DEF TimedOut, Positions, SaysInv, NothingYet,
         ProxySays, LoopSays, EndSays
<1>2. CASE PeriodicReport
  <2>1. pc["main"] = "loop"
    BY <1>2, <1>more DEF PeriodicReport, TimerWhere, HandlerWaits, Waits
  <2>2. reports' = Append(reports, "active")
    BY <1>2 DEF PeriodicReport, SendReport, Duplicate, Suppressed, StateOf
  <2>3. reports' # <<>> /\ OpenReports'
    BY <2>2, <1>types, AppendOpen DEF Outputs, SessionStates
  <2> QED
    BY <1>2, <2>1, <2>3, <1>types, <1>says DEF PeriodicReport, Positions, SaysInv, NothingYet,
         ProxySays, LoopSays, EndSays
<1>3. CASE TimerExpired \/ Rearm
  <2>1. /\ pc["main"] = "loop" /\ OpenReports' = OpenReports
        /\ UNCHANGED <<reports, busy, started, mode>>
    BY <1>3, <1>more DEF TimerExpired, Rearm, TimerWhere, HandlerWaits, Waits, OpenReports
  <2> QED
    BY <1>3, <2>1, <1>types, <1>says, <1>mode DEF TimerExpired, Rearm, Positions, SaysInv,
         NothingYet, ProxySays, LoopSays, EndSays, ModeWhere, ToTarget, Early
<1>4. ASSUME NEW c \in Contexts, Fails(c) PROVE SaysInv'
  <2>1. /\ OpenReports' = OpenReports
        /\ UNCHANGED <<reports, reportState, busy, closed, started, authed, mode>>
    BY <1>4 DEF Fails, OpenReports
  <2>2. CASE c = "main"
    <3>1. pc["alrm"] = "idle" /\ pc["main"] \in {"auth", "proxy", "login", "register", "loop"}
      BY <1>4, <2>2, <1>types DEF Fails, Positions, MainPcs, EndPcs
    <3>2. pc'["alrm"] = "idle" /\ pc'["main"] = "fatal"
      BY <1>4, <2>2, <1>types, <3>1 DEF Fails, Positions
    <3>3. CASE pc["main"] = "loop"
      <4>1. OpenReports /\ authed /\ (started => reports # <<>>)
        BY <3>1, <3>3, <1>says, <1>mode DEF LoopSays, LoginDone, ModeWhere, ToTarget
      <4> QED
        BY <4>1, <3>2, <2>1 DEF SaysInv, NothingYet, ProxySays, LoopSays, EndSays, Early
    <3>4. CASE pc["main"] # "loop"
      <4>1. OpenReports /\ reports = <<>> /\ ~started
        BY <3>1, <3>4, <1>says, <1>mode DEF NothingYet, StartedWhere, EndPcs, Early, OpenReports
      <4> QED
        BY <4>1, <3>2, <2>1 DEF SaysInv, NothingYet, ProxySays, LoopSays, EndSays, Early
    <3> QED
      BY <3>3, <3>4
  <2>3. CASE c = "alrm"
    BY <1>4, <2>1, <2>3, <1>types, <1>says, <1>mode, <1>more DEF Fails, Positions, SaysInv,
         NothingYet, ProxySays, LoopSays, EndSays, ModeWhere, ToTarget, TimerWhere,
         HandlerWaits, Waits, AlarmPcs, EndPcs
  <2> QED
    BY <2>2, <2>3
<1>5. CASE SignalArrives \/ AlarmArrives \/ AlarmLocksUp
  <2>1. /\ OpenReports' = OpenReports
        /\ UNCHANGED <<reports, reportState, busy, closed, started, authed, mode>>
    BY <1>5 DEF SignalArrives, AlarmArrives, AlarmLocksUp, OpenReports
  <2>2. CASE SignalArrives
    BY <2>1, <2>2, <1>says DEF SignalArrives, SaysInv, NothingYet, ProxySays, LoopSays, EndSays
  <2>3. CASE AlarmArrives
    <3>1. /\ pc["alrm"] = "idle" /\ pc'["main"] = pc["main"] /\ pc["main"] \in Waits
          /\ pc["main"] = "loop" => pc'["alrm"] = "timer"
          /\ pc["main"] = "proxy" => pc'["alrm"] = "timedOut"
      BY <2>3, <1>types, <1>more, <1>alarm DEF AlarmArrives, Positions, Disturbed,
           TimeoutAlarm, TimerWhere, Ending, Waits
    <3> QED
      BY <2>1, <3>1, <1>says DEF SaysInv, NothingYet, ProxySays, LoopSays, EndSays, Waits, Early
  <2>4. CASE AlarmLocksUp
    <3>1. /\ pc'["main"] = pc["main"] /\ pc["main"] \in Waits
          /\ pc["alrm"] = "idle" /\ pc'["alrm"] = "stuck"
      BY <2>4, <1>types, <1>more DEF AlarmLocksUp, Positions, Disturbed
    <3> QED
      BY <2>1, <3>1, <1>says DEF SaysInv, NothingYet, ProxySays, LoopSays, EndSays, Waits, Early
  <2> QED
    BY <1>5, <2>2, <2>3, <2>4
<1> QED
  BY <1>1, <1>2, <1>3, <1>4, <1>5 DEF SignalStep, HandlerStep

\* Noting the state of a report says nothing yet.
LEMMA SaysReport == Inv /\ ReportStep /\ cut = -1 => SaysInv'
<1> SUFFICES ASSUME Inv, ReportStep, cut = -1 PROVE SaysInv'
  OBVIOUS
<1>types. Positions /\ Outputs
  BY TypeParts DEF Inv, Typed, Parts
<1>says. NothingYet /\ ProxySays /\ LoopSays /\ EndSays
  BY DEF Inv, ProtocolInv, SaysInv
<1>more. HandlerWaits /\ PreparedWhere
  BY DEF Inv, ProtocolInv, StartedInv
<1>1. PICK c \in Contexts, kind \in ReportKinds : PrepareReport(c, kind)
  BY DEF ReportStep
<1>2. NothingYet' /\ ProxySays' /\ LoopSays' /\ OpenReports' = OpenReports
  BY <1>1, <1>says DEF PrepareReport, NothingYet, ProxySays, LoopSays, OpenReports
<1>3. CASE c = "main"
  BY <1>1, <1>2, <1>3, <1>says, <1>types DEF PrepareReport, Reporting, Duplicate, EndSays,
       SaysInv, Outputs
<1>4. CASE c = "alrm"
  <2>1. pc["main"] \in Waits /\ prepared["main"] = "none"
    BY <1>1, <1>4, <1>more DEF PrepareReport, Reporting, HandlerWaits, PreparedWhere, Waits
  <2> QED
    BY <1>1, <1>2, <1>4, <2>1, <1>types DEF PrepareReport, EndSays, SaysInv, Outputs, Waits
<1> QED
  BY <1>3, <1>4

\* The invariant is inductive.
LEMMA InvInit == ReportsInit => Inv
BY TypeInit, StartedInit, VerdictInit, ProtocolInit DEF Inv, ReportsInit

\* Every step keeps it.
LEMMA InvStep == Inv /\ [ReportsNext]_<<vars, cut>> => Inv'
<1> SUFFICES ASSUME Inv, [ReportsNext]_<<vars, cut>> PROVE Inv'
  OBVIOUS
<1>1. [Next]_vars
  BY DEF ReportsNext
<1>2. Typed' /\ StartedInv' /\ VerdictInv'
  BY <1>1, TypeStep, StartedPlaces, PreparedPlaces, StartedReports, VerdictPlaces, VerdictHooks DEF Inv,
       StartedInv, VerdictInv
<1>3. CASE ReportsNext
  <2>1. CutWithin' /\ TimerWhere' /\ HandlerWaits'
    BY <1>3, CutStep, PlacesStep
  <2>2. CASE cut' = -1
    <3>1. cut = -1 /\ ~Disturbed
      BY <1>3, <2>2, TypeParts DEF Inv, Typed, Parts, Outputs, ReportsNext
    <3>2. ~shellChild'
      BY <2>1, <2>2 DEF HandlerWaits
    <3> QED
      BY <1>2, <1>3, <2>1, <3>1, <3>2, StepCases, PreparedStep, SaysLogin, SaysLoop, SaysEnd, SaysReport, SaysSignal DEF
           ReportsNext, Inv, ProtocolInv
  <2>3. CASE cut' # -1
    BY <1>2, <2>1, <2>3 DEF Inv, ProtocolInv, PreparedSays, SaysInv, NothingYet, ProxySays, LoopSays, EndSays
  <2> QED
    BY <2>2, <2>3
<1>4. CASE UNCHANGED <<vars, cut>>
  <2>1. CutWithin' /\ TimerWhere' /\ HandlerWaits' /\ OpenReports' = OpenReports
    BY <1>4 DEF Inv, ProtocolInv, vars, CutWithin, TimerWhere, HandlerWaits, OpenReports
  <2> QED
    BY <1>2, <1>4, <2>1 DEF Inv, ProtocolInv, PreparedSays, vars, SaysInv, NothingYet, ProxySays, LoopSays,
                            EndSays
<1> QED
  BY <1>3, <1>4

\* What ReportProtocol allows, on the reports of the session.
Allowed ==
  \/ reports' = reports
  \/ reports = <<>> /\ reports' = <<"new">>
  \/ reports # <<>> /\ OpenReports /\ reports' = Append(reports, "active")
  \/ \E v \in Protocol!Verdicts :
       /\ OpenReports
       /\ v = "finished" => reports # <<>>
       /\ v = "denied" => reports = <<>>
       /\ reports' = Append(reports, v)
  \/ /\ ~OpenReports /\ reports[Len(reports)] # "finished"
     /\ reports' = Append(reports, reports[Len(reports)])

\* A failure is reported as denied before the authentication, as failed after
\* it, unless the proxy has to answer for it.
LEMMA FailureReport ==
  ASSUME NEW c \in Contexts, NEW kind \in {"failed", "fatal"}, SendReport(c, kind)
  PROVE  \/ reports' = reports
         \/ reports' = Append(reports, "failed")
         \/ reports' = Append(reports, "denied") /\ ~authed /\ proxyError = "none"
BY DEF SendReport, Duplicate, Suppressed, StateOf

\* An undisturbed step sends what ReportProtocol allows.
LEMMA AllowedStep == Inv /\ Next /\ cut = -1 /\ ~Disturbed => Allowed
<1> SUFFICES ASSUME Inv, Next, cut = -1, ~Disturbed PROVE Allowed
  OBVIOUS
<1>types. Positions /\ Outputs
  BY TypeParts DEF Inv, Typed, Parts
<1>says. NothingYet /\ ProxySays /\ LoopSays /\ EndSays
  BY DEF Inv, ProtocolInv, SaysInv
<1>mode. ModeWhere /\ LoginDone /\ StartedWhere
  BY DEF Inv, StartedInv
<1>more. TimeoutAlarm /\ TimerWhere /\ HandlerWaits
  BY DEF Inv, VerdictInv, ProtocolInv
<1>1. CASE FirstReport
  <2>1. reports = <<>> /\ reports' = Append(reports, "new")
    BY <1>1, <1>says DEF FirstReport, SendReport, Duplicate, Suppressed, StateOf, NothingYet, Early
  <2>2. reports' = <<"new">>
    BY <2>1
  <2> QED
    BY <2>1, <2>2 DEF Allowed
<1>2. CASE LastReport
  <2>1. CASE prepared["main"] = "none"
    BY <1>2, <2>1 DEF LastReport, SendReport, Allowed
  <2>2. CASE prepared["main"] # "none"
    <3>1. reports' = Append(reports, "finished") /\ reports # <<>> /\ OpenReports
      BY <1>2, <2>2, <1>says DEF LastReport, SendReport, Suppressed, StateOf, EndSays
    <3> QED
      BY <3>1 DEF Allowed, Protocol!Verdicts
  <2> QED
    BY <2>1, <2>2
<1>3. CASE PeriodicReport
  <2>1. reports' = Append(reports, "active")
    BY <1>3 DEF PeriodicReport, SendReport, Duplicate, Suppressed, StateOf
  <2>2. pc["main"] = "loop" /\ mode # "chefRemote"
    BY <1>3, <1>more, <1>mode DEF PeriodicReport, TimerWhere, HandlerWaits, Waits, ModeWhere,
                                  ToTarget
  <2>3. reports # <<>> /\ OpenReports
    BY <1>3, <2>2, <1>says DEF PeriodicReport, LoopSays
  <2> QED
    BY <2>1, <2>3 DEF Allowed
<1>4. CASE TimedOut
  <2>1. pc["main"] = "proxy"
    BY <1>4, <1>more DEF TimedOut, TimeoutAlarm, HandlerWaits, Waits, Ending
  <2>2. reports = <<>> /\ reports' = Append(reports, "denied")
    BY <1>4, <2>1, <1>says, <1>mode DEF TimedOut, SendReport, Duplicate, Suppressed, StateOf, LoginDone,
                                        ProxySays
  <2> QED
    BY <2>2 DEF Allowed, OpenReports, Protocol!Verdicts
<1>5. ASSUME NEW c \in Contexts, EndSession(c) \/ Fatal(c) PROVE Allowed
  <2>1. \/ reports' = reports
        \/ reports' = Append(reports, "failed")
        \/ reports' = Append(reports, "denied") /\ ~authed /\ proxyError = "none"
        \/ reports' = Append(reports, "finished") /\ pc[c] = "end" /\ started /\ closed # {}
    <3>1. SendReport(c, "failed") \/ SendReport(c, "fatal") =>
            \/ reports' = reports
            \/ reports' = Append(reports, "failed")
            \/ reports' = Append(reports, "denied") /\ ~authed /\ proxyError = "none"
      BY FailureReport
    <3>2. SendReport(c, "last") => reports' = reports \/ reports' = Append(reports, "finished")
      BY DEF SendReport, Suppressed, StateOf
    <3> QED
      BY <1>5, <3>1, <3>2 DEF EndSession, Fatal
  <2>2. CASE c = "main"
    <3>1. OpenReports /\ (reports # <<>> => authed) /\ (started => reports # <<>>)
      BY <1>5, <2>2, <1>says DEF EndSession, Fatal, EndSays
    <3> QED
      BY <2>1, <3>1 DEF Allowed, Protocol!Verdicts
  <2>3. CASE c = "alrm" /\ pc["main"] = "proxy"
    <3>1. /\ reports # <<>> /\ reports[Len(reports)] = "denied"
          /\ ~authed /\ proxyError = "none" /\ closed = {} /\ ~started
      BY <1>5, <2>3, <1>says, <1>mode DEF EndSession, Fatal, ProxySays, LoginDone,
                                          StartedWhere, EndPcs
    <3>2. reports' = Append(reports, "denied")
      BY <1>5, <2>3, <3>1 DEF EndSession, Fatal, SendReport, Duplicate, Suppressed, StateOf
    <3> QED
      BY <3>1, <3>2 DEF Allowed, OpenReports, Protocol!Verdicts
  <2>4. CASE c = "alrm" /\ pc["main"] = "loop"
    <3>1. reports # <<>> /\ OpenReports /\ authed
      BY <1>5, <2>4, <1>says, <1>mode DEF EndSession, Fatal, LoopSays, LoginDone
    <3> QED
      BY <2>1, <3>1 DEF Allowed, Protocol!Verdicts
  <2> QED
    BY <1>5, <2>2, <2>3, <2>4, <1>more DEF EndSession, Fatal, HandlerWaits, Waits
<1>6. CASE ShellExec
  BY <1>6, <1>more DEF ShellExec, Disturbed
<1>7. CASE UNCHANGED reports
  BY <1>7 DEF Allowed
<1>8. CASE LoginStep
  BY <1>1, <1>7, <1>8 DEF LoginStep, ClientConnects, KeyExchange, LoginString, ProxyConnected,
                          ProxyFails, Authenticated, NotAuthenticated, AuthFailed,
                          TargetConnectFails, TargetSkipped, NoTargetLeft, TargetRefused,
                          ShellDenied, LoggedIn, Starts, Register, FirstReport, EnterLoop
<1>9. CASE LoopStep
  BY <1>6, <1>7, <1>9 DEF LoopStep, CallbackCloses, PeerLost, ClosedSeen, TargetDisconnects,
                          InspectionFails, SignalSeen, SocketError, OtherLoopEnds,
                          ShellRefused, ShellExec, ShellStart, InSession
<1>10. CASE EndStep
  BY <1>2, <1>5, <1>7, <1>10 DEF EndStep, Finish, Disconnect, LastLog, FailHook, Ended, Die
<1>11. CASE SignalStep
  BY <1>3, <1>4, <1>7, <1>11 DEF SignalStep, HandlerStep, TimerExpired, Rearm, Fails,
                                 SignalArrives, AlarmArrives, AlarmLocksUp
<1>12. CASE ReportStep
  BY <1>7, <1>12 DEF ReportStep, PrepareReport
<1> QED
  BY <1>8, <1>9, <1>10, <1>11, <1>12, StepCases

\* A prefix is not touched by a further report.
LEMMA PrefixStays ==
  ASSUME NEW r \in Seq(SessionStates), NEW s \in SessionStates, NEW n \in Nat, n <= Len(r)
  PROVE  SubSeq(Append(r, s), 1, n) = SubSeq(r, 1, n)
OBVIOUS

\* The prefix of full length is the sequence itself.
LEMMA WholePrefix ==
  ASSUME NEW r \in Seq(SessionStates)
  PROVE  SubSeq(r, 1, Len(r)) = r
OBVIOUS

\* Every step maps to a step of ReportProtocol or to a stutter.
LEMMA RefinementStep == Inv /\ [ReportsNext]_<<vars, cut>> => [Protocol!Next]_Told
<1> SUFFICES ASSUME Inv, [ReportsNext]_<<vars, cut>> PROVE [Protocol!Next]_Told
  OBVIOUS
<1>types. reports \in Seq(SessionStates) /\ CutWithin /\ Len(reports) \in Nat
  BY TypeParts DEF Inv, Typed, Parts, Outputs, ProtocolInv
<1>grow. ReportsGrow
  BY StepReports DEF Inv, ReportsNext, vars
<1>1. CASE cut # -1
  <2>1. cut \in Nat /\ cut <= Len(reports) /\ cut' = cut
    BY <1>1, <1>types DEF CutWithin, ReportsNext
  <2>2. SubSeq(reports', 1, cut) = SubSeq(reports, 1, cut)
    BY <2>1, <1>types, <1>grow, PrefixStays DEF ReportsGrow
  <2>3. Told' = Told
    BY <1>1, <2>1, <2>2 DEF Told
  <2> QED
    BY <2>3
<1>2. CASE cut = -1 /\ cut' # -1
  <2>1. cut' = Len(reports)
    BY <1>2 DEF ReportsNext
  <2>2. SubSeq(reports', 1, Len(reports)) = reports
    BY <1>types, <1>grow, PrefixStays, WholePrefix DEF ReportsGrow
  <2>3. Told' = Told
    BY <1>2, <2>1, <2>2 DEF Told
  <2> QED
    BY <2>3
<1>3. CASE cut = -1 /\ cut' = -1
  <2>1. Told = reports /\ Told' = reports'
    BY <1>3 DEF Told
  <2>2. CASE ReportsNext
    <3>1. ~Disturbed /\ Next
      BY <1>3, <2>2, <1>types DEF ReportsNext
    <3>2. Allowed
      BY <1>3, <3>1, AllowedStep
    <3> QED
      BY <2>1, <3>2 DEF Allowed, OpenReports, Protocol!Next, Protocol!Announce,
                        Protocol!Update, Protocol!Decide, Protocol!Repeat, Protocol!Open,
                        Protocol!Verdicts
  <2>3. CASE UNCHANGED <<vars, cut>>
    BY <2>1, <2>3 DEF vars
  <2> QED
    BY <2>2, <2>3
<1> QED
  BY <1>1, <1>2, <1>3

\* The reports of a session implement ReportProtocol until the first
\* disturbance, for every mode, number of targets, and place and number of the
\* alarms (susshi_report_client_send_report() and all its callers).
THEOREM Refinement == ReportsSpec => ReportsFollowProtocol
<1>1. ReportsInit => Protocol!Init
  BY DEF ReportsInit, Init, Protocol!Init, Told
<1> QED
  BY <1>1, InvInit, InvStep, RefinementStep, PTL DEF ReportsSpec, ReportsFollowProtocol,
       Protocol!Spec
=============================================================================
