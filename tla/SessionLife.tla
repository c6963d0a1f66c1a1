---------------------------- MODULE SessionLife ----------------------------
(***************************************************************************)
(* The life of one session process, from the accepted connection to exit:  *)
(* what it reports to Chef, which hooks it runs and how it ends            *)
(* (src/susshid/master-loop.c, session.c, session-loop.c, signal.c,        *)
(* report.c, helpers.c and the parts of the login that can end it).        *)
(*                                                                         *)
(* The process has two threads of control: the main program and the        *)
(* SIGALRM handler, which interrupts the main program anywhere and, when   *)
(* it disconnects, never returns to it.  Both run the same disconnect      *)
(* functions on the same static flags.                                     *)
(***************************************************************************)
EXTENDS Integers, Sequences, SequencesExt

CONSTANTS
  Modes,      \* the operation modes a login string may select
  MaxTargets, \* susshi_session.num_target_ips
  AlarmAt,    \* positions of the main program at which SIGALRM may arrive
  MaxAlarms   \* bound: deliveries of SIGALRM

ASSUME LifeAssumption ==
  /\ Modes \subseteq {"gateway", "bastion", "shell", "chefRemote"}
  /\ MaxTargets \in Nat
  /\ MaxAlarms \in Nat

Contexts == {"main", "alrm"}
Sides == {"client", "target", "gateway"}

\* Positions only the main program takes.
MainPcs == {"connect", "kex", "auth", "proxy", "login", "start", "register",
            "first", "enter", "loop", "last", "finished", "authFailed", "failed"}

\* Positions of susshi_disconnect_individual(), susshi_disconnect_standard(),
\* susshi_end_session() and fatal(), which both contexts can be in.
EndPcs == {"individual", "standard", "end", "lastLog", "failHook", "ended",
           "fatal", "die"}

\* Positions of the two SIGALRM handlers.
AlarmPcs == {"idle", "timedOut", "timer", "periodic", "rearm", "stuck"}

VARIABLES
  pc,          \* position of each context
  exited,      \* the process has ended
  mode,        \* susshi_session.operation_mode, "unset" before the login string
  proxied,     \* susshi_session.use_target_proxy
  proxyError,  \* susshi_session.target_proxy_error
  authed,      \* susshi_session.client_authenticated
  tried,       \* number of target_ips marked as used
  started,     \* target_phase >= PHASE_SESSION_STARTED
  closed,      \* the sides whose *_closed flag is set
  busy,        \* the disconnect functions whose "disconnecting" flag is set
  alarm,       \* the running timer and its handler
  alarms,      \* number of SIGALRMs delivered
  sig,         \* susshi_session.received_signal is set
  shellChild,  \* cdata.child_pid of the shell loop is set
  reportState, \* susshi_session.report_state
  prepared,    \* the report each context is writing, "none" outside
  reports,     \* session states sent to the report daemon
  hooks        \* hooks run, in order

vars == <<pc, exited, mode, proxied, proxyError, authed, tried, started, closed,
          busy, alarm, alarms, sig, shellChild, reportState, prepared,
          reports, hooks>>

\* What the login sets, the session loop sets, signals set, and what is sent.
loginVars == <<mode, proxied, proxyError, authed, tried>>
sessionVars == <<started, closed, busy, shellChild>>
signalVars == <<alarm, alarms, sig>>
reportVars == <<reportState, prepared, reports>>
outputVars == <<reportVars, hooks>>

SessionStates == {"new", "active", "finished", "failed", "denied"}
ReportKinds == {"none", "first", "periodic", "last", "failed", "fatal"}
Hooks == {"clientConnect", "start", "authFailed", "targetConnectFailed",
          "targetAuthFailed", "finished", "failed"}

TypeOK ==
  /\ pc \in [Contexts -> MainPcs \cup EndPcs \cup AlarmPcs]
  /\ pc["main"] \in MainPcs \cup EndPcs
  /\ pc["alrm"] \in AlarmPcs \cup EndPcs
  /\ exited \in BOOLEAN
  /\ mode \in Modes \cup {"unset"}
  /\ proxied \in BOOLEAN
  /\ proxyError \in {"none", "resolve", "other"}
  /\ authed \in BOOLEAN
  /\ tried \in 0..MaxTargets
  /\ started \in BOOLEAN
  /\ closed \subseteq Sides
  /\ busy \subseteq {"individual", "standard"}
  /\ alarm \in {"off", "timeout", "timer"}
  /\ alarms \in 0..MaxAlarms
  /\ sig \in BOOLEAN
  /\ shellChild \in BOOLEAN
  /\ reportState \in ReportKinds
  /\ prepared \in [Contexts -> ReportKinds]
  /\ reports \in Seq(SessionStates)
  /\ hooks \in Seq(Hooks)

-----------------------------------------------------------------------------
(***************************************************************************)
(* Control.                                                                *)
(***************************************************************************)

\* The handler runs to its end before the main program continues.
Running(c) ==
  /\ ~exited
  /\ c = IF pc["alrm"] = "idle" THEN "main" ELSE "alrm"

At(c, p) == Running(c) /\ pc[c] = p

Main(p) == At("main", p)

Goto(c, p) == pc' = [pc EXCEPT ![c] = p]

\* exit() and _exit() end the process, whatever the other context was doing.
Exit == exited' = TRUE /\ UNCHANGED pc

(***************************************************************************)
(* susshi_report_client_send_report().                                     *)
(***************************************************************************)
StateOf(kind) ==
  CASE kind = "first" -> "new"
    [] kind = "periodic" -> "active"
    [] kind = "last" -> "finished"
    [] OTHER -> IF authed \/ proxyError # "none" THEN "failed" ELSE "denied"

\* A failed session is not reported when the proxy could not resolve the target.
Suppressed(kind) == kind \in {"failed", "fatal"} /\ proxyError = "resolve"

\* Mutant of Duplicate: a second last report is not noticed.
DuplicateUnnoticed(kind) == FALSE

\* "Prevent duplicate LAST report messages"
Duplicate(kind) == kind = "last" /\ reportState = "last"

\* The report that is sent at the position of c.
Reporting(c, kind) ==
  \/ pc[c] \in {"first", "periodic", "last", "fatal"} /\ kind = pc[c]
  \/ pc[c] = "timedOut" /\ kind = "failed"
  \/ pc[c] = "end" /\ closed = {} /\ kind = "failed"
  \/ pc[c] = "end" /\ closed # {} /\ started /\ kind = "last"

\* The function notes the state of the report and begins to write it, which
\* takes until mq_send(): SIGALRM may interrupt the main program in between.
PrepareReport(c, kind) ==
  /\ Running(c) /\ Reporting(c, kind)
  /\ prepared[c] = "none" /\ ~Duplicate(kind)
  /\ reportState' = kind
  /\ prepared' = [prepared EXCEPT ![c] = kind]
  /\ UNCHANGED <<pc, exited, loginVars, sessionVars, signalVars, reports, hooks>>

\* The rest of the function: mq_send(), or the early return of a duplicate.
SendReport(c, kind) ==
  /\ UNCHANGED reportState
  /\ \/ /\ prepared[c] = kind
        /\ prepared' = [prepared EXCEPT ![c] = "none"]
        /\ reports' = IF Suppressed(kind) THEN reports
                      ELSE Append(reports, StateOf(kind))
     \/ /\ prepared[c] = "none" /\ Duplicate(kind)
        /\ UNCHANGED <<prepared, reports>>

\* susshi_hooks_run(): no session hook runs in chef-remote sessions.
RunHook(h) == hooks' = IF mode = "chefRemote" THEN hooks ELSE Append(hooks, h)

-----------------------------------------------------------------------------
Init ==
  /\ pc = [c \in Contexts |-> IF c = "main" THEN "connect" ELSE "idle"]
  /\ exited = FALSE
  /\ mode = "unset" /\ proxied = FALSE /\ proxyError = "none"
  /\ authed = FALSE /\ tried = 0 /\ started = FALSE
  /\ closed = {} /\ busy = {}
  /\ alarm = "off" /\ alarms = 0 /\ sig = FALSE
  /\ shellChild = FALSE
  /\ reportState = "none" /\ prepared = [c \in Contexts |-> "none"]
  /\ reports = <<>> /\ hooks = <<>>

(***************************************************************************)
(* susshi_master_new_client(): connection, key exchange, authentication.   *)
(***************************************************************************)
ClientConnects ==
  /\ Main("connect")
  /\ RunHook("clientConnect")
  /\ Goto("main", "kex")
  /\ UNCHANGED <<exited, loginVars, sessionVars, signalVars, reportVars>>

\* A client that does not complete the key exchange is dropped without a word.
KeyExchange ==
  /\ Main("kex")
  /\ \/ Goto("main", "auth") /\ UNCHANGED exited
     \/ Exit
  /\ UNCHANGED <<loginVars, sessionVars, signalVars, outputVars>>

\* The alarm of susshi_session_timeout_alarm_handler().
susshi_session_set_timeout_alarm == alarm' = "timeout"
susshi_session_cancel_timeout_alarm == alarm' = "off"

\* store_splitted_loginstring_into_session() accepts the login string.
LoginString(m, p) ==
  /\ Main("auth") /\ mode = "unset"
  /\ p => m \in {"gateway", "bastion"}
  /\ mode' = m /\ proxied' = p
  /\ IF p THEN susshi_session_set_timeout_alarm /\ Goto("main", "proxy")
          ELSE UNCHANGED <<alarm, pc>>
  /\ UNCHANGED <<exited, proxyError, authed, tried, sessionVars, alarms, sig,
                 outputVars>>

\* Both phases of the proxy connection and the session context succeeded: the
\* timeout alarm is cancelled.
ProxyConnected ==
  /\ Main("proxy")
  /\ susshi_session_cancel_timeout_alarm
  /\ Goto("main", "auth")
  /\ UNCHANGED <<exited, loginVars, sessionVars, alarms, sig, outputVars>>

\* The proxy cannot be used, or Chef gives no session context.  The timeout
\* alarm keeps running.
ProxyFails(e) ==
  /\ Main("proxy")
  /\ proxyError' = e
  /\ Goto("main", "standard")
  /\ UNCHANGED <<exited, mode, proxied, authed, tried, sessionVars, signalVars,
                 outputVars>>

\* One more request of the client decides: it is authenticated, it is
\* disconnected (illegal login string, too many failures, OpenID Connect took
\* too long ...), or susshi_client_auth_dispatch() returns false because the
\* client is gone or the login grace time is over.
Authenticated ==
  /\ Main("auth") /\ mode # "unset"
  /\ authed' = TRUE
  /\ Goto("main", "login")
  /\ UNCHANGED <<exited, mode, proxied, proxyError, tried, sessionVars,
                 signalVars, outputVars>>

NotAuthenticated ==
  /\ Main("auth")
  /\ \E p \in {"standard", "individual", "authFailed"} : Goto("main", p)
  /\ UNCHANGED <<exited, loginVars, sessionVars, signalVars, outputVars>>

AuthFailed ==
  /\ Main("authFailed")
  /\ RunHook("authFailed")
  /\ Goto("main", "failed")
  /\ UNCHANGED <<exited, loginVars, sessionVars, signalVars, reportVars>>

-----------------------------------------------------------------------------
(***************************************************************************)
(* susshi_target_login() and the branches on the operation mode.           *)
(***************************************************************************)

ToTarget == mode \in {"gateway", "bastion"}

\* ssh_connect() failed.  With a proxy there is no second chance; otherwise
\* the next address is tried, as long as there is one.
TargetConnectFails ==
  /\ Main("login") /\ ToTarget
  /\ proxied \/ tried < MaxTargets
  /\ RunHook("targetConnectFailed")
  /\ IF proxied THEN Goto("main", "standard") /\ UNCHANGED tried
                ELSE tried' = tried + 1 /\ UNCHANGED pc
  /\ UNCHANGED <<exited, mode, proxied, proxyError, authed, sessionVars,
                 signalVars, reportVars>>

\* The address is not part of Chef's answer.
TargetSkipped ==
  /\ Main("login") /\ ToTarget /\ ~proxied
  /\ tried < MaxTargets
  /\ tried' = tried + 1
  /\ UNCHANGED <<pc, exited, mode, proxied, proxyError, authed, sessionVars,
                 signalVars, outputVars>>

NoTargetLeft ==
  /\ Main("login") /\ ToTarget /\ ~proxied
  /\ tried = MaxTargets
  /\ Goto("main", "standard")
  /\ UNCHANGED <<exited, loginVars, sessionVars, signalVars, outputVars>>

\* The target is connected, but its host key or our login is not accepted.
TargetRefused ==
  /\ Main("login") /\ ToTarget
  /\ proxied \/ tried < MaxTargets
  /\ \/ RunHook("targetAuthFailed")
     \/ UNCHANGED hooks
  /\ \E p \in {"standard", "individual"} : Goto("main", p)
  /\ UNCHANGED <<exited, loginVars, sessionVars, signalVars, reportVars>>

ShellDenied ==
  /\ Main("login") /\ mode = "shell"
  /\ Goto("main", "standard")
  /\ UNCHANGED <<exited, loginVars, sessionVars, signalVars, outputVars>>

\* The login is complete.  Chef-remote sessions neither report nor run hooks.
LoggedIn ==
  /\ Main("login")
  /\ ToTarget => proxied \/ tried < MaxTargets
  /\ Goto("main", IF mode = "chefRemote" THEN "loop" ELSE "start")
  /\ UNCHANGED <<exited, loginVars, sessionVars, signalVars, outputVars>>

Starts ==
  /\ Main("start")
  /\ RunHook("start")
  /\ Goto("main", IF mode = "shell" THEN "first" ELSE "register")
  /\ UNCHANGED <<exited, loginVars, sessionVars, signalVars, reportVars>>

\* susshi_timer_alarms_register(); after a login that lasted too long,
\* setitimer() may leave the timer stopped (see SessionTimers).
Register ==
  /\ Main("register")
  /\ alarm' \in {"timer", "off"}
  /\ Goto("main", "first")
  /\ UNCHANGED <<exited, loginVars, sessionVars, alarms, sig, outputVars>>

FirstReport ==
  /\ Main("first")
  /\ SendReport("main", "first")
  /\ Goto("main", IF mode = "shell" THEN "loop" ELSE "enter")
  /\ UNCHANGED <<exited, loginVars, sessionVars, signalVars, hooks>>

\* susshi_session_loop() up to its loop.
EnterLoop ==
  /\ Main("enter")
  /\ started' = TRUE
  /\ Goto("main", "loop")
  /\ UNCHANGED <<exited, loginVars, closed, busy, shellChild, signalVars,
                 outputVars>>

-----------------------------------------------------------------------------
(***************************************************************************)
(* The session loop, the shell loop and the remote command loop.           *)
(***************************************************************************)

InSession == Main("loop") /\ ToTarget

\* A packet callback sets a closed flag: the client disconnects, or a packet
\* cannot be passed on to the other side.
CallbackCloses(s) ==
  /\ InSession /\ s \notin closed
  /\ closed' = closed \cup {s}
  /\ UNCHANGED <<pc, exited, loginVars, started, busy, shellChild, signalVars,
                 outputVars>>

\* After the poll, a signal counts more than a closed flag.
ClosedSeen ==
  /\ InSession /\ closed # {} /\ ~sig
  /\ Goto("main", "end")
  /\ UNCHANGED <<exited, loginVars, sessionVars, signalVars, outputVars>>

\* The connection is lost.  When the poll itself fails, the signal is not tested.
PeerLost(s) ==
  /\ InSession
  /\ closed' = closed \cup {s}
  /\ Goto("main", "end")
  /\ UNCHANGED <<exited, loginVars, started, busy, shellChild, signalVars,
                 outputVars>>

\* SSH2_MSG_DISCONNECT of the target disconnects the client from the callback.
TargetDisconnects ==
  /\ InSession
  /\ closed' = closed \cup {"target"}
  /\ Goto("main", "individual")
  /\ UNCHANGED <<exited, loginVars, started, busy, shellChild, signalVars,
                 outputVars>>

\* A channel cannot be inspected: disconnect without any closed flag.
InspectionFails ==
  /\ InSession
  /\ Goto("main", "standard")
  /\ UNCHANGED <<exited, loginVars, sessionVars, signalVars, outputVars>>

\* The loop sees the signal at the latest when its poll times out.
SignalSeen ==
  /\ InSession /\ sig
  /\ closed' = closed \cup {"gateway"}
  /\ Goto("main", "individual")
  /\ UNCHANGED <<exited, loginVars, started, busy, shellChild, signalVars,
                 outputVars>>

\* The poll fails while both sockets are connected.
SocketError ==
  /\ InSession
  /\ closed' = closed \cup {"gateway"}
  /\ Goto("main", "individual")
  /\ UNCHANGED <<exited, loginVars, started, busy, shellChild, signalVars,
                 outputVars>>

\* The shell and the remote command loop end when the client is done.
OtherLoopEnds ==
  /\ Main("loop") /\ ~ToTarget
  /\ Goto("main", IF mode = "shell" THEN "last" ELSE "finished")
  /\ UNCHANGED <<exited, loginVars, sessionVars, signalVars, outputVars>>

\* A shell without pty, or a command with one, is refused by the process itself.
ShellRefused ==
  /\ Main("loop") /\ mode = "shell" /\ ~shellChild
  /\ \E p \in {"standard", "individual"} : Goto("main", p)
  /\ UNCHANGED <<exited, loginVars, sessionVars, signalVars, outputVars>>

\* A command without pty is refused by the forked child, which runs
\* susshi_disconnect_standard() on its copy of the session and reports for it.
\* The shell's own process stays in its loop.
ShellExec ==
  /\ Main("loop") /\ mode = "shell" /\ ~shellChild
  /\ shellChild' = TRUE
  /\ reports' = Append(reports, StateOf("failed"))
  /\ RunHook("failed")
  /\ UNCHANGED <<pc, exited, loginVars, started, closed, busy, signalVars,
                 reportState, prepared>>

ShellStart ==
  /\ Main("loop") /\ mode = "shell" /\ ~shellChild
  /\ shellChild' = TRUE
  /\ UNCHANGED <<pc, exited, loginVars, started, closed, busy, signalVars,
                 outputVars>>

LastReport ==
  /\ Main("last")
  /\ SendReport("main", "last")
  /\ Goto("main", "finished")
  /\ UNCHANGED <<exited, loginVars, sessionVars, signalVars, hooks>>

\* The end of susshi_master_new_client(), and exit().
Finish ==
  /\ Main("finished") \/ Main("failed")
  /\ RunHook(pc["main"])
  /\ Exit
  /\ UNCHANGED <<loginVars, sessionVars, signalVars, reportVars>>

-----------------------------------------------------------------------------
(***************************************************************************)
(* susshi_disconnect_individual(), susshi_disconnect_standard(),           *)
(* susshi_end_session() and fatal(), in either context.                    *)
(***************************************************************************)

\* Mutant of Disconnect: no guard against recursive invocations.
DisconnectUnguarded(c, f) ==
  /\ At(c, f)
  /\ busy' = busy \cup {f}
  /\ Goto(c, "end")
  /\ UNCHANGED <<exited, loginVars, started, closed, shellChild, signalVars,
                 outputVars>>

\* Each function has its own flag, and a second call of it is fatal.
Disconnect(c, f) ==
  /\ At(c, f)
  /\ busy' = busy \cup {f}
  /\ Goto(c, IF f \in busy THEN "fatal" ELSE "end")
  /\ UNCHANGED <<exited, loginVars, started, closed, shellChild, signalVars,
                 outputVars>>

\* Mutant of EndSession: a session that was not closed is not reported.
EndSessionUnreported(c) ==
  /\ At(c, "end")
  /\ Goto(c, IF closed = {} THEN "failHook" ELSE IF started THEN "lastLog" ELSE "ended")
  /\ IF closed # {} /\ started THEN SendReport(c, "last")
     ELSE UNCHANGED reportVars
  /\ UNCHANGED <<exited, loginVars, sessionVars, signalVars, hooks>>

\* A session with a closed flag is reported if its loop was entered; one
\* without has failed.
EndSession(c) ==
  /\ At(c, "end")
  /\ \/ /\ closed = {}
        /\ SendReport(c, "failed")
        /\ Goto(c, "failHook")
     \/ /\ closed # {} /\ started
        /\ SendReport(c, "last")
        /\ Goto(c, "lastLog")
     \/ /\ closed # {} /\ ~started /\ prepared[c] = "none"
        /\ Goto(c, "ended")
        /\ UNCHANGED reportVars
  /\ UNCHANGED <<exited, loginVars, sessionVars, signalVars, hooks>>

\* susshi_report_last_log() and the closing session log lines.
LastLog(c) ==
  /\ At(c, "lastLog")
  /\ Goto(c, "ended")
  /\ UNCHANGED <<exited, loginVars, sessionVars, signalVars, outputVars>>

FailHook(c) ==
  /\ At(c, "failHook")
  /\ RunHook("failed")
  /\ Goto(c, "ended")
  /\ UNCHANGED <<exited, loginVars, sessionVars, signalVars, reportVars>>

\* Mutant of Ended: the disconnect functions return to their caller.
EndedReturns(c) ==
  /\ At(c, "ended")
  /\ Goto(c, IF c = "main" THEN "last" ELSE "rearm")
  /\ UNCHANGED <<exited, loginVars, sessionVars, signalVars, outputVars>>

\* Return from susshi_end_session(): the session loop returns to
\* susshi_master_new_client(), the disconnect functions exit.
Ended(c) ==
  /\ At(c, "ended")
  /\ IF busy = {} THEN Goto(c, "last") /\ UNCHANGED exited ELSE Exit
  /\ UNCHANGED <<loginVars, sessionVars, signalVars, outputVars>>

\* A failing library or system call, anywhere outside the ending itself.
Fails(c) ==
  /\ Running(c)
  /\ pc[c] \in {"auth", "proxy", "login", "register", "loop", "rearm"}
  /\ Goto(c, "fatal")
  /\ UNCHANGED <<exited, loginVars, sessionVars, signalVars, outputVars>>

Fatal(c) ==
  /\ At(c, "fatal")
  /\ SendReport(c, "fatal")
  /\ Goto(c, "die")
  /\ UNCHANGED <<exited, loginVars, sessionVars, signalVars, hooks>>

Die(c) ==
  /\ At(c, "die")
  /\ Exit
  /\ UNCHANGED <<loginVars, sessionVars, signalVars, outputVars>>

-----------------------------------------------------------------------------
(***************************************************************************)
(* Signals.                                                                *)
(***************************************************************************)

\* SIGTERM, SIGQUIT or SIGINT sets a flag, from the first moment on: until the
\* session loop registers its own handler, the master's is inherited.
SignalArrives ==
  /\ ~exited /\ ~sig
  /\ sig' = TRUE
  /\ UNCHANGED <<pc, exited, loginVars, sessionVars, alarm, alarms, outputVars>>

\* SIGALRM: the timer is not periodic, and the signal is blocked while its
\* handler runs.
AlarmArrives ==
  /\ Running("main")
  /\ alarm # "off" /\ pc["main"] \in AlarmAt
  /\ alarms < MaxAlarms
  /\ alarms' = alarms + 1
  /\ alarm' = "off"
  /\ Goto("alrm", IF alarm = "timeout" THEN "timedOut" ELSE "timer")
  /\ UNCHANGED <<exited, loginVars, sessionVars, sig, outputVars>>

\* The handler logs and allocates memory like the main program.  If it interrupts
\* a call of the main program that holds a lock of the C library (syslog() in
\* log_system(), malloc()), it waits for that lock forever.
AlarmLocksUp ==
  /\ Running("main")
  /\ alarm # "off" /\ pc["main"] \in AlarmAt
  /\ alarms < MaxAlarms
  /\ alarms' = alarms + 1
  /\ alarm' = "off"
  /\ Goto("alrm", "stuck")
  /\ UNCHANGED <<exited, loginVars, sessionVars, sig, outputVars>>

\* susshi_session_timeout_alarm_handler()
TimedOut ==
  /\ At("alrm", "timedOut")
  /\ SendReport("alrm", "failed")
  /\ Goto("alrm", "standard")
  /\ UNCHANGED <<exited, loginVars, sessionVars, signalVars, hooks>>

\* susshi_timer_alarm_handler(): either a maximum is reached, or the flag is
\* already set, or the session goes on.
TimerExpired ==
  /\ At("alrm", "timer")
  /\ closed' \in {closed, closed \cup {"gateway"}}
  /\ Goto("alrm", IF "gateway" \in closed' THEN "individual" ELSE "periodic")
  /\ UNCHANGED <<exited, loginVars, started, busy, shellChild, signalVars,
                 outputVars>>

PeriodicReport ==
  /\ At("alrm", "periodic")
  /\ SendReport("alrm", "periodic")
  /\ Goto("alrm", "rearm")
  /\ UNCHANGED <<exited, loginVars, sessionVars, signalVars, hooks>>

Rearm ==
  /\ At("alrm", "rearm")
  /\ alarm' = "timer"
  /\ Goto("alrm", "idle")
  /\ UNCHANGED <<exited, loginVars, sessionVars, alarms, sig, outputVars>>

-----------------------------------------------------------------------------
LoginStep ==
  \/ ClientConnects \/ KeyExchange
  \/ \E m \in Modes, p \in BOOLEAN : LoginString(m, p)
  \/ ProxyConnected
  \/ \E e \in {"none", "resolve", "other"} : ProxyFails(e)
  \/ Authenticated \/ NotAuthenticated \/ AuthFailed
  \/ TargetConnectFails \/ TargetSkipped \/ NoTargetLeft \/ TargetRefused
  \/ ShellDenied \/ LoggedIn \/ Starts \/ Register \/ FirstReport \/ EnterLoop

LoopStep ==
  \/ \E s \in {"client", "target"} : CallbackCloses(s) \/ PeerLost(s)
  \/ ClosedSeen \/ TargetDisconnects \/ InspectionFails \/ SignalSeen \/ SocketError
  \/ OtherLoopEnds \/ ShellRefused \/ ShellExec \/ ShellStart

\* Everything from the decision to end the session on.
EndStep ==
  \/ LastReport \/ Finish
  \/ \E c \in Contexts :
       \/ \E f \in {"individual", "standard"} : Disconnect(c, f)
       \/ EndSession(c) \/ LastLog(c) \/ FailHook(c) \/ Ended(c)
       \/ Fatal(c) \/ Die(c)

ReportStep == \E c \in Contexts, kind \in ReportKinds : PrepareReport(c, kind)

HandlerStep == TimedOut \/ TimerExpired \/ PeriodicReport \/ Rearm

Next ==
  \/ LoginStep \/ LoopStep \/ EndStep \/ ReportStep \/ HandlerStep
  \/ \E c \in Contexts : Fails(c)
  \/ SignalArrives \/ AlarmArrives \/ AlarmLocksUp

Spec == Init /\ [][Next]_vars

\* The process is scheduled; its loop polls with a timeout of five seconds.
Fairness ==
  /\ WF_vars(EndStep) /\ WF_vars(ReportStep) /\ WF_vars(HandlerStep)
  /\ WF_vars(SignalSeen)

FairSpec == Spec /\ Fairness

-----------------------------------------------------------------------------
(***************************************************************************)
(* Properties.                                                             *)
(***************************************************************************)

\* A session that entered its loop is always reported as ended: whatever ends
\* it, a peer, a signal, the timer, a failed inspection, or the handler while
\* the main program is already ending it, Chef learns that it is over before
\* the process exits.  One case is excepted: the handler ends the process while
\* the main program is writing its last report, which the handler takes for
\* sent (the early return in susshi_report_client_send_report()).
StartedSessionReported ==
  exited /\ started =>
    \/ \E i \in 1..Len(reports) : reports[i] \in {"finished", "failed"}
    \/ prepared["main"] = "last"

\* The verdict hooks exclude each other: susshi_end_session() and the end of
\* susshi_master_new_client() run at most one of session-finished and
\* session-failed between them, even when the handler ends the session while
\* the main program does.  In shell sessions the forked child may run its own.
OneVerdictHook ==
  mode # "shell" =>
    \A i, j \in 1..Len(hooks) :
      hooks[i] \in {"finished", "failed"} /\ hooks[j] \in {"finished", "failed"} => i = j

\* Once a disconnect function was entered the process ends, even if the other
\* context interrupts it, unless the handler interrupted a call that holds a
\* lock which the handler then waits for.
DisconnectEnds == busy # {} ~> exited \/ pc["alrm"] = "stuck"

============================================================================
