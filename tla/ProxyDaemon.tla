------------------------------ MODULE ProxyDaemon ------------------------------
(***************************************************************************)
(* susshi-proxyd: the master process that listens for gateways             *)
(* (master-loop.c, main.c, signal.c), the monitor daemon (monitor-daemon.c)*)
(* and the bastion sshd (shared/bastion-sshd.c) it starts, and the session *)
(* processes it forks, one after the other, each a ProxySession.  A        *)
(* session process has a copy of the master's state and of its signal      *)
(* handlers.                                                               *)
(***************************************************************************)
EXTENDS ProxySession

CONSTANT MaxSessions   \* gateways that connect

ASSUME DaemonAssumption == MaxSessions \in Nat

VARIABLES
  master,      \* where it is: "start", "config", "monitor", "bastion", "listen",
               \* "register", "slots", "test" (of the restart flag), "poll", "down"
  end,         \* how it ended
  restart,     \* received_signal_for_restart
  permanent,   \* were the privileges dropped for good?
  monitor_pid, \* does the master know a monitor daemon?
  served       \* sessions so far

daemon == <<master, end, restart, permanent, monitor_pid, served>>
vars == <<session, helpers, root, daemon>>

--------------------------------------------------------------------------------
(***************************************************************************)
(* The helpers.                                                            *)
(***************************************************************************)

\* Signals do what the master's handlers do from their registration on, during
\* the start for a restart too; before, they end the process.
HandlersSet ==
  master \in {"slots", "test", "poll"} \/ (permanent /\ master \in {"start", "config"})

\* The privileges of the master.
Privileged == ~root \/ ~permanent

\* kill() of the monitor daemon fails: it still is root's.
Denied == monitor_pid /\ monitor = "boot" /\ ~Privileged

\* The master cleans up and ends.
Down(reason) ==
  /\ master' = "down" /\ end' = IF Denied THEN "denied" ELSE reason
  /\ proxy_cleanup(monitor_pid, Privileged)

\* proxy_monitor_daemon_loop(): the daemon gets ready, or fails to get its port,
\* which the master does not learn.  The flag is tested, then pause() waits for
\* a signal, whether or not the flag was set in between.
MonitorLoop ==
  /\ \/ monitor = "boot" /\ monitor' \in {"test", "none"}
     \/ monitor = "test" /\ monitor' = IF term THEN "down" ELSE "checked"
     \/ monitor = "checked" /\ monitor' = "paused"
  /\ UNCHANGED <<session, bastion, term, root, daemon>>

--------------------------------------------------------------------------------
(***************************************************************************)
(* The master.                                                             *)
(***************************************************************************)

\* init_proxy_session(): all that is known of the last round is cleared.
InitSession ==
  /\ master = "start" /\ master' = "config"
  /\ restart' = FALSE /\ monitor_pid' = FALSE
  /\ UNCHANGED <<helpers, end, permanent>>

restore_privileges == ~permanent

\* The arguments and the configuration are read, any of which may be fatal, and
\* the privileges restored, which is fatal once they were dropped for good.
Configure ==
  /\ master = "config"
  /\ \/ restore_privileges /\ master' = "monitor" /\ UNCHANGED <<end, helpers>>
     \/ ~restore_privileges /\ Down("privileges")
     \/ Down("start")
  /\ UNCHANGED <<restart, permanent, monitor_pid>>

proxy_fork_monitor_daemon ==
  /\ master = "monitor"
  /\ \/ /\ monitor_pid' = TRUE /\ monitor' = "boot" /\ master' = "bastion"
        /\ UNCHANGED <<end, bastion, term>>
     \/ Down("start") /\ UNCHANGED monitor_pid
  /\ UNCHANGED <<restart, permanent>>

\* run_bastion_sshd(): the old PID file was removed, so that there is no daemon
\* to be found and one is started.
run_bastion_sshd ==
  /\ master = "bastion" /\ master' = "listen"
  /\ bastion' \in {"none", "up"}
  /\ UNCHANGED <<end, monitor, term, restart, permanent, monitor_pid>>

\* The head of proxy_master_loop(): the sockets are opened and the privileges
\* dropped for good, the handlers registered, the embryonic slots set up.
drop_privileges == permanent' = TRUE

Listen ==
  /\ master = "listen"
  /\ \/ drop_privileges /\ master' = "register" /\ UNCHANGED <<end, helpers>>
     \/ Down("start") /\ UNCHANGED permanent
  /\ UNCHANGED <<restart, monitor_pid>>

Register ==
  /\ master = "register" /\ master' = "slots"
  /\ UNCHANGED <<end, helpers, restart, permanent, monitor_pid>>

InitSlots ==
  /\ master = "slots"
  /\ \/ master' = "test" /\ UNCHANGED <<end, helpers>>
     \/ Down("start")
  /\ UNCHANGED <<restart, permanent, monitor_pid>>

susshi_proxyd_main ==
  /\ \/ InitSession \/ Configure \/ proxy_fork_monitor_daemon \/ run_bastion_sshd
     \/ Listen \/ Register \/ InitSlots
  /\ UNCHANGED <<session, root, served>>

\* The test of proxy_master_loop(), and the loop around it in main().
MasterTest ==
  /\ master = "test"
  /\ master' = IF restart THEN "start" ELSE "poll"
  /\ UNCHANGED <<session, helpers, root, end, restart, permanent, monitor_pid, served>>

\* A connection: from an address that is not a gateway's, without an embryonic
\* slot or when fork() fails it comes to nothing; else it is a session's.  If
\* accept() fails, so does the master.
Accept ==
  /\ master = "poll"
  /\ \/ /\ phase \in {"idle", "ended"} /\ served < MaxSessions
        /\ phase' = "forked" /\ Fresh /\ served' = served + 1 /\ master' = "test"
        /\ UNCHANGED <<helpers, end>>
     \/ master' = "test" /\ UNCHANGED <<session, helpers, end, served>>
     \/ Down("accept") /\ UNCHANGED <<session, served>>
  /\ UNCHANGED <<root, restart, permanent, monitor_pid>>

\* poll() times out, or a child has ended.
MasterWoken ==
  /\ master = "poll" /\ master' = "test"
  /\ UNCHANGED <<session, helpers, root, end, restart, permanent, monitor_pid, served>>

\* A signal without a handler ends the master, with nothing cleaned up.
Killed == master' = "down" /\ end' = "default" /\ UNCHANGED <<helpers, restart>>

\* SIGHUP interrupts poll(), unless it comes just before.
Sighup ==
  /\ master # "down" /\ ~restart
  /\ IF HandlersSet
     THEN /\ restart' = TRUE /\ UNCHANGED <<helpers, end>>
          /\ \/ master' = master
             \/ master = "poll" /\ master' = "test"
     ELSE Killed
  /\ UNCHANGED <<session, root, permanent, monitor_pid, served>>

\* SIGTERM, SIGQUIT and SIGINT.
Sigterm ==
  /\ master # "down"
  /\ IF HandlersSet THEN Down("signal") /\ UNCHANGED restart ELSE Killed
  /\ UNCHANGED <<session, root, permanent, monitor_pid, served>>

--------------------------------------------------------------------------------
Init ==
  /\ phase = "idle" /\ how = "none" /\ login = [stored |-> FALSE, mode |-> "unset"]
  /\ ips = <<>> /\ used = {} /\ wire = <<>> /\ late = FALSE
  /\ relay = NoRelay /\ bastion = "none" /\ root \in BOOLEAN
  /\ master = "start" /\ end = "none" /\ restart = FALSE /\ permanent = FALSE
  /\ monitor_pid = FALSE /\ monitor = "none" /\ term = FALSE /\ served = 0

Next ==
  \/ SessionStep /\ UNCHANGED daemon
  \/ susshi_proxyd_main \/ MasterTest \/ Accept \/ MasterWoken
  \/ Sighup \/ Sigterm \/ MonitorLoop

\* What runs goes on, system calls return, and time passes: a message of the
\* gateway is not waited for longer than the grace time, and an idle connection
\* times out.  No signal and no connection has to come.
Fairness ==
  /\ WF_vars(susshi_proxyd_main) /\ WF_vars(MasterTest) /\ WF_vars(MonitorLoop)
  /\ WF_vars(SessionRuns /\ UNCHANGED daemon) /\ WF_vars(TenSeconds /\ UNCHANGED daemon)

Spec == Init /\ [][Next]_vars /\ Fairness

--------------------------------------------------------------------------------
(***************************************************************************)
(* Properties.                                                             *)
(***************************************************************************)

\* A session ends: one that neither logs in nor goes away is given up after the
\* grace time, one whose peers are gone or silent is closed.  Two things keep one
\* for ever (session-loop.c): data of the target held back for a gateway that
\* never sends anything, which keep the loop awake, and a peer that never again
\* reads what send() waits to give it, the sockets being blocking.
SessionEnds == phase = "forked" ~> (phase = "ended" \/ []Held \/ [](phase = "blocked"))

\* The helpers outlive the sessions: while the master listens, nobody sends
\* SIGTERM to the monitor daemon but a session process that was signalled between
\* its fork and the line that makes it forget the PID (master-loop.c:314, :328);
\* the monitor daemon ends for nothing else; and the bastion daemon of a
\* susshi-proxyd started by root is not ended.  (If it was not, the first session
\* that cleans up ends the bastion daemon for all.)
HelpersOutliveSessions ==
  [][master' \in {"test", "poll"} =>
       /\ term' => term \/ phase = "forked"
       /\ monitor' = "down" => term'
       /\ root /\ bastion' = "down" => bastion = "down"]_vars

\* A master that ends takes its monitor daemon with it: by a signal, by fatal()
\* during the start or later.  The exceptions: the signal came between the
\* daemon's test of the flag and its pause() (monitor-daemon.c:261); a signal
\* ended a master that had no handler yet, up to two seconds after it had forked
\* the daemon (main.c:314, master-loop.c:266); the start for a restart has
\* forgotten the daemon (main.c:108); or the daemon of root was not ready, and
\* could not be signalled any more.
MonitorEnds ==
  end # "none" ~> \/ monitor \in {"none", "down"}
                  \/ monitor = "paused" /\ term
                  \/ end \in {"default", "denied"}
                  \/ permanent /\ ~monitor_pid

\* SIGHUP restarts susshi-proxyd: "restore privileges to allow rebind of sockets
\* to privileged ports" (main.c).
RestartSucceeds == end # "privileges"

================================================================================
