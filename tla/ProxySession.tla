------------------------------ MODULE ProxySession -----------------------------
(***************************************************************************)
(* A session of susshi-proxyd, the process forked for one connection of a  *)
(* gateway: the gateway logs in with one of its keys (auth-gateway.c), the *)
(* target its login string names is resolved (session.c) and connected to  *)
(* (connect-target.c), and the bytes of the two connections are relayed    *)
(* until one of them ends (session-loop.c).  The gateway's requests, the   *)
(* resolver and the two peers are external.                                *)
(***************************************************************************)
EXTENDS Naturals, Sequences, FiniteSets

CONSTANTS
  MaxIps,       \* SUSSHI_MAX_TARGET_IPS
  MaxDns,       \* addresses in an answer of the resolver
  Preferred,    \* target_preferred_address_family
  MaxChunks     \* chunks of data each peer sends

ASSUME SessionAssumption ==
  /\ MaxIps \in Nat \ {0} /\ MaxDns \in Nat
  /\ Preferred \in {"inet", "inet6"}
  /\ MaxChunks \in [{"gateway", "target"} -> Nat \ {0}]

Sides == {"gateway", "target"}

VARIABLES
  phase,     \* where the process is; "idle" and "ended": there is none
  how,       \* how it ended
  login,     \* login_string stored?, operation_mode
  ips,       \* target_ips: their families
  used,      \* those already tried
  wire,      \* what the gateway was sent since its last request
  late,      \* the ten seconds for the login are over
  relay,     \* the two connections and their buffers
  bastion,   \* the bastion sshd: "none", "up" or "down"
  monitor,   \* the monitor daemon: "none", "boot", "test", "checked", "paused", "down"
  term,      \* has SIGTERM reached the monitor daemon?
  root       \* was susshi-proxyd started by root?

session == <<phase, how, login, ips, used, wire, late, relay>>
helpers == <<bastion, monitor, term>>

Families == {"inet", "inet6"}

\* Per side: the chunks it sent, how many were read, whether it closed; the
\* chunks waiting for it and the ones it got.  short: the sides that did not
\* take all that was waiting when the loop last looked.
NoRelay == [sent |-> [s \in Sides |-> 0], read |-> [s \in Sides |-> 0],
            eof |-> {}, buf |-> [s \in Sides |-> <<>>],
            got |-> [s \in Sides |-> <<>>], heard |-> FALSE,
            closed |-> {}, signal |-> FALSE, short |-> {}]

Fresh ==
  /\ how' = "none" /\ login' = [stored |-> FALSE, mode |-> "unset"]
  /\ ips' = <<>> /\ used' = {} /\ wire' = <<>>
  /\ late' = FALSE /\ relay' = NoRelay

\* kill() of the bastion daemon, whose PID is read from its PID file.  That of a
\* susshi-proxyd started by root belongs to root, as the monitor daemon does until
\* it is ready: without privileges both are out of reach.
KillBastion(privileged) ==
  bastion' = IF bastion = "up" /\ privileged THEN "down" ELSE bastion

\* SIGTERM for the monitor daemon: before it has a handler it ends; the handler
\* sets a flag, and ends a pause().
KillMonitor(privileged) ==
  CASE monitor = "boot" ->
         IF privileged THEN term' = TRUE /\ monitor' \in {"boot", "down"}
         ELSE UNCHANGED <<monitor, term>>
    [] monitor \in {"test", "checked", "paused"} ->
         /\ term' = TRUE
         /\ monitor' = IF monitor = "paused" THEN "test" ELSE monitor
    [] OTHER -> UNCHANGED <<monitor, term>>

\* proxy_cleanup() of a process that knows of a monitor daemon, or does not.
CleanupWithoutMonitor(known, privileged) ==
  KillBastion(privileged) /\ UNCHANGED <<monitor, term>>
proxy_cleanup(known, privileged) ==
  /\ KillBastion(privileged)
  /\ IF known THEN KillMonitor(privileged) ELSE UNCHANGED <<monitor, term>>

\* A session process is forked with the PID of the monitor daemon, and forgets it
\* as one of its first steps: "Prevent child from killing monitor daemon".
ChildKnowsMonitor == TRUE
ChildMonitor == phase = "forked"

\* The process ends: with proxy_cleanup() at the end of
\* proxy_master_new_client() or in fatal(), and without it by exit(1).
Cleanup(reason) == phase' = "ended" /\ how' = reason /\ proxy_cleanup(ChildMonitor, ~root)
Exit(reason) == phase' = "ended" /\ how' = reason /\ UNCHANGED helpers

--------------------------------------------------------------------------------
(***************************************************************************)
(* The gateway logs in.                                                    *)
(***************************************************************************)

\* The first steps of the new process.
ForgetMonitor ==
  /\ phase = "forked" /\ phase' = "kex"
  /\ UNCHANGED <<how, login, ips, used, wire, late, relay, helpers, root>>

\* The key exchange fails, or what connected is not a gateway.
KeyExchange ==
  /\ phase = "kex"
  /\ \/ phase' = "dispatch" /\ UNCHANGED <<how, helpers>>
     \/ Exit("kex")
  /\ UNCHANGED <<login, ips, used, wire, late, relay, root>>

\* The time is looked at before each message, not while one is waited for.
AuthWindowIgnored ==
  /\ phase = "dispatch" /\ phase' = "auth"
  /\ UNCHANGED <<how, helpers, login, ips, used, wire, late, relay, root>>

AuthWindow ==
  /\ phase = "dispatch"
  /\ IF late THEN Cleanup("late")
             ELSE phase' = "auth" /\ UNCHANGED <<how, helpers>>
  /\ UNCHANGED <<login, ips, used, wire, late, relay, root>>

TenSeconds ==
  /\ phase \in {"kex", "dispatch", "auth"} /\ ~late /\ late' = TRUE
  /\ UNCHANGED <<phase, how, login, ips, used, wire, relay, helpers, root>>

\* No message: the gateway is gone, or was silent for the grace time.
NoMessage ==
  /\ phase = "auth" /\ Cleanup("gone")
  /\ UNCHANGED <<login, ips, used, wire, late, relay, root>>

\* The addresses of a family the proxy has an interface of.
Resolved(dns) ==
  LET usable == SelectSeq(dns, LAMBDA a : a \in Families)
  IN  SubSeq(usable, 1, IF Len(usable) < MaxIps THEN Len(usable) ELSE MaxIps)

Answers == UNION {[1..n -> Families \cup {"skipped"}] : n \in 0..MaxDns}

\* store_splitted_loginstring_into_proxy_session(): done once; whatever became
\* of it, the next request finds the string stored and is told that it is fine.
Split(rc) ==
  \/ login.stored /\ rc = "OK" /\ UNCHANGED <<login, ips>>
  \/ /\ ~login.stored
     /\ \E mode \in {"proxy", "remote", "bastion"} :
          /\ login' = [stored |-> TRUE, mode |-> mode]
          /\ \/ rc \in {"invalid", "illegal", "port"} /\ ips' = <<>>
             \/ mode = "bastion" /\ rc = "OK" /\ ips' = <<"inet">>
             \/ /\ mode # "bastion"
                /\ \E dns \in Answers : ips' = Resolved(dns)
                /\ rc = IF ips' = <<>> THEN "unresolved" ELSE "OK"

\* A key that is only shown, or used; the other methods fail.
proxy_gateway_auth_publickey(kind, known) ==
  CASE kind = "test" /\ known -> "PK_OK"
    [] kind = "signed" /\ known -> "SUCCESS"
    [] OTHER -> "FAILED"

\* proxy_gateway_auth_process_method_response(): the SUCCESS is sent later.
Reply(resp) ==
  CASE resp = "SUCCESS" -> <<>>
    [] resp = "PK_OK" -> IF login'.mode = "bastion" THEN <<"pkok">> ELSE <<"ips", "pkok">>
    [] OTHER -> <<"failure">>

\* proxy_gateway_auth_dispatch(): a message of the gateway.
AuthRequest(kind, known, rc) ==
  /\ phase = "auth"
  /\ Split(rc)
  /\ CASE rc = "OK" ->
            LET resp == proxy_gateway_auth_publickey(kind, known)
            IN  /\ wire' = Reply(resp)
                /\ phase' = IF resp = "SUCCESS" THEN "connect" ELSE "dispatch"
                /\ UNCHANGED <<how, helpers>>
       [] rc = "unresolved" ->
            /\ wire' = <<"error", "failure">>
            /\ phase' = "dispatch" /\ UNCHANGED <<how, helpers>>
       [] rc \in {"invalid", "illegal"} ->
            Exit("refused") /\ wire' = <<"disconnect">>
       [] rc = "port" ->
            Cleanup("fatal") /\ wire' = <<>>
  /\ UNCHANGED <<used, late, relay, root>>

--------------------------------------------------------------------------------
(***************************************************************************)
(* The target.                                                             *)
(***************************************************************************)
Unused == DOMAIN ips \ used

\* proxy_select_next_target_ip(): the preferred family first, then in order.
Candidate ==
  LET best == {i \in Unused : ips[i] = Preferred}
      set == IF best = {} THEN Unused ELSE best
  IN  CHOOSE i \in set : \A j \in set : i <= j

\* A health probe looks at the first address before it knows that there is one.
ProbeWithoutAddress ==
  /\ phase = "connect" /\ login.mode = "remote" /\ ips = <<>>
  /\ Exit("crash")
  /\ UNCHANGED <<login, ips, used, wire, late, relay, root>>

AuthFinishSuccessFirst == wire' = wire \o <<"success", "ip">>
proxy_gateway_auth_finish == wire' = wire \o <<"ip", "success">>

\* proxy_connect_target(): one address, and with the first that answers
\* proxy_gateway_auth_finish().  The mode and the addresses are not
\* needed any more.
ConnectAddress ==
  /\ phase = "connect" /\ Unused # {}
  /\ \/ /\ login.mode = "bastion" => bastion = "up"
        /\ phase' = "loop" /\ proxy_gateway_auth_finish
        /\ login' = [login EXCEPT !.mode = "unset"]
        /\ ips' = <<>> /\ used' = {} /\ late' = FALSE
     \/ used' = used \cup {Candidate} /\ UNCHANGED <<phase, wire, login, ips, late>>
  /\ UNCHANGED <<how, relay, helpers, root>>

NoAddressLeft ==
  /\ phase = "connect" /\ Unused = {}
  /\ login.mode = "remote" => ips # <<>>
  /\ wire' = wire \o <<"error", "failure">>
  /\ Cleanup("unreachable")
  /\ UNCHANGED <<login, ips, used, late, relay, root>>

--------------------------------------------------------------------------------
(***************************************************************************)
(* The relay.                                                              *)
(***************************************************************************)
Peer(s) == IF s = "gateway" THEN "target" ELSE "gateway"

\* In proxy_session_loop(), "blocked" in a send().
Relaying == {"loop", "blocked"}

\* External: a peer sends a chunk, or closes its connection.
PeerSends(s) ==
  /\ phase \in Relaying /\ s \notin relay.eof /\ relay.sent[s] < MaxChunks[s]
  /\ relay' = [relay EXCEPT !.sent[s] = @ + 1]
  /\ UNCHANGED <<phase, how, login, ips, used, wire, late, helpers, root>>

PeerCloses(s) ==
  /\ phase \in Relaying /\ s \notin relay.eof
  /\ relay' = [relay EXCEPT !.eof = @ \cup {s}]
  /\ UNCHANGED <<phase, how, login, ips, used, wire, late, helpers, root>>

Readable(r) == {s \in Sides : r.read[s] < r.sent[s] \/ s \in r.eof}
Pending(r) == {s \in Sides : r.buf[s] # <<>>}

\* receive_into_buffer(): a chunk, or the end of the connection.  The gateway's
\* first chunk opens the way to the gateway.
Receive(r, s) ==
  IF s \notin Readable(r) THEN r
  ELSE IF r.read[s] < r.sent[s]
       THEN [r EXCEPT !.read[s] = @ + 1,
                      !.buf[Peer(s)] = Append(@, r.read[s] + 1),
                      !.heard = @ \/ s = "gateway"]
       ELSE [r EXCEPT !.closed = @ \cup {s}]

Send(r, s, n) ==
  LET k == IF n < Len(r.buf[s]) THEN n ELSE Len(r.buf[s])
  IN  IF n = 0 THEN [r EXCEPT !.closed = @ \cup {s}]
      ELSE [r EXCEPT !.got[s] = @ \o SubSeq(r.buf[s], 1, k),
                     !.buf[s] = SubSeq(@, k + 1, Len(@))]

\* A round in which poll() found something.  Whether a side can be written to
\* is of interest only when something is waiting for it; out are the sides that
\* can, and n[s] is what one takes.
RoundUntilClosed(out, n) ==
  LET r1 == Receive(relay, "target")
      r2 == IF "gateway" \in out /\ r1.heard /\ r1.closed = {}
            THEN Send(r1, "gateway", n["gateway"]) ELSE r1
      r3 == Receive(r2, "gateway")
  IN  IF "target" \in out /\ r3.closed = {} THEN Send(r3, "target", n["target"]) ELSE r3

Round(out, n) ==
  LET r1 == Receive(relay, "target")
      r2 == IF "gateway" \in out /\ r1.heard THEN Send(r1, "gateway", n["gateway"]) ELSE r1
      r3 == Receive(r2, "gateway")
  IN  IF "target" \in out THEN Send(r3, "target", n["target"]) ELSE r3

\* In a round that closes: the sides that did not take all that was waiting.
Short(out, n) ==
  (Pending(relay) \ out) \cup {s \in out : n[s] < MaxChunks[Peer(s)]}
  \cup (IF relay.heard THEN {} ELSE {"gateway"})
  \cup (IF \E s \in out : n[s] = 0 THEN Sides ELSE {})

LeaveLoop(reason) ==
  IF "gateway" \in relay.closed THEN Exit(reason) ELSE Cleanup(reason)

\* A round, with no end found in an earlier one.  The sockets are blocking: a side
\* takes all that waits for it, unless its connection breaks or a signal
\* interrupts the send().
Relayed(interrupted) ==
  /\ relay.closed = {}
  /\ \E out \in SUBSET Pending(relay) :
       /\ Readable(relay) \cup out # {}
       /\ \E n \in [out -> UNION {0..MaxChunks[s] : s \in Sides}] :
            /\ \A s \in out :
                 /\ n[s] <= MaxChunks[Peer(s)]
                 /\ n[s] < MaxChunks[Peer(s)] => interrupted \/ s \in relay.eof
                 /\ n[s] = 0 => s \in relay.eof
            /\ LET r == Round(out, n)
               IN  relay' = [r EXCEPT !.short = IF r.closed = {} THEN {} ELSE Short(out, n),
                                      !.signal = interrupted]

\* proxy_session_loop(): what ended in one round is noticed in the next.
Poll ==
  /\ phase = "loop" /\ Readable(relay) \cup Pending(relay) # {}
  /\ \/ /\ relay.signal \/ relay.closed # {}
        /\ LeaveLoop(IF relay.signal THEN "signal" ELSE "closed") /\ UNCHANGED relay
     \/ ~relay.signal /\ Relayed(FALSE) /\ UNCHANGED <<phase, how, helpers>>
  /\ UNCHANGED <<login, ips, used, wire, late, root>>

\* The peer does not read, and send() waits for it; until it reads on, or its
\* connection breaks.
SendBlocks ==
  /\ phase = "loop" /\ ~relay.signal /\ relay.closed = {}
  /\ \E s \in Pending(relay) : s = "gateway" => relay.heard
  /\ phase' = "blocked"
  /\ UNCHANGED <<how, login, ips, used, wire, late, relay, helpers, root>>

SendReturns ==
  /\ phase = "blocked" /\ Relayed(FALSE) /\ phase' = "loop"
  /\ UNCHANGED <<how, login, ips, used, wire, late, helpers, root>>

\* Nothing moved for max_session_idle_secs.
Idle ==
  /\ phase = "loop" /\ Readable(relay) = {}
  /\ LeaveLoop("idle")
  /\ UNCHANGED <<login, ips, used, wire, late, relay, root>>

\* SIGTERM, SIGQUIT or SIGINT.  Until the loop has its own handlers the process
\* has the master's, which clean up and exit; in the loop poll() fails, or the
\* signal comes between two calls of it, or it ends a send().
Signal ==
  /\ \/ /\ phase \in {"forked", "kex", "dispatch", "auth", "connect"}
        /\ Cleanup("signal") /\ UNCHANGED relay
     \/ phase = "loop" /\ ~relay.signal /\ LeaveLoop("signal") /\ UNCHANGED relay
     \/ /\ phase = "loop" /\ ~relay.signal /\ relay' = [relay EXCEPT !.signal = TRUE]
        /\ UNCHANGED <<phase, how, helpers>>
     \/ /\ phase = "blocked" /\ Relayed(TRUE)
        /\ phase' = "loop" /\ UNCHANGED <<how, helpers>>
  /\ UNCHANGED <<login, ips, used, wire, late, root>>

\* What the process does by itself, time passing included, and what it does when
\* something comes from outside.
SessionRuns ==
  \/ ForgetMonitor \/ KeyExchange \/ AuthWindow \/ NoMessage
  \/ ProbeWithoutAddress \/ ConnectAddress \/ NoAddressLeft
  \/ Poll \/ Idle

SessionStep ==
  \/ SessionRuns \/ TenSeconds \/ Signal \/ SendBlocks \/ SendReturns
  \/ \E kind \in {"none", "test", "signed", "other"}, known \in BOOLEAN,
        rc \in {"OK", "unresolved", "invalid", "illegal", "port"} :
       AuthRequest(kind, known, rc)
  \/ \E s \in Sides : PeerSends(s) \/ PeerCloses(s)

\* The target's data wait for a gateway that has sent nothing: poll() finds the
\* gateway's connection writable again and again, and never times out.
Held == phase = "loop" /\ relay.buf["gateway"] # <<>> /\ ~relay.heard

--------------------------------------------------------------------------------
(***************************************************************************)
(* Properties.                                                             *)
(***************************************************************************)
Replies == {"pkok", "failure", "success"}
Count(s, set) == Cardinality({i \in DOMAIN s : s[i] \in set})

\* Every request of the gateway gets exactly one reply, that of the accepted key
\* once it is known whether the target can be reached; and what the proxy has to
\* tell comes before the reply it belongs to: the gateway (auth-proxy.c) uses
\* what it has been told when the reply arrives.
AnswersInOrder ==
  /\ phase = "connect" => wire = <<>>
  /\ (phase = "dispatch" /\ login.stored) \/ phase \in Relaying \/ how \in {"unreachable", "closed", "idle"} =>
       Count(wire, Replies) = 1 /\ wire[Len(wire)] \in Replies
  /\ Count(wire, {"success"}) > 0 => phase \in Relaying \cup {"ended"} /\ wire[1] = "ip"
  /\ Count(wire, {"pkok"}) > 0 /\ login.mode # "bastion" => wire[1] = "ips"
  /\ how = "unreachable" => wire[1] = "error"

\* The relay is faithful: what a side got, followed by what waits for it, is
\* what was read from the other, in order; and the gateway gets nothing before
\* it has sent something itself.
RelayInOrder ==
  /\ \A s \in Sides :
       relay.got[s] \o relay.buf[s] = [i \in 1..relay.read[Peer(s)] |-> i]
  /\ relay.got["gateway"] # <<>> => relay.read["gateway"] > 0

\* When one side closes, the other has been sent all that was read from it,
\* unless in that round it could not take all that was waiting, or the gateway
\* had not sent anything yet.
ClosedDrained ==
  how = "closed" =>
    \A s \in Sides :
      relay.closed = {s} /\ Peer(s) \notin relay.short =>
        relay.got[Peer(s)] = [i \in 1..relay.sent[s] |-> i]

\* The relay loses and reorders nothing, while it runs and when it ends.
RelayFaithful == RelayInOrder /\ ClosedDrained

================================================================================
