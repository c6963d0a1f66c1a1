------------------------------- MODULE Channels -------------------------------
(***************************************************************************)
(* Packet inspection of a session (inspect-packet.c, inspect-channel.c):   *)
(* the gateway forwards the packets of the SSH connection protocol between *)
(* the client and the target, keeps its own table of the channels they     *)
(* open, and attributes every packet to a channel by the number the        *)
(* recipient chose for it.  Channels that were already open before the     *)
(* target was logged in (public key agent mode) are "proxied": each peer   *)
(* knows the gateway's number, and packets are rewritten.                  *)
(*                                                                         *)
(* The peers are external: they follow RFC 4254.  wire[s] holds the packets*)
(* of peer s the gateway has not processed yet.  A packet the gateway sends*)
(* is received at once, which loses nothing: what a peer sends before it   *)
(* receives a packet can as well be queued in wire before it.              *)
(***************************************************************************)
EXTENDS Integers, Sequences, FiniteSets

CONSTANTS
    Nums,        \* channel numbers a peer gives to its channels
    MaxOpens,    \* bound on the channels of a behaviour
    MaxSends,    \* bound on the other packets the peers send on their own
    Sends,       \* packets on a channel, <<sender, type, name, want_reply>>
    Globals,     \* global requests, <<sender, name, want_reply>>
    SshForward,  \* tcp_forward_ssh_allowed
    MaxWire,     \* bound on the unprocessed packets of a peer
    MaxReplay    \* number of the requests replayed in agent mode

CLIENT == "CLIENT"
TARGET == "TARGET"
Side == {CLIENT, TARGET}
TheOtherSide(s) == IF s = CLIENT THEN TARGET ELSE CLIENT

None == -1

\* libssh numbers the gateway's own channels from these two values on, far
\* from the numbers the peers use.
SUSSHI_SESSION_CLIENT_CHANNEL_START == 9100000
SUSSHI_SESSION_TARGET_CHANNEL_START == 9200000

ASSUME NumsAssumption ==
    /\ Nums \subseteq Nat
    /\ \A n \in Nums : n < SUSSHI_SESSION_CLIENT_CHANNEL_START
    /\ Nums # {}
    /\ MaxOpens \in Nat \ {0} /\ MaxSends \in Nat /\ MaxReplay \in Nat

\* RFC 4254: only requests ask for a reply, and a client that has host keys
\* proved to it asks for one.
ASSUME SendsAssumption ==
    /\ \A p \in Sends :
         /\ p[1] \in Side /\ p[2] \in {"DATA", "REQUEST", "WINDOW", "EOF"}
         /\ p[4] \in BOOLEAN /\ (p[4] => p[2] = "REQUEST")
    /\ \A g \in Globals :
         /\ g[1] \in Side /\ g[3] \in BOOLEAN
         /\ g[2] = "hostkeys-prove" => g[3]

Cids == 1 .. MaxOpens

\* "denied" is a request, channel type or address the ACLs or the inspection
\* itself refuse; every other name is one that is accepted.
OpenKinds == {"session", "forward", "denied", "auth-agent denied"}

Logging == {"NONE", "SESS", "TEXT", "EXEC_TEXT", "EXEC", "SCP", "SFTP",
            "TCPIP", "X11", "AGENT"}

Channel == [requestor : Side, requestorCh : Nums, providerCh : Nums \cup {None},
            proxied : BOOLEAN, state : {"OPEN", "CONFIRMED", "CLOSE"},
            logging : Logging, sftp : {"none", "running", "reset"}, spoken : BOOLEAN,
            kind : OpenKinds, conv : Cids]

FreeSlot == [requestor |-> "NULL"]

\* What a peer knows of one of its channels.  conv identifies the channel both
\* peers mean, whatever numbers they use.
Endpoint == [conv : Cids, own : BOOLEAN, sent : BOOLEAN, got : BOOLEAN,
             remote : Int, awaits : 0 .. MaxSends]

NoEndpoint == [conv |-> 0]

VARIABLES
    channels,   \* susshi_session.channels
    flags,      \* the other fields of susshi_session the inspection uses
    global,     \* target_session->global_req_state, and the two fields that
                \* follow the port forwards under way
    fatal,      \* why the process ended, or "no"
    ep,         \* external: the peers' channels
    wire,       \* external: packets on their way to the gateway
    awaits,     \* external: replies to global requests each peer waits for
    used,       \* numbers of channels opened and of packets sent so far
    seen,       \* history: packets for the wrong channel, replies nobody
                \* asked for, and where the suSSHi environment was sent
    lost        \* history: whether the gateway swallowed an answer, and the
                \* sessions whose environment something else took
channelsVars == <<channels, flags, global, fatal, ep, wire, awaits, used, seen, lost>>

Packet(type, to, conv, kind) ==
    [type |-> type, to |-> to, from |-> None, conv |-> conv, kind |-> kind,
     want |-> FALSE]

----------------------------------------------------------------------------
(* The channel table.                                                      *)

Open == {i \in Cids : channels[i] # FreeSlot}

MinOf(S) == CHOOSE i \in S : \A j \in S : i <= j

\* susshi_alloc_new_channel(): the first free slot.
AllocNewChannel == MinOf(Cids \ Open)

RequestorNum(c) ==
    IF c.proxied THEN SUSSHI_SESSION_TARGET_CHANNEL_START ELSE c.requestorCh

ProviderNum(c) ==
    IF c.proxied THEN SUSSHI_SESSION_CLIENT_CHANNEL_START ELSE c.providerCh

\* susshi_find_channel(): the first channel that side requested and that has
\* one of the numbers; 0 stands for the code's -1.
FindChannel(side, senderCh, recipientCh) ==
    LET found == {i \in Open :
            /\ channels[i].requestor = side
            /\ \/ senderCh # None /\ RequestorNum(channels[i]) = senderCh
               \/ recipientCh # None /\ ProviderNum(channels[i]) = recipientCh}
    IN  IF found = {} THEN 0 ELSE MinOf(found)

OrElse(i, j) == IF i # 0 THEN i ELSE j

\* Lookup for data, requests, window adjustments and EOF.
FindForData(s, n) ==
    OrElse(FindChannel(s, None, n), FindChannel(TheOtherSide(s), n, None))

\* Lookup for closes and failures.
FindForClose(s, n) ==
    OrElse(FindChannel(TheOtherSide(s), n, None), FindChannel(s, None, n))

\* Lookup for what only the provider of a channel or of an answer sends.
FindForAnswer(s, n) == FindChannel(TheOtherSide(s), n, None)

\* Mutant: the recipient of a packet to the client is not rewritten.
RewriteToTargetOnly(s, m, c) ==
    IF c.proxied /\ s = CLIENT THEN [m EXCEPT !.to = c.providerCh] ELSE m

Rewrite(s, m, c) ==
    IF ~c.proxied THEN m
    ELSE [m EXCEPT !.to = IF s = CLIENT THEN c.providerCh ELSE c.requestorCh]

\* susshi_inspect_channel_request_exec(): a recognised scp command, or a
\* command with its output journalled unless a stop pattern matches it.
ExecLogging(kind, logging) ==
    IF kind = "scp" THEN "SCP"
    ELSE IF logging = "TEXT" THEN "TEXT"
    ELSE IF kind = "exec-stop" THEN "EXEC" ELSE "EXEC_TEXT"

\* susshi_inspect_channel_request_subsystem().
SubsystemLogging(kind) == IF kind = "sftp" THEN "SFTP" ELSE "TEXT"

\* The journal an accepted request leaves the channel with.
LoggingAfter(kind, logging) ==
    CASE kind \in {"shell", "pty-req"}           -> "TEXT"
      [] kind \in {"exec", "exec-stop", "scp"}   -> ExecLogging(kind, logging)
      [] kind \in {"sftp", "subsystem"}          -> SubsystemLogging(kind)
      [] kind = "x11-req"                        -> "X11"
      [] kind = "auth-agent-req"                 -> "AGENT"
      [] OTHER                                   -> logging

----------------------------------------------------------------------------
(* External: how a peer reacts to a packet.                                *)

Live(s) == {n \in Nums : ep[s][n] # NoEndpoint}

\* The client takes its lowest free number, the target its highest, so that
\* the numbers of a channel differ and those of different channels cross.
NewNums(s) ==
    LET free == Nums \ Live(s)
    IN  {n \in free : \A k \in free : IF s = CLIENT THEN n <= k ELSE n >= k}

Nothing == [misrouted |-> {}, unasked |-> {}, env |-> {}]

Answer(type, m, e) == Packet(type, e.remote, m.conv, "answer")

\* The answers to a global request.  A forward of port 0 is answered with the
\* port, every other success is empty.
GlobalReplies(m) ==
    {<<"GSUCCESS", IF m.kind = "tcpip-forward 0" THEN "port" ELSE "">>, <<"GFAILURE", "">>}

\* The endpoint, the packets it sends in turn, and what went wrong, for every
\* reaction RFC 4254 allows t.
Reactions(t, m) ==
    LET e     == ep[t][m.to]
        known == m.to \in Live(t) /\ e.conv = m.conv
        stay  == [ep |-> ep[t], out |-> <<>>, seen |-> Nothing]
        become(x) == [stay EXCEPT !.ep = [ep[t] EXCEPT ![m.to] = x]]
        send(p) == [stay EXCEPT !.out = <<p>>]
    IN CASE m.type = "OPEN" ->
              {[stay EXCEPT
                  !.out = <<[Packet("CONFIRM", m.from, m.conv, "") EXCEPT !.from = n]>>,
                  !.ep  = [ep[t] EXCEPT ![n] =
                             [conv |-> m.conv, own |-> FALSE, sent |-> FALSE,
                              got |-> FALSE, remote |-> m.from, awaits |-> 0]]]
                  : n \in NewNums(t)}
              \cup {send(Packet("OPENFAIL", m.from, m.conv, ""))}
         [] m.type = "GLOBAL" ->
              IF m.want THEN {send(Packet(a[1], None, 0, a[2])) : a \in GlobalReplies(m)}
              ELSE {stay}
         [] m.type \notin {"OPEN", "GLOBAL"} /\ ~known ->
              {[stay EXCEPT !.seen.misrouted = {<<m.type, m.kind>>}]}
         [] known /\ m.type = "CONFIRM" -> {become([e EXCEPT !.remote = m.from])}
         [] known /\ m.type = "OPENFAIL" -> {become(NoEndpoint)}
         [] known /\ m.type = "CLOSE" ->
              {IF e.sent THEN become(NoEndpoint) ELSE become([e EXCEPT !.got = TRUE])}
         [] known /\ m.type = "REQUEST" /\ m.want /\ ~e.sent ->
              {send(Answer(a, m, e)) : a \in {"SUCCESS", "FAILURE"}}
         [] known /\ m.type \in {"SUCCESS", "FAILURE"} ->
              {[(IF e.awaits > 0 THEN become([e EXCEPT !.awaits = @ - 1]) ELSE stay)
                 EXCEPT !.seen.unasked = IF e.awaits > 0 /\ m.kind # "replayed" THEN {}
                                         ELSE {<<m.type, m.kind>>}]}
         [] OTHER -> {stay}

Merge(a, b) == [misrouted |-> a.misrouted \cup b.misrouted,
                unasked   |-> a.unasked \cup b.unasked,
                env       |-> a.env \cup b.env]

\* The gateway has taken the first packet of s and sends m to t.
Deliver(s, t, m) ==
    \E r \in Reactions(t, m) :
        /\ ep' = [ep EXCEPT ![t] = r.ep]
        /\ wire' = [[wire EXCEPT ![s] = Tail(@)] EXCEPT ![t] = @ \o r.out]
        /\ seen' = Merge(seen, r.seen)
        /\ UNCHANGED awaits

\* The gateway has taken the first packet of s and sends nothing.
Drop(s) ==
    /\ wire' = [wire EXCEPT ![s] = Tail(@)]
    /\ UNCHANGED <<ep, seen, awaits>>

Fatal(s, why) ==
    /\ fatal' = why
    /\ Drop(s)
    /\ UNCHANGED <<channels, flags, used>>

Received(s, type) ==
    /\ fatal = "no"
    /\ wire[s] # <<>>
    /\ Head(wire[s]).type = type
    /\ UNCHANGED used

----------------------------------------------------------------------------
(* The handlers of susshi_inspect_packet().                                *)

\* Only a client opens sessions, and none after a no-more-sessions request.
AcceptsOpen(s, kind) ==
    \/ kind = "forward"
    \/ kind = "session" /\ s = CLIENT /\ ~flags.noMoreSessions

\* susshi_inspect_channel_open(), accepted.
ChannelOpen(s) ==
    /\ Received(s, "OPEN")
    /\ LET m == Head(wire[s]) IN
       /\ AcceptsOpen(s, m.kind)
       /\ channels' = [channels EXCEPT ![AllocNewChannel] =
            [requestor |-> s, requestorCh |-> m.from, providerCh |-> None,
             proxied |-> FALSE, state |-> "OPEN",
             logging |-> IF m.kind = "session" THEN "SESS" ELSE "TCPIP",
             sftp |-> "none", spoken |-> FALSE, kind |-> m.kind, conv |-> m.conv]]
       /\ flags' = [flags EXCEPT !.sendShellEnv = @ \/ m.kind = "session"]
       /\ Deliver(s, TheOtherSide(s), m)
    /\ UNCHANGED fatal

\* susshi_inspect_channel_open(), refused by the ACLs or by an earlier
\* no-more-sessions request: the gateway answers the sender itself.
ChannelOpenRejected(s) ==
    /\ Received(s, "OPEN")
    /\ LET m == Head(wire[s])
           session_ == m.kind = "session" /\ s = CLIENT IN
       /\ ~AcceptsOpen(s, m.kind) /\ m.kind # "auth-agent denied"
       /\ flags' = [flags EXCEPT !.sendShellEnv = @ \/ session_,
                                     !.refused = @ \/ session_]
       /\ Deliver(s, s, Packet("OPENFAIL", m.from, m.conv, "rejected"))
    /\ UNCHANGED <<channels, fatal>>

\* susshi_inspect_channel_open(), an agent channel the ACL refuses: no reason
\* was set, and packing the missing text ends the process.
AgentOpenRejected(s) ==
    /\ Received(s, "OPEN")
    /\ Head(wire[s]).kind = "auth-agent denied"
    /\ Fatal(s, "no reason text")

\* The sessions whose open is not answered yet.
Unanswered ==
    {i \in Open : channels[i].kind = "session" /\ channels[i].state = "OPEN"}

\* What becomes of the environment when channel c is confirmed.  One for a
\* channel that is not a session is "raced" when a session's open is still
\* unanswered or was refused by the gateway itself; a session that gets none
\* has "missed" it unless something else took it.
EnvReaches(c) ==
    CASE flags.sendShellEnv /\ c.kind = "session" -> {"session"}
      [] flags.sendShellEnv /\ c.kind # "session" ->
           {IF flags.refused \/ Unanswered # {} THEN "raced" ELSE "wrong"}
      [] ~flags.sendShellEnv /\ c.kind = "session" /\ c.conv \notin lost.env -> {"missed"}
      [] OTHER -> {}

\* A pending environment is sent or cancelled: it is no longer there for the
\* sessions, other than cid's, that still wait for their answer.
EnvTaken(cid) ==
    /\ flags' = [flags EXCEPT !.sendShellEnv = FALSE, !.refused = FALSE]
    /\ lost' = IF flags.sendShellEnv
               THEN [lost EXCEPT !.env = @ \cup {channels[i].conv : i \in Unanswered \ {cid}}]
               ELSE lost

\* susshi_inspect_channel_open_confirm() with susshi_send_shell_env().
ChannelOpenConfirm(s) ==
    /\ Received(s, "CONFIRM")
    /\ LET m   == Head(wire[s])
           cid == FindForAnswer(s, m.to)
           c   == channels[cid] IN
       \/ /\ cid # 0
          /\ channels' = [channels EXCEPT ![cid].providerCh = m.from,
                                          ![cid].state = "CONFIRMED",
                                          ![cid].spoken = FALSE]
          /\ EnvTaken(cid)
          /\ \E r \in Reactions(TheOtherSide(s), Rewrite(s, m, c)) :
               /\ ep' = [ep EXCEPT ![TheOtherSide(s)] = r.ep]
               /\ wire' = [wire EXCEPT ![s] = Tail(@)]
               /\ seen' = Merge(Merge(seen, r.seen), [Nothing EXCEPT !.env = EnvReaches(c)])
          /\ UNCHANGED <<fatal, awaits>>
       \/ /\ cid = 0
          /\ Drop(s)
          /\ UNCHANGED <<channels, flags, fatal, lost>>
    /\ global' = [global EXCEPT !.state = "ACCEPTED"]

\* Mutant: a failed open leaves the pending environment set.
ChannelOpenFailureEnvKept(s) ==
    /\ Received(s, "OPENFAIL")
    /\ LET m   == Head(wire[s])
           cid == FindForAnswer(s, m.to) IN
       /\ cid # 0
       /\ channels' = [channels EXCEPT ![cid] = FreeSlot]
       /\ Deliver(s, TheOtherSide(s), Rewrite(s, m, channels[cid]))
    /\ global' = [global EXCEPT !.state = "DENIED"]
    /\ UNCHANGED <<flags, fatal, lost>>

\* susshi_inspect_channel_open_failure().
ChannelOpenFailure(s) ==
    /\ Received(s, "OPENFAIL")
    /\ LET m   == Head(wire[s])
           cid == FindForAnswer(s, m.to) IN
       \/ /\ cid # 0
          /\ channels' = [channels EXCEPT ![cid] = FreeSlot]
          /\ EnvTaken(cid)
          /\ Deliver(s, TheOtherSide(s), Rewrite(s, m, channels[cid]))
       \/ /\ cid = 0
          /\ Drop(s)
          /\ UNCHANGED <<channels, flags, lost>>
    /\ global' = [global EXCEPT !.state = "DENIED"]
    /\ UNCHANGED fatal

\* susshi_inspect_pfwd_data(): a forwarded connection that starts as SSH.
ForwardsSsh(c, m) ==
    c.logging = "TCPIP" /\ ~SshForward /\ ~c.spoken /\ m.kind = "banner"

\* The SFTP journal starts with the client's first packet.  After a close it
\* is an empty one, which takes the next packet for the target's version.
SftpFatal(s, c) ==
    CASE c.logging = "SFTP" /\ c.sftp = "none" /\ s = TARGET -> "no sftp request"
      [] c.logging = "SFTP" /\ c.sftp = "reset"              -> "sftp closed"
      [] OTHER                                               -> "no"

\* susshi_inspect_channel_data(): the journal of the channel sees the data
\* first; a forwarded connection must not start as SSH unless that is allowed.
ChannelData(s) ==
    /\ Received(s, "DATA")
    /\ LET m   == Head(wire[s])
           cid == FindForData(s, m.to)
           c   == channels[cid] IN
       \/ /\ cid = 0
          /\ Drop(s)
          /\ UNCHANGED <<channels, flags, fatal>>
       \/ /\ cid # 0
          /\ SftpFatal(s, c) # "no"
          /\ Fatal(s, SftpFatal(s, c))
       \/ /\ cid # 0
          /\ SftpFatal(s, c) = "no"
          /\ channels' = [channels EXCEPT
                            ![cid].sftp = IF c.logging = "SFTP" THEN "running" ELSE @,
                            ![cid].spoken = @ \/ s = c.requestor]
          /\ IF ForwardsSsh(c, m)
             THEN Drop(s)
             ELSE Deliver(s, TheOtherSide(s), Rewrite(s, m, c))
          /\ UNCHANGED <<flags, fatal>>

\* Mutant: the second close leaves the channel in the table.
ChannelCloseKept(s) ==
    /\ Received(s, "CLOSE")
    /\ LET m   == Head(wire[s])
           cid == FindForClose(s, m.to) IN
       IF cid = 0
       THEN /\ Deliver(s, TheOtherSide(s), m)
            /\ UNCHANGED channels
       ELSE /\ channels' = [channels EXCEPT ![cid].state = "CLOSE"]
            /\ Deliver(s, TheOtherSide(s), Rewrite(s, m, channels[cid]))
    /\ UNCHANGED <<flags, fatal>>

\* susshi_inspect_channel_close(): the first close of a channel marks it, the
\* second frees it.  susshi_free_sftp_session() leaves an empty SFTP session.
ChannelClose(s) ==
    /\ Received(s, "CLOSE")
    /\ LET m   == Head(wire[s])
           cid == FindForClose(s, m.to)
           c   == channels[cid] IN
       \/ /\ cid = 0
          /\ Deliver(s, TheOtherSide(s), m)
          /\ UNCHANGED channels
       \/ /\ cid # 0
          /\ channels' = [channels EXCEPT ![cid] =
               IF c.state = "CLOSE" THEN FreeSlot
               ELSE [c EXCEPT !.state = "CLOSE",
                              !.sftp = IF c.logging = "SFTP" THEN "reset" ELSE @]]
          /\ Deliver(s, TheOtherSide(s), Rewrite(s, m, c))
    /\ UNCHANGED <<flags, fatal>>

\* susshi_inspect_channel_request(), accepted.
ChannelRequest(s) ==
    /\ Received(s, "REQUEST")
    /\ LET m   == Head(wire[s])
           cid == FindForData(s, m.to)
           c   == channels[cid] IN
       \/ /\ cid = 0
          /\ Fatal(s, "not found")
       \/ /\ cid # 0
          /\ m.kind # "denied"
          /\ channels' = [channels EXCEPT ![cid].logging = LoggingAfter(m.kind, @)]
          /\ flags' = [flags EXCEPT !.replayPhase = FALSE]
          /\ Deliver(s, TheOtherSide(s), Rewrite(s, m, c))
          /\ UNCHANGED fatal

\* A refused request ends the replay phase and cancels the environment.
RequestRefused ==
    /\ flags' = [flags EXCEPT !.replayPhase = FALSE, !.sendShellEnv = FALSE,
                                  !.refused = FALSE]
    /\ lost' = IF flags.sendShellEnv
               THEN [lost EXCEPT !.env = @ \cup {channels[i].conv : i \in Unanswered}]
               ELSE lost

\* Mutant: a refused request is answered even if no reply was wanted.
ChannelRequestAlwaysAnswered(s) ==
    /\ Received(s, "REQUEST")
    /\ LET m   == Head(wire[s])
           cid == FindForData(s, m.to) IN
       /\ cid # 0
       /\ m.kind = "denied"
       /\ RequestRefused
       /\ Deliver(s, s, Packet("FAILURE", channels[cid].requestorCh, m.conv, "rejected"))
    /\ UNCHANGED <<channels, fatal>>

\* Mutant: a refused request is dropped without an answer.
ChannelRequestDropped(s) ==
    /\ Received(s, "REQUEST")
    /\ LET m == Head(wire[s]) IN
       /\ FindForData(s, m.to) # 0
       /\ m.kind = "denied"
       /\ RequestRefused
       /\ Drop(s)
    /\ UNCHANGED <<channels, fatal>>

\* susshi_inspect_channel_request(), refused: the failure goes to the sender,
\* with the requestor's number of the channel.
ChannelRequestRejected(s) ==
    /\ Received(s, "REQUEST")
    /\ LET m   == Head(wire[s])
           cid == FindForData(s, m.to) IN
       /\ cid # 0
       /\ m.kind = "denied"
       /\ RequestRefused
       /\ IF m.want
          THEN Deliver(s, s, Packet("FAILURE", channels[cid].requestorCh, m.conv, "rejected"))
          ELSE Drop(s)
    /\ UNCHANGED <<channels, fatal>>

\* susshi_inspect_channel_success() and _failure(): answers to requests the
\* gateway replayed itself are dropped.  why tells the two ways apart in which
\* no channel is found.
Answered(s, type, cid, why) ==
    /\ Received(s, type)
    /\ \/ /\ cid = 0
          /\ Fatal(s, why)
       \/ /\ cid # 0
          /\ IF flags.replayPhase
             THEN Drop(s)
             ELSE Deliver(s, TheOtherSide(s), Rewrite(s, Head(wire[s]), channels[cid]))
          /\ UNCHANGED <<channels, flags, fatal>>

\* A success is only looked for among the channels the other side opened.
ChannelSuccess(s) ==
    /\ wire[s] # <<>>
    /\ LET n == Head(wire[s]).to IN
       Answered(s, "SUCCESS", FindForAnswer(s, n),
                IF FindForClose(s, n) = 0 THEN "not found" ELSE "success of the opener")

\* Mutant: failures are looked up like successes.
ChannelFailureOfRequestor(s) ==
    /\ wire[s] # <<>>
    /\ Answered(s, "FAILURE", FindForAnswer(s, Head(wire[s]).to), "not found")

ChannelFailure(s) ==
    /\ wire[s] # <<>>
    /\ Answered(s, "FAILURE", FindForClose(s, Head(wire[s]).to), "not found")

\* susshi_inspect_channel_window_adjust().
WindowAdjust(s) ==
    /\ Received(s, "WINDOW")
    /\ LET cid == FindForData(s, Head(wire[s]).to) IN
       \/ /\ cid = 0
          /\ Fatal(s, "not found")
       \/ /\ cid # 0
          /\ Deliver(s, TheOtherSide(s), Rewrite(s, Head(wire[s]), channels[cid]))
          /\ UNCHANGED <<channels, flags, fatal>>

\* susshi_inspect_channel_eof(): forwarded even if the channel is unknown.
ChannelEof(s) ==
    /\ Received(s, "EOF")
    /\ LET m   == Head(wire[s])
           cid == FindForData(s, m.to) IN
       Deliver(s, TheOtherSide(s), IF cid = 0 THEN m ELSE Rewrite(s, m, channels[cid]))
    /\ UNCHANGED <<channels, flags, fatal>>

\* Peer t receives an answer to a global request; why says whose answer it is.
GlobalAnswer(t, asked, why) ==
    /\ awaits' = [awaits EXCEPT ![t] = IF @ > 0 THEN @ - 1 ELSE 0]
    /\ seen' = [seen EXCEPT !.unasked = IF awaits[t] > 0 /\ asked THEN @
                                         ELSE @ \cup {<<"GLOBAL", why>>}]

\* susshi_inspect_global_request(), accepted and forwarded.
GlobalRequest(s) ==
    /\ Received(s, "GLOBAL")
    /\ LET m == Head(wire[s]) IN
       /\ m.kind \in {"no-more-sessions", "tcpip-forward", "tcpip-forward 0", "keepalive"}
       /\ flags' = [flags EXCEPT !.noMoreSessions = @ \/ m.kind = "no-more-sessions"]
       /\ global' = [global EXCEPT !.state = "PENDING",
                       !.port0 = @ \/ (m.kind = "tcpip-forward 0" /\ m.want)]
       /\ Deliver(s, TheOtherSide(s), m)
    /\ UNCHANGED <<channels, fatal>>

\* susshi_inspect_global_request(), refused: the gateway sends a failure,
\* whether or not a reply was wanted.
GlobalRequestRejected(s) ==
    /\ Received(s, "GLOBAL")
    /\ LET m == Head(wire[s]) IN
       /\ \/ m.kind \in {"denied", "hostkeys"}
          \/ m.kind = "hostkeys-prove" /\ s = TARGET
       /\ GlobalAnswer(s, m.want, m.kind)
    /\ wire' = [wire EXCEPT ![s] = Tail(@)]
    /\ UNCHANGED <<channels, flags, fatal, ep>>

\* susshi_hostkeys_update_prove_hostkeys(): the gateway proves its own host
\* keys to the client.
ProveHostkeys(s) ==
    /\ Received(s, "GLOBAL")
    /\ s = CLIENT
    /\ Head(wire[s]).kind = "hostkeys-prove"
    /\ GlobalAnswer(s, TRUE, "hostkeys-prove")
    /\ wire' = [wire EXCEPT ![s] = Tail(@)]
    /\ UNCHANGED <<channels, flags, fatal, ep>>

\* External: libssh lets an answer to a global request through only while one
\* is pending on the session it comes from.  The gateway keeps that state for
\* the target's session only; on the client's it may be either.
PacketFilter(s) == IF s = TARGET THEN {global.state = "PENDING"} ELSE BOOLEAN

\* External: libssh gives the session up over a packet its filter refuses.
AnswerFiltered(s) ==
    /\ Received(s, "GSUCCESS") \/ Received(s, "GFAILURE")
    /\ FALSE \in PacketFilter(s)
    /\ Fatal(s, "packet filter")

\* susshi_inspect_request_success(), swallowed: while the answer to a forward
\* of port 0 is expected, an empty one is dropped.
RequestSuccessDropped(s) ==
    /\ Received(s, "GSUCCESS")
    /\ TRUE \in PacketFilter(s)
    /\ global.port0 /\ Head(wire[s]).kind = ""
    /\ Drop(s)
    /\ lost' = [lost EXCEPT !.answers = TRUE]
    /\ UNCHANGED <<channels, flags, global, fatal>>

\* susshi_inspect_request_success(), forwarded.  The count of forwards that
\* were replayed is unsigned: below zero it counts as pending.
RequestSuccess(s) ==
    /\ Received(s, "GSUCCESS")
    /\ TRUE \in PacketFilter(s)
    /\ global.port0 => Head(wire[s]).kind # ""
    /\ GlobalAnswer(TheOtherSide(s), TRUE, "answer")
    /\ wire' = [wire EXCEPT ![s] = Tail(@)]
    /\ global' = [global EXCEPT !.port0 = FALSE, !.replayed = @ - 1,
                    !.state = IF global.replayed # 1 THEN "PENDING" ELSE @]
    /\ UNCHANGED <<channels, flags, fatal, ep>>

\* REQUEST_FAILURE is forwarded as it is.
RequestFailure(s) ==
    /\ Received(s, "GFAILURE")
    /\ TRUE \in PacketFilter(s)
    /\ GlobalAnswer(TheOtherSide(s), TRUE, "answer")
    /\ wire' = [wire EXCEPT ![s] = Tail(@)]
    /\ UNCHANGED <<channels, flags, global, fatal, ep>>

\* The handlers that leave the state of global requests, and the history,
\* alone, and those that do not.
InspectPlain(s) ==
    \/ ChannelOpen(s)
    \/ ChannelOpenRejected(s)
    \/ AgentOpenRejected(s)
    \/ ChannelData(s)
    \/ ChannelClose(s)
    \/ ChannelRequest(s)
    \/ ChannelSuccess(s)
    \/ ChannelFailure(s)
    \/ WindowAdjust(s)
    \/ ChannelEof(s)
    \/ GlobalRequestRejected(s)
    \/ ProveHostkeys(s)
    \/ AnswerFiltered(s)

InspectPacket(s) ==
    \/ InspectPlain(s) /\ UNCHANGED <<global, lost>>
    \/ ChannelOpenConfirm(s)
    \/ ChannelOpenFailure(s)
    \/ ChannelRequestRejected(s) /\ UNCHANGED global
    \/ GlobalRequest(s) /\ UNCHANGED lost
    \/ RequestSuccessDropped(s)
    \/ RequestSuccess(s) /\ UNCHANGED lost
    \/ RequestFailure(s) /\ UNCHANGED lost

----------------------------------------------------------------------------
(* External: what the peers do on their own.                               *)

Queue(s, m) == Len(wire[s]) < MaxWire /\ wire' = [wire EXCEPT ![s] = Append(@, m)]

PeerOpens(s, kind) ==
    /\ fatal = "no" /\ used.opens < MaxOpens
    /\ \E n \in NewNums(s) :
         LET conv == used.opens + 1 IN
         /\ used' = [used EXCEPT !.opens = conv]
         /\ ep' = [ep EXCEPT ![s][n] = [conv |-> conv, own |-> TRUE, sent |-> FALSE,
                                        got |-> FALSE, remote |-> None, awaits |-> 0]]
         /\ Queue(s, [Packet("OPEN", 0, conv, kind) EXCEPT !.from = n])
    /\ UNCHANGED <<channels, flags, global, lost, fatal, awaits, seen>>

\* A peer sends nothing but answers after its CLOSE.
Usable(s) == {n \in Live(s) : ep[s][n].remote # None /\ ~ep[s][n].sent}

PeerSends(s, type, kind, want) ==
    /\ fatal = "no" /\ used.sends < MaxSends
    /\ \E n \in Usable(s) :
         /\ type = "REQUEST" /\ ~ep[s][n].own => kind \in {"keepalive", "denied"}
         /\ used' = [used EXCEPT !.sends = @ + 1]
         /\ ep' = [ep EXCEPT ![s][n].awaits = IF want THEN @ + 1 ELSE @]
         /\ Queue(s, [Packet(type, ep[s][n].remote, ep[s][n].conv, kind)
                        EXCEPT !.want = want])
    /\ UNCHANGED <<channels, flags, global, lost, fatal, awaits, seen>>

PeerCloses(s, n) ==
    /\ fatal = "no" /\ n \in Usable(s)
    /\ ep' = [ep EXCEPT ![s][n] = IF @.got THEN NoEndpoint ELSE [@ EXCEPT !.sent = TRUE]]
    /\ Queue(s, Packet("CLOSE", ep[s][n].remote, ep[s][n].conv, ""))
    /\ UNCHANGED <<channels, flags, global, lost, fatal, awaits, used, seen>>

PeerSendsGlobal(g) ==
    /\ fatal = "no" /\ used.sends < MaxSends
    /\ used' = [used EXCEPT !.sends = @ + 1]
    /\ awaits' = [awaits EXCEPT ![g[1]] = IF g[3] THEN @ + 1 ELSE @]
    /\ Queue(g[1], [Packet("GLOBAL", None, 0, g[2]) EXCEPT !.want = g[3]])
    /\ UNCHANGED <<channels, flags, global, lost, fatal, ep, seen>>

Peer(s) ==
    \/ \E kind \in OpenKinds : PeerOpens(s, kind)
    \/ \E p \in Sends : p[1] = s /\ PeerSends(s, p[2], p[3], p[4])
    \/ \E n \in Nums : PeerCloses(s, n)

----------------------------------------------------------------------------

\* The session loop starts with no channel, or, in agent mode, with the
\* session channel the client opened before the target was known; the target
\* has not answered all of the requests replayed to it, nor the port forward
\* the client asked for, of which there is at most one here.
ChannelsInit ==
    /\ fatal = "no"
    /\ seen = Nothing
    /\ lost = [answers |-> FALSE, env |-> {}]
    /\ \E replay \in {0, MaxReplay + 1}, forward \in BOOLEAN :
         LET agent == replay > 0
             n     == MinOf(Nums)
             e(s)  == [conv |-> 1, own |-> s = CLIENT, sent |-> FALSE, got |-> FALSE,
                       remote |-> IF s = CLIENT THEN SUSSHI_SESSION_CLIENT_CHANNEL_START
                                  ELSE SUSSHI_SESSION_TARGET_CHANNEL_START,
                       awaits |-> 0]
             answers == [i \in 1 .. (IF agent THEN replay - 1 ELSE 0) |->
                          Packet("SUCCESS", SUSSHI_SESSION_TARGET_CHANNEL_START, 1, "replayed")]
         IN  /\ forward => agent
             /\ global = [state |-> IF forward THEN "PENDING" ELSE "NONE", port0 |-> FALSE,
                           replayed |-> IF forward THEN 1 ELSE 0]
             /\ awaits = [s \in Side |-> IF s = CLIENT /\ forward THEN 1 ELSE 0]
             /\ flags = [noMoreSessions |-> FALSE, sendShellEnv |-> FALSE,
                           replayPhase |-> agent, refused |-> FALSE]
             /\ used = [opens |-> IF agent THEN 1 ELSE 0, sends |-> 0]
             /\ channels = [i \in Cids |->
                  IF agent /\ i = 1
                  THEN [requestor |-> CLIENT, requestorCh |-> n, providerCh |-> n,
                        proxied |-> TRUE, state |-> "CONFIRMED", logging |-> "TEXT",
                        sftp |-> "none", spoken |-> FALSE, kind |-> "session", conv |-> 1]
                  ELSE FreeSlot]
             /\ ep = [s \in Side |-> [k \in Nums |->
                        IF agent /\ k = n THEN e(s) ELSE NoEndpoint]]
             /\ wire = [s \in Side |->
                  IF s = CLIENT THEN <<>>
                  ELSE IF forward THEN Append(answers, Packet("GSUCCESS", None, 0, ""))
                  ELSE answers]

ChannelsNext ==
    \/ \E s \in Side : InspectPacket(s) \/ Peer(s)
    \/ \E g \in Globals : PeerSendsGlobal(g)

ChannelsSpec == ChannelsInit /\ [][ChannelsNext]_channelsVars

----------------------------------------------------------------------------

Endings == {"no sftp request", "sftp closed", "not found", "success of the opener",
            "no reason text", "packet filter"}

\* The table, the peers and the flags of the session have their types.
ChannelsTypeOK ==
    /\ channels \in [Cids -> Channel \cup {FreeSlot}]
    /\ ep \in [Side -> [Nums -> Endpoint \cup {NoEndpoint}]]
    /\ awaits \in [Side -> 0 .. MaxSends + 1]
    /\ fatal \in Endings \cup {"no"}
    /\ flags \in [{"noMoreSessions", "sendShellEnv", "replayPhase",
                     "refused"} -> BOOLEAN]
    /\ global \in [state : {"NONE", "PENDING", "ACCEPTED", "DENIED"}, port0 : BOOLEAN,
                    replayed : Int]
    /\ lost \in [answers : BOOLEAN, env : SUBSET Cids]

\* The lookups that call fatal() when a channel is missing say "We should
\* never reach this code": with peers that follow the protocol, whatever
\* crosses on the wire, every request, answer and window adjustment finds its
\* channel.  The one packet that does not is the success of the peer that
\* opened the channel, to a request of the other: susshi_inspect_channel_
\* success() looks among the channels of the other side only.
NeverReached == fatal # "not found"

\* Every packet arrives on the channel its sender meant, also through the
\* renumbering of proxied channels and when numbers are reused.  The only
\* packet that may go astray is the gateway's own FAILURE for a request the
\* provider of a channel sent: it carries the requestor's number.
RightChannel == seen.misrouted \subseteq {<<"FAILURE", "rejected">>}

\* The table follows the peers: a channel both of them can use has exactly one
\* entry, and when no packet is under way the entries are the peers' channels,
\* none leaked and none lost.
TableFollowsPeers ==
    fatal = "no" =>
      LET known   == {channels[i].conv : i \in Open}
          convs(s) == {ep[s][n].conv : n \in Live(s)}
      IN  /\ Cardinality(known) = Cardinality(Open)
          /\ \A s \in Side : {ep[s][n].conv : n \in Usable(s)} \subseteq known
          /\ (\A s \in Side : wire[s] = <<>>) =>
                known = convs(CLIENT) \cup convs(TARGET)

\* Nobody receives an answer it did not ask for, but a target or client whose
\* global request without want_reply was refused, and, in agent mode, a client
\* whose own request ended the replay phase before the target's answers came.
AnswersAsked ==
    LET refused == seen.unasked \cap {<<"GLOBAL", "denied">>, <<"GLOBAL", "hostkeys">>}
    IN  \A u \in seen.unasked \ refused :
          IF u[1] = "GLOBAL" THEN refused # {}
          ELSE <<"SUCCESS", "replayed">> \in seen.unasked

\* A session whose open is confirmed gets the suSSHi environment on its own
\* channel, unless the environment was taken from it while it waited: by the
\* answer to another open or by a refused request.  It is sent on a channel
\* that is no session's only while a session waits, or when the one it was
\* meant for was refused by the gateway itself.
EnvReachesSession == seen.env \cap {"wrong", "missed"} = {}

\* No answer is lost: when no packet is under way, no open is unanswered, nor
\* any request on a channel nobody closed, unless an answer went astray, nor
\* any global request, unless the gateway swallowed an empty success while it
\* expected the port of a forward.
NoAnswerLost ==
    (fatal = "no" /\ \A s \in Side : wire[s] = <<>>) =>
      /\ \A s \in Side, n \in Nums : n \in Live(s) =>
           /\ ep[s][n].remote # None
           /\ \/ ep[s][n].awaits = 0
              \/ ep[s][n].sent \/ ep[s][n].got \/ seen.misrouted # {}
      /\ \A s \in Side : awaits[s] = 0 \/ lost.answers
=============================================================================
