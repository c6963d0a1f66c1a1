-------------------------- MODULE ProxyDaemonProofs --------------------------
(***************************************************************************)
(* Proofs about susshi-proxyd, ProxyDaemon with its sessions ProxySession, *)
(* for any number of sessions, addresses and chunks of data.               *)
(***************************************************************************)
EXTENDS ProxyDaemon, FiniteSetTheorems, SequenceTheorems, TLAPS

\* The tuples of variables that steps leave alone.
USE DEF session, helpers, daemon

-----------------------------------------------------------------------------
(***************************************************************************)
(* The helpers.                                                            *)
(***************************************************************************)

\* The monitor daemon ends for SIGTERM only.
EndsWhenTold == monitor = "down" => term

\* What may become of the helpers in a step while the master listens.
Outlived ==
  master' \in {"test", "poll"} =>
    /\ term' => term \/ phase = "forked"
    /\ monitor' = "down" => term'
    /\ root /\ bastion' = "down" => bastion = "down"

\* A session process can signal the monitor daemon only until it has forgotten it.
LEMMA HelpersSession ==
  EndsWhenTold /\ SessionStep /\ UNCHANGED daemon => Outlived /\ EndsWhenTold'
<1> SUFFICES ASSUME EndsWhenTold, SessionStep, UNCHANGED daemon
             PROVE  Outlived /\ EndsWhenTold'
  OBVIOUS
<1>1. UNCHANGED helpers \/ proxy_cleanup(ChildMonitor, ~root)
  BY DEF SessionStep, SessionRuns, ForgetMonitor, KeyExchange, AuthWindow, NoMessage,
         ProbeWithoutAddress, ConnectAddress, NoAddressLeft, Poll, Idle, LeaveLoop, TenSeconds,
         Signal, SendBlocks, SendReturns, AuthRequest, PeerSends, PeerCloses, Cleanup, Exit
<1>2. CASE UNCHANGED helpers
  BY <1>2 DEF EndsWhenTold, Outlived
<1>3. CASE proxy_cleanup(ChildMonitor, ~root)
  <2>1. KillBastion(~root) /\ (UNCHANGED <<monitor, term>> \/ (phase = "forked" /\ KillMonitor(~root)))
    BY <1>3 DEF proxy_cleanup, ChildMonitor
  <2>2. CASE UNCHANGED <<monitor, term>>
    BY <2>1, <2>2 DEF EndsWhenTold, Outlived, KillBastion
  <2>3. CASE phase = "forked" /\ KillMonitor(~root)
    <3>1. EndsWhenTold'
      BY <2>3 DEF KillMonitor, EndsWhenTold
    <3> QED
      BY <2>1, <2>3, <3>1 DEF EndsWhenTold, Outlived, KillBastion
  <2> QED
    BY <2>1, <2>2, <2>3
<1> QED
  BY <1>1, <1>2, <1>3

\* A master that cleans up does not listen any more.
LEMMA HelpersDown ==
  ASSUME EndsWhenTold, NEW reason, Down(reason)
  PROVE  Outlived /\ EndsWhenTold'
<1>1. master' = "down"
  BY DEF Down
<1>2. EndsWhenTold'
  BY DEF Down, proxy_cleanup, KillMonitor, EndsWhenTold
<1> QED
  BY <1>1, <1>2 DEF Outlived

\* The start starts the helpers, and ends none but with the master.
LEMMA HelpersStart ==
  ASSUME EndsWhenTold, susshi_proxyd_main
  PROVE  Outlived /\ EndsWhenTold'
<1>1. CASE InitSession \/ Register
  BY <1>1 DEF InitSession, Register, Outlived, EndsWhenTold
<1>2. CASE run_bastion_sshd
  BY <1>2 DEF run_bastion_sshd, Outlived, EndsWhenTold
<1>3. CASE proxy_fork_monitor_daemon
  <2>1. Down("start") \/ (monitor' = "boot" /\ master' = "bastion")
    BY <1>3 DEF proxy_fork_monitor_daemon
  <2>2. CASE Down("start")
    BY <2>2, HelpersDown
  <2>3. CASE monitor' = "boot" /\ master' = "bastion"
    BY <2>3 DEF Outlived, EndsWhenTold
  <2> QED
    BY <2>1, <2>2, <2>3
<1>4. CASE Configure \/ Listen \/ InitSlots
  <2>1. Down("start") \/ Down("privileges") \/ UNCHANGED helpers
    BY <1>4 DEF Configure, Listen, InitSlots
  <2>2. CASE Down("start") \/ Down("privileges")
    BY <2>2, HelpersDown
  <2>3. CASE UNCHANGED helpers
    BY <2>3 DEF Outlived, EndsWhenTold
  <2> QED
    BY <2>1, <2>2, <2>3
<1> QED
  BY <1>1, <1>2, <1>3, <1>4 DEF susshi_proxyd_main

\* Every step of the daemon and of a session leaves the helpers as it should.
LEMMA HelpersStep == EndsWhenTold /\ [Next]_vars => Outlived /\ EndsWhenTold'
<1> SUFFICES ASSUME EndsWhenTold, [Next]_vars PROVE Outlived /\ EndsWhenTold'
  OBVIOUS
<1>1. CASE SessionStep /\ UNCHANGED daemon
  BY <1>1, HelpersSession
<1>2. CASE susshi_proxyd_main
  BY <1>2, HelpersStart
<1>3. CASE MasterTest \/ MasterWoken
  BY <1>3 DEF MasterTest, MasterWoken, Outlived, EndsWhenTold
<1>4. CASE Accept \/ Sigterm \/ Sighup
  <2>1. Down("accept") \/ Down("signal") \/ UNCHANGED helpers
    BY <1>4 DEF Accept, Sigterm, Sighup, Killed
  <2>2. CASE Down("accept") \/ Down("signal")
    BY <2>2, HelpersDown
  <2>3. CASE UNCHANGED helpers
    BY <2>3 DEF Outlived, EndsWhenTold
  <2> QED
    BY <2>1, <2>2, <2>3
<1>5. CASE MonitorLoop
  BY <1>5 DEF MonitorLoop, Outlived, EndsWhenTold
<1>6. CASE UNCHANGED vars
  BY <1>6 DEF vars, Outlived, EndsWhenTold
<1> QED
  BY <1>1, <1>2, <1>3, <1>4, <1>5, <1>6 DEF Next

\* While the master of susshi-proxyd listens, only a session process signalled
\* before it has forgotten the monitor daemon's PID can end that daemon, and
\* nobody the bastion daemon of root, whatever sessions are served and end.
THEOREM HelpersKept == Spec => HelpersOutliveSessions
<1>1. Init => EndsWhenTold
  BY DEF Init, EndsWhenTold
<1>2. Spec => []EndsWhenTold
  BY <1>1, HelpersStep, PTL DEF Spec
<1>3. EndsWhenTold /\ [Next]_vars => [Outlived]_vars
  BY HelpersStep
<1>4. Spec => [][Outlived]_vars
  BY <1>2, <1>3, PTL DEF Spec
<1> QED
  BY <1>4 DEF HelpersOutliveSessions, Outlived

-----------------------------------------------------------------------------
(***************************************************************************)
(* What the gateway is told.                                               *)
(***************************************************************************)

\* The ways to end, and the phases of the relay.
USE DEF Cleanup, Exit, Relaying

\* What a request of the gateway that decides nothing yet is answered with, and
\* what the accepted key is.
Undecided == {<<"failure">>, <<"pkok">>, <<"ips", "pkok">>, <<"error", "failure">>}
Granted == <<"ip", "success">>

\* What was sent since the last request, by where the process is.
WireWhere ==
  /\ phase \in {"idle", "forked", "kex", "connect"} => wire = <<>>
  /\ phase \in {"forked", "kex"} => ~login.stored
  /\ phase \in {"dispatch", "auth"} =>
       wire \in Undecided \/ (wire = <<>> /\ ~login.stored)
  /\ phase \in Relaying => wire = Granted
  /\ phase = "ended" => wire \in Undecided \cup {<<>>, <<"disconnect">>, Granted}

\* And by how it ended.
WireHow ==
  /\ how # "none" => phase = "ended"
  /\ how = "unreachable" => wire = <<"error", "failure">>
  /\ how \in {"closed", "idle"} => wire = Granted

\* Only a gateway that asks for the bastion is not told the addresses.
AddressesTold == wire = <<"pkok">> => login.mode = "bastion"

Phases == {"idle", "forked", "kex", "dispatch", "auth", "connect", "loop", "blocked", "ended"}
WireInv == phase \in Phases /\ WireWhere /\ WireHow /\ AddressesTold

\* A reply at one place only is counted once.
LEMMA CountSingle ==
  ASSUME NEW s, NEW S, NEW k, {i \in DOMAIN s : s[i] \in S} = {k}
  PROVE  Count(s, S) = 1
BY FS_Singleton DEF Count

\* A sequence without a reply has none to count.
LEMMA CountNone ==
  ASSUME NEW s, NEW S, \A i \in DOMAIN s : s[i] \notin S
  PROVE  Count(s, S) = 0
<1>1. {i \in DOMAIN s : s[i] \in S} = {}
  OBVIOUS
<1> QED
  BY <1>1, FS_EmptySet DEF Count

\* Every answer that decides ends with its only reply.
LEMMA OneReply ==
  ASSUME NEW w \in Undecided \cup {Granted}
  PROVE  Count(w, Replies) = 1 /\ w[Len(w)] \in Replies
<1> USE DEF Replies
<1>1. CASE w \in {<<"failure">>, <<"pkok">>}
  <2>1. {i \in DOMAIN w : w[i] \in Replies} = {1}
    BY <1>1
  <2> QED
    BY <1>1, <2>1, CountSingle
<1>2. CASE w \in {<<"ips", "pkok">>, <<"error", "failure">>, <<"ip", "success">>}
  <2>1. {i \in DOMAIN w : w[i] \in Replies} = {2}
    BY <1>2
  <2> QED
    BY <1>2, <2>1, CountSingle
<1> QED
  BY <1>1, <1>2 DEF Undecided, Granted

\* The invariant says what it should.
LEMMA WireAnswers == WireInv => AnswersInOrder
<1> SUFFICES ASSUME WireInv PROVE AnswersInOrder
  OBVIOUS
<1>1. phase = "connect" => wire = <<>>
  BY DEF WireInv, WireWhere
<1>2. ASSUME (phase = "dispatch" /\ login.stored) \/ phase \in Relaying
               \/ how \in {"unreachable", "closed", "idle"}
      PROVE  Count(wire, Replies) = 1 /\ wire[Len(wire)] \in Replies
  <2>1. wire \in Undecided \cup {Granted}
    BY <1>2 DEF WireInv, WireWhere, WireHow, Undecided
  <2> QED
    BY <2>1, OneReply
<1>3. ASSUME Count(wire, {"success"}) > 0
      PROVE  phase \in Relaying \cup {"ended"} /\ wire[1] = "ip"
  <2>1. wire \in Undecided \cup {<<>>, <<"disconnect">>, Granted}
    BY DEF WireInv, WireWhere, Phases
  <2>2. CASE wire \in Undecided \cup {<<>>, <<"disconnect">>}
    <3>1. \A i \in DOMAIN wire : wire[i] \notin {"success"}
      BY <2>2 DEF Undecided
    <3>2. Count(wire, {"success"}) = 0
      BY <3>1, CountNone
    <3> QED
      BY <1>3, <3>2
  <2>3. CASE wire = Granted
    <3>1. wire \notin Undecided \cup {<<>>} /\ wire[1] = "ip"
      BY <2>3 DEF Undecided, Granted
    <3> QED
      BY <3>1 DEF WireInv, WireWhere, Phases
  <2> QED
    BY <2>1, <2>2, <2>3
<1>4. ASSUME Count(wire, {"pkok"}) > 0, login.mode # "bastion"
      PROVE  wire[1] = "ips"
  <2>1. wire \in Undecided \cup {<<>>, <<"disconnect">>, Granted}
    BY DEF WireInv, WireWhere, Phases
  <2>2. CASE wire \in {<<>>, <<"disconnect">>, <<"failure">>, <<"error", "failure">>, Granted}
    <3>1. \A i \in DOMAIN wire : wire[i] \notin {"pkok"}
      BY <2>2 DEF Granted
    <3>2. Count(wire, {"pkok"}) = 0
      BY <3>1, CountNone
    <3> QED
      BY <1>4, <3>2
  <2>3. wire # <<"pkok">>
    BY <1>4 DEF WireInv, AddressesTold
  <2> QED
    BY <2>1, <2>2, <2>3 DEF Undecided
<1>5. how = "unreachable" => wire[1] = "error"
  BY DEF WireInv, WireHow
<1> QED
  BY <1>1, <1>2, <1>3, <1>4, <1>5 DEF AnswersInOrder

\* The process ends where it was, with what it sent.
LEMMA WireEnds ==
  ASSUME WireInv, phase' = "ended", phase # "ended", UNCHANGED wire,
         how' \notin {"none", "unreachable"},
         how' \in {"closed", "idle"} => phase = "loop",
         login.mode = login.mode'
  PROVE  WireInv'
<1>1. phase' \in Phases
  BY DEF Phases
<1>2. WireWhere'
  BY DEF WireInv, WireWhere, Phases
<1>3. WireHow'
  BY DEF WireInv, WireWhere, WireHow
<1> QED
  BY <1>1, <1>2, <1>3 DEF WireInv, AddressesTold

\* A request is answered by what it is: it was the first, or the login string
\* is stored already.
LEMMA WireRequest ==
  ASSUME WireInv, NEW kind, NEW known, NEW rc, AuthRequest(kind, known, rc)
  PROVE  WireInv'
<1>1. phase = "auth" /\ how = "none"
  BY DEF AuthRequest, WireInv, WireHow
<1>2. CASE rc = "OK"
  <2> DEFINE resp == proxy_gateway_auth_publickey(kind, known)
  <2>1. /\ wire' = Reply(resp) /\ how' = how
        /\ phase' = IF resp = "SUCCESS" THEN "connect" ELSE "dispatch"
    BY <1>2 DEF AuthRequest
  <2>2. CASE resp = "SUCCESS"
    BY <1>1, <2>1, <2>2 DEF Reply, WireInv, WireWhere, WireHow, AddressesTold, Phases
  <2>3. CASE resp = "PK_OK"
    <3>1. wire' = IF login'.mode = "bastion" THEN <<"pkok">> ELSE <<"ips", "pkok">>
      BY <2>1, <2>3 DEF Reply
    <3>2. phase' = "dispatch"
      BY <2>1, <2>3
    <3> HIDE DEF resp
    <3> QED
      BY <1>1, <2>1, <3>1, <3>2 DEF WireInv, WireWhere, WireHow, AddressesTold, Phases, Undecided
  <2>4. CASE resp = "FAILED"
    BY <1>1, <2>1, <2>4 DEF Reply, WireInv, WireWhere, WireHow, AddressesTold, Phases, Undecided
  <2> QED
    BY <2>2, <2>3, <2>4 DEF proxy_gateway_auth_publickey
<1>3. CASE rc = "unresolved"
  <2>1. wire' = <<"error", "failure">> /\ phase' = "dispatch" /\ how' = how
    BY <1>3 DEF AuthRequest
  <2> QED
    BY <1>1, <2>1 DEF WireInv, WireWhere, WireHow, AddressesTold, Phases, Undecided
<1>4. CASE rc \in {"invalid", "illegal", "port"}
  <2>1. /\ wire' \in {<<>>, <<"disconnect">>} /\ phase' = "ended"
        /\ how' \in {"refused", "fatal"}
    BY <1>4 DEF AuthRequest
  <2> QED
    BY <2>1 DEF WireInv, WireWhere, WireHow, AddressesTold, Phases
<1>5. rc \in {"OK", "unresolved", "invalid", "illegal", "port"}
  BY DEF AuthRequest, Split
<1> QED
  BY <1>2, <1>3, <1>4, <1>5

\* Every step of a session keeps what the gateway was told in order.
LEMMA WireSession == WireInv /\ SessionStep => WireInv'
<1> SUFFICES ASSUME WireInv, SessionStep PROVE WireInv'
  OBVIOUS
<1>1. CASE KeyExchange
  <2>1. CASE phase' = "dispatch"
    BY <1>1, <2>1 DEF KeyExchange, WireInv, WireWhere, WireHow, AddressesTold, Phases
  <2>2. CASE phase' = "ended"
    BY <1>1, <2>2, WireEnds DEF KeyExchange
  <2> QED
    BY <1>1, <2>1, <2>2 DEF KeyExchange
<1>2. CASE AuthWindow
  <2>1. CASE late
    BY <1>2, <2>1, WireEnds DEF AuthWindow
  <2>2. CASE ~late
    BY <1>2, <2>2 DEF AuthWindow, WireInv, WireWhere, WireHow, AddressesTold, Phases
  <2> QED
    BY <2>1, <2>2
<1>3. CASE NoMessage
  BY <1>3, WireEnds DEF NoMessage
<1>4. CASE ProbeWithoutAddress
  BY <1>4, WireEnds DEF ProbeWithoutAddress
<1>5. CASE ConnectAddress
  <2>1. phase = "connect" /\ wire = <<>> /\ how' = "none"
    BY <1>5 DEF ConnectAddress, WireInv, WireWhere, WireHow
  <2>2. CASE phase' = "loop" /\ proxy_gateway_auth_finish
    <3>1. wire' = Granted
      BY <2>1, <2>2 DEF proxy_gateway_auth_finish, Granted
    <3> QED
      BY <2>1, <2>2, <3>1 DEF WireInv, WireWhere, WireHow, AddressesTold, Phases, Granted
  <2>3. CASE UNCHANGED <<phase, wire, login>>
    BY <1>5, <2>1, <2>3 DEF ConnectAddress, WireInv, WireWhere, WireHow, AddressesTold
  <2> QED
    BY <1>5, <2>2, <2>3 DEF ConnectAddress
<1>6. CASE NoAddressLeft
  <2>1. wire = <<>> /\ phase' = "ended" /\ how' = "unreachable"
    BY <1>6 DEF NoAddressLeft, WireInv, WireWhere
  <2>2. wire' = <<"error", "failure">>
    BY <1>6, <2>1 DEF NoAddressLeft
  <2> QED
    BY <2>1, <2>2 DEF WireInv, WireWhere, WireHow, AddressesTold, Phases, Undecided
<1>10. CASE ForgetMonitor
  BY <1>10 DEF ForgetMonitor, WireInv, WireWhere, WireHow, AddressesTold, Phases, Relaying
<1>11. CASE SendBlocks \/ SendReturns \/ (Signal /\ phase = "blocked")
  <2>1. /\ UNCHANGED <<wire, login, how>> /\ phase \in {"loop", "blocked"}
        /\ phase' \in {"loop", "blocked"}
    BY <1>11 DEF SendBlocks, SendReturns, Signal
  <2> QED
    BY <2>1 DEF WireInv, WireWhere, WireHow, AddressesTold, Phases, Relaying
<1>7. CASE Poll \/ Idle \/ (Signal /\ phase # "blocked")
  <2>1. UNCHANGED <<wire, login>> /\ phase # "ended"
    BY <1>7 DEF Poll, Idle, Signal, Cleanup, Exit
  <2>2. \/ UNCHANGED <<phase, how>>
        \/ phase' = "ended" /\ how' \in {"closed", "idle", "signal"}
             /\ (how' \in {"closed", "idle"} => phase = "loop")
    BY <1>7 DEF Poll, Idle, Signal, LeaveLoop, Cleanup, Exit
  <2> QED
    BY <2>1, <2>2, WireEnds DEF WireInv, WireWhere, WireHow, AddressesTold
<1>8. CASE TenSeconds
  BY <1>8 DEF TenSeconds, WireInv, WireWhere, WireHow, AddressesTold
<1>9. ASSUME NEW s \in Sides, PeerSends(s) \/ PeerCloses(s)
      PROVE  WireInv'
  BY <1>9 DEF PeerSends, PeerCloses, WireInv, WireWhere, WireHow, AddressesTold
<1> QED
  BY <1>1, <1>2, <1>3, <1>4, <1>5, <1>6, <1>7, <1>8, <1>9, <1>10, <1>11, WireRequest
     DEF SessionStep, SessionRuns

\* The master touches a session only to start one.
LEMMA WireStep == WireInv /\ [Next]_vars => WireInv'
<1> SUFFICES ASSUME WireInv, [Next]_vars PROVE WireInv'
  OBVIOUS
<1>1. CASE SessionStep
  BY <1>1, WireSession
<1>2. CASE UNCHANGED session
  BY <1>2 DEF WireInv, WireWhere, WireHow, AddressesTold
<1>3. CASE phase' = "forked" /\ Fresh
  BY <1>3 DEF Fresh, WireInv, WireWhere, WireHow, AddressesTold, Phases
<1> QED
  BY <1>1, <1>2, <1>3
     DEF Next, susshi_proxyd_main, MasterTest, Accept, MasterWoken, Sighup, Sigterm, MonitorLoop, vars

\* The gateway gets one reply to each request, after all that goes with it.
THEOREM GatewayAnswered == Spec => []AnswersInOrder
<1>1. Init => WireInv
  BY DEF Init, WireInv, WireWhere, WireHow, AddressesTold, Phases
<1> QED
  BY <1>1, WireStep, WireAnswers, PTL DEF Spec

-----------------------------------------------------------------------------
(***************************************************************************)
(* The relay.                                                              *)
(***************************************************************************)

\* The first n chunks a side sends, as the relay numbers them.
Chunks(n) == [i \in 1..n |-> i]

\* They are a sequence.
LEMMA ChunksSeq ==
  ASSUME NEW n \in Nat
  PROVE  Chunks(n) \in Seq(Nat) /\ Len(Chunks(n)) = n
BY DEF Chunks

\* The next chunk, read into the buffer, keeps them in order.
LEMMA ChunkAppended ==
  ASSUME NEW g \in Seq(Nat), NEW b \in Seq(Nat), NEW n \in Nat, g \o b = Chunks(n)
  PROVE  g \o Append(b, n + 1) = Chunks(n + 1)
<1> DEFINE c == Append(b, n + 1)
<1>1. c \in Seq(Nat) /\ Len(c) = Len(b) + 1 /\ c[Len(b) + 1] = n + 1
        /\ \A i \in 1..Len(b) : c[i] = b[i]
  BY AppendProperties
<1> HIDE DEF c
<1>2. Len(g) \in Nat /\ Len(b) \in Nat /\ Len(g) + Len(b) = n
  BY ChunksSeq, ConcatProperties, LenProperties
<1>3. ASSUME NEW i \in 1..n PROVE (IF i <= Len(g) THEN g[i] ELSE b[i - Len(g)]) = i
  <2>1. (g \o b)[i] = i
    BY DEF Chunks
  <2>2. i \in 1..(Len(g) + Len(b))
    BY <1>2
  <2>3. (g \o b)[i] = IF i <= Len(g) THEN g[i] ELSE b[i - Len(g)]
    BY <2>2, ConcatProperties, Zenon
  <2> QED
    BY <2>1, <2>3
<1>4. g \o c \in Seq(Nat) /\ Len(g \o c) = n + 1
  BY <1>1, <1>2, ConcatProperties
<1>5. ASSUME NEW i \in 1..(n + 1) PROVE (g \o c)[i] = i
  <2>1. (g \o c)[i] = IF i <= Len(g) THEN g[i] ELSE c[i - Len(g)]
    <3>1. i \in 1..(Len(g) + Len(c))
      BY <1>1, <1>2
    <3> QED
      BY <1>1, <3>1, ConcatProperties, Zenon
  <2>2. CASE i <= n
    <3>1. (IF i <= Len(g) THEN g[i] ELSE b[i - Len(g)]) = i
      BY <1>3, <2>2
    <3>2. ASSUME ~(i <= Len(g)) PROVE c[i - Len(g)] = b[i - Len(g)]
      <4>1. i - Len(g) \in 1..Len(b)
        BY <1>2, <2>2, <3>2
      <4> QED
        BY <1>1, <4>1, Zenon
    <3>3. CASE i <= Len(g)
      BY <2>1, <3>1, <3>3, Zenon
    <3>4. CASE ~(i <= Len(g))
      BY <2>1, <3>1, <3>2, <3>4, Zenon
    <3> QED
      BY <3>3, <3>4
  <2>3. CASE i = n + 1
    <3>1. ~(i <= Len(g)) /\ i - Len(g) = Len(b) + 1
      BY <1>2, <2>3
    <3> QED
      BY <1>1, <2>1, <2>3, <3>1, Zenon
  <2>4. i <= n \/ i = n + 1
    OBVIOUS
  <2> QED
    BY <2>2, <2>3, <2>4, Zenon
<1>6. Chunks(n + 1) \in Seq(Nat) /\ Len(Chunks(n + 1)) = n + 1
  BY ChunksSeq
<1>7. \A i \in 1..(n + 1) : Chunks(n + 1)[i] = i
  BY DEF Chunks
<1>8. g \o c = Chunks(n + 1)
  BY <1>4, <1>5, <1>6, <1>7, SeqEqual
<1> QED
  BY <1>8 DEF c

\* Chunks sent from the front of the buffer are where they were.
LEMMA ChunksMoved ==
  ASSUME NEW g \in Seq(Nat), NEW b \in Seq(Nat), NEW k \in 0..Len(b)
  PROVE  /\ SubSeq(b, 1, k) \in Seq(Nat) /\ SubSeq(b, k + 1, Len(b)) \in Seq(Nat)
         /\ (g \o SubSeq(b, 1, k)) \o SubSeq(b, k + 1, Len(b)) = g \o b
<1>1. Len(b) \in Nat /\ \A i \in 1..Len(b) : b[i] \in Nat
  BY LenProperties, ElementOfSeq
<1>2. SubSeq(b, 1, k) \in Seq(Nat) /\ SubSeq(b, k + 1, Len(b)) \in Seq(Nat)
  BY <1>1, SubSeqProperties
<1>3. SubSeq(b, 1, k) \o SubSeq(b, k + 1, Len(b)) = SubSeq(b, 1, Len(b))
  <2>1. 1 \in 1..(Len(b) + 1) /\ k \in (1 - 1)..Len(b) /\ Len(b) \in k..Len(b)
    BY <1>1
  <2> QED
    BY <2>1, ConcatAdjacentSubSeq, Zenon
<1>4. SubSeq(b, 1, Len(b)) = b
  BY SubSeqFull
<1>5. SubSeq(b, 1, k) \o SubSeq(b, k + 1, Len(b)) = b
  BY <1>3, <1>4, Zenon
<1>6. ASSUME NEW x \in Seq(Nat), NEW y \in Seq(Nat), x \o y = b
      PROVE  (g \o x) \o y = g \o b
  <2>1. (g \o x) \o y = g \o (x \o y)
    BY ConcatAssociative, SMTT(60)
  <2> QED
    BY <1>6, <2>1
<1> QED
  BY <1>2, <1>5, <1>6

\* What a state of the relay is made of.
RelayType(r) ==
  r \in [sent : [Sides -> Nat], read : [Sides -> Nat], eof : SUBSET Sides,
         buf : [Sides -> Seq(Nat)], got : [Sides -> Seq(Nat)], heard : BOOLEAN,
         closed : SUBSET Sides, signal : BOOLEAN, short : SUBSET Sides]

\* No more is read than was sent, nor sent than there is.
Bounded(r) == \A s \in Sides : r.read[s] <= r.sent[s] /\ r.sent[s] <= MaxChunks[s]

\* What a side got and what waits for it is what was read from the other.
InOrder(r) == \A s \in Sides : r.got[s] \o r.buf[s] = Chunks(r.read[Peer(s)])

\* The way to the gateway is open once something was read from it, not before.
GatewayFirst(r) ==
  /\ r.heard => r.read["gateway"] > 0
  /\ r.got["gateway"] # <<>> => r.read["gateway"] > 0

Flow(r) == RelayType(r) /\ Bounded(r) /\ InOrder(r) /\ GatewayFirst(r)

\* A side that closed has been read to its end, and nothing of it waits for the
\* other side, if that took all it was offered.
Drained(r) ==
  \A s \in Sides :
    r.closed = {s} /\ Peer(s) \notin r.short =>
      s \in r.eof /\ r.read[s] = r.sent[s] /\ r.buf[Peer(s)] = <<>>

RelayInv == Flow(relay) /\ Drained(relay)

\* Each side is the peer of its peer.
LEMMA Peers ==
  ASSUME NEW s \in Sides
  PROVE  Peer(s) \in Sides /\ Peer(s) # s /\ Peer(Peer(s)) = s /\ Sides = {s, Peer(s)}
BY DEF Sides, Peer

\* No more waits for a side than the other can send.
LEMMA WaitingBounded ==
  ASSUME NEW r, Flow(r), NEW s \in Sides
  PROVE  Len(r.buf[s]) \in Nat /\ Len(r.buf[s]) <= MaxChunks[Peer(s)]
<1>1. r.got[s] \in Seq(Nat) /\ r.buf[s] \in Seq(Nat)
  BY DEF Flow, RelayType
<1>2. Peer(s) \in Sides
  BY Peers
<1>3. r.read[Peer(s)] \in Nat /\ r.sent[Peer(s)] \in Nat /\ MaxChunks[Peer(s)] \in Nat
  BY <1>2, SessionAssumption DEF Flow, RelayType, Sides
<1>4. Len(r.got[s]) \in Nat /\ Len(r.buf[s]) \in Nat
        /\ Len(r.got[s]) + Len(r.buf[s]) = r.read[Peer(s)]
  <2>1. r.got[s] \o r.buf[s] = Chunks(r.read[Peer(s)])
    BY DEF Flow, InOrder
  <2>2. Len(Chunks(r.read[Peer(s)])) = r.read[Peer(s)]
    BY <1>3, ChunksSeq
  <2>3. ASSUME NEW g \in Seq(Nat), NEW b \in Seq(Nat)
        PROVE  Len(g) \in Nat /\ Len(b) \in Nat /\ Len(g \o b) = Len(g) + Len(b)
    OBVIOUS
  <2> HIDE DEF Chunks
  <2> QED
    BY <1>1, <2>1, <2>2, <2>3, Zenon
<1>5. r.read[Peer(s)] <= r.sent[Peer(s)] /\ r.sent[Peer(s)] <= MaxChunks[Peer(s)]
  BY <1>2 DEF Flow, Bounded
<1> QED
  <2> DEFINE b == Len(r.buf[s])
             g == Len(r.got[s])
             n == r.read[Peer(s)]
             m == r.sent[Peer(s)]
             c == MaxChunks[Peer(s)]
  <2>1. b \in Nat /\ g \in Nat /\ g + b = n /\ n <= m /\ m <= c /\ n \in Nat /\ m \in Nat /\ c \in Nat
    BY <1>3, <1>4, <1>5
  <2> HIDE DEF b, g, n, m, c
  <2>2. b \in Nat /\ b <= c
    BY <2>1
  <2> QED
    BY <2>2 DEF b, c

\* receive_into_buffer() keeps the flow; it adds the next chunk of a side to what
\* waits for the other, or finds the end of it.
LEMMA ReceiveFlow ==
  ASSUME NEW r, Flow(r), NEW s \in Sides
  PROVE  LET q == Receive(r, s)
         IN  /\ Flow(q)
             /\ q.sent = r.sent /\ q.eof = r.eof /\ q.short = r.short
             /\ q.buf[s] = r.buf[s] /\ q.read[Peer(s)] = r.read[Peer(s)]
             /\ r.heard => q.heard
             /\ q.closed # r.closed =>
                  /\ q.closed = r.closed \cup {s} /\ s \in r.eof
                  /\ q.read = r.read /\ q.buf = r.buf /\ r.read[s] = r.sent[s]
<1> DEFINE q == Receive(r, s)
           p == Peer(s)
<1> HIDE DEF q, p
<1>0. p \in Sides /\ p # s /\ Peer(p) = s /\ Sides = {s, p}
  BY Peers DEF p
<1>1. CASE s \notin Readable(r)
  BY <1>1 DEF Receive
<1>2. CASE s \in Readable(r) /\ r.read[s] < r.sent[s]
  <2>1. q = [r EXCEPT !.read[s] = @ + 1,
                      !.buf[p] = Append(@, r.read[s] + 1),
                      !.heard = @ \/ s = "gateway"]
    BY <1>2 DEF Receive, q, p
  <2>2. /\ q.sent = r.sent /\ q.eof = r.eof /\ q.short = r.short /\ q.got = r.got
        /\ q.closed = r.closed /\ q.signal = r.signal
        /\ q.heard = (r.heard \/ s = "gateway")
        /\ q.read = [r.read EXCEPT ![s] = @ + 1]
        /\ q.buf = [r.buf EXCEPT ![p] = Append(@, r.read[s] + 1)]
    BY <2>1 DEF Flow, RelayType
  <2>3. RelayType(q)
    <3>1. q.read \in [Sides -> Nat] /\ q.heard \in BOOLEAN
      BY <2>2 DEF Flow, RelayType
    <3>2. q.buf \in [Sides -> Seq(Nat)]
      <4>1. r.buf \in [Sides -> Seq(Nat)] /\ r.read[s] + 1 \in Nat
        BY DEF Flow, RelayType
      <4>2. Append(r.buf[p], r.read[s] + 1) \in Seq(Nat)
        BY <1>0, <4>1, AppendProperties
      <4> QED
        BY <1>0, <2>2, <4>1, <4>2
    <3>3. q = [r EXCEPT !.read = q.read, !.buf = q.buf, !.heard = q.heard]
      BY <2>1 DEF Flow, RelayType
    <3> QED
      BY <3>1, <3>2, <3>3 DEF Flow, RelayType
  <2>4. /\ q.read[s] = r.read[s] + 1 /\ q.read[p] = r.read[p]
        /\ q.buf[p] = Append(r.buf[p], r.read[s] + 1) /\ q.buf[s] = r.buf[s]
        /\ r.read[s] \in Nat /\ r.read[p] \in Nat /\ r.sent[s] \in Nat
        /\ r.got[p] \in Seq(Nat) /\ r.buf[p] \in Seq(Nat)
    BY <1>0, <2>2 DEF Flow, RelayType
  <2>5. Bounded(q)
    BY <1>0, <1>2, <2>2, <2>4 DEF Flow, Bounded
  <2>6. InOrder(q)
    <3>1. r.got[p] \o r.buf[p] = Chunks(r.read[s])
      BY <1>0 DEF Flow, InOrder
    <3>2. q.got[p] \o q.buf[p] = Chunks(q.read[s])
      <4>1. r.got[p] \o Append(r.buf[p], r.read[s] + 1) = Chunks(r.read[s] + 1)
        BY <2>4, <3>1, ChunkAppended, Zenon
      <4> QED
        BY <2>2, <2>4, <4>1, Zenon
    <3>3. q.got[s] \o q.buf[s] = Chunks(q.read[p])
      BY <2>2, <2>4 DEF Flow, InOrder, p
    <3> QED
      BY <1>0, <3>2, <3>3, Zenon DEF InOrder, p
  <2>7. GatewayFirst(q)
    BY <1>0, <2>2, <2>4 DEF Flow, GatewayFirst, RelayType
  <2> QED
    BY <2>2, <2>3, <2>4, <2>5, <2>6, <2>7 DEF Flow, q, p
<1>3. CASE s \in Readable(r) /\ ~(r.read[s] < r.sent[s])
  <2>1. q = [r EXCEPT !.closed = @ \cup {s}]
    BY <1>3 DEF Receive, q
  <2>2. /\ q.sent = r.sent /\ q.eof = r.eof /\ q.short = r.short /\ q.got = r.got
        /\ q.closed = r.closed \cup {s} /\ q.heard = r.heard
        /\ q.read = r.read /\ q.buf = r.buf
    BY <2>1 DEF Flow, RelayType
  <2>3. s \in r.eof /\ r.read[s] = r.sent[s]
    BY <1>3 DEF Readable, Flow, RelayType, Bounded
  <2>4. RelayType(q)
    BY <2>1 DEF Flow, RelayType
  <2>5. Bounded(q) /\ InOrder(q) /\ GatewayFirst(q)
    BY <2>2 DEF Flow, Bounded, InOrder, GatewayFirst
  <2> QED
    BY <2>2, <2>3, <2>4, <2>5 DEF Flow, q
<1> QED
  BY <1>1, <1>2, <1>3

\* What sending to a side may do: it takes chunks from the front of what waits
\* for it, all of them if there are no more than n, or is found closed.
Sent(r, s, n, q) ==
  /\ Flow(q)
  /\ q.sent = r.sent /\ q.eof = r.eof /\ q.read = r.read
  /\ q.buf[Peer(s)] = r.buf[Peer(s)]
  /\ n # 0 => q.closed = r.closed
  /\ n # 0 /\ Len(r.buf[s]) <= n => q.buf[s] = <<>>

\* Sending to a side does no more, if the gateway was heard when it is the
\* gateway that is sent to.
LEMMA SendFlow ==
  ASSUME NEW r, Flow(r), NEW s \in Sides, NEW n \in Nat, r.heard \/ s = "target"
  PROVE  Sent(r, s, n, Send(r, s, n))
<1> DEFINE q == Send(r, s, n)
           p == Peer(s)
           len == Len(r.buf[s])
           k == IF n < len THEN n ELSE len
<1> HIDE DEF q, p, len, k
<1>0. p \in Sides /\ p # s /\ Peer(p) = s /\ Sides = {s, p}
  BY Peers DEF p
<1>1. CASE n = 0
  <2>1. q = [r EXCEPT !.closed = @ \cup {s}]
    BY <1>1 DEF Send, q
  <2>2. /\ q.sent = r.sent /\ q.eof = r.eof /\ q.short = r.short /\ q.got = r.got
        /\ q.heard = r.heard /\ q.read = r.read /\ q.buf = r.buf
    BY <2>1 DEF Flow, RelayType
  <2>3. RelayType(q)
    <3>1. r.closed \cup {s} \in SUBSET Sides
      BY DEF Flow, RelayType
    <3> QED
      BY <2>1, <3>1 DEF Flow, RelayType
  <2>4. Bounded(q) /\ InOrder(q) /\ GatewayFirst(q)
    BY <2>2 DEF Flow, Bounded, InOrder, GatewayFirst
  <2> QED
    BY <1>1, <2>2, <2>3, <2>4 DEF Sent, Flow, q
<1>2. CASE n # 0
  <2>1. q = [r EXCEPT !.got[s] = @ \o SubSeq(r.buf[s], 1, k),
                      !.buf[s] = SubSeq(@, k + 1, Len(@))]
    BY <1>2 DEF Send, q, k, len
  <2>2. /\ q.sent = r.sent /\ q.eof = r.eof /\ q.short = r.short /\ q.read = r.read
        /\ q.closed = r.closed /\ q.heard = r.heard /\ q.signal = r.signal
        /\ q.got = [r.got EXCEPT ![s] = r.got[s] \o SubSeq(r.buf[s], 1, k)]
        /\ q.buf = [r.buf EXCEPT ![s] = SubSeq(r.buf[s], k + 1, len)]
    BY <2>1 DEF Flow, RelayType, len
  <2>3. r.got[s] \in Seq(Nat) /\ r.buf[s] \in Seq(Nat) /\ len \in Nat
    BY DEF Flow, RelayType, len
  <2>4. k \in 0..len /\ (len <= n => k = len)
    BY <2>3 DEF k
  <2>5. /\ SubSeq(r.buf[s], 1, k) \in Seq(Nat) /\ SubSeq(r.buf[s], k + 1, len) \in Seq(Nat)
        /\ (r.got[s] \o SubSeq(r.buf[s], 1, k)) \o SubSeq(r.buf[s], k + 1, len)
             = r.got[s] \o r.buf[s]
    BY <2>3, <2>4, ChunksMoved DEF len
  <2>6. RelayType(q)
    <3>1. r.got[s] \o SubSeq(r.buf[s], 1, k) \in Seq(Nat)
      BY <2>3, <2>5, ConcatProperties
    <3>2. q.got \in [Sides -> Seq(Nat)] /\ q.buf \in [Sides -> Seq(Nat)]
      <4>1. r.got \in [Sides -> Seq(Nat)] /\ r.buf \in [Sides -> Seq(Nat)]
        BY DEF Flow, RelayType
      <4> QED
        BY <2>2, <2>5, <3>1, <4>1
    <3>3. q = [r EXCEPT !.got = q.got, !.buf = q.buf]
      BY <2>1 DEF Flow, RelayType
    <3> QED
      BY <3>2, <3>3 DEF Flow, RelayType
  <2>7. /\ q.got[s] = r.got[s] \o SubSeq(r.buf[s], 1, k) /\ q.got[p] = r.got[p]
        /\ q.buf[s] = SubSeq(r.buf[s], k + 1, len) /\ q.buf[p] = r.buf[p]
    <3>1. DOMAIN r.got = Sides /\ DOMAIN r.buf = Sides
      BY DEF Flow, RelayType
    <3> QED
      BY <1>0, <2>2, <3>1
  <2>8. Bounded(q)
    BY <2>2 DEF Flow, Bounded
  <2>9. InOrder(q)
    <3>1. r.got[s] \o r.buf[s] = Chunks(r.read[p]) /\ r.got[p] \o r.buf[p] = Chunks(r.read[s])
      BY <1>0 DEF Flow, InOrder, p
    <3>2. q.got[s] \o q.buf[s] = Chunks(q.read[p])
      BY <2>2, <2>5, <2>7, <3>1, Zenon
    <3>3. q.got[p] \o q.buf[p] = Chunks(q.read[s])
      BY <2>2, <2>7, <3>1, Zenon
    <3> QED
      BY <1>0, <3>2, <3>3, Zenon DEF InOrder, p
  <2>10. GatewayFirst(q)
    BY <1>0, <2>2, <2>7 DEF Flow, GatewayFirst, p, Sides
  <2>11. len <= n => q.buf[s] = <<>>
    <3>1. k = len => SubSeq(r.buf[s], k + 1, len) = <<>>
      BY <2>3, SubSeqEmpty
    <3> QED
      BY <2>4, <2>7, <3>1
  <2> QED
    BY <1>2, <2>2, <2>6, <2>7, <2>8, <2>9, <2>10, <2>11 DEF Sent, Flow, q, p, len
<1> QED
  BY <1>1, <1>2

\* A round of the loop, if no side had closed before, keeps the flow; and a side
\* it finds closed leaves nothing waiting for the other, unless that was short.
LEMMA RoundFlow ==
  ASSUME NEW out \in SUBSET Pending(relay), NEW n \in [out -> Nat],
         Flow(relay), relay.closed = {},
         \A s \in out : n[s] <= MaxChunks[Peer(s)]
  PROVE  LET r == Round(out, n)
         IN  /\ Flow(r) /\ r.sent = relay.sent /\ r.eof = relay.eof
             /\ \A s \in Sides :
                  r.closed = {s} /\ Peer(s) \notin Short(out, n) =>
                    s \in r.eof /\ r.read[s] = r.sent[s] /\ r.buf[Peer(s)] = <<>>
<1> DEFINE G == "gateway" \in out
           T == "target" \in out
           r1 == Receive(relay, "target")
           r2 == IF G /\ r1.heard THEN Send(r1, "gateway", n["gateway"]) ELSE r1
           r3 == Receive(r2, "gateway")
           r4 == IF T THEN Send(r3, "target", n["target"]) ELSE r3
<1>0. Round(out, n) = r4
  BY DEF Round
<1> HIDE DEF r1, r2, r3, r4
<1> USE DEF G, T
<1>1. /\ "gateway" \in Sides /\ "target" \in Sides /\ Sides = {"gateway", "target"}
      /\ Peer("gateway") = "target" /\ Peer("target") = "gateway"
  BY DEF Sides, Peer
<1>2. (G => n["gateway"] \in Nat) /\ (T => n["target"] \in Nat)
  OBVIOUS
<1>3. /\ Flow(r1)
      /\ r1.sent = relay.sent /\ r1.eof = relay.eof
      /\ r1.buf["target"] = relay.buf["target"] /\ r1.read["gateway"] = relay.read["gateway"]
      /\ relay.heard => r1.heard
      /\ r1.closed # {} =>
           /\ r1.closed = {"target"} /\ "target" \in relay.eof /\ r1.read = relay.read
           /\ r1.buf = relay.buf /\ relay.read["target"] = relay.sent["target"]
  BY <1>1, ReceiveFlow DEF r1
<1>4. /\ Flow(r2)
      /\ r2.sent = r1.sent /\ r2.eof = r1.eof /\ r2.read = r1.read
      /\ r2.buf["target"] = r1.buf["target"]
      /\ G /\ r1.heard /\ n["gateway"] # 0 /\ Len(r1.buf["gateway"]) <= n["gateway"] =>
           r2.buf["gateway"] = <<>>
      /\ (G => n["gateway"] # 0) => r2.closed = r1.closed
      /\ ~G => r2 = r1
  <2>1. CASE G /\ r1.heard
    <3>1. r2 = Send(r1, "gateway", n["gateway"])
      BY <2>1 DEF r2
    <3>2. /\ Flow(r1) /\ "gateway" \in Sides /\ n["gateway"] \in Nat
          /\ r1.heard \/ "gateway" = "target"
      BY <1>1, <1>2, <1>3, <2>1
    <3>3. Sent(r1, "gateway", n["gateway"], r2)
      BY <3>1, <3>2, SendFlow, Zenon
    <3> QED
      BY <1>1, <2>1, <3>3 DEF Sent
  <2>2. CASE ~(G /\ r1.heard)
    BY <1>3, <2>2 DEF r2
  <2> QED
    BY <2>1, <2>2
<1>5. /\ Flow(r3)
      /\ r3.sent = r2.sent /\ r3.eof = r2.eof
      /\ r3.buf["gateway"] = r2.buf["gateway"] /\ r3.read["target"] = r2.read["target"]
      /\ r3.closed # r2.closed =>
           /\ r3.closed = r2.closed \cup {"gateway"} /\ "gateway" \in r2.eof
           /\ r3.read = r2.read /\ r3.buf = r2.buf
           /\ r2.read["gateway"] = r2.sent["gateway"]
  BY <1>1, <1>4, ReceiveFlow DEF r3
<1>6. /\ Flow(r4)
      /\ r4.sent = r3.sent /\ r4.eof = r3.eof /\ r4.read = r3.read
      /\ r4.buf["gateway"] = r3.buf["gateway"]
      /\ T /\ n["target"] # 0 /\ Len(r3.buf["target"]) <= n["target"] =>
           r4.buf["target"] = <<>>
      /\ (T => n["target"] # 0) => r4.closed = r3.closed
      /\ ~T => r4 = r3
  <2>1. CASE T
    <3>1. r4 = Send(r3, "target", n["target"])
      BY <2>1 DEF r4
    <3>2. /\ Flow(r3) /\ "target" \in Sides /\ n["target"] \in Nat
          /\ r3.heard \/ "target" = "target"
      BY <1>1, <1>2, <1>5, <2>1
    <3>3. Sent(r3, "target", n["target"], r4)
      BY <3>1, <3>2, SendFlow, Zenon
    <3> QED
      BY <1>1, <2>1, <3>3 DEF Sent
  <2>2. CASE ~T
    BY <1>5, <2>2 DEF r4
  <2> QED
    BY <2>1, <2>2
<1>7. ASSUME NEW s \in Sides, r4.closed = {s}, Peer(s) \notin Short(out, n)
      PROVE  s \in r4.eof /\ r4.read[s] = r4.sent[s] /\ r4.buf[Peer(s)] = <<>>
  <2>1. /\ Peer(s) \notin Pending(relay) \ out
        /\ Peer(s) \in out => ~(n[Peer(s)] < MaxChunks[Peer(Peer(s))])
        /\ Peer(s) = "gateway" => relay.heard
        /\ \A x \in out : n[x] # 0
    BY <1>1, <1>7 DEF Short
  <2>2. r2.closed = r1.closed /\ r4.closed = r3.closed
    BY <1>4, <1>6, <2>1
  <2>3. CASE s = "gateway"
    <3>1. /\ "gateway" \in r2.eof /\ r3.read = r2.read /\ r3.buf = r2.buf
          /\ r2.read["gateway"] = r2.sent["gateway"]
      BY <1>3, <1>5, <1>7, <2>2, <2>3
    <3>2. r3.buf["target"] = relay.buf["target"]
      BY <1>3, <1>4, <3>1
    <3>3. r4.buf["target"] = <<>>
      <4>1. CASE T
        <5>1. Len(r3.buf["target"]) \in Nat /\ Len(r3.buf["target"]) <= MaxChunks["gateway"]
          BY <1>1, <1>5, WaitingBounded
        <5>2. n["target"] # 0 /\ ~(n["target"] < MaxChunks["gateway"]) /\ MaxChunks["gateway"] \in Nat
          BY <1>1, <2>1, <2>3, <4>1, SessionAssumption
        <5>3. Len(r3.buf["target"]) <= n["target"]
          BY <1>2, <4>1, <5>1, <5>2
        <5> QED
          BY <1>6, <4>1, <5>2, <5>3
      <4>2. CASE ~T
        <5>1. relay.buf["target"] = <<>>
          BY <1>1, <2>1, <2>3, <4>2 DEF Pending
        <5> QED
          BY <1>6, <3>2, <4>2, <5>1
      <4> QED
        BY <4>1, <4>2
    <3> QED
      BY <1>1, <1>5, <1>6, <2>3, <3>1, <3>3
  <2>4. CASE s = "target"
    <3>1. /\ r1.closed # {} /\ r3.closed = r2.closed
      BY <1>3, <1>5, <1>7, <2>2, <2>4
    <3>2. /\ "target" \in relay.eof /\ r1.read = relay.read /\ r1.buf = relay.buf
          /\ relay.read["target"] = relay.sent["target"]
      BY <1>3, <3>1
    <3>3. r4.buf["gateway"] = <<>>
      <4>1. CASE G
        <5>1. Len(r1.buf["gateway"]) \in Nat /\ Len(r1.buf["gateway"]) <= MaxChunks["target"]
          BY <1>1, <1>3, WaitingBounded
        <5>2. n["gateway"] # 0 /\ ~(n["gateway"] < MaxChunks["target"]) /\ MaxChunks["target"] \in Nat
          BY <1>1, <2>1, <2>4, <4>1, SessionAssumption
        <5>3. Len(r1.buf["gateway"]) <= n["gateway"]
          BY <1>2, <4>1, <5>1, <5>2
        <5>4. r1.heard
          BY <1>1, <1>3, <2>1, <2>4
        <5> QED
          BY <1>4, <1>5, <1>6, <4>1, <5>2, <5>3, <5>4
      <4>2. CASE ~G
        <5>1. relay.buf["gateway"] = <<>>
          BY <1>1, <2>1, <2>4, <4>2 DEF Pending
        <5> QED
          BY <1>4, <1>5, <1>6, <3>2, <4>2, <5>1
      <4> QED
        BY <4>1, <4>2
    <3> QED
      BY <1>1, <1>3, <1>4, <1>5, <1>6, <2>4, <3>2, <3>3
  <2> QED
    BY <1>1, <2>3, <2>4
<1> QED
  BY <1>0, <1>3, <1>4, <1>5, <1>6, <1>7

\* A session starts with an empty relay.
LEMMA NoRelayFlow == Flow(NoRelay) /\ Drained(NoRelay)
<1>1. RelayType(NoRelay) /\ GatewayFirst(NoRelay) /\ Drained(NoRelay)
  <2>1. RelayType(NoRelay)
    BY DEF NoRelay, RelayType
  <2>2. GatewayFirst(NoRelay)
    BY DEF NoRelay, GatewayFirst, Sides
  <2>3. NoRelay.closed = {}
    BY DEF NoRelay
  <2> QED
    BY <2>1, <2>2, <2>3 DEF Drained
<1>2. Bounded(NoRelay)
  BY SessionAssumption DEF NoRelay, Bounded, Sides
<1>3. InOrder(NoRelay)
  <2>1. Chunks(0) = <<>> /\ <<>> \o <<>> = <<>>
    BY DEF Chunks
  <2>2. ASSUME NEW s \in Sides
        PROVE  NoRelay.got[s] = <<>> /\ NoRelay.buf[s] = <<>> /\ NoRelay.read[Peer(s)] = 0
    BY Peers DEF NoRelay
  <2> QED
    BY <2>1, <2>2, Zenon DEF InOrder
<1> QED
  BY <1>1, <1>2, <1>3 DEF Flow

\* Chunks a peer sends, and the end of its connection, wait until they are read.
LEMMA RelayPeers ==
  ASSUME RelayInv, NEW s \in Sides, PeerSends(s) \/ PeerCloses(s)
  PROVE  RelayInv'
<1>0. RelayType(relay) /\ Bounded(relay) /\ InOrder(relay) /\ GatewayFirst(relay)
  BY DEF RelayInv, Flow
<1>1. CASE PeerSends(s)
  <2>1. /\ relay' = [relay EXCEPT !.sent[s] = @ + 1]
        /\ s \notin relay.eof /\ relay.sent[s] < MaxChunks[s]
    BY <1>1 DEF PeerSends
  <2>2. /\ relay'.sent = [relay.sent EXCEPT ![s] = @ + 1]
        /\ relay'.read = relay.read /\ relay'.eof = relay.eof /\ relay'.buf = relay.buf
        /\ relay'.got = relay.got /\ relay'.heard = relay.heard
        /\ relay'.closed = relay.closed /\ relay'.short = relay.short
    BY <1>0, <2>1 DEF RelayType
  <2>3. RelayType(relay')
    <3>1. relay'.sent \in [Sides -> Nat]
      BY <1>0, <2>2 DEF RelayType
    <3>2. relay' = [relay EXCEPT !.sent = relay'.sent]
      BY <1>0, <2>1 DEF RelayType
    <3> QED
      BY <1>0, <3>1, <3>2 DEF RelayType
  <2>4. Bounded(relay')
    <3> SUFFICES ASSUME NEW x \in Sides
                 PROVE  relay'.read[x] <= relay'.sent[x] /\ relay'.sent[x] <= MaxChunks[x]
      BY DEF Bounded
    <3>1. /\ relay.read[x] <= relay.sent[x] /\ relay.sent[x] <= MaxChunks[x]
          /\ relay.read[x] \in Nat /\ relay.sent[x] \in Nat /\ MaxChunks[x] \in Nat
      BY <1>0, SessionAssumption DEF Bounded, RelayType, Sides
    <3>2. relay'.sent[x] = IF x = s THEN relay.sent[x] + 1 ELSE relay.sent[x]
      BY <1>0, <2>2 DEF RelayType
    <3> QED
      BY <2>1, <2>2, <3>1, <3>2
  <2>5. InOrder(relay') /\ GatewayFirst(relay')
    BY <1>0, <2>2 DEF InOrder, GatewayFirst
  <2>6. Drained(relay')
    <3> SUFFICES ASSUME NEW x \in Sides, relay'.closed = {x}, Peer(x) \notin relay'.short
                 PROVE  x \in relay'.eof /\ relay'.read[x] = relay'.sent[x]
                          /\ relay'.buf[Peer(x)] = <<>>
      BY DEF Drained
    <3>1. x \in relay.eof /\ relay.read[x] = relay.sent[x] /\ relay.buf[Peer(x)] = <<>>
      BY <2>2 DEF RelayInv, Drained
    <3>2. relay'.sent[x] = relay.sent[x]
      BY <1>0, <2>1, <2>2, <3>1 DEF RelayType
    <3> QED
      BY <2>2, <3>1, <3>2
  <2> QED
    BY <2>3, <2>4, <2>5, <2>6 DEF RelayInv, Flow
<1>2. CASE PeerCloses(s)
  <2>1. relay' = [relay EXCEPT !.eof = @ \cup {s}]
    BY <1>2 DEF PeerCloses
  <2>2. /\ relay'.eof = relay.eof \cup {s} /\ relay'.sent = relay.sent
        /\ relay'.read = relay.read /\ relay'.buf = relay.buf
        /\ relay'.got = relay.got /\ relay'.heard = relay.heard
        /\ relay'.closed = relay.closed /\ relay'.short = relay.short
    BY <1>0, <2>1 DEF RelayType
  <2>3. RelayType(relay')
    BY <1>0, <2>1 DEF RelayType
  <2>4. Bounded(relay') /\ InOrder(relay') /\ GatewayFirst(relay')
    BY <1>0, <2>2 DEF Bounded, InOrder, GatewayFirst
  <2>5. Drained(relay')
    BY <2>2 DEF RelayInv, Drained
  <2> QED
    BY <2>3, <2>4, <2>5 DEF RelayInv, Flow
<1> QED
  BY <1>1, <1>2

\* A round of proxy_session_loop() keeps the relay faithful.
LEMMA RelayRound ==
  ASSUME RelayInv, NEW b \in BOOLEAN, Relayed(b)
  PROVE  RelayInv'
<1>1. PICK out \in SUBSET Pending(relay) :
        \E n \in [out -> UNION {0..MaxChunks[s] : s \in Sides}] :
          /\ \A s \in out : n[s] <= MaxChunks[Peer(s)]
          /\ LET r == Round(out, n)
             IN  relay' = [r EXCEPT !.short = IF r.closed = {} THEN {} ELSE Short(out, n),
                                    !.signal = b]
  BY DEF Relayed
<1>2. PICK n \in [out -> UNION {0..MaxChunks[s] : s \in Sides}] :
        /\ \A s \in out : n[s] <= MaxChunks[Peer(s)]
        /\ relay' = [Round(out, n) EXCEPT
                       !.short = IF Round(out, n).closed = {} THEN {} ELSE Short(out, n),
                       !.signal = b]
  BY <1>1
<1>3. n \in [out -> Nat]
  BY SessionAssumption DEF Sides
<1> DEFINE r == Round(out, n)
           short == IF r.closed = {} THEN {} ELSE Short(out, n)
<1>4. /\ Flow(r) /\ r.sent = relay.sent /\ r.eof = relay.eof
      /\ \A s \in Sides :
           r.closed = {s} /\ Peer(s) \notin Short(out, n) =>
             s \in r.eof /\ r.read[s] = r.sent[s] /\ r.buf[Peer(s)] = <<>>
  <2>1. relay.closed = {}
    BY DEF Relayed
  <2> QED
    BY <1>2, <1>3, <2>1, RoundFlow DEF RelayInv
<1>5. relay' = [r EXCEPT !.short = short, !.signal = b] /\ (r.closed # {} => short = Short(out, n))
  BY <1>2
<1>6. short \in SUBSET Sides
  BY Peers DEF Short, Pending, Sides
<1> HIDE DEF r, short
<1>7. /\ relay'.short = short /\ relay'.sent = r.sent /\ relay'.read = r.read
      /\ relay'.eof = r.eof /\ relay'.buf = r.buf /\ relay'.got = r.got
      /\ relay'.heard = r.heard /\ relay'.closed = r.closed
  BY <1>4, <1>5 DEF Flow, RelayType
<1>8. RelayType(relay')
  BY <1>4, <1>5, <1>6 DEF Flow, RelayType
<1>9. Bounded(relay') /\ InOrder(relay') /\ GatewayFirst(relay')
  BY <1>4, <1>7 DEF Flow, Bounded, InOrder, GatewayFirst
<1>10. Drained(relay')
  <2> SUFFICES ASSUME NEW s \in Sides, relay'.closed = {s}, Peer(s) \notin relay'.short
               PROVE  s \in relay'.eof /\ relay'.read[s] = relay'.sent[s]
                        /\ relay'.buf[Peer(s)] = <<>>
    BY DEF Drained
  <2>1. r.closed = {s} /\ Peer(s) \notin Short(out, n)
    BY <1>5, <1>7
  <2> QED
    BY <1>4, <1>7, <2>1
<1> QED
  BY <1>8, <1>9, <1>10 DEF RelayInv, Flow

\* Every step of the daemon and of a session keeps the relay's invariant.
LEMMA RelayStep == RelayInv /\ [Next]_vars => RelayInv'
<1> SUFFICES ASSUME RelayInv, [Next]_vars PROVE RelayInv'
  OBVIOUS
<1>1. CASE UNCHANGED relay
  BY <1>1 DEF RelayInv
<1>2. CASE phase' = "forked" /\ Fresh
  BY <1>2, NoRelayFlow DEF Fresh, RelayInv
<1>3. CASE relay' = [relay EXCEPT !.signal = TRUE]
  <2>1. /\ relay'.eof = relay.eof /\ relay'.sent = relay.sent
        /\ relay'.read = relay.read /\ relay'.buf = relay.buf
        /\ relay'.got = relay.got /\ relay'.heard = relay.heard
        /\ relay'.closed = relay.closed /\ relay'.short = relay.short
    BY <1>3 DEF RelayInv, Flow, RelayType
  <2>2. RelayType(relay')
    BY <1>3 DEF RelayInv, Flow, RelayType
  <2>3. Bounded(relay') /\ InOrder(relay') /\ GatewayFirst(relay') /\ Drained(relay')
    BY <2>1 DEF RelayInv, Flow, Bounded, InOrder, GatewayFirst, Drained
  <2> QED
    BY <2>2, <2>3 DEF RelayInv, Flow
<1>4. CASE SessionStep
  <2>1. \/ UNCHANGED relay \/ (\E b \in BOOLEAN : Relayed(b)) \/ relay' = [relay EXCEPT !.signal = TRUE]
        \/ \E s \in Sides : PeerSends(s) \/ PeerCloses(s)
    BY <1>4 DEF SessionStep, SessionRuns, ForgetMonitor, KeyExchange, AuthWindow, NoMessage,
                ProbeWithoutAddress, ConnectAddress, NoAddressLeft, Poll, Idle, TenSeconds, Signal,
                SendBlocks, SendReturns, AuthRequest
  <2> QED
    BY <1>1, <1>3, <2>1, RelayRound, RelayPeers
<1> QED
  BY <1>1, <1>2, <1>4
     DEF Next, susshi_proxyd_main, MasterTest, Accept, MasterWoken, Sighup, Sigterm, MonitorLoop, vars

\* The relay between gateway and target loses and reorders nothing, the gateway
\* gets nothing before it spoke, and when one side closes the other has got
\* everything, for any amount of data on either side.
THEOREM RelayIsFaithful == Spec => []RelayFaithful
<1>1. Init => RelayInv
  BY NoRelayFlow DEF Init, RelayInv
<1>2. RelayInv => RelayFaithful
  <2> SUFFICES ASSUME RelayInv PROVE RelayFaithful
    OBVIOUS
  <2>1. RelayInOrder
    BY Zenon DEF RelayInv, Flow, InOrder, GatewayFirst, RelayInOrder, Chunks
  <2>2. ASSUME NEW s \in Sides, relay.closed = {s}, Peer(s) \notin relay.short
        PROVE  relay.got[Peer(s)] = [i \in 1..relay.sent[s] |-> i]
    <3>1. relay.read[s] = relay.sent[s] /\ relay.buf[Peer(s)] = <<>>
      BY <2>2 DEF RelayInv, Drained
    <3>2. Peer(s) \in Sides /\ Peer(Peer(s)) = s
      BY Peers
    <3>3. relay.got[Peer(s)] \o relay.buf[Peer(s)] = Chunks(relay.read[s])
      BY <3>2 DEF RelayInv, Flow, InOrder
    <3>4. relay.got[Peer(s)] \in Seq(Nat)
      BY <3>2 DEF RelayInv, Flow, RelayType
    <3>5. relay.got[Peer(s)] \o <<>> = relay.got[Peer(s)]
      BY <3>4, ConcatEmptySeq
    <3> QED
      BY <3>1, <3>3, <3>5, Zenon DEF Chunks
  <2> QED
    BY <2>1, <2>2 DEF RelayFaithful, ClosedDrained
<1> QED
  BY <1>1, <1>2, RelayStep, PTL DEF Spec

=============================================================================
