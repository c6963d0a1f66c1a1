----------------------------- MODULE ChannelProofs -----------------------------
(***************************************************************************)
(* Proofs about the inspection of a session's channels and about the login *)
(* in public key agent mode, whose channel the session starts with.        *)
(***************************************************************************)
EXTENDS PubkeyAgent, Channels, FiniteSetTheorems, SequenceTheorems, WellFoundedInduction, TLAPS

(***************************************************************************)
(* The channels of a session.                                              *)
(***************************************************************************)

\* The packets on a wire.
PacketTypes == {"OPEN", "CONFIRM", "OPENFAIL", "DATA", "REQUEST", "WINDOW", "EOF",
                "SUCCESS", "FAILURE", "CLOSE", "GLOBAL", "GSUCCESS", "GFAILURE"}
Kinds == {"", "answer", "rejected", "replayed", "port"} \cup OpenKinds
           \cup {p[3] : p \in Sends} \cup {g[2] : g \in Globals}
GlobalTypes == {"GLOBAL", "GSUCCESS", "GFAILURE"}
Packets ==
  {p \in [type : PacketTypes, to : Int, from : Int, conv : 0 .. MaxOpens, kind : Kinds,
           want : BOOLEAN] : p.conv = 0 <=> p.type \in GlobalTypes}

\* What a table, the peers and a wire hold of conversation v.
Slots(ch, v) == {i \in Cids : ch[i] # FreeSlot /\ ch[i].conv = v}
Ends(e, x, v) == {n \in Nums : e[x][n].conv = v}
Of(w, v) == {w[i] : i \in {j \in 1 .. Len(w) : w[j].conv = v}}

\* The number of x's own end of a channel, and the one the gateway is given for
\* it by the other side.
OwnNum(c, x) == IF c.requestor = x THEN c.requestorCh ELSE c.providerCh
NumAt(c, x) == IF c.requestor = x THEN RequestorNum(c) ELSE ProviderNum(c)

Talk == {"DATA", "REQUEST", "WINDOW", "EOF", "SUCCESS", "FAILURE"}

\* No end, no entry and no packet: not yet opened, or over.
Free(ch, e, w, v) ==
  /\ Slots(ch, v) = {}
  /\ \A x \in Side : Ends(e, x, v) = {} /\ Of(w[x], v) = {}

\* x waits for the answer to its OPEN.
Waits(e, x, n, v) ==
  /\ Ends(e, x, v) = {n}
  /\ e[x][n].own /\ ~e[x][n].sent /\ ~e[x][n].got /\ e[x][n].remote = None

\* The OPEN has not been processed yet.
Asked(ch, e, w, v, x, n) ==
  /\ Slots(ch, v) = {}
  /\ Waits(e, x, n, v)
  /\ Ends(e, TheOtherSide(x), v) = {} /\ Of(w[TheOtherSide(x)], v) = {}
  /\ Of(w[x], v) # {}
  /\ \A p \in Of(w[x], v) : p.type = "OPEN" /\ p.from = n

\* The entry i of an OPEN that was not answered yet.
Pending(ch, e, w, v, x, n, i) ==
  /\ Slots(ch, v) = {i}
  /\ ch[i].requestor = x /\ ch[i].requestorCh = n /\ ch[i].providerCh = None
  /\ ch[i].state = "OPEN" /\ ~ch[i].proxied
  /\ Waits(e, x, n, v)
  /\ Of(w[x], v) = {}

Refused(ch, e, w, v, x, n, i) ==
  /\ Pending(ch, e, w, v, x, n, i)
  /\ Ends(e, TheOtherSide(x), v) = {}
  /\ Of(w[TheOtherSide(x)], v) # {}
  /\ \A p \in Of(w[TheOtherSide(x)], v) : p.type = "OPENFAIL" /\ p.to = n

\* x closed its end: its CLOSE is under way.
HasClose(w, x, v) == \E p \in Of(w[x], v) : p.type = "CLOSE"

Accepted(ch, e, w, v, x, n, i, k) ==
  LET y == TheOtherSide(x) IN
  /\ Pending(ch, e, w, v, x, n, i)
  /\ Ends(e, y, v) = {k}
  /\ ~e[y][k].own /\ ~e[y][k].got /\ e[y][k].remote = n
  /\ e[y][k].sent <=> HasClose(w, y, v)
  /\ \E p \in Of(w[y], v) : p.type = "CONFIRM"
  /\ \A p \in Of(w[y], v) :
       /\ p.to = n
       /\ p.type \in Talk \cup {"CONFIRM", "CLOSE"}
       /\ p.type = "CONFIRM" => p.from = k

\* What x says on an open channel.
Line(w, v, c, x) ==
  \A p \in Of(w[x], v) :
    /\ p.to = NumAt(c, TheOtherSide(x))
    /\ p.type \in Talk \cup {"CLOSE"}

End(e, v, c, x) ==
  /\ Ends(e, x, v) = {OwnNum(c, x)}
  /\ e[x][OwnNum(c, x)].own <=> c.requestor = x
  /\ e[x][OwnNum(c, x)].remote = NumAt(c, TheOtherSide(x))

InUse(e, w, v, c, x) ==
  /\ End(e, v, c, x) /\ Line(w, v, c, x)
  /\ ~e[x][OwnNum(c, x)].got
  /\ e[x][OwnNum(c, x)].sent <=> HasClose(w, x, v)

ClosedFirst(e, w, v, c, x) ==
  /\ End(e, v, c, x)
  /\ e[x][OwnNum(c, x)].sent /\ ~e[x][OwnNum(c, x)].got
  /\ Of(w[x], v) = {}

ClosesNext(e, w, v, c, x) ==
  /\ Line(w, v, c, x)
  /\ \/ /\ End(e, v, c, x)
        /\ e[x][OwnNum(c, x)].got /\ ~e[x][OwnNum(c, x)].sent
        /\ ~HasClose(w, x, v)
     \/ Ends(e, x, v) = {} /\ HasClose(w, x, v)

Up(ch, e, w, v, i) ==
  /\ Slots(ch, v) = {i}
  /\ ch[i].state = "CONFIRMED" /\ ch[i].providerCh \in Nums
  /\ \A x \in Side : InUse(e, w, v, ch[i], x)

Half(ch, e, w, v, i, x) ==
  /\ Slots(ch, v) = {i}
  /\ ch[i].state = "CLOSE" /\ ch[i].providerCh \in Nums
  /\ ClosedFirst(e, w, v, ch[i], x) /\ ClosesNext(e, w, v, ch[i], TheOtherSide(x))

Conversation(ch, e, w, v) ==
  \/ Free(ch, e, w, v)
  \/ \E x \in Side, n \in Nums : Asked(ch, e, w, v, x, n)
  \/ \E x \in Side, n \in Nums, i \in Cids : Refused(ch, e, w, v, x, n, i)
  \/ \E x \in Side, n \in Nums, i \in Cids, k \in Nums : Accepted(ch, e, w, v, x, n, i, k)
  \/ \E i \in Cids : Up(ch, e, w, v, i)
  \/ \E i \in Cids, x \in Side : Half(ch, e, w, v, i, x)

\* Behind a CLOSE nothing follows, and an OPEN or its answer follows nothing.
Starts == {"OPEN", "CONFIRM", "OPENFAIL"}
InOrder(w) ==
  \A i, j \in 1 .. Len(w) :
    i < j /\ w[i].conv = w[j].conv /\ w[i].conv # 0 =>
      w[i].type # "CLOSE" /\ w[j].type \notin Starts

\* A number is given again only behind the CLOSE of its former channel.
Behind(ch, w, x) ==
  \A i \in Cids, j \in 1 .. Len(w[x]) :
    ch[i] # FreeSlot /\ w[x][j].type \in {"OPEN", "CONFIRM"}
      /\ w[x][j].from = OwnNum(ch[i], x) /\ w[x][j].conv # ch[i].conv =>
        \E l \in 1 .. (j - 1) : w[x][l].conv = ch[i].conv /\ w[x][l].type = "CLOSE"

\* An entry is known by its numbers.
Apart(ch) ==
  \A i, j \in Cids, x \in Side :
    ch[i] # FreeSlot /\ ch[j] # FreeSlot /\ OwnNum(ch[i], x) = OwnNum(ch[j], x)
      /\ OwnNum(ch[i], x) # None => i = j

Proxied(ch) ==
  \A i \in Cids : ch[i] # FreeSlot /\ ch[i].proxied =>
    ch[i].requestor = CLIENT /\ ch[i].conv = 1 /\ ch[i].state # "OPEN"

\* A pending environment belongs to a session that is not confirmed yet.
EnvPending ==
  flags.sendShellEnv => flags.refused \/
    \E i \in Cids : /\ channels[i] # FreeSlot
                    /\ channels[i].kind = "session" /\ channels[i].state = "OPEN"

\* The state, with queues of any length.
Peers == [conv : Cids, own : BOOLEAN, sent : BOOLEAN, got : BOOLEAN, remote : Int,
          awaits : Nat]
ChannelsTyped ==
  /\ channels \in [Cids -> Channel \cup {FreeSlot}]
  /\ ep \in [Side -> [Nums -> Peers \cup {NoEndpoint}]]
  /\ wire \in [Side -> Seq(Packets)]
  /\ flags \in [noMoreSessions : BOOLEAN, sendShellEnv : BOOLEAN,
                replayPhase : BOOLEAN, refused : BOOLEAN]
  /\ used \in [opens : 0 .. MaxOpens, sends : Nat]
  /\ awaits \in [Side -> Nat]
  /\ seen = [misrouted |-> seen.misrouted, unasked |-> seen.unasked, env |-> seen.env]

----------------------------------------------------------------------------

\* Each side is the other of its other.
LEMMA TwoSides ==
  ASSUME NEW s \in Side
  PROVE  /\ TheOtherSide(s) \in Side /\ TheOtherSide(s) # s
         /\ TheOtherSide(TheOtherSide(s)) = s
         /\ \A x \in Side : x = s \/ x = TheOtherSide(s)
BY DEF Side, TheOtherSide, CLIENT, TARGET

\* What a packet that is sent adds to its conversation.
LEMMA OfPush ==
  ASSUME NEW w \in Seq(Packets), NEW p \in Packets, NEW v
  PROVE  /\ Append(w, p) \in Seq(Packets)
         /\ p.conv = v => Of(Append(w, p), v) = Of(w, v) \cup {p}
         /\ p.conv # v => Of(Append(w, p), v) = Of(w, v)
<1>1. /\ Append(w, p) \in Seq(Packets) /\ Len(w) \in Nat /\ Len(Append(w, p)) = Len(w) + 1
      /\ \A i \in 1 .. Len(w) : Append(w, p)[i] = w[i]
      /\ Append(w, p)[Len(w) + 1] = p
  OBVIOUS
<1>2. \A q \in Of(w, v) : q \in Of(Append(w, p), v)
  <2> SUFFICES ASSUME NEW i \in 1 .. Len(w), w[i].conv = v PROVE w[i] \in Of(Append(w, p), v)
    BY DEF Of
  <2> QED BY <1>1 DEF Of
<1>3. p.conv = v => p \in Of(Append(w, p), v)
  BY <1>1 DEF Of
<1>4. \A q \in Of(Append(w, p), v) : q \in Of(w, v) \/ (q = p /\ p.conv = v)
  <2> SUFFICES ASSUME NEW i \in 1 .. Len(Append(w, p)), Append(w, p)[i].conv = v
               PROVE  Append(w, p)[i] \in Of(w, v) \/ (Append(w, p)[i] = p /\ p.conv = v)
    BY DEF Of
  <2>1. CASE i \in 1 .. Len(w)
    BY <2>1, <1>1 DEF Of
  <2>2. CASE i = Len(w) + 1
    BY <2>2, <1>1
  <2> QED BY <2>1, <2>2, <1>1
<1> QED BY <1>1, <1>2, <1>3, <1>4

\* What is left of a conversation when the first packet is taken.
LEMMA OfPop ==
  ASSUME NEW w \in Seq(Packets), w # <<>>
  PROVE  /\ Tail(w) \in Seq(Packets) /\ Head(w) \in Packets
         /\ Head(w) \in Of(w, Head(w).conv)
         /\ \A v : /\ Of(Tail(w), v) \subseteq Of(w, v)
                   /\ Of(w, v) \subseteq Of(Tail(w), v) \cup {Head(w)}
                   /\ v # Head(w).conv => Of(Tail(w), v) = Of(w, v)
<1>1. /\ Tail(w) \in Seq(Packets) /\ Head(w) \in Packets /\ Head(w) = w[1]
      /\ Len(w) \in Nat /\ Len(w) >= 1 /\ Len(Tail(w)) = Len(w) - 1
      /\ \A i \in 1 .. Len(Tail(w)) : Tail(w)[i] = w[i + 1]
  OBVIOUS
<1>2. Head(w) \in Of(w, Head(w).conv)
  BY <1>1 DEF Of
<1>3. ASSUME NEW v PROVE Of(Tail(w), v) \subseteq Of(w, v)
  <2> SUFFICES ASSUME NEW i \in 1 .. Len(Tail(w)), Tail(w)[i].conv = v
               PROVE  Tail(w)[i] \in Of(w, v)
    BY DEF Of
  <2>1. i + 1 \in 1 .. Len(w) /\ w[i + 1].conv = v
    BY <1>1
  <2> QED BY <2>1, <1>1 DEF Of
<1>4. ASSUME NEW v
      PROVE  \A q \in Of(w, v) : q \in Of(Tail(w), v) \/ (q = Head(w) /\ Head(w).conv = v)
  <2> SUFFICES ASSUME NEW i \in 1 .. Len(w), w[i].conv = v
               PROVE  w[i] \in Of(Tail(w), v) \/ (w[i] = Head(w) /\ Head(w).conv = v)
    BY DEF Of
  <2>1. CASE i = 1
    BY <2>1, <1>1
  <2>2. CASE i # 1
    <3>1. i - 1 \in 1 .. Len(Tail(w)) /\ Tail(w)[i - 1] = w[i]
      BY <2>2, <1>1
    <3> QED BY <3>1 DEF Of
  <2> QED BY <2>1, <2>2
<1>5. ASSUME NEW v
      PROVE  /\ Of(Tail(w), v) \subseteq Of(w, v)
             /\ Of(w, v) \subseteq Of(Tail(w), v) \cup {Head(w)}
             /\ v # Head(w).conv => Of(Tail(w), v) = Of(w, v)
  <2>1. Of(Tail(w), v) \subseteq Of(w, v)
    BY <1>3
  <2>2. \A q \in Of(w, v) : q \in Of(Tail(w), v) \/ (q = Head(w) /\ Head(w).conv = v)
    BY <1>4
  <2> QED BY <2>1, <2>2
<1> QED BY <1>1, <1>2, <1>5

\* The order of a conversation tells what its first packet is, and what is
\* behind it.
LEMMA FirstOf ==
  ASSUME NEW w \in Seq(Packets), w # <<>>, InOrder(w), Head(w).conv # 0
  PROVE  LET v == Head(w).conv IN
         /\ Head(w).type = "CLOSE" => Of(Tail(w), v) = {}
         /\ \A q \in Of(Tail(w), v) : q.type \notin Starts
         /\ \A q \in Of(w, v) : q.type \in Starts => q = Head(w)
<1> DEFINE v == Head(w).conv
<1>1. /\ Head(w) = w[1] /\ Len(w) \in Nat /\ Len(w) >= 1 /\ Len(Tail(w)) = Len(w) - 1
      /\ \A i \in 1 .. Len(Tail(w)) : Tail(w)[i] = w[i + 1]
  OBVIOUS
<1>2. \A j \in 2 .. Len(w) : w[j].conv = v => Head(w).type # "CLOSE" /\ w[j].type \notin Starts
  BY <1>1 DEF InOrder
<1>3. \A q \in Of(Tail(w), v) : Head(w).type # "CLOSE" /\ q.type \notin Starts
  <2> SUFFICES ASSUME NEW i \in 1 .. Len(Tail(w)), Tail(w)[i].conv = v
               PROVE  Head(w).type # "CLOSE" /\ Tail(w)[i].type \notin Starts
    BY DEF Of
  <2> QED BY <1>1, <1>2
<1>4. \A q \in Of(w, v) : q.type \in Starts => q = Head(w)
  BY <1>1, <1>2 DEF Of
<1> QED BY <1>3, <1>4

\* The order is kept when a packet is taken, and when one is sent that may
\* follow those under way.
LEMMA OrderPop ==
  ASSUME NEW w \in Seq(Packets), w # <<>>, InOrder(w)
  PROVE  InOrder(Tail(w))
<1>1. /\ Len(w) \in Nat /\ Len(w) >= 1 /\ Len(Tail(w)) = Len(w) - 1
      /\ \A i \in 1 .. Len(Tail(w)) : Tail(w)[i] = w[i + 1]
  OBVIOUS
<1> QED BY <1>1 DEF InOrder

\* A packet is sent that may follow those of its conversation.
LEMMA OrderPush ==
  ASSUME NEW w \in Seq(Packets), NEW p \in Packets, InOrder(w),
         p.conv # 0 => /\ \A q \in Of(w, p.conv) : q.type # "CLOSE"
                       /\ p.type \in Starts => Of(w, p.conv) = {}
  PROVE  InOrder(Append(w, p))
<1>1. /\ Len(w) \in Nat /\ Len(Append(w, p)) = Len(w) + 1
      /\ \A i \in 1 .. Len(w) : Append(w, p)[i] = w[i]
      /\ Append(w, p)[Len(w) + 1] = p
  OBVIOUS
<1>2. \A i \in 1 .. Len(w) : w[i].conv = p.conv /\ p.conv # 0 =>
        w[i].type # "CLOSE" /\ p.type \notin Starts
  BY DEF Of
<1> QED BY <1>1, <1>2 DEF InOrder

\* A step that leaves a conversation where it is: the fields of its entry and
\* of its ends that matter are unchanged, and on the wire there is more or less
\* of what peers say on a channel they have not closed.
SameEntry(a, b) ==
  /\ b.requestor = a.requestor /\ b.requestorCh = a.requestorCh
  /\ b.providerCh = a.providerCh /\ b.proxied = a.proxied /\ b.state = a.state
SameEnd(a, b) ==
  (b.own <=> a.own) /\ (b.sent <=> a.sent) /\ (b.got <=> a.got) /\ b.remote = a.remote
MaySay(e, x, v, p) ==
  /\ p.type \in Talk
  /\ \E n \in Ends(e, x, v) :
       ~e[x][n].sent /\ e[x][n].remote # None /\ p.to = e[x][n].remote
Continues(ch, e, w, ch2, e2, w2, v) ==
  /\ Slots(ch2, v) = Slots(ch, v)
  /\ \A i \in Slots(ch, v) : SameEntry(ch[i], ch2[i])
  /\ \A x \in Side :
       /\ Ends(e2, x, v) = Ends(e, x, v)
       /\ \A n \in Ends(e, x, v) : SameEnd(e[x][n], e2[x][n])
       /\ \A p \in Of(w2[x], v) : p \in Of(w[x], v) \/ MaySay(e, x, v, p)
       /\ \A p \in Of(w[x], v) : p \in Of(w2[x], v) \/ p.type \in Talk

\* Equal entries have equal numbers.
LEMMA SameNumbers ==
  ASSUME NEW a, NEW b, SameEntry(a, b), NEW x
  PROVE  OwnNum(b, x) = OwnNum(a, x) /\ NumAt(b, x) = NumAt(a, x)
BY DEF SameEntry, OwnNum, NumAt, RequestorNum, ProviderNum

\* Nothing of a conversation stays nothing.
LEMMA FreeContinues ==
  ASSUME NEW ch, NEW e, NEW w, NEW ch2, NEW e2, NEW w2, NEW v,
         Continues(ch, e, w, ch2, e2, w2, v), Free(ch, e, w, v)
  PROVE  Free(ch2, e2, w2, v)
<1>1. \A x \in Side : Ends(e2, x, v) = {} /\ Of(w2[x], v) = {}
  BY DEF Continues, Free, MaySay
<1> QED BY <1>1 DEF Continues, Free

\* A peer that waits for the answer to its OPEN says nothing.
LEMMA WaitsContinues ==
  ASSUME NEW ch, NEW e, NEW w, NEW ch2, NEW e2, NEW w2, NEW v, NEW x \in Side, NEW n,
         Continues(ch, e, w, ch2, e2, w2, v), Waits(e, x, n, v)
  PROVE  Waits(e2, x, n, v) /\ \A p \in Of(w2[x], v) : p \in Of(w[x], v)
<1>1. Ends(e2, x, v) = {n} /\ SameEnd(e[x][n], e2[x][n])
  BY DEF Continues, Waits
<1>2. \A p : ~MaySay(e, x, v, p)
  BY DEF MaySay, Waits
<1> QED BY <1>1, <1>2 DEF Continues, Waits, SameEnd

\* An OPEN that was not processed stays the only packet of its conversation.
LEMMA AskedContinues ==
  ASSUME NEW ch, NEW e, NEW w, NEW ch2, NEW e2, NEW w2, NEW v, NEW x \in Side, NEW n,
         Continues(ch, e, w, ch2, e2, w2, v), Asked(ch, e, w, v, x, n)
  PROVE  Asked(ch2, e2, w2, v, x, n)
<1>1. Waits(e2, x, n, v) /\ \A p \in Of(w2[x], v) : p \in Of(w[x], v)
  BY WaitsContinues DEF Asked
<1>2. /\ Ends(e2, TheOtherSide(x), v) = {} /\ Of(w2[TheOtherSide(x)], v) = {}
  BY TwoSides DEF Continues, Asked, MaySay
<1>3. \A p \in Of(w[x], v) : p \in Of(w2[x], v)
  BY DEF Continues, Asked, Talk
<1> QED BY <1>1, <1>2, <1>3 DEF Asked, Continues

\* The entry of an unanswered OPEN stays what it is.
LEMMA PendingContinues ==
  ASSUME NEW ch, NEW e, NEW w, NEW ch2, NEW e2, NEW w2, NEW v, NEW x \in Side, NEW n, NEW i,
         Continues(ch, e, w, ch2, e2, w2, v), Pending(ch, e, w, v, x, n, i)
  PROVE  Pending(ch2, e2, w2, v, x, n, i)
<1>1. Waits(e2, x, n, v) /\ \A p \in Of(w2[x], v) : p \in Of(w[x], v)
  <2>1. Waits(e, x, n, v)
    BY DEF Pending
  <2> QED BY <2>1, WaitsContinues
<1> QED BY <1>1 DEF Pending, Continues, SameEntry

\* A refusal stays under way.
LEMMA RefusedContinues ==
  ASSUME NEW ch, NEW e, NEW w, NEW ch2, NEW e2, NEW w2, NEW v, NEW x \in Side, NEW n, NEW i,
         Continues(ch, e, w, ch2, e2, w2, v), Refused(ch, e, w, v, x, n, i)
  PROVE  Refused(ch2, e2, w2, v, x, n, i)
<1>1. Pending(ch2, e2, w2, v, x, n, i)
  BY PendingContinues DEF Refused
<1>2. Ends(e2, TheOtherSide(x), v) = {}
  BY TwoSides DEF Continues, Refused
<1>3. \A p \in Of(w[TheOtherSide(x)], v) : p \in Of(w2[TheOtherSide(x)], v)
  BY TwoSides DEF Continues, Refused, Talk
<1>4. \A p \in Of(w2[TheOtherSide(x)], v) : p \in Of(w[TheOtherSide(x)], v)
  BY TwoSides DEF Continues, Refused, MaySay
<1> QED BY <1>1, <1>2, <1>3, <1>4 DEF Refused

\* The provider may say more behind its confirmation.
LEMMA AcceptedContinues ==
  ASSUME NEW ch, NEW e, NEW w, NEW ch2, NEW e2, NEW w2, NEW v, NEW x \in Side, NEW n, NEW i,
         NEW k, Continues(ch, e, w, ch2, e2, w2, v), Accepted(ch, e, w, v, x, n, i, k)
  PROVE  Accepted(ch2, e2, w2, v, x, n, i, k)
<1> DEFINE y == TheOtherSide(x)
<1>0. y \in Side
  BY TwoSides
<1>1. Pending(ch2, e2, w2, v, x, n, i)
  BY PendingContinues DEF Accepted
<1>2. Ends(e2, y, v) = {k} /\ SameEnd(e[y][k], e2[y][k])
  BY <1>0 DEF Continues, Accepted
<1>3. \A p \in Of(w2[y], v) :
        p \in Of(w[y], v) \/ (p.type \in Talk /\ p.to = n)
  BY <1>0 DEF Continues, Accepted, MaySay
<1>4. \A p \in Of(w[y], v) : p.type \in {"CONFIRM", "CLOSE"} => p \in Of(w2[y], v)
  BY <1>0 DEF Continues, Talk
<1>5. HasClose(w2, y, v) <=> HasClose(w, y, v)
  BY <1>3, <1>4 DEF HasClose, Talk
<1>6. \E p \in Of(w2[y], v) : p.type = "CONFIRM"
  BY <1>4 DEF Accepted
<1>7. \A p \in Of(w2[y], v) :
       /\ p.to = n
       /\ p.type \in Talk \cup {"CONFIRM", "CLOSE"}
       /\ p.type = "CONFIRM" => p.from = k
  BY <1>3 DEF Accepted, Talk
<1> QED BY <1>1, <1>2, <1>5, <1>6, <1>7 DEF Accepted, SameEnd

\* What is said on an open channel, in the same way.
LEMMA LineContinues ==
  ASSUME NEW ch, NEW e, NEW w, NEW ch2, NEW e2, NEW w2, NEW v, NEW x \in Side, NEW i,
         Continues(ch, e, w, ch2, e2, w2, v), Slots(ch, v) = {i},
         Line(w, v, ch[i], x), End(e, v, ch[i], x) \/ Ends(e, x, v) = {}
  PROVE  /\ Line(w2, v, ch2[i], x)
         /\ End(e, v, ch[i], x) =>
              /\ End(e2, v, ch2[i], x)
              /\ SameEnd(e[x][OwnNum(ch[i], x)], e2[x][OwnNum(ch2[i], x)])
         /\ HasClose(w2, x, v) <=> HasClose(w, x, v)
<1>1. /\ SameEntry(ch[i], ch2[i])
      /\ \A z : OwnNum(ch2[i], z) = OwnNum(ch[i], z) /\ NumAt(ch2[i], z) = NumAt(ch[i], z)
      /\ ch2[i].requestor = ch[i].requestor
  BY SameNumbers DEF Continues, SameEntry
<1>2. \A p \in Of(w2[x], v) : p \in Of(w[x], v) \/ MaySay(e, x, v, p)
  BY DEF Continues
<1>3. \A p : MaySay(e, x, v, p) =>
        p.to = NumAt(ch[i], TheOtherSide(x)) /\ p.type \in Talk
  BY DEF MaySay, End
<1>4. Line(w2, v, ch2[i], x)
  BY <1>1, <1>2, <1>3 DEF Line
<1>5. \A p \in Of(w[x], v) : p.type = "CLOSE" => p \in Of(w2[x], v)
  BY DEF Continues, Talk
<1>6. HasClose(w2, x, v) <=> HasClose(w, x, v)
  BY <1>2, <1>3, <1>5 DEF HasClose, Talk
<1>7. ASSUME End(e, v, ch[i], x)
      PROVE  /\ End(e2, v, ch2[i], x)
             /\ SameEnd(e[x][OwnNum(ch[i], x)], e2[x][OwnNum(ch2[i], x)])
  <2>1. /\ Ends(e2, x, v) = {OwnNum(ch[i], x)}
        /\ SameEnd(e[x][OwnNum(ch[i], x)], e2[x][OwnNum(ch[i], x)])
    BY <1>7 DEF Continues, End
  <2> QED BY <2>1, <1>1, <1>7 DEF End, SameEnd
<1> QED BY <1>4, <1>6, <1>7

\* A channel both peers use stays in use.
LEMMA UpContinues ==
  ASSUME NEW ch, NEW e, NEW w, NEW ch2, NEW e2, NEW w2, NEW v, NEW i,
         Continues(ch, e, w, ch2, e2, w2, v), Up(ch, e, w, v, i)
  PROVE  Up(ch2, e2, w2, v, i)
<1>1. Slots(ch2, v) = {i} /\ SameEntry(ch[i], ch2[i]) /\ Slots(ch, v) = {i}
  BY DEF Continues, Up
<1>2. ASSUME NEW x \in Side PROVE InUse(e2, w2, v, ch2[i], x)
  <2>1. InUse(e, w, v, ch[i], x)
    BY DEF Up
  <2>2. /\ Line(w2, v, ch2[i], x) /\ End(e2, v, ch2[i], x)
        /\ SameEnd(e[x][OwnNum(ch[i], x)], e2[x][OwnNum(ch2[i], x)])
        /\ HasClose(w2, x, v) <=> HasClose(w, x, v)
    BY <1>1, <2>1, LineContinues DEF InUse
  <2> QED BY <2>1, <2>2 DEF InUse, SameEnd
<1> QED BY <1>1, <1>2 DEF Up, SameEntry

\* A channel closed from one side stays so.
LEMMA HalfContinues ==
  ASSUME NEW ch, NEW e, NEW w, NEW ch2, NEW e2, NEW w2, NEW v, NEW i, NEW x \in Side,
         Continues(ch, e, w, ch2, e2, w2, v), Half(ch, e, w, v, i, x)
  PROVE  Half(ch2, e2, w2, v, i, x)
<1> DEFINE y == TheOtherSide(x)
<1>0. y \in Side
  BY TwoSides
<1>1. Slots(ch2, v) = {i} /\ SameEntry(ch[i], ch2[i]) /\ Slots(ch, v) = {i}
  BY DEF Continues, Half
<1>2. ClosedFirst(e2, w2, v, ch2[i], x)
  <2>1. Line(w, v, ch[i], x) /\ End(e, v, ch[i], x)
    BY DEF Half, ClosedFirst, Line
  <2>2. /\ End(e2, v, ch2[i], x)
        /\ SameEnd(e[x][OwnNum(ch[i], x)], e2[x][OwnNum(ch2[i], x)])
    BY <1>1, <2>1, LineContinues
  <2>3. \A p : ~MaySay(e, x, v, p)
    BY DEF MaySay, Half, ClosedFirst, End
  <2>4. Of(w2[x], v) = {}
    BY <2>3 DEF Continues, Half, ClosedFirst
  <2> QED BY <2>2, <2>4 DEF Half, ClosedFirst, SameEnd
<1>3. ClosesNext(e2, w2, v, ch2[i], y)
  <2>1. Line(w, v, ch[i], y) /\ (End(e, v, ch[i], y) \/ Ends(e, y, v) = {})
    BY DEF Half, ClosesNext
  <2>2. /\ Line(w2, v, ch2[i], y)
        /\ End(e, v, ch[i], y) =>
             /\ End(e2, v, ch2[i], y)
             /\ SameEnd(e[y][OwnNum(ch[i], y)], e2[y][OwnNum(ch2[i], y)])
        /\ HasClose(w2, y, v) <=> HasClose(w, y, v)
    BY <1>0, <1>1, <2>1, LineContinues
  <2>3. Ends(e2, y, v) = Ends(e, y, v)
    BY <1>0 DEF Continues
  <2> QED BY <2>2, <2>3 DEF Half, ClosesNext, SameEnd
<1> QED BY <1>1, <1>2, <1>3 DEF Half, SameEntry

\* So the conversation is where it was.
LEMMA Continued ==
  ASSUME NEW ch, NEW e, NEW w, NEW ch2, NEW e2, NEW w2, NEW v,
         Continues(ch, e, w, ch2, e2, w2, v), Conversation(ch, e, w, v)
  PROVE  Conversation(ch2, e2, w2, v)
BY FreeContinues, AskedContinues, RefusedContinues, AcceptedContinues, UpContinues,
   HalfContinues DEF Conversation

----------------------------------------------------------------------------
\* The parts of the state the conversations are about have their types.
Shaped(ch, e, w) ==
  /\ ch \in [Cids -> Channel \cup {FreeSlot}]
  /\ e \in [Side -> [Nums -> Peers \cup {NoEndpoint}]]
  /\ w \in [Side -> Seq(Packets)]

\* An end of conversation v is an end, an entry an entry.
LEMMA Shapes ==
  ASSUME NEW ch, NEW e, NEW w, Shaped(ch, e, w)
  PROVE  /\ \A x \in Side, n \in Nums :
              /\ e[x][n] = NoEndpoint \/ e[x][n] \in Peers
              /\ e[x][n].conv \in 0 .. MaxOpens
              /\ e[x][n] = NoEndpoint <=> e[x][n].conv = 0
         /\ \A i \in Cids :
              /\ ch[i] = FreeSlot \/ ch[i] \in Channel
              /\ ch[i] # FreeSlot => ch[i] \in Channel
         /\ \A x \in Side : w[x] \in Seq(Packets)
         /\ 0 \notin Cids /\ Cids \subseteq 0 .. MaxOpens
<1>1. MaxOpens \in Nat
  BY NumsAssumption
<1>2. \A a \in Peers : a.conv \in Cids
  BY DEF Peers
<1>3. NoEndpoint.conv = 0
  BY DEF NoEndpoint
<1> QED BY <1>1, <1>2, <1>3 DEF Shaped, Cids

\* One entry at most.
LEMMA OneSlot ==
  ASSUME NEW ch, NEW e, NEW w, NEW v, Conversation(ch, e, w, v), NEW i \in Cids, NEW j \in Cids,
         ch[i] # FreeSlot, ch[j] # FreeSlot, ch[i].conv = v, ch[j].conv = v
  PROVE  i = j
<1>1. i \in Slots(ch, v) /\ j \in Slots(ch, v)
  BY DEF Slots
<1> QED BY <1>1 DEF Conversation, Free, Asked, Refused, Accepted, Pending, Up, Half

\* One end at most on each side, and the packet that opens or confirms a
\* channel carries its number.
LEMMA Origin ==
  ASSUME NEW ch, NEW e, NEW w, NEW v, Conversation(ch, e, w, v), NEW x \in Side,
         NEW p \in Of(w[x], v), p.type \in {"OPEN", "CONFIRM"}
  PROVE  Ends(e, x, v) = {p.from}
<1>1. p.type \notin Talk \cup {"CLOSE", "OPENFAIL"}
  BY DEF Talk
<1>2. ~Free(ch, e, w, v)
  BY DEF Free
<1>3. ASSUME NEW y \in Side, NEW n \in Nums, Asked(ch, e, w, v, y, n)
      PROVE  Ends(e, x, v) = {p.from}
  BY <1>3, TwoSides DEF Asked, Waits
<1>4. ASSUME NEW y \in Side, NEW n \in Nums, NEW i \in Cids, Refused(ch, e, w, v, y, n, i)
      PROVE  FALSE
  BY <1>1, <1>4, TwoSides DEF Refused, Pending
<1>5. ASSUME NEW y \in Side, NEW n \in Nums, NEW i \in Cids, NEW k \in Nums,
             Accepted(ch, e, w, v, y, n, i, k)
      PROVE  Ends(e, x, v) = {p.from}
  BY <1>1, <1>5, TwoSides DEF Accepted, Pending, Talk
<1>6. ASSUME NEW i \in Cids, Up(ch, e, w, v, i) PROVE FALSE
  BY <1>1, <1>6 DEF Up, InUse, Line
<1>7. ASSUME NEW i \in Cids, NEW y \in Side, Half(ch, e, w, v, i, y) PROVE FALSE
  BY <1>1, <1>7, TwoSides DEF Half, ClosedFirst, ClosesNext, Line
<1> QED BY <1>2, <1>3, <1>4, <1>5, <1>6, <1>7 DEF Conversation

\* Where the end of an entry is.
LEMMA Placed ==
  ASSUME NEW ch, NEW e, NEW w, NEW v, Conversation(ch, e, w, v), NEW i \in Cids,
         ch[i] # FreeSlot, ch[i].conv = v, NEW x \in Side
  PROVE  \/ OwnNum(ch[i], x) = None
         \/ Ends(e, x, v) = {OwnNum(ch[i], x)}
         \/ Ends(e, x, v) = {} /\ HasClose(w, x, v) /\ ch[i].state = "CLOSE"
<1>0. i \in Slots(ch, v)
  BY DEF Slots
<1>1. ~Free(ch, e, w, v) /\ \A y \in Side, n \in Nums : ~Asked(ch, e, w, v, y, n)
  BY <1>0 DEF Free, Asked
<1>2. ASSUME NEW y \in Side, NEW n \in Nums, NEW j \in Cids, Pending(ch, e, w, v, y, n, j)
      PROVE  OwnNum(ch[i], x) = None \/ Ends(e, x, v) = {OwnNum(ch[i], x)}
  <2>1. i = j /\ ch[i].requestor = y /\ ch[i].requestorCh = n /\ ch[i].providerCh = None
        /\ Ends(e, y, v) = {n}
    BY <1>0, <1>2 DEF Pending, Waits
  <2> QED BY <2>1, TwoSides DEF OwnNum
<1>3. ASSUME NEW j \in Cids, Up(ch, e, w, v, j)
      PROVE  Ends(e, x, v) = {OwnNum(ch[i], x)}
  BY <1>0, <1>3 DEF Up, InUse, End
<1>4. ASSUME NEW j \in Cids, NEW y \in Side, Half(ch, e, w, v, j, y)
      PROVE  \/ Ends(e, x, v) = {OwnNum(ch[i], x)}
             \/ Ends(e, x, v) = {} /\ HasClose(w, x, v) /\ ch[i].state = "CLOSE"
  <2>1. i = j /\ ch[i].state = "CLOSE"
    BY <1>0, <1>4 DEF Half
  <2>2. CASE x = y
    BY <2>1, <2>2, <1>4 DEF Half, ClosedFirst, End
  <2>3. CASE x = TheOtherSide(y)
    BY <2>1, <2>3, <1>4 DEF Half, ClosesNext, End
  <2> QED BY <2>2, <2>3, TwoSides
<1> QED BY <1>1, <1>2, <1>3, <1>4 DEF Conversation, Refused, Accepted

----------------------------------------------------------------------------
\* All conversations are where the invariant says, and their packets in order.
Settled(ch, e, w) ==
  /\ Shaped(ch, e, w)
  /\ \A v \in Cids : Conversation(ch, e, w, v)

\* A wire after a step: as it was, without its first packet, or with one more.
Moves(w, w2) ==
  \/ w2 = w
  \/ w # <<>> /\ w2 = Tail(w)
  \/ \E p \in Packets : w2 = Append(w, p)

\* Numbers are given again only behind the CLOSE of their former channel: the
\* entry of a live end needs no CLOSE, and that of a gone end keeps the one it
\* has until its CLOSE is processed.
LEMMA BehindStep ==
  ASSUME NEW ch, NEW e, NEW w, NEW ch2, NEW e2, NEW w2, Settled(ch, e, w),
         Settled(ch2, e2, w2), NEW x \in Side, Behind(ch, w, x), InOrder(w[x]),
         Moves(w[x], w2[x]),
         \A i \in Cids : ch2[i] # FreeSlot /\ ch2[i].state = "CLOSE" =>
           /\ ch[i] # FreeSlot /\ ch[i].conv = ch2[i].conv
           /\ OwnNum(ch[i], x) = OwnNum(ch2[i], x)
  PROVE  Behind(ch2, w2, x)
<1> SUFFICES ASSUME NEW i \in Cids, NEW j \in 1 .. Len(w2[x]), ch2[i] # FreeSlot,
                    w2[x][j].type \in {"OPEN", "CONFIRM"},
                    w2[x][j].from = OwnNum(ch2[i], x), w2[x][j].conv # ch2[i].conv
             PROVE  \E l \in 1 .. (j - 1) :
                      w2[x][l].conv = ch2[i].conv /\ w2[x][l].type = "CLOSE"
  BY DEF Behind
<1> DEFINE k == OwnNum(ch2[i], x)
           v == ch2[i].conv
           u == w2[x][j].conv
<1>1. w[x] \in Seq(Packets) /\ w2[x] \in Seq(Packets) /\ v \in Cids
  BY Shapes DEF Settled, Channel
<1>2. w2[x][j] \in Packets /\ u \in Cids /\ w2[x][j] \in Of(w2[x], u)
  <2>1. w2[x][j] \in Packets /\ w2[x][j] \in Of(w2[x], u)
    BY <1>1 DEF Of
  <2>2. u \in 0 .. MaxOpens /\ u # 0
    BY <2>1 DEF Packets, GlobalTypes
  <2> QED BY <2>1, <2>2, NumsAssumption DEF Cids
<1>3. Ends(e2, x, u) = {k}
  BY <1>2, Origin DEF Settled
<1>4. k \in Nums /\ e2[x][k].conv = u /\ k # None
  BY <1>3, NumsAssumption DEF Ends, None
<1>5. Ends(e2, x, v) # {k}
  BY <1>4 DEF Ends
<1>6. Ends(e2, x, v) = {} /\ HasClose(w2, x, v) /\ ch2[i].state = "CLOSE"
  BY <1>1, <1>4, <1>5, Placed DEF Settled
<1>7. ch[i] # FreeSlot /\ ch[i].conv = v /\ OwnNum(ch[i], x) = k
  BY <1>6
<1>8. ASSUME NEW l \in 1 .. Len(w[x]), w[x][l] = w2[x][j]
      PROVE  \E h \in 1 .. (l - 1) : w[x][h].conv = v /\ w[x][h].type = "CLOSE"
  BY <1>7, <1>8 DEF Behind
<1>9. CASE w2[x] = w[x]
  BY <1>8, <1>9
<1>10. CASE w[x] # <<>> /\ w2[x] = Tail(w[x])
  <2>1. /\ Len(w[x]) \in Nat /\ Len(w2[x]) = Len(w[x]) - 1
        /\ \A l \in 1 .. Len(w2[x]) : w2[x][l] = w[x][l + 1]
        /\ Head(w[x]) = w[x][1]
    BY <1>1, <1>10
  <2>2. PICK h \in 1 .. ((j + 1) - 1) : w[x][h].conv = v /\ w[x][h].type = "CLOSE"
    BY <2>1, <1>8
  <2>3. h # 1
    <3> SUFFICES ASSUME h = 1 PROVE FALSE
      OBVIOUS
    <3>1. Head(w[x]).conv = v /\ Head(w[x]).type = "CLOSE"
      BY <2>1, <2>2
    <3>2. v # 0
      BY <1>1 DEF Cids
    <3>3. Of(Tail(w[x]), v) = {}
      BY <1>1, <1>10, <3>1, <3>2, FirstOf
    <3> QED BY <3>3, <1>6, <1>10 DEF HasClose
  <2>4. h - 1 \in 1 .. (j - 1) /\ h - 1 \in 1 .. Len(w2[x]) /\ w2[x][h - 1] = w[x][h]
    BY <2>1, <2>2, <2>3
  <2> QED BY <2>2, <2>4
<1>11. ASSUME NEW p \in Packets, w2[x] = Append(w[x], p)
       PROVE  \E l \in 1 .. (j - 1) : w2[x][l].conv = v /\ w2[x][l].type = "CLOSE"
  <2>1. /\ Len(w[x]) \in Nat /\ Len(w2[x]) = Len(w[x]) + 1
        /\ \A l \in 1 .. Len(w[x]) : w2[x][l] = w[x][l]
        /\ w2[x][Len(w[x]) + 1] = p
    BY <1>1, <1>11
  <2>2. CASE j \in 1 .. Len(w[x])
    <3>1. PICK h \in 1 .. (j - 1) : w[x][h].conv = v /\ w[x][h].type = "CLOSE"
      BY <2>1, <2>2, <1>8
    <3> QED BY <3>1, <2>1, <2>2
  <2>3. CASE j = Len(w[x]) + 1
    <3>1. PICK q \in Of(w2[x], v) : q.type = "CLOSE"
      BY <1>6 DEF HasClose
    <3>2. PICK l \in 1 .. Len(w2[x]) : w2[x][l] = q /\ w2[x][l].conv = v
      BY DEF Of
    <3>3. l # j
      BY <3>1, <3>2
    <3> QED BY <2>1, <2>3, <3>1, <3>2, <3>3
  <2> QED BY <2>1, <2>2, <2>3
<1> QED BY <1>9, <1>10, <1>11 DEF Moves

\* The numbers of entries stay apart as long as none gets a new one.
LEMMA ApartKept ==
  ASSUME NEW ch, NEW ch2, Apart(ch),
         \A i \in Cids : ch2[i] # FreeSlot =>
           /\ ch[i] # FreeSlot
           /\ \A x \in Side : OwnNum(ch2[i], x) = OwnNum(ch[i], x)
  PROVE  Apart(ch2)
BY DEF Apart

\* When a number reaches the head of the wire, no entry has it any more.
LEMMA NewNumber ==
  ASSUME NEW ch, NEW w, NEW x \in Side, Behind(ch, w, x), w[x] \in Seq(Packets), w[x] # <<>>,
         Head(w[x]).type \in {"OPEN", "CONFIRM"}, NEW i \in Cids, ch[i] # FreeSlot,
         ch[i].conv # Head(w[x]).conv
  PROVE  OwnNum(ch[i], x) # Head(w[x]).from
<1>1. Head(w[x]) = w[x][1] /\ 1 \in 1 .. Len(w[x])
  OBVIOUS
<1>2. 1 .. (1 - 1) = {}
  OBVIOUS
<1> QED BY <1>1, <1>2 DEF Behind

\* The least number of a singleton.
LEMMA MinOfOne ==
  ASSUME NEW i \in Int
  PROVE  MinOf({i}) = i
BY DEF MinOf

\* The lookups find the entry a packet of s carries the number of.
LEMMA Lookup ==
  ASSUME Settled(channels, ep, wire), Apart(channels), Proxied(channels),
         NEW s \in Side, NEW i \in Cids, channels[i] # FreeSlot,
         NEW n, n = NumAt(channels[i], TheOtherSide(s)), n # None
  PROVE  /\ FindForData(s, n) = i /\ FindForClose(s, n) = i
         /\ channels[i].requestor = TheOtherSide(s) => FindForAnswer(s, n) = i
<1> DEFINE t == TheOtherSide(s)
<1>0. t \in Side /\ t # s /\ \A x \in Side : x = s \/ x = t
  BY TwoSides
<1>1. \A j \in Cids : channels[j] # FreeSlot =>
        /\ channels[j] \in Channel
        /\ channels[j].requestor \in Side /\ channels[j].proxied \in BOOLEAN
        /\ channels[j].requestorCh \in Nums /\ channels[j].providerCh \in Nums \cup {None}
        /\ channels[j].conv \in Cids
  BY Shapes DEF Settled, Channel
<1>2. \A m \in Nums \cup {None} : m < SUSSHI_SESSION_CLIENT_CHANNEL_START
  BY NumsAssumption DEF None, SUSSHI_SESSION_CLIENT_CHANNEL_START
<1>3. \A j \in Cids : channels[j] # FreeSlot /\ NumAt(channels[j], t) = n => j = i
  <2> SUFFICES ASSUME NEW j \in Cids, channels[j] # FreeSlot, NumAt(channels[j], t) = n
               PROVE  j = i
    OBVIOUS
  <2>1. CASE ~channels[i].proxied /\ ~channels[j].proxied
    <3>1. OwnNum(channels[i], t) = n /\ OwnNum(channels[j], t) = n
      BY <2>1 DEF OwnNum, NumAt, RequestorNum, ProviderNum
    <3> QED BY <3>1, <1>0 DEF Apart
  <2>2. CASE channels[i].proxied /\ channels[j].proxied
    <3>1. channels[i].conv = 1 /\ channels[j].conv = 1 /\ 1 \in Cids
      BY <2>2, <1>1 DEF Proxied
    <3> QED BY <3>1, OneSlot DEF Settled
  <2>3. CASE channels[i].proxied # channels[j].proxied
    BY <2>3, <1>1, <1>2
       DEF NumAt, RequestorNum, ProviderNum, SUSSHI_SESSION_CLIENT_CHANNEL_START,
           SUSSHI_SESSION_TARGET_CHANNEL_START
  <2> QED BY <2>1, <2>2, <2>3, <1>1
<1>4. i \in Int /\ i # 0 /\ i \in Open
  BY NumsAssumption DEF Cids, Open
<1>5. CASE channels[i].requestor = s
  <2>1. FindChannel(s, None, n) = i
    <3>1. {j \in Open : /\ channels[j].requestor = s
                        /\ \/ None # None /\ RequestorNum(channels[j]) = None
                           \/ n # None /\ ProviderNum(channels[j]) = n} = {i}
      BY <1>0, <1>3, <1>4, <1>5 DEF Open, NumAt
    <3> QED BY <3>1, <1>4, MinOfOne DEF FindChannel
  <2>2. FindChannel(t, n, None) = 0
    <3>1. {j \in Open : /\ channels[j].requestor = t
                        /\ \/ n # None /\ RequestorNum(channels[j]) = n
                           \/ None # None /\ ProviderNum(channels[j]) = None} = {}
      BY <1>0, <1>3, <1>4, <1>5 DEF Open, NumAt
    <3> QED BY <3>1 DEF FindChannel
  <2> QED BY <2>1, <2>2, <1>0, <1>4, <1>5 DEF FindForData, FindForClose, OrElse
<1>6. CASE channels[i].requestor = t
  <2>1. FindChannel(t, n, None) = i
    <3>1. {j \in Open : /\ channels[j].requestor = t
                        /\ \/ n # None /\ RequestorNum(channels[j]) = n
                           \/ None # None /\ ProviderNum(channels[j]) = None} = {i}
      BY <1>0, <1>3, <1>4, <1>6 DEF Open, NumAt
    <3> QED BY <3>1, <1>4, MinOfOne DEF FindChannel
  <2>2. FindChannel(s, None, n) = 0
    <3>1. {j \in Open : /\ channels[j].requestor = s
                        /\ \/ None # None /\ RequestorNum(channels[j]) = None
                           \/ n # None /\ ProviderNum(channels[j]) = n} = {}
      BY <1>0, <1>1, <1>3, <1>4, <1>6 DEF Open, NumAt
    <3> QED BY <3>1 DEF FindChannel
  <2> QED BY <2>1, <2>2, <1>4 DEF FindForData, FindForClose, FindForAnswer, OrElse
<1> QED BY <1>0, <1>1, <1>5, <1>6

----------------------------------------------------------------------------
\* The invariant, apart from what the flags and the histories say.
FollowedState ==
  /\ Settled(channels, ep, wire)
  /\ \A v \in Cids : v > used.opens => Free(channels, ep, wire, v)
  /\ \A x \in Side : InOrder(wire[x]) /\ Behind(channels, wire, x)
  /\ Apart(channels) /\ Proxied(channels)

\* A packet of a conversation is a packet.
LEMMA OfPackets ==
  ASSUME NEW w \in Seq(Packets), NEW v, NEW p \in Of(w, v)
  PROVE  p \in Packets /\ p.conv = v
BY DEF Of

\* What a peer says on a channel is on an open one, whose entry the lookups
\* find and whose other end is there.
LEMMA TalkHead ==
  ASSUME FollowedState, NEW s \in Side, wire[s] # <<>>,
         Head(wire[s]).type \in Talk \cup {"CLOSE"}
  PROVE  LET m == Head(wire[s])
             t == TheOtherSide(s)
         IN  \E i \in Cids :
               /\ m \in Packets /\ m.conv \in Cids
               /\ channels[i] # FreeSlot /\ channels[i].conv = m.conv
               /\ Up(channels, ep, wire, m.conv, i) \/ Half(channels, ep, wire, m.conv, i, t)
               /\ End(ep, m.conv, channels[i], t)
               /\ m.to = NumAt(channels[i], t)
               /\ FindForData(s, m.to) = i /\ FindForClose(s, m.to) = i
<1> DEFINE m == Head(wire[s])
           t == TheOtherSide(s)
           v == m.conv
<1>0. t \in Side /\ t # s /\ TheOtherSide(t) = s
  BY TwoSides
<1>1. wire[s] \in Seq(Packets) /\ m \in Packets /\ m \in Of(wire[s], v)
  BY OfPop DEF FollowedState, Settled, Shaped
<1>2. v \in Cids /\ v # 0
  BY <1>1, NumsAssumption DEF Packets, GlobalTypes, Talk, Cids
<1>3. Conversation(channels, ep, wire, v)
  BY <1>2 DEF FollowedState, Settled
<1>4. \A q \in Of(wire[s], v) : q.type \notin Starts
  <2>1. \A q \in Of(wire[s], v) : q.type \in Starts => q = m
    BY <1>1, <1>2, FirstOf DEF FollowedState
  <2> QED BY <2>1 DEF Starts, Talk
<1>5. ~Free(channels, ep, wire, v)
  BY <1>1 DEF Free
<1>6. ASSUME NEW x \in Side, NEW n \in Nums, Asked(channels, ep, wire, v, x, n) PROVE FALSE
  BY <1>6, <1>0, <1>1, <1>4, TwoSides DEF Asked, Starts
<1>7. ASSUME NEW x \in Side, NEW n \in Nums, NEW i \in Cids,
             Refused(channels, ep, wire, v, x, n, i)
      PROVE  FALSE
  BY <1>7, <1>0, <1>1, <1>4, TwoSides DEF Refused, Pending, Starts
<1>8. ASSUME NEW x \in Side, NEW n \in Nums, NEW i \in Cids, NEW k \in Nums,
             Accepted(channels, ep, wire, v, x, n, i, k)
      PROVE  FALSE
  BY <1>8, <1>0, <1>1, <1>4, TwoSides DEF Accepted, Pending, Starts
<1>9. ASSUME NEW i \in Cids, NEW x \in Side, Half(channels, ep, wire, v, i, x)
      PROVE  Half(channels, ep, wire, v, i, t)
  BY <1>9, <1>0, <1>1, TwoSides DEF Half, ClosedFirst
<1>10. PICK i \in Cids : Up(channels, ep, wire, v, i) \/ Half(channels, ep, wire, v, i, t)
  BY <1>3, <1>5, <1>6, <1>7, <1>8, <1>9 DEF Conversation
<1>11. channels[i] # FreeSlot /\ channels[i].conv = v /\ channels[i].providerCh \in Nums
  BY <1>10 DEF Up, Half, Slots
<1>12. End(ep, v, channels[i], t) /\ Line(wire, v, channels[i], s)
  BY <1>0, <1>10 DEF Up, Half, InUse, ClosedFirst, ClosesNext
<1>13. m.to = NumAt(channels[i], t)
  BY <1>1, <1>12 DEF Line
<1>14. channels[i].requestor \in Side /\ channels[i].requestorCh \in Nums
  BY <1>11, Shapes DEF FollowedState, Settled, Channel
<1>15. m.to # None
  BY <1>11, <1>13, <1>14, NumsAssumption
     DEF NumAt, RequestorNum, ProviderNum, None, SUSSHI_SESSION_CLIENT_CHANNEL_START,
         SUSSHI_SESSION_TARGET_CHANNEL_START
<1>16. FindForData(s, m.to) = i /\ FindForClose(s, m.to) = i
  BY <1>11, <1>13, <1>15, Lookup DEF FollowedState
<1> QED BY <1>1, <1>2, <1>10, <1>11, <1>12, <1>13, <1>16

\* A peer that has not closed its end has no CLOSE under way.
LEMMA NotClosed ==
  ASSUME NEW ch, NEW e, NEW w, NEW v, Conversation(ch, e, w, v), NEW x \in Side,
         NEW n \in Ends(e, x, v), ~e[x][n].sent
  PROVE  \A q \in Of(w[x], v) : q.type # "CLOSE"
<1>1. ~Free(ch, e, w, v)
  BY DEF Free
<1>2. ASSUME NEW y \in Side, NEW k \in Nums, Asked(ch, e, w, v, y, k)
      PROVE  \A q \in Of(w[x], v) : q.type # "CLOSE"
  BY <1>2, TwoSides DEF Asked
<1>3. ASSUME NEW y \in Side, NEW k \in Nums, NEW i \in Cids, Refused(ch, e, w, v, y, k, i)
      PROVE  \A q \in Of(w[x], v) : q.type # "CLOSE"
  BY <1>3, TwoSides DEF Refused, Pending
<1>4. ASSUME NEW y \in Side, NEW k \in Nums, NEW i \in Cids, NEW l \in Nums,
             Accepted(ch, e, w, v, y, k, i, l)
      PROVE  \A q \in Of(w[x], v) : q.type # "CLOSE"
  <2>1. CASE x = y
    BY <2>1, <1>4 DEF Accepted, Pending
  <2>2. CASE x = TheOtherSide(y)
    BY <2>2, <1>4 DEF Accepted, HasClose
  <2> QED BY <2>1, <2>2, TwoSides
<1>5. ASSUME NEW i \in Cids, Up(ch, e, w, v, i)
      PROVE  \A q \in Of(w[x], v) : q.type # "CLOSE"
  BY <1>5 DEF Up, InUse, End, HasClose
<1>6. ASSUME NEW i \in Cids, NEW y \in Side, Half(ch, e, w, v, i, y)
      PROVE  \A q \in Of(w[x], v) : q.type # "CLOSE"
  <2>1. CASE x = y
    BY <2>1, <1>6 DEF Half, ClosedFirst
  <2>2. CASE x = TheOtherSide(y)
    BY <2>2, <1>6 DEF Half, ClosesNext, HasClose
  <2> QED BY <2>1, <2>2, TwoSides
<1> QED BY <1>1, <1>2, <1>3, <1>4, <1>5, <1>6 DEF Conversation

\* Steps that open and close nothing: packets on open channels and global ones
\* are sent and taken, and entries and ends keep what tells them.
Chats(w, w2, e, x) ==
  \/ w2[x] = w[x]
  \/ /\ w[x] # <<>> /\ w2[x] = Tail(w[x])
     /\ Head(w[x]).type \in Talk \cup GlobalTypes
  \/ \E p \in Packets :
       /\ w2[x] = Append(w[x], p)
       /\ p.type \in GlobalTypes \/ (p.conv \in Cids /\ MaySay(e, x, p.conv, p))
EntriesChat(ch, ch2) ==
  \A i \in Cids :
    /\ ch2[i] = FreeSlot <=> ch[i] = FreeSlot
    /\ ch[i] # FreeSlot =>
         SameEntry(ch[i], ch2[i]) /\ ch2[i].conv = ch[i].conv /\ ch2[i].kind = ch[i].kind
EndsChat(e, e2) ==
  \A x \in Side, n \in Nums : SameEnd(e[x][n], e2[x][n]) /\ e2[x][n].conv = e[x][n].conv
WiresChat(w, w2, e) == \A x \in Side : Chats(w, w2, e, x)
Chat(ch, e, w, ch2, e2, w2) ==
  EntriesChat(ch, ch2) /\ EndsChat(e, e2) /\ WiresChat(w, w2, e)

\* Such a step leaves every conversation where it is.
LEMMA ChatContinues ==
  ASSUME NEW ch, NEW e, NEW w, NEW ch2, NEW e2, NEW w2, NEW v \in Cids,
         Shaped(ch, e, w), Chat(ch, e, w, ch2, e2, w2)
  PROVE  Continues(ch, e, w, ch2, e2, w2, v)
<1>1. Slots(ch2, v) = Slots(ch, v) /\ \A i \in Slots(ch, v) : SameEntry(ch[i], ch2[i])
  BY DEF Chat, EntriesChat, Slots
<1>2. ASSUME NEW x \in Side
      PROVE  /\ Ends(e2, x, v) = Ends(e, x, v)
             /\ \A n \in Ends(e, x, v) : SameEnd(e[x][n], e2[x][n])
  BY DEF Chat, EndsChat, Ends
<1>3. ASSUME NEW x \in Side
      PROVE  /\ \A p \in Of(w2[x], v) : p \in Of(w[x], v) \/ MaySay(e, x, v, p)
             /\ \A p \in Of(w[x], v) : p \in Of(w2[x], v) \/ p.type \in Talk
  <2>0. w[x] \in Seq(Packets) /\ v # 0
    BY DEF Shaped, Cids
  <2>1. CASE w2[x] = w[x]
    BY <2>1
  <2>2. CASE /\ w[x] # <<>> /\ w2[x] = Tail(w[x])
             /\ Head(w[x]).type \in Talk \cup GlobalTypes
    <3>1. /\ Of(w2[x], v) \subseteq Of(w[x], v)
          /\ Of(w[x], v) \subseteq Of(w2[x], v) \cup {Head(w[x])}
          /\ v # Head(w[x]).conv => Of(w2[x], v) = Of(w[x], v)
          /\ Head(w[x]) \in Packets
      BY <2>0, <2>2, OfPop
    <3>2. Head(w[x]).type \in GlobalTypes => Head(w[x]).conv = 0
      BY <3>1 DEF Packets
    <3> QED BY <2>0, <2>2, <3>1, <3>2
  <2>3. ASSUME NEW p \in Packets, w2[x] = Append(w[x], p),
               p.type \in GlobalTypes \/ (p.conv \in Cids /\ MaySay(e, x, p.conv, p))
        PROVE  /\ \A q \in Of(w2[x], v) : q \in Of(w[x], v) \/ MaySay(e, x, v, q)
               /\ \A q \in Of(w[x], v) : q \in Of(w2[x], v)
    <3>1. /\ p.conv = v => Of(w2[x], v) = Of(w[x], v) \cup {p}
          /\ p.conv # v => Of(w2[x], v) = Of(w[x], v)
      <4>1. /\ p.conv = v => Of(Append(w[x], p), v) = Of(w[x], v) \cup {p}
            /\ p.conv # v => Of(Append(w[x], p), v) = Of(w[x], v)
        BY <2>0, OfPush
      <4> QED BY <4>1, <2>3
    <3>2. p.type \in GlobalTypes => p.conv = 0
      BY DEF Packets
    <3> QED BY <2>0, <2>3, <3>1, <3>2
  <2> QED BY <2>1, <2>2, <2>3 DEF Chat, WiresChat, Chats
<1> QED BY <1>1, <1>2, <1>3 DEF Continues

\* They leave all that is said of the table, the peers and the wires true.
LEMMA Chatter ==
  ASSUME FollowedState, Shaped(channels', ep', wire'), used'.opens = used.opens,
         Chat(channels, ep, wire, channels', ep', wire')
  PROVE  FollowedState'
<1>0. Shaped(channels, ep, wire)
  BY DEF FollowedState, Settled
<1>1. \A v \in Cids : Continues(channels, ep, wire, channels', ep', wire', v)
  BY <1>0, ChatContinues
<1>2. \A v \in Cids : Conversation(channels', ep', wire', v)
  BY <1>1, Continued DEF FollowedState, Settled
<1>3. \A v \in Cids : v > used'.opens => Free(channels', ep', wire', v)
  BY <1>1, FreeContinues DEF FollowedState
<1>4. Settled(channels', ep', wire')
  BY <1>2 DEF Settled
<1>5. ASSUME NEW x \in Side PROVE InOrder(wire'[x]) /\ Behind(channels', wire', x)
  <2>0. wire[x] \in Seq(Packets) /\ InOrder(wire[x]) /\ Behind(channels, wire, x)
    BY DEF FollowedState, Settled, Shaped
  <2>1. InOrder(wire'[x])
    <3>1. CASE wire'[x] = wire[x]
      BY <3>1, <2>0
    <3>2. CASE wire[x] # <<>> /\ wire'[x] = Tail(wire[x])
      BY <3>2, <2>0, OrderPop
    <3>3. ASSUME NEW p \in Packets, wire'[x] = Append(wire[x], p),
                 p.type \in GlobalTypes \/ (p.conv \in Cids /\ MaySay(ep, x, p.conv, p))
          PROVE  InOrder(wire'[x])
      <4>1. CASE p.type \in GlobalTypes
        BY <4>1, <3>3, <2>0, OrderPush DEF Packets
      <4>2. CASE p.conv \in Cids /\ MaySay(ep, x, p.conv, p)
        <5>1. PICK n \in Ends(ep, x, p.conv) : ~ep[x][n].sent
          BY <4>2 DEF MaySay
        <5>2. \A q \in Of(wire[x], p.conv) : q.type # "CLOSE"
          BY <4>2, <5>1, NotClosed DEF FollowedState, Settled
        <5>3. p.type \notin Starts
          BY <4>2 DEF MaySay, Talk, Starts
        <5> QED BY <5>2, <5>3, <3>3, <2>0, OrderPush
      <4> QED BY <4>1, <4>2, <3>3
    <3> QED BY <3>1, <3>2, <3>3 DEF Chat, WiresChat, Chats
  <2>2. Moves(wire[x], wire'[x])
    BY DEF Chat, WiresChat, Chats, Moves
  <2>3. \A i \in Cids : channels'[i] # FreeSlot /\ channels'[i].state = "CLOSE" =>
           /\ channels[i] # FreeSlot /\ channels[i].conv = channels'[i].conv
           /\ OwnNum(channels[i], x) = OwnNum(channels'[i], x)
    BY SameNumbers DEF Chat, EntriesChat
  <2> QED BY <2>0, <2>1, <2>2, <2>3, <1>4, BehindStep DEF FollowedState
<1>6. Apart(channels')
  BY SameNumbers, ApartKept DEF Chat, EntriesChat, FollowedState
<1>7. Proxied(channels')
  BY DEF Proxied, FollowedState, Chat, EntriesChat, SameEntry
<1> QED BY <1>3, <1>4, <1>5, <1>6, <1>7 DEF FollowedState

\* The environment is not sent on a channel it cannot be meant for.
EnvWell == "wrong" \notin seen.env

\* The invariant.
ChannelsInv ==
  /\ ChannelsTyped
  /\ NeverReached /\ RightChannel /\ EnvWell
  /\ fatal = "no" => FollowedState /\ EnvPending

\* Such a step keeps the invariant if it sends no environment.
LEMMA ChatKept ==
  ASSUME ChannelsInv, fatal = "no", fatal' = "no", ChannelsTyped',
         used'.opens = used.opens, Chat(channels, ep, wire, channels', ep', wire'),
         flags'.sendShellEnv => (flags.sendShellEnv /\ flags'.refused = flags.refused),
         seen'.env = seen.env,
         seen'.misrouted \subseteq seen.misrouted \cup {<<"FAILURE", "rejected">>}
  PROVE  ChannelsInv'
<1>1. Shaped(channels', ep', wire')
  BY DEF ChannelsTyped, Shaped
<1>2. FollowedState'
  BY <1>1, Chatter DEF ChannelsInv
<1>3. EnvPending'
  <2> SUFFICES ASSUME flags'.sendShellEnv, ~flags'.refused
               PROVE  \E i \in Cids : /\ channels'[i] # FreeSlot
                                      /\ channels'[i].kind = "session"
                                      /\ channels'[i].state = "OPEN"
    BY DEF EnvPending
  <2>1. PICK i \in Cids : /\ channels[i] # FreeSlot
                          /\ channels[i].kind = "session" /\ channels[i].state = "OPEN"
    BY DEF ChannelsInv, EnvPending
  <2>2. channels'[i] # FreeSlot /\ channels'[i].kind = "session" /\ channels'[i].state = "OPEN"
    BY <2>1 DEF Chat, EntriesChat, SameEntry
  <2> QED BY <2>2
<1> QED BY <1>2, <1>3 DEF ChannelsInv, NeverReached, RightChannel, EnvWell

----------------------------------------------------------------------------
\* How peer t receives m on its end k: it says nothing, it answers, or it takes
\* an answer.
Silent(t, m, k) ==
  /\ m.type \notin {"SUCCESS", "FAILURE"}
  /\ ~(m.type = "REQUEST" /\ m.want /\ ~ep[t][k].sent)
Replying(t, m, k) == m.type = "REQUEST" /\ m.want /\ ~ep[t][k].sent
Reply(a, t, m, k) ==
  /\ a \in Packets
  /\ a.type \in {"SUCCESS", "FAILURE"} /\ a.conv = m.conv /\ a.to = ep[t][k].remote
  /\ a.kind = "answer"
TookAnswer(e) == IF e.awaits > 0 THEN [e EXCEPT !.awaits = @ - 1] ELSE e
Unasked(m, e) ==
  IF e.awaits > 0 /\ m.kind # "replayed" THEN {} ELSE {<<m.type, m.kind>>}

\* A packet that wants no reply is a packet.
LEMMA PacketMade ==
  ASSUME NEW type \in PacketTypes, NEW to \in Int, NEW conv \in 0 .. MaxOpens,
         NEW kind \in Kinds, conv = 0 <=> type \in GlobalTypes
  PROVE  Packet(type, to, conv, kind) \in Packets
BY DEF Packets, Packet, None

\* How a peer reacts to what is said on one of its channels.
LEMMA TalkReacts ==
  ASSUME ChannelsTyped, NEW t \in Side, NEW m, m.type \in Talk, m.conv \in Cids, m.to \in Nums,
         ep[t][m.to].conv = m.conv, NEW r \in Reactions(t, m)
  PROVE  \/ Silent(t, m, m.to) /\ r.ep = ep[t] /\ r.out = <<>> /\ r.seen = Nothing
         \/ /\ Replying(t, m, m.to) /\ r.ep = ep[t] /\ r.seen = Nothing
            /\ \E a : Reply(a, t, m, m.to) /\ r.out = <<a>>
         \/ /\ m.type \in {"SUCCESS", "FAILURE"} /\ r.out = <<>>
            /\ r.ep = [ep[t] EXCEPT ![m.to] = TookAnswer(ep[t][m.to])]
            /\ r.seen = [misrouted |-> {}, unasked |-> Unasked(m, ep[t][m.to]), env |-> {}]
<1> DEFINE e == ep[t][m.to]
<1>1. ep \in [Side -> [Nums -> Peers \cup {NoEndpoint}]]
  BY DEF ChannelsTyped
<1>2. e # NoEndpoint /\ e \in Peers
  BY <1>1 DEF NoEndpoint, Cids
<1>3. m.to \in Live(t)
  BY <1>2 DEF Live
<1>4. CASE m.type = "REQUEST" /\ m.want /\ ~e.sent
  <2>1. PICK a \in {"SUCCESS", "FAILURE"} :
           r = [ep |-> ep[t], out |-> <<Answer(a, m, e)>>, seen |-> Nothing]
    BY <1>3, <1>4 DEF Reactions
  <2>2. Reply(Answer(a, m, e), t, m, m.to)
    <3>1. /\ a \in PacketTypes /\ a \notin GlobalTypes /\ e.remote \in Int /\ None \in Int
          /\ m.conv \in 0 .. MaxOpens /\ m.conv # 0
      BY <1>2, NumsAssumption DEF Peers, PacketTypes, GlobalTypes, Cids, None
    <3>2. Packet(a, e.remote, m.conv, "answer") \in Packets
      BY <3>1, PacketMade DEF Kinds
    <3> QED BY <3>2, <2>1 DEF Reply, Answer, Packet
  <2> QED BY <1>4, <2>1, <2>2 DEF Replying
<1>5. CASE m.type \in {"SUCCESS", "FAILURE"}
  <2>1. CASE e.awaits > 0
    <3>1. r = [ep |-> [ep[t] EXCEPT ![m.to] = [e EXCEPT !.awaits = @ - 1]], out |-> <<>>,
               seen |-> [Nothing EXCEPT !.unasked = IF m.kind # "replayed" THEN {}
                                                    ELSE {<<m.type, m.kind>>}]]
      BY <1>3, <1>5, <2>1 DEF Reactions
    <3> QED BY <1>5, <2>1, <3>1 DEF Nothing, TookAnswer, Unasked
  <2>2. CASE ~(e.awaits > 0)
    <3>1. r = [ep |-> ep[t], out |-> <<>>,
               seen |-> [Nothing EXCEPT !.unasked = {<<m.type, m.kind>>}]]
      BY <1>3, <1>5, <2>2 DEF Reactions
    <3>2. [ep[t] EXCEPT ![m.to] = TookAnswer(e)] = ep[t]
      BY <1>1, <2>2 DEF TookAnswer
    <3> QED BY <1>5, <2>2, <3>1, <3>2 DEF Nothing, Unasked
  <2> QED BY <2>1, <2>2
<1>6. CASE ~(m.type = "REQUEST" /\ m.want /\ ~e.sent) /\ m.type \notin {"SUCCESS", "FAILURE"}
  <2>1. r = [ep |-> ep[t], out |-> <<>>, seen |-> Nothing]
    BY <1>3, <1>6 DEF Reactions, Talk
  <2> QED BY <1>6, <2>1 DEF Silent
<1> QED BY <1>4, <1>5, <1>6

\* The gateway writes the recipient's own number.
LEMMA Rewritten ==
  ASSUME NEW s \in Side, NEW m \in Packets, NEW c \in Channel,
         c.proxied => c.requestor = CLIENT, m.to = NumAt(c, TheOtherSide(s))
  PROVE  LET m2 == Rewrite(s, m, c) IN
         /\ m2.to = OwnNum(c, TheOtherSide(s))
         /\ m2.type = m.type /\ m2.conv = m.conv /\ m2.kind = m.kind
         /\ m2.want = m.want /\ m2.from = m.from
<1>1. CASE ~c.proxied
  BY <1>1 DEF Rewrite, OwnNum, NumAt, RequestorNum, ProviderNum
<1>2. CASE c.proxied
  BY <1>2 DEF Rewrite, OwnNum, Packets, TheOtherSide, Side, CLIENT, TARGET
<1> QED BY <1>1, <1>2

\* A packet on an open channel, forwarded to the other end.
Forwarded(s, t, m, k) ==
  \/ /\ Silent(t, m, k) /\ ep' = ep /\ seen' = seen
     /\ wire' = [wire EXCEPT ![s] = Tail(@)]
  \/ /\ Replying(t, m, k) /\ ep' = ep /\ seen' = seen
     /\ \E a : Reply(a, t, m, k)
               /\ wire' = [wire EXCEPT ![s] = Tail(wire[s]), ![t] = Append(wire[t], a)]
  \/ /\ m.type \in {"SUCCESS", "FAILURE"}
     /\ ep' = [ep EXCEPT ![t] = [ep[t] EXCEPT ![k] = TookAnswer(ep[t][k])]]
     /\ seen' = [misrouted |-> seen.misrouted,
                 unasked |-> seen.unasked \cup Unasked(m, ep[t][k]), env |-> seen.env]
     /\ wire' = [wire EXCEPT ![s] = Tail(@)]

\* What is forwarded to the end it is meant for.
LEMMA TalkForwarded ==
  ASSUME ChannelsTyped, NEW s \in Side, wire[s] # <<>>, NEW m, NEW m2, m.type \in Talk,
         m.conv \in Cids, m2.type = m.type, m2.conv = m.conv, m2.kind = m.kind,
         m2.want = m.want, m2.to \in Nums, ep[TheOtherSide(s)][m2.to].conv = m.conv,
         Deliver(s, TheOtherSide(s), m2)
  PROVE  Forwarded(s, TheOtherSide(s), m, m2.to) /\ UNCHANGED awaits
<1> DEFINE t == TheOtherSide(s)
<1>0. t \in Side /\ t # s
  BY TwoSides
<1>1. PICK r \in Reactions(t, m2) :
        /\ ep' = [ep EXCEPT ![t] = r.ep]
        /\ wire' = [[wire EXCEPT ![s] = Tail(@)] EXCEPT ![t] = @ \o r.out]
        /\ seen' = Merge(seen, r.seen)
        /\ UNCHANGED awaits
  BY DEF Deliver
<1>2. /\ ep \in [Side -> [Nums -> Peers \cup {NoEndpoint}]]
      /\ wire \in [Side -> Seq(Packets)]
      /\ seen = [misrouted |-> seen.misrouted, unasked |-> seen.unasked, env |-> seen.env]
  BY DEF ChannelsTyped
<1>3. r.seen = Nothing => seen' = seen
  BY <1>1, <1>2 DEF Merge, Nothing
<1>4. r.ep = ep[t] => ep' = ep
  BY <1>0, <1>1, <1>2
<1>5. r.out = <<>> => wire' = [wire EXCEPT ![s] = Tail(@)]
  <2>1. wire[t] \o <<>> = wire[t]
    BY <1>0, <1>2
  <2> QED BY <2>1, <1>0, <1>1, <1>2
<1>6. ASSUME NEW a \in Packets, r.out = <<a>>
      PROVE  wire' = [wire EXCEPT ![s] = Tail(wire[s]), ![t] = Append(wire[t], a)]
  <2>1. wire[t] \o <<a>> = Append(wire[t], a)
    BY <1>0, <1>2
  <2> QED BY <2>1, <1>0, <1>1, <1>2, <1>6
<1>7. \/ Silent(t, m2, m2.to) /\ r.ep = ep[t] /\ r.out = <<>> /\ r.seen = Nothing
      \/ /\ Replying(t, m2, m2.to) /\ r.ep = ep[t] /\ r.seen = Nothing
         /\ \E a : Reply(a, t, m2, m2.to) /\ r.out = <<a>>
      \/ /\ m2.type \in {"SUCCESS", "FAILURE"} /\ r.out = <<>>
         /\ r.ep = [ep[t] EXCEPT ![m2.to] = TookAnswer(ep[t][m2.to])]
         /\ r.seen = [misrouted |-> {}, unasked |-> Unasked(m2, ep[t][m2.to]), env |-> {}]
  BY <1>0, TalkReacts
<1>8. CASE Silent(t, m2, m2.to) /\ r.ep = ep[t] /\ r.out = <<>> /\ r.seen = Nothing
  BY <1>8, <1>1, <1>3, <1>4, <1>5 DEF Forwarded, Silent
<1>9. CASE /\ Replying(t, m2, m2.to) /\ r.ep = ep[t] /\ r.seen = Nothing
           /\ \E a : Reply(a, t, m2, m2.to) /\ r.out = <<a>>
  <2>1. PICK a : Reply(a, t, m2, m2.to) /\ r.out = <<a>>
    BY <1>9
  <2>2. Reply(a, t, m, m2.to) /\ a \in Packets
    BY <2>1 DEF Reply
  <2>3. Replying(t, m, m2.to)
    BY <1>9 DEF Replying
  <2> QED BY <1>1, <1>3, <1>4, <1>6, <1>9, <2>1, <2>2, <2>3 DEF Forwarded
<1>10. CASE /\ m2.type \in {"SUCCESS", "FAILURE"} /\ r.out = <<>>
            /\ r.ep = [ep[t] EXCEPT ![m2.to] = TookAnswer(ep[t][m2.to])]
            /\ r.seen = [misrouted |-> {}, unasked |-> Unasked(m2, ep[t][m2.to]), env |-> {}]
  <2>1. Unasked(m2, ep[t][m2.to]) = Unasked(m, ep[t][m2.to])
    BY DEF Unasked
  <2>2. seen' = [misrouted |-> seen.misrouted,
                 unasked |-> seen.unasked \cup Unasked(m, ep[t][m2.to]), env |-> seen.env]
    BY <1>1, <1>10, <2>1 DEF Merge
  <2> QED BY <2>2, <1>1, <1>5, <1>10 DEF Forwarded
<1> QED BY <1>7, <1>8, <1>9, <1>10

\* Nothing changes at an end that keeps its fields.
LEMMA EndsSame ==
  ASSUME NEW e
  PROVE  EndsChat(e, e)
BY DEF EndsChat, SameEnd

\* An end that takes an answer keeps its fields.
LEMMA TakesAnswer ==
  ASSUME ep \in [Side -> [Nums -> Peers \cup {NoEndpoint}]], NEW t \in Side, NEW k \in Nums,
         ep[t][k] \in Peers,
         ep' = [ep EXCEPT ![t] = [ep[t] EXCEPT ![k] = TookAnswer(ep[t][k])]]
  PROVE  ep' \in [Side -> [Nums -> Peers \cup {NoEndpoint}]] /\ EndsChat(ep, ep')
<1> DEFINE a == ep[t][k]
<1>1. /\ TookAnswer(a) \in Peers /\ TookAnswer(a).conv = a.conv
      /\ SameEnd(a, TookAnswer(a))
  <2>1. CASE a.awaits > 0
    <3>1. a.awaits \in Nat /\ a.awaits - 1 \in Nat
      BY <2>1 DEF Peers
    <3> QED BY <2>1, <3>1 DEF TookAnswer, Peers, SameEnd
  <2>2. CASE ~(a.awaits > 0)
    BY <2>2 DEF TookAnswer, SameEnd
  <2> QED BY <2>1, <2>2
<1>2. \A x \in Side, n \in Nums :
        ep'[x][n] = IF x = t /\ n = k THEN TookAnswer(a) ELSE ep[x][n]
  OBVIOUS
<1>3. EndsChat(ep, ep')
  BY <1>1, <1>2 DEF EndsChat, SameEnd
<1>4. ep' \in [Side -> [Nums -> Peers \cup {NoEndpoint}]]
  BY <1>1
<1> QED BY <1>3, <1>4

\* A wire from which a packet on an open channel or a global one is taken.
LEMMA Taken ==
  ASSUME wire \in [Side -> Seq(Packets)], NEW s \in Side, wire[s] # <<>>,
         Head(wire[s]).type \in Talk \cup GlobalTypes,
         wire' = [wire EXCEPT ![s] = Tail(@)]
  PROVE  wire' \in [Side -> Seq(Packets)] /\ WiresChat(wire, wire', ep)
<1>1. Tail(wire[s]) \in Seq(Packets)
  OBVIOUS
<1> QED BY <1>1 DEF WiresChat, Chats

\* What is forwarded on an open channel changes nothing that matters.
LEMMA ForwardedChats ==
  ASSUME ChannelsTyped, NEW s \in Side, wire[s] # <<>>, Head(wire[s]).type \in Talk,
         Head(wire[s]).conv \in Cids, NEW c, c \in Channel,
         End(ep, Head(wire[s]).conv, c, TheOtherSide(s)),
         OwnNum(c, TheOtherSide(s)) \in Nums, NumAt(c, s) # None,
         Forwarded(s, TheOtherSide(s), Head(wire[s]), OwnNum(c, TheOtherSide(s)))
  PROVE  /\ ep' \in [Side -> [Nums -> Peers \cup {NoEndpoint}]] /\ EndsChat(ep, ep')
         /\ wire' \in [Side -> Seq(Packets)] /\ WiresChat(wire, wire', ep)
         /\ seen'.misrouted = seen.misrouted /\ seen'.env = seen.env
         /\ seen' = [misrouted |-> seen'.misrouted, unasked |-> seen'.unasked, env |-> seen'.env]
<1> DEFINE t == TheOtherSide(s)
           m == Head(wire[s])
           k == OwnNum(c, t)
<1>0. t \in Side /\ t # s /\ TheOtherSide(t) = s /\ \A x \in Side : x = s \/ x = t
  BY TwoSides
<1>1. /\ ep \in [Side -> [Nums -> Peers \cup {NoEndpoint}]]
      /\ wire \in [Side -> Seq(Packets)]
      /\ seen = [misrouted |-> seen.misrouted, unasked |-> seen.unasked, env |-> seen.env]
  BY DEF ChannelsTyped
<1>2. k \in Ends(ep, t, m.conv) /\ ep[t][k].conv = m.conv /\ ep[t][k].remote = NumAt(c, s)
  BY <1>0 DEF End, Ends
<1>3. ep[t][k] \in Peers
  BY <1>0, <1>1, <1>2 DEF NoEndpoint, Cids
<1>4. CASE ep' = ep /\ seen' = seen /\ wire' = [wire EXCEPT ![s] = Tail(@)]
  BY <1>1, <1>4, Taken, EndsSame
<1>5. CASE /\ Replying(t, m, k) /\ ep' = ep /\ seen' = seen
           /\ \E a : Reply(a, t, m, k)
                /\ wire' = [wire EXCEPT ![s] = Tail(wire[s]), ![t] = Append(wire[t], a)]
  <2>1. PICK a : /\ Reply(a, t, m, k)
                 /\ wire' = [wire EXCEPT ![s] = Tail(wire[s]), ![t] = Append(wire[t], a)]
    BY <1>5
  <2>2. a \in Packets /\ a.conv = m.conv
    BY <2>1 DEF Reply
  <2>3. MaySay(ep, t, m.conv, a)
    BY <1>2, <1>5, <2>1 DEF MaySay, Reply, Replying, Talk
  <2>4. wire'[s] = Tail(wire[s]) /\ wire'[t] = Append(wire[t], a)
    BY <1>0, <1>1, <2>1
  <2>5. wire' \in [Side -> Seq(Packets)]
    <3>1. Tail(wire[s]) \in Seq(Packets) /\ Append(wire[t], a) \in Seq(Packets)
      BY <1>0, <1>1, <2>2
    <3> QED BY <1>1, <2>1, <3>1
  <2>6. WiresChat(wire, wire', ep)
    BY <1>0, <2>2, <2>3, <2>4 DEF WiresChat, Chats
  <2> QED BY <1>1, <1>5, <2>5, <2>6, EndsSame
<1>6. CASE /\ ep' = [ep EXCEPT ![t] = [ep[t] EXCEPT ![k] = TookAnswer(ep[t][k])]]
           /\ seen' = [misrouted |-> seen.misrouted,
                       unasked |-> seen.unasked \cup Unasked(m, ep[t][k]), env |-> seen.env]
           /\ wire' = [wire EXCEPT ![s] = Tail(@)]
  BY <1>0, <1>1, <1>3, <1>6, Taken, TakesAnswer
<1> QED BY <1>4, <1>5, <1>6 DEF Forwarded

----------------------------------------------------------------------------
\* The entry i of the packet s sent on an open channel.
TalkAt(s, i) ==
  LET m == Head(wire[s])
      t == TheOtherSide(s)
  IN  /\ m \in Packets /\ m.conv \in Cids
      /\ i \in Cids /\ channels[i] # FreeSlot /\ channels[i] \in Channel
      /\ channels[i].conv = m.conv
      /\ Up(channels, ep, wire, m.conv, i) \/ Half(channels, ep, wire, m.conv, i, t)
      /\ End(ep, m.conv, channels[i], t)
      /\ OwnNum(channels[i], t) \in Nums /\ NumAt(channels[i], s) # None
      /\ FindForData(s, m.to) = i /\ FindForClose(s, m.to) = i

\* The entry of what is said on a channel is found, and what is forwarded arrives.
LEMMA TalkFound ==
  ASSUME ChannelsInv, fatal = "no", NEW s \in Side, wire[s] # <<>>, Head(wire[s]).type \in Talk
  PROVE  \E i \in Cids :
           /\ TalkAt(s, i)
           /\ Deliver(s, TheOtherSide(s), Rewrite(s, Head(wire[s]), channels[i])) =>
                /\ Forwarded(s, TheOtherSide(s), Head(wire[s]),
                             OwnNum(channels[i], TheOtherSide(s)))
                /\ UNCHANGED awaits
<1> DEFINE m == Head(wire[s])
           t == TheOtherSide(s)
<1>0. t \in Side /\ t # s /\ \A x \in Side : x = s \/ x = t
  BY TwoSides
<1>1. FollowedState /\ ChannelsTyped
  BY DEF ChannelsInv
<1>2. PICK i \in Cids :
        /\ m \in Packets /\ m.conv \in Cids
        /\ channels[i] # FreeSlot /\ channels[i].conv = m.conv
        /\ Up(channels, ep, wire, m.conv, i) \/ Half(channels, ep, wire, m.conv, i, t)
        /\ End(ep, m.conv, channels[i], t)
        /\ m.to = NumAt(channels[i], t)
        /\ FindForData(s, m.to) = i /\ FindForClose(s, m.to) = i
  BY <1>1, TalkHead
<1>3. channels[i] \in Channel /\ (channels[i].proxied => channels[i].requestor = CLIENT)
  BY <1>1, <1>2 DEF ChannelsTyped, FollowedState, Proxied
<1>4. OwnNum(channels[i], t) \in Ends(ep, t, m.conv)
  BY <1>2 DEF End
<1>5. OwnNum(channels[i], t) \in Nums /\ ep[t][OwnNum(channels[i], t)].conv = m.conv
  BY <1>4 DEF Ends
<1>6. NumAt(channels[i], s) # None
  <2>1. channels[i].providerCh \in Nums /\ channels[i].requestorCh \in Nums
    BY <1>2, <1>3 DEF Up, Half, Channel
  <2> QED BY <2>1, NumsAssumption
          DEF NumAt, RequestorNum, ProviderNum, None, SUSSHI_SESSION_CLIENT_CHANNEL_START,
              SUSSHI_SESSION_TARGET_CHANNEL_START
<1>7. TalkAt(s, i)
  BY <1>2, <1>3, <1>5, <1>6 DEF TalkAt
<1>8. ASSUME Deliver(s, t, Rewrite(s, m, channels[i]))
      PROVE  Forwarded(s, t, m, OwnNum(channels[i], t)) /\ UNCHANGED awaits
  <2> DEFINE m2 == Rewrite(s, m, channels[i])
  <2>1. /\ m2.to = OwnNum(channels[i], t)
        /\ m2.type = m.type /\ m2.conv = m.conv /\ m2.kind = m.kind
        /\ m2.want = m.want
    BY <1>2, <1>3, Rewritten
  <2> HIDE DEF m2
  <2>2. Deliver(s, t, m2)
    BY <1>8 DEF m2
  <2>3. Forwarded(s, t, m, m2.to) /\ UNCHANGED awaits
    BY <1>1, <1>2, <1>5, <2>1, <2>2, TalkForwarded
  <2> QED BY <2>1, <2>3
<1> QED BY <1>7, <1>8

\* The step of a handler that forwards or drops what it took from an open
\* channel.
LEMMA TalkKept ==
  ASSUME ChannelsInv, fatal = "no", fatal' = "no", NEW s \in Side, wire[s] # <<>>,
         Head(wire[s]).type \in Talk, NEW i, TalkAt(s, i),
         \/ /\ Forwarded(s, TheOtherSide(s), Head(wire[s]), OwnNum(channels[i], TheOtherSide(s)))
            /\ UNCHANGED awaits
         \/ Drop(s),
         channels' \in [Cids -> Channel \cup {FreeSlot}], EntriesChat(channels, channels'),
         flags' \in [noMoreSessions : BOOLEAN, sendShellEnv : BOOLEAN,
                     replayPhase : BOOLEAN, refused : BOOLEAN],
         flags'.sendShellEnv => (flags.sendShellEnv /\ flags'.refused = flags.refused),
         used' = used
  PROVE  ChannelsInv'
<1>1. ChannelsTyped
  BY DEF ChannelsInv
<1>2. /\ ep' \in [Side -> [Nums -> Peers \cup {NoEndpoint}]] /\ EndsChat(ep, ep')
      /\ wire' \in [Side -> Seq(Packets)] /\ WiresChat(wire, wire', ep)
      /\ seen'.misrouted = seen.misrouted /\ seen'.env = seen.env
      /\ seen' = [misrouted |-> seen'.misrouted, unasked |-> seen'.unasked, env |-> seen'.env]
      /\ awaits' = awaits
  <2>1. CASE Drop(s)
    <3>1. /\ wire \in [Side -> Seq(Packets)] /\ ep' = ep /\ seen' = seen /\ awaits' = awaits
          /\ wire' = [wire EXCEPT ![s] = Tail(@)]
          /\ ep \in [Side -> [Nums -> Peers \cup {NoEndpoint}]]
          /\ seen = [misrouted |-> seen.misrouted, unasked |-> seen.unasked, env |-> seen.env]
      BY <1>1, <2>1 DEF Drop, ChannelsTyped
    <3> QED BY <3>1, Taken, EndsSame
  <2>2. CASE /\ Forwarded(s, TheOtherSide(s), Head(wire[s]),
                          OwnNum(channels[i], TheOtherSide(s)))
             /\ UNCHANGED awaits
    <3>1. /\ Head(wire[s]).conv \in Cids /\ channels[i] \in Channel
          /\ End(ep, Head(wire[s]).conv, channels[i], TheOtherSide(s))
          /\ OwnNum(channels[i], TheOtherSide(s)) \in Nums /\ NumAt(channels[i], s) # None
      BY DEF TalkAt
    <3> QED BY <1>1, <2>2, <3>1, ForwardedChats
  <2> QED BY <2>1, <2>2
<1>3. ChannelsTyped'
  BY <1>1, <1>2 DEF ChannelsTyped
<1>4. Chat(channels, ep, wire, channels', ep', wire')
  BY <1>2 DEF Chat
<1> QED BY <1>2, <1>3, <1>4, ChatKept

\* A table that is not touched, or that gets a new journal only.
LEMMA EntriesSame ==
  ASSUME NEW ch
  PROVE  EntriesChat(ch, ch)
BY DEF EntriesChat, SameEntry

\* susshi_inspect_channel_window_adjust().
LEMMA WindowKept ==
  ASSUME ChannelsInv, NEW s \in Side, WindowAdjust(s)
  PROVE  ChannelsInv'
<1>1. fatal = "no" /\ wire[s] # <<>> /\ Head(wire[s]).type = "WINDOW" /\ used' = used
  BY DEF WindowAdjust, Received
<1>2. Head(wire[s]).type \in Talk
  BY <1>1 DEF Talk
<1>3. PICK i \in Cids :
           /\ TalkAt(s, i)
           /\ Deliver(s, TheOtherSide(s), Rewrite(s, Head(wire[s]), channels[i])) =>
                /\ Forwarded(s, TheOtherSide(s), Head(wire[s]),
                             OwnNum(channels[i], TheOtherSide(s)))
                /\ UNCHANGED awaits
  BY <1>1, <1>2, TalkFound
<1>4. FindForData(s, Head(wire[s]).to) = i /\ i # 0
  BY <1>3 DEF TalkAt, Cids
<1>5. /\ Deliver(s, TheOtherSide(s), Rewrite(s, Head(wire[s]), channels[i]))
      /\ UNCHANGED <<channels, flags, fatal>>
  BY <1>4 DEF WindowAdjust
<1>6. channels' \in [Cids -> Channel \cup {FreeSlot}] /\ EntriesChat(channels, channels')
  BY <1>5, EntriesSame DEF ChannelsInv, ChannelsTyped
<1>7. flags' = flags /\ flags \in [noMoreSessions : BOOLEAN, sendShellEnv : BOOLEAN,
                                   replayPhase : BOOLEAN, refused : BOOLEAN]
  BY <1>5 DEF ChannelsInv, ChannelsTyped
<1> QED BY <1>1, <1>2, <1>3, <1>5, <1>6, <1>7, TalkKept

\* An entry that gets other values in fields that tell nothing.
LEMMA EntryChanged ==
  ASSUME channels \in [Cids -> Channel \cup {FreeSlot}], NEW i \in Cids, channels[i] # FreeSlot,
         NEW c \in Channel, SameEntry(channels[i], c), c.conv = channels[i].conv,
         c.kind = channels[i].kind, channels' = [channels EXCEPT ![i] = c]
  PROVE  channels' \in [Cids -> Channel \cup {FreeSlot}] /\ EntriesChat(channels, channels')
<1>1. c # FreeSlot
  BY DEF Channel, FreeSlot, Side, CLIENT, TARGET
<1>2. \A j \in Cids : channels'[j] = IF j = i THEN c ELSE channels[j]
  OBVIOUS
<1> QED BY <1>1, <1>2 DEF EntriesChat, SameEntry

\* fatal() ends the session, which nothing follows.
LEMMA FatalKept ==
  ASSUME ChannelsInv, NEW s \in Side, wire[s] # <<>>, NEW why, Fatal(s, why),
         why \notin {"no", "not found"}
  PROVE  ChannelsInv'
<1>1. ChannelsTyped /\ RightChannel /\ EnvWell
  BY DEF ChannelsInv
<1>2. /\ fatal' = why /\ wire' = [wire EXCEPT ![s] = Tail(@)]
      /\ UNCHANGED <<channels, flags, used, ep, seen, awaits>>
  BY DEF Fatal, Drop
<1>3. wire' \in [Side -> Seq(Packets)]
  <2>1. wire \in [Side -> Seq(Packets)]
    BY <1>1 DEF ChannelsTyped
  <2>2. wire[s] \in Seq(Packets)
    BY <2>1
  <2>3. Tail(wire[s]) \in Seq(Packets)
    BY <2>2, OfPop
  <2> QED BY <1>2, <2>1, <2>3
<1>4. ChannelsTyped'
  BY <1>1, <1>2, <1>3 DEF ChannelsTyped
<1> QED BY <1>1, <1>2, <1>4 DEF ChannelsInv, NeverReached, RightChannel, EnvWell

\* susshi_inspect_channel_data().
LEMMA DataKept ==
  ASSUME ChannelsInv, NEW s \in Side, ChannelData(s)
  PROVE  ChannelsInv'
<1> DEFINE m == Head(wire[s])
<1>1. fatal = "no" /\ wire[s] # <<>> /\ m.type = "DATA" /\ used' = used
  BY DEF ChannelData, Received
<1>2. m.type \in Talk
  BY <1>1 DEF Talk
<1>3. PICK i \in Cids :
           /\ TalkAt(s, i)
           /\ Deliver(s, TheOtherSide(s), Rewrite(s, m, channels[i])) =>
                /\ Forwarded(s, TheOtherSide(s), m, OwnNum(channels[i], TheOtherSide(s)))
                /\ UNCHANGED awaits
  BY <1>1, <1>2, TalkFound
<1> DEFINE c == channels[i]
<1>4. FindForData(s, m.to) = i /\ i # 0 /\ c # FreeSlot /\ c \in Channel
  BY <1>3 DEF TalkAt, Cids
<1>5. CASE SftpFatal(s, c) # "no" /\ Fatal(s, SftpFatal(s, c))
  BY <1>1, <1>5, FatalKept DEF SftpFatal
<1>6. CASE /\ channels' = [channels EXCEPT
                            ![i].sftp = IF c.logging = "SFTP" THEN "running" ELSE @,
                            ![i].spoken = @ \/ s = c.requestor]
           /\ IF ForwardsSsh(c, m)
              THEN Drop(s)
              ELSE Deliver(s, TheOtherSide(s), Rewrite(s, m, c))
           /\ UNCHANGED <<flags, fatal>>
  <2> DEFINE c2 == [c EXCEPT !.sftp = IF c.logging = "SFTP" THEN "running" ELSE @,
                             !.spoken = @ \/ s = c.requestor]
  <2>1. channels \in [Cids -> Channel \cup {FreeSlot}]
    BY DEF ChannelsInv, ChannelsTyped
  <2>2. channels' = [channels EXCEPT ![i] = c2]
    BY <1>6, <2>1
  <2>3. /\ c2 \in Channel /\ SameEntry(c, c2) /\ c2.conv = c.conv /\ c2.kind = c.kind
    <3>1. PICK a \in {"none", "running", "reset"} :
            a = IF c.logging = "SFTP" THEN "running" ELSE c.sftp
      BY <1>4 DEF Channel
    <3>2. PICK b \in BOOLEAN : b = (c.spoken \/ s = c.requestor)
      OBVIOUS
    <3>3. c2 = [c EXCEPT !.sftp = a, !.spoken = b]
      BY <3>1, <3>2
    <3> HIDE DEF c2
    <3> QED BY <1>4, <3>3 DEF Channel, SameEntry
  <2>4. channels' \in [Cids -> Channel \cup {FreeSlot}] /\ EntriesChat(channels, channels')
    BY <1>4, <2>1, <2>2, <2>3, EntryChanged
  <2>5. flags' = flags /\ flags \in [noMoreSessions : BOOLEAN, sendShellEnv : BOOLEAN,
                                     replayPhase : BOOLEAN, refused : BOOLEAN]
    BY <1>6 DEF ChannelsInv, ChannelsTyped
  <2>6. \/ Forwarded(s, TheOtherSide(s), m, OwnNum(c, TheOtherSide(s))) /\ UNCHANGED awaits
        \/ Drop(s)
    BY <1>3, <1>6
  <2> QED BY <1>1, <1>2, <1>3, <1>6, <2>4, <2>5, <2>6, TalkKept
<1> QED BY <1>4, <1>5, <1>6 DEF ChannelData

\* susshi_inspect_channel_request(), accepted.
LEMMA RequestKept ==
  ASSUME ChannelsInv, NEW s \in Side, ChannelRequest(s)
  PROVE  ChannelsInv'
<1> DEFINE m == Head(wire[s])
<1>1. fatal = "no" /\ wire[s] # <<>> /\ m.type = "REQUEST" /\ used' = used
  BY DEF ChannelRequest, Received
<1>2. m.type \in Talk
  BY <1>1 DEF Talk
<1>3. PICK i \in Cids :
           /\ TalkAt(s, i)
           /\ Deliver(s, TheOtherSide(s), Rewrite(s, m, channels[i])) =>
                /\ Forwarded(s, TheOtherSide(s), m, OwnNum(channels[i], TheOtherSide(s)))
                /\ UNCHANGED awaits
  BY <1>1, <1>2, TalkFound
<1> DEFINE c == channels[i]
<1>4. FindForData(s, m.to) = i /\ i # 0 /\ c # FreeSlot /\ c \in Channel
  BY <1>3 DEF TalkAt, Cids
<1>5. /\ channels' = [channels EXCEPT ![i].logging = LoggingAfter(m.kind, @)]
      /\ flags' = [flags EXCEPT !.replayPhase = FALSE]
      /\ Deliver(s, TheOtherSide(s), Rewrite(s, m, c))
      /\ UNCHANGED fatal
  BY <1>4 DEF ChannelRequest
<1> DEFINE c2 == [c EXCEPT !.logging = LoggingAfter(m.kind, c.logging)]
<1>6. channels \in [Cids -> Channel \cup {FreeSlot}]
  BY DEF ChannelsInv, ChannelsTyped
<1>7. channels' = [channels EXCEPT ![i] = c2]
  BY <1>5, <1>6
<1>8. LoggingAfter(m.kind, c.logging) \in Logging
  BY <1>4 DEF LoggingAfter, ExecLogging, SubsystemLogging, Logging, Channel
<1>9. c2 \in Channel /\ SameEntry(c, c2) /\ c2.conv = c.conv /\ c2.kind = c.kind
  BY <1>4, <1>8 DEF Channel, SameEntry
<1>10. channels' \in [Cids -> Channel \cup {FreeSlot}] /\ EntriesChat(channels, channels')
  BY <1>4, <1>6, <1>7, <1>9, EntryChanged
<1>11. flags \in [noMoreSessions : BOOLEAN, sendShellEnv : BOOLEAN,
                  replayPhase : BOOLEAN, refused : BOOLEAN]
  BY DEF ChannelsInv, ChannelsTyped
<1>12. /\ flags' \in [noMoreSessions : BOOLEAN, sendShellEnv : BOOLEAN,
                      replayPhase : BOOLEAN, refused : BOOLEAN]
       /\ flags'.sendShellEnv = flags.sendShellEnv /\ flags'.refused = flags.refused
  BY <1>5, <1>11
<1> QED BY <1>1, <1>2, <1>3, <1>5, <1>10, <1>12, TalkKept

\* An answer is that of the channel a failure is looked up in, unless it is a
\* success of the peer that opened it.
AnswerPassed(s, i) ==
  /\ flags.replayPhase => Drop(s)
  /\ ~flags.replayPhase =>
       Deliver(s, TheOtherSide(s), Rewrite(s, Head(wire[s]), channels[i]))
  /\ UNCHANGED <<channels, flags, fatal>>

\* An answer whose channel is known is passed on or dropped, or is the success
\* of the opener, which is looked for on the wrong side.
LEMMA AnsweredFor ==
  ASSUME NEW s \in Side, NEW i, i # 0, FindForClose(s, Head(wire[s]).to) = i,
         ChannelSuccess(s) \/ ChannelFailure(s)
  PROVE  Fatal(s, "success of the opener") \/ AnswerPassed(s, i)
<1> DEFINE n == Head(wire[s]).to
<1>1. FindForAnswer(s, n) # 0 => FindForAnswer(s, n) = i
  BY DEF FindForClose, FindForAnswer, OrElse
<1>2. CASE ChannelFailure(s)
  BY <1>2 DEF ChannelFailure, Answered, AnswerPassed
<1>3. CASE ChannelSuccess(s)
  <2>1. CASE FindForAnswer(s, n) = 0
    BY <1>3, <2>1 DEF ChannelSuccess, Answered
  <2>2. CASE FindForAnswer(s, n) # 0
    BY <1>1, <1>3, <2>2 DEF ChannelSuccess, Answered, AnswerPassed
  <2> QED BY <2>1, <2>2
<1> QED BY <1>2, <1>3

\* susshi_inspect_channel_success() and _failure().
LEMMA AnsweredKept ==
  ASSUME ChannelsInv, NEW s \in Side, ChannelSuccess(s) \/ ChannelFailure(s)
  PROVE  ChannelsInv'
<1> DEFINE m == Head(wire[s])
<1>1. fatal = "no" /\ wire[s] # <<>> /\ m.type \in {"SUCCESS", "FAILURE"} /\ used' = used
  BY DEF ChannelSuccess, ChannelFailure, Answered, Received
<1>2. m.type \in Talk
  BY <1>1 DEF Talk
<1>3. PICK i \in Cids :
           /\ TalkAt(s, i)
           /\ Deliver(s, TheOtherSide(s), Rewrite(s, m, channels[i])) =>
                /\ Forwarded(s, TheOtherSide(s), m, OwnNum(channels[i], TheOtherSide(s)))
                /\ UNCHANGED awaits
  BY <1>1, <1>2, TalkFound
<1>4. FindForClose(s, m.to) = i /\ i # 0
  BY <1>3 DEF TalkAt, Cids
<1>5. Fatal(s, "success of the opener") \/ AnswerPassed(s, i)
  BY <1>4, AnsweredFor
<1>6. CASE Fatal(s, "success of the opener")
  BY <1>1, <1>6, FatalKept
<1>7. CASE AnswerPassed(s, i)
  <2>0. /\ Drop(s) \/ Deliver(s, TheOtherSide(s), Rewrite(s, m, channels[i]))
        /\ UNCHANGED <<channels, flags, fatal>>
    BY <1>7 DEF AnswerPassed
  <2>1. channels' \in [Cids -> Channel \cup {FreeSlot}] /\ EntriesChat(channels, channels')
    BY <2>0, EntriesSame DEF ChannelsInv, ChannelsTyped
  <2>2. flags' = flags /\ flags \in [noMoreSessions : BOOLEAN, sendShellEnv : BOOLEAN,
                                     replayPhase : BOOLEAN, refused : BOOLEAN]
    BY <2>0 DEF ChannelsInv, ChannelsTyped
  <2> QED BY <1>1, <1>2, <1>3, <2>0, <2>1, <2>2, TalkKept
<1> QED BY <1>5, <1>6, <1>7

\* susshi_inspect_channel_eof().
LEMMA EofKept ==
  ASSUME ChannelsInv, NEW s \in Side, ChannelEof(s)
  PROVE  ChannelsInv'
<1> DEFINE m == Head(wire[s])
<1>1. fatal = "no" /\ wire[s] # <<>> /\ m.type = "EOF" /\ used' = used
  BY DEF ChannelEof, Received
<1>2. m.type \in Talk
  BY <1>1 DEF Talk
<1>3. PICK i \in Cids :
           /\ TalkAt(s, i)
           /\ Deliver(s, TheOtherSide(s), Rewrite(s, m, channels[i])) =>
                /\ Forwarded(s, TheOtherSide(s), m, OwnNum(channels[i], TheOtherSide(s)))
                /\ UNCHANGED awaits
  BY <1>1, <1>2, TalkFound
<1>4. FindForData(s, m.to) = i /\ i # 0
  BY <1>3 DEF TalkAt, Cids
<1>5. /\ Deliver(s, TheOtherSide(s), Rewrite(s, m, channels[i]))
      /\ UNCHANGED <<channels, flags, fatal>>
  BY <1>4 DEF ChannelEof
<1>6. channels' \in [Cids -> Channel \cup {FreeSlot}] /\ EntriesChat(channels, channels')
  BY <1>5, EntriesSame DEF ChannelsInv, ChannelsTyped
<1>7. flags' = flags /\ flags \in [noMoreSessions : BOOLEAN, sendShellEnv : BOOLEAN,
                                   replayPhase : BOOLEAN, refused : BOOLEAN]
  BY <1>5 DEF ChannelsInv, ChannelsTyped
<1> QED BY <1>1, <1>2, <1>3, <1>5, <1>6, <1>7, TalkKept

\* The gateway's own FAILURE reaches the end with the requestor's number, of
\* the channel it is about or of another one.
LEMMA Told ==
  ASSUME ChannelsTyped, NEW s \in Side, wire[s] # <<>>, Head(wire[s]).type \in Talk,
         NEW m, m.type = "FAILURE", m.kind = "rejected", m.conv \in Cids, m.to \in Nums,
         Deliver(s, s, m)
  PROVE  /\ ep' \in [Side -> [Nums -> Peers \cup {NoEndpoint}]] /\ EndsChat(ep, ep')
         /\ wire' = [wire EXCEPT ![s] = Tail(@)]
         /\ seen'.misrouted \subseteq seen.misrouted \cup {<<"FAILURE", "rejected">>}
         /\ seen'.env = seen.env /\ awaits' = awaits
         /\ seen' = [misrouted |-> seen'.misrouted, unasked |-> seen'.unasked, env |-> seen'.env]
<1>1. PICK r \in Reactions(s, m) :
        /\ ep' = [ep EXCEPT ![s] = r.ep]
        /\ wire' = [[wire EXCEPT ![s] = Tail(@)] EXCEPT ![s] = @ \o r.out]
        /\ seen' = Merge(seen, r.seen)
        /\ UNCHANGED awaits
  BY DEF Deliver
<1>2. /\ ep \in [Side -> [Nums -> Peers \cup {NoEndpoint}]]
      /\ wire \in [Side -> Seq(Packets)]
      /\ seen = [misrouted |-> seen.misrouted, unasked |-> seen.unasked, env |-> seen.env]
  BY DEF ChannelsTyped
<1>3. r.out = <<>> => wire' = [wire EXCEPT ![s] = Tail(@)]
  <2>1. Tail(wire[s]) \in Seq(Packets)
    BY <1>2
  <2>2. Tail(wire[s]) \o <<>> = Tail(wire[s])
    BY <2>1
  <2> QED BY <2>2, <1>1, <1>2
<1>4. CASE ep[s][m.to].conv = m.conv
  <2>1. m.type \in Talk
    BY DEF Talk
  <2>2. /\ r.out = <<>> /\ r.ep = [ep[s] EXCEPT ![m.to] = TookAnswer(ep[s][m.to])]
        /\ r.seen = [misrouted |-> {}, unasked |-> Unasked(m, ep[s][m.to]), env |-> {}]
    BY <1>4, <2>1, TalkReacts DEF Silent, Replying
  <2>3. ep[s][m.to] \in Peers
    BY <1>2, <1>4 DEF NoEndpoint, Cids
  <2>4. ep' \in [Side -> [Nums -> Peers \cup {NoEndpoint}]] /\ EndsChat(ep, ep')
    BY <1>1, <1>2, <2>2, <2>3, TakesAnswer
  <2> QED BY <1>1, <1>3, <2>2, <2>4 DEF Merge
<1>5. CASE ep[s][m.to].conv # m.conv
  <2>1. r = [ep |-> ep[s], out |-> <<>>,
             seen |-> [Nothing EXCEPT !.misrouted = {<<m.type, m.kind>>}]]
    BY <1>5 DEF Reactions
  <2>2. ep' = ep
    BY <1>1, <1>2, <2>1
  <2>3. seen' = [misrouted |-> seen.misrouted \cup {<<m.type, m.kind>>},
                 unasked |-> seen.unasked, env |-> seen.env]
    BY <1>1, <2>1 DEF Merge, Nothing
  <2>4. EndsChat(ep, ep')
    BY <2>2, EndsSame
  <2>5. wire' = [wire EXCEPT ![s] = Tail(@)]
    BY <1>3, <2>1
  <2>6. /\ seen'.misrouted \subseteq seen.misrouted \cup {<<"FAILURE", "rejected">>}
        /\ seen'.env = seen.env
        /\ seen' = [misrouted |-> seen'.misrouted, unasked |-> seen'.unasked, env |-> seen'.env]
    <3>1. <<m.type, m.kind>> = <<"FAILURE", "rejected">>
      OBVIOUS
    <3> QED BY <2>3, <3>1
  <2>7. awaits' = awaits
    BY <1>1
  <2>8. ep' \in [Side -> [Nums -> Peers \cup {NoEndpoint}]]
    BY <1>2, <2>2
  <2> QED BY <2>4, <2>5, <2>6, <2>7, <2>8
<1> QED BY <1>4, <1>5

\* susshi_inspect_channel_request(), refused.
LEMMA RejectedKept ==
  ASSUME ChannelsInv, NEW s \in Side, ChannelRequestRejected(s)
  PROVE  ChannelsInv'
<1> DEFINE m == Head(wire[s])
<1>0. ChannelsTyped
  BY DEF ChannelsInv
<1>1. fatal = "no" /\ wire[s] # <<>> /\ m.type = "REQUEST" /\ used' = used
  BY DEF ChannelRequestRejected, Received
<1>2. m.type \in Talk
  BY <1>1 DEF Talk
<1>3. PICK i \in Cids : TalkAt(s, i)
  BY <1>1, <1>2, TalkFound
<1>4. FindForData(s, m.to) = i /\ channels[i] \in Channel /\ m.conv \in Cids
  BY <1>3 DEF TalkAt
<1>5. /\ flags' = [flags EXCEPT !.replayPhase = FALSE, !.sendShellEnv = FALSE,
                                !.refused = FALSE]
      /\ IF m.want
         THEN Deliver(s, s, Packet("FAILURE", channels[i].requestorCh, m.conv, "rejected"))
         ELSE Drop(s)
      /\ UNCHANGED <<channels, fatal>>
  BY <1>4 DEF ChannelRequestRejected, RequestRefused
<1>6. /\ ep' \in [Side -> [Nums -> Peers \cup {NoEndpoint}]] /\ EndsChat(ep, ep')
      /\ wire' = [wire EXCEPT ![s] = Tail(@)]
      /\ seen'.misrouted \subseteq seen.misrouted \cup {<<"FAILURE", "rejected">>}
      /\ seen'.env = seen.env /\ awaits' = awaits
      /\ seen' = [misrouted |-> seen'.misrouted, unasked |-> seen'.unasked, env |-> seen'.env]
  <2>1. CASE m.want
    <3> DEFINE f == Packet("FAILURE", channels[i].requestorCh, m.conv, "rejected")
    <3>1. /\ f.type = "FAILURE" /\ f.kind = "rejected" /\ f.conv \in Cids /\ f.to \in Nums
      BY <1>4 DEF Packet, Channel
    <3>2. Deliver(s, s, f)
      BY <1>5, <2>1
    <3> HIDE DEF f
    <3> QED BY <1>0, <1>1, <1>2, <3>1, <3>2, Told
  <2>2. CASE ~m.want
    BY <1>0, <1>5, <2>2, EndsSame DEF Drop, ChannelsTyped
  <2> QED BY <2>1, <2>2
<1>7. wire' \in [Side -> Seq(Packets)] /\ WiresChat(wire, wire', ep)
  BY <1>0, <1>1, <1>2, <1>6, Taken DEF ChannelsTyped
<1>8. flags \in [noMoreSessions : BOOLEAN, sendShellEnv : BOOLEAN,
                 replayPhase : BOOLEAN, refused : BOOLEAN]
  BY <1>0 DEF ChannelsTyped
<1>9. /\ flags' \in [noMoreSessions : BOOLEAN, sendShellEnv : BOOLEAN,
                     replayPhase : BOOLEAN, refused : BOOLEAN]
      /\ ~flags'.sendShellEnv
  BY <1>5, <1>8
<1>10. ChannelsTyped'
  BY <1>0, <1>1, <1>5, <1>6, <1>7, <1>9 DEF ChannelsTyped
<1>11. Chat(channels, ep, wire, channels', ep', wire')
  BY <1>5, <1>6, <1>7, EntriesSame DEF Chat
<1> QED BY <1>1, <1>5, <1>6, <1>9, <1>10, <1>11, ChatKept

\* A wire on which a global packet, or one on an open channel, is sent, when
\* the first packet of the other wire was taken and when it was not.
LEMMA Said ==
  ASSUME wire \in [Side -> Seq(Packets)], NEW t \in Side, NEW p \in Packets,
         p.type \in GlobalTypes \/ (p.conv \in Cids /\ MaySay(ep, t, p.conv, p)),
         \/ wire' = [wire EXCEPT ![t] = Append(wire[t], p)]
         \/ LET s == TheOtherSide(t) IN
            /\ wire[s] # <<>> /\ Head(wire[s]).type \in Talk \cup GlobalTypes
            /\ wire' = [wire EXCEPT ![s] = Tail(wire[s]), ![t] = Append(wire[t], p)]
  PROVE  wire' \in [Side -> Seq(Packets)] /\ WiresChat(wire, wire', ep)
<1> DEFINE s == TheOtherSide(t)
<1>0. s \in Side /\ t # s /\ \A x \in Side : x = s \/ x = t
  BY TwoSides
<1>1. wire[s] \in Seq(Packets) /\ wire[t] \in Seq(Packets)
  BY <1>0
<1>2. Append(wire[t], p) \in Seq(Packets) /\ (wire[s] # <<>> => Tail(wire[s]) \in Seq(Packets))
  BY <1>1
<1>3. wire' \in [Side -> Seq(Packets)]
  BY <1>0, <1>2
<1>4. wire'[t] = Append(wire[t], p)
  BY <1>0
<1>5. \/ wire'[s] = wire[s]
      \/ /\ wire[s] # <<>> /\ wire'[s] = Tail(wire[s])
         /\ Head(wire[s]).type \in Talk \cup GlobalTypes
  BY <1>0
<1> QED BY <1>0, <1>3, <1>4, <1>5 DEF WiresChat, Chats

\* A step about global requests.
LEMMA GlobalKept ==
  ASSUME ChannelsInv, fatal = "no", UNCHANGED <<fatal, channels, ep>>,
         used'.opens = used.opens, used' \in [opens : 0 .. MaxOpens, sends : Nat],
         wire' \in [Side -> Seq(Packets)], WiresChat(wire, wire', ep),
         awaits' \in [Side -> Nat],
         flags' \in [noMoreSessions : BOOLEAN, sendShellEnv : BOOLEAN,
                     replayPhase : BOOLEAN, refused : BOOLEAN],
         flags'.sendShellEnv = flags.sendShellEnv, flags'.refused = flags.refused,
         NEW u, seen' = [misrouted |-> seen.misrouted, unasked |-> u, env |-> seen.env]
  PROVE  ChannelsInv'
<1>1. ChannelsTyped'
  BY DEF ChannelsInv, ChannelsTyped
<1>2. Chat(channels, ep, wire, channels', ep', wire')
  BY EntriesSame, EndsSame DEF Chat
<1>3. seen'.env = seen.env /\ seen'.misrouted = seen.misrouted
  OBVIOUS
<1> QED BY <1>1, <1>2, <1>3, ChatKept

\* How a peer answers a global request.
GlobalReply(m, out) ==
  /\ m.want => \E a \in {"GSUCCESS", "GFAILURE"}, k \in {"", "port"} :
                 out = <<Packet(a, None, 0, k)>>
  /\ ~m.want => out = <<>>

\* A peer reacts to a global request with such an answer and nothing else.
LEMMA GlobalReacts ==
  ASSUME NEW t, NEW m, m.type = "GLOBAL", NEW r \in Reactions(t, m)
  PROVE  r.ep = ep[t] /\ r.seen = Nothing /\ GlobalReply(m, r.out)
<1>1. CASE m.want
  <2>1. PICK a \in GlobalReplies(m) :
           r = [ep |-> ep[t], out |-> <<Packet(a[1], None, 0, a[2])>>, seen |-> Nothing]
    BY <1>1 DEF Reactions
  <2>2. a[1] \in {"GSUCCESS", "GFAILURE"} /\ a[2] \in {"", "port"}
    <3>1. CASE a = <<"GFAILURE", "">>
      BY <3>1
    <3>2. CASE a = <<"GSUCCESS", IF m.kind = "tcpip-forward 0" THEN "port" ELSE "">>
      BY <3>2
    <3> QED BY <3>1, <3>2 DEF GlobalReplies
  <2> QED BY <1>1, <2>1, <2>2 DEF GlobalReply
<1>2. CASE ~m.want
  <2>1. r = [ep |-> ep[t], out |-> <<>>, seen |-> Nothing]
    BY <1>2 DEF Reactions
  <2> QED BY <1>2, <2>1 DEF GlobalReply
<1> QED BY <1>1, <1>2

\* A packet that belongs to no channel carries these numbers.
LEMMA NoChannelNumbers == None \in Int /\ 0 \in 0 .. MaxOpens
BY NumsAssumption DEF None

\* A peer's answer to a global request is a packet.
LEMMA GlobalReplyMade ==
  ASSUME NEW a \in {"GSUCCESS", "GFAILURE"}, NEW k \in {"", "port"}
  PROVE  Packet(a, None, 0, k) \in Packets /\ Packet(a, None, 0, k).type \in GlobalTypes
<1>1. a \in PacketTypes /\ a \in GlobalTypes /\ k \in Kinds
  BY DEF PacketTypes, GlobalTypes, Kinds
<1>2. None \in Int /\ 0 \in 0 .. MaxOpens
  BY NoChannelNumbers
<1>3. Packet(a, None, 0, k) \in Packets
  BY <1>1, <1>2, PacketMade
<1> QED BY <1>1, <1>3 DEF Packet

\* Sending one packet appends it.
LEMMA OneAppended ==
  ASSUME NEW S, NEW q \in Seq(S), NEW p \in S
  PROVE  q \o <<p>> = Append(q, p)
OBVIOUS

\* susshi_inspect_global_request(), accepted.
LEMMA GlobalRequestKept ==
  ASSUME ChannelsInv, NEW s \in Side, GlobalRequest(s)
  PROVE  ChannelsInv'
<1> DEFINE m == Head(wire[s])
           t == TheOtherSide(s)
<1>0. ChannelsTyped /\ t \in Side /\ t # s /\ TheOtherSide(t) = s
  BY TwoSides DEF ChannelsInv
<1>1. fatal = "no" /\ wire[s] # <<>> /\ m.type = "GLOBAL" /\ used' = used
  BY DEF GlobalRequest, Received
<1>2. /\ flags' = [flags EXCEPT !.noMoreSessions = @ \/ m.kind = "no-more-sessions"]
      /\ Deliver(s, t, m)
      /\ UNCHANGED <<channels, fatal>>
  BY DEF GlobalRequest
<1>3. PICK r \in Reactions(t, m) :
        /\ ep' = [ep EXCEPT ![t] = r.ep]
        /\ wire' = [[wire EXCEPT ![s] = Tail(@)] EXCEPT ![t] = @ \o r.out]
        /\ seen' = Merge(seen, r.seen)
        /\ UNCHANGED awaits
  BY <1>2 DEF Deliver
<1>4. /\ ep \in [Side -> [Nums -> Peers \cup {NoEndpoint}]]
      /\ wire \in [Side -> Seq(Packets)] /\ awaits \in [Side -> Nat]
      /\ seen = [misrouted |-> seen.misrouted, unasked |-> seen.unasked, env |-> seen.env]
      /\ used \in [opens : 0 .. MaxOpens, sends : Nat]
      /\ flags \in [noMoreSessions : BOOLEAN, sendShellEnv : BOOLEAN,
                    replayPhase : BOOLEAN, refused : BOOLEAN]
  BY <1>0 DEF ChannelsTyped
<1>5. /\ r.ep = ep[t] /\ r.seen = Nothing
      /\ \/ r.out = <<>>
         \/ \E a \in {"GSUCCESS", "GFAILURE"}, k \in {"", "port"} :
              r.out = <<Packet(a, None, 0, k)>>
  <2>1. r.ep = ep[t] /\ r.seen = Nothing /\ GlobalReply(m, r.out)
    BY <1>1, GlobalReacts
  <2> QED BY <2>1 DEF GlobalReply
<1>6. ep' = ep /\ seen' = [misrouted |-> seen.misrouted, unasked |-> seen.unasked, env |-> seen.env]
  <2>1. ep' = ep
    BY <1>0, <1>3, <1>4, <1>5
  <2>2. r.seen = Nothing => seen' = seen
    BY <1>3, <1>4 DEF Merge, Nothing
  <2>3. seen' = seen
    BY <1>5, <2>2
  <2> QED BY <1>4, <2>1, <2>3
<1>7. wire' \in [Side -> Seq(Packets)] /\ WiresChat(wire, wire', ep)
  <2>0. m.type \in Talk \cup GlobalTypes
    BY <1>1 DEF GlobalTypes
  <2>1. CASE r.out = <<>>
    <3>1. wire[t] \o <<>> = wire[t]
      BY <1>0, <1>4
    <3>2. wire' = [wire EXCEPT ![s] = Tail(@)]
      BY <1>0, <1>3, <1>4, <2>1, <3>1
    <3> QED BY <1>1, <1>4, <2>0, <3>2, Taken
  <2>2. ASSUME NEW a \in {"GSUCCESS", "GFAILURE"}, NEW k \in {"", "port"},
               r.out = <<Packet(a, None, 0, k)>>
        PROVE  wire' \in [Side -> Seq(Packets)] /\ WiresChat(wire, wire', ep)
    <3> DEFINE p == Packet(a, None, 0, k)
    <3>1. p \in Packets /\ p.type \in GlobalTypes
      BY GlobalReplyMade
    <3>2. r.out = <<p>>
      BY <2>2
    <3> HIDE DEF p
    <3>3. wire' = [wire EXCEPT ![s] = Tail(wire[s]), ![t] = Append(wire[t], p)]
      <4>0. wire[t] \in Seq(Packets) /\ p \in Packets
        BY <1>0, <1>4, <3>1
      <4>1. wire[t] \o <<p>> = Append(wire[t], p)
        BY <4>0, OneAppended
      <4> QED BY <1>0, <1>3, <1>4, <3>2, <4>1
    <3> QED BY <1>0, <1>1, <1>4, <2>0, <3>1, <3>3, Said
  <2> QED BY <1>5, <2>1, <2>2
<1>8. /\ flags' \in [noMoreSessions : BOOLEAN, sendShellEnv : BOOLEAN,
                     replayPhase : BOOLEAN, refused : BOOLEAN]
      /\ flags'.sendShellEnv = flags.sendShellEnv /\ flags'.refused = flags.refused
  BY <1>2, <1>4
<1> QED BY <1>1, <1>2, <1>3, <1>4, <1>6, <1>7, <1>8, GlobalKept

\* An answer to a global request, the gateway's or a peer's.
LEMMA GlobalAnswerKept ==
  ASSUME ChannelsInv, fatal = "no", NEW s \in Side, wire[s] # <<>>,
         Head(wire[s]).type \in GlobalTypes, NEW t \in Side, NEW due, NEW why,
         GlobalAnswer(t, due, why), wire' = [wire EXCEPT ![s] = Tail(@)],
         UNCHANGED <<channels, flags, fatal, ep, used>>
  PROVE  ChannelsInv'
<1>1. /\ wire \in [Side -> Seq(Packets)] /\ awaits \in [Side -> Nat]
      /\ seen = [misrouted |-> seen.misrouted, unasked |-> seen.unasked, env |-> seen.env]
      /\ used \in [opens : 0 .. MaxOpens, sends : Nat]
      /\ flags \in [noMoreSessions : BOOLEAN, sendShellEnv : BOOLEAN,
                    replayPhase : BOOLEAN, refused : BOOLEAN]
  BY DEF ChannelsInv, ChannelsTyped
<1>2. wire' \in [Side -> Seq(Packets)] /\ WiresChat(wire, wire', ep)
  BY <1>1, Taken
<1>3. awaits' \in [Side -> Nat]
  BY <1>1 DEF GlobalAnswer
<1> DEFINE u == IF awaits[t] > 0 /\ due THEN seen.unasked
                ELSE seen.unasked \cup {<<"GLOBAL", why>>}
<1>4. seen' = [misrouted |-> seen.misrouted, unasked |-> u, env |-> seen.env]
  BY <1>1 DEF GlobalAnswer
<1> HIDE DEF u
<1> QED BY <1>1, <1>2, <1>3, <1>4, GlobalKept

\* Global requests the gateway answers itself, and answers it forwards.
LEMMA GlobalAnswersKept ==
  ASSUME ChannelsInv, NEW s \in Side,
         \/ GlobalRequestRejected(s) \/ ProveHostkeys(s)
         \/ RequestSuccess(s) \/ RequestFailure(s)
  PROVE  ChannelsInv'
<1>0. TheOtherSide(s) \in Side
  BY TwoSides
<1>1. CASE GlobalRequestRejected(s)
  BY <1>1, GlobalAnswerKept DEF GlobalRequestRejected, Received, GlobalTypes
<1>2. CASE ProveHostkeys(s)
  BY <1>2, GlobalAnswerKept DEF ProveHostkeys, Received, GlobalTypes
<1>3. CASE RequestSuccess(s)
  BY <1>0, <1>3, GlobalAnswerKept DEF RequestSuccess, Received, GlobalTypes
<1>4. CASE RequestFailure(s)
  BY <1>0, <1>4, GlobalAnswerKept DEF RequestFailure, Received, GlobalTypes
<1> QED BY <1>1, <1>2, <1>3, <1>4

\* An answer to a global request that is swallowed.
LEMMA DroppedKept ==
  ASSUME ChannelsInv, NEW s \in Side, RequestSuccessDropped(s)
  PROVE  ChannelsInv'
<1>1. /\ fatal = "no" /\ wire[s] # <<>> /\ Head(wire[s]).type \in GlobalTypes
      /\ wire' = [wire EXCEPT ![s] = Tail(@)]
      /\ UNCHANGED <<channels, flags, fatal, ep, used, seen, awaits>>
  BY DEF RequestSuccessDropped, Received, Drop, GlobalTypes
<1>2. /\ wire \in [Side -> Seq(Packets)] /\ awaits \in [Side -> Nat]
      /\ seen = [misrouted |-> seen.misrouted, unasked |-> seen.unasked, env |-> seen.env]
      /\ used \in [opens : 0 .. MaxOpens, sends : Nat]
      /\ flags \in [noMoreSessions : BOOLEAN, sendShellEnv : BOOLEAN,
                    replayPhase : BOOLEAN, refused : BOOLEAN]
  BY DEF ChannelsInv, ChannelsTyped
<1>3. wire' \in [Side -> Seq(Packets)] /\ WiresChat(wire, wire', ep)
  BY <1>1, <1>2, Taken
<1> QED BY <1>1, <1>2, <1>3, GlobalKept

\* A session is given up over an agent channel it refuses, or over an answer
\* its packet filter does.
LEMMA GivenUpKept ==
  ASSUME ChannelsInv, NEW s \in Side, AgentOpenRejected(s) \/ AnswerFiltered(s)
  PROVE  ChannelsInv'
<1>1. CASE AgentOpenRejected(s)
  BY <1>1, FatalKept DEF AgentOpenRejected, Received
<1>2. CASE AnswerFiltered(s)
  BY <1>2, FatalKept DEF AnswerFiltered, Received
<1> QED BY <1>1, <1>2

\* One more packet is counted.
LEMMA CountsSend ==
  ASSUME used \in [opens : 0 .. MaxOpens, sends : Nat],
         used' = [used EXCEPT !.sends = @ + 1]
  PROVE  used' \in [opens : 0 .. MaxOpens, sends : Nat] /\ used'.opens = used.opens
<1>1. used.opens \in 0 .. MaxOpens /\ used.sends + 1 \in Nat
  OBVIOUS
<1>2. used' = [opens |-> used.opens, sends |-> used.sends + 1]
  OBVIOUS
<1> QED BY <1>1, <1>2

\* A peer says something on an open channel, or sends a global request.
LEMMA PeerSendsKept ==
  ASSUME ChannelsInv, NEW p \in Sends, PeerSends(p[1], p[2], p[3], p[4])
  PROVE  ChannelsInv'
<1> DEFINE s == p[1]
           want == p[4]
<1>0. /\ s \in Side /\ want \in BOOLEAN
      /\ p[2] \in {"DATA", "REQUEST", "WINDOW", "EOF"} /\ p[3] \in Kinds
  BY SendsAssumption DEF Kinds
<1>1. PICK n \in Usable(s) :
         /\ used' = [used EXCEPT !.sends = @ + 1]
         /\ ep' = [ep EXCEPT ![s][n].awaits = IF want THEN @ + 1 ELSE @]
         /\ Queue(s, [Packet(p[2], ep[s][n].remote, ep[s][n].conv, p[3])
                        EXCEPT !.want = want])
         /\ fatal = "no" /\ UNCHANGED <<channels, flags, fatal, awaits, seen>>
  BY DEF PeerSends
<1> DEFINE a == ep[s][n]
           m == [Packet(p[2], a.remote, a.conv, p[3]) EXCEPT !.want = want]
<1>2. /\ ep \in [Side -> [Nums -> Peers \cup {NoEndpoint}]] /\ awaits \in [Side -> Nat]
      /\ wire \in [Side -> Seq(Packets)] /\ used \in [opens : 0 .. MaxOpens, sends : Nat]
      /\ flags \in [noMoreSessions : BOOLEAN, sendShellEnv : BOOLEAN,
                    replayPhase : BOOLEAN, refused : BOOLEAN]
  BY DEF ChannelsInv, ChannelsTyped
<1>3. n \in Nums /\ a \in Peers /\ a.remote # None /\ ~a.sent
  BY <1>0, <1>2 DEF Usable, Live
<1>4. /\ m \in Packets /\ m.type = p[2] /\ m.conv = a.conv /\ m.to = a.remote
  <2>1. /\ p[2] \in PacketTypes /\ p[2] \notin GlobalTypes /\ a.remote \in Int
        /\ a.conv \in 0 .. MaxOpens /\ a.conv # 0
    BY <1>0, <1>3, NumsAssumption DEF PacketTypes, GlobalTypes, Peers, Cids
  <2> QED BY <1>0, <2>1 DEF Packets, Packet, None
<1>5. m.conv \in Cids /\ MaySay(ep, s, m.conv, m)
  BY <1>0, <1>3, <1>4 DEF MaySay, Talk, Ends, Peers
<1>6. wire' = [wire EXCEPT ![s] = Append(wire[s], m)]
  BY <1>1 DEF Queue
<1> HIDE DEF m
<1>7. wire' \in [Side -> Seq(Packets)] /\ WiresChat(wire, wire', ep)
  BY <1>0, <1>2, <1>4, <1>5, <1>6, Said
<1> DEFINE b == [a EXCEPT !.awaits = IF want THEN a.awaits + 1 ELSE a.awaits]
<1>8. b \in Peers /\ b.conv = a.conv /\ SameEnd(a, b)
  BY <1>3 DEF Peers, SameEnd
<1>9. ep' = [ep EXCEPT ![s] = [ep[s] EXCEPT ![n] = b]]
  BY <1>0, <1>1, <1>2, <1>3
<1> HIDE DEF b
<1>10. /\ ep' \in [Side -> [Nums -> Peers \cup {NoEndpoint}]]
       /\ EndsChat(ep, ep')
  <2>1. \A x \in Side, k \in Nums : ep'[x][k] = IF x = s /\ k = n THEN b ELSE ep[x][k]
    BY <1>0, <1>2, <1>3, <1>9
  <2>2. EndsChat(ep, ep')
    BY <1>8, <2>1 DEF EndsChat, SameEnd
  <2> QED BY <1>0, <1>2, <1>3, <1>8, <1>9, <2>2
<1>11. used' \in [opens : 0 .. MaxOpens, sends : Nat] /\ used'.opens = used.opens
  BY <1>1, <1>2, CountsSend
<1>12. ChannelsTyped'
  BY <1>1, <1>7, <1>10, <1>11 DEF ChannelsInv, ChannelsTyped
<1>13. Chat(channels, ep, wire, channels', ep', wire')
  BY <1>1, <1>7, <1>10, EntriesSame DEF Chat
<1> QED BY <1>1, <1>11, <1>12, <1>13, ChatKept

\* A peer sends a global request.
LEMMA PeerGlobalKept ==
  ASSUME ChannelsInv, NEW g \in Globals, PeerSendsGlobal(g)
  PROVE  ChannelsInv'
<1> DEFINE m == [Packet("GLOBAL", None, 0, g[2]) EXCEPT !.want = g[3]]
<1>0. g[1] \in Side /\ g[3] \in BOOLEAN /\ g[2] \in Kinds
  BY SendsAssumption DEF Kinds
<1>1. /\ fatal = "no"
      /\ used' = [used EXCEPT !.sends = @ + 1]
      /\ awaits' = [awaits EXCEPT ![g[1]] = IF g[3] THEN @ + 1 ELSE @]
      /\ wire' = [wire EXCEPT ![g[1]] = Append(wire[g[1]], m)]
      /\ UNCHANGED <<channels, flags, fatal, ep, seen>>
  BY DEF PeerSendsGlobal, Queue
<1>2. /\ awaits \in [Side -> Nat]
      /\ wire \in [Side -> Seq(Packets)] /\ used \in [opens : 0 .. MaxOpens, sends : Nat]
      /\ flags \in [noMoreSessions : BOOLEAN, sendShellEnv : BOOLEAN,
                    replayPhase : BOOLEAN, refused : BOOLEAN]
      /\ seen = [misrouted |-> seen.misrouted, unasked |-> seen.unasked, env |-> seen.env]
  BY DEF ChannelsInv, ChannelsTyped
<1>3. m \in Packets /\ m.type = "GLOBAL"
  BY <1>0, NumsAssumption DEF Packets, Packet, PacketTypes, GlobalTypes, None
<1> HIDE DEF m
<1>4. m.type \in GlobalTypes
  BY <1>3 DEF GlobalTypes
<1>5. wire' \in [Side -> Seq(Packets)] /\ WiresChat(wire, wire', ep)
  BY <1>0, <1>1, <1>2, <1>3, <1>4, Said
<1>6. /\ used' \in [opens : 0 .. MaxOpens, sends : Nat] /\ used'.opens = used.opens
      /\ awaits' \in [Side -> Nat]
  <2>1. used' \in [opens : 0 .. MaxOpens, sends : Nat] /\ used'.opens = used.opens
    BY <1>1, <1>2, CountsSend
  <2>2. awaits[g[1]] + 1 \in Nat
    BY <1>0, <1>2
  <2>3. awaits' \in [Side -> Nat]
    BY <1>0, <1>1, <1>2, <2>2
  <2> QED BY <2>1, <2>3
<1>7. flags' = flags /\ seen' = [misrouted |-> seen.misrouted, unasked |-> seen.unasked,
                                 env |-> seen.env]
  BY <1>1, <1>2
<1> QED BY <1>1, <1>2, <1>5, <1>6, <1>7, GlobalKept

----------------------------------------------------------------------------
\* A set of numbers has a least one.
LEMMA LeastOne ==
  ASSUME NEW S \in SUBSET Nat, S # {}
  PROVE  MinOf(S) \in S /\ \A j \in S : MinOf(S) <= j
<1>1. PICK x \in S : \A y \in S : ~(<<y, x>> \in OpToRel(<, Nat))
  BY NatLessThanWellFounded, WFMin
<1>2. \A y \in S : ~(y < x)
  BY <1>1 DEF OpToRel
<1>3. \A y \in S : x <= y
  BY <1>2
<1> QED BY <1>3 DEF MinOf

\* The conversations of the entries are as many as the entries.
LEMMA OneEach ==
  ASSUME FollowedState
  PROVE  /\ IsFiniteSet(Open)
         /\ Cardinality({channels[i].conv : i \in Open}) = Cardinality(Open)
<1> DEFINE known == {channels[i].conv : i \in Open}
           f == [i \in Open |-> channels[i].conv]
<1>1. IsFiniteSet(Open)
  <2>1. IsFiniteSet(Cids)
    BY NumsAssumption, FS_Interval DEF Cids
  <2> QED BY <2>1, FS_Subset DEF Open
<1>2. f \in Surjection(Open, known)
  BY DEF Surjection
<1>3. f \in Injection(Open, known)
  <2>1. \A i, j \in Open : channels[i].conv = channels[j].conv => i = j
    <3> SUFFICES ASSUME NEW i \in Open, NEW j \in Open, channels[i].conv = channels[j].conv
                 PROVE  i = j
      OBVIOUS
    <3>1. i \in Cids /\ j \in Cids /\ channels[i] # FreeSlot /\ channels[j] # FreeSlot
      BY DEF Open
    <3>2. channels[i].conv \in Cids
      BY <3>1, Shapes DEF FollowedState, Settled, Channel
    <3>3. Conversation(channels, ep, wire, channels[i].conv)
      BY <3>2 DEF FollowedState, Settled
    <3> QED BY <3>1, <3>3, OneSlot
  <2> QED BY <2>1 DEF Injection, IsInjective
<1> HIDE DEF known, f
<1>4. Cardinality(known) = Cardinality(Open)
  BY <1>1, <1>2, <1>3, FS_Surjection
<1> QED BY <1>1, <1>4 DEF known

\* As long as a conversation has no entry there is a free one.
LEMMA RoomLeft ==
  ASSUME FollowedState, NEW v \in Cids, Slots(channels, v) = {}
  PROVE  AllocNewChannel \in Cids /\ channels[AllocNewChannel] = FreeSlot
<1> DEFINE known == {channels[i].conv : i \in Open}
<1>1. IsFiniteSet(Open) /\ Cardinality(known) = Cardinality(Open)
  BY OneEach
<1>2. IsFiniteSet(Cids) /\ Cids \subseteq Nat
  BY NumsAssumption, FS_Interval DEF Cids
<1>3. known \subseteq Cids \ {v}
  <2> SUFFICES ASSUME NEW i \in Open PROVE channels[i].conv \in Cids \ {v}
    OBVIOUS
  <2>1. i \in Cids /\ channels[i] # FreeSlot
    BY DEF Open
  <2>2. channels[i].conv \in Cids
    BY <2>1, Shapes DEF FollowedState, Settled, Channel
  <2>3. channels[i].conv # v
    BY <2>1 DEF Slots
  <2> QED BY <2>2, <2>3
<1>4. IsFiniteSet(Cids \ {v}) /\ Cardinality(Cids \ {v}) = Cardinality(Cids) - 1
  BY <1>2, FS_RemoveElement
<1>5. Cardinality(known) <= Cardinality(Cids \ {v})
  BY <1>3, <1>4, FS_Subset
<1>6. Cardinality(Cids) \in Nat /\ Cardinality(Open) \in Nat
  BY <1>1, <1>2, FS_CardinalityType
<1> HIDE DEF known
<1>7. Open # Cids
  BY <1>1, <1>4, <1>5, <1>6
<1>8. Cids \ Open \in SUBSET Nat /\ Cids \ Open # {}
  BY <1>2, <1>7 DEF Open
<1>9. AllocNewChannel \in Cids \ Open
  BY <1>8, LeastOne DEF AllocNewChannel
<1> QED BY <1>9 DEF Open

----------------------------------------------------------------------------
\* Steps about one conversation v, which may open or close it.
EntriesAbout(ch, ch2, v) ==
  \A i \in Cids :
    \/ ch2[i] = ch[i]
    \/ (ch[i] = FreeSlot \/ ch[i].conv = v) /\ (ch2[i] = FreeSlot \/ ch2[i].conv = v)
EndsAbout(e, e2, v) ==
  \A x \in Side, n \in Nums :
    e2[x][n] = e[x][n] \/ (e[x][n].conv \in {0, v} /\ e2[x][n].conv \in {0, v})
WireAbout(w, w2, v) ==
  \/ w2 = w
  \/ w # <<>> /\ Head(w).conv = v /\ w2 = Tail(w)
  \/ \E p \in Packets :
       /\ w2 = Append(w, p) /\ p.conv = v
       /\ \A q \in Of(w, v) : q.type # "CLOSE"
       /\ p.type \in Starts => Of(w, v) = {}

\* Other conversations see nothing of them on a wire, which stays in order.
LEMMA WireElsewhere ==
  ASSUME NEW w \in Seq(Packets), InOrder(w), NEW w2, NEW v \in Cids, WireAbout(w, w2, v)
  PROVE  /\ w2 \in Seq(Packets) /\ InOrder(w2) /\ Moves(w, w2)
         /\ \A u : u # v => Of(w2, u) = Of(w, u)
<1>1. CASE w2 = w
  BY <1>1 DEF Moves
<1>2. CASE w # <<>> /\ Head(w).conv = v /\ w2 = Tail(w)
  <2>1. Tail(w) \in Seq(Packets) /\ InOrder(Tail(w))
    BY <1>2, OfPop, OrderPop
  <2>2. ASSUME NEW u, u # v PROVE Of(Tail(w), u) = Of(w, u)
    BY <1>2, <2>2, OfPop
  <2> QED BY <1>2, <2>1, <2>2 DEF Moves
<1>3. ASSUME NEW p \in Packets, w2 = Append(w, p), p.conv = v,
             \A q \in Of(w, v) : q.type # "CLOSE", p.type \in Starts => Of(w, v) = {}
      PROVE  /\ w2 \in Seq(Packets) /\ InOrder(w2) /\ Moves(w, w2)
             /\ \A u : u # v => Of(w2, u) = Of(w, u)
  <2>1. Append(w, p) \in Seq(Packets) /\ InOrder(Append(w, p))
    BY <1>3, OrderPush
  <2>2. ASSUME NEW u, u # v PROVE Of(Append(w, p), u) = Of(w, u)
    BY <1>3, <2>2, OfPush
  <2> QED BY <1>3, <2>1, <2>2 DEF Moves
<1> QED BY <1>1, <1>2, <1>3 DEF WireAbout

\* They keep the invariant when their own conversation is where it should be.
LEMMA StepKept ==
  ASSUME ChannelsInv, fatal = "no", fatal' = "no", NEW v \in Cids,
         channels' \in [Cids -> Channel \cup {FreeSlot}],
         ep' \in [Side -> [Nums -> Peers \cup {NoEndpoint}]],
         flags' \in [noMoreSessions : BOOLEAN, sendShellEnv : BOOLEAN,
                     replayPhase : BOOLEAN, refused : BOOLEAN],
         used' \in [opens : 0 .. MaxOpens, sends : Nat], awaits' = awaits,
         seen' = [misrouted |-> seen.misrouted, unasked |-> seen'.unasked, env |-> seen'.env],
         "wrong" \notin seen'.env, DOMAIN wire' = Side, wire' = [x \in Side |-> wire'[x]],
         EntriesAbout(channels, channels', v), EndsAbout(ep, ep', v),
         \A x \in Side : WireAbout(wire[x], wire'[x], v),
         Conversation(channels', ep', wire', v),
         used.opens <= used'.opens, v <= used'.opens,
         \A i \in Cids : channels'[i] # FreeSlot /\ channels'[i].state = "CLOSE" =>
           /\ channels[i] # FreeSlot /\ channels[i].conv = channels'[i].conv
           /\ \A x \in Side : OwnNum(channels[i], x) = OwnNum(channels'[i], x),
         Apart(channels'), Proxied(channels'), EnvPending'
  PROVE  ChannelsInv'
<1>1. FollowedState /\ ChannelsTyped
  BY DEF ChannelsInv
<1>2. \A x \in Side : wire[x] \in Seq(Packets) /\ InOrder(wire[x]) /\ Behind(channels, wire, x)
  BY <1>1 DEF FollowedState, ChannelsTyped
<1>3. ASSUME NEW x \in Side
      PROVE  /\ wire'[x] \in Seq(Packets) /\ InOrder(wire'[x]) /\ Moves(wire[x], wire'[x])
             /\ \A u : u # v => Of(wire'[x], u) = Of(wire[x], u)
  BY <1>2, WireElsewhere
<1>4. wire' \in [Side -> Seq(Packets)]
  BY <1>3
<1>5. ChannelsTyped'
  BY <1>1, <1>4 DEF ChannelsTyped
<1>6. Shaped(channels', ep', wire') /\ Shaped(channels, ep, wire)
  BY <1>1, <1>4 DEF Shaped, ChannelsTyped
<1>7. ASSUME NEW u \in Cids, u # v PROVE Continues(channels, ep, wire, channels', ep', wire', u)
  <2>1. /\ Slots(channels', u) = Slots(channels, u)
        /\ \A i \in Slots(channels, u) : SameEntry(channels[i], channels'[i])
    <3>2. \A i \in Cids : i \in Slots(channels, u) \/ i \in Slots(channels', u) =>
                             channels'[i] = channels[i]
      BY <1>7 DEF EntriesAbout, Slots
    <3>3. \A i \in Cids : i \in Slots(channels, u) <=> i \in Slots(channels', u)
      BY <3>2 DEF Slots
    <3>4. Slots(channels', u) = Slots(channels, u) /\ Slots(channels, u) \subseteq Cids
      BY <3>3 DEF Slots
    <3> QED BY <3>2, <3>4 DEF SameEntry
  <2>2. ASSUME NEW x \in Side
        PROVE  /\ Ends(ep', x, u) = Ends(ep, x, u)
               /\ \A n \in Ends(ep, x, u) : SameEnd(ep[x][n], ep'[x][n])
    <3>1. u # 0
      BY DEF Cids
    <3>2. \A n \in Nums : ep[x][n].conv = u \/ ep'[x][n].conv = u => ep'[x][n] = ep[x][n]
      BY <1>7, <3>1 DEF EndsAbout
    <3> QED BY <3>2 DEF Ends, SameEnd
  <2>3. \A x \in Side : Of(wire'[x], u) = Of(wire[x], u)
    BY <1>3, <1>7
  <2> QED BY <2>1, <2>2, <2>3 DEF Continues
<1>8. ASSUME NEW u \in Cids PROVE Conversation(channels', ep', wire', u)
  <2>1. CASE u = v
    BY <2>1
  <2>2. CASE u # v
    BY <1>1, <1>7, <2>2, Continued DEF FollowedState, Settled
  <2> QED BY <2>1, <2>2
<1>9. Settled(channels', ep', wire')
  BY <1>6, <1>8 DEF Settled
<1>10. ASSUME NEW u \in Cids, u > used'.opens PROVE Free(channels', ep', wire', u)
  <2>1. u # v /\ u > used.opens
    <3>1. used.opens \in Int /\ used'.opens \in Int /\ u \in Int /\ v \in Int
      BY <1>1 DEF ChannelsTyped, Cids
    <3> QED BY <1>10, <3>1
  <2> QED BY <1>1, <1>7, <2>1, FreeContinues DEF FollowedState
<1>11. ASSUME NEW x \in Side PROVE Behind(channels', wire', x)
  BY <1>1, <1>2, <1>3, <1>9, BehindStep DEF FollowedState
<1>12. FollowedState'
  BY <1>3, <1>9, <1>10, <1>11 DEF FollowedState
<1>13. seen'.misrouted = seen.misrouted
  OBVIOUS
<1> QED BY <1>5, <1>12, <1>13
        DEF ChannelsInv, NeverReached, RightChannel, EnvWell

\* One end is changed.
Becomes(e, e2, x, n, a) == e2 = [e EXCEPT ![x] = [e[x] EXCEPT ![n] = a]]
\* The other ends are the same, and those of v are known.
LEMMA EndChanged ==
  ASSUME ep \in [Side -> [Nums -> Peers \cup {NoEndpoint}]], NEW x \in Side, NEW n \in Nums,
         NEW a \in Peers \cup {NoEndpoint}, Becomes(ep, ep', x, n, a),
         NEW v \in Cids, ep[x][n].conv \in {0, v}, a.conv \in {0, v}
  PROVE  /\ ep' \in [Side -> [Nums -> Peers \cup {NoEndpoint}]]
         /\ EndsAbout(ep, ep', v)
         /\ ep'[x][n] = a
         /\ \A y \in Side, k \in Nums : (y # x \/ k # n) => ep'[y][k] = ep[y][k]
         /\ \A y \in Side : y # x => Ends(ep', y, v) = Ends(ep, y, v)
         /\ a.conv = v => Ends(ep', x, v) = Ends(ep, x, v) \cup {n}
         /\ a.conv # v => Ends(ep', x, v) = Ends(ep, x, v) \ {n}
<1>1. \A y \in Side, k \in Nums : ep'[y][k] = IF y = x /\ k = n THEN a ELSE ep[y][k]
  BY DEF Becomes
<1>2. ep' \in [Side -> [Nums -> Peers \cup {NoEndpoint}]]
  BY DEF Becomes
<1>3. EndsAbout(ep, ep', v)
  BY <1>1 DEF EndsAbout
<1>4. \A y \in Side : y # x => Ends(ep', y, v) = Ends(ep, y, v)
  BY <1>1 DEF Ends
<1>5. a.conv = v => Ends(ep', x, v) = Ends(ep, x, v) \cup {n}
  BY <1>1 DEF Ends
<1>6. a.conv # v => Ends(ep', x, v) = Ends(ep, x, v) \ {n}
  BY <1>1 DEF Ends
<1> QED BY <1>1, <1>2, <1>3, <1>4, <1>5, <1>6

\* The packets that open and confirm a channel.
Opening(type, to, v, kind, n) == [Packet(type, to, v, kind) EXCEPT !.from = n]
\* They are packets of the conversation.
LEMMA OpeningMade ==
  ASSUME NEW to \in Int, NEW v \in Cids, NEW kind \in Kinds, NEW n \in Nums
  PROVE  \A type \in {"OPEN", "CONFIRM"} :
           /\ Opening(type, to, v, kind, n) \in Packets
           /\ Opening(type, to, v, kind, n).conv = v
           /\ Opening(type, to, v, kind, n).type = type
           /\ Opening(type, to, v, kind, n).from = n
           /\ Opening(type, to, v, kind, n).to = to
<1> SUFFICES ASSUME NEW type \in {"OPEN", "CONFIRM"}
             PROVE  /\ Opening(type, to, v, kind, n) \in Packets
                    /\ Opening(type, to, v, kind, n).conv = v
                    /\ Opening(type, to, v, kind, n).type = type
                    /\ Opening(type, to, v, kind, n).from = n
                    /\ Opening(type, to, v, kind, n).to = to
  OBVIOUS
<1>1. type \in PacketTypes /\ type \notin GlobalTypes
  BY DEF PacketTypes, GlobalTypes
<1>2. n \in Int /\ v \in 0 .. MaxOpens /\ v # 0
  BY NumsAssumption DEF Cids
<1> QED BY <1>1, <1>2 DEF Packets, Packet, Opening

\* A peer asks for a channel: its number is its own, and no packet is about it.
LEMMA PeerOpensKept ==
  ASSUME ChannelsInv, NEW s \in Side, NEW kind \in OpenKinds, PeerOpens(s, kind)
  PROVE  ChannelsInv'
<1> PICK v : v = used.opens + 1
  OBVIOUS
<1> DEFINE t == TheOtherSide(s)
<1>0. FollowedState /\ ChannelsTyped /\ fatal = "no" /\ EnvPending /\ EnvWell
  BY DEF ChannelsInv, PeerOpens
<1>1. t \in Side /\ t # s /\ \A x \in Side : x = s \/ x = t
  BY TwoSides
<1>2. PICK n \in NewNums(s) :
        /\ used.opens < MaxOpens
        /\ used' = [used EXCEPT !.opens = v]
        /\ ep' = [ep EXCEPT ![s][n] = [conv |-> v, own |-> TRUE, sent |-> FALSE,
                                       got |-> FALSE, remote |-> None, awaits |-> 0]]
        /\ wire' = [wire EXCEPT ![s] = Append(wire[s],
                                         [Packet("OPEN", 0, v, kind) EXCEPT !.from = n])]
        /\ UNCHANGED <<channels, flags, fatal, awaits, seen>>
  BY DEF PeerOpens, Queue
<1> DEFINE a == [conv |-> v, own |-> TRUE, sent |-> FALSE, got |-> FALSE, remote |-> None,
                 awaits |-> 0]
           m == Opening("OPEN", 0, v, kind, n)
<1>3. /\ ep \in [Side -> [Nums -> Peers \cup {NoEndpoint}]] /\ wire \in [Side -> Seq(Packets)]
      /\ used \in [opens : 0 .. MaxOpens, sends : Nat]
      /\ channels \in [Cids -> Channel \cup {FreeSlot}]
      /\ seen = [misrouted |-> seen.misrouted, unasked |-> seen.unasked, env |-> seen.env]
      /\ flags \in [noMoreSessions : BOOLEAN, sendShellEnv : BOOLEAN,
                    replayPhase : BOOLEAN, refused : BOOLEAN]
  BY <1>0 DEF ChannelsTyped
<1>4. v \in Cids /\ v > used.opens
  BY <1>2, <1>3, NumsAssumption DEF Cids
<1>5. Free(channels, ep, wire, v)
  BY <1>0, <1>4 DEF FollowedState
<1>6. n \in Nums /\ ep[s][n] = NoEndpoint
  BY DEF NewNums, Live
<1>7. a \in Peers /\ a.conv = v
  BY <1>4 DEF Peers, None
<1>8. m \in Packets /\ m.conv = v /\ m.type = "OPEN" /\ m.from = n
  <2>1. kind \in Kinds
    BY DEF Kinds
  <2>2. 0 \in Int
    OBVIOUS
  <2>3. \A type \in {"OPEN", "CONFIRM"} :
           /\ Opening(type, 0, v, kind, n) \in Packets
           /\ Opening(type, 0, v, kind, n).conv = v
           /\ Opening(type, 0, v, kind, n).type = type
           /\ Opening(type, 0, v, kind, n).from = n
    BY <1>4, <1>6, <2>1, <2>2, OpeningMade
  <2> QED BY <2>3
<1>9. Becomes(ep, ep', s, n, a)
  BY <1>2, <1>3 DEF Becomes
<1>10. wire' = [wire EXCEPT ![s] = Append(wire[s], m)]
  BY <1>2 DEF Opening
<1>11. /\ ~a.sent /\ ~a.got /\ a.own /\ a.remote = None
  OBVIOUS
<1> HIDE DEF a, m
<1>12. /\ ep' \in [Side -> [Nums -> Peers \cup {NoEndpoint}]]
       /\ EndsAbout(ep, ep', v) /\ ep'[s][n] = a
       /\ Ends(ep', t, v) = Ends(ep, t, v) /\ Ends(ep', s, v) = Ends(ep, s, v) \cup {n}
  <2>1. ep[s][n].conv \in {0, v}
    BY <1>6 DEF NoEndpoint
  <2>2. a \in Peers \cup {NoEndpoint} /\ a.conv \in {0, v}
    BY <1>7
  <2> QED BY <1>1, <1>3, <1>4, <1>6, <1>7, <1>9, <2>1, <2>2, EndChanged
<1>13. /\ wire'[s] = Append(wire[s], m) /\ wire'[t] = wire[t]
       /\ DOMAIN wire' = Side /\ wire' = [x \in Side |-> wire'[x]]
  BY <1>1, <1>3, <1>10
<1>14. Of(wire[s], v) = {} /\ Of(wire[t], v) = {}
  BY <1>1, <1>5 DEF Free
<1>15. Of(wire'[s], v) = {m}
  <2>1. Of(Append(wire[s], m), v) = Of(wire[s], v) \cup {m}
    <3>1. wire[s] \in Seq(Packets) /\ m \in Packets
      BY <1>3, <1>8
    <3>2. m.conv = v => Of(Append(wire[s], m), v) = Of(wire[s], v) \cup {m}
      BY <3>1, OfPush
    <3> QED BY <1>8, <3>2
  <2> QED BY <1>13, <1>14, <2>1
<1>16. \A x \in Side : WireAbout(wire[x], wire'[x], v)
  BY <1>1, <1>8, <1>13, <1>14 DEF WireAbout
<1>17. Asked(channels', ep', wire', v, s, n)
  <2>1. Slots(channels', v) = {} /\ Ends(ep', s, v) = {n} /\ Ends(ep', t, v) = {}
    BY <1>1, <1>2, <1>5, <1>12 DEF Free
  <2>2. Waits(ep', s, n, v)
    BY <1>11, <1>12, <2>1 DEF Waits
  <2> QED BY <1>8, <1>13, <1>14, <1>15, <2>1, <2>2 DEF Asked
<1>18. Conversation(channels', ep', wire', v)
  BY <1>6, <1>17 DEF Conversation
<1>19. /\ used' \in [opens : 0 .. MaxOpens, sends : Nat] /\ used'.opens = v
       /\ used.opens <= used'.opens /\ v <= used'.opens
  <2>1. used.opens \in Int /\ used.sends \in Nat /\ v \in 0 .. MaxOpens
    BY <1>3, <1>4 DEF Cids
  <2>2. used' = [opens |-> v, sends |-> used.sends]
    BY <1>2, <1>3
  <2> QED BY <1>4, <2>1, <2>2
<1>20. /\ EntriesAbout(channels, channels', v) /\ Apart(channels') /\ Proxied(channels')
       /\ EnvPending' /\ channels' = channels /\ seen' = seen /\ flags' = flags
  BY <1>0, <1>2 DEF EntriesAbout, FollowedState, EnvPending
<1>21. "wrong" \notin seen'.env
  BY <1>0, <1>20 DEF EnvWell
<1>22. seen' = [misrouted |-> seen.misrouted, unasked |-> seen'.unasked, env |-> seen'.env]
  BY <1>3, <1>20
<1>23. awaits' = awaits /\ fatal' = "no"
  BY <1>0, <1>2
<1> QED BY <1>0, <1>3, <1>4, <1>12, <1>13, <1>16, <1>18, <1>19, <1>20, <1>21, <1>22, <1>23,
           StepKept

\* The packets x has sent in conversation v, when another one follows them.
LEMMA Follows ==
  ASSUME NEW w \in Seq(Packets), NEW p \in Packets, NEW v \in Cids, p.conv = v
  PROVE  Of(Append(w, p), v) = Of(w, v) \cup {p}
<1>1. p.conv = v => Of(Append(w, p), v) = Of(w, v) \cup {p}
  BY OfPush
<1> QED BY <1>1

\* A peer closes its end, which it has used: the CLOSE is the last packet it
\* sends in the conversation.
LEMMA PeerClosesPhase ==
  ASSUME NEW s \in Side, NEW n \in Nums, NEW v \in Cids, NEW e, NEW e2, NEW w, NEW w2, NEW ch,
         Conversation(ch, e, w, v), n \in Ends(e, s, v), ~e[s][n].sent, e[s][n].remote # None,
         NEW p, p.type = "CLOSE", p.to = e[s][n].remote,
         Of(w2[s], v) = Of(w[s], v) \cup {p},
         Of(w2[TheOtherSide(s)], v) = Of(w[TheOtherSide(s)], v),
         Ends(e2, TheOtherSide(s), v) = Ends(e, TheOtherSide(s), v),
         \A k \in Nums : e2[TheOtherSide(s)][k] = e[TheOtherSide(s)][k],
         IF e[s][n].got THEN Ends(e2, s, v) = Ends(e, s, v) \ {n}
         ELSE /\ Ends(e2, s, v) = Ends(e, s, v) /\ e2[s][n].sent
              /\ e2[s][n].own = e[s][n].own /\ e2[s][n].remote = e[s][n].remote
              /\ ~e2[s][n].got
  PROVE  Conversation(ch, e2, w2, v)
<1> DEFINE t == TheOtherSide(s)
<1>0. t \in Side /\ t # s /\ TheOtherSide(t) = s /\ \A x \in Side : x = s \/ x = t
  BY TwoSides
<1>1. ~Free(ch, e, w, v)
  BY DEF Free
<1>2. ASSUME NEW x \in Side, NEW k \in Nums, Asked(ch, e, w, v, x, k) PROVE FALSE
  BY <1>0, <1>2, TwoSides DEF Asked, Waits
<1>3. ASSUME NEW x \in Side, NEW k \in Nums, NEW i \in Cids, Refused(ch, e, w, v, x, k, i)
      PROVE  FALSE
  BY <1>0, <1>3, TwoSides DEF Refused, Pending, Waits
<1>4. ASSUME NEW x \in Side, NEW k \in Nums, NEW i \in Cids, NEW l \in Nums,
             Accepted(ch, e, w, v, x, k, i, l)
      PROVE  Conversation(ch, e2, w2, v)
  <2>1. x = t /\ n = l
    BY <1>0, <1>4, TwoSides DEF Accepted, Pending, Waits
  <2>2. Pending(ch, e2, w2, v, t, k, i)
    <3>1. Pending(ch, e, w, v, t, k, i)
      BY <1>4, <2>1 DEF Accepted
    <3>2. Waits(e2, t, k, v)
      BY <3>1 DEF Pending, Waits
    <3> QED BY <3>1, <3>2 DEF Pending
  <2>3. ~e[s][n].got /\ ~e[s][n].own /\ e[s][n].remote = k /\ Ends(e, s, v) = {n}
    BY <1>0, <1>4, <2>1 DEF Accepted
  <2>4. HasClose(w2, s, v)
    BY DEF HasClose
  <2>5. Accepted(ch, e2, w2, v, t, k, i, n)
    BY <1>0, <1>4, <2>1, <2>2, <2>3, <2>4 DEF Accepted
  <2> QED BY <1>0, <2>5 DEF Conversation
<1>5. ASSUME NEW i \in Cids, Up(ch, e, w, v, i) PROVE Conversation(ch, e2, w2, v)
  <2> DEFINE c == ch[i]
  <2>1. InUse(e, w, v, c, s) /\ InUse(e, w, v, c, t)
    BY <1>0, <1>5 DEF Up
  <2>2. n = OwnNum(c, s) /\ ~e[s][n].got
    BY <2>1 DEF InUse, End
  <2>3. HasClose(w2, s, v)
    BY DEF HasClose
  <2>4. InUse(e2, w2, v, c, s)
    <3>1. End(e2, v, c, s)
      BY <2>1, <2>2 DEF InUse, End
    <3>2. Line(w2, v, c, s)
      BY <2>1, <2>2 DEF InUse, End, Line
    <3> QED BY <2>2, <2>3, <3>1, <3>2 DEF InUse
  <2>5. InUse(e2, w2, v, c, t)
    <3>1. OwnNum(c, t) \in Nums
      BY <2>1 DEF InUse, End, Ends
    <3>2. e2[t][OwnNum(c, t)] = e[t][OwnNum(c, t)]
      BY <3>1
    <3> QED BY <2>1, <3>2 DEF InUse, End, Line, HasClose
  <2>6. Up(ch, e2, w2, v, i)
    BY <1>0, <1>5, <2>4, <2>5 DEF Up
  <2> QED BY <2>6 DEF Conversation
<1>6. ASSUME NEW i \in Cids, NEW x \in Side, Half(ch, e, w, v, i, x)
      PROVE  Conversation(ch, e2, w2, v)
  <2> DEFINE c == ch[i]
  <2>1. x = t
    <3>1. x # s
      BY <1>6 DEF Half, ClosedFirst, End
    <3> QED BY <1>0, <3>1
  <2>2. ClosedFirst(e, w, v, c, t) /\ ClosesNext(e, w, v, c, s)
    BY <1>0, <1>6, <2>1 DEF Half
  <2>3. End(e, v, c, s) /\ e[s][n].got /\ n = OwnNum(c, s)
    BY <2>2 DEF ClosesNext, End
  <2>4. Ends(e2, s, v) = {} /\ HasClose(w2, s, v)
    BY <2>3 DEF End, HasClose
  <2>5. Line(w2, v, c, s)
    BY <2>2, <2>3 DEF ClosesNext, End, Line
  <2>6. ClosedFirst(e2, w2, v, c, t)
    <3>1. OwnNum(c, t) \in Nums
      BY <2>2 DEF ClosedFirst, End, Ends
    <3>2. e2[t][OwnNum(c, t)] = e[t][OwnNum(c, t)]
      BY <3>1
    <3> QED BY <2>2, <3>2 DEF ClosedFirst, End
  <2>7. Half(ch, e2, w2, v, i, t)
    BY <1>0, <1>6, <2>4, <2>5, <2>6 DEF Half, ClosesNext
  <2> QED BY <1>0, <2>7 DEF Conversation
<1> QED BY <1>1, <1>2, <1>3, <1>4, <1>5, <1>6 DEF Conversation

\* A peer closes its end of a channel.
LEMMA PeerClosesKept ==
  ASSUME ChannelsInv, NEW s \in Side, NEW n \in Nums, PeerCloses(s, n)
  PROVE  ChannelsInv'
<1> DEFINE t == TheOtherSide(s)
           b == ep[s][n]
           a == IF b.got THEN NoEndpoint ELSE [b EXCEPT !.sent = TRUE]
           p == Packet("CLOSE", b.remote, b.conv, "")
<1>0. FollowedState /\ ChannelsTyped /\ fatal = "no" /\ EnvPending /\ EnvWell
  BY DEF ChannelsInv, PeerCloses
<1>1. t \in Side /\ t # s /\ \A x \in Side : x = s \/ x = t
  BY TwoSides
<1>2. /\ n \in Usable(s)
      /\ ep' = [ep EXCEPT ![s][n] = IF @.got THEN NoEndpoint ELSE [@ EXCEPT !.sent = TRUE]]
      /\ wire' = [wire EXCEPT ![s] = Append(wire[s], p)]
      /\ UNCHANGED <<channels, flags, fatal, awaits, used, seen>>
  BY DEF PeerCloses, Queue
<1>3. /\ ep \in [Side -> [Nums -> Peers \cup {NoEndpoint}]] /\ wire \in [Side -> Seq(Packets)]
      /\ used \in [opens : 0 .. MaxOpens, sends : Nat]
      /\ channels \in [Cids -> Channel \cup {FreeSlot}]
      /\ seen = [misrouted |-> seen.misrouted, unasked |-> seen.unasked, env |-> seen.env]
      /\ flags \in [noMoreSessions : BOOLEAN, sendShellEnv : BOOLEAN,
                    replayPhase : BOOLEAN, refused : BOOLEAN]
  BY <1>0 DEF ChannelsTyped
<1>4. b \in Peers /\ b.remote # None /\ ~b.sent
  <2>1. b # NoEndpoint /\ b.remote # None /\ ~b.sent
    BY <1>2 DEF Usable, Live
  <2>2. b \in Peers \cup {NoEndpoint}
    BY <1>3
  <2> QED BY <2>1, <2>2
<1> PICK v : v = b.conv
  OBVIOUS
<1>5. v \in Cids /\ n \in Ends(ep, s, v) /\ Conversation(channels, ep, wire, v)
  BY <1>0, <1>4 DEF Peers, Ends, FollowedState, Settled
<1>6. /\ p \in Packets /\ p.conv = v /\ p.type = "CLOSE" /\ p.to = b.remote
  <2>1. /\ "CLOSE" \in PacketTypes /\ "CLOSE" \notin GlobalTypes
    BY DEF PacketTypes, GlobalTypes
  <2>2. b.remote \in Int /\ b.conv \in 0 .. MaxOpens /\ b.conv # 0
    BY <1>4, NumsAssumption DEF Peers, Cids
  <2>3. "" \in Kinds
    BY DEF Kinds
  <2>4. p \in Packets
    BY <2>1, <2>2, <2>3, PacketMade
  <2> QED BY <2>4 DEF Packet
<1>7. a \in Peers \cup {NoEndpoint} /\ a.conv \in {0, v}
  BY <1>4 DEF Peers, NoEndpoint
<1>8. Becomes(ep, ep', s, n, a)
  BY <1>2, <1>3 DEF Becomes
<1>9. /\ b.got => a.conv # v
      /\ ~b.got => /\ a.conv = v /\ a.sent /\ a.own = b.own /\ a.remote = b.remote /\ ~a.got
  <2>1. v # 0
    BY <1>5 DEF Cids
  <2> QED BY <1>4, <2>1 DEF Peers, NoEndpoint
<1> HIDE DEF a, p
<1>10. /\ ep' \in [Side -> [Nums -> Peers \cup {NoEndpoint}]]
       /\ EndsAbout(ep, ep', v) /\ ep'[s][n] = a
       /\ \A y \in Side, k \in Nums : (y # s \/ k # n) => ep'[y][k] = ep[y][k]
       /\ Ends(ep', t, v) = Ends(ep, t, v)
       /\ a.conv = v => Ends(ep', s, v) = Ends(ep, s, v) \cup {n}
       /\ a.conv # v => Ends(ep', s, v) = Ends(ep, s, v) \ {n}
  <2>1. ep[s][n].conv \in {0, v}
    OBVIOUS
  <2> QED BY <1>1, <1>3, <1>5, <1>7, <1>8, <2>1, EndChanged
<1>11. /\ wire'[s] = Append(wire[s], p) /\ wire'[t] = wire[t]
       /\ DOMAIN wire' = Side /\ wire' = [x \in Side |-> wire'[x]]
  BY <1>1, <1>2, <1>3
<1>12. Of(wire'[s], v) = Of(wire[s], v) \cup {p} /\ Of(wire'[t], v) = Of(wire[t], v)
  <2>1. wire[s] \in Seq(Packets)
    BY <1>3
  <2>2. Of(Append(wire[s], p), v) = Of(wire[s], v) \cup {p}
    BY <1>5, <1>6, <2>1, Follows
  <2> QED BY <1>11, <2>2
<1>13. \A q \in Of(wire[s], v) : q.type # "CLOSE"
  BY <1>4, <1>5, NotClosed
<1>14. \A x \in Side : WireAbout(wire[x], wire'[x], v)
  <2>1. WireAbout(wire[s], wire'[s], v)
    BY <1>6, <1>11, <1>13 DEF WireAbout, Starts
  <2> QED BY <1>1, <1>11, <2>1 DEF WireAbout
<1>15. Conversation(channels', ep', wire', v)
  <2>1. /\ Ends(ep', t, v) = Ends(ep, t, v) /\ \A k \in Nums : ep'[t][k] = ep[t][k]
    BY <1>1, <1>10
  <2>2. IF b.got THEN Ends(ep', s, v) = Ends(ep, s, v) \ {n}
        ELSE /\ Ends(ep', s, v) = Ends(ep, s, v) /\ ep'[s][n].sent
             /\ ep'[s][n].own = b.own /\ ep'[s][n].remote = b.remote
             /\ ~ep'[s][n].got
    BY <1>5, <1>9, <1>10
  <2>3. Conversation(channels, ep', wire', v)
    BY <1>4, <1>5, <1>6, <1>12, <2>1, <2>2, PeerClosesPhase
  <2>4. channels' = channels
    BY <1>2
  <2> QED BY <2>3, <2>4
<1>16. v <= used.opens
  <2>1. ~Free(channels, ep, wire, v)
    BY <1>5 DEF Free
  <2>2. ~(v > used.opens)
    BY <1>0, <1>5, <2>1 DEF FollowedState
  <2>3. v \in Int /\ used.opens \in Int
    BY <1>3, <1>5 DEF Cids
  <2> QED BY <2>2, <2>3
<1>17. /\ EntriesAbout(channels, channels', v) /\ Apart(channels') /\ Proxied(channels')
       /\ EnvPending' /\ channels' = channels /\ seen' = seen /\ flags' = flags /\ used' = used
  BY <1>0, <1>2 DEF EntriesAbout, FollowedState, EnvPending
<1>18. "wrong" \notin seen'.env
  BY <1>0, <1>17 DEF EnvWell
<1>19. seen' = [misrouted |-> seen.misrouted, unasked |-> seen'.unasked, env |-> seen'.env]
  BY <1>3, <1>17
<1>20. awaits' = awaits /\ fatal' = "no" /\ used.opens <= used'.opens
  BY <1>0, <1>2, <1>3
<1> QED BY <1>0, <1>3, <1>5, <1>10, <1>11, <1>14, <1>15, <1>16, <1>17, <1>18, <1>19, <1>20,
           StepKept

----------------------------------------------------------------------------
\* The packet that opens a channel, and its two answers, tell where their
\* conversation is.
LEMMA OpeningHead ==
  ASSUME FollowedState, NEW s \in Side, wire[s] # <<>>, Head(wire[s]).type \in Starts
  PROVE  LET m == Head(wire[s])
             t == TheOtherSide(s)
             v == m.conv
         IN  /\ m \in Packets /\ m.conv \in Cids
             /\ m \in Of(wire[s], v)
             /\ \A q \in Of(Tail(wire[s]), v) : q \in Of(wire[s], v) /\ q.type \notin Starts
             /\ \A q \in Of(wire[s], v) : q.type \notin Starts => q \in Of(Tail(wire[s]), v)
             /\ m.type = "OPEN" =>
                  m.from \in Nums /\ Asked(channels, ep, wire, v, s, m.from)
             /\ m.type = "OPENFAIL" =>
                  /\ m.to \in Nums
                  /\ \E i \in Cids : Refused(channels, ep, wire, v, t, m.to, i)
             /\ m.type = "CONFIRM" =>
                  /\ m.to \in Nums /\ m.from \in Nums
                  /\ \E i \in Cids : Accepted(channels, ep, wire, v, t, m.to, i, m.from)
<1> DEFINE m == Head(wire[s])
           t == TheOtherSide(s)
           v == m.conv
<1>0. t \in Side /\ t # s /\ TheOtherSide(t) = s /\ \A x \in Side : x = s \/ x = t
  BY TwoSides
<1>1. wire[s] \in Seq(Packets) /\ m \in Packets /\ m \in Of(wire[s], v)
  BY OfPop DEF FollowedState, Settled, Shaped
<1>2. v \in Cids /\ v # 0
  <2>1. m.type \notin GlobalTypes
    BY DEF Starts, GlobalTypes
  <2>2. v \in 0 .. MaxOpens /\ v # 0
    BY <1>1, <2>1 DEF Packets
  <2> QED BY <2>2, NumsAssumption DEF Cids
<1>3. Conversation(channels, ep, wire, v)
  BY <1>2 DEF FollowedState, Settled
<1>4. \A q \in Of(Tail(wire[s]), v) : q \in Of(wire[s], v) /\ q.type \notin Starts
  BY <1>1, <1>2, OfPop, FirstOf DEF FollowedState
<1>5. \A q \in Of(wire[s], v) : q.type \notin Starts => q \in Of(Tail(wire[s]), v)
  BY <1>1, OfPop
<1>6. ~Free(channels, ep, wire, v)
  BY <1>1 DEF Free
<1>7. ASSUME NEW x \in Side, NEW n \in Nums, Asked(channels, ep, wire, v, x, n)
      PROVE  m.type = "OPEN" /\ x = s /\ m.from = n
  BY <1>0, <1>1, <1>7 DEF Asked
<1>8. ASSUME NEW x \in Side, NEW n \in Nums, NEW i \in Cids,
             Refused(channels, ep, wire, v, x, n, i)
      PROVE  m.type = "OPENFAIL" /\ x = t /\ m.to = n
  BY <1>0, <1>1, <1>8 DEF Refused, Pending
<1>9. ASSUME NEW x \in Side, NEW n \in Nums, NEW i \in Cids, NEW k \in Nums,
             Accepted(channels, ep, wire, v, x, n, i, k)
      PROVE  m.type = "CONFIRM" /\ x = t /\ m.to = n /\ m.from = k
  <2>1. x = t
    BY <1>0, <1>1, <1>9 DEF Accepted, Pending
  <2>2. m.to = n /\ m.type \in Talk \cup {"CONFIRM", "CLOSE"} /\ (m.type = "CONFIRM" => m.from = k)
    BY <1>0, <1>1, <1>9, <2>1 DEF Accepted
  <2> QED BY <2>1, <2>2 DEF Talk, Starts
<1>10. ASSUME NEW i \in Cids, Up(channels, ep, wire, v, i) PROVE FALSE
  <2>1. m.type \in Talk \cup {"CLOSE"}
    BY <1>1, <1>10 DEF Up, InUse, Line
  <2> QED BY <2>1 DEF Talk, Starts
<1>11. ASSUME NEW i \in Cids, NEW x \in Side, Half(channels, ep, wire, v, i, x) PROVE FALSE
  <2>1. x = t
    BY <1>0, <1>1, <1>11 DEF Half, ClosedFirst
  <2>2. m.type \in Talk \cup {"CLOSE"}
    BY <1>0, <1>1, <1>11, <2>1 DEF Half, ClosesNext, Line
  <2> QED BY <2>2 DEF Talk, Starts
<1>12. m.type = "OPEN" => m.from \in Nums /\ Asked(channels, ep, wire, v, s, m.from)
  BY <1>3, <1>6, <1>7, <1>8, <1>9, <1>10, <1>11 DEF Conversation
<1>13. m.type = "OPENFAIL" => /\ m.to \in Nums
                              /\ \E i \in Cids : Refused(channels, ep, wire, v, t, m.to, i)
  BY <1>3, <1>6, <1>7, <1>8, <1>9, <1>10, <1>11 DEF Conversation
<1>14. m.type = "CONFIRM" =>
         /\ m.to \in Nums /\ m.from \in Nums
         /\ \E i \in Cids : Accepted(channels, ep, wire, v, t, m.to, i, m.from)
  BY <1>3, <1>6, <1>7, <1>8, <1>9, <1>10, <1>11 DEF Conversation
<1> QED BY <1>1, <1>2, <1>4, <1>5, <1>12, <1>13, <1>14

\* A conversation that has begun is counted.
LEMMA Begun ==
  ASSUME FollowedState, ChannelsTyped, NEW v \in Cids, ~Free(channels, ep, wire, v)
  PROVE  v <= used.opens /\ used.opens <= used.opens
<1>1. ~(v > used.opens)
  BY DEF FollowedState
<1>2. v \in Int /\ used.opens \in Int
  BY DEF ChannelsTyped, Cids
<1> QED BY <1>1, <1>2

\* What becomes of an end whose open is answered or whose channel is closed.
EndAfter(e, m) ==
  IF m.type = "CONFIRM" THEN [e EXCEPT !.remote = m.from]
  ELSE IF m.type = "OPENFAIL" \/ e.sent THEN NoEndpoint ELSE [e EXCEPT !.got = TRUE]

\* The reaction to such a packet.
LEMMA EndReacts ==
  ASSUME ChannelsTyped, NEW x \in Side, NEW m, m.type \in {"CONFIRM", "OPENFAIL", "CLOSE"},
         m.conv \in Cids, m.to \in Nums, ep[x][m.to].conv = m.conv, NEW r \in Reactions(x, m)
  PROVE  /\ r.ep = [ep[x] EXCEPT ![m.to] = EndAfter(ep[x][m.to], m)]
         /\ r.out = <<>> /\ r.seen = Nothing
<1> DEFINE e == ep[x][m.to]
<1>1. e # NoEndpoint
  BY DEF NoEndpoint, Cids
<1>2. m.to \in Live(x)
  BY <1>1 DEF Live
<1>3. CASE m.type = "CONFIRM"
  <2>1. r = [ep |-> [ep[x] EXCEPT ![m.to] = [e EXCEPT !.remote = m.from]],
             out |-> <<>>, seen |-> Nothing]
    BY <1>2, <1>3 DEF Reactions
  <2> QED BY <1>3, <2>1 DEF EndAfter
<1>4. CASE m.type = "OPENFAIL"
  <2>1. r = [ep |-> [ep[x] EXCEPT ![m.to] = NoEndpoint], out |-> <<>>, seen |-> Nothing]
    BY <1>2, <1>4 DEF Reactions
  <2> QED BY <1>4, <2>1 DEF EndAfter
<1>5. CASE m.type = "CLOSE" /\ e.sent
  <2>1. r = [ep |-> [ep[x] EXCEPT ![m.to] = NoEndpoint], out |-> <<>>, seen |-> Nothing]
    BY <1>2, <1>5 DEF Reactions
  <2> QED BY <1>5, <2>1 DEF EndAfter
<1>6. CASE m.type = "CLOSE" /\ ~e.sent
  <2>1. r = [ep |-> [ep[x] EXCEPT ![m.to] = [e EXCEPT !.got = TRUE]],
             out |-> <<>>, seen |-> Nothing]
    BY <1>2, <1>6 DEF Reactions
  <2> QED BY <1>6, <2>1 DEF EndAfter
<1> QED BY <1>3, <1>4, <1>5, <1>6

\* Such a packet is delivered.
LEMMA EndReached ==
  ASSUME ChannelsTyped, NEW s \in Side, wire[s] # <<>>, NEW x \in Side, NEW m,
         m.type \in {"OPENFAIL", "CLOSE"}, m.conv \in Cids, m.to \in Nums,
         ep[x][m.to].conv = m.conv, Deliver(s, x, m)
  PROVE  /\ Becomes(ep, ep', x, m.to, EndAfter(ep[x][m.to], m))
         /\ wire' = [wire EXCEPT ![s] = Tail(@)]
         /\ seen' = seen /\ awaits' = awaits
<1>1. PICK r \in Reactions(x, m) :
        /\ ep' = [ep EXCEPT ![x] = r.ep]
        /\ wire' = [[wire EXCEPT ![s] = Tail(@)] EXCEPT ![x] = @ \o r.out]
        /\ seen' = Merge(seen, r.seen)
        /\ UNCHANGED awaits
  BY DEF Deliver
<1>2. /\ r.ep = [ep[x] EXCEPT ![m.to] = EndAfter(ep[x][m.to], m)]
      /\ r.out = <<>> /\ r.seen = Nothing
  BY EndReacts
<1>3. /\ wire \in [Side -> Seq(Packets)]
      /\ seen = [misrouted |-> seen.misrouted, unasked |-> seen.unasked, env |-> seen.env]
  BY DEF ChannelsTyped
<1>4. r.seen = Nothing => seen' = seen
  BY <1>1, <1>3 DEF Merge, Nothing
<1>5. wire' = [wire EXCEPT ![s] = Tail(@)]
  <2>1. wire[s] \in Seq(Packets) /\ wire[x] \in Seq(Packets)
    BY <1>3
  <2>2. Tail(wire[s]) \in Seq(Packets)
    BY <2>1, OfPop
  <2>3. Tail(wire[s]) \o <<>> = Tail(wire[s]) /\ wire[x] \o <<>> = wire[x]
    BY <2>1, <2>2
  <2> QED BY <1>1, <1>2, <1>3, <2>3
<1> QED BY <1>1, <1>2, <1>4, <1>5 DEF Becomes

\* The first packet of s is taken.
LEMMA HeadTaken ==
  ASSUME ChannelsTyped, NEW s \in Side, wire[s] # <<>>, wire' = [wire EXCEPT ![s] = Tail(@)]
  PROVE  /\ wire'[s] = Tail(wire[s])
         /\ wire'[TheOtherSide(s)] = wire[TheOtherSide(s)]
         /\ DOMAIN wire' = Side /\ wire' = [x \in Side |-> wire'[x]]
         /\ \A x \in Side : WireAbout(wire[x], wire'[x], Head(wire[s]).conv)
<1>1. wire \in [Side -> Seq(Packets)]
  BY DEF ChannelsTyped
<1>2. TheOtherSide(s) \in Side /\ TheOtherSide(s) # s
      /\ \A x \in Side : x = s \/ x = TheOtherSide(s)
  BY TwoSides
<1>3. /\ wire'[s] = Tail(wire[s])
      /\ wire'[TheOtherSide(s)] = wire[TheOtherSide(s)]
      /\ DOMAIN wire' = Side /\ wire' = [x \in Side |-> wire'[x]]
  BY <1>1, <1>2
<1> QED BY <1>2, <1>3 DEF WireAbout

\* The gateway refuses a channel: nothing is left of the conversation.
LEMMA OpenRejectedKept ==
  ASSUME ChannelsInv, NEW s \in Side, ChannelOpenRejected(s)
  PROVE  ChannelsInv'
<1> DEFINE m == Head(wire[s])
           t == TheOtherSide(s)
<1> PICK v, n : v = m.conv /\ n = m.from
  OBVIOUS
<1>0. FollowedState /\ ChannelsTyped /\ fatal = "no" /\ EnvPending /\ EnvWell
  BY DEF ChannelsInv, ChannelOpenRejected, Received
<1>1. t \in Side /\ t # s /\ \A x \in Side : x = s \/ x = t
  BY TwoSides
<1>2. wire[s] # <<>> /\ m.type = "OPEN" /\ used' = used /\ UNCHANGED <<channels, fatal>>
  BY DEF ChannelOpenRejected, Received
<1>3. PICK session_ \in BOOLEAN :
        /\ flags' = [flags EXCEPT !.sendShellEnv = @ \/ session_, !.refused = @ \/ session_]
        /\ Deliver(s, s, Packet("OPENFAIL", n, v, "rejected"))
  BY DEF ChannelOpenRejected
<1>4. /\ v \in Cids /\ n \in Nums /\ Asked(channels, ep, wire, v, s, n)
      /\ \A q \in Of(Tail(wire[s]), v) : q \in Of(wire[s], v) /\ q.type \notin Starts
  BY <1>0, <1>2, OpeningHead DEF Starts
<1>5. /\ wire' = [wire EXCEPT ![s] = Tail(@)] /\ seen' = seen /\ awaits' = awaits
      /\ Becomes(ep, ep', s, n, NoEndpoint)
  <2> DEFINE f == Packet("OPENFAIL", n, v, "rejected")
  <2>1. f.type = "OPENFAIL" /\ f.conv = v /\ f.to = n
    BY DEF Packet
  <2>2. ep[s][n].conv = v
    BY <1>4 DEF Asked, Waits, Ends
  <2>3. Deliver(s, s, f)
    BY <1>3
  <2>4. EndAfter(ep[s][n], f) = NoEndpoint
    BY <2>1 DEF EndAfter
  <2> HIDE DEF f
  <2>5. /\ Becomes(ep, ep', s, f.to, EndAfter(ep[s][f.to], f))
        /\ wire' = [wire EXCEPT ![s] = Tail(@)] /\ seen' = seen /\ awaits' = awaits
    BY <1>0, <1>2, <1>4, <2>1, <2>2, <2>3, EndReached
  <2> QED BY <2>1, <2>4, <2>5
<1>6. /\ wire'[s] = Tail(wire[s]) /\ wire'[t] = wire[t]
      /\ DOMAIN wire' = Side /\ wire' = [x \in Side |-> wire'[x]]
      /\ \A x \in Side : WireAbout(wire[x], wire'[x], v)
  BY <1>0, <1>2, <1>5, HeadTaken
<1>7. /\ ep' \in [Side -> [Nums -> Peers \cup {NoEndpoint}]]
      /\ EndsAbout(ep, ep', v)
      /\ Ends(ep', t, v) = Ends(ep, t, v) /\ Ends(ep', s, v) = Ends(ep, s, v) \ {n}
  <2>1. ep \in [Side -> [Nums -> Peers \cup {NoEndpoint}]]
    BY <1>0 DEF ChannelsTyped
  <2>2. ep[s][n].conv \in {0, v}
    BY <1>4 DEF Asked, Waits, Ends
  <2>3. /\ NoEndpoint \in Peers \cup {NoEndpoint} /\ NoEndpoint.conv \in {0, v}
        /\ NoEndpoint.conv # v
    BY <1>4 DEF NoEndpoint, Cids
  <2> QED BY <1>1, <1>4, <1>5, <2>1, <2>2, <2>3, EndChanged
<1>8. Free(channels', ep', wire', v)
  <2>1. Of(wire'[s], v) = {}
    BY <1>4, <1>6 DEF Asked, Starts
  <2>2. Of(wire'[t], v) = {} /\ Ends(ep', t, v) = {} /\ Ends(ep', s, v) = {}
    BY <1>4, <1>6, <1>7 DEF Asked, Waits
  <2>3. Slots(channels', v) = {}
    BY <1>2, <1>4 DEF Asked
  <2> QED BY <1>1, <2>1, <2>2, <2>3 DEF Free
<1>9. Conversation(channels', ep', wire', v)
  BY <1>8 DEF Conversation
<1>10. v <= used.opens /\ used.opens <= used.opens
  <2>1. ~Free(channels, ep, wire, v)
    BY <1>4 DEF Free, Asked, Waits
  <2> QED BY <1>0, <1>4, <2>1, Begun
<1>11. /\ channels \in [Cids -> Channel \cup {FreeSlot}]
       /\ used \in [opens : 0 .. MaxOpens, sends : Nat]
       /\ seen = [misrouted |-> seen.misrouted, unasked |-> seen.unasked, env |-> seen.env]
       /\ flags \in [noMoreSessions : BOOLEAN, sendShellEnv : BOOLEAN,
                     replayPhase : BOOLEAN, refused : BOOLEAN]
  BY <1>0 DEF ChannelsTyped
<1>12. /\ flags' \in [noMoreSessions : BOOLEAN, sendShellEnv : BOOLEAN,
                      replayPhase : BOOLEAN, refused : BOOLEAN]
       /\ flags'.sendShellEnv <=> flags.sendShellEnv \/ session_
       /\ flags'.refused <=> flags.refused \/ session_
  BY <1>3, <1>11
<1>13. EnvPending'
  BY <1>0, <1>2, <1>12 DEF EnvPending
<1>14. /\ EntriesAbout(channels, channels', v) /\ Apart(channels') /\ Proxied(channels')
       /\ channels' = channels
  BY <1>0, <1>2 DEF EntriesAbout, FollowedState
<1>15. /\ "wrong" \notin seen'.env
       /\ seen' = [misrouted |-> seen.misrouted, unasked |-> seen'.unasked, env |-> seen'.env]
  BY <1>0, <1>5, <1>11 DEF EnvWell
<1>16. fatal' = "no"
  BY <1>0, <1>2
<1> QED BY <1>0, <1>2, <1>4, <1>5, <1>6, <1>7, <1>9, <1>10, <1>11, <1>12, <1>13, <1>14, <1>15,
           <1>16, StepKept

\* An entry is changed or freed.
Turns(ch, ch2, i, c) == ch2 = [ch EXCEPT ![i] = c]
\* The other entries are the same, and those of v are known.
LEMMA SlotChanged ==
  ASSUME channels \in [Cids -> Channel \cup {FreeSlot}], NEW i \in Cids,
         NEW c \in Channel \cup {FreeSlot}, Turns(channels, channels', i, c),
         NEW v \in Cids, channels[i] = FreeSlot \/ channels[i].conv = v,
         c = FreeSlot \/ c.conv = v
  PROVE  /\ channels' \in [Cids -> Channel \cup {FreeSlot}]
         /\ EntriesAbout(channels, channels', v)
         /\ channels'[i] = c /\ \A j \in Cids : j # i => channels'[j] = channels[j]
         /\ c # FreeSlot => Slots(channels', v) = Slots(channels, v) \cup {i}
         /\ c = FreeSlot => Slots(channels', v) = Slots(channels, v) \ {i}
<1>1. \A j \in Cids : channels'[j] = IF j = i THEN c ELSE channels[j]
  BY DEF Turns
<1>2. channels' \in [Cids -> Channel \cup {FreeSlot}]
  BY DEF Turns
<1>3. EntriesAbout(channels, channels', v)
  BY <1>1 DEF EntriesAbout
<1>4. c # FreeSlot => Slots(channels', v) = Slots(channels, v) \cup {i}
  BY <1>1 DEF Slots
<1>5. c = FreeSlot => Slots(channels', v) = Slots(channels, v) \ {i}
  BY <1>1 DEF Slots
<1> QED BY <1>1, <1>2, <1>3, <1>4, <1>5

\* A pending environment stays with its session when another entry changes.
LEMMA EnvStays ==
  ASSUME EnvPending, flags'.sendShellEnv => flags.sendShellEnv, flags.refused => flags'.refused,
         NEW i \in Cids, channels[i] = FreeSlot \/ channels[i].state # "OPEN",
         \A j \in Cids : j # i => channels'[j] = channels[j]
  PROVE  EnvPending'
BY DEF EnvPending

\* The provider refuses a channel: its entry is freed, and the requestor's end
\* is gone.
LEMMA OpenFailureKept ==
  ASSUME ChannelsInv, NEW s \in Side, ChannelOpenFailure(s)
  PROVE  ChannelsInv'
<1> DEFINE m == Head(wire[s])
           t == TheOtherSide(s)
<1> PICK v, n : v = m.conv /\ n = m.to
  OBVIOUS
<1>0. FollowedState /\ ChannelsTyped /\ fatal = "no" /\ EnvPending /\ EnvWell
  BY DEF ChannelsInv, ChannelOpenFailure, Received
<1>1. t \in Side /\ t # s /\ TheOtherSide(t) = s /\ \A x \in Side : x = s \/ x = t
  BY TwoSides
<1>2. wire[s] # <<>> /\ m.type = "OPENFAIL" /\ used' = used /\ UNCHANGED fatal
  BY DEF ChannelOpenFailure, Received
<1>3. /\ v \in Cids /\ n \in Nums /\ m \in Packets
      /\ \A q \in Of(Tail(wire[s]), v) : q \in Of(wire[s], v) /\ q.type \notin Starts
  BY <1>0, <1>2, OpeningHead DEF Starts
<1>4. PICK i \in Cids : Refused(channels, ep, wire, v, t, n, i)
  BY <1>0, <1>2, OpeningHead DEF Starts
<1> DEFINE c == channels[i]
<1>5. /\ c # FreeSlot /\ c.conv = v /\ c.requestor = t /\ c.requestorCh = n /\ ~c.proxied
      /\ Slots(channels, v) = {i}
  BY <1>4 DEF Refused, Pending, Slots
<1>6. FindForAnswer(s, m.to) = i /\ i # 0
  <2>1. n = NumAt(c, t) /\ n # None
    BY <1>3, <1>5, NumsAssumption DEF NumAt, RequestorNum, None
  <2>2. FindForAnswer(s, n) = i
    BY <1>0, <1>5, <2>1, Lookup DEF FollowedState
  <2> QED BY <2>2 DEF Cids
<1>7. /\ channels' = [channels EXCEPT ![i] = FreeSlot]
      /\ flags' = [flags EXCEPT !.sendShellEnv = FALSE, !.refused = FALSE]
      /\ Deliver(s, t, m)
  <2>1. Rewrite(s, m, c) = m
    BY <1>5 DEF Rewrite
  <2> QED BY <1>6, <2>1 DEF ChannelOpenFailure, EnvTaken
<1>8. /\ wire' = [wire EXCEPT ![s] = Tail(@)] /\ seen' = seen /\ awaits' = awaits
      /\ Becomes(ep, ep', t, n, NoEndpoint)
  <2>1. ep[t][n].conv = v
    BY <1>4 DEF Refused, Pending, Waits, Ends
  <2>2. EndAfter(ep[t][n], m) = NoEndpoint
    BY <1>2 DEF EndAfter
  <2>3. /\ Becomes(ep, ep', t, m.to, EndAfter(ep[t][m.to], m))
        /\ wire' = [wire EXCEPT ![s] = Tail(@)] /\ seen' = seen /\ awaits' = awaits
    BY <1>0, <1>1, <1>2, <1>3, <1>7, <2>1, EndReached
  <2> QED BY <2>2, <2>3
<1>9. /\ wire'[s] = Tail(wire[s]) /\ wire'[t] = wire[t]
      /\ DOMAIN wire' = Side /\ wire' = [x \in Side |-> wire'[x]]
      /\ \A x \in Side : WireAbout(wire[x], wire'[x], v)
  BY <1>0, <1>2, <1>8, HeadTaken
<1>10. /\ ep' \in [Side -> [Nums -> Peers \cup {NoEndpoint}]]
       /\ EndsAbout(ep, ep', v)
       /\ Ends(ep', s, v) = Ends(ep, s, v) /\ Ends(ep', t, v) = Ends(ep, t, v) \ {n}
  <2>1. ep \in [Side -> [Nums -> Peers \cup {NoEndpoint}]]
    BY <1>0 DEF ChannelsTyped
  <2>2. ep[t][n].conv \in {0, v}
    BY <1>4 DEF Refused, Pending, Waits, Ends
  <2>3. /\ NoEndpoint \in Peers \cup {NoEndpoint} /\ NoEndpoint.conv \in {0, v}
        /\ NoEndpoint.conv # v
    BY <1>3 DEF NoEndpoint, Cids
  <2> QED BY <1>1, <1>3, <1>8, <2>1, <2>2, <2>3, EndChanged
<1>11. /\ channels \in [Cids -> Channel \cup {FreeSlot}]
       /\ used \in [opens : 0 .. MaxOpens, sends : Nat]
       /\ seen = [misrouted |-> seen.misrouted, unasked |-> seen.unasked, env |-> seen.env]
       /\ flags \in [noMoreSessions : BOOLEAN, sendShellEnv : BOOLEAN,
                     replayPhase : BOOLEAN, refused : BOOLEAN]
  BY <1>0 DEF ChannelsTyped
<1>12. /\ channels' \in [Cids -> Channel \cup {FreeSlot}]
       /\ EntriesAbout(channels, channels', v)
       /\ channels'[i] = FreeSlot /\ \A j \in Cids : j # i => channels'[j] = channels[j]
       /\ Slots(channels', v) = Slots(channels, v) \ {i}
  <2>1. Turns(channels, channels', i, FreeSlot) /\ FreeSlot \in Channel \cup {FreeSlot}
    BY <1>7 DEF Turns
  <2> QED BY <1>3, <1>5, <1>11, <2>1, SlotChanged
<1>13. Free(channels', ep', wire', v)
  <2>1. Of(wire'[s], v) = {}
    BY <1>1, <1>3, <1>4, <1>9 DEF Refused, Starts
  <2>2. Of(wire'[t], v) = {} /\ Ends(ep', t, v) = {} /\ Ends(ep', s, v) = {}
    BY <1>1, <1>4, <1>9, <1>10 DEF Refused, Pending, Waits
  <2>3. Slots(channels', v) = {}
    BY <1>5, <1>12
  <2> QED BY <1>1, <2>1, <2>2, <2>3 DEF Free
<1>14. Conversation(channels', ep', wire', v)
  BY <1>13 DEF Conversation
<1>15. v <= used.opens /\ used.opens <= used.opens
  <2>1. ~Free(channels, ep, wire, v)
    BY <1>5 DEF Free
  <2> QED BY <1>0, <1>3, <2>1, Begun
<1>16. /\ flags' \in [noMoreSessions : BOOLEAN, sendShellEnv : BOOLEAN,
                      replayPhase : BOOLEAN, refused : BOOLEAN]
       /\ ~flags'.sendShellEnv
  BY <1>7, <1>11
<1>17. EnvPending'
  BY <1>16 DEF EnvPending
<1>18. \A j \in Cids : channels'[j] # FreeSlot =>
          channels[j] # FreeSlot /\ channels'[j] = channels[j]
  BY <1>12
<1>19. Apart(channels') /\ Proxied(channels')
  <2>1. Apart(channels')
    BY <1>0, <1>18, ApartKept DEF FollowedState
  <2> QED BY <1>0, <1>18, <2>1 DEF FollowedState, Proxied
<1>20. /\ "wrong" \notin seen'.env
       /\ seen' = [misrouted |-> seen.misrouted, unasked |-> seen'.unasked, env |-> seen'.env]
  BY <1>0, <1>8, <1>11 DEF EnvWell
<1>21. fatal' = "no"
  BY <1>0, <1>2
<1> QED BY <1>0, <1>2, <1>3, <1>8, <1>9, <1>10, <1>11, <1>12, <1>14, <1>15, <1>16, <1>17, <1>18,
           <1>19, <1>20, <1>21, StepKept

\* The end of x is answered: the rest of its channel is known.
LEMMA EndConfirmed ==
  ASSUME ChannelsTyped, NEW x \in Side, NEW m, m.type = "CONFIRM", m.conv \in Cids,
         m.to \in Nums, ep[x][m.to].conv = m.conv, NEW r \in Reactions(x, m),
         ep' = [ep EXCEPT ![x] = r.ep], NEW env,
         seen' = Merge(Merge(seen, r.seen), [Nothing EXCEPT !.env = env])
  PROVE  /\ Becomes(ep, ep', x, m.to, [ep[x][m.to] EXCEPT !.remote = m.from])
         /\ seen' = [misrouted |-> seen.misrouted, unasked |-> seen.unasked,
                     env |-> seen.env \cup env]
<1>1. /\ r.ep = [ep[x] EXCEPT ![m.to] = EndAfter(ep[x][m.to], m)]
      /\ r.out = <<>> /\ r.seen = Nothing
  BY EndReacts
<1>2. EndAfter(ep[x][m.to], m) = [ep[x][m.to] EXCEPT !.remote = m.from]
  BY Zenon DEF EndAfter
<1>3. Becomes(ep, ep', x, m.to, [ep[x][m.to] EXCEPT !.remote = m.from])
  BY <1>1, <1>2 DEF Becomes
<1>4. /\ [Nothing EXCEPT !.env = env].misrouted = {}
      /\ [Nothing EXCEPT !.env = env].unasked = {}
      /\ [Nothing EXCEPT !.env = env].env = env
  BY DEF Nothing
<1>5. Merge(seen, r.seen) = [misrouted |-> seen.misrouted, unasked |-> seen.unasked,
                             env |-> seen.env]
  BY <1>1 DEF Merge, Nothing
<1> QED BY <1>3, <1>4, <1>5 DEF Merge

\* The provider accepts a channel: both ends are in use, and a pending
\* environment is sent.
LEMMA OpenConfirmKept ==
  ASSUME ChannelsInv, NEW s \in Side, ChannelOpenConfirm(s)
  PROVE  ChannelsInv'
<1> DEFINE m == Head(wire[s])
           t == TheOtherSide(s)
<1> PICK v, n, k : v = m.conv /\ n = m.to /\ k = m.from
  OBVIOUS
<1>0. FollowedState /\ ChannelsTyped /\ fatal = "no" /\ EnvPending /\ EnvWell
  BY DEF ChannelsInv, ChannelOpenConfirm, Received
<1>1. t \in Side /\ t # s /\ TheOtherSide(t) = s /\ \A x \in Side : x = s \/ x = t
  BY TwoSides
<1>2. wire[s] # <<>> /\ m.type = "CONFIRM" /\ used' = used
  BY DEF ChannelOpenConfirm, Received
<1>3. /\ v \in Cids /\ n \in Nums /\ k \in Nums /\ m \in Packets
      /\ \A q \in Of(Tail(wire[s]), v) : q \in Of(wire[s], v) /\ q.type \notin Starts
      /\ \A q \in Of(wire[s], v) : q.type \notin Starts => q \in Of(Tail(wire[s]), v)
  BY <1>0, <1>2, OpeningHead DEF Starts
<1>4. PICK i \in Cids : Accepted(channels, ep, wire, v, t, n, i, k)
  BY <1>0, <1>2, OpeningHead DEF Starts
<1> DEFINE c == channels[i]
           d == [c EXCEPT !.providerCh = k, !.state = "CONFIRMED", !.spoken = FALSE]
<1>5. /\ c # FreeSlot /\ c.conv = v /\ c.requestor = t /\ c.requestorCh = n /\ ~c.proxied
      /\ Slots(channels, v) = {i} /\ c.state = "OPEN" /\ c.providerCh = None
  BY <1>4 DEF Accepted, Pending, Slots
<1>6. FindForAnswer(s, m.to) = i /\ i # 0
  <2>1. n = NumAt(c, t) /\ n # None
    BY <1>3, <1>5, NumsAssumption DEF NumAt, RequestorNum, None
  <2>2. FindForAnswer(s, n) = i
    BY <1>0, <1>5, <2>1, Lookup DEF FollowedState
  <2> QED BY <2>2 DEF Cids
<1> PICK env : env = EnvReaches(c)
  OBVIOUS
<1>7. PICK r \in Reactions(t, m) :
      /\ channels' = [channels EXCEPT ![i].providerCh = m.from,
                                      ![i].state = "CONFIRMED", ![i].spoken = FALSE]
      /\ flags' = [flags EXCEPT !.sendShellEnv = FALSE, !.refused = FALSE]
      /\ ep' = [ep EXCEPT ![t] = r.ep]
      /\ wire' = [wire EXCEPT ![s] = Tail(@)]
      /\ seen' = Merge(Merge(seen, r.seen), [Nothing EXCEPT !.env = env])
      /\ UNCHANGED <<fatal, awaits>>
  <2>1. Rewrite(s, m, c) = m
    BY <1>5 DEF Rewrite
  <2> QED BY <1>6, <2>1 DEF ChannelOpenConfirm, EnvTaken
<1>8. ep[t][n].conv = v /\ ep[t][n] \in Peers
  <2>1. ep[t][n].conv = v
    BY <1>4 DEF Accepted, Pending, Waits, Ends
  <2> QED BY <1>0, <1>1, <1>3, <2>1, Shapes DEF FollowedState, Settled
<1>9. /\ Becomes(ep, ep', t, n, [ep[t][n] EXCEPT !.remote = k])
      /\ seen' = [misrouted |-> seen.misrouted, unasked |-> seen.unasked,
                  env |-> seen.env \cup env]
  <2>1. m.conv \in Cids /\ m.to \in Nums /\ ep[t][m.to].conv = m.conv
    BY <1>3, <1>8
  <2>2. /\ Becomes(ep, ep', t, m.to, [ep[t][m.to] EXCEPT !.remote = m.from])
        /\ seen' = [misrouted |-> seen.misrouted, unasked |-> seen.unasked,
                    env |-> seen.env \cup env]
    BY <1>0, <1>1, <1>2, <1>7, <2>1, EndConfirmed
  <2> QED BY <2>2
<1>10. /\ wire'[s] = Tail(wire[s]) /\ wire'[t] = wire[t]
       /\ DOMAIN wire' = Side /\ wire' = [x \in Side |-> wire'[x]]
       /\ \A x \in Side : WireAbout(wire[x], wire'[x], v)
  BY <1>0, <1>2, <1>7, HeadTaken
<1>11. /\ ep' \in [Side -> [Nums -> Peers \cup {NoEndpoint}]]
       /\ EndsAbout(ep, ep', v)
       /\ Ends(ep', s, v) = Ends(ep, s, v) /\ Ends(ep', t, v) = Ends(ep, t, v) \cup {n}
       /\ ep'[t][n] = [ep[t][n] EXCEPT !.remote = k]
       /\ \A j \in Nums : ep'[s][j] = ep[s][j]
  <2>1. ep \in [Side -> [Nums -> Peers \cup {NoEndpoint}]]
    BY <1>0 DEF ChannelsTyped
  <2>2. /\ [ep[t][n] EXCEPT !.remote = k] \in Peers \cup {NoEndpoint}
        /\ [ep[t][n] EXCEPT !.remote = k].conv = v
    <3>1. k \in Int
      <4>1. k \in Nums
        BY <1>3
      <4> QED BY <4>1, NumsAssumption, SMTT(20)
    <3> QED BY <1>8, <3>1 DEF Peers
  <2>3. PICK a : a = [ep[t][n] EXCEPT !.remote = k]
    OBVIOUS
  <2>4. a \in Peers \cup {NoEndpoint} /\ a.conv = v /\ Becomes(ep, ep', t, n, a)
    BY <1>9, <2>2, <2>3
  <2>5. /\ ep' \in [Side -> [Nums -> Peers \cup {NoEndpoint}]]
        /\ EndsAbout(ep, ep', v)
        /\ Ends(ep', s, v) = Ends(ep, s, v) /\ Ends(ep', t, v) = Ends(ep, t, v) \cup {n}
        /\ ep'[t][n] = a
        /\ \A j \in Nums : ep'[s][j] = ep[s][j]
    BY <1>1, <1>3, <1>8, <2>1, <2>4, EndChanged
  <2> QED BY <2>3, <2>5
<1>12. /\ channels \in [Cids -> Channel \cup {FreeSlot}]
       /\ used \in [opens : 0 .. MaxOpens, sends : Nat]
       /\ seen = [misrouted |-> seen.misrouted, unasked |-> seen.unasked, env |-> seen.env]
       /\ flags \in [noMoreSessions : BOOLEAN, sendShellEnv : BOOLEAN,
                     replayPhase : BOOLEAN, refused : BOOLEAN]
  BY <1>0 DEF ChannelsTyped
<1>13. /\ d \in Channel /\ d.conv = v /\ d.requestor = t /\ d.requestorCh = n /\ ~d.proxied
       /\ d.providerCh = k /\ d.state = "CONFIRMED"
  <2>1. c \in Channel
    BY <1>5, <1>12
  <2> QED BY <1>3, <1>5, <2>1 DEF Channel
<1>14. Turns(channels, channels', i, d)
  <2>1. c \in Channel
    BY <1>5, <1>12
  <2> QED BY <1>7, <1>12, <2>1 DEF Turns, Channel
<1> HIDE DEF d
<1>15. d # FreeSlot
  <2>1. d.requestor # FreeSlot.requestor
    BY <1>1, <1>13 DEF FreeSlot, Side, CLIENT, TARGET
  <2> QED BY <2>1
<1>16. /\ channels' \in [Cids -> Channel \cup {FreeSlot}]
       /\ EntriesAbout(channels, channels', v)
       /\ channels'[i] = d /\ \A j \in Cids : j # i => channels'[j] = channels[j]
       /\ Slots(channels', v) = Slots(channels, v) \cup {i}
  BY <1>3, <1>5, <1>12, <1>13, <1>14, <1>15, SlotChanged
<1>17. /\ OwnNum(d, s) = k /\ OwnNum(d, t) = n /\ NumAt(d, s) = k /\ NumAt(d, t) = n
       /\ OwnNum(c, t) = n
  BY <1>1, <1>5, <1>13 DEF OwnNum, NumAt, RequestorNum, ProviderNum
<1>18. InUse(ep', wire', v, d, t)
  <2>1. End(ep', v, d, t)
    <3>1. Ends(ep', t, v) = {n} /\ ep'[t][n].own /\ ep'[t][n].remote = k
      BY <1>4, <1>8, <1>11 DEF Accepted, Pending, Waits, Peers
    <3> QED BY <1>1, <1>13, <1>17, <3>1 DEF End
  <2>2. Of(wire'[t], v) = {}
    BY <1>4, <1>10 DEF Accepted, Pending
  <2>3. ~ep'[t][n].sent /\ ~ep'[t][n].got
    BY <1>4, <1>8, <1>11 DEF Accepted, Pending, Waits, Peers
  <2> QED BY <1>17, <2>1, <2>2, <2>3 DEF InUse, Line, HasClose
<1>19. InUse(ep', wire', v, d, s)
  <2>1. /\ Ends(ep, s, v) = {k} /\ ~ep[s][k].own /\ ~ep[s][k].got /\ ep[s][k].remote = n
        /\ ep[s][k].sent <=> HasClose(wire, s, v)
        /\ \A p \in Of(wire[s], v) : p.to = n /\ p.type \in Talk \cup {"CONFIRM", "CLOSE"}
    BY <1>1, <1>4 DEF Accepted
  <2>2. ep'[s][k] = ep[s][k]
    BY <1>3, <1>11
  <2>3. End(ep', v, d, s)
    BY <1>1, <1>11, <1>13, <1>17, <2>1, <2>2 DEF End
  <2>4. Line(wire', v, d, s)
    BY <1>1, <1>3, <1>10, <1>13, <1>17, <2>1 DEF Line, Starts
  <2>5. HasClose(wire', s, v) <=> HasClose(wire, s, v)
    BY <1>3, <1>10 DEF HasClose, Starts
  <2> QED BY <1>17, <2>1, <2>2, <2>3, <2>4, <2>5 DEF InUse
<1>20. Up(channels', ep', wire', v, i)
  BY <1>1, <1>3, <1>5, <1>13, <1>16, <1>18, <1>19 DEF Up
<1>21. Conversation(channels', ep', wire', v)
  BY <1>20 DEF Conversation
<1>22. v <= used.opens /\ used.opens <= used.opens
  <2>1. ~Free(channels, ep, wire, v)
    BY <1>5 DEF Free
  <2> QED BY <1>0, <1>3, <2>1, Begun
<1>23. /\ flags' \in [noMoreSessions : BOOLEAN, sendShellEnv : BOOLEAN,
                      replayPhase : BOOLEAN, refused : BOOLEAN]
       /\ ~flags'.sendShellEnv
  BY <1>7, <1>12
<1>24. EnvPending'
  BY <1>23 DEF EnvPending
<1>25. Apart(channels')
  <2>1. ASSUME NEW j \in Cids, j # i, channels[j] # FreeSlot
        PROVE  OwnNum(channels[j], s) # k /\ (OwnNum(channels[j], t) = n => FALSE)
    <3>1. channels[j].conv # v
      BY <1>5, <2>1 DEF Slots
    <3>2. wire[s] \in Seq(Packets)
      BY <1>0 DEF ChannelsTyped
    <3>3. OwnNum(channels[j], s) # k
      BY <1>0, <1>2, <2>1, <3>1, <3>2, NewNumber DEF FollowedState
    <3>4. n # None
      BY <1>3, NumsAssumption DEF None
    <3> QED BY <1>0, <1>1, <1>5, <1>17, <2>1, <3>3, <3>4 DEF FollowedState, Apart
  <2>2. \A j, l \in Cids, x \in Side : j # i /\ l # i
          /\ channels'[j] # FreeSlot /\ channels'[l] # FreeSlot
          /\ OwnNum(channels'[j], x) = OwnNum(channels'[l], x)
          /\ OwnNum(channels'[j], x) # None => j = l
    BY <1>0, <1>16 DEF FollowedState, Apart
  <2>3. \A j \in Cids, x \in Side : j # i /\ channels'[j] # FreeSlot =>
          OwnNum(channels'[j], x) # OwnNum(channels'[i], x)
    BY <1>1, <1>16, <1>17, <2>1
  <2> QED BY <2>2, <2>3 DEF Apart
<1>26. Proxied(channels')
  BY <1>0, <1>13, <1>16 DEF FollowedState, Proxied
<1>27. "wrong" \notin env
  <2>1. CASE flags.sendShellEnv
    <3>1. flags.refused \/ Unanswered # {}
      BY <1>0, <2>1 DEF EnvPending, Open, Unanswered
    <3> QED BY <2>1, <3>1 DEF EnvReaches
  <2>2. CASE ~flags.sendShellEnv
    BY <2>2 DEF EnvReaches
  <2> QED BY <2>1, <2>2
<1>28. /\ "wrong" \notin seen'.env
       /\ seen' = [misrouted |-> seen.misrouted, unasked |-> seen'.unasked, env |-> seen'.env]
  BY <1>0, <1>9, <1>27 DEF EnvWell
<1>29. fatal' = "no" /\ awaits' = awaits
  BY <1>0, <1>7
<1>30. \A j \in Cids : channels'[j] # FreeSlot /\ channels'[j].state = "CLOSE" =>
          channels[j] # FreeSlot /\ channels'[j] = channels[j]
  BY <1>13, <1>16
<1> QED BY <1>0, <1>2, <1>3, <1>10, <1>11, <1>12, <1>16, <1>21, <1>22, <1>23, <1>24, <1>25,
           <1>26, <1>28, <1>29, <1>30, StepKept

\* The end of a provider.
Provided(v, n) == [conv |-> v, own |-> FALSE, sent |-> FALSE, got |-> FALSE, remote |-> n,
                   awaits |-> 0]

Replied(t, m, r) ==
  /\ r.seen = Nothing
  /\ \/ r.ep = ep[t] /\ r.out = <<Packet("OPENFAIL", m.from, m.conv, "")>>
     \/ \E k \in NewNums(t) :
          /\ r.out = <<Opening("CONFIRM", m.from, m.conv, "", k)>>
          /\ r.ep = [ep[t] EXCEPT ![k] = Provided(m.conv, m.from)]

\* The reactions to an OPEN: the channel is refused, or accepted with a number
\* of its own.
LEMMA OpenReacts ==
  ASSUME NEW t \in Side, NEW m, m.type = "OPEN", NEW r \in Reactions(t, m)
  PROVE  Replied(t, m, r)
<1> DEFINE stay == [ep |-> ep[t], out |-> <<>>, seen |-> Nothing]
           yes(n) == [stay EXCEPT
                  !.out = <<[Packet("CONFIRM", m.from, m.conv, "") EXCEPT !.from = n]>>,
                  !.ep  = [ep[t] EXCEPT ![n] = Provided(m.conv, m.from)]]
           no == [stay EXCEPT !.out = <<Packet("OPENFAIL", m.from, m.conv, "")>>]
<1>1. r \in {yes(n) : n \in NewNums(t)} \cup {no}
  BY DEF Reactions, Provided
<1>2. CASE r = no
  <2>1. r = [ep |-> ep[t], out |-> <<Packet("OPENFAIL", m.from, m.conv, "")>>, seen |-> Nothing]
    BY <1>2
  <2> QED BY <2>1 DEF Replied
<1>3. ASSUME NEW k \in NewNums(t), r = yes(k)
      PROVE  /\ r.seen = Nothing
             /\ r.out = <<Opening("CONFIRM", m.from, m.conv, "", k)>>
             /\ r.ep = [ep[t] EXCEPT ![k] = Provided(m.conv, m.from)]
  <2>1. r = [ep |-> [ep[t] EXCEPT ![k] = Provided(m.conv, m.from)],
             out |-> <<Opening("CONFIRM", m.from, m.conv, "", k)>>, seen |-> Nothing]
    BY <1>3 DEF Opening
  <2> QED BY <2>1
<1> QED BY <1>1, <1>2, <1>3 DEF Replied

\* So an OPEN that is forwarded is answered on the other wire.
LEMMA OpenReached ==
  ASSUME ChannelsTyped, NEW s \in Side, wire[s] # <<>>, NEW m, m.type = "OPEN",
         NEW v \in Cids, v = m.conv, NEW n \in Nums, n = m.from,
         Deliver(s, TheOtherSide(s), m)
  PROVE  LET t == TheOtherSide(s) IN
         /\ seen' = seen /\ awaits' = awaits
         /\ \E p \in Packets :
              /\ wire' = [wire EXCEPT ![s] = Tail(wire[s]), ![t] = Append(wire[t], p)]
              /\ p.conv = v /\ p.to = n
              /\ \/ p.type = "OPENFAIL" /\ ep' = ep
                 \/ \E k \in NewNums(t) :
                      /\ p.type = "CONFIRM" /\ p.from = k
                      /\ Becomes(ep, ep', t, k, Provided(v, n))
<1> DEFINE t == TheOtherSide(s)
<1>0. t \in Side /\ t # s
  BY TwoSides
<1>1. PICK r \in Reactions(t, m) :
        /\ ep' = [ep EXCEPT ![t] = r.ep]
        /\ wire' = [[wire EXCEPT ![s] = Tail(@)] EXCEPT ![t] = @ \o r.out]
        /\ seen' = Merge(seen, r.seen)
        /\ UNCHANGED awaits
  BY DEF Deliver
<1>2. /\ r.seen = Nothing
      /\ \/ r.ep = ep[t] /\ r.out = <<Packet("OPENFAIL", n, v, "")>>
         \/ \E k \in NewNums(t) :
              /\ r.out = <<Opening("CONFIRM", n, v, "", k)>>
              /\ r.ep = [ep[t] EXCEPT ![k] = Provided(v, n)]
  <2>1. Replied(t, m, r)
    BY <1>0, OpenReacts
  <2> QED BY <2>1 DEF Replied
<1>3. /\ wire \in [Side -> Seq(Packets)] /\ ep \in [Side -> [Nums -> Peers \cup {NoEndpoint}]]
      /\ seen = [misrouted |-> seen.misrouted, unasked |-> seen.unasked, env |-> seen.env]
  BY DEF ChannelsTyped
<1>4. seen' = seen
  <2>1. r.seen = Nothing => seen' = seen
    BY <1>1, <1>3 DEF Merge, Nothing
  <2> QED BY <1>2, <2>1
<1>5. ASSUME NEW p \in Packets, r.out = <<p>>
      PROVE  wire' = [wire EXCEPT ![s] = Tail(wire[s]), ![t] = Append(wire[t], p)]
  <2>1. wire[t] \o <<p>> = Append(wire[t], p)
    BY <1>0, <1>3
  <2> QED BY <1>0, <1>1, <1>3, <1>5, <2>1
<1>6. n \in Int /\ v \in 0 .. MaxOpens /\ v # 0 /\ "" \in Kinds
  BY NumsAssumption DEF Cids, Kinds
<1>7. CASE r.ep = ep[t] /\ r.out = <<Packet("OPENFAIL", n, v, "")>>
  <2>1. PICK p : p = Packet("OPENFAIL", n, v, "")
    OBVIOUS
  <2>2. p \in Packets
    <3>1. "OPENFAIL" \in PacketTypes /\ (v = 0 <=> "OPENFAIL" \in GlobalTypes)
      BY <1>6 DEF PacketTypes, GlobalTypes
    <3> QED BY <1>6, <2>1, <3>1, PacketMade
  <2>3. p.conv = v /\ p.to = n /\ p.type = "OPENFAIL"
    BY <2>1 DEF Packet
  <2>4. ep' = ep
    BY <1>0, <1>1, <1>3, <1>7
  <2>5. wire' = [wire EXCEPT ![s] = Tail(wire[s]), ![t] = Append(wire[t], p)]
    BY <1>5, <1>7, <2>1, <2>2
  <2> QED BY <1>1, <1>4, <2>2, <2>3, <2>4, <2>5
<1>8. ASSUME NEW k \in NewNums(t), r.out = <<Opening("CONFIRM", n, v, "", k)>>,
             r.ep = [ep[t] EXCEPT ![k] = Provided(v, n)]
      PROVE  \E p \in Packets :
              /\ wire' = [wire EXCEPT ![s] = Tail(wire[s]), ![t] = Append(wire[t], p)]
              /\ p.conv = v /\ p.to = n /\ p.type = "CONFIRM" /\ p.from = k
              /\ Becomes(ep, ep', t, k, Provided(v, n))
  <2>1. PICK p : p = Opening("CONFIRM", n, v, "", k)
    OBVIOUS
  <2>2. p \in Packets /\ p.conv = v /\ p.type = "CONFIRM" /\ p.from = k /\ p.to = n
    <3>1. k \in Nums
      BY DEF NewNums
    <3>2. \A type \in {"OPEN", "CONFIRM"} :
             /\ Opening(type, n, v, "", k) \in Packets
             /\ Opening(type, n, v, "", k).conv = v
             /\ Opening(type, n, v, "", k).type = type
             /\ Opening(type, n, v, "", k).from = k
             /\ Opening(type, n, v, "", k).to = n
      <4>1. PICK to, kind : to = n /\ kind = ""
        OBVIOUS
      <4>2. to \in Int /\ kind \in Kinds
        BY <1>6, <4>1
      <4>3. \A type \in {"OPEN", "CONFIRM"} :
               /\ Opening(type, to, v, kind, k) \in Packets
               /\ Opening(type, to, v, kind, k).conv = v
               /\ Opening(type, to, v, kind, k).type = type
               /\ Opening(type, to, v, kind, k).from = k
               /\ Opening(type, to, v, kind, k).to = to
        BY <3>1, <4>2, OpeningMade
      <4> QED BY <4>1, <4>3
    <3> QED BY <2>1, <3>2
  <2>3. wire' = [wire EXCEPT ![s] = Tail(wire[s]), ![t] = Append(wire[t], p)]
    BY <1>5, <1>8, <2>1, <2>2
  <2>4. Becomes(ep, ep', t, k, Provided(v, n))
    BY <1>1, <1>8 DEF Becomes
  <2> QED BY <2>2, <2>3, <2>4
<1> QED BY <1>1, <1>2, <1>4, <1>7, <1>8

\* A channel is asked for and has an entry: the provider has refused it or
\* accepted it, and its answer is under way.
LEMMA OpenKept ==
  ASSUME ChannelsInv, NEW s \in Side, ChannelOpen(s)
  PROVE  ChannelsInv'
<1> DEFINE m == Head(wire[s])
           t == TheOtherSide(s)
<1> PICK v, n, i : v = m.conv /\ n = m.from /\ i = AllocNewChannel
  OBVIOUS
<1>0. FollowedState /\ ChannelsTyped /\ fatal = "no" /\ EnvPending /\ EnvWell
  BY DEF ChannelsInv, ChannelOpen, Received
<1>1. t \in Side /\ t # s /\ TheOtherSide(t) = s /\ \A x \in Side : x = s \/ x = t
  BY TwoSides
<1>2. wire[s] # <<>> /\ m.type = "OPEN" /\ used' = used
  BY DEF ChannelOpen, Received
<1>3. /\ v \in Cids /\ n \in Nums /\ m \in Packets
      /\ Asked(channels, ep, wire, v, s, n)
      /\ \A q \in Of(Tail(wire[s]), v) : q \in Of(wire[s], v) /\ q.type \notin Starts
  BY <1>0, <1>2, OpeningHead DEF Starts
<1>4. i \in Cids /\ channels[i] = FreeSlot
  BY <1>0, <1>3, RoomLeft DEF Asked
<1> DEFINE d == [requestor |-> s, requestorCh |-> n, providerCh |-> None,
                 proxied |-> FALSE, state |-> "OPEN",
                 logging |-> IF m.kind = "session" THEN "SESS" ELSE "TCPIP",
                 sftp |-> "none", spoken |-> FALSE, kind |-> m.kind, conv |-> v]
<1>5. /\ channels' = [channels EXCEPT ![i] = d]
      /\ flags' = [flags EXCEPT !.sendShellEnv = @ \/ m.kind = "session"]
      /\ Deliver(s, t, m)
      /\ UNCHANGED fatal /\ m.kind \in OpenKinds
  BY DEF ChannelOpen, AcceptsOpen, OpenKinds
<1>6. /\ channels \in [Cids -> Channel \cup {FreeSlot}]
      /\ wire \in [Side -> Seq(Packets)]
      /\ ep \in [Side -> [Nums -> Peers \cup {NoEndpoint}]]
      /\ used \in [opens : 0 .. MaxOpens, sends : Nat]
      /\ seen = [misrouted |-> seen.misrouted, unasked |-> seen.unasked, env |-> seen.env]
      /\ flags \in [noMoreSessions : BOOLEAN, sendShellEnv : BOOLEAN,
                    replayPhase : BOOLEAN, refused : BOOLEAN]
  BY <1>0 DEF ChannelsTyped
<1>7. /\ d \in Channel /\ d.conv = v /\ d.requestor = s /\ d.requestorCh = n /\ ~d.proxied
      /\ d.providerCh = None /\ d.state = "OPEN" /\ d.kind = m.kind
  <2>1. d.logging \in Logging
    BY DEF Logging
  <2> QED BY <1>3, <1>5, <2>1 DEF Channel
<1>8. Turns(channels, channels', i, d)
  BY <1>5 DEF Turns
<1> HIDE DEF d
<1>9. d # FreeSlot
  <2>1. d.requestor # FreeSlot.requestor
    BY <1>7 DEF FreeSlot, Side, CLIENT, TARGET
  <2> QED BY <2>1
<1>10. /\ channels' \in [Cids -> Channel \cup {FreeSlot}]
       /\ EntriesAbout(channels, channels', v)
       /\ channels'[i] = d /\ \A j \in Cids : j # i => channels'[j] = channels[j]
       /\ Slots(channels', v) = Slots(channels, v) \cup {i}
  BY <1>3, <1>4, <1>6, <1>7, <1>8, <1>9, SlotChanged
<1>11. /\ seen' = seen /\ awaits' = awaits
       /\ \E p \in Packets :
            /\ wire' = [wire EXCEPT ![s] = Tail(wire[s]), ![t] = Append(wire[t], p)]
            /\ p.conv = v /\ p.to = n
            /\ \/ p.type = "OPENFAIL" /\ ep' = ep
               \/ \E k \in NewNums(t) :
                    /\ p.type = "CONFIRM" /\ p.from = k
                    /\ Becomes(ep, ep', t, k, Provided(v, n))
  BY <1>0, <1>2, <1>3, <1>5, OpenReached
<1>12. PICK p \in Packets :
            /\ wire' = [wire EXCEPT ![s] = Tail(wire[s]), ![t] = Append(wire[t], p)]
            /\ p.conv = v /\ p.to = n
            /\ \/ p.type = "OPENFAIL" /\ ep' = ep
               \/ \E k \in NewNums(t) :
                    /\ p.type = "CONFIRM" /\ p.from = k
                    /\ Becomes(ep, ep', t, k, Provided(v, n))
  BY <1>11
<1>13. /\ wire'[s] = Tail(wire[s]) /\ wire'[t] = Append(wire[t], p)
       /\ DOMAIN wire' = Side /\ wire' = [x \in Side |-> wire'[x]]
  BY <1>1, <1>6, <1>12
<1>14. Of(wire[t], v) = {} /\ Ends(ep, t, v) = {} /\ Slots(channels, v) = {}
       /\ Waits(ep, s, n, v)
  BY <1>1, <1>3 DEF Asked
<1>15. Of(wire'[t], v) = {p}
  <2>1. wire[t] \in Seq(Packets)
    BY <1>1, <1>6
  <2>2. Of(Append(wire[t], p), v) = Of(wire[t], v) \cup {p}
    BY <1>3, <1>12, <2>1, Follows
  <2> QED BY <1>13, <1>14, <2>2
<1>16. Of(wire'[s], v) = {}
  BY <1>3, <1>13 DEF Asked, Starts
<1>17. \A x \in Side : WireAbout(wire[x], wire'[x], v)
  <2>1. WireAbout(wire[s], wire'[s], v)
    BY <1>2, <1>13 DEF WireAbout
  <2>2. WireAbout(wire[t], wire'[t], v)
    BY <1>12, <1>13, <1>14 DEF WireAbout
  <2> QED BY <1>1, <2>1, <2>2
<1>18. /\ ep' \in [Side -> [Nums -> Peers \cup {NoEndpoint}]] /\ EndsAbout(ep, ep', v)
       /\ Conversation(channels', ep', wire', v)
  <2>1. ASSUME Waits(ep', s, n, v) PROVE Pending(channels', ep', wire', v, s, n, i)
    BY <1>7, <1>10, <1>14, <1>16, <2>1 DEF Pending
  <2>2. CASE p.type = "OPENFAIL" /\ ep' = ep
    <3>1. Waits(ep', s, n, v) /\ Ends(ep', t, v) = {}
      BY <1>14, <2>2
    <3>2. Refused(channels', ep', wire', v, s, n, i)
      BY <1>12, <1>15, <2>1, <2>2, <3>1 DEF Refused
    <3>3. EndsAbout(ep, ep', v)
      BY <2>2 DEF EndsAbout
    <3> QED BY <1>3, <1>4, <1>6, <2>2, <3>2, <3>3 DEF Conversation
  <2>3. ASSUME NEW k \in NewNums(t), p.type = "CONFIRM", p.from = k,
               Becomes(ep, ep', t, k, Provided(v, n))
        PROVE  /\ ep' \in [Side -> [Nums -> Peers \cup {NoEndpoint}]] /\ EndsAbout(ep, ep', v)
               /\ Conversation(channels', ep', wire', v)
    <3>1. k \in Nums /\ ep[t][k] = NoEndpoint
      BY DEF NewNums, Live
    <3>2. PICK a : a = Provided(v, n)
      OBVIOUS
    <3>3. /\ a \in Peers /\ a.conv = v /\ ~a.own /\ ~a.got /\ ~a.sent /\ a.remote = n
      <4>1. n \in Int
        BY <1>3, NumsAssumption
      <4> QED BY <1>3, <3>2, <4>1 DEF Provided, Peers
    <3>4. ep[t][k].conv \in {0, v} /\ a.conv \in {0, v} /\ a \in Peers \cup {NoEndpoint}
      BY <3>1, <3>3 DEF NoEndpoint
    <3>5. Becomes(ep, ep', t, k, a)
      BY <2>3, <3>2
    <3>6. /\ ep' \in [Side -> [Nums -> Peers \cup {NoEndpoint}]] /\ EndsAbout(ep, ep', v)
          /\ ep'[t][k] = a /\ \A j \in Nums : ep'[s][j] = ep[s][j]
          /\ Ends(ep', s, v) = Ends(ep, s, v) /\ Ends(ep', t, v) = Ends(ep, t, v) \cup {k}
      BY <1>1, <1>3, <1>6, <3>1, <3>3, <3>4, <3>5, EndChanged
    <3>7. Waits(ep', s, n, v)
      BY <1>3, <1>14, <3>6 DEF Waits
    <3>8. Accepted(channels', ep', wire', v, s, n, i, k)
      <4>1. ~HasClose(wire', t, v)
        BY <1>15, <2>3 DEF HasClose
      <4> QED BY <1>12, <1>14, <1>15, <2>1, <2>3, <3>3, <3>6, <3>7, <4>1 DEF Accepted
    <3> QED BY <1>3, <1>4, <3>1, <3>6, <3>8 DEF Conversation
  <2> QED BY <1>12, <2>2, <2>3
<1>19. v <= used.opens /\ used.opens <= used.opens
  <2>1. ~Free(channels, ep, wire, v)
    BY <1>14 DEF Free, Waits
  <2> QED BY <1>0, <1>3, <2>1, Begun
<1>20. /\ flags' \in [noMoreSessions : BOOLEAN, sendShellEnv : BOOLEAN,
                      replayPhase : BOOLEAN, refused : BOOLEAN]
       /\ flags'.sendShellEnv <=> flags.sendShellEnv \/ m.kind = "session"
       /\ flags'.refused = flags.refused
  BY <1>5, <1>6
<1>21. EnvPending'
  <2>1. CASE m.kind = "session"
    BY <1>4, <1>7, <1>9, <1>10, <2>1 DEF EnvPending
  <2>2. CASE m.kind # "session"
    BY <1>0, <1>4, <1>10, <1>20, <2>2, EnvStays
  <2> QED BY <2>1, <2>2
<1>22. Apart(channels')
  <2>1. OwnNum(d, s) = n /\ OwnNum(d, t) = None /\ n # None
    BY <1>1, <1>3, <1>7, NumsAssumption DEF OwnNum, None
  <2>2. ASSUME NEW j \in Cids, channels[j] # FreeSlot
        PROVE  OwnNum(channels[j], s) # n
    <3>1. channels[j].conv # v
      BY <1>14, <2>2 DEF Slots
    <3>2. wire[s] \in Seq(Packets)
      BY <1>6
    <3> QED BY <1>0, <1>2, <2>2, <3>1, <3>2, NewNumber DEF FollowedState
  <2>3. \A j, l \in Cids, x \in Side : j # i /\ l # i
          /\ channels'[j] # FreeSlot /\ channels'[l] # FreeSlot
          /\ OwnNum(channels'[j], x) = OwnNum(channels'[l], x)
          /\ OwnNum(channels'[j], x) # None => j = l
    BY <1>0, <1>10 DEF FollowedState, Apart
  <2>4. \A j \in Cids, x \in Side : j # i /\ channels'[j] # FreeSlot
          /\ OwnNum(channels'[j], x) = OwnNum(channels'[i], x) => OwnNum(channels'[i], x) = None
    BY <1>1, <1>10, <2>1, <2>2
  <2> QED BY <2>3, <2>4 DEF Apart
<1>23. Proxied(channels')
  BY <1>0, <1>7, <1>10 DEF FollowedState, Proxied
<1>24. /\ "wrong" \notin seen'.env
       /\ seen' = [misrouted |-> seen.misrouted, unasked |-> seen'.unasked, env |-> seen'.env]
  BY <1>0, <1>6, <1>11 DEF EnvWell
<1>25. fatal' = "no"
  BY <1>0, <1>5
<1>26. \A j \in Cids : channels'[j] # FreeSlot /\ channels'[j].state = "CLOSE" =>
          channels[j] # FreeSlot /\ channels'[j] = channels[j]
  BY <1>7, <1>10
<1> QED BY <1>0, <1>2, <1>3, <1>6, <1>10, <1>11, <1>13, <1>17, <1>18, <1>19, <1>20, <1>21, <1>22,
           <1>23, <1>24, <1>25, <1>26, StepKept

\* A CLOSE is processed: the first leaves the channel half closed, the second
\* leaves nothing of it.
LEMMA CloseKept ==
  ASSUME ChannelsInv, NEW s \in Side, ChannelClose(s)
  PROVE  ChannelsInv'
<1> DEFINE m == Head(wire[s])
           t == TheOtherSide(s)
<1> PICK v : v = m.conv
  OBVIOUS
<1>0. FollowedState /\ ChannelsTyped /\ fatal = "no" /\ EnvPending /\ EnvWell
  BY DEF ChannelsInv, ChannelClose, Received
<1>1. t \in Side /\ t # s /\ TheOtherSide(t) = s /\ \A x \in Side : x = s \/ x = t
  BY TwoSides
<1>2. /\ wire[s] # <<>> /\ m.type = "CLOSE" /\ used' = used
      /\ UNCHANGED <<flags, fatal>>
  BY DEF ChannelClose, Received
<1>3. PICK i \in Cids :
        /\ m \in Packets /\ v \in Cids
        /\ channels[i] # FreeSlot /\ channels[i].conv = v
        /\ Up(channels, ep, wire, v, i) \/ Half(channels, ep, wire, v, i, t)
        /\ End(ep, v, channels[i], t)
        /\ m.to = NumAt(channels[i], t)
        /\ FindForClose(s, m.to) = i
  BY <1>0, <1>2, TalkHead
<1> DEFINE c == channels[i]
           d == IF c.state = "CLOSE" THEN FreeSlot
                ELSE [c EXCEPT !.state = "CLOSE",
                               !.sftp = IF c.logging = "SFTP" THEN "reset" ELSE @]
<1>4. /\ channels \in [Cids -> Channel \cup {FreeSlot}]
      /\ wire \in [Side -> Seq(Packets)]
      /\ ep \in [Side -> [Nums -> Peers \cup {NoEndpoint}]]
      /\ used \in [opens : 0 .. MaxOpens, sends : Nat]
      /\ seen = [misrouted |-> seen.misrouted, unasked |-> seen.unasked, env |-> seen.env]
      /\ flags \in [noMoreSessions : BOOLEAN, sendShellEnv : BOOLEAN,
                    replayPhase : BOOLEAN, refused : BOOLEAN]
  BY <1>0 DEF ChannelsTyped
<1>5. /\ channels' = [channels EXCEPT ![i] = d]
      /\ Deliver(s, t, Rewrite(s, m, c))
  <2>1. i # 0
    BY DEF Cids
  <2> QED BY <1>3, <2>1 DEF ChannelClose
<1>6. c \in Channel
  BY <1>3, <1>4
<1>7. PICK k \in Nums : k = OwnNum(c, t) /\ Ends(ep, t, v) = {k}
  BY <1>3 DEF End, Ends
<1>8. PICK m2 : m2 = Rewrite(s, m, c)
  OBVIOUS
<1>9. m2.to = k /\ m2.type = "CLOSE" /\ m2.conv = v
  <2>1. c.proxied => c.requestor = CLIENT
    BY <1>0, <1>3 DEF FollowedState, Proxied
  <2> QED BY <1>2, <1>3, <1>6, <1>7, <1>8, <2>1, Rewritten
<1>10. ep[t][k].conv = v /\ ep[t][k] \in Peers
  <2>1. ep[t][k].conv = v
    BY <1>7 DEF Ends
  <2> QED BY <1>0, <1>1, <1>3, <2>1, Shapes DEF FollowedState, Settled
<1>11. PICK a : a = EndAfter(ep[t][k], m2)
  OBVIOUS
<1>12. /\ Becomes(ep, ep', t, k, a)
       /\ wire' = [wire EXCEPT ![s] = Tail(@)] /\ seen' = seen /\ awaits' = awaits
  <2>1. /\ Becomes(ep, ep', t, m2.to, EndAfter(ep[t][m2.to], m2))
        /\ wire' = [wire EXCEPT ![s] = Tail(@)] /\ seen' = seen /\ awaits' = awaits
    BY <1>0, <1>1, <1>2, <1>3, <1>5, <1>8, <1>9, <1>10, EndReached
  <2> QED BY <1>9, <1>11, <2>1
<1>13. /\ ep[t][k].sent => a = NoEndpoint
       /\ ~ep[t][k].sent => a = [ep[t][k] EXCEPT !.got = TRUE]
  BY <1>9, <1>11, Zenon DEF EndAfter
<1>14. /\ a \in Peers \cup {NoEndpoint} /\ a.conv \in {0, v}
       /\ ep[t][k].sent => a.conv # v
       /\ ~ep[t][k].sent =>
            /\ a.conv = v /\ a.own = ep[t][k].own /\ a.remote = ep[t][k].remote
            /\ ~a.sent /\ a.got
  <2>1. CASE ep[t][k].sent
    <3>1. a = NoEndpoint /\ NoEndpoint.conv = 0 /\ v # 0
      BY <1>3, <1>13, <2>1 DEF NoEndpoint, Cids
    <3> QED BY <2>1, <3>1
  <2>2. CASE ~ep[t][k].sent
    BY <1>10, <1>13, <2>2 DEF Peers
  <2> QED BY <2>1, <2>2
<1>15. /\ wire'[s] = Tail(wire[s]) /\ wire'[t] = wire[t]
       /\ DOMAIN wire' = Side /\ wire' = [x \in Side |-> wire'[x]]
       /\ \A x \in Side : WireAbout(wire[x], wire'[x], v)
  BY <1>0, <1>2, <1>12, HeadTaken
<1>16. /\ ep' \in [Side -> [Nums -> Peers \cup {NoEndpoint}]]
       /\ EndsAbout(ep, ep', v)
       /\ Ends(ep', s, v) = Ends(ep, s, v)
       /\ ep'[t][k] = a /\ \A j \in Nums : ep'[s][j] = ep[s][j]
       /\ a.conv = v => Ends(ep', t, v) = Ends(ep, t, v) \cup {k}
       /\ a.conv # v => Ends(ep', t, v) = Ends(ep, t, v) \ {k}
  <2>1. ep[t][k].conv \in {0, v}
    BY <1>10
  <2> QED BY <1>1, <1>3, <1>4, <1>12, <1>14, <2>1, EndChanged
<1>17. Of(wire'[s], v) = {} /\ m \in Of(wire[s], v) /\ Of(wire'[t], v) = Of(wire[t], v)
  <2>1. wire[s] \in Seq(Packets) /\ InOrder(wire[s]) /\ m.conv # 0
    BY <1>0, <1>3, <1>4 DEF FollowedState, Cids
  <2>2. Of(Tail(wire[s]), v) = {}
    BY <1>2, <2>1, FirstOf
  <2>3. m \in Of(wire[s], v)
    BY <1>2, <2>1, OfPop
  <2> QED BY <1>15, <2>2, <2>3
<1>18. Slots(channels, v) = {i} /\ HasClose(wire, s, v) /\ c.state # "OPEN"
  BY <1>2, <1>3, <1>17 DEF Up, Half, HasClose
<1>19. Turns(channels, channels', i, d)
  BY <1>5 DEF Turns
<1>20. /\ d \in Channel \cup {FreeSlot} /\ (d = FreeSlot \/ d.conv = v)
       /\ c.state = "CLOSE" => d = FreeSlot
       /\ c.state # "CLOSE" =>
            /\ d \in Channel /\ d.conv = v /\ d.state = "CLOSE" /\ d.requestor = c.requestor
            /\ d.requestorCh = c.requestorCh /\ d.providerCh = c.providerCh
            /\ d.proxied = c.proxied
  <2>1. CASE c.state = "CLOSE"
    BY <2>1
  <2>2. CASE c.state # "CLOSE"
    <3>1. d = [c EXCEPT !.state = "CLOSE", !.sftp = IF c.logging = "SFTP" THEN "reset" ELSE @]
      BY <2>2
    <3> HIDE DEF d
    <3>2. d \in Channel /\ d.conv = c.conv /\ d.state = "CLOSE" /\ d.requestor = c.requestor
          /\ d.requestorCh = c.requestorCh /\ d.providerCh = c.providerCh
          /\ d.proxied = c.proxied
      BY <1>6, <3>1 DEF Channel
    <3> QED BY <1>3, <2>2, <3>2
  <2> QED BY <2>1, <2>2
<1> HIDE DEF d
<1>21. c.state # "CLOSE" => d # FreeSlot
  <2>1. \A e \in Channel : e.requestor # FreeSlot.requestor
    BY DEF FreeSlot, Channel, Side, CLIENT, TARGET
  <2> QED BY <1>20, <2>1
<1>22. /\ channels' \in [Cids -> Channel \cup {FreeSlot}]
       /\ EntriesAbout(channels, channels', v)
       /\ channels'[i] = d /\ \A j \in Cids : j # i => channels'[j] = channels[j]
       /\ d # FreeSlot => Slots(channels', v) = Slots(channels, v) \cup {i}
       /\ d = FreeSlot => Slots(channels', v) = Slots(channels, v) \ {i}
  BY <1>3, <1>4, <1>19, <1>20, SlotChanged
<1>23. c.state # "CLOSE" =>
         \A x \in Side : OwnNum(d, x) = OwnNum(c, x) /\ NumAt(d, x) = NumAt(c, x)
  BY <1>20 DEF OwnNum, NumAt, RequestorNum, ProviderNum
<1>24. Conversation(channels', ep', wire', v)
  <2>1. CASE Up(channels, ep, wire, v, i)
    <3>1. /\ c.state = "CONFIRMED" /\ c.providerCh \in Nums /\ d # FreeSlot
          /\ InUse(ep, wire, v, c, s) /\ InUse(ep, wire, v, c, t)
      BY <1>1, <1>21, <2>1 DEF Up
    <3>2. c.state # "CLOSE"
      BY <3>1
    <3>3. Slots(channels', v) = {i} /\ channels'[i] = d
      BY <1>18, <1>22, <3>1
    <3>4. ClosedFirst(ep', wire', v, d, s)
      <4>1. PICK l \in Nums : l = OwnNum(c, s) /\ Ends(ep, s, v) = {l}
        BY <3>1 DEF InUse, End, Ends
      <4>2. ep'[s][l] = ep[s][l] /\ OwnNum(d, s) = l
        BY <1>16, <1>23, <3>2, <4>1
      <4>3. End(ep', v, d, s)
        BY <1>1, <1>16, <1>20, <1>23, <3>1, <3>2, <4>1, <4>2 DEF InUse, End
      <4>4. ep'[s][l].sent /\ ~ep'[s][l].got
        BY <1>18, <3>1, <4>1, <4>2 DEF InUse
      <4> QED BY <1>17, <4>2, <4>3, <4>4 DEF ClosedFirst
    <3>5. ClosesNext(ep', wire', v, d, t)
      <4>1. Line(wire', v, d, t)
        BY <1>1, <1>17, <1>20, <1>23, <3>1, <3>2 DEF InUse, Line
      <4>2. HasClose(wire', t, v) <=> ep[t][k].sent
        BY <1>7, <1>17, <3>1 DEF InUse, HasClose
      <4>3. CASE ep[t][k].sent
        <5>1. Ends(ep', t, v) = {}
          BY <1>7, <1>14, <1>16, <4>3
        <5> QED BY <4>1, <4>2, <4>3, <5>1 DEF ClosesNext
      <4>4. CASE ~ep[t][k].sent
        <5>1. Ends(ep', t, v) = {k} /\ OwnNum(d, t) = k
          BY <1>1, <1>7, <1>14, <1>16, <1>23, <3>2, <4>4
        <5>2. End(ep', v, d, t)
          BY <1>1, <1>7, <1>14, <1>16, <1>20, <1>23, <3>1, <3>2, <4>4, <5>1 DEF InUse, End
        <5> QED BY <1>14, <1>16, <4>1, <4>2, <4>4, <5>1, <5>2 DEF ClosesNext
      <4> QED BY <4>3, <4>4
    <3>6. Half(channels', ep', wire', v, i, s)
      BY <1>20, <3>1, <3>2, <3>3, <3>4, <3>5 DEF Half
    <3> QED BY <3>6 DEF Conversation
  <2>2. CASE Half(channels, ep, wire, v, i, t)
    <3>1. /\ c.state = "CLOSE" /\ ClosedFirst(ep, wire, v, c, t) /\ ClosesNext(ep, wire, v, c, s)
      BY <1>1, <2>2 DEF Half
    <3>2. Slots(channels', v) = {}
      BY <1>18, <1>20, <1>22, <3>1
    <3>3. Ends(ep', s, v) = {}
      BY <1>16, <1>18, <3>1 DEF ClosesNext
    <3>4. ep[t][k].sent /\ Of(wire[t], v) = {}
      BY <1>7, <3>1 DEF ClosedFirst
    <3>5. Ends(ep', t, v) = {}
      BY <1>7, <1>14, <1>16, <3>4
    <3>6. Free(channels', ep', wire', v)
      BY <1>1, <1>17, <3>2, <3>3, <3>4, <3>5 DEF Free
    <3> QED BY <3>6 DEF Conversation
  <2> QED BY <1>3, <2>1, <2>2
<1>25. v <= used.opens /\ used.opens <= used.opens
  <2>1. ~Free(channels, ep, wire, v)
    BY <1>18 DEF Free
  <2> QED BY <1>0, <1>3, <2>1, Begun
<1>26. EnvPending'
  BY <1>0, <1>2, <1>18, <1>22, EnvStays
<1>27. \A j \in Cids : channels'[j] # FreeSlot =>
         /\ channels[j] # FreeSlot /\ channels[j].conv = channels'[j].conv
         /\ \A x \in Side : OwnNum(channels'[j], x) = OwnNum(channels[j], x)
  BY <1>3, <1>20, <1>22, <1>23
<1>28. Apart(channels')
  BY <1>0, <1>27, ApartKept DEF FollowedState
<1>29. Proxied(channels')
  <2>1. Proxied(channels)
    BY <1>0 DEF FollowedState
  <2>2. d # FreeSlot /\ d.proxied => d.requestor = CLIENT /\ d.conv = 1 /\ d.state # "OPEN"
    BY <1>3, <1>20, <2>1 DEF Proxied
  <2> QED BY <1>22, <2>1, <2>2 DEF Proxied
<1>30. /\ "wrong" \notin seen'.env
       /\ seen' = [misrouted |-> seen.misrouted, unasked |-> seen'.unasked, env |-> seen'.env]
  BY <1>0, <1>4, <1>12 DEF EnvWell
<1>31. /\ fatal' = "no" /\ flags' = flags
       /\ flags' \in [noMoreSessions : BOOLEAN, sendShellEnv : BOOLEAN,
                      replayPhase : BOOLEAN, refused : BOOLEAN]
  BY <1>0, <1>2, <1>4
<1>32. \A j \in Cids : channels'[j] # FreeSlot /\ channels'[j].state = "CLOSE" =>
         /\ channels[j] # FreeSlot /\ channels[j].conv = channels'[j].conv
         /\ \A x \in Side : OwnNum(channels[j], x) = OwnNum(channels'[j], x)
  BY <1>27
<1> QED BY <1>0, <1>2, <1>3, <1>4, <1>12, <1>15, <1>16, <1>22, <1>24, <1>25, <1>26, <1>28,
           <1>29, <1>30, <1>31, <1>32, StepKept

----------------------------------------------------------------------------
\* The session loop starts with no channel, or with the one of agent mode,
\* which both peers use; the target's answers to the requests and to the port
\* forward that were replayed are under way.
Replay == Packet("SUCCESS", SUSSHI_SESSION_TARGET_CHANNEL_START, 1, "replayed")
Granted == Packet("GSUCCESS", None, 0, "")
AnswersAtStart(len, forward) ==
  IF forward THEN Append([i \in 1 .. len |-> Replay], Granted) ELSE [i \in 1 .. len |-> Replay]
StartsWith(agent, forward, n, len) ==
  LET e(s)  == [conv |-> 1, own |-> s = CLIENT, sent |-> FALSE, got |-> FALSE,
                remote |-> IF s = CLIENT THEN SUSSHI_SESSION_CLIENT_CHANNEL_START
                           ELSE SUSSHI_SESSION_TARGET_CHANNEL_START,
                awaits |-> 0]
  IN  /\ flags = [noMoreSessions |-> FALSE, sendShellEnv |-> FALSE,
                  replayPhase |-> agent, refused |-> FALSE]
      /\ used = [opens |-> IF agent THEN 1 ELSE 0, sends |-> 0]
      /\ channels = [i \in Cids |->
           IF agent /\ i = 1
           THEN [requestor |-> CLIENT, requestorCh |-> n, providerCh |-> n,
                 proxied |-> TRUE, state |-> "CONFIRMED", logging |-> "TEXT",
                 sftp |-> "none", spoken |-> FALSE, kind |-> "session", conv |-> 1]
           ELSE FreeSlot]
      /\ ep = [s \in Side |-> [k \in Nums |-> IF agent /\ k = n THEN e(s) ELSE NoEndpoint]]
      /\ wire = [s \in Side |-> IF s = CLIENT THEN <<>> ELSE AnswersAtStart(len, forward)]
      /\ awaits = [s \in Side |-> IF s = CLIENT /\ forward THEN 1 ELSE 0]
      /\ global = [state |-> IF forward THEN "PENDING" ELSE "NONE", port0 |-> FALSE,
                   replayed |-> IF forward THEN 1 ELSE 0]

\* The cases of the initial states.
LEMMA InitialCases ==
  ASSUME ChannelsInit
  PROVE  \E agent \in BOOLEAN, forward \in BOOLEAN, n \in Nums, len \in Nat :
           StartsWith(agent, forward, n, len) /\ (~agent => len = 0)
<1>1. PICK replay \in {0, MaxReplay + 1}, forward \in BOOLEAN :
         LET agent == replay > 0
             n     == MinOf(Nums)
         IN  StartsWith(agent, forward, n, IF agent THEN replay - 1 ELSE 0)
  BY DEF ChannelsInit, StartsWith, AnswersAtStart, Replay, Granted
<1>2. MinOf(Nums) \in Nums
  BY LeastOne, NumsAssumption
<1>3. MaxReplay \in Nat
  BY NumsAssumption
<1>4. (IF replay > 0 THEN replay - 1 ELSE 0) \in Nat /\ (replay > 0) \in BOOLEAN
  BY <1>3
<1> QED BY <1>1, <1>2, <1>4

\* The packets under way at the start.
LEMMA StartPackets ==
  /\ Replay \in Packets /\ Replay.type = "SUCCESS" /\ Replay.conv = 1
  /\ Replay.to = SUSSHI_SESSION_TARGET_CHANNEL_START /\ Replay.kind = "replayed" /\ ~Replay.want
  /\ Granted \in Packets /\ Granted.type = "GSUCCESS" /\ Granted.conv = 0 /\ Granted.kind = ""
<1>1. /\ "SUCCESS" \in PacketTypes /\ "SUCCESS" \notin GlobalTypes /\ "replayed" \in Kinds
      /\ SUSSHI_SESSION_TARGET_CHANNEL_START \in Int /\ 1 \in 0 .. MaxOpens /\ 1 # 0
  BY NumsAssumption DEF PacketTypes, GlobalTypes, Kinds, SUSSHI_SESSION_TARGET_CHANNEL_START
<1>2. /\ "GSUCCESS" \in PacketTypes /\ "GSUCCESS" \in GlobalTypes /\ "" \in Kinds
      /\ None \in Int /\ 0 \in 0 .. MaxOpens
  BY NumsAssumption DEF PacketTypes, GlobalTypes, Kinds, None
<1>3. Replay \in Packets
  BY <1>1, PacketMade DEF Replay
<1>4. Granted \in Packets
  BY <1>2, PacketMade DEF Granted
<1> QED BY <1>3, <1>4 DEF Replay, Granted, Packet

\* What is on the wires at the start.
LEMMA InitialWires ==
  ASSUME NEW agent \in BOOLEAN, NEW forward \in BOOLEAN, NEW n \in Nums, NEW len \in Nat,
         StartsWith(agent, forward, n, len), ~agent => len = 0
  PROVE  /\ wire \in [Side -> Seq(Packets)]
         /\ \A x \in Side, v \in Cids : \A p \in Of(wire[x], v) :
              /\ agent /\ x = TARGET /\ v = 1 /\ p.type = "SUCCESS"
              /\ p.to = SUSSHI_SESSION_TARGET_CHANNEL_START
         /\ \A x \in Side : \A j \in 1 .. Len(wire[x]) : wire[x][j].type \in {"SUCCESS", "GSUCCESS"}
<1> DEFINE r == [i \in 1 .. len |-> Replay]
           w == AnswersAtStart(len, forward)
<1>0. PICK q, g : q = Replay /\ g = Granted /\ q \in Packets /\ g \in Packets
  BY StartPackets
<1>1. r \in Seq(Packets) /\ Len(r) = len /\ <<>> \in Seq(Packets) /\ Len(<<>>) = 0
  <2>1. [i \in 1 .. len |-> q] \in Seq(Packets) /\ Len([i \in 1 .. len |-> q]) = len
    BY <1>0
  <2> QED BY <1>0, <2>1
<1>2. \A j \in 1 .. len : r[j] = Replay
  OBVIOUS
<1> HIDE DEF r
<1>3. /\ w \in Seq(Packets) /\ Len(w) \in Nat
      /\ \A j \in 1 .. Len(w) : w[j] = Granted \/ (w[j] = Replay /\ len # 0)
  <2>1. CASE forward
    <3>1. w = Append(r, g)
      BY <1>0, <2>1 DEF AnswersAtStart, r
    <3>2. /\ Append(r, g) \in Seq(Packets) /\ Len(Append(r, g)) = len + 1
          /\ \A j \in 1 .. len : Append(r, g)[j] = r[j]
          /\ Append(r, g)[len + 1] = g
      BY <1>0, <1>1
    <3> QED BY <1>0, <1>2, <3>1, <3>2
  <2>2. CASE ~forward
    <3>1. w = r
      BY <2>2 DEF AnswersAtStart, r
    <3> QED BY <1>1, <1>2, <3>1
  <2> QED BY <2>1, <2>2
<1>4. wire = [s \in Side |-> IF s = CLIENT THEN <<>> ELSE w]
  BY DEF StartsWith
<1> HIDE DEF w
<1>5. wire \in [Side -> Seq(Packets)]
  BY <1>1, <1>3, <1>4
<1>6. \A x \in Side : /\ x = TARGET => wire[x] = w
                      /\ x # TARGET => Len(wire[x]) = 0
  BY <1>1, <1>4 DEF Side, CLIENT, TARGET
<1>7. \A x \in Side : \A j \in 1 .. Len(wire[x]) :
        /\ x = TARGET
        /\ wire[x][j] = Granted \/ (wire[x][j] = Replay /\ len # 0)
  BY <1>3, <1>6
<1>8. \A x \in Side, v \in Cids : \A p \in Of(wire[x], v) : agent /\ x = TARGET /\ v = 1 /\ p = Replay
  <2>1. Replay.conv = 1 /\ Granted.conv = 0
    BY StartPackets
  <2>2. PICK a, b : a = Replay /\ b = Granted
    OBVIOUS
  <2>3. a.conv = 1 /\ b.conv = 0
    BY <2>1, <2>2
  <2>4. \A x \in Side : \A j \in 1 .. Len(wire[x]) :
          x = TARGET /\ (wire[x][j] = b \/ (wire[x][j] = a /\ len # 0))
    BY <1>7, <2>2
  <2>5. 0 \notin Cids
    BY DEF Cids
  <2>6. \A x \in Side, v \in Cids : \A p \in Of(wire[x], v) : agent /\ x = TARGET /\ v = 1 /\ p = a
    BY <2>3, <2>4, <2>5 DEF Of
  <2> QED BY <2>2, <2>6
<1> QED BY <1>5, <1>7, <1>8, StartPackets

\* The ends and the entries at the start.
LEMMA InitialTable ==
  ASSUME NEW agent \in BOOLEAN, NEW forward \in BOOLEAN, NEW n \in Nums, NEW len \in Nat,
         StartsWith(agent, forward, n, len)
  PROVE  /\ channels \in [Cids -> Channel \cup {FreeSlot}]
         /\ ep \in [Side -> [Nums -> Peers \cup {NoEndpoint}]]
         /\ \A i \in Cids : channels[i] # FreeSlot =>
              /\ agent /\ i = 1 /\ channels[i].requestor = CLIENT /\ channels[i].proxied
              /\ channels[i].requestorCh = n /\ channels[i].providerCh = n
              /\ channels[i].state = "CONFIRMED" /\ channels[i].conv = 1
         /\ agent => channels[1] # FreeSlot
         /\ \A x \in Side, v \in Cids : Ends(ep, x, v) = IF agent /\ v = 1 THEN {n} ELSE {}
         /\ agent => \A x \in Side :
              /\ ep[x][n].own <=> x = CLIENT
              /\ ~ep[x][n].sent /\ ~ep[x][n].got
              /\ ep[x][n].remote = IF x = CLIENT THEN SUSSHI_SESSION_CLIENT_CHANNEL_START
                                   ELSE SUSSHI_SESSION_TARGET_CHANNEL_START
<1> DEFINE c == [requestor |-> CLIENT, requestorCh |-> n, providerCh |-> n,
                 proxied |-> TRUE, state |-> "CONFIRMED", logging |-> "TEXT",
                 sftp |-> "none", spoken |-> FALSE, kind |-> "session", conv |-> 1]
           e(s) == [conv |-> 1, own |-> s = CLIENT, sent |-> FALSE, got |-> FALSE,
                    remote |-> IF s = CLIENT THEN SUSSHI_SESSION_CLIENT_CHANNEL_START
                               ELSE SUSSHI_SESSION_TARGET_CHANNEL_START,
                    awaits |-> 0]
<1>1. 1 \in Cids /\ 0 \notin Cids
  BY NumsAssumption DEF Cids
<1>2. c \in Channel
  <2>1. CLIENT \in Side /\ "TEXT" \in Logging /\ "session" \in OpenKinds
    BY DEF Side, Logging, OpenKinds
  <2> QED BY <1>1, <2>1 DEF Channel
<1>3. c # FreeSlot
  <2>1. c.requestor # FreeSlot.requestor
    BY DEF FreeSlot, CLIENT
  <2> QED BY <2>1
<1>4. channels = [i \in Cids |-> IF agent /\ i = 1 THEN c ELSE FreeSlot]
  BY DEF StartsWith
<1>5. /\ channels \in [Cids -> Channel \cup {FreeSlot}]
      /\ \A i \in Cids : channels[i] # FreeSlot => agent /\ i = 1 /\ channels[i] = c
      /\ agent => channels[1] = c
  BY <1>1, <1>2, <1>4
<1>6. /\ c.requestor = CLIENT /\ c.proxied /\ c.requestorCh = n /\ c.providerCh = n
      /\ c.state = "CONFIRMED" /\ c.conv = 1
  OBVIOUS
<1>7. \A s \in Side : /\ e(s) \in Peers /\ e(s).conv = 1 /\ (e(s).own <=> s = CLIENT)
                      /\ ~e(s).sent /\ ~e(s).got
                      /\ e(s).remote = IF s = CLIENT THEN SUSSHI_SESSION_CLIENT_CHANNEL_START
                                       ELSE SUSSHI_SESSION_TARGET_CHANNEL_START
  <2> SUFFICES ASSUME NEW s \in Side
               PROVE  /\ e(s) \in Peers /\ e(s).conv = 1 /\ (e(s).own <=> s = CLIENT)
                      /\ ~e(s).sent /\ ~e(s).got
                      /\ e(s).remote = IF s = CLIENT THEN SUSSHI_SESSION_CLIENT_CHANNEL_START
                                       ELSE SUSSHI_SESSION_TARGET_CHANNEL_START
    OBVIOUS
  <2>1. PICK r \in Int : r = IF s = CLIENT THEN SUSSHI_SESSION_CLIENT_CHANNEL_START
                                           ELSE SUSSHI_SESSION_TARGET_CHANNEL_START
    BY DEF SUSSHI_SESSION_CLIENT_CHANNEL_START, SUSSHI_SESSION_TARGET_CHANNEL_START
  <2>2. PICK own \in BOOLEAN : own = (s = CLIENT)
    OBVIOUS
  <2>3. e(s) = [conv |-> 1, own |-> own, sent |-> FALSE, got |-> FALSE, remote |-> r,
                awaits |-> 0]
    BY <2>1, <2>2
  <2> HIDE DEF e
  <2>4. e(s) \in Peers
    BY <1>1, <2>3 DEF Peers
  <2>5. /\ e(s).conv = 1 /\ e(s).own = own /\ e(s).sent = FALSE /\ e(s).got = FALSE
        /\ e(s).remote = r
    BY <2>3
  <2>6. own <=> s = CLIENT
    BY <2>2, Zenon
  <2>7. e(s).own <=> s = CLIENT
    BY <2>5, <2>6, Zenon
  <2> QED BY <2>1, <2>4, <2>5, <2>7
<1>8. ep = [s \in Side |-> [k \in Nums |-> IF agent /\ k = n THEN e(s) ELSE NoEndpoint]]
  BY DEF StartsWith
<1> HIDE DEF c, e
<1>9. /\ \A x \in Side, k \in Nums : ep[x][k] = IF agent /\ k = n THEN e(x) ELSE NoEndpoint
      /\ ep \in [Side -> [Nums -> Peers \cup {NoEndpoint}]]
  BY <1>7, <1>8
<1>10. NoEndpoint.conv = 0
  BY DEF NoEndpoint
<1>11. \A x \in Side, v \in Cids : Ends(ep, x, v) = IF agent /\ v = 1 THEN {n} ELSE {}
  BY <1>1, <1>7, <1>9, <1>10 DEF Ends
<1> QED BY <1>3, <1>5, <1>6, <1>7, <1>9, <1>11

\* The invariant holds at the start.
LEMMA InvStarts ==
  ASSUME ChannelsInit
  PROVE  ChannelsInv
<1>1. PICK agent \in BOOLEAN, forward \in BOOLEAN, n \in Nums, len \in Nat :
        StartsWith(agent, forward, n, len) /\ (~agent => len = 0)
  BY InitialCases
<1>2. /\ wire \in [Side -> Seq(Packets)]
      /\ \A x \in Side, v \in Cids : \A p \in Of(wire[x], v) :
           /\ agent /\ x = TARGET /\ v = 1 /\ p.type = "SUCCESS"
           /\ p.to = SUSSHI_SESSION_TARGET_CHANNEL_START
      /\ \A x \in Side : \A j \in 1 .. Len(wire[x]) : wire[x][j].type \in {"SUCCESS", "GSUCCESS"}
  BY <1>1, InitialWires
<1>3. /\ channels \in [Cids -> Channel \cup {FreeSlot}]
      /\ ep \in [Side -> [Nums -> Peers \cup {NoEndpoint}]]
      /\ \A i \in Cids : channels[i] # FreeSlot =>
           /\ agent /\ i = 1 /\ channels[i].requestor = CLIENT /\ channels[i].proxied
           /\ channels[i].requestorCh = n /\ channels[i].providerCh = n
           /\ channels[i].state = "CONFIRMED" /\ channels[i].conv = 1
      /\ agent => channels[1] # FreeSlot
      /\ \A x \in Side, v \in Cids : Ends(ep, x, v) = IF agent /\ v = 1 THEN {n} ELSE {}
      /\ agent => \A x \in Side :
           /\ ep[x][n].own <=> x = CLIENT
           /\ ~ep[x][n].sent /\ ~ep[x][n].got
           /\ ep[x][n].remote = IF x = CLIENT THEN SUSSHI_SESSION_CLIENT_CHANNEL_START
                                ELSE SUSSHI_SESSION_TARGET_CHANNEL_START
  BY <1>1, InitialTable
<1>4. 1 \in Cids /\ 0 \notin Cids /\ Cids \subseteq Nat
  BY NumsAssumption DEF Cids
<1>5. ChannelsTyped
  <2>1. /\ flags \in [noMoreSessions : BOOLEAN, sendShellEnv : BOOLEAN,
                      replayPhase : BOOLEAN, refused : BOOLEAN]
        /\ used \in [opens : 0 .. MaxOpens, sends : Nat]
    BY <1>1, NumsAssumption DEF StartsWith
  <2>2. /\ awaits \in [Side -> Nat]
        /\ seen = [misrouted |-> seen.misrouted, unasked |-> seen.unasked, env |-> seen.env]
    BY <1>1 DEF ChannelsInit, Nothing, StartsWith
  <2> QED BY <1>2, <1>3, <2>1, <2>2 DEF ChannelsTyped
<1>6. NeverReached /\ RightChannel /\ EnvWell
  BY DEF ChannelsInit, NeverReached, RightChannel, EnvWell, Nothing
<1>7. EnvPending
  BY <1>1 DEF StartsWith, EnvPending
<1>8. \A v \in Cids : ~agent \/ v # 1 => Free(channels, ep, wire, v)
  <2>1. \A v \in Cids : ~agent \/ v # 1 => Slots(channels, v) = {}
    BY <1>3 DEF Slots
  <2>2. \A v \in Cids, x \in Side : ~agent \/ v # 1 => Ends(ep, x, v) = {} /\ Of(wire[x], v) = {}
    BY <1>2, <1>3
  <2> QED BY <2>1, <2>2 DEF Free
<1>9. agent => Up(channels, ep, wire, 1, 1)
  <2> SUFFICES ASSUME agent PROVE Up(channels, ep, wire, 1, 1)
    OBVIOUS
  <2>1. PICK c : c = channels[1]
    OBVIOUS
  <2>2. /\ c.requestor = CLIENT /\ c.proxied /\ c.requestorCh = n /\ c.providerCh = n
        /\ c.state = "CONFIRMED" /\ c.conv = 1 /\ c # FreeSlot
    BY <1>3, <1>4, <2>1
  <2>3. Slots(channels, 1) = {1}
    BY <1>3, <1>4, <2>1, <2>2 DEF Slots
  <2>4. /\ OwnNum(c, CLIENT) = n /\ OwnNum(c, TARGET) = n
        /\ NumAt(c, CLIENT) = SUSSHI_SESSION_TARGET_CHANNEL_START
        /\ NumAt(c, TARGET) = SUSSHI_SESSION_CLIENT_CHANNEL_START
    BY <2>2 DEF OwnNum, NumAt, RequestorNum, ProviderNum, CLIENT, TARGET
  <2>5. /\ CLIENT \in Side /\ TARGET \in Side /\ CLIENT # TARGET
        /\ TheOtherSide(CLIENT) = TARGET /\ TheOtherSide(TARGET) = CLIENT
        /\ \A x \in Side : x = CLIENT \/ x = TARGET
    BY DEF Side, TheOtherSide, CLIENT, TARGET
  <2>6. \A x \in Side : OwnNum(c, x) = n /\ NumAt(c, TheOtherSide(x)) = ep[x][n].remote
    BY <1>3, <2>4, <2>5
  <2>7. \A x \in Side : End(ep, 1, c, x)
    BY <1>3, <1>4, <2>2, <2>5, <2>6 DEF End
  <2>8. \A x \in Side : Line(wire, 1, c, x)
    BY <1>2, <1>4, <2>2, <2>4, <2>5 DEF Line, Talk
  <2>9. \A x \in Side : ~HasClose(wire, x, 1)
    BY <1>2, <1>4 DEF HasClose
  <2>10. \A x \in Side : InUse(ep, wire, 1, c, x)
    BY <1>3, <2>6, <2>7, <2>8, <2>9 DEF InUse
  <2> QED BY <2>1, <2>2, <2>3, <2>10 DEF Up
<1>10. Settled(channels, ep, wire)
  <2>1. \A v \in Cids : Conversation(channels, ep, wire, v)
    BY <1>4, <1>8, <1>9 DEF Conversation
  <2> QED BY <1>2, <1>3, <2>1 DEF Settled, Shaped
<1>11. \A v \in Cids : v > used.opens => Free(channels, ep, wire, v)
  <2>1. agent => used.opens = 1
    BY <1>1 DEF StartsWith
  <2> QED BY <1>8, <2>1
<1>12. \A x \in Side : InOrder(wire[x]) /\ Behind(channels, wire, x)
  BY <1>2 DEF InOrder, Behind, Starts
<1>13. Apart(channels) /\ Proxied(channels)
  BY <1>3 DEF Apart, Proxied
<1> QED BY <1>5, <1>6, <1>7, <1>10, <1>11, <1>12, <1>13 DEF ChannelsInv, FollowedState

\* Every step keeps it.
LEMMA InvKept ==
  ASSUME ChannelsInv, [ChannelsNext]_channelsVars
  PROVE  ChannelsInv'
<1>1. CASE UNCHANGED channelsVars
  BY <1>1 DEF channelsVars, ChannelsInv, ChannelsTyped, NeverReached, RightChannel,
     EnvWell, FollowedState, EnvPending
<1>2. ASSUME NEW s \in Side, InspectPacket(s) PROVE ChannelsInv'
  <2>1. ASSUME ChannelSuccess(s) \/ ChannelFailure(s) PROVE ChannelsInv'
    BY <2>1, AnsweredKept
  <2>2. ASSUME \/ GlobalRequestRejected(s) \/ ProveHostkeys(s)
               \/ RequestSuccess(s) \/ RequestFailure(s)
        PROVE  ChannelsInv'
    BY <2>2, GlobalAnswersKept
  <2>3. ASSUME InspectPlain(s) PROVE ChannelsInv'
    BY <2>1, <2>2, <2>3, OpenKept, OpenRejectedKept, DataKept, CloseKept, RequestKept, WindowKept,
       EofKept, GivenUpKept DEF InspectPlain
  <2> QED BY <1>2, <2>2, <2>3, OpenConfirmKept, OpenFailureKept, RejectedKept,
             GlobalRequestKept, DroppedKept DEF InspectPacket
<1>3. ASSUME NEW s \in Side, Peer(s) PROVE ChannelsInv'
  <2>1. ASSUME NEW p \in Sends, p[1] = s, PeerSends(s, p[2], p[3], p[4]) PROVE ChannelsInv'
    BY <2>1, PeerSendsKept
  <2> QED BY <1>3, <2>1, PeerOpensKept, PeerClosesKept DEF Peer
<1> QED BY <1>1, <1>2, <1>3, PeerGlobalKept DEF ChannelsNext

\* The invariant holds throughout.
LEMMA InvHolds ==
  ChannelsSpec => []ChannelsInv
<1>1. ChannelsInit => ChannelsInv
  BY InvStarts
<1>2. ChannelsInv /\ [ChannelsNext]_channelsVars => ChannelsInv'
  BY InvKept
<1> QED BY <1>1, <1>2, PTL DEF ChannelsSpec

\* Whatever crosses on the wire, whoever closes first, and whatever numbers the
\* peers use again: the inspection never comes to the code that "should never
\* be reached", where a request, an answer or a window adjustment finds no
\* channel, but for the success of the peer that opened the channel, which is
\* looked for among the other side's channels only.
THEOREM EveryChannelFound ==
  ChannelsSpec => []NeverReached
<1>1. ChannelsInv => NeverReached
  BY DEF ChannelsInv
<1> QED BY <1>1, InvHolds, PTL

\* In the same circumstances, and through the renumbering of agent mode, every
\* packet the inspection forwards arrives on the channel its sender meant.
THEOREM PacketsReachTheirChannel ==
  ChannelsSpec => []RightChannel
<1>1. ChannelsInv => RightChannel
  BY DEF ChannelsInv
<1> QED BY <1>1, InvHolds, PTL

----------------------------------------------------------------------------
\* The state of global requests, and the history of the gateway.
HistoryTyped ==
  /\ global \in [state : {"NONE", "PENDING", "ACCEPTED", "DENIED"}, port0 : BOOLEAN,
                  replayed : Int]
  /\ lost \in [answers : BOOLEAN, env : SUBSET Cids]

\* An environment that is taken is taken from sessions of the table.
LEMMA TakenTyped ==
  ASSUME ChannelsTyped, lost \in [answers : BOOLEAN, env : SUBSET Cids], NEW S,
         S \subseteq Unanswered,
         lost' = lost \/ lost' = [lost EXCEPT !.env = @ \cup {channels[i].conv : i \in S}]
  PROVE  lost' \in [answers : BOOLEAN, env : SUBSET Cids]
<1>1. \A i \in S : channels[i].conv \in Cids
  <2> SUFFICES ASSUME NEW i \in S PROVE channels[i].conv \in Cids
    OBVIOUS
  <2>1. i \in Cids /\ channels[i] # FreeSlot
    BY DEF Unanswered, Open
  <2>2. channels[i] \in Channel
    BY <2>1 DEF ChannelsTyped
  <2> QED BY <2>2 DEF Channel
<1>2. {channels[i].conv : i \in S} \subseteq Cids
  BY <1>1
<1> HIDE <1>1
<1> QED BY <1>2

\* They keep their types.
LEMMA HistoryHolds ==
  ChannelsSpec => []HistoryTyped
<1>1. ASSUME ChannelsInit PROVE HistoryTyped
  <2>1. PICK agent \in BOOLEAN, forward \in BOOLEAN, n \in Nums, len \in Nat :
          StartsWith(agent, forward, n, len)
    BY <1>1, InitialCases
  <2>2. global \in [state : {"NONE", "PENDING", "ACCEPTED", "DENIED"}, port0 : BOOLEAN,
                     replayed : Int]
    BY <2>1 DEF StartsWith
  <2>3. lost \in [answers : BOOLEAN, env : SUBSET Cids]
    BY <1>1 DEF ChannelsInit
  <2> QED BY <2>2, <2>3 DEF HistoryTyped
<1>2. ASSUME ChannelsInv, HistoryTyped, [ChannelsNext]_channelsVars PROVE HistoryTyped'
  <2>1. CASE UNCHANGED <<global, lost>>
    BY <1>2, <2>1 DEF HistoryTyped
  <2>2. ASSUME NEW s \in Side, InspectPacket(s) PROVE HistoryTyped'
    <3>1. ChannelsTyped /\ lost \in [answers : BOOLEAN, env : SUBSET Cids]
          /\ global \in [state : {"NONE", "PENDING", "ACCEPTED", "DENIED"}, port0 : BOOLEAN,
                          replayed : Int]
      BY <1>2 DEF HistoryTyped, ChannelsInv
    <3>2. ASSUME NEW cid, EnvTaken(cid) PROVE lost' \in [answers : BOOLEAN, env : SUBSET Cids]
      <4>1. Unanswered \ {cid} \subseteq Unanswered
        OBVIOUS
      <4>2. \/ lost' = lost
            \/ lost' = [lost EXCEPT !.env = @ \cup {channels[i].conv : i \in Unanswered \ {cid}}]
        BY <3>2 DEF EnvTaken
      <4> QED BY <3>1, <4>1, <4>2, TakenTyped
    <3>3. ASSUME RequestRefused PROVE lost' \in [answers : BOOLEAN, env : SUBSET Cids]
      <4>1. \/ lost' = lost
            \/ lost' = [lost EXCEPT !.env = @ \cup {channels[i].conv : i \in Unanswered}]
        BY <3>3 DEF RequestRefused
      <4> QED BY <3>1, <4>1, TakenTyped
    <3>4. CASE ChannelOpenConfirm(s) \/ ChannelOpenFailure(s)
      <4>1. lost' \in [answers : BOOLEAN, env : SUBSET Cids]
        BY <3>1, <3>2, <3>4 DEF ChannelOpenConfirm, ChannelOpenFailure
      <4>2. global' = [global EXCEPT !.state = "ACCEPTED"] \/ global' = [global EXCEPT !.state = "DENIED"]
        BY <3>4 DEF ChannelOpenConfirm, ChannelOpenFailure
      <4> QED BY <3>1, <4>1, <4>2 DEF HistoryTyped
    <3>5. CASE ChannelRequestRejected(s) /\ UNCHANGED global
      <4>1. lost' \in [answers : BOOLEAN, env : SUBSET Cids]
        BY <3>3, <3>5 DEF ChannelRequestRejected
      <4> QED BY <3>1, <3>5, <4>1 DEF HistoryTyped
    <3>6. CASE GlobalRequest(s) /\ UNCHANGED lost
      <4>1. global' = [global EXCEPT !.state = "PENDING",
               !.port0 = @ \/ (Head(wire[s]).kind = "tcpip-forward 0" /\ Head(wire[s]).want)]
        BY <3>6 DEF GlobalRequest
      <4>2. PICK b \in BOOLEAN : global' = [global EXCEPT !.state = "PENDING", !.port0 = b]
        BY <3>1, <4>1
      <4> QED BY <3>1, <3>6, <4>2 DEF HistoryTyped
    <3>7. CASE RequestSuccessDropped(s)
      <4>1. lost' = [lost EXCEPT !.answers = TRUE] /\ global' = global
        BY <3>7 DEF RequestSuccessDropped
      <4> QED BY <3>1, <4>1 DEF HistoryTyped
    <3>8. CASE RequestSuccess(s) /\ UNCHANGED lost
      <4>1. PICK st \in {"NONE", "PENDING", "ACCEPTED", "DENIED"} :
              global' = [global EXCEPT !.port0 = FALSE, !.replayed = @ - 1, !.state = st]
        BY <3>1, <3>8 DEF RequestSuccess
      <4>2. global' = [state |-> st, port0 |-> FALSE, replayed |-> global.replayed - 1]
        BY <3>1, <4>1
      <4> QED BY <3>1, <3>8, <4>2 DEF HistoryTyped
    <3>9. CASE RequestFailure(s) /\ UNCHANGED lost
      BY <2>1, <3>9 DEF RequestFailure
    <3> QED BY <2>1, <2>2, <3>4, <3>5, <3>6, <3>7, <3>8, <3>9 DEF InspectPacket
  <2>3. ASSUME NEW s \in Side, Peer(s) PROVE UNCHANGED <<global, lost>>
    BY <2>3 DEF Peer, PeerOpens, PeerSends, PeerCloses
  <2>4. ASSUME NEW g \in Globals, PeerSendsGlobal(g) PROVE UNCHANGED <<global, lost>>
    BY <2>4 DEF PeerSendsGlobal
  <2> QED BY <1>2, <2>1, <2>2, <2>3, <2>4 DEF ChannelsNext, channelsVars
<1>3. ChannelsInit => HistoryTyped
  BY <1>1
<1>4. ChannelsInv /\ HistoryTyped /\ [ChannelsNext]_channelsVars => HistoryTyped'
  BY <1>2
<1> QED BY <1>3, <1>4, InvHolds, PTL DEF ChannelsSpec

\* The environment is there for every session that waits, unless something
\* else took it, and no session was confirmed without it.
EnvFollowed ==
  /\ \A i \in Unanswered : flags.sendShellEnv \/ channels[i].conv \in lost.env
  /\ "missed" \notin seen.env

\* A peer's reaction sends no environment.
LEMMA ReactionsEnv ==
  ASSUME NEW t, NEW m, NEW r \in Reactions(t, m)
  PROVE  r.seen.env = {}
<1> DEFINE e == ep[t][m.to]
           known == m.to \in Live(t) /\ e.conv = m.conv
<1>1. r.seen = Nothing => r.seen.env = {}
  BY DEF Nothing
<1>2. CASE m.type = "OPEN"
  <2>1. r.seen = Nothing
    BY <1>2 DEF Reactions
  <2> QED BY <1>1, <2>1
<1>3. CASE m.type = "GLOBAL"
  BY <1>1, <1>3, GlobalReacts
<1>4. CASE m.type \notin {"OPEN", "GLOBAL"} /\ ~known
  <2>1. r.seen = [Nothing EXCEPT !.misrouted = {<<m.type, m.kind>>}]
    BY <1>4 DEF Reactions
  <2> QED BY <2>1 DEF Nothing
<1>5. CASE known /\ m.type \in {"CONFIRM", "OPENFAIL", "CLOSE", "REQUEST"}
  <2>1. CASE m.type = "CONFIRM"
    <3>1. r.seen = Nothing
      BY <1>5, <2>1 DEF Reactions
    <3> QED BY <1>1, <3>1
  <2>2. CASE m.type = "OPENFAIL"
    <3>1. r.seen = Nothing
      BY <1>5, <2>2 DEF Reactions
    <3> QED BY <1>1, <3>1
  <2>3. CASE m.type = "CLOSE"
    <3>1. r.seen = Nothing
      BY <1>5, <2>3 DEF Reactions
    <3> QED BY <1>1, <3>1
  <2>4. CASE m.type = "REQUEST"
    <3>1. \E out : r = [ep |-> ep[t], out |-> out, seen |-> Nothing]
      BY <1>5, <2>4 DEF Reactions
    <3> QED BY <1>1, <3>1
  <2> QED BY <1>5, <2>1, <2>2, <2>3, <2>4
<1>6. CASE known /\ m.type \in {"SUCCESS", "FAILURE"}
  <2>1. \E u : r.seen = [Nothing EXCEPT !.unasked = u]
    BY <1>6 DEF Reactions
  <2> QED BY <2>1 DEF Nothing
<1>7. CASE /\ known
           /\ m.type \notin {"OPEN", "GLOBAL", "CONFIRM", "OPENFAIL", "CLOSE", "REQUEST",
                             "SUCCESS", "FAILURE"}
  <2>1. /\ m.type # "OPEN" /\ m.type # "GLOBAL" /\ m.type # "CONFIRM" /\ m.type # "OPENFAIL"
        /\ m.type # "CLOSE" /\ m.type # "REQUEST" /\ m.type # "SUCCESS"
        /\ m.type # "FAILURE"
    BY <1>7
  <2>2. r = [ep |-> ep[t], out |-> <<>>, seen |-> Nothing]
    BY <1>7, <2>1 DEF Reactions
  <2> QED BY <1>1, <2>2
<1> QED BY <1>2, <1>3, <1>4, <1>5, <1>6, <1>7

\* Nor does a packet that is sent on or dropped.
LEMMA DeliverEnv ==
  ASSUME NEW s, NEW t, NEW m, Deliver(s, t, m) \/ Drop(s)
  PROVE  seen'.env = seen.env
<1>1. CASE Deliver(s, t, m)
  <2>1. PICK r \in Reactions(t, m) : seen' = Merge(seen, r.seen)
    BY <1>1 DEF Deliver
  <2>2. seen'.env = seen.env \cup r.seen.env
    BY <2>1 DEF Merge
  <2> QED BY <2>2, ReactionsEnv
<1>2. CASE Drop(s)
  BY <1>2 DEF Drop
<1> QED BY <1>1, <1>2

\* An entry the lookups find is one of the table.
LEMMA FoundOpen ==
  ASSUME NEW side, NEW a, NEW b, FindChannel(side, a, b) # 0
  PROVE  FindChannel(side, a, b) \in Open
<1> DEFINE found == {i \in Open :
            /\ channels[i].requestor = side
            /\ \/ a # None /\ RequestorNum(channels[i]) = a
               \/ b # None /\ ProviderNum(channels[i]) = b}
<1>1. found # {} /\ FindChannel(side, a, b) = MinOf(found)
  BY DEF FindChannel
<1>2. found \subseteq Nat
  BY DEF Open, Cids
<1>3. MinOf(found) \in found
  BY <1>1, <1>2, LeastOne
<1> QED BY <1>1, <1>3

\* A step that answers no open, and takes the environment from nobody.
LEMMA EnvQuiet ==
  ASSUME EnvFollowed, flags.sendShellEnv => flags'.sendShellEnv, lost' = lost,
         seen'.env = seen.env,
         \A i \in Unanswered' : i \in Unanswered /\ channels'[i].conv = channels[i].conv
  PROVE  EnvFollowed'
BY DEF EnvFollowed

\* Fields of an entry that tell nothing about its open.
LEMMA EnvEntry ==
  ASSUME ChannelsTyped, NEW i \in Open, NEW c, channels' = [channels EXCEPT ![i] = c],
         c # FreeSlot => /\ c.kind = channels[i].kind /\ c.conv = channels[i].conv
                         /\ c.state = channels[i].state \/ c.state # "OPEN"
  PROVE  \A j \in Unanswered' : j \in Unanswered /\ channels'[j].conv = channels[j].conv
<1>1. \A j \in Cids : channels'[j] = IF j = i THEN c ELSE channels[j]
  BY DEF ChannelsTyped
<1>2. i \in Cids /\ channels[i] # FreeSlot
  BY DEF Open
<1> QED BY <1>1, <1>2 DEF Unanswered, Open

\* The open that is answered was waiting.
LEMMA AnsweredWaited ==
  ASSUME ChannelsInv, fatal = "no", NEW s \in Side, wire[s] # <<>>,
         Head(wire[s]).type = "CONFIRM"
  PROVE  \E i \in Open : FindForAnswer(s, Head(wire[s]).to) = i /\ channels[i].state = "OPEN"
<1> DEFINE m == Head(wire[s])
           t == TheOtherSide(s)
<1>0. FollowedState /\ ChannelsTyped
  BY DEF ChannelsInv
<1>1. t \in Side /\ TheOtherSide(t) = s
  BY TwoSides
<1>2. m.conv \in Cids /\ m.to \in Nums
  BY <1>0, OpeningHead DEF Starts
<1>3. PICK i \in Cids : Accepted(channels, ep, wire, m.conv, t, m.to, i, m.from)
  BY <1>0, OpeningHead DEF Starts
<1>4. /\ channels[i] # FreeSlot /\ channels[i].conv = m.conv /\ channels[i].requestor = t
      /\ channels[i].requestorCh = m.to /\ ~channels[i].proxied /\ channels[i].state = "OPEN"
  BY <1>3 DEF Accepted, Pending, Slots
<1>5. m.to = NumAt(channels[i], t) /\ m.to # None
  BY <1>2, <1>4, NumsAssumption DEF NumAt, RequestorNum, None
<1>6. FindForAnswer(s, m.to) = i
  BY <1>0, <1>4, <1>5, Lookup DEF FollowedState
<1> QED BY <1>4, <1>6 DEF Open

\* What becomes of the environment when an open is answered.
LEMMA EnvAnswered ==
  ASSUME ChannelsTyped, HistoryTyped, EnvFollowed, NEW cid \in Open, NEW c, EnvTaken(cid),
         channels' = [channels EXCEPT ![cid] = c], c # FreeSlot => c.state # "OPEN",
         "missed" \notin seen'.env
  PROVE  EnvFollowed'
<1>1. \A j \in Cids : channels'[j] = IF j = cid THEN c ELSE channels[j]
  BY DEF ChannelsTyped
<1>2. \A j \in Unanswered' : j \in Unanswered \ {cid} /\ channels'[j] = channels[j]
  BY <1>1 DEF Unanswered, Open
<1>3. \A j \in Unanswered \ {cid} : channels[j].conv \in lost'.env
  <2>1. CASE flags.sendShellEnv
    <3>1. PICK S : S = {channels[i].conv : i \in Unanswered \ {cid}}
      OBVIOUS
    <3>2. lost' = [lost EXCEPT !.env = @ \cup S]
      BY <2>1, <3>1 DEF EnvTaken
    <3>3. S \subseteq lost'.env
      BY <3>2 DEF HistoryTyped
    <3> QED BY <3>1, <3>3
  <2>2. CASE ~flags.sendShellEnv
    BY <2>2 DEF EnvTaken, EnvFollowed
  <2> QED BY <2>1, <2>2
<1> QED BY <1>2, <1>3 DEF EnvFollowed

\* The handlers that take no environment.
LEMMA EnvPlain ==
  ASSUME ChannelsInv, EnvFollowed, NEW s \in Side, InspectPlain(s), UNCHANGED <<global, lost>>
  PROVE  EnvFollowed'
<1> DEFINE m == Head(wire[s])
           t == TheOtherSide(s)
<1>1. /\ ChannelsTyped /\ channels \in [Cids -> Channel \cup {FreeSlot}]
      /\ flags \in [noMoreSessions : BOOLEAN, sendShellEnv : BOOLEAN,
                    replayPhase : BOOLEAN, refused : BOOLEAN]
      /\ seen = [misrouted |-> seen.misrouted, unasked |-> seen.unasked, env |-> seen.env]
  BY DEF ChannelsInv, ChannelsTyped
<1>2. ASSUME UNCHANGED channels, flags.sendShellEnv => flags'.sendShellEnv, seen'.env = seen.env
      PROVE  EnvFollowed'
  <2>1. Unanswered' = Unanswered
    BY <1>2 DEF Unanswered, Open
  <2> QED BY <1>2, <2>1, EnvQuiet
<1>3. ASSUME NEW why, Fatal(s, why) PROVE EnvFollowed'
  BY <1>2, <1>3, DeliverEnv DEF Fatal
<1>4. ASSUME NEW n, FindForData(s, n) # 0 PROVE FindForData(s, n) \in Open
  BY <1>4, FoundOpen DEF FindForData, OrElse
<1>5. ASSUME NEW n, FindForClose(s, n) # 0 PROVE FindForClose(s, n) \in Open
  BY <1>5, FoundOpen DEF FindForClose, OrElse
<1>6. CASE ChannelOpen(s)
  <2>1. /\ flags' = [flags EXCEPT !.sendShellEnv = @ \/ m.kind = "session"]
        /\ seen'.env = seen.env
    BY <1>6, DeliverEnv DEF ChannelOpen
  <2>2. PICK c : c.kind = m.kind /\ channels' = [channels EXCEPT ![AllocNewChannel] = c]
    BY <1>6 DEF ChannelOpen
  <2>3. CASE m.kind = "session"
    <3>1. flags'.sendShellEnv
      BY <1>1, <2>1, <2>3
    <3> QED BY <2>1, <3>1 DEF EnvFollowed
  <2>4. CASE m.kind # "session"
    <3>1. \A j \in Cids : channels'[j] = IF j = AllocNewChannel THEN c ELSE channels[j]
      BY <1>1, <2>2
    <3>2. \A i \in Unanswered' : i \in Unanswered /\ channels'[i].conv = channels[i].conv
      BY <2>2, <2>4, <3>1 DEF Unanswered, Open
    <3>3. flags.sendShellEnv => flags'.sendShellEnv
      BY <1>1, <2>1
    <3> QED BY <2>1, <3>2, <3>3, EnvQuiet
  <2> QED BY <2>3, <2>4
<1>7. CASE ChannelOpenRejected(s)
  <2>1. PICK b : flags' = [flags EXCEPT !.sendShellEnv = @ \/ b, !.refused = @ \/ b]
    BY <1>7 DEF ChannelOpenRejected
  <2>2. flags.sendShellEnv => flags'.sendShellEnv
    BY <1>1, <2>1
  <2>3. seen'.env = seen.env /\ UNCHANGED channels
    BY <1>7, DeliverEnv DEF ChannelOpenRejected
  <2> QED BY <1>2, <2>2, <2>3
<1>8. CASE AgentOpenRejected(s) \/ AnswerFiltered(s)
  BY <1>3, <1>8 DEF AgentOpenRejected, AnswerFiltered
<1>9. CASE ChannelData(s)
  <2> DEFINE cid == FindForData(s, m.to)
             c == channels[cid]
  <2>1. CASE UNCHANGED <<channels, flags>> /\ Drop(s)
    BY <1>2, <2>1, DeliverEnv
  <2>2. CASE Fatal(s, SftpFatal(s, c))
    BY <1>3, <2>2
  <2>3. CASE /\ cid # 0
             /\ channels' = [channels EXCEPT
                  ![cid].sftp = IF c.logging = "SFTP" THEN "running" ELSE @,
                  ![cid].spoken = @ \/ s = c.requestor]
             /\ \E p : Deliver(s, t, p) \/ Drop(s)
             /\ UNCHANGED flags
    <3>1. cid \in Open
      BY <1>4, <2>3
    <3>2. cid \in Cids /\ c \in Channel
      BY <1>1, <3>1 DEF Open
    <3>3. PICK a, b : channels' = [channels EXCEPT ![cid] = [c EXCEPT !.sftp = a, !.spoken = b]]
      BY <1>1, <2>3, <3>2
    <3>4. PICK d : d = [c EXCEPT !.sftp = a, !.spoken = b]
      OBVIOUS
    <3>5. d.kind = c.kind /\ d.conv = c.conv /\ d.state = c.state
      BY <3>2, <3>4 DEF Channel
    <3>6. \A j \in Unanswered' : j \in Unanswered /\ channels'[j].conv = channels[j].conv
      BY <1>1, <3>1, <3>3, <3>4, <3>5, EnvEntry
    <3>7. seen'.env = seen.env
      BY <2>3, DeliverEnv
    <3> QED BY <2>3, <3>6, <3>7, EnvQuiet
  <2> QED BY <1>9, <2>1, <2>2, <2>3 DEF ChannelData
<1>10. CASE ChannelClose(s)
  <2> DEFINE cid == FindForClose(s, m.to)
             c == channels[cid]
  <2>1. UNCHANGED flags /\ seen'.env = seen.env
    BY <1>10, DeliverEnv DEF ChannelClose
  <2>2. CASE cid = 0
    BY <1>2, <1>10, <2>1, <2>2 DEF ChannelClose
  <2>3. CASE cid # 0
    <3>1. cid \in Open /\ c \in Channel
      BY <1>1, <1>5, <2>3 DEF Open
    <3>2. PICK a : channels' = [channels EXCEPT ![cid] =
               IF c.state = "CLOSE" THEN FreeSlot ELSE [c EXCEPT !.state = "CLOSE", !.sftp = a]]
      BY <1>10, <2>3 DEF ChannelClose
    <3>3. PICK d : d = IF c.state = "CLOSE" THEN FreeSlot
                       ELSE [c EXCEPT !.state = "CLOSE", !.sftp = a]
      OBVIOUS
    <3>4. d # FreeSlot => d.kind = c.kind /\ d.conv = c.conv /\ d.state # "OPEN"
      BY <3>1, <3>3 DEF Channel
    <3>5. \A j \in Unanswered' : j \in Unanswered /\ channels'[j].conv = channels[j].conv
      BY <1>1, <3>1, <3>2, <3>3, <3>4, EnvEntry
    <3> QED BY <2>1, <3>5, EnvQuiet
  <2> QED BY <2>2, <2>3
<1>11. CASE ChannelRequest(s)
  <2> DEFINE cid == FindForData(s, m.to)
             c == channels[cid]
  <2>1. CASE Fatal(s, "not found")
    BY <1>3, <2>1
  <2>2. CASE /\ cid # 0
             /\ channels' = [channels EXCEPT ![cid].logging = LoggingAfter(m.kind, @)]
             /\ flags' = [flags EXCEPT !.replayPhase = FALSE]
             /\ Deliver(s, t, Rewrite(s, m, c))
    <3>1. cid \in Open
      BY <1>4, <2>2
    <3>2. cid \in Cids /\ c \in Channel
      BY <1>1, <3>1 DEF Open
    <3>3. PICK a : channels' = [channels EXCEPT ![cid] = [c EXCEPT !.logging = a]]
      BY <1>1, <2>2, <3>2
    <3>4. PICK d : d = [c EXCEPT !.logging = a]
      OBVIOUS
    <3>5. d.kind = c.kind /\ d.conv = c.conv /\ d.state = c.state
      BY <3>2, <3>4 DEF Channel
    <3>6. \A j \in Unanswered' : j \in Unanswered /\ channels'[j].conv = channels[j].conv
      BY <1>1, <3>1, <3>3, <3>4, <3>5, EnvEntry
    <3>7. seen'.env = seen.env
      BY <2>2, DeliverEnv
    <3>8. flags.sendShellEnv => flags'.sendShellEnv
      BY <1>1, <2>2
    <3> QED BY <3>6, <3>7, <3>8, EnvQuiet
  <2> QED BY <1>11, <2>1, <2>2 DEF ChannelRequest
<1>12. CASE ChannelSuccess(s) \/ ChannelFailure(s)
  <2>1. \/ \E why : Fatal(s, why)
        \/ /\ \E p : Deliver(s, t, p) \/ Drop(s)
           /\ UNCHANGED <<channels, flags, fatal>>
    BY <1>12 DEF ChannelSuccess, ChannelFailure, Answered
  <2> QED BY <1>2, <1>3, <2>1, DeliverEnv
<1>13. CASE WindowAdjust(s)
  <2>1. \/ \E why : Fatal(s, why)
        \/ /\ \E p : Deliver(s, t, p)
           /\ UNCHANGED <<channels, flags, fatal>>
    BY <1>13 DEF WindowAdjust
  <2> QED BY <1>2, <1>3, <2>1, DeliverEnv
<1>14. CASE ChannelEof(s)
  BY <1>2, <1>14, DeliverEnv DEF ChannelEof
<1>15. CASE GlobalRequestRejected(s) \/ ProveHostkeys(s)
  <2>1. UNCHANGED <<channels, flags>>
    BY <1>15 DEF GlobalRequestRejected, ProveHostkeys
  <2>2. \E u : seen' = [seen EXCEPT !.unasked = u]
    BY <1>15 DEF GlobalRequestRejected, ProveHostkeys, GlobalAnswer
  <2>3. seen'.env = seen.env
    BY <1>1, <2>2
  <2> QED BY <1>2, <2>1, <2>3
<1> QED BY <1>6, <1>7, <1>8, <1>9, <1>10, <1>11, <1>12, <1>13, <1>14, <1>15 DEF InspectPlain

\* The handlers that do.
LEMMA EnvInspected ==
  ASSUME ChannelsInv, HistoryTyped, EnvFollowed, NEW s \in Side, InspectPacket(s)
  PROVE  EnvFollowed'
<1> DEFINE m == Head(wire[s])
           t == TheOtherSide(s)
           cid == FindForAnswer(s, m.to)
           c == channels[cid]
<1>1. /\ ChannelsTyped /\ channels \in [Cids -> Channel \cup {FreeSlot}]
      /\ flags \in [noMoreSessions : BOOLEAN, sendShellEnv : BOOLEAN,
                    replayPhase : BOOLEAN, refused : BOOLEAN]
      /\ seen = [misrouted |-> seen.misrouted, unasked |-> seen.unasked, env |-> seen.env]
  BY DEF ChannelsInv, ChannelsTyped
<1>2. ASSUME UNCHANGED <<channels, lost>>, flags'.sendShellEnv = flags.sendShellEnv,
             seen'.env = seen.env
      PROVE  EnvFollowed'
  <2>1. Unanswered' = Unanswered
    BY <1>2 DEF Unanswered, Open
  <2> QED BY <1>2, <2>1, EnvQuiet
<1>3. cid # 0 => cid \in Open
  BY FoundOpen DEF FindForAnswer
<1>4. CASE ChannelOpenConfirm(s)
  <2>1. fatal = "no" /\ wire[s] # <<>> /\ m.type = "CONFIRM"
    BY <1>4 DEF ChannelOpenConfirm, Received
  <2>2. cid \in Open /\ c.state = "OPEN" /\ cid # 0
    BY <2>1, AnsweredWaited DEF Open, Cids
  <2>3. cid \in Cids /\ c \in Channel
    BY <1>1, <2>2 DEF Open
  <2>4. PICK r \in Reactions(t, Rewrite(s, m, c)) :
          seen' = Merge(Merge(seen, r.seen), [Nothing EXCEPT !.env = EnvReaches(c)])
    BY <1>4, <2>2 DEF ChannelOpenConfirm
  <2>5. seen'.env = seen.env \cup EnvReaches(c)
    <3>1. r.seen.env = {}
      BY ReactionsEnv
    <3>2. [Nothing EXCEPT !.env = EnvReaches(c)].env = EnvReaches(c)
      BY DEF Nothing
    <3> QED BY <2>4, <3>1, <3>2 DEF Merge
  <2>6. "missed" \notin EnvReaches(c)
    <3>1. c.kind = "session" => cid \in Unanswered
      BY <2>2 DEF Unanswered
    <3>2. c.kind = "session" => flags.sendShellEnv \/ c.conv \in lost.env
      BY <3>1 DEF EnvFollowed
    <3>3. CASE flags.sendShellEnv
      BY <3>3 DEF EnvReaches
    <3>4. CASE ~flags.sendShellEnv
      BY <3>2, <3>4 DEF EnvReaches
    <3> QED BY <3>3, <3>4
  <2>7. "missed" \notin seen'.env
    BY <2>5, <2>6 DEF EnvFollowed
  <2>8. /\ channels' = [channels EXCEPT ![cid].providerCh = m.from, ![cid].state = "CONFIRMED",
                                        ![cid].spoken = FALSE]
        /\ EnvTaken(cid)
    BY <1>4, <2>2 DEF ChannelOpenConfirm
  <2>9. PICK d : d = [c EXCEPT !.providerCh = m.from, !.state = "CONFIRMED", !.spoken = FALSE]
    OBVIOUS
  <2>10. channels' = [channels EXCEPT ![cid] = d] /\ d.state # "OPEN"
    BY <1>1, <2>3, <2>8, <2>9 DEF Channel
  <2> QED BY <1>1, <2>2, <2>7, <2>8, <2>10, EnvAnswered
<1>5. CASE ChannelOpenFailure(s)
  <2>1. CASE cid = 0
    <3>1. UNCHANGED <<channels, flags, lost>> /\ Drop(s)
      BY <1>5, <2>1 DEF ChannelOpenFailure
    <3> QED BY <1>2, <3>1, DeliverEnv
  <2>2. CASE cid # 0
    <3>1. /\ channels' = [channels EXCEPT ![cid] = FreeSlot] /\ EnvTaken(cid)
          /\ Deliver(s, t, Rewrite(s, m, c))
      BY <1>5, <2>2 DEF ChannelOpenFailure
    <3>2. "missed" \notin seen'.env
      BY <3>1, DeliverEnv DEF EnvFollowed
    <3> QED BY <1>1, <1>3, <2>2, <3>1, <3>2, EnvAnswered
  <2> QED BY <2>1, <2>2
<1>6. CASE ChannelRequestRejected(s)
  <2>1. channels' = channels /\ RequestRefused
    BY <1>6 DEF ChannelRequestRejected
  <2>2. \E p : Deliver(s, s, p) \/ Drop(s)
    BY <1>6 DEF ChannelRequestRejected
  <2>3. "missed" \notin seen'.env
    BY <2>2, DeliverEnv DEF EnvFollowed
  <2>4. Unanswered' = Unanswered
    BY <2>1 DEF Unanswered, Open
  <2>5. \A j \in Unanswered : channels[j].conv \in lost'.env
    <3>1. CASE flags.sendShellEnv
      <4>1. PICK S : S = {channels[i].conv : i \in Unanswered}
        OBVIOUS
      <4>2. lost' = [lost EXCEPT !.env = @ \cup S]
        BY <2>1, <3>1, <4>1 DEF RequestRefused
      <4>3. S \subseteq lost'.env
        BY <4>2 DEF HistoryTyped
      <4> QED BY <4>1, <4>3
    <3>2. CASE ~flags.sendShellEnv
      BY <2>1, <3>2 DEF RequestRefused, EnvFollowed
    <3> QED BY <3>1, <3>2
  <2> QED BY <2>1, <2>3, <2>4, <2>5 DEF EnvFollowed
<1>7. CASE GlobalRequest(s) /\ UNCHANGED lost
  <2>1. /\ channels' = channels /\ Deliver(s, t, m)
        /\ flags' = [flags EXCEPT !.noMoreSessions = @ \/ m.kind = "no-more-sessions"]
    BY <1>7 DEF GlobalRequest
  <2>2. flags'.sendShellEnv = flags.sendShellEnv
    BY <1>1, <2>1
  <2> QED BY <1>2, <1>7, <2>1, <2>2, DeliverEnv
<1>8. CASE RequestSuccessDropped(s)
  <2>1. /\ UNCHANGED <<channels, flags>> /\ Drop(s) /\ lost' = [lost EXCEPT !.answers = TRUE]
    BY <1>8 DEF RequestSuccessDropped
  <2>2. lost'.env = lost.env
    BY <2>1 DEF HistoryTyped
  <2>3. Unanswered' = Unanswered /\ seen'.env = seen.env
    BY <2>1, DeliverEnv DEF Unanswered, Open
  <2> QED BY <2>1, <2>2, <2>3 DEF EnvFollowed
<1>9. CASE (RequestSuccess(s) \/ RequestFailure(s)) /\ UNCHANGED lost
  <2>1. UNCHANGED <<channels, flags>>
    BY <1>9 DEF RequestSuccess, RequestFailure
  <2>2. \E u : seen' = [seen EXCEPT !.unasked = u]
    BY <1>9 DEF RequestSuccess, RequestFailure, GlobalAnswer
  <2>3. seen'.env = seen.env
    BY <1>1, <2>2
  <2> QED BY <1>2, <1>9, <2>1, <2>3
<1> QED BY <1>4, <1>5, <1>6, <1>7, <1>8, <1>9, EnvPlain DEF InspectPacket

\* It holds throughout.
LEMMA EnvHolds ==
  ChannelsSpec => []EnvFollowed
<1>1. ASSUME ChannelsInit PROVE EnvFollowed
  <2>1. PICK agent \in BOOLEAN, forward \in BOOLEAN, n \in Nums, len \in Nat :
          StartsWith(agent, forward, n, len)
    BY <1>1, InitialCases
  <2>2. \A i \in Cids : channels[i] # FreeSlot => channels[i].state = "CONFIRMED"
    BY <2>1, InitialTable
  <2> QED BY <1>1, <2>2 DEF EnvFollowed, Unanswered, Open, ChannelsInit, Nothing
<1>2. ASSUME ChannelsInv, HistoryTyped, EnvFollowed, [ChannelsNext]_channelsVars
      PROVE  EnvFollowed'
  <2>1. CASE UNCHANGED <<channels, flags, lost, seen>>
    BY <1>2, <2>1 DEF EnvFollowed, Unanswered, Open
  <2>2. ASSUME NEW s \in Side, InspectPacket(s) PROVE EnvFollowed'
    BY <1>2, <2>2, EnvInspected
  <2>3. ASSUME NEW s \in Side, Peer(s) PROVE UNCHANGED <<channels, flags, lost, seen>>
    BY <2>3 DEF Peer, PeerOpens, PeerSends, PeerCloses
  <2>4. ASSUME NEW g \in Globals, PeerSendsGlobal(g) PROVE UNCHANGED <<channels, flags, lost, seen>>
    BY <2>4 DEF PeerSendsGlobal
  <2> QED BY <1>2, <2>1, <2>2, <2>3, <2>4 DEF ChannelsNext, channelsVars
<1>3. ChannelsInit => EnvFollowed
  BY <1>1
<1>4. ChannelsInv /\ HistoryTyped /\ EnvFollowed /\ [ChannelsNext]_channelsVars => EnvFollowed'
  BY <1>2
<1> QED BY <1>3, <1>4, InvHolds, HistoryHolds, PTL DEF ChannelsSpec

\* A session whose open is confirmed gets its environment, sent by
\* susshi_send_shell_env() on its own channel, unless the answer to another open
\* or a refused request took it while the session waited; a channel that is no
\* session's gets it only while a session waits or after the gateway refused one.
THEOREM EnvironmentReachesSession ==
  ChannelsSpec => []EnvReachesSession
<1>1. ChannelsInv /\ EnvFollowed => EnvReachesSession
  BY DEF ChannelsInv, EnvWell, EnvFollowed, EnvReachesSession
<1> QED BY <1>1, InvHolds, EnvHolds, PTL

\* A conversation that has an end has an entry, unless its OPEN is under way;
\* with nothing under way it has an entry if and only if it has an end.
LEMMA EntryOfEnd ==
  ASSUME NEW ch, NEW e, NEW w, NEW v, Conversation(ch, e, w, v), NEW s \in Side,
         Ends(e, s, v) # {}, Of(w[s], v) = {} \/ \E n \in Ends(e, s, v) : e[s][n].remote # None
  PROVE  \E i \in Cids : ch[i] # FreeSlot /\ ch[i].conv = v
<1>1. ~Free(ch, e, w, v)
  BY DEF Free
<1>2. ASSUME NEW x \in Side, NEW n \in Nums, Asked(ch, e, w, v, x, n) PROVE FALSE
  <2>1. s = x
    BY <1>2, TwoSides DEF Asked
  <2> QED BY <1>2, <2>1 DEF Asked, Waits
<1>3. ASSUME NEW i \in Cids, Slots(ch, v) = {i}
      PROVE  \E j \in Cids : ch[j] # FreeSlot /\ ch[j].conv = v
  BY <1>3 DEF Slots
<1> QED BY <1>1, <1>2, <1>3 DEF Conversation, Refused, Accepted, Pending, Up, Half

\* With nothing under way, an entry has an end.
LEMMA EndOfEntry ==
  ASSUME NEW ch, NEW e, NEW w, NEW v, Conversation(ch, e, w, v), NEW i \in Cids,
         ch[i] # FreeSlot, ch[i].conv = v, \A x \in Side : Of(w[x], v) = {}
  PROVE  \E x \in Side : Ends(e, x, v) # {}
<1>1. i \in Slots(ch, v)
  BY DEF Slots
<1>2. ~Free(ch, e, w, v) /\ \A x \in Side, n \in Nums : ~Asked(ch, e, w, v, x, n)
  BY <1>1 DEF Free, Asked
<1>3. \A x \in Side, n \in Nums, j \in Cids : ~Refused(ch, e, w, v, x, n, j)
  BY TwoSides DEF Refused
<1>4. \A x \in Side, n \in Nums, j \in Cids, k \in Nums : ~Accepted(ch, e, w, v, x, n, j, k)
  BY TwoSides DEF Accepted
<1>5. ASSUME NEW j \in Cids, Up(ch, e, w, v, j) PROVE \E x \in Side : Ends(e, x, v) # {}
  <2>1. CLIENT \in Side
    BY DEF Side
  <2> QED BY <1>5, <2>1 DEF Up, InUse, End
<1>6. ASSUME NEW j \in Cids, NEW x \in Side, Half(ch, e, w, v, j, x)
      PROVE  Ends(e, x, v) # {}
  BY <1>6 DEF Half, ClosedFirst, End
<1> QED BY <1>2, <1>3, <1>4, <1>5, <1>6 DEF Conversation

\* So the table follows the peers.
LEMMA InvFollows ==
  ASSUME ChannelsInv
  PROVE  TableFollowsPeers
<1> SUFFICES ASSUME fatal = "no" PROVE TableFollowsPeers
  BY DEF TableFollowsPeers
<1> DEFINE known == {channels[i].conv : i \in Open}
           convs(s) == {ep[s][n].conv : n \in Live(s)}
<1>1. FollowedState /\ Settled(channels, ep, wire) /\ Shaped(channels, ep, wire)
  BY DEF ChannelsInv, FollowedState, Settled
<1>2. Cardinality(known) = Cardinality(Open)
  BY <1>1, OneEach
<1>3. ASSUME NEW s \in Side, NEW n \in Live(s)
      PROVE  /\ ep[s][n].conv \in Cids /\ n \in Nums
             /\ n \in Ends(ep, s, ep[s][n].conv)
             /\ Conversation(channels, ep, wire, ep[s][n].conv)
  <2>1. n \in Nums /\ ep[s][n] # NoEndpoint
    BY <1>3 DEF Live
  <2>2. ep[s][n] \in Peers
    BY <1>1, <2>1, Shapes
  <2>3. ep[s][n].conv \in Cids
    BY <2>2 DEF Peers
  <2> QED BY <1>1, <2>1, <2>3 DEF Ends, Settled
<1>4. ASSUME NEW v \in Cids, \E i \in Cids : channels[i] # FreeSlot /\ channels[i].conv = v
      PROVE  v \in known
  BY <1>4 DEF Open
<1>5. \A x \in Side, v \in Cids : wire[x] = <<>> => Of(wire[x], v) = {}
  BY DEF Of
<1>6. ASSUME NEW s \in Side, NEW n \in Usable(s) PROVE ep[s][n].conv \in known
  <2>1. PICK v : v = ep[s][n].conv
    OBVIOUS
  <2>2. n \in Live(s) /\ ep[s][n].remote # None
    BY <1>6 DEF Usable
  <2>3. v \in Cids /\ n \in Ends(ep, s, v) /\ Conversation(channels, ep, wire, v)
    BY <1>3, <2>1, <2>2
  <2>4. \E i \in Cids : channels[i] # FreeSlot /\ channels[i].conv = v
    <3>1. Ends(ep, s, v) # {} /\ \E k \in Ends(ep, s, v) : ep[s][k].remote # None
      BY <2>2, <2>3
    <3> QED BY <2>3, <3>1, EntryOfEnd
  <2> QED BY <1>4, <2>1, <2>3, <2>4
<1>7. ASSUME \A s \in Side : wire[s] = <<>>
      PROVE  known = convs(CLIENT) \cup convs(TARGET)
  <2>1. CLIENT \in Side /\ TARGET \in Side /\ \A x \in Side : x = CLIENT \/ x = TARGET
    BY DEF Side
  <2>2. ASSUME NEW s \in Side, NEW n \in Live(s) PROVE ep[s][n].conv \in known
    <3>1. PICK v : v = ep[s][n].conv
      OBVIOUS
    <3>2. v \in Cids /\ n \in Ends(ep, s, v) /\ Conversation(channels, ep, wire, v)
      BY <1>3, <2>2, <3>1
    <3>3. Ends(ep, s, v) # {} /\ Of(wire[s], v) = {}
      BY <1>5, <1>7, <3>2
    <3>4. \E i \in Cids : channels[i] # FreeSlot /\ channels[i].conv = v
      BY <3>2, <3>3, EntryOfEnd
    <3> QED BY <1>4, <3>1, <3>2, <3>4
  <2>3. ASSUME NEW i \in Open
        PROVE  \E x \in Side : channels[i].conv \in convs(x)
    <3>1. PICK v : v = channels[i].conv
      OBVIOUS
    <3>2. i \in Cids /\ channels[i] # FreeSlot
      BY <2>3 DEF Open
    <3>3. channels[i] \in Channel
      BY <1>1, <3>2, Shapes
    <3>4. v \in Cids
      BY <3>1, <3>3 DEF Channel
    <3>5. Conversation(channels, ep, wire, v) /\ \A x \in Side : Of(wire[x], v) = {}
      BY <1>1, <1>5, <1>7, <3>4 DEF Settled
    <3>6. PICK x \in Side : Ends(ep, x, v) # {}
      BY <3>1, <3>2, <3>5, EndOfEntry
    <3>7. PICK n \in Nums : ep[x][n].conv = v
      BY <3>6 DEF Ends
    <3>8. ep[x][n] # NoEndpoint
      BY <3>4, <3>7 DEF NoEndpoint, Cids
    <3> QED BY <3>1, <3>7, <3>8 DEF Live
  <2> QED BY <2>1, <2>2, <2>3
<1> QED BY <1>2, <1>6, <1>7 DEF TableFollowsPeers

\* A channel both peers can use has one entry, and none is leaked or lost:
\* with nothing under way the entries are the channels of the peers.
THEOREM TheTableFollows ==
  ChannelsSpec => []TableFollowsPeers
BY InvFollows, InvHolds, PTL

-----------------------------------------------------------------------------
(***************************************************************************)
(* Who waits for how many answers.                                         *)
(***************************************************************************)

\* How many packets of a wire are in S.
Count(w, S) == Cardinality({i \in 1 .. Len(w) : w[i] \in S})
One(p, S) == IF p \in S THEN 1 ELSE 0

\* Requests of a conversation that want a reply, and the replies; conversation
\* 0 is that of the global requests.  The answers to the requests the gateway
\* replayed itself are nobody's.
Asks(v) ==
  {p \in Packets : p.conv = v /\ p.type \in {"REQUEST", "GLOBAL"} /\ p.want}
Replies(v) ==
  {p \in Packets : /\ p.conv = v /\ p.kind # "replayed"
                   /\ p.type \in {"SUCCESS", "FAILURE", "GSUCCESS", "GFAILURE"}}

\* What x is to get: a reply to each of its requests the gateway has not
\* processed, and the replies under way to it.
Due(w, x, v) == Count(w[x], Asks(v)) + Count(w[TheOtherSide(x)], Replies(v))

\* A peer waits for what it is to get, or for less after an answer that was
\* meant for the gateway, or for more when an answer went astray or the channel
\* is being closed.
CameLate(sn) == <<"SUCCESS", "replayed">> \in sn.unasked
Closing(e, w, x, n, v) ==
  e[x][n].sent \/ e[x][n].got \/ HasClose(w, TheOtherSide(x), v)
Balanced(e, w, sn, x, n, v) ==
  /\ CameLate(sn) \/ Due(w, x, v) <= e[x][n].awaits
  /\ sn.misrouted # {} \/ Closing(e, w, x, n, v) \/ e[x][n].awaits <= Due(w, x, v)
Ledger(e, w, sn) ==
  \A x \in Side, v \in Cids : \A n \in Ends(e, x, v) : Balanced(e, w, sn, x, n, v)

\* The same for the global requests: less after a refused one that wanted no
\* reply, and more when the gateway swallowed an answer, which l tells.
Denials == {<<"GLOBAL", "denied">>, <<"GLOBAL", "hostkeys">>}
GlobalLedger(a, w, sn, l) ==
  /\ sn.unasked \cap Denials # {} \/ \A x \in Side : Due(w, x, 0) <= a[x]
  /\ l \/ \A x \in Side : a[x] <= Due(w, x, 0)

\* While the gateway waits for the answers to its own requests there are no
\* others.
MarkedPacket(p, replay) ==
  /\ p.type \in {"SUCCESS", "FAILURE"} =>
       \/ p.kind = "replayed" /\ p.type = "SUCCESS"
       \/ p.kind = "answer" /\ ~replay
  /\ p.type = "GLOBAL" /\ p.kind = "hostkeys-prove" => p.want
  /\ p.type \in {"GSUCCESS", "GFAILURE"} => p.kind # "replayed"
MarkedWire(w, replay) == \A i \in 1 .. Len(w) : MarkedPacket(w[i], replay)
Marked(w, replay) == \A x \in Side : MarkedWire(w[x], replay)

\* The invariant of the answers.
Answers(l) ==
  /\ AnswersAsked
  /\ fatal = "no" => /\ Ledger(ep, wire, seen) /\ GlobalLedger(awaits, wire, seen, l)
                     /\ Marked(wire, flags.replayPhase)
AnswersInv == Answers(lost.answers)

\* A number of packets is a number.
LEMMA CountNat ==
  ASSUME NEW w \in Seq(Packets), NEW S
  PROVE  /\ Count(w, S) \in Nat
         /\ IsFiniteSet({i \in 1 .. Len(w) : w[i] \in S})
<1>1. IsFiniteSet(1 .. Len(w))
  BY FS_Interval
<1>2. IsFiniteSet({i \in 1 .. Len(w) : w[i] \in S})
  BY <1>1, FS_Subset
<1> QED BY <1>2, FS_CardinalityType DEF Count

\* Nothing in S, nothing to count.
LEMMA CountNone ==
  ASSUME NEW w \in Seq(Packets), NEW S, \A i \in 1 .. Len(w) : w[i] \notin S
  PROVE  Count(w, S) = 0
<1>1. {i \in 1 .. Len(w) : w[i] \in S} = {}
  OBVIOUS
<1> QED BY <1>1, FS_EmptySet DEF Count

\* A packet that is sent counts for itself.
LEMMA CountPush ==
  ASSUME NEW w \in Seq(Packets), NEW p \in Packets, NEW S
  PROVE  Count(Append(w, p), S) = Count(w, S) + One(p, S)
<1>1. /\ Len(w) \in Nat /\ Len(Append(w, p)) = Len(w) + 1
      /\ \A i \in 1 .. Len(w) : Append(w, p)[i] = w[i]
      /\ Append(w, p)[Len(w) + 1] = p
  OBVIOUS
<1> DEFINE A == {i \in 1 .. Len(w) : w[i] \in S}
           B == {i \in 1 .. Len(Append(w, p)) : Append(w, p)[i] \in S}
<1>2. IsFiniteSet(A) /\ Cardinality(A) \in Nat
  BY CountNat, FS_CardinalityType
<1>c. Count(w, S) = Cardinality(A) /\ Count(Append(w, p), S) = Cardinality(B)
  BY DEF Count
<1>3. CASE p \in S
  <2>1. B = A \cup {Len(w) + 1} /\ Len(w) + 1 \notin A
    BY <1>1, <1>3
  <2>2. Cardinality(B) = Cardinality(A) + 1
    BY <1>2, <2>1, FS_AddElement
  <2> QED BY <1>c, <1>3, <2>2 DEF One
<1>4. CASE p \notin S
  <2>1. B = A
    BY <1>1, <1>4
  <2> HIDE DEF A, B
  <2> QED BY <1>c, <1>2, <1>4, <2>1 DEF One
<1> QED BY <1>3, <1>4

\* So does one that is taken.
LEMMA CountPop ==
  ASSUME NEW w \in Seq(Packets), w # <<>>, NEW S
  PROVE  Count(w, S) = Count(Tail(w), S) + One(Head(w), S)
<1>1. /\ Tail(w) \in Seq(Packets) /\ Head(w) = w[1]
      /\ Len(w) \in Nat /\ Len(w) >= 1 /\ Len(Tail(w)) = Len(w) - 1
      /\ \A i \in 1 .. Len(Tail(w)) : Tail(w)[i] = w[i + 1]
  OBVIOUS
<1> DEFINE A == {i \in 1 .. Len(Tail(w)) : Tail(w)[i] \in S}
           B == {i \in 1 .. Len(w) : w[i] \in S} \ {1}
           f == [i \in A |-> i + 1]
           C == {i \in 1 .. Len(w) : w[i] \in S}
<1>c. Count(w, S) = Cardinality(C) /\ Count(Tail(w), S) = Cardinality(A)
  BY DEF Count
<1>2. IsFiniteSet(A) /\ Cardinality(A) \in Nat
  BY <1>1, CountNat, FS_CardinalityType
<1>3. f \in Bijection(A, B)
  <2>1. f \in [A -> B]
    BY <1>1
  <2>2. \A i, j \in A : f[i] = f[j] => i = j
    BY <1>1
  <2>3. \A k \in B : \E i \in A : f[i] = k
    <3> SUFFICES ASSUME NEW k \in B PROVE \E i \in A : f[i] = k
      OBVIOUS
    <3>1. k - 1 \in A
      BY <1>1
    <3>2. f[k - 1] = k
      BY <1>1, <3>1
    <3> QED BY <3>1, <3>2
  <2> HIDE DEF A, B, f
  <2> QED BY <2>1, <2>2, <2>3 DEF Bijection, Injection, IsInjective, Surjection
<1>4. IsFiniteSet(B) /\ Cardinality(B) = Cardinality(A)
  BY <1>2, <1>3, FS_Bijection DEF ExistsBijection
<1>5. CASE Head(w) \in S
  <2>1. C = B \cup {1} /\ 1 \notin B
    BY <1>1, <1>5
  <2>2. Cardinality(B \cup {1}) = Cardinality(B) + 1
    BY <1>4, <2>1, FS_AddElement
  <2> HIDE DEF A, B, C
  <2> QED BY <1>c, <1>2, <1>4, <1>5, <2>1, <2>2 DEF One
<1>6. CASE Head(w) \notin S
  <2>1. C = B
    BY <1>1, <1>6
  <2> HIDE DEF A, B, C
  <2> QED BY <1>c, <1>2, <1>4, <1>6, <2>1 DEF One
<1> QED BY <1>5, <1>6

\* How a packet on the wire of y counts for what x is to get.
Part(p, x, y, v) == IF y = x THEN One(p, Asks(v)) ELSE One(p, Replies(v))

\* A packet is taken, or sent.
Popped(w, w2, s) == w[s] # <<>> /\ w2 = [w EXCEPT ![s] = Tail(@)]
Pushed(w, w2, t, p) == p \in Packets /\ w2 = [w EXCEPT ![t] = Append(@, p)]

Wires(w) == w \in [Side -> Seq(Packets)]

\* What the packets under way are counted for is a number.
LEMMA DueNat ==
  ASSUME NEW w, Wires(w), NEW x \in Side, NEW v
  PROVE  Due(w, x, v) \in Nat
<1>1. w[x] \in Seq(Packets) /\ w[TheOtherSide(x)] \in Seq(Packets)
  BY TwoSides DEF Wires
<1>2. Count(w[x], Asks(v)) \in Nat /\ Count(w[TheOtherSide(x)], Replies(v)) \in Nat
  BY <1>1, CountNat
<1> QED BY <1>2 DEF Due

\* The wires when a packet is taken.
LEMMA PopShape ==
  ASSUME NEW w, Wires(w), NEW w2, NEW s \in Side, Popped(w, w2, s)
  PROVE  /\ Wires(w2) /\ Head(w[s]) \in Packets
         /\ w[s] \in Seq(Packets) /\ w[s] # <<>>
         /\ w2[s] = Tail(w[s]) /\ \A x \in Side : x # s => w2[x] = w[x]
<1>1. w[s] \in Seq(Packets) /\ w[s] # <<>>
  BY DEF Popped, Wires
<1>2. Tail(w[s]) \in Seq(Packets) /\ Head(w[s]) \in Packets
  BY <1>1, OfPop
<1> QED BY <1>1, <1>2 DEF Popped, Wires

\* The wires when a packet is sent.
LEMMA PushShape ==
  ASSUME NEW w, Wires(w), NEW w2, NEW t \in Side, NEW p, Pushed(w, w2, t, p)
  PROVE  /\ Wires(w2) /\ p \in Packets /\ w[t] \in Seq(Packets)
         /\ w2[t] = Append(w[t], p) /\ \A x \in Side : x # t => w2[x] = w[x]
<1>1. w[t] \in Seq(Packets) /\ p \in Packets
  BY DEF Pushed, Wires
<1>2. Append(w[t], p) \in Seq(Packets)
  BY <1>1, OfPush
<1> QED BY <1>1, <1>2 DEF Pushed, Wires

\* A packet that is taken counts no more.
LEMMA DuePop ==
  ASSUME NEW w, Wires(w), NEW w2, NEW s \in Side, Popped(w, w2, s), NEW x \in Side, NEW v
  PROVE  Due(w, x, v) = Due(w2, x, v) + Part(Head(w[s]), x, s, v)
<1>1. /\ Wires(w2) /\ Head(w[s]) \in Packets
      /\ w[s] \in Seq(Packets) /\ w[s] # <<>>
      /\ w2[s] = Tail(w[s]) /\ \A y \in Side : y # s => w2[y] = w[y]
  BY PopShape
<1>2. Tail(w[s]) \in Seq(Packets)
  BY <1>1, OfPop
<1>4. ASSUME NEW S
      PROVE  /\ Count(w[s], S) = Count(w2[s], S) + One(Head(w[s]), S)
             /\ Count(w2[s], S) \in Nat /\ One(Head(w[s]), S) \in Nat
  BY <1>1, <1>2, CountPop, CountNat DEF One
<1>5. Due(w, x, v) = Due(w2, x, v) + Part(Head(w[s]), x, s, v)
  <2> DEFINE y == TheOtherSide(x)
  <2>0. y \in Side /\ y # x /\ \A z \in Side : z = x \/ z = y
    BY TwoSides
  <2>1. Count(w[y], Replies(v)) \in Nat /\ Count(w[x], Asks(v)) \in Nat
    BY <2>0, CountNat DEF Wires
  <2>2. CASE s = x
    <3>1. w2[y] = w[y]
      BY <1>1, <2>0, <2>2
    <3>2. /\ Count(w[x], Asks(v)) = Count(w2[x], Asks(v)) + One(Head(w[s]), Asks(v))
          /\ Count(w2[x], Asks(v)) \in Nat /\ One(Head(w[s]), Asks(v)) \in Nat
      BY <1>4, <2>2
    <3> QED BY <2>1, <2>2, <3>1, <3>2 DEF Due, Part
  <2>3. CASE s # x
    <3>1. s = y /\ w2[x] = w[x]
      BY <1>1, <2>0, <2>3
    <3>2. /\ Count(w[y], Replies(v)) = Count(w2[y], Replies(v)) + One(Head(w[s]), Replies(v))
          /\ Count(w2[y], Replies(v)) \in Nat /\ One(Head(w[s]), Replies(v)) \in Nat
      BY <1>4, <3>1
    <3> QED BY <2>1, <2>3, <3>1, <3>2 DEF Due, Part
  <2> QED BY <2>2, <2>3
<1> QED BY <1>5

\* A packet that is sent counts.
LEMMA DuePush ==
  ASSUME NEW w, Wires(w), NEW w2, NEW t \in Side, NEW p, Pushed(w, w2, t, p),
         NEW x \in Side, NEW v
  PROVE  Due(w2, x, v) = Due(w, x, v) + Part(p, x, t, v)
<1>1. /\ Wires(w2) /\ p \in Packets /\ w[t] \in Seq(Packets)
      /\ w2[t] = Append(w[t], p) /\ \A y \in Side : y # t => w2[y] = w[y]
  BY PushShape
<1>4. ASSUME NEW S
      PROVE  /\ Count(w2[t], S) = Count(w[t], S) + One(p, S)
             /\ Count(w[t], S) \in Nat /\ One(p, S) \in Nat
  <2>1. Count(Append(w[t], p), S) = Count(w[t], S) + One(p, S)
    BY <1>1, CountPush
  <2>2. Count(w[t], S) \in Nat
    BY <1>1, CountNat
  <2> QED BY <1>1, <2>1, <2>2 DEF One
<1>5. Due(w2, x, v) = Due(w, x, v) + Part(p, x, t, v)
  <2> DEFINE y == TheOtherSide(x)
  <2>0. y \in Side /\ y # x /\ \A z \in Side : z = x \/ z = y
    BY TwoSides
  <2>1. Count(w[y], Replies(v)) \in Nat /\ Count(w[x], Asks(v)) \in Nat
    BY <2>0, CountNat DEF Wires
  <2>2. CASE t = x
    <3>1. w2[y] = w[y]
      BY <1>1, <2>0, <2>2
    <3>2. /\ Count(w2[x], Asks(v)) = Count(w[x], Asks(v)) + One(p, Asks(v))
          /\ One(p, Asks(v)) \in Nat
      BY <1>4, <2>2
    <3> QED BY <2>1, <2>2, <3>1, <3>2 DEF Due, Part
  <2>3. CASE t # x
    <3>1. t = y /\ w2[x] = w[x]
      BY <1>1, <2>0, <2>3
    <3>2. /\ Count(w2[y], Replies(v)) = Count(w[y], Replies(v)) + One(p, Replies(v))
          /\ One(p, Replies(v)) \in Nat
      BY <1>4, <3>1
    <3> QED BY <2>1, <2>3, <3>1, <3>2 DEF Due, Part
  <2> QED BY <2>2, <2>3
<1> QED BY <1>5

\* Packets that are no requests with a reply and no replies count for nothing.
Mute(p) ==
  /\ p.type \notin {"SUCCESS", "FAILURE", "GSUCCESS", "GFAILURE"} \/ p.kind = "replayed"
  /\ p.type \notin {"REQUEST", "GLOBAL"} \/ ~p.want

\* Nor do packets of another conversation.
LEMMA PartNone ==
  ASSUME NEW p, NEW v, p.conv # v \/ Mute(p), NEW x, NEW y
  PROVE  Part(p, x, y, v) = 0
BY DEF Part, One, Asks, Replies, Mute

\* A request counts for who sent it, a reply for who gets it.
LEMMA PartOne ==
  ASSUME NEW p \in Packets, NEW y \in Side
  PROVE  /\ p.type \in {"REQUEST", "GLOBAL"} /\ p.want =>
              \A x \in Side : Part(p, x, y, p.conv) = IF x = y THEN 1 ELSE 0
         /\ p.type \in {"SUCCESS", "FAILURE", "GSUCCESS", "GFAILURE"} /\ p.kind # "replayed" =>
              \A x \in Side : Part(p, x, y, p.conv) = IF x = y THEN 0 ELSE 1
BY DEF Part, One, Asks, Replies

\* What else a wire keeps when its first packet is taken.
LEMMA PopKeeps ==
  ASSUME NEW w, Wires(w), NEW w2, NEW s \in Side, Popped(w, w2, s),
         NEW replay, Marked(w, replay)
  PROVE  /\ Marked(w2, replay) /\ MarkedPacket(Head(w[s]), replay)
         /\ \A x \in Side : \A v : HasClose(w, x, v) =>
              \/ HasClose(w2, x, v)
              \/ x = s /\ Head(w[s]).type = "CLOSE" /\ v = Head(w[s]).conv
<1>1. /\ w2[s] = Tail(w[s]) /\ \A x \in Side : x # s => w2[x] = w[x]
  BY PopShape
<1>2. w[s] \in Seq(Packets) /\ w[s] # <<>>
  BY PopShape
<1>3. /\ Head(w[s]) = w[s][1] /\ Len(w[s]) \in Nat /\ Len(w[s]) >= 1
      /\ Len(Tail(w[s])) = Len(w[s]) - 1
      /\ \A i \in 1 .. Len(Tail(w[s])) : Tail(w[s])[i] = w[s][i + 1]
  BY <1>2
<1>4. MarkedWire(w[s], replay)
  BY DEF Marked
<1>5. MarkedPacket(Head(w[s]), replay)
  BY <1>3, <1>4 DEF MarkedWire
<1>6. MarkedWire(Tail(w[s]), replay)
  <2> SUFFICES ASSUME NEW i \in 1 .. Len(Tail(w[s])) PROVE MarkedPacket(Tail(w[s])[i], replay)
    BY DEF MarkedWire
  <2>1. i + 1 \in 1 .. Len(w[s]) /\ Tail(w[s])[i] = w[s][i + 1]
    BY <1>3
  <2> QED BY <1>4, <2>1 DEF MarkedWire
<1>7. Marked(w2, replay)
  BY <1>1, <1>6 DEF Marked
<1>8. ASSUME NEW x \in Side, NEW v, HasClose(w, x, v), x = s
      PROVE  \/ HasClose(w2, x, v)
             \/ x = s /\ Head(w[s]).type = "CLOSE" /\ v = Head(w[s]).conv
  <2>1. PICK q \in Of(w[s], v) : q.type = "CLOSE"
    BY <1>8 DEF HasClose
  <2>2. q.conv = v /\ (q \in Of(Tail(w[s]), v) \/ q = Head(w[s]))
    BY <1>2, <2>1, OfPop, OfPackets
  <2> QED BY <1>1, <1>8, <2>1, <2>2 DEF HasClose
<1>9. ASSUME NEW x \in Side, NEW v, HasClose(w, x, v), x # s PROVE HasClose(w2, x, v)
  BY <1>1, <1>9 DEF HasClose
<1> QED BY <1>5, <1>7, <1>8, <1>9

\* And when one is sent.
LEMMA PushKeeps ==
  ASSUME NEW w, Wires(w), NEW w2, NEW t \in Side, NEW p, Pushed(w, w2, t, p),
         NEW replay, Marked(w, replay), MarkedPacket(p, replay)
  PROVE  /\ Marked(w2, replay)
         /\ \A x \in Side : \A v : HasClose(w, x, v) => HasClose(w2, x, v)
<1>1. /\ w2[t] = Append(w[t], p) /\ \A x \in Side : x # t => w2[x] = w[x]
  BY PushShape
<1>2. w[t] \in Seq(Packets) /\ p \in Packets
  BY PushShape
<1>3. /\ Len(w[t]) \in Nat /\ Len(Append(w[t], p)) = Len(w[t]) + 1
      /\ \A i \in 1 .. Len(w[t]) : Append(w[t], p)[i] = w[t][i]
      /\ Append(w[t], p)[Len(w[t]) + 1] = p
  BY <1>2
<1>4. MarkedWire(w[t], replay)
  BY DEF Marked
<1>5. MarkedWire(Append(w[t], p), replay)
  <2> SUFFICES ASSUME NEW i \in 1 .. Len(Append(w[t], p))
               PROVE  MarkedPacket(Append(w[t], p)[i], replay)
    BY DEF MarkedWire
  <2>1. CASE i \in 1 .. Len(w[t])
    BY <1>3, <1>4, <2>1 DEF MarkedWire
  <2>2. CASE i = Len(w[t]) + 1
    BY <1>3, <2>2
  <2> QED BY <1>3, <2>1, <2>2
<1>6. Marked(w2, replay)
  BY <1>1, <1>5 DEF Marked
<1>7. ASSUME NEW x \in Side, NEW v, HasClose(w, x, v) PROVE HasClose(w2, x, v)
  <2>1. CASE x = t
    <3>1. PICK q \in Of(w[t], v) : q.type = "CLOSE"
      BY <1>7, <2>1 DEF HasClose
    <3>2. /\ p.conv = v => Of(Append(w[t], p), v) = Of(w[t], v) \cup {p}
          /\ p.conv # v => Of(Append(w[t], p), v) = Of(w[t], v)
      BY <1>2, OfPush
    <3> QED BY <1>1, <2>1, <3>1, <3>2 DEF HasClose
  <2>2. CASE x # t
    BY <1>1, <1>7, <2>2 DEF HasClose
  <2> QED BY <2>1, <2>2
<1> QED BY <1>6, <1>7

\* Marks stay when the replay is over.
LEMMA MarkedLater ==
  ASSUME NEW w, NEW replay, NEW replay2, Marked(w, replay), replay2 => replay
  PROVE  Marked(w, replay2)
BY DEF Marked, MarkedWire, MarkedPacket

\* An end whose account is not touched.
Follow(e, w, e2, w2, x, n, v) ==
  /\ n \in Ends(e, x, v) /\ e2[x][n].awaits = e[x][n].awaits
  /\ Closing(e, w, x, n, v) => Closing(e2, w2, x, n, v)

\* It balances as before.
LEMMA StaysBalanced ==
  ASSUME NEW e, NEW w, NEW sn, NEW e2, NEW w2, NEW sn2, NEW x, NEW n, NEW v,
         Balanced(e, w, sn, x, n, v), Follow(e, w, e2, w2, x, n, v),
         Due(w2, x, v) = Due(w, x, v), sn.unasked \subseteq sn2.unasked,
         sn.misrouted \subseteq sn2.misrouted
  PROVE  Balanced(e2, w2, sn2, x, n, v)
<1>1. CameLate(sn) => CameLate(sn2)
  BY DEF CameLate
<1>2. sn.misrouted # {} => sn2.misrouted # {}
  OBVIOUS
<1> QED BY <1>1, <1>2 DEF Balanced, Follow

\* The account of the global requests when none is touched.
LEMMA GlobalStays ==
  ASSUME NEW a, NEW w, NEW w2, NEW sn, NEW sn2, NEW l, GlobalLedger(a, w, sn, l),
         \A x \in Side : Due(w2, x, 0) = Due(w, x, 0), sn.unasked \subseteq sn2.unasked
  PROVE  GlobalLedger(a, w2, sn2, l)
<1>1. sn.unasked \cap Denials # {} => sn2.unasked \cap Denials # {}
  OBVIOUS
<1> QED BY <1>1 DEF GlobalLedger

\* Who gets an answer asked for it, as long as no new answer is unasked.
LEMMA AskedStays ==
  ASSUME AnswersAsked, seen'.unasked = seen.unasked
  PROVE  AnswersAsked'
BY DEF AnswersAsked

\* One more answer that nobody asked for, and that is accounted for.
LEMMA AskedMore ==
  ASSUME AnswersAsked, NEW u, seen'.unasked = seen.unasked \cup {u},
         IF u[1] = "GLOBAL" THEN seen'.unasked \cap Denials # {} ELSE CameLate(seen')
  PROVE  AnswersAsked'
<1> DEFINE D == seen.unasked \cap {<<"GLOBAL", "denied">>, <<"GLOBAL", "hostkeys">>}
           E == seen'.unasked \cap {<<"GLOBAL", "denied">>, <<"GLOBAL", "hostkeys">>}
<1>1. \A a \in seen.unasked \ D :
        IF a[1] = "GLOBAL" THEN D # {} ELSE <<"SUCCESS", "replayed">> \in seen.unasked
  BY DEF AnswersAsked
<1>2. D \subseteq E /\ seen.unasked \subseteq seen'.unasked
  OBVIOUS
<1>3. E = seen'.unasked \cap Denials
  BY DEF Denials
<1>4. \A a \in seen'.unasked \ E : a = u \/ a \in seen.unasked \ D
  OBVIOUS
<1> HIDE DEF D, E
<1>5. ASSUME NEW a \in seen'.unasked \ E
      PROVE  IF a[1] = "GLOBAL" THEN E # {} ELSE <<"SUCCESS", "replayed">> \in seen'.unasked
  <2>1. CASE a = u
    BY <1>3, <2>1 DEF CameLate
  <2>2. CASE a \in seen.unasked \ D
    BY <1>1, <1>2, <2>2
  <2> QED BY <1>4, <2>1, <2>2
<1> QED BY <1>5 DEF AnswersAsked, E

----------------------------------------------------------------------------
\* Steps that touch no account.
SameDue(w, w2) == \A x \in Side : \A v : Due(w2, x, v) = Due(w, x, v)

\* They keep the invariant.
LEMMA QuietKept ==
  ASSUME NEW l, Answers(l), fatal = "no", awaits' = awaits, seen'.unasked = seen.unasked,
         seen.misrouted \subseteq seen'.misrouted, SameDue(wire, wire'),
         Marked(wire', flags'.replayPhase),
         \A x \in Side, v \in Cids : \A n \in Ends(ep', x, v) :
            \/ Follow(ep, wire, ep', wire', x, n, v)
            \/ ep'[x][n].awaits = 0 /\ Due(wire, x, v) = 0
  PROVE  Answers(l)'
<1>1. Ledger(ep, wire, seen) /\ GlobalLedger(awaits, wire, seen, l) /\ AnswersAsked
  BY DEF Answers
<1>2. ASSUME NEW x \in Side, NEW v \in Cids, NEW n \in Ends(ep', x, v)
      PROVE  Balanced(ep', wire', seen', x, n, v)
  <2>0. Due(wire', x, v) = Due(wire, x, v)
    BY DEF SameDue
  <2>1. CASE Follow(ep, wire, ep', wire', x, n, v)
    <3>1. n \in Ends(ep, x, v)
      BY <2>1 DEF Follow
    <3>2. Balanced(ep, wire, seen, x, n, v)
      BY <1>1, <3>1 DEF Ledger
    <3> QED BY <2>0, <2>1, <3>2, StaysBalanced
  <2>2. CASE ep'[x][n].awaits = 0 /\ Due(wire, x, v) = 0
    BY <2>0, <2>2 DEF Balanced
  <2> QED BY <2>1, <2>2
<1>3. Ledger(ep', wire', seen')
  BY <1>2 DEF Ledger
<1>4. GlobalLedger(awaits', wire', seen', l)
  BY <1>1, GlobalStays DEF SameDue
<1>5. AnswersAsked'
  BY <1>1, AskedStays
<1> QED BY <1>3, <1>4, <1>5 DEF Answers

\* A packet that counts for nothing is taken.
LEMMA TakenQuietly ==
  ASSUME NEW w, Wires(w), NEW w2, NEW s \in Side, Popped(w, w2, s), Mute(Head(w[s]))
  PROVE  Wires(w2) /\ SameDue(w, w2)
<1>1. Wires(w2)
  BY PopShape
<1>2. ASSUME NEW x \in Side, NEW v PROVE Due(w2, x, v) = Due(w, x, v)
  <2>1. Due(w, x, v) = Due(w2, x, v) + Part(Head(w[s]), x, s, v)
    BY DuePop
  <2>2. Part(Head(w[s]), x, s, v) = 0
    BY PartNone
  <2>3. Due(w2, x, v) \in Nat
    BY <1>1, DueNat
  <2> QED BY <2>1, <2>2, <2>3
<1> QED BY <1>1, <1>2 DEF SameDue

\* And one is sent.
LEMMA SaidQuietly ==
  ASSUME NEW w, Wires(w), NEW w2, NEW t \in Side, NEW p, Pushed(w, w2, t, p), Mute(p)
  PROVE  Wires(w2) /\ SameDue(w, w2)
<1>1. Wires(w2)
  BY PushShape
<1>2. ASSUME NEW x \in Side, NEW v PROVE Due(w2, x, v) = Due(w, x, v)
  <2>1. Due(w2, x, v) = Due(w, x, v) + Part(p, x, t, v)
    BY DuePush
  <2>2. Part(p, x, t, v) = 0
    BY PartNone
  <2>3. Due(w, x, v) \in Nat
    BY DueNat
  <2> QED BY <2>1, <2>2, <2>3
<1> QED BY <1>1, <1>2 DEF SameDue

\* Such a packet is taken and the peers do not notice.
LEMMA DropQuiet ==
  ASSUME NEW l, Answers(l), ChannelsTyped, fatal = "no", NEW s \in Side, Popped(wire, wire', s),
         Mute(Head(wire[s])), Head(wire[s]).type # "CLOSE",
         UNCHANGED <<ep, seen, awaits>>, flags'.replayPhase => flags.replayPhase
  PROVE  Answers(l)'
<1>1. Wires(wire) /\ Marked(wire, flags.replayPhase)
  BY DEF ChannelsTyped, Wires, Answers
<1>2. SameDue(wire, wire')
  BY <1>1, TakenQuietly
<1>3. /\ Marked(wire', flags.replayPhase)
      /\ \A x \in Side : \A v : HasClose(wire, x, v) =>
              \/ HasClose(wire', x, v)
              \/ x = s /\ Head(wire[s]).type = "CLOSE" /\ v = Head(wire[s]).conv
  BY <1>1, PopKeeps
<1>4. Marked(wire', flags'.replayPhase)
  BY <1>3, MarkedLater
<1>5. ASSUME NEW x \in Side, NEW v \in Cids, NEW n \in Ends(ep', x, v)
      PROVE  Follow(ep, wire, ep', wire', x, n, v)
  <2>1. TheOtherSide(x) \in Side
    BY TwoSides
  <2>2. HasClose(wire, TheOtherSide(x), v) => HasClose(wire', TheOtherSide(x), v)
    BY <1>3, <2>1
  <2> QED BY <2>2 DEF Follow, Closing
<1>6. /\ awaits' = awaits /\ seen'.unasked = seen.unasked
      /\ seen.misrouted \subseteq seen'.misrouted
  OBVIOUS
<1> QED BY <1>2, <1>4, <1>5, <1>6, QuietKept

----------------------------------------------------------------------------
\* A packet on the wire of s that counts for y.
IsAsk(p) == p.type \in {"REQUEST", "GLOBAL"} /\ p.want
IsReply(p) ==
  p.type \in {"SUCCESS", "FAILURE", "GSUCCESS", "GFAILURE"} /\ p.kind # "replayed"
CountsFor(p, s, y) == (IsAsk(p) /\ y = s) \/ (IsReply(p) /\ y = TheOtherSide(s))
OtherDue(w, w2, y, v) ==
  \A x \in Side : \A u : x # y \/ u # v => Due(w2, x, u) = Due(w, x, u)

\* It counts once, and for nobody else.
LEMMA PartOf ==
  ASSUME NEW p \in Packets, NEW s \in Side, NEW y \in Side, CountsFor(p, s, y),
         NEW x \in Side, NEW u
  PROVE  Part(p, x, s, u) = IF x = y /\ u = p.conv THEN 1 ELSE 0
<1>1. CASE u # p.conv
  BY <1>1, PartNone
<1>2. CASE u = p.conv /\ IsAsk(p) /\ y = s
  BY <1>2, PartOne DEF IsAsk
<1>3. CASE u = p.conv /\ IsReply(p) /\ y = TheOtherSide(s)
  <2>1. x = s <=> x # y
    BY <1>3, TwoSides
  <2>2. Part(p, x, s, p.conv) = IF x = s THEN 0 ELSE 1
    BY <1>3, PartOne DEF IsReply
  <2> QED BY <1>3, <2>1, <2>2
<1> QED BY <1>1, <1>2, <1>3 DEF CountsFor

\* When it is taken, y is due one answer less.
LEMMA TakenOne ==
  ASSUME NEW w, Wires(w), NEW w2, NEW s \in Side, Popped(w, w2, s), NEW y \in Side,
         CountsFor(Head(w[s]), s, y), NEW v, v = Head(w[s]).conv
  PROVE  /\ OtherDue(w, w2, y, v)
         /\ Due(w, y, v) = Due(w2, y, v) + 1 /\ Due(w2, y, v) \in Nat
<1>1. Wires(w2) /\ Head(w[s]) \in Packets
  BY PopShape
<1>2. ASSUME NEW x \in Side, NEW u
      PROVE  /\ Due(w, x, u) = Due(w2, x, u) + IF x = y /\ u = v THEN 1 ELSE 0
             /\ Due(w2, x, u) \in Nat
  <2>1. Due(w, x, u) = Due(w2, x, u) + Part(Head(w[s]), x, s, u)
    BY DuePop
  <2>2. Part(Head(w[s]), x, s, u) = IF x = y /\ u = v THEN 1 ELSE 0
    BY <1>1, PartOf
  <2>3. Due(w2, x, u) \in Nat
    BY <1>1, DueNat
  <2> QED BY <2>1, <2>2, <2>3
<1> QED BY <1>2 DEF OtherDue

\* When it is sent, one more.
LEMMA SaidOne ==
  ASSUME NEW w, Wires(w), NEW w2, NEW t \in Side, NEW p, Pushed(w, w2, t, p), NEW y \in Side,
         CountsFor(p, t, y), NEW v, v = p.conv
  PROVE  /\ OtherDue(w, w2, y, v)
         /\ Due(w2, y, v) = Due(w, y, v) + 1 /\ Due(w, y, v) \in Nat
<1>1. p \in Packets
  BY PushShape
<1>2. ASSUME NEW x \in Side, NEW u
      PROVE  /\ Due(w2, x, u) = Due(w, x, u) + IF x = y /\ u = v THEN 1 ELSE 0
             /\ Due(w, x, u) \in Nat
  <2>1. Due(w2, x, u) = Due(w, x, u) + Part(p, x, t, u)
    BY DuePush
  <2>2. Part(p, x, t, u) = IF x = y /\ u = v THEN 1 ELSE 0
    BY <1>1, PartOf
  <2>3. Due(w, x, u) \in Nat
    BY DueNat
  <2> QED BY <2>1, <2>2, <2>3
<1> QED BY <1>2 DEF OtherDue

\* A request is taken and its reply is sent.
LEMMA PassedOn ==
  ASSUME NEW w, Wires(w), NEW w1, NEW w2, NEW s \in Side, Popped(w, w1, s),
         NEW a, Pushed(w1, w2, TheOtherSide(s), a), IsAsk(Head(w[s])), IsReply(a),
         a.conv = Head(w[s]).conv
  PROVE  SameDue(w, w2)
<1>0. TheOtherSide(s) \in Side /\ TheOtherSide(TheOtherSide(s)) = s
  BY TwoSides
<1>1. PICK v : v = a.conv
  OBVIOUS
<1>2. /\ OtherDue(w, w1, s, v) /\ Wires(w1)
      /\ Due(w, s, v) = Due(w1, s, v) + 1 /\ Due(w1, s, v) \in Nat
  <2>1. CountsFor(Head(w[s]), s, s)
    BY DEF CountsFor
  <2> QED BY <1>1, <2>1, TakenOne, PopShape
<1>3. /\ OtherDue(w1, w2, s, v)
      /\ Due(w2, s, v) = Due(w1, s, v) + 1
  <2>1. CountsFor(a, TheOtherSide(s), s)
    BY <1>0 DEF CountsFor
  <2> QED BY <1>0, <1>1, <1>2, <2>1, SaidOne
<1>4. ASSUME NEW x \in Side, NEW u PROVE Due(w2, x, u) = Due(w, x, u)
  <2>1. CASE x = s /\ u = v
    BY <1>2, <1>3, <2>1
  <2>2. CASE x # s \/ u # v
    BY <1>2, <1>3, <2>2 DEF OtherDue
  <2> QED BY <2>1, <2>2
<1> QED BY <1>4 DEF SameDue

\* Steps that touch one account.
LEMMA AccountKept ==
  ASSUME NEW l, Answers(l), fatal = "no", awaits' = awaits, NEW y \in Side, NEW v \in Cids,
         seen.unasked \subseteq seen'.unasked, seen.misrouted \subseteq seen'.misrouted,
         AnswersAsked', Marked(wire', flags'.replayPhase), OtherDue(wire, wire', y, v),
         \A x \in Side, u \in Cids : \A n \in Ends(ep', x, u) :
            IF x = y /\ u = v THEN Balanced(ep', wire', seen', x, n, u)
            ELSE Follow(ep, wire, ep', wire', x, n, u)
  PROVE  Answers(l)'
<1>1. Ledger(ep, wire, seen) /\ GlobalLedger(awaits, wire, seen, l)
  BY DEF Answers
<1>2. ASSUME NEW x \in Side, NEW u \in Cids, NEW n \in Ends(ep', x, u)
      PROVE  Balanced(ep', wire', seen', x, n, u)
  <2>1. CASE x = y /\ u = v
    BY <2>1
  <2>2. CASE x # y \/ u # v
    <3>1. Due(wire', x, u) = Due(wire, x, u)
      BY <2>2 DEF OtherDue
    <3>2. Follow(ep, wire, ep', wire', x, n, u)
      BY <2>2
    <3>3. n \in Ends(ep, x, u)
      BY <3>2 DEF Follow
    <3>4. Balanced(ep, wire, seen, x, n, u)
      BY <1>1, <3>3 DEF Ledger
    <3> QED BY <3>1, <3>2, <3>4, StaysBalanced
  <2> QED BY <2>1, <2>2
<1>3. Ledger(ep', wire', seen')
  BY <1>2 DEF Ledger
<1>4. GlobalLedger(awaits', wire', seen', l)
  <2>1. v # 0
    BY DEF Cids
  <2>2. \A x \in Side : Due(wire', x, 0) = Due(wire, x, 0)
    BY <2>1 DEF OtherDue
  <2> QED BY <1>1, <2>2, GlobalStays
<1> QED BY <1>3, <1>4 DEF Answers

----------------------------------------------------------------------------
\* A peer has one end of a conversation at most.
LEMMA OneEnd ==
  ASSUME NEW ch, NEW e, NEW w, NEW v, Conversation(ch, e, w, v), NEW x \in Side,
         NEW n \in Ends(e, x, v), NEW k \in Ends(e, x, v)
  PROVE  n = k
<1>1. ~Free(ch, e, w, v)
  BY DEF Free
<1>2. ASSUME NEW y \in Side, NEW j \in Nums, Waits(e, y, j, v),
             \/ Ends(e, TheOtherSide(y), v) = {}
             \/ \E l \in Nums : Ends(e, TheOtherSide(y), v) = {l}
      PROVE  n = k
  <2>1. Ends(e, y, v) = {j}
    BY <1>2 DEF Waits
  <2> QED BY <1>2, <2>1, TwoSides
<1>3. ASSUME NEW y \in Side, NEW j \in Nums, Asked(ch, e, w, v, y, j) PROVE n = k
  BY <1>2, <1>3 DEF Asked
<1>4. ASSUME NEW y \in Side, NEW j \in Nums, NEW i \in Cids, Refused(ch, e, w, v, y, j, i)
      PROVE n = k
  BY <1>2, <1>4 DEF Refused, Pending
<1>5. ASSUME NEW y \in Side, NEW j \in Nums, NEW i \in Cids, NEW l \in Nums,
             Accepted(ch, e, w, v, y, j, i, l)
      PROVE n = k
  BY <1>2, <1>5 DEF Accepted, Pending
<1>6. ASSUME NEW i \in Cids, Up(ch, e, w, v, i) PROVE n = k
  BY <1>6 DEF Up, InUse, End
<1>7. ASSUME NEW i \in Cids, NEW y \in Side, Half(ch, e, w, v, i, y) PROVE n = k
  <2>1. CASE x = y
    BY <1>7, <2>1 DEF Half, ClosedFirst, End
  <2>2. CASE x = TheOtherSide(y)
    BY <1>7, <2>2 DEF Half, ClosesNext, End
  <2> QED BY <2>1, <2>2, TwoSides
<1> QED BY <1>1, <1>3, <1>4, <1>5, <1>6, <1>7 DEF Conversation

\* What an answer does to the account of the end k of y.
Takes(y, k, m) ==
  /\ ep' = [ep EXCEPT ![y] = [ep[y] EXCEPT ![k] = TookAnswer(ep[y][k])]]
  /\ seen' = [misrouted |-> seen.misrouted,
              unasked |-> seen.unasked \cup Unasked(m, ep[y][k]), env |-> seen.env]

\* An answer settles one request of the end that takes it, or comes too late.
LEMMA AnswerTaken ==
  ASSUME ChannelsInv, NEW l, Answers(l), fatal = "no", NEW s \in Side, Popped(wire, wire', s),
         Head(wire[s]).type # "CLOSE", NEW v \in Cids, v = Head(wire[s]).conv,
         NEW y \in Side, NEW k \in Ends(ep, y, v), NEW m, Takes(y, k, m),
         m.type # "GLOBAL", awaits' = awaits, flags'.replayPhase => flags.replayPhase,
         \/ CountsFor(Head(wire[s]), s, y) /\ m.kind # "replayed"
         \/ Mute(Head(wire[s])) /\ m.type = "SUCCESS" /\ m.kind = "replayed"
  PROVE  Answers(l)'
<1> DEFINE a == ep[y][k]
<1>0. Wires(wire) /\ Marked(wire, flags.replayPhase) /\ AnswersAsked /\ Ledger(ep, wire, seen)
  BY DEF ChannelsInv, ChannelsTyped, Wires, Answers
<1>1. k \in Nums /\ a.conv = v
  BY DEF Ends
<1>2. ep \in [Side -> [Nums -> Peers \cup {NoEndpoint}]] /\ a \in Peers
  BY <1>1 DEF ChannelsInv, ChannelsTyped, NoEndpoint, Cids
<1>3. a.awaits \in Nat
  BY <1>2 DEF Peers
<1>4. EndsChat(ep, ep')
  BY <1>1, <1>2, TakesAnswer DEF Takes
<1>5. /\ ep'[y][k] = TookAnswer(a)
      /\ \A x \in Side, n \in Nums : x # y \/ n # k => ep'[x][n] = ep[x][n]
  BY <1>1, <1>2 DEF Takes
<1>6. ep'[y][k].awaits = IF a.awaits > 0 THEN a.awaits - 1 ELSE a.awaits
  BY <1>2, <1>5 DEF TookAnswer, Peers
<1>7. /\ Marked(wire', flags.replayPhase)
      /\ \A x \in Side : \A u : HasClose(wire, x, u) =>
              \/ HasClose(wire', x, u)
              \/ x = s /\ Head(wire[s]).type = "CLOSE" /\ u = Head(wire[s]).conv
  BY <1>0, PopKeeps
<1>8. Marked(wire', flags'.replayPhase)
  BY <1>7, MarkedLater
<1>9. ASSUME NEW x \in Side, NEW u \in Cids, NEW n \in Ends(ep', x, u)
      PROVE  /\ n \in Ends(ep, x, u)
             /\ Closing(ep, wire, x, n, u) => Closing(ep', wire', x, n, u)
  <2>1. SameEnd(ep[x][n], ep'[x][n]) /\ n \in Ends(ep, x, u)
    BY <1>4, <1>9 DEF EndsChat, Ends
  <2>2. HasClose(wire, TheOtherSide(x), u) => HasClose(wire', TheOtherSide(x), u)
    BY <1>7, TwoSides
  <2> QED BY <2>1, <2>2 DEF Closing, SameEnd
<1>10. ASSUME NEW x \in Side, NEW u \in Cids, NEW n \in Ends(ep', x, u), x # y \/ u # v
       PROVE  Follow(ep, wire, ep', wire', x, n, u)
  <2>1. n \in Ends(ep, x, u)
    BY <1>9, <1>10
  <2>2. n \in Nums /\ ep'[x][n] = ep[x][n]
    BY <1>1, <1>5, <1>10, <2>1 DEF Ends
  <2> QED BY <1>9, <1>10, <2>1, <2>2 DEF Follow
<1>11. \A n \in Ends(ep', y, v) : n = k
  <2>1. Conversation(channels, ep, wire, v)
    BY DEF ChannelsInv, FollowedState, Settled
  <2> QED BY <1>9, <2>1, OneEnd
<1>12. Balanced(ep, wire, seen, y, k, v)
  BY <1>0 DEF Ledger
<1>13. Closing(ep, wire, y, k, v) => Closing(ep', wire', y, k, v)
  <2>1. k \in Ends(ep', y, v)
    BY <1>1, <1>4 DEF EndsChat, Ends
  <2> QED BY <1>9, <2>1
<1>14. /\ seen'.unasked = seen.unasked \cup Unasked(m, a) /\ seen'.misrouted = seen.misrouted
  BY DEF Takes
<1>15. Due(wire, y, v) \in Nat
  BY <1>0, DueNat
<1>16. CASE CountsFor(Head(wire[s]), s, y) /\ m.kind # "replayed"
  <2>1. /\ OtherDue(wire, wire', y, v)
        /\ Due(wire, y, v) = Due(wire', y, v) + 1 /\ Due(wire', y, v) \in Nat
    BY <1>0, <1>16, TakenOne
  <2>2. CASE a.awaits > 0
    <3>1. seen'.unasked = seen.unasked
      BY <1>14, <1>16, <2>2 DEF Unasked
    <3>2. Due(wire, y, v) <= a.awaits => Due(wire', y, v) <= ep'[y][k].awaits
      BY <1>3, <1>6, <1>15, <2>1, <2>2
    <3>3. a.awaits <= Due(wire, y, v) => ep'[y][k].awaits <= Due(wire', y, v)
      BY <1>3, <1>6, <1>15, <2>1, <2>2
    <3>4. Balanced(ep', wire', seen', y, k, v)
      BY <1>12, <1>13, <1>14, <3>1, <3>2, <3>3 DEF Balanced, CameLate
    <3>5. AnswersAsked'
      BY <1>0, <3>1, AskedStays
    <3> QED BY <1>8, <1>10, <1>11, <1>14, <2>1, <3>1, <3>4, <3>5, AccountKept
  <2>3. CASE ~(a.awaits > 0)
    <3>1. seen'.unasked = seen.unasked \cup {<<m.type, m.kind>>}
      BY <1>14, <2>3 DEF Unasked
    <3>2. ~(Due(wire, y, v) <= a.awaits) /\ ep'[y][k].awaits <= Due(wire', y, v)
      BY <1>3, <1>6, <1>15, <2>1, <2>3
    <3>3. CameLate(seen')
      BY <1>12, <3>1, <3>2 DEF Balanced, CameLate
    <3>4. Balanced(ep', wire', seen', y, k, v)
      BY <3>2, <3>3 DEF Balanced
    <3>5. AnswersAsked'
      <4>1. <<m.type, m.kind>>[1] # "GLOBAL"
        OBVIOUS
      <4> QED BY <1>0, <3>1, <3>3, <4>1, AskedMore
    <3> QED BY <1>8, <1>10, <1>11, <1>14, <2>1, <3>1, <3>4, <3>5, AccountKept
  <2> QED BY <2>2, <2>3
<1>17. CASE Mute(Head(wire[s])) /\ m.type = "SUCCESS" /\ m.kind = "replayed"
  <2>1. SameDue(wire, wire')
    BY <1>0, <1>17, TakenQuietly
  <2>2. OtherDue(wire, wire', y, v) /\ Due(wire', y, v) = Due(wire, y, v)
    BY <2>1 DEF SameDue, OtherDue
  <2>3. seen'.unasked = seen.unasked \cup {<<"SUCCESS", "replayed">>}
    BY <1>14, <1>17 DEF Unasked
  <2>4. CameLate(seen')
    BY <2>3 DEF CameLate
  <2>5. a.awaits <= Due(wire, y, v) => ep'[y][k].awaits <= Due(wire', y, v)
    BY <1>3, <1>6, <1>15, <2>2
  <2>6. Balanced(ep', wire', seen', y, k, v)
    BY <1>12, <1>13, <1>14, <2>4, <2>5 DEF Balanced
  <2>7. AnswersAsked'
    <3>1. <<"SUCCESS", "replayed">>[1] # "GLOBAL"
      OBVIOUS
    <3> QED BY <1>0, <2>3, <2>4, <3>1, AskedMore
  <2> QED BY <1>8, <1>10, <1>11, <1>14, <2>2, <2>3, <2>6, <2>7, AccountKept
<1> QED BY <1>16, <1>17

\* What is forwarded or dropped and asks for no reply.
LEMMA PlainQuiet ==
  ASSUME NEW l, Answers(l), ChannelsTyped, fatal = "no", NEW s \in Side, wire[s] # <<>>, NEW k,
         Head(wire[s]).type \in {"DATA", "REQUEST", "WINDOW", "EOF"},
         Head(wire[s]).type = "REQUEST" => ~Head(wire[s]).want,
         \/ Forwarded(s, TheOtherSide(s), Head(wire[s]), k) /\ UNCHANGED awaits
         \/ Drop(s),
         flags'.replayPhase => flags.replayPhase
  PROVE  Answers(l)'
<1>1. Mute(Head(wire[s])) /\ Head(wire[s]).type # "CLOSE"
  BY DEF Mute
<1>2. ~Replying(TheOtherSide(s), Head(wire[s]), k)
  BY DEF Replying
<1>3. UNCHANGED <<ep, seen, awaits>> /\ wire' = [wire EXCEPT ![s] = Tail(@)]
  BY <1>2 DEF Forwarded, Drop
<1>4. Popped(wire, wire', s)
  BY <1>3 DEF Popped
<1> QED BY <1>1, <1>3, <1>4, DropQuiet

\* A request that wants a reply, forwarded: the peer answers, or it has closed
\* its end, so that whoever asked will see its CLOSE.
LEMMA RequestPasses ==
  ASSUME ChannelsInv, NEW l, Answers(l), fatal = "no", NEW s \in Side, wire[s] # <<>>,
         Head(wire[s]).type = "REQUEST", Head(wire[s]).want, NEW i, TalkAt(s, i),
         Forwarded(s, TheOtherSide(s), Head(wire[s]), OwnNum(channels[i], TheOtherSide(s))),
         UNCHANGED awaits, ~flags'.replayPhase
  PROVE  Answers(l)'
<1> DEFINE m == Head(wire[s])
           t == TheOtherSide(s)
           k == OwnNum(channels[i], t)
           v == m.conv
<1>0. /\ ChannelsTyped /\ Wires(wire) /\ Marked(wire, flags.replayPhase) /\ AnswersAsked
      /\ Ledger(ep, wire, seen)
  BY DEF ChannelsInv, ChannelsTyped, Wires, Answers
<1>1. t \in Side /\ t # s /\ TheOtherSide(t) = s /\ \A x \in Side : x = s \/ x = t
  BY TwoSides
<1>2. m \in Packets /\ v \in Cids
  BY DEF TalkAt
<1>3. IsAsk(m) /\ m.type \notin {"SUCCESS", "FAILURE", "CLOSE"} /\ CountsFor(m, s, s)
  BY DEF IsAsk, CountsFor
<1>4. ep' = ep /\ seen' = seen
  BY <1>3 DEF Forwarded
<1>5. CASE Silent(t, m, k) /\ wire' = [wire EXCEPT ![s] = Tail(@)]
  <2>1. ep[t][k].sent
    BY <1>5 DEF Silent
  <2>2. Popped(wire, wire', s)
    BY <1>5 DEF Popped
  <2>3. /\ OtherDue(wire, wire', s, v)
        /\ Due(wire, s, v) = Due(wire', s, v) + 1 /\ Due(wire', s, v) \in Nat
    BY <1>0, <1>3, <2>2, TakenOne
  <2>4. /\ Marked(wire', flags.replayPhase)
        /\ \A x \in Side : \A u : HasClose(wire, x, u) =>
              \/ HasClose(wire', x, u)
              \/ x = s /\ m.type = "CLOSE" /\ u = m.conv
    BY <1>0, <2>2, PopKeeps
  <2>5. Marked(wire', flags'.replayPhase)
    BY <2>4, MarkedLater
  <2>6. ASSUME NEW x \in Side, NEW u \in Cids, NEW n \in Ends(ep', x, u)
        PROVE  Follow(ep, wire, ep', wire', x, n, u)
    <3>1. HasClose(wire, TheOtherSide(x), u) => HasClose(wire', TheOtherSide(x), u)
      BY <1>3, <2>4, TwoSides
    <3> QED BY <1>4, <3>1 DEF Follow, Closing
  <2>7. ASSUME NEW n \in Ends(ep', s, v) PROVE Balanced(ep', wire', seen', s, n, v)
    <3>1. n \in Ends(ep, s, v) /\ n \in Nums
      BY <1>4, <2>7 DEF Ends
    <3>2. Balanced(ep, wire, seen, s, n, v)
      BY <1>0, <1>2, <3>1 DEF Ledger
    <3>3. ep[s][n].awaits \in Nat
      <4>1. ep \in [Side -> [Nums -> Peers \cup {NoEndpoint}]] /\ ep[s][n].conv = v
        BY <1>0, <3>1 DEF ChannelsTyped, Ends
      <4>2. ep[s][n] \in Peers
        BY <1>2, <3>1, <4>1 DEF NoEndpoint, Cids
      <4> QED BY <4>2 DEF Peers
    <3>4. Due(wire, s, v) <= ep[s][n].awaits => Due(wire', s, v) <= ep[s][n].awaits
      BY <2>3, <3>3
    <3>5. Closing(ep, wire, s, n, v)
      <4>1. CASE Up(channels, ep, wire, v, i)
        <5>1. HasClose(wire, t, v)
          BY <1>1, <2>1, <4>1 DEF Up, InUse
        <5> QED BY <5>1 DEF Closing
      <4>2. CASE Half(channels, ep, wire, v, i, t)
        <5>1. ClosesNext(ep, wire, v, channels[i], s)
          BY <1>1, <4>2 DEF Half
        <5>2. ep[s][n].got
          BY <3>1, <5>1 DEF ClosesNext, End
        <5> QED BY <5>2 DEF Closing
      <4> QED BY <4>1, <4>2 DEF TalkAt
    <3>6. Closing(ep', wire', s, n, v)
      BY <2>6, <2>7, <1>2, <3>5 DEF Follow
    <3> QED BY <1>4, <3>2, <3>4, <3>6 DEF Balanced
  <2>8. AnswersAsked'
    BY <1>0, <1>4, AskedStays
  <2> QED BY <1>2, <1>4, <2>3, <2>5, <2>6, <2>7, <2>8, AccountKept
<1>6. CASE \E a : /\ Reply(a, t, m, k)
                  /\ wire' = [wire EXCEPT ![s] = Tail(wire[s]), ![t] = Append(wire[t], a)]
  <2>1. PICK a : /\ Reply(a, t, m, k)
                 /\ wire' = [wire EXCEPT ![s] = Tail(wire[s]), ![t] = Append(wire[t], a)]
    BY <1>6
  <2>2. PICK w1 : w1 = [wire EXCEPT ![s] = Tail(@)]
    OBVIOUS
  <2>3. Popped(wire, w1, s)
    BY <2>2 DEF Popped
  <2>4. a \in Packets /\ IsReply(a) /\ a.conv = v /\ MarkedPacket(a, FALSE)
    BY <2>1 DEF Reply, IsReply, MarkedPacket
  <2>5. Pushed(w1, wire', t, a)
    BY <1>0, <1>1, <2>1, <2>2, <2>4 DEF Pushed, Wires
  <2>6. SameDue(wire, wire')
    BY <1>0, <1>3, <2>3, <2>4, <2>5, PassedOn
  <2>7. /\ Wires(w1) /\ Marked(w1, FALSE)
        /\ \A x \in Side : \A u : HasClose(wire, x, u) =>
              \/ HasClose(w1, x, u)
              \/ x = s /\ m.type = "CLOSE" /\ u = m.conv
    <3>1. Marked(wire, FALSE)
      BY <1>0, MarkedLater
    <3> QED BY <1>0, <2>3, <3>1, PopKeeps, PopShape
  <2>8. /\ Marked(wire', FALSE)
        /\ \A x \in Side : \A u : HasClose(w1, x, u) => HasClose(wire', x, u)
    BY <1>1, <2>4, <2>5, <2>7, PushKeeps
  <2>9. Marked(wire', flags'.replayPhase)
    BY <2>8 DEF Marked, MarkedWire, MarkedPacket
  <2>10. ASSUME NEW x \in Side, NEW u \in Cids, NEW n \in Ends(ep', x, u)
         PROVE  Follow(ep, wire, ep', wire', x, n, u)
    <3>1. HasClose(wire, TheOtherSide(x), u) => HasClose(wire', TheOtherSide(x), u)
      BY <1>3, <2>7, <2>8, TwoSides
    <3> QED BY <1>4, <3>1 DEF Follow, Closing
  <2> QED BY <1>4, <2>6, <2>9, <2>10, QuietKept
<1> QED BY <1>3, <1>5, <1>6 DEF Forwarded

\* The entry of what is said, and where it goes when it is forwarded.
Entry(s, i) ==
  /\ TalkAt(s, i)
  /\ Deliver(s, TheOtherSide(s), Rewrite(s, Head(wire[s]), channels[i])) =>
       /\ Forwarded(s, TheOtherSide(s), Head(wire[s]), OwnNum(channels[i], TheOtherSide(s)))
       /\ UNCHANGED awaits

\* What is said has an entry, which every lookup finds.
LEMMA EntryFound ==
  ASSUME ChannelsInv, fatal = "no", NEW s \in Side, wire[s] # <<>>, Head(wire[s]).type \in Talk
  PROVE  \E i \in Cids :
           /\ Entry(s, i) /\ i # 0
           /\ FindForData(s, Head(wire[s]).to) = i /\ FindForClose(s, Head(wire[s]).to) = i
<1>1. PICK i \in Cids : Entry(s, i)
  BY TalkFound DEF Entry
<1>2. TalkAt(s, i) /\ i # 0
  BY <1>1 DEF Entry, Cids
<1> QED BY <1>1, <1>2 DEF TalkAt

\* Steps that end in fatal() give nobody an answer.
LEMMA FatalAsked ==
  ASSUME NEW l, Answers(l), NEW s, NEW why, Fatal(s, why), why # "no"
  PROVE  Answers(l)'
<1>1. AnswersAsked /\ seen' = seen /\ fatal' # "no"
  BY DEF Answers, Fatal, Drop
<1>2. AnswersAsked'
  BY <1>1, AskedStays
<1> QED BY <1>1, <1>2 DEF Answers

\* Data, window adjustments and EOF.
LEMMA PlainAsked ==
  ASSUME ChannelsInv, NEW l, Answers(l), NEW s \in Side,
         ChannelData(s) \/ WindowAdjust(s) \/ ChannelEof(s)
  PROVE  Answers(l)'
<1> DEFINE m == Head(wire[s])
           t == TheOtherSide(s)
<1>1. fatal = "no" /\ wire[s] # <<>> /\ m.type \in {"DATA", "WINDOW", "EOF"}
  BY DEF ChannelData, WindowAdjust, ChannelEof, Received
<1>2. m.type \in Talk
  BY <1>1 DEF Talk
<1>3. PICK i \in Cids : Entry(s, i) /\ i # 0 /\ FindForData(s, m.to) = i
  BY <1>1, <1>2, EntryFound
<1>4. CASE ChannelData(s) /\ SftpFatal(s, channels[i]) # "no"
  <2>1. Fatal(s, SftpFatal(s, channels[i]))
    BY <1>3, <1>4 DEF ChannelData
  <2> QED BY <1>4, <2>1, FatalAsked
<1>5. CASE ~(ChannelData(s) /\ SftpFatal(s, channels[i]) # "no")
  <2>1. flags' = flags /\ (Drop(s) \/ Deliver(s, t, Rewrite(s, m, channels[i])))
    BY <1>3, <1>5 DEF ChannelData, WindowAdjust, ChannelEof
  <2>2. \/ Forwarded(s, t, m, OwnNum(channels[i], t)) /\ UNCHANGED awaits
        \/ Drop(s)
    BY <1>3, <2>1 DEF Entry
  <2>3. ChannelsTyped
    BY DEF ChannelsInv
  <2>4. /\ m.type \in {"DATA", "REQUEST", "WINDOW", "EOF"}
        /\ m.type = "REQUEST" => ~m.want
        /\ flags'.replayPhase => flags.replayPhase
    BY <1>1, <2>1
  <2> QED BY <1>1, <2>2, <2>3, <2>4, PlainQuiet
<1> QED BY <1>4, <1>5

\* An accepted request.
LEMMA RequestAsked ==
  ASSUME ChannelsInv, NEW l, Answers(l), NEW s \in Side, ChannelRequest(s)
  PROVE  Answers(l)'
<1> DEFINE m == Head(wire[s])
           t == TheOtherSide(s)
<1>1. fatal = "no" /\ wire[s] # <<>> /\ m.type = "REQUEST"
  BY DEF ChannelRequest, Received
<1>2. m.type \in Talk
  BY <1>1 DEF Talk
<1>3. PICK i \in Cids : Entry(s, i) /\ i # 0 /\ FindForData(s, m.to) = i
  BY <1>1, <1>2, EntryFound
<1>4. /\ flags' = [flags EXCEPT !.replayPhase = FALSE]
      /\ Deliver(s, t, Rewrite(s, m, channels[i]))
  BY <1>3 DEF ChannelRequest
<1>5. ChannelsTyped /\ ~flags'.replayPhase
  <2>1. ChannelsTyped
    BY DEF ChannelsInv
  <2>2. flags \in [noMoreSessions : BOOLEAN, sendShellEnv : BOOLEAN,
                   replayPhase : BOOLEAN, refused : BOOLEAN]
    BY <2>1 DEF ChannelsTyped
  <2> QED BY <1>4, <2>1, <2>2
<1>6. /\ TalkAt(s, i)
      /\ Forwarded(s, t, m, OwnNum(channels[i], t)) /\ UNCHANGED awaits
  BY <1>3, <1>4 DEF Entry
<1>7. CASE m.want
  BY <1>1, <1>5, <1>6, <1>7, RequestPasses
<1>8. CASE ~m.want
  BY <1>1, <1>5, <1>6, <1>8, PlainQuiet
<1> QED BY <1>7, <1>8

\* A forwarded or dropped answer.
LEMMA AnswerAsked ==
  ASSUME ChannelsInv, NEW l, Answers(l), NEW s \in Side, ChannelSuccess(s) \/ ChannelFailure(s)
  PROVE  Answers(l)'
<1> DEFINE m == Head(wire[s])
           t == TheOtherSide(s)
<1>1. fatal = "no" /\ wire[s] # <<>> /\ m.type \in {"SUCCESS", "FAILURE"}
  BY DEF ChannelSuccess, ChannelFailure, Answered, Received
<1>0. /\ ChannelsTyped /\ Wires(wire) /\ Marked(wire, flags.replayPhase)
      /\ t \in Side /\ t # s
  BY <1>1, TwoSides DEF ChannelsInv, ChannelsTyped, Wires, Answers
<1>2. m.type \in Talk
  BY <1>1 DEF Talk
<1>3. PICK i \in Cids : Entry(s, i) /\ i # 0 /\ FindForClose(s, m.to) = i
  BY <1>1, <1>2, EntryFound
<1>f. CASE Fatal(s, "success of the opener")
  BY <1>f, FatalAsked
<1>e. Fatal(s, "success of the opener") \/ AnswerPassed(s, i)
  BY <1>3, AnsweredFor
<1> SUFFICES ASSUME AnswerPassed(s, i) PROVE Answers(l)'
  BY <1>e, <1>f
<1>4. /\ flags.replayPhase => Drop(s)
      /\ ~flags.replayPhase => Deliver(s, t, Rewrite(s, m, channels[i]))
      /\ flags' = flags
  BY DEF AnswerPassed
<1>5. MarkedPacket(m, flags.replayPhase)
  <2>1. PICK w1 : w1 = [wire EXCEPT ![s] = Tail(@)]
    OBVIOUS
  <2>2. Popped(wire, w1, s)
    BY <1>1, <2>1 DEF Popped
  <2> QED BY <1>0, <2>2, PopKeeps
<1>6. CASE flags.replayPhase
  <2>1. m.kind = "replayed" /\ Mute(m) /\ m.type # "CLOSE"
    BY <1>1, <1>5, <1>6 DEF MarkedPacket, Mute
  <2>2. Popped(wire, wire', s) /\ UNCHANGED <<ep, seen, awaits>>
    BY <1>1, <1>4, <1>6 DEF Popped, Drop
  <2> QED BY <1>0, <1>1, <1>4, <2>1, <2>2, DropQuiet
<1>7. CASE ~flags.replayPhase
  <2> PICK k : k = OwnNum(channels[i], t)
    OBVIOUS
  <2>1. /\ TalkAt(s, i) /\ Forwarded(s, t, m, k) /\ UNCHANGED awaits
    BY <1>3, <1>4, <1>7 DEF Entry
  <2>2. Takes(t, k, m) /\ wire' = [wire EXCEPT ![s] = Tail(@)]
    BY <1>1, <2>1 DEF Forwarded, Takes, Silent, Replying
  <2>3. Popped(wire, wire', s)
    BY <1>1, <2>2 DEF Popped
  <2>4. m.conv \in Cids /\ k \in Ends(ep, t, m.conv)
    BY <2>1 DEF TalkAt, End
  <2>5. \/ CountsFor(m, s, t) /\ m.kind # "replayed"
        \/ Mute(m) /\ m.type = "SUCCESS" /\ m.kind = "replayed"
    BY <1>1, <1>5 DEF MarkedPacket, Mute, CountsFor, IsReply
  <2>6. m.type # "CLOSE" /\ m.type # "GLOBAL"
    BY <1>1
  <2>7. awaits' = awaits /\ (flags'.replayPhase => flags.replayPhase)
    BY <1>4, <2>1
  <2> QED BY <1>0, <1>1, <2>2, <2>3, <2>4, <2>5, <2>6, <2>7, AnswerTaken
<1> QED BY <1>6, <1>7

\* The gateway's FAILURE for a request it refuses, when it reaches an end of
\* the conversation and when it does not.
LEMMA ToldExactly ==
  ASSUME ChannelsTyped, NEW s \in Side, wire[s] # <<>>, Head(wire[s]).type \in Talk,
         NEW m, m.type = "FAILURE", m.kind = "rejected", m.conv \in Cids, m.to \in Nums,
         Deliver(s, s, m)
  PROVE  /\ wire' = [wire EXCEPT ![s] = Tail(@)] /\ awaits' = awaits
         /\ \/ m.to \in Ends(ep, s, m.conv) /\ Takes(s, m.to, m)
            \/ /\ ep' = ep /\ seen'.unasked = seen.unasked
               /\ seen'.misrouted = seen.misrouted \cup {<<"FAILURE", "rejected">>}
<1>0. wire' = [wire EXCEPT ![s] = Tail(@)] /\ awaits' = awaits
  BY Told
<1>1. PICK r \in Reactions(s, m) :
        /\ ep' = [ep EXCEPT ![s] = r.ep]
        /\ seen' = Merge(seen, r.seen)
  BY DEF Deliver
<1>2. /\ ep \in [Side -> [Nums -> Peers \cup {NoEndpoint}]]
      /\ seen = [misrouted |-> seen.misrouted, unasked |-> seen.unasked, env |-> seen.env]
  BY DEF ChannelsTyped
<1>4. CASE ep[s][m.to].conv = m.conv
  <2>1. m.type \in Talk
    BY DEF Talk
  <2>2. /\ r.ep = [ep[s] EXCEPT ![m.to] = TookAnswer(ep[s][m.to])]
        /\ r.seen = [misrouted |-> {}, unasked |-> Unasked(m, ep[s][m.to]), env |-> {}]
    BY <1>4, <2>1, TalkReacts DEF Silent, Replying
  <2>3. m.to \in Ends(ep, s, m.conv)
    BY <1>4 DEF Ends
  <2>4. Takes(s, m.to, m)
    <3>1. seen' = [misrouted |-> seen.misrouted,
                   unasked |-> seen.unasked \cup Unasked(m, ep[s][m.to]), env |-> seen.env]
      BY <1>1, <2>2 DEF Merge
    <3> QED BY <1>1, <2>2, <3>1 DEF Takes
  <2> QED BY <1>0, <2>3, <2>4
<1>5. CASE ep[s][m.to].conv # m.conv
  <2>1. r = [ep |-> ep[s], out |-> <<>>,
             seen |-> [Nothing EXCEPT !.misrouted = {<<m.type, m.kind>>}]]
    BY <1>5 DEF Reactions
  <2>2. ep' = ep
    BY <1>1, <1>2, <2>1
  <2>3. seen' = [misrouted |-> seen.misrouted \cup {<<m.type, m.kind>>},
                 unasked |-> seen.unasked, env |-> seen.env]
    BY <1>1, <2>1 DEF Merge, Nothing
  <2>4. <<m.type, m.kind>> = <<"FAILURE", "rejected">>
    OBVIOUS
  <2> QED BY <1>0, <2>2, <2>3, <2>4
<1> QED BY <1>4, <1>5

\* A refused request.  The FAILURE has the requestor's number: the requestor
\* gets its answer; that of the provider may go astray.
LEMMA RejectedAsked ==
  ASSUME ChannelsInv, NEW l, Answers(l), NEW s \in Side, ChannelRequestRejected(s)
  PROVE  Answers(l)'
<1> DEFINE m == Head(wire[s])
<1>1. fatal = "no" /\ wire[s] # <<>> /\ m.type = "REQUEST"
  BY DEF ChannelRequestRejected, Received
<1>0. /\ ChannelsTyped /\ Wires(wire) /\ Marked(wire, flags.replayPhase)
      /\ AnswersAsked /\ Ledger(ep, wire, seen)
  BY <1>1 DEF ChannelsInv, ChannelsTyped, Wires, Answers
<1>2. m.type \in Talk
  BY <1>1 DEF Talk
<1>3. PICK i \in Cids : TalkAt(s, i)
  BY <1>1, <1>2, TalkFound
<1>4. FindForData(s, m.to) = i /\ channels[i] \in Channel /\ m.conv \in Cids
  BY <1>3 DEF TalkAt
<1>5. /\ flags' = [flags EXCEPT !.replayPhase = FALSE, !.sendShellEnv = FALSE, !.refused = FALSE]
      /\ IF m.want
         THEN Deliver(s, s, Packet("FAILURE", channels[i].requestorCh, m.conv, "rejected"))
         ELSE Drop(s)
  BY <1>4 DEF ChannelRequestRejected, RequestRefused
<1>6. flags'.replayPhase => flags.replayPhase
  <2>1. flags \in [noMoreSessions : BOOLEAN, sendShellEnv : BOOLEAN,
                   replayPhase : BOOLEAN, refused : BOOLEAN]
    BY <1>0 DEF ChannelsTyped
  <2> QED BY <1>5, <2>1
<1>7. m.type # "CLOSE"
  BY <1>1
<1>8. CASE ~m.want
  <2>1. Mute(m) /\ Popped(wire, wire', s) /\ UNCHANGED <<ep, seen, awaits>>
    BY <1>1, <1>5, <1>8 DEF Mute, Popped, Drop
  <2> QED BY <1>0, <1>1, <1>6, <1>7, <2>1, DropQuiet
<1>9. CASE m.want
  <2>1. PICK f : f = Packet("FAILURE", channels[i].requestorCh, m.conv, "rejected")
    OBVIOUS
  <2>2. /\ f.type = "FAILURE" /\ f.kind = "rejected" /\ f.conv = m.conv /\ f.to \in Nums
    BY <1>4, <2>1 DEF Packet, Channel
  <2>3. Deliver(s, s, f)
    BY <1>5, <1>9, <2>1
  <2>4. /\ wire' = [wire EXCEPT ![s] = Tail(@)] /\ awaits' = awaits
        /\ \/ f.to \in Ends(ep, s, f.conv) /\ Takes(s, f.to, f)
           \/ /\ ep' = ep /\ seen'.unasked = seen.unasked
              /\ seen'.misrouted = seen.misrouted \cup {<<"FAILURE", "rejected">>}
    BY <1>0, <1>1, <1>2, <1>4, <2>2, <2>3, ToldExactly
  <2>5. Popped(wire, wire', s) /\ CountsFor(m, s, s)
    BY <1>1, <1>9, <2>4 DEF Popped, CountsFor, IsAsk
  <2>6. CASE f.to \in Ends(ep, s, f.conv) /\ Takes(s, f.to, f)
    <3>1. f.type # "GLOBAL" /\ f.kind # "replayed"
      BY <2>2
    <3> QED BY <1>1, <1>4, <1>6, <1>7, <2>2, <2>4, <2>5, <2>6, <3>1, AnswerTaken
  <2>7. CASE /\ ep' = ep /\ seen'.unasked = seen.unasked
             /\ seen'.misrouted = seen.misrouted \cup {<<"FAILURE", "rejected">>}
    <3> PICK v : v = m.conv
      OBVIOUS
    <3>1. /\ OtherDue(wire, wire', s, v)
          /\ Due(wire, s, v) = Due(wire', s, v) + 1 /\ Due(wire', s, v) \in Nat
      BY <1>0, <2>5, TakenOne
    <3>2. /\ Marked(wire', flags.replayPhase)
          /\ \A x \in Side : \A u : HasClose(wire, x, u) =>
                \/ HasClose(wire', x, u)
                \/ x = s /\ m.type = "CLOSE" /\ u = m.conv
      BY <1>0, <2>5, PopKeeps
    <3>3. Marked(wire', flags'.replayPhase)
      BY <1>6, <3>2, MarkedLater
    <3>4. ASSUME NEW x \in Side, NEW u \in Cids, NEW n \in Ends(ep', x, u)
          PROVE  Follow(ep, wire, ep', wire', x, n, u)
      <4>1. HasClose(wire, TheOtherSide(x), u) => HasClose(wire', TheOtherSide(x), u)
        BY <1>7, <3>2, TwoSides
      <4> QED BY <2>7, <4>1 DEF Follow, Closing
    <3>5. ASSUME NEW n \in Ends(ep', s, v) PROVE Balanced(ep', wire', seen', s, n, v)
      <4>1. n \in Ends(ep, s, v) /\ n \in Nums
        BY <2>7, <3>5 DEF Ends
      <4>2. Balanced(ep, wire, seen, s, n, v)
        BY <1>0, <1>4, <4>1 DEF Ledger
      <4>3. ep[s][n].awaits \in Nat
        <5>1. ep \in [Side -> [Nums -> Peers \cup {NoEndpoint}]] /\ ep[s][n].conv = v
          BY <1>0, <4>1 DEF ChannelsTyped, Ends
        <5>2. ep[s][n] \in Peers
          BY <1>4, <4>1, <5>1 DEF NoEndpoint, Cids
        <5> QED BY <5>2 DEF Peers
      <4>4. Due(wire, s, v) <= ep[s][n].awaits => Due(wire', s, v) <= ep[s][n].awaits
        BY <3>1, <4>3
      <4>5. seen'.misrouted # {} /\ (CameLate(seen) => CameLate(seen'))
        BY <2>7 DEF CameLate
      <4> QED BY <2>7, <4>2, <4>4, <4>5 DEF Balanced
    <3>6. AnswersAsked' /\ seen.unasked \subseteq seen'.unasked
          /\ seen.misrouted \subseteq seen'.misrouted
      BY <1>0, <2>7, AskedStays
    <3>7. v \in Cids /\ awaits' = awaits
      BY <1>4, <2>4
    <3> QED BY <1>1, <3>1, <3>3, <3>4, <3>5, <3>6, <3>7, AccountKept
  <2> QED BY <2>4, <2>6, <2>7
<1> QED BY <1>8, <1>9

----------------------------------------------------------------------------
\* An end that is confirmed, closed or gone waits for as many answers.
Settles(a, b) ==
  \/ a = NoEndpoint
  \/ /\ a.conv = b.conv /\ a.awaits = b.awaits
     /\ b.sent => a.sent
     /\ b.got => a.got

\* The packets that confirm, refuse and close a channel touch no account; after
\* a CLOSE nothing more is due.
LEMMA SettledQuiet ==
  ASSUME ChannelsInv, NEW l, Answers(l), fatal = "no", NEW s \in Side, Popped(wire, wire', s),
         Mute(Head(wire[s])), NEW x \in Side, NEW n \in Nums, NEW a,
         Becomes(ep, ep', x, n, a), Settles(a, ep[x][n]), awaits' = awaits,
         seen'.unasked = seen.unasked, seen'.misrouted = seen.misrouted,
         flags'.replayPhase => flags.replayPhase,
         Head(wire[s]).type = "CLOSE" =>
           /\ x = TheOtherSide(s) /\ n \in Ends(ep, x, Head(wire[s]).conv)
           /\ a # NoEndpoint => a.got
  PROVE  Answers(l)'
<1> DEFINE m == Head(wire[s])
<1>0. ChannelsTyped /\ Wires(wire) /\ Marked(wire, flags.replayPhase)
  BY DEF ChannelsInv, ChannelsTyped, Wires, Answers
<1>1. ep \in [Side -> [Nums -> Peers \cup {NoEndpoint}]]
  BY <1>0 DEF ChannelsTyped
<1>2. \A y \in Side, k \in Nums : ep'[y][k] = IF y = x /\ k = n THEN a ELSE ep[y][k]
  BY <1>1 DEF Becomes
<1>3. SameDue(wire, wire')
  BY <1>0, TakenQuietly
<1>4. /\ Marked(wire', flags.replayPhase)
      /\ \A y \in Side : \A v : HasClose(wire, y, v) =>
              \/ HasClose(wire', y, v)
              \/ y = s /\ m.type = "CLOSE" /\ v = m.conv
  BY <1>0, PopKeeps
<1>5. Marked(wire', flags'.replayPhase)
  BY <1>4, MarkedLater
<1>6. ASSUME NEW y \in Side, NEW v \in Cids, NEW k \in Ends(ep', y, v)
      PROVE  Follow(ep, wire, ep', wire', y, k, v)
  <2>1. k \in Nums /\ ep'[y][k].conv = v
    BY DEF Ends
  <2>2. ep'[y][k] # NoEndpoint
    BY <2>1 DEF NoEndpoint, Cids
  <2>3. /\ ep[y][k].conv = v /\ ep'[y][k].awaits = ep[y][k].awaits
        /\ ep[y][k].sent => ep'[y][k].sent
        /\ ep[y][k].got => ep'[y][k].got
    BY <1>2, <2>1, <2>2 DEF Settles
  <2>4. k \in Ends(ep, y, v)
    BY <2>1, <2>3 DEF Ends
  <2>5. CASE TheOtherSide(y) = s /\ m.type = "CLOSE" /\ v = m.conv
    <3>1. y = x
      BY <2>5, TwoSides
    <3>2. Conversation(channels, ep, wire, v)
      BY DEF ChannelsInv, FollowedState, Settled
    <3>3. k = n
      BY <2>4, <2>5, <3>1, <3>2, OneEnd
    <3>4. ep'[y][k].got
      BY <1>2, <2>1, <2>2, <2>5, <3>1, <3>3
    <3> QED BY <2>3, <2>4, <3>4 DEF Follow, Closing
  <2>6. CASE ~(TheOtherSide(y) = s /\ m.type = "CLOSE" /\ v = m.conv)
    <3>1. HasClose(wire, TheOtherSide(y), v) => HasClose(wire', TheOtherSide(y), v)
      BY <1>4, <2>6, TwoSides
    <3> QED BY <2>3, <2>4, <3>1 DEF Follow, Closing
  <2> QED BY <2>5, <2>6
<1>7. seen.misrouted \subseteq seen'.misrouted
  OBVIOUS
<1> QED BY <1>3, <1>5, <1>6, <1>7, QuietKept

\* A channel the gateway refuses.
LEMMA OpenRejectedAsked ==
  ASSUME ChannelsInv, NEW l, Answers(l), NEW s \in Side, ChannelOpenRejected(s)
  PROVE  Answers(l)'
<1> DEFINE m == Head(wire[s])
<1>0. FollowedState /\ ChannelsTyped /\ fatal = "no"
  BY DEF ChannelsInv, ChannelOpenRejected, Received
<1>1. wire[s] # <<>> /\ m.type = "OPEN"
  BY DEF ChannelOpenRejected, Received
<1>2. PICK session_ \in BOOLEAN :
        /\ flags' = [flags EXCEPT !.sendShellEnv = @ \/ session_, !.refused = @ \/ session_]
        /\ Deliver(s, s, Packet("OPENFAIL", m.from, m.conv, "rejected"))
  BY DEF ChannelOpenRejected
<1>3. m.conv \in Cids /\ m.from \in Nums /\ Asked(channels, ep, wire, m.conv, s, m.from)
  BY <1>0, <1>1, OpeningHead DEF Starts
<1>4. PICK f : f = Packet("OPENFAIL", m.from, m.conv, "rejected")
  OBVIOUS
<1>5. f.type = "OPENFAIL" /\ f.conv = m.conv /\ f.to = m.from
  BY <1>4 DEF Packet
<1>6. ep[s][f.to].conv = m.conv
  BY <1>3, <1>5 DEF Asked, Waits, Ends
<1>7. /\ Becomes(ep, ep', s, f.to, EndAfter(ep[s][f.to], f))
      /\ wire' = [wire EXCEPT ![s] = Tail(@)] /\ seen' = seen /\ awaits' = awaits
  <2>1. Deliver(s, s, f)
    BY <1>2, <1>4
  <2> QED BY <1>0, <1>1, <1>3, <1>5, <1>6, <2>1, EndReached, SMTT(20)
<1>8. PICK a : a = EndAfter(ep[s][f.to], f)
  OBVIOUS
<1>9. Settles(a, ep[s][f.to]) /\ Becomes(ep, ep', s, f.to, a) /\ f.to \in Nums
  BY <1>3, <1>5, <1>7, <1>8 DEF Settles, EndAfter
<1>10. Popped(wire, wire', s) /\ Mute(m) /\ m.type # "CLOSE"
  BY <1>1, <1>7 DEF Popped, Mute
<1>11. /\ seen'.unasked = seen.unasked /\ seen'.misrouted = seen.misrouted
       /\ flags'.replayPhase => flags.replayPhase
  <2>1. flags \in [noMoreSessions : BOOLEAN, sendShellEnv : BOOLEAN,
                   replayPhase : BOOLEAN, refused : BOOLEAN]
    BY <1>0 DEF ChannelsTyped
  <2> QED BY <1>2, <1>7, <2>1
<1> QED BY <1>0, <1>7, <1>9, <1>10, <1>11, SettledQuiet

\* One the provider refuses.
LEMMA OpenFailureAsked ==
  ASSUME ChannelsInv, NEW l, Answers(l), NEW s \in Side, ChannelOpenFailure(s)
  PROVE  Answers(l)'
<1> DEFINE m == Head(wire[s])
           t == TheOtherSide(s)
<1>0. FollowedState /\ ChannelsTyped /\ fatal = "no" /\ t \in Side
  BY TwoSides DEF ChannelsInv, ChannelOpenFailure, Received
<1>1. wire[s] # <<>> /\ m.type = "OPENFAIL"
  BY DEF ChannelOpenFailure, Received
<1>2. PICK i \in Cids : Refused(channels, ep, wire, m.conv, t, m.to, i)
  BY <1>0, <1>1, OpeningHead DEF Starts
<1>3. m.conv \in Cids /\ m.to \in Nums
  BY <1>0, <1>1, OpeningHead DEF Starts
<1> DEFINE c == channels[i]
<1>4. /\ c # FreeSlot /\ c.requestor = t /\ c.requestorCh = m.to /\ ~c.proxied
      /\ ep[t][m.to].conv = m.conv
  BY <1>2 DEF Refused, Pending, Slots, Waits, Ends
<1>5. FindForAnswer(s, m.to) = i /\ i # 0
  <2>1. m.to = NumAt(c, t) /\ m.to # None
    BY <1>3, <1>4, NumsAssumption DEF NumAt, RequestorNum, None
  <2>2. FindForAnswer(s, m.to) = i
    BY <1>0, <1>4, <2>1, Lookup DEF FollowedState
  <2> QED BY <2>2 DEF Cids
<1>6. /\ flags' = [flags EXCEPT !.sendShellEnv = FALSE, !.refused = FALSE]
      /\ Deliver(s, t, m)
  <2>1. Rewrite(s, m, c) = m
    BY <1>4 DEF Rewrite
  <2> QED BY <1>5, <2>1 DEF ChannelOpenFailure, EnvTaken
<1>7. /\ Becomes(ep, ep', t, m.to, EndAfter(ep[t][m.to], m))
      /\ wire' = [wire EXCEPT ![s] = Tail(@)] /\ seen' = seen /\ awaits' = awaits
  BY <1>0, <1>1, <1>3, <1>4, <1>6, EndReached
<1>8. PICK a : a = EndAfter(ep[t][m.to], m)
  OBVIOUS
<1>9. Settles(a, ep[t][m.to]) /\ Becomes(ep, ep', t, m.to, a)
  BY <1>1, <1>7, <1>8 DEF Settles, EndAfter
<1>10. Popped(wire, wire', s) /\ Mute(m) /\ m.type # "CLOSE"
  BY <1>1, <1>7 DEF Popped, Mute
<1>11. /\ seen'.unasked = seen.unasked /\ seen'.misrouted = seen.misrouted
       /\ flags'.replayPhase => flags.replayPhase
  <2>1. flags \in [noMoreSessions : BOOLEAN, sendShellEnv : BOOLEAN,
                   replayPhase : BOOLEAN, refused : BOOLEAN]
    BY <1>0 DEF ChannelsTyped
  <2> QED BY <1>6, <1>7, <2>1
<1> QED BY <1>0, <1>3, <1>7, <1>9, <1>10, <1>11, SettledQuiet

\* One the provider accepts.
LEMMA OpenConfirmAsked ==
  ASSUME ChannelsInv, NEW l, Answers(l), NEW s \in Side, ChannelOpenConfirm(s)
  PROVE  Answers(l)'
<1> DEFINE m == Head(wire[s])
           t == TheOtherSide(s)
<1>0. FollowedState /\ ChannelsTyped /\ fatal = "no" /\ t \in Side
  BY TwoSides DEF ChannelsInv, ChannelOpenConfirm, Received
<1>1. wire[s] # <<>> /\ m.type = "CONFIRM"
  BY DEF ChannelOpenConfirm, Received
<1>2. PICK i \in Cids : Accepted(channels, ep, wire, m.conv, t, m.to, i, m.from)
  BY <1>0, <1>1, OpeningHead DEF Starts
<1>3. m.conv \in Cids /\ m.to \in Nums /\ m.from \in Nums
  BY <1>0, <1>1, OpeningHead DEF Starts
<1> DEFINE c == channels[i]
<1>4. /\ c # FreeSlot /\ c.requestor = t /\ c.requestorCh = m.to /\ ~c.proxied
      /\ ep[t][m.to].conv = m.conv
  BY <1>2 DEF Accepted, Pending, Slots, Waits, Ends
<1>5. FindForAnswer(s, m.to) = i /\ i # 0
  <2>1. m.to = NumAt(c, t) /\ m.to # None
    BY <1>3, <1>4, NumsAssumption DEF NumAt, RequestorNum, None
  <2>2. FindForAnswer(s, m.to) = i
    BY <1>0, <1>4, <2>1, Lookup DEF FollowedState
  <2> QED BY <2>2 DEF Cids
<1> PICK env : env = EnvReaches(c)
  OBVIOUS
<1>6. PICK r \in Reactions(t, m) :
      /\ flags' = [flags EXCEPT !.sendShellEnv = FALSE, !.refused = FALSE]
      /\ ep' = [ep EXCEPT ![t] = r.ep]
      /\ wire' = [wire EXCEPT ![s] = Tail(@)]
      /\ seen' = Merge(Merge(seen, r.seen), [Nothing EXCEPT !.env = env])
      /\ UNCHANGED awaits
  <2>1. Rewrite(s, m, c) = m
    BY <1>4 DEF Rewrite
  <2> QED BY <1>5, <2>1 DEF ChannelOpenConfirm, EnvTaken
<1>7. /\ Becomes(ep, ep', t, m.to, [ep[t][m.to] EXCEPT !.remote = m.from])
      /\ seen' = [misrouted |-> seen.misrouted, unasked |-> seen.unasked,
                  env |-> seen.env \cup env]
  BY <1>0, <1>1, <1>3, <1>4, <1>6, EndConfirmed
<1>8. PICK a : a = [ep[t][m.to] EXCEPT !.remote = m.from]
  OBVIOUS
<1>9. Settles(a, ep[t][m.to]) /\ Becomes(ep, ep', t, m.to, a)
  <2>1. ep[t][m.to] \in Peers
    BY <1>0, <1>3, <1>4, Shapes DEF FollowedState, Settled
  <2>2. Settles(a, ep[t][m.to])
    BY <1>8, <2>1 DEF Settles, Peers
  <2> QED BY <1>7, <1>8, <2>2
<1>10. Popped(wire, wire', s) /\ Mute(m) /\ m.type # "CLOSE"
  BY <1>1, <1>6 DEF Popped, Mute
<1>11. /\ seen'.unasked = seen.unasked /\ seen'.misrouted = seen.misrouted
       /\ flags'.replayPhase => flags.replayPhase
  <2>1. flags \in [noMoreSessions : BOOLEAN, sendShellEnv : BOOLEAN,
                   replayPhase : BOOLEAN, refused : BOOLEAN]
    BY <1>0 DEF ChannelsTyped
  <2>2. flags' = [flags EXCEPT !.sendShellEnv = FALSE, !.refused = FALSE]
    BY <1>6
  <2>3. flags'.replayPhase = flags.replayPhase
    BY <2>1, <2>2
  <2>4. seen'.unasked = seen.unasked /\ seen'.misrouted = seen.misrouted
    BY <1>7
  <2> QED BY <2>3, <2>4
<1> QED BY <1>0, <1>3, <1>6, <1>9, <1>10, <1>11, SettledQuiet

\* A CLOSE.
LEMMA CloseAsked ==
  ASSUME ChannelsInv, NEW l, Answers(l), NEW s \in Side, ChannelClose(s)
  PROVE  Answers(l)'
<1> DEFINE m == Head(wire[s])
           t == TheOtherSide(s)
<1>0. FollowedState /\ ChannelsTyped /\ fatal = "no" /\ t \in Side
  BY TwoSides DEF ChannelsInv, ChannelClose, Received
<1>1. wire[s] # <<>> /\ m.type = "CLOSE" /\ flags' = flags
  BY DEF ChannelClose, Received
<1>2. PICK i \in Cids :
        /\ m \in Packets /\ m.conv \in Cids
        /\ channels[i] # FreeSlot /\ channels[i].conv = m.conv
        /\ End(ep, m.conv, channels[i], t)
        /\ m.to = NumAt(channels[i], t)
        /\ FindForClose(s, m.to) = i
  BY <1>0, <1>1, TalkHead
<1> DEFINE c == channels[i]
<1>3. Deliver(s, t, Rewrite(s, m, c))
  <2>1. i # 0
    BY DEF Cids
  <2> QED BY <1>2, <2>1 DEF ChannelClose
<1>4. c \in Channel /\ (c.proxied => c.requestor = CLIENT)
  <2>1. channels \in [Cids -> Channel \cup {FreeSlot}]
    BY <1>0 DEF ChannelsTyped
  <2> QED BY <1>0, <1>2, <2>1 DEF FollowedState, Proxied
<1>5. PICK k \in Nums : k = OwnNum(c, t) /\ Ends(ep, t, m.conv) = {k}
  BY <1>2 DEF End, Ends
<1>6. PICK m2 : m2 = Rewrite(s, m, c)
  OBVIOUS
<1>7. m2.to = k /\ m2.type = "CLOSE" /\ m2.conv = m.conv
  BY <1>1, <1>2, <1>4, <1>5, <1>6, Rewritten
<1>8. ep[t][k].conv = m.conv /\ ep[t][k] \in Peers
  <2>1. ep[t][k].conv = m.conv
    BY <1>5 DEF Ends
  <2> QED BY <1>0, <1>2, <2>1, Shapes DEF FollowedState, Settled
<1>9. PICK a : a = EndAfter(ep[t][k], m2)
  OBVIOUS
<1>10. /\ Becomes(ep, ep', t, k, a)
       /\ wire' = [wire EXCEPT ![s] = Tail(@)] /\ seen' = seen /\ awaits' = awaits
  <2>1. /\ Becomes(ep, ep', t, m2.to, EndAfter(ep[t][m2.to], m2))
        /\ wire' = [wire EXCEPT ![s] = Tail(@)] /\ seen' = seen /\ awaits' = awaits
    BY <1>0, <1>1, <1>2, <1>3, <1>6, <1>7, <1>8, EndReached
  <2> QED BY <1>7, <1>9, <2>1
<1>11. /\ ep[t][k].sent => a = NoEndpoint
       /\ ~ep[t][k].sent => a = [ep[t][k] EXCEPT !.got = TRUE]
  BY <1>7, <1>9, Zenon DEF EndAfter
<1>12. Settles(a, ep[t][k]) /\ (a # NoEndpoint => a.got)
  <2>1. CASE ep[t][k].sent
    BY <1>11, <2>1 DEF Settles
  <2>2. CASE ~ep[t][k].sent
    BY <1>8, <1>11, <2>2 DEF Settles, Peers
  <2> QED BY <2>1, <2>2
<1>13. Popped(wire, wire', s) /\ Mute(m)
  BY <1>1, <1>10 DEF Popped, Mute
<1>14. k \in Ends(ep, t, m.conv)
  BY <1>5
<1>15. /\ seen'.unasked = seen.unasked /\ seen'.misrouted = seen.misrouted
       /\ flags'.replayPhase => flags.replayPhase
  BY <1>1, <1>10
<1> QED BY <1>0, <1>10, <1>12, <1>13, <1>14, <1>15, SettledQuiet

\* Nothing is due in a conversation that has no packets.
LEMMA NothingDue ==
  ASSUME NEW w, Wires(w), NEW v, NEW x \in Side,
         \A y \in Side : \A p \in Of(w[y], v) : Mute(p)
  PROVE  Due(w, x, v) = 0
<1>1. ASSUME NEW y \in Side
      PROVE  Count(w[y], Asks(v)) = 0 /\ Count(w[y], Replies(v)) = 0
  <2>1. w[y] \in Seq(Packets)
    BY DEF Wires
  <2>2. ASSUME NEW i \in 1 .. Len(w[y]) PROVE w[y][i] \notin Asks(v) /\ w[y][i] \notin Replies(v)
    <3>1. CASE w[y][i].conv # v
      BY <3>1 DEF Asks, Replies
    <3>2. CASE w[y][i].conv = v
      <4>1. w[y][i] \in Of(w[y], v)
        BY <3>2 DEF Of
      <4>2. Mute(w[y][i])
        BY <4>1
      <4> QED BY <4>2 DEF Mute, Asks, Replies
    <3> QED BY <3>1, <3>2
  <2> QED BY <2>1, <2>2, CountNone
<1>2. Count(w[x], Asks(v)) = 0 /\ Count(w[TheOtherSide(x)], Replies(v)) = 0
  BY <1>1, TwoSides
<1> QED BY <1>2 DEF Due

\* An accepted channel: its provider waits for nothing.
LEMMA OpenAsked ==
  ASSUME ChannelsInv, NEW l, Answers(l), NEW s \in Side, ChannelOpen(s)
  PROVE  Answers(l)'
<1> DEFINE m == Head(wire[s])
           t == TheOtherSide(s)
<1> PICK v, n : v = m.conv /\ n = m.from
  OBVIOUS
<1>0. /\ FollowedState /\ ChannelsTyped /\ fatal = "no" /\ Wires(wire)
      /\ Marked(wire, flags.replayPhase)
  BY DEF ChannelsInv, ChannelsTyped, Wires, ChannelOpen, Received, Answers
<1>1. t \in Side /\ t # s /\ TheOtherSide(t) = s /\ \A x \in Side : x = s \/ x = t
  BY TwoSides
<1>2. wire[s] # <<>> /\ m.type = "OPEN"
  BY DEF ChannelOpen, Received
<1>3. v \in Cids /\ n \in Nums /\ Asked(channels, ep, wire, v, s, n)
  BY <1>0, <1>2, OpeningHead DEF Starts
<1>4. /\ flags' = [flags EXCEPT !.sendShellEnv = @ \/ m.kind = "session"]
      /\ Deliver(s, t, m)
  BY DEF ChannelOpen
<1>5. /\ seen' = seen /\ awaits' = awaits
      /\ \E p \in Packets :
           /\ wire' = [wire EXCEPT ![s] = Tail(wire[s]), ![t] = Append(wire[t], p)]
           /\ p.conv = v /\ p.to = n
           /\ \/ p.type = "OPENFAIL" /\ ep' = ep
              \/ \E k \in NewNums(t) :
                   /\ p.type = "CONFIRM" /\ p.from = k
                   /\ Becomes(ep, ep', t, k, Provided(v, n))
  BY <1>0, <1>2, <1>3, <1>4, OpenReached
<1>6. PICK p \in Packets :
        /\ wire' = [wire EXCEPT ![s] = Tail(wire[s]), ![t] = Append(wire[t], p)]
        /\ \/ p.type = "OPENFAIL" /\ ep' = ep
           \/ \E k \in NewNums(t) :
                /\ p.type = "CONFIRM"
                /\ Becomes(ep, ep', t, k, Provided(v, n))
  BY <1>5
<1>7. Mute(m) /\ Mute(p) /\ m.type # "CLOSE"
  BY <1>2, <1>6 DEF Mute
<1>8. PICK w1 : w1 = [wire EXCEPT ![s] = Tail(@)]
  OBVIOUS
<1>9. Popped(wire, w1, s) /\ Pushed(w1, wire', t, p)
  <2>1. Popped(wire, w1, s)
    BY <1>2, <1>8 DEF Popped
  <2>2. wire' = [w1 EXCEPT ![t] = Append(@, p)]
    BY <1>0, <1>1, <1>6, <1>8 DEF Wires
  <2> QED BY <2>1, <2>2 DEF Pushed
<1>10. SameDue(wire, wire')
  <2>1. Wires(w1) /\ SameDue(wire, w1)
    BY <1>0, <1>7, <1>9, TakenQuietly
  <2>2. SameDue(w1, wire')
    BY <1>1, <1>7, <1>9, <2>1, SaidQuietly
  <2> QED BY <2>1, <2>2 DEF SameDue
<1>11. /\ Wires(w1) /\ Marked(w1, flags.replayPhase)
       /\ \A x \in Side : \A u : HasClose(wire, x, u) =>
              \/ HasClose(w1, x, u)
              \/ x = s /\ m.type = "CLOSE" /\ u = m.conv
  BY <1>0, <1>9, PopKeeps, PopShape
<1>12. /\ Marked(wire', flags.replayPhase)
       /\ \A x \in Side : \A u : HasClose(w1, x, u) => HasClose(wire', x, u)
  <2>1. MarkedPacket(p, flags.replayPhase)
    BY <1>6 DEF MarkedPacket
  <2> QED BY <1>1, <1>9, <1>11, <2>1, PushKeeps
<1>13. Marked(wire', flags'.replayPhase)
  <2>1. flags \in [noMoreSessions : BOOLEAN, sendShellEnv : BOOLEAN,
                   replayPhase : BOOLEAN, refused : BOOLEAN]
    BY <1>0 DEF ChannelsTyped
  <2>2. flags'.replayPhase = flags.replayPhase
    BY <1>4, <2>1
  <2> QED BY <1>12, <2>2
<1>14. Due(wire, t, v) = 0
  <2>1. \A y \in Side : \A q \in Of(wire[y], v) : Mute(q)
    BY <1>1, <1>3 DEF Asked, Mute
  <2> QED BY <1>0, <1>1, <2>1, NothingDue
<1>15. ASSUME NEW x \in Side, NEW u \in Cids, NEW k \in Ends(ep', x, u)
       PROVE  \/ Follow(ep, wire, ep', wire', x, k, u)
              \/ ep'[x][k].awaits = 0 /\ Due(wire, x, u) = 0
  <2>0. HasClose(wire, TheOtherSide(x), u) => HasClose(wire', TheOtherSide(x), u)
    BY <1>7, <1>11, <1>12, TwoSides
  <2>1. CASE ep' = ep
    BY <2>0, <2>1 DEF Follow, Closing
  <2>2. ASSUME NEW j \in NewNums(t), Becomes(ep, ep', t, j, Provided(v, n))
        PROVE  \/ Follow(ep, wire, ep', wire', x, k, u)
               \/ ep'[x][k].awaits = 0 /\ Due(wire, x, u) = 0
    <3>1. ep \in [Side -> [Nums -> Peers \cup {NoEndpoint}]] /\ j \in Nums
      BY <1>0 DEF ChannelsTyped, NewNums
    <3>2. ep'[x][k] = IF x = t /\ k = j THEN Provided(v, n) ELSE ep[x][k]
      BY <1>1, <2>2, <3>1 DEF Becomes, Ends
    <3>3. CASE x = t /\ k = j
      <4>1. u = v /\ ep'[x][k].awaits = 0
        BY <3>2, <3>3 DEF Ends, Provided
      <4> QED BY <1>14, <3>3, <4>1
    <3>4. CASE ~(x = t /\ k = j)
      <4>1. ep'[x][k] = ep[x][k] /\ k \in Ends(ep, x, u)
        BY <3>2, <3>4 DEF Ends
      <4> QED BY <2>0, <4>1 DEF Follow, Closing
    <3> QED BY <3>3, <3>4
  <2> QED BY <1>6, <2>1, <2>2
<1>16. /\ seen'.unasked = seen.unasked /\ seen.misrouted \subseteq seen'.misrouted
       /\ awaits' = awaits
  BY <1>5
<1> QED BY <1>0, <1>10, <1>13, <1>15, <1>16, QuietKept

----------------------------------------------------------------------------
\* What a peer sends on its own and what asks for nothing.
LEMMA SaidSettled ==
  ASSUME ChannelsInv, NEW l, Answers(l), fatal = "no", UNCHANGED <<awaits, seen, flags>>,
         NEW s \in Side, NEW p, Pushed(wire, wire', s, p), Mute(p),
         MarkedPacket(p, flags.replayPhase), NEW n \in Nums, NEW a, Becomes(ep, ep', s, n, a),
         Settles(a, ep[s][n]) \/ (a.awaits = 0 /\ Due(wire, s, a.conv) = 0)
  PROVE  Answers(l)'
<1>0. ChannelsTyped /\ Wires(wire) /\ Marked(wire, flags.replayPhase)
  BY DEF ChannelsInv, ChannelsTyped, Wires, Answers
<1>1. ep \in [Side -> [Nums -> Peers \cup {NoEndpoint}]]
  BY <1>0 DEF ChannelsTyped
<1>2. \A y \in Side, k \in Nums : ep'[y][k] = IF y = s /\ k = n THEN a ELSE ep[y][k]
  BY <1>1 DEF Becomes
<1>3. SameDue(wire, wire')
  BY <1>0, SaidQuietly
<1>4. /\ Marked(wire', flags.replayPhase)
      /\ \A x \in Side : \A v : HasClose(wire, x, v) => HasClose(wire', x, v)
  BY <1>0, PushKeeps
<1>5. Marked(wire', flags'.replayPhase)
  BY <1>4
<1>6. ASSUME NEW y \in Side, NEW v \in Cids, NEW k \in Ends(ep', y, v)
      PROVE  \/ Follow(ep, wire, ep', wire', y, k, v)
             \/ ep'[y][k].awaits = 0 /\ Due(wire, y, v) = 0
  <2>1. k \in Nums /\ ep'[y][k].conv = v
    BY DEF Ends
  <2>2. ep'[y][k] # NoEndpoint
    BY <2>1 DEF NoEndpoint, Cids
  <2>3. HasClose(wire, TheOtherSide(y), v) => HasClose(wire', TheOtherSide(y), v)
    BY <1>4, TwoSides
  <2>4. CASE y = s /\ k = n /\ ~Settles(a, ep[s][n])
    BY <1>2, <2>1, <2>4
  <2>5. CASE ~(y = s /\ k = n) \/ Settles(a, ep[s][n])
    <3>1. /\ ep[y][k].conv = v /\ ep'[y][k].awaits = ep[y][k].awaits
          /\ ep[y][k].sent => ep'[y][k].sent
          /\ ep[y][k].got => ep'[y][k].got
      BY <1>2, <2>1, <2>2, <2>5 DEF Settles
    <3>2. k \in Ends(ep, y, v)
      BY <2>1, <3>1 DEF Ends
    <3> QED BY <2>3, <3>1, <3>2 DEF Follow, Closing
  <2> QED BY <2>4, <2>5
<1>7. /\ awaits' = awaits /\ seen'.unasked = seen.unasked
      /\ seen.misrouted \subseteq seen'.misrouted
  OBVIOUS
<1> QED BY <1>3, <1>5, <1>6, <1>7, QuietKept

\* An OPEN.
LEMMA PeerOpensAsked ==
  ASSUME ChannelsInv, NEW l, Answers(l), NEW s \in Side, NEW kind \in OpenKinds, PeerOpens(s, kind)
  PROVE  Answers(l)'
<1> PICK v : v = used.opens + 1
  OBVIOUS
<1>0. FollowedState /\ ChannelsTyped /\ fatal = "no" /\ Wires(wire)
  BY DEF ChannelsInv, PeerOpens, ChannelsTyped, Wires
<1>1. PICK n \in NewNums(s) :
        /\ used.opens < MaxOpens
        /\ ep' = [ep EXCEPT ![s][n] = [conv |-> v, own |-> TRUE, sent |-> FALSE,
                                       got |-> FALSE, remote |-> None, awaits |-> 0]]
        /\ wire' = [wire EXCEPT ![s] = Append(@,
                                         [Packet("OPEN", 0, v, kind) EXCEPT !.from = n])]
        /\ UNCHANGED <<flags, awaits, seen>>
  BY DEF PeerOpens, Queue
<1>2. /\ ep \in [Side -> [Nums -> Peers \cup {NoEndpoint}]]
      /\ used \in [opens : 0 .. MaxOpens, sends : Nat]
  BY <1>0 DEF ChannelsTyped
<1>3. v \in Cids /\ v > used.opens /\ n \in Nums
  BY <1>1, <1>2, NumsAssumption DEF Cids, NewNums
<1>4. Free(channels, ep, wire, v)
  BY <1>0, <1>3 DEF FollowedState
<1>5. PICK a : a = [conv |-> v, own |-> TRUE, sent |-> FALSE, got |-> FALSE, remote |-> None,
                    awaits |-> 0]
  OBVIOUS
<1>6. Becomes(ep, ep', s, n, a) /\ a.awaits = 0 /\ a.conv = v
  BY <1>1, <1>2, <1>5 DEF Becomes
<1>7. Due(wire, s, v) = 0
  <2>1. \A y \in Side : \A q \in Of(wire[y], v) : Mute(q)
    BY <1>4 DEF Free
  <2> QED BY <1>0, <2>1, NothingDue
<1>8. PICK m : m = Opening("OPEN", 0, v, kind, n)
  OBVIOUS
<1>9. m \in Packets /\ m.type = "OPEN"
  <2>1. PICK to : to = 0
    OBVIOUS
  <2>2. kind \in Kinds
    BY DEF Kinds
  <2>3. to \in Int
    BY <2>1
  <2>4. \A type \in {"OPEN", "CONFIRM"} :
           /\ Opening(type, to, v, kind, n) \in Packets
           /\ Opening(type, to, v, kind, n).type = type
    BY <1>3, <2>2, <2>3, OpeningMade
  <2> QED BY <1>8, <2>1, <2>4
<1>10. Pushed(wire, wire', s, m)
  BY <1>1, <1>8, <1>9 DEF Opening, Pushed
<1>11. Mute(m) /\ MarkedPacket(m, flags.replayPhase)
  BY <1>9 DEF Mute, MarkedPacket
<1>12. UNCHANGED <<awaits, seen, flags>>
  BY <1>1
<1> QED BY <1>0, <1>3, <1>6, <1>7, <1>10, <1>11, <1>12, SaidSettled

\* A CLOSE.
LEMMA PeerClosesAsked ==
  ASSUME ChannelsInv, NEW l, Answers(l), NEW s \in Side, NEW n \in Nums, PeerCloses(s, n)
  PROVE  Answers(l)'
<1> PICK b : b = ep[s][n]
  OBVIOUS
<1>0. ChannelsTyped /\ fatal = "no"
  BY DEF ChannelsInv, PeerCloses
<1>1. /\ n \in Usable(s)
      /\ ep' = [ep EXCEPT ![s][n] = IF @.got THEN NoEndpoint ELSE [@ EXCEPT !.sent = TRUE]]
      /\ wire' = [wire EXCEPT ![s] = Append(@, Packet("CLOSE", b.remote, b.conv, ""))]
      /\ UNCHANGED <<flags, awaits, seen>>
  BY DEF PeerCloses, Queue
<1>2. ep \in [Side -> [Nums -> Peers \cup {NoEndpoint}]] /\ b \in Peers
  <2>1. ep \in [Side -> [Nums -> Peers \cup {NoEndpoint}]]
    BY <1>0 DEF ChannelsTyped
  <2>2. b # NoEndpoint
    BY <1>1 DEF Usable, Live
  <2> QED BY <2>1, <2>2
<1>3. PICK a : a = IF b.got THEN NoEndpoint ELSE [b EXCEPT !.sent = TRUE]
  OBVIOUS
<1>4. Becomes(ep, ep', s, n, a) /\ Settles(a, b)
  <2>1. Becomes(ep, ep', s, n, a)
    BY <1>1, <1>2, <1>3 DEF Becomes
  <2>2. CASE b.got
    BY <1>3, <2>1, <2>2 DEF Settles
  <2>3. CASE ~b.got
    <3>1. a = [b EXCEPT !.sent = TRUE]
      BY <1>3, <2>3
    <3> QED BY <1>2, <2>1, <3>1 DEF Settles, Peers
  <2> QED BY <2>2, <2>3
<1>5. PICK m : m = Packet("CLOSE", b.remote, b.conv, "")
  OBVIOUS
<1>6. m \in Packets /\ m.type = "CLOSE"
  <2>1. "CLOSE" \in PacketTypes /\ "CLOSE" \notin GlobalTypes /\ "" \in Kinds
    BY DEF PacketTypes, GlobalTypes, Kinds
  <2>2. b.remote \in Int /\ b.conv \in 0 .. MaxOpens /\ b.conv # 0
    BY <1>2, NumsAssumption DEF Peers, Cids
  <2>3. m \in Packets
    BY <1>5, <2>1, <2>2, PacketMade
  <2> QED BY <1>5, <2>3 DEF Packet
<1>7. Pushed(wire, wire', s, m)
  BY <1>1, <1>5, <1>6 DEF Pushed
<1>8. Mute(m) /\ MarkedPacket(m, flags.replayPhase)
  BY <1>6 DEF Mute, MarkedPacket
<1>9. UNCHANGED <<awaits, seen, flags>>
  BY <1>1
<1> QED BY <1>0, <1>4, <1>7, <1>8, <1>9, SaidSettled

\* Data, a window adjustment, EOF or a request: a request that wants a reply is
\* one more to wait for.
LEMMA PeerSendsAsked ==
  ASSUME ChannelsInv, NEW l, Answers(l), NEW s \in Side, NEW want \in BOOLEAN, NEW kind \in Kinds,
         NEW type \in {"DATA", "REQUEST", "WINDOW", "EOF"}, want => type = "REQUEST",
         PeerSends(s, type, kind, want)
  PROVE  Answers(l)'
<1>1. PICK n \in Usable(s) :
         /\ ep' = [ep EXCEPT ![s][n].awaits = IF want THEN @ + 1 ELSE @]
         /\ wire' = [wire EXCEPT ![s] = Append(@,
              [Packet(type, ep[s][n].remote, ep[s][n].conv, kind) EXCEPT !.want = want])]
         /\ fatal = "no" /\ UNCHANGED <<awaits, seen, flags>>
  BY DEF PeerSends, Queue
<1>b. PICK b : b = ep[s][n]
  OBVIOUS
<1>2. /\ ChannelsTyped /\ ep \in [Side -> [Nums -> Peers \cup {NoEndpoint}]] /\ Wires(wire)
      /\ AnswersAsked /\ Ledger(ep, wire, seen) /\ Marked(wire, flags.replayPhase)
  BY <1>1 DEF ChannelsInv, ChannelsTyped, Wires, Answers
<1>3. n \in Nums /\ b \in Peers
  BY <1>2, <1>b DEF Usable, Live
<1>m. PICK m : m = [Packet(type, b.remote, b.conv, kind) EXCEPT !.want = want]
  OBVIOUS
<1>4. m \in Packets /\ m.type = type /\ m.conv = b.conv /\ m.want = want
  <2>1. /\ type \in PacketTypes /\ type \notin GlobalTypes /\ b.remote \in Int
        /\ b.conv \in 0 .. MaxOpens /\ b.conv # 0
    BY <1>3, NumsAssumption DEF PacketTypes, GlobalTypes, Peers, Cids
  <2> QED BY <1>m, <2>1 DEF Packets, Packet, None
<1>5. Pushed(wire, wire', s, m)
  BY <1>1, <1>4, <1>b, <1>m DEF Pushed
<1>6. MarkedPacket(m, flags.replayPhase)
  BY <1>4 DEF MarkedPacket
<1>a. PICK a : a = [b EXCEPT !.awaits = IF want THEN b.awaits + 1 ELSE b.awaits]
  OBVIOUS
<1>7. Becomes(ep, ep', s, n, a)
  BY <1>1, <1>2, <1>3, <1>a, <1>b DEF Becomes
<1>8. CASE ~want
  <2>1. Mute(m) /\ Settles(a, b)
    BY <1>3, <1>4, <1>8, <1>a DEF Mute, Settles, Peers
  <2> QED BY <1>1, <1>3, <1>5, <1>6, <1>7, <1>b, <2>1, SaidSettled
<1>9. CASE want
  <2>v. PICK v : v = b.conv
    OBVIOUS
  <2>1. v \in Cids /\ v = m.conv /\ n \in Ends(ep, s, v)
    BY <1>3, <1>4, <1>b, <2>v DEF Peers, Ends
  <2>2. CountsFor(m, s, s)
    BY <1>4, <1>9 DEF CountsFor, IsAsk
  <2>3. /\ OtherDue(wire, wire', s, v)
        /\ Due(wire', s, v) = Due(wire, s, v) + 1 /\ Due(wire, s, v) \in Nat
    BY <1>2, <1>5, <2>1, <2>2, SaidOne
  <2>4. /\ Marked(wire', flags.replayPhase)
        /\ \A x \in Side : \A u : HasClose(wire, x, u) => HasClose(wire', x, u)
    BY <1>2, <1>5, <1>6, PushKeeps
  <2>5. /\ \A y \in Side, k \in Nums : ep'[y][k] = IF y = s /\ k = n THEN a ELSE ep[y][k]
        /\ a.conv = v /\ a.sent = b.sent /\ a.got = b.got /\ a.awaits = b.awaits + 1
        /\ b.awaits \in Nat
    BY <1>2, <1>3, <1>7, <1>9, <1>a, <2>v DEF Becomes, Peers
  <2>6. ASSUME NEW x \in Side, NEW u \in Cids, NEW k \in Ends(ep', x, u)
        PROVE  /\ k \in Ends(ep, x, u)
               /\ Closing(ep, wire, x, k, u) => Closing(ep', wire', x, k, u)
    <3>1. HasClose(wire, TheOtherSide(x), u) => HasClose(wire', TheOtherSide(x), u)
      BY <2>4, TwoSides
    <3>2. /\ k \in Nums /\ ep[x][k].conv = u
          /\ ep'[x][k].sent = ep[x][k].sent /\ ep'[x][k].got = ep[x][k].got
      BY <1>b, <2>5, <2>6, <2>v DEF Ends
    <3> QED BY <3>1, <3>2 DEF Closing, Ends
  <2>7. ASSUME NEW x \in Side, NEW u \in Cids, NEW k \in Ends(ep', x, u), x # s \/ u # v
        PROVE  Follow(ep, wire, ep', wire', x, k, u)
    <3>1. k \in Ends(ep, x, u) /\ k \in Nums
      BY <2>6, <2>7 DEF Ends
    <3>2. ep'[x][k] = ep[x][k]
      BY <2>1, <2>5, <2>7, <3>1 DEF Ends
    <3> QED BY <2>6, <2>7, <3>1, <3>2 DEF Follow
  <2>8. ASSUME NEW k \in Ends(ep', s, v) PROVE Balanced(ep', wire', seen', s, k, v)
    <3>1. k \in Ends(ep, s, v) /\ (Closing(ep, wire, s, k, v) => Closing(ep', wire', s, k, v))
      BY <2>1, <2>6, <2>8
    <3>2. Conversation(channels, ep, wire, v)
      BY <1>1, <2>1 DEF ChannelsInv, FollowedState, Settled
    <3>3. k = n
      BY <2>1, <3>1, <3>2, OneEnd
    <3>4. Balanced(ep, wire, seen, s, k, v)
      BY <1>2, <2>1, <3>1 DEF Ledger
    <3>5. ep[s][k].awaits = b.awaits /\ ep'[s][k].awaits = b.awaits + 1
      BY <1>3, <1>b, <2>5, <3>3
    <3>6. /\ Due(wire, s, v) <= ep[s][k].awaits => Due(wire', s, v) <= ep'[s][k].awaits
          /\ ep[s][k].awaits <= Due(wire, s, v) => ep'[s][k].awaits <= Due(wire', s, v)
      BY <2>3, <2>5, <3>5
    <3>7. seen' = seen
      BY <1>1
    <3> QED BY <3>1, <3>4, <3>6, <3>7 DEF Balanced
  <2>9. /\ awaits' = awaits /\ seen.unasked \subseteq seen'.unasked
        /\ seen.misrouted \subseteq seen'.misrouted /\ seen'.unasked = seen.unasked
        /\ Marked(wire', flags'.replayPhase)
    BY <1>1, <2>4
  <2>10. AnswersAsked'
    BY <1>2, <2>9, AskedStays
  <2>11. fatal = "no" /\ v \in Cids /\ OtherDue(wire, wire', s, v)
    BY <1>1, <2>1, <2>3
  <2> QED BY <2>7, <2>8, <2>9, <2>10, <2>11, AccountKept
<1> QED BY <1>8, <1>9

----------------------------------------------------------------------------
\* Steps about global requests leave the accounts of the channels.
LEMMA GlobalAccountKept ==
  ASSUME NEW l, Answers(l), fatal = "no", ep' = ep, NEW y \in Side, OtherDue(wire, wire', y, 0),
         seen.unasked \subseteq seen'.unasked, seen'.misrouted = seen.misrouted,
         AnswersAsked', Marked(wire', flags'.replayPhase),
         GlobalLedger(awaits', wire', seen', l),
         \A x \in Side : \A v \in Cids : HasClose(wire, x, v) => HasClose(wire', x, v)
  PROVE  Answers(l)'
<1>1. Ledger(ep, wire, seen)
  BY DEF Answers
<1>2. ASSUME NEW x \in Side, NEW u \in Cids, NEW n \in Ends(ep', x, u)
      PROVE  Balanced(ep', wire', seen', x, n, u)
  <2>1. Due(wire', x, u) = Due(wire, x, u)
    <3>1. u # 0
      BY DEF Cids
    <3> QED BY <3>1 DEF OtherDue
  <2>2. HasClose(wire, TheOtherSide(x), u) => HasClose(wire', TheOtherSide(x), u)
    BY TwoSides
  <2>3. n \in Ends(ep, x, u) /\ Follow(ep, wire, ep', wire', x, n, u)
    BY <2>2 DEF Follow, Closing
  <2>4. Balanced(ep, wire, seen, x, n, u)
    BY <1>1, <2>3 DEF Ledger
  <2> QED BY <2>1, <2>3, <2>4, StaysBalanced
<1>3. Ledger(ep', wire', seen')
  BY <1>2 DEF Ledger
<1> QED BY <1>3 DEF Answers

\* A global request or an answer to one is taken, and t is answered.  Only the
\* refusal of a request that wanted no reply is an answer too many.
LEMMA GlobalTaken ==
  ASSUME ChannelsInv, NEW l, Answers(l), fatal = "no", ep' = ep, flags' = flags,
         NEW s \in Side, Popped(wire, wire', s), Head(wire[s]).type \in GlobalTypes,
         NEW t \in Side, NEW due \in BOOLEAN, NEW why, GlobalAnswer(t, due, why),
         \/ due /\ CountsFor(Head(wire[s]), s, t)
         \/ ~due /\ Mute(Head(wire[s])) /\ <<"GLOBAL", why>> \in Denials
  PROVE  Answers(l)'
<1> DEFINE m == Head(wire[s])
<1>0. /\ Wires(wire) /\ Marked(wire, flags.replayPhase) /\ AnswersAsked
      /\ GlobalLedger(awaits, wire, seen, l) /\ awaits \in [Side -> Nat]
      /\ seen = [misrouted |-> seen.misrouted, unasked |-> seen.unasked, env |-> seen.env]
  BY DEF ChannelsInv, ChannelsTyped, Wires, Answers
<1>1. m.conv = 0 /\ m.type # "CLOSE"
  <2>1. m \in Packets
    BY <1>0, PopShape
  <2>2. m.conv = 0
    BY <2>1 DEF Packets
  <2> QED BY <2>2 DEF GlobalTypes
<1>2. /\ Marked(wire', flags'.replayPhase)
      /\ \A x \in Side : \A v \in Cids : HasClose(wire, x, v) => HasClose(wire', x, v)
  <2>1. /\ Marked(wire', flags.replayPhase)
        /\ \A x \in Side : \A v : HasClose(wire, x, v) =>
              \/ HasClose(wire', x, v)
              \/ x = s /\ m.type = "CLOSE" /\ v = m.conv
    BY <1>0, PopKeeps
  <2> QED BY <1>1, <2>1
<1>3. /\ awaits'[t] = IF awaits[t] > 0 THEN awaits[t] - 1 ELSE 0
      /\ \A x \in Side : x # t => awaits'[x] = awaits[x]
  BY <1>0 DEF GlobalAnswer
<1>4. /\ seen'.misrouted = seen.misrouted
      /\ seen'.unasked = IF awaits[t] > 0 /\ due THEN seen.unasked
                         ELSE seen.unasked \cup {<<"GLOBAL", why>>}
  <2>1. seen' = [seen EXCEPT !.unasked = IF awaits[t] > 0 /\ due THEN @
                                         ELSE @ \cup {<<"GLOBAL", why>>}]
    BY DEF GlobalAnswer
  <2> QED BY <1>0, <2>1
<1>5. seen.unasked \subseteq seen'.unasked
  BY <1>4
<1>6. OtherDue(wire, wire', t, 0)
  <2>1. CASE CountsFor(m, s, t)
    BY <1>0, <1>1, <2>1, TakenOne
  <2>2. CASE Mute(m)
    <3>1. SameDue(wire, wire')
      BY <1>0, <2>2, TakenQuietly
    <3> QED BY <3>1 DEF SameDue, OtherDue
  <2> QED BY <2>1, <2>2
<1>7. l \/ \A x \in Side : awaits'[x] <= Due(wire', x, 0)
  <2> SUFFICES ASSUME ~l PROVE \A x \in Side : awaits'[x] <= Due(wire', x, 0)
    OBVIOUS
  <2>1. \A x \in Side : awaits[x] <= Due(wire, x, 0)
    BY <1>0 DEF GlobalLedger
  <2>2. awaits[t] \in Nat /\ awaits[t] <= Due(wire, t, 0)
    BY <1>0, <2>1
  <2>3. awaits'[t] <= Due(wire', t, 0)
    <3>1. CASE CountsFor(m, s, t)
      <4>1. Due(wire, t, 0) = Due(wire', t, 0) + 1 /\ Due(wire', t, 0) \in Nat
        BY <1>0, <1>1, <3>1, TakenOne
      <4> QED BY <1>3, <2>2, <4>1
    <3>2. CASE Mute(m)
      <4>1. SameDue(wire, wire')
        BY <1>0, <3>2, TakenQuietly
      <4>2. Due(wire', t, 0) = Due(wire, t, 0) /\ Due(wire, t, 0) \in Nat
        BY <1>0, <4>1, DueNat DEF SameDue
      <4> QED BY <1>3, <2>2, <4>2
    <3> QED BY <3>1, <3>2
  <2> QED BY <1>3, <1>6, <2>1, <2>3 DEF OtherDue
<1>8. \/ seen'.unasked \cap Denials # {}
      \/ /\ \A x \in Side : Due(wire', x, 0) <= awaits'[x]
         /\ seen'.unasked = seen.unasked
  <2> SUFFICES ASSUME seen'.unasked \cap Denials = {}
               PROVE  /\ \A x \in Side : Due(wire', x, 0) <= awaits'[x]
                      /\ seen'.unasked = seen.unasked
    OBVIOUS
  <2>1. seen.unasked \cap Denials = {}
    BY <1>5
  <2>2. \A x \in Side : Due(wire, x, 0) <= awaits[x]
    BY <1>0, <2>1 DEF GlobalLedger
  <2>3. due /\ CountsFor(m, s, t)
    BY <1>4
  <2>4. Due(wire, t, 0) = Due(wire', t, 0) + 1 /\ Due(wire', t, 0) \in Nat
    BY <1>0, <1>1, <2>3, TakenOne
  <2>5. Due(wire, t, 0) <= awaits[t] /\ awaits[t] \in Nat
    BY <1>0, <2>2
  <2>6. awaits[t] > 0 /\ Due(wire', t, 0) <= awaits'[t]
    BY <1>3, <2>4, <2>5
  <2>7. seen'.unasked = seen.unasked
    BY <1>4, <2>3, <2>6
  <2>8. \A x \in Side : Due(wire', x, 0) <= awaits'[x]
    BY <1>3, <1>6, <2>2, <2>6 DEF OtherDue
  <2> QED BY <2>7, <2>8
<1>9. GlobalLedger(awaits', wire', seen', l)
  BY <1>7, <1>8 DEF GlobalLedger
<1>10. AnswersAsked'
  <2>1. CASE seen'.unasked = seen.unasked
    BY <1>0, <2>1, AskedStays
  <2>2. CASE /\ seen'.unasked = seen.unasked \cup {<<"GLOBAL", why>>}
             /\ seen'.unasked \cap Denials # {}
    <3>1. <<"GLOBAL", why>>[1] = "GLOBAL"
      OBVIOUS
    <3> QED BY <1>0, <2>2, <3>1, AskedMore
  <2> QED BY <1>4, <1>8, <2>1, <2>2
<1> QED BY <1>2, <1>4, <1>5, <1>6, <1>9, <1>10, GlobalAccountKept

\* Global requests the gateway answers itself, and answers it forwards.
LEMMA GlobalAnswersAsked ==
  ASSUME ChannelsInv, NEW l, Answers(l), NEW s \in Side,
         \/ GlobalRequestRejected(s) \/ ProveHostkeys(s)
         \/ RequestSuccess(s) \/ RequestFailure(s)
  PROVE  Answers(l)'
<1> DEFINE m == Head(wire[s])
           t == TheOtherSide(s)
<1>0. /\ fatal = "no" /\ Popped(wire, wire', s) /\ ep' = ep /\ flags' = flags
      /\ m.type \in GlobalTypes
  BY DEF GlobalRequestRejected, ProveHostkeys, RequestSuccess, RequestFailure, Received, Popped,
         GlobalTypes
<1>1. Wires(wire) /\ Marked(wire, flags.replayPhase) /\ t \in Side
  BY <1>0, TwoSides DEF ChannelsInv, ChannelsTyped, Wires, Answers
<1>2. MarkedPacket(m, flags.replayPhase) /\ m \in Packets
  BY <1>0, <1>1, PopKeeps, PopShape
<1>3. m.want \in BOOLEAN
  BY <1>2 DEF Packets
<1>4. CASE GlobalRequestRejected(s)
  <2>1. /\ m.type = "GLOBAL" /\ m.kind \in {"denied", "hostkeys", "hostkeys-prove"}
        /\ GlobalAnswer(s, m.want, m.kind)
    BY <1>4 DEF GlobalRequestRejected, Received
  <2>2. m.want => CountsFor(m, s, s)
    BY <2>1 DEF CountsFor, IsAsk
  <2>3. ~m.want => Mute(m) /\ <<"GLOBAL", m.kind>> \in Denials
    BY <1>2, <2>1 DEF Mute, Denials, MarkedPacket
  <2>4. PICK due \in BOOLEAN, why \in {"denied", "hostkeys", "hostkeys-prove"} : due = m.want /\ why = m.kind
    BY <1>3, <2>1
  <2>5. /\ GlobalAnswer(s, due, why)
        /\ \/ due /\ CountsFor(m, s, s)
           \/ ~due /\ Mute(m) /\ <<"GLOBAL", why>> \in Denials
    BY <2>1, <2>2, <2>3, <2>4
  <2> QED BY <1>0, <2>5, GlobalTaken
<1>5. CASE ProveHostkeys(s)
  <2>1. m.type = "GLOBAL" /\ m.kind = "hostkeys-prove" /\ GlobalAnswer(s, TRUE, "hostkeys-prove")
    BY <1>5 DEF ProveHostkeys, Received
  <2>2. CountsFor(m, s, s)
    BY <1>2, <2>1 DEF CountsFor, IsAsk, MarkedPacket
  <2> QED BY <1>0, <2>1, <2>2, GlobalTaken
<1>6. CASE RequestSuccess(s) \/ RequestFailure(s)
  <2>1. m.type \in {"GSUCCESS", "GFAILURE"} /\ GlobalAnswer(t, TRUE, "answer")
    BY <1>6 DEF RequestSuccess, RequestFailure, Received
  <2>2. CountsFor(m, s, t)
    BY <1>2, <2>1 DEF CountsFor, IsReply, MarkedPacket
  <2> QED BY <1>0, <1>1, <2>1, <2>2, GlobalTaken
<1> QED BY <1>4, <1>5, <1>6

\* An answer the gateway swallows: the peer that waits for it is owed more than
\* it will get.
LEMMA DroppedAsked ==
  ASSUME ChannelsInv, NEW l, Answers(l), NEW s \in Side, RequestSuccessDropped(s)
  PROVE  Answers(TRUE)'
<1> DEFINE m == Head(wire[s])
           t == TheOtherSide(s)
<1>0. /\ fatal = "no" /\ Popped(wire, wire', s) /\ m.type = "GSUCCESS"
      /\ UNCHANGED <<flags, ep, seen, awaits>>
  BY DEF RequestSuccessDropped, Received, Drop, Popped
<1>1. /\ Wires(wire) /\ Marked(wire, flags.replayPhase) /\ t \in Side /\ awaits \in [Side -> Nat]
      /\ GlobalLedger(awaits, wire, seen, l) /\ AnswersAsked
  BY <1>0, TwoSides DEF ChannelsInv, ChannelsTyped, Wires, Answers
<1>2. MarkedPacket(m, flags.replayPhase) /\ m \in Packets
  BY <1>0, <1>1, PopKeeps, PopShape
<1>3. m.conv = 0 /\ CountsFor(m, s, t)
  <2>1. m.conv = 0
    BY <1>0, <1>2 DEF Packets, GlobalTypes
  <2>2. CountsFor(m, s, t)
    BY <1>0, <1>2 DEF CountsFor, IsReply, MarkedPacket
  <2> QED BY <2>1, <2>2
<1>4. /\ OtherDue(wire, wire', t, 0)
      /\ Due(wire, t, 0) = Due(wire', t, 0) + 1 /\ Due(wire', t, 0) \in Nat
  BY <1>0, <1>1, <1>3, TakenOne
<1>5. /\ Marked(wire', flags'.replayPhase)
      /\ \A x \in Side : \A v \in Cids : HasClose(wire, x, v) => HasClose(wire', x, v)
  <2>1. /\ Marked(wire', flags.replayPhase)
        /\ \A x \in Side : \A v : HasClose(wire, x, v) =>
              \/ HasClose(wire', x, v)
              \/ x = s /\ m.type = "CLOSE" /\ v = m.conv
    BY <1>0, <1>1, PopKeeps
  <2> QED BY <1>0, <2>1
<1>6. ASSUME \A x \in Side : Due(wire, x, 0) <= awaits[x]
      PROVE  \A x \in Side : Due(wire', x, 0) <= awaits[x]
  <2>1. Due(wire, t, 0) <= awaits[t] /\ awaits[t] \in Nat
    BY <1>1, <1>6
  <2>2. Due(wire', t, 0) <= awaits[t]
    BY <1>4, <2>1
  <2> QED BY <1>4, <1>6, <2>2 DEF OtherDue
<1>7. GlobalLedger(awaits', wire', seen', TRUE)
  BY <1>0, <1>1, <1>6 DEF GlobalLedger
<1>8. Answers(TRUE)
  BY DEF Answers, GlobalLedger
<1>9. AnswersAsked'
  BY <1>0, <1>1, AskedStays
<1>10. /\ seen.unasked \subseteq seen'.unasked /\ seen'.misrouted = seen.misrouted /\ ep' = ep
  BY <1>0
<1> QED BY <1>0, <1>1, <1>4, <1>5, <1>7, <1>8, <1>9, <1>10, GlobalAccountKept

\* A forwarded global request: the other peer replies if it is asked to.
LEMMA GlobalRequestAsked ==
  ASSUME ChannelsInv, NEW l, Answers(l), NEW s \in Side, GlobalRequest(s)
  PROVE  Answers(l)'
<1> DEFINE m == Head(wire[s])
           t == TheOtherSide(s)
<1>0. /\ ChannelsTyped /\ t \in Side /\ t # s
      /\ fatal = "no" /\ wire[s] # <<>> /\ m.type = "GLOBAL" /\ Deliver(s, t, m)
  BY TwoSides DEF ChannelsInv, GlobalRequest, Received
<1>1. /\ Wires(wire) /\ Marked(wire, flags.replayPhase) /\ AnswersAsked
      /\ GlobalLedger(awaits, wire, seen, l)
  BY <1>0 DEF ChannelsTyped, Wires, Answers
<1>2. flags'.replayPhase = flags.replayPhase
  <2>1. flags \in [noMoreSessions : BOOLEAN, sendShellEnv : BOOLEAN,
                   replayPhase : BOOLEAN, refused : BOOLEAN]
    BY <1>0 DEF ChannelsTyped
  <2>2. flags' = [flags EXCEPT !.noMoreSessions = @ \/ m.kind = "no-more-sessions"]
    BY DEF GlobalRequest
  <2> QED BY <2>1, <2>2
<1>3. PICK r \in Reactions(t, m) :
        /\ ep' = [ep EXCEPT ![t] = r.ep]
        /\ wire' = [[wire EXCEPT ![s] = Tail(@)] EXCEPT ![t] = @ \o r.out]
        /\ seen' = Merge(seen, r.seen)
        /\ UNCHANGED awaits
  BY <1>0 DEF Deliver
<1>4. /\ ep \in [Side -> [Nums -> Peers \cup {NoEndpoint}]]
      /\ seen = [misrouted |-> seen.misrouted, unasked |-> seen.unasked, env |-> seen.env]
  BY <1>0 DEF ChannelsTyped
<1>5. r.ep = ep[t] /\ r.seen = Nothing /\ GlobalReply(m, r.out)
  BY <1>0, GlobalReacts
<1>6. ep' = ep
  BY <1>0, <1>3, <1>4, <1>5
<1>7. seen' = seen
  <2>1. r.seen = Nothing => seen' = seen
    BY <1>3, <1>4 DEF Merge, Nothing
  <2> QED BY <1>5, <2>1
<1>8. PICK w1 : w1 = [wire EXCEPT ![s] = Tail(@)]
  OBVIOUS
<1>9. Popped(wire, w1, s)
  BY <1>0, <1>8 DEF Popped
<1>10. /\ Wires(w1) /\ Marked(w1, flags.replayPhase) /\ m \in Packets
       /\ \A x \in Side : \A u : HasClose(wire, x, u) =>
              \/ HasClose(w1, x, u)
              \/ x = s /\ m.type = "CLOSE" /\ u = m.conv
  BY <1>1, <1>9, PopKeeps, PopShape
<1>11. m.conv = 0 /\ w1[t] = wire[t] /\ wire[t] \in Seq(Packets)
  <2>1. m.type \in GlobalTypes
    BY <1>0 DEF GlobalTypes
  <2>2. m.conv = 0
    BY <1>10, <2>1 DEF Packets
  <2> QED BY <1>0, <1>1, <1>8, <2>2 DEF Wires
<1>12. CASE ~m.want
  <2>1. wire' = w1
    <3>1. wire[t] \o <<>> = wire[t]
      BY <1>11
    <3>2. r.out = <<>>
      BY <1>5, <1>12 DEF GlobalReply
    <3> QED BY <1>0, <1>1, <1>3, <1>8, <3>1, <3>2 DEF Wires
  <2>2. Mute(m) /\ m.type # "CLOSE"
    BY <1>0, <1>12 DEF Mute
  <2>3. Popped(wire, wire', s) /\ UNCHANGED <<ep, seen, awaits>>
    BY <1>3, <1>6, <1>7, <1>9, <2>1
  <2> QED BY <1>0, <1>2, <2>2, <2>3, DropQuiet
<1>13. CASE m.want
  <2>1. PICK a \in {"GSUCCESS", "GFAILURE"}, k \in {"", "port"} :
           r.out = <<Packet(a, None, 0, k)>>
    BY <1>5, <1>13 DEF GlobalReply
  <2>2. PICK p : p = Packet(a, None, 0, k)
    OBVIOUS
  <2>3. p \in Packets /\ p.type = a /\ p.conv = 0 /\ p.kind = k
    <3>1. p \in Packets
      BY <2>2, GlobalReplyMade
    <3> QED BY <2>2, <3>1 DEF Packet
  <2>4. Pushed(w1, wire', t, p)
    <3>1. wire[t] \o <<p>> = Append(wire[t], p)
      BY <1>11, <2>3, OneAppended
    <3>2. r.out = <<p>>
      BY <2>1, <2>2
    <3>3. wire' = [w1 EXCEPT ![t] = @ \o r.out]
      BY <1>3, <1>8
    <3>4. w1[t] \o r.out = Append(w1[t], p)
      BY <1>11, <3>1, <3>2
    <3> QED BY <2>3, <3>3, <3>4 DEF Pushed
  <2>5. IsAsk(m) /\ IsReply(p) /\ p.conv = m.conv /\ MarkedPacket(p, flags.replayPhase)
    BY <1>0, <1>11, <1>13, <2>3 DEF IsAsk, IsReply, MarkedPacket
  <2>6. SameDue(wire, wire')
    BY <1>1, <1>9, <2>4, <2>5, PassedOn
  <2>7. /\ Marked(wire', flags.replayPhase)
        /\ \A x \in Side : \A u : HasClose(w1, x, u) => HasClose(wire', x, u)
    BY <1>0, <1>10, <2>4, <2>5, PushKeeps
  <2>8. \A x \in Side : \A u \in Cids : HasClose(wire, x, u) => HasClose(wire', x, u)
    BY <1>0, <1>10, <2>7
  <2>9. OtherDue(wire, wire', s, 0) /\ GlobalLedger(awaits', wire', seen', l)
    BY <1>1, <1>3, <1>7, <2>6, GlobalStays DEF SameDue, OtherDue
  <2>10. AnswersAsked' /\ Marked(wire', flags'.replayPhase)
    BY <1>1, <1>2, <1>7, <2>7, AskedStays
  <2> QED BY <1>0, <1>6, <1>7, <2>8, <2>9, <2>10, GlobalAccountKept
<1> QED BY <1>12, <1>13

\* A peer sends a global request.
LEMMA PeerGlobalAsked ==
  ASSUME ChannelsInv, NEW l, Answers(l), NEW g \in Globals, PeerSendsGlobal(g)
  PROVE  Answers(l)'
<1>s. PICK s, want, kind : s = g[1] /\ want = g[3] /\ kind = g[2]
  OBVIOUS
<1>0. /\ s \in Side /\ want \in BOOLEAN /\ kind \in Kinds /\ (kind = "hostkeys-prove" => want)
  BY <1>s, SendsAssumption DEF Kinds
<1>m. PICK m : m = [Packet("GLOBAL", None, 0, kind) EXCEPT !.want = want]
  OBVIOUS
<1>1. /\ fatal = "no"
      /\ awaits' = [awaits EXCEPT ![s] = IF want THEN @ + 1 ELSE @]
      /\ wire' = [wire EXCEPT ![s] = Append(@, m)]
      /\ UNCHANGED <<flags, ep, seen>>
  BY <1>s, <1>m DEF PeerSendsGlobal, Queue
<1>2. /\ Wires(wire) /\ Marked(wire, flags.replayPhase) /\ AnswersAsked
      /\ GlobalLedger(awaits, wire, seen, l) /\ awaits \in [Side -> Nat]
  BY <1>1 DEF ChannelsInv, ChannelsTyped, Wires, Answers
<1>3. m \in Packets /\ m.type = "GLOBAL" /\ m.conv = 0 /\ m.want = want /\ m.kind = kind
  BY <1>0, <1>m, NumsAssumption DEF Packets, Packet, PacketTypes, GlobalTypes, None
<1>4. Pushed(wire, wire', s, m) /\ MarkedPacket(m, flags.replayPhase)
  BY <1>0, <1>1, <1>3 DEF Pushed, MarkedPacket
<1>5. /\ Marked(wire', flags.replayPhase)
      /\ \A x \in Side : \A u : HasClose(wire, x, u) => HasClose(wire', x, u)
  BY <1>0, <1>2, <1>4, PushKeeps
<1>6. OtherDue(wire, wire', s, 0) /\ GlobalLedger(awaits', wire', seen', l)
  <2>1. CASE want
    <3>1. CountsFor(m, s, s)
      BY <1>3, <2>1 DEF CountsFor, IsAsk
    <3>2. /\ OtherDue(wire, wire', s, 0)
          /\ Due(wire', s, 0) = Due(wire, s, 0) + 1 /\ Due(wire, s, 0) \in Nat
      BY <1>0, <1>2, <1>3, <1>4, <3>1, SaidOne
    <3>3. /\ awaits'[s] = awaits[s] + 1
          /\ \A x \in Side : x # s => awaits'[x] = awaits[x]
      BY <1>0, <1>1, <1>2, <2>1
    <3>4. ASSUME \A x \in Side : Due(wire, x, 0) <= awaits[x]
          PROVE  \A x \in Side : Due(wire', x, 0) <= awaits'[x]
      <4>1. Due(wire, s, 0) <= awaits[s] /\ awaits[s] \in Nat
        BY <1>0, <1>2, <3>4
      <4>2. Due(wire', s, 0) <= awaits'[s]
        BY <3>2, <3>3, <4>1
      <4> QED BY <1>0, <3>2, <3>3, <3>4, <4>2 DEF OtherDue
    <3>5. ASSUME \A x \in Side : awaits[x] <= Due(wire, x, 0)
          PROVE  \A x \in Side : awaits'[x] <= Due(wire', x, 0)
      <4>1. awaits[s] <= Due(wire, s, 0) /\ awaits[s] \in Nat
        BY <1>0, <1>2, <3>5
      <4>2. awaits'[s] <= Due(wire', s, 0)
        BY <3>2, <3>3, <4>1
      <4> QED BY <1>0, <3>2, <3>3, <3>5, <4>2 DEF OtherDue
    <3>6. GlobalLedger(awaits', wire', seen', l)
      BY <1>1, <1>2, <3>4, <3>5 DEF GlobalLedger
    <3> QED BY <3>2, <3>6
  <2>2. CASE ~want
    <3>1. Mute(m)
      BY <1>3, <2>2 DEF Mute
    <3>2. SameDue(wire, wire')
      BY <1>0, <1>2, <1>4, <3>1, SaidQuietly
    <3>3. awaits' = awaits
      BY <1>0, <1>1, <1>2, <2>2
    <3>4. /\ \A x \in Side : Due(wire', x, 0) = Due(wire, x, 0)
          /\ OtherDue(wire, wire', s, 0)
      BY <3>2 DEF SameDue, OtherDue
    <3>5. GlobalLedger(awaits', wire', seen, l)
      BY <1>2, <3>3, <3>4, GlobalStays
    <3> QED BY <1>1, <3>4, <3>5
  <2> QED BY <1>0, <2>1, <2>2
<1>7. AnswersAsked' /\ Marked(wire', flags'.replayPhase)
  BY <1>1, <1>2, <1>5, AskedStays
<1>8. /\ seen.unasked \subseteq seen'.unasked /\ seen'.misrouted = seen.misrouted
      /\ ep' = ep /\ fatal = "no"
      /\ \A x \in Side : \A v \in Cids : HasClose(wire, x, v) => HasClose(wire', x, v)
  BY <1>1, <1>5
<1> QED BY <1>0, <1>6, <1>7, <1>8, GlobalAccountKept

----------------------------------------------------------------------------
\* At the start the answers to the replayed requests are under way, and behind
\* them that to the replayed port forward.
LEMMA StartBase ==
  ASSUME NEW agent \in BOOLEAN, NEW forward \in BOOLEAN, NEW n \in Nums, NEW len \in Nat,
         StartsWith(agent, forward, n, len), NEW replay
  PROVE  \E w : /\ Wires(w) /\ Marked(w, replay)
                /\ \A x \in Side : \A v : \A p \in Of(w[x], v) : Mute(p)
                /\ ~forward => wire = w
                /\ forward => Pushed(w, wire, TARGET, Granted)
<1>0. PICK q, g : q = Replay /\ g = Granted /\ q \in Packets /\ g \in Packets
  BY StartPackets
<1>1. q.type = "SUCCESS" /\ q.kind = "replayed" /\ ~q.want
  BY <1>0, StartPackets
<1>2. PICK r : r = [i \in 1 .. len |-> q]
  OBVIOUS
<1>3. r \in Seq(Packets) /\ Len(r) = len /\ \A j \in 1 .. len : r[j] = q
  <2>1. [i \in 1 .. len |-> q] \in Seq(Packets) /\ Len([i \in 1 .. len |-> q]) = len
    BY <1>0
  <2> QED BY <1>2, <2>1
<1>4. <<>> \in Seq(Packets) /\ Len(<<>>) = 0
  OBVIOUS
<1> DEFINE w == [s \in Side |-> IF s = CLIENT THEN <<>> ELSE r]
<1>5. Wires(w)
  BY <1>3, <1>4 DEF Wires
<1>6. \A x \in Side : \A j \in 1 .. Len(w[x]) : w[x][j] = q
  <2>1. \A x \in Side : w[x] = <<>> \/ w[x] = r
    OBVIOUS
  <2> QED BY <1>3, <1>4, <2>1
<1>7. Mute(q) /\ MarkedPacket(q, replay)
  BY <1>1 DEF Mute, MarkedPacket
<1>8. Marked(w, replay)
  BY <1>6, <1>7 DEF Marked, MarkedWire
<1>9. \A x \in Side : \A v : \A p \in Of(w[x], v) : Mute(p)
  BY <1>6, <1>7 DEF Of
<1>10. /\ wire = [s \in Side |-> IF s = CLIENT THEN <<>> ELSE AnswersAtStart(len, forward)]
       /\ AnswersAtStart(len, forward) = IF forward THEN Append(r, g) ELSE r
  BY <1>0, <1>2 DEF StartsWith, AnswersAtStart
<1>11. ~forward => wire = w
  BY <1>10
<1>12. forward => wire = [w EXCEPT ![TARGET] = Append(@, g)]
  <2>1. TARGET \in Side /\ TARGET # CLIENT /\ w[TARGET] = r
        /\ \A x \in Side : x # TARGET => x = CLIENT
    BY DEF Side, CLIENT, TARGET
  <2> QED BY <1>10, <2>1
<1>13. forward => Pushed(w, wire, TARGET, Granted)
  BY <1>0, <1>12 DEF Pushed
<1> HIDE DEF w
<1> QED BY <1>5, <1>8, <1>9, <1>11, <1>13

\* No peer waits for an answer on a channel at the start.
LEMMA StartAwaits ==
  ASSUME NEW agent \in BOOLEAN, NEW forward \in BOOLEAN, NEW n \in Nums, NEW len \in Nat,
         StartsWith(agent, forward, n, len),
         NEW x \in Side, NEW v \in Cids, NEW k \in Ends(ep, x, v)
  PROVE  ep[x][k].awaits = 0
<1>1. agent /\ k = n
  <2>1. Ends(ep, x, v) = IF agent /\ v = 1 THEN {n} ELSE {}
    BY InitialTable
  <2> QED BY <2>1
<1>2. PICK a, b : ep[x][k] = [conv |-> 1, own |-> a, sent |-> FALSE, got |-> FALSE,
                              remote |-> b, awaits |-> 0]
  BY <1>1 DEF StartsWith
<1> QED BY <1>2

\* The answers balance at the start.
LEMMA AnswersStart ==
  ASSUME ChannelsInit
  PROVE  AnswersInv
<1>1. PICK agent \in BOOLEAN, forward \in BOOLEAN, n \in Nums, len \in Nat :
        StartsWith(agent, forward, n, len)
  BY InitialCases
<1>2. PICK w : /\ Wires(w) /\ Marked(w, flags.replayPhase)
               /\ \A x \in Side : \A v : \A p \in Of(w[x], v) : Mute(p)
               /\ ~forward => wire = w
               /\ forward => Pushed(w, wire, TARGET, Granted)
  BY <1>1, StartBase
<1>3. \A x \in Side : \A v : Due(w, x, v) = 0
  BY <1>2, NothingDue
<1>4. CLIENT \in Side /\ TARGET \in Side /\ TheOtherSide(TARGET) = CLIENT /\ CLIENT # TARGET
  BY DEF Side, CLIENT, TARGET, TheOtherSide
<1>5. \A x \in Side : \A v : Due(wire, x, v) = IF forward /\ x = CLIENT /\ v = 0 THEN 1 ELSE 0
  <2>1. CASE forward
    <3>1. CountsFor(Granted, TARGET, CLIENT) /\ Granted.conv = 0
      <4>1. PICK g : g = Granted
        OBVIOUS
      <4>2. g.type = "GSUCCESS" /\ g.kind = "" /\ g.conv = 0
        BY <4>1, StartPackets
      <4>3. IsReply(g)
        BY <4>2 DEF IsReply
      <4> QED BY <1>4, <4>1, <4>2, <4>3 DEF CountsFor
    <3>2. OtherDue(w, wire, CLIENT, 0) /\ Due(wire, CLIENT, 0) = Due(w, CLIENT, 0) + 1
      BY <1>2, <1>4, <2>1, <3>1, SaidOne
    <3>3. Due(wire, CLIENT, 0) = 1
      BY <1>3, <1>4, <3>2
    <3> QED BY <1>3, <2>1, <3>2, <3>3 DEF OtherDue
  <2>2. CASE ~forward
    BY <1>2, <1>3, <2>2
  <2> QED BY <2>1, <2>2
<1>6. Ledger(ep, wire, seen)
  <2> SUFFICES ASSUME NEW x \in Side, NEW v \in Cids, NEW k \in Ends(ep, x, v)
               PROVE  Balanced(ep, wire, seen, x, k, v)
    BY DEF Ledger
  <2>1. ep[x][k].awaits = 0
    BY <1>1, StartAwaits
  <2>2. Due(wire, x, v) = 0
    <3>1. v # 0
      BY DEF Cids
    <3> QED BY <1>5, <3>1
  <2> QED BY <2>1, <2>2 DEF Balanced
<1>7. \A l : GlobalLedger(awaits, wire, seen, l)
  <2>1. awaits = [s \in Side |-> IF s = CLIENT /\ forward THEN 1 ELSE 0]
    BY <1>1 DEF StartsWith
  <2>2. \A x \in Side : awaits[x] = Due(wire, x, 0) /\ awaits[x] \in Nat
    BY <1>5, <2>1
  <2>3. \A x \in Side : awaits[x] <= Due(wire, x, 0) /\ Due(wire, x, 0) <= awaits[x]
    BY <2>2
  <2> QED BY <2>3 DEF GlobalLedger
<1>8. Marked(wire, flags.replayPhase)
  <2>1. CASE forward
    <3>1. MarkedPacket(Granted, flags.replayPhase)
      <4>1. PICK g : g = Granted
        OBVIOUS
      <4>2. g.type = "GSUCCESS" /\ g.kind = ""
        BY <4>1, StartPackets
      <4> QED BY <4>1, <4>2 DEF MarkedPacket
    <3> QED BY <1>2, <1>4, <2>1, <3>1, PushKeeps
  <2> QED BY <1>2, <2>1
<1>9. AnswersAsked
  <2>1. seen.unasked = {}
    BY DEF ChannelsInit, Nothing
  <2> QED BY <2>1 DEF AnswersAsked
<1> QED BY <1>6, <1>7, <1>8, <1>9 DEF AnswersInv, Answers

\* That an answer was swallowed is not forgotten.
LEMMA LossStays ==
  ASSUME HistoryTyped, [ChannelsNext]_channelsVars
  PROVE  lost.answers => lost'.answers
<1>0. lost \in [answers : BOOLEAN, env : SUBSET Cids]
  BY DEF HistoryTyped
<1>1. CASE UNCHANGED lost
  BY <1>1
<1>2. ASSUME NEW S, lost' = [lost EXCEPT !.env = S] PROVE lost'.answers = lost.answers
  BY <1>0, <1>2
<1>3. ASSUME NEW s \in Side, RequestSuccessDropped(s) PROVE lost'.answers
  BY <1>0, <1>3 DEF RequestSuccessDropped
<1>4. ASSUME NEW s \in Side,
             ChannelOpenConfirm(s) \/ ChannelOpenFailure(s) \/ ChannelRequestRejected(s)
      PROVE  lost' = lost \/ \E S : lost' = [lost EXCEPT !.env = S]
  <2>1. CASE ChannelOpenConfirm(s)
    BY <2>1 DEF ChannelOpenConfirm, EnvTaken
  <2>2. CASE ChannelOpenFailure(s)
    BY <2>2 DEF ChannelOpenFailure, EnvTaken
  <2>3. CASE ChannelRequestRejected(s)
    BY <2>3 DEF ChannelRequestRejected, RequestRefused
  <2> QED BY <1>4, <2>1, <2>2, <2>3
<1>5. ASSUME NEW s \in Side, InspectPacket(s) PROVE lost.answers => lost'.answers
  BY <1>1, <1>2, <1>3, <1>4, <1>5 DEF InspectPacket
<1>6. ASSUME NEW s \in Side, Peer(s) PROVE UNCHANGED lost
  BY <1>6 DEF Peer, PeerOpens, PeerSends, PeerCloses
<1>7. ASSUME NEW g \in Globals, PeerSendsGlobal(g) PROVE UNCHANGED lost
  BY <1>7 DEF PeerSendsGlobal
<1> QED BY <1>1, <1>5, <1>6, <1>7 DEF ChannelsNext, channelsVars

\* And after every step.
LEMMA AnswersKept ==
  ASSUME ChannelsInv, HistoryTyped, AnswersInv, [ChannelsNext]_channelsVars
  PROVE  AnswersInv'
<1> PICK l : l = lost.answers
  OBVIOUS
<1>0. Answers(l)
  BY DEF AnswersInv
<1>d. ASSUME NEW s \in Side, RequestSuccessDropped(s) PROVE AnswersInv'
  <2>1. Answers(TRUE)'
    BY <1>0, <1>d, DroppedAsked
  <2>2. lost' = [lost EXCEPT !.answers = TRUE]
    BY <1>d DEF RequestSuccessDropped
  <2>3. lost'.answers = TRUE
    BY <2>2 DEF HistoryTyped
  <2> QED BY <2>1, <2>3 DEF AnswersInv
<1>l. ASSUME Answers(l)' PROVE AnswersInv'
  <2>1. l => lost'.answers
    BY LossStays
  <2> QED BY <1>l, <2>1 DEF AnswersInv, Answers, GlobalLedger
<1>1. CASE UNCHANGED channelsVars
  BY <1>1 DEF channelsVars, AnswersInv, Answers, AnswersAsked
<1>p. ASSUME NEW s \in Side, InspectPlain(s) PROVE Answers(l)'
  <2>1. ASSUME ChannelSuccess(s) \/ ChannelFailure(s) PROVE Answers(l)'
    BY <1>0, <2>1, AnswerAsked
  <2>2. ASSUME GlobalRequestRejected(s) \/ ProveHostkeys(s) PROVE Answers(l)'
    BY <1>0, <2>2, GlobalAnswersAsked
  <2>3. ASSUME ChannelData(s) \/ WindowAdjust(s) \/ ChannelEof(s) PROVE Answers(l)'
    BY <1>0, <2>3, PlainAsked
  <2>4. ASSUME AgentOpenRejected(s) \/ AnswerFiltered(s) PROVE Answers(l)'
    <3>1. Fatal(s, "no reason text") \/ Fatal(s, "packet filter")
      BY <2>4 DEF AgentOpenRejected, AnswerFiltered
    <3> QED BY <1>0, <3>1, FatalAsked
  <2>5. ASSUME ChannelOpen(s) PROVE Answers(l)'
    BY <1>0, <2>5, OpenAsked
  <2>6. ASSUME ChannelOpenRejected(s) PROVE Answers(l)'
    BY <1>0, <2>6, OpenRejectedAsked
  <2>7. ASSUME ChannelClose(s) PROVE Answers(l)'
    BY <1>0, <2>7, CloseAsked
  <2>8. ASSUME ChannelRequest(s) PROVE Answers(l)'
    BY <1>0, <2>8, RequestAsked
  <2> QED BY <1>p, <2>1, <2>2, <2>3, <2>4, <2>5, <2>6, <2>7, <2>8 DEF InspectPlain
<1>2. ASSUME NEW s \in Side, InspectPacket(s) PROVE AnswersInv'
  <2>1. ASSUME ChannelOpenConfirm(s) PROVE Answers(l)'
    BY <1>0, <2>1, OpenConfirmAsked
  <2>2. ASSUME ChannelOpenFailure(s) PROVE Answers(l)'
    BY <1>0, <2>2, OpenFailureAsked
  <2>3. ASSUME ChannelRequestRejected(s) PROVE Answers(l)'
    BY <1>0, <2>3, RejectedAsked
  <2>4. ASSUME GlobalRequest(s) PROVE Answers(l)'
    BY <1>0, <2>4, GlobalRequestAsked
  <2>5. ASSUME RequestSuccess(s) \/ RequestFailure(s) PROVE Answers(l)'
    BY <1>0, <2>5, GlobalAnswersAsked
  <2> QED BY <1>2, <1>d, <1>l, <1>p, <2>1, <2>2, <2>3, <2>4, <2>5 DEF InspectPacket
<1>3. ASSUME NEW s \in Side, Peer(s) PROVE Answers(l)'
  <2>1. ASSUME NEW p \in Sends, PeerSends(s, p[2], p[3], p[4]) PROVE Answers(l)'
    <3>1. /\ p[2] \in {"DATA", "REQUEST", "WINDOW", "EOF"} /\ p[4] \in BOOLEAN
          /\ p[4] => p[2] = "REQUEST"
      BY SendsAssumption
    <3>2. p[3] \in Kinds
      BY DEF Kinds
    <3> QED BY <1>0, <2>1, <3>1, <3>2, PeerSendsAsked
  <2>2. ASSUME NEW kind \in OpenKinds, PeerOpens(s, kind) PROVE Answers(l)'
    BY <1>0, <2>2, PeerOpensAsked
  <2>3. ASSUME NEW n \in Nums, PeerCloses(s, n) PROVE Answers(l)'
    BY <1>0, <2>3, PeerClosesAsked
  <2> QED BY <1>3, <2>1, <2>2, <2>3 DEF Peer
<1>4. ASSUME NEW g \in Globals, PeerSendsGlobal(g) PROVE Answers(l)'
  BY <1>0, <1>4, PeerGlobalAsked
<1> QED BY <1>1, <1>2, <1>3, <1>4, <1>l DEF ChannelsNext

\* The answers balance throughout.
LEMMA AnswersHold ==
  ChannelsSpec => [](ChannelsInv /\ AnswersInv)
<1>1. ChannelsInit => ChannelsInv /\ AnswersInv
  BY InvStarts, AnswersStart
<1>2. ChannelsInv /\ HistoryTyped /\ AnswersInv /\ [ChannelsNext]_channelsVars
      => (ChannelsInv /\ AnswersInv)'
  BY InvKept, AnswersKept
<1> QED BY <1>1, <1>2, HistoryHolds, PTL DEF ChannelsSpec

\* Whatever crosses on the wire, and whichever requests the gateway refuses or
\* answers itself: nobody receives an answer it did not ask for, but after a
\* refused global request that wanted no reply, or after an answer to a
\* replayed request that came when the replay phase was over.
THEOREM AnswersWereAsked ==
  ChannelsSpec => []AnswersAsked
<1>1. AnswersInv => AnswersAsked
  BY DEF AnswersInv, Answers
<1> QED BY <1>1, AnswersHold, PTL

\* With nothing under way every open was answered: an end knows the number of
\* the other.
LEMMA OpensAnswered ==
  ASSUME NEW ch, NEW e, NEW w, Shaped(ch, e, w), NEW v, Conversation(ch, e, w, v),
         NEW s \in Side, NEW n \in Ends(e, s, v), \A x \in Side : Of(w[x], v) = {}
  PROVE  e[s][n].remote # None
<1>1. \A x \in Side, k \in Nums : ~Asked(ch, e, w, v, x, k)
  BY DEF Asked
<1>2. \A x \in Side, k \in Nums, j \in Cids : ~Refused(ch, e, w, v, x, k, j)
  BY TwoSides DEF Refused
<1>3. \A x \in Side, k \in Nums, j \in Cids, l \in Nums : ~Accepted(ch, e, w, v, x, k, j, l)
  BY TwoSides DEF Accepted
<1>4. ~Free(ch, e, w, v)
  BY DEF Free
<1>5. ASSUME NEW i \in Cids, ch[i] # FreeSlot, ch[i].providerCh \in Nums, NEW x \in Side
      PROVE  NumAt(ch[i], x) # None
  <2>1. ch[i].requestorCh \in Nums
    BY <1>5 DEF Shaped, Channel
  <2> QED BY <1>5, <2>1, NumsAssumption
      DEF NumAt, RequestorNum, ProviderNum, None, SUSSHI_SESSION_CLIENT_CHANNEL_START,
          SUSSHI_SESSION_TARGET_CHANNEL_START
<1>6. ASSUME NEW i \in Cids, Slots(ch, v) = {i}, ch[i].providerCh \in Nums,
             End(e, v, ch[i], s)
      PROVE  e[s][n].remote # None
  <2>1. ch[i] # FreeSlot
    BY <1>6 DEF Slots
  <2>2. n = OwnNum(ch[i], s) /\ e[s][n].remote = NumAt(ch[i], TheOtherSide(s))
    BY <1>6 DEF End
  <2> QED BY <1>5, <1>6, <2>1, <2>2, TwoSides
<1>7. ASSUME NEW i \in Cids, Up(ch, e, w, v, i) PROVE e[s][n].remote # None
  BY <1>6, <1>7 DEF Up, InUse
<1>8. ASSUME NEW i \in Cids, NEW x \in Side, Half(ch, e, w, v, i, x)
      PROVE  e[s][n].remote # None
  <2>1. CASE s = x
    BY <1>6, <1>8, <2>1 DEF Half, ClosedFirst
  <2>2. CASE s = TheOtherSide(x)
    BY <1>6, <1>8, <2>2 DEF Half, ClosesNext
  <2> QED BY <2>1, <2>2, TwoSides
<1> QED BY <1>1, <1>2, <1>3, <1>4, <1>7, <1>8 DEF Conversation

\* In the same circumstances no answer is lost: with nothing under way every
\* open was answered, and every request on a channel nobody closed, unless a
\* refusal went to the wrong number, and every global request, unless
\* susshi_inspect_request_success() swallowed an empty answer.
THEOREM NoAnswerIsLost ==
  ChannelsSpec => []NoAnswerLost
<1>1. ASSUME ChannelsInv, AnswersInv, fatal = "no", \A x \in Side : wire[x] = <<>>,
             NEW s \in Side, NEW n \in Nums, n \in Live(s)
      PROVE  /\ ep[s][n].remote # None
             /\ \/ ep[s][n].awaits = 0
                \/ ep[s][n].sent \/ ep[s][n].got \/ seen.misrouted # {}
  <2>1. ChannelsTyped /\ FollowedState /\ Ledger(ep, wire, seen)
    BY <1>1 DEF ChannelsInv, AnswersInv, Answers
  <2>2. ep[s][n] \in Peers
    BY <1>1, <2>1 DEF ChannelsTyped, Live
  <2>3. PICK v \in Cids : n \in Ends(ep, s, v)
    BY <2>2 DEF Peers, Ends
  <2>4. \A x \in Side : \A u : Of(wire[x], u) = {}
    BY <1>1 DEF Of
  <2>5. ep[s][n].remote # None
    <3>1. Shaped(channels, ep, wire) /\ Conversation(channels, ep, wire, v)
      BY <1>1, <2>1, <2>3 DEF FollowedState, Settled
    <3>2. \A x \in Side : Of(wire[x], v) = {}
      BY <2>4
    <3> QED BY <2>3, <3>1, <3>2, OpensAnswered
  <2>6. Due(wire, s, v) = 0
    <3>1. Wires(wire)
      BY <2>1 DEF ChannelsTyped, Wires
    <3> QED BY <2>4, <3>1, NothingDue
  <2>7. ~HasClose(wire, TheOtherSide(s), v)
    BY <2>4, TwoSides DEF HasClose
  <2>8. \/ seen.misrouted # {} \/ ep[s][n].sent \/ ep[s][n].got
        \/ ep[s][n].awaits <= 0
    BY <2>1, <2>3, <2>6, <2>7 DEF Ledger, Balanced, Closing
  <2>9. ep[s][n].awaits \in Nat
    BY <2>2 DEF Peers
  <2>10. ep[s][n].awaits <= 0 => ep[s][n].awaits = 0
    BY <2>9
  <2> QED BY <2>5, <2>8, <2>10
<1>2. ASSUME ChannelsInv, AnswersInv, fatal = "no", \A x \in Side : wire[x] = <<>>,
             NEW s \in Side
      PROVE  awaits[s] = 0 \/ lost.answers
  <2>1. Wires(wire) /\ awaits[s] \in Nat /\ GlobalLedger(awaits, wire, seen, lost.answers)
    BY <1>2 DEF ChannelsInv, ChannelsTyped, Wires, AnswersInv, Answers
  <2>2. \A x \in Side : \A u : Of(wire[x], u) = {}
    BY <1>2 DEF Of
  <2>3. Due(wire, s, 0) = 0
    BY <2>1, <2>2, NothingDue
  <2>4. lost.answers \/ awaits[s] <= 0
    BY <2>1, <2>3 DEF GlobalLedger
  <2> QED BY <2>1, <2>4
<1>3. ChannelsInv /\ AnswersInv => NoAnswerLost
  BY <1>1, <1>2 DEF NoAnswerLost
<1> QED BY <1>3, AnswersHold, PTL

-----------------------------------------------------------------------------
(***************************************************************************)
(* The bounds of the type invariant.                                       *)
(***************************************************************************)

\* Nobody waits for more answers than packets were sent, but for the port
\* forward that was replayed.
EndBound(e, k) == e.conv # 0 => e.awaits <= k
Bounded ==
  /\ fatal \in Endings \cup {"no"}
  /\ used.sends <= MaxSends
  /\ \A x \in Side : awaits[x] <= used.sends + 1
  /\ \A x \in Side, n \in Nums : EndBound(ep[x][n], used.sends)

\* No reaction makes a peer wait for more.
LEMMA ReactionBound ==
  ASSUME ep \in [Side -> [Nums -> Peers \cup {NoEndpoint}]], NEW t \in Side, NEW m,
         NEW r \in Reactions(t, m), NEW k \in Nat,
         \A n \in Nums : EndBound(ep[t][n], k)
  PROVE  \A n \in Nums : EndBound(r.ep[n], k)
<1> DEFINE e == ep[t][m.to]
           known == m.to \in Live(t) /\ e.conv = m.conv
<1>1. /\ ep[t] \in [Nums -> Peers \cup {NoEndpoint}]
      /\ m.to \in Live(t) => m.to \in Nums /\ e \in Peers
  BY DEF Live
<1>2. EndBound(NoEndpoint, k)
  BY DEF EndBound, NoEndpoint
<1>3. r.ep = ep[t] => \A n \in Nums : EndBound(r.ep[n], k)
  OBVIOUS
<1>4. ASSUME NEW q \in Nums, NEW a, r.ep = [ep[t] EXCEPT ![q] = a], EndBound(a, k)
      PROVE  \A n \in Nums : EndBound(r.ep[n], k)
  BY <1>1, <1>4
<1>5. CASE m.type = "OPEN"
  <2>1. CASE r.ep = ep[t]
    BY <1>3, <2>1
  <2>2. CASE r.ep # ep[t]
    <3>1. PICK n \in NewNums(t) :
            r.ep = [ep[t] EXCEPT ![n] = [conv |-> m.conv, own |-> FALSE, sent |-> FALSE,
                                         got |-> FALSE, remote |-> m.from, awaits |-> 0]]
      BY <1>5, <2>2 DEF Reactions
    <3>2. n \in Nums
      BY DEF NewNums
    <3>3. EndBound([conv |-> m.conv, own |-> FALSE, sent |-> FALSE,
                    got |-> FALSE, remote |-> m.from, awaits |-> 0], k)
      BY DEF EndBound
    <3> QED BY <1>4, <3>1, <3>2, <3>3
  <2> QED BY <2>1, <2>2
<1>6. CASE m.type = "GLOBAL"
  BY <1>3, <1>6, GlobalReacts
<1>7. CASE m.type \notin {"OPEN", "GLOBAL"} /\ ~known
  <2>1. r.ep = ep[t]
    BY <1>7 DEF Reactions
  <2> QED BY <1>3, <2>1
<1>8. CASE known /\ m.type = "CONFIRM"
  <2>1. r.ep = [ep[t] EXCEPT ![m.to] = [e EXCEPT !.remote = m.from]]
    BY <1>8 DEF Reactions
  <2>2. EndBound([e EXCEPT !.remote = m.from], k)
    BY <1>1, <1>8 DEF EndBound, Peers
  <2> QED BY <1>1, <1>4, <1>8, <2>1, <2>2
<1>9. CASE known /\ m.type = "OPENFAIL"
  <2>1. r.ep = [ep[t] EXCEPT ![m.to] = NoEndpoint]
    BY <1>9 DEF Reactions
  <2> QED BY <1>1, <1>2, <1>4, <1>9, <2>1
<1>10. CASE known /\ m.type = "CLOSE"
  <2>1. \/ r.ep = [ep[t] EXCEPT ![m.to] = NoEndpoint]
        \/ r.ep = [ep[t] EXCEPT ![m.to] = [e EXCEPT !.got = TRUE]]
    BY <1>10 DEF Reactions
  <2>2. EndBound([e EXCEPT !.got = TRUE], k)
    BY <1>1, <1>10 DEF EndBound, Peers
  <2> QED BY <1>1, <1>2, <1>4, <1>10, <2>1, <2>2
<1>11. CASE known /\ m.type = "REQUEST"
  <2>1. \E out : r = [ep |-> ep[t], out |-> out, seen |-> Nothing]
    BY <1>11 DEF Reactions
  <2> QED BY <1>3, <2>1
<1>12. CASE known /\ m.type \in {"SUCCESS", "FAILURE"}
  <2>1. \/ r.ep = ep[t]
        \/ e.awaits > 0 /\ r.ep = [ep[t] EXCEPT ![m.to] = [e EXCEPT !.awaits = @ - 1]]
    BY <1>12 DEF Reactions
  <2>2. EndBound([e EXCEPT !.awaits = @ - 1], k)
    <3>1. e \in Peers /\ EndBound(e, k)
      BY <1>1, <1>12
    <3>2. e.awaits \in Nat /\ [e EXCEPT !.awaits = @ - 1].awaits = e.awaits - 1
          /\ [e EXCEPT !.awaits = @ - 1].conv = e.conv
      BY <3>1 DEF Peers
    <3> QED BY <3>1, <3>2 DEF EndBound
  <2> QED BY <1>1, <1>3, <1>4, <1>12, <2>1, <2>2
<1>13. CASE /\ known
            /\ m.type \notin {"OPEN", "GLOBAL", "CONFIRM", "OPENFAIL", "CLOSE", "REQUEST",
                              "SUCCESS", "FAILURE"}
  <2>1. /\ m.type # "OPEN" /\ m.type # "GLOBAL" /\ m.type # "CONFIRM" /\ m.type # "OPENFAIL"
        /\ m.type # "CLOSE" /\ m.type # "REQUEST" /\ m.type # "SUCCESS"
        /\ m.type # "FAILURE"
    BY <1>13
  <2>2. r = [ep |-> ep[t], out |-> <<>>, seen |-> Nothing]
    BY <1>13, <2>1 DEF Reactions
  <2> QED BY <1>3, <2>2
<1> QED BY <1>5, <1>6, <1>7, <1>8, <1>9, <1>10, <1>11, <1>12, <1>13

\* What the inspection of a packet does to what the peers wait for.
Passes ==
  \/ ep' = ep
  \/ \E t \in Side : \E m : \E r \in Reactions(t, m) : ep' = [ep EXCEPT ![t] = r.ep]
Fewer ==
  \/ awaits' = awaits
  \/ \E t \in Side : awaits' = [awaits EXCEPT ![t] = IF @ > 0 THEN @ - 1 ELSE 0]
Ended == fatal' \in Endings \cup {fatal}

\* A packet that is sent on, or dropped.
LEMMA DeliverPasses ==
  ASSUME NEW s, NEW t \in Side, NEW m, Deliver(s, t, m) \/ Drop(s)
  PROVE  Passes /\ Fewer
<1>1. CASE Deliver(s, t, m)
  <2>1. PICK r \in Reactions(t, m) : ep' = [ep EXCEPT ![t] = r.ep] /\ UNCHANGED awaits
    BY <1>1 DEF Deliver
  <2> QED BY <2>1 DEF Passes, Fewer
<1>2. CASE Drop(s)
  BY <1>2 DEF Drop, Passes, Fewer
<1> QED BY <1>1, <1>2

\* No handler makes a peer wait for more.
LEMMA InspectPasses ==
  ASSUME NEW s \in Side, InspectPacket(s)
  PROVE  used' = used /\ Passes /\ Fewer /\ Ended
<1> DEFINE t == TheOtherSide(s)
<1>1. t \in Side
  BY TwoSides
<1>2. ASSUME NEW y \in Side, NEW m, Deliver(s, y, m) PROVE Passes /\ Fewer
  BY <1>2, DeliverPasses
<1>3. Drop(s) => Passes /\ Fewer
  BY <1>1, DeliverPasses
<1>4. ASSUME NEW why \in Endings, Fatal(s, why)
      PROVE  used' = used /\ Passes /\ Fewer /\ Ended
  BY <1>3, <1>4 DEF Fatal, Ended
<1>e. /\ "no sftp request" \in Endings /\ "sftp closed" \in Endings /\ "not found" \in Endings
      /\ "success of the opener" \in Endings /\ "no reason text" \in Endings
      /\ "packet filter" \in Endings
  BY DEF Endings
<1>5. CASE ChannelOpen(s) \/ ChannelOpenRejected(s)
  BY <1>1, <1>2, <1>5 DEF ChannelOpen, ChannelOpenRejected, Received, Ended
<1>6. CASE ChannelOpenConfirm(s)
  <2> DEFINE m == Head(wire[s])
             c == channels[FindForAnswer(s, m.to)]
  <2>1. used' = used /\ fatal' = fatal /\ awaits' = awaits
    BY <1>6 DEF ChannelOpenConfirm, Received, Drop
  <2>2. ep' = ep \/ \E r \in Reactions(t, Rewrite(s, m, c)) : ep' = [ep EXCEPT ![t] = r.ep]
    BY <1>6 DEF ChannelOpenConfirm, Drop
  <2> QED BY <1>1, <2>1, <2>2 DEF Passes, Fewer, Ended
<1>7. CASE ChannelOpenFailure(s) \/ ChannelEof(s)
  BY <1>1, <1>2, <1>3, <1>7 DEF ChannelOpenFailure, ChannelEof, Received, Ended
<1>8. CASE ChannelClose(s)
  BY <1>1, <1>2, <1>8 DEF ChannelClose, Received, Ended
<1>9. CASE ChannelData(s)
  <2> DEFINE c == channels[FindForData(s, Head(wire[s]).to)]
  <2>1. used' = used
    BY <1>9 DEF ChannelData, Received
  <2>2. CASE Fatal(s, SftpFatal(s, c)) /\ SftpFatal(s, c) # "no"
    <3>1. SftpFatal(s, c) \in {"no sftp request", "sftp closed"}
      BY <2>2 DEF SftpFatal
    <3> QED BY <1>4, <1>e, <2>2, <3>1
  <2>3. CASE fatal' = fatal /\ \E m : Deliver(s, t, m) \/ Drop(s)
    BY <1>1, <1>2, <1>3, <2>1, <2>3 DEF Ended
  <2> QED BY <1>9, <2>2, <2>3 DEF ChannelData
<1>10. CASE ChannelRequest(s)
  BY <1>1, <1>2, <1>4, <1>e, <1>10 DEF ChannelRequest, Received, Ended
<1>11. CASE ChannelRequestRejected(s)
  BY <1>2, <1>3, <1>11 DEF ChannelRequestRejected, Received, Ended
<1>12. CASE ChannelSuccess(s) \/ ChannelFailure(s)
  BY <1>1, <1>2, <1>3, <1>4, <1>e, <1>12
     DEF ChannelSuccess, ChannelFailure, Answered, Received, Ended
<1>13. CASE WindowAdjust(s)
  BY <1>1, <1>2, <1>4, <1>e, <1>13 DEF WindowAdjust, Received, Ended
<1>14. CASE GlobalRequest(s)
  BY <1>1, <1>2, <1>14 DEF GlobalRequest, Received, Ended
<1>15. CASE \/ GlobalRequestRejected(s) \/ ProveHostkeys(s)
            \/ RequestSuccess(s) \/ RequestFailure(s)
  BY <1>1, <1>15 DEF GlobalRequestRejected, ProveHostkeys, RequestSuccess, RequestFailure,
     GlobalAnswer, Received, Passes, Fewer, Ended
<1>16. CASE AgentOpenRejected(s) \/ AnswerFiltered(s)
  BY <1>4, <1>e, <1>16 DEF AgentOpenRejected, AnswerFiltered
<1>17. CASE RequestSuccessDropped(s)
  BY <1>3, <1>17 DEF RequestSuccessDropped, Received, Ended
<1> QED BY <1>5, <1>6, <1>7, <1>8, <1>9, <1>10, <1>11, <1>12, <1>13, <1>14, <1>15,
           <1>16, <1>17
        DEF InspectPacket, InspectPlain

\* Such a step keeps the bounds.
LEMMA PassesBounded ==
  ASSUME ChannelsTyped, Bounded, used' = used, Passes, Fewer, Ended
  PROVE  Bounded'
<1>1. used.sends \in Nat /\ awaits \in [Side -> Nat]
  BY DEF ChannelsTyped
<1>2. \A x \in Side, n \in Nums : EndBound(ep'[x][n], used.sends)
  <2>1. CASE ep' = ep
    BY <2>1 DEF Bounded
  <2>2. ASSUME NEW t \in Side, NEW m, NEW r \in Reactions(t, m), ep' = [ep EXCEPT ![t] = r.ep]
        PROVE  \A x \in Side, n \in Nums : EndBound(ep'[x][n], used.sends)
    <3>1. ep \in [Side -> [Nums -> Peers \cup {NoEndpoint}]]
      BY DEF ChannelsTyped
    <3>2. \A n \in Nums : EndBound(r.ep[n], used.sends)
      BY <1>1, <3>1, ReactionBound DEF Bounded
    <3> QED BY <2>2, <3>1, <3>2 DEF Bounded
  <2> QED BY <2>1, <2>2 DEF Passes
<1>3. \A x \in Side : awaits'[x] <= used.sends + 1
  <2> SUFFICES ASSUME NEW x \in Side PROVE awaits'[x] <= used.sends + 1
    OBVIOUS
  <2>1. awaits[x] <= used.sends + 1 /\ awaits[x] \in Nat
    BY <1>1 DEF Bounded
  <2>2. awaits'[x] = awaits[x] \/ awaits'[x] = awaits[x] - 1 \/ awaits'[x] = 0
    BY <1>1 DEF Fewer
  <2> QED BY <1>1, <2>1, <2>2
<1>4. fatal' \in Endings \cup {"no"}
  BY DEF Ended, Bounded
<1> QED BY <1>2, <1>3, <1>4 DEF Bounded

\* Nor do the peers exceed them.
LEMMA PeersBounded ==
  ASSUME ChannelsTyped, Bounded,
         \/ \E s \in Side : Peer(s)
         \/ \E g \in Globals : PeerSendsGlobal(g)
  PROVE  Bounded'
<1>1. /\ used \in [opens : 0 .. MaxOpens, sends : Nat] /\ awaits \in [Side -> Nat]
      /\ ep \in [Side -> [Nums -> Peers \cup {NoEndpoint}]]
  BY DEF ChannelsTyped
<1>2. EndBound(NoEndpoint, used.sends)
  BY DEF EndBound, NoEndpoint
<1>3. ASSUME NEW s \in Side, NEW n \in Nums, NEW a, ep' = [ep EXCEPT ![s][n] = a],
             EndBound(a, used'.sends),
             used'.sends \in Nat, used.sends <= used'.sends, used'.sends <= MaxSends,
             \A x \in Side : awaits'[x] <= used'.sends + 1, fatal' = fatal
      PROVE  Bounded'
  <2>1. ASSUME NEW x \in Side, NEW k \in Nums PROVE EndBound(ep'[x][k], used'.sends)
    <3>1. EndBound(ep[x][k], used.sends) /\ ep[x][k] \in Peers \cup {NoEndpoint}
      BY <1>1 DEF Bounded
    <3>2. EndBound(ep[x][k], used'.sends)
      <4>1. ep[x][k].conv # 0 => ep[x][k] \in Peers
        BY <3>1 DEF NoEndpoint
      <4>2. ep[x][k] \in Peers => ep[x][k].awaits \in Nat
        BY DEF Peers
      <4> QED BY <1>1, <1>3, <3>1, <4>1, <4>2 DEF EndBound
    <3>3. ep'[x][k] = IF x = s /\ k = n THEN a ELSE ep[x][k]
      BY <1>1, <1>3
    <3> QED BY <1>3, <3>2, <3>3
  <2> QED BY <1>3, <2>1 DEF Bounded
<1>4. ASSUME NEW s \in Side, NEW kind, PeerOpens(s, kind) PROVE Bounded'
  <2>1. PICK n \in NewNums(s) :
          /\ used' = [used EXCEPT !.opens = used.opens + 1]
          /\ ep' = [ep EXCEPT ![s][n] = [conv |-> used.opens + 1, own |-> TRUE, sent |-> FALSE,
                                         got |-> FALSE, remote |-> None, awaits |-> 0]]
    BY <1>4 DEF PeerOpens
  <2>2. n \in Nums /\ used'.sends = used.sends
    BY <1>1, <2>1 DEF NewNums
  <2>3. EndBound([conv |-> used.opens + 1, own |-> TRUE, sent |-> FALSE,
                  got |-> FALSE, remote |-> None, awaits |-> 0], used.sends)
    BY <1>1 DEF EndBound
  <2>4. fatal' = fatal /\ awaits' = awaits
    BY <1>4 DEF PeerOpens
  <2>5. used.sends <= MaxSends /\ \A x \in Side : awaits[x] <= used.sends + 1
    BY DEF Bounded
  <2>6. used.sends \in Nat
    BY <1>1
  <2>7. /\ used'.sends \in Nat /\ used.sends <= used'.sends /\ used'.sends <= MaxSends
        /\ used'.sends = used.sends /\ \A x \in Side : awaits'[x] <= used'.sends + 1
    BY <2>2, <2>4, <2>5, <2>6
  <2>8. PICK b : b = [conv |-> used.opens + 1, own |-> TRUE, sent |-> FALSE, got |-> FALSE,
                    remote |-> None, awaits |-> 0] /\ EndBound(b, used'.sends)
    BY <2>3, <2>7
  <2>9. ep' = [ep EXCEPT ![s][n] = b]
    BY <2>1, <2>8
  <2> QED BY <1>3, <2>2, <2>4, <2>7, <2>8, <2>9
<1>5. ASSUME NEW s \in Side, NEW n \in Nums, PeerCloses(s, n) PROVE Bounded'
  <2>1. PICK a : /\ ep' = [ep EXCEPT ![s][n] = a]
                 /\ a = IF ep[s][n].got THEN NoEndpoint ELSE [ep[s][n] EXCEPT !.sent = TRUE]
    BY <1>1, <1>5 DEF PeerCloses
  <2>2. ep[s][n] \in Peers /\ EndBound(ep[s][n], used.sends)
    BY <1>1, <1>5 DEF PeerCloses, Usable, Live, Bounded
  <2>3. EndBound(a, used.sends)
    BY <1>2, <2>1, <2>2 DEF EndBound, Peers
  <2>4. fatal' = fatal /\ awaits' = awaits /\ used' = used
    BY <1>5 DEF PeerCloses
  <2>5. used.sends <= MaxSends /\ \A x \in Side : awaits[x] <= used.sends + 1
    BY DEF Bounded
  <2>6. used.sends \in Nat
    BY <1>1
  <2>7. /\ used'.sends \in Nat /\ used.sends <= used'.sends /\ used'.sends <= MaxSends
        /\ used'.sends = used.sends /\ \A x \in Side : awaits'[x] <= used'.sends + 1
    BY <2>4, <2>5, <2>6
  <2>8. PICK b : b = a /\ EndBound(b, used'.sends)
    BY <2>3, <2>7
  <2>9. ep' = [ep EXCEPT ![s][n] = b]
    BY <2>1, <2>8
  <2> QED BY <1>3, <2>4, <2>7, <2>8, <2>9
<1>6. ASSUME NEW s \in Side, NEW type, NEW kind, NEW want, PeerSends(s, type, kind, want)
      PROVE  Bounded'
  <2>1. PICK n \in Usable(s) :
          /\ used' = [used EXCEPT !.sends = @ + 1]
          /\ ep' = [ep EXCEPT ![s][n].awaits = IF want THEN @ + 1 ELSE @]
    BY <1>6 DEF PeerSends
  <2>2. /\ n \in Nums /\ ep[s][n] \in Peers /\ EndBound(ep[s][n], used.sends)
    BY <1>1 DEF Usable, Live, Bounded
  <2>3. PICK a : /\ ep' = [ep EXCEPT ![s][n] = a]
                 /\ a = [ep[s][n] EXCEPT !.awaits = IF want THEN @ + 1 ELSE @]
    BY <1>1, <2>1, <2>2
  <2>4. used'.sends = used.sends + 1 /\ used.sends \in Nat
    BY <1>1, <2>1
  <2>5. EndBound(a, used'.sends)
    <3>1. ep[s][n].awaits \in Nat /\ ep[s][n].conv # 0
      BY <2>2, NumsAssumption DEF Peers, Cids
    <3>2. a.awaits = ep[s][n].awaits + 1 \/ a.awaits = ep[s][n].awaits
      BY <2>2, <2>3 DEF Peers
    <3> QED BY <2>2, <2>4, <3>1, <3>2 DEF EndBound
  <2>6. fatal' = fatal /\ awaits' = awaits /\ used.sends < MaxSends
    BY <1>6 DEF PeerSends
  <2>7. \A x \in Side : awaits[x] <= used.sends + 1 /\ awaits[x] \in Nat
    BY <1>1 DEF Bounded
  <2>8. /\ used'.sends \in Nat /\ used.sends <= used'.sends /\ used'.sends <= MaxSends
        /\ \A x \in Side : awaits'[x] <= used'.sends + 1
    BY <2>4, <2>6, <2>7, NumsAssumption
  <2> QED BY <1>3, <2>2, <2>3, <2>5, <2>6, <2>8
<1>7. ASSUME NEW g \in Globals, PeerSendsGlobal(g) PROVE Bounded'
  <2>1. /\ used' = [used EXCEPT !.sends = @ + 1] /\ fatal' = fatal /\ ep' = ep
        /\ awaits' = [awaits EXCEPT ![g[1]] = IF g[3] THEN @ + 1 ELSE @]
        /\ used.sends < MaxSends
    BY <1>7 DEF PeerSendsGlobal
  <2>2. used'.sends = used.sends + 1 /\ used.sends \in Nat
    BY <1>1, <2>1
  <2>3. \A x \in Side : awaits'[x] <= used'.sends + 1
    <3> SUFFICES ASSUME NEW x \in Side PROVE awaits'[x] <= used'.sends + 1
      OBVIOUS
    <3>1. awaits[x] <= used.sends + 1 /\ awaits[x] \in Nat
      BY <1>1 DEF Bounded
    <3>2. awaits'[x] = awaits[x] + 1 \/ awaits'[x] = awaits[x]
      BY <1>1, <2>1
    <3> QED BY <2>2, <3>1, <3>2
  <2>4. used'.sends \in Nat /\ used.sends <= used'.sends /\ used'.sends <= MaxSends
    BY <2>1, <2>2, NumsAssumption
  <2>5. PICK s \in Side, n \in Nums : TRUE
    BY NumsAssumption DEF Side
  <2>6. ep' = [ep EXCEPT ![s][n] = ep[s][n]]
    BY <1>1, <2>1
  <2>7. EndBound(ep[s][n], used'.sends)
    <3>1. EndBound(ep[s][n], used.sends) /\ ep[s][n] \in Peers \cup {NoEndpoint}
      BY <1>1 DEF Bounded
    <3>2. ep[s][n].conv # 0 => ep[s][n] \in Peers
      BY <3>1 DEF NoEndpoint
    <3>3. ep[s][n] \in Peers => ep[s][n].awaits \in Nat
      BY DEF Peers
    <3> QED BY <2>2, <3>1, <3>2, <3>3 DEF EndBound
  <2> QED BY <1>3, <2>1, <2>3, <2>4, <2>6, <2>7
<1> QED BY <1>4, <1>5, <1>6, <1>7 DEF Peer

\* The table, the peers and the flags of a session keep their types, and no
\* peer ever waits for more answers than packets were sent, or, for the port
\* forward that was replayed, one more.
THEOREM ChannelsTypes ==
  ChannelsSpec => []ChannelsTypeOK
<1>1. ASSUME ChannelsInit PROVE Bounded
  <2>1. PICK agent \in BOOLEAN, forward \in BOOLEAN, n \in Nums, len \in Nat :
          StartsWith(agent, forward, n, len)
    BY <1>1, InitialCases
  <2>2. ASSUME NEW x \in Side, NEW k \in Nums PROVE EndBound(ep[x][k], 0)
    <3>1. ep \in [Side -> [Nums -> Peers \cup {NoEndpoint}]]
      BY <2>1, InitialTable
    <3>2. ep[x][k] \in Peers => ep[x][k].conv \in Cids /\ k \in Ends(ep, x, ep[x][k].conv)
      BY DEF Peers, Ends
    <3>3. ep[x][k] \in Peers => ep[x][k].awaits = 0
      BY <2>1, <3>2, StartAwaits
    <3>4. ep[x][k] = NoEndpoint => ep[x][k].conv = 0
      BY DEF NoEndpoint
    <3> QED BY <3>1, <3>3, <3>4 DEF EndBound
  <2>3. used.sends = 0
    BY <2>1 DEF StartsWith
  <2>4. fatal = "no"
    BY <1>1 DEF ChannelsInit
  <2>5. \A x \in Side : awaits[x] = 0 \/ awaits[x] = 1
    BY <2>1 DEF StartsWith
  <2>6. \A x \in Side : awaits[x] <= used.sends + 1
    BY <2>3, <2>5
  <2> QED BY <2>2, <2>3, <2>4, <2>6, NumsAssumption DEF Bounded
<1>2. ASSUME ChannelsInv, Bounded, [ChannelsNext]_channelsVars PROVE Bounded'
  <2>1. CASE UNCHANGED channelsVars
    BY <1>2, <2>1 DEF channelsVars, Bounded
  <2>2. ASSUME NEW s \in Side, InspectPacket(s) PROVE Bounded'
    BY <1>2, <2>2, InspectPasses, PassesBounded DEF ChannelsInv
  <2> QED BY <1>2, <2>1, <2>2, PeersBounded DEF ChannelsNext, ChannelsInv
<1>3. ASSUME ChannelsInv, HistoryTyped, Bounded PROVE ChannelsTypeOK
  <2>1. ChannelsTyped
    BY <1>3 DEF ChannelsInv
  <2>2. ASSUME NEW x \in Side, NEW n \in Nums PROVE ep[x][n] \in Endpoint \cup {NoEndpoint}
    <3>0. ep \in [Side -> [Nums -> Peers \cup {NoEndpoint}]]
      BY <2>1 DEF ChannelsTyped
    <3>1. ep[x][n] \in Peers \cup {NoEndpoint} /\ EndBound(ep[x][n], used.sends)
      BY <1>3, <3>0 DEF Bounded
    <3>2. ASSUME ep[x][n] \in Peers PROVE ep[x][n] \in Endpoint
      <4>1. ep[x][n].conv # 0 /\ ep[x][n].awaits \in Nat
        BY <3>2, NumsAssumption DEF Peers, Cids
      <4>2. used.sends <= MaxSends /\ used.sends \in Nat
        BY <1>3, <2>1 DEF ChannelsTyped, Bounded
      <4>3. ep[x][n].awaits \in 0 .. MaxSends
        BY <3>1, <4>1, <4>2, NumsAssumption DEF EndBound
      <4> QED BY <3>2, <4>3 DEF Peers, Endpoint
    <3> QED BY <3>1, <3>2
  <2>3. ep \in [Side -> [Nums -> Endpoint \cup {NoEndpoint}]]
    BY <2>1, <2>2 DEF ChannelsTyped
  <2>4. awaits \in [Side -> 0 .. MaxSends + 1]
    <3>1. awaits \in [Side -> Nat] /\ used.sends \in Nat
      BY <2>1 DEF ChannelsTyped
    <3>2. used.sends <= MaxSends /\ \A x \in Side : awaits[x] <= used.sends + 1
      BY <1>3 DEF Bounded
    <3>3. \A x \in Side : awaits[x] \in 0 .. MaxSends + 1
      BY <3>1, <3>2, NumsAssumption
    <3> QED BY <3>1, <3>3
  <2>5. flags \in [{"noMoreSessions", "sendShellEnv", "replayPhase", "refused"} -> BOOLEAN]
    BY <2>1 DEF ChannelsTyped
  <2> QED BY <1>3, <2>1, <2>3, <2>4, <2>5
      DEF ChannelsTyped, ChannelsTypeOK, Bounded, HistoryTyped
<1>4. ChannelsInit => Bounded
  BY <1>1
<1>5. ChannelsInv /\ Bounded /\ [ChannelsNext]_channelsVars => Bounded'
  BY <1>2
<1>6. ChannelsInv /\ HistoryTyped /\ Bounded => ChannelsTypeOK
  BY <1>3
<1> QED BY <1>4, <1>5, <1>6, InvHolds, HistoryHolds, PTL DEF ChannelsSpec

-----------------------------------------------------------------------------
(***************************************************************************)
(* The login in public key agent mode, for every number of keys,           *)
(* environment variables and forwards, and whatever the callbacks do to    *)
(* the state of the main loop while it waits for the client.               *)
(***************************************************************************)

\* What the callbacks leave alone.
USE DEF loop, client, sessionVars

-----------------------------------------------------------------------------
(***************************************************************************)
(* The type invariant.                                                     *)
(***************************************************************************)

\* The two counters of the loops stay within what they count.
Counted ==
  /\ pc = "waitChannel" => polls <= 3
  /\ pos <= 2 * round /\ round <= Len(keys)

\* While the login goes on, the record holds what the client asked for, but for
\* the environment that exceeds the table.
Recorded ==
  pc # "done" =>
    /\ setup.data = asked.data /\ setup.eof = asked.eof
    /\ setup.pty = asked.pty /\ setup.service = asked.service
    /\ setup.envs = IF asked.envs <= MAX_ENVS THEN asked.envs ELSE MAX_ENVS

Typed == TypeOK /\ Counted /\ Recorded

\* The keys are a sequence of at most MaxKeys.
LEMMA KeysSeq ==
  ASSUME NEW k \in UNION {[1..n -> KeyKinds] : n \in 0..MaxKeys}
  PROVE  k \in Seq(KeyKinds) /\ Len(k) \in 0..MaxKeys
<1>1. PICK n \in 0..MaxKeys : k \in [1..n -> KeyKinds]
  OBVIOUS
<1>2. k \in Seq(KeyKinds) /\ Len(k) = n
  BY <1>1, AgentAssumption
<1> QED
  BY <1>2

\* The initial states have the types.
LEMMA TypeInit == Init => Typed
<1> SUFFICES ASSUME Init PROVE Typed
  OBVIOUS
<1>1. NothingAsked \in SetupType /\ NothingAsked.envs = 0
  BY AgentAssumption DEF NothingAsked, SetupType, Services
<1>2. Len(keys) \in 0..MaxKeys
  BY KeysSeq DEF Init
<1>3. SessionsOK
  <2>1. /\ sessions = 0 /\ hooked = 0 /\ hungUp = {} /\ services = 0 /\ awaited = 0
        /\ hidden = FALSE
    BY DEF Init
  <2>2. sessions \in 0..MaxSessions /\ hooked \in 0..sessions /\ services \in 0..MaxServices
        /\ awaited \in Nat
    BY <2>1, AgentAssumption
  <2>3. hungUp \subseteq 1..sessions /\ hidden \in BOOLEAN
    BY <2>1
  <2> QED
    BY <2>2, <2>3 DEF SessionsOK
<1>4. target \in [auth : BOOLEAN, closed : BOOLEAN, replayed : BOOLEAN, got : SetupType]
  BY <1>1 DEF Init
<1> QED
  BY <1>1, <1>2, <1>3, <1>4, AgentAssumption DEF Init, Typed, TypeOK, Counted, Recorded, ClientIO

\* What is counted of the client's channels and requests stays in its range.
LEMMA SessionsKept ==
  ASSUME SessionsOK, Callback \/ Gateway \/ ClientAnswers
  PROVE  SessionsOK'
<1>1. \/ UNCHANGED <<sessions, hooked, hungUp>>
      \/ sessions < MaxSessions /\ sessions' = sessions + 1 /\ UNCHANGED <<hooked, hungUp>>
      \/ /\ UNCHANGED <<sessions, hooked>>
         /\ \E c \in (1..sessions) \ hungUp : hungUp' = hungUp \cup {c}
      \/ hooked' = sessions /\ UNCHANGED <<sessions, hungUp>>
  BY DEF Callback, ccb_global_request, ccb_channel_open_request, SessionClosed,
         cbc_agentchannel_session_close_function, SessionCallback, Gateway, ClientAnswers,
         WaitForChannel, WaitForChannelFails, LoopFails, LoopCompletes, RequestChannel,
         AgentChannelAnswer, RequestIdentities, IdentitiesAnswer, StartAuthentication, Probe,
         SignatureAnswer, TargetAnswer, CloseAgentChannel, CloseSent, ReplayToTarget,
         ReplayData, ReplayEof
<1>2. \/ UNCHANGED services
      \/ services < MaxServices /\ services' = services + 1
  BY DEF Callback, ccb_global_request, ccb_channel_open_request, SessionClosed,
         cbc_agentchannel_session_close_function, SessionCallback, ccb_session_data,
         ccb_session_eof, ccb_session_pty_request, ccb_session_env_request,
         ccb_session_x11_request, ccb_session_auth_agent_request,
         ccb_session_service_request, Gateway, ClientAnswers, WaitForChannel,
         WaitForChannelFails, LoopFails, LoopCompletes, RequestChannel, AgentChannelAnswer,
         RequestIdentities, IdentitiesAnswer, StartAuthentication, Probe, SignatureAnswer,
         TargetAnswer, CloseAgentChannel, CloseSent, ReplayToTarget, ReplayData, ReplayEof
<1>3. UNCHANGED hidden \/ hidden' = (hidden \/ state = "COMPLETE")
  BY DEF Callback, ccb_global_request, ccb_channel_open_request, SessionClosed,
         cbc_agentchannel_session_close_function, SessionCallback, ccb_session_data,
         ccb_session_eof, ccb_session_pty_request, ccb_session_env_request,
         ccb_session_x11_request, ccb_session_auth_agent_request,
         ccb_session_service_request, Gateway, ClientAnswers, WaitForChannel,
         WaitForChannelFails, LoopFails, LoopCompletes, RequestChannel, AgentChannelAnswer,
         RequestIdentities, IdentitiesAnswer, StartAuthentication, Probe, SignatureAnswer,
         TargetAnswer, CloseAgentChannel, CloseSent, ReplayToTarget, ReplayData, ReplayEof
<1>4. \/ UNCHANGED awaited
      \/ awaited > 0 /\ awaited' = awaited - 1
      \/ awaited' = awaited + 1
  BY DEF Callback, ccb_global_request, ccb_channel_open_request, SessionClosed,
         cbc_agentchannel_session_close_function, SessionCallback, Gateway, ClientAnswers,
         WaitForChannel, WaitForChannelFails, LoopFails, LoopCompletes, RequestChannel,
         AgentChannelAnswer, RequestIdentities, IdentitiesAnswer, StartAuthentication, Probe,
         SignatureAnswer, TargetAnswer, CloseAgentChannel, CloseSent, ReplayToTarget,
         ReplayData, ReplayEof
<1>5. sessions' \in 0..MaxSessions /\ sessions' >= sessions /\ hooked' \in 0..sessions'
  BY <1>1, AgentAssumption DEF SessionsOK
<1>6. hungUp' \subseteq 1..sessions'
  <2>1. hungUp' \subseteq 1..sessions
    BY <1>1 DEF SessionsOK
  <2>2. 1..sessions \subseteq 1..sessions'
    BY <1>5, AgentAssumption DEF SessionsOK
  <2> QED
    BY <2>1, <2>2
<1>7. services' \in 0..MaxServices /\ awaited' \in Nat
  BY <1>2, <1>4, AgentAssumption DEF SessionsOK
<1>8. hidden' \in BOOLEAN
  BY <1>3 DEF SessionsOK
<1> QED
  BY <1>5, <1>6, <1>7, <1>8 DEF SessionsOK

\* The callbacks record what they are sent, within the limits of the tables.
LEMMA TypeCallback == Typed /\ Callback => Typed'
<1> SUFFICES ASSUME Typed, Callback PROVE Typed'
  OBVIOUS
<1> USE AgentAssumption
<1> DEFINE SetupOK == /\ setup \in SetupType /\ asked \in SetupType
                      /\ setup.envs <= MAX_ENVS /\ Recorded
<1>1. SetupOK
  BY DEF Typed, TypeOK
<1>sessions. SessionsOK'
  BY SessionsKept DEF Typed, TypeOK
<1> HIDE DEF sessionVars
<1> USE <1>sessions
<1>2. CASE ccb_global_request
  <2>1. SetupOK'
    BY <1>1, <1>2 DEF ccb_global_request, SetupType, Recorded
  <2> QED
    BY <1>2, <2>1 DEF ccb_global_request, Typed, TypeOK, Counted
<1>3. CASE ccb_channel_open_request \/ SessionClosed
  BY <1>3 DEF ccb_channel_open_request, SessionClosed, Typed, TypeOK, Counted, Recorded
<1>close. CASE cbc_agentchannel_session_close_function
  BY <1>close DEF Typed, TypeOK, Counted, Recorded, cbc_agentchannel_session_close_function
<1>4. CASE SessionCallback
  <2>1. UNCHANGED <<loop, sessionVars, awaited>> /\ pc \in ClientIO
    BY <1>4 DEF SessionCallback, Hooked
  <2>2. pc # "done"
    BY <2>1 DEF ClientIO
  <2>3. CASE ccb_session_data
    <3>1. SetupOK'
      BY <1>1, <2>2, <2>3 DEF ccb_session_data, SetupType, Recorded
    <3> QED
      BY <2>1, <2>3, <3>1 DEF ccb_session_data, Typed, TypeOK, Counted
  <2>4. CASE ccb_session_eof \/ ccb_session_pty_request \/ ccb_session_x11_request
    <3>1. SetupOK'
      <4>1. CASE ccb_session_eof
        BY <1>1, <2>2, <4>1 DEF ccb_session_eof, SetupType, Recorded
      <4>2. CASE ccb_session_pty_request
        BY <1>1, <2>2, <4>2 DEF ccb_session_pty_request, SetupType, Recorded
      <4>3. CASE ccb_session_x11_request
        BY <1>1, <2>2, <4>3 DEF ccb_session_x11_request, SetupType, Recorded
      <4> QED
        BY <2>4, <4>1, <4>2, <4>3
    <3> QED
      BY <2>1, <2>4, <3>1 DEF ccb_session_eof, ccb_session_pty_request,
                              ccb_session_x11_request, Typed, TypeOK, Counted
  <2>5. CASE ccb_session_env_request
    <3>1. SetupOK'
      BY <1>1, <2>2, <2>5 DEF ccb_session_env_request, SetupType, Recorded
    <3> QED
      BY <2>1, <2>5, <3>1 DEF ccb_session_env_request, Typed, TypeOK, Counted
  <2>6. CASE ccb_session_auth_agent_request
    <3>1. SetupOK'
      BY <1>1, <2>2, <2>6 DEF ccb_session_auth_agent_request, SetupType, Recorded
    <3> QED
      BY <2>1, <2>6, <3>1 DEF ccb_session_auth_agent_request, Typed, TypeOK, Counted
  <2>7. CASE ccb_session_service_request
    <3>1. SetupOK'
      BY <1>1, <2>2, <2>7 DEF ccb_session_service_request, Disconnect, SetupType, Recorded
    <3> QED
      BY <2>1, <2>7, <3>1 DEF ccb_session_service_request, Disconnect, Typed, TypeOK, Counted
  <2> QED
    BY <1>4, <2>3, <2>4, <2>5, <2>6, <2>7 DEF SessionCallback
<1> QED
  BY <1>2, <1>3, <1>4, <1>close DEF Callback

\* Parts of the record that is replayed.
LEMMA SetupParts ==
  ASSUME NEW s \in SetupType
  PROVE  /\ s.x11 \in BOOLEAN /\ s.data \in Nat /\ 0..s.data \subseteq 0..MaxData
         /\ \A a, b \in BOOLEAN :
              [s EXCEPT !.x11 = a, !.agent = b, !.data = 0, !.eof = FALSE] \in SetupType
         /\ \A n \in 0..MaxData : [s EXCEPT !.data = n] \in SetupType
         /\ \A e \in BOOLEAN : [s EXCEPT !.eof = e] \in SetupType
<1> USE AgentAssumption
<1>1. s.x11 \in BOOLEAN /\ s.data \in 0..MaxData /\ 0 \in 0..MaxData
  BY DEF SetupType
<1>2. s.data \in Nat /\ 0..s.data \subseteq 0..MaxData
  BY <1>1
<1>3. \A a, b \in BOOLEAN :
        [s EXCEPT !.x11 = a, !.agent = b, !.data = 0, !.eof = FALSE] \in SetupType
  BY <1>1 DEF SetupType
<1>4. \A n \in 0..MaxData : [s EXCEPT !.data = n] \in SetupType
  BY DEF SetupType
<1>5. \A e \in BOOLEAN : [s EXCEPT !.eof = e] \in SetupType
  BY DEF SetupType
<1> QED
  BY <1>1, <1>2, <1>3, <1>4, <1>5

\* So do the steps of susshi_pubkey_agent_client_ready().
LEMMA TypeGateway == Typed /\ (Gateway \/ ClientAnswers) => Typed'
<1> SUFFICES ASSUME Typed, Gateway \/ ClientAnswers PROVE Typed'
  OBVIOUS
<1>keys. keys \in Seq(KeyKinds) /\ Len(keys) \in 0..MaxKeys
  BY KeysSeq DEF Typed, TypeOK
<1>sessions. SessionsOK'
  BY SessionsKept DEF Typed, TypeOK
<1> HIDE DEF sessionVars
<1> USE AgentAssumption, <1>sessions DEF Typed, TypeOK, Counted, Recorded
<1>1. CASE WaitForChannel \/ WaitForChannelFails
  <2>1. CASE WaitForChannel
    BY <2>1 DEF WaitForChannel, Disconnect, ClientIO
  <2>2. CASE WaitForChannelFails
    BY <2>2 DEF WaitForChannelFails, Return, ClientIO
  <2> QED
    BY <1>1, <2>1, <2>2
<1>2. CASE LoopFails \/ LoopCompletes \/ RequestChannel \/ AgentChannelAnswer
           \/ RequestIdentities \/ StartAuthentication \/ CloseAgentChannel \/ CloseSent
  BY <1>2 DEF LoopFails, LoopCompletes, RequestChannel, AgentChannelAnswer, RequestIdentities,
              StartAuthentication, CloseAgentChannel, CloseSent, LoopTest,
              GiveUp, Polled, Disconnect, Return, ClientIO
<1>ids. CASE IdentitiesAnswer
  <2>1. /\ UNCHANGED <<polls, keys, target, client, awaited>> /\ pc = "askIds"
        /\ UNCHANGED <<pos, round>> \/ (pos' = 0 /\ round' = 0)
        /\ \/ pc' = "done" /\ exit' = "NO_IDENTITIES" /\ UNCHANGED state
           \/ LoopTest("IDS_RECEIVED")
           \/ LoopTest(state)
           \/ pc' = "spin" /\ UNCHANGED <<state, exit>>
    BY <1>ids DEF IdentitiesAnswer, TalkFails, ReadsForever, Disconnect
  <2>2. pos' \in 0..(2 * MaxKeys) /\ round' \in 0..MaxKeys /\ pos' <= 2 * round'
        /\ round' <= Len(keys')
    BY <1>keys, <2>1
  <2>3. /\ pc' \in {"done", "spin", "replay", "poll"}
        /\ state' \in {"IDS_RECEIVED", state}
        /\ exit' \in {exit, "NO_IDENTITIES", "error", "AGENT_MISSING"}
    BY <2>1 DEF LoopTest, GiveUp, Disconnect, Return
  <2>4. UNCHANGED <<polls, keys, target, setup, asked>>
    BY <2>1
  <2>5. Recorded'
    BY <2>1, <2>4 DEF Recorded
  <2>6. Counted'
    BY <2>2, <2>3 DEF Counted
  <2>7. /\ pc' \in ClientIO \cup {"probe", "sendSig", "replay", "replayData", "replayEof",
                                 "spin", "done"}
        /\ state' \in {"START", "AVAILABLE", "READY", "CHANNEL_OPEN", "IDS_RECEIVED",
                       "SEND_CLOSE", "ATOM_ACTION", "CLOSE_SENT", "COMPLETE", "ERROR"}
        /\ exit' \in {"none", "success", "error", "SESSION_MISSING", "AGENT_MISSING",
                      "NO_IDENTITIES", "SIGNATURE_INVALID", "SHELL_DENIED",
                      "EXEC_DENIED", "SUBS_DENIED", "PROTOCOL_ERROR"}
    BY <2>3 DEF ClientIO
  <2> HIDE DEF Recorded, Counted
  <2>8. TypeOK'
    BY <2>2, <2>4, <2>7 DEF TypeOK
  <2> QED
    BY <2>5, <2>6, <2>8 DEF Typed
<1>3. CASE Probe
  <2>1. CASE round = Len(keys)
    BY <1>3, <2>1 DEF Probe, LoopTest, GiveUp, Disconnect, Return, ClientIO
  <2>2. CASE round # Len(keys)
    <3>1. /\ round' = round + 1 /\ pos' \in {pos + 1, pos + 2}
          /\ pc = "probe" /\ pc' \in {"askSign", "probe"}
          /\ UNCHANGED <<state, exit, polls, client, keys, awaited, target>>
      BY <1>3, <2>2 DEF Probe
    <3>2. round' <= Len(keys) /\ pos' <= 2 * round'
      BY <1>keys, <2>2, <3>1
    <3>3. round' \in 0..MaxKeys /\ pos' \in 0..(2 * MaxKeys)
      BY <1>keys, <3>1, <3>2
    <3> QED
      BY <3>1, <3>2, <3>3 DEF ClientIO
  <2> QED
    BY <2>1, <2>2
<1>4. CASE SignatureAnswer
  BY <1>4 DEF SignatureAnswer, ReadsForever, Disconnect, ClientIO
<1>5. CASE TargetAnswer
  <2>1. PICK answer \in TargetSays :
          /\ target' = [target EXCEPT !.auth = answer = "SUCCESS"]
          /\ \/ LoopTest("SEND_CLOSE")
             \/ pc' = "probe" /\ UNCHANGED <<state, exit>>
    BY <1>5 DEF TargetAnswer
  <2>2. target' \in [auth : BOOLEAN, closed : BOOLEAN, replayed : BOOLEAN, got : SetupType]
    BY <2>1
  <2> QED
    BY <1>5, <2>1, <2>2 DEF TargetAnswer, LoopTest, ClientIO
<1>6. CASE ReplayToTarget
  <2>1. \A x11, agent \in BOOLEAN : Replayed(x11, agent) \in SetupType
    <3>1. setup \in SetupType /\ setup.x11 \in BOOLEAN
      BY SetupParts
    <3>2. \A x11, agent \in BOOLEAN : /\ (setup.x11 /\ x11) \in BOOLEAN
                                      /\ (agent /\ setup.service # "subsystem") \in BOOLEAN
      OBVIOUS
    <3>3. \A a, b \in BOOLEAN :
            [setup EXCEPT !.x11 = a, !.agent = b, !.data = 0, !.eof = FALSE] \in SetupType
      BY <3>1, SetupParts
    <3> QED
      BY <3>2, <3>3 DEF Replayed
  <2>2. target' \in [auth : BOOLEAN, closed : BOOLEAN, replayed : BOOLEAN, got : SetupType]
    <3>1. CASE UNCHANGED target
      BY <3>1
    <3>2. ASSUME NEW x11 \in BOOLEAN, NEW agent \in BOOLEAN, NEW closed \in BOOLEAN,
                 target' = [target EXCEPT !.got = Replayed(x11, agent), !.closed = closed]
          PROVE  target' \in [auth : BOOLEAN, closed : BOOLEAN, replayed : BOOLEAN, got : SetupType]
      BY <2>1, <3>2
    <3> QED
      BY <1>6, <3>1, <3>2 DEF ReplayToTarget
  <2> QED
    BY <1>6, <2>2 DEF ReplayToTarget, ServiceDenied, Disconnect, ClientIO
<1>7. CASE ReplayData
  <2>1. target' \in [auth : BOOLEAN, closed : BOOLEAN, replayed : BOOLEAN, got : SetupType]
    <3>1. CASE UNCHANGED target
      BY <3>1
    <3>2. ASSUME NEW n \in 0..setup.data, NEW closed \in BOOLEAN,
                 target' = [target EXCEPT !.got.data = n, !.closed = closed]
          PROVE  target' \in [auth : BOOLEAN, closed : BOOLEAN, replayed : BOOLEAN, got : SetupType]
      <4>1. n \in 0..MaxData
        BY SetupParts
      <4>2. [target.got EXCEPT !.data = n] \in SetupType
        BY <4>1, SetupParts
      <4>3. target' = [target EXCEPT !.got = [target.got EXCEPT !.data = n], !.closed = closed]
        BY <3>2
      <4> QED
        BY <4>2, <4>3
    <3> QED
      BY <1>7, <3>1, <3>2 DEF ReplayData
  <2> QED
    BY <1>7, <2>1 DEF ReplayData, ClientIO
<1>8. CASE ReplayEof
  <2>1. target' \in [auth : BOOLEAN, closed : BOOLEAN, replayed : BOOLEAN, got : SetupType]
    <3>1. PICK e \in BOOLEAN : target' = [target EXCEPT !.got.eof = e, !.replayed = TRUE]
      BY <1>8 DEF ReplayEof
    <3>2. [target.got EXCEPT !.eof = e] \in SetupType
      BY <3>1, SetupParts
    <3>3. target' = [target EXCEPT !.got = [target.got EXCEPT !.eof = e], !.replayed = TRUE]
      BY <3>1
    <3> QED
      BY <3>2, <3>3
  <2> QED
    BY <1>8, <2>1 DEF ReplayEof, Return, ClientIO
<1> QED
  BY <1>1, <1>2, <1>3, <1>4, <1>5, <1>6, <1>7, <1>8, <1>ids DEF Gateway, ClientAnswers

\* Every step keeps the types and the record.
LEMMA TypeStep == Typed /\ [Next]_vars => Typed'
<1> SUFFICES ASSUME Typed, [Next]_vars PROVE Typed'
  OBVIOUS
<1>1. CASE Idle \/ UNCHANGED vars
  <2>1. SessionsOK'
    BY <1>1 DEF Idle, vars, Typed, TypeOK, SessionsOK
  <2> QED
    BY <1>1, <2>1 DEF Idle, vars, Typed, TypeOK, Counted, Recorded
<1> QED
  BY <1>1, TypeCallback, TypeGateway DEF Next

\* The record the gateway keeps of the client's session, and its position, have
\* their types, for all sizes of its tables.
THEOREM TypeCorrect == Spec => []TypeOK
<1>1. Typed => TypeOK
  BY DEF Typed
<1> QED
  BY <1>1, TypeInit, TypeStep, PTL DEF Spec

-----------------------------------------------------------------------------
(***************************************************************************)
(* The login.  Requests of the client set the state back at any time, so   *)
(* neither the position nor the state alone tells how far the login got.   *)
(* What keeps the replay behind the login is that nothing but an accepted  *)
(* signature leads to SEND_CLOSE, that the callback which sets COMPLETE is *)
(* registered only then, and that no signature is sent after one.          *)
(***************************************************************************)
Signing == {"askSign", "sendSig"}
Replaying == {"replay", "replayData", "replayEof"}

\* What the target got from the first part of the replay.
Handed ==
  /\ target.got.pty = setup.pty /\ target.got.service = setup.service
  /\ target.got.envs = setup.envs /\ target.got.eof = FALSE

LoggedIn ==
  /\ state \in {"SEND_CLOSE", "ATOM_ACTION", "CLOSE_SENT", "COMPLETE"} => target.auth
  /\ awaited > 0 => target.auth
  /\ pc \in Replaying \cup {"flush"} => target.auth
  /\ pc \in Signing => ~target.auth

HandedOver ==
  /\ pc = "replayData" => Handed
  /\ pc = "replayEof" => Handed /\ (~target.closed => target.got.data = setup.data)
  /\ target.replayed => pc = "done" /\ target.auth
  /\ ReplayFaithful

Progress == LoggedIn /\ HandedOver

\* No callback gets the main loop past the agent: the one that completes the
\* login is set only after the target has accepted a signature.
LEMMA ProgressCallback == Typed /\ Progress /\ Callback => Progress'
<1> SUFFICES ASSUME Typed, Progress, Callback PROVE Progress'
  OBVIOUS
<1>1. /\ pc \in ClientIO /\ UNCHANGED target
      /\ UNCHANGED awaited \/ awaited > 0
  BY DEF Callback, ccb_global_request, ccb_channel_open_request, SessionClosed,
         cbc_agentchannel_session_close_function, SessionCallback, Hooked
<1>2. pc' = pc \/ pc' = "done"
  BY DEF Callback, ccb_global_request, ccb_channel_open_request, SessionClosed,
         cbc_agentchannel_session_close_function, SessionCallback, ccb_session_data,
         ccb_session_eof, ccb_session_pty_request, ccb_session_env_request,
         ccb_session_x11_request, ccb_session_auth_agent_request,
         ccb_session_service_request, Disconnect
<1>3. ~target.replayed /\ pc # "done"
  BY <1>1 DEF Progress, HandedOver, ClientIO
<1>4. HandedOver'
  BY <1>1, <1>2, <1>3 DEF HandedOver, ReplayFaithful, ClientIO
<1>5. \/ state' = state
      \/ state' \in {"AVAILABLE", "READY"}
      \/ state' = "COMPLETE" /\ awaited > 0
  BY DEF Callback, ccb_global_request, ccb_channel_open_request, SessionClosed,
         cbc_agentchannel_session_close_function, SessionCallback, ccb_session_data,
         ccb_session_eof, ccb_session_pty_request, ccb_session_env_request,
         ccb_session_x11_request, ccb_session_auth_agent_request,
         ccb_session_service_request
<1>6. LoggedIn'
  BY <1>1, <1>2, <1>5 DEF Progress, LoggedIn, Replaying, Signing
<1> QED
  BY <1>4, <1>6 DEF Progress

\* The main loop gets to the replay only over an accepted signature, and hands
\* over what was recorded.
LEMMA ProgressGateway == Typed /\ Progress /\ (Gateway \/ ClientAnswers) => Progress'
<1> SUFFICES ASSUME Typed, Progress, Gateway \/ ClientAnswers PROVE Progress'
  OBVIOUS
<1>1. (pc # "done" /\ UNCHANGED <<setup, asked, sessionVars>>) \/ WaitForChannel
  BY DEF Gateway, ClientAnswers, WaitForChannelFails, LoopFails, LoopCompletes,
         RequestChannel, AgentChannelAnswer, RequestIdentities, IdentitiesAnswer,
         StartAuthentication, Probe, SignatureAnswer, TargetAnswer, CloseAgentChannel,
         CloseSent, ReplayToTarget, ReplayData, ReplayEof, Polled
<1>2. pc # "done" /\ UNCHANGED <<setup, asked>>
  BY <1>1 DEF WaitForChannel
<1>3. ~target.replayed
  BY <1>2 DEF Progress, HandedOver
<1>4. awaited \in Nat /\ target.auth \in BOOLEAN
  BY DEF Typed, TypeOK, SessionsOK
<1> USE <1>2, <1>3 DEF Progress, LoggedIn, HandedOver, ReplayFaithful, Replaying, Signing
<1>5. CASE WaitForChannel \/ WaitForChannelFails \/ LoopFails \/ LoopCompletes \/ RequestChannel
  BY <1>5 DEF WaitForChannel, WaitForChannelFails, LoopFails, LoopCompletes, RequestChannel,
              LoopTest, GiveUp, Polled, Disconnect, Return
<1>6. CASE AgentChannelAnswer \/ RequestIdentities \/ IdentitiesAnswer \/ StartAuthentication
           \/ CloseSent
  BY <1>6 DEF AgentChannelAnswer, RequestIdentities, IdentitiesAnswer, StartAuthentication,
              CloseSent, TalkFails, ReadsForever, LoopTest, GiveUp, Polled, Disconnect, Return
<1>7. CASE CloseAgentChannel
  BY <1>4, <1>7 DEF CloseAgentChannel, Polled
<1>8. CASE Probe
  <2>1. /\ UNCHANGED <<target, awaited>> /\ pc = "probe"
        /\ \/ LoopTest(state)
           \/ pc' = "probe" /\ UNCHANGED state
           \/ pc' = "askSign" /\ UNCHANGED state /\ KindAt(pos) \in {"unsigned", "accepted"}
    BY <1>8 DEF Probe
  <2>2. KindAt(pos) \in {"unsigned", "accepted"} => ~target.auth
    BY DEF KindAt
  <2> QED
    BY <2>1, <2>2 DEF LoopTest, GiveUp, Disconnect, Return
<1>9. CASE SignatureAnswer
  BY <1>9 DEF SignatureAnswer, ReadsForever, Disconnect
<1>10. CASE TargetAnswer
  <2>1. PICK answer \in TargetSays :
          /\ target' = [target EXCEPT !.auth = answer = "SUCCESS"]
          /\ \/ answer = "SUCCESS" /\ LoopTest("SEND_CLOSE")
             \/ answer # "SUCCESS" /\ pc' = "probe" /\ UNCHANGED <<state, exit>>
    BY <1>10 DEF TargetAnswer, ssh_userauth_get_response, TargetSays
  <2>2. /\ target'.auth = (answer = "SUCCESS") /\ target'.replayed = target.replayed
        /\ pc = "sendSig" /\ UNCHANGED awaited
    BY <1>10, <2>1 DEF Typed, TypeOK, TargetAnswer
  <2> QED
    BY <2>1, <2>2 DEF LoopTest
<1>11. CASE ReplayToTarget
  <2>1. CASE UNCHANGED target /\ pc' = "done"
    BY <1>11, <2>1 DEF ReplayToTarget
  <2>2. ASSUME NEW x11 \in BOOLEAN, NEW agent \in BOOLEAN, NEW closed \in BOOLEAN,
               target' = [target EXCEPT !.got = Replayed(x11, agent), !.closed = closed],
               pc' = "replayData"
        PROVE  Progress'
    <3>1. /\ ~target'.replayed /\ target'.auth = target.auth
          /\ target'.got = Replayed(x11, agent)
      BY <2>2 DEF Typed, TypeOK
    <3>2. Handed'
      BY <3>1 DEF Replayed, Handed, Typed, TypeOK, SetupType
    <3> QED
      BY <1>11, <2>2, <3>1, <3>2 DEF ReplayToTarget
  <2> QED
    BY <1>11, <2>1, <2>2 DEF ReplayToTarget, ServiceDenied, Disconnect
<1>12. CASE ReplayData
  <2>1. UNCHANGED <<state, awaited>> /\ pc = "replayData" /\ pc' = "replayEof"
    BY <1>12 DEF ReplayData
  <2>2. CASE target.closed /\ UNCHANGED target
    BY <2>1, <2>2 DEF Handed
  <2>3. ASSUME NEW n \in 0..setup.data, NEW closed \in BOOLEAN, n < setup.data => closed,
               target' = [target EXCEPT !.got.data = n, !.closed = closed]
        PROVE  Progress'
    <3>1. setup.data \in Nat
      BY DEF Typed, TypeOK, SetupType
    <3>2. /\ target'.auth = target.auth /\ ~target'.replayed /\ target'.closed = closed
          /\ target'.got.pty = target.got.pty /\ target'.got.service = target.got.service
          /\ target'.got.envs = target.got.envs /\ target'.got.eof = target.got.eof
          /\ target'.got.data = n
      BY <2>3 DEF Typed, TypeOK, SetupType
    <3>3. ~closed => n = setup.data
      BY <2>3, <3>1
    <3> QED
      BY <2>1, <3>2, <3>3 DEF Handed
  <2> QED
    BY <1>12, <2>2, <2>3 DEF ReplayData
<1>13. CASE ReplayEof
  <2>1. /\ UNCHANGED <<state, awaited>> /\ pc = "replayEof" /\ pc' = "done"
        /\ target' = [target EXCEPT !.got.eof = setup.eof /\ ~target.closed, !.replayed = TRUE]
    BY <1>13 DEF ReplayEof, Return
  <2>2. /\ target'.auth = target.auth /\ target'.replayed /\ target'.closed = target.closed
        /\ target'.got.pty = target.got.pty /\ target'.got.service = target.got.service
        /\ target'.got.envs = target.got.envs /\ target'.got.data = target.got.data
        /\ target'.got.eof = (setup.eof /\ ~target.closed)
    BY <2>1 DEF Typed, TypeOK, SetupType
  <2>3. /\ setup.data = asked.data /\ setup.eof = asked.eof
        /\ setup.pty = asked.pty /\ setup.service = asked.service
        /\ asked.envs <= MAX_ENVS => setup.envs = asked.envs
    BY DEF Typed, Recorded
  <2>4. setup.eof \in BOOLEAN
    BY DEF Typed, TypeOK, SetupType
  <2> QED
    BY <2>1, <2>2, <2>3, <2>4 DEF Handed
<1> QED
  BY <1>5, <1>6, <1>7, <1>8, <1>9, <1>10, <1>11, <1>12, <1>13 DEF Gateway, ClientAnswers

\* The replay stays behind the login, whatever the callbacks do.
LEMMA ProgressInvariant == Spec => []Progress
<1>1. Init => Progress
  BY DEF Init, Progress, LoggedIn, HandedOver, Handed, Replaying, Signing, ReplayFaithful
<1>2. Typed /\ Progress /\ [Next]_vars => Progress'
  <2> SUFFICES ASSUME Typed, Progress, [Next]_vars PROVE Progress'
    OBVIOUS
  <2>1. CASE Idle \/ UNCHANGED vars
    BY <2>1 DEF Idle, vars, Progress, LoggedIn, HandedOver, Handed, ReplayFaithful
  <2> QED
    BY <2>1, ProgressCallback, ProgressGateway DEF Next
<1> QED
  BY <1>1, <1>2, TypeInit, TypeStep, PTL DEF Spec

\* The target sees nothing of the client's session before it has accepted a
\* signature, for any number of keys, although agent and service requests set
\* the state of the main loop back at any time and as often as they like.
THEOREM ReplayAfterLogin == Spec => []ReplayOnlyAfterLogin
<1>1. Progress => ReplayOnlyAfterLogin
  BY DEF Progress, LoggedIn, HandedOver, Replaying, ReplayOnlyAfterLogin
<1> QED
  BY <1>1, ProgressInvariant, PTL

\* The replay hands over all the client was allowed to send on its one session
\* channel, for all sizes of the gateway's tables; a target that closes its
\* channel meanwhile may miss data and EOF, but gets no EOF without the data.
THEOREM ReplayComplete == Spec => []ReplayFaithful
<1>1. Progress => ReplayFaithful
  BY DEF Progress, HandedOver
<1> QED
  BY <1>1, ProgressInvariant, PTL
=============================================================================
