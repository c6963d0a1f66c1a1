------------------------ MODULE EmbryonicSlotsProofs ------------------------
(***************************************************************************)
(* Proofs about EmbryonicSlots for every number of slots and children,     *)
(* every admission policy that susshi_cfg.c accepts and every grace time.  *)
(***************************************************************************)
EXTENDS EmbryonicSlots, FiniteSetTheorems, TLAPS

-----------------------------------------------------------------------------
(***************************************************************************)
(* The scan of susshi_master_current_embryonics().                         *)
(***************************************************************************)

\* The scan leaves an array of timestamps.
LEMMA ScannedType ==
  ASSUME NEW s \in [Slots -> Nat]
  PROVE  Scanned(s) \in [Slots -> Nat]
BY DEF Scanned

\* The number of live slots lies between zero and the size of the array, and
\* it reaches the size only if every slot is live.
LEMMA NumLiveBounds ==
  ASSUME NEW s \in [Slots -> Nat]
  PROVE  /\ NumLive(s) \in 0..MaxEmbryonics
         /\ NumLive(s) = MaxEmbryonics => \A i \in Slots : Live(s, i)
<1> DEFINE L == {i \in Slots : Live(s, i)}
<1>1. IsFiniteSet(Slots) /\ Cardinality(Slots) = MaxEmbryonics
  BY EmbryonicsAssumption, FS_Interval DEF Slots
<1>2. /\ L \subseteq Slots
      /\ IsFiniteSet(L)
      /\ Cardinality(L) <= Cardinality(Slots)
      /\ Cardinality(L) = Cardinality(Slots) => L = Slots
  <2>1. L \subseteq Slots
    OBVIOUS
  <2> HIDE DEF L
  <2>2. QED
    BY <1>1, <2>1, FS_Subset
<1>3. Cardinality(L) \in Nat
  BY <1>2, FS_CardinalityType
<1>4. NumLive(s) = Cardinality(L)
  BY DEF NumLive
<1>5. QED
  BY <1>1, <1>2, <1>3, <1>4, EmbryonicsAssumption

\* A live slot survives the scan.
LEMMA LiveSurvives ==
  ASSUME NEW s, NEW i \in Slots, Live(s, i)
  PROVE  Scanned(s)[i] = s[i]
BY DEF Scanned

-----------------------------------------------------------------------------
(***************************************************************************)
(* Type correctness.                                                       *)
(***************************************************************************)

\* The scan keeps the types of the array and of its count.
LEMMA CurrentEmbryonicsType ==
  ASSUME NEW s \in [Slots -> Nat], CurrentEmbryonics(s)
  PROVE  slots' \in [Slots -> Nat] /\ current' \in Nat
BY ScannedType, NumLiveBounds, EmbryonicsAssumption DEF CurrentEmbryonics

\* The types hold at the start.
LEMMA InitTypeOK == Init => TypeOK
<1> SUFFICES ASSUME Init PROVE TypeOK
  OBVIOUS
<1>1. 0 \in Slots /\ StartTime \in Nat
  BY EmbryonicsAssumption DEF Slots, StartTime
<1>2. sigchld \in BOOLEAN /\ overran \in BOOLEAN
  BY Zenon DEF Init
<1>3. slots \in [Slots -> Nat] /\ slotId \in [Children -> Slots]
  BY <1>1 DEF Init
<1>4. phase \in [Children -> Phases]
  BY DEF Init, Phases
<1>5. segId \in [Children -> Nat] /\ claimedAt \in [Children -> Nat]
  BY DEF Init
<1>6. now \in Nat /\ now >= StartTime /\ current \in Nat /\ polledAt \in Nat
         /\ segment \in Nat
  BY <1>1 DEF Init
<1>7. QED
  BY <1>2, <1>3, <1>4, <1>5, <1>6 DEF TypeOK

\* Every step keeps the types.
LEMMA NextTypeOK == TypeOK /\ [Next]_vars => TypeOK'
<1> SUFFICES ASSUME TypeOK, [Next]_vars PROVE TypeOK'
  OBVIOUS
<1> USE DEF TypeOK, Phases
<1>1. ASSUME NEW c \in Children, Refuse(c) PROVE TypeOK'
  BY <1>1, CurrentEmbryonicsType DEF Refuse
<1>2. ASSUME NEW c \in Children, Claim(c) PROVE TypeOK'
  <2>1. PICK i \in Slots : /\ CurrentEmbryonics([Scanned(slots) EXCEPT ![i] = now])
                           /\ slotId' = [slotId EXCEPT ![c] = i]
    BY <1>2 DEF Claim, FreeSlots
  <2>2. [Scanned(slots) EXCEPT ![i] = now] \in [Slots -> Nat]
    BY ScannedType
  <2>3. slots' \in [Slots -> Nat] /\ current' \in Nat
    BY <2>1, <2>2, CurrentEmbryonicsType
  <2>4. QED
    BY <1>2, <2>1, <2>3 DEF Claim
<1>3. ASSUME NEW c \in Children, Fork(c) PROVE TypeOK'
  BY <1>3, CurrentEmbryonicsType DEF Fork
<1>4. ASSUME NEW c \in Children, ForkFails(c) PROVE TypeOK'
  BY <1>4 DEF ForkFails
<1>5. CASE HandleSigchld
  <2>1. slots' \in [Slots -> Nat] /\ current' \in Nat
    BY <1>5, CurrentEmbryonicsType DEF HandleSigchld
  <2>2. sigchld' \in BOOLEAN
    BY <1>5, Zenon DEF HandleSigchld
  <2>3. UNCHANGED <<now, segment, phase, slotId, segId, claimedAt, overran>>
          /\ polledAt' = now
    BY <1>5, Zenon DEF HandleSigchld
  <2>4. QED
    BY <2>1, <2>2, <2>3
<1>6. CASE PollTimeout
  BY <1>6, CurrentEmbryonicsType DEF PollTimeout
<1>7. ASSUME NEW c \in Children, Authenticated(c) PROVE TypeOK'
  BY <1>7 DEF Authenticated, FreeSlot
<1>8. ASSUME NEW c \in Children, QuitEmbryonic(c) PROVE TypeOK'
  BY <1>8 DEF QuitEmbryonic
<1>9. ASSUME NEW c \in Children, QuitSession(c) PROVE TypeOK'
  BY <1>9 DEF QuitSession
<1>10. CASE Restart
  <2>1. overran' \in BOOLEAN
    BY <1>10, Zenon DEF Restart
  <2>2. QED
    BY <1>10, <2>1 DEF Restart
<1>11. CASE Tick
  BY <1>11, EmbryonicsAssumption DEF Tick, StartTime
<1>12. CASE UNCHANGED vars
  BY <1>12 DEF vars
<1>13. QED
  BY <1>1, <1>2, <1>3, <1>4, <1>5, <1>6, <1>7, <1>8, <1>9, <1>10, <1>11, <1>12
  DEF Next, Master, Child

\* Every variable keeps its type: in particular the timestamps that the master
\* and its children write are never negative.
THEOREM TypeCorrect == Spec => []TypeOK
BY InitTypeOK, NextTypeOK, PTL DEF Spec

-----------------------------------------------------------------------------
(***************************************************************************)
(* No overbooking.  NoOverbookingUnlessOverrun is not inductive: it says   *)
(* nothing about the age of a claim, so a scan could clear it, and nothing *)
(* about children of other segments, which a restart could turn into       *)
(* claimants.                                                              *)
(***************************************************************************)

\* No child is attached to a segment that does not exist yet.
SegmentsKnown == \A c \in Children : segId[c] <= segment

\* Unless a child overran, every claim is younger than the grace time.
ClaimsYoung == ~overran => \A c \in Claimants : now - GraceTime < claimedAt[c]

IInv == TypeOK /\ SegmentsKnown /\ ClaimsYoung /\ NoOverbookingUnlessOverrun

\* The scan keeps the claims of a state that satisfies the invariant.
LEMMA ScanKeepsClaims ==
  ASSUME IInv, ~overran, NEW c \in Claimants
  PROVE  Scanned(slots)[slotId[c]] = claimedAt[c]
<1>1. c \in Children
  BY DEF Claimants
<1>2. slotId[c] \in Slots
  BY <1>1 DEF IInv, TypeOK
<1>3. slots[slotId[c]] = claimedAt[c] /\ now - GraceTime < claimedAt[c]
  BY DEF IInv, ClaimsYoung, NoOverbookingUnlessOverrun
<1>4. Live(slots, slotId[c])
  BY <1>3 DEF Live
<1>5. QED
  BY <1>2, <1>3, <1>4, LiveSurvives

\* A step that changes the slots by a scan at most, adds no claimant and
\* moves no claim keeps the invariant.
LEMMA ScanStep ==
  ASSUME IInv, TypeOK',
         slots' = Scanned(slots) \/ slots' = slots,
         UNCHANGED <<now, segment, slotId, segId, claimedAt, overran>>,
         Claimants' \subseteq Claimants
  PROVE  IInv'
<1>1. SegmentsKnown'
  BY DEF IInv, SegmentsKnown
<1>2. ClaimsYoung'
  BY DEF IInv, ClaimsYoung
<1>3. NoOverbookingUnlessOverrun'
  <2> SUFFICES ASSUME ~overran'
               PROVE  /\ \A c \in Claimants' : slots'[slotId'[c]] = claimedAt'[c]
                      /\ \A c, d \in Claimants' : slotId'[c] = slotId'[d] => c = d
    BY DEF NoOverbookingUnlessOverrun
  <2>1. \A c \in Claimants : /\ Scanned(slots)[slotId[c]] = claimedAt[c]
                             /\ slots[slotId[c]] = claimedAt[c]
    BY ScanKeepsClaims DEF IInv, NoOverbookingUnlessOverrun
  <2>2. \A c, d \in Claimants : slotId[c] = slotId[d] => c = d
    BY DEF IInv, NoOverbookingUnlessOverrun
  <2>3. QED
    BY <2>1, <2>2
<1>4. QED
  BY <1>1, <1>2, <1>3 DEF IInv

\* The invariant holds at the start.
LEMMA InitIInv == Init => IInv
<1> SUFFICES ASSUME Init PROVE IInv
  OBVIOUS
<1>1. Claimants = {}
  BY DEF Init, Claimants
<1>2. SegmentsKnown
  BY DEF Init, SegmentsKnown
<1>3. QED
  BY <1>1, <1>2, InitTypeOK DEF IInv, ClaimsYoung, NoOverbookingUnlessOverrun

\* The claim: the slot it takes belongs to no other child.
LEMMA ClaimIInv ==
  ASSUME IInv, TypeOK', NEW c \in Children, Claim(c)
  PROVE  IInv'
<1> USE DEF IInv
<1>1. PICK i \in FreeSlots(Scanned(slots)) :
            /\ slots' = Scanned([Scanned(slots) EXCEPT ![i] = now])
            /\ slotId' = [slotId EXCEPT ![c] = i]
  BY DEF Claim, CurrentEmbryonics
<1>2. /\ i \in Slots
      /\ now - GraceTime > Scanned(slots)[i]
  BY DEF FreeSlots
<1>3. /\ phase[c] = "idle"
      /\ phase' = [phase EXCEPT ![c] = "forking"]
      /\ segId' = [segId EXCEPT ![c] = segment]
      /\ claimedAt' = [claimedAt EXCEPT ![c] = now]
      /\ UNCHANGED <<now, segment, overran>>
  BY DEF Claim
<1>4. Claimants' = Claimants \cup {c} /\ c \notin Claimants
  BY <1>3 DEF Claimants, TypeOK, Phases
<1>5. SegmentsKnown'
  BY <1>3 DEF SegmentsKnown, TypeOK
<1>6. ClaimsYoung'
  BY <1>3, <1>4, EmbryonicsAssumption DEF ClaimsYoung, TypeOK, Claimants
<1>7. NoOverbookingUnlessOverrun'
  <2> SUFFICES ASSUME ~overran
               PROVE  /\ \A d \in Claimants' : slots'[slotId'[d]] = claimedAt'[d]
                      /\ \A d, e \in Claimants' : slotId'[d] = slotId'[e] => d = e
    BY <1>3 DEF NoOverbookingUnlessOverrun
  <2> DEFINE s == [Scanned(slots) EXCEPT ![i] = now]
  <2>1. Scanned(slots) \in [Slots -> Nat]
    BY ScannedType DEF TypeOK
  <2>2. slots'[i] = now
    <3>1. s[i] = now
      BY <1>2, <2>1
    <3>2. Live(s, i)
      BY <3>1, EmbryonicsAssumption DEF Live, TypeOK
    <3>3. QED
      BY <1>1, <1>2, <3>1, <3>2, LiveSurvives
  <2>3. ASSUME NEW d \in Claimants
        PROVE  /\ d \in Children /\ d # c
               /\ slotId[d] # i
               /\ slots'[slotId[d]] = claimedAt[d]
    <3>1. d \in Children /\ d # c /\ slotId[d] \in Slots
      BY <1>4 DEF Claimants, TypeOK
    <3>2. Scanned(slots)[slotId[d]] = claimedAt[d]
      BY ScanKeepsClaims
    <3>3. now - GraceTime < claimedAt[d]
      BY DEF ClaimsYoung
    <3>4. slotId[d] # i
      BY <1>2, <3>1, <3>2, <3>3, EmbryonicsAssumption DEF TypeOK
    <3>5. s[slotId[d]] = claimedAt[d]
      BY <2>1, <3>1, <3>2, <3>4
    <3>6. Live(s, slotId[d])
      BY <3>3, <3>5 DEF Live
    <3>7. slots'[slotId[d]] = claimedAt[d]
      BY <1>1, <3>1, <3>5, <3>6, LiveSurvives
    <3>8. QED
      BY <3>1, <3>4, <3>7
  <2>4. slotId'[c] = i /\ claimedAt'[c] = now
    BY <1>1, <1>3 DEF TypeOK
  <2>5. \A d \in Claimants : slotId'[d] = slotId[d] /\ claimedAt'[d] = claimedAt[d]
    BY <1>1, <1>3, <2>3 DEF TypeOK
  <2>6. \A d, e \in Claimants : slotId[d] = slotId[e] => d = e
    BY DEF NoOverbookingUnlessOverrun
  <2> HIDE DEF s
  <2>7. QED
    BY <1>4, <2>2, <2>3, <2>4, <2>5, <2>6
<1>8. QED
  BY <1>5, <1>6, <1>7

\* A child reports that its user is authenticated.
LEMMA AuthenticatedIInv ==
  ASSUME IInv, TypeOK', NEW c \in Children, Authenticated(c)
  PROVE  IInv'
<1> USE DEF IInv
<1>1. /\ phase[c] = "embryonic"
      /\ phase' = [phase EXCEPT ![c] = "session"]
      /\ UNCHANGED <<now, segment, slotId, segId, claimedAt, overran>>
  BY DEF Authenticated
<1>2. Claimants' = Claimants \ {c}
  BY <1>1 DEF Claimants, TypeOK
<1>3. SegmentsKnown' /\ ClaimsYoung'
  BY <1>1, <1>2 DEF SegmentsKnown, ClaimsYoung
<1>4. NoOverbookingUnlessOverrun'
  <2> SUFFICES ASSUME ~overran
               PROVE  /\ \A d \in Claimants' : slots'[slotId[d]] = claimedAt[d]
                      /\ \A d, e \in Claimants' : slotId[d] = slotId[e] => d = e
    BY <1>1 DEF NoOverbookingUnlessOverrun
  <2>1. /\ \A d \in Claimants : slots[slotId[d]] = claimedAt[d]
        /\ \A d, e \in Claimants : slotId[d] = slotId[e] => d = e
    BY DEF NoOverbookingUnlessOverrun
  <2>2. \A d \in Claimants' : slots'[slotId[d]] = claimedAt[d]
    <3>1. CASE segId[c] = segment
      <4>1. c \in Claimants
        BY <1>1, <3>1 DEF Claimants
      <4>2. slots' = [slots EXCEPT ![slotId[c]] = 0]
        BY <3>1 DEF Authenticated, FreeSlot
      <4>3. \A d \in Claimants' : d \in Claimants /\ slotId[d] # slotId[c]
        BY <1>2, <2>1, <4>1
      <4>4. QED
        BY <2>1, <4>2, <4>3 DEF TypeOK, Claimants
    <3>2. CASE segId[c] # segment
      BY <1>2, <2>1, <3>2 DEF Authenticated, FreeSlot
    <3>3. QED
      BY <3>1, <3>2
  <2>3. QED
    BY <1>2, <2>1, <2>2
<1>5. QED
  BY <1>3, <1>4

\* A restart leaves every earlier child behind in an older segment.
LEMMA RestartIInv ==
  ASSUME IInv, TypeOK', Restart
  PROVE  IInv'
<1>1. segment' = segment + 1 /\ segId' = segId
  BY DEF Restart
<1>2. \A c \in Children : segId'[c] < segment'
  BY <1>1 DEF IInv, SegmentsKnown, TypeOK
<1>3. Claimants' = {}
  BY <1>2 DEF Claimants, IInv, TypeOK
<1>4. SegmentsKnown'
  BY <1>1 DEF IInv, SegmentsKnown, TypeOK
<1>5. QED
  BY <1>3, <1>4 DEF IInv, ClaimsYoung, NoOverbookingUnlessOverrun

\* The clock may only age a claim to the grace time by raising overran.
LEMMA TickIInv ==
  ASSUME IInv, TypeOK', Tick
  PROVE  IInv'
<1>0. TypeOK'
  OBVIOUS
<1>1. /\ now' = now + 1
      /\ overran' = (overran \/ \E c \in Claimants : now' - claimedAt[c] >= GraceTime)
      /\ UNCHANGED <<slots, segment, phase, slotId, segId, claimedAt>>
  BY DEF Tick
<1>2. Claimants' = Claimants
  BY <1>1 DEF Claimants
<1>3. SegmentsKnown'
  BY <1>1 DEF IInv, SegmentsKnown
<1>4. ClaimsYoung'
  <2> SUFFICES ASSUME ~overran', NEW c \in Claimants
               PROVE  now' - GraceTime < claimedAt[c]
    BY <1>1, <1>2, Zenon DEF ClaimsYoung
  <2>1. ~(now' - claimedAt[c] >= GraceTime)
    BY <1>1, Zenon
  <2>2. now' \in Nat /\ claimedAt[c] \in Nat /\ GraceTime \in Nat
    BY <1>0, EmbryonicsAssumption DEF IInv, TypeOK, Claimants
  <2>3. QED
    BY <2>1, <2>2
<1>5. NoOverbookingUnlessOverrun'
  BY <1>1, <1>2 DEF IInv, NoOverbookingUnlessOverrun
<1>6. QED
  BY <1>3, <1>4, <1>5 DEF IInv

\* Every step keeps the invariant.
LEMMA NextIInv == IInv /\ [Next]_vars => IInv'
<1> SUFFICES ASSUME IInv, [Next]_vars PROVE IInv'
  OBVIOUS
<1>0. TypeOK'
  BY NextTypeOK DEF IInv
<1>1. ASSUME NEW c \in Children, Refuse(c) PROVE IInv'
  <2>1. Claimants' \subseteq Claimants
    BY <1>1 DEF Refuse, Claimants, IInv, TypeOK
  <2>2. QED
    BY <1>0, <1>1, <2>1, ScanStep DEF Refuse, CurrentEmbryonics
<1>2. ASSUME NEW c \in Children, Claim(c) PROVE IInv'
  BY <1>0, <1>2, ClaimIInv
<1>3. ASSUME NEW c \in Children, Fork(c) PROVE IInv'
  <2>1. Claimants' \subseteq Claimants
    BY <1>3 DEF Fork, Claimants, IInv, TypeOK
  <2>2. QED
    BY <1>0, <1>3, <2>1, ScanStep DEF Fork, CurrentEmbryonics
<1>4. ASSUME NEW c \in Children, ForkFails(c) PROVE IInv'
  <2>1. Claimants' \subseteq Claimants
    BY <1>4 DEF ForkFails, Claimants, IInv, TypeOK
  <2>2. QED
    BY <1>0, <1>4, <2>1, ScanStep DEF ForkFails
<1>5. CASE HandleSigchld
  <2>1. Claimants' \subseteq Claimants
    BY <1>5 DEF HandleSigchld, Claimants
  <2>2. QED
    BY <1>0, <1>5, <2>1, ScanStep DEF HandleSigchld, CurrentEmbryonics
<1>6. CASE PollTimeout
  <2>1. Claimants' \subseteq Claimants
    BY <1>6 DEF PollTimeout, Claimants
  <2>2. QED
    BY <1>0, <1>6, <2>1, ScanStep DEF PollTimeout, CurrentEmbryonics
<1>7. ASSUME NEW c \in Children, Authenticated(c) PROVE IInv'
  BY <1>0, <1>7, AuthenticatedIInv
<1>8. ASSUME NEW c \in Children, QuitEmbryonic(c) PROVE IInv'
  <2>1. Claimants' \subseteq Claimants
    BY <1>8 DEF QuitEmbryonic, Claimants, IInv, TypeOK
  <2>2. QED
    BY <1>0, <1>8, <2>1, ScanStep DEF QuitEmbryonic
<1>9. ASSUME NEW c \in Children, QuitSession(c) PROVE IInv'
  <2>1. Claimants' \subseteq Claimants
    BY <1>9 DEF QuitSession, Claimants, IInv, TypeOK
  <2>2. QED
    BY <1>0, <1>9, <2>1, ScanStep DEF QuitSession
<1>10. CASE Restart
  BY <1>0, <1>10, RestartIInv
<1>11. CASE Tick
  BY <1>0, <1>11, TickIInv
<1>12. CASE UNCHANGED vars
  <2>1. Claimants' \subseteq Claimants
    BY <1>12 DEF vars, Claimants
  <2>2. QED
    BY <1>0, <1>12, <2>1, ScanStep DEF vars
<1>13. QED
  BY <1>1, <1>2, <1>3, <1>4, <1>5, <1>6, <1>7, <1>8, <1>9, <1>10, <1>11, <1>12
  DEF Next, Master, Child

\* Unless a child stays unauthenticated for the whole grace time, two children
\* never own the same slot and no scan takes a slot from its child, through
\* any interleaving of the master, the children and restarts.
THEOREM NoOverbooking == Spec => []NoOverbookingUnlessOverrun
<1>1. IInv => NoOverbookingUnlessOverrun
  BY DEF IInv
<1>2. QED
  BY <1>1, InitIInv, NextIInv, PTL DEF Spec

-----------------------------------------------------------------------------
(***************************************************************************)
(* The admission law.                                                      *)
(***************************************************************************)

\* Products of naturals are monotone.
LEMMA TimesMonotone ==
  ASSUME NEW a \in Nat, NEW b \in Nat, NEW c \in Nat, b <= c
  PROVE  a * b <= a * c
BY SMT

\* Scaling a by at most one does not exceed a, and by exactly one yields a.
LEMMA ScaleDown ==
  ASSUME NEW a \in Nat, NEW k \in Nat, NEW m \in Nat \ {0}, k <= m
  PROVE  /\ ((a * k) \div m) \in 0..a
         /\ k = m => ((a * k) \div m) = a
<1> DEFINE q == (a * k) \div m
<1>1. a * k \in Nat /\ a * k <= a * m
  BY TimesMonotone
<1>2. /\ q \in Int
      /\ m * q <= a * k
      /\ a * k < m * (q + 1)
  BY <1>1
<1>3. q <= a
  <2> SUFFICES ASSUME q >= a + 1 PROVE FALSE
    BY <1>2
  <2>1. m * (a + 1) <= m * q
    BY <1>2, TimesMonotone
  <2>2. QED
    BY <1>1, <1>2, <2>1
<1>4. q >= 0
  <2> SUFFICES ASSUME q + 1 <= 0 PROVE FALSE
    BY <1>2
  <2>1. m * (q + 1) <= 0
    BY <1>2
  <2>2. QED
    BY <1>1, <1>2, <2>1
<1>5. k = m => q >= a
  <2> SUFFICES ASSUME k = m, q + 1 <= a PROVE FALSE
    BY <1>2
  <2>1. m * (q + 1) <= m * a
    BY <1>2, <1>4, TimesMonotone
  <2>2. QED
    BY <1>1, <1>2, <2>1
<1>6. QED
  BY <1>2, <1>3, <1>4, <1>5

\* The linear ramp of susshi_master_new_embryonic_slot().
LEMMA Ramp ==
  ASSUME NEW n \in 0..MaxEmbryonics
  PROVE  /\ RejectPercent(n) \in 0..100
         /\ n <= EmbryonicsStart => RejectPercent(n) = 0
         /\ n > EmbryonicsStart => RejectPercent(n) >= EmbryonicsRate
         /\ n = MaxEmbryonics => RejectPercent(n) = 100
<1> USE EmbryonicsAssumption
<1>1. CASE n <= EmbryonicsStart
  BY <1>1 DEF RejectPercent
<1>2. CASE n > EmbryonicsStart
  <2> DEFINE a == 100 - EmbryonicsRate
             k == n - EmbryonicsStart
             m == MaxEmbryonics - EmbryonicsStart
             q == (a * k) \div m
  <2>1. a \in Nat /\ k \in Nat /\ m \in Nat \ {0} /\ k <= m /\ (n = MaxEmbryonics => k = m)
    BY <1>2
  <2>2. RejectPercent(n) = IF EmbryonicsRate = 100 THEN 100 ELSE q + EmbryonicsRate
    BY <1>2 DEF RejectPercent
  <2>3. q \in 0..a /\ (k = m => q = a)
    <3> HIDE DEF a, k, m
    <3>1. QED
      BY <2>1, ScaleDown
  <2> HIDE DEF q
  <2>4. QED
    BY <1>2, <2>1, <2>2, <2>3
<1>3. QED
  BY <1>1, <1>2

\* The law of admission follows from the types.
LEMMA TypeAdmits == TypeOK => AdmissionLaw
<1> SUFFICES ASSUME TypeOK PROVE AdmissionLaw
  OBVIOUS
<1> DEFINE n == NumLive(slots)
<1>1. n \in 0..MaxEmbryonics /\ (n = MaxEmbryonics => \A i \in Slots : Live(slots, i))
  BY NumLiveBounds DEF TypeOK
<1>2. /\ RejectPercent(n) \in 0..100
      /\ n <= EmbryonicsStart => RejectPercent(n) = 0
      /\ n > EmbryonicsStart => RejectPercent(n) >= EmbryonicsRate
      /\ n = MaxEmbryonics => RejectPercent(n) = 100
  BY <1>1, Ramp
<1>3. ASSUME RejectPercent(n) < 100 PROVE FreeSlots(Scanned(slots)) # {}
  <2>1. n # MaxEmbryonics
    BY <1>2, <1>3
  <2>2. PICK i \in Slots : ~Live(slots, i)
    <3>1. (\A i \in Slots : Live(slots, i)) => n = Cardinality(Slots)
      <4> SUFFICES ASSUME \A i \in Slots : Live(slots, i)
                   PROVE  {i \in Slots : Live(slots, i)} = Slots
        BY DEF NumLive
      <4>1. QED
        OBVIOUS
    <3>2. Cardinality(Slots) = MaxEmbryonics
      BY EmbryonicsAssumption, FS_Interval DEF Slots
    <3>3. QED
      BY <2>1, <3>1, <3>2
  <2>3. Scanned(slots)[i] = 0
    BY <2>2 DEF Scanned
  <2>4. i \in FreeSlots(Scanned(slots))
    BY <2>3, EmbryonicsAssumption DEF FreeSlots, TypeOK, StartTime
  <2>5. QED
    BY <2>4
<1>4. QED
  BY <1>1, <1>2, <1>3, EmbryonicsAssumption DEF AdmissionLaw

\* For every admission policy Start:Rate:Max that susshi_cfg.c accepts, the
\* random early drop is a percentage that is zero below Start, at least Rate
\* above it and 100 at Max, and a connection that survives it always finds a free slot.
THEOREM Admission == Spec => []AdmissionLaw
BY TypeCorrect, TypeAdmits, PTL
=============================================================================
