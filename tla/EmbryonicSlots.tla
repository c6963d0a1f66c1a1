--------------------------- MODULE EmbryonicSlots ---------------------------
(***************************************************************************)
(* The embryonic slots of the susshid master (src/susshid/master-loop.c).  *)
(*                                                                         *)
(* The master accepts a connection, claims a slot in shared memory by      *)
(* writing the current time into it, and forks a child that inherits the   *)
(* slot's number.  The child clears the slot once its client is            *)
(* authenticated; a slot whose timestamp is older than the grace time is   *)
(* taken to be free by the master.  A SIGHUP makes the master run its main *)
(* loop again on a fresh shared memory segment, while the children of the  *)
(* earlier loop keep the old one.                                          *)
(***************************************************************************)
EXTENDS Integers, FiniteSets

CONSTANTS
  Children,         \* connections, each served by the child forked for it
  MaxEmbryonics,    \* susshi_cfg.max_embryonics: number of slots
  EmbryonicsStart,  \* susshi_cfg.max_embryonics_start
  EmbryonicsRate,   \* susshi_cfg.max_embryonics_rate, in percent
  GraceTime,        \* susshi_cfg.embryonic_grace_time, in seconds
  LastArrival,      \* bound: no connection arrives after this second
  MaxTime,          \* bound: the clock stops at this second
  MaxRestarts       \* bound on the number of SIGHUP restarts

(***************************************************************************)
(* susshi_cfg.c refuses Start >= Max and a rate outside 1..100.            *)
(***************************************************************************)
ASSUME EmbryonicsAssumption ==
  /\ MaxEmbryonics \in Nat \ {0}
  /\ EmbryonicsStart \in 0..(MaxEmbryonics - 1)
  /\ EmbryonicsRate \in 1..100
  /\ GraceTime \in Nat \ {0}
  /\ LastArrival \in Nat
  /\ MaxTime \in Nat
  /\ MaxRestarts \in Nat

VARIABLES
  now,        \* time(NULL)
  slots,      \* susshi_embryonic_slots[i].timestamp of the master's segment
  current,    \* current_embryonics, as the last scan left it
  polledAt,   \* when the master last entered poll()
  sigchld,    \* sigchld_received
  segment,    \* which shared memory segment the master uses
  phase,      \* what each connection's process is doing
  slotId,     \* susshi_session.embryonic_slot_id of each child
  segId,      \* the segment each child is attached to
  claimedAt,  \* history: when the slot of each child was claimed for it
  overran     \* history: a child of this segment stayed embryonic for GraceTime

vars == <<now, slots, current, polledAt, sigchld, segment, phase, slotId,
          segId, claimedAt, overran>>

Slots == 0..(MaxEmbryonics - 1)

\* The clock is far from the epoch: now - GraceTime is never below zero.
StartTime == GraceTime + 1

Phases == {"idle", "forking", "embryonic", "session", "gone"}

TypeOK ==
  /\ now \in Nat /\ now >= StartTime
  /\ slots \in [Slots -> Nat]
  /\ current \in Nat
  /\ polledAt \in Nat
  /\ sigchld \in BOOLEAN
  /\ segment \in Nat
  /\ phase \in [Children -> Phases]
  /\ slotId \in [Children -> Slots]
  /\ segId \in [Children -> Nat]
  /\ claimedAt \in [Children -> Nat]
  /\ overran \in BOOLEAN

-----------------------------------------------------------------------------
(***************************************************************************)
(* Helpers of the master.                                                  *)
(***************************************************************************)

\* A slot counts as embryonic while its timestamp is younger than GraceTime.
Live(s, i) == now - GraceTime < s[i]

\* Mutant of Scanned: the scan forgets to clear expired slots.
ScannedKeepsExpired(s) == s

\* The scan clears every slot that it does not count.
Scanned(s) == [i \in Slots |-> IF Live(s, i) THEN s[i] ELSE 0]

NumLive(s) == Cardinality({i \in Slots : Live(s, i)})

\* Percentage of connections that are refused when n slots are live.
RejectPercent(n) ==
  IF n <= EmbryonicsStart
    THEN 0
    ELSE IF EmbryonicsRate = 100
      THEN 100
      ELSE (((100 - EmbryonicsRate) * (n - EmbryonicsStart))
              \div (MaxEmbryonics - EmbryonicsStart)) + EmbryonicsRate

\* Mutant of FreeSlots: the search ignores the timestamps.
FreeSlotsAnyAge(s) == Slots

\* Slots that the search for a free slot accepts.
FreeSlots(s) == {i \in Slots : now - GraceTime > s[i]}

Embryonic(c) == phase[c] = "embryonic" /\ segId[c] = segment

\* Children whose claim is in the master's segment and not yet given back.
Claimants == {c \in Children : phase[c] \in {"forking", "embryonic"}
                                 /\ segId[c] = segment}

Polling == \A c \in Children : phase[c] # "forking"

-----------------------------------------------------------------------------
Init ==
  /\ now = StartTime
  /\ slots = [i \in Slots |-> 0]
  /\ current = 0
  /\ polledAt = StartTime
  /\ sigchld = FALSE
  /\ segment = 0
  /\ phase = [c \in Children |-> "idle"]
  /\ slotId = [c \in Children |-> 0]
  /\ segId = [c \in Children |-> 0]
  /\ claimedAt = [c \in Children |-> 0]
  /\ overran = FALSE

\* susshi_master_current_embryonics() on the array s.
CurrentEmbryonics(s) ==
  /\ slots' = Scanned(s)
  /\ current' = NumLive(s)

\* accept() succeeded and susshi_master_new_embryonic_slot() returned -1:
\* the random early drop hit, or no slot is free.
Refuse(c) ==
  /\ Polling /\ phase[c] = "idle" /\ now <= LastArrival
  /\ \/ RejectPercent(NumLive(slots)) > 0
     \/ FreeSlots(Scanned(slots)) = {}
  /\ CurrentEmbryonics(slots)
  /\ phase' = [phase EXCEPT ![c] = "gone"]
  /\ polledAt' = now
  /\ UNCHANGED <<now, sigchld, segment, slotId, segId, claimedAt, overran>>

\* accept() succeeded and the first free slot was claimed; the proctitle
\* update scans the slots once more.
Claim(c) ==
  /\ Polling /\ phase[c] = "idle" /\ now <= LastArrival
  /\ RejectPercent(NumLive(slots)) < 100
  /\ \E i \in FreeSlots(Scanned(slots)) :
       /\ \A j \in FreeSlots(Scanned(slots)) : i <= j
       /\ CurrentEmbryonics([Scanned(slots) EXCEPT ![i] = now])
       /\ slotId' = [slotId EXCEPT ![c] = i]
  /\ phase' = [phase EXCEPT ![c] = "forking"]
  /\ segId' = [segId EXCEPT ![c] = segment]
  /\ claimedAt' = [claimedAt EXCEPT ![c] = now]
  /\ UNCHANGED <<now, polledAt, sigchld, segment, overran>>

\* fork() returned in the parent; the child starts to serve the client.
Fork(c) ==
  /\ phase[c] = "forking"
  /\ phase' = [phase EXCEPT ![c] = "embryonic"]
  /\ CurrentEmbryonics(slots)
  /\ polledAt' = now
  /\ UNCHANGED <<now, sigchld, segment, slotId, segId, claimedAt, overran>>

\* fork() failed: the slot stays claimed and the connection is not served.
ForkFails(c) ==
  /\ phase[c] = "forking"
  /\ phase' = [phase EXCEPT ![c] = "gone"]
  /\ polledAt' = now
  /\ UNCHANGED <<now, slots, current, sigchld, segment, slotId, segId,
                 claimedAt, overran>>

\* susshi_master_free_embryonic_slot() writes to the child's own segment.
FreeSlot(c) ==
  slots' = IF segId[c] = segment THEN [slots EXCEPT ![slotId[c]] = 0] ELSE slots

\* The child authenticated its client and gives the slot back.
Authenticated(c) ==
  /\ phase[c] = "embryonic"
  /\ FreeSlot(c)
  /\ phase' = [phase EXCEPT ![c] = "session"]
  /\ UNCHANGED <<now, current, polledAt, sigchld, segment, slotId, segId,
                 claimedAt, overran>>

\* The child ends before authentication: susshi_disconnect_*(), a failed key
\* exchange, the normal return after a failed authentication, or a crash.
\* No path clears the slot.
QuitEmbryonic(c) ==
  /\ phase[c] = "embryonic"
  /\ phase' = [phase EXCEPT ![c] = "gone"]
  /\ sigchld' = TRUE
  /\ UNCHANGED <<now, slots, current, polledAt, segment, slotId, segId,
                 claimedAt, overran>>

\* An authenticated session ends.
QuitSession(c) ==
  /\ phase[c] = "session"
  /\ phase' = [phase EXCEPT ![c] = "gone"]
  /\ sigchld' = TRUE
  /\ UNCHANGED <<now, slots, current, polledAt, segment, slotId, segId,
                 claimedAt, overran>>

\* SIGCHLD interrupted poll(); the top of the loop scans the slots.
HandleSigchld ==
  /\ Polling /\ sigchld
  /\ sigchld' = FALSE
  /\ CurrentEmbryonics(slots)
  /\ polledAt' = now
  /\ UNCHANGED <<now, segment, phase, slotId, segId, claimedAt, overran>>

\* Mutant of PollTimeout: the timeout polls again without the scan that the
\* proctitle update makes.
PollTimeoutWithoutScan ==
  /\ Polling
  /\ current > 0
  /\ now - polledAt >= GraceTime
  /\ polledAt' = now
  /\ UNCHANGED <<now, slots, current, sigchld, segment, phase, slotId, segId,
                 claimedAt, overran>>

\* poll() has a timeout only while the last scan counted an embryonic child.
PollTimeout ==
  /\ Polling
  /\ current > 0
  /\ now - polledAt >= GraceTime
  /\ CurrentEmbryonics(slots)
  /\ polledAt' = now
  /\ UNCHANGED <<now, sigchld, segment, phase, slotId, segId, claimedAt, overran>>

\* SIGHUP: susshi_master_loop() is left and entered again, and
\* susshi_master_init_embryonic_slots() attaches a new, cleared segment.
Restart ==
  /\ Polling
  /\ segment < MaxRestarts
  /\ segment' = segment + 1
  /\ slots' = [i \in Slots |-> 0]
  /\ current' = 0
  /\ polledAt' = now
  /\ overran' = FALSE
  /\ UNCHANGED <<now, sigchld, phase, slotId, segId, claimedAt>>

\* One second passes.  Past LastArrival the clock waits for a fork in progress,
\* so that the bound on the clock cannot cut off the poll() that follows it.
Tick ==
  /\ now < MaxTime
  /\ now < LastArrival \/ Polling
  /\ now' = now + 1
  /\ overran' = (overran \/ \E c \in Claimants : now' - claimedAt[c] >= GraceTime)
  /\ UNCHANGED <<slots, current, polledAt, sigchld, segment, phase, slotId,
                 segId, claimedAt>>

Master ==
  \/ \E c \in Children : Refuse(c) \/ Claim(c) \/ Fork(c) \/ ForkFails(c)
  \/ HandleSigchld
  \/ PollTimeout

Child(c) == Authenticated(c) \/ QuitEmbryonic(c) \/ QuitSession(c)

Next == Master \/ Restart \/ Tick \/ \E c \in Children : Child(c)

Spec == Init /\ [][Next]_vars

(***************************************************************************)
(* The clock runs, a poll() that has a timeout returns, and fork() returns.*)
(* Nothing is assumed of the clients and the children.  Nor is the scan    *)
(* after a SIGCHLD: a signal that arrives between the test of              *)
(* sigchld_received and poll() is noticed only when poll() returns.        *)
(***************************************************************************)
Fairness ==
  /\ WF_vars(Tick)
  /\ WF_vars(PollTimeout)
  /\ WF_vars(\E c \in Children : Fork(c) \/ ForkFails(c))

FairSpec == Spec /\ Fairness

-----------------------------------------------------------------------------
(***************************************************************************)
(* Properties.                                                             *)
(***************************************************************************)

\* As long as no child of the segment has stayed unauthenticated for the grace
\* time, no two children own the same slot, and every child's claim still
\* stands in its slot.  The counting in susshi_master_current_embryonics()
\* and the claim in susshi_master_new_embryonic_slot() rest on this.
NoOverbookingUnlessOverrun ==
  ~overran =>
    /\ \A c \in Claimants : slots[slotId[c]] = claimedAt[c]
    /\ \A c, d \in Claimants : slotId[c] = slotId[d] => c = d

\* What susshi_master_new_embryonic_slot() promises and does: below Start
\* embryonic children a connection is never refused, above Start with at least
\* the configured rate, and with every slot live always; a connection that
\* survives the random early drop finds a free slot.  Excepted is exactly
\* Start: there the comments (and that on max_embryonics_start) say that a
\* connection is refused with a probability of Rate/100, but the code compares
\* with `>' and refuses nobody.
AdmissionLaw ==
  LET n == NumLive(slots) IN
  /\ n < EmbryonicsStart => RejectPercent(n) = 0
  /\ n > EmbryonicsStart => RejectPercent(n) >= EmbryonicsRate
  /\ n = MaxEmbryonics => RejectPercent(n) = 100
  /\ RejectPercent(n) \in 0..100
  /\ RejectPercent(n) < 100 => FreeSlots(Scanned(slots)) # {}

\* "the timer helps to free the slot after EmbryonicGraceTime": once no more
\* connections arrive, every slot is freed, whether or not the child that
\* claimed it ever cleared it, and the master notices it.
SlotsReclaimed == <>[](current = 0 /\ \A i \in Slots : slots[i] = 0)

=============================================================================
