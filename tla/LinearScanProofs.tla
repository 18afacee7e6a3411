-------------------------- MODULE LinearScanProofs --------------------------
(***************************************************************************)
(* Proofs about LinearScan for every list of intervals and every register  *)
(* file.  The properties are not inductive by themselves: what the scan    *)
(* relies on is that the values it still owes a place to (the active ones  *)
(* and the evicted ones) sit in locations of their own, none of which is   *)
(* on a free list, and that every other value is already dead.             *)
(***************************************************************************)
EXTENDS LinearScan, SequenceFacts, TLAPS

Holders == active \cup evicted
Reserved == {"spill"} \X (0 .. next_slot - 1)

(* Every location in use is a register or a slot the frame reserves. *)
Bounded ==
    /\ \A i \in Placed : locations[i] \in Registers \cup Reserved
    /\ free_slots \subseteq Reserved

HoldersApart == \A i, j \in Holders : i # j => locations[i] # locations[j]
FreeUnheld == \A i \in Holders : locations[i] \notin free_slots
EvictedSpilled == \A i \in evicted : locations[i] \in Slots /\ i \notin active
IdleDead == \A i \in Placed \ Holders : intervals[i].end <= intervals[next - 1].start

IInv ==
    /\ TypeOK
    /\ Bounded
    /\ HoldersApart
    /\ FreeUnheld
    /\ EvictedSpilled
    /\ IdleDead
    /\ CallSafe
    /\ OnlyEvictionShares

(* A value that is never read: its interval is one instruction. *)
Dead(j) == intervals[j].start = intervals[j].end /\ ~intervals[j].crosses_call

(* One that is never read has a register as soon as there is any, and only   *)
(* where there are registers can a value be evicted from one.               *)
DeadKeepRegister ==
    /\ \A j \in Placed : Dead(j) /\ Registers # {} => locations[j] \in Registers
    /\ evicted # {} => Registers # {}

-----------------------------------------------------------------------------
(* A register is never a spill slot. *)
LEMMA KindsApart == Registers \cap Slots = {}
  BY DEF Registers, CallerRegs, CalleeRegs, Slots

(* The registers of the two pools are different: no value is called         *)
(* callee-saved because of where another one sits.                          *)
LEMMA PoolsApart == CallerRegs \cap CalleeRegs = {}
  BY PoolsDisjoint DEF CallerRegs, CalleeRegs

(* The reserved slots are slots, and the next new one is not among them. *)
LEMMA ReservedSlots ==
  ASSUME next_slot \in Nat
  PROVE  /\ Reserved \subseteq Slots
         /\ Spill(next_slot) \in Slots
         /\ Spill(next_slot) \notin Reserved
  BY DEF Reserved, Slots, Spill

(* What expire_through leaves: the values that still hold a place are those *)
(* of before, less the expired, and only expired ones become idle.          *)
LEMMA LiveFacts ==
  ASSUME TypeOK, IdleDead, next <= Len(intervals)
  PROVE  /\ next \in 1 .. Len(intervals)
         /\ next \notin Placed
         /\ Live(next) \subseteq active
         /\ Live(next) \subseteq Placed
         /\ \A k \in Placed : k \notin Live(next) \cup evicted =>
               intervals[k].end <= intervals[next].start
  <1>1. next \in 1 .. Len(intervals)
    BY DEF TypeOK, Sorted
  <1>2. \A k \in 1 .. Len(intervals) : intervals[k] \in Interval
    BY DEF TypeOK, Sorted
  <1>a. next \notin Placed
    BY <1>1 DEF Placed
  <1>b. Live(next) \subseteq active /\ Live(next) \subseteq Placed
    BY DEF TypeOK, Live
  <1>3. SUFFICES ASSUME NEW k \in Placed, k \notin Live(next) \cup evicted
                 PROVE  intervals[k].end <= intervals[next].start
    BY <1>1, <1>a, <1>b
  <1>4. CASE k \in active
    BY <1>1, <1>2, <1>3, <1>4 DEF Live, Interval, Placed
  <1>5. CASE k \notin active
    <2>1. intervals[k].end <= intervals[next - 1].start
      BY <1>3, <1>5 DEF IdleDead, Holders
    <2>2. next - 1 \in 1 .. Len(intervals) /\ k \in 1 .. Len(intervals)
      BY <1>1, <1>3 DEF Placed
    <2>3. intervals[next - 1].start <= intervals[next].start
      BY <1>1, <2>2 DEF TypeOK, Sorted
    <2>4. QED
      BY <1>1, <1>2, <2>1, <2>2, <2>3 DEF Interval
  <1>6. QED
    BY <1>4, <1>5

(* A recycled slot is one the frame reserves, and no value that is still    *)
(* needed sits in it.                                                       *)
LEMMA FreeSlotsUnheld ==
  ASSUME IInv, next <= Len(intervals)
  PROVE  /\ FreeSlots(next) \subseteq Reserved
         /\ \A k \in Live(next) \cup evicted : locations[k] \notin FreeSlots(next)
  <1>1. \A j \in Expired(next) : j \in active /\ j \in Placed /\ j \notin Live(next)
    BY DEF Expired, IInv, TypeOK
  <1>2. FreeSlots(next) \subseteq Reserved
    BY <1>1 DEF FreeSlots, IInv, Bounded
  <1>3. ASSUME NEW k \in Live(next) \cup evicted
        PROVE  locations[k] \notin FreeSlots(next)
    <2>1. k \in Holders
      BY DEF Live, Holders
    <2>2. locations[k] \notin free_slots
      BY <2>1 DEF IInv, FreeUnheld
    <2>3. ASSUME NEW j \in Expired(next), locations[j] \notin Registers
          PROVE  locations[k] # locations[j]
      <3>1. CASE j # k
        BY <1>1, <2>1, <3>1 DEF Holders, IInv, HoldersApart
      <3>2. CASE j = k
        BY <1>1, <3>2 DEF IInv, EvictedSpilled
      <3>3. QED
        BY <3>1, <3>2
    <2>4. QED
      BY <2>2, <2>3 DEF FreeSlots
  <1>4. QED
    BY <1>2, <1>3

(* The slot alloc_slot answers with is reserved, is off the free list, and  *)
(* holds nothing that is still needed.                                      *)
LEMMA SlotFresh ==
  ASSUME IInv, next <= Len(intervals), NEW slot, AllocSlot(next, slot)
  PROVE  /\ next_slot' \in Nat
         /\ Reserved \subseteq Reserved'
         /\ slot \in Slots
         /\ slot \in Reserved'
         /\ slot \notin free_slots'
         /\ free_slots' \subseteq Reserved
         /\ free_slots' \subseteq FreeSlots(next)
         /\ \A k \in Live(next) \cup evicted : locations[k] # slot
  <1>1. next_slot \in Nat
    BY DEF IInv, TypeOK
  <1>2. /\ FreeSlots(next) \subseteq Reserved
        /\ \A k \in Live(next) \cup evicted : locations[k] \notin FreeSlots(next)
    BY FreeSlotsUnheld
  <1>3. /\ Reserved \subseteq Slots
        /\ Spill(next_slot) \in Slots
        /\ Spill(next_slot) \notin Reserved
    BY <1>1, ReservedSlots
  <1>4. CASE /\ slot \in FreeSlots(next)
             /\ free_slots' = FreeSlots(next) \ {slot}
             /\ next_slot' = next_slot
    BY <1>1, <1>2, <1>3, <1>4 DEF Reserved
  <1>5. CASE /\ FreeSlots(next) = {}
             /\ slot = Spill(next_slot)
             /\ free_slots' = {}
             /\ next_slot' = next_slot + 1
    <2>1. next_slot' \in Nat /\ Reserved \subseteq Reserved' /\ slot \in Reserved'
      BY <1>1, <1>5 DEF Reserved, Spill
    <2>2. \A k \in Live(next) \cup evicted : locations[k] # slot
      <3>1. \A k \in Live(next) \cup evicted : locations[k] \in Registers \cup Reserved
        BY DEF IInv, Bounded, TypeOK, Live
      <3>2. QED
        BY <1>3, <1>5, <3>1, KindsApart
    <2>3. QED
      BY <1>3, <1>5, <2>1, <2>2
  <1>6. QED
    BY <1>4, <1>5 DEF AllocSlot

(* A value that still has a place and overlaps the one being placed is live *)
(* or evicted: every other one has had its last use.                        *)
LEMMA OverlapsHold ==
  ASSUME IInv, next <= Len(intervals), NEW k \in Placed, Overlap(k, next)
  PROVE  k \in Live(next) \cup evicted
  <1>1. next \in 1 .. Len(intervals) /\ k \in 1 .. Len(intervals)
    BY LiveFacts DEF IInv, Placed
  <1>2. intervals[k] \in Interval /\ intervals[next] \in Interval
    BY <1>1 DEF IInv, TypeOK, Sorted
  <1>3. QED
    BY <1>2, LiveFacts DEF IInv, Overlap, Interval

-----------------------------------------------------------------------------
(* The shared part of the three ways to place an interval: what makes the   *)
(* invariant hold afterwards, whatever location was chosen.  `loc` is the   *)
(* location of the interval placed, `held` the values that keep a claim.    *)
LEMMA PlacingKeepsIInv ==
  ASSUME IInv, next <= Len(intervals),
         next' = next + 1, intervals' = intervals,
         locations' \in [1 .. next -> Location],
         active' \cup evicted' = Live(next) \cup evicted \cup {next},
         active' \subseteq Live(next) \cup {next},
         evicted' \subseteq Placed,
         next_slot' \in Nat,
         Reserved \subseteq Reserved',
         free_slots' \subseteq Reserved',
         \A k \in Placed : locations'[k] \in Registers \cup Reserved',
         locations'[next] \in Registers \cup Reserved',
         \A k \in Placed : k \notin Live(next) \cup evicted => locations'[k] = locations[k],
         HoldersApart', FreeUnheld', EvictedSpilled', CallSafe',
         \A k, j \in Placed : Overlap(k, j) /\ locations'[k] = locations'[j] =>
            locations'[k] \in Slots /\ (k \in evicted' \/ j \in evicted'),
         \A k \in Live(next) \cup evicted : locations'[k] # locations'[next]
  PROVE  IInv'
  <1>1. next \in 1 .. Len(intervals) /\ next \notin Placed /\ Live(next) \subseteq Placed
    BY LiveFacts DEF IInv
  <1>2. Placed' = 1 .. next /\ Placed' = Placed \cup {next} /\ Placed \subseteq Placed'
    BY <1>1 DEF Placed
  <1>3. Sorted(intervals') /\ Len(intervals') = Len(intervals) /\ Len(intervals) \in Nat
    BY DEF IInv, TypeOK, Sorted
  <1>4. Reserved' \subseteq Slots
    BY DEF Reserved, Slots
  <1>5. TypeOK'
    BY <1>1, <1>2, <1>3, <1>4 DEF TypeOK
  <1>6. Bounded'
    <2>1. Registers' = Registers
      BY DEF Registers, CallerRegs, CalleeRegs
    <2>2. QED
      BY <1>2, <2>1 DEF Bounded
  <1>7. IdleDead'
    <2>1. SUFFICES ASSUME NEW k \in Placed', k \notin Holders'
                   PROVE  intervals[k].end <= intervals[next].start
      BY <1>1 DEF IdleDead
    <2>2. k \in Placed /\ k \notin Live(next) \cup evicted
      BY <1>2, <2>1 DEF Holders
    <2>3. QED
      BY <2>2, LiveFacts DEF IInv
  <1>8. OnlyEvictionShares'
    <2>1. SUFFICES ASSUME NEW k \in Placed', NEW j \in Placed', Overlap(k, j),
                          locations'[k] = locations'[j]
                   PROVE  locations'[k] \in Slots /\ (k \in evicted' \/ j \in evicted')
      BY DEF OnlyEvictionShares, Overlap, Slots
    <2>2. k \in Placed
      BY <1>1, <1>2, <2>1 DEF Overlap, Placed
    <2>3. CASE j \in Placed
      BY <2>1, <2>2, <2>3
    <2>4. CASE j = next
      BY <2>1, <2>2, <2>4, OverlapsHold
    <2>5. QED
      BY <1>2, <2>3, <2>4
  <1>9. QED
    BY <1>5, <1>6, <1>7, <1>8 DEF IInv

(* When nobody is evicted, the values that keep their place keep it apart   *)
(* from each other, and the one placed brings a location of its own.        *)
LEMMA HoldersStayApart ==
  ASSUME IInv, next <= Len(intervals),
         active' = Live(next) \cup {next}, evicted' = evicted,
         \A k \in Placed : locations'[k] = locations[k],
         \A k \in Live(next) \cup evicted : locations'[k] # locations'[next],
         free_slots' \subseteq FreeSlots(next),
         locations'[next] \notin free_slots'
  PROVE  HoldersApart' /\ FreeUnheld'
  <1> DEFINE Keep == Live(next) \cup evicted
  <1>1. Keep \subseteq Placed /\ Keep \subseteq Holders
    BY LiveFacts DEF IInv, TypeOK, Holders
  <1>2. Holders' = Keep \cup {next}
    BY DEF Holders
  <1>3. \A k \in Keep : /\ locations'[k] = locations[k]
                         /\ locations'[k] # locations'[next]
                         /\ locations[k] \notin FreeSlots(next)
    BY <1>1, FreeSlotsUnheld
  <1> HIDE DEF Keep
  <1>4. HoldersApart'
    <2>1. SUFFICES ASSUME NEW k \in Holders', NEW j \in Holders', k # j
                   PROVE  locations'[k] # locations'[j]
      BY DEF HoldersApart
    <2>2. CASE k \in Keep /\ j \in Keep
      BY <1>1, <1>3, <2>1, <2>2 DEF IInv, HoldersApart
    <2>3. CASE k = next \/ j = next
      BY <1>2, <1>3, <2>1, <2>3
    <2>4. QED
      BY <1>2, <2>1, <2>2, <2>3
  <1>5. FreeUnheld'
    <2>1. SUFFICES ASSUME NEW k \in Holders'
                   PROVE  locations'[k] \notin free_slots'
      BY DEF FreeUnheld
    <2>2. QED
      BY <1>2, <1>3, <2>1
  <1>6. QED
    BY <1>4, <1>5

(* take_register found a free register. *)
LEMMA TakeKeepsIInv ==
  ASSUME IInv, next <= Len(intervals), next' = next + 1, intervals' = intervals,
         NEW r \in Registers, Take(next, r)
  PROVE  IInv'
  <1>1. /\ next \in 1 .. Len(intervals) /\ next \notin Placed
        /\ Live(next) \subseteq active /\ Live(next) \subseteq Placed
    BY LiveFacts DEF IInv
  <1>2. /\ locations' = [j \in 1 .. next |-> IF j = next THEN r ELSE locations[j]]
        /\ active' = Live(next) \cup {next}
        /\ free_slots' = FreeSlots(next)
        /\ next_slot' = next_slot /\ evicted' = evicted
        /\ r \in Usable(next) /\ r \notin Held(next)
    BY DEF Take
  <1>3. locations'[next] = r /\ \A k \in Placed : locations'[k] = locations[k]
    BY <1>1, <1>2 DEF Placed
  <1>4. evicted \subseteq Placed /\ next_slot \in Nat /\ Placed = 1 .. next - 1
    BY DEF IInv, TypeOK, Placed
  <1>5. locations' \in [1 .. next -> Location]
    BY <1>1, <1>2, <1>4 DEF IInv, TypeOK, Location
  <1>6. Reserved' = Reserved
    BY <1>2 DEF Reserved
  <1>7. FreeSlots(next) \subseteq Reserved
    BY FreeSlotsUnheld
  <1>8. \A k \in Placed : locations'[k] \in Registers \cup Reserved'
    BY <1>3, <1>6 DEF IInv, Bounded
  <1>9. \A k \in Live(next) \cup evicted : locations'[k] # r
    <2>1. \A k \in Live(next) : locations'[k] # r
      BY <1>1, <1>2, <1>3 DEF Held
    <2>2. \A k \in evicted : locations'[k] # r
      BY <1>3, <1>4, KindsApart DEF IInv, EvictedSpilled
    <2>3. QED
      BY <2>1, <2>2
  <1>10. r \notin FreeSlots(next)
    BY <1>4, <1>7, ReservedSlots, KindsApart
  <1>11. HoldersApart' /\ FreeUnheld'
    <2>1. \A k \in Live(next) \cup evicted : locations'[k] # locations'[next]
      BY <1>3, <1>9
    <2>2. free_slots' \subseteq FreeSlots(next) /\ locations'[next] \notin free_slots'
      BY <1>2, <1>3, <1>10
    <2>3. QED
      BY <1>2, <1>3, <2>1, <2>2, HoldersStayApart
  <1>12. EvictedSpilled'
    BY <1>1, <1>2, <1>3, <1>4 DEF EvictedSpilled, IInv, Slots
  <1>13. CallSafe'
    <2>1. SUFFICES ASSUME NEW k \in Placed', intervals[k].crosses_call
                   PROVE  locations'[k] \notin CallerRegs
      BY DEF CallSafe, CallerRegs
    <2>2. CASE k = next
      BY <1>2, <1>3, <2>1, <2>2, PoolsApart DEF Usable
    <2>3. CASE k \in Placed
      BY <1>3, <2>1, <2>3 DEF CallSafe, IInv
    <2>4. QED
      BY <1>1, <2>1, <2>2, <2>3 DEF Placed
  <1>14. \A k, j \in Placed : Overlap(k, j) /\ locations'[k] = locations'[j] =>
            locations'[k] \in Slots /\ (k \in evicted' \/ j \in evicted')
    BY <1>2, <1>3 DEF IInv, OnlyEvictionShares
  <1>15. active' \cup evicted' = Live(next) \cup evicted \cup {next}
    BY <1>2
  <1>16. QED
    BY <1>2, <1>3, <1>4, <1>5, <1>6, <1>7, <1>8, <1>9, <1>11, <1>12, <1>13,
       <1>14, <1>15, PlacingKeepsIInv

(* Nothing is free and interval `next` is spilled. *)
LEMMA SpillSelfKeepsIInv ==
  ASSUME IInv, next <= Len(intervals), next' = next + 1, intervals' = intervals,
         NEW slot, SpillSelf(next, slot)
  PROVE  IInv'
  <1>1. /\ next \in 1 .. Len(intervals) /\ next \notin Placed
        /\ Live(next) \subseteq active /\ Live(next) \subseteq Placed
    BY LiveFacts DEF IInv
  <1>2. /\ locations' = [j \in 1 .. next |-> IF j = next THEN slot ELSE locations[j]]
        /\ active' = Live(next) \cup {next}
        /\ evicted' = evicted
        /\ AllocSlot(next, slot)
    BY DEF SpillSelf
  <1>3. locations'[next] = slot /\ \A k \in Placed : locations'[k] = locations[k]
    BY <1>1, <1>2 DEF Placed
  <1>4. evicted \subseteq Placed /\ Placed = 1 .. next - 1
    BY DEF IInv, TypeOK, Placed
  <1>5. /\ next_slot' \in Nat
        /\ Reserved \subseteq Reserved'
        /\ slot \in Slots
        /\ slot \in Reserved'
        /\ slot \notin free_slots'
        /\ free_slots' \subseteq Reserved'
        /\ free_slots' \subseteq FreeSlots(next)
        /\ \A k \in Live(next) \cup evicted : locations[k] # slot
    BY <1>2, SlotFresh
  <1>6. locations' \in [1 .. next -> Location]
    BY <1>1, <1>2, <1>4, <1>5 DEF IInv, TypeOK, Location
  <1>7. \A k \in Placed : locations'[k] \in Registers \cup Reserved'
    BY <1>3, <1>5 DEF IInv, Bounded
  <1>8. \A k \in Live(next) \cup evicted : locations'[k] # locations'[next]
    BY <1>1, <1>3, <1>4, <1>5
  <1>9. HoldersApart' /\ FreeUnheld'
    BY <1>2, <1>3, <1>5, <1>8, HoldersStayApart
  <1>10. EvictedSpilled'
    BY <1>1, <1>2, <1>3, <1>4 DEF EvictedSpilled, IInv, Slots
  <1>11. CallSafe'
    <2>1. SUFFICES ASSUME NEW k \in Placed', intervals[k].crosses_call
                   PROVE  locations'[k] \notin CallerRegs
      BY DEF CallSafe, CallerRegs
    <2>2. CASE k = next
      BY <1>3, <1>5, <2>2, KindsApart DEF Registers
    <2>3. CASE k \in Placed
      BY <1>3, <2>1, <2>3 DEF CallSafe, IInv
    <2>4. QED
      BY <1>1, <2>1, <2>2, <2>3 DEF Placed
  <1>12. \A k, j \in Placed : Overlap(k, j) /\ locations'[k] = locations'[j] =>
            locations'[k] \in Slots /\ (k \in evicted' \/ j \in evicted')
    BY <1>2, <1>3 DEF IInv, OnlyEvictionShares
  <1>13. active' \cup evicted' = Live(next) \cup evicted \cup {next}
    BY <1>2
  <1>14. QED
    BY <1>2, <1>3, <1>4, <1>5, <1>6, <1>7, <1>8, <1>9, <1>10, <1>11, <1>12, <1>13,
       PlacingKeepsIInv

(* Nothing is free and v gives its register up to interval `next`. *)
LEMMA StealKeepsIInv ==
  ASSUME IInv, next <= Len(intervals), next' = next + 1, intervals' = intervals,
         NEW v \in active, NEW slot, Steal(next, v, slot)
  PROVE  IInv'
  <1> DEFINE Keep == Live(next) \cup evicted
  <1>1. /\ next \in 1 .. Len(intervals) /\ next \notin Placed
        /\ Live(next) \subseteq active /\ Live(next) \subseteq Placed
    BY LiveFacts DEF IInv
  <1>2. /\ locations' = [j \in 1 .. next |-> CASE j = next -> locations[v]
                                               [] j = v -> slot
                                               [] OTHER -> locations[j]]
        /\ active' = (Live(next) \ {v}) \cup {next}
        /\ evicted' = evicted \cup {v}
        /\ AllocSlot(next, slot)
        /\ v \in Live(next) /\ locations[v] \in Usable(next)
    BY DEF Steal, Victims, Stealable
  <1>3. v \in Placed /\ v # next /\ v \notin evicted
    BY <1>1, <1>2 DEF IInv, EvictedSpilled
  <1>4. /\ locations'[next] = locations[v]
        /\ locations'[v] = slot
        /\ \A k \in Placed : k # v => locations'[k] = locations[k]
    <2>1. \A k \in 1 .. next : locations'[k] = CASE k = next -> locations[v]
                                                 [] k = v -> slot
                                                 [] OTHER -> locations[k]
      BY <1>2
    <2>2. next \in 1 .. next /\ \A k \in Placed : k \in 1 .. next /\ k # next
      BY <1>1 DEF Placed
    <2>3. locations'[next] = locations[v]
      BY <1>3, <2>1, <2>2
    <2>4. ASSUME NEW k \in Placed
          PROVE  locations'[k] = IF k = v THEN slot ELSE locations[k]
      BY <1>3, <2>1, <2>2
    <2>5. QED
      BY <1>3, <2>3, <2>4
  <1>5. evicted \subseteq Placed /\ Placed = 1 .. next - 1 /\ 1 .. next = Placed \cup {next}
    BY <1>1 DEF IInv, TypeOK, Placed
  <1>6. /\ next_slot' \in Nat
        /\ Reserved \subseteq Reserved'
        /\ slot \in Slots
        /\ slot \in Reserved'
        /\ slot \notin free_slots'
        /\ free_slots' \subseteq Reserved'
        /\ free_slots' \subseteq FreeSlots(next)
        /\ \A k \in Keep : locations[k] # slot
    BY <1>2, SlotFresh
  <1>7. locations[v] \in Registers /\ locations[v] \in Location
    BY <1>2 DEF Usable, Registers, Location
  <1>8. locations' \in [1 .. next -> Location]
    <2>1. \A k \in 1 .. next : locations'[k] \in Location
      BY <1>4, <1>5, <1>6, <1>7 DEF IInv, TypeOK, Location
    <2>2. QED
      BY <1>2, <2>1
  <1>9. \A k \in Placed : locations'[k] \in Registers \cup Reserved'
    BY <1>4, <1>6 DEF IInv, Bounded
  <1>10. Keep \subseteq Placed /\ Keep \subseteq Holders /\ v \in Keep
    BY <1>1, <1>2, <1>5 DEF Holders
  <1>11. Holders' = Keep \cup {next} /\ active' \cup evicted' = Keep \cup {next}
    BY <1>2, <1>3 DEF Holders
  <1>12. \A k \in Keep : locations[k] \notin FreeSlots(next)
    BY FreeSlotsUnheld
  <1>13. \A k, j \in Keep : k # j => locations[k] # locations[j]
    BY <1>10 DEF IInv, HoldersApart
  <1>14. locations[v] # slot /\ locations[v] \notin free_slots'
    BY <1>6, <1>10, <1>12
  <1> HIDE DEF Keep
  <1>15. \A k \in Keep : locations'[k] # locations'[next]
    BY <1>4, <1>10, <1>13, <1>14
  <1>16. HoldersApart'
    <2>1. SUFFICES ASSUME NEW k \in Holders', NEW j \in Holders', k # j
                   PROVE  locations'[k] # locations'[j]
      BY DEF HoldersApart
    <2>2. CASE k \in Keep /\ j \in Keep
      BY <1>4, <1>6, <1>10, <1>13, <2>1, <2>2
    <2>3. CASE k = next \/ j = next
      BY <1>11, <1>15, <2>1, <2>3
    <2>4. QED
      BY <1>11, <2>1, <2>2, <2>3
  <1>17. FreeUnheld'
    <2>1. SUFFICES ASSUME NEW k \in Holders'
                   PROVE  locations'[k] \notin free_slots'
      BY DEF FreeUnheld
    <2>2. CASE k = next
      BY <1>4, <1>14, <2>2
    <2>3. CASE k \in Keep
      BY <1>4, <1>6, <1>10, <1>12, <2>3
    <2>4. QED
      BY <1>11, <2>1, <2>2, <2>3
  <1>18. EvictedSpilled'
    <2>1. SUFFICES ASSUME NEW k \in evicted'
                   PROVE  locations'[k] \in Slots /\ k \notin active'
      BY DEF EvictedSpilled, Slots
    <2>2. CASE k = v
      BY <1>2, <1>3, <1>4, <1>6, <2>2
    <2>3. CASE k \in evicted
      BY <1>1, <1>2, <1>3, <1>4, <1>5, <2>3 DEF IInv, EvictedSpilled
    <2>4. QED
      BY <1>2, <2>1, <2>2, <2>3
  <1>19. CallSafe'
    <2>1. SUFFICES ASSUME NEW k \in Placed', intervals[k].crosses_call
                   PROVE  locations'[k] \notin CallerRegs
      BY DEF CallSafe, CallerRegs
    <2>2. CASE k = next
      BY <1>2, <1>4, <2>1, <2>2, PoolsApart DEF Usable
    <2>3. CASE k \in Placed /\ k # v
      BY <1>4, <2>1, <2>3 DEF CallSafe, IInv
    <2>4. CASE k = v
      BY <1>4, <1>6, <2>4, KindsApart DEF Registers
    <2>5. QED
      BY <1>1, <2>1, <2>2, <2>3, <2>4 DEF Placed
  <1>20. \A k, j \in Placed : Overlap(k, j) /\ locations'[k] = locations'[j] =>
            locations'[k] \in Slots /\ (k \in evicted' \/ j \in evicted')
    BY <1>2, <1>4, <1>6 DEF IInv, OnlyEvictionShares
  <1>21. evicted' \subseteq Placed /\ active' \subseteq Live(next) \cup {next}
    BY <1>2, <1>3, <1>5
  <1>22. \A k \in Placed : k \notin Keep => locations'[k] = locations[k]
    BY <1>4, <1>10
  <1>23. locations'[next] \in Registers \cup Reserved'
    BY <1>4, <1>7
  <1>24. QED
    BY <1>6, <1>8, <1>9, <1>11, <1>15, <1>16, <1>17, <1>18, <1>19, <1>20, <1>21,
       <1>22, <1>23, PlacingKeepsIInv DEF Keep

-----------------------------------------------------------------------------
(* The scan starts as it should on any sorted list. *)
LEMMA StartEstablishesIInv ==
  ASSUME Sorted(intervals), next = 1, active = {}, locations = << >>,
         free_slots = {}, next_slot = 0, evicted = {}
  PROVE  IInv /\ DeadKeepRegister
  BY DEF IInv, TypeOK, Sorted, Bounded, HoldersApart, FreeUnheld, DeadKeepRegister,
     EvictedSpilled, IdleDead, CallSafe, OnlyEvictionShares, Placed, Holders

(* And it is only ever handed sorted ones. *)
LEMMA InitEstablishesIInv == Init => IInv /\ DeadKeepRegister
  BY StartEstablishesIInv, IntervalsSorted DEF Init

(* A step of the scan, or of anything else, keeps the invariant. *)
LEMMA NextKeepsIInv == IInv /\ [Next]_vars => IInv'
  <1> SUFFICES ASSUME IInv, [Next]_vars PROVE IInv'
    OBVIOUS
  <1>1. CASE PlaceNext
    <2>1. next <= Len(intervals) /\ next' = next + 1 /\ intervals' = intervals
      BY <1>1 DEF PlaceNext
    <2>2. CASE \E r \in Registers : Take(next, r)
      BY <2>1, <2>2, TakeKeepsIInv
    <2>3. CASE \E v \in active, slot \in FreeSlots(next) \cup {Spill(next_slot)} :
                  Steal(next, v, slot)
      BY <2>1, <2>3, StealKeepsIInv
    <2>4. CASE \E slot \in FreeSlots(next) \cup {Spill(next_slot)} : SpillSelf(next, slot)
      BY <2>1, <2>4, SpillSelfKeepsIInv
    <2>5. QED
      BY <1>1, <2>2, <2>3, <2>4 DEF PlaceNext, Place
  <1>2. CASE UNCHANGED vars
    BY <1>2 DEF vars, IInv, TypeOK, Bounded, HoldersApart, FreeUnheld, EvictedSpilled,
       IdleDead, CallSafe, OnlyEvictionShares, Placed, Holders, Reserved, Overlap,
       Registers, CallerRegs, CalleeRegs, Slots, Location
  <1>3. QED
    BY <1>1, <1>2 DEF Next, Returned

(* Where a value that is never read is placed: it finds a register free, or  *)
(* whatever holds one outlives it and gives it up.                          *)
LEMMA DeadTakesRegister ==
  ASSUME IInv, DeadKeepRegister, next <= Len(intervals), Dead(next), Registers # {},
         NEW slot, SpillSelf(next, slot)
  PROVE  FALSE
<1>1. /\ Usable(next) \subseteq Held(next) /\ Victims(next) = {}
      /\ Usable(next) = Registers
  BY DEF SpillSelf, Usable, Dead
<1>2. /\ next \in 1 .. Len(intervals) /\ Live(next) \subseteq Placed /\ Placed = 1 .. next - 1
      /\ Len(intervals) \in Nat /\ \A k \in 1 .. Len(intervals) : intervals[k] \in Interval
  BY LiveFacts DEF IInv, Placed, TypeOK, Sorted
<1>3. \A k \in 1 .. Len(intervals) : intervals[k].end \in Nat /\ intervals[k].start \in Nat
  BY <1>2 DEF Interval
<1>4. PICK a \in Stealable(next) : TRUE
  BY <1>1 DEF Held, Stealable
<1>5. /\ Stealable(next) \in SUBSET (1 .. next - 1) /\ next - 1 \in Nat
      /\ Stealable(next) \subseteq Live(next)
  BY <1>2 DEF Stealable
<1> DEFINE f == [k \in 1 .. Len(intervals) |-> intervals[k].end]
<1>6. \A k \in Stealable(next) : f[k] = intervals[k].end /\ f[k] \in Nat
  BY <1>2, <1>3, <1>5
<1> HIDE DEF f
<1>7. PICK v \in Stealable(next) : \A j \in Stealable(next) : f[j] <= f[v]
  BY <1>4, <1>5, <1>6, LargestOf
<1>8. intervals[v].end > intervals[next].end
  BY <1>2, <1>3, <1>5 DEF Live, Dead
<1>9. v \in Victims(next)
  BY <1>6, <1>7, <1>8 DEF Victims
<1> QED
  BY <1>1, <1>9

(* Nothing evicts a value that is never read, and none spills itself. *)
LEMMA NextKeepsDead == IInv /\ DeadKeepRegister /\ [Next]_vars => DeadKeepRegister'
<1> SUFFICES ASSUME IInv, DeadKeepRegister, [Next]_vars PROVE DeadKeepRegister'
  OBVIOUS
<1>1. Registers' = Registers
  BY DEF Registers, CallerRegs, CalleeRegs
<1>2. ASSUME PlaceNext PROVE DeadKeepRegister'
  <2>1. next <= Len(intervals) /\ next' = next + 1 /\ intervals' = intervals /\ Place(next)
    BY <1>2 DEF PlaceNext
  <2>2. /\ next \in 1 .. Len(intervals) /\ next \notin Placed /\ Placed = 1 .. next - 1
        /\ Live(next) \subseteq Placed
    BY <2>1, LiveFacts DEF IInv, Placed
  <2>3. Placed' = Placed \cup {next} /\ Placed' = 1 .. next
    BY <2>1, <2>2 DEF Placed
  <2>4. \A j : Dead(j)' <=> Dead(j)
    BY <2>1 DEF Dead
  <2>5. CASE \E r \in Registers : Take(next, r)
    <3>1. PICK r \in Registers : Take(next, r)
      BY <2>5
    <3>2. /\ \A j \in 1 .. next : locations'[j] = IF j = next THEN r ELSE locations[j]
          /\ evicted' = evicted
      BY <3>1 DEF Take
    <3> QED
      BY <1>1, <2>2, <2>3, <2>4, <3>1, <3>2 DEF DeadKeepRegister
  <2>6. CASE \E v \in active, slot \in FreeSlots(next) \cup {Spill(next_slot)} :
                  Steal(next, v, slot)
    <3>1. PICK v \in active, slot \in FreeSlots(next) \cup {Spill(next_slot)} :
                  Steal(next, v, slot)
      BY <2>6
    <3>2. /\ \A j \in 1 .. next : locations'[j] = CASE j = next -> locations[v]
                                                    [] j = v -> slot
                                                    [] OTHER -> locations[j]
          /\ v \in Victims(next)
      BY <3>1 DEF Steal
    <3>3. /\ locations[v] \in Registers /\ v \in Placed
          /\ intervals[v].end > intervals[next].end
      BY <2>2, <3>2 DEF Victims, Stealable, Usable, Registers
    <3>4. ~Dead(v)
      <4>1. /\ intervals[v] \in Interval /\ intervals[next] \in Interval
            /\ intervals[v].start <= intervals[next].start
            /\ intervals[next].start <= intervals[next].end
        BY <2>2, <3>3 DEF IInv, TypeOK, Sorted
      <4> QED
        BY <3>3, <4>1 DEF Dead, Interval
    <3>5. \A j \in Placed' : Dead(j) => locations'[j] \in Registers
      BY <2>2, <2>3, <3>2, <3>3, <3>4 DEF DeadKeepRegister
    <3> QED
      BY <1>1, <2>4, <3>3, <3>5 DEF DeadKeepRegister
  <2>7. CASE \E slot \in FreeSlots(next) \cup {Spill(next_slot)} : SpillSelf(next, slot)
    <3>1. PICK slot \in FreeSlots(next) \cup {Spill(next_slot)} : SpillSelf(next, slot)
      BY <2>7
    <3>2. /\ \A j \in 1 .. next : locations'[j] = IF j = next THEN slot ELSE locations[j]
          /\ evicted' = evicted
      BY <3>1 DEF SpillSelf
    <3>3. ~(Dead(next) /\ Registers # {})
      BY <2>1, <3>1, DeadTakesRegister
    <3> QED
      BY <1>1, <2>2, <2>3, <2>4, <3>2, <3>3 DEF DeadKeepRegister
  <2> QED
    BY <2>1, <2>5, <2>6, <2>7 DEF Place
<1>3. CASE UNCHANGED vars
  BY <1>1, <1>3 DEF vars, DeadKeepRegister, Dead, Placed
<1> QED
  BY <1>2, <1>3 DEF Next, Returned

-----------------------------------------------------------------------------
(* Every state of the scan is well formed: `allocate` never hands out       *)
(* anything but a register of the file or a slot of the frame.              *)
THEOREM TypeCorrect == Spec => []TypeOK
  <1>1. IInv => TypeOK
    BY DEF IInv
  <1>2. QED
    BY <1>1, InitEstablishesIInv, NextKeepsIInv, PTL DEF Spec

(* No value live across a call is ever in a register the call destroys,     *)
(* whatever is stolen, spilled or recycled in between.                      *)
THEOREM CallsDestroyNothing == Spec => []CallSafe
  <1>1. IInv => CallSafe
    BY DEF IInv
  <1>2. QED
    BY <1>1, InitEstablishesIInv, NextKeepsIInv, PTL DEF Spec

(* Two values needed at the same time share a location only if it is a slot *)
(* and one of the two was evicted into it.                                  *)
THEOREM SharingNeedsEviction == Spec => []OnlyEvictionShares
  <1>1. IInv => OnlyEvictionShares
    BY DEF IInv
  <1>2. QED
    BY <1>1, InitEstablishesIInv, NextKeepsIInv, PTL DEF Spec

(* No two values needed at the same time ever share a register. *)
THEOREM RegistersExclusive == Spec => []RegistersNotShared
  <1>1. IInv => RegistersNotShared
    BY KindsApart DEF IInv, OnlyEvictionShares, RegistersNotShared
  <1>2. QED
    BY <1>1, InitEstablishesIInv, NextKeepsIInv, PTL DEF Spec

(* At every point of the scan, all values that are still needed later have  *)
(* locations of their own.                                                  *)
THEOREM NeededValuesApart == Spec => []NeededApart
  <1>1. IInv => NeededApart
    <2>1. SUFFICES ASSUME IInv, NEW i \in Placed, NEW j \in Placed, i # j,
                          intervals[i].end > intervals[next - 1].start,
                          intervals[j].end > intervals[next - 1].start
                   PROVE  locations[i] # locations[j]
      BY DEF NeededApart
    <2>2. next - 1 \in 1 .. Len(intervals) /\ Placed \subseteq 1 .. Len(intervals)
      BY <2>1 DEF IInv, TypeOK, Sorted, Placed
    <2>3. \A k \in 1 .. Len(intervals) : intervals[k] \in Interval
      BY <2>1 DEF IInv, TypeOK, Sorted
    <2>4. i \in Holders /\ j \in Holders
      BY <2>1, <2>2, <2>3 DEF IInv, IdleDead, Interval
    <2>5. QED
      BY <2>1, <2>4 DEF IInv, HoldersApart
  <1>2. QED
    BY <1>1, InitEstablishesIInv, NextKeepsIInv, PTL DEF Spec

(* Where nothing but an eviction makes values share, a value that is never   *)
(* read shares with none that is needed across it: `verify` may pass over it *)
(* in its search for overlaps.                                              *)
THEOREM NeverReadNeverShares ==
  Spec => [](\A i, j \in Placed : Overlap(i, j) /\ Dead(j) => locations[i] # locations[j])
  <1>1. IInv /\ DeadKeepRegister =>
          \A i, j \in Placed : Overlap(i, j) /\ Dead(j) => locations[i] # locations[j]
    BY KindsApart DEF IInv, OnlyEvictionShares, DeadKeepRegister
  <1>2. QED
    BY <1>1, InitEstablishesIInv, NextKeepsIInv, NextKeepsDead, PTL DEF Spec
=============================================================================
