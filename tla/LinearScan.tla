----------------------------- MODULE LinearScan -----------------------------
(***************************************************************************)
(* What the register allocator promises (src/src/codegen/regalloc.rs): the *)
(* linear scan as a relation between sets.  One step places one live       *)
(* interval.  Which free register or recycled slot is handed out, and in   *)
(* which order the active intervals are kept, is left open here; module    *)
(* RegAlloc fixes both the way the code does and implements this module.   *)
(***************************************************************************)
EXTENDS Integers, Sequences, FiniteSets

CONSTANTS
    CallerSaved,    \* allocatable registers a call destroys
    CalleeSaved,    \* allocatable registers that survive a call
    IntervalLists   \* the lists of live intervals the scan may be handed

(* A location is a register or a spill slot. *)
Reg(r) == <<"reg", r>>
Spill(n) == <<"spill", n>>
CallerRegs == {"reg"} \X CallerSaved
CalleeRegs == {"reg"} \X CalleeSaved
Registers == CallerRegs \cup CalleeRegs
Slots == {"spill"} \X Nat
Location == Registers \cup Slots

Interval == [start : Nat, end : Nat, crosses_call : BOOLEAN]

(* tests of src/src/codegen/mod.rs: a register belongs to exactly one pool. *)
ASSUME PoolsDisjoint == CallerSaved \cap CalleeSaved = {}

(* live_intervals sorts by definition, and no interval ends before it starts. *)
Sorted(list) ==
    /\ list \in Seq(Interval)
    /\ \A i \in 1 .. Len(list) : list[i].start <= list[i].end
    /\ \A i, j \in 1 .. Len(list) : i <= j => list[i].start <= list[j].start

ASSUME IntervalsSorted == \A list \in IntervalLists : Sorted(list)

VARIABLES
    intervals,      \* the list being allocated; a virtual register is its index
    next,           \* the interval the loop of `allocate` places next
    active,         \* the virtual registers in the `active` list
    locations,      \* the location of every virtual register placed so far
    free_slots,     \* slots handed back by expired intervals
    next_slot,      \* number of slots the frame reserves so far
    evicted         \* history: the virtual registers a later one was given
                    \* the register of; nothing below reads it

vars == <<intervals, next, active, locations, free_slots, next_slot, evicted>>

Placed == 1 .. next - 1

-----------------------------------------------------------------------------
(* `expire_through(interval.start)`: the active intervals that stay, and the *)
(* slots that are free once the others have handed theirs back.             *)
(* Mutant: an interval is expired one instruction early. *)
LiveShort(i) == {j \in active : intervals[j].end > intervals[i].start + 1}
Live(i) == {j \in active : intervals[j].end > intervals[i].start}
Expired(i) == active \ Live(i)
FreeSlots(i) == free_slots \cup ({locations[j] : j \in Expired(i)} \ Registers)

Held(i) == {locations[j] : j \in Live(i)}

(* Mutant: calls are forgotten. *)
UsableAnywhere(i) == Registers

(* A value live across a call cannot sit in a caller-saved register. *)
Usable(i) == IF intervals[i].crosses_call THEN CalleeRegs ELSE Registers

(* `steal_candidate`: the register holders worth evicting for interval i. *)
Stealable(i) == {j \in Live(i) : locations[j] \in Usable(i)}
Victims(i) == {v \in Stealable(i) :
                 /\ \A j \in Stealable(i) : intervals[j].end <= intervals[v].end
                 /\ intervals[v].end > intervals[i].end}

(* Mutant: a new slot is not counted. *)
AllocSlotUncounted(i, slot) ==
    /\ slot \in FreeSlots(i) \cup {Spill(next_slot)}
    /\ free_slots' = FreeSlots(i) \ {slot}
    /\ UNCHANGED next_slot

(* `alloc_slot`: a recycled slot when there is one, a new one otherwise. *)
AllocSlot(i, slot) ==
    \/ /\ slot \in FreeSlots(i)
       /\ free_slots' = FreeSlots(i) \ {slot}
       /\ UNCHANGED next_slot
    \/ /\ FreeSlots(i) = {}
       /\ slot = Spill(next_slot)
       /\ free_slots' = {}
       /\ next_slot' = next_slot + 1

Init ==
    /\ intervals \in IntervalLists
    /\ next = 1
    /\ active = {}
    /\ locations = << >>
    /\ free_slots = {}
    /\ next_slot = 0
    /\ evicted = {}

(* `take_register` found a free register. *)
Take(i, r) ==
    /\ r \in Usable(i) \ Held(i)
    /\ active' = Live(i) \cup {i}
    /\ locations' = [j \in 1 .. i |-> IF j = i THEN r ELSE locations[j]]
    /\ free_slots' = FreeSlots(i)
    /\ UNCHANGED <<next_slot, evicted>>

(* None is free: v gives up its register and moves to a slot for good. *)
Steal(i, v, slot) ==
    /\ Usable(i) \subseteq Held(i)
    /\ v \in Victims(i)
    /\ AllocSlot(i, slot)
    /\ active' = (Live(i) \ {v}) \cup {i}
    /\ locations' = [j \in 1 .. i |-> CASE j = i -> locations[v]
                                        [] j = v -> slot
                                        [] OTHER -> locations[j]]
    /\ evicted' = evicted \cup {v}

(* None is free and nothing outlives interval i: it is spilled itself. *)
SpillSelf(i, slot) ==
    /\ Usable(i) \subseteq Held(i)
    /\ Victims(i) = {}
    /\ AllocSlot(i, slot)
    /\ active' = Live(i) \cup {i}
    /\ locations' = [j \in 1 .. i |-> IF j = i THEN slot ELSE locations[j]]
    /\ UNCHANGED evicted

Place(i) ==
    \/ \E r \in Registers : Take(i, r)
    \/ \E v \in active, slot \in FreeSlots(i) \cup {Spill(next_slot)} : Steal(i, v, slot)
    \/ \E slot \in FreeSlots(i) \cup {Spill(next_slot)} : SpillSelf(i, slot)

PlaceNext ==
    /\ next <= Len(intervals)
    /\ Place(next)
    /\ next' = next + 1
    /\ UNCHANGED intervals

(* `allocate` has returned. *)
Returned ==
    /\ next > Len(intervals)
    /\ UNCHANGED vars

Next == PlaceNext \/ Returned

Spec == Init /\ [][Next]_vars

-----------------------------------------------------------------------------
(* Every value placed so far has a location, and what is free is a slot.   *)
TypeOK ==
    /\ Sorted(intervals)
    /\ next \in 1 .. Len(intervals) + 1
    /\ active \subseteq Placed
    /\ locations \in [Placed -> Location]
    /\ free_slots \subseteq Slots
    /\ next_slot \in Nat
    /\ evicted \subseteq Placed

(* Interval j is defined at or after i and before i's last use: writing j   *)
(* would destroy i if they shared a location.  Touching is not overlapping: *)
(* the operands of an instruction are read before its result is written.    *)
Overlap(i, j) == i < j /\ intervals[j].start < intervals[i].end

(* No two values that are needed at the same time are ever given the same   *)
(* register: the first half of `verify`, for registers.                     *)
RegistersNotShared ==
    \A i, j \in Placed :
        Overlap(i, j) /\ locations[i] \in Registers => locations[i] # locations[j]

(* A value that lives across a call never sits in a register the call       *)
(* destroys: the second half of `verify`.                                   *)
CallSafe ==
    \A i \in Placed : intervals[i].crosses_call => locations[i] \notin CallerRegs

(* At any point of the scan, the values still needed from here on have      *)
(* locations of their own, evicted ones included: what makes it legal to    *)
(* hand out what has expired.                                               *)
NeededApart ==
    \A i, j \in Placed :
        /\ i # j
        /\ intervals[i].end > intervals[next - 1].start
        /\ intervals[j].end > intervals[next - 1].start
        => locations[i] # locations[j]

(* Two overlapping values share a location only when the one of them that   *)
(* is still needed later was evicted: eviction is the one step that gives a *)
(* value a place for a time that has already passed.                        *)
OnlyEvictionShares ==
    \A i, j \in Placed :
        Overlap(i, j) /\ locations[i] = locations[j] =>
            locations[i] \in Slots /\ (i \in evicted \/ j \in evicted)
=============================================================================
