------------------------------ MODULE RegAlloc ------------------------------
(***************************************************************************)
(* `allocate` of src/src/codegen/regalloc.rs, statement by statement: free *)
(* registers and free slots are stacks, the active list is kept sorted by  *)
(* increasing end, and one step is one turn of the loop over the intervals *)
(* (expire, take or steal or spill, record, activate).  It implements      *)
(* LinearScan, where the choices are open.                                 *)
(***************************************************************************)
EXTENDS Integers, Sequences, FiniteSets, SequencesExt

CONSTANTS
    CallerSavedList,    \* RegisterFile.caller_saved
    CalleeSavedList,    \* RegisterFile.callee_saved
    IntervalLists       \* the lists of live intervals the scan may be handed

(* tests of src/src/codegen/mod.rs: a register belongs to exactly one pool. *)
ASSUME RegisterFile ==
    /\ CallerSavedList \in Seq(ToSet(CallerSavedList)) /\ IsInjective(CallerSavedList)
    /\ CalleeSavedList \in Seq(ToSet(CalleeSavedList)) /\ IsInjective(CalleeSavedList)
    /\ ToSet(CallerSavedList) \cap ToSet(CalleeSavedList) = {}

VARIABLES
    intervals,          \* a virtual register is its index in this list
    next,               \* the interval the loop places next
    free_caller_saved, free_callee_saved, free_slots,   \* stacks
    next_slot,
    active,             \* sequence of entries, by increasing end
    locations,
    used_callee_saved,
    evicted             \* history: see LinearScan

vars == <<intervals, next, free_caller_saved, free_callee_saved, free_slots,
          next_slot, active, locations, used_callee_saved, evicted>>

Scan == INSTANCE LinearScan WITH
            CallerSaved <- ToSet(CallerSavedList),
            CalleeSaved <- ToSet(CalleeSavedList),
            active <- {entry.vreg : entry \in ToSet(active)},
            free_slots <- ToSet(free_slots)

(* live_intervals sorts by definition. *)
ASSUME ListsSorted == \A list \in IntervalLists : Scan!Sorted(list)

RegsOf(list) == [k \in 1 .. Len(list) |-> Scan!Reg(list[k])]

-----------------------------------------------------------------------------
(* `expire_through(interval.start)`: the lists after so many entries of the *)
(* active list, each of which stays or goes back to where it is from.       *)
Before == [still_active |-> << >>, CallerSaved |-> free_caller_saved,
           CalleeSaved |-> free_callee_saved, None |-> free_slots]
Expire(lists, e, through) ==
    IF e.end <= through THEN [lists EXCEPT ![e.pool] = Append(@, e.location)]
    ELSE [lists EXCEPT !.still_active = Append(@, e)]
Expiring(i) ==
    LET lists[k \in 0 .. Len(active)] ==
            IF k = 0 THEN Before ELSE Expire(lists[k - 1], active[k], intervals[i].start)
    IN  lists
Kept(i) == Expiring(i)[Len(active)].still_active
CallerStack(i) == Expiring(i)[Len(active)].CallerSaved
CalleeStack(i) == Expiring(i)[Len(active)].CalleeSaved
SlotStack(i) == Expiring(i)[Len(active)].None

(* `take_register` would answer None. *)
NoRegister(i) ==
    /\ CalleeStack(i) = << >>
    /\ intervals[i].crosses_call \/ CallerStack(i) = << >>

(* `steal_candidate`: the last of the longest-lived entries whose register  *)
(* interval i could use, if it outlives i.                                  *)
Candidates(i) ==
    {p \in DOMAIN Kept(i) :
        \/ Kept(i)[p].pool = "CalleeSaved"
        \/ Kept(i)[p].pool = "CallerSaved" /\ ~intervals[i].crosses_call}
Outlives(i, p, q) ==
    \/ Kept(i)[p].end > Kept(i)[q].end
    \/ Kept(i)[p].end = Kept(i)[q].end /\ p >= q
(* Mutant: a register is stolen from a value that ends no later. *)
StealCandidateAny(i) == {p \in Candidates(i) : \A q \in Candidates(i) : Outlives(i, p, q)}
StealCandidate(i) ==
    {p \in Candidates(i) :
        /\ \A q \in Candidates(i) : Outlives(i, p, q)
        /\ Kept(i)[p].end > intervals[i].end}

(* `alloc_slot`, and what it leaves behind. *)
AllocSlot(i) == IF SlotStack(i) = << >> THEN Scan!Spill(next_slot) ELSE Last(SlotStack(i))
(* Mutant: a recycled slot is not popped. *)
PopSlotPeeked(i) ==
    /\ free_slots' = SlotStack(i)
    /\ next_slot' = IF SlotStack(i) = << >> THEN next_slot + 1 ELSE next_slot
PopSlot(i) ==
    /\ free_slots' = IF SlotStack(i) = << >> THEN << >> ELSE Front(SlotStack(i))
    /\ next_slot' = IF SlotStack(i) = << >> THEN next_slot + 1 ELSE next_slot

(* `partition_point`: the active list stays sorted by increasing end. *)
Activate(i, entries, location, pool) ==
    LET at == Cardinality({p \in DOMAIN entries : entries[p].end <= intervals[i].end})
    IN  InsertAt(entries, at + 1, [vreg |-> i, end |-> intervals[i].end,
                                   location |-> location, pool |-> pool])

(* Mutant: a callee-saved register is noted each time it is handed out. *)
SettleAgain(i, placed, entries, location, pool) ==
    /\ used_callee_saved' =
          IF pool = "CalleeSaved" THEN Append(used_callee_saved, location) ELSE used_callee_saved
    /\ locations' = Append(placed, location)
    /\ active' = Activate(i, entries, location, pool)

(* The tail of the loop body: note the register used, record, activate. *)
Settle(i, placed, entries, location, pool) ==
    /\ used_callee_saved' =
          IF pool = "CalleeSaved" /\ location \notin ToSet(used_callee_saved)
          THEN Append(used_callee_saved, location) ELSE used_callee_saved
    /\ locations' = Append(placed, location)
    /\ active' = Activate(i, entries, location, pool)

-----------------------------------------------------------------------------
InitScan ==
    /\ next = 1
    /\ free_caller_saved = Reverse(RegsOf(CallerSavedList))
    /\ free_callee_saved = Reverse(RegsOf(CalleeSavedList))
    /\ free_slots = << >>
    /\ next_slot = 0
    /\ active = << >>
    /\ locations = << >>
    /\ used_callee_saved = << >>
    /\ evicted = {}

Init == intervals \in IntervalLists /\ InitScan

TakeCallerSaved(i) ==
    /\ ~intervals[i].crosses_call
    /\ CallerStack(i) # << >>
    /\ free_caller_saved' = Front(CallerStack(i))
    /\ free_callee_saved' = CalleeStack(i)
    /\ free_slots' = SlotStack(i)
    /\ Settle(i, locations, Kept(i), Last(CallerStack(i)), "CallerSaved")
    /\ UNCHANGED <<next_slot, evicted>>

TakeCalleeSaved(i) ==
    /\ intervals[i].crosses_call \/ CallerStack(i) = << >>
    /\ CalleeStack(i) # << >>
    /\ free_caller_saved' = CallerStack(i)
    /\ free_callee_saved' = Front(CalleeStack(i))
    /\ free_slots' = SlotStack(i)
    /\ Settle(i, locations, Kept(i), Last(CalleeStack(i)), "CalleeSaved")
    /\ UNCHANGED <<next_slot, evicted>>

Steal(i) ==
    /\ NoRegister(i)
    /\ \E p \in StealCandidate(i) :
          LET victim == Kept(i)[p]
          IN  /\ PopSlot(i)
              /\ free_caller_saved' = CallerStack(i)
              /\ free_callee_saved' = CalleeStack(i)
              /\ evicted' = evicted \cup {victim.vreg}
              /\ Settle(i, [locations EXCEPT ![victim.vreg] = AllocSlot(i)],
                        RemoveAt(Kept(i), p), victim.location, victim.pool)

SpillSelf(i) ==
    /\ NoRegister(i)
    /\ StealCandidate(i) = {}
    /\ PopSlot(i)
    /\ free_caller_saved' = CallerStack(i)
    /\ free_callee_saved' = CalleeStack(i)
    /\ Settle(i, locations, Kept(i), AllocSlot(i), "None")
    /\ UNCHANGED evicted

PlaceNext ==
    /\ next <= Len(intervals)
    /\ TakeCallerSaved(next) \/ TakeCalleeSaved(next) \/ Steal(next) \/ SpillSelf(next)
    /\ next' = next + 1
    /\ UNCHANGED intervals

Returned ==
    /\ next > Len(intervals)
    /\ UNCHANGED vars

Next == PlaceNext \/ Returned

Spec == Init /\ [][Next]_vars

-----------------------------------------------------------------------------
Registers == ToSet(RegsOf(CallerSavedList)) \cup ToSet(RegsOf(CalleeSavedList))

(* No list of the allocator holds anything it may not, and the slots in use *)
(* are those the frame reserves.                                            *)
TypeOK ==
    /\ next \in 1 .. Len(intervals) + 1
    /\ next_slot \in 0 .. Len(intervals)
    /\ DOMAIN locations = 1 .. next - 1
    /\ ToSet(locations) \subseteq Registers \cup {Scan!Spill(n) : n \in 0 .. next_slot - 1}
    /\ ToSet(free_callee_saved) \subseteq Registers
    /\ ToSet(free_caller_saved) \subseteq Registers

(* Every register is in exactly one place, its own free stack or one active *)
(* entry of its own pool, and is there once: none is lost, handed out twice *)
(* or handed back to the wrong pool by expire_through or by a theft.        *)
HeldFrom(entries, pool) == {e.location : e \in {a \in ToSet(entries) : a.pool = pool}}
RegistersAccounted ==
    LET pooled(stack, list, pool) ==
            /\ IsInjective(stack)
            /\ ToSet(stack) \cap HeldFrom(active, pool) = {}
            /\ ToSet(stack) \cup HeldFrom(active, pool) = ToSet(RegsOf(list))
    IN  /\ pooled(free_caller_saved, CallerSavedList, "CallerSaved")
        /\ pooled(free_callee_saved, CalleeSavedList, "CalleeSaved")
        /\ \A p, q \in DOMAIN active : active[p].location = active[q].location => p = q

(* Every slot the frame reserves is free, held by an active entry or the    *)
(* home of an evicted value, and only one of the three.                     *)
Homes == {locations[v] : v \in evicted}
SlotsAccounted ==
    /\ ToSet(free_slots) \cup HeldFrom(active, "None") \cup Homes =
          {Scan!Spill(n) : n \in 0 .. next_slot - 1}
    /\ IsInjective(free_slots)
    /\ ToSet(free_slots) \cap HeldFrom(active, "None") = {}
    /\ Homes \cap (ToSet(free_slots) \cup HeldFrom(active, "None")) = {}
    /\ \A v, w \in evicted : locations[v] = locations[w] => v = w

(* partition_point and the last-of-the-longest rule of max_by_key both rely *)
(* on the active list being sorted, and on its entries telling the truth    *)
(* about where their values are.                                            *)
ActiveSorted ==
    /\ \A p, q \in DOMAIN active : p <= q => active[p].end <= active[q].end
    /\ \A p \in DOMAIN active : locations[active[p].vreg] = active[p].location

(* What the allocator knows of registers, slots and active values is true and *)
(* whole between any two turns of its loop.                                  *)
Bookkeeping == TypeOK /\ RegistersAccounted /\ SlotsAccounted /\ ActiveSorted

(* The prologue saves exactly the callee-saved registers some value ends up *)
(* in: one it missed would be destroyed for the caller, and one too many    *)
(* (a stolen one whose thief was evicted in turn) would be saved for nothing.*)
SavedExactly ==
    /\ ToSet(used_callee_saved) = ToSet(locations) \cap ToSet(RegsOf(CalleeSavedList))
    /\ IsInjective(used_callee_saved)

(* The stacks and the sorted list only fix choices LinearScan leaves open.  *)
ImplementsLinearScan == Scan!Spec

(* `verify`: no two intervals that overlap may share a location, and        *)
(* nothing live across a call may sit in a caller-saved register.  Its test *)
(* for overlap passes over a value that is never read.                      *)
Verified ==
    /\ \A i, j \in 1 .. next - 1 :
          Scan!Overlap(i, j) /\ intervals[j].start < intervals[j].end =>
              locations[i] # locations[j]
    /\ Scan!CallSafe

(* What `verify` says of every allocation that `allocate` returns.          *)
VerifiedWhenReturned == next > Len(intervals) => Verified
=============================================================================
