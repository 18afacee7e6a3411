--------------------------- MODULE RegAllocProofs ---------------------------
(***************************************************************************)
(* Proofs about RegAlloc for every register file and every list of live    *)
(* intervals: its books are in order after every turn of the loop, and the *)
(* loop implements LinearScan, whatever that one promises included.        *)
(***************************************************************************)
EXTENDS RegAlloc, SequenceFacts

Pools == {"CallerSaved", "CalleeSaved", "None"}
Entry == [vreg : Nat, end : Nat, location : Scan!Location, pool : Pools]
Reserved == {Scan!Spill(n) : n \in 0 .. next_slot - 1}

(* The entries are kept by increasing end, and no two of them hold a place. *)
InOrder(entries) ==
    /\ entries \in Seq(Entry)
    /\ \A p, q \in DOMAIN entries : p <= q => entries[p].end <= entries[q].end
    /\ \A p, q \in DOMAIN entries : entries[p].location = entries[q].location => p = q

(* An entry is about a value placed before and tells the truth about it. *)
Truthful(entries) ==
    \A e \in ToSet(entries) :
        /\ e.vreg \in 1 .. next - 1
        /\ e.end = intervals[e.vreg].end
        /\ locations[e.vreg] = e.location

(* The locations of a pool are on its stack or with an entry, never both. *)
Pooled(stack, entries, pool, all) ==
    /\ stack \in Seq(Scan!Location)
    /\ IsInjective(stack)
    /\ ToSet(stack) \cap HeldFrom(entries, pool) = {}
    /\ ToSet(stack) \cup HeldFrom(entries, pool) = all

(* The books, of the lists as they are or as expire_through leaves them. *)
Ledger(entries, caller, callee, slots) ==
    /\ InOrder(entries)
    /\ Truthful(entries)
    /\ Pooled(caller, entries, "CallerSaved", Scan!CallerRegs)
    /\ Pooled(callee, entries, "CalleeSaved", Scan!CalleeRegs)
    /\ Pooled(slots, entries, "None", Reserved \ Homes)

(* Where everything is that was placed so far. *)
PlacedSoFar ==
    /\ Scan!Sorted(intervals)
    /\ next \in 1 .. Len(intervals) + 1
    /\ next_slot \in 0 .. next - 1
    /\ locations \in Seq(Scan!Location)
    /\ Len(locations) = next - 1
    /\ ToSet(locations) \subseteq Scan!Registers \cup Reserved
    /\ evicted \subseteq 1 .. next - 1
    /\ Homes \subseteq Reserved
    /\ \A v, w \in evicted : locations[v] = locations[w] => v = w

Saved ==
    /\ used_callee_saved \in Seq(Scan!Location)
    /\ IsInjective(used_callee_saved)
    /\ ToSet(used_callee_saved) = ToSet(locations) \cap Scan!CalleeRegs

IInv ==
    /\ PlacedSoFar
    /\ Ledger(active, free_caller_saved, free_callee_saved, free_slots)
    /\ Saved

-----------------------------------------------------------------------------
(* The registers of a list, as locations. *)
LEMMA RegsOfFacts ==
  ASSUME NEW list, list \in Seq(ToSet(list)), IsInjective(list)
  PROVE  /\ RegsOf(list) \in Seq({"reg"} \X ToSet(list))
         /\ ToSet(RegsOf(list)) = {"reg"} \X ToSet(list)
         /\ IsInjective(RegsOf(list))
<1>1. Len(list) \in Nat /\ DOMAIN list = 1 .. Len(list)
  OBVIOUS
<1>2. RegsOf(list) = [k \in 1 .. Len(list) |-> <<"reg", list[k]>>]
  BY Zenon DEF RegsOf, Scan!Reg
<1>3. ToSet(list) = {list[k] : k \in 1 .. Len(list)}
  BY <1>1 DEF ToSet
<1>4. RegsOf(list) \in Seq({"reg"} \X ToSet(list))
  BY <1>1, <1>2, <1>3
<1>5. ToSet(RegsOf(list)) = {<<"reg", list[k]>> : k \in 1 .. Len(list)}
  BY <1>2 DEF ToSet
<1>6. IsInjective(RegsOf(list))
  BY <1>1, <1>2 DEF IsInjective
<1> QED
  BY <1>3, <1>4, <1>5, <1>6

(* The two pools as LinearScan sees them. *)
LEMMA PoolsAre ==
  /\ ToSet(RegsOf(CallerSavedList)) = Scan!CallerRegs
  /\ ToSet(RegsOf(CalleeSavedList)) = Scan!CalleeRegs
  /\ Registers = Scan!Registers
  /\ Scan!CallerRegs \cap Scan!CalleeRegs = {}
  /\ Scan!Registers \cap Scan!Slots = {}
  /\ Scan!Registers \subseteq Scan!Location
  /\ Scan!Registers = Scan!CallerRegs \cup Scan!CalleeRegs
<1>1. /\ ToSet(RegsOf(CallerSavedList)) = Scan!CallerRegs
      /\ ToSet(RegsOf(CalleeSavedList)) = Scan!CalleeRegs
  BY RegisterFile, RegsOfFacts DEF Scan!CallerRegs, Scan!CalleeRegs
<1>2. Registers = Scan!Registers /\ Scan!Registers = Scan!CallerRegs \cup Scan!CalleeRegs
  BY <1>1 DEF Registers, Scan!Registers
<1>3. Scan!CallerRegs \cap Scan!CalleeRegs = {}
  BY RegisterFile DEF Scan!CallerRegs, Scan!CalleeRegs
<1>4. Scan!Registers \cap Scan!Slots = {}
  BY DEF Scan!Registers, Scan!Slots, Scan!CallerRegs, Scan!CalleeRegs
<1>5. Scan!Registers \subseteq Scan!Location
  BY DEF Scan!Location
<1> QED
  BY <1>1, <1>2, <1>3, <1>4, <1>5

(* The slots the frame reserves are slots, and the next one is not yet among *)
(* them.                                                                    *)
LEMMA ReservedAre ==
  ASSUME next_slot \in Nat
  PROVE  /\ Reserved \subseteq Scan!Slots
         /\ Reserved \subseteq Scan!Location
         /\ Scan!Spill(next_slot) \in Scan!Slots
         /\ Scan!Spill(next_slot) \in Scan!Location
         /\ Scan!Spill(next_slot) \notin Reserved
  BY DEF Reserved, Scan!Slots, Scan!Location, Scan!Spill

-----------------------------------------------------------------------------
Names == {"still_active"} \cup Pools
Lists == {l \in [Names -> Seq(Entry \cup Scan!Location)] :
            l.still_active \in Seq(Entry) /\ \A pool \in Pools : l[pool] \in Seq(Scan!Location)}

(* One entry goes to one of the four lists and leaves the others as they are. *)
LEMMA ExpireIs ==
  ASSUME NEW l \in Lists, NEW e \in Entry, NEW through
  PROVE  /\ Expire(l, e, through) \in Lists
         /\ Expire(l, e, through).still_active =
               IF e.end <= through THEN l.still_active ELSE Append(l.still_active, e)
         /\ \A pool \in Pools :
               Expire(l, e, through)[pool] =
                  IF e.end <= through /\ e.pool = pool THEN Append(l[pool], e.location)
                  ELSE l[pool]
<1>1. /\ e.pool \in Pools /\ e.location \in Scan!Location
      /\ l \in [Names -> Seq(Entry \cup Scan!Location)]
      /\ l.still_active \in Seq(Entry) /\ \A pool \in Pools : l[pool] \in Seq(Scan!Location)
  BY DEF Entry, Lists
<1>2. CASE e.end <= through
  <2> DEFINE x == Append(l[e.pool], e.location)
  <2>1. x \in Seq(Scan!Location) /\ x \in Seq(Entry \cup Scan!Location)
    BY <1>1
  <2>2. Expire(l, e, through) = [l EXCEPT ![e.pool] = x]
    BY <1>2, Zenon DEF Expire
  <2> HIDE DEF x
  <2>3. /\ [l EXCEPT ![e.pool] = x] \in [Names -> Seq(Entry \cup Scan!Location)]
        /\ \A name \in Names :
              [l EXCEPT ![e.pool] = x][name] = IF name = e.pool THEN x ELSE l[name]
    BY <1>1, <2>1 DEF Names
  <2>4. "still_active" \in Names /\ "still_active" \notin Pools /\ Pools \subseteq Names
    BY DEF Names, Pools
  <2>5. /\ Expire(l, e, through).still_active = l.still_active
        /\ \A pool \in Pools :
              Expire(l, e, through)[pool] = IF pool = e.pool THEN x ELSE l[pool]
    BY <1>1, <2>2, <2>3, <2>4
  <2>6. Expire(l, e, through) \in Lists
    BY <1>1, <2>1, <2>2, <2>3, <2>5 DEF Lists
  <2> QED
    BY <1>2, <2>5, <2>6 DEF x
<1>3. CASE ~(e.end <= through)
  <2> DEFINE x == Append(l.still_active, e)
  <2>1. x \in Seq(Entry) /\ x \in Seq(Entry \cup Scan!Location)
    BY <1>1
  <2>2. Expire(l, e, through) = [l EXCEPT !["still_active"] = x]
    BY <1>3, Zenon DEF Expire
  <2> HIDE DEF x
  <2>3. /\ [l EXCEPT !["still_active"] = x] \in [Names -> Seq(Entry \cup Scan!Location)]
        /\ \A name \in Names :
              [l EXCEPT !["still_active"] = x][name] =
                 IF name = "still_active" THEN x ELSE l[name]
    BY <1>1, <2>1 DEF Names
  <2>4. "still_active" \in Names /\ "still_active" \notin Pools /\ Pools \subseteq Names
    BY DEF Names, Pools
  <2>5. /\ Expire(l, e, through).still_active = x
        /\ \A pool \in Pools : Expire(l, e, through)[pool] = l[pool]
    BY <2>2, <2>3, <2>4
  <2>6. Expire(l, e, through) \in Lists
    BY <1>1, <2>1, <2>2, <2>3, <2>5 DEF Lists
  <2> QED
    BY <1>3, <2>5, <2>6 DEF x
<1> QED
  BY <1>2, <1>3

(* The pass over the active list, one entry at a time. *)
LEMMA ExpiringIs ==
  ASSUME IInv, NEW i
  PROVE  /\ Expiring(i) \in [0 .. Len(active) -> Lists]
         /\ Expiring(i)[0] = Before
         /\ \A k \in 1 .. Len(active) :
               Expiring(i)[k] = Expire(Expiring(i)[k - 1], active[k], intervals[i].start)
<1> DEFINE n == Len(active)
           through == intervals[i].start
           step == [k \in 1 .. n |-> [l \in Lists |-> Expire(l, active[k], through)]]
           F(f) == [k \in 0 .. n |->
                       IF k = 0 THEN Before ELSE Expire(f[k - 1], active[k], through)]
<1>1. active \in Seq(Entry) /\ n \in Nat /\ \A k \in 1 .. n : active[k] \in Entry
  BY DEF IInv, Ledger, InOrder
<1>2. Before \in Lists
  <2>1. /\ free_caller_saved \in Seq(Scan!Location) /\ free_callee_saved \in Seq(Scan!Location)
        /\ free_slots \in Seq(Scan!Location)
    BY DEF IInv, Ledger, Pooled
  <2>2. << >> \in Seq(Entry)
    OBVIOUS
  <2>3. Before \in [Names -> Seq(Entry \cup Scan!Location)]
    <3> DEFINE S == Seq(Entry \cup Scan!Location)
    <3>1. /\ free_caller_saved \in S /\ free_callee_saved \in S
          /\ free_slots \in S /\ << >> \in S
      BY <2>1
    <3> HIDE DEF S
    <3>2. Before \in [Names -> S]
      BY <3>1 DEF Before, Names, Pools
    <3> QED
      BY <3>2 DEF S
  <2> QED
    BY <2>1, <2>2, <2>3 DEF Before, Lists, Pools
<1>3. ASSUME NEW l \in Lists, NEW e \in Entry PROVE Expire(l, e, through) \in Lists
  BY ExpireIs
<1>4. step \in [1 .. n -> [Lists -> Lists]]
  BY <1>1, <1>3
<1>5. PICK f \in [0 .. n -> Lists] :
         f[0] = Before /\ \A k \in 1 .. n : f[k] = step[k][f[k - 1]]
  <2>1. n \in Nat
    BY <1>1
  <2> HIDE DEF step, n
  <2>2. Solutions(n, Lists, Before, step) # {}
    BY <1>2, <1>4, <2>1, Recursion
  <2> QED
    BY <2>2 DEF Solutions
<1>6. f = F(f)
  <2>1. ASSUME NEW k \in 1 .. n PROVE f[k] = Expire(f[k - 1], active[k], through)
    <3>1. k - 1 \in 0 .. n
      BY <1>1
    <3>2. f[k - 1] \in Lists
      BY <3>1
    <3>3. step[k][f[k - 1]] = Expire(f[k - 1], active[k], through)
      BY <3>2
    <3> HIDE DEF step
    <3> QED
      BY <1>5, <3>3
  <2> HIDE DEF n
  <2>2. \A k \in 0 .. n : f[k] = IF k = 0 THEN Before ELSE Expire(f[k - 1], active[k], through)
    BY <1>1, <1>5, <2>1
  <2> QED
    BY <2>2
<1>7. Expiring(i) = CHOOSE g : g = F(g)
  BY DEF Expiring
<1>8. Expiring(i) = F(Expiring(i))
  BY <1>6, <1>7
<1>8a. /\ Expiring(i)[0] = Before
       /\ \A k \in 1 .. n : Expiring(i)[k] = Expire(Expiring(i)[k - 1], active[k], through)
  <2> DEFINE E == Expiring(i)
  <2> HIDE DEF E, n
  <2>1. E = F(E)
    BY <1>8 DEF E
  <2>2. E[0] = Before /\ \A k \in 1 .. n : E[k] = Expire(E[k - 1], active[k], through)
    BY <1>1, <2>1
  <2> QED
    BY <2>2 DEF E
<1>9. Expiring(i) \in [0 .. n -> Lists]
  <2> DEFINE E == Expiring(i)
             S == {k \in 0 .. n : E[k] \in Lists}
  <2>1. E[0] = Before /\ \A k \in 1 .. n : E[k] = Expire(E[k - 1], active[k], through)
    BY <1>8a
  <2>2. 0 \in S
    BY <1>1, <1>2, <2>1
  <2>3. ASSUME NEW k \in 0 .. n - 1, k \in S PROVE k + 1 \in S
    <3>1. k + 1 \in 1 .. n /\ k + 1 - 1 = k
      BY <1>1
    <3>2. E[k + 1] = Expire(E[k], active[k + 1], through)
      BY <2>1, <3>1
    <3> QED
      BY <1>1, <1>3, <2>3, <3>1, <3>2
  <2>4. \A k \in 0 .. n : k \in S
    <3> HIDE DEF S
    <3> QED
      BY <1>1, <2>2, <2>3, UpTo
  <2> QED
    BY <1>8, <2>4
<1> QED
  BY <1>9, <1>8a

(* The three stacks before the pass, by their pools. *)
LEMMA BeforeIs ==
  ASSUME IInv, NEW pool \in Pools
  PROVE  /\ Before[pool] \in Seq(Scan!Location)
         /\ IsInjective(Before[pool])
         /\ ToSet(Before[pool]) \cap HeldFrom(active, pool) = {}
  BY DEF IInv, Ledger, Pooled, Before, Pools

(* The entries looked at so far that stay, and those that leave for a pool. *)
Stays(k, through) == {q \in 1 .. k : ~(active[q].end <= through)}
Leaves(k, through, pool) ==
    {q \in 1 .. k : active[q].end <= through /\ active[q].pool = pool}

(* What the pass has done after k entries. *)
Passed(lists, k, through) ==
    /\ ToSet(lists.still_active) = {active[q] : q \in Stays(k, through)}
    /\ \A p, r \in DOMAIN lists.still_active : p < r =>
          \E a, b \in 1 .. k :
             a < b /\ lists.still_active[p] = active[a] /\ lists.still_active[r] = active[b]
    /\ \A pool \in Pools :
          /\ IsInjective(lists[pool])
          /\ ToSet(lists[pool]) =
                ToSet(Before[pool]) \cup {active[q].location : q \in Leaves(k, through, pool)}

(* One more entry. *)
LEMMA PassOne ==
  ASSUME IInv, NEW through, NEW k \in 0 .. Len(active) - 1, NEW l \in Lists,
         Passed(l, k, through)
  PROVE  Passed(Expire(l, active[k + 1], through), k + 1, through)
<1> DEFINE e == active[k + 1]
           t == Expire(l, e, through)
<1>1. /\ active \in Seq(Entry) /\ Len(active) \in Nat /\ DOMAIN active = 1 .. Len(active)
      /\ \A p, q \in DOMAIN active : active[p].location = active[q].location => p = q
  BY DEF IInv, Ledger, InOrder
<1>2. k + 1 \in 1 .. Len(active) /\ 1 .. k + 1 = (1 .. k) \cup {k + 1} /\ k + 1 \notin 1 .. k
  BY <1>1
<1>3. e \in Entry /\ e.pool \in Pools /\ e.location \in Scan!Location
  <2>1. e \in Entry
    BY <1>1, <1>2
  <2> HIDE DEF e, t
  <2> QED
    BY <2>1 DEF Entry
<1>4. /\ l.still_active \in Seq(Entry)
      /\ \A pool \in Pools : l[pool] \in Seq(Scan!Location)
  BY DEF Lists
<1>5. /\ t.still_active = IF e.end <= through THEN l.still_active ELSE Append(l.still_active, e)
      /\ \A pool \in Pools :
            t[pool] = IF e.end <= through /\ e.pool = pool THEN Append(l[pool], e.location)
                      ELSE l[pool]
  BY <1>3, ExpireIs
<1> HIDE DEF t
<1>6. ToSet(t.still_active) = {active[q] : q \in Stays(k + 1, through)}
  <2>1. CASE e.end <= through
    <3>1. Stays(k + 1, through) = Stays(k, through)
      BY <1>2, <2>1 DEF Stays
    <3> QED
      BY <1>5, <2>1, <3>1 DEF Passed
  <2>2. CASE ~(e.end <= through)
    <3>1. Stays(k + 1, through) = Stays(k, through) \cup {k + 1}
      BY <1>2, <2>2 DEF Stays
    <3>2. ToSet(t.still_active) = ToSet(l.still_active) \cup {e}
      BY <1>3, <1>4, <1>5, <2>2, AppendFacts
    <3> QED
      BY <3>1, <3>2 DEF Passed
  <2> QED
    BY <2>1, <2>2
<1>7. ASSUME NEW p \in DOMAIN t.still_active, NEW r \in DOMAIN t.still_active, p < r
      PROVE  \E a, b \in 1 .. k + 1 :
                a < b /\ t.still_active[p] = active[a] /\ t.still_active[r] = active[b]
  <2>1. CASE e.end <= through
    BY <1>2, <1>5, <1>7, <2>1 DEF Passed
  <2>2. CASE ~(e.end <= through)
    <3> DEFINE s == l.still_active
    <3>1. /\ s \in Seq(Entry) /\ Len(s) \in Nat /\ t.still_active = Append(s, e)
      BY <1>4, <1>5, <2>2
    <3> HIDE DEF s
    <3>2. /\ p \in 1 .. Len(s) + 1 /\ r \in 1 .. Len(s) + 1 /\ DOMAIN s = 1 .. Len(s)
          /\ \A q \in 1 .. Len(s) : t.still_active[q] = s[q]
          /\ t.still_active[Len(s) + 1] = e
      BY <3>1
    <3>3. p \in DOMAIN s /\ (r \in DOMAIN s \/ r = Len(s) + 1)
      BY <1>7, <3>1, <3>2
    <3>4. CASE r \in DOMAIN s
      <4>1. \E a, b \in 1 .. k : a < b /\ s[p] = active[a] /\ s[r] = active[b]
        BY <1>7, <3>3, <3>4 DEF Passed, s
      <4> QED
        BY <1>2, <3>2, <3>3, <3>4, <4>1
    <3>5. CASE r = Len(s) + 1
      <4>1. s[p] \in ToSet(s)
        BY <3>3 DEF ToSet
      <4>2. PICK a \in Stays(k, through) : s[p] = active[a]
        BY <4>1 DEF Passed, s
      <4>3. a \in 1 .. k /\ a < k + 1
        BY DEF Stays
      <4>4. t.still_active[p] = active[a] /\ t.still_active[r] = active[k + 1]
        BY <3>2, <3>3, <3>5, <4>2
      <4> QED
        BY <1>2, <4>3, <4>4
    <3> QED
      BY <3>3, <3>4, <3>5
  <2> QED
    BY <2>1, <2>2
<1>8. ASSUME NEW pool \in Pools
      PROVE  /\ IsInjective(t[pool])
             /\ ToSet(t[pool]) =
                   ToSet(Before[pool]) \cup
                   {active[q].location : q \in Leaves(k + 1, through, pool)}
  <2>1. /\ IsInjective(l[pool])
        /\ ToSet(l[pool]) =
              ToSet(Before[pool]) \cup {active[q].location : q \in Leaves(k, through, pool)}
    BY DEF Passed
  <2>2. CASE ~(e.end <= through /\ e.pool = pool)
    <3>1. Leaves(k + 1, through, pool) = Leaves(k, through, pool)
      BY <1>2, <2>2 DEF Leaves
    <3> QED
      BY <1>5, <2>1, <2>2, <3>1
  <2>3. CASE e.end <= through /\ e.pool = pool
    <3>1. Leaves(k + 1, through, pool) = Leaves(k, through, pool) \cup {k + 1}
      BY <1>2, <2>3 DEF Leaves
    <3>2. e.location \notin ToSet(Before[pool])
      <4>1. e \in ToSet(active)
        BY <1>1, <1>2 DEF ToSet
      <4>2. e.location \in HeldFrom(active, pool)
        BY <2>3, <4>1 DEF HeldFrom
      <4> QED
        BY <4>2, BeforeIs
    <3>3. \A q \in Leaves(k, through, pool) : active[q].location # e.location
      <4> TAKE q \in Leaves(k, through, pool)
      <4>1. q \in DOMAIN active /\ k + 1 \in DOMAIN active /\ q # k + 1
        BY <1>1, <1>2 DEF Leaves
      <4> QED
        BY <1>1, <4>1
    <3>4. e.location \notin ToSet(l[pool])
      BY <2>1, <3>2, <3>3
    <3>5. t[pool] = Append(l[pool], e.location)
      BY <1>5, <2>3
    <3>6. /\ ToSet(t[pool]) = ToSet(l[pool]) \cup {e.location}
          /\ IsInjective(t[pool])
      BY <1>3, <1>4, <2>1, <3>4, <3>5, AppendFacts
    <3> QED
      BY <2>1, <3>1, <3>6
  <2> QED
    BY <2>2, <2>3
<1> QED
  BY <1>6, <1>7, <1>8 DEF Passed, t

(* All of them. *)
LEMMA PassAll ==
  ASSUME IInv, NEW i
  PROVE  Passed(Expiring(i)[Len(active)], Len(active), intervals[i].start)
<1> DEFINE n == Len(active)
           E == Expiring(i)
           through == intervals[i].start
           S == {k \in 0 .. n : Passed(E[k], k, through)}
<1>1. /\ E \in [0 .. n -> Lists] /\ E[0] = Before
      /\ \A k \in 1 .. n : E[k] = Expire(E[k - 1], active[k], through)
  BY ExpiringIs
<1>2. n \in Nat
  BY DEF IInv, Ledger, InOrder
<1> HIDE DEF E
<1>3. 0 \in S
  <2>1. Stays(0, through) = {} /\ \A pool \in Pools : Leaves(0, through, pool) = {}
    BY DEF Stays, Leaves
  <2>2. Before.still_active = << >>
    BY DEF Before
  <2>3. ToSet(Before.still_active) = {} /\ DOMAIN Before.still_active = {}
    BY <2>2 DEF ToSet
  <2>4. Passed(Before, 0, through)
    BY <2>1, <2>3, BeforeIs DEF Passed
  <2> QED
    BY <1>1, <1>2, <2>4
<1>4. ASSUME NEW k \in 0 .. n - 1, k \in S PROVE k + 1 \in S
  <2>1. k \in 0 .. n /\ k + 1 \in 1 .. n /\ k + 1 \in 0 .. n /\ k + 1 - 1 = k
    BY <1>2
  <2>2. E[k] \in Lists /\ Passed(E[k], k, through)
    BY <1>1, <1>4, <2>1
  <2>3. E[k + 1] = Expire(E[k], active[k + 1], through)
    BY <1>1, <2>1
  <2>4. Passed(E[k + 1], k + 1, through)
    BY <2>2, <2>3, PassOne
  <2> QED
    BY <2>1, <2>4
<1>5. \A k \in 0 .. n : k \in S
  <2> HIDE DEF S, n
  <2> QED
    BY <1>2, <1>3, <1>4, UpTo
<1> QED
  BY <1>2, <1>5 DEF E

(* What expire_through leaves of the active list. *)
LEMMA KeptIs ==
  ASSUME IInv, NEW i
  PROVE  /\ InOrder(Kept(i))
         /\ Truthful(Kept(i))
         /\ ToSet(Kept(i)) = {e \in ToSet(active) : ~(e.end <= intervals[i].start)}
<1> DEFINE n == Len(active)
           K == Kept(i)
           through == intervals[i].start
<1>1. /\ active \in Seq(Entry) /\ n \in Nat /\ DOMAIN active = 1 .. n
      /\ \A p, q \in DOMAIN active : p <= q => active[p].end <= active[q].end
      /\ \A p, q \in DOMAIN active : active[p].location = active[q].location => p = q
  BY DEF IInv, Ledger, InOrder
<1>2. K \in Seq(Entry)
  <2>1. Expiring(i)[n] \in Lists
    BY <1>1, ExpiringIs
  <2> QED
    BY <2>1 DEF Kept, Lists
<1>3. /\ ToSet(K) = {active[q] : q \in Stays(n, through)}
      /\ \A p, r \in DOMAIN K : p < r =>
            \E a, b \in 1 .. n : a < b /\ K[p] = active[a] /\ K[r] = active[b]
  BY PassAll DEF Passed, Kept
<1> HIDE DEF K, n
<1>4. ToSet(K) = {e \in ToSet(active) : ~(e.end <= through)}
  <2>1. \A q \in Stays(n, through) : active[q] \in ToSet(active) /\ ~(active[q].end <= through)
    BY <1>1 DEF ToSet, Stays
  <2>2. \A e \in ToSet(active) :
           ~(e.end <= through) => \E q \in Stays(n, through) : active[q] = e
    BY <1>1 DEF ToSet, Stays
  <2> QED
    BY <1>3, <2>1, <2>2
<1>7. \A p, q \in DOMAIN K : p <= q => K[p].end <= K[q].end
  <2> SUFFICES ASSUME NEW p \in DOMAIN K, NEW q \in DOMAIN K, p <= q
               PROVE  K[p].end <= K[q].end
    OBVIOUS
  <2>1. p \in Nat /\ q \in Nat
    BY <1>2
  <2>2. CASE p = q
    <3>1. K[p] \in Entry
      BY <1>2
    <3>2. K[p].end \in Nat
      BY <3>1 DEF Entry
    <3> QED
      BY <2>2, <3>2
  <2>3. CASE p < q
    <3>1. PICK a \in 1 .. n, b \in 1 .. n : a < b /\ K[p] = active[a] /\ K[q] = active[b]
      BY <1>3, <2>3
    <3>2. a <= b /\ a \in DOMAIN active /\ b \in DOMAIN active
      BY <1>1, <3>1
    <3> QED
      BY <1>1, <3>1, <3>2
  <2> QED
    BY <2>1, <2>2, <2>3
<1>8. \A p, q \in DOMAIN K : p < q => K[p].location # K[q].location
  <2> TAKE p, q \in DOMAIN K
  <2> HAVE p < q
  <2>1. PICK a \in 1 .. n, b \in 1 .. n : a < b /\ K[p] = active[a] /\ K[q] = active[b]
    BY <1>3
  <2>2. a # b /\ a \in DOMAIN active /\ b \in DOMAIN active
    BY <1>1, <2>1
  <2> QED
    BY <1>1, <2>1, <2>2
<1>9. \A p, q \in DOMAIN K : K[p].location = K[q].location => p = q
  <2> TAKE p, q \in DOMAIN K
  <2> HAVE K[p].location = K[q].location
  <2>1. p \in Nat /\ q \in Nat
    BY <1>2
  <2>2. ~(p < q) /\ ~(q < p)
    BY <1>8
  <2> QED
    BY <2>1, <2>2
<1>10. Truthful(Kept(i))
  BY <1>4 DEF IInv, Ledger, Truthful, K
<1> QED
  BY <1>2, <1>4, <1>7, <1>9, <1>10 DEF InOrder, K

(* What it hands back to a pool, and what that pool then accounts for. *)
LEMMA HandedBack ==
  ASSUME IInv, NEW i, NEW pool \in Pools
  PROVE  LET stack == Expiring(i)[Len(active)][pool]
             through == intervals[i].start
         IN  /\ ToSet(stack) = ToSet(Before[pool]) \cup
                   {e.location : e \in {a \in ToSet(active) : a.end <= through /\ a.pool = pool}}
             /\ Pooled(stack, Kept(i), pool, ToSet(Before[pool]) \cup HeldFrom(active, pool))
<1> DEFINE n == Len(active)
           stack == Expiring(i)[n][pool]
           through == intervals[i].start
           back == {a \in ToSet(active) : a.end <= through /\ a.pool = pool}
<1>1. /\ active \in Seq(Entry) /\ n \in Nat /\ DOMAIN active = 1 .. n
      /\ \A p, q \in DOMAIN active : active[p].location = active[q].location => p = q
  BY DEF IInv, Ledger, InOrder
<1>2. stack \in Seq(Scan!Location)
  <2>1. Expiring(i)[n] \in Lists
    BY <1>1, ExpiringIs
  <2> QED
    BY <2>1 DEF Lists
<1>3. /\ IsInjective(stack)
      /\ ToSet(stack) =
            ToSet(Before[pool]) \cup {active[q].location : q \in Leaves(n, through, pool)}
  BY PassAll DEF Passed
<1> HIDE DEF stack, n
<1>4. {active[q].location : q \in Leaves(n, through, pool)} = {e.location : e \in back}
  <2>1. \A q \in Leaves(n, through, pool) : active[q] \in back
    BY <1>1 DEF ToSet, Leaves
  <2>2. \A e \in back : \E q \in Leaves(n, through, pool) : active[q] = e
    BY <1>1 DEF ToSet, Leaves
  <2> HIDE DEF back
  <2> QED
    BY <2>1, <2>2
<1>5. ToSet(Kept(i)) = {e \in ToSet(active) : ~(e.end <= through)}
  BY KeptIs
<1>6. HeldFrom(active, pool) = HeldFrom(Kept(i), pool) \cup {e.location : e \in back}
  BY <1>5 DEF HeldFrom
<1>7. \A e \in back : e.location \notin HeldFrom(Kept(i), pool)
  <2> SUFFICES ASSUME NEW e \in back, NEW a \in ToSet(Kept(i)), a.location = e.location
               PROVE  FALSE
    BY DEF HeldFrom
  <2>1. PICK p \in DOMAIN active : active[p] = e
    BY DEF ToSet
  <2>2. PICK q \in DOMAIN active : active[q] = a
    BY <1>5 DEF ToSet
  <2>3. p = q
    BY <1>1, <2>1, <2>2
  <2> QED
    BY <1>5, <2>1, <2>2, <2>3
<1>8. ToSet(Before[pool]) \cap HeldFrom(active, pool) = {}
  BY BeforeIs
<1> HIDE DEF back
<1>9. Pooled(stack, Kept(i), pool, ToSet(Before[pool]) \cup HeldFrom(active, pool))
  <2>1. ToSet(stack) = ToSet(Before[pool]) \cup {e.location : e \in back}
    BY <1>3, <1>4
  <2>2. ToSet(stack) \cap HeldFrom(Kept(i), pool) = {}
    BY <1>6, <1>7, <1>8, <2>1
  <2>3. ToSet(stack) \cup HeldFrom(Kept(i), pool) = ToSet(Before[pool]) \cup HeldFrom(active, pool)
    BY <1>6, <2>1
  <2> QED
    BY <1>2, <1>3, <2>2, <2>3 DEF Pooled
<1> QED
  BY <1>3, <1>4, <1>9 DEF stack, back, n

(* The books are in order after expire_through. *)
LEMMA ExpiredLedger ==
  ASSUME IInv, NEW i
  PROVE  /\ Ledger(Kept(i), CallerStack(i), CalleeStack(i), SlotStack(i))
         /\ ToSet(SlotStack(i)) = ToSet(free_slots) \cup
               {e.location : e \in {a \in ToSet(active) :
                                      a.end <= intervals[i].start /\ a.pool = "None"}}
<1> DEFINE l == Expiring(i)[Len(active)]
<1>1. /\ Before["CallerSaved"] = free_caller_saved
      /\ Before["CalleeSaved"] = free_callee_saved
      /\ Before["None"] = free_slots
      /\ CallerStack(i) = l["CallerSaved"]
      /\ CalleeStack(i) = l["CalleeSaved"]
      /\ SlotStack(i) = l["None"]
  BY DEF Before, CallerStack, CalleeStack, SlotStack
<1> HIDE DEF l
<1>2. /\ ToSet(free_caller_saved) \cup HeldFrom(active, "CallerSaved") = Scan!CallerRegs
      /\ ToSet(free_callee_saved) \cup HeldFrom(active, "CalleeSaved") = Scan!CalleeRegs
      /\ ToSet(free_slots) \cup HeldFrom(active, "None") = Reserved \ Homes
  BY DEF IInv, Ledger, Pooled
<1>3. \A pool \in Pools :
         /\ ToSet(l[pool]) = ToSet(Before[pool]) \cup
               {e.location : e \in {a \in ToSet(active) :
                                      a.end <= intervals[i].start /\ a.pool = pool}}
         /\ Pooled(l[pool], Kept(i), pool, ToSet(Before[pool]) \cup HeldFrom(active, pool))
  BY HandedBack DEF l
<1>4. "CallerSaved" \in Pools /\ "CalleeSaved" \in Pools /\ "None" \in Pools
  BY DEF Pools
<1>5. /\ Pooled(CallerStack(i), Kept(i), "CallerSaved", Scan!CallerRegs)
      /\ Pooled(CalleeStack(i), Kept(i), "CalleeSaved", Scan!CalleeRegs)
      /\ Pooled(SlotStack(i), Kept(i), "None", Reserved \ Homes)
  BY <1>1, <1>2, <1>3, <1>4
<1>6. InOrder(Kept(i)) /\ Truthful(Kept(i))
  BY KeptIs
<1>7. ToSet(SlotStack(i)) = ToSet(free_slots) \cup
         {e.location : e \in {a \in ToSet(active) :
                                a.end <= intervals[i].start /\ a.pool = "None"}}
  BY <1>1, <1>3, <1>4
<1> QED
  BY <1>5, <1>6, <1>7 DEF Ledger

-----------------------------------------------------------------------------
(* The locations a pool accounts for. *)
All(pool) == CASE pool = "CallerSaved" -> Scan!CallerRegs
               [] pool = "CalleeSaved" -> Scan!CalleeRegs
               [] pool = "None" -> Reserved \ Homes

(* No location belongs to two pools. *)
LEMMA PoolsApart ==
  ASSUME next_slot \in Nat
  PROVE  \A p, q \in Pools : p # q => All(p) \cap All(q) = {}
<1>1. Scan!CallerRegs \cap Scan!CalleeRegs = {}
  BY PoolsAre
<1>2. (Scan!CallerRegs \cup Scan!CalleeRegs) \cap (Reserved \ Homes) = {}
  BY PoolsAre, ReservedAre
<1>3. /\ All("CallerSaved") = Scan!CallerRegs
      /\ All("CalleeSaved") = Scan!CalleeRegs
      /\ All("None") = Reserved \ Homes
  BY DEF All
<1> QED
  BY <1>1, <1>2, <1>3 DEF Pools

(* An entry's location is one of its own pool's. *)
LEMMA EntriesPooled ==
  ASSUME NEW K, NEW caller, NEW callee, NEW slots, Ledger(K, caller, callee, slots),
         NEW e \in ToSet(K)
  PROVE  /\ e \in Entry /\ e.pool \in Pools /\ e.location \in Scan!Location
         /\ e.location \in All(e.pool)
<1>1. e \in Entry
  BY DEF Ledger, InOrder, ToSet
<1>2. e.pool \in Pools /\ e.location \in Scan!Location
  BY <1>1 DEF Entry
<1>3. \A pool \in Pools : HeldFrom(K, pool) \subseteq All(pool)
  BY DEF Ledger, Pooled, All, Pools
<1>4. e.location \in HeldFrom(K, e.pool)
  BY DEF HeldFrom
<1> QED
  BY <1>1, <1>2, <1>3, <1>4

(* What is on a stack of one pool is with no entry of any. *)
LEMMA StackUnheld ==
  ASSUME next_slot \in Nat, NEW K, NEW caller, NEW callee, NEW slots,
         Ledger(K, caller, callee, slots),
         NEW pool \in Pools, NEW x \in All(pool), x \notin HeldFrom(K, pool)
  PROVE  \A e \in ToSet(K) : e.location # x
<1> SUFFICES ASSUME NEW e \in ToSet(K), e.location = x PROVE FALSE
  OBVIOUS
<1>1. e.pool \in Pools /\ e.location \in All(e.pool)
  BY EntriesPooled
<1>2. e.pool = pool
  BY <1>1, PoolsApart
<1> QED
  BY <1>2 DEF HeldFrom

(* A pool that neither gives nor takes. *)
LEMMA PoolKept ==
  ASSUME NEW stack, NEW K, NEW A, NEW pool, NEW all, Pooled(stack, K, pool, all),
         HeldFrom(A, pool) = HeldFrom(K, pool)
  PROVE  Pooled(stack, A, pool, all)
  BY DEF Pooled

(* A pool that gives the top of its stack to a new entry. *)
LEMMA PoolGives ==
  ASSUME NEW stack, NEW K, NEW A, NEW pool, NEW all, Pooled(stack, K, pool, all),
         stack # << >>, HeldFrom(A, pool) = HeldFrom(K, pool) \cup {Last(stack)}
  PROVE  /\ Pooled(Front(stack), A, pool, all)
         /\ Last(stack) \in all
         /\ Last(stack) \in Scan!Location
         /\ Last(stack) \notin HeldFrom(K, pool)
<1>1. /\ stack \in Seq(Scan!Location) /\ IsInjective(stack)
      /\ ToSet(stack) \cap HeldFrom(K, pool) = {}
      /\ ToSet(stack) \cup HeldFrom(K, pool) = all
  BY DEF Pooled
<1>2. /\ Last(stack) \in ToSet(stack) /\ Last(stack) \in Scan!Location
      /\ Front(stack) \in Seq(Scan!Location)
      /\ ToSet(Front(stack)) = ToSet(stack) \ {Last(stack)}
      /\ IsInjective(Front(stack))
  BY <1>1, PopFacts
<1>3. Last(stack) \in all /\ Last(stack) \notin HeldFrom(K, pool)
  BY <1>1, <1>2
<1>4. /\ ToSet(Front(stack)) \cap HeldFrom(A, pool) = {}
      /\ ToSet(Front(stack)) \cup HeldFrom(A, pool) = all
  BY <1>1, <1>2
<1> QED
  BY <1>2, <1>3, <1>4 DEF Pooled

(* partition_point finds the place that keeps the list sorted. *)
LEMMA ActivateIs ==
  ASSUME NEW i \in Nat, intervals[i].end \in Nat, NEW K, InOrder(K),
         NEW location \in Scan!Location, NEW pool \in Pools,
         \A e \in ToSet(K) : e.location # location
  PROVE  LET e == [vreg |-> i, end |-> intervals[i].end, location |-> location, pool |-> pool]
         IN  /\ InOrder(Activate(i, K, location, pool))
             /\ ToSet(Activate(i, K, location, pool)) = ToSet(K) \cup {e}
<1> DEFINE n == Len(K)
           e == [vreg |-> i, end |-> intervals[i].end, location |-> location, pool |-> pool]
           P == {p \in DOMAIN K : K[p].end <= intervals[i].end}
           at == Cardinality(P)
           t == Activate(i, K, location, pool)
<1>1. /\ K \in Seq(Entry) /\ n \in Nat /\ DOMAIN K = 1 .. n
      /\ \A p, q \in DOMAIN K : p <= q => K[p].end <= K[q].end
      /\ \A p, q \in DOMAIN K : K[p].location = K[q].location => p = q
  BY DEF InOrder
<1>2. \A p \in DOMAIN K : K[p].end \in Nat /\ K[p] \in ToSet(K)
  <2> TAKE p \in DOMAIN K
  <2>1. K[p] \in Entry
    BY <1>1
  <2> QED
    BY <2>1 DEF Entry, ToSet
<1>3. e \in Entry
  BY DEF Entry
<1> HIDE DEF n
<1>4. at \in 0 .. n /\ P = 1 .. at
  <2>1. P \in SUBSET (1 .. n)
    BY <1>1
  <2>2. ASSUME NEW p \in P, NEW q \in 1 .. n, q <= p PROVE q \in P
    <3>1. q \in DOMAIN K /\ p \in DOMAIN K
      BY <1>1
    <3>2. K[q].end <= K[p].end /\ K[p].end <= intervals[i].end
      BY <1>1, <2>2, <3>1
    <3>3. K[q].end <= intervals[i].end
      BY <1>2, <3>1, <3>2
    <3> QED
      BY <3>1, <3>3
  <2> HIDE DEF P
  <2> QED
    BY <1>1, <2>1, <2>2, InitialSegment
<1>5. t = InsertAt(K, at + 1, e)
  BY DEF Activate
<1>6. \A p \in 1 .. n : (p <= at) <=> (K[p].end <= e.end)
  BY <1>1, <1>4
<1> HIDE DEF P, at, e
<1>7. /\ t \in Seq(Entry) /\ DOMAIN t = 1 .. n + 1
      /\ \A q \in 1 .. at : t[q] = K[q]
      /\ t[at + 1] = e
      /\ \A q \in at + 1 .. n : t[q + 1] = K[q]
      /\ ToSet(t) = ToSet(K) \cup {e}
  <2>1. K \in Seq(Entry) /\ at \in 0 .. Len(K) /\ e \in Entry /\ n = Len(K)
    BY <1>1, <1>3, <1>4 DEF n
  <2> HIDE DEF t
  <2>2. /\ InsertAt(K, at + 1, e) \in Seq(Entry)
        /\ IsInserted(InsertAt(K, at + 1, e), K, at, e)
        /\ ToSet(InsertAt(K, at + 1, e)) = ToSet(K) \cup {e}
    BY <2>1, InsertAtFacts
  <2>3. t \in Seq(Entry) /\ IsInserted(t, K, at, e) /\ ToSet(t) = ToSet(K) \cup {e}
    BY <1>5, <2>2
  <2> QED
    BY <2>1, <2>3 DEF IsInserted
<1>8. e.end \in Nat /\ e.end = intervals[i].end /\ e.location = location
  BY DEF e
<1>a. \A p \in 1 .. n + 1 : p \in 1 .. at \/ p = at + 1 \/ (p - 1 \in at + 1 .. n /\ t[p] = K[p - 1])
  <2> TAKE p \in 1 .. n + 1
  <2>1. p \in 1 .. at \/ p = at + 1 \/ (p - 1 \in at + 1 .. n /\ p - 1 + 1 = p)
    BY <1>1, <1>4
  <2> QED
    BY <1>7, <2>1
<1> HIDE DEF t
<1>9. ASSUME NEW p \in 1 .. n + 1, NEW q \in 1 .. n + 1, p < q
      PROVE  t[p].end <= t[q].end /\ t[p].location # t[q].location
  <2>1. CASE p \in 1 .. at /\ q \in 1 .. at
    <3>1. p \in DOMAIN K /\ q \in DOMAIN K /\ p <= q /\ p # q
      BY <1>1, <1>4, <1>9, <2>1
    <3> QED
      BY <1>1, <1>7, <2>1, <3>1
  <2>2. CASE p \in 1 .. at /\ q = at + 1
    <3>1. p \in DOMAIN K /\ p <= at /\ p \in 1 .. n
      BY <1>1, <1>4, <2>2
    <3>2. t[p] = K[p] /\ t[q] = e
      BY <1>7, <2>2
    <3> QED
      BY <1>2, <1>6, <1>8, <3>1, <3>2
  <2>3. CASE p \in 1 .. at /\ q - 1 \in at + 1 .. n /\ t[q] = K[q - 1]
    <3>1. p \in DOMAIN K /\ q - 1 \in DOMAIN K /\ p <= q - 1 /\ p # q - 1
      BY <1>1, <1>4, <2>3
    <3> QED
      BY <1>1, <1>7, <2>3, <3>1
  <2>4. CASE p = at + 1 /\ q - 1 \in at + 1 .. n /\ t[q] = K[q - 1]
    <3>1. q - 1 \in DOMAIN K /\ ~(q - 1 <= at) /\ q - 1 \in 1 .. n
      BY <1>1, <1>4, <2>4
    <3>2. t[p] = e
      BY <1>7, <2>4
    <3>3. K[q - 1].end \in Nat /\ K[q - 1] \in ToSet(K) /\ ~(K[q - 1].end <= e.end)
      BY <1>2, <1>6, <3>1
    <3> QED
      BY <1>8, <2>4, <3>2, <3>3
  <2>5. CASE /\ p - 1 \in at + 1 .. n /\ t[p] = K[p - 1]
             /\ q - 1 \in at + 1 .. n /\ t[q] = K[q - 1]
    <3>1. p - 1 \in DOMAIN K /\ q - 1 \in DOMAIN K /\ p - 1 <= q - 1 /\ p - 1 # q - 1
      BY <1>1, <1>4, <1>9, <2>5
    <3> QED
      BY <1>1, <2>5, <3>1
  <2> QED
    BY <1>4, <1>9, <1>a, <2>1, <2>2, <2>3, <2>4, <2>5
<1>10. \A p \in 1 .. n + 1 : t[p].end \in Nat
  <2> TAKE p \in 1 .. n + 1
  <2>1. p \in DOMAIN t /\ t \in Seq(Entry)
    BY <1>7
  <2>2. t[p] \in Entry
    BY <2>1
  <2> QED
    BY <2>2 DEF Entry
<1>11. \A p, q \in DOMAIN t : p <= q => t[p].end <= t[q].end
  <2> TAKE p, q \in DOMAIN t
  <2>1. p \in 1 .. n + 1 /\ q \in 1 .. n + 1 /\ (p <= q => p < q \/ p = q)
    BY <1>7
  <2> QED
    BY <1>9, <1>10, <2>1
<1>12. \A p, q \in DOMAIN t : t[p].location = t[q].location => p = q
  <2> TAKE p, q \in DOMAIN t
  <2>1. p \in 1 .. n + 1 /\ q \in 1 .. n + 1 /\ (p < q \/ q < p \/ p = q)
    BY <1>7
  <2> QED
    BY <1>9, <2>1
<1> QED
  BY <1>7, <1>11, <1>12 DEF InOrder, t, e

(* A list without one of its entries is in order as it was. *)
LEMMA RemovedInOrder ==
  ASSUME NEW K, InOrder(K), NEW p \in DOMAIN K
  PROVE  /\ InOrder(RemoveAt(K, p))
         /\ ToSet(RemoveAt(K, p)) = ToSet(K) \ {K[p]}
         /\ \A e \in ToSet(K) \ {K[p]} : e.location # K[p].location
<1> DEFINE n == Len(K)
           t == RemoveAt(K, p)
           old(q) == IF q < p THEN q ELSE q + 1
<1>1. /\ K \in Seq(Entry) /\ n \in Nat /\ DOMAIN K = 1 .. n /\ p \in 1 .. n
      /\ \A a, b \in DOMAIN K : a <= b => K[a].end <= K[b].end
      /\ \A a, b \in DOMAIN K : K[a].location = K[b].location => a = b
  BY DEF InOrder
<1>2. /\ t \in Seq(Entry) /\ IsRemoved(t, K, p)
      /\ ToSet(t) = {K[q] : q \in (1 .. n) \ {p}}
  BY <1>1, RemoveAtFacts
<1> HIDE DEF t, n
<1>3. ASSUME NEW q \in DOMAIN t PROVE q \in Int /\ old(q) \in DOMAIN K /\ t[q] = K[old(q)]
  <2>1. q \in 1 .. n - 1
    BY <1>2 DEF IsRemoved, n
  <2>2. CASE q \in 1 .. p - 1
    BY <1>1, <1>2, <2>1, <2>2 DEF IsRemoved
  <2>3. CASE q \in p .. n - 1
    BY <1>1, <1>2, <2>1, <2>3 DEF IsRemoved, n
  <2> QED
    BY <1>1, <2>1, <2>2, <2>3
<1>4. ASSUME NEW q \in DOMAIN t, NEW r \in DOMAIN t
      PROVE  (q <= r => old(q) <= old(r)) /\ (old(q) = old(r) => q = r)
  BY <1>1, <1>3
<1>5. InOrder(t)
  <2> HIDE DEF old
  <2>1. \A q, r \in DOMAIN t : q <= r => t[q].end <= t[r].end
    BY <1>1, <1>3, <1>4
  <2>2. \A q, r \in DOMAIN t : t[q].location = t[r].location => q = r
    BY <1>1, <1>3, <1>4
  <2> QED
    BY <1>2, <2>1, <2>2 DEF InOrder
<1>6. ToSet(K) = {K[q] : q \in 1 .. n}
  BY <1>1 DEF ToSet
<1>7. \A q \in (1 .. n) \ {p} : K[q].location # K[p].location
  BY <1>1
<1>8. ToSet(t) = ToSet(K) \ {K[p]}
  BY <1>1, <1>2, <1>6, <1>7
<1>9. \A e \in ToSet(K) \ {K[p]} : e.location # K[p].location
  BY <1>1, <1>6, <1>7
<1> QED
  BY <1>5, <1>8, <1>9 DEF t

(* An interval of the list. *)
LEMMA NextInterval ==
  ASSUME PlacedSoFar, next <= Len(intervals)
  PROVE  /\ next \in 1 .. Len(intervals) /\ next \in Nat /\ Len(intervals) \in Nat
         /\ \A v \in 1 .. Len(intervals) :
               /\ intervals[v].start \in Nat /\ intervals[v].end \in Nat
               /\ intervals[v].crosses_call \in BOOLEAN
               /\ intervals[v].start <= intervals[v].end
<1>1. /\ intervals \in Seq(Scan!Interval) /\ next \in 1 .. Len(intervals) + 1
      /\ \A v \in 1 .. Len(intervals) : intervals[v].start <= intervals[v].end
  BY DEF PlacedSoFar, Scan!Sorted
<1>2. Len(intervals) \in Nat /\ \A v \in 1 .. Len(intervals) : intervals[v] \in Scan!Interval
  BY <1>1
<1> QED
  BY <1>1, <1>2 DEF Scan!Interval

(* The tail of the loop body leaves a list that is in order and tells the    *)
(* truth, if the entries and the places it is given do.                     *)
LEMMA SettleIs ==
  ASSUME PlacedSoFar, next <= Len(intervals),
         NEW placed \in Seq(Scan!Location), Len(placed) = next - 1,
         NEW K, InOrder(K),
         \A e \in ToSet(K) : /\ e.vreg \in 1 .. next - 1
                              /\ e.end = intervals[e.vreg].end
                              /\ placed[e.vreg] = e.location,
         NEW location \in Scan!Location, NEW pool \in Pools,
         \A e \in ToSet(K) : e.location # location,
         Settle(next, placed, K, location, pool), next' = next + 1, intervals' = intervals
  PROVE  /\ InOrder(active')
         /\ Truthful(active)'
         /\ ToSet(active') = ToSet(K) \cup {[vreg |-> next, end |-> intervals[next].end,
                                             location |-> location, pool |-> pool]}
         /\ HeldFrom(active', pool) = HeldFrom(K, pool) \cup {location}
         /\ \A other \in Pools \ {pool} : HeldFrom(active', other) = HeldFrom(K, other)
         /\ locations' \in Seq(Scan!Location) /\ Len(locations') = next
         /\ \A v \in 1 .. next - 1 : locations'[v] = placed[v]
         /\ locations'[next] = location
         /\ ToSet(locations') = ToSet(placed) \cup {location}
<1> DEFINE e == [vreg |-> next, end |-> intervals[next].end,
                 location |-> location, pool |-> pool]
<1>1. next \in 1 .. Len(intervals) /\ next \in Nat /\ intervals[next].end \in Nat
  BY NextInterval
<1>2. /\ active' = Activate(next, K, location, pool)
      /\ locations' = Append(placed, location)
  BY DEF Settle
<1>3. InOrder(active') /\ ToSet(active') = ToSet(K) \cup {e}
  BY <1>1, <1>2, ActivateIs
<1>4. /\ locations' \in Seq(Scan!Location) /\ Len(locations') = next
      /\ \A v \in 1 .. next - 1 : locations'[v] = placed[v]
      /\ locations'[next] = location
  BY <1>1, <1>2
<1>5. ToSet(locations') = ToSet(placed) \cup {location}
  BY <1>2, AppendFacts
<1>6. e.vreg = next /\ e.end = intervals[next].end /\ e.location = location /\ e.pool = pool
  OBVIOUS
<1> HIDE DEF e
<1>7. Truthful(active)'
  <2> SUFFICES ASSUME NEW a \in ToSet(active')
               PROVE  /\ a.vreg \in 1 .. next' - 1
                      /\ a.end = intervals'[a.vreg].end
                      /\ locations'[a.vreg] = a.location
    BY DEF Truthful
  <2>1. CASE a = e
    BY <1>1, <1>4, <1>6, <2>1
  <2>2. CASE a \in ToSet(K)
    BY <1>1, <1>4, <2>2
  <2> QED
    BY <1>3, <2>1, <2>2
<1>8. HeldFrom(active', pool) = HeldFrom(K, pool) \cup {location}
  BY <1>3, <1>6 DEF HeldFrom
<1>9. \A other \in Pools \ {pool} : HeldFrom(active', other) = HeldFrom(K, other)
  BY <1>3, <1>6 DEF HeldFrom
<1> QED
  BY <1>3, <1>4, <1>5, <1>7, <1>8, <1>9 DEF e

(* alloc_slot answers with a slot that is nobody's and takes it off the stack. *)
LEMMA SlotPopped ==
  ASSUME PlacedSoFar, next <= Len(intervals), NEW i, NEW caller, NEW callee,
         Ledger(Kept(i), caller, callee, SlotStack(i)), PopSlot(i)
  PROVE  LET slot == AllocSlot(i)
         IN  /\ next_slot' \in 0 .. next
             /\ Reserved \subseteq Reserved' /\ slot \in Reserved'
             /\ slot \in Scan!Location /\ slot \in Scan!Slots
             /\ slot \notin Homes /\ slot \notin HeldFrom(Kept(i), "None")
             /\ free_slots' \in Seq(Scan!Location) /\ IsInjective(free_slots')
             /\ slot \notin ToSet(free_slots')
             /\ ToSet(free_slots') \cap HeldFrom(Kept(i), "None") = {}
             /\ ToSet(free_slots') \cup HeldFrom(Kept(i), "None") = (Reserved' \ Homes) \ {slot}
<1> DEFINE slot == AllocSlot(i)
           stack == SlotStack(i)
           held == HeldFrom(Kept(i), "None")
<1>1. /\ next_slot \in 0 .. next - 1 /\ next_slot \in Nat /\ next \in Nat
      /\ Homes \subseteq Reserved
  BY DEF PlacedSoFar
<1>2. /\ stack \in Seq(Scan!Location) /\ IsInjective(stack)
      /\ ToSet(stack) \cap held = {}
      /\ ToSet(stack) \cup held = Reserved \ Homes
  BY DEF Ledger, Pooled
<1>3. /\ Reserved \subseteq Scan!Slots /\ Reserved \subseteq Scan!Location
      /\ Scan!Spill(next_slot) \in Scan!Slots /\ Scan!Spill(next_slot) \in Scan!Location
      /\ Scan!Spill(next_slot) \notin Reserved
  BY <1>1, ReservedAre
<1>4. CASE stack = << >>
  <2>1. slot = Scan!Spill(next_slot) /\ free_slots' = << >> /\ next_slot' = next_slot + 1
    BY <1>4 DEF PopSlot, AllocSlot
  <2>2. Reserved' = Reserved \cup {slot}
    <3>1. 0 .. (next_slot + 1) - 1 = (0 .. next_slot - 1) \cup {next_slot}
      BY <1>1
    <3>2. Reserved' = {Scan!Spill(n) : n \in 0 .. next_slot' - 1}
      BY DEF Reserved, Scan!Spill
    <3>3. Reserved' = {Scan!Spill(n) : n \in (0 .. next_slot - 1) \cup {next_slot}}
      BY <2>1, <3>1, <3>2
    <3> QED
      BY <2>1, <3>3 DEF Reserved
  <2>3. ToSet(free_slots') = {} /\ IsInjective(free_slots') /\ free_slots' \in Seq(Scan!Location)
    BY <2>1 DEF ToSet, IsInjective
  <2>4. ToSet(stack) = {}
    BY <1>4 DEF ToSet
  <2> HIDE DEF slot, stack, held
  <2>5. slot \notin Reserved /\ held = Reserved \ Homes
    BY <1>2, <1>3, <2>1, <2>4
  <2>6. ToSet(free_slots') \cup held = (Reserved' \ Homes) \ {slot}
    BY <2>2, <2>3, <2>5
  <2> QED
    BY <1>1, <1>3, <2>1, <2>2, <2>3, <2>5, <2>6 DEF slot, held
<1>5. CASE stack # << >>
  <2>1. slot = Last(stack) /\ free_slots' = Front(stack) /\ next_slot' = next_slot
    BY <1>5 DEF PopSlot, AllocSlot
  <2>2. Reserved' = Reserved
    BY <2>1 DEF Reserved, Scan!Spill
  <2> HIDE DEF slot, stack, held
  <2>3. /\ slot \in ToSet(stack) /\ free_slots' \in Seq(Scan!Location)
        /\ ToSet(free_slots') = ToSet(stack) \ {slot} /\ IsInjective(free_slots')
    BY <1>2, <1>5, <2>1, PopFacts
  <2>4. slot \in Reserved \ Homes /\ slot \notin held
    BY <1>2, <2>3
  <2>5. /\ ToSet(free_slots') \cap held = {}
        /\ ToSet(free_slots') \cup held = (Reserved' \ Homes) \ {slot}
    BY <1>2, <2>2, <2>3, <2>4
  <2> QED
    BY <1>1, <1>3, <2>1, <2>2, <2>3, <2>4, <2>5 DEF slot, held
<1> QED
  BY <1>4, <1>5

-----------------------------------------------------------------------------
(* The loop starts with its books in order, whatever list it is handed. *)
LEMMA InitScanIInv ==
  ASSUME Scan!Sorted(intervals), InitScan
  PROVE  IInv
<1>1. /\ CallerSavedList \in Seq(ToSet(CallerSavedList)) /\ IsInjective(CallerSavedList)
      /\ CalleeSavedList \in Seq(ToSet(CalleeSavedList)) /\ IsInjective(CalleeSavedList)
  BY RegisterFile
<1>2. /\ RegsOf(CallerSavedList) \in Seq(Scan!CallerRegs)
      /\ ToSet(RegsOf(CallerSavedList)) = Scan!CallerRegs
      /\ IsInjective(RegsOf(CallerSavedList))
      /\ RegsOf(CalleeSavedList) \in Seq(Scan!CalleeRegs)
      /\ ToSet(RegsOf(CalleeSavedList)) = Scan!CalleeRegs
      /\ IsInjective(RegsOf(CalleeSavedList))
  BY <1>1, RegsOfFacts DEF Scan!CallerRegs, Scan!CalleeRegs
<1>3. /\ free_caller_saved \in Seq(Scan!CallerRegs)
      /\ ToSet(free_caller_saved) = Scan!CallerRegs
      /\ IsInjective(free_caller_saved)
      /\ free_callee_saved \in Seq(Scan!CalleeRegs)
      /\ ToSet(free_callee_saved) = Scan!CalleeRegs
      /\ IsInjective(free_callee_saved)
  BY <1>2, ReverseFacts DEF InitScan
<1>4. Scan!CallerRegs \subseteq Scan!Location /\ Scan!CalleeRegs \subseteq Scan!Location
  BY DEF Scan!Location, Scan!Registers
<1>5. /\ ToSet(active) = {} /\ ToSet(locations) = {} /\ ToSet(free_slots) = {}
      /\ ToSet(used_callee_saved) = {} /\ Homes = {}
      /\ active = << >> /\ locations = << >> /\ free_slots = << >> /\ used_callee_saved = << >>
      /\ next = 1 /\ next_slot = 0 /\ evicted = {}
  BY DEF InitScan, ToSet, Homes
<1>6. \A pool : HeldFrom(active, pool) = {}
  BY <1>5 DEF HeldFrom
<1>7. Reserved = {}
  BY <1>5 DEF Reserved
<1>8. Len(intervals) \in Nat
  BY DEF Scan!Sorted
<1>9. PlacedSoFar
  BY <1>5, <1>7, <1>8 DEF PlacedSoFar
<1>10. InOrder(active) /\ Truthful(active)
  BY <1>5 DEF InOrder, Truthful
<1>11. /\ Pooled(free_caller_saved, active, "CallerSaved", Scan!CallerRegs)
       /\ Pooled(free_callee_saved, active, "CalleeSaved", Scan!CalleeRegs)
  BY <1>3, <1>4, <1>6 DEF Pooled
<1>12. Pooled(free_slots, active, "None", Reserved \ Homes)
  BY <1>5, <1>6, <1>7 DEF Pooled, IsInjective
<1>13. Saved
  BY <1>5 DEF Saved, IsInjective
<1> QED
  BY <1>9, <1>10, <1>11, <1>12, <1>13 DEF IInv, Ledger

(* Every list the allocator may be handed is sorted. *)
LEMMA InitIInv == Init => IInv
<1> SUFFICES ASSUME Init PROVE IInv
  OBVIOUS
<1>1. Scan!Sorted(intervals) /\ InitScan
  BY ListsSorted DEF Init
<1> QED
  BY <1>1, InitScanIInv

(* A turn that evicts nothing moves nothing. *)
LEMMA NothingMoved ==
  ASSUME PlacedSoFar, next <= Len(intervals), intervals' = intervals, next' = next + 1,
         next_slot' \in 0 .. next, Reserved \subseteq Reserved',
         locations' \in Seq(Scan!Location), Len(locations') = next,
         \A v \in 1 .. next - 1 : locations'[v] = locations[v],
         locations'[next] \in Scan!Registers \cup Reserved',
         evicted' = evicted
  PROVE  PlacedSoFar' /\ Homes' = Homes
<1>1. /\ next \in 1 .. Len(intervals) /\ next \in Nat /\ Len(intervals) \in Nat
  BY NextInterval
<1>2. /\ Scan!Sorted(intervals) /\ locations \in Seq(Scan!Location) /\ Len(locations) = next - 1
      /\ ToSet(locations) \subseteq Scan!Registers \cup Reserved
      /\ evicted \subseteq 1 .. next - 1 /\ Homes \subseteq Reserved
      /\ \A v, w \in evicted : locations[v] = locations[w] => v = w
  BY DEF PlacedSoFar
<1>3. Homes' = Homes
  BY <1>2 DEF Homes
<1>4. Scan!Sorted(intervals)'
  BY <1>2 DEF Scan!Sorted
<1>5. ToSet(locations') \subseteq Scan!Registers \cup Reserved'
  <2>1. DOMAIN locations' = 1 .. next /\ DOMAIN locations = 1 .. next - 1
    BY <1>1, <1>2
  <2>2. \A v \in 1 .. next - 1 : locations[v] \in Scan!Registers \cup Reserved'
    BY <1>2, <2>1 DEF ToSet
  <2>3. \A v \in 1 .. next : locations'[v] \in Scan!Registers \cup Reserved'
    BY <1>1, <2>2
  <2> QED
    BY <2>1, <2>3 DEF ToSet
<1>6. Scan!Registers' = Scan!Registers
  BY DEF Scan!Registers, Scan!CallerRegs, Scan!CalleeRegs
<1>7. \A v, w \in evicted' : locations'[v] = locations'[w] => v = w
  BY <1>2
<1>8. /\ next' \in 1 .. Len(intervals') + 1 /\ next_slot' \in 0 .. next' - 1
      /\ Len(locations') = next' - 1 /\ evicted' \subseteq 1 .. next' - 1
  BY <1>1, <1>2
<1>9. Homes' \subseteq Reserved'
  BY <1>2, <1>3
<1>10. locations' \in Seq(Scan!Location')
  BY DEF Scan!Location, Scan!Slots, Scan!Registers, Scan!CallerRegs, Scan!CalleeRegs
<1> QED
  BY <1>3, <1>4, <1>5, <1>6, <1>7, <1>8, <1>9, <1>10 DEF PlacedSoFar

(* The registers and the places do not change. *)
LEMMA SameRegisters ==
  /\ Scan!CallerRegs' = Scan!CallerRegs /\ Scan!CalleeRegs' = Scan!CalleeRegs
  /\ Scan!Location' = Scan!Location
  BY DEF Scan!Location, Scan!Slots, Scan!Registers, Scan!CallerRegs, Scan!CalleeRegs

(* The books after a turn are in order when its parts are. *)
LEMMA LedgerNext ==
  ASSUME InOrder(active'), Truthful(active)',
         Pooled(free_caller_saved', active', "CallerSaved", Scan!CallerRegs),
         Pooled(free_callee_saved', active', "CalleeSaved", Scan!CalleeRegs),
         Pooled(free_slots', active', "None", Reserved' \ Homes')
  PROVE  Ledger(active, free_caller_saved, free_callee_saved, free_slots)'
<1>1. InOrder(active)'
  BY SameRegisters DEF InOrder, Entry, Pools
<1>2. /\ Pooled(free_caller_saved, active, "CallerSaved", Scan!CallerRegs)'
      /\ Pooled(free_callee_saved, active, "CalleeSaved", Scan!CalleeRegs)'
      /\ Pooled(free_slots, active, "None", Reserved \ Homes)'
  BY SameRegisters DEF Pooled, HeldFrom
<1> QED
  BY <1>1, <1>2 DEF Ledger

(* What a turn that places a value in x, one of a pool's own that no entry   *)
(* has, leaves of the entries and of where the values are.                  *)
LEMMA PlacedIn ==
  ASSUME IInv, next <= Len(intervals), NEW pool \in Pools, NEW x \in Scan!Location,
         \A e \in ToSet(Kept(next)) : e.location # x,
         x \in Scan!Registers \cup Reserved',
         Settle(next, locations, Kept(next), x, pool),
         next' = next + 1, intervals' = intervals, evicted' = evicted,
         next_slot' \in 0 .. next, Reserved \subseteq Reserved'
  PROVE  /\ PlacedSoFar' /\ Homes' = Homes
         /\ InOrder(active') /\ Truthful(active)'
         /\ HeldFrom(active', pool) = HeldFrom(Kept(next), pool) \cup {x}
         /\ \A other \in Pools \ {pool} : HeldFrom(active', other) = HeldFrom(Kept(next), other)
         /\ ToSet(locations') = ToSet(locations) \cup {x}
<1>1. PlacedSoFar /\ locations \in Seq(Scan!Location) /\ Len(locations) = next - 1
  BY DEF IInv, PlacedSoFar
<1>2. /\ InOrder(Kept(next)) /\ Truthful(Kept(next))
  BY KeptIs
<1>3. \A e \in ToSet(Kept(next)) : /\ e.vreg \in 1 .. next - 1
                                   /\ e.end = intervals[e.vreg].end
                                   /\ locations[e.vreg] = e.location
  BY <1>2 DEF Truthful
<1>4. /\ InOrder(active') /\ Truthful(active)'
      /\ HeldFrom(active', pool) = HeldFrom(Kept(next), pool) \cup {x}
      /\ \A other \in Pools \ {pool} : HeldFrom(active', other) = HeldFrom(Kept(next), other)
      /\ locations' \in Seq(Scan!Location) /\ Len(locations') = next
      /\ \A v \in 1 .. next - 1 : locations'[v] = locations[v]
      /\ locations'[next] = x
      /\ ToSet(locations') = ToSet(locations) \cup {x}
  BY <1>1, <1>2, <1>3, SettleIs
<1>5. PlacedSoFar' /\ Homes' = Homes
  BY <1>1, <1>4, NothingMoved
<1> QED
  BY <1>4, <1>5

(* The registers saved, after a value was placed in x. *)
LEMMA SavedAfter ==
  ASSUME Saved, NEW pool \in Pools, NEW x \in Scan!Location,
         pool = "CalleeSaved" <=> x \in Scan!CalleeRegs,
         used_callee_saved' =
            IF pool = "CalleeSaved" /\ x \notin ToSet(used_callee_saved)
            THEN Append(used_callee_saved, x) ELSE used_callee_saved,
         ToSet(locations') \cap Scan!CalleeRegs =
            (ToSet(locations) \cup {x}) \cap Scan!CalleeRegs
  PROVE  Saved'
<1>1. /\ used_callee_saved \in Seq(Scan!Location) /\ IsInjective(used_callee_saved)
      /\ ToSet(used_callee_saved) = ToSet(locations) \cap Scan!CalleeRegs
  BY DEF Saved
<1>2. CASE pool = "CalleeSaved" /\ x \notin ToSet(used_callee_saved)
  <2>1. /\ used_callee_saved' \in Seq(Scan!Location) /\ IsInjective(used_callee_saved')
        /\ ToSet(used_callee_saved') = ToSet(used_callee_saved) \cup {x}
    BY <1>1, <1>2, AppendFacts
  <2>2. ToSet(used_callee_saved') = ToSet(locations') \cap Scan!CalleeRegs
    BY <1>1, <1>2, <2>1
  <2> QED
    BY <2>1, <2>2, SameRegisters DEF Saved
<1>3. CASE ~(pool = "CalleeSaved" /\ x \notin ToSet(used_callee_saved))
  <2>1. ToSet(used_callee_saved) = ToSet(locations') \cap Scan!CalleeRegs
    BY <1>1, <1>3
  <2>2. used_callee_saved' = used_callee_saved
    BY <1>3
  <2> QED
    BY <1>1, <2>1, <2>2, SameRegisters DEF Saved
<1> QED
  BY <1>2, <1>3

(* What every turn starts from. *)
LEMMA TurnStart ==
  ASSUME IInv, next <= Len(intervals)
  PROVE  /\ PlacedSoFar /\ Saved /\ next_slot \in Nat /\ next_slot \in 0 .. next
         /\ next \in Nat /\ next_slot \in 0 .. next - 1
         /\ Ledger(Kept(next), CallerStack(next), CalleeStack(next), SlotStack(next))
         /\ Pooled(CallerStack(next), Kept(next), "CallerSaved", Scan!CallerRegs)
         /\ Pooled(CalleeStack(next), Kept(next), "CalleeSaved", Scan!CalleeRegs)
         /\ Pooled(SlotStack(next), Kept(next), "None", Reserved \ Homes)
<1>1. PlacedSoFar /\ Saved
  BY DEF IInv
<1>2. next \in Nat /\ next_slot \in 0 .. next - 1
  BY <1>1 DEF PlacedSoFar
<1>3. Ledger(Kept(next), CallerStack(next), CalleeStack(next), SlotStack(next))
  BY ExpiredLedger
<1> QED
  BY <1>1, <1>2, <1>3 DEF Ledger

(* A free caller-saved register is taken. *)
LEMMA TakeCallerSavedStep ==
  ASSUME IInv, next <= Len(intervals), TakeCallerSaved(next),
         next' = next + 1, intervals' = intervals
  PROVE  IInv'
<1> DEFINE stack == CallerStack(next)
           r == Last(CallerStack(next))
           K == Kept(next)
<1>1. /\ stack # << >>
      /\ free_caller_saved' = Front(stack)
      /\ free_callee_saved' = CalleeStack(next)
      /\ free_slots' = SlotStack(next)
      /\ Settle(next, locations, K, r, "CallerSaved")
      /\ next_slot' = next_slot /\ evicted' = evicted
  BY DEF TakeCallerSaved
<1>2. /\ PlacedSoFar /\ Saved /\ next_slot \in Nat /\ next_slot \in 0 .. next
      /\ Ledger(K, stack, CalleeStack(next), SlotStack(next))
      /\ Pooled(stack, K, "CallerSaved", Scan!CallerRegs)
      /\ Pooled(CalleeStack(next), K, "CalleeSaved", Scan!CalleeRegs)
      /\ Pooled(SlotStack(next), K, "None", Reserved \ Homes)
  BY TurnStart
<1>3. "CallerSaved" \in Pools /\ "CalleeSaved" \in Pools \ {"CallerSaved"}
      /\ "None" \in Pools \ {"CallerSaved"} /\ All("CallerSaved") = Scan!CallerRegs
  BY DEF Pools, All
<1>4. /\ r \in Scan!CallerRegs /\ r \in Scan!Location /\ r \notin HeldFrom(K, "CallerSaved")
  <2> HIDE DEF stack, K
  <2>1. stack \in Seq(Scan!Location) /\ IsInjective(stack)
    BY <1>2 DEF Pooled
  <2>2. Last(stack) \in ToSet(stack) /\ Last(stack) \in Scan!Location
    BY <1>1, <2>1, PopFacts
  <2> QED
    BY <1>2, <2>2 DEF Pooled, stack
<1>5. Reserved' = Reserved
  BY <1>1 DEF Reserved, Scan!Spill
<1> HIDE DEF stack, K, r
<1>6. \A e \in ToSet(K) : e.location # r
  BY <1>2, <1>3, <1>4, StackUnheld
<1>7. r \in Scan!Registers /\ r \notin Scan!CalleeRegs
  BY <1>4, PoolsAre
<1>8. /\ PlacedSoFar' /\ Homes' = Homes
      /\ InOrder(active') /\ Truthful(active)'
      /\ HeldFrom(active', "CallerSaved") = HeldFrom(K, "CallerSaved") \cup {r}
      /\ \A other \in Pools \ {"CallerSaved"} : HeldFrom(active', other) = HeldFrom(K, other)
      /\ ToSet(locations') = ToSet(locations) \cup {r}
  BY <1>1, <1>2, <1>3, <1>4, <1>5, <1>6, <1>7, PlacedIn DEF K
<1>9. Pooled(free_caller_saved', active', "CallerSaved", Scan!CallerRegs)
  BY <1>1, <1>2, <1>8, PoolGives DEF r, stack
<1>10. /\ Pooled(free_callee_saved', active', "CalleeSaved", Scan!CalleeRegs)
       /\ Pooled(free_slots', active', "None", Reserved' \ Homes')
  BY <1>1, <1>2, <1>3, <1>5, <1>8, PoolKept
<1>11. Saved'
  BY <1>1, <1>2, <1>3, <1>4, <1>7, <1>8, SavedAfter DEF Settle
<1> QED
  BY <1>8, <1>9, <1>10, <1>11, LedgerNext DEF IInv
(* A free callee-saved register is taken. *)
LEMMA TakeCalleeSavedStep ==
  ASSUME IInv, next <= Len(intervals), TakeCalleeSaved(next),
         next' = next + 1, intervals' = intervals
  PROVE  IInv'
<1> DEFINE stack == CalleeStack(next)
           r == Last(CalleeStack(next))
           K == Kept(next)
<1>1. /\ stack # << >>
      /\ free_caller_saved' = CallerStack(next)
      /\ free_callee_saved' = Front(stack)
      /\ free_slots' = SlotStack(next)
      /\ Settle(next, locations, K, r, "CalleeSaved")
      /\ next_slot' = next_slot /\ evicted' = evicted
  BY DEF TakeCalleeSaved
<1>2. /\ PlacedSoFar /\ Saved /\ next_slot \in Nat /\ next_slot \in 0 .. next
      /\ Ledger(K, CallerStack(next), stack, SlotStack(next))
      /\ Pooled(CallerStack(next), K, "CallerSaved", Scan!CallerRegs)
      /\ Pooled(stack, K, "CalleeSaved", Scan!CalleeRegs)
      /\ Pooled(SlotStack(next), K, "None", Reserved \ Homes)
  BY TurnStart
<1>3. "CalleeSaved" \in Pools /\ "CallerSaved" \in Pools \ {"CalleeSaved"}
      /\ "None" \in Pools \ {"CalleeSaved"} /\ All("CalleeSaved") = Scan!CalleeRegs
  BY DEF Pools, All
<1>4. /\ r \in Scan!CalleeRegs /\ r \in Scan!Location /\ r \notin HeldFrom(K, "CalleeSaved")
  <2> HIDE DEF stack, K
  <2>1. stack \in Seq(Scan!Location) /\ IsInjective(stack)
    BY <1>2 DEF Pooled
  <2>2. Last(stack) \in ToSet(stack) /\ Last(stack) \in Scan!Location
    BY <1>1, <2>1, PopFacts
  <2> QED
    BY <1>2, <2>2 DEF Pooled, stack
<1>5. Reserved' = Reserved
  BY <1>1 DEF Reserved, Scan!Spill
<1> HIDE DEF stack, K, r
<1>6. \A e \in ToSet(K) : e.location # r
  BY <1>2, <1>3, <1>4, StackUnheld
<1>7. r \in Scan!Registers
  BY <1>4, PoolsAre
<1>8. /\ PlacedSoFar' /\ Homes' = Homes
      /\ InOrder(active') /\ Truthful(active)'
      /\ HeldFrom(active', "CalleeSaved") = HeldFrom(K, "CalleeSaved") \cup {r}
      /\ \A other \in Pools \ {"CalleeSaved"} : HeldFrom(active', other) = HeldFrom(K, other)
      /\ ToSet(locations') = ToSet(locations) \cup {r}
  BY <1>1, <1>2, <1>3, <1>4, <1>5, <1>6, <1>7, PlacedIn DEF K
<1>9. Pooled(free_callee_saved', active', "CalleeSaved", Scan!CalleeRegs)
  BY <1>1, <1>2, <1>8, PoolGives DEF r, stack
<1>10. /\ Pooled(free_caller_saved', active', "CallerSaved", Scan!CallerRegs)
       /\ Pooled(free_slots', active', "None", Reserved' \ Homes')
  BY <1>1, <1>2, <1>3, <1>5, <1>8, PoolKept
<1>11. Saved'
  BY <1>1, <1>2, <1>3, <1>4, <1>7, <1>8, SavedAfter DEF Settle
<1> QED
  BY <1>8, <1>9, <1>10, <1>11, LedgerNext DEF IInv

(* Nothing is free and nothing is worth evicting: the value is spilled. *)
LEMMA SpillSelfStep ==
  ASSUME IInv, next <= Len(intervals), SpillSelf(next),
         next' = next + 1, intervals' = intervals
  PROVE  IInv'
<1> DEFINE slot == AllocSlot(next)
           K == Kept(next)
<1>1. /\ PopSlot(next)
      /\ free_caller_saved' = CallerStack(next)
      /\ free_callee_saved' = CalleeStack(next)
      /\ Settle(next, locations, K, slot, "None")
      /\ evicted' = evicted
  BY DEF SpillSelf
<1>2. /\ PlacedSoFar /\ Saved /\ next_slot \in Nat
      /\ Ledger(K, CallerStack(next), CalleeStack(next), SlotStack(next))
      /\ Pooled(CallerStack(next), K, "CallerSaved", Scan!CallerRegs)
      /\ Pooled(CalleeStack(next), K, "CalleeSaved", Scan!CalleeRegs)
  BY TurnStart
<1>3. "None" \in Pools /\ "CalleeSaved" \in Pools \ {"None"} /\ "CallerSaved" \in Pools \ {"None"}
  BY DEF Pools
<1>4. /\ next_slot' \in 0 .. next
      /\ Reserved \subseteq Reserved' /\ slot \in Reserved'
      /\ slot \in Scan!Location /\ slot \in Scan!Slots
      /\ slot \notin Homes /\ slot \notin HeldFrom(K, "None")
      /\ free_slots' \in Seq(Scan!Location) /\ IsInjective(free_slots')
      /\ slot \notin ToSet(free_slots')
      /\ ToSet(free_slots') \cap HeldFrom(K, "None") = {}
      /\ ToSet(free_slots') \cup HeldFrom(K, "None") = (Reserved' \ Homes) \ {slot}
  BY <1>1, <1>2, SlotPopped
<1> HIDE DEF slot, K
<1>5. \A e \in ToSet(K) : e.location # slot
  <2> SUFFICES ASSUME NEW e \in ToSet(K), e.location = slot PROVE FALSE
    OBVIOUS
  <2>1. e.pool \in Pools /\ e.location \in All(e.pool)
    BY <1>2, EntriesPooled
  <2>2. slot \notin Scan!CallerRegs /\ slot \notin Scan!CalleeRegs
    BY <1>4, PoolsAre
  <2>3. e.pool = "None"
    BY <2>1, <2>2 DEF All, Pools
  <2> QED
    BY <1>4, <2>3 DEF HeldFrom
<1>6. slot \notin Scan!CalleeRegs
  BY <1>4, PoolsAre
<1>7. /\ PlacedSoFar' /\ Homes' = Homes
      /\ InOrder(active') /\ Truthful(active)'
      /\ HeldFrom(active', "None") = HeldFrom(K, "None") \cup {slot}
      /\ \A other \in Pools \ {"None"} : HeldFrom(active', other) = HeldFrom(K, other)
      /\ ToSet(locations') = ToSet(locations) \cup {slot}
  BY <1>1, <1>3, <1>4, <1>5, PlacedIn DEF K
<1>8. /\ Pooled(free_caller_saved', active', "CallerSaved", Scan!CallerRegs)
      /\ Pooled(free_callee_saved', active', "CalleeSaved", Scan!CalleeRegs)
  BY <1>1, <1>2, <1>3, <1>7, PoolKept
<1>9. Pooled(free_slots', active', "None", Reserved' \ Homes')
  <2>1. ToSet(free_slots') \cap HeldFrom(active', "None") = {}
    BY <1>4, <1>7
  <2>2. ToSet(free_slots') \cup HeldFrom(active', "None") = Reserved' \ Homes'
    BY <1>4, <1>7
  <2> QED
    BY <1>4, <2>1, <2>2 DEF Pooled
<1>10. Saved'
  BY <1>1, <1>2, <1>3, <1>4, <1>6, <1>7, SavedAfter DEF Settle
<1> QED
  BY <1>7, <1>8, <1>9, <1>10, LedgerNext DEF IInv

(* A value gives its register up to the next one and moves to a slot. *)
LEMMA StealStep ==
  ASSUME IInv, next <= Len(intervals), Steal(next),
         next' = next + 1, intervals' = intervals
  PROVE  IInv'
<1> DEFINE slot == AllocSlot(next)
           K == Kept(next)
<1>1. PICK p \in StealCandidate(next) :
         /\ PopSlot(next)
         /\ free_caller_saved' = CallerStack(next)
         /\ free_callee_saved' = CalleeStack(next)
         /\ evicted' = evicted \cup {K[p].vreg}
         /\ Settle(next, [locations EXCEPT ![K[p].vreg] = slot], RemoveAt(K, p),
                   K[p].location, K[p].pool)
  BY DEF Steal
<1> DEFINE victim == K[p]
           w == victim.vreg
           x == victim.location
           placed == [locations EXCEPT ![w] = slot]
           R == RemoveAt(K, p)
<1>2. /\ PlacedSoFar /\ Saved /\ next_slot \in Nat /\ next \in Nat
      /\ Ledger(K, CallerStack(next), CalleeStack(next), SlotStack(next))
      /\ Pooled(CallerStack(next), K, "CallerSaved", Scan!CallerRegs)
      /\ Pooled(CalleeStack(next), K, "CalleeSaved", Scan!CalleeRegs)
  BY TurnStart
<1>3. InOrder(K) /\ Truthful(K)
  BY KeptIs
<1>4. p \in DOMAIN K /\ victim.pool \in {"CallerSaved", "CalleeSaved"}
  BY DEF StealCandidate, Candidates
<1>5. /\ next_slot' \in 0 .. next
      /\ Reserved \subseteq Reserved' /\ slot \in Reserved'
      /\ slot \in Scan!Location /\ slot \in Scan!Slots
      /\ slot \notin Homes /\ slot \notin HeldFrom(K, "None")
      /\ free_slots' \in Seq(Scan!Location) /\ IsInjective(free_slots')
      /\ slot \notin ToSet(free_slots')
      /\ ToSet(free_slots') \cap HeldFrom(K, "None") = {}
      /\ ToSet(free_slots') \cup HeldFrom(K, "None") = (Reserved' \ Homes) \ {slot}
  BY <1>1, <1>2, SlotPopped
<1>6. victim \in ToSet(K)
  BY <1>4 DEF ToSet
<1> HIDE DEF slot, K
<1>7. /\ w \in 1 .. next - 1 /\ locations[w] = x
  BY <1>3, <1>6 DEF Truthful
<1>8. /\ x \in Scan!Location /\ victim.pool \in Pools
      /\ x \in All(victim.pool)
  BY <1>2, <1>6, EntriesPooled
<1>9. x \in Scan!Registers /\ (victim.pool = "CalleeSaved" <=> x \in Scan!CalleeRegs)
  <2>1. CASE victim.pool = "CallerSaved"
    <3>1. x \in Scan!CallerRegs
      BY <1>8, <2>1 DEF All
    <3> QED
      BY <2>1, <3>1, PoolsAre
  <2>2. CASE victim.pool = "CalleeSaved"
    <3>1. x \in Scan!CalleeRegs
      BY <1>8, <2>2 DEF All
    <3> QED
      BY <2>2, <3>1, PoolsAre
  <2> QED
    BY <1>4, <2>1, <2>2
<1>10. /\ InOrder(R) /\ ToSet(R) = ToSet(K) \ {victim}
       /\ \A e \in ToSet(R) : e.location # x
  BY <1>3, <1>4, RemovedInOrder
<1>11. /\ locations \in Seq(Scan!Location) /\ Len(locations) = next - 1
       /\ DOMAIN locations = 1 .. next - 1
       /\ ToSet(locations) \subseteq Scan!Registers \cup Reserved
       /\ evicted \subseteq 1 .. next - 1 /\ Homes \subseteq Reserved
       /\ \A u, v \in evicted : locations[u] = locations[v] => u = v
       /\ Scan!Sorted(intervals)
  BY <1>2 DEF PlacedSoFar
<1>12. /\ placed \in Seq(Scan!Location) /\ Len(placed) = next - 1
       /\ \A v \in 1 .. next - 1 : placed[v] = IF v = w THEN slot ELSE locations[v]
  <2> HIDE DEF w
  <2> QED
    BY <1>5, <1>7, <1>11
<1> HIDE DEF w, x, placed, R, victim
<1>13. \A e \in ToSet(R) : /\ e.vreg \in 1 .. next - 1
                           /\ e.end = intervals[e.vreg].end
                           /\ placed[e.vreg] = e.location
  BY <1>3, <1>7, <1>10, <1>12 DEF Truthful
<1>14. Settle(next, placed, R, x, victim.pool)
  BY <1>1 DEF w, x, placed, R, victim
<1>15. /\ InOrder(active') /\ Truthful(active)'
       /\ HeldFrom(active', victim.pool) = HeldFrom(R, victim.pool) \cup {x}
       /\ \A other \in Pools \ {victim.pool} : HeldFrom(active', other) = HeldFrom(R, other)
       /\ locations' \in Seq(Scan!Location) /\ Len(locations') = next
       /\ \A v \in 1 .. next - 1 : locations'[v] = placed[v]
       /\ locations'[next] = x
       /\ ToSet(locations') = ToSet(placed) \cup {x}
  BY <1>2, <1>8, <1>10, <1>12, <1>13, <1>14, SettleIs
(* The entry that comes takes the place of the one that goes. *)
<1>16. \A pool \in Pools : HeldFrom(active', pool) = HeldFrom(K, pool)
  <2> TAKE pool \in Pools
  <2>1. HeldFrom(K, pool) = HeldFrom(R, pool) \cup (IF victim.pool = pool THEN {x} ELSE {})
    BY <1>6, <1>10 DEF HeldFrom, x
  <2> QED
    BY <1>15, <2>1
<1>17. w \notin evicted
  <2> SUFFICES ASSUME w \in evicted PROVE FALSE
    OBVIOUS
  <2>1. x \in Reserved
    BY <1>7, <1>11 DEF Homes
  <2> QED
    BY <1>2, <1>9, <2>1, PoolsAre, ReservedAre
<1>18. evicted' = evicted \cup {w}
  BY <1>1 DEF w, victim
<1>19. Homes' = Homes \cup {slot}
  <2>1. \A v \in evicted : locations'[v] = locations[v]
    BY <1>11, <1>12, <1>15, <1>17
  <2>2. locations'[w] = slot
    BY <1>7, <1>12, <1>15
  <2>3. Homes' = {locations'[v] : v \in evicted'}
    BY DEF Homes
  <2> QED
    BY <1>18, <2>1, <2>2, <2>3 DEF Homes
<1>20. PlacedSoFar'
  <2>1. /\ next' \in 1 .. Len(intervals') + 1 /\ next_slot' \in 0 .. next' - 1
        /\ Len(locations') = next' - 1 /\ evicted' \subseteq 1 .. next' - 1
    <3>1. next \in 1 .. Len(intervals) /\ Len(intervals) \in Nat
      BY <1>2, NextInterval
    <3>2. next' - 1 = next
      BY <3>1
    <3>3. evicted' \subseteq 1 .. next
      BY <1>7, <1>11, <1>18, <3>1
    <3> QED
      BY <1>5, <1>15, <3>1, <3>2, <3>3
  <2>2. Scan!Sorted(intervals)'
    BY <1>11 DEF Scan!Sorted
  <2>3. locations' \in Seq(Scan!Location)'
    BY <1>15, SameRegisters
  <2>4. ToSet(locations') \subseteq Scan!Registers \cup Reserved'
    <3>1. DOMAIN placed = 1 .. next - 1
      BY <1>12
    <3>2. \A v \in 1 .. next - 1 : placed[v] \in Scan!Registers \cup Reserved'
      BY <1>5, <1>11, <1>12 DEF ToSet
    <3>3. ToSet(placed) \subseteq Scan!Registers \cup Reserved'
      BY <3>1, <3>2 DEF ToSet
    <3> QED
      BY <1>9, <1>15, <3>3
  <2>5. Scan!Registers' = Scan!Registers
    BY SameRegisters DEF Scan!Registers
  <2>6. Homes' \subseteq Reserved'
    BY <1>5, <1>11, <1>19
  <2>7. \A u, v \in evicted' : locations'[u] = locations'[v] => u = v
    <3>1. \A v \in evicted : locations'[v] = locations[v] /\ locations[v] # slot
      BY <1>5, <1>11, <1>12, <1>15, <1>17 DEF Homes
    <3>2. locations'[w] = slot
      BY <1>7, <1>12, <1>15
    <3> QED
      BY <1>11, <1>18, <3>1, <3>2
  <2> QED
    BY <2>1, <2>2, <2>3, <2>4, <2>5, <2>6, <2>7 DEF PlacedSoFar
<1>21. /\ Pooled(free_caller_saved', active', "CallerSaved", Scan!CallerRegs)
       /\ Pooled(free_callee_saved', active', "CalleeSaved", Scan!CalleeRegs)
  <2>1. free_caller_saved' = CallerStack(next) /\ free_callee_saved' = CalleeStack(next)
    BY <1>1
  <2>2. "CallerSaved" \in Pools /\ "CalleeSaved" \in Pools
    BY DEF Pools
  <2> QED
    BY <1>2, <1>16, <2>1, <2>2, PoolKept
<1>22. Pooled(free_slots', active', "None", Reserved' \ Homes')
  <2>1. "None" \in Pools
    BY DEF Pools
  <2>2. HeldFrom(active', "None") = HeldFrom(K, "None")
    BY <1>16, <2>1
  <2>3. Reserved' \ Homes' = (Reserved' \ Homes) \ {slot}
    BY <1>19
  <2> QED
    BY <1>5, <2>2, <2>3 DEF Pooled
<1>23. Saved'
  <2>1. ToSet(locations') \cap Scan!CalleeRegs = (ToSet(locations) \cup {x}) \cap Scan!CalleeRegs
    <3>1. DOMAIN placed = 1 .. next - 1
      BY <1>12
    <3>2. slot \notin Scan!CalleeRegs
      BY <1>5, PoolsAre
    <3>3. ToSet(placed) = {placed[v] : v \in 1 .. next - 1}
      BY <3>1 DEF ToSet
    <3>4. ToSet(locations) = {locations[v] : v \in 1 .. next - 1}
      BY <1>11 DEF ToSet
    <3>5. \A y \in Scan!CalleeRegs : y \in ToSet(placed) => y \in ToSet(locations)
      BY <1>12, <3>2, <3>3, <3>4
    <3>6. \A y \in Scan!CalleeRegs : y \in ToSet(locations) /\ y # x => y \in ToSet(placed)
      BY <1>7, <1>12, <3>3, <3>4
    <3> QED
      BY <1>15, <3>5, <3>6
  <2>2. used_callee_saved' =
            IF victim.pool = "CalleeSaved" /\ x \notin ToSet(used_callee_saved)
            THEN Append(used_callee_saved, x) ELSE used_callee_saved
    BY <1>14 DEF Settle
  <2> QED
    BY <1>2, <1>8, <1>9, <2>1, <2>2, SavedAfter
<1> QED
  BY <1>15, <1>20, <1>21, <1>22, <1>23, LedgerNext DEF IInv

(* One turn of the loop leaves the books in order. *)
LEMMA PlaceNextIInv == IInv /\ PlaceNext => IInv'
<1> SUFFICES ASSUME IInv, PlaceNext PROVE IInv'
  OBVIOUS
<1>1. /\ next <= Len(intervals) /\ next' = next + 1 /\ intervals' = intervals
      /\ TakeCallerSaved(next) \/ TakeCalleeSaved(next) \/ Steal(next) \/ SpillSelf(next)
  BY DEF PlaceNext
<1> QED
  BY <1>1, TakeCallerSavedStep, TakeCalleeSavedStep, StealStep, SpillSelfStep

(* Nothing moves in a step that changes no variable. *)
LEMMA StutterIInv == IInv /\ UNCHANGED vars => IInv'
<1> SUFFICES ASSUME IInv, UNCHANGED vars PROVE IInv'
  OBVIOUS
<1>1. /\ intervals' = intervals /\ next' = next /\ next_slot' = next_slot /\ active' = active
      /\ free_caller_saved' = free_caller_saved /\ free_callee_saved' = free_callee_saved
      /\ free_slots' = free_slots /\ locations' = locations
      /\ used_callee_saved' = used_callee_saved /\ evicted' = evicted
  BY DEF vars
<1>2. Reserved' = Reserved /\ Homes' = Homes /\ Scan!Registers' = Scan!Registers
  BY <1>1 DEF Reserved, Homes, Scan!Spill, Scan!Registers, Scan!CallerRegs, Scan!CalleeRegs
<1>3. Scan!Sorted(intervals)' <=> Scan!Sorted(intervals)
  BY <1>1 DEF Scan!Sorted
<1>4. PlacedSoFar'
  BY <1>1, <1>2, <1>3, SameRegisters DEF IInv, PlacedSoFar
<1>5. Ledger(active, free_caller_saved, free_callee_saved, free_slots)'
  <2>1. InOrder(active') /\ Truthful(active)'
    BY <1>1 DEF IInv, Ledger, Truthful
  <2> QED
    BY <1>1, <1>2, <2>1, LedgerNext DEF IInv, Ledger
<1>6. Saved'
  BY <1>1, SameRegisters DEF IInv, Saved
<1> QED
  BY <1>4, <1>5, <1>6 DEF IInv

(* The invariant holds in every state. *)
THEOREM Invariance == Spec => []IInv
<1>1. IInv /\ [Next]_vars => IInv'
  BY PlaceNextIInv, StutterIInv DEF Next, Returned
<1> QED
  BY <1>1, InitIInv, PTL DEF Spec

-----------------------------------------------------------------------------
(* What the invariant says of the books. *)
LEMMA InvBookkeeping == IInv => Bookkeeping
<1> SUFFICES ASSUME IInv PROVE Bookkeeping
  OBVIOUS
<1>1. /\ next \in 1 .. Len(intervals) + 1 /\ next_slot \in 0 .. next - 1
      /\ locations \in Seq(Scan!Location) /\ Len(locations) = next - 1
      /\ ToSet(locations) \subseteq Scan!Registers \cup Reserved
      /\ Homes \subseteq Reserved
      /\ \A v, w \in evicted : locations[v] = locations[w] => v = w
      /\ Len(intervals) \in Nat
  BY DEF IInv, PlacedSoFar, Scan!Sorted
<1>2. /\ InOrder(active) /\ Truthful(active)
      /\ Pooled(free_caller_saved, active, "CallerSaved", Scan!CallerRegs)
      /\ Pooled(free_callee_saved, active, "CalleeSaved", Scan!CalleeRegs)
      /\ Pooled(free_slots, active, "None", Reserved \ Homes)
  BY DEF IInv, Ledger
<1>3. TypeOK
  <2>1. ToSet(free_caller_saved) \subseteq Registers /\ ToSet(free_callee_saved) \subseteq Registers
    BY <1>2, PoolsAre DEF Pooled
  <2>2. /\ next_slot \in 0 .. Len(intervals) /\ DOMAIN locations = 1 .. next - 1
    BY <1>1
  <2> QED
    BY <1>1, <2>1, <2>2, PoolsAre DEF TypeOK, Reserved
<1>4. \A p, q \in DOMAIN active : active[p].location = active[q].location => p = q
  BY <1>2 DEF InOrder
<1>5. RegistersAccounted
  BY <1>2, <1>4, PoolsAre DEF RegistersAccounted, Pooled
<1>6. SlotsAccounted
  <2>1. /\ IsInjective(free_slots)
        /\ ToSet(free_slots) \cap HeldFrom(active, "None") = {}
        /\ ToSet(free_slots) \cup HeldFrom(active, "None") = Reserved \ Homes
    BY <1>2 DEF Pooled
  <2>2. /\ ToSet(free_slots) \cup HeldFrom(active, "None") \cup Homes = Reserved
        /\ Homes \cap (ToSet(free_slots) \cup HeldFrom(active, "None")) = {}
    BY <1>1, <2>1
  <2> QED
    BY <1>1, <2>1, <2>2 DEF SlotsAccounted, Reserved
<1>7. ActiveSorted
  <2>1. \A p \in DOMAIN active : active[p] \in ToSet(active)
    BY DEF ToSet
  <2>2. \A p \in DOMAIN active : locations[active[p].vreg] = active[p].location
    BY <1>2, <2>1 DEF Truthful
  <2> QED
    BY <1>2, <2>2 DEF ActiveSorted, InOrder
<1> QED
  BY <1>3, <1>5, <1>6, <1>7 DEF Bookkeeping

(* Whatever is allocated on whatever machine: no register is ever lost,     *)
(* handed out twice or handed back to the wrong pool, no slot is counted    *)
(* that nothing uses, and the active list is sorted and true.               *)
THEOREM BooksInOrder == Spec => []Bookkeeping
  BY Invariance, InvBookkeeping, PTL

(* The prologue saves the callee-saved registers some value ends up in, each *)
(* once, and no other.                                                      *)
THEOREM PrologueExact == Spec => []SavedExactly
<1>1. IInv => SavedExactly
  BY PoolsAre DEF IInv, Saved, SavedExactly
<1> QED
  BY <1>1, Invariance, PTL

-----------------------------------------------------------------------------
(* What expire_through leaves is what LinearScan lets live. *)
LEMMA ExpiryImplements ==
  ASSUME IInv, next <= Len(intervals)
  PROVE  /\ Scan!Live(next) = {e.vreg : e \in ToSet(Kept(next))}
         /\ Scan!Held(next) = {e.location : e \in ToSet(Kept(next))}
         /\ Scan!FreeSlots(next) = ToSet(SlotStack(next))
<1> DEFINE K == Kept(next)
           through == intervals[next].start
           busy == {e.vreg : e \in ToSet(active)}
<1>1. /\ next \in Nat /\ next \in 1 .. Len(intervals) /\ through \in Nat
      /\ \A v \in 1 .. next - 1 : intervals[v].end \in Nat
  BY NextInterval DEF IInv
<1>2. /\ ToSet(K) = {e \in ToSet(active) : ~(e.end <= through)}
  BY KeptIs
<1>3. \A e \in ToSet(active) : /\ e.vreg \in 1 .. next - 1
                               /\ e.end = intervals[e.vreg].end
                               /\ locations[e.vreg] = e.location
  BY DEF IInv, Ledger, Truthful
<1>4. \A e \in ToSet(active) : ~(e.end <= through) <=> intervals[e.vreg].end > through
  BY <1>1, <1>3
<1>5. Scan!Live(next) = {j \in busy : intervals[j].end > through}
  BY DEF Scan!Live
<1> HIDE DEF K, through
<1>6. Scan!Live(next) = {e.vreg : e \in ToSet(K)}
  BY <1>2, <1>4, <1>5
<1>7. Scan!Held(next) = {e.location : e \in ToSet(K)}
  <2>1. Scan!Held(next) = {locations[j] : j \in Scan!Live(next)}
    BY DEF Scan!Held
  <2>2. \A e \in ToSet(K) : locations[e.vreg] = e.location
    BY <1>2, <1>3
  <2> QED
    BY <1>6, <2>1, <2>2
<1>8. Scan!FreeSlots(next) = ToSet(SlotStack(next))
  <2> DEFINE gone == {e \in ToSet(active) : e.end <= through}
  <2>1. ToSet(SlotStack(next)) =
           ToSet(free_slots) \cup {e.location : e \in {a \in ToSet(active) :
                                                 a.end <= through /\ a.pool = "None"}}
    BY ExpiredLedger DEF through
  <2>2. Scan!Expired(next) = {e.vreg : e \in gone}
    <3>1. Scan!Expired(next) = busy \ Scan!Live(next)
      BY DEF Scan!Expired
    <3> QED
      BY <1>4, <1>5, <3>1
  <2>3. \A e \in gone : e.location \notin Scan!Registers <=> e.pool = "None"
    <3> TAKE e \in gone
    <3>1. e.pool \in Pools /\ e.location \in All(e.pool)
      BY EntriesPooled DEF IInv
    <3>2. next_slot \in Nat
      BY DEF IInv, PlacedSoFar
    <3>3. e.pool = "None" => e.location \notin Scan!Registers
      BY <3>1, <3>2, PoolsAre, ReservedAre DEF All
    <3>4. e.pool = "CallerSaved" => e.location \in Scan!Registers
      BY <3>1, PoolsAre DEF All
    <3>5. e.pool = "CalleeSaved" => e.location \in Scan!Registers
      BY <3>1, PoolsAre DEF All
    <3> QED
      BY <3>1, <3>3, <3>4, <3>5 DEF Pools
  <2>4. Scan!FreeSlots(next) =
           ToSet(free_slots) \cup ({locations[j] : j \in Scan!Expired(next)} \ Scan!Registers)
    BY DEF Scan!FreeSlots
  <2>5. {locations[j] : j \in Scan!Expired(next)} = {e.location : e \in gone}
    BY <1>3, <2>2
  <2> QED
    BY <2>1, <2>3, <2>4, <2>5
<1> QED
  BY <1>6, <1>7, <1>8 DEF K

(* When take_register answers None, every register that would do is held. *)
LEMMA NoneFree ==
  ASSUME IInv, next <= Len(intervals), NoRegister(next)
  PROVE  Scan!Usable(next) \subseteq Scan!Held(next)
<1> DEFINE K == Kept(next)
<1>1. /\ Pooled(CallerStack(next), K, "CallerSaved", Scan!CallerRegs)
      /\ Pooled(CalleeStack(next), K, "CalleeSaved", Scan!CalleeRegs)
  BY TurnStart
<1>2. Scan!Held(next) = {e.location : e \in ToSet(K)}
  BY ExpiryImplements
<1> HIDE DEF K
<1>3. \A pool : HeldFrom(K, pool) \subseteq Scan!Held(next)
  BY <1>2 DEF HeldFrom
<1>4. ToSet(<< >>) = {}
  BY DEF ToSet
<1>5. Scan!CalleeRegs \subseteq Scan!Held(next)
  BY <1>1, <1>3, <1>4 DEF NoRegister, Pooled
<1>6. ~intervals[next].crosses_call => Scan!CallerRegs \subseteq Scan!Held(next)
  BY <1>1, <1>3, <1>4 DEF NoRegister, Pooled
<1> QED
  BY <1>5, <1>6, PoolsAre DEF Scan!Usable

(* How LinearScan sees the tail of the loop body. *)
Shown(K, placed, location) ==
    /\ {e.vreg : e \in ToSet(active')} = {e.vreg : e \in ToSet(K)} \cup {next}
    /\ locations' = [j \in 1 .. next |-> IF j = next THEN location ELSE placed[j]]

(* It is one more active interval, and one more location. *)
LEMMA SettleShows ==
  ASSUME PlacedSoFar, next <= Len(intervals),
         NEW placed \in Seq(Scan!Location), Len(placed) = next - 1,
         NEW K, InOrder(K),
         \A e \in ToSet(K) : /\ e.vreg \in 1 .. next - 1
                              /\ e.end = intervals[e.vreg].end
                              /\ placed[e.vreg] = e.location,
         NEW location \in Scan!Location, NEW pool \in Pools,
         \A e \in ToSet(K) : e.location # location,
         Settle(next, placed, K, location, pool), next' = next + 1, intervals' = intervals
  PROVE  Shown(K, placed, location)
<1> DEFINE new == [vreg |-> next, end |-> intervals[next].end,
                   location |-> location, pool |-> pool]
<1>1. /\ ToSet(active') = ToSet(K) \cup {new}
      /\ locations' \in Seq(Scan!Location) /\ Len(locations') = next
      /\ \A v \in 1 .. next - 1 : locations'[v] = placed[v]
      /\ locations'[next] = location
  BY SettleIs
<1>2. new.vreg = next
  OBVIOUS
<1> HIDE DEF new
<1>3. {e.vreg : e \in ToSet(active')} = {e.vreg : e \in ToSet(K)} \cup {next}
  BY <1>1, <1>2
<1>4. next \in Nat
  BY NextInterval
<1>5. \A j \in 1 .. next : locations'[j] = IF j = next THEN location ELSE placed[j]
  BY <1>1, <1>4
<1>6. locations' = [j \in 1 .. next |-> locations'[j]]
  BY <1>1, <1>4
<1>7. locations' = [j \in 1 .. next |-> IF j = next THEN location ELSE placed[j]]
  BY <1>5, <1>6
<1> QED
  BY <1>3, <1>7 DEF Shown

-----------------------------------------------------------------------------
(* The slot is one LinearScan would hand out. *)
LEMMA SlotImplements ==
  ASSUME IInv, next <= Len(intervals), PopSlot(next)
  PROVE  /\ Scan!AllocSlot(next, AllocSlot(next))
         /\ AllocSlot(next) \in Scan!FreeSlots(next) \cup {Scan!Spill(next_slot)}
<1> DEFINE stack == SlotStack(next)
           slot == AllocSlot(next)
<1>1. stack \in Seq(Scan!Location) /\ IsInjective(stack)
  BY TurnStart DEF Pooled
<1>2. Scan!FreeSlots(next) = ToSet(stack)
  BY ExpiryImplements
<1>3. CASE stack = << >>
  <2>1. slot = Scan!Spill(next_slot) /\ free_slots' = << >> /\ next_slot' = next_slot + 1
    BY <1>3 DEF PopSlot, AllocSlot
  <2>2. ToSet(<< >>) = {}
    BY DEF ToSet
  <2> HIDE DEF slot
  <2> QED
    BY <1>2, <1>3, <2>1, <2>2 DEF Scan!AllocSlot, slot
<1>4. CASE stack # << >>
  <2>1. slot = Last(stack) /\ free_slots' = Front(stack) /\ next_slot' = next_slot
    BY <1>4 DEF PopSlot, AllocSlot
  <2> HIDE DEF slot, stack
  <2>2. Last(stack) \in ToSet(stack) /\ ToSet(Front(stack)) = ToSet(stack) \ {Last(stack)}
    BY <1>1, <1>4, PopFacts
  <2>3. slot \in ToSet(stack) /\ ToSet(free_slots') = ToSet(stack) \ {slot}
    BY <2>1, <2>2
  <2> QED
    BY <1>2, <2>1, <2>3 DEF Scan!AllocSlot, slot
<1> QED
  BY <1>3, <1>4

(* A register from the top of its stack is one LinearScan would take. *)
LEMMA TakeImplements ==
  ASSUME IInv, next <= Len(intervals), next' = next + 1, intervals' = intervals,
         NEW stack, NEW pool \in {"CallerSaved", "CalleeSaved"},
         Pooled(stack, Kept(next), pool, All(pool)), stack # << >>,
         All(pool) \subseteq Scan!Usable(next),
         Settle(next, locations, Kept(next), Last(stack), pool),
         free_slots' = SlotStack(next), UNCHANGED <<next_slot, evicted>>
  PROVE  \E r \in Scan!Registers : Scan!Take(next, r)
<1> DEFINE K == Kept(next)
           r == Last(stack)
<1>1. /\ PlacedSoFar /\ next_slot \in Nat
      /\ Ledger(K, CallerStack(next), CalleeStack(next), SlotStack(next))
  BY TurnStart
<1>2. stack \in Seq(Scan!Location) /\ IsInjective(stack)
  BY DEF Pooled
<1>3. r \in ToSet(stack) /\ r \in Scan!Location
  BY <1>2, PopFacts
<1>4. r \in All(pool) /\ r \notin HeldFrom(K, pool)
  BY <1>3 DEF Pooled
<1>5. pool \in Pools
  BY DEF Pools
<1>6. /\ Scan!Live(next) = {e.vreg : e \in ToSet(K)}
      /\ Scan!Held(next) = {e.location : e \in ToSet(K)}
      /\ Scan!FreeSlots(next) = ToSet(SlotStack(next))
  BY ExpiryImplements
<1>7. /\ locations \in Seq(Scan!Location) /\ Len(locations) = next - 1
  BY <1>1 DEF PlacedSoFar
<1>8. InOrder(K) /\ Truthful(K)
  BY KeptIs
<1> HIDE DEF K, r
<1>9. \A e \in ToSet(K) : e.location # r
  BY <1>1, <1>4, <1>5, StackUnheld
<1>10. \A e \in ToSet(K) : /\ e.vreg \in 1 .. next - 1
                           /\ e.end = intervals[e.vreg].end
                           /\ locations[e.vreg] = e.location
  BY <1>8 DEF Truthful
<1>11. Settle(next, locations, K, r, pool)
  BY DEF K, r
<1>12a. Shown(K, locations, r)
  BY <1>1, <1>3, <1>5, <1>7, <1>8, <1>9, <1>10, <1>11, SettleShows
<1>12. /\ {e.vreg : e \in ToSet(active')} = {e.vreg : e \in ToSet(K)} \cup {next}
       /\ locations' = [j \in 1 .. next |-> IF j = next THEN r ELSE locations[j]]
  BY <1>12a DEF Shown
<1>13. r \in Scan!Usable(next) \ Scan!Held(next)
  BY <1>4, <1>6, <1>9
<1>14. Scan!Take(next, r)
  BY <1>6, <1>12, <1>13 DEF Scan!Take
<1>15. r \in Scan!Registers
  BY <1>13, PoolsAre DEF Scan!Usable
<1> QED
  BY <1>14, <1>15

(* The entries that hold a register interval next could use. *)
LEMMA CandidatesAre ==
  ASSUME IInv, next <= Len(intervals)
  PROVE  /\ Scan!Stealable(next) = {Kept(next)[p].vreg : p \in Candidates(next)}
         /\ \A p \in Candidates(next) :
               intervals[Kept(next)[p].vreg].end = Kept(next)[p].end
<1> DEFINE K == Kept(next)
<1>1. /\ next_slot \in Nat
      /\ Ledger(K, CallerStack(next), CalleeStack(next), SlotStack(next))
  BY TurnStart
<1>2. Truthful(K)
  BY KeptIs
<1>3. Scan!Live(next) = {e.vreg : e \in ToSet(K)}
  BY ExpiryImplements
<1>4. Candidates(next) = {p \in DOMAIN K : \/ K[p].pool = "CalleeSaved"
                                           \/ K[p].pool = "CallerSaved" /\ ~intervals[next].crosses_call}
  BY DEF Candidates
<1> HIDE DEF K
<1>5. ASSUME NEW e \in ToSet(K)
      PROVE  /\ e.location \in Scan!Usable(next)
                <=> \/ e.pool = "CalleeSaved"
                    \/ e.pool = "CallerSaved" /\ ~intervals[next].crosses_call
             /\ locations[e.vreg] = e.location /\ e.end = intervals[e.vreg].end
  <2>1. e.pool \in Pools /\ e.location \in All(e.pool)
    BY <1>1, EntriesPooled
  <2>2. e.pool = "None" => e.location \notin Scan!Registers
    BY <1>1, <2>1, PoolsAre, ReservedAre DEF All
  <2>3. e.pool = "CallerSaved" => e.location \in Scan!CallerRegs
    BY <2>1 DEF All
  <2>4. e.pool = "CalleeSaved" => e.location \in Scan!CalleeRegs
    BY <2>1 DEF All
  <2>5. locations[e.vreg] = e.location /\ e.end = intervals[e.vreg].end
    BY <1>2 DEF Truthful
  <2> QED
    BY <2>1, <2>2, <2>3, <2>4, <2>5, PoolsAre DEF Scan!Usable, Pools
<1>6. ToSet(K) = {K[p] : p \in DOMAIN K}
  BY DEF ToSet
<1>7. Scan!Stealable(next) = {j \in Scan!Live(next) : locations[j] \in Scan!Usable(next)}
  BY DEF Scan!Stealable
<1>8. Scan!Stealable(next) = {K[p].vreg : p \in Candidates(next)}
  BY <1>3, <1>4, <1>5, <1>6, <1>7
<1>9. \A p \in Candidates(next) : intervals[K[p].vreg].end = K[p].end
  BY <1>4, <1>5, <1>6
<1> QED
  BY <1>8, <1>9 DEF K

(* steal_candidate answers with one of LinearScan's victims, and with one if *)
(* there is any.                                                            *)
LEMMA VictimsAre ==
  ASSUME IInv, next <= Len(intervals)
  PROVE  /\ \A p \in StealCandidate(next) : Kept(next)[p].vreg \in Scan!Victims(next)
         /\ StealCandidate(next) = {} => Scan!Victims(next) = {}
<1> DEFINE K == Kept(next)
           C == Candidates(next)
           n == Len(K)
           last == intervals[next].end
<1>1. /\ Scan!Stealable(next) = {K[p].vreg : p \in C}
      /\ \A p \in C : intervals[K[p].vreg].end = K[p].end
  BY CandidatesAre
<1>2. InOrder(K)
  BY KeptIs
<1>3. /\ K \in Seq(Entry) /\ n \in Nat /\ DOMAIN K = 1 .. n
      /\ \A p, q \in DOMAIN K : p <= q => K[p].end <= K[q].end
  BY <1>2 DEF InOrder
<1>4. C \in SUBSET (1 .. n)
  BY <1>3 DEF Candidates
<1>5. StealCandidate(next) = {p \in C : /\ \A q \in C : Outlives(next, p, q)
                                        /\ K[p].end > last}
  BY DEF StealCandidate
<1>6. \A p, q : Outlives(next, p, q) <=> \/ K[p].end > K[q].end
                                         \/ K[p].end = K[q].end /\ p >= q
  BY DEF Outlives
<1>7. last \in Nat
  BY NextInterval DEF IInv
<1>8. Scan!Victims(next) = {v \in Scan!Stealable(next) :
                              /\ \A j \in Scan!Stealable(next) : intervals[j].end <= intervals[v].end
                              /\ intervals[v].end > last}
  BY DEF Scan!Victims
<1> HIDE DEF K, C, n, last
<1>9. \A p \in C : K[p].end \in Nat /\ p \in DOMAIN K /\ p \in Nat
  <2> TAKE p \in C
  <2>1. p \in 1 .. n
    BY <1>4
  <2>2. K[p] \in Entry
    BY <1>3, <2>1 DEF n
  <2> QED
    BY <1>3, <2>1, <2>2 DEF Entry
<1>10. ASSUME NEW p \in StealCandidate(next) PROVE K[p].vreg \in Scan!Victims(next)
  <2>1. p \in C /\ K[p].end > last /\ \A q \in C : K[q].end <= K[p].end
    BY <1>5, <1>6, <1>9
  <2> QED
    BY <1>1, <1>8, <2>1
<1>11. ASSUME NEW v \in Scan!Victims(next) PROVE StealCandidate(next) # {}
  <2>1. PICK a \in C : v = K[a].vreg
    BY <1>1, <1>8
  <2>2. K[a].end > last
    BY <1>1, <1>8, <2>1
  <2>3. PICK p \in C : \A q \in C : q <= p
    BY <1>3, <1>4, LastOf
  <2>4. \A q \in C : K[q].end <= K[p].end
    BY <1>3, <1>9, <2>3
  <2>5. \A q \in C : Outlives(next, p, q)
    BY <1>6, <1>9, <2>3, <2>4
  <2>6. K[p].end > last
    BY <1>7, <1>9, <2>2, <2>4
  <2> QED
    BY <1>5, <2>5, <2>6
<1> QED
  BY <1>10, <1>11 DEF K

(* A theft is one of LinearScan's. *)
LEMMA StealImplements ==
  ASSUME IInv, next <= Len(intervals), Steal(next), next' = next + 1, intervals' = intervals
  PROVE  Scan!Place(next)
<1> DEFINE slot == AllocSlot(next)
           K == Kept(next)
<1>1. PICK p \in StealCandidate(next) :
         /\ PopSlot(next)
         /\ evicted' = evicted \cup {K[p].vreg}
         /\ Settle(next, [locations EXCEPT ![K[p].vreg] = slot], RemoveAt(K, p),
                   K[p].location, K[p].pool)
  BY DEF Steal
<1> DEFINE victim == K[p]
           w == victim.vreg
           x == victim.location
           placed == [locations EXCEPT ![w] = slot]
           R == RemoveAt(K, p)
<1>2. /\ PlacedSoFar /\ next_slot \in Nat /\ next \in Nat
      /\ Ledger(K, CallerStack(next), CalleeStack(next), SlotStack(next))
  BY TurnStart
<1>3. InOrder(K) /\ Truthful(K)
  BY KeptIs
<1>4. p \in DOMAIN K
  BY DEF StealCandidate, Candidates
<1>5. victim \in ToSet(K)
  BY <1>4 DEF ToSet
<1>6. w \in Scan!Victims(next)
  BY VictimsAre
<1>7. /\ Scan!AllocSlot(next, slot)
      /\ slot \in Scan!FreeSlots(next) \cup {Scan!Spill(next_slot)}
  BY <1>1, SlotImplements
<1>8. slot \in Scan!Location
  BY <1>1, <1>2, SlotPopped
<1>9. Scan!Usable(next) \subseteq Scan!Held(next)
  BY NoneFree DEF Steal
<1>10. Scan!Live(next) = {e.vreg : e \in ToSet(K)}
  BY ExpiryImplements
<1>11. evicted' = evicted \cup {w}
  BY <1>1
<1>12. Settle(next, placed, R, x, victim.pool)
  BY <1>1
<1> HIDE DEF slot, K
<1>13. /\ w \in 1 .. next - 1 /\ locations[w] = x
  BY <1>3, <1>5 DEF Truthful
<1>14. x \in Scan!Location /\ victim.pool \in Pools
  BY <1>2, <1>5, EntriesPooled
<1>15. /\ InOrder(R) /\ ToSet(R) = ToSet(K) \ {victim}
       /\ \A e \in ToSet(R) : e.location # x
  BY <1>3, <1>4, RemovedInOrder
<1>16. locations \in Seq(Scan!Location) /\ Len(locations) = next - 1
  BY <1>2 DEF PlacedSoFar
<1>17. /\ placed \in Seq(Scan!Location) /\ Len(placed) = next - 1
       /\ \A v \in 1 .. next - 1 : placed[v] = IF v = w THEN slot ELSE locations[v]
  <2> HIDE DEF w
  <2> QED
    BY <1>2, <1>8, <1>13, <1>16
<1> HIDE DEF w, x, placed, R, victim
<1>18. \A e \in ToSet(K) : /\ e.vreg \in 1 .. next - 1
                           /\ e.end = intervals[e.vreg].end
                           /\ locations[e.vreg] = e.location
  BY <1>3 DEF Truthful
<1>19. \A e \in ToSet(R) : e.vreg # w
  BY <1>13, <1>15, <1>18
<1>20. \A e \in ToSet(R) : /\ e.vreg \in 1 .. next - 1
                           /\ e.end = intervals[e.vreg].end
                           /\ placed[e.vreg] = e.location
  BY <1>15, <1>17, <1>18, <1>19
<1>21a. Shown(R, placed, x)
  BY <1>2, <1>12, <1>14, <1>15, <1>17, <1>20, SettleShows
<1>21. /\ {e.vreg : e \in ToSet(active')} = {e.vreg : e \in ToSet(R)} \cup {next}
       /\ locations' = [j \in 1 .. next |-> IF j = next THEN x ELSE placed[j]]
  BY <1>21a DEF Shown
<1>22. {e.vreg : e \in ToSet(R)} = Scan!Live(next) \ {w}
  BY <1>10, <1>15, <1>19 DEF w
<1>23. locations' = [j \in 1 .. next |-> CASE j = next -> locations[w]
                                           [] j = w -> slot
                                           [] OTHER -> locations[j]]
  <2>1. ASSUME NEW j \in 1 .. next
        PROVE  (IF j = next THEN x ELSE placed[j])
                  = CASE j = next -> locations[w] [] j = w -> slot [] OTHER -> locations[j]
    <3>1. j = next \/ j \in 1 .. next - 1
      BY <1>2
    <3>2. w # next
      BY <1>2, <1>13
    <3> QED
      BY <1>2, <1>13, <1>17, <3>1, <3>2
  <2> QED
    BY <1>21, <2>1
<1>24. Scan!Steal(next, w, slot)
  BY <1>6, <1>7, <1>9, <1>11, <1>21, <1>22, <1>23 DEF Scan!Steal
<1>25. w \in {e.vreg : e \in ToSet(active)}
  BY <1>6 DEF Scan!Victims, Scan!Stealable, Scan!Live
<1>26. \E v \in {e.vreg : e \in ToSet(active)},
           s \in Scan!FreeSlots(next) \cup {Scan!Spill(next_slot)} : Scan!Steal(next, v, s)
  BY <1>7, <1>24, <1>25 DEF Scan!Steal, Scan!AllocSlot
<1> QED
  BY <1>26, Zenon DEF Scan!Place

(* Nothing worth a theft here is nothing worth one there. *)
LEMMA SpillSelfImplements ==
  ASSUME IInv, next <= Len(intervals), SpillSelf(next), next' = next + 1,
         intervals' = intervals
  PROVE  Scan!Place(next)
<1> DEFINE slot == AllocSlot(next)
           K == Kept(next)
<1>1. /\ PopSlot(next) /\ NoRegister(next) /\ StealCandidate(next) = {}
      /\ Settle(next, locations, K, slot, "None")
      /\ evicted' = evicted
  BY DEF SpillSelf
<1>2. /\ PlacedSoFar /\ next_slot \in Nat
      /\ Ledger(K, CallerStack(next), CalleeStack(next), SlotStack(next))
  BY TurnStart
<1>3. /\ Scan!AllocSlot(next, slot)
      /\ slot \in Scan!FreeSlots(next) \cup {Scan!Spill(next_slot)}
  BY <1>1, SlotImplements
<1>4. /\ slot \in Scan!Location /\ slot \in Scan!Slots /\ slot \notin HeldFrom(K, "None")
  BY <1>1, <1>2, SlotPopped
<1>5. Scan!Usable(next) \subseteq Scan!Held(next) /\ Scan!Victims(next) = {}
  BY <1>1, NoneFree, VictimsAre
<1>6. Scan!Live(next) = {e.vreg : e \in ToSet(K)}
  BY ExpiryImplements
<1>7. InOrder(K) /\ Truthful(K)
  BY KeptIs
<1>8. locations \in Seq(Scan!Location) /\ Len(locations) = next - 1
  BY <1>2 DEF PlacedSoFar
<1> HIDE DEF slot, K
<1>9. \A e \in ToSet(K) : e.location # slot
  <2> SUFFICES ASSUME NEW e \in ToSet(K), e.location = slot PROVE FALSE
    OBVIOUS
  <2>1. e.pool \in Pools /\ e.location \in All(e.pool)
    BY <1>2, EntriesPooled
  <2>2. slot \notin Scan!CallerRegs /\ slot \notin Scan!CalleeRegs
    BY <1>4, PoolsAre
  <2>3. e.pool = "None"
    BY <2>1, <2>2 DEF All, Pools
  <2> QED
    BY <1>4, <2>3 DEF HeldFrom
<1>10. \A e \in ToSet(K) : /\ e.vreg \in 1 .. next - 1
                           /\ e.end = intervals[e.vreg].end
                           /\ locations[e.vreg] = e.location
  BY <1>7 DEF Truthful
<1>11. "None" \in Pools
  BY DEF Pools
<1>12a. Shown(K, locations, slot)
  BY <1>1, <1>2, <1>4, <1>7, <1>8, <1>9, <1>10, <1>11, SettleShows
<1>12. /\ {e.vreg : e \in ToSet(active')} = {e.vreg : e \in ToSet(K)} \cup {next}
       /\ locations' = [j \in 1 .. next |-> IF j = next THEN slot ELSE locations[j]]
  BY <1>12a DEF Shown
<1>13. Scan!SpillSelf(next, slot)
  BY <1>1, <1>3, <1>5, <1>6, <1>12 DEF Scan!SpillSelf
<1>14. \E s \in Scan!FreeSlots(next) \cup {Scan!Spill(next_slot)} : Scan!SpillSelf(next, s)
  BY <1>3, <1>13 DEF Scan!SpillSelf, Scan!AllocSlot
<1> QED
  BY <1>14, Zenon DEF Scan!Place

(* One turn of the loop is one step of LinearScan. *)
LEMMA StepImplements == IInv /\ [Next]_vars => [Scan!Next]_(Scan!vars)
<1> SUFFICES ASSUME IInv, [Next]_vars PROVE [Scan!Next]_(Scan!vars)
  OBVIOUS
<1>1. ASSUME PlaceNext PROVE Scan!Next
  <2>1. /\ next <= Len(intervals) /\ next' = next + 1 /\ intervals' = intervals
    BY <1>1 DEF PlaceNext
  <2>2. /\ Pooled(CallerStack(next), Kept(next), "CallerSaved", All("CallerSaved"))
        /\ Pooled(CalleeStack(next), Kept(next), "CalleeSaved", All("CalleeSaved"))
        /\ All("CallerSaved") = Scan!CallerRegs /\ All("CalleeSaved") = Scan!CalleeRegs
    BY <2>1, TurnStart DEF All
  <2>3. All("CalleeSaved") \subseteq Scan!Usable(next)
    BY <2>2, PoolsAre DEF Scan!Usable
  <2>4. ~intervals[next].crosses_call => All("CallerSaved") \subseteq Scan!Usable(next)
    BY <2>2, PoolsAre DEF Scan!Usable
  <2>5. ASSUME TakeCallerSaved(next) PROVE Scan!Place(next)
    <3>1. /\ ~intervals[next].crosses_call /\ CallerStack(next) # << >>
          /\ Settle(next, locations, Kept(next), Last(CallerStack(next)), "CallerSaved")
          /\ free_slots' = SlotStack(next) /\ UNCHANGED <<next_slot, evicted>>
      BY <2>5 DEF TakeCallerSaved
    <3>2. \E r \in Scan!Registers : Scan!Take(next, r)
      BY <2>1, <2>2, <2>4, <3>1, TakeImplements
    <3> QED
      BY <3>2 DEF Scan!Place
  <2>6. ASSUME TakeCalleeSaved(next) PROVE Scan!Place(next)
    <3>1. /\ CalleeStack(next) # << >>
          /\ Settle(next, locations, Kept(next), Last(CalleeStack(next)), "CalleeSaved")
          /\ free_slots' = SlotStack(next) /\ UNCHANGED <<next_slot, evicted>>
      BY <2>6 DEF TakeCalleeSaved
    <3>2. \E r \in Scan!Registers : Scan!Take(next, r)
      BY <2>1, <2>2, <2>3, <3>1, TakeImplements
    <3> QED
      BY <3>2 DEF Scan!Place
  <2>7. Scan!Place(next)
    BY <1>1, <2>1, <2>5, <2>6, StealImplements, SpillSelfImplements DEF PlaceNext
  <2> QED
    BY <2>1, <2>7 DEF Scan!Next, Scan!PlaceNext
<1>2. ASSUME UNCHANGED vars PROVE UNCHANGED Scan!vars
  BY <1>2 DEF vars, Scan!vars
<1>3. ASSUME Returned PROVE UNCHANGED Scan!vars
  BY <1>2, <1>3 DEF Returned
<1> QED
  BY <1>1, <1>2, <1>3 DEF Next

(* The stacks, the sorted list and the order in which registers are tried    *)
(* only settle what LinearScan leaves open.                                 *)
THEOREM Implements == Spec => ImplementsLinearScan
<1>1. Init => Scan!Init
  <2> SUFFICES ASSUME Init PROVE Scan!Init
    OBVIOUS
  <2>1. ToSet(active) = {} /\ ToSet(free_slots) = {}
    BY DEF Init, InitScan, ToSet
  <2> QED
    BY <2>1 DEF Init, InitScan, Scan!Init
<1> QED
  BY <1>1, StepImplements, Invariance, PTL DEF Spec, ImplementsLinearScan, Scan!Spec

-----------------------------------------------------------------------------
(* What is proved of LinearScan, read of the lists and stacks. *)
Promised == INSTANCE LinearScanProofs WITH
                CallerSaved <- ToSet(CallerSavedList),
                CalleeSaved <- ToSet(CalleeSavedList),
                active <- {entry.vreg : entry \in ToSet(active)},
                free_slots <- ToSet(free_slots)

(* The two instances say the same. *)
LEMMA SameScan ==
  /\ Scan!Spec <=> Promised!Spec
  /\ Scan!RegistersNotShared <=> Promised!RegistersNotShared
  /\ Scan!CallSafe <=> Promised!CallSafe
  /\ Scan!NeededApart <=> Promised!NeededApart
  /\ Scan!OnlyEvictionShares <=> Promised!OnlyEvictionShares
<1> USE DEF Scan!CallerRegs, Promised!CallerRegs, Scan!CalleeRegs, Promised!CalleeRegs,
            Scan!Registers, Promised!Registers, Scan!Slots, Promised!Slots,
            Scan!Placed, Promised!Placed, Scan!Overlap, Promised!Overlap
<1>1. Scan!Spec <=> Promised!Spec
  BY DEF Scan!Spec, Promised!Spec, Scan!vars, Promised!vars, Scan!Init, Promised!Init,
         Scan!Next, Promised!Next, Scan!PlaceNext, Promised!PlaceNext,
         Scan!Returned, Promised!Returned, Scan!Place, Promised!Place,
         Scan!Take, Promised!Take, Scan!Steal, Promised!Steal,
         Scan!SpillSelf, Promised!SpillSelf, Scan!AllocSlot, Promised!AllocSlot,
         Scan!Spill, Promised!Spill, Scan!FreeSlots, Promised!FreeSlots,
         Scan!Live, Promised!Live, Scan!Expired, Promised!Expired,
         Scan!Held, Promised!Held, Scan!Usable, Promised!Usable,
         Scan!Stealable, Promised!Stealable, Scan!Victims, Promised!Victims
<1>2. Scan!RegistersNotShared <=> Promised!RegistersNotShared
  BY DEF Scan!RegistersNotShared, Promised!RegistersNotShared
<1>3. Scan!CallSafe <=> Promised!CallSafe
  BY DEF Scan!CallSafe, Promised!CallSafe
<1>4. Scan!NeededApart <=> Promised!NeededApart
  BY DEF Scan!NeededApart, Promised!NeededApart
<1>5. Scan!OnlyEvictionShares <=> Promised!OnlyEvictionShares
  BY DEF Scan!OnlyEvictionShares, Promised!OnlyEvictionShares
<1> QED
  BY <1>1, <1>2, <1>3, <1>4, <1>5

(* LinearScan's assumptions hold of the lists of this module. *)
LEMMA PromiseApplies ==
  /\ ToSet(CallerSavedList) \cap ToSet(CalleeSavedList) = {}
  /\ \A list \in IntervalLists : Promised!Sorted(list)
<1>1. \A list \in IntervalLists : Promised!Sorted(list)
  BY ListsSorted DEF Promised!Sorted, Scan!Sorted, Promised!Interval, Scan!Interval
<1> QED
  BY <1>1, RegisterFile

(* The allocation the stacks and the sorted list arrive at is as safe as any *)
(* LinearScan allows: values needed together never share a register, none   *)
(* that lives across a call sits where the call would destroy it, what is   *)
(* needed from here on has a place of its own, and only an eviction shares. *)
THEOREM AllocationSafe ==
  Spec => []( /\ Scan!RegistersNotShared /\ Scan!CallSafe
              /\ Scan!NeededApart /\ Scan!OnlyEvictionShares)
<1>1. Promised!Spec => []Promised!RegistersNotShared
  BY PromiseApplies, Promised!RegistersExclusive
<1>2. Promised!Spec => []Promised!CallSafe
  BY PromiseApplies, Promised!CallsDestroyNothing
<1>3. Promised!Spec => []Promised!NeededApart
  BY PromiseApplies, Promised!NeededValuesApart
<1>4. Promised!Spec => []Promised!OnlyEvictionShares
  BY PromiseApplies, Promised!SharingNeedsEviction
<1>5. Spec => Promised!Spec
  BY Implements, SameScan DEF ImplementsLinearScan
<1> QED
  BY <1>1, <1>2, <1>3, <1>4, <1>5, SameScan, PTL
=============================================================================
