--------------------------- MODULE LiveIntervals ---------------------------
(***************************************************************************)
(* `live_intervals` of src/src/codegen/regalloc.rs: the flat layout of a   *)
(* function and one contiguous interval per virtual register, in order of  *)
(* definition.                                                             *)
(***************************************************************************)
EXTENDS Cfg, FiniteSets, SequencesExt, FiniteSetsExt

(* `Layout::new`: the blocks laid out one after the other, each followed by *)
(* its terminator.                                                          *)
LaidOut(f) ==
    LET after[d \in 0 .. Len(f)] ==
            IF d = 0 THEN 0 ELSE after[d - 1] + Len(f[d].instrs) + 1
    IN  after
LayoutStart(f, c) == LaidOut(f)[c - 1]
LayoutEnd(f, c) == LayoutStart(f, c) + Len(f[c].instrs)
At(f, c, k) == LayoutStart(f, c) + k - 1
CallSites(f) ==
    UNION {{At(f, c, k) : k \in {j \in Positions(f[c]) : f[c].instrs[j].call}} : c \in DOMAIN f}

(* Mutant: liveness does not extend an interval. *)
ExtentOfMentions(f, live_in, live_out, v) ==
    LET mentions(c) == {k \in Positions(f[c]) : v \in Read(f[c], k) \/ v = Wrote(f[c], k)}
    IN  {LayoutEnd(f, c) : c \in {d \in DOMAIN f : v \in f[d].uses}} \cup
        UNION {{At(f, c, k) : k \in mentions(c)} : c \in DOMAIN f}

(* Every index the interval of v is extended to. *)
Extent(f, live_in, live_out, v) ==
    LET mentions(c) == {k \in Positions(f[c]) : v \in Read(f[c], k) \/ v = Wrote(f[c], k)}
    IN  {LayoutStart(f, c) : c \in {d \in DOMAIN f : v \in live_in[d]}} \cup
        {LayoutEnd(f, c) : c \in {d \in DOMAIN f : v \in live_out[d] \/ v \in f[d].uses}} \cup
        UNION {{At(f, c, k) : k \in mentions(c)} : c \in DOMAIN f}

(* Mutant: a call just before the last use is missed. *)
CrossesCallEarly(f, start, end) == \E call \in CallSites(f) : start < call /\ call < end - 1

(* A value used by a call does not survive it: only a call strictly inside  *)
(* the interval is crossed.                                                 *)
CrossesCall(f, start, end) == \E call \in CallSites(f) : start < call /\ call < end

(* The interval of every virtual register the function mentions. *)
Ranges(f, live_in, live_out) ==
    [v \in VRegs(f) |->
        LET start == Min(Extent(f, live_in, live_out, v))
            end == Max(Extent(f, live_in, live_out, v))
        IN  [start |-> start, end |-> end, crosses_call |-> CrossesCall(f, start, end)]]

(* The virtual registers in the order their intervals are sorted in. *)
Order(ranges) ==
    LET before(v, w) == \/ ranges[v].start < ranges[w].start
                        \/ ranges[v].start = ranges[w].start /\ v < w
        place(v) == Cardinality({w \in DOMAIN ranges : before(w, v)}) + 1
    IN  [i \in 1 .. Cardinality(DOMAIN ranges) |->
            CHOOSE v \in DOMAIN ranges : place(v) = i]

-----------------------------------------------------------------------------
(* What the code generator is handed: blocks without parameters, whose        *)
(* instructions name registers.                                             *)
Instruction == [def : Nat, uses : SUBSET (Nat \ {0}), call : BOOLEAN]
IsCode(f) ==
    /\ IsGraph(f) /\ Len(f) > 0
    /\ \A c \in DOMAIN f : /\ f[c].params = {}
                           /\ f[c].instrs \in Seq(Instruction)
                           /\ f[c].uses \subseteq Nat \ {0}
    /\ IsFiniteSet(VRegs(f))

(* What the touching rule of the allocator rests on: in the flat layout the *)
(* interval of every register starts where the register is written.         *)
DefinedFirst(f) ==
    LET in == LiveIn(f)
        out == [c \in DOMAIN f |-> UNION {in[s] : s \in f[c].succ}]
    IN  \A v \in VRegs(f) :
            \E c \in DOMAIN f : \E k \in Positions(f[c]) :
                /\ Wrote(f[c], k) = v
                /\ \A x \in Extent(f, in, out, v) : At(f, c, k) <= x

(* Nothing is read that no path has written: nothing is live at the top. *)
NothingReadUnwritten(f) == LiveIn(f)[1] = {}
=============================================================================
