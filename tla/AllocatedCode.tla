--------------------------- MODULE AllocatedCode ---------------------------
(***************************************************************************)
(* A function is allocated (Cfg, LiveIntervals, RegAlloc) and then run on  *)
(* a machine that has only the locations the allocator handed out.  The    *)
(* machine remembers, for each location, which virtual register was last   *)
(* written there; a call forgets what sits in a caller-saved register, as  *)
(* the callee is free to use it (src/src/codegen/x64/func.rs emits each    *)
(* operand of an instruction as a read of its location, then the result as *)
(* a write of its own).                                                    *)
(***************************************************************************)
EXTENDS RegAlloc, LiveIntervals

CONSTANT Functions

(* No path reads what it has not written, and no interval starts before its *)
(* register is written: live_intervals calls its order one of definition.   *)
ASSUME FunctionsAreCode ==
    \A f \in Functions : IsCode(f) /\ NothingReadUnwritten(f) /\ DefinedFirst(f)

VARIABLES
    func,       \* the function being compiled and run
    live_in, live_out,  \* what Liveness answers for it (DoneIsExact)
    ranges,     \* virtual register -> its live interval
    order,      \* the virtual registers in the order of their intervals
    at,         \* the next instruction: block and position, <<0, 0>> before the run
    holds       \* location -> the virtual register whose value is there, 0 for junk

compiled == <<func, live_in, live_out, ranges, order>>
runVars == <<compiled, at, holds>>
allVars == <<vars, runVars>>

Loc(v) == locations[CHOOSE i \in DOMAIN order : order[i] = v]
Here == func[at[1]]
AtTerminator == at[2] > Len(Here.instrs)
ReadHere == IF AtTerminator THEN Here.uses ELSE Read(Here, at[2])

Allocated == next > Len(intervals)
Running == at # <<0, 0>>

CompileInit ==
    /\ func \in Functions
    /\ live_in = LiveIn(func)
    /\ live_out = [c \in DOMAIN func |-> UNION {live_in[s] : s \in func[c].succ}]
    /\ ranges = Ranges(func, live_in, live_out)
    /\ order = Order(ranges)
    /\ intervals = [i \in DOMAIN order |-> ranges[order[i]]]
    /\ InitScan
    /\ at = <<0, 0>>
    /\ holds = << >>

Allocate == PlaceNext /\ UNCHANGED runVars

Enter ==
    /\ Allocated
    /\ ~Running
    /\ at' = <<1, 1>>
    /\ holds' = [l \in ToSet(locations) |-> 0]
    /\ UNCHANGED <<vars, compiled>>

(* Operands are read, a call destroys the caller-saved registers, and the   *)
(* result is written, in that order.                                        *)
Execute ==
    /\ Running
    /\ ~AtTerminator
    /\ LET instr == Here.instrs[at[2]]
           survives(l) == ~instr.call \/ l \notin ToSet(RegsOf(CallerSavedList))
           after == [l \in DOMAIN holds |-> IF survives(l) THEN holds[l] ELSE 0]
       IN  holds' = IF instr.def = 0 THEN after ELSE [after EXCEPT ![Loc(instr.def)] = instr.def]
    /\ at' = <<at[1], at[2] + 1>>
    /\ UNCHANGED <<vars, compiled>>

Jump ==
    /\ Running
    /\ AtTerminator
    /\ \E s \in Here.succ : at' = <<s, 1>>
    /\ UNCHANGED <<vars, compiled, holds>>

ReturnFromFunction ==
    /\ Running
    /\ AtTerminator
    /\ Here.succ = {}
    /\ UNCHANGED allVars

RunNext == Allocate \/ Enter \/ Execute \/ Jump \/ ReturnFromFunction

RunSpec == CompileInit /\ [][RunNext]_allVars

-----------------------------------------------------------------------------
(* Read at position k of block c or later, before it is written again. *)
LiveAt(c, k) ==
    {v \in VRegs(func) :
        \/ \E j \in Positions(func[c]) :
              /\ k <= j /\ v \in Read(func[c], j)
              /\ \A i \in k .. j - 1 : Wrote(func[c], i) # v
        \/ /\ v \in func[c].uses \cup live_out[c]
           /\ \A i \in k .. Len(func[c].instrs) : Wrote(func[c], i) # v}

(* What must be in place at a point of the run: at the top of a block that   *)
(* is what the analysis says.                                               *)
Needed(c, k) == LiveAt(c, k) \cup (IF k = 1 THEN live_in[c] ELSE {})

(* An operand finds its own value in its location, on every path through    *)
(* the function, whenever the allocation is one `verify` accepts.  This is  *)
(* what intervals, touching and the callee-saved rule are for: no step of   *)
(* any other value, no call and no back edge has come between.              *)
OperandsSurvive ==
    Running /\ Verified => \A v \in ReadHere : holds[Loc(v)] = v

(* The same, between any two instructions, for every value that some path   *)
(* from here still reads, now or later, in this block or in another: what   *)
(* intervals that are too short lose long before it is missed.              *)
LiveValuesSurvive ==
    Running /\ Verified => \A v \in Needed(at[1], at[2]) : holds[Loc(v)] = v

(* Allocation and run together, without leaning on `verify`: as long as     *)
(* nothing was evicted into a recycled slot, nothing is ever lost.          *)
UnevictedSurvive ==
    Running /\ evicted = {} => \A v \in ReadHere : holds[Loc(v)] = v
=============================================================================
