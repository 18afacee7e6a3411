------------------------------ MODULE Liveness ------------------------------
(***************************************************************************)
(* `liveness` of src/src/ir/liveness.rs: backward dataflow over the blocks *)
(* of one function.  Both sets accumulate in place; a sweep visits the     *)
(* blocks from the last to the first and the loop ends with the first      *)
(* sweep that adds nothing.                                                *)
(***************************************************************************)
EXTENDS Cfg

CONSTANT Functions   \* the functions the analysis may be asked about

ASSUME FunctionsAreGraphs == \A f \in Functions : IsGraph(f)

VARIABLES
    func,       \* the function analysed
    live_in,    \* per block, the registers live at its top
    live_out,   \* per block, the registers live at its bottom
    b,          \* the block the sweep visits next; 0 when it is over
    changed     \* whether this sweep has added anything

vars == <<func, live_in, live_out, b, changed>>

Blocks == DOMAIN func

Init ==
    /\ func \in Functions
    /\ live_in = [c \in Blocks |-> UpwardExposed(func[c])]
    /\ live_out = [c \in Blocks |-> {}]
    /\ b = Len(func)
    /\ changed = FALSE

(* Mutant: a branch is followed one way only. *)
LeavingOneWay(c) ==
    live_out[c] \cup (IF func[c].succ = {} THEN {} ELSE live_in[CHOOSE s \in func[c].succ : TRUE])
Leaving(c) == live_out[c] \cup UNION {live_in[s] : s \in func[c].succ}
Entering(c) == live_in[c] \cup (Leaving(c) \ Written(func[c]))

(* Mutant: only the block visited last decides whether there is another sweep. *)
VisitBlockForgetful ==
    /\ b > 0
    /\ live_out' = [live_out EXCEPT ![b] = Leaving(b)]
    /\ live_in' = [live_in EXCEPT ![b] = Entering(b)]
    /\ changed' = (Leaving(b) # live_out[b] \/ Entering(b) # live_in[b])
    /\ b' = b - 1
    /\ UNCHANGED func

VisitBlock ==
    /\ b > 0
    /\ live_out' = [live_out EXCEPT ![b] = Leaving(b)]
    /\ live_in' = [live_in EXCEPT ![b] = Entering(b)]
    /\ changed' = (changed \/ Leaving(b) # live_out[b] \/ Entering(b) # live_in[b])
    /\ b' = b - 1
    /\ UNCHANGED func

(* Mutant: `changed` is not reset. *)
NextSweepNoReset ==
    /\ b = 0
    /\ changed
    /\ b' = Len(func)
    /\ UNCHANGED <<func, live_in, live_out, changed>>

NextSweep ==
    /\ b = 0
    /\ changed
    /\ b' = Len(func)
    /\ changed' = FALSE
    /\ UNCHANGED <<func, live_in, live_out>>

Done == b = 0 /\ ~changed

Returned == Done /\ UNCHANGED vars

Next == VisitBlock \/ NextSweep \/ Returned

(* The loop is a plain `while`: nothing else can hold it up. *)
Spec == Init /\ [][Next]_vars /\ WF_vars(VisitBlock \/ NextSweep)

-----------------------------------------------------------------------------
(* The dataflow equations the module's comment promises, for one block. *)
Equations(c) ==
    /\ live_out[c] = UNION {live_in[s] : s \in func[c].succ}
    /\ live_in[c] = UpwardExposed(func[c]) \cup (live_out[c] \ Written(func[c]))

(* The sets hold registers of the function and the sweep stays within it.  *)
TypeOK ==
    /\ live_in \in [Blocks -> SUBSET VRegs(func)]
    /\ live_out \in [Blocks -> SUBSET VRegs(func)]
    /\ b \in 0 .. Len(func)
    /\ changed \in BOOLEAN

(* While it runs the analysis never calls a register live that no path      *)
(* reads: accumulating in place does not overshoot the least solution.      *)
NeverTooMuch ==
    /\ \A c \in Blocks : live_in[c] \subseteq LiveIn(func)[c]
    /\ \A c \in Blocks : live_out[c] \subseteq LiveOut(func)[c]

(* The sweep that adds nothing is the last one, and then every register     *)
(* that some path reads is accounted for, around any back edge.             *)
DoneIsExact == Done => live_in = LiveIn(func) /\ live_out = LiveOut(func)

(* A sweep in which nothing has changed so far has left only solved blocks  *)
(* behind it: a change seen late in the function cannot be missed.          *)
QuietSweepSolved == ~changed => \A c \in Blocks : c > b => Equations(c)

(* Every step stays between the least solution and what the blocks already    *)
(* visited ask for.                                                          *)
NeverAstray == TypeOK /\ NeverTooMuch /\ QuietSweepSolved

(* The loop ends. *)
Terminates == <>Done
=============================================================================
