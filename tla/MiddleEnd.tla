----------------------------- MODULE MiddleEnd -----------------------------
(***************************************************************************)
(* A function on its way from lowering to the allocator: into SSA form,    *)
(* through the optimiser's loop, and out (src/src/lib.rs, compile_with;    *)
(* src/src/opt/mod.rs).  At any stage it may be run next to the function   *)
(* it was made from, from one thing that is seen of them to the next.      *)
(***************************************************************************)
EXTENDS Optimiser

CONSTANTS
    Functions,  \* what lowering may produce
    Answers     \* what a call may answer, and an argument be

VARIABLES
    source,     \* the function as lowered
    made,       \* what has become of it
    optimise,   \* the option
    stage,      \* "lowered", "ssa", "optimised", "destructed"
    pass,       \* the pass whose turn it is
    changed,    \* has one changed anything, this time round
    began,      \* history: the size of what this round began with
    here, there \* while the two run, where source and made are; else << >>

vars == <<source, made, optimise, stage, pass, changed, began, here, there>>

Passes == <<"sccp", "copies", "gvn", "dce">>
Running == here # << >>

(* Everything a pass may take away. *)
Size(f) ==
    LET params == FlattenSeq([b \in Blocks(f) |-> f.blocks[b].params])
        instrs == FlattenSeq([b \in Blocks(f) |-> f.blocks[b].instrs])
        operands == FlattenSeq([k \in DOMAIN instrs |-> SelectSeq(instrs[k].args, IsReg)])
    IN  Len(f.blocks) + Len(params) + Len(instrs) + Len(operands)

Init ==
    /\ source \in Functions
    /\ made = source
    /\ optimise \in BOOLEAN
    /\ stage = "lowered"
    /\ pass = 1
    /\ changed = FALSE
    /\ began = 0
    /\ here = << >>
    /\ there = << >>

Construct ==
    /\ stage = "lowered"
    /\ made' = Constructed(made)
    /\ stage' = IF optimise THEN "ssa" ELSE "optimised"
    /\ began' = Size(made')
    /\ UNCHANGED <<pass, changed>>

(* `optimise_function`: all four, until none of them changes anything. *)
NextPass ==
    LET any == changed \/ made' # made
    IN  IF pass < Len(Passes)
        THEN pass' = pass + 1 /\ changed' = any /\ UNCHANGED <<stage, began>>
        ELSE pass' = 1 /\ changed' = FALSE /\ stage' = (IF any THEN "ssa" ELSE "optimised") /\ began' = Size(made')

Turn(name) == stage = "ssa" /\ Passes[pass] = name
Sccp == Turn("sccp") /\ made' = SccpPropagated(made) /\ NextPass
Copies == Turn("copies") /\ made' = CopiesPropagated(made) /\ NextPass
Gvn == Turn("gvn") /\ made' = GvnEliminated(made) /\ NextPass
Dce == Turn("dce") /\ made' = DceEliminated(made) /\ NextPass

Destruct ==
    /\ stage = "optimised"
    /\ made' = Destructed(made)
    /\ stage' = "destructed"
    /\ UNCHANGED <<pass, changed, began>>

Compile ==
    /\ ~Running
    /\ Construct \/ Sccp \/ Copies \/ Gvn \/ Dce \/ Destruct
    /\ UNCHANGED <<source, optimise, here, there>>

Run ==
    /\ ~Running
    /\ stage # "lowered"
    /\ \E argument \in Answers :
          /\ here' = Begun(source, argument)
          /\ there' = Begun(made, argument)
    /\ UNCHANGED <<source, made, optimise, stage, pass, changed, began>>

Watch ==
    /\ Running
    /\ LET s == SeenNext(source, here)
           m == SeenNext(made, there)
       IN  /\ s.kind \in {"call", "print"}
           /\ \E answer \in IF s.kind = "call" THEN Answers ELSE {0} :
                 /\ here' = Answered(source, s.then, answer)
                 /\ there' = Answered(made, m.then, answer)
    /\ UNCHANGED <<source, made, optimise, stage, pass, changed, began>>

Over ==
    /\ Running
    /\ SeenNext(source, here).kind \notin {"call", "print"}
    /\ UNCHANGED vars

Next == Compile \/ Run \/ Watch \/ Over

Spec == Init /\ [][Next]_vars

-----------------------------------------------------------------------------
(* src/src/opt/mod.rs, "The one rule": what a program does, where it stops   *)
(* included, is what it would have done as lowered, after every pass and     *)
(* with its parameters turned into copies and its copies coalesced.         *)
SameRun ==
    Running =>
        LET s == SeenNext(source, here)
            m == SeenNext(made, there)
        IN  s.kind = m.kind /\ s.what = m.what

(* Between construct and destruct each register is written once, and every   *)
(* read is dominated by what it reads; each edge hands as many arguments as  *)
(* its block takes.                                                         *)
StaysSsa == stage \in {"ssa", "optimised"} => IsSsa(made)

(* Dominators::of finds the nearest block everyone has to go through, each   *)
(* time it is asked: of the graph as lowered, and of what branches decided  *)
(* and blocks dropped by the passes have left of it when gvn walks it.      *)
DominatorsAreNearest ==
    stage = "lowered" \/ Turn("gvn") =>
        LET idom == Idom(made)
        IN  \A b \in Blocks(made) \ {1} :
              /\ idom[b] # b /\ Dominates(made, idom[b], b)
              /\ \A d \in Blocks(made) \ {b} :
                    Dominates(made, d, b) => Dominates(made, d, idom[b])

(* "The loop runs out of work rather than needing a limit to stop it": a      *)
(* round that is followed by another has taken something away for good, an  *)
(* operand that was a register, a parameter, an instruction or a block.     *)
P_RoundsRemove ==
    [][stage = "ssa" /\ pass = Len(Passes) /\ stage' = "ssa" /\ pass' = 1 => Size(made') < began]_vars
=============================================================================
