--------------------------------- MODULE Ir ---------------------------------
(***************************************************************************)
(* Functions of the compiler's intermediate representation, with block     *)
(* parameters (src/src/ir/block.rs, instr.rs, value.rs), and what running  *)
(* one shows from outside.                                                 *)
(*                                                                         *)
(* Of the instruction set these are kept, one for each way the passes tell *)
(* instructions apart:                                                     *)
(*   const n, copy v                                                       *)
(*   add l r      can fail: the sum must fit                               *)
(*   cmp l r      equality, cannot fail                                    *)
(*   elem i l     the place of element i of l, checked unless i and l are  *)
(*                both constants                                           *)
(*   load         memory, one cell of it                                   *)
(*   store v      the same, written                                        *)
(*   param        the function's argument                                  *)
(*   call vs      with an answer, which it also leaves in memory           *)
(*   print v                                                               *)
(***************************************************************************)
EXTENDS Integers, Sequences, SequencesExt, FiniteSets, TLC

CONSTANTS
    MaxInt,     \* the largest integer
    MaxSteps    \* instructions run in search of something to be seen

ASSUME IrAssumption == MaxInt \in Nat /\ MaxSteps \in Nat \ {0}

Reg(r) == [kind |-> "reg", n |-> r]
Const(c) == [kind |-> "const", n |-> c]
IsReg(v) == v.kind = "reg"

(* dst is 0 for an instruction that defines nothing. *)
Instr(op, dst, args, n) == [op |-> op, dst |-> dst, args |-> args, n |-> n]

(* Blocks are numbered from 1, the entry; a target hands its block one      *)
(* argument for each parameter.  `on` is a branch's condition, which takes  *)
(* the first target unless it is 0, or what is returned.                    *)
To(b) == [block |-> b, args |-> << >>]
Jump(t) == [kind |-> "jump", on |-> << >>, targets |-> <<t>>]
Branch(cond, t, e) == [kind |-> "branch", on |-> <<cond>>, targets |-> <<t, e>>]
Return(vs) == [kind |-> "return", on |-> vs, targets |-> << >>]
Block(params, instrs, term) == [params |-> params, instrs |-> instrs, term |-> term]

(* `count` is how many virtual registers there are. *)
Function(blocks, count) == [blocks |-> blocks, count |-> count]
Blocks(f) == DOMAIN f.blocks
Terminator(f, b) == f.blocks[b].term
Successors(f, b) == [k \in DOMAIN Terminator(f, b).targets |-> Terminator(f, b).targets[k].block]
Exits(f) == UNION {{b} \X DOMAIN Terminator(f, b).targets : b \in Blocks(f)}
TargetAt(f, e) == Terminator(f, e[1]).targets[e[2]]
ExitsTo(f, b) == {e \in Exits(f) : TargetAt(f, e).block = b}

-----------------------------------------------------------------------------
(* What is read, written and replaced. *)
RegsIn(vs) == {v.n : v \in {w \in ToSet(vs) : IsReg(w)}}
ArgsRead(t) == UNION {RegsIn(t.targets[k].args) : k \in DOMAIN t.targets}
TermReads(t) == RegsIn(t.on) \cup ArgsRead(t)

CanFail(i) ==
    \/ i.op = "add"
    \/ i.op = "elem" /\ RegsIn(i.args) # {}

Each(vs, Sub(_)) == [k \in DOMAIN vs |-> Sub(vs[k])]
InstrWith(i, Sub(_)) == [i EXCEPT !.args = Each(@, Sub)]
TermWith(t, Sub(_)) ==
    [t EXCEPT !.on = Each(@, Sub),
              !.targets = [k \in DOMAIN @ |-> [@[k] EXCEPT !.args = Each(@, Sub)]]]
BlockWith(block, Sub(_)) ==
    [block EXCEPT !.instrs = [k \in DOMAIN @ |-> InstrWith(@[k], Sub)], !.term = TermWith(@, Sub)]
FunctionWith(f, Sub(_)) == [f EXCEPT !.blocks = [b \in DOMAIN @ |-> BlockWith(@[b], Sub)]]

(* Parameters of block b at the positions in `gone` go, and what every edge  *)
(* hands them.                                                              *)
Kept(seq, gone) == [k \in 1 .. Len(seq) - Cardinality(gone) |->
    seq[CHOOSE p \in DOMAIN seq \ gone : Cardinality({q \in 1 .. p : q \notin gone}) = k]]
WithoutParams(f, gone) ==
    [f EXCEPT !.blocks = [b \in DOMAIN @ |->
        [@[b] EXCEPT !.params = Kept(@, gone[b]),
                     !.term.targets = [k \in DOMAIN @ |->
                         [@[k] EXCEPT !.args = Kept(@, gone[f.blocks[b].term.targets[k].block])]]]]]

-----------------------------------------------------------------------------
(* `liveness`, for functions without parameters: the least solution, which   *)
(* is what module Liveness arrives at.                                      *)
Defines(block) == {i.dst : i \in ToSet(block.instrs)} \ {0}
Exposed(block) ==
    UNION {RegsIn(block.instrs[k].args) \ {block.instrs[j].dst : j \in 1 .. k - 1} : k \in DOMAIN block.instrs}
        \cup (TermReads(block.term) \ Defines(block))

RECURSIVE LiveFrom(_, _)
LiveFrom(f, in) ==
    LET next == [b \in Blocks(f) |->
                    Exposed(f.blocks[b]) \cup
                    (UNION {in[s] : s \in ToSet(Successors(f, b))} \ Defines(f.blocks[b]))]
    IN  IF next = in THEN in ELSE LiveFrom(f, next)
LiveIn(f) == LiveFrom(f, [b \in Blocks(f) |-> {}])

(* The blocks there is a way to from those in S, without going through a. *)
RECURSIVE Reach(_, _, _)
Reach(f, S, a) ==
    LET next == (S \cup UNION {ToSet(Successors(f, b)) : b \in S}) \ {a}
    IN  IF next = S THEN S ELSE Reach(f, next, a)
Reachable(f) == Reach(f, {1}, 0)

(* `prune_unreachable`. *)
Prune(f) ==
    LET kept == Reachable(f)
        new(b) == Cardinality({c \in kept : c <= b})
        old(n) == CHOOSE b \in kept : new(b) = n
        moved(t) == [t EXCEPT !.targets = [k \in DOMAIN @ |-> [@[k] EXCEPT !.block = new(@)]]]
    IN  [f EXCEPT !.blocks =
            [n \in 1 .. Cardinality(kept) |-> [f.blocks[old(n)] EXCEPT !.term = moved(@)]]]

-----------------------------------------------------------------------------
(* Running a function: where it is, and what registers and memory hold. *)
Begun(f, argument) ==
    [at |-> 1, pc |-> 1, regs |-> [r \in 1 .. f.count |-> 0], mem |-> 0, argument |-> argument]

Meant(s, v) == IF IsReg(v) THEN s.regs[v.n] ELSE v.n
Means(s, vs) == [k \in DOMAIN vs |-> Meant(s, vs[k])]

Stops(i, vals) ==
    \/ i.op = "add" /\ vals[1] + vals[2] > MaxInt
    \/ i.op = "elem" /\ CanFail(i) /\ vals[1] \notin 0 .. vals[2] - 1

Produced(i, vals, s) ==
    CASE i.op = "const" -> i.n
      [] i.op \in {"copy", "elem"} -> vals[1]
      [] i.op = "add" -> vals[1] + vals[2]
      [] i.op = "cmp" -> IF vals[1] = vals[2] THEN 1 ELSE 0
      [] i.op = "load" -> s.mem
      [] i.op = "param" -> s.argument

Executed(i, vals, s) ==
    IF i.op = "store" THEN [s EXCEPT !.mem = vals[1], !.pc = @ + 1]
    ELSE [s EXCEPT !.regs[i.dst] = Produced(i, vals, s), !.pc = @ + 1]

(* All the parameters are written at once. *)
Arrived(f, s, target) ==
    LET params == f.blocks[target.block].params
        vals == Means(s, target.args)
        position(r) == CHOOSE k \in DOMAIN params : params[k] = r
    IN  [s EXCEPT !.at = target.block, !.pc = 1,
                  !.regs = [r \in DOMAIN @ |-> IF r \in ToSet(params) THEN vals[position(r)] ELSE @[r]]]

Taken(s, t) == IF t.kind = "branch" /\ Meant(s, t.on[1]) = 0 THEN t.targets[2] ELSE t.targets[1]

(* What is seen next of a function that runs: a call or a print, where it    *)
(* stops or returns; or nothing for MaxSteps instructions.                  *)
RECURSIVE Seen(_, _, _)
Seen(f, s, steps) ==
    LET block == f.blocks[s.at]
        i == block.instrs[s.pc]
        vals == Means(s, i.args)
        saw(kind, what) == [kind |-> kind, what |-> what, then |-> s]
    IN  IF steps = 0 THEN saw("nothing", << >>)
        ELSE IF s.pc <= Len(block.instrs)
        THEN CASE i.op \in {"call", "print"} -> saw(i.op, vals)
               [] Stops(i, vals) -> saw("abort", <<i.op>>)
               [] OTHER -> Seen(f, Executed(i, vals, s), steps - 1)
        ELSE IF block.term.kind = "return" THEN saw("return", Means(s, block.term.on))
        ELSE Seen(f, Arrived(f, s, Taken(s, block.term)), steps - 1)
SeenNext(f, s) == Seen(f, s, MaxSteps)

(* A call is answered, or a print done. *)
Answered(f, s, answer) ==
    LET i == f.blocks[s.at].instrs[s.pc]
    IN  IF i.op = "print" THEN [s EXCEPT !.pc = @ + 1]
        ELSE [s EXCEPT !.pc = @ + 1, !.mem = answer,
                       !.regs = IF i.dst = 0 THEN @ ELSE [@ EXCEPT ![i.dst] = answer]]
=============================================================================
