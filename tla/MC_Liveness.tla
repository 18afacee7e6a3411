---------------------------- MODULE MC_Liveness ----------------------------
(***************************************************************************)
(* Liveness on every control flow graph over n blocks in which each block  *)
(* has at most two successors: of two blocks over two virtual registers,   *)
(* with block parameters and terminators that read, and of three blocks    *)
(* over one.  A block has one instruction.                                 *)
(***************************************************************************)
EXTENDS Liveness, FiniteSets

MCAtMostOne(S) == {{}} \cup {{x} : x \in S}
MCInstrs(regs) == [def : 0 .. regs, uses : MCAtMostOne(1 .. regs), call : {FALSE}]
MCSuccessors(n) == {s \in SUBSET (1 .. n) : Cardinality(s) <= 2}
MCBlocks(n, regs, params, reads) ==
    {[params |-> p, instrs |-> <<i>>, uses |-> u, succ |-> s] :
        p \in params, i \in MCInstrs(regs), u \in reads, s \in MCSuccessors(n)}
MCFunctions ==
    [1 .. 2 -> MCBlocks(2, 2, {{}, {1}}, {{}, {2}})] \cup [1 .. 3 -> MCBlocks(3, 1, {{}}, {{}})]
=============================================================================
