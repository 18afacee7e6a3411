-------------------------- MODULE MC_AllocatedCode --------------------------
(***************************************************************************)
(* AllocatedCode on small functions: five instructions spread over the     *)
(* blocks of a straight line, a loop, a diamond, or the shape that leaving *)
(* SSA produces when a branch hands an argument to a join (the edge's own  *)
(* block, laid out last).  The straight line defines four values, each     *)
(* instruction reading up to two of the earlier ones; the other shapes     *)
(* write up to three registers, some of them more than once.               *)
(***************************************************************************)
EXTENDS AllocatedCode

MCOneCaller == <<0>>
MCOneCallee == <<1>>
MCNoLists == {}

MCUpTo(n, S) == {u \in SUBSET S : Cardinality(u) <= n}
MCInstr(defs, uses, call) == [def : defs, uses : uses, call : call]
MCBlock(instrs, uses, succ) == [params : {{}}, instrs : instrs, uses : {uses}, succ : {succ}]

MCStraight ==
    {<<block>> : block \in
        MCBlock(MCInstr({1}, {{}}, {FALSE}) \X MCInstr({2}, MCUpTo(1, {1}), {FALSE}) \X
                MCInstr({3}, MCUpTo(2, 1 .. 2), BOOLEAN) \X MCInstr({4}, MCUpTo(2, 1 .. 3), BOOLEAN) \X
                MCInstr({0}, MCUpTo(2, 1 .. 4), {FALSE}), {}, {})}

(* The five instructions of the other shapes. *)
MCFirst == MCInstr({1}, {{}}, {FALSE})
MCSecond == MCInstr({0, 2}, MCUpTo(1, {1}), {FALSE})
MCMiddle == MCInstr(0 .. 3, MCUpTo(1, 1 .. 2), BOOLEAN)
MCFourth == MCInstr(0 .. 3, MCUpTo(1, 1 .. 3), BOOLEAN)
MCLast == MCInstr({0}, MCUpTo(1, 1 .. 3), {FALSE})
MCSeq1(A) == {<<a>> : a \in A}

MCLoop ==
    MCBlock(MCFirst \X MCSecond, {}, {2}) \X
    MCBlock(MCMiddle \X MCFourth, {1}, {2, 3}) \X
    MCBlock(MCSeq1(MCLast), {}, {})

MCDiamond ==
    MCBlock(MCSeq1(MCFirst), {1}, {2, 3}) \X MCBlock(MCSeq1(MCSecond), {}, {4}) \X
    MCBlock(MCSeq1(MCMiddle), {}, {4}) \X MCBlock(MCFourth \X MCLast, {}, {})

MCEdge ==
    MCBlock(MCSeq1(MCFirst), {1}, {2, 4}) \X MCBlock(MCSeq1(MCMiddle), {}, {3}) \X
    MCBlock(MCFourth \X MCLast, {}, {}) \X MCBlock(MCSeq1(MCSecond), {}, {3})

MCBranching ==
    {f \in MCLoop \cup MCDiamond \cup MCEdge :
        NothingReadUnwritten(f) /\ DefinedFirst(f)}

MCFunctions == MCStraight \cup MCBranching
=============================================================================
