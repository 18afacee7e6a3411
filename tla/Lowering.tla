------------------------------ MODULE Lowering ------------------------------
(***************************************************************************)
(* From the syntax tree of a checked function to blocks of instructions    *)
(* (src/src/ir/lower/).  `l` is the state of one `Lowering`: the blocks    *)
(* begun so far, the one that is being filled, the open scopes, the loops  *)
(* around, and how many registers and words of the frame are taken.        *)
(*                                                                         *)
(* The instructions, besides Ir's const, copy, load and store:             *)
(*   add, sub, mul, div, rem; eq, ne, lt, le, gt, ge                       *)
(*   param n       what the caller passed in place n, from 0               *)
(*   frame n       the address of word n of the frame                      *)
(*   elem b i len  the address of element i of len at b, checked           *)
(*   field b n     the address of word n of what is at b                   *)
(*   copywords n   n words to the first address from the second            *)
(*   alloc n       the address of n new words of the arena                 *)
(*   variant n     the address of a variant that carries nothing           *)
(*   call n        function n, which an array it answers is given room for *)
(*                 by its first argument; dst is 0 when nothing is kept    *)
(*   print                                                                 *)
(* A word is one cell.                                                     *)
(***************************************************************************)
EXTENDS Sema, Ir

Undecided == [kind |-> "undecided", on |-> << >>, targets |-> << >>]

(* `LoopFrame`. *)
NewLoop == [breaks |-> {}, continues |-> {}]

Begin == [blocks |-> << >>, current |-> 0, scopes |-> <<<< >>>>, loops |-> << >>,
          regs |-> 0, frame |-> 0, peak |-> 0, out |-> << >>]

-----------------------------------------------------------------------------
(* `new_block`, `emit`, `terminate`, `finish`. *)
NewBlock(l) ==
    [l EXCEPT !.blocks = Append(@, [instrs |-> << >>, term |-> Undecided]), !.current = Len(l.blocks) + 1]
Emit(l, op, dst, args, n) == [l EXCEPT !.blocks[l.current].instrs = Append(@, Instr(op, dst, args, n))]
Finish(l, b, term) == [l EXCEPT !.blocks[b].term = term]
FinishAll(l, bs, term) == FoldSet(LAMBDA b, so : Finish(so, b, term), l, bs)

(* `fresh`, `fresh_temp`: the new register is the last one. *)
Fresh(l) == [l EXCEPT !.regs = @ + 1]

(* `declare`, `binding`. *)
Enter(l, x, ty) == [Fresh(l) EXCEPT !.scopes[Len(l.scopes)] = (x :> [reg |-> l.regs + 1, ty |-> ty]) @@ @]
Bound(l, x) ==
    l.scopes[CHOOSE k \in DOMAIN l.scopes : /\ x \in DOMAIN l.scopes[k]
                                            /\ \A j \in k + 1 .. Len(l.scopes) : x \notin DOMAIN l.scopes[j]][x]
RegOf(l, x) == Reg(Bound(l, x).reg)

(* What the checks recorded as the type of an expression. *)
TypeIn(l, e) == TypeOf([k \in DOMAIN l.scopes |-> [x \in DOMAIN l.scopes[k] |-> l.scopes[k][x].ty]], e)

(* `allocate`. *)
Allocate(l, dst, words) ==
    LET taken == l.frame + words
    IN  [Emit(l, "frame", dst, << >>, l.frame) EXCEPT !.frame = taken, !.peak = IF taken > @ THEN taken ELSE @]

(* An instruction and its answer in a temporary of its own, which is a value. *)
Both(l, v) == [l |-> l, v |-> v]
InTemp(l, op, args, n) == Both(Emit(Fresh(l), op, l.regs + 1, args, n), Reg(l.regs + 1))
Settled(l, n) == Both(l, Const(n))

(* `fold_bin`, `fold_cmp`, `negate_const`, `fold_logic`: << >> is not folded. *)
FoldBin(op, a, b) == IF IsReg(a) \/ IsReg(b) THEN << >> ELSE Apply(op, a.n, b.n)
FoldCmp(op, a, b) == IF IsReg(a) \/ IsReg(b) THEN << >> ELSE <<Compare(op, a.n, b.n)>>
NegateConst(n) == IF Fits(-n) THEN -n ELSE n
Settles(op, v) == ~IsReg(v) /\ (v.n # 0) = (ShortCircuit(op) # 0)

(* An operation's answer, known now or worked out then. *)
Operation(l, op, args, folded) == IF folded = << >> THEN InTemp(l, op, args, 0) ELSE Settled(l, folded[1])
OperationInto(l, dst, op, args, folded) ==
    IF folded = << >> THEN Emit(l, op, dst, args, 0) ELSE Emit(l, "const", dst, << >>, folded[1])

(* `payload_at`: the tag is in front. *)
PayloadOffset(k) == k

BuildsItsOwn(e) == e.kind \in {"array", "call"}

-----------------------------------------------------------------------------
(* `Descend` goes down the tree: to the `value` of an expression, `into` a      *)
(* register, or through a `stmt`; and it has the type of every expression.  *)
RECURSIVE Descend(_, _, _, _)
Value(l, e) == Descend(l, "value", 0, e)
Into(l, dst, e) == Descend(l, "into", dst, e)
StmtInto(l, st) == Descend(l, "stmt", 0, st)
Recorded(l, e) == Descend(l, "type", 0, e)
StmtsInto(l, stmts) == FoldLeft(StmtInto, l, stmts)

(* `expr` for each of es, left to right; v is the sequence. *)
Values(l, es) ==
    FoldLeft(LAMBDA so, e : LET one == Value(so.l, e) IN Both(one.l, Append(so.v, one.v)), Both(l, << >>), es)

(* `negated`: `!` of a comparison is the opposite comparison, and of a bool   *)
(* whether it is 0.                                                         *)
Negated(l, inner) ==
    IF inner.kind = "cmp" THEN Values(l, inner.parts)
    ELSE LET one == Value(l, inner) IN Both(one.l, <<one.v, Const(0)>>)
NegatedOp(inner) == IF inner.kind = "cmp" THEN Negate(inner.name) ELSE "eq"

(* What is worked out of its operands' values, and what is known of it. *)
Operands(l, e) == IF e.kind = "not" THEN Negated(l, e.parts[1]) ELSE Values(l, e.parts)
OpOf(e) == IF e.kind = "not" THEN NegatedOp(e.parts[1]) ELSE e.name
Folded(e, vs) == IF e.kind = "bin" THEN FoldBin(e.name, vs[1], vs[2]) ELSE FoldCmp(OpOf(e), vs[1], vs[2])
FoldNeg(v) == IF IsReg(v) THEN << >> ELSE <<NegateConst(v.n)>>

(* `element_address`: base and index, and the address in a temporary. *)
ElementAt(vs, len) == InTemp(vs.l, "elem", vs.v \o <<Const(len)>>, 0)
ElementAddress(l, e) == ElementAt(Values(l, e.parts), Recorded(l, e.parts[1]).len)

(* `logic_branch`: `&&` lays out its right operand first, `||` the short      *)
(* circuit; both write dst.                                                 *)
BranchEnd(l, cond, first, second) ==
    Finish(FinishAll(NewBlock(second), {first.current, second.current}, Jump(To(Len(second.blocks) + 1))),
           l.current, Branch(cond, To(Len(l.blocks) + 1), To(Len(first.blocks) + 1)))
RightInto(l, dst, rhs) == Into(NewBlock(l), dst, rhs)
ShortInto(l, dst, op) == Emit(NewBlock(l), "const", dst, << >>, ShortCircuit(op))
ThenShort(l, dst, op, cond, right) == BranchEnd(l, cond, right, ShortInto(right, dst, op))
ThenRight(l, dst, cond, rhs, short) == BranchEnd(l, cond, short, RightInto(short, dst, rhs))
LogicBranch(l, dst, op, cond, rhs) ==
    IF op = "and" THEN ThenShort(l, dst, op, cond, RightInto(l, dst, rhs))
    ELSE ThenRight(l, dst, cond, rhs, ShortInto(l, dst, op))

RECURSIVE WriteThrough(_, _, _, _)
(* `fill_array`, in the order written. *)
FillFresh(addressed, e) == WriteThrough(addressed.l, addressed.v, e, "fresh")
FillArray(l, at, elements) ==
    FoldLeft(LAMBDA so, k : FillFresh(InTemp(so, "elem", <<at, Const(k - 1), Const(Len(elements))>>, 0), elements[k]),
             l, [k \in DOMAIN elements |-> k])

(* `write_through`: a literal is built where it goes when nothing can name    *)
(* that room yet, and elsewhere when something can.                         *)
StoreAt(one, addr, ty) ==
    IF FitsInARegister(ty) THEN Emit(one.l, "store", 0, <<addr, one.v>>, 0)
    ELSE Emit(one.l, "copywords", 0, <<addr, one.v>>, ty.len)
WriteThrough(l, addr, e, room) ==
    IF room = "fresh" /\ e.kind = "array" THEN FillArray(l, addr, e.parts)
    ELSE StoreAt(Value(l, e), addr, Recorded(l, e))

(* `variant_into`: a tag, a block in .data, or a new block with the tag in    *)
(* front, which dst names before what it carries is worked out.             *)
Payload(l, dst, es) ==
    FoldLeft(LAMBDA so, k : FillFresh(InTemp(so, "field", <<Reg(dst)>>, PayloadOffset(k)), es[k]),
             l, [k \in DOMAIN es |-> k])
Tagged(l, dst, tag) == Emit(l, "store", 0, <<Reg(dst), Const(tag)>>, 0)
VariantInto(l, dst, e) ==
    LET ty == Ty(e.name)
        tag == TagOf(ty, e.member)
    IN  IF ~CarriesData(ty) THEN Emit(l, "const", dst, << >>, tag)
        ELSE IF e.parts = << >> THEN Emit(l, "variant", dst, << >>, tag)
        ELSE Payload(Tagged(Emit(l, "alloc", dst, << >>, 1 + Slots(ty)), dst, tag), dst, e.parts)

-----------------------------------------------------------------------------
(* `tag_of`. *)
TagValue(one, ty) == IF IsBoxed(ty) THEN InTemp(one.l, "load", <<one.v>>, 0) ELSE one

(* `bind_arm_payload`. *)
LoadInto(at, dst) == Emit(at.l, "load", dst, <<at.v>>, 0)
BindPayload(l, ty, v, p) ==
    FoldLeft(LAMBDA so, k : LoadInto(InTemp(Enter(so, p.binds[k], PayloadOf(ty, p.member)[k]), "field", <<v>>, PayloadOffset(k)),
                                     so.regs + 1),
             l, [k \in DOMAIN p.binds |-> k])

(* `arm_test`: the constant a pattern is. *)
Wanted(ty, p) == IF p.kind = "variant" THEN TagOf(ty, p.member) ELSE p.n

OpenScope(l) == [l EXCEPT !.scopes = Append(@, << >>)]
CloseScope(l) == [l EXCEPT !.scopes = Front(@)]

(* `block_stmts`: what the block took of the frame is free again after it. *)
BlockStmts(l, stmts) == [CloseScope(StmtsInto(OpenScope(l), stmts)) EXCEPT !.frame = l.frame]

(* `match_lowering`: a chain of tests, of which the last arm needs none.      *)
(* `so` adds to l where the test of each arm begins, the tests that still   *)
(* have to be finished, and where the arms leave.  dst is 0 in a statement. *)
ArmInto(l, dst, ty, v, arm) ==
    LET p == arm.pattern
        bound == IF p.kind = "variant" THEN BindPayload(OpenScope(l), ty, v, p) ELSE OpenScope(l)
    IN  CloseScope(IF IsValueArm(arm) THEN Into(bound, dst, arm.value[1]) ELSE BlockStmts(bound, arm.block))
ArmDone(so, entry, tests, done) ==
    [l |-> done, entries |-> Append(so.entries, entry), tests |-> so.tests \o tests, exits |-> so.exits \cup {done.current}]
LastArm(so, dst, ty, v, arm) ==
    ArmDone(so, Len(so.l.blocks) + 1, << >>, ArmInto(NewBlock(so.l), dst, ty, v, arm))
TestedArm(so, begun, dst, ty, v, tag, arm) ==
    LET test == InTemp(begun, "eq", <<tag, Const(Wanted(ty, arm.pattern))>>, 0)
    IN  ArmDone(so, begun.current, <<[at |-> test.l.current, cond |-> test.v, arm |-> Len(begun.blocks) + 1]>>,
                ArmInto(NewBlock(test.l), dst, ty, v, arm))
ArmsInto(tested, dst, ty, v, arms) ==
    FoldLeft(LAMBDA so, k : IF k = Len(arms) THEN LastArm(so, dst, ty, v, arms[k])
                            ELSE TestedArm(so, IF k > 1 THEN NewBlock(so.l) ELSE so.l, dst, ty, v, tested.v, arms[k]),
             [l |-> tested.l, entries |-> << >>, tests |-> << >>, exits |-> {}], [k \in DOMAIN arms |-> k])
ToFirstTest(l, before, all) == IF all.tests = << >> THEN Finish(l, before, Jump(To(all.entries[1]))) ELSE l
Chained(l, all) ==
    FoldLeft(LAMBDA s, k : Finish(s, all.tests[k].at, Branch(all.tests[k].cond, To(all.tests[k].arm), To(all.entries[k + 1]))),
             l, [k \in DOMAIN all.tests |-> k])
MatchEnd(before, all) ==
    FinishAll(Chained(ToFirstTest(NewBlock(all.l), before, all), all), all.exits, Jump(To(Len(all.l.blocks) + 1)))
MatchTested(one, tested, dst, ty, arms) == MatchEnd(tested.l.current, ArmsInto(tested, dst, ty, one.v, arms))
MatchOf(one, dst, ty, arms) == MatchTested(one, TagValue(one, ty), dst, ty, arms)
MatchInto(l, dst, e) == MatchOf(Value(l, e.parts[1]), dst, Recorded(l, e.parts[1]), e.arms)

-----------------------------------------------------------------------------
(* `expr`: a value to read, which for a literal is the literal and for a      *)
(* variable its own register.                                               *)
Worked(vs, e) == Operation(vs.l, OpOf(e), vs.v, Folded(e, vs.v))
Opposite(one) == Operation(one.l, "sub", <<Const(0), one.v>>, FoldNeg(one.v))
Loaded(at) == InTemp(at.l, "load", <<at.v>>, 0)
Built(l, e) == Both(Into(Fresh(l), l.regs + 1, e), Reg(l.regs + 1))
Joined(cond, e) ==
    IF IsReg(cond.v) THEN Both(LogicBranch(Fresh(cond.l), cond.l.regs + 1, e.name, cond.v, e.parts[2]), Reg(cond.l.regs + 1))
    ELSE IF Settles(e.name, cond.v) THEN Settled(cond.l, ShortCircuit(e.name))
    ELSE Value(cond.l, e.parts[2])
LowerExpr(l, e) ==
    CASE e.kind \in {"int", "bool"} -> Settled(l, e.n)
      [] e.kind = "var" -> Both(l, RegOf(l, e.name))
      [] e.kind = "variant" /\ ~CarriesData(Ty(e.name)) -> Settled(l, TagOf(Ty(e.name), e.member))
      [] e.kind = "len" -> Settled(l, Recorded(l, e.parts[1]).len)
      [] e.kind = "index" -> Loaded(ElementAddress(l, e))
      [] e.kind = "neg" -> Opposite(Value(l, e.parts[1]))
      [] e.kind \in {"bin", "cmp", "not"} -> Worked(Operands(l, e), e)
      [] e.kind = "logic" -> Joined(Value(l, e.parts[1]), e)
      [] OTHER -> Built(l, e)

(* `expr_into`. *)
WorkedInto(vs, dst, e) == OperationInto(vs.l, dst, OpOf(e), vs.v, Folded(e, vs.v))
OppositeInto(one, dst) == OperationInto(one.l, dst, "sub", <<Const(0), one.v>>, FoldNeg(one.v))
JoinedInto(cond, dst, e) ==
    IF IsReg(cond.v) THEN LogicBranch(cond.l, dst, e.name, cond.v, e.parts[2])
    ELSE IF Settles(e.name, cond.v) THEN Emit(cond.l, "const", dst, << >>, ShortCircuit(e.name))
    ELSE Into(cond.l, dst, e.parts[2])
CallInto(vs, dst, name, ty) ==
    IF FitsInARegister(ty) THEN Emit(vs.l, "call", dst, vs.v, name)
    ELSE Emit(Allocate(vs.l, dst, SizeOf(ty)), "call", 0, <<Reg(dst)>> \o vs.v, name)
CopyInto(one, dst) == Emit(one.l, "copy", dst, <<one.v>>, 0)
LowerExprInto(l, dst, e) ==
    CASE e.kind \in {"int", "bool"} -> Emit(l, "const", dst, << >>, e.n)
      [] e.kind = "variant" -> VariantInto(l, dst, e)
      [] e.kind = "array" -> FillArray(Allocate(l, dst, Len(e.parts)), Reg(dst), e.parts)
      [] e.kind = "index" -> LoadInto(ElementAddress(l, e), dst)
      [] e.kind = "neg" -> OppositeInto(Value(l, e.parts[1]), dst)
      [] e.kind \in {"bin", "cmp", "not"} -> WorkedInto(Operands(l, e), dst, e)
      [] e.kind = "logic" -> JoinedInto(Value(l, e.parts[1]), dst, e)
      [] e.kind = "match" -> MatchInto(l, dst, e)
      [] e.kind = "call" -> CallInto(Values(l, e.parts), dst, e.name, Recorded(l, e))
      [] e.kind \in {"var", "len"} -> CopyInto(Value(l, e), dst)

-----------------------------------------------------------------------------
(* `if_stmt`. *)
IfEnd(cond, then) ==
    Finish(FinishAll(NewBlock(then), {then.current}, Jump(To(Len(then.blocks) + 1))),
           cond.l.current, Branch(cond.v, To(Len(cond.l.blocks) + 1), To(Len(then.blocks) + 1)))
IfThen(cond, then, st) ==
    IF Len(st.blocks) = 2 THEN BranchEnd(cond.l, cond.v, then, BlockStmts(NewBlock(then), st.blocks[2])) ELSE IfEnd(cond, then)
IfOn(cond, st) == IfThen(cond, BlockStmts(NewBlock(cond.l), st.blocks[1]), st)
IfInto(l, st) == IfOn(Value(l, st.parts[1]), st)

(* Mutant: a `continue` goes straight to the condition. *)
StepNeverHas(frame, step) == FALSE

(* `loop_with_step`: a step has a block of its own when a `continue` has to   *)
(* get to it, and ends the body otherwise.  `step` is << >> for a `while`.  *)
StepHasABlock(frame, step) == step # << >> /\ frame.continues # {}
LoopEnd(l, tested, stepped, frame, latch) ==
    LET header == Len(l.blocks) + 1
        after == Len(stepped.blocks) + 1
        closed == FinishAll(NewBlock(stepped), {l.current, stepped.current}, Jump(To(header)))
        left == Finish(closed, tested.l.current, Branch(tested.v, To(Len(tested.l.blocks) + 1), To(after)))
    IN  FinishAll(FinishAll(left, frame.continues, Jump(To(latch))), frame.breaks, Jump(To(after)))
Latched(body) ==
    Finish(NewBlock([body EXCEPT !.loops = Front(@)]), body.current, Jump(To(Len(body.blocks) + 1)))
LoopStep(l, tested, body, step) ==
    IF StepHasABlock(Last(body.loops), step)
    THEN LoopEnd(l, tested, StmtsInto(Latched(body), step), Last(body.loops), Len(body.blocks) + 1)
    ELSE LoopEnd(l, tested, StmtsInto([body EXCEPT !.loops = Front(@)], step), Last(body.loops), Len(l.blocks) + 1)
LoopOn(l, tested, block, step) ==
    LoopStep(l, tested, BlockStmts([NewBlock(tested.l) EXCEPT !.loops = Append(@, NewLoop)], block), step)
LoopWithStep(l, cond, block, step) == LoopOn(l, Value(NewBlock(l), cond), block, step)

(* `loop_jump`: the innermost loop finishes the block once it knows where. *)
LoopJump(l, st) ==
    NewBlock(IF st.kind = "break" THEN [l EXCEPT !.loops[Len(l.loops)].breaks = @ \cup {l.current}]
             ELSE [l EXCEPT !.loops[Len(l.loops)].continues = @ \cup {l.current}])

(* The `Return` arms of `stmt`: an array goes to the caller's room. *)
Leaving(l, vs) == NewBlock(Finish(l, l.current, Return(vs)))
LeavingWith(one) == Leaving(one.l, <<one.v>>)
ReturnInto(l, st) ==
    IF st.parts = << >> THEN Leaving(l, << >>)
    ELSE IF l.out = << >> THEN LeavingWith(Value(l, st.parts[1]))
    ELSE Leaving(WriteThrough(l, l.out[1], st.parts[1], "fresh"), << >>)

(* The `Decl` and `Assign` arms of `stmt`: the name is in scope before its    *)
(* initialiser is looked at.  What is assigned to keeps its register, or    *)
(* its room.                                                                *)
InitialInto(l, ty, e) ==
    IF FitsInARegister(ty) \/ BuildsItsOwn(e) THEN Into(l, l.regs, e)
    ELSE WriteThrough(Allocate(l, l.regs, SizeOf(ty)), Reg(l.regs), e, "fresh")
ElementInto(at, e) == WriteThrough(at.l, at.v, e, "named")
AssignInto(l, target, e) ==
    IF target.kind = "index" THEN ElementInto(ElementAddress(l, target), e)
    ELSE IF FitsInARegister(Bound(l, target.name).ty) THEN Into(l, Bound(l, target.name).reg, e)
    ELSE WriteThrough(l, RegOf(l, target.name), e, "named")

(* The `Print`, `For` and `CallStmt` arms. *)
PrintInto(shown) == Emit(shown.l, "print", 0, <<shown.v>>, 0)
ForInto(l, begun, st) ==
    [CloseScope(LoopWithStep(begun, st.parts[1], st.blocks[1], <<st.stmts[2]>>)) EXCEPT !.frame = l.frame]
CallOnly(vs, name) == Emit(vs.l, "call", 0, vs.v, name)

(* `stmt`. *)
LowerStmt(l, st) ==
    CASE st.kind = "decl" -> InitialInto(Enter(l, st.name, st.ty), st.ty, st.parts[1])
      [] st.kind = "assign" -> AssignInto(l, st.parts[1], st.parts[2])
      [] st.kind = "print" -> PrintInto(TagValue(Value(l, st.parts[1]), Recorded(l, st.parts[1])))
      [] st.kind = "if" -> IfInto(l, st)
      [] st.kind = "while" -> LoopWithStep(l, st.parts[1], st.blocks[1], << >>)
      [] st.kind = "for" -> ForInto(l, StmtInto(OpenScope(l), st.stmts[1]), st)
      [] st.kind = "return" -> ReturnInto(l, st)
      [] st.kind = "match" -> MatchInto(l, 0, st.parts[1])
      [] st.kind \in {"break", "continue"} -> LoopJump(l, st)
      [] st.kind = "call" -> CallOnly(Values(l, st.parts[1].parts), st.parts[1].name)

Descend(l, to, dst, node) ==
    CASE to = "value" -> LowerExpr(l, node)
      [] to = "into" -> LowerExprInto(l, dst, node)
      [] to = "stmt" -> LowerStmt(l, node)
      [] to = "type" -> TypeIn(l, node)

(* `Lowering::run`: what is passed, with the room for an array that is         *)
(* returned in front; the body; and what is returned at its end.            *)
Params(l, f) ==
    LET out == IF FitsInARegister(f.ret) THEN l
               ELSE [Emit(Fresh(l), "param", l.regs + 1, << >>, 0) EXCEPT !.out = <<Reg(l.regs + 1)>>]
        first == out.regs
        Pass(so, k) == LET named == Enter(so, f.params[k].name, f.params[k].ty)
                       IN  Emit(named, "param", named.regs, << >>, first + k - 1)
    IN  FoldLeft(Pass, out, [k \in DOMAIN f.params |-> k])
ReturnAtEnd(body) == Finish(body, body.current, Return(<< >>))
BlocksOf(done) == [b \in DOMAIN done.blocks |-> Block(<< >>, done.blocks[b].instrs, done.blocks[b].term)]
Finished(done) ==
    [code |-> Prune(Function(BlocksOf(done), done.regs)), frame |-> done.peak,
     decided |-> \A b \in DOMAIN done.blocks : done.blocks[b].term # Undecided]
Lowered(f) == Finished(ReturnAtEnd(StmtsInto(Params(NewBlock(Begin), f), f.body)))
=============================================================================
