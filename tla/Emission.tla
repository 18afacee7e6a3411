------------------------------ MODULE Emission ------------------------------
(***************************************************************************)
(* From one function and where the allocator put its values to machine     *)
(* code (src/src/codegen/x64/func.rs, asm.rs, mod.rs and the calling       *)
(* conventions of linux.rs and windows.rs).                                *)
(*                                                                         *)
(* An emission e has the function `fn`, the place `loc` of each virtual    *)
(* register (a register's name, or a number of a spill slot), the          *)
(* registers `saved` to be given back, how many `slots`, the `frame` those  *)
(* need, and the `abi`.                                                     *)
(***************************************************************************)
EXTENDS X64, SequencesExt, FiniteSetsExt

CONSTANT StackMargin   \* bytes of the stack no prologue hands out

ASSUME EmissionAssumption == StackMargin \in Nat

V(v) == [reg |-> v, w |-> Junk]
Const(w) == [reg |-> 0, w |-> w]
C(n) == Const(Num(n))
IsConst(x) == x.reg = 0

(* `how` is which addition, comparison, type or callee; dst is 0 for none.  *)
Instr(op, dst, args, how, n) == [op |-> op, dst |-> dst, args |-> args, how |-> how, n |-> n]
Term(kind, vals, to) == [kind |-> kind, vals |-> vals, to |-> to]
Block(instrs, term) == [instrs |-> instrs, term |-> term]

Linux == [args |-> <<"rdi", "rsi", "rdx", "rcx">>, allocatable |-> {"rbx", "r12"}, shadow |-> 0, al |-> TRUE,
          vector |-> "xmm0", shadowed |-> FALSE, name |-> "linux"]
Windows == [args |-> <<"rcx", "rdx", "r8", "r9">>, allocatable |-> {"rbx", "rsi"}, shadow |-> 32, al |-> FALSE,
            vector |-> "xmm1", shadowed |-> TRUE, name |-> "windows"]

Rax == R("rax")
Rdx == R("rdx")
Rsp == R("rsp")
Scratch0 == R("r10")
Scratch1 == R("r11")
Xmm0 == R("xmm0")
Xmm1 == R("xmm1")
StackLimit == Sym("limit")
Arg(e, k) == R(e.abi.args[k])
Abort(cc, reason) == Jcc(cc, <<"abort", reason>>)
CallTo(name) == I("call", <<Sym(name)>>)
Set(cc, r) == [I("setcc", <<r>>) EXCEPT !.cc = cc]

-----------------------------------------------------------------------------
(* The frame. *)
IsCall(i) == i.op \in {"call", "callvirtual", "fixup", "print", "printtext"}
InstrsOf(fn) == FlattenSeq([b \in DOMAIN fn.blocks |-> fn.blocks[b].instrs])
EntryCalls(e) == e.abi.name = "windows" /\ e.fn.writesText
IsLeaf(e) ==
    /\ ~ (e.fn.entry /\ (EntryCalls(e) \/ e.fn.checksStack))
    /\ \A i \in ToSet(InstrsOf(e.fn)) : ~ IsCall(i)

FrameWithoutCalls(slots, frameBytes, leaf, shadow, saved) ==
    LET arraysAt == shadow + 8 * slots
    IN  [slotsAt |-> shadow, arraysAt |-> arraysAt, size |-> ((arraysAt + frameBytes + 15) \div 16) * 16]
FrameLayout(slots, frameBytes, leaf, shadow, saved) ==
    LET slotsAt == IF leaf THEN 0 ELSE shadow
        arraysAt == slotsAt + 8 * slots
        total == arraysAt + frameBytes
        rounded == ((total + 15) \div 16) * 16
    IN  [slotsAt |-> slotsAt, arraysAt |-> arraysAt,
         size |-> IF leaf THEN total ELSE IF saved % 2 = 0 THEN rounded + 8 ELSE rounded]
Emitter(f) == [frame |-> FrameLayout(f.slots, f.fn.frameBytes, IsLeaf(f), f.abi.shadow, Len(f.saved))] @@ f
SlotAt(e, slot) == Mem("rsp", e.frame.slotsAt + 8 * slot)
ArrayAt(e, offset) == Mem("rsp", e.frame.arraysAt + offset)

StackCheck(e) ==
    IF ~ e.fn.checksStack \/ e.fn.entry THEN << >>
    ELSE (IF e.frame.size = 0 THEN <<I("cmp", <<Rsp, StackLimit>>)>>
          ELSE <<I("lea", <<Rax, Mem("rsp", -e.frame.size)>>), I("cmp", <<Rax, StackLimit>>)>>)
         \o <<Abort("b", "stack")>>

ReserveAtOnce(e) == IF e.frame.size = 0 THEN << >> ELSE <<I("sub", <<Rsp, Imm(e.frame.size)>>)>>
(* A page at a time, each touched before the next. *)
ReserveFrame(e) ==
    LET size == e.frame.size
        page == Imm(PageBytes)
    IN  IF size = 0 THEN << >>
        ELSE IF size <= PageBytes THEN <<I("sub", <<Rsp, Imm(size)>>)>>
        ELSE <<I("mov", <<Rax, Imm(size)>>),
               Label(<<"probe">>), I("sub", <<Rsp, page>>), I("mov", <<Mem("rsp", 0), Imm(0)>>),
               I("sub", <<Rax, page>>), I("cmp", <<Rax, page>>), Jcc("a", <<"probe">>),
               I("sub", <<Rsp, Rax>>)>>

Prologue(e) == [k \in DOMAIN e.saved |-> I("push", <<R(e.saved[k])>>)] \o StackCheck(e) \o ReserveFrame(e)
Epilogue(e) ==
    (IF e.frame.size > 0 THEN <<I("add", <<Rsp, Imm(e.frame.size)>>)>> ELSE << >>)
    \o [k \in DOMAIN e.saved |-> I("pop", <<R(e.saved[Len(e.saved) + 1 - k])>>)] \o <<I("ret", << >>)>>

(* Where the stack ends, or zero where the platform does not say. *)
StackBottom(e) ==
    IF e.abi.name = "windows"
    THEN <<I("lea", <<Arg(e, 1), Sym("low")>>), I("lea", <<Arg(e, 2), Sym("high")>>),
           CallTo("GetCurrentThreadStackLimits"), I("mov", <<Rax, Sym("low")>>)>>
    ELSE <<CallTo("pthread_self"), I("mov", <<Arg(e, 1), Rax>>), I("lea", <<Arg(e, 2), Sym("attr")>>),
           CallTo("pthread_getattr_np"), I("test", <<Rax, Rax>>), Jcc("ne", <<"no bottom">>),
           I("lea", <<Arg(e, 1), Sym("attr")>>), I("lea", <<Arg(e, 2), Sym("low")>>),
           I("lea", <<Arg(e, 3), Sym("size")>>), CallTo("pthread_attr_getstack"),
           I("lea", <<Arg(e, 1), Sym("attr")>>), CallTo("pthread_attr_destroy"),
           I("mov", <<Rax, Sym("low")>>), Jmp(<<"bottom">>),
           Label(<<"no bottom">>), I("xor32", <<Rax, Rax>>), Label(<<"bottom">>)>>
SetStackLimit(e) ==
    IF ~ e.fn.checksStack THEN << >>
    ELSE StackBottom(e)
         \o <<I("test", <<Rax, Rax>>), Jcc("e", <<"known">>), I("add", <<Rax, Imm(StackMargin)>>),
              I("mov", <<StackLimit, Rax>>), Label(<<"known">>)>>
EntrySetup(e) ==
    IF EntryCalls(e) THEN <<I("mov", <<Arg(e, 1), Imm(1)>>), CallTo("SetConsoleOutputCP")>> ELSE << >>

-----------------------------------------------------------------------------
(* Where values are.  What comes back as `before` has to run first. *)
Location(e, v) == IF e.loc[v].reg # "" THEN R(e.loc[v].reg) ELSE SlotAt(e, e.loc[v].slot)
Value(e, x) == IF IsConst(x) THEN Constant(x.w) ELSE Location(e, x.reg)
Mov(d, s) == IF d = s THEN << >> ELSE <<I("mov", <<d, s>>)>>
Ready(before, o) == [before |-> before, at |-> o]
InRegister(e, x, scratch) ==
    LET o == Value(e, x)
    IN  IF IsMem(o) \/ IsConst(x) THEN Ready(<<I("mov", <<scratch, o>>)>>, scratch) ELSE Ready(<< >>, o)
OperandAnyway(e, x) == Ready(<< >>, Value(e, x))
OperandForAlu(e, x) ==
    LET o == Value(e, x)
    IN  IF IsConst(x) /\ ~ IsNarrow(o) THEN Ready(<<I("mov", <<Scratch1, o>>)>>, Scratch1) ELSE Ready(<< >>, o)
SharesRegister(e, d, x) == ~ IsConst(x) /\ e.loc[x.reg] = e.loc[d]

(* A result is computed in `work` and then put where it belongs. *)
WorkReg(e, d, forceScratch) == IF e.loc[d].reg # "" /\ ~ forceScratch THEN R(e.loc[d].reg) ELSE Scratch0
StoreBack(e, d, work) == Mov(Location(e, d), work)
ProduceInto(e, d, forceScratch, code) == code \o StoreBack(e, d, WorkReg(e, d, forceScratch))
Work(e, d) == WorkReg(e, d, FALSE)
Produce(e, d, code) == ProduceInto(e, d, FALSE, code)
Moved(e, d, from) == Produce(e, d, Mov(Work(e, d), from))

-----------------------------------------------------------------------------
(* Arithmetic and comparisons. *)
Commutes(op) == op \in {"add", "imul"}
BinInPlace(e, i) ==
    LET right == OperandForAlu(e, i.args[2])
    IN  Produce(e, i.dst, Mov(Work(e, i.dst), Value(e, i.args[1])) \o right.before
            \o <<I(i.how, <<Work(e, i.dst), right.at>>), Abort("o", "overflow")>>)
BinCode(e, i) ==
    LET swap == Commutes(i.how) /\ SharesRegister(e, i.dst, i.args[2])
        lhs == i.args[IF swap THEN 2 ELSE 1]
        rhs == i.args[IF swap THEN 1 ELSE 2]
        clobbersRhs == SharesRegister(e, i.dst, rhs) /\ ~ SharesRegister(e, i.dst, lhs)
        work == WorkReg(e, i.dst, clobbersRhs)
        right == OperandForAlu(e, rhs)
        operands == IF i.how = "imul" /\ right.at.k = "imm" THEN <<work, work, right.at>> ELSE <<work, right.at>>
    IN  ProduceInto(e, i.dst, clobbersRhs,
            Mov(work, Value(e, lhs)) \o right.before \o <<I(i.how, operands), Abort("o", "overflow")>>)

DivGuards(lhs, rhs) ==
    [zero |-> ~ IsConst(rhs) \/ rhs.w.n = 0,
     overflow |-> CASE IsConst(lhs) /\ lhs.w.n # MinInt -> FALSE
                    [] IsConst(rhs) -> rhs.w.n = -1
                    [] OTHER -> TRUE]
Division(e, i, at) ==
    LET guards == DivGuards(i.args[1], i.args[2])
        past == <<"div", at>>
    IN  Mov(Rax, Value(e, i.args[1])) \o Mov(Scratch1, Value(e, i.args[2]))
        \o (IF guards.zero THEN <<I("test", <<Scratch1, Scratch1>>), Abort("e", "zero")>> ELSE << >>)
        \o (IF guards.overflow
            THEN <<I("cmp", <<Scratch1, Imm(-1)>>), Jcc("ne", past), I("mov", <<Scratch0, Imm(MinInt)>>),
                   I("cmp", <<Rax, Scratch0>>), Abort("e", "quotient"), Label(past)>>
            ELSE << >>)
        \o <<I("cqo", << >>), I("idiv", <<Scratch1>>)>>
        \o Moved(e, i.dst, IF i.how = "div" THEN Rax ELSE Rdx)

CompareCode(e, lhs, rhs) ==
    LET left == Value(e, lhs)
        right == OperandForAlu(e, rhs)
        moves == IsConst(lhs) \/ (IsMem(left) /\ IsMem(right.at))
    IN  right.before \o (IF moves THEN <<I("mov", <<Scratch0, left>>)>> ELSE << >>)
        \o <<I("cmp", <<IF moves THEN Scratch0 ELSE left, right.at>>)>>
Widened(e, d) == Produce(e, d, <<I("movzx", <<Work(e, d), Scratch1>>)>>)
Materialised(e, i) == CompareCode(e, i.args[1], i.args[2]) \o <<Set(i.how, Scratch1)>> \o Widened(e, i.dst)
JumpIfFalse == [e |-> "ne", ne |-> "e", l |-> "ge", le |-> "g", g |-> "le", ge |-> "l"]

LoadVector(e, x, vector) ==
    IF IsConst(x) THEN <<I("mov", <<Scratch1, Value(e, x)>>), I("movq", <<vector, Scratch1>>)>>
    ELSE <<I("movq", <<vector, Value(e, x)>>)>>
FloatSetcc == [e |-> "e", ne |-> "ne", l |-> "a", le |-> "ae", g |-> "a", ge |-> "ae"]
FloatCompare(e, i) ==
    LET swap == i.how \in {"l", "le"}
    IN  LoadVector(e, i.args[IF swap THEN 2 ELSE 1], Xmm0) \o LoadVector(e, i.args[IF swap THEN 1 ELSE 2], Xmm1)
        \o <<I("ucomisd", <<Xmm0, Xmm1>>), Set(FloatSetcc[i.how], Scratch1)>>
        \o (CASE i.how = "e" -> <<Set("np", Scratch0), I("and8", <<Scratch1, Scratch0>>)>>
              [] i.how = "ne" -> <<Set("p", Scratch0), I("or8", <<Scratch1, Scratch0>>)>>
              [] OTHER -> << >>)
        \o Widened(e, i.dst)
FloatBin(e, i) ==
    LoadVector(e, i.args[1], Xmm0) \o LoadVector(e, i.args[2], Xmm1)
    \o <<I(i.how, <<Xmm0, Xmm1>>)>> \o Produce(e, i.dst, <<I("movq", <<Work(e, i.dst), Xmm0>>)>>)

CastToFloat(e, i) ==
    LET src == InRegister(e, i.args[1], Scratch1)
    IN  src.before \o <<I("cvtsi2sd", <<Xmm0, src.at>>)>> \o Produce(e, i.dst, <<I("movq", <<Work(e, i.dst), Xmm0>>)>>)
(* MinInt is what the processor answers for what has no integer, and for     *)
(* the float that is MinInt: the source is asked which.  (The bits of that   *)
(* float are an immediate.)                                                 *)
CastToInt(e, i, at) ==
    LET past == <<"cast", at>>
    IN  LoadVector(e, i.args[1], Xmm0)
        \o <<I("cvttsd2si", <<Scratch1, Xmm0>>), I("mov", <<Scratch0, Imm(MinInt)>>),
             I("cmp", <<Scratch1, Scratch0>>), Jcc("ne", past),
             I("mov", <<Scratch0, Constant(ToFloat(MinInt))>>), I("movq", <<Xmm1, Scratch0>>),
             I("ucomisd", <<Xmm0, Xmm1>>), Abort("p", "no int"), Abort("ne", "no int"), Label(past)>>
        \o Moved(e, i.dst, Scratch1)

-----------------------------------------------------------------------------
(* Places in memory. *)
ElemCode(e, i) ==
    LET base == InRegister(e, i.args[1], Scratch0)
        index == InRegister(e, i.args[2], Scratch1)
        work == Work(e, i.dst)
    IN  base.before \o
        IF IsConst(i.args[2]) /\ IsConst(i.args[3])
        THEN Produce(e, i.dst, <<I("lea", <<work, Mem(base.at.reg, i.args[2].w.n * i.n)>>)>>)
        ELSE index.before \o <<I("cmp", <<index.at, Value(e, i.args[3])>>), Abort("ae", "bounds")>>
             \o Produce(e, i.dst,
                    IF i.n \in {1, 2, 4, 8} THEN <<I("lea", <<work, Indexed(base.at.reg, index.at.reg, i.n)>>)>>
                    ELSE <<I("imul", <<Scratch1, index.at, Imm(i.n)>>),
                           I("lea", <<work, Indexed(base.at.reg, Scratch1.reg, 1)>>)>>)

(* Load, LoadChar, Count and Field differ in how they look behind an address. *)
Behind(e, i, op, offset) ==
    LET addr == InRegister(e, i.args[1], Scratch0)
    IN  addr.before \o Produce(e, i.dst, <<I(op, <<Work(e, i.dst), Mem(addr.at.reg, offset)>>)>>)
StoreCode(e, i) ==
    LET addr == InRegister(e, i.args[1], Scratch0)
        value == OperandForAlu(e, i.args[2])
        target == Mem(addr.at.reg, 0)
    IN  addr.before \o value.before
        \o (IF IsMem(value.at) THEN <<I("mov", <<Scratch1, value.at>>), I("mov", <<target, Scratch1>>)>>
            ELSE <<I("mov", <<target, value.at>>)>>)
CopyBytes(e, i) ==
    LET source == InRegister(e, i.args[2], Scratch1)
        target == InRegister(e, i.args[1], Scratch0)
    IN  source.before \o target.before
        \o FlattenSeq([k \in 1 .. i.n \div 8 |->
               <<I("mov", <<Rax, Mem(source.at.reg, 8 * (k - 1))>>), I("mov", <<Mem(target.at.reg, 8 * (k - 1)), Rax>>)>>])

-----------------------------------------------------------------------------
(* Calls. *)
Pass(e, args) == FlattenSeq([k \in DOMAIN args |-> Mov(Arg(e, k), Value(e, args[k]))])
TakeResult(e, d) == IF d = 0 THEN << >> ELSE Moved(e, d, Rax)
CallCode(e, i) == Pass(e, i.args) \o <<CallTo(i.how)>> \o TakeResult(e, i.dst)
CallVirtual(e, i) ==
    Mov(Scratch0, Value(e, i.args[1])) \o <<I("mov", <<Scratch0, Mem(Scratch0.reg, 0)>>)>>
    \o Pass(e, i.args) \o <<I("callmem", <<Mem(Scratch0.reg, i.n * 8)>>)>> \o TakeResult(e, i.dst)
Fixup(e, i) == Pass(e, i.args) \o <<I("mov", <<Arg(e, 3), Imm(i.n)>>), CallTo("fixup")>>
WriteText(e, text, bytes) ==
    <<I("lea", <<Arg(e, 1), Sym(text)>>), I("mov", <<Arg(e, 2), Imm(bytes)>>), CallTo("write_text")>>
PrintEncoded(e, i) ==
    Mov(Arg(e, 1), Value(e, i.args[1])) \o <<CallTo(IF i.how = "string" THEN "print_str" ELSE "print_char")>>
    \o (IF i.n = 1 THEN WriteText(e, "newline", 1) ELSE << >>)
PrintFormatted(e, i) ==
    LET value == Value(e, i.args[1])
        formats == [int |-> <<"d", "d line">>, float |-> <<"f", "f line">>, bool |-> <<"b", "b line">>, enum |-> <<"s", "s line">>]
        given ==
            CASE i.how = "bool" -> Mov(Scratch0, value) \o
                    <<I("lea", <<Arg(e, 2), Sym("false")>>), I("lea", <<Scratch1, Sym("true")>>),
                      I("test", <<Scratch0, Scratch0>>), [I("cmov", <<Arg(e, 2), Scratch1>>) EXCEPT !.cc = "ne"]>>
              [] i.how = "enum" -> Mov(Scratch0, value) \o
                    <<I("lea", <<Scratch1, Sym("names")>>), I("mov", <<Arg(e, 2), Indexed(Scratch1.reg, Scratch0.reg, 8)>>)>>
              [] i.how = "float" -> Mov(Scratch0, value) \o <<I("movq", <<R(e.abi.vector), Scratch0>>)>>
                    \o (IF e.abi.shadowed THEN Mov(Arg(e, 2), Scratch0) ELSE << >>)
              [] OTHER -> Mov(Arg(e, 2), value)
        variadic == IF ~ e.abi.al THEN << >>
                    ELSE IF i.how = "float" THEN <<I("mov", <<Rax, Imm(1)>>)>> ELSE <<I("xor32", <<Rax, Rax>>)>>
    IN  given \o <<I("lea", <<Arg(e, 1), Sym(formats[i.how][i.n + 1])>>)>> \o variadic \o <<CallTo("printf")>>

-----------------------------------------------------------------------------
(* Instructions, blocks, functions. *)
InstrCode(e, i, at) ==
    CASE i.op = "const" -> Produce(e, i.dst, IF i.n = 0 THEN <<I("xor32", <<Work(e, i.dst), Work(e, i.dst)>>)>>
                                             ELSE <<I("mov", <<Work(e, i.dst), Imm(i.n)>>)>>)
      [] i.op = "copy" -> Moved(e, i.dst, Value(e, i.args[1]))
      [] i.op = "param" -> Moved(e, i.dst, Arg(e, i.n))
      [] i.op = "addr" -> Produce(e, i.dst, <<I("lea", <<Work(e, i.dst), Sym(i.how)>>)>>)
      [] i.op = "frame" -> Produce(e, i.dst, <<I("lea", <<Work(e, i.dst), ArrayAt(e, i.n)>>)>>)
      [] i.op = "bin" -> BinCode(e, i)
      [] i.op = "divide" -> Division(e, i, at)
      [] i.op = "cmp" -> Materialised(e, i)
      [] i.op = "fcmp" -> FloatCompare(e, i)
      [] i.op = "fbin" -> FloatBin(e, i)
      [] i.op = "tofloat" -> CastToFloat(e, i)
      [] i.op = "toint" -> CastToInt(e, i, at)
      [] i.op = "elem" -> ElemCode(e, i)
      [] i.op = "field" -> Behind(e, i, "lea", i.n)
      [] i.op = "load" -> Behind(e, i, "mov", 0)
      [] i.op = "loadchar" -> Behind(e, i, "mov32", 0)
      [] i.op = "count" -> Behind(e, i, "mov", -8)
      [] i.op = "store" -> StoreCode(e, i)
      [] i.op = "copybytes" -> CopyBytes(e, i)
      [] i.op = "call" -> CallCode(e, i)
      [] i.op = "callvirtual" -> CallVirtual(e, i)
      [] i.op = "fixup" -> Fixup(e, i)
      [] i.op = "printtext" -> WriteText(e, i.how, i.n)
      [] i.op = "print" -> IF i.how \in {"string", "char"} THEN PrintEncoded(e, i) ELSE PrintFormatted(e, i)

Occurrences(v, args) == Cardinality({k \in DOMAIN args : args[k] = V(v)})
Reads(fn, v) ==
    Occurrences(v, FlattenSeq([k \in DOMAIN InstrsOf(fn) |-> InstrsOf(fn)[k].args])
                   \o FlattenSeq([b \in DOMAIN fn.blocks |-> fn.blocks[b].term.vals]))
Fuses(e, block) ==
    /\ block.term.kind = "branch" /\ block.instrs # << >>
    /\ LET last == Last(block.instrs)
       IN  last.op = "cmp" /\ block.term.vals[1] = V(last.dst) /\ Reads(e.fn, last.dst) = 1

To(b) == <<"block", b>>
JumpTo(b, here) == IF b = here + 1 THEN << >> ELSE <<Jmp(To(b))>>
BranchCode(e, block, here) ==
    LET cond == block.term.vals[1]
        then == block.term.to[1]
        else == block.term.to[2]
        at == Value(e, cond)
        last == Last(block.instrs)
    IN  IF IsConst(cond) THEN JumpTo(IF cond.w.n # 0 THEN then ELSE else, here)
        ELSE (IF Fuses(e, block) THEN CompareCode(e, last.args[1], last.args[2]) \o <<Jcc(JumpIfFalse[last.how], To(else))>>
              ELSE <<IF IsMem(at) THEN I("cmp", <<at, Imm(0)>>) ELSE I("test", <<at, at>>), Jcc("e", To(else))>>)
             \o JumpTo(then, here)
ReturnCode(e, block) ==
    (IF e.fn.entry THEN <<I("xor32", <<Rax, Rax>>)>>
     ELSE IF block.term.vals = << >> THEN << >> ELSE Mov(Rax, Value(e, block.term.vals[1])))
    \o Epilogue(e)
TerminatorCode(e, block, here) ==
    CASE block.term.kind = "jump" -> JumpTo(block.term.to[1], here)
      [] block.term.kind = "branch" -> BranchCode(e, block, here)
      [] block.term.kind = "return" -> ReturnCode(e, block)
BlockCode(e, b) ==
    LET block == e.fn.blocks[b]
        emitted == IF Fuses(e, block) THEN Front(block.instrs) ELSE block.instrs
    IN  <<Label(To(b))>>
        \o FlattenSeq([k \in DOMAIN emitted |-> InstrCode(e, emitted[k], <<b, k>>)])
        \o TerminatorCode(e, block, b)

Reasons == <<"overflow", "zero", "quotient", "bounds", "no int", "stack">>
AbortStubs(abi) ==
    LET arg(k) == R(abi.args[k])
    IN FlattenSeq([k \in DOMAIN Reasons |->
        <<Label(<<"abort", Reasons[k]>>), I("lea", <<arg(2), Sym(Reasons[k])>>), I("mov", <<arg(3), Imm(k)>>)>>
        \o (IF k < Len(Reasons) THEN <<Jmp(<<"report">>)>> ELSE << >>)])
    \o <<Label(<<"report">>), I("and", <<Rsp, Imm(-16)>>)>>
    \o (IF abi.shadow > 0 THEN <<I("sub", <<Rsp, Imm(abi.shadow)>>)>> ELSE << >>)
    \o <<I("mov", <<R("rbx"), arg(2)>>), I("mov", <<R("r12"), arg(3)>>), I("xor32", <<arg(1), arg(1)>>),
         CallTo("fflush"), I("mov", <<arg(2), R("rbx")>>), I("mov", <<arg(3), R("r12")>>),
         I("mov", <<arg(1), Imm(2)>>), CallTo("write"), I("mov", <<arg(1), Imm(1)>>), CallTo("exit")>>

(* The stubs are emitted once, behind every function. *)
LinuxStubs == AbortStubs(Linux)
WindowsStubs == AbortStubs(Windows)
Code(e) ==
    Prologue(e) \o (IF e.fn.entry THEN SetStackLimit(e) \o EntrySetup(e) ELSE << >>)
    \o FlattenSeq([b \in DOMAIN e.fn.blocks |-> BlockCode(e, b)])
=============================================================================
