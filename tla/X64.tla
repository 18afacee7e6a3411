-------------------------------- MODULE X64 --------------------------------
(***************************************************************************)
(* As much of an x86-64 processor as the compiler's code asks of it: words *)
(* and floats, registers, memory and flags, which operands an instruction  *)
(* can be written with, and what each does.  Not code of the repository.   *)
(*                                                                         *)
(* A word is an integer of WordBits bits, or the place of something in     *)
(* memory, or a float, or what nobody can say (Junk).                      *)
(***************************************************************************)
EXTENDS Integers, Sequences, TLC

CONSTANTS
    WordBits,   \* bits of a word, 64
    ImmBits,    \* bits of the widest immediate most instructions take, 32
    MaxHalf,    \* the largest float, in halves
    PageBytes   \* bytes of the stack that one touch brings into being

ASSUME X64Assumption ==
    /\ {WordBits, ImmBits, MaxHalf, PageBytes} \subseteq Nat \ {0}
    /\ ImmBits < WordBits

MinInt == -(2 ^ (WordBits - 1))
MaxInt == 2 ^ (WordBits - 1) - 1
Fits(n) == n \in MinInt .. MaxInt
Wrapped(n) == ((n - MinInt) % (2 ^ WordBits)) + MinInt
FitsImm(n) == n \in -(2 ^ (ImmBits - 1)) .. 2 ^ (ImmBits - 1) - 1

Word(is, n) == [is |-> is, n |-> n]
Num(n) == Word("int", n)
Half(n) == Word("float", n)
NaN == Word("nan", 0)
Inf(sign) == Word("inf", sign)
Junk == Word("junk", 0)
Low(bit) == Word("low", bit)      \* only the lowest byte has been written
IsNum(w) == w.is = "int"
IsFloat(w) == w.is \in {"float", "inf"}
Truth(p) == Num(IF p THEN 1 ELSE 0)

-----------------------------------------------------------------------------
(* Floats.  Rank orders all but NaN.                                        *)
Rank(f) == IF f.is = "inf" THEN f.n * (MaxHalf + 1) ELSE f.n
Unordered(f, g) == ~ (IsFloat(f) /\ IsFloat(g))
Rounded(n) == IF n > MaxHalf THEN Inf(1) ELSE IF n < -MaxHalf THEN Inf(-1) ELSE Half(n)
Sum(f, g) ==
    CASE Unordered(f, g) -> NaN
      [] f.is = "inf" /\ g.is = "inf" -> IF f = g THEN f ELSE NaN
      [] f.is = "inf" -> f
      [] g.is = "inf" -> g
      [] OTHER -> Rounded(f.n + g.n)
Negated(f) == [f EXCEPT !.n = -@]
ToFloat(n) == Rounded(2 * n)
TowardZero(n) == IF n >= 0 THEN n \div 2 ELSE -((-n) \div 2)
HasInt(f) == f.is = "float" /\ Fits(TowardZero(f.n))
ToInt(f) == IF HasInt(f) THEN TowardZero(f.n) ELSE MinInt

(* Quotients go toward zero, and a remainder has its dividend's sign.       *)
Abs(n) == IF n < 0 THEN -n ELSE n
Quotient(a, b) == IF (a < 0) = (b < 0) THEN Abs(a) \div Abs(b) ELSE -(Abs(a) \div Abs(b))
Remainder(a, b) == a - b * Quotient(a, b)

-----------------------------------------------------------------------------
(* Operands and instructions. *)
Operand == [k |-> "", reg |-> "", index |-> "", scale |-> 1, n |-> 0, sym |-> "", w |-> Junk]
R(r) == [Operand EXCEPT !.k = "reg", !.reg = r]
Constant(w) == [Operand EXCEPT !.k = "imm", !.w = w]
Imm(n) == Constant(Num(n))
Mem(base, n) == [Operand EXCEPT !.k = "mem", !.reg = base, !.n = n]
Indexed(base, index, scale) == [Mem(base, 0) EXCEPT !.index = index, !.scale = scale]
Sym(name) == [Operand EXCEPT !.k = "mem", !.sym = name]
IsMem(o) == o.k = "mem"
IsReg(o) == o.k = "reg"
IsImm(o) == o.k = "imm"
IsNarrow(o) == IsImm(o) /\ IsNum(o.w) /\ FitsImm(o.w.n)
I(op, args) == [op |-> op, args |-> args, cc |-> "", to |-> << >>]
Jcc(cc, to) == [op |-> "jcc", args |-> << >>, cc |-> cc, to |-> to]
Jmp(to) == [Jcc("", to) EXCEPT !.op = "jmp"]
Label(name) == [Jmp(name) EXCEPT !.op = "label"]

Vectors == {"xmm0", "xmm1"}
Addressable(o) == o.scale \in {1, 2, 4, 8} /\ FitsImm(o.n) /\ o.reg \notin Vectors
General(o) == (IsReg(o) /\ o.reg \notin Vectors) \/ (IsMem(o) /\ Addressable(o))
Vector(o) == IsReg(o) /\ o.reg \in Vectors
Encodable(i) ==
    LET a == i.args
        oneMemory == ~ (IsMem(a[1]) /\ IsMem(a[2]))
        register == IsReg(a[1]) /\ General(a[1])
        source(o) == General(o) \/ IsNarrow(o)
    IN  CASE i.op = "mov" -> IF register THEN IsImm(a[2]) \/ General(a[2])
                             ELSE General(a[1]) /\ source(a[2]) /\ oneMemory
          [] i.op \in {"add", "sub", "cmp", "and"} -> General(a[1]) /\ source(a[2]) /\ oneMemory
          [] i.op \in {"lea", "mov32"} -> register /\ IsMem(a[2]) /\ Addressable(a[2])
          [] i.op = "imul" -> register /\ General(a[2]) /\ (Len(a) = 3 => IsNarrow(a[3]))
          [] i.op = "test" -> General(a[1]) /\ IsReg(a[2]) /\ General(a[2])
          [] i.op \in {"idiv", "callmem"} -> General(a[1])
          [] i.op \in {"cmov", "xor32", "setcc", "movzx", "and8", "or8"} ->
                register /\ General(a[Len(a)])
          [] i.op = "movq" -> (Vector(a[1]) /\ General(a[2])) \/ (Vector(a[2]) /\ General(a[1]))
          [] i.op \in {"addsd", "subsd", "ucomisd"} -> Vector(a[1]) /\ Vector(a[2])
          [] i.op = "cvtsi2sd" -> Vector(a[1]) /\ General(a[2])
          [] i.op = "cvttsd2si" -> register /\ Vector(a[2])
          [] OTHER -> TRUE

-----------------------------------------------------------------------------
(* A processor in the middle of a program: `touched` is the lowest page of   *)
(* the stack there is, `floor` the last it may have.                        *)
Place(p, o) ==
    IF o.sym # "" THEN Word(o.sym, o.n)
    ELSE [p.regs[o.reg] EXCEPT !.n = @ + o.n + (IF o.index = "" THEN 0 ELSE p.regs[o.index].n * o.scale)]
PageOf(w) == w.n \div PageBytes
CanTouch(p, w) == w.is = "stack" => PageOf(w) >= p.touched - 1 /\ w.n >= p.floor
Touched(p, w) == IF w.is = "stack" /\ PageOf(w) < p.touched THEN [p EXCEPT !.touched = PageOf(w)] ELSE p
At(p, w) == IF w \in DOMAIN p.mem THEN p.mem[w] ELSE Junk
Stored(p, w, value) == [Touched(p, w) EXCEPT !.mem = (w :> value) @@ @]
Read(p, o) == CASE o.k = "reg" -> p.regs[o.reg] [] IsImm(o) -> o.w [] OTHER -> At(p, Place(p, o))
Written(p, o, value) == IF IsReg(o) THEN [p EXCEPT !.regs[o.reg] = value] ELSE Stored(p, Place(p, o), value)

(* Characters are four bytes, in places that are called text. *)
Narrow(w) == w.is = "text" /\ w.n >= 0
Touches(i) == {o \in {i.args[k] : k \in DOMAIN i.args} : IsMem(o) /\ i.op # "lea"}
Readable(p, o, wide) == LET w == Place(p, o) IN CanTouch(p, w) /\ (Narrow(w) => ~ wide) /\ w.is # "junk"

NoFlags == [z |-> FALSE, c |-> FALSE, p |-> FALSE, l |-> FALSE, o |-> FALSE]
Below(v, w) ==
    IF IsNum(v) /\ IsNum(w) THEN (v.n % (2 ^ WordBits)) < (w.n % (2 ^ WordBits))
    ELSE IF v.is = w.is THEN v.n < w.n ELSE IsNum(v)
Compared(v, w) == [NoFlags EXCEPT !.z = v = w, !.c = Below(v, w), !.l = v.n < w.n]
FloatsCompared(f, g) ==
    IF Unordered(f, g) THEN [NoFlags EXCEPT !.z = TRUE, !.c = TRUE, !.p = TRUE]
    ELSE [NoFlags EXCEPT !.z = Rank(f) = Rank(g), !.c = Rank(f) < Rank(g)]
Holds(cc, f) ==
    CASE cc = "e" -> f.z [] cc = "ne" -> ~ f.z
      [] cc = "l" -> f.l [] cc = "ge" -> ~ f.l [] cc = "le" -> f.l \/ f.z [] cc = "g" -> ~ f.l /\ ~ f.z
      [] cc = "b" -> f.c [] cc = "ae" -> ~ f.c [] cc = "a" -> ~ f.c /\ ~ f.z
      [] cc = "p" -> f.p [] cc = "np" -> ~ f.p [] cc = "o" -> f.o

(* Places move by integers, and nothing else adds up. *)
Arith(op, v, w) ==
    LET n == CASE op = "add" -> v.n + w.n [] op = "sub" -> v.n - w.n [] op = "imul" -> v.n * w.n
    IN  CASE IsNum(v) /\ IsNum(w) -> Num(Wrapped(n))
          [] v.is \in {"stack", "heap"} /\ IsNum(w) /\ op # "imul" -> [v EXCEPT !.n = n]
          [] OTHER -> Junk
Overflows(op, v, w) ==
    IsNum(v) /\ IsNum(w) /\ ~ Fits(CASE op = "add" -> v.n + w.n [] op = "sub" -> v.n - w.n [] op = "imul" -> v.n * w.n)

SignOf(p) == Num(IF p.regs["rax"].n < 0 THEN -1 ELSE 0)

(* What an instruction that is neither a jump nor a call does. *)
Executed(p, i) ==
    LET a == i.args
        x == Read(p, a[1])
        y == Read(p, a[2])
        calculated(op, v, w) == [Written(p, a[1], Arith(op, v, w)) EXCEPT !.flags.o = Overflows(op, v, w)]
        pushed == Word("stack", p.regs["rsp"].n - 8)
    IN  CASE i.op = "mov" -> Written(p, a[1], y)
          [] i.op = "mov32" -> Written(p, a[1], IF Narrow(Place(p, a[2])) THEN y ELSE Junk)
          [] i.op = "lea" -> Written(p, a[1], Place(p, a[2]))
          [] i.op \in {"add", "sub"} -> calculated(i.op, x, y)
          [] i.op = "imul" -> IF Len(a) = 3 THEN calculated("imul", y, Read(p, a[3])) ELSE calculated("imul", x, y)
          [] i.op = "and" -> Written(p, a[1], [x EXCEPT !.n = @ - (@ % 16)])   \* only ever with -16
          [] i.op = "cmp" -> [p EXCEPT !.flags = Compared(x, y)]
          [] i.op = "test" -> [p EXCEPT !.flags = Compared(x, Num(0))]       \* only ever with itself
          [] i.op = "xor32" -> Written(p, a[1], Num(0))                      \* only ever with itself
          [] i.op = "setcc" -> Written(p, a[1], Low(Truth(Holds(i.cc, p.flags)).n))
          [] i.op = "movzx" -> Written(p, a[1], IF y.is = "low" THEN Num(y.n) ELSE Junk)
          [] i.op = "and8" -> Written(p, a[1], Low(x.n * y.n))
          [] i.op = "or8" -> Written(p, a[1], Low(Truth(x.n + y.n > 0).n))
          [] i.op = "cmov" -> IF Holds(i.cc, p.flags) THEN Written(p, a[1], y) ELSE p
          [] i.op = "cqo" -> [p EXCEPT !.regs["rdx"] = SignOf(p)]
          [] i.op = "idiv" -> [p EXCEPT !.regs["rax"] = Num(Quotient(@.n, x.n)),
                                        !.regs["rdx"] = Num(Remainder(p.regs["rax"].n, x.n))]
          [] i.op \in {"movq", "movapd"} -> Written(p, a[1], y)
          [] i.op = "addsd" -> Written(p, a[1], Sum(x, y))
          [] i.op = "subsd" -> Written(p, a[1], Sum(x, Negated(y)))
          [] i.op = "ucomisd" -> [p EXCEPT !.flags = FloatsCompared(x, y)]
          [] i.op = "cvtsi2sd" -> Written(p, a[1], IF IsNum(y) THEN ToFloat(y.n) ELSE Junk)
          [] i.op = "cvttsd2si" -> Written(p, a[1], Num(ToInt(y)))
          [] i.op = "push" -> [Stored(p, pushed, x) EXCEPT !.regs["rsp"] = pushed]
          [] i.op = "pop" -> [p EXCEPT !.regs = [@ EXCEPT !["rsp"].n = @ + 8, ![a[1].reg] = At(p, p.regs["rsp"])]]
          [] OTHER -> p

(* What the processor refuses to do. *)
Traps(p, i) ==
    \/ \E o \in Touches(i) : ~ Readable(p, o, i.op # "mov32")
    \/ i.op = "push" /\ ~ CanTouch(p, Word("stack", p.regs["rsp"].n - 8))
    \/ /\ i.op = "idiv"
       /\ LET d == Read(p, i.args[1])
              n == p.regs["rax"]
          IN  ~ (IsNum(d) /\ IsNum(n)) \/ p.regs["rdx"] # SignOf(p) \/ d.n = 0 \/ ~ Fits(Quotient(n.n, d.n))
=============================================================================
