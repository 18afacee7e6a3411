---------------------------- MODULE EmittedCode ----------------------------
(***************************************************************************)
(* The code Emission makes of a function, run by the processor of X64 from *)
(* the moment the function is called, next to what the function means      *)
(* (src/src/ir/instr.rs).  Other functions, the runtime and the C library  *)
(* do what their callers must expect of them: destroy every register they  *)
(* may and the room they are owed.                                         *)
(***************************************************************************)
EXTENDS Emission

CONSTANTS
    Cases,       \* functions `fns` compiled for `abi`, with every allocation of `locs`, called in all
                 \* the ways of `givens` (the arguments) and `stacks` (where the stack is, and ends)
    Heap,        \* what is in memory outside of the stack
    CalleeBytes  \* the most stack the runtime and the C library take

VARIABLES e, code, p
vars == <<e, code, p>>
View == <<e, p, code = << >> >>

Saved == {"rbx", "rsi", "rdi", "r12"}
Volatile(abi) == {"rax", "rcx", "rdx", "r8", "r9", "r10", "r11", "xmm0", "xmm1"} \cup (ToSet(abi.args) \cap {"rdi", "rsi"})
Registers == Saved \cup Volatile(Linux) \cup {"rsp"}
Limit == Word("limit", 0)
Answer == Num(77)
Stack(n) == Word("stack", n)

(* What the caller left: its own words above the address to return to. *)
CallersWords == {Stack(e.rsp + 8 * k) : k \in 1 + e.abi.shadow \div 8 .. 6}
CallersRegister(r) == Word(r, 0)
Called(f) ==
    [regs |-> [r \in Registers |->
        IF r = "rsp" THEN Stack(f.rsp)
        ELSE IF \E k \in DOMAIN f.given : f.abi.args[k] = r THEN f.given[CHOOSE k \in DOMAIN f.given : f.abi.args[k] = r]
        ELSE IF r \in Saved \ Volatile(f.abi) THEN CallersRegister(r) ELSE Junk],
     mem |-> (Limit :> (IF f.fn.entry \/ ~ f.known THEN Num(0) ELSE Stack(f.bottom + StackMargin)))
             @@ [w \in {Stack(f.rsp + 8 * k) : k \in 0 .. 6} |-> Word("caller", w.n - f.rsp)] @@ Heap,
     flags |-> NoFlags, touched |-> PageOf(Stack(f.rsp)), floor |-> f.bottom,
     pc |-> 1, seen |-> << >>, status |-> "running"]

RegistersOf(loc) == SetToSeq({loc[v].reg : v \in DOMAIN loc} \ {""})
SlotsOf(loc) == Max({0} \cup {loc[v].slot + 1 : v \in {u \in DOMAIN loc : loc[u].reg = ""}})
Emission(abi, fn, loc) ==
    Emitter([abi |-> abi, fn |-> fn, loc |-> loc, saved |-> RegistersOf(loc), slots |-> SlotsOf(loc)])

(* A frame of whole pages begun at a page's edge: its last page is not touched *)
(* before a call, which then steps over it.  Left out; see the README.        *)
AtAnEdge(f, stack) ==
    /\ (stack.rsp - 8 * Len(f.saved)) % PageBytes = 0
    /\ f.frame.size # 0 /\ f.frame.size % PageBytes = 0 /\ ~ IsLeaf(f)

Init ==
    /\ \E c \in Cases : \E fn \in c.fns, loc \in c.locs, given \in c.givens, stack \in c.stacks :
           /\ ~ AtAnEdge(Emission(c.abi, fn, loc), stack)
           /\ e = Emission(c.abi, fn, loc) @@ stack @@ [given |-> given, answer |-> Answer]
    /\ code = << >>
    /\ p = Called(e)

-----------------------------------------------------------------------------
(* The function is compiled; then its code runs a stretch of instructions at  *)
(* a time, up to one that goes elsewhere or traps. *)
Stubs == IF e.abi.name = "linux" THEN LinuxStubs ELSE WindowsStubs
InstrAt(k) == IF k <= Len(code) THEN code[k] ELSE Stubs[k - Len(code)]
i == InstrAt(p.pc)
Running == p.status = "running" /\ code # << >>
Control == {"jmp", "jcc", "label", "call", "callmem", "ret"}
PositionOf(label) == CHOOSE k \in 1 .. Len(code) + Len(Stubs) : InstrAt(k).op = "label" /\ InstrAt(k).to = label
Keep == UNCHANGED <<e, code>>

Emit ==
    /\ code = << >>
    /\ code' = Code(e)
    /\ UNCHANGED <<e, p>>
RECURSIVE Stretch(_)
Stretch(q) ==
    LET j == InstrAt(q.pc)
    IN  IF j.op \in Control THEN q
        ELSE IF Traps(q, j) THEN [q EXCEPT !.status = "trapped"]
        ELSE Stretch([Executed(q, j) EXCEPT !.pc = @ + 1])
Compute ==
    /\ Running /\ i.op \notin Control
    /\ p' = Stretch(p) /\ Keep
Go ==
    /\ Running /\ i.op \in {"jmp", "jcc", "label"}
    /\ p' = [p EXCEPT !.pc = IF i.op = "jmp" \/ (i.op = "jcc" /\ Holds(i.cc, p.flags)) THEN PositionOf(i.to) ELSE @ + 1]
    /\ Keep
Leave ==
    /\ Running /\ i.op = "ret"
    /\ p' = [p EXCEPT !.status = "returned", !.seen = Append(@, <<"return", <<p.regs["rax"]>> >>)]
    /\ Keep

(* What a callee reads of its registers, if anyone is to see it. *)
Arity == [f1 |-> 1, f2 |-> 2, f3 |-> 3, fixup |-> 3, write_text |-> 2, print_str |-> 1, print_char |-> 1, write |-> 3]
InArg(k) == p.regs[e.abi.args[k]]
FloatFormats == {"f", "f line"}
PrintfSees ==
    LET format == InArg(1).is
        inVector == p.regs[e.abi.vector]
        vectors == IF format \in FloatFormats THEN 1 ELSE 0
    IN  <<InArg(1), IF e.abi.al /\ p.regs["rax"] # Num(vectors) THEN Junk
                    ELSE IF vectors = 0 THEN InArg(2)
                    ELSE IF e.abi.shadowed /\ InArg(2) # inVector THEN Junk ELSE inVector>>
Noticed(callee) ==
    IF callee = "printf" THEN << <<callee, PrintfSees>> >>
    ELSE IF callee \in DOMAIN Arity THEN << <<callee, [k \in 1 .. Arity[callee] |-> InArg(k)]>> >>
    ELSE << >>
AnswerOf(callee) == IF callee = "pthread_getattr_np" THEN (IF e.known THEN Num(0) ELSE Num(1)) ELSE e.answer
ToldBottom(callee) ==
    CASE callee = "pthread_attr_getstack" -> (InArg(2) :> Stack(e.bottom))
      [] callee = "GetCurrentThreadStackLimits" -> (InArg(1) :> Stack(e.bottom))
      [] OTHER -> << >>

Call ==
    LET callee == IF i.op = "call" THEN i.args[1].sym ELSE At(p, Place(p, i.args[1])).is
        rsp == p.regs["rsp"]
        deepest == Stack(rsp.n - (IF callee \in {"f1", "f2", "f3"} THEN 8 ELSE CalleeBytes))
        destroyed == {rsp} \cup {Stack(rsp.n + 8 * k) : k \in 0 .. e.abi.shadow \div 8 - 1}
    IN  /\ Running /\ i.op \in {"call", "callmem"}
        /\ p' = IF Traps(p, i) \/ ~ CanTouch(p, Stack(rsp.n - 8)) \/ deepest.n < p.floor THEN [p EXCEPT !.status = "trapped"]
                ELSE [p EXCEPT
                    !.regs = [r \in Registers |-> IF r = "rax" THEN AnswerOf(callee) ELSE IF r \in Volatile(e.abi) THEN Junk ELSE @[r]],
                    !.mem = ToldBottom(callee) @@ (IF e.abi.shadow = 0 THEN @ ELSE [w \in destroyed |-> Junk] @@ @),
                    !.touched = IF PageOf(rsp) - 1 < @ THEN PageOf(rsp) - 1 ELSE @,
                    !.seen = @ \o Noticed(callee),
                    !.pc = @ + 1, !.status = IF callee = "exit" THEN "exited" ELSE @]
        /\ Keep

Ended == p.status # "running" /\ UNCHANGED vars
Next == Emit \/ Compute \/ Go \/ Leave \/ Call \/ Ended
Spec == Init /\ [][Next]_vars

-----------------------------------------------------------------------------
(* What the function means: s has registers, memory, and what was seen.      *)
ArithMeaning(how, a, b) == CASE how = "add" -> a + b [] how = "sub" -> a - b [] how = "imul" -> a * b
Ordered(how, a, b) ==
    CASE how = "e" -> a = b [] how = "ne" -> a # b [] how = "l" -> a < b
      [] how = "le" -> a <= b [] how = "g" -> a > b [] how = "ge" -> a >= b
Fails(j, vals) ==
    LET a == vals[1].n
        b == vals[2].n
    IN  CASE j.op = "bin" -> IF Fits(ArithMeaning(j.how, a, b)) THEN "" ELSE "overflow"
          [] j.op = "divide" -> IF b = 0 THEN "zero" ELSE IF a = MinInt /\ b = -1 THEN "quotient" ELSE ""
          [] j.op = "elem" -> IF (IsConst(j.args[2]) /\ IsConst(j.args[3])) \/ b \in 0 .. vals[3].n - 1 THEN "" ELSE "bounds"
          [] j.op = "toint" -> IF HasInt(vals[1]) THEN "" ELSE "no int"
          [] OTHER -> ""
Moves(w, n) == [w EXCEPT !.n = @ + n]
Gives(j, vals, s) ==
    LET a == vals[1]
        b == vals[2]
    IN  CASE j.op = "const" -> Num(j.n)
          [] j.op = "param" -> e.given[j.n]
          [] j.op = "addr" -> Word(j.how, 0)
          [] j.op = "frame" -> Word("local", j.n)
          [] j.op = "copy" -> a
          [] j.op = "bin" -> Num(ArithMeaning(j.how, a.n, b.n))
          [] j.op = "divide" -> Num(IF j.how = "div" THEN Quotient(a.n, b.n) ELSE Remainder(a.n, b.n))
          [] j.op = "cmp" -> Truth(Ordered(j.how, a.n, b.n))
          [] j.op = "fcmp" -> Truth(IF Unordered(a, b) THEN j.how = "ne" ELSE Ordered(j.how, Rank(a), Rank(b)))
          [] j.op = "fbin" -> IF j.how = "addsd" THEN Sum(a, b) ELSE Sum(a, Negated(b))
          [] j.op = "tofloat" -> ToFloat(a.n)
          [] j.op = "toint" -> Num(TowardZero(a.n))
          [] j.op = "elem" -> Moves(a, b.n * j.n)
          [] j.op = "field" -> Moves(a, j.n)
          [] j.op \in {"load", "loadchar"} -> s.mem[a]
          [] j.op = "count" -> s.mem[Moves(a, -8)]
          [] j.op \in {"call", "callvirtual"} -> e.answer
Printed(j, v) ==
    LET line(format) == IF j.n = 1 THEN format \o " line" ELSE format
        formatted(format, w) == << <<"printf", <<Word(line(format), 0), w>> >> >>
    IN  CASE j.how = "int" -> formatted("d", v)
          [] j.how = "float" -> formatted("f", v)
          [] j.how = "bool" -> formatted("b", Word(IF v = Num(0) THEN "false" ELSE "true", 0))
          [] j.how = "enum" -> formatted("s", Heap[Word("names", 8 * v.n)])
          [] OTHER -> << <<IF j.how = "string" THEN "print_str" ELSE "print_char", <<v>> >> >>
                      \o (IF j.n = 1 THEN << <<"write_text", <<Word("newline", 0), Num(1)>> >> >> ELSE << >>)
Shows(j, vals, s) ==
    CASE j.op = "call" -> << <<j.how, vals>> >>
      [] j.op = "callvirtual" -> << <<s.mem[Moves(s.mem[vals[1]], 8 * j.n)].is, vals>> >>
      [] j.op = "fixup" -> << <<"fixup", vals \o <<Num(j.n)>> >> >>
      [] j.op = "printtext" -> << <<"write_text", <<Word(j.how, 0), Num(j.n)>> >> >>
      [] j.op = "print" -> Printed(j, vals[1])
      [] OTHER -> << >>
Leaves(j, vals, s) ==
    CASE j.op = "store" -> (vals[1] :> vals[2]) @@ s.mem
      [] j.op = "copybytes" -> [k \in {Moves(vals[1], 8 * n) : n \in 0 .. j.n \div 8 - 1} |->
                                   s.mem[Moves(vals[2], k.n - vals[1].n)]] @@ s.mem
      [] OTHER -> s.mem

Meant(s, x) == IF IsConst(x) THEN x.w ELSE s.regs[x.reg]
MeantAll(s, xs) == [k \in DOMAIN xs |-> Meant(s, xs[k])]
RECURSIVE Means(_, _, _)
Means(s, b, k) ==
    LET block == e.fn.blocks[b]
        j == block.instrs[k]
        vals == MeantAll(s, j.args)
        reason == Fails(j, vals \o <<Junk, Junk>>)
        ends == MeantAll(s, block.term.vals)
        reported(r) == CHOOSE n \in DOMAIN Reasons : Reasons[n] = r
    IN  IF k > Len(block.instrs)
        THEN CASE block.term.kind = "jump" -> Means(s, block.term.to[1], 1)
               [] block.term.kind = "branch" -> Means(s, block.term.to[IF ends[1].n # 0 THEN 1 ELSE 2], 1)
               [] OTHER -> [s EXCEPT !.seen = Append(@, <<"return", IF e.fn.entry THEN <<Num(0)>> ELSE ends>>)]
        ELSE IF reason # ""
        THEN [s EXCEPT !.seen = Append(@, <<"write", <<Num(2), Word(reason, 0), Num(reported(reason))>> >>)]
        ELSE Means([regs |-> IF j.dst = 0 THEN s.regs ELSE [s.regs EXCEPT ![j.dst] = Gives(j, vals \o <<Junk, Junk>>, s)],
                    mem |-> Leaves(j, vals, s), seen |-> s.seen \o Shows(j, vals, s)], b, k + 1)
Meaning == Means([regs |-> [v \in DOMAIN e.loc |-> Junk], mem |-> Heap, seen |-> << >>], 1, 1)
LimitKnown == e.known \/ e.abi.name = "windows"
StackIsShort ==
    /\ e.known /\ e.fn.checksStack /\ ~ e.fn.entry
    /\ e.rsp - 8 * Len(e.saved) - e.frame.size < e.bottom + StackMargin
OutOfStack == << <<"write", <<Num(2), Word("stack", 0), Num(Len(Reasons))>> >> >>

-----------------------------------------------------------------------------
(* What the code shows, where and why it stops and what it leaves in memory  *)
(* are what the function means, wherever its values live: no result is        *)
(* written over an operand still to be read, over another value or over an    *)
(* argument, no fault is missed and none made up.                            *)
ShowsWhatItMeans ==
    p.status \in {"returned", "exited"} =>
        \/ p.seen = OutOfStack /\ StackIsShort
        \/ /\ p.seen = Meaning.seen
           /\ p.status = "returned" => \A w \in DOMAIN Heap : p.mem[w] = Meaning.mem[w]

(* The promises to other functions: at every call the stack is aligned and     *)
(* has the room the callee is owed below this function's own; at the return    *)
(* the caller's registers, stack and words are as they were.  The entry point  *)
(* leaves the limit of the stack, if there is one to know, to all the others. *)
KeepsTheConvention ==
    /\ Running /\ i.op \in {"call", "callmem"} => p.regs["rsp"].n % 16 = 0
    /\ Running /\ i.op = "ret" =>
        /\ p.regs["rsp"] = Stack(e.rsp)
        /\ At(p, Stack(e.rsp)) = Word("caller", 0)
        /\ \A r \in Saved \ Volatile(e.abi) : p.regs[r] = CallersRegister(r)
        /\ \A w \in CallersWords : p.mem[w] = Word("caller", w.n - e.rsp)
        /\ e.fn.entry =>
              p.mem[Limit] = IF e.fn.checksStack /\ LimitKnown THEN Stack(e.bottom + StackMargin) ELSE Num(0)

(* Every instruction emitted is one the processor has: no two places in        *)
(* memory, no immediate too wide or on the left, no scale it has no mode for. *)
OnlyRealInstructions == p.pc = 1 /\ Running => \A k \in 1 .. Len(code) + Len(Stubs) : Encodable(InstrAt(k))

(* The processor never refuses: no page of the stack is stepped over, none     *)
(* past its end touched, with what is called let have its share, down to the   *)
(* report of a stack that has run out; no division traps.                    *)
NeverTraps == p.status # "trapped"
=============================================================================
