-------------------------- MODULE MC_EmittedCode --------------------------
(***************************************************************************)
(* EmittedCode for functions of one instruction of every kind between the  *)
(* values of their parameters and a call that shows what became of them,   *)
(* with every place those values can share or not share.                   *)
(***************************************************************************)
EXTENDS EmittedCode

Reg1 == [reg |-> "rbx", slot |-> 0]
Reg2(abi) == [reg |-> IF abi = Linux THEN "r12" ELSE "rsi", slot |-> 0]
Slot(k) == [reg |-> "", slot |-> k]
Places(abi) == {Reg1, Reg2(abi), Slot(0), Slot(1)}

(* Values 1 to 3 are parameters; 4 is the result, which may share the place   *)
(* of 2 or 3 unless they are read again; 5 is what the call answers.         *)
Allocations(abi, kept) ==
    {loc \in [1 .. 5 -> Places(abi)] :
        /\ loc[1] \in {Reg1, Slot(0)}
        /\ Cardinality({loc[v] : v \in 1 .. 3}) = 3
        /\ loc[4] # loc[1] /\ (kept => loc[4] \notin {loc[2], loc[3]})
        /\ loc[5] = loc[1]}
x == V(2)
y == V(3)
z == V(4)
Params == [k \in 1 .. 3 |-> Instr("param", k, << >>, "", k)]
Return(v) == Term("return", <<v>>, << >>)
Function(blocks, frameBytes) ==
    [entry |-> FALSE, checksStack |-> FALSE, writesText |-> TRUE, frameBytes |-> frameBytes, blocks |-> blocks]
(* Some instructions, and then a call that shows the result. *)
Shown(instrs, kept) ==
    Function(<<Block(Params \o instrs \o <<Instr("call", 5, IF kept THEN <<V(1), z, y>> ELSE <<V(1), z>>, IF kept THEN "f3" ELSE "f2", 0)>>,
                     Return(V(5)))>>, 16)
Anywhere == {[rsp |-> -40, bottom |-> -1000, known |-> FALSE]}
Case(abi, fns, locs, givens, stacks) == [abi |-> abi, fns |-> fns, locs |-> locs, givens |-> givens, stacks |-> stacks]
RanWith(abi, bodies, values, kept) ==
    {Case(abi, {Shown(body, kept) : body \in bodies}, Allocations(abi, kept), {<<Num(3), v[1], v[2]>> : v \in values}, Anywhere)}
RanOnce(abi, bodies, values) == RanWith(abi, bodies, values, FALSE)

(* -257 and 300 are too wide to be immediates of most instructions. *)
Pairs(S) == {<<Num(a), Num(b)>> : a \in S, b \in S}
Operands == {<<x, y>>, <<y, x>>, <<x, x>>}
Binary(op, hows, argss) == {<<Instr(op, 4, args, how, 0)>> : args \in argss, how \in hows}

Sums == RanOnce(Linux, Binary("bin", {"add", "sub", "imul"}, {<<x, y>>, <<y, x>>}), Pairs({MinInt, -1, 300}))
Immediates == RanOnce(Linux, Binary("bin", {"add", "sub", "imul"}, {<<x, x>>, <<x, C(-257)>>, <<C(300), y>>, <<x, C(2)>>, <<C(2), y>>}),
                      {<<Num(a), Num(a)>> : a \in {MinInt, -1, 300}})
Divisions == RanOnce(Linux, Binary("divide", {"div", "rem"}, {<<x, y>>, <<y, x>>}), Pairs({MinInt, -1, 0, 7}))
    \cup RanOnce(Linux, Binary("divide", {"div", "rem"}, {<<x, C(-1)>>, <<x, C(0)>>, <<x, C(-2)>>, <<C(MinInt), y>>, <<C(7), y>>}),
                 {<<Num(a), Num(a)>> : a \in {MinInt, -1, 0, 7}})
Orders == {"e", "ne", "l", "le", "g", "ge"}
Comparisons == RanOnce(Linux, Binary("cmp", Orders, {<<x, y>>, <<C(-257), y>>, <<x, C(300)>>}), {<<Num(-257), Num(300)>>, <<Num(300), Num(-257)>>, <<Num(-257), Num(-257)>>})

Floats == {NaN, Inf(-1), Half(-1), Half(3)}
FloatPairs == {<<f, g>> : f \in Floats, g \in Floats}
FloatOnes == RanOnce(Windows, Binary("fcmp", Orders, {<<x, y>>}) \cup Binary("fbin", {"addsd", "subsd"}, {<<x, y>>}), {<<f, g>> \in FloatPairs : f # g \/ f = NaN})
    \cup RanOnce(Linux, Binary("fbin", {"subsd"}, {<<x, Const(Half(3))>>, <<Const(Half(3)), y>>}), {<<f, f>> : f \in Floats})
OfFloat == {NaN, Inf(1), Inf(-1), Half(-3), Half(3), ToFloat(MinInt), ToFloat(MinInt - 1), ToFloat(MaxInt), ToFloat(MaxInt + 1)}
Casts == RanOnce(Linux, {<<Instr("toint", 4, <<x>>, "", 0)>>}, {<<f, Num(1)>> : f \in OfFloat})
    \cup RanOnce(Linux, {<<Instr("tofloat", 4, <<v>>, "", 0)>> : v \in {x, C(300)}}, {<<Num(n), Num(1)>> : n \in {MinInt, 0, MaxInt}})

(* An array of three words, of two objects of three words, a text, an object *)
(* with a table of methods, and the names of an enum. *)
HeapAt(n) == Word("heap", n)
MCHeap ==
    [w \in {HeapAt(8 * k) : k \in 0 .. 5} |-> Num(w.n + 1)]
    @@ (Word("text", -8) :> Num(2)) @@ (Word("text", 0) :> Num(97)) @@ (Word("text", 4) :> Num(98))
    @@ (Word("object", 0) :> Word("methods", 0)) @@ (Word("methods", 8) :> Word("f1", 0))
    @@ (Word("names", 0) :> Word("red", 0)) @@ (Word("names", 8) :> Word("blue", 0))
LoadZ == Instr("load", 4, <<z>>, "", 0)
Elements == RanOnce(Linux, {<<Instr("elem", 4, <<x, y, len>>, "", 8), LoadZ>> : len \in {C(2), V(1)}}
                      \cup {<<Instr("elem", 4, <<x, y, C(2)>>, "", 24), LoadZ>>},
                    {<<HeapAt(0), Num(n)>> : n \in {MinInt, -1, 0, 1, 2, 3}})
    \cup RanOnce(Linux, {<<Instr("elem", 4, <<x, C(1), C(2)>>, "", 24), LoadZ>>, <<Instr("elem", 4, <<x, C(2), V(1)>>, "", 8), LoadZ>>}, {<<HeapAt(0), Num(1)>>})
Texts == RanOnce(Linux, {<<Instr("elem", 4, <<x, y, V(1)>>, "", 4), Instr("loadchar", 4, <<z>>, "", 0)>>, <<Instr("count", 4, <<x>>, "", 0)>>},
                 {<<Word("text", 0), Num(n)>> : n \in 0 .. 1})
Memory == RanWith(Linux, {<<Instr("store", 0, <<x, v>>, "", 0), Instr("load", 4, <<x>>, "", 0)>> : v \in {y, C(-257), C(5)}}
                 \cup {<<Instr("field", 4, <<x>>, "", 16), LoadZ>>,
                       <<Instr("field", 4, <<x>>, "", 24), Instr("copybytes", 0, <<z, x>>, "", 16), Instr("field", 4, <<x>>, "", 32), LoadZ>>,
                       <<Instr("frame", 4, << >>, "", 8), Instr("store", 0, <<z, y>>, "", 0), Instr("frame", 4, << >>, "", 0),
                         Instr("store", 0, <<z, C(-257)>>, "", 0), Instr("frame", 4, << >>, "", 8), LoadZ>>},
              {<<HeapAt(0), Num(9)>>}, TRUE)
Plain(abi) == RanOnce(abi, {<<Instr("const", 4, << >>, "", n)>> : n \in {0, -257}} \cup {<<Instr("copy", 4, <<v>>, "", 0)>> : v \in {x, C(300)}}
                      \cup {<<Instr("addr", 4, << >>, "table", 0)>>}, {<<Num(1), Num(2)>>})

(* Calls of every kind, on both platforms. *)
CopyX == Instr("copy", 4, <<x>>, "", 0)
Calls(abi) ==
    RanOnce(abi, {<<Instr("callvirtual", 4, <<x>>, "", 1)>>, <<Instr("fixup", 0, <<x, C(2)>>, "", 24), CopyX>>}, {<<Word("object", 0), Num(1)>>})
    \cup RanOnce(abi, {<<Instr("print", 0, <<x>>, how, n), CopyX>> : how \in {"int", "bool", "enum", "string", "char"}, n \in 0 .. 1}, {<<Num(1), Num(1)>>, <<Num(0), Num(1)>>})
    \cup RanOnce(abi, {<<Instr("print", 0, <<x>>, "float", 1), CopyX>>}, {<<Half(3), Num(1)>>})
    \cup RanOnce(abi, {<<Instr("printtext", 0, << >>, "hello", 5), CopyX>>}, {<<Num(1), Num(1)>>})

(* Branches on a comparison that only they read, on one read again, and on a  *)
(* value; to the next block and over it.                                    *)
Less(args) == Instr("cmp", 4, args, "l", 0)
Tested(first, cond, to, end) ==
    Function(<<Block(Params \o first, Term("branch", <<cond>>, to)),
               Block(<< >>, Return(end)),
               Block(<<Instr("call", 0, <<V(1)>>, "f1", 0)>>, Term("jump", << >>, <<2>>))>>, 0)
Branches ==
    {Case(Linux,
          {Tested(c[1], c[2], to, end) :
              to \in {<<2, 3>>, <<3, 2>>}, end \in {V(1), z},
              c \in {<<<<Less(<<x, y>>)>>, z>>, <<<<Less(<<C(5), y>>)>>, z>>, <<<<CopyX>>, z>>, <<<<CopyX>>, C(1)>>, <<<<CopyX>>, C(0)>>}},
          Allocations(Linux, TRUE), {<<Num(3), Num(v[1]), Num(v[2])>> : v \in {<<-257, 300>>, <<300, -257>>, <<0, 0>>}}, Anywhere)}

(* Frames: leaves and not, of up to three pages, with and without registers to *)
(* save, where the stack has room and where it has not.                      *)
Framed(leaf, entry, checks, bytes) ==
    [Function(<<Block((IF leaf THEN << >> ELSE <<Instr("printtext", 0, << >>, "hello", 5)>>)
                      \o <<Instr("frame", 1, << >>, "", 0), Instr("store", 0, <<V(1), C(7)>>, "", 0), Instr("load", 2, <<V(1)>>, "", 0)>>, Return(V(2)))>>, bytes)
        EXCEPT !.entry = entry, !.checksStack = checks]
FramedOnes(entry, checks) == {Framed(leaf, entry, checks, bytes) : leaf \in BOOLEAN, bytes \in {8, 40, 48, 112, 152}}
Stacks(bottoms, known) == {[rsp |-> rsp, bottom |-> bottom, known |-> k] : rsp \in {-24, -56}, bottom \in bottoms, k \in known}
FrameCases(abi) ==
    LET locs == {<<Slot(0), Slot(1)>>, <<Reg1, Slot(0)>>, <<Reg1, Reg2(abi)>>}
    IN  {Case(abi, FramedOnes(FALSE, TRUE), locs, {<< >>}, Stacks({-208, -272, -304, -352, -400}, {TRUE})),
         Case(abi, FramedOnes(FALSE, TRUE) \cup FramedOnes(TRUE, TRUE) \cup FramedOnes(FALSE, FALSE) \cup FramedOnes(TRUE, FALSE),
              locs, {<< >>}, Stacks({-1000}, BOOLEAN))}

MCCases ==
    Sums \cup Immediates \cup Divisions \cup Comparisons \cup FloatOnes \cup Casts \cup Elements \cup Texts \cup Memory
        \cup Plain(Linux) \cup Plain(Windows) \cup Calls(Linux) \cup Calls(Windows) \cup Branches
        \cup FrameCases(Linux) \cup FrameCases(Windows)
=============================================================================
