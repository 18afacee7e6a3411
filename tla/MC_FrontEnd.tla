----------------------------- MODULE MC_FrontEnd -----------------------------
(***************************************************************************)
(* FrontEnd for functions over an int x, a bool b, a color c, a shape s    *)
(* and an array a of two ints.  `Sweep` puts an expression of every form,  *)
(* well typed or not, to every use; `Flow` puts pieces of program one      *)
(* after the other, in branches and in loops; `Wrong` has one mistake of   *)
(* each kind that neither of them makes.                                   *)
(***************************************************************************)
EXTENDS FrontEnd

MCLeast == -8

Color == Ty("color")
Shape == Ty("shape")
Two == ArrayOf(IntTy, 2)
Variant(name, payload) == [name |-> name, payload |-> payload]
MCEnums ==
    [color |-> <<Variant("Red", << >>), Variant("Green", << >>)>>,
     shape |-> <<Variant("Dot", << >>), Variant("Box", <<IntTy, IntTy>>)>>]

ask == "ask"
hush == "hush"
flag == "flag"
pair == "pair"
MCSignatures ==
    [ask |-> [params |-> <<IntTy>>, ret |-> IntTy], hush |-> [params |-> << >>, ret |-> Nothing],
     flag |-> [params |-> <<Two>>, ret |-> BoolTy], pair |-> [params |-> <<IntTy>>, ret |-> Two]]

Params5 == << [name |-> "x", ty |-> IntTy], [name |-> "b", ty |-> BoolTy], [name |-> "c", ty |-> Color],
              [name |-> "s", ty |-> Shape], [name |-> "a", ty |-> Two] >>
MCArgumentLists ==
    {<<Num(1), Truly(0), Of("color", 0, << >>), Of("shape", 1, <<Num(3), Num(2)>>), Of("array", 0, <<Num(1), Num(4)>>)>>,
     <<Num(2), Truly(1), Of("color", 1, << >>), Of("shape", 0, << >>), Of("array", 0, <<Num(0), Num(7)>>)>>}
MCAnswerLists == {<<0, 1, 0, 1, 0, 1, 0, 1, 0, 1, 0, 1>>, <<1, 1, 0, 1, 1, 0, 1, 1, 0, 1, 1, 0>>}

-----------------------------------------------------------------------------
(* Expressions. *)
Int0(n) == Expr("int", "", n, << >>)
Bool0(n) == Expr("bool", "", n, << >>)
Var(x) == Expr("var", x, 0, << >>)
Bin(op, l, r) == Expr("bin", op, 0, <<l, r>>)
Cmp(op, l, r) == Expr("cmp", op, 0, <<l, r>>)
Logic(op, l, r) == Expr("logic", op, 0, <<l, r>>)
Neg(e) == Expr("neg", "", 0, <<e>>)
Not(e) == Expr("not", "", 0, <<e>>)
Call(name, es) == Expr("call", name, 0, es)
At(a, i) == Expr("index", "", 0, <<a, i>>)
LenOf(e) == Expr("len", "", 0, <<e>>)
Array(es) == Expr("array", "", 0, es)
VariantOf(enum, name, es) == [Expr("variant", enum, 0, es) EXCEPT !.member = name]
Match(e, arms) == [Expr("match", "", 0, <<e>>) EXCEPT !.arms = arms]
Gives(p, e) == Arm(p, <<e>>, << >>)
Does(p, stmts) == Arm(p, << >>, stmts)
Otherwise == Pattern("wildcard", "", "", 0, << >>)
Is(n) == Pattern("literal", "int", "", n, << >>)
IsBool(n) == Pattern("literal", "bool", "", n, << >>)
IsColor(name) == Pattern("variant", "color", name, 0, << >>)
IsDot == Pattern("variant", "shape", "Dot", 0, << >>)
IsBox(binds) == Pattern("variant", "shape", "Box", 0, binds)

x == Var("x")
b == Var("b")
c == Var("c")
s == Var("s")
a == Var("a")
Red == VariantOf("color", "Red", << >>)
Green == VariantOf("color", "Green", << >>)
Dot == VariantOf("shape", "Dot", << >>)
Box(l, r) == VariantOf("shape", "Box", <<l, r>>)
Zero == Int0(0)
One == Int0(1)

(* Statements. *)
Prints(e) == Stmt("print", <<e>>, << >>)
Let(ty, name, e) == [Stmt("decl", <<e>>, << >>) EXCEPT !.name = name, !.ty = ty]
Assign(l, e) == Stmt("assign", <<l, e>>, << >>)
If(e, then) == Stmt("if", <<e>>, <<then>>)
IfElse(e, then, else) == Stmt("if", <<e>>, <<then, else>>)
While(e, body) == Stmt("while", <<e>>, <<body>>)
For(init, e, step, body) == [Stmt("for", <<e>>, <<body>>) EXCEPT !.stmts = <<init, step>>]
Returns(e) == Stmt("return", <<e>>, << >>)
Leave == Stmt("return", << >>, << >>)
Break == Stmt("break", << >>, << >>)
Continue == Stmt("continue", << >>, << >>)
Choice(e, arms) == Stmt("match", <<Match(e, arms)>>, << >>)
Calls(e) == Stmt("call", <<e>>, << >>)

Gets(ret, stmts) == FnDecl("f", Params5, ret, stmts)
Runs(stmts) == Gets(Nothing, stmts)

-----------------------------------------------------------------------------
Atoms == {One, Neg(Int0(2)), Bool0(1), x, b, c, s, a, Red, Dot}
ArmLists ==
    {<<Gives(IsColor("Red"), One), Gives(IsColor("Green"), x)>>,
     <<Gives(IsColor("Green"), b), Does(IsColor("Red"), <<Leave>>)>>,
     <<Gives(IsColor("Red"), One), Does(IsColor("Green"), <<Prints(x)>>)>>,
     <<Gives(IsColor("Green"), One)>>,
     <<Gives(IsColor("Red"), One), Gives(Otherwise, x)>>,
     <<Gives(IsDot, One), Gives(IsBox(<<"p", "q">>), Bin("sub", Var("p"), Var("q")))>>,
     <<Gives(IsBox(<<"p">>), Var("p")), Gives(IsDot, x)>>,
     <<Gives(IsBox(<<"x", "y">>), x), Gives(IsDot, x)>>,
     <<Gives(Is(1), Zero), Gives(Is(2), a), Gives(Otherwise, Array(<<x, One>>))>>,
     <<Gives(Is(1), a), Gives(Is(2), Array(<<x, One>>)), Gives(Otherwise, a)>>,
     <<Gives(Is(1), Zero), Gives(Is(1), One), Gives(Is(2), x), Gives(Otherwise, x)>>,
     <<Gives(Is(1), Zero), Gives(Otherwise, One), Gives(Is(2), x)>>,
     <<Gives(Is(2), Zero)>>,
     <<Gives(IsBool(0), s), Gives(IsBool(1), Dot)>>,
     <<Gives(IsBool(1), One), Gives(IsBool(0), b)>>,
     <<Gives(IsBool(1), One), Gives(IsBool(0), x), Gives(Otherwise, Zero)>>}
Exprs ==
    Atoms \cup {Bin(op, l, r) : op \in {"add", "div"}, l \in Atoms, r \in Atoms}
          \cup {Cmp(op, l, r) : op \in {"eq", "lt"}, l \in Atoms, r \in Atoms}
          \cup {Logic("and", l, r) : l \in Atoms, r \in Atoms} \cup {Logic("or", b, Cmp("eq", Call(ask, <<x>>), r)) : r \in Atoms}
          \cup {Neg(l) : l \in Atoms} \cup {Not(l) : l \in Atoms} \cup {Not(Cmp("lt", x, r)) : r \in Atoms}
          \cup {LenOf(l) : l \in Atoms} \cup {At(l, r) : l \in {a, x, s}, r \in Atoms}
          \cup {Array(<<l, r>>) : l \in Atoms, r \in Atoms} \cup {Box(l, r) : l \in {x, b, One}, r \in {x, One, a}}
          \cup {Call(n, <<l>>) : n \in {ask, hush, flag, pair, "nobody"}, l \in Atoms}
          \cup {Match(l, arms) : l \in {x, b, c, s, a, Call(ask, <<x>>)}, arms \in ArmLists}

Uses(e) ==
    <<Runs(<<Prints(e), Prints(x)>>), Gets(IntTy, <<Returns(e)>>), Gets(Two, <<Returns(e)>>),
     Runs(<<Let(TypeOf(ParamScope(Runs(<< >>)), e), "y", e), Assign(x, One), Assign(At(a, Zero), One), Prints(Var("y"))>>),
     Runs(<<Assign(a, e), Prints(At(a, One))>>), Runs(<<If(e, <<Prints(One)>>)>>)>>
Sweep == {Uses(e)[k] : e \in Exprs, k \in 1 .. 6}

-----------------------------------------------------------------------------
Add1(v) == Assign(v, Bin("add", v, One))
i == Var("i")
Pieces ==
    {<<Add1(x), Prints(x)>>,
     <<Assign(At(a, x), Call(ask, <<x>>))>>,
     <<Assign(At(a, Call(ask, <<Zero>>)), Call(ask, <<One>>))>>,
     <<Assign(a, Array(<<At(a, One), At(a, Zero)>>)), Prints(At(a, Zero))>>,
     <<Let(Two, "d", a), Assign(At(a, Zero), Int0(5)), Prints(At(Var("d"), Zero)), Assign(a, Var("d"))>>,
     <<Let(Two, "d", Array(<<x, One>>)), Assign(Var("d"), Array(<<At(Var("d"), One), x>>)), Prints(At(Var("d"), Zero))>>,
     <<Assign(a, Call(pair, <<x>>)), Prints(Bin("div", x, At(a, Zero)))>>,
     <<Assign(s, Box(x, Int0(3)))>>,
     <<Assign(s, Dot)>>,
     <<Choice(s, <<Does(IsDot, <<Assign(s, Box(One, x))>>), Does(IsBox(<<"p", "q">>), <<Assign(x, Var("q")), Prints(Var("p"))>>)>>)>>,
     <<Assign(c, Match(c, <<Gives(IsColor("Red"), Green), Gives(IsColor("Green"), Red)>>)), Prints(c)>>,
     <<Assign(b, Logic("and", b, Call(flag, <<a>>))), Assign(b, Logic("or", Not(b), Cmp("ge", x, Int0(2))))>>,
     <<Calls(Call(hush, << >>)), Calls(Call(ask, <<Neg(x)>>))>>,
     <<If(b, <<Let(IntTy, "x", Int0(4)), Let(Two, "e", a), Prints(x), Assign(At(Var("e"), x), One)>>)>>}
Jumps ==
    {<< >>, <<If(b, <<Continue>>)>>, <<If(Not(b), <<Break>>)>>, <<If(Cmp("eq", x, Int0(2)), <<Leave>>)>>,
     <<Choice(x, <<Does(Is(1), <<Continue>>), Does(Is(3), <<Break>>), Does(Otherwise, <<Prints(Zero)>>)>>)>>,
     <<Let(IntTy, "v", Match(s, <<Gives(IsBox(<<"p", "q">>), Var("p")), Does(IsDot, <<Add1(x), Continue>>)>>)), Prints(Var("v"))>>,
     <<For(Let(IntTy, "j", Zero), Cmp("lt", Var("j"), Int0(2)), Add1(Var("j")), <<If(b, <<Break>>), If(Cmp("lt", Zero, i), <<Continue>>), Prints(Var("j"))>>)>>}
Loops(piece) ==
    {<<For(Let(IntTy, "i", Zero), Cmp("lt", i, Int0(2)), Add1(i), jump \o piece \o <<Prints(i)>>)>> : jump \in Jumps}
        \cup {<<While(Logic("and", Cmp("lt", x, Int0(3)), Not(Call(flag, <<a>>))), <<Let(IntTy, "i", x), Add1(x)>> \o piece \o jump)>> :
                 jump \in Jumps}
Ends ==
    {<<Nothing, << >>>>, <<Two, <<Returns(a)>>>>, <<Two, <<Returns(Array(<<At(a, One), x>>))>>>>, <<Two, <<Returns(Call(pair, <<x>>))>>>>,
     <<Shape, <<Returns(s)>>>>,
     <<IntTy, <<IfElse(b, <<Returns(x)>>, <<Choice(c, <<Does(IsColor("Red"), <<Returns(Zero)>>), Does(IsColor("Green"), <<Returns(One)>>)>>)>>)>>>>,
     <<IntTy, <<If(b, <<Returns(x)>>)>>>>,
     <<IntTy, <<Choice(c, <<Does(IsColor("Red"), <<Returns(Zero)>>), Does(IsColor("Green"), <<Prints(x)>>)>>)>>>>,
     <<IntTy, <<While(b, <<Returns(x)>>)>>>>}
Flow ==
    {Gets(end[1], p \o end[2]) : p \in Pieces, end \in Ends}
        \cup {Runs(p \o <<IfElse(b, q, p)>> \o q \o <<Prints(x), Prints(s), Prints(At(a, One))>>) : p \in Pieces, q \in Pieces}
        \cup {Runs(loop \o <<Prints(x), Prints(At(a, Zero))>>) : loop \in UNION {Loops(p) : p \in Pieces}}

Wrong ==
    {Runs(<<Let(IntTy, "y", x), Let(IntTy, "y", One)>>), Runs(<<Prints(Var("y"))>>), Runs(<<Break>>), Runs(<<If(b, <<Continue>>)>>),
     Runs(<<Prints(Bin("div", One, Bin("sub", One, One)))>>), Runs(<<Prints(Bin("mul", Int0(5), Int0(5)))>>),
     Runs(<<Prints(At(a, Bin("add", One, One)))>>), Runs(<<Assign(Var("y"), One)>>), Runs(<<Assign(At(x, Zero), One)>>),
     Runs(<<Returns(x)>>), Gets(IntTy, <<Leave>>), Runs(<<Prints(Array(<< >>))>>), Runs(<<Prints(Array(<<a>>))>>),
     Runs(<<Choice(c, <<Gives(IsColor("Red"), x), Does(IsColor("Green"), << >>)>>)>>),
     Runs(<<Choice(s, <<Does(IsDot, << >>), Does(IsBox(<<"p", "p">>), << >>)>>)>>),
     Runs(<<Prints(VariantOf("color", "Blue", << >>))>>), Runs(<<Prints(VariantOf("size", "Red", << >>))>>),
     Runs(<<Let(BoolTy, "y", One)>>), Runs(<<Prints(Match(b, <<Does(IsBool(0), <<Leave>>), Does(IsBool(1), <<Leave>>)>>))>>),
     FnDecl("f", <<[name |-> "x", ty |-> IntTy], [name |-> "x", ty |-> BoolTy]>>, Nothing, << >>),
     Runs(<<For(Let(IntTy, "i", Zero), i, Calls(Call("nobody", << >>)), << >>)>>), Runs(<<While(One, << >>)>>)}

(* Left out above, as what they do is not what they say (README, "Found by   *)
(* hand"): an index that is a length; a call of which an array is dropped;  *)
(* a variable that begins as an outer one of its name; a variant of what    *)
(* its variable was; the least integer, negated.                            *)
PastTheEnd == {Runs(<<Prints(At(a, LenOf(a)))>>)}
NowhereToAnswer == {Runs(<<Calls(Call(pair, <<x>>))>>)}
OfItsName == {Runs(<<If(Not(b), <<Let(IntTy, "x", Bin("add", x, One)), Prints(x)>>)>>)}
OfItself == {Gets(Shape, <<Assign(s, Box(Match(s, <<Gives(IsDot, Zero), Gives(IsBox(<<"p", "q">>), Var("q"))>>), One)), Returns(s)>>)}
LeastNegated == {Runs(<<Prints(Neg(Bin("sub", Neg(Int0(7)), One)))>>)}

-----------------------------------------------------------------------------
(* Whole programs, with everything there is to write in them.                *)
MCLiterals ==
    << <<"h", "i">>, <<"x", "=", "%", "d">>, <<"%", "s", "%", "%", "%", "e">>, <<"%", "q">>, <<"a", "%">> >>
Lit(kind, n) == Expr(kind, "", n, << >>)
Dotted(e, name) == Expr("field", name, 0, <<e>>)
Ask(e, name, es) == Expr("method", name, 0, <<e>> \o es)
Make(class, inits) == Expr("new", class, 0, inits)
Field(name, e) == Expr("init", name, 0, <<e>>)
Convert(name, e) == Expr("convert", name, 0, <<e>>)
Words2 == Expr("text", "", 2, << >>)
Fills(letter, e) == Expr("spec", letter, 0, <<e>>)
PrintsParts(parts) == Stmt("print", parts, << >>)
Line(parts) == [PrintsParts(parts) EXCEPT !.name = "line"]
Pushes(l, e) == Stmt("push", <<l, e>>, << >>)
Many(t) == [of |-> t.of, len |-> -1]
Param(t, name) == [name |-> name, ty |-> t]
Self == Param(Ty("self"), "self")
self == Var("self")

Shapes ==
    [enums |-> <<[name |-> "color", variants |-> MCEnums.color],
                 [name |-> "shape", variants |-> <<Variant("Dot", << >>), Variant("Box", <<IntTy, Many(Color)>>)>>]>>,
     classes |-> <<[name |-> "Base", base |-> << >>, fields |-> <<[ty |-> IntTy, name |-> "r"]>>, methods |-> <<1>>],
                   [name |-> "Ring", base |-> <<"Base">>, fields |-> <<[ty |-> ArrayOf(Color, 2), name |-> "cs"]>>, methods |-> <<2, 3>>]>>,
     functions |->
        <<FnDecl("area", <<Self>>, IntTy, <<Returns(Dotted(self, "r"))>>),
          FnDecl("set", <<Self, Param(IntTy, "v")>>, Nothing,
                 <<Assign(Dotted(self, "r"), Var("v")), Assign(At(Dotted(self, "cs"), Zero), Red), Leave>>),
          FnDecl("twice", <<Self>>, Nothing, << >>),
          FnDecl("main", << >>, Nothing,
                 <<Let(Ty("Ring"), "c", Make("Ring", <<Field("r", One), Field("cs", Array(<<Red, Green>>))>>)),
                   Calls(Ask(c, "set", <<Neg(Ask(c, "area", << >>))>>)),
                   Let(Shape, "s", Box(Int0(2), Array(<< >>)))>>)>>]
Lists ==
    [enums |-> << >>, classes |-> << >>,
     functions |->
        <<FnDecl("fill", <<Param(Many(Color), "xs"), Param(BoolTy, "b")>>, Many(Color),
                 <<For(Let(IntTy, "i", Zero), Cmp("lt", i, LenOf(Var("xs"))), Add1(i),
                       <<IfElse(Cmp("eq", i, Int0(2)), <<Continue>>,
                                <<IfElse(Logic("or", Cmp("gt", i, One), Not(Logic("and", b, Cmp("ne", i, One)))), <<Break>>,
                                         <<Pushes(Var("xs"), Red), Assign(At(Var("xs"), i), At(Var("xs"), Zero))>>)>>)>>),
                   Returns(Var("xs"))>>),
          FnDecl("main", << >>, Nothing,
                 <<Let(Many(Color), "cs", Call("fill", <<Array(<< >>), Bool0(1)>>)),
                   Let(ArrayOf(Color, 2), "ds", Array(<<Red, Green>>)),
                   Assign(At(Var("ds"), One), At(Var("cs"), Zero)),
                   For(Assign(x, Zero), Logic("and", b, Cmp("le", x, One)), Calls(Ask(x, "next", << >>)), <<Prints(x)>>)>>)>>]
Prose ==
    [enums |-> << >>, classes |-> << >>,
     functions |->
        <<FnDecl("main", << >>, Nothing,
                 <<PrintsParts(<<Words2, Fills("d", Convert("int", Lit("char", 3)))>>), Line(<< >>), Line(<<Words2>>),
                   Prints(Bin("add", Lit("str", 1), Var("t"))),
                   Line(<<Fills("s", Var("t")), Expr("text", "", 1, << >>), Fills("e", At(Var("cs"), One))>>),
                   While(Cmp("ge", Ask(At(Dotted(a, "b"), One), "c", << >>), Bin("rem", Bin("mul", Bin("sub", One, Bin("sub", x, Int0(2))), Int0(3)), Int0(4))),
                         <<Assign(At(Dotted(At(a, x), "n"), One), Lit("float", 2)), Leave>>)>>),
          FnDecl("pick", <<Param(Shape, "s")>>, IntTy,
                 <<Choice(x, <<Gives(Is(-1), Call(hush, << >>)), Does(Is(2), <<Calls(Call(hush, << >>))>>), Gives(Otherwise, Call(ask, <<One, x>>))>>),
                   Let(IntTy, "v", Bin("add", Match(s, <<Gives(IsDot, Zero), Gives(IsBox(<<"p", "q">>), Var("q"))>>), One)),
                   Choice(Var("t"), <<Does(Pattern("literal", "str", "", 1, << >>), <<Prints(One)>>), Does(Otherwise, << >>)>>),
                   Returns(Var("v"))>>)>>]
RECURSIVE Times(_, _, _)
Times(n, Wrap(_), e) == IF n = 0 THEN e ELSE Times(n - 1, Wrap, Wrap(e))
Deep ==
    [enums |-> << >>, classes |-> << >>,
     functions |->
        <<FnDecl("main", << >>, Nothing,
                 <<Assign(x, Times(MaxNesting - 2, Neg, x)), Assign(x, Times(MaxNesting - 2, LAMBDA e : Bin("sub", e, One), x)),
                   Assign(Times(MaxNesting - 1, LAMBDA e : Dotted(e, "n"), x), One), Calls(Call(hush, << >>))>>),
          FnDecl("main", << >>, Nothing, Times(MaxNesting - 1, LAMBDA e : <<If(b, e)>>, <<Break>>))>>]
(* Left out: a tree higher than the limit says it can be, as the levels of a  *)
(* chain are given back before the next one is put on top of it (README,    *)
(* "Found by hand").                                                        *)
Tall ==
    [enums |-> << >>, classes |-> << >>,
     functions |->
        <<FnDecl("main", << >>, Nothing,
                 <<Assign(x, Times(9, LAMBDA e : Bin("sub", e, One), Times(9, LAMBDA e : Bin("mul", e, Int0(2)), x)))>>),
          FnDecl("f", << >>, Nothing, << >>)>>]
MCTall == <<Tall>>
RECURSIVE Height(_)
Height(e) ==
    IF e.parts = << >> THEN 1
    ELSE 1 + Max({Height(e.parts[k]) : k \in DOMAIN e.parts})

(* No expression that is accepted is higher than the limit (parser.rs:315:   *)
(* what is counted is the depth of the tree).                               *)
NestsNoDeeper ==
    IsRead /\ tree.errors = << >> =>
        \A j \in DOMAIN tree.functions : \A k \in DOMAIN tree.functions[j].body :
            \A part \in ToSet(tree.functions[j].body[k].parts) : Height(part) <= MaxNesting

MCListings == <<Shapes, Lists, Prose, Deep>>
MCSlips ==
    {Source!Token(kind, "", 0) : kind \in {";", "{", "}", "(", ")", "[", ",", "=", "-", "else", "fn"}}
        \cup {Source!Token("ident", "x", 0), Source!Token("int", "", 1), Source!Token("str", "", 4), Source!Token("str", "", 5)}

MCPrograms == Sweep \cup Flow \cup Wrong
=============================================================================
