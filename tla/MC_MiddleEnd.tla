---------------------------- MODULE MC_MiddleEnd ----------------------------
(***************************************************************************)
(* MiddleEnd for functions of the shapes lowering produces, with the       *)
(* variables 1 and 2 written and read in every block and temporaries 3, 4. *)
(***************************************************************************)
EXTENDS MiddleEnd

x == 1
y == 2
t == 3
u == 4
c == 5

Set(r, n) == Instr("const", r, << >>, n)
Copy(r, v) == Instr("copy", r, <<v>>, 0)
AddTo(r, v, w) == Instr("add", r, <<v, w>>, 0)
Same(r, v, w) == Instr("cmp", r, <<v, w>>, 0)
Elem(r, i, len) == Instr("elem", r, <<i, len>>, 0)
Load(r) == Instr("load", r, << >>, 0)
Store(v) == Instr("store", 0, <<v>>, 0)
Param(r) == Instr("param", r, << >>, 0)
Call(r, vs) == Instr("call", r, vs, 0)
Show(v) == Instr("print", 0, <<v>>, 0)

(* What the entry does, what a block in the middle does, and what a branch   *)
(* does before it leaves.                                                   *)
MCBegins == {<<Param(x), Set(y, 0)>>, <<Set(x, 1), Set(y, 0)>>, <<Set(x, 0), Set(y, 0)>>, <<Param(x), Copy(y, Reg(x))>>}
MCBodies ==
    {<< >>,
     <<AddTo(x, Reg(x), Const(1))>>,
     <<Copy(t, Reg(x)), Copy(x, Reg(y)), Copy(y, Reg(t))>>,
     <<Set(y, 1)>>,
     <<AddTo(t, Reg(x), Reg(y)), Show(Reg(x))>>,
     <<AddTo(t, Reg(x), Reg(y)), AddTo(u, Reg(y), Reg(x)), Show(Reg(u))>>,
     <<Load(t), Store(Reg(x)), Load(u), Show(Reg(t)), Show(Reg(u))>>,
     <<Elem(t, Reg(x), Const(2))>>,
     <<AddTo(t, Reg(x), Const(1)), Elem(u, Reg(t), Const(2))>>,
     <<Call(y, <<Reg(y)>>)>>}
MCEnds == {<<Show(Reg(x)), Show(Reg(y))>>, <<AddTo(t, Reg(x), Reg(x)), Show(Reg(t))>>}

Tested == <<Same(c, Reg(x), Reg(y)), Show(Const(0))>>
If(instrs, a, b) == Block(<< >>, instrs \o Tested, Branch(Reg(c), To(a), To(b)))
Goto(instrs, a) == Block(<< >>, instrs, Jump(To(a)))
End(instrs) == Block(<< >>, instrs, Return(<<Reg(y)>>))
Made(blocks) == Function(blocks, 5)

(* if, if-else, a loop, one that asks whether to go on, one with an if in it, one    *)
(* that is left from inside.                                                *)
MCTails == {<< >>, <<Set(y, 1)>>, <<AddTo(x, Reg(x), Const(1))>>, <<Elem(t, Reg(x), Const(2))>>,
            <<Copy(x, Reg(y)), Call(y, << >>)>>,
            <<Copy(t, Reg(x)), Copy(x, Reg(y)), Copy(y, Reg(t))>>}
MCShown == <<Show(Reg(x)), Show(Reg(y))>>

MCIfs == {Made(<<If(i, 2, 3), Goto(p, 3), End(e)>>) : i \in MCBegins, p \in MCBodies, e \in MCEnds}
MCDiamonds == {Made(<<If(i, 2, 3), Goto(p, 4), Goto(q, 4), End(e)>>) :
                 i \in MCBegins, p \in MCBodies, q \in MCTails, e \in MCEnds}
MCLoops == {Made(<<Goto(i, 2), If(p, 3, 4), Goto(q, 2), End(e)>>) :
              i \in MCBegins, p \in MCBodies, q \in MCTails, e \in MCEnds}
MCAsking == {Made(<<Goto(i, 2), Block(<< >>, <<Call(c, << >>)>>, Branch(Reg(c), To(3), To(4))), Goto(q, 2), End(MCShown)>>) :
               i \in MCBegins, q \in MCBodies \cup MCTails}
MCBranching == {Made(<<Goto(i, 2), If(<< >>, 3, 6), If(<< >>, 4, 5), Goto(p, 5), Goto(q, 2), End(MCShown)>>) :
                  i \in MCBegins, p \in MCBodies, q \in MCTails}
MCBroken == {Made(<<Goto(i, 2), If(p, 3, 5), If(q, 2, 4), Goto(<<AddTo(y, Reg(y), Const(1))>>, 5), End(MCShown)>>) :
               i \in MCBegins, p \in MCBodies, q \in MCTails}

MCFunctions == MCIfs \cup MCDiamonds \cup MCLoops \cup MCAsking \cup MCBranching \cup MCBroken

(* y = 2 on both ways, and then element y of two. *)
MCIndex ==
    {Made(<<If(<<Param(x), Set(y, 2)>>, 2, 3), Goto(<<Set(y, 2)>>, 3),
            End(<<Elem(t, Reg(y), Const(2)), Show(Const(1))>>)>>)}
=============================================================================
