------------------------------ MODULE MC_Lists ------------------------------
(***************************************************************************)
(* Lists in programs of a few statements, in chunks of 96 bytes of which   *)
(* two touch.  Lists have room for two elements at first (four in the      *)
(* code), so that they grow early.                                         *)
(***************************************************************************)
EXTENDS Lists

MCBases == {64, 160, 320, 512}
MCRequests == {ListBytes(n) : n \in 1 .. 16}

MCProgram(decls, stmts, lends, turns) ==
    [decls |-> decls, stmts |-> stmts, lent |-> lends, turns |-> turns]
MCUpToTwo(S) == {{u, v} : u, v \in S}

MCTwo == ListLit(<<Num(1), Num(2)>>)

(* Two lists of numbers. *)
MCPlain ==
    {MCProgram(<<Assign("x", u), Assign("y", v)>>, body, {}, 3) :
        u \in {MCTwo, ListLit([k \in 1 .. 4 |-> Num(k)])},
        v \in {ListLit(<<Num(3)>>), ListVar("x"), Same("x"), ListLit(<<HeadOf("x"), Num(2)>>)},
        body \in MCUpToTwo({Push("x", Num(4)), Push("x", HeadOf("x")), Push("y", HeadOf("x")),
                            SetHead("y", 5), Assign("x", ListVar("y")), Assign("y", Same("x")),
                            Assign("x", ListLit(<<Num(6)>>))})}

(* Objects that hold one, and a list of those. *)
MCObjects ==
    {MCProgram(<<Assign("b", MCTwo), Assign("bags", ListLit(<<BagOf("b"), BagOf("b")>>))>>, body, {}, 3) :
        body \in MCUpToTwo({Push("b", Num(4)), Assign("b", FirstBag), Push("bags", BagOf("b")), PushFirst,
                            PushInner(5), SetHead("b", 6), Assign("more", ListVar("bags")), Assign("bags", ListLit(<<BagOf("b")>>))})}
    \cup
    {MCProgram(<<Assign("b", MCTwo), Assign("c", ListVar("b")), Assign("x", ListVar("c"))>>, body, {}, 3) :
        body \in MCUpToTwo({Push("b", Num(4)), SetHead("c", 6), Assign("b", ListVar("c")),
                            Assign("c", ListVar("x")), Assign("x", ListVar("b"))})}

(* A call that is lent a list, which does not grow meanwhile. *)
MCCalls ==
    {MCProgram(<<Assign("x", MCTwo), Assign("b", ListVar("x")), Assign("y", Same("x"))>>, {Lend(owner), Push(owner, Num(4))},
               {SetHead("p", 5), Assign("y", ListVar("p")), Push("y", Num(7)), Leave}, 5) :
        owner \in {"x", "b"}}

MCLists == MCPlain \cup MCObjects \cup MCCalls

(* xs = [1, xs[0]]. *)
MCReadsItself ==
    {MCProgram(<<Assign("x", MCTwo)>>, {Assign("x", ListLit(<<Num(7), HeadOf("x")>>))}, {}, 1)}
=============================================================================
