-------------------------- MODULE MC_StringProgram --------------------------
(***************************************************************************)
(* StringProgram for functions of up to two statements, executed in any    *)
(* order; the literal "a" ends where the first chunk begins.               *)
(***************************************************************************)
EXTENDS StringProgram

a == 97
b == 98
c == 99
MCLiterals == a :> 56 @@ b :> 24
MCBases == {64, 192, 320}
MCRequests == {StringBytes(n) : n \in 0 .. 50} \cup {ENUM_BYTES}

MCBegin(e, s, t) == <<SetEnum(e), Decl("s", s), Decl("t", t)>>
MCProgram(decls, stmts, turns) == [decls |-> decls, stmts |-> stmts, turns |-> turns]
MCUpToTwo(S) == {{x, y} : x, y \in S}

MCDecls == {MCBegin(Str(c), s, t) : s \in {Lit(a), Str(c)}, t \in {Lit(a), Str(b), Var("s")}}

MCSelf == {Assign("s", Add(Var("s"), v)) : v \in {Lit(a), Str(c), Var("t"), Add(Var("t"), Lit(a)), Payload}}
            \cup {Assign("s", Add(Add(Var("s"), Str(c)), Lit(a)))}
MCOther == {Assign("s", Add(Add(Var("s"), Str(c)), Var("s"))), Assign("t", Var("s")), Assign("t", Add(Var("t"), Str(b))), Assign("s", Lit(b)),
            Assign("s", Add(Lit(a), Var("s"))), Assign("s", Add(Var("s"), Var("s"))),
            Assign("t", Payload), SetEnum(Str(b)), SetEnum(Add(Var("s"), Lit(b))),
            Arm("u", Add(Var("u"), Lit(a)))}

(* No pattern's name is a variable's, and no variable is put into a variant. *)
MCPlain == {MCProgram(d, body, 3) : d \in MCDecls, body \in MCUpToTwo(MCSelf \cup MCOther)}

(* A piece that is read from a variant made for it. *)
MCWrapped ==
    {MCProgram(d, {Assign("s", Add(Var("s"), Wrapped("t"))), st}, 3) : d \in MCDecls, st \in MCSelf}

(* One string built a piece at a time. *)
MCBuilding ==
    {MCProgram(<<Decl("s", v), Decl("t", Lit(a)), SetEnum(Lit(a))>>, {st}, 24) :
        v \in {Lit(a), Str(c)}, st \in MCSelf}

(* A variable is put into a variant, but into none that a piece is read from. *)
MCCaptured ==
    {MCProgram(<<Decl("s", s), Decl("t", Str(b)), SetEnum(Var("s"))>>, body, 3) :
        s \in {Lit(a), Str(c)},
        body \in {{x, y} : x \in MCSelf, y \in MCSelf \cup MCOther \cup {SetEnum(Var("s"))}}}

MCFunctions == MCPlain \cup MCWrapped \cup MCBuilding \cup MCCaptured
=============================================================================
