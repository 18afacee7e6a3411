---------------------------- MODULE OwnedStrings ----------------------------
(***************************************************************************)
(* Which string variables of a function nothing else can be holding        *)
(* (src/src/ir/lower/owned.rs), and the code an assignment becomes on the  *)
(* strength of it (src/src/ir/lower/place.rs, stmt.rs, expr.rs).           *)
(*                                                                         *)
(* A function here has string variables, declared once each at the top,    *)
(* one variable `e` of an enum whose one variant carries a string, and a   *)
(* set of statements that its ifs and loops may run in any order: the      *)
(* analysis does not look at their order either.                           *)
(*                                                                         *)
(* Expressions:  lit c         a literal of one character                  *)
(*               str c         string(c)                                   *)
(*               var x         a string variable                           *)
(*               add l r       l + r                                       *)
(*               payload       match e { Named(q) => q }                   *)
(*               wrapped x     match Named(x) { Named(q) => q }            *)
(* Statements:   decl x v, assign x v                                      *)
(*               enum v        e = Named(v)                                *)
(*               arm x v       match e { Named(x) => { x = v } }           *)
(***************************************************************************)
EXTENDS Integers, Sequences, SequencesExt

(* One stack of fields for all of them, so that they can be compared. *)
Expr(kind, name, parts) == [kind |-> kind, name |-> name, parts |-> parts]
Lit(c) == Expr("lit", c, << >>)
Str(c) == Expr("str", c, << >>)
Var(x) == Expr("var", x, << >>)
Add(l, r) == Expr("add", "", <<l, r>>)
Payload == Expr("payload", "e", << >>)
Wrapped(x) == Expr("wrapped", x, << >>)

Stmt(kind, name, value) == [kind |-> kind, name |-> name, value |-> value]
Decl(x, v) == Stmt("decl", x, v)
Assign(x, v) == Stmt("assign", x, v)
SetEnum(v) == Stmt("enum", "e", v)
Arm(x, v) == Stmt("arm", x, v)

-----------------------------------------------------------------------------
(* `owned_strings`.  Everything is asked of names. *)

(* The names a pattern binds are not declarations to the analysis. *)
Declared(stmts) == {st.name : st \in {d \in stmts : d.kind = "decl"}}

(* The values a name is ever given: in an arm, the pattern's name is meant. *)
Given(stmts, x) == {st.value : st \in {g \in stmts : g.kind # "enum" /\ g.name = x}}

IsFresh(v) == v.kind \in {"lit", "str", "add"}

(* Mutant: a variable that is assigned to another one is still owned. *)
EscapesNever(stmts, x) == FALSE

(* Kept anywhere else: `y = x` keeps x, `y = x + "!"` does not.  What goes   *)
(* into a variant is not looked at.                                         *)
Escapes(stmts, x) == \E st \in stmts : st.kind # "enum" /\ st.value = Var(x)

Owned(stmts) ==
    {x \in Declared(stmts) : (\A v \in Given(stmts, x) : IsFresh(v)) /\ ~Escapes(stmts, x)}

(* `mentions`: whether v reads the variable x, a variant's payload apart. *)
RECURSIVE Mentions(_, _)
Mentions(v, x) ==
    \/ v.kind = "var" /\ v.name = x
    \/ \E p \in DOMAIN v.parts : Mentions(v.parts[p], x)

(* The pieces of v = ((first + a) + b) + ..., and its first. *)
RECURSIVE Pieces(_)
Pieces(v) == IF v.kind = "add" THEN Append(Pieces(v.parts[1]), v.parts[2]) ELSE << >>
RECURSIVE Leftmost(_)
Leftmost(v) == IF v.kind = "add" THEN Leftmost(v.parts[1]) ELSE v

(* `append_chain` takes v apart. *)
IsAppendChain(owned, x, v) ==
    /\ x \in owned
    /\ v.kind = "add"
    /\ Leftmost(v) = Var(x)
    /\ \A p \in DOMAIN Pieces(v) : ~Mentions(Pieces(v)[p], x)

(* Mutants: a literal, or a variable, is taken for one; nothing is. *)
BuildsAnything(v) == TRUE
BuildsNothing(v) == FALSE

(* `builds_a_temporary`. *)
BuildsATemporary(v) == v.kind \in {"str", "add"}

-----------------------------------------------------------------------------
(* The code.  A register is a path: <<x>> is the register of variable x, and *)
(* a longer one is the temporary for a part of what it is given.            *)
Instr(op, dst, args, own) == [op |-> op, dst |-> dst, args |-> args, own |-> own]

Operand(v, temp) == IF v.kind = "var" THEN <<v.name>> ELSE temp

RECURSIVE ExprInto(_, _)

(* `expr`: an operand is a variable's own register, or code and a temporary. *)
OperandCode(v, temp) == IF v.kind = "var" THEN << >> ELSE ExprInto(temp, v)

(* `variant_into`: the block first, and then what goes into it. *)
VariantInto(dst, v) ==
    <<Instr("new", dst, << >>, FALSE)>> \o OperandCode(v, dst \o <<"arg">>) \o
    <<Instr("put", dst, <<Operand(v, dst \o <<"arg">>)>>, FALSE)>>

(* `expr_into`, `convert_into`, `string_op_into`, `match_lowering`. *)
ExprInto(dst, v) ==
    LET lhs == dst \o <<"lhs">>
        rhs == dst \o <<"rhs">>
        box == dst \o <<"box">>
        q == dst \o <<"q">>
    IN  CASE v.kind = "lit" -> <<Instr("addr", dst, <<v.name>>, FALSE)>>
          [] v.kind = "str" -> <<Instr("str", dst, <<v.name>>, FALSE)>>
          [] v.kind = "var" -> <<Instr("copy", dst, <<<<v.name>>>>, FALSE)>>
          [] v.kind = "payload" ->
                <<Instr("get", q, <<<<"e">>>>, FALSE), Instr("copy", dst, <<q>>, FALSE)>>
          [] v.kind = "wrapped" ->
                VariantInto(box, Var(v.name)) \o
                <<Instr("get", q, <<box>>, FALSE), Instr("copy", dst, <<q>>, FALSE)>>
          [] v.kind = "add" ->
                OperandCode(v.parts[1], lhs) \o OperandCode(v.parts[2], rhs) \o
                <<Instr("concat", dst, <<Operand(v.parts[1], lhs), Operand(v.parts[2], rhs)>>, FALSE)>>

(* One append per piece, each in a temporary of its own. *)
AppendCode(dst, v) ==
    FlattenSeq([p \in DOMAIN Pieces(v) |->
        LET piece == Pieces(v)[p]
            temp == dst \o <<"piece">>
        IN  OperandCode(piece, temp) \o
            <<Instr("append", dst, <<dst, Operand(piece, temp)>>, BuildsATemporary(piece))>>])

(* The assignment x = v, where x's register is dst. *)
AssignCode(owned, dst, x, v) ==
    IF IsAppendChain(owned, x, v) THEN AppendCode(dst, v) ELSE ExprInto(dst, v)

(* In an arm the pattern's name has a register of its own, whatever other   *)
(* variable shares the name, and the arm's code is inlined with it.         *)
RECURSIVE Renamed(_, _, _)
Renamed(v, x, y) ==
    IF v.kind \in {"var", "wrapped"} /\ v.name = x THEN [v EXCEPT !.name = y]
    ELSE [v EXCEPT !.parts = [p \in DOMAIN v.parts |-> Renamed(v.parts[p], x, y)]]

ArmCode(owned, x, v) ==
    <<Instr("get", <<"bound">>, <<<<"e">>>>, FALSE)>> \o
    (IF IsAppendChain(owned, x, v)
     THEN AppendCode(<<"bound">>, Renamed(v, x, "bound"))
     ELSE ExprInto(<<"bound">>, Renamed(v, x, "bound")))

(* `stmt`: a declaration never appends. *)
StmtCode(owned, st) ==
    CASE st.kind = "decl" -> ExprInto(<<st.name>>, st.value)
      [] st.kind = "assign" -> AssignCode(owned, <<st.name>>, st.name, st.value)
      [] st.kind = "enum" -> VariantInto(<<"e">>, st.value)
      [] st.kind = "arm" -> ArmCode(owned, st.name, st.value)
=============================================================================
