------------------------------ MODULE Writing ------------------------------
(***************************************************************************)
(* What a program looks like, as a reference for module Parser: a tree     *)
(* written out in tokens, with the fewest parentheses that keep it what it *)
(* is; and what may happen to a text before it is read.                    *)
(***************************************************************************)
EXTENDS Parser

Tok(kind) == Token(kind, "", 0)
Name(x) == <<Token("ident", x, 0)>>
Prims == {"int", "float", "char", "string", "bool"}
TypeName(x) == <<Token(IF x \in Prims THEN "prim" ELSE "ident", x, 0)>>
TypeText(t) ==
    TypeName(t.of) \o
    (CASE t.len = 0 -> << >>
       [] t.len = -1 -> <<Tok("["), Tok("]")>>
       [] OTHER -> <<Tok("["), Token("int", "", t.len), Tok("]")>>)

Listing(texts) ==
    FlattenSeq([k \in DOMAIN texts |-> IF k = 1 THEN texts[1] ELSE <<Tok(",")>> \o texts[k]])
In(open, text, close) == <<Tok(open)>> \o text \o <<Tok(close)>>
Ended(text) == text \o <<Tok(";")>>
(* What is left out when there is nothing in it. *)
Optional(texts) == IF texts = << >> THEN << >> ELSE In("(", Listing(texts), ")")

(***************************************************************************)
(* How tightly an expression holds together, from || to what stands alone. *)
(***************************************************************************)
Symbol == [or |-> "||", and |-> "&&", eq |-> "==", ne |-> "!=", lt |-> "<", le |-> "<=", gt |-> ">", ge |-> ">=",
           add |-> "+", sub |-> "-", mul |-> "*", div |-> "/", rem |-> "%"]
Binds(e) ==
    CASE e.kind = "logic" -> IF e.name = "or" THEN 1 ELSE 2
      [] e.kind = "cmp" -> 3
      [] e.kind = "bin" -> IF e.name \in {"add", "sub"} THEN 4 ELSE 5
      [] e.kind \in {"neg", "not"} -> 6
      [] OTHER -> 7

PatternText(pattern) ==
    CASE pattern.kind = "wildcard" -> Name("_")
      [] pattern.kind = "literal" ->
            IF pattern.n < 0 THEN <<Tok("-"), Token(pattern.name, "", -pattern.n)>> ELSE <<Token(pattern.name, "", pattern.n)>>
      [] pattern.kind = "variant" ->
            Name(pattern.name) \o <<Tok("::")>> \o Name(pattern.member)
                \o Optional([k \in DOMAIN pattern.binds |-> Name(pattern.binds[k])])

RECURSIVE Written(_, _)

(* An expression where one that holds less tightly than that would be torn.  *)
Operand(tightly, e) == IF Binds(e) < tightly THEN In("(", Written("expr", e), ")") ELSE Written("expr", e)
Args(es) == In("(", Listing([k \in DOMAIN es |-> Written("expr", es[k])]), ")")
ArmText(arm) ==
    PatternText(arm.pattern) \o <<Tok("=>")>> \o
    (IF arm.value = << >> THEN Written("block", arm.block) ELSE Written("expr", arm.value[1]) \o <<Tok(",")>>)
ExprText(e) ==
    CASE e.kind \in LiteralKinds -> <<Token(e.kind, "", e.n)>>
      [] e.kind = "var" -> Name(e.name)
      [] e.kind \in {"neg", "not"} -> <<Tok(IF e.kind = "neg" THEN "-" ELSE "!")>> \o Operand(6, e.parts[1])
      [] e.kind \in {"logic", "cmp", "bin"} ->
            Operand(Binds(e), e.parts[1]) \o <<Tok(Symbol[e.name])>> \o Operand(Binds(e) + 1, e.parts[2])
      [] e.kind = "call" -> Name(e.name) \o Args(e.parts)
      [] e.kind = "variant" ->
            Name(e.name) \o <<Tok("::")>> \o Name(e.member) \o (IF e.parts = << >> THEN << >> ELSE Args(e.parts))
      [] e.kind = "array" -> In("[", Listing([k \in DOMAIN e.parts |-> Written("expr", e.parts[k])]), "]")
      [] e.kind = "index" -> Operand(7, e.parts[1]) \o In("[", Written("expr", e.parts[2]), "]")
      [] e.kind = "field" -> Operand(7, e.parts[1]) \o <<Tok(".")>> \o Name(e.name)
      [] e.kind = "method" -> Operand(7, e.parts[1]) \o <<Tok(".")>> \o Name(e.name) \o Args(Tail(e.parts))
      [] e.kind = "len" -> <<Tok("len")>> \o Args(e.parts)
      [] e.kind = "convert" -> TypeName(e.name) \o Args(e.parts)
      [] e.kind = "new" ->
            Name(e.name) \o In("{", Listing([k \in DOMAIN e.parts |-> Written("expr", e.parts[k])]), "}")
      [] e.kind = "init" -> Name(e.name) \o <<Tok(":")>> \o Written("expr", e.parts[1])
      [] e.kind = "match" ->
            <<Tok("match")>> \o Args(e.parts)
                \o In("{", FlattenSeq([k \in DOMAIN e.arms |-> Written("arm", e.arms[k])]), "}")

(* A format is the one that is split as its parts were. *)
Plain(parts) == [k \in DOMAIN parts |-> [parts[k] EXCEPT !.parts = << >>]]
FormatFor(parts) == CHOOSE n \in DOMAIN Literals : Flushed(SplitFormat(Literals[n])) = Plain(parts)
PrintArgs(parts) ==
    IF \E k \in DOMAIN parts : parts[k].kind \in {"text", "spec"}
    THEN Listing(<< <<Token("str", "", FormatFor(parts))>> >> \o
                 LET values == SelectSeq(parts, IsSpec)
                 IN  [k \in DOMAIN values |-> Written("expr", values[k].parts[1])])
    ELSE Listing([k \in DOMAIN parts |-> Written("expr", parts[k])])

(* The step of a loop is the statement without its end. *)
Bare(st) ==
    IF st.kind = "assign" THEN Written("expr", st.parts[1]) \o <<Tok("=")>> \o Written("expr", st.parts[2])
    ELSE Written("expr", st.parts[1])
ElseText(block) ==
    IF Len(block) = 1 /\ block[1].kind = "if" THEN Written("stmt", block[1]) ELSE Written("block", block)
StmtText(st) ==
    CASE st.kind = "decl" -> Ended(TypeText(st.ty) \o Name(st.name) \o <<Tok("=")>> \o Written("expr", st.parts[1]))
      [] st.kind \in {"assign", "call"} -> Ended(Bare(st))
      [] st.kind = "print" ->
            Ended(<<Tok(IF st.name = "line" THEN "println" ELSE "print")>> \o In("(", PrintArgs(st.parts), ")"))
      [] st.kind = "push" -> Ended(<<Tok("push")>> \o Args(st.parts))
      [] st.kind = "if" ->
            <<Tok("if")>> \o Args(st.parts) \o Written("block", st.blocks[1])
                \o (IF Len(st.blocks) = 1 THEN << >> ELSE <<Tok("else")>> \o ElseText(st.blocks[2]))
      [] st.kind = "while" -> <<Tok("while")>> \o Args(st.parts) \o Written("block", st.blocks[1])
      [] st.kind = "for" ->
            <<Tok("for")>>
                \o In("(", Written("stmt", st.stmts[1]) \o Ended(Written("expr", st.parts[1])) \o Bare(st.stmts[2]), ")")
                \o Written("block", st.blocks[1])
      [] st.kind = "match" -> Written("expr", st.parts[1])
      [] st.kind = "return" ->
            Ended(<<Tok("return")>> \o (IF st.parts = << >> THEN << >> ELSE Written("expr", st.parts[1])))
      [] OTHER -> Ended(<<Tok(st.kind)>>)

Written(what, node) ==
    CASE what = "expr" -> ExprText(node)
      [] what = "arm" -> ArmText(node)
      [] what = "stmt" -> StmtText(node)
      [] what = "block" -> In("{", FlattenSeq([k \in DOMAIN node |-> Written("stmt", node[k])]), "}")

-----------------------------------------------------------------------------
ParamText(param) == IF param.ty = Ty("self") THEN Name("self") ELSE TypeText(param.ty) \o Name(param.name)
FunctionText(fn) ==
    <<Tok("fn")>> \o Name(fn.name) \o In("(", Listing([k \in DOMAIN fn.params |-> ParamText(fn.params[k])]), ")")
        \o (IF fn.ret = Nothing THEN << >> ELSE <<Tok("->")>> \o TypeText(fn.ret)) \o Written("block", fn.body)
VariantText(v) == Name(v.name) \o Optional([k \in DOMAIN v.payload |-> TypeText(v.payload[k])])
EnumText(enum) ==
    <<Tok("enum")>> \o Name(enum.name)
        \o In("{", Listing([k \in DOMAIN enum.variants |-> VariantText(enum.variants[k])]), "}")
ClassText(class, functions) ==
    <<Tok("class")>> \o Name(class.name) \o (IF class.base = << >> THEN << >> ELSE <<Tok(":")>> \o Name(class.base[1]))
        \o In("{", FlattenSeq([k \in DOMAIN class.fields |-> Ended(TypeText(class.fields[k].ty) \o Name(class.fields[k].name))])
                       \o FlattenSeq([k \in DOMAIN class.methods |-> FunctionText(functions[class.methods[k]])]), "}")

(* A program: its enums, its classes with their methods, its functions.      *)
ProgramText(program) ==
    LET methods == UNION {ToSet(program.classes[k].methods) : k \in DOMAIN program.classes}
        text(k) == IF k \in methods THEN << >> ELSE FunctionText(program.functions[k])
    IN  FlattenSeq([k \in DOMAIN program.enums |-> EnumText(program.enums[k])])
            \o FlattenSeq([k \in DOMAIN program.classes |-> ClassText(program.classes[k], program.functions)])
            \o FlattenSeq([k \in DOMAIN program.functions |-> text(k)])
Text(program) == ProgramText(program) \o <<Tok("eof")>>
ProgramOf(p) == [enums |-> p.enums, classes |-> p.classes, functions |-> p.functions]

-----------------------------------------------------------------------------
(* Two texts of one program may differ in parentheses, and in commas where a  *)
(* brace ends something anyway.                                             *)
Braces == {"{", "}"}
Counts(text, k) ==
    /\ text[k].kind \notin {"(", ")"}
    /\ text[k].kind = "," => /\ text[k - 1].kind \notin Braces
                              /\ text[k + 1].kind \notin Braces
Essence(text) ==
    LET counting == SelectSeq([k \in DOMAIN text |-> k], LAMBDA k : Counts(text, k))
    IN  [k \in DOMAIN counting |-> text[counting[k]]]

(* Where a statement or a declaration that k is in may begin at the earliest. *)
Begins(text, k) ==
    LET before == {j \in 1 .. k - 1 : text[j].kind \in {";", "{", "}"}}
    IN  IF before = {} THEN 1 ELSE CHOOSE j \in {i + 1 : i \in before} : \A i \in before : i < j

-----------------------------------------------------------------------------
(* What happens to a text: a token is left out, put in, or another one.      *)
Untouched(tokens) == [tokens |-> tokens, slip |-> "none", at |-> << >>]
LeftOut(tokens, k) == [tokens |-> RemoveAt(tokens, k), slip |-> "token", at |-> <<k>>]
PutIn(tokens, k, token) == [tokens |-> InsertAt(tokens, k, token), slip |-> "token", at |-> <<k>>]
Another(tokens, k, token) == [tokens |-> ReplaceAt(tokens, k, token), slip |-> "token", at |-> <<k>>]

(* Or some statements, not in the head of a loop, are not ended.  A `return`  *)
(* alone takes what follows for its value.  Each of them is noticed at the  *)
(* token after it.                                                          *)
EndsStatement(tokens, k) ==
    LET Before(kind) == Cardinality({j \in 1 .. k : tokens[j].kind = kind})
    IN  /\ tokens[k].kind = ";"
        /\ tokens[k - 1].kind # "return"
        /\ Before("(") = Before(")")
        /\ \E j \in Begins(tokens, k) .. k : tokens[j].kind \in {"=", "(", "return", "break", "continue"}
NotEnded(tokens, ends) ==
    LET all == [k \in DOMAIN tokens |-> k]
        forgotten == SelectSeq(all, LAMBDA k : k \in ends)
        kept == SelectSeq(all, LAMBDA k : k \notin ends)
    IN  [tokens |-> [k \in DOMAIN kept |-> tokens[kept[k]]], slip |-> "ends",
         at |-> [k \in DOMAIN forgotten |-> forgotten[k] - k + 1]]
=============================================================================
