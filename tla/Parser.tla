------------------------------- MODULE Parser -------------------------------
(***************************************************************************)
(* From tokens to a syntax tree (src/src/parser.rs): recursive descent,    *)
(* which carries on after a mistake where a declaration or a statement may *)
(* begin.                                                                  *)
(*                                                                         *)
(* p is the parser: how far it has read (`pos`), how deep it is (`depth`), *)
(* the mistakes so far, what was declared, and in `values` what the calls  *)
(* under way have returned, the last one last.  A call that failed leaves  *)
(* ~ok, and nothing goes on from there but who recovers from it.  Node     *)
(* numbers and all of a span but the token it begins at are left out.      *)
(***************************************************************************)
EXTENDS Syntax

CONSTANTS
    MaxNesting,     \* MAX_NESTING
    Literals        \* the strings of a program, as sequences of characters

(* A literal has its value, a name and a type keyword its name. *)
Token(kind, name, n) == [kind |-> kind, name |-> name, n |-> n]

(* `n[]`: nobody knows how many. *)
ListOf(t) == [of |-> t.of, len |-> -1]

Reads(tokens) ==
    [tokens |-> tokens, pos |-> 1, depth |-> 0, ok |-> TRUE, stuck |-> FALSE, values |-> << >>,
     mistake |-> << >>, errors |-> << >>, enums |-> << >>, classes |-> << >>, functions |-> << >>]

Peek(p) == p.tokens[p.pos]
PeekAt(p, k) == p.tokens[IF p.pos + k < Len(p.tokens) THEN p.pos + k ELSE Len(p.tokens)]
Sees(p, kind) == p.ok /\ Peek(p).kind = kind

(***************************************************************************)
(* The steps a call is made of.  Each of them leaves a parser that has     *)
(* failed as it is.                                                        *)
(***************************************************************************)
Bump(p) == IF p.ok /\ p.pos < Len(p.tokens) THEN [p EXCEPT !.pos = @ + 1] ELSE p
Fail(p, what, at) == IF p.ok THEN [p EXCEPT !.ok = FALSE, !.mistake = [what |-> what, at |-> at]] ELSE p
Expected(p) == Fail(p, "expected", p.pos)
Eat(kind, p) == IF Sees(p, kind) THEN Bump(p) ELSE p
Expect(kind, p) == IF Sees(p, kind) THEN Bump(p) ELSE Expected(p)

Push(v, p) == IF p.ok THEN [p EXCEPT !.values = Append(@, v)] ELSE p
Top(p) == Last(p.values)
Make(n, Of(_), p) ==
    IF ~p.ok THEN p
    ELSE LET rest == Len(p.values) - n
         IN  [p EXCEPT !.values = Append(SubSeq(@, 1, rest), Of(SubSeq(@, rest + 1, rest + n)))]
Listed(p) == Make(2, LAMBDA v : Append(v[1], v[2]), p)

(* Levels are released whether or not what was nested in them failed. *)
Deepen(p) ==
    IF ~p.ok THEN p
    ELSE IF p.depth = MaxNesting THEN Fail(p, "nests too deeply", p.pos)
    ELSE [p EXCEPT !.depth = @ + 1]
Release(levels, p) == [p EXCEPT !.depth = @ - levels]

ExpectIdent(p) == IF Sees(p, "ident") THEN Bump(Push(Peek(p).name, p)) ELSE Expected(p)

(* `expect_type` *)
LengthOf(p) ==
    IF Sees(p, "]") THEN Bump(Make(1, LAMBDA v : ListOf(v[1]), p))
    ELSE IF Sees(p, "int") THEN Expect("]", Bump(Make(1, LAMBDA v : ArrayOf(v[1], Peek(p).n), p)))
    ELSE Expected(p)
ShapeOf(p) == IF Sees(p, "[") THEN LengthOf(Bump(p)) ELSE p
ExpectType(p) ==
    ShapeOf(IF Sees(p, "prim") \/ Sees(p, "ident") THEN Bump(Push(Ty(Peek(p).name), p)) ELSE Expected(p))

(* Mutant: an index that is a literal is taken for a length.                 *)
StartsDeclarationEarly(p) ==
    \/ Peek(p).kind = "prim"
    \/ Peek(p).kind = "ident" /\ PeekAt(p, 1).kind = "ident"
    \/ Peek(p).kind = "ident" /\ PeekAt(p, 1).kind = "[" /\ PeekAt(p, 2).kind \in {"]", "int"}
NameAfter(p, kinds) ==
    /\ \A j \in DOMAIN kinds : PeekAt(p, j).kind = kinds[j]
    /\ PeekAt(p, Len(kinds) + 1).kind = "ident"
StartsDeclaration(p) ==
    \/ Peek(p).kind = "prim"
    \/ /\ Peek(p).kind = "ident"
       /\ \E shape \in {<< >>, <<"[", "]">>, <<"[", "int", "]">>} : NameAfter(p, shape)

-----------------------------------------------------------------------------
(* Carrying on after a mistake.                                             *)
RECURSIVE SkipUntil(_, _, _)
SkipUntil(stops, p, braces) ==
    LET kind == Peek(p).kind
    IN  IF kind = "eof" \/ (braces = 0 /\ kind \in stops) THEN p
        ELSE SkipUntil(stops, Bump(p), CASE kind = "{" -> braces + 1
                                         [] kind = "}" /\ braces > 0 -> braces - 1
                                         [] OTHER -> braces)

DeclarationStarts == {"fn", "class", "enum"}
StatementStarts ==
    {"prim", "print", "println", "push", "if", "while", "for", "match", "return", "break", "continue", "ident"}
RecoverToDeclaration(p) == SkipUntil(DeclarationStarts, p, 0)
(* Mutant: only the end of a statement stops the skipping.                   *)
RecoverToEnd(p) == Eat(";", SkipUntil({";", "}"}, p, 0))
RecoverToStatement(p) == Eat(";", SkipUntil(StatementStarts \cup {";", "}"}, p, 0))

EnsureProgress(mark, p) == IF p.pos = mark THEN Bump(p) ELSE p

(* What failed from p is q: its mistake is kept, its levels and values are   *)
(* given back.  `stuck` says that the next attempt would go as the last one *)
(* did, round and round.  Mutant: the levels are not given back.            *)
ValuesBack(p, q) == [q EXCEPT !.values = p.values]
GivenBack(p, q) == [q EXCEPT !.values = p.values, !.depth = p.depth]
Recovered(p, q, RecoverTo(_)) ==
    LET kept == [GivenBack(p, q) EXCEPT !.ok = TRUE, !.errors = Append(@, q.mistake)]
        on == EnsureProgress(p.pos, RecoverTo(kept))
    IN  IF on.pos = p.pos THEN [on EXCEPT !.ok = FALSE, !.stuck = TRUE] ELSE on

-----------------------------------------------------------------------------
(* The grammar.  `Parse` is every call that may come back to itself.         *)
RECURSIVE Parse(_, _), Separated(_, _), Chained(_, _, _), Postfix(_, _), Stmts(_), Arms(_), FormatValues(_),
          IsPlace(_), Members(_), Program(_)

Nested(rule, p) == IF p.ok THEN Release(1, Parse(rule, p)) ELSE p

(* rule ("," rule)*.  The variants of an enum may end in a comma. *)
Ends(rule, p) == ~Sees(p, ",") \/ (rule = "variant" /\ PeekAt(p, 1).kind = "}")
MoreOf(rule, p) == IF Ends(rule, p) THEN p ELSE Separated(rule, Bump(p))
Separated(rule, p) == MoreOf(rule, Listed(Parse(rule, p)))
ListUnless(closing, rule, p) == IF Sees(p, closing) THEN Push(<< >>, p) ELSE Separated(rule, Push(<< >>, p))
CallArgs(p) == Expect(")", ListUnless(")", "or", p))
Condition(p) == Expect(")", Parse("or", Expect("(", p)))

(* Expressions, loosest first. *)
Tighter == [or |-> "and", and |-> "comparison", comparison |-> "sum", sum |-> "term", term |-> "unary"]
Operators ==
    [or |-> {"||"}, and |-> {"&&"}, comparison |-> {"==", "!=", "<", "<=", ">", ">="}, sum |-> {"+", "-"},
     term |-> {"*", "/", "%"}]
Operator(kind) ==
    CASE kind = "||" -> <<"logic", "or">>
      [] kind = "&&" -> <<"logic", "and">>
      [] kind = "==" -> <<"cmp", "eq">>
      [] kind = "!=" -> <<"cmp", "ne">>
      [] kind = "<" -> <<"cmp", "lt">>
      [] kind = "<=" -> <<"cmp", "le">>
      [] kind = ">" -> <<"cmp", "gt">>
      [] kind = ">=" -> <<"cmp", "ge">>
      [] kind = "+" -> <<"bin", "add">>
      [] kind = "-" -> <<"bin", "sub">>
      [] kind = "*" -> <<"bin", "mul">>
      [] kind = "/" -> <<"bin", "div">>
      [] kind = "%" -> <<"bin", "rem">>
Binary(op, p) == Make(2, LAMBDA v : Expr(op[1], op[2], 0, v), p)
Chained(rule, p, levels) ==
    IF p.ok /\ Peek(p).kind \in Operators[rule]
    THEN Chained(rule, Binary(Operator(Peek(p).kind), Parse(Tighter[rule], Deepen(Bump(p)))), levels + 1)
    ELSE IF p.ok THEN Release(levels, p) ELSE p

Prefix(kind, p) == Make(1, LAMBDA v : Expr(kind, "", 0, v), Parse("unary", Bump(p)))
Unary(p) ==
    CASE Sees(p, "-") -> Prefix("neg", p)
      [] Sees(p, "!") -> Prefix("not", p)
      [] OTHER -> Parse("primary", p)

Reached(p) ==
    IF Sees(p, "(") THEN Make(3, LAMBDA v : Expr("method", v[2], 0, <<v[1]>> \o v[3]), CallArgs(Bump(p)))
    ELSE Make(2, LAMBDA v : Expr("field", v[2], 0, <<v[1]>>), p)
Indexed(p) == Make(2, LAMBDA v : Expr("index", "", 0, v), Expect("]", Parse("or", p)))
Postfix(p, levels) ==
    CASE Sees(p, ".") -> Postfix(Reached(ExpectIdent(Eat(".", Deepen(p)))), levels + 1)
      [] Sees(p, "[") -> Postfix(Indexed(Eat("[", Deepen(p))), levels + 1)
      [] OTHER -> IF p.ok THEN Release(levels, p) ELSE p

VariantArgs(p) == IF Sees(p, "(") THEN CallArgs(Bump(p)) ELSE Push(<< >>, p)
ObjectLiteral(p) ==
    Make(2, LAMBDA v : Expr("new", v[1], 0, v[2]), Expect("}", ListUnless("}", "field init", Expect("{", p))))
FieldInit(p) == Make(2, LAMBDA v : Expr("init", v[1], 0, <<v[2]>>), Parse("or", Expect(":", ExpectIdent(p))))
AfterName(p) ==
    CASE Sees(p, "::") -> Make(3, LAMBDA v : [Expr("variant", v[1], 0, v[3]) EXCEPT !.member = v[2]],
                               VariantArgs(ExpectIdent(Bump(p))))
      [] Sees(p, "{") -> ObjectLiteral(p)
      [] Sees(p, "(") -> Make(2, LAMBDA v : Expr("call", v[1], 0, v[2]), CallArgs(Bump(p)))
      [] OTHER -> Make(1, LAMBDA v : Expr("var", v[1], 0, << >>), p)
LiteralKinds == {"int", "float", "str", "char", "bool"}
Atom(p) ==
    LET token == Peek(p)
    IN  CASE token.kind \in LiteralKinds -> Bump(Push(Expr(token.kind, "", token.n, << >>), p))
          [] token.kind = "prim" -> Make(1, LAMBDA v : Expr("convert", token.name, 0, v), Condition(Bump(p)))
          [] token.kind = "ident" -> AfterName(ExpectIdent(p))
          [] token.kind = "match" -> Parse("match", p)
          [] token.kind = "[" -> Make(1, LAMBDA v : Expr("array", "", 0, v[1]), Expect("]", ListUnless("]", "or", Bump(p))))
          [] token.kind = "len" -> Make(1, LAMBDA v : Expr("len", "", 0, v), Condition(Bump(p)))
          [] token.kind = "(" -> Condition(p)
          [] OTHER -> Expected(p)

(* Matches. *)
Arms(p) ==
    CASE Sees(p, "}") -> Make(2, LAMBDA v : [Expr("match", "", 0, <<v[1]>>) EXCEPT !.arms = v[2]], Bump(p))
      [] Sees(p, "eof") -> Fail(p, "unclosed", p.pos)
      [] OTHER -> IF p.ok THEN Arms(Listed(Parse("arm", p))) ELSE p
MatchExpr(p) == Arms(Push(<< >>, Expect("{", Condition(Bump(p)))))
Announced(p) == IF Sees(p, "}") THEN p ELSE Expect(",", p)
ArmBody(p) ==
    IF Sees(p, "{") THEN Make(2, LAMBDA v : Arm(v[1], << >>, v[2]), Eat(",", Parse("block", p)))
    ELSE Make(2, LAMBDA v : Arm(v[1], <<v[2]>>, << >>), Announced(Parse("or", p)))
Bindings(p) == IF Sees(p, "(") THEN Expect(")", Separated("name", Push(<< >>, Bump(p)))) ELSE Push(<< >>, p)
VariantPattern(p) ==
    Make(3, LAMBDA v : Pattern("variant", v[1], v[2], 0, v[3]), Bindings(ExpectIdent(Expect("::", ExpectIdent(p)))))
NegativePattern(p) ==
    IF Sees(p, "int") THEN Bump(Push(Pattern("literal", "int", "", -Peek(p).n, << >>), p)) ELSE Expected(p)
PatternOf(p) ==
    LET token == Peek(p)
    IN  CASE token.kind \in LiteralKinds -> Bump(Push(Pattern("literal", token.kind, "", token.n, << >>), p))
          [] token.kind = "-" -> NegativePattern(Bump(p))
          [] token.kind = "ident" -> IF token.name = "_" THEN Bump(Push(Pattern("wildcard", "", "", 0, << >>), p))
                                     ELSE VariantPattern(p)
          [] OTHER -> Expected(p)

(***************************************************************************)
(* What is printed.  A format is split at its specifiers; of the text      *)
(* between them its length is kept.                                        *)
(***************************************************************************)
Specifiers == {"d", "f", "s", "c", "b", "e"}
Flushed(s) == IF s.text = 0 THEN s.pieces ELSE Append(s.pieces, Expr("text", "", s.text, << >>))
SplitFormat(chars) ==
    FoldLeft(LAMBDA s, c :
                 CASE s.bad -> s
                   [] ~s.open /\ c = "%" -> [s EXCEPT !.open = TRUE]
                   [] ~s.open \/ c = "%" -> [s EXCEPT !.open = FALSE, !.text = @ + 1]
                   [] c \in Specifiers -> [s EXCEPT !.open = FALSE, !.text = 0,
                                                    !.pieces = Append(Flushed(s), Expr("spec", c, 0, << >>))]
                   [] OTHER -> [s EXCEPT !.bad = TRUE],
             [pieces |-> << >>, text |-> 0, open |-> FALSE, bad |-> FALSE], chars)

FormatValues(p) ==
    IF ~Sees(p, ",") THEN p
    ELSE FormatValues(Listed(Make(1, LAMBDA v : [at |-> p.pos + 1, e |-> v[1]], Parse("or", Bump(p)))))
IsSpec(piece) == piece.kind = "spec"
Filled(pieces, values) ==
    [k \in DOMAIN pieces |->
        IF IsSpec(pieces[k]) THEN [pieces[k] EXCEPT !.parts = <<values[Len(SelectSeq(SubSeq(pieces, 1, k), IsSpec))].e>>]
        ELSE pieces[k]]
Paired(pieces, at, p) ==
    LET wanted == Len(SelectSeq(pieces, IsSpec))
    IN  CASE ~p.ok -> p
          [] Len(Top(p)) > wanted -> Fail(p, "format", Top(p)[wanted + 1].at)
          [] Len(Top(p)) < wanted -> Fail(p, "format", at)
          [] OTHER -> Make(1, LAMBDA v : Filled(pieces, v[1]), p)
Formatted(split, p) ==
    IF split.bad \/ split.open THEN Fail(p, "format", p.pos - 1)
    ELSE Paired(Flushed(split), p.pos - 1, FormatValues(Push(<< >>, p)))
OneValue(at, p) == IF Sees(p, ",") THEN Fail(p, "format", at) ELSE Make(1, LAMBDA v : v, p)
PrintParts(p) ==
    CASE Sees(p, ")") -> Push(<< >>, p)
      [] Sees(p, "str") /\ PeekAt(p, 1).kind \in {",", ")"} -> Formatted(SplitFormat(Literals[Peek(p).n]), Bump(p))
      [] OTHER -> OneValue(p.pos, Parse("or", p))
PrintStmt(p) ==
    Make(1, LAMBDA v : [Stmt("print", v[1], << >>) EXCEPT !.name = IF Sees(p, "println") THEN "line" ELSE ""],
         Expect(";", Expect(")", PrintParts(Expect("(", Bump(p))))))

(* Statements. *)
IsPlace(e) == e.kind = "var" \/ (e.kind \in {"index", "field"} /\ IsPlace(e.parts[1]))
IntoPlace(at, p) == IF p.ok /\ ~IsPlace(Top(p)) THEN Fail(p, "not a place", at) ELSE p
Assigned2(at, p) ==
    IF Sees(p, "=") THEN Make(2, LAMBDA v : Stmt("assign", v, << >>), Parse("or", IntoPlace(at, Bump(p))))
    ELSE IF p.ok /\ Top(p).kind \notin {"call", "method"} THEN Fail(p, "does nothing", at)
    ELSE Make(1, LAMBDA v : Stmt("call", v, << >>), p)
AssignWithoutSemi(p) == IF Sees(p, "ident") THEN Assigned2(p.pos, Parse("primary", p)) ELSE Expected(p)
Assign0(p) == Expect(";", Parse("assign", p))
Decl(p) ==
    Make(3, LAMBDA v : [Stmt("decl", <<v[3]>>, << >>) EXCEPT !.ty = v[1], !.name = v[2]],
         Expect(";", Parse("or", Expect("=", ExpectIdent(ExpectType(p))))))
PushStmt(p) ==
    Make(2, LAMBDA v : Stmt("push", v, << >>),
         Expect(";", Expect(")", Parse("or", Expect(",", IntoPlace(p.pos + 2, Parse("primary", Expect("(", Bump(p)))))))))

Else(p) ==
    CASE ~Sees(p, "else") -> Make(2, LAMBDA v : Stmt("if", <<v[1]>>, <<v[2]>>), p)
      [] PeekAt(p, 1).kind = "if" ->
            Make(3, LAMBDA v : Stmt("if", <<v[1]>>, <<v[2], <<v[3]>>>>), Nested("if", Deepen(Bump(p))))
      [] OTHER -> Make(3, LAMBDA v : Stmt("if", <<v[1]>>, <<v[2], v[3]>>), Parse("block", Bump(p)))
IfStmt(p) == Else(Parse("block", Condition(Bump(p))))
WhileStmt(p) == Make(2, LAMBDA v : Stmt("while", <<v[1]>>, <<v[2]>>), Parse("block", Condition(Bump(p))))
ForInit(p) == IF StartsDeclaration(p) THEN Decl(p) ELSE Assign0(p)
ForStmt(p) ==
    Make(4, LAMBDA v : [Stmt("for", <<v[2]>>, <<v[4]>>) EXCEPT !.stmts = <<v[1], v[3]>>],
         Parse("block", Expect(")", Parse("assign", Expect(";", Parse("or", ForInit(Expect("(", Bump(p)))))))))
ReturnStmt(p) ==
    IF Sees(p, ";") THEN Bump(Push(Stmt("return", << >>, << >>), p))
    ELSE Make(1, LAMBDA v : Stmt("return", v, << >>), Expect(";", Parse("or", p)))
LoopJump(p) == Expect(";", Bump(Push(Stmt(Peek(p).kind, << >>, << >>), p)))
StmtOf(p) ==
    LET kind == Peek(p).kind
    IN  CASE StartsDeclaration(p) -> Decl(p)
          [] kind \in {"print", "println"} -> PrintStmt(p)
          [] kind = "push" -> PushStmt(p)
          [] kind = "if" -> IfStmt(p)
          [] kind = "while" -> WhileStmt(p)
          [] kind = "for" -> ForStmt(p)
          [] kind = "match" -> Make(1, LAMBDA v : Stmt("match", v, << >>), Parse("match", p))
          [] kind = "return" -> ReturnStmt(Bump(p))
          [] kind \in {"break", "continue"} -> LoopJump(p)
          [] kind = "ident" /\ ~StartsDeclaration(p) -> Assign0(p)
          [] OTHER -> Expected(p)

CarryOn(p, q) == IF q.ok THEN Listed(q) ELSE IF q.stuck THEN q ELSE Recovered(p, q, RecoverToStatement)
Stmts(p) ==
    CASE Sees(p, "}") -> Bump(p)
      [] Sees(p, "eof") -> Fail(p, "unclosed", p.pos)
      [] OTHER -> IF p.ok THEN Stmts(CarryOn(p, Parse("stmt", p))) ELSE p
BlockOf(p) == Nested("stmts", Deepen(Push(<< >>, Expect("{", p))))

(***************************************************************************)
(* Declarations.                                                           *)
(***************************************************************************)
Parameter(p) ==
    IF Sees(p, "ident") /\ Peek(p).name = "self" THEN Bump(Push([name |-> "self", ty |-> Ty("self")], p))
    ELSE Make(2, LAMBDA v : [name |-> v[2], ty |-> v[1]], ExpectIdent(ExpectType(p)))
ReturnType(p) == IF Sees(p, "->") THEN ExpectType(Bump(p)) ELSE Push(Nothing, p)
FunctionOf(p) ==
    Make(4, LAMBDA v : FnDecl(v[1], v[2], v[3], v[4]),
         Parse("block", ReturnType(Expect(")", ListUnless(")", "param", Expect("(", ExpectIdent(Expect("fn", p))))))))

(* What was declared is put where `run` keeps it. *)
Kept(where, p) == IF p.ok THEN [p EXCEPT ![where] = Append(@, Top(p)), !.values = Front(@)] ELSE p

Payload(p) == IF Sees(p, "(") THEN Expect(")", Separated("type", Push(<< >>, Bump(p)))) ELSE Push(<< >>, p)
VariantDecl(p) == Make(2, LAMBDA v : [name |-> v[1], payload |-> v[2]], Payload(ExpectIdent(p)))
Trailing(p) == Eat(",", p)
EnumDecl(p) ==
    Make(2, LAMBDA v : [name |-> v[1], variants |-> v[2]],
         Expect("}", Trailing(ListUnless("}", "variant", Expect("{", ExpectIdent(Bump(p)))))))

Base(p) == IF Sees(p, ":") THEN Make(1, LAMBDA v : v, ExpectIdent(Bump(p))) ELSE Push(<< >>, p)
FieldDecl(p) ==
    Make(2, LAMBDA v : [v[1] EXCEPT !.fields = Append(@, v[2])],
         Expect(";", Make(2, LAMBDA v : [ty |-> v[1], name |-> v[2]], ExpectIdent(ExpectType(p)))))
Method(p) ==
    LET q == Kept("functions", FunctionOf(p))
    IN  Make(1, LAMBDA v : [v[1] EXCEPT !.methods = Append(@, Len(q.functions))], q)
Members(p) ==
    CASE Sees(p, "}") -> Bump(p)
      [] Sees(p, "eof") -> Fail(p, "unclosed", p.pos)
      [] Sees(p, "fn") -> Members(Method(p))
      [] OTHER -> IF p.ok THEN Members(FieldDecl(p)) ELSE p
ClassDecl(p) ==
    Members(Make(2, LAMBDA v : [name |-> v[1], base |-> v[2], fields |-> << >>, methods |-> << >>],
                 Expect("{", Base(ExpectIdent(Bump(p))))))

Declaration(p) ==
    CASE Sees(p, "enum") -> Kept("enums", EnumDecl(p))
      [] Sees(p, "class") -> Kept("classes", ClassDecl(p))
      [] OTHER -> Kept("functions", FunctionOf(p))

Parse(rule, p) ==
    IF ~p.ok THEN p
    ELSE CASE rule \in DOMAIN Tighter -> Chained(rule, Parse(Tighter[rule], p), 0)
           [] rule = "unary" -> Nested("prefix", Deepen(p))
           [] rule = "prefix" -> Unary(p)
           [] rule = "primary" -> Postfix(Atom(p), 0)
           [] rule = "match" -> MatchExpr(p)
           [] rule = "arm" -> ArmBody(Expect("=>", PatternOf(p)))
           [] rule = "name" -> ExpectIdent(p)
           [] rule = "type" -> ExpectType(p)
           [] rule = "field init" -> FieldInit(p)
           [] rule = "param" -> Parameter(p)
           [] rule = "variant" -> VariantDecl(p)
           [] rule = "block" -> BlockOf(p)
           [] rule = "stmts" -> Stmts(p)
           [] rule = "stmt" -> StmtOf(p)
           [] rule = "if" -> IfStmt(p)
           [] rule = "assign" -> AssignWithoutSemi(p)
           [] rule = "declaration" -> Declaration(p)

CarryOnAfter(p, q) == IF q.ok \/ q.stuck THEN q ELSE Recovered(p, q, RecoverToDeclaration)
Program(p) ==
    IF Sees(p, "eof") \/ ~p.ok THEN p ELSE Program(CarryOnAfter(p, Parse("declaration", p)))

(* `parse`: the program, or its mistakes in the order of the text. *)
Parsed(tokens) ==
    LET p == Program(Reads(tokens))
    IN  [p EXCEPT !.errors = SortSeq(@, LAMBDA d, e : d.at < e.at)]
=============================================================================
