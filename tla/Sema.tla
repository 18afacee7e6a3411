-------------------------------- MODULE Sema --------------------------------
(***************************************************************************)
(* The checks of one function's body (src/src/sema/check/, signature.rs):  *)
(* the type of every expression, and the set of the mistakes in it.  A     *)
(* program is accepted when there is none.  A mistake is told by its kind; *)
(* its wording, its place and how often it is reported are left out.       *)
(*                                                                         *)
(* `scopes` holds one function from names to types for each open block,    *)
(* innermost last; a context c adds the number of loops around it and the  *)
(* type the function returns.                                              *)
(***************************************************************************)
EXTENDS Syntax

Context(scopes, loops, ret) == [scopes |-> scopes, loops |-> loops, ret |-> ret]
When(wrong, mistake) == IF wrong THEN {mistake} ELSE {}

-----------------------------------------------------------------------------
(* `lookup`, `declare`: the innermost binding counts, and in one scope the   *)
(* first.                                                                   *)
IsDeclared(scopes, x) == \E k \in DOMAIN scopes : x \in DOMAIN scopes[k]
Binding(scopes, x) ==
    scopes[CHOOSE k \in DOMAIN scopes : /\ x \in DOMAIN scopes[k]
                                        /\ \A j \in k + 1 .. Len(scopes) : x \notin DOMAIN scopes[j]][x]
Declare(scopes, x, ty) == [scopes EXCEPT ![Len(scopes)] = @ @@ (x :> ty)]
Redeclares(scopes, x) == x \in DOMAIN Last(scopes)

Opened(scopes) == Append(scopes, << >>)

(* `bind_payload`: a name with nothing behind it is an int. *)
PayloadAt(payload, k) == IF k \in DOMAIN payload THEN payload[k] ELSE IntTy
BindsVariantOf(ty, p) ==
    p.kind = "variant" /\ IsEnum(ty) /\ p.name = ty.of /\ HasVariant(ty, p.member)
ArmScopes(scopes, ty, p) ==
    IF BindsVariantOf(ty, p)
    THEN FoldLeft(LAMBDA open, k : Declare(open, p.binds[k], PayloadAt(PayloadOf(ty, p.member), k)),
                  Opened(scopes), [k \in DOMAIN p.binds |-> k])
    ELSE Opened(scopes)

-----------------------------------------------------------------------------
(* What kind of value an expression has.  One with a mistake in it is taken  *)
(* for an int, where nothing better is known.                               *)
RECURSIVE TypeOf(_, _)
TypeOf(scopes, e) ==
    LET part(k) == TypeOf(scopes, e.parts[k])
        valueArms == {k \in DOMAIN e.arms : IsValueArm(e.arms[k])}
        first == CHOOSE k \in valueArms : \A j \in valueArms : k <= j
    IN  CASE e.kind = "int" -> IntTy
          [] e.kind \in {"bool", "not", "cmp", "logic"} -> BoolTy
          [] e.kind = "var" -> IF IsDeclared(scopes, e.name) THEN Binding(scopes, e.name) ELSE IntTy
          [] e.kind \in {"neg", "bin", "len"} -> IntTy
          [] e.kind = "variant" -> IF e.name \in DOMAIN Enums THEN Ty(e.name) ELSE IntTy
          [] e.kind = "array" -> IF Len(e.parts) = 0 \/ IsArray(part(1)) THEN IntTy
                                 ELSE ArrayOf(part(1), Len(e.parts))
          [] e.kind = "index" -> IF IsArray(part(1)) THEN ElementOf(part(1)) ELSE IntTy
          [] e.kind = "call" -> IF e.name \in DOMAIN Signatures /\ Signatures[e.name].ret # Nothing
                                THEN Signatures[e.name].ret ELSE IntTy
          [] e.kind = "match" -> IF valueArms = {} \/ IsArray(part(1)) THEN IntTy
                                 ELSE TypeOf(ArmScopes(scopes, part(1), e.arms[first].pattern), e.arms[first].value[1])

(* `const_int`: << >> when the running program alone knows. *)
RECURSIVE ConstInt(_)
ConstInt(e) ==
    LET part(k) == ConstInt(e.parts[k])
    IN  CASE e.kind = "int" -> <<e.n>>
          [] e.kind = "neg" -> IF part(1) = << >> THEN << >> ELSE Apply("sub", 0, part(1)[1])
          [] e.kind = "bin" -> IF << >> \in {part(1), part(2)} THEN << >>
                               ELSE Apply(e.name, part(1)[1], part(2)[1])
          [] OTHER -> << >>

(* `check_arithmetic`. *)
ArithmeticMistakes(e) ==
    LET a == ConstInt(e.parts[1])
        b == ConstInt(e.parts[2])
    IN  IF Divides(e.name) /\ b = <<0>> THEN {"division by zero"}
        ELSE When(a # << >> /\ b # << >> /\ ConstInt(e) = << >>, "overflows")

(* `index`: a constant one has to be there. *)
IndexMistakes(of, ty, index) ==
    LET at == ConstInt(index)
    IN  IF ty # IntTy THEN {"index is no int"}
        ELSE When(IsArray(of) /\ at # << >> /\ at[1] \notin 0 .. of.len - 1, "out of bounds")

(* Mutants: a match whose first arm returns always returns; a block that      *)
(* might be left always is.                                                 *)
RECURSIVE ReturnsSomehow(_)
ReturnsSomehow(stmts) ==
    \E k \in DOMAIN stmts :
        LET st == stmts[k]
        IN  \/ st.kind = "return"
            \/ st.kind = "if" /\ \A b \in DOMAIN st.blocks : ReturnsSomehow(st.blocks[b])
            \/ st.kind = "match" /\ \A a \in DOMAIN st.parts[1].arms : ReturnsSomehow(st.parts[1].arms[a].block)

(* `always_returns`: a loop is never assumed to run. *)
RECURSIVE AlwaysReturns(_)
AlwaysReturns(stmts) ==
    \E k \in DOMAIN stmts :
        LET st == stmts[k]
        IN  \/ st.kind = "return"
            \/ st.kind = "if" /\ Len(st.blocks) = 2 /\ \A b \in {1, 2} : AlwaysReturns(st.blocks[b])
            \/ /\ st.kind = "match" /\ st.parts[1].arms # << >>
               /\ \A a \in DOMAIN st.parts[1].arms : AlwaysReturns(st.parts[1].arms[a].block)

(* `diverges`. *)
RECURSIVE Diverges(_)
Diverges(stmts) ==
    \E k \in DOMAIN stmts :
        LET st == stmts[k]
        IN  \/ st.kind \in {"return", "break", "continue"}
            \/ st.kind = "if" /\ Len(st.blocks) = 2 /\ \A b \in {1, 2} : Diverges(st.blocks[b])
            \/ /\ st.kind = "match" /\ st.parts[1].arms # << >>
               /\ \A a \in DOMAIN st.parts[1].arms : Diverges(st.parts[1].arms[a].block)

-----------------------------------------------------------------------------
(* `domain_of`: what a value can be matched against.  An int has too many     *)
(* values to count; an enum's all have to be written out.                   *)
IsMatchable(ty) == ~IsArray(ty)
IsCounted(ty) == ty = BoolTy \/ IsEnum(ty)
Domain(ty) == IF ty = BoolTy THEN {0, 1} ELSE 0 .. Len(Variants(ty)) - 1
AllowsCatchAll(ty) == ~IsEnum(ty)

(* `arm_pattern`: what is wrong with a pattern for a value of type ty.  One   *)
(* that is not about such values selects nothing.                           *)
PatternMistakes(ty, p) ==
    CASE p.kind = "wildcard" -> When(~AllowsCatchAll(ty), "no catch-all here")
      [] p.kind = "variant" ->
            IF ~IsEnum(ty) \/ p.name # ty.of THEN {"pattern of another type"}
            ELSE When(~HasVariant(ty, p.member), "no such variant")
      [] p.kind = "literal" -> When(Ty(p.name) # ty, "pattern of another type")
IsReadable(ty, p) == PatternMistakes(ty, p) = {}

(* The one value a pattern selects, if it is not the catch-all. *)
Selected(ty, p) == IF p.kind = "variant" THEN TagOf(ty, p.member) ELSE p.n

(* Mutant: an arm of the same kind of pattern counts as the same. *)
CanNeverRunLoosely(ty, arms, k) ==
    \E j \in 1 .. k - 1 : arms[j].pattern.kind \in {"wildcard", arms[k].pattern.kind}

(* `match_arm`: everything it selects has been taken by an arm before it. *)
CanNeverRun(ty, arms, k) ==
    \E j \in 1 .. k - 1 :
        LET earlier == arms[j].pattern
            p == arms[k].pattern
        IN  /\ IsReadable(ty, earlier)
            /\ \/ earlier.kind = "wildcard"
               \/ /\ IsReadable(ty, p) /\ p.kind # "wildcard"
                  /\ Selected(ty, p) = Selected(ty, earlier)

(* `report_gaps`: not every value has an arm.  Not said when an arm cannot    *)
(* be read.                                                                 *)
LeavesGaps(ty, arms) ==
    /\ \A k \in DOMAIN arms : IsReadable(ty, arms[k].pattern) /\ arms[k].pattern.kind # "wildcard"
    /\ IsCounted(ty) => Domain(ty) # {Selected(ty, arms[k].pattern) : k \in DOMAIN arms}

BindMistakes(ty, p) ==
    IF BindsVariantOf(ty, p)
    THEN When(Len(p.binds) # Len(PayloadOf(ty, p.member)), "names more or less than it carries")
            \cup When(\E j, k \in DOMAIN p.binds : j # k /\ p.binds[j] = p.binds[k], "already declared")
    ELSE {}

-----------------------------------------------------------------------------
RECURSIVE ExprMistakes(_, _), StmtMistakes(_, _), BlockMistakes(_, _), CallMistakes(_, _), MatchMistakes(_, _)

PartMistakes(c, e) == UNION {ExprMistakes(c, e.parts[k]) : k \in DOMAIN e.parts}

(* What each kind of `expr` can have wrong with it, past its parts; ty gives  *)
(* the type of each.                                                        *)
NegMistakes(ty) == When(ty[1] # IntTy, "operand")
NotMistakes(ty) == When(ty[1] # BoolTy, "operand")
BinMistakes(e, ty) == When(ty # <<IntTy, IntTy>>, "operand") \cup ArithmeticMistakes(e)
CmpMistakes(e, ty) ==
    When(ty[1] # ty[2] \/ ~HasEquality(ty[1]) \/ (IsOrdering(e.name) /\ ~IsOrdered(ty[1])), "not compared")
LogicMistakes(ty) == When(ty # <<BoolTy, BoolTy>>, "operand")
LenMistakes(ty) == When(~IsArray(ty[1]), "no length")

(* `payload_args`: of those that have a place. *)
PayloadMistakes(payload, ty) ==
    When(Len(payload) # Len(ty), "given more or less than it carries") \cup
    When(\E k \in DOMAIN payload \cap DOMAIN ty : ty[k] # payload[k], "carries another type")
(* `variant`. *)
VariantMistakes(e, ty) ==
    IF e.name \notin DOMAIN Enums THEN {"no such enum"}
    ELSE IF ~HasVariant(Ty(e.name), e.member) THEN {"no such variant"}
    ELSE PayloadMistakes(PayloadOf(Ty(e.name), e.member), ty)

(* `array_literal`; `element_type`, with `index`. *)
ArrayMistakes(ty) ==
    When(ty = << >>, "no elements") \cup
    When(Cardinality(Range(ty)) > 1, "elements differ") \cup
    When(ty # << >> /\ IsArray(ty[1]), "arrays do not nest")
ElementMistakes(e, ty) == When(~IsArray(ty[1]), "not indexed") \cup IndexMistakes(ty[1], ty[2], e.parts[2])

(* `match_value`, but for the arms' agreeing: somewhere a value, and an arm   *)
(* without one does not arrive.                                             *)
MatchValueMistakes(e, ty) ==
    LET valueArms == {k \in DOMAIN e.arms : IsValueArm(e.arms[k])}
    IN  IF ~IsMatchable(ty[1]) THEN {}
        ELSE When(valueArms = {}, "produces no value") \cup
             When(\E k \in DOMAIN e.arms \ valueArms : ~Diverges(e.arms[k].block), "arm produces no value")

(* `expr`. *)
ExprMistakes(c, e) ==
    LET ty == [k \in DOMAIN e.parts |-> TypeOf(c.scopes, e.parts[k])]
        parts == PartMistakes(c, e)
    IN  CASE e.kind \in {"int", "bool"} -> {}
          [] e.kind = "var" -> When(~IsDeclared(c.scopes, e.name), "undeclared")
          [] e.kind = "neg" -> parts \cup NegMistakes(ty)
          [] e.kind = "not" -> parts \cup NotMistakes(ty)
          [] e.kind = "bin" -> parts \cup BinMistakes(e, ty)
          [] e.kind = "cmp" -> parts \cup CmpMistakes(e, ty)
          [] e.kind = "logic" -> parts \cup LogicMistakes(ty)
          [] e.kind = "variant" -> parts \cup VariantMistakes(e, ty)
          [] e.kind = "array" -> parts \cup ArrayMistakes(ty)
          [] e.kind = "index" -> parts \cup ElementMistakes(e, ty)
          [] e.kind = "len" -> parts \cup LenMistakes(ty)
          [] e.kind = "call" -> CallMistakes(c, e) \cup
                When(e.name \in DOMAIN Signatures /\ Signatures[e.name].ret = Nothing, "returns nothing")
          [] e.kind = "match" -> MatchMistakes(c, e) \cup MatchValueMistakes(e, ty)

(* `call`, but for whether there is an answer to use. *)
CallMistakes(c, e) ==
    PartMistakes(c, e) \cup
    IF e.name \notin DOMAIN Signatures THEN {"unknown function"}
    ELSE LET params == Signatures[e.name].params
         IN  IF Len(params) # Len(e.parts) THEN {"arguments"}
             ELSE When(\E k \in DOMAIN params : TypeOf(c.scopes, e.parts[k]) # params[k], "argument")

(* `match_expr`, `match_arm`, and of `match_value` that the arms agree. *)
MatchMistakes(c, e) ==
    LET of == TypeOf(c.scopes, e.parts[1])
        scopes(k) == IF IsMatchable(of) THEN ArmScopes(c.scopes, of, e.arms[k].pattern) ELSE c.scopes
        body(k) == LET inside == [c EXCEPT !.scopes = scopes(k)]
                   IN  IF IsValueArm(e.arms[k]) THEN ExprMistakes(inside, e.arms[k].value[1])
                       ELSE BlockMistakes(inside, e.arms[k].block)
        produced == {TypeOf(scopes(k), e.arms[k].value[1]) : k \in {a \in DOMAIN e.arms : IsValueArm(e.arms[a])}}
    IN  PartMistakes(c, e) \cup UNION {body(k) : k \in DOMAIN e.arms} \cup
        IF ~IsMatchable(of) THEN {"cannot match"}
        ELSE UNION {PatternMistakes(of, e.arms[k].pattern) \cup BindMistakes(of, e.arms[k].pattern) \cup
                    When(CanNeverRun(of, e.arms, k), "can never run") : k \in DOMAIN e.arms} \cup
             When(LeavesGaps(of, e.arms), "not covered") \cup
             When(Cardinality(produced) > 1, "arms differ")

-----------------------------------------------------------------------------
(* `assign`, `place_type`: the target is a variable or an element of one. *)
AssignMistakes(c, st) ==
    LET target == st.parts[1]
        root == IF target.kind = "var" THEN target ELSE target.parts[1]
        ty == TypeOf(c.scopes, root)
        wanted == IF target.kind = "var" THEN ty ELSE ElementOf(ty)
        actual == TypeOf(c.scopes, st.parts[2])
    IN  ExprMistakes(c, st.parts[2]) \cup
        IF ~IsDeclared(c.scopes, root.name) THEN {"undeclared"}
        ELSE IF target.kind = "index" /\ ~IsArray(ty) THEN ExprMistakes(c, target)
        ELSE ExprMistakes(c, target) \cup When(actual # wanted, "assigned another type")

ReturnMistakes(c, st) ==
    CASE st.parts = << >> -> When(c.ret # Nothing, "return needs a value")
      [] OTHER -> ExprMistakes(c, st.parts[1]) \cup
                  IF c.ret = Nothing THEN {"function returns nothing"}
                  ELSE When(TypeOf(c.scopes, st.parts[1]) # c.ret, "returns another type")

ConditionMistakes(c, cond) ==
    ExprMistakes(c, cond) \cup When(TypeOf(c.scopes, cond) # BoolTy, "condition is no bool")

(* `loop_body`: what a `break` in the condition or the step leaves is another *)
(* loop, around this one.                                                   *)
InLoop(c) == [c EXCEPT !.loops = @ + 1]
InScope(c) == [c EXCEPT !.scopes = Opened(@)]

(* A declaration's initialiser does not see the name it declares. *)
AfterStmt(c, st) == IF st.kind = "decl" THEN [c EXCEPT !.scopes = Declare(@, st.name, st.ty)] ELSE c

(* `stmt`. *)
StmtMistakes(c, st) ==
    CASE st.kind = "decl" ->
            ExprMistakes(c, st.parts[1]) \cup
            When(TypeOf(c.scopes, st.parts[1]) # st.ty, "initialised with another type") \cup
            When(Redeclares(c.scopes, st.name), "already declared")
      [] st.kind = "assign" -> AssignMistakes(c, st)
      [] st.kind = "print" ->
            ExprMistakes(c, st.parts[1]) \cup When(~IsPrintable(TypeOf(c.scopes, st.parts[1])), "cannot print")
      [] st.kind = "if" ->
            ConditionMistakes(c, st.parts[1]) \cup UNION {BlockMistakes(c, st.blocks[b]) : b \in DOMAIN st.blocks}
      [] st.kind = "while" -> ConditionMistakes(c, st.parts[1]) \cup BlockMistakes(InLoop(c), st.blocks[1])
      [] st.kind = "for" ->
            LET inside == AfterStmt(InScope(c), st.stmts[1])
            IN  StmtMistakes(InScope(c), st.stmts[1]) \cup ConditionMistakes(inside, st.parts[1]) \cup
                StmtMistakes(inside, st.stmts[2]) \cup BlockMistakes(InLoop(inside), st.blocks[1])
      [] st.kind = "return" -> ReturnMistakes(c, st)
      [] st.kind = "match" ->
            MatchMistakes(c, st.parts[1]) \cup
            When(IsMatchable(TypeOf(c.scopes, st.parts[1].parts[1])) /\
                 \E k \in DOMAIN st.parts[1].arms : IsValueArm(st.parts[1].arms[k]), "nothing uses the value")
      [] st.kind \in {"break", "continue"} -> When(c.loops = 0, "outside of a loop")
      [] st.kind = "call" -> CallMistakes(c, st.parts[1])

(* What is declared by the statements before each one. *)
Contexts(c, stmts) ==
    [k \in DOMAIN stmts |-> FoldLeft(LAMBDA at, st : AfterStmt(at, st), c, SubSeq(stmts, 1, k - 1))]
StmtsMistakes(c, stmts) ==
    LET at == Contexts(c, stmts) IN UNION {StmtMistakes(at[k], stmts[k]) : k \in DOMAIN stmts}
BlockMistakes(c, stmts) == StmtsMistakes(InScope(c), stmts)

(* `FnChecker::run`: parameters and the body share a scope. *)
ParamScope(f) == FoldLeft(LAMBDA open, p : Declare(open, p.name, p.ty), <<<< >>>>, f.params)
Mistakes(f) ==
    StmtsMistakes(Context(ParamScope(f), 0, f.ret), f.body) \cup
    When(\E j, k \in DOMAIN f.params : j # k /\ f.params[j].name = f.params[k].name, "already declared") \cup
    When(f.ret # Nothing /\ ~AlwaysReturns(f.body), "may finish without returning")
=============================================================================
