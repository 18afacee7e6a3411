------------------------------- MODULE Syntax -------------------------------
(***************************************************************************)
(* The syntax tree of one function and the types in it (src/src/ast.rs),   *)
(* as far as checking and lowering tell its parts apart.  Kept are int,    *)
(* bool, enums, of which a variant may carry values, and arrays; calls go  *)
(* to functions that are known by their signatures alone.                  *)
(***************************************************************************)
EXTENDS Integers, Sequences, SequencesExt, FiniteSets, TLC

CONSTANTS
    Least,      \* the least integer
    Greatest,   \* and the greatest
    Enums,      \* name -> its variants, <<[name, payload]>>
    Signatures  \* name -> [params, ret] of the functions that can be called

ASSUME SyntaxAssumption == Least \in Int /\ Greatest \in Int /\ Least < 0 /\ 0 < Greatest

(* `Ty`.  An array's length is part of its type; nothing else has one. *)
Ty(name) == [of |-> name, len |-> 0]
ArrayOf(t, n) == [of |-> t.of, len |-> n]
IntTy == Ty("int")
BoolTy == Ty("bool")
Nothing == Ty("nothing")
IsArray(t) == t.len > 0
ElementOf(t) == Ty(t.of)
IsEnum(t) == t.len = 0 /\ t.of \in DOMAIN Enums
FitsInARegister(t) == ~IsArray(t)
SizeOf(t) == IF IsArray(t) THEN t.len ELSE 1

(* `EnumInfo`: tags count from 0, in the order the variants are declared. *)
Variants(t) == Enums[t.of]
HasVariant(t, member) == \E k \in DOMAIN Variants(t) : Variants(t)[k].name = member
TagOf(t, member) == (CHOOSE k \in DOMAIN Variants(t) : Variants(t)[k].name = member) - 1
PayloadOf(t, member) == Variants(t)[TagOf(t, member) + 1].payload
CarriesData(t) == \E k \in DOMAIN Variants(t) : Variants(t)[k].payload # << >>
IsBoxed(t) == IsEnum(t) /\ CarriesData(t)
Slots(t) == CHOOSE n \in {Len(Variants(t)[k].payload) : k \in DOMAIN Variants(t)} :
                \A k \in DOMAIN Variants(t) : Len(Variants(t)[k].payload) <= n

HasEquality(t) == ~IsArray(t) /\ ~IsBoxed(t)
IsOrdered(t) == t = IntTy
IsPrintable(t) == FitsInARegister(t)

(***************************************************************************)
(* `ExprKind`: int n, bool n, var name, neg, not, bin and cmp (`name` is   *)
(* the operator), logic (the same), call name, variant name::member, array,   *)
(* index, len, match.                                                      *)
(***************************************************************************)
Expr(kind, name, n, parts) ==
    [kind |-> kind, name |-> name, member |-> "", n |-> n, parts |-> parts, arms |-> << >>]

(* `MatchArm`: `value` is << >> for an arm that is a block. *)
Arm(pattern, value, block) == [pattern |-> pattern, value |-> value, block |-> block]
IsValueArm(arm) == arm.value # << >>

(* `Pattern`: variant, literal of a type, wildcard. *)
Pattern(kind, name, member, n, binds) ==
    [kind |-> kind, name |-> name, member |-> member, n |-> n, binds |-> binds]

(***************************************************************************)
(* `Stmt`: decl (name, type), assign (target, value), print, if, while,    *)
(* for (its `stmts` are initialiser and step), return, match, break,       *)
(* continue, call.                                                         *)
(***************************************************************************)
Stmt(kind, parts, blocks) ==
    [kind |-> kind, name |-> "", ty |-> Nothing, parts |-> parts, blocks |-> blocks, stmts |-> << >>]

(* `FnDecl`: the parameters are [name, ty]. *)
FnDecl(name, params, ret, body) == [name |-> name, params |-> params, ret |-> ret, body |-> body]

(* `apply_exact`, and `BinOp::apply`: << >> where there is no answer, or it  *)
(* does not fit.  Division cuts towards zero.                               *)
Abs(a) == IF a < 0 THEN -a ELSE a
Quotient(a, b) == IF (a < 0) = (b < 0) THEN Abs(a) \div Abs(b) ELSE -(Abs(a) \div Abs(b))
Exact(op, a, b) ==
    CASE op = "add" -> a + b
      [] op = "sub" -> a - b
      [] op = "mul" -> a * b
      [] op = "div" -> Quotient(a, b)
      [] op = "rem" -> a - b * Quotient(a, b)
Divides(op) == op \in {"div", "rem"}
Fits(n) == n \in Least .. Greatest
Apply(op, a, b) ==
    IF Divides(op) /\ (b = 0 \/ ~Fits(Quotient(a, b))) THEN << >>
    ELSE IF Fits(Exact(op, a, b)) THEN <<Exact(op, a, b)>> ELSE << >>

(* The six comparisons, as 0 or 1, and the one that is true when `op` is not. *)
Truth(p) == IF p THEN 1 ELSE 0
Compare(op, a, b) ==
    Truth(CASE op = "eq" -> a = b
            [] op = "ne" -> a # b
            [] op = "lt" -> a < b
            [] op = "ge" -> a >= b
            [] op = "le" -> a <= b
            [] op = "gt" -> a > b)
Negate(op) ==
    CASE op = "eq" -> "ne"
      [] op = "ne" -> "eq"
      [] op = "lt" -> "ge"
      [] op = "ge" -> "lt"
      [] op = "le" -> "gt"
      [] op = "gt" -> "le"
IsOrdering(op) == op \notin {"eq", "ne"}

(* What `&&` and `||` answer when the left operand alone decides. *)
ShortCircuit(op) == IF op = "and" THEN 0 ELSE 1
=============================================================================
