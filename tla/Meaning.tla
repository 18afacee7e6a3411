------------------------------ MODULE Meaning ------------------------------
(***************************************************************************)
(* What a function of module Syntax means, said without types, registers   *)
(* or addresses: what it shows to somebody who watches its calls and       *)
(* prints, answers the calls, and sees it return or abort.  This is the    *)
(* definition that checking and lowering are measured against.             *)
(*                                                                         *)
(* s is where a run has got to: the values of the names in each open       *)
(* scope, what was shown, the answers to come, what the last expression    *)
(* gave, and why it goes no further on its way if it does not: break,      *)
(* continue, return, abort, stuck where the language says nothing, or late *)
(* once its loops have gone round too often.                               *)
(***************************************************************************)
EXTENDS Syntax

Of(kind, n, parts) == [kind |-> kind, n |-> n, parts |-> parts]
Num(n) == Of("int", n, << >>)
Truly(n) == Of("bool", n, << >>)
SameKind(v, w) == v.kind = w.kind /\ (v.kind = "array" => Len(v.parts) = Len(w.parts))
HasType(v, ty) ==
    IF IsArray(ty) THEN v.kind = "array" /\ Len(v.parts) = ty.len /\ \A k \in DOMAIN v.parts : v.parts[k].kind = ty.of
    ELSE v.kind = ty.of

Event(event, what) == [event |-> event, what |-> what]
Flat(v) ==
    LET parts == [k \in DOMAIN v.parts |-> v.parts[k].n] IN IF v.kind = "array" THEN parts ELSE <<v.n>> \o parts

(* A call is answered with a number; an array has it in front, and zeros. *)
AnswerOf(ty, n) ==
    IF IsArray(ty) THEN Of("array", 0, [k \in 1 .. ty.len |-> Of(ty.of, IF k = 1 THEN n ELSE 0, << >>)])
    ELSE Of(ty.of, n, << >>)

Goes(s) == s.going = "on"
Stop(s, why) == [s EXCEPT !.going = why]
Give(s, v) == [s EXCEPT !.value = v]
Show(s, event, what) == [s EXCEPT !.shown = Append(@, Event(event, what))]
GiveInt(s, answer) == IF answer = << >> THEN Stop(s, "abort") ELSE Give(s, Num(answer[1]))

Holds(s, x) == \E k \in DOMAIN s.env : x \in DOMAIN s.env[k]
ScopeOf(s, x) == CHOOSE k \in DOMAIN s.env : /\ x \in DOMAIN s.env[k]
                                             /\ \A j \in k + 1 .. Len(s.env) : x \notin DOMAIN s.env[j]
Held(s, x) == s.env[ScopeOf(s, x)][x]
Inside(s, names) == [s EXCEPT !.env = Append(@, names)]
Outside(s, t) == [t EXCEPT !.env = SubSeq(@, 1, Len(s.env))]

RECURSIVE Eval(_, _), Do(_, _), Rounds(_, _, _, _), Choose(_, _, _)

EvalAll(s, es) ==
    FoldLeft(LAMBDA so, e : LET t == Eval(so.s, e) IN [s |-> t, vs |-> Append(so.vs, t.value)],
             [s |-> s, vs |-> << >>], es)
DoAll(s, stmts) == FoldLeft(Do, s, stmts)

Ints(vs) == \A k \in DOMAIN vs : vs[k].kind = "int"
Comparable(op, v, w) == SameKind(v, w) /\ v.kind # "array" /\ v.parts = << >> /\ (IsOrdering(op) => v.kind = "int")

(* If that is how far the operands got, what they are makes sense or not. *)
Unless(bad, t, good) == IF bad THEN Stop(t, "stuck") ELSE good

(* What an operator makes of the values vs, which were arrived at in t. *)
Operate(e, t, vs) ==
    CASE e.kind = "neg" -> Unless(~Ints(vs), t, GiveInt(t, Apply("sub", 0, vs[1].n)))
      [] e.kind = "not" -> Unless(vs[1].kind # "bool", t, Give(t, Truly(1 - vs[1].n)))
      [] e.kind = "bin" -> Unless(~Ints(vs), t, GiveInt(t, Apply(e.name, vs[1].n, vs[2].n)))
      [] e.kind = "cmp" -> Unless(~Comparable(e.name, vs[1], vs[2]), t, Give(t, Truly(Compare(e.name, vs[1].n, vs[2].n))))
      [] e.kind = "variant" ->
            Unless(\/ e.name \notin DOMAIN Enums \/ ~HasVariant(Ty(e.name), e.member)
                   \/ Len(vs) # Len(PayloadOf(Ty(e.name), e.member)),
                   t, Give(t, Of(e.name, TagOf(Ty(e.name), e.member), vs)))
      [] e.kind = "array" -> Unless(vs = << >> \/ \E k \in DOMAIN vs : vs[k].kind # vs[1].kind, t, Give(t, Of("array", 0, vs)))
      [] e.kind = "index" ->
            Unless(vs[1].kind # "array" \/ vs[2].kind # "int", t,
                   IF vs[2].n \in 0 .. Len(vs[1].parts) - 1 THEN Give(t, vs[1].parts[vs[2].n + 1]) ELSE Stop(t, "abort"))
      [] e.kind = "len" -> Unless(vs[1].kind # "array", t, Give(t, Num(Len(vs[1].parts))))
      [] e.kind = "call" ->
            Unless(e.name \notin DOMAIN Signatures \/ t.answers = << >>, t,
                   [Show(t, e.name, FlattenSeq([k \in DOMAIN vs |-> Flat(vs[k])])) EXCEPT
                       !.value = AnswerOf(Signatures[e.name].ret, Head(t.answers)), !.answers = Tail(@)])

(* The right operand counts only when the left one has not decided. *)
GaveBool(s) == s.value.kind = "bool"
BoolOrStuck(s) == IF Goes(s) /\ ~GaveBool(s) THEN Stop(s, "stuck") ELSE s
Decide(left, e) ==
    IF ~Goes(left) \/ left.value.n = ShortCircuit(e.name) THEN left ELSE BoolOrStuck(Eval(left, e.parts[2]))

Eval(s, e) ==
    IF ~Goes(s) THEN s
    ELSE CASE e.kind = "int" -> Give(s, Num(e.n))
           [] e.kind = "bool" -> Give(s, Truly(e.n))
           [] e.kind = "var" -> IF Holds(s, e.name) THEN Give(s, Held(s, e.name)) ELSE Stop(s, "stuck")
           [] e.kind = "logic" -> Decide(BoolOrStuck(Eval(s, e.parts[1])), e)
           [] e.kind = "match" -> Choose(Eval(s, e.parts[1]), e, 1)
           [] OTHER -> LET all == EvalAll(s, e.parts) IN IF Goes(all.s) THEN Operate(e, all.s, all.vs) ELSE all.s

(* The first arm that fits; `ran` remembers which ones have. *)
FitsArm(v, p) ==
    \/ p.kind = "wildcard"
    \/ p.kind = "literal" /\ p.name = v.kind /\ p.n = v.n
    \/ p.kind = "variant" /\ p.name = v.kind /\ HasVariant(Ty(p.name), p.member) /\ TagOf(Ty(p.name), p.member) = v.n
Named(binds, carried) ==
    [x \in ToSet(binds) |-> carried[CHOOSE b \in DOMAIN binds : binds[b] = x]]
InArm(s, e, k) ==
    [Inside(s, Named(e.arms[k].pattern.binds, s.value.parts)) EXCEPT
        !.ran = @ \cup {[ty |-> Ty(s.value.kind), arms |-> e.arms, arm |-> k]}]
Choose(s, e, k) ==
    IF ~Goes(s) THEN s
    ELSE IF k > Len(e.arms) THEN Stop(s, "stuck")
    ELSE LET arm == e.arms[k]
         IN  IF ~FitsArm(s.value, arm.pattern) THEN Choose(s, e, k + 1)
             ELSE IF Len(arm.pattern.binds) # Len(s.value.parts) /\ arm.pattern.kind = "variant" THEN Stop(s, "stuck")
             ELSE Outside(s, IF IsValueArm(arm) THEN Eval(InArm(s, e, k), arm.value[1])
                             ELSE DoAll(Inside(InArm(s, e, k), << >>), arm.block))

(* As often as the condition says; what leaves the condition or the step     *)
(* leaves a loop around this one.                                           *)
Went(once, cond, block, step) ==
    IF once.going = "break" THEN [once EXCEPT !.going = "on"]
    ELSE IF once.going \notin {"on", "continue"} THEN once
    ELSE Rounds(DoAll([once EXCEPT !.going = "on", !.patience = @ - 1], step), cond, block, step)
Asked(asked, cond, block, step) ==
    IF ~Goes(asked) \/ asked.value.n = 0 THEN asked
    ELSE Went(Outside(asked, DoAll(Inside(asked, << >>), block)), cond, block, step)
Rounds(s, cond, block, step) ==
    IF ~Goes(s) THEN s
    ELSE IF s.patience = 0 THEN Stop(s, "late")
    ELSE Asked(BoolOrStuck(Eval(s, cond)), cond, block, step)

-----------------------------------------------------------------------------
Keep(s, x, v) ==
    LET k == ScopeOf(s, x)
    IN  IF ~Holds(s, x) \/ ~SameKind(s.env[k][x], v) THEN Stop(s, "stuck")
        ELSE [s EXCEPT !.env[k][x] = v]
(* An element is found, or missed, before what goes there is worked out. *)
Found(s, x) ==
    IF ~Goes(s) THEN s
    ELSE IF ~Holds(s, x) \/ Held(s, x).kind # "array" \/ s.value.kind # "int" THEN Stop(s, "stuck")
    ELSE IF s.value.n \notin 0 .. Len(Held(s, x).parts) - 1 THEN Stop(s, "abort")
    ELSE s
KeepElement(s, x, at) ==
    IF ~Goes(s) THEN s
    ELSE IF ~SameKind(Held(s, x).parts[1], s.value) THEN Stop(s, "stuck")
    ELSE Keep(s, x, [Held(s, x) EXCEPT !.parts[at + 1] = s.value])
PutInElement(found, x, e) == KeepElement(Eval(found, e), x, found.value.n)
PutInVar(s, x) == IF Goes(s) THEN Keep(s, x, s.value) ELSE s
Assigned(s, target, e) ==
    IF target.kind = "var" THEN PutInVar(Eval(s, e), target.name)
    ELSE PutInElement(Found(Eval(s, target.parts[2]), target.parts[1].name), target.parts[1].name, e)

Declared(t, st) ==
    Unless(~HasType(t.value, st.ty) \/ st.name \in DOMAIN Last(t.env), t,
           [t EXCEPT !.env[Len(t.env)] = @ @@ (st.name :> t.value)])
Branched(t, blocks) ==
    LET b == IF t.value.n = 1 THEN 1 ELSE 2
    IN  IF b \in DOMAIN blocks THEN Outside(t, DoAll(Inside(t, << >>), blocks[b])) ELSE t

(* What a statement does once the expression in it has a value. *)
After(t, st) ==
    IF ~Goes(t) THEN t
    ELSE CASE st.kind = "decl" -> Declared(t, st)
           [] st.kind = "print" -> Unless(t.value.kind = "array", t, Show(t, "print", <<t.value.n>>))
           [] st.kind = "if" -> Unless(~GaveBool(t), t, Branched(t, st.blocks))
           [] st.kind = "return" -> Stop(t, "return")
           [] st.kind \in {"match", "call"} -> t

Do(s, st) ==
    IF ~Goes(s) THEN s
    ELSE CASE st.kind \in {"break", "continue"} -> Stop(s, st.kind)
           [] st.kind = "assign" -> Assigned(s, st.parts[1], st.parts[2])
           [] st.kind = "while" -> Rounds(s, st.parts[1], st.blocks[1], << >>)
           [] st.kind = "for" ->
                Outside(s, Rounds(Do(Inside(s, << >>), st.stmts[1]), st.parts[1], st.blocks[1], <<st.stmts[2]>>))
           [] OTHER -> After(EvalAll(s, st.parts).s, st)

-----------------------------------------------------------------------------
(* The whole function, which returns what it answers, and what it left in     *)
(* arrays of the caller's.                                                  *)
Entered(f, arguments, answers, patience) ==
    [env |-> <<[x \in {f.params[k].name : k \in DOMAIN f.params} |->
                   arguments[CHOOSE k \in DOMAIN f.params : f.params[k].name = x]]>>,
     shown |-> << >>, answers |-> answers, value |-> Num(0), going |-> "on", patience |-> patience, ran |-> {}]
LeftBehind(f, s) ==
    FlattenSeq([k \in DOMAIN f.params |-> IF IsArray(f.params[k].ty) THEN Flat(s.env[1][f.params[k].name]) ELSE << >>])
Ended(f, s) ==
    CASE s.going = "return" -> Show(s, "return", (IF f.ret = Nothing THEN << >> ELSE Flat(s.value)) \o LeftBehind(f, s))
      [] s.going = "on" -> IF f.ret = Nothing THEN Show(s, "return", LeftBehind(f, s)) ELSE Stop(s, "stuck")
      [] s.going = "abort" -> Show(s, "abort", << >>)
      [] s.going \in {"break", "continue"} -> Stop(s, "stuck")
      [] s.going \in {"stuck", "late"} -> s
RunOf(f, arguments, answers, patience) == Ended(f, DoAll(Entered(f, arguments, answers, patience), f.body))
=============================================================================
