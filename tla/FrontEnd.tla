------------------------------- MODULE FrontEnd -------------------------------
(***************************************************************************)
(* A program on its way through the front end: somebody slips in writing   *)
(* it, or not; it is read, and one function of the kind the checks are     *)
(* modelled for is checked, refused or lowered (src/src/lib.rs calls       *)
(* parser, sema, then ir::lower), and what it was lowered to is run, from  *)
(* one thing that is seen of it to the next.  What was written means       *)
(* (module Meaning) is worked out beside it.                               *)
(*                                                                         *)
(* The code runs on registers and a memory of words, of which only what    *)
(* was written can be read, and only what belongs to the function can be   *)
(* written: its frame, the room it was given, and what it allocated.       *)
(***************************************************************************)
EXTENDS Lowering, Meaning

CONSTANTS
    Programs,       \* the functions
    Listings,       \* whole programs, that are only read
    Slips,          \* the tokens that get into them
    MaxNesting, Literals,
    ArgumentLists,  \* what they can be called with
    AnswerLists,    \* what the calls they make can be answered with
    Patience        \* how often its loops go round before a run is given up

ASSUME FrontEndAssumption == Patience \in Nat \ {0} /\ MaxNesting \in Nat \ {0}

Source == INSTANCE Writing

VARIABLES
    written,    \* the program
    text,       \* its tokens, and how somebody slipped
    tree,       \* what the parser answers
    call,       \* [arguments, answers] of the run that is looked at, chosen when it is checked
    phase,      \* "written", then "unreadable" or "parsed", then "refused" or "accepted", then "lowered"
    mistakes,   \* what the checks report
    meant,      \* where the run gets to
    code,       \* what `Lowered` answers
    m           \* the machine

vars == <<written, text, tree, call, phase, mistakes, meant, code, m>>

-----------------------------------------------------------------------------
(* Where memory is. *)
OutAt == 50
ParamAt(k) == 50 + 10 * k
DataAt == 150
HeapAt == 200

Words(at, ns) == [a \in at .. at + Len(ns) - 1 |-> ns[a - at + 1]]
WordOf(ty, k, v) ==
    IF IsArray(ty) \/ v.parts # << >> THEN ParamAt(k) ELSE IF IsBoxed(ty) THEN DataAt + v.n ELSE v.n
Contents(mem, ty, w) ==
    IF IsArray(ty) THEN [k \in 1 .. ty.len |-> mem[w + k - 1]]
    ELSE IF ~IsBoxed(ty) THEN <<w>>
    ELSE <<mem[w]>> \o [k \in 1 .. Len(Variants(ty)[mem[w] + 1].payload) |-> mem[w + PayloadOffset(k)]]

Resting == [going |-> "resting", at |-> 1, pc |-> 1, regs |-> << >>, mem |-> << >>,
            passed |-> << >>, answers |-> << >>, heap |-> HeapAt, shown |-> << >>]
Started(fn, arguments, answers) ==
    LET words == [k \in DOMAIN arguments |-> WordOf(fn.params[k].ty, k, arguments[k])]
        data == [a \in DataAt .. DataAt + 5 |-> a - DataAt]
        Room(k) == IF words[k] = ParamAt(k) THEN Words(ParamAt(k), Flat(arguments[k])) ELSE << >>
    IN  [Resting EXCEPT !.going = "on", !.answers = answers,
                        !.mem = FoldLeft(LAMBDA mem, k : mem @@ Room(k), data, [k \in DOMAIN arguments |-> k]),
                        !.passed = IF IsArray(fn.ret) THEN <<OutAt>> \o words ELSE words]

Owned(fn, frame, s) ==
    0 .. frame - 1 \cup HeapAt .. s.heap - 1 \cup
    (IF IsArray(fn.ret) THEN OutAt .. OutAt + fn.ret.len - 1 ELSE {}) \cup
    UNION {ParamAt(k) .. ParamAt(k) + fn.params[k].ty.len - 1 : k \in DOMAIN fn.params}

-----------------------------------------------------------------------------
(* One instruction, of which `vals` are the operands.  An index is looked at  *)
(* unless both it and the length are constants.                             *)
Readable(s, vs) == \A k \in DOMAIN vs : IsReg(vs[k]) => vs[k].n \in DOMAIN s.regs
IsArithmetic(op) == op \in {"add", "sub", "mul", "div", "rem"}
Aborts(i, vals) ==
    \/ IsArithmetic(i.op) /\ Apply(i.op, vals[1], vals[2]) = << >>
    \/ i.op = "elem" /\ RegsIn(Tail(i.args)) # {} /\ vals[2] \notin 0 .. vals[3] - 1
Strays(fn, frame, s, i, vals) ==
    \/ i.op = "load" /\ vals[1] \notin DOMAIN s.mem
    \/ i.op = "store" /\ vals[1] \notin Owned(fn, frame, s)
    \/ i.op = "copywords" /\ \E k \in 0 .. i.n - 1 : \/ vals[1] + k \notin Owned(fn, frame, s)
                                                      \/ vals[2] + k \notin DOMAIN s.mem
    \/ i.op = "call" /\ Len(vals) # Len(Signatures[i.n].params) + Truth(IsArray(Signatures[i.n].ret))
Result(s, i, vals) ==
    CASE IsArithmetic(i.op) -> Apply(i.op, vals[1], vals[2])[1]
      [] i.op \in {"eq", "ne", "lt", "le", "gt", "ge"} -> Compare(i.op, vals[1], vals[2])
      [] i.op \in {"const", "frame"} -> i.n
      [] i.op = "copy" -> vals[1]
      [] i.op = "load" -> s.mem[vals[1]]
      [] i.op = "param" -> s.passed[i.n + 1]
      [] i.op = "elem" -> vals[1] + vals[2]
      [] i.op = "field" -> vals[1] + i.n
      [] i.op = "alloc" -> s.heap
      [] i.op = "variant" -> DataAt + i.n
Written(s, i, vals) ==
    CASE i.op = "store" -> [s EXCEPT !.mem = (vals[1] :> vals[2]) @@ @]
      [] i.op = "copywords" -> [s EXCEPT !.mem = [a \in vals[1] .. vals[1] + i.n - 1 |-> @[a - vals[1] + vals[2]]] @@ @]
      [] i.op = "alloc" -> [s EXCEPT !.heap = @ + i.n]
      [] OTHER -> s
Performed(s, i, vals) ==
    LET done == Written(s, i, vals)
    IN  [done EXCEPT !.pc = @ + 1, !.regs = IF i.dst = 0 THEN @ ELSE (i.dst :> Result(s, i, vals)) @@ @]

(* What is called reads its arguments, and leaves an array in its room. *)
CallSeen(s, i, vals) ==
    LET signature == Signatures[i.n]
        given == IF IsArray(signature.ret) THEN Tail(vals) ELSE vals
        answer == Flat(AnswerOf(signature.ret, Head(s.answers)))
        flat == FlattenSeq([k \in DOMAIN given |-> Contents(s.mem, signature.params[k], given[k])])
    IN  [s EXCEPT !.pc = @ + 1, !.answers = Tail(@), !.shown = Append(@, Event(i.n, flat)),
                  !.mem = IF IsArray(signature.ret) THEN Words(vals[1], answer) @@ @ ELSE @,
                  !.regs = IF i.dst = 0 THEN @ ELSE (i.dst :> answer[1]) @@ @]

ReturnSeen(fn, s, vals) ==
    LET out == IF fn.ret = Nothing THEN << >>
               ELSE Contents(s.mem, fn.ret, IF IsArray(fn.ret) THEN OutAt ELSE vals[1])
        left == [k \in DOMAIN fn.params |->
                    IF IsArray(fn.params[k].ty) THEN Contents(s.mem, fn.params[k].ty, ParamAt(k)) ELSE << >>]
    IN  [s EXCEPT !.going = "over", !.shown = Append(@, Event("return", out \o FlattenSeq(left)))]

(* To the next thing that is seen, in so many steps. *)
RECURSIVE Until(_, _, _, _)
Until(fn, lowered, s, steps) ==
    LET block == lowered.code.blocks[s.at]
        i == block.instrs[s.pc]
        t == block.term
        read == IF s.pc <= Len(block.instrs) THEN i.args ELSE t.on
        vals == Means(s, read)
    IN  IF steps = 0 THEN [s EXCEPT !.going = "late"]
        ELSE IF ~Readable(s, read) THEN [s EXCEPT !.going = "astray"]
        ELSE IF s.pc <= Len(block.instrs)
        THEN IF Strays(fn, lowered.frame, s, i, vals) THEN [s EXCEPT !.going = "astray"]
             ELSE IF Aborts(i, vals) THEN [s EXCEPT !.going = "over", !.shown = Append(@, Event("abort", << >>))]
             ELSE IF i.op = "call" THEN CallSeen(s, i, vals)
             ELSE IF i.op = "print" THEN [s EXCEPT !.pc = @ + 1, !.shown = Append(@, Event("print", vals))]
             ELSE Until(fn, lowered, Performed(s, i, vals), steps - 1)
        ELSE IF t.kind = "return"
        THEN IF fn.ret # Nothing /\ ~IsArray(fn.ret) /\ vals = << >> THEN [s EXCEPT !.going = "astray"]
             ELSE ReturnSeen(fn, s, vals)
        ELSE Until(fn, lowered, Arrived(lowered.code, s, Taken(s, t)), steps - 1)

-----------------------------------------------------------------------------
IsOneFunction == Len(written.functions) = 1
f == tree.functions[1]

Init ==
    /\ \/ \E fn \in Programs : written = [enums |-> << >>, classes |-> << >>, functions |-> <<fn>>]
       \/ \E k \in DOMAIN Listings : written = Listings[k]
    /\ text = Source!Untouched(Source!Text(written))
    /\ tree = << >>
    /\ call = << >>
    /\ phase = "written"
    /\ mistakes = {}
    /\ meant = << >>
    /\ code = << >>
    /\ m = Resting

(* One token is not what it was, or one or two statements are not ended.     *)
Slip ==
    /\ phase = "written" /\ text.slip = "none" /\ ~IsOneFunction
    /\ \E k \in 1 .. Len(text.tokens) - 1 :
          \/ text' = Source!LeftOut(text.tokens, k)
          \/ \E token \in Slips : \/ text' = Source!PutIn(text.tokens, k, token)
                                 \/ text' = Source!Another(text.tokens, k, token)
          \/ \E j \in 1 .. k : /\ \A i \in {j, k} : Source!EndsStatement(text.tokens, i)
                              /\ text' = Source!NotEnded(text.tokens, {j, k})
    /\ UNCHANGED <<written, tree, call, phase, mistakes, meant, code, m>>

Parse ==
    /\ phase = "written"
    /\ tree' = Source!Parsed(text.tokens)
    /\ phase' = IF tree'.errors = << >> THEN "parsed" ELSE "unreadable"
    /\ UNCHANGED <<written, text, call, mistakes, meant, code, m>>

Check ==
    /\ phase = "parsed" /\ IsOneFunction
    /\ mistakes' = Mistakes(f)
    /\ phase' = IF mistakes' = {} THEN "accepted" ELSE "refused"
    /\ call' \in [arguments : ArgumentLists, answers : AnswerLists]
    /\ meant' = RunOf(written.functions[1], call'.arguments, call'.answers, Patience)
    /\ UNCHANGED <<written, text, tree, code, m>>

Lower ==
    /\ phase = "accepted"
    /\ phase' = "lowered"
    /\ code' = Lowered(f)
    /\ m' = Started(f, call.arguments, call.answers)
    /\ UNCHANGED <<written, text, tree, call, mistakes, meant>>

(* A run whose meaning was given up is looked at for as long as that. *)
Run ==
    /\ phase = "lowered" /\ m.going = "on"
    /\ meant.going = "late" => Len(m.shown) < Len(meant.shown)
    /\ m' = Until(f, code, m, MaxSteps)
    /\ UNCHANGED <<written, text, tree, call, phase, mistakes, meant, code>>

Next == Slip \/ Parse \/ Check \/ Lower \/ Run
Spec == Init /\ [][Next]_vars

-----------------------------------------------------------------------------
IsRead == phase # "written"

(* A program is read as it was written, and nothing that is accepted loses a  *)
(* word of its text or gains one, whatever happened to it.                  *)
ReadsAsWritten ==
    IsRead =>
        /\ text.slip = "none" => tree.errors = << >> /\ Source!ProgramOf(tree) = written
        /\ tree.errors = << >> => Source!Essence(Source!Text(Source!ProgramOf(tree))) = Source!Essence(text.tokens)

(* However a token is wrong, reading comes to the end of the text with every  *)
(* level of nesting given back, and there is no mistake in what stands      *)
(* before the statement or the declaration the token is in.                 *)
CarriesOn ==
    IsRead =>
        /\ ~tree.stuck /\ tree.pos = Len(text.tokens)
        /\ tree.depth = 0
        /\ \A k \in DOMAIN tree.errors : tree.errors[k].at >= Source!Begins(text.tokens, text.at[1])

(* A statement that is not ended is one mistake, at the token after it, and   *)
(* hides none.                                                              *)
ForgottenEndsAreReported ==
    IsRead /\ text.slip = "ends" => [k \in DOMAIN tree.errors |-> tree.errors[k].at] = text.at

(* What was accepted runs as it was written: the same calls with the same     *)
(* arguments, the same prints, in the same order, and the same end.         *)
RunsAsWritten ==
    phase = "lowered" =>
        /\ IsPrefix(m.shown, meant.shown)
        /\ m.going = "over" => m.shown = meant.shown
        /\ m.going = "late" => meant.going = "late"

(* What was accepted never arrives where the language says nothing, and the   *)
(* code for it, in which every block has an end, reads nothing that was not *)
(* written and writes nothing that is not its own.                          *)
AcceptedNeverAstray ==
    /\ phase \in {"accepted", "lowered"} => meant.going # "stuck"
    /\ phase = "lowered" => code.decided /\ m.going # "astray"

(* An arm that a program is refused for, as one that can never run, is in no  *)
(* run of it.                                                               *)
DeadArmsNeverRun ==
    mistakes \subseteq {"can never run"} /\ phase \in {"refused", "accepted", "lowered"} =>
        \A r \in meant.ran : ~CanNeverRun(r.ty, r.arms, r.arm)
=============================================================================
