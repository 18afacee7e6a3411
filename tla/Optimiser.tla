----------------------------- MODULE Optimiser -----------------------------
(***************************************************************************)
(* The four passes over a function in SSA form (src/src/opt/sccp.rs,       *)
(* copies.rs, gvn.rs, dce.rs).  A pass answers that it changed something   *)
(* exactly when the function it leaves is another one.                     *)
(***************************************************************************)
EXTENDS Ssa

-----------------------------------------------------------------------------
(* sccp: what is known of a register, from the top of the lattice down. *)
Unreached == [kind |-> "unreached", n |-> 0]
Unknown == [kind |-> "unknown", n |-> 0]
IsConst(k) == k.kind = "const"

Meet(j, k) ==
    CASE j = Unreached -> k
      [] k = Unreached -> j
      [] j = k -> j
      [] OTHER -> Unknown

Known(facts, v) == IF IsReg(v) THEN facts.value[v.n] ELSE v

(* `fold_bin`, `fold_cmp`: what would stop the program has no answer. *)
Folded(i, x, y) ==
    CASE i.op = "cmp" -> Const(IF x = y THEN 1 ELSE 0)
      [] i.op = "add" -> IF x + y <= MaxInt THEN Const(x + y) ELSE Unknown

Evaluated(facts, i) ==
    CASE i.op = "const" -> Const(i.n)
      [] i.op = "copy" -> Known(facts, i.args[1])
      [] i.op \in {"add", "cmp"} ->
            LET l == Known(facts, i.args[1])
                r == Known(facts, i.args[2])
            IN  IF IsConst(l) /\ IsConst(r) THEN Folded(i, l.n, r.n) ELSE Unknown
      [] OTHER -> Unknown

(* An argument is read by the block it is handed to as well. *)
Readers(f, r) ==
    {b \in Blocks(f) : r \in UNION {RegsIn(i.args) : i \in ToSet(f.blocks[b].instrs)}
                             \cup TermReads(Terminator(f, b))}
    \cup {TargetAt(f, e).block : e \in {x \in Exits(f) : r \in RegsIn(TargetAt(f, x).args)}}

Settle(f, facts, r, k) ==
    LET merged == Meet(facts.value[r], k)
    IN  IF merged = facts.value[r] THEN facts
        ELSE [facts EXCEPT !.value[r] = merged, !.work = @ \cup (Readers(f, r) \cap facts.reached)]

TakenEdges(f, facts, b) == ExitsTo(f, b) \cap facts.taken

SettledParam(f, facts, b, k) ==
    LET arriving == FoldLeft(LAMBDA a, e : Meet(a, Known(facts, TargetAt(f, e).args[k])),
                             Unreached, SetToSeq(TakenEdges(f, facts, b)))
    IN  Settle(f, facts, f.blocks[b].params[k], arriving)
SettledInstr(f, facts, i) == IF i.dst = 0 THEN facts ELSE Settle(f, facts, i.dst, Evaluated(facts, i))

TakenExits(facts, t) ==
    CASE t.kind = "jump" -> {1}
      [] t.kind = "return" -> {}
      [] t.kind = "branch" ->
            LET k == Known(facts, t.on[1])
            IN  CASE k = Unreached -> {}
                  [] k = Unknown -> {1, 2}
                  [] k = Const(0) -> {2}
                  [] OTHER -> {1}

(* The order of the work list makes no difference to what is found. *)
Visited(f, facts, b) ==
    LET begin == [facts EXCEPT !.work = @ \ {b}]
        params == FoldLeft(LAMBDA g, k : SettledParam(f, g, b, k), begin, [k \in DOMAIN f.blocks[b].params |-> k])
        instrs == FoldLeft(LAMBDA g, i : SettledInstr(f, g, i), params, f.blocks[b].instrs)
        opened == ({b} \X TakenExits(instrs, Terminator(f, b))) \ instrs.taken
        into == {TargetAt(f, e).block : e \in opened}
    IN  [instrs EXCEPT !.taken = @ \cup opened, !.reached = @ \cup into, !.work = @ \cup into]

RECURSIVE Analysed(_, _)
Analysed(f, facts) ==
    IF facts.work = {} THEN facts
    ELSE Analysed(f, Visited(f, facts, CHOOSE b \in facts.work : TRUE))
Facts(f) ==
    Analysed(f, [value |-> [r \in 1 .. f.count |-> Unreached], taken |-> {}, reached |-> {1}, work |-> {1}])

(* `rewrite`.  An index worked out here that is out of range stays the       *)
(* register it was, and keeps its check.                                    *)
MayBeConst(index, len) == IsReg(len) \/ index.n \in 0 .. len.n - 1

Spelled(facts, v) == IF IsConst(Known(facts, v)) THEN Known(facts, v) ELSE v
SpelledInstr(facts, i) ==
    LET sub(v) == Spelled(facts, v)
        index == sub(i.args[1])
        len == sub(i.args[2])
    IN  IF i.op = "elem" /\ IsReg(i.args[1])
        THEN [i EXCEPT !.args = <<IF IsConst(index) /\ MayBeConst(index, len) THEN index ELSE @[1], len>>]
        ELSE InstrWith(i, sub)
Rewritten(facts, i) ==
    IF i.op # "const" /\ i.dst # 0 /\ IsConst(facts.value[i.dst])
    THEN Instr("const", i.dst, << >>, facts.value[i.dst].n)
    ELSE SpelledInstr(facts, i)
RewrittenTerm(facts, t) ==
    LET sub(v) == Spelled(facts, v)
        to == TermWith(t, sub)
    IN  IF t.kind = "branch" /\ ~IsReg(to.on[1]) THEN Jump(to.targets[IF to.on[1].n = 0 THEN 2 ELSE 1]) ELSE to

SccpPropagated(f) ==
    LET facts == Facts(f)
        rewritten(block) ==
            [block EXCEPT !.instrs = [k \in DOMAIN @ |-> Rewritten(facts, @[k])],
                          !.term = RewrittenTerm(facts, @)]
    IN  Prune([f EXCEPT !.blocks =
                [b \in DOMAIN @ |-> IF b \in facts.reached THEN rewritten(@[b]) ELSE @[b]]])

-----------------------------------------------------------------------------
(* copies: `substitute` follows chains.  by[r] is what r is replaced by. *)
RECURSIVE Resolved(_, _)
Resolved(by, v) == IF IsReg(v) /\ by[v.n] # v THEN Resolved(by, by[v.n]) ELSE v
Substituted(f, by) == LET sub(v) == Resolved(by, v) IN FunctionWith(f, sub)

CopyInstrs(f) == {i \in UNION {ToSet(f.blocks[b].instrs) : b \in Blocks(f)} : i.op = "copy"}
WithoutCopies(f) ==
    LET copies == CopyInstrs(f)
        copyTo(r) == {i \in copies : i.dst = r}
    IN  Substituted(f, [r \in 1 .. f.count |->
            IF copyTo(r) = {} THEN Reg(r) ELSE (CHOOSE i \in copyTo(r) : TRUE).args[1]])

(* `settled_parameters`: what every edge hands it, itself apart. *)
Arriving(f, b, k) == {TargetAt(f, e).args[k] : e \in ExitsTo(f, b)} \ {Reg(f.blocks[b].params[k])}
SomeEdge(f, b, k) == Arriving(f, b, k) # {} \* mutant: the first edge decides
Agreed(f, b, k) == Cardinality(Arriving(f, b, k)) = 1

ParametersSettled(f) ==
    LET gone == [b \in Blocks(f) |-> {k \in DOMAIN f.blocks[b].params : Agreed(f, b, k)}]
        settled(r) == {<<b, k>> \in UNION {{c} \X gone[c] : c \in Blocks(f)} : f.blocks[b].params[k] = r}
        by == [r \in 1 .. f.count |->
                  IF settled(r) = {} THEN Reg(r)
                  ELSE LET at == CHOOSE s \in settled(r) : TRUE
                       IN  CHOOSE v \in Arriving(f, at[1], at[2]) : TRUE]
    IN  Substituted(WithoutParams(f, gone), by)

CopiesPropagated(f) == ParametersSettled(WithoutCopies(f))

-----------------------------------------------------------------------------
(* gvn: what is the same computation.  Sums are the same either way round. *)
HasKey(i) == i.op \in {"const", "add", "cmp", "elem"}
Key(i) ==
    [op |-> i.op, n |-> i.n,
     sum |-> IF i.op = "add" THEN ToSet(i.args) ELSE {},
     args |-> IF i.op = "add" THEN << >> ELSE i.args]

(* `seen` maps what dominating instructions compute to where it is. *)
Numbered(walk, i) ==
    CASE ~HasKey(i) -> walk
      [] HasKey(i) /\ Key(i) \in DOMAIN walk.seen ->
            [walk EXCEPT !.again = @ \cup {<<i.dst, walk.seen[Key(i)]>>}]
      [] OTHER -> [walk EXCEPT !.seen = (Key(i) :> i.dst) @@ @]

RECURSIVE Repeated(_, _, _, _)
Repeated(f, idom, seen, b) ==
    LET end == FoldLeft(Numbered, [seen |-> seen, again |-> {}], f.blocks[b].instrs)
    IN  end.again \cup UNION {Repeated(f, idom, end.seen, c) : c \in Children(idom, b)}

GvnEliminated(f) ==
    LET again == Repeated(f, Idom(f), << >>, 1)
        earlier(r) == {p \in again : p[1] = r}
        by == [r \in 1 .. f.count |->
                  IF earlier(r) = {} THEN Reg(r) ELSE Reg((CHOOSE p \in earlier(r) : TRUE)[2])]
        to == Substituted(f, by)
    IN  [to EXCEPT !.blocks = [b \in DOMAIN @ |->
            [@[b] EXCEPT !.instrs = SelectSeq(@, LAMBDA i : earlier(i.dst) = {})]]]

-----------------------------------------------------------------------------
(* dce: what has to stay however little is read of it. *)
MattersMore(i) == i.dst = 0 \/ CanFail(i) \/ i.op \in {"call", "param", "copy"} \* mutant: nobody sweeps a copy
Matters(i) == i.dst = 0 \/ CanFail(i) \/ i.op \in {"call", "param"}

FedBy(f, r) ==
    UNION {RegsIn(i.args) : i \in {j \in UNION {ToSet(f.blocks[b].instrs) : b \in Blocks(f)} : j.dst = r}}
    \cup UNION {RegsIn(<<TargetAt(f, e).args[k]>>) :
                  <<e, k>> \in {p \in Exits(f) \X (1 .. f.count) :
                      LET params == f.blocks[TargetAt(f, p[1]).block].params
                      IN  p[2] \in DOMAIN params /\ params[p[2]] = r}}

RECURSIVE Marked(_, _)
Marked(f, live) ==
    LET more == live \cup UNION {FedBy(f, r) : r \in live}
    IN  IF more = live THEN live ELSE Marked(f, more)

DceEliminated(f) ==
    LET wanted(block) == UNION {RegsIn(i.args) : i \in {j \in ToSet(block.instrs) : Matters(j)}} \cup RegsIn(block.term.on)
        live == Marked(f, UNION {wanted(f.blocks[b]) : b \in Blocks(f)})
        swept == [f EXCEPT !.blocks = [b \in DOMAIN @ |->
                    [@[b] EXCEPT !.instrs = SelectSeq(@, LAMBDA i : Matters(i) \/ i.dst \in live)]]]
    IN  WithoutParams(swept, [b \in Blocks(f) |->
            {k \in DOMAIN f.blocks[b].params : f.blocks[b].params[k] \notin live}])
=============================================================================
