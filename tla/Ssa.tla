-------------------------------- MODULE Ssa --------------------------------
(***************************************************************************)
(* Into SSA form and back out of it (src/src/ir/ssa/dom.rs,                *)
(* src/src/ir/ssa/mod.rs, src/src/ir/coalesce.rs).                         *)
(***************************************************************************)
EXTENDS Ir

-----------------------------------------------------------------------------
(* Dominators, as Cooper, Harvey and Kennedy find them.  An entry of idom is *)
(* 0 until it is known.                                                     *)
RECURSIVE Walked(_, _, _)
Walked(f, walk, b) ==
    IF b \in walk.seen THEN walk
    ELSE LET below == FoldLeft(LAMBDA w, s : Walked(f, w, s),
                               [walk EXCEPT !.seen = @ \cup {b}], Successors(f, b))
         IN  [below EXCEPT !.post = Append(@, b)]
ReversePostOrder(f) == Reverse(Walked(f, [seen |-> {}, post |-> << >>], 1).post)

Predecessors(f, b) == {e[1] : e \in ExitsTo(f, b)}

(* The one further from the entry is moved up until they meet. *)
RECURSIVE Intersect(_, _, _, _)
Intersect(idom, rank, x, y) ==
    CASE x = y -> x
      [] rank[x] > rank[y] -> Intersect(idom, rank, idom[x], y)
      [] rank[y] > rank[x] -> Intersect(idom, rank, x, idom[y])

FirstKnown(idom, rank, preds) == CHOOSE p \in preds : TRUE  \* mutant: the others are not looked at
MetAt(idom, rank, preds) ==
    FoldLeft(LAMBDA so_far, p : Intersect(idom, rank, p, so_far),
             CHOOSE p \in preds : TRUE, SetToSeq(preds))

Improved(f, rank, idom, b) ==
    LET preds == {p \in Predecessors(f, b) : idom[p] # 0}
    IN  IF preds = {} THEN idom ELSE [idom EXCEPT ![b] = MetAt(idom, rank, preds)]

RECURSIVE Settled(_, _, _)
Settled(f, order, idom) ==
    LET rank == [b \in Blocks(f) |-> CHOOSE k \in DOMAIN order : order[k] = b]
        next == FoldLeft(LAMBDA d, b : Improved(f, rank, d, b), idom, Tail(order))
    IN  IF next = idom THEN idom ELSE Settled(f, order, next)

(* `Dominators::of`: the immediate dominator of each block. *)
Idom(f) == Settled(f, ReversePostOrder(f), [b \in Blocks(f) |-> IF b = 1 THEN 1 ELSE 0])

Children(idom, b) == {c \in DOMAIN idom \ {1} : idom[c] = b}

RECURSIVE UpTo(_, _, _)
UpTo(idom, b, stop) == IF b = stop THEN {} ELSE {b} \cup UpTo(idom, idom[b], stop)

Frontiers(f, idom) ==
    [x \in Blocks(f) |->
        {b \in Blocks(f) :
            /\ Cardinality(ExitsTo(f, b)) >= 2
            /\ \E p \in Predecessors(f, b) : x \in UpTo(idom, p, idom[b])}]

-----------------------------------------------------------------------------
(* `parameters_wanted`: a placed parameter is a definition as well. *)
WrittenIn(f, r) == {b \in Blocks(f) : r \in Defines(f.blocks[b])}

RECURSIVE Placed(_, _, _, _)
Placed(frontiers, live, r, defs) ==
    LET at == {b \in UNION {frontiers[d] : d \in defs} : r \in live[b]}
    IN  IF at \subseteq defs THEN at ELSE Placed(frontiers, live, r, defs \cup at)

ParametersWanted(f, idom) ==
    LET frontiers == Frontiers(f, idom)
        live == LiveIn(f)
        at == [r \in 1 .. f.count |->
                  IF Cardinality(WrittenIn(f, r)) < 2 THEN {}
                  ELSE Placed(frontiers, live, r, WrittenIn(f, r))]
    IN  [b \in Blocks(f) |-> SetToSortSeq({r \in 1 .. f.count : b \in at[r]}, <)]

-----------------------------------------------------------------------------
(* `rename`.  reaching[r] is the name variable r goes by here, 0 for none;   *)
(* a fresh register is the next number.  A block's subtree is walked with    *)
(* what reached its end, whatever its siblings pushed.                      *)
Named(reaching, v) == IF IsReg(v) /\ reaching[v.n] # 0 THEN Reg(reaching[v.n]) ELSE v

Define(walk, r) == [walk EXCEPT !.count = @ + 1, !.reaching[r] = walk.count + 1]

RenamedParam(walk, r) ==
    LET to == Define(walk, r) IN [to EXCEPT !.params = Append(@, to.count)]

RenamedInstr(walk, i) ==
    LET sub(v) == Named(walk.reaching, v)
        to == IF i.dst = 0 THEN walk ELSE Define(walk, i.dst)
    IN  [to EXCEPT !.instrs = Append(@, [InstrWith(i, sub) EXCEPT !.dst = IF @ = 0 THEN 0 ELSE to.count])]

Handed(reaching, wanted, t) ==
    [t EXCEPT !.args = [k \in DOMAIN wanted[t.block] |->
        IF reaching[wanted[t.block][k]] = 0 THEN Const(0) ELSE Reg(reaching[wanted[t.block][k]])]]

RenamedBlock(f, wanted, reaching, b) ==
    LET block == f.blocks[b]
        begin == [params |-> << >>, instrs |-> << >>, count |-> f.count, reaching |-> reaching]
        end == FoldLeft(RenamedInstr, FoldLeft(RenamedParam, begin, wanted[b]), block.instrs)
        sub(v) == Named(end.reaching, v)
        term == TermWith(block.term, sub)
    IN  [block |-> Block(end.params, end.instrs,
                         [term EXCEPT !.targets = [k \in DOMAIN @ |-> Handed(end.reaching, wanted, @[k])]]),
         count |-> end.count,
         reaching |-> end.reaching]

RECURSIVE Renamed(_, _, _, _, _)
Renamed(f, idom, wanted, reaching, b) ==
    LET here == RenamedBlock(f, wanted, reaching, b)
        so_far == Function([f.blocks EXCEPT ![b] = here.block], here.count)
    IN  FoldLeft(LAMBDA g, c : Renamed(g, idom, wanted, here.reaching, c),
                 so_far, SetToSortSeq(Children(idom, b), >))

(* `construct_function`. *)
Constructed(f) ==
    LET idom == Idom(f)
    IN  Renamed(f, idom, ParametersWanted(f, idom), [r \in 1 .. f.count |-> 0], 1)

-----------------------------------------------------------------------------
(* `split_argument_edges`. *)
SplitExit(f, e) ==
    LET target == TargetAt(f, e)
        split == Len(f.blocks) + 1
    IN  IF Len(Terminator(f, e[1]).targets) < 2 \/ target.args = << >> THEN f
        ELSE [f EXCEPT !.blocks = Append([@ EXCEPT ![e[1]].term.targets[e[2]] = To(split)],
                                         Block(<< >>, << >>, Jump(target)))]

Before(e, g) == e[1] < g[1] \/ (e[1] = g[1] /\ e[2] < g[2])
ArgumentEdgesSplit(f) == FoldLeft(SplitExit, f, SetToSortSeq(Exits(f), Before))

(* `sequence`: a source that is also a destination is saved first. *)
Sequenced(count, dsts, srcs) ==
    LET overwritten == SelectSeq([k \in DOMAIN dsts |-> k], LAMBDA k :
                            IsReg(srcs[k]) /\ srcs[k].n # dsts[k] /\ srcs[k].n \in ToSet(dsts))
        saved(k) == count + CHOOSE n \in DOMAIN overwritten : overwritten[n] = k
        source(k) == IF k \in ToSet(overwritten) THEN Reg(saved(k)) ELSE srcs[k]
        changing == SelectSeq([k \in DOMAIN dsts |-> k], LAMBDA k : source(k) # Reg(dsts[k]))
    IN  [count |-> count + Len(overwritten),
         instrs |-> [n \in DOMAIN overwritten |->
                        Instr("copy", saved(overwritten[n]), <<srcs[overwritten[n]]>>, 0)] \o
                    [n \in DOMAIN changing |->
                        Instr("copy", dsts[changing[n]], <<source(changing[n])>>, 0)]]

(* The copies of the one edge with arguments that leaves b, if there is one. *)
WithCopies(f, b) ==
    LET passing == SelectSeq(Terminator(f, b).targets, LAMBDA t : t.args # << >>)
        copies == Sequenced(f.count, f.blocks[passing[1].block].params, passing[1].args)
    IN  IF passing = << >> THEN f
        ELSE [f EXCEPT !.blocks[b].instrs = @ \o copies.instrs, !.count = copies.count]

Parameterless(f) ==
    [f EXCEPT !.blocks = [b \in DOMAIN @ |->
        [@[b] EXCEPT !.params = << >>, !.term.targets = [k \in DOMAIN @ |-> [@[k] EXCEPT !.args = << >>]]]]]

CopiesOut(f) ==
    LET split == ArgumentEdgesSplit(f)
    IN  Parameterless(FoldLeft(WithCopies, split, [b \in Blocks(split) |-> b]))

-----------------------------------------------------------------------------
(* `interference`: what is live where a register is written. *)
LiveAfter(f, out, b, k) ==
    LET block == f.blocks[b]
        ReadFirst(r) ==
            \E j \in k + 1 .. Len(block.instrs) :
                /\ r \in RegsIn(block.instrs[j].args)
                /\ \A m \in k + 1 .. j - 1 : block.instrs[m].dst # r
        Through(r) == r \in out[b] \cup TermReads(block.term)
                      /\ \A m \in k + 1 .. Len(block.instrs) : block.instrs[m].dst # r
    IN  {r \in 1 .. f.count : ReadFirst(r) \/ Through(r)}

Interference(f) ==
    LET in == LiveIn(f)
        out == [b \in Blocks(f) |-> UNION {in[s] : s \in ToSet(Successors(f, b))}]
        pairs(b, k) == {{f.blocks[b].instrs[k].dst, r} : r \in LiveAfter(f, out, b, k)}
    IN  UNION {UNION {pairs(b, k) : k \in {j \in DOMAIN f.blocks[b].instrs : f.blocks[b].instrs[j].dst # 0}} :
                 b \in Blocks(f)}

(* `copies` of coalesce.rs.  merged[r] is the register r has become; two of   *)
(* them may be one unless something that became the first interferes with    *)
(* something that became the second.                                        *)
MergedAnyway(interference, merged, i) ==    \* mutant: what was taken over is forgotten
    LET x == merged[i.dst]
        y == merged[i.args[1].n]
    IN  IF {i.dst, i.args[1].n} \in interference THEN merged
        ELSE [r \in DOMAIN merged |-> IF merged[r] = y THEN x ELSE merged[r]]
Merged(interference, merged, i) ==
    LET x == merged[i.dst]
        y == merged[i.args[1].n]
    IN  IF \E p \in interference : {merged[r] : r \in p} = {x, y} THEN merged
        ELSE [r \in DOMAIN merged |-> IF merged[r] = y THEN x ELSE merged[r]]

Coalesced(f) ==
    LET interference == Interference(f)
        copies == SelectSeq(FlattenSeq([b \in Blocks(f) |-> f.blocks[b].instrs]),
                            LAMBDA i : i.op = "copy" /\ IsReg(i.args[1]))
        merged == FoldLeft(LAMBDA m, i : Merged(interference, m, i), [r \in 1 .. f.count |-> r], copies)
        sub(v) == IF IsReg(v) THEN Reg(merged[v.n]) ELSE v
        one(i) == [InstrWith(i, sub) EXCEPT !.dst = IF @ = 0 THEN 0 ELSE merged[@]]
        joined(block) ==
            [block EXCEPT !.instrs = SelectSeq([k \in DOMAIN @ |-> one(@[k])],
                                               LAMBDA i : i.op # "copy" \/ i.args # <<Reg(i.dst)>>),
                          !.term = TermWith(@, sub)]
    IN  [f EXCEPT !.blocks = [b \in DOMAIN @ |-> joined(@[b])]]

(* `destruct_function`. *)
Destructed(f) == Coalesced(CopiesOut(f))

-----------------------------------------------------------------------------
(* What these mean. *)
Dominates(f, d, b) == b \in Reachable(f) /\ (d = b \/ b \notin Reach(f, {1} \ {d}, d))

Definitions(f, r) ==
    {<<b, 0>> : b \in {c \in Blocks(f) : r \in ToSet(f.blocks[c].params)}} \cup
    UNION {{<<b, k>> : k \in {j \in DOMAIN f.blocks[b].instrs : f.blocks[b].instrs[j].dst = r}} : b \in Blocks(f)}
ReadAt(f, r) ==
    UNION {{<<b, k>> : k \in {j \in DOMAIN f.blocks[b].instrs : r \in RegsIn(f.blocks[b].instrs[j].args)}} :
             b \in Blocks(f)} \cup
    {<<b, Len(f.blocks[b].instrs) + 1>> : b \in {c \in Blocks(f) : r \in TermReads(Terminator(f, c))}}

IsSsa(f) ==
    /\ \A b \in Blocks(f) : IsInjective(f.blocks[b].params)
    /\ \A r \in 1 .. f.count :
          /\ Cardinality(Definitions(f, r)) <= 1
          /\ \A u \in ReadAt(f, r) : \E d \in Definitions(f, r) :
                IF d[1] = u[1] THEN d[2] < u[2] ELSE Dominates(f, d[1], u[1])
    /\ \A e \in Exits(f) :
          Len(TargetAt(f, e).args) = Len(f.blocks[TargetAt(f, e).block].params)
=============================================================================
