------------------------------- MODULE Lists -------------------------------
(***************************************************************************)
(* Lists as a compiled program keeps them: what assignments, literals,     *)
(* pushes, calls and copies of objects become (src/src/ir/lower/place.rs,  *)
(* expr.rs, stmt.rs), run with the list routines of the runtime            *)
(* (src/src/codegen/x64/runtime.rs) on the arena of module Arena.          *)
(*                                                                         *)
(* A list is the address p of its first element; its length is at p - 8    *)
(* and its capacity at p - 16.  Memory is in cells of eight bytes, which   *)
(* is what an element takes.                                               *)
(*                                                                         *)
(* A program has the variables                                             *)
(*   x, y     int[]                                                        *)
(*   b, c     Bag, a class whose one field `items` is an int[]             *)
(*   bags,    Bag[]                                                        *)
(*   more                                                                  *)
(*   p        int[], the parameter of a function that is lent x or b.items *)
(* and Bag variables stand for their `items`: the rest of an object is     *)
(* copied with it and shares nothing.  A list v given to b is Bag b =      *)
(* Bag(v) where b is declared and b.items = v after it, and both keep v    *)
(* once; b = Bag(v) after it, which copies what it has just built, is no   *)
(* statement here.                                                         *)
(*                                                                         *)
(* Values:      lit es      [e, ...], an e being a number, x[0] or a Bag   *)
(*              var x       a variable, or for a Bag one made of a list    *)
(*              first       bags[0]                                        *)
(*              same x      same(x), where fn same(int[] p) { return p; }  *)
(* Statements:  assign x v, push x e, pushfirst (push(bags, bags[0])),     *)
(*              set x n (x[0] = n), inner n (push(bags[0].items, n)),      *)
(*              lend x (a call), leave (its end)                           *)
(***************************************************************************)
EXTENDS Arena, Sequences, SequencesExt

CONSTANTS
    LIST_MIN_CAPACITY,
    Programs    \* [decls |-> statements run first, in order, stmts |-> those then run
                \* in any order, lent |-> those of the function p belongs to, turns]

VARIABLES
    program,    \* the program that runs
    pending,    \* its declarations still to be run
    executed,   \* how many other statements have been
    code,       \* what is left of the statement being executed
    regs,       \* register -> address or number
    mem,        \* address of a cell -> what is in it
    lent,       \* what p was lent, or "nothing"
    want        \* what each variable means

progVars == <<program, pending, executed, code, regs, mem, lent, want>>
allVars == <<arenaVars, progVars>>

(* As @@ and :> of TLC, whose definitions the provers do not have.          *)
Over(f, g) == [x \in DOMAIN f \cup DOMAIN g |-> IF x \in DOMAIN f THEN f[x] ELSE g[x]]
Only(x, v) == [y \in {x} |-> v]

WORD == 8
LIST_HEADER == 16
ListBytes(capacity) == LIST_HEADER + WORD * capacity
Greater(m, n) == IF m > n THEN m ELSE n

-----------------------------------------------------------------------------
Stmt(kind, name, value) == [kind |-> kind, name |-> name, value |-> value]
Value(kind, name, parts) == [kind |-> kind, name |-> name, parts |-> parts]
Item(kind, name, n) == [kind |-> kind, name |-> name, n |-> n]

Num(n) == Item("num", "", n)
HeadOf(x) == Item("head", x, 0)
BagOf(x) == Item("bag", x, 0)
ListLit(items) == Value("lit", "", items)
ListVar(x) == Value("var", x, << >>)
FirstBag == Value("first", "bags", << >>)
Same(x) == Value("same", x, << >>)

Assign(x, v) == Stmt("assign", x, v)
Push(x, e) == Stmt("push", x, e)
PushFirst == Stmt("pushfirst", "bags", Num(0))
SetHead(x, n) == Stmt("set", x, Num(n))
PushInner(n) == Stmt("inner", "bags", Num(n))
Lend(x) == Stmt("lend", x, Num(0))
Leave == Stmt("leave", "p", Num(0))

(* What `sema` lets through: int[]s and Bags in one kind of variable, lists  *)
(* of Bags in the other.                                                    *)
Numbered == {"x", "y", "b", "c"}
HoldsLists(x) == x \in {"bags", "more"}
Readable == Numbered \cup {"p"}

TypedNumber(e) == (e = Num(e.n) /\ e.n \in Int) \/ (e = HeadOf(e.name) /\ e.name \in Readable)
TypedBag(e) == e = BagOf(e.name) /\ e.name \in Numbered
TypedItem(x, e) == IF HoldsLists(x) THEN TypedBag(e) ELSE x \in Numbered /\ TypedNumber(e)
TypedValue(x, v) ==
    \/ /\ v = ListLit(v.parts)
       /\ v.parts \in Seq(ToSet(v.parts))
       /\ \A k \in DOMAIN v.parts : TypedItem(x, v.parts[k])
    \/ v = ListVar(v.name) /\ IF HoldsLists(x) THEN HoldsLists(v.name) ELSE v.name \in Readable
    \/ v = Same(v.name) /\ x \in Numbered /\ v.name \in Readable
    \/ v = FirstBag /\ x \in Numbered
TypedStmt(st) ==
    \/ st = Assign(st.name, st.value) /\ (st.name \in Numbered \/ HoldsLists(st.name)) /\ TypedValue(st.name, st.value)
    \/ st = Push(st.name, st.value) /\ TypedItem(st.name, st.value)
    \/ st = PushFirst
    \/ st = SetHead(st.name, st.value.n) /\ st.name \in Readable /\ st.value.n \in Int
    \/ st = PushInner(st.value.n) /\ st.value.n \in Int
    \/ st = Lend(st.name) /\ st.name \in Numbered
    \/ st = Leave

ASSUME ListsAssumption ==
    /\ LIST_MIN_CAPACITY \in Nat \ {0}
    /\ \A pr \in Programs :
          /\ pr.decls \in Seq(ToSet(pr.decls))
          /\ \A st \in ToSet(pr.decls) \cup pr.stmts \cup pr.lent : TypedStmt(st)

-----------------------------------------------------------------------------
(* The source language: a variable is a sequence, and nothing is shared,    *)
(* but p is another name for what it was lent.                              *)
Named(x) == IF x = "p" THEN lent ELSE x

ItemMeans(e) ==
    CASE e.kind = "num" -> e.n
      [] e.kind = "head" -> Head(want[Named(e.name)])
      [] e.kind = "bag" -> want[e.name]
ValueMeans(v) ==
    CASE v.kind = "lit" -> [k \in DOMAIN v.parts |-> ItemMeans(v.parts[k])]
      [] v.kind = "first" -> Head(want["bags"])
      [] v.kind \in {"var", "same"} -> want[Named(v.name)]

After(st) ==
    CASE st.kind = "assign" -> [want EXCEPT ![st.name] = ValueMeans(st.value)]
      [] st.kind = "push" -> [want EXCEPT ![st.name] = Append(@, ItemMeans(st.value))]
      [] st.kind = "pushfirst" -> [want EXCEPT !["bags"] = Append(@, Head(@))]
      [] st.kind = "set" -> [want EXCEPT ![Named(st.name)][1] = st.value.n]
      [] st.kind = "inner" -> [want EXCEPT !["bags"][1] = Append(@, st.value.n)]
      [] OTHER -> want

(* A statement runs where what it names is declared, and where the element   *)
(* it reads is there: an index out of range stops the program, which is left *)
(* out.  What is lent is neither assigned nor pushed to meanwhile.           *)
Known(x) == IF x = "p" THEN lent # "nothing" ELSE x \in DOMAIN regs
Begun(x) == Known(x) /\ want[Named(x)] # << >>
ItemAllowed(e) == e.kind \in {"head", "bag"} => IF e.kind = "head" THEN Begun(e.name) ELSE Known(e.name)
ValueAllowed(v) ==
    CASE v.kind = "lit" -> \A k \in DOMAIN v.parts : ItemAllowed(v.parts[k])
      [] v.kind = "first" -> Begun("bags")
      [] v.kind \in {"var", "same"} -> Known(v.name)
Allowed(st) ==
    CASE st.kind = "assign" -> st.name # lent /\ ValueAllowed(st.value)
      [] st.kind = "push" -> st.name # lent /\ Known(st.name) /\ ItemAllowed(st.value)
      [] st.kind = "set" -> Begun(st.name)
      [] st.kind \in {"pushfirst", "inner"} -> Begun("bags")
      [] st.kind = "lend" -> lent = "nothing" /\ Known(st.name)
      [] st.kind = "leave" -> lent # "nothing"

-----------------------------------------------------------------------------
(* The code. *)
Instr(op, dst, src, n, deep) == [op |-> op, dst |-> dst, src |-> src, n |-> n, deep |-> deep]

(* An item into a list's room at the address in register `at`. *)
ItemCode(e, at) ==
    CASE e.kind = "num" -> <<Instr("const", "t", "", e.n, FALSE), Instr("put", at, "t", 0, FALSE)>>
      [] e.kind = "head" -> <<Instr("elem", "u", e.name, 0, FALSE), Instr("get", "t", "u", 0, FALSE),
                              Instr("put", at, "t", 0, FALSE)>>
      [] e.kind = "bag" -> <<Instr("put", at, e.name, 0, FALSE), Instr("fixup", at, "", 0, FALSE)>>

(* `expr_into`.  A list literal's elements are evaluated into its room. *)
ExprInto(dst, v) ==
    CASE v.kind = "lit" ->
            <<Instr("new", dst, "", Len(v.parts), FALSE)>> \o
            FlattenSeq([k \in DOMAIN v.parts |->
                <<Instr("elem", "at", dst, k - 1, FALSE)>> \o ItemCode(v.parts[k], "at")])
      [] v.kind = "var" -> <<Instr("copy", dst, v.name, 0, FALSE)>>
      [] v.kind = "first" -> <<Instr("elem", "at", "bags", 0, FALSE), Instr("get", dst, "at", 0, FALSE)>>
      [] v.kind = "same" -> <<Instr("copy", "r", v.name, 0, FALSE), Instr("clone", "r", "", 0, FALSE),
                              Instr("copy", dst, "r", 0, FALSE)>>

(* `builds_its_own`. *)
BuildsItsOwn(v) == v.kind \in {"lit", "same"}

(* `keep_into`, and `write_through` with the fix-up of an object's copy.     *)
(* For a field the list is built in a register of its own and stored; here  *)
(* it is built in place, which only a literal that reads its own list could *)
(* tell.                                                                    *)
KeepInto(dst, v) ==
    ExprInto(dst, v) \o
    (IF BuildsItsOwn(v) THEN << >> ELSE <<Instr("clone", dst, "", 0, HoldsLists(dst))>>)

(* `stmt`.  What is pushed is evaluated first, and an element of a list is   *)
(* pushed from where it stands.                                             *)
PushCode(x, e) ==
    CASE e.kind = "num" -> <<Instr("const", "t", "", e.n, FALSE), Instr("push", x, "t", 0, FALSE)>>
      [] e.kind = "head" -> <<Instr("elem", "u", e.name, 0, FALSE), Instr("get", "t", "u", 0, FALSE),
                              Instr("push", x, "t", 0, FALSE)>>
      [] e.kind = "bag" -> <<Instr("push", x, e.name, 0, TRUE)>>

StmtCode(st) ==
    CASE st.kind = "assign" -> KeepInto(st.name, st.value)
      [] st.kind = "push" -> PushCode(st.name, st.value)
      [] st.kind = "pushfirst" ->
            <<Instr("elem", "u", "bags", 0, FALSE), Instr("pushat", "bags", "u", 0, TRUE)>>
      [] st.kind = "set" ->
            <<Instr("elem", "at", st.name, 0, FALSE), Instr("const", "t", "", st.value.n, FALSE),
              Instr("put", "at", "t", 0, FALSE)>>
      [] st.kind = "inner" ->
            <<Instr("const", "t", "", st.value.n, FALSE), Instr("elem", "at", "bags", 0, FALSE),
              Instr("get", "held", "at", 0, FALSE), Instr("push", "held", "t", 0, FALSE),
              Instr("put", "at", "held", 0, FALSE)>>
      [] st.kind = "lend" -> <<Instr("copy", "p", st.name, 0, FALSE)>>
      [] st.kind = "leave" -> << >>

-----------------------------------------------------------------------------
ListsInit ==
    /\ program \in Programs
    /\ pending = program.decls
    /\ executed = 0
    /\ code = << >>
    /\ regs = << >>
    /\ mem = << >>
    /\ lent = "nothing"
    /\ want = [v \in {"x", "y", "b", "c", "bags", "more"} |-> << >>]
    /\ ArenaInit

Between == code = << >>

Begin(st) ==
    /\ Allowed(st)
    /\ code' = StmtCode(st)
    /\ want' = After(st)
    /\ lent' = CASE st.kind = "lend" -> st.name
                 [] st.kind = "leave" -> "nothing"
                 [] OTHER -> lent
    /\ UNCHANGED <<program, regs, mem, arenaVars>>

Declare ==
    /\ Between
    /\ pending # << >>
    /\ Begin(Head(pending))
    /\ pending' = Tail(pending)
    /\ UNCHANGED executed

Execute ==
    /\ Between
    /\ pending = << >>
    /\ executed < program.turns
    /\ \E st \in IF lent = "nothing" THEN program.stmts ELSE program.lent : Begin(st)
    /\ executed' = executed + 1
    /\ UNCHANGED pending

-----------------------------------------------------------------------------
Now == Head(code)
Cell(a) == mem[a]
Length(p) == Cell(p - WORD)
Capacity(p) == Cell(p - LIST_HEADER)
BlockFor(p, capacity) ==
    [start |-> p - LIST_HEADER, end |-> p - LIST_HEADER + Round(ListBytes(capacity))]

Result(d, v) == regs' = Over(Only(d, v), regs)
Write(cells) == mem' = Over(cells, mem)
Then(more) == code' = more \o Tail(code)
Quiet == UNCHANGED arenaVars

(* `ALLOC` answers a. *)
Hand(n, a) == (Bump(n) /\ a = arena_next) \/ (a \in Bases /\ Refill(n, a))

Header(p, capacity, length) == Over(Only(p - LIST_HEADER, capacity), Only(p - WORD, length))
Elements(p, from, length) ==
    [a \in {p + WORD * k : k \in 0 .. length - 1} |-> Cell(from + (a - p))]
Blank(p, capacity) == [a \in {p + WORD * k : k \in 0 .. capacity - 1} |-> 0]

(* `list_new`: its room is what the arena had there. *)
ListNew(length, p) ==
    Hand(ListBytes(Greater(length, LIST_MIN_CAPACITY)), p - LIST_HEADER)
NewCells(length, p) ==
    LET capacity == Greater(length, LIST_MIN_CAPACITY)
    IN  Over(Header(p, capacity, length), Blank(p, capacity))

Places == {a + LIST_HEADER : a \in {arena_next} \cup Bases}

New ==
    /\ Now.op = "new"
    /\ \E p \in Places :
          /\ ListNew(Now.n, p)
          /\ Write(NewCells(Now.n, p))
          /\ Result(Now.dst, p)
    /\ Then(<< >>)

(* `list_clone` of the list at `from`. *)
CloneCells(from, p) == Over(Elements(p, from, Length(from)), NewCells(Length(from), p))

(* What a list of objects holds is given its own, an element at a time. *)
FixupNone(dst, length) == << >>     \* mutant: a copied list shares what is in it
FixupCode(dst, length) ==
    FlattenSeq([k \in 1 .. length |->
        <<Instr("elem", "at", dst, k - 1, FALSE), Instr("fixup", "at", "", 0, FALSE)>>])

Clone ==
    /\ Now.op = "clone"
    /\ LET from == regs[Now.dst]
       IN  /\ \E p \in Places :
                 /\ ListNew(Length(from), p)
                 /\ Write(CloneCells(from, p))
                 /\ Result(Now.dst, p)
           /\ Then(IF Now.deep THEN FixupCode(Now.dst, Length(from)) ELSE << >>)

(* `FIXUP` of one object: its list is replaced by a copy. *)
Fixup ==
    /\ Now.op = "fixup"
    /\ LET at == regs[Now.dst]
       IN  \E p \in Places :
              /\ ListNew(Length(Cell(at)), p)
              /\ Write(Over(Only(at, p), CloneCells(Cell(at), p)))
    /\ Then(<< >>)
    /\ UNCHANGED regs

-----------------------------------------------------------------------------
(* `list_room`. *)
HasRoom(p) == Length(p) < Capacity(p)
Doubled(p) == 2 * Capacity(p)
OwnBlockLate(p) == BlockFor(p, Doubled(p))  \* mutant: doubled before it is worked out
OwnBlock(p) == BlockFor(p, Capacity(p))
GrowsInPlace(p) ==
    /\ OwnBlock(p).end = arena_next
    /\ InCurrentChunk(OwnBlock(p))
    /\ Fits(OwnBlock(p), ListBytes(Doubled(p)))

(* The element v goes where the ones before it stop, in the list now at q. *)
PlaceAt(q, length, v, cells) ==
    /\ Write(Over(Over(Only(q - WORD, length + 1), Only(q + WORD * length, v)), cells))
    /\ regs' = Over(Over(Only(Now.dst, q), Only("slot", q + WORD * length)), regs)

GrownUnrecorded(p) == << >>     \* mutant: the new capacity is not written
Grown(p) == Only(p - LIST_HEADER, Doubled(p))

Room(p, v) ==
    \/ /\ HasRoom(p)
       /\ PlaceAt(p, Length(p), v, << >>)
       /\ Quiet
    \/ /\ ~HasRoom(p)
       /\ GrowsInPlace(p)
       /\ Grow(OwnBlock(p), ListBytes(Doubled(p)))
       /\ PlaceAt(p, Length(p), v, Grown(p))
    \/ /\ ~HasRoom(p)
       /\ ~GrowsInPlace(p)
       /\ \E q \in Places :
             /\ Hand(ListBytes(Doubled(p)), q - LIST_HEADER)
             /\ PlaceAt(q, Length(p), v,
                        Over(Elements(q, p, Length(p)), Header(q, Doubled(p), Length(p))))

(* `list_push`, and `list_push_big`, which is handed an address.  An object  *)
(* that went in is a copy.                                                  *)
ListPush ==
    /\ Now.op \in {"push", "pushat"}
    /\ Room(regs[Now.dst], IF Now.op = "push" THEN regs[Now.src] ELSE Cell(regs[Now.src]))
    /\ Then(IF Now.deep THEN <<Instr("fixup", "slot", "", 0, FALSE)>> ELSE << >>)

-----------------------------------------------------------------------------
(* The instructions that allocate nothing. *)
Const == Now.op = "const" /\ Result(Now.dst, Now.n) /\ UNCHANGED mem
Copy == Now.op = "copy" /\ Result(Now.dst, regs[Now.src]) /\ UNCHANGED mem
Elem == Now.op = "elem" /\ Result(Now.dst, regs[Now.src] + WORD * Now.n) /\ UNCHANGED mem
Load == Now.op = "get" /\ Result(Now.dst, Cell(regs[Now.src])) /\ UNCHANGED mem
Store == Now.op = "put" /\ Write(Only(regs[Now.dst], regs[Now.src])) /\ UNCHANGED regs
Inline == (Const \/ Copy \/ Elem \/ Load \/ Store) /\ Quiet /\ Then(<< >>)

Wanted ==
    CASE Now.op = "new" -> ListBytes(Greater(Now.n, LIST_MIN_CAPACITY))
      [] Now.op = "clone" -> ListBytes(Greater(Length(regs[Now.dst]), LIST_MIN_CAPACITY))
      [] Now.op = "fixup" -> ListBytes(Greater(Length(Cell(regs[Now.dst])), LIST_MIN_CAPACITY))
      [] OTHER -> ListBytes(Doubled(regs[Now.dst]))
Abort ==
    /\ Now.op \in {"new", "clone", "fixup", "push", "pushat"}
    /\ Now.op \in {"push", "pushat"} => ~HasRoom(regs[Now.dst]) /\ ~GrowsInPlace(regs[Now.dst])
    /\ OutOfMemory(Wanted)
    /\ UNCHANGED <<code, regs, mem>>

Step ==
    /\ ~aborted
    /\ ~Between
    /\ New \/ Clone \/ Fixup \/ ListPush \/ Inline \/ Abort
    /\ UNCHANGED <<program, pending, executed, lent, want>>

Returned ==
    /\ aborted \/ (Between /\ pending = << >> /\ executed = program.turns)
    /\ UNCHANGED allVars

ListsNext == Declare \/ Execute \/ Step \/ Returned

ListsSpec == ListsInit /\ [][ListsNext]_allVars

-----------------------------------------------------------------------------
IntsAt(p) == [k \in 1 .. Length(p) |-> Cell(p + WORD * (k - 1))]
BagsAt(p) == [k \in 1 .. Length(p) |-> IntsAt(Cell(p + WORD * (k - 1)))]
Declared == DOMAIN regs \cap DOMAIN want

(* docs/architecture.md: assignment copies, a parameter borrows.  Between    *)
(* statements every variable holds what it means, whatever else was written  *)
(* or pushed, and the parameter holds what it was lent.                      *)
ListsAreValues ==
    Between /\ ~aborted =>
        /\ \A v \in Declared :
              want[v] = IF HoldsLists(v) THEN BagsAt(regs[v]) ELSE IntsAt(regs[v])
        /\ lent # "nothing" => want[lent] = IntsAt(regs["p"])

(* Every list that can be named, a variable's own and those inside. *)
Variables == {v \in Declared : ~HoldsLists(v)}
Inner == UNION {{v} \X (1 .. Length(regs[v])) : v \in Declared \ Variables}
InnerAt(i) == Cell(regs[i[1]] + WORD * (i[2] - 1))

(* No two names for one run of elements: it is what an in-place write, or a  *)
(* growth in place, relies on.                                              *)
NoTwoNames ==
    Between /\ ~aborted =>
        /\ \A v, w \in Declared : v # w => regs[v] # regs[w]
        /\ \A i, j \in Inner : i # j => InnerAt(i) # InnerAt(j)
        /\ \A v \in Variables, i \in Inner : regs[v] # InnerAt(i)

(* The capacity in front of a list is that of the block the arena handed     *)
(* out for it, so what list_room works out from it is where the block ends.  *)
CapacityIsTheBlocks ==
    Between /\ ~aborted =>
        \A p \in {regs[v] : v \in Declared} \cup {InnerAt(i) : i \in Inner} :
            /\ Length(p) <= Capacity(p)
            /\ BlockFor(p, Capacity(p)) \in blocks

(* A list has one name and one block, of the size its capacity says.          *)
OneNameOneBlock == NoTwoNames /\ CapacityIsTheBlocks

(* The list routines work within the arena's rules. *)
P_KeepsArena == ArenaSpec
=============================================================================
