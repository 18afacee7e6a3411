---------------------------- MODULE ListsProofs ----------------------------
(***************************************************************************)
(* Proofs about Lists, for every program in which no literal reads the list *)
(* it is given to, every size of the arena's chunks and every limit on     *)
(* memory: what a variable has is what was asked of it, a block of the arena *)
(* has one name, and what happens to a list is a step of the arena.        *)
(*                                                                         *)
(* The invariant says, beside the one of ArenaProofs, what each of the     *)
(* places a statement may be at means: A has, for every name of a list, the *)
(* address of its block, and M what the list of that name holds.           *)
(***************************************************************************)
EXTENDS Lists, ArenaProofs, SequenceFacts

-----------------------------------------------------------------------------
(* One function over another, and a function of one thing. *)
LEMMA OverIs ==
  ASSUME NEW f, NEW g
  PROVE  /\ DOMAIN Over(f, g) = DOMAIN f \cup DOMAIN g
         /\ \A x \in DOMAIN f : Over(f, g)[x] = f[x]
         /\ \A x \in DOMAIN g \ DOMAIN f : Over(f, g)[x] = g[x]
  BY DEF Over

(* A function of one thing. *)
LEMMA OnlyIs ==
  ASSUME NEW x, NEW v
  PROVE  DOMAIN Only(x, v) = {x} /\ Only(x, v)[x] = v
  BY DEF Only

(* One thing changed. *)
LEMMA OnlyOver ==
  ASSUME NEW x, NEW v, NEW g
  PROVE  /\ DOMAIN Over(Only(x, v), g) = {x} \cup DOMAIN g
         /\ Over(Only(x, v), g)[x] = v
         /\ \A y \in DOMAIN g \ {x} : Over(Only(x, v), g)[y] = g[y]
  BY DEF Over, Only

-----------------------------------------------------------------------------
(* Where the k-th element of a list is, and the cells of one that has room   *)
(* for n.                                                                   *)
Spot(p, k) == p + WORD * (k - 1)
Cells(p, n) == {p - LIST_HEADER, p - WORD} \cup {Spot(p, k) : k \in 1 .. n}

(* Memory m has the list s at p, in room for c. *)
ListIn(m, p, c, s) ==
    /\ p - LIST_HEADER \in DOMAIN m /\ p - WORD \in DOMAIN m
    /\ m[p - LIST_HEADER] = c /\ m[p - WORD] = Len(s)
    /\ \A k \in 1 .. Len(s) : Spot(p, k) \in DOMAIN m /\ m[Spot(p, k)] = s[k]

(* There is the list s at p, in a block of its own. *)
Holds(p, s) ==
    /\ p \in Int /\ s \in Seq(Int)
    /\ Capacity(p) \in Nat \ {0} /\ Len(s) <= Capacity(p)
    /\ BlockFor(p, Capacity(p)) \in blocks
    /\ ListIn(mem, p, Capacity(p), s)

(* The cells of a list are apart, and different from those of its header. *)
LEMMA SpotsApart ==
  ASSUME NEW p \in Int, NEW k \in Int
  PROVE  /\ Spot(p, k) \in Int
         /\ k >= 1 => Spot(p, k) # p - LIST_HEADER /\ Spot(p, k) # p - WORD
         /\ \A j \in Int : Spot(p, j) = Spot(p, k) => j = k
         /\ p - LIST_HEADER # p - WORD /\ p - LIST_HEADER \in Int /\ p - WORD \in Int
  BY DEF Spot, WORD, LIST_HEADER

(* Rounding is above what is rounded. *)
LEMMA RoomIs ==
  ASSUME NEW c \in Nat \ {0}
  PROVE  /\ ListBytes(c) \in Nat \ {0}
         /\ Round(ListBytes(c)) \in Nat /\ Round(ListBytes(c)) >= LIST_HEADER + WORD * c
<1>1. ListBytes(c) \in Nat \ {0} /\ ListBytes(c) = LIST_HEADER + WORD * c
  BY DEF ListBytes, LIST_HEADER, WORD
<1> QED
  BY <1>1, RoundFacts

(* They lie in the block of the list. *)
LEMMA CellsInBlock ==
  ASSUME NEW p \in Int, NEW c \in Nat \ {0}, NEW n \in Nat, n <= c, NEW a \in Cells(p, n)
  PROVE  a \in Int /\ BlockFor(p, c).start <= a /\ a < BlockFor(p, c).end
<1>1. Round(ListBytes(c)) \in Nat /\ Round(ListBytes(c)) >= 16 + 8 * c
  BY RoomIs DEF LIST_HEADER, WORD
<1>2. BlockFor(p, c).start = p - 16 /\ BlockFor(p, c).end = p - 16 + Round(ListBytes(c))
  BY DEF BlockFor, LIST_HEADER
<1> DEFINE r == Round(ListBytes(c))
<1> HIDE DEF r
<1>3. CASE a \in {p - LIST_HEADER, p - WORD}
  BY <1>1, <1>2, <1>3 DEF r, LIST_HEADER, WORD
<1>4. CASE a \in {Spot(p, k) : k \in 1 .. n}
  <2>1. PICK k \in 1 .. n : a = Spot(p, k)
    BY <1>4
  <2>2. a = p + 8 * (k - 1) /\ k <= c
    BY <2>1 DEF Spot, WORD
  <2> QED
    BY <1>1, <1>2, <2>2 DEF r
<1> QED
  BY <1>3, <1>4 DEF Cells

(* A list that none of its cells is written of stays. *)
LEMMA Untouched ==
  ASSUME NEW q, NEW t, Holds(q, t), NEW w, mem' = Over(w, mem),
         DOMAIN w \cap Cells(q, Len(t)) = {}, BlockFor(q, Capacity(q)) \in blocks'
  PROVE  Holds(q, t)' /\ Capacity(q)' = Capacity(q)
<1>1. \A a \in Cells(q, Len(t)) : a \in DOMAIN mem => a \in DOMAIN mem' /\ mem'[a] = mem[a]
  <2>1. DOMAIN mem' = DOMAIN w \cup DOMAIN mem /\ \A x \in DOMAIN mem \ DOMAIN w : mem'[x] = mem[x]
    BY DEF Over
  <2> QED
    BY <2>1
<1>2. /\ q - LIST_HEADER \in Cells(q, Len(t)) /\ q - WORD \in Cells(q, Len(t))
      /\ \A k \in 1 .. Len(t) : Spot(q, k) \in Cells(q, Len(t))
  BY DEF Cells
<1>3. ListIn(mem, q, Capacity(q), t)
  BY DEF Holds
<1>4. ListIn(mem', q, Capacity(q), t)
  BY <1>1, <1>2, <1>3 DEF ListIn
<1>5. Capacity(q)' = Capacity(q)
  BY <1>4 DEF ListIn, Capacity, Cell
<1> QED
  BY <1>4, <1>5 DEF Holds

(* Blocks that are apart have no cell of two lists in common. *)
LEMMA CellsApart ==
  ASSUME NEW B \in SUBSET Block, \A x, y \in B : x # y => Apart(x, y),
         NEW p \in Int, NEW c \in Nat \ {0}, BlockFor(p, c) \in B,
         NEW q \in Int, NEW d \in Nat \ {0}, BlockFor(q, d) \in B, NEW n \in Nat, n <= d, p # q
  PROVE  Cells(p, c) \cap Cells(q, n) = {}
<1> DEFINE b == BlockFor(p, c)
           e == BlockFor(q, d)
<1>1. b \in B /\ e \in B
  OBVIOUS
<1>2. b # e
  <2>1. b.start = p - 16 /\ e.start = q - 16
    BY DEF BlockFor, LIST_HEADER
  <2> HIDE DEF b, e
  <2> QED
    BY <2>1
<1>3. b.end <= e.start \/ e.end <= b.start
  BY <1>1, <1>2 DEF Apart
<1>4. \A x \in B : x.start \in Nat /\ x.end \in Nat
  BY DEF Block, Address
<1>5. c <= c /\ c \in Nat
  OBVIOUS
<1>6. ASSUME NEW a, a \in Cells(p, c), a \in Cells(q, n) PROVE FALSE
  <2>1. a \in Int /\ b.start <= a /\ a < b.end
    BY <1>5, <1>6, CellsInBlock
  <2>2. e.start <= a /\ a < e.end
    BY <1>6, CellsInBlock
  <2> HIDE DEF b, e
  <2> QED
    BY <1>1, <1>3, <1>4, <2>1, <2>2
<1> QED
  BY <1>6

(* Two lists have no cell in common. *)
LEMMA ListsApart ==
  ASSUME IInv, NEW p, NEW s, Holds(p, s), NEW q, NEW t, Holds(q, t), p # q
  PROVE  Cells(p, Capacity(p)) \cap Cells(q, Len(t)) = {}
<1>1. /\ p \in Int /\ q \in Int /\ Capacity(p) \in Nat \ {0} /\ Capacity(q) \in Nat \ {0}
      /\ Len(t) \in Nat /\ Len(t) <= Capacity(q)
      /\ BlockFor(p, Capacity(p)) \in blocks /\ BlockFor(q, Capacity(q)) \in blocks
  BY DEF Holds
<1>2. blocks \in SUBSET Block /\ \A x, y \in blocks : x # y => Apart(x, y)
  BY DEF IInv, TypeOK, BlocksApart
<1> QED
  BY <1>1, <1>2, CellsApart

(* What ALLOC hands out, for n bytes, is new. *)
LEMMA HandIs ==
  ASSUME IInv, NEW n \in Nat \ {0}, NEW a \in Int, Hand(n, a)
  PROVE  /\ IInv' /\ aborted' = aborted
         /\ blocks' = blocks \cup {[start |-> a, end |-> a + Round(n)]}
         /\ \A b \in blocks : b.end <= a \/ a + Round(n) <= b.start
<1> DEFINE r == Round(n)
<1>0. r \in Nat /\ r > 0
  BY RoundFacts
<1>1. \A x \in blocks : x.start \in Nat /\ x.end \in Nat /\ x.start < x.end
  BY DEF IInv, TypeOK, Block, Address, NoneEmpty
<1>2. arena_next \in Nat /\ arena_end \in Nat
  BY DEF IInv, TypeOK, Address
<1> HIDE DEF r
<1>3. CASE Bump(n) /\ a = arena_next
  <2>1. IInv'
    BY <1>3, BumpKeeps
  <2>2. blocks' = blocks \cup {[start |-> a, end |-> a + r]} /\ aborted' = aborted /\ a + r <= arena_end
    BY <1>3 DEF Bump, Handed, r
  <2>3. \A b \in blocks : b.end <= a \/ a + r <= b.start
    <3> TAKE b \in blocks
    <3>1. b.end <= arena_next \/ b.start >= arena_end
      BY DEF IInv, NothingBeyondNext
    <3> QED
      BY <1>0, <1>1, <1>2, <1>3, <2>2, <3>1
  <2> QED
    BY <2>1, <2>2, <2>3 DEF r
<1>4. CASE a \in Bases /\ Refill(n, a)
  <2> DEFINE size == ChunkSize(r)
  <2>1. IInv'
    BY <1>4, RefillKeeps
  <2>2. blocks' = blocks \cup {[start |-> a, end |-> a + r]} /\ aborted' = aborted
    BY <1>4 DEF Refill, r
  <2>3. size \in Nat /\ r <= size
    BY <1>0, ChunkHasRoom
  <2>4. \A c \in chunks : a + size <= c.base \/ c.base + c.size <= a
    BY <1>4 DEF Refill, MallocAnswers, r
  <2>5. \A c \in chunks : c.base \in Nat /\ c.size \in Nat
    BY DEF IInv, TypeOK, Chunk, Address
  <2> HIDE DEF size
  <2>6. \A b \in blocks : b.end <= a \/ a + r <= b.start
    <3> TAKE b \in blocks
    <3>1. PICK c \in chunks : c.base <= b.start /\ b.end <= c.base + c.size
      BY DEF IInv, BlocksInChunks
    <3> QED
      BY <1>0, <1>1, <2>3, <2>4, <2>5, <3>1
  <2> QED
    BY <2>1, <2>2, <2>6 DEF r
<1> QED
  BY <1>3, <1>4 DEF Hand

(* What a list just handed out for c elements shares with those there were. *)
IsNewFor(p, c) ==
    \A q, t : Holds(q, t) => /\ q # p
                             /\ BlockFor(q, Capacity(q)) \in blocks'
                             /\ Cells(q, Len(t)) \cap Cells(p, c) = {}

(* Nothing. *)
LEMMA HandForList ==
  ASSUME IInv, NEW c \in Nat \ {0}, NEW p \in Int, Hand(ListBytes(c), p - LIST_HEADER)
  PROVE  /\ IInv' /\ aborted' = aborted
         /\ BlockFor(p, c) \in blocks'
         /\ IsNewFor(p, c)
<1> DEFINE n == ListBytes(c)
           a == p - LIST_HEADER
           r == Round(n)
<1>1. n \in Nat \ {0} /\ r \in Nat /\ r >= LIST_HEADER + WORD * c
  BY RoomIs
<1>2. a \in Int
  BY DEF LIST_HEADER
<1>3. /\ IInv' /\ aborted' = aborted
      /\ blocks' = blocks \cup {[start |-> a, end |-> a + Round(n)]}
      /\ \A b \in blocks : b.end <= a \/ a + Round(n) <= b.start
  <2> HIDE DEF n, a
  <2>1. Hand(n, a)
    BY DEF n, a
  <2> QED
    BY <1>1, <1>2, <2>1, HandIs
<1>4. BlockFor(p, c) = [start |-> a, end |-> a + r]
  BY DEF BlockFor
<1>5. ASSUME NEW q, NEW t, Holds(q, t)
      PROVE  /\ q # p
             /\ BlockFor(q, Capacity(q)) \in blocks'
             /\ Cells(q, Len(t)) \cap Cells(p, c) = {}
  <2> DEFINE b == BlockFor(q, Capacity(q))
  <2>1. /\ b \in blocks /\ q \in Int /\ Capacity(q) \in Nat \ {0} /\ Len(t) \in Nat
        /\ Len(t) <= Capacity(q)
    BY <1>5 DEF Holds
  <2>2. b.end <= a \/ a + r <= b.start
    BY <1>3, <2>1
  <2>3. b.start \in Nat /\ b.end \in Nat /\ b.start < b.end
    BY <2>1 DEF IInv, TypeOK, Block, Address, NoneEmpty
  <2>4. b.start = q - LIST_HEADER
    BY DEF BlockFor
  <2>5. ASSUME NEW x, x \in Cells(q, Len(t)), x \in Cells(p, c) PROVE FALSE
    <3>1. x \in Int /\ b.start <= x /\ x < b.end
      BY <2>1, <2>5, CellsInBlock
    <3>2. c \in Nat /\ c <= c
      OBVIOUS
    <3>3. a <= x /\ x < a + r
      <4>1. BlockFor(p, c).start <= x /\ x < BlockFor(p, c).end
        BY <2>5, <3>2, CellsInBlock
      <4> HIDE DEF a, r
      <4> QED
        BY <1>4, <4>1
    <3> HIDE DEF a, b, r
    <3> QED
      BY <1>1, <1>2, <2>2, <2>3, <3>1, <3>3
  <2>6. q # p
    <3> HIDE DEF b, r
    <3> QED
      BY <1>1, <1>2, <2>1, <2>2, <2>3, <2>4 DEF LIST_HEADER, WORD
  <2>7. b \in blocks'
    BY <1>3, <2>1
  <2> QED
    BY <2>5, <2>6, <2>7
<1>6. BlockFor(p, c) \in blocks'
  <2> HIDE DEF a, n
  <2> QED
    BY <1>3, <1>4 DEF r
<1> QED
  BY <1>3, <1>5, <1>6 DEF IsNewFor

(* A list written into what was handed out is there, and no other is        *)
(* disturbed, but for what else is written.                                 *)
LEMMA FreshList ==
  ASSUME IInv, NEW c \in Nat \ {0}, NEW p \in Int, Hand(ListBytes(c), p - LIST_HEADER),
         NEW w, mem' = Over(w, mem), NEW s \in Seq(Int), Len(s) <= c, ListIn(w, p, c, s)
  PROVE  /\ IInv' /\ aborted' = aborted
         /\ Holds(p, s)'
         /\ \A q, t : /\ Holds(q, t)
                      /\ Cells(q, Len(t)) \cap (DOMAIN w \ Cells(p, c)) = {}
                      => Holds(q, t)' /\ q # p
<1>1. IInv' /\ aborted' = aborted /\ BlockFor(p, c) \in blocks' /\ IsNewFor(p, c)
  BY HandForList
<1>2. Holds(p, s)'
  <2>1. ListIn(mem', p, c, s)
    <3>1. \A a \in DOMAIN w : a \in DOMAIN mem' /\ mem'[a] = w[a]
      BY DEF Over
    <3> QED
      BY <3>1 DEF ListIn
  <2>2. Capacity(p)' = c
    BY <2>1 DEF ListIn, Capacity, Cell
  <2> QED
    BY <1>1, <2>1, <2>2 DEF Holds
<1>3. ASSUME NEW q, NEW t, Holds(q, t), Cells(q, Len(t)) \cap (DOMAIN w \ Cells(p, c)) = {}
      PROVE  Holds(q, t)' /\ q # p
  <2>1. q # p /\ BlockFor(q, Capacity(q)) \in blocks' /\ Cells(q, Len(t)) \cap Cells(p, c) = {}
    BY <1>1, <1>3 DEF IsNewFor
  <2>2. DOMAIN w \cap Cells(q, Len(t)) = {}
    BY <1>3, <2>1
  <2> QED
    BY <1>3, <2>1, <2>2, Untouched
<1> QED
  BY <1>1, <1>2, <1>3

Zeros(n) == [k \in 1 .. n |-> 0]

(* Room for as many as there are, and for as many as the least. *)
LEMMA GreaterIs ==
  ASSUME NEW n \in Nat
  PROVE  Greater(n, LIST_MIN_CAPACITY) \in Nat \ {0} /\ n <= Greater(n, LIST_MIN_CAPACITY)
  BY ListsAssumption DEF Greater

(* The header of a list. *)
IsHeader(h, p, c, n) ==
    DOMAIN h = {p - LIST_HEADER, p - WORD} /\ h[p - LIST_HEADER] = c /\ h[p - WORD] = n

(* It has the two cells. *)
LEMMA HeaderIs ==
  ASSUME NEW p \in Int, NEW c, NEW n
  PROVE  IsHeader(Header(p, c, n), p, c, n)
<1>1. p - LIST_HEADER # p - WORD
  BY SpotsApart
<1> QED
  BY <1>1 DEF Header, Over, Only, IsHeader

(* The places of the elements, counted from 0 and from 1. *)
LEMMA SpotsAre ==
  ASSUME NEW p \in Int, NEW n \in Nat
  PROVE  {p + WORD * k : k \in 0 .. n - 1} = {Spot(p, k) : k \in 1 .. n}
<1>1. ASSUME NEW k \in 0 .. n - 1 PROVE k + 1 \in 1 .. n /\ p + WORD * k = Spot(p, k + 1)
  BY DEF Spot, WORD
<1>2. ASSUME NEW k \in 1 .. n PROVE k - 1 \in 0 .. n - 1 /\ Spot(p, k) = p + WORD * (k - 1)
  BY DEF Spot
<1> QED
  BY <1>1, <1>2

(* A header in front of elements that go no further than there is room. *)
LEMMA HeaderAnd ==
  ASSUME NEW p \in Int, NEW c \in Nat, NEW s \in Seq(Int), Len(s) <= c, NEW e,
         DOMAIN e \subseteq {Spot(p, k) : k \in 1 .. c},
         \A k \in 1 .. Len(s) : Spot(p, k) \in DOMAIN e /\ e[Spot(p, k)] = s[k],
         NEW w, w = Over(Header(p, c, Len(s)), e) \/ w = Over(e, Header(p, c, Len(s)))
  PROVE  ListIn(w, p, c, s) /\ DOMAIN w \subseteq Cells(p, c)
<1> DEFINE h == Header(p, c, Len(s))
<1>1. DOMAIN h = {p - LIST_HEADER, p - WORD} /\ h[p - LIST_HEADER] = c /\ h[p - WORD] = Len(s)
  <2>1. IsHeader(h, p, c, Len(s))
    BY HeaderIs
  <2> QED
    BY <2>1 DEF IsHeader
<1>2. DOMAIN h \cap DOMAIN e = {}
  <2>1. \A k \in 1 .. c : Spot(p, k) # p - LIST_HEADER /\ Spot(p, k) # p - WORD
    BY DEF Spot, WORD, LIST_HEADER
  <2> QED
    BY <1>1, <2>1
<1> HIDE DEF h
<1>3. DOMAIN w = DOMAIN h \cup DOMAIN e /\ (\A x \in DOMAIN h : w[x] = h[x]) /\ (\A x \in DOMAIN e : w[x] = e[x])
  BY <1>2 DEF Over, h
<1>4. DOMAIN w \subseteq Cells(p, c)
  BY <1>1, <1>3 DEF Cells
<1>5. ListIn(w, p, c, s)
  BY <1>1, <1>3 DEF ListIn
<1> QED
  BY <1>4, <1>5

(* What list_new leaves is a list of zeros. *)
LEMMA NewCellsAre ==
  ASSUME NEW p \in Int, NEW n \in Nat
  PROVE  /\ ListIn(NewCells(n, p), p, Greater(n, LIST_MIN_CAPACITY), Zeros(n))
         /\ DOMAIN NewCells(n, p) \subseteq Cells(p, Greater(n, LIST_MIN_CAPACITY))
         /\ Zeros(n) \in Seq(Int) /\ Len(Zeros(n)) = n
<1> DEFINE c == Greater(n, LIST_MIN_CAPACITY)
           e == Blank(p, c)
           z == Zeros(n)
           w == NewCells(n, p)
<1>1. c \in Nat /\ n <= c
  BY GreaterIs
<1>2. z \in Seq(Int) /\ Len(z) = n /\ \A k \in 1 .. n : z[k] = 0
  BY DEF Zeros
<1>3. DOMAIN e = {Spot(p, k) : k \in 1 .. c} /\ \A x \in DOMAIN e : e[x] = 0
  BY <1>1, SpotsAre DEF Blank
<1>4. w = Over(Header(p, c, n), e)
  BY DEF NewCells
<1> HIDE DEF c, e, z, w
<1>5. \A k \in 1 .. Len(z) : Spot(p, k) \in DOMAIN e /\ e[Spot(p, k)] = z[k]
  BY <1>1, <1>2, <1>3
<1>6. ListIn(w, p, c, z) /\ DOMAIN w \subseteq Cells(p, c)
  BY <1>1, <1>2, <1>3, <1>4, <1>5, HeaderAnd
<1> QED
  BY <1>2, <1>6 DEF c, z, w

(* e is the elements of s, where they go in a list at p. *)
AreAt(e, p, s) ==
    DOMAIN e = {Spot(p, k) : k \in 1 .. Len(s)} /\ \A k \in 1 .. Len(s) : e[Spot(p, k)] = s[k]

(* The elements of a list, taken to p. *)
LEMMA ElementsAre ==
  ASSUME NEW p \in Int, NEW from, NEW s, Holds(from, s)
  PROVE  AreAt(Elements(p, from, Len(s)), p, s)
<1> DEFINE e == Elements(p, from, Len(s))
<1>1. Len(s) \in Nat /\ from \in Int /\ \A k \in 1 .. Len(s) : mem[Spot(from, k)] = s[k]
  BY DEF Holds, ListIn
<1>2. DOMAIN e = {Spot(p, k) : k \in 1 .. Len(s)}
  BY <1>1, SpotsAre DEF Elements
<1>3. \A a \in DOMAIN e : e[a] = mem[from + (a - p)]
  BY DEF Elements, Cell
<1> HIDE DEF e
<1>4. \A k \in 1 .. Len(s) : from + (Spot(p, k) - p) = Spot(from, k)
  BY <1>1 DEF Spot, WORD
<1> QED
  BY <1>1, <1>2, <1>3, <1>4 DEF e, AreAt

(* What list_clone writes is a list with what the other has. *)
LEMMA CloneCellsAre ==
  ASSUME NEW p \in Int, NEW from, NEW s, Holds(from, s)
  PROVE  /\ ListIn(CloneCells(from, p), p, Greater(Len(s), LIST_MIN_CAPACITY), s)
         /\ DOMAIN CloneCells(from, p) \subseteq Cells(p, Greater(Len(s), LIST_MIN_CAPACITY))
         /\ Length(from) = Len(s) /\ Len(s) \in Nat /\ s \in Seq(Int)
<1> DEFINE n == Len(s)
           c == Greater(n, LIST_MIN_CAPACITY)
           e == Elements(p, from, n)
           z == Zeros(n)
           w == NewCells(n, p)
           v == CloneCells(from, p)
<1>1. s \in Seq(Int) /\ n \in Nat /\ Length(from) = n
  BY DEF Holds, ListIn, Length, Cell
<1>2. v = Over(e, w)
  BY <1>1 DEF CloneCells
<1>3. DOMAIN e = {Spot(p, k) : k \in 1 .. n} /\ \A k \in 1 .. n : e[Spot(p, k)] = s[k]
  <2>1. AreAt(e, p, s)
    BY ElementsAre
  <2> QED
    BY <2>1 DEF AreAt
<1>4. ListIn(w, p, c, z) /\ DOMAIN w \subseteq Cells(p, c) /\ Len(z) = n
  BY <1>1, NewCellsAre
<1>5. \A k \in 1 .. n : Spot(p, k) # p - LIST_HEADER /\ Spot(p, k) # p - WORD
  <2> HIDE DEF n
  <2> QED
    BY <1>1 DEF Spot, WORD, LIST_HEADER
<1>6. c \in Nat /\ n <= c
  BY <1>1, GreaterIs
<1> HIDE DEF n, c, e, z, w, v
<1>7. /\ DOMAIN v = DOMAIN e \cup DOMAIN w /\ (\A x \in DOMAIN e : v[x] = e[x])
      /\ \A x \in DOMAIN w \ DOMAIN e : v[x] = w[x]
  BY <1>2 DEF Over
<1>8. DOMAIN e \subseteq Cells(p, c)
  BY <1>1, <1>3, <1>6 DEF Cells
<1>9. ListIn(v, p, c, s)
  BY <1>3, <1>4, <1>5, <1>7 DEF ListIn, n
<1> QED
  BY <1>1, <1>4, <1>7, <1>8, <1>9 DEF n, c, v

(* Every list stays as it is, but for the one at r; and none is at p. *)
AllStay(p) == \A q, t : Holds(q, t) => Holds(q, t)' /\ q # p
OthersStay(r, p) == \A q, t : Holds(q, t) /\ q # r => Holds(q, t)' /\ q # p

(* The arena goes on as it was. *)
Goes == IInv' /\ aborted' = aborted

(* A new list of n zeros. *)
LEMMA NewIs ==
  ASSUME IInv, NEW n \in Nat, NEW p \in Int, ListNew(n, p), Write(NewCells(n, p))
  PROVE  Goes /\ Holds(p, Zeros(n))' /\ AllStay(p)
<1> DEFINE c == Greater(n, LIST_MIN_CAPACITY)
           w == NewCells(n, p)
           z == Zeros(n)
<1>1. c \in Nat \ {0} /\ n <= c
  BY GreaterIs
<1>2. ListIn(w, p, c, z) /\ DOMAIN w \subseteq Cells(p, c) /\ z \in Seq(Int) /\ Len(z) = n
  BY NewCellsAre
<1>3. Hand(ListBytes(c), p - LIST_HEADER) /\ mem' = Over(w, mem)
  BY DEF ListNew, Write
<1> HIDE DEF c, w, z
<1>4. DOMAIN w \ Cells(p, c) = {}
  BY <1>2
<1>5. /\ IInv' /\ aborted' = aborted /\ Holds(p, z)'
      /\ \A q, t : Holds(q, t) /\ Cells(q, Len(t)) \cap (DOMAIN w \ Cells(p, c)) = {}
                   => Holds(q, t)' /\ q # p
  BY <1>1, <1>2, <1>3, FreshList
<1>6. AllStay(p)
  BY <1>4, <1>5 DEF AllStay
<1> QED
  BY <1>5, <1>6 DEF z, Goes

(* A copy of the list at `from`. *)
LEMMA CloneIs ==
  ASSUME IInv, NEW from, NEW s, Holds(from, s), NEW p \in Int, ListNew(Length(from), p),
         Write(CloneCells(from, p))
  PROVE  Goes /\ Holds(p, s)' /\ AllStay(p)
<1> DEFINE c == Greater(Len(s), LIST_MIN_CAPACITY)
           w == CloneCells(from, p)
<1>1. /\ ListIn(w, p, c, s) /\ DOMAIN w \subseteq Cells(p, c) /\ Length(from) = Len(s) /\ Len(s) \in Nat
      /\ s \in Seq(Int)
  BY CloneCellsAre
<1>2. c \in Nat \ {0} /\ Len(s) <= c
  BY <1>1, GreaterIs
<1>3. Hand(ListBytes(c), p - LIST_HEADER) /\ mem' = Over(w, mem)
  BY <1>1 DEF ListNew, Write
<1> HIDE DEF c, w
<1>4. DOMAIN w \ Cells(p, c) = {}
  BY <1>1
<1>5. /\ IInv' /\ aborted' = aborted /\ Holds(p, s)'
      /\ \A q, t : Holds(q, t) /\ Cells(q, Len(t)) \cap (DOMAIN w \ Cells(p, c)) = {}
                   => Holds(q, t)' /\ q # p
  BY <1>1, <1>2, <1>3, FreshList
<1>6. AllStay(p)
  BY <1>4, <1>5 DEF AllStay
<1> QED
  BY <1>5, <1>6 DEF Goes

(* An element of a list is written. *)
LEMMA ElementWritten ==
  ASSUME NEW q, NEW t, Holds(q, t), NEW k \in 1 .. Len(t), NEW v \in Int, NEW w,
         mem' = Over(w, mem), DOMAIN w \cap Cells(q, Len(t)) = {Spot(q, k)}, w[Spot(q, k)] = v,
         BlockFor(q, Capacity(q)) \in blocks'
  PROVE  Holds(q, [t EXCEPT ![k] = v])'
<1> DEFINE u == [t EXCEPT ![k] = v]
           c == Capacity(q)
<1>1. q \in Int /\ t \in Seq(Int) /\ Len(t) \in Nat /\ c \in Nat \ {0} /\ Len(t) <= c /\ ListIn(mem, q, c, t)
  BY DEF Holds
<1>2. u \in Seq(Int) /\ Len(u) = Len(t) /\ u[k] = v /\ \A j \in 1 .. Len(t) : j # k => u[j] = t[j]
  BY <1>1
<1> HIDE DEF u, c
<1>3. \A a \in Cells(q, Len(t)) : a \in DOMAIN mem /\ a # Spot(q, k) => a \in DOMAIN mem' /\ mem'[a] = mem[a]
  <2>1. DOMAIN mem' = DOMAIN w \cup DOMAIN mem /\ \A x \in DOMAIN mem \ DOMAIN w : mem'[x] = mem[x]
    BY DEF Over
  <2> QED
    BY <2>1
<1>4. Spot(q, k) \in DOMAIN mem' /\ mem'[Spot(q, k)] = v
  BY DEF Over
<1>5. /\ q - LIST_HEADER \in Cells(q, Len(t)) /\ q - WORD \in Cells(q, Len(t))
      /\ \A j \in 1 .. Len(t) : Spot(q, j) \in Cells(q, Len(t))
  BY DEF Cells
<1>6. /\ Spot(q, k) # q - LIST_HEADER /\ Spot(q, k) # q - WORD
      /\ \A j \in 1 .. Len(t) : Spot(q, j) = Spot(q, k) => j = k
  BY <1>1 DEF Spot, WORD, LIST_HEADER
<1>7. ListIn(mem', q, c, u)
  <2>1. /\ q - LIST_HEADER \in DOMAIN mem' /\ q - WORD \in DOMAIN mem'
        /\ mem'[q - LIST_HEADER] = c /\ mem'[q - WORD] = Len(u)
    BY <1>1, <1>2, <1>3, <1>5, <1>6 DEF ListIn
  <2>2. ASSUME NEW j \in 1 .. Len(u) PROVE Spot(q, j) \in DOMAIN mem' /\ mem'[Spot(q, j)] = u[j]
    <3>1. CASE j = k
      BY <1>2, <1>4, <3>1
    <3>2. CASE j # k
      <4>1. j \in 1 .. Len(t) /\ Spot(q, j) # Spot(q, k) /\ u[j] = t[j]
        BY <1>2, <1>6, <3>2
      <4>2. Spot(q, j) \in DOMAIN mem /\ mem[Spot(q, j)] = t[j]
        BY <1>1, <4>1 DEF ListIn
      <4> QED
        BY <1>3, <1>5, <4>1, <4>2
    <3> QED
      BY <3>1, <3>2
  <2> QED
    BY <2>1, <2>2 DEF ListIn
<1>8. Capacity(q)' = c
  BY <1>7 DEF ListIn, Capacity, Cell
<1>9. Holds(q, u)'
  BY <1>1, <1>2, <1>7, <1>8 DEF Holds, c
<1> QED
  BY <1>9 DEF u

(* Where an element is written, and nothing else. *)
LEMMA StoreIs ==
  ASSUME IInv, NEW q, NEW t, Holds(q, t), NEW k \in 1 .. Len(t), NEW v \in Int,
         Write(Only(Spot(q, k), v)), Quiet
  PROVE  Goes /\ Holds(q, [t EXCEPT ![k] = v])' /\ \A r, s : Holds(r, s) /\ r # q => Holds(r, s)'
<1> DEFINE w == Only(Spot(q, k), v)
<1>1. DOMAIN w = {Spot(q, k)} /\ w[Spot(q, k)] = v
  BY OnlyIs
<1>2. mem' = Over(w, mem) /\ blocks' = blocks /\ Goes
  BY DEF Write, Quiet, Goes, arenaVars, IInv, TypeOK, ChunksApart, NoneEmpty, WalksAChunk, BlocksInChunks,
         NothingBeyondNext, BlocksApart, Apart
<1> HIDE DEF w
<1>3. Spot(q, k) \in Cells(q, Len(t)) /\ Spot(q, k) \in Cells(q, Capacity(q))
  BY DEF Cells, Holds
<1>4. Holds(q, [t EXCEPT ![k] = v])'
  <2>1. DOMAIN w \cap Cells(q, Len(t)) = {Spot(q, k)}
    BY <1>1, <1>3
  <2>2. BlockFor(q, Capacity(q)) \in blocks'
    BY <1>2 DEF Holds
  <2> QED
    BY <1>1, <1>2, <2>1, <2>2, ElementWritten
<1>5. ASSUME NEW r, NEW s, Holds(r, s), r # q PROVE Holds(r, s)'
  <2>1. Cells(q, Capacity(q)) \cap Cells(r, Len(s)) = {}
    BY <1>5, ListsApart
  <2>2. DOMAIN w \cap Cells(r, Len(s)) = {}
    BY <1>1, <1>3, <2>1
  <2>3. BlockFor(r, Capacity(r)) \in blocks'
    BY <1>2, <1>5 DEF Holds
  <2> QED
    BY <1>2, <1>5, <2>2, <2>3, Untouched
<1> QED
  BY <1>2, <1>4, <1>5

(* An object's list is replaced by a copy, in the list q of objects. *)
LEMMA FixupIs ==
  ASSUME IInv, NEW q, NEW t, Holds(q, t), NEW k \in 1 .. Len(t), NEW s, Holds(t[k], s),
         NEW at, at = Spot(q, k), NEW p \in Int,
         ListNew(Length(Cell(at)), p), Write(Over(Only(at, p), CloneCells(Cell(at), p)))
  PROVE  /\ Goes /\ Holds(q, [t EXCEPT ![k] = p])' /\ Holds(p, s)' /\ p # q
         /\ OthersStay(q, p)
<1> DEFINE c == Greater(Len(s), LIST_MIN_CAPACITY)
           from == t[k]
           v == CloneCells(from, p)
           o == Only(at, p)
           w == Over(o, v)
<1>1. Cell(at) = from
  BY DEF Holds, ListIn, Cell
<1>2. /\ ListIn(v, p, c, s) /\ DOMAIN v \subseteq Cells(p, c) /\ Length(from) = Len(s) /\ Len(s) \in Nat
      /\ s \in Seq(Int)
  BY CloneCellsAre
<1>3. c \in Nat \ {0} /\ Len(s) <= c
  BY <1>2, GreaterIs
<1>4. Hand(ListBytes(c), p - LIST_HEADER) /\ mem' = Over(w, mem)
  BY <1>1, <1>2 DEF ListNew, Write
<1>5. DOMAIN o = {at} /\ o[at] = p
  BY OnlyIs
<1>a. DOMAIN w = DOMAIN o \cup DOMAIN v /\ (\A x \in DOMAIN v \ DOMAIN o : w[x] = v[x]) /\ w[at] = p
  BY <1>5 DEF Over
<1> HIDE DEF c, v, o, w, from
<1>6. IInv' /\ aborted' = aborted /\ BlockFor(p, c) \in blocks' /\ IsNewFor(p, c)
  BY <1>3, <1>4, HandForList
<1>7. q # p /\ BlockFor(q, Capacity(q)) \in blocks' /\ Cells(q, Len(t)) \cap Cells(p, c) = {}
  BY <1>6 DEF IsNewFor
<1>8. at \in Cells(q, Len(t)) /\ at \in Cells(q, Capacity(q)) /\ at \notin Cells(p, c)
  <2>1. at \in Cells(q, Len(t))
    BY DEF Cells
  <2>2. at \in Cells(q, Capacity(q))
    BY DEF Cells, Holds
  <2> QED
    BY <1>7, <2>1, <2>2
<1>9. ListIn(w, p, c, s)
  <2>1. /\ p - LIST_HEADER \in Cells(p, c) /\ p - WORD \in Cells(p, c)
        /\ \A j \in 1 .. Len(s) : Spot(p, j) \in Cells(p, c)
    BY <1>2, <1>3 DEF Cells
  <2>2. \A x \in Cells(p, c) : x \in DOMAIN v => x \in DOMAIN w /\ w[x] = v[x]
    BY <1>5, <1>8, <1>a
  <2> QED
    BY <1>2, <2>1, <2>2 DEF ListIn
<1>10. /\ Holds(p, s)'
       /\ \A r, u : Holds(r, u) /\ Cells(r, Len(u)) \cap (DOMAIN w \ Cells(p, c)) = {}
                    => Holds(r, u)' /\ r # p
  BY <1>2, <1>3, <1>4, <1>9, FreshList
<1>11. DOMAIN w \ Cells(p, c) = {at}
  BY <1>2, <1>5, <1>8, <1>a
<1>12. Holds(q, [t EXCEPT ![k] = p])'
  <2>1. DOMAIN w \cap Cells(q, Len(t)) = {Spot(q, k)}
    BY <1>7, <1>8, <1>11
  <2>2. w[Spot(q, k)] = p
    BY <1>a
  <2> QED
    BY <1>4, <1>7, <2>1, <2>2, ElementWritten
<1>13. ASSUME NEW r, NEW u, Holds(r, u), r # q PROVE Holds(r, u)' /\ r # p
  <2>1. Cells(q, Capacity(q)) \cap Cells(r, Len(u)) = {}
    BY <1>13, ListsApart
  <2>2. Cells(r, Len(u)) \cap (DOMAIN w \ Cells(p, c)) = {}
    BY <1>8, <1>11, <2>1
  <2> QED
    BY <1>10, <1>13, <2>2
<1>14. OthersStay(q, p)
  BY <1>13 DEF OthersStay
<1> QED
  BY <1>6, <1>7, <1>10, <1>12, <1>14 DEF Goes

-----------------------------------------------------------------------------
(* What a push writes: v behind the list s, now at q. *)
PushCells(q, s, v) == Over(Only(q - WORD, Len(s) + 1), Only(Spot(q, Len(s) + 1), v))

(* Behind the cells of s are the length and the new element. *)
LEMMA PushCellsAre ==
  ASSUME NEW q \in Int, NEW s \in Seq(Int), NEW v \in Int
  PROVE  /\ DOMAIN PushCells(q, s, v) = {q - WORD, Spot(q, Len(s) + 1)}
         /\ PushCells(q, s, v)[q - WORD] = Len(s) + 1
         /\ PushCells(q, s, v)[Spot(q, Len(s) + 1)] = v
<1>1. q - WORD # Spot(q, Len(s) + 1)
  BY DEF Spot, WORD
<1> QED
  BY <1>1 DEF PushCells, Over, Only

(* A list with one more is there once those are written behind it. *)
LEMMA OneMore ==
  ASSUME NEW q \in Int, NEW s \in Seq(Int), NEW v \in Int, NEW c, NEW m, ListIn(m, q, c, s),
         NEW n, n = Over(PushCells(q, s, v), m)
  PROVE  ListIn(n, q, c, Append(s, v))
<1> DEFINE l == Len(s)
           u == Append(s, v)
           x == PushCells(q, s, v)
<1>1. l \in Nat /\ Len(u) = l + 1 /\ u[l + 1] = v /\ \A j \in 1 .. l : u[j] = s[j]
  OBVIOUS
<1>2. DOMAIN x = {q - WORD, Spot(q, l + 1)} /\ x[q - WORD] = l + 1 /\ x[Spot(q, l + 1)] = v
  BY PushCellsAre
<1> HIDE DEF l, u, x
<1>3. /\ \A j \in 1 .. l : Spot(q, j) # q - WORD /\ Spot(q, j) # Spot(q, l + 1)
      /\ q - LIST_HEADER # q - WORD /\ q - LIST_HEADER # Spot(q, l + 1)
  BY <1>1 DEF Spot, WORD, LIST_HEADER
<1>4. /\ DOMAIN n = DOMAIN x \cup DOMAIN m /\ (\A a \in DOMAIN x : n[a] = x[a])
      /\ \A a \in DOMAIN m \ DOMAIN x : n[a] = m[a]
  BY DEF Over, x
<1>5. q - LIST_HEADER \in DOMAIN n /\ n[q - LIST_HEADER] = c
  BY <1>2, <1>3, <1>4 DEF ListIn
<1>6. q - WORD \in DOMAIN n /\ n[q - WORD] = Len(u)
  BY <1>1, <1>2, <1>4
<1>7. ASSUME NEW j \in 1 .. Len(u) PROVE Spot(q, j) \in DOMAIN n /\ n[Spot(q, j)] = u[j]
  <2>1. CASE j = l + 1
    BY <1>1, <1>2, <1>4, <2>1
  <2>2. CASE j # l + 1
    <3>1. j \in 1 .. l
      BY <1>1, <2>2
    <3>2. Spot(q, j) \in DOMAIN m /\ m[Spot(q, j)] = s[j]
      BY <3>1 DEF ListIn, l
    <3> QED
      BY <1>1, <1>2, <1>3, <1>4, <3>1, <3>2
  <2> QED
    BY <2>1, <2>2
<1> QED
  BY <1>5, <1>6, <1>7 DEF ListIn, u

(* Two writings are one. *)
LEMMA OverOver ==
  ASSUME NEW f, NEW g, NEW h
  PROVE  Over(Over(f, g), h) = Over(f, Over(g, h))
  BY DEF Over

(* v is behind the list s that was at p, and the list is at q. *)
Pushed(p, s, v, q) ==
    /\ Goes /\ Holds(q, Append(s, v))' /\ OthersStay(p, q)
    /\ regs' = Over(Over(Only(Now.dst, q), Only("slot", Spot(q, Len(s) + 1))), regs)

(* What PlaceAt leaves. *)
LEMMA PlaceAtIs ==
  ASSUME NEW q \in Int, NEW s \in Seq(Int), NEW v \in Int, NEW cells, PlaceAt(q, Len(s), v, cells)
  PROVE  /\ mem' = Over(PushCells(q, s, v), Over(cells, mem))
         /\ mem' = Over(Over(PushCells(q, s, v), cells), mem)
         /\ regs' = Over(Over(Only(Now.dst, q), Only("slot", Spot(q, Len(s) + 1))), regs)
<1> DEFINE n == Len(s)
<1>1. q + WORD * n = Spot(q, n + 1)
  <2>1. n \in Nat
    OBVIOUS
  <2> HIDE DEF n
  <2> QED
    BY <2>1 DEF Spot, WORD
<1>2. mem' = Over(Over(PushCells(q, s, v), cells), mem)
  BY <1>1 DEF PlaceAt, Write, PushCells
<1>3. regs' = Over(Over(Only(Now.dst, q), Only("slot", Spot(q, n + 1))), regs)
  BY <1>1 DEF PlaceAt
<1> QED
  BY <1>2, <1>3, OverOver

(* There is room. *)
LEMMA PushInRoom ==
  ASSUME IInv, NEW p, NEW s, Holds(p, s), NEW v \in Int, HasRoom(p),
         PlaceAt(p, Length(p), v, << >>), Quiet
  PROVE  Pushed(p, s, v, p)
<1> DEFINE w == PushCells(p, s, v)
           c == Capacity(p)
           u == Append(s, v)
<1>1. /\ p \in Int /\ s \in Seq(Int) /\ Len(s) \in Nat /\ c \in Nat \ {0} /\ BlockFor(p, c) \in blocks
      /\ ListIn(mem, p, c, s)
  BY DEF Holds
<1>2. Length(p) = Len(s) /\ Len(s) < c
  BY <1>1 DEF HasRoom, ListIn, Length, Cell
<1>3. /\ mem' = Over(w, Over(<< >>, mem))
      /\ regs' = Over(Over(Only(Now.dst, p), Only("slot", Spot(p, Len(s) + 1))), regs)
  BY <1>1, <1>2, PlaceAtIs
<1>4. DOMAIN Over(<< >>, mem) = DOMAIN mem /\ \A a \in DOMAIN mem : Over(<< >>, mem)[a] = mem[a]
  <2>1. DOMAIN << >> = {}
    OBVIOUS
  <2> QED
    BY <2>1 DEF Over
<1>5. blocks' = blocks /\ Goes
  BY DEF Quiet, Goes, arenaVars, IInv, TypeOK, ChunksApart, NoneEmpty, WalksAChunk, BlocksInChunks,
         NothingBeyondNext, BlocksApart, Apart
<1>6. DOMAIN w = {p - WORD, Spot(p, Len(s) + 1)}
  BY <1>1, PushCellsAre
<1>7. u \in Seq(Int) /\ Len(u) = Len(s) + 1
  BY <1>1
<1> HIDE DEF w, c, u
<1>8. Holds(p, u)'
  <2> DEFINE m == Over(<< >>, mem)
  <2>1. ListIn(m, p, c, s)
    <3> HIDE DEF m
    <3>1. DOMAIN m = DOMAIN mem /\ \A a \in DOMAIN mem : m[a] = mem[a]
      BY <1>4 DEF m
    <3> QED
      BY <1>1, <3>1 DEF ListIn
  <2>2. mem' = Over(w, m)
    BY <1>3
  <2> HIDE DEF m
  <2>3. ListIn(mem', p, c, u)
    BY <1>1, <2>1, <2>2, OneMore DEF u, w
  <2>4. Capacity(p)' = c
    BY <2>3 DEF ListIn, Capacity, Cell
  <2> QED
    BY <1>1, <1>2, <1>5, <1>7, <2>3, <2>4 DEF Holds
<1>9. DOMAIN w \subseteq Cells(p, c)
  BY <1>1, <1>2, <1>6 DEF Cells
<1>10. mem' = Over(Over(w, << >>), mem)
  BY <1>3, OverOver
<1>11. DOMAIN Over(w, << >>) = DOMAIN w
  <2>1. DOMAIN << >> = {}
    OBVIOUS
  <2> QED
    BY <2>1 DEF Over
<1>12. ASSUME NEW r, NEW t, Holds(r, t), r # p PROVE Holds(r, t)'
  <2>1. Cells(p, c) \cap Cells(r, Len(t)) = {}
    BY <1>12, ListsApart DEF c
  <2>2. BlockFor(r, Capacity(r)) \in blocks'
    BY <1>5, <1>12 DEF Holds
  <2> DEFINE x == Over(w, << >>)
  <2>3. mem' = Over(x, mem) /\ DOMAIN x \cap Cells(r, Len(t)) = {}
    BY <1>9, <1>10, <1>11, <2>1
  <2> HIDE DEF x
  <2> QED
    BY <1>12, <2>2, <2>3, Untouched
<1>13. OthersStay(p, p)
  BY <1>12 DEF OthersStay
<1> QED
  BY <1>3, <1>5, <1>8, <1>13 DEF Pushed, u

(* There is none, and the block is made longer. *)
LEMMA PushGrows ==
  ASSUME IInv, NEW p, NEW s, Holds(p, s), NEW v \in Int,
         Grow(OwnBlock(p), ListBytes(Doubled(p))), PlaceAt(p, Length(p), v, Grown(p))
  PROVE  Pushed(p, s, v, p)
<1> DEFINE w == PushCells(p, s, v)
           c == Capacity(p)
           d == Doubled(p)
           u == Append(s, v)
           g == Grown(p)
           b == BlockFor(p, c)
           e == BlockFor(p, d)
           n == ListBytes(d)
<1>1. /\ p \in Int /\ s \in Seq(Int) /\ Len(s) \in Nat /\ c \in Nat \ {0} /\ b \in blocks
      /\ ListIn(mem, p, c, s) /\ Len(s) <= c
  BY DEF Holds
<1>2. Length(p) = Len(s)
  BY <1>1 DEF ListIn, Length, Cell
<1>3. d = 2 * c /\ d \in Nat \ {0} /\ Len(s) < d
  BY <1>1 DEF Doubled
<1>4. n \in Nat \ {0}
  BY <1>3, RoomIs
<1>5. IInv'
  <2>1. Grow(b, n)
    BY DEF OwnBlock
  <2> HIDE DEF b, n
  <2> QED
    BY <1>1, <1>4, <2>1, GrowKeeps
<1>6. blocks' = (blocks \ {b}) \cup {e} /\ aborted' = aborted
  BY DEF OwnBlock, Grow, Resize, BlockFor
<1>7. Goes
  BY <1>5, <1>6 DEF Goes
<1>8. /\ mem' = Over(w, Over(g, mem)) /\ mem' = Over(Over(w, g), mem)
      /\ regs' = Over(Over(Only(Now.dst, p), Only("slot", Spot(p, Len(s) + 1))), regs)
  BY <1>1, <1>2, PlaceAtIs
<1>9. DOMAIN g = {p - LIST_HEADER} /\ g[p - LIST_HEADER] = d
  BY OnlyIs DEF Grown
<1>10. DOMAIN w = {p - WORD, Spot(p, Len(s) + 1)}
  BY <1>1, PushCellsAre
<1>11. u \in Seq(Int) /\ Len(u) = Len(s) + 1
  BY <1>1
<1>12. b.start = p - LIST_HEADER /\ e.start = p - LIST_HEADER
  BY DEF BlockFor
<1> HIDE DEF w, c, d, u, g, n
<1>13. Holds(p, u)'
  <2> DEFINE m == Over(g, mem)
  <2>1. /\ DOMAIN m = DOMAIN g \cup DOMAIN mem /\ m[p - LIST_HEADER] = d
        /\ \A a \in DOMAIN mem : a # p - LIST_HEADER => m[a] = mem[a]
    BY <1>9 DEF Over
  <2>2. /\ p - WORD # p - LIST_HEADER
        /\ \A k \in 1 .. Len(s) : Spot(p, k) # p - LIST_HEADER
    BY <1>1 DEF Spot, WORD, LIST_HEADER
  <2> HIDE DEF m
  <2>3. ListIn(m, p, d, s)
    BY <1>1, <1>9, <2>1, <2>2 DEF ListIn
  <2>4. mem' = Over(w, m)
    BY <1>8 DEF m
  <2>5. ListIn(mem', p, d, u)
    BY <1>1, <2>3, <2>4, OneMore DEF u, w
  <2>6. Capacity(p)' = d
    BY <2>5 DEF ListIn, Capacity, Cell
  <2>7. e \in blocks' /\ Len(u) <= d
    BY <1>1, <1>3, <1>6, <1>11
  <2> QED
    BY <1>1, <1>3, <1>11, <2>5, <2>6, <2>7 DEF Holds
<1>14. DOMAIN Over(w, g) \subseteq Cells(p, d)
  <2>1. DOMAIN Over(w, g) = DOMAIN w \cup DOMAIN g
    BY DEF Over
  <2>2. Len(s) + 1 \in 1 .. d
    BY <1>1, <1>3
  <2> QED
    BY <1>9, <1>10, <2>1, <2>2 DEF Cells
<1>15. ASSUME NEW r, NEW t, Holds(r, t), r # p PROVE Holds(r, t)'
  <2> DEFINE f == BlockFor(r, Capacity(r))
  <2>1. /\ r \in Int /\ Capacity(r) \in Nat \ {0} /\ Len(t) \in Nat /\ Len(t) <= Capacity(r)
        /\ f \in blocks
    BY <1>15 DEF Holds
  <2>2. f.start = r - LIST_HEADER
    BY DEF BlockFor
  <2>3. f \in blocks'
    <3>1. f # b
      <4> HIDE DEF f, b
      <4> QED
        BY <1>1, <1>12, <1>15, <2>1, <2>2 DEF LIST_HEADER
    <3> HIDE DEF f, b
    <3> QED
      BY <1>6, <2>1, <3>1
  <2>4. Cells(p, d) \cap Cells(r, Len(t)) = {}
    <3>1. blocks' \in SUBSET Block /\ \A x, y \in blocks' : x # y => Apart(x, y)
      BY <1>5 DEF IInv, TypeOK, BlocksApart, Apart
    <3>2. BlockFor(p, d) \in blocks'
      BY <1>6
    <3> QED
      BY <1>1, <1>3, <1>15, <2>1, <2>3, <3>1, <3>2, CellsApart
  <2> DEFINE x == Over(w, g)
  <2>5. mem' = Over(x, mem) /\ DOMAIN x \cap Cells(r, Len(t)) = {}
    BY <1>8, <1>14, <2>4
  <2> HIDE DEF x
  <2> QED
    BY <1>15, <2>3, <2>5, Untouched
<1>16. OthersStay(p, p)
  BY <1>15 DEF OthersStay
<1> QED
  BY <1>7, <1>8, <1>13, <1>16 DEF Pushed, u

(* There is none, and the list moves. *)
LEMMA PushMoves ==
  ASSUME IInv, NEW p, NEW s, Holds(p, s), NEW v \in Int, NEW q \in Int,
         Hand(ListBytes(Doubled(p)), q - LIST_HEADER),
         PlaceAt(q, Length(p), v, Over(Elements(q, p, Length(p)), Header(q, Doubled(p), Length(p))))
  PROVE  Pushed(p, s, v, q)
<1> DEFINE c == Capacity(p)
           d == Doubled(p)
           u == Append(s, v)
           x == PushCells(q, s, v)
           e == Elements(q, p, Len(s))
           h == Header(q, d, Len(s))
           m == Over(e, h)
           w == Over(x, m)
<1>1. /\ p \in Int /\ s \in Seq(Int) /\ Len(s) \in Nat /\ c \in Nat \ {0}
      /\ ListIn(mem, p, c, s) /\ Len(s) <= c
  BY DEF Holds
<1>2. Length(p) = Len(s)
  BY <1>1 DEF ListIn, Length, Cell
<1>3. d = 2 * c /\ d \in Nat \ {0} /\ Len(s) < d /\ Len(s) <= d /\ d \in Nat
  BY <1>1 DEF Doubled
<1>4. /\ mem' = Over(w, mem)
      /\ regs' = Over(Over(Only(Now.dst, q), Only("slot", Spot(q, Len(s) + 1))), regs)
  BY <1>1, <1>2, PlaceAtIs
<1>5. AreAt(e, q, s)
  BY ElementsAre
<1>6. DOMAIN x = {q - WORD, Spot(q, Len(s) + 1)}
  BY <1>1, PushCellsAre
<1>7. u \in Seq(Int) /\ Len(u) = Len(s) + 1
  BY <1>1
<1>8. Hand(ListBytes(d), q - LIST_HEADER)
  OBVIOUS
<1> HIDE DEF c, d, u, x, e, h, m, w
<1>9. ListIn(m, q, d, s) /\ DOMAIN m \subseteq Cells(q, d)
  <2>1. DOMAIN e \subseteq {Spot(q, k) : k \in 1 .. d}
    BY <1>1, <1>3, <1>5 DEF AreAt
  <2>2. \A k \in 1 .. Len(s) : Spot(q, k) \in DOMAIN e /\ e[Spot(q, k)] = s[k]
    BY <1>5 DEF AreAt
  <2>3. m = Over(e, Header(q, d, Len(s)))
    BY DEF m, h
  <2> QED
    BY <1>1, <1>3, <2>1, <2>2, <2>3, HeaderAnd
<1>10. ListIn(w, q, d, u)
  BY <1>1, <1>9, OneMore DEF w, u, x
<1>11. DOMAIN w \subseteq Cells(q, d)
  <2>1. DOMAIN w = DOMAIN x \cup DOMAIN m
    BY DEF w, Over
  <2>2. Len(s) + 1 \in 1 .. d
    BY <1>1, <1>3
  <2> QED
    BY <1>6, <1>9, <2>1, <2>2 DEF Cells
<1>12. Len(u) <= d
  BY <1>1, <1>3, <1>7
<1>13. /\ IInv' /\ aborted' = aborted /\ Holds(q, u)'
       /\ \A r, t : Holds(r, t) /\ Cells(r, Len(t)) \cap (DOMAIN w \ Cells(q, d)) = {}
                    => Holds(r, t)' /\ r # q
  BY <1>3, <1>4, <1>7, <1>8, <1>10, <1>12, FreshList
<1>14. DOMAIN w \ Cells(q, d) = {}
  BY <1>11
<1>15. OthersStay(p, q)
  BY <1>13, <1>14 DEF OthersStay
<1> QED
  BY <1>4, <1>13, <1>15 DEF Pushed, u, Goes

(* What list_room and the store behind it leave. *)
LEMMA PushIs ==
  ASSUME IInv, NEW p, NEW s, Holds(p, s), NEW v \in Int, Room(p, v)
  PROVE  \E q \in Int : Pushed(p, s, v, q)
<1>1. p \in Int
  BY DEF Holds
<1>2. CASE HasRoom(p) /\ PlaceAt(p, Length(p), v, << >>) /\ Quiet
  BY <1>1, <1>2, PushInRoom
<1>3. CASE /\ Grow(OwnBlock(p), ListBytes(Doubled(p))) /\ PlaceAt(p, Length(p), v, Grown(p))
  BY <1>1, <1>3, PushGrows
<1>4. ASSUME NEW q \in Places, Hand(ListBytes(Doubled(p)), q - LIST_HEADER),
             PlaceAt(q, Length(p), v, Over(Elements(q, p, Length(p)), Header(q, Doubled(p), Length(p))))
      PROVE  \E r \in Int : Pushed(p, s, v, r)
  <2>1. q \in Int
    BY ArenaAssumption DEF Places, LIST_HEADER, IInv, TypeOK, Address
  <2> QED
    BY <1>4, <2>1, PushMoves
<1> QED
  BY <1>2, <1>3, <1>4 DEF Room

-----------------------------------------------------------------------------
(* A name is <<v, 0>>, for the list of the variable v, or <<v, k>>, for the  *)
(* k-th of those inside it.  A says at which address each is, M what is in  *)
(* it: for a list of objects, the addresses of theirs.  A name that is not  *)
(* used any more may stay.                                                  *)
At(f, n, v) == Over(Only(n, v), f)

(* Every name has a list of its own. *)
World(A, M) ==
    /\ DOMAIN M = DOMAIN A
    /\ \A n \in DOMAIN A : Holds(A[n], M[n])
    /\ \A n, m \in DOMAIN A : A[n] = A[m] => n = m

(* g is f with one thing changed. *)
Changed(g, f, n, v) ==
    /\ DOMAIN g = DOMAIN f \cup {n}
    /\ g[n] = v
    /\ \A m \in DOMAIN f : m # n => g[m] = f[m]

(* One thing of a function changed. *)
LEMMA AtIs ==
  ASSUME NEW f, NEW n, NEW v
  PROVE  Changed(At(f, n, v), f, n, v)
  BY DEF At, Over, Only, Changed

(* Nothing happens to memory. *)
LEMMA WorldStays ==
  ASSUME NEW A, NEW M, World(A, M), mem' = mem, blocks' = blocks
  PROVE  World(A, M)'
<1>1. ASSUME NEW q, NEW t, Holds(q, t) PROVE Holds(q, t)'
  BY <1>1 DEF Holds, ListIn, Capacity, Cell, BlockFor
<1> QED
  BY <1>1 DEF World

(* The arena goes on where nothing is asked of it. *)
LEMMA QuietGoes ==
  ASSUME IInv, Quiet
  PROVE  Goes /\ blocks' = blocks
  BY DEF Quiet, Goes, arenaVars, IInv, TypeOK, ChunksApart, NoneEmpty, WalksAChunk, BlocksInChunks,
         NothingBeyondNext, BlocksApart, Apart

(* A new list gets a name, which another may have had. *)
LEMMA WorldNew ==
  ASSUME NEW A, NEW M, World(A, M), NEW p, NEW s, Holds(p, s)', AllStay(p), NEW n
  PROVE  World(At(A, n, p), At(M, n, s))'
<1> DEFINE B == At(A, n, p)
           N == At(M, n, s)
<1>0. Changed(B, A, n, p) /\ Changed(N, M, n, s)
  BY AtIs
<1> HIDE DEF B, N
<1>1. /\ DOMAIN B = DOMAIN A \cup {n} /\ B[n] = p
      /\ \A m \in DOMAIN A : m # n => B[m] = A[m]
      /\ DOMAIN N = DOMAIN M \cup {n} /\ N[n] = s
      /\ \A m \in DOMAIN M : m # n => N[m] = M[m]
  BY <1>0 DEF Changed
<1>2. ASSUME NEW m \in DOMAIN A, m # n PROVE Holds(B[m], N[m])' /\ B[m] # p
  <2>1. Holds(A[m], M[m]) /\ B[m] = A[m] /\ N[m] = M[m]
    BY <1>1, <1>2 DEF World
  <2>2. Holds(A[m], M[m])' /\ A[m] # p
    BY <2>1 DEF AllStay
  <2> QED
    BY <2>1, <2>2
<1>3. DOMAIN N = DOMAIN B
  BY <1>1 DEF World
<1>4. \A m \in DOMAIN B : Holds(B[m], N[m])'
  BY <1>1, <1>2
<1>5. \A k, m \in DOMAIN B : B[k] = B[m] => k = m
  BY <1>1, <1>2 DEF World
<1> QED
  BY <1>3, <1>4, <1>5 DEF World, B, N

(* What a name has in it changes, and with it perhaps where it is. *)
LEMMA WorldMoves ==
  ASSUME NEW A, NEW M, World(A, M), NEW n \in DOMAIN A, NEW q, NEW t, Holds(q, t)', OthersStay(A[n], q)
  PROVE  World(At(A, n, q), At(M, n, t))'
<1> DEFINE B == At(A, n, q)
           N == At(M, n, t)
<1>0. Changed(B, A, n, q) /\ Changed(N, M, n, t)
  BY AtIs
<1> HIDE DEF B, N
<1>1. /\ DOMAIN B = DOMAIN A \cup {n} /\ B[n] = q
      /\ \A m \in DOMAIN A : m # n => B[m] = A[m]
      /\ DOMAIN N = DOMAIN M \cup {n} /\ N[n] = t
      /\ \A m \in DOMAIN M : m # n => N[m] = M[m]
  BY <1>0 DEF Changed
<1>2. ASSUME NEW m \in DOMAIN A, m # n PROVE Holds(B[m], N[m])' /\ B[m] # q
  <2>1. Holds(A[m], M[m]) /\ B[m] = A[m] /\ N[m] = M[m] /\ A[m] # A[n]
    BY <1>1, <1>2 DEF World
  <2>2. Holds(A[m], M[m])' /\ A[m] # q
    BY <2>1 DEF OthersStay
  <2> QED
    BY <2>1, <2>2
<1>3. DOMAIN N = DOMAIN B
  BY <1>1 DEF World
<1>4. \A m \in DOMAIN B : Holds(B[m], N[m])'
  BY <1>1, <1>2
<1>5. \A k, m \in DOMAIN B : B[k] = B[m] => k = m
  BY <1>1, <1>2 DEF World
<1> QED
  BY <1>3, <1>4, <1>5 DEF World, B, N

(* Where it is does not change. *)
LEMMA WorldWritten ==
  ASSUME NEW A, NEW M, World(A, M), NEW n \in DOMAIN A, NEW t, Holds(A[n], t)',
         \A r, s : Holds(r, s) /\ r # A[n] => Holds(r, s)'
  PROVE  World(A, At(M, n, t))'
<1> DEFINE N == At(M, n, t)
<1>0. Changed(N, M, n, t)
  BY AtIs
<1> HIDE DEF N
<1>1. /\ DOMAIN N = DOMAIN M \cup {n} /\ N[n] = t
      /\ \A m \in DOMAIN M : m # n => N[m] = M[m]
  BY <1>0 DEF Changed
<1>2. ASSUME NEW m \in DOMAIN A, m # n PROVE Holds(A[m], N[m])'
  <2>1. Holds(A[m], M[m]) /\ N[m] = M[m] /\ A[m] # A[n]
    BY <1>1, <1>2 DEF World
  <2> QED
    BY <2>1
<1>3. DOMAIN N = DOMAIN A
  BY <1>1 DEF World
<1>4. \A m \in DOMAIN A : Holds(A[m], N[m])'
  BY <1>1, <1>2
<1> QED
  BY <1>3, <1>4 DEF World, N

(* One name's list is written, and a new one gets another name. *)
LEMMA WorldGiven ==
  ASSUME NEW A, NEW M, World(A, M), NEW n \in DOMAIN A, NEW t, Holds(A[n], t)',
         NEW p, NEW s, Holds(p, s)', p # A[n], OthersStay(A[n], p), NEW m, m # n
  PROVE  World(At(A, m, p), At(At(M, n, t), m, s))'
<1> DEFINE B == At(A, m, p)
           L == At(M, n, t)
           N == At(L, m, s)
<1>0. Changed(B, A, m, p) /\ Changed(L, M, n, t) /\ Changed(N, L, m, s)
  BY AtIs
<1> HIDE DEF B, L, N
<1>1. /\ DOMAIN B = DOMAIN A \cup {m} /\ B[m] = p
      /\ \A k \in DOMAIN A : k # m => B[k] = A[k]
      /\ DOMAIN L = DOMAIN M \cup {n} /\ L[n] = t
      /\ \A k \in DOMAIN M : k # n => L[k] = M[k]
      /\ DOMAIN N = DOMAIN L \cup {m} /\ N[m] = s
      /\ \A k \in DOMAIN L : k # m => N[k] = L[k]
  BY <1>0 DEF Changed
<1>2. ASSUME NEW k \in DOMAIN A, k # m PROVE Holds(B[k], N[k])' /\ B[k] # p
  <2>1. CASE k = n
    BY <1>1, <1>2, <2>1
  <2>2. CASE k # n
    <3>1. Holds(A[k], M[k]) /\ B[k] = A[k] /\ N[k] = M[k] /\ A[k] # A[n]
      BY <1>1, <1>2, <2>2 DEF World
    <3>2. Holds(A[k], M[k])' /\ A[k] # p
      BY <3>1 DEF OthersStay
    <3> QED
      BY <3>1, <3>2
  <2> QED
    BY <2>1, <2>2
<1>3. DOMAIN N = DOMAIN B
  BY <1>1 DEF World
<1>4. \A k \in DOMAIN B : Holds(B[k], N[k])'
  BY <1>1, <1>2
<1>5. \A k, j \in DOMAIN B : B[k] = B[j] => k = j
  BY <1>1, <1>2 DEF World
<1> QED
  BY <1>3, <1>4, <1>5 DEF World, B, L, N

-----------------------------------------------------------------------------
(* Two parts of code behind each other. *)
Vars == Numbered \cup {"bags", "more"}
Roots == Vars \cup {"p"}
Ops == {"new", "clone", "fixup", "push", "pushat", "const", "copy", "elem", "get", "put"}
Registers == Roots \cup {"", "at", "t", "u", "r", "slot", "held"}
Instrs == [op : Ops, dst : Registers, src : Registers, n : Int, deep : BOOLEAN]

(* i is what runs now, and rest comes after it. *)
Runs(i, rest) == code # << >> /\ Head(code) = i /\ Tail(code) = rest /\ rest \in Seq(Instrs)

(* Which registers there are. *)
LEMMA AreRegisters ==
  /\ "" \in Registers /\ "at" \in Registers /\ "t" \in Registers /\ "u" \in Registers /\ "r" \in Registers
  /\ "slot" \in Registers /\ "held" \in Registers /\ "bags" \in Registers /\ "p" \in Registers
  /\ \A v \in Numbered : v \in Registers /\ v \in Roots /\ v \in Vars
  /\ \A v \in Readable : v \in Registers /\ v \in Roots
  /\ \A v \in Vars : v \in Registers /\ v \in Roots
  /\ \A v \in Roots : v \in Registers
  BY DEF Registers, Roots, Vars, Numbered, Readable

(* And which instructions. *)
LEMMA IsInstr ==
  ASSUME NEW dst, dst \in Registers, NEW src, src \in Registers, NEW n, n \in Int
  PROVE  /\ Instr("new", dst, src, n, FALSE) \in Instrs /\ Instr("const", dst, src, n, FALSE) \in Instrs
         /\ Instr("copy", dst, src, n, FALSE) \in Instrs /\ Instr("elem", dst, src, n, FALSE) \in Instrs
         /\ Instr("get", dst, src, n, FALSE) \in Instrs /\ Instr("put", dst, src, n, FALSE) \in Instrs
         /\ Instr("clone", dst, src, n, FALSE) \in Instrs /\ Instr("clone", dst, src, n, TRUE) \in Instrs
         /\ Instr("push", dst, src, n, FALSE) \in Instrs /\ Instr("push", dst, src, n, TRUE) \in Instrs
         /\ Instr("pushat", dst, src, n, TRUE) \in Instrs /\ Instr("fixup", dst, src, n, FALSE) \in Instrs
  BY DEF Instr, Instrs, Ops

(* Those with no number. *)
LEMMA IsPlainInstr ==
  ASSUME NEW dst, dst \in Registers, NEW src, src \in Registers
  PROVE  /\ Instr("new", dst, src, 0, FALSE) \in Instrs /\ Instr("const", dst, src, 0, FALSE) \in Instrs
         /\ Instr("copy", dst, src, 0, FALSE) \in Instrs /\ Instr("elem", dst, src, 0, FALSE) \in Instrs
         /\ Instr("get", dst, src, 0, FALSE) \in Instrs /\ Instr("put", dst, src, 0, FALSE) \in Instrs
         /\ Instr("clone", dst, src, 0, FALSE) \in Instrs /\ Instr("clone", dst, src, 0, TRUE) \in Instrs
         /\ Instr("push", dst, src, 0, FALSE) \in Instrs /\ Instr("push", dst, src, 0, TRUE) \in Instrs
         /\ Instr("pushat", dst, src, 0, TRUE) \in Instrs /\ Instr("fixup", dst, src, 0, FALSE) \in Instrs
  BY DEF Instr, Instrs, Ops

(* An instruction in front of others. *)
LEMMA InFront ==
  ASSUME NEW i \in Instrs, NEW r \in Seq(Instrs)
  PROVE  /\ <<i>> \o r \in Seq(Instrs) /\ <<i>> \o r # << >>
         /\ Head(<<i>> \o r) = i /\ Tail(<<i>> \o r) = r
         /\ << >> \o r = r
<1> DEFINE s == <<i>> \o r
<1>1. <<i>> \in Seq(Instrs) /\ Len(<<i>>) = 1 /\ <<i>>[1] = i
  OBVIOUS
<1>2. /\ s \in Seq(Instrs) /\ Len(s) = 1 + Len(r) /\ s[1] = i
      /\ \A k \in 1 .. Len(r) : s[1 + k] = r[k]
  BY <1>1
<1>3. Len(r) \in Nat
  OBVIOUS
<1> HIDE DEF s
<1>4. s # << >> /\ Head(s) = i
  BY <1>2, <1>3
<1>5. Tail(s) \in Seq(Instrs) /\ Len(Tail(s)) = Len(r) /\ \A k \in 1 .. Len(r) : Tail(s)[k] = s[k + 1]
  BY <1>2, <1>3, <1>4
<1>6. Tail(s) = r
  <2> DEFINE u == Tail(s)
  <2>1. u \in Seq(Instrs) /\ r \in Seq(Instrs) /\ Len(u) = Len(r) /\ \A k \in 1 .. Len(r) : u[k] = r[k]
    BY <1>2, <1>3, <1>5
  <2> HIDE DEF u
  <2>2. u = r
    BY <2>1, SameElements
  <2> QED
    BY <2>2 DEF u
<1>7. << >> \o r = r
  <2> DEFINE u == << >> \o r
  <2>1. u \in Seq(Instrs) /\ Len(u) = Len(r) /\ \A k \in 1 .. Len(r) : u[k] = r[k]
    OBVIOUS
  <2> HIDE DEF u
  <2>2. u = r
    BY <2>1, SameElements
  <2> QED
    BY <2>2 DEF u
<1> QED
  BY <1>2, <1>4, <1>6, <1>7 DEF s

(* Two instructions in front of others. *)
LEMMA TwoInFront ==
  ASSUME NEW i \in Instrs, NEW j \in Instrs, NEW r \in Seq(Instrs)
  PROVE  /\ <<i, j>> \o r = <<i>> \o (<<j>> \o r)
         /\ <<i, j>> \in Seq(Instrs)
<1> DEFINE a == <<i>> \o <<j>>
           b == <<i, j>>
<1>1. a = b
  <2>1. a \in Seq(Instrs) /\ Len(a) = 2 /\ a[1] = i /\ a[2] = j
    BY InFront
  <2>2. b \in Seq(Instrs) /\ Len(b) = 2 /\ b[1] = i /\ b[2] = j
    OBVIOUS
  <2> HIDE DEF a, b
  <2>3. \A k \in 1 .. Len(a) : a[k] = b[k]
    BY <2>1, <2>2
  <2> QED
    BY <2>1, <2>2, <2>3, SameElements
<1>2. <<i>> \in Seq(Instrs) /\ <<j>> \in Seq(Instrs)
  OBVIOUS
<1>3. Regroups(<<i>>, <<j>>, r)
  BY <1>2, ConcatAssociates
<1>4. <<i, j>> \o r = <<i>> \o (<<j>> \o r)
  BY <1>1, <1>3 DEF Regroups
<1>5. <<i, j>> \in Seq(Instrs)
  OBVIOUS
<1> QED
  BY <1>4, <1>5

(* Three. *)
LEMMA ThreeInFront ==
  ASSUME NEW i \in Instrs, NEW j \in Instrs, NEW k \in Instrs, NEW r \in Seq(Instrs)
  PROVE  /\ <<i, j, k>> \o r = <<i>> \o (<<j>> \o (<<k>> \o r))
         /\ <<i, j, k>> \in Seq(Instrs)
<1> DEFINE a == <<i>> \o <<j, k>>
           b == <<i, j, k>>
<1>1. a = b
  <2>1. a \in Seq(Instrs) /\ Len(a) = 3 /\ a[1] = i /\ a[2] = j /\ a[3] = k
    OBVIOUS
  <2>2. b \in Seq(Instrs) /\ Len(b) = 3 /\ b[1] = i /\ b[2] = j /\ b[3] = k
    OBVIOUS
  <2> HIDE DEF a, b
  <2>3. \A l \in 1 .. Len(a) : a[l] = b[l]
    BY <2>1, <2>2
  <2> QED
    BY <2>1, <2>2, <2>3, SameElements
<1>2. <<i>> \in Seq(Instrs) /\ <<j, k>> \in Seq(Instrs)
  OBVIOUS
<1>3. Regroups(<<i>>, <<j, k>>, r)
  BY <1>2, ConcatAssociates
<1>4. <<i, j, k>> \o r = <<i>> \o (<<j>> \o (<<k>> \o r))
  BY <1>1, <1>3, TwoInFront DEF Regroups
<1>5. <<i, j, k>> \in Seq(Instrs)
  OBVIOUS
<1> QED
  BY <1>4, <1>5

(* Parts of code are joined from the first. *)
LEMMA FirstPart ==
  ASSUME NEW ss \in Seq(Seq(Instrs)), NEW tt \in Seq(Seq(Instrs)), Len(ss) = Len(tt) + 1,
         \A k \in 1 .. Len(tt) : tt[k] = ss[k + 1]
  PROVE  /\ FlattenSeq(ss) = ss[1] \o FlattenSeq(tt)
         /\ ss[1] \in Seq(Instrs) /\ FlattenSeq(tt) \in Seq(Instrs)
<1> DEFINE h == ss[1]
           one == <<h>>
           u == one \o tt
<1>1. Len(tt) \in Nat /\ Len(ss) \in Nat /\ h \in Seq(Instrs)
  BY DEF h
<1>2. one \in Seq(Seq(Instrs)) /\ Len(one) = 1 /\ one[1] = h
  BY <1>1
<1> HIDE DEF one, h
<1>3. /\ u \in Seq(Seq(Instrs)) /\ Len(u) = Len(tt) + 1 /\ u[1] = h
      /\ \A k \in 1 .. Len(tt) : u[k + 1] = tt[k]
  <2> DEFINE S == Seq(Instrs)
  <2>0. one \in Seq(S) /\ tt \in Seq(S)
    BY <1>2
  <2> HIDE DEF S
  <2>1. /\ u \in Seq(S) /\ Len(u) = Len(one) + Len(tt)
        /\ \A i \in 1 .. Len(one) : u[i] = one[i]
        /\ \A i \in 1 .. Len(tt) : u[Len(one) + i] = tt[i]
    BY ONLY <2>0
  <2> HIDE DEF u
  <2>2. u \in Seq(Seq(Instrs))
    BY <2>1 DEF S
  <2> QED
    BY <1>1, <1>2, <2>1, <2>2
<1> HIDE DEF u
<1>4. u = ss
  <2>1. ASSUME NEW k \in 1 .. Len(u) PROVE u[k] = ss[k]
    <3>1. CASE k = 1
      BY <1>3, <3>1 DEF h
    <3>2. CASE k # 1
      <4>1. k - 1 \in 1 .. Len(tt) /\ k = (k - 1) + 1
        BY <1>1, <1>3, <3>2
      <4> QED
        BY <1>3, <4>1
    <3> QED
      BY <3>1, <3>2
  <2> QED
    BY <1>3, <2>1, SameElements
<1>5. FlattenSeq(u) = FlattenSeq(one) \o FlattenSeq(tt)
  BY <1>2, FlattenConcat DEF u
<1>6. FlattenSeq(one) = h
  BY <1>1, FlattenOne DEF one
<1>7. FlattenSeq(tt) \in Seq(Instrs)
  BY FlattenAppend
<1> QED
  BY <1>1, <1>4, <1>5, <1>6, <1>7 DEF h

-----------------------------------------------------------------------------
(* What the names stand for. *)
InReg(r, n, A) == r \in DOMAIN regs /\ n \in DOMAIN A /\ regs[r] = A[n]

(* The k-th element of v is what it is to be. *)
Done(v, k, A, M) ==
    IF HoldsLists(v)
    THEN <<v, k>> \in DOMAIN A /\ M[<<v, 0>>][k] = A[<<v, k>>] /\ M[<<v, k>>] = want[v][k]
    ELSE M[<<v, 0>>][k] = want[v][k]

(* All those not in S are. *)
Rough(v, S, A, M) ==
    /\ <<v, 0>> \in DOMAIN A /\ Len(M[<<v, 0>>]) = Len(want[v])
    /\ \A k \in (1 .. Len(want[v])) \ S : Done(v, k, A, M)

Good(v, A, M) == InReg(v, <<v, 0>>, A) /\ Rough(v, {}, A, M)

LentGood(A) == lent # "nothing" => lent \in Numbered \cap DOMAIN regs /\ InReg("p", <<lent, 0>>, A)

(* Every variable but x is what it is to be ... *)
Frame(x, A, M) ==
    /\ x \in Vars /\ World(A, M) /\ LentGood(A)
    /\ \A v \in (Vars \cap DOMAIN regs) \ {x} : Good(v, A, M)

(* ... and x too, but for its elements in S ... *)
Whole(x, S, A, M) ==
    /\ Frame(x, A, M) /\ InReg(x, <<x, 0>>, A) /\ Rough(x, S, A, M)
    /\ S \subseteq 1 .. Len(want[x])

(* ... or one to come. *)
Short(x, A, M) ==
    /\ Frame(x, A, M) /\ lent # x /\ InReg(x, <<x, 0>>, A)
    /\ Len(want[x]) = Len(M[<<x, 0>>]) + 1
    /\ \A k \in 1 .. Len(M[<<x, 0>>]) : Done(x, k, A, M)

(* Nothing is left to do. *)
Clean(A, M) ==
    /\ World(A, M) /\ LentGood(A)
    /\ \A v \in Vars \cap DOMAIN regs : Good(v, A, M)

(* At e there is what the k-th element of x is to be, under a name that is  *)
(* none of those for the elements in T.                                     *)
Borrowed(e, x, k, T, A, M) ==
    \E m \in DOMAIN A : /\ m # <<x, 0>> /\ \A j \in T \ {k} : m # <<x, j>>
                        /\ e = A[m] /\ M[m] = want[x][k]

(* The list n is one to copy into x. *)
Source(x, n, A, M) ==
    /\ n \in DOMAIN A
    /\ IF HoldsLists(x)
       THEN /\ Len(M[n]) = Len(want[x])
            /\ \A k \in 1 .. Len(want[x]) : Borrowed(M[n][k], x, k, 1 .. Len(want[x]), A, M)
       ELSE M[n] = want[x]

-----------------------------------------------------------------------------
(* The code that is left. *)
ItemPart(r, es, k) == <<Instr("elem", "at", r, k - 1, FALSE)>> \o ItemCode(es[k], "at")
ItemParts(r, es, j) == FlattenSeq([k \in 1 .. Len(es) - j |-> ItemPart(r, es, j + k)])
CopyPart(x, k) == <<Instr("elem", "at", x, k - 1, FALSE), Instr("fixup", "at", "", 0, FALSE)>>
CopyParts(x, n, j) == FlattenSeq([k \in 1 .. n - j |-> CopyPart(x, j + k)])

(* The item e is what the k-th element of x is to be. *)
Meant(x, k, e) ==
    \/ /\ x \in Numbered /\ e = Num(e.n) /\ e.n \in Int /\ want[x][k] = e.n
    \/ /\ x \in Numbered /\ e = HeadOf(e.name) /\ e.name \in Readable /\ Known(e.name)
       /\ Named(e.name) # x /\ want[Named(e.name)] # << >>
       /\ want[x][k] = Head(want[Named(e.name)])
    \/ /\ HoldsLists(x) /\ e = BagOf(e.name) /\ e.name \in Numbered /\ Known(e.name)
       /\ want[x][k] = want[e.name]

(* rest makes the elements of x in S what they are to be: they are those of *)
(* a literal, or copied ones.                                               *)
Literally(x, S, rest, A) ==
    \E r \in Roots : \E es, j :
       /\ es \in Seq(ToSet(es)) /\ j \in 0 .. Len(es) /\ InReg(r, <<x, 0>>, A)
       /\ S = (j + 1) .. Len(es) /\ rest = ItemParts(r, es, j)
       /\ \A k \in S : Meant(x, k, es[k])
ByCopying(x, S, T, rest, A, M) ==
    \E n \in Nat : \E j \in 0 .. n :
       /\ HoldsLists(x)
       /\ S = (j + 1) .. n /\ rest = CopyParts(x, n, j)
       /\ \A k \in S : Borrowed(M[<<x, 0>>][k], x, k, T, A, M)
Ahead(x, S, T, rest, A, M) == Literally(x, S, rest, A) \/ ByCopying(x, S, T, rest, A, M)

(* What an item is made of. *)
LEMMA ItemsAre ==
  ASSUME NEW e
  PROVE  /\ e = Num(e.n) => e.kind = "num" /\ e.name = ""
         /\ e = HeadOf(e.name) => e.kind = "head"
         /\ e = BagOf(e.name) => e.kind = "bag"
<1>1. ASSUME e = Num(e.n) PROVE e.kind = "num" /\ e.name = ""
  <2> DEFINE n == e.n
  <2>1. e = Num(n)
    BY <1>1
  <2> HIDE DEF n
  <2> QED
    BY <2>1 DEF Num, Item
<1>2. ASSUME NEW v, e = HeadOf(v) PROVE e.kind = "head"
  BY <1>2 DEF HeadOf, Item
<1>3. ASSUME NEW v, e = BagOf(v) PROVE e.kind = "bag"
  BY <1>3 DEF BagOf, Item
<1> QED
  BY <1>1, <1>2, <1>3

(* An item's code. *)
LEMMA ItemCodeIs ==
  ASSUME NEW e
  PROVE  /\ e.kind = "num" => ItemCode(e, "at") =
               <<Instr("const", "t", "", e.n, FALSE), Instr("put", "at", "t", 0, FALSE)>>
         /\ e.kind = "head" => ItemCode(e, "at") =
               <<Instr("elem", "u", e.name, 0, FALSE), Instr("get", "t", "u", 0, FALSE),
                 Instr("put", "at", "t", 0, FALSE)>>
         /\ e.kind = "bag" => ItemCode(e, "at") =
               <<Instr("put", "at", e.name, 0, FALSE), Instr("fixup", "at", "", 0, FALSE)>>
  BY Zenon DEF ItemCode

(* It is code. *)
LEMMA ItemIsCode ==
  ASSUME NEW x, NEW k, NEW e, Meant(x, k, e)
  PROVE  ItemCode(e, "at") \in Seq(Instrs)
<1>1. CASE e = Num(e.n) /\ e.n \in Int
  <2> DEFINE i == Instr("const", "t", "", e.n, FALSE)
             j == Instr("put", "at", "t", 0, FALSE)
  <2>1. ItemCode(e, "at") = <<i, j>>
    BY <1>1, ItemsAre, ItemCodeIs
  <2>2. i \in Instrs /\ j \in Instrs
    BY <1>1, IsInstr, IsPlainInstr, AreRegisters
  <2> HIDE DEF i, j
  <2>3. <<i, j>> \in Seq(Instrs)
    BY <2>2
  <2> QED
    BY <2>1, <2>3, Zenon
<1>2. CASE e = HeadOf(e.name) /\ e.name \in Readable
  <2> DEFINE i == Instr("elem", "u", e.name, 0, FALSE)
             j == Instr("get", "t", "u", 0, FALSE)
             l == Instr("put", "at", "t", 0, FALSE)
  <2>1. ItemCode(e, "at") = <<i, j, l>>
    BY <1>2, ItemsAre, ItemCodeIs
  <2>2. i \in Instrs /\ j \in Instrs /\ l \in Instrs
    BY <1>2, IsPlainInstr, AreRegisters
  <2> HIDE DEF i, j, l
  <2>3. <<i, j, l>> \in Seq(Instrs)
    BY <2>2
  <2> QED
    BY <2>1, <2>3, Zenon
<1>3. CASE e = BagOf(e.name) /\ e.name \in Numbered
  <2> DEFINE i == Instr("put", "at", e.name, 0, FALSE)
             j == Instr("fixup", "at", "", 0, FALSE)
  <2>1. ItemCode(e, "at") = <<i, j>>
    BY <1>3, ItemsAre, ItemCodeIs
  <2>2. i \in Instrs /\ j \in Instrs
    BY <1>3, IsPlainInstr, AreRegisters
  <2> HIDE DEF i, j
  <2>3. <<i, j>> \in Seq(Instrs)
    BY <2>2
  <2> QED
    BY <2>1, <2>3, Zenon
<1> QED
  BY <1>1, <1>2, <1>3 DEF Meant

(* The parts of a literal, one at a time. *)
LEMMA ItemPartsAre ==
  ASSUME NEW x, NEW r \in Roots, NEW es, Len(es) \in Nat, NEW j \in 0 .. Len(es),
         \A k \in (j + 1) .. Len(es) : Meant(x, k, es[k])
  PROVE  /\ j = Len(es) => ItemParts(r, es, j) = << >>
         /\ j < Len(es) => /\ ItemParts(r, es, j) = ItemPart(r, es, j + 1) \o ItemParts(r, es, j + 1)
                           /\ ItemPart(r, es, j + 1) \in Seq(Instrs)
                           /\ ItemParts(r, es, j + 1) \in Seq(Instrs)
<1> DEFINE n == Len(es)
           S == Seq(Instrs)
           ss == [k \in 1 .. n - j |-> ItemPart(r, es, j + k)]
           tt == [k \in 1 .. n - (j + 1) |-> ItemPart(r, es, (j + 1) + k)]
<1>1. ASSUME NEW k \in (j + 1) .. n PROVE ItemPart(r, es, k) \in S
  <2>1. ItemCode(es[k], "at") \in S
    BY ItemIsCode
  <2>2. Instr("elem", "at", r, k - 1, FALSE) \in Instrs
    <3>1. k - 1 \in Int
      OBVIOUS
    <3> QED
      BY <3>1, IsInstr, AreRegisters
  <2> QED
    BY <2>1, <2>2, InFront DEF ItemPart
<1> HIDE DEF S
<1>2. CASE j = n
  <2>1. ss = << >>
    BY <1>2
  <2>2. ItemParts(r, es, j) = FlattenSeq(ss)
    BY DEF ItemParts
  <2> HIDE DEF ss
  <2>3. FlattenSeq(ss) = << >>
    BY <2>1 DEF FlattenSeq
  <2> QED
    BY <1>2, <2>2, <2>3
<1>3. CASE j < n
  <2>1. ss \in Seq(S) /\ Len(ss) = n - j /\ ss[1] = ItemPart(r, es, j + 1)
    BY <1>1, <1>3
  <2>2. tt \in Seq(S) /\ Len(tt) = n - (j + 1)
    BY <1>1, <1>3
  <2>3. \A k \in 1 .. n - (j + 1) : tt[k] = ss[k + 1]
    BY <1>3
  <2>4. ItemParts(r, es, j) = FlattenSeq(ss) /\ ItemParts(r, es, j + 1) = FlattenSeq(tt)
    BY DEF ItemParts
  <2> HIDE DEF ss, tt
  <2>5. ss \in Seq(Seq(Instrs)) /\ tt \in Seq(Seq(Instrs)) /\ Len(ss) = Len(tt) + 1
    BY <2>1, <2>2, <1>3 DEF S
  <2>6. /\ FlattenSeq(ss) = ss[1] \o FlattenSeq(tt)
        /\ ss[1] \in Seq(Instrs) /\ FlattenSeq(tt) \in Seq(Instrs)
    <3>1. \A k \in 1 .. Len(tt) : tt[k] = ss[k + 1]
      BY <2>2, <2>3
    <3> QED
      BY <2>5, <3>1, FirstPart
  <2> QED
    BY <1>3, <2>1, <2>4, <2>6
<1> QED
  BY <1>2, <1>3

(* The copies of what a list holds, one at a time. *)
LEMMA CopyPartsAre ==
  ASSUME NEW x \in Roots, NEW n \in Nat, NEW j \in 0 .. n
  PROVE  /\ j = n => CopyParts(x, n, j) = << >>
         /\ j < n => /\ CopyParts(x, n, j) = CopyPart(x, j + 1) \o CopyParts(x, n, j + 1)
                     /\ CopyPart(x, j + 1) \in Seq(Instrs)
                     /\ CopyParts(x, n, j + 1) \in Seq(Instrs)
<1> DEFINE S == Seq(Instrs)
           ss == [k \in 1 .. n - j |-> CopyPart(x, j + k)]
           tt == [k \in 1 .. n - (j + 1) |-> CopyPart(x, (j + 1) + k)]
<1>1. ASSUME NEW k \in (j + 1) .. n PROVE CopyPart(x, k) \in S
  <2> DEFINE i == Instr("elem", "at", x, k - 1, FALSE)
             l == Instr("fixup", "at", "", 0, FALSE)
  <2>1. i \in Instrs
    <3>1. k - 1 \in Int
      OBVIOUS
    <3> QED
      BY <3>1, IsInstr, AreRegisters
  <2>2. l \in Instrs
    BY IsPlainInstr, AreRegisters
  <2>3. CopyPart(x, k) = <<i, l>>
    BY DEF CopyPart
  <2> HIDE DEF i, l
  <2> QED
    BY <2>1, <2>2, <2>3
<1> HIDE DEF S
<1>2. CASE j = n
  <2>1. ss = << >>
    BY <1>2
  <2>2. CopyParts(x, n, j) = FlattenSeq(ss)
    BY DEF CopyParts
  <2> HIDE DEF ss
  <2>3. FlattenSeq(ss) = << >>
    BY <2>1 DEF FlattenSeq
  <2> QED
    BY <1>2, <2>2, <2>3
<1>3. CASE j < n
  <2>1. ss \in Seq(S) /\ Len(ss) = n - j /\ ss[1] = CopyPart(x, j + 1)
    BY <1>1, <1>3
  <2>2. tt \in Seq(S) /\ Len(tt) = n - (j + 1)
    BY <1>1, <1>3
  <2>3. \A k \in 1 .. n - (j + 1) : tt[k] = ss[k + 1]
    BY <1>3
  <2>4. CopyParts(x, n, j) = FlattenSeq(ss) /\ CopyParts(x, n, j + 1) = FlattenSeq(tt)
    BY DEF CopyParts
  <2> HIDE DEF ss, tt
  <2>5. ss \in Seq(Seq(Instrs)) /\ tt \in Seq(Seq(Instrs)) /\ Len(ss) = Len(tt) + 1
    BY <2>1, <2>2, <1>3 DEF S
  <2>6. /\ FlattenSeq(ss) = ss[1] \o FlattenSeq(tt)
        /\ ss[1] \in Seq(Instrs) /\ FlattenSeq(tt) \in Seq(Instrs)
    <3>1. \A k \in 1 .. Len(tt) : tt[k] = ss[k + 1]
      BY <2>2, <2>3
    <3> QED
      BY <2>5, <3>1, FirstPart
  <2> QED
    BY <1>3, <2>1, <2>4, <2>6
<1> QED
  BY <1>2, <1>3

(* What a variable means is a list of its kind. *)
WellMeant ==
    /\ DOMAIN want = Vars
    /\ \A v \in Numbered : want[v] \in Seq(Int)
    /\ \A v \in {"bags", "more"} : want[v] \in Seq(Seq(Int))

(* A variable holds numbers or lists. *)
LEMMA Kinds ==
  /\ \A v \in Numbered : v \in Vars /\ ~HoldsLists(v) /\ v # "p" /\ v # "nothing"
  /\ \A v \in Vars : v \in Numbered \/ HoldsLists(v)
  /\ \A v : HoldsLists(v) => v \in Vars /\ v \in {"bags", "more"} /\ v \notin Numbered /\ v # "p" /\ v # "nothing"
  /\ HoldsLists("bags")
  BY DEF Vars, Numbered, HoldsLists

(* A list of numbers that is what it is to be is what its variable means. *)
LEMMA GoodIs ==
  ASSUME WellMeant, NEW A, NEW M, World(A, M), NEW v \in Numbered, Rough(v, {}, A, M)
  PROVE  M[<<v, 0>>] = want[v] /\ <<v, 0>> \in DOMAIN A
<1> DEFINE s == M[<<v, 0>>]
           t == want[v]
<1>1. s \in Seq(Int) /\ t \in Seq(Int) /\ Len(s) = Len(t) /\ <<v, 0>> \in DOMAIN A
  BY DEF World, Holds, WellMeant, Rough
<1>2. \A k \in 1 .. Len(t) : s[k] = t[k]
  BY Kinds DEF Rough, Done
<1> HIDE DEF s, t
<1>3. s = t
  BY <1>1, <1>2, SameElements
<1> QED
  BY <1>1, <1>3 DEF s, t

(* What is read by a name that is not the one being changed. *)
LEMMA ReadAs ==
  ASSUME WellMeant, NEW A, NEW M, NEW x, Frame(x, A, M), NEW y \in Readable, Known(y), Named(y) # x
  PROVE  /\ InReg(y, <<Named(y), 0>>, A) /\ M[<<Named(y), 0>>] = want[Named(y)]
         /\ Named(y) \in Numbered
<1>1. CASE y = "p"
  <2>1. Named(y) = lent /\ lent \in Numbered /\ lent \in DOMAIN regs /\ InReg("p", <<lent, 0>>, A)
    BY <1>1 DEF Named, Known, Frame, LentGood
  <2>2. Good(lent, A, M)
    BY <2>1, Kinds DEF Frame
  <2> QED
    BY <1>1, <2>1, <2>2, GoodIs DEF Good, Frame
<1>2. CASE y # "p"
  <2>1. Named(y) = y /\ y \in DOMAIN regs /\ y \in Numbered
    BY <1>2 DEF Named, Known, Readable
  <2>2. Good(y, A, M)
    BY <2>1, Kinds DEF Frame
  <2> QED
    BY <2>1, <2>2, GoodIs DEF Good, Frame
<1> QED
  BY <1>1, <1>2

-----------------------------------------------------------------------------
(* Nothing changes but registers no variable is in. *)
RegsKeep(V) ==
    \A v \in V : /\ v \in DOMAIN regs => v \in DOMAIN regs' /\ regs'[v] = regs[v]
                 /\ v \in DOMAIN regs' => v \in DOMAIN regs
SameMeaning == want' = want /\ lent' = lent
Calm == SameMeaning /\ mem' = mem /\ blocks' = blocks /\ RegsKeep(Roots)

(* Then every variable is still what it was. *)
LEMMA CalmKeeps ==
  ASSUME Calm, NEW A, NEW M
  PROVE  /\ World(A, M) => World(A, M)'
         /\ LentGood(A) => LentGood(A)'
         /\ \A r \in Roots : \A n : InReg(r, n, A) => InReg(r, n, A)'
         /\ \A v, k : Done(v, k, A, M) = Done(v, k, A, M)'
         /\ \A v, S : Rough(v, S, A, M) => Rough(v, S, A, M)'
         /\ \A v \in Vars : Good(v, A, M) => Good(v, A, M)'
<1>1. World(A, M) => World(A, M)'
  BY WorldStays DEF Calm
<1>2. \A r \in Roots : \A n : InReg(r, n, A) => InReg(r, n, A)'
  BY DEF InReg, Calm, RegsKeep
<1>3. LentGood(A) => LentGood(A)'
  BY <1>2, AreRegisters DEF LentGood, Calm, SameMeaning, RegsKeep, Roots
<1>4. \A v, k : Done(v, k, A, M) = Done(v, k, A, M)'
  BY DEF Done, Calm, SameMeaning
<1>5. \A v, S : Rough(v, S, A, M) => Rough(v, S, A, M)'
  BY <1>4 DEF Rough, Calm, SameMeaning
<1>6. \A v \in Vars : Good(v, A, M) => Good(v, A, M)'
  BY <1>2, <1>5, AreRegisters DEF Good
<1> QED
  BY <1>1, <1>2, <1>3, <1>4, <1>5, <1>6

(* So is what is being done to x. *)
LEMMA CalmGoesOn ==
  ASSUME Calm, NEW A, NEW M, NEW x
  PROVE  /\ Frame(x, A, M) => Frame(x, A, M)'
         /\ \A S : Whole(x, S, A, M) => Whole(x, S, A, M)'
         /\ Short(x, A, M) => Short(x, A, M)'
         /\ Clean(A, M) => Clean(A, M)'
<1>1. Vars \cap DOMAIN regs' = Vars \cap DOMAIN regs
  BY AreRegisters DEF Calm, RegsKeep
<1>2. Frame(x, A, M) => Frame(x, A, M)'
  <2> SUFFICES ASSUME Frame(x, A, M) PROVE Frame(x, A, M)'
    OBVIOUS
  <2>1. x \in Vars /\ World(A, M)' /\ LentGood(A)'
    BY CalmKeeps DEF Frame
  <2>2. \A v \in (Vars \cap DOMAIN regs') \ {x} : Good(v, A, M)'
    BY <1>1, CalmKeeps DEF Frame
  <2> QED
    BY <2>1, <2>2 DEF Frame
<1>3. \A S : Whole(x, S, A, M) => Whole(x, S, A, M)'
  <2> SUFFICES ASSUME NEW S, Whole(x, S, A, M) PROVE Whole(x, S, A, M)'
    OBVIOUS
  <2>1. x \in Roots
    BY AreRegisters DEF Whole, Frame
  <2>2. InReg(x, <<x, 0>>, A)' /\ Rough(x, S, A, M)'
    BY <2>1, CalmKeeps DEF Whole
  <2> QED
    BY <1>2, <2>2 DEF Whole, Calm, SameMeaning
<1>4. Short(x, A, M) => Short(x, A, M)'
  <2> SUFFICES ASSUME Short(x, A, M) PROVE Short(x, A, M)'
    OBVIOUS
  <2>1. x \in Roots
    BY AreRegisters DEF Short, Frame
  <2>2. InReg(x, <<x, 0>>, A)' /\ \A k \in 1 .. Len(M[<<x, 0>>]) : Done(x, k, A, M)'
    BY <2>1, CalmKeeps DEF Short
  <2> QED
    BY <1>2, <2>2 DEF Short, Calm, SameMeaning
<1>5. Clean(A, M) => Clean(A, M)'
  BY <1>1, CalmKeeps DEF Clean
<1> QED
  BY <1>2, <1>3, <1>4, <1>5

(* And what is still to be done. *)
LEMMA CalmAhead ==
  ASSUME Calm, NEW A, NEW M, NEW x, NEW S, NEW T, NEW rest
  PROVE  /\ \A e, k : Borrowed(e, x, k, T, A, M) = Borrowed(e, x, k, T, A, M)'
         /\ \A k, e : Meant(x, k, e) => Meant(x, k, e)'
         /\ Ahead(x, S, T, rest, A, M) => Ahead(x, S, T, rest, A, M)'
         /\ \A n : Source(x, n, A, M) => Source(x, n, A, M)'
<1>1. \A e, k : Borrowed(e, x, k, T, A, M) = Borrowed(e, x, k, T, A, M)'
  BY DEF Borrowed, Calm, SameMeaning
<1>2. \A k, e : Meant(x, k, e) => Meant(x, k, e)'
  <2>1. \A y \in Readable : (Known(y) => Known(y)') /\ Named(y)' = Named(y)
    BY AreRegisters DEF Known, Named, Calm, SameMeaning, RegsKeep
  <2>2. \A y \in Numbered : y \in Readable
    BY DEF Readable
  <2> QED
    BY <2>1, <2>2 DEF Meant, Calm, SameMeaning
<1>3. Literally(x, S, rest, A) => Literally(x, S, rest, A)'
  BY <1>2, CalmKeeps DEF Literally
<1>4. ByCopying(x, S, T, rest, A, M) => ByCopying(x, S, T, rest, A, M)'
  BY <1>1 DEF ByCopying
<1>5. \A n : Source(x, n, A, M) => Source(x, n, A, M)'
  BY DEF Source, Borrowed, Calm, SameMeaning
<1> QED
  BY <1>1, <1>2, <1>3, <1>4, <1>5 DEF Ahead

-----------------------------------------------------------------------------
(* An instruction runs, and the program does not stop. *)
Rests == UNCHANGED <<program, pending, executed, lent, want>>
Acts == (New \/ Clone \/ Fixup \/ ListPush \/ Inline) /\ Rests

(* A register is set, and nothing else happens. *)
Sets(d, v, rest) ==
    /\ SameMeaning /\ mem' = mem /\ blocks' = blocks /\ Goes /\ code' = rest
    /\ regs' = Over(Only(d, v), regs)

(* The code that comes next is what is left. *)
LEMMA ThenIs ==
  ASSUME NEW i, NEW rest, Runs(i, rest)
  PROVE  Then(<< >>) => code' = rest
<1>1. << >> \o rest = rest
  BY InFront DEF Runs, Instrs, Instr
<1> QED
  BY <1>1 DEF Then, Runs

(* The instructions that only set a register. *)
LEMMA SetsAre ==
  ASSUME IInv, NEW i, NEW rest, Runs(i, rest), Acts
  PROVE  /\ i.op = "const" => Sets(i.dst, i.n, rest)
         /\ i.op = "copy" => Sets(i.dst, regs[i.src], rest)
         /\ i.op = "elem" => Sets(i.dst, regs[i.src] + WORD * i.n, rest)
         /\ i.op = "get" => Sets(i.dst, Cell(regs[i.src]), rest)
<1>1. Now = i
  BY DEF Runs, Now
<1>2. ASSUME i.op \in {"const", "copy", "elem", "get"} PROVE Quiet /\ Then(<< >>) /\ (Const \/ Copy \/ Elem \/ Load)
  BY <1>1, <1>2 DEF Acts, New, Clone, Fixup, ListPush, Inline, Store
<1>3. ASSUME i.op \in {"const", "copy", "elem", "get"} PROVE Goes /\ blocks' = blocks /\ code' = rest /\ SameMeaning /\ mem' = mem
  BY <1>2, <1>3, QuietGoes, ThenIs DEF Acts, Rests, SameMeaning, Const, Copy, Elem, Load
<1>4. ASSUME i.op = "const" PROVE Result(i.dst, i.n)
  BY <1>1, <1>2, <1>4 DEF Const, Copy, Elem, Load
<1>5. ASSUME i.op = "copy" PROVE Result(i.dst, regs[i.src])
  BY <1>1, <1>2, <1>5 DEF Const, Copy, Elem, Load
<1>6. ASSUME i.op = "elem" PROVE Result(i.dst, regs[i.src] + WORD * i.n)
  BY <1>1, <1>2, <1>6 DEF Const, Copy, Elem, Load
<1>7. ASSUME i.op = "get" PROVE Result(i.dst, Cell(regs[i.src]))
  BY <1>1, <1>2, <1>7 DEF Const, Copy, Elem, Load
<1> QED
  BY <1>3, <1>4, <1>5, <1>6, <1>7 DEF Sets, Result

(* A register that is not a variable's. *)
LEMMA SetsCalmly ==
  ASSUME NEW d, NEW v, NEW rest, Sets(d, v, rest)
  PROVE  /\ d \in DOMAIN regs' /\ regs'[d] = v
         /\ \A r \in DOMAIN regs : r # d => r \in DOMAIN regs' /\ regs'[r] = regs[r]
         /\ d \notin Roots => Calm
         /\ RegsKeep(Roots \ {d})
<1>1. d \in DOMAIN regs' /\ regs'[d] = v
  BY DEF Sets, Over, Only
<1>2. DOMAIN regs' = {d} \cup DOMAIN regs /\ \A r \in DOMAIN regs : r # d => regs'[r] = regs[r]
  BY DEF Sets, Over, Only
<1>3. RegsKeep(Roots \ {d})
  BY <1>2 DEF RegsKeep
<1>4. d \notin Roots => Calm
  BY <1>2 DEF Sets, Calm, RegsKeep
<1> QED
  BY <1>1, <1>2, <1>3, <1>4

(* The instructions that write. *)
LEMMA OthersAre ==
  ASSUME NEW i, NEW rest, Runs(i, rest), Acts
  PROVE  /\ i.op = "put" => /\ Quiet /\ Write(Only(regs[i.dst], regs[i.src])) /\ regs' = regs
                            /\ code' = rest /\ SameMeaning
         /\ i.op = "new" => \E p \in Places : /\ ListNew(i.n, p) /\ Write(NewCells(i.n, p)) /\ Result(i.dst, p)
                                              /\ code' = rest /\ SameMeaning
         /\ i.op = "clone" => \E p \in Places :
                /\ ListNew(Length(regs[i.dst]), p) /\ Write(CloneCells(regs[i.dst], p)) /\ Result(i.dst, p)
                /\ code' = (IF i.deep THEN FixupCode(i.dst, Length(regs[i.dst])) ELSE << >>) \o rest
                /\ SameMeaning
         /\ i.op = "fixup" => \E p \in Places :
                /\ ListNew(Length(Cell(regs[i.dst])), p)
                /\ Write(Over(Only(regs[i.dst], p), CloneCells(Cell(regs[i.dst]), p)))
                /\ code' = rest /\ SameMeaning /\ regs' = regs
         /\ i.op \in {"push", "pushat"} =>
                /\ Room(regs[i.dst], IF i.op = "push" THEN regs[i.src] ELSE Cell(regs[i.src]))
                /\ code' = (IF i.deep THEN <<Instr("fixup", "slot", "", 0, FALSE)>> ELSE << >>) \o rest
                /\ SameMeaning
<1>1. Now = i /\ Tail(code) = rest
  BY DEF Runs, Now
<1>2. SameMeaning
  BY DEF Acts, Rests, SameMeaning
<1>3. ASSUME i.op = "put" PROVE /\ Quiet /\ Write(Only(regs[i.dst], regs[i.src])) /\ regs' = regs /\ code' = rest
  <2>1. Inline /\ Store
    BY <1>1, <1>3 DEF Acts, New, Clone, Fixup, ListPush, Inline, Const, Copy, Elem, Load
  <2> QED
    BY <1>1, <2>1, ThenIs DEF Inline, Store
<1>4. ASSUME i.op = "new"
      PROVE  \E p \in Places : /\ ListNew(i.n, p) /\ Write(NewCells(i.n, p)) /\ Result(i.dst, p)
                               /\ code' = rest
  <2>1. New
    BY <1>1, <1>4 DEF Acts, New, Clone, Fixup, ListPush, Inline, Const, Copy, Elem, Load, Store
  <2> QED
    BY <1>1, <2>1, ThenIs DEF New
<1>5. ASSUME i.op = "clone"
      PROVE  \E p \in Places :
                /\ ListNew(Length(regs[i.dst]), p) /\ Write(CloneCells(regs[i.dst], p)) /\ Result(i.dst, p)
                /\ code' = (IF i.deep THEN FixupCode(i.dst, Length(regs[i.dst])) ELSE << >>) \o rest
  <2>1. Clone
    BY <1>1, <1>5 DEF Acts, New, Clone, Fixup, ListPush, Inline, Const, Copy, Elem, Load, Store
  <2> QED
    BY <1>1, <2>1 DEF Clone, Then
<1>6. ASSUME i.op = "fixup"
      PROVE  \E p \in Places :
                /\ ListNew(Length(Cell(regs[i.dst])), p)
                /\ Write(Over(Only(regs[i.dst], p), CloneCells(Cell(regs[i.dst]), p)))
                /\ code' = rest /\ regs' = regs
  <2>1. Fixup
    BY <1>1, <1>6 DEF Acts, New, Clone, Fixup, ListPush, Inline, Const, Copy, Elem, Load, Store
  <2> QED
    BY <1>1, <2>1, ThenIs DEF Fixup
<1>7. ASSUME i.op \in {"push", "pushat"}
      PROVE  /\ Room(regs[i.dst], IF i.op = "push" THEN regs[i.src] ELSE Cell(regs[i.src]))
             /\ code' = (IF i.deep THEN <<Instr("fixup", "slot", "", 0, FALSE)>> ELSE << >>) \o rest
  <2>1. ListPush
    BY <1>1, <1>7 DEF Acts, New, Clone, Fixup, ListPush, Inline, Const, Copy, Elem, Load, Store
  <2> QED
    BY <1>1, <2>1 DEF ListPush, Then
<1> QED
  BY <1>2, <1>3, <1>4, <1>5, <1>6, <1>7

-----------------------------------------------------------------------------
(* Register r has where the k-th element of x is. *)
AtSpot(r, x, k, A) == r \in DOMAIN regs /\ regs[r] = Spot(A[<<x, 0>>], k)

(* v, written there, makes it what it is to be. *)
Fills(x, k, v, A, M) ==
    IF HoldsLists(x)
    THEN <<x, k>> \in DOMAIN A /\ v = A[<<x, k>>] /\ M[<<x, k>>] = want[x][k]
    ELSE v \in Int /\ v = want[x][k]

(* The first object of bags has v to come. *)
Deeper(v, A, M) ==
    /\ Whole("bags", {1}, A, M) /\ <<"bags", 1>> \in DOMAIN A
    /\ M[<<"bags", 0>>][1] = A[<<"bags", 1>>]
    /\ v \in Int /\ want["bags"][1] = Append(M[<<"bags", 1>>], v)

FixupAt(r) == Instr("fixup", r, "", 0, FALSE)
PutT == Instr("put", "at", "t", 0, FALSE)
GetT == Instr("get", "t", "u", 0, FALSE)
GetHeld == Instr("get", "held", "at", 0, FALSE)
PushHeld == Instr("push", "held", "t", 0, FALSE)
PutHeld == Instr("put", "at", "held", 0, FALSE)
ElemAt == Instr("elem", "at", "bags", 0, FALSE)
CloneInto(d, x) == IF HoldsLists(x) THEN Instr("clone", d, "", 0, TRUE) ELSE Instr("clone", d, "", 0, FALSE)

(* What is done with v once it is in t. *)
Uses(v, rest, A, M) ==
    \/ \E x \in Numbered : \E S, k : \E more \in Seq(Instrs) :
          /\ rest = <<PutT>> \o more /\ Whole(x, S, A, M) /\ k \in S /\ AtSpot("at", x, k, A)
          /\ v \in Int /\ v = want[x][k] /\ Ahead(x, S \ {k}, S, more, A, M)
    \/ \E x \in Numbered : /\ rest = <<Instr("push", x, "t", 0, FALSE)>> /\ Short(x, A, M)
                           /\ v \in Int /\ v = want[x][Len(want[x])]
    \/ rest = <<ElemAt, GetHeld, PushHeld, PutHeld>> /\ Deeper(v, A, M)

(* How far a statement is: between statements, at the next element, ...     *)
AtRest(A, M) == code = << >> /\ Clean(A, M)
AtElement(A, M) == \E x, S : Whole(x, S, A, M) /\ Ahead(x, S, S, code, A, M)
(* ... at the copy of an object, ...                                         *)
AtFixup(A, M) ==
    \E x, S, k, rest : \E r \in Registers :
       /\ Runs(FixupAt(r), rest) /\ HoldsLists(x) /\ Whole(x, S, A, M) /\ k \in S
       /\ AtSpot(r, x, k, A) /\ Borrowed(M[<<x, 0>>][k], x, k, S, A, M)
       /\ Ahead(x, S \ {k}, S, rest, A, M)
(* ... where an element is written, or an object to be copied, ...           *)
AtPut(A, M) ==
    \E x, S, k, rest : \E t \in {"t", "held"} :
       /\ Runs(Instr("put", "at", t, 0, FALSE), rest) /\ Whole(x, S, A, M) /\ k \in S
       /\ AtSpot("at", x, k, A) /\ t \in DOMAIN regs /\ Fills(x, k, regs[t], A, M)
       /\ Ahead(x, S \ {k}, S, rest, A, M)
AtPutObject(A, M) ==
    \E x, S, k, n : \E b \in Numbered : \E more \in Seq(Instrs) :
       /\ Runs(Instr("put", "at", b, 0, FALSE), <<FixupAt("at")>> \o more)
       /\ HoldsLists(x) /\ Whole(x, S, A, M) /\ k \in S /\ AtSpot("at", x, k, A)
       /\ InReg(b, n, A) /\ Borrowed(A[n], x, k, S, A, M) /\ Ahead(x, S \ {k}, S, more, A, M)
(* ... where a number is, or one is read, ...                                *)
AtConst(A, M) ==
    \E v \in Int : \E rest : Runs(Instr("const", "t", "", v, FALSE), rest) /\ Uses(v, rest, A, M)
AtHead(A, M) ==
    \E y \in Roots : \E n, v : \E rest \in Seq(Instrs) :
       /\ Runs(Instr("elem", "u", y, 0, FALSE), <<GetT>> \o rest) /\ InReg(y, n, A)
       /\ Len(M[n]) >= 1 /\ M[n][1] = v /\ Uses(v, rest, A, M)
AtGet(A, M) ==
    \E n \in DOMAIN A : \E v, rest :
       /\ Runs(GetT, rest) /\ "u" \in DOMAIN regs /\ regs["u"] = Spot(A[n], 1)
       /\ Len(M[n]) >= 1 /\ M[n][1] = v /\ Uses(v, rest, A, M)
(* ... at a push, of a number, of an object or of one where it stands, ...   *)
AtPush(A, M) ==
    \E x \in Numbered :
       /\ Runs(Instr("push", x, "t", 0, FALSE), << >>) /\ Short(x, A, M)
       /\ "t" \in DOMAIN regs /\ regs["t"] \in Int /\ regs["t"] = want[x][Len(want[x])]
AtPushObject(A, M) ==
    \E x, n : \E b \in Numbered :
       /\ HoldsLists(x) /\ Runs(Instr("push", x, b, 0, TRUE), << >>) /\ Short(x, A, M)
       /\ InReg(b, n, A) /\ Borrowed(A[n], x, Len(want[x]), {}, A, M)
FirstAgain(A, M) ==
    /\ Short("bags", A, M) /\ Len(M[<<"bags", 0>>]) >= 1
    /\ want["bags"][Len(want["bags"])] = want["bags"][1]
PushU == Instr("pushat", "bags", "u", 0, TRUE)
AtPushFirst(A, M) == Runs(Instr("elem", "u", "bags", 0, FALSE), <<PushU>>) /\ FirstAgain(A, M)
AtPushAt(A, M) == Runs(PushU, << >>) /\ FirstAgain(A, M) /\ AtSpot("u", "bags", 1, A)
(* ... inside the first object of bags, ...                                  *)
AtInner(A, M) ==
    /\ "t" \in DOMAIN regs /\ Deeper(regs["t"], A, M)
    /\ \/ Runs(ElemAt, <<GetHeld, PushHeld, PutHeld>>)
       \/ Runs(GetHeld, <<PushHeld, PutHeld>>) /\ AtSpot("at", "bags", 1, A)
       \/ /\ Runs(PushHeld, <<PutHeld>>) /\ AtSpot("at", "bags", 1, A)
          /\ InReg("held", <<"bags", 1>>, A)
(* ... where a list is made or copied, ...                                   *)
AtNew(A, M) ==
    \E x, es :
       /\ Runs(Instr("new", x, "", Len(es), FALSE), ItemParts(x, es, 0)) /\ Frame(x, A, M) /\ lent # x
       /\ es \in Seq(ToSet(es)) /\ Len(es) = Len(want[x]) /\ \A k \in 1 .. Len(es) : Meant(x, k, es[k])
Into(x, d, rest) ==
    \/ d = x /\ rest = << >>
    \/ d = "r" /\ x \in Numbered /\ rest = <<Instr("copy", x, "r", 0, FALSE)>>
AtCopy(A, M) ==
    \E x, n, d, rest : \E y \in Roots :
       /\ Runs(Instr("copy", d, y, 0, FALSE), <<CloneInto(d, x)>> \o rest) /\ Into(x, d, rest)
       /\ Frame(x, A, M) /\ lent # x /\ InReg(y, n, A) /\ Source(x, n, A, M)
AtClone(A, M) ==
    \E x, n, d, rest :
       /\ Runs(CloneInto(d, x), rest) /\ Into(x, d, rest)
       /\ Frame(x, A, M) /\ lent # x /\ InReg(d, n, A) /\ Source(x, n, A, M)
AtCopyBack(A, M) ==
    \E x \in Numbered :
       /\ Runs(Instr("copy", x, "r", 0, FALSE), << >>) /\ Frame(x, A, M) /\ lent # x
       /\ InReg("r", <<x, 0>>, A) /\ Rough(x, {}, A, M)
FirstFor(x, A, M) ==
    /\ Frame(x, A, M) /\ lent # x /\ Good("bags", A, M) /\ Len(want["bags"]) >= 1 /\ want[x] = want["bags"][1]
AtFirst(A, M) ==
    \E x \in Numbered :
       /\ FirstFor(x, A, M)
       /\ \/ Runs(ElemAt, <<Instr("get", x, "at", 0, FALSE), Instr("clone", x, "", 0, FALSE)>>)
          \/ /\ Runs(Instr("get", x, "at", 0, FALSE), <<Instr("clone", x, "", 0, FALSE)>>)
             /\ AtSpot("at", "bags", 1, A)
(* ... or at a call.                                                         *)
AtLend(A, M) ==
    /\ lent \in Numbered \cap DOMAIN regs /\ Runs(Instr("copy", "p", lent, 0, FALSE), << >>)
    /\ World(A, M) /\ \A v \in Vars \cap DOMAIN regs : Good(v, A, M)

Stage(A, M) ==
    \/ AtRest(A, M) \/ AtElement(A, M) \/ AtFixup(A, M) \/ AtPut(A, M) \/ AtPutObject(A, M)
    \/ AtConst(A, M) \/ AtHead(A, M) \/ AtGet(A, M)
    \/ AtPush(A, M) \/ AtPushObject(A, M) \/ AtPushFirst(A, M) \/ AtPushAt(A, M) \/ AtInner(A, M)
    \/ AtNew(A, M) \/ AtCopy(A, M) \/ AtClone(A, M) \/ AtCopyBack(A, M) \/ AtFirst(A, M) \/ AtLend(A, M)

-----------------------------------------------------------------------------
(* The names of the other variables are where they were, with what was in   *)
(* them.                                                                    *)
Elsewhere(x, A, M, B, N) ==
    \A v, k : v # x /\ <<v, k>> \in DOMAIN A =>
                 <<v, k>> \in DOMAIN B /\ B[<<v, k>>] = A[<<v, k>>] /\ N[<<v, k>>] = M[<<v, k>>]

(* What an item is to be stays. *)
LEMMA MeantKeeps ==
  ASSUME SameMeaning, Roots \cap DOMAIN regs \subseteq DOMAIN regs', NEW x, NEW k, NEW e, Meant(x, k, e)
  PROVE  Meant(x, k, e)'
<1>1. \A y \in Readable : (Known(y) => Known(y)') /\ Named(y)' = Named(y)
  BY AreRegisters DEF Known, Named, SameMeaning
<1>2. \A y \in Numbered : y \in Readable
  BY DEF Readable
<1> QED
  BY <1>1, <1>2 DEF Meant, SameMeaning

(* The other variables keep what they are to be. *)
LEMMA FrameKeeps ==
  ASSUME NEW x, NEW A, NEW M, Frame(x, A, M), NEW B, NEW N, World(B, N)', SameMeaning,
         RegsKeep(Roots \ {x}), x \in DOMAIN regs => x \in DOMAIN regs', Elsewhere(x, A, M, B, N),
         lent # x \/ (<<x, 0>> \in DOMAIN B /\ B[<<x, 0>>] = A[<<x, 0>>])
  PROVE  Frame(x, B, N)'
<1>1. x \in Vars /\ x # "p"
  BY DEF Frame, Vars, Numbered
<1>2. LentGood(B)'
  <2> SUFFICES ASSUME lent # "nothing" PROVE LentGood(B)'
    BY DEF LentGood, SameMeaning
  <2>1. lent \in Numbered \cap DOMAIN regs /\ InReg("p", <<lent, 0>>, A) /\ lent' = lent
    BY DEF Frame, LentGood, SameMeaning
  <2>2. lent \in DOMAIN regs'
    BY <2>1, AreRegisters DEF RegsKeep
  <2>3. "p" \in DOMAIN regs' /\ regs'["p"] = regs["p"]
    BY <1>1, <2>1 DEF RegsKeep, InReg, Roots
  <2>4. <<lent, 0>> \in DOMAIN B /\ B[<<lent, 0>>] = A[<<lent, 0>>]
    BY <2>1 DEF Elsewhere, InReg
  <2> QED
    BY <2>1, <2>2, <2>3, <2>4 DEF LentGood, InReg
<1>3. ASSUME NEW v \in (Vars \cap DOMAIN regs') \ {x} PROVE Good(v, B, N)'
  <2>1. v \in DOMAIN regs /\ regs'[v] = regs[v]
    BY AreRegisters DEF RegsKeep
  <2>2. Good(v, A, M)
    BY <2>1 DEF Frame
  <2>3. \A k : <<v, k>> \in DOMAIN A => <<v, k>> \in DOMAIN B /\ B[<<v, k>>] = A[<<v, k>>] /\ N[<<v, k>>] = M[<<v, k>>]
    BY DEF Elsewhere
  <2>4. \A k \in 1 .. Len(want[v]) : Done(v, k, B, N)'
    BY <2>2, <2>3 DEF Good, Rough, Done, SameMeaning
  <2> QED
    BY <2>1, <2>2, <2>3, <2>4 DEF Good, Rough, InReg, SameMeaning
<1> QED
  BY <1>1, <1>2, <1>3 DEF Frame

(* The statement goes on. *)
Reaches == Goes /\ \E B, N : Stage(B, N)'

(* A name of x is changed, and no other variable's. *)
LEMMA ElsewhereAt ==
  ASSUME NEW x, NEW A, NEW M, DOMAIN M = DOMAIN A, NEW j, NEW p, NEW s
  PROVE  Elsewhere(x, A, M, At(A, <<x, j>>, p), At(M, <<x, j>>, s))
<1> DEFINE B == At(A, <<x, j>>, p)
           N == At(M, <<x, j>>, s)
<1>1. Changed(B, A, <<x, j>>, p) /\ Changed(N, M, <<x, j>>, s)
  BY AtIs
<1> HIDE DEF B, N
<1>2. Elsewhere(x, A, M, B, N)
  BY <1>1 DEF Changed, Elsewhere
<1> QED
  BY <1>2 DEF B, N

(* All is done. *)
LEMMA CleanIs ==
  ASSUME NEW x, NEW A, NEW M, Frame(x, A, M)', InReg(x, <<x, 0>>, A)', Rough(x, {}, A, M)', code' = << >>
  PROVE  Stage(A, M)'
<1>1. \A v \in Vars \cap DOMAIN regs' : Good(v, A, M)'
  BY DEF Frame, Good
<1>2. Clean(A, M)'
  BY <1>1 DEF Clean, Frame
<1> QED
  BY <1>2 DEF Stage, AtRest

(* What is read through a register. *)
LEMMA SpotIs ==
  ASSUME NEW A, NEW M, World(A, M), NEW n \in DOMAIN A, NEW k \in 1 .. Len(M[n])
  PROVE  Cell(Spot(A[n], k)) = M[n][k] /\ M[n][k] \in Int
  BY DEF World, Holds, ListIn, Cell

(* A place is an address. *)
LEMMA PlacesAre ==
  ASSUME IInv, NEW p \in Places
  PROVE  p \in Int
  BY ArenaAssumption DEF Places, LIST_HEADER, IInv, TypeOK, Address

(* What setting a register leaves of the other variables. *)
LEMMA SetsAside ==
  ASSUME NEW d, NEW v, NEW rest, Sets(d, v, rest), NEW x, NEW A, NEW M, Frame(x, A, M),
         d = x \/ d \notin Roots
  PROVE  Frame(x, A, M)' /\ World(A, M)'
<1>1. World(A, M)'
  BY WorldStays DEF Sets, Frame
<1>2. RegsKeep(Roots \ {x}) /\ (x \in DOMAIN regs => x \in DOMAIN regs')
  BY SetsCalmly DEF RegsKeep, Calm
<1>3. Elsewhere(x, A, M, A, M)
  BY DEF Elsewhere
<1>4. lent # x \/ (<<x, 0>> \in DOMAIN A /\ A[<<x, 0>>] = A[<<x, 0>>])
  BY DEF Frame, LentGood, InReg, Numbered, Vars
<1> QED
  BY <1>1, <1>2, <1>3, <1>4, FrameKeeps DEF Sets

-----------------------------------------------------------------------------
(* The result of a call is what the variable gets. *)
LEMMA StepCopyBack ==
  ASSUME IInv, NEW A, NEW M, AtCopyBack(A, M), Acts
  PROVE  Reaches
<1>1. PICK x \in Numbered :
          /\ Runs(Instr("copy", x, "r", 0, FALSE), << >>) /\ Frame(x, A, M) /\ lent # x
          /\ InReg("r", <<x, 0>>, A) /\ Rough(x, {}, A, M)
  BY DEF AtCopyBack
<1> DEFINE i == Instr("copy", x, "r", 0, FALSE)
<1>2. i.op = "copy" /\ i.dst = x /\ i.src = "r"
  BY DEF Instr
<1>3. Runs(i, << >>)
  BY <1>1
<1> HIDE DEF i
<1>4. Sets(x, regs["r"], << >>)
  BY <1>2, <1>3, SetsAre
<1>5. Frame(x, A, M)'
  BY <1>1, <1>4, SetsAside
<1>6. InReg(x, <<x, 0>>, A)'
  BY <1>1, <1>4, SetsCalmly DEF InReg
<1>7. Rough(x, {}, A, M)'
  BY <1>1, <1>4 DEF Rough, Done, Sets, SameMeaning
<1>8. Stage(A, M)'
  BY <1>4, <1>5, <1>6, <1>7, CleanIs DEF Sets
<1> QED
  BY <1>4, <1>8 DEF Reaches, Sets

(* A call's parameter is the list it is lent. *)
LEMMA StepLend ==
  ASSUME IInv, NEW A, NEW M, AtLend(A, M), Acts
  PROVE  Reaches
<1>1. /\ lent \in Numbered /\ lent \in DOMAIN regs /\ Runs(Instr("copy", "p", lent, 0, FALSE), << >>)
      /\ World(A, M) /\ \A v \in Vars \cap DOMAIN regs : Good(v, A, M)
  BY DEF AtLend
<1>2. PICK i : i = Instr("copy", "p", lent, 0, FALSE)
  OBVIOUS
<1>3. i.op = "copy" /\ i.dst = "p" /\ i.src = lent
  BY <1>2 DEF Instr
<1>4. Sets("p", regs[lent], << >>)
  BY <1>1, <1>2, <1>3, SetsAre
<1>5. World(A, M)' /\ lent' = lent /\ want' = want /\ code' = << >>
  BY <1>1, <1>4, WorldStays DEF Sets, SameMeaning
<1>6. \A v \in Vars : /\ v \in DOMAIN regs => v \in DOMAIN regs' /\ regs'[v] = regs[v]
                      /\ v \in DOMAIN regs' => v \in DOMAIN regs
  <2>1. RegsKeep(Roots \ {"p"})
    BY <1>4, SetsCalmly
  <2>2. \A v \in Vars : v \in Roots \ {"p"}
    BY DEF Roots, Vars, Numbered
  <2> QED
    BY <2>1, <2>2 DEF RegsKeep
<1>7. ASSUME NEW v \in Vars \cap DOMAIN regs' PROVE Good(v, A, M)'
  <2>1. Good(v, A, M) /\ regs'[v] = regs[v]
    BY <1>1, <1>6, <1>7
  <2> QED
    BY <1>5, <1>7, <2>1 DEF Good, InReg, Rough, Done
<1>8. LentGood(A)'
  <2>1. lent \in Vars /\ Good(lent, A, M)
    BY <1>1, Kinds
  <2>2. lent \in DOMAIN regs' /\ "p" \in DOMAIN regs' /\ regs'["p"] = regs[lent]
    BY <1>1, <1>4, <1>6, <2>1, SetsCalmly
  <2> QED
    BY <1>1, <1>5, <2>1, <2>2 DEF LentGood, InReg, Good
<1>9. Stage(A, M)'
  BY <1>5, <1>7, <1>8 DEF Stage, AtRest, Clean
<1> QED
  BY <1>4, <1>9 DEF Reaches, Sets

(* A list is given to the variable it is to be copied into. *)
LEMMA StepCopy ==
  ASSUME IInv, NEW A, NEW M, AtCopy(A, M), Acts
  PROVE  Reaches
<1>1. PICK x, n, d, rest : \E y \in Roots :
       /\ Runs(Instr("copy", d, y, 0, FALSE), <<CloneInto(d, x)>> \o rest) /\ Into(x, d, rest)
       /\ Frame(x, A, M) /\ lent # x /\ InReg(y, n, A) /\ Source(x, n, A, M)
  BY DEF AtCopy
<1>2. PICK y \in Roots :
       /\ Runs(Instr("copy", d, y, 0, FALSE), <<CloneInto(d, x)>> \o rest) /\ Into(x, d, rest)
       /\ Frame(x, A, M) /\ lent # x /\ InReg(y, n, A) /\ Source(x, n, A, M)
  BY <1>1
<1>3. PICK i : i = Instr("copy", d, y, 0, FALSE)
  OBVIOUS
<1>4. PICK c : c = CloneInto(d, x)
  OBVIOUS
<1>5. i.op = "copy" /\ i.dst = d /\ i.src = y
  BY <1>3 DEF Instr
<1>6. Sets(d, regs[y], <<c>> \o rest)
  BY <1>2, <1>3, <1>4, <1>5, SetsAre
<1>7. d = x \/ d \notin Roots
  BY <1>2 DEF Into, Roots, Vars, Numbered
<1>8. Frame(x, A, M)' /\ lent' # x
  BY <1>2, <1>6, <1>7, SetsAside DEF Sets, SameMeaning
<1>9. InReg(d, n, A)'
  BY <1>2, <1>6, SetsCalmly DEF InReg
<1>10. Source(x, n, A, M)'
  BY <1>2, <1>6 DEF Source, Borrowed, Sets, SameMeaning
<1>11. d \in Registers /\ x \in Registers
  BY <1>2, AreRegisters DEF Into, Frame
<1>12. c \in Instrs
  BY <1>4, <1>11, AreRegisters, IsPlainInstr DEF CloneInto
<1>13. rest \in Seq(Instrs)
  <2>1. CASE rest = << >>
    BY <2>1
  <2>2. CASE rest = <<Instr("copy", x, "r", 0, FALSE)>>
    <3>1. PICK j : j = Instr("copy", x, "r", 0, FALSE)
      OBVIOUS
    <3>2. j \in Instrs
      BY <3>1, <1>11, AreRegisters, IsPlainInstr
    <3>3. <<j>> \in Seq(Instrs)
      BY <3>2
    <3> QED
      BY <2>2, <3>1, <3>3, Zenon
  <2> QED
    BY <1>2, <2>1, <2>2 DEF Into
<1>14. Runs(c, rest)'
  BY <1>6, <1>12, <1>13, InFront DEF Runs, Sets
<1>15. AtClone(A, M)'
  <2>1. /\ Runs(CloneInto(d, x), rest)' /\ Into(x, d, rest)
    BY <1>2, <1>4, <1>14
  <2> QED
    BY <1>8, <1>9, <1>10, <2>1 DEF AtClone
<1>16. Stage(A, M)'
  BY <1>15 DEF Stage
<1> QED
  BY <1>6, <1>16 DEF Reaches, Sets

(* The copies of all that a list holds. *)
LEMMA FixupCodeIs ==
  ASSUME NEW x \in Roots, NEW n \in Nat
  PROVE  FixupCode(x, n) = CopyParts(x, n, 0) /\ FixupCode(x, n) \o << >> = CopyParts(x, n, 0)
<1>1. FixupCode(x, n) = CopyParts(x, n, 0)
  <2>1. n - 0 = n /\ \A k \in 1 .. n : 0 + k = k
    OBVIOUS
  <2>2. [k \in 1 .. n - 0 |-> CopyPart(x, 0 + k)] = [k \in 1 .. n |-> CopyPart(x, k)]
    BY <2>1
  <2> QED
    BY <2>2, Zenon DEF FixupCode, CopyParts, CopyPart
<1>2. CopyParts(x, n, 0) \in Seq(Instrs)
  <2>1. 0 \in 0 .. n /\ (0 = n \/ 0 < n)
    OBVIOUS
  <2>2. CASE 0 = n
    <3>1. CopyParts(x, n, 0) = << >>
      BY <2>1, <2>2, CopyPartsAre
    <3>2. << >> \in Seq(Instrs)
      OBVIOUS
    <3> QED
      BY <3>1, <3>2, Zenon
  <2>3. CASE 0 < n
    <3> DEFINE p == CopyPart(x, 0 + 1)
               q == CopyParts(x, n, 0 + 1)
    <3>1. CopyParts(x, n, 0) = p \o q /\ p \in Seq(Instrs) /\ q \in Seq(Instrs)
      BY <2>1, <2>3, CopyPartsAre
    <3> HIDE DEF p, q
    <3>2. p \o q \in Seq(Instrs)
      BY <3>1
    <3> QED
      BY <3>1, <3>2, Zenon
  <2> QED
    BY <2>1, <2>2, <2>3
<1>3. ASSUME NEW s \in Seq(Instrs) PROVE s \o << >> = s
  OBVIOUS
<1> QED
  BY <1>1, <1>2, <1>3

(* A list is copied into the variable that is to have it. *)
LEMMA StepClone ==
  ASSUME IInv, WellMeant, NEW A, NEW M, AtClone(A, M), Acts
  PROVE  Reaches
<1>1. PICK x, n, d, rest :
       /\ Runs(CloneInto(d, x), rest) /\ Into(x, d, rest)
       /\ Frame(x, A, M) /\ lent # x /\ InReg(d, n, A) /\ Source(x, n, A, M)
  BY DEF AtClone
<1>2. PICK i : i = CloneInto(d, x)
  OBVIOUS
<1>3. i.op = "clone" /\ i.dst = d /\ (i.deep = TRUE <=> HoldsLists(x)) /\ (i.deep = FALSE <=> ~HoldsLists(x))
  BY <1>2 DEF CloneInto, Instr
<1> DEFINE from == A[n]
           s == M[n]
           m == <<x, 0>>
<1>4. Holds(from, s) /\ n \in DOMAIN A /\ regs[d] = from
  BY <1>1 DEF Frame, World, Source, InReg
<1>5. PICK p \in Places :
          /\ ListNew(Length(from), p) /\ Write(CloneCells(from, p)) /\ Result(d, p)
          /\ code' = (IF i.deep THEN FixupCode(d, Length(from)) ELSE << >>) \o rest
          /\ SameMeaning
  BY <1>1, <1>2, <1>3, <1>4, OthersAre
<1>6. Goes /\ Holds(p, s)' /\ AllStay(p)
  <2>1. p \in Int
    BY PlacesAre
  <2> HIDE DEF from, s
  <2> QED
    BY <1>4, <1>5, <2>1, CloneIs
<1>7. Length(from) = Len(s) /\ s \in Seq(Int) /\ Len(s) \in Nat
  BY <1>4 DEF Holds, ListIn, Length, Cell
<1> DEFINE B == At(A, m, p)
           N == At(M, m, s)
<1>8. World(B, N)' /\ World(A, M)
  BY <1>1, <1>6, WorldNew DEF Frame
<1>9. Changed(B, A, m, p) /\ Changed(N, M, m, s)
  BY AtIs
<1>10. Elsewhere(x, A, M, B, N)
  BY <1>8, ElsewhereAt DEF World
<1> HIDE DEF B, N
<1>11. /\ d \in DOMAIN regs' /\ regs'[d] = p
       /\ \A r : r # d /\ r \in DOMAIN regs => r \in DOMAIN regs' /\ regs'[r] = regs[r]
       /\ \A r : r # d /\ r \in DOMAIN regs' => r \in DOMAIN regs
  BY <1>5 DEF Result, Over, Only
<1>12. d = x \/ d \notin Roots
  BY <1>1 DEF Into, Roots, Vars, Numbered
<1>13. Frame(x, B, N)'
  <2>1. RegsKeep(Roots \ {x}) /\ (x \in DOMAIN regs => x \in DOMAIN regs')
    BY <1>11, <1>12 DEF RegsKeep
  <2> QED
    BY <1>1, <1>5, <1>8, <1>10, <2>1, FrameKeeps
<1>14. InReg(d, m, B)'
  BY <1>9, <1>11 DEF InReg, Changed
<1>15. want' = want /\ lent' = lent /\ x \in Vars
  BY <1>1, <1>5 DEF SameMeaning, Frame
<1>16. CASE ~HoldsLists(x)
  <2>1. s = want[x] /\ x \in Numbered
    BY <1>1, <1>15, <1>16, Kinds DEF Source
  <2>2. Rough(x, {}, B, N)'
    BY <1>9, <1>15, <1>16, <2>1 DEF Rough, Done, Changed
  <2>3. rest \in Seq(Instrs)
    BY <1>1 DEF Runs
  <2>4. << >> \o rest = rest
    BY <2>3
  <2>5. code' = rest
    BY <1>3, <1>5, <1>16, <2>4
  <2>6. CASE d = x /\ rest = << >>
    <3>1. Stage(B, N)'
      BY <1>13, <1>14, <2>2, <2>5, <2>6, CleanIs
    <3> QED
      BY <1>6, <3>1 DEF Reaches
  <2>7. CASE d = "r" /\ rest = <<Instr("copy", x, "r", 0, FALSE)>>
    <3>1. PICK j : j = Instr("copy", x, "r", 0, FALSE)
      OBVIOUS
    <3>2. j \in Instrs
      BY <2>1, <3>1, AreRegisters, IsPlainInstr
    <3>3. code' = <<j>> \o << >>
      BY <2>5, <2>7, <3>1, <3>2
    <3>4. Runs(j, << >>)'
      BY <3>2, <3>3, InFront DEF Runs
    <3>5. AtCopyBack(B, N)'
      <4>1. InReg("r", <<x, 0>>, B)' /\ lent' # x
        BY <1>1, <1>14, <1>15, <2>7
      <4> QED
        BY <1>13, <2>1, <2>2, <3>1, <3>4, <4>1 DEF AtCopyBack
    <3>6. Stage(B, N)'
      BY <3>5 DEF Stage
    <3> QED
      BY <1>6, <3>6 DEF Reaches
  <2> QED
    BY <1>1, <2>6, <2>7 DEF Into
<1>17. CASE HoldsLists(x)
  <2>1. d = x /\ rest = << >> /\ x \in Roots
    BY <1>1, <1>15, <1>17, Kinds, AreRegisters DEF Into
  <2> DEFINE l == Len(s)
  <2>2. code' = CopyParts(x, l, 0)
    BY <1>3, <1>5, <1>7, <1>17, <2>1, FixupCodeIs
  <2>3. Len(want[x]) = l /\ \A k \in 1 .. l : Borrowed(s[k], x, k, 1 .. l, A, M)
    BY <1>1, <1>17 DEF Source
  <2>4. N[m] = s
    BY <1>9 DEF Changed
  <2>5. l \in Nat
    BY <1>7
  <2> HIDE DEF l
  <2>6. Whole(x, 1 .. l, B, N)'
    <3>1. Rough(x, 1 .. l, B, N)'
      BY <1>9, <1>15, <2>3, <2>4 DEF Rough, Changed, l
    <3> QED
      BY <1>13, <1>14, <1>15, <2>1, <2>3, <3>1 DEF Whole
  <2>7. ASSUME NEW k \in 1 .. l PROVE Borrowed(N[m][k], x, k, 1 .. l, B, N)'
    <3>1. PICK a \in DOMAIN A : /\ a # <<x, 0>> /\ \A j \in (1 .. l) \ {k} : a # <<x, j>>
                                /\ s[k] = A[a] /\ M[a] = want[x][k]
      BY <2>3 DEF Borrowed
    <3>2. a \in DOMAIN B /\ B[a] = A[a] /\ N[a] = M[a]
      BY <1>8, <1>9, <3>1 DEF Changed, World
    <3>3. N[m][k] = B[a] /\ N[a] = want[x][k]
      BY <2>4, <3>1, <3>2
    <3>4. want'[x][k] = want[x][k]
      BY <1>15
    <3> QED
      BY <3>1, <3>2, <3>3, <3>4 DEF Borrowed
  <2>8. ByCopying(x, 1 .. l, 1 .. l, CopyParts(x, l, 0), B, N)'
    <3>1. 0 \in 0 .. l /\ 1 .. l = (0 + 1) .. l
      BY <2>5
    <3> QED
      BY <1>17, <2>5, <2>7, <3>1 DEF ByCopying
  <2>9. AtElement(B, N)'
    BY <2>2, <2>6, <2>8 DEF AtElement, Ahead
  <2>10. Stage(B, N)'
    BY <2>9 DEF Stage
  <2> QED
    BY <1>6, <2>10 DEF Reaches
<1> QED
  BY <1>16, <1>17

(* Where an element is, is worked out. *)
LEMMA ElemIs ==
  ASSUME IInv, NEW i, NEW rest, Runs(i, rest), Acts, NEW d, NEW y, NEW k \in Int,
         i = Instr("elem", d, y, k - 1, FALSE), NEW n, NEW A, NEW M, World(A, M), InReg(y, n, A)
  PROVE  Sets(d, Spot(A[n], k), rest)
<1>1. i.op = "elem" /\ i.dst = d /\ i.src = y /\ i.n = k - 1
  BY DEF Instr
<1>2. Sets(d, regs[y] + WORD * (k - 1), rest)
  BY <1>1, SetsAre
<1>3. regs[y] + WORD * (k - 1) = Spot(A[n], k)
  BY DEF InReg, Spot
<1> QED
  BY <1>2, <1>3

(* The first of them. *)
LEMMA FirstElemIs ==
  ASSUME IInv, NEW i, NEW rest, Runs(i, rest), Acts, NEW d, NEW y,
         i = Instr("elem", d, y, 0, FALSE), NEW n, NEW A, NEW M, World(A, M), InReg(y, n, A)
  PROVE  Sets(d, Spot(A[n], 1), rest)
<1>1. i.op = "elem" /\ i.dst = d /\ i.src = y /\ i.n = 0
  BY DEF Instr
<1>2. Sets(d, regs[y] + WORD * 0, rest)
  BY <1>1, SetsAre
<1>3. regs[y] + WORD * 0 = Spot(A[n], 1)
  BY DEF InReg, Spot
<1> QED
  BY <1>2, <1>3

(* The first object of bags is copied into a variable. *)
LEMMA StepFirst ==
  ASSUME IInv, WellMeant, NEW A, NEW M, AtFirst(A, M), Acts
  PROVE  Reaches
<1>1. PICK x \in Numbered :
       /\ FirstFor(x, A, M)
       /\ \/ Runs(ElemAt, <<Instr("get", x, "at", 0, FALSE), Instr("clone", x, "", 0, FALSE)>>)
          \/ /\ Runs(Instr("get", x, "at", 0, FALSE), <<Instr("clone", x, "", 0, FALSE)>>)
             /\ AtSpot("at", "bags", 1, A)
  BY DEF AtFirst
<1>2. PICK g : g = Instr("get", x, "at", 0, FALSE)
  OBVIOUS
<1>3. PICK c : c = Instr("clone", x, "", 0, FALSE)
  OBVIOUS
<1>4. g \in Instrs /\ c \in Instrs
  BY <1>2, <1>3, AreRegisters, IsPlainInstr
<1>5. /\ Frame(x, A, M) /\ lent # x /\ Good("bags", A, M) /\ Len(want["bags"]) >= 1
      /\ want[x] = want["bags"][1] /\ World(A, M)
  BY <1>1 DEF FirstFor, Frame
<1>6. CASE Runs(ElemAt, <<g, c>>)
  <2>1. PICK i : i = Instr("elem", "at", "bags", 0, FALSE)
    OBVIOUS
  <2>2. Sets("at", Spot(A[<<"bags", 0>>], 1), <<g, c>>)
    BY <1>5, <1>6, <2>1, FirstElemIs DEF Good, ElemAt
  <2>3. Calm
    <3>1. "at" \notin Roots
      BY DEF Roots, Vars, Numbered
    <3> QED
      BY <2>2, <3>1, SetsCalmly
  <2>4. FirstFor(x, A, M)'
    <3>1. "bags" \in Vars
      BY DEF Vars
    <3>2. Frame(x, A, M)' /\ Good("bags", A, M)'
      BY <1>5, <2>3, <3>1, CalmKeeps, CalmGoesOn
    <3> QED
      BY <1>5, <2>3, <3>2 DEF FirstFor, Calm, SameMeaning
  <2>5. AtSpot("at", "bags", 1, A)'
    BY <2>2, SetsCalmly DEF AtSpot
  <2>6. code' = <<g>> \o <<c>>
    BY <1>4, <2>2 DEF Sets
  <2>7. Runs(g, <<c>>)'
    <3>1. <<c>> \in Seq(Instrs)
      BY <1>4
    <3> QED
      BY <1>4, <2>6, <3>1, InFront DEF Runs
  <2>8. AtFirst(A, M)'
    BY <1>2, <1>3, <2>4, <2>5, <2>7 DEF AtFirst
  <2>9. Stage(A, M)'
    BY <2>8 DEF Stage
  <2> QED
    BY <2>2, <2>9 DEF Reaches, Sets
<1>7. CASE Runs(g, <<c>>) /\ AtSpot("at", "bags", 1, A)
  <2>1. /\ <<"bags", 0>> \in DOMAIN A /\ <<"bags", 1>> \in DOMAIN A /\ Len(M[<<"bags", 0>>]) >= 1
        /\ M[<<"bags", 0>>][1] = A[<<"bags", 1>>] /\ M[<<"bags", 1>>] = want["bags"][1]
    <3>1. Len(want["bags"]) \in Nat
      BY DEF WellMeant
    <3>2. 1 \in 1 .. Len(want["bags"])
      BY <1>5, <3>1
    <3> QED
      BY <1>5, <3>2, Kinds DEF Good, Rough, Done
  <2>2. g.op = "get" /\ g.dst = x /\ g.src = "at"
    BY <1>2 DEF Instr
  <2>3. Cell(regs["at"]) = A[<<"bags", 1>>]
    <3>1. Len(M[<<"bags", 0>>]) \in Nat
      BY <1>5, <2>1 DEF World, Holds
    <3>2. 1 \in 1 .. Len(M[<<"bags", 0>>])
      BY <2>1, <3>1
    <3> QED
      BY <1>5, <1>7, <2>1, <3>2, SpotIs DEF AtSpot
  <2>4. Sets(x, A[<<"bags", 1>>], <<c>>)
    BY <1>7, <2>2, <2>3, SetsAre
  <2>5. Frame(x, A, M)' /\ lent' # x /\ want' = want
    BY <1>5, <2>4, SetsAside DEF Sets, SameMeaning
  <2>6. InReg(x, <<"bags", 1>>, A)'
    BY <2>1, <2>4, SetsCalmly DEF InReg
  <2>7. Source(x, <<"bags", 1>>, A, M)'
    BY <1>5, <2>1, <2>5, Kinds DEF Source
  <2>8. Runs(c, << >>)' /\ c = CloneInto(x, x)
    <3>1. code' = <<c>> \o << >>
      BY <1>4, <2>4 DEF Sets
    <3>2. c = CloneInto(x, x)
      BY <1>3, Kinds DEF CloneInto
    <3> QED
      BY <1>4, <3>1, <3>2, InFront DEF Runs
  <2>9. AtClone(A, M)'
    BY <2>5, <2>6, <2>7, <2>8 DEF AtClone, Into
  <2>10. Stage(A, M)'
    BY <2>9 DEF Stage
  <2> QED
    BY <2>4, <2>10 DEF Reaches, Sets
<1> QED
  BY <1>1, <1>2, <1>3, <1>6, <1>7

(* A literal's list is made. *)
LEMMA StepNew ==
  ASSUME IInv, WellMeant, NEW A, NEW M, AtNew(A, M), Acts
  PROVE  Reaches
<1>1. PICK x, es :
       /\ Runs(Instr("new", x, "", Len(es), FALSE), ItemParts(x, es, 0)) /\ Frame(x, A, M) /\ lent # x
       /\ es \in Seq(ToSet(es)) /\ Len(es) = Len(want[x]) /\ \A k \in 1 .. Len(es) : Meant(x, k, es[k])
  BY DEF AtNew
<1> DEFINE n == Len(es)
           s == Zeros(n)
           m == <<x, 0>>
<1>2. n \in Nat /\ x \in Roots
  <2>1. Len(es) \in Nat
    <3>1. es \in Seq(ToSet(es))
      BY <1>1
    <3> QED
      BY <3>1
  <2>2. x \in Vars
    BY <1>1 DEF Frame
  <2> QED
    BY <2>1, <2>2, AreRegisters
<1>3. s \in Seq(Int) /\ Len(s) = n
  BY <1>2 DEF Zeros
<1>4. PICK i : i = Instr("new", x, "", n, FALSE)
  OBVIOUS
<1> HIDE DEF n
<1>5. i.op = "new" /\ i.dst = x /\ i.n = n
  BY <1>4 DEF Instr
<1>6. PICK p \in Places : /\ ListNew(n, p) /\ Write(NewCells(n, p)) /\ Result(x, p)
                          /\ code' = ItemParts(x, es, 0) /\ SameMeaning
  <2>1. Runs(i, ItemParts(x, es, 0))
    BY <1>1, <1>4 DEF n
  <2> QED
    BY <1>5, <2>1, OthersAre
<1>7. Goes /\ Holds(p, s)' /\ AllStay(p)
  <2>1. p \in Int
    BY PlacesAre
  <2> QED
    BY <1>2, <1>6, <2>1, NewIs
<1> HIDE DEF s
<1> DEFINE B == At(A, m, p)
           N == At(M, m, s)
<1>8. World(B, N)' /\ World(A, M)
  BY <1>1, <1>7, WorldNew DEF Frame
<1>9. Changed(B, A, m, p) /\ Changed(N, M, m, s)
  BY AtIs
<1>10. Elsewhere(x, A, M, B, N)
  BY <1>8, ElsewhereAt DEF World
<1> HIDE DEF B, N
<1>11. /\ x \in DOMAIN regs' /\ regs'[x] = p
       /\ \A r : r # x /\ r \in DOMAIN regs => r \in DOMAIN regs' /\ regs'[r] = regs[r]
       /\ \A r : r # x /\ r \in DOMAIN regs' => r \in DOMAIN regs
  BY <1>6 DEF Result, Over, Only
<1>12. Frame(x, B, N)'
  <2>1. RegsKeep(Roots \ {x}) /\ (x \in DOMAIN regs => x \in DOMAIN regs')
    BY <1>11 DEF RegsKeep
  <2> QED
    BY <1>1, <1>6, <1>8, <1>10, <2>1, FrameKeeps
<1>13. InReg(x, m, B)'
  BY <1>9, <1>11 DEF InReg, Changed
<1>14. Whole(x, 1 .. n, B, N)'
  <2>1. want' = want /\ Len(want[x]) = n
    BY <1>1, <1>6 DEF SameMeaning, n
  <2>2. Rough(x, 1 .. n, B, N)'
    BY <1>3, <1>9, <2>1 DEF Rough, Changed
  <2> QED
    BY <1>12, <1>13, <2>1, <2>2 DEF Whole
<1>15. Literally(x, 1 .. n, ItemParts(x, es, 0), B)'
  <2>1. Roots \cap DOMAIN regs \subseteq DOMAIN regs'
    BY <1>11
  <2>2. \A k \in 1 .. n : Meant(x, k, es[k])'
    BY <1>1, <1>6, <2>1, MeantKeeps DEF n
  <2>3. 0 \in 0 .. n /\ 1 .. n = (0 + 1) .. n
    BY <1>2
  <2> QED
    BY <1>1, <1>2, <1>13, <2>2, <2>3 DEF Literally, n
<1>16. AtElement(B, N)'
  BY <1>6, <1>14, <1>15 DEF AtElement, Ahead
<1>17. Stage(B, N)'
  BY <1>16 DEF Stage
<1> QED
  BY <1>7, <1>17 DEF Reaches

(* What is in front runs next. *)
LEMMA RunsNext ==
  ASSUME NEW i \in Instrs, NEW rest \in Seq(Instrs), code' = <<i>> \o rest
  PROVE  Runs(i, rest)'
<1>1. /\ <<i>> \o rest # << >> /\ Head(<<i>> \o rest) = i /\ Tail(<<i>> \o rest) = rest
  BY InFront
<1> QED
  BY <1>1 DEF Runs

(* Of two instructions. *)
LEMMA RunsNextOfTwo ==
  ASSUME NEW i \in Instrs, NEW j \in Instrs, NEW rest \in Seq(Instrs), code' = <<i, j>> \o rest
  PROVE  Runs(i, <<j>> \o rest)' /\ code' = <<i>> \o (<<j>> \o rest)
<1>1. <<i, j>> \o rest = <<i>> \o (<<j>> \o rest)
  BY TwoInFront
<1>2. <<j>> \o rest \in Seq(Instrs)
  BY InFront
<1>3. code' = <<i>> \o (<<j>> \o rest)
  BY <1>1, Zenon
<1> QED
  BY <1>2, <1>3, RunsNext

(* Of three. *)
LEMMA RunsNextOfThree ==
  ASSUME NEW i \in Instrs, NEW j \in Instrs, NEW k \in Instrs, NEW rest \in Seq(Instrs),
         code' = <<i, j, k>> \o rest
  PROVE  Runs(i, <<j>> \o (<<k>> \o rest))' /\ code' = <<i>> \o (<<j>> \o (<<k>> \o rest))
<1>1. /\ <<i, j, k>> \o rest = <<i>> \o (<<j>> \o (<<k>> \o rest))
      /\ <<i, j, k>> \in Seq(Instrs)
  BY ONLY ThreeInFront
<1>2. <<k>> \o rest \in Seq(Instrs)
  BY InFront
<1>3. <<j>> \o (<<k>> \o rest) \in Seq(Instrs)
  BY <1>2, InFront
<1>4. code' = <<i>> \o (<<j>> \o (<<k>> \o rest))
  BY <1>1, Zenon
<1> QED
  BY <1>3, <1>4, RunsNext

(* And what is in front runs now. *)
LEMMA RunsNow ==
  ASSUME NEW i \in Instrs, NEW rest \in Seq(Instrs), code = <<i>> \o rest
  PROVE  Runs(i, rest)
<1>1. /\ <<i>> \o rest # << >> /\ Head(<<i>> \o rest) = i /\ Tail(<<i>> \o rest) = rest
  BY InFront
<1> QED
  BY <1>1 DEF Runs

(* A number is next, and then what is done with it. *)
LEMMA ConstStage ==
  ASSUME NEW A, NEW M, NEW v \in Int, NEW rest \in Seq(Instrs), Uses(v, rest, A, M)',
         code' = <<Instr("const", "t", "", v, FALSE)>> \o rest
  PROVE  Stage(A, M)'
<1>1. PICK i : i = Instr("const", "t", "", v, FALSE)
  OBVIOUS
<1>2. i \in Instrs
  BY <1>1, AreRegisters, IsInstr
<1>3. code' = <<i>> \o rest
  BY <1>1
<1>4. Runs(i, rest)'
  BY <1>2, <1>3, RunsNext
<1>5. AtConst(A, M)'
  BY <1>1, <1>4 DEF AtConst
<1> QED
  BY <1>5 DEF Stage

(* A first element is. *)
LEMMA HeadStage ==
  ASSUME NEW A, NEW M, NEW v, NEW y \in Roots, NEW n, NEW rest \in Seq(Instrs), Uses(v, rest, A, M)',
         InReg(y, n, A)', Len(M[n]) >= 1, M[n][1] = v,
         code' = <<Instr("elem", "u", y, 0, FALSE)>> \o (<<GetT>> \o rest)
  PROVE  Stage(A, M)'
<1>1. PICK i : i = Instr("elem", "u", y, 0, FALSE)
  OBVIOUS
<1>2. PICK g : g = GetT
  OBVIOUS
<1>3. i \in Instrs /\ g \in Instrs
  BY <1>1, <1>2, AreRegisters, IsPlainInstr DEF GetT
<1>4. code' = <<i>> \o (<<g>> \o rest)
  BY <1>1, <1>2
<1>5. <<g>> \o rest \in Seq(Instrs)
  BY <1>3, InFront
<1>6. Runs(i, <<g>> \o rest)'
  BY <1>3, <1>4, <1>5, RunsNext
<1>7. AtHead(A, M)'
  BY <1>1, <1>2, <1>6 DEF AtHead
<1> QED
  BY <1>7 DEF Stage

(* An item that reads an element reads what it is to be. *)
LEMMA HeadIs ==
  ASSUME WellMeant, NEW A, NEW M, NEW x, Frame(x, A, M), NEW y \in Readable, Known(y), Named(y) # x,
         want[Named(y)] # << >>
  PROVE  /\ y \in Roots /\ InReg(y, <<Named(y), 0>>, A)
         /\ Len(M[<<Named(y), 0>>]) >= 1 /\ M[<<Named(y), 0>>][1] = Head(want[Named(y)])
         /\ Head(want[Named(y)]) \in Int
<1>1. InReg(y, <<Named(y), 0>>, A) /\ M[<<Named(y), 0>>] = want[Named(y)] /\ Named(y) \in Numbered
  BY ReadAs
<1>2. y \in Roots
  BY AreRegisters
<1>3. want[Named(y)] \in Seq(Int)
  BY <1>1 DEF WellMeant
<1>4. \A s \in Seq(Int) : s # << >> => Len(s) >= 1 /\ s[1] = Head(s) /\ Head(s) \in Int
  OBVIOUS
<1> QED
  BY <1>1, <1>2, <1>3, <1>4

(* The code of an item is a stage of the statement. *)
LEMMA ItemStage ==
  ASSUME WellMeant, NEW A, NEW M, NEW x, NEW S, NEW k \in S, NEW e, NEW rest \in Seq(Instrs),
         Whole(x, S, A, M), Meant(x, k, e), Ahead(x, S \ {k}, S, rest, A, M),
         Calm, AtSpot("at", x, k, A)', code' = ItemCode(e, "at") \o rest
  PROVE  Stage(A, M)'
<1>1. Whole(x, S, A, M)' /\ Ahead(x, S \ {k}, S, rest, A, M)' /\ want' = want
  BY CalmGoesOn, CalmAhead DEF Calm, SameMeaning
<1>2. PICK q : q = PutT
  OBVIOUS
<1>3. q \in Instrs
  BY <1>2, AreRegisters, IsPlainInstr DEF PutT
<1>4. ASSUME NEW v \in Int, v = want[x][k], x \in Numbered PROVE Uses(v, <<q>> \o rest, A, M)'
  BY <1>1, <1>2, <1>4 DEF Uses
<1>5. <<q>> \o rest \in Seq(Instrs)
  BY <1>3, InFront
<1>6. CASE x \in Numbered /\ e = Num(e.n) /\ e.n \in Int /\ want[x][k] = e.n
  <2>1. PICK i : i = Instr("const", "t", "", e.n, FALSE)
    OBVIOUS
  <2>2. i \in Instrs
    BY <1>6, <2>1, AreRegisters, IsInstr
  <2>3. ItemCode(e, "at") = <<i, q>>
    BY <1>2, <1>6, <2>1, ItemsAre, ItemCodeIs DEF PutT
  <2>4. code' = <<i>> \o (<<q>> \o rest)
    <3>1. <<i, q>> \o rest = <<i>> \o (<<q>> \o rest)
      BY <1>3, <2>2, TwoInFront
    <3> QED
      BY <2>3, <3>1, Zenon
  <2>5. Uses(e.n, <<q>> \o rest, A, M)'
    BY <1>4, <1>6
  <2> QED
    BY <1>5, <1>6, <2>1, <2>4, <2>5, ConstStage
<1>7. CASE /\ x \in Numbered /\ e = HeadOf(e.name) /\ e.name \in Readable /\ Known(e.name)
           /\ Named(e.name) # x /\ want[Named(e.name)] # << >>
           /\ want[x][k] = Head(want[Named(e.name)])
  <2> DEFINE y == e.name
  <2>a. PICK n : n = <<Named(y), 0>>
    OBVIOUS
  <2>b. PICK v : v = Head(want[Named(y)])
    OBVIOUS
  <2>1. PICK i : i = Instr("elem", "u", y, 0, FALSE)
    OBVIOUS
  <2>2. PICK g : g = GetT
    OBVIOUS
  <2>3. i \in Instrs /\ g \in Instrs
    BY <1>7, <2>1, <2>2, AreRegisters, IsPlainInstr DEF GetT
  <2>4. ItemCode(e, "at") = <<i, g, q>>
    BY <1>2, <1>7, <2>1, <2>2, ItemsAre, ItemCodeIs DEF PutT, GetT
  <2>5. code' = <<i>> \o (<<g>> \o (<<q>> \o rest))
    <3>1. code' = <<i, g, q>> \o rest
      BY <2>4, Zenon
    <3> QED
      BY <1>3, <2>3, <3>1, RunsNextOfThree
  <2>6. y \in Roots /\ InReg(y, n, A) /\ Len(M[n]) >= 1 /\ M[n][1] = v /\ v \in Int
    <3>1. Frame(x, A, M)
      BY DEF Whole
    <3>2. /\ y \in Roots /\ InReg(y, <<Named(y), 0>>, A)
          /\ Len(M[<<Named(y), 0>>]) >= 1 /\ M[<<Named(y), 0>>][1] = Head(want[Named(y)])
          /\ Head(want[Named(y)]) \in Int
      BY <1>7, <3>1, HeadIs
    <3> QED
      BY <2>a, <2>b, <3>2
  <2>7. InReg(y, n, A)'
    BY <2>6, CalmKeeps
  <2>8. Uses(v, <<q>> \o rest, A, M)'
    BY <1>4, <1>7, <2>6, <2>b
  <2> HIDE DEF y
  <2>9. code' = <<Instr("elem", "u", y, 0, FALSE)>> \o (<<GetT>> \o (<<q>> \o rest))
    BY <2>1, <2>2, <2>5
  <2> QED
    BY <1>5, <2>6, <2>7, <2>8, <2>9, HeadStage
<1>8. CASE /\ HoldsLists(x) /\ e = BagOf(e.name) /\ e.name \in Numbered /\ Known(e.name)
           /\ want[x][k] = want[e.name]
  <2>a. PICK b : b = e.name
    OBVIOUS
  <2> DEFINE n == <<b, 0>>
  <2>1. PICK i : i = Instr("put", "at", b, 0, FALSE)
    OBVIOUS
  <2>2. PICK f : f = FixupAt("at")
    OBVIOUS
  <2>3. i \in Instrs /\ f \in Instrs
    BY <1>8, <2>a, <2>1, <2>2, AreRegisters, IsPlainInstr DEF FixupAt
  <2>4. ItemCode(e, "at") = <<i, f>>
    BY <1>8, <2>a, <2>1, <2>2, ItemsAre, ItemCodeIs DEF FixupAt
  <2>5. code' = <<i, f>> \o rest
    BY <2>4, Zenon
  <2>6. b # x /\ b \in Readable /\ b # "p"
    BY <1>8, <2>a, Kinds DEF Readable
  <2>7. Named(b) = b
    BY <2>6 DEF Named
  <2>8. InReg(b, n, A) /\ M[n] = want[b]
    <3>1. Frame(x, A, M) /\ Known(b) /\ Named(b) # x
      BY <1>1, <1>8, <2>a, <2>6, <2>7 DEF Whole
    <3>2. InReg(b, <<Named(b), 0>>, A) /\ M[<<Named(b), 0>>] = want[Named(b)]
      BY <2>6, <3>1, ReadAs
    <3> QED
      BY <2>7, <3>2
  <2>9. Borrowed(A[n], x, k, S, A, M)
    BY <1>8, <2>a, <2>6, <2>8 DEF Borrowed, InReg
  <2>10. InReg(b, n, A)' /\ Borrowed(A[n], x, k, S, A, M)'
    BY <1>8, <2>a, <2>8, <2>9, AreRegisters, CalmKeeps, CalmAhead
  <2>11. Runs(i, <<f>> \o rest)'
    BY <2>3, <2>5, RunsNextOfTwo
  <2>12. AtPutObject(A, M)'
    BY <1>1, <1>8, <2>a, <2>1, <2>2, <2>10, <2>11 DEF AtPutObject
  <2> QED
    BY <2>12 DEF Stage
<1> QED
  BY <1>6, <1>7, <1>8 DEF Meant

(* The next element of a literal, or the next copied object. *)
LEMMA StepElement ==
  ASSUME IInv, WellMeant, NEW A, NEW M, AtElement(A, M), Acts, code # << >>
  PROVE  Reaches
<1>1. PICK x, S : Whole(x, S, A, M) /\ Ahead(x, S, S, code, A, M)
  BY DEF AtElement
<1>2. "at" \notin Roots
  BY DEF Roots, Vars, Numbered
<1>3. World(A, M) /\ InReg(x, <<x, 0>>, A)
  BY <1>1 DEF Whole, Frame
<1>4. CASE Literally(x, S, code, A)
  <2>1. PICK r \in Roots : \E es, j :
       /\ es \in Seq(ToSet(es)) /\ j \in 0 .. Len(es) /\ InReg(r, <<x, 0>>, A)
       /\ S = (j + 1) .. Len(es) /\ code = ItemParts(r, es, j)
       /\ \A k \in S : Meant(x, k, es[k])
    BY <1>4 DEF Literally
  <2>2. PICK es, j :
       /\ es \in Seq(ToSet(es)) /\ j \in 0 .. Len(es) /\ InReg(r, <<x, 0>>, A)
       /\ S = (j + 1) .. Len(es) /\ code = ItemParts(r, es, j)
       /\ \A k \in S : Meant(x, k, es[k])
    BY <2>1
  <2>3. Len(es) \in Nat
    <3>1. es \in Seq(ToSet(es))
      BY <2>2
    <3> QED
      BY <3>1
  <2> DEFINE k == j + 1
             rest == ItemParts(r, es, k)
             e == es[k]
             more == ItemCode(e, "at")
  <2>4. j \in 0 .. Len(es) /\ \A l \in (j + 1) .. Len(es) : Meant(x, l, es[l])
    BY <2>2
  <2>5. j < Len(es)
    <3>1. j # Len(es)
      BY <2>2, <2>3, <2>4, ItemPartsAre
    <3> QED
      BY <2>3, <2>4, <3>1
  <2>6. code = ItemPart(r, es, k) \o rest /\ rest \in Seq(Instrs)
    <3>1. /\ ItemParts(r, es, j) = ItemPart(r, es, j + 1) \o ItemParts(r, es, j + 1)
          /\ ItemParts(r, es, j + 1) \in Seq(Instrs)
      BY <2>3, <2>4, <2>5, ItemPartsAre
    <3>2. code = ItemParts(r, es, j)
      BY <2>2
    <3> QED
      BY <3>1, <3>2, Zenon
  <2>7. k \in S /\ k \in Int /\ k \in 0 .. Len(es) /\ S \ {k} = (k + 1) .. Len(es) /\ k - 1 \in Int
    BY <2>2, <2>3, <2>4, <2>5
  <2>8. Meant(x, k, e)
    BY <2>2, <2>7
  <2>9. more \in Seq(Instrs)
    BY <2>8, ItemIsCode
  <2>10. PICK i : i = Instr("elem", "at", r, k - 1, FALSE)
    OBVIOUS
  <2>11. i \in Instrs
    BY <2>7, <2>10, AreRegisters, IsInstr
  <2>12. ItemPart(r, es, k) = <<i>> \o more
    BY <2>10 DEF ItemPart
  <2>13. Ahead(x, S \ {k}, S, rest, A, M)
    BY <2>2, <2>7 DEF Ahead, Literally
  <2> HIDE DEF k, rest, e, more
  <2>14. Runs(i, more \o rest)
    <3>1. <<i>> \in Seq(Instrs)
      BY <2>11
    <3>2. Regroups(<<i>>, more, rest)
      BY <2>6, <2>9, <3>1, ConcatAssociates
    <3>3. code = <<i>> \o (more \o rest)
      BY <2>6, <2>12, <3>2 DEF Regroups
    <3>4. more \o rest \in Seq(Instrs)
      BY <2>6, <2>9
    <3> QED
      BY <2>11, <3>3, <3>4, InFront DEF Runs
  <2>15. Sets("at", Spot(A[<<x, 0>>], k), more \o rest)
    BY <1>3, <2>2, <2>7, <2>10, <2>14, ElemIs
  <2>16. Calm /\ AtSpot("at", x, k, A)' /\ code' = more \o rest
    BY <1>2, <2>15, SetsCalmly DEF AtSpot, Sets
  <2>17. Stage(A, M)'
    BY <1>1, <2>6, <2>7, <2>8, <2>13, <2>16, ItemStage DEF more
  <2> QED
    BY <2>15, <2>17 DEF Reaches, Sets
<1>5. CASE ByCopying(x, S, S, code, A, M)
  <2>1. PICK n \in Nat : \E j \in 0 .. n :
       /\ HoldsLists(x)
       /\ S = (j + 1) .. n /\ code = CopyParts(x, n, j)
       /\ \A k \in S : Borrowed(M[<<x, 0>>][k], x, k, S, A, M)
    BY <1>5 DEF ByCopying
  <2>2. PICK j \in 0 .. n :
       /\ HoldsLists(x)
       /\ S = (j + 1) .. n /\ code = CopyParts(x, n, j)
       /\ \A k \in S : Borrowed(M[<<x, 0>>][k], x, k, S, A, M)
    BY <2>1
  <2> DEFINE k == j + 1
             rest == CopyParts(x, n, k)
  <2>3. x \in Roots
    BY <2>2, Kinds, AreRegisters
  <2>4. j < n
    <3>1. j # n
      BY <2>2, <2>3, CopyPartsAre
    <3> QED
      BY <3>1
  <2>5. code = CopyPart(x, k) \o rest /\ rest \in Seq(Instrs)
    BY <2>2, <2>3, <2>4, CopyPartsAre
  <2>6. k \in S /\ k \in Int /\ k \in 0 .. n /\ S \ {k} = (k + 1) .. n /\ k - 1 \in Int
    BY <2>2, <2>4
  <2>7. PICK i : i = Instr("elem", "at", x, k - 1, FALSE)
    OBVIOUS
  <2>8. PICK f : f = FixupAt("at")
    OBVIOUS
  <2>9. i \in Instrs /\ f \in Instrs
    BY <2>3, <2>6, <2>7, <2>8, AreRegisters, IsInstr, IsPlainInstr DEF FixupAt
  <2>10. CopyPart(x, k) = <<i, f>>
    BY <2>7, <2>8 DEF CopyPart, FixupAt
  <2>11. Ahead(x, S \ {k}, S, rest, A, M)
    BY <2>2, <2>6 DEF Ahead, ByCopying
  <2>12. Borrowed(M[<<x, 0>>][k], x, k, S, A, M)
    BY <2>2, <2>6
  <2> HIDE DEF k, rest
  <2>13. code = <<i>> \o (<<f>> \o rest) /\ <<f>> \o rest \in Seq(Instrs)
    <3>1. <<i, f>> \o rest = <<i>> \o (<<f>> \o rest) /\ <<f>> \o rest \in Seq(Instrs)
      BY <2>5, <2>9, TwoInFront, InFront
    <3>2. code = <<i, f>> \o rest
      BY <2>5, <2>10, Zenon
    <3> QED
      BY <3>1, <3>2
  <2>14. Runs(i, <<f>> \o rest)
    BY <2>9, <2>13, RunsNow
  <2>15. Sets("at", Spot(A[<<x, 0>>], k), <<f>> \o rest)
    BY <1>3, <2>6, <2>7, <2>14, ElemIs
  <2>16. Calm /\ AtSpot("at", x, k, A)' /\ code' = <<f>> \o rest
    BY <1>2, <2>15, SetsCalmly DEF AtSpot, Sets
  <2>17. Runs(f, rest)'
    BY <2>5, <2>9, <2>16, RunsNext
  <2>18. /\ Whole(x, S, A, M)' /\ Ahead(x, S \ {k}, S, rest, A, M)'
         /\ Borrowed(M[<<x, 0>>][k], x, k, S, A, M)'
    BY <1>1, <2>11, <2>12, <2>16, CalmGoesOn, CalmAhead
  <2>19. AtFixup(A, M)'
    BY <2>2, <2>6, <2>8, <2>16, <2>17, <2>18, AreRegisters DEF AtFixup
  <2>20. Stage(A, M)'
    BY <2>19 DEF Stage
  <2> QED
    BY <2>15, <2>20 DEF Reaches, Sets
<1> QED
  BY <1>1, <1>4, <1>5 DEF Ahead

(* B and N are A and M but for the k-th element of x. *)
OnlyAt(x, k, A, M, B, N) ==
    /\ \A m \in DOMAIN A : m # <<x, 0>> /\ m # <<x, k>> => m \in DOMAIN B /\ B[m] = A[m] /\ N[m] = M[m]
    /\ <<x, 0>> \in DOMAIN B /\ B[<<x, 0>>] = A[<<x, 0>>]
    /\ Len(N[<<x, 0>>]) = Len(M[<<x, 0>>])
    /\ \A j \in 1 .. Len(M[<<x, 0>>]) : j # k => N[<<x, 0>>][j] = M[<<x, 0>>][j]

(* The variable keeps the rest of what it has. *)
LEMMA WholeKeeps ==
  ASSUME NEW x, NEW S, NEW A, NEW M, Whole(x, S, A, M), NEW k \in S, NEW B, NEW N, World(B, N)',
         OnlyAt(x, k, A, M, B, N), SameMeaning, regs' = regs
  PROVE  /\ Frame(x, B, N)' /\ InReg(x, <<x, 0>>, B)' /\ RegsKeep(Roots)
         /\ Len(N[<<x, 0>>]) = Len(want'[x]) /\ <<x, 0>> \in DOMAIN B /\ S \subseteq 1 .. Len(want'[x])
         /\ \A j \in (1 .. Len(want'[x])) \ S : Done(x, j, B, N)'
<1>1. want' = want
  BY DEF SameMeaning
<1>2. \A j : j # 0 /\ j # k => (<<x, j>> # <<x, 0>> /\ <<x, j>> # <<x, k>>)
  OBVIOUS
<1>3. Elsewhere(x, A, M, B, N)
  BY DEF Elsewhere, OnlyAt
<1>4. RegsKeep(Roots) /\ RegsKeep(Roots \ {x}) /\ (x \in DOMAIN regs => x \in DOMAIN regs')
  BY DEF RegsKeep
<1>5. Frame(x, B, N)'
  BY <1>3, <1>4, FrameKeeps DEF Whole, OnlyAt
<1>6. InReg(x, <<x, 0>>, B)'
  BY DEF InReg, Whole, OnlyAt
<1>7. /\ Len(N[<<x, 0>>]) = Len(want[x]) /\ Len(M[<<x, 0>>]) = Len(want[x]) /\ <<x, 0>> \in DOMAIN B
      /\ S \subseteq 1 .. Len(want[x])
  BY DEF Whole, Rough, OnlyAt
<1>8. ASSUME NEW j \in (1 .. Len(want[x])) \ S PROVE Done(x, j, B, N)'
  <2>1. Done(x, j, A, M)
    BY DEF Whole, Rough
  <2>2. j # k /\ j # 0
    OBVIOUS
  <2>3. N[<<x, 0>>][j] = M[<<x, 0>>][j]
    BY <1>7, <2>2 DEF OnlyAt
  <2>4. <<x, j>> \in DOMAIN A => <<x, j>> \in DOMAIN B /\ B[<<x, j>>] = A[<<x, j>>] /\ N[<<x, j>>] = M[<<x, j>>]
    BY <1>2, <2>2 DEF OnlyAt
  <2> QED
    BY <1>1, <2>1, <2>3, <2>4 DEF Done
<1> QED
  BY <1>1, <1>4, <1>5, <1>6, <1>7, <1>8

(* What is still to be done is. *)
LEMMA AheadKeeps ==
  ASSUME NEW x, NEW S, NEW T, NEW rest, NEW A, NEW M, Ahead(x, S, T, rest, A, M), NEW B, NEW N,
         NEW k, k \notin S, k \in T, NEW U, U \subseteq T, S \subseteq 1 .. Len(M[<<x, 0>>]),
         OnlyAt(x, k, A, M, B, N), SameMeaning, RegsKeep(Roots)
  PROVE  Ahead(x, S, U, rest, B, N)'
<1>a. /\ \A m \in DOMAIN A : m # <<x, 0>> /\ m # <<x, k>> => m \in DOMAIN B /\ B[m] = A[m] /\ N[m] = M[m]
      /\ <<x, 0>> \in DOMAIN B /\ B[<<x, 0>>] = A[<<x, 0>>]
  BY DEF OnlyAt
<1>b. \A j \in S : N[<<x, 0>>][j] = M[<<x, 0>>][j]
  BY DEF OnlyAt
<1>1. CASE Literally(x, S, rest, A)
  <2>1. PICK r \in Roots : \E es, j :
          /\ es \in Seq(ToSet(es)) /\ j \in 0 .. Len(es) /\ InReg(r, <<x, 0>>, A)
          /\ S = (j + 1) .. Len(es) /\ rest = ItemParts(r, es, j)
          /\ \A i \in S : Meant(x, i, es[i])
    BY <1>1 DEF Literally
  <2>2. PICK es, j :
          /\ es \in Seq(ToSet(es)) /\ j \in 0 .. Len(es) /\ InReg(r, <<x, 0>>, A)
          /\ S = (j + 1) .. Len(es) /\ rest = ItemParts(r, es, j)
          /\ \A i \in S : Meant(x, i, es[i])
    BY <2>1
  <2>3. InReg(r, <<x, 0>>, B)'
    BY <1>a, <2>2 DEF InReg, RegsKeep
  <2>4. \A i \in S : Meant(x, i, es[i])'
    <3>1. Roots \cap DOMAIN regs \subseteq DOMAIN regs'
      BY DEF RegsKeep
    <3> QED
      BY <2>2, <3>1, MeantKeeps
  <2>5. Literally(x, S, rest, B)'
    BY <2>2, <2>3, <2>4 DEF Literally
  <2> QED
    BY <2>5 DEF Ahead
<1>2. CASE ByCopying(x, S, T, rest, A, M)
  <2>1. ASSUME NEW i \in S, Borrowed(M[<<x, 0>>][i], x, i, T, A, M)
        PROVE  Borrowed(N[<<x, 0>>][i], x, i, U, B, N)'
    <3>1. PICK m \in DOMAIN A : /\ m # <<x, 0>> /\ \A j \in T \ {i} : m # <<x, j>>
                                /\ M[<<x, 0>>][i] = A[m] /\ M[m] = want[x][i]
      BY <2>1 DEF Borrowed
    <3>2. m # <<x, k>>
      BY <3>1
    <3> QED
      BY <1>a, <1>b, <3>1, <3>2 DEF Borrowed, SameMeaning
  <2>2. ByCopying(x, S, U, rest, B, N)'
    BY <1>2, <2>1 DEF ByCopying
  <2> QED
    BY <2>2 DEF Ahead
<1> QED
  BY <1>1, <1>2 DEF Ahead

(* With one less. *)
LEMMA AheadGoesOn ==
  ASSUME NEW x, NEW S, NEW A, NEW M, Whole(x, S, A, M), NEW k \in S, NEW B, NEW N,
         OnlyAt(x, k, A, M, B, N), SameMeaning, RegsKeep(Roots),
         NEW rest, Ahead(x, S \ {k}, S, rest, A, M)
  PROVE  Ahead(x, S \ {k}, S, rest, B, N)' /\ Ahead(x, S \ {k}, S \ {k}, rest, B, N)'
<1>1. PICK V : V = S \ {k}
  OBVIOUS
<1>2. k \notin V /\ V \subseteq S /\ S \subseteq S
  BY <1>1
<1>3. V \subseteq 1 .. Len(M[<<x, 0>>])
  BY <1>1 DEF Whole, Rough
<1>4. Ahead(x, V, S, rest, A, M)
  BY <1>1
<1>5. Ahead(x, V, S, rest, B, N)'
  BY <1>2, <1>3, <1>4, AheadKeeps
<1>6. Ahead(x, V, V, rest, B, N)'
  BY <1>2, <1>3, <1>4, AheadKeeps
<1> QED
  BY <1>1, <1>5, <1>6

(* An element that is now what it is to be leaves the others. *)
LEMMA Filled ==
  ASSUME NEW x, NEW S, NEW A, NEW M, Whole(x, S, A, M), NEW k \in S, NEW B, NEW N, World(B, N)',
         OnlyAt(x, k, A, M, B, N), SameMeaning, regs' = regs, Done(x, k, B, N)',
         NEW rest, Ahead(x, S \ {k}, S, rest, A, M), code' = rest
  PROVE  Stage(B, N)'
<1>1. /\ Frame(x, B, N)' /\ InReg(x, <<x, 0>>, B)' /\ RegsKeep(Roots)
      /\ Len(N[<<x, 0>>]) = Len(want'[x]) /\ <<x, 0>> \in DOMAIN B /\ S \subseteq 1 .. Len(want'[x])
      /\ \A j \in (1 .. Len(want'[x])) \ S : Done(x, j, B, N)'
  BY WholeKeeps
<1>2. \A j \in (1 .. Len(want'[x])) \ (S \ {k}) : Done(x, j, B, N)'
  BY <1>1
<1>3. Whole(x, S \ {k}, B, N)'
  BY <1>1, <1>2 DEF Whole, Rough
<1>5. Ahead(x, S \ {k}, S \ {k}, rest, B, N)'
  BY <1>1, AheadGoesOn
<1>6. AtElement(B, N)'
  BY <1>3, <1>5 DEF AtElement
<1> QED
  BY <1>6 DEF Stage

(* The k-th element of x written. *)
Written(x, k, v, M) == At(M, <<x, 0>>, [M[<<x, 0>>] EXCEPT ![k] = v])

(* It is as it was, but for that. *)
LEMMA WrittenIs ==
  ASSUME NEW x, NEW A, NEW M, World(A, M), <<x, 0>> \in DOMAIN A, NEW k \in 1 .. Len(M[<<x, 0>>]), NEW v
  PROVE  /\ OnlyAt(x, k, A, M, A, Written(x, k, v, M)) /\ Written(x, k, v, M)[<<x, 0>>][k] = v
         /\ \A m \in DOMAIN A : m # <<x, 0>> => Written(x, k, v, M)[m] = M[m]
<1> DEFINE s == M[<<x, 0>>]
           t == [s EXCEPT ![k] = v]
           N == Written(x, k, v, M)
<1>1. s \in Seq(Int)
  BY DEF World, Holds
<1>2. Changed(N, M, <<x, 0>>, t) /\ DOMAIN M = DOMAIN A
  BY AtIs DEF World, Written
<1> HIDE DEF s, N
<1>3. Len(t) = Len(s) /\ t[k] = v /\ \A j \in 1 .. Len(s) : j # k => t[j] = s[j]
  BY <1>1 DEF s
<1> HIDE DEF t
<1>4. N[<<x, 0>>] = t /\ \A m \in DOMAIN A : m # <<x, 0>> => N[m] = M[m]
  BY <1>2 DEF Changed
<1>5. OnlyAt(x, k, A, M, A, N) /\ N[<<x, 0>>][k] = v /\ \A m \in DOMAIN A : m # <<x, 0>> => N[m] = M[m]
  BY <1>3, <1>4 DEF s, OnlyAt
<1> QED
  BY <1>5 DEF N

(* What a store leaves. *)
LEMMA PutIs ==
  ASSUME IInv, NEW x, NEW A, NEW M, World(A, M), <<x, 0>> \in DOMAIN A, NEW k \in 1 .. Len(M[<<x, 0>>]),
         NEW v \in Int, Write(Only(Spot(A[<<x, 0>>], k), v)), Quiet
  PROVE  Goes /\ World(A, Written(x, k, v, M))'
<1> DEFINE s == M[<<x, 0>>]
           q == A[<<x, 0>>]
<1>1. PICK t : t = [s EXCEPT ![k] = v]
  OBVIOUS
<1>2. Holds(q, s)
  BY DEF World
<1>3. Goes /\ Holds(q, t)' /\ \A l, u : Holds(l, u) /\ l # q => Holds(l, u)'
  BY <1>1, <1>2, StoreIs
<1>4. World(A, At(M, <<x, 0>>, t))'
  BY <1>3, WorldWritten
<1> QED
  BY <1>1, <1>3, <1>4 DEF Written

(* An element is written. *)
LEMMA StepPut ==
  ASSUME IInv, NEW A, NEW M, AtPut(A, M), Acts
  PROVE  Reaches
<1>1. PICK x, S, k, rest : \E t \in {"t", "held"} :
       /\ Runs(Instr("put", "at", t, 0, FALSE), rest) /\ Whole(x, S, A, M) /\ k \in S
       /\ AtSpot("at", x, k, A) /\ t \in DOMAIN regs /\ Fills(x, k, regs[t], A, M)
       /\ Ahead(x, S \ {k}, S, rest, A, M)
  BY DEF AtPut
<1>2. PICK r \in {"t", "held"} :
       /\ Runs(Instr("put", "at", r, 0, FALSE), rest) /\ Whole(x, S, A, M) /\ k \in S
       /\ AtSpot("at", x, k, A) /\ r \in DOMAIN regs /\ Fills(x, k, regs[r], A, M)
       /\ Ahead(x, S \ {k}, S, rest, A, M)
  BY <1>1
<1>3. PICK i : i = Instr("put", "at", r, 0, FALSE)
  OBVIOUS
<1>4. i.op = "put" /\ i.dst = "at" /\ i.src = r
  BY <1>3 DEF Instr
<1>5. PICK v : v = regs[r]
  OBVIOUS
<1> DEFINE q == A[<<x, 0>>]
           s == M[<<x, 0>>]
<1>6. /\ World(A, M) /\ <<x, 0>> \in DOMAIN A /\ k \in 1 .. Len(s) /\ Holds(q, s) /\ S \subseteq 1 .. Len(s)
      /\ Len(s) = Len(want[x])
  BY <1>2 DEF Whole, Frame, Rough, World
<1>7. v \in Int
  BY <1>2, <1>5 DEF Fills, Whole, Frame, World, Holds
<1>8. /\ Quiet /\ Write(Only(Spot(q, k), v)) /\ regs' = regs /\ code' = rest /\ SameMeaning
  BY <1>2, <1>3, <1>4, <1>5, OthersAre DEF AtSpot
<1> DEFINE N == Written(x, k, v, M)
<1>9. Goes
  BY <1>6, <1>7, <1>8, PutIs
<1>10. World(A, N)'
  BY <1>6, <1>7, <1>8, PutIs
<1>11. /\ OnlyAt(x, k, A, M, A, N) /\ N[<<x, 0>>][k] = v
       /\ \A m \in DOMAIN A : m # <<x, 0>> => N[m] = M[m]
  BY <1>6, WrittenIs
<1> HIDE DEF N, q, s
<1>12. Done(x, k, A, N)'
  <2>1. want' = want /\ <<x, k>> # <<x, 0>>
    BY <1>6, <1>8 DEF SameMeaning
  <2> QED
    BY <1>2, <1>5, <1>11, <2>1 DEF Done, Fills
<1>13. Stage(A, N)'
  BY <1>2, <1>8, <1>10, <1>11, <1>12, Filled
<1> QED
  BY <1>9, <1>13 DEF Reaches

(* An object to be copied is written. *)
LEMMA StepPutObject ==
  ASSUME IInv, NEW A, NEW M, AtPutObject(A, M), Acts
  PROVE  Reaches
<1>1. PICK x, S, k, n : \E b \in Numbered : \E more \in Seq(Instrs) :
       /\ Runs(Instr("put", "at", b, 0, FALSE), <<FixupAt("at")>> \o more)
       /\ HoldsLists(x) /\ Whole(x, S, A, M) /\ k \in S /\ AtSpot("at", x, k, A)
       /\ InReg(b, n, A) /\ Borrowed(A[n], x, k, S, A, M) /\ Ahead(x, S \ {k}, S, more, A, M)
  BY DEF AtPutObject
<1>2. PICK b \in Numbered, more \in Seq(Instrs) :
       /\ Runs(Instr("put", "at", b, 0, FALSE), <<FixupAt("at")>> \o more)
       /\ HoldsLists(x) /\ Whole(x, S, A, M) /\ k \in S /\ AtSpot("at", x, k, A)
       /\ InReg(b, n, A) /\ Borrowed(A[n], x, k, S, A, M) /\ Ahead(x, S \ {k}, S, more, A, M)
  BY <1>1
<1>3. PICK i : i = Instr("put", "at", b, 0, FALSE)
  OBVIOUS
<1>4. PICK f : f = FixupAt("at")
  OBVIOUS
<1>5. i.op = "put" /\ i.dst = "at" /\ i.src = b /\ f \in Instrs
  BY <1>3, <1>4, IsPlainInstr, AreRegisters DEF Instr, FixupAt
<1> DEFINE q == A[<<x, 0>>]
           s == M[<<x, 0>>]
           v == A[n]
<1>6. /\ World(A, M) /\ <<x, 0>> \in DOMAIN A /\ k \in 1 .. Len(s) /\ Holds(q, s)
      /\ Len(s) = Len(want[x]) /\ v \in Int /\ regs[b] = v
  BY <1>2 DEF Whole, Frame, Rough, World, InReg, Holds
<1>7. /\ Quiet /\ Write(Only(Spot(q, k), v)) /\ regs' = regs /\ code' = <<f>> \o more /\ SameMeaning
  BY <1>2, <1>3, <1>4, <1>5, <1>6, OthersAre DEF AtSpot
<1> DEFINE N == Written(x, k, v, M)
<1>8. Goes
  BY <1>6, <1>7, PutIs
<1>9. World(A, N)'
  BY <1>6, <1>7, PutIs
<1>10. /\ OnlyAt(x, k, A, M, A, N) /\ N[<<x, 0>>][k] = v
       /\ \A m \in DOMAIN A : m # <<x, 0>> => N[m] = M[m]
  BY <1>6, WrittenIs
<1> HIDE DEF N, q, s
<1>11. want' = want
  BY <1>7 DEF SameMeaning
<1>12. /\ Whole(x, S, A, N)' /\ RegsKeep(Roots)
  <2>1. /\ Frame(x, A, N)' /\ InReg(x, <<x, 0>>, A)' /\ RegsKeep(Roots)
        /\ Len(N[<<x, 0>>]) = Len(want'[x]) /\ <<x, 0>> \in DOMAIN A /\ S \subseteq 1 .. Len(want'[x])
        /\ \A j \in (1 .. Len(want'[x])) \ S : Done(x, j, A, N)'
    BY <1>2, <1>7, <1>9, <1>10, WholeKeeps
  <2> QED
    BY <2>1 DEF Whole, Rough
<1>13. Borrowed(N[<<x, 0>>][k], x, k, S, A, N)'
  BY <1>2, <1>10, <1>11 DEF Borrowed
<1>14. Ahead(x, S \ {k}, S, more, A, N)'
  BY <1>2, <1>7, <1>10, <1>12, AheadGoesOn
<1>15. AtSpot("at", x, k, A)'
  BY <1>2, <1>7 DEF AtSpot
<1>16. Runs(f, more)'
  BY <1>5, <1>7, RunsNext
<1>17. AtFixup(A, N)'
  BY <1>2, <1>4, <1>12, <1>13, <1>14, <1>15, <1>16, AreRegisters DEF AtFixup
<1>18. Stage(A, N)'
  BY <1>17 DEF Stage
<1> QED
  BY <1>8, <1>18 DEF Reaches

(* An object is given a list of its own. *)
LEMMA StepFixup ==
  ASSUME IInv, NEW A, NEW M, AtFixup(A, M), Acts
  PROVE  Reaches
<1>1. PICK x, S, k, rest : \E r \in Registers :
       /\ Runs(FixupAt(r), rest) /\ HoldsLists(x) /\ Whole(x, S, A, M) /\ k \in S
       /\ AtSpot(r, x, k, A) /\ Borrowed(M[<<x, 0>>][k], x, k, S, A, M)
       /\ Ahead(x, S \ {k}, S, rest, A, M)
  BY DEF AtFixup
<1>2. PICK r \in Registers :
       /\ Runs(FixupAt(r), rest) /\ HoldsLists(x) /\ Whole(x, S, A, M) /\ k \in S
       /\ AtSpot(r, x, k, A) /\ Borrowed(M[<<x, 0>>][k], x, k, S, A, M)
       /\ Ahead(x, S \ {k}, S, rest, A, M)
  BY <1>1
<1>3. PICK i : i = FixupAt(r)
  OBVIOUS
<1>4. i.op = "fixup" /\ i.dst = r
  BY <1>3 DEF Instr, FixupAt
<1>5. PICK s : s = want[x][k]
  OBVIOUS
<1> DEFINE q == A[<<x, 0>>]
           t == M[<<x, 0>>]
           a == Spot(q, k)
<1>6. /\ World(A, M) /\ <<x, 0>> \in DOMAIN A /\ k \in 1 .. Len(t) /\ Holds(q, t)
      /\ Len(t) = Len(want[x]) /\ regs[r] = a
  BY <1>2 DEF Whole, Frame, Rough, World, AtSpot
<1>7. Holds(t[k], s)
  BY <1>2, <1>5, <1>6 DEF Borrowed, World
<1>8. PICK p \in Places :
          /\ ListNew(Length(Cell(a)), p) /\ Write(Over(Only(a, p), CloneCells(Cell(a), p)))
          /\ code' = rest /\ SameMeaning /\ regs' = regs
  BY <1>2, <1>3, <1>4, <1>6, OthersAre
<1>u. PICK u : u = [t EXCEPT ![k] = p]
  OBVIOUS
<1>l. PICK L : L = Written(x, k, p, M)
  OBVIOUS
<1>m. L = At(M, <<x, 0>>, u)
  BY <1>u, <1>l DEF Written
<1>9. Goes /\ Holds(q, u)' /\ Holds(p, s)' /\ p # q /\ OthersStay(q, p)
  <2>1. p \in Int
    BY PlacesAre
  <2> HIDE DEF q, t
  <2> QED
    BY <1>u, <1>6, <1>7, <1>8, <2>1, FixupIs
<1> DEFINE B == At(A, <<x, k>>, p)
           N == At(L, <<x, k>>, s)
<1>10. <<x, k>> # <<x, 0>>
  BY <1>6
<1>11. World(B, N)'
  BY <1>m, <1>6, <1>9, <1>10, WorldGiven
<1>12. /\ OnlyAt(x, k, A, M, A, L) /\ L[<<x, 0>>][k] = p
  BY <1>l, <1>6, WrittenIs
<1>13. /\ Changed(B, A, <<x, k>>, p) /\ Changed(N, L, <<x, k>>, s) /\ Changed(L, M, <<x, 0>>, u)
       /\ DOMAIN M = DOMAIN A
  BY <1>m, <1>6, AtIs DEF World
<1> HIDE DEF B, N, q, t
<1>14. /\ B[<<x, k>>] = p /\ <<x, k>> \in DOMAIN B /\ N[<<x, k>>] = s /\ N[<<x, 0>>] = L[<<x, 0>>]
       /\ <<x, 0>> \in DOMAIN B /\ B[<<x, 0>>] = A[<<x, 0>>]
       /\ \A m \in DOMAIN A : m # <<x, k>> => m \in DOMAIN B /\ B[m] = A[m] /\ N[m] = L[m]
  BY <1>6, <1>10, <1>13 DEF Changed
<1>15. OnlyAt(x, k, A, M, B, N)
  BY <1>12, <1>14 DEF OnlyAt
<1>16. Done(x, k, B, N)'
  <2>1. want' = want
    BY <1>8 DEF SameMeaning
  <2> QED
    BY <1>2, <1>5, <1>12, <1>14, <2>1 DEF Done
<1>17. Stage(B, N)'
  BY <1>2, <1>8, <1>11, <1>15, <1>16, Filled
<1> QED
  BY <1>9, <1>17 DEF Reaches

(* An instruction with nothing after it. *)
LEMMA OnlyOne ==
  ASSUME NEW d \in Instrs
  PROVE  <<d>> = <<d>> \o << >> /\ << >> \in Seq(Instrs)
  OBVIOUS

(* The instructions of a push inside the first object. *)
LEMMA InnerCode ==
  /\ ElemAt \in Instrs /\ GetHeld \in Instrs /\ PushHeld \in Instrs /\ PutHeld \in Instrs
  /\ PutT \in Instrs /\ GetT \in Instrs /\ PushU \in Instrs /\ FixupAt("at") \in Instrs /\ FixupAt("slot") \in Instrs
  BY IsPlainInstr, AreRegisters DEF ElemAt, GetHeld, PushHeld, PutHeld, PutT, GetT, PushU, FixupAt

(* They come one after the other. *)
LEMMA InnerRuns ==
  /\ code' = <<ElemAt, GetHeld, PushHeld, PutHeld>> => Runs(ElemAt, <<GetHeld, PushHeld, PutHeld>>)'
  /\ code' = <<GetHeld, PushHeld, PutHeld>> => Runs(GetHeld, <<PushHeld, PutHeld>>)'
  /\ code' = <<PushHeld, PutHeld>> => Runs(PushHeld, <<PutHeld>>)'
  /\ code' = <<PutHeld>> => Runs(PutHeld, << >>)'
<1>1. PICK a, b, c, d : a = ElemAt /\ b = GetHeld /\ c = PushHeld /\ d = PutHeld
  OBVIOUS
<1>2. a \in Instrs /\ b \in Instrs /\ c \in Instrs /\ d \in Instrs
  BY <1>1, InnerCode
<1>3. <<b, c, d>> \in Seq(Instrs) /\ <<c, d>> \in Seq(Instrs) /\ <<d>> \in Seq(Instrs) /\ << >> \in Seq(Instrs)
  BY <1>2
<1>4. <<d>> = <<d>> \o << >>
  BY <1>2
<1>5. <<c, d>> = <<c>> \o <<d>>
  <2> DEFINE s == <<c, d>>
             t == <<c>> \o <<d>>
  <2>1. s \in Seq(Instrs) /\ Len(s) = 2 /\ s[1] = c /\ s[2] = d
    BY <1>2
  <2>2. t \in Seq(Instrs) /\ Len(t) = 2 /\ t[1] = c /\ t[2] = d
    BY <1>2
  <2> HIDE DEF s, t
  <2>3. s = t
    <3>1. \A k \in 1 .. Len(s) : k = 1 \/ k = 2
      BY <2>1
    <3> QED
      BY <2>1, <2>2, <3>1, SameElements
  <2> QED
    BY <2>3 DEF s, t
<1>6. <<b, c, d>> = <<b>> \o <<c, d>>
  <2> DEFINE s == <<b, c, d>>
             t == <<b>> \o <<c, d>>
  <2>1. s \in Seq(Instrs) /\ Len(s) = 3 /\ s[1] = b /\ s[2] = c /\ s[3] = d
    BY <1>2
  <2>2. t \in Seq(Instrs) /\ Len(t) = 3 /\ t[1] = b /\ t[2] = c /\ t[3] = d
    BY <1>2
  <2> HIDE DEF s, t
  <2>3. s = t
    <3>1. \A k \in 1 .. Len(s) : k = 1 \/ k = 2 \/ k = 3
      BY <2>1
    <3> QED
      BY <2>1, <2>2, <3>1, SameElements
  <2> QED
    BY <2>3 DEF s, t
<1>7. <<a, b, c, d>> = <<a>> \o <<b, c, d>>
  <2> DEFINE s == <<a, b, c, d>>
             t == <<a>> \o <<b, c, d>>
  <2>1. s \in Seq(Instrs) /\ Len(s) = 4 /\ s[1] = a /\ s[2] = b /\ s[3] = c /\ s[4] = d
    BY <1>2
  <2>2. t \in Seq(Instrs) /\ Len(t) = 4 /\ t[1] = a /\ t[2] = b /\ t[3] = c /\ t[4] = d
    BY <1>2
  <2> HIDE DEF s, t
  <2>3. s = t
    <3>1. \A k \in 1 .. Len(s) : k = 1 \/ k = 2 \/ k = 3 \/ k = 4
      BY <2>1
    <3> QED
      BY <2>1, <2>2, <3>1, SameElements
  <2> QED
    BY <2>3 DEF s, t
<1>8. ASSUME NEW i \in Instrs, NEW s, NEW t, s = <<i>> \o t, t \in Seq(Instrs), code' = s PROVE Runs(i, t)'
  BY <1>8, RunsNext
<1>9. /\ code' = <<a, b, c, d>> => Runs(a, <<b, c, d>>)'
      /\ code' = <<b, c, d>> => Runs(b, <<c, d>>)'
      /\ code' = <<c, d>> => Runs(c, <<d>>)'
      /\ code' = <<d>> => Runs(d, << >>)'
  BY <1>2, <1>3, <1>4, <1>5, <1>6, <1>7, <1>8, Zenon
<1> QED
  BY <1>1, <1>9

(* While nothing of theirs changes, an element to come stays what it is. *)
LEMMA DeeperKeeps ==
  ASSUME Calm, NEW v, NEW A, NEW M, Deeper(v, A, M)
  PROVE  Deeper(v, A, M)'
  BY CalmGoesOn DEF Deeper, Calm, SameMeaning

(* And what is done with it. *)
LEMMA UsesKeeps ==
  ASSUME Calm, NEW v, NEW rest, NEW A, NEW M, Uses(v, rest, A, M),
         \A x, k : AtSpot("at", x, k, A) => AtSpot("at", x, k, A)'
  PROVE  Uses(v, rest, A, M)'
<1>1. ASSUME NEW x \in Numbered, NEW S, NEW k, NEW more \in Seq(Instrs),
             rest = <<PutT>> \o more /\ Whole(x, S, A, M) /\ k \in S /\ AtSpot("at", x, k, A)
             /\ v \in Int /\ v = want[x][k] /\ Ahead(x, S \ {k}, S, more, A, M)
      PROVE  Uses(v, rest, A, M)'
  <2>1. Whole(x, S, A, M)' /\ Ahead(x, S \ {k}, S, more, A, M)' /\ want' = want /\ AtSpot("at", x, k, A)'
    BY <1>1, CalmGoesOn, CalmAhead DEF Calm, SameMeaning
  <2> QED
    BY <1>1, <2>1 DEF Uses
<1>2. ASSUME NEW x \in Numbered, rest = <<Instr("push", x, "t", 0, FALSE)>>, Short(x, A, M),
             v \in Int, v = want[x][Len(want[x])]
      PROVE  Uses(v, rest, A, M)'
  <2>1. Short(x, A, M)' /\ want' = want
    BY <1>2, CalmGoesOn DEF Calm, SameMeaning
  <2> QED
    BY <1>2, <2>1 DEF Uses
<1>3. ASSUME rest = <<ElemAt, GetHeld, PushHeld, PutHeld>>, Deeper(v, A, M) PROVE Uses(v, rest, A, M)'
  BY <1>3, DeeperKeeps DEF Uses
<1> QED
  BY <1>1, <1>2, <1>3 DEF Uses

(* With it in t, it is used. *)
LEMMA UsesNext ==
  ASSUME NEW v, NEW rest, NEW A, NEW M, Uses(v, rest, A, M), Sets("t", v, rest)
  PROVE  Stage(A, M)'
<1>1. "t" \notin Roots
  BY DEF Roots, Vars, Numbered
<1>2. Calm /\ "t" \in DOMAIN regs' /\ regs'["t"] = v
  BY <1>1, SetsCalmly
<1>3. \A x, k : AtSpot("at", x, k, A) => AtSpot("at", x, k, A)'
  BY SetsCalmly DEF AtSpot
<1>4. want' = want /\ code' = rest
  BY <1>2 DEF Calm, SameMeaning, Sets
<1>5. ASSUME NEW x \in Numbered, NEW S, NEW k, NEW more \in Seq(Instrs),
             rest = <<PutT>> \o more /\ Whole(x, S, A, M) /\ k \in S /\ AtSpot("at", x, k, A)
             /\ v \in Int /\ v = want[x][k] /\ Ahead(x, S \ {k}, S, more, A, M)
      PROVE  Stage(A, M)'
  <2>1. Whole(x, S, A, M)' /\ Ahead(x, S \ {k}, S, more, A, M)' /\ AtSpot("at", x, k, A)'
    BY <1>2, <1>3, <1>5, CalmGoesOn, CalmAhead
  <2>2. Runs(PutT, more)'
    BY <1>4, <1>5, InnerCode, RunsNext
  <2>3. Fills(x, k, regs["t"], A, M)'
    BY <1>2, <1>4, <1>5, Kinds DEF Fills
  <2>4. AtPut(A, M)'
    BY <1>2, <1>5, <2>1, <2>2, <2>3 DEF AtPut, PutT
  <2> QED
    BY <2>4 DEF Stage
<1>6. ASSUME NEW x \in Numbered, rest = <<Instr("push", x, "t", 0, FALSE)>>, Short(x, A, M),
             v \in Int, v = want[x][Len(want[x])]
      PROVE  Stage(A, M)'
  <2>1. PICK i : i = Instr("push", x, "t", 0, FALSE)
    OBVIOUS
  <2>2. i \in Instrs
    BY <2>1, IsPlainInstr, AreRegisters
  <2>3. code' = <<i>> \o << >> /\ << >> \in Seq(Instrs)
    BY <1>4, <1>6, <2>1, <2>2, OnlyOne
  <2>4. Runs(i, << >>)'
    BY <2>2, <2>3, RunsNext
  <2>5. Short(x, A, M)'
    BY <1>2, <1>6, CalmGoesOn
  <2>6. AtPush(A, M)'
    BY <1>2, <1>4, <1>6, <2>1, <2>4, <2>5 DEF AtPush
  <2> QED
    BY <2>6 DEF Stage
<1>7. ASSUME rest = <<ElemAt, GetHeld, PushHeld, PutHeld>>, Deeper(v, A, M) PROVE Stage(A, M)'
  <2>1. Deeper(v, A, M)'
    BY <1>2, <1>7, DeeperKeeps
  <2>2. Deeper(regs["t"], A, M)'
    BY <1>2, <2>1, Zenon DEF Deeper
  <2>3. Runs(ElemAt, <<GetHeld, PushHeld, PutHeld>>)'
    BY <1>4, <1>7, InnerRuns
  <2>4. AtInner(A, M)'
    BY <1>2, <2>2, <2>3 DEF AtInner
  <2> QED
    BY <2>4 DEF Stage
<1> QED
  BY <1>5, <1>6, <1>7 DEF Uses

(* A number. *)
LEMMA StepConst ==
  ASSUME IInv, NEW A, NEW M, AtConst(A, M), Acts
  PROVE  Reaches
<1>1. PICK v \in Int : \E rest : Runs(Instr("const", "t", "", v, FALSE), rest) /\ Uses(v, rest, A, M)
  BY DEF AtConst
<1>2. PICK rest : Runs(Instr("const", "t", "", v, FALSE), rest) /\ Uses(v, rest, A, M)
  BY <1>1
<1>3. PICK i : i = Instr("const", "t", "", v, FALSE)
  OBVIOUS
<1>4. i.op = "const" /\ i.dst = "t" /\ i.n = v
  BY <1>3 DEF Instr
<1>5. Sets("t", v, rest)
  BY <1>2, <1>3, <1>4, SetsAre
<1>6. Stage(A, M)'
  BY <1>2, <1>5, UsesNext
<1> QED
  BY <1>5, <1>6 DEF Reaches, Sets

(* Where a first element is. *)
LEMMA StepHead ==
  ASSUME IInv, NEW A, NEW M, World(A, M), AtHead(A, M), Acts
  PROVE  Reaches
<1>1. PICK y \in Roots : \E n, v : \E rest \in Seq(Instrs) :
       /\ Runs(Instr("elem", "u", y, 0, FALSE), <<GetT>> \o rest) /\ InReg(y, n, A)
       /\ Len(M[n]) >= 1 /\ M[n][1] = v /\ Uses(v, rest, A, M)
  BY DEF AtHead
<1>2. PICK n, v : \E rest \in Seq(Instrs) :
       /\ Runs(Instr("elem", "u", y, 0, FALSE), <<GetT>> \o rest) /\ InReg(y, n, A)
       /\ Len(M[n]) >= 1 /\ M[n][1] = v /\ Uses(v, rest, A, M)
  BY <1>1
<1>3. PICK rest \in Seq(Instrs) :
       /\ Runs(Instr("elem", "u", y, 0, FALSE), <<GetT>> \o rest) /\ InReg(y, n, A)
       /\ Len(M[n]) >= 1 /\ M[n][1] = v /\ Uses(v, rest, A, M)
  BY <1>2
<1>4. PICK i : i = Instr("elem", "u", y, 0, FALSE)
  OBVIOUS
<1>5. PICK g : g = GetT
  OBVIOUS
<1>6. Sets("u", Spot(A[n], 1), <<g>> \o rest)
  BY <1>3, <1>4, <1>5, FirstElemIs
<1>7. "u" \notin Roots
  BY DEF Roots, Vars, Numbered
<1>8. Calm /\ "u" \in DOMAIN regs' /\ regs'["u"] = Spot(A[n], 1)
  BY <1>6, <1>7, SetsCalmly
<1>9. \A x, k : AtSpot("at", x, k, A) => AtSpot("at", x, k, A)'
  BY <1>6, SetsCalmly DEF AtSpot
<1>10. Uses(v, rest, A, M)'
  BY <1>3, <1>8, <1>9, UsesKeeps
<1>11. Runs(g, rest)'
  BY <1>5, <1>6, InnerCode, RunsNext DEF Sets
<1>12. n \in DOMAIN A
  BY <1>3 DEF InReg
<1>13. AtGet(A, M)'
  BY <1>3, <1>5, <1>8, <1>10, <1>11, <1>12 DEF AtGet
<1>14. Stage(A, M)'
  BY <1>13 DEF Stage
<1> QED
  BY <1>6, <1>14 DEF Reaches, Sets

(* It is read. *)
LEMMA StepGet ==
  ASSUME IInv, NEW A, NEW M, World(A, M), AtGet(A, M), Acts
  PROVE  Reaches
<1>1. PICK n \in DOMAIN A : \E v, rest :
       /\ Runs(GetT, rest) /\ "u" \in DOMAIN regs /\ regs["u"] = Spot(A[n], 1)
       /\ Len(M[n]) >= 1 /\ M[n][1] = v /\ Uses(v, rest, A, M)
  BY DEF AtGet
<1>2. PICK v, rest :
       /\ Runs(GetT, rest) /\ "u" \in DOMAIN regs /\ regs["u"] = Spot(A[n], 1)
       /\ Len(M[n]) >= 1 /\ M[n][1] = v /\ Uses(v, rest, A, M)
  BY <1>1
<1>3. PICK i : i = GetT
  OBVIOUS
<1>4. i.op = "get" /\ i.dst = "t" /\ i.src = "u"
  BY <1>3 DEF Instr, GetT
<1>5. Len(M[n]) \in Nat
  BY DEF World, Holds
<1>6. 1 \in 1 .. Len(M[n])
  BY <1>2, <1>5
<1>7. Cell(regs["u"]) = v
  BY <1>2, <1>6, SpotIs
<1>8. Sets("t", v, rest)
  BY <1>2, <1>3, <1>4, <1>7, SetsAre
<1>9. Stage(A, M)'
  BY <1>2, <1>8, UsesNext
<1> QED
  BY <1>8, <1>9 DEF Reaches, Sets

(* The list that was in d is at q, with room behind it for its k-th element. *)
Moved(d, q, k) ==
    /\ d \in DOMAIN regs' /\ regs'[d] = q /\ "slot" \in DOMAIN regs' /\ regs'["slot"] = Spot(q, k)
    /\ \A r : r # d /\ r # "slot" /\ r \in DOMAIN regs => r \in DOMAIN regs' /\ regs'[r] = regs[r]
    /\ \A r : r # d /\ r # "slot" /\ r \in DOMAIN regs' => r \in DOMAIN regs

Longer(M, n, v) == At(M, n, Append(M[n], v))

(* What a push of v onto the list n, by the register d, leaves, ... *)
PushDone(d, n, v, A, M) ==
    \E q : Moved(d, q, Len(M[n]) + 1) /\ World(At(A, n, q), Longer(M, n, v))'

(* What a push leaves. *)
LEMMA PushLeaves ==
  ASSUME IInv, NEW i, NEW rest, Runs(i, rest), Acts, i.op \in {"push", "pushat"},
         NEW v \in Int, v = (IF i.op = "push" THEN regs[i.src] ELSE Cell(regs[i.src])),
         NEW A, NEW M, World(A, M), NEW n, InReg(i.dst, n, A), i.dst # "slot"
  PROVE  /\ Goes /\ SameMeaning
         /\ i.deep = FALSE => code' = rest
         /\ i.deep = TRUE => code' = <<FixupAt("slot")>> \o rest
         /\ PushDone(i.dst, n, v, A, M)
<1> DEFINE p == A[n]
           s == M[n]
<1>1. /\ Room(regs[i.dst], v) /\ SameMeaning
      /\ code' = (IF i.deep THEN <<Instr("fixup", "slot", "", 0, FALSE)>> ELSE << >>) \o rest
  BY OthersAre
<1>2. regs[i.dst] = p /\ Holds(p, s) /\ n \in DOMAIN A
  BY DEF InReg, World
<1>3. Room(p, v)
  BY <1>1, <1>2
<1> HIDE DEF p, s
<1>4. PICK q \in Int : Pushed(p, s, v, q)
  BY <1>2, <1>3, PushIs
<1>5. Now = i
  BY DEF Runs, Now
<1>6. Moved(i.dst, q, Len(s) + 1)
  BY <1>4, <1>5 DEF Pushed, Moved, Over, Only
<1>7. Goes /\ Holds(q, Append(s, v))' /\ OthersStay(p, q)
  BY <1>4 DEF Pushed
<1>8. World(At(A, n, q), At(M, n, Append(s, v)))'
  <2>1. PICK t : t = Append(s, v)
    OBVIOUS
  <2> QED
    BY <1>2, <1>7, <2>1, WorldMoves DEF p
<1>9. PushDone(i.dst, n, v, A, M)
  BY <1>6, <1>8 DEF s, PushDone, Longer
<1>10. ASSUME i.deep = FALSE PROVE code' = rest
  <2>1. code' = << >> \o rest
    BY <1>1, <1>10
  <2>2. rest \in Seq(Instrs)
    BY DEF Runs
  <2> QED
    BY <2>1, <2>2
<1>11. ASSUME i.deep = TRUE PROVE code' = <<FixupAt("slot")>> \o rest
  BY <1>1, <1>11 DEF FixupAt
<1> QED
  BY <1>1, <1>7, <1>9, <1>10, <1>11

(* ... and of x, with v behind what it has, and of the other variables. *)
LongerBy(x, v, A, M, B, N) ==
    /\ Frame(x, B, N)' /\ InReg(x, <<x, 0>>, B)' /\ want' = want /\ lent' = lent
    /\ Len(want[x]) \in Nat \ {0} /\ Len(M[<<x, 0>>]) = Len(want[x]) - 1
    /\ <<x, 0>> \in DOMAIN B
    /\ Len(N[<<x, 0>>]) = Len(want[x]) /\ N[<<x, 0>>][Len(want[x])] = v
    /\ \A j \in 1 .. Len(want[x]) - 1 : N[<<x, 0>>][j] = M[<<x, 0>>][j]
    /\ \A m \in DOMAIN A : m # <<x, 0>> => m \in DOMAIN B /\ B[m] = A[m] /\ N[m] = M[m]
    /\ AtSpot("slot", x, Len(want[x]), B)'

(* What one more element of x leaves of the other variables, and of x. *)
LEMMA PushKeeps ==
  ASSUME NEW x, NEW A, NEW M, Short(x, A, M), SameMeaning, NEW v \in Int, PushDone(x, <<x, 0>>, v, A, M)
  PROVE  \E B, N : LongerBy(x, v, A, M, B, N)
<1> DEFINE s == M[<<x, 0>>]
           l == Len(want[x])
<1>0. PICK q : Moved(x, q, Len(s) + 1) /\ World(At(A, <<x, 0>>, q), Longer(M, <<x, 0>>, v))'
  BY DEF PushDone
<1>a. PICK B, t, N : B = At(A, <<x, 0>>, q) /\ t = Append(s, v) /\ N = At(M, <<x, 0>>, t)
  OBVIOUS
<1>b. World(B, N)'
  BY <1>0, <1>a DEF Longer
<1>1. /\ Frame(x, A, M) /\ lent # x /\ InReg(x, <<x, 0>>, A) /\ World(A, M) /\ x \in Vars
      /\ l = Len(s) + 1 /\ DOMAIN M = DOMAIN A
  BY DEF Short, Frame, World
<1>2. s \in Seq(Int)
  BY <1>1 DEF InReg, World, Holds
<1> HIDE DEF s
<1>3. Len(s) \in Nat
  BY <1>2
<1>4. Len(t) = Len(s) + 1 /\ t[Len(s) + 1] = v /\ \A j \in 1 .. Len(s) : t[j] = s[j]
  BY <1>2, <1>3, <1>a
<1>5. want' = want /\ lent' = lent
  BY DEF SameMeaning
<1>6. Changed(B, A, <<x, 0>>, q) /\ Changed(N, M, <<x, 0>>, t) /\ Elsewhere(x, A, M, B, N)
  BY <1>1, <1>a, AtIs, ElsewhereAt
<1>7. x \in Roots /\ x # "slot" /\ "slot" \notin Roots
  BY <1>1 DEF Roots, Vars, Numbered
<1>8. Frame(x, B, N)'
  <2>1. RegsKeep(Roots \ {x}) /\ (x \in DOMAIN regs => x \in DOMAIN regs')
    BY <1>0, <1>7 DEF RegsKeep, Moved
  <2> QED
    BY <1>1, <1>6, <1>b, <2>1, FrameKeeps
<1>9. InReg(x, <<x, 0>>, B)'
  BY <1>0, <1>6 DEF InReg, Moved, Changed
<1>10. AtSpot("slot", x, l, B)'
  <2>1. regs'["slot"] = Spot(q, l) /\ "slot" \in DOMAIN regs'
    BY <1>0, <1>1 DEF Moved
  <2>2. B[<<x, 0>>] = q /\ l' = l
    BY <1>5, <1>6 DEF Changed
  <2> QED
    BY <2>1, <2>2 DEF AtSpot
<1>11. /\ N[<<x, 0>>] = t /\ <<x, 0>> \in DOMAIN B
       /\ \A m \in DOMAIN A : m # <<x, 0>> => m \in DOMAIN B /\ B[m] = A[m] /\ N[m] = M[m]
  BY <1>1, <1>6 DEF Changed
<1>12. /\ l \in Nat \ {0} /\ Len(s) = l - 1 /\ Len(t) = l /\ t[l] = v /\ \A j \in 1 .. l - 1 : t[j] = s[j]
  BY <1>1, <1>3, <1>4
<1>13. LongerBy(x, v, A, M, B, N)
  BY <1>5, <1>8, <1>9, <1>10, <1>11, <1>12 DEF s, LongerBy
<1> QED
  BY <1>13

(* A number is pushed. *)
LEMMA StepPush ==
  ASSUME IInv, NEW A, NEW M, AtPush(A, M), Acts
  PROVE  Reaches
<1>1. PICK x \in Numbered :
       /\ Runs(Instr("push", x, "t", 0, FALSE), << >>) /\ Short(x, A, M)
       /\ "t" \in DOMAIN regs /\ regs["t"] \in Int /\ regs["t"] = want[x][Len(want[x])]
  BY DEF AtPush
<1>2. PICK i : i = Instr("push", x, "t", 0, FALSE)
  OBVIOUS
<1>3. i.op = "push" /\ i.dst = x /\ i.src = "t" /\ i.deep = FALSE
  BY <1>2 DEF Instr
<1>4. PICK v : v = regs["t"]
  OBVIOUS
<1> DEFINE m == <<x, 0>>
<1>5. World(A, M) /\ InReg(x, m, A) /\ x # "slot" /\ ~HoldsLists(x) /\ v \in Int
  BY <1>1, <1>4, Kinds DEF Short, Frame, Numbered
<1>6. Goes /\ SameMeaning /\ code' = << >> /\ PushDone(x, m, v, A, M)
  <2>1. v = (IF i.op = "push" THEN regs[i.src] ELSE Cell(regs[i.src])) /\ Runs(i, << >>)
    BY <1>1, <1>2, <1>3, <1>4
  <2> QED
    BY <1>3, <1>5, <2>1, PushLeaves
<1>7. PICK B, N : LongerBy(x, v, A, M, B, N)
  BY <1>1, <1>5, <1>6, PushKeeps
<1>9. /\ Frame(x, B, N)' /\ InReg(x, m, B)' /\ want' = want
      /\ Len(want[x]) \in Nat \ {0} /\ Len(M[m]) = Len(want[x]) - 1 /\ m \in DOMAIN B
      /\ Len(N[m]) = Len(want[x]) /\ N[m][Len(want[x])] = v
      /\ \A j \in 1 .. Len(want[x]) - 1 : N[m][j] = M[m][j]
  BY <1>7 DEF LongerBy
<1> HIDE DEF m
<1>10. Rough(x, {}, B, N)'
  <2>1. ASSUME NEW k \in 1 .. Len(want[x]) PROVE N[m][k] = want[x][k]
    <3>1. CASE k = Len(want[x])
      BY <1>1, <1>4, <1>9, <3>1
    <3>2. CASE k # Len(want[x])
      <4>1. k \in 1 .. Len(want[x]) - 1
        BY <1>9, <3>2
      <4>2. Done(x, k, A, M)
        BY <1>1, <1>9, <4>1 DEF Short, m
      <4> QED
        BY <1>5, <1>9, <4>1, <4>2 DEF Done, m
    <3> QED
      BY <3>1, <3>2
  <2> QED
    BY <1>5, <1>9, <2>1 DEF Rough, Done, m
<1>12. Stage(B, N)'
  BY <1>6, <1>9, <1>10, CleanIs DEF m
<1> QED
  BY <1>6, <1>12 DEF Reaches

(* An object is pushed: it is still to be copied. *)
LEMMA PushesObject ==
  ASSUME IInv, NEW x, NEW A, NEW M, HoldsLists(x), Short(x, A, M), NEW v, Borrowed(v, x, Len(want[x]), {}, A, M),
         NEW i, Runs(i, << >>), Acts, i.op \in {"push", "pushat"}, i.dst = x, i.deep = TRUE,
         v = (IF i.op = "push" THEN regs[i.src] ELSE Cell(regs[i.src]))
  PROVE  Reaches
<1> DEFINE m == <<x, 0>>
<1>1. PICK a \in DOMAIN A : a # m /\ v = A[a] /\ M[a] = want[x][Len(want[x])]
  BY DEF Borrowed
<1>2. World(A, M) /\ InReg(x, m, A) /\ x # "slot" /\ v \in Int
  BY <1>1, Kinds DEF Short, Frame, World, Holds
<1>3. Goes /\ SameMeaning /\ code' = <<FixupAt("slot")>> \o << >> /\ PushDone(x, m, v, A, M)
  <2>1. InReg(i.dst, m, A) /\ i.dst # "slot"
    BY <1>2
  <2> QED
    BY <1>2, <2>1, PushLeaves
<1>4. PICK B, N : LongerBy(x, v, A, M, B, N)
  BY <1>2, <1>3, PushKeeps
<1>6. PICK k : k = Len(want[x])
  OBVIOUS
<1>7. /\ Frame(x, B, N)' /\ InReg(x, m, B)' /\ want' = want
      /\ k \in Nat \ {0} /\ Len(M[m]) = k - 1 /\ m \in DOMAIN B
      /\ Len(N[m]) = k /\ N[m][k] = v
      /\ \A j \in 1 .. k - 1 : N[m][j] = M[m][j]
      /\ \A b \in DOMAIN A : b # m => b \in DOMAIN B /\ B[b] = A[b] /\ N[b] = M[b]
      /\ AtSpot("slot", x, k, B)'
  <2>1. Len(want[x])' = k
    BY <1>4, <1>6 DEF LongerBy
  <2> QED
    BY <1>4, <1>6, <2>1 DEF LongerBy
<1>8. Rough(x, {k}, B, N)'
  <2>1. ASSUME NEW j \in (1 .. k) \ {k} PROVE Done(x, j, B, N)'
    <3>1. j \in 1 .. k - 1 /\ <<x, j>> # m
      BY <1>7
    <3>2. Done(x, j, A, M)
      BY <1>7, <3>1 DEF Short
    <3> QED
      BY <1>7, <3>1, <3>2 DEF Done
  <2> QED
    BY <1>6, <1>7, <2>1 DEF Rough
<1>9. Whole(x, {k}, B, N)'
  <2>1. {k} \subseteq 1 .. Len(want'[x])
    BY <1>6, <1>7
  <2> QED
    BY <1>7, <1>8, <2>1 DEF Whole
<1>10. Borrowed(N[m][k], x, k, {k}, B, N)'
  <2>1. a \in DOMAIN B /\ B[a] = A[a] /\ N[a] = M[a] /\ N[m][k] = v
    BY <1>1, <1>7
  <2>2. \A j \in {k} \ {k} : a # <<x, j>>
    OBVIOUS
  <2> QED
    BY <1>1, <1>6, <1>7, <2>1, <2>2 DEF Borrowed
<1>11. Ahead(x, {k} \ {k}, {k}, << >>, B, N)'
  <2>1. CopyParts(x, k, k) = << >>
    <3>1. k \in Nat /\ k \in 0 .. k
      BY <1>7
    <3>2. x \in Roots
      BY Kinds, AreRegisters
    <3> QED
      BY <3>1, <3>2, CopyPartsAre
  <2>2. {k} \ {k} = (k + 1) .. k /\ k \in 0 .. k /\ k \in Nat
    BY <1>7
  <2>3. ByCopying(x, {k} \ {k}, {k}, << >>, B, N)'
    BY <2>1, <2>2 DEF ByCopying
  <2> QED
    BY <2>3 DEF Ahead
<1>12. PICK f : f = FixupAt("slot")
  OBVIOUS
<1>13. Runs(f, << >>)'
  <2>1. f \in Instrs
    BY <1>12, InnerCode
  <2>2. code' = <<f>> \o << >> /\ << >> \in Seq(Instrs)
    BY <1>3, <1>12, <2>1, OnlyOne
  <2> QED
    BY <2>1, <2>2, RunsNext
<1>14. AtFixup(B, N)'
  BY <1>7, <1>9, <1>10, <1>11, <1>12, <1>13, AreRegisters DEF AtFixup
<1>15. Stage(B, N)'
  BY <1>14 DEF Stage
<1> QED
  BY <1>3, <1>15 DEF Reaches

(* That of a variable. *)
LEMMA StepPushObject ==
  ASSUME IInv, NEW A, NEW M, AtPushObject(A, M), Acts
  PROVE  Reaches
<1>1. PICK x, n : \E b \in Numbered :
       /\ HoldsLists(x) /\ Runs(Instr("push", x, b, 0, TRUE), << >>) /\ Short(x, A, M)
       /\ InReg(b, n, A) /\ Borrowed(A[n], x, Len(want[x]), {}, A, M)
  BY DEF AtPushObject
<1>2. PICK b \in Numbered :
       /\ HoldsLists(x) /\ Runs(Instr("push", x, b, 0, TRUE), << >>) /\ Short(x, A, M)
       /\ InReg(b, n, A) /\ Borrowed(A[n], x, Len(want[x]), {}, A, M)
  BY <1>1
<1>3. PICK i : i = Instr("push", x, b, 0, TRUE)
  OBVIOUS
<1>4. i.op = "push" /\ i.dst = x /\ i.src = b /\ i.deep = TRUE
  BY <1>3 DEF Instr
<1>5. regs[b] = A[n] /\ Runs(i, << >>)
  BY <1>2, <1>3 DEF InReg
<1>6. A[n] = (IF i.op = "push" THEN regs[i.src] ELSE Cell(regs[i.src]))
  BY <1>4, <1>5
<1> QED
  BY <1>2, <1>4, <1>5, <1>6, PushesObject

(* The first object of bags. *)
LEMMA StepPushAt ==
  ASSUME IInv, NEW A, NEW M, AtPushAt(A, M), Acts
  PROVE  Reaches
<1> DEFINE m == <<"bags", 0>>
           n == <<"bags", 1>>
           e == M[m][1]
<1>1. /\ Runs(PushU, << >>) /\ Short("bags", A, M) /\ Len(M[m]) >= 1 /\ AtSpot("u", "bags", 1, A)
      /\ want["bags"][Len(want["bags"])] = want["bags"][1]
  BY DEF AtPushAt, FirstAgain
<1>2. PICK i : i = PushU
  OBVIOUS
<1>3. i.op = "pushat" /\ i.dst = "bags" /\ i.src = "u" /\ i.deep = TRUE
  BY <1>2 DEF Instr, PushU
<1>4. World(A, M) /\ m \in DOMAIN A
  BY <1>1 DEF Short, Frame, InReg
<1>5. 1 \in 1 .. Len(M[m])
  <2>1. Len(M[m]) \in Nat
    BY <1>4 DEF World, Holds
  <2> QED
    BY <1>1, <2>1
<1>6. Done("bags", 1, A, M)
  BY <1>1, <1>5 DEF Short
<1>7. n \in DOMAIN A /\ e = A[n] /\ M[n] = want["bags"][1] /\ n # m
  BY <1>6, Kinds DEF Done
<1>8. Cell(regs["u"]) = e
  BY <1>1, <1>4, <1>5, SpotIs DEF AtSpot
<1>9. Borrowed(e, "bags", Len(want["bags"]), {}, A, M)
  BY <1>1, <1>7 DEF Borrowed
<1>10. e = (IF i.op = "push" THEN regs[i.src] ELSE Cell(regs[i.src]))
  BY <1>3, <1>8
<1> HIDE DEF e
<1>11. Runs(i, << >>) /\ HoldsLists("bags")
  BY <1>1, <1>2, Kinds
<1> QED
  BY <1>1, <1>3, <1>9, <1>10, <1>11, PushesObject

(* Where it is. *)
LEMMA StepPushFirst ==
  ASSUME IInv, NEW A, NEW M, AtPushFirst(A, M), Acts
  PROVE  Reaches
<1>1. Runs(Instr("elem", "u", "bags", 0, FALSE), <<PushU>>) /\ FirstAgain(A, M)
  BY DEF AtPushFirst
<1>2. PICK i : i = Instr("elem", "u", "bags", 0, FALSE)
  OBVIOUS
<1>3. PICK g : g = PushU
  OBVIOUS
<1>4. World(A, M) /\ InReg("bags", <<"bags", 0>>, A) /\ Short("bags", A, M)
  BY <1>1 DEF FirstAgain, Short, Frame
<1>5. Sets("u", Spot(A[<<"bags", 0>>], 1), <<g>>)
  BY <1>1, <1>2, <1>3, <1>4, FirstElemIs
<1>6. "u" \notin Roots
  BY DEF Roots, Vars, Numbered
<1>7. Calm /\ AtSpot("u", "bags", 1, A)'
  BY <1>5, <1>6, SetsCalmly DEF AtSpot
<1>8. FirstAgain(A, M)'
  BY <1>1, <1>4, <1>7, CalmGoesOn DEF FirstAgain, Calm, SameMeaning
<1>9. Runs(g, << >>)'
  <2>1. g \in Instrs
    BY <1>3, InnerCode
  <2>2. code' = <<g>> \o << >> /\ << >> \in Seq(Instrs)
    BY <1>5, <2>1, OnlyOne DEF Sets
  <2> QED
    BY <2>1, <2>2, RunsNext
<1>10. AtPushAt(A, M)'
  BY <1>3, <1>7, <1>8, <1>9 DEF AtPushAt
<1>11. Stage(A, M)'
  BY <1>10 DEF Stage
<1> QED
  BY <1>5, <1>11 DEF Reaches, Sets

(* A number is pushed inside the first object of bags. *)
LEMMA StepInner ==
  ASSUME IInv, WellMeant, NEW A, NEW M, AtInner(A, M), Acts
  PROVE  Reaches
<1> DEFINE o == <<"bags", 0>>
           n == <<"bags", 1>>
<1>1. PICK v : v = regs["t"]
  OBVIOUS
<1>2. "t" \in DOMAIN regs /\ Deeper(v, A, M)
  BY <1>1 DEF AtInner
<1>3. /\ Whole("bags", {1}, A, M) /\ n \in DOMAIN A /\ M[o][1] = A[n] /\ v \in Int
      /\ want["bags"][1] = Append(M[n], v)
  BY <1>2 DEF Deeper
<1>4. /\ World(A, M) /\ InReg("bags", o, A) /\ Frame("bags", A, M) /\ o \in DOMAIN A
      /\ Len(M[o]) = Len(want["bags"]) /\ 1 \in 1 .. Len(M[o])
  BY <1>3 DEF Whole, Frame, Rough
<1>5. "at" \notin Roots /\ "held" \notin Roots /\ "slot" \notin Roots
  BY DEF Roots, Vars, Numbered
<1>6. CASE Runs(ElemAt, <<GetHeld, PushHeld, PutHeld>>)
  <2>1. PICK i : i = Instr("elem", "at", "bags", 0, FALSE)
    OBVIOUS
  <2>2. PICK rest : rest = <<GetHeld, PushHeld, PutHeld>>
    OBVIOUS
  <2>3. Sets("at", Spot(A[o], 1), rest)
    BY <1>4, <1>6, <2>1, <2>2, FirstElemIs DEF ElemAt
  <2>4. /\ Calm /\ AtSpot("at", "bags", 1, A)' /\ "t" \in DOMAIN regs' /\ regs'["t"] = v
    BY <1>1, <1>2, <1>5, <2>3, SetsCalmly DEF AtSpot
  <2>5. Deeper(v, A, M)'
    BY <1>2, <2>4, DeeperKeeps
  <2>6. Deeper(regs["t"], A, M)'
    BY <2>4, <2>5, Zenon DEF Deeper
  <2>7. Runs(GetHeld, <<PushHeld, PutHeld>>)'
    BY <2>2, <2>3, InnerRuns DEF Sets
  <2>8. AtInner(A, M)'
    BY <2>4, <2>6, <2>7 DEF AtInner
  <2>9. Stage(A, M)'
    BY <2>8 DEF Stage
  <2> QED
    BY <2>3, <2>9 DEF Reaches, Sets
<1>7. CASE Runs(GetHeld, <<PushHeld, PutHeld>>) /\ AtSpot("at", "bags", 1, A)
  <2>1. PICK i : i = GetHeld
    OBVIOUS
  <2>2. PICK rest : rest = <<PushHeld, PutHeld>>
    OBVIOUS
  <2>3. i.op = "get" /\ i.dst = "held" /\ i.src = "at"
    BY <2>1 DEF Instr, GetHeld
  <2>4. Cell(regs["at"]) = A[n]
    BY <1>3, <1>4, <1>7, SpotIs DEF AtSpot
  <2>5. Sets("held", A[n], rest)
    BY <1>7, <2>1, <2>2, <2>3, <2>4, SetsAre
  <2>6. /\ Calm /\ AtSpot("at", "bags", 1, A)' /\ "t" \in DOMAIN regs' /\ regs'["t"] = v
        /\ InReg("held", n, A)'
    <3>1. /\ Calm /\ "held" \in DOMAIN regs' /\ regs'["held"] = A[n]
          /\ \A r \in DOMAIN regs : r # "held" => r \in DOMAIN regs' /\ regs'[r] = regs[r]
      BY <1>5, <2>5, SetsCalmly
    <3>2. AtSpot("at", "bags", 1, A)'
      BY <1>7, <3>1 DEF AtSpot
    <3>3. InReg("held", n, A)'
      BY <1>3, <3>1 DEF InReg
    <3> QED
      BY <1>1, <1>2, <3>1, <3>2, <3>3
  <2>7. Deeper(v, A, M)'
    BY <1>2, <2>6, DeeperKeeps
  <2>8. Deeper(regs["t"], A, M)'
    BY <2>6, <2>7, Zenon DEF Deeper
  <2>9. Runs(PushHeld, <<PutHeld>>)'
    BY <2>2, <2>5, InnerRuns DEF Sets
  <2>10. AtInner(A, M)'
    BY <2>6, <2>8, <2>9 DEF AtInner
  <2>11. Stage(A, M)'
    BY <2>10 DEF Stage
  <2> QED
    BY <2>5, <2>11 DEF Reaches, Sets
<1>8. CASE /\ Runs(PushHeld, <<PutHeld>>) /\ AtSpot("at", "bags", 1, A) /\ InReg("held", n, A)
  <2>1. PICK i : i = PushHeld
    OBVIOUS
  <2>2. PICK rest : rest = <<PutHeld>>
    OBVIOUS
  <2>3. i.op = "push" /\ i.dst = "held" /\ i.src = "t" /\ i.deep = FALSE
    BY <2>1 DEF Instr, PushHeld
  <2>4. Goes /\ SameMeaning /\ code' = rest /\ PushDone("held", n, v, A, M)
    <3>1. Runs(i, rest) /\ v = (IF i.op = "push" THEN regs[i.src] ELSE Cell(regs[i.src]))
      BY <1>1, <1>8, <2>1, <2>2, <2>3
    <3>2. InReg(i.dst, n, A) /\ i.dst # "slot" /\ i.op \in {"push", "pushat"}
      BY <1>8, <2>3
    <3> QED
      BY <1>3, <1>4, <2>3, <3>1, <3>2, PushLeaves
  <2>5. PICK q : Moved("held", q, Len(M[n]) + 1) /\ World(At(A, n, q), Longer(M, n, v))'
    BY <2>4 DEF PushDone
  <2>6. PICK B, t, N : B = At(A, n, q) /\ t = Append(M[n], v) /\ N = At(M, n, t)
    OBVIOUS
  <2>7. World(B, N)'
    BY <2>5, <2>6 DEF Longer
  <2>8. Changed(B, A, n, q) /\ Changed(N, M, n, t) /\ Elsewhere("bags", A, M, B, N) /\ DOMAIN M = DOMAIN A
    BY <1>4, <2>6, AtIs, ElsewhereAt DEF World
  <2>9. /\ n \in DOMAIN B /\ B[n] = q /\ N[n] = t
        /\ \A m \in DOMAIN A : m # n => m \in DOMAIN B /\ B[m] = A[m] /\ N[m] = M[m]
    BY <2>8 DEF Changed
  <2>10. /\ "held" \in DOMAIN regs' /\ regs'["held"] = q
         /\ \A r \in DOMAIN regs : r # "held" /\ r # "slot" => r \in DOMAIN regs' /\ regs'[r] = regs[r]
         /\ \A r \in DOMAIN regs' : r # "held" /\ r # "slot" => r \in DOMAIN regs
    BY <2>5 DEF Moved
  <2>11. RegsKeep(Roots) /\ RegsKeep(Roots \ {"bags"}) /\ ("bags" \in DOMAIN regs => "bags" \in DOMAIN regs')
    BY <1>5, <2>10 DEF RegsKeep
  <2>12. o \in DOMAIN B /\ B[o] = A[o] /\ N[o] = M[o] /\ want' = want
    BY <1>4, <2>4, <2>9 DEF SameMeaning
  <2>13. Frame("bags", B, N)'
    BY <1>4, <2>4, <2>7, <2>8, <2>11, <2>12, FrameKeeps
  <2>14. InReg("bags", o, B)' /\ AtSpot("at", "bags", 1, B)'
    BY <1>4, <1>8, <2>10, <2>12 DEF InReg, AtSpot
  <2>15. Rough("bags", {1}, B, N)'
    <3>1. ASSUME NEW j \in (1 .. Len(want["bags"])) \ {1} PROVE Done("bags", j, B, N)'
      <4>1. Done("bags", j, A, M) /\ <<"bags", j>> # n
        BY <1>3 DEF Whole, Rough
      <4> QED
        BY <2>9, <2>12, <4>1 DEF Done
    <3> QED
      BY <1>4, <2>12, <3>1 DEF Rough
  <2>16. Whole("bags", {1}, B, N)'
    BY <1>4, <2>12, <2>13, <2>14, <2>15 DEF Whole
  <2>17. Fills("bags", 1, regs["held"], B, N)'
    BY <1>3, <2>6, <2>9, <2>10, <2>12, Kinds DEF Fills
  <2>18. Ahead("bags", {1} \ {1}, {1}, << >>, B, N)'
    <3>1. CopyParts("bags", 1, 1) = << >>
      <4>1. 1 \in Nat /\ 1 \in 0 .. 1
        OBVIOUS
      <4>2. "bags" \in Roots
        BY Kinds, AreRegisters
      <4> QED
        BY <4>1, <4>2, CopyPartsAre
    <3>2. {1} \ {1} = (1 + 1) .. 1 /\ 1 \in 0 .. 1 /\ 1 \in Nat
      OBVIOUS
    <3>3. ByCopying("bags", {1} \ {1}, {1}, << >>, B, N)'
      BY <3>1, <3>2, Kinds DEF ByCopying
    <3> QED
      BY <3>3 DEF Ahead
  <2>19. Runs(PutHeld, << >>)'
    BY <2>2, <2>4, InnerRuns
  <2>20. AtPut(B, N)'
    <3>1. 1 \in {1} /\ "held" \in {"t", "held"}
      OBVIOUS
    <3> QED
      BY <2>10, <2>14, <2>16, <2>17, <2>18, <2>19, <3>1 DEF AtPut, PutHeld
  <2>21. Stage(B, N)'
    BY <2>20 DEF Stage
  <2> QED
    BY <2>4, <2>21 DEF Reaches
<1> QED
  BY <1>6, <1>7, <1>8 DEF AtInner

-----------------------------------------------------------------------------
(* At every stage the names have lists. *)
LEMMA StageWorld ==
  ASSUME NEW A, NEW M, Stage(A, M)
  PROVE  World(A, M)
<1>1. \A x, S : Whole(x, S, A, M) => World(A, M)
  BY DEF Whole, Frame
<1>2. \A x : (Short(x, A, M) \/ Frame(x, A, M)) => World(A, M)
  BY DEF Short, Frame
<1>3. \A v, rest : Uses(v, rest, A, M) => World(A, M)
  <2> SUFFICES ASSUME NEW v, NEW rest, Uses(v, rest, A, M) PROVE World(A, M)
    OBVIOUS
  <2>1. CASE \E x \in Numbered : \E S, k : \E more \in Seq(Instrs) :
          /\ rest = <<PutT>> \o more /\ Whole(x, S, A, M) /\ k \in S /\ AtSpot("at", x, k, A)
          /\ v \in Int /\ v = want[x][k] /\ Ahead(x, S \ {k}, S, more, A, M)
    BY <1>1, <2>1, Zenon
  <2>2. CASE \E x \in Numbered : /\ rest = <<Instr("push", x, "t", 0, FALSE)>> /\ Short(x, A, M)
                                /\ v \in Int /\ v = want[x][Len(want[x])]
    BY <1>2, <2>2
  <2>3. CASE Deeper(v, A, M)
    BY <1>1, <2>3 DEF Deeper
  <2> QED
    BY <2>1, <2>2, <2>3 DEF Uses
<1>4. AtRest(A, M) \/ AtElement(A, M) \/ AtFixup(A, M) \/ AtPut(A, M) \/ AtPutObject(A, M) => World(A, M)
  BY <1>1 DEF AtRest, Clean, AtElement, AtFixup, AtPut, AtPutObject
<1>5. AtConst(A, M) \/ AtHead(A, M) \/ AtGet(A, M) => World(A, M)
  BY <1>3 DEF AtConst, AtHead, AtGet
<1>6. AtPush(A, M) \/ AtPushObject(A, M) \/ AtPushFirst(A, M) \/ AtPushAt(A, M) \/ AtInner(A, M) => World(A, M)
  BY <1>1, <1>2 DEF AtPush, AtPushObject, AtPushFirst, AtPushAt, FirstAgain, AtInner, Deeper
<1>7. AtNew(A, M) \/ AtCopy(A, M) \/ AtClone(A, M) \/ AtCopyBack(A, M) \/ AtFirst(A, M) \/ AtLend(A, M) => World(A, M)
  BY <1>2 DEF AtNew, AtCopy, AtClone, AtCopyBack, AtFirst, FirstFor, AtLend
<1> QED
  BY <1>4, <1>5, <1>6, <1>7 DEF Stage

(* An instruction takes a statement from one stage to another. *)
LEMMA ActsReach ==
  ASSUME IInv, WellMeant, NEW A, NEW M, Stage(A, M), Acts, code # << >>
  PROVE  Reaches
<1>1. World(A, M)
  BY StageWorld
<1>2. ~AtRest(A, M)
  BY DEF AtRest
<1> QED
  BY <1>1, <1>2, StepElement, StepFixup, StepPut, StepPutObject, StepConst, StepHead, StepGet, StepPush, StepPushObject,
     StepPushFirst, StepPushAt, StepInner, StepNew, StepCopy, StepClone, StepCopyBack, StepFirst, StepLend DEF Stage

(* Where the program stops, nothing it has changes. *)
LEMMA StopKeeps ==
  ASSUME NEW A, NEW M, Stage(A, M), UNCHANGED <<code, regs, mem, blocks, lent, want>>
  PROVE  Stage(A, M)'
<1>1. Calm /\ code' = code /\ regs' = regs /\ lent' = lent /\ want' = want /\ mem' = mem
  BY DEF Calm, SameMeaning, RegsKeep
<1>2. \A i, rest : Runs(i, rest) => Runs(i, rest)'
  BY <1>1 DEF Runs
<1>3. /\ \A x : Frame(x, A, M) => Frame(x, A, M)'
      /\ \A x, S : Whole(x, S, A, M) => Whole(x, S, A, M)'
      /\ \A x : Short(x, A, M) => Short(x, A, M)'
      /\ Clean(A, M) => Clean(A, M)'
  BY <1>1, CalmGoesOn
<1>4. /\ \A e, x, k, T : Borrowed(e, x, k, T, A, M) => Borrowed(e, x, k, T, A, M)'
      /\ \A x, k, e : Meant(x, k, e) => Meant(x, k, e)'
      /\ \A x, S, T, rest : Ahead(x, S, T, rest, A, M) => Ahead(x, S, T, rest, A, M)'
      /\ \A x, n : Source(x, n, A, M) => Source(x, n, A, M)'
  BY <1>1, CalmAhead
<1>5. /\ \A r, x, k : AtSpot(r, x, k, A) => AtSpot(r, x, k, A)'
      /\ \A r, n : InReg(r, n, A) => InReg(r, n, A)'
  BY <1>1 DEF AtSpot, InReg
<1>6. /\ World(A, M) => World(A, M)'
      /\ \A v \in Vars : Good(v, A, M) => Good(v, A, M)'
      /\ \A x, S : Rough(x, S, A, M) => Rough(x, S, A, M)'
  BY <1>1, CalmKeeps
<1>7. \A v, rest : Uses(v, rest, A, M) => Uses(v, rest, A, M)'
  BY <1>1, <1>5, UsesKeeps
<1>8. \A v : Deeper(v, A, M) => Deeper(v, A, M)'
  BY <1>1, DeeperKeeps
<1>9. CASE AtRest(A, M)
  BY <1>1, <1>3, <1>9 DEF AtRest, Stage
<1>10. CASE AtElement(A, M)
  BY <1>1, <1>3, <1>4, <1>10 DEF AtElement, Stage
<1>11. CASE AtFixup(A, M)
  <2>1. AtFixup(A, M)'
    BY <1>2, <1>3, <1>4, <1>5, <1>11 DEF AtFixup
  <2> QED
    BY <2>1 DEF Stage
<1>12. CASE AtPut(A, M)
  <2>0. PICK x, S, k, rest : \E t \in {"t", "held"} :
       /\ Runs(Instr("put", "at", t, 0, FALSE), rest) /\ Whole(x, S, A, M) /\ k \in S
       /\ AtSpot("at", x, k, A) /\ t \in DOMAIN regs /\ Fills(x, k, regs[t], A, M)
       /\ Ahead(x, S \ {k}, S, rest, A, M)
    BY <1>12 DEF AtPut
  <2>a. PICK t \in {"t", "held"} :
       /\ Runs(Instr("put", "at", t, 0, FALSE), rest) /\ Whole(x, S, A, M) /\ k \in S
       /\ AtSpot("at", x, k, A) /\ t \in DOMAIN regs /\ Fills(x, k, regs[t], A, M)
       /\ Ahead(x, S \ {k}, S, rest, A, M)
    BY <2>0
  <2>b. Fills(x, k, regs[t], A, M)'
    BY <1>1, <2>a DEF Fills
  <2>c. /\ Runs(Instr("put", "at", t, 0, FALSE), rest)' /\ Whole(x, S, A, M)' /\ AtSpot("at", x, k, A)'
        /\ t \in DOMAIN regs' /\ Ahead(x, S \ {k}, S, rest, A, M)'
    BY <1>1, <1>2, <1>3, <1>4, <1>5, <2>a
  <2>1. AtPut(A, M)'
    BY <2>a, <2>b, <2>c DEF AtPut
  <2> QED
    BY <2>1 DEF Stage
<1>13. CASE AtPutObject(A, M)
  <2>0. PICK x, S, k, n : \E b \in Numbered : \E more \in Seq(Instrs) :
       /\ Runs(Instr("put", "at", b, 0, FALSE), <<FixupAt("at")>> \o more)
       /\ HoldsLists(x) /\ Whole(x, S, A, M) /\ k \in S /\ AtSpot("at", x, k, A)
       /\ InReg(b, n, A) /\ Borrowed(A[n], x, k, S, A, M) /\ Ahead(x, S \ {k}, S, more, A, M)
    BY <1>13 DEF AtPutObject
  <2>a. PICK b \in Numbered, more \in Seq(Instrs) :
       /\ Runs(Instr("put", "at", b, 0, FALSE), <<FixupAt("at")>> \o more)
       /\ HoldsLists(x) /\ Whole(x, S, A, M) /\ k \in S /\ AtSpot("at", x, k, A)
       /\ InReg(b, n, A) /\ Borrowed(A[n], x, k, S, A, M) /\ Ahead(x, S \ {k}, S, more, A, M)
    BY <2>0
  <2>b. /\ Runs(Instr("put", "at", b, 0, FALSE), <<FixupAt("at")>> \o more)'
        /\ Whole(x, S, A, M)' /\ AtSpot("at", x, k, A)' /\ InReg(b, n, A)'
        /\ Borrowed(A[n], x, k, S, A, M)' /\ Ahead(x, S \ {k}, S, more, A, M)'
    BY <1>2, <1>3, <1>4, <1>5, <2>a
  <2>1. AtPutObject(A, M)'
    BY <2>a, <2>b DEF AtPutObject
  <2> QED
    BY <2>1 DEF Stage
<1>14. CASE AtConst(A, M) \/ AtHead(A, M) \/ AtGet(A, M)
  <2>1. AtConst(A, M) => AtConst(A, M)'
    BY <1>2, <1>7 DEF AtConst
  <2>2. AtHead(A, M) => AtHead(A, M)'
    BY <1>2, <1>5, <1>7 DEF AtHead
  <2>3. AtGet(A, M) => AtGet(A, M)'
    BY <1>1, <1>2, <1>7 DEF AtGet
  <2> QED
    BY <1>14, <2>1, <2>2, <2>3 DEF Stage
<1>15. CASE AtPush(A, M) \/ AtPushObject(A, M) \/ AtPushFirst(A, M) \/ AtPushAt(A, M)
  <2>1. AtPush(A, M) => AtPush(A, M)'
    BY <1>1, <1>2, <1>3 DEF AtPush
  <2>2. AtPushObject(A, M) => AtPushObject(A, M)'
    BY <1>1, <1>2, <1>3, <1>4, <1>5 DEF AtPushObject
  <2>3. FirstAgain(A, M) => FirstAgain(A, M)'
    BY <1>1, <1>3 DEF FirstAgain
  <2>4. AtPushFirst(A, M) => AtPushFirst(A, M)'
    BY <1>2, <2>3 DEF AtPushFirst
  <2>5. AtPushAt(A, M) => AtPushAt(A, M)'
    BY <1>2, <1>5, <2>3 DEF AtPushAt
  <2> QED
    BY <1>15, <2>1, <2>2, <2>4, <2>5 DEF Stage
<1>16. CASE AtInner(A, M)
  <2>1. PICK v : v = regs["t"]
    OBVIOUS
  <2>2. Deeper(v, A, M)'
    BY <1>8, <1>16, <2>1 DEF AtInner
  <2>3. Deeper(regs["t"], A, M)' /\ "t" \in DOMAIN regs'
    BY <1>1, <1>16, <2>1, <2>2, Zenon DEF Deeper, AtInner
  <2>4. AtInner(A, M)'
    BY <1>2, <1>5, <1>16, <2>3 DEF AtInner
  <2> QED
    BY <2>4 DEF Stage
<1>17. CASE AtNew(A, M)
  <2>1. AtNew(A, M)'
    BY <1>1, <1>2, <1>3, <1>4, <1>17 DEF AtNew
  <2> QED
    BY <2>1 DEF Stage
<1>18. CASE AtCopy(A, M) \/ AtClone(A, M) \/ AtCopyBack(A, M)
  <2>1. AtCopy(A, M) => AtCopy(A, M)'
    BY <1>1, <1>2, <1>3, <1>4, <1>5 DEF AtCopy
  <2>2. AtClone(A, M) => AtClone(A, M)'
    BY <1>1, <1>2, <1>3, <1>4, <1>5 DEF AtClone
  <2>3. AtCopyBack(A, M) => AtCopyBack(A, M)'
    BY <1>1, <1>2, <1>3, <1>5, <1>6 DEF AtCopyBack
  <2> QED
    BY <1>18, <2>1, <2>2, <2>3 DEF Stage
<1>19. CASE AtFirst(A, M)
  <2>1. \A x : FirstFor(x, A, M) => FirstFor(x, A, M)'
    BY <1>1, <1>3, <1>6, Kinds DEF FirstFor
  <2>2. AtFirst(A, M)'
    BY <1>2, <1>5, <1>19, <2>1 DEF AtFirst
  <2> QED
    BY <2>2 DEF Stage
<1>20. CASE AtLend(A, M)
  <2>1. AtLend(A, M)'
    BY <1>1, <1>2, <1>6, <1>20 DEF AtLend
  <2> QED
    BY <2>1 DEF Stage
<1> QED
  BY <1>9, <1>10, <1>11, <1>12, <1>13, <1>14, <1>15, <1>16, <1>17, <1>18, <1>19, <1>20 DEF Stage

(* Code that has parts left is not at its end. *)
LEMMA PartsLeft ==
  ASSUME NEW i \in Instrs, NEW a \in Seq(Instrs), NEW r \in Seq(Instrs)
  PROVE  (<<i>> \o a) \o r # << >>
<1>1. <<i>> \in Seq(Instrs)
  OBVIOUS
<1>2. Regroups(<<i>>, a, r)
  BY <1>1, ConcatAssociates
<1>3. a \o r \in Seq(Instrs)
  OBVIOUS
<1>4. <<i>> \o (a \o r) # << >>
  BY <1>3, InFront
<1> QED
  BY <1>2, <1>4 DEF Regroups

(* A variable with nothing to come is what it is to be. *)
LEMMA AllDone ==
  ASSUME NEW x, NEW A, NEW M, Whole(x, {}, A, M)
  PROVE  Clean(A, M)
  BY DEF Whole, Frame, Clean, Good

(* Between statements all is done. *)
LEMMA DoneAtEnd ==
  ASSUME NEW A, NEW M, Stage(A, M), code = << >>
  PROVE  Clean(A, M)
<1>1. CASE AtRest(A, M)
  BY <1>1 DEF AtRest
<1>2. CASE AtElement(A, M)
  <2>1. PICK x, S : Whole(x, S, A, M) /\ Ahead(x, S, S, << >>, A, M)
    BY <1>2 DEF AtElement
  <2>2. CASE Literally(x, S, << >>, A)
    <3>1. PICK r \in Roots : \E es, j :
         /\ es \in Seq(ToSet(es)) /\ j \in 0 .. Len(es) /\ InReg(r, <<x, 0>>, A)
         /\ S = (j + 1) .. Len(es) /\ << >> = ItemParts(r, es, j)
         /\ \A k \in S : Meant(x, k, es[k])
      BY <2>2 DEF Literally
    <3>2. PICK es, j :
         /\ es \in Seq(ToSet(es)) /\ j \in 0 .. Len(es) /\ InReg(r, <<x, 0>>, A)
         /\ S = (j + 1) .. Len(es) /\ << >> = ItemParts(r, es, j)
         /\ \A k \in S : Meant(x, k, es[k])
      BY <3>1
    <3>3. Len(es) \in Nat
      <4>1. es \in Seq(ToSet(es))
        BY <3>2
      <4> QED
        BY <4>1
    <3>4. CASE j < Len(es)
      <4> DEFINE k == j + 1
                 rest == ItemParts(r, es, k)
                 more == ItemCode(es[k], "at")
      <4>1. j \in 0 .. Len(es) /\ \A l \in (j + 1) .. Len(es) : Meant(x, l, es[l])
        BY <3>2
      <4>2. << >> = ItemPart(r, es, k) \o rest /\ rest \in Seq(Instrs)
        BY <3>2, <3>3, <3>4, <4>1, ItemPartsAre
      <4>3. Meant(x, k, es[k]) /\ k - 1 \in Int
        BY <3>3, <3>4, <4>1
      <4>4. more \in Seq(Instrs)
        BY <4>3, ItemIsCode
      <4>5. PICK i : i = Instr("elem", "at", r, k - 1, FALSE)
        OBVIOUS
      <4>6. i \in Instrs
        BY <4>3, <4>5, AreRegisters, IsInstr
      <4>7. ItemPart(r, es, k) = <<i>> \o more
        BY <4>5 DEF ItemPart
      <4> HIDE DEF rest, more, k
      <4> QED
        BY <4>2, <4>4, <4>6, <4>7, PartsLeft
    <3>5. CASE ~(j < Len(es))
      <4>1. S = {}
        BY <3>2, <3>3, <3>5
      <4> QED
        BY <2>1, <4>1, AllDone
    <3> QED
      BY <3>4, <3>5
  <2>3. CASE ByCopying(x, S, S, << >>, A, M)
    <3>1. PICK n \in Nat : \E j \in 0 .. n :
         /\ HoldsLists(x)
         /\ S = (j + 1) .. n /\ << >> = CopyParts(x, n, j)
      BY <2>3 DEF ByCopying
    <3>2. PICK j \in 0 .. n : HoldsLists(x) /\ S = (j + 1) .. n /\ << >> = CopyParts(x, n, j)
      BY <3>1
    <3>3. CASE j < n
      <4> DEFINE k == j + 1
                 rest == CopyParts(x, n, k)
      <4>1. x \in Roots
        BY <3>2, Kinds, AreRegisters
      <4>2. << >> = CopyPart(x, k) \o rest /\ rest \in Seq(Instrs)
        BY <3>2, <3>3, <4>1, CopyPartsAre
      <4>3. k - 1 \in Int
        OBVIOUS
      <4>4. PICK i, f : i = Instr("elem", "at", x, k - 1, FALSE) /\ f = FixupAt("at")
        OBVIOUS
      <4>5. i \in Instrs /\ f \in Instrs
        BY <4>1, <4>3, <4>4, InnerCode, AreRegisters, IsInstr
      <4>6. CopyPart(x, k) = <<i, f>>
        BY <4>4 DEF CopyPart, FixupAt
      <4> HIDE DEF rest, k
      <4>7. <<i, f>> \o rest = <<i>> \o (<<f>> \o rest) /\ <<f>> \o rest \in Seq(Instrs)
        BY <4>2, <4>5, TwoInFront, InFront
      <4>8. <<i>> \o (<<f>> \o rest) # << >>
        BY <4>5, <4>7, InFront
      <4> QED
        BY <4>2, <4>6, <4>7, <4>8
    <3>4. CASE ~(j < n)
      <4>1. S = {}
        BY <3>2, <3>4
      <4> QED
        BY <2>1, <4>1, AllDone
    <3> QED
      BY <3>3, <3>4
  <2> QED
    BY <2>1, <2>2, <2>3 DEF Ahead
<1>3. \A i, rest : ~Runs(i, rest)
  BY DEF Runs
<1>4. ~AtLend(A, M)
  BY <1>3 DEF AtLend
<1>5. ~AtFixup(A, M)
  BY <1>3, Zenon DEF AtFixup
<1>6. ~AtPut(A, M)
  BY <1>3, Zenon DEF AtPut
<1>7. ~AtPutObject(A, M)
  BY <1>3, Zenon DEF AtPutObject
<1>8. ~AtConst(A, M)
  BY <1>3, Zenon DEF AtConst
<1>9. ~AtHead(A, M)
  BY <1>3, Zenon DEF AtHead
<1>10. ~AtGet(A, M)
  BY <1>3, Zenon DEF AtGet
<1>11. ~AtPush(A, M)
  BY <1>3, Zenon DEF AtPush
<1>12. ~AtPushObject(A, M)
  BY <1>3, Zenon DEF AtPushObject
<1>13. ~AtPushFirst(A, M)
  BY <1>3, Zenon DEF AtPushFirst
<1>14. ~AtPushAt(A, M)
  BY <1>3, Zenon DEF AtPushAt
<1>15. ~AtInner(A, M)
  BY <1>3, Zenon DEF AtInner
<1>16. ~AtNew(A, M)
  BY <1>3, Zenon DEF AtNew
<1>17. ~AtCopy(A, M)
  BY <1>3, Zenon DEF AtCopy
<1>18. ~AtClone(A, M)
  BY <1>3, Zenon DEF AtClone
<1>19. ~AtCopyBack(A, M)
  BY <1>3, Zenon DEF AtCopyBack
<1>20. ~AtFirst(A, M)
  BY <1>3, Zenon DEF AtFirst
<1> QED
  BY <1>1, <1>2, <1>4, <1>5, <1>6, <1>7, <1>8, <1>9, <1>10, <1>11, <1>12, <1>13, <1>14, <1>15, <1>16, <1>17, <1>18, <1>19, <1>20 DEF Stage

-----------------------------------------------------------------------------
(* What a statement is made of. *)
LEMMA StmtsAre ==
  ASSUME NEW st, NEW x, NEW v
  PROVE  /\ st = Assign(x, v) => st.kind = "assign" /\ st.name = x /\ st.value = v
         /\ st = Push(x, v) => st.kind = "push" /\ st.name = x /\ st.value = v
         /\ st = PushFirst => st.kind = "pushfirst"
         /\ st = SetHead(x, v) => st.kind = "set" /\ st.name = x /\ st.value.n = v
         /\ st = PushInner(v) => st.kind = "inner" /\ st.value.n = v
         /\ st = Lend(x) => st.kind = "lend" /\ st.name = x
         /\ st = Leave => st.kind = "leave"
<1>1. ASSUME st = Assign(x, v) PROVE st.kind = "assign" /\ st.name = x /\ st.value = v
  BY <1>1 DEF Assign, Stmt
<1>2. ASSUME st = Push(x, v) PROVE st.kind = "push" /\ st.name = x /\ st.value = v
  BY <1>2 DEF Push, Stmt
<1>3. ASSUME st = PushFirst PROVE st.kind = "pushfirst"
  BY <1>3 DEF PushFirst, Stmt
<1>4. ASSUME st = SetHead(x, v) PROVE st.kind = "set" /\ st.name = x /\ st.value.n = v
  BY <1>4 DEF SetHead, Stmt, Num, Item
<1>5. ASSUME st = PushInner(v) PROVE st.kind = "inner" /\ st.value.n = v
  BY <1>5 DEF PushInner, Stmt, Num, Item
<1>6. ASSUME st = Lend(x) PROVE st.kind = "lend" /\ st.name = x
  BY <1>6 DEF Lend, Stmt
<1>7. ASSUME st = Leave PROVE st.kind = "leave"
  BY <1>7 DEF Leave, Stmt
<1> QED
  BY <1>1, <1>2, <1>3, <1>4, <1>5, <1>6, <1>7

(* And a value. *)
LEMMA ValuesAre ==
  ASSUME NEW v, NEW y
  PROVE  /\ v = ListLit(y) => v.kind = "lit" /\ v.parts = y
         /\ v = ListVar(y) => v.kind = "var" /\ v.name = y
         /\ v = Same(y) => v.kind = "same" /\ v.name = y
         /\ v = FirstBag => v.kind = "first"
<1>1. ASSUME v = ListLit(y) PROVE v.kind = "lit" /\ v.parts = y
  BY <1>1 DEF ListLit, Value
<1>2. ASSUME v = ListVar(y) PROVE v.kind = "var" /\ v.name = y
  BY <1>2 DEF ListVar, Value
<1>3. ASSUME v = Same(y) PROVE v.kind = "same" /\ v.name = y
  BY <1>3 DEF Same, Value
<1>4. ASSUME v = FirstBag PROVE v.kind = "first"
  BY <1>4 DEF FirstBag, Value
<1> QED
  BY <1>1, <1>2, <1>3, <1>4

(* What a statement means, and its code. *)
LEMMA StmtMeans ==
  ASSUME NEW st
  PROVE  /\ st.kind = "assign" => /\ After(st) = [want EXCEPT ![st.name] = ValueMeans(st.value)]
                                  /\ StmtCode(st) = KeepInto(st.name, st.value)
                                  /\ Allowed(st) => st.name # lent /\ ValueAllowed(st.value)
         /\ st.kind = "push" => /\ After(st) = [want EXCEPT ![st.name] = Append(want[st.name], ItemMeans(st.value))]
                                /\ StmtCode(st) = PushCode(st.name, st.value)
                                /\ Allowed(st) => st.name # lent /\ Known(st.name) /\ ItemAllowed(st.value)
         /\ st.kind = "pushfirst" =>
              /\ After(st) = [want EXCEPT !["bags"] = Append(want["bags"], Head(want["bags"]))]
              /\ StmtCode(st) = <<Instr("elem", "u", "bags", 0, FALSE), Instr("pushat", "bags", "u", 0, TRUE)>>
              /\ Allowed(st) => Begun("bags")
         /\ st.kind = "set" =>
              /\ After(st) = [want EXCEPT ![Named(st.name)][1] = st.value.n]
              /\ StmtCode(st) = <<Instr("elem", "at", st.name, 0, FALSE), Instr("const", "t", "", st.value.n, FALSE),
                                  Instr("put", "at", "t", 0, FALSE)>>
              /\ Allowed(st) => Begun(st.name)
         /\ st.kind = "inner" =>
              /\ After(st) = [want EXCEPT !["bags"][1] = Append(want["bags"][1], st.value.n)]
              /\ StmtCode(st) =
                    <<Instr("const", "t", "", st.value.n, FALSE), Instr("elem", "at", "bags", 0, FALSE),
                      Instr("get", "held", "at", 0, FALSE), Instr("push", "held", "t", 0, FALSE),
                      Instr("put", "at", "held", 0, FALSE)>>
              /\ Allowed(st) => Begun("bags")
         /\ st.kind = "lend" => /\ After(st) = want
                                /\ StmtCode(st) = <<Instr("copy", "p", st.name, 0, FALSE)>>
                                /\ Allowed(st) => lent = "nothing" /\ Known(st.name)
         /\ st.kind = "leave" => After(st) = want /\ StmtCode(st) = << >>
<1>1. ASSUME st.kind = "assign"
      PROVE  /\ After(st) = [want EXCEPT ![st.name] = ValueMeans(st.value)]
             /\ StmtCode(st) = KeepInto(st.name, st.value)
             /\ Allowed(st) => st.name # lent /\ ValueAllowed(st.value)
  BY <1>1, Zenon DEF After, StmtCode, Allowed
<1>2. ASSUME st.kind = "push"
      PROVE  /\ After(st) = [want EXCEPT ![st.name] = Append(want[st.name], ItemMeans(st.value))]
             /\ StmtCode(st) = PushCode(st.name, st.value)
             /\ Allowed(st) => st.name # lent /\ Known(st.name) /\ ItemAllowed(st.value)
  BY <1>2, Zenon DEF After, StmtCode, Allowed
<1>3. ASSUME st.kind = "pushfirst"
      PROVE   /\ After(st) = [want EXCEPT !["bags"] = Append(want["bags"], Head(want["bags"]))]
              /\ StmtCode(st) = <<Instr("elem", "u", "bags", 0, FALSE), Instr("pushat", "bags", "u", 0, TRUE)>>
              /\ Allowed(st) => Begun("bags")
  BY <1>3, Zenon DEF After, StmtCode, Allowed
<1>4. ASSUME st.kind = "set"
      PROVE   /\ After(st) = [want EXCEPT ![Named(st.name)][1] = st.value.n]
              /\ StmtCode(st) = <<Instr("elem", "at", st.name, 0, FALSE), Instr("const", "t", "", st.value.n, FALSE),
                                  Instr("put", "at", "t", 0, FALSE)>>
              /\ Allowed(st) => Begun(st.name)
  BY <1>4, Zenon DEF After, StmtCode, Allowed
<1>5. ASSUME st.kind = "inner"
      PROVE   /\ After(st) = [want EXCEPT !["bags"][1] = Append(want["bags"][1], st.value.n)]
              /\ StmtCode(st) =
                    <<Instr("const", "t", "", st.value.n, FALSE), Instr("elem", "at", "bags", 0, FALSE),
                      Instr("get", "held", "at", 0, FALSE), Instr("push", "held", "t", 0, FALSE),
                      Instr("put", "at", "held", 0, FALSE)>>
              /\ Allowed(st) => Begun("bags")
  BY <1>5, Zenon DEF After, StmtCode, Allowed
<1>6. ASSUME st.kind = "lend"
      PROVE  /\ After(st) = want
             /\ StmtCode(st) = <<Instr("copy", "p", st.name, 0, FALSE)>>
             /\ Allowed(st) => lent = "nothing" /\ Known(st.name)
  BY <1>6, Zenon DEF After, StmtCode, Allowed
<1>7. ASSUME st.kind = "leave" PROVE After(st) = want /\ StmtCode(st) = << >>
  BY <1>7, Zenon DEF After, StmtCode, Allowed
<1> QED
  BY <1>1, <1>2, <1>3, <1>4, <1>5, <1>6, <1>7

(* What a statement that begins leaves alone. *)
Starts == regs' = regs /\ mem' = mem /\ blocks' = blocks

(* It begins. *)
LEMMA BeginIs ==
  ASSUME IInv, NEW st, Begin(st)
  PROVE  /\ Allowed(st) /\ code' = StmtCode(st) /\ want' = After(st) /\ Starts /\ Goes
         /\ st.kind = "lend" => lent' = st.name
         /\ st.kind = "leave" => lent' = "nothing"
         /\ st.kind \notin {"lend", "leave"} => lent' = lent
<1>1. Quiet
  BY DEF Begin, Quiet
<1>2. Goes /\ blocks' = blocks
  BY <1>1, QuietGoes
<1>3. /\ st.kind = "lend" => lent' = st.name
      /\ st.kind = "leave" => lent' = "nothing"
      /\ st.kind \notin {"lend", "leave"} => lent' = lent
  <2>1. lent' = CASE st.kind = "lend" -> st.name
                 [] st.kind = "leave" -> "nothing"
                 [] OTHER -> lent
    BY DEF Begin
  <2>2. ASSUME st.kind = "lend" PROVE lent' = st.name
    BY <2>1, <2>2, Zenon
  <2>3. ASSUME st.kind = "leave" PROVE lent' = "nothing"
    BY <2>1, <2>3, Zenon
  <2>4. ASSUME st.kind # "lend", st.kind # "leave" PROVE lent' = lent
    BY <2>1, <2>4, Zenon
  <2> QED
    BY <2>2, <2>3, <2>4
<1> QED
  BY <1>2, <1>3 DEF Begin, Starts

(* The variables a statement does not change are what they are to be. *)
LEMMA FrameBegins ==
  ASSUME NEW A, NEW M, Clean(A, M), Starts, NEW x \in Vars, \A v \in Vars : v # x => want'[v] = want[v], lent' = lent
  PROVE  Frame(x, A, M)' /\ \A r, n : InReg(r, n, A) => InReg(r, n, A)'
<1>1. World(A, M)'
  BY WorldStays DEF Clean, Starts
<1>2. \A r, n : InReg(r, n, A) => InReg(r, n, A)'
  BY DEF InReg, Starts
<1>3. LentGood(A)'
  BY <1>2 DEF LentGood, Clean, Starts
<1>4. ASSUME NEW v \in (Vars \cap DOMAIN regs') \ {x} PROVE Good(v, A, M)'
  <2>1. Good(v, A, M) /\ want'[v] = want[v]
    BY <1>4 DEF Clean, Starts
  <2> QED
    BY <1>2, <2>1 DEF Good, Rough, Done
<1> QED
  BY <1>1, <1>2, <1>3, <1>4 DEF Frame

(* What is read by a name. *)
LEMMA ReadNow ==
  ASSUME WellMeant, NEW A, NEW M, Clean(A, M), NEW y \in Readable, Known(y)
  PROVE  /\ InReg(y, <<Named(y), 0>>, A) /\ M[<<Named(y), 0>>] = want[Named(y)]
         /\ Named(y) \in Numbered /\ Named(y) \in DOMAIN regs /\ want[Named(y)] \in Seq(Int) /\ y \in Roots
<1>1. CASE y = "p"
  <2>1. Named(y) = lent /\ lent \in Numbered /\ lent \in DOMAIN regs /\ InReg("p", <<lent, 0>>, A)
    BY <1>1 DEF Named, Known, Clean, LentGood
  <2>2. Good(lent, A, M)
    BY <2>1, Kinds DEF Clean
  <2> QED
    BY <1>1, <2>1, <2>2, GoodIs, AreRegisters DEF Good, Clean, WellMeant
<1>2. CASE y # "p"
  <2>1. Named(y) = y /\ y \in DOMAIN regs /\ y \in Numbered
    BY <1>2 DEF Named, Known, Readable
  <2>2. Good(y, A, M)
    BY <2>1, Kinds DEF Clean
  <2> QED
    BY <2>1, <2>2, GoodIs, AreRegisters DEF Good, Clean, WellMeant
<1> QED
  BY <1>1, <1>2

(* x comes to mean s. *)
Means(x, s) == want' = [want EXCEPT ![x] = s]

(* What an item means, and when it can be read. *)
LEMMA ItemReads ==
  ASSUME NEW e
  PROVE  /\ e.kind = "num" => ItemMeans(e) = e.n
         /\ e.kind = "head" => ItemMeans(e) = Head(want[Named(e.name)]) /\ (ItemAllowed(e) => Begun(e.name))
         /\ e.kind = "bag" => ItemMeans(e) = want[e.name] /\ (ItemAllowed(e) => Known(e.name))
<1>1. ASSUME e.kind = "num" PROVE ItemMeans(e) = e.n
  BY <1>1, Zenon DEF ItemMeans
<1>2. ASSUME e.kind = "head" PROVE ItemMeans(e) = Head(want[Named(e.name)]) /\ (ItemAllowed(e) => Begun(e.name))
  <2>1. ItemMeans(e) = Head(want[Named(e.name)])
    BY <1>2, Zenon DEF ItemMeans
  <2>2. ItemAllowed(e) => Begun(e.name)
    BY <1>2 DEF ItemAllowed
  <2> QED
    BY <2>1, <2>2
<1>3. ASSUME e.kind = "bag" PROVE ItemMeans(e) = want[e.name] /\ (ItemAllowed(e) => Known(e.name))
  <2>1. ItemMeans(e) = want[e.name]
    BY <1>3, Zenon DEF ItemMeans
  <2>2. ItemAllowed(e) => Known(e.name)
    BY <1>3 DEF ItemAllowed
  <2> QED
    BY <2>1, <2>2
<1> QED
  BY <1>1, <1>2, <1>3

(* The first of a list that has begun. *)
LEMMA FirstOf ==
  ASSUME NEW S, NEW s \in Seq(S), s # << >>
  PROVE  Len(s) >= 1 /\ Head(s) = s[1] /\ Head(s) \in S
  OBVIOUS

(* It means something of the kind it goes into. *)
LEMMA ItemTyped ==
  ASSUME WellMeant, NEW A, NEW M, Clean(A, M), NEW x, NEW e, TypedItem(x, e), ItemAllowed(e)
  PROVE  /\ x \in Numbered => ItemMeans(e) \in Int
         /\ HoldsLists(x) => ItemMeans(e) \in Seq(Int)
<1>1. ASSUME e = Num(e.n), e.n \in Int PROVE ItemMeans(e) \in Int
  BY <1>1, ItemsAre, ItemReads
<1>2. ASSUME e = HeadOf(e.name), e.name \in Readable PROVE ItemMeans(e) \in Int
  <2>1. e.kind = "head"
    BY <1>2, ItemsAre
  <2>2. ItemMeans(e) = Head(want[Named(e.name)]) /\ Known(e.name) /\ want[Named(e.name)] # << >>
    BY <2>1, ItemReads DEF Begun
  <2>3. want[Named(e.name)] \in Seq(Int)
    BY <1>2, <2>2, ReadNow
  <2> QED
    BY <2>2, <2>3, FirstOf
<1>3. ASSUME e = BagOf(e.name), e.name \in Numbered PROVE ItemMeans(e) \in Seq(Int)
  BY <1>3, ItemsAre, ItemReads DEF WellMeant
<1> QED
  BY <1>1, <1>2, <1>3, Kinds DEF TypedItem, TypedNumber, TypedBag

(* And it is what the element it is written to is to be. *)
LEMMA ItemIsMeant ==
  ASSUME WellMeant, NEW A, NEW M, Clean(A, M), NEW x, NEW e, TypedItem(x, e), ItemAllowed(e), e.name # x, lent # x,
         Starts, lent' = lent, \A v \in Vars : v # x => want'[v] = want[v], NEW k, want'[x][k] = ItemMeans(e)
  PROVE  Meant(x, k, e)'
<1>1. ASSUME x \in Numbered, e = Num(e.n), e.n \in Int PROVE Meant(x, k, e)'
  <2>1. want'[x][k] = e.n
    BY <1>1, ItemsAre, ItemReads
  <2> QED
    BY <1>1, <2>1 DEF Meant
<1>2. ASSUME x \in Numbered, e = HeadOf(e.name), e.name \in Readable PROVE Meant(x, k, e)'
  <2>1. e.kind = "head"
    BY <1>2, ItemsAre
  <2>2. ItemMeans(e) = Head(want[Named(e.name)]) /\ Known(e.name) /\ want[Named(e.name)] # << >>
    BY <2>1, ItemReads DEF Begun
  <2>3. PICK y : y = e.name
    OBVIOUS
  <2>4. PICK z : z = Named(y)
    OBVIOUS
  <2>5. z \in Numbered
    BY <1>2, <2>2, <2>3, <2>4, ReadNow
  <2>6. z # x
    BY <2>3, <2>4 DEF Named
  <2>7. want'[z] = want[z]
    BY <2>5, <2>6, Kinds
  <2>8. Named(y)' = z
    BY <2>4 DEF Named
  <2>9. Known(y)'
    BY <2>2, <2>3 DEF Known, Starts
  <2>10. want'[z] # << >> /\ want'[x][k] = Head(want'[z])
    BY <2>2, <2>3, <2>4, <2>7
  <2> QED
    BY <1>2, <2>3, <2>6, <2>8, <2>9, <2>10 DEF Meant
<1>3. ASSUME HoldsLists(x), e = BagOf(e.name), e.name \in Numbered PROVE Meant(x, k, e)'
  <2>1. e.kind = "bag"
    BY <1>3, ItemsAre
  <2>2. ItemMeans(e) = want[e.name] /\ Known(e.name)
    BY <2>1, ItemReads
  <2>3. want'[e.name] = want[e.name]
    BY <1>3, Kinds
  <2>4. Known(e.name)'
    BY <2>2 DEF Known, Starts
  <2> QED
    BY <1>3, <2>2, <2>3, <2>4 DEF Meant
<1> QED
  BY <1>1, <1>2, <1>3 DEF TypedItem, TypedNumber, TypedBag

(* What a variable comes to mean is of its kind, and the others stay. *)
LEMMA MeansIs ==
  ASSUME WellMeant, NEW x, NEW s, Means(x, s), (x \in Numbered /\ s \in Seq(Int)) \/ (HoldsLists(x) /\ s \in Seq(Seq(Int)))
  PROVE  WellMeant' /\ want'[x] = s /\ x \in Vars /\ \A v \in Vars : v # x => want'[v] = want[v]
<1>1. x \in Vars /\ DOMAIN want = Vars
  BY Kinds DEF WellMeant
<1>2. DOMAIN want' = Vars /\ want'[x] = s /\ \A v \in Vars : v # x => want'[v] = want[v]
  BY <1>1 DEF Means
<1>3. \A v \in Numbered : want'[v] \in Seq(Int)
  BY <1>2, Kinds DEF WellMeant
<1>4. \A v \in {"bags", "more"} : want'[v] \in Seq(Seq(Int))
  BY <1>2, Kinds DEF WellMeant, HoldsLists, Vars
<1> QED
  BY <1>1, <1>2, <1>3, <1>4 DEF WellMeant

-----------------------------------------------------------------------------
(* The code of a literal. *)
LEMMA LiteralCode ==
  ASSUME NEW x, NEW v, NEW es, es \in Seq(ToSet(es)), v.kind = "lit", v.parts = es
  PROVE  KeepInto(x, v) = (<<Instr("new", x, "", Len(es), FALSE)>> \o ItemParts(x, es, 0)) \o << >>
<1>1. ExprInto(x, v) = <<Instr("new", x, "", Len(v.parts), FALSE)>> \o
            FlattenSeq([k \in DOMAIN v.parts |->
                <<Instr("elem", "at", x, k - 1, FALSE)>> \o ItemCode(v.parts[k], "at")])
  BY Zenon DEF ExprInto
<1>2. BuildsItsOwn(v)
  BY DEF BuildsItsOwn
<1>3. KeepInto(x, v) = ExprInto(x, v) \o << >>
  BY <1>2, Zenon DEF KeepInto
<1>4. DOMAIN es = 1 .. Len(es) /\ Len(es) \in Nat
  OBVIOUS
<1>5. [k \in DOMAIN es |-> <<Instr("elem", "at", x, k - 1, FALSE)>> \o ItemCode(es[k], "at")]
      = [k \in 1 .. Len(es) - 0 |-> ItemPart(x, es, 0 + k)]
  <2>1. 1 .. Len(es) - 0 = DOMAIN es
    BY <1>4
  <2>2. ASSUME NEW k \in DOMAIN es
        PROVE  <<Instr("elem", "at", x, k - 1, FALSE)>> \o ItemCode(es[k], "at") = ItemPart(x, es, 0 + k)
    <3>1. 0 + k = k
      BY <1>4
    <3> QED
      BY <3>1, Zenon DEF ItemPart
  <2> QED
    BY <2>1, <2>2, Zenon
<1>6. ItemParts(x, es, 0) = FlattenSeq([k \in 1 .. Len(es) - 0 |-> ItemPart(x, es, 0 + k)])
  BY DEF ItemParts
<1> QED
  BY <1>1, <1>3, <1>5, <1>6, Zenon

(* One instruction and another. *)
LEMMA Pair ==
  ASSUME NEW i \in Instrs, NEW j \in Instrs
  PROVE  <<i>> \o <<j>> = <<i, j>> /\ <<i, j>> \in Seq(Instrs) /\ <<j>> \in Seq(Instrs)
<1> DEFINE s == <<i, j>>
           t == <<i>> \o <<j>>
<1>1. s \in Seq(Instrs) /\ Len(s) = 2 /\ s[1] = i /\ s[2] = j
  OBVIOUS
<1>2. t \in Seq(Instrs) /\ Len(t) = 2 /\ t[1] = i /\ t[2] = j
  OBVIOUS
<1> HIDE DEF s, t
<1>3. s = t
  <2>1. \A k \in 1 .. Len(s) : k = 1 \/ k = 2
    BY <1>1
  <2> QED
    BY <1>1, <1>2, <2>1, SameElements
<1>4. <<j>> \in Seq(Instrs)
  OBVIOUS
<1>5. <<i>> \o <<j>> = <<i, j>>
  BY <1>3 DEF s, t
<1>6. <<i, j>> \in Seq(Instrs)
  BY <1>1 DEF s
<1> QED
  BY <1>4, <1>5, <1>6

(* Nothing comes behind. *)
LEMMA NothingBehind ==
  ASSUME NEW s \in Seq(Instrs)
  PROVE  s \o << >> = s
  OBVIOUS

(* Of n elements. *)
IsListed(s, n) == s = [k \in 1 .. n |-> s[k]]
LEMMA IsSeq ==
  ASSUME NEW n \in Nat, NEW T, NEW s, IsListed(s, n), \A k \in 1 .. n : s[k] \in T
  PROVE  s \in Seq(T) /\ Len(s) = n
  BY DEF IsListed

(* Its elements' places. *)
LEMMA HasLen ==
  ASSUME NEW es, NEW T, es \in Seq(T)
  PROVE  Len(es) \in Nat /\ DOMAIN es = 1 .. Len(es)
  OBVIOUS

(* The parts of a literal are code. *)
LEMMA PartsAreCode ==
  ASSUME NEW r \in Roots, NEW es, Len(es) \in Nat, \A k \in 1 .. Len(es) : ItemCode(es[k], "at") \in Seq(Instrs)
  PROVE  ItemParts(r, es, 0) \in Seq(Instrs)
<1> DEFINE S == Seq(Instrs)
           ss == [k \in 1 .. Len(es) - 0 |-> ItemPart(r, es, 0 + k)]
<1>1. ASSUME NEW k \in 1 .. Len(es) PROVE ItemPart(r, es, k) \in S
  <2>1. k - 1 \in Int
    OBVIOUS
  <2>2. Instr("elem", "at", r, k - 1, FALSE) \in Instrs
    BY <2>1, IsInstr, AreRegisters
  <2> QED
    BY <2>2, InFront DEF ItemPart
<1> HIDE DEF S
<1>2. ss \in Seq(S)
  BY <1>1
<1>3. ItemParts(r, es, 0) = FlattenSeq(ss)
  BY DEF ItemParts
<1> HIDE DEF ss
<1>4. FlattenSeq(ss) \in Seq(Instrs)
  BY <1>2, FlattenAppend DEF S
<1> QED
  BY <1>3, <1>4

(* An item that is typed has code. *)
LEMMA TypedIsCode ==
  ASSUME NEW x, NEW e, TypedItem(x, e)
  PROVE  ItemCode(e, "at") \in Seq(Instrs)
<1>1. CASE e = Num(e.n) /\ e.n \in Int
  <2> DEFINE i == Instr("const", "t", "", e.n, FALSE)
             j == Instr("put", "at", "t", 0, FALSE)
  <2>1. ItemCode(e, "at") = <<i, j>>
    BY <1>1, ItemsAre, ItemCodeIs
  <2>2. i \in Instrs /\ j \in Instrs
    BY <1>1, AreRegisters, IsInstr, IsPlainInstr
  <2> HIDE DEF i, j
  <2> QED
    BY <2>1, <2>2, Pair
<1>2. CASE e = HeadOf(e.name) /\ e.name \in Readable
  <2> DEFINE i == Instr("elem", "u", e.name, 0, FALSE)
             j == Instr("get", "t", "u", 0, FALSE)
             l == Instr("put", "at", "t", 0, FALSE)
  <2>1. ItemCode(e, "at") = <<i, j, l>>
    BY <1>2, ItemsAre, ItemCodeIs
  <2>2. i \in Instrs /\ j \in Instrs /\ l \in Instrs
    BY <1>2, AreRegisters, IsPlainInstr
  <2> HIDE DEF i, j, l
  <2>3. <<i, j, l>> \in Seq(Instrs)
    BY <2>2
  <2> QED
    BY <2>1, <2>3
<1>3. CASE e = BagOf(e.name) /\ e.name \in Numbered
  <2> DEFINE i == Instr("put", "at", e.name, 0, FALSE)
             j == Instr("fixup", "at", "", 0, FALSE)
  <2>1. ItemCode(e, "at") = <<i, j>>
    BY <1>3, ItemsAre, ItemCodeIs
  <2>2. i \in Instrs /\ j \in Instrs
    BY <1>3, AreRegisters, IsPlainInstr
  <2> HIDE DEF i, j
  <2> QED
    BY <2>1, <2>2, Pair
<1> QED
  BY <1>1, <1>2, <1>3 DEF TypedItem, TypedNumber, TypedBag

-----------------------------------------------------------------------------
(* The code of a literal, and of a copy. *)
LitCode(x, es) == (<<Instr("new", x, "", Len(es), FALSE)>> \o ItemParts(x, es, 0)) \o << >>
VarCode(x, y) == <<Instr("copy", x, y, 0, FALSE)>> \o <<Instr("clone", x, "", 0, HoldsLists(x))>>

(* A variable gets a literal. *)
LEMMA BeginLit ==
  ASSUME WellMeant, NEW A, NEW M, Clean(A, M), Starts, lent' = lent, NEW x, x \in Numbered \/ HoldsLists(x), lent # x,
         NEW es, es \in Seq(ToSet(es)), NEW s, IsListed(s, Len(es)), Means(x, s),
         \A k \in DOMAIN es : /\ TypedItem(x, es[k]) /\ ItemAllowed(es[k]) /\ es[k].name # x
                              /\ s[k] = ItemMeans(es[k]),
         code' = LitCode(x, es)
  PROVE  Stage(A, M)' /\ WellMeant'
<1>1. Len(es) \in Nat /\ DOMAIN es = 1 .. Len(es)
  BY HasLen
<1>2. /\ x \in Numbered => \A k \in DOMAIN es : ItemMeans(es[k]) \in Int
      /\ HoldsLists(x) => \A k \in DOMAIN es : ItemMeans(es[k]) \in Seq(Int)
  BY ItemTyped
<1>3. /\ x \in Numbered => s \in Seq(Int)
      /\ HoldsLists(x) => s \in Seq(Seq(Int))
      /\ Len(s) = Len(es)
  <2>0. \A k \in 1 .. Len(es) : s[k] = ItemMeans(es[k])
    BY <1>1
  <2>1. ASSUME NEW T, \A k \in DOMAIN es : ItemMeans(es[k]) \in T PROVE s \in Seq(T)
    <3>1. \A k \in 1 .. Len(es) : s[k] \in T
      BY <1>1, <2>0, <2>1
    <3> QED
      BY <1>1, <2>0, <3>1, IsSeq
  <2>2. Len(s) = Len(es)
    <3>0. PICK T : T = {ItemMeans(es[l]) : l \in 1 .. Len(es)}
      OBVIOUS
    <3>1. \A k \in 1 .. Len(es) : s[k] \in T
      BY <2>0, <3>0
    <3> QED
      BY <1>1, <2>0, <3>1, IsSeq
  <2> QED
    BY <1>2, <2>1, <2>2
<1>4. WellMeant' /\ want'[x] = s /\ x \in Vars /\ \A v \in Vars : v # x => want'[v] = want[v]
  BY <1>3, MeansIs
<1>5. Frame(x, A, M)'
  BY <1>4, FrameBegins
<1>6. ASSUME NEW k \in 1 .. Len(es) PROVE Meant(x, k, es[k])'
  <2>1. PICK e : e = es[k]
    OBVIOUS
  <2>2. TypedItem(x, e) /\ ItemAllowed(e) /\ e.name # x /\ want'[x][k] = ItemMeans(e)
    BY <1>1, <1>4, <2>1
  <2>3. Meant(x, k, e)'
    BY <1>4, <2>2, ItemIsMeant
  <2> QED
    BY <2>1, <2>3
<1>7. PICK i, parts : i = Instr("new", x, "", Len(es), FALSE) /\ parts = ItemParts(x, es, 0)
  OBVIOUS
<1>8. x \in Roots /\ x \in Registers
  BY <1>4, AreRegisters
<1>9. i \in Instrs
  <2>1. PICK n : n = Len(es)
    OBVIOUS
  <2>2. n \in Int
    BY <1>1, <2>1
  <2>3. i = Instr("new", x, "", n, FALSE)
    BY <1>7, <2>1, Zenon
  <2> QED
    BY <1>8, <2>2, <2>3, AreRegisters, IsInstr
<1>10. parts \in Seq(Instrs)
  <2>1. \A k \in 1 .. Len(es) : ItemCode(es[k], "at") \in Seq(Instrs)
    BY <1>1, TypedIsCode
  <2> QED
    BY <1>1, <1>7, <1>8, <2>1, PartsAreCode
<1>11. (<<i>> \o parts) \o << >> = <<i>> \o parts
  <2>1. <<i>> \o parts \in Seq(Instrs)
    BY <1>9, <1>10, InFront
  <2> QED
    BY <2>1, NothingBehind
<1>12. Runs(i, parts)'
  <2>1. code' = <<i>> \o parts
    BY <1>7, <1>11 DEF LitCode
  <2> QED
    BY <1>9, <1>10, <2>1, RunsNext
<1>13. AtNew(A, M)'
  <2>1. lent' # x /\ Len(es) = Len(want'[x])
    BY <1>3, <1>4
  <2> QED
    BY <1>5, <1>6, <1>7, <1>12, <2>1 DEF AtNew
<1> QED
  BY <1>4, <1>13 DEF Stage

(* One gets a copy of another. *)
LEMMA BeginVar ==
  ASSUME WellMeant, NEW A, NEW M, Clean(A, M), Starts, lent' = lent, NEW x, x \in Numbered \/ HoldsLists(x), lent # x,
         NEW y, IF HoldsLists(x) THEN HoldsLists(y) ELSE y \in Readable, Known(y), Means(x, want[Named(y)]),
         code' = VarCode(x, y)
  PROVE  Stage(A, M)' /\ WellMeant'
<1>1. PICK z : z = Named(y)
  OBVIOUS
<1>2. PICK n : n = <<z, 0>>
  OBVIOUS
<1>3. PICK s : s = want[z]
  OBVIOUS
<1>4. y \in Roots /\ InReg(y, n, A) /\ ((x \in Numbered /\ s \in Seq(Int)) \/ (HoldsLists(x) /\ s \in Seq(Seq(Int))))
  <2>1. CASE HoldsLists(x)
    <3>1. z = y /\ y \in DOMAIN regs /\ y \in Vars
      BY <1>1, <2>1, Kinds DEF Named, Known
    <3> QED
      BY <1>2, <1>3, <2>1, <3>1, AreRegisters, Kinds DEF Clean, Good, WellMeant
  <2>2. CASE ~HoldsLists(x)
    BY <1>1, <1>2, <1>3, <2>2, ReadNow
  <2> QED
    BY <2>1, <2>2
<1>5. WellMeant' /\ want'[x] = s /\ x \in Vars /\ \A v \in Vars : v # x => want'[v] = want[v]
  <2>1. Means(x, s)
    BY <1>1, <1>3
  <2> QED
    BY <1>4, <2>1, MeansIs
<1>6. Frame(x, A, M)' /\ InReg(y, n, A)'
  BY <1>4, <1>5, FrameBegins
<1>7. Source(x, n, A, M)'
  <2>1. CASE HoldsLists(x)
    <3>1. z = y /\ Good(y, A, M)
      BY <1>1, <2>1, Kinds DEF Named, Known, Clean
    <3>2. n \in DOMAIN A /\ Len(M[n]) = Len(s) /\ HoldsLists(y) /\ ~(x \in Numbered)
      BY <1>2, <1>3, <2>1, <3>1, Kinds DEF Good, Rough
    <3>3. ASSUME NEW k \in 1 .. Len(s) PROVE Borrowed(M[n][k], x, k, 1 .. Len(s), A, M)'
      <4>1. PICK m : m = <<y, k>>
        OBVIOUS
      <4>2. Done(y, k, A, M)
        BY <1>3, <3>1, <3>3 DEF Good, Rough
      <4>3. m \in DOMAIN A /\ M[n][k] = A[m] /\ M[m] = s[k]
        BY <1>2, <1>3, <3>1, <3>2, <4>1, <4>2 DEF Done
      <4>4. m # <<x, 0>> /\ \A j \in (1 .. Len(s)) \ {k} : m # <<x, j>>
        <5>1. k # 0
          OBVIOUS
        <5> QED
          BY <4>1, <5>1, Zenon
      <4>5. M[m] = want'[x][k]
        BY <1>5, <4>3
      <4> QED
        BY <4>3, <4>4, <4>5 DEF Borrowed
    <3> QED
      BY <1>5, <2>1, <3>2, <3>3 DEF Source
  <2>2. CASE ~HoldsLists(x)
    <3>1. M[n] = s /\ n \in DOMAIN A
      BY <1>1, <1>2, <1>3, <1>4, <2>2, ReadNow DEF InReg
    <3> QED
      BY <1>5, <2>2, <3>1 DEF Source
  <2> QED
    BY <2>1, <2>2
<1>8. PICK i, c : i = Instr("copy", x, y, 0, FALSE) /\ c = CloneInto(x, x)
  OBVIOUS
<1>9. c = Instr("clone", x, "", 0, HoldsLists(x))
  <2>2. CASE HoldsLists(x)
    <3>1. HoldsLists(x) = TRUE
      BY <2>2, Zenon DEF HoldsLists
    <3> QED
      BY <1>8, <2>2, <3>1 DEF CloneInto
  <2>3. CASE ~HoldsLists(x)
    <3>1. HoldsLists(x) = FALSE
      BY <2>3 DEF HoldsLists
    <3> QED
      BY <1>8, <2>3, <3>1 DEF CloneInto
  <2> QED
    BY <2>2, <2>3
<1>10. i \in Instrs /\ c \in Instrs
  <2>1. x \in Registers /\ y \in Registers
    BY <1>4, <1>5, AreRegisters
  <2> QED
    BY <1>8, <2>1, AreRegisters, IsPlainInstr DEF CloneInto
<1>11. <<c>> = <<c>> \o << >> /\ <<c>> \in Seq(Instrs)
  BY <1>10, OnlyOne, Pair
<1>12. Runs(i, <<c>> \o << >>)'
  <2>1. code' = <<i>> \o <<c>>
    BY <1>8, <1>9 DEF VarCode
  <2>2. Runs(i, <<c>>)'
    BY <1>10, <1>11, <2>1, RunsNext
  <2> QED
    BY <1>11, <2>2, Zenon
<1>13. Into(x, x, << >>) /\ lent' # x
  BY DEF Into
<1>14. AtCopy(A, M)'
  BY <1>4, <1>6, <1>7, <1>8, <1>12, <1>13 DEF AtCopy
<1> QED
  BY <1>5, <1>14 DEF Stage

(* Whether a copy is of objects. *)
LEMMA DeepIs ==
  /\ \A x \in Numbered : HoldsLists(x) = FALSE
  /\ \A x : HoldsLists(x) => HoldsLists(x) = TRUE
<1>1. ASSUME NEW x \in Numbered PROVE HoldsLists(x) = FALSE
  BY DEF Numbered, HoldsLists
<1>2. ASSUME NEW x, HoldsLists(x) PROVE HoldsLists(x) = TRUE
  BY <1>2, Zenon DEF HoldsLists
<1> QED
  BY <1>1, <1>2

(* One instruction, another and a third. *)
LEMMA Triple ==
  ASSUME NEW i \in Instrs, NEW j \in Instrs, NEW k \in Instrs
  PROVE  <<i, j, k>> = <<i>> \o (<<j>> \o <<k>>) /\ <<i, j, k>> \in Seq(Instrs)
<1>1. /\ <<i, j, k>> \o << >> = <<i>> \o (<<j>> \o (<<k>> \o << >>))
      /\ <<i, j, k>> \in Seq(Instrs)
  <2>1. << >> \in Seq(Instrs)
    OBVIOUS
  <2> QED
    BY <2>1, ThreeInFront
<1>2. <<k>> = <<k>> \o << >>
  BY OnlyOne
<1>3. <<i, j, k>> \o << >> = <<i, j, k>>
  BY <1>1, NothingBehind
<1> QED
  BY <1>1, <1>2, <1>3, Zenon

(* The code of the first object, and of the result of a call. *)
FirstCode(x) == <<ElemAt, Instr("get", x, "at", 0, FALSE)>> \o <<Instr("clone", x, "", 0, HoldsLists(x))>>
SameCode(x, y) ==
    <<Instr("copy", "r", y, 0, FALSE), Instr("clone", "r", "", 0, FALSE), Instr("copy", x, "r", 0, FALSE)>> \o << >>

(* A variable gets a copy of the first object. *)
LEMMA BeginFirst ==
  ASSUME WellMeant, NEW A, NEW M, Clean(A, M), Starts, lent' = lent, NEW x \in Numbered, lent # x,
         Begun("bags"), Means(x, Head(want["bags"])), code' = FirstCode(x)
  PROVE  Stage(A, M)' /\ WellMeant'
<1>1. PICK b : b = want["bags"]
  OBVIOUS
<1>2. "bags" \in Vars /\ "bags" # "p" /\ "bags" # x
  BY Kinds
<1>3. "bags" \in DOMAIN regs /\ b # << >> /\ b \in Seq(Seq(Int))
  BY <1>1, <1>2 DEF Begun, Known, Named, WellMeant
<1>4. Len(b) >= 1 /\ Head(b) = b[1] /\ Head(b) \in Seq(Int)
  BY <1>3, FirstOf
<1>5. WellMeant' /\ want'[x] = Head(b) /\ x \in Vars /\ \A v \in Vars : v # x => want'[v] = want[v]
  BY <1>1, <1>4, MeansIs
<1>6. Frame(x, A, M)'
  BY <1>5, FrameBegins
<1>7. want'["bags"] = b /\ Good("bags", A, M)'
  BY <1>1, <1>2, <1>3, <1>5, <1>6 DEF Frame, Starts
<1>8. FirstFor(x, A, M)'
  BY <1>4, <1>5, <1>6, <1>7 DEF FirstFor
<1>9. PICK i, j, k : i = ElemAt /\ j = Instr("get", x, "at", 0, FALSE) /\ k = Instr("clone", x, "", 0, FALSE)
  OBVIOUS
<1>10. i \in Instrs /\ j \in Instrs /\ k \in Instrs
  BY <1>9, AreRegisters, IsPlainInstr DEF ElemAt
<1>11. code' = <<i, j>> \o <<k>>
  BY <1>9, DeepIs DEF FirstCode
<1>12. <<k>> \in Seq(Instrs) /\ <<j>> \o <<k>> = <<j, k>>
  BY <1>10, Pair
<1>13. Runs(i, <<j>> \o <<k>>)'
  BY <1>10, <1>11, <1>12, RunsNextOfTwo
<1>14. Runs(i, <<j, k>>)'
  BY <1>12, <1>13
<1>15. AtFirst(A, M)'
  BY <1>8, <1>9, <1>14 DEF AtFirst
<1> QED
  BY <1>5, <1>15 DEF Stage

(* One gets the result of a call. *)
LEMMA BeginSame ==
  ASSUME WellMeant, NEW A, NEW M, Clean(A, M), Starts, lent' = lent, NEW x \in Numbered, lent # x,
         NEW y \in Readable, Known(y), Means(x, want[Named(y)]), code' = SameCode(x, y)
  PROVE  Stage(A, M)' /\ WellMeant'
<1>1. PICK n, s : n = <<Named(y), 0>> /\ s = want[Named(y)]
  OBVIOUS
<1>2. InReg(y, n, A) /\ M[n] = s /\ s \in Seq(Int) /\ y \in Roots
  BY <1>1, ReadNow
<1>3. WellMeant' /\ want'[x] = s /\ x \in Vars /\ \A v \in Vars : v # x => want'[v] = want[v]
  BY <1>1, <1>2, MeansIs
<1>4. Frame(x, A, M)' /\ InReg(y, n, A)'
  BY <1>2, <1>3, FrameBegins
<1>5. Source(x, n, A, M)'
  BY <1>2, <1>3, Kinds DEF Source, InReg
<1>6. PICK i, j, k : i = Instr("copy", "r", y, 0, FALSE) /\ j = Instr("clone", "r", "", 0, FALSE)
                     /\ k = Instr("copy", x, "r", 0, FALSE)
  OBVIOUS
<1>7. i \in Instrs /\ j \in Instrs /\ k \in Instrs
  BY <1>2, <1>3, <1>6, AreRegisters, IsPlainInstr
<1>8. code' = <<i, j, k>> \o << >>
  BY <1>6 DEF SameCode
<1>9. <<k>> \in Seq(Instrs) /\ << >> \in Seq(Instrs) /\ <<k>> \o << >> = <<k>>
  BY <1>7, OnlyOne, Pair
<1>10. Runs(i, <<j>> \o <<k>>)'
  <2>1. Runs(i, <<j>> \o (<<k>> \o << >>))'
    BY <1>7, <1>8, <1>9, RunsNextOfThree
  <2> QED
    BY <1>9, <2>1, Zenon
<1>11. j = CloneInto("r", x) /\ Into(x, "r", <<k>>)
  BY <1>6, Kinds DEF CloneInto, Into
<1>12. AtCopy(A, M)'
  BY <1>2, <1>4, <1>5, <1>6, <1>10, <1>11 DEF AtCopy
<1> QED
  BY <1>3, <1>12 DEF Stage

-----------------------------------------------------------------------------
(* An element is to come. *)
LEMMA ShortBegins ==
  ASSUME WellMeant, NEW A, NEW M, Clean(A, M), Starts, lent' = lent, NEW x \in Vars, x \in DOMAIN regs, lent # x,
         NEW v, (x \in Numbered /\ v \in Int) \/ (HoldsLists(x) /\ v \in Seq(Int)), Means(x, Append(want[x], v))
  PROVE  /\ Short(x, A, M)' /\ WellMeant' /\ want'[x][Len(want'[x])] = v
         /\ \A y \in Vars : y # x => want'[y] = want[y]
         /\ \A k \in 1 .. Len(want[x]) : want'[x][k] = want[x][k]
         /\ Len(want'[x]) = Len(want[x]) + 1 /\ Len(want[x]) \in Nat /\ Len(M[<<x, 0>>]) = Len(want[x])
<1>1. PICK s, t : s = want[x] /\ t = Append(s, v)
  OBVIOUS
<1>2. PICK n, l : n = <<x, 0>> /\ l = Len(s)
  OBVIOUS
<1>3. PICK T : (x \in Numbered /\ T = Int) \/ (HoldsLists(x) /\ T = Seq(Int))
  BY Kinds
<1>4. s \in Seq(T) /\ v \in T
  BY <1>1, <1>3, Kinds DEF WellMeant
<1>5. t \in Seq(T) /\ l \in Nat /\ Len(t) = l + 1 /\ t[l + 1] = v /\ \A k \in 1 .. l : t[k] = s[k]
  BY <1>1, <1>2, <1>4
<1>6. WellMeant' /\ want'[x] = t /\ \A y \in Vars : y # x => want'[y] = want[y]
  <2>1. Means(x, t)
    BY <1>1
  <2> QED
    BY <1>3, <1>5, <2>1, MeansIs
<1>7. Good(x, A, M)
  BY DEF Clean
<1>8. Frame(x, A, M)' /\ InReg(x, n, A)'
  BY <1>2, <1>6, <1>7, FrameBegins DEF Good
<1>9. Len(M[n]) = l
  BY <1>1, <1>2, <1>7 DEF Good, Rough
<1>10. ASSUME NEW k \in 1 .. l PROVE Done(x, k, A, M)'
  <2>1. Done(x, k, A, M)
    BY <1>1, <1>2, <1>7 DEF Good, Rough
  <2>2. want'[x][k] = want[x][k]
    BY <1>1, <1>5, <1>6
  <2> QED
    BY <2>1, <2>2 DEF Done
<1>11. Short(x, A, M)'
  BY <1>2, <1>5, <1>6, <1>8, <1>9, <1>10 DEF Short
<1> QED
  BY <1>1, <1>2, <1>5, <1>6, <1>9, <1>11

(* The code of a push. *)
LEMMA PushCodeIs ==
  ASSUME NEW x, NEW e
  PROVE  /\ e.kind = "num" => PushCode(x, e) =
               <<Instr("const", "t", "", e.n, FALSE), Instr("push", x, "t", 0, FALSE)>>
         /\ e.kind = "head" => PushCode(x, e) =
               <<Instr("elem", "u", e.name, 0, FALSE), Instr("get", "t", "u", 0, FALSE),
                 Instr("push", x, "t", 0, FALSE)>>
         /\ e.kind = "bag" => PushCode(x, e) = <<Instr("push", x, e.name, 0, TRUE)>>
<1>1. ASSUME e.kind = "num"
      PROVE  PushCode(x, e) = <<Instr("const", "t", "", e.n, FALSE), Instr("push", x, "t", 0, FALSE)>>
  BY <1>1, Zenon DEF PushCode
<1>2. ASSUME e.kind = "head"
      PROVE  PushCode(x, e) = <<Instr("elem", "u", e.name, 0, FALSE), Instr("get", "t", "u", 0, FALSE),
                                Instr("push", x, "t", 0, FALSE)>>
  BY <1>2, Zenon DEF PushCode
<1>3. ASSUME e.kind = "bag" PROVE PushCode(x, e) = <<Instr("push", x, e.name, 0, TRUE)>>
  BY <1>3, Zenon DEF PushCode
<1> QED
  BY <1>1, <1>2, <1>3

(* A push of a number. *)
LEMMA BeginPushNum ==
  ASSUME NEW A, NEW M, NEW x \in Numbered, Short(x, A, M)', WellMeant', NEW v \in Int, want'[x][Len(want'[x])] = v,
         code' = <<Instr("const", "t", "", v, FALSE), Instr("push", x, "t", 0, FALSE)>>
  PROVE  Stage(A, M)'
<1>1. PICK i, j : i = Instr("const", "t", "", v, FALSE) /\ j = Instr("push", x, "t", 0, FALSE)
  OBVIOUS
<1>2. i \in Instrs /\ j \in Instrs
  BY <1>1, AreRegisters, IsInstr, IsPlainInstr
<1>3. <<i>> \o <<j>> = <<i, j>> /\ <<j>> \in Seq(Instrs)
  BY <1>2, Pair
<1>4. Uses(v, <<j>>, A, M)'
  BY <1>1 DEF Uses
<1>5. code' = <<Instr("const", "t", "", v, FALSE)>> \o <<j>>
  BY <1>1, <1>3
<1> QED
  BY <1>3, <1>4, <1>5, ConstStage

(* Of a first element. *)
LEMMA BeginPushHead ==
  ASSUME NEW A, NEW M, NEW x \in Numbered, Short(x, A, M)', WellMeant', NEW v \in Int, want'[x][Len(want'[x])] = v,
         NEW y \in Roots, NEW n, InReg(y, n, A)', Len(M[n]) >= 1, M[n][1] = v,
         code' = <<Instr("elem", "u", y, 0, FALSE), Instr("get", "t", "u", 0, FALSE), Instr("push", x, "t", 0, FALSE)>>
  PROVE  Stage(A, M)'
<1>1. PICK i, g, j : i = Instr("elem", "u", y, 0, FALSE) /\ g = GetT /\ j = Instr("push", x, "t", 0, FALSE)
  OBVIOUS
<1>2. i \in Instrs /\ g \in Instrs /\ j \in Instrs
  BY <1>1, AreRegisters, IsPlainInstr DEF GetT
<1>3. <<i, g, j>> = <<i>> \o (<<g>> \o <<j>>) /\ <<j>> \in Seq(Instrs)
  BY <1>2, Triple, Pair
<1>4. Uses(v, <<j>>, A, M)'
  BY <1>1 DEF Uses
<1>5. code' = <<Instr("elem", "u", y, 0, FALSE)>> \o (<<GetT>> \o <<j>>)
  BY <1>1, <1>3 DEF GetT
<1> QED
  BY <1>3, <1>4, <1>5, HeadStage

(* Of an object. *)
LEMMA BeginPushBag ==
  ASSUME NEW A, NEW M, NEW x, HoldsLists(x), Short(x, A, M)', WellMeant', NEW b \in Numbered,
         InReg(b, <<b, 0>>, A)', M[<<b, 0>>] = want'[x][Len(want'[x])],
         code' = <<Instr("push", x, b, 0, TRUE)>>
  PROVE  Stage(A, M)'
<1>1. PICK n : n = <<b, 0>>
  OBVIOUS
<1>2. x # b
  BY Kinds
<1>3. n \in DOMAIN A /\ InReg(b, n, A)' /\ n # <<x, 0>> /\ M[n] = want'[x][Len(want'[x])]
  BY <1>1, <1>2 DEF InReg
<1>4. Borrowed(A[n], x, Len(want[x]), {}, A, M)'
  BY <1>3 DEF Borrowed
<1>5. PICK j : j = Instr("push", x, b, 0, TRUE)
  OBVIOUS
<1>6. x \in Registers /\ b \in Registers
  BY AreRegisters, Kinds
<1>7. j \in Instrs
  BY <1>5, <1>6, IsPlainInstr
<1>8. <<j>> = <<j>> \o << >> /\ << >> \in Seq(Instrs)
  BY <1>7, OnlyOne
<1>9. Runs(j, << >>)'
  <2>1. code' = <<j>> \o << >>
    BY <1>5, <1>8
  <2> QED
    BY <1>7, <1>8, <2>1, RunsNext
<1>10. AtPushObject(A, M)'
  BY <1>3, <1>4, <1>5, <1>9 DEF AtPushObject
<1> QED
  BY <1>10 DEF Stage

(* An item is pushed. *)
LEMMA BeginPush ==
  ASSUME WellMeant, NEW A, NEW M, Clean(A, M), Starts, lent' = lent, NEW x, lent # x, Known(x), NEW e, TypedItem(x, e),
         ItemAllowed(e), Means(x, Append(want[x], ItemMeans(e))), code' = PushCode(x, e)
  PROVE  Stage(A, M)' /\ WellMeant'
<1>1. PICK v : v = ItemMeans(e)
  OBVIOUS
<1>2. x \in Vars /\ x \in DOMAIN regs
  BY Kinds DEF TypedItem, Known
<1>3. (x \in Numbered /\ v \in Int) \/ (HoldsLists(x) /\ v \in Seq(Int))
  BY <1>1, <1>2, ItemTyped, Kinds
<1>4. Means(x, Append(want[x], v))
  BY <1>1
<1>5. /\ Short(x, A, M)' /\ WellMeant' /\ want'[x][Len(want'[x])] = v
      /\ \A y \in Vars : y # x => want'[y] = want[y]
  BY <1>2, <1>3, <1>4, ShortBegins
<1>6. \A r, n : InReg(r, n, A) => InReg(r, n, A)'
  BY <1>2, <1>5, FrameBegins
<1>7. CASE x \in Numbered /\ e = Num(e.n) /\ e.n \in Int
  <2>1. PICK n : n = e.n
    OBVIOUS
  <2>2. v = n /\ PushCode(x, e) = <<Instr("const", "t", "", n, FALSE), Instr("push", x, "t", 0, FALSE)>>
    BY <1>1, <1>7, <2>1, ItemsAre, ItemReads, PushCodeIs
  <2>3. n \in Int /\ want'[x][Len(want'[x])] = n
    BY <1>5, <1>7, <2>1, <2>2
  <2>4. code' = <<Instr("const", "t", "", n, FALSE), Instr("push", x, "t", 0, FALSE)>>
    BY <2>2
  <2>5. Stage(A, M)'
    BY <1>5, <1>7, <2>3, <2>4, BeginPushNum
  <2> QED
    BY <1>5, <2>5
<1>8. CASE x \in Numbered /\ e = HeadOf(e.name) /\ e.name \in Readable
  <2>1. PICK y : y = e.name
    OBVIOUS
  <2>2. e.kind = "head" /\ y \in Readable
    BY <1>8, <2>1, ItemsAre
  <2>3. PICK n, s : n = <<Named(y), 0>> /\ s = want[Named(y)]
    OBVIOUS
  <2>4. v = Head(s) /\ Known(y) /\ s # << >>
    BY <1>1, <2>1, <2>2, <2>3, ItemReads DEF Begun
  <2>5. InReg(y, n, A) /\ M[n] = s /\ s \in Seq(Int) /\ y \in Roots
    BY <2>2, <2>3, <2>4, ReadNow
  <2>6. Len(M[n]) >= 1 /\ M[n][1] = v /\ v \in Int
    BY <2>4, <2>5, FirstOf
  <2>7. code' = <<Instr("elem", "u", y, 0, FALSE), Instr("get", "t", "u", 0, FALSE), Instr("push", x, "t", 0, FALSE)>>
    BY <2>1, <2>2, PushCodeIs
  <2>8. InReg(y, n, A)'
    BY <1>6, <2>5
  <2>9. Stage(A, M)'
    BY <1>5, <1>8, <2>5, <2>6, <2>7, <2>8, BeginPushHead
  <2> QED
    BY <1>5, <2>9
<1>9. CASE HoldsLists(x) /\ e = BagOf(e.name) /\ e.name \in Numbered
  <2>1. PICK b : b = e.name
    OBVIOUS
  <2>2. e.kind = "bag" /\ b \in Numbered /\ b \in Readable /\ b # "p"
    BY <1>9, <2>1, ItemsAre, Kinds DEF Readable
  <2>3. v = want[b] /\ Known(b) /\ Named(b) = b
    BY <1>1, <2>1, <2>2, ItemReads DEF Named
  <2>4. InReg(b, <<b, 0>>, A) /\ M[<<b, 0>>] = want[b]
    BY <2>2, <2>3, ReadNow
  <2>5. code' = <<Instr("push", x, b, 0, TRUE)>>
    BY <2>1, <2>2, PushCodeIs
  <2>6. InReg(b, <<b, 0>>, A)' /\ M[<<b, 0>>] = want'[x][Len(want'[x])]
    BY <1>5, <1>6, <2>3, <2>4
  <2>7. Stage(A, M)'
    BY <1>5, <1>9, <2>2, <2>5, <2>6, BeginPushBag
  <2> QED
    BY <1>5, <2>7
<1> QED
  BY <1>7, <1>8, <1>9 DEF TypedItem, TypedNumber, TypedBag

(* The first object is pushed again. *)
LEMMA BeginPushFirst ==
  ASSUME WellMeant, NEW A, NEW M, Clean(A, M), Starts, lent' = lent, lent # "bags", Begun("bags"),
         Means("bags", Append(want["bags"], Head(want["bags"]))),
         code' = <<Instr("elem", "u", "bags", 0, FALSE), Instr("pushat", "bags", "u", 0, TRUE)>>
  PROVE  Stage(A, M)' /\ WellMeant'
<1>1. PICK b, v : b = want["bags"] /\ v = Head(b)
  OBVIOUS
<1>2. "bags" \in Vars /\ HoldsLists("bags") /\ "bags" # "p"
  BY Kinds
<1>3. "bags" \in DOMAIN regs /\ b # << >> /\ b \in Seq(Seq(Int))
  BY <1>1, <1>2 DEF Begun, Known, Named, WellMeant
<1>4. Len(b) >= 1 /\ v = b[1] /\ v \in Seq(Int)
  BY <1>1, <1>3, FirstOf
<1>5. Means("bags", Append(want["bags"], v))
  BY <1>1
<1>6. /\ Short("bags", A, M)' /\ WellMeant' /\ want'["bags"][Len(want'["bags"])] = v
      /\ \A k \in 1 .. Len(want["bags"]) : want'["bags"][k] = want["bags"][k]
      /\ Len(M[<<"bags", 0>>]) = Len(want["bags"]) /\ Len(want["bags"]) \in Nat
  BY <1>2, <1>3, <1>4, <1>5, ShortBegins
<1>7. FirstAgain(A, M)'
  <2>1. 1 \in 1 .. Len(want["bags"])
    BY <1>1, <1>4, <1>6
  <2>2. want'["bags"][1] = v
    BY <1>1, <1>4, <1>6, <2>1
  <2>3. Len(M[<<"bags", 0>>]) >= 1
    BY <1>1, <1>4, <1>6
  <2> QED
    BY <1>6, <2>2, <2>3 DEF FirstAgain
<1>8. PICK i, j : i = Instr("elem", "u", "bags", 0, FALSE) /\ j = PushU
  OBVIOUS
<1>9. i \in Instrs /\ j \in Instrs
  BY <1>8, AreRegisters, IsPlainInstr DEF PushU
<1>10. <<i>> \o <<j>> = <<i, j>> /\ <<j>> \in Seq(Instrs)
  BY <1>9, Pair
<1>11. Runs(i, <<j>>)'
  <2>1. code' = <<i>> \o <<j>>
    BY <1>8, <1>10 DEF PushU
  <2> QED
    BY <1>9, <1>10, <2>1, RunsNext
<1>12. AtPushFirst(A, M)'
  BY <1>7, <1>8, <1>11 DEF AtPushFirst
<1> QED
  BY <1>6, <1>12 DEF Stage

-----------------------------------------------------------------------------
(* The first element of a sequence is another. *)
OtherFirst(t, s, v) == t = [s EXCEPT ![1] = v]
LEMMA OtherFirstIs ==
  ASSUME NEW T, NEW s \in Seq(T), s # << >>, NEW v \in T, NEW t, OtherFirst(t, s, v)
  PROVE  t \in Seq(T) /\ Len(t) = Len(s) /\ t[1] = v /\ Len(s) >= 1 /\ \A k \in 1 .. Len(s) : k # 1 => t[k] = s[k]
  BY DEF OtherFirst

(* So it is of what a variable means. *)
MeansFirst(z, v) == want' = [want EXCEPT ![z][1] = v]
LEMMA MeansFirstIs ==
  ASSUME NEW z, NEW v, MeansFirst(z, v)
  PROVE  \E t : OtherFirst(t, want[z], v) /\ Means(z, t)
<1> DEFINE t == [want[z] EXCEPT ![1] = v]
<1>1. OtherFirst(t, want[z], v) /\ Means(z, t)
  BY DEF OtherFirst, Means, MeansFirst
<1> QED
  BY <1>1

(* The code that writes one. *)
SetCode(y, n) ==
    <<Instr("elem", "at", y, 0, FALSE), Instr("const", "t", "", n, FALSE), Instr("put", "at", "t", 0, FALSE)>>

(* The code of one element is that of a literal's last. *)
LEMMA OnePart ==
  ASSUME NEW y \in Roots, NEW n \in Int
  PROVE  SetCode(y, n) = ItemParts(y, <<Num(n)>>, 0)
<1>1. PICK i, j, k, e : /\ i = Instr("elem", "at", y, 0, FALSE) /\ j = Instr("const", "t", "", n, FALSE)
                        /\ k = Instr("put", "at", "t", 0, FALSE) /\ e = Num(n)
  OBVIOUS
<1>2. i \in Instrs /\ j \in Instrs /\ k \in Instrs
  BY <1>1, AreRegisters, IsInstr, IsPlainInstr
<1>3. <<i, j, k>> = <<i>> \o <<j, k>> /\ <<j, k>> \in Seq(Instrs)
  BY <1>2, Triple, Pair
<1>4. e.n = n /\ e.kind = "num"
  BY <1>1 DEF Num, Item
<1>5. ItemCode(e, "at") = <<j, k>>
  BY <1>1, <1>4, ItemCodeIs
<1>6. ItemPart(y, <<e>>, 1) = <<i, j, k>>
  <2>1. <<e>>[1] = e /\ 1 - 1 = 0
    OBVIOUS
  <2> QED
    BY <1>1, <1>3, <1>5, <2>1, Zenon DEF ItemPart
<1>7. PICK p : p = <<i, j, k>>
  OBVIOUS
<1>8. p \in Seq(Instrs)
  BY <1>2, <1>7, Triple
<1>9. [l \in 1 .. Len(<<e>>) - 0 |-> ItemPart(y, <<e>>, 0 + l)] = <<p>>
  <2>1. 1 .. Len(<<e>>) - 0 = {1} /\ 0 + 1 = 1
    OBVIOUS
  <2>2. \A l \in {1} : ItemPart(y, <<e>>, 0 + l) = p
    BY <1>6, <1>7, <2>1
  <2>3. [l \in {1} |-> ItemPart(y, <<e>>, 0 + l)] = [l \in {1} |-> p]
    BY <2>2
  <2>4. [l \in {1} |-> p] = <<p>>
    OBVIOUS
  <2> QED
    BY <2>1, <2>3, <2>4
<1>10. FlattenSeq(<<p>>) = p
  BY <1>8, FlattenOne
<1>11. ItemParts(y, <<e>>, 0) = p
  BY <1>9, <1>10, Zenon DEF ItemParts
<1> QED
  BY <1>1, <1>7, <1>11, Zenon DEF SetCode

(* A first element is written. *)
LEMMA BeginSet ==
  ASSUME WellMeant, NEW A, NEW M, Clean(A, M), Starts, lent' = lent, NEW y \in Readable, Begun(y), NEW n \in Int,
         MeansFirst(Named(y), n), code' = SetCode(y, n)
  PROVE  Stage(A, M)' /\ WellMeant'
<1>1. PICK z : z = Named(y)
  OBVIOUS
<1>2. PICK m, s : m = <<z, 0>> /\ s = want[z]
  OBVIOUS
<1>3. PICK t : OtherFirst(t, s, n) /\ Means(z, t)
  BY <1>1, <1>2, MeansFirstIs
<1>4. InReg(y, m, A) /\ z \in Numbered /\ z \in DOMAIN regs /\ s \in Seq(Int) /\ y \in Roots /\ s # << >>
  BY <1>1, <1>2, ReadNow DEF Begun
<1>5. t \in Seq(Int) /\ Len(t) = Len(s) /\ t[1] = n /\ Len(s) >= 1 /\ \A k \in 1 .. Len(s) : k # 1 => t[k] = s[k]
  <2>1. PICK T : T = Int
    OBVIOUS
  <2>2. s \in Seq(T) /\ s # << >> /\ n \in T
    BY <1>4, <2>1
  <2>3. t \in Seq(T) /\ Len(t) = Len(s) /\ t[1] = n /\ Len(s) >= 1 /\ \A k \in 1 .. Len(s) : k # 1 => t[k] = s[k]
    BY <1>3, <2>2, OtherFirstIs
  <2> QED
    BY <2>1, <2>3
<1>6. WellMeant' /\ want'[z] = t /\ z \in Vars /\ \A v \in Vars : v # z => want'[v] = want[v]
  BY <1>4, <1>5, <1>3, MeansIs
<1>7. Good(z, A, M)
  BY <1>4, <1>6 DEF Clean
<1>8. Frame(z, A, M)' /\ InReg(z, m, A)' /\ InReg(y, m, A)'
  BY <1>2, <1>4, <1>6, <1>7, FrameBegins DEF Good
<1>9. Rough(z, {1}, A, M)'
  <2>1. m \in DOMAIN A /\ Len(M[m]) = Len(t)
    BY <1>2, <1>5, <1>7 DEF Good, Rough
  <2>2. ASSUME NEW k \in (1 .. Len(t)) \ {1} PROVE Done(z, k, A, M)'
    <3>1. Done(z, k, A, M) /\ t[k] = s[k]
      BY <1>2, <1>5, <1>7, <2>2 DEF Good, Rough
    <3> QED
      BY <1>2, <1>4, <1>6, <3>1, Kinds DEF Done
  <2> QED
    BY <1>2, <1>6, <2>1, <2>2 DEF Rough
<1>10. Whole(z, {1}, A, M)'
  BY <1>2, <1>5, <1>6, <1>8, <1>9 DEF Whole
<1>11. PICK e, es : e = Num(n) /\ es = <<e>>
  OBVIOUS
<1>12. es \in Seq(ToSet(es)) /\ Len(es) = 1 /\ es[1] = e /\ {1} = (0 + 1) .. Len(es) /\ 0 \in 0 .. Len(es)
  BY <1>11 DEF ToSet
<1>13. code' = ItemParts(y, es, 0)
  BY <1>4, <1>11, OnePart
<1>14. Meant(z, 1, e)'
  <2>1. e.n = n
    BY <1>11 DEF Num, Item
  <2> QED
    BY <1>4, <1>5, <1>6, <1>11, <2>1 DEF Meant
<1>15. \A k \in {1} : Meant(z, k, es[k])'
  BY <1>12, <1>14
<1>16. Literally(z, {1}, code, A)'
  <2>1. InReg(y, <<z, 0>>, A)'
    BY <1>2, <1>8
  <2> QED
    BY <1>4, <1>12, <1>13, <1>15, <2>1 DEF Literally
<1>17. AtElement(A, M)'
  BY <1>10, <1>16 DEF AtElement, Ahead
<1> QED
  BY <1>6, <1>17 DEF Stage

(* The code of a push inside the first object. *)
InnerStmt(n) ==
    <<Instr("const", "t", "", n, FALSE), Instr("elem", "at", "bags", 0, FALSE), Instr("get", "held", "at", 0, FALSE),
      Instr("push", "held", "t", 0, FALSE), Instr("put", "at", "held", 0, FALSE)>>

(* Its first instruction is in front of the others. *)
LEMMA InnerStmtIs ==
  ASSUME NEW n \in Int
  PROVE  /\ InnerStmt(n) = <<Instr("const", "t", "", n, FALSE)>> \o <<ElemAt, GetHeld, PushHeld, PutHeld>>
         /\ <<ElemAt, GetHeld, PushHeld, PutHeld>> \in Seq(Instrs)
<1>1. PICK a, b, c, d, e : /\ a = Instr("const", "t", "", n, FALSE) /\ b = ElemAt /\ c = GetHeld
                           /\ d = PushHeld /\ e = PutHeld
  OBVIOUS
<1>2. a \in Instrs /\ b \in Instrs /\ c \in Instrs /\ d \in Instrs /\ e \in Instrs
  BY <1>1, InnerCode, AreRegisters, IsInstr
<1>3. <<b, c, d, e>> \in Seq(Instrs)
  BY <1>2
<1>4. <<a, b, c, d, e>> = <<a>> \o <<b, c, d, e>>
  <2> DEFINE s == <<a, b, c, d, e>>
             t == <<a>> \o <<b, c, d, e>>
  <2>1. s \in Seq(Instrs) /\ Len(s) = 5 /\ s[1] = a /\ s[2] = b /\ s[3] = c /\ s[4] = d /\ s[5] = e
    BY <1>2
  <2>2. t \in Seq(Instrs) /\ Len(t) = 5 /\ t[1] = a /\ t[2] = b /\ t[3] = c /\ t[4] = d /\ t[5] = e
    BY <1>2
  <2> HIDE DEF s, t
  <2>3. s = t
    <3>1. \A k \in 1 .. Len(s) : k = 1 \/ k = 2 \/ k = 3 \/ k = 4 \/ k = 5
      BY <2>1
    <3> QED
      BY <2>1, <2>2, <3>1, SameElements
  <2> QED
    BY <2>3 DEF s, t
<1>5. InnerStmt(n) = <<a, b, c, d, e>>
  BY <1>1, Zenon DEF InnerStmt, ElemAt, GetHeld, PushHeld, PutHeld
<1> QED
  BY <1>1, <1>3, <1>4, <1>5, Zenon

(* A number is pushed inside the first object. *)
LEMMA BeginInner ==
  ASSUME WellMeant, NEW A, NEW M, Clean(A, M), Starts, lent' = lent, Begun("bags"), NEW n \in Int,
         MeansFirst("bags", Append(want["bags"][1], n)), code' = InnerStmt(n)
  PROVE  Stage(A, M)' /\ WellMeant'
<1>1. PICK b, m : b = want["bags"] /\ m = <<"bags", 0>>
  OBVIOUS
<1>2. "bags" \in Vars /\ HoldsLists("bags") /\ "bags" # "p"
  BY Kinds
<1>3. "bags" \in DOMAIN regs /\ b # << >> /\ b \in Seq(Seq(Int))
  BY <1>1, <1>2 DEF Begun, Known, Named, WellMeant
<1>4. Len(b) >= 1 /\ b[1] \in Seq(Int)
  BY <1>3, FirstOf
<1>5. PICK s : s = Append(b[1], n)
  OBVIOUS
<1>6. s \in Seq(Int)
  BY <1>4, <1>5
<1>7. PICK t : OtherFirst(t, b, s) /\ Means("bags", t)
  <2>1. MeansFirst("bags", s)
    BY <1>1, <1>5
  <2> QED
    BY <1>1, <2>1, MeansFirstIs
<1>8. t \in Seq(Seq(Int)) /\ Len(t) = Len(b) /\ t[1] = s /\ \A k \in 1 .. Len(b) : k # 1 => t[k] = b[k]
  BY <1>3, <1>6, <1>7, OtherFirstIs
<1>9. WellMeant' /\ want'["bags"] = t /\ \A v \in Vars : v # "bags" => want'[v] = want[v]
  BY <1>2, <1>7, <1>8, MeansIs
<1>10. Good("bags", A, M)
  BY <1>2, <1>3 DEF Clean
<1>11. Frame("bags", A, M)' /\ InReg("bags", m, A)'
  BY <1>1, <1>2, <1>9, <1>10, FrameBegins DEF Good
<1>12. m \in DOMAIN A /\ Len(M[m]) = Len(b) /\ \A k \in 1 .. Len(b) : Done("bags", k, A, M)
  BY <1>1, <1>10 DEF Good, Rough
<1>13. Whole("bags", {1}, A, M)'
  <2>1. ASSUME NEW k \in (1 .. Len(t)) \ {1} PROVE Done("bags", k, A, M)'
    <3>1. Done("bags", k, A, M) /\ t[k] = b[k]
      BY <1>8, <1>12
    <3> QED
      BY <1>1, <1>2, <1>9, <3>1 DEF Done
  <2>2. Rough("bags", {1}, A, M)'
    BY <1>1, <1>8, <1>9, <1>12, <2>1 DEF Rough
  <2>3. {1} \subseteq 1 .. Len(t)
    <3>1. Len(b) \in Nat
      BY <1>3
    <3> QED
      BY <1>4, <1>8, <3>1
  <2> QED
    BY <1>1, <1>9, <1>11, <2>2, <2>3 DEF Whole
<1>14. Deeper(n, A, M)'
  <2>1. Done("bags", 1, A, M)
    <3>1. 1 \in 1 .. Len(b)
      BY <1>3, <1>4
    <3> QED
      BY <1>12, <3>1
  <2>2. <<"bags", 1>> \in DOMAIN A /\ M[<<"bags", 0>>][1] = A[<<"bags", 1>>] /\ M[<<"bags", 1>>] = b[1]
    BY <1>1, <1>2, <2>1 DEF Done
  <2>3. want'["bags"][1] = Append(M[<<"bags", 1>>], n)
    BY <1>5, <1>8, <1>9, <2>2
  <2> QED
    BY <1>13, <2>2, <2>3 DEF Deeper
<1>15. PICK rest : rest = <<ElemAt, GetHeld, PushHeld, PutHeld>>
  OBVIOUS
<1>16. rest \in Seq(Instrs) /\ code' = <<Instr("const", "t", "", n, FALSE)>> \o rest
  BY <1>15, InnerStmtIs
<1>17. Uses(n, rest, A, M)'
  BY <1>14, <1>15 DEF Uses
<1>18. Stage(A, M)'
  BY <1>16, <1>17, ConstStage
<1> QED
  BY <1>9, <1>18

-----------------------------------------------------------------------------
(* Nothing changes but what is lent. *)
LEMMA GoodBegins ==
  ASSUME WellMeant, NEW A, NEW M, Clean(A, M), Starts, want' = want
  PROVE  /\ World(A, M)' /\ WellMeant' /\ \A v \in Vars \cap DOMAIN regs' : Good(v, A, M)'
<1>1. World(A, M)'
  BY WorldStays DEF Clean, Starts
<1>2. WellMeant'
  BY DEF WellMeant
<1>3. ASSUME NEW v \in Vars \cap DOMAIN regs' PROVE Good(v, A, M)'
  <2>1. Good(v, A, M)
    BY <1>3 DEF Clean, Starts
  <2> QED
    BY <2>1 DEF Good, Rough, Done, InReg, Starts
<1> QED
  BY <1>1, <1>2, <1>3

(* A variable is lent. *)
LEMMA BeginLend ==
  ASSUME WellMeant, NEW A, NEW M, Clean(A, M), Starts, want' = want, NEW x \in Numbered, x \in DOMAIN regs, lent' = x,
         code' = <<Instr("copy", "p", x, 0, FALSE)>>
  PROVE  Stage(A, M)' /\ WellMeant'
<1>1. World(A, M)' /\ WellMeant' /\ \A v \in Vars \cap DOMAIN regs' : Good(v, A, M)'
  BY GoodBegins
<1>2. PICK i : i = Instr("copy", "p", x, 0, FALSE)
  OBVIOUS
<1>3. i \in Instrs
  BY <1>2, AreRegisters, IsPlainInstr
<1>4. <<i>> = <<i>> \o << >> /\ << >> \in Seq(Instrs)
  BY <1>3, OnlyOne
<1>5. Runs(i, << >>)'
  <2>1. code' = <<i>> \o << >>
    BY <1>2, <1>4
  <2> QED
    BY <1>3, <1>4, <2>1, RunsNext
<1>6. lent' \in Numbered \cap DOMAIN regs'
  BY DEF Starts
<1>7. i = Instr("copy", "p", lent', 0, FALSE)
  BY <1>2
<1>8. AtLend(A, M)'
  BY <1>1, <1>5, <1>6, <1>7 DEF AtLend
<1> QED
  BY <1>1, <1>8 DEF Stage

(* It is no longer. *)
LEMMA BeginLeave ==
  ASSUME WellMeant, NEW A, NEW M, Clean(A, M), Starts, want' = want, lent' = "nothing", code' = << >>
  PROVE  Stage(A, M)' /\ WellMeant'
<1>1. World(A, M)' /\ WellMeant' /\ \A v \in Vars \cap DOMAIN regs' : Good(v, A, M)'
  BY GoodBegins
<1>2. LentGood(A)'
  BY DEF LentGood
<1>3. AtRest(A, M)'
  BY <1>1, <1>2 DEF AtRest, Clean
<1> QED
  BY <1>1, <1>3 DEF Stage

-----------------------------------------------------------------------------
(* What a value means, when it can be read, and its code. *)
LEMMA ValueReads ==
  ASSUME NEW v, NEW x
  PROVE  /\ v.kind = "lit" => /\ ValueMeans(v) = [k \in DOMAIN v.parts |-> ItemMeans(v.parts[k])]
                              /\ ValueAllowed(v) => \A k \in DOMAIN v.parts : ItemAllowed(v.parts[k])
         /\ v.kind = "var" => /\ ValueMeans(v) = want[Named(v.name)] /\ (ValueAllowed(v) => Known(v.name))
                              /\ KeepInto(x, v) = VarCode(x, v.name)
         /\ v.kind = "same" => /\ ValueMeans(v) = want[Named(v.name)] /\ (ValueAllowed(v) => Known(v.name))
                               /\ KeepInto(x, v) = SameCode(x, v.name)
         /\ v.kind = "first" => /\ ValueMeans(v) = Head(want["bags"]) /\ (ValueAllowed(v) => Begun("bags"))
                                /\ KeepInto(x, v) = FirstCode(x)
<1>1. ASSUME v.kind = "lit"
      PROVE  /\ ValueMeans(v) = [k \in DOMAIN v.parts |-> ItemMeans(v.parts[k])]
             /\ ValueAllowed(v) => \A k \in DOMAIN v.parts : ItemAllowed(v.parts[k])
  BY <1>1, Zenon DEF ValueMeans, ValueAllowed
<1>2. ASSUME v.kind = "var"
      PROVE  /\ ValueMeans(v) = want[Named(v.name)] /\ (ValueAllowed(v) => Known(v.name))
             /\ KeepInto(x, v) = VarCode(x, v.name)
  <2>1. ~BuildsItsOwn(v)
    BY <1>2 DEF BuildsItsOwn
  <2>2. ExprInto(x, v) = <<Instr("copy", x, v.name, 0, FALSE)>>
    BY <1>2, Zenon DEF ExprInto
  <2>3. KeepInto(x, v) = VarCode(x, v.name)
    BY <2>1, <2>2, Zenon DEF KeepInto, VarCode
  <2>4. ValueMeans(v) = want[Named(v.name)]
    BY <1>2, Zenon DEF ValueMeans
  <2>5. ValueAllowed(v) => Known(v.name)
    BY <1>2, Zenon DEF ValueAllowed
  <2> QED
    BY <2>3, <2>4, <2>5
<1>3. ASSUME v.kind = "same"
      PROVE  /\ ValueMeans(v) = want[Named(v.name)] /\ (ValueAllowed(v) => Known(v.name))
             /\ KeepInto(x, v) = SameCode(x, v.name)
  <2>1. BuildsItsOwn(v)
    BY <1>3 DEF BuildsItsOwn
  <2>2. ExprInto(x, v) = <<Instr("copy", "r", v.name, 0, FALSE), Instr("clone", "r", "", 0, FALSE),
                           Instr("copy", x, "r", 0, FALSE)>>
    BY <1>3, Zenon DEF ExprInto
  <2>3. KeepInto(x, v) = SameCode(x, v.name)
    BY <2>1, <2>2, Zenon DEF KeepInto, SameCode
  <2>4. ValueMeans(v) = want[Named(v.name)]
    BY <1>3, Zenon DEF ValueMeans
  <2>5. ValueAllowed(v) => Known(v.name)
    BY <1>3, Zenon DEF ValueAllowed
  <2> QED
    BY <2>3, <2>4, <2>5
<1>4. ASSUME v.kind = "first"
      PROVE  /\ ValueMeans(v) = Head(want["bags"]) /\ (ValueAllowed(v) => Begun("bags"))
             /\ KeepInto(x, v) = FirstCode(x)
  <2>1. ~BuildsItsOwn(v)
    BY <1>4 DEF BuildsItsOwn
  <2>2. ExprInto(x, v) = <<Instr("elem", "at", "bags", 0, FALSE), Instr("get", x, "at", 0, FALSE)>>
    BY <1>4, Zenon DEF ExprInto
  <2>3. KeepInto(x, v) = FirstCode(x)
    BY <2>1, <2>2, Zenon DEF KeepInto, FirstCode, ElemAt
  <2>4. ValueMeans(v) = Head(want["bags"]) /\ (ValueAllowed(v) => Begun("bags"))
    BY <1>4, Zenon DEF ValueMeans, ValueAllowed
  <2> QED
    BY <2>3, <2>4
<1> QED
  BY <1>1, <1>2, <1>3, <1>4

(* A literal names none of what it is given to. *)
ReadsOthers(st) ==
    st.kind = "assign" /\ st.value.kind = "lit" =>
        \A k \in DOMAIN st.value.parts : st.value.parts[k].name # st.name

(* A variable gets a value. *)
LEMMA BeginAssign ==
  ASSUME WellMeant, NEW A, NEW M, Clean(A, M), Starts, lent' = lent, NEW x, x \in Numbered \/ HoldsLists(x), lent # x,
         NEW v, TypedValue(x, v), ValueAllowed(v), Means(x, ValueMeans(v)), code' = KeepInto(x, v),
         v.kind = "lit" => \A k \in DOMAIN v.parts : v.parts[k].name # x
  PROVE  Stage(A, M)' /\ WellMeant'
<1>1. ASSUME NEW es, v = ListLit(es), v.parts = es, es \in Seq(ToSet(es)), \A k \in DOMAIN es : TypedItem(x, es[k])
      PROVE  Stage(A, M)' /\ WellMeant'
  <2>1. v.kind = "lit"
    BY <1>1, ValuesAre
  <2>2. PICK s : s = ValueMeans(v)
    OBVIOUS
  <2>3. s = [k \in DOMAIN es |-> ItemMeans(es[k])] /\ \A k \in DOMAIN es : ItemAllowed(es[k])
    BY <1>1, <2>1, <2>2, ValueReads
  <2>4. DOMAIN es = 1 .. Len(es)
    BY <1>1, HasLen
  <2>5. IsListed(s, Len(es)) /\ \A k \in DOMAIN es : s[k] = ItemMeans(es[k])
    BY <2>3, <2>4 DEF IsListed
  <2>6. code' = LitCode(x, es)
    <3>1. KeepInto(x, v) = LitCode(x, es)
      BY <1>1, <2>1, LiteralCode DEF LitCode
    <3> QED
      BY <3>1
  <2>7. \A k \in DOMAIN es : /\ TypedItem(x, es[k]) /\ ItemAllowed(es[k]) /\ es[k].name # x
                             /\ s[k] = ItemMeans(es[k])
    BY <1>1, <2>1, <2>3, <2>5
  <2>8. Means(x, s)
    BY <2>2
  <2> QED
    BY <1>1, <2>5, <2>6, <2>7, <2>8, BeginLit
<1>2. ASSUME NEW y, v = ListVar(y), IF HoldsLists(x) THEN HoldsLists(y) ELSE y \in Readable
      PROVE  Stage(A, M)' /\ WellMeant'
  <2>1. v.kind = "var" /\ v.name = y
    BY <1>2, ValuesAre
  <2>2. Known(y) /\ Means(x, want[Named(y)]) /\ code' = VarCode(x, y)
    BY <2>1, ValueReads
  <2> QED
    BY <1>2, <2>2, BeginVar
<1>3. ASSUME NEW y \in Readable, v = Same(y), x \in Numbered PROVE Stage(A, M)' /\ WellMeant'
  <2>1. v.kind = "same" /\ v.name = y
    BY <1>3, ValuesAre
  <2>2. Known(y) /\ Means(x, want[Named(y)]) /\ code' = SameCode(x, y)
    BY <2>1, ValueReads
  <2> QED
    BY <1>3, <2>2, BeginSame
<1>4. ASSUME v = FirstBag, x \in Numbered PROVE Stage(A, M)' /\ WellMeant'
  <2>1. v.kind = "first"
    BY <1>4, ValuesAre
  <2>2. Begun("bags") /\ Means(x, Head(want["bags"])) /\ code' = FirstCode(x)
    BY <2>1, ValueReads
  <2> QED
    BY <1>4, <2>2, BeginFirst
<1> QED
  BY <1>1, <1>2, <1>3, <1>4 DEF TypedValue

(* A statement begins: its code is what is left of it, and the variables     *)
(* have come to mean what it makes of them.                                  *)
LEMMA Begins ==
  ASSUME IInv, WellMeant, NEW A, NEW M, Clean(A, M), NEW st, TypedStmt(st), ReadsOthers(st), Begin(st)
  PROVE  Stage(A, M)' /\ WellMeant' /\ Goes
<1>1. /\ Allowed(st) /\ code' = StmtCode(st) /\ want' = After(st) /\ Starts /\ Goes
      /\ st.kind = "lend" => lent' = st.name
      /\ st.kind = "leave" => lent' = "nothing"
      /\ st.kind \notin {"lend", "leave"} => lent' = lent
  BY BeginIs
<1>2. PICK x, v, n : x = st.name /\ v = st.value /\ n = st.value.n
  OBVIOUS
<1>3. CASE st = Assign(x, v) /\ (x \in Numbered \/ HoldsLists(x)) /\ TypedValue(x, v)
  <2>1. st.kind = "assign"
    BY <1>3, StmtsAre
  <2>2. /\ want' = [want EXCEPT ![x] = ValueMeans(v)] /\ code' = KeepInto(x, v) /\ lent # x /\ ValueAllowed(v)
        /\ lent' = lent
    BY <1>1, <1>2, <2>1, StmtMeans
  <2>3. v.kind = "lit" => \A k \in DOMAIN v.parts : v.parts[k].name # x
    BY <1>2, <2>1 DEF ReadsOthers
  <2>4. Means(x, ValueMeans(v))
    BY <2>2 DEF Means
  <2>5. code' = KeepInto(x, v) /\ lent # x /\ ValueAllowed(v) /\ lent' = lent
    BY <2>2
  <2>6. Stage(A, M)' /\ WellMeant'
    BY <1>1, <1>3, <2>3, <2>4, <2>5, BeginAssign
  <2> QED
    BY <1>1, <2>6
<1>4. CASE st = Push(x, v) /\ TypedItem(x, v)
  <2>1. st.kind = "push"
    BY <1>4, StmtsAre
  <2>2. /\ want' = [want EXCEPT ![x] = Append(want[x], ItemMeans(v))] /\ code' = PushCode(x, v)
        /\ lent # x /\ Known(x) /\ ItemAllowed(v) /\ lent' = lent
    BY <1>1, <1>2, <2>1, StmtMeans
  <2>3. Means(x, Append(want[x], ItemMeans(v)))
    BY <2>2 DEF Means
  <2>4. code' = PushCode(x, v) /\ lent # x /\ Known(x) /\ ItemAllowed(v) /\ lent' = lent
    BY <2>2
  <2>5. Stage(A, M)' /\ WellMeant'
    BY <1>1, <1>4, <2>3, <2>4, BeginPush
  <2> QED
    BY <1>1, <2>5
<1>5. CASE st = PushFirst
  <2>1. st.kind = "pushfirst"
    BY <1>5, StmtsAre
  <2>2. /\ want' = [want EXCEPT !["bags"] = Append(want["bags"], Head(want["bags"]))] /\ Begun("bags")
        /\ code' = <<Instr("elem", "u", "bags", 0, FALSE), Instr("pushat", "bags", "u", 0, TRUE)>>
        /\ lent' = lent
    BY <1>1, <2>1, StmtMeans
  <2>3. Means("bags", Append(want["bags"], Head(want["bags"])))
    BY <2>2 DEF Means
  <2>4. lent # "bags"
    BY Kinds DEF Clean, LentGood
  <2>5. Stage(A, M)' /\ WellMeant'
    BY <1>1, <2>2, <2>3, <2>4, BeginPushFirst
  <2> QED
    BY <1>1, <2>5
<1>6. CASE st = SetHead(x, n) /\ x \in Readable /\ n \in Int
  <2>1. st.kind = "set"
    BY <1>6, StmtsAre
  <2>2. /\ After(st) = [want EXCEPT ![Named(x)][1] = n]
        /\ StmtCode(st) = <<Instr("elem", "at", x, 0, FALSE), Instr("const", "t", "", n, FALSE),
                            Instr("put", "at", "t", 0, FALSE)>>
        /\ Begun(x) /\ lent' = lent
    BY <1>1, <1>2, <2>1, StmtMeans
  <2>3. MeansFirst(Named(x), n)
    BY <1>1, <2>2 DEF MeansFirst
  <2>4. code' = SetCode(x, n)
    BY <1>1, <2>2 DEF SetCode
  <2>5. Begun(x) /\ lent' = lent
    BY <2>2
  <2>6. Stage(A, M)' /\ WellMeant'
    BY <1>1, <1>6, <2>3, <2>4, <2>5, BeginSet
  <2> QED
    BY <1>1, <2>6
<1>7. CASE st = PushInner(n) /\ n \in Int
  <2>1. st.kind = "inner"
    BY <1>7, StmtsAre
  <2>2. /\ After(st) = [want EXCEPT !["bags"][1] = Append(want["bags"][1], n)]
        /\ StmtCode(st) =
              <<Instr("const", "t", "", n, FALSE), Instr("elem", "at", "bags", 0, FALSE),
                Instr("get", "held", "at", 0, FALSE), Instr("push", "held", "t", 0, FALSE),
                Instr("put", "at", "held", 0, FALSE)>>
        /\ Begun("bags") /\ lent' = lent
    BY <1>1, <1>2, <2>1, StmtMeans
  <2>3. MeansFirst("bags", Append(want["bags"][1], n))
    BY <1>1, <2>2 DEF MeansFirst
  <2>4. code' = InnerStmt(n)
    BY <1>1, <2>2 DEF InnerStmt
  <2>5. Begun("bags") /\ lent' = lent
    BY <2>2
  <2>6. Stage(A, M)' /\ WellMeant'
    BY <1>1, <1>7, <2>3, <2>4, <2>5, BeginInner
  <2> QED
    BY <1>1, <2>6
<1>8. CASE st = Lend(x) /\ x \in Numbered
  <2>1. st.kind = "lend"
    BY <1>8, StmtsAre
  <2>2. want' = want /\ code' = <<Instr("copy", "p", x, 0, FALSE)>> /\ Known(x) /\ lent' = x
    BY <1>1, <1>2, <2>1, StmtMeans
  <2>3. x \in DOMAIN regs
    BY <1>8, <2>2, Kinds DEF Known
  <2>4. Stage(A, M)' /\ WellMeant'
    BY <1>1, <1>8, <2>2, <2>3, BeginLend
  <2> QED
    BY <1>1, <2>4
<1>9. CASE st = Leave
  <2>1. st.kind = "leave"
    BY <1>9, StmtsAre
  <2>2. want' = want /\ code' = << >> /\ lent' = "nothing"
    BY <1>1, <2>1, StmtMeans
  <2>3. Stage(A, M)' /\ WellMeant'
    BY <1>1, <2>2, BeginLeave
  <2> QED
    BY <1>1, <2>3
<1> QED
  BY <1>2, <1>3, <1>4, <1>5, <1>6, <1>7, <1>8, <1>9 DEF TypedStmt

(* What runs now asks the arena for a list's room, if for anything. *)
Ready ==
    /\ Now.op = "new" => Now.n \in Nat
    /\ Now.op \in {"clone", "push", "pushat"} => \E s : Holds(regs[Now.dst], s)
    /\ Now.op = "fixup" => \E s : Holds(Cell(regs[Now.dst]), s)

(* An instruction that does not. *)
LEMMA ReadyAt ==
  ASSUME NEW i, NEW rest, Runs(i, rest), i.op \notin {"new", "clone", "push", "pushat", "fixup"}
  PROVE  Ready
  BY DEF Ready, Runs, Now

(* A copy or a push is of a list there is. *)
LEMMA ReadyOn ==
  ASSUME NEW i, NEW rest, Runs(i, rest), i.op \in {"clone", "push", "pushat"},
         NEW A, NEW M, World(A, M), NEW n, InReg(i.dst, n, A)
  PROVE  Ready
<1>1. Now = i
  BY DEF Runs, Now
<1>2. Holds(regs[i.dst], M[n])
  BY DEF World, InReg
<1> QED
  BY <1>1, <1>2 DEF Ready

(* At the next element that is where it is. *)
LEMMA ReadyAtElement ==
  ASSUME NEW A, NEW M, AtElement(A, M), code # << >>
  PROVE  Ready
<1>0. ASSUME NEW i \in Instrs, NEW a \in Seq(Instrs), NEW r \in Seq(Instrs), code = (<<i>> \o a) \o r, i.op = "elem"
      PROVE  Ready
  <2>1. <<i>> \in Seq(Instrs) /\ a \o r \in Seq(Instrs)
    BY <1>0
  <2>2. Regroups(<<i>>, a, r)
    BY <1>0, <2>1, ConcatAssociates
  <2>3. code = <<i>> \o (a \o r)
    BY <1>0, <2>2 DEF Regroups
  <2>4. Runs(i, a \o r)
    BY <1>0, <2>1, <2>3, RunsNow
  <2> QED
    BY <1>0, <2>4, ReadyAt
<1>1. PICK x, S : Whole(x, S, A, M) /\ Ahead(x, S, S, code, A, M)
  BY DEF AtElement
<1>2. CASE Literally(x, S, code, A)
  <2>1. PICK r \in Roots : \E es, j :
       /\ es \in Seq(ToSet(es)) /\ j \in 0 .. Len(es) /\ InReg(r, <<x, 0>>, A)
       /\ S = (j + 1) .. Len(es) /\ code = ItemParts(r, es, j)
       /\ \A k \in S : Meant(x, k, es[k])
    BY <1>2 DEF Literally
  <2>2. PICK es, j :
       /\ es \in Seq(ToSet(es)) /\ j \in 0 .. Len(es) /\ InReg(r, <<x, 0>>, A)
       /\ S = (j + 1) .. Len(es) /\ code = ItemParts(r, es, j)
       /\ \A k \in S : Meant(x, k, es[k])
    BY <2>1
  <2>3. Len(es) \in Nat
    <3>1. es \in Seq(ToSet(es))
      BY <2>2
    <3> QED
      BY <3>1, HasLen
  <2>4. j \in 0 .. Len(es) /\ \A k \in (j + 1) .. Len(es) : Meant(x, k, es[k])
    BY <2>2
  <2>5. j < Len(es) => /\ ItemParts(r, es, j) = ItemPart(r, es, j + 1) \o ItemParts(r, es, j + 1)
                        /\ ItemParts(r, es, j + 1) \in Seq(Instrs)
    BY <2>3, <2>4, ItemPartsAre
  <2>6. CASE j < Len(es)
    <3> DEFINE k == j + 1
               rest == ItemParts(r, es, k)
               more == ItemCode(es[k], "at")
    <3>1. j \in 0 .. Len(es) /\ \A l \in (j + 1) .. Len(es) : Meant(x, l, es[l])
      BY <2>2
    <3>2. code = ItemPart(r, es, k) \o rest /\ rest \in Seq(Instrs)
      <4>1. ItemParts(r, es, j) = ItemPart(r, es, j + 1) \o ItemParts(r, es, j + 1)
            /\ ItemParts(r, es, j + 1) \in Seq(Instrs)
        BY <2>6, <2>5
      <4>2. code = ItemParts(r, es, j)
        BY <2>2
      <4> QED
        BY <4>1, <4>2
    <3>3. Meant(x, k, es[k]) /\ k - 1 \in Int
      BY <2>3, <2>6, <3>1
    <3>4. more \in Seq(Instrs)
      BY <3>3, ItemIsCode
    <3>5. PICK i : i = Instr("elem", "at", r, k - 1, FALSE)
      OBVIOUS
    <3>6. i \in Instrs
      BY <3>3, <3>5, AreRegisters, IsInstr
    <3>7. ItemPart(r, es, k) = <<i>> \o more
      BY <3>5 DEF ItemPart
    <3>8. i.op = "elem"
      BY <3>5 DEF Instr
    <3> HIDE DEF rest, more, k
    <3> QED
      BY <1>0, <3>2, <3>4, <3>6, <3>7, <3>8
  <2>7. CASE ~(j < Len(es))
    <3>1. j = Len(es)
      BY <2>2, <2>3, <2>7
    <3>2. j \in 0 .. Len(es) /\ \A l \in (j + 1) .. Len(es) : Meant(x, l, es[l])
      BY <2>2
    <3>3. ItemParts(r, es, j) = << >>
      BY <2>3, <3>1, <3>2, ItemPartsAre
    <3> QED
      BY <2>2, <3>3
  <2> QED
    BY <2>6, <2>7
<1>3. CASE ByCopying(x, S, S, code, A, M)
  <2>1. PICK n \in Nat : \E j \in 0 .. n : HoldsLists(x) /\ code = CopyParts(x, n, j)
    BY <1>3 DEF ByCopying
  <2>2. PICK j \in 0 .. n : HoldsLists(x) /\ code = CopyParts(x, n, j)
    BY <2>1
  <2>3. x \in Roots
    BY <2>2, Kinds, AreRegisters
  <2>4. CASE j < n
    <3> DEFINE k == j + 1
               rest == CopyParts(x, n, k)
    <3>1. code = CopyPart(x, k) \o rest /\ rest \in Seq(Instrs)
      BY <2>2, <2>3, <2>4, CopyPartsAre
    <3>2. k - 1 \in Int
      OBVIOUS
    <3>3. PICK i, f : i = Instr("elem", "at", x, k - 1, FALSE) /\ f = FixupAt("at")
      OBVIOUS
    <3>4. i \in Instrs /\ f \in Instrs
      BY <2>3, <3>2, <3>3, InnerCode, AreRegisters, IsInstr
    <3>5. CopyPart(x, k) = <<i, f>>
      BY <3>3 DEF CopyPart, FixupAt
    <3>6. <<i>> \o <<f>> = <<i, f>> /\ <<f>> \in Seq(Instrs)
      BY <3>4, Pair
    <3>7. i.op = "elem"
      BY <3>3 DEF Instr
    <3> HIDE DEF rest, k
    <3> QED
      BY <1>0, <3>1, <3>4, <3>5, <3>6, <3>7
  <2>5. CASE ~(j < n)
    BY <2>2, <2>3, <2>5, CopyPartsAre
  <2> QED
    BY <2>4, <2>5
<1> QED
  BY <1>1, <1>2, <1>3 DEF Ahead

(* At the copy of an object the object's list is there. *)
LEMMA ReadyAtFixup ==
  ASSUME NEW A, NEW M, World(A, M), AtFixup(A, M)
  PROVE  Ready
<1>1. PICK x, S, k, rest : \E r \in Registers :
         /\ Runs(FixupAt(r), rest) /\ Whole(x, S, A, M) /\ k \in S
         /\ AtSpot(r, x, k, A) /\ Borrowed(M[<<x, 0>>][k], x, k, S, A, M)
  BY DEF AtFixup
<1>2. PICK r \in Registers :
         /\ Runs(FixupAt(r), rest) /\ Whole(x, S, A, M) /\ k \in S
         /\ AtSpot(r, x, k, A) /\ Borrowed(M[<<x, 0>>][k], x, k, S, A, M)
  BY <1>1
<1>3. PICK n : n = <<x, 0>>
  OBVIOUS
<1>4. n \in DOMAIN A /\ k \in 1 .. Len(M[n])
  BY <1>2, <1>3 DEF Whole, Rough
<1>5. Cell(regs[r]) = M[n][k]
  BY <1>2, <1>3, <1>4, SpotIs DEF AtSpot
<1>6. PICK m \in DOMAIN A : M[n][k] = A[m]
  BY <1>2, <1>3 DEF Borrowed
<1>7. Holds(Cell(regs[r]), M[m])
  BY <1>5, <1>6 DEF World
<1>8. Now.op = "fixup" /\ Now.dst = r
  <2>1. PICK i : i = FixupAt(r)
    OBVIOUS
  <2>2. Now = i
    BY <1>2, <2>1 DEF Runs, Now
  <2>3. i.op = "fixup" /\ i.dst = r
    BY <2>1 DEF FixupAt, Instr
  <2> QED
    BY <2>2, <2>3
<1> QED
  BY <1>7, <1>8 DEF Ready

(* So it is at every stage. *)
LEMMA StageReady ==
  ASSUME NEW A, NEW M, Stage(A, M), code # << >>
  PROVE  Ready
<1>0. World(A, M)
  BY StageWorld
<1>1. CASE AtRest(A, M)
  BY <1>1 DEF AtRest
<1>2. CASE AtElement(A, M)
  BY <1>2, ReadyAtElement
<1>3. CASE AtFixup(A, M)
  BY <1>0, <1>3, ReadyAtFixup
<1>4. ASSUME NEW i, NEW rest, Runs(i, rest), i.op \in {"put", "const", "elem", "get", "copy"} PROVE Ready
  BY <1>4, ReadyAt
<1>5. \A d, s, n : /\ Instr("put", d, s, n, FALSE).op = "put" /\ Instr("const", d, s, n, FALSE).op = "const"
                   /\ Instr("elem", d, s, n, FALSE).op = "elem" /\ Instr("get", d, s, n, FALSE).op = "get"
                   /\ Instr("copy", d, s, n, FALSE).op = "copy"
  BY DEF Instr
<1>6. CASE AtPut(A, M)
  <2>1. PICK t, rest : Runs(Instr("put", "at", t, 0, FALSE), rest)
    BY <1>6 DEF AtPut
  <2> QED
    BY <1>4, <1>5, <2>1
<1>7. CASE AtPutObject(A, M)
  <2>1. PICK b, rest : Runs(Instr("put", "at", b, 0, FALSE), rest)
    BY <1>7 DEF AtPutObject
  <2> QED
    BY <1>4, <1>5, <2>1
<1>8. CASE AtConst(A, M)
  <2>1. PICK v, rest : Runs(Instr("const", "t", "", v, FALSE), rest)
    BY <1>8 DEF AtConst
  <2> QED
    BY <1>4, <1>5, <2>1
<1>9. CASE AtHead(A, M)
  <2>1. PICK y, rest : Runs(Instr("elem", "u", y, 0, FALSE), rest)
    BY <1>9 DEF AtHead
  <2> QED
    BY <1>4, <1>5, <2>1
<1>10. CASE AtGet(A, M)
  <2>1. PICK rest : Runs(Instr("get", "t", "u", 0, FALSE), rest)
    BY <1>10 DEF AtGet, GetT
  <2> QED
    BY <1>4, <1>5, <2>1
<1>11. ASSUME NEW i, NEW rest, Runs(i, rest), NEW d, i.op \in {"clone", "push", "pushat"}, i.dst = d, NEW n, InReg(d, n, A)
       PROVE  Ready
  BY <1>0, <1>11, ReadyOn
<1>12. CASE AtPush(A, M)
  <2>1. PICK x \in Numbered : Runs(Instr("push", x, "t", 0, FALSE), << >>) /\ Short(x, A, M)
    BY <1>12 DEF AtPush
  <2>2. InReg(x, <<x, 0>>, A)
    BY <2>1 DEF Short
  <2>3. PICK i : i = Instr("push", x, "t", 0, FALSE)
    OBVIOUS
  <2>4. i.op \in {"clone", "push", "pushat"} /\ i.dst = x
    BY <2>3 DEF Instr
  <2>5. Runs(i, << >>)
    BY <2>1, <2>3
  <2> QED
    BY <1>11, <2>2, <2>4, <2>5
<1>13. CASE AtPushObject(A, M)
  <2>1. PICK x, b : Runs(Instr("push", x, b, 0, TRUE), << >>) /\ Short(x, A, M)
    BY <1>13 DEF AtPushObject
  <2>2. InReg(x, <<x, 0>>, A)
    BY <2>1 DEF Short
  <2>3. PICK i : i = Instr("push", x, b, 0, TRUE)
    OBVIOUS
  <2>4. i.op \in {"clone", "push", "pushat"} /\ i.dst = x
    BY <2>3 DEF Instr
  <2>5. Runs(i, << >>)
    BY <2>1, <2>3
  <2> QED
    BY <1>11, <2>2, <2>4, <2>5
<1>14. CASE AtPushFirst(A, M)
  <2>1. PICK rest : Runs(Instr("elem", "u", "bags", 0, FALSE), rest)
    BY <1>14 DEF AtPushFirst
  <2> QED
    BY <1>4, <1>5, <2>1
<1>15. CASE AtPushAt(A, M)
  <2>1. Runs(Instr("pushat", "bags", "u", 0, TRUE), << >>) /\ Short("bags", A, M)
    BY <1>15 DEF AtPushAt, PushU, FirstAgain
  <2>2. InReg("bags", <<"bags", 0>>, A)
    BY <2>1 DEF Short
  <2>3. PICK i : i = Instr("pushat", "bags", "u", 0, TRUE)
    OBVIOUS
  <2>4. i.op \in {"clone", "push", "pushat"} /\ i.dst = "bags"
    BY <2>3 DEF Instr
  <2>5. Runs(i, << >>)
    BY <2>1, <2>3
  <2> QED
    BY <1>11, <2>2, <2>4, <2>5
<1>16. CASE AtInner(A, M)
  <2>1. CASE \E rest : Runs(ElemAt, rest)
    BY <1>4, <1>5, <2>1 DEF ElemAt
  <2>2. CASE \E rest : Runs(GetHeld, rest)
    BY <1>4, <1>5, <2>2 DEF GetHeld
  <2>3. CASE Runs(PushHeld, <<PutHeld>>) /\ InReg("held", <<"bags", 1>>, A)
    <3>1. PICK i : i = Instr("push", "held", "t", 0, FALSE)
      OBVIOUS
    <3>2. i.op \in {"clone", "push", "pushat"} /\ i.dst = "held"
      BY <3>1 DEF Instr
    <3>3. Runs(i, <<PutHeld>>)
      BY <2>3, <3>1 DEF PushHeld
    <3> QED
      BY <1>11, <2>3, <3>2, <3>3
  <2> QED
    BY <1>16, <2>1, <2>2, <2>3 DEF AtInner
<1>17. CASE AtNew(A, M)
  <2>1. PICK x, es : \E rest : Runs(Instr("new", x, "", Len(es), FALSE), rest) /\ es \in Seq(ToSet(es))
    BY <1>17 DEF AtNew
  <2>2. PICK i : i = Instr("new", x, "", Len(es), FALSE)
    OBVIOUS
  <2>3. Now = i
    BY <2>1, <2>2 DEF Runs, Now
  <2>4. i.op = "new" /\ i.n = Len(es)
    BY <2>2, Zenon DEF Instr
  <2>5. Len(es) \in Nat
    <3>1. es \in Seq(ToSet(es))
      BY <2>1
    <3> QED
      BY <3>1, HasLen
  <2> QED
    BY <2>3, <2>4, <2>5 DEF Ready
<1>18. CASE AtCopy(A, M)
  <2>1. PICK d, y, rest : Runs(Instr("copy", d, y, 0, FALSE), rest)
    BY <1>18 DEF AtCopy
  <2> QED
    BY <1>4, <1>5, <2>1
<1>19. CASE AtClone(A, M)
  <2>1. PICK x, d, n, rest : Runs(CloneInto(d, x), rest) /\ InReg(d, n, A)
    BY <1>19 DEF AtClone
  <2>2. PICK i : i = CloneInto(d, x)
    OBVIOUS
  <2>3. i = Instr("clone", d, "", 0, TRUE) \/ i = Instr("clone", d, "", 0, FALSE)
    BY <2>2, Zenon DEF CloneInto
  <2>4. i.op \in {"clone", "push", "pushat"} /\ i.dst = d
    <3>1. CASE i = Instr("clone", d, "", 0, TRUE)
      BY <3>1 DEF Instr
    <3>2. CASE i = Instr("clone", d, "", 0, FALSE)
      BY <3>2 DEF Instr
    <3> QED
      BY <2>3, <3>1, <3>2
  <2>5. Runs(i, rest)
    BY <2>1, <2>2
  <2> QED
    BY <1>11, <2>1, <2>4, <2>5
<1>20. CASE AtCopyBack(A, M)
  <2>1. PICK x, rest : Runs(Instr("copy", x, "r", 0, FALSE), rest)
    BY <1>20 DEF AtCopyBack
  <2> QED
    BY <1>4, <1>5, <2>1
<1>21. CASE AtFirst(A, M)
  <2>1. (\E rest : Runs(ElemAt, rest)) \/ \E x, rest : Runs(Instr("get", x, "at", 0, FALSE), rest)
    BY <1>21 DEF AtFirst
  <2> QED
    BY <1>4, <1>5, <2>1 DEF ElemAt
<1>22. CASE AtLend(A, M)
  <2>1. PICK y, rest : Runs(Instr("copy", "p", y, 0, FALSE), rest)
    BY <1>22 DEF AtLend
  <2> QED
    BY <1>4, <1>5, <2>1
<1> QED
  BY <1>1, <1>2, <1>3, <1>6, <1>7, <1>8, <1>9, <1>10, <1>12, <1>13, <1>14, <1>15, <1>16, <1>17, <1>18, <1>19,
     <1>20, <1>21, <1>22 DEF Stage

-----------------------------------------------------------------------------
(* Whatever room a list may need can be asked for. *)
AnyRoom == \A n \in Nat : ListBytes(n) \in Requests

(* Room for a list is asked for as the arena allows. *)
LEMMA HandKeepsArena ==
  ASSUME AnyRoom, ~aborted, NEW c \in Nat, NEW p \in Int, Hand(ListBytes(c), p - LIST_HEADER)
  PROVE  ArenaNext
<1>1. PICK n : n = ListBytes(c)
  OBVIOUS
<1>2. n \in Requests
  BY <1>1 DEF AnyRoom
<1>3. Bump(n) \/ \E base \in Bases : Refill(n, base)
  BY <1>1 DEF Hand
<1>4. Alloc(n)
  BY <1>3 DEF Alloc
<1> QED
  BY <1>2, <1>4 DEF ArenaNext, Request

(* A list says how many it has, and has room for. *)
LEMMA HasRoomFor ==
  ASSUME NEW p, NEW s, Holds(p, s)
  PROVE  /\ Length(p) \in Nat /\ Greater(Length(p), LIST_MIN_CAPACITY) \in Nat
         /\ Doubled(p) \in Nat /\ OwnBlock(p) \in blocks /\ p \in Int
<1>1. Length(p) = Len(s) /\ s \in Seq(Int) /\ Capacity(p) \in Nat \ {0} /\ BlockFor(p, Capacity(p)) \in blocks
  BY DEF Holds, ListIn, Length, Cell
<1>2. Length(p) \in Nat
  BY <1>1
<1>3. Greater(Length(p), LIST_MIN_CAPACITY) \in Nat
  BY <1>2, GreaterIs
<1>4. Doubled(p) \in Nat
  BY <1>1 DEF Doubled
<1> QED
  BY <1>1, <1>2, <1>3, <1>4 DEF OwnBlock, Holds

(* A push asks for what the arena allows. *)
LEMMA RoomKeepsArena ==
  ASSUME AnyRoom, IInv, ~aborted, NEW p, NEW s, Holds(p, s), NEW v, Room(p, v)
  PROVE  ArenaNext \/ Quiet
<1>1. Doubled(p) \in Nat /\ OwnBlock(p) \in blocks
  BY HasRoomFor
<1>2. CASE Quiet
  BY <1>2
<1>3. CASE Grow(OwnBlock(p), ListBytes(Doubled(p)))
  <2>1. ListBytes(Doubled(p)) \in Requests
    BY <1>1 DEF AnyRoom
  <2> QED
    BY <1>1, <1>3, <2>1, Zenon DEF ArenaNext, Request
<1>4. CASE \E q \in Places : Hand(ListBytes(Doubled(p)), q - LIST_HEADER)
  BY <1>1, <1>4, HandKeepsArena, PlacesAre
<1> QED
  BY <1>2, <1>3, <1>4 DEF Room

(* So does every instruction. *)
LEMMA StepKeepsArena ==
  ASSUME AnyRoom, IInv, Step, Ready
  PROVE  [ArenaNext]_arenaVars
<1>1. CASE New
  <2>1. Now.op = "new"
    BY <1>1 DEF New
  <2>2. Greater(Now.n, LIST_MIN_CAPACITY) \in Nat
    BY <2>1, GreaterIs DEF Ready
  <2>3. PICK p \in Places : Hand(ListBytes(Greater(Now.n, LIST_MIN_CAPACITY)), p - LIST_HEADER)
    BY <1>1 DEF New, ListNew
  <2> QED
    BY <2>2, <2>3, HandKeepsArena, PlacesAre DEF Step
<1>2. CASE Clone
  <2>1. PICK s : Holds(regs[Now.dst], s)
    BY <1>2 DEF Clone, Ready
  <2>2. Greater(Length(regs[Now.dst]), LIST_MIN_CAPACITY) \in Nat
    BY <2>1, HasRoomFor
  <2>3. PICK p \in Places : Hand(ListBytes(Greater(Length(regs[Now.dst]), LIST_MIN_CAPACITY)), p - LIST_HEADER)
    BY <1>2 DEF Clone, ListNew
  <2> QED
    BY <2>2, <2>3, HandKeepsArena, PlacesAre DEF Step
<1>3. CASE Fixup
  <2>1. PICK s : Holds(Cell(regs[Now.dst]), s)
    BY <1>3 DEF Fixup, Ready
  <2>2. Greater(Length(Cell(regs[Now.dst])), LIST_MIN_CAPACITY) \in Nat
    BY <2>1, HasRoomFor
  <2>3. PICK p \in Places : Hand(ListBytes(Greater(Length(Cell(regs[Now.dst])), LIST_MIN_CAPACITY)), p - LIST_HEADER)
    BY <1>3 DEF Fixup, ListNew
  <2> QED
    BY <2>2, <2>3, HandKeepsArena, PlacesAre DEF Step
<1>4. CASE ListPush
  <2>1. PICK s : Holds(regs[Now.dst], s)
    BY <1>4 DEF ListPush, Ready
  <2>2. PICK v : Room(regs[Now.dst], v)
    BY <1>4 DEF ListPush
  <2>3. ArenaNext \/ Quiet
    BY <2>1, <2>2, RoomKeepsArena DEF Step
  <2> QED
    BY <2>3 DEF Quiet
<1>5. CASE Inline
  BY <1>5 DEF Inline, Quiet
<1>6. CASE Abort
  <2>1. OutOfMemory(Wanted) /\ Now.op \in {"new", "clone", "fixup", "push", "pushat"}
    BY <1>6 DEF Abort
  <2>2. \E c \in Nat : Wanted = ListBytes(c)
    <3>1. CASE Now.op = "new"
      <4>1. Wanted = ListBytes(Greater(Now.n, LIST_MIN_CAPACITY))
        BY <3>1, Zenon DEF Wanted
      <4> QED
        BY <3>1, <4>1, GreaterIs DEF Ready
    <3>2. CASE Now.op = "clone"
      <4>1. Wanted = ListBytes(Greater(Length(regs[Now.dst]), LIST_MIN_CAPACITY))
        BY <3>2, Zenon DEF Wanted
      <4> QED
        BY <3>2, <4>1, HasRoomFor DEF Ready
    <3>3. CASE Now.op = "fixup"
      <4>1. Wanted = ListBytes(Greater(Length(Cell(regs[Now.dst])), LIST_MIN_CAPACITY))
        BY <3>3, Zenon DEF Wanted
      <4> QED
        BY <3>3, <4>1, HasRoomFor DEF Ready
    <3>4. CASE Now.op \in {"push", "pushat"}
      <4>1. Wanted = ListBytes(Doubled(regs[Now.dst]))
        BY <3>4 DEF Wanted
      <4> QED
        BY <3>4, <4>1, HasRoomFor DEF Ready
    <3> QED
      BY <2>1, <3>1, <3>2, <3>3, <3>4
  <2>3. Wanted \in Requests
    BY <2>2 DEF AnyRoom
  <2> QED
    BY <2>1, <2>3, Zenon DEF Step, ArenaNext, Request, Alloc
<1> QED
  BY <1>1, <1>2, <1>3, <1>4, <1>5, <1>6 DEF Step

(* What every statement and the arena rely on. *)
ListsInv ==
    /\ IInv /\ WellMeant
    /\ program \in Programs /\ pending \in Seq(ToSet(program.decls))
    /\ \E A, M : Stage(A, M)

(* No literal reads the list it is given to. *)
NoLiteralReadsItsList ==
    \A pr \in Programs : \A st \in ToSet(pr.decls) \cup pr.stmts \cup pr.lent : ReadsOthers(st)

(* Nothing has been declared yet. *)
LEMMA ListsStart ==
  ASSUME ListsInit
  PROVE  ListsInv
<1>1. IInv
  BY InitEstablishes DEF ListsInit
<1>2. WellMeant
  <2>1. want = [v \in Vars |-> << >>]
    BY DEF ListsInit, Vars, Numbered
  <2>2. DOMAIN want = Vars /\ \A v \in Vars : want[v] = << >>
    BY <2>1
  <2>3. << >> \in Seq(Int) /\ << >> \in Seq(Seq(Int))
    OBVIOUS
  <2> QED
    BY <2>2, <2>3 DEF WellMeant, Vars
<1>3. program \in Programs /\ pending \in Seq(ToSet(program.decls))
  BY ListsAssumption DEF ListsInit
<1>4. PICK A : A = [n \in {} |-> 0]
  OBVIOUS
<1>5. World(A, A)
  BY <1>4 DEF World
<1>6. DOMAIN regs = {}
  <2>1. regs = << >>
    BY DEF ListsInit
  <2> QED
    BY <2>1
<1>7. LentGood(A)
  BY DEF LentGood, ListsInit
<1>8. AtRest(A, A)
  BY <1>5, <1>6, <1>7 DEF AtRest, Clean, ListsInit
<1>9. Stage(A, A)
  BY <1>8 DEF Stage
<1> QED
  BY <1>1, <1>2, <1>3, <1>9 DEF ListsInv

(* Whatever runs out of memory leaves the arena as it was. *)
LEMMA AbortKeeps ==
  ASSUME IInv, NEW n, OutOfMemory(n)
  PROVE  IInv' /\ blocks' = blocks
  BY DEF OutOfMemory, IInv, TypeOK, ChunksApart, NoneEmpty, WalksAChunk, BlocksInChunks,
         NothingBeyondNext, BlocksApart, Apart

(* A statement of the program begins. *)
LEMMA StatementBegins ==
  ASSUME NoLiteralReadsItsList, ListsInv, Between,
         NEW st \in ToSet(program.decls) \cup program.stmts \cup program.lent, Begin(st)
  PROVE  IInv' /\ WellMeant' /\ program' = program /\ \E A, M : Stage(A, M)'
<1>1. PICK A, M : Stage(A, M)
  BY DEF ListsInv
<1>2. Clean(A, M)
  BY <1>1, DoneAtEnd DEF Between
<1>3. TypedStmt(st) /\ ReadsOthers(st)
  BY ListsAssumption DEF ListsInv, NoLiteralReadsItsList
<1>4. Stage(A, M)' /\ WellMeant' /\ Goes
  BY <1>2, <1>3, Begins DEF ListsInv
<1> QED
  BY <1>4 DEF Goes, Begin

(* Every step keeps it. *)
LEMMA ListsGoOn ==
  ASSUME NoLiteralReadsItsList, ListsInv, [ListsNext]_allVars
  PROVE  ListsInv'
<1>1. CASE Declare
  <2>1. PICK st : st = Head(pending)
    OBVIOUS
  <2>2. st \in ToSet(program.decls) /\ Tail(pending) \in Seq(ToSet(program.decls))
    <3>1. pending \in Seq(ToSet(program.decls)) /\ pending # << >>
      BY <1>1 DEF Declare, ListsInv
    <3> QED
      BY <2>1, <3>1
  <2>3. IInv' /\ WellMeant' /\ program' = program /\ \E A, M : Stage(A, M)'
    BY <1>1, <2>1, <2>2, StatementBegins DEF Declare
  <2> QED
    BY <1>1, <2>2, <2>3 DEF Declare, ListsInv
<1>2. CASE Execute
  <2>1. PICK st \in program.stmts \cup program.lent : Begin(st)
    BY <1>2 DEF Execute
  <2>2. IInv' /\ WellMeant' /\ program' = program /\ \E A, M : Stage(A, M)'
    BY <1>2, <2>1, StatementBegins DEF Execute
  <2> QED
    BY <1>2, <2>2 DEF Execute, ListsInv
<1>3. CASE Step
  <2>1. PICK A, M : Stage(A, M)
    BY DEF ListsInv
  <2>2. UNCHANGED <<program, pending, executed, lent, want>> /\ code # << >>
    BY <1>3 DEF Step, Between
  <2>3. IInv' /\ \E B, N : Stage(B, N)'
    <3>1. CASE New \/ Clone \/ Fixup \/ ListPush \/ Inline
      <4>1. Acts
        BY <2>2, <3>1 DEF Acts, Rests
      <4>2. Reaches
        BY <2>1, <2>2, <4>1, ActsReach DEF ListsInv
      <4> QED
        BY <4>2 DEF Reaches, Goes
    <3>2. CASE Abort
      <4>1. IInv' /\ blocks' = blocks
        BY <3>2, AbortKeeps DEF Abort, ListsInv
      <4>2. UNCHANGED <<code, regs, mem, blocks, lent, want>>
        BY <2>2, <3>2, <4>1 DEF Abort
      <4>3. Stage(A, M)'
        BY <2>1, <4>2, StopKeeps
      <4> QED
        BY <4>1, <4>3
    <3> QED
      BY <1>3, <3>1, <3>2 DEF Step
  <2>4. WellMeant'
    BY <2>2 DEF ListsInv, WellMeant
  <2> QED
    BY <2>2, <2>3, <2>4 DEF ListsInv
<1>4. CASE UNCHANGED allVars
  <2>1. PICK A, M : Stage(A, M)
    BY DEF ListsInv
  <2>2. Stage(A, M)'
    <3>1. UNCHANGED <<code, regs, mem, blocks, lent, want>>
      BY <1>4 DEF allVars, arenaVars, progVars
    <3> QED
      BY <2>1, <3>1, StopKeeps
  <2>3. WellMeant' /\ program' = program /\ pending' = pending
    BY <1>4 DEF allVars, progVars, ListsInv, WellMeant
  <2>4. IInv'
    BY <1>4, NextPreserves DEF allVars, ListsInv
  <2> QED
    BY <2>2, <2>3, <2>4 DEF ListsInv
<1> QED
  BY <1>1, <1>2, <1>3, <1>4 DEF ListsNext, Returned

-----------------------------------------------------------------------------
(* What is at p is what is held there. *)
LEMMA HoldsInts ==
  ASSUME NEW p, NEW s, Holds(p, s)
  PROVE  /\ IntsAt(p) = s /\ Length(p) = Len(s)
         /\ \A k \in 1 .. Len(s) : Cell(p + WORD * (k - 1)) = s[k]
         /\ Length(p) <= Capacity(p) /\ BlockFor(p, Capacity(p)) \in blocks
<1>1. Length(p) = Len(s) /\ s \in Seq(Int) /\ \A k \in 1 .. Len(s) : Cell(p + WORD * (k - 1)) = s[k]
  BY DEF Holds, ListIn, Length, Cell, Spot
<1>2. IntsAt(p) = s
  <2>1. IntsAt(p) = [k \in 1 .. Len(s) |-> s[k]]
    BY <1>1 DEF IntsAt
  <2>2. s = [k \in 1 .. Len(s) |-> s[k]]
    BY <1>1
  <2> QED
    BY <2>1, <2>2
<1> QED
  BY <1>1, <1>2 DEF Holds

(* Between statements every variable's list is where its name says, and so   *)
(* are those inside it.                                                     *)
LEMMA VariableIs ==
  ASSUME WellMeant, NEW A, NEW M, Clean(A, M), NEW v \in Declared
  PROVE  /\ v \in Vars /\ <<v, 0>> \in DOMAIN A /\ regs[v] = A[<<v, 0>>] /\ Holds(regs[v], M[<<v, 0>>])
         /\ Length(regs[v]) = Len(want[v]) /\ (v \in Numbered \/ HoldsLists(v))
         /\ \A k \in 1 .. Len(want[v]) : Done(v, k, A, M)
<1>1. v \in Vars /\ v \in DOMAIN regs
  BY DEF Declared, WellMeant
<1>2. Good(v, A, M)
  BY <1>1 DEF Clean
<1>3. <<v, 0>> \in DOMAIN A /\ regs[v] = A[<<v, 0>>] /\ Len(M[<<v, 0>>]) = Len(want[v])
  BY <1>2 DEF Good, InReg, Rough
<1>4. Holds(regs[v], M[<<v, 0>>])
  BY <1>3 DEF Clean, World
<1>5. Length(regs[v]) = Len(want[v])
  BY <1>3, <1>4, HoldsInts
<1>6. \A k \in 1 .. Len(want[v]) : Done(v, k, A, M)
  BY <1>2 DEF Good, Rough
<1> QED
  BY <1>1, <1>3, <1>4, <1>5, <1>6, Kinds

(* Between statements, what every variable has is what it means. *)
LEMMA CleanValues ==
  ASSUME WellMeant, NEW A, NEW M, Clean(A, M)
  PROVE  ListsAreValues
<1>1. ASSUME NEW v \in Declared PROVE want[v] = IF HoldsLists(v) THEN BagsAt(regs[v]) ELSE IntsAt(regs[v])
  <2>1. /\ v \in Vars /\ <<v, 0>> \in DOMAIN A /\ regs[v] = A[<<v, 0>>] /\ Holds(regs[v], M[<<v, 0>>])
        /\ Length(regs[v]) = Len(want[v]) /\ (v \in Numbered \/ HoldsLists(v))
        /\ \A k \in 1 .. Len(want[v]) : Done(v, k, A, M)
    BY VariableIs
  <2>2. PICK p, s : p = regs[v] /\ s = M[<<v, 0>>]
    OBVIOUS
  <2>3. /\ IntsAt(p) = s /\ Length(p) = Len(s)
        /\ \A k \in 1 .. Len(s) : Cell(p + WORD * (k - 1)) = s[k]
    BY <2>1, <2>2, HoldsInts
  <2>4. CASE HoldsLists(v)
    <3>1. PICK t : t = want[v]
      OBVIOUS
    <3>2. t \in Seq(Seq(Int)) /\ Length(p) = Len(t) /\ Len(s) = Len(t)
      BY <2>1, <2>2, <2>3, <2>4, <3>1, Kinds DEF WellMeant
    <3>3. ASSUME NEW k \in 1 .. Len(t) PROVE IntsAt(Cell(p + WORD * (k - 1))) = t[k]
      <4>1. Done(v, k, A, M)
        BY <2>1, <3>1
      <4>2. <<v, k>> \in DOMAIN A /\ s[k] = A[<<v, k>>] /\ M[<<v, k>>] = t[k]
        BY <2>2, <2>4, <3>1, <4>1 DEF Done
      <4>3. Holds(s[k], t[k])
        BY <4>2 DEF Clean, World
      <4>4. Cell(p + WORD * (k - 1)) = s[k]
        BY <2>3, <3>2
      <4> QED
        BY <4>3, <4>4, HoldsInts
    <3>4. BagsAt(p) = [k \in 1 .. Len(t) |-> t[k]]
      BY <3>2, <3>3 DEF BagsAt
    <3>5. t = [k \in 1 .. Len(t) |-> t[k]]
      BY <3>2
    <3> QED
      BY <2>2, <2>4, <3>1, <3>4, <3>5
  <2>5. CASE ~HoldsLists(v)
    <3>1. v \in Numbered /\ v \in DOMAIN regs
      BY <2>1, <2>5 DEF Declared
    <3>2. M[<<v, 0>>] = want[v]
      BY <2>1, <3>1, GoodIs DEF Clean, Good
    <3> QED
      BY <2>2, <2>3, <2>5, <3>2
  <2> QED
    BY <2>4, <2>5
<1>2. ASSUME lent # "nothing" PROVE want[lent] = IntsAt(regs["p"])
  <2>1. lent \in Numbered /\ lent \in DOMAIN regs /\ InReg("p", <<lent, 0>>, A)
    BY <1>2 DEF Clean, LentGood
  <2>2. Good(lent, A, M)
    BY <2>1, Kinds DEF Clean
  <2>3. M[<<lent, 0>>] = want[lent]
    BY <2>1, <2>2, GoodIs DEF Clean, Good
  <2>4. Holds(regs["p"], M[<<lent, 0>>])
    BY <2>1 DEF InReg, Clean, World
  <2> QED
    BY <2>3, <2>4, HoldsInts
<1> QED
  BY <1>1, <1>2 DEF ListsAreValues

(* Those inside it, by their names. *)
LEMMA InnerIs ==
  ASSUME WellMeant, NEW A, NEW M, Clean(A, M), NEW i \in Inner
  PROVE  /\ i \in DOMAIN A /\ InnerAt(i) = A[i] /\ Holds(InnerAt(i), M[i])
         /\ \A v \in Declared : i # <<v, 0>>
<1>1. PICK v \in Declared \ Variables : i \in {v} \X (1 .. Length(regs[v]))
  BY DEF Inner
<1>2. PICK k \in 1 .. Length(regs[v]) : i = <<v, k>>
  BY <1>1
<1>3. HoldsLists(v)
  BY <1>1 DEF Variables
<1>4. /\ <<v, 0>> \in DOMAIN A /\ regs[v] = A[<<v, 0>>] /\ Holds(regs[v], M[<<v, 0>>])
      /\ Length(regs[v]) = Len(want[v])
      /\ \A l \in 1 .. Len(want[v]) : Done(v, l, A, M)
  BY <1>1, VariableIs
<1>5. <<v, k>> \in DOMAIN A /\ M[<<v, 0>>][k] = A[<<v, k>>]
  <2>1. Done(v, k, A, M)
    BY <1>2, <1>4
  <2> QED
    BY <1>3, <2>1 DEF Done
<1>6. Cell(regs[v] + WORD * (k - 1)) = M[<<v, 0>>][k]
  <2>1. /\ Length(regs[v]) = Len(M[<<v, 0>>])
        /\ \A l \in 1 .. Len(M[<<v, 0>>]) : Cell(regs[v] + WORD * (l - 1)) = M[<<v, 0>>][l]
    BY <1>4, HoldsInts
  <2> QED
    BY <1>2, <2>1
<1>7. InnerAt(i) = Cell(regs[v] + WORD * (k - 1))
  BY <1>2 DEF InnerAt
<1>8. k # 0
  <2>1. Length(regs[v]) \in Nat
    BY <1>4, HasRoomFor
  <2> QED
    BY <2>1
<1>9. i \in DOMAIN A /\ InnerAt(i) = A[i]
  BY <1>2, <1>5, <1>6, <1>7
<1>10. Holds(InnerAt(i), M[i])
  BY <1>9 DEF Clean, World
<1>11. \A w \in Declared : i # <<w, 0>>
  BY <1>2, <1>8, Zenon
<1> QED
  BY <1>9, <1>10, <1>11

(* Every list has one name, and the block its capacity says. *)
LEMMA CleanNames ==
  ASSUME WellMeant, NEW A, NEW M, Clean(A, M)
  PROVE  OneNameOneBlock
<1>1. \A n, m \in DOMAIN A : A[n] = A[m] => n = m
  BY DEF Clean, World
<1>2. ASSUME NEW v \in Declared PROVE <<v, 0>> \in DOMAIN A /\ regs[v] = A[<<v, 0>>] /\ Holds(regs[v], M[<<v, 0>>])
  BY VariableIs
<1>3. ASSUME NEW i \in Inner
      PROVE  /\ i \in DOMAIN A /\ InnerAt(i) = A[i] /\ Holds(InnerAt(i), M[i])
             /\ \A v \in Declared : i # <<v, 0>>
  BY InnerIs
<1>4. ASSUME NEW v \in Declared, NEW w \in Declared, v # w PROVE regs[v] # regs[w]
  <2>1. <<v, 0>> # <<w, 0>>
    BY <1>4
  <2> QED
    BY <1>1, <1>2, <2>1
<1>5. \A i, j \in Inner : i # j => InnerAt(i) # InnerAt(j)
  BY <1>1, <1>3
<1>6. \A v \in Variables, i \in Inner : regs[v] # InnerAt(i)
  <2>1. \A v \in Variables : v \in Declared
    BY DEF Variables
  <2> QED
    BY <1>1, <1>2, <1>3, <2>1
<1>7. ASSUME NEW p \in {regs[v] : v \in Declared} \cup {InnerAt(i) : i \in Inner}
      PROVE  Length(p) <= Capacity(p) /\ BlockFor(p, Capacity(p)) \in blocks
  <2>1. \E s : Holds(p, s)
    BY <1>2, <1>3
  <2> QED
    BY <2>1, HoldsInts
<1>8. NoTwoNames
  BY <1>4, <1>5, <1>6 DEF NoTwoNames
<1>9. CapacityIsTheBlocks
  BY <1>7 DEF CapacityIsTheBlocks
<1> QED
  BY <1>8, <1>9 DEF OneNameOneBlock

(* The invariant gives both. *)
LEMMA InvGives ==
  ASSUME ListsInv
  PROVE  ListsAreValues /\ OneNameOneBlock
<1>1. CASE Between
  <2>1. PICK A, M : Stage(A, M)
    BY DEF ListsInv
  <2>2. Clean(A, M)
    BY <1>1, <2>1, DoneAtEnd DEF Between
  <2> QED
    BY <2>2, CleanValues, CleanNames DEF ListsInv
<1>2. CASE ~Between
  BY <1>2 DEF ListsAreValues, OneNameOneBlock, NoTwoNames, CapacityIsTheBlocks
<1> QED
  BY <1>1, <1>2

(* Every step of the program is one of the arena's, or none. *)
LEMMA ListsStepArena ==
  ASSUME AnyRoom, ListsInv, [ListsNext]_allVars
  PROVE  [ArenaNext]_arenaVars
<1>1. CASE Step
  <2>1. PICK A, M : Stage(A, M)
    BY DEF ListsInv
  <2>2. Ready
    BY <1>1, <2>1, StageReady DEF Step, Between
  <2> QED
    BY <1>1, <2>2, StepKeepsArena DEF ListsInv
<1>2. CASE Declare \/ Execute
  <2>1. \E st : Begin(st)
    BY <1>2 DEF Declare, Execute
  <2>2. UNCHANGED arenaVars
    BY <2>1 DEF Begin
  <2> QED
    BY <2>2
<1>3. CASE UNCHANGED allVars
  BY <1>3 DEF allVars
<1> QED
  BY <1>1, <1>2, <1>3 DEF ListsNext, Returned

-----------------------------------------------------------------------------
(* Assignment copies and a parameter borrows: between statements every       *)
(* variable holds what the source language says it means, whatever has been *)
(* written or pushed through another, in every program of typed statements  *)
(* in which no literal reads the list it is given to (keep_into and         *)
(* expr_into; the runtime's list_new, list_clone and list_push).             *)
THEOREM ListsHoldTheirValues ==
  ASSUME NoLiteralReadsItsList
  PROVE  ListsSpec => []ListsAreValues
<1>1. ListsInit => ListsInv
  BY ListsStart
<1>2. ListsInv /\ [ListsNext]_allVars => ListsInv'
  BY ListsGoOn
<1>3. ListsInv => ListsAreValues
  BY InvGives
<1> QED
  BY <1>1, <1>2, <1>3, PTL DEF ListsSpec

(* No two names for one run of elements, and in front of every list that can *)
(* be named the capacity of the block the arena handed out for it, which is *)
(* what list_room works out its end from.                                   *)
THEOREM ListsHaveOneName ==
  ASSUME NoLiteralReadsItsList
  PROVE  ListsSpec => []OneNameOneBlock
<1>1. ListsInit => ListsInv
  BY ListsStart
<1>2. ListsInv /\ [ListsNext]_allVars => ListsInv'
  BY ListsGoOn
<1>3. ListsInv => OneNameOneBlock
  BY InvGives
<1> QED
  BY <1>1, <1>2, <1>3, PTL DEF ListsSpec

(* The list routines implement the arena's rules: every room they ask for,   *)
(* every block they make longer where it stands and every refusal is a step *)
(* of the arena's own specification.                                        *)
THEOREM ListsKeepTheArena ==
  ASSUME NoLiteralReadsItsList, AnyRoom
  PROVE  ListsSpec => P_KeepsArena
<1>1. ListsInit => ListsInv /\ ArenaInit
  BY ListsStart DEF ListsInit
<1>2. ListsInv /\ [ListsNext]_allVars => ListsInv'
  BY ListsGoOn
<1>3. ListsInv /\ [ListsNext]_allVars => [ArenaNext]_arenaVars
  BY ListsStepArena
<1> QED
  BY <1>1, <1>2, <1>3, PTL DEF ListsSpec, P_KeepsArena, ArenaSpec
=============================================================================
