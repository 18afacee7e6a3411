---------------------------- MODULE ArenaProofs ----------------------------
(***************************************************************************)
(* The arena hands out no byte twice, for every chunk size, every sequence *)
(* of requests and every answer malloc may give.                           *)
(***************************************************************************)
EXTENDS Arena, TLAPS

(* What the invariants rest on.  Chunks are apart because malloc keeps them *)
(* apart; no block is empty; and the bump pointer walks one of the chunks,  *)
(* strictly beyond its beginning.                                           *)
ChunksApart ==
    \A c, d \in chunks : c # d => c.base + c.size <= d.base \/ d.base + d.size <= c.base
NoneEmpty == \A b \in blocks : b.start < b.end
WalksAChunk ==
    \/ arena_next = 0 /\ arena_end = 0 /\ blocks = {}
    \/ /\ [base |-> arena_chunk, size |-> arena_end - arena_chunk] \in chunks
       /\ arena_chunk < arena_next

IInv ==
    /\ TypeOK
    /\ ChunksApart
    /\ NoneEmpty
    /\ WalksAChunk
    /\ BlocksInChunks
    /\ NothingBeyondNext
    /\ BlocksApart

(* Rounding up covers what was asked and lands on a multiple of 16. *)
LEMMA RoundFacts ==
    ASSUME NEW n \in Nat \ {0}
    PROVE  Round(n) \in Nat /\ Round(n) % 16 = 0 /\ Round(n) >= n /\ Round(n) > 0
BY SMT DEF Round

(* A chunk has room for the block that asked for it. *)
LEMMA ChunkHasRoom ==
    ASSUME NEW r \in Nat
    PROVE  ChunkSize(r) \in Nat /\ r <= ChunkSize(r)
BY ArenaAssumption, SMT DEF ChunkSize

(* Multiples of 16 are closed under addition. *)
LEMMA AddressPlus ==
    ASSUME NEW a \in Address, NEW r \in Nat, r % 16 = 0
    PROVE  a + r \in Address
BY SMT DEF Address

(* A block that ends at the bump pointer lies in the chunk it walks. *)
LEMMA LastInChunk ==
    ASSUME IInv
    PROVE  LastIsInCurrentChunk
<1> SUFFICES ASSUME NEW b \in blocks, b.end = arena_next
             PROVE  b.start >= arena_chunk
    BY DEF LastIsInCurrentChunk, InCurrentChunk
<1> DEFINE cur == [base |-> arena_chunk, size |-> arena_end - arena_chunk]
<1>1. cur \in chunks /\ arena_chunk < arena_next /\ arena_next <= arena_end
    BY DEF IInv, WalksAChunk, NothingBeyondNext
<1>2. PICK c \in chunks : c.base <= b.start /\ b.end <= c.base + c.size
    BY DEF IInv, BlocksInChunks
<1>3. /\ arena_next \in Nat /\ arena_end \in Nat /\ arena_chunk \in Nat
      /\ b.start \in Nat /\ b.end \in Nat /\ b.start < b.end
      /\ c.base \in Nat /\ c.size \in Nat
    BY DEF IInv, TypeOK, Block, Chunk, Address, NoneEmpty
<1>4. CASE c = cur
    BY <1>2, <1>4
<1>5. CASE c # cur
    <2>1. c.base + c.size <= cur.base \/ cur.base + cur.size <= c.base
        BY <1>1, <1>5 DEF IInv, ChunksApart
    <2>2. c.base + c.size <= arena_chunk \/ arena_end <= c.base
        BY <2>1, <1>3
    <2> QED BY <2>2, <1>1, <1>2, <1>3
<1> QED BY <1>4, <1>5

(* Handing out a block from the chunk in use preserves the invariant. *)
LEMMA BumpKeeps ==
    ASSUME IInv, NEW n \in Nat \ {0}, Bump(n)
    PROVE  IInv'
<1> DEFINE new == Handed(n)
<1> DEFINE cur == [base |-> arena_chunk, size |-> arena_end - arena_chunk]
<1>0. Round(n) \in Nat /\ Round(n) % 16 = 0 /\ Round(n) > 0
    BY RoundFacts
<1>1. arena_next \in Nat /\ arena_end \in Nat /\ arena_chunk \in Nat
    BY DEF IInv, TypeOK, Address
<1>2. cur \in chunks /\ arena_chunk < arena_next
    BY <1>0, <1>1 DEF IInv, WalksAChunk, Bump
<1>3. /\ new.start = arena_next /\ new.end = arena_next'
      /\ arena_next' = arena_next + Round(n) /\ arena_next' <= arena_end
      /\ blocks' = blocks \cup {new}
      /\ UNCHANGED <<arena_end, arena_chunk, chunks, aborted>>
    BY DEF Bump, Handed
<1>4. arena_next' \in Address /\ new \in Block
    BY <1>0, <1>3, AddressPlus DEF IInv, TypeOK, Handed, Block
<1>5. \A x \in blocks : x.start \in Nat /\ x.end \in Nat /\ x.start < x.end
    BY DEF IInv, TypeOK, Block, Address, NoneEmpty
<1>6. \A x \in blocks : x.end <= arena_next \/ x.start >= arena_end
    BY DEF IInv, NothingBeyondNext
<1>7. TypeOK'
    BY <1>3, <1>4 DEF IInv, TypeOK
<1>8. ChunksApart'
    BY <1>3 DEF IInv, ChunksApart
<1>9. NoneEmpty'
    BY <1>0, <1>1, <1>3 DEF IInv, NoneEmpty
<1>10. WalksAChunk'
    BY <1>0, <1>1, <1>2, <1>3 DEF WalksAChunk
<1>11. BlocksInChunks'
    <2>1. cur.base <= new.start /\ new.end <= cur.base + cur.size
        BY <1>0, <1>1, <1>2, <1>3
    <2> QED BY <2>1, <1>2, <1>3 DEF IInv, BlocksInChunks
<1>12. NothingBeyondNext'
    BY <1>0, <1>1, <1>3, <1>5, <1>6 DEF NothingBeyondNext
<1>13. BlocksApart'
    <2>1. \A x \in blocks : Apart(x, new) /\ Apart(new, x)
        BY <1>0, <1>1, <1>3, <1>5, <1>6 DEF Apart
    <2> QED BY <2>1, <1>3 DEF IInv, BlocksApart, Apart
<1> QED BY <1>7, <1>8, <1>9, <1>10, <1>11, <1>12, <1>13 DEF IInv

(* So does beginning a new chunk, wherever malloc has put it. *)
LEMMA RefillKeeps ==
    ASSUME IInv, NEW n \in Nat \ {0}, NEW base \in Bases, Refill(n, base)
    PROVE  IInv'
<1> DEFINE r == Round(n)
<1> DEFINE size == ChunkSize(r)
<1> DEFINE new == [start |-> base, end |-> base + r]
<1> DEFINE cur == [base |-> base, size |-> size]
<1>0. r \in Nat /\ r % 16 = 0 /\ r > 0
    BY RoundFacts
<1>1. size \in Nat /\ r <= size
    BY <1>0, ChunkHasRoom
<1>2. base \in Address /\ base \in Nat /\ base > 0
    BY ArenaAssumption DEF Address
<1>3. /\ arena_chunk' = base /\ arena_end' = base + size /\ arena_next' = base + r
      /\ chunks' = chunks \cup {cur} /\ blocks' = blocks \cup {new}
      /\ aborted' = aborted
    BY DEF Refill
<1>4. base + r \in Address /\ new \in Block /\ cur \in Chunk
    BY <1>0, <1>1, <1>2, AddressPlus DEF Block, Chunk
<1>5. \A c \in chunks : base + size <= c.base \/ c.base + c.size <= base
    BY DEF Refill, MallocAnswers
<1>6. \A x \in blocks : x.start \in Nat /\ x.end \in Nat /\ x.start < x.end
    BY DEF IInv, TypeOK, Block, Address, NoneEmpty
<1>7. \A c \in chunks : c.base \in Nat /\ c.size \in Nat
    BY DEF IInv, TypeOK, Chunk, Address
<1>8. \A x \in blocks : x.end <= base \/ base + size <= x.start
    <2> SUFFICES ASSUME NEW x \in blocks PROVE x.end <= base \/ base + size <= x.start
        OBVIOUS
    <2>1. PICK c \in chunks : c.base <= x.start /\ x.end <= c.base + c.size
        BY DEF IInv, BlocksInChunks
    <2> QED BY <2>1, <1>1, <1>2, <1>5, <1>6, <1>7
<1> HIDE DEF r, size
<1>9. TypeOK'
    BY <1>1, <1>2, <1>3, <1>4 DEF IInv, TypeOK
<1>10. ChunksApart'
    BY <1>3, <1>5 DEF IInv, ChunksApart
<1>11. NoneEmpty'
    BY <1>0, <1>2, <1>3 DEF IInv, NoneEmpty
<1>12. WalksAChunk'
    <2>1. cur = [base |-> arena_chunk', size |-> arena_end' - arena_chunk']
        BY <1>1, <1>2, <1>3
    <2> QED BY <2>1, <1>0, <1>2, <1>3 DEF WalksAChunk
<1>13. BlocksInChunks'
    <2>1. cur.base <= new.start /\ new.end <= cur.base + cur.size
        BY <1>0, <1>1, <1>2
    <2> QED BY <2>1, <1>3 DEF IInv, BlocksInChunks
<1>14. NothingBeyondNext'
    BY <1>0, <1>1, <1>2, <1>3, <1>6, <1>8 DEF NothingBeyondNext
<1>15. BlocksApart'
    <2>1. \A x \in blocks : Apart(x, new) /\ Apart(new, x)
        BY <1>0, <1>1, <1>2, <1>6, <1>8 DEF Apart
    <2> QED BY <2>1, <1>3 DEF IInv, BlocksApart, Apart
<1> QED BY <1>9, <1>10, <1>11, <1>12, <1>13, <1>14, <1>15 DEF IInv

(* Resizing a block is harmless when everything that stays lies before it   *)
(* or outside the room of the chunk in use.                                 *)
LEMMA ResizeKeeps ==
    ASSUME IInv, NEW n \in Nat \ {0}, NEW b \in blocks, NEW consumed \in SUBSET blocks,
           Resize(b, consumed, n),
           \A x \in blocks \ ({b} \cup consumed) : x.end <= b.start \/ x.start >= arena_end
    PROVE  IInv'
<1> DEFINE r == Round(n)
<1> DEFINE new == [start |-> b.start, end |-> b.start + r]
<1> DEFINE cur == [base |-> arena_chunk, size |-> arena_end - arena_chunk]
<1> DEFINE rest == blocks \ ({b} \cup consumed)
<1>0. r \in Nat /\ r % 16 = 0 /\ r > 0
    BY RoundFacts
<1>1. arena_next \in Nat /\ arena_end \in Nat /\ arena_chunk \in Nat
    BY DEF IInv, TypeOK, Address
<1>2. cur \in chunks
    BY DEF IInv, WalksAChunk
<1>3. /\ b.start >= arena_chunk /\ b.start + r <= arena_end
      /\ arena_next' = b.start + r
      /\ blocks' = rest \cup {new}
      /\ UNCHANGED <<arena_end, arena_chunk, chunks, aborted>>
    BY DEF Resize, InCurrentChunk, Fits
<1>4. \A x \in blocks : x.start \in Nat /\ x.end \in Nat /\ x.start < x.end /\ x \in Block
    BY DEF IInv, TypeOK, Block, Address, NoneEmpty
<1>5. b.start \in Address
    BY DEF IInv, TypeOK, Block
<1>6. b.start + r \in Address /\ new \in Block
    BY <1>0, <1>5, AddressPlus DEF Block
<1> HIDE DEF r
<1>7. TypeOK'
    BY <1>3, <1>4, <1>6 DEF IInv, TypeOK
<1>8. ChunksApart'
    BY <1>3 DEF IInv, ChunksApart
<1>9. NoneEmpty'
    BY <1>0, <1>3, <1>4 DEF NoneEmpty
<1>10. WalksAChunk'
    BY <1>0, <1>1, <1>2, <1>3, <1>4 DEF WalksAChunk
<1>11. BlocksInChunks'
    <2>1. cur.base <= new.start /\ new.end <= cur.base + cur.size
        BY <1>0, <1>1, <1>3, <1>4
    <2> QED BY <2>1, <1>2, <1>3 DEF IInv, BlocksInChunks
<1>12. NothingBeyondNext'
    BY <1>0, <1>1, <1>3, <1>4 DEF NothingBeyondNext
<1>13. BlocksApart'
    <2>1. \A x \in rest : Apart(x, new) /\ Apart(new, x)
        BY <1>0, <1>1, <1>3, <1>4 DEF Apart
    <2> QED BY <2>1, <1>3 DEF IInv, BlocksApart, Apart
<1> QED BY <1>7, <1>8, <1>9, <1>10, <1>11, <1>12, <1>13 DEF IInv

(* The last block has everything else before it. *)
LEMMA GrowKeeps ==
    ASSUME IInv, NEW n \in Nat \ {0}, NEW b \in blocks, Grow(b, n)
    PROVE  IInv'
<1>1. \A x \in blocks : x.start \in Nat /\ x.end \in Nat /\ x.start < x.end
    BY DEF IInv, TypeOK, Block, Address, NoneEmpty
<1>2. arena_next \in Nat /\ arena_end \in Nat
    BY DEF IInv, TypeOK, Address
<1>3. \A x \in blocks \ ({b} \cup {}) : x.end <= b.start \/ x.start >= arena_end
    <2> SUFFICES ASSUME NEW x \in blocks, x # b
                 PROVE  x.end <= b.start \/ x.start >= arena_end
        OBVIOUS
    <2>1. x.end <= b.start \/ b.end <= x.start
        BY DEF IInv, BlocksApart, Apart
    <2>2. x.end <= arena_next \/ x.start >= arena_end
        BY DEF IInv, NothingBeyondNext
    <2> QED BY <2>1, <2>2, <1>1, <1>2 DEF Grow
<1> QED BY <1>3, ResizeKeeps DEF Grow

(* So has the block before the last, except for the last. *)
LEMMA AbsorbKeeps ==
    ASSUME IInv, NEW n \in Nat \ {0}, NEW b \in blocks, NEW t \in blocks, Absorb(b, t, n)
    PROVE  IInv'
<1>1. \A x \in blocks : x.start \in Nat /\ x.end \in Nat /\ x.start < x.end
    BY DEF IInv, TypeOK, Block, Address, NoneEmpty
<1>2. arena_next \in Nat /\ arena_end \in Nat
    BY DEF IInv, TypeOK, Address
<1>3. \A x \in blocks \ ({b} \cup {t}) : x.end <= b.start \/ x.start >= arena_end
    <2> SUFFICES ASSUME NEW x \in blocks, x # b, x # t
                 PROVE  x.end <= b.start \/ x.start >= arena_end
        OBVIOUS
    <2>1. x.end <= b.start \/ b.end <= x.start
        BY DEF IInv, BlocksApart, Apart
    <2>2. x.end <= t.start \/ t.end <= x.start
        BY DEF IInv, BlocksApart, Apart
    <2>3. x.end <= arena_next \/ x.start >= arena_end
        BY DEF IInv, NothingBeyondNext
    <2> QED BY <2>1, <2>2, <2>3, <1>1, <1>2 DEF Absorb
<1> QED BY <1>3, ResizeKeeps DEF Absorb

-----------------------------------------------------------------------------
(* The invariant holds before anything is asked for. *)
LEMMA InitEstablishes == ArenaInit => IInv
<1> SUFFICES ASSUME ArenaInit PROVE IInv
    OBVIOUS
<1>1. 0 \in Address
    BY SMT DEF Address
<1>2. TypeOK
    BY <1>1 DEF ArenaInit, TypeOK
<1>3. WalksAChunk /\ NothingBeyondNext
    BY DEF ArenaInit, WalksAChunk, NothingBeyondNext
<1>4. ChunksApart /\ NoneEmpty /\ BlocksInChunks /\ BlocksApart
    BY DEF ArenaInit, ChunksApart, NoneEmpty, BlocksInChunks, BlocksApart
<1> QED BY <1>2, <1>3, <1>4 DEF IInv

(* Every step of the arena preserves it. *)
LEMMA NextPreserves == IInv /\ [ArenaNext]_arenaVars => IInv'
<1> SUFFICES ASSUME IInv, [ArenaNext]_arenaVars PROVE IInv'
    OBVIOUS
<1>1. ASSUME UNCHANGED arenaVars PROVE IInv'
    BY <1>1 DEF arenaVars, IInv, TypeOK, ChunksApart, NoneEmpty, WalksAChunk, BlocksInChunks,
                NothingBeyondNext, BlocksApart, Apart
<1>2. ASSUME NEW n \in Requests, OutOfMemory(n) PROVE IInv'
    BY <1>2 DEF OutOfMemory, IInv, TypeOK, ChunksApart, NoneEmpty, WalksAChunk, BlocksInChunks,
                NothingBeyondNext, BlocksApart, Apart
<1>3. ASSUME NEW n \in Requests, Alloc(n) PROVE IInv'
    BY <1>2, <1>3, ArenaAssumption, BumpKeeps, RefillKeeps DEF Alloc
<1>4. ASSUME Request PROVE IInv'
    BY <1>3, <1>4, ArenaAssumption, GrowKeeps, AbsorbKeeps DEF Request
<1> QED BY <1>1, <1>4 DEF ArenaNext, Stopped

(* The variables keep their types, and every block starts at a multiple of  *)
(* 16: "every block starts 16-aligned like malloc's own".                   *)
THEOREM ArenaTypes == ArenaSpec => []TypeOK
<1>1. IInv => TypeOK
    BY DEF IInv
<1> QED BY <1>1, InitEstablishes, NextPreserves, PTL DEF ArenaSpec

(* No byte is ever handed out twice, by a request, by growing a block or by *)
(* growing one over the block behind it.                                    *)
THEOREM ArenaHandsOutOnce == ArenaSpec => []BlocksApart
<1>1. IInv => BlocksApart
    BY DEF IInv
<1> QED BY <1>1, InitEstablishes, NextPreserves, PTL DEF ArenaSpec

(* Every block lies within one chunk that malloc gave.                      *)
THEOREM ArenaStaysInChunks == ArenaSpec => []BlocksInChunks
<1>1. IInv => BlocksInChunks
    BY DEF IInv
<1> QED BY <1>1, InitEstablishes, NextPreserves, PTL DEF ArenaSpec

(* The room after the bump pointer is free: the next block may go there.    *)
THEOREM ArenaRoomIsFree == ArenaSpec => []NothingBeyondNext
<1>1. IInv => NothingBeyondNext
    BY DEF IInv
<1> QED BY <1>1, InitEstablishes, NextPreserves, PTL DEF ArenaSpec

(* The test of list_room for "an older chunk's block, ending by             *)
(* coincidence" never has anything to refuse.                               *)
THEOREM LastBlockIsCurrent == ArenaSpec => []LastIsInCurrentChunk
<1>1. IInv => LastIsInCurrentChunk
    BY LastInChunk
<1> QED BY <1>1, InitEstablishes, NextPreserves, PTL DEF ArenaSpec
=============================================================================
