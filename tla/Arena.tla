------------------------------- MODULE Arena -------------------------------
(***************************************************************************)
(* The arena every string, list and boxed enum of a compiled program lives *)
(* in (src/src/codegen/x64/runtime.rs): a bump pointer through chunks      *)
(* asked of malloc, from which nothing is ever freed, and the one thing it *)
(* can give back: the block it handed out last may be made longer where it *)
(* stands.  Addresses and sizes are bytes.                                 *)
(***************************************************************************)
EXTENDS Integers

CONSTANTS
    CHUNK_BYTES,    \* what is asked of malloc at a time
    Requests,       \* the sizes the program asks for
    Bases           \* the addresses malloc may answer with

(* Every request is for a header at least, and address 0 is malloc's refusal. *)
ASSUME ArenaAssumption ==
    /\ CHUNK_BYTES \in Nat
    /\ Requests \subseteq Nat \ {0}
    /\ Bases \subseteq {a \in Nat \ {0} : a % 16 = 0}

VARIABLES
    arena_next,     \* where the next block begins
    arena_end,      \* where the chunk in use ends
    arena_chunk,    \* where it begins
    chunks,         \* what malloc has handed out
    blocks,         \* what the arena has handed out and nobody has grown over
    aborted         \* the program has stopped with "out of memory"

arenaVars == <<arena_next, arena_end, arena_chunk, chunks, blocks, aborted>>

(* Like malloc's own, every block starts at a multiple of 16. *)
Address == {a \in Nat : a % 16 = 0}
Block == [start : Address, end : Address]
Chunk == [base : Address, size : Nat]

Round(n) == ((n + 15) \div 16) * 16

Handed(n) == [start |-> arena_next, end |-> arena_next + Round(n)]

(* A chunk has half again as much room as the block that asked for it. *)
ChunkSize(r) == IF CHUNK_BYTES >= r + r \div 2 THEN CHUNK_BYTES ELSE r + r \div 2

(* malloc answers with memory that nothing else has. *)
MallocAnswers(size) ==
    {base \in Bases : \A c \in chunks : base + size <= c.base \/ c.base + c.size <= base}

ArenaInit ==
    /\ arena_next = 0
    /\ arena_end = 0
    /\ arena_chunk = 0
    /\ chunks = {}
    /\ blocks = {}
    /\ aborted = FALSE

(* `ALLOC`, for n bytes: the chunk in use has room ... *)
Bump(n) ==
    /\ arena_next + Round(n) <= arena_end
    /\ arena_next' = arena_next + Round(n)
    /\ blocks' = blocks \cup {Handed(n)}
    /\ UNCHANGED <<arena_end, arena_chunk, chunks, aborted>>

(* Mutant: the wrong address is recorded as the beginning of the chunk. *)
RefillMisrecorded(n, base) ==
    /\ arena_next + Round(n) > arena_end
    /\ base \in MallocAnswers(ChunkSize(Round(n)))
    /\ arena_chunk' = base + Round(n)
    /\ arena_end' = base + ChunkSize(Round(n))
    /\ arena_next' = base + Round(n)
    /\ chunks' = chunks \cup {[base |-> base, size |-> ChunkSize(Round(n))]}
    /\ blocks' = blocks \cup {[start |-> base, end |-> base + Round(n)]}
    /\ UNCHANGED aborted

(* ... or it has not, and what is left of it is abandoned ... *)
Refill(n, base) ==
    /\ arena_next + Round(n) > arena_end
    /\ base \in MallocAnswers(ChunkSize(Round(n)))
    /\ arena_chunk' = base
    /\ arena_end' = base + ChunkSize(Round(n))
    /\ arena_next' = base + Round(n)
    /\ chunks' = chunks \cup {[base |-> base, size |-> ChunkSize(Round(n))]}
    /\ blocks' = blocks \cup {[start |-> base, end |-> base + Round(n)]}
    /\ UNCHANGED aborted

(* ... or malloc has nothing left. *)
OutOfMemory(n) ==
    /\ arena_next + Round(n) > arena_end
    /\ aborted' = TRUE
    /\ UNCHANGED <<arena_next, arena_end, arena_chunk, chunks, blocks>>

(* A block that starts at b and is the last, or is followed by the last one, *)
(* may have n bytes where it stands.                                        *)
InAnyChunk(b) == TRUE   \* mutant
InCurrentChunk(b) == b.start >= arena_chunk
Fits(b, n) == b.start + Round(n) <= arena_end
Resize(b, consumed, n) ==
    /\ InCurrentChunk(b)
    /\ Fits(b, n)
    /\ arena_next' = b.start + Round(n)
    /\ blocks' = (blocks \ ({b} \cup consumed)) \cup
                     {[start |-> b.start, end |-> b.start + Round(n)]}
    /\ UNCHANGED <<arena_end, arena_chunk, chunks, aborted>>

(* `list_room` and `append`: b is the last block, and grows. *)
Grow(b, n) ==
    /\ b.end = arena_next
    /\ b.start + Round(n) >= b.end
    /\ Resize(b, {}, n)

(* Mutant: what lies between b and t is not asked about. *)
AbsorbFar(b, t, n) ==
    /\ t.start >= b.end
    /\ t.end = arena_next
    /\ b.start + Round(n) >= b.end
    /\ Resize(b, {t}, n)

(* `append`: t, built by this very statement, comes right after b and is the *)
(* last; b grows over it, which may give some of it back.                   *)
Absorb(b, t, n) ==
    /\ t.start = b.end
    /\ t.end = arena_next
    /\ b.start + Round(n) >= b.end
    /\ Resize(b, {t}, n)

Alloc(n) == Bump(n) \/ (\E base \in Bases : Refill(n, base)) \/ OutOfMemory(n)

Stopped ==
    /\ aborted
    /\ UNCHANGED arenaVars

Request ==
    /\ ~aborted
    /\ \E n \in Requests :
          \/ Alloc(n)
          \/ \E b \in blocks : Grow(b, n)
          \/ \E b, t \in blocks : Absorb(b, t, n)

ArenaNext == Request \/ Stopped

ArenaSpec == ArenaInit /\ [][ArenaNext]_arenaVars

-----------------------------------------------------------------------------
(* The pointers and the bounds of every block are aligned as malloc's are.  *)
TypeOK ==
    /\ arena_next \in Address
    /\ arena_end \in Nat
    /\ arena_chunk \in Address
    /\ chunks \subseteq Chunk
    /\ blocks \subseteq Block
    /\ aborted \in BOOLEAN

Apart(x, y) == x.end <= y.start \/ y.end <= x.start

(* No byte is ever handed out twice, whatever has been grown or absorbed    *)
(* and wherever malloc has put the chunks.                                  *)
BlocksApart == \A x, y \in blocks : x # y => Apart(x, y)

(* Every block lies in memory malloc gave, all of it in one chunk: nothing  *)
(* is ever grown from one chunk into the one that happens to follow it.     *)
BlocksInChunks ==
    \A b \in blocks : \E c \in chunks : c.base <= b.start /\ b.end <= c.base + c.size

(* Beyond the bump pointer the chunk in use is untouched.                   *)
NothingBeyondNext ==
    /\ arena_next <= arena_end
    /\ \A b \in blocks : b.end <= arena_next \/ b.start >= arena_end

(* A block that ends where the next one would begin is in the chunk in use: *)
(* the "older chunk's block, ending by coincidence" that list_room guards   *)
(* against does not occur.  (It does for the block before the last, which   *)
(* is what append's own use of the same test is for.)                       *)
LastIsInCurrentChunk == \A b \in blocks : b.end = arena_next => InCurrentChunk(b)
=============================================================================
