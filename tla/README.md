# tinyc in TLA+

A verification development of `tinyc`, a compiler from TinyC to x86-64 assembly. Paths below are
relative to the repository (`src/codegen/regalloc.rs` is the file of that name in the compiler's
own `src/` directory).

## 1. The system

TinyC is compiled in one thread, stage after stage (`src/lib.rs`, `compile_with`):

    text -> lexer -> parser -> sema -> ir::lower -> ir::ssa::construct -> opt -> ir::ssa::destruct
         -> ir::coalesce -> codegen::regalloc -> codegen::x64 -> NASM assembly

The assembly holds, besides the program, the runtime routines it uses (`src/codegen/x64/runtime.rs`):
an arena that never frees, strings and lists that live in it, input, output and aborts. There is
no concurrency anywhere in the compiler or in the programs it produces. What is hard is of other
kinds:

* **facts established at one place and used at another**: a live interval computed on a flat
  layout and trusted on every path of a graph; a register judged free at one index and handed out
  for a range; ownership of a string decided once per function, by name, and used by every
  assignment to it;
* **long legal sequences**: which chunk the bump pointer is in, which block is last, which slot was
  recycled from whom;
* **order**: in what order operands, results, pieces and copies are read and written;
* **boundaries**: intervals that touch, chunks that touch, a buffer that ends inside a character;
* **what the outside does**: how `malloc` places chunks, how `read` splits the input.

### Inventory

| component | state | operations | what makes it correct |
|---|---|---|---|
| register allocation, `codegen/regalloc.rs` | free stacks of registers and slots, active list by end, locations, callee-saved registers used | one turn of the loop per interval: expire; take, steal or spill; record; activate | values needed together are apart; values across a call are safe; `verify` accepts |
| intervals, `codegen/regalloc.rs` | flat layout, interval per register | `Layout::new`, `live_intervals` | an interval covers every point of every path at which the value may still be read |
| liveness, `ir/liveness.rs` | `live_in`, `live_out`, sweep position | visit a block, begin a sweep | ends, with exactly the registers some path reads |
| emission, `codegen/x64/func.rs` | frame layout, text of instructions | an instruction, a terminator, prologue and epilogue | the processor does what the function means, under the convention of the platform, with instructions that exist |
| arena, `codegen/x64/runtime.rs` | `arena_next`, `arena_end`, `arena_chunk` | `ALLOC` (bump, refill, abort), growth in place in `append` and `list_room` | no byte handed out twice, nothing grows out of its chunk |
| strings, `ir/lower/owned.rs`, `place.rs`, `runtime.rs` | ownership per function; characters in memory | `concat`, `append`, `string(c)`, assignments | a string reads as what was assigned to it; growth leaves little behind |
| lists, `runtime.rs`, `ir/lower/*` | `[capacity][length][elements]` | `list_new`, `list_push`, `list_room`, `list_clone`, fixups | lists are values; a push moves at most one variable's block |
| input, `runtime.rs`, `linux.rs`, `windows.rs` | 4 KB buffer, position, first read, done | refill, next byte, decode, `read_line`, `eof` | what is read does not depend on how the input is cut into reads |
| numbers, `runtime.rs` | text, position, sign, number so far | `parse_int`, `int(s)`, `is_int(s)`, `string(n)` | the two questions agree with the text, up to both limits |
| lowering, `ir/lower/*` | blocks, the one being filled, scopes, loops, frame taken | a statement, an expression as a value or into a register, a place | what was accepted shows, run, what it means: operands in written order, names as `sema` resolved them, every block ended |
| SSA, `ir/ssa/*`, `ir/coalesce.rs` | dominators, names, copies per edge | construct, destruct, coalesce | the program computes the same; parallel copies stay parallel |
| optimiser, `opt/*`, `ir/fold.rs` | lattice, value numbers, live marks | four passes until none changes anything | same output, same aborts, it ends |
| parser, `parser.rs` | position, depth, errors | productions, recovery | always advances; the nesting limit holds |
| checks, `sema/*` | scopes, expected return type, depth of loops | declarations, statements, expressions, match domains | no program it accepts gets to where the language says nothing; none that is sound is refused for an arm that runs |
| lexer, diagnostics, tables, driver | - | pure functions, files | tested by their own tests |
| IDE plugin, `ide/intellij` | processes it runs | build, annotate, capture | gives up on a tool that hangs; results belong to the text they were asked for |

## 2. The modules

| module | what it is | code |
|---|---|---|
| `LinearScan` | abstract: one interval is placed per step, with every choice of register and slot open | `allocate`, `expire_through`, `take_register`, `steal_candidate`, `alloc_slot` |
| `RegAlloc` | the allocator as written: stacks, sorted list, which entry is stolen. Implements `LinearScan` | the same, and `verify` |
| `LinearScanProofs` | inductive invariant and theorems about `LinearScan` | |
| `RegAllocProofs` | inductive invariant of `RegAlloc`, and the proof that it implements `LinearScan` | |
| `Cfg` | graphs of blocks, and what liveness means on paths | `ir/block.rs`, `ir/instr.rs` |
| `Liveness` | the in-place fixpoint, one step per block | `ir/liveness.rs` |
| `LivenessProofs` | inductive invariant and theorems about `Liveness` | |
| `LiveIntervals` | layout, intervals, calls crossed, order | `live_intervals` |
| `AllocatedCode` | composes `Cfg`, `LiveIntervals` and `RegAlloc`: a function is allocated, then run on its locations | `codegen/x64/func.rs` |
| `AllocatedCodeProofs` | inductive invariant and theorems about `AllocatedCode` | |
| `Arena` | the allocator of the runtime, chunk by chunk, with growth in place | `arena`, `list_room`, `append` |
| `ArenaProofs` | inductive invariant and theorems about `Arena` | |
| `OwnedStrings` | which variables are owned, and the instructions a statement becomes | `ir/lower/owned.rs`, `place.rs`, `stmt.rs`, `expr.rs` |
| `StringProgram` | composes `OwnedStrings` and `Arena`: a function is lowered and run on memory of cells | `string_stubs` |
| `SequenceFacts` | lemmas about sequences, recursion and bounded sets | |
| `Lists` | composes the code of list statements with `Arena`: lists, objects that hold one, lists of those | `list_stubs`, `fixup_stubs`, `ir/lower/place.rs`, `expr.rs`, `stmt.rs` |
| `ListsProofs` | inductive invariant and theorems about `Lists` | |
| `Input` | reading, byte by byte, in whatever reads the input arrives | `input_stubs`, `refill`, `linux.rs`, `windows.rs` |
| `InputProofs` | inductive invariants of `Numbers`, whoever runs it, and of `NumericInput`, and theorems about the two | |
| `Numbers` | text to number and back, a digit at a time on the negative side | `PARSE_INT`, `StrToInt`, `IsInt`, `IntToStr` |
| `NumericInput` | composes `Input` and `Numbers`: a program that reads lines and takes them for numbers | the same |
| `Ir` | functions with block parameters, and what running one shows from outside | `ir/block.rs`, `ir/instr.rs`, `ir/func.rs`, `ir/value.rs` |
| `Ssa` | into SSA form and out of it | `ir/ssa/dom.rs`, `ir/ssa/mod.rs`, `ir/coalesce.rs` |
| `Optimiser` | the four passes as functions of a function | `opt/sccp.rs`, `copies.rs`, `gvn.rs`, `dce.rs`, `ir/fold.rs` |
| `MiddleEnd` | the stages in their order, each of which may be watched running next to what it started from | `lib.rs`, `opt/mod.rs` |
| `X64` | the processor, external: words, floats, operands, which instructions there are and what they do | |
| `Emission` | from a function and an allocation to instructions | `codegen/x64/func.rs`, `mod.rs`, `linux.rs`, `windows.rs`, `abort_stubs` |
| `EmittedCode` | the emitted code run next to what the function means | `ir/instr.rs`, `ir/block.rs` |
| `Parser` | from tokens to a tree, with what is reported on the way and where it is gone on from | `parser.rs` |
| `Writing` | reference: a tree written out with the fewest parentheses, and the ways somebody slips | |
| `Syntax` | the tree of a function, its types, and exact arithmetic | `ast.rs` |
| `Sema` | the checks of a function's body, as the set of mistakes in it | `sema/check/*`, `sema/signature.rs` |
| `Lowering` | from the tree to blocks of instructions | `ir/lower/*`, `ir/fold.rs` |
| `Meaning` | abstract: what a function shows by its meaning alone | |
| `FrontEnd` | composes the six: a program is written, somebody slips or not, it is read, checked, refused or lowered, and run | `lib.rs`, `sema/mod.rs`, `ir/lower/mod.rs` |

How state corresponds: variables have the names of the code's fields and labels (`free_slots`,
`next_slot`, `arena_next`, `live_in`). A virtual register is its index in the list of intervals in
`LinearScan` and `RegAlloc`, which the code's intervals are sorted into; `order` maps it back in
`AllocatedCode`. `evicted` in the allocator is a history variable that no step reads. In
`StringProgram` memory is a function from addresses of four-byte cells, so that a copy over its
own source does what it does on the machine, and `want` is the meaning of the source program,
against which memory is compared. `Lists` does the same with cells of eight bytes. Both take the
instructions of a statement one by one, so that every allocation between them is a step that the
arena may answer from the chunk in use or a new one. `Input` takes one byte, one decision of the
decoder or one refill per step; what arrives is cut into reads in every way there is. In `MiddleEnd`
`source` is the function as lowered and `made` what has become of it; a pass is one step, and
between any two of them the two may be run side by side, from one thing that is seen of them to the
next (`here`, `there`), with the same argument and the same answers. In `EmittedCode` the machine is
the processor's registers, flags, stack and memory, as `X64` has them, and the function is run on its
virtual registers beside it. In `FrontEnd` a function is a syntax tree: `Check` is all of `sema` on its
body, `Lower` all of `ir::lower`, whose state (`Lowering` in the code) is the record `l` that every
operator of the module `Lowering` takes and returns; `Run` goes to the next call, print, return or
abort of the lowered code, and `meant` is where the function gets to by its meaning alone (`Meaning`),
which knows no types, registers or addresses. What is read is a list of tokens
(`text`): `Slip` is somebody's hand, `Parse` all of the parser, whose position, depth and mistakes are the
record every production of `Parser` takes and returns.

## 3. What the runs check

| run | bounds | shows |
|---|---|---|
| `linear_scan` | four values, two registers, all calls | Every linear scan over four values with any calls between them keeps values that are needed at once apart and values that cross a call out of the registers a call destroys; only an eviction ever makes overlapping values share. |
| `regalloc` | five values, two registers, at most one call | The allocator loses and duplicates no register or slot, keeps its active list sorted and truthful, saves exactly the callee-saved registers some value is in, and implements the abstract linear scan step for step. |
| `liveness` | all two-block functions of two registers, all three-block graphs of one | The backward dataflow over every graph of two blocks with two registers, block parameters and terminator reads, and every graph of three blocks with one (nested and crossing back edges, unreachable blocks), ends with exactly the registers some path reads. |
| `allocated` | a line, a loop, a diamond and a split edge of five instructions, two registers | Straight lines with evictions, loops, diamonds and split edges: run on its locations, every operand finds its own value unless `verify` would have refused the allocation, and one contiguous interval per register over the flat layout keeps what some path still reads. |
| `arena` | chunks of 48 bytes at three touching addresses | The arena never hands a byte out twice, however blocks are bumped, grown in place and grown over, with chunks that touch each other in memory in any order. |
| `strings` | two statements three times, or one twenty-four times; chunks of 128 bytes, two of them touching | Loops of up to two string statements, run in any order: appending in place to a variable nothing else holds never changes what any variable reads as, keeps to the rules of the arena, and leaves at most four blocks of a growing string behind in each chunk. |
| `lists` | five variables, two statements three times; room for two elements at first; chunks of 96 bytes, two of them touching | Assignments, literals, pushes, calls that are lent a list, and objects and lists of objects that hold one: every variable holds what was assigned to it, no two names share a list, and growing keeps to the rules of the arena. |
| `input` | texts of up to three characters, every boundary of UTF-8, consoles of up to four characters read two at a time, a buffer of six bytes; integers from -16 to 15 and up to three digits behind a sign | However the input arrives, byte by byte or a buffer at a time, with or without a byte order mark, from a pipe or a console: the lines read are those of the text, eof() tells the truth, only bytes that spell no character stop the program, and is_int, int and string agree with what lines of digits spell, up to both limits. |
| `middle` | six shapes of up to six blocks, ten bodies, integers up to 2, two answers | Functions of six shapes are brought into SSA form, optimised or not, and brought out again: after every pass they print, call, return and stop as they did when lowered; they are in SSA form all the while; every further round has removed something. |
| `emission` | words of ten bits and immediates of nine, two registers and two slots per platform, pages of 64 bytes | Functions of one instruction of every kind, with every way its operands and result can share registers and slots, and frames of up to three pages with and without a stack that is long enough: the code emitted shows, stops and leaves what the instructions mean, keeps both calling conventions, and is one a processor can run. |
| `front` | 5610 functions over five parameters of five types, each with two lists of arguments and two of answers; integers from -8 to 7; five turns of the loops; four whole programs, written right, with each token left out, with one of fifteen put in or in its place, or with one or two statements not ended; a nesting limit of twelve | Over five thousand functions and four whole programs are read as they were written; where one token of a program is left out, put in or another, or one or two statements are not ended, what is accepted still says what the text says, reading always comes to the end, blames nothing before the slip, and reports each statement that is not ended once. Of the functions, an expression of every form put to every use and pieces of program put one after the other, in branches and in loops, are checked; what is accepted is lowered and run, and shows what it means; what is accepted never gets to where the language says nothing; what is refused as never run never runs. |

Why the bounds are enough: the allocator's state after a step depends on at most the active
entries, of which two registers and a handful of slots already give every combination of take,
steal, spill and recycle, and four values are what the shortest violation of `verify` needs.
Liveness needs two blocks for a back edge and three for a nested or crossing one. Chunks of a few
blocks and at most three of them at touching addresses meet every boundary test of the arena; the
proofs remove the bound. Strings of up to a few characters in chunks of 128 bytes meet: a
block that is last, one that is followed by the operand, by something else, by the end of the
chunk, and a chunk that continues where a literal in `.data` ends. Lists that start with room for
two elements double twice in five statements: within their block, in place, and by moving. A
buffer of six bytes holds a character of four and the start of another, and texts of three
characters put each boundary of UTF-8 on each side of a refill. The functions of `middle` are all
combinations of a shape (if, if-else, loops that are tested before, asked about, branched in or left
from inside), what the entry does, and what one or two of the blocks do: swaps, sums that may or may
not fit, checks, loads around stores, calls. Edges into joins and loops meet every placement of
parameters, two variables that swap are what sequencing and coalescing can lose, and two answers
are enough to take every branch. Words of ten bits and immediates of nine tell apart every width the
processor tells apart, and two registers and two slots meet every combination of places of operands
and result. In `front` every form of expression has every kind of atom for operands and is put to every
use (printed, returned, kept, assigned to an array, asked), well typed or not; statements in pairs,
in branches and in loops meet each way control leaves a block, and two lists of arguments with two of
answers take both ways of every branch. Integers of four bits reach both limits in two operations. The four programs that are only read hold
between them every production in every place the grammar has for it, so that a token left out, put in or
replaced meets every production at every position it can fail at, and a limit of twelve is met by one of
them on purpose.

**Fairness.** Only `Liveness` states any: weak fairness of its own loop, which is a plain `while`
in one thread that nothing else can hold up. Everywhere else the properties are of safety: that the
optimiser's loop ends follows from `P_RoundsRemove`, since what a round removes is counted by a
natural number.

**Findings** (runs that end in a violation, and mean to):

* `middle_index`: settled_parameters replaces a parameter that every edge hands the same constant, in an elem's index as anywhere else. Where that constant is out of range both index and length are now constants, and the backend leaves the check out (src/codegen/x64/func.rs:533, "`sema` proved this one is in range"). src/opt/sccp.rs:275 says "an index known to be out of range stays the register it was, and the program stops where it would have without this pass", and src/opt/mod.rs:23 "A pass may change how long a program takes and how much it spells out. It may not change what the program does — including where it stops". The run ends with a function that stopped at element 2 of two when lowered, and prints after the copies pass.

### Found by hand

What the runs leave out by name, because the code does there what its own words deny. The first three
concern the back end, the others the front end; those marked with a set are reproduced
by `MC_FrontEnd.cfg` with `Programs <- ` that set, `Listings <- MCTall`, and the invariants `RunsAsWritten`
and `AcceptedNeverAstray`.

* An evicted value moves, for its whole interval, to a slot that was another's when it began
  (`src/codegen/regalloc.rs:263`), which `verify` (`src/codegen/regalloc.rs:392`) refuses:
  `VerifiedWhenReturned` in `MC_RegAlloc.cfg` with `CallerSavedList <- MCNone`, `IntervalLists <- MCNoCalls`.
* A list literal is built in the register of the variable it is assigned to, before its elements are
  worked out (`src/ir/lower/expr.rs:63`): `xs = [xs[1], 7]` reads the new list:
  `ListsAreValues` in `MC_Lists.cfg` with `Programs <- MCReadsItself`.
* A frame of whole pages begun at the edge of a page leaves its last page untouched
  (`src/codegen/x64/func.rs:216`, `229`), and a call from it steps over that page; `AtAnEdge` in
  `EmittedCode` leaves such frames out.
* `OfItself`: a variant is allocated into the variable's register before its payload is worked out
  (`src/ir/lower/stmt.rs:345`), so `s = Box(match s { ... }, 1)` asks the new block.
* `OfItsName`: `int x = x + 1;` in an inner block reads the new `x`, which nothing has written:
  `src/ir/lower/stmt.rs:38` declares the name before its initialiser is lowered, `src/sema/check/stmt.rs:8`
  after it was checked.
* `LeastNegated`: a negation that does not fit is folded to the number itself (`src/ir/fold.rs:30`) where
  the same negation at run time aborts.
* `PastTheEnd`: `a[len(a)]` is not a constant to the checks (`src/sema/signature.rs:237` does not know
  `len`), but is one to lowering, and `src/codegen/x64/func.rs:533` leaves out the check of an index
  because "`sema` proved this one is in range"; `src/sema/check/expr.rs:239` says neither can reach
  past the end.
* `NowhereToAnswer`: a call statement drops its result (`src/sema/check/stmt.rs:73` says it is simply
  discarded), and lowering passes no room to a function that answers an array
  (`src/ir/lower/stmt.rs:190`), which then takes its first argument for the room.
* The nesting limit counts what is charged, not how high the tree gets: the levels a chain charged are
  given back (`src/parser.rs:1171`, `1229`) before a chain put on top of it charges its own, so a tree that
  is accepted can be higher than `MAX_NESTING`, where `src/parser.rs:315` and `docs/architecture.md:1803` say
  that it is the depth of the tree that is counted: `NestsNoDeeper` in `MC_FrontEnd.cfg`
  with `Programs = {}`, `Slips = {}`, `Listings <- MCTall`.
* A missing `}` is not "the only thing reported" (`src/parser.rs:151`, `docs/architecture.md:1766`): the
  functions behind it are read as statements of the open block, and each is a mistake of its own.
* Not modelled, as floats are left out of `FrontEnd`: `!(a < b)` becomes `a >= b`
  (`src/ast.rs:727`, `src/ir/lower/expr.rs:261`), which is false as well when either is no number.

## 4. What is proved

`LinearScanProofs`: for all register pools that are disjoint and all lists of intervals sorted by
start. The invariant is that the *holders* (active and evicted values) have locations of their
own, that no free slot is a holder's, that slots in use are below `next_slot`, that an evicted
value is in a slot and not active, and that a value that is not a holder is dead. None of the
properties is inductive alone: `RegistersNotShared` speaks of values long expired, and needs that
a register freed by expiry is only given to a value that begins no earlier than the last use of
its former holder (`IdleDead`). Eviction is the step that breaks the symmetry, and the reason the
theorem about sharing is as weak as it is: `OnlyEvictionShares` is what is true of slots, where
`verify` asks for more.

`ArenaProofs`: for every chunk size, every set of request sizes and every set of 16-aligned bases.
The invariant adds to the properties that chunks are apart and that the chunk in use is one of
them. `LastIsInCurrentChunk` follows from it, and shows that the guard against a coincidence in
`list_room` never has anything to refuse; `append` needs it, for the block before the last.

`RegAllocProofs`: for all register files whose lists name no register twice and all lists of intervals
sorted by start. `Bookkeeping` is not inductive: that `steal_candidate` leaves the register files
whole needs the entries' ends to be those of their intervals, that a slot is fresh needs everything
placed to lie below `next_slot`, and `SavedExactly` is only about registers of the file if locations are.
`IInv` is a ledger: every location of a pool is on its stack or with an entry of that pool, never
both; slots that were given to an evicted value are out of it for good. `expire_through` is a
recursive function of how many entries it has looked at, and the ledger holds of what it has got at
each of them (`PassOne`, `PassAll`, by the principle `UpTo`); so it holds of the lists the turn
starts from (`ExpiredLedger`), and each of the four ways a turn ends keeps it.
`Implements` shows that every turn is a step of `LinearScan`, which needs the ledger too: that a register
is on top of a stack must be the same as that some register is free, that the entry found by `max_by_key`
in a sorted list is one with the latest end, and that a slot popped is one nobody needs any more
(`ExpiryImplements`, `SlotImplements`, `VictimsAre`). With it everything proved of `LinearScan` holds of
the allocator as written (`AllocationSafe`).

`AllocatedCodeProofs`: for all sets of functions that are code, read nothing unwritten and define each
register first (the assumption `FunctionsAreCode`), whatever their graphs. It puts the other proofs together: the
meaning of liveness on paths (`LivenessProofs`), the allocator's invariant and refinement
(`RegAllocProofs`) and that of the abstract scan (`LinearScanProofs`). The invariant says that at every
point of every path each value that is still read from there is in its own location
(`InPlace`). It is kept because the interval of a value spans every place at which it is live (`Spans`:
what is live between two points of a block was live at its top, or is written in it, or is read
in it), so that a result written there overlaps it and was given another location (`Apart`), and a call
there is one it crosses (`CallSpares`). A result that is never read is the odd case: its interval has
no length and `verify` passes over it. Where it was not evicted it is in a register (`DeadKeepRegister`, in
`LinearScanProofs`), and registers are never shared; this is the theorem `NeverReadNeverShares`, and the reason
`verify` may pass over it. That intervals which only touch may share
rests on the result being written after the operands are read, and on `DefinedFirst`: section 5.

`InputProofs`, first half, about `Numbers`: for every width of integers whose negative side reaches further than the positive, as
two's complement has it, and for which the room of `string(n)` holds the digits and a sign
(`NumbersAssumption`). The recursive functions that say what digits count for (`Counted`, `Tens`) are
shown to satisfy their equations first. The invariant (`NumbersInv`) then says, of a text half read, that `rax` is
minus what the digits so far count, and, of a number half written, that what is written and what
is left make up the number, with one digit for each power of ten it is not below. Why a digit that
overflows settles the matter, whatever follows, is that what more digits count only grows; and that there is no
zero in front is that what is left is not zero as long as there is a turn to come.

Second half, about `NumericInput`: for all inputs and buffers that `SourcesAreInput` allows, and all reads but one that cuts a byte order mark
(section 5). The invariant
(`InputInv`) names the place reached: `n` characters of the text are taken, `k` bytes of the
next one are with the decoder, the line being read begins behind the `s`-th character. It says that what waits
in the buffer with what is still to arrive (`Pending`) is exactly the rest, that is the bytes of the next character
without its first `k`, those of the characters behind it, and the bytes that spell none. From there
the properties are read off: the lines answered are those of the text that end before `s`
(`LinesFollow`), and nothing is pending only when nothing is left. None of the three properties is
inductive, since none of them speaks of bytes. A refill takes from what is to arrive and gives
to what waits and leaves the rest as it was (`RefillStep`); a mark is dropped by the first read and no other, and can
only be the mark, since no text that is not marked begins with one (`MarkDropped`, `NoMarkInFront`).
The decoder is what UTF-8 is in reverse: the lead byte of a character tells its length and no
other character begins with it, what is gathered are its leading bits, and what is complete is the character, which
`Scalar` lets pass (`StartStep`, `ContinueStep`, `CharComes`). The other way round, whatever `Scalar` lets pass
is a character that the bytes taken spell, so that bytes which begin with no character never are
taken for one (`TailRefused`). And a character after its newline is on the next line, which is how the lines
of a text, defined by counting newlines, grow by one at each (`LineMore`, `LineStep`, `LastLineStep`).

`ListsProofs`: for all programs of typed statements (`ListsAssumption`), however long they run and their
lists get, over the six variables of `Lists` (so lists of objects that hold a list, and nothing nested deeper), in which no literal reads the list it is given to (`NoLiteralReadsItsList`; the code
gets those wrong, see section 3), for every first room of a list, every chunk size and every limit on
memory. That the list code keeps to the arena (`ListsKeepTheArena`) needs `AnyRoom` as well: the arena's
own specification may be asked for whatever a list can need, which the runs bound by `Requests`.
None of the three properties is inductive: they speak of memory between statements, and most steps are in
the middle of one. The invariant (`ListsInv`) is that of the arena with two functions, `A` from
the names of lists (a variable, or the k-th element of one) to addresses and `M` from the same names to what
is there. Whatever the program is at, no two names have one address, and at each address there is a
list with what `M` says, in a block of its own with its capacity in front (`World`, `Holds`). What the
variables mean is then a statement about `A` and `M` alone: `Clean` when every one of them has what it should
have, `Whole` when one lacks the elements of a set `S` that the statement under way has yet to
fill, `Short` when one lacks its last. `Stage` is the nineteen places a statement can be at, each of which
says which of these holds and what code is left; that each instruction leads from one to another is a
lemma per place (`StepElement`, `StepFixup`, `StepPush` and so on, put together in `ActsReach` and `ListsGoOn`), and what begins a statement leads to one (`Begins`).
Names, and not addresses, are what the argument is about, because growing moves a list: then `A` changes at one
name, and what was true of all others is so because theirs are other addresses (`WorldMoves`). Names may
go out of use (a list that was assigned over stays in the arena, as it does in the code) and no two of them
share cells because blocks do not (`ListsApart`), which is where the invariant of `ArenaProofs` comes in. The arena's
lemmas are stated for a request of any size for this. Since `ListsInv` says that some `A` and `M` exist,
TLC checks the properties it gives and not the invariant itself.

`SequenceFacts`: what those proofs need of sequences and of recursion and the provers do not know: induction
up to a bound over a set (`UpTo`), that a function defined by recursion on `0 .. n` satisfies its equation
and stays in its range (`Recursion`), what pushing, popping, inserting in order and removing
do to the range and the order of a sequence, and how sequences of sequences are flattened and cut.

`LivenessProofs`: for every set of functions whose blocks jump to blocks of their own. What an answer
should be is said on paths (`LiveIn`: some path reads the register before it writes it), what the
code works towards is equations, and the two meet from both sides. The paths solve the equations
(`ReadHere`, `ReadLater`: a path is extended by a block in front, or cut where it came by already),
so accumulating never gives more than they do; and whatever solves the equations holds all a path reads
(`NothingMissing`), since on such a path a block where the register is missing is followed by another,
and a path is finite (`NoEndlessClimb`). The invariant adds to the properties that nothing is live
without a reason that still stands (`Grounded`), without which a sweep that changes nothing would
leave `live_in` above its equation. From it: no step strays, and the end is exact.

Only model-checked: that the liveness analysis ends (temporal reasoning under fairness is beyond the
prover), and everything in the modules with recursive operators, which the prover cannot look into: `OwnedStrings`, `FrontEnd`
and what they use, whose expressions are trees, `MiddleEnd`, whose passes are fixpoints over graphs, and
`EmittedCode`, which runs code from one thing that is seen to the next.

## 5. Assumptions and limits

* `AllocatedCode` takes functions in which nothing is read that no path has written and in which, in the
  flat order of the blocks, the interval of every register starts at an instruction that writes it
  (`DefinedFirst`; `live_intervals` calls its order one of definition, `src/codegen/regalloc.rs:180`).
  Lowering produces blocks in that order; the blocks that splitting an edge appends last
  are among the shapes. It is assumed of what the earlier stages hand over and not derived from
  them. Without it the rule that touching intervals may share fails. That every register is written, in the flat
  order, before it is read, which is what `src/codegen/regalloc.rs:32` says the rule rests on and
  `definitions_precede_uses` tests, would not be enough: let blocks 1, 3, 2, 4 run in that order, 3 write a
  value that 4 reads, and 2 begin with a result nobody reads. The value's interval starts at the
  top of 2, where the result's starts and ends; they touch, may share a register, and the result
  destroys the value. No function of the compiler is laid out like that.
* `Verified` is translated with the overlap test of the code, which passes over a value that is
  never read. `AllocatedCode` shows operands survive whenever `verify` accepts.
* malloc is external: it answers with memory that is nobody else's, 16-aligned, or refuses. Sizes
  do not wrap: a request near 2^64 cannot be made without as much memory.
* Literals lie in `.data`, outside every chunk; one of them ends where the first chunk begins.
* In `OwnedStrings` a function has two string variables and one enum with one variant that carries
  a string, declared at the top; its other statements run in any order and any number of times up
  to a bound, as the analysis does not look at control flow either.
* A variable that is put into an enum (`e = Named(s)`) is named by `owned_strings` all the same:
  `Owned::expr` (`src/ir/lower/owned.rs:233`) does not look into a variant's payload, though the
  payload then holds the string that `src/ir/lower/owned.rs:11` says nothing else can be holding.
  `OwnedAlone` leaves such variables out; `strings` shows that the enum still reads as it did,
  because its block comes after the string's and stands in the way of growing it.
* `strings` leaves out a piece of an append chain that reads the variable through a variant's
  payload (`s = s + "b" + match Named(s) { Named(q) => q }`): `mentions`
  (`src/ir/lower/owned.rs:295`) does not look there, although `src/ir/lower/place.rs:113` relies
  on no piece reading the variable, and such a piece reads it with "b" already appended.
* A refill for more than `CHUNK_BYTES` asks for half as much again (`src/codegen/x64/runtime.rs:317`),
  as `Refill` does; `docs/architecture.md:1068` says it asks for exactly what was wanted.
* `Lists`: statements run where `sema` lets them through (`TypedStmt`) and where the elements they read
  are there (`Allowed`): an index out of range stops the program. An element is one word wide and the ones read or written by number are the first;
  a class has one list, and a list given to a variable of it after its declaration is `b.items = v`: the
  other way to write it, `b = Bag(v)`, copies the list on the way into the object and the object's once
  more (`src/ir/lower/place.rs:302`), and is left out; room for two elements at first where the code has room for four. An
  assignment to a place works out its address before the value (`src/ir/lower/stmt.rs:94`), so
  `o.xs[0] = f(o)` writes to the list as it was when `f` moves it; such statements are left out.
* A pattern's name counts for nothing in `owned_strings` (`src/ir/lower/owned.rs:220`): where one is
  named like an owned variable, an assignment to it is lowered to an append in place, and changes the
  payload of the enum that `src/ir/lower/stmt.rs:323` calls read-only. `src/ir/lower/owned.rs:24`
  means the name not to stand for two variables. In `strings` patterns bind names of their own.
* Only a push onto a parameter itself is refused (`src/sema/check/aggregate.rs:36`). A function that is
  lent `b.items` and given `b` may push onto `b.items`, which moves the list, and goes on with the old
  elements, which is what `src/sema/check/aggregate.rs:33` means to rule out. In `lists` a list that
  is lent does not grow meanwhile.
* `Ir` keeps one instruction for each way the passes tell instructions apart; memory is one cell,
  integers run from 0 to `MaxInt`, and a sum above it stops the program. `MaxSteps`
  bounds the search for the next thing to be seen and is never met: every loop of `middle` prints or
  calls at each turn. The work list of `sccp` is taken in another order than the code's, on
  which what is found does not depend. Nothing jumps back to the entry,
  which lowering never does. The functions of `middle` index with no number that is merged from
  equal ones out of range: see `middle_index`.
* `NumericInput` is checked and proved under two assumptions. `NumbersAssumption` is two's complement and
  "twenty digits and a sign", as above. `SourcesAreInput`: `INPUT_BYTES` holds three bytes for each character
  asked of a console (`src/codegen/x64/windows.rs:55`); a text consists of characters, those of a console of
  one UTF-16 unit each, since a console is asked for units; what follows it does not begin with the bytes of a
  character (else it would be text); a text that begins with a byte order mark counts as
  marked, since its bytes are the same; a console has neither mark nor bytes that spell nothing.
* `Arrivals` does not let the first read of a marked input end within the mark: one
  cut by it stays in the text (`src/codegen/x64/runtime.rs:1463`), where `docs/architecture.md:1330`
  says the mark is dropped "before anything else sees it". Input without a mark, of a console or not,
  may be cut after any unit, the first read too. `Input` also leaves out: a byte order mark typed at a console, console
  characters cut in the middle of a surrogate pair, and an end of the input that a terminal on
  Linux gives more than once (`INPUT_DONE` is only for what was typed at a Windows console).
* `Syntax` has one type of number, one level of arrays and no nested aggregates; a call is known by its
  signature, and answers what it likes. `Meaning` gives a run up after `Patience` turns of its loops, of
  which `RunsAsWritten` then asks only for a common beginning.
* `Parser` starts from tokens: the lexer is not modelled, and the text between two specifiers of a
  `printf` is kept as its length. It leaves out node numbers, spans other than the token a mistake is
  at, and wording. A slip is one token, or the ends of up to two statements, which are not those in
  the head of a `for`, of a class's field, or of a `return` that answers nothing (where the next statement is
  taken for the answer). In none of these texts does `ensure_progress` have to step over a token: what
  recovery stops at is always something that the loop it returns to takes.
* `Emission` leaves out the text of an operand, constants too wide for the assembler's forms other than
  by their width, and products and quotients of floats.
* Not modelled and known: `TinyCBuild.kt:165` reads all
  output of a tool before it waits with a timeout; the annotator places diagnostics of an older text.
* The text a line is compared with (`WithoutReturn`) follows the code in taking off a carriage return
  that ends the input without a newline.

## 6. Plan

Done first because everything depends on it: allocation and the arena, then strings, which is
where the compiler takes the greatest risk for speed, the middle end, emission and the front end.
Next, in this order:

1. Folding at the limits of 64 bits; strings, lists, floats and
   classes in `Sema`, `Lowering` and `Meaning`, with coercion to a base and tables of methods.
2. A lexer in front of `Parser`. `Tools`: the plugin's processes and their timeouts.
3. Proofs: strings on the arena, along the lines of `ListsProofs` (needs the recursive operators of
   `OwnedStrings` as recursive functions); a sequenced parallel copy
   is the parallel assignment (needs `Sequenced` in a module of its own, apart from the recursive
   operators of `Ssa`).
