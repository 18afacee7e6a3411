--------------------------- MODULE StringProgram ---------------------------
(***************************************************************************)
(* A function of OwnedStrings, compiled and run: its instructions work on  *)
(* registers and on the arena of module Arena, with the string routines of *)
(* src/src/codegen/x64/runtime.rs (concat, append, string(c)).  A string   *)
(* is the address p of its first character; its count is at p - 8.  Memory *)
(* is in cells of four bytes, as characters are.                           *)
(***************************************************************************)
EXTENDS Arena, OwnedStrings, FiniteSets

CONSTANTS
    Programs,       \* the functions: [decls |-> a sequence, stmts |-> a set,
                    \* turns |-> a bound on how many of stmts a run executes]
    Literals        \* where .data keeps the one-character literals: char -> address

VARIABLES
    program,    \* the function that runs
    code,       \* what is left of the statement being executed
    pending,    \* the declarations still to be executed
    executed,   \* how many statements have been
    regs,       \* register -> address
    mem,        \* address of a cell -> what is in it
    want        \* what each variable means: its characters in the source language

progVars == <<program, code, pending, executed, regs, mem, want>>
allVars == <<arenaVars, progVars>>

STR_HEADER == 8
CHAR_BYTES == 4
ENUM_BYTES == 16
StringBytes(n) == STR_HEADER + CHAR_BYTES * n

-----------------------------------------------------------------------------
Junk == 0
Cell(a) == IF a \in DOMAIN mem THEN mem[a] ELSE Junk
Count(p) == Cell(p - STR_HEADER)
Text(p) == [k \in 1 .. Count(p) |-> Cell(p + CHAR_BYTES * (k - 1))]

Put(p, k, c) == (p + CHAR_BYTES * k) :> c
Header(p, n) == (p - STR_HEADER :> n) @@ (p - CHAR_BYTES :> 0)
Pointer(a, p) == (a :> p) @@ (a + CHAR_BYTES :> 0)
Chars(p, text) == [a \in {p + CHAR_BYTES * (k - 1) : k \in DOMAIN text} |->
                      text[(a - p) \div CHAR_BYTES + 1]]

(* `ALLOC` answers a. *)
Hand(n, a) == (Bump(n) /\ a = arena_next) \/ (a \in Bases /\ Refill(n, a))

(* The block of the string at p, its end worked out from its length. *)
BlockEnd(p) == p - STR_HEADER + Round(StringBytes(Count(p)))
BlockOf(p) == [start |-> p - STR_HEADER, end |-> BlockEnd(p)]

-----------------------------------------------------------------------------
(* The source language: a string is its characters, and nothing is shared. *)
RECURSIVE Meaning(_, _)
Meaning(env, v) ==
    CASE v.kind \in {"lit", "str"} -> <<v.name>>
      [] v.kind = "add" -> Meaning(env, v.parts[1]) \o Meaning(env, v.parts[2])
      [] OTHER -> env[v.name]

(* An assignment to what a pattern bound changes nothing but that. *)
After(env, st) ==
    CASE st.kind = "arm" -> env
      [] OTHER -> [env EXCEPT ![st.name] = Meaning(env, st.value)]

-----------------------------------------------------------------------------
ProgramInit ==
    /\ program \in Programs
    /\ code = << >>
    /\ pending = program.decls
    /\ executed = 0
    /\ regs = << >>
    /\ mem = [a \in {Literals[c] + CHAR_BYTES * k : c \in DOMAIN Literals, k \in -2 .. 0} |->
                 CASE \E c \in DOMAIN Literals : a = Literals[c] - STR_HEADER -> 1
                   [] \E c \in DOMAIN Literals : a = Literals[c] ->
                        CHOOSE c \in DOMAIN Literals : a = Literals[c]
                   [] OTHER -> 0]
    /\ want = [x \in {"s", "t", "e"} |-> << >>]
    /\ ArenaInit

AllStmts == ToSet(program.decls) \cup program.stmts
OwnedHere == Owned(AllStmts)

Begin(st) ==
    /\ code' = StmtCode(OwnedHere, st)
    /\ want' = After(want, st)

Declare ==
    /\ code = << >>
    /\ pending # << >>
    /\ Begin(Head(pending))
    /\ pending' = Tail(pending)
    /\ UNCHANGED <<program, executed, regs, mem, arenaVars>>

Execute ==
    /\ code = << >>
    /\ pending = << >>
    /\ executed < program.turns
    /\ \E st \in program.stmts : Begin(st)
    /\ executed' = executed + 1
    /\ UNCHANGED <<program, pending, regs, mem, arenaVars>>

-----------------------------------------------------------------------------
(* One instruction. *)
Now == Head(code)
Arg(k) == regs[Now.args[k]]
Result(p) == regs' = (Now.dst :> p) @@ regs
Write(cells) == mem' = cells @@ mem
Retired == code' = Tail(code) /\ UNCHANGED <<program, pending, executed, want>>

StrAddr ==
    /\ Now.op = "addr"
    /\ Result(Literals[Now.args[1]])
    /\ UNCHANGED <<mem, arenaVars>>

Copy ==
    /\ Now.op = "copy"
    /\ Result(Arg(1))
    /\ UNCHANGED <<mem, arenaVars>>

(* What a variant carries: read out of it, and put into it. *)
GetPayload ==
    /\ Now.op = "get"
    /\ Result(Cell(Arg(1) + STR_HEADER))
    /\ UNCHANGED <<mem, arenaVars>>

PutPayload ==
    /\ Now.op = "put"
    /\ Write(Pointer(regs[Now.dst] + STR_HEADER, Arg(1)))
    /\ UNCHANGED <<regs, arenaVars>>

NewVariant ==
    /\ Now.op = "new"
    /\ \E a \in {arena_next} \cup Bases :
          /\ Hand(ENUM_BYTES, a)
          /\ Write(Pointer(a, 0))
          /\ Result(a)

CharToStr ==
    /\ Now.op = "str"
    /\ \E a \in {arena_next} \cup Bases :
          /\ Hand(StringBytes(1), a)
          /\ Write(Header(a + STR_HEADER, 1) @@ Put(a + STR_HEADER, 0, Now.args[1]))
          /\ Result(a + STR_HEADER)

ConcatBytes(l, r) == StringBytes(Count(l) + Count(r))

Join(l, r) ==
    \E a \in {arena_next} \cup Bases :
        /\ Hand(ConcatBytes(l, r), a)
        /\ LET p == a + STR_HEADER
           IN  /\ Write(Header(p, Count(l) + Count(r)) @@ Chars(p, Text(l) \o Text(r)))
               /\ Result(p)

Concat == Now.op = "concat" /\ Join(Arg(1), Arg(2))

-----------------------------------------------------------------------------
(* `append`: when the accumulator s grows where it stands, by t. *)
IsLast(s) == BlockEnd(s) = arena_next
(* Mutant: anything that follows the accumulator may be consumed. *)
ConsumableAnyway(s, t, own) == t - STR_HEADER = BlockEnd(s) /\ BlockEnd(t) = arena_next
Consumable(s, t, own) ==
    /\ own
    /\ t - STR_HEADER = BlockEnd(s)
    /\ BlockEnd(t) = arena_next
GrowsInPlace(s, t, own) ==
    /\ IsLast(s) \/ Consumable(s, t, own)
    /\ InCurrentChunk(BlockOf(s))
    /\ Fits(BlockOf(s), StringBytes(Count(s) + Count(t)))

(* The characters are copied forward, one at a time, over what may be their *)
(* own source; the count comes last.                                        *)
Copied(s, t) ==
    LET step(m, k) == Put(s, Count(s) + k, m[t + CHAR_BYTES * k]) @@ m
    IN  FoldLeft(step, mem, [k \in 1 .. Count(t) |-> k - 1])

AppendInPlace(s, t) ==
    /\ IF IsLast(s) THEN Grow(BlockOf(s), StringBytes(Count(s) + Count(t)))
                    ELSE Absorb(BlockOf(s), BlockOf(t), StringBytes(Count(s) + Count(t)))
    /\ mem' = Header(s, Count(s) + Count(t)) @@ Copied(s, t)
    /\ Result(s)

AppendTo ==
    /\ Now.op = "append"
    /\ IF GrowsInPlace(Arg(1), Arg(2), Now.own)
       THEN AppendInPlace(Arg(1), Arg(2))
       ELSE Join(Arg(1), Arg(2))

(* The allocation an instruction needs cannot be had. *)
Wanted ==
    CASE Now.op = "new" -> ENUM_BYTES
      [] Now.op = "str" -> StringBytes(1)
      [] OTHER -> ConcatBytes(Arg(1), Arg(2))
Abort ==
    /\ Now.op \in {"new", "str", "concat", "append"}
    /\ Now.op = "append" => ~GrowsInPlace(Arg(1), Arg(2), Now.own)
    /\ OutOfMemory(Wanted)
    /\ UNCHANGED progVars

Step ==
    /\ ~aborted
    /\ code # << >>
    /\ \/ Abort
       \/ /\ \/ StrAddr \/ Copy \/ GetPayload \/ PutPayload
             \/ NewVariant \/ CharToStr \/ Concat \/ AppendTo
          /\ Retired

Returned ==
    /\ aborted \/ (code = << >> /\ pending = << >> /\ executed = program.turns)
    /\ UNCHANGED allVars

ProgramNext == Declare \/ Execute \/ Step \/ Returned

ProgramSpec == ProgramInit /\ [][ProgramNext]_allVars

-----------------------------------------------------------------------------
Between == code = << >> /\ pending = << >>
Held(x) == IF x = "e" THEN Cell(regs[<<"e">>] + STR_HEADER) ELSE regs[<<x>>]

(* docs/architecture.md: only how much memory a loop leaves behind changes, *)
(* never what it computes.  Between two statements every variable holds the *)
(* characters its assignments gave it, whatever was appended in place.      *)
StringsKeepTheirValue == Between => \A x \in {"s", "t", "e"} : Text(Held(x)) = want[x]

(* `owned_strings`: a variable it names holds a string of the arena that    *)
(* nothing else is holding.  (One put into an enum is named too, and is not *)
(* alone; it keeps its characters all the same, because the enum's block    *)
(* comes after the string and so keeps it from growing where it stands.)    *)
OwnedAlone ==
    Between => \A x \in OwnedHere, y \in {"s", "t", "e"} :
        x # y /\ SetEnum(Var(x)) \notin AllStmts /\ Held(x) = Held(y) =>
            \E c \in DOMAIN Literals : Held(x) = Literals[c]

(* Every routine works within the arena's rules: the block an append works  *)
(* out from its string's length is the block the arena handed out.          *)
P_KeepsArena == ArenaSpec

(* A loop whose one statement adds to an owned string leaves a bounded       *)
(* number of blocks behind in each chunk, however often it turns: what it    *)
(* leaves is linear in what it builds.                                       *)
Builds == \E st \in program.stmts :
    program.stmts = {st} /\ st.kind = "assign" /\ IsAppendChain(OwnedHere, st.name, st.value)
LeftBehind(ch) ==
    {k \in blocks : /\ ch.base <= k.start /\ k.end <= ch.base + ch.size
                    /\ \A x \in {"s", "t", "e"} : k.start # Held(x) - STR_HEADER}
GrowthIsLinear == Between /\ Builds => \A ch \in chunks : Cardinality(LeftBehind(ch)) <= 4
=============================================================================
