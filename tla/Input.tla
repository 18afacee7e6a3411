------------------------------- MODULE Input -------------------------------
(***************************************************************************)
(* read_line() and eof() as the runtime emits them                         *)
(* (src/src/codegen/x64/runtime.rs, linux.rs, windows.rs): a buffer that   *)
(* is refilled when it has run dry, a byte order mark that is dropped, a   *)
(* decoder of UTF-8 that may run dry in the middle of a character, and     *)
(* lines.                                                                  *)
(*                                                                         *)
(* What stdin holds is a sequence of units: bytes, or, on a console of     *)
(* Windows, characters that are turned into bytes as they arrive.  A read  *)
(* answers any number of them that there is room for, with one exception:  *)
(* the first read of a marked input does not end within the mark.          *)
(***************************************************************************)
EXTENDS Integers, Sequences, SequencesExt, FiniteSets, FiniteSetsExt

CONSTANTS
    Sources,        \* what stdin may hold, see Source
    INPUT_BYTES,    \* the size of the buffer
    INPUT_WCHARS    \* how many characters are asked of a console

VARIABLES
    source,     \* what stdin held at the start
    left,       \* its units that have not arrived
    waiting,    \* INPUT[INPUT_POS ..]: bytes that arrived and were not taken
    first_read, \* FIRST_READ: whether there was a read that brought something
    done,       \* INPUT_DONE: whether Ctrl+Z was seen
    at,         \* who waits for a byte: see TypeOK
    partial,    \* the character being decoded
    owed,       \* how many bytes of it are still to come
    least,      \* the least value that may be encoded in as many bytes
    line,       \* the characters of the line being read
    lines,      \* the lines read_line has answered
    answer,     \* what eof() answered, if nothing was read since
    stopped     \* why the program was stopped

decoder == <<partial, owed, least>>
buffer == <<left, waiting, first_read, done>>
vars == <<source, buffer, at, decoder, line, lines, answer, stopped>>

NEWLINE == 10
RETURN == 13
CTRL_Z == 26
MARK == 65279

-----------------------------------------------------------------------------
(* UTF-8: the bytes of a character, and of one in n bytes, right or wrong.  *)
Trail(c) == 128 + (c % 64)
EncodeIn(n, c) ==
    CASE n = 1 -> <<c>>
      [] n = 2 -> <<192 + c \div 64, Trail(c)>>
      [] n = 3 -> <<224 + c \div 4096, Trail(c \div 64), Trail(c)>>
      [] n = 4 -> <<240 + c \div 262144, Trail(c \div 4096), Trail(c \div 64), Trail(c)>>
Utf8(c) ==
    EncodeIn(IF c < 128 THEN 1 ELSE IF c < 2048 THEN 2 ELSE IF c < 65536 THEN 3 ELSE 4, c)
Bytes(text) == FlattenSeq([k \in DOMAIN text |-> Utf8(text[k])])

(* What stdin holds: a mark or not (never on a console), a text, and, if     *)
(* not empty, bytes that spell no character.                                *)
Source(console, mark, text, tail) ==
    [console |-> console, mark |-> mark, text |-> text, tail |-> tail]
Byte == 0 .. 255
Surrogate(c) == 55296 <= c /\ c <= 57343
IsCharacter(c) == c \in Nat /\ c <= 1114111 /\ ~Surrogate(c)
SourceType == [console : BOOLEAN, mark : BOOLEAN, text : Seq(Nat), tail : Seq(Byte)]

(* The number in the bits that bytes have for one. *)
BitsOf(bytes) ==
    CASE Len(bytes) = 1 -> bytes[1]
      [] Len(bytes) = 2 -> ((bytes[1] % 32) * 64) + (bytes[2] % 64)
      [] Len(bytes) = 3 -> ((((bytes[1] % 16) * 64) + (bytes[2] % 64)) * 64) + (bytes[3] % 64)
      [] Len(bytes) = 4 ->
            ((((((bytes[1] % 8) * 64) + (bytes[2] % 64)) * 64) + (bytes[3] % 64)) * 64) + (bytes[4] % 64)
StartsWithText(bytes) ==
    \E n \in 1 .. 4 :
        /\ n <= Len(bytes)
        /\ LET c == BitsOf(SubSeq(bytes, 1, n))
           IN  IsCharacter(c) /\ Utf8(c) = SubSeq(bytes, 1, n)

(* A character of a console takes up to three bytes of the buffer, and a    *)
(* text that begins with a mark counts as marked.                           *)
ASSUME SourcesAreInput ==
    /\ INPUT_BYTES \in Nat /\ INPUT_WCHARS \in Nat
    /\ 3 * INPUT_WCHARS <= INPUT_BYTES
    /\ \A src \in Sources :
          /\ src \in SourceType
          /\ \A k \in DOMAIN src.text : IsCharacter(src.text[k])
          /\ ~StartsWithText(src.tail)
          /\ src.text # << >> /\ src.text[1] = MARK => src.mark
          /\ src.console => /\ ~src.mark /\ src.tail = << >>
                            /\ \A k \in DOMAIN src.text : src.text[k] < 65536
Marked(src) == IF src.mark THEN <<MARK>> ELSE << >>
Units(src) ==
    IF src.console THEN [k \in DOMAIN src.text |-> Utf8(src.text[k])]
    ELSE LET all == Bytes(Marked(src) \o src.text) \o src.tail
         IN  [k \in DOMAIN all |-> <<all[k]>>]

-----------------------------------------------------------------------------
Init ==
    /\ source \in Sources
    /\ left = Units(source)
    /\ waiting = << >>
    /\ first_read = FALSE
    /\ done = FALSE
    /\ at = "program"
    /\ partial = 0 /\ owed = 0 /\ least = 0
    /\ line = << >>
    /\ lines = << >>
    /\ answer = "unknown"
    /\ stopped = "no"

Running == stopped = "no"

Stop(why) ==
    /\ stopped' = why
    /\ UNCHANGED <<at, decoder, line, lines, answer>>

-----------------------------------------------------------------------------
(* READY, when a byte is wanted and none is waiting. *)
RunDry == Running /\ at # "program" /\ waiting = << >>

Room == IF source.console THEN INPUT_WCHARS ELSE INPUT_BYTES
Arrivals ==
    {n \in 1 .. Len(left) : n <= Room /\ (source.mark /\ ~first_read => n >= 3)}

(* Ctrl+Z arrives from a console as a character. *)
IsEnd(unit) == source.console /\ unit = <<CTRL_Z>>
Ends(units) == {k \in DOMAIN units : IsEnd(units[k])}
Declared(units) == Ends(units) # {}
(* Mutant: what follows it is input as well. *)
BeforeAndAfter(units) == SelectSeq(units, LAMBDA unit : ~IsEnd(unit))
Before(units) ==
    IF Declared(units) THEN SubSeq(units, 1, Min(Ends(units)) - 1) ELSE units

(* Mutant: every read may. *)
HasMarkAlways(bytes) == Len(bytes) >= 3 /\ SubSeq(bytes, 1, 3) = Utf8(MARK)
(* The first read may bring a byte order mark. *)
HasMark(bytes) == ~first_read /\ Len(bytes) >= 3 /\ SubSeq(bytes, 1, 3) = Utf8(MARK)
Unmarked(bytes) == IF HasMark(bytes) THEN SubSeq(bytes, 4, Len(bytes)) ELSE bytes

(* `refill`, when the read brings something.  One that brought a mark and    *)
(* nothing else leaves nothing waiting, and another read follows.            *)
Refill ==
    /\ RunDry
    /\ ~done
    /\ \E n \in Arrivals :
          LET units == SubSeq(left, 1, n)
              bytes == FlattenSeq(Before(units))
          IN  /\ bytes # << >>
              /\ left' = SubSeq(left, n + 1, Len(left))
              /\ done' = Declared(units)
              /\ waiting' = Unmarked(bytes)
              /\ first_read' = TRUE
    /\ UNCHANGED <<source, at, decoder, line, lines, answer, stopped>>

(* A refusal to read. *)
InputFailed ==
    /\ RunDry
    /\ ~done
    /\ Stop("failed")
    /\ UNCHANGED <<source, buffer>>

-----------------------------------------------------------------------------
(* `read_line`: the ending. *)
WithoutReturn(chars) ==
    IF chars # << >> /\ Last(chars) = RETURN THEN Front(chars) ELSE chars

EndLine ==
    /\ lines' = Append(lines, WithoutReturn(line))
    /\ line' = << >>
    /\ at' = "program"
    /\ answer' = "unknown"

(* A character that is complete goes into the line, if it is one. *)
(* Mutant: the least value is one too great. *)
OverlongToo(c, min) == c <= min
Overlong(c, min) == c < min
Scalar(c, min) == ~Overlong(c, min) /\ c <= 1114111 /\ ~Surrogate(c)

Push(c) ==
    /\ line' = Append(line, c)
    /\ at' = "more"
    /\ UNCHANGED <<decoder, lines, answer, stopped>>

(* Which of the forms this is, read off the lead byte. *)
Lead(bits, n, min) ==
    /\ partial' = bits
    /\ owed' = n
    /\ least' = min
    /\ at' = "continuation"
    /\ UNCHANGED <<line, lines, answer, stopped>>

(* `utf8_decode`, from the first byte of a character. *)
Starts(b) ==
    CASE b < 128 -> Push(b)
      [] b \div 32 = 6 -> Lead(b % 32, 1, 128)
      [] b \div 16 = 14 -> Lead(b % 16, 2, 2048)
      [] b \div 8 = 30 -> Lead(b % 8, 3, 65536)
      [] OTHER -> Stop("bad_utf8")

Continues(b) ==
    LET c == (partial * 64) + (b % 64)
    IN  CASE b \div 64 # 2 -> Stop("bad_utf8")
          [] b \div 64 = 2 /\ owed > 1 ->
                /\ partial' = c
                /\ owed' = owed - 1
                /\ UNCHANGED <<at, least, line, lines, answer, stopped>>
          [] b \div 64 = 2 /\ owed = 1 -> IF Scalar(c, least) THEN Push(c) ELSE Stop("bad_utf8")

(* NEXT_BYTE takes one. *)
Take ==
    /\ Running
    /\ at \in {"first", "more", "continuation"}
    /\ waiting # << >>
    /\ waiting' = Tail(waiting)
    /\ LET b == Head(waiting)
       IN  CASE at = "continuation" -> Continues(b)
             [] at # "continuation" /\ b = NEWLINE -> EndLine /\ UNCHANGED <<decoder, stopped>>
             [] at # "continuation" /\ b # NEWLINE -> Starts(b)
    /\ UNCHANGED <<source, left, first_read, done>>

(* NEXT_BYTE has none: nothing is left, or nothing is asked for any more. *)
Spent ==
    CASE at = "first" -> Stop("no_input")
      [] at = "continuation" -> Stop("bad_utf8")
      [] at = "more" -> EndLine /\ UNCHANGED <<decoder, stopped>>
      [] at = "eof" -> /\ answer' = "over"
                       /\ at' = "program"
                       /\ UNCHANGED <<decoder, line, lines, stopped>>

RunOut ==
    /\ RunDry
    /\ done \/ left = << >>
    /\ Spent
    /\ UNCHANGED <<source, buffer>>

(* Ctrl+Z before anything else, in what a console answers. *)
DeclaredOver ==
    /\ RunDry
    /\ ~done
    /\ left # << >>
    /\ IsEnd(Head(left))
    /\ left' = << >>
    /\ done' = TRUE
    /\ Spent
    /\ UNCHANGED <<source, waiting, first_read>>

-----------------------------------------------------------------------------
(* What a program does with it, in any order. *)
ReadLine ==
    /\ Running
    /\ at = "program"
    /\ at' = "first"
    /\ UNCHANGED <<source, buffer, decoder, line, lines, answer, stopped>>

Eof ==
    /\ Running
    /\ at = "program"
    /\ at' = "eof"
    /\ UNCHANGED <<source, buffer, decoder, line, lines, answer, stopped>>

(* eof() finds a byte waiting, and leaves it there. *)
NotOver ==
    /\ Running
    /\ at = "eof"
    /\ waiting # << >>
    /\ at' = "program"
    /\ answer' = "more"
    /\ UNCHANGED <<source, buffer, decoder, line, lines, stopped>>

Stopped == ~Running /\ UNCHANGED vars

Next ==
    \/ Refill \/ InputFailed \/ Take \/ RunOut \/ DeclaredOver
    \/ ReadLine \/ Eof \/ NotOver \/ Stopped

Spec == Init /\ [][Next]_vars
-----------------------------------------------------------------------------
(* The text a program should see, and its lines. *)
Text ==
    LET ends == {k \in DOMAIN source.text : source.console /\ source.text[k] = CTRL_Z}
    IN  SubSeq(source.text, 1, IF ends = {} THEN Len(source.text) ELSE Min(ends) - 1)

(* A character is on line k when k - 1 newlines precede it. *)
Newlines(text, i) == Cardinality({j \in 1 .. i : text[j] = NEWLINE})
OnLine(text, k) == {i \in DOMAIN text : Newlines(text, i - 1) = k - 1 /\ text[i] # NEWLINE}
BeforeLine(text, k) == {i \in DOMAIN text : Newlines(text, i - 1) < k - 1}
LinesOf(text) ==
    [k \in 1 .. IF text = << >> THEN 0 ELSE 1 + Newlines(text, Len(text) - 1) |->
        LET before == Cardinality(BeforeLine(text, k))
        IN  WithoutReturn(SubSeq(text, before + 1, before + Cardinality(OnLine(text, k))))]

(* The lines that can be read, and, when no line can be read to its end for *)
(* the bytes that follow, what comes before those.                          *)
Readable == IF source.tail = << >> THEN LinesOf(Text) ELSE Front(LinesOf(Append(Text, 0)))
Unread ==
    LET newlines == {k \in DOMAIN Text : Text[k] = NEWLINE}
    IN  SubSeq(Text, 1 + Max({0} \cup newlines), Len(Text))

TypeOK ==
    /\ source \in SourceType
    /\ Len(waiting) <= INPUT_BYTES
    /\ first_read \in BOOLEAN /\ done \in BOOLEAN
    /\ at \in {"program", "first", "more", "continuation", "eof"}
    /\ partial \in Nat /\ owed \in 0 .. 3 /\ least \in Nat
    /\ answer \in {"unknown", "over", "more"}
    /\ stopped \in {"no", "no_input", "bad_utf8", "failed"}

(* docs/architecture.md: read_line() answers one line without its ending.    *)
(* However the input is cut into reads, inside characters, endings or       *)
(* between a mark and the text, the lines answered are those of the text,    *)
(* and no read brings more bytes than the buffer has room for.               *)
ReadsTheText == TypeOK /\ IsPrefix(lines, Readable)

(* docs/architecture.md: eof() says whether anything is left, so a loop that *)
(* asks it reads every line and asks for none that is not there.             *)
EofIsHonest ==
    /\ answer = "over" => source.tail = << >> /\ lines = LinesOf(Text)
    /\ stopped = "no_input" => answer # "more" /\ source.tail = << >> /\ lines = LinesOf(Text)

(* A program is stopped over its input's bytes only for bytes that spell no  *)
(* character, and not before everything in front of them was understood.     *)
RefusesOnlyNonText ==
    stopped = "bad_utf8" => source.tail # << >> /\ lines = Readable /\ line = Unread

=============================================================================
