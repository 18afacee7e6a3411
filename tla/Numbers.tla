------------------------------ MODULE Numbers ------------------------------
(***************************************************************************)
(* Numbers and their text, as the runtime emits it                         *)
(* (src/src/codegen/x64/runtime.rs): is_int(s) and int(s), which are       *)
(* PARSE_INT asked two ways, and string(n).  Both count on the negative    *)
(* side, where every integer has its place, one digit per step.            *)
(***************************************************************************)
EXTENDS Integers, Sequences, SequencesExt

CONSTANTS
    LeastInt,       \* the integers of a register
    GreatestInt,
    DigitsRoom      \* the bytes string(n) has for digits and sign

(* The powers of ten. *)
Tens ==
    LET power[k \in 0 .. DigitsRoom] == IF k = 0 THEN 1 ELSE 10 * power[k - 1]
    IN  power

(* Every integer has its place on the negative side, and the digits of each  *)
(* leave room for the sign: "Twenty digits and a sign is the longest an int *)
(* can be".                                                                 *)
ASSUME NumbersAssumption ==
    /\ LeastInt \in Int /\ GreatestInt \in Int /\ DigitsRoom \in Nat \ {0}
    /\ LeastInt < 0 /\ 0 < GreatestInt /\ GreatestInt < -LeastInt
    /\ -LeastInt < Tens[DigitsRoom - 1]

VARIABLES
    doing,      \* the routine that runs: "is_int", "int", "string" or "nothing"; or "stopped"
    spelled,    \* r12: the text looked at, or written
    here,       \* r13: how many of its characters were looked at
    minus,      \* r14: whether there was a minus
    rax,        \* the number so far, negative
    number,     \* what int(s) answered, or string(n) was given
    digits,     \* what string(n) has written, the last digit first
    told        \* what was answered last: "nothing", "no", "yes", "number" or "text"

numbers == <<doing, spelled, here, minus, rax, number, digits, told>>

HYPHEN == 45
ZERO == 48
FitsInt(n) == n \in LeastInt .. GreatestInt

Idle ==
    /\ doing = "nothing" /\ told = "nothing"
    /\ spelled = << >> /\ here = 0 /\ minus = FALSE
    /\ rax = 0 /\ number = 0 /\ digits = << >>

-----------------------------------------------------------------------------
(* .no: is_int(s) says so, and int(s) stops the program. *)
No(who) ==
    /\ doing' = IF who = "int" THEN "stopped" ELSE "nothing"
    /\ told' = "no"
    /\ UNCHANGED number

Yes(who, n) ==
    /\ doing' = "nothing"
    /\ told' = IF who = "int" THEN "number" ELSE "yes"
    /\ number' = IF who = "int" THEN n ELSE number

(* PARSE_INT up to .digits: a text that is empty, or a minus, spells nothing. *)
Parse(who, s) ==
    /\ doing = "nothing"
    /\ spelled' = s
    /\ minus' = (s # << >> /\ s[1] = HYPHEN)
    /\ here' = IF minus' THEN 1 ELSE 0
    /\ rax' = 0
    /\ IF here' = Len(s) THEN No(who) ELSE doing' = who /\ told' = "nothing" /\ UNCHANGED number
    /\ UNCHANGED digits

(* Mutant: the digit itself may carry it over. *)
OverflowsByTen(n, d) == ~FitsInt(n * 10)
Overflows(n, d) == ~FitsInt(n * 10) \/ ~FitsInt(n * 10 - d)

(* .next, with a character to look at. *)
Digit ==
    /\ doing \in {"is_int", "int"} /\ here < Len(spelled)
    /\ LET d == spelled[here + 1] - ZERO
       IN  IF d \notin 0 .. 9 \/ Overflows(rax, d) THEN No(doing) /\ UNCHANGED <<here, rax>>
           ELSE /\ rax' = rax * 10 - d
                /\ here' = here + 1
                /\ UNCHANGED <<doing, told, number>>
    /\ UNCHANGED <<spelled, minus, digits>>

(* .complete: only the least integer has no positive twin. *)
Complete ==
    /\ doing \in {"is_int", "int"} /\ here = Len(spelled)
    /\ IF minus THEN Yes(doing, rax)
       ELSE IF FitsInt(-rax) THEN Yes(doing, -rax) ELSE No(doing)
    /\ UNCHANGED <<spelled, here, minus, rax, digits>>

-----------------------------------------------------------------------------
(* string(n), up to .next. *)
Write(n) ==
    /\ doing = "nothing"
    /\ doing' = "string"
    /\ number' = n
    /\ rax' = IF n < 0 THEN n ELSE -n
    /\ digits' = << >>
    /\ told' = "nothing"
    /\ UNCHANGED <<spelled, here, minus>>

(* One turn of .next.  Division cuts towards zero, and what remains has the   *)
(* sign of what was divided.  After the last digit the sign, and all of it  *)
(* front to back into a string.                                             *)
Tenth(n) == -((-n) \div 10)
Signed(ds) == IF number < 0 THEN Append(ds, HYPHEN) ELSE ds
WriteDigit ==
    /\ doing = "string"
    /\ rax' = Tenth(rax)
    /\ digits' = LET ds == Append(digits, ZERO - (rax - 10 * Tenth(rax)))
                 IN  IF rax' = 0 THEN Signed(ds) ELSE ds
    /\ IF rax' # 0 THEN UNCHANGED <<doing, told, spelled>>
       ELSE doing' = "nothing" /\ told' = "text" /\ spelled' = Reverse(digits')
    /\ UNCHANGED <<here, minus, number>>

-----------------------------------------------------------------------------
(* What a text says: a sign perhaps, and digits. *)
Unsigned(s) == IF s # << >> /\ s[1] = HYPHEN THEN Tail(s) ELSE s
Spells(s) == Unsigned(s) # << >> /\ \A k \in DOMAIN Unsigned(s) : Unsigned(s)[k] - ZERO \in 0 .. 9
Counted(ds) ==
    LET so[k \in 0 .. Len(ds)] == IF k = 0 THEN 0 ELSE so[k - 1] * 10 + (ds[k] - ZERO)
    IN  so
Value(s) ==
    LET n == Counted(Unsigned(s))[Len(Unsigned(s))]
    IN  IF s[1] = HYPHEN THEN -n ELSE n
IsNumber(s) == Spells(s) /\ FitsInt(Value(s))

(* docs/architecture.md: is_int(s) says whether int(s) would answer, and      *)
(* int(s) answers the number the text spells, up to both limits, or stops   *)
(* the program.  What string(n) writes fits where it is written, spells n,  *)
(* and has no zeros in front, so that int reads it back.                    *)
NumbersAreExact ==
    /\ told = "no" => ~IsNumber(spelled)
    /\ told = "yes" => IsNumber(spelled)
    /\ told = "number" => IsNumber(spelled) /\ number = Value(spelled)
    /\ doing = "stopped" => ~IsNumber(spelled)
    /\ Len(digits) <= DigitsRoom
    /\ told = "text" => /\ IsNumber(spelled) /\ Value(spelled) = number
                        /\ Unsigned(spelled)[1] = ZERO => number = 0 /\ Len(spelled) = 1
=============================================================================
