---------------------------- MODULE InputProofs ----------------------------
(***************************************************************************)
(* Proofs about Numbers, for integers of every width: what is_int, int and  *)
(* string answer is what the text says, whichever client runs them.        *)
(*                                                                         *)
(* Then about Input and NumericInput, for every text on stdin, every way    *)
(* to cut it into reads and every size of the buffer that has room for     *)
(* what a read may bring.                                                  *)
(*                                                                         *)
(* The invariant says where in the text a program is: n characters of it   *)
(* were taken, k bytes of the one after those were decoded, the line that   *)
(* is read begins behind the s-th character, and what is waiting and what  *)
(* has not arrived are the bytes of the rest, in order and none twice.     *)
(***************************************************************************)
EXTENDS NumericInput, SequenceFacts

-----------------------------------------------------------------------------
(* The powers of ten. *)
LEMMA TensAre ==
  /\ Tens \in [0 .. DigitsRoom -> Nat]
  /\ Tens[0] = 1
  /\ \A k \in 1 .. DigitsRoom : Tens[k] = 10 * Tens[k - 1]
<1> DEFINE n == DigitsRoom
           step == [k \in 1 .. n |-> [x \in Nat |-> 10 * x]]
           F(g) == [k \in 0 .. n |-> IF k = 0 THEN 1 ELSE 10 * g[k - 1]]
<1>1. n \in Nat
  BY NumbersAssumption
<1>2. step \in [1 .. n -> [Nat -> Nat]]
  OBVIOUS
<1>3. PICK g \in [0 .. n -> Nat] : g[0] = 1 /\ \A k \in 1 .. n : g[k] = step[k][g[k - 1]]
  <2> HIDE DEF step, n
  <2>1. Solutions(n, Nat, 1, step) # {}
    BY <1>1, <1>2, Recursion
  <2> QED
    BY <2>1 DEF Solutions
<1>4. \A k \in 1 .. n : g[k] = 10 * g[k - 1]
  <2> TAKE k \in 1 .. n
  <2>1. k - 1 \in 0 .. n
    BY <1>1
  <2>2. g[k - 1] \in Nat
    BY <2>1
  <2>3. step[k][g[k - 1]] = 10 * g[k - 1]
    BY <2>2
  <2> HIDE DEF step
  <2> QED
    BY <1>3, <2>3
<1>5. g = F(g)
  <2> HIDE DEF n
  <2>1. \A k \in 0 .. n : g[k] = IF k = 0 THEN 1 ELSE 10 * g[k - 1]
    BY <1>1, <1>3, <1>4
  <2> QED
    BY <2>1
<1>6. Tens = CHOOSE h : h = F(h)
  BY DEF Tens
<1> DEFINE E == Tens
<1>7. E = F(E)
  BY <1>5, <1>6
<1> HIDE DEF E, n
<1>8. E[0] = 1 /\ \A k \in 1 .. n : E[k] = 10 * E[k - 1]
  BY <1>1, <1>7
<1>9. E \in [0 .. n -> Nat]
  <2> DEFINE S == {k \in 0 .. n : E[k] \in Nat}
  <2>1. 0 \in S
    BY <1>1, <1>8
  <2>2. ASSUME NEW k \in 0 .. n - 1, k \in S PROVE k + 1 \in S
    <3>1. k + 1 \in 1 .. n /\ k + 1 - 1 = k
      BY <1>1
    <3>2. E[k + 1] = 10 * E[k]
      BY <1>8, <3>1
    <3> QED
      BY <1>1, <2>2, <3>1, <3>2
  <2>3. \A k \in 0 .. n : k \in S
    <3> HIDE DEF S
    <3> QED
      BY <1>1, <2>1, <2>2, UpTo
  <2> QED
    BY <1>7, <2>3
<1> QED
  BY <1>8, <1>9 DEF E, n

(* What the digits so far count, one digit after the other. *)
LEMMA CountedIs ==
  ASSUME NEW ds \in Seq(Int)
  PROVE  /\ Counted(ds) \in [0 .. Len(ds) -> Int]
         /\ Counted(ds)[0] = 0
         /\ \A k \in 1 .. Len(ds) : Counted(ds)[k] = Counted(ds)[k - 1] * 10 + (ds[k] - ZERO)
<1> DEFINE n == Len(ds)
           step == [k \in 1 .. n |-> [x \in Int |-> x * 10 + (ds[k] - ZERO)]]
           F(g) == [k \in 0 .. n |-> IF k = 0 THEN 0 ELSE g[k - 1] * 10 + (ds[k] - ZERO)]
<1>1. n \in Nat /\ ZERO \in Int /\ \A k \in 1 .. n : ds[k] \in Int
  BY DEF ZERO
<1>2. step \in [1 .. n -> [Int -> Int]]
  BY <1>1
<1>3. PICK g \in [0 .. n -> Int] : g[0] = 0 /\ \A k \in 1 .. n : g[k] = step[k][g[k - 1]]
  <2> DEFINE V == Int
  <2>0. 0 \in V /\ step \in [1 .. n -> [V -> V]]
    BY <1>2
  <2> HIDE DEF step, n, V
  <2>1. Solutions(n, V, 0, step) # {}
    BY <1>1, <2>0, Recursion
  <2> QED
    BY <2>1 DEF Solutions, V
<1>4. \A k \in 1 .. n : g[k] = g[k - 1] * 10 + (ds[k] - ZERO)
  <2> TAKE k \in 1 .. n
  <2>1. k - 1 \in 0 .. n
    BY <1>1
  <2>2. g[k - 1] \in Int
    BY <2>1
  <2>3. step[k][g[k - 1]] = g[k - 1] * 10 + (ds[k] - ZERO)
    BY <2>2
  <2> HIDE DEF step
  <2> QED
    BY <1>3, <2>3
<1>5. g = F(g)
  <2> HIDE DEF n
  <2>1. \A k \in 0 .. n : g[k] = IF k = 0 THEN 0 ELSE g[k - 1] * 10 + (ds[k] - ZERO)
    BY <1>1, <1>3, <1>4
  <2> QED
    BY <2>1
<1>6. Counted(ds) = CHOOSE h : h = F(h)
  BY DEF Counted
<1> DEFINE E == Counted(ds)
<1>7. E = F(E)
  BY <1>5, <1>6
<1> HIDE DEF E, n
<1>8. E[0] = 0 /\ \A k \in 1 .. n : E[k] = E[k - 1] * 10 + (ds[k] - ZERO)
  BY <1>1, <1>7
<1>9. E \in [0 .. n -> Int]
  <2> DEFINE S == {k \in 0 .. n : E[k] \in Int}
  <2>1. 0 \in S
    BY <1>1, <1>8
  <2>2. ASSUME NEW k \in 0 .. n - 1, k \in S PROVE k + 1 \in S
    <3>1. k + 1 \in 1 .. n /\ k + 1 - 1 = k
      BY <1>1
    <3>2. E[k + 1] = E[k] * 10 + (ds[k + 1] - ZERO)
      BY <1>8, <3>1
    <3>3. E[k] \in Int /\ ds[k + 1] \in Int /\ k + 1 \in 0 .. n
      BY <1>1, <2>2, <3>1
    <3> DEFINE x == E[k]
               d == ds[k + 1]
    <3>4. x * 10 + (d - ZERO) \in Int
      <4>1. x \in Int /\ d \in Int /\ ZERO \in Int
        BY <1>1, <3>3
      <4> HIDE DEF x, d
      <4> QED
        BY <4>1
    <3> QED
      BY <3>2, <3>3, <3>4
  <2>3. \A k \in 0 .. n : k \in S
    <3> HIDE DEF S
    <3> QED
      BY <1>1, <2>1, <2>2, UpTo
  <2> QED
    BY <1>7, <2>3
<1> QED
  BY <1>8, <1>9 DEF E, n

(* Digits only make a number greater. *)
LEMMA CountedGrows ==
  ASSUME NEW ds \in Seq(Int), \A k \in 1 .. Len(ds) : ds[k] - ZERO \in 0 .. 9,
         NEW m \in 0 .. Len(ds)
  PROVE  /\ Counted(ds)[m] \in Nat
         /\ Counted(ds)[m] <= Counted(ds)[Len(ds)]
<1> DEFINE C == Counted(ds)
           n == Len(ds)
           S == {k \in 0 .. n : C[k] >= 0 /\ (m <= k => C[m] <= C[k])}
<1>1. /\ n \in Nat /\ C \in [0 .. n -> Int] /\ C[0] = 0
      /\ \A k \in 1 .. n : C[k] = C[k - 1] * 10 + (ds[k] - ZERO)
      /\ \A k \in 1 .. n : ds[k] - ZERO \in 0 .. 9
  BY CountedIs
<1> HIDE DEF C
<1> HIDE DEF n
<1>a. m \in 0 .. n
  BY DEF n
<1>2. 0 \in S
  <2>1. m <= 0 => m = 0
    BY <1>1, <1>a
  <2> QED
    BY <1>1, <2>1
<1>3. ASSUME NEW k \in 0 .. n - 1, k \in S PROVE k + 1 \in S
  <2>1. k + 1 \in 1 .. n /\ k + 1 - 1 = k /\ k \in 0 .. n
    BY <1>1
  <2>2. C[k + 1] = C[k] * 10 + (ds[k + 1] - ZERO) /\ ds[k + 1] - ZERO \in 0 .. 9
    BY <1>1, <2>1
  <2>3. C[k] \in Int /\ C[k + 1] \in Int /\ C[m] \in Int /\ C[k] >= 0
    BY <1>1, <1>3, <1>a, <2>1
  <2>4. C[k + 1] >= C[k]
    <3> DEFINE d == ds[k + 1] - ZERO
    <3>1. d \in 0 .. 9 /\ C[k + 1] = C[k] * 10 + d
      BY <2>2
    <3> HIDE DEF d
    <3> QED
      BY <2>3, <3>1
  <2>5. m <= k + 1 => m <= k \/ m = k + 1
    BY <1>1, <1>a
  <2> QED
    BY <1>3, <2>1, <2>3, <2>4, <2>5
<1>4. \A k \in 0 .. n : k \in S
  <2> HIDE DEF S
  <2> QED
    BY <1>1, <1>2, <1>3, UpTo
<1> QED
  BY <1>1, <1>4, <1>a DEF C, n

(* What is left of a text without its sign. *)
SignOf(s) == IF s # << >> /\ s[1] = HYPHEN THEN 1 ELSE 0
IsDigit(c) == c - ZERO \in 0 .. 9

(* What is behind the sign. *)
LEMMA UnsignedIs ==
  ASSUME NEW s \in Seq(Int)
  PROVE  /\ SignOf(s) \in {0, 1} /\ SignOf(s) <= Len(s)
         /\ Unsigned(s) \in Seq(Int)
         /\ Len(Unsigned(s)) = Len(s) - SignOf(s)
         /\ \A k \in 1 .. Len(s) - SignOf(s) : Unsigned(s)[k] = s[k + SignOf(s)]
<1>1. CASE s # << >> /\ s[1] = HYPHEN
  <2>1. Unsigned(s) = Tail(s) /\ SignOf(s) = 1 /\ Len(s) \in Nat /\ Len(s) # 0
    BY <1>1 DEF Unsigned, SignOf
  <2> QED
    BY <2>1
<1>2. CASE ~(s # << >> /\ s[1] = HYPHEN)
  <2>1. Unsigned(s) = s /\ SignOf(s) = 0 /\ Len(s) \in Nat
    BY <1>2 DEF Unsigned, SignOf
  <2> QED
    BY <2>1
<1> QED
  BY <1>1, <1>2

(* What a text says, by its sign and its digits. *)
LEMMA SpellingIs ==
  ASSUME NEW s \in Seq(Int)
  PROVE  /\ Spells(s) <=> /\ SignOf(s) < Len(s)
                          /\ \A k \in 1 .. Len(Unsigned(s)) : IsDigit(Unsigned(s)[k])
         /\ Spells(s) => Value(s) = IF SignOf(s) = 1 THEN -Counted(Unsigned(s))[Len(Unsigned(s))]
                                     ELSE Counted(Unsigned(s))[Len(Unsigned(s))]
<1>1. /\ Unsigned(s) \in Seq(Int) /\ Len(Unsigned(s)) = Len(s) - SignOf(s)
      /\ Len(s) \in Nat /\ SignOf(s) \in {0, 1} /\ SignOf(s) <= Len(s)
  BY UnsignedIs
<1>2. Unsigned(s) # << >> <=> SignOf(s) < Len(s)
  BY <1>1
<1>3. DOMAIN Unsigned(s) = 1 .. Len(Unsigned(s))
  BY <1>1
<1>4. Spells(s) <=> /\ SignOf(s) < Len(s)
                    /\ \A k \in 1 .. Len(Unsigned(s)) : IsDigit(Unsigned(s)[k])
  BY <1>2, <1>3 DEF Spells, IsDigit
<1>5. ASSUME Spells(s) PROVE SignOf(s) = 1 <=> s[1] = HYPHEN
  BY <1>1, <1>4, <1>5 DEF SignOf
<1> QED
  BY <1>4, <1>5 DEF Value

-----------------------------------------------------------------------------
(* The numbers that are left while their last digits are written. *)
Quotients(n) ==
    LET higher[k \in 0 .. DigitsRoom] == IF k = 0 THEN n ELSE higher[k - 1] \div 10
    IN  higher
Magnitude(n) == IF n < 0 THEN -n ELSE n

(* PARSE_INT between two characters: what was looked at are digits, and they *)
(* count what is in rax, on the negative side.                              *)
Parsing(s, h, m, r) ==
    /\ m <=> SignOf(s) = 1
    /\ SignOf(s) < Len(s)
    /\ h \in SignOf(s) .. Len(s)
    /\ \A k \in 1 .. h - SignOf(s) : IsDigit(Unsigned(s)[k])
    /\ r = -Counted(Unsigned(s))[h - SignOf(s)]
    /\ FitsInt(r)

(* string(n) between two digits: they are the last ones of n, and rax is     *)
(* what is left of it.                                                      *)
Spelling(n, ds, r) ==
    /\ FitsInt(n)
    /\ Len(ds) \in 0 .. DigitsRoom - 1
    /\ r = -Quotients(Magnitude(n))[Len(ds)]
    /\ \A k \in 1 .. Len(ds) : ds[k] = ZERO + (Quotients(Magnitude(n))[k - 1] % 10)
    /\ ds # << >> => r # 0

NumbersInv ==
    /\ doing \in {"nothing", "is_int", "int", "string", "stopped"}
    /\ spelled \in Seq(Int) /\ digits \in Seq(Int)
    /\ NumbersAreExact
    /\ doing \in {"is_int", "int"} => Parsing(spelled, here, minus, rax)
    /\ doing = "string" => Spelling(number, digits, rax)

-----------------------------------------------------------------------------
(* Nothing has been asked yet. *)
LEMMA IdleIs == Idle => NumbersInv
<1>1. Len(<< >>) <= DigitsRoom
  BY NumbersAssumption
<1> QED
  BY <1>1 DEF Idle, NumbersInv, NumbersAreExact

(* What was told is forgotten when the program goes on to something else. *)
LEMMA Forgetting ==
  ASSUME NumbersInv, doing = "nothing", told' = "nothing",
         UNCHANGED <<doing, spelled, here, minus, rax, number, digits>>
  PROVE  NumbersInv'
  BY DEF NumbersInv, NumbersAreExact

(* A text is looked at: one without digits is refused at once. *)
LEMMA ParseStep ==
  ASSUME NumbersInv, NEW who \in {"is_int", "int"}, NEW s \in Seq(Int), Parse(who, s)
  PROVE  NumbersInv'
<1>1. /\ spelled' = s /\ (minus' <=> SignOf(s) = 1) /\ here' = SignOf(s) /\ rax' = 0
      /\ digits' = digits /\ Len(digits) <= DigitsRoom /\ digits \in Seq(Int)
  <2>1. /\ spelled' = s /\ minus' = (s # << >> /\ s[1] = HYPHEN) /\ here' = (IF minus' THEN 1 ELSE 0)
        /\ rax' = 0 /\ digits' = digits
    BY DEF Parse
  <2>2. Len(digits) <= DigitsRoom /\ digits \in Seq(Int)
    BY DEF NumbersInv, NumbersAreExact
  <2>3. CASE s # << >> /\ s[1] = HYPHEN
    <3>1. minus' = TRUE /\ SignOf(s) = 1
      BY <2>1, <2>3 DEF SignOf
    <3> QED
      BY <2>1, <2>2, <3>1
  <2>4. CASE ~(s # << >> /\ s[1] = HYPHEN)
    <3>1. minus' = FALSE /\ SignOf(s) = 0
      BY <2>1, <2>4 DEF SignOf
    <3>2. (minus' <=> SignOf(s) = 1)
      BY <3>1
    <3>3. here' = 0
      BY <2>1, <3>1
    <3> QED
      BY <2>1, <2>2, <3>1, <3>2, <3>3
  <2> QED
    BY <2>3, <2>4
<1>2. Unsigned(s) \in Seq(Int) /\ SignOf(s) \in {0, 1} /\ SignOf(s) <= Len(s) /\ Len(s) \in Nat
  BY UnsignedIs
<1>3. CASE here' = Len(s)
  <2>1. ~IsNumber(s)
    <3>1. ~(SignOf(s) < Len(s))
      BY <1>1, <1>2, <1>3
    <3> QED
      BY <3>1, SpellingIs DEF IsNumber
  <2>2. No(who)
    BY <1>3 DEF Parse
  <2> QED
    BY <1>1, <2>1, <2>2 DEF No, NumbersInv, NumbersAreExact
<1>4. CASE here' # Len(s)
  <2>1. doing' = who /\ told' = "nothing" /\ number' = number
    BY <1>4 DEF Parse
  <2>2. Counted(Unsigned(s))[0] = 0
    BY <1>2, CountedIs
  <2>3. Parsing(s, SignOf(s), minus', 0)
    <3>1. SignOf(s) - SignOf(s) = 0 /\ SignOf(s) < Len(s) /\ SignOf(s) \in SignOf(s) .. Len(s)
      BY <1>1, <1>2, <1>4
    <3>2. 0 \in LeastInt .. GreatestInt
      BY NumbersAssumption
    <3>3. 0 = -Counted(Unsigned(s))[SignOf(s) - SignOf(s)]
      BY <2>2, <3>1
    <3>4. 1 .. SignOf(s) - SignOf(s) = {}
      BY <1>2
    <3> QED
      BY <1>1, <3>1, <3>2, <3>3, <3>4 DEF Parsing, FitsInt
  <2> QED
    BY <1>1, <2>1, <2>3 DEF NumbersInv, NumbersAreExact
<1> QED
  BY <1>3, <1>4

(* One more digit, or what shows that the text is no number. *)
LEMMA DigitStep ==
  ASSUME NumbersInv, Digit
  PROVE  NumbersInv'
<1> DEFINE U == Unsigned(spelled)
           C == Counted(U)
           off == SignOf(spelled)
           d == spelled[here + 1] - ZERO
           k == here - off
<1>1. /\ doing \in {"is_int", "int"} /\ here < Len(spelled)
      /\ UNCHANGED <<spelled, minus, digits>>
      /\ IF d \notin 0 .. 9 \/ Overflows(rax, d) THEN No(doing) /\ UNCHANGED <<here, rax>>
         ELSE /\ rax' = rax * 10 - d
              /\ here' = here + 1
              /\ UNCHANGED <<doing, told, number>>
  BY DEF Digit
<1>2. /\ spelled \in Seq(Int) /\ digits \in Seq(Int) /\ Len(digits) <= DigitsRoom
      /\ Parsing(spelled, here, minus, rax)
  BY <1>1 DEF NumbersInv, NumbersAreExact
<1>3. /\ U \in Seq(Int) /\ off \in {0, 1} /\ Len(U) = Len(spelled) - off /\ Len(spelled) \in Nat
      /\ \A j \in 1 .. Len(spelled) - off : U[j] = spelled[j + off]
  BY <1>2, UnsignedIs
<1>4. /\ C \in [0 .. Len(U) -> Int] /\ C[0] = 0
      /\ \A j \in 1 .. Len(U) : C[j] = C[j - 1] * 10 + (U[j] - ZERO)
  BY <1>3, CountedIs
<1>5. /\ here \in off .. Len(spelled) /\ rax = -C[k] /\ FitsInt(rax)
      /\ (minus <=> off = 1) /\ off < Len(spelled)
      /\ \A j \in 1 .. k : IsDigit(U[j])
  BY <1>2 DEF Parsing
<1> HIDE DEF U, C, off
<1>6. /\ k \in 0 .. Len(U) - 1 /\ k + 1 \in 1 .. Len(U) /\ k + 1 - 1 = k
      /\ Len(U) \in Nat /\ here + 1 = k + 1 + off
  BY <1>1, <1>3, <1>5
<1>7. U[k + 1] = spelled[here + 1] /\ d = U[k + 1] - ZERO
  <2>1. k + 1 \in 1 .. Len(spelled) - off
    BY <1>3, <1>6
  <2>2. U[k + 1] = spelled[k + 1 + off]
    BY <1>3, <2>1
  <2> HIDE DEF k
  <2> QED
    BY <1>6, <2>2
<1>8. C[k + 1] = C[k] * 10 + d /\ C[k] \in Int /\ C[k + 1] \in Int
  BY <1>4, <1>6, <1>7
<1>9. CASE d \notin 0 .. 9
  <2>1. ~IsDigit(U[k + 1])
    BY <1>7, <1>9 DEF IsDigit
  <2>2. ~IsNumber(spelled)
    BY <1>2, <1>6, <2>1, SpellingIs DEF IsNumber, U
  <2> QED
    BY <1>1, <1>2, <1>9, <2>2 DEF No, NumbersInv, NumbersAreExact
<1>10. CASE d \in 0 .. 9 /\ Overflows(rax, d)
  <2>1. d \in Int /\ C[k] \in Int /\ rax = -C[k]
    BY <1>5, <1>8, <1>10
  <2>2. ASSUME Spells(spelled) PROVE ~FitsInt(Value(spelled))
    <3>1. \A j \in 1 .. Len(U) : U[j] - ZERO \in 0 .. 9
      BY <1>2, <2>2, SpellingIs DEF U, IsDigit
    <3>2. C[k] \in Nat /\ C[k + 1] <= C[Len(U)] /\ C[Len(U)] \in Int
      <4>1. k \in 0 .. Len(U) /\ k + 1 \in 0 .. Len(U) /\ Len(U) \in 0 .. Len(U)
        BY <1>6
      <4>2. C[k] \in Nat /\ C[k + 1] <= C[Len(U)]
        BY <1>3, <3>1, <4>1, CountedGrows DEF C
      <4> QED
        BY <1>4, <4>1, <4>2
    <3>3. C[k + 1] > -LeastInt
      <4> DEFINE c == C[k]
                 e == C[k + 1]
      <4>1. /\ c \in Nat /\ e = c * 10 + d /\ d \in 0 .. 9
            /\ ~((-c) * 10 \in LeastInt .. GreatestInt) \/ ~((-c) * 10 - d \in LeastInt .. GreatestInt)
        BY <1>8, <1>10, <2>1, <3>2 DEF Overflows, FitsInt
      <4> HIDE DEF c, e, d
      <4>2. (-c) * 10 <= 0 /\ (-c) * 10 - d <= 0 /\ (-c) * 10 \in Int /\ (-c) * 10 - d \in Int
        BY <4>1
      <4>3. (-c) * 10 - d < LeastInt
        BY <4>1, <4>2, NumbersAssumption
      <4> QED
        BY <4>1, <4>3, NumbersAssumption DEF e
    <3>4. C[Len(U)] > -LeastInt /\ C[Len(U)] > GreatestInt
      BY <1>8, <3>2, <3>3, NumbersAssumption
    <3>5. Value(spelled) = -C[Len(U)] \/ Value(spelled) = C[Len(U)]
      BY <1>2, <2>2, SpellingIs DEF U, C
    <3> DEFINE e == C[Len(U)]
    <3> HIDE DEF e
    <3>6. e \in Int /\ e > -LeastInt /\ e > GreatestInt
      BY <3>2, <3>4 DEF e
    <3>7. ~(e \in LeastInt .. GreatestInt) /\ ~(-e \in LeastInt .. GreatestInt)
      BY <3>6, NumbersAssumption
    <3> QED
      BY <3>5, <3>7 DEF e, FitsInt
  <2>3. ~IsNumber(spelled)
    BY <2>2 DEF IsNumber
  <2> QED
    BY <1>1, <1>2, <1>10, <2>3 DEF No, NumbersInv, NumbersAreExact
<1>11. CASE d \in 0 .. 9 /\ ~Overflows(rax, d)
  <2>1. /\ rax' = rax * 10 - d /\ here' = here + 1 /\ UNCHANGED <<doing, told, number>>
    BY <1>1, <1>11
  <2>2. rax * 10 - d = -C[k + 1]
    <3> DEFINE c == C[k]
    <3>1. c \in Int /\ d \in Int /\ rax = -c /\ C[k + 1] = c * 10 + d
      BY <1>5, <1>8, <1>11
    <3> HIDE DEF c, d
    <3> QED
      BY <3>1
  <2>3. FitsInt(rax * 10 - d)
    BY <1>11 DEF Overflows
  <2>4. (here + 1) - off = k + 1 /\ here + 1 \in off .. Len(spelled)
    BY <1>1, <1>3, <1>5
  <2>5. ASSUME NEW j \in 1 .. k + 1 PROVE IsDigit(U[j])
    <3>1. CASE j = k + 1
      BY <1>7, <1>11, <3>1 DEF IsDigit
    <3>2. CASE j # k + 1
      <4>1. j \in 1 .. k
        BY <1>6, <3>2
      <4> QED
        BY <1>5, <4>1
    <3> QED
      BY <3>1, <3>2
  <2> DEFINE r == rax * 10 - d
             h == here + 1
  <2>6. Parsing(spelled, h, minus, r)
    <3>1. r = -C[h - off] /\ FitsInt(r) /\ h \in off .. Len(spelled)
      BY <2>2, <2>3, <2>4
    <3>2. \A j \in 1 .. h - off : IsDigit(U[j])
      BY <2>4, <2>5
    <3> HIDE DEF r, h, k, d
    <3> QED
      BY <1>5, <3>1, <3>2 DEF Parsing, U, C, off
  <2> QED
    BY <1>1, <1>2, <2>1, <2>6 DEF NumbersInv, NumbersAreExact
<1> QED
  BY <1>9, <1>10, <1>11

(* All of the text was digits. *)
LEMMA CompleteStep ==
  ASSUME NumbersInv, Complete
  PROVE  NumbersInv'
<1> DEFINE U == Unsigned(spelled)
           C == Counted(U)
           off == SignOf(spelled)
           c == C[Len(U)]
<1>1. /\ doing \in {"is_int", "int"} /\ here = Len(spelled)
      /\ IF minus THEN Yes(doing, rax)
         ELSE IF FitsInt(-rax) THEN Yes(doing, -rax) ELSE No(doing)
      /\ UNCHANGED <<spelled, here, minus, rax, digits>>
  BY DEF Complete
<1>2. /\ spelled \in Seq(Int) /\ digits \in Seq(Int) /\ Len(digits) <= DigitsRoom
      /\ Parsing(spelled, here, minus, rax)
  BY <1>1 DEF NumbersInv, NumbersAreExact
<1>3. U \in Seq(Int) /\ off \in {0, 1} /\ Len(U) = Len(spelled) - off /\ Len(spelled) \in Nat
  BY <1>2, UnsignedIs
<1>4. /\ here - off = Len(U) /\ rax = -c /\ FitsInt(rax)
      /\ (minus <=> off = 1) /\ off < Len(spelled)
      /\ \A j \in 1 .. Len(U) : IsDigit(U[j])
  BY <1>1, <1>2, <1>3 DEF Parsing
<1>5. c \in Int
  BY <1>3, CountedIs
<1>6. Spells(spelled) /\ Value(spelled) = IF off = 1 THEN -c ELSE c
  BY <1>2, <1>4, SpellingIs
<1>7. -rax = c
  BY <1>4, <1>5
<1> HIDE DEF U, C, off, c
<1>8. CASE minus
  <2>1. Value(spelled) = rax /\ IsNumber(spelled) /\ Yes(doing, rax)
    BY <1>1, <1>4, <1>6, <1>8 DEF IsNumber
  <2> QED
    BY <1>1, <1>2, <2>1 DEF Yes, NumbersInv, NumbersAreExact
<1>9. CASE ~minus /\ FitsInt(-rax)
  <2>1. Value(spelled) = -rax /\ IsNumber(spelled) /\ Yes(doing, -rax)
    BY <1>1, <1>4, <1>6, <1>7, <1>9 DEF IsNumber
  <2> QED
    BY <1>1, <1>2, <2>1 DEF Yes, NumbersInv, NumbersAreExact
<1>10. CASE ~minus /\ ~FitsInt(-rax)
  <2>1. ~IsNumber(spelled) /\ No(doing)
    BY <1>1, <1>4, <1>6, <1>7, <1>10 DEF IsNumber
  <2> QED
    BY <1>1, <1>2, <2>1 DEF No, NumbersInv, NumbersAreExact
<1> QED
  BY <1>8, <1>9, <1>10

-----------------------------------------------------------------------------
(* A number is ten times its tenth, and its last digit. *)
LEMMA TenthIs ==
  ASSUME NEW x \in Nat
  PROVE  x \div 10 \in Nat /\ x % 10 \in 0 .. 9 /\ x = 10 * (x \div 10) + (x % 10)
  OBVIOUS

(* What is left after each digit. *)
LEMMA QuotientsAre ==
  ASSUME NEW x \in Nat
  PROVE  /\ Quotients(x) \in [0 .. DigitsRoom -> Nat]
         /\ Quotients(x)[0] = x
         /\ \A k \in 1 .. DigitsRoom : Quotients(x)[k] = Quotients(x)[k - 1] \div 10
<1> DEFINE n == DigitsRoom
           step == [k \in 1 .. n |-> [y \in Nat |-> y \div 10]]
           F(g) == [k \in 0 .. n |-> IF k = 0 THEN x ELSE g[k - 1] \div 10]
<1>1. n \in Nat
  BY NumbersAssumption
<1>2. step \in [1 .. n -> [Nat -> Nat]]
  BY TenthIs
<1>3. PICK g \in [0 .. n -> Nat] : g[0] = x /\ \A k \in 1 .. n : g[k] = step[k][g[k - 1]]
  <2> HIDE DEF step, n
  <2>1. Solutions(n, Nat, x, step) # {}
    BY <1>1, <1>2, Recursion
  <2> QED
    BY <2>1 DEF Solutions
<1>4. \A k \in 1 .. n : g[k] = g[k - 1] \div 10
  <2> TAKE k \in 1 .. n
  <2>1. k - 1 \in 0 .. n
    BY <1>1
  <2>2. g[k - 1] \in Nat
    BY <2>1
  <2>3. step[k][g[k - 1]] = g[k - 1] \div 10
    BY <2>2
  <2> HIDE DEF step
  <2> QED
    BY <1>3, <2>3
<1>5. g = F(g)
  <2> HIDE DEF n
  <2>1. \A k \in 0 .. n : g[k] = IF k = 0 THEN x ELSE g[k - 1] \div 10
    BY <1>1, <1>3, <1>4
  <2> QED
    BY <2>1
<1>6. Quotients(x) = CHOOSE h : h = F(h)
  BY DEF Quotients
<1> DEFINE E == Quotients(x)
<1>7. E = F(E)
  BY <1>5, <1>6
<1> HIDE DEF E, n
<1>8. E[0] = x /\ \A k \in 1 .. n : E[k] = E[k - 1] \div 10
  BY <1>1, <1>7
<1>9. E \in [0 .. n -> Nat]
  <2> DEFINE S == {k \in 0 .. n : E[k] \in Nat}
  <2>1. 0 \in S
    BY <1>1, <1>8
  <2>2. ASSUME NEW k \in 0 .. n - 1, k \in S PROVE k + 1 \in S
    <3>1. k + 1 \in 1 .. n /\ k + 1 - 1 = k /\ k + 1 \in 0 .. n
      BY <1>1
    <3>2. E[k + 1] = E[k] \div 10 /\ E[k] \in Nat
      BY <1>8, <2>2, <3>1
    <3> QED
      BY <3>1, <3>2, TenthIs
  <2>3. \A k \in 0 .. n : k \in S
    <3> HIDE DEF S
    <3> QED
      BY <1>1, <2>1, <2>2, UpTo
  <2> QED
    BY <1>7, <2>3
<1> QED
  BY <1>8, <1>9 DEF E, n

(* There is room for the digits of every integer, and for a sign. *)
LEMMA RoomEnough ==
  ASSUME NEW x \in Nat, x <= -LeastInt, NEW k \in 0 .. DigitsRoom - 1
  PROVE  Quotients(x)[k] < Tens[DigitsRoom - 1 - k]
<1> DEFINE n == DigitsRoom - 1
           Q == Quotients(x)
           S == {j \in 0 .. n : Q[j] < Tens[n - j]}
<1>1. n \in Nat /\ DigitsRoom = n + 1 /\ n \in 0 .. DigitsRoom
  BY NumbersAssumption
<1>2. /\ Q \in [0 .. DigitsRoom -> Nat] /\ Q[0] = x
      /\ \A j \in 1 .. DigitsRoom : Q[j] = Q[j - 1] \div 10
  BY QuotientsAre
<1>3. /\ Tens \in [0 .. DigitsRoom -> Nat]
      /\ \A j \in 1 .. DigitsRoom : Tens[j] = 10 * Tens[j - 1]
      /\ x < Tens[n]
  <2>1. Tens[n] \in Nat
    BY <1>1, TensAre
  <2> QED
    BY <2>1, TensAre, NumbersAssumption
<1> HIDE DEF n, Q
<1>4. 0 \in S
  <2>1. n - 0 = n
    BY <1>1
  <2> QED
    BY <1>1, <1>2, <1>3, <2>1
<1>5. ASSUME NEW j \in 0 .. n - 1, j \in S PROVE j + 1 \in S
  <2>1. /\ j + 1 \in 1 .. DigitsRoom /\ (j + 1) - 1 = j /\ j \in 0 .. DigitsRoom
        /\ n - j \in 1 .. DigitsRoom /\ (n - j) - 1 = n - (j + 1) /\ n - (j + 1) \in 0 .. DigitsRoom
        /\ j + 1 \in 0 .. n
    BY <1>1
  <2>2. Q[j + 1] = Q[j] \div 10 /\ Tens[n - j] = 10 * Tens[n - (j + 1)]
    BY <1>2, <1>3, <2>1
  <2> DEFINE q == Q[j]
             t == Tens[n - (j + 1)]
  <2>3. q \in Nat /\ t \in Nat /\ q < 10 * t
    BY <1>2, <1>3, <1>5, <2>1, <2>2
  <2>4. q \div 10 < t
    <3> HIDE DEF q, t
    <3> QED
      BY <2>3
  <2> QED
    BY <2>1, <2>2, <2>4
<1>6. \A j \in 0 .. n : j \in S
  <2> HIDE DEF S
  <2> QED
    BY <1>1, <1>4, <1>5, UpTo
<1> QED
  BY <1>6 DEF n, Q

(* Read front to back, the digits count the number they were taken from. *)
LEMMA DigitsSpell ==
  ASSUME NEW x \in Nat, NEW ds \in Seq(Int), Len(ds) \in 1 .. DigitsRoom,
         \A k \in 1 .. Len(ds) : ds[k] = ZERO + (Quotients(x)[k - 1] % 10),
         Quotients(x)[Len(ds)] = 0
  PROVE  /\ Reverse(ds) \in Seq(Int) /\ Len(Reverse(ds)) = Len(ds)
         /\ Reverse(ds)[1] = ds[Len(ds)]
         /\ \A k \in 1 .. Len(ds) : IsDigit(Reverse(ds)[k])
         /\ Counted(Reverse(ds))[Len(ds)] = x
<1> DEFINE n == Len(ds)
           r == Reverse(ds)
           Q == Quotients(x)
           C == Counted(r)
           S == {k \in 0 .. n : C[k] = Q[n - k]}
<1>1. /\ n \in Nat /\ n \in 1 .. DigitsRoom /\ DigitsRoom \in Nat
      /\ \A k \in 1 .. n : ds[k] \in Int /\ ds[k] = ZERO + (Q[k - 1] % 10)
  BY NumbersAssumption
<1>2. r = [k \in 1 .. n |-> ds[n - k + 1]]
  BY DEF Reverse
<1>3. /\ Q \in [0 .. DigitsRoom -> Nat] /\ Q[0] = x /\ Q[n] = 0
      /\ \A k \in 1 .. DigitsRoom : Q[k] = Q[k - 1] \div 10
  BY QuotientsAre
<1> HIDE DEF n, Q
<1>4. \A k \in 1 .. n : n - k + 1 \in 1 .. n /\ (n - k + 1) - 1 = n - k
  BY <1>1
<1>5. r \in Seq(Int) /\ Len(r) = n /\ \A k \in 1 .. n : r[k] = ds[n - k + 1]
  <2>1. r \in [1 .. n -> Int]
    BY <1>1, <1>2, <1>4
  <2>2. r \in Seq(Int)
    BY <1>1, <2>1, SeqDef
  <2>3. Len(r) = n
    BY <1>1, <2>1, <2>2
  <2> QED
    BY <1>2, <2>2, <2>3
<1>6. /\ C \in [0 .. n -> Int] /\ C[0] = 0
      /\ \A k \in 1 .. n : C[k] = C[k - 1] * 10 + (r[k] - ZERO)
  BY <1>5, CountedIs
<1> HIDE DEF r, C
<1>7. ASSUME NEW k \in 1 .. n
      PROVE  /\ r[k] = ZERO + (Q[n - k] % 10) /\ Q[n - k] \in Nat
             /\ r[k] - ZERO = Q[n - k] % 10 /\ IsDigit(r[k])
  <2>1. r[k] = ds[n - k + 1] /\ n - k + 1 \in 1 .. n /\ (n - k + 1) - 1 = n - k
    BY <1>4, <1>5
  <2>2. r[k] = ZERO + (Q[n - k] % 10)
    BY <1>1, <2>1
  <2>3. n - k \in 0 .. DigitsRoom
    BY <1>1
  <2>4. Q[n - k] \in Nat
    BY <1>3, <2>3
  <2> DEFINE q == Q[n - k]
  <2>5. q % 10 \in 0 .. 9 /\ r[k] = 48 + (q % 10)
    BY <2>2, <2>4, TenthIs DEF ZERO
  <2>6. r[k] - 48 = q % 10
    <3> DEFINE e == q % 10
    <3>1. e \in 0 .. 9 /\ r[k] = 48 + e
      BY <2>5
    <3> HIDE DEF e
    <3> QED
      BY <3>1 DEF e
  <2> QED
    BY <2>2, <2>4, <2>5, <2>6 DEF IsDigit, ZERO
<1>8. 0 \in S
  <2>1. n - 0 = n
    BY <1>1
  <2> QED
    BY <1>1, <1>3, <1>6, <2>1
<1>9. ASSUME NEW k \in 0 .. n - 1, k \in S PROVE k + 1 \in S
  <2>1. /\ k + 1 \in 1 .. n /\ (k + 1) - 1 = k /\ n - k \in 1 .. DigitsRoom
        /\ (n - k) - 1 = n - (k + 1) /\ k + 1 \in 0 .. n
    BY <1>1
  <2> DEFINE q == Q[n - (k + 1)]
  <2>2. C[k + 1] = C[k] * 10 + (r[k + 1] - ZERO) /\ r[k + 1] - ZERO = q % 10 /\ q \in Nat
    BY <1>6, <1>7, <2>1
  <2>3. C[k] = q \div 10
    BY <1>3, <1>9, <2>1
  <2>4. C[k + 1] = q
    <3> HIDE DEF q
    <3>1. C[k + 1] = (q \div 10) * 10 + (q % 10)
      BY <2>2, <2>3
    <3> QED
      BY <2>2, <3>1, TenthIs
  <2> QED
    BY <2>1, <2>4
<1>10. \A k \in 0 .. n : k \in S
  <2> HIDE DEF S
  <2> QED
    BY <1>1, <1>8, <1>9, UpTo
<1>11. C[n] = x
  <2>1. n \in S /\ n - n = 0
    BY <1>1, <1>10
  <2> QED
    BY <1>3, <2>1
<1>12. r[1] = ds[n]
  <2>1. 1 \in 1 .. n /\ n - 1 + 1 = n
    BY <1>1
  <2> QED
    BY <1>5, <2>1
<1> QED
  BY <1>5, <1>7, <1>11, <1>12 DEF r, n, C

(* The sign is written last, and read first. *)
LEMMA SignedSpells ==
  ASSUME NEW ds \in Seq(Int), ds # << >>, Reverse(ds) \in Seq(Int), Len(Reverse(ds)) = Len(ds),
         Reverse(ds)[1] # HYPHEN
  PROVE  /\ Unsigned(Reverse(ds)) = Reverse(ds) /\ SignOf(Reverse(ds)) = 0
         /\ Reverse(Append(ds, HYPHEN)) \in Seq(Int)
         /\ Len(Reverse(Append(ds, HYPHEN))) = Len(ds) + 1
         /\ Unsigned(Reverse(Append(ds, HYPHEN))) = Reverse(ds)
         /\ SignOf(Reverse(Append(ds, HYPHEN))) = 1
<1> DEFINE n == Len(ds)
           a == Append(ds, HYPHEN)
           t == Reverse(a)
<1>1. n \in Nat /\ n # 0 /\ HYPHEN \in Int
  BY DEF HYPHEN
<1>2. a \in Seq(Int) /\ Len(a) = n + 1 /\ a[n + 1] = HYPHEN /\ \A k \in 1 .. n : a[k] = ds[k]
  BY <1>1
<1>a. \A k \in 1 .. n + 1 : a[k] \in Int
  BY <1>1, <1>2
<1> HIDE DEF a
<1>3. t = [k \in 1 .. n + 1 |-> a[(n + 1) - k + 1]]
  BY <1>2 DEF Reverse
<1>4. \A k \in 1 .. n + 1 : (n + 1) - k + 1 \in 1 .. n + 1
  BY <1>1
<1>5. t \in Seq(Int) /\ Len(t) = n + 1 /\ t[1] = HYPHEN
  <2>1. t \in [1 .. n + 1 -> Int]
    BY <1>a, <1>3, <1>4
  <2>2. t \in Seq(Int)
    BY <1>1, <2>1, SeqDef
  <2>3. Len(t) = n + 1
    BY <1>1, <2>1, <2>2
  <2>4. 1 \in 1 .. n + 1 /\ (n + 1) - 1 + 1 = n + 1
    BY <1>1
  <2> QED
    BY <1>2, <1>3, <2>2, <2>3, <2>4
<1>6. Reverse(ds) = [k \in 1 .. n |-> ds[n - k + 1]]
  BY DEF Reverse
<1>7. Tail(t) = Reverse(ds)
  <2>1. Tail(t) \in Seq(Int) /\ Len(Tail(t)) = n /\ \A k \in 1 .. n : Tail(t)[k] = t[k + 1]
    <3> HIDE DEF t
    <3> QED
      BY <1>1, <1>5
  <2>2. ASSUME NEW k \in 1 .. n PROVE Tail(t)[k] = Reverse(ds)[k]
    <3>1. k + 1 \in 1 .. n + 1 /\ (n + 1) - (k + 1) + 1 = n - k + 1 /\ n - k + 1 \in 1 .. n
      BY <1>1
    <3> HIDE DEF n
    <3>2. t[k + 1] = ds[n - k + 1]
      BY <1>2, <1>3, <3>1
    <3> HIDE DEF t
    <3> QED
      BY <1>6, <2>1, <3>2
  <2> HIDE DEF t
  <2> QED
    BY <2>1, <2>2
<1> HIDE DEF t
<1>8. t # << >> /\ Reverse(ds) # << >>
  BY <1>1, <1>5
<1> QED
  BY <1>5, <1>7, <1>8 DEF Unsigned, SignOf, a, t

-----------------------------------------------------------------------------
(* string(n) begins: nothing of n is written. *)
LEMMA WriteStep ==
  ASSUME NumbersInv, NEW n, FitsInt(n), Write(n)
  PROVE  NumbersInv'
<1>1. /\ doing' = "string" /\ number' = n /\ digits' = << >> /\ told' = "nothing"
      /\ rax' = (IF n < 0 THEN n ELSE -n) /\ spelled' = spelled
  BY DEF Write
<1>2. spelled \in Seq(Int)
  BY DEF NumbersInv
<1>3. n \in Int /\ Magnitude(n) \in Nat /\ rax' = -Magnitude(n)
  BY <1>1, NumbersAssumption DEF Magnitude, FitsInt
<1>4. Quotients(Magnitude(n))[0] = Magnitude(n)
  BY <1>3, QuotientsAre
<1>5. Spelling(n, << >>, rax')
  <2>1. Len(<< >>) = 0 /\ 0 \in 0 .. DigitsRoom - 1
    BY NumbersAssumption
  <2> QED
    BY <1>3, <1>4, <2>1 DEF Spelling
<1>6. Len(<< >>) <= DigitsRoom /\ << >> \in Seq(Int)
  BY NumbersAssumption
<1> QED
  BY <1>1, <1>2, <1>5, <1>6 DEF NumbersInv, NumbersAreExact

(* Between two digits there is room for one more and for the sign, and what   *)
(* is written next is the last digit of what is left.                       *)
LEMMA SpellingMeans ==
  ASSUME NEW n, NEW ds \in Seq(Int), NEW r, Spelling(n, ds, r)
  PROVE  LET x == Magnitude(n)
             q == Quotients(x)[Len(ds)]
         IN  /\ n \in Int /\ x \in Nat /\ n = (IF n < 0 THEN -x ELSE x) /\ (n < 0 => x # 0)
             /\ q \in Nat /\ r = -q
             /\ Len(ds) + 2 <= DigitsRoom /\ Len(ds) \in Nat
             /\ Tenth(r) = -(q \div 10) /\ ZERO - (r - 10 * Tenth(r)) = ZERO + (q % 10)
             /\ Quotients(x)[Len(ds) + 1] = q \div 10
             /\ Len(ds) + 1 = DigitsRoom - 1 => q \div 10 = 0
<1> DEFINE x == Magnitude(n)
           Q == Quotients(x)
           l == Len(ds)
           q == Q[l]
<1>1. n \in Int /\ x \in Nat /\ x <= -LeastInt /\ n = (IF n < 0 THEN -x ELSE x) /\ (n < 0 => x # 0)
  <2>1. n \in LeastInt .. GreatestInt
    BY DEF Spelling, FitsInt
  <2> QED
    BY <2>1, NumbersAssumption DEF Magnitude
<1>2. l \in 0 .. DigitsRoom - 1 /\ r = -q /\ (ds # << >> => r # 0)
  BY DEF Spelling
<1> HIDE DEF x
<1>3. /\ Q \in [0 .. DigitsRoom -> Nat]
      /\ \A k \in 1 .. DigitsRoom : Q[k] = Q[k - 1] \div 10
  BY <1>1, QuotientsAre
<1>4. l \in Nat /\ DigitsRoom \in Nat /\ (ds # << >> <=> l # 0)
  BY NumbersAssumption
<1> HIDE DEF l
<1>5. \A k \in 0 .. DigitsRoom - 1 : Q[k] < Tens[DigitsRoom - 1 - k]
  BY <1>1, RoomEnough
<1>6. Tens[0] = 1 /\ -LeastInt < Tens[DigitsRoom - 1]
  BY TensAre, NumbersAssumption
<1> HIDE DEF Q
<1>7. q \in Nat /\ Q[l + 1] = q \div 10 /\ Q[l + 1] \in Nat
  <2>1. l \in 0 .. DigitsRoom /\ l + 1 \in 1 .. DigitsRoom /\ (l + 1) - 1 = l /\ l + 1 \in 0 .. DigitsRoom
    BY <1>2, <1>4
  <2> QED
    BY <1>3, <2>1
<1>8. l + 2 <= DigitsRoom
  <2> SUFFICES ASSUME l = DigitsRoom - 1 PROVE FALSE
    BY <1>2, <1>4
  <2>1. DigitsRoom - 1 - l = 0
    BY <1>4
  <2>2. q < 1
    BY <1>2, <1>5, <1>6, <2>1
  <2>3. q = 0 /\ r = 0
    BY <1>2, <1>7, <2>2
  <2>4. l = 0
    BY <1>2, <1>4, <2>3
  <2>5. DigitsRoom - 1 = 0
    BY <1>4, <2>4
  <2>6. -LeastInt < 1
    BY <1>6, <2>5
  <2> QED
    BY <2>6, NumbersAssumption
<1>9. l + 1 = DigitsRoom - 1 => q \div 10 = 0
  <2> SUFFICES ASSUME l + 1 = DigitsRoom - 1 PROVE q \div 10 = 0
    OBVIOUS
  <2>1. DigitsRoom - 1 - (l + 1) = 0 /\ l + 1 \in 0 .. DigitsRoom - 1
    BY <1>4
  <2>2. Q[l + 1] < 1
    BY <1>5, <1>6, <2>1
  <2> QED
    BY <1>7, <2>2
<1>10. Tenth(r) = -(q \div 10) /\ ZERO - (r - 10 * Tenth(r)) = ZERO + (q % 10)
  <2> HIDE DEF q
  <2>1. -r = q
    BY <1>2, <1>7
  <2>2. Tenth(r) = -(q \div 10)
    BY <2>1 DEF Tenth
  <2> DEFINE t == q \div 10
             e == q % 10
  <2>3. t \in Nat /\ e \in 0 .. 9 /\ q = 10 * t + e
    BY <1>7, TenthIs
  <2>4. r = -q /\ Tenth(r) = -t
    BY <1>2, <2>2
  <2> HIDE DEF t, e
  <2>5. ZERO - (r - 10 * Tenth(r)) = ZERO + e
    BY <1>7, <2>3, <2>4 DEF ZERO
  <2> QED
    BY <2>2, <2>5 DEF e
<1> QED
  BY <1>1, <1>2, <1>4, <1>7, <1>8, <1>9, <1>10 DEF x, Q, l

(* One more digit, and after the last one the text. *)
LEMMA WriteDigitStep ==
  ASSUME NumbersInv, WriteDigit
  PROVE  NumbersInv'
<1> DEFINE x == Magnitude(number)
           Q == Quotients(x)
           l == Len(digits)
           q == Q[l]
           d == ZERO - (rax - 10 * Tenth(rax))
           ds == Append(digits, d)
<1>1. /\ doing = "string" /\ rax' = Tenth(rax)
      /\ digits' = IF rax' = 0 THEN Signed(ds) ELSE ds
      /\ IF rax' # 0 THEN UNCHANGED <<doing, told, spelled>>
         ELSE doing' = "nothing" /\ told' = "text" /\ spelled' = Reverse(digits')
      /\ UNCHANGED <<here, minus, number>>
  BY DEF WriteDigit
<1>2. spelled \in Seq(Int) /\ digits \in Seq(Int) /\ Spelling(number, digits, rax)
  BY <1>1 DEF NumbersInv
<1>3. /\ number \in Int /\ x \in Nat /\ number = (IF number < 0 THEN -x ELSE x)
      /\ (number < 0 => x # 0)
      /\ q \in Nat /\ rax = -q /\ l + 2 <= DigitsRoom /\ l \in Nat
      /\ Tenth(rax) = -(q \div 10) /\ d = ZERO + (q % 10)
      /\ Q[l + 1] = q \div 10 /\ (l + 1 = DigitsRoom - 1 => q \div 10 = 0)
  BY <1>2, SpellingMeans
<1>4. /\ FitsInt(number) /\ (digits # << >> => rax # 0)
      /\ \A k \in 1 .. l : digits[k] = ZERO + (Q[k - 1] % 10)
  BY <1>2 DEF Spelling
<1>5. d \in Int /\ ds \in Seq(Int) /\ Len(ds) = l + 1 /\ l + 1 \in 1 .. DigitsRoom
      /\ ds[l + 1] = d /\ ds # << >>
  <2>1. d \in Int
    BY <1>3, TenthIs DEF ZERO
  <2> HIDE DEF d
  <2>2. digits \in Seq(Int) /\ l \in Nat
    BY <1>2
  <2>4. ds \in Seq(Int) /\ Len(ds) = l + 1 /\ ds[l + 1] = d
    BY <2>1, <2>2
  <2>5. ds # << >>
    <3> HIDE DEF ds
    <3> QED
      BY <2>2, <2>4
  <2>3. l + 1 \in 1 .. DigitsRoom
    BY <1>3, NumbersAssumption
  <2> QED
    BY <2>1, <2>3, <2>4, <2>5
<1>6. \A k \in 1 .. l + 1 : ds[k] = ZERO + (Q[k - 1] % 10)
  <2> TAKE k \in 1 .. l + 1
  <2> HIDE DEF d
  <2>1. CASE k = l + 1
    <3>1. k - 1 = l
      BY <1>3, <2>1
    <3> QED
      BY <1>3, <1>5, <2>1, <3>1
  <2>2. CASE k # l + 1
    <3>1. k \in 1 .. l
      BY <1>3, <2>2
    <3>2. ds[k] = digits[k]
      BY <1>2, <1>5, <3>1
    <3> HIDE DEF ds, Q
    <3> QED
      BY <1>4, <3>1, <3>2
  <2> QED
    BY <2>1, <2>2
<1> HIDE DEF d, x
<1>7. CASE q \div 10 # 0
  <2>1. rax' # 0 /\ rax' = -(q \div 10)
    BY <1>1, <1>3, <1>7
  <2>2. digits' = ds /\ UNCHANGED <<doing, told, spelled, number>>
    BY <1>1, <2>1
  <2>3. l + 1 \in 0 .. DigitsRoom - 1
    BY <1>3, <1>7, NumbersAssumption
  <2>4. Spelling(number, ds, rax')
    <3> HIDE DEF ds, Q, q
    <3> QED
      BY <1>3, <1>4, <1>5, <1>6, <2>1, <2>3 DEF Spelling, Q, x
  <2>5. Len(ds) <= DigitsRoom
    BY <1>3, <1>5
  <2> QED
    BY <1>1, <1>2, <1>5, <2>2, <2>4, <2>5 DEF NumbersInv, NumbersAreExact
<1>8. CASE q \div 10 = 0
  <2> DEFINE r == Reverse(ds)
  <2>1. rax' = 0
    BY <1>1, <1>3, <1>8
  <2>2. /\ digits' = Signed(ds) /\ doing' = "nothing" /\ told' = "text"
        /\ spelled' = Reverse(Signed(ds)) /\ number' = number
    BY <1>1, <2>1
  <2>3. /\ r \in Seq(Int) /\ Len(r) = l + 1 /\ r[1] = d
        /\ \A k \in 1 .. l + 1 : IsDigit(r[k])
        /\ Counted(r)[l + 1] = x
    <3> HIDE DEF ds
    <3>1. Len(ds) \in 1 .. DigitsRoom /\ Q[Len(ds)] = 0
      BY <1>3, <1>5, <1>8
    <3>2. \A k \in 1 .. Len(ds) : ds[k] = ZERO + (Quotients(x)[k - 1] % 10)
      BY <1>5, <1>6
    <3>3. x \in Nat /\ ds \in Seq(Int) /\ Q[Len(ds)] = 0 /\ Len(ds) = l + 1 /\ ds[l + 1] = d
      BY <1>3, <1>5, <3>1
    <3>4. /\ Reverse(ds) \in Seq(Int) /\ Len(Reverse(ds)) = Len(ds)
          /\ Reverse(ds)[1] = ds[Len(ds)]
          /\ \A k \in 1 .. Len(ds) : IsDigit(Reverse(ds)[k])
          /\ Counted(Reverse(ds))[Len(ds)] = x
      BY <3>1, <3>2, <3>3, DigitsSpell
    <3> QED
      BY <3>3, <3>4
  <2> HIDE DEF ds, r, Q, q
  <2>4. r[1] # HYPHEN
    <3>1. IsDigit(r[1])
      BY <1>3, <2>3
    <3> QED
      BY <3>1 DEF IsDigit, ZERO, HYPHEN
  <2>5. /\ Unsigned(r) = r /\ SignOf(r) = 0
        /\ Reverse(Append(ds, HYPHEN)) \in Seq(Int)
        /\ Len(Reverse(Append(ds, HYPHEN))) = l + 2
        /\ Unsigned(Reverse(Append(ds, HYPHEN))) = r
        /\ SignOf(Reverse(Append(ds, HYPHEN))) = 1
    <3>1. (l + 1) + 1 = l + 2
      BY <1>3
    <3>2. /\ ds \in Seq(Int) /\ ds # << >> /\ Reverse(ds) \in Seq(Int)
          /\ Len(Reverse(ds)) = Len(ds) /\ Reverse(ds)[1] # HYPHEN
      BY <1>5, <2>3, <2>4 DEF r
    <3>3. /\ Unsigned(Reverse(ds)) = Reverse(ds) /\ SignOf(Reverse(ds)) = 0
          /\ Reverse(Append(ds, HYPHEN)) \in Seq(Int)
          /\ Len(Reverse(Append(ds, HYPHEN))) = Len(ds) + 1
          /\ Unsigned(Reverse(Append(ds, HYPHEN))) = Reverse(ds)
          /\ SignOf(Reverse(Append(ds, HYPHEN))) = 1
      BY <3>2, SignedSpells
    <3> QED
      BY <1>5, <3>1, <3>3 DEF r
  <2>6. /\ spelled' \in Seq(Int) /\ digits' \in Seq(Int) /\ Len(digits') <= DigitsRoom
        /\ Unsigned(spelled') = r
        /\ Len(spelled') = l + 1 + SignOf(spelled')
        /\ SignOf(spelled') = (IF number < 0 THEN 1 ELSE 0)
    <3>1. CASE number < 0
      <4>1. digits' = Append(ds, HYPHEN) /\ spelled' = Reverse(Append(ds, HYPHEN))
        BY <2>2, <3>1 DEF Signed
      <4>2. Len(Append(ds, HYPHEN)) = l + 2 /\ Append(ds, HYPHEN) \in Seq(Int)
        BY <1>3, <1>5 DEF HYPHEN
      <4>3. l + 2 = l + 1 + 1
        BY <1>3
      <4> QED
        BY <1>3, <2>5, <3>1, <4>1, <4>2, <4>3
    <3>2. CASE ~(number < 0)
      <4>1. digits' = ds /\ spelled' = r
        BY <2>2, <3>2 DEF Signed, r
      <4> QED
        BY <1>3, <1>5, <2>3, <2>5, <3>2, <4>1
    <3> QED
      BY <3>1, <3>2
  <2>7. Spells(spelled') /\ Value(spelled') = number
    <3>1. SignOf(spelled') < Len(spelled') /\ \A k \in 1 .. Len(Unsigned(spelled')) : IsDigit(Unsigned(spelled')[k])
      <4>1. SignOf(spelled') = 0 \/ SignOf(spelled') = 1
        BY <2>6
      <4>2. SignOf(spelled') < Len(spelled')
        BY <1>3, <2>6, <4>1
      <4>3. \A k \in 1 .. Len(r) : IsDigit(r[k])
        BY <2>3
      <4> QED
        BY <2>6, <4>2, <4>3
    <3> DEFINE s == spelled'
    <3>4. s \in Seq(Int) /\ Unsigned(s) = r /\ SignOf(s) = (IF number < 0 THEN 1 ELSE 0)
      BY <2>6
    <3>5. SignOf(s) < Len(s) /\ \A k \in 1 .. Len(Unsigned(s)) : IsDigit(Unsigned(s)[k])
      BY <3>1
    <3> HIDE DEF s
    <3>6. Spells(s)
      BY <3>4, <3>5, SpellingIs
    <3>7. Value(s) = IF SignOf(s) = 1 THEN -Counted(Unsigned(s))[Len(Unsigned(s))]
                                      ELSE Counted(Unsigned(s))[Len(Unsigned(s))]
      BY <3>4, <3>6, SpellingIs
    <3>8. Counted(Unsigned(s))[Len(Unsigned(s))] = x
      BY <2>3, <3>4
    <3>2. Spells(spelled')
      BY <3>6 DEF s
    <3>3. Value(spelled') = IF number < 0 THEN -x ELSE x
      BY <3>4, <3>7, <3>8 DEF s
    <3> QED
      BY <1>3, <3>2, <3>3
  <2>8. IsNumber(spelled')
    BY <1>4, <2>7 DEF IsNumber
  <2>9. ASSUME Unsigned(spelled')[1] = ZERO PROVE number = 0 /\ Len(spelled') = 1
    <3>1. ZERO = ZERO + (q % 10)
      BY <1>3, <2>3, <2>6, <2>9
    <3>2. q = 0
      <4>1. q % 10 \in 0 .. 9 /\ q = 10 * (q \div 10) + (q % 10)
        BY <1>3, TenthIs
      <4>2. q % 10 = 0
        BY <3>1, <4>1 DEF ZERO
      <4> QED
        BY <1>8, <4>1, <4>2
    <3>3. rax = 0 /\ digits = << >> /\ l = 0
      <4>1. rax = 0
        <5>1. rax = -q /\ q \in Nat
          BY <1>3
        <5>2. rax + q = 0 /\ rax \in Int
          BY <5>1
        <5>3. rax + 0 = 0
          BY <3>2, <5>2
        <5> QED
          BY <5>2, <5>3
      <4> QED
        BY <1>2, <1>4, <4>1
    <3>4. x = 0
      BY <1>3, <3>2, <3>3, QuotientsAre DEF q, Q
    <3> QED
      BY <1>3, <2>6, <3>3, <3>4
  <2> QED
    BY <2>2, <2>6, <2>7, <2>8, <2>9 DEF NumbersInv, NumbersAreExact
<1> QED
  BY <1>7, <1>8

-----------------------------------------------------------------------------
(* In how many bytes a character is, by the first of them, and the least that *)
(* may be in as many.                                                        *)
FormOf(b) ==
    IF b < 128 THEN 1 ELSE IF b \div 32 = 6 THEN 2 ELSE IF b \div 16 = 14 THEN 3
    ELSE IF b \div 8 = 30 THEN 4 ELSE 0
LeastIn(form) == IF form = 1 THEN 0 ELSE IF form = 2 THEN 128 ELSE IF form = 3 THEN 2048 ELSE 65536
IsContinuation(b) == b \div 64 = 2

(* What the first k of bytes have for the number. *)
LeadBits(b) ==
    IF FormOf(b) = 1 THEN b ELSE IF FormOf(b) = 2 THEN b % 32 ELSE IF FormOf(b) = 3 THEN b % 16 ELSE b % 8
Joined(bits, b) == (bits * 64) + (b % 64)
BitsUpTo(bytes, k) ==
    IF k = 1 THEN LeadBits(bytes[1])
    ELSE IF k = 2 THEN Joined(LeadBits(bytes[1]), bytes[2])
    ELSE IF k = 3 THEN Joined(Joined(LeadBits(bytes[1]), bytes[2]), bytes[3])
    ELSE Joined(Joined(Joined(LeadBits(bytes[1]), bytes[2]), bytes[3]), bytes[4])

(* Bytes in the form of one character. *)
Formed(bytes) ==
    /\ bytes \in Seq(Byte) /\ bytes # << >>
    /\ Len(bytes) = FormOf(bytes[1])
    /\ \A k \in 2 .. Len(bytes) : IsContinuation(bytes[k])

(* Digits to the base of 64. *)
LEMMA Sixtyfours ==
  ASSUME NEW c \in Nat
  PROVE  /\ c \div 64 \in Nat /\ c % 64 \in 0 .. 63 /\ c = 64 * (c \div 64) + (c % 64)
         /\ c \div 4096 \in Nat /\ c \div 4096 = (c \div 64) \div 64
         /\ c \div 262144 \in Nat /\ c \div 262144 = (c \div 4096) \div 64
<1>1. c \div 64 \in Nat /\ c % 64 \in 0 .. 63 /\ c = 64 * (c \div 64) + (c % 64)
  OBVIOUS
<1>2. c \div 4096 \in Nat /\ c \div 4096 = (c \div 64) \div 64
  OBVIOUS
<1>3. c \div 262144 \in Nat /\ c \div 262144 = (c \div 4096) \div 64
  OBVIOUS
<1> QED
  BY <1>1, <1>2, <1>3

(* A byte that goes on with six bits. *)
LEMMA TrailIs ==
  ASSUME NEW c \in Nat
  PROVE  Trail(c) \in Byte /\ IsContinuation(Trail(c)) /\ Trail(c) % 64 = c % 64
<1>1. c % 64 \in 0 .. 63
  OBVIOUS
<1> DEFINE r == c % 64
<1> HIDE DEF r
<1>2. r \in 0 .. 63
  BY <1>1 DEF r
<1>3. 128 + r \in 0 .. 255 /\ (128 + r) \div 64 = 2 /\ (128 + r) % 64 = r
  BY <1>2
<1>4. Trail(c) = 128 + r
  BY DEF Trail, r
<1> QED
  BY <1>3, <1>4 DEF Byte, IsContinuation, r

(* The bytes of a character are in the form its size asks for, and have the *)
(* How many bytes a character takes, by how great it is. *)
LEMMA EncodedIn ==
  ASSUME NEW c \in Nat
  PROVE  /\ c < 128 => Utf8(c) = EncodeIn(1, c)
         /\ 128 <= c /\ c < 2048 => Utf8(c) = EncodeIn(2, c)
         /\ 2048 <= c /\ c < 65536 => Utf8(c) = EncodeIn(3, c)
         /\ 65536 <= c => Utf8(c) = EncodeIn(4, c)
<1>1. c < 128 => Utf8(c) = EncodeIn(1, c)
  BY DEF Utf8
<1>2. 128 <= c /\ c < 2048 => Utf8(c) = EncodeIn(2, c)
  BY DEF Utf8
<1>3. 2048 <= c /\ c < 65536 => Utf8(c) = EncodeIn(3, c)
  BY DEF Utf8
<1>4. 65536 <= c => Utf8(c) = EncodeIn(4, c)
  BY DEF Utf8
<1> QED
  BY <1>1, <1>2, <1>3, <1>4

(* character in their bits.                                                 *)
LEMMA Utf8Is ==
  ASSUME NEW c, IsCharacter(c)
  PROVE  /\ Formed(Utf8(c))
         /\ BitsUpTo(Utf8(c), Len(Utf8(c))) = c
         /\ LeastIn(Len(Utf8(c))) <= c
         /\ Len(Utf8(c)) \in 1 .. 4
         /\ c < 65536 => Len(Utf8(c)) <= 3
         /\ c < 128 <=> Len(Utf8(c)) = 1
<1> DEFINE q1 == c \div 64
           q2 == c \div 4096
           q3 == c \div 262144
           r0 == c % 64
           r1 == q1 % 64
           r2 == q2 % 64
<1>1. c \in Nat /\ c <= 1114111
  BY DEF IsCharacter
<1>2. /\ q1 \in Nat /\ r0 \in 0 .. 63 /\ c = 64 * q1 + r0
      /\ q2 \in Nat /\ r1 \in 0 .. 63 /\ q1 = 64 * q2 + r1
      /\ q3 \in Nat /\ r2 \in 0 .. 63 /\ q2 = 64 * q3 + r2
  <2>1. c \in Nat
    BY <1>1
  <2>2. q1 \in Nat /\ r0 \in 0 .. 63 /\ c = 64 * q1 + r0 /\ q2 = q1 \div 64 /\ q3 = q2 \div 64
    BY <2>1, Sixtyfours
  <2> HIDE DEF q1, r0
  <2>3. q2 \in Nat /\ r1 \in 0 .. 63 /\ q1 = 64 * q2 + r1
    BY <2>2, Sixtyfours
  <2> HIDE DEF q2, r1
  <2>4. q3 \in Nat /\ r2 \in 0 .. 63 /\ q2 = 64 * q3 + r2
    BY <2>2, <2>3, Sixtyfours
  <2> QED
    BY <2>2, <2>3, <2>4
<1>3. /\ Trail(c) \in Byte /\ IsContinuation(Trail(c)) /\ Trail(c) % 64 = r0
      /\ Trail(c \div 64) \in Byte /\ IsContinuation(Trail(c \div 64)) /\ Trail(c \div 64) % 64 = r1
      /\ Trail(c \div 4096) \in Byte /\ IsContinuation(Trail(c \div 4096)) /\ Trail(c \div 4096) % 64 = r2
  <2>1. c \in Nat /\ c \div 64 \in Nat /\ c \div 4096 \in Nat
    BY <1>1, <1>2
  <2> QED
    BY <2>1, TrailIs
<1>4. CASE c < 128
  <2>1. Utf8(c) = <<c>>
    <3>1. Utf8(c) = EncodeIn(1, c)
      BY <1>1, <1>4, EncodedIn
    <3>2. EncodeIn(1, c) = <<c>>
      BY DEF EncodeIn
    <3> QED
      BY <3>1, <3>2
  <2>2. c \in Byte /\ FormOf(c) = 1 /\ LeadBits(c) = c
    BY <1>1, <1>4 DEF Byte, FormOf, LeadBits
  <2> QED
    BY <1>1, <1>4, <2>1, <2>2 DEF Formed, BitsUpTo, LeastIn
<1>5. CASE 128 <= c /\ c < 2048
  <2> DEFINE b == 192 + q1
             t == Trail(c)
  <2>1. Utf8(c) = <<b, t>>
    <3>1. Utf8(c) = EncodeIn(2, c)
      BY <1>1, <1>5, EncodedIn
    <3>2. EncodeIn(2, c) = <<b, t>>
      BY DEF EncodeIn
    <3> QED
      BY <3>1, <3>2
  <2>2. q1 \in 2 .. 31
    <3> HIDE DEF q1, r0
    <3> QED
      BY <1>1, <1>2, <1>5
  <2>3. b \in Byte /\ FormOf(b) = 2 /\ LeadBits(b) = q1
    <3> HIDE DEF q1
    <3>1. b \in 0 .. 255 /\ ~(b < 128) /\ b \div 32 = 6 /\ b % 32 = q1
      BY <2>2
    <3> QED
      BY <3>1 DEF Byte, FormOf, LeadBits
  <2>4. BitsUpTo(<<b, t>>, 2) = c
    <3>1. BitsUpTo(<<b, t>>, 2) = (LeadBits(b) * 64) + (t % 64)
      BY DEF BitsUpTo, Joined
    <3> HIDE DEF q1, r0, b, t
    <3>2. (q1 * 64) + r0 = c
      BY <1>2
    <3> QED
      BY <1>3, <2>3, <3>1, <3>2 DEF t
  <2> HIDE DEF b, t
  <2>5. Formed(<<b, t>>)
    BY <1>3, <2>3 DEF Formed, t
  <2> QED
    BY <1>1, <1>5, <2>1, <2>4, <2>5 DEF LeastIn
<1>6. CASE 2048 <= c /\ c < 65536
  <2> DEFINE b == 224 + q2
             t == Trail(c \div 64)
             u == Trail(c)
  <2>1. Utf8(c) = <<b, t, u>>
    <3>1. Utf8(c) = EncodeIn(3, c)
      BY <1>1, <1>6, EncodedIn
    <3>2. EncodeIn(3, c) = <<b, t, u>>
      BY DEF EncodeIn
    <3> QED
      BY <3>1, <3>2
  <2>2. q2 \in 0 .. 15
    <3> HIDE DEF q1, r0, q2, r1
    <3> QED
      BY <1>1, <1>2, <1>6
  <2>3. b \in Byte /\ FormOf(b) = 3 /\ LeadBits(b) = q2
    <3> HIDE DEF q2
    <3>1. b \in 0 .. 255 /\ ~(b < 128) /\ b \div 32 # 6 /\ b \div 16 = 14 /\ b % 16 = q2
      BY <2>2
    <3> QED
      BY <3>1 DEF Byte, FormOf, LeadBits
  <2>4. BitsUpTo(<<b, t, u>>, 3) = c
    <3>1. BitsUpTo(<<b, t, u>>, 3) = (((LeadBits(b) * 64) + (t % 64)) * 64) + (u % 64)
      BY DEF BitsUpTo, Joined
    <3>2. t % 64 = r1 /\ u % 64 = r0
      BY <1>3
    <3> HIDE DEF q1, r0, q2, r1, b, t, u
    <3>3. (((q2 * 64) + r1) * 64) + r0 = c
      BY <1>2
    <3> QED
      BY <2>3, <3>1, <3>2, <3>3
  <2>5. t \in Byte /\ u \in Byte /\ IsContinuation(t) /\ IsContinuation(u)
    BY <1>3
  <2> HIDE DEF b, t, u
  <2>6. Formed(<<b, t, u>>)
    BY <2>3, <2>5 DEF Formed
  <2> QED
    BY <1>1, <1>6, <2>1, <2>4, <2>6 DEF LeastIn
<1>7. CASE 65536 <= c
  <2> DEFINE b == 240 + q3
             t == Trail(c \div 4096)
             u == Trail(c \div 64)
             v == Trail(c)
  <2>1. Utf8(c) = <<b, t, u, v>>
    <3>1. Utf8(c) = EncodeIn(4, c)
      BY <1>1, <1>7, EncodedIn
    <3>2. EncodeIn(4, c) = <<b, t, u, v>>
      BY DEF EncodeIn
    <3> QED
      BY <3>1, <3>2
  <2>2. q3 \in 0 .. 7
    <3> HIDE DEF q1, r0, q2, r1, q3, r2
    <3> QED
      BY <1>1, <1>2, <1>7
  <2>3. b \in Byte /\ FormOf(b) = 4 /\ LeadBits(b) = q3
    <3> HIDE DEF q3
    <3>1. b \in 0 .. 255 /\ ~(b < 128) /\ b \div 32 # 6 /\ b \div 16 # 14 /\ b \div 8 = 30 /\ b % 8 = q3
      BY <2>2
    <3> QED
      BY <3>1 DEF Byte, FormOf, LeadBits
  <2>4. BitsUpTo(<<b, t, u, v>>, 4) = c
    <3>1. BitsUpTo(<<b, t, u, v>>, 4) =
            (((((LeadBits(b) * 64) + (t % 64)) * 64) + (u % 64)) * 64) + (v % 64)
      BY DEF BitsUpTo, Joined
    <3>2. t % 64 = r2 /\ u % 64 = r1 /\ v % 64 = r0
      BY <1>3
    <3> HIDE DEF q1, r0, q2, r1, q3, r2, b, t, u, v
    <3>3. (((((q3 * 64) + r2) * 64) + r1) * 64) + r0 = c
      BY <1>2
    <3> QED
      BY <2>3, <3>1, <3>2, <3>3
  <2>5. t \in Byte /\ u \in Byte /\ v \in Byte /\ IsContinuation(t) /\ IsContinuation(u) /\ IsContinuation(v)
    BY <1>3
  <2> HIDE DEF b, t, u, v
  <2>6. Formed(<<b, t, u, v>>)
    BY <2>3, <2>5 DEF Formed
  <2> QED
    BY <1>1, <1>7, <2>1, <2>4, <2>6 DEF LeastIn
<1> QED
  BY <1>1, <1>4, <1>5, <1>6, <1>7

(* Bytes in the form of a character spell it, if it could not be spelled in  *)
(* fewer.                                                                   *)
LEMMA SpelledBy ==
  ASSUME NEW bytes, Formed(bytes), NEW c, c = BitsUpTo(bytes, Len(bytes)), IsCharacter(c),
         LeastIn(Len(bytes)) <= c
  PROVE  Utf8(c) = bytes
<1>1. c \in Nat /\ c <= 1114111
  BY DEF IsCharacter
<1>2. /\ \A k \in 1 .. Len(bytes) : bytes[k] \in Nat /\ bytes[k] <= 255
      /\ Len(bytes) \in Nat /\ Len(bytes) >= 1 /\ Len(bytes) = FormOf(bytes[1])
  <2>1. \A k \in 1 .. Len(bytes) : bytes[k] \in Byte
    BY DEF Formed
  <2>2. Len(bytes) \in Nat /\ Len(bytes) >= 1 /\ Len(bytes) = FormOf(bytes[1])
    BY DEF Formed
  <2>3. \A x \in Byte : x \in Nat /\ x <= 255
    BY DEF Byte
  <2> QED
    BY <2>1, <2>2, <2>3
<1> DEFINE b == bytes[1]
<1>3. b \in Nat /\ b <= 255 /\ Len(bytes) = FormOf(b)
  BY <1>2
<1>4. ASSUME NEW x \in Nat, NEW y \in Nat, y <= 255, IsContinuation(y)
      PROVE  /\ Joined(x, y) \in Nat /\ Joined(x, y) \div 64 = x
             /\ 128 + (Joined(x, y) % 64) = y
  <2> DEFINE r == y - 128
  <2>1. r \in 0 .. 63 /\ y % 64 = r
    BY <1>4 DEF IsContinuation
  <2>2. ((x * 64) + r) \in Nat /\ ((x * 64) + r) \div 64 = x /\ ((x * 64) + r) % 64 = r
    <3> HIDE DEF r
    <3> QED
      BY <2>1
  <2>3. Joined(x, y) = (x * 64) + r
    BY <2>1 DEF Joined
  <2>4. 128 + r = y
    OBVIOUS
  <2> HIDE DEF r
  <2> QED
    BY <2>2, <2>3, <2>4
<1>5. CASE FormOf(b) = 1
  <2>1. b < 128 /\ c = b
    BY <1>3, <1>5 DEF FormOf, BitsUpTo, LeadBits
  <2>2. Utf8(c) = <<c>>
    <3>1. Utf8(c) = EncodeIn(1, c)
      BY <1>1, <2>1, EncodedIn
    <3>2. EncodeIn(1, c) = <<c>>
      BY DEF EncodeIn
    <3> QED
      BY <3>1, <3>2
  <2>3. bytes = <<b>>
    BY <1>3, <1>5 DEF Formed
  <2> QED
    BY <2>1, <2>2, <2>3
<1>6. CASE FormOf(b) = 2
  <2> DEFINE y == bytes[2]
             x == LeadBits(b)
  <2>1. b \div 32 = 6 /\ x = b % 32
    BY <1>3, <1>6 DEF FormOf, LeadBits
  <2>2. x \in Nat /\ x <= 31 /\ 192 + x = b
    <3> HIDE DEF b, x
    <3> QED
      BY <1>3, <2>1
  <2>3. y \in Nat /\ y <= 255 /\ IsContinuation(y)
    BY <1>2, <1>3, <1>6 DEF Formed
  <2>4. c = Joined(x, y) /\ 128 <= c
    BY <1>3, <1>6 DEF BitsUpTo, LeastIn
  <2>5. bytes = <<b, y>>
    BY <1>3, <1>6 DEF Formed
  <2> HIDE DEF b, x, y
  <2>6. c \div 64 = x /\ 128 + (c % 64) = y
    <3>1. Joined(x, y) \div 64 = x /\ 128 + (Joined(x, y) % 64) = y
      BY <1>4, <2>2, <2>3
    <3> QED
      BY <2>4, <3>1
  <2>7. c < 2048
    BY <1>1, <2>2, <2>6
  <2>8. Utf8(c) = <<192 + (c \div 64), Trail(c)>>
    <3>1. Utf8(c) = EncodeIn(2, c)
      BY <1>1, <2>4, <2>7, EncodedIn
    <3>2. EncodeIn(2, c) = <<192 + (c \div 64), Trail(c)>>
      BY DEF EncodeIn
    <3> QED
      BY <3>1, <3>2
  <2> QED
    BY <2>2, <2>5, <2>6, <2>8 DEF Trail
<1>7. CASE FormOf(b) = 3
  <2> DEFINE y == bytes[2]
             z == bytes[3]
             x == LeadBits(b)
             d == Joined(x, y)
  <2>1. b \div 16 = 14 /\ x = b % 16
    BY <1>3, <1>7 DEF FormOf, LeadBits
  <2>2. x \in Nat /\ x <= 15 /\ 224 + x = b
    <3> HIDE DEF b, x
    <3> QED
      BY <1>3, <2>1
  <2>3. y \in Nat /\ y <= 255 /\ IsContinuation(y) /\ z \in Nat /\ z <= 255 /\ IsContinuation(z)
    BY <1>2, <1>3, <1>7 DEF Formed
  <2>4. c = Joined(d, z) /\ 2048 <= c
    BY <1>3, <1>7 DEF BitsUpTo, LeastIn
  <2>5. bytes = <<b, y, z>>
    BY <1>3, <1>7 DEF Formed
  <2> HIDE DEF b, x, y, z
  <2>6. d \in Nat /\ d \div 64 = x /\ 128 + (d % 64) = y
    <3>1. x \in Nat /\ y \in Nat /\ y <= 255 /\ IsContinuation(y)
      BY <2>2, <2>3
    <3> QED
      BY <1>4, <3>1
  <2> HIDE DEF d
  <2>7. c \div 64 = d /\ 128 + (c % 64) = z
    <3>1. d \in Nat /\ z \in Nat /\ z <= 255 /\ IsContinuation(z)
      BY <2>3, <2>6
    <3>2. Joined(d, z) \div 64 = d /\ 128 + (Joined(d, z) % 64) = z
      BY <1>4, <3>1
    <3> QED
      BY <2>4, <3>2
  <2>8. c \div 4096 = x /\ c < 65536
    <3>1. c \div 4096 = (c \div 64) \div 64
      BY <1>1, Sixtyfours
    <3>2. d < 1024
      BY <2>2, <2>6
    <3>3. c < 65536
      BY <1>1, <2>7, <3>2
    <3> QED
      BY <2>6, <2>7, <3>1, <3>3
  <2>9. Utf8(c) = <<224 + (c \div 4096), Trail(c \div 64), Trail(c)>>
    <3>1. Utf8(c) = EncodeIn(3, c)
      BY <1>1, <2>4, <2>8, EncodedIn
    <3>2. EncodeIn(3, c) = <<224 + (c \div 4096), Trail(c \div 64), Trail(c)>>
      BY DEF EncodeIn
    <3> QED
      BY <3>1, <3>2
  <2> QED
    BY <2>2, <2>5, <2>6, <2>7, <2>8, <2>9 DEF Trail
<1>8. CASE FormOf(b) = 4
  <2> DEFINE y == bytes[2]
             z == bytes[3]
             w == bytes[4]
             x == LeadBits(b)
             d == Joined(x, y)
             e == Joined(d, z)
  <2>1. b \div 8 = 30 /\ x = b % 8
    BY <1>3, <1>8 DEF FormOf, LeadBits
  <2>2. x \in Nat /\ x <= 7 /\ 240 + x = b
    <3> HIDE DEF b, x
    <3> QED
      BY <1>3, <2>1
  <2>3. /\ y \in Nat /\ y <= 255 /\ IsContinuation(y) /\ z \in Nat /\ z <= 255 /\ IsContinuation(z)
        /\ w \in Nat /\ w <= 255 /\ IsContinuation(w)
    BY <1>2, <1>3, <1>8 DEF Formed
  <2>4. c = Joined(e, w) /\ 65536 <= c
    BY <1>3, <1>8 DEF BitsUpTo, LeastIn
  <2>5. bytes = <<b, y, z, w>>
    BY <1>3, <1>8 DEF Formed
  <2> HIDE DEF b, x, y, z, w
  <2>6. d \in Nat /\ d \div 64 = x /\ 128 + (d % 64) = y
    <3>1. x \in Nat /\ y \in Nat /\ y <= 255 /\ IsContinuation(y)
      BY <2>2, <2>3
    <3> QED
      BY <1>4, <3>1
  <2> HIDE DEF d
  <2>7. e \in Nat /\ e \div 64 = d /\ 128 + (e % 64) = z
    <3>1. d \in Nat /\ z \in Nat /\ z <= 255 /\ IsContinuation(z)
      BY <2>3, <2>6
    <3> QED
      BY <1>4, <3>1
  <2> HIDE DEF e
  <2>8. c \div 64 = e /\ 128 + (c % 64) = w
    <3>2. e \in Nat /\ w \in Nat /\ w <= 255 /\ IsContinuation(w)
      BY <2>3, <2>7
    <3>1. Joined(e, w) \div 64 = e /\ 128 + (Joined(e, w) % 64) = w
      BY <1>4, <3>2
    <3> QED
      BY <2>4, <3>1
  <2>9. c \div 4096 = d /\ c \div 262144 = x
    <3>1. c \div 4096 = (c \div 64) \div 64 /\ c \div 262144 = (c \div 4096) \div 64
      BY <1>1, Sixtyfours
    <3> QED
      BY <2>6, <2>7, <2>8, <3>1
  <2>10. Utf8(c) = <<240 + (c \div 262144), Trail(c \div 4096), Trail(c \div 64), Trail(c)>>
    <3>1. Utf8(c) = EncodeIn(4, c)
      BY <1>1, <2>4, EncodedIn
    <3>2. EncodeIn(4, c) = <<240 + (c \div 262144), Trail(c \div 4096), Trail(c \div 64), Trail(c)>>
      BY DEF EncodeIn
    <3> QED
      BY <3>1, <3>2
  <2>11. Trail(c \div 4096) = y /\ Trail(c \div 64) = z /\ Trail(c) = w
    BY <2>6, <2>7, <2>8, <2>9 DEF Trail
  <2> QED
    BY <2>2, <2>5, <2>9, <2>10, <2>11
<1>9. FormOf(b) \in {0, 1, 2, 3, 4} /\ FormOf(b) # 0
  BY <1>2, <1>3 DEF FormOf
<1> QED
  BY <1>5, <1>6, <1>7, <1>8, <1>9

-----------------------------------------------------------------------------
(* How newlines are counted along a text. *)
LEMMA NewlinesAre ==
  ASSUME NEW t \in Seq(Nat)
  PROVE  /\ \A i \in 0 .. Len(t) : Newlines(t, i) \in Nat
         /\ Newlines(t, 0) = 0
         /\ \A i, j \in 0 .. Len(t) : i <= j => Newlines(t, i) <= Newlines(t, j)
         /\ \A i, j \in 0 .. Len(t) :
               i <= j /\ (\A m \in i + 1 .. j : t[m] # NEWLINE) => Newlines(t, i) = Newlines(t, j)
         /\ \A j \in 1 .. Len(t) : t[j] = NEWLINE => Newlines(t, j) = Newlines(t, j - 1) + 1
<1> DEFINE n == Len(t)
           In(i) == {j \in 1 .. i : t[j] = NEWLINE}
<1>1. n \in Nat
  OBVIOUS
<1>2. \A i \in 0 .. n : Newlines(t, i) = Cardinality(In(i)) /\ IsFiniteSet(In(i)) /\ Newlines(t, i) \in Nat
  <2> TAKE i \in 0 .. n
  <2>1. IsFiniteSet(1 .. i)
    BY FS_Interval
  <2>2. In(i) \in SUBSET (1 .. i)
    OBVIOUS
  <2> HIDE DEF In
  <2>3. IsFiniteSet(In(i))
    BY <2>1, <2>2, FS_Subset
  <2>4. Newlines(t, i) = Cardinality(In(i))
    BY DEF Newlines, In
  <2> QED
    BY <2>3, <2>4, FS_CardinalityType
<1>3. Newlines(t, 0) = 0
  <2>1. In(0) = {}
    OBVIOUS
  <2>2. Newlines(t, 0) = Cardinality(In(0))
    BY <1>1, <1>2
  <2> HIDE DEF In
  <2> QED
    BY <2>1, <2>2, FS_EmptySet
<1>4. ASSUME NEW i \in 0 .. n, NEW j \in 0 .. n, i <= j
      PROVE  Newlines(t, i) <= Newlines(t, j)
  <2>1. In(i) \in SUBSET In(j)
    BY <1>1, <1>4
  <2> HIDE DEF In, n
  <2> QED
    BY <1>2, <2>1, FS_Subset
<1>5. ASSUME NEW i \in 0 .. n, NEW j \in 0 .. n, i <= j, \A m \in i + 1 .. j : t[m] # NEWLINE
      PROVE  Newlines(t, i) = Newlines(t, j)
  <2>1. In(i) = In(j)
    BY <1>1, <1>5
  <2> HIDE DEF In, n
  <2> QED
    BY <1>2, <2>1
<1>6. ASSUME NEW j \in 1 .. n, t[j] = NEWLINE
      PROVE  Newlines(t, j) = Newlines(t, j - 1) + 1
  <2>1. In(j) = In(j - 1) \cup {j} /\ j \notin In(j - 1) /\ j \in 0 .. n /\ j - 1 \in 0 .. n
    BY <1>1, <1>6
  <2> HIDE DEF In, n
  <2>2. Cardinality(In(j)) = Cardinality(In(j - 1)) + 1
    BY <1>2, <2>1, FS_AddElement
  <2> QED
    BY <1>2, <2>1, <2>2
<1> QED
  BY <1>2, <1>3, <1>4, <1>5, <1>6

(* No more newlines are in front of a place in a text than in what is cut    *)
(* off behind it.                                                           *)
LEMMA CutNewlines ==
  ASSUME NEW t \in Seq(Nat), NEW n \in 0 .. Len(t), NEW i \in 0 .. n
  PROVE  Newlines(SubSeq(t, 1, n), i) = Newlines(t, i)
<1>1. \A j \in 1 .. i : SubSeq(t, 1, n)[j] = t[j]
  OBVIOUS
<1> DEFINE p == SubSeq(t, 1, n)
<1> HIDE DEF p
<1>2. {j \in 1 .. i : p[j] = NEWLINE} = {j \in 1 .. i : t[j] = NEWLINE}
  BY <1>1 DEF p
<1>3. Newlines(p, i) = Newlines(t, i)
  BY <1>2 DEF Newlines
<1> QED
  BY <1>3 DEF p

-----------------------------------------------------------------------------
(* The k-th line, and how many there are. *)
Ahead(text, k) == Cardinality(BeforeLine(text, k))
Size(text, k) == Cardinality(OnLine(text, k))
Line(text, k) == WithoutReturn(SubSeq(text, Ahead(text, k) + 1, Ahead(text, k) + Size(text, k)))
Count(text) == IF text = << >> THEN 0 ELSE 1 + Newlines(text, Len(text) - 1)

(* A line without its ending is one still. *)
LEMMA WithoutReturnIs ==
  ASSUME NEW s \in Seq(Nat)
  PROVE  WithoutReturn(s) \in Seq(Nat)
<1>1. CASE s # << >>
  BY <1>1 DEF WithoutReturn, Front
<1>2. CASE s = << >>
  BY <1>2 DEF WithoutReturn
<1> QED
  BY <1>1, <1>2

(* A line and what is in front of it are within the text. *)
LEMMA LineWithin ==
  ASSUME NEW t \in Seq(Nat), NEW n \in 0 .. Len(t), NEW k,
         BeforeLine(t, k) \in SUBSET (1 .. n), OnLine(t, k) \in SUBSET (1 .. n)
  PROVE  Ahead(t, k) \in Nat /\ Size(t, k) \in Nat /\ Ahead(t, k) + Size(t, k) <= n
<1> DEFINE B == BeforeLine(t, k)
           O == OnLine(t, k)
<1>1. B \cap O = {}
  <2>1. \A i \in DOMAIN t : Newlines(t, i - 1) \in Nat
    BY NewlinesAre
  <2> SUFFICES ASSUME NEW i \in B \cap O PROVE FALSE
    OBVIOUS
  <2>2. i \in DOMAIN t /\ Newlines(t, i - 1) < k - 1 /\ Newlines(t, i - 1) = k - 1
    BY DEF BeforeLine, OnLine
  <2> QED
    BY <2>1, <2>2
<1> HIDE DEF B, O
<1>2. IsFiniteSet(1 .. n) /\ Cardinality(1 .. n) = n
  BY FS_Interval
<1>3. IsFiniteSet(B) /\ IsFiniteSet(O) /\ B \cup O \in SUBSET (1 .. n)
  <2>1. B \in SUBSET (1 .. n) /\ O \in SUBSET (1 .. n)
    BY DEF B, O
  <2> QED
    BY <1>2, <2>1, FS_Subset
<1>4. /\ Cardinality(B) \in Nat /\ Cardinality(O) \in Nat
      /\ Cardinality(B \cup O) = Cardinality(B) + Cardinality(O)
  <2>1. Cardinality(B \cap O) = 0
    BY <1>1, FS_EmptySet
  <2>2. Cardinality(B) \in Nat /\ Cardinality(O) \in Nat
    BY <1>3, FS_CardinalityType
  <2>3. Cardinality(B \cup O) = Cardinality(B) + (Cardinality(O) - Cardinality(B \cap O))
    BY <1>3, FS_Union
  <2> QED
    BY <2>1, <2>2, <2>3
<1>5. Cardinality(B \cup O) <= n
  BY <1>2, <1>3, FS_Subset
<1>6. Ahead(t, k) = Cardinality(B) /\ Size(t, k) = Cardinality(O)
  BY DEF Ahead, Size, B, O
<1> QED
  BY <1>4, <1>5, <1>6

(* The lines of a text, one after the other. *)
LEMMA LinesAre ==
  ASSUME NEW t \in Seq(Nat)
  PROVE  /\ LinesOf(t) \in Seq(Seq(Nat)) /\ Len(LinesOf(t)) = Count(t) /\ Count(t) \in Nat
         /\ \A k \in 1 .. Count(t) : LinesOf(t)[k] = Line(t, k)
<1>1. Count(t) \in Nat
  <2>1. CASE t # << >>
    <3>1. Len(t) - 1 \in 0 .. Len(t)
      BY <2>1
    <3>2. Newlines(t, Len(t) - 1) \in Nat
      BY <3>1, NewlinesAre
    <3> QED
      BY <2>1, <3>2 DEF Count
  <2>2. CASE t = << >>
    BY <2>2 DEF Count
  <2> QED
    BY <2>1, <2>2
<1>2. LinesOf(t) = [k \in 1 .. Count(t) |-> Line(t, k)]
  BY DEF LinesOf, Count, Line, Ahead, Size
<1>3. ASSUME NEW k \in 1 .. Count(t) PROVE Line(t, k) \in Seq(Nat)
  <2>1. BeforeLine(t, k) \in SUBSET (1 .. Len(t)) /\ OnLine(t, k) \in SUBSET (1 .. Len(t))
    BY DEF BeforeLine, OnLine
  <2>2. Len(t) \in 0 .. Len(t)
    OBVIOUS
  <2>3. Ahead(t, k) \in Nat /\ Size(t, k) \in Nat /\ Ahead(t, k) + Size(t, k) <= Len(t)
    BY <2>1, <2>2, LineWithin
  <2>4. SubSeq(t, Ahead(t, k) + 1, Ahead(t, k) + Size(t, k)) \in Seq(Nat)
    BY <2>3
  <2> QED
    BY <2>4, WithoutReturnIs DEF Line
<1> QED
  BY <1>1, <1>2, <1>3

(* What follows a newline changes nothing about the lines in front of it. *)
LEMMA LinesInFront ==
  ASSUME NEW t \in Seq(Nat), NEW n \in 0 .. Len(t), n = 0 \/ t[n] = NEWLINE
  PROVE  /\ Count(SubSeq(t, 1, n)) = Newlines(t, n)
         /\ Newlines(t, n) <= Count(t)
         /\ n < Len(t) => Newlines(t, n) < Count(t)
         /\ \A k \in 1 .. Newlines(t, n) : LinesOf(SubSeq(t, 1, n))[k] = LinesOf(t)[k]
<1> DEFINE p == SubSeq(t, 1, n)
<1>1. /\ p \in Seq(Nat) /\ Len(p) = n /\ n \in Nat /\ Len(t) \in Nat
      /\ \A j \in 1 .. n : p[j] = t[j]
      /\ DOMAIN p = 1 .. n /\ DOMAIN t = 1 .. Len(t) /\ n <= Len(t)
  OBVIOUS
<1>2. \A i \in 0 .. n : Newlines(p, i) = Newlines(t, i)
  BY CutNewlines
<1> HIDE DEF p
<1>3. /\ \A i \in 0 .. Len(t) : Newlines(t, i) \in Nat
      /\ Newlines(t, 0) = 0
      /\ \A i, j \in 0 .. Len(t) : i <= j => Newlines(t, i) <= Newlines(t, j)
      /\ \A j \in 1 .. Len(t) : t[j] = NEWLINE => Newlines(t, j) = Newlines(t, j - 1) + 1
  BY NewlinesAre
<1>4. Count(p) = Newlines(t, n)
  <2>1. CASE n = 0
    BY <1>1, <1>3, <2>1 DEF Count
  <2>2. CASE n # 0
    <3>1. Count(p) = 1 + Newlines(p, n - 1)
      BY <1>1, <2>2 DEF Count
    <3>2. n - 1 \in 0 .. n /\ n \in 1 .. Len(t) /\ t[n] = NEWLINE /\ n - 1 \in 0 .. Len(t)
      BY <1>1, <2>2
    <3> QED
      BY <1>2, <1>3, <3>1, <3>2
  <2> QED
    BY <2>1, <2>2
<1>5. Newlines(t, n) <= Count(t) /\ (n < Len(t) => Newlines(t, n) < Count(t))
  <2>1. CASE n < Len(t)
    <3>1. Count(t) = 1 + Newlines(t, Len(t) - 1)
      BY <1>1, <2>1 DEF Count
    <3>2. Len(t) - 1 \in 0 .. Len(t) /\ n <= Len(t) - 1
      BY <1>1, <2>1
    <3>3. Newlines(t, n) <= Newlines(t, Len(t) - 1) /\ Newlines(t, n) \in Nat /\ Newlines(t, Len(t) - 1) \in Nat
      BY <1>3, <3>2
    <3> QED
      BY <3>1, <3>3
  <2>2. CASE n = Len(t)
    <3>1. p = t
      BY <2>2 DEF p
    <3> QED
      BY <1>1, <1>3, <1>4, <2>2, <3>1
  <2>3. n < Len(t) \/ n = Len(t)
    <3> DEFINE x == Len(t)
    <3>1. x \in Nat /\ n \in Nat /\ n <= x
      BY <1>1
    <3> HIDE DEF x
    <3>2. n < x \/ n = x
      BY <3>1
    <3> QED
      BY <3>2 DEF x
  <2> QED
    BY <2>1, <2>2, <2>3
<1>6. ASSUME NEW k \in 1 .. Newlines(t, n) PROVE Line(p, k) = Line(t, k)
  <2>1. k \in Nat /\ k <= Newlines(t, n) /\ Newlines(t, n) \in Nat
    BY <1>1, <1>3
  <2>2. ASSUME NEW i \in 1 .. Len(t), Newlines(t, i - 1) <= k - 1 PROVE i \in 1 .. n
    <3>1. i - 1 \in 0 .. Len(t)
      BY <1>1
    <3>2. CASE n <= i - 1
      <4>1. Newlines(t, n) <= Newlines(t, i - 1) /\ Newlines(t, i - 1) \in Nat
        BY <1>3, <3>1, <3>2
      <4> QED
        BY <2>1, <2>2, <4>1
    <3> QED
      BY <1>1, <3>2
  <2>3. \A i \in 1 .. n : i \in 1 .. Len(t) /\ i - 1 \in 0 .. n /\ i - 1 \in 0 .. Len(t)
    BY <1>1
  <2>4. BeforeLine(p, k) = BeforeLine(t, k)
    <3>1. \A i \in 1 .. Len(t) : Newlines(t, i - 1) < k - 1 => i \in 1 .. n
      <4> TAKE i \in 1 .. Len(t)
      <4> HAVE Newlines(t, i - 1) < k - 1
      <4>1. Newlines(t, i - 1) \in Nat
        BY <1>1, <1>3
      <4>2. Newlines(t, i - 1) <= k - 1
        BY <2>1, <4>1
      <4> QED
        BY <2>2, <4>2
    <3>2. \A i \in 1 .. n : Newlines(p, i - 1) = Newlines(t, i - 1)
      BY <1>2, <2>3
    <3> QED
      BY <1>1, <2>3, <3>1, <3>2 DEF BeforeLine
  <2>5. OnLine(p, k) = OnLine(t, k)
    <3>1. \A i \in 1 .. Len(t) : Newlines(t, i - 1) = k - 1 => i \in 1 .. n
      BY <2>1, <2>2
    <3>2. \A i \in 1 .. n : Newlines(p, i - 1) = Newlines(t, i - 1)
      BY <1>2, <2>3
    <3> QED
      BY <1>1, <2>3, <3>1, <3>2 DEF OnLine
  <2>6. Ahead(p, k) = Ahead(t, k) /\ Size(p, k) = Size(t, k)
    BY <2>4, <2>5 DEF Ahead, Size
  <2>7. Ahead(t, k) \in Nat /\ Size(t, k) \in Nat /\ Ahead(t, k) + Size(t, k) <= n
    <3>1. BeforeLine(p, k) \in SUBSET (1 .. n) /\ OnLine(p, k) \in SUBSET (1 .. n)
      BY <1>1 DEF BeforeLine, OnLine
    <3> QED
      BY <2>4, <2>5, <3>1, LineWithin
  <2> DEFINE a == Ahead(t, k)
             b == Ahead(t, k) + Size(t, k)
  <2>8. SubSeq(p, a + 1, b) = SubSeq(t, a + 1, b)
    <3>1. a \in Nat /\ b \in Nat /\ b <= n
      BY <2>7
    <3> HIDE DEF a, b
    <3> QED
      BY <1>1, <3>1
  <2> QED
    BY <2>6, <2>8 DEF Line
<1>7. \A k \in 1 .. Newlines(t, n) : LinesOf(p)[k] = LinesOf(t)[k]
  <2> TAKE k \in 1 .. Newlines(t, n)
  <2>1. Newlines(t, n) \in Nat /\ Count(t) \in Nat
    BY <1>3, LinesAre
  <2>2. k \in 1 .. Count(p) /\ k \in 1 .. Count(t)
    BY <1>4, <1>5, <2>1
  <2>3. LinesOf(p)[k] = Line(p, k) /\ LinesOf(t)[k] = Line(t, k)
    BY <1>1, <2>2, LinesAre
  <2> QED
    BY <1>6, <2>3
<1> QED
  BY <1>4, <1>5, <1>7 DEF p

(* A line more: from behind a newline to the next one, or to the end. *)
LEMMA LineMore ==
  ASSUME NEW t \in Seq(Nat), NEW s \in 0 .. Len(t), s < Len(t), s = 0 \/ t[s] = NEWLINE,
         NEW e \in s .. Len(t), \A m \in s + 1 .. e : t[m] # NEWLINE,
         e = Len(t) \/ (e + 1 = Len(t) /\ t[e + 1] = NEWLINE)
  PROVE  LinesOf(t) = Append(LinesOf(SubSeq(t, 1, s)), WithoutReturn(SubSeq(t, s + 1, e)))
<1> DEFINE p == SubSeq(t, 1, s)
           n == Len(t)
           c == Newlines(t, s)
           r == Append(LinesOf(p), WithoutReturn(SubSeq(t, s + 1, e)))
<1>1. /\ n \in Nat /\ s \in Nat /\ e \in Nat /\ n - 1 \in 0 .. n /\ s <= n - 1 /\ p \in Seq(Nat)
      /\ DOMAIN t = 1 .. n /\ s <= e /\ e <= n /\ n <= e + 1 /\ (n = e + 1 => t[n] = NEWLINE)
  OBVIOUS
<1> HIDE DEF p, n, r
<1>2. /\ \A i \in 0 .. n : Newlines(t, i) \in Nat
      /\ \A i, j \in 0 .. n : i <= j => Newlines(t, i) <= Newlines(t, j)
      /\ \A i, j \in 0 .. n :
            i <= j /\ (\A m \in i + 1 .. j : t[m] # NEWLINE) => Newlines(t, i) = Newlines(t, j)
      /\ \A j \in 1 .. n : t[j] = NEWLINE => Newlines(t, j) = Newlines(t, j - 1) + 1
  BY NewlinesAre DEF n
<1> HIDE DEF c
<1>3. \A i \in 0 .. n : s <= i /\ i <= e => Newlines(t, i) = c
  <2> TAKE i \in 0 .. n
  <2> HAVE s <= i /\ i <= e
  <2>1. \A m \in s + 1 .. i : t[m] # NEWLINE
    BY <1>1
  <2> QED
    <3>1. s \in 0 .. n /\ i \in 0 .. n /\ s <= i
      BY <1>1
    <3>2. Newlines(t, s) = Newlines(t, i)
      BY <1>2, <2>1, <3>1
    <3> QED
      BY <3>2 DEF c
<1>4. Count(t) = c + 1 /\ c \in Nat
  <2>1. n - 1 <= e
    BY <1>1
  <2>2. Newlines(t, n - 1) = c /\ c \in Nat
    BY <1>1, <1>2, <1>3, <2>1
  <2>3. t # << >>
    BY <1>1
  <2> QED
    BY <2>2, <2>3 DEF Count, n
<1>5. \A i \in 1 .. s : Newlines(t, i - 1) < c
  <2> TAKE i \in 1 .. s
  <2>1. s \in 1 .. n /\ t[s] = NEWLINE /\ i - 1 \in 0 .. n /\ s - 1 \in 0 .. n /\ i - 1 <= s - 1
    BY <1>1
  <2>2. Newlines(t, i - 1) <= Newlines(t, s - 1) /\ c = Newlines(t, s - 1) + 1
    BY <1>2, <2>1 DEF c
  <2>3. Newlines(t, i - 1) \in Nat /\ Newlines(t, s - 1) \in Nat
    BY <1>2, <2>1
  <2> QED
    BY <2>2, <2>3
<1>6. \A i \in s + 1 .. n : ~(Newlines(t, i - 1) < c) /\ (i <= e + 1 => Newlines(t, i - 1) = c)
  <2> TAKE i \in s + 1 .. n
  <2>1. i - 1 \in 0 .. n /\ s <= i - 1 /\ s \in 0 .. n
    BY <1>1
  <2>2. c <= Newlines(t, i - 1) /\ Newlines(t, i - 1) \in Nat
    BY <1>2, <2>1 DEF c
  <2>3. i <= e + 1 => i - 1 <= e
    BY <1>1
  <2> QED
    BY <1>3, <1>4, <2>1, <2>2, <2>3
<1>7. Line(t, c + 1) = WithoutReturn(SubSeq(t, s + 1, e))
  <2> HIDE DEF c, n
  <2>0. (c + 1) - 1 = c
    BY <1>4
  <2>1. BeforeLine(t, c + 1) = 1 .. s
    <3>1. BeforeLine(t, c + 1) = {i \in 1 .. n : Newlines(t, i - 1) < c}
      BY <1>1, <2>0 DEF BeforeLine
    <3>2. 1 .. n = (1 .. s) \cup (s + 1 .. n)
      BY <1>1
    <3> QED
      BY <1>5, <1>6, <3>1, <3>2
  <2>2. OnLine(t, c + 1) = s + 1 .. e
    <3>1. OnLine(t, c + 1) = {i \in 1 .. n : Newlines(t, i - 1) = c /\ t[i] # NEWLINE}
      BY <1>1, <2>0 DEF OnLine
    <3>2. \A i \in 1 .. s : ~(Newlines(t, i - 1) = c)
      BY <1>1, <1>4, <1>5
    <3>3. \A i \in s + 1 .. e : i \in 1 .. n /\ Newlines(t, i - 1) = c /\ t[i] # NEWLINE
      BY <1>1, <1>6
    <3>4. \A i \in 1 .. n : i \in 1 .. s \/ i \in s + 1 .. e \/ t[i] = NEWLINE
      <4> TAKE i \in 1 .. n
      <4>1. i <= s \/ (s + 1 <= i /\ i <= e) \/ (i = n /\ n = e + 1)
        BY <1>1
      <4> QED
        BY <1>1, <4>1
    <3> QED
      BY <3>1, <3>2, <3>3, <3>4
  <2>3. Cardinality(1 .. s) = s /\ Cardinality(s + 1 .. e) = e - s
    <3>1. 1 \in Int /\ s \in Int /\ s + 1 \in Int /\ e \in Int
      BY <1>1
    <3>2. /\ Cardinality(1 .. s) = IF 1 > s THEN 0 ELSE (s - 1) + 1
          /\ Cardinality(s + 1 .. e) = IF s + 1 > e THEN 0 ELSE (e - (s + 1)) + 1
      BY <3>1, FS_Interval
    <3> QED
      BY <1>1, <3>2
  <2>4. Ahead(t, c + 1) = s /\ Size(t, c + 1) = e - s
    BY <2>1, <2>2, <2>3 DEF Ahead, Size
  <2>5. s + (e - s) = e
    BY <1>1
  <2> QED
    BY <2>4, <2>5 DEF Line
<1>8. /\ LinesOf(t) \in Seq(Seq(Nat)) /\ Len(LinesOf(t)) = c + 1
      /\ LinesOf(t)[c + 1] = WithoutReturn(SubSeq(t, s + 1, e))
  <2>1. c + 1 \in 1 .. Count(t)
    BY <1>4
  <2> QED
    BY <1>4, <1>7, <2>1, LinesAre
<1>9. /\ LinesOf(p) \in Seq(Seq(Nat)) /\ Len(LinesOf(p)) = c
      /\ \A k \in 1 .. c : LinesOf(p)[k] = LinesOf(t)[k]
  <2>1. Count(p) = c /\ \A k \in 1 .. c : LinesOf(p)[k] = LinesOf(t)[k]
    BY LinesInFront DEF p, c
  <2> QED
    BY <1>1, <2>1, LinesAre
<1>10. SubSeq(t, s + 1, e) \in Seq(Nat)
  BY <1>1
<1> DEFINE w == WithoutReturn(SubSeq(t, s + 1, e))
           a == LinesOf(p)
           b == LinesOf(t)
<1>11. w \in Seq(Nat)
  BY <1>10, WithoutReturnIs
<1> HIDE DEF w, a, b, c
<1>12. /\ a \in Seq(Seq(Nat)) /\ Len(a) = c /\ b \in Seq(Seq(Nat)) /\ Len(b) = c + 1
       /\ b[c + 1] = w /\ \A k \in 1 .. c : a[k] = b[k]
  BY <1>8, <1>9 DEF a, b, w
<1>13. b = Append(a, w)
  BY <1>11, <1>12
<1> QED
  BY <1>13 DEF a, b, w, p

-----------------------------------------------------------------------------
(* The bytes of characters, one after the other. *)
Chars == {c \in Nat : IsCharacter(c)}
Parts(text) == [k \in DOMAIN text |-> Utf8(text[k])]

(* A character takes up to four bytes, up to three on a console, and they     *)
(* have its number. *)
LEMMA CharIs ==
  ASSUME NEW c \in Chars
  PROVE  /\ Utf8(c) \in Seq(Byte) /\ Len(Utf8(c)) \in 1 .. 4 /\ (c < 65536 => Len(Utf8(c)) <= 3)
         /\ BitsUpTo(Utf8(c), Len(Utf8(c))) = c
<1>1. IsCharacter(c)
  BY DEF Chars
<1> QED
  BY <1>1, Utf8Is DEF Formed

(* Each part of a text is the bytes of one character. *)
LEMMA PartsAre ==
  ASSUME NEW t \in Seq(Chars)
  PROVE  Parts(t) \in Seq(Seq(Byte)) /\ Len(Parts(t)) = Len(t) /\ \A k \in 1 .. Len(t) : Parts(t)[k] = Utf8(t[k])
<1>1. \A k \in 1 .. Len(t) : Utf8(t[k]) \in Seq(Byte)
  BY CharIs
<1>2. DOMAIN t = 1 .. Len(t) /\ Len(t) \in Nat
  OBVIOUS
<1> QED
  BY <1>1, <1>2 DEF Parts

(* The bytes of a text are those of its characters, one after the other. *)
LEMMA BytesAre ==
  /\ Bytes(<< >>) = << >>
  /\ \A c \in Chars : Bytes(<<c>>) = Utf8(c)
  /\ \A t \in Seq(Chars) : Bytes(t) \in Seq(Byte)
  /\ \A t, u \in Seq(Chars) : Bytes(t \o u) = Bytes(t) \o Bytes(u)
<1>1. \A t : Bytes(t) = FlattenSeq(Parts(t))
  BY DEF Bytes, Parts
<1>2. Bytes(<< >>) = << >>
  <2>1. Parts(<< >>) = << >>
    BY DEF Parts
  <2>2. FlattenSeq(<< >>) = << >>
    BY DEF FlattenSeq
  <2> QED
    BY <1>1, <2>1, <2>2
<1>3. ASSUME NEW c \in Chars PROVE Bytes(<<c>>) = Utf8(c)
  <2>1. Parts(<<c>>) = <<Utf8(c)>>
    BY DEF Parts
  <2>2. Utf8(c) \in Seq(Byte)
    BY CharIs
  <2>3. FlattenSeq(<<Utf8(c)>>) = Utf8(c)
    BY <2>2, FlattenOne
  <2> QED
    BY <1>1, <2>1, <2>3
<1>4. ASSUME NEW t \in Seq(Chars) PROVE Bytes(t) \in Seq(Byte)
  <2>1. Parts(t) \in Seq(Seq(Byte)) /\ << >> \in Seq(Byte)
    BY PartsAre
  <2>2. FlattenSeq(Parts(t)) \in Seq(Byte)
    BY <2>1, FlattenAppend
  <2> QED
    BY <1>1, <2>2
<1>5. ASSUME NEW t \in Seq(Chars), NEW u \in Seq(Chars) PROVE Bytes(t \o u) = Bytes(t) \o Bytes(u)
  <2> DEFINE a == Parts(t)
             b == Parts(u)
             c == Parts(t \o u)
             tu == t \o u
  <2>1. /\ tu \in Seq(Chars) /\ Len(tu) = Len(t) + Len(u)
        /\ \A i \in 1 .. Len(t) : tu[i] = t[i]
        /\ \A i \in 1 .. Len(u) : tu[Len(t) + i] = u[i]
    <3> DEFINE V == Chars
    <3>1. t \in Seq(V) /\ u \in Seq(V)
      OBVIOUS
    <3> HIDE DEF V
    <3>2. /\ t \o u \in Seq(V) /\ Len(t \o u) = Len(t) + Len(u)
          /\ \A i \in 1 .. Len(t) : (t \o u)[i] = t[i]
          /\ \A i \in 1 .. Len(u) : (t \o u)[Len(t) + i] = u[i]
      BY <3>1, ConcatIs
    <3> QED
      BY <3>2 DEF V
  <2> HIDE DEF tu
  <2>2. /\ a \in Seq(Seq(Byte)) /\ Len(a) = Len(t) /\ \A k \in 1 .. Len(t) : a[k] = Utf8(t[k])
        /\ b \in Seq(Seq(Byte)) /\ Len(b) = Len(u) /\ \A k \in 1 .. Len(u) : b[k] = Utf8(u[k])
    BY PartsAre
  <2>3. c \in Seq(Seq(Byte)) /\ Len(c) = Len(tu) /\ \A k \in 1 .. Len(tu) : c[k] = Utf8(tu[k])
    BY <2>1, PartsAre DEF tu
  <2> HIDE DEF a, b, c
  <2>4. a \in Seq(Seq(Byte)) /\ b \in Seq(Seq(Byte))
    BY <2>2
  <2> DEFINE ab == a \o b
  <2>5. /\ ab \in Seq(Seq(Byte)) /\ Len(ab) = Len(a) + Len(b)
        /\ \A i \in 1 .. Len(a) : ab[i] = a[i]
        /\ \A i \in 1 .. Len(b) : ab[Len(a) + i] = b[i]
    BY <2>4, ConcatIs
  <2> HIDE DEF ab
  <2>6. ASSUME NEW i \in 1 .. Len(c) PROVE c[i] = ab[i]
    <3> DEFINE x == Len(t)
               y == Len(u)
    <3>1. x \in Nat /\ y \in Nat /\ i \in 1 .. (x + y)
      BY <2>1, <2>3
    <3>2. CASE i <= x
      <4>1. i \in 1 .. x
        BY <3>1, <3>2
      <4>2. c[i] = Utf8(tu[i])
        BY <2>3
      <4>3. tu[i] = t[i]
        BY <2>1, <4>1
      <4>4. a[i] = Utf8(t[i]) /\ ab[i] = a[i]
        BY <2>2, <2>5, <4>1
      <4> QED
        BY <4>2, <4>3, <4>4
    <3>3. CASE i > x
      <4> DEFINE j == i - x
      <4>1. j \in 1 .. y /\ i = x + j
        BY <3>1, <3>3
      <4> HIDE DEF j
      <4>2. c[i] = Utf8(tu[i])
        BY <2>3
      <4>3. tu[i] = u[j]
        BY <2>1, <4>1
      <4>4. b[j] = Utf8(u[j])
        BY <2>2, <4>1
      <4>5. ab[i] = b[j]
        BY <2>2, <2>5, <4>1
      <4> QED
        BY <4>2, <4>3, <4>4, <4>5
    <3> QED
      BY <3>1, <3>2, <3>3
  <2>7. c = ab
    <3>1. Len(c) = Len(ab)
      BY <2>1, <2>2, <2>3, <2>5
    <3>2. c \in Seq(Seq(Byte)) /\ ab \in Seq(Seq(Byte))
      BY <2>3, <2>5
    <3> DEFINE V == Seq(Byte)
    <3>3. c \in Seq(V) /\ ab \in Seq(V)
      BY <3>2
    <3> HIDE DEF V
    <3> QED
      BY <2>6, <3>1, <3>3, SameElements
  <2>8. FlattenSeq(ab) = FlattenSeq(a) \o FlattenSeq(b)
    BY <2>4, FlattenConcat DEF ab
  <2> QED
    BY <1>1, <2>7, <2>8 DEF a, b, c
<1> QED
  BY <1>2, <1>3, <1>4, <1>5

-----------------------------------------------------------------------------
(* Where what stdin holds ends: at the first Ctrl+Z, or with it all. *)
EndsAt(units, z) ==
    /\ z \in 0 .. Len(units)
    /\ \A k \in 1 .. z : ~IsEnd(units[k])
    /\ z < Len(units) => IsEnd(units[z + 1])

(* There is a place where what counts of the units ends. *)
LEMMA SomewhereEnds ==
  ASSUME NEW units \in Seq(Seq(Byte))
  PROVE  \E z : EndsAt(units, z)
<1>1. Len(units) \in Nat /\ DOMAIN units = 1 .. Len(units)
  OBVIOUS
<1>2. CASE Declared(units)
  <2>1. Ends(units) \in SUBSET (0 .. Len(units)) /\ \A k \in Ends(units) : k \in 1 .. Len(units) /\ IsEnd(units[k])
    BY <1>1 DEF Ends
  <2>2. PICK a : a \in Ends(units)
    BY <1>2 DEF Declared
  <2> DEFINE m == Min(Ends(units))
  <2>3. m \in Ends(units) /\ \A x \in Ends(units) : m <= x
    BY <1>1, <2>1, <2>2, BoundsOf
  <2> HIDE DEF m
  <2>4. m \in 1 .. Len(units) /\ IsEnd(units[m])
    BY <2>1, <2>3
  <2>5. \A k \in 1 .. m - 1 : ~IsEnd(units[k])
    <3> TAKE k \in 1 .. m - 1
    <3>1. k \in 1 .. Len(units) /\ ~(m <= k)
      BY <1>1, <2>4
    <3>2. k \notin Ends(units)
      BY <2>3, <3>1
    <3> QED
      BY <1>1, <3>1, <3>2 DEF Ends
  <2>6. EndsAt(units, m - 1)
    <3>1. m - 1 \in 0 .. Len(units) /\ (m - 1) + 1 = m
      BY <1>1, <2>4
    <3> QED
      BY <2>4, <2>5, <3>1 DEF EndsAt
  <2> QED
    BY <2>6
<1>3. CASE ~Declared(units)
  <2>1. EndsAt(units, Len(units))
    BY <1>1, <1>3 DEF EndsAt, Declared, Ends
  <2> QED
    BY <2>1
<1> QED
  BY <1>2, <1>3

(* `refill` keeps what is in front of that place. *)
LEMMA BeforeIs ==
  ASSUME NEW units \in Seq(Seq(Byte)), NEW z, EndsAt(units, z)
  PROVE  Before(units) = SubSeq(units, 1, z) /\ (Declared(units) <=> z < Len(units))
<1>1. Len(units) \in Nat /\ DOMAIN units = 1 .. Len(units) /\ z \in 0 .. Len(units)
  BY DEF EndsAt
<1>2. CASE z < Len(units)
  <2>1. z + 1 \in Ends(units) /\ \A k \in 1 .. z : k \notin Ends(units)
    BY <1>1, <1>2 DEF EndsAt, Ends
  <2>2. Ends(units) \in SUBSET (0 .. Len(units)) /\ \A k \in Ends(units) : k \in 1 .. Len(units)
    BY <1>1 DEF Ends
  <2> DEFINE m == Min(Ends(units))
  <2>3. m \in Ends(units) /\ m <= z + 1
    BY <1>1, <2>1, <2>2, BoundsOf
  <2> HIDE DEF m
  <2>4. m = z + 1
    <3>1. m \in 1 .. Len(units) /\ m \notin 1 .. z
      BY <2>1, <2>2, <2>3
    <3> QED
      BY <1>1, <2>3, <3>1
  <2>5. m - 1 = z
    BY <1>1, <2>4
  <2> QED
    BY <1>2, <2>1, <2>5 DEF Before, Declared, m
<1>3. CASE z = Len(units)
  <2>1. ~Declared(units)
    BY <1>1, <1>3 DEF EndsAt, Declared, Ends
  <2> QED
    BY <1>1, <1>3, <2>1 DEF Before
<1> QED
  <2> DEFINE x == Len(units)
  <2>1. x \in Nat /\ z \in 0 .. x
    BY <1>1
  <2> HIDE DEF x
  <2>2. z < x \/ z = x
    BY <2>1
  <2> QED
    BY <1>2, <1>3, <2>2 DEF x

(* What a read brings and what it leaves make up what there was, unless what *)
(* it brings is the end of it.                                              *)
LEMMA ReadSplits ==
  ASSUME NEW units \in Seq(Seq(Byte)), NEW n \in 1 .. Len(units)
  PROVE  LET u == SubSeq(units, 1, n)
             v == SubSeq(units, n + 1, Len(units))
         IN  /\ u \in Seq(Seq(Byte)) /\ v \in Seq(Seq(Byte))
             /\ FlattenSeq(Before(u)) \in Seq(Byte)
             /\ FlattenSeq(Before(units)) =
                  FlattenSeq(Before(u)) \o (IF Declared(u) THEN << >> ELSE FlattenSeq(Before(v)))
             /\ \E z \in 0 .. n : Before(u) = SubSeq(units, 1, z) /\ (z < n <=> Declared(u))
<1> DEFINE u == SubSeq(units, 1, n)
           v == SubSeq(units, n + 1, Len(units))
           l == Len(units)
<1>1. /\ u \in Seq(Seq(Byte)) /\ v \in Seq(Seq(Byte)) /\ Len(u) = n /\ Len(v) = l - n
      /\ \A k \in 1 .. n : u[k] = units[k]
      /\ \A k \in 1 .. l - n : v[k] = units[n + k]
      /\ l \in Nat /\ n \in Nat /\ n <= l /\ 1 <= n
  OBVIOUS
<1>2. PICK z : EndsAt(units, z)
  BY SomewhereEnds
<1>3. Before(units) = SubSeq(units, 1, z) /\ z \in 0 .. l /\ \A k \in 1 .. z : ~IsEnd(units[k])
  BY <1>2, BeforeIs DEF EndsAt
<1>4. z < l => IsEnd(units[z + 1])
  BY <1>2 DEF EndsAt
<1>5. CASE z < n
  <2>1. EndsAt(u, z)
    <3>1. z \in 0 .. n /\ z + 1 \in 1 .. n /\ z < l
      BY <1>1, <1>3, <1>5
    <3>2. IsEnd(u[z + 1])
      <4> HIDE DEF u, v, l
      <4> QED
        BY <1>1, <1>4, <3>1
    <3>3. \A k \in 1 .. z : k \in 1 .. n
      BY <3>1
    <3> HIDE DEF u, v, l
    <3> QED
      BY <1>1, <1>3, <3>1, <3>2, <3>3 DEF EndsAt
  <2>2. Before(u) = SubSeq(u, 1, z) /\ Declared(u)
    <3> HIDE DEF u
    <3> QED
      BY <1>1, <1>5, <2>1, BeforeIs
  <2>3. SubSeq(u, 1, z) = SubSeq(units, 1, z)
    BY <1>1, <1>3, <1>5
  <2>4. SubSeq(units, 1, z) \in Seq(Seq(Byte))
    BY <1>1, <1>3
  <2> HIDE DEF u, v
  <2>5. FlattenSeq(Before(u)) = FlattenSeq(Before(units)) /\ FlattenSeq(Before(u)) \in Seq(Byte)
    <3>1. << >> \in Seq(Byte)
      OBVIOUS
    <3>2. FlattenSeq(SubSeq(units, 1, z)) \in Seq(Byte)
      BY <2>4, <3>1, FlattenAppend
    <3> QED
      BY <1>3, <2>2, <2>3, <3>2
  <2>6. FlattenSeq(Before(u)) \o << >> = FlattenSeq(Before(u))
    BY <2>5
  <2>7. z \in 0 .. n
    BY <1>1, <1>3, <1>5
  <2> QED
    BY <1>1, <1>5, <2>2, <2>3, <2>5, <2>6, <2>7 DEF u, v
<1>6. CASE z >= n
  <2>1. EndsAt(u, n)
    <3>1. \A k \in 1 .. n : k \in 1 .. z
      BY <1>1, <1>3, <1>6
    <3>2. n \in 0 .. n
      BY <1>1
    <3> HIDE DEF u, v, l
    <3> QED
      <4>1. Len(u) = n /\ ~(n < n) /\ n \in 0 .. Len(u)
        BY <1>1, <3>2
      <4>2. \A k \in 1 .. n : ~IsEnd(u[k])
        BY <1>1, <1>3, <3>1
      <4> QED
        BY <4>1, <4>2 DEF EndsAt
  <2>2. Before(u) = u /\ ~Declared(u)
    <3>1. Before(u) = SubSeq(u, 1, n) /\ ~Declared(u)
      <4> HIDE DEF u
      <4> QED
        BY <1>1, <2>1, BeforeIs
    <3> QED
      BY <1>1, <3>1
  <2> DEFINE y == z - n
  <2>3. EndsAt(v, y)
    <3>1. y \in 0 .. l - n
      BY <1>1, <1>3, <1>6
    <3>2. \A k \in 1 .. y : k \in 1 .. l - n /\ n + k \in 1 .. z
      BY <1>1, <1>3, <1>6
    <3>3. y < l - n => y + 1 \in 1 .. l - n /\ n + (y + 1) = z + 1 /\ z < l
      BY <1>1, <1>3, <1>6
    <3> HIDE DEF u, v, l, y
    <3> QED
      BY <1>1, <1>3, <1>4, <3>1, <3>2, <3>3 DEF EndsAt
  <2>4. Before(v) = SubSeq(v, 1, y)
    <3> HIDE DEF v, y
    <3> QED
      BY <1>1, <2>3, BeforeIs
  <2>5. /\ SubSeq(v, 1, y) \in Seq(Seq(Byte)) /\ Len(SubSeq(v, 1, y)) = y /\ y \in 0 .. l - n
        /\ \A k \in 1 .. y : SubSeq(v, 1, y)[k] = units[n + k]
    <3>1. y \in 0 .. l - n
      BY <1>1, <1>3, <1>6
    <3> HIDE DEF y
    <3>2. \A k \in 1 .. y : k \in 1 .. l - n
      BY <1>1, <3>1
    <3> HIDE DEF v, l, u
    <3> QED
      BY <1>1, <3>1, <3>2
  <2> DEFINE w == SubSeq(v, 1, y)
             b == SubSeq(units, 1, z)
             V == Seq(Byte)
  <2>6. /\ b \in Seq(V) /\ Len(b) = z /\ \A k \in 1 .. z : b[k] = units[k]
    BY <1>3
  <2>7. b = u \o w
    <3>0. u \in Seq(V) /\ w \in Seq(V)
      BY <1>1, <2>5
    <3>1. n + y = z
      BY <1>1, <1>3
    <3> DEFINE uw == u \o w
    <3> HIDE DEF u, w, b, V, y, v, l
    <3>2. /\ uw \in Seq(V) /\ Len(uw) = Len(u) + Len(w)
          /\ \A i \in 1 .. Len(u) : uw[i] = u[i]
          /\ \A i \in 1 .. Len(w) : uw[Len(u) + i] = w[i]
      BY <3>0, ConcatIs
    <3> HIDE DEF uw
    <3>3. ASSUME NEW i \in 1 .. Len(b) PROVE b[i] = uw[i]
      <4>1. i \in 1 .. z /\ b[i] = units[i]
        BY <2>6
      <4>2. CASE i <= n
        <5>1. i \in 1 .. n
          BY <1>1, <4>1, <4>2
        <5> QED
          BY <1>1, <3>2, <4>1, <5>1
      <4>3. CASE i > n
        <5> DEFINE j == i - n
        <5>1. j \in 1 .. y /\ i = n + j
          BY <1>1, <2>5, <3>1, <4>1, <4>3
        <5> HIDE DEF j
        <5>2. w[j] = units[n + j]
          BY <2>5, <5>1 DEF w
        <5>3. Len(w) = y /\ Len(u) = n
          BY <1>1, <2>5 DEF w
        <5> QED
          BY <3>2, <4>1, <5>1, <5>2, <5>3
      <4> QED
        BY <1>1, <4>1, <4>2, <4>3
    <3>4. Len(b) = Len(uw)
      BY <1>1, <2>5, <2>6, <3>1, <3>2 DEF w
    <3>5. b = uw
      BY <2>6, <3>2, <3>3, <3>4, SameElements
    <3> QED
      BY <3>5 DEF uw
  <2>8. u \in Seq(Seq(Byte)) /\ w \in Seq(Seq(Byte)) /\ << >> \in Seq(Byte)
    <3>1. u \in Seq(Seq(Byte))
      BY <1>1
    <3>2. w \in Seq(Seq(Byte))
      BY <2>5
    <3>3. << >> \in Seq(Byte)
      <4> HIDE DEF u, v, w, b, l
      <4> QED
        OBVIOUS
    <3> HIDE DEF u, w
    <3> QED
      BY <3>1, <3>2, <3>3
  <2>9. Before(units) = b /\ Before(v) = w
    BY <1>3, <2>4
  <2> HIDE DEF u, v, w, b
  <2>10. FlattenSeq(u \o w) = FlattenSeq(u) \o FlattenSeq(w) /\ FlattenSeq(u) \in Seq(Byte)
    BY <2>8, FlattenConcat, FlattenAppend
  <2>11. n \in 0 .. n /\ ~(n < n)
    BY <1>1
  <2> QED
    BY <1>1, <2>2, <2>7, <2>9, <2>10, <2>11 DEF u, v
<1> QED
  <2>1. z < n \/ z >= n
    <3> HIDE DEF l
    <3> QED
      BY <1>1, <1>3
  <2> HIDE DEF u, v, l
  <2> QED
    BY <1>5, <1>6, <2>1

(* What is in front of an end is a sequence of bytes. *)
LEMMA BeforeType ==
  ASSUME NEW units \in Seq(Seq(Byte))
  PROVE  FlattenSeq(Before(units)) \in Seq(Byte)
<1>1. PICK e : EndsAt(units, e)
  BY SomewhereEnds
<1> DEFINE V == Seq(Byte)
<1>2. Before(units) = SubSeq(units, 1, e) /\ e \in 0 .. Len(units) /\ units \in Seq(V)
  BY <1>1, BeforeIs DEF EndsAt
<1>3. SubSeq(units, 1, e) \in Seq(V)
  <2> HIDE DEF V
  <2> QED
    BY <1>2
<1>4. Before(units) \in Seq(Seq(Byte))
  BY <1>2, <1>3
<1> QED
  BY <1>4, FlattenAppend

-----------------------------------------------------------------------------
(* What a program is still to see after n characters. *)
From(n) == Bytes(SubSeq(Text, n + 1, Len(Text))) \o source.tail

(* What the assumption says of what stdin holds. *)
LEMMA SourceIs ==
  ASSUME source \in Sources
  PROVE  /\ source.console \in BOOLEAN /\ source.mark \in BOOLEAN
         /\ source.text \in Seq(Chars) /\ source.tail \in Seq(Byte)
         /\ source.text # << >> /\ source.text[1] = MARK => source.mark
         /\ source.console => /\ ~source.mark /\ source.tail = << >>
                              /\ \A k \in 1 .. Len(source.text) : source.text[k] < 65536
         /\ ~StartsWithText(source.tail)
<1>1. /\ source \in SourceType
      /\ \A k \in DOMAIN source.text : IsCharacter(source.text[k])
      /\ ~StartsWithText(source.tail)
      /\ source.text # << >> /\ source.text[1] = MARK => source.mark
      /\ source.console => /\ ~source.mark /\ source.tail = << >>
                           /\ \A k \in DOMAIN source.text : source.text[k] < 65536
  BY SourcesAreInput
<1>2. /\ source.console \in BOOLEAN /\ source.mark \in BOOLEAN
      /\ source.text \in Seq(Nat) /\ source.tail \in Seq(Byte)
  BY <1>1 DEF SourceType
<1> DEFINE t == source.text
<1>3. t \in Seq(Nat) /\ \A k \in DOMAIN t : IsCharacter(t[k])
  BY <1>1, <1>2
<1> HIDE DEF t
<1>4. t \in Seq(Chars) /\ DOMAIN t = 1 .. Len(t)
  <2>1. \A k \in 1 .. Len(t) : t[k] \in Chars
    BY <1>3 DEF Chars
  <2> QED
    BY <1>3, <2>1
<1> QED
  BY <1>1, <1>2, <1>4 DEF t

(* The text a program should see is what is in front of the first Ctrl+Z of *)
(* a console.                                                               *)
LEMMA TextIs ==
  ASSUME source \in Sources
  PROVE  /\ Text \in Seq(Chars)
         /\ ~source.console => Text = source.text
         /\ \E z \in 0 .. Len(source.text) :
               /\ Text = SubSeq(source.text, 1, z)
               /\ source.console => /\ \A k \in 1 .. z : source.text[k] # CTRL_Z
                                    /\ z < Len(source.text) => source.text[z + 1] = CTRL_Z
<1> DEFINE t == source.text
           ends == {k \in DOMAIN t : source.console /\ t[k] = CTRL_Z}
           z == IF ends = {} THEN Len(t) ELSE Min(ends) - 1
<1>1. t \in Seq(Chars) /\ Len(t) \in Nat /\ DOMAIN t = 1 .. Len(t)
  BY SourceIs
<1>2. Text = SubSeq(t, 1, z)
  BY DEF Text
<1>3. CASE ends = {}
  <2>1. z = Len(t) /\ z \in 0 .. Len(t) /\ SubSeq(t, 1, Len(t)) = t
    BY <1>1, <1>3
  <2>2. source.console => \A k \in 1 .. z : t[k] # CTRL_Z
    BY <1>1, <1>3, <2>1
  <2> HIDE DEF z
  <2> QED
    BY <1>1, <1>2, <2>1, <2>2
<1>4. CASE ends # {}
  <2>1. PICK a : a \in ends
    BY <1>4
  <2>2. ends \in SUBSET (0 .. Len(t))
    BY <1>1
  <2> DEFINE m == Min(ends)
  <2>3. m \in ends /\ \A x \in ends : m <= x
    <3> HIDE DEF ends
    <3> QED
      BY <1>1, <2>1, <2>2, BoundsOf
  <2> HIDE DEF m
  <2>4. m \in 1 .. Len(t) /\ t[m] = CTRL_Z /\ source.console
    BY <1>1, <2>3
  <2>5. z = m - 1
    BY <1>4 DEF m
  <2>6. \A k \in 1 .. m - 1 : t[k] # CTRL_Z
    <3> TAKE k \in 1 .. m - 1
    <3>1. k \in 1 .. Len(t) /\ ~(m <= k)
      BY <1>1, <2>4
    <3>2. k \notin ends
      <4> HIDE DEF ends
      <4> QED
        BY <2>3, <3>1
    <3> QED
      BY <1>1, <2>4, <3>1, <3>2
  <2> HIDE DEF ends, z
  <2>7. z \in 0 .. Len(t) /\ z + 1 = m
    BY <1>1, <2>4, <2>5
  <2>8. SubSeq(t, 1, z) \in Seq(Chars)
    BY <1>1, <2>7
  <2> QED
    BY <1>2, <2>4, <2>5, <2>6, <2>7, <2>8
<1> QED
  BY <1>3, <1>4

(* One character less is still to come after each. *)
LEMMA FromIs ==
  ASSUME source \in Sources
  PROVE  /\ Len(Text) \in Nat
         /\ \A n \in 0 .. Len(Text) : From(n) \in Seq(Byte)
         /\ From(0) = Bytes(Text) \o source.tail
         /\ From(Len(Text)) = source.tail
         /\ \A n \in 0 .. Len(Text) - 1 : From(n) = Utf8(Text[n + 1]) \o From(n + 1)
<1> DEFINE t == Text
           tl == source.tail
           rest(n) == SubSeq(t, n + 1, Len(t))
<1>1. t \in Seq(Chars) /\ tl \in Seq(Byte)
  BY SourceIs, TextIs
<1> HIDE DEF t, tl
<1>2. \A n : From(n) = Bytes(rest(n)) \o tl
  BY DEF From, t, tl
<1>3. Len(t) \in Nat
  BY <1>1
<1>4. \A n \in 0 .. Len(t) : rest(n) \in Seq(Chars)
  BY <1>1
<1>5. ASSUME NEW n \in 0 .. Len(t) PROVE Bytes(rest(n)) \in Seq(Byte) /\ From(n) \in Seq(Byte)
  <2>1. rest(n) \in Seq(Chars)
    BY <1>4
  <2> HIDE DEF rest
  <2>2. Bytes(rest(n)) \in Seq(Byte)
    BY <2>1, BytesAre
  <2>3. Bytes(rest(n)) \o tl \in Seq(Byte)
    BY <1>1, <2>2
  <2> QED
    BY <1>2, <2>2, <2>3
<1>6. From(0) = Bytes(t) \o tl
  <2>1. rest(0) = t
    BY <1>1
  <2> HIDE DEF rest
  <2> QED
    BY <1>2, <2>1
<1>7. From(Len(t)) = tl
  <2>1. rest(Len(t)) = << >>
    BY <1>1
  <2>2. << >> \o tl = tl
    BY <1>1
  <2> HIDE DEF rest
  <2>3. From(Len(t)) = Bytes(<< >>) \o tl
    BY <1>2, <2>1
  <2> QED
    BY <2>2, <2>3, BytesAre
<1>8. ASSUME NEW n \in 0 .. Len(t) - 1 PROVE From(n) = Utf8(t[n + 1]) \o From(n + 1)
  <2> DEFINE c == t[n + 1]
             r == rest(n + 1)
  <2>1. n + 1 \in 1 .. Len(t) /\ n + 1 \in 0 .. Len(t)
    BY <1>3
  <2>2. c \in Chars /\ r \in Seq(Chars)
    BY <1>1, <1>4, <2>1
  <2>3. rest(n) = <<c>> \o r
    <3> DEFINE x == Len(t)
               C == Chars
               a == rest(n)
               b == <<c>> \o r
    <3>0. c \in C /\ t \in Seq(C) /\ n + 1 \in 1 .. Len(t)
      BY <1>1, <2>1, <2>2
    <3> HIDE DEF C
    <3>1. a \in Seq(C) /\ Len(a) = x - n /\ \A i \in 1 .. x - n : a[i] = t[n + i]
      BY <3>0
    <3>2. r \in Seq(C) /\ Len(r) = x - (n + 1) /\ \A i \in 1 .. x - (n + 1) : r[i] = t[(n + 1) + i]
      BY <3>0
    <3>3. <<c>> \in Seq(C) /\ Len(<<c>>) = 1 /\ <<c>>[1] = c
      BY <3>0
    <3> HIDE DEF r, a
    <3> DEFINE o == <<c>>
    <3> HIDE DEF o
    <3>4. /\ o \o r \in Seq(C) /\ Len(o \o r) = Len(o) + Len(r)
          /\ \A i \in 1 .. Len(o) : (o \o r)[i] = o[i]
          /\ \A i \in 1 .. Len(r) : (o \o r)[Len(o) + i] = r[i]
      <4>1. o \in Seq(C) /\ r \in Seq(C)
        BY <3>2, <3>3 DEF o
      <4> QED
        BY <4>1, ConcatIs
    <3>5. /\ b \in Seq(C) /\ Len(b) = 1 + Len(r) /\ b[1] = c
          /\ \A i \in 1 .. Len(r) : b[1 + i] = r[i]
      BY <3>3, <3>4 DEF o
    <3> HIDE DEF b, x
    <3>6. x \in Nat /\ n \in Nat /\ n + 1 <= x
      BY <1>3, <2>1 DEF x
    <3>7. Len(a) = Len(b)
      BY <3>1, <3>2, <3>5, <3>6
    <3>8. ASSUME NEW i \in 1 .. Len(a) PROVE a[i] = b[i]
      <4>1. CASE i = 1
        BY <3>1, <3>5, <4>1
      <4>2. CASE i # 1
        <5> DEFINE j == i - 1
        <5>1. j \in 1 .. Len(r) /\ i = 1 + j /\ n + i = (n + 1) + j
          BY <3>1, <3>2, <3>6, <4>2
        <5> HIDE DEF j
        <5> QED
          BY <3>1, <3>2, <3>5, <5>1
      <4> QED
        BY <4>1, <4>2
    <3>9. a = b
      BY <3>1, <3>5, <3>7, <3>8, SameElements
    <3> QED
      BY <3>9 DEF a, b
  <2> HIDE DEF c, r
  <2>4. Bytes(<<c>> \o r) = Bytes(<<c>>) \o Bytes(r) /\ Bytes(<<c>>) = Utf8(c)
    <3>1. <<c>> \in Seq(Chars)
      BY <2>2
    <3> QED
      BY <2>2, <3>1, BytesAre
  <2>5. Utf8(c) \in Seq(Byte) /\ Bytes(r) \in Seq(Byte)
    BY <2>2, CharIs, BytesAre
  <2> DEFINE uc == Utf8(c)
             br == Bytes(r)
  <2>6. (uc \o br) \o tl = uc \o (br \o tl)
    <3> HIDE DEF uc, br
    <3>1. uc \in Seq(Byte) /\ br \in Seq(Byte)
      BY <2>5 DEF uc, br
    <3>2. Regroups(uc, br, tl)
      BY <1>1, <3>1, ConcatAssociates
    <3> QED
      BY <3>2 DEF Regroups
  <2>7. From(n + 1) = Bytes(r) \o tl
    BY <1>2 DEF r
  <2>8. From(n) = Bytes(<<c>> \o r) \o tl
    <3>1. From(n) = Bytes(rest(n)) \o tl
      BY <1>2
    <3> HIDE DEF rest
    <3> QED
      BY <2>3, <3>1
  <2> QED
    BY <2>4, <2>6, <2>7, <2>8 DEF c
<1> QED
  <2> HIDE DEF t, tl
  <2>1. Len(t) \in Nat
    BY <1>3
  <2>2. \A n \in 0 .. Len(t) : From(n) \in Seq(Byte)
    BY <1>5
  <2>3. \A n \in 0 .. Len(t) - 1 : From(n) = Utf8(t[n + 1]) \o From(n + 1)
    BY <1>8
  <2> QED
    BY <1>6, <1>7, <2>1, <2>2, <2>3 DEF t, tl

(* One character is the Ctrl+Z of a console. *)
LEMMA CtrlZIs ==
  ASSUME NEW c \in Chars, Utf8(c) = <<CTRL_Z>>
  PROVE  c = CTRL_Z
<1>2. BitsUpTo(Utf8(c), Len(Utf8(c))) = c
  <2>1. c \in Chars
    OBVIOUS
  <2> QED
    BY ONLY <2>1, CharIs
<1>3. Len(<<CTRL_Z>>) = 1 /\ <<CTRL_Z>>[1] = CTRL_Z
  OBVIOUS
<1>4. BitsUpTo(<<CTRL_Z>>, 1) = CTRL_Z
  BY <1>3 DEF BitsUpTo, LeadBits, FormOf, CTRL_Z
<1> QED
  BY <1>2, <1>3, <1>4

(* The byte order mark is a character of three bytes. *)
LEMMA MarkIs ==
  /\ MARK \in Chars /\ Utf8(MARK) \in Seq(Byte) /\ Len(Utf8(MARK)) = 3
  /\ \A b : Marked(b) \in Seq(Chars)
  /\ Bytes(<<MARK>>) = Utf8(MARK)
<1>1. MARK \in Chars
  BY DEF MARK, Chars, IsCharacter, Surrogate
<1>2. Utf8(MARK) \in Seq(Byte)
  BY <1>1, CharIs
<1>3. Utf8(MARK) = EncodeIn(3, MARK)
  BY DEF Utf8, MARK
<1>4. EncodeIn(3, MARK) = <<224 + MARK \div 4096, Trail(MARK \div 64), Trail(MARK)>>
  BY DEF EncodeIn
<1>5. Len(Utf8(MARK)) = 3
  BY <1>3, <1>4
<1>6. <<MARK>> \in Seq(Chars) /\ << >> \in Seq(Chars)
  BY <1>1
<1> QED
  BY <1>1, <1>2, <1>5, <1>6, BytesAre DEF Marked

(* What stdin holds at the start: the mark if there is one, and all that a   *)
(* program should see.                                                      *)
LEMMA UnitsAre ==
  ASSUME source \in Sources
  PROVE  /\ Units(source) \in Seq(Seq(Byte))
         /\ \A k \in 1 .. Len(Units(source)) :
               /\ Len(Units(source)[k]) >= 1
               /\ Len(Units(source)[k]) <= IF source.console THEN 3 ELSE 1
         /\ FlattenSeq(Before(Units(source))) = Bytes(Marked(source)) \o From(0)
<1> DEFINE t == source.text
           tl == source.tail
           us == Units(source)
<1>1. t \in Seq(Chars) /\ tl \in Seq(Byte)
  BY SourceIs
<1>2. Marked(source) \in Seq(Chars)
  BY MarkIs
<1>3. CASE ~source.console
  <2> DEFINE all == Bytes(Marked(source) \o t) \o tl
             m == Bytes(Marked(source))
             b == Bytes(t)
  <2>1. m \in Seq(Byte) /\ b \in Seq(Byte) /\ Bytes(Marked(source) \o t) = m \o b
    BY <1>1, <1>2, BytesAre
  <2>2. us = [k \in DOMAIN all |-> <<all[k]>>]
    BY <1>3 DEF Units
  <2>3. all = (m \o b) \o tl
    BY <2>1
  <2> HIDE DEF m, b, t, tl
  <2>4. (m \o b) \o tl = m \o (b \o tl) /\ (m \o b) \o tl \in Seq(Byte)
    <3>4. Regroups(m, b, tl)
      BY <1>1, <2>1, ConcatAssociates
    <3>1. (m \o b) \o tl = m \o (b \o tl)
      BY <3>4 DEF Regroups
    <3>2. b \o tl \in Seq(Byte)
      BY <1>1, <2>1
    <3>3. m \o (b \o tl) \in Seq(Byte)
      BY <2>1, <3>2
    <3> QED
      BY <3>1, <3>3
  <2>5. all \in Seq(Byte)
    BY <2>3, <2>4
  <2> HIDE DEF all, us
  <2>6. us \in Seq(Seq(Byte)) /\ FlattenSeq(us) = all
    BY <2>2, <2>5, FlattenSingles
  <2>7. Len(us) = Len(all) /\ \A k \in 1 .. Len(us) : us[k] = <<all[k]>>
    BY <2>2, <2>5
  <2>8. EndsAt(us, Len(us))
    <3>1. Len(us) \in Nat
      BY <2>6
    <3> QED
      BY <1>3, <3>1 DEF EndsAt, IsEnd
  <2>9. Before(us) = us
    <3>1. Before(us) = SubSeq(us, 1, Len(us))
      BY <2>6, <2>8, BeforeIs
    <3> QED
      BY <2>6, <3>1
  <2>10. From(0) = b \o tl
    <3>1. Text = source.text /\ From(0) = Bytes(Text) \o source.tail
      BY <1>3, TextIs, FromIs
    <3> QED
      BY <3>1 DEF b, t, tl
  <2>11. \A k \in 1 .. Len(us) : Len(us[k]) >= 1 /\ Len(us[k]) <= 1
    <3> TAKE k \in 1 .. Len(us)
    <3> DEFINE x == all[k]
    <3>1. us[k] = <<x>>
      BY <2>7
    <3> HIDE DEF x
    <3>2. Len(<<x>>) = 1
      OBVIOUS
    <3> QED
      BY <3>1, <3>2
  <2>12. FlattenSeq(Before(us)) = Bytes(Marked(source)) \o From(0)
    BY <2>3, <2>4, <2>6, <2>9, <2>10 DEF m
  <2> QED
    BY <1>3, <2>6, <2>11, <2>12 DEF us
<1>4. CASE source.console
  <2>1. ~source.mark /\ tl = << >> /\ \A k \in 1 .. Len(t) : t[k] < 65536
    BY <1>4, SourceIs
  <2>2. us = Parts(t)
    BY <1>4 DEF Units, Parts
  <2>3. us \in Seq(Seq(Byte)) /\ Len(us) = Len(t) /\ \A k \in 1 .. Len(t) : us[k] = Utf8(t[k])
    BY <1>1, <2>2, PartsAre
  <2>4. PICK z \in 0 .. Len(t) :
          /\ Text = SubSeq(t, 1, z)
          /\ \A k \in 1 .. z : t[k] # CTRL_Z
          /\ z < Len(t) => t[z + 1] = CTRL_Z
    BY <1>4, TextIs
  <2> HIDE DEF us, t, tl
  <2>5. Len(t) \in Nat /\ z \in Nat /\ z <= Len(t) /\ \A k \in 1 .. Len(t) : t[k] \in Chars
    BY <1>1, <2>4
  <2>6. EndsAt(us, z)
    <3>1. \A k \in 1 .. z : ~IsEnd(us[k])
      <4> TAKE k \in 1 .. z
      <4>1. k \in 1 .. Len(t)
        BY <2>5
      <4>2. t[k] \in Chars /\ us[k] = Utf8(t[k]) /\ t[k] # CTRL_Z
        BY <2>3, <2>4, <2>5, <4>1
      <4> QED
        BY <4>2, CtrlZIs DEF IsEnd
    <3>2. z < Len(us) => IsEnd(us[z + 1])
      <4> SUFFICES ASSUME z < Len(us) PROVE IsEnd(us[z + 1])
        OBVIOUS
      <4>1. z + 1 \in 1 .. Len(t) /\ z < Len(t)
        BY <2>3, <2>5
      <4>2. us[z + 1] = Utf8(CTRL_Z)
        BY <2>3, <2>4, <4>1
      <4>3. Utf8(CTRL_Z) = <<CTRL_Z>>
        BY DEF Utf8, EncodeIn, CTRL_Z
      <4> QED
        BY <1>4, <4>2, <4>3 DEF IsEnd
    <3>3. z \in 0 .. Len(us)
      BY <2>3, <2>4
    <3> QED
      BY <3>1, <3>2, <3>3 DEF EndsAt
  <2>7. Before(us) = SubSeq(us, 1, z)
    BY <2>3, <2>6, BeforeIs
  <2>8. Text \in Seq(Chars) /\ Len(Text) = z /\ \A k \in 1 .. z : Text[k] = t[k]
    <3> DEFINE C == Chars
    <3>1. t \in Seq(C) /\ z \in 0 .. Len(t)
      BY <1>1, <2>4
    <3> HIDE DEF C
    <3>2. SubSeq(t, 1, z) \in Seq(C) /\ Len(SubSeq(t, 1, z)) = z /\ \A k \in 1 .. z : SubSeq(t, 1, z)[k] = t[k]
      BY <2>5, <3>1
    <3> QED
      BY <2>4, <3>2 DEF C
  <2>9. Before(us) = Parts(Text)
    <3> DEFINE V == Seq(Byte)
               x == SubSeq(us, 1, z)
               y == Parts(Text)
    <3>1. us \in Seq(V) /\ y \in Seq(V) /\ Len(y) = z /\ \A k \in 1 .. z : y[k] = Utf8(Text[k])
      BY <2>3, <2>8, PartsAre
    <3> HIDE DEF V, y
    <3>2. x \in Seq(V) /\ Len(x) = z /\ \A k \in 1 .. z : x[k] = us[k]
      BY <2>3, <2>5, <3>1
    <3> HIDE DEF x
    <3>3. \A k \in 1 .. z : x[k] = y[k]
      <4> TAKE k \in 1 .. z
      <4>1. k \in 1 .. Len(t)
        BY <2>5
      <4> QED
        BY <2>3, <2>8, <3>1, <3>2, <4>1
    <3>4. x = y
      BY <3>1, <3>2, <3>3, SameElements
    <3> QED
      BY <2>7, <3>4 DEF x, y
  <2>10. FlattenSeq(Before(us)) = Bytes(Text)
    BY <2>9 DEF Bytes, Parts
  <2>11. From(0) = Bytes(Text) /\ Bytes(Text) \in Seq(Byte)
    <3>1. Bytes(Text) \in Seq(Byte)
      BY <2>8, BytesAre
    <3>2. From(0) = Bytes(Text) \o << >>
      BY <2>1, FromIs DEF tl
    <3> DEFINE x == Bytes(Text)
    <3> HIDE DEF x
    <3>3. x \o << >> = x
      BY <3>1 DEF x
    <3> QED
      BY <3>1, <3>2, <3>3 DEF x
  <2>12. Bytes(Marked(source)) = << >>
    BY <2>1, BytesAre DEF Marked
  <2>13. << >> \o Bytes(Text) = Bytes(Text)
    BY <2>11
  <2>14. \A k \in 1 .. Len(us) : Len(us[k]) >= 1 /\ Len(us[k]) <= 3
    <3> TAKE k \in 1 .. Len(us)
    <3>1. k \in 1 .. Len(t)
      BY <2>3
    <3>2. us[k] = Utf8(t[k]) /\ t[k] \in Chars /\ t[k] < 65536
      BY <2>1, <2>3, <2>5, <3>1
    <3>3. Len(Utf8(t[k])) \in 1 .. 4 /\ Len(Utf8(t[k])) <= 3
      BY <3>2, CharIs
    <3> DEFINE n == Len(Utf8(t[k]))
    <3>4. n \in 1 .. 4 /\ n <= 3 /\ Len(us[k]) = n
      BY <3>2, <3>3
    <3> HIDE DEF n
    <3> QED
      BY <3>4
  <2> QED
    BY <1>4, <2>3, <2>10, <2>11, <2>12, <2>13, <2>14 DEF us
<1>5. source.console \in BOOLEAN
  BY SourceIs
<1> QED
  BY <1>3, <1>4, <1>5

-----------------------------------------------------------------------------
(* What arrived and what will, up to the end that is declared. *)
Pending == waiting \o (IF done THEN << >> ELSE FlattenSeq(Before(left)))

Resting == at \in {"program", "first", "eof"}

(* n characters were taken, and the line being read begins behind the s-th.   *)
AtPlace(n, s) ==
    /\ n \in 0 .. Len(Text) /\ s \in 0 .. n
    /\ s = 0 \/ Text[s] = NEWLINE \/ (s = Len(Text) /\ source.tail = << >>)
    /\ \A m \in s + 1 .. n : Text[m] # NEWLINE
    /\ lines = LinesOf(SubSeq(Text, 1, s))
    /\ line = SubSeq(Text, s + 1, n)
    /\ Resting => n = s
    /\ at = "more" => s < n

(* And of what follows those k bytes, which were decoded this far. *)
Decoding(bytes, k) ==
    IF at # "continuation" THEN k = 0
    ELSE /\ FormOf(bytes[1]) \in 2 .. 4
         /\ k \in 1 .. FormOf(bytes[1]) - 1
         /\ owed = FormOf(bytes[1]) - k
         /\ least = LeastIn(FormOf(bytes[1]))
         /\ partial = BitsUpTo(bytes, k)
         /\ \A j \in 2 .. k : IsContinuation(bytes[j])

(* The rest is pending, with the mark if nothing was read. *)
Holding(n, k) ==
    IF first_read THEN /\ k \in 0 .. Len(From(n))
                       /\ Pending = SubSeq(From(n), k + 1, Len(From(n)))
    ELSE n = 0 /\ waiting = << >> /\ Resting /\ Pending = Bytes(Marked(source)) \o From(0)

Following == \E n, k, s : AtPlace(n, s) /\ Holding(n, k) /\ Decoding(From(n), k)

Answered ==
    /\ answer = "over" => Resting /\ Pending = << >>
    /\ answer = "more" /\ Resting => waiting # << >>

Typed ==
    /\ source \in Sources
    /\ left \in Seq(Seq(Byte))
    /\ \A k \in 1 .. Len(left) :
          Len(left[k]) >= 1 /\ Len(left[k]) <= IF source.console THEN 3 ELSE 1
    /\ waiting \in Seq(Byte) /\ Len(waiting) <= INPUT_BYTES
    /\ first_read \in BOOLEAN /\ done \in BOOLEAN
    /\ at \in {"program", "first", "more", "continuation", "eof"}
    /\ partial \in Nat /\ owed \in 0 .. 3 /\ least \in Nat
    /\ line \in Seq(Nat) /\ lines \in Seq(Seq(Nat))
    /\ answer \in {"unknown", "over", "more"}
    /\ stopped \in {"no", "no_input", "bad_utf8", "failed"}

InputInv ==
    /\ Typed
    /\ Running => Following /\ Answered
    /\ ~Running => IsPrefix(lines, Readable) /\ EofIsHonest /\ RefusesOnlyNonText

-----------------------------------------------------------------------------
(* The text is made of characters, which are numbers. *)
LEMMA TextType ==
  ASSUME source \in Sources
  PROVE  Text \in Seq(Nat) /\ Text \in Seq(Chars) /\ Len(Text) \in Nat
<1>1. Text \in Seq(Chars)
  BY TextIs
<1> DEFINE t == Text
<1> HIDE DEF t
<1>2. t \in Seq(Nat)
  <2>1. \A c \in Chars : c \in Nat
    BY DEF Chars
  <2>2. t \in Seq(Chars)
    BY <1>1 DEF t
  <2>3. \A i \in 1 .. Len(t) : t[i] \in Nat
    BY <2>1, <2>2
  <2> QED
    BY <2>2, <2>3
<1> QED
  BY <1>1, <1>2 DEF t

(* Nothing is left only behind the last character. *)
LEMMA NothingLeft ==
  ASSUME source \in Sources, NEW n \in 0 .. Len(Text), From(n) = << >>
  PROVE  n = Len(Text) /\ source.tail = << >>
<1>1. Len(Text) \in Nat /\ Text \in Seq(Chars)
  BY TextType
<1>2. CASE n = Len(Text)
  BY <1>2, FromIs
<1>3. CASE n # Len(Text)
  <2> DEFINE c == Text[n + 1]
             r == From(n + 1)
  <2>1. n \in 0 .. Len(Text) - 1 /\ n + 1 \in 0 .. Len(Text) /\ n + 1 \in 1 .. Len(Text)
    BY <1>1, <1>3
  <2>2. From(n) = Utf8(c) \o r /\ r \in Seq(Byte)
    BY <2>1, FromIs
  <2>3. c \in Chars
    BY <1>1, <2>1
  <2> HIDE DEF c, r
  <2>4. Utf8(c) \in Seq(Byte) /\ Len(Utf8(c)) \in 1 .. 4
    BY <2>3, CharIs
  <2>5. Len(Utf8(c) \o r) = Len(Utf8(c)) + Len(r) /\ Len(r) \in Nat
    BY <2>2, <2>4
  <2>6. Len(Utf8(c) \o r) = 0
    <3>1. Utf8(c) \o r = << >>
      BY <2>2
    <3> QED
      BY <3>1
  <2> DEFINE x == Len(Utf8(c))
             y == Len(r)
             z == Len(Utf8(c) \o r)
  <2>7. x \in 1 .. 4 /\ y \in Nat /\ z = x + y /\ z = 0
    BY <2>4, <2>5, <2>6
  <2> HIDE DEF x, y, z
  <2> QED
    BY <2>7
<1> QED
  BY <1>2, <1>3

(* When nothing is pending between two characters, all of the text was taken. *)
LEMMA AllTaken ==
  ASSUME source \in Sources, NEW n \in 0 .. Len(Text), Holding(n, 0), Pending = << >>
  PROVE  n = Len(Text) /\ source.tail = << >>
<1>1. From(n) \in Seq(Byte) /\ From(0) \in Seq(Byte)
  <2>1. 0 \in 0 .. Len(Text)
    BY TextType
  <2> QED
    BY <2>1, FromIs
<1>2. From(n) = << >>
  <2>1. CASE first_read
    <3>1. SubSeq(From(n), 0 + 1, Len(From(n))) = << >>
      BY <2>1 DEF Holding
    <3> DEFINE f == From(n)
    <3> HIDE DEF f
    <3>2. SubSeq(f, 0 + 1, Len(f)) = f
      BY <1>1 DEF f
    <3> QED
      BY <3>1, <3>2 DEF f
  <2>2. CASE ~first_read
    <3>1. n = 0 /\ Bytes(Marked(source)) \o From(0) = << >>
      BY <2>2 DEF Holding
    <3> DEFINE m == Bytes(Marked(source))
               f == From(0)
    <3>2. m \in Seq(Byte) /\ f \in Seq(Byte)
      BY <1>1, MarkIs, BytesAre
    <3> HIDE DEF m, f
    <3>3. Len(m \o f) = Len(m) + Len(f) /\ Len(m) \in Nat /\ Len(f) \in Nat
      BY <3>2
    <3>4. Len(m \o f) = 0
      <4>1. m \o f = << >>
        BY <3>1 DEF m, f
      <4> QED
        BY <4>1
    <3>5. f = << >>
      BY <3>2, <3>3, <3>4
    <3> QED
      BY <3>1, <3>5 DEF f
  <2> QED
    BY <2>1, <2>2
<1> QED
  BY <1>2, NothingLeft

(* The lines that were answered are the first of those that can be read, and *)
(* when the whole text was taken and bytes follow that spell nothing, they   *)
(* are all of them, and the line being read is what is behind the last.     *)
LEMMA LinesFollow ==
  ASSUME source \in Sources, NEW n, NEW s, AtPlace(n, s)
  PROVE  /\ IsPrefix(lines, Readable)
         /\ s = Len(Text) => lines = LinesOf(Text)
         /\ n = Len(Text) /\ source.tail # << >> => lines = Readable /\ line = Unread
<1> DEFINE t == Text
           tl == source.tail
           x == Len(t)
           a == Append(t, 0)
<1>1. t \in Seq(Nat) /\ x \in Nat /\ DOMAIN t = 1 .. x
  BY TextType
<1>2. /\ n \in 0 .. x /\ s \in 0 .. n
      /\ s = 0 \/ t[s] = NEWLINE \/ (s = x /\ tl = << >>)
      /\ \A m \in s + 1 .. n : t[m] # NEWLINE
      /\ lines = LinesOf(SubSeq(t, 1, s))
      /\ line = SubSeq(t, s + 1, n)
  BY DEF AtPlace
<1>3. Readable = IF tl = << >> THEN LinesOf(t) ELSE Front(LinesOf(a))
  BY DEF Readable
<1>4. Unread = SubSeq(t, 1 + Max({0} \cup {k \in DOMAIN t : t[k] = NEWLINE}), x)
  BY DEF Unread
<1>5. x = Len(t)
  OBVIOUS
<1> HIDE DEF t, tl, x
<1>6. n \in Nat /\ s \in Nat /\ n <= x /\ s <= n /\ s \in 0 .. x
  BY <1>1, <1>2
<1>7. s = x => lines = LinesOf(t)
  <2> SUFFICES ASSUME s = x PROVE lines = LinesOf(t)
    OBVIOUS
  <2>1. SubSeq(t, 1, x) = t
    BY <1>1, <1>5
  <2> QED
    BY <1>2, <2>1
<1>8. s \in 0 .. Len(t)
  BY <1>5, <1>6
<1> DEFINE L == Seq(Nat)
<1>9. LinesOf(t) \in Seq(L) /\ Len(LinesOf(t)) = Count(t) /\ Count(t) \in Nat
  BY <1>1, LinesAre
<1>10. CASE tl = << >>
  <2>1. IsPrefix(lines, LinesOf(t))
    <3>1. CASE s = x
      <4> DEFINE b == LinesOf(t)
      <4> HIDE DEF b
      <4>1. b \in Seq(L)
        BY <1>9 DEF b
      <4> HIDE DEF L
      <4>2. IsPrefix(b, b)
        BY <4>1, PrefixOf
      <4> QED
        BY <1>7, <3>1, <4>2 DEF b
    <3>2. CASE s # x
      <4>1. s = 0 \/ t[s] = NEWLINE
        BY <1>2, <3>2
      <4>2. /\ Count(SubSeq(t, 1, s)) = Newlines(t, s)
            /\ Newlines(t, s) <= Count(t)
            /\ \A k \in 1 .. Newlines(t, s) : LinesOf(SubSeq(t, 1, s))[k] = LinesOf(t)[k]
        BY <1>1, <1>8, <4>1, LinesInFront
      <4>3. SubSeq(t, 1, s) \in Seq(Nat)
        BY <1>1, <1>8
      <4>4. lines \in Seq(L) /\ Len(lines) = Newlines(t, s)
        BY <1>2, <4>2, <4>3, LinesAre
      <4> DEFINE b == LinesOf(t)
      <4>5. b \in Seq(L) /\ Len(lines) <= Len(b) /\ \A k \in 1 .. Len(lines) : lines[k] = b[k]
        BY <1>2, <1>9, <4>2, <4>4
      <4> HIDE DEF b, L
      <4> QED
        BY <4>4, <4>5, PrefixOf DEF b
    <3> QED
      BY <3>1, <3>2
  <2> QED
    BY <1>3, <1>7, <1>10, <2>1 DEF t, tl, x
<1>11. CASE tl # << >>
  <2>1. s = 0 \/ t[s] = NEWLINE
    BY <1>2, <1>11
  <2>2. /\ a \in Seq(Nat) /\ Len(a) = x + 1 /\ \A k \in 1 .. x : a[k] = t[k]
        /\ a[x + 1] = 0
    BY <1>1, <1>5
  <2>3. SubSeq(a, 1, s) = SubSeq(t, 1, s)
    BY <1>1, <1>5, <1>6
  <2> HIDE DEF a
  <2>4. /\ s \in 0 .. Len(a) /\ s < Len(a) /\ (s = 0 \/ a[s] = NEWLINE)
    <3>1. s \in 0 .. x + 1 /\ s < x + 1
      BY <1>1, <1>6
    <3>2. s # 0 => s \in 1 .. x
      BY <1>1, <1>6
    <3> QED
      BY <2>1, <2>2, <3>1, <3>2
  <2>5. /\ Count(SubSeq(a, 1, s)) = Newlines(a, s)
        /\ Newlines(a, s) < Count(a)
        /\ \A k \in 1 .. Newlines(a, s) : LinesOf(SubSeq(a, 1, s))[k] = LinesOf(a)[k]
    BY <2>2, <2>4, LinesInFront
  <2>6. SubSeq(a, 1, s) \in Seq(Nat)
    BY <2>2, <2>4
  <2>7. lines \in Seq(L) /\ Len(lines) = Newlines(a, s)
    BY <1>2, <2>3, <2>5, <2>6, LinesAre
  <2>8. LinesOf(a) \in Seq(L) /\ Len(LinesOf(a)) = Count(a) /\ Count(a) \in Nat
    BY <2>2, LinesAre
  <2>9. IsPrefix(lines, Front(LinesOf(a)))
    <3> DEFINE b == LinesOf(a)
    <3>1. /\ b \in Seq(L) /\ Len(lines) <= Len(b) /\ Len(lines) < Len(b)
          /\ \A k \in 1 .. Len(lines) : lines[k] = b[k]
      <4>1. Len(lines) < Len(b) /\ Len(lines) \in Nat /\ Len(b) \in Nat
        BY <2>5, <2>7, <2>8
      <4>2. Len(lines) <= Len(b)
        BY <4>1
      <4> QED
        BY <1>2, <2>3, <2>5, <2>7, <2>8, <4>1, <4>2
    <3> HIDE DEF b, L
    <3> QED
      BY <2>7, <3>1, PrefixOf DEF b
  <2>10. ASSUME n = x PROVE lines = Readable /\ line = Unread
    <3>1. \A m \in s + 1 .. x : t[m] # NEWLINE
      BY <1>2, <2>10
    <3>2. lines = Readable
      <4> DEFINE e == x + 1
      <4>1. \A m \in s + 1 .. e : a[m] # NEWLINE
        <5> TAKE m \in s + 1 .. e
        <5>1. CASE m = x + 1
          BY <2>2, <5>1 DEF NEWLINE
        <5>2. CASE m # x + 1
          <6>1. m \in s + 1 .. x /\ m \in 1 .. x
            BY <1>1, <1>6, <5>2
          <6> QED
            BY <2>2, <3>1, <6>1
        <5> QED
          BY <5>1, <5>2
      <4>2. e \in s .. Len(a) /\ e = Len(a)
        BY <1>1, <1>6, <2>2
      <4> DEFINE w == WithoutReturn(SubSeq(a, s + 1, e))
      <4> HIDE DEF e
      <4>3. LinesOf(a) = Append(LinesOf(SubSeq(a, 1, s)), w)
        BY <2>2, <2>4, <4>1, <4>2, LineMore
      <4>4. w \in Seq(Nat)
        <5>1. SubSeq(a, s + 1, e) \in Seq(Nat)
          BY <1>6, <2>2, <4>2
        <5> QED
          BY <5>1, WithoutReturnIs
      <4> HIDE DEF w
      <4>5. LinesOf(a) = Append(lines, w)
        BY <1>2, <2>3, <4>3
      <4>6. Front(Append(lines, w)) = lines
        <5>1. lines \in Seq(L) /\ w \in L
          BY <2>7, <4>4
        <5> HIDE DEF L
        <5>2. Len(Append(lines, w)) - 1 = Len(lines)
          BY <5>1
        <5>3. SubSeq(Append(lines, w), 1, Len(lines)) = lines
          BY <5>1
        <5> QED
          BY <5>2, <5>3 DEF Front
      <4> QED
        BY <1>3, <1>11, <4>5, <4>6
    <3>3. line = Unread
      <4> DEFINE P == {0} \cup {k \in DOMAIN t : t[k] = NEWLINE}
                 m == Max(P)
      <4>1. P \in SUBSET (0 .. x)
        BY <1>1
      <4>2. s \in P
        <5>1. s # 0 => s \in 1 .. x
          BY <1>1, <1>6
        <5> QED
          BY <1>1, <2>1, <5>1
      <4>3. \A p \in P : p <= s
        <5> TAKE p \in P
        <5>1. CASE p = 0
          BY <1>6, <5>1
        <5>2. CASE p # 0
          <6>1. p \in 1 .. x /\ t[p] = NEWLINE
            BY <1>1, <5>2
          <6>2. p \notin s + 1 .. x
            BY <3>1, <6>1
          <6> QED
            BY <1>1, <1>6, <6>1, <6>2
        <5> QED
          BY <5>1, <5>2
      <4> HIDE DEF P
      <4>4. m \in P /\ s <= m
        BY <1>1, <4>1, <4>2, BoundsOf
      <4>5. m <= s /\ m \in 0 .. x
        BY <4>1, <4>3, <4>4
      <4>6. m = s
        BY <1>6, <4>4, <4>5
      <4>7. 1 + s = s + 1
        BY <1>6
      <4>8. Unread = SubSeq(t, 1 + m, x)
        BY <1>4 DEF P
      <4> QED
        BY <1>2, <2>10, <4>6, <4>7, <4>8
    <3> QED
      BY <3>2, <3>3
  <2>11. IsPrefix(lines, Readable)
    BY <1>3, <1>11, <2>9
  <2>12. s = Len(Text) => lines = LinesOf(Text)
    BY <1>7 DEF t, x
  <2>13. n = Len(Text) => lines = Readable /\ line = Unread
    BY <2>10 DEF t, x
  <2> QED
    BY <2>11, <2>12, <2>13
<1> QED
  BY <1>10, <1>11

(* What the invariant says of the properties. *)
LEMMA InputMeans ==
  ASSUME InputInv
  PROVE  ReadsTheText /\ EofIsHonest /\ RefusesOnlyNonText
<1>1. source \in Sources
  BY DEF InputInv, Typed
<1>2. TypeOK
  <2>1. source \in SourceType
    BY <1>1, SourcesAreInput
  <2> QED
    BY <2>1 DEF InputInv, Typed, TypeOK
<1>3. CASE Running
  <2>1. Following /\ Answered /\ stopped = "no"
    BY <1>3 DEF InputInv, Running
  <2>2. PICK n, k, s : AtPlace(n, s) /\ Holding(n, k) /\ Decoding(From(n), k)
    BY <2>1 DEF Following
  <2>3. IsPrefix(lines, Readable) /\ (s = Len(Text) => lines = LinesOf(Text))
    BY <1>1, <2>2, LinesFollow
  <2>4. ASSUME answer = "over" PROVE source.tail = << >> /\ lines = LinesOf(Text)
    <3>1. Resting /\ Pending = << >>
      BY <2>1, <2>4 DEF Answered
    <3>2. k = 0
      BY <2>2, <3>1 DEF Resting, Decoding
    <3>3. n \in 0 .. Len(Text) /\ n = s
      BY <2>2, <3>1 DEF AtPlace
    <3>4. n = Len(Text) /\ source.tail = << >>
      BY <1>1, <2>2, <3>1, <3>2, <3>3, AllTaken
    <3> QED
      BY <2>3, <3>3, <3>4
  <2> QED
    BY <1>2, <2>1, <2>3, <2>4 DEF ReadsTheText, EofIsHonest, RefusesOnlyNonText
<1>4. CASE ~Running
  BY <1>2, <1>4 DEF InputInv, ReadsTheText
<1> QED
  BY <1>3, <1>4

-----------------------------------------------------------------------------
(* The bits of one byte more. *)
LEMMA BitsGrow ==
  ASSUME NEW bytes, NEW k \in 1 .. 3
  PROVE  BitsUpTo(bytes, k + 1) = (BitsUpTo(bytes, k) * 64) + (bytes[k + 1] % 64)
<1>1. CASE k = 1
  BY <1>1 DEF BitsUpTo, Joined
<1>2. CASE k = 2
  BY <1>2 DEF BitsUpTo, Joined
<1>3. CASE k = 3
  BY <1>3 DEF BitsUpTo, Joined
<1> QED
  BY <1>1, <1>2, <1>3

(* Only the bytes themselves count. *)
LEMMA SameBits ==
  ASSUME NEW a, NEW b, NEW k \in 1 .. 4, \A j \in 1 .. k : a[j] = b[j]
  PROVE  BitsUpTo(a, k) = BitsUpTo(b, k)
<1>1. 1 \in 1 .. k
  OBVIOUS
<1>2. CASE k = 1
  BY <1>2 DEF BitsUpTo
<1>3. CASE k = 2
  BY <1>3 DEF BitsUpTo
<1>4. CASE k = 3
  BY <1>4 DEF BitsUpTo
<1>5. CASE k = 4
  BY <1>5 DEF BitsUpTo
<1> QED
  BY <1>2, <1>3, <1>4, <1>5

(* What a decoder computes from bytes in the form of one character is what    *)
(* they have for it.                                                        *)
LEMMA BitsAgree ==
  ASSUME NEW bytes, Formed(bytes)
  PROVE  BitsOf(bytes) = BitsUpTo(bytes, Len(bytes)) /\ Len(bytes) \in 1 .. 4
<1> DEFINE b == bytes[1]
<1>1. Len(bytes) = FormOf(b) /\ Len(bytes) # 0
  BY DEF Formed
<1>2. FormOf(b) \in {0, 1, 2, 3, 4}
  BY DEF FormOf
<1>3. FormOf(b) \in {1, 2, 3, 4}
  BY <1>1, <1>2
<1>4. CASE FormOf(b) = 1
  BY <1>1, <1>4 DEF BitsOf, BitsUpTo, LeadBits
<1>5. CASE FormOf(b) = 2
  BY <1>1, <1>5 DEF BitsOf, BitsUpTo, LeadBits, Joined
<1>6. CASE FormOf(b) = 3
  BY <1>1, <1>6 DEF BitsOf, BitsUpTo, LeadBits, Joined
<1>7. CASE FormOf(b) = 4
  BY <1>1, <1>7 DEF BitsOf, BitsUpTo, LeadBits, Joined
<1> QED
  BY <1>1, <1>3, <1>4, <1>5, <1>6, <1>7

(* What is in front of the bytes of a character: its own bytes. *)
LEMMA CharComes ==
  ASSUME source \in Sources, NEW n \in 0 .. Len(Text), n # Len(Text)
  PROVE  LET c == Text[n + 1]
             f == From(n)
             t == FormOf(f[1])
         IN  /\ c \in Chars /\ f \in Seq(Byte) /\ From(n + 1) \in Seq(Byte)
             /\ t \in 1 .. 4 /\ t = Len(Utf8(c)) /\ t <= Len(f)
             /\ \A j \in 1 .. t : f[j] = Utf8(c)[j]
             /\ \A j \in 2 .. t : IsContinuation(f[j])
             /\ BitsUpTo(f, t) = c /\ LeastIn(t) <= c /\ (t = 1 <=> c < 128)
             /\ SubSeq(f, t + 1, Len(f)) = From(n + 1)
             /\ n + 1 \in 1 .. Len(Text)
<1> DEFINE c == Text[n + 1]
           f == From(n)
           u == Utf8(c)
           r == From(n + 1)
           l == Len(u)
<1>1. Text \in Seq(Chars) /\ Len(Text) \in Nat
  BY TextType
<1>2. n \in 0 .. Len(Text) - 1 /\ n + 1 \in 1 .. Len(Text) /\ n + 1 \in 0 .. Len(Text)
  BY <1>1
<1>3. c \in Chars
  BY <1>1, <1>2
<1>4. f = u \o r /\ f \in Seq(Byte) /\ r \in Seq(Byte)
  BY <1>2, FromIs
<1> HIDE DEF c, f, r
<1>5. IsCharacter(c)
  BY <1>3 DEF Chars
<1>6. Formed(u) /\ BitsUpTo(u, l) = c /\ LeastIn(l) <= c /\ l \in 1 .. 4 /\ (c < 128 <=> l = 1)
  BY <1>5, Utf8Is
<1>7. u \in Seq(Byte) /\ l = FormOf(u[1]) /\ \A k \in 2 .. l : IsContinuation(u[k])
  BY <1>6 DEF Formed
<1> HIDE DEF u
<1>8. Len(f) = l + Len(r) /\ Len(r) \in Nat /\ \A j \in 1 .. l : f[j] = u[j]
  <2>1. u \in Seq(Byte) /\ r \in Seq(Byte)
    BY <1>4, <1>7
  <2> DEFINE g == u \o r
  <2>2. Len(g) = Len(u) + Len(r) /\ \A i \in 1 .. Len(u) : g[i] = u[i]
    BY <2>1, ConcatIs
  <2>3. Len(r) \in Nat
    BY <2>1
  <2>4. f = g
    BY <1>4
  <2> HIDE DEF g
  <2> QED
    BY <2>2, <2>3, <2>4
<1>9. SubSeq(f, l + 1, Len(f)) = r
  <2> DEFINE m == Len(r)
             g == SubSeq(f, l + 1, Len(f))
  <2>1. \A i \in 1 .. m : f[l + i] = r[i]
    BY <1>4, <1>7, ConcatIs
  <2>2. l \in Nat /\ m \in Nat /\ Len(f) = l + m
    BY <1>6, <1>8
  <2> HIDE DEF l, m
  <2>3. g \in Seq(Byte) /\ Len(g) = m /\ \A i \in 1 .. m : g[i] = f[l + i]
    <3> DEFINE x == Len(f)
    <3>1. f \in Seq(Byte) /\ x \in Nat /\ x = l + m /\ l \in Nat /\ m \in Nat /\ l <= x
      BY <1>4, <2>2
    <3>2. x <= Len(f)
      BY <3>1
    <3> HIDE DEF x
    <3>3. Len(SubSeq(f, l + 1, x)) = x - l /\ SubSeq(f, l + 1, x) \in Seq(Byte)
      BY <3>1, <3>2
    <3>4. \A i \in 1 .. x - l : SubSeq(f, l + 1, x)[i] = f[l + i]
      BY <3>1, <3>2
    <3>5. x - l = m
      BY <3>1
    <3> QED
      BY <3>3, <3>4, <3>5 DEF x
  <2>4. Len(g) = Len(r) /\ \A i \in 1 .. Len(g) : g[i] = r[i]
    BY <2>1, <2>3 DEF m
  <2> HIDE DEF g
  <2>5. g = r
    BY <1>4, <2>3, <2>4, SameElements
  <2> QED
    BY <2>5 DEF g
<1> HIDE DEF l
<1>10. FormOf(f[1]) = l
  <2>1. 1 \in 1 .. l
    BY <1>6
  <2> QED
    BY <1>7, <1>8, <2>1
<1>11. BitsUpTo(f, l) = c
  BY <1>6, <1>8, SameBits
<1>12. \A j \in 2 .. l : IsContinuation(f[j])
  <2>1. \A j \in 2 .. l : j \in 1 .. l
    BY <1>6
  <2> QED
    BY <1>7, <1>8, <2>1
<1>13. l <= Len(f)
  BY <1>6, <1>8
<1> QED
  BY <1>2, <1>3, <1>4, <1>6, <1>8, <1>9, <1>10, <1>11, <1>12, <1>13 DEF c, f, u, r, l

(* What starts with the bytes of a character starts with text. *)
LEMMA TextInFront ==
  ASSUME NEW f \in Seq(Byte), NEW c \in Chars, Len(Utf8(c)) <= Len(f),
         \A j \in 1 .. Len(Utf8(c)) : f[j] = Utf8(c)[j]
  PROVE  StartsWithText(f)
<1> DEFINE u == Utf8(c)
           l == Len(u)
<1>1. IsCharacter(c)
  BY DEF Chars
<1>2. Formed(u) /\ BitsUpTo(u, l) = c /\ l \in 1 .. 4
  BY <1>1, Utf8Is
<1>3. BitsOf(u) = c /\ u \in Seq(Byte)
  BY <1>2, BitsAgree DEF Formed
<1>4. SubSeq(f, 1, l) = u
  <2> HIDE DEF u
  <2>1. l \in Nat /\ l <= Len(f) /\ l = Len(u) /\ \A j \in 1 .. l : f[j] = u[j]
    BY <1>2 DEF u
  <2> HIDE DEF l
  <2>2. SubSeq(f, 1, l) \in Seq(Byte) /\ Len(SubSeq(f, 1, l)) = l /\ \A j \in 1 .. l : SubSeq(f, 1, l)[j] = f[j]
    BY <2>1
  <2> DEFINE g == SubSeq(f, 1, l)
  <2> HIDE DEF g
  <2>3. g \in Seq(Byte) /\ Len(g) = Len(u) /\ \A j \in 1 .. Len(g) : g[j] = u[j]
    BY <2>1, <2>2 DEF g
  <2>4. g = u
    BY <1>3, <2>3, SameElements
  <2> QED
    BY <2>4 DEF g
<1>5. l <= Len(f)
  OBVIOUS
<1> HIDE DEF u, l
<1>6. l \in 1 .. 4 /\ l <= Len(f) /\ IsCharacter(BitsOf(SubSeq(f, 1, l))) /\ Utf8(BitsOf(SubSeq(f, 1, l))) = SubSeq(f, 1, l)
  BY <1>1, <1>2, <1>3, <1>4, <1>5 DEF u
<1> QED
  BY <1>6 DEF StartsWithText

(* The bytes that spell no character are never taken for one. *)
LEMMA TailRefused ==
  ASSUME source \in Sources, NEW t \in 1 .. 4,
         t <= Len(source.tail), t = FormOf(source.tail[1]),
         \A j \in 2 .. t : IsContinuation(source.tail[j])
  PROVE  LET c == BitsUpTo(source.tail, t) IN ~(IsCharacter(c) /\ LeastIn(t) <= c)
<1> DEFINE f == source.tail
           c == BitsUpTo(f, t)
           g == SubSeq(f, 1, t)
<1>1. f \in Seq(Byte) /\ ~StartsWithText(f)
  BY SourceIs
<1>2. t \in Nat /\ t >= 1 /\ t <= Len(f) /\ t = FormOf(f[1]) /\ \A j \in 2 .. t : IsContinuation(f[j])
  OBVIOUS
<1> SUFFICES ASSUME IsCharacter(c), LeastIn(t) <= c PROVE FALSE
  OBVIOUS
<1> HIDE DEF f
<1>3. g \in Seq(Byte) /\ Len(g) = t /\ \A j \in 1 .. t : g[j] = f[j]
  BY <1>1, <1>2
<1> HIDE DEF g
<1>4. Formed(g)
  <2>1. g # << >> /\ g[1] = f[1]
    BY <1>2, <1>3
  <2>2. \A j \in 2 .. t : j \in 1 .. t
    OBVIOUS
  <2> QED
    BY <1>2, <1>3, <2>1, <2>2 DEF Formed
<1>5. BitsUpTo(g, t) = c
  BY <1>3, SameBits
<1>6. Utf8(c) = g
  <2>1. c = BitsUpTo(g, Len(g)) /\ LeastIn(Len(g)) <= c
    BY <1>3, <1>5
  <2> HIDE DEF c
  <2> QED
    BY <1>4, <2>1, SpelledBy
<1>7. c \in Chars
  BY DEF Chars, IsCharacter
<1> HIDE DEF c
<1>8. StartsWithText(f)
  BY <1>1, <1>2, <1>3, <1>6, <1>7, TextInFront
<1> QED
  BY <1>1, <1>8

-----------------------------------------------------------------------------
(* What depends on what stdin held is as it was. *)
LEMMA TextStays ==
  ASSUME source' = source
  PROVE  /\ Text' = Text
         /\ \A n : From(n)' = From(n)
         /\ Pending' = waiting' \o (IF done' THEN << >> ELSE FlattenSeq(Before(left')))
         /\ Readable' = Readable /\ Unread' = Unread
<1>1. Text' = Text
  BY DEF Text
<1>2. Pending' = waiting' \o (IF done' THEN << >> ELSE FlattenSeq(Before(left')))
  BY DEF Pending, Before, Declared, Ends, IsEnd
<1> QED
  BY <1>1, <1>2 DEF From, Readable, Unread

(* And so is the place in it while no character is taken. *)
LEMMA PlaceStays ==
  ASSUME UNCHANGED <<source, at, decoder, line, lines>>
  PROVE  /\ \A n, s : AtPlace(n, s)' <=> AtPlace(n, s)
         /\ \A n, k : Decoding(From(n), k)' <=> Decoding(From(n), k)
         /\ Resting' <=> Resting
<1>1. Text' = Text /\ \A n : From(n)' = From(n)
  BY TextStays
<1>2. \A n, s : AtPlace(n, s)' <=> AtPlace(n, s)
  BY <1>1 DEF AtPlace, Resting
<1>3. \A n, k : Decoding(From(n), k)' <=> Decoding(From(n), k)
  BY <1>1 DEF Decoding, decoder
<1> QED
  BY <1>2, <1>3 DEF Resting

(* What a text begins with is no mark, unless it counts as marked. *)
LEMMA NoMarkInFront ==
  ASSUME source \in Sources, ~source.mark, Len(From(0)) >= 3
  PROVE  SubSeq(From(0), 1, 3) # Utf8(MARK)
<1> DEFINE f == From(0)
           u == Utf8(MARK)
<1>1. Text \in Seq(Chars) /\ Len(Text) \in Nat /\ 0 \in 0 .. Len(Text)
  BY TextType
<1>2. f \in Seq(Byte)
  BY <1>1, FromIs
<1>3. u \in Seq(Byte) /\ Len(u) = 3 /\ MARK \in Chars
  BY MarkIs
<1> SUFFICES ASSUME SubSeq(f, 1, 3) = u PROVE FALSE
  OBVIOUS
<1>4. \A j \in 1 .. 3 : f[j] = u[j]
  <2> DEFINE g == SubSeq(f, 1, 3)
  <2> HIDE DEF u, f
  <2>1. \A j \in 1 .. 3 : g[j] = f[j]
    BY <1>2 DEF f
  <2>2. g = u
    OBVIOUS
  <2> HIDE DEF g
  <2> QED
    BY <2>1, <2>2
<1>5. CASE Len(Text) = 0
  <2>1. f = source.tail /\ ~StartsWithText(source.tail)
    BY <1>5, FromIs, SourceIs
  <2>2. StartsWithText(f)
    <3> HIDE DEF f
    <3>1. Len(Utf8(MARK)) <= Len(f) /\ \A j \in 1 .. Len(Utf8(MARK)) : f[j] = Utf8(MARK)[j]
      BY <1>3, <1>4 DEF u, f
    <3> QED
      BY <1>2, <1>3, <3>1, TextInFront
  <2> QED
    BY <2>1, <2>2
<1>6. CASE Len(Text) # 0
  <2> DEFINE c == Text[1]
  <2>1. 0 # Len(Text) /\ 0 + 1 = 1
    BY <1>6
  <2>2. FormOf(f[1]) \in 1 .. 4 /\ BitsUpTo(f, FormOf(f[1])) = c
    BY <1>1, <2>1, CharComes
  <2>3. IsCharacter(MARK)
    BY <1>3 DEF Chars
  <2>4. Formed(u) /\ BitsUpTo(u, 3) = MARK
    <3>1. Formed(Utf8(MARK)) /\ BitsUpTo(Utf8(MARK), Len(Utf8(MARK))) = MARK
      BY <2>3, Utf8Is
    <3>2. Len(Utf8(MARK)) = 3
      BY <1>3
    <3> QED
      BY <3>1, <3>2
  <2>5. FormOf(f[1]) = 3
    <3>1. f[1] = u[1]
      BY <1>4
    <3> HIDE DEF f, u
    <3> QED
      BY <1>3, <2>4, <3>1 DEF Formed
  <2>6. BitsUpTo(f, 3) = MARK
    <3> HIDE DEF f, u
    <3> QED
      BY <1>4, <2>4, SameBits
  <2>7. c = MARK
    BY <2>2, <2>5, <2>6
  <2>8. source.text # << >> /\ source.text[1] = MARK
    <3>1. PICK z \in 0 .. Len(source.text) : Text = SubSeq(source.text, 1, z)
      BY TextIs
    <3> DEFINE t == source.text
    <3>2. t \in Seq(Chars)
      BY SourceIs
    <3>4. Text = SubSeq(t, 1, z) /\ z \in 0 .. Len(t) /\ Text[1] = MARK /\ Len(Text) # 0
      BY <1>6, <2>7, <3>1
    <3> HIDE DEF t
    <3> DEFINE C == Chars
    <3>5. t \in Seq(C)
      BY <3>2
    <3> HIDE DEF C
    <3>6. z # 0
      BY <3>4, <3>5
    <3>7. SubSeq(t, 1, z)[1] = t[1] /\ t # << >>
      BY <3>4, <3>5, <3>6
    <3> QED
      BY <3>4, <3>7 DEF t
  <2> QED
    BY <2>8, SourceIs
<1> QED
  BY <1>5, <1>6

(* A first read leaves of what it brought all but the mark. *)
LEMMA MarkDropped ==
  ASSUME source \in Sources, ~first_read, NEW bytes \in Seq(Byte), NEW rest \in Seq(Byte),
         bytes \o rest = Bytes(Marked(source)) \o From(0),
         source.mark => Len(bytes) >= 3
  PROVE  /\ Unmarked(bytes) \in Seq(Byte) /\ Len(Unmarked(bytes)) <= Len(bytes)
         /\ Unmarked(bytes) \o rest = From(0)
<1> DEFINE f == From(0)
           u == Utf8(MARK)
<1>1. f \in Seq(Byte) /\ u \in Seq(Byte) /\ Len(u) = 3
  <2>1. 0 \in 0 .. Len(Text)
    BY TextType
  <2> QED
    BY <2>1, FromIs, MarkIs
<1>2. CASE source.mark
  <2>1. bytes \o rest = u \o f
    BY <1>2, MarkIs DEF Marked
  <2>2. Len(bytes) >= 3
    BY <1>2
  <2> HIDE DEF u, f
  <2>3. /\ SubSeq(bytes, 1, 3) = u
        /\ SubSeq(bytes, 4, Len(bytes)) \in Seq(Byte)
        /\ Len(SubSeq(bytes, 4, Len(bytes))) <= Len(bytes)
        /\ SubSeq(bytes, 4, Len(bytes)) \o rest = f
    <3>1. Len(u) <= Len(bytes) /\ Len(u) + 1 = 4
      BY <1>1, <2>2
    <3>2. u \in Seq(Byte) /\ f \in Seq(Byte)
      BY <1>1
    <3>3. IsJoined(u \o f, bytes, rest) /\ IsJoined(u \o f, u, f)
      BY <2>1 DEF IsJoined
    <3> DEFINE q == SubSeq(bytes, Len(u) + 1, Len(bytes))
    <3>4. SubSeq(bytes, 1, Len(u)) = u /\ q \in Seq(Byte) /\ Len(q) <= Len(bytes) /\ IsJoined(f, q, rest)
      BY <3>1, <3>2, <3>3, CutFront
    <3>5. q = SubSeq(bytes, 4, Len(bytes)) /\ SubSeq(bytes, 1, 3) = u
      BY <1>1, <3>1, <3>4
    <3> HIDE DEF q
    <3>6. q \o rest = f
      BY <3>4 DEF IsJoined
    <3> QED
      BY <3>4, <3>5, <3>6
  <2>4. HasMark(bytes)
    BY <2>2, <2>3 DEF HasMark, u
  <2> QED
    BY <2>3, <2>4 DEF Unmarked, f
<1>3. CASE ~source.mark
  <2>1. bytes \o rest = f
    <3>1. Bytes(Marked(source)) = << >>
      BY <1>3, BytesAre DEF Marked
    <3>2. << >> \o f = f
      <4> HIDE DEF f
      <4> QED
        BY <1>1
    <3> QED
      BY <3>1, <3>2
  <2>2. ~HasMark(bytes)
    <3> SUFFICES ASSUME Len(bytes) >= 3, SubSeq(bytes, 1, 3) = u PROVE FALSE
      BY DEF HasMark
    <3> DEFINE g == bytes \o rest
    <3>1. Len(g) = Len(bytes) + Len(rest) /\ g \in Seq(Byte) /\ \A i \in 1 .. Len(bytes) : g[i] = bytes[i]
      BY ConcatIs
    <3>2. Len(bytes) \in Nat /\ Len(rest) \in Nat
      OBVIOUS
    <3> HIDE DEF g
    <3>3. Len(g) >= 3
      BY <3>1, <3>2
    <3>4. \A i \in 1 .. 3 : g[i] = bytes[i]
      BY <3>1, <3>2
    <3>5. SubSeq(g, 1, 3) = SubSeq(bytes, 1, 3)
      BY <3>1, <3>2, <3>3, <3>4
    <3>6. g = From(0)
      BY <2>1 DEF g
    <3>7. SubSeq(From(0), 1, 3) = u /\ Len(From(0)) >= 3
      BY <3>3, <3>5, <3>6
    <3> QED
      BY <1>3, <3>7, NoMarkInFront
  <2> QED
    BY <2>1, <2>2 DEF Unmarked
<1>4. source.mark \in BOOLEAN
  BY SourceIs
<1> QED
  BY <1>2, <1>3, <1>4

(* A refill moves what arrived, less a mark, in front of what will. *)
LEMMA RefillStep ==
  ASSUME InputInv, Refill
  PROVE  InputInv'
<1> DEFINE us(n) == SubSeq(left, 1, n)
           vs(n) == SubSeq(left, n + 1, Len(left))
           bs(n) == FlattenSeq(Before(us(n)))
<1>1. /\ Running /\ at # "program" /\ waiting = << >> /\ ~done
      /\ UNCHANGED <<source, at, decoder, line, lines, answer, stopped>>
      /\ first_read' = TRUE
      /\ UNCHANGED <<source, at, decoder, line, lines>>
  BY DEF Refill, RunDry
<1>2. PICK n \in Arrivals : /\ bs(n) # << >> /\ left' = vs(n) /\ done' = Declared(us(n))
                            /\ waiting' = Unmarked(bs(n))
  BY DEF Refill
<1> DEFINE u == us(n)
           v == vs(n)
           b == bs(n)
           rest == IF Declared(u) THEN << >> ELSE FlattenSeq(Before(v))
<1>3. /\ source \in Sources /\ left \in Seq(Seq(Byte))
      /\ \A k \in 1 .. Len(left) :
            Len(left[k]) >= 1 /\ Len(left[k]) <= IF source.console THEN 3 ELSE 1
      /\ first_read \in BOOLEAN
  BY DEF InputInv, Typed
<1>4. /\ n \in 1 .. Len(left) /\ n <= Room /\ (source.mark /\ ~first_read => n >= 3)
      /\ Len(left) \in Nat
  BY <1>3 DEF Arrivals
<1>5. /\ u \in Seq(Seq(Byte)) /\ v \in Seq(Seq(Byte)) /\ b \in Seq(Byte)
      /\ FlattenSeq(Before(left)) = b \o rest
      /\ \E z \in 0 .. n : Before(u) = SubSeq(left, 1, z) /\ (z < n <=> Declared(u))
  BY <1>3, <1>4, ReadSplits
<1>6. PICK z \in 0 .. n : Before(u) = SubSeq(left, 1, z) /\ (z < n <=> Declared(u))
  BY <1>5
<1>7. rest \in Seq(Byte)
  <2>1. FlattenSeq(Before(v)) \in Seq(Byte)
    BY <1>5, BeforeType
  <2> QED
    BY <2>1
<1>8. Pending = b \o rest
  <2> DEFINE x == FlattenSeq(Before(left))
  <2>1. Pending = << >> \o x
    BY <1>1 DEF Pending
  <2>2. x \in Seq(Byte) /\ x = b \o rest
    <3> HIDE DEF b, rest, x
    <3>1. b \o rest \in Seq(Byte)
      BY <1>5, <1>7
    <3>2. x = b \o rest
      BY <1>5 DEF x
    <3> QED
      BY <3>1, <3>2
  <2> HIDE DEF x
  <2>3. << >> \o x = x
    BY <2>2
  <2> QED
    BY <2>1, <2>2, <2>3
<1>9. Pending' = Unmarked(b) \o rest
  <2>1. Pending' = waiting' \o (IF done' THEN << >> ELSE FlattenSeq(Before(left')))
    BY <1>1, TextStays
  <2> QED
    BY <1>2, <2>1
<1>10. Pending # << >>
  <2> HIDE DEF b, rest
  <2>1. Len(b \o rest) = Len(b) + Len(rest) /\ Len(b) \in Nat /\ Len(rest) \in Nat /\ Len(b) # 0
    BY <1>2, <1>5, <1>7 DEF b
  <2>2. Len(b \o rest) # 0
    <3> DEFINE x == Len(b \o rest)
    <3> HIDE DEF x
    <3> QED
      BY <2>1 DEF x
  <2>3. b \o rest # << >>
    <3> DEFINE x == b \o rest
    <3> HIDE DEF x
    <3>1. Len(x) # 0
      BY <2>2 DEF x
    <3> QED
      BY <3>1 DEF x
  <2> QED
    BY <1>8, <2>3
<1> HIDE DEF rest
<1>11. Len(b) <= INPUT_BYTES
  <2> DEFINE w == Before(u)
             m == IF source.console THEN 3 ELSE 1
  <2>1. w \in Seq(Seq(Byte)) /\ Len(w) = z /\ \A k \in 1 .. Len(w) : w[k] = left[k]
    <3> DEFINE V == Seq(Byte)
    <3>1. left \in Seq(V) /\ z \in 0 .. Len(left) /\ w = SubSeq(left, 1, z)
      BY <1>3, <1>4, <1>6
    <3> HIDE DEF V, w
    <3> QED
      BY <3>1 DEF V
  <2>2. \A k \in 1 .. Len(w) : Len(w[k]) <= m
    <3> TAKE k \in 1 .. Len(w)
    <3>1. k \in 1 .. Len(left) /\ w[k] = left[k]
      BY <1>4, <1>6, <2>1
    <3> HIDE DEF w, u
    <3> QED
      BY <1>3, <3>1
  <2>3. m \in Nat
    OBVIOUS
  <2> HIDE DEF m, w
  <2>4. Len(FlattenSeq(w)) <= m * Len(w)
    BY <2>1, <2>2, <2>3, FlattenLength
  <2>5. z <= Room /\ z \in Nat
    <3> DEFINE r == Room
    <3>1. r \in Nat /\ n <= r
      BY <1>4, SourcesAreInput DEF Room
    <3> HIDE DEF r
    <3>2. z <= r /\ z \in Nat
      BY <1>4, <3>1
    <3> QED
      BY <3>2 DEF r
  <2>6. m * z <= INPUT_BYTES
    <3>1. CASE source.console
      <4>1. m = 3 /\ z <= INPUT_WCHARS
        BY <2>5, <3>1 DEF m, Room
      <4>2. 3 * z <= 3 * INPUT_WCHARS /\ 3 * INPUT_WCHARS <= INPUT_BYTES /\ INPUT_BYTES \in Nat /\ INPUT_WCHARS \in Nat
        BY <2>5, <4>1, SourcesAreInput
      <4>3. 3 * z <= INPUT_BYTES
        BY <2>5, <4>2
      <4> QED
        BY <4>1, <4>3
    <3>2. CASE ~source.console
      <4>1. m = 1 /\ z <= INPUT_BYTES
        BY <2>5, <3>2 DEF m, Room
      <4>2. 1 * z = z
        BY <2>5
      <4> QED
        BY <4>1, <4>2
    <3> QED
      BY <3>1, <3>2
  <2>7. Len(FlattenSeq(w)) \in Nat /\ m * z \in Nat /\ INPUT_BYTES \in Nat
    <3>1. FlattenSeq(w) \in Seq(Byte)
      BY <2>1, FlattenAppend
    <3> QED
      BY <2>3, <2>5, <3>1, SourcesAreInput
  <2> DEFINE y == Len(FlattenSeq(w))
             p == m * z
  <2>8. y <= p /\ p <= INPUT_BYTES /\ y \in Nat /\ p \in Nat /\ INPUT_BYTES \in Nat
    BY <2>1, <2>4, <2>6, <2>7
  <2> HIDE DEF y, p
  <2>9. y <= INPUT_BYTES
    BY <2>8
  <2> QED
    BY <2>9 DEF y, w
<1>12. left' \in Seq(Seq(Byte)) /\ \A k \in 1 .. Len(left') :
            Len(left'[k]) >= 1 /\ Len(left'[k]) <= IF source.console THEN 3 ELSE 1
  <2> DEFINE V == Seq(Byte)
             x == Len(left)
  <2>1. left \in Seq(V) /\ x \in Nat /\ n \in 1 .. x
    BY <1>3, <1>4
  <2>2. v \in Seq(V) /\ Len(v) = x - n /\ \A k \in 1 .. x - n : v[k] = left[n + k]
    <3> HIDE DEF V
    <3> QED
      BY <2>1
  <2> HIDE DEF v, V, x
  <2>3. \A k \in 1 .. Len(v) : v[k] = left[n + k] /\ n + k \in 1 .. Len(left)
    BY <2>1, <2>2 DEF x
  <2>4. left' = v
    BY <1>2 DEF v
  <2> QED
    BY <1>3, <2>2, <2>3, <2>4 DEF V
<1>13. Following /\ Answered
  BY <1>1 DEF InputInv
<1>14. PICK i, k, s : AtPlace(i, s) /\ Holding(i, k) /\ Decoding(From(i), k)
  BY <1>13 DEF Following
<1>15. /\ waiting' \in Seq(Byte) /\ Len(waiting') <= INPUT_BYTES
       /\ \E j : Holding(i, j)' /\ Decoding(From(i), j)
  <2>1. CASE first_read
    <3>1. Unmarked(b) = b
      BY <2>1 DEF Unmarked, HasMark
    <3>2. Pending' = Pending
      BY <1>8, <1>9, <3>1
    <3>3. Holding(i, k)'
      <4>1. k \in 0 .. Len(From(i)) /\ Pending = SubSeq(From(i), k + 1, Len(From(i)))
        BY <1>14, <2>1 DEF Holding
      <4>2. From(i)' = From(i)
        BY <1>1, TextStays
      <4> QED
        BY <1>1, <3>2, <4>1, <4>2 DEF Holding
    <3> QED
      BY <1>2, <1>5, <1>11, <1>14, <3>1, <3>3
  <2>2. CASE ~first_read
    <3>1. i = 0 /\ Resting /\ Pending = Bytes(Marked(source)) \o From(0)
      BY <1>14, <2>2 DEF Holding
    <3>2. b \o rest = Bytes(Marked(source)) \o From(0)
      BY <1>8, <3>1
    <3>3. k = 0
      BY <1>14, <3>1 DEF Resting, Decoding
    <3>4. 0 \in 0 .. Len(Text) /\ From(0) \in Seq(Byte)
      <4>1. 0 \in 0 .. Len(Text)
        BY <1>3, TextType
      <4> QED
        BY <1>3, <4>1, FromIs
    <3>5. source.mark => Len(b) >= 3
      <4> SUFFICES ASSUME source.mark PROVE Len(b) >= 3
        OBVIOUS
      <4>1. ~source.console
        BY <1>3, SourceIs
      <4>2. ~Declared(u) /\ Before(u) = u
        <5>1. Ends(u) = {}
          BY <4>1 DEF Ends, IsEnd
        <5> QED
          BY <5>1 DEF Declared, Before
      <4>3. Len(b) >= n
        <5> DEFINE V == Seq(Byte)
        <5>1. left \in Seq(V)
          BY <1>3
        <5>2. u \in Seq(V) /\ Len(u) = n /\ \A e \in 1 .. n : u[e] = left[e]
          <6> HIDE DEF V
          <6> QED
            BY <1>4, <5>1
        <5>3. \A e \in 1 .. Len(u) : Len(u[e]) >= 1
          <6> HIDE DEF u
          <6>1. \A e \in 1 .. n : e \in 1 .. Len(left)
            BY <1>4
          <6> QED
            BY <1>3, <5>2, <6>1
        <5> HIDE DEF u
        <5>4. Len(FlattenSeq(u)) >= Len(u)
          BY <5>2, <5>3, FlattenGrows
        <5>5. b = FlattenSeq(u)
          BY <4>2 DEF u
        <5> QED
          BY <5>2, <5>4, <5>5
      <4>4. Len(b) \in Nat /\ n \in Nat
        BY <1>4, <1>5
      <4>5. n >= 3
        BY <1>4, <2>2
      <4> DEFINE y == Len(b)
      <4>6. y \in Nat /\ y >= n
        BY <4>3, <4>4
      <4> HIDE DEF y
      <4>7. y >= 3
        BY <4>4, <4>5, <4>6
      <4> QED
        BY <4>7 DEF y
    <3> HIDE DEF b
    <3>6. b \in Seq(Byte)
      BY <1>5 DEF b
    <3>7. /\ Unmarked(b) \in Seq(Byte) /\ Len(Unmarked(b)) <= Len(b)
          /\ Unmarked(b) \o rest = From(0)
      BY <1>3, <1>7, <2>2, <3>2, <3>5, <3>6, MarkDropped
    <3>8. waiting' = Unmarked(b)
      BY <1>2 DEF b
    <3>9. Len(waiting') <= INPUT_BYTES
      <4> DEFINE x == Len(Unmarked(b))
                 y == Len(b)
      <4>1. x \in Nat /\ y \in Nat /\ INPUT_BYTES \in Nat /\ x <= y /\ y <= INPUT_BYTES
        BY <1>11, <3>6, <3>7, SourcesAreInput DEF b
      <4> HIDE DEF x, y
      <4>2. x <= INPUT_BYTES
        BY <4>1
      <4> QED
        BY <3>8, <4>2 DEF x
    <3>10. Pending' = From(0)
      BY <1>9, <3>7 DEF b
    <3>11. Holding(i, 0)'
      <4> DEFINE f == From(0)
      <4>1. From(i)' = f
        BY <1>1, <3>1, TextStays
      <4>2. Holding(i, 0)' <=> 0 \in 0 .. Len(f) /\ f = SubSeq(f, 0 + 1, Len(f))
        BY <1>1, <3>10, <4>1 DEF Holding
      <4>3. f \in Seq(Byte)
        BY <3>4
      <4> HIDE DEF f
      <4>4. 0 \in 0 .. Len(f) /\ f = SubSeq(f, 0 + 1, Len(f))
        BY <4>3
      <4> QED
        BY <4>2, <4>4
    <3> QED
      BY <1>14, <3>3, <3>7, <3>8, <3>9, <3>11
  <2> QED
    BY <1>3, <2>1, <2>2
<1>16. Typed'
  <2>1. done' \in BOOLEAN /\ first_read' \in BOOLEAN
    BY <1>1, <1>2 DEF Declared
  <2> QED
    BY <1>1, <1>12, <1>15, <2>1 DEF InputInv, Typed, decoder
<1>17. Following'
  <2>1. PICK j : Holding(i, j)' /\ Decoding(From(i), j)
    BY <1>15
  <2>2. AtPlace(i, s)' /\ Decoding(From(i), j)'
    BY <1>1, <1>14, <2>1, PlaceStays
  <2> QED
    BY <2>1, <2>2 DEF Following
<1>18. Answered'
  <2>1. Resting' <=> Resting
    BY <1>1, PlaceStays
  <2> QED
    BY <1>1, <1>10, <1>13, <2>1 DEF Answered
<1>19. Running'
  BY <1>1 DEF Running
<1> QED
  BY <1>16, <1>17, <1>18, <1>19 DEF InputInv

(* The byte that is taken is the next of those a program is to see. *)
LEMMA ByteNext ==
  ASSUME source \in Sources, left \in Seq(Seq(Byte)), waiting \in Seq(Byte), first_read \in BOOLEAN,
         NEW n \in 0 .. Len(Text), NEW k, Holding(n, k),
         waiting # << >>, waiting' = Tail(waiting), UNCHANGED <<source, left, first_read, done>>
  PROVE  LET f == From(n)
         IN  /\ first_read /\ f \in Seq(Byte) /\ k \in 0 .. Len(f)
             /\ k + 1 \in 1 .. Len(f) /\ f[k + 1] = Head(waiting) /\ Head(waiting) \in Byte
             /\ Pending' = SubSeq(f, k + 2, Len(f))
<1> DEFINE f == From(n)
           rest == IF done THEN << >> ELSE FlattenSeq(Before(left))
<1>1. rest \in Seq(Byte)
  BY BeforeType
<1>2. f \in Seq(Byte)
  BY FromIs
<1>3. first_read /\ k \in 0 .. Len(f) /\ Pending = SubSeq(f, k + 1, Len(f))
  BY DEF Holding
<1>4. Pending = waiting \o rest
  BY DEF Pending
<1>5. Pending' = Tail(waiting) \o rest
  BY TextStays
<1> HIDE DEF f, rest
<1>6. IsJoined(SubSeq(f, k + 1, Len(f)), waiting, rest)
  BY <1>3, <1>4 DEF IsJoined
<1>7. /\ k + 1 \in 1 .. Len(f) /\ f[k + 1] = Head(waiting) /\ Head(waiting) \in Byte
      /\ IsJoined(SubSeq(f, k + 2, Len(f)), Tail(waiting), rest)
  BY <1>1, <1>2, <1>3, <1>6, TakeOne
<1>8. Pending' = SubSeq(f, k + 2, Len(f))
  BY <1>5, <1>7 DEF IsJoined
<1> QED
  BY <1>2, <1>3, <1>7, <1>8 DEF f

-----------------------------------------------------------------------------
(* A character goes into the line. *)
LEMMA PushStep ==
  ASSUME source \in Sources, NEW n, NEW s, AtPlace(n, s), n # Len(Text), Text[n + 1] # NEWLINE,
         line' = Append(line, Text[n + 1]), at' = "more", UNCHANGED <<source, lines>>
  PROVE  AtPlace(n + 1, s)'
<1> DEFINE t == Text
           x == Len(t)
<1>1. t \in Seq(Nat) /\ x \in Nat
  BY TextType
<1>2. /\ n \in 0 .. x /\ s \in 0 .. n
      /\ s = 0 \/ t[s] = NEWLINE \/ (s = x /\ source.tail = << >>)
      /\ \A m \in s + 1 .. n : t[m] # NEWLINE
      /\ lines = LinesOf(SubSeq(t, 1, s)) /\ line = SubSeq(t, s + 1, n)
  BY DEF AtPlace
<1>3. Text' = t
  BY TextStays
<1>4. n # x /\ t[n + 1] # NEWLINE /\ line' = Append(line, t[n + 1]) /\ x = Len(t)
  OBVIOUS
<1> HIDE DEF t
<1>5. n + 1 \in 0 .. x /\ s \in 0 .. n + 1 /\ s < n + 1
  <2> HIDE DEF x
  <2> QED
    BY <1>1, <1>2, <1>4
<1>6. \A m \in s + 1 .. n + 1 : t[m] # NEWLINE
  <2> TAKE m \in s + 1 .. n + 1
  <2>1. m = n + 1 \/ m \in s + 1 .. n
    BY <1>2
  <2> QED
    BY <1>2, <1>4, <2>1
<1>7. SubSeq(t, s + 1, n + 1) = Append(line, t[n + 1])
  <2> HIDE DEF x
  <2>1. n \in Nat /\ s \in Nat /\ s <= n /\ n + 1 <= Len(t)
    BY <1>1, <1>2, <1>4, <1>5
  <2>2. SubSeq(t, s + 1, n + 1) = Append(SubSeq(t, s + 1, n), t[n + 1])
    BY <1>1, <2>1
  <2> QED
    BY <1>2, <2>2
<1> QED
  BY <1>2, <1>3, <1>4, <1>5, <1>6, <1>7 DEF AtPlace, Resting, x

(* A newline ends the line and begins another. *)
LEMMA LineStep ==
  ASSUME source \in Sources, NEW n, NEW s, AtPlace(n, s), n # Len(Text), Text[n + 1] = NEWLINE,
         lines' = Append(lines, WithoutReturn(line)), line' = << >>, at' = "program",
         UNCHANGED source
  PROVE  AtPlace(n + 1, n + 1)'
<1> DEFINE t == Text
           x == Len(t)
           a == SubSeq(t, 1, n + 1)
<1>1. t \in Seq(Nat) /\ x \in Nat
  BY TextType
<1>2. /\ n \in 0 .. x /\ s \in 0 .. n
      /\ s = 0 \/ t[s] = NEWLINE \/ (s = x /\ source.tail = << >>)
      /\ \A m \in s + 1 .. n : t[m] # NEWLINE
      /\ lines = LinesOf(SubSeq(t, 1, s)) /\ line = SubSeq(t, s + 1, n)
  BY DEF AtPlace
<1>3. Text' = t
  BY TextStays
<1>4. n # x /\ t[n + 1] = NEWLINE /\ x = Len(t)
  OBVIOUS
<1> HIDE DEF t, x
<1>5. n \in Nat /\ s \in Nat /\ s <= n /\ n + 1 <= x /\ n + 1 \in 0 .. x /\ n + 1 \in 0 .. n + 1 /\ s # x
  BY <1>1, <1>2, <1>4
<1>6. a \in Seq(Nat) /\ Len(a) = n + 1 /\ \A i \in 1 .. n + 1 : a[i] = t[i]
  BY <1>1, <1>4, <1>5
<1>7. SubSeq(a, 1, s) = SubSeq(t, 1, s) /\ SubSeq(a, s + 1, n) = SubSeq(t, s + 1, n)
  BY <1>1, <1>4, <1>5
<1> HIDE DEF a
<1>8. LinesOf(a) = Append(LinesOf(SubSeq(a, 1, s)), WithoutReturn(SubSeq(a, s + 1, n)))
  <2>1. s \in 0 .. Len(a) /\ s < Len(a) /\ n \in s .. Len(a) /\ n + 1 = Len(a)
    BY <1>5, <1>6
  <2>2. s = 0 \/ a[s] = NEWLINE
    <3>1. s # 0 => s \in 1 .. n + 1
      BY <1>5
    <3> QED
      BY <1>2, <1>5, <1>6, <3>1
  <2>3. \A m \in s + 1 .. n : a[m] # NEWLINE
    <3> TAKE m \in s + 1 .. n
    <3>1. m \in 1 .. n + 1
      BY <1>5
    <3> QED
      BY <1>2, <1>6, <3>1
  <2>4. a[n + 1] = NEWLINE
    <3>1. n + 1 \in 1 .. n + 1
      BY <1>5
    <3> QED
      BY <1>4, <1>6, <3>1
  <2> QED
    BY <1>6, <2>1, <2>2, <2>3, <2>4, LineMore
<1>9. lines' = LinesOf(a)
  BY <1>2, <1>7, <1>8
<1>10. SubSeq(t, (n + 1) + 1, n + 1) = << >>
  BY <1>1, <1>5
<1>11. \A m \in (n + 1) + 1 .. n + 1 : t[m] # NEWLINE
  BY <1>5
<1> QED
  BY <1>3, <1>4, <1>5, <1>9, <1>10, <1>11 DEF AtPlace, Resting, a, x

(* And so does the end of what stdin holds. *)
LEMMA LastLineStep ==
  ASSUME source \in Sources, NEW n, NEW s, AtPlace(n, s), n = Len(Text), source.tail = << >>,
         at = "more", lines' = Append(lines, WithoutReturn(line)), line' = << >>, at' = "program",
         UNCHANGED source
  PROVE  AtPlace(n, n)'
<1> DEFINE t == Text
           x == Len(t)
<1>1. t \in Seq(Nat) /\ x \in Nat
  BY TextType
<1>2. /\ n \in 0 .. x /\ s \in 0 .. n /\ s < n
      /\ s = 0 \/ t[s] = NEWLINE \/ (s = x /\ source.tail = << >>)
      /\ \A m \in s + 1 .. n : t[m] # NEWLINE
      /\ lines = LinesOf(SubSeq(t, 1, s)) /\ line = SubSeq(t, s + 1, n)
  BY DEF AtPlace
<1>3. Text' = t
  BY TextStays
<1>4. n = x /\ x = Len(t)
  OBVIOUS
<1> HIDE DEF t, x
<1>5. n \in Nat /\ s \in Nat /\ s < n /\ s # x
  BY <1>1, <1>2, <1>4
<1>6. LinesOf(t) = Append(LinesOf(SubSeq(t, 1, s)), WithoutReturn(SubSeq(t, s + 1, n)))
  <2>1. s \in 0 .. Len(t) /\ s < Len(t) /\ n \in s .. Len(t) /\ n = Len(t)
    BY <1>4, <1>5
  <2>2. s = 0 \/ t[s] = NEWLINE
    BY <1>2, <1>5
  <2> QED
    BY <1>1, <1>2, <2>1, <2>2, LineMore
<1>7. SubSeq(t, 1, n) = t
  BY <1>1, <1>4
<1>8. lines' = LinesOf(SubSeq(t, 1, n))
  BY <1>2, <1>6, <1>7
<1>9. SubSeq(t, n + 1, n) = << >>
  BY <1>1, <1>5
<1>10. \A m \in n + 1 .. n : t[m] # NEWLINE
  BY <1>5
<1>11. n \in 0 .. n
  BY <1>5
<1> QED
  BY <1>2, <1>3, <1>4, <1>8, <1>9, <1>10, <1>11 DEF AtPlace, Resting, x

(* A program is stopped. *)
LEMMA StopStep ==
  ASSUME InputInv, Running, Typed', NEW n, NEW s, AtPlace(n, s),
         UNCHANGED <<source, line, lines, answer>>, stopped' # "no",
         stopped' = "no_input" => /\ answer # "more" /\ s = Len(Text) /\ source.tail = << >>,
         stopped' = "bad_utf8" => n = Len(Text) /\ source.tail # << >>
  PROVE  InputInv'
<1>1. source \in Sources
  BY DEF InputInv, Typed
<1>2. /\ IsPrefix(lines, Readable)
      /\ s = Len(Text) => lines = LinesOf(Text)
      /\ n = Len(Text) /\ source.tail # << >> => lines = Readable /\ line = Unread
  BY <1>1, LinesFollow
<1>3. EofIsHonest
  BY InputMeans
<1>4. Text' = Text /\ Readable' = Readable /\ Unread' = Unread
  BY TextStays
<1>5. EofIsHonest'
  BY <1>2, <1>3, <1>4 DEF EofIsHonest
<1>6. RefusesOnlyNonText'
  BY <1>2, <1>4 DEF RefusesOnlyNonText
<1>7. IsPrefix(lines, Readable)'
  BY <1>2, <1>4 DEF IsPrefix
<1> QED
  BY <1>5, <1>6, <1>7 DEF InputInv, Running

(* A character follows exactly if the bytes that do are in the form of one. *)
LEMMA NextChar ==
  ASSUME source \in Sources, NEW n \in 0 .. Len(Text)
  PROVE  LET f == From(n)
             t == FormOf(f[1])
             c == BitsUpTo(f, t)
         IN  /\ n # Len(Text) <=>
                  /\ t \in 1 .. 4 /\ t <= Len(f) /\ \A j \in 2 .. t : IsContinuation(f[j])
                  /\ IsCharacter(c) /\ LeastIn(t) <= c
             /\ n # Len(Text) =>
                  /\ Text[n + 1] = c /\ SubSeq(f, t + 1, Len(f)) = From(n + 1)
                  /\ n + 1 \in 0 .. Len(Text) /\ From(n + 1) \in Seq(Byte)
<1> DEFINE f == From(n)
           t == FormOf(f[1])
           c == BitsUpTo(f, t)
<1>1. CASE n # Len(Text)
  <2> DEFINE d == Text[n + 1]
  <2>1. /\ d \in Chars /\ t \in 1 .. 4 /\ t <= Len(f) /\ \A j \in 2 .. t : IsContinuation(f[j])
        /\ c = d /\ LeastIn(t) <= d /\ SubSeq(f, t + 1, Len(f)) = From(n + 1)
        /\ n + 1 \in 1 .. Len(Text) /\ From(n + 1) \in Seq(Byte)
    BY <1>1, CharComes
  <2>2. IsCharacter(d)
    BY <2>1 DEF Chars
  <2>3. n + 1 \in 0 .. Len(Text)
    BY <2>1
  <2> HIDE DEF f, t, c, d
  <2>4. IsCharacter(c) /\ LeastIn(t) <= c
    BY <2>1, <2>2
  <2> QED
    BY <1>1, <2>1, <2>3, <2>4 DEF f, t, c, d
<1>2. CASE n = Len(Text)
  <2>1. f = source.tail
    BY <1>2, FromIs
  <2> SUFFICES ASSUME t \in 1 .. 4, t <= Len(f), \A j \in 2 .. t : IsContinuation(f[j]),
                      IsCharacter(c), LeastIn(t) <= c
               PROVE  FALSE
    BY <1>2
  <2> DEFINE g == source.tail
             u == FormOf(g[1])
             d == BitsUpTo(g, u)
  <2>2. t = u /\ c = d
    BY <2>1
  <2>3. u \in 1 .. 4 /\ u <= Len(g) /\ \A j \in 2 .. u : IsContinuation(g[j])
    BY <2>1, <2>2
  <2>4. IsCharacter(d) /\ LeastIn(u) <= d
    BY <2>2
  <2>5. ~(IsCharacter(d) /\ LeastIn(u) <= d)
    BY <2>3, TailRefused
  <2> QED
    BY <2>4, <2>5
<1> QED
  BY <1>1, <1>2

(* What taking a byte leaves as it was, and how far it goes. *)
LEMMA Taken ==
  ASSUME InputInv, Take
  PROVE  /\ Running /\ source \in Sources /\ at \in {"first", "more", "continuation"}
         /\ source' = source /\ first_read' = first_read
         /\ waiting' \in Seq(Byte) /\ Len(waiting') <= INPUT_BYTES
         /\ answer # "over" /\ Head(waiting) \in Byte
         /\ \E n, k, s :
               /\ AtPlace(n, s) /\ Decoding(From(n), k) /\ n \in 0 .. Len(Text) /\ Len(Text) \in Nat
               /\ first_read /\ From(n) \in Seq(Byte) /\ k \in 0 .. Len(From(n))
               /\ k + 1 \in 1 .. Len(From(n)) /\ From(n)[k + 1] = Head(waiting)
               /\ Pending' = SubSeq(From(n), k + 2, Len(From(n)))
<1>1. /\ Running /\ at \in {"first", "more", "continuation"} /\ waiting # << >>
      /\ waiting' = Tail(waiting) /\ UNCHANGED <<source, left, first_read, done>>
  BY DEF Take
<1>2. /\ source \in Sources /\ left \in Seq(Seq(Byte)) /\ waiting \in Seq(Byte)
      /\ first_read \in BOOLEAN /\ Len(waiting) <= INPUT_BYTES
  BY DEF InputInv, Typed
<1>3. Following /\ Answered
  BY <1>1 DEF InputInv
<1>4. PICK n, k, s : AtPlace(n, s) /\ Holding(n, k) /\ Decoding(From(n), k)
  BY <1>3 DEF Following
<1>5. n \in 0 .. Len(Text)
  BY <1>4 DEF AtPlace
<1>6. /\ first_read /\ From(n) \in Seq(Byte) /\ k \in 0 .. Len(From(n))
      /\ k + 1 \in 1 .. Len(From(n)) /\ From(n)[k + 1] = Head(waiting) /\ Head(waiting) \in Byte
      /\ Pending' = SubSeq(From(n), k + 2, Len(From(n)))
  BY <1>1, <1>2, <1>4, <1>5, ByteNext
<1>7. answer # "over"
  <2> SUFFICES ASSUME answer = "over" PROVE FALSE
    OBVIOUS
  <2>1. Pending = << >>
    BY <1>3 DEF Answered
  <2> DEFINE rest == IF done THEN << >> ELSE FlattenSeq(Before(left))
  <2>2. rest \in Seq(Byte)
    BY <1>2, BeforeType
  <2>3. Pending = waiting \o rest
    BY DEF Pending
  <2> HIDE DEF rest
  <2>4. Len(waiting \o rest) = Len(waiting) + Len(rest) /\ Len(waiting) \in Nat /\ Len(rest) \in Nat /\ Len(waiting) # 0
    BY <1>1, <1>2, <2>2
  <2>5. Len(waiting \o rest) = 0
    BY <2>1, <2>3
  <2> DEFINE x == Len(waiting \o rest)
  <2> HIDE DEF x
  <2> QED
    BY <2>4, <2>5 DEF x
<1>8. waiting' \in Seq(Byte) /\ Len(waiting') <= INPUT_BYTES
  <2>1. Tail(waiting) \in Seq(Byte) /\ Len(Tail(waiting)) = Len(waiting) - 1 /\ Len(waiting) \in Nat
    BY <1>1, <1>2
  <2>2. Len(waiting') = Len(waiting) - 1
    BY <1>1, <2>1
  <2> DEFINE x == Len(waiting')
             y == Len(waiting)
  <2>3. x = y - 1 /\ y \in Nat /\ y <= INPUT_BYTES /\ INPUT_BYTES \in Nat
    BY <1>2, <2>1, <2>2, SourcesAreInput
  <2> HIDE DEF x, y
  <2>4. x <= INPUT_BYTES
    BY <2>3
  <2> QED
    BY <1>1, <2>1, <2>4 DEF x
<1>9. Len(Text) \in Nat
  BY <1>2, TextType
<1> QED
  BY <1>1, <1>2, <1>4, <1>5, <1>6, <1>7, <1>8, <1>9

(* What is typed after a byte was taken. *)
LEMMA TakenTyped ==
  ASSUME InputInv, Take, line' \in Seq(Nat), lines' \in Seq(Seq(Nat)),
         at' \in {"program", "first", "more", "continuation", "eof"},
         partial' \in Nat, owed' \in 0 .. 3, least' \in Nat,
         answer' \in {"unknown", "over", "more"},
         stopped' \in {"no", "no_input", "bad_utf8", "failed"}
  PROVE  Typed'
<1>1. Typed
  BY DEF InputInv
<1>2. UNCHANGED <<source, left, first_read, done>>
  BY DEF Take
<1>3. waiting' \in Seq(Byte) /\ Len(waiting') <= INPUT_BYTES
  BY Taken
<1> QED
  BY <1>1, <1>2, <1>3 DEF Typed

(* A character was taken with its last byte. *)
LEMMA CharTaken ==
  ASSUME source \in Sources, source' = source, first_read' = TRUE, NEW n \in 0 .. Len(Text),
         NEW k, k + 1 = FormOf(From(n)[1]), k \in Nat, n # Len(Text),
         Pending' = SubSeq(From(n), k + 2, Len(From(n))), at' # "continuation"
  PROVE  Holding(n + 1, 0)' /\ Decoding(From(n + 1), 0)'
<1> DEFINE f == From(n)
           r == From(n + 1)
<1>1. SubSeq(f, (k + 1) + 1, Len(f)) = r /\ r \in Seq(Byte)
  BY NextChar
<1>2. (k + 1) + 1 = k + 2
  OBVIOUS
<1>3. Pending' = r
  BY <1>1, <1>2
<1>4. From(n + 1)' = r
  BY TextStays
<1>5. Holding(n + 1, 0)' <=> 0 \in 0 .. Len(r) /\ r = SubSeq(r, 0 + 1, Len(r))
  BY <1>3, <1>4 DEF Holding
<1> HIDE DEF r
<1>6. 0 \in 0 .. Len(r) /\ r = SubSeq(r, 0 + 1, Len(r))
  <2> DEFINE B == Byte
  <2>1. r \in Seq(B)
    BY <1>1
  <2> HIDE DEF B
  <2>2. Len(r) \in Nat /\ SubSeq(r, 1, Len(r)) = r
    BY ONLY <2>1
  <2> QED
    BY <2>2
<1>7. Holding(n + 1, 0)'
  BY <1>5, <1>6
<1>8. Decoding(From(n + 1), 0)'
  BY DEF Decoding
<1> QED
  BY ONLY <1>7, <1>8

(* The form of the first byte is read as the decoder reads it. *)
LEMMA FormsAre ==
  ASSUME NEW b \in Byte
  PROVE  /\ b < 128 <=> FormOf(b) = 1
         /\ b >= 128 /\ b \div 32 = 6 <=> FormOf(b) = 2
         /\ b >= 128 /\ b \div 16 = 14 <=> FormOf(b) = 3
         /\ b >= 128 /\ b \div 8 = 30 <=> FormOf(b) = 4
         /\ FormOf(b) \in {0, 1, 2, 3, 4}
         /\ LeadBits(b) \in Nat
         /\ FormOf(b) = 1 => LeadBits(b) = b
         /\ FormOf(b) = 2 => LeadBits(b) = b % 32 /\ b \div 32 = 6
         /\ FormOf(b) = 3 => LeadBits(b) = b % 16 /\ b \div 16 = 14
         /\ FormOf(b) = 4 => LeadBits(b) = b % 8 /\ b \div 8 = 30
<1>1. b \in Nat /\ b <= 255
  BY DEF Byte
<1>2. FormOf(b) \in {0, 1, 2, 3, 4}
  BY DEF FormOf
<1>3. LeadBits(b) \in Nat
  BY <1>1 DEF LeadBits
<1>4. b < 128 <=> FormOf(b) = 1
  BY <1>1 DEF FormOf
<1>5. b >= 128 /\ b \div 32 = 6 <=> FormOf(b) = 2
  BY <1>1 DEF FormOf
<1>6. b >= 128 /\ b \div 16 = 14 <=> FormOf(b) = 3
  BY <1>1 DEF FormOf
<1>7. b >= 128 /\ b \div 8 = 30 <=> FormOf(b) = 4
  BY <1>1 DEF FormOf
<1> QED
  BY <1>2, <1>3, <1>4, <1>5, <1>6, <1>7 DEF LeadBits

(* What is not a character is in front of nothing else. *)
LEMMA StuckHere ==
  ASSUME InputInv, Take, Stop("bad_utf8"), NEW n, NEW s, AtPlace(n, s), n = Len(Text),
         From(n) # << >>
  PROVE  InputInv'
<1>1. source \in Sources /\ Running /\ source' = source
  BY Taken
<1>2. From(n) = source.tail
  BY <1>1, FromIs
<1>3. /\ stopped' = "bad_utf8" /\ UNCHANGED <<at, partial, owed, least, line, lines, answer>>
  BY DEF Stop, decoder
<1>4. Typed'
  <2>1. /\ line \in Seq(Nat) /\ lines \in Seq(Seq(Nat))
        /\ at \in {"program", "first", "more", "continuation", "eof"}
        /\ partial \in Nat /\ owed \in 0 .. 3 /\ least \in Nat
        /\ answer \in {"unknown", "over", "more"}
    BY DEF InputInv, Typed
  <2> QED
    BY <1>3, <2>1, TakenTyped
<1> QED
  BY <1>1, <1>2, <1>3, <1>4, StopStep

(* The first byte of a character, or the end of a line. *)
LEMMA StartStep ==
  ASSUME InputInv, Take, at # "continuation"
  PROVE  InputInv'
<1> DEFINE b == Head(waiting)
<1>1. /\ Running /\ source \in Sources /\ at \in {"first", "more"}
      /\ source' = source /\ first_read' = first_read
      /\ answer # "over" /\ b \in Byte
  BY Taken
<1>2. PICK n, k, s :
        /\ AtPlace(n, s) /\ Decoding(From(n), k) /\ n \in 0 .. Len(Text) /\ Len(Text) \in Nat
        /\ first_read /\ From(n) \in Seq(Byte) /\ k \in 0 .. Len(From(n))
        /\ k + 1 \in 1 .. Len(From(n)) /\ From(n)[k + 1] = b
        /\ Pending' = SubSeq(From(n), k + 2, Len(From(n)))
  BY Taken
<1> DEFINE f == From(n)
           t == FormOf(b)
           c == BitsUpTo(f, t)
<1>3. k = 0 /\ f[1] = b /\ 1 <= Len(f) /\ Len(f) \in Nat /\ Pending' = SubSeq(f, 2, Len(f))
  <2>1. k = 0
    BY <1>2 DEF Decoding
  <2>2. Len(f) \in Nat
    BY <1>2
  <2> HIDE DEF f
  <2> QED
    BY <1>2, <2>1, <2>2 DEF f
<1>4. /\ n # Len(Text) <=>
           /\ t \in 1 .. 4 /\ t <= Len(f) /\ \A j \in 2 .. t : IsContinuation(f[j])
           /\ IsCharacter(c) /\ LeastIn(t) <= c
      /\ n # Len(Text) => Text[n + 1] = c
  BY <1>1, <1>2, <1>3, NextChar
<1>5. b = NEWLINE \/ b # NEWLINE
  OBVIOUS
<1>6. /\ b = NEWLINE => EndLine /\ UNCHANGED <<decoder, stopped>>
      /\ b # NEWLINE => Starts(b)
  BY <1>1 DEF Take
<1>7. /\ line \in Seq(Nat) /\ lines \in Seq(Seq(Nat))
      /\ at \in {"program", "first", "more", "continuation", "eof"}
      /\ partial \in Nat /\ owed \in 0 .. 3 /\ least \in Nat
      /\ answer \in {"unknown", "over", "more"}
      /\ stopped = "no"
  BY <1>1 DEF InputInv, Typed, Running
<1>8. b \in Nat /\ b <= 255
  BY <1>1 DEF Byte
<1> HIDE DEF b, f
<1>9. ASSUME b < 128 PROVE n # Len(Text) /\ Text[n + 1] = b /\ t = 1
  <2>1. t = 1 /\ c = b /\ LeastIn(t) <= c
    <3>1. t = 1 /\ LeadBits(b) = b
      BY <1>1, <1>9, FormsAre DEF b
    <3>2. c = b
      BY <1>3, <3>1 DEF BitsUpTo
    <3> QED
      BY <1>8, <3>1, <3>2 DEF LeastIn
  <2>2. IsCharacter(c)
    BY <1>8, <1>9, <2>1 DEF IsCharacter, Surrogate
  <2>3. \A j \in 2 .. t : IsContinuation(f[j])
    BY <2>1
  <2>4. t \in 1 .. 4 /\ t <= Len(f)
    BY <1>3, <2>1
  <2> HIDE DEF c, t
  <2> QED
    BY <1>4, <2>1, <2>2, <2>3, <2>4
<1>10. ASSUME b < 128, at' # "continuation" PROVE Holding(n + 1, 0)' /\ Decoding(From(n + 1), 0)'
  <2>1. first_read' = TRUE
    BY <1>1, <1>2 DEF InputInv, Typed
  <2>2. 0 + 1 = FormOf(From(n)[1]) /\ 0 \in Nat /\ Pending' = SubSeq(From(n), 0 + 2, Len(From(n)))
    BY <1>3, <1>9, <1>10 DEF f
  <2> QED
    BY <1>1, <1>2, <1>9, <1>10, <2>1, <2>2, CharTaken
<1>11. CASE b = NEWLINE
  <2>1. /\ lines' = Append(lines, WithoutReturn(line)) /\ line' = << >> /\ at' = "program"
        /\ answer' = "unknown" /\ UNCHANGED <<partial, owed, least, stopped>>
    BY <1>6, <1>11 DEF EndLine, decoder
  <2>2. b < 128
    BY <1>11 DEF NEWLINE
  <2>3. AtPlace(n + 1, n + 1)'
    BY <1>1, <1>2, <1>9, <1>11, <2>1, <2>2, LineStep
  <2>4. Holding(n + 1, 0)' /\ Decoding(From(n + 1), 0)'
    BY <1>10, <2>1, <2>2
  <2>5. lines' \in Seq(Seq(Nat)) /\ line' \in Seq(Nat)
    <3>1. WithoutReturn(line) \in Seq(Nat)
      BY <1>7, WithoutReturnIs
    <3> DEFINE w == WithoutReturn(line)
               L == Seq(Nat)
    <3>2. lines \in Seq(L) /\ w \in L /\ lines' = Append(lines, w) /\ line' = << >> /\ << >> \in L
      BY <1>7, <2>1, <3>1
    <3> HIDE DEF w, L
    <3>3. lines' \in Seq(L) /\ line' \in L
      BY <3>2
    <3> QED
      BY <3>3 DEF L
  <2>6. Typed'
    BY <1>7, <2>1, <2>5, TakenTyped
  <2>7. Following'
    BY <2>3, <2>4 DEF Following
  <2>8. Answered'
    BY <2>1 DEF Answered
  <2>9. Running'
    BY <1>7, <2>1 DEF Running
  <2> QED
    BY <2>6, <2>7, <2>8, <2>9 DEF InputInv
<1>12. CASE b # NEWLINE
  <2>0. Starts(b)
    BY <1>6, <1>12
  <2>1. CASE b < 128
    <3>1. Push(b)
      <4>1. b \div 32 # 6 /\ b \div 16 # 14 /\ b \div 8 # 30
        BY <1>8, <2>1
      <4> QED
        BY <2>0, <2>1, <4>1 DEF Starts
    <3>2. /\ line' = Append(line, b) /\ at' = "more"
          /\ UNCHANGED <<partial, owed, least, lines, answer, stopped>>
      BY <3>1 DEF Push, decoder
    <3>3. n # Len(Text) /\ Text[n + 1] = b /\ Text[n + 1] # NEWLINE
      BY <1>9, <1>12, <2>1
    <3>4. AtPlace(n + 1, s)'
      BY <1>1, <1>2, <3>2, <3>3, PushStep
    <3>5. Holding(n + 1, 0)' /\ Decoding(From(n + 1), 0)'
      BY <1>10, <2>1, <3>2
    <3>6. line' \in Seq(Nat)
      BY <1>7, <1>8, <3>2
    <3>7. Typed'
      BY <1>7, <3>2, <3>6, TakenTyped
    <3>8. Following'
      BY <3>4, <3>5 DEF Following
    <3>9. Answered'
      BY <1>1, <3>2 DEF Answered, Resting
    <3>10. Running'
      BY <1>7, <3>2 DEF Running
    <3> QED
      BY <3>7, <3>8, <3>9, <3>10 DEF InputInv
  <2>2. CASE t \in {2, 3, 4}
    <3>1. /\ partial' = LeadBits(b) /\ owed' = t - 1 /\ least' = LeastIn(t) /\ at' = "continuation"
          /\ UNCHANGED <<line, lines, answer, stopped>>
      <4>0. b >= 128 /\ ~(b < 128)
        <5>1. t # 1
          BY <2>2
        <5>2. ~(b < 128)
          BY <1>1, <5>1, FormsAre DEF b
        <5> HIDE DEF t
        <5> QED
          BY <1>8, <5>2
      <4>1. CASE t = 2
        <5>1. b \div 32 = 6 /\ LeadBits(b) = b % 32
          BY <1>1, <4>1, FormsAre DEF b
        <5>2. Lead(b % 32, 1, 128)
          BY <1>8, <2>0, <4>0, <5>1 DEF Starts
        <5> QED
          BY <4>1, <5>1, <5>2 DEF Lead, LeastIn
      <4>2. CASE t = 3
        <5>1. b \div 16 = 14 /\ LeadBits(b) = b % 16
          BY <1>1, <4>2, FormsAre DEF b
        <5>2. Lead(b % 16, 2, 2048)
          BY <1>8, <2>0, <4>0, <5>1 DEF Starts
        <5> QED
          BY <4>2, <5>1, <5>2 DEF Lead, LeastIn
      <4>3. CASE t = 4
        <5>1. b \div 8 = 30 /\ LeadBits(b) = b % 8
          BY <1>1, <4>3, FormsAre DEF b
        <5>2. Lead(b % 8, 3, 65536)
          BY <1>8, <2>0, <4>0, <5>1 DEF Starts
        <5> QED
          BY <4>3, <5>1, <5>2 DEF Lead, LeastIn
      <4> HIDE DEF t
      <4> QED
        BY <2>2, <4>1, <4>2, <4>3
    <3>2. LeadBits(b) \in Nat
      BY <1>1, FormsAre DEF b
    <3> HIDE DEF t
    <3>3. owed' \in 0 .. 3 /\ partial' \in Nat /\ least' \in Nat
      BY <2>2, <3>1, <3>2 DEF LeastIn
    <3>4. Typed'
      BY <1>7, <3>1, <3>3, TakenTyped
    <3>5. AtPlace(n, s)'
      <4>1. Text' = Text
        BY <1>1, TextStays
      <4> QED
        BY <1>2, <3>1, <1>1, <4>1 DEF AtPlace, Resting
    <3>6. From(n)' = f
      BY <1>1, TextStays DEF f
    <3>7. Holding(n, 1)'
      <4>1. first_read' /\ 1 \in 0 .. Len(f) /\ Pending' = SubSeq(f, 1 + 1, Len(f))
        BY <1>1, <1>2, <1>3
      <4> QED
        BY <3>6, <4>1 DEF Holding
    <3>8. Decoding(From(n), 1)'
      <4>1. FormOf(f[1]) = t
        BY <1>3 DEF t
      <4>2. t \in 2 .. 4 /\ 1 \in 1 .. t - 1 /\ \A j \in 2 .. 1 : IsContinuation(f[j])
        BY <2>2
      <4>3. partial' = BitsUpTo(f, 1)
        BY <1>3, <3>1 DEF BitsUpTo
      <4> QED
        BY <3>1, <3>6, <4>1, <4>2, <4>3 DEF Decoding
    <3>9. Following'
      BY <3>5, <3>7, <3>8 DEF Following
    <3>10. Answered'
      BY <1>1, <3>1 DEF Answered, Resting
    <3>11. Running'
      BY <1>7, <3>1 DEF Running
    <3> QED
      BY <3>4, <3>9, <3>10, <3>11 DEF InputInv
  <2>3. CASE t = 0
    <3>1. /\ ~(b < 128) /\ b \div 32 # 6 /\ b \div 16 # 14 /\ b \div 8 # 30
      <4>1. t # 1 /\ t # 2 /\ t # 3 /\ t # 4
        BY <2>3
      <4>2. ~(b < 128) /\ ~(b >= 128 /\ b \div 32 = 6) /\ ~(b >= 128 /\ b \div 16 = 14) /\ ~(b >= 128 /\ b \div 8 = 30)
        BY <1>1, <4>1, FormsAre DEF b
      <4>3. b >= 128
        BY <1>8, <4>2
      <4> QED
        BY <4>2, <4>3
    <3>2. Stop("bad_utf8")
      BY <2>0, <3>1 DEF Starts
    <3>3. n = Len(Text)
      <4>1. t \notin 1 .. 4
        BY <2>3
      <4> QED
        BY <1>4, <4>1
    <3>4. From(n) # << >>
      <4>1. f # << >>
        BY <1>3
      <4> QED
        BY <4>1 DEF f
    <3> QED
      BY <1>2, <3>2, <3>3, <3>4, StuckHere
  <2>4. t \in {0, 1, 2, 3, 4} /\ (t = 1 => b < 128)
    BY <1>1, FormsAre DEF b
  <2> HIDE DEF t
  <2> QED
    BY <2>1, <2>2, <2>3, <2>4
<1> QED
  BY <1>11, <1>12

(* One byte more of a character. *)
LEMMA ContinueStep ==
  ASSUME InputInv, Take, at = "continuation"
  PROVE  InputInv'
<1> DEFINE b == Head(waiting)
<1>1. /\ Running /\ source \in Sources
      /\ source' = source /\ first_read' = first_read
      /\ answer # "over" /\ b \in Byte
  BY Taken
<1>2. PICK n, k, s :
        /\ AtPlace(n, s) /\ Decoding(From(n), k) /\ n \in 0 .. Len(Text) /\ Len(Text) \in Nat
        /\ first_read /\ From(n) \in Seq(Byte) /\ k \in 0 .. Len(From(n))
        /\ k + 1 \in 1 .. Len(From(n)) /\ From(n)[k + 1] = b
        /\ Pending' = SubSeq(From(n), k + 2, Len(From(n)))
  BY Taken
<1> DEFINE f == From(n)
           t == FormOf(f[1])
           c == BitsUpTo(f, t)
<1>3. /\ t \in 2 .. 4 /\ k \in 1 .. t - 1 /\ owed = t - k /\ least = LeastIn(t)
      /\ partial = BitsUpTo(f, k) /\ \A j \in 2 .. k : IsContinuation(f[j])
  BY <1>2 DEF Decoding
<1>4. /\ n # Len(Text) <=>
           /\ t \in 1 .. 4 /\ t <= Len(f) /\ \A j \in 2 .. t : IsContinuation(f[j])
           /\ IsCharacter(c) /\ LeastIn(t) <= c
      /\ n # Len(Text) => Text[n + 1] = c
  BY <1>1, <1>2, NextChar
<1>5. Continues(b)
  BY <1>1 DEF Take
<1>6. /\ line \in Seq(Nat) /\ lines \in Seq(Seq(Nat))
      /\ at \in {"program", "first", "more", "continuation", "eof"}
      /\ partial \in Nat /\ owed \in 0 .. 3 /\ least \in Nat
      /\ answer \in {"unknown", "over", "more"}
      /\ stopped = "no"
  BY <1>1 DEF InputInv, Typed, Running
<1>7. b \in Nat /\ b <= 255
  BY <1>1 DEF Byte
<1> DEFINE v == (partial * 64) + (b % 64)
<1>8. v \in Nat
  <2>1. b % 64 \in 0 .. 63
    BY <1>7
  <2>2. partial \in Nat
    BY <1>6
  <2> DEFINE y == b % 64
  <2>3. y \in Nat
    BY <2>1
  <2> HIDE DEF y
  <2> QED
    BY <2>2, <2>3 DEF y
<1>9. k \in 1 .. 3 /\ k \in Nat /\ Len(f) \in Nat /\ f[k + 1] = b /\ k + 1 <= Len(f)
  <2> HIDE DEF t
  <2>1. k \in 1 .. 3
    BY <1>3
  <2>2. Len(f) \in Nat
    BY <1>2
  <2>3. k + 1 <= Len(f) /\ f[k + 1] = b
    BY <1>2, <2>2
  <2> QED
    BY <2>1, <2>2, <2>3
<1>10. BitsUpTo(f, k + 1) = v
  BY <1>3, <1>9, BitsGrow
<1> HIDE DEF b, f, v
<1>11. CASE b \div 64 # 2
  <2>1. Stop("bad_utf8")
    BY <1>5, <1>11 DEF Continues
  <2>2. n = Len(Text)
    <3> SUFFICES ASSUME n # Len(Text) PROVE FALSE
      OBVIOUS
    <3>1. \A j \in 2 .. t : IsContinuation(f[j])
      BY <1>4
    <3>2. k + 1 \in 2 .. t
      <4> HIDE DEF t
      <4> QED
        BY <1>3
    <3> HIDE DEF t
    <3>3. IsContinuation(b)
      BY <1>9, <3>1, <3>2
    <3> QED
      BY <1>11, <3>3 DEF IsContinuation
  <2>3. From(n) # << >>
    <3>1. f # << >>
      BY <1>9
    <3> QED
      BY <3>1 DEF f
  <2> QED
    BY <1>2, <2>1, <2>2, <2>3, StuckHere
<1>12. CASE b \div 64 = 2 /\ owed > 1
  <2>1. /\ partial' = v /\ owed' = owed - 1
        /\ UNCHANGED <<at, least, line, lines, answer, stopped>>
    <3>1. owed # 1 /\ b \div 64 = 2 /\ owed > 1
      BY <1>6, <1>12
    <3> QED
      BY <1>5, <3>1 DEF Continues, v
  <2>2. owed' \in 0 .. 3
    BY <1>6, <1>12, <2>1
  <2>3. Typed'
    BY <1>6, <1>8, <2>1, <2>2, TakenTyped
  <2>4. AtPlace(n, s)'
    <3>1. Text' = Text
      BY <1>1, TextStays
    <3> QED
      BY <1>1, <1>2, <2>1, <3>1 DEF AtPlace, Resting
  <2>5. From(n)' = f
    BY <1>1, TextStays DEF f
  <2>6. Holding(n, k + 1)'
    <3>1. first_read' /\ k + 1 \in 0 .. Len(f)
      BY <1>1, <1>2, <1>9
    <3>2. Pending' = SubSeq(f, (k + 1) + 1, Len(f))
      <4>1. k + 2 = (k + 1) + 1
        BY <1>9
      <4> QED
        BY <1>2, <4>1 DEF f
    <3> QED
      BY <2>5, <3>1, <3>2 DEF Holding
  <2>7. Decoding(From(n), k + 1)'
    <3>1. k + 1 \in 1 .. t - 1 /\ owed' = t - (k + 1)
      <4> HIDE DEF t
      <4> QED
        BY <1>3, <1>12, <2>1
    <3>2. \A j \in 2 .. k + 1 : IsContinuation(f[j])
      <4> TAKE j \in 2 .. k + 1
      <4>1. j = k + 1 \/ j \in 2 .. k
        BY <1>9
      <4>2. IsContinuation(b)
        BY <1>12 DEF IsContinuation
      <4> HIDE DEF t
      <4> QED
        BY <1>3, <1>9, <4>1, <4>2
    <3>3. at' = "continuation" /\ partial' = BitsUpTo(f, k + 1) /\ least' = LeastIn(t)
      BY <1>3, <1>10, <2>1
    <3> QED
      BY <1>3, <2>5, <3>1, <3>2, <3>3 DEF Decoding
  <2>8. Following'
    BY <2>4, <2>6, <2>7 DEF Following
  <2>9. Answered'
    BY <1>1, <2>1 DEF Answered, Resting
  <2>10. Running'
    BY <1>6, <2>1 DEF Running
  <2> QED
    BY <2>3, <2>8, <2>9, <2>10 DEF InputInv
<1>13. CASE b \div 64 = 2 /\ ~(owed > 1)
  <2>1. owed = 1 /\ k + 1 = t
    <3> HIDE DEF t
    <3> QED
      BY <1>3, <1>13
  <2>2. c = v
    BY <1>10, <2>1
  <2>3. IF Scalar(v, least) THEN Push(v) ELSE Stop("bad_utf8")
    BY <1>5, <1>13, <2>1 DEF Continues, v
  <2>4. \A j \in 2 .. t : IsContinuation(f[j])
    <3> TAKE j \in 2 .. t
    <3> HIDE DEF t
    <3>1. j = k + 1 \/ j \in 2 .. k
      BY <1>9, <2>1
    <3>2. IsContinuation(b)
      BY <1>13 DEF IsContinuation
    <3> QED
      BY <1>3, <1>9, <3>1, <3>2
  <2>5. t \in 1 .. 4 /\ t <= Len(f)
    <3> HIDE DEF t
    <3> QED
      BY <1>3, <1>9, <2>1
  <2>6. Scalar(v, least) <=> IsCharacter(c) /\ LeastIn(t) <= c
    <3>1. least = LeastIn(t)
      BY <1>3
    <3> HIDE DEF t, c
    <3>2. ~Overlong(v, least) <=> LeastIn(t) <= c
      BY <1>6, <1>8, <2>2, <3>1 DEF Overlong
    <3> QED
      BY <1>8, <2>2, <3>2 DEF Scalar, IsCharacter
  <2>7. Scalar(v, least) <=> n # Len(Text)
    <3> HIDE DEF t, c
    <3> QED
      BY <1>4, <2>4, <2>5, <2>6
  <2>8. CASE Scalar(v, least)
    <3>1. /\ line' = Append(line, v) /\ at' = "more"
          /\ UNCHANGED <<partial, owed, least, lines, answer, stopped>>
      BY <2>3, <2>8 DEF Push, decoder
    <3>2. n # Len(Text) /\ Text[n + 1] = v /\ Text[n + 1] # NEWLINE
      <4>1. n # Len(Text) /\ Text[n + 1] = v
        BY <1>4, <2>2, <2>7, <2>8
      <4>2. LeastIn(t) <= v /\ LeastIn(t) >= 128
        <5>1. LeastIn(t) >= 128
          <6> HIDE DEF t
          <6> QED
            BY <1>3 DEF LeastIn
        <5> QED
          BY <2>2, <2>6, <2>8, <5>1
      <4>3. LeastIn(t) \in Nat
        BY DEF LeastIn
      <4>4. v # NEWLINE
        <5> DEFINE x == LeastIn(t)
        <5> HIDE DEF x
        <5>1. x \in Nat /\ x <= v /\ x >= 128
          BY <4>2, <4>3 DEF x
        <5> QED
          BY <1>8, <5>1 DEF NEWLINE
      <4> QED
        BY <4>1, <4>4
    <3>3. AtPlace(n + 1, s)'
      BY <1>1, <1>2, <3>1, <3>2, PushStep
    <3>4. Holding(n + 1, 0)' /\ Decoding(From(n + 1), 0)'
      <4>1. first_read' = TRUE /\ at' # "continuation"
        BY <1>1, <1>2, <3>1 DEF InputInv, Typed
      <4>2. k + 1 = FormOf(From(n)[1])
        BY <2>1 DEF f
      <4> QED
        BY <1>1, <1>2, <1>9, <3>2, <4>1, <4>2, CharTaken
    <3>5. line' \in Seq(Nat)
      BY <1>6, <1>8, <3>1
    <3>6. Typed'
      BY <1>6, <3>1, <3>5, TakenTyped
    <3>7. Following'
      BY <3>3, <3>4 DEF Following
    <3>8. Answered'
      BY <1>1, <3>1 DEF Answered, Resting
    <3>9. Running'
      BY <1>6, <3>1 DEF Running
    <3> QED
      BY <3>6, <3>7, <3>8, <3>9 DEF InputInv
  <2>9. CASE ~Scalar(v, least)
    <3>1. Stop("bad_utf8") /\ n = Len(Text)
      BY <2>3, <2>7, <2>9
    <3>2. From(n) # << >>
      <4>1. f # << >>
        BY <1>9
      <4> QED
        BY <4>1 DEF f
    <3> QED
      BY <1>2, <3>1, <3>2, StuckHere
  <2> QED
    BY <2>8, <2>9
<1> QED
  BY <1>11, <1>12, <1>13

(* What is held stays so while nothing arrives and nothing is taken. *)
LEMMA HoldingStays ==
  ASSUME source \in Sources, first_read \in BOOLEAN, UNCHANGED <<source, waiting, first_read>>,
         Pending' = Pending, Resting => Resting', NEW n, NEW k, Holding(n, k)
  PROVE  Holding(n, k)'
<1>1. From(n)' = From(n) /\ From(0)' = From(0)
  BY TextStays
<1>2. CASE first_read
  BY <1>1, <1>2 DEF Holding
<1>3. CASE ~first_read
  <2>1. Bytes(Marked(source))' = Bytes(Marked(source))
    BY DEF Marked
  <2> QED
    BY <1>1, <1>3, <2>1 DEF Holding
<1> QED
  BY <1>2, <1>3

(* One thing the program does instead of another, or finds out. *)
LEMMA QuietStep ==
  ASSUME InputInv, Running, UNCHANGED <<source, waiting, first_read, decoder, line, lines, stopped>>,
         Pending' = Pending, Resting, Resting', Typed', Answered'
  PROVE  InputInv'
<1>1. Following /\ source \in Sources /\ first_read \in BOOLEAN
  BY DEF InputInv, Typed
<1>2. PICK n, k, s : AtPlace(n, s) /\ Holding(n, k) /\ Decoding(From(n), k)
  BY <1>1 DEF Following
<1>3. Text' = Text
  BY TextStays
<1>4. at # "continuation" /\ at' # "continuation" /\ at' # "more"
  BY DEF Resting
<1>5. AtPlace(n, s)'
  BY <1>2, <1>3, <1>4 DEF AtPlace
<1>6. Holding(n, k)'
  BY <1>1, <1>2, HoldingStays
<1>7. Decoding(From(n), k)'
  BY <1>2, <1>4 DEF Decoding
<1>8. Following'
  BY <1>5, <1>6, <1>7 DEF Following
<1>9. Running'
  BY DEF Running
<1> QED
  BY <1>8, <1>9 DEF InputInv

(* And nothing at all. *)
LEMMA StillStep ==
  ASSUME InputInv, UNCHANGED vars
  PROVE  InputInv'
<1>1. /\ UNCHANGED <<source, left, waiting, first_read, done, at, partial, owed, least, line, lines, answer, stopped>>
      /\ UNCHANGED <<source, at, decoder, line, lines>>
  BY DEF vars, buffer, decoder
<1>2. /\ Text' = Text /\ Readable' = Readable /\ Unread' = Unread
      /\ Pending' = waiting' \o (IF done' THEN << >> ELSE FlattenSeq(Before(left')))
  BY <1>1, TextStays
<1>3. Pending' = Pending
  BY <1>1, <1>2 DEF Pending
<1>4. Typed'
  BY <1>1 DEF InputInv, Typed
<1>5. CASE Running
  <2>1. Following /\ Answered /\ source \in Sources /\ first_read \in BOOLEAN
    BY <1>5 DEF InputInv, Typed
  <2>2. PICK n, k, s : AtPlace(n, s) /\ Holding(n, k) /\ Decoding(From(n), k)
    BY <2>1 DEF Following
  <2>3. AtPlace(n, s)' /\ Decoding(From(n), k)' /\ (Resting' <=> Resting)
    BY <1>1, <2>2, PlaceStays
  <2>4. Holding(n, k)'
    BY <1>1, <1>3, <2>1, <2>2, <2>3, HoldingStays
  <2>5. Following'
    BY <2>3, <2>4 DEF Following
  <2>6. Answered'
    BY <1>1, <1>3, <2>1, <2>3 DEF Answered
  <2>7. Running'
    BY <1>1, <1>5 DEF Running
  <2> QED
    BY <1>4, <2>5, <2>6, <2>7 DEF InputInv
<1>6. CASE ~Running
  <2>1. IsPrefix(lines, Readable) /\ EofIsHonest /\ RefusesOnlyNonText
    BY <1>6 DEF InputInv
  <2>2. IsPrefix(lines, Readable)'
    BY <1>1, <1>2, <2>1 DEF IsPrefix
  <2>3. EofIsHonest' /\ RefusesOnlyNonText'
    BY <1>1, <1>2, <2>1 DEF EofIsHonest, RefusesOnlyNonText
  <2>4. ~Running'
    BY <1>1, <1>6 DEF Running
  <2> QED
    BY <1>4, <2>2, <2>3, <2>4 DEF InputInv
<1> QED
  BY <1>5, <1>6

-----------------------------------------------------------------------------
(* No byte is left to give. *)
LEMMA SpentStep ==
  ASSUME InputInv, RunDry, Spent, UNCHANGED <<source, waiting, first_read>>,
         left' \in Seq(Seq(Byte)),
         \A k \in 1 .. Len(left') :
            Len(left'[k]) >= 1 /\ Len(left'[k]) <= IF source.console THEN 3 ELSE 1,
         done' \in BOOLEAN, Pending = << >>, Pending' = << >>
  PROVE  InputInv'
<1>1. Running /\ at # "program" /\ waiting = << >>
  BY DEF RunDry
<1>2. /\ source \in Sources /\ first_read \in BOOLEAN
      /\ waiting \in Seq(Byte) /\ Len(waiting) <= INPUT_BYTES
      /\ line \in Seq(Nat) /\ lines \in Seq(Seq(Nat))
      /\ at \in {"program", "first", "more", "continuation", "eof"}
      /\ partial \in Nat /\ owed \in 0 .. 3 /\ least \in Nat
      /\ answer \in {"unknown", "over", "more"}
      /\ stopped = "no"
  BY <1>1 DEF InputInv, Typed, Running
<1>3. Following /\ Answered
  BY <1>1 DEF InputInv
<1>4. PICK n, k, s : AtPlace(n, s) /\ Holding(n, k) /\ Decoding(From(n), k)
  BY <1>3 DEF Following
<1>5. n \in 0 .. Len(Text) /\ (Resting => n = s)
  BY <1>4 DEF AtPlace
<1>6. From(n) \in Seq(Byte)
  BY <1>2, <1>5, FromIs
<1>7. at # "continuation" => k = 0 /\ n = Len(Text) /\ source.tail = << >>
  <2> SUFFICES ASSUME at # "continuation" PROVE k = 0 /\ n = Len(Text) /\ source.tail = << >>
    OBVIOUS
  <2>1. k = 0
    BY <1>4 DEF Decoding
  <2> QED
    BY <1>2, <1>4, <1>5, <2>1, AllTaken
<1>8. ASSUME /\ line' \in Seq(Nat) /\ lines' \in Seq(Seq(Nat))
             /\ at' \in {"program", "first", "more", "continuation", "eof"}
             /\ UNCHANGED <<partial, owed, least>>
             /\ answer' \in {"unknown", "over", "more"}
             /\ stopped' \in {"no", "no_input", "bad_utf8", "failed"}
      PROVE  Typed'
  BY <1>2, <1>8 DEF Typed
<1>9. CASE at = "first"
  <2>1. Stop("no_input")
    BY <1>9 DEF Spent
  <2>2. stopped' = "no_input" /\ UNCHANGED <<at, partial, owed, least, line, lines, answer>>
    BY <2>1 DEF Stop, decoder
  <2>3. Typed'
    BY <1>2, <1>8, <2>2
  <2>4. answer # "more"
    BY <1>1, <1>3, <1>9 DEF Answered, Resting
  <2>5. s = Len(Text) /\ source.tail = << >>
    BY <1>5, <1>7, <1>9 DEF Resting
  <2> QED
    BY <1>1, <1>4, <2>2, <2>3, <2>4, <2>5, StopStep
<1>10. CASE at = "continuation"
  <2>1. Stop("bad_utf8")
    BY <1>10 DEF Spent
  <2>2. stopped' = "bad_utf8" /\ UNCHANGED <<at, partial, owed, least, line, lines, answer>>
    BY <2>1 DEF Stop, decoder
  <2>3. Typed'
    BY <1>2, <1>8, <2>2
  <2> DEFINE f == From(n)
             t == FormOf(f[1])
             c == BitsUpTo(f, t)
  <2>4. t \in 2 .. 4 /\ k \in 1 .. t - 1
    BY <1>4, <1>10 DEF Decoding
  <2>5. k = Len(f) /\ k \in Nat
    <3>1. k \in 0 .. Len(f) /\ SubSeq(f, k + 1, Len(f)) = << >>
      BY <1>2, <1>4, <1>10 DEF Holding, Resting
    <3>2. f \in Seq(Byte)
      BY <1>6
    <3> HIDE DEF f, t
    <3> DEFINE l == Len(f)
    <3>3. l \in Nat /\ k \in Nat /\ k <= l
      BY <3>1, <3>2
    <3>4. Len(SubSeq(f, k + 1, l)) = IF k + 1 <= l THEN l - k ELSE 0
      BY <3>2, <3>3
    <3>5. Len(SubSeq(f, k + 1, l)) = 0
      <4> DEFINE g == SubSeq(f, k + 1, l)
      <4>1. g = << >>
        BY <3>1
      <4> HIDE DEF g
      <4>2. Len(g) = 0
        BY <4>1
      <4> QED
        BY <4>2 DEF g
    <3> HIDE DEF l
    <3>6. k = l
      BY <3>3, <3>4, <3>5
    <3> QED
      BY <3>3, <3>6 DEF l
  <2>6. n = Len(Text)
    <3> SUFFICES ASSUME n # Len(Text) PROVE FALSE
      OBVIOUS
    <3>1. t <= Len(f)
      BY <1>2, <1>5, NextChar
    <3> HIDE DEF t, f
    <3> QED
      BY <2>4, <2>5, <3>1
  <2>7. source.tail # << >>
    <3>1. f = source.tail
      BY <1>2, <2>6, FromIs
    <3>2. k # 0
      <4> HIDE DEF t
      <4> QED
        BY <2>4
    <3>3. f # << >>
      <4> HIDE DEF f, t
      <4> QED
        BY <2>5, <3>2
    <3> QED
      BY <3>1, <3>3
  <2> QED
    BY <1>1, <1>4, <2>2, <2>3, <2>6, <2>7, StopStep
<1>11. CASE at = "more"
  <2>1. /\ lines' = Append(lines, WithoutReturn(line)) /\ line' = << >> /\ at' = "program"
        /\ answer' = "unknown" /\ UNCHANGED <<partial, owed, least, stopped>>
    BY <1>11 DEF Spent, EndLine, decoder
  <2>2. n = Len(Text) /\ source.tail = << >> /\ k = 0
    BY <1>7, <1>11
  <2>3. AtPlace(n, n)'
    BY <1>2, <1>4, <1>11, <2>1, <2>2, LastLineStep
  <2>4. lines' \in Seq(Seq(Nat)) /\ line' \in Seq(Nat)
    <3>1. WithoutReturn(line) \in Seq(Nat)
      BY <1>2, WithoutReturnIs
    <3> DEFINE w == WithoutReturn(line)
               L == Seq(Nat)
    <3>2. lines \in Seq(L) /\ w \in L /\ lines' = Append(lines, w) /\ line' = << >> /\ << >> \in L
      BY <1>2, <2>1, <3>1
    <3> HIDE DEF w, L
    <3>3. lines' \in Seq(L) /\ line' \in L
      BY <3>2
    <3> QED
      BY <3>3 DEF L
  <2>5. Typed'
    BY <1>2, <1>8, <2>1, <2>4
  <2>6. Holding(n, k)'
    <3>1. Pending' = Pending /\ ~Resting
      BY <1>11 DEF Resting
    <3> QED
      BY <1>2, <1>4, <3>1, HoldingStays
  <2>7. Decoding(From(n), k)'
    BY <2>1, <2>2 DEF Decoding
  <2>8. Following'
    BY <2>3, <2>6, <2>7 DEF Following
  <2>9. Answered'
    BY <2>1 DEF Answered
  <2>10. Running'
    BY <1>2, <2>1 DEF Running
  <2> QED
    BY <2>5, <2>8, <2>9, <2>10 DEF InputInv
<1>12. CASE at = "eof"
  <2>1. /\ answer' = "over" /\ at' = "program"
        /\ UNCHANGED <<decoder, line, lines, stopped>> /\ UNCHANGED <<partial, owed, least>>
    BY <1>12 DEF Spent, decoder
  <2>2. Typed'
    BY <1>2, <1>8, <2>1
  <2>3. Resting /\ Resting'
    BY <1>12, <2>1 DEF Resting
  <2>4. Answered'
    BY <2>1, <2>3 DEF Answered
  <2>5. Pending' = Pending
    OBVIOUS
  <2> QED
    BY <1>1, <2>1, <2>2, <2>3, <2>4, <2>5, QuietStep
<1> QED
  BY <1>1, <1>2, <1>9, <1>10, <1>11, <1>12

(* Nothing is left, or nothing is asked for any more. *)
LEMMA RunOutStep ==
  ASSUME InputInv, RunOut
  PROVE  InputInv'
<1>1. /\ RunDry /\ waiting = << >> /\ Spent /\ (done \/ left = << >>)
      /\ UNCHANGED <<source, left, waiting, first_read, done>>
  BY DEF RunOut, RunDry, buffer
<1>2. Typed
  BY DEF InputInv
<1>3. Pending = << >>
  <2>1. FlattenSeq(Before(<< >>)) = << >>
    <3>1. Ends(<< >>) = {}
      BY DEF Ends
    <3>2. Before(<< >>) = << >>
      BY <3>1 DEF Before, Declared
    <3>3. FlattenSeq(<< >>) = << >>
      BY DEF FlattenSeq
    <3> QED
      BY <3>2, <3>3
  <2>2. (IF done THEN << >> ELSE FlattenSeq(Before(left))) = << >>
    BY <1>1, <2>1
  <2>3. Pending = << >> \o << >>
    BY <1>1, <2>2 DEF Pending
  <2> QED
    BY <2>3
<1>4. Pending' = << >>
  <2>1. Pending' = waiting' \o (IF done' THEN << >> ELSE FlattenSeq(Before(left')))
    BY <1>1, TextStays
  <2> QED
    BY <1>1, <1>3, <2>1 DEF Pending
<1> QED
  BY <1>1, <1>2, <1>3, <1>4, SpentStep DEF Typed

(* Ctrl+Z comes before anything else. *)
LEMMA DeclaredOverStep ==
  ASSUME InputInv, DeclaredOver
  PROVE  InputInv'
<1>1. /\ RunDry /\ waiting = << >> /\ Spent /\ ~done /\ left # << >> /\ IsEnd(Head(left))
      /\ left' = << >> /\ done' = TRUE /\ UNCHANGED <<source, waiting, first_read>>
  BY DEF DeclaredOver, RunDry
<1>2. left \in Seq(Seq(Byte))
  BY DEF InputInv, Typed
<1>3. Pending = << >>
  <2>1. EndsAt(left, 0)
    <3> DEFINE V == Seq(Byte)
    <3>1. left \in Seq(V)
      BY <1>2
    <3> HIDE DEF V
    <3>2. Head(left) = left[1] /\ 0 \in 0 .. Len(left)
      BY <1>1, <3>1
    <3> QED
      BY <1>1, <3>2 DEF EndsAt
  <2>2. Before(left) = SubSeq(left, 1, 0)
    BY <1>2, <2>1, BeforeIs
  <2>3. SubSeq(left, 1, 0) = << >>
    <3> DEFINE V == Seq(Byte)
    <3>1. left \in Seq(V)
      BY <1>2
    <3> HIDE DEF V
    <3> QED
      BY <3>1
  <2>4. FlattenSeq(<< >>) = << >>
    BY DEF FlattenSeq
  <2>5. Pending = << >> \o << >>
    BY <1>1, <2>2, <2>3, <2>4 DEF Pending
  <2> QED
    BY <2>5
<1>4. Pending' = << >>
  <2>1. Pending' = waiting' \o (IF done' THEN << >> ELSE FlattenSeq(Before(left')))
    BY <1>1, TextStays
  <2>2. Pending' = << >> \o << >>
    BY <1>1, <2>1
  <2> QED
    BY <2>2
<1>5. left' \in Seq(Seq(Byte)) /\ Len(left') = 0
  BY <1>1
<1>6. \A k \in 1 .. Len(left') :
         Len(left'[k]) >= 1 /\ Len(left'[k]) <= IF source.console THEN 3 ELSE 1
  BY <1>5
<1> QED
  BY <1>1, <1>3, <1>4, <1>5, <1>6, SpentStep

(* A refusal to read stops the program. *)
LEMMA FailStep ==
  ASSUME InputInv, InputFailed
  PROVE  InputInv'
<1>1. /\ Running /\ stopped' = "failed"
      /\ UNCHANGED <<source, left, waiting, first_read, done, at, partial, owed, least, line, lines, answer>>
      /\ UNCHANGED <<source, line, lines, answer>>
  BY DEF InputFailed, RunDry, Stop, buffer, decoder
<1>2. Following /\ Typed
  BY <1>1 DEF InputInv
<1>3. PICK n, k, s : AtPlace(n, s) /\ Holding(n, k) /\ Decoding(From(n), k)
  BY <1>2 DEF Following
<1>4. Typed'
  BY <1>1, <1>2 DEF Typed
<1> QED
  BY <1>1, <1>3, <1>4, StopStep

(* read_line() is called, or eof(), or that finds a byte. *)
LEMMA AskStep ==
  ASSUME InputInv, ReadLine \/ Eof \/ NotOver
  PROVE  InputInv'
<1>1. /\ Running /\ at \in {"program", "eof"} /\ at' \in {"program", "first", "eof"}
      /\ UNCHANGED <<source, left, waiting, first_read, done, partial, owed, least, line, lines, stopped>>
      /\ UNCHANGED <<source, waiting, first_read, decoder, line, lines, stopped>>
      /\ answer' = answer \/ (answer' = "more" /\ waiting # << >>)
  BY DEF ReadLine, Eof, NotOver, buffer, decoder
<1>2. Typed /\ Answered
  BY <1>1 DEF InputInv
<1>3. Resting /\ Resting'
  BY <1>1 DEF Resting
<1>4. Pending' = Pending
  <2>1. Pending' = waiting' \o (IF done' THEN << >> ELSE FlattenSeq(Before(left')))
    BY <1>1, TextStays
  <2> QED
    BY <1>1, <2>1 DEF Pending
<1>5. Typed'
  BY <1>1, <1>2 DEF Typed
<1>6. Answered'
  BY <1>1, <1>2, <1>3, <1>4 DEF Answered
<1> QED
  BY <1>1, <1>3, <1>4, <1>5, <1>6, QuietStep

-----------------------------------------------------------------------------
(* At the start everything is still to come. *)
LEMMA InputStarts ==
  ASSUME Init
  PROVE  InputInv
<1>1. /\ source \in Sources /\ left = Units(source) /\ waiting = << >> /\ first_read = FALSE
      /\ done = FALSE /\ at = "program" /\ partial = 0 /\ owed = 0 /\ least = 0
      /\ line = << >> /\ lines = << >> /\ answer = "unknown" /\ stopped = "no"
  BY DEF Init
<1>2. /\ left \in Seq(Seq(Byte))
      /\ \A k \in 1 .. Len(left) :
            Len(left[k]) >= 1 /\ Len(left[k]) <= IF source.console THEN 3 ELSE 1
      /\ FlattenSeq(Before(left)) = Bytes(Marked(source)) \o From(0)
  BY <1>1, UnitsAre
<1>3. Typed
  <2>1. Len(waiting) <= INPUT_BYTES
    <3>1. Len(<< >>) = 0 /\ INPUT_BYTES \in Nat
      BY SourcesAreInput
    <3> QED
      BY <1>1, <3>1
  <2>2. << >> \in Seq(Seq(Nat)) /\ << >> \in Seq(Nat) /\ << >> \in Seq(Byte)
    OBVIOUS
  <2>3. waiting \in Seq(Byte) /\ line \in Seq(Nat) /\ lines \in Seq(Seq(Nat))
    <3> DEFINE L == Seq(Seq(Nat))
    <3>1. << >> \in L
      BY <2>2
    <3> HIDE DEF L
    <3>2. lines \in L
      BY <1>1, <3>1
    <3> QED
      BY <1>1, <2>2, <3>2 DEF L
  <2>4. /\ first_read \in BOOLEAN /\ done \in BOOLEAN
        /\ at \in {"program", "first", "more", "continuation", "eof"}
        /\ partial \in Nat /\ owed \in 0 .. 3 /\ least \in Nat
        /\ answer \in {"unknown", "over", "more"}
        /\ stopped \in {"no", "no_input", "bad_utf8", "failed"}
    <3>1. first_read \in BOOLEAN /\ done \in BOOLEAN
      BY <1>1
    <3>2. partial \in Nat /\ owed \in 0 .. 3 /\ least \in Nat
      BY <1>1
    <3>3. at \in {"program", "first", "more", "continuation", "eof"}
      BY <1>1
    <3>4. answer \in {"unknown", "over", "more"} /\ stopped \in {"no", "no_input", "bad_utf8", "failed"}
      BY <1>1
    <3> QED
      BY <3>1, <3>2, <3>3, <3>4
  <2> QED
    BY <1>1, <1>2, <2>1, <2>3, <2>4 DEF Typed
<1>4. Text \in Seq(Nat) /\ Len(Text) \in Nat
  BY <1>1, TextType
<1>5. AtPlace(0, 0)
  <2>1. SubSeq(Text, 1, 0) = << >> /\ SubSeq(Text, 0 + 1, 0) = << >>
    <3> DEFINE t == Text
    <3> HIDE DEF t
    <3>1. t \in Seq(Nat)
      BY <1>4 DEF t
    <3>2. SubSeq(t, 1, 0) = << >> /\ SubSeq(t, 0 + 1, 0) = << >>
      BY <3>1
    <3> QED
      BY <3>2 DEF t
  <2>2. LinesOf(<< >>) = << >>
    <3>1. LinesOf(<< >>) \in Seq(Seq(Nat)) /\ Len(LinesOf(<< >>)) = 0
      <4>1. << >> \in Seq(Nat) /\ Count(<< >>) = 0
        BY DEF Count
      <4> QED
        BY <4>1, LinesAre
    <3> DEFINE V == Seq(Nat)
               x == LinesOf(<< >>)
    <3>2. x \in Seq(V) /\ Len(x) = 0
      BY <3>1
    <3> HIDE DEF V, x
    <3>3. x = << >>
      BY <3>2
    <3> QED
      BY <3>3 DEF x
  <2>3. \A m \in 0 + 1 .. 0 : Text[m] # NEWLINE
    OBVIOUS
  <2>4. 0 \in 0 .. Len(Text) /\ 0 \in 0 .. 0
    BY <1>4
  <2> QED
    BY <1>1, <2>1, <2>2, <2>3, <2>4 DEF AtPlace
<1>6. Holding(0, 0)
  <2> DEFINE m == Bytes(Marked(source))
             f == From(0)
             x == FlattenSeq(Before(left))
  <2>1. x \in Seq(Byte)
    BY <1>2, BeforeType
  <2>2. Pending = << >> \o x
    BY <1>1 DEF Pending
  <2> HIDE DEF x
  <2>3. << >> \o x = x
    BY <2>1
  <2>4. Pending = m \o f
    BY <1>2, <2>2, <2>3 DEF x
  <2> QED
    BY <1>1, <2>4 DEF Holding, Resting
<1>7. Decoding(From(0), 0)
  BY <1>1 DEF Decoding
<1>8. Following
  BY <1>5, <1>6, <1>7 DEF Following
<1>9. Answered
  BY <1>1 DEF Answered
<1> QED
  BY <1>1, <1>3, <1>8, <1>9 DEF InputInv, Running

(* Every step keeps it. *)
LEMMA InputSteps ==
  ASSUME InputInv, [Next]_vars
  PROVE  InputInv'
<1>1. CASE Refill
  BY <1>1, RefillStep
<1>2. CASE InputFailed
  BY <1>2, FailStep
<1>3. CASE Take
  BY <1>3, StartStep, ContinueStep
<1>4. CASE RunOut
  BY <1>4, RunOutStep
<1>5. CASE DeclaredOver
  BY <1>5, DeclaredOverStep
<1>6. CASE ReadLine \/ Eof \/ NotOver
  BY <1>6, AskStep
<1>7. CASE Stopped
  BY <1>7, StillStep DEF Stopped
<1>8. CASE UNCHANGED vars
  BY <1>8, StillStep
<1> QED
  BY <1>1, <1>2, <1>3, <1>4, <1>5, <1>6, <1>7, <1>8 DEF Next

-----------------------------------------------------------------------------
(* Numbers keeps what it promised while it does nothing. *)
LEMMA NumbersStill ==
  ASSUME NumbersInv, UNCHANGED numbers
  PROVE  NumbersInv'
<1>1. UNCHANGED <<doing, spelled, here, minus, rax, number, digits, told>>
  BY DEF numbers
<1> QED
  BY <1>1 DEF NumbersInv, NumbersAreExact

(* The lines that were read are texts to ask about. *)
LEMMA LinesAreTexts ==
  ASSUME InputInv, lines # << >>
  PROVE  Last(lines) \in Seq(Int)
<1> DEFINE L == Seq(Nat)
<1>1. lines \in Seq(L)
  BY DEF InputInv, Typed
<1> HIDE DEF L
<1>2. Last(lines) \in L
  BY <1>1 DEF Last
<1> DEFINE s == Last(lines)
<1>3. s \in Seq(Nat)
  BY <1>2 DEF L
<1> HIDE DEF s
<1>4. s \in Seq(Int)
  <2>1. \A i \in 1 .. Len(s) : s[i] \in Int
    BY <1>3
  <2> QED
    BY <1>3, <2>1
<1> QED
  BY <1>4 DEF s

(* The program begins with both. *)
LEMMA NumericStarts == NumericInit => InputInv /\ NumbersInv
  BY InputStarts, IdleIs DEF NumericInit

(* Whatever it does keeps both. *)
LEMMA NumericSteps ==
  ASSUME InputInv, NumbersInv, [NumericNext]_<<vars, numbers>>
  PROVE  InputInv' /\ NumbersInv'
<1>1. CASE Reading
  <2>1. InputInv'
    BY <1>1, InputSteps DEF Reading
  <2>2. NumbersInv'
    BY <1>1, Forgetting DEF Reading
  <2> QED
    BY <2>1, <2>2
<1>2. CASE Asking
  <2>1. UNCHANGED vars
    BY <1>2 DEF Asking, vars
  <2>2. InputInv'
    BY <2>1, StillStep
  <2>3. PICK who \in {"is_int", "int"} :
          \/ lines # << >> /\ Parse(who, Last(lines))
          \/ told = "text" /\ Parse(who, spelled)
    BY <1>2 DEF Asking
  <2>4. CASE lines # << >> /\ Parse(who, Last(lines))
    <3>1. Last(lines) \in Seq(Int)
      BY <2>4, LinesAreTexts
    <3> QED
      BY <2>2, <2>3, <2>4, <3>1, ParseStep
  <2>5. CASE told = "text" /\ Parse(who, spelled)
    <3>1. spelled \in Seq(Int)
      BY DEF NumbersInv
    <3> QED
      BY <2>2, <2>3, <2>5, <3>1, ParseStep
  <2> QED
    BY <2>3, <2>4, <2>5
<1>3. CASE Writing
  <2>1. UNCHANGED vars
    BY <1>3 DEF Writing, vars
  <2>2. InputInv'
    BY <2>1, StillStep
  <2>3. told = "number" /\ Write(number)
    BY <1>3 DEF Writing
  <2>4. FitsInt(number)
    BY <2>3 DEF NumbersInv, NumbersAreExact, IsNumber
  <2>5. NumbersInv'
    BY <2>3, <2>4, WriteStep
  <2> QED
    BY <2>2, <2>5
<1>4. CASE Counting
  <2>1. UNCHANGED vars
    BY <1>4 DEF Counting, vars
  <2>2. InputInv'
    BY <2>1, StillStep
  <2>3. NumbersInv'
    BY <1>4, DigitStep, CompleteStep, WriteDigitStep DEF Counting
  <2> QED
    BY <2>2, <2>3
<1>5. CASE GivenUp \/ UNCHANGED <<vars, numbers>>
  <2>1. UNCHANGED vars /\ UNCHANGED numbers
    BY <1>5 DEF GivenUp
  <2> QED
    BY <2>1, StillStep, NumbersStill
<1> QED
  BY <1>1, <1>2, <1>3, <1>4, <1>5 DEF NumericNext

(* Where in the text the program is, always. *)
THEOREM Positions == NumericSpec => [](InputInv /\ NumbersInv)
<1>1. NumericInit => InputInv /\ NumbersInv
  BY NumericStarts
<1>2. InputInv /\ NumbersInv /\ [NumericNext]_<<vars, numbers>> => (InputInv /\ NumbersInv)'
  BY NumericSteps
<1> QED
  BY <1>1, <1>2, PTL DEF NumericSpec

(* However the input is cut into reads, inside characters, endings or between *)
(* a mark and the text, read_line() answers the lines of the text in order,  *)
(* and no read brings more than the buffer holds (refill, read_line).        *)
THEOREM LinesAreTheText == NumericSpec => []ReadsTheText
<1>1. InputInv => ReadsTheText
  BY InputMeans
<1> QED
  BY <1>1, Positions, PTL

(* eof() answers that nothing is left only when every line was read, and a    *)
(* program is stopped for reading past the end only where it would have      *)
(* answered that.                                                           *)
THEOREM EofTellsTheTruth == NumericSpec => []EofIsHonest
<1>1. InputInv => EofIsHonest
  BY InputMeans
<1> QED
  BY <1>1, Positions, PTL

(* utf8_decode refuses all bytes that spell no character, and no others, and  *)
(* not before everything in front of them was read.                         *)
THEOREM OnlyNonTextIsRefused == NumericSpec => []RefusesOnlyNonText
<1>1. InputInv => RefusesOnlyNonText
  BY InputMeans
<1> QED
  BY <1>1, Positions, PTL

(* is_int, int and string are exact for integers of every width, asked of any *)
(* line that can be read and of what was written.                           *)
THEOREM NumbersStayExact == NumericSpec => []NumbersAreExact
<1>1. NumbersInv => NumbersAreExact
  BY DEF NumbersInv
<1> QED
  BY <1>1, Positions, PTL
=============================================================================
