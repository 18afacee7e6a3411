--------------------------- MODULE SequenceFacts ---------------------------
(***************************************************************************)
(* What the proofs about sequences, about functions that are defined by    *)
(* recursion on a position, and about the least and the greatest rest on.  *)
(***************************************************************************)
EXTENDS Integers, Sequences, FiniteSets, SequencesExt, FiniteSetTheorems,
        SequenceTheorems, TLAPS

(* A set of numbers up to n that has with each the next one is empty:        *)
(* counting on from its members would map it into itself less one of them.  *)
LEMMA NoEndlessClimb ==
  ASSUME NEW n \in Nat, NEW B \in SUBSET (1 .. n), \A k \in B : k + 1 \in B
  PROVE  B = {}
<1> SUFFICES ASSUME NEW a \in B PROVE FALSE
  OBVIOUS
<1> DEFINE D == {k \in B : k >= a}
           next == [k \in D |-> k + 1]
<1>1. IsFiniteSet(D) /\ a \in D
  <2>1. IsFiniteSet(1 .. n)
    BY FS_Interval
  <2>2. D \in SUBSET (1 .. n)
    OBVIOUS
  <2> QED
    BY <2>1, <2>2, FS_Subset
<1>2. IsFiniteSet(D \ {a}) /\ Cardinality(D \ {a}) = Cardinality(D) - 1
  BY <1>1, FS_RemoveElement
<1>3. next \in Injection(D, D \ {a})
  <2>1. \A k \in D : k + 1 \in D \ {a}
    <3> TAKE k \in D
    <3>1. k \in Int /\ a \in Int /\ k + 1 \in B /\ k >= a
      OBVIOUS
    <3> QED
      BY <3>1
  <2>2. \A k \in D : k \in Int
    OBVIOUS
  <2> HIDE DEF D
  <2>3. next \in [D -> D \ {a}]
    BY <2>1
  <2>4. \A j, k \in D : next[j] = next[k] => j = k
    BY <2>2
  <2> QED
    BY <2>3, <2>4 DEF Injection, IsInjective
<1>4. Cardinality(D) <= Cardinality(D \ {a})
  <2> HIDE DEF D, next
  <2> QED
    BY <1>2, <1>3, FS_Injection
<1>5. Cardinality(D) \in Nat
  BY <1>1, FS_CardinalityType
<1> QED
  BY <1>2, <1>4, <1>5

(* Induction up to n: a set that has 0, and with each number below n the     *)
(* next one, has them all.                                                  *)
LEMMA UpTo ==
  ASSUME NEW n \in Nat, NEW S, 0 \in S, \A k \in 0 .. n - 1 : k \in S => k + 1 \in S
  PROVE  \A k \in 0 .. n : k \in S
<1> DEFINE B == {m \in 1 .. n : n + 1 - m \notin S}
<1>1. ASSUME NEW m \in B PROVE m + 1 \in B
  <2>1. m \in 1 .. n /\ n + 1 - m \notin S
    OBVIOUS
  <2>2. n - m \in 0 .. n - 1 /\ n - m + 1 = n + 1 - m
    BY <2>1
  <2>3. n - m \notin S
    BY <2>1, <2>2
  <2>4. m # n
    BY <2>1, <2>3
  <2>5. m + 1 \in 1 .. n /\ n + 1 - (m + 1) = n - m
    BY <2>1, <2>4
  <2> QED
    BY <2>3, <2>5
<1>2. B = {}
  <2>1. B \in SUBSET (1 .. n)
    OBVIOUS
  <2> HIDE DEF B
  <2> QED
    BY <1>1, <2>1, NoEndlessClimb
<1>3. ASSUME NEW k \in 1 .. n PROVE k \in S
  <2>1. n + 1 - k \in 1 .. n /\ n + 1 - (n + 1 - k) = k
    OBVIOUS
  <2> QED
    BY <1>2, <2>1
<1> QED
  BY <1>3

(* A set of positions that has with each the ones before it is 1 .. its     *)
(* number of elements.                                                      *)
LEMMA InitialSegment ==
  ASSUME NEW n \in Nat, NEW P \in SUBSET (1 .. n),
         \A p \in P : \A q \in 1 .. n : q <= p => q \in P
  PROVE  Cardinality(P) \in 0 .. n /\ P = 1 .. Cardinality(P)
<1> DEFINE S == {k \in 0 .. n : \E m \in 0 .. k : P \cap (1 .. k) = 1 .. m}
<1>1. 0 \in S
  OBVIOUS
<1>2. ASSUME NEW k \in 0 .. n - 1, k \in S PROVE k + 1 \in S
  <2>1. PICK m \in 0 .. k : P \cap (1 .. k) = 1 .. m
    BY <1>2
  <2>2. k + 1 \in 0 .. n /\ 1 .. k + 1 = (1 .. k) \cup {k + 1}
    OBVIOUS
  <2>3. CASE k + 1 \in P
    <3>1. P \cap (1 .. k + 1) = 1 .. k + 1
      BY <2>2, <2>3
    <3> QED
      BY <2>2, <3>1
  <2>4. CASE k + 1 \notin P
    <3>1. P \cap (1 .. k + 1) = 1 .. m
      BY <2>1, <2>2, <2>4
    <3> QED
      BY <2>2, <3>1
  <2> QED
    BY <2>3, <2>4
<1>3. n \in S
  <2> HIDE DEF S
  <2> QED
    BY <1>1, <1>2, UpTo
<1>4. PICK m \in 0 .. n : P = 1 .. m
  <2>1. PICK m \in 0 .. n : P \cap (1 .. n) = 1 .. m
    BY <1>3
  <2> QED
    BY <2>1
<1>5. Cardinality(P) = m
  BY <1>4, FS_Interval
<1> QED
  BY <1>4, <1>5

(* A set of positions that is not empty has a last one. *)
LEMMA LastOf ==
  ASSUME NEW n \in Nat, NEW P \in SUBSET (1 .. n), NEW a \in P
  PROVE  \E p \in P : \A q \in P : q <= p
<1> SUFFICES ASSUME \A p \in P : \E q \in P : ~(q <= p) PROVE FALSE
  OBVIOUS
<1> DEFINE B == {k \in 1 .. n : \E p \in P : k <= p}
<1>1. ASSUME NEW k \in B PROVE k + 1 \in B
  <2>1. PICK p \in P : k <= p
    OBVIOUS
  <2>2. PICK q \in P : ~(q <= p)
    BY <2>1
  <2>3. k + 1 <= q /\ q \in 1 .. n /\ p \in 1 .. n /\ k \in 1 .. n
    BY <2>1, <2>2
  <2> QED
    BY <2>3
<1>2. a \in B
  BY a <= a, a \in 1 .. n
<1>3. B = {}
  <2>1. B \in SUBSET (1 .. n)
    OBVIOUS
  <2> HIDE DEF B
  <2> QED
    BY <1>1, <2>1, NoEndlessClimb
<1> QED
  BY <1>2, <1>3

(* The functions that solve a recursion on a position. *)
Solutions(n, V, first, step) ==
    {f \in [0 .. n -> V] : f[0] = first /\ \A k \in 1 .. n : f[k] = step[k][f[k - 1]]}

(* A recursion on a position has a solution: what a recursive function is    *)
(* defined to be is then what it equals.                                    *)
LEMMA Recursion ==
  ASSUME NEW n \in Nat, NEW V, NEW first \in V, NEW step \in [1 .. n -> [V -> V]]
  PROVE  Solutions(n, V, first, step) # {}
<1> DEFINE Solves(f, m) == f[0] = first /\ \A k \in 1 .. m : f[k] = step[k][f[k - 1]]
           S == {m \in 0 .. n : \E f \in [0 .. m -> V] : Solves(f, m)}
<1>1. 0 \in S
  <2> DEFINE f == [k \in 0 .. 0 |-> first]
  <2>1. f \in [0 .. 0 -> V] /\ Solves(f, 0)
    OBVIOUS
  <2> HIDE DEF f, Solves
  <2> QED
    BY <2>1
<1>2. ASSUME NEW m \in 0 .. n - 1, m \in S PROVE m + 1 \in S
  <2>1. PICK f \in [0 .. m -> V] : Solves(f, m)
    BY <1>2
  <2> DEFINE g == [k \in 0 .. m + 1 |-> IF k = m + 1 THEN step[m + 1][f[m]] ELSE f[k]]
  <2>2. step[m + 1][f[m]] \in V
    <3>1. m + 1 \in 1 .. n /\ f[m] \in V
      OBVIOUS
    <3>2. step[m + 1] \in [V -> V]
      BY <3>1
    <3> QED
      BY <3>1, <3>2
  <2>3. g \in [0 .. m + 1 -> V]
    BY <2>2
  <2>4. g[0] = first
    BY <2>1
  <2>5. ASSUME NEW k \in 1 .. m + 1 PROVE g[k] = step[k][g[k - 1]]
    BY <2>1
  <2>6. m + 1 \in 0 .. n
    OBVIOUS
  <2>7. Solves(g, m + 1)
    <3> HIDE DEF g
    <3> QED
      BY <2>4, <2>5
  <2> HIDE DEF g, Solves
  <2> QED
    BY <2>3, <2>6, <2>7
<1>3. n \in S
  <2> HIDE DEF S, Solves
  <2>1. \A m \in 0 .. n - 1 : m \in S => m + 1 \in S
    BY <1>2
  <2>2. \A m \in 0 .. n : m \in S
    BY <1>1, <2>1, UpTo
  <2> QED
    BY <2>2
<1> QED
  BY <1>3 DEF Solutions

-----------------------------------------------------------------------------
(* What a sequence holds after something is appended. *)
LEMMA AppendFacts ==
  ASSUME NEW S, NEW s \in Seq(S), NEW e \in S
  PROVE  /\ Append(s, e) \in Seq(S)
         /\ ToSet(Append(s, e)) = ToSet(s) \cup {e}
         /\ IsInjective(s) /\ e \notin ToSet(s) => IsInjective(Append(s, e))
<1>1. /\ Append(s, e) \in Seq(S)
      /\ Len(Append(s, e)) = Len(s) + 1
      /\ \A q \in 1 .. Len(s) : Append(s, e)[q] = s[q]
      /\ Append(s, e)[Len(s) + 1] = e
  OBVIOUS
<1>2. DOMAIN s = 1 .. Len(s) /\ DOMAIN Append(s, e) = 1 .. Len(s) + 1 /\ Len(s) \in Nat
  OBVIOUS
<1>3. 1 .. Len(s) + 1 = (1 .. Len(s)) \cup {Len(s) + 1} /\ Len(s) + 1 \notin 1 .. Len(s)
  BY <1>2
<1>4. ToSet(Append(s, e)) = ToSet(s) \cup {e}
  BY <1>1, <1>2, <1>3 DEF ToSet
<1>5. ASSUME IsInjective(s), e \notin ToSet(s) PROVE IsInjective(Append(s, e))
  BY <1>1, <1>2, <1>3, <1>5 DEF ToSet, IsInjective
<1> QED
  BY <1>1, <1>4, <1>5

(* What a stack holds after a pop. *)
LEMMA PopFacts ==
  ASSUME NEW S, NEW s \in Seq(S), s # << >>, IsInjective(s)
  PROVE  /\ Last(s) \in ToSet(s) /\ Last(s) \in S
         /\ Front(s) \in Seq(S)
         /\ ToSet(Front(s)) = ToSet(s) \ {Last(s)}
         /\ IsInjective(Front(s))
<1>1. Len(s) \in Nat /\ Len(s) >= 1 /\ DOMAIN s = 1 .. Len(s)
  OBVIOUS
<1>2. /\ Front(s) \in Seq(S) /\ DOMAIN Front(s) = 1 .. Len(s) - 1
      /\ \A q \in 1 .. Len(s) - 1 : Front(s)[q] = s[q]
  BY <1>1 DEF Front
<1>3. Last(s) = s[Len(s)] /\ Len(s) \in DOMAIN s /\ s[Len(s)] \in S
  BY <1>1 DEF Last
<1>4. 1 .. Len(s) = (1 .. Len(s) - 1) \cup {Len(s)} /\ Len(s) \notin 1 .. Len(s) - 1
  BY <1>1
<1>5. Last(s) \in ToSet(s)
  BY <1>3 DEF ToSet
<1>6. ToSet(Front(s)) = ToSet(s) \ {Last(s)}
  <2>1. ASSUME NEW q \in 1 .. Len(s) - 1 PROVE s[q] # s[Len(s)]
    BY <1>1, <1>3, <1>4 DEF IsInjective
  <2>2. ToSet(Front(s)) = {s[q] : q \in 1 .. Len(s) - 1}
    BY <1>2 DEF ToSet
  <2>3. ToSet(s) = {s[q] : q \in 1 .. Len(s)}
    BY <1>1 DEF ToSet
  <2> QED
    BY <1>3, <1>4, <2>1, <2>2, <2>3
<1>7. IsInjective(Front(s))
  BY <1>1, <1>2, <1>4 DEF IsInjective
<1> QED
  BY <1>2, <1>3, <1>5, <1>6, <1>7

(* t is s with e put behind its first `at` elements. *)
IsInserted(t, s, at, e) ==
    /\ DOMAIN t = 1 .. Len(s) + 1
    /\ \A q \in 1 .. at : t[q] = s[q]
    /\ t[at + 1] = e
    /\ \A q \in at + 1 .. Len(s) : t[q + 1] = s[q]

(* What a list holds after an insertion behind its first `at` elements. *)
LEMMA InsertAtFacts ==
  ASSUME NEW S, NEW s \in Seq(S), NEW at \in 0 .. Len(s), NEW e \in S
  PROVE  /\ InsertAt(s, at + 1, e) \in Seq(S)
         /\ IsInserted(InsertAt(s, at + 1, e), s, at, e)
         /\ ToSet(InsertAt(s, at + 1, e)) = ToSet(s) \cup {e}
<1> DEFINE t == InsertAt(s, at + 1, e)
<1>1. Len(s) \in Nat /\ DOMAIN s = 1 .. Len(s) /\ \A q \in 1 .. Len(s) : s[q] \in S
  OBVIOUS
<1> DEFINE left == SubSeq(s, 1, (at + 1) - 1)
           right == SubSeq(s, at + 1, Len(s))
<1>2. /\ left \in Seq(S) /\ Len(left) = at
      /\ \A q \in 1 .. at : left[q] = s[q]
  BY <1>1
<1>3. /\ right \in Seq(S) /\ Len(right) = Len(s) - at
      /\ \A q \in 1 .. Len(s) - at : right[q] = s[at + q]
  <2>1. \A q \in at + 1 .. Len(s) : s[q] \in S
    BY <1>1
  <2>2. /\ right \in Seq(S)
        /\ Len(right) = IF at + 1 <= Len(s) THEN Len(s) - (at + 1) + 1 ELSE 0
        /\ \A q \in 1 .. Len(s) - (at + 1) + 1 : right[q] = s[at + 1 + q - 1]
    BY <1>1, <2>1, SubSeqProperties
  <2>3. Len(s) - (at + 1) + 1 = Len(s) - at /\ (at + 1 <= Len(s) \/ Len(s) - at = 0)
    <3> HIDE DEF left, right, t
    <3>1. Len(s) \in Int /\ at \in Int /\ at <= Len(s)
      BY <1>1
    <3> QED
      BY <3>1
  <2>4. \A q \in 1 .. Len(s) - at : at + 1 + q - 1 = at + q
    BY <1>1
  <2> HIDE DEF right
  <2>5. right \in Seq(S) /\ Len(right) = Len(s) - at
    BY <2>2, <2>3
  <2> QED
    BY <2>2, <2>3, <2>4, <2>5
<1>4. t = left \o <<e>> \o right
  BY Zenon DEF InsertAt
<1> HIDE DEF left, right, t
<1>a. /\ left \o <<e>> \in Seq(S) /\ Len(left \o <<e>>) = at + 1
      /\ \A q \in 1 .. at : (left \o <<e>>)[q] = s[q]
      /\ (left \o <<e>>)[at + 1] = e
  BY <1>2
<1>b. /\ t \in Seq(S)
      /\ Len(t) = at + 1 + (Len(s) - at)
      /\ \A q \in 1 .. at + 1 + (Len(s) - at) :
            t[q] = IF q <= at + 1 THEN (left \o <<e>>)[q] ELSE right[q - (at + 1)]
  <2> DEFINE both == left \o <<e>>
  <2>1. both \in Seq(S) /\ Len(both) = at + 1
    BY <1>a
  <2>2. t = both \o right
    BY <1>4
  <2> HIDE DEF both
  <2>4. /\ both \o right \in Seq(S)
        /\ Len(both \o right) = Len(both) + Len(right)
        /\ \A q \in 1 .. Len(both) + Len(right) :
              (both \o right)[q] = IF q <= Len(both) THEN both[q] ELSE right[q - Len(both)]
    BY <1>3, <2>1, ConcatProperties, Zenon
  <2>3. /\ t \in Seq(S)
        /\ Len(t) = at + 1 + (Len(s) - at)
        /\ \A q \in 1 .. at + 1 + (Len(s) - at) :
              t[q] = IF q <= at + 1 THEN both[q] ELSE right[q - (at + 1)]
    BY <1>3, <2>1, <2>2, <2>4
  <2> QED
    BY <2>3 DEF both
<1>5. t \in Seq(S) /\ Len(t) = Len(s) + 1 /\ DOMAIN t = 1 .. Len(s) + 1
  BY <1>1, <1>b
<1>6. \A q \in 1 .. at : t[q] = s[q]
  BY <1>1, <1>a, <1>b
<1>7. t[at + 1] = e
  BY <1>1, <1>a, <1>b
<1>8. ASSUME NEW q \in at + 1 .. Len(s) PROVE t[q + 1] = s[q]
  <2>1. /\ q - at \in 1 .. Len(s) - at /\ at + (q - at) = q
        /\ q + 1 \in 1 .. at + 1 + (Len(s) - at) /\ ~(q + 1 <= at + 1)
        /\ q + 1 - (at + 1) = q - at
    BY <1>1
  <2>2. t[q + 1] = right[q - at]
    BY <1>b, <2>1
  <2> QED
    BY <1>3, <2>1, <2>2
<1>9. ToSet(t) = ToSet(s) \cup {e}
  <2>1. ASSUME NEW q \in 1 .. Len(s) + 1 PROVE t[q] \in ToSet(s) \cup {e}
    <3>1. CASE q \in 1 .. at
      BY <1>1, <1>6, <3>1 DEF ToSet
    <3>2. CASE q = at + 1
      BY <1>7, <3>2
    <3>3. CASE q - 1 \in at + 1 .. Len(s)
      <4>1. t[q] = s[q - 1]
        BY <1>8, <3>3
      <4>2. q - 1 \in DOMAIN s
        BY <1>1, <3>3
      <4> QED
        BY <4>1, <4>2 DEF ToSet
    <3> QED
      BY <1>1, <3>1, <3>2, <3>3
  <2>2. ASSUME NEW q \in 1 .. Len(s) PROVE \E r \in 1 .. Len(s) + 1 : t[r] = s[q]
    <3>1. CASE q \in 1 .. at
      BY <1>1, <1>6, <3>1
    <3>2. CASE q \in at + 1 .. Len(s)
      <4>1. q + 1 \in 1 .. Len(s) + 1 /\ t[q + 1] = s[q]
        BY <1>1, <1>8, <3>2
      <4> QED
        BY <4>1
    <3> QED
      BY <1>1, <3>1, <3>2
  <2>3. at + 1 \in 1 .. Len(s) + 1
    BY <1>1
  <2> QED
    BY <1>1, <1>5, <1>7, <2>1, <2>2, <2>3 DEF ToSet
<1>10. t = InsertAt(s, at + 1, e)
  BY DEF t
<1>11. IsInserted(t, s, at, e)
  BY <1>5, <1>6, <1>7, <1>8 DEF IsInserted
<1> QED
  BY <1>5, <1>9, <1>10, <1>11

(* t is s without what is at position p. *)
IsRemoved(t, s, p) ==
    /\ DOMAIN t = 1 .. Len(s) - 1
    /\ \A q \in 1 .. p - 1 : t[q] = s[q]
    /\ \A q \in p .. Len(s) - 1 : t[q] = s[q + 1]

(* What a list holds after a removal. *)
LEMMA RemoveAtFacts ==
  ASSUME NEW S, NEW s \in Seq(S), NEW p \in 1 .. Len(s)
  PROVE  /\ RemoveAt(s, p) \in Seq(S)
         /\ IsRemoved(RemoveAt(s, p), s, p)
         /\ ToSet(RemoveAt(s, p)) = {s[q] : q \in (1 .. Len(s)) \ {p}}
<1> DEFINE t == RemoveAt(s, p)
<1>1. Len(s) \in Nat /\ DOMAIN s = 1 .. Len(s) /\ \A q \in 1 .. Len(s) : s[q] \in S
  OBVIOUS
<1> DEFINE left == SubSeq(s, 1, p - 1)
           right == SubSeq(s, p + 1, Len(s))
<1>2. /\ left \in Seq(S) /\ Len(left) = p - 1
      /\ \A q \in 1 .. p - 1 : left[q] = s[q]
  BY <1>1
<1>3. /\ right \in Seq(S) /\ Len(right) = Len(s) - p
      /\ \A q \in 1 .. Len(s) - p : right[q] = s[p + q]
  <2>1. \A q \in p + 1 .. Len(s) : s[q] \in S
    BY <1>1
  <2>2. /\ right \in Seq(S)
        /\ Len(right) = IF p + 1 <= Len(s) THEN Len(s) - (p + 1) + 1 ELSE 0
        /\ \A q \in 1 .. Len(s) - (p + 1) + 1 : right[q] = s[p + 1 + q - 1]
    BY <1>1, <2>1, SubSeqProperties
  <2>3. Len(s) - (p + 1) + 1 = Len(s) - p /\ (p + 1 <= Len(s) \/ Len(s) - p = 0)
    <3> HIDE DEF left, right, t
    <3>1. Len(s) \in Int /\ p \in Int /\ p <= Len(s)
      BY <1>1
    <3> QED
      BY <3>1
  <2>4. \A q \in 1 .. Len(s) - p : p + 1 + q - 1 = p + q
    BY <1>1
  <2> HIDE DEF right
  <2>5. right \in Seq(S) /\ Len(right) = Len(s) - p
    BY <2>2, <2>3
  <2> QED
    BY <2>2, <2>3, <2>4, <2>5
<1>4. t = left \o right
  BY DEF RemoveAt
<1> HIDE DEF left, right, t
<1>b. /\ t \in Seq(S)
      /\ Len(t) = p - 1 + (Len(s) - p)
      /\ \A q \in 1 .. p - 1 + (Len(s) - p) :
            t[q] = IF q <= p - 1 THEN left[q] ELSE right[q - (p - 1)]
  <2>1. /\ left \o right \in Seq(S)
        /\ Len(left \o right) = Len(left) + Len(right)
        /\ \A q \in 1 .. Len(left) + Len(right) :
              (left \o right)[q] = IF q <= Len(left) THEN left[q] ELSE right[q - Len(left)]
    BY <1>2, <1>3, ConcatProperties, Zenon
  <2> QED
    BY <1>2, <1>3, <1>4, <2>1
<1>5. t \in Seq(S) /\ Len(t) = Len(s) - 1 /\ DOMAIN t = 1 .. Len(s) - 1
  <2>1. p - 1 + (Len(s) - p) = Len(s) - 1
    BY <1>1
  <2>2. t \in Seq(S) /\ Len(t) = Len(s) - 1
    BY <1>b, <2>1
  <2> QED
    BY <2>2
<1>6. \A q \in 1 .. p - 1 : t[q] = s[q]
  <2> TAKE q \in 1 .. p - 1
  <2>1. q \in 1 .. p - 1 + (Len(s) - p) /\ q <= p - 1
    BY <1>1
  <2>2. t[q] = left[q]
    BY <1>b, <2>1
  <2> QED
    BY <1>2, <2>2
<1>7. ASSUME NEW q \in p .. Len(s) - 1 PROVE t[q] = s[q + 1]
  <2>1. /\ q - (p - 1) \in 1 .. Len(s) - p /\ p + (q - (p - 1)) = q + 1
        /\ q \in 1 .. p - 1 + (Len(s) - p) /\ ~(q <= p - 1)
    BY <1>1
  <2>2. t[q] = right[q - (p - 1)]
    BY <1>b, <2>1
  <2> QED
    BY <1>3, <2>1, <2>2
<1>8. ToSet(t) = {s[q] : q \in (1 .. Len(s)) \ {p}}
  <2>1. ASSUME NEW q \in 1 .. Len(s) - 1 PROVE \E r \in (1 .. Len(s)) \ {p} : t[q] = s[r]
    <3>1. CASE q \in 1 .. p - 1
      BY <1>1, <1>6, <3>1
    <3>2. CASE q \in p .. Len(s) - 1
      <4>1. q + 1 \in (1 .. Len(s)) \ {p} /\ t[q] = s[q + 1]
        BY <1>1, <1>7, <3>2
      <4> QED
        BY <4>1
    <3> QED
      BY <1>1, <3>1, <3>2
  <2>2. ASSUME NEW r \in (1 .. Len(s)) \ {p} PROVE \E q \in 1 .. Len(s) - 1 : t[q] = s[r]
    <3>1. CASE r \in 1 .. p - 1
      BY <1>1, <1>6, <3>1
    <3>2. CASE r \in p + 1 .. Len(s)
      <4>1. r - 1 \in p .. Len(s) - 1 /\ r - 1 + 1 = r
        BY <1>1, <3>2
      <4>2. t[r - 1] = s[r] /\ r - 1 \in 1 .. Len(s) - 1
        BY <1>1, <1>7, <4>1
      <4> QED
        BY <4>2
    <3> QED
      BY <1>1, <3>1, <3>2
  <2>3. ToSet(t) = {t[q] : q \in 1 .. Len(s) - 1}
    BY <1>5 DEF ToSet
  <2>4. ToSet(t) \subseteq {s[q] : q \in (1 .. Len(s)) \ {p}}
    BY <2>1, <2>3
  <2>5. {s[q] : q \in (1 .. Len(s)) \ {p}} \subseteq ToSet(t)
    BY <2>2, <2>3
  <2> QED
    BY <2>4, <2>5
<1>9. t = RemoveAt(s, p)
  BY DEF t
<1>10. IsRemoved(t, s, p)
  BY <1>5, <1>6, <1>7 DEF IsRemoved
<1> QED
  BY <1>5, <1>8, <1>9, <1>10

(* What a list holds is not changed by turning it round. *)
LEMMA ReverseFacts ==
  ASSUME NEW S, NEW s \in Seq(S), IsInjective(s)
  PROVE  /\ Reverse(s) \in Seq(S)
         /\ ToSet(Reverse(s)) = ToSet(s)
         /\ IsInjective(Reverse(s))
<1>1. Len(s) \in Nat /\ DOMAIN s = 1 .. Len(s) /\ \A q \in 1 .. Len(s) : s[q] \in S
  OBVIOUS
<1>2. \A q \in 1 .. Len(s) : Len(s) - q + 1 \in 1 .. Len(s) /\ Len(s) - (Len(s) - q + 1) + 1 = q
  BY <1>1
<1>3. Reverse(s) = [q \in 1 .. Len(s) |-> s[Len(s) - q + 1]]
  BY DEF Reverse
<1>4. Reverse(s) \in Seq(S)
  BY <1>1, <1>2, <1>3
<1>5. ToSet(Reverse(s)) = ToSet(s)
  <2>1. ASSUME NEW q \in 1 .. Len(s)
        PROVE  \E r \in 1 .. Len(s) : s[Len(s) - r + 1] = s[q]
    BY <1>2
  <2>2. ASSUME NEW q \in 1 .. Len(s)
        PROVE  \E r \in 1 .. Len(s) : s[Len(s) - q + 1] = s[r]
    BY <1>2
  <2>3. ToSet(Reverse(s)) = {s[Len(s) - q + 1] : q \in 1 .. Len(s)}
    BY <1>3 DEF ToSet
  <2>4. ToSet(s) = {s[q] : q \in 1 .. Len(s)}
    BY <1>1 DEF ToSet
  <2>5. ToSet(Reverse(s)) \subseteq ToSet(s)
    BY <2>2, <2>3, <2>4
  <2>6. ToSet(s) \subseteq ToSet(Reverse(s))
    BY <2>1, <2>3, <2>4
  <2> QED
    BY <2>5, <2>6
<1>6. IsInjective(Reverse(s))
  <2> SUFFICES ASSUME NEW a \in 1 .. Len(s), NEW b \in 1 .. Len(s),
                      s[Len(s) - a + 1] = s[Len(s) - b + 1]
               PROVE  a = b
    BY <1>3 DEF IsInjective
  <2>1. Len(s) - a + 1 = Len(s) - b + 1
    BY <1>1, <1>2 DEF IsInjective
  <2> QED
    BY <1>1, <2>1
<1> QED
  BY <1>4, <1>5, <1>6

-----------------------------------------------------------------------------
(* Of a few numbered things, one has the largest measure. *)
LEMMA LargestOf ==
  ASSUME NEW n \in Nat, NEW P \in SUBSET (1 .. n), NEW a \in P,
         NEW f, \A p \in P : f[p] \in Nat
  PROVE  \E p \in P : \A q \in P : f[q] <= f[p]
<1> DEFINE Upto(k) == P \cap (1 .. k)
           S == {k \in 0 .. n : Upto(k) = {} \/ \E p \in Upto(k) : \A q \in Upto(k) : f[q] <= f[p]}
<1>1. 0 \in S
  OBVIOUS
<1>2. ASSUME NEW k \in 0 .. n - 1, k \in S PROVE k + 1 \in S
  <2>1. k + 1 \in 0 .. n /\ 1 .. k + 1 = (1 .. k) \cup {k + 1}
    OBVIOUS
  <2>2. CASE k + 1 \notin P
    <3>1. Upto(k + 1) = Upto(k)
      BY <2>1, <2>2
    <3> QED
      BY <1>2, <2>1, <3>1
  <2>3. CASE k + 1 \in P
    <3>1. Upto(k + 1) = Upto(k) \cup {k + 1}
      BY <2>1, <2>3
    <3>2. \A q \in Upto(k + 1) : f[q] \in Nat
      OBVIOUS
    <3>3. Upto(k) = {} \/ \E p \in Upto(k) : \A q \in Upto(k) : f[q] <= f[p]
      BY <1>2
    <3> HIDE DEF Upto
    <3>4. CASE Upto(k) = {}
      <4>1. \A q \in Upto(k + 1) : f[q] <= f[k + 1]
        BY <3>1, <3>2, <3>4
      <4> QED
        BY <2>1, <3>1, <4>1
    <3>5. CASE \E p \in Upto(k) : \A q \in Upto(k) : f[q] <= f[p]
      <4>1. PICK p \in Upto(k) : \A q \in Upto(k) : f[q] <= f[p]
        BY <3>5
      <4>2. CASE f[k + 1] <= f[p]
        <5>1. \A q \in Upto(k + 1) : f[q] <= f[p]
          BY <3>1, <4>1, <4>2
        <5> QED
          BY <2>1, <3>1, <5>1
      <4>3. CASE ~(f[k + 1] <= f[p])
        <5>1. \A q \in Upto(k + 1) : f[q] <= f[k + 1]
          BY <3>1, <3>2, <4>1, <4>3
        <5> QED
          BY <2>1, <3>1, <5>1
      <4> QED
        BY <4>2, <4>3
    <3> QED
      BY <3>3, <3>4, <3>5
  <2> QED
    BY <2>2, <2>3
<1>3. n \in S
  <2> HIDE DEF S
  <2>1. \A k \in 0 .. n - 1 : k \in S => k + 1 \in S
    BY <1>2
  <2>2. \A k \in 0 .. n : k \in S
    BY <1>1, <2>1, UpTo
  <2>3. n \in 0 .. n
    OBVIOUS
  <2> QED
    BY <2>2, <2>3
<1>4. Upto(n) = P
  OBVIOUS
<1> QED
  BY <1>3, <1>4

(* The least and the greatest of a few numbers. *)
LEMMA BoundsOf ==
  ASSUME NEW n \in Nat, NEW P \in SUBSET (0 .. n), NEW a \in P
  PROVE  /\ Min(P) \in P /\ \A x \in P : Min(P) <= x
         /\ Max(P) \in P /\ \A x \in P : x <= Max(P)
<1> DEFINE Q == {q \in 1 .. n + 1 : q - 1 \in P}
           up == [q \in Q |-> q]
           down == [q \in Q |-> n + 1 - q]
<1>1. a + 1 \in Q /\ n + 1 \in Nat
  OBVIOUS
<1>2. \A x \in P : x + 1 \in Q /\ x \in 0 .. n
  OBVIOUS
<1>3. \A q \in Q : up[q] \in Nat /\ down[q] \in Nat
  OBVIOUS
<1>4. PICK p \in Q : \A q \in Q : up[q] <= up[p]
  <2> HIDE DEF up, down
  <2> QED
    BY <1>1, <1>3, LargestOf
<1>5. PICK r \in Q : \A q \in Q : down[q] <= down[r]
  <2> HIDE DEF up, down
  <2> QED
    BY <1>1, <1>3, LargestOf
<1>6. ASSUME NEW x \in P PROVE p - 1 >= x
  <2>1. x + 1 \in Q /\ x \in 0 .. n /\ up[x + 1] = x + 1
    BY <1>2
  <2>2. x + 1 <= p
    BY <1>4, <2>1
  <2> QED
    BY <2>1, <2>2
<1>7. ASSUME NEW x \in P PROVE r - 1 <= x
  <2>1. x + 1 \in Q /\ x \in 0 .. n /\ down[x + 1] = n + 1 - (x + 1) /\ down[r] = n + 1 - r
    BY <1>2
  <2>2. n + 1 - (x + 1) <= n + 1 - r
    BY <1>5, <2>1
  <2> QED
    BY <2>1, <2>2
<1>a. p - 1 \in P /\ r - 1 \in P
  OBVIOUS
<1> HIDE DEF Q, up, down
<1>8. Max(P) \in P /\ \A x \in P : Max(P) >= x
  <2>1. \E y \in P : \A x \in P : y >= x
    BY <1>a, <1>6
  <2> QED
    BY <2>1 DEF Max
<1>9. Min(P) \in P /\ \A x \in P : Min(P) <= x
  <2>1. \E y \in P : \A x \in P : y <= x
    BY <1>a, <1>7
  <2> QED
    BY <2>1 DEF Min
<1> QED
  BY <1>8, <1>9

-----------------------------------------------------------------------------
(* What joins two sequences. *)
LEMMA ConcatIs ==
  ASSUME NEW S, NEW a \in Seq(S), NEW b \in Seq(S)
  PROVE  /\ a \o b \in Seq(S)
         /\ Len(a \o b) = Len(a) + Len(b)
         /\ \A i \in 1 .. Len(a) : (a \o b)[i] = a[i]
         /\ \A i \in 1 .. Len(b) : (a \o b)[Len(a) + i] = b[i]
  OBVIOUS

(* Sequences are the same if their elements are. *)
LEMMA SameElements ==
  ASSUME NEW S, NEW a \in Seq(S), NEW b \in Seq(S), Len(a) = Len(b),
         \A i \in 1 .. Len(a) : a[i] = b[i]
  PROVE  a = b
  OBVIOUS

(* It does not matter which two of three are joined first. *)
Regroups(a, b, c) == (a \o b) \o c = a \o (b \o c)

(* And it never does. *)
LEMMA ConcatAssociates ==
  ASSUME NEW S, NEW a \in Seq(S), NEW b \in Seq(S), NEW c \in Seq(S)
  PROVE  Regroups(a, b, c)
<1> DEFINE ab == a \o b
           bc == b \o c
           l == ab \o c
           r == a \o bc
<1>1. /\ ab \in Seq(S) /\ Len(ab) = Len(a) + Len(b)
      /\ \A i \in 1 .. Len(a) : ab[i] = a[i]
      /\ \A i \in 1 .. Len(b) : ab[Len(a) + i] = b[i]
  BY ConcatIs
<1>2. /\ bc \in Seq(S) /\ Len(bc) = Len(b) + Len(c)
      /\ \A i \in 1 .. Len(b) : bc[i] = b[i]
      /\ \A i \in 1 .. Len(c) : bc[Len(b) + i] = c[i]
  BY ConcatIs
<1> HIDE DEF ab, bc
<1>0. ab \in Seq(S) /\ bc \in Seq(S)
  BY <1>1, <1>2
<1>3. /\ l \in Seq(S) /\ Len(l) = Len(ab) + Len(c)
      /\ \A i \in 1 .. Len(ab) : l[i] = ab[i]
      /\ \A i \in 1 .. Len(c) : l[Len(ab) + i] = c[i]
  BY <1>0, ConcatIs
<1>4. /\ r \in Seq(S) /\ Len(r) = Len(a) + Len(bc)
      /\ \A i \in 1 .. Len(a) : r[i] = a[i]
      /\ \A i \in 1 .. Len(bc) : r[Len(a) + i] = bc[i]
  BY <1>0, ConcatIs
<1> HIDE DEF l, r
<1> DEFINE x == Len(a)
           y == Len(b)
           z == Len(c)
<1>5. x \in Nat /\ y \in Nat /\ z \in Nat
  OBVIOUS
<1>6. ASSUME NEW i \in 1 .. Len(l) PROVE l[i] = r[i]
  <2>0. i \in 1 .. (x + y + z) /\ Len(ab) = x + y /\ Len(bc) = y + z
    BY <1>1, <1>2, <1>3, <1>5
  <2>1. CASE i <= x
    <3>1. i \in 1 .. x /\ i \in 1 .. Len(ab)
      BY <1>5, <2>0, <2>1
    <3> QED
      BY <1>1, <1>3, <1>4, <3>1
  <2>2. CASE i > x /\ i <= x + y
    <3> DEFINE j == i - x
    <3>1. j \in 1 .. y /\ i = x + j /\ i \in 1 .. Len(ab) /\ j \in 1 .. Len(bc)
      BY <1>5, <2>0, <2>2
    <3> HIDE DEF j
    <3> QED
      BY <1>1, <1>2, <1>3, <1>4, <3>1
  <2>3. CASE i > x + y
    <3> DEFINE j == i - (x + y)
    <3>1. j \in 1 .. z /\ i = Len(ab) + j /\ y + j \in 1 .. Len(bc) /\ i = x + (y + j)
      BY <1>5, <2>0, <2>3
    <3> HIDE DEF j
    <3> QED
      BY <1>1, <1>2, <1>3, <1>4, <3>1
  <2> QED
    BY <1>5, <2>0, <2>1, <2>2, <2>3
<1>7. Len(l) = Len(r)
  BY <1>1, <1>2, <1>3, <1>4, <1>5
<1>8. l = r
  BY <1>3, <1>4, <1>6, <1>7, SameElements
<1> QED
  BY <1>8 DEF l, r, ab, bc, Regroups

(* FlattenSeq joins what it is given from the front. *)
LEMMA FlattenBy ==
  ASSUME NEW S, NEW ss \in Seq(Seq(S)), NEW g \in [0 .. Len(ss) -> Seq(S)],
         g[0] = << >>, \A k \in 1 .. Len(ss) : g[k] = g[k - 1] \o ss[k]
  PROVE  FlattenSeq(ss) = g[Len(ss)]
<1> DEFINE n == Len(ss)
           F(f) == [i \in 1 .. n |-> IF i = 1 THEN ss[i] ELSE f[i - 1] \o ss[i]]
           E == CHOOSE f : f = F(f)
           so == [i \in 1 .. n |-> g[i]]
<1>1. n \in Nat /\ \A k \in 1 .. n : ss[k] \in Seq(S)
  OBVIOUS
<1>2. CASE n = 0
  BY <1>2 DEF FlattenSeq
<1>3. CASE n # 0
  <2>1. FlattenSeq(ss) = E[n]
    BY <1>3 DEF FlattenSeq
  <2>2. 1 \in 1 .. n /\ g[1] = ss[1]
    <3>1. 1 \in 1 .. n
      BY <1>1, <1>3
    <3>2. g[1] = g[0] \o ss[1]
      <4>1. g[1] = g[1 - 1] \o ss[1]
        BY <3>1
      <4>2. 1 - 1 = 0
        OBVIOUS
      <4> QED
        BY <4>1, <4>2
    <3>3. ss[1] \in Seq(S)
      BY <1>1, <3>1
    <3> QED
      BY <3>1, <3>2, <3>3
  <2>3. so = F(so)
    <3>1. \A i \in 1 .. n : so[i] = IF i = 1 THEN ss[i] ELSE so[i - 1] \o ss[i]
      <4> TAKE i \in 1 .. n
      <4>1. CASE i = 1
        BY <2>2, <4>1
      <4>2. CASE i # 1
        <5>1. i - 1 \in 1 .. n
          BY <1>1, <4>2
        <5>2. so[i - 1] = g[i - 1] /\ so[i] = g[i]
          BY <5>1
        <5> HIDE DEF so
        <5> QED
          BY <4>2, <5>2
      <4> QED
        BY <4>1, <4>2
    <3> QED
      BY <3>1
  <2>4. E = F(E)
    <3> HIDE DEF so, F
    <3> QED
      BY <2>3
  <2> HIDE DEF E
  <2>5. \A i \in 1 .. n : E[i] = IF i = 1 THEN ss[i] ELSE E[i - 1] \o ss[i]
    <3> HIDE DEF so, n
    <3> QED
      BY <2>4
  <2> DEFINE T == {k \in 0 .. n : k # 0 => E[k] = g[k]}
  <2>6. 0 \in T
    BY <1>1
  <2>7. ASSUME NEW k \in 0 .. n - 1, k \in T PROVE k + 1 \in T
    <3>1. k + 1 \in 1 .. n /\ k + 1 - 1 = k /\ k + 1 \in 0 .. n
      BY <1>1
    <3>2. g[k + 1] = g[k] \o ss[k + 1]
      <4>1. g[k + 1] = g[(k + 1) - 1] \o ss[k + 1]
        BY <3>1
      <4>2. (k + 1) - 1 = k
        BY <3>1
      <4> QED
        BY <4>1, <4>2
    <3>3. CASE k = 0
      BY <2>2, <2>5, <3>1, <3>3
    <3>4. CASE k # 0
      <4>1. E[k + 1] = E[k] \o ss[k + 1]
        <5> HIDE DEF so, F, n
        <5>1. k + 1 # 1
          BY <3>1, <3>4
        <5>2. E[k + 1] = E[(k + 1) - 1] \o ss[k + 1]
          BY <2>5, <3>1, <5>1
        <5>3. (k + 1) - 1 = k
          BY <3>1
        <5> QED
          BY <5>2, <5>3
      <4>2. E[k] = g[k]
        BY <2>7, <3>4
      <4> QED
        BY <3>1, <3>2, <4>1, <4>2
    <3> QED
      BY <3>3, <3>4
  <2>8. \A k \in 0 .. n : k \in T
    <3> HIDE DEF T
    <3> QED
      BY <1>1, <2>6, <2>7, UpTo
  <2> QED
    BY <1>1, <1>3, <2>1, <2>8
<1> QED
  BY <1>2, <1>3

(* What is appended to the parts comes behind what they join to. *)
LEMMA FlattenAppend ==
  ASSUME NEW S, NEW ss \in Seq(Seq(S)), NEW e \in Seq(S)
  PROVE  /\ FlattenSeq(ss) \in Seq(S)
         /\ FlattenSeq(Append(ss, e)) = FlattenSeq(ss) \o e
<1> DEFINE n == Len(ss)
           tt == Append(ss, e)
           V == Seq(S)
           step == [k \in 1 .. n + 1 |-> [v \in V |-> v \o tt[k]]]
<1>1. /\ n \in Nat /\ tt \in Seq(Seq(S)) /\ Len(tt) = n + 1
      /\ \A k \in 1 .. n : tt[k] = ss[k]
      /\ tt[n + 1] = e
      /\ \A k \in 1 .. n + 1 : tt[k] \in V
  OBVIOUS
<1>2. << >> \in V /\ step \in [1 .. n + 1 -> [V -> V]]
  <2>1. \A k \in 1 .. n + 1 : \A v \in V : v \o tt[k] \in V
    <3> TAKE k \in 1 .. n + 1
    <3> TAKE v \in V
    <3>1. tt[k] \in Seq(S) /\ v \in Seq(S)
      BY <1>1
    <3> DEFINE x == tt[k]
    <3> HIDE DEF x, tt
    <3> QED
      BY <3>1 DEF x
  <2> HIDE DEF tt, V
  <2>2. \A k \in 1 .. n + 1 : [v \in V |-> v \o tt[k]] \in [V -> V]
    BY <2>1
  <2> QED
    BY <2>2 DEF V
<1>3. PICK g \in [0 .. n + 1 -> V] :
        g[0] = << >> /\ \A k \in 1 .. n + 1 : g[k] = step[k][g[k - 1]]
  <2> HIDE DEF step, V, tt, n
  <2>1. n + 1 \in Nat
    BY <1>1
  <2>2. Solutions(n + 1, V, << >>, step) # {}
    BY <1>2, <2>1, Recursion
  <2> QED
    BY <2>2 DEF Solutions
<1>4. \A k \in 1 .. n + 1 : g[k] = g[k - 1] \o tt[k]
  <2> HIDE DEF V, tt, n
  <2> TAKE k \in 1 .. n + 1
  <2>1. k - 1 \in 0 .. n + 1
    BY <1>1
  <2>2. g[k - 1] \in V
    BY <2>1
  <2>3. step[k][g[k - 1]] = g[k - 1] \o tt[k]
    BY <2>2
  <2> HIDE DEF step
  <2> QED
    BY <1>3, <2>3
<1>5. FlattenSeq(tt) = g[n + 1]
  <2>1. /\ g \in [0 .. Len(tt) -> Seq(S)] /\ g[0] = << >>
        /\ \A k \in 1 .. Len(tt) : g[k] = g[k - 1] \o tt[k]
    <3> HIDE DEF tt, n, step
    <3> QED
      BY <1>1, <1>3, <1>4
  <2> HIDE DEF tt, step, n
  <2>2. FlattenSeq(tt) = g[Len(tt)]
    BY <1>1, <2>1, FlattenBy
  <2> QED
    BY <1>1, <2>2
<1> DEFINE h == [k \in 0 .. n |-> g[k]]
<1>6. FlattenSeq(ss) = g[n]
  <2>1. h \in [0 .. n -> Seq(S)] /\ h[0] = << >>
    BY <1>1, <1>3
  <2>2. \A k \in 1 .. n : h[k] = h[k - 1] \o ss[k]
    <3> HIDE DEF tt, n
    <3> TAKE k \in 1 .. n
    <3>1. k \in 1 .. n + 1 /\ k \in 0 .. n /\ k - 1 \in 0 .. n
      BY <1>1
    <3>2. h[k] = g[k] /\ h[k - 1] = g[k - 1]
      BY <3>1
    <3>3. g[k] = g[k - 1] \o tt[k] /\ tt[k] = ss[k]
      BY <1>1, <1>4, <3>1
    <3> HIDE DEF h
    <3> QED
      BY <3>2, <3>3
  <2>3. FlattenSeq(ss) = h[n]
    <3> HIDE DEF h, tt, step, V
    <3> QED
      BY <2>1, <2>2, FlattenBy
  <2> QED
    BY <1>1, <2>3
<1>7. g[n] \in Seq(S) /\ g[n + 1] = g[n] \o e
  <2>1. n + 1 \in 1 .. n + 1 /\ (n + 1) - 1 = n /\ n \in 0 .. n + 1
    BY <1>1
  <2>2. g[n] \in Seq(S)
    BY <2>1
  <2>3. g[n + 1] = g[(n + 1) - 1] \o tt[n + 1]
    <3> HIDE DEF n, tt
    <3> QED
      BY <1>4, <2>1
  <2>4. tt[n + 1] = e
    BY <1>1
  <2> HIDE DEF tt, n
  <2> QED
    BY <2>1, <2>2, <2>3, <2>4
<1> QED
  BY <1>5, <1>6, <1>7

(* An element may be added before or after joining. *)
LEMMA ConcatAppend ==
  ASSUME NEW S, NEW a \in Seq(S), NEW b \in Seq(S), NEW e \in S
  PROVE  a \o b \in Seq(S) /\ a \o Append(b, e) = Append(a \o b, e)
<1> DEFINE c == Append(b, e)
           ab == a \o b
           l == a \o c
           r == Append(ab, e)
<1>1. /\ c \in Seq(S) /\ Len(c) = Len(b) + 1 /\ c[Len(b) + 1] = e
      /\ \A i \in 1 .. Len(b) : c[i] = b[i]
  OBVIOUS
<1>2. /\ ab \in Seq(S) /\ Len(ab) = Len(a) + Len(b)
      /\ \A i \in 1 .. Len(a) : ab[i] = a[i]
      /\ \A i \in 1 .. Len(b) : ab[Len(a) + i] = b[i]
  OBVIOUS
<1>3. Len(a) \in Nat /\ Len(b) \in Nat
  OBVIOUS
<1> HIDE DEF c, ab
<1>4. /\ l \in Seq(S) /\ Len(l) = Len(a) + Len(c)
      /\ \A i \in 1 .. Len(a) : l[i] = a[i]
      /\ \A i \in 1 .. Len(c) : l[Len(a) + i] = c[i]
  <2>1. c \in Seq(S)
    BY <1>1
  <2> QED
    BY <2>1
<1>5. r \in Seq(S) /\ Len(r) = Len(ab) + 1 /\ r[Len(ab) + 1] = e /\ \A i \in 1 .. Len(ab) : r[i] = ab[i]
  <2>1. ab \in Seq(S)
    BY <1>2
  <2> QED
    BY <2>1
<1> HIDE DEF l, r
<1>6. Len(l) = Len(r)
  BY <1>1, <1>2, <1>3, <1>4, <1>5
<1>7. ASSUME NEW i \in 1 .. Len(l) PROVE l[i] = r[i]
  <2>1. CASE i \in 1 .. Len(a)
    <3>1. i \in 1 .. Len(ab)
      BY <1>2, <1>3, <2>1
    <3> QED
      BY <1>2, <1>4, <1>5, <2>1, <3>1
  <2>2. CASE i \notin 1 .. Len(a)
    <3> DEFINE j == i - Len(a)
    <3>1. j \in 1 .. Len(c) /\ i = Len(a) + j /\ i \in 1 .. Len(ab) + 1
      BY <1>1, <1>2, <1>3, <1>4, <2>2
    <3> HIDE DEF j
    <3>2. l[i] = c[j]
      BY <1>4, <3>1
    <3>3. CASE j = Len(b) + 1
      <4>1. i = Len(ab) + 1
        BY <1>2, <1>3, <3>1, <3>3
      <4> QED
        BY <1>1, <1>5, <3>2, <3>3, <4>1
    <3>4. CASE j # Len(b) + 1
      <4>1. j \in 1 .. Len(b) /\ i \in 1 .. Len(ab)
        BY <1>1, <1>2, <1>3, <3>1, <3>4
      <4> QED
        BY <1>1, <1>2, <1>5, <3>1, <3>2, <4>1
    <3> QED
      BY <3>3, <3>4
  <2> QED
    BY <2>1, <2>2
<1>8. l = r
  BY <1>4, <1>5, <1>6, <1>7, SameElements
<1> QED
  BY <1>2, <1>8 DEF l, r, c, ab

(* Nothing joins to nothing, and one part to itself. *)
LEMMA FlattenOne ==
  ASSUME NEW S, NEW e \in Seq(S)
  PROVE  FlattenSeq(<< >>) = << >> /\ FlattenSeq(<<e>>) = e
<1>1. FlattenSeq(<< >>) = << >>
  BY DEF FlattenSeq
<1>2. << >> \in Seq(Seq(S)) /\ Append(<< >>, e) = <<e>>
  OBVIOUS
<1>3. FlattenSeq(Append(<< >>, e)) = << >> \o e
  BY <1>1, <1>2, FlattenAppend
<1> QED
  BY <1>1, <1>2, <1>3

(* Parts joined in two goes. *)
LEMMA FlattenConcat ==
  ASSUME NEW S, NEW ss \in Seq(Seq(S)), NEW tt \in Seq(Seq(S))
  PROVE  FlattenSeq(ss \o tt) = FlattenSeq(ss) \o FlattenSeq(tt)
<1> DEFINE n == Len(tt)
           upto(k) == SubSeq(tt, 1, k)
           T == {k \in 0 .. n : FlattenSeq(ss \o upto(k)) = FlattenSeq(ss) \o FlattenSeq(upto(k))}
<1>1. n \in Nat /\ FlattenSeq(ss) \in Seq(S)
  BY FlattenAppend
<1>2. 0 \in T
  <2>1. upto(0) = << >> /\ ss \o << >> = ss
    OBVIOUS
  <2>2. FlattenSeq(<< >>) = << >>
    BY DEF FlattenSeq
  <2>3. FlattenSeq(ss) \o << >> = FlattenSeq(ss)
    BY <1>1
  <2>4. 0 \in 0 .. n
    BY <1>1
  <2> HIDE DEF n
  <2>5. FlattenSeq(ss \o upto(0)) = FlattenSeq(ss) \o FlattenSeq(upto(0))
    BY <2>1, <2>2, <2>3
  <2> QED
    BY <2>4, <2>5
<1>3. ASSUME NEW k \in 0 .. n - 1, k \in T PROVE k + 1 \in T
  <2> DEFINE e == tt[k + 1]
             u == upto(k)
  <2>1. e \in Seq(S) /\ u \in Seq(Seq(S)) /\ upto(k + 1) = Append(u, e)
    <3>1. k + 1 \in 1 .. n
      BY <1>1
    <3>2. upto(k) \in Seq(Seq(S)) /\ Len(upto(k)) = k
      BY <1>1
    <3>3. e \in Seq(S)
      BY <3>1
    <3>4. upto(k + 1) = Append(upto(k), e)
      BY <3>1
    <3> QED
      BY <3>2, <3>3, <3>4
  <2> HIDE DEF e, u
  <2>2. ss \o Append(u, e) = Append(ss \o u, e) /\ ss \o u \in Seq(Seq(S))
    <3> DEFINE V == Seq(S)
    <3>1. ss \in Seq(V) /\ u \in Seq(V) /\ e \in V
      BY <2>1
    <3> HIDE DEF V, T
    <3>2. ss \o u \in Seq(V) /\ ss \o Append(u, e) = Append(ss \o u, e)
      BY <3>1, ConcatAppend
    <3> QED
      BY <3>2 DEF V
  <2>3. FlattenSeq(Append(ss \o u, e)) = FlattenSeq(ss \o u) \o e
    BY <2>1, <2>2, FlattenAppend
  <2>4. FlattenSeq(Append(u, e)) = FlattenSeq(u) \o e /\ FlattenSeq(u) \in Seq(S)
    BY <2>1, FlattenAppend
  <2>5. FlattenSeq(ss \o u) = FlattenSeq(ss) \o FlattenSeq(u)
    BY <1>3 DEF u
  <2>6. (FlattenSeq(ss) \o FlattenSeq(u)) \o e = FlattenSeq(ss) \o (FlattenSeq(u) \o e)
    <3> DEFINE x == FlattenSeq(ss)
               y == FlattenSeq(u)
    <3>1. x \in Seq(S) /\ y \in Seq(S) /\ e \in Seq(S)
      BY <1>1, <2>1, <2>4
    <3> HIDE DEF x, y, T
    <3>3. Regroups(x, y, e)
      BY <3>1, ConcatAssociates
    <3>2. (x \o y) \o e = x \o (y \o e)
      BY <3>3 DEF Regroups
    <3> QED
      BY <3>2 DEF x, y
  <2>7. k + 1 \in 0 .. n
    BY <1>1
  <2> QED
    BY <2>1, <2>2, <2>3, <2>4, <2>5, <2>6, <2>7
<1>4. \A k \in 0 .. n : k \in T
  <2> HIDE DEF T
  <2> QED
    BY <1>1, <1>2, <1>3, UpTo
<1>5. upto(n) = tt /\ n \in T
  BY <1>1, <1>4
<1> QED
  BY <1>5

(* Parts of up to m elements join to no more than m for each. *)
LEMMA FlattenLength ==
  ASSUME NEW S, NEW ss \in Seq(Seq(S)), NEW m \in Nat, \A k \in 1 .. Len(ss) : Len(ss[k]) <= m
  PROVE  Len(FlattenSeq(ss)) <= m * Len(ss)
<1> DEFINE n == Len(ss)
           upto(k) == SubSeq(ss, 1, k)
           T == {k \in 0 .. n : Len(FlattenSeq(upto(k))) <= m * k}
<1>1. n \in Nat
  OBVIOUS
<1>2. 0 \in T
  <2>1. upto(0) = << >>
    OBVIOUS
  <2>2. FlattenSeq(<< >>) = << >>
    BY DEF FlattenSeq
  <2>3. Len(<< >>) = 0 /\ m * 0 = 0 /\ 0 \in 0 .. n
    BY <1>1
  <2>4. Len(FlattenSeq(upto(0))) <= m * 0
    <3> HIDE DEF upto
    <3> QED
      BY <2>1, <2>2, <2>3
  <2> QED
    BY <2>3, <2>4
<1>3. ASSUME NEW k \in 0 .. n - 1, k \in T PROVE k + 1 \in T
  <2> DEFINE e == ss[k + 1]
             u == upto(k)
  <2>1. e \in Seq(S) /\ u \in Seq(Seq(S)) /\ upto(k + 1) = Append(u, e) /\ Len(e) <= m
    <3>1. k + 1 \in 1 .. n
      BY <1>1
    <3>2. upto(k) \in Seq(Seq(S)) /\ Len(upto(k)) = k
      BY <1>1
    <3>3. e \in Seq(S) /\ Len(e) <= m
      BY <3>1
    <3>4. upto(k + 1) = Append(upto(k), e)
      BY <3>1
    <3> QED
      BY <3>2, <3>3, <3>4
  <2>2. Len(FlattenSeq(u)) <= m * k
    BY <1>3
  <2> HIDE DEF e, u
  <2>3. FlattenSeq(Append(u, e)) = FlattenSeq(u) \o e /\ FlattenSeq(u) \in Seq(S)
    BY <2>1, FlattenAppend
  <2>4. Len(FlattenSeq(u) \o e) = Len(FlattenSeq(u)) + Len(e)
    BY <2>1, <2>3
  <2>5. Len(FlattenSeq(u)) \in Nat /\ Len(e) \in Nat
    BY <2>1, <2>3
  <2>6. m * (k + 1) = (m * k) + m /\ m * k \in Nat
    OBVIOUS
  <2>7. k + 1 \in 0 .. n
    BY <1>1
  <2>8. Len(FlattenSeq(Append(u, e))) <= m * (k + 1)
    <3> DEFINE x == Len(FlattenSeq(u))
               y == Len(e)
               z == m * k
               w == Len(FlattenSeq(Append(u, e)))
    <3>1. w = x + y /\ x <= z /\ y <= m /\ x \in Nat /\ y \in Nat /\ z \in Nat
      BY <2>1, <2>2, <2>3, <2>4, <2>5, <2>6
    <3>2. m * (k + 1) = z + m
      BY <2>6
    <3> HIDE DEF x, y, z, w
    <3>3. w <= z + m
      BY <3>1
    <3> QED
      BY <3>2, <3>3 DEF w
  <2> QED
    BY <2>1, <2>7, <2>8
<1>4. \A k \in 0 .. n : k \in T
  <2> HIDE DEF T
  <2> QED
    BY <1>1, <1>2, <1>3, UpTo
<1>5. upto(n) = ss /\ n \in T
  BY <1>1, <1>4
<1> QED
  BY <1>5

(* The elements of a sequence, each by itself. *)
LEMMA FlattenSingles ==
  ASSUME NEW S, NEW s \in Seq(S)
  PROVE  /\ [k \in DOMAIN s |-> <<s[k]>>] \in Seq(Seq(S))
         /\ FlattenSeq([k \in DOMAIN s |-> <<s[k]>>]) = s
<1> DEFINE n == Len(s)
           ss == [k \in DOMAIN s |-> <<s[k]>>]
           g == [k \in 0 .. n |-> SubSeq(s, 1, k)]
<1>1. n \in Nat /\ DOMAIN s = 1 .. n /\ \A k \in 1 .. n : s[k] \in S
  OBVIOUS
<1>2. ss \in Seq(Seq(S)) /\ Len(ss) = n /\ \A k \in 1 .. n : ss[k] = <<s[k]>>
  BY <1>1
<1>3. g \in [0 .. n -> Seq(S)]
  <2>1. \A k \in 0 .. n : SubSeq(s, 1, k) \in Seq(S)
    BY <1>1
  <2> QED
    BY <2>1
<1>4. g[0] = << >>
  BY <1>1
<1>5. \A k \in 1 .. n : g[k] = g[k - 1] \o ss[k]
  <2> TAKE k \in 1 .. n
  <2>1. k \in 0 .. n /\ k - 1 \in 0 .. n
    BY <1>1
  <2>2. g[k] = SubSeq(s, 1, k) /\ g[k - 1] = SubSeq(s, 1, k - 1)
    BY <2>1
  <2>3. SubSeq(s, 1, k) = SubSeq(s, 1, k - 1) \o <<s[k]>>
    BY <1>1
  <2> HIDE DEF g
  <2> QED
    BY <1>2, <2>2, <2>3
<1>6. FlattenSeq(ss) = g[n]
  <2> HIDE DEF ss, g
  <2> QED
    BY <1>2, <1>3, <1>4, <1>5, FlattenBy
<1>7. g[n] = s
  BY <1>1
<1> QED
  BY <1>2, <1>6, <1>7

(* Parts that are not empty join to one element for each at least. *)
LEMMA FlattenGrows ==
  ASSUME NEW S, NEW ss \in Seq(Seq(S)), \A k \in 1 .. Len(ss) : Len(ss[k]) >= 1
  PROVE  Len(FlattenSeq(ss)) >= Len(ss)
<1> DEFINE n == Len(ss)
           upto(k) == SubSeq(ss, 1, k)
           T == {k \in 0 .. n : Len(FlattenSeq(upto(k))) >= k}
<1>1. n \in Nat
  OBVIOUS
<1>2. 0 \in T
  <2>1. upto(0) = << >>
    OBVIOUS
  <2>2. FlattenSeq(<< >>) = << >>
    BY DEF FlattenSeq
  <2>3. Len(<< >>) = 0 /\ 0 \in 0 .. n
    BY <1>1
  <2>4. Len(FlattenSeq(upto(0))) >= 0
    <3> HIDE DEF upto
    <3> QED
      BY <2>1, <2>2, <2>3
  <2> QED
    BY <2>3, <2>4
<1>3. ASSUME NEW k \in 0 .. n - 1, k \in T PROVE k + 1 \in T
  <2> DEFINE e == ss[k + 1]
             u == upto(k)
  <2>1. e \in Seq(S) /\ u \in Seq(Seq(S)) /\ upto(k + 1) = Append(u, e) /\ Len(e) >= 1
    <3>1. k + 1 \in 1 .. n
      BY <1>1
    <3>2. upto(k) \in Seq(Seq(S)) /\ Len(upto(k)) = k
      BY <1>1
    <3>3. e \in Seq(S) /\ Len(e) >= 1
      BY <3>1
    <3>4. upto(k + 1) = Append(upto(k), e)
      BY <3>1
    <3> QED
      BY <3>2, <3>3, <3>4
  <2>2. Len(FlattenSeq(u)) >= k
    BY <1>3
  <2> HIDE DEF e, u
  <2>3. FlattenSeq(Append(u, e)) = FlattenSeq(u) \o e /\ FlattenSeq(u) \in Seq(S)
    BY <2>1, FlattenAppend
  <2>4. Len(FlattenSeq(u) \o e) = Len(FlattenSeq(u)) + Len(e)
    BY <2>1, <2>3
  <2>5. Len(FlattenSeq(u)) \in Nat /\ Len(e) \in Nat
    BY <2>1, <2>3
  <2>7. k + 1 \in 0 .. n
    BY <1>1
  <2>8. Len(FlattenSeq(Append(u, e))) >= k + 1
    <3> DEFINE x == Len(FlattenSeq(u))
               y == Len(e)
               w == Len(FlattenSeq(Append(u, e)))
    <3>1. w = x + y /\ x >= k /\ y >= 1 /\ x \in Nat /\ y \in Nat
      BY <2>1, <2>2, <2>3, <2>4, <2>5
    <3> HIDE DEF x, y, w
    <3>2. w >= k + 1
      BY <3>1
    <3> QED
      BY <3>2 DEF w
  <2> QED
    BY <2>1, <2>7, <2>8
<1> HIDE DEF T
<1>4. \A k \in 0 .. n : k \in T
  BY <1>1, <1>2, <1>3, UpTo
<1>5. n \in T
  BY <1>1, <1>4
<1>6. upto(n) = ss
  OBVIOUS
<1> QED
  BY <1>5, <1>6 DEF T

(* A sequence that was put together from two. *)
IsJoined(s, a, b) == s = a \o b

(* What two ways to cut the same sequence leave. *)
LEMMA CutFront ==
  ASSUME NEW S, NEW a \in Seq(S), NEW b \in Seq(S), NEW c \in Seq(S), NEW d \in Seq(S),
         NEW s, IsJoined(s, a, b), IsJoined(s, c, d), Len(c) <= Len(a)
  PROVE  /\ SubSeq(a, 1, Len(c)) = c
         /\ SubSeq(a, Len(c) + 1, Len(a)) \in Seq(S)
         /\ Len(SubSeq(a, Len(c) + 1, Len(a))) <= Len(a)
         /\ IsJoined(d, SubSeq(a, Len(c) + 1, Len(a)), b)
<1> DEFINE la == Len(a)
           lb == Len(b)
           lc == Len(c)
           ld == Len(d)
           x == a \o b
           p == SubSeq(a, 1, lc)
           q == SubSeq(a, lc + 1, la)
           y == q \o b
<1>1. la \in Nat /\ lb \in Nat /\ lc \in Nat /\ ld \in Nat /\ lc <= la
  OBVIOUS
<1>2. x \in Seq(S) /\ Len(x) = la + lb /\ (\A i \in 1 .. la : x[i] = a[i]) /\ \A i \in 1 .. lb : x[la + i] = b[i]
  OBVIOUS
<1>3. Len(x) = lc + ld /\ (\A i \in 1 .. lc : x[i] = c[i]) /\ \A i \in 1 .. ld : x[lc + i] = d[i]
  <2> DEFINE z == c \o d
  <2>1. Len(z) = lc + ld /\ (\A i \in 1 .. lc : z[i] = c[i]) /\ \A i \in 1 .. ld : z[lc + i] = d[i]
    OBVIOUS
  <2>2. z = x
    BY DEF IsJoined
  <2> HIDE DEF z, x
  <2> QED
    BY <2>1, <2>2
<1>4. p \in Seq(S) /\ Len(p) = lc /\ \A i \in 1 .. lc : p[i] = a[i]
  <2> HIDE DEF lc
  <2>1. lc \in Nat /\ lc <= Len(a)
    BY <1>1
  <2> QED
    BY <2>1
<1>5. q \in Seq(S) /\ Len(q) = la - lc /\ \A i \in 1 .. la - lc : q[i] = a[lc + i]
  <2> HIDE DEF lc
  <2>1. lc \in Nat /\ lc <= Len(a)
    BY <1>1
  <2> QED
    BY <2>1
<1>6. p = c
  <2>1. \A i \in 1 .. lc : p[i] = c[i]
    <3> HIDE DEF p, la, lc, x
    <3> QED
      BY <1>1, <1>2, <1>3, <1>4
  <2>2. Len(p) = Len(c)
    BY <1>4
  <2> HIDE DEF p
  <2> QED
    BY <1>4, <2>1, <2>2, SameElements
<1> HIDE DEF q
<1>7. y \in Seq(S) /\ Len(y) = Len(q) + lb /\ (\A i \in 1 .. Len(q) : y[i] = q[i]) /\ \A i \in 1 .. lb : y[Len(q) + i] = b[i]
  <2>1. q \in Seq(S)
    BY <1>5
  <2> QED
    BY <2>1, ConcatIs
<1> HIDE DEF y, x, la, lb, lc, ld
<1>8. Len(y) = ld
  BY <1>1, <1>2, <1>3, <1>5, <1>7
<1>9. ASSUME NEW i \in 1 .. ld PROVE y[i] = d[i]
  <2>1. CASE i <= la - lc
    <3>1. i \in 1 .. la - lc /\ lc + i \in 1 .. la
      BY <1>1, <2>1
    <3>2. y[i] = q[i] /\ q[i] = a[lc + i]
      BY <1>5, <1>7, <3>1
    <3>3. x[lc + i] = a[lc + i] /\ x[lc + i] = d[i]
      BY <1>2, <1>3, <3>1
    <3> QED
      BY <3>2, <3>3
  <2>2. CASE i > la - lc
    <3> DEFINE j == i - (la - lc)
    <3>1. j \in 1 .. lb /\ i = (la - lc) + j /\ lc + i = la + j
      BY <1>1, <1>2, <1>3, <2>2
    <3> HIDE DEF j
    <3>2. y[Len(q) + j] = b[j] /\ Len(q) + j = i
      BY <1>5, <1>7, <3>1
    <3>3. x[la + j] = b[j] /\ x[lc + i] = d[i]
      BY <1>2, <1>3, <3>1
    <3> QED
      BY <3>1, <3>2, <3>3
  <2> QED
    BY <1>1, <2>1, <2>2
<1>10. y = d
  BY <1>7, <1>8, <1>9, SameElements DEF ld
<1>11. Len(q) <= la
  BY <1>1, <1>5
<1> QED
  <2>1. q \in Seq(S) /\ Len(q) <= Len(a)
    BY <1>5, <1>11 DEF la
  <2>2. IsJoined(d, q, b)
    BY <1>10 DEF y, IsJoined
  <2>3. SubSeq(a, 1, Len(c)) = c
    BY <1>6 DEF p, lc
  <2> QED
    BY <2>1, <2>2, <2>3 DEF q, lc, la

(* One is taken off what is joined from two. *)
LEMMA TakeOne ==
  ASSUME NEW S, NEW w \in Seq(S), w # << >>, NEW r \in Seq(S), NEW f \in Seq(S),
         NEW k \in 0 .. Len(f), IsJoined(SubSeq(f, k + 1, Len(f)), w, r)
  PROVE  /\ k + 1 \in 1 .. Len(f) /\ f[k + 1] = Head(w) /\ Head(w) \in S
         /\ IsJoined(SubSeq(f, k + 2, Len(f)), Tail(w), r)
<1> DEFINE l == Len(f)
           g == SubSeq(f, k + 1, l)
           h == SubSeq(f, k + 2, l)
           v == Tail(w)
           x == w \o r
           y == v \o r
           p == Len(w)
           q == Len(r)
<1>1. l \in Nat /\ k \in Nat /\ k <= l /\ p \in Nat /\ q \in Nat /\ p >= 1
  OBVIOUS
<1>2. v \in Seq(S) /\ Len(v) = p - 1 /\ (\A i \in 1 .. p - 1 : v[i] = w[i + 1]) /\ Head(w) = w[1] /\ Head(w) \in S
  OBVIOUS
<1>3. Len(x) = p + q /\ (\A i \in 1 .. p : x[i] = w[i]) /\ \A i \in 1 .. q : x[p + i] = r[i]
  OBVIOUS
<1>4. g = x
  BY DEF IsJoined
<1>5. g \in Seq(S) /\ Len(g) = l - k /\ \A i \in 1 .. l - k : g[i] = f[k + i]
  <2> HIDE DEF l
  <2>1. l <= Len(f)
    BY DEF l
  <2> QED
    BY <1>1, <2>1
<1> HIDE DEF g, x, v
<1>6. l - k = p + q /\ \A i \in 1 .. p : f[k + i] = w[i]
  <2> HIDE DEF l, p, q
  <2>1. l - k = p + q
    BY <1>3, <1>4, <1>5
  <2>2. ASSUME NEW i \in 1 .. p PROVE f[k + i] = w[i]
    <3>1. i \in 1 .. l - k
      BY <1>1, <2>1
    <3> QED
      BY <1>3, <1>4, <1>5, <3>1
  <2> QED
    BY <2>1, <2>2
<1>7. \A i \in 1 .. q : f[k + p + i] = r[i]
  <2> HIDE DEF l, p, q
  <2> TAKE i \in 1 .. q
  <2>1. p + i \in 1 .. l - k /\ k + (p + i) = k + p + i
    BY <1>1, <1>6
  <2> QED
    BY <1>3, <1>4, <1>5, <2>1
<1>8. k + 1 \in 1 .. l /\ f[k + 1] = w[1]
  <2> HIDE DEF l, p, q
  <2>1. 1 \in 1 .. p /\ k + 1 \in 1 .. l
    BY <1>1, <1>6
  <2> QED
    BY <1>6, <2>1
<1>9. y \in Seq(S) /\ Len(y) = (p - 1) + q /\ (\A i \in 1 .. p - 1 : y[i] = v[i]) /\ \A i \in 1 .. q : y[(p - 1) + i] = r[i]
  <2>1. v \in Seq(S) /\ r \in Seq(S) /\ Len(v) = p - 1
    BY <1>2
  <2>2. y \in Seq(S) /\ Len(y) = Len(v) + Len(r) /\ (\A i \in 1 .. Len(v) : y[i] = v[i]) /\ \A i \in 1 .. Len(r) : y[Len(v) + i] = r[i]
    <3> SUFFICES ASSUME NEW a \in Seq(S), NEW b \in Seq(S)
                 PROVE  /\ a \o b \in Seq(S) /\ Len(a \o b) = Len(a) + Len(b)
                        /\ (\A i \in 1 .. Len(a) : (a \o b)[i] = a[i])
                        /\ \A i \in 1 .. Len(b) : (a \o b)[Len(a) + i] = b[i]
      BY <2>1
    <3> QED
      BY ConcatIs
  <2> HIDE DEF y
  <2> QED
    BY <2>1, <2>2
<1>10. h \in Seq(S) /\ Len(h) = l - (k + 1) /\ \A i \in 1 .. l - (k + 1) : h[i] = f[(k + 1) + i]
  <2> DEFINE m == k + 1
  <2>1. k + 2 = m + 1 /\ m \in Nat /\ m <= l /\ l <= Len(f)
    BY <1>1, <1>8 DEF l
  <2> HIDE DEF l, m
  <2>2. SubSeq(f, m + 1, l) \in Seq(S) /\ Len(SubSeq(f, m + 1, l)) = l - m /\ \A i \in 1 .. l - m : SubSeq(f, m + 1, l)[i] = f[m + i]
    BY <1>1, <2>1
  <2>3. h = SubSeq(f, m + 1, l)
    BY <2>1
  <2> HIDE DEF h
  <2> QED
    BY <2>2, <2>3 DEF m
<1> HIDE DEF h, y, l, p, q
<1>11. Len(h) = Len(y)
  BY <1>1, <1>6, <1>9, <1>10
<1>12. \A i \in 1 .. Len(h) : h[i] = y[i]
  <2> TAKE i \in 1 .. Len(h)
  <2>1. i \in 1 .. l - (k + 1) /\ h[i] = f[(k + 1) + i]
    BY <1>10
  <2>2. CASE i <= p - 1
    <3>1. i \in 1 .. p - 1 /\ i + 1 \in 1 .. p /\ (k + 1) + i = k + (i + 1)
      BY <1>1, <2>1, <2>2
    <3> QED
      BY <1>2, <1>6, <1>9, <2>1, <3>1
  <2>3. CASE i > p - 1
    <3> DEFINE j == i - (p - 1)
    <3>1. j \in 1 .. q /\ i = (p - 1) + j /\ (k + 1) + i = k + p + j
      BY <1>1, <1>6, <2>1, <2>3
    <3> HIDE DEF j
    <3> QED
      BY <1>7, <1>9, <2>1, <3>1
  <2> QED
    BY <1>1, <2>1, <2>2, <2>3
<1>13. h = y
  BY <1>9, <1>10, <1>11, <1>12, SameElements
<1> QED
  BY <1>2, <1>8, <1>13 DEF IsJoined, h, y, v, l

(* What the prefix of a sequence of lines is. *)
LEMMA PrefixOf ==
  ASSUME NEW S, NEW a \in Seq(S), NEW b \in Seq(S), Len(a) <= Len(b),
         \A k \in 1 .. Len(a) : a[k] = b[k]
  PROVE  IsPrefix(a, b) /\ (Len(a) < Len(b) => IsPrefix(a, Front(b)))
<1>1. Len(a) \in Nat /\ Len(b) \in Nat
  OBVIOUS
<1>2. SubSeq(b, 1, Len(a)) = a
  <2> DEFINE n == Len(a)
             m == Len(b)
  <2> HIDE DEF n, m
  <2>0. n \in Nat /\ m \in Nat /\ n <= m
    BY <1>1 DEF n, m
  <2>1. SubSeq(b, 1, n) \in Seq(S) /\ Len(SubSeq(b, 1, n)) = n /\ \A k \in 1 .. n : SubSeq(b, 1, n)[k] = b[k]
    BY <2>0 DEF m
  <2>2. \A k \in 1 .. n : a[k] = b[k]
    BY DEF n
  <2>3. Len(a) = Len(SubSeq(b, 1, n)) /\ \A k \in 1 .. Len(a) : a[k] = SubSeq(b, 1, n)[k]
    BY <2>1, <2>2 DEF n
  <2>4. a = SubSeq(b, 1, n)
    BY <2>1, <2>3, SameElements
  <2> QED
    BY <2>4 DEF n
<1>3. SubSeq(a, 1, Len(a)) = a
  OBVIOUS
<1>4. IsPrefix(a, b)
  BY <1>2, <1>3 DEF IsPrefix
<1>5. ASSUME Len(a) < Len(b) PROVE IsPrefix(a, Front(b))
  <2> DEFINE f == Front(b)
  <2>1. f \in Seq(S) /\ Len(f) = Len(b) - 1 /\ \A k \in 1 .. Len(b) - 1 : f[k] = b[k]
    <3> DEFINE m == Len(b) - 1
    <3>1. m \in 0 .. Len(b)
      BY <1>1, <1>5
    <3> HIDE DEF m
    <3>2. SubSeq(b, 1, m) \in Seq(S) /\ Len(SubSeq(b, 1, m)) = m /\ \A k \in 1 .. m : SubSeq(b, 1, m)[k] = b[k]
      BY <1>1, <3>1
    <3> QED
      BY <3>2 DEF Front, m
  <2> HIDE DEF f
  <2> DEFINE n == Len(a)
             m == Len(f)
  <2>2. n \in Nat /\ m \in Nat /\ n <= m
    BY <1>1, <1>5, <2>1
  <2>3. \A k \in 1 .. n : a[k] = f[k]
    BY <1>1, <1>5, <2>1
  <2> HIDE DEF n, m
  <2>4. SubSeq(f, 1, n) \in Seq(S) /\ Len(SubSeq(f, 1, n)) = n /\ \A k \in 1 .. n : SubSeq(f, 1, n)[k] = f[k]
    BY <2>1, <2>2 DEF m
  <2>5. Len(a) = Len(SubSeq(f, 1, n)) /\ \A k \in 1 .. Len(a) : a[k] = SubSeq(f, 1, n)[k]
    BY <2>3, <2>4 DEF n
  <2>6. a = SubSeq(f, 1, n)
    BY <2>4, <2>5, SameElements
  <2> QED
    BY <1>3, <2>2, <2>6 DEF IsPrefix, f, n, m
<1> QED
  BY <1>4, <1>5
=============================================================================
