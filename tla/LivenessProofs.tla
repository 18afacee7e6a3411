--------------------------- MODULE LivenessProofs ---------------------------
(***************************************************************************)
(* Proofs about Liveness, for every function there can be: what it answers *)
(* is what the paths through the function say.  In one direction because   *)
(* the paths' answer solves the equations the analysis applies, in the     *)
(* other because whatever solves them holds what a path reads, from the    *)
(* end of the path back to its beginning.                                  *)
(***************************************************************************)
EXTENDS Liveness, FiniteSetTheorems, SequenceTheorems, TLAPS

(* Nothing is live without a reason that still stands. *)
Grounded ==
    /\ \A c \in Blocks : live_out[c] \subseteq UNION {live_in[s] : s \in func[c].succ}
    /\ \A c \in Blocks : UpwardExposed(func[c]) \subseteq live_in[c]
    /\ \A c \in Blocks : live_in[c] \subseteq UpwardExposed(func[c]) \cup (live_out[c] \ Written(func[c]))

IInv ==
    /\ func \in Functions
    /\ TypeOK
    /\ NeverTooMuch
    /\ QuietSweepSolved
    /\ Grounded

-----------------------------------------------------------------------------
(* The length of a path is what it says. *)
LEMMA PathLength ==
  ASSUME NEW S, NEW n \in Nat, NEW p \in [1 .. n -> S]
  PROVE  Len(p) = n
  OBVIOUS

(* A set of numbers up to n that has with each the next one is empty:        *)
(* counting on from its members would map it into itself less one of them.  *)
LEMMA NoEndlessClimb ==
  ASSUME NEW n \in Nat, NEW B \in SUBSET (1 .. n), \A k \in B : k + 1 \in B
  PROVE  B = {}
<1> SUFFICES ASSUME NEW a \in B PROVE FALSE
  OBVIOUS
<1> DEFINE D == {k \in B : k >= a}
           next == [k \in D |-> k + 1]
<1>1. IsFiniteSet(D) /\ a \in D
  <2>1. IsFiniteSet(1 .. n)
    BY FS_Interval
  <2>2. D \in SUBSET (1 .. n)
    OBVIOUS
  <2> QED
    BY <2>1, <2>2, FS_Subset
<1>2. IsFiniteSet(D \ {a}) /\ Cardinality(D \ {a}) = Cardinality(D) - 1
  BY <1>1, FS_RemoveElement
<1>3. next \in Injection(D, D \ {a})
  <2>1. \A k \in D : k + 1 \in D \ {a}
    <3> TAKE k \in D
    <3>1. k \in Int /\ a \in Int /\ k + 1 \in B /\ k >= a
      OBVIOUS
    <3> QED
      BY <3>1
  <2>2. \A k \in D : k \in Int
    OBVIOUS
  <2> HIDE DEF D
  <2>3. next \in [D -> D \ {a}]
    BY <2>1
  <2>4. \A j, k \in D : next[j] = next[k] => j = k
    BY <2>2
  <2> QED
    BY <2>3, <2>4 DEF Injection, IsInjective
<1>4. Cardinality(D) <= Cardinality(D \ {a})
  <2> HIDE DEF D, next
  <2> QED
    BY <1>2, <1>3, FS_Injection
<1>5. Cardinality(D) \in Nat
  BY <1>1, FS_CardinalityType
<1> QED
  BY <1>2, <1>4, <1>5

(* A path that visits no block twice is no longer than the function. *)
LEMMA PathsFit ==
  ASSUME NEW N \in Nat, NEW n \in Nat, NEW p \in [1 .. n -> 1 .. N],
         \A j, k \in 1 .. n : p[j] = p[k] => j = k
  PROVE  n <= N
<1>1. p \in Injection(1 .. n, 1 .. N)
  BY DEF Injection, IsInjective
<1>2. IsFiniteSet(1 .. N) /\ Cardinality(1 .. N) = N
  BY FS_Interval
<1>3. Cardinality(1 .. n) = n
  BY FS_Interval
<1> QED
  BY <1>1, <1>2, <1>3, FS_Injection

(* What makes a register live at the top of a block. *)
LEMMA LiveInMeans ==
  ASSUME NEW f \in Functions, NEW c \in DOMAIN f, NEW v,
         NEW n \in 1 .. Len(f), NEW p \in [1 .. n -> DOMAIN f], IsPath(f, p, n),
         p[1] = c, v \in UpwardExposed(f[p[n]]), \A k \in 1 .. n - 1 : v \notin Written(f[p[k]])
  PROVE  v \in LiveIn(f)[c]
<1>1. Len(f) \in Nat
  BY FunctionsAreGraphs DEF IsGraph
<1>2. Len(p) = n
  BY <1>1, PathLength
<1>3. p \in Paths(f)
  BY DEF Paths
<1>4. ReadsFirst(f, p, v)
  BY <1>2 DEF ReadsFirst
<1>5. v \in VRegs(f)
  <2>1. p[n] \in DOMAIN f
    BY <1>1
  <2> QED
    BY <2>1 DEF VRegs
<1> QED
  BY <1>3, <1>4, <1>5 DEF LiveIn

(* And what is live there has such a path. *)
LEMMA LiveInHasPath ==
  ASSUME NEW f \in Functions, NEW c \in DOMAIN f, NEW v \in LiveIn(f)[c]
  PROVE  \E n \in 1 .. Len(f) : \E p \in [1 .. n -> DOMAIN f] :
            /\ IsPath(f, p, n) /\ p[1] = c
            /\ v \in UpwardExposed(f[p[n]])
            /\ \A k \in 1 .. n - 1 : v \notin Written(f[p[k]])
<1>1. Len(f) \in Nat
  BY FunctionsAreGraphs DEF IsGraph
<1>2. PICK p \in Paths(f) : p[1] = c /\ ReadsFirst(f, p, v)
  BY DEF LiveIn
<1>3. PICK n \in 1 .. Len(f) : p \in [1 .. n -> DOMAIN f] /\ IsPath(f, p, n)
  BY <1>2 DEF Paths
<1>4. Len(p) = n
  BY <1>1, <1>3, PathLength
<1> QED
  BY <1>2, <1>3, <1>4 DEF ReadsFirst

(* The paths solve the equations: what a block reads is live at its top. *)
LEMMA ReadHere ==
  ASSUME NEW f \in Functions, NEW c \in DOMAIN f, NEW v \in UpwardExposed(f[c])
  PROVE  v \in LiveIn(f)[c]
<1> DEFINE p == [k \in 1 .. 1 |-> c]
<1>1. DOMAIN f = 1 .. Len(f) /\ Len(f) \in Nat
  BY FunctionsAreGraphs DEF IsGraph
<1>2. 1 \in 1 .. Len(f)
  BY <1>1
<1>3. p \in [1 .. 1 -> DOMAIN f] /\ p[1] = c
  OBVIOUS
<1>4. IsPath(f, p, 1)
  BY DEF IsPath
<1>5. \A k \in 1 .. 1 - 1 : v \notin Written(f[p[k]])
  OBVIOUS
<1> HIDE DEF p
<1> QED
  BY <1>2, <1>3, <1>4, <1>5, LiveInMeans

(* And what is live at the top of a successor is live at its own, unless it  *)
(* writes it: a path is extended, or cut short where it came by already.    *)
LEMMA ReadLater ==
  ASSUME NEW f \in Functions, NEW c \in DOMAIN f, NEW s \in f[c].succ,
         NEW v \in LiveIn(f)[s], v \notin Written(f[c])
  PROVE  v \in LiveIn(f)[c]
<1>1. DOMAIN f = 1 .. Len(f) /\ Len(f) \in Nat /\ s \in DOMAIN f
  BY FunctionsAreGraphs DEF IsGraph
<1>2. PICK n \in 1 .. Len(f) : \E p \in [1 .. n -> DOMAIN f] :
            /\ IsPath(f, p, n) /\ p[1] = s
            /\ v \in UpwardExposed(f[p[n]])
            /\ \A k \in 1 .. n - 1 : v \notin Written(f[p[k]])
  BY <1>1, LiveInHasPath
<1>3. PICK p \in [1 .. n -> DOMAIN f] :
            /\ IsPath(f, p, n) /\ p[1] = s
            /\ v \in UpwardExposed(f[p[n]])
            /\ \A k \in 1 .. n - 1 : v \notin Written(f[p[k]])
  BY <1>2
<1>4. CASE \E k \in 1 .. n : p[k] = c
  <2>1. PICK k \in 1 .. n : p[k] = c
    BY <1>4
  <2> DEFINE m == n - k + 1
             q == [j \in 1 .. m |-> p[j + k - 1]]
  <2>2. m \in 1 .. Len(f) /\ \A j \in 1 .. m : j + k - 1 \in 1 .. n
    BY <1>1
  <2>3. q \in [1 .. m -> DOMAIN f] /\ q[1] = c /\ q[m] = p[n]
    BY <1>1, <2>1, <2>2
  <2>4. \A j \in 1 .. m - 1 : j + k - 1 \in 1 .. n - 1 /\ q[j] = p[j + k - 1] /\ q[j + 1] = p[(j + k - 1) + 1]
    BY <1>1, <2>2
  <2>5. IsPath(f, q, m)
    <3>1. \A j \in 1 .. m - 1 : q[j + 1] \in f[q[j]].succ
      BY <1>3, <2>4 DEF IsPath
    <3>2. \A i, j \in 1 .. m : q[i] = q[j] => i = j
      <4> TAKE i, j \in 1 .. m
      <4>1. q[i] = p[i + k - 1] /\ q[j] = p[j + k - 1]
        OBVIOUS
      <4>2. q[i] = q[j] => i + k - 1 = j + k - 1
        BY <1>3, <2>2, <4>1 DEF IsPath
      <4> QED
        BY <1>1, <4>2
    <3> QED
      BY <3>1, <3>2 DEF IsPath
  <2>6. v \in UpwardExposed(f[q[m]]) /\ \A j \in 1 .. m - 1 : v \notin Written(f[q[j]])
    BY <1>3, <2>3, <2>4
  <2> HIDE DEF m, q
  <2> QED
    BY <2>2, <2>3, <2>5, <2>6, LiveInMeans
<1>5. CASE \A k \in 1 .. n : p[k] # c
  <2> DEFINE m == n + 1
             q == [j \in 1 .. m |-> IF j = 1 THEN c ELSE p[j - 1]]
  <2>1. m \in Nat /\ q \in [1 .. m -> DOMAIN f] /\ q[1] = c /\ q[m] = p[n]
    BY <1>1
  <2>2. \A i, j \in 1 .. m : q[i] = q[j] => i = j
    <3> TAKE i, j \in 1 .. m
    <3>1. CASE i = 1 /\ j = 1
      BY <3>1
    <3>2. CASE i = 1 /\ j # 1
      BY <1>1, <1>5, <3>2
    <3>3. CASE i # 1 /\ j = 1
      BY <1>1, <1>5, <3>3
    <3>4. CASE i # 1 /\ j # 1
      <4>1. i - 1 \in 1 .. n /\ j - 1 \in 1 .. n /\ q[i] = p[i - 1] /\ q[j] = p[j - 1]
        BY <1>1, <3>4
      <4>2. q[i] = q[j] => i - 1 = j - 1
        BY <1>3, <4>1 DEF IsPath
      <4> QED
        BY <1>1, <4>2
    <3> QED
      BY <3>1, <3>2, <3>3, <3>4
  <2>3. m <= Len(f)
    <3> HIDE DEF q
    <3> QED
      BY <1>1, <2>1, <2>2, PathsFit
  <2>4. \A j \in 1 .. m - 1 : /\ q[j + 1] \in f[q[j]].succ
                              /\ v \notin Written(f[q[j]])
    <3> TAKE j \in 1 .. m - 1
    <3>1. CASE j = 1
      <4>1. q[j] = c /\ q[j + 1] = p[1]
        BY <1>1, <3>1
      <4> QED
        BY <1>3, <4>1
    <3>2. CASE j # 1
      <4>1. j - 1 \in 1 .. n - 1 /\ q[j] = p[j - 1] /\ q[j + 1] = p[(j - 1) + 1]
        BY <1>1, <3>2
      <4>2. p[(j - 1) + 1] \in f[p[j - 1]].succ /\ v \notin Written(f[p[j - 1]])
        BY <1>3, <4>1 DEF IsPath
      <4> HIDE DEF q
      <4> QED
        BY <4>1, <4>2
    <3> QED
      BY <3>1, <3>2
  <2>5. IsPath(f, q, m)
    BY <2>2, <2>4 DEF IsPath
  <2>6. v \in UpwardExposed(f[q[m]])
    BY <1>3, <2>1
  <2>7. m \in 1 .. Len(f)
    BY <1>1, <2>1, <2>3
  <2> HIDE DEF m, q
  <2> QED
    BY <2>1, <2>4, <2>5, <2>6, <2>7, LiveInMeans
<1> QED
  BY <1>4, <1>5

(* Whatever solves the equations holds all that paths read: on a path that   *)
(* reads v first, v cannot be missing anywhere without being missing at the  *)
(* next block as well.                                                       *)
LEMMA NothingMissing ==
  ASSUME NEW f \in Functions, NEW in,
         \A c \in DOMAIN f : UpwardExposed(f[c]) \subseteq in[c],
         \A c \in DOMAIN f : \A s \in f[c].succ : in[s] \ Written(f[c]) \subseteq in[c],
         NEW c \in DOMAIN f
  PROVE  LiveIn(f)[c] \subseteq in[c]
<1> SUFFICES ASSUME NEW v \in LiveIn(f)[c] PROVE v \in in[c]
  OBVIOUS
<1>1. Len(f) \in Nat
  BY FunctionsAreGraphs DEF IsGraph
<1>2. PICK n \in 1 .. Len(f) : \E p \in [1 .. n -> DOMAIN f] :
            /\ IsPath(f, p, n) /\ p[1] = c
            /\ v \in UpwardExposed(f[p[n]])
            /\ \A k \in 1 .. n - 1 : v \notin Written(f[p[k]])
  BY LiveInHasPath
<1>3. PICK p \in [1 .. n -> DOMAIN f] :
            /\ IsPath(f, p, n) /\ p[1] = c
            /\ v \in UpwardExposed(f[p[n]])
            /\ \A k \in 1 .. n - 1 : v \notin Written(f[p[k]])
  BY <1>2
<1> DEFINE B == {k \in 1 .. n : v \notin in[p[k]]}
<1>4. n \notin B
  <2>1. p[n] \in DOMAIN f
    BY <1>1
  <2> QED
    BY <1>3, <2>1
<1>5. \A k \in B : k + 1 \in B
  <2> TAKE k \in B
  <2>1. k \in 1 .. n - 1
    BY <1>1, <1>4
  <2>2. p[k] \in DOMAIN f /\ p[k + 1] \in f[p[k]].succ /\ v \notin Written(f[p[k]])
    BY <1>1, <1>3, <2>1 DEF IsPath
  <2>3. v \notin in[p[k + 1]]
    BY <2>2
  <2> QED
    BY <1>1, <2>1, <2>3
<1>6. B = {}
  <2>1. n \in Nat /\ B \in SUBSET (1 .. n)
    BY <1>1
  <2> HIDE DEF B
  <2> QED
    BY <1>5, <2>1, NoEndlessClimb
<1> QED
  BY <1>1, <1>3, <1>6
-----------------------------------------------------------------------------
(* What every step needs to know of the function. *)
LEMMA TheFunction ==
  ASSUME IInv
  PROVE  /\ Len(func) \in Nat /\ Blocks = 1 .. Len(func)
         /\ \A c \in Blocks : func[c].succ \subseteq Blocks
         /\ \A c \in Blocks : UpwardExposed(func[c]) \subseteq VRegs(func)
         /\ \A c \in Blocks : LiveOut(func)[c] = UNION {LiveIn(func)[s] : s \in func[c].succ}
<1>1. func \in Functions
  BY DEF IInv
<1>2. IsGraph(func)
  BY <1>1, FunctionsAreGraphs
<1> QED
  BY <1>2 DEF IsGraph, Blocks, VRegs, LiveOut

LEMMA InitIInv == Init => IInv
<1> SUFFICES ASSUME Init PROVE IInv
  OBVIOUS
<1>1. func \in Functions /\ IsGraph(func)
  BY FunctionsAreGraphs DEF Init
<1>2. TypeOK
  <2>1. \A c \in Blocks : UpwardExposed(func[c]) \in SUBSET VRegs(func)
    BY DEF Blocks, VRegs
  <2>2. live_in \in [Blocks -> SUBSET VRegs(func)] /\ live_out \in [Blocks -> SUBSET VRegs(func)]
    BY <2>1 DEF Init
  <2>3. b \in 0 .. Len(func)
    BY <1>1 DEF Init, IsGraph
  <2>4. changed \in BOOLEAN
    BY DEF Init
  <2> QED
    BY <2>2, <2>3, <2>4 DEF TypeOK
<1>3. NeverTooMuch
  <2>1. \A c \in Blocks : UpwardExposed(func[c]) \subseteq LiveIn(func)[c]
    BY <1>1, ReadHere DEF Blocks
  <2> QED
    BY <2>1 DEF Init, NeverTooMuch
<1>4. QuietSweepSolved
  BY <1>1 DEF Init, IsGraph, QuietSweepSolved, Blocks
<1>5. Grounded
  BY DEF Init, Grounded
<1> QED
  BY <1>1, <1>2, <1>3, <1>4, <1>5 DEF IInv

LEMMA VisitKeepsIInv == IInv /\ VisitBlock => IInv'
<1> SUFFICES ASSUME IInv, VisitBlock PROVE IInv'
  OBVIOUS
<1> USE DEF VisitBlock
<1>1. /\ func \in Functions /\ TypeOK /\ NeverTooMuch /\ QuietSweepSolved /\ Grounded
  BY DEF IInv
<1>2. /\ Len(func) \in Nat /\ Blocks = 1 .. Len(func) /\ Blocks' = Blocks /\ func' = func
      /\ \A c \in Blocks : func[c].succ \subseteq Blocks
      /\ \A c \in Blocks : LiveOut(func)[c] = UNION {LiveIn(func)[s] : s \in func[c].succ}
  BY TheFunction DEF Blocks
<1>3. b \in Blocks /\ DOMAIN live_in = Blocks /\ DOMAIN live_out = Blocks
  BY <1>1, <1>2 DEF TypeOK
<1>4. /\ \A c \in Blocks : live_out'[c] = IF c = b THEN Leaving(b) ELSE live_out[c]
      /\ \A c \in Blocks : live_in'[c] = IF c = b THEN Entering(b) ELSE live_in[c]
  BY <1>3
<1>5. /\ \A c \in Blocks : live_in[c] \subseteq live_in'[c]
      /\ \A c \in Blocks : live_out[c] \subseteq live_out'[c]
  BY <1>4 DEF Leaving, Entering
<1>6. TypeOK'
  <2>1. Leaving(b) \subseteq VRegs(func) /\ Entering(b) \subseteq VRegs(func)
    BY <1>1, <1>2, <1>3 DEF TypeOK, Leaving, Entering
  <2>2. live_in' \in [Blocks -> SUBSET VRegs(func)] /\ live_out' \in [Blocks -> SUBSET VRegs(func)]
    BY <1>1, <2>1 DEF TypeOK
  <2>3. b' \in 0 .. Len(func)
    BY <1>2, <1>3
  <2>4. changed' \in BOOLEAN
    BY <1>1 DEF TypeOK
  <2> QED
    BY <1>2, <2>2, <2>3, <2>4 DEF TypeOK
<1>7. NeverTooMuch'
  <2>1. Leaving(b) \subseteq LiveOut(func)[b]
    BY <1>1, <1>2, <1>3 DEF NeverTooMuch, Leaving
  <2>2. LiveOut(func)[b] \ Written(func[b]) \subseteq LiveIn(func)[b]
    BY <1>1, <1>2, <1>3, ReadLater DEF Blocks
  <2>3. Entering(b) \subseteq LiveIn(func)[b]
    BY <1>1, <1>3, <2>1, <2>2 DEF NeverTooMuch, Entering
  <2> QED
    BY <1>1, <1>2, <1>4, <2>1, <2>3 DEF NeverTooMuch
<1>8. QuietSweepSolved'
  <2> SUFFICES ASSUME ~changed', NEW c \in Blocks, c > b - 1 PROVE Equations(c)'
    BY <1>2 DEF QuietSweepSolved
  <2>1. ~changed /\ Leaving(b) = live_out[b] /\ Entering(b) = live_in[b]
    OBVIOUS
  <2>2. \A d \in Blocks : live_out'[d] = live_out[d] /\ live_in'[d] = live_in[d]
    BY <1>4, <2>1
  <2>3. Equations(c)
    <3>1. CASE c = b
      BY <1>1, <1>3, <2>1, <3>1 DEF Grounded, Equations, Leaving, Entering
    <3>2. CASE c # b
      <4>1. c > b
        BY <1>2, <1>3, <3>2
      <4> QED
        BY <1>1, <2>1, <4>1 DEF QuietSweepSolved
    <3> QED
      BY <3>1, <3>2
  <2> QED
    BY <1>2, <2>2, <2>3 DEF Equations
<1>9. Grounded'
  <2> SUFFICES ASSUME NEW c \in Blocks
               PROVE  /\ live_out'[c] \subseteq UNION {live_in'[s] : s \in func[c].succ}
                      /\ UpwardExposed(func[c]) \subseteq live_in'[c]
                      /\ live_in'[c] \subseteq UpwardExposed(func[c]) \cup (live_out'[c] \ Written(func[c]))
    BY <1>2 DEF Grounded
  <2>1. UNION {live_in[s] : s \in func[c].succ} \subseteq UNION {live_in'[s] : s \in func[c].succ}
    BY <1>2, <1>5
  <2>2. live_out'[c] \subseteq UNION {live_in[s] : s \in func[c].succ}
    BY <1>1, <1>4 DEF Grounded, Leaving
  <2>3. UpwardExposed(func[c]) \subseteq live_in'[c]
    BY <1>1, <1>5 DEF Grounded
  <2>4. live_in'[c] \subseteq UpwardExposed(func[c]) \cup (live_out'[c] \ Written(func[c]))
    BY <1>1, <1>4, <1>5 DEF Grounded, Entering
  <2> QED
    BY <2>1, <2>2, <2>3, <2>4
<1> QED
  BY <1>1, <1>2, <1>6, <1>7, <1>8, <1>9 DEF IInv

LEMMA SweepKeepsIInv == IInv /\ NextSweep => IInv'
<1> SUFFICES ASSUME IInv, NextSweep PROVE IInv'
  OBVIOUS
<1>1. Len(func) \in Nat /\ Blocks = 1 .. Len(func)
  BY TheFunction
<1>2. /\ func' = func /\ live_in' = live_in /\ live_out' = live_out
      /\ b' = Len(func) /\ changed' = FALSE /\ Blocks' = Blocks
  BY DEF NextSweep, Blocks
<1>3. TypeOK'
  <2>1. live_in' \in [Blocks' -> SUBSET VRegs(func')] /\ live_out' \in [Blocks' -> SUBSET VRegs(func')]
    BY <1>2 DEF IInv, TypeOK
  <2>2. b' \in 0 .. Len(func')
    BY <1>1, <1>2
  <2>3. changed' \in BOOLEAN
    BY <1>2
  <2> QED
    BY <2>1, <2>2, <2>3 DEF TypeOK
<1>4. NeverTooMuch' /\ Grounded'
  BY <1>2 DEF IInv, NeverTooMuch, Grounded
<1>5. QuietSweepSolved'
  BY <1>1, <1>2 DEF QuietSweepSolved
<1> QED
  BY <1>2, <1>3, <1>4, <1>5 DEF IInv

LEMMA NextIInv == IInv /\ [Next]_vars => IInv'
<1>1. IInv /\ UNCHANGED vars => IInv'
  BY DEF vars, IInv, TypeOK, NeverTooMuch, QuietSweepSolved, Grounded, Equations, Blocks
<1> QED
  BY <1>1, VisitKeepsIInv, SweepKeepsIInv DEF Next, Returned

(* `liveness` of ir/liveness.rs never strays, for any function: nothing is    *)
(* called live that no path reads, and a sweep in which nothing has changed  *)
(* leaves solved blocks behind.                                              *)
THEOREM AlwaysNeverAstray == Spec => []NeverAstray
<1>1. IInv => NeverAstray
  BY DEF IInv, NeverAstray
<1> QED
  BY <1>1, InitIInv, NextIInv, PTL DEF Spec

LEMMA QuietEndIsExact == IInv => DoneIsExact
<1> SUFFICES ASSUME IInv, Done PROVE live_in = LiveIn(func) /\ live_out = LiveOut(func)
  BY DEF DoneIsExact
<1>1. /\ func \in Functions /\ TypeOK /\ NeverTooMuch /\ QuietSweepSolved /\ Grounded
  BY DEF IInv
<1>2. /\ Len(func) \in Nat /\ Blocks = 1 .. Len(func) /\ DOMAIN func = Blocks
      /\ \A c \in Blocks : func[c].succ \subseteq Blocks
      /\ \A c \in Blocks : LiveOut(func)[c] = UNION {LiveIn(func)[s] : s \in func[c].succ}
  BY TheFunction DEF Blocks
<1>3. \A c \in Blocks : Equations(c)
  BY <1>1, <1>2 DEF Done, QuietSweepSolved
<1>4. \A c \in DOMAIN func : UpwardExposed(func[c]) \subseteq live_in[c]
  BY <1>2, <1>3 DEF Equations
<1>5. \A c \in DOMAIN func : \A s \in func[c].succ : live_in[s] \ Written(func[c]) \subseteq live_in[c]
  BY <1>2, <1>3 DEF Equations
<1>6. \A c \in Blocks : LiveIn(func)[c] \subseteq live_in[c]
  BY <1>1, <1>2, <1>4, <1>5, NothingMissing
<1>7. \A c \in Blocks : live_in[c] = LiveIn(func)[c]
  BY <1>1, <1>6 DEF NeverTooMuch
<1>8. \A c \in Blocks : live_out[c] = LiveOut(func)[c]
  <2> TAKE c \in Blocks
  <2>1. {live_in[s] : s \in func[c].succ} = {LiveIn(func)[s] : s \in func[c].succ}
    BY <1>2, <1>7
  <2>2. live_out[c] = UNION {live_in[s] : s \in func[c].succ}
    BY <1>3 DEF Equations
  <2> QED
    BY <1>2, <2>1, <2>2
<1>9. /\ live_in = [c \in Blocks |-> live_in[c]] /\ live_out = [c \in Blocks |-> live_out[c]]
      /\ LiveIn(func) = [c \in Blocks |-> LiveIn(func)[c]] /\ LiveOut(func) = [c \in Blocks |-> LiveOut(func)[c]]
  BY <1>1, <1>2 DEF TypeOK, LiveIn, LiveOut
<1> QED
  BY <1>7, <1>8, <1>9

(* When the analysis ends it has found what the paths through the function    *)
(* read, no more and no less, whatever its graph and however it loops.       *)
THEOREM AlwaysExact == Spec => []DoneIsExact
  BY QuietEndIsExact, InitIInv, NextIInv, PTL DEF Spec
=============================================================================
