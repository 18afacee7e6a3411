------------------------- MODULE AllocatedCodeProofs -------------------------
(***************************************************************************)
(* Proofs about AllocatedCode, for every function the code generator may   *)
(* be handed and every register file.  What has to be in place while the   *)
(* function runs is what is read further on before it is written again;    *)
(* each of these values has an interval that begins before the instruction *)
(* being run and ends behind it, so that what the scan promises of         *)
(* overlapping intervals keeps its location its own.                       *)
(***************************************************************************)
EXTENDS AllocatedCode, RegAllocProofs

(* A function the code generator is handed. *)
LEMMA CodeIs ==
  ASSUME NEW f \in Functions
  PROVE  /\ IsCode(f) /\ NothingReadUnwritten(f) /\ DefinedFirst(f)
         /\ Len(f) \in Nat /\ Len(f) > 0 /\ DOMAIN f = 1 .. Len(f) /\ 1 \in DOMAIN f
         /\ \A c \in DOMAIN f :
               /\ f[c].succ \subseteq DOMAIN f
               /\ f[c].params = {}
               /\ f[c].instrs \in Seq(Instruction)
               /\ Len(f[c].instrs) \in Nat
               /\ Positions(f[c]) = 1 .. Len(f[c].instrs)
               /\ 0 \notin f[c].uses
               /\ \A k \in Positions(f[c]) :
                     Wrote(f[c], k) \in Nat /\ Read(f[c], k) \subseteq Nat \ {0}
<1>1. IsCode(f) /\ NothingReadUnwritten(f) /\ DefinedFirst(f)
  BY FunctionsAreCode
<1>2. /\ Len(f) \in Nat /\ Len(f) > 0 /\ DOMAIN f = 1 .. Len(f)
      /\ \A c \in DOMAIN f : /\ f[c].succ \subseteq DOMAIN f
                             /\ f[c].params = {}
                             /\ f[c].instrs \in Seq(Instruction)
                             /\ f[c].uses \subseteq Nat \ {0}
  BY <1>1 DEF IsCode, IsGraph
<1>3. ASSUME NEW c \in DOMAIN f
      PROVE  /\ Len(f[c].instrs) \in Nat
             /\ Positions(f[c]) = 1 .. Len(f[c].instrs)
             /\ \A k \in Positions(f[c]) :
                   Wrote(f[c], k) \in Nat /\ Read(f[c], k) \subseteq Nat \ {0}
  <2>1. f[c].instrs \in Seq(Instruction)
    BY <1>2
  <2>2. Len(f[c].instrs) \in Nat /\ Positions(f[c]) = 1 .. Len(f[c].instrs)
    BY <2>1 DEF Positions
  <2>3. \A k \in Positions(f[c]) : f[c].instrs[k] \in Instruction
    BY <2>1, <2>2
  <2> QED
    BY <2>2, <2>3 DEF Wrote, Read, Instruction
<1> QED
  BY <1>1, <1>2, <1>3

-----------------------------------------------------------------------------
(* The blocks one after the other. *)
LEMMA LaidOutIs ==
  ASSUME NEW f \in Functions
  PROVE  /\ LaidOut(f) \in [0 .. Len(f) -> Nat]
         /\ LaidOut(f)[0] = 0
         /\ \A d \in 1 .. Len(f) : LaidOut(f)[d] = LaidOut(f)[d - 1] + Len(f[d].instrs) + 1
<1> DEFINE n == Len(f)
           step == [d \in 1 .. n |-> [x \in Nat |-> x + Len(f[d].instrs) + 1]]
           F(g) == [d \in 0 .. n |-> IF d = 0 THEN 0 ELSE g[d - 1] + Len(f[d].instrs) + 1]
<1>1. n \in Nat /\ \A d \in 1 .. n : Len(f[d].instrs) \in Nat
  BY CodeIs
<1>2. step \in [1 .. n -> [Nat -> Nat]]
  BY <1>1
<1>3. PICK g \in [0 .. n -> Nat] : g[0] = 0 /\ \A d \in 1 .. n : g[d] = step[d][g[d - 1]]
  <2> HIDE DEF step, n
  <2>1. Solutions(n, Nat, 0, step) # {}
    BY <1>1, <1>2, Recursion
  <2> QED
    BY <2>1 DEF Solutions
<1>4. g = F(g)
  <2>1. ASSUME NEW d \in 1 .. n PROVE g[d] = g[d - 1] + Len(f[d].instrs) + 1
    <3>1. d - 1 \in 0 .. n
      BY <1>1
    <3>2. g[d - 1] \in Nat
      BY <3>1
    <3>3. step[d][g[d - 1]] = g[d - 1] + Len(f[d].instrs) + 1
      BY <3>2
    <3> HIDE DEF step
    <3> QED
      BY <1>3, <3>3
  <2> HIDE DEF n
  <2>2. \A d \in 0 .. n : g[d] = IF d = 0 THEN 0 ELSE g[d - 1] + Len(f[d].instrs) + 1
    BY <1>1, <1>3, <2>1
  <2> QED
    BY <2>2
<1>5. LaidOut(f) = CHOOSE g1 : g1 = F(g1)
  BY DEF LaidOut
<1> DEFINE E == LaidOut(f)
<1>6. E = F(E)
  BY <1>4, <1>5
<1> HIDE DEF E, n
<1>7. E[0] = 0 /\ \A d \in 1 .. n : E[d] = E[d - 1] + Len(f[d].instrs) + 1
  BY <1>1, <1>6
<1>8. E \in [0 .. n -> Nat]
  <2> DEFINE S == {d \in 0 .. n : E[d] \in Nat}
  <2>1. 0 \in S
    BY <1>1, <1>7
  <2>2. ASSUME NEW d \in 0 .. n - 1, d \in S PROVE d + 1 \in S
    <3>1. d + 1 \in 1 .. n /\ d + 1 - 1 = d
      BY <1>1
    <3>2. E[d + 1] = E[d] + Len(f[d + 1].instrs) + 1
      BY <1>7, <3>1
    <3>3. E[d] \in Nat /\ Len(f[d + 1].instrs) \in Nat
      BY <1>1, <2>2, <3>1
    <3>4. E[d + 1] \in Nat /\ d + 1 \in 0 .. n
      <4> HIDE DEF E
      <4> QED
        BY <1>1, <3>1, <3>2, <3>3
    <3> QED
      BY <3>4
  <2>3. \A d \in 0 .. n : d \in S
    <3> HIDE DEF S
    <3> QED
      BY <1>1, <2>1, <2>2, UpTo
  <2> QED
    BY <1>6, <2>3
<1> QED
  BY <1>7, <1>8 DEF E, n

(* One past the last index of a function. *)
Top(f) == LaidOut(f)[Len(f)]

(* No two blocks overlap, and a later one lies behind. *)
LEMMA LayoutIs ==
  ASSUME NEW f \in Functions
  PROVE  /\ Top(f) \in Nat
         /\ \A c \in DOMAIN f :
               /\ LayoutStart(f, c) \in 0 .. Top(f)
               /\ LayoutEnd(f, c) \in 0 .. Top(f)
               /\ LayoutEnd(f, c) = LayoutStart(f, c) + Len(f[c].instrs)
               /\ \A k \in Positions(f[c]) : At(f, c, k) \in LayoutStart(f, c) .. LayoutEnd(f, c) - 1
         /\ \A c, d \in DOMAIN f : c < d => LayoutEnd(f, c) < LayoutStart(f, d)
<1> DEFINE n == Len(f)
           E == LaidOut(f)
<1>1. n \in Nat /\ DOMAIN f = 1 .. n /\ \A d \in 1 .. n : Len(f[d].instrs) \in Nat
  BY CodeIs
<1>2. /\ E \in [0 .. n -> Nat]
      /\ \A d \in 1 .. n : E[d] = E[d - 1] + Len(f[d].instrs) + 1
  BY LaidOutIs
<1>3. \A c \in DOMAIN f : LayoutStart(f, c) = E[c - 1] /\ LayoutEnd(f, c) = E[c - 1] + Len(f[c].instrs)
  BY DEF LayoutStart, LayoutEnd
<1>4. Top(f) = E[n]
  BY DEF Top
<1> HIDE DEF E, n
<1>5. ASSUME NEW c \in 0 .. n PROVE \A d \in 0 .. n : c <= d => E[c] <= E[d]
  <2> DEFINE S == {d \in 0 .. n : c <= d => E[c] <= E[d]}
  <2>1. 0 \in S
    BY <1>1, <1>2
  <2>2. ASSUME NEW d \in 0 .. n - 1, d \in S PROVE d + 1 \in S
    <3>1. d + 1 \in 1 .. n /\ d + 1 - 1 = d /\ d \in 0 .. n
      BY <1>1
    <3>2. E[d + 1] = E[d] + Len(f[d + 1].instrs) + 1
      BY <1>2, <3>1
    <3>3. E[d] \in Nat /\ E[c] \in Nat /\ Len(f[d + 1].instrs) \in Nat
      BY <1>1, <1>2, <3>1
    <3>4. E[d] < E[d + 1]
      BY <3>2, <3>3
    <3>5. E[d + 1] \in Nat
      BY <1>2, <3>1
    <3>6. CASE c <= d
      BY <2>2, <3>1, <3>3, <3>4, <3>5, <3>6
    <3>7. CASE ~(c <= d)
      BY <1>1, <3>1, <3>3, <3>7
    <3> QED
      BY <3>6, <3>7
  <2>3. \A d \in 0 .. n : d \in S
    <3> HIDE DEF S
    <3> QED
      BY <1>1, <2>1, <2>2, UpTo
  <2> QED
    BY <2>3
<1>6. ASSUME NEW c \in 1 .. n
      PROVE  /\ c - 1 \in 0 .. n /\ c \in 0 .. n /\ n \in 0 .. n
             /\ E[c - 1] \in Nat /\ E[c] \in Nat /\ E[n] \in Nat /\ E[c] <= E[n]
             /\ E[c] = E[c - 1] + Len(f[c].instrs) + 1 /\ Len(f[c].instrs) \in Nat
  <2>1. c - 1 \in 0 .. n /\ c \in 0 .. n /\ n \in 0 .. n /\ c <= n
    BY <1>1
  <2> QED
    BY <1>1, <1>2, <1>5, <2>1
<1>7. Top(f) \in Nat
  BY <1>1, <1>2, <1>4
<1>8. ASSUME NEW c \in DOMAIN f
      PROVE  /\ LayoutStart(f, c) \in 0 .. Top(f)
             /\ LayoutEnd(f, c) \in 0 .. Top(f)
             /\ LayoutEnd(f, c) = LayoutStart(f, c) + Len(f[c].instrs)
             /\ \A k \in Positions(f[c]) : At(f, c, k) \in LayoutStart(f, c) .. LayoutEnd(f, c) - 1
  <2>1. /\ LayoutStart(f, c) = E[c - 1] /\ LayoutEnd(f, c) = E[c - 1] + Len(f[c].instrs)
        /\ E[c - 1] \in Nat /\ Len(f[c].instrs) \in Nat /\ E[n] \in Nat
        /\ E[c - 1] + Len(f[c].instrs) + 1 <= E[n]
    BY <1>1, <1>3, <1>6
  <2>2. ASSUME NEW k \in Positions(f[c])
        PROVE  At(f, c, k) \in LayoutStart(f, c) .. LayoutEnd(f, c) - 1
    <3>1. k \in 1 .. Len(f[c].instrs)
      BY CodeIs
    <3>2. At(f, c, k) = LayoutStart(f, c) + k - 1
      BY DEF At
    <3> QED
      BY <2>1, <3>1, <3>2
  <2> QED
    BY <1>4, <2>1, <2>2
<1>9. ASSUME NEW c \in DOMAIN f, NEW d \in DOMAIN f, c < d
      PROVE  LayoutEnd(f, c) < LayoutStart(f, d)
  <2>1. d - 1 \in 0 .. n /\ c \in 0 .. n /\ c <= d - 1
    BY <1>1, <1>9
  <2>2. E[c] <= E[d - 1] /\ E[d - 1] \in Nat
    BY <1>2, <1>5, <2>1
  <2>a. /\ LayoutStart(f, d) = E[d - 1] /\ LayoutEnd(f, c) = E[c - 1] + Len(f[c].instrs)
        /\ E[c] = E[c - 1] + Len(f[c].instrs) + 1 /\ E[c - 1] \in Nat /\ Len(f[c].instrs) \in Nat
    <3>1. c \in 1 .. n
      BY <1>1
    <3> QED
      BY <1>3, <1>6, <3>1
  <2>3. LayoutEnd(f, c) < E[c] /\ LayoutStart(f, d) = E[d - 1] /\ LayoutEnd(f, c) \in Nat /\ E[c] \in Nat
    BY <2>a
  <2> QED
    BY <2>2, <2>3
<1> QED
  BY <1>7, <1>8, <1>9

(* One index is one instruction. *)
LEMMA IndexIsOnce ==
  ASSUME NEW f \in Functions, NEW c \in DOMAIN f, NEW d \in DOMAIN f,
         NEW k \in Positions(f[c]), NEW j \in Positions(f[d]), At(f, c, k) = At(f, d, j)
  PROVE  c = d /\ k = j
<1>1. /\ DOMAIN f = 1 .. Len(f) /\ Len(f) \in Nat
      /\ k \in 1 .. Len(f[c].instrs) /\ j \in 1 .. Len(f[d].instrs)
      /\ Len(f[c].instrs) \in Nat /\ Len(f[d].instrs) \in Nat
  BY CodeIs
<1>2. /\ At(f, c, k) \in LayoutStart(f, c) .. LayoutEnd(f, c) - 1
      /\ At(f, d, j) \in LayoutStart(f, d) .. LayoutEnd(f, d) - 1
      /\ LayoutStart(f, c) \in Nat /\ LayoutStart(f, d) \in Nat
      /\ LayoutEnd(f, c) \in Nat /\ LayoutEnd(f, d) \in Nat
      /\ c < d => LayoutEnd(f, c) < LayoutStart(f, d)
      /\ d < c => LayoutEnd(f, d) < LayoutStart(f, c)
  BY LayoutIs
<1>3. ~(c < d) /\ ~(d < c)
  BY <1>2
<1>4. c = d
  BY <1>1, <1>3
<1>5. At(f, c, k) = LayoutStart(f, c) + k - 1 /\ At(f, d, j) = LayoutStart(f, d) + j - 1
  BY DEF At
<1>6. k = j
  BY <1>1, <1>2, <1>4, <1>5
<1> QED
  BY <1>4, <1>6

-----------------------------------------------------------------------------
(* Sorting by start, then by number, lists every register once. *)
LEMMA OrderIs ==
  ASSUME NEW ranges_, IsFiniteSet(DOMAIN ranges_), DOMAIN ranges_ \subseteq Nat,
         \A v \in DOMAIN ranges_ : ranges_[v].start \in Nat
  PROVE  /\ Cardinality(DOMAIN ranges_) \in Nat
         /\ Order(ranges_) \in [1 .. Cardinality(DOMAIN ranges_) -> DOMAIN ranges_]
         /\ \A v \in DOMAIN ranges_ :
               \E i \in 1 .. Cardinality(DOMAIN ranges_) : Order(ranges_)[i] = v
         /\ \A i, j \in 1 .. Cardinality(DOMAIN ranges_) :
               Order(ranges_)[i] = Order(ranges_)[j] => i = j
         /\ \A i, j \in 1 .. Cardinality(DOMAIN ranges_) :
               i <= j => ranges_[Order(ranges_)[i]].start <= ranges_[Order(ranges_)[j]].start
<1> DEFINE D == DOMAIN ranges_
           n == Cardinality(D)
           before(v, w) == \/ ranges_[v].start < ranges_[w].start
                           \/ ranges_[v].start = ranges_[w].start /\ v < w
           Ahead(v) == {w \in D : before(w, v)}
           place(v) == Cardinality({w \in D : before(w, v)}) + 1
           order_ == Order(ranges_)
<1>1. n \in Nat
  BY FS_CardinalityType
<1>2. order_ = [i \in 1 .. n |-> CHOOSE v \in D : place(v) = i]
  BY DEF Order
<1>3. /\ \A v \in D : ~before(v, v)
      /\ \A u, v, w \in D : before(u, v) /\ before(v, w) => before(u, w)
      /\ \A v, w \in D : v = w \/ before(v, w) \/ before(w, v)
  OBVIOUS
<1>4. \A v, w \in D : before(v, w) => ranges_[v].start <= ranges_[w].start
  OBVIOUS
<1>5. \A v, w \in D : w \in Ahead(v) <=> before(w, v)
  OBVIOUS
<1>b. \A v : place(v) = Cardinality(Ahead(v)) + 1
  OBVIOUS
<1> HIDE DEF before, place
<1>6. ASSUME NEW v \in D
      PROVE  /\ IsFiniteSet(Ahead(v)) /\ Cardinality(Ahead(v)) \in Nat
             /\ Cardinality(Ahead(v)) <= n - 1
  <2>1. Ahead(v) \in SUBSET D /\ Ahead(v) \in SUBSET (D \ {v})
    BY <1>3
  <2>2. IsFiniteSet(D \ {v}) /\ Cardinality(D \ {v}) = n - 1
    BY FS_RemoveElement
  <2>3. IsFiniteSet(Ahead(v)) /\ Cardinality(Ahead(v)) <= n - 1
    BY <2>1, <2>2, FS_Subset
  <2> QED
    BY <2>3, FS_CardinalityType
<1>7. ASSUME NEW v \in D, NEW w \in D, before(v, w) PROVE place(v) < place(w)
  <2>1. Ahead(v) \cup {v} \in SUBSET Ahead(w) /\ v \notin Ahead(v)
    BY <1>3, <1>7
  <2>2. Cardinality(Ahead(v) \cup {v}) = Cardinality(Ahead(v)) + 1
    BY <1>6, <2>1, FS_AddElement
  <2>3. Cardinality(Ahead(v) \cup {v}) <= Cardinality(Ahead(w))
    BY <1>6, <2>1, FS_Subset
  <2> HIDE DEF Ahead, n, D
  <2>4. Cardinality(Ahead(v)) \in Nat /\ Cardinality(Ahead(w)) \in Nat
    BY <1>6
  <2> QED
    BY <1>b, <2>2, <2>3, <2>4
<1>8. ASSUME NEW v \in D PROVE place(v) \in 1 .. n
  <2> HIDE DEF Ahead, n, D
  <2> QED
    BY <1>1, <1>6, <1>b
<1> HIDE DEF place, Ahead, n, D
<1> DEFINE P == [v \in D |-> place(v)]
<1>9. \A v, w \in D : place(v) = place(w) => v = w
  <2> TAKE v, w \in D
  <2>1. before(v, w) => place(v) < place(w)
    BY <1>7
  <2>2. before(w, v) => place(w) < place(v)
    BY <1>7
  <2>3. place(v) \in 1 .. n /\ place(w) \in 1 .. n
    BY <1>8
  <2> QED
    BY <1>3, <2>1, <2>2, <2>3
<1>10. P \in Injection(D, 1 .. n)
  <2>1. P \in [D -> 1 .. n]
    BY <1>8
  <2>2. \A v, w \in D : P[v] = P[w] => v = w
    BY <1>9
  <2> HIDE DEF P
  <2> QED
    BY <2>1, <2>2 DEF Injection, IsInjective
<1>11. P \in Surjection(D, 1 .. n)
  <2>1. IsFiniteSet(1 .. n) /\ Cardinality(1 .. n) = n
    BY <1>1, FS_Interval
  <2>2. Cardinality(D) = n
    BY DEF n
  <2> HIDE DEF P
  <2> QED
    BY <1>10, <2>1, <2>2, FS_Injection
<1>12. \A i \in 1 .. n : \E v \in D : place(v) = i
  <2>1. \A i \in 1 .. n : \E v \in D : P[v] = i
    <3> HIDE DEF P
    <3> QED
      BY <1>11 DEF Surjection
  <2> QED
    BY <2>1
<1> HIDE DEF P, order_
<1>13. \A i \in 1 .. n : order_[i] \in D /\ place(order_[i]) = i
  <2> TAKE i \in 1 .. n
  <2>1. order_[i] = CHOOSE v \in D : place(v) = i
    BY <1>2
  <2> QED
    BY <1>12, <2>1
<1>14. order_ \in [1 .. n -> D]
  BY <1>2, <1>13
<1>15. \A v \in D : \E i \in 1 .. n : order_[i] = v
  BY <1>8, <1>9, <1>13
<1>16. \A i, j \in 1 .. n : order_[i] = order_[j] => i = j
  BY <1>13
<1>17. ASSUME NEW i \in 1 .. n, NEW j \in 1 .. n, i <= j
       PROVE  ranges_[order_[i]].start <= ranges_[order_[j]].start
  <2>1. order_[i] \in D /\ order_[j] \in D /\ place(order_[i]) = i /\ place(order_[j]) = j
    BY <1>13
  <2>2. ~before(order_[j], order_[i])
    <3>1. before(order_[j], order_[i]) => j < i
      BY <1>7, <2>1
    <3> QED
      BY <1>1, <1>17, <3>1
  <2>3. CASE before(order_[i], order_[j])
    BY <1>4, <2>1, <2>3
  <2>4. CASE order_[i] = order_[j]
    <3>1. ranges_[order_[i]].start \in Nat
      BY <2>1 DEF D
    <3> QED
      BY <2>4, <3>1
  <2> QED
    BY <1>3, <2>1, <2>2, <2>3, <2>4
<1> QED
  BY <1>1, <1>14, <1>15, <1>16, <1>17 DEF n, D, order_

-----------------------------------------------------------------------------
(* The function as `live_intervals` describes it to the allocator. *)
Compiled ==
    /\ func \in Functions
    /\ live_in = LiveIn(func)
    /\ live_out = [c \in DOMAIN func |-> UNION {live_in[s] : s \in func[c].succ}]
    /\ ranges = Ranges(func, live_in, live_out)
    /\ order = Order(ranges)
    /\ intervals = [i \in DOMAIN order |-> ranges[order[i]]]

ExtentOf(v) == Extent(func, live_in, live_out, v)

(* The instruction at position k of block c writes v at index x. *)
WritesAt(c, k, v, x) ==
    c \in DOMAIN func /\ k \in Positions(func[c]) /\ Wrote(func[c], k) = v /\ At(func, c, k) = x

(* Registers are numbers. *)
LEMMA RegistersAre ==
  ASSUME NEW f \in Functions
  PROVE  VRegs(f) \subseteq Nat \ {0} /\ IsFiniteSet(VRegs(f))
<1>1. /\ IsFiniteSet(VRegs(f))
      /\ \A c \in DOMAIN f :
            /\ f[c].params = {}
            /\ f[c].uses \subseteq Nat \ {0}
            /\ \A k \in Positions(f[c]) :
                  Wrote(f[c], k) \in Nat /\ Read(f[c], k) \subseteq Nat \ {0}
  BY CodeIs DEF IsCode
<1>2. ASSUME NEW c \in DOMAIN f
      PROVE  Written(f[c]) \subseteq Nat \ {0} /\ UpwardExposed(f[c]) \subseteq Nat \ {0}
  <2>1. Written(f[c]) \subseteq Nat \ {0}
    BY <1>1 DEF Written
  <2>2. UpwardExposed(f[c]) \subseteq Nat \ {0}
    BY <1>1 DEF UpwardExposed
  <2> QED
    BY <2>1, <2>2
<1> QED
  BY <1>1, <1>2 DEF VRegs

(* What an interval is made of, one kind of mention at a time. *)
LEMMA ExtentHas ==
  ASSUME NEW c \in DOMAIN func, NEW v
  PROVE  /\ v \in live_in[c] => LayoutStart(func, c) \in ExtentOf(v)
         /\ v \in live_out[c] \cup func[c].uses => LayoutEnd(func, c) \in ExtentOf(v)
         /\ \A k \in Positions(func[c]) :
               v \in Read(func[c], k) \cup {Wrote(func[c], k)} => At(func, c, k) \in ExtentOf(v)
  BY DEF ExtentOf, Extent

(* Every index of an interval lies within the function. *)
LEMMA ExtentWithin ==
  ASSUME Compiled, NEW v
  PROVE  ExtentOf(v) \in SUBSET (0 .. Top(func))
<1>1. func \in Functions
  BY DEF Compiled
<1>2. /\ Top(func) \in Nat
      /\ \A c \in DOMAIN func :
            /\ LayoutStart(func, c) \in 0 .. Top(func) /\ LayoutEnd(func, c) \in 0 .. Top(func)
            /\ \A k \in Positions(func[c]) :
                  At(func, c, k) \in LayoutStart(func, c) .. LayoutEnd(func, c) - 1
  BY <1>1, LayoutIs
<1>3. \A c \in DOMAIN func : \A k \in Positions(func[c]) : At(func, c, k) \in 0 .. Top(func)
  BY <1>2
<1> QED
  BY <1>2, <1>3 DEF ExtentOf, Extent

(* The interval of a register covers every mention of it, and starts where   *)
(* it is written.                                                           *)
LEMMA RangeIs ==
  ASSUME Compiled, NEW v \in VRegs(func)
  PROVE  /\ ranges[v] \in Scan!Interval
         /\ ranges[v].start \in ExtentOf(v) /\ ranges[v].end \in ExtentOf(v)
         /\ \A x \in ExtentOf(v) : ranges[v].start <= x /\ x <= ranges[v].end
         /\ \E c \in DOMAIN func : \E k \in Positions(func[c]) : WritesAt(c, k, v, ranges[v].start)
         /\ ranges[v].crosses_call <=>
               \E x \in CallSites(func) : ranges[v].start < x /\ x < ranges[v].end
<1>1. func \in Functions /\ Top(func) \in Nat
  BY LayoutIs DEF Compiled
<1>2. /\ ranges[v].start = Min(ExtentOf(v)) /\ ranges[v].end = Max(ExtentOf(v))
      /\ ranges[v].crosses_call = CrossesCall(func, Min(ExtentOf(v)), Max(ExtentOf(v)))
      /\ ranges[v] = [start |-> ranges[v].start, end |-> ranges[v].end,
                      crosses_call |-> ranges[v].crosses_call]
  BY DEF Compiled, Ranges, ExtentOf
<1>3. ExtentOf(v) \in SUBSET (0 .. Top(func))
  BY ExtentWithin
<1>4. PICK c \in DOMAIN func : \E k \in Positions(func[c]) :
         Wrote(func[c], k) = v /\ \A x \in ExtentOf(v) : At(func, c, k) <= x
  <2>1. DefinedFirst(func)
    BY <1>1, CodeIs
  <2>2. /\ live_in = LiveIn(func)
        /\ live_out = [c \in DOMAIN func |-> UNION {live_in[s] : s \in func[c].succ}]
    BY DEF Compiled
  <2> QED
    BY <2>1, <2>2 DEF DefinedFirst, ExtentOf
<1>a. PICK k \in Positions(func[c]) :
         Wrote(func[c], k) = v /\ \A x \in ExtentOf(v) : At(func, c, k) <= x
  BY <1>4
<1>5. At(func, c, k) \in ExtentOf(v)
  BY <1>a, ExtentHas
<1>6. /\ Min(ExtentOf(v)) \in ExtentOf(v) /\ \A x \in ExtentOf(v) : Min(ExtentOf(v)) <= x
      /\ Max(ExtentOf(v)) \in ExtentOf(v) /\ \A x \in ExtentOf(v) : x <= Max(ExtentOf(v))
  <2> DEFINE P == ExtentOf(v)
  <2> HIDE DEF P
  <2>1. P \in SUBSET (0 .. Top(func)) /\ At(func, c, k) \in P
    BY <1>3, <1>5 DEF P
  <2>2. Min(P) \in P /\ (\A x \in P : Min(P) <= x) /\ Max(P) \in P /\ (\A x \in P : x <= Max(P))
    BY <1>1, <2>1, BoundsOf
  <2> QED
    BY <2>2 DEF P
<1>7. At(func, c, k) = ranges[v].start
  <2>1. At(func, c, k) \in 0 .. Top(func) /\ Min(ExtentOf(v)) \in 0 .. Top(func)
    BY <1>3, <1>5, <1>6
  <2>2. At(func, c, k) <= Min(ExtentOf(v)) /\ Min(ExtentOf(v)) <= At(func, c, k)
    BY <1>a, <1>5, <1>6
  <2> QED
    BY <1>1, <1>2, <2>1, <2>2
<1>8. ranges[v] \in Scan!Interval
  <2>1. ranges[v].start \in Nat /\ ranges[v].end \in Nat
    BY <1>1, <1>2, <1>3, <1>6
  <2>2. ranges[v].crosses_call \in BOOLEAN
    BY <1>2 DEF CrossesCall
  <2> QED
    BY <1>2, <2>1, <2>2 DEF Scan!Interval
<1>9. WritesAt(c, k, v, ranges[v].start)
  BY <1>a, <1>7 DEF WritesAt
<1>10. ranges[v].crosses_call <=>
          \E x \in CallSites(func) : ranges[v].start < x /\ x < ranges[v].end
  BY <1>2 DEF CrossesCall
<1> QED
  BY <1>2, <1>6, <1>8, <1>9, <1>10

(* The allocator is handed every register once, by the start of its interval.*)
LEMMA CompiledIs ==
  ASSUME Compiled
  PROVE  /\ Scan!Sorted(intervals)
         /\ DOMAIN ranges = VRegs(func)
         /\ DOMAIN order = 1 .. Len(intervals) /\ Len(intervals) \in Nat
         /\ \A i \in 1 .. Len(intervals) : order[i] \in VRegs(func) /\ intervals[i] = ranges[order[i]]
         /\ \A v \in VRegs(func) : \E i \in 1 .. Len(intervals) : order[i] = v
         /\ \A i, j \in 1 .. Len(intervals) : order[i] = order[j] => i = j
<1> DEFINE n == Cardinality(VRegs(func))
<1>1. /\ func \in Functions /\ order = Order(ranges)
      /\ intervals = [i \in DOMAIN order |-> ranges[order[i]]]
      /\ DOMAIN ranges = VRegs(func)
  BY DEF Compiled, Ranges
<1>2. VRegs(func) \subseteq Nat /\ IsFiniteSet(VRegs(func))
  BY <1>1, RegistersAre
<1>3. \A v \in VRegs(func) : /\ ranges[v] \in Scan!Interval
                             /\ ranges[v].start \in Nat /\ ranges[v].end \in Nat
                             /\ ranges[v].start <= ranges[v].end
  <2> TAKE v \in VRegs(func)
  <2>1. ranges[v] \in Scan!Interval /\ ranges[v].start <= ranges[v].end
    BY RangeIs
  <2> QED
    BY <2>1 DEF Scan!Interval
<1>4. /\ n \in Nat
      /\ order \in [1 .. n -> VRegs(func)]
      /\ \A v \in VRegs(func) : \E i \in 1 .. n : order[i] = v
      /\ \A i, j \in 1 .. n : order[i] = order[j] => i = j
      /\ \A i, j \in 1 .. n : i <= j => ranges[order[i]].start <= ranges[order[j]].start
  BY <1>1, <1>2, <1>3, OrderIs
<1> HIDE DEF n
<1>5. intervals = [i \in 1 .. n |-> ranges[order[i]]]
  BY <1>1, <1>4
<1>6. \A i \in 1 .. n : ranges[order[i]] \in Scan!Interval
  BY <1>3, <1>4
<1>7. intervals \in Seq(Scan!Interval) /\ Len(intervals) = n
  <2>1. intervals \in [1 .. n -> Scan!Interval]
    BY <1>5, <1>6
  <2> QED
    BY <1>4, <2>1
<1>8. \A i \in 1 .. n : order[i] \in VRegs(func) /\ intervals[i] = ranges[order[i]]
  BY <1>4, <1>5
<1>9. Scan!Sorted(intervals)
  <2>1. \A i \in 1 .. n : intervals[i].start <= intervals[i].end
    BY <1>3, <1>8
  <2>2. \A i, j \in 1 .. n : i <= j => intervals[i].start <= intervals[j].start
    BY <1>4, <1>8
  <2> QED
    BY <1>7, <2>1, <2>2 DEF Scan!Sorted
<1> QED
  BY <1>1, <1>4, <1>7, <1>8, <1>9

(* Where a register is in that list. *)
Index(v) == CHOOSE i \in DOMAIN order : order[i] = v

LEMMA IndexIs ==
  ASSUME Compiled, NEW v \in VRegs(func)
  PROVE  /\ Index(v) \in 1 .. Len(intervals) /\ order[Index(v)] = v
         /\ intervals[Index(v)] = ranges[v]
         /\ Loc(v) = locations[Index(v)]
<1>1. \E i \in DOMAIN order : order[i] = v
  BY CompiledIs
<1>2. Index(v) \in DOMAIN order /\ order[Index(v)] = v
  BY <1>1 DEF Index
<1> QED
  BY <1>2, CompiledIs DEF Loc, Index

-----------------------------------------------------------------------------
(* What is proved of Liveness, for the functions that are run here. *)
Flow == INSTANCE LivenessProofs WITH b <- 0, changed <- FALSE

(* The two instances of Cfg say the same. *)
LEMMA SameFlow ==
  /\ \A f : Flow!IsGraph(f) <=> IsGraph(f)
  /\ \A f : Flow!LiveIn(f) = LiveIn(f)
  /\ \A block : Flow!Written(block) = Written(block)
  /\ \A block : Flow!UpwardExposed(block) = UpwardExposed(block)
<1> USE DEF Flow!Written, Written, Flow!UpwardExposed, UpwardExposed, Flow!Wrote, Wrote,
            Flow!Read, Read, Flow!Positions, Positions
<1>1. \A f : Flow!IsGraph(f) <=> IsGraph(f)
  BY DEF Flow!IsGraph, IsGraph
<1>2. \A block : Flow!Written(block) = Written(block)
  OBVIOUS
<1>3. \A block : Flow!UpwardExposed(block) = UpwardExposed(block)
  OBVIOUS
<1>4. \A f : Flow!LiveIn(f) = LiveIn(f)
  BY DEF Flow!LiveIn, LiveIn, Flow!Paths, Paths, Flow!IsPath, IsPath,
         Flow!ReadsFirst, ReadsFirst, Flow!VRegs, VRegs
<1> QED
  BY <1>1, <1>2, <1>3, <1>4

(* What a block reads is live at its top, and so is what is live at the top  *)
(* of a successor and not written in between.                               *)
LEMMA LiveMeans ==
  ASSUME Compiled, NEW c \in DOMAIN func
  PROVE  /\ UpwardExposed(func[c]) \subseteq live_in[c]
         /\ live_out[c] \ Written(func[c]) \subseteq live_in[c]
         /\ \A s \in func[c].succ : s \in DOMAIN func /\ live_in[s] \subseteq live_out[c]
         /\ live_in[c] \subseteq VRegs(func)
<1>1. /\ func \in Functions /\ live_in = LiveIn(func)
      /\ live_out[c] = UNION {live_in[s] : s \in func[c].succ}
  BY DEF Compiled
<1>2. func[c].succ \subseteq DOMAIN func
  BY <1>1, CodeIs
<1>3. \A f \in Functions : Flow!IsGraph(f)
  BY SameFlow, FunctionsAreCode DEF IsCode
<1>4. ASSUME NEW v \in UpwardExposed(func[c]) PROVE v \in live_in[c]
  <2>1. v \in Flow!UpwardExposed(func[c])
    BY SameFlow
  <2>2. v \in Flow!LiveIn(func)[c]
    BY <1>1, <1>3, <2>1, Flow!ReadHere
  <2> QED
    BY <1>1, <2>2, SameFlow
<1>5. ASSUME NEW v \in live_out[c], v \notin Written(func[c]) PROVE v \in live_in[c]
  <2>1. PICK s \in func[c].succ : v \in live_in[s]
    BY <1>1
  <2>2. v \in Flow!LiveIn(func)[s] /\ v \notin Flow!Written(func[c])
    BY <1>1, <1>5, <2>1, SameFlow
  <2>3. v \in Flow!LiveIn(func)[c]
    BY <1>1, <1>3, <2>2, Flow!ReadLater
  <2> QED
    BY <1>1, <2>3, SameFlow
<1>6. \A s \in func[c].succ : live_in[s] \subseteq live_out[c]
  BY <1>1
<1>7. live_in[c] \subseteq VRegs(func)
  BY <1>1 DEF LiveIn
<1> QED
  BY <1>2, <1>4, <1>5, <1>6, <1>7

(* Every register an instruction or a terminator names is one of the function.*)
LEMMA Mentioned ==
  ASSUME Compiled, NEW c \in DOMAIN func
  PROVE  /\ func[c].uses \cup live_out[c] \subseteq VRegs(func)
         /\ \A k \in Positions(func[c]) :
               /\ Read(func[c], k) \subseteq VRegs(func)
               /\ Wrote(func[c], k) # 0 => Wrote(func[c], k) \in VRegs(func)
<1>1. func \in Functions /\ Written(func[c]) \cup UpwardExposed(func[c]) \subseteq VRegs(func)
  BY DEF Compiled, VRegs
<1>2. /\ func[c].params = {} /\ Positions(func[c]) = 1 .. Len(func[c].instrs)
      /\ Len(func[c].instrs) \in Nat /\ 0 \notin func[c].uses
      /\ \A k \in Positions(func[c]) : Read(func[c], k) \subseteq Nat \ {0}
  BY <1>1, CodeIs
<1>3. \A k \in Positions(func[c]) : Wrote(func[c], k) # 0 => Wrote(func[c], k) \in Written(func[c])
  BY DEF Written
<1>4. ASSUME NEW k \in Positions(func[c]), NEW v \in Read(func[c], k) PROVE v \in VRegs(func)
  <2>1. CASE \E j \in 1 .. k - 1 : Wrote(func[c], j) = v
    <3>1. PICK j \in 1 .. k - 1 : Wrote(func[c], j) = v
      BY <2>1
    <3>2. j \in Positions(func[c])
      BY <1>2
    <3> QED
      BY <1>1, <1>2, <1>3, <3>1, <3>2
  <2>2. CASE \A j \in 1 .. k - 1 : Wrote(func[c], j) # v
    <3>1. v \in UpwardExposed(func[c])
      BY <1>2, <2>2 DEF UpwardExposed
    <3> QED
      BY <1>1, <3>1
  <2> QED
    BY <2>1, <2>2
<1>5. func[c].uses \subseteq VRegs(func)
  BY <1>1 DEF UpwardExposed
<1>6. live_out[c] \subseteq VRegs(func)
  <2>1. live_out[c] = UNION {live_in[s] : s \in func[c].succ}
    BY DEF Compiled
  <2>2. \A s \in func[c].succ : s \in DOMAIN func /\ live_in[s] \subseteq VRegs(func)
    BY LiveMeans
  <2> QED
    BY <2>1, <2>2
<1> QED
  BY <1>1, <1>3, <1>4, <1>5, <1>6

(* What is live at the top in this sense is live by what the analysis says. *)
LEMMA LiveAtTop ==
  ASSUME Compiled, NEW c \in DOMAIN func
  PROVE  LiveAt(c, 1) \subseteq live_in[c]
<1> SUFFICES ASSUME NEW v \in LiveAt(c, 1) PROVE v \in live_in[c]
  OBVIOUS
<1>1. func \in Functions /\ v \in VRegs(func)
  BY DEF Compiled, LiveAt
<1>2. /\ func[c].params = {} /\ Positions(func[c]) = 1 .. Len(func[c].instrs)
  BY <1>1, CodeIs
<1>3. CASE \E j \in Positions(func[c]) :
              v \in Read(func[c], j) /\ \A i \in 1 .. j - 1 : Wrote(func[c], i) # v
  <2>1. v \in UpwardExposed(func[c])
    BY <1>2, <1>3 DEF UpwardExposed
  <2> QED
    BY <2>1, LiveMeans
<1>4. CASE /\ v \in func[c].uses \cup live_out[c]
           /\ \A i \in 1 .. Len(func[c].instrs) : Wrote(func[c], i) # v
  <2>1. v \notin Written(func[c])
    BY <1>2, <1>4 DEF Written
  <2>2. v \in func[c].uses => v \in UpwardExposed(func[c])
    BY <2>1 DEF UpwardExposed
  <2> QED
    BY <1>4, <2>1, <2>2, LiveMeans
<1> QED
  BY <1>3, <1>4 DEF LiveAt

(* One instruction back: all but what it writes was live before it too. *)
LEMMA LiveBefore ==
  ASSUME Compiled, NEW c \in DOMAIN func, NEW k \in Positions(func[c]),
         NEW v \in LiveAt(c, k + 1), v # Wrote(func[c], k)
  PROVE  v \in LiveAt(c, k)
<1>1. func \in Functions
  BY DEF Compiled
<1>2. /\ Positions(func[c]) = 1 .. Len(func[c].instrs) /\ Len(func[c].instrs) \in Nat
  BY <1>1, CodeIs
<1>3. CASE \E j \in Positions(func[c]) :
              /\ k + 1 <= j /\ v \in Read(func[c], j)
              /\ \A i \in k + 1 .. j - 1 : Wrote(func[c], i) # v
  <2>1. PICK j \in Positions(func[c]) :
              /\ k + 1 <= j /\ v \in Read(func[c], j)
              /\ \A i \in k + 1 .. j - 1 : Wrote(func[c], i) # v
    BY <1>3
  <2>2. k <= j /\ \A i \in k .. j - 1 : i = k \/ i \in k + 1 .. j - 1
    BY <1>2, <2>1
  <2>3. \A i \in k .. j - 1 : Wrote(func[c], i) # v
    BY <2>1, <2>2
  <2> QED
    BY <2>1, <2>2, <2>3 DEF LiveAt
<1>4. CASE /\ v \in func[c].uses \cup live_out[c]
           /\ \A i \in k + 1 .. Len(func[c].instrs) : Wrote(func[c], i) # v
  <2>1. \A i \in k .. Len(func[c].instrs) : i = k \/ i \in k + 1 .. Len(func[c].instrs)
    BY <1>2
  <2>2. \A i \in k .. Len(func[c].instrs) : Wrote(func[c], i) # v
    BY <1>4, <2>1
  <2> QED
    BY <1>4, <2>2 DEF LiveAt
<1> QED
  BY <1>3, <1>4 DEF LiveAt

(* A value that an instruction must leave alone has an interval that begins  *)
(* before the instruction and ends behind it.                               *)
LEMMA Spans ==
  ASSUME Compiled, NEW c \in DOMAIN func, NEW k \in Positions(func[c]),
         NEW v \in LiveAt(c, k + 1), v # Wrote(func[c], k)
  PROVE  ranges[v].start < At(func, c, k) /\ At(func, c, k) < ranges[v].end
<1>1. func \in Functions /\ v \in VRegs(func)
  BY DEF Compiled, LiveAt
<1>2. /\ Positions(func[c]) = 1 .. Len(func[c].instrs) /\ Len(func[c].instrs) \in Nat
      /\ LayoutStart(func, c) \in Nat
      /\ LayoutEnd(func, c) = LayoutStart(func, c) + Len(func[c].instrs)
      /\ \A j : At(func, c, j) = LayoutStart(func, c) + j - 1
  BY <1>1, CodeIs, LayoutIs DEF At
<1>3. /\ ranges[v].start \in Nat /\ ranges[v].end \in Nat
      /\ \A x \in ExtentOf(v) : ranges[v].start <= x /\ x <= ranges[v].end
  <2>1. /\ ranges[v] \in Scan!Interval
        /\ \A x \in ExtentOf(v) : ranges[v].start <= x /\ x <= ranges[v].end
    BY <1>1, RangeIs
  <2> QED
    BY <2>1 DEF Scan!Interval
<1>4. At(func, c, k) \in Nat
  BY <1>2
<1>5. \E y \in ExtentOf(v) : y \in Nat /\ At(func, c, k) < y
  <2>1. CASE \E j \in Positions(func[c]) : k + 1 <= j /\ v \in Read(func[c], j)
    <3>1. PICK j \in Positions(func[c]) : k + 1 <= j /\ v \in Read(func[c], j)
      BY <2>1
    <3>2. At(func, c, j) \in ExtentOf(v)
      BY <3>1, ExtentHas
    <3>3. At(func, c, j) \in Nat /\ At(func, c, k) < At(func, c, j)
      BY <1>2, <3>1
    <3> QED
      BY <3>2, <3>3
  <2>2. CASE v \in func[c].uses \cup live_out[c]
    <3>1. LayoutEnd(func, c) \in ExtentOf(v)
      BY <2>2, ExtentHas
    <3>2. LayoutEnd(func, c) \in Nat /\ At(func, c, k) < LayoutEnd(func, c)
      BY <1>2
    <3> QED
      BY <3>1, <3>2
  <2> QED
    BY <2>1, <2>2 DEF LiveAt
<1>6. \E x \in ExtentOf(v) : x \in Nat /\ x <= At(func, c, k)
  <2>1. CASE v \in live_in[c]
    <3>1. LayoutStart(func, c) \in ExtentOf(v)
      BY <2>1, ExtentHas
    <3>2. LayoutStart(func, c) <= At(func, c, k)
      BY <1>2
    <3> QED
      BY <1>2, <3>1, <3>2
  <2>2. CASE \E i \in 1 .. k - 1 : Wrote(func[c], i) = v
    <3>1. PICK i \in 1 .. k - 1 : Wrote(func[c], i) = v
      BY <2>2
    <3>2. i \in Positions(func[c])
      BY <1>2
    <3>3. At(func, c, i) \in ExtentOf(v)
      BY <3>1, <3>2, ExtentHas
    <3>4. At(func, c, i) \in Nat /\ At(func, c, i) <= At(func, c, k)
      BY <1>2, <3>2
    <3> QED
      BY <3>3, <3>4
  <2>3. CASE \A i \in 1 .. k - 1 : Wrote(func[c], i) # v
    <3>1. v \in LiveAt(c, k)
      BY LiveBefore
    <3>2. v \in LiveAt(c, 1)
      <4>1. CASE \E j \in Positions(func[c]) :
                    /\ k <= j /\ v \in Read(func[c], j)
                    /\ \A i \in k .. j - 1 : Wrote(func[c], i) # v
        <5>1. PICK j \in Positions(func[c]) :
                    /\ k <= j /\ v \in Read(func[c], j)
                    /\ \A i \in k .. j - 1 : Wrote(func[c], i) # v
          BY <4>1
        <5>2. 1 <= j /\ \A i \in 1 .. j - 1 : i \in 1 .. k - 1 \/ i \in k .. j - 1
          BY <1>2, <5>1
        <5>3. \A i \in 1 .. j - 1 : Wrote(func[c], i) # v
          BY <2>3, <5>1, <5>2
        <5> QED
          BY <1>1, <5>1, <5>2, <5>3 DEF LiveAt
      <4>2. CASE /\ v \in func[c].uses \cup live_out[c]
                 /\ \A i \in k .. Len(func[c].instrs) : Wrote(func[c], i) # v
        <5>1. \A i \in 1 .. Len(func[c].instrs) : i \in 1 .. k - 1 \/ i \in k .. Len(func[c].instrs)
          BY <1>2
        <5>2. \A i \in 1 .. Len(func[c].instrs) : Wrote(func[c], i) # v
          BY <2>3, <4>2, <5>1
        <5> QED
          BY <1>1, <4>2, <5>2 DEF LiveAt
      <4> QED
        BY <3>1, <4>1, <4>2 DEF LiveAt
    <3> QED
      BY <2>1, <3>2, LiveAtTop
  <2> QED
    BY <2>2, <2>3
<1>7. ranges[v].start # At(func, c, k)
  <2>1. PICK d \in DOMAIN func : \E j \in Positions(func[d]) : WritesAt(d, j, v, ranges[v].start)
    BY <1>1, RangeIs
  <2>2. PICK j \in Positions(func[d]) : WritesAt(d, j, v, ranges[v].start)
    BY <2>1
  <2>3. ASSUME ranges[v].start = At(func, c, k) PROVE FALSE
    <3>1. At(func, c, k) = At(func, d, j) /\ Wrote(func[d], j) = v
      BY <2>2, <2>3 DEF WritesAt
    <3>2. c = d /\ k = j
      BY <1>1, <3>1, IndexIsOnce
    <3> QED
      BY <3>1, <3>2
  <2> QED
    BY <2>3
<1> QED
  BY <1>3, <1>4, <1>5, <1>6, <1>7

-----------------------------------------------------------------------------
(* What the scan has established by the time it returns. *)
ScanInv == Promised!IInv /\ Promised!DeadKeepRegister

(* Every register has a location then, which is one of those listed. *)
LEMMA LocIs ==
  ASSUME Compiled, IInv, Allocated
  PROVE  /\ next - 1 = Len(intervals) /\ Len(locations) = Len(intervals)
         /\ DOMAIN locations = 1 .. Len(intervals)
         /\ Scan!Placed = 1 .. Len(intervals)
         /\ \A v \in VRegs(func) : Loc(v) \in ToSet(locations)
<1>1. /\ next \in 1 .. Len(intervals) + 1 /\ Len(locations) = next - 1
      /\ locations \in Seq(Scan!Location) /\ Len(intervals) \in Nat
  BY CompiledIs DEF IInv, PlacedSoFar
<1>2. next - 1 = Len(intervals)
  BY <1>1 DEF Allocated
<1>3. DOMAIN locations = 1 .. Len(intervals)
  BY <1>1, <1>2
<1>4. ASSUME NEW v \in VRegs(func) PROVE Loc(v) \in ToSet(locations)
  BY <1>3, <1>4, IndexIs DEF ToSet
<1> QED
  BY <1>1, <1>2, <1>3, <1>4 DEF Scan!Placed

(* Writing an instruction's result destroys nothing that is still wanted:    *)
(* where the intervals overlap `verify` or the absence of evictions keeps    *)
(* them apart, and a result that is never read is in a register that nothing *)
(* overlapping it has.                                                      *)
LEMMA Apart ==
  ASSUME Compiled, IInv, ScanInv, Allocated, Verified \/ evicted = {},
         NEW c \in DOMAIN func, NEW k \in Positions(func[c]),
         NEW v \in LiveAt(c, k + 1), v # Wrote(func[c], k), Wrote(func[c], k) # 0
  PROVE  Loc(v) # Loc(Wrote(func[c], k))
<1> DEFINE w == Wrote(func[c], k)
           x == At(func, c, k)
           i == Index(v)
           j == Index(w)
<1>1. v \in VRegs(func) /\ w \in VRegs(func) /\ func \in Functions
  BY Mentioned DEF LiveAt, Compiled
<1>2. /\ i \in 1 .. Len(intervals) /\ j \in 1 .. Len(intervals) /\ Len(intervals) \in Nat
      /\ order[i] = v /\ order[j] = w
      /\ intervals[i] = ranges[v] /\ intervals[j] = ranges[w]
      /\ Loc(v) = locations[i] /\ Loc(w) = locations[j]
  BY <1>1, IndexIs, CompiledIs
<1>3. ranges[v].start < x /\ x < ranges[v].end
  BY Spans
<1>4. x \in ExtentOf(w)
  BY ExtentHas
<1>5. /\ ranges[w].start <= x /\ x <= ranges[w].end
      /\ ranges[w].crosses_call <=>
            \E y \in CallSites(func) : ranges[w].start < y /\ y < ranges[w].end
      /\ ranges[v] \in Scan!Interval /\ ranges[w] \in Scan!Interval
  BY <1>1, <1>4, RangeIs
<1>6. x \in Nat
  <2>1. ExtentOf(w) \in SUBSET (0 .. Top(func)) /\ Top(func) \in Nat
    BY <1>1, ExtentWithin, LayoutIs
  <2> QED
    BY <1>4, <2>1
<1>7. /\ ranges[v].start \in Nat /\ ranges[v].end \in Nat
      /\ ranges[w].start \in Nat /\ ranges[w].end \in Nat
  BY <1>5 DEF Scan!Interval
<1>8. /\ Scan!Placed = 1 .. Len(intervals) /\ next - 1 = Len(intervals)
  BY LocIs
<1>9. i # j
  BY <1>2
<1> HIDE DEF w, x, i, j
<1>10. Scan!Overlap(i, j) \/ Scan!Overlap(j, i)
  <2>1. CASE i < j
    <3>1. intervals[j].start < intervals[i].end
      BY <1>2, <1>3, <1>5, <1>6, <1>7
    <3> QED
      BY <2>1, <3>1 DEF Scan!Overlap
  <2>2. CASE j < i
    <3>1. intervals[i].start < intervals[j].end
      BY <1>2, <1>3, <1>5, <1>6, <1>7
    <3> QED
      BY <2>2, <3>1 DEF Scan!Overlap
  <2> QED
    BY <1>2, <1>9, <2>1, <2>2
<1>11. Scan!OnlyEvictionShares
  BY SameScan DEF ScanInv, Promised!IInv
<1>12. SUFFICES ASSUME locations[i] = locations[j] PROVE FALSE
  BY <1>2 DEF w
<1>13. locations[i] \in Scan!Slots /\ evicted # {} /\ Verified
  BY <1>2, <1>8, <1>10, <1>11, <1>12 DEF Scan!OnlyEvictionShares
<1>14. Scan!Overlap(i, j) /\ ~(intervals[j].start < intervals[j].end)
  <2>1. Scan!Overlap(j, i) => ~(intervals[i].start < intervals[i].end)
    BY <1>2, <1>8, <1>12, <1>13 DEF Verified
  <2>2. Scan!Overlap(i, j) => ~(intervals[j].start < intervals[j].end)
    BY <1>2, <1>8, <1>12, <1>13 DEF Verified
  <2>3. intervals[i].start < intervals[i].end
    BY <1>2, <1>3, <1>6, <1>7
  <2> QED
    BY <1>10, <2>1, <2>2, <2>3
<1>15. Promised!Dead(j)
  <2>1. ranges[w].start = ranges[w].end
    BY <1>2, <1>5, <1>6, <1>7, <1>14
  <2>2. CallSites(func) \subseteq Int
    <3>1. \A d \in DOMAIN func : \A m \in Positions(func[d]) : At(func, d, m) \in Int
      <4>1. ASSUME NEW d \in DOMAIN func, NEW m \in Positions(func[d]) PROVE At(func, d, m) \in Int
        <5>1. /\ At(func, d, m) \in LayoutStart(func, d) .. LayoutEnd(func, d) - 1
          BY <1>1, LayoutIs
        <5> QED
          BY <5>1
      <4> QED
        BY <4>1
    <3> QED
      BY <3>1 DEF CallSites
  <2>3. ~ranges[w].crosses_call
    <3>1. \A y \in CallSites(func) : ~(ranges[w].start < y /\ y < ranges[w].end)
      BY <1>7, <2>1, <2>2
    <3> QED
      BY <1>5, <3>1
  <2> QED
    BY <1>2, <2>1, <2>3 DEF Promised!Dead
<1>16. locations[j] \in Promised!Registers
  <2>1. j \in Promised!Placed
    BY <1>2, <1>8 DEF Promised!Placed, Scan!Placed
  <2> QED
    BY <1>13, <1>15, <2>1 DEF ScanInv, Promised!DeadKeepRegister
<1>17. Promised!Registers = Scan!Registers
  BY DEF Promised!Registers, Promised!CallerRegs, Promised!CalleeRegs,
         Scan!Registers, Scan!CallerRegs, Scan!CalleeRegs
<1> QED
  BY <1>12, <1>13, <1>16, <1>17, PoolsAre

(* And a call destroys nothing that is still wanted. *)
LEMMA CallSpares ==
  ASSUME Compiled, IInv, ScanInv, Allocated,
         NEW c \in DOMAIN func, NEW k \in Positions(func[c]), func[c].instrs[k].call,
         NEW v \in LiveAt(c, k + 1), v # Wrote(func[c], k)
  PROVE  Loc(v) \notin ToSet(RegsOf(CallerSavedList))
<1>1. v \in VRegs(func)
  BY DEF LiveAt
<1>2. At(func, c, k) \in CallSites(func)
  BY DEF CallSites
<1>3. ranges[v].crosses_call
  BY <1>1, <1>2, RangeIs, Spans
<1>4. /\ Index(v) \in 1 .. Len(intervals) /\ intervals[Index(v)] = ranges[v]
      /\ Loc(v) = locations[Index(v)]
  BY <1>1, IndexIs
<1>5. Scan!CallSafe
  BY SameScan DEF ScanInv, Promised!IInv
<1> QED
  BY <1>3, <1>4, <1>5, LocIs, PoolsAre DEF Scan!CallSafe

-----------------------------------------------------------------------------
(* A step of the one instance of LinearScan is one of the other. *)
LEMMA SameStep == [Scan!Next]_(Scan!vars) <=> [Promised!Next]_(Promised!vars)
  BY DEF Scan!vars, Promised!vars,
         Scan!CallerRegs, Promised!CallerRegs, Scan!CalleeRegs, Promised!CalleeRegs,
         Scan!Registers, Promised!Registers,
         Scan!Next, Promised!Next, Scan!PlaceNext, Promised!PlaceNext,
         Scan!Returned, Promised!Returned, Scan!Place, Promised!Place,
         Scan!Take, Promised!Take, Scan!Steal, Promised!Steal,
         Scan!SpillSelf, Promised!SpillSelf, Scan!AllocSlot, Promised!AllocSlot,
         Scan!Spill, Promised!Spill, Scan!FreeSlots, Promised!FreeSlots,
         Scan!Live, Promised!Live, Scan!Expired, Promised!Expired,
         Scan!Held, Promised!Held, Scan!Usable, Promised!Usable,
         Scan!Stealable, Promised!Stealable, Scan!Victims, Promised!Victims

-----------------------------------------------------------------------------
(* It is in place, under an allocation without accident. *)
InPlace(c, k) == Verified \/ evicted = {} => \A v \in Needed(c, k) : holds[Loc(v)] = v

(* The run is somewhere in the function, with all that is needed in place. *)
RunsWell ==
    /\ Allocated
    /\ DOMAIN holds = ToSet(locations)
    /\ \E c \in DOMAIN func : \E k \in 1 .. Len(func[c].instrs) + 1 :
          at = <<c, k>> /\ InPlace(c, k)

RunInv == Compiled /\ IInv /\ ScanInv /\ (Running => RunsWell)

(* A step of the run changes neither the function nor where its values go. *)
LEMMA RunFrame ==
  ASSUME Compiled, IInv, ScanInv, UNCHANGED <<vars, compiled>>
  PROVE  /\ Compiled' /\ IInv' /\ ScanInv'
         /\ func' = func /\ live_in' = live_in /\ locations' = locations
         /\ Allocated' <=> Allocated
         /\ Verified' <=> Verified
         /\ evicted' = evicted
         /\ \A v : Loc(v)' = Loc(v)
         /\ \A c, k : Needed(c, k)' = Needed(c, k)
<1>1. /\ func' = func /\ live_in' = live_in /\ live_out' = live_out /\ ranges' = ranges
      /\ order' = order /\ intervals' = intervals /\ next' = next /\ locations' = locations
      /\ active' = active /\ free_slots' = free_slots /\ next_slot' = next_slot
      /\ evicted' = evicted
  BY DEF vars, compiled
<1>2. Compiled'
  BY <1>1 DEF Compiled
<1>3. IInv'
  BY StutterIInv
<1>4. ScanInv'
  <2>1. UNCHANGED Promised!vars
    BY <1>1 DEF Promised!vars
  <2>2. Promised!IInv'
    BY <2>1, PromiseApplies, Promised!NextKeepsIInv DEF ScanInv
  <2>3. Promised!DeadKeepRegister'
    BY <2>1, PromiseApplies, Promised!NextKeepsDead DEF ScanInv
  <2> QED
    BY <2>2, <2>3 DEF ScanInv
<1>5. (Allocated' <=> Allocated) /\ \A v : Loc(v)' = Loc(v)
  BY <1>1 DEF Allocated, Loc
<1>6. Verified' <=> Verified
  BY <1>1 DEF Verified, Scan!Overlap, Scan!CallSafe, Scan!Placed, Scan!CallerRegs
<1>7. \A c, k : Needed(c, k)' = Needed(c, k)
  BY <1>1 DEF Needed, LiveAt
<1> QED
  BY <1>1, <1>2, <1>3, <1>4, <1>5, <1>6, <1>7

(* A turn of the allocator, while nothing runs yet. *)
LEMMA AllocateStep ==
  ASSUME RunInv, Allocate
  PROVE  RunInv'
<1>1. /\ PlaceNext /\ UNCHANGED runVars /\ Compiled /\ IInv /\ ScanInv
      /\ next <= Len(intervals) /\ intervals' = intervals
  BY DEF Allocate, RunInv, PlaceNext
<1>2. Len(intervals) \in Nat /\ next \in Nat
  BY <1>1, CompiledIs DEF IInv, PlacedSoFar
<1>3. ~Running
  BY <1>1, <1>2 DEF RunInv, RunsWell, Allocated
<1>4. ~Running'
  BY <1>1, <1>3 DEF runVars, Running
<1>5. Compiled'
  BY <1>1 DEF Compiled, runVars, compiled
<1>6. IInv'
  BY <1>1, PlaceNextIInv
<1>7. [Scan!Next]_(Scan!vars)
  BY <1>1, StepImplements DEF Next
<1>8. [Promised!Next]_(Promised!vars)
  BY <1>7, SameStep
<1>9. Promised!IInv'
  BY <1>1, <1>8, PromiseApplies, Promised!NextKeepsIInv DEF ScanInv
<1>10. Promised!DeadKeepRegister'
  BY <1>1, <1>8, PromiseApplies, Promised!NextKeepsDead DEF ScanInv
<1> QED
  BY <1>4, <1>5, <1>6, <1>9, <1>10 DEF RunInv, ScanInv

(* Nothing is needed at the entry. *)
LEMMA EnterStep ==
  ASSUME RunInv, Enter
  PROVE  RunInv'
<1>1. /\ Compiled /\ IInv /\ ScanInv /\ Allocated /\ UNCHANGED <<vars, compiled>>
      /\ at' = <<1, 1>> /\ holds' = [l \in ToSet(locations) |-> 0]
  BY DEF Enter, RunInv
<1>2. /\ Compiled' /\ IInv' /\ ScanInv' /\ Allocated'
      /\ func' = func /\ locations' = locations
      /\ \A c, k : Needed(c, k)' = Needed(c, k)
  BY <1>1, RunFrame
<1>3. func \in Functions /\ live_in[1] = {}
  BY <1>1, CodeIs DEF Compiled, NothingReadUnwritten
<1>4. 1 \in DOMAIN func /\ 1 \in 1 .. Len(func[1].instrs) + 1
  <2>1. 1 \in DOMAIN func
    BY <1>3, CodeIs
  <2>2. Len(func[1].instrs) \in Nat
    BY <1>3, <2>1, CodeIs
  <2> QED
    BY <2>1, <2>2
<1>5. Needed(1, 1) = {}
  BY <1>1, <1>3, <1>4, LiveAtTop DEF Needed
<1>6. InPlace(1, 1)'
  BY <1>2, <1>5 DEF InPlace
<1>7. DOMAIN holds' = ToSet(locations')
  BY <1>1, <1>2
<1>8. RunsWell'
  BY <1>1, <1>2, <1>4, <1>6, <1>7 DEF RunsWell
<1> QED
  BY <1>2, <1>8 DEF RunInv

(* An instruction leaves in place what is needed behind it. *)
LEMMA ExecuteStep ==
  ASSUME RunInv, Execute
  PROVE  RunInv'
<1>1. /\ Compiled /\ IInv /\ ScanInv /\ RunsWell /\ Allocated /\ UNCHANGED <<vars, compiled>>
      /\ ~AtTerminator /\ at' = <<at[1], at[2] + 1>>
      /\ DOMAIN holds = ToSet(locations) /\ func \in Functions
  BY DEF Execute, RunInv, RunsWell, Compiled
<1>2. /\ Compiled' /\ IInv' /\ ScanInv' /\ Allocated'
      /\ func' = func /\ locations' = locations /\ evicted' = evicted
      /\ Verified' <=> Verified
      /\ \A v : Loc(v)' = Loc(v)
      /\ \A c, k : Needed(c, k)' = Needed(c, k)
  BY <1>1, RunFrame
<1>3. PICK c \in DOMAIN func : \E k \in 1 .. Len(func[c].instrs) + 1 :
          at = <<c, k>> /\ InPlace(c, k)
  BY <1>1 DEF RunsWell
<1>4. PICK k \in 1 .. Len(func[c].instrs) + 1 : at = <<c, k>> /\ InPlace(c, k)
  BY <1>3
<1>5. /\ Positions(func[c]) = 1 .. Len(func[c].instrs) /\ Len(func[c].instrs) \in Nat
      /\ at[1] = c /\ at[2] = k /\ Here = func[c] /\ at' = <<c, k + 1>>
  BY <1>1, <1>4, CodeIs DEF Here
<1>6. k \in Positions(func[c]) /\ k + 1 \in 1 .. Len(func[c].instrs) + 1 /\ k + 1 # 1
  BY <1>1, <1>5 DEF AtTerminator
<1> DEFINE w == Wrote(func[c], k)
           gone == ToSet(RegsOf(CallerSavedList))
           survives(l) == ~func[c].instrs[k].call \/ l \notin gone
           after == [l \in DOMAIN holds |-> IF survives(l) THEN holds[l] ELSE 0]
<1>7. holds' = IF w = 0 THEN after ELSE [after EXCEPT ![Loc(w)] = w]
  BY <1>5 DEF Execute, Wrote
<1>8. DOMAIN holds' = ToSet(locations)
  BY <1>1, <1>7
<1>9. ASSUME Verified \/ evicted = {}, NEW v \in Needed(c, k + 1)
      PROVE  holds'[Loc(v)] = v
  <2>1. v \in LiveAt(c, k + 1) /\ v \in VRegs(func)
    BY <1>6 DEF Needed, LiveAt
  <2>2. Loc(v) \in DOMAIN holds
    BY <1>1, <2>1, LocIs
  <2>3. CASE v = w
    <3>1. w # 0
      BY <1>1, <2>1, <2>3, RegistersAre
    <3> HIDE DEF w
    <3> QED
      BY <1>7, <2>2, <2>3, <3>1
  <2>4. CASE v # w
    <3>1. holds[Loc(v)] = v
      <4>1. v \in LiveAt(c, k)
        BY <1>1, <1>6, <2>1, <2>4, LiveBefore
      <4> QED
        BY <1>4, <1>9, <4>1 DEF InPlace, Needed
    <3>2. survives(Loc(v))
      BY <1>1, <1>6, <2>1, <2>4, CallSpares
    <3>3. w # 0 => Loc(v) # Loc(w)
      BY <1>1, <1>6, <1>9, <2>1, <2>4, Apart
    <3>4. after[Loc(v)] = v
      BY <2>2, <3>1, <3>2
    <3> HIDE DEF w, after
    <3> QED
      BY <1>7, <3>3, <3>4
  <2> QED
    BY <2>3, <2>4
<1>10. InPlace(c, k + 1)'
  <2> HIDE DEF w, after
  <2> QED
    BY <1>2, <1>9 DEF InPlace
<1>11. RunsWell'
  BY <1>2, <1>5, <1>6, <1>8, <1>10 DEF RunsWell
<1> QED
  BY <1>2, <1>11 DEF RunInv

(* What a successor needs is live where the block is left. *)
LEMMA JumpStep ==
  ASSUME RunInv, Jump
  PROVE  RunInv'
<1>1. /\ Compiled /\ IInv /\ ScanInv /\ RunsWell /\ UNCHANGED <<vars, compiled, holds>>
      /\ AtTerminator /\ func \in Functions /\ DOMAIN holds = ToSet(locations)
  BY DEF Jump, RunInv, RunsWell, Compiled
<1>2. /\ Compiled' /\ IInv' /\ ScanInv' /\ (Allocated' <=> Allocated)
      /\ func' = func /\ locations' = locations /\ evicted' = evicted /\ holds' = holds
      /\ Verified' <=> Verified
      /\ \A v : Loc(v)' = Loc(v)
      /\ \A c, k : Needed(c, k)' = Needed(c, k)
  BY <1>1, RunFrame
<1>3. PICK c \in DOMAIN func : \E k \in 1 .. Len(func[c].instrs) + 1 :
          at = <<c, k>> /\ InPlace(c, k)
  BY <1>1 DEF RunsWell
<1>4. PICK k \in 1 .. Len(func[c].instrs) + 1 : at = <<c, k>> /\ InPlace(c, k)
  BY <1>3
<1>5. /\ Positions(func[c]) = 1 .. Len(func[c].instrs) /\ Len(func[c].instrs) \in Nat
      /\ at[1] = c /\ at[2] = k /\ Here = func[c]
  BY <1>1, <1>4, CodeIs DEF Here
<1>6. k = Len(func[c].instrs) + 1
  BY <1>1, <1>5 DEF AtTerminator
<1>7. PICK s \in func[c].succ : at' = <<s, 1>>
  BY <1>5 DEF Jump
<1>8. s \in DOMAIN func /\ live_in[s] \subseteq live_out[c]
  BY <1>1, LiveMeans
<1>9. Needed(s, 1) \subseteq Needed(c, k)
  <2>1. Needed(s, 1) \subseteq live_out[c]
    BY <1>1, <1>8, LiveAtTop DEF Needed
  <2>2. live_out[c] \subseteq VRegs(func)
    BY <1>1, Mentioned
  <2>3. live_out[c] \subseteq LiveAt(c, k)
    BY <1>5, <1>6, <2>2 DEF LiveAt
  <2> QED
    BY <2>1, <2>3 DEF Needed
<1>10. InPlace(s, 1)
  BY <1>4, <1>9 DEF InPlace
<1>11. InPlace(s, 1)'
  BY <1>2, <1>10 DEF InPlace
<1>12. 1 \in 1 .. Len(func[s].instrs) + 1
  <2>1. Len(func[s].instrs) \in Nat
    BY <1>1, <1>8, CodeIs
  <2> QED
    BY <2>1
<1>13. RunsWell'
  BY <1>1, <1>2, <1>7, <1>8, <1>11, <1>12 DEF RunsWell
<1> QED
  BY <1>2, <1>13 DEF RunInv

(* Nothing changes. *)
LEMMA IdleStep ==
  ASSUME RunInv, UNCHANGED allVars
  PROVE  RunInv'
<1>1. /\ Compiled /\ IInv /\ ScanInv /\ UNCHANGED <<vars, compiled>> /\ at' = at /\ holds' = holds
  BY DEF RunInv, allVars, runVars
<1>2. /\ Compiled' /\ IInv' /\ ScanInv' /\ (Allocated' <=> Allocated)
      /\ func' = func /\ locations' = locations /\ evicted' = evicted
      /\ Verified' <=> Verified
      /\ \A v : Loc(v)' = Loc(v)
      /\ \A c, k : Needed(c, k)' = Needed(c, k)
  BY <1>1, RunFrame
<1>3. \A c, k : InPlace(c, k)' <=> InPlace(c, k)
  BY <1>1, <1>2 DEF InPlace
<1>4. RunsWell' <=> RunsWell
  BY <1>1, <1>2, <1>3 DEF RunsWell
<1> QED
  BY <1>1, <1>2, <1>4 DEF RunInv, Running

LEMMA RunNextInv == RunInv /\ [RunNext]_allVars => RunInv'
  BY AllocateStep, EnterStep, ExecuteStep, JumpStep, IdleStep DEF RunNext, ReturnFromFunction

LEMMA CompileInitInv == CompileInit => RunInv
<1> SUFFICES ASSUME CompileInit PROVE RunInv
  OBVIOUS
<1>1. Compiled /\ InitScan /\ ~Running
  BY DEF CompileInit, Compiled, Running
<1>2. Scan!Sorted(intervals)
  BY <1>1, CompiledIs
<1>3. IInv
  BY <1>1, <1>2, InitScanIInv
<1>4. ScanInv
  <2>1. Promised!Sorted(intervals)
    BY <1>2 DEF Promised!Sorted, Scan!Sorted, Promised!Interval, Scan!Interval
  <2>2. /\ next = 1 /\ {entry.vreg : entry \in ToSet(active)} = {} /\ locations = << >>
        /\ ToSet(free_slots) = {} /\ next_slot = 0 /\ evicted = {}
    BY <1>1 DEF InitScan, ToSet
  <2> QED
    BY <2>1, <2>2, PromiseApplies, Promised!StartEstablishesIInv DEF ScanInv
<1> QED
  BY <1>1, <1>3, <1>4 DEF RunInv

LEMMA RunInvariance == RunSpec => []RunInv
  BY CompileInitInv, RunNextInv, PTL DEF RunSpec

-----------------------------------------------------------------------------
(* What the invariant means for what is read next, and for all that is read *)
(* later.                                                                   *)
LEMMA InPlaceMeans ==
  ASSUME RunInv, Running, Verified \/ evicted = {}
  PROVE  /\ \A v \in ReadHere : holds[Loc(v)] = v
         /\ \A v \in Needed(at[1], at[2]) : holds[Loc(v)] = v
<1>1. Compiled /\ RunsWell /\ func \in Functions
  BY DEF RunInv, Compiled
<1>2. PICK c \in DOMAIN func : \E k \in 1 .. Len(func[c].instrs) + 1 :
          at = <<c, k>> /\ InPlace(c, k)
  BY <1>1 DEF RunsWell
<1>3. PICK k \in 1 .. Len(func[c].instrs) + 1 : at = <<c, k>> /\ InPlace(c, k)
  BY <1>2
<1>4. /\ Positions(func[c]) = 1 .. Len(func[c].instrs) /\ Len(func[c].instrs) \in Nat
      /\ at[1] = c /\ at[2] = k /\ Here = func[c]
  BY <1>1, <1>3, CodeIs DEF Here
<1>5. ReadHere \subseteq LiveAt(c, k)
  <2>1. CASE AtTerminator
    <3>1. ReadHere = func[c].uses /\ k > Len(func[c].instrs) /\ func[c].uses \subseteq VRegs(func)
      BY <1>1, <1>4, <2>1, Mentioned DEF ReadHere, AtTerminator
    <3> QED
      BY <1>4, <3>1 DEF LiveAt
  <2>2. CASE ~AtTerminator
    <3>1. k \in Positions(func[c]) /\ ReadHere = Read(func[c], k)
      BY <1>4, <2>2 DEF ReadHere, AtTerminator
    <3>2. Read(func[c], k) \subseteq VRegs(func)
      BY <1>1, <3>1, Mentioned
    <3>3. k <= k /\ k .. k - 1 = {}
      BY <1>4
    <3> QED
      BY <3>1, <3>2, <3>3 DEF LiveAt
  <2> QED
    BY <2>1, <2>2
<1> QED
  BY <1>3, <1>4, <1>5 DEF InPlace, Needed

(* Every function that `allocate` gives an allocation `verify` accepts runs   *)
(* right: on every path each operand finds its own value in its location,   *)
(* whatever was stolen, recycled, called or looped in between.              *)
THEOREM OperandsAlwaysSurvive == RunSpec => []OperandsSurvive
<1>1. RunInv => OperandsSurvive
  BY InPlaceMeans DEF OperandsSurvive
<1> QED
  BY <1>1, RunInvariance, PTL

(* And so does, between any two instructions, every value that is only read *)
(* further on.                                                              *)
THEOREM LiveValuesAlwaysSurvive == RunSpec => []LiveValuesSurvive
<1>1. RunInv => LiveValuesSurvive
  BY InPlaceMeans DEF LiveValuesSurvive
<1> QED
  BY <1>1, RunInvariance, PTL

(* `verify` is only needed for what is evicted: without evictions nothing is  *)
(* ever lost, never-read results included.                                  *)
THEOREM UnevictedAlwaysSurvive == RunSpec => []UnevictedSurvive
<1>1. RunInv => UnevictedSurvive
  BY InPlaceMeans DEF UnevictedSurvive
<1> QED
  BY <1>1, RunInvariance, PTL
=============================================================================
