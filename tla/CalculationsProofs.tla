------------------------ MODULE CalculationsProofs -------------------------
(***************************************************************************)
(* What the functions of the system compute, for inputs of any size:       *)
(* theorems about module Calculations, but for those about the text of     *)
(* frames, which end module StompClientProofs.  A fold is a CHOOSE of one  *)
(* that satisfies a recursive equation on the parts of a finite set, so    *)
(* what a fold gives for all of them follows in three steps: one such      *)
(* function exists, the one that is chosen satisfies the equation, and a   *)
(* set with the empty part and with each part's extension has them all.    *)
(* Induction is by the least counterexample, which there is because the    *)
(* order of the natural numbers is well-founded: the library's induction   *)
(* theorems are about predicates, those here are about sets.               *)
(***************************************************************************)
EXTENDS Calculations, Integers, FiniteSetTheorems, FunctionTheorems, SequenceTheorems,
        WellFoundedInduction, TLAPS

-----------------------------------------------------------------------------
(***************************************************************************)
(* Induction, and folds of sequences.                                      *)
(***************************************************************************)
\* A set of natural numbers with 0 and the successor of each is that of all.
LEMMA Induction ==
  ASSUME NEW S, 0 \in S, \A n \in S : n \in Nat => n + 1 \in S
  PROVE  Nat \subseteq S
<1> SUFFICES ASSUME Nat \ S # {} PROVE FALSE
  OBVIOUS
<1>1. PICK n \in Nat \ S : \A m \in Nat \ S : ~ (<<m, n>> \in OpToRel(<, Nat))
  BY NatLessThanWellFounded, WFMin
<1>2. \A m \in Nat \ S : ~ (m < n)
  BY <1>1 DEF OpToRel
<1>3. n \in Nat /\ n # 0 /\ n - 1 \in Nat /\ n - 1 < n
  <2>1. n \in Nat /\ n \notin S
    OBVIOUS
  <2>2. n # 0
    BY <2>1
  <2> QED
    BY <2>1, <2>2
<1>4. n - 1 \in S
  BY <1>2, <1>3
<1>5. (n - 1) + 1 = n
  BY <1>3
<1> QED
  BY <1>1, <1>3, <1>4, <1>5

\* The same up to a bound.
LEMMA InductionTo ==
  ASSUME NEW bound \in Nat, NEW S, 0 \in S, \A n \in 0 .. bound - 1 : n \in S => n + 1 \in S
  PROVE  0 .. bound \subseteq S
<1> DEFINE upToBound == {n \in Nat : n <= bound => n \in S}
<1>1. 0 \in upToBound
  OBVIOUS
<1>2. \A n \in upToBound : n \in Nat => n + 1 \in upToBound
  <2> TAKE n \in upToBound
  <2>1. CASE n + 1 <= bound
    <3>1. n \in 0 .. bound - 1 /\ n \in S
      BY <2>1
    <3> QED
      BY <3>1
  <2>2. CASE ~ (n + 1 <= bound)
    BY <2>2
  <2> QED
    BY <2>1, <2>2
<1> HIDE DEF upToBound
<1>3. Nat \subseteq upToBound
  BY <1>1, <1>2, Induction
<1> QED
  BY <1>3 DEF upToBound

\* What FoldLeft iterates is there: for every function from places and values
\* to values, a function of sets of places that folds them.
Folds(it, n, base, step) ==
  /\ it[{}] = base
  /\ \A s \in SUBSET (1 .. n) : s # {} => it[s] = step[Max(s)][it[s \ {Max(s)}]]

\* The last place of a set of places that has it is its greatest.
LEMMA LastIsMax ==
  ASSUME NEW n \in Nat, NEW s \in SUBSET (1 .. n + 1), n + 1 \in s
  PROVE  Max(s) = n + 1
<1>1. \A y \in s : y \in Int /\ n + 1 >= y
  OBVIOUS
<1>2. \A x \in s : (\A y \in s : x >= y) => x = n + 1
  BY <1>1
<1> QED
  BY <1>1, <1>2 DEF Max

\* Whatever the values and the steps, there is such a function.
LEMMA FoldExists ==
  ASSUME NEW n \in Nat, NEW A, NEW base \in A, NEW step \in [1 .. n -> [A -> A]]
  PROVE  \E it \in [SUBSET (1 .. n) -> A] : Folds(it, n, base, step)
<1> DEFINE S == {k \in 0 .. n : \E it \in [SUBSET (1 .. k) -> A] : Folds(it, k, base, step)}
<1>1. 0 \in S
  <2> DEFINE it == [s \in SUBSET (1 .. 0) |-> base]
  <2>1. SUBSET (1 .. 0) = {{}}
    OBVIOUS
  <2>2. it \in [SUBSET (1 .. 0) -> A] /\ Folds(it, 0, base, step)
    BY <2>1 DEF Folds
  <2> HIDE DEF it
  <2>3. 0 \in 0 .. n
    OBVIOUS
  <2> QED
    BY <2>2, <2>3
<1>2. ASSUME NEW k \in 0 .. n - 1, k \in S
      PROVE  k + 1 \in S
  <2>1. PICK it \in [SUBSET (1 .. k) -> A] : Folds(it, k, base, step)
    BY <1>2
  <2> DEFINE new == [s \in SUBSET (1 .. k + 1) |->
                       IF k + 1 \in s THEN step[k + 1][it[s \ {k + 1}]] ELSE it[s]]
  <2>2. k \in Nat /\ k + 1 \in 1 .. n
    OBVIOUS
  <2>3. ASSUME NEW s \in SUBSET (1 .. k + 1)
        PROVE  /\ s \ {k + 1} \in SUBSET (1 .. k)
               /\ k + 1 \notin s => s \in SUBSET (1 .. k)
    BY <2>2
  <2>4. new \in [SUBSET (1 .. k + 1) -> A]
    BY <2>1, <2>2, <2>3
  <2>5. ASSUME NEW s \in SUBSET (1 .. k + 1), s # {}
        PROVE  new[s] = step[Max(s)][new[s \ {Max(s)}]]
    <3>1. CASE k + 1 \in s
      <4>1. Max(s) = k + 1
        BY <2>2, <3>1, LastIsMax
      <4>2. new[s] = step[k + 1][it[s \ {k + 1}]]
        BY <3>1
      <4>3. new[s \ {k + 1}] = it[s \ {k + 1}]
        OBVIOUS
      <4> QED
        BY <4>1, <4>2, <4>3
    <3>2. CASE k + 1 \notin s
      <4>1. s \in SUBSET (1 .. k)
        BY <2>3, <3>2
      <4>2. new[s] = it[s] /\ new[s \ {Max(s)}] = it[s \ {Max(s)}]
        BY <3>2, <4>1
      <4> QED
        BY <2>1, <2>5, <4>1, <4>2 DEF Folds
    <3> QED
      BY <3>1, <3>2
  <2>6. new[{}] = base
    BY <2>1 DEF Folds
  <2>7. Folds(new, k + 1, base, step)
    BY <2>5, <2>6 DEF Folds
  <2> HIDE DEF new
  <2> QED
    BY <2>2, <2>4, <2>7
<1> HIDE DEF S
<1>3. 0 .. n \subseteq S
  BY <1>1, <1>2, InductionTo
<1>4. n \in S
  BY <1>3
<1> QED
  BY <1>4 DEF S

\* The sum of a sequence.
IsSum(it, f, seq) ==
  it = [s \in SUBSET DOMAIN seq |->
          IF s = {} THEN 0 ELSE LET x == Max(s) IN it[s \ {x}] + f[seq[x]]]

\* A sum is what the function that is chosen gives for all places.
LEMMA SumUnfolds ==
  ASSUME NEW f, NEW seq
  PROVE  Sum(f, seq) = (CHOOSE it : IsSum(it, f, seq))[DOMAIN seq]
BY DEF Sum, FoldLeft, MapThenFoldSet, IsSum

\* A set of places has a greatest one.
LEMMA MaxInSet ==
  ASSUME NEW n \in Nat, NEW s \in SUBSET (1 .. n), s # {}
  PROVE  Max(s) \in s /\ \A y \in s : y <= Max(s)
<1> DEFINE back == {n - x : x \in s}
<1>1. back \subseteq Nat /\ back # {}
  <2>1. \A x \in s : n - x \in Nat
    OBVIOUS
  <2>2. PICK x \in s : TRUE
    OBVIOUS
  <2>3. n - x \in back
    OBVIOUS
  <2> QED
    BY <2>1, <2>3
<1>2. PICK m \in back : \A y \in back : ~ (<<y, m>> \in OpToRel(<, Nat))
  BY <1>1, NatLessThanWellFounded, WFMin
<1>3. \A y \in back : ~ (y < m)
  BY <1>1, <1>2 DEF OpToRel
<1>4. PICK x \in s : m = n - x
  OBVIOUS
<1>5. \A y \in s : y <= x
  <2> TAKE y \in s
  <2>1. n - y \in back /\ y \in Int /\ x \in Int
    OBVIOUS
  <2>2. ~ (n - y < n - x)
    BY <1>3, <1>4, <2>1
  <2> QED
    BY <2>1, <2>2
<1>6. \A y \in s : x >= y
  BY <1>5
<1> QED
  BY <1>6 DEF Max

\* The sums of the first k values, each the one before it and a value more.
LEMMA SumPrefixes ==
  ASSUME NEW D, NEW f \in [D -> Nat], NEW seq \in Seq(D)
  PROVE  \E g \in [0 .. Len(seq) -> Nat] :
            /\ g[0] = 0 /\ Sum(f, seq) = g[Len(seq)]
            /\ \A k \in 1 .. Len(seq) : g[k] = g[k - 1] + f[seq[k]]
<1> DEFINE n == Len(seq)
           step == [k \in 1 .. n |-> [a \in Nat |-> a + f[seq[k]]]]
<1>1. n \in Nat /\ DOMAIN seq = 1 .. n /\ \A k \in 1 .. n : seq[k] \in D
  OBVIOUS
<1>2. step \in [1 .. n -> [Nat -> Nat]]
  BY <1>1
<1>3. PICK it \in [SUBSET (1 .. n) -> Nat] : Folds(it, n, 0, step)
  <2> HIDE DEF step, n
  <2> QED
    BY <1>1, <1>2, FoldExists
<1>4. IsSum(it, f, seq)
  <2>1. ASSUME NEW s \in SUBSET (1 .. n), s # {}
        PROVE  it[s] = it[s \ {Max(s)}] + f[seq[Max(s)]]
    <3>1. Max(s) \in 1 .. n
      BY <1>1, <2>1, MaxInSet
    <3>2. it[s \ {Max(s)}] \in Nat
      BY <1>3
    <3> QED
      BY <1>3, <2>1, <3>1, <3>2 DEF Folds
  <2>2. it[{}] = 0
    BY <1>3 DEF Folds
  <2>3. it = [s \in SUBSET (1 .. n) |-> it[s]]
    BY <1>3
  <2> QED
    BY <1>1, <2>1, <2>2, <2>3 DEF IsSum
<1> DEFINE sum == CHOOSE it_ : IsSum(it_, f, seq)
<1>5. IsSum(sum, f, seq)
  BY <1>4
<1> HIDE DEF sum
<1>6. /\ sum[{}] = 0
      /\ \A s \in SUBSET (1 .. n) : s # {} => sum[s] = sum[s \ {Max(s)}] + f[seq[Max(s)]]
  BY <1>1, <1>5 DEF IsSum
<1>7. ASSUME NEW k \in 1 .. n
      PROVE  sum[1 .. k] = sum[1 .. k - 1] + f[seq[k]]
  <2>1. k \in 1 .. k /\ 1 .. k \in SUBSET (1 .. n) /\ \A y \in 1 .. k : y \in Int /\ y <= k
    BY <1>1
  <2>2. Max(1 .. k) = k
    <3>1. Max(1 .. k) \in 1 .. k /\ \A y \in 1 .. k : y <= Max(1 .. k)
      BY <1>1, <2>1, MaxInSet
    <3>2. k <= Max(1 .. k) /\ Max(1 .. k) <= k /\ Max(1 .. k) \in Int
      BY <2>1, <3>1
    <3> QED
      BY <1>1, <3>2
  <2>3. (1 .. k) \ {k} = 1 .. k - 1
    <3>1. \A y : y \in (1 .. k) \ {k} <=> y \in 1 .. k - 1
      BY <1>1
    <3> QED
      BY <3>1
  <2>4. 1 .. k # {}
    BY <2>1
  <2> QED
    BY <1>6, <2>1, <2>2, <2>3, <2>4
<1> DEFINE g == [k \in 0 .. n |-> sum[1 .. k]]
           S == {k \in 0 .. n : sum[1 .. k] \in Nat}
<1>8. 0 \in S
  <2>1. 1 .. 0 = {} /\ 0 \in 0 .. n
    BY <1>1
  <2> QED
    BY <1>6, <2>1
<1>9. \A k \in 0 .. n - 1 : k \in S => k + 1 \in S
  <2> TAKE k \in 0 .. n - 1
  <2>1. k + 1 \in 1 .. n /\ (k + 1) - 1 = k /\ k + 1 \in 0 .. n
    BY <1>1
  <2>2. sum[1 .. k + 1] = sum[1 .. k] + f[seq[k + 1]] /\ f[seq[k + 1]] \in Nat
    BY <1>1, <1>7, <2>1
  <2> QED
    BY <2>1, <2>2
<1>10. 0 .. n \subseteq S
  <2> HIDE DEF S, n
  <2> QED
    BY <1>1, <1>8, <1>9, InductionTo
<1>11. g \in [0 .. n -> Nat]
  BY <1>10
<1>12. g[0] = 0
  <2>1. 1 .. 0 = {} /\ 0 \in 0 .. n
    BY <1>1
  <2> QED
    BY <1>6, <2>1
<1>13. Sum(f, seq) = g[n]
  <2>1. Sum(f, seq) = sum[DOMAIN seq]
    BY SumUnfolds DEF sum
  <2>2. n \in 0 .. n
    BY <1>1
  <2> QED
    BY <1>1, <2>1, <2>2
<1>14. \A k \in 1 .. n : g[k] = g[k - 1] + f[seq[k]]
  BY <1>1, <1>7
<1> HIDE DEF g
<1> QED
  BY <1>11, <1>12, <1>13, <1>14

\* With a value at the end, the sum is more by that value.
LEMMA SumAppend ==
  ASSUME NEW D, NEW f \in [D -> Nat], NEW seq \in Seq(D), NEW d \in D
  PROVE  /\ Sum(f, seq) \in Nat
         /\ Sum(f, Append(seq, d)) = Sum(f, seq) + f[d]
<1> DEFINE n == Len(seq)
           more == Append(seq, d)
<1>1. /\ n \in Nat /\ more \in Seq(D) /\ Len(more) = n + 1 /\ more[n + 1] = d
      /\ \A k \in 1 .. n : more[k] = seq[k]
  OBVIOUS
<1>2. PICK g \in [0 .. n -> Nat] : /\ g[0] = 0 /\ Sum(f, seq) = g[n]
                                   /\ \A k \in 1 .. n : g[k] = g[k - 1] + f[seq[k]]
  BY SumPrefixes
<1>3. PICK h \in [0 .. n + 1 -> Nat] : /\ h[0] = 0 /\ Sum(f, more) = h[n + 1]
                                       /\ \A k \in 1 .. n + 1 : h[k] = h[k - 1] + f[more[k]]
  <2> HIDE DEF more, n
  <2>1. PICK h \in [0 .. Len(more) -> Nat] :
            /\ h[0] = 0 /\ Sum(f, more) = h[Len(more)]
            /\ \A k \in 1 .. Len(more) : h[k] = h[k - 1] + f[more[k]]
    <3>1. more \in Seq(D)
      BY <1>1
    <3> QED
      BY <3>1, SumPrefixes
  <2> QED
    BY <1>1, <2>1
<1> HIDE DEF more
<1> DEFINE S == {k \in 0 .. n : g[k] = h[k]}
<1>4. 0 \in S
  BY <1>1, <1>2, <1>3
<1>5. \A k \in 0 .. n - 1 : k \in S => k + 1 \in S
  <2> TAKE k \in 0 .. n - 1
  <2>1. k + 1 \in 1 .. n /\ (k + 1) - 1 = k /\ k + 1 \in 0 .. n /\ k + 1 \in 1 .. n + 1
    BY <1>1
  <2>2. g[k + 1] = g[k] + f[seq[k + 1]] /\ h[k + 1] = h[k] + f[seq[k + 1]]
    BY <1>1, <1>2, <1>3, <2>1
  <2> QED
    BY <2>1, <2>2
<1>6. 0 .. n \subseteq S
  <2> HIDE DEF S, n
  <2> QED
    BY <1>1, <1>4, <1>5, InductionTo
<1>7. g[n] = h[n] /\ g[n] \in Nat
  <2>1. n \in 0 .. n
    BY <1>1
  <2> QED
    BY <1>2, <1>6, <2>1
<1>8. h[n + 1] = h[(n + 1) - 1] + f[more[n + 1]] /\ (n + 1) - 1 = n
  <2> HIDE DEF n
  <2>1. n + 1 \in 1 .. n + 1 /\ (n + 1) - 1 = n
    BY <1>1
  <2>2. \A k \in 1 .. n + 1 : h[k] = h[k - 1] + f[more[k]]
    BY <1>3
  <2> QED
    BY <2>1, <2>2
<1>9. Sum(f, more) = h[n + 1] /\ Sum(f, seq) = g[n]
  BY <1>2, <1>3
<1>10. Sum(f, more) = Sum(f, seq) + f[d] /\ Sum(f, seq) \in Nat
  BY <1>1, <1>7, <1>8, <1>9
<1> QED
  BY <1>10 DEF more

\* The same, for a value and what is summed up so far.
IsSummand(D, f, seq, d) == f \in [D -> Nat] /\ seq \in Seq(D) /\ d \in D

LEMMA SumOfOneMore ==
  ASSUME NEW D, NEW f, NEW seq, NEW d, IsSummand(D, f, seq, d)
  PROVE  Sum(f, Append(seq, d)) = Sum(f, seq) + f[d]
<1> f \in [D -> Nat] /\ seq \in Seq(D) /\ d \in D
  BY DEF IsSummand
<1> QED
  BY SumAppend, Zenon

\* The sum of nothing is 0.
LEMMA SumOfNone ==
  ASSUME NEW D, NEW f \in [D -> Nat]
  PROVE  Sum(f, <<>>) = 0
<1>1. <<>> \in Seq(D) /\ Len(<<>>) = 0
  OBVIOUS
<1>2. PICK g \in [0 .. Len(<<>>) -> Nat] : g[0] = 0 /\ Sum(f, <<>>) = g[Len(<<>>)]
  BY <1>1, SumPrefixes
<1> QED
  BY <1>1, <1>2

-----------------------------------------------------------------------------
(***************************************************************************)
(* The order of the places of a sequence.                                  *)
(***************************************************************************)
LEMMA EarlierOrder ==
  ASSUME NEW keys \in Seq(Int)
  PROVE  /\ \A i \in 1 .. Len(keys) : Earlier(keys, i) \subseteq (1 .. Len(keys)) \ {i}
         /\ \A i, j \in 1 .. Len(keys) :
              /\ i # j => i \in Earlier(keys, j) \/ j \in Earlier(keys, i)
              /\ i \in Earlier(keys, j) => Earlier(keys, i) \subseteq Earlier(keys, j)
<1>1. DOMAIN keys = 1 .. Len(keys) /\ \A i \in 1 .. Len(keys) : keys[i] \in Int
  OBVIOUS
<1>2. \A i \in 1 .. Len(keys) : Earlier(keys, i) \subseteq (1 .. Len(keys)) \ {i}
  BY <1>1 DEF Earlier
<1>3. ASSUME NEW i \in 1 .. Len(keys), NEW j \in 1 .. Len(keys), i # j
      PROVE  i \in Earlier(keys, j) \/ j \in Earlier(keys, i)
  BY <1>1, <1>3 DEF Earlier
<1>4. ASSUME NEW i \in 1 .. Len(keys), NEW j \in 1 .. Len(keys), i \in Earlier(keys, j)
      PROVE  Earlier(keys, i) \subseteq Earlier(keys, j)
  BY <1>1, <1>4 DEF Earlier
<1> QED
  BY <1>2, <1>3, <1>4

\* How many places are earlier.
Place(keys, i) == Cardinality(Earlier(keys, i))

\* Each place has a number of earlier ones of its own, from 0 on, none left out.
LEMMA Places ==
  ASSUME NEW keys \in Seq(Int)
  PROVE  /\ \A i \in 1 .. Len(keys) : /\ IsFiniteSet(Earlier(keys, i))
                                      /\ Place(keys, i) \in 0 .. Len(keys) - 1
         /\ \A i, j \in 1 .. Len(keys) :
              /\ i \in Earlier(keys, j) <=> Place(keys, i) < Place(keys, j)
              /\ Place(keys, i) = Place(keys, j) => i = j
         /\ \A k \in 0 .. Len(keys) - 1 : \E i \in 1 .. Len(keys) : Place(keys, i) = k
<1> DEFINE n == Len(keys)
           rank == [i \in 1 .. n |-> Place(keys, i)]
<1>1. n \in Nat /\ IsFiniteSet(1 .. n) /\ Cardinality(1 .. n) = n
  <2>1. n \in Nat
    OBVIOUS
  <2> HIDE DEF n
  <2>2. 1 \in Int /\ n \in Int
    BY <2>1
  <2>3. IsFiniteSet(1 .. n) /\ Cardinality(1 .. n) = IF 1 > n THEN 0 ELSE n - 1 + 1
    BY <2>2, FS_Interval
  <2> QED
    BY <2>1, <2>3
<1>2. ASSUME NEW i \in 1 .. n
      PROVE  IsFiniteSet(Earlier(keys, i)) /\ Place(keys, i) \in 0 .. n - 1
  <2>1. Earlier(keys, i) \in SUBSET ((1 .. n) \ {i})
    BY EarlierOrder
  <2>2. IsFiniteSet((1 .. n) \ {i}) /\ Cardinality((1 .. n) \ {i}) = n - 1
    BY <1>1, FS_RemoveElement
  <2>3. /\ IsFiniteSet(Earlier(keys, i)) /\ Cardinality(Earlier(keys, i)) <= n - 1
        /\ Cardinality(Earlier(keys, i)) \in Nat
    BY <2>1, <2>2, FS_Subset, FS_CardinalityType
  <2> QED
    BY <1>1, <2>3 DEF Place
<1>3. ASSUME NEW i \in 1 .. n, NEW j \in 1 .. n, i \in Earlier(keys, j)
      PROVE  Place(keys, i) < Place(keys, j)
  <2>1. Earlier(keys, i) \in SUBSET Earlier(keys, j) /\ i \notin Earlier(keys, i)
    BY <1>3, EarlierOrder
  <2>2. /\ Cardinality(Earlier(keys, i)) <= Cardinality(Earlier(keys, j))
        /\ Cardinality(Earlier(keys, i)) # Cardinality(Earlier(keys, j))
    BY <1>2, <1>3, <2>1, FS_Subset
  <2>3. Place(keys, i) \in Int /\ Place(keys, j) \in Int
    BY <1>2
  <2> QED
    BY <2>2, <2>3 DEF Place
<1>4. ASSUME NEW i \in 1 .. n, NEW j \in 1 .. n, i # j
      PROVE  Place(keys, i) < Place(keys, j) \/ Place(keys, j) < Place(keys, i)
  BY <1>3, <1>4, EarlierOrder
<1>5. \A i, j \in 1 .. n : Place(keys, i) = Place(keys, j) => i = j
  <2> SUFFICES ASSUME NEW i \in 1 .. n, NEW j \in 1 .. n, Place(keys, i) = Place(keys, j), i # j
               PROVE  FALSE
    OBVIOUS
  <2>1. Place(keys, i) \in Int /\ Place(keys, j) \in Int
    BY <1>2
  <2> QED
    BY <1>4, <2>1
<1>6. \A i, j \in 1 .. n : Place(keys, i) < Place(keys, j) => i \in Earlier(keys, j)
  <2> SUFFICES ASSUME NEW i \in 1 .. n, NEW j \in 1 .. n, Place(keys, i) < Place(keys, j),
                      i \notin Earlier(keys, j)
               PROVE  FALSE
    OBVIOUS
  <2>1. Place(keys, i) \in Int /\ Place(keys, j) \in Int
    BY <1>2
  <2>2. i = j \/ j \in Earlier(keys, i)
    BY EarlierOrder
  <2> QED
    BY <1>3, <2>1, <2>2
<1>7. \A k \in 0 .. n - 1 : \E i \in 1 .. n : Place(keys, i) = k
  <2>1. rank \in [1 .. n -> 0 .. n - 1]
    BY <1>2
  <2>2. rank \in Injection(1 .. n, 0 .. n - 1)
    BY <1>5, <2>1, Fun_IsInj
  <2>3. IsFiniteSet(0 .. n - 1) /\ Cardinality(0 .. n - 1) = n
    <3>1. 0 \in Int /\ n - 1 \in Int
      BY <1>1
    <3>2. /\ IsFiniteSet(0 .. n - 1)
          /\ Cardinality(0 .. n - 1) = IF 0 > n - 1 THEN 0 ELSE (n - 1) - 0 + 1
      BY <3>1, FS_Interval
    <3> QED
      BY <1>1, <3>2
  <2>4. rank \in Surjection(1 .. n, 0 .. n - 1)
    BY <1>1, <2>2, <2>3, FS_Injection
  <2>5. \A i \in 1 .. n : rank[i] = Place(keys, i)
    OBVIOUS
  <2> HIDE DEF rank, n
  <2>6. \A k \in 0 .. n - 1 : \E i \in 1 .. n : rank[i] = k
    BY <2>4 DEF Surjection
  <2> QED
    BY <2>5, <2>6
<1> QED
  BY <1>2, <1>3, <1>5, <1>6, <1>7

\* Each place is, in the stable order, behind those that are earlier.
LEMMA InStableOrder ==
  ASSUME NEW keys \in Seq(Int)
  PROVE  /\ DOMAIN StableOrder(keys) = 1 .. Len(keys)
         /\ \A k \in 1 .. Len(keys) : /\ StableOrder(keys)[k] \in 1 .. Len(keys)
                                      /\ Place(keys, StableOrder(keys)[k]) = k - 1
         /\ \A i \in 1 .. Len(keys) : StableOrder(keys)[Place(keys, i) + 1] = i
<1> DEFINE n == Len(keys)
<1>1. n \in Nat /\ DOMAIN keys = 1 .. n
  OBVIOUS
<1>2. ASSUME NEW k \in 1 .. n
      PROVE  /\ StableOrder(keys)[k] \in 1 .. n
             /\ Place(keys, StableOrder(keys)[k]) = k - 1
  <2>1. k - 1 \in 0 .. n - 1
    BY <1>1
  <2>2. PICK i \in 1 .. n : Place(keys, i) = k - 1
    BY <2>1, Places
  <2>3. StableOrder(keys)[k] = CHOOSE j \in 1 .. n : Place(keys, j) = k - 1
    BY <1>1 DEF StableOrder, Place
  <2> QED
    BY <2>2, <2>3
<1>3. ASSUME NEW i \in 1 .. n
      PROVE  StableOrder(keys)[Place(keys, i) + 1] = i
  <2>1. Place(keys, i) + 1 \in 1 .. n /\ (Place(keys, i) + 1) - 1 = Place(keys, i)
    BY <1>1, Places
  <2>2. /\ StableOrder(keys)[Place(keys, i) + 1] \in 1 .. n
        /\ Place(keys, StableOrder(keys)[Place(keys, i) + 1]) = Place(keys, i)
    BY <1>2, <2>1
  <2> QED
    BY <2>2, Places
<1> QED
  BY <1>1, <1>2, <1>3 DEF StableOrder

\* A key that is appended moves the places of those above it by one.
LEMMA AppendedPlaces ==
  ASSUME NEW keys \in Seq(Int), NEW key \in Int
  PROVE  /\ \A i \in 1 .. Len(keys) :
              Place(Append(keys, key), i) = Place(keys, i) + (IF key < keys[i] THEN 1 ELSE 0)
         /\ Place(Append(keys, key), Len(keys) + 1)
              = Cardinality({j \in 1 .. Len(keys) : keys[j] <= key})
<1> DEFINE n == Len(keys)
           more == Append(keys, key)
<1>1. /\ n \in Nat /\ DOMAIN keys = 1 .. n /\ DOMAIN more = 1 .. n + 1 /\ more[n + 1] = key
      /\ \A i \in 1 .. n : more[i] = keys[i] /\ keys[i] \in Int
  OBVIOUS
<1> HIDE DEF more
<1>2. ASSUME NEW i \in 1 .. n
      PROVE  Place(more, i) = Place(keys, i) + (IF key < keys[i] THEN 1 ELSE 0)
  <2>1. IsFiniteSet(Earlier(keys, i)) /\ n + 1 \notin Earlier(keys, i)
    <3>1. IsFiniteSet(Earlier(keys, i))
      BY Places
    <3>2. n + 1 \notin 1 .. n
      BY <1>1
    <3>3. Earlier(keys, i) \subseteq 1 .. n
      BY <1>1 DEF Earlier
    <3> QED
      BY <3>1, <3>2, <3>3
  <2>2. CASE key < keys[i]
    <3>1. Earlier(more, i) = Earlier(keys, i) \cup {n + 1}
      BY <1>1, <2>2 DEF Earlier
    <3> QED
      BY <2>1, <2>2, <3>1, FS_AddElement DEF Place
  <2>3. CASE ~ (key < keys[i])
    <3>1. Earlier(more, i) = Earlier(keys, i)
      BY <1>1, <2>3 DEF Earlier
    <3>2. Place(keys, i) \in Int
      BY Places
    <3> QED
      BY <2>3, <3>1, <3>2 DEF Place
  <2> QED
    BY <2>2, <2>3
<1>3. Earlier(more, n + 1) = {j \in 1 .. n : keys[j] <= key}
  BY <1>1 DEF Earlier
<1> QED
  BY <1>2, <1>3 DEF more, Place

\* A list is the top of a window.
IsTop(top, window) ==
  /\ Len(top) = Smaller(TopSize, Len(window))
  /\ \A i \in 1 .. Len(window) :
       Place(Rates(window), i) < TopSize => top[Place(Rates(window), i) + 1] = window[i]

\* A request at the end of a window puts its rate at the end of the rates.
LEMMA RatesAppended ==
  ASSUME StatisticsAssumption, NEW requests \in Seq(Requests), NEW r \in Requests
  PROVE  /\ Rates(requests) \in Seq(Int) /\ Len(Rates(requests)) = Len(requests)
         /\ \A i \in 1 .. Len(requests) : Rates(requests)[i] = Rate[requests[i]]
         /\ Rate[r] \in Int
         /\ Rates(Append(requests, r)) = Append(Rates(requests), Rate[r])
<1> DEFINE n == Len(requests)
<1>1. Rate \in [Requests -> Nat]
  BY DEF StatisticsAssumption
<1>2. /\ n \in Nat /\ DOMAIN requests = 1 .. n /\ DOMAIN Append(requests, r) = 1 .. n + 1
      /\ \A i \in 1 .. n : requests[i] \in Requests
  OBVIOUS
<1>3. Rates(requests) \in Seq(Int) /\ Len(Rates(requests)) = n
  BY <1>1, <1>2 DEF Rates
<1>4. Rates(Append(requests, r)) = Append(Rates(requests), Rate[r])
  BY <1>1, <1>2, <1>3 DEF Rates
<1> QED
  BY <1>1, <1>2, <1>3, <1>4 DEF Rates

\* The top of a window is in order itself.
LEMMA TopInOrder ==
  ASSUME StatisticsAssumption, NEW window \in Seq(Requests), NEW top \in Seq(Requests),
         IsTop(top, window)
  PROVE  /\ Len(top) \in Nat /\ Len(top) <= TopSize /\ Len(top) <= Len(window)
         /\ \A p \in 1 .. Len(top) : \E j \in 1 .. Len(window) :
              Place(Rates(window), j) = p - 1 /\ top[p] = window[j]
         /\ \A p \in 1 .. Len(top) : Place(Rates(top), p) = p - 1
<1> DEFINE n == Len(window)
           m == Len(top)
           keys == Rates(window)
           tops == Rates(top)
<1>1. /\ n \in Nat /\ m \in Nat /\ TopSize \in Nat /\ m <= TopSize /\ m <= n
      /\ m = Smaller(TopSize, n)
  BY DEF IsTop, Smaller, StatisticsAssumption
<1>2. /\ keys \in Seq(Int) /\ Len(keys) = n /\ \A i \in 1 .. n : keys[i] = Rate[window[i]]
      /\ tops \in Seq(Int) /\ Len(tops) = m /\ \A i \in 1 .. m : tops[i] = Rate[top[i]]
  <2>1. Requests # {} \/ (n = 0 /\ m = 0)
    OBVIOUS
  <2>2. CASE Requests # {}
    <3>1. PICK r \in Requests : TRUE
      BY <2>2
    <3> QED
      BY <3>1, RatesAppended
  <2>3. CASE n = 0 /\ m = 0
    BY <2>3 DEF Rates
  <2> QED
    BY <2>1, <2>2, <2>3
<1> HIDE DEF keys, tops
<1>3. ASSUME NEW p \in 1 .. m
      PROVE  \E j \in 1 .. n : Place(keys, j) = p - 1 /\ top[p] = window[j]
  <2>1. p - 1 \in 0 .. n - 1 /\ p - 1 < TopSize /\ (p - 1) + 1 = p
    <3> HIDE DEF n, m
    <3> QED
      BY <1>1
  <2>2. PICK j \in 1 .. n : Place(keys, j) = p - 1
    BY <1>2, <2>1, Places
  <2>3. top[p] = window[j]
    BY <2>1, <2>2 DEF IsTop, keys
  <2> QED
    BY <2>2, <2>3
<1>4. ASSUME NEW p \in 1 .. m, NEW q \in 1 .. m, q < p
      PROVE  tops[q] <= tops[p] /\ tops[q] \in Int /\ tops[p] \in Int
  <2>1. PICK j \in 1 .. n : Place(keys, j) = p - 1 /\ top[p] = window[j]
    BY <1>3
  <2>2. PICK i \in 1 .. n : Place(keys, i) = q - 1 /\ top[q] = window[i]
    BY <1>3
  <2>3. Place(keys, i) < Place(keys, j)
    BY <1>4, <2>1, <2>2
  <2>4. i \in Earlier(keys, j)
    BY <1>2, <2>3, Places
  <2>5. keys[i] <= keys[j] /\ keys[i] \in Int /\ keys[j] \in Int
    <3>0. keys \in Seq(Int)
      BY <1>2
    <3>1. \A k \in 1 .. Len(keys) : keys[k] \in Int
      BY <3>0
    <3>2. keys[i] \in Int /\ keys[j] \in Int
      BY <1>2, <3>1
    <3>3. keys[i] < keys[j] \/ keys[i] = keys[j]
      BY <2>4 DEF Earlier
    <3>4. \A a, b \in Int : a < b \/ a = b => a <= b
      OBVIOUS
    <3> QED
      BY <3>2, <3>3, <3>4, Zenon
  <2> QED
    BY <1>2, <2>1, <2>2, <2>5
<1>5. ASSUME NEW p \in 1 .. m
      PROVE  Place(tops, p) = p - 1
  <2>1. Earlier(tops, p) = 1 .. p - 1
    <3>1. ASSUME NEW q \in 1 .. m
          PROVE  q \in Earlier(tops, p) <=> q < p
      <4>1. DOMAIN tops = 1 .. m /\ p \in Int /\ q \in Int
        BY <1>1, <1>2
      <4>2. /\ tops[p] \in Int /\ tops[q] \in Int
            /\ q < p => tops[q] <= tops[p]
            /\ p < q => tops[p] <= tops[q]
        <5> HIDE DEF m
        <5>1. tops[p] \in Int /\ tops[q] \in Int
          BY <1>2
        <5> QED
          BY <5>1, <1>4
      <4>3. q \in Earlier(tops, p) <=> (tops[q] < tops[p] \/ (tops[q] = tops[p] /\ q < p))
        BY <4>1, Zenon DEF Earlier
      <4> HIDE DEF m
      <4> QED
        BY <4>1, <4>2, <4>3
    <3>2. Earlier(tops, p) \subseteq 1 .. m
      BY <1>2 DEF Earlier
    <3>3. \A q \in 1 .. m : q < p <=> q \in 1 .. p - 1
      <4> HIDE DEF n, m
      <4> QED
        BY <1>1
    <3>4. 1 .. p - 1 \subseteq 1 .. m
      <4> HIDE DEF n, m
      <4> QED
        BY <1>1
    <3> QED
      BY <3>1, <3>2, <3>3, <3>4
  <2>2. Cardinality(1 .. p - 1) = p - 1
    <3>1. 1 \in Int /\ p - 1 \in Int
      OBVIOUS
    <3>2. Cardinality(1 .. p - 1) = IF 1 > p - 1 THEN 0 ELSE (p - 1) - 1 + 1
      BY <3>1, FS_Interval
    <3> QED
      BY <3>2
  <2> QED
    BY <2>1, <2>2 DEF Place
<1> QED
  BY <1>1, <1>3, <1>5 DEF keys, tops


\* A list that is ranked holds, up to the size of the top, the request with
\* that many others before it.
LEMMA InRanked ==
  ASSUME StatisticsAssumption, NEW requests \in Seq(Requests)
  PROVE  /\ Ranked(requests) \in Seq(Requests)
         /\ Len(Ranked(requests)) = Smaller(TopSize, Len(requests))
         /\ Len(Ranked(requests)) <= TopSize
         /\ \A p \in 1 .. Len(requests) :
              Place(Rates(requests), p) < TopSize =>
                Ranked(requests)[Place(Rates(requests), p) + 1] = requests[p]
<1> DEFINE n == Len(requests)
           keys == Rates(requests)
           sorted == ByRate(requests)
           t == Smaller(TopSize, n)
<1>1. /\ n \in Nat /\ DOMAIN requests = 1 .. n /\ TopSize \in Nat
      /\ \A i \in 1 .. n : requests[i] \in Requests
  BY DEF StatisticsAssumption
<1>2. keys \in Seq(Int) /\ Len(keys) = n
  <2>1. CASE requests = <<>>
    BY <2>1 DEF Rates
  <2>2. CASE requests # <<>>
    <3>1. requests[1] \in Requests
      BY <2>2
    <3> QED
      BY <3>1, RatesAppended
  <2> QED
    BY <2>1, <2>2
<1> HIDE DEF keys
<1>3. /\ \A k \in 1 .. n : StableOrder(keys)[k] \in 1 .. n
      /\ \A i \in 1 .. n : StableOrder(keys)[Place(keys, i) + 1] = i
  BY <1>2, InStableOrder
<1>4. /\ sorted = [k \in 1 .. n |-> requests[StableOrder(keys)[k]]]
      /\ sorted \in Seq(Requests) /\ Len(sorted) = n
  <2>1. sorted = [k \in 1 .. n |-> requests[StableOrder(keys)[k]]]
    BY <1>1 DEF ByRate, keys
  <2> HIDE DEF sorted
  <2> QED
    BY <1>1, <1>3, <2>1
<1>5. t \in 0 .. n /\ t <= TopSize /\ \A k \in Nat : k < n /\ k < TopSize => k < t
  <2> HIDE DEF n
  <2> QED
    BY <1>1 DEF Smaller
<1>6. Ranked(requests) = SubSeq(sorted, 1, t)
  BY <1>4 DEF Ranked, Top
<1> HIDE DEF sorted, t, n
<1>7. /\ Ranked(requests) \in Seq(Requests) /\ Len(Ranked(requests)) = t
      /\ \A k \in 1 .. t : Ranked(requests)[k] = sorted[k]
  BY <1>1, <1>4, <1>5, <1>6, SubSeqProperties
<1>8. ASSUME NEW p \in 1 .. n, Place(keys, p) < TopSize
      PROVE  Ranked(requests)[Place(keys, p) + 1] = requests[p]
  <2>1. Place(keys, p) \in 0 .. n - 1
    BY <1>2, Places
  <2>2. \A k \in 0 .. n - 1 : k < TopSize => k + 1 \in 1 .. t /\ k + 1 \in 1 .. n
    <3> TAKE k \in 0 .. n - 1
    <3>1. k \in Nat /\ k < n /\ t \in Nat /\ t <= n
      BY <1>1, <1>5
    <3>2. k < TopSize => k < t
      BY <1>5, <3>1
    <3> QED
      BY <1>1, <3>1, <3>2
  <2>3. Place(keys, p) + 1 \in 1 .. t /\ Place(keys, p) + 1 \in 1 .. n
    BY <1>8, <2>1, <2>2
  <2> QED
    BY <1>3, <1>4, <1>7, <2>3
<1> QED
  BY <1>5, <1>7, <1>8 DEF keys, t, n

\* One more request: the top of the old top and the new request is the top of all.
LEMMA TopKept ==
  ASSUME StatisticsAssumption, NEW window \in Seq(Requests), NEW top \in Seq(Requests),
         IsTop(top, window), NEW r \in Requests
  PROVE  IsTop(Ranked(Append(top, r)), Append(window, r))
<1> DEFINE n == Len(window)
           m == Len(top)
           keys == Rates(window)
           tops == Rates(top)
           key == Rate[r]
           longer == Append(top, r)
           whole == Append(window, r)
           ranked == Ranked(longer)
<1>1. /\ n \in Nat /\ m \in Nat /\ TopSize \in Nat /\ m <= TopSize /\ m <= n
      /\ m = Smaller(TopSize, n)
      /\ \A p \in 1 .. m : \E j \in 1 .. n : Place(keys, j) = p - 1 /\ top[p] = window[j]
      /\ \A p \in 1 .. m : Place(tops, p) = p - 1
  <2>1. m = Smaller(TopSize, n) /\ TopSize \in Nat
    BY DEF IsTop, StatisticsAssumption
  <2>2. /\ m \in Nat /\ m <= TopSize /\ m <= n /\ n \in Nat
        /\ \A p \in 1 .. m : \E j \in 1 .. n : Place(keys, j) = p - 1 /\ top[p] = window[j]
        /\ \A p \in 1 .. m : Place(tops, p) = p - 1
    BY TopInOrder
  <2> HIDE DEF n, m, keys, tops
  <2> QED
    BY <2>1, <2>2
<1>2. /\ longer \in Seq(Requests) /\ Len(longer) = m + 1 /\ longer[m + 1] = r
      /\ \A p \in 1 .. m : longer[p] = top[p]
      /\ whole \in Seq(Requests) /\ Len(whole) = n + 1 /\ whole[n + 1] = r
      /\ \A p \in 1 .. n : whole[p] = window[p]
  OBVIOUS
<1>3. /\ keys \in Seq(Int) /\ Len(keys) = n /\ key \in Int
      /\ \A i \in 1 .. n : keys[i] = Rate[window[i]] /\ keys[i] \in Int
      /\ tops \in Seq(Int) /\ Len(tops) = m
      /\ \A i \in 1 .. m : tops[i] = Rate[top[i]] /\ tops[i] \in Int
      /\ Rates(longer) = Append(tops, key) /\ Rates(whole) = Append(keys, key)
  <2>1. /\ keys \in Seq(Int) /\ Len(keys) = n /\ key \in Int
        /\ \A i \in 1 .. n : keys[i] = Rate[window[i]]
        /\ tops \in Seq(Int) /\ Len(tops) = m
        /\ \A i \in 1 .. m : tops[i] = Rate[top[i]]
        /\ Rates(longer) = Append(tops, key) /\ Rates(whole) = Append(keys, key)
    BY RatesAppended
  <2> HIDE DEF keys, tops
  <2>2. (\A i \in 1 .. n : keys[i] \in Int) /\ (\A i \in 1 .. m : tops[i] \in Int)
    <3>1. \A seq \in Seq(Int) : \A i \in 1 .. Len(seq) : seq[i] \in Int
      OBVIOUS
    <3> QED
      BY <2>1, <3>1, Zenon
  <2> QED
    BY <2>1, <2>2
<1>4. /\ ranked \in Seq(Requests) /\ Len(ranked) = Smaller(TopSize, m + 1)
      /\ \A p \in 1 .. m + 1 : Place(Append(tops, key), p) < TopSize =>
           ranked[Place(Append(tops, key), p) + 1] = longer[p]
  <2> HIDE DEF ranked, longer
  <2>1. /\ ranked \in Seq(Requests) /\ Len(ranked) = Smaller(TopSize, Len(longer))
        /\ \A p \in 1 .. Len(longer) : Place(Rates(longer), p) < TopSize =>
             ranked[Place(Rates(longer), p) + 1] = longer[p]
    BY <1>2, InRanked DEF ranked
  <2> QED
    BY <1>2, <1>3, <2>1
<1> HIDE DEF keys, tops, key, longer, whole, ranked, n, m
<1>5. Len(ranked) = Smaller(TopSize, n + 1)
  BY <1>1, <1>4 DEF Smaller
<1>6. ASSUME NEW i \in 1 .. n, Place(Append(keys, key), i) < TopSize
      PROVE  ranked[Place(Append(keys, key), i) + 1] = window[i]
  <2> DEFINE d == IF key < keys[i] THEN 1 ELSE 0
             p == Place(keys, i) + 1
  <2>1. Place(Append(keys, key), i) = Place(keys, i) + d /\ d \in 0 .. 1
    <3>1. d \in 0 .. 1
      OBVIOUS
    <3>2. Place(Append(keys, key), i) = Place(keys, i) + (IF key < keys[i] THEN 1 ELSE 0)
      BY <1>3, AppendedPlaces
    <3> QED
      BY <3>1, <3>2
  <2>2. Place(keys, i) \in 0 .. n - 1
    BY <1>3, Places
  <2>3. p \in 1 .. m /\ Place(keys, i) < TopSize
    <3> HIDE DEF d, p
    <3>1. \A k \in 0 .. n - 1, e \in 0 .. 1 :
            k + e < TopSize => k < TopSize /\ k + 1 \in 1 .. m
      BY <1>1 DEF Smaller
    <3>2. Place(keys, i) < TopSize /\ Place(keys, i) + 1 \in 1 .. m
      BY <1>6, <2>1, <2>2, <3>1
    <3> QED
      BY <3>2 DEF p
  <2>4. top[p] = window[i]
    <3>1. \A j \in 1 .. Len(window) : Place(Rates(window), j) < TopSize =>
            top[Place(Rates(window), j) + 1] = window[j]
      BY DEF IsTop
    <3> QED
      BY <2>3, <3>1 DEF keys, n
  <2>5. tops[p] = keys[i]
    <3> HIDE DEF p, tops, keys, n, m
    <3>1. tops[p] = Rate[top[p]] /\ keys[i] = Rate[window[i]]
      BY <1>3, <2>3
    <3> QED
      BY <2>4, <3>1, Zenon
  <2>6. Place(Append(tops, key), p) = (p - 1) + d
    <3>1. Place(Append(tops, key), p) = Place(tops, p) + (IF key < tops[p] THEN 1 ELSE 0)
      BY <1>3, <2>3, AppendedPlaces
    <3> QED
      BY <1>1, <2>3, <2>5, <3>1
  <2>7. Place(Append(tops, key), p) = Place(Append(keys, key), i)
    BY <2>1, <2>2, <2>6
  <2>8. p \in 1 .. m + 1
    BY <1>1, <2>3
  <2>9. ranked[Place(Append(tops, key), p) + 1] = longer[p]
    BY <1>4, <1>6, <2>7, <2>8
  <2> HIDE DEF d, p
  <2>10. longer[p] = window[i]
    BY <1>2, <2>3, <2>4
  <2> QED
    BY <2>7, <2>9, <2>10
<1>7. ASSUME Place(Append(keys, key), n + 1) < TopSize
      PROVE  ranked[Place(Append(keys, key), n + 1) + 1] = r
  <2> DEFINE J == {j \in 1 .. n : keys[j] <= key}
             P == {q \in 1 .. m : tops[q] <= key}
             at == [j \in J |-> Place(keys, j) + 1]
  <2>1. /\ Place(Append(keys, key), n + 1) = Cardinality(J)
        /\ Place(Append(tops, key), m + 1) = Cardinality(P)
    BY <1>3, AppendedPlaces
  <2>2. IsFiniteSet(1 .. n) /\ IsFiniteSet(J) /\ Cardinality(J) \in Nat
    <3>1. IsFiniteSet(1 .. n)
      BY <1>1, FS_Interval
    <3>2. J \in SUBSET (1 .. n)
      OBVIOUS
    <3> QED
      BY <3>1, <3>2, FS_Subset, FS_CardinalityType
  <2>3. ASSUME NEW j \in J
        PROVE  Place(keys, j) < Cardinality(J) /\ Place(keys, j) \in 0 .. n - 1
    <3>1. Earlier(keys, j) \in SUBSET (J \ {j})
      <4>1. Earlier(keys, j) \subseteq (1 .. n) \ {j}
        BY <1>3, EarlierOrder
      <4>2. \A i \in Earlier(keys, j) : keys[i] <= key
        BY <1>3, <4>1 DEF Earlier
      <4> QED
        BY <4>1, <4>2
    <3>2. IsFiniteSet(J \ {j}) /\ Cardinality(J \ {j}) = Cardinality(J) - 1
      BY <2>2, FS_RemoveElement
    <3>3. Cardinality(Earlier(keys, j)) <= Cardinality(J) - 1
      BY <3>1, <3>2, FS_Subset
    <3>4. Place(keys, j) \in 0 .. n - 1
      BY <1>3, Places
    <3> HIDE DEF J
    <3> QED
      BY <2>2, <3>3, <3>4 DEF Place
  <2>4. \A j \in J : at[j] \in 1 .. m /\ top[at[j]] = window[j] /\ tops[at[j]] = keys[j]
    <3> TAKE j \in J
    <3>1. Place(keys, j) < TopSize
      <4> HIDE DEF J
      <4> QED
        BY <1>1, <1>7, <2>1, <2>2, <2>3
    <3>2. at[j] = Place(keys, j) + 1 /\ j \in 1 .. n
      OBVIOUS
    <3>3. at[j] \in 1 .. m
      <4> HIDE DEF at, J, n, m, keys
      <4>1. \A k \in 0 .. n - 1 : k < TopSize => k + 1 \in 1 .. m
        BY <1>1 DEF Smaller
      <4>2. Place(keys, j) \in 0 .. n - 1
        BY <2>3
      <4> QED
        BY <3>1, <3>2, <4>1, <4>2
    <3>4. top[at[j]] = window[j]
      <4>1. \A i \in 1 .. Len(window) : Place(Rates(window), i) < TopSize =>
              top[Place(Rates(window), i) + 1] = window[i]
        BY DEF IsTop
      <4> HIDE DEF at, J
      <4> QED
        BY <3>1, <3>2, <4>1 DEF keys, n
    <3> HIDE DEF at, J
    <3> QED
      BY <1>3, <3>2, <3>3, <3>4
  <2>5. at \in Bijection(J, P)
    <3>1. \A j \in J : at[j] \in P
      <4> TAKE j \in J
      <4>1. keys[j] <= key
        OBVIOUS
      <4> HIDE DEF at
      <4> QED
        BY <2>4, <4>1
    <3>2. at \in [J -> P]
      <4>1. at = [j \in J |-> at[j]]
        OBVIOUS
      <4> HIDE DEF at, J, P
      <4> QED
        BY <3>1, <4>1
    <3>3. \A i, j \in J : at[i] = at[j] => i = j
      <4> SUFFICES ASSUME NEW i \in J, NEW j \in J, at[i] = at[j] PROVE i = j
        OBVIOUS
      <4>0. at[i] = at[j]
        OBVIOUS
      <4>1. Place(keys, i) = Place(keys, j)
        <5>1. at[i] = Place(keys, i) + 1 /\ at[j] = Place(keys, j) + 1
          OBVIOUS
        <5>2. Place(keys, i) \in 0 .. n - 1 /\ Place(keys, j) \in 0 .. n - 1
          BY <2>3
        <5> HIDE DEF at, J
        <5>3. Place(keys, i) + 1 = Place(keys, j) + 1
          BY <4>0, <5>1
        <5>4. \A a, b \in 0 .. n - 1 : a + 1 = b + 1 => a = b
          OBVIOUS
        <5> QED
          BY <5>2, <5>3, <5>4
      <4>2. i \in 1 .. n /\ j \in 1 .. n
        OBVIOUS
      <4> QED
        BY <1>3, <4>1, <4>2, Places
    <3>4. \A q \in P : \E j \in J : at[j] = q
      <4> TAKE q \in P
      <4>1. q \in 1 .. m /\ tops[q] <= key
        OBVIOUS
      <4>2. PICK j \in 1 .. n : Place(keys, j) = q - 1 /\ top[q] = window[j]
        BY <1>1, <4>1
      <4>3. keys[j] = tops[q]
        BY <1>3, <4>1, <4>2
      <4>4. j \in J
        BY <4>1, <4>3
      <4>5. at[j] = Place(keys, j) + 1
        BY <4>4
      <4>6. at[j] = q
        BY <4>1, <4>2, <4>5
      <4> QED
        BY <4>4, <4>6
    <3> HIDE DEF at, J, P
    <3>5. at \in Injection(J, P)
      BY <3>2, <3>3, Fun_IsInj
    <3>6. at \in Surjection(J, P)
      BY <3>2, <3>4, Fun_IsSurj
    <3> QED
      BY <3>5, <3>6 DEF Bijection
  <2>6. Cardinality(P) = Cardinality(J)
    <3>1. ExistsBijection(J, P)
      BY <2>5 DEF ExistsBijection
    <3> HIDE DEF J, P
    <3> QED
      BY <2>2, <3>1, FS_Bijection
  <2> HIDE DEF J, P, at
  <2>7. m + 1 \in 1 .. m + 1
    BY <1>1
  <2> QED
    BY <1>2, <1>4, <1>7, <2>1, <2>6, <2>7
<1>8. ASSUME NEW i \in 1 .. n + 1, Place(Rates(whole), i) < TopSize
      PROVE  ranked[Place(Rates(whole), i) + 1] = whole[i]
  <2>1. CASE i \in 1 .. n
    BY <1>2, <1>3, <1>6, <1>8, <2>1
  <2>2. CASE i = n + 1
    BY <1>2, <1>3, <1>7, <1>8, <2>2
  <2> QED
    BY <1>1, <2>1, <2>2
<1>9. IsTop(ranked, whole)
  BY <1>2, <1>5, <1>8 DEF IsTop
<1> QED
  BY <1>9 DEF ranked, longer, whole

-----------------------------------------------------------------------------
(***************************************************************************)
(* The figures of a window.                                                *)
(***************************************************************************)
StatisticsIInv == StatisticsTypeOK /\ FiguresOfWindow

\* An empty window has the figures of an empty window.
LEMMA StatisticsInitially ==
  ASSUME StatisticsAssumption, StatisticsInit
  PROVE  StatisticsIInv
<1>1. /\ statistics = NoStatistics /\ added = <<>> /\ TopSize \in Nat
      /\ AmountSell \in [Requests -> Nat] /\ AmountBuy \in [Requests -> Nat]
      /\ Rate \in [Requests -> Nat]
  BY DEF StatisticsInit, StatisticsAssumption
<1>2. StatisticsTypeOK
  BY <1>1 DEF StatisticsTypeOK, NoStatistics, Average
<1>3. Total(AmountSell) = 0 /\ Total(AmountBuy) = 0 /\ Total(Rate) = 0
  BY <1>1, SumOfNone DEF Total
<1>4. FiguresOfWindow
  BY <1>1, <1>3 DEF FiguresOfWindow, NoStatistics, Smaller
<1> QED
  BY <1>2, <1>4 DEF StatisticsIInv

\* Each request is added to every figure, and to the top.
LEMMA FiguresAdded ==
  ASSUME StatisticsAssumption, StatisticsIInv, NEW r \in Requests, Add(r)
  PROVE  StatisticsIInv'
<1> DEFINE top == statistics.topRequests
           n == Len(added)
<1>1. /\ AmountSell \in [Requests -> Nat] /\ AmountBuy \in [Requests -> Nat]
      /\ Rate \in [Requests -> Nat] /\ TopSize \in Nat
  BY DEF StatisticsAssumption
<1>2. /\ added \in Seq(Requests) /\ n \in Nat
      /\ top \in Seq(Requests) /\ Len(top) <= TopSize
      /\ statistics.count \in Nat /\ statistics.sumRate \in Nat
      /\ statistics.volumeSell \in Nat /\ statistics.volumeBuy \in Nat
  BY DEF StatisticsIInv, StatisticsTypeOK
<1>3. /\ statistics.count = n /\ statistics.volumeSell = Total(AmountSell)
      /\ statistics.volumeBuy = Total(AmountBuy) /\ statistics.sumRate = Total(Rate)
  BY DEF StatisticsIInv, FiguresOfWindow
<1>4. IsTop(top, added)
  <2>1. \A i \in DOMAIN added : Rank(i) < TopSize => top[Rank(i) + 1] = added[i]
    BY DEF StatisticsIInv, FiguresOfWindow
  <2>2. DOMAIN added = 1 .. Len(added)
    BY <1>2
  <2>3. Len(top) = Smaller(TopSize, Len(added))
    BY DEF StatisticsIInv, FiguresOfWindow
  <2> QED
    BY <2>1, <2>2, <2>3 DEF IsTop, Rank, Place
<1>5. added' = Append(added, r) /\ statistics' = AddRequest(statistics, r)
  BY DEF Add
<1>6. /\ statistics'.count = statistics.count + 1
      /\ statistics'.volumeSell = statistics.volumeSell + AmountSell[r]
      /\ statistics'.volumeBuy = statistics.volumeBuy + AmountBuy[r]
      /\ statistics'.sumRate = statistics.sumRate + Rate[r]
      /\ statistics'.avgRate = Average(statistics.sumRate + Rate[r], statistics.count + 1)
      /\ statistics'.topRequests = Ranked(Append(top, r))
  BY <1>5 DEF AddRequest
<1> HIDE DEF top, n
<1>7. added' \in Seq(Requests) /\ Len(added') = n + 1 /\ added' # <<>>
  <2>1. Append(added, r) \in Seq(Requests) /\ Len(Append(added, r)) = Len(added) + 1
    BY <1>2
  <2>2. Append(added, r) # <<>>
    <3>1. Len(added) \in Nat
      BY <1>2 DEF n
    <3> SUFFICES ASSUME Append(added, r) = <<>> PROVE FALSE
      OBVIOUS
    <3>2. Len(<<>>) = Len(added) + 1 /\ Len(<<>>) = 0
      BY <2>1
    <3> QED
      BY <3>1, <3>2
  <2> QED
    BY <1>5, <2>1, <2>2 DEF n
<1>8. /\ Total(AmountSell)' = Total(AmountSell) + AmountSell[r]
      /\ Total(AmountBuy)' = Total(AmountBuy) + AmountBuy[r]
      /\ Total(Rate)' = Total(Rate) + Rate[r]
  <2>1. ASSUME NEW f \in [Requests -> Nat]
        PROVE  Sum(f, Append(added, r)) = Sum(f, added) + f[r]
    <3>1. added \in Seq(Requests)
      BY <1>2
    <3>2. IsSummand(Requests, f, added, r)
      BY <3>1 DEF IsSummand
    <3> QED
      BY <3>2, SumOfOneMore
  <2> QED
    BY <1>1, <1>5, <2>1 DEF Total
<1>9. /\ Ranked(Append(top, r)) \in Seq(Requests)
      /\ Len(Ranked(Append(top, r))) <= TopSize
  <2>1. Append(top, r) \in Seq(Requests)
    BY <1>2
  <2> QED
    BY <2>1, InRanked
<1>10. IsTop(Ranked(Append(top, r)), Append(added, r))
  BY <1>2, <1>4, TopKept
<1>11. AmountSell[r] \in Nat /\ AmountBuy[r] \in Nat /\ Rate[r] \in Nat
  BY <1>1
<1>12. StatisticsTypeOK'
  <2>1. statistics'.avgRate \in [sum : Nat, count : Nat \ {0}]
    <3>1. \A m, d \in Nat : m + d \in Nat /\ m + 1 \in Nat \ {0}
      OBVIOUS
    <3>2. statistics.sumRate + Rate[r] \in Nat /\ statistics.count + 1 \in Nat \ {0}
      BY <1>2, <1>11, <3>1
    <3> QED
      BY <1>6, <3>2 DEF Average
  <2>2. /\ statistics'.count \in Nat /\ statistics'.volumeSell \in Nat
        /\ statistics'.volumeBuy \in Nat /\ statistics'.sumRate \in Nat
    <3>1. \A m, d \in Nat : m + d \in Nat
      OBVIOUS
    <3> QED
      BY <1>2, <1>6, <1>11, <3>1
  <2>3. statistics'.topRequests \in Seq(Requests) /\ Len(statistics'.topRequests) <= TopSize
    BY <1>6, <1>9
  <2> QED
    BY <1>7, <2>1, <2>2, <2>3 DEF StatisticsTypeOK
<1>13. FiguresOfWindow'
  <2>1. /\ statistics'.count = Len(added') /\ statistics'.volumeSell = Total(AmountSell)'
        /\ statistics'.volumeBuy = Total(AmountBuy)' /\ statistics'.sumRate = Total(Rate)'
        /\ statistics'.avgRate = Average(Total(Rate)', Len(added'))
    BY <1>3, <1>6, <1>7, <1>8
  <2>2. Len(statistics'.topRequests) = Smaller(TopSize, Len(added'))
    BY <1>5, <1>6, <1>10 DEF IsTop
  <2>3. \A i \in DOMAIN added' :
          Rank(i)' < TopSize => statistics'.topRequests[Rank(i)' + 1] = added'[i]
    <3>1. DOMAIN added' = 1 .. Len(added')
      BY <1>7
    <3>2. \A i \in 1 .. Len(added') : Place(Rates(added'), i) < TopSize =>
            statistics'.topRequests[Place(Rates(added'), i) + 1] = added'[i]
      BY <1>5, <1>6, <1>10 DEF IsTop
    <3> QED
      BY <3>1, <3>2 DEF Rank, Place
  <2> QED
    BY <2>1, <2>2, <2>3 DEF FiguresOfWindow
<1> QED
  BY <1>12, <1>13 DEF StatisticsIInv


-----------------------------------------------------------------------------
(***************************************************************************)
(* The questions: what is asked is always an input of its kind.            *)
(***************************************************************************)
AskedOfQuestions ==
  probe = Nothing \/ \E kind \in DOMAIN Questions : \E input \in Questions[kind] :
                        probe = [kind |-> kind, input |-> input]

\* Every step keeps what was asked or asks an input of some kind.
LEMMA QuestionsKept ==
  AskedOfQuestions /\ [CalculationsNext]_calculationsVars => AskedOfQuestions'
<1> SUFFICES ASSUME AskedOfQuestions, [CalculationsNext]_calculationsVars
             PROVE  AskedOfQuestions'
  OBVIOUS
<1>1. CASE UNCHANGED probe
  BY <1>1 DEF AskedOfQuestions
<1>2. ASSUME NEW kind \in DOMAIN Questions, Ask(kind)
      PROVE  AskedOfQuestions'
  BY <1>2 DEF AskedOfQuestions, Ask
<1> QED
  BY <1>1, <1>2 DEF CalculationsNext, calculationsVars

\* What is asked is one of the questions of its kind.
LEMMA InputAsked ==
  ASSUME AskedOfQuestions, NEW kind, Asked(kind)
  PROVE  probe.input \in Questions[kind]
BY DEF AskedOfQuestions, Asked

\* A number of a request that validates is there, and is NaN, infinite or more than zero.
LEMMA NumbersValid ==
  ASSUME NEW request, R!Validate(request) = <<>>, NEW p \in ToSet(R!Numbers)
  PROVE  ~ R!NumberMissing(request[p])
<1> DEFINE missing(q) == CASE R!Contains(R!Texts, q)   -> R!TextMissing(request[q])
                           [] R!Contains(R!Numbers, q) -> R!NumberMissing(request[q])
                           [] OTHER                  -> request[q] = Null
           order == R!Texts \o R!Numbers \o <<"timePlaced">>
           at == {i \in DOMAIN order : missing(order[i])}
<1>1. at = {}
  <2>1. R!Validate(request) = IF at = {} THEN <<>> ELSE <<order[R!Min(at)]>>
    BY DEF R!Validate
  <2> HIDE DEF at, order
  <2> QED
    BY <2>1
<1>2. DOMAIN order = 1 .. 8 /\ order[5] = "amountBuy" /\ order[6] = "amountSell" /\ order[7] = "rate"
  BY DEF R!Texts, R!Numbers
<1>3. p \in {"amountBuy", "amountSell", "rate"}
  BY DEF R!Numbers, R!ToSet, ToSet
<1>4. ~ R!Contains(R!Texts, p) /\ R!Contains(R!Numbers, p)
  <2>1. ~ R!Contains(R!Texts, p)
    BY <1>3 DEF R!Contains, R!Texts
  <2>2. R!Contains(R!Numbers, p)
    <3>1. R!Numbers[1] = "amountBuy" /\ R!Numbers[2] = "amountSell" /\ R!Numbers[3] = "rate"
          /\ 1 .. Len(R!Numbers) = 1 .. 3
      BY DEF R!Numbers
    <3> QED
      BY <1>3, <3>1 DEF R!Contains
  <2> QED
    BY <2>1, <2>2
<1>5. \E i \in DOMAIN order : order[i] = p
  <2> HIDE DEF order
  <2>1. {5, 6, 7} \subseteq DOMAIN order
    BY <1>2
  <2> QED
    BY <1>2, <1>3, <2>1
<1>6. ~ missing(p)
  <2> HIDE DEF missing, order
  <2> QED
    BY <1>1, <1>5
<1> QED
  BY <1>4, <1>6

\* What a sum is when a number is added to it.
Raised(sum, v) == IF v \in {NaN, Infinity} THEN R!Plus(sum, v) = v ELSE R!Plus(sum, v) > sum

\* A number of a request that validates raises a sum, or is NaN or Infinity and makes it
\* the same.
LEMMA RequestAnswered ==
  ASSUME CalculationsAssumption, SnapshotsAssumption,
         NEW request, IsRequest(request), R!Validate(request) = <<>>,
         NEW p \in ToSet(R!Numbers), NEW sum \in 0 .. 2
  PROVE  Raised(sum, request[p])
<1> DEFINE v == request[p]
<1>1. ~ R!NumberMissing(v)
  BY NumbersValid
<1>2. v \in Nat \cup {Null, NaN, Infinity}
  <2>1. p \in {"amountBuy", "amountSell", "rate"}
    BY DEF R!Numbers, R!ToSet, ToSet
  <2> QED
    BY <2>1 DEF IsRequest, Amounts
<1> SUFFICES Raised(sum, v)
  OBVIOUS
<1> HIDE DEF v
<1>0. /\ NaN \notin Int /\ Infinity \notin Int /\ NaN # Infinity
      /\ sum \in Int /\ sum # NaN /\ sum # Infinity
  BY DEF CalculationsAssumption, SnapshotsAssumption
<1>3. CASE v = NaN
  <2>1. R!Plus(sum, v) = NaN
    BY <1>3 DEF R!Plus
  <2> QED
    BY <1>3, <2>1 DEF Raised
<1>4. CASE v = Infinity
  <2>1. NaN \notin {sum, v}
    BY <1>0, <1>4
  <2>2. R!Plus(sum, v) = Infinity
    BY <1>4, <2>1, Zenon DEF R!Plus
  <2> QED
    BY <1>4, <2>2 DEF Raised
<1>5. CASE v \notin {NaN, Infinity}
  <2>1. v \in Nat /\ v >= 1
    BY <1>1, <1>2, <1>5 DEF R!NumberMissing, R!LessThan
  <2>2. NaN \notin {sum, v} /\ Infinity \notin {sum, v}
    BY <1>0, <1>5
  <2>3. R!Plus(sum, v) = sum + v
    BY <2>2 DEF R!Plus
  <2>4. R!Plus(sum, v) > sum
    BY <1>0, <2>1, <2>3
  <2> QED
    BY <1>5, <2>4 DEF Raised
<1> QED
  BY <1>3, <1>4, <1>5

-----------------------------------------------------------------------------
\* The figures of a window, through the steps that leave it alone.
LEMMA WindowInvariant ==
  /\ CalculationsInit => StatisticsIInv
  /\ StatisticsIInv /\ [CalculationsNext]_calculationsVars => StatisticsIInv'
<1>1. CalculationsInit => StatisticsIInv
  BY StatisticsAssumption, StatisticsInitially DEF CalculationsInit
<1>2. ASSUME StatisticsIInv, [CalculationsNext]_calculationsVars
      PROVE  StatisticsIInv'
  <2>1. CASE UNCHANGED statisticsVars
    BY <1>2, <2>1 DEF statisticsVars, StatisticsIInv, StatisticsTypeOK, FiguresOfWindow, Rank, Total
  <2>2. CASE StatisticsNext
    BY <1>2, <2>2, StatisticsAssumption, FiguresAdded DEF StatisticsNext
  <2>3. StatisticsNext \/ UNCHANGED statisticsVars
    BY <1>2 DEF CalculationsNext, calculationsVars, Window, Page, Ask, statisticsVars
  <2> QED
    BY <2>1, <2>2, <2>3
<1> QED
  BY <1>1, <1>2

\* FiguresCount: the figures of a window, computed request by request from the
\* figures before, are always those of all its requests, however many there are
\* and whatever the size of the top list, which the cut after each request
\* never makes lose one of the lowest rates; and a request that validates
\* raises every sum it is added to, unless it has a NaN or an Infinity, which the
\* sum becomes.
THEOREM FiguresAlwaysCount == CalculationsSpec => []FiguresCount
<1> DEFINE I == StatisticsIInv /\ AskedOfQuestions
<1>1. CalculationsInit => I
  BY WindowInvariant DEF CalculationsInit, AskedOfQuestions
<1>2. I /\ [CalculationsNext]_calculationsVars => I'
  BY WindowInvariant, QuestionsKept
<1>3. I => FiguresCount
  <2> SUFFICES ASSUME I PROVE FiguresCount
    OBVIOUS
  <2>1. StatisticsTypeOK /\ FiguresOfWindow
    BY DEF StatisticsIInv
  <2>2. ValidRaisesSums
    <3> SUFFICES ASSUME Asked("request"), R!Validate(probe.input) = <<>>,
                        NEW p \in ToSet(R!Numbers), NEW sum \in 0 .. 2
                 PROVE  Raised(sum, probe.input[p])
      BY DEF ValidRaisesSums, Raised
    <3>1. IsRequest(probe.input)
      BY InputAsked, CalculationsAssumption DEF CalculationsAssumption
    <3> QED
      BY <3>1, CalculationsAssumption, SnapshotsAssumption, RequestAnswered
  <2> QED
    BY <2>1, <2>2 DEF FiguresCount
<1> QED
  BY <1>1, <1>2, <1>3, PTL DEF CalculationsSpec

(***************************************************************************)
(* The values at some places of a sequence.                                *)
(***************************************************************************)
\* Each value of a finite set has a place in the order of the keys, and each place
\* a value.
LEMMA SortedPlaces ==
  ASSUME NEW S, IsFiniteSet(S), NEW key, \A x \in S : key[x] \in Int,
         \A x, y \in S : key[x] = key[y] => x = y
  PROVE  /\ Cardinality(S) \in Nat
         /\ \A x \in S : /\ Cardinality(Before(S, key, x)) \in 0 .. Cardinality(S) - 1
                         /\ Sorted(S, key)[Cardinality(Before(S, key, x)) + 1] = x
         /\ \A k \in 1 .. Cardinality(S) :
              /\ Sorted(S, key)[k] \in S
              /\ Cardinality(Before(S, key, Sorted(S, key)[k])) = k - 1
<1> DEFINE n == Cardinality(S)
           rank == [x \in S |-> Cardinality(Before(S, key, x))]
<1>1. n \in Nat
  BY FS_CardinalityType
<1>2. ASSUME NEW x \in S
      PROVE  /\ IsFiniteSet(Before(S, key, x))
             /\ rank[x] \in 0 .. n - 1
  <2>1. Before(S, key, x) \in SUBSET (S \ {x})
    BY DEF Before
  <2>2. IsFiniteSet(S \ {x}) /\ Cardinality(S \ {x}) = n - 1
    BY FS_RemoveElement
  <2>3. /\ IsFiniteSet(Before(S, key, x))
        /\ Cardinality(Before(S, key, x)) <= n - 1
        /\ Cardinality(Before(S, key, x)) \in Nat
    BY <2>1, <2>2, FS_Subset, FS_CardinalityType
  <2> QED
    BY <1>1, <2>3
<1>3. ASSUME NEW x \in S, NEW y \in S, key[x] < key[y]
      PROVE  rank[x] < rank[y]
  <2>1. Before(S, key, x) \in SUBSET Before(S, key, y)
    BY <1>3 DEF Before
  <2>2. x \in Before(S, key, y) /\ x \notin Before(S, key, x)
    BY <1>3 DEF Before
  <2>3. /\ Cardinality(Before(S, key, x)) <= Cardinality(Before(S, key, y))
        /\ Cardinality(Before(S, key, x)) # Cardinality(Before(S, key, y))
    BY <1>2, <2>1, <2>2, FS_Subset
  <2> QED
    BY <1>2, <2>3
<1>4. \A x, y \in S : rank[x] = rank[y] => x = y
  <2> SUFFICES ASSUME NEW x \in S, NEW y \in S, rank[x] = rank[y], x # y PROVE FALSE
    OBVIOUS
  <2>1. key[x] < key[y] \/ key[y] < key[x]
    OBVIOUS
  <2>2. rank[x] < rank[y] \/ rank[y] < rank[x]
    BY <1>3, <2>1
  <2> QED
    BY <1>2, <2>2
<1>5. rank \in [S -> 0 .. n - 1]
  BY <1>2
<1>6. \A k \in 0 .. n - 1 : \E x \in S : rank[x] = k
  <2>1. rank \in Injection(S, 0 .. n - 1)
    BY <1>4, <1>5, Fun_IsInj
  <2>2. IsFiniteSet(0 .. n - 1) /\ Cardinality(0 .. n - 1) = n
    BY <1>1, FS_Interval
  <2>3. rank \in Surjection(S, 0 .. n - 1)
    BY <2>1, <2>2, FS_Injection
  <2> HIDE DEF n, rank
  <2> QED
    BY <2>3, Fun_SurjectionProperties
<1>7. ASSUME NEW k \in 1 .. n
      PROVE  /\ Sorted(S, key)[k] \in S
             /\ rank[Sorted(S, key)[k]] = k - 1
             /\ \A x \in S : rank[x] = k - 1 => Sorted(S, key)[k] = x
  <2>1. k - 1 \in 0 .. n - 1
    BY <1>1
  <2>2. PICK x \in S : Cardinality(Before(S, key, x)) = k - 1
    BY <1>6, <2>1
  <2>3. Sorted(S, key)[k] = CHOOSE y \in S : Cardinality(Before(S, key, y)) = k - 1
    BY DEF Sorted
  <2>4. Sorted(S, key)[k] \in S /\ Cardinality(Before(S, key, Sorted(S, key)[k])) = k - 1
    BY <2>2, <2>3
  <2> QED
    BY <1>4, <2>4
<1>8. ASSUME NEW x \in S
      PROVE  Sorted(S, key)[rank[x] + 1] = x
  <2>1. rank[x] + 1 \in 1 .. n /\ (rank[x] + 1) - 1 = rank[x]
    BY <1>1, <1>2
  <2> QED
    BY <1>7, <2>1
<1>9. \A x \in S : rank[x] = Cardinality(Before(S, key, x))
  OBVIOUS
<1> HIDE DEF rank
<1> QED
  BY <1>1, <1>2, <1>7, <1>8, <1>9

\* The order of places is that of numbers.
Order(places) == [i \in places |-> i]

\* The number of those of some places that come before place i.
Ahead(places, i) == Cardinality({j \in places : j < i})

\* What is chosen is what is at the places, each at the number of the chosen
\* places before its own.
LEMMA ChosenPlaces ==
  ASSUME NEW T, NEW s \in Seq(T), NEW places \in SUBSET (1 .. Len(s))
  PROVE  /\ Chosen(s, places) \in Seq(T)
         /\ Len(Chosen(s, places)) = Cardinality(places)
         /\ Cardinality(places) \in Nat
         /\ \A i \in places : /\ Ahead(places, i) + 1 \in 1 .. Cardinality(places)
                              /\ Chosen(s, places)[Ahead(places, i) + 1] = s[i]
         /\ \A k \in 1 .. Cardinality(places) :
              \E i \in places : Chosen(s, places)[k] = s[i] /\ k = Ahead(places, i) + 1
<1> DEFINE n == Cardinality(places)
           order == Sorted(places, Order(places))
<1>1. IsFiniteSet(places)
  <2>1. IsFiniteSet(1 .. Len(s))
    BY FS_Interval
  <2> QED
    BY <2>1, FS_Subset
<1>2. /\ \A i \in places : Order(places)[i] = i /\ Order(places)[i] \in Int
      /\ \A i, j \in places : Order(places)[i] = Order(places)[j] => i = j
  BY DEF Order
<1>3. \A i \in places : Before(places, Order(places), i) = {j \in places : j < i}
  BY <1>2 DEF Before
<1>4. /\ n \in Nat
      /\ \A i \in places : /\ Ahead(places, i) \in 0 .. n - 1
                           /\ order[Ahead(places, i) + 1] = i
      /\ \A k \in 1 .. n : order[k] \in places /\ Ahead(places, order[k]) = k - 1
  <2>1. /\ Cardinality(places) \in Nat
        /\ \A x \in places :
             /\ Cardinality(Before(places, Order(places), x)) \in 0 .. Cardinality(places) - 1
             /\ Sorted(places, Order(places))[Cardinality(Before(places, Order(places), x)) + 1] = x
        /\ \A k \in 1 .. Cardinality(places) :
              /\ Sorted(places, Order(places))[k] \in places
              /\ Cardinality(Before(places, Order(places), Sorted(places, Order(places))[k])) = k - 1
    <3> HIDE DEF n, order
    <3> QED
      BY <1>1, <1>2, SortedPlaces
  <2>2. \A i \in places : Ahead(places, i) = Cardinality(Before(places, Order(places), i))
    BY <1>3 DEF Ahead
  <2> QED
    BY <2>1, <2>2
<1>5. Chosen(s, places) = [k \in 1 .. n |-> s[order[k]]]
  BY DEF Chosen, Order
<1> HIDE DEF n, order
<1>6. ASSUME NEW k \in 1 .. n
      PROVE  s[order[k]] \in T
  <2>1. order[k] \in 1 .. Len(s)
    BY <1>4
  <2> QED
    BY <2>1
<1>7. Chosen(s, places) \in Seq(T) /\ Len(Chosen(s, places)) = n
  BY <1>4, <1>5, <1>6
<1>8. ASSUME NEW i \in places
      PROVE  /\ Ahead(places, i) + 1 \in 1 .. n
             /\ Chosen(s, places)[Ahead(places, i) + 1] = s[i]
  <2>1. Ahead(places, i) + 1 \in 1 .. n
    BY <1>4
  <2> QED
    BY <1>4, <1>5, <2>1
<1>9. ASSUME NEW k \in 1 .. n
      PROVE  \E i \in places : Chosen(s, places)[k] = s[i] /\ k = Ahead(places, i) + 1
  <2>1. order[k] \in places /\ Ahead(places, order[k]) = k - 1
    BY <1>4
  <2>2. k = (k - 1) + 1
    BY <1>4
  <2> QED
    BY <1>5, <2>1, <2>2
<1> QED
  BY <1>4, <1>7, <1>8, <1>9 DEF n

\* The number of places ahead of one grows with the place.
LEMMA RankGrows ==
  ASSUME NEW n \in Nat, NEW places \in SUBSET (1 .. n),
         NEW i \in places, NEW j \in places, i < j
  PROVE  Ahead(places, i) < Ahead(places, j)
<1> DEFINE before(k) == {l \in places : l < k}
<1>1. IsFiniteSet(before(j)) /\ IsFiniteSet(before(i))
  <2>1. IsFiniteSet(1 .. n)
    BY FS_Interval
  <2> QED
    BY <2>1, FS_Subset
<1>2. before(i) \in SUBSET before(j) /\ i \in before(j) /\ i \notin before(i)
  <2>1. \A l \in places : l \in Nat
    OBVIOUS
  <2>2. \A l \in places : l < i => l < j
    BY <2>1
  <2>3. ~ (i < i)
    BY <2>1
  <2> QED
    BY <2>2, <2>3
<1>3. /\ Cardinality(before(i)) \in Nat /\ Cardinality(before(j)) \in Nat
      /\ Cardinality(before(i)) <= Cardinality(before(j))
      /\ Cardinality(before(i)) # Cardinality(before(j))
  BY <1>1, <1>2, FS_Subset, FS_CardinalityType
<1> QED
  BY <1>3 DEF Ahead

\* What is chosen from a sequence of all its places, none, or one.
LEMMA ChosenAll ==
  ASSUME NEW T, NEW s \in Seq(T)
  PROVE  Chosen(s, DOMAIN s) = s
<1> DEFINE n == Len(s)
           places == 1 .. n
<1>1. n \in Nat /\ DOMAIN s = places /\ places \in SUBSET (1 .. Len(s))
  OBVIOUS
<1>2. Cardinality(places) = n
  BY <1>1, FS_Interval
<1>3. ASSUME NEW i \in places
      PROVE  Ahead(places, i) = i - 1
  <2>1. {j \in places : j < i} = 1 .. i - 1
    BY <1>1
  <2>2. 1 \in Int /\ i - 1 \in Int /\ i >= 1
    BY <1>1
  <2>3. Cardinality(1 .. i - 1) = i - 1
    BY <2>2, FS_Interval
  <2> QED
    BY <2>1, <2>3 DEF Ahead
<1> HIDE DEF places
<1>4. /\ Chosen(s, places) \in Seq(T) /\ Len(Chosen(s, places)) = n
      /\ \A i \in places : Chosen(s, places)[Ahead(places, i) + 1] = s[i]
  BY <1>1, <1>2, ChosenPlaces
<1>5. \A i \in places : i \in Int /\ (i - 1) + 1 = i
  BY <1>1 DEF places
<1>6. \A i \in places : Chosen(s, places)[i] = s[i]
  BY <1>3, <1>4, <1>5
<1>7. DOMAIN Chosen(s, places) = places
  BY <1>1, <1>4 DEF places
<1> QED
  BY <1>1, <1>4, <1>6, <1>7

\* Of no places, nothing is chosen.
LEMMA ChosenNone ==
  ASSUME NEW s
  PROVE  Chosen(s, {}) = <<>>
<1>1. Cardinality({}) = 0
  BY FS_EmptySet
<1> QED
  BY <1>1 DEF Chosen

\* Of one place, its value is chosen.
LEMMA ChosenOne ==
  ASSUME NEW T, NEW s \in Seq(T), NEW i \in 1 .. Len(s)
  PROVE  Chosen(s, {i}) = <<s[i]>>
<1>1. Cardinality({i}) = 1 /\ {i} \in SUBSET (1 .. Len(s))
  BY FS_Singleton
<1>2. /\ Chosen(s, {i}) \in Seq(T) /\ Len(Chosen(s, {i})) = 1
      /\ \A k \in 1 .. 1 : \E j \in {i} : Chosen(s, {i})[k] = s[j]
  <2> DEFINE places == {i}
  <2>1. places \in SUBSET (1 .. Len(s)) /\ Cardinality(places) = 1
    BY <1>1
  <2> HIDE DEF places
  <2>2. /\ Chosen(s, places) \in Seq(T) /\ Len(Chosen(s, places)) = 1
        /\ \A k \in 1 .. 1 : \E j \in places : Chosen(s, places)[k] = s[j]
    <3>1. /\ Chosen(s, places) \in Seq(T) /\ Len(Chosen(s, places)) = Cardinality(places)
          /\ \A k \in 1 .. Cardinality(places) : \E j \in places : Chosen(s, places)[k] = s[j]
      BY <2>1, ChosenPlaces, Zenon
    <3> QED
      BY <2>1, <3>1, Zenon
  <2> QED
    BY <2>2 DEF places
<1> QED
  BY <1>2

-----------------------------------------------------------------------------
(***************************************************************************)
(* Finite sets.                                                            *)
(***************************************************************************)
\* What holds of no elements and of one more, in any order, holds of a finite set.
LEMMA SetInduction ==
  ASSUME NEW S, IsFiniteSet(S), NEW Good, {} \in Good,
         \A T \in SUBSET S, x \in S : T \in Good /\ x \notin T => T \cup {x} \in Good
  PROVE  S \in Good
<1> DEFINE n == Cardinality(S)
<1>1. n \in Nat
  BY FS_CardinalityType
<1>2. PICK f : f \in Bijection(1 .. n, S)
  BY FS_CardinalityType DEF ExistsBijection
<1> HIDE DEF n
<1>3. /\ f \in [1 .. n -> S]
      /\ \A i, j \in 1 .. n : f[i] = f[j] => i = j
      /\ \A x \in S : \E i \in 1 .. n : f[i] = x
  BY <1>2 DEF Bijection, Injection, Surjection, IsInjective
<1> DEFINE upTo(k) == {f[i] : i \in 1 .. k}
           G == {k \in 0 .. n : upTo(k) \in Good}
<1>4. 0 \in G
  <2>1. 0 \in 0 .. n /\ upTo(0) = {}
    BY <1>1
  <2> QED
    BY <2>1
<1>5. \A k \in 0 .. n - 1 : k \in G => k + 1 \in G
  <2> SUFFICES ASSUME NEW k \in 0 .. n - 1, k \in G PROVE k + 1 \in G
    OBVIOUS
  <2>1. k + 1 \in 1 .. n /\ k + 1 \in 0 .. n /\ \A i \in 1 .. k : i \in 1 .. n /\ i # k + 1
    BY <1>1
  <2>2. upTo(k) \in SUBSET S /\ f[k + 1] \in S /\ f[k + 1] \notin upTo(k)
    BY <1>3, <2>1
  <2>3. upTo(k + 1) = upTo(k) \cup {f[k + 1]}
    <3>1. 1 .. k + 1 = (1 .. k) \cup {k + 1}
      BY <1>1
    <3> QED
      BY <3>1
  <2>4. upTo(k) \in Good
    OBVIOUS
  <2> HIDE DEF upTo
  <2>5. upTo(k + 1) \in Good
    BY <2>2, <2>3, <2>4
  <2> QED
    BY <2>1, <2>5
<1>6. n \in G
  <2> HIDE DEF G
  <2>1. 0 .. n \subseteq G
    BY <1>1, <1>4, <1>5, InductionTo
  <2> QED
    BY <1>1, <2>1
<1>7. upTo(n) = S
  BY <1>3
<1> QED
  BY <1>6, <1>7

\* The images of a finite set are finitely many.
LEMMA ImageFinite ==
  ASSUME NEW S, IsFiniteSet(S), NEW f
  PROVE  IsFiniteSet({f[x] : x \in S})
<1> DEFINE T == {f[x] : x \in S}
           g == [x \in S |-> f[x]]
<1>1. g \in [S -> T] /\ \A y \in T : \E x \in S : g[x] = y
  OBVIOUS
<1>2. g \in Surjection(S, T)
  BY <1>1, Fun_IsSurj
<1> QED
  BY <1>2, FS_Surjection

\* Finitely many finite sets together are finite.
LEMMA UnionFinite ==
  ASSUME NEW S, IsFiniteSet(S), NEW f, \A x \in S : IsFiniteSet(f[x])
  PROVE  IsFiniteSet(UNION {f[x] : x \in S})
<1> DEFINE Good == {T \in SUBSET S : IsFiniteSet(UNION {f[x] : x \in T})}
<1>1. {} \in Good
  BY FS_EmptySet
<1>2. ASSUME NEW T \in SUBSET S, NEW x \in S, T \in Good
      PROVE  T \cup {x} \in Good
  <2>1. UNION {f[y] : y \in T \cup {x}} = (UNION {f[y] : y \in T}) \cup f[x]
    OBVIOUS
  <2>2. IsFiniteSet(UNION {f[y] : y \in T}) /\ IsFiniteSet(f[x])
    BY <1>2
  <2>3. IsFiniteSet((UNION {f[y] : y \in T}) \cup f[x])
    BY <2>2, FS_Union
  <2>4. IsFiniteSet(UNION {f[y] : y \in T \cup {x}}) /\ T \cup {x} \in SUBSET S
    BY <2>1, <2>3
  <2> QED
    BY <2>4
<1>3. S \in Good
  <2> HIDE DEF Good
  <2> QED
    BY <1>1, <1>2, SetInduction
<1> QED
  BY <1>3

\* Finitely many numbers have a least and a greatest.
LEMMA Extremes ==
  ASSUME NEW S \in SUBSET Int, IsFiniteSet(S), S # {}
  PROVE  /\ Min(S) \in S /\ \A x \in S : Min(S) <= x
         /\ Max(S) \in S /\ \A x \in S : x <= Max(S)
<1> DEFINE Good == {T \in SUBSET S : T # {} => /\ \E x \in T : \A y \in T : x <= y
                                               /\ \E x \in T : \A y \in T : x >= y}
<1>1. {} \in Good
  OBVIOUS
<1>2. ASSUME NEW T \in SUBSET S, NEW x \in S, T \in Good
      PROVE  T \cup {x} \in Good
  <2>1. CASE T = {}
    BY <2>1
  <2>2. CASE T # {}
    <3>1. PICK least \in T : \A y \in T : least <= y
      BY <1>2, <2>2
    <3>2. PICK most \in T : \A y \in T : most >= y
      BY <1>2, <2>2
    <3>3. \E z \in T \cup {x} : \A y \in T \cup {x} : z <= y
      <4>1. CASE least <= x
        BY <3>1, <4>1
      <4>2. CASE ~ (least <= x)
        BY <3>1, <4>2
      <4> QED
        BY <4>1, <4>2
    <3>4. \E z \in T \cup {x} : \A y \in T \cup {x} : z >= y
      <4>1. CASE most >= x
        BY <3>2, <4>1
      <4>2. CASE ~ (most >= x)
        BY <3>2, <4>2
      <4> QED
        BY <4>1, <4>2
    <3> QED
      BY <3>3, <3>4
  <2> QED
    BY <2>1, <2>2
<1>3. S \in Good
  <2> HIDE DEF Good
  <2> QED
    BY <1>1, <1>2, SetInduction
<1>4. PICK least \in S : \A y \in S : least <= y
  BY <1>3
<1>5. PICK most \in S : \A y \in S : most >= y
  BY <1>3
<1>6. Min(S) \in S /\ \A x \in S : Min(S) <= x
  BY <1>4 DEF Min
<1>7. Max(S) \in S /\ \A x \in S : Max(S) >= x
  BY <1>5 DEF Max
<1>8. \A x \in S : x <= Max(S)
  BY <1>7
<1> QED
  BY <1>6, <1>7, <1>8

\* Of one number.
LEMMA OneExtreme ==
  ASSUME NEW x \in Int
  PROVE  Min({x}) = x /\ Max({x}) = x
BY DEF Min, Max

\* Of two numbers.
LEMMA TwoExtremes ==
  ASSUME NEW x \in Int, NEW y \in Int
  PROVE  /\ Min({x, y}) = IF x <= y THEN x ELSE y
         /\ Max({x, y}) = IF x <= y THEN y ELSE x
<1>1. CASE x <= y
  <2>1. \A z \in {x, y} : (\A w \in {x, y} : z <= w) <=> z = x
    BY <1>1
  <2>2. \A z \in {x, y} : (\A w \in {x, y} : z >= w) <=> z = y
    BY <1>1
  <2> QED
    BY <1>1, <2>1, <2>2 DEF Min, Max
<1>2. CASE ~ (x <= y)
  <2>1. \A z \in {x, y} : (\A w \in {x, y} : z <= w) <=> z = y
    BY <1>2
  <2>2. \A z \in {x, y} : (\A w \in {x, y} : z >= w) <=> z = x
    BY <1>2
  <2> QED
    BY <1>2, <2>1, <2>2 DEF Min, Max
<1> QED
  BY <1>1, <1>2

-----------------------------------------------------------------------------
(***************************************************************************)
(* Domains.                                                                *)
(***************************************************************************)
LEMMA Members ==
  ASSUME NEW S, NEW seq \in Seq(S)
  PROVE  /\ Len(seq) \in Nat /\ DOMAIN seq = 1 .. Len(seq)
         /\ \A k \in DOMAIN seq : seq[k] \in S
OBVIOUS

\* There are finitely many targets with finitely many values, each typed.
LEMMA TargetsFinite ==
  ASSUME NEW ts, IsTargets(ts)
  PROVE  /\ IsFiniteSet(ToSet(ts)) /\ ToSet(ts) # {}
         /\ \A t \in ToSet(ts) : /\ t \in Targets /\ Len(t.values) \in Nat
                                 /\ DOMAIN t.values = 1 .. Len(t.values)
                                 /\ IsFiniteSet(DOMAIN t.values)
                                 /\ \A k \in DOMAIN t.values :
                                      t.values[k] \in [x : Int, value : Int, index : Nat]
<1>1. ts \in Seq(Targets) /\ DOMAIN ts = 1 .. Len(ts) /\ Len(ts) \in Nat /\ ts # <<>>
  BY DEF IsTargets
<1>2. IsFiniteSet(ToSet(ts)) /\ ToSet(ts) # {}
  <2>1. IsFiniteSet(DOMAIN ts)
    BY <1>1, FS_Interval
  <2> QED
    BY <1>1, <2>1, ImageFinite DEF ToSet
<1>3. ASSUME NEW t \in ToSet(ts)
      PROVE  /\ t \in Targets /\ Len(t.values) \in Nat
             /\ DOMAIN t.values = 1 .. Len(t.values)
             /\ IsFiniteSet(DOMAIN t.values)
             /\ \A k \in DOMAIN t.values :
                  t.values[k] \in [x : Int, value : Int, index : Nat]
  <2>1. t \in Targets
    BY <1>1 DEF ToSet
  <2>2. t.values \in Seq([x : Int, value : Int, index : Nat])
    BY <2>1 DEF Targets
  <2>3. Len(t.values) \in Nat /\ DOMAIN t.values = 1 .. Len(t.values)
    BY <2>2
  <2>4. IsFiniteSet(DOMAIN t.values)
    BY <2>3, FS_Interval
  <2>5. \A k \in DOMAIN t.values : t.values[k] \in [x : Int, value : Int, index : Nat]
    <3> DEFINE values == t.values
    <3>1. values \in Seq([x : Int, value : Int, index : Nat])
      BY <2>2
    <3> HIDE DEF values
    <3>2. \A k \in DOMAIN values : values[k] \in [x : Int, value : Int, index : Nat]
      BY <3>1, Members
    <3> QED
      BY <3>2 DEF values
  <2> QED
    BY <2>1, <2>3, <2>4, <2>5
<1> QED
  BY <1>2, <1>3

\* There are finitely many values, and at least one.
LEMMA ValuesFinite ==
  ASSUME NEW ts, IsTargets(ts)
  PROVE  ValueSet(ts) \in SUBSET Int /\ IsFiniteSet(ValueSet(ts)) /\ ValueSet(ts) # {}
<1> DEFINE of == [t \in ToSet(ts) |-> {t.values[k].value : k \in DOMAIN t.values}]
<1>1. \A t \in ToSet(ts) : IsFiniteSet(of[t])
  <2> TAKE t \in ToSet(ts)
  <2> DEFINE value == [k \in DOMAIN t.values |-> t.values[k].value]
  <2>1. IsFiniteSet({value[k] : k \in DOMAIN t.values})
    <3>1. IsFiniteSet(DOMAIN t.values)
      BY TargetsFinite
    <3> HIDE DEF value
    <3> QED
      BY <3>1, ImageFinite
  <2>2. {value[k] : k \in DOMAIN t.values} = of[t]
    OBVIOUS
  <2> QED
    BY <2>1, <2>2
<1>2. ValueSet(ts) = UNION {of[t] : t \in ToSet(ts)}
  BY DEF ValueSet
<1> HIDE DEF of
<1>3. IsFiniteSet(ValueSet(ts))
  BY <1>1, <1>2, TargetsFinite, UnionFinite
<1>4. ValueSet(ts) \in SUBSET Int
  BY TargetsFinite DEF ValueSet
<1>5. ValueSet(ts) # {}
  <2>1. PICK t \in ToSet(ts) : t.values # <<>>
    BY DEF IsTargets
  <2>2. 1 \in DOMAIN t.values
    <3>1. t.values \in Seq([x : Int, value : Int, index : Nat])
      BY TargetsFinite DEF Targets
    <3> QED
      BY <2>1, <3>1
  <2>3. t.values[1].value \in ValueSet(ts)
    BY <2>2 DEF ValueSet
  <2> QED
    BY <2>3
<1> QED
  BY <1>3, <1>4, <1>5

\* Without groups the values are stacked on nothing.
LEMMA StackedAlone ==
  ASSUME NEW ts, NEW sign
  PROVE  Stacked(ts, <<>>, sign) = ValueSet(ts)
<1>1. ToSet(<<>>) = {}
  BY DEF ToSet
<1> QED
  BY <1>1 DEF Stacked, ValueSet

\* Two ends between which an axis has some height, or those of a single value.
LEMMA ApartEnds ==
  ASSUME NEW bottom \in Int, NEW top \in Int
  PROVE  LET ends == Apart(bottom, top)
         IN  /\ ends[1] \in Int /\ ends[2] \in Int
             /\ bottom <= top => ends[1] <= bottom /\ top <= ends[2]
             /\ bottom <= top => ends[1] < ends[2] \/ (bottom = 0 /\ top = 0 /\ ends[1] = 0 /\ ends[2] = 0)
             /\ bottom # top => ends = <<bottom, top>>
             /\ bottom = top => (ends = <<bottom, 0>> /\ bottom < 0) \/ (ends = <<0, top>> /\ top >= 0)
BY DEF Apart

\* The absolute value.
LEMMA AbsOf ==
  ASSUME NEW n \in Int
  PROVE  Abs(n) \in Nat /\ (n >= 0 => Abs(n) = n) /\ (n < 0 => Abs(n) = -n)
         /\ n <= Abs(n) /\ -n <= Abs(n)
BY DEF Abs

\* The limits of the page hold, and one alone is kept apart from the data.
LEMMA AxisOfLimits ==
  ASSUME NEW lowest \in Int, NEW highest \in Int, lowest <= highest, Null \notin Int,
         NEW c \in [min : Limits, max : Limits, center : Limits,
                    zeroBased : BOOLEAN, inverted : BOOLEAN]
  PROVE  LET limited == Limited(lowest, highest, c)
         IN  /\ limited[1] \in Int /\ limited[2] \in Int
             /\ c.min = Null /\ c.max = Null => limited[1] = lowest /\ limited[2] = highest
             /\ c.min # Null => limited[1] = c.min
             /\ c.max # Null => limited[2] = c.max
             /\ c.min # Null /\ c.max = Null => limited[1] < limited[2]
             /\ c.min = Null /\ c.max # Null => limited[1] < limited[2]
<1>1. /\ c.min \in Limits /\ c.max \in Limits
      /\ (c.min # Null => c.min \in Int) /\ (c.max # Null => c.max \in Int)
  BY DEF Limits
<1> QED
  BY <1>1 DEF Limited

\* The domain is upright where the ends are.
LEMMA AroundEndsUpright ==
  ASSUME NEW low \in Int, NEW high \in Int, Null \notin Int,
         NEW c \in [min : Limits, max : Limits, center : Limits,
                    zeroBased : BOOLEAN, inverted : BOOLEAN],
         NEW d, d = AroundEnds(<<low, high>>, c)
  PROVE  LET bottom == IF c.inverted THEN d[2] ELSE d[1]
             top == IF c.inverted THEN d[1] ELSE d[2]
         IN  /\ bottom \in Int /\ top \in Int
             /\ ~ (c.zeroBased /\ c.center # Null) /\ low < high => bottom < top
             /\ ~ (c.zeroBased /\ c.center # Null) /\ low = 0 /\ high = 0 => bottom = top
             /\ c.center = Null /\ low <= high => bottom <= 100 * low /\ 100 * high <= top
             /\ c.center # Null /\ ~ c.zeroBased => bottom + top = 200 * c.center
<1> DEFINE positive == low >= 0 /\ high >= 0
           negative == low <= 0 /\ high <= 0
           zero == /\ c.zeroBased
                   /\ ~ (c.min # Null /\ positive) /\ ~ (c.max # Null /\ negative)
           lowest == IF zero /\ positive THEN 0 ELSE low
           highest == IF zero /\ negative THEN 0 ELSE high
           padding == 10 * Abs(highest - lowest)
           abs == Max({Abs(lowest), Abs(highest)})
           from == IF c.center = Null THEN lowest ELSE c.center - abs
           to == IF c.center = Null THEN highest ELSE c.center + abs
           bottom == IF zero /\ positive THEN 0 ELSE 100 * from - padding
           top == IF zero /\ negative THEN 0 ELSE 100 * to + padding
<1>1. d = IF c.inverted THEN <<top, bottom>> ELSE <<bottom, top>>
  BY DEF AroundEnds
<1>2. /\ IF c.inverted THEN d[2] = bottom ELSE d[1] = bottom
      /\ IF c.inverted THEN d[1] = top ELSE d[2] = top
  <2> HIDE DEF bottom, top
  <2> QED
    BY <1>1
<1>3. lowest \in Int /\ highest \in Int
  OBVIOUS
<1>4. c.center # Null => c.center \in Int
  BY DEF Limits
<1>5. padding \in Nat /\ (lowest <= highest => padding = 10 * (highest - lowest))
  <2> HIDE DEF lowest, highest
  <2>1. highest - lowest \in Int
    BY <1>3
  <2> QED
    BY <1>3, <2>1, AbsOf
<1>6. abs \in Nat /\ Abs(lowest) <= abs /\ Abs(highest) <= abs /\ (abs = Abs(lowest) \/ abs = Abs(highest))
  <2> HIDE DEF lowest, highest
  <2>1. Abs(lowest) \in Nat /\ Abs(highest) \in Nat
    BY <1>3, AbsOf
  <2>2. abs = IF Abs(lowest) <= Abs(highest) THEN Abs(highest) ELSE Abs(lowest)
    <3> DEFINE m == Abs(lowest)
               n == Abs(highest)
    <3>1. m \in Int /\ n \in Int /\ abs = Max({m, n})
      BY <2>1
    <3> HIDE DEF m, n, abs
    <3>2. Max({m, n}) = IF m <= n THEN n ELSE m
      BY <3>1, TwoExtremes
    <3> QED
      BY <3>1, <3>2 DEF m, n
  <2> HIDE DEF abs
  <2> QED
    BY <2>1, <2>2
<1>7. /\ -abs <= lowest /\ highest <= abs
      /\ lowest < highest => abs > 0
      /\ lowest = 0 /\ highest = 0 => abs = 0
  <2> HIDE DEF lowest, highest, abs
  <2> QED
    BY <1>3, <1>6, AbsOf
<1> HIDE DEF padding, abs
<1>8. CASE c.center = Null
  <2>1. from = lowest /\ to = highest
    BY <1>8
  <2>2. low < high => lowest < highest \/ (zero /\ positive /\ negative)
    OBVIOUS
  <2>3. low < high => bottom < top
    BY <1>3, <1>5, <2>1
  <2>4. low = 0 /\ high = 0 => bottom = top
    BY <1>3, <1>5, <2>1
  <2>5. low <= high => bottom <= 100 * low /\ 100 * high <= top
    BY <1>3, <1>5, <2>1
  <2>6. bottom \in Int /\ top \in Int
    BY <1>3, <1>5, <2>1
  <2> QED
    BY <1>2, <1>8, <2>3, <2>4, <2>5, <2>6
<1>9. CASE c.center # Null
  <2>1. c.center \in Int /\ from = c.center - abs /\ to = c.center + abs
    BY <1>4, <1>9
  <2>2. bottom \in Int /\ top \in Int
    BY <1>5, <1>6, <2>1
  <2>3. ASSUME ~ c.zeroBased
        PROVE  /\ lowest = low /\ highest = high
               /\ bottom = 100 * (c.center - abs) - padding
               /\ top = 100 * (c.center + abs) + padding
    BY <2>1, <2>3
  <2>4. ~ c.zeroBased => bottom + top = 200 * c.center
    <3> HIDE DEF bottom, top, lowest, highest
    <3> QED
      BY <1>5, <1>6, <2>1, <2>3
  <2>5. ~ c.zeroBased /\ low < high => bottom < top
    <3> HIDE DEF bottom, top, lowest, highest
    <3> QED
      BY <1>5, <1>6, <1>7, <2>1, <2>3
  <2>6. ~ c.zeroBased /\ low = 0 /\ high = 0 => bottom = top
    <3> HIDE DEF bottom, top, lowest, highest
    <3>1. ~ c.zeroBased /\ low = 0 /\ high = 0 => abs = 0 /\ padding = 0
      BY <1>5, <1>7, <2>3
    <3> QED
      BY <2>1, <2>3, <3>1
  <2> QED
    BY <1>2, <1>9, <2>2, <2>4, <2>5, <2>6
<1> QED
  BY <1>8, <1>9

\* What AxisUpright says of a question, of every question about an axis.
LEMMA AxisAnswered ==
  ASSUME Null \notin Int, NEW i, IsAxis(i)
  PROVE  LET c == i.config
             limited == c.min # Null \/ c.max # Null
             upright(bottom, top) ==
               /\ \/ c.min # Null /\ c.max # Null /\ c.min >= c.max
                  \/ c.zeroBased /\ c.center # Null
                  \/ bottom < top
                  \/ bottom = top /\ ~ limited /\ ValueSet(i.ts) = {0}
               /\ ~ limited /\ c.center = Null =>
                     \A v \in ValueSet(i.ts) : bottom <= 100 * v /\ 100 * v <= top
               /\ c.center # Null /\ ~ c.zeroBased => bottom + top = 200 * c.center
             way(domain) == IF c.inverted THEN upright(domain[2], domain[1])
                                          ELSE upright(domain[1], domain[2])
         IN  way(YDomain(i.ts, <<>>, c))
<1> DEFINE c == i.config
           limited == c.min # Null \/ c.max # Null
           values == ValueSet(i.ts)
           least == Min(values)
           most == Max(values)
           limits == Limited(least, most, c)
           ends == Apart(limits[1], limits[2])
           d == YDomain(i.ts, <<>>, c)
           bottom == IF c.inverted THEN d[2] ELSE d[1]
           top == IF c.inverted THEN d[1] ELSE d[2]
<1>1. c \in [min : Limits, max : Limits, center : Limits,
             zeroBased : BOOLEAN, inverted : BOOLEAN]
  BY DEF IsAxis
<1>2. values \in SUBSET Int /\ IsFiniteSet(values) /\ values # {}
  BY ValuesFinite DEF IsAxis
<1> HIDE DEF values
<1>3. /\ least \in values /\ most \in values /\ least \in Int /\ most \in Int
      /\ \A v \in values : v \in Int /\ least <= v /\ v <= most
  BY <1>2, Extremes
<1>4. d = AroundEnds(ends, c)
  BY StackedAlone DEF YDomain, YDomainMin, YDomainMax, values
<1> HIDE DEF least, most, c
<1>5. least <= most
  BY <1>3
<1>6. /\ limits[1] \in Int /\ limits[2] \in Int
      /\ c.min = Null /\ c.max = Null => limits[1] = least /\ limits[2] = most
      /\ c.min # Null => limits[1] = c.min
      /\ c.max # Null => limits[2] = c.max
      /\ c.min # Null /\ c.max = Null => limits[1] < limits[2]
      /\ c.min = Null /\ c.max # Null => limits[1] < limits[2]
  BY <1>1, <1>3, <1>5, AxisOfLimits
<1> HIDE DEF limits
<1>7. /\ ends[1] \in Int /\ ends[2] \in Int /\ ends = <<ends[1], ends[2]>>
      /\ limits[1] <= limits[2] => ends[1] <= limits[1] /\ limits[2] <= ends[2]
      /\ limits[1] <= limits[2] =>
           ends[1] < ends[2] \/ (limits[1] = 0 /\ limits[2] = 0 /\ ends[1] = 0 /\ ends[2] = 0)
  <2>1. ends = <<ends[1], ends[2]>>
    BY DEF Apart
  <2> QED
    BY <1>6, <2>1, ApartEnds
<1> HIDE DEF ends
<1>8. /\ bottom \in Int /\ top \in Int
      /\ ~ (c.zeroBased /\ c.center # Null) /\ ends[1] < ends[2] => bottom < top
      /\ ~ (c.zeroBased /\ c.center # Null) /\ ends[1] = 0 /\ ends[2] = 0 => bottom = top
      /\ c.center = Null /\ ends[1] <= ends[2] => bottom <= 100 * ends[1] /\ 100 * ends[2] <= top
      /\ c.center # Null /\ ~ c.zeroBased => bottom + top = 200 * c.center
  <2>1. d = AroundEnds(<<ends[1], ends[2]>>, c)
    BY <1>4, <1>7
  <2> HIDE DEF d
  <2> QED
    BY <1>1, <1>7, <2>1, AroundEndsUpright
<1> HIDE DEF d
<1>9. \/ c.min # Null /\ c.max # Null /\ c.min >= c.max
      \/ c.zeroBased /\ c.center # Null
      \/ bottom < top
      \/ bottom = top /\ ~ limited /\ values = {0}
  <2> HIDE DEF bottom, top
  <2> SUFFICES ASSUME ~ (c.min # Null /\ c.max # Null /\ c.min >= c.max),
                      ~ (c.zeroBased /\ c.center # Null)
               PROVE  bottom < top \/ (bottom = top /\ ~ limited /\ values = {0})
    OBVIOUS
  <2>1. limits[1] <= limits[2]
    BY <1>5, <1>6
  <2>2. CASE ends[1] < ends[2]
    BY <1>8, <2>2
  <2>3. CASE ~ (ends[1] < ends[2])
    <3>1. limits[1] = 0 /\ limits[2] = 0 /\ ends[1] = 0 /\ ends[2] = 0
      BY <1>7, <2>1, <2>3
    <3>2. bottom = top
      BY <1>8, <3>1
    <3>3. ~ limited
      BY <1>6, <3>1
    <3>4. \A v \in values : v = 0
      BY <1>3, <1>6, <3>1, <3>3
    <3> QED
      BY <1>2, <3>2, <3>3, <3>4
  <2> QED
    BY <2>2, <2>3
<1>10. ASSUME ~ limited, c.center = Null, NEW v \in values
       PROVE  bottom <= 100 * v /\ 100 * v <= top
  <2> HIDE DEF bottom, top
  <2>1. limits[1] = least /\ limits[2] = most /\ v \in Int /\ least <= v /\ v <= most
    BY <1>3, <1>6, <1>10
  <2>2. ends[1] <= v /\ v <= ends[2] /\ ends[1] <= ends[2]
    BY <1>3, <1>5, <1>7, <2>1
  <2>3. bottom <= 100 * ends[1] /\ 100 * ends[2] <= top
    BY <1>8, <1>10, <2>2
  <2> QED
    BY <1>7, <1>8, <2>1, <2>2, <2>3
<1>11. c.inverted \in BOOLEAN
  BY <1>1
<1> QED
  BY <1>8, <1>9, <1>10, <1>11 DEF c, values, d

\* The x of all targets; the domain is made of the least and the greatest of them.
LEMMA XsFinite ==
  ASSUME NEW ts, IsTargets(ts)
  PROVE  Xs(ts) \in SUBSET Int /\ IsFiniteSet(Xs(ts)) /\ Xs(ts) # {}
<1> DEFINE of == [t \in ToSet(ts) |-> {t.values[k].x : k \in DOMAIN t.values}]
<1>1. \A t \in ToSet(ts) : IsFiniteSet(of[t])
  <2> TAKE t \in ToSet(ts)
  <2> DEFINE x == [k \in DOMAIN t.values |-> t.values[k].x]
  <2>1. IsFiniteSet({x[k] : k \in DOMAIN t.values})
    <3>1. IsFiniteSet(DOMAIN t.values)
      BY TargetsFinite
    <3> HIDE DEF x
    <3> QED
      BY <3>1, ImageFinite
  <2>2. {x[k] : k \in DOMAIN t.values} = of[t]
    OBVIOUS
  <2> QED
    BY <2>1, <2>2
<1>2. Xs(ts) = UNION {of[t] : t \in ToSet(ts)}
  BY DEF Xs
<1> HIDE DEF of
<1>3. IsFiniteSet(Xs(ts))
  BY <1>1, <1>2, TargetsFinite, UnionFinite
<1>4. Xs(ts) \in SUBSET Int
  BY TargetsFinite DEF Xs
<1>5. Xs(ts) # {}
  <2>1. PICK t \in ToSet(ts) : t.values # <<>>
    BY DEF IsTargets
  <2>2. 1 \in DOMAIN t.values
    <3>1. t.values \in Seq([x : Int, value : Int, index : Nat])
      BY TargetsFinite DEF Targets
    <3> QED
      BY <2>1, <3>1
  <2>3. t.values[1].x \in Xs(ts)
    BY <2>2 DEF Xs
  <2> QED
    BY <2>3
<1> QED
  BY <1>3, <1>4, <1>5

\* The greatest number of values of a target is a number.
LEMMA MostValues ==
  ASSUME NEW ts, IsTargets(ts)
  PROVE  Max({Len(t.values) : t \in ToSet(ts)}) \in Nat
<1> DEFINE len == [t \in ToSet(ts) |-> Len(t.values)]
           lens == {Len(t.values) : t \in ToSet(ts)}
<1>1. lens = {len[t] : t \in ToSet(ts)} /\ lens \in SUBSET Nat /\ lens # {}
  <2>1. PICK t \in ToSet(ts) : TRUE
    BY TargetsFinite
  <2>2. len[t] \in lens
    OBVIOUS
  <2>3. \A u \in ToSet(ts) : Len(u.values) \in Nat
    BY TargetsFinite
  <2> QED
    BY <2>2, <2>3
<1>2. IsFiniteSet(lens)
  <2>1. IsFiniteSet({len[t] : t \in ToSet(ts)})
    <3> HIDE DEF len
    <3> QED
      BY TargetsFinite, ImageFinite
  <2> QED
    BY <1>1, <2>1
<1> HIDE DEF lens
<1>3. Max(lens) \in lens
  <2>1. lens \in SUBSET Int
    BY <1>1
  <2> QED
    BY <1>1, <1>2, <2>1, Extremes
<1> QED
  BY <1>1, <1>3 DEF lens

\* A part of a width is not negative, and none of no width.
LEMMA HalfBar ==
  ASSUME NEW n \in Nat, NEW d \in Nat, d > 0
  PROVE  n \div d \in Nat /\ (n = 0 => n \div d = 0)
OBVIOUS

\* An extent has its lower end first.
LEMMA ExtentOf ==
  ASSUME NEW m \in Int, NEW n \in Int
  PROVE  Extent(<<m, n>>) = IF m <= n THEN <<m, n>> ELSE <<n, m>>
<1>1. ToSet(<<m, n>>) = {m, n}
  BY DEF ToSet
<1> QED
  BY <1>1, TwoExtremes DEF Extent

\* The horizontal domain holds every x and is no point, but for a bar at -1.
LEMMA XDomainHolds ==
  ASSUME NEW ts, IsTargets(ts), NEW category \in BOOLEAN, NEW bars \in BOOLEAN
  PROVE  LET d == XDomain(ts, category, bars)
             xs == Xs(ts)
         IN  /\ d[1] \in Int /\ d[2] \in Int
             /\ \A x \in xs : x \in Int /\ d[1] <= 100 * x /\ 100 * x <= d[2]
             /\ ~ category /\ ~ (bars /\ xs = {-1}) => d[2] - d[1] > 0
<1> DEFINE xs == Xs(ts)
           count == Max({Len(t.values) : t \in ToSet(ts)})
           first == Min(xs)
           last == Max(xs)
           padding == IF category THEN 0
                      ELSE IF bars THEN (IF count > 1 THEN (100 * (last - first)) \div (2 * (count - 1)) ELSE 50)
                      ELSE last - first
           point == first = last /\ ~ category
           from == (IF point THEN (IF first = 0 THEN 100 ELSE 50 * first) ELSE 100 * first) - padding
           to == (IF point THEN (IF last = 0 THEN -100 ELSE 150 * last) ELSE 100 * last) + padding
           d == XDomain(ts, category, bars)
<1>1. xs \in SUBSET Int /\ IsFiniteSet(xs) /\ xs # {}
  BY XsFinite
<1>2. d = Extent(<<from, to>>)
  BY DEF XDomain
<1> HIDE DEF xs
<1>3. /\ first \in xs /\ last \in xs /\ first \in Int /\ last \in Int /\ first <= last
      /\ \A x \in xs : x \in Int /\ first <= x /\ x <= last
  BY <1>1, Extremes
<1>4. count \in Nat
  BY MostValues
<1> HIDE DEF first, last, count
<1>5. /\ padding \in Nat /\ (category => padding = 0)
      /\ ~ category /\ bars /\ first = last => padding \in {0, 50}
      /\ ~ category /\ ~ bars => padding = last - first
  <2>1. ASSUME count > 1
        PROVE  /\ (100 * (last - first)) \div (2 * (count - 1)) \in Nat
               /\ first = last => (100 * (last - first)) \div (2 * (count - 1)) = 0
    <3>1. 100 * (last - first) \in Nat /\ 2 * (count - 1) \in Nat /\ 2 * (count - 1) > 0
          /\ (first = last => 100 * (last - first) = 0)
      BY <1>3, <1>4, <2>1
    <3> QED
      BY <3>1, HalfBar
  <2> QED
    BY <1>3, <1>4, <2>1
<1> HIDE DEF padding
<1>6. from \in Int /\ to \in Int
  BY <1>3, <1>5
<1>7. d = IF from <= to THEN <<from, to>> ELSE <<to, from>>
  <2> HIDE DEF from, to
  <2> QED
    BY <1>2, <1>6, ExtentOf
<1>8. /\ d[1] = IF from <= to THEN from ELSE to
      /\ d[2] = IF from <= to THEN to ELSE from
  <2> HIDE DEF from, to, d
  <2> QED
    BY <1>7
<1> HIDE DEF d
<1>9. CASE ~ point
  <2>1. from = 100 * first - padding /\ to = 100 * last + padding
    BY <1>9
  <2> HIDE DEF from, to
  <2>2. from <= to /\ from <= 100 * first /\ 100 * last <= to
    BY <1>3, <1>5, <1>6, <2>1
  <2>3. ~ category => first # last
    BY <1>9
  <2>4. ~ category => d[2] - d[1] > 0
    BY <1>3, <1>5, <1>6, <1>8, <2>1, <2>2, <2>3
  <2>5. \A x \in xs : d[1] <= 100 * x /\ 100 * x <= d[2]
    <3> TAKE x \in xs
    <3>1. x \in Int /\ first <= x /\ x <= last
      BY <1>3
    <3> QED
      BY <1>3, <1>6, <1>8, <2>2, <3>1
  <2> QED
    BY <1>3, <1>6, <1>8, <2>4, <2>5 DEF d, xs
<1>10. CASE point
  <2>1. /\ first = last /\ ~ category
        /\ from = (IF first = 0 THEN 100 ELSE 50 * first) - padding
        /\ to = (IF first = 0 THEN -100 ELSE 150 * first) + padding
    BY <1>10
  <2>2. padding \in {0, 50}
    BY <1>3, <1>5, <2>1
  <2> HIDE DEF from, to, point
  <2>3. xs = {first}
    <3>1. \A x \in xs : x = first
      BY <1>3, <2>1
    <3> QED
      BY <1>3, <3>1
  <2>4. d[1] <= 100 * first /\ 100 * first <= d[2]
    BY <1>3, <1>6, <1>8, <2>1, <2>2
  <2>5. ~ (bars /\ first = -1) => d[2] - d[1] > 0
    <3>1. ~ bars => padding = 0
      BY <1>3, <1>5, <2>1
    <3> QED
      BY <1>3, <1>6, <1>8, <2>1, <2>2, <3>1
  <2>6. ~ (bars /\ xs = {-1}) => d[2] - d[1] > 0
    BY <2>3, <2>5
  <2> QED
    BY <1>3, <1>6, <1>8, <2>3, <2>4, <2>6 DEF d, xs
<1> QED
  BY <1>9, <1>10

\* A zoomed domain that fits is moved within the whole one, as wide as it was.
LEMMA TrimmedWithin ==
  ASSUME NEW z \in Int \X Int, NEW org, org[1] \in Int, org[2] \in Int,
         z[2] - z[1] <= org[2] - org[1]
  PROVE  LET trimmed == TrimXDomain(z, org)
         IN  /\ trimmed[2] - trimmed[1] = z[2] - z[1]
             /\ org[1] <= trimmed[1] /\ trimmed[2] <= org[2]
<1>1. z[1] \in Int /\ z[2] \in Int
  OBVIOUS
<1> QED
  BY <1>1 DEF TrimXDomain

\* What DomainHoldsData says of a question, of every question about a domain.
LEMMA DomainAnswered ==
  ASSUME NEW i, IsDomain(i)
  PROVE  LET domain == XDomain(i.ts, i.category, i.bars)
             trimmed == TrimXDomain(i.zoomed, domain)
             width(d) == d[2] - d[1]
             xs == Xs(i.ts)
         IN  /\ \A x \in xs : domain[1] <= 100 * x /\ 100 * x <= domain[2]
             /\ ~ i.category /\ ~ (i.bars /\ xs = {-1}) => width(domain) > 0
             /\ width(i.zoomed) <= width(domain) =>
                   /\ width(trimmed) = width(i.zoomed)
                   /\ domain[1] <= trimmed[1] /\ trimmed[2] <= domain[2]
<1> DEFINE domain == XDomain(i.ts, i.category, i.bars)
           xs == Xs(i.ts)
<1>1. IsTargets(i.ts) /\ i.bars \in BOOLEAN /\ i.category \in BOOLEAN /\ i.zoomed \in Int \X Int
  BY DEF IsDomain
<1>2. /\ domain[1] \in Int /\ domain[2] \in Int
      /\ \A x \in xs : x \in Int /\ domain[1] <= 100 * x /\ 100 * x <= domain[2]
      /\ ~ i.category /\ ~ (i.bars /\ xs = {-1}) => domain[2] - domain[1] > 0
  BY <1>1, XDomainHolds
<1> HIDE DEF domain
<1>3. i.zoomed[2] - i.zoomed[1] <= domain[2] - domain[1] =>
        /\ TrimXDomain(i.zoomed, domain)[2] - TrimXDomain(i.zoomed, domain)[1]
             = i.zoomed[2] - i.zoomed[1]
        /\ domain[1] <= TrimXDomain(i.zoomed, domain)[1]
        /\ TrimXDomain(i.zoomed, domain)[2] <= domain[2]
  BY <1>1, <1>2, TrimmedWithin
<1> HIDE DEF xs
<1> QED
  BY <1>2, <1>3 DEF domain, xs

-----------------------------------------------------------------------------
(***************************************************************************)
(* Data of columns.                                                        *)
(***************************************************************************)
\* Columns that each have a key, all keys different.
AreColumns(columns, T) ==
  /\ columns \in Seq(Seq(T)) /\ columns # <<>>
  /\ \A k \in DOMAIN columns : columns[k] # <<>>
  /\ \A j, k \in DOMAIN columns : columns[j][1] = columns[k][1] => j = k

\* One of the columns is the longest: the rows go as far.
LEMMA LongestColumn ==
  ASSUME NEW T, NEW columns, AreColumns(columns, T)
  PROVE  LET length == Max({0} \cup {Len(columns[k]) - 1 : k \in DOMAIN columns})
         IN  /\ length \in Nat
             /\ \A k \in DOMAIN columns : Len(columns[k]) - 1 <= length
             /\ \E k \in DOMAIN columns : length = Len(columns[k]) - 1
<1> DEFINE lengths == {Len(columns[k]) - 1 : k \in DOMAIN columns}
           S == {0} \cup lengths
<1>1. /\ Len(columns) \in Nat /\ Len(columns) > 0 /\ DOMAIN columns = 1 .. Len(columns)
      /\ \A k \in DOMAIN columns : columns[k] \in Seq(T) /\ columns[k] # <<>>
  BY DEF AreColumns
<1>2. \A k \in DOMAIN columns : Len(columns[k]) - 1 \in Nat
  <2> TAKE k \in DOMAIN columns
  <2>1. columns[k] \in Seq(T) /\ columns[k] # <<>>
    BY <1>1
  <2> QED
    BY <2>1
<1>3. IsFiniteSet(lengths)
  <2> DEFINE f == [k \in DOMAIN columns |-> Len(columns[k]) - 1]
  <2>1. IsFiniteSet(DOMAIN columns)
    BY <1>1, FS_Interval
  <2>2. IsFiniteSet({f[k] : k \in DOMAIN columns})
    BY <2>1, ImageFinite
  <2> QED
    BY <2>2
<1>4. S \in SUBSET Int /\ IsFiniteSet(S) /\ S # {} /\ lengths \subseteq Nat
  <2>1. IsFiniteSet(lengths \cup {0})
    BY <1>3, FS_AddElement
  <2>2. S = lengths \cup {0}
    OBVIOUS
  <2> QED
    BY <1>2, <2>1, <2>2
<1>5. lengths # {}
  <2>1. 1 \in DOMAIN columns
    BY <1>1
  <2> QED
    BY <2>1
<1> HIDE DEF S, lengths
<1>6. Max(S) \in S /\ \A y \in S : y <= Max(S)
  BY <1>4, Extremes
<1>7. Max(S) \in lengths
  <2>1. PICK y \in lengths : TRUE
    BY <1>5
  <2>2. y \in S /\ y \in Nat
    BY <1>4, <2>1 DEF S
  <2>3. Max(S) >= y /\ Max(S) \in Int
    BY <1>4, <1>6, <2>2
  <2> QED
    BY <1>6, <2>1, <2>2, <2>3 DEF S
<1>8. Max(S) \in Nat /\ \A y \in lengths : y <= Max(S)
  BY <1>4, <1>6, <1>7 DEF S
<1> QED
  BY <1>7, <1>8 DEF S, lengths

\* Columns with values are rows: each has the values of the columns that go as
\* far.
RowsOf(columns, data) ==
  /\ data.keys = [k \in DOMAIN columns |-> columns[k][1]]
  /\ data.rows \in Seq({data.rows[i] : i \in DOMAIN data.rows})
  /\ \A k \in DOMAIN columns : Len(columns[k]) - 1 <= Len(data.rows)
  /\ \E k \in DOMAIN columns : Len(data.rows) = Len(columns[k]) - 1
  /\ \A i \in DOMAIN data.rows :
       /\ DOMAIN data.rows[i] =
            {columns[k][1] : k \in {j \in DOMAIN columns : Len(columns[j]) > i}}
       /\ \A k \in DOMAIN columns : Len(columns[k]) > i
            => data.rows[i][columns[k][1]] = columns[k][i + 1]

\* Columns with values and different keys are the data of these columns.
LEMMA ColumnsConverted ==
  ASSUME NEW T, NEW columns, AreColumns(columns, T),
         \A k \in DOMAIN columns : Len(columns[k]) > 1 /\ columns[k][1] \notin {Null, Empty}
  PROVE  RowsOf(columns, ConvertColumnsToData(columns))
<1> DEFINE has(i) == {k \in DOMAIN columns : Len(columns[k]) > i}
           length == Max({0} \cup {Len(columns[k]) - 1 : k \in DOMAIN columns})
           first == [k \in DOMAIN columns |-> IF k \in has(1) THEN columns[k][1] ELSE Null]
           row(i) == [key \in {columns[k][1] : k \in has(i)} |->
                          columns[Max({k \in has(i) : columns[k][1] = key})][i + 1]]
           data == ConvertColumnsToData(columns)
<1>1. /\ Len(columns) \in Nat /\ DOMAIN columns = 1 .. Len(columns)
      /\ \A k \in DOMAIN columns : columns[k] \in Seq(T) /\ columns[k] # <<>>
      /\ \A j, k \in DOMAIN columns : columns[j][1] = columns[k][1] => j = k
  BY DEF AreColumns
<1>2. /\ length \in Nat
      /\ \A k \in DOMAIN columns : Len(columns[k]) - 1 <= length
      /\ \E k \in DOMAIN columns : length = Len(columns[k]) - 1
  BY LongestColumn
<1>3. data = [keys |-> Distinct(first), rows |-> [i \in 1 .. length |-> row(i)]]
  BY DEF ConvertColumnsToData
<1> HIDE DEF length
<1>4. first = [k \in DOMAIN columns |-> columns[k][1]]
  OBVIOUS
<1>5. Distinct(first) = first
  <2> DEFINE K == {columns[k][1] : k \in DOMAIN columns}
  <2>1. first \in Seq(K)
    BY <1>1, <1>4
  <2>2. \A i \in DOMAIN first : /\ IsValue(first[i])
                                /\ \A j \in 1 .. i - 1 : first[j] # first[i]
    <3> TAKE i \in DOMAIN first
    <3>1. i \in 1 .. Len(columns) /\ first[i] = columns[i][1] /\ first[i] \in K
      BY <1>1, <1>4
    <3>2. \A j \in 1 .. i - 1 : j \in DOMAIN columns /\ j # i
      BY <1>1, <3>1
    <3>3. \A j \in 1 .. i - 1 : first[j] = columns[j][1]
      BY <1>4, <3>2
    <3>4. IsValue(first[i])
      BY <3>1 DEF IsValue
    <3>5. \A j \in 1 .. i - 1 : first[j] # first[i]
      BY <1>1, <3>1, <3>2, <3>3
    <3> QED
      BY <3>4, <3>5
  <2> HIDE DEF first, K
  <2>3. {i \in DOMAIN first : /\ IsValue(first[i])
                              /\ \A j \in 1 .. i - 1 : first[j] # first[i]} = DOMAIN first
    BY <2>2
  <2>4. Chosen(first, DOMAIN first) = first
    BY <2>1, ChosenAll
  <2> QED
    BY <2>3, <2>4 DEF Distinct
<1>6. data.rows = [i \in 1 .. length |-> row(i)] /\ data.keys = first
  BY <1>3, <1>5
<1>7. ASSUME NEW i \in 1 .. length
      PROVE  /\ DOMAIN row(i) = {columns[k][1] : k \in has(i)}
             /\ \A k \in DOMAIN columns : Len(columns[k]) > i
                       => row(i)[columns[k][1]] = columns[k][i + 1]
  <2> SUFFICES ASSUME NEW k \in DOMAIN columns, Len(columns[k]) > i
               PROVE  row(i)[columns[k][1]] = columns[k][i + 1]
    OBVIOUS
  <2>1. {j \in has(i) : columns[j][1] = columns[k][1]} = {k}
    BY <1>1
  <2>2. k \in Int
    BY <1>1
  <2>3. Max({k}) = k
    BY <2>2, OneExtreme
  <2> QED
    BY <2>1, <2>3
<1> SUFFICES
       /\ data.keys = [k \in DOMAIN columns |-> columns[k][1]]
       /\ data.rows \in Seq({data.rows[i] : i \in DOMAIN data.rows})
       /\ \A k \in DOMAIN columns : Len(columns[k]) - 1 <= Len(data.rows)
       /\ \E k \in DOMAIN columns : Len(data.rows) = Len(columns[k]) - 1
       /\ \A i \in DOMAIN data.rows :
            /\ DOMAIN data.rows[i] = {columns[k][1] : k \in has(i)}
            /\ \A k \in DOMAIN columns : Len(columns[k]) > i
                 => data.rows[i][columns[k][1]] = columns[k][i + 1]
  BY DEF RowsOf
<1> HIDE DEF row, first, data, has
<1>8. /\ DOMAIN data.rows = 1 .. length /\ Len(data.rows) = length
      /\ data.rows \in Seq({data.rows[i] : i \in DOMAIN data.rows})
  BY <1>2, <1>6
<1>9. ASSUME NEW i \in DOMAIN data.rows
      PROVE  /\ DOMAIN data.rows[i] = {columns[k][1] : k \in has(i)}
             /\ \A k \in DOMAIN columns : Len(columns[k]) > i
                       => data.rows[i][columns[k][1]] = columns[k][i + 1]
  <2>1. i \in 1 .. length /\ data.rows[i] = row(i)
    BY <1>6, <1>8
  <2> QED
    BY <1>7, <2>1
<1>10. \E k \in DOMAIN columns : Len(data.rows) = Len(columns[k]) - 1
  BY <1>2, <1>8
<1>11. \A k \in DOMAIN columns : Len(columns[k]) - 1 <= Len(data.rows)
  BY <1>2, <1>8
<1> QED
  BY <1>4, <1>6, <1>8, <1>9, <1>10, <1>11

\* Columns without values are no data.
LEMMA ColumnsEmpty ==
  ASSUME NEW T, NEW columns, AreColumns(columns, T), \A k \in DOMAIN columns : Len(columns[k]) = 1
  PROVE  LET data == ConvertColumnsToData(columns)
         IN  data.keys = <<>> /\ data.rows = <<>>
<1> DEFINE has(i) == {k \in DOMAIN columns : Len(columns[k]) > i}
           length == Max({0} \cup {Len(columns[k]) - 1 : k \in DOMAIN columns})
           first == [k \in DOMAIN columns |-> IF k \in has(1) THEN columns[k][1] ELSE Null]
           row(i) == [key \in {columns[k][1] : k \in has(i)} |->
                          columns[Max({k \in has(i) : columns[k][1] = key})][i + 1]]
<1>1. length = 0
  <2>1. \E k \in DOMAIN columns : length = Len(columns[k]) - 1
    BY LongestColumn
  <2> HIDE DEF length
  <2>2. PICK k \in DOMAIN columns : length = Len(columns[k]) - 1
    BY <2>1
  <2>3. Len(columns[k]) = 1
    OBVIOUS
  <2> QED
    BY <2>2, <2>3
<1>2. ConvertColumnsToData(columns)
        = [keys |-> Distinct(first), rows |-> [i \in 1 .. length |-> row(i)]]
  BY DEF ConvertColumnsToData
<1>3. \A i \in DOMAIN first : ~ IsValue(first[i])
  <2>1. has(1) = {}
    <3> SUFFICES ASSUME NEW k \in DOMAIN columns, Len(columns[k]) > 1 PROVE FALSE
      OBVIOUS
    <3>1. Len(columns[k]) = 1
      OBVIOUS
    <3> QED
      BY <3>1
  <2>2. first = [k \in DOMAIN columns |-> Null]
    BY <2>1
  <2> HIDE DEF first
  <2> QED
    BY <2>2 DEF IsValue
<1>4. Distinct(first) = <<>>
  <2> HIDE DEF first
  <2>1. {i \in DOMAIN first : /\ IsValue(first[i])
                              /\ \A j \in 1 .. i - 1 : first[j] # first[i]} = {}
    BY <1>3
  <2> QED
    BY <2>1, ChosenNone DEF Distinct
<1> HIDE DEF length, first
<1>5. [i \in 1 .. length |-> row(i)] = <<>>
  BY <1>1
<1> QED
  BY <1>2, <1>4, <1>5

-----------------------------------------------------------------------------
(***************************************************************************)
(* What is known of x.                                                     *)
(***************************************************************************)
KnownX == [id : Strings, xs : Seq(Int)]

\* Where an id is known.
PlaceOf(known, id) == SelectInSeq(known, LAMBDA k : k.id = id)

\* The place of an id is the first one that has it, or 0.
LEMMA PlaceOfId ==
  ASSUME NEW T, NEW known \in Seq(T), NEW id
  PROVE  LET at == PlaceOf(known, id)
         IN  /\ at \in 0 .. Len(known)
             /\ at # 0 => known[at].id = id
             /\ \A i \in 1 .. at - 1 : known[i].id # id
             /\ at = 0 => \A i \in 1 .. Len(known) : known[i].id # id
<1> DEFINE I == {i \in 1 .. Len(known) : known[i].id = id}
           at == PlaceOf(known, id)
<1>1. at = IF I # {} THEN Min(I) ELSE 0
  BY DEF PlaceOf, SelectInSeq
<1>2. CASE I = {}
  <2>1. Len(known) \in Nat /\ at = 0
    BY <1>1, <1>2
  <2> QED
    BY <1>2, <2>1
<1>3. CASE I # {}
  <2>1. Len(known) \in Nat /\ IsFiniteSet(1 .. Len(known))
    BY FS_Interval
  <2>2. I \in SUBSET Int /\ IsFiniteSet(I)
    BY <2>1, FS_Subset
  <2>3. Min(I) \in I /\ \A i \in I : Min(I) <= i
    BY <1>3, <2>2, Extremes
  <2>4. at \in I /\ \A i \in I : at <= i
    BY <1>1, <1>3, <2>3
  <2>5. \A i \in 1 .. Len(known) : known[i].id = id => at <= i
    BY <2>4
  <2>6. at \in 1 .. Len(known) /\ known[at].id = id
    BY <2>4
  <2> HIDE DEF at, I
  <2>7. \A i \in 1 .. at - 1 : known[i].id # id
    BY <2>1, <2>5, <2>6
  <2> QED
    BY <2>1, <2>6, <2>7 DEF at
<1> QED
  BY <1>2, <1>3

\* Once the x of an id are learned, they are known, and those of the others are
\* what they were.
LEMMA KnowsLearned ==
  ASSUME NEW known \in Seq(KnownX), NEW id \in Strings, NEW xs \in Seq(Int),
         NEW c, c.known = Know(known, id, xs), NEW old, old.known = known
  PROVE  /\ c.known \in Seq(KnownX)
         /\ KnownXs(c, id) = xs
         /\ \A other \in Strings : other # id => KnownXs(c, other) = KnownXs(old, other)
<1> DEFINE at == PlaceOf(known, id)
           new == Know(known, id, xs)
<1>1. new = IF at = 0 THEN Append(known, [id |-> id, xs |-> xs]) ELSE [known EXCEPT ![at].xs = xs]
  BY DEF Know, PlaceOf
<1>2. /\ at \in 0 .. Len(known) /\ Len(known) \in Nat
      /\ at # 0 => known[at].id = id
      /\ \A i \in 1 .. at - 1 : known[i].id # id
      /\ at = 0 => \A i \in 1 .. Len(known) : known[i].id # id
  BY PlaceOfId
<1>3. \A i \in 1 .. Len(known) : known[i] \in KnownX
  OBVIOUS
<1> HIDE DEF at
<1>4. /\ new \in Seq(KnownX)
      /\ Len(new) = IF at = 0 THEN Len(known) + 1 ELSE Len(known)
      /\ at = 0 => new[Len(known) + 1] = [id |-> id, xs |-> xs]
      /\ at # 0 => new[at] = [id |-> id, xs |-> xs]
      /\ \A i \in 1 .. Len(known) : i # at => new[i] = known[i]
  <2>1. CASE at = 0
    <3>1. [id |-> id, xs |-> xs] \in KnownX
      BY DEF KnownX
    <3>2. new = Append(known, [id |-> id, xs |-> xs])
      BY <1>1, <2>1
    <3> HIDE DEF new
    <3> QED
      BY <1>2, <2>1, <3>1, <3>2
  <2>2. CASE at # 0
    <3>1. at \in 1 .. Len(known) /\ known[at] \in KnownX /\ known[at].id = id
      BY <1>2, <1>3, <2>2
    <3>2. [known[at] EXCEPT !.xs = xs] = [id |-> id, xs |-> xs]
      <4>1. known[at] = [id |-> id, xs |-> known[at].xs]
        BY <3>1 DEF KnownX
      <4> DEFINE ys == known[at].xs
      <4> HIDE DEF ys
      <4>2. [[id |-> id, xs |-> ys] EXCEPT !.xs = xs] = [id |-> id, xs |-> xs]
        OBVIOUS
      <4> QED
        BY <4>1, <4>2 DEF ys
    <3>3. [id |-> id, xs |-> xs] \in KnownX
      BY DEF KnownX
    <3>4. new = [known EXCEPT ![at] = [id |-> id, xs |-> xs]]
      BY <1>1, <2>2, <3>2
    <3> HIDE DEF new
    <3> QED
      BY <2>2, <3>1, <3>3, <3>4
  <2> QED
    BY <2>1, <2>2
<1>5. \A i \in 1 .. Len(known) : new[i].id = known[i].id
  BY <1>2, <1>4
<1>6. /\ at = 0 => Len(known) + 1 \in 1 .. Len(new) /\ new[Len(known) + 1].id = id
      /\ at # 0 => new[at].id = id
      /\ Len(new) = Len(known) \/ (at = 0 /\ Len(new) = Len(known) + 1)
  <2>1. Len(known) + 1 \in 1 .. Len(known) + 1
    BY <1>2
  <2> QED
    BY <1>4, <2>1
<1> HIDE DEF new
<1>7. /\ PlaceOf(new, id) = IF at = 0 THEN Len(known) + 1 ELSE at
      /\ new[PlaceOf(new, id)].xs = xs /\ PlaceOf(new, id) # 0
  <2> DEFINE p == PlaceOf(new, id)
  <2>1. /\ p \in 0 .. Len(new)
        /\ p # 0 => new[p].id = id
        /\ \A i \in 1 .. p - 1 : new[i].id # id
        /\ p = 0 => \A i \in 1 .. Len(new) : new[i].id # id
    BY <1>4, PlaceOfId
  <2> HIDE DEF p
  <2>2. CASE at = 0
    <3>1. p = Len(known) + 1
      <4>1. p # 0
        BY <1>6, <2>1, <2>2
      <4>2. p \in 1 .. Len(known) => FALSE
        BY <1>2, <1>5, <2>1, <2>2, <4>1
      <4> QED
        BY <1>2, <1>6, <2>1, <4>1, <4>2
    <3> QED
      BY <1>2, <1>4, <2>2, <3>1 DEF p
  <2>3. CASE at # 0
    <3>1. at \in 1 .. Len(known) /\ Len(new) = Len(known)
      BY <1>2, <1>4, <2>3
    <3>2. p # 0 /\ p \in 1 .. Len(known)
      BY <1>2, <1>6, <2>1, <2>3, <3>1
    <3>3. known[p].id = id
      BY <1>5, <2>1, <3>2
    <3>4. ~ (p < at)
      BY <1>2, <3>1, <3>2, <3>3
    <3>5. ~ (at < p)
      BY <1>6, <2>1, <2>3, <3>1, <3>2
    <3>6. p = at
      BY <3>1, <3>2, <3>4, <3>5
    <3> QED
      BY <1>4, <2>3, <3>6 DEF p
  <2> QED
    BY <2>2, <2>3
<1>8. KnownXs(c, id) = xs
  BY <1>7 DEF KnownXs, PlaceOf, new
<1>9. ASSUME NEW other \in Strings, other # id
      PROVE  KnownXs(c, other) = KnownXs(old, other)
  <2> DEFINE p == PlaceOf(new, other)
             q == PlaceOf(known, other)
  <2>1. /\ p \in 0 .. Len(new)
        /\ p # 0 => new[p].id = other
        /\ \A i \in 1 .. p - 1 : new[i].id # other
        /\ p = 0 => \A i \in 1 .. Len(new) : new[i].id # other
    BY <1>4, PlaceOfId
  <2>2. /\ q \in 0 .. Len(known)
        /\ q # 0 => known[q].id = other
        /\ \A i \in 1 .. q - 1 : known[i].id # other
        /\ q = 0 => \A i \in 1 .. Len(known) : known[i].id # other
    BY PlaceOfId
  <2>3. KnownXs(c, other) = IF p = 0 THEN Null ELSE new[p].xs
    BY DEF KnownXs, PlaceOf, new
  <2>4. KnownXs(old, other) = IF q = 0 THEN Null ELSE known[q].xs
    BY DEF KnownXs, PlaceOf
  <2> HIDE DEF p, q
  <2>5. p # 0 => p \in 1 .. Len(known) /\ known[p].id = other
    <3> SUFFICES ASSUME p # 0 PROVE p \in 1 .. Len(known)
      BY <1>5, <2>1
    <3>1. at = 0 => p # Len(known) + 1
      BY <1>6, <1>9, <2>1
    <3>2. p \in 1 .. Len(new)
      BY <2>1
    <3> QED
      BY <1>2, <1>6, <3>1, <3>2
  <2>6. q # 0 => q \in 1 .. Len(new) /\ q \in 1 .. Len(known) /\ new[q].id = other
    BY <1>2, <1>5, <1>6, <2>2
  <2>7. p = q
    <3>1. p = 0 => q = 0
      BY <2>1, <2>6
    <3>2. q = 0 => p = 0
      BY <2>2, <2>5
    <3>3. p # 0 /\ q # 0 => ~ (p < q) /\ ~ (q < p)
      BY <1>2, <2>1, <2>2, <2>5, <2>6
    <3> QED
      BY <1>2, <2>1, <2>2, <2>5, <2>6, <3>1, <3>2, <3>3
  <2>8. q # 0 => new[q].xs = known[q].xs
    <3> SUFFICES ASSUME q # 0 PROVE new[q].xs = known[q].xs
      OBVIOUS
    <3>1. q # at
      BY <1>2, <1>9, <2>2
    <3> QED
      BY <1>4, <2>6, <3>1
  <2> QED
    BY <2>3, <2>4, <2>7, <2>8
<1> QED
  BY <1>4, <1>8, <1>9 DEF new

-----------------------------------------------------------------------------
(***************************************************************************)
(* Learning the x of up to two targets.                                    *)
(***************************************************************************)
Converted(chart, data) == ConvertDataToTargets(chart, data, FALSE)
XsLoaded(chart, data, id) == XsFor(chart, data, id, FALSE)
Learn(c, data, id) == [c EXCEPT !.known = Know(@, id, XsLoaded(c, data, id))]

IsLearned(it, chart, data, ids) ==
  it = [s \in SUBSET (DOMAIN ids) |->
          IF s = {} THEN chart ELSE Learn(it[s \ {Max(s)}], data, ids[Max(s)])]

IdsOf(chart, data) == Chosen(data.keys, {i \in DOMAIN data.keys : ~ IsX(chart, data.keys[i])})

\* A conversion learns the x of its ids in turn, and makes the targets with them.
LEMMA LearnedInTurn ==
  ASSUME NEW chart, NEW data
  PROVE  LET ids == IdsOf(chart, data)
         IN  Converted(chart, data)
               = TargetsOf(chart, data, ids,
                           (CHOOSE it : IsLearned(it, chart, data, ids))[DOMAIN ids])
BY DEF Converted, XsLoaded, ConvertDataToTargets, IdsOf, FoldLeft, MapThenFoldSet, IsLearned, Learn

\* The chart that knows the x of the targets of data.
Learned(chart, data, ids) ==
  IF Len(ids) = 0 THEN chart
  ELSE IF Len(ids) = 1 THEN Learn(chart, data, ids[1])
  ELSE Learn(Learn(chart, data, ids[1]), data, ids[2])

\* For no more than two ids, what is learned can be said without a fold.
LEMMA UpToTwoLearned ==
  ASSUME NEW chart, NEW data, NEW T, IdsOf(chart, data) \in Seq(T), Len(IdsOf(chart, data)) <= 2
  PROVE  Converted(chart, data)
           = TargetsOf(chart, data, IdsOf(chart, data), Learned(chart, data, IdsOf(chart, data)))
<1> DEFINE ids == IdsOf(chart, data)
           n == Len(ids)
           one(c, i) == Learn(c, data, ids[i])
           start(s) == IF 1 \in s THEN one(chart, 1) ELSE chart
           made == [s \in SUBSET (1 .. n) |-> IF 2 \in s THEN one(start(s), 2) ELSE start(s)]
<1>0. ids \in Seq(T) /\ Len(ids) <= 2
  OBVIOUS
<1> HIDE DEF ids
<1>1. n \in 0 .. 2 /\ DOMAIN ids = 1 .. n
  <2>1. Len(ids) \in Nat /\ DOMAIN ids = 1 .. Len(ids)
    BY <1>0
  <2> QED
    BY <1>0, <2>1
<1>2. ASSUME NEW s \in SUBSET (1 .. n), s # {}
      PROVE  /\ 2 \in s => Max(s) = 2 /\ 2 \notin s \ {2} /\ (1 \in s <=> 1 \in s \ {2})
             /\ 2 \notin s => Max(s) = 1 /\ s = {1} /\ s \ {1} = {}
             /\ s \ {Max(s)} \in SUBSET (1 .. n)
  <2> HIDE DEF n
  <2>0. n \in Nat /\ n <= 2
    BY <1>1
  <2>1. Max(s) \in s /\ \A y \in s : y <= Max(s)
    BY <1>2, <2>0, MaxInSet
  <2>2. s \subseteq {1, 2}
    BY <2>0
  <2>3. 2 \in s => Max(s) = 2
    <3>1. Max(s) = 1 \/ Max(s) = 2
      BY <2>1, <2>2
    <3>2. 2 \in s => 2 <= Max(s)
      BY <2>1
    <3> QED
      BY <3>1, <3>2
  <2>4. 2 \notin s => s = {1} /\ Max(s) = 1
    BY <1>2, <2>1, <2>2
  <2>5. s \ {Max(s)} \in SUBSET (1 .. n)
    OBVIOUS
  <2>6. 2 \notin s \ {2} /\ (1 \in s <=> 1 \in s \ {2}) /\ {1} \ {1} = {}
    OBVIOUS
  <2> QED
    BY <2>3, <2>4, <2>5, <2>6
<1>3. ASSUME NEW s \in SUBSET (1 .. n)
      PROVE  made[s] = IF s = {} THEN chart ELSE one(made[s \ {Max(s)}], Max(s))
  <2> HIDE DEF one, n
  <2>1. CASE s = {}
    BY <2>1
  <2>2. CASE 2 \in s
    <3>1. Max(s) = 2 /\ s \ {2} \in SUBSET (1 .. n) /\ 2 \notin s \ {2} /\ (1 \in s <=> 1 \in s \ {2})
      BY <1>2, <2>2
    <3>2. made[s] = one(start(s), 2) /\ made[s \ {2}] = start(s \ {2})
      BY <2>2, <3>1
    <3>3. start(s \ {2}) = start(s)
      BY <3>1
    <3> QED
      BY <2>2, <3>1, <3>2, <3>3
  <2>3. CASE s # {} /\ 2 \notin s
    <3>1. Max(s) = 1 /\ s = {1} /\ s \ {1} = {}
      BY <1>2, <2>3
    <3>2. made[s] = one(chart, 1) /\ made[{}] = chart
      BY <2>3, <3>1
    <3> QED
      BY <2>3, <3>1, <3>2
  <2> QED
    BY <2>1, <2>2, <2>3
<1>4. IsLearned(made, chart, data, ids)
  <2> HIDE DEF made
  <2>1. made = [s \in SUBSET (1 .. n) |-> made[s]]
    BY DEF made
  <2> QED
    BY <1>1, <1>3, <2>1 DEF IsLearned
<1> HIDE DEF made
<1>5. PICK it : it = (CHOOSE f : IsLearned(f, chart, data, ids))
  OBVIOUS
<1>6. IsLearned(it, chart, data, ids)
  BY <1>4, <1>5
<1>7. \A s \in SUBSET (1 .. n) : it[s] = IF s = {} THEN chart ELSE one(it[s \ {Max(s)}], Max(s))
  BY <1>1, <1>6 DEF IsLearned
<1>8. it[1 .. n] = Learned(chart, data, ids)
  <2>0. it[{}] = chart
    <3>1. {} \in SUBSET (1 .. n)
      OBVIOUS
    <3> QED
      BY <1>7, <3>1
  <2>1. CASE n = 0
    <3>1. 1 .. n = {}
      BY <2>1
    <3> QED
      BY <2>0, <2>1, <3>1 DEF Learned
  <2>2. n # 0 => it[{1}] = one(chart, 1)
    <3> SUFFICES ASSUME n # 0 PROVE it[{1}] = one(chart, 1)
      OBVIOUS
    <3>1. {1} \in SUBSET (1 .. n)
      BY <1>1
    <3>2. Max({1}) = 1
      <4>1. \A k \in Int : Max({k}) = k
        BY OneExtreme
      <4> QED
        BY <4>1, 1 \in Int, Zenon
    <3>3. {1} \ {1} = {} /\ {1} # {}
      OBVIOUS
    <3> HIDE DEF one
    <3> QED
      BY <1>7, <2>0, <3>1, <3>2, <3>3
  <2>3. CASE n = 1
    <3>1. 1 .. n = {1}
      BY <2>3
    <3>2. it[1 .. n] = one(chart, 1)
      <4>1. it[1 .. n] = it[{1}]
        BY <3>1, Zenon
      <4> HIDE DEF one, n
      <4> QED
        BY <2>2, <2>3, <4>1
    <3> QED
      BY <2>3, <3>2 DEF Learned
  <2>4. CASE n = 2
    <3>1. 1 .. n = {1, 2}
      BY <2>4
    <3>2. Max({1, 2}) = 2 /\ {1, 2} \ {2} = {1}
      BY TwoExtremes
    <3>3. it[{1, 2}] = one(it[{1}], 2)
      <4> HIDE DEF one
      <4> QED
        BY <1>7, <3>1, <3>2
    <3>4. it[1 .. n] = one(one(chart, 1), 2)
      <4>1. it[1 .. n] = it[{1, 2}]
        BY <3>1, Zenon
      <4> HIDE DEF one, n
      <4> QED
        BY <2>2, <2>4, <3>3, <4>1
    <3> QED
      BY <2>4, <3>4 DEF Learned
  <2> QED
    BY <1>1, <2>1, <2>3, <2>4
<1> QED
  BY <1>1, <1>5, <1>8, LearnedInTurn DEF ids

-----------------------------------------------------------------------------
(***************************************************************************)
(* Targets in the order of x.                                              *)
(***************************************************************************)
LEMMA OrderedValues ==
  ASSUME NEW T, NEW seq \in Seq(T), NEW keys \in Seq(Int), Len(seq) = Len(keys)
  PROVE  /\ Ordered(seq, keys) \in Seq(T) /\ Len(Ordered(seq, keys)) = Len(seq)
         /\ \A k \in 1 .. Len(seq) : Ordered(seq, keys)[k] = seq[StableOrder(keys)[k]]
<1>1. DOMAIN seq = 1 .. Len(seq) /\ Len(seq) \in Nat /\ \A k \in 1 .. Len(seq) : seq[k] \in T
  OBVIOUS
<1>2. Ordered(seq, keys) = [k \in 1 .. Len(seq) |-> seq[StableOrder(keys)[k]]]
  BY <1>1 DEF Ordered
<1>3. \A k \in 1 .. Len(seq) : StableOrder(keys)[k] \in 1 .. Len(seq)
  BY InStableOrder
<1>4. \A k \in 1 .. Len(seq) : seq[StableOrder(keys)[k]] \in T
  BY <1>1, <1>3
<1> QED
  BY <1>1, <1>2, <1>4

\* What is in order stays as it is.
LEMMA AlreadyOrdered ==
  ASSUME NEW T, NEW seq \in Seq(T), NEW keys \in Seq(Int), Len(seq) = Len(keys),
         \A i, j \in 1 .. Len(keys) : i < j => keys[i] < keys[j]
  PROVE  Ordered(seq, keys) = seq
<1> DEFINE n == Len(seq)
<1>1. DOMAIN seq = 1 .. n /\ n \in Nat /\ DOMAIN keys = 1 .. n
      /\ \A k \in 1 .. n : keys[k] \in Int
  OBVIOUS
<1>2. ASSUME NEW k \in 1 .. n
      PROVE  StableOrder(keys)[k] = k
  <2>1. Earlier(keys, k) = 1 .. k - 1
    <3>1. \A j \in 1 .. n : j < k => keys[j] < keys[k]
      BY <1>1
    <3>2. \A j \in 1 .. n : k < j => keys[k] < keys[j]
      BY <1>1
    <3>3. \A j \in 1 .. n : (keys[j] < keys[k] \/ (keys[j] = keys[k] /\ j < k)) <=> j < k
      BY <1>1, <3>1, <3>2
    <3>4. Earlier(keys, k) = {j \in 1 .. n : j < k}
      BY <1>1, <3>3 DEF Earlier
    <3> QED
      BY <1>1, <3>4
  <2>2. 1 \in Int /\ k - 1 \in Int /\ k >= 1
    BY <1>1
  <2>3. Cardinality(1 .. k - 1) = k - 1
    BY <2>2, FS_Interval
  <2>4. Place(keys, k) + 1 = k
    BY <2>1, <2>2, <2>3 DEF Place
  <2>5. StableOrder(keys)[Place(keys, k) + 1] = k
    BY <1>1, InStableOrder
  <2> QED
    BY <2>4, <2>5
<1>3. Ordered(seq, keys) = [k \in 1 .. n |-> seq[StableOrder(keys)[k]]]
  BY <1>1 DEF Ordered
<1>4. Ordered(seq, keys) = [k \in 1 .. n |-> seq[k]]
  BY <1>2, <1>3
<1> QED
  BY <1>1, <1>4

ChartValues == [x : Int, value : Int \cup {Null}, index : Nat]
ChartTargets == [id : Strings, values : Seq(ChartValues)]

\* Values are indexed in the order of x, and x are places.
InPlaces(chart) == chart.xSort /\ (~ IsCustomX(chart) \/ chart.category)

\* Every row has a value of an id.
HasValues(data, id, n, value) ==
  /\ DOMAIN data.rows = 1 .. n
  /\ \A i \in 1 .. n : /\ id \in DOMAIN data.rows[i]
                      /\ Number(data.rows[i][id]) = value[i]
                      /\ value[i] \in Int \cup {Null}

ValuesInPlace(n, value) == [k \in 1 .. n |-> [x |-> k - 1, value |-> value[k], index |-> k - 1]]

\* A target of which every row has a value, with places for x.
LEMMA TargetInPlace ==
  ASSUME NEW chart, InPlaces(chart), NEW n \in Nat, NEW data, NEW id \in Strings,
         NEW value, HasValues(data, id, n, value), NEW xs \in Seq(Int), Len(xs) = n
  PROVE  /\ TargetOf(chart, data, id, xs) = [id |-> id, values |-> ValuesInPlace(n, value)]
         /\ TargetOf(chart, data, id, xs) \in ChartTargets
<1> DEFINE all == [i \in 1 .. n |-> i]
           kept == Chosen([i \in DOMAIN data.rows |-> i],
                          {i \in DOMAIN data.rows : id \in DOMAIN data.rows[i] /\ i <= Len(xs)})
           v(i) == [x |-> TargetX(chart, Cell(data.rows[i], XKey(chart, id)), xs, i),
                    value |-> Number(data.rows[i][id]), index |-> i]
           came == [k \in 1 .. n |-> [x |-> k - 1, value |-> value[k], index |-> k]]
           made == [k \in 1 .. n |-> [x |-> k - 1, value |-> value[k], index |-> k - 1]]
<1>0. /\ DOMAIN data.rows = 1 .. n /\ chart.xSort /\ (~ IsCustomX(chart) \/ chart.category)
      /\ \A i \in 1 .. n : /\ id \in DOMAIN data.rows[i]
                          /\ Number(data.rows[i][id]) = value[i]
                          /\ value[i] \in Int \cup {Null}
  BY DEF HasValues, InPlaces
<1>1. kept = all
  <2>1. all \in Seq(Nat) /\ DOMAIN all = 1 .. n
    OBVIOUS
  <2>2. {i \in DOMAIN data.rows : id \in DOMAIN data.rows[i] /\ i <= Len(xs)} = DOMAIN all
    BY <1>0, <2>1
  <2>3. [i \in DOMAIN data.rows |-> i] = all
    BY <1>0
  <2> HIDE DEF all
  <2> QED
    BY <2>1, <2>2, <2>3, ChosenAll
<1>2. [k \in DOMAIN kept |-> v(kept[k])] = came
  <2> HIDE DEF kept
  <2>1. DOMAIN kept = 1 .. n /\ \A k \in 1 .. n : kept[k] = k
    BY <1>1
  <2>2. \A k \in 1 .. n : v(k) = [x |-> k - 1, value |-> value[k], index |-> k]
    BY <1>0 DEF TargetX
  <2> HIDE DEF v
  <2> QED
    BY <2>1, <2>2
<1>3. ByX(came) = came
  <2> DEFINE keys == [k \in DOMAIN came |-> came[k].x]
             S == [x : Int, value : Int \cup {Null}, index : Nat]
  <2>1. \A k \in 1 .. n : came[k] \in S /\ came[k].x = k - 1
    BY <1>0
  <2>2. came \in Seq(S) /\ Len(came) = n /\ DOMAIN came = 1 .. n
    <3>1. came = [k \in 1 .. n |-> came[k]]
      OBVIOUS
    <3>2. \A k \in 1 .. n : came[k] \in S
      BY <2>1
    <3> HIDE DEF came, S
    <3>3. came \in [1 .. n -> S]
      BY <3>1, <3>2
    <3> QED
      BY <3>3
  <2> HIDE DEF came
  <2>3. keys = [k \in 1 .. n |-> k - 1]
    BY <2>1, <2>2
  <2> HIDE DEF keys, S
  <2>4. keys \in Seq(Int) /\ Len(keys) = n /\ \A k \in 1 .. n : keys[k] = k - 1
    <3>1. \A k \in 1 .. n : k - 1 \in Int
      OBVIOUS
    <3>2. keys \in Seq(Int)
      BY <2>3, <3>1
    <3> QED
      BY <2>3, <3>2
  <2>5. \A i, j \in 1 .. Len(keys) : i < j => keys[i] < keys[j]
    BY <2>4
  <2>6. Ordered(came, keys) = came
    BY <2>2, <2>4, <2>5, AlreadyOrdered
  <2> QED
    BY <2>6 DEF ByX, keys
<1>4. Indexed(came, chart.xSort) = made
  <2>1. Indexed(came, chart.xSort) = [k \in DOMAIN came |-> [came[k] EXCEPT !.index = k - 1]]
    BY <1>0, <1>3 DEF Indexed
  <2>2. \A k \in 1 .. n : [came[k] EXCEPT !.index = k - 1] = made[k]
    OBVIOUS
  <2>3. DOMAIN came = 1 .. n /\ made = [k \in 1 .. n |-> made[k]]
    OBVIOUS
  <2> HIDE DEF came, made
  <2> QED
    BY <2>1, <2>2, <2>3
<1>5. TargetOf(chart, data, id, xs) = [id |-> id, values |-> made]
  BY <1>2, <1>4 DEF TargetOf
<1>6. made \in Seq(ChartValues)
  <2>1. \A k \in 1 .. n : made[k] \in ChartValues
    BY <1>0 DEF ChartValues
  <2> QED
    BY <2>1
<1> HIDE DEF made
<1>7. [id |-> id, values |-> made] \in ChartTargets
  BY <1>6 DEF ChartTargets
<1> QED
  BY <1>5, <1>7 DEF made, ValuesInPlace

\* Loaded targets are in the chart, instead of those with their ids or behind
\* the others.
LEMMA OneLoaded ==
  ASSUME NEW chart, chart.targets \in Seq(ChartTargets), "targets" \in DOMAIN chart,
         NEW t \in ChartTargets
  PROVE  LET targets == LoadTargets(chart, <<t>>).targets
         IN  /\ targets \in Seq(ChartTargets)
             /\ \E i \in DOMAIN targets : targets[i] = t
<1> DEFINE old == chart.targets
           new == [i \in DOMAIN old |-> IF HasTarget(<<t>>, old[i].id)
                        THEN <<t>>[CHOOSE k \in DOMAIN <<t>> : <<t>>[k].id = old[i].id] ELSE old[i]]
           places == {k \in DOMAIN <<t>> : ~ HasTarget(old, <<t>>[k].id)}
           more == Chosen(<<t>>, places)
<1>1. LoadTargets(chart, <<t>>).targets = new \o more
  BY DEF LoadTargets
<1>2. old \in Seq(ChartTargets) /\ DOMAIN old = 1 .. Len(old) /\ Len(old) \in Nat
      /\ \A i \in DOMAIN old : old[i] \in ChartTargets
  OBVIOUS
<1>3. DOMAIN <<t>> = {1} /\ <<t>>[1] = t /\ <<t>> \in Seq(ChartTargets)
  OBVIOUS
<1> HIDE DEF old
<1>4. \A i \in DOMAIN old : new[i] = IF old[i].id = t.id THEN t ELSE old[i]
  <2> SUFFICES ASSUME NEW i \in DOMAIN old
               PROVE  new[i] = IF old[i].id = t.id THEN t ELSE old[i]
    OBVIOUS
  <2>1. HasTarget(<<t>>, old[i].id) <=> old[i].id = t.id
    BY <1>3 DEF HasTarget
  <2>2. old[i].id = t.id => (CHOOSE k \in DOMAIN <<t>> : <<t>>[k].id = old[i].id) = 1
    BY <1>3
  <2> QED
    BY <1>3, <2>1, <2>2
<1>5. DOMAIN new = 1 .. Len(old) /\ new = [i \in 1 .. Len(old) |-> new[i]]
  BY <1>2
<1> HIDE DEF new
<1>6. new \in Seq(ChartTargets) /\ Len(new) = Len(old)
  <2>1. \A i \in 1 .. Len(old) : new[i] \in ChartTargets
    BY <1>2, <1>4
  <2>2. new \in [1 .. Len(old) -> ChartTargets]
    BY <1>5, <2>1
  <2> QED
    BY <1>2, <2>2
<1>7. CASE HasTarget(old, t.id)
  <2>1. places = {}
    BY <1>3, <1>7
  <2>2. more = <<>>
    BY <2>1, ChosenNone
  <2> HIDE DEF more
  <2>3. new \o more = new
    <3>1. new \o <<>> = new
      BY <1>6
    <3> QED
      BY <2>2, <3>1
  <2>4. PICK i \in DOMAIN old : old[i].id = t.id
    BY <1>7 DEF HasTarget
  <2>5. i \in DOMAIN new /\ new[i] = t
    BY <1>2, <1>4, <1>5, <2>4
  <2> QED
    BY <1>1, <1>6, <2>3, <2>5
<1>8. CASE ~ HasTarget(old, t.id)
  <2>1. places = {1}
    BY <1>3, <1>8
  <2>2. more = <<t>>
    <3>1. 1 \in 1 .. Len(<<t>>)
      OBVIOUS
    <3> QED
      BY <1>3, <2>1, <3>1, ChosenOne
  <2> HIDE DEF more
  <2>3. /\ new \o more \in Seq(ChartTargets) /\ Len(old) + 1 \in DOMAIN (new \o more)
        /\ (new \o more)[Len(old) + 1] = t
    BY <1>2, <1>6, <2>2
  <2> QED
    BY <1>1, <2>3
<1> QED
  BY <1>7, <1>8

\* Loading no targets leaves the targets as they are.
LEMMA NoneLoaded ==
  ASSUME NEW chart, chart.targets \in Seq(ChartTargets), "targets" \in DOMAIN chart
  PROVE  LoadTargets(chart, <<>>).targets = chart.targets
<1> DEFINE old == chart.targets
<1>1. \A i \in DOMAIN old : ~ HasTarget(<<>>, old[i].id)
  BY DEF HasTarget
<1>2. LoadTargets(chart, <<>>).targets
        = [i \in DOMAIN old |-> IF HasTarget(<<>>, old[i].id)
                        THEN <<>>[CHOOSE k \in DOMAIN <<>> : <<>>[k].id = old[i].id] ELSE old[i]]
          \o Chosen(<<>>, {k \in DOMAIN <<>> : ~ HasTarget(old, <<>>[k].id)})
  BY DEF LoadTargets
<1>3. Chosen(<<>>, {k \in DOMAIN <<>> : ~ HasTarget(old, <<>>[k].id)}) = <<>>
  <2>1. {k \in DOMAIN <<>> : ~ HasTarget(old, <<>>[k].id)} = {}
    OBVIOUS
  <2> QED
    BY <2>1, ChosenNone
<1>4. old \in Seq(ChartTargets)
  OBVIOUS
<1> HIDE DEF old
<1>5. LoadTargets(chart, <<>>).targets = [i \in DOMAIN old |-> old[i]] \o <<>>
  BY <1>1, <1>2, <1>3
<1>6. [i \in DOMAIN old |-> old[i]] = old /\ old \o <<>> = old
  BY <1>4
<1> QED
  BY <1>5, <1>6 DEF old

-----------------------------------------------------------------------------
(***************************************************************************)
(* The charts of the page.                                                 *)
(***************************************************************************)
\* A chart of a line, with no x, or of bars, with a column x of categories.
Charts(x) == [x : {x}, xs : {[id \in {} |-> Null]}, category : {x # Null}, xSort : {TRUE},
              targets : Seq(ChartTargets), known : Seq(KnownX), categories : Seq(Strings)]

\* Rows of the values of one id, and of the categories, if there is an x.
AreRows(data, x, id, n) ==
  /\ data.keys = IF x = Null THEN <<id>> ELSE <<x, id>>
  /\ data.rows \in Seq({data.rows[i] : i \in DOMAIN data.rows}) /\ Len(data.rows) = n
  /\ \A i \in 1 .. n : /\ DOMAIN data.rows[i] = IF x = Null THEN {id} ELSE {x, id}
                       /\ data.rows[i][id] \in Int \cup {Text}
                       /\ x # Null => data.rows[i][x] \in Strings

\* Which ids such data have, and what is learned of x.
LEMMA LearnedPlaces ==
  ASSUME SnapshotsAssumption, NEW x \in {Null, "x"}, NEW chart \in Charts(x),
         NEW id \in Strings, id # x, NEW n \in Nat \ {0}, NEW data, AreRows(data, x, id, n)
  PROVE  /\ IdsOf(chart, data) = <<id>>
         /\ IsCustomX(chart) <=> x # Null
         /\ x # Null => ValuesOf([i \in DOMAIN data.rows |-> Cell(data.rows[i], x)])
                          = [i \in 1 .. n |-> data.rows[i][x]]
         /\ XsLoaded(chart, data, id) = [i \in 1 .. n |-> i - 1]
<1>1. /\ chart.x = x /\ chart.xs = [j \in {} |-> Null] /\ DOMAIN chart.xs = {}
      /\ chart.category = (x # Null) /\ id # Null
  BY DEF Charts, SnapshotsAssumption
<1>2. IsCustomX(chart) <=> x # Null
  BY <1>1 DEF IsCustomX
<1>3. DOMAIN data.rows = 1 .. n /\ n \in Nat
  BY DEF AreRows
<1>4. IdsOf(chart, data) = <<id>>
  <2>1. \A key : IsX(chart, key) <=> x # Null /\ key = x
    BY <1>1 DEF IsX
  <2>2. CASE x = Null
    <3>1. data.keys = <<id>>
      BY <2>2 DEF AreRows
    <3>2. {i \in DOMAIN <<id>> : ~ IsX(chart, <<id>>[i])} = {1}
      BY <2>1, <2>2
    <3>3. Chosen(<<id>>, {1}) = <<id>>
      <4>1. <<id>> \in Seq(Strings) /\ 1 \in 1 .. Len(<<id>>) /\ <<id>>[1] = id
        OBVIOUS
      <4> QED
        BY <4>1, ChosenOne
    <3> QED
      BY <3>1, <3>2, <3>3 DEF IdsOf
  <2>3. CASE x # Null
    <3>1. data.keys = <<x, id>>
      BY <2>3 DEF AreRows
    <3>2. {i \in DOMAIN <<x, id>> : ~ IsX(chart, <<x, id>>[i])} = {2}
      <4>1. DOMAIN <<x, id>> = {1, 2} /\ <<x, id>>[1] = x /\ <<x, id>>[2] = id
        OBVIOUS
      <4> QED
        BY <2>1, <2>3, <4>1
    <3>3. Chosen(<<x, id>>, {2}) = <<id>>
      <4>0. x \in Strings
        BY <2>3 DEF SnapshotsAssumption
      <4>1. <<x, id>> \in Seq(Strings) /\ 2 \in 1 .. Len(<<x, id>>) /\ <<x, id>>[2] = id
        BY <4>0
      <4> QED
        BY <4>1, ChosenOne
    <3> QED
      BY <3>1, <3>2, <3>3 DEF IdsOf
  <2> QED
    BY <2>2, <2>3
<1>5. ASSUME x # Null
      PROVE  ValuesOf([i \in DOMAIN data.rows |-> Cell(data.rows[i], x)])
                          = [i \in 1 .. n |-> data.rows[i][x]]
  <2> DEFINE raw == [i \in 1 .. n |-> data.rows[i][x]]
             cells == [i \in DOMAIN data.rows |-> Cell(data.rows[i], x)]
  <2>1. cells = raw
    <3>1. \A i \in 1 .. n : Cell(data.rows[i], x) = data.rows[i][x]
      BY <1>5 DEF Cell, AreRows
    <3> QED
      BY <1>3, <3>1
  <2>2. \A i \in 1 .. n : data.rows[i][x] \in Strings
    BY <1>5 DEF AreRows
  <2>3. raw \in Seq(Strings) /\ DOMAIN raw = 1 .. n /\ \A i \in 1 .. n : raw[i] \in Strings
    BY <2>2
  <2> HIDE DEF raw, cells
  <2>4. \A i \in DOMAIN raw : IsValue(raw[i])
    BY <2>3 DEF IsValue, SnapshotsAssumption
  <2>5. {i \in DOMAIN raw : IsValue(raw[i])} = DOMAIN raw
    BY <2>4
  <2>6. Chosen(raw, DOMAIN raw) = raw
    BY <2>3, ChosenAll
  <2>7. ValuesOf(raw) = raw
    BY <2>5, <2>6 DEF ValuesOf
  <2> QED
    BY <2>1, <2>7 DEF raw, cells
<1>6. XsLoaded(chart, data, id) = [i \in 1 .. n |-> i - 1]
  <2>1. CASE x = Null
    BY <1>2, <1>3, <2>1 DEF XsLoaded, XsFor
  <2>2. CASE x # Null
    <3> DEFINE raw == ValuesOf([i \in DOMAIN data.rows |-> Cell(data.rows[i], XKey(chart, id))])
               xs == [i \in 1 .. n |-> i - 1]
    <3>1. XKey(chart, id) = x
      BY <1>1, <2>2 DEF XKey
    <3>2. raw = [i \in 1 .. n |-> data.rows[i][x]]
      BY <1>5, <2>2, <3>1
    <3>3. Contains(data.keys, x)
      <4>1. data.keys = <<x, id>> /\ 1 \in 1 .. Len(<<x, id>>) /\ <<x, id>>[1] = x
        BY <2>2 DEF AreRows
      <4> QED
        BY <4>1 DEF Contains
    <3>4. [i \in DOMAIN raw |-> IF chart.category THEN i - 1 ELSE raw[i]] = xs
      BY <1>1, <2>2, <3>2
    <3>5. XsLoaded(chart, data, id)
            = <<>> \o [i \in DOMAIN raw |-> IF chart.category THEN i - 1 ELSE raw[i]]
      <4> HIDE DEF raw
      <4>1. XsLoaded(chart, data, id)
              = LET old == IF FALSE /\ KnownXs(chart, id) # Null THEN KnownXs(chart, id) ELSE <<>>
                IN  IF ~ IsCustomX(chart) THEN [i \in DOMAIN data.rows |-> i - 1]
                    ELSE IF Contains(data.keys, x)
                    THEN old \o [i \in DOMAIN raw |-> IF chart.category THEN i - 1 ELSE raw[i]]
                    ELSE IF chart.x # Null THEN OtherTargetXs(chart)
                    ELSE XValuesOfXKey(chart, x)
        BY <3>1 DEF XsLoaded, XsFor, raw
      <4> QED
        BY <1>2, <2>2, <3>3, <4>1
    <3>6. <<>> \o xs = xs
      <4>1. xs \in Seq(Int)
        BY <1>3
      <4> HIDE DEF xs
      <4> QED
        BY <4>1
    <3> QED
      BY <3>4, <3>5, <3>6
  <2> QED
    BY <2>1, <2>2
<1> QED
  BY <1>2, <1>4, <1>5, <1>6

\* What is known stays typed when it is put in order.
LEMMA KnownInOrder ==
  ASSUME NEW known \in Seq(KnownX), NEW ids
  PROVE  XsSorted(known, ids) \in Seq(KnownX)
<1>1. Len(known) \in Nat /\ DOMAIN known = 1 .. Len(known) /\ \A k \in DOMAIN known : known[k] \in KnownX
  OBVIOUS
<1>2. ASSUME NEW k \in DOMAIN known
      PROVE  [known[k] EXCEPT !.xs = Ascending(@)] \in KnownX
  <2> DEFINE ys == known[k].xs
             name == known[k].id
  <2>1. known[k] = [id |-> name, xs |-> ys] /\ name \in Strings /\ ys \in Seq(Int)
    BY <1>1 DEF KnownX
  <2> HIDE DEF ys, name
  <2>2. Ascending(ys) \in Seq(Int)
    BY <2>1, OrderedValues DEF Ascending
  <2>3. [known[k] EXCEPT !.xs = Ascending(@)] = [id |-> name, xs |-> Ascending(ys)]
    <3>1. [[id |-> name, xs |-> ys] EXCEPT !.xs = Ascending(@)] = [id |-> name, xs |-> Ascending(ys)]
      OBVIOUS
    <3> QED
      BY <2>1, <3>1
  <2> QED
    BY <2>1, <2>2, <2>3 DEF KnownX
<1> QED
  BY <1>1, <1>2 DEF XsSorted

\* What a chart is once data are loaded.
IsLoaded(loaded, data, x, id, n) ==
  /\ loaded \in Charts(x)
  /\ Shown(loaded, id, [k \in 1 .. n |-> Number(data.rows[k][id])])
  /\ x # Null => loaded.categories = [k \in 1 .. n |-> data.rows[k][x]]

\* Data with rows put a target of them into the chart, with a value of each
\* row, and the categories that they name.
LEMMA ChartLoaded ==
  ASSUME SnapshotsAssumption, NEW x \in {Null, "x"}, NEW chart \in Charts(x),
         NEW id \in Strings, id # x, NEW n \in Nat \ {0}, NEW data, AreRows(data, x, id, n)
  PROVE  IsLoaded(LoadData(chart, data), data, x, id, n)
<1> DEFINE xs == [i \in 1 .. n |-> i - 1]
           learned == Learn(chart, data, id)
           categories == IF x # Null THEN [k \in 1 .. n |-> data.rows[k][x]] ELSE chart.categories
           value == [k \in 1 .. n |-> Number(data.rows[k][id])]
           t == TargetOf(chart, data, id, xs)
           known == Know(chart.known, id, xs)
           ordered == XsSorted(known, <<id>>)
           made == [chart EXCEPT !.categories = categories, !.known = ordered]
<1>1. /\ chart.x = x /\ chart.category = (x # Null) /\ chart.xSort = TRUE
      /\ chart.targets \in Seq(ChartTargets) /\ chart.known \in Seq(KnownX)
      /\ chart.categories \in Seq(Strings)
      /\ DOMAIN chart = {"x", "xs", "category", "xSort", "targets", "known", "categories"}
  BY DEF Charts
<1>2. /\ IdsOf(chart, data) = <<id>>
      /\ IsCustomX(chart) <=> x # Null
      /\ x # Null => ValuesOf([i \in DOMAIN data.rows |-> Cell(data.rows[i], x)])
                          = [i \in 1 .. n |-> data.rows[i][x]]
      /\ XsLoaded(chart, data, id) = xs
  BY LearnedPlaces, SnapshotsAssumption
<1>3. DOMAIN data.rows = 1 .. n /\ n \in Nat /\ n >= 1
  BY DEF AreRows
<1>4. xs \in Seq(Int) /\ Len(xs) = n
  BY <1>3
<1>5. t = [id |-> id, values |-> ValuesInPlace(n, value)] /\ t \in ChartTargets
  <2>1. HasValues(data, id, n, value)
    <3>1. \A i \in 1 .. n : /\ id \in DOMAIN data.rows[i] /\ data.rows[i][id] \in Int \cup {Text}
      BY DEF AreRows
    <3> QED
      BY <1>3, <3>1 DEF Number, HasValues
  <2>2. InPlaces(chart)
    BY <1>1, <1>2 DEF InPlaces
  <2> HIDE DEF value, xs
  <2> QED
    BY <1>3, <1>4, <2>1, <2>2, TargetInPlace
<1> HIDE DEF xs
<1>6. learned = [chart EXCEPT !.known = known]
  BY <1>2 DEF Learn
<1>7. learned.known = known
  BY <1>1, <1>6
<1> HIDE DEF learned
<1>8. known \in Seq(KnownX) /\ KnownXs(learned, id) = xs
  BY <1>1, <1>4, <1>7, KnowsLearned
<1> HIDE DEF known
<1>9. Converted(chart, data) = TargetsOf(chart, data, <<id>>, learned)
  <2> DEFINE ids == IdsOf(chart, data)
  <2>0. ids = <<id>>
    BY <1>2
  <2>1. <<id>> \in Seq(Strings) /\ Len(<<id>>) = 1 /\ <<id>>[1] = id
    OBVIOUS
  <2>2. Learned(chart, data, <<id>>) = learned
    BY <2>1 DEF Learned, learned
  <2>3. ids \in Seq(Strings) /\ Len(ids) <= 2
    BY <2>0, <2>1
  <2>4. Converted(chart, data) = TargetsOf(chart, data, ids, Learned(chart, data, ids))
    BY <2>3, UpToTwoLearned
  <2> HIDE DEF ids
  <2> QED
    BY <2>0, <2>2, <2>4
<1>10. categories \in Seq(Strings)
  <2>1. CASE x = Null
    BY <1>1, <2>1
  <2>2. CASE x # Null
    <3>1. \A k \in 1 .. n : data.rows[k][x] \in Strings
      BY <2>2 DEF AreRows
    <3> QED
      BY <1>3, <2>2, <3>1
  <2> QED
    BY <2>1, <2>2
<1>11. ordered \in Seq(KnownX)
  BY <1>8, KnownInOrder
<1>12. (IF chart.category /\ IsCustomX(chart) /\ <<id>> # <<>>
        THEN CategoriesOf(learned.categories, data, XKey(chart, <<id>>[1])) ELSE learned.categories)
         = categories
  <2>1. learned.categories = chart.categories
    BY <1>1, <1>6
  <2>2. CASE x = Null
    BY <1>1, <2>1, <2>2
  <2>3. CASE x # Null
    <3> DEFINE raw == [i \in DOMAIN data.rows |-> Cell(data.rows[i], x)]
    <3>1. XKey(chart, id) = x
      BY <1>1, <2>3 DEF XKey
    <3>2. ValuesOf(raw) = categories
      BY <1>2, <2>3
    <3>3. raw # <<>> /\ IsValue(raw[1])
      <4>1. 1 \in DOMAIN data.rows
        BY <1>3
      <4>2. raw[1] \in Strings
        BY <1>3, <2>3, <4>1 DEF Cell, AreRows
      <4>3. 1 \in DOMAIN raw /\ IsValue(raw[1])
        BY <4>1, <4>2 DEF IsValue, SnapshotsAssumption
      <4> QED
        BY <4>3
    <3>4. CategoriesOf(learned.categories, data, x) = <<>> \o ValuesOf(raw)
      <4> HIDE DEF raw
      <4> QED
        BY <3>3 DEF CategoriesOf, raw
    <3>5. <<>> \o categories = categories
      <4> HIDE DEF categories
      <4> QED
        BY <1>10
    <3>6. chart.category /\ IsCustomX(chart) /\ <<id>> # <<>> /\ <<id>>[1] = id
      BY <1>1, <1>2, <2>3
    <3> HIDE DEF categories
    <3> QED
      BY <3>1, <3>2, <3>4, <3>5, <3>6
  <2> QED
    BY <2>2, <2>3
<1> HIDE DEF categories, ordered, t
<1>13. TargetsOf(chart, data, <<id>>, learned) = [error |-> FALSE, targets |-> <<t>>, chart |-> made]
  <2>1. DOMAIN <<id>> = {1} /\ <<id>>[1] = id
    OBVIOUS
  <2>2. ~ \E i \in DOMAIN <<id>> : KnownXs(learned, <<id>>[i]) = Null
    BY <1>4, <1>8, <2>1 DEF SnapshotsAssumption
  <2>3. [i \in DOMAIN <<id>> |-> TargetOf(chart, data, <<id>>[i], KnownXs(learned, <<id>>[i]))] = <<t>>
    BY <1>8, <2>1 DEF t
  <2>4. [learned EXCEPT
              !.categories = IF chart.category /\ IsCustomX(chart) /\ <<id>> # <<>>
                             THEN CategoriesOf(@, data, XKey(chart, <<id>>[1])) ELSE @,
              !.known = XsSorted(@, <<id>>)]
          = made
    <3>1. ordered = XsSorted(learned.known, <<id>>)
      BY <1>7 DEF ordered
    <3>2. [learned EXCEPT
              !.categories = IF chart.category /\ IsCustomX(chart) /\ <<id>> # <<>>
                             THEN CategoriesOf(@, data, XKey(chart, <<id>>[1])) ELSE @,
              !.known = XsSorted(@, <<id>>)]
            = [learned EXCEPT !.categories = categories, !.known = ordered]
      BY <1>12, <3>1, Zenon
    <3>3. [learned EXCEPT !.categories = categories, !.known = ordered] = made
      BY <1>1, <1>6
    <3> QED
      BY <3>2, <3>3
  <2> HIDE DEF made
  <2> QED
    BY <2>2, <2>3, <2>4, Zenon DEF TargetsOf
<1>14. /\ made \in Charts(x) /\ made.categories = categories
  BY <1>1, <1>10, <1>11 DEF Charts
<1> HIDE DEF made
<1>15. LoadData(chart, data) = LoadTargets(made, <<t>>)
  <2> DEFINE c == Converted(chart, data)
  <2>1. c = [error |-> FALSE, targets |-> <<t>>, chart |-> made]
    BY <1>9, <1>13
  <2>2. LoadData(chart, data) = LoadTargets(c.chart, c.targets)
    BY DEF Converted, LoadData, LoadConverted
  <2> HIDE DEF c
  <2> QED
    BY <2>1, <2>2
<1> DEFINE loaded == LoadTargets(made, <<t>>)
           more == loaded.targets
<1>16. /\ more \in Seq(ChartTargets)
       /\ \E i \in DOMAIN more : more[i] = t
  <2>1. made.targets \in Seq(ChartTargets) /\ "targets" \in DOMAIN made
    BY <1>14 DEF Charts
  <2>2. t \in ChartTargets
    BY <1>5
  <2>3. LET targets == LoadTargets(made, <<t>>).targets
        IN  targets \in Seq(ChartTargets) /\ \E i \in DOMAIN targets : targets[i] = t
    BY <2>1, <2>2, OneLoaded, Zenon
  <2> QED
    BY <2>3
<1>17. loaded = [made EXCEPT !.targets = more]
  BY <1>14 DEF LoadTargets, Charts
<1> HIDE DEF loaded
<1>18. loaded \in Charts(x) /\ loaded.categories = categories
  <2> HIDE DEF more
  <2> QED
    BY <1>14, <1>16, <1>17 DEF Charts
<1>19. Shown(loaded, id, value)
  <2>1. PICK i \in DOMAIN loaded.targets : loaded.targets[i] = t
    BY <1>16
  <2>2. t.id = id /\ [k \in DOMAIN t.values |-> t.values[k].value] = value
    BY <1>5 DEF ValuesInPlace
  <2> HIDE DEF value
  <2> QED
    BY <2>1, <2>2 DEF Shown
<1> QED
  <2> DEFINE new == LoadData(chart, data)
  <2>1. /\ new \in Charts(x) /\ Shown(new, id, value)
        /\ x # Null => new.categories = [k \in 1 .. n |-> data.rows[k][x]]
    BY <1>15, <1>18, <1>19 DEF categories, loaded
  <2> HIDE DEF new
  <2>2. IsLoaded(new, data, x, id, n)
    BY <2>1 DEF IsLoaded
  <2> QED
    BY <2>2 DEF new

\* Data without rows leave a chart as it is.
LEMMA ChartKept ==
  ASSUME NEW x, NEW chart \in Charts(x), NEW data, data.keys = <<>>, data.rows = <<>>
  PROVE  LET loaded == LoadData(chart, data)
         IN  /\ loaded \in Charts(x)
             /\ loaded.targets = chart.targets /\ loaded.categories = chart.categories
<1> DEFINE known == XsSorted(chart.known, <<>>)
           made == [chart EXCEPT !.categories = chart.categories, !.known = known]
<1>1. /\ chart.targets \in Seq(ChartTargets) /\ chart.known \in Seq(KnownX)
      /\ chart.categories \in Seq(Strings)
      /\ DOMAIN chart = {"x", "xs", "category", "xSort", "targets", "known", "categories"}
  BY DEF Charts
<1>2. IdsOf(chart, data) = <<>>
  <2>1. {i \in DOMAIN data.keys : ~ IsX(chart, data.keys[i])} = {}
    OBVIOUS
  <2> QED
    BY <2>1, ChosenNone DEF IdsOf
<1>3. Converted(chart, data) = TargetsOf(chart, data, <<>>, chart)
  <2> DEFINE ids == IdsOf(chart, data)
  <2>1. ids \in Seq(Strings) /\ Len(ids) = 0 /\ Len(ids) <= 2
    BY <1>2
  <2>2. Learned(chart, data, ids) = chart
    BY <2>1 DEF Learned
  <2>3. Converted(chart, data) = TargetsOf(chart, data, ids, Learned(chart, data, ids))
    BY <2>1, UpToTwoLearned
  <2> HIDE DEF ids
  <2>4. ids = <<>>
    BY <1>2 DEF ids
  <2> QED
    BY <2>2, <2>3, <2>4
<1>4. known \in Seq(KnownX)
  BY <1>1, KnownInOrder
<1> HIDE DEF known
<1>5. TargetsOf(chart, data, <<>>, chart) = [error |-> FALSE, targets |-> <<>>, chart |-> made]
  <2>1. ~ \E i \in DOMAIN <<>> : KnownXs(chart, <<>>[i]) = Null
    OBVIOUS
  <2>2. [i \in DOMAIN <<>> |-> TargetOf(chart, data, <<>>[i], KnownXs(chart, <<>>[i]))] = <<>>
    OBVIOUS
  <2>3. [chart EXCEPT
              !.categories = IF chart.category /\ IsCustomX(chart) /\ <<>> # <<>>
                             THEN CategoriesOf(@, data, XKey(chart, <<>>[1])) ELSE @,
              !.known = XsSorted(@, <<>>)] = made
    <3>1. (IF chart.category /\ IsCustomX(chart) /\ <<>> # <<>>
           THEN CategoriesOf(chart.categories, data, XKey(chart, <<>>[1])) ELSE chart.categories)
            = chart.categories
      OBVIOUS
    <3> QED
      BY <3>1, Zenon DEF known
  <2> HIDE DEF made
  <2> QED
    BY <2>1, <2>2, <2>3, Zenon DEF TargetsOf
<1>6. made \in Charts(x) /\ made.targets = chart.targets /\ made.categories = chart.categories
  BY <1>1, <1>4 DEF Charts
<1> HIDE DEF made
<1> DEFINE loaded == LoadTargets(made, <<>>)
<1>7. LoadData(chart, data) = loaded
  <2> DEFINE c == Converted(chart, data)
  <2>1. c = [error |-> FALSE, targets |-> <<>>, chart |-> made]
    BY <1>3, <1>5
  <2>2. LoadData(chart, data) = LoadTargets(c.chart, c.targets)
    BY DEF Converted, LoadData, LoadConverted
  <2> HIDE DEF c
  <2> QED
    BY <2>1, <2>2
<1>8. loaded.targets = made.targets
  <2>1. made.targets \in Seq(ChartTargets) /\ "targets" \in DOMAIN made
    BY <1>6 DEF Charts
  <2> QED
    BY <2>1, NoneLoaded
<1> DEFINE targets == loaded.targets
<1>9. loaded = [made EXCEPT !.targets = targets]
  BY <1>6 DEF LoadTargets, Charts
<1> HIDE DEF loaded
<1>10. loaded \in Charts(x) /\ loaded.categories = made.categories
  <2>1. targets \in Seq(ChartTargets)
    BY <1>1, <1>6, <1>8
  <2> HIDE DEF targets
  <2> QED
    BY <1>6, <1>9, <2>1 DEF Charts
<1> QED
  BY <1>6, <1>7, <1>8, <1>10

\* A column that has a key.
LEMMA KeyedColumn ==
  ASSUME NEW T, NEW key \in T, NEW values \in Seq(T)
  PROVE  LET column == <<key>> \o values
         IN  /\ column \in Seq(T) /\ column # <<>> /\ column[1] = key
             /\ Len(column) = Len(values) + 1 /\ Len(values) \in Nat
             /\ \A i \in 1 .. Len(values) : column[i + 1] = values[i]
<1> DEFINE column == <<key>> \o values
<1>1. <<key>> \in Seq(T) /\ Len(<<key>>) = 1 /\ <<key>>[1] = key /\ Len(values) \in Nat
  OBVIOUS
<1>2. column \in Seq(T) /\ Len(column) = 1 + Len(values) /\ DOMAIN column = 1 .. 1 + Len(values)
  BY <1>1
<1>3. column[1] = key
  BY <1>1
<1>4. ASSUME NEW i \in 1 .. Len(values) PROVE column[i + 1] = values[i]
  BY <1>1
<1> QED
  BY <1>1, <1>2, <1>3, <1>4

\* One column is the rows of a line.
LEMMA LineRows ==
  ASSUME SnapshotsAssumption, NEW id \in Strings, NEW values \in Seq(Int \cup {Text})
  PROVE  LET data == ConvertColumnsToData(<<<<id>> \o values>>)
             n == Len(values)
         IN  /\ values = <<>> => data.keys = <<>> /\ data.rows = <<>>
             /\ values # <<>> => AreRows(data, Null, id, n)
             /\ \A k \in 1 .. n : data.rows[k][id] = values[k]
<1> DEFINE T == Strings \cup Int \cup {Text}
           column == <<id>> \o values
           columns == <<column>>
           data == ConvertColumnsToData(columns)
           n == Len(values)
<1>1. id \in T /\ values \in Seq(T) /\ id \notin {Null, Empty}
  BY DEF SnapshotsAssumption
<1> HIDE DEF T
<1>2. /\ column \in Seq(T) /\ column # <<>> /\ column[1] = id /\ Len(column) = n + 1 /\ n \in Nat
      /\ \A i \in 1 .. n : column[i + 1] = values[i]
  BY <1>1, KeyedColumn
<1> HIDE DEF column
<1>3. DOMAIN columns = {1} /\ columns[1] = column /\ columns \in Seq(Seq(T)) /\ columns # <<>>
  BY <1>2
<1> HIDE DEF columns
<1>4. AreColumns(columns, T)
  BY <1>2, <1>3 DEF AreColumns
<1>5. CASE values = <<>>
  <2>1. n = 0
    BY <1>5
  <2>2. \A k \in DOMAIN columns : Len(columns[k]) = 1
    BY <1>2, <1>3, <2>1
  <2>3. data.keys = <<>> /\ data.rows = <<>>
    BY <1>4, <2>2, ColumnsEmpty
  <2>4. 1 .. n = {}
    BY <2>1
  <2> QED
    BY <1>5, <2>3, <2>4 DEF columns, column
<1>6. CASE values # <<>>
  <2>1. n # 0 /\ n \in Nat
    BY <1>6
  <2>2. \A k \in DOMAIN columns : Len(columns[k]) > 1
    BY <1>2, <1>3, <2>1
  <2>3. \A k \in DOMAIN columns : columns[k][1] \notin {Null, Empty}
    BY <1>1, <1>2, <1>3
  <2>4. /\ data.keys = [k \in DOMAIN columns |-> columns[k][1]]
        /\ data.rows \in Seq({data.rows[i] : i \in DOMAIN data.rows})
        /\ \E k \in DOMAIN columns : Len(data.rows) = Len(columns[k]) - 1
        /\ \A i \in DOMAIN data.rows :
             /\ DOMAIN data.rows[i] =
                  {columns[k][1] : k \in {j \in DOMAIN columns : Len(columns[j]) > i}}
             /\ \A k \in DOMAIN columns : Len(columns[k]) > i
                  => data.rows[i][columns[k][1]] = columns[k][i + 1]
    <3>1. RowsOf(columns, data)
      BY <1>4, <2>2, <2>3, ColumnsConverted
    <3> HIDE DEF data
    <3> QED
      BY <3>1 DEF RowsOf
  <2> HIDE DEF data, n
  <2>5. data.keys = <<id>>
    BY <1>2, <1>3, <2>4
  <2>6. Len(data.rows) = n /\ DOMAIN data.rows = 1 .. n
    BY <1>2, <1>3, <2>4
  <2>7. ASSUME NEW i \in 1 .. n
        PROVE  /\ DOMAIN data.rows[i] = {id} /\ data.rows[i][id] = values[i]
               /\ values[i] \in Int \cup {Text}
    <3>1. {j \in DOMAIN columns : Len(columns[j]) > i} = {1}
      BY <1>2, <1>3, <2>1
    <3>2. {columns[k][1] : k \in {1}} = {id}
      BY <1>2, <1>3
    <3>3. Len(columns[1]) > i
      BY <1>2, <1>3
    <3>4. data.rows[i][columns[1][1]] = columns[1][i + 1]
      BY <1>3, <2>4, <2>6, <3>3
    <3>5. data.rows[i][id] = values[i]
      BY <1>2, <1>3, <3>4
    <3>6. values[i] \in Int \cup {Text}
      BY DEF n
    <3>7. DOMAIN data.rows[i] = {id}
      <4> DEFINE far == {j \in DOMAIN columns : Len(columns[j]) > i}
      <4>1. DOMAIN data.rows[i] = {columns[k][1] : k \in far}
        BY <2>4, <2>6
      <4>2. far = {1}
        BY <3>1
      <4> HIDE DEF far
      <4> QED
        BY <3>2, <4>1, <4>2
    <3> QED
      BY <3>5, <3>6, <3>7
  <2>8. AreRows(data, Null, id, n)
    BY <2>4, <2>5, <2>6, <2>7 DEF AreRows
  <2> QED
    BY <1>6, <2>7, <2>8 DEF columns, column, data, n
<1> QED
  BY <1>5, <1>6

\* A column of categories and one of values are the rows of bars.
LEMMA BarRows ==
  ASSUME SnapshotsAssumption, NEW keys \in Seq(Strings), NEW values \in Seq(Int),
         Len(keys) = Len(values)
  PROVE  LET data == ConvertColumnsToData(<<<<"x">> \o keys, <<"requests">> \o values>>)
             n == Len(values)
         IN  /\ values = <<>> => data.keys = <<>> /\ data.rows = <<>>
             /\ values # <<>> => AreRows(data, "x", "requests", n)
             /\ \A k \in 1 .. n : data.rows[k]["requests"] = values[k] /\ data.rows[k]["x"] = keys[k]
<1> DEFINE T == Strings \cup Int
           one == <<"x">> \o keys
           two == <<"requests">> \o values
           columns == <<one, two>>
           data == ConvertColumnsToData(columns)
           n == Len(values)
<1>1. "x" \in T /\ "requests" \in T /\ {"x", "requests"} \cap {Null, Empty} = {}
      /\ keys \in Seq(T) /\ values \in Seq(T)
  BY DEF SnapshotsAssumption
<1> HIDE DEF T
<1>2. /\ one \in Seq(T) /\ one # <<>> /\ one[1] = "x" /\ Len(one) = n + 1
      /\ \A i \in 1 .. n : one[i + 1] = keys[i]
  <2>1. /\ one \in Seq(T) /\ one # <<>> /\ one[1] = "x" /\ Len(one) = Len(keys) + 1
        /\ \A i \in 1 .. Len(keys) : one[i + 1] = keys[i]
    BY <1>1, KeyedColumn
  <2> HIDE DEF one
  <2> QED
    BY <2>1
<1>3. /\ two \in Seq(T) /\ two # <<>> /\ two[1] = "requests" /\ Len(two) = n + 1 /\ n \in Nat
      /\ \A i \in 1 .. n : two[i + 1] = values[i]
  BY <1>1, KeyedColumn
<1> HIDE DEF one, two
<1>4. /\ DOMAIN columns = {1, 2} /\ columns[1] = one /\ columns[2] = two
      /\ columns \in Seq(Seq(T)) /\ columns # <<>>
  BY <1>2, <1>3
<1> HIDE DEF columns
<1>5. AreColumns(columns, T)
  <2>1. \A k \in DOMAIN columns : columns[k] # <<>>
    BY <1>2, <1>3, <1>4
  <2>2. \A j, k \in DOMAIN columns : columns[j][1] = columns[k][1] => j = k
    BY <1>2, <1>3, <1>4
  <2> QED
    BY <1>4, <2>1, <2>2 DEF AreColumns
<1>6. CASE values = <<>>
  <2>1. n = 0
    BY <1>6
  <2>2. \A k \in DOMAIN columns : Len(columns[k]) = 1
    BY <1>2, <1>3, <1>4, <2>1
  <2>3. data.keys = <<>> /\ data.rows = <<>>
    BY <1>5, <2>2, ColumnsEmpty
  <2>4. 1 .. n = {}
    BY <2>1
  <2> QED
    BY <1>6, <2>3, <2>4 DEF columns, one, two
<1>7. CASE values # <<>>
  <2>1. n # 0 /\ n \in Nat
    BY <1>7
  <2>2. \A k \in DOMAIN columns : Len(columns[k]) > 1
    BY <1>2, <1>3, <1>4, <2>1
  <2>3. \A k \in DOMAIN columns : columns[k][1] \notin {Null, Empty}
    BY <1>1, <1>2, <1>3, <1>4
  <2>4. /\ data.keys = [k \in DOMAIN columns |-> columns[k][1]]
        /\ data.rows \in Seq({data.rows[i] : i \in DOMAIN data.rows})
        /\ \E k \in DOMAIN columns : Len(data.rows) = Len(columns[k]) - 1
        /\ \A i \in DOMAIN data.rows :
             /\ DOMAIN data.rows[i] =
                  {columns[k][1] : k \in {j \in DOMAIN columns : Len(columns[j]) > i}}
             /\ \A k \in DOMAIN columns : Len(columns[k]) > i
                  => data.rows[i][columns[k][1]] = columns[k][i + 1]
    <3>1. RowsOf(columns, data)
      BY <1>5, <2>2, <2>3, ColumnsConverted
    <3> HIDE DEF data
    <3> QED
      BY <3>1 DEF RowsOf
  <2> HIDE DEF data, n
  <2>5. data.keys = <<"x", "requests">>
    BY <1>2, <1>3, <1>4, <2>4
  <2>6. Len(data.rows) = n /\ DOMAIN data.rows = 1 .. n
    <3>1. \A k \in DOMAIN columns : Len(columns[k]) - 1 = n
      BY <1>2, <1>3, <1>4
    <3>2. Len(data.rows) = n
      BY <2>4, <3>1
    <3> QED
      BY <2>4, <3>2
  <2>7. ASSUME NEW i \in 1 .. n
        PROVE  /\ DOMAIN data.rows[i] = {"x", "requests"}
               /\ data.rows[i]["requests"] = values[i] /\ values[i] \in Int
               /\ data.rows[i]["x"] = keys[i] /\ keys[i] \in Strings
    <3> DEFINE far == {j \in DOMAIN columns : Len(columns[j]) > i}
    <3>1. far = {1, 2}
      BY <1>2, <1>3, <1>4, <2>1
    <3>2. DOMAIN data.rows[i] = {columns[k][1] : k \in far}
      BY <2>4, <2>6
    <3>3. \A k \in far : data.rows[i][columns[k][1]] = columns[k][i + 1]
      BY <2>4, <2>6
    <3> HIDE DEF far
    <3>4. data.rows[i]["x"] = one[i + 1] /\ data.rows[i]["requests"] = two[i + 1]
      BY <1>2, <1>3, <1>4, <3>1, <3>3
    <3>5. DOMAIN data.rows[i] = {"x", "requests"}
      BY <1>2, <1>3, <1>4, <3>1, <3>2
    <3>6. values[i] \in Int /\ keys[i] \in Strings
      BY DEF n
    <3> QED
      BY <1>2, <1>3, <3>4, <3>5, <3>6
  <2>8. AreRows(data, "x", "requests", n)
    BY <1>1, <2>4, <2>5, <2>6, <2>7 DEF AreRows
  <2> QED
    BY <1>7, <2>7, <2>8 DEF columns, one, two, data, n
<1> QED
  BY <1>6, <1>7

\* The figures of a line, and those of bars with their categories, are shown.
LEMMA LineProcessed ==
  ASSUME SnapshotsAssumption, NEW chart \in Charts(Null), NEW stats \in Seq(Int)
  PROVE  LET new == ProcessLine(chart, stats)
         IN  /\ new \in Charts(Null)
             /\ stats # <<>> => Shown(new, "Requests", stats)
             /\ stats = <<>> => new.targets = chart.targets
<1> DEFINE data == ConvertColumnsToData(<<<<"Requests">> \o stats>>)
           n == Len(stats)
           new == LoadData(chart, data)
<1>1. /\ "Requests" \in Strings /\ "Requests" # Null /\ stats \in Seq(Int \cup {Text}) /\ n \in Nat
      /\ \A k \in 1 .. n : stats[k] \in Int /\ stats[k] # Null /\ stats[k] # Text
  BY DEF SnapshotsAssumption
<1>2. ProcessLine(chart, stats) = new
  BY DEF ProcessLine
<1>3. /\ stats = <<>> => data.keys = <<>> /\ data.rows = <<>>
      /\ stats # <<>> => AreRows(data, Null, "Requests", n)
      /\ \A k \in 1 .. n : data.rows[k]["Requests"] = stats[k]
  BY <1>1, LineRows
<1> HIDE DEF data
<1>4. CASE stats = <<>>
  <2>1. new \in Charts(Null) /\ new.targets = chart.targets
    BY <1>3, <1>4, ChartKept
  <2> HIDE DEF new
  <2> QED
    BY <1>2, <1>4, <2>1
<1>5. CASE stats # <<>>
  <2> DEFINE value == [k \in 1 .. n |-> Number(data.rows[k]["Requests"])]
  <2>1. n # 0 /\ n \in Nat \ {0}
    BY <1>5
  <2>2. value = stats
    <3>1. \A k \in 1 .. n : Number(data.rows[k]["Requests"]) = stats[k]
      BY <1>1, <1>3 DEF Number
    <3> QED
      BY <3>1
  <2>3. new \in Charts(Null) /\ Shown(new, "Requests", value)
    <3> HIDE DEF n
    <3>1. AreRows(data, Null, "Requests", n) /\ Null \in {Null, "x"}
      BY <1>3, <1>5
    <3>2. n \in Nat \ {0} /\ "Requests" \in Strings /\ "Requests" # Null
      BY <1>1, <2>1
    <3>3. IsLoaded(LoadData(chart, data), data, Null, "Requests", n)
      BY <3>1, <3>2, ChartLoaded
    <3> HIDE DEF data
    <3> QED
      BY <3>3, Zenon DEF IsLoaded
  <2> HIDE DEF new, value
  <2> QED
    BY <1>2, <1>5, <2>2, <2>3
<1> QED
  BY <1>4, <1>5

KeysOf(stats) == [k \in DOMAIN stats |-> stats[k].key]
FiguresOf(stats) == [k \in DOMAIN stats |-> stats[k].value]

\* A bar chart that is given figures shows them under their keys; given none, it stays.
LEMMA BarProcessed ==
  ASSUME SnapshotsAssumption, NEW chart \in Charts("x"), NEW stats \in Seq(Figures)
  PROVE  LET new == ProcessBar(chart, stats)
         IN  /\ new \in Charts("x")
             /\ stats # <<>> => /\ Shown(new, "requests", FiguresOf(stats))
                                /\ new.categories = KeysOf(stats)
             /\ stats = <<>> => new.targets = chart.targets /\ new.categories = chart.categories
<1> DEFINE keys == KeysOf(stats)
           values == FiguresOf(stats)
           data == ConvertColumnsToData(<<<<"x">> \o keys, <<"requests">> \o values>>)
           n == Len(values)
           new == LoadData(chart, data)
<1>1. /\ keys \in Seq(Strings) /\ values \in Seq(Int) /\ Len(keys) = Len(values)
      /\ DOMAIN keys = 1 .. n /\ DOMAIN values = 1 .. n
      /\ values = <<>> <=> stats = <<>>
  <2>1. /\ DOMAIN stats = 1 .. Len(stats) /\ Len(stats) \in Nat
        /\ \A k \in DOMAIN stats : stats[k] \in Figures
    OBVIOUS
  <2>2. \A k \in DOMAIN stats : stats[k].key \in Strings /\ stats[k].value \in Int
    BY <2>1 DEF Figures
  <2>3. keys \in Seq(Strings) /\ Len(keys) = Len(stats)
    BY <2>1, <2>2 DEF KeysOf
  <2>4. values \in Seq(Int) /\ Len(values) = Len(stats)
    BY <2>1, <2>2 DEF FiguresOf
  <2>5. stats = <<>> <=> Len(stats) = 0
    BY <2>1
  <2> HIDE DEF keys, values
  <2>6. values = <<>> <=> Len(values) = 0
    BY <2>4
  <2> QED
    BY <2>3, <2>4, <2>5, <2>6
<1>2. ProcessBar(chart, stats) = new
  BY DEF ProcessBar, KeysOf, FiguresOf
<1> HIDE DEF keys, values
<1>3. /\ values = <<>> => data.keys = <<>> /\ data.rows = <<>>
      /\ values # <<>> => AreRows(data, "x", "requests", n)
      /\ \A k \in 1 .. n : data.rows[k]["requests"] = values[k] /\ data.rows[k]["x"] = keys[k]
  BY <1>1, BarRows
<1> HIDE DEF data
<1>4. CASE values = <<>>
  <2>1. new \in Charts("x") /\ new.targets = chart.targets /\ new.categories = chart.categories
    BY <1>3, <1>4, ChartKept
  <2> HIDE DEF new
  <2> QED
    BY <1>1, <1>2, <1>4, <2>1
<1>5. CASE values # <<>>
  <2> DEFINE value == [k \in 1 .. n |-> Number(data.rows[k]["requests"])]
             key == [k \in 1 .. n |-> data.rows[k]["x"]]
  <2>1. n # 0 /\ n \in Nat \ {0}
    BY <1>1, <1>5
  <2>2. value = values /\ key = keys
    <3>1. \A k \in 1 .. n : values[k] \in Int
      BY <1>1
    <3>2. \A k \in 1 .. n : Number(data.rows[k]["requests"]) = values[k]
      BY <1>3, <3>1 DEF Number, SnapshotsAssumption
    <3>3. value = values
      BY <1>1, <3>2
    <3>4. key = keys
      BY <1>1, <1>3
    <3> QED
      BY <3>3, <3>4
  <2>3. new \in Charts("x") /\ Shown(new, "requests", value) /\ new.categories = key
    <3>1. /\ AreRows(data, "x", "requests", n) /\ "x" \in {Null, "x"} /\ "x" # Null
          /\ "requests" \in Strings /\ "requests" # "x"
      BY <1>3, <1>5 DEF SnapshotsAssumption
    <3> HIDE DEF n
    <3>2. n \in Nat \ {0}
      BY <2>1
    <3>3. IsLoaded(LoadData(chart, data), data, "x", "requests", n)
      BY <3>1, <3>2, ChartLoaded
    <3> HIDE DEF data
    <3> QED
      BY <3>1, <3>3, Zenon DEF IsLoaded
  <2> HIDE DEF new, value, key
  <2> QED
    BY <1>1, <1>2, <1>5, <2>2, <2>3 DEF keys, values
<1> QED
  BY <1>4, <1>5

\* Seven times the same.
Fillers(values, filler) == Len(values) = 7 /\ \A i \in 1 .. 7 : values[i] = filler

\* A key before it.
LEMMA FillerColumn ==
  ASSUME NEW T, NEW key \in T, NEW filler, NEW values \in Seq(T)
  PROVE  Fillers(values, filler) =>
           <<key>> \o values = [i \in 1 .. 8 |-> IF i = 1 THEN key ELSE filler]
<1> DEFINE column == <<key>> \o values
<1>1. /\ column \in Seq(T) /\ column # <<>> /\ column[1] = key
      /\ Len(column) = Len(values) + 1 /\ Len(values) \in Nat
      /\ \A i \in 1 .. Len(values) : column[i + 1] = values[i]
  BY KeyedColumn
<1> HIDE DEF column
<1> HAVE Fillers(values, filler)
<1> USE DEF Fillers
<1>2. DOMAIN column = 1 .. 8 /\ column = [i \in 1 .. 8 |-> column[i]]
  BY <1>1
<1>3. ASSUME NEW i \in 1 .. 8 PROVE column[i] = IF i = 1 THEN key ELSE filler
  <2>1. CASE i = 1
    BY <1>1, <2>1
  <2>2. CASE i # 1
    <3>1. i - 1 \in 1 .. 7 /\ (i - 1) + 1 = i
      BY <2>2
    <3>2. column[(i - 1) + 1] = values[i - 1]
      BY <1>1, <3>1
    <3> QED
      BY <2>2, <3>1, <3>2
  <2> QED
    BY <2>1, <2>2
<1> QED
  BY <1>2, <1>3 DEF column

\* What a line may be given.
Cells == Int \cup {Text}

\* A chart of such a column.
LEMMA FillersLoaded ==
  ASSUME SnapshotsAssumption, NEW first \in Strings, NEW values \in Seq(Cells),
         Fillers(values, Text)
  PROVE  LoadData(NoChart, ConvertColumnsToData(<<[i \in 1 .. 8 |-> IF i = 1 THEN first ELSE Text]>>))
           \in Charts(Null)
<1> DEFINE T == Strings \cup Int \cup {Text}
           text == [i \in 1 .. 8 |-> IF i = 1 THEN first ELSE Text]
           column == <<first>> \o values
           data == ConvertColumnsToData(<<column>>)
<1>1. first \in T /\ values \in Seq(T) /\ first # Null
  BY DEF SnapshotsAssumption, Cells
<1> HIDE DEF T
<1>2. column = text
  <2>1. first \in T /\ values \in Seq(T)
    BY <1>1
  <2> HIDE DEF column, text
  <2>2. Fillers(values, Text) => column = text
    BY <2>1, FillerColumn DEF column, text
  <2> QED
    BY <2>2
<1> HIDE DEF text
<1>3. AreRows(data, Null, first, 7)
  <2>0. Len(values) = 7
    BY DEF Fillers
  <2>1. values # <<>>
    <3>1. values = <<>> => Len(values) = 0
      OBVIOUS
    <3> QED
      BY <2>0, <3>1
  <2>2. AreRows(data, Null, first, Len(values))
    <3>1. values \in Seq(Int \cup {Text})
      BY DEF Cells
    <3> QED
      BY <2>1, <3>1, LineRows
  <2> QED
    BY <2>0, <2>2
<1> HIDE DEF data, column
<1>4. NoChart \in Charts(Null)
  <2>1. NoChart.category = (Null # Null)
    BY DEF NoChart
  <2>2. <<>> \in Seq(ChartTargets) /\ <<>> \in Seq(KnownX) /\ <<>> \in Seq(Strings)
    OBVIOUS
  <2> QED
    BY <2>1, <2>2 DEF NoChart, Charts
<1>5. IsLoaded(LoadData(NoChart, data), data, Null, first, 7)
  <2>1. 7 \in Nat \ {0} /\ Null \in {Null, "x"}
    OBVIOUS
  <2> QED
    BY <1>1, <1>3, <1>4, <2>1, ChartLoaded
<1>6. LoadData(NoChart, data) \in Charts(Null)
  BY <1>5, Zenon DEF IsLoaded
<1> QED
  BY <1>2, <1>6 DEF data, text

\* A chart that gets an x and categories.
LEMMA ChartWithX ==
  ASSUME NEW x, NEW yes, NEW no, NEW null, NEW xs, NEW empty
  PROVE  [[x |-> null, xs |-> xs, category |-> no, xSort |-> yes,
           targets |-> empty, known |-> empty, categories |-> empty] EXCEPT !.x = x, !.category = yes]
           = [x |-> x, xs |-> xs, category |-> yes, xSort |-> yes,
              targets |-> empty, known |-> empty, categories |-> empty]
<1> DEFINE old == [x |-> null, xs |-> xs, category |-> no, xSort |-> yes,
                   targets |-> empty, known |-> empty, categories |-> empty]
           new == [x |-> x, xs |-> xs, category |-> yes, xSort |-> yes,
                   targets |-> empty, known |-> empty, categories |-> empty]
           fields == {"x", "xs", "category", "xSort", "targets", "known", "categories"}
<1>1. /\ DOMAIN old = fields /\ old.xs = xs /\ old.xSort = yes
      /\ old.targets = empty /\ old.known = empty /\ old.categories = empty
  OBVIOUS
<1>2. /\ DOMAIN new = fields /\ new = [f \in fields |-> new[f]]
      /\ new.x = x /\ new.category = yes /\ new.xs = xs /\ new.xSort = yes
      /\ new.targets = empty /\ new.known = empty /\ new.categories = empty
  OBVIOUS
<1> HIDE DEF old, new
<1> DEFINE made == [old EXCEPT !.x = x, !.category = yes]
<1>3. /\ made = [f \in fields |-> made[f]]
      /\ made.x = x /\ made.category = yes /\ made.xs = xs /\ made.xSort = yes
      /\ made.targets = empty /\ made.known = empty /\ made.categories = empty
  BY <1>1
<1> HIDE DEF made
<1>4. \A f \in fields : made[f] = new[f]
  BY <1>2, <1>3
<1> HIDE DEF fields
<1>5. made = new
  BY <1>2, <1>3, <1>4
<1> QED
  BY <1>5 DEF made, old, new

\* The charts of a page that was just opened.
LEMMA NewCharts ==
  ASSUME SnapshotsAssumption
  PROVE  NewLineChart \in Charts(Null) /\ NewBarChart \in Charts("x")
<1>1. NewLineChart \in Charts(Null)
  <2> DEFINE vs == [i \in 1 .. 7 |-> Text]
  <2>0. Text \in Cells
    BY DEF Cells
  <2>1. vs \in Seq(Cells)
    BY <2>0
  <2>2. Fillers(vs, Text)
    BY DEF Fillers
  <2> HIDE DEF vs
  <2>3. "r" \in Strings
    BY DEF SnapshotsAssumption
  <2>4. LoadData(NoChart, ConvertColumnsToData(<<[i \in 1 .. 8 |-> IF i = 1 THEN "r" ELSE Text]>>))
           \in Charts(Null)
    BY <2>1, <2>2, <2>3, FillersLoaded
  <2> QED
    BY <2>4, Zenon DEF NewLineChart
<1>2. NewBarChart \in Charts("x")
  <2> DEFINE chart == [NoChart EXCEPT !.x = "x", !.category = TRUE]
             data == ConvertColumnsToData(<<<<"x">>, <<"requests">>>>)
  <2>1. chart \in Charts("x")
    <3>1. chart = [x |-> "x", xs |-> [id \in {} |-> Null], category |-> TRUE, xSort |-> TRUE,
                   targets |-> <<>>, known |-> <<>>, categories |-> <<>>]
      <4> DEFINE none == [id \in {} |-> Null]
                 yes == TRUE
                 no == FALSE
                 name == "x"
      <4>1. chart = [[x |-> Null, xs |-> none, category |-> no, xSort |-> yes, targets |-> <<>>,
                      known |-> <<>>, categories |-> <<>>] EXCEPT !.x = name, !.category = yes]
        BY DEF NoChart
      <4> HIDE DEF none, yes, no, name, chart
      <4>2. chart = [x |-> name, xs |-> none, category |-> yes, xSort |-> yes,
                     targets |-> <<>>, known |-> <<>>, categories |-> <<>>]
        BY <4>1, ChartWithX
      <4> QED
        BY <4>2 DEF none, yes, name
    <3>2. "x" # Null
      BY DEF SnapshotsAssumption
    <3> HIDE DEF chart
    <3>3. TRUE = ("x" # Null)
      BY <3>2
    <3>4. <<>> \in Seq(ChartTargets) /\ <<>> \in Seq(KnownX) /\ <<>> \in Seq(Strings)
      OBVIOUS
    <3> QED
      BY <3>1, <3>3, <3>4 DEF Charts
  <2>2. data.keys = <<>> /\ data.rows = <<>>
    <3> DEFINE none == <<>>
    <3>1. none \in Seq(Strings) /\ none \in Seq(Int) /\ Len(none) = Len(none) /\ none = <<>>
      OBVIOUS
    <3>2. <<"x">> \o none = <<"x">> /\ <<"requests">> \o none = <<"requests">>
      OBVIOUS
    <3> HIDE DEF none
    <3> DEFINE d == ConvertColumnsToData(<<<<"x">> \o none, <<"requests">> \o none>>)
    <3>3. none = <<>> => d.keys = <<>> /\ d.rows = <<>>
      BY <3>1, BarRows
    <3>4. d = data
      BY <3>2
    <3> HIDE DEF d, data
    <3> QED
      BY <3>1, <3>3, <3>4
  <2> HIDE DEF chart, data
  <2>3. LoadData(chart, data) \in Charts("x")
    BY <2>1, <2>2, ChartKept
  <2> QED
    BY <2>3 DEF NewBarChart, chart, data
<1> QED
  BY <1>1, <1>2

\* A chart has the figures of the last snapshot that had any.
LineShows(chart, stats) ==
  /\ chart \in Charts(Null) /\ stats \in Seq(Int)
  /\ stats # <<>> => Shown(chart, "Requests", stats)

BarShows(chart, stats) ==
  /\ chart \in Charts("x") /\ stats \in Seq(Figures)
  /\ stats # <<>> => Shown(chart, "requests", FiguresOf(stats)) /\ chart.categories = KeysOf(stats)

Later(old, stats) == IF stats = <<>> THEN old ELSE stats

\* What is shown depends on the targets only.
LEMMA SameShown ==
  ASSUME NEW one, NEW other, one.targets = other.targets, NEW id, NEW values, Shown(one, id, values)
  PROVE  Shown(other, id, values)
<1>1. PICK i \in DOMAIN one.targets :
        /\ one.targets[i].id = id
        /\ [k \in DOMAIN one.targets[i].values |-> one.targets[i].values[k].value] = values
  BY Zenon DEF Shown
<1> DEFINE ts == one.targets
<1>2. other.targets = ts
  OBVIOUS
<1> HIDE DEF ts
<1>3. /\ i \in DOMAIN ts /\ ts[i].id = id
      /\ [k \in DOMAIN ts[i].values |-> ts[i].values[k].value] = values
  BY <1>1 DEF ts
<1>4. \E j \in DOMAIN ts : /\ ts[j].id = id
                           /\ [k \in DOMAIN ts[j].values |-> ts[j].values[k].value] = values
  BY <1>3, Zenon
<1> QED
  BY <1>2, <1>4, Zenon DEF Shown

\* A line chart goes on showing the latest numbers it was given.
LEMMA LineKept ==
  ASSUME SnapshotsAssumption, NEW chart, NEW old, LineShows(chart, old), NEW stats \in Seq(Int)
  PROVE  LineShows(ProcessLine(chart, stats), Later(old, stats))
<1> DEFINE new == ProcessLine(chart, stats)
<1>1. chart \in Charts(Null) /\ old \in Seq(Int) /\ (old # <<>> => Shown(chart, "Requests", old))
  BY DEF LineShows
<1>2. /\ new \in Charts(Null)
      /\ stats # <<>> => Shown(new, "Requests", stats)
      /\ stats = <<>> => new.targets = chart.targets
  BY <1>1, LineProcessed
<1> HIDE DEF new
<1>3. CASE stats = <<>>
  <2>1. Later(old, stats) = old
    BY <1>3 DEF Later
  <2>2. old # <<>> => Shown(new, "Requests", old)
    BY <1>1, <1>2, <1>3, SameShown
  <2>3. LineShows(new, old)
    BY <1>1, <1>2, <2>2 DEF LineShows
  <2> QED
    BY <2>1, <2>3 DEF new
<1>4. CASE stats # <<>>
  <2>1. Later(old, stats) = stats
    BY <1>4 DEF Later
  <2>2. LineShows(new, stats)
    BY <1>2 DEF LineShows
  <2> QED
    BY <2>1, <2>2 DEF new
<1> QED
  BY <1>3, <1>4

\* A bar chart goes on showing the latest figures it was given, under their keys.
LEMMA BarKept ==
  ASSUME SnapshotsAssumption, NEW chart, NEW old, BarShows(chart, old), NEW stats \in Seq(Figures)
  PROVE  BarShows(ProcessBar(chart, stats), Later(old, stats))
<1> DEFINE new == ProcessBar(chart, stats)
<1>1. /\ chart \in Charts("x") /\ old \in Seq(Figures)
      /\ old # <<>> => Shown(chart, "requests", FiguresOf(old)) /\ chart.categories = KeysOf(old)
  BY DEF BarShows
<1>2. /\ new \in Charts("x")
      /\ stats # <<>> => Shown(new, "requests", FiguresOf(stats)) /\ new.categories = KeysOf(stats)
      /\ stats = <<>> => new.targets = chart.targets /\ new.categories = chart.categories
  BY <1>1, BarProcessed
<1> HIDE DEF new
<1>3. CASE stats = <<>>
  <2>1. Later(old, stats) = old
    BY <1>3 DEF Later
  <2>2. old # <<>> => Shown(new, "requests", FiguresOf(old)) /\ new.categories = KeysOf(old)
    BY <1>1, <1>2, <1>3, SameShown
  <2>3. BarShows(new, old)
    BY <1>1, <1>2, <2>2 DEF BarShows
  <2> QED
    BY <2>1, <2>3 DEF new
<1>4. CASE stats # <<>>
  <2>1. Later(old, stats) = stats
    BY <1>4 DEF Later
  <2>2. BarShows(new, stats)
    BY <1>2, <1>4 DEF BarShows
  <2> QED
    BY <2>1, <2>2 DEF new
<1> QED
  BY <1>3, <1>4

\* What holds of the page after any snapshots.
Kinds == {"seconds", "minutes", "perCurrency", "perCountry"}

Fields == Kinds \cup {"requests", "volume"}

DashboardIInv ==
  /\ DOMAIN page = Fields /\ DOMAIN told = {"requests", "volume"} /\ DOMAIN latest = Kinds
  /\ page.requests = told.requests /\ page.volume = told.volume
  /\ LineShows(page.seconds, latest.seconds) /\ LineShows(page.minutes, latest.minutes)
  /\ BarShows(page.perCurrency, latest.perCurrency) /\ BarShows(page.perCountry, latest.perCountry)

\* A new page shows nothing and was given nothing.
LEMMA DashboardStarts ==
  ASSUME SnapshotsAssumption, DashboardInit
  PROVE  DashboardIInv
<1>1. NewLineChart \in Charts(Null) /\ NewBarChart \in Charts("x")
  BY NewCharts
<1>2. LineShows(NewLineChart, <<>>)
  <2>1. <<>> \in Seq(Int)
    OBVIOUS
  <2> QED
    BY <1>1, <2>1 DEF LineShows
<1>3. BarShows(NewBarChart, <<>>)
  <2>1. <<>> \in Seq(Figures)
    OBVIOUS
  <2> QED
    BY <1>1, <2>1 DEF BarShows
<1>4. /\ page.seconds = NewLineChart /\ page.minutes = NewLineChart
      /\ page.perCurrency = NewBarChart /\ page.perCountry = NewBarChart
  BY DEF DashboardInit, NewPage
<1>5. /\ DOMAIN latest = Kinds /\ latest.seconds = <<>> /\ latest.minutes = <<>>
      /\ latest.perCurrency = <<>> /\ latest.perCountry = <<>>
  BY DEF DashboardInit, Kinds
<1>6. /\ DOMAIN page = Fields /\ DOMAIN told = {"requests", "volume"}
      /\ page.requests = told.requests /\ page.volume = told.volume
  BY DEF DashboardInit, NewPage, Fields, Kinds
<1> QED
  BY <1>2, <1>3, <1>4, <1>5, <1>6 DEF DashboardIInv

\* After a snapshot with a volume the four charts show what it has for them.
LEMMA SnapshotShown ==
  ASSUME SnapshotsAssumption, DashboardIInv, NEW stats \in Snapshots, OnMessage(stats)
  PROVE  DashboardIInv'
<1>1. /\ stats.seconds \in Seq(Int) /\ stats.minutes \in Seq(Int)
      /\ stats.perCurrency \in Seq(Figures) /\ stats.perCountry \in Seq(Figures)
  BY DEF SnapshotsAssumption
<1>2. /\ page'.seconds = ProcessLine(page.seconds, stats.seconds)
      /\ page'.minutes = ProcessLine(page.minutes, stats.minutes)
      /\ page'.perCurrency = ProcessBar(page.perCurrency, stats.perCurrency)
      /\ page'.perCountry = ProcessBar(page.perCountry, stats.perCountry)
  BY DEF OnMessage
<1>3. DOMAIN latest' = Kinds /\ \A f \in Kinds : latest'[f] = Later(latest[f], stats[f])
  BY DEF OnMessage, DashboardIInv, Later
<1>4. /\ latest'.seconds = Later(latest.seconds, stats.seconds)
      /\ latest'.minutes = Later(latest.minutes, stats.minutes)
      /\ latest'.perCurrency = Later(latest.perCurrency, stats.perCurrency)
      /\ latest'.perCountry = Later(latest.perCountry, stats.perCountry)
  BY <1>3 DEF Kinds
<1>5. LineShows(page'.seconds, latest'.seconds)
  BY <1>1, <1>2, <1>4, LineKept DEF DashboardIInv
<1>6. LineShows(page'.minutes, latest'.minutes)
  BY <1>1, <1>2, <1>4, LineKept DEF DashboardIInv
<1>7. BarShows(page'.perCurrency, latest'.perCurrency)
  BY <1>1, <1>2, <1>4, BarKept DEF DashboardIInv
<1>8. BarShows(page'.perCountry, latest'.perCountry)
  BY <1>1, <1>2, <1>4, BarKept DEF DashboardIInv
<1>9. /\ DOMAIN page' = Fields /\ DOMAIN told' = {"requests", "volume"}
      /\ page'.requests = told'.requests /\ page'.volume = told'.volume
  BY DEF OnMessage, Fields, Kinds
<1> QED
  BY <1>3, <1>5, <1>6, <1>7, <1>8, <1>9 DEF DashboardIInv

\* After one without, they show what they showed.
LEMMA OnlyCountShown ==
  ASSUME DashboardIInv, NEW stats, OnMessageThrows(stats)
  PROVE  DashboardIInv'
<1>1. /\ DOMAIN page' = Fields /\ page'.requests = stats.count
      /\ \A f \in Fields \ {"requests"} : page'[f] = page[f]
  BY DEF OnMessageThrows, DashboardIInv, Fields
<1>2. /\ DOMAIN told' = {"requests", "volume"} /\ told'.requests = stats.count
      /\ told'.volume = told.volume /\ latest' = latest
  BY DEF OnMessageThrows, DashboardIInv
<1>3. \A f \in Kinds \cup {"volume"} : page'[f] = page[f]
  BY <1>1 DEF Fields, Kinds
<1>4. /\ page'.volume = page.volume /\ page'.seconds = page.seconds /\ page'.minutes = page.minutes
      /\ page'.perCurrency = page.perCurrency /\ page'.perCountry = page.perCountry
  BY <1>3 DEF Kinds
<1> QED
  BY <1>1, <1>2, <1>4 DEF DashboardIInv

\* The invariant says that the latest figures are shown.
LEMMA LatestShown == DashboardIInv => PageShowsLatest
<1> HAVE DashboardIInv
<1>0. page.requests = told.requests /\ page.volume = told.volume
  BY DEF DashboardIInv
<1>1. ASSUME NEW f \in {"seconds", "minutes"}, latest[f] # <<>>
      PROVE  Shown(page[f], "Requests", latest[f])
  BY <1>1 DEF DashboardIInv, LineShows
<1>2. ASSUME NEW f \in {"perCurrency", "perCountry"}, latest[f] # <<>>
      PROVE  Shown(page[f], "requests", FiguresOf(latest[f])) /\ page[f].categories = KeysOf(latest[f])
  BY <1>2 DEF DashboardIInv, BarShows
<1> QED
  BY <1>0, <1>1, <1>2 DEF PageShowsLatest, FiguresOf, KeysOf

\* After any snapshots, of any figures with any keys in any order, the charts of
\* the page show the figures of the last one that had any and whose volume was a
\* number, the volume is that of the last one of those, and the count is that of
\* the last one of all (app.js).
THEOREM LatestAlwaysShown == CalculationsSpec => []PageShowsLatest
<1>1. CalculationsInit => DashboardIInv
  BY DashboardStarts, SnapshotsAssumption DEF CalculationsInit
<1>2. DashboardIInv /\ [CalculationsNext]_calculationsVars => DashboardIInv'
  <2> SUFFICES ASSUME DashboardIInv, [CalculationsNext]_calculationsVars
               PROVE  DashboardIInv'
    OBVIOUS
  <2>1. CASE UNCHANGED dashboardVars
    BY <2>1 DEF dashboardVars, DashboardIInv
  <2>2. CASE DashboardNext
    BY <2>2, SnapshotShown, OnlyCountShown, SnapshotsAssumption DEF DashboardNext
  <2> QED
    BY <2>1, <2>2 DEF CalculationsNext, calculationsVars, dashboardVars, Window, Page, Ask
<1> QED
  BY <1>1, <1>2, LatestShown, PTL DEF CalculationsSpec

-----------------------------------------------------------------------------
(***************************************************************************)
(* The charts' answers.                                                    *)
(***************************************************************************)
\* What is asked about an axis or a domain is answered as it should be.
LEMMA AxisIsUpright == AskedOfQuestions => AxisUpright
<1> SUFFICES ASSUME AskedOfQuestions, Asked("axis") PROVE AxisUpright
  BY DEF AxisUpright
<1>1. IsAxis(probe.input) /\ Null \notin Int
  BY InputAsked, CalculationsAssumption, SnapshotsAssumption DEF CalculationsAssumption, SnapshotsAssumption
<1> QED
  BY <1>1, AxisAnswered DEF AxisUpright

\* Every question about a domain is answered right.
LEMMA DomainHolds == AskedOfQuestions => DomainHoldsData
<1> SUFFICES ASSUME AskedOfQuestions, Asked("domain") PROVE DomainHoldsData
  BY DEF DomainHoldsData
<1>1. IsDomain(probe.input)
  BY InputAsked, CalculationsAssumption DEF CalculationsAssumption
<1> QED
  BY <1>1, DomainAnswered DEF DomainHoldsData

\* Keys that are all different are in strict order, each of them once.
LEMMA StrictOrder ==
  ASSUME NEW keys \in Seq(Int), \A i, j \in 1 .. Len(keys) : keys[i] = keys[j] => i = j
  PROVE  LET order == StableOrder(keys)
         IN  /\ \A k \in 1 .. Len(keys) : order[k] \in 1 .. Len(keys)
             /\ \A k \in 2 .. Len(keys) : keys[order[k - 1]] < keys[order[k]]
             /\ \A i \in 1 .. Len(keys) : \E k \in 1 .. Len(keys) : order[k] = i
<1> DEFINE n == Len(keys)
           order == StableOrder(keys)
<1>1. n \in Nat /\ DOMAIN keys = 1 .. n /\ \A i \in 1 .. n : keys[i] \in Int
  OBVIOUS
<1>2. /\ \A k \in 1 .. n : order[k] \in 1 .. n /\ Place(keys, order[k]) = k - 1
      /\ \A i \in 1 .. n : order[Place(keys, i) + 1] = i
  BY InStableOrder
<1>3. /\ \A i \in 1 .. n : Place(keys, i) \in 0 .. n - 1
      /\ \A i, j \in 1 .. n : i \in Earlier(keys, j) <=> Place(keys, i) < Place(keys, j)
  BY Places
<1> HIDE DEF n, order
<1>4. ASSUME NEW k \in 2 .. n PROVE keys[order[k - 1]] < keys[order[k]]
  <2> DEFINE i == order[k - 1]
             j == order[k]
  <2>1. k \in 1 .. n /\ k - 1 \in 1 .. n
    BY <1>1
  <2>2. i \in 1 .. n /\ j \in 1 .. n /\ Place(keys, i) = (k - 1) - 1 /\ Place(keys, j) = k - 1
    BY <1>2, <2>1
  <2>3. Place(keys, i) < Place(keys, j)
    BY <2>2
  <2>4. i \in Earlier(keys, j) /\ i # j
    BY <1>3, <2>2, <2>3
  <2> HIDE DEF i, j
  <2>5. keys[i] # keys[j]
    BY <2>2, <2>4 DEF n
  <2>6. keys[i] < keys[j]
    BY <2>4, <2>5 DEF Earlier
  <2> QED
    BY <2>6 DEF i, j
<1>5. ASSUME NEW i \in 1 .. n PROVE \E k \in 1 .. n : order[k] = i
  <2>1. Place(keys, i) \in 0 .. n - 1
    BY <1>3
  <2>2. Place(keys, i) + 1 \in 1 .. n
    BY <1>1, <2>1
  <2> QED
    BY <1>2, <2>2
<1> QED
  BY <1>2, <1>4, <1>5 DEF n, order

\* The first values are chosen as they are.
LEMMA ChosenFirst ==
  ASSUME NEW T, NEW s \in Seq(T), NEW m \in 0 .. Len(s)
  PROVE  Chosen(s, 1 .. m) = [k \in 1 .. m |-> s[k]]
<1>1. /\ Len(s) \in Nat /\ m \in Nat /\ m <= Len(s)
      /\ 1 .. m \in SUBSET (1 .. Len(s)) /\ Cardinality(1 .. m) = m
  <2>1. Len(s) \in Nat
    OBVIOUS
  <2>2. m \in Nat /\ m <= Len(s)
    BY <2>1
  <2>3. Cardinality(1 .. m) = m
    BY <2>2, FS_Interval
  <2> QED
    BY <2>1, <2>2, <2>3
<1>2. ASSUME NEW i \in 1 .. m PROVE Ahead(1 .. m, i) + 1 = i
  <2>1. {j \in 1 .. m : j < i} = 1 .. i - 1
    BY <1>1
  <2>2. 1 \in Int /\ i - 1 \in Int /\ i >= 1
    BY <1>1
  <2>3. Cardinality(1 .. i - 1) = i - 1
    <3>1. Cardinality(1 .. i - 1) = IF 1 > i - 1 THEN 0 ELSE (i - 1) - 1 + 1
      BY <2>2, FS_Interval
    <3> QED
      BY <2>2, <3>1
  <2>4. Ahead(1 .. m, i) = i - 1
    BY <2>1, <2>3 DEF Ahead
  <2> QED
    BY <2>2, <2>4
<1> DEFINE c == Chosen(s, 1 .. m)
<1>3. /\ c \in Seq(T) /\ Len(c) = m
      /\ \A i \in 1 .. m : c[Ahead(1 .. m, i) + 1] = s[i]
  BY <1>1, ChosenPlaces
<1> HIDE DEF c
<1>4. \A i \in 1 .. m : c[i] = s[i]
  BY <1>2, <1>3
<1>5. c = [k \in 1 .. m |-> c[k]]
  BY <1>3
<1> QED
  BY <1>4, <1>5 DEF c

\* Up to place m a target has the values of the rows, and those after have none.
AtX(chart, data, id, xs, X, value) ==
  /\ chart.xSort
  /\ DOMAIN data.rows = 1 .. Len(data.rows) /\ Len(data.rows) \in Nat /\ Len(X) <= Len(data.rows)
  /\ {i \in DOMAIN data.rows : id \in DOMAIN data.rows[i] /\ i <= Len(xs)} = 1 .. Len(X)
  /\ \A i \in 1 .. Len(X) : /\ TargetX(chart, Cell(data.rows[i], XKey(chart, id)), xs, i) = X[i]
                           /\ Number(data.rows[i][id]) = value[i]

ValuesAtX(X, value) ==
  [k \in 1 .. Len(X) |-> [x |-> X[StableOrder(X)[k]], value |-> value[StableOrder(X)[k]],
                          index |-> k - 1]]

\* A target whose values have their x is made of these values in the order of x.
LEMMA TargetAtX ==
  ASSUME NEW chart, NEW data, NEW id, NEW xs, NEW X \in Seq(Int), NEW value,
         AtX(chart, data, id, xs, X, value)
  PROVE  TargetOf(chart, data, id, xs) = [id |-> id, values |-> ValuesAtX(X, value)]
<1> DEFINE m == Len(X)
           n == Len(data.rows)
           all == [i \in 1 .. n |-> i]
           kept == Chosen([i \in DOMAIN data.rows |-> i],
                          {i \in DOMAIN data.rows : id \in DOMAIN data.rows[i] /\ i <= Len(xs)})
           v(i) == [x |-> TargetX(chart, Cell(data.rows[i], XKey(chart, id)), xs, i),
                    value |-> Number(data.rows[i][id]), index |-> i]
           came == [k \in 1 .. m |-> [x |-> X[k], value |-> value[k], index |-> k]]
           order == StableOrder(X)
           sorted == [k \in 1 .. m |-> came[order[k]]]
           made == [k \in 1 .. m |-> [x |-> X[order[k]], value |-> value[order[k]], index |-> k - 1]]
<1>0. /\ chart.xSort /\ DOMAIN data.rows = 1 .. n /\ n \in Nat /\ m <= n /\ m \in Nat
      /\ {i \in DOMAIN data.rows : id \in DOMAIN data.rows[i] /\ i <= Len(xs)} = 1 .. m
      /\ \A i \in 1 .. m : v(i) = [x |-> X[i], value |-> value[i], index |-> i]
  <2>1. m \in Nat
    OBVIOUS
  <2> QED
    BY <2>1 DEF AtX
<1>1. kept = [i \in 1 .. m |-> i]
  <2>1. all \in Seq(Nat) /\ Len(all) = n /\ m \in 0 .. Len(all)
    BY <1>0
  <2>2. [i \in DOMAIN data.rows |-> i] = all
    BY <1>0
  <2>3. \A i \in 1 .. m : all[i] = i
    BY <1>0
  <2> HIDE DEF all, m
  <2>4. Chosen(all, 1 .. m) = [k \in 1 .. m |-> all[k]]
    BY <2>1, ChosenFirst
  <2> QED
    BY <1>0, <2>2, <2>3, <2>4
<1> HIDE DEF v
<1>2. [k \in DOMAIN kept |-> v(kept[k])] = came
  <2> HIDE DEF kept
  <2>1. DOMAIN kept = 1 .. m /\ \A k \in 1 .. m : kept[k] = k
    BY <1>1
  <2> QED
    BY <1>0, <2>1
<1>3. DOMAIN came = 1 .. m /\ [k \in DOMAIN came |-> came[k].x] = X
  <2>1. DOMAIN came = 1 .. m /\ \A k \in 1 .. m : came[k].x = X[k]
    OBVIOUS
  <2>2. X = [k \in 1 .. m |-> X[k]]
    OBVIOUS
  <2> HIDE DEF came, m
  <2> QED
    BY <2>1, <2>2
<1>4. ByX(came) = sorted
  <2> HIDE DEF came, order
  <2>1. ByX(came) = [k \in DOMAIN came |-> came[StableOrder(X)[k]]]
    BY <1>3 DEF ByX, Ordered
  <2> QED
    BY <1>3, <2>1 DEF order
<1>5. \A k \in 1 .. m : order[k] \in 1 .. m
  BY InStableOrder
<1>6. Indexed(came, chart.xSort) = made
  <2>1. Indexed(came, chart.xSort) = [k \in DOMAIN sorted |-> [sorted[k] EXCEPT !.index = k - 1]]
    BY <1>0, <1>4 DEF Indexed
  <2>2. ASSUME NEW k \in 1 .. m PROVE [sorted[k] EXCEPT !.index = k - 1] = made[k]
    <3> DEFINE i == order[k]
               last == k - 1
    <3>1. i \in 1 .. m
      BY <1>5
    <3> HIDE DEF i, last
    <3>2. sorted[k] = [x |-> X[i], value |-> value[i], index |-> i]
      BY <3>1 DEF i
    <3> HIDE DEF sorted
    <3>3. [sorted[k] EXCEPT !.index = last] = [x |-> X[i], value |-> value[i], index |-> last]
      BY <3>2
    <3> QED
      BY <3>3 DEF i, last
  <2>3. DOMAIN sorted = 1 .. m /\ made = [k \in 1 .. m |-> made[k]]
    OBVIOUS
  <2> HIDE DEF sorted, made, came, m
  <2> QED
    BY <2>1, <2>2, <2>3
<1>7. TargetOf(chart, data, id, xs)
        = [id |-> id, values |-> Indexed([k \in DOMAIN kept |-> v(kept[k])], chart.xSort)]
  BY DEF TargetOf, v
<1> HIDE DEF kept, came, made
<1>8. TargetOf(chart, data, id, xs) = [id |-> id, values |-> made]
  BY <1>2, <1>6, <1>7
<1> QED
  BY <1>8 DEF made, ValuesAtX

-----------------------------------------------------------------------------
(***************************************************************************)
(* Tables: columns a and b, and maybe one of x.                            *)
(***************************************************************************)
TableCells == Strings \cup Int \cup {Null, Text, Empty}

\* The rows have what a column has, as far as it goes.
HasColumn(data, key, s) ==
  /\ Len(s) <= Len(data.rows)
  /\ \A i \in 1 .. Len(data.rows) : /\ key \in DOMAIN data.rows[i] <=> i <= Len(s)
                                    /\ i <= Len(s) => data.rows[i][key] = s[i]

IsTableData(data, x, a, b) ==
  /\ Len(data.rows) \in Nat /\ DOMAIN data.rows = 1 .. Len(data.rows)
  /\ HasColumn(data, "a", a) /\ HasColumn(data, "b", b) /\ HasColumn(data, "x", x)
  /\ \A i \in 1 .. Len(data.rows) : DOMAIN data.rows[i] \subseteq {"a", "b", "x"}
  /\ \E s \in {a, b, x} : Len(data.rows) = Len(s)
  /\ data.keys = IF x = <<>> THEN <<"a", "b">> ELSE <<"x", "a", "b">>

TablesAssumption ==
  /\ {"a", "b", "x"} \subseteq Strings
  /\ {Null, Text, Empty} \cap (Int \cup Strings \cup Seq(Int)) = {}
  /\ Text # Null /\ Empty \notin {Null, Text}

\* The names and the cells of tables are told apart.
LEMMA TablesAssumed == TablesAssumption
  BY CalculationsAssumption, SnapshotsAssumption DEF CalculationsAssumption, SnapshotsAssumption, TablesAssumption

\* The cells of a table are all of one kind.
LEMMA ATable ==
  ASSUME TablesAssumption, NEW i, IsTable(i)
  PROVE  /\ i.a \in Seq(TableCells) /\ i.b \in Seq(TableCells) /\ i.x \in Seq(TableCells)
         /\ Len(i.a) \in Nat \ {0} /\ Len(i.b) \in Nat \ {0} /\ Len(i.x) \in Nat
         /\ i.x = <<>> <=> Len(i.x) = 0
<1>1. i.a \in Seq(TableCells) /\ i.b \in Seq(TableCells) /\ i.x \in Seq(TableCells)
  BY DEF IsTable, TableCells
<1>2. i.a # <<>> /\ i.b # <<>>
  BY DEF IsTable
<1> QED
  BY <1>1, <1>2

\* What rows made of columns have of each.
IsColumn(column, key, s) ==
  /\ column # <<>> /\ column[1] = key /\ Len(column) = Len(s) + 1 /\ Len(s) \in Nat \ {0}
  /\ \A k \in 1 .. Len(s) : column[k + 1] = s[k]

\* Data of columns have each of the columns.
LEMMA ColumnOfRows ==
  ASSUME NEW columns, NEW data, RowsOf(columns, data), Len(data.rows) \in Nat,
         \A j, k \in DOMAIN columns : columns[j][1] = columns[k][1] => j = k,
         NEW c \in DOMAIN columns, NEW key, NEW s, IsColumn(columns[c], key, s)
  PROVE  HasColumn(data, key, s)
<1> DEFINE n == Len(data.rows)
           m == Len(s)
<1>1. /\ columns[c][1] = key /\ Len(columns[c]) = m + 1 /\ m \in Nat
      /\ \A k \in 1 .. m : columns[c][k + 1] = s[k]
  BY DEF IsColumn
<1>2. Len(columns[c]) - 1 <= n /\ DOMAIN data.rows = 1 .. n /\ n \in Nat
  BY DEF RowsOf
<1> HIDE DEF m, n
<1>3. m <= n
  BY <1>1, <1>2
<1>4. ASSUME NEW i \in 1 .. n
      PROVE  /\ key \in DOMAIN data.rows[i] <=> i <= m
             /\ i <= m => data.rows[i][key] = s[i]
  <2> DEFINE far == {j \in DOMAIN columns : Len(columns[j]) > i}
  <2>1. /\ DOMAIN data.rows[i] = {columns[k][1] : k \in far}
        /\ Len(columns[c]) > i => data.rows[i][columns[c][1]] = columns[c][i + 1]
    BY <1>2 DEF RowsOf
  <2>2. Len(columns[c]) > i <=> i <= m
    BY <1>1, <1>2
  <2>3. key \in DOMAIN data.rows[i] <=> c \in far
    BY <1>1, <2>1
  <2>4. i <= m => i \in 1 .. m
    BY <1>1, <1>2
  <2> QED
    BY <1>1, <2>1, <2>2, <2>3, <2>4
<1> QED
  BY <1>3, <1>4 DEF HasColumn, m, n

\* Columns of two and of three keys.
AreTwoColumns(columns, T, one, two) ==
  /\ DOMAIN columns = {1, 2} /\ columns[1] = one /\ columns[2] = two
  /\ AreColumns(columns, T) /\ <<>> \o columns = columns

\* Two columns with different keys.
LEMMA TwoColumns ==
  ASSUME NEW T, NEW one \in Seq(T), NEW two \in Seq(T), one # <<>>, two # <<>>, one[1] # two[1],
         NEW columns, columns = <<one, two>>
  PROVE  AreTwoColumns(columns, T, one, two)
<1>1. /\ DOMAIN columns = {1, 2} /\ columns[1] = one /\ columns[2] = two
      /\ columns \in Seq(Seq(T)) /\ columns # <<>>
  OBVIOUS
<1>2. <<>> \o columns = columns
  BY <1>1
<1>3. AreColumns(columns, T)
  BY <1>1 DEF AreColumns
<1> QED
  BY <1>1, <1>2, <1>3 DEF AreTwoColumns

AreThreeColumns(columns, T, one, two, three) ==
  /\ DOMAIN columns = {1, 2, 3}
  /\ columns[1] = one /\ columns[2] = two /\ columns[3] = three
  /\ AreColumns(columns, T) /\ <<one>> \o <<two, three>> = columns

\* One and two are three.
LEMMA OneAndTwo ==
  ASSUME NEW T, NEW one \in T, NEW two \in T, NEW three \in T
  PROVE  <<one>> \o <<two, three>> = <<one, two, three>>
<1> DEFINE f == <<one>>
           g == <<two, three>>
           h == f \o g
           all == <<one, two, three>>
<1>1. /\ f \in Seq(T) /\ Len(f) = 1 /\ f[1] = one
      /\ g \in Seq(T) /\ Len(g) = 2 /\ g[1] = two /\ g[2] = three
  OBVIOUS
<1>2. all \in Seq(T) /\ Len(all) = 3 /\ all[1] = one /\ all[2] = two /\ all[3] = three
  OBVIOUS
<1> HIDE DEF f, g, all
<1>3. /\ h \in Seq(T) /\ Len(h) = Len(f) + Len(g)
      /\ \A i \in 1 .. Len(f) + Len(g) : h[i] = IF i <= Len(f) THEN f[i] ELSE g[i - Len(f)]
  BY <1>1, ConcatProperties
<1> HIDE DEF h
<1>7. \A k \in 1 .. 3 : h[k] = all[k]
  BY <1>1, <1>2, <1>3
<1>8. h = all
  BY <1>1, <1>2, <1>3, <1>7
<1> QED
  BY <1>8 DEF f, g, h, all

\* Three columns with different keys.
LEMMA ThreeColumns ==
  ASSUME NEW T, NEW one \in Seq(T), NEW two \in Seq(T), NEW three \in Seq(T),
         one # <<>>, two # <<>>, three # <<>>,
         one[1] # two[1], one[1] # three[1], two[1] # three[1],
         NEW columns, columns = <<one, two, three>>
  PROVE  AreThreeColumns(columns, T, one, two, three)
<1>1. /\ DOMAIN columns = {1, 2, 3}
      /\ columns[1] = one /\ columns[2] = two /\ columns[3] = three
      /\ columns \in Seq(Seq(T)) /\ columns # <<>>
  OBVIOUS
<1>2. <<one>> \o <<two, three>> = columns
  BY OneAndTwo
<1>3. AreColumns(columns, T)
  BY <1>1 DEF AreColumns
<1> QED
  BY <1>1, <1>2, <1>3 DEF AreThreeColumns

\* A column is its key and its values.
LEMMA OneKeyedColumn ==
  ASSUME NEW T, NEW key \in T, NEW s \in Seq(T), s # <<>>
  PROVE  /\ IsColumn(<<key>> \o s, key, s) /\ <<key>> \o s \in Seq(T)
         /\ <<key>> \o s # <<>> /\ (<<key>> \o s)[1] = key
<1> DEFINE column == <<key>> \o s
<1>1. /\ column \in Seq(T) /\ column # <<>> /\ column[1] = key
      /\ Len(column) = Len(s) + 1 /\ Len(s) \in Nat
      /\ \A i \in 1 .. Len(s) : column[i + 1] = s[i]
  BY KeyedColumn
<1>2. Len(s) # 0
  OBVIOUS
<1> HIDE DEF column
<1>3. IsColumn(column, key, s)
  BY <1>1, <1>2 DEF IsColumn
<1> QED
  BY <1>1, <1>3 DEF column

\* Rows of columns have nothing else, and are as many as the longest has.
LEMMA RowsAsFar ==
  ASSUME NEW T, NEW columns, AreColumns(columns, T), NEW data, RowsOf(columns, data),
         NEW keys, \A c \in DOMAIN columns : columns[c][1] \in keys
  PROVE  /\ Len(data.rows) \in Nat /\ DOMAIN data.rows = 1 .. Len(data.rows)
         /\ \E c \in DOMAIN columns : Len(data.rows) = Len(columns[c]) - 1
         /\ \A i \in 1 .. Len(data.rows) : DOMAIN data.rows[i] \subseteq keys
<1>1. Len(data.rows) \in Nat /\ DOMAIN data.rows = 1 .. Len(data.rows)
  BY DEF RowsOf
<1>2. \A i \in DOMAIN data.rows : DOMAIN data.rows[i] =
            {columns[k][1] : k \in {j \in DOMAIN columns : Len(columns[j]) > i}}
  BY DEF RowsOf
<1>3. \A i \in DOMAIN data.rows : DOMAIN data.rows[i] \subseteq keys
  BY <1>2
<1> QED
  BY <1>1, <1>3 DEF RowsOf

\* A table given as columns is the data of this table.
LEMMA ColumnsOfTable ==
  ASSUME TablesAssumption, NEW i, IsTable(i)
  PROVE  IsTableData(Columns(i), i.x, i.a, i.b)
<1> DEFINE T == TableCells
           xs == <<"x">> \o i.x
           as == <<"a">> \o i.a
           bs == <<"b">> \o i.b
           data == Columns(i)
           Ends(columns) == \A k \in DOMAIN columns :
                                Len(columns[k]) > 1 /\ columns[k][1] \notin {Null, Empty}
<1>1. /\ i.a \in Seq(T) /\ i.b \in Seq(T) /\ i.x \in Seq(T)
      /\ Len(i.a) \in Nat \ {0} /\ Len(i.b) \in Nat \ {0} /\ Len(i.x) \in Nat
      /\ i.x = <<>> <=> Len(i.x) = 0
  BY ATable
<1>2. /\ "a" \in T /\ "b" \in T /\ "x" \in T
      /\ {"a", "b", "x"} \cap {Null, Empty} = {}
  BY DEF TablesAssumption, TableCells
<1>3. i.a # <<>> /\ i.b # <<>>
  BY DEF IsTable
<1> HIDE DEF T
<1>4. IsColumn(as, "a", i.a) /\ as \in Seq(T) /\ as # <<>> /\ as[1] = "a"
  BY <1>1, <1>2, <1>3, OneKeyedColumn
<1>5. IsColumn(bs, "b", i.b) /\ bs \in Seq(T) /\ bs # <<>> /\ bs[1] = "b"
  BY <1>1, <1>2, <1>3, OneKeyedColumn
<1>6. i.x # <<>> => IsColumn(xs, "x", i.x) /\ xs \in Seq(T) /\ xs # <<>> /\ xs[1] = "x"
  BY <1>1, <1>2, OneKeyedColumn
<1> HIDE DEF xs, as, bs
<1>7. "a" # "b" /\ "a" # "x" /\ "b" # "x"
  OBVIOUS
<1>8. CASE i.x = <<>>
  <2> DEFINE columns == <<as, bs>>
  <2>1. /\ DOMAIN columns = {1, 2} /\ columns[1] = as /\ columns[2] = bs
        /\ AreColumns(columns, T) /\ <<>> \o columns = columns
    <3>1. as[1] # bs[1]
      BY <1>4, <1>5, <1>7
    <3>2. columns = <<as, bs>>
      OBVIOUS
    <3> HIDE DEF columns
    <3>3. AreTwoColumns(columns, T, as, bs)
      BY <1>4, <1>5, <3>1, <3>2, TwoColumns
    <3> QED
      BY <3>3, Zenon DEF AreTwoColumns
  <2>2. data = ConvertColumnsToData(columns)
    BY <1>8, <2>1 DEF Columns, XColumn, as, bs
  <2> HIDE DEF columns
  <2>3. Len(as) > 1 /\ Len(bs) > 1
    <3>1. Len(as) = Len(i.a) + 1 /\ Len(bs) = Len(i.b) + 1
      BY <1>4, <1>5 DEF IsColumn
    <3> QED
      BY <1>1, <3>1
  <2>4. Ends(columns)
    BY <1>2, <1>4, <1>5, <2>1, <2>3
  <2>5. RowsOf(columns, data)
    BY <2>1, <2>2, <2>4, ColumnsConverted
  <2> HIDE DEF data
  <2>6. \A j, k \in DOMAIN columns : columns[j][1] = columns[k][1] => j = k
    BY <2>1 DEF AreColumns
  <2>7. /\ Len(data.rows) \in Nat /\ DOMAIN data.rows = 1 .. Len(data.rows)
        /\ \E c \in DOMAIN columns : Len(data.rows) = Len(columns[c]) - 1
        /\ \A k \in 1 .. Len(data.rows) : DOMAIN data.rows[k] \subseteq {"a", "b"}
    <3>1. \A c \in DOMAIN columns : columns[c][1] \in {"a", "b"}
      BY <1>4, <1>5, <2>1
    <3> QED
      BY <2>1, <2>5, <3>1, RowsAsFar
  <2>8. HasColumn(data, "a", i.a) /\ HasColumn(data, "b", i.b)
    BY <1>4, <1>5, <2>1, <2>5, <2>6, <2>7, ColumnOfRows
  <2>9. HasColumn(data, "x", i.x)
    <3>1. \A k \in 1 .. Len(data.rows) : "x" \notin DOMAIN data.rows[k]
      BY <1>7, <2>7
    <3>2. Len(i.x) = 0
      BY <1>1, <1>8
    <3> QED
      BY <2>7, <3>1, <3>2 DEF HasColumn
  <2>10. data.keys = <<"a", "b">>
    <3>1. data.keys = [k \in DOMAIN columns |-> columns[k][1]]
      BY <2>5 DEF RowsOf
    <3>2. [k \in {1, 2} |-> IF k = 1 THEN "a" ELSE "b"] = <<"a", "b">>
      OBVIOUS
    <3>3. [k \in DOMAIN columns |-> columns[k][1]] = [k \in {1, 2} |-> IF k = 1 THEN "a" ELSE "b"]
      BY <1>4, <1>5, <2>1
    <3> QED
      BY <3>1, <3>2, <3>3
  <2>11. \E s \in {i.a, i.b, i.x} : Len(data.rows) = Len(s)
    <3>1. PICK c \in DOMAIN columns : Len(data.rows) = Len(columns[c]) - 1
      BY <2>7
    <3>2. Len(as) - 1 = Len(i.a) /\ Len(bs) - 1 = Len(i.b)
      <4>1. Len(as) = Len(i.a) + 1 /\ Len(bs) = Len(i.b) + 1
        BY <1>4, <1>5 DEF IsColumn
      <4> QED
        BY <1>1, <4>1
    <3>3. Len(data.rows) = Len(i.a) \/ Len(data.rows) = Len(i.b)
      BY <2>1, <3>1, <3>2
    <3> QED
      BY <3>3
  <2>12. \A k \in 1 .. Len(data.rows) : DOMAIN data.rows[k] \subseteq {"a", "b", "x"}
    BY <2>7
  <2> QED
    BY <1>8, <2>7, <2>8, <2>9, <2>10, <2>11, <2>12 DEF IsTableData, data
<1>9. CASE i.x # <<>>
  <2> DEFINE columns == <<xs, as, bs>>
  <2>1. /\ DOMAIN columns = {1, 2, 3} /\ columns[1] = xs /\ columns[2] = as /\ columns[3] = bs
        /\ AreColumns(columns, T) /\ <<xs>> \o <<as, bs>> = columns
    <3>1. /\ xs \in Seq(T) /\ xs # <<>>
          /\ xs[1] # as[1] /\ xs[1] # bs[1] /\ as[1] # bs[1]
      BY <1>4, <1>5, <1>6, <1>7, <1>9
    <3>2. columns = <<xs, as, bs>>
      OBVIOUS
    <3> HIDE DEF columns
    <3>3. AreThreeColumns(columns, T, xs, as, bs)
      BY <1>4, <1>5, <3>1, <3>2, ThreeColumns
    <3> QED
      BY <3>3, Zenon DEF AreThreeColumns
  <2>2. data = ConvertColumnsToData(columns)
    BY <1>9, <2>1 DEF Columns, XColumn, as, bs, xs
  <2> HIDE DEF columns
  <2>3. Len(as) - 1 = Len(i.a) /\ Len(bs) - 1 = Len(i.b) /\ Len(xs) - 1 = Len(i.x)
        /\ Len(as) > 1 /\ Len(bs) > 1 /\ Len(xs) > 1
    <3>1. Len(as) = Len(i.a) + 1 /\ Len(bs) = Len(i.b) + 1 /\ Len(xs) = Len(i.x) + 1
      BY <1>4, <1>5, <1>6, <1>9 DEF IsColumn
    <3> QED
      BY <1>1, <1>9, <3>1
  <2>4. Ends(columns)
    BY <1>2, <1>4, <1>5, <1>6, <1>9, <2>1, <2>3
  <2>5. RowsOf(columns, data)
    BY <2>1, <2>2, <2>4, ColumnsConverted
  <2> HIDE DEF data
  <2>6. \A j, k \in DOMAIN columns : columns[j][1] = columns[k][1] => j = k
    BY <2>1 DEF AreColumns
  <2>7. /\ Len(data.rows) \in Nat /\ DOMAIN data.rows = 1 .. Len(data.rows)
        /\ \E c \in DOMAIN columns : Len(data.rows) = Len(columns[c]) - 1
        /\ \A k \in 1 .. Len(data.rows) : DOMAIN data.rows[k] \subseteq {"a", "b", "x"}
    <3>1. \A c \in DOMAIN columns : columns[c][1] \in {"a", "b", "x"}
      BY <1>4, <1>5, <1>6, <1>9, <2>1
    <3> DEFINE keys == {"a", "b", "x"}
    <3> HIDE DEF keys
    <3>2. /\ Len(data.rows) \in Nat /\ DOMAIN data.rows = 1 .. Len(data.rows)
          /\ \E c \in DOMAIN columns : Len(data.rows) = Len(columns[c]) - 1
          /\ \A k \in 1 .. Len(data.rows) : DOMAIN data.rows[k] \subseteq keys
      <4>1. \A c \in DOMAIN columns : columns[c][1] \in keys
        BY <3>1 DEF keys
      <4> QED
        BY <2>1, <2>5, <4>1, RowsAsFar
    <3> QED
      BY <3>2, Zenon DEF keys
  <2>8. HasColumn(data, "a", i.a) /\ HasColumn(data, "b", i.b) /\ HasColumn(data, "x", i.x)
    BY <1>4, <1>5, <1>6, <1>9, <2>1, <2>5, <2>6, <2>7, ColumnOfRows
  <2>10. data.keys = <<"x", "a", "b">>
    <3>1. data.keys = [k \in DOMAIN columns |-> columns[k][1]]
      BY <2>5 DEF RowsOf
    <3> DEFINE named == [k \in {1, 2, 3} |-> IF k = 1 THEN "x" ELSE IF k = 2 THEN "a" ELSE "b"]
    <3>2. named = <<"x", "a", "b">>
      OBVIOUS
    <3>3. [k \in DOMAIN columns |-> columns[k][1]] = named
      BY <1>4, <1>5, <1>6, <1>9, <2>1
    <3> QED
      BY <3>1, <3>2, <3>3
  <2>11. \E s \in {i.a, i.b, i.x} : Len(data.rows) = Len(s)
    <3>1. PICK c \in DOMAIN columns : Len(data.rows) = Len(columns[c]) - 1
      BY <2>7
    <3>3. Len(data.rows) = Len(i.a) \/ Len(data.rows) = Len(i.b) \/ Len(data.rows) = Len(i.x)
      BY <2>1, <2>3, <3>1
    <3> QED
      BY <3>3
  <2> QED
    BY <1>9, <2>7, <2>8, <2>10, <2>11 DEF IsTableData, data
<1> QED
  BY <1>8, <1>9

\* Which x are known of a table, and that a chart takes them.
XsOfTable(data, x) == IF x = <<>> THEN [i \in 1 .. Len(data.rows) |-> i - 1] ELSE x

TakesX(chart, x) ==
  /\ chart.x = IF x = <<>> THEN Null ELSE "x"
  /\ DOMAIN chart.xs = {} /\ ~ chart.category /\ chart.xSort

\* The x that are learned for a column are those of the table, or the numbers from 0.
LEMMA XsLearned ==
  ASSUME TablesAssumption, NEW data, NEW x \in Seq(Int), NEW a, NEW b, IsTableData(data, x, a, b),
         NEW chart, TakesX(chart, x), NEW id
  PROVE  XsLoaded(chart, data, id) = XsOfTable(data, x)
<1> DEFINE n == Len(data.rows)
<1>0. "x" # Null /\ n \in Nat /\ DOMAIN data.rows = 1 .. n
  BY DEF TablesAssumption, IsTableData
<1>1. CASE x = <<>>
  <2>1. ~ IsCustomX(chart)
    BY <1>1 DEF IsCustomX, TakesX
  <2> QED
    BY <1>0, <1>1, <2>1 DEF XsLoaded, XsFor, XsOfTable
<1>2. CASE x # <<>>
  <2> DEFINE m == Len(x)
             cells == [i \in DOMAIN data.rows |-> Cell(data.rows[i], XKey(chart, id))]
             raw == ValuesOf(cells)
             S == Int \cup {Null}
  <2>1. XKey(chart, id) = "x" /\ IsCustomX(chart) /\ chart.x # Null
    BY <1>0, <1>2 DEF XKey, IsCustomX, TakesX
  <2>2. /\ m \in Nat /\ m <= n
        /\ \A i \in 1 .. n : /\ "x" \in DOMAIN data.rows[i] <=> i <= m
                             /\ i <= m => data.rows[i]["x"] = x[i]
        /\ \A i \in 1 .. m : x[i] \in Int
    BY DEF IsTableData, HasColumn
  <2>3. ASSUME NEW i \in 1 .. n
        PROVE  cells[i] = IF i <= m THEN x[i] ELSE Null
    BY <1>0, <2>1, <2>2 DEF Cell
  <2>4. cells \in Seq(S) /\ Len(cells) = n /\ DOMAIN cells = 1 .. n
    <3>1. \A i \in 1 .. n : cells[i] \in S
      <4>1. \A i \in 1 .. n : cells[i] \in Int \/ cells[i] = Null
        <5> HIDE DEF cells, m
        <5> QED
          BY <1>0, <2>2, <2>3
      <4> QED
        BY <4>1
    <3>2. DOMAIN cells = 1 .. n /\ cells = [i \in 1 .. n |-> cells[i]]
      BY <1>0
    <3> HIDE DEF cells, S, n
    <3> QED
      BY <1>0, <3>1, <3>2
  <2>5. \A i \in 1 .. m : x[i] \notin {Null, Empty}
    BY <2>2 DEF TablesAssumption
  <2> HIDE DEF cells, n
  <2>6. {i \in DOMAIN cells : IsValue(cells[i])} = 1 .. m
    <3> HIDE DEF m
    <3>1. \A i \in 1 .. n : IsValue(cells[i]) <=> i <= m
      BY <1>0, <2>2, <2>3, <2>5 DEF IsValue
    <3> QED
      BY <1>0, <2>2, <2>4, <3>1
  <2>7. Chosen(cells, 1 .. m) = [k \in 1 .. m |-> cells[k]]
    <3> HIDE DEF S, m
    <3>1. m \in 0 .. Len(cells)
      BY <1>0, <2>2, <2>4
    <3> QED
      BY <2>4, <3>1, ChosenFirst
  <2>8. [k \in 1 .. m |-> cells[k]] = x
    <3>1. \A k \in 1 .. m : cells[k] = x[k]
      BY <1>0, <2>2, <2>3
    <3>2. x = [k \in 1 .. m |-> x[k]]
      OBVIOUS
    <3> HIDE DEF m
    <3> QED
      BY <3>1, <3>2
  <2>9. raw = x
    BY <2>6, <2>7, <2>8 DEF ValuesOf
  <2>10. Contains(data.keys, "x")
    <3>1. data.keys = <<"x", "a", "b">> /\ 1 \in 1 .. Len(<<"x", "a", "b">>)
      BY <1>2 DEF IsTableData
    <3>2. <<"x", "a", "b">>[1] = "x"
      OBVIOUS
    <3> QED
      BY <3>1, <3>2 DEF Contains
  <2> HIDE DEF m
  <2>11. XsLoaded(chart, data, id)
          = <<>> \o [i \in DOMAIN raw |-> IF chart.category THEN i - 1 ELSE raw[i]]
    <3> HIDE DEF raw
    <3>1. XsLoaded(chart, data, id)
            = LET old == IF FALSE /\ KnownXs(chart, id) # Null THEN KnownXs(chart, id) ELSE <<>>
              IN  IF ~ IsCustomX(chart) THEN [i \in DOMAIN data.rows |-> i - 1]
                  ELSE IF Contains(data.keys, "x")
                  THEN old \o [i \in DOMAIN raw |-> IF chart.category THEN i - 1 ELSE raw[i]]
                  ELSE IF chart.x # Null THEN OtherTargetXs(chart)
                  ELSE XValuesOfXKey(chart, "x")
      BY <2>1 DEF XsLoaded, XsFor, raw, cells
    <3> QED
      BY <2>1, <2>10, <3>1
  <2> HIDE DEF raw
  <2>12. [i \in DOMAIN raw |-> IF chart.category THEN i - 1 ELSE raw[i]] = x
    <3>1. x = [i \in DOMAIN x |-> x[i]]
      OBVIOUS
    <3>2. ~ chart.category
      BY DEF TakesX
    <3> QED
      BY <2>9, <3>1, <3>2
  <2>13. <<>> \o x = x
    OBVIOUS
  <2> QED
    BY <1>2, <2>11, <2>12, <2>13 DEF XsOfTable
<1> QED
  BY <1>1, <1>2

\* The targets of a table.
LEMMA TableIds ==
  ASSUME TablesAssumption, NEW data, NEW x, NEW a, NEW b,
         data.keys = (IF x = <<>> THEN <<"a", "b">> ELSE <<"x", "a", "b">>)
           \/ data.keys = (IF x = <<>> THEN <<"a", "b">> ELSE <<"a", "b", "x">>),
         NEW chart, TakesX(chart, x)
  PROVE  IdsOf(chart, data) = <<"a", "b">>
<1>1. \A key : IsX(chart, key) <=> x # <<>> /\ key = "x"
  BY DEF IsX, TakesX, TablesAssumption
<1>2. CASE x = <<>>
  <2>1. data.keys = <<"a", "b">>
    BY <1>2
  <2>2. {i \in DOMAIN <<"a", "b">> : ~ IsX(chart, <<"a", "b">>[i])} = DOMAIN <<"a", "b">>
    BY <1>1, <1>2
  <2>3. <<"a", "b">> \in Seq(Strings)
    BY DEF TablesAssumption
  <2>4. Chosen(<<"a", "b">>, DOMAIN <<"a", "b">>) = <<"a", "b">>
    BY <2>3, ChosenAll
  <2> QED
    BY <2>1, <2>2, <2>4 DEF IdsOf
<1>3. CASE data.keys = <<"a", "b", "x">> /\ x # <<>>
  <2> DEFINE keys == <<"a", "b", "x">>
  <2>1. /\ keys[1] = "a" /\ keys[2] = "b" /\ keys[3] = "x" /\ DOMAIN keys = 1 .. 3 /\ Len(keys) = 3
        /\ keys \in Seq(Strings)
    BY DEF TablesAssumption
  <2> HIDE DEF keys
  <2>2. {i \in DOMAIN keys : ~ IsX(chart, keys[i])} = 1 .. 2
    <3>1. \A i \in 1 .. 3 : IsX(chart, keys[i]) <=> i = 3
      BY <1>1, <1>3, <2>1
    <3> QED
      BY <2>1, <3>1
  <2>3. Chosen(keys, 1 .. 2) = [k \in 1 .. 2 |-> keys[k]]
    <3>1. 2 \in 0 .. Len(keys)
      BY <2>1
    <3> QED
      BY <2>1, <3>1, ChosenFirst
  <2>4. [k \in 1 .. 2 |-> keys[k]] = <<"a", "b">>
    BY <2>1
  <2> QED
    BY <1>3, <2>2, <2>3, <2>4 DEF IdsOf, keys
<1>4. CASE data.keys = <<"x", "a", "b">> /\ x # <<>>
  <2> DEFINE keys == <<"x", "a", "b">>
             c == Chosen(keys, 2 .. 3)
  <2>1. /\ keys[1] = "x" /\ keys[2] = "a" /\ keys[3] = "b" /\ DOMAIN keys = 1 .. 3 /\ Len(keys) = 3
        /\ keys \in Seq(Strings)
    BY DEF TablesAssumption
  <2> HIDE DEF keys
  <2>2. {i \in DOMAIN keys : ~ IsX(chart, keys[i])} = 2 .. 3
    <3>1. \A i \in 1 .. 3 : IsX(chart, keys[i]) <=> i = 1
      BY <1>1, <1>4, <2>1
    <3> QED
      BY <2>1, <3>1
  <2>3. /\ c \in Seq(Strings) /\ Len(c) = Cardinality(2 .. 3)
        /\ \A i \in 2 .. 3 : c[Ahead(2 .. 3, i) + 1] = keys[i]
    <3>1. 2 .. 3 \in SUBSET (1 .. Len(keys))
      BY <2>1
    <3> QED
      BY <2>1, <3>1, ChosenPlaces
  <2>4. Cardinality(2 .. 3) = 2 /\ Ahead(2 .. 3, 2) = 0 /\ Ahead(2 .. 3, 3) = 1
    <3>1. {j \in 2 .. 3 : j < 2} = {} /\ {j \in 2 .. 3 : j < 3} = {2}
      OBVIOUS
    <3>2. Cardinality(2 .. 3) = 2
      <4> DEFINE two == {2}
                 three == two \cup {3}
      <4>1. 2 .. 3 = three /\ 3 \notin two
        OBVIOUS
      <4>2. IsFiniteSet(two) /\ Cardinality(two) = 1
        BY FS_Singleton
      <4> HIDE DEF two
      <4>3. Cardinality(three) = Cardinality(two) + 1
        BY <4>1, <4>2, FS_AddElement
      <4> HIDE DEF three
      <4>4. Cardinality(three) = 2
        BY <4>2, <4>3
      <4> QED
        BY <4>1, <4>4
    <3> QED
      BY <3>1, <3>2, FS_EmptySet, FS_Singleton DEF Ahead
  <2> HIDE DEF c
  <2>5. c = <<"a", "b">>
    <3>1. c[1] = "a" /\ c[2] = "b" /\ Len(c) = 2
      BY <2>1, <2>3, <2>4
    <3>2. \A seq \in Seq(Strings) : Len(seq) = 2 => seq = <<seq[1], seq[2]>>
      OBVIOUS
    <3> QED
      BY <2>3, <3>1, <3>2, Zenon
  <2> QED
    BY <1>4, <2>2, <2>5 DEF IdsOf, c, keys
<1> QED
  BY <1>2, <1>3, <1>4

\* What is known of an id stays so when the x are put in order.
LEMMA KnownSorted ==
  ASSUME NEW known \in Seq(KnownX), NEW ids, NEW id, Contains(ids, id),
         NEW c, c.known = XsSorted(known, ids), NEW old, old.known = known, KnownXs(old, id) # Null
  PROVE  KnownXs(c, id) = Ascending(KnownXs(old, id))
<1> DEFINE new == XsSorted(known, ids)
           p == PlaceOf(known, id)
           q == PlaceOf(new, id)
<1>1. /\ new \in Seq(KnownX) /\ Len(new) = Len(known) /\ Len(known) \in Nat
      /\ DOMAIN known = 1 .. Len(known)
  <2>1. new \in Seq(KnownX)
    BY KnownInOrder
  <2>2. Len(known) \in Nat /\ DOMAIN known = 1 .. Len(known)
    OBVIOUS
  <2>3. DOMAIN new = DOMAIN known
    BY DEF XsSorted
  <2> HIDE DEF new
  <2>4. Len(new) \in Nat /\ DOMAIN new = 1 .. Len(new)
    BY <2>1
  <2>5. Len(new) = Len(known)
    <3> DEFINE j == Len(new)
               k == Len(known)
    <3>1. j \in Nat /\ k \in Nat /\ 1 .. j = 1 .. k
      BY <2>2, <2>3, <2>4
    <3> HIDE DEF j, k
    <3>2. j = k
      BY <3>1
    <3> QED
      BY <3>2 DEF j, k
  <2> QED
    BY <2>1, <2>2, <2>5
<1>2. ASSUME NEW k \in 1 .. Len(known)
      PROVE  /\ new[k].id = known[k].id
             /\ known[k].id = id => new[k].xs = Ascending(known[k].xs)
  <2> DEFINE ys == known[k].xs
             name == known[k].id
             zs == Ascending(ys)
  <2>1. known[k] = [id |-> name, xs |-> ys]
    <3>1. known[k] \in KnownX
      OBVIOUS
    <3> QED
      BY <3>1 DEF KnownX
  <2>2. new[k] = IF Contains(ids, name) THEN [known[k] EXCEPT !.xs = zs] ELSE known[k]
    BY DEF XsSorted
  <2> HIDE DEF ys, name, zs, new
  <2>3. [known[k] EXCEPT !.xs = zs] = [id |-> name, xs |-> zs]
    <3>1. [[id |-> name, xs |-> ys] EXCEPT !.xs = zs] = [id |-> name, xs |-> zs]
      OBVIOUS
    <3> QED
      BY <2>1, <3>1
  <2>4. new[k].id = name /\ (name = id => new[k].xs = zs)
    BY <2>1, <2>2, <2>3
  <2> QED
    BY <2>4 DEF name, zs, ys
<1>3. /\ p \in 0 .. Len(known)
      /\ p # 0 => known[p].id = id
      /\ \A i \in 1 .. p - 1 : known[i].id # id
      /\ p = 0 => \A i \in 1 .. Len(known) : known[i].id # id
  BY PlaceOfId
<1>4. /\ q \in 0 .. Len(new)
      /\ q # 0 => new[q].id = id
      /\ \A i \in 1 .. q - 1 : new[i].id # id
      /\ q = 0 => \A i \in 1 .. Len(new) : new[i].id # id
  BY <1>1, PlaceOfId
<1>5. KnownXs(old, id) = IF p = 0 THEN Null ELSE known[p].xs
  BY DEF KnownXs, PlaceOf
<1>6. KnownXs(c, id) = IF q = 0 THEN Null ELSE new[q].xs
  BY DEF KnownXs, PlaceOf
<1> HIDE DEF p, q, new
<1>7. p # 0 /\ p \in 1 .. Len(known)
  BY <1>1, <1>3, <1>5
<1>8. q # 0 /\ q \in 1 .. Len(known)
  BY <1>1, <1>2, <1>3, <1>4, <1>7
<1>9. p = q
  <2>1. ~ (p < q)
    BY <1>1, <1>2, <1>3, <1>4, <1>7, <1>8
  <2>2. ~ (q < p)
    BY <1>1, <1>2, <1>3, <1>4, <1>7, <1>8
  <2> QED
    BY <1>7, <1>8, <2>1, <2>2
<1> QED
  BY <1>2, <1>3, <1>5, <1>6, <1>7, <1>9

\* The chart of a table, and what it becomes.
LEMMA TableChart ==
  ASSUME NEW x \in Seq(Int)
  PROVE  /\ TakesX(ChartOf(x), x) /\ ChartOf(x).known = <<>>
         /\ DOMAIN ChartOf(x) = {"x", "xs", "category", "xSort", "targets", "known", "categories"}
<1> DEFINE fields == {"x", "xs", "category", "xSort", "targets", "known", "categories"}
           none == [id \in {} |-> Null]
<1>1. /\ DOMAIN NoChart = fields /\ NoChart.x = Null /\ NoChart.xs = none
      /\ ~ NoChart.category /\ NoChart.xSort /\ NoChart.known = <<>>
  BY DEF NoChart
<1>2. DOMAIN none = {}
  OBVIOUS
<1> HIDE DEF fields, none
<1>3. CASE x = <<>>
  BY <1>1, <1>2, <1>3 DEF TakesX, ChartOf, fields
<1>4. CASE x # <<>>
  <2> DEFINE c == [NoChart EXCEPT !.x = "x"]
             name == "x"
  <2>1. /\ DOMAIN c = fields /\ c.x = name /\ c.xs = none
        /\ c.category = NoChart.category /\ c.xSort = NoChart.xSort /\ c.known = <<>>
    <3>1. DOMAIN NoChart = {"x", "xs", "category", "xSort", "targets", "known", "categories"}
      BY <1>1 DEF fields
    <3>2. DOMAIN c = DOMAIN NoChart
      OBVIOUS
    <3>3. c.x = name
      BY <3>1
    <3>4. c.xs = NoChart.xs /\ c.category = NoChart.category
      BY <3>1
    <3>5. c.xSort = NoChart.xSort /\ c.known = NoChart.known
      BY <3>1
    <3> HIDE DEF c, name
    <3> QED
      BY <1>1, <3>2, <3>3, <3>4, <3>5
  <2> HIDE DEF c
  <2>2. c = ChartOf(x)
    BY <1>4 DEF ChartOf, c
  <2> QED
    BY <1>1, <1>2, <1>4, <2>1, <2>2 DEF TakesX, fields
<1> QED
  BY <1>3, <1>4

\* Learning the x of a column changes nothing but what is known.
LEMMA LearnKeeps ==
  ASSUME NEW c, NEW data, NEW id, NEW x, TakesX(c, x),
         DOMAIN c = {"x", "xs", "category", "xSort", "targets", "known", "categories"}
  PROVE  LET new == Learn(c, data, id)
         IN  /\ new.known = Know(c.known, id, XsLoaded(c, data, id))
             /\ TakesX(new, x) /\ DOMAIN new = DOMAIN c /\ new.categories = c.categories
<1> DEFINE new == Learn(c, data, id)
           known == Know(c.known, id, XsLoaded(c, data, id))
<1>1. new = [c EXCEPT !.known = known]
  BY DEF Learn
<1> HIDE DEF new, known
<1>2. /\ new.known = known /\ DOMAIN new = DOMAIN c /\ new.categories = c.categories
      /\ new.x = c.x /\ new.xs = c.xs /\ new.category = c.category /\ new.xSort = c.xSort
  BY <1>1
<1>3. TakesX(new, x)
  BY <1>2 DEF TakesX
<1> QED
  BY <1>2, <1>3 DEF new, known

\* Both targets of a table know its x.
LEMMA TableLearned ==
  ASSUME TablesAssumption, NEW x \in Seq(Int), NEW data, NEW a, NEW b, IsTableData(data, x, a, b)
  PROVE  LET learned == Learned(ChartOf(x), data, <<"a", "b">>)
         IN  /\ TakesX(learned, x) /\ learned.known \in Seq(KnownX)
             /\ KnownXs(learned, "a") = XsOfTable(data, x)
             /\ KnownXs(learned, "b") = XsOfTable(data, x)
             /\ XsOfTable(data, x) \in Seq(Int)
             /\ DOMAIN learned = {"x", "xs", "category", "xSort", "targets", "known", "categories"}
<1> DEFINE chart == ChartOf(x)
           one == Learn(chart, data, "a")
           two == Learn(one, data, "b")
           xs == XsOfTable(data, x)
           fields == {"x", "xs", "category", "xSort", "targets", "known", "categories"}
<1>1. Learned(chart, data, <<"a", "b">>) = two
  <2>1. Len(<<"a", "b">>) = 2 /\ <<"a", "b">>[1] = "a" /\ <<"a", "b">>[2] = "b"
    OBVIOUS
  <2> QED
    BY <2>1 DEF Learned
<1>2. TakesX(chart, x) /\ DOMAIN chart = fields /\ chart.known = <<>>
  BY TableChart
<1>3. xs \in Seq(Int)
  <2>1. CASE x = <<>>
    <3>1. Len(data.rows) \in Nat
      BY DEF IsTableData
    <3>2. [i \in 1 .. Len(data.rows) |-> i - 1] \in Seq(Int)
      BY <3>1
    <3> QED
      BY <2>1, <3>2 DEF XsOfTable
  <2>2. CASE x # <<>>
    BY <2>2 DEF XsOfTable
  <2> QED
    BY <2>1, <2>2
<1>4. "a" \in Strings /\ "b" \in Strings /\ "a" # "b"
  BY DEF TablesAssumption
<1> HIDE DEF chart, xs
<1>5. /\ one.known = Know(chart.known, "a", XsLoaded(chart, data, "a"))
      /\ TakesX(one, x) /\ DOMAIN one = DOMAIN chart
  BY <1>2, LearnKeeps
<1>6. XsLoaded(chart, data, "a") = xs
  BY <1>2, XsLearned DEF xs
<1> HIDE DEF one
<1>7. XsLoaded(one, data, "b") = xs
  BY <1>5, XsLearned DEF xs
<1>8. /\ two.known = Know(one.known, "b", XsLoaded(one, data, "b"))
      /\ TakesX(two, x) /\ DOMAIN two = DOMAIN one
  BY <1>2, <1>5, LearnKeeps
<1> HIDE DEF two
<1>9. chart.known \in Seq(KnownX)
  <2>1. <<>> \in Seq(KnownX)
    OBVIOUS
  <2> QED
    BY <1>2, <2>1
<1>10. one.known \in Seq(KnownX) /\ KnownXs(one, "a") = xs
  BY <1>3, <1>4, <1>5, <1>6, <1>9, KnowsLearned
<1>11. /\ two.known \in Seq(KnownX) /\ KnownXs(two, "b") = xs
       /\ KnownXs(two, "a") = KnownXs(one, "a")
  BY <1>3, <1>4, <1>7, <1>8, <1>10, KnowsLearned
<1> QED
  BY <1>1, <1>2, <1>3, <1>5, <1>8, <1>10, <1>11 DEF chart, xs

\* What a table is converted to.
IsConverted(c, chart, data, xs) ==
  /\ c.error = FALSE
  /\ c.targets = <<TargetOf(chart, data, "a", xs), TargetOf(chart, data, "b", xs)>>
  /\ KnownXs(c.chart, "a") = Ascending(xs) /\ KnownXs(c.chart, "b") = Ascending(xs)

ChartMade(chart, data) ==
  LET learned == Learned(chart, data, <<"a", "b">>)
  IN  [learned EXCEPT !.known = XsSorted(learned.known, <<"a", "b">>)]

TableMade(chart, data, xs) ==
  [error |-> FALSE,
   targets |-> <<TargetOf(chart, data, "a", xs), TargetOf(chart, data, "b", xs)>>,
   chart |-> ChartMade(chart, data)]

\* The conversion of a table has a target for each of its two columns.
LEMMA TableConverted ==
  ASSUME TablesAssumption, NEW x \in Seq(Int), NEW data, NEW a, NEW b, IsTableData(data, x, a, b)
  PROVE  /\ IsConverted(Converted(ChartOf(x), data), ChartOf(x), data, XsOfTable(data, x))
         /\ Converted(ChartOf(x), data) = TableMade(ChartOf(x), data, XsOfTable(data, x))
<1> DEFINE chart == ChartOf(x)
           ids == <<"a", "b">>
           learned == Learned(chart, data, ids)
           xs == XsOfTable(data, x)
           known == XsSorted(learned.known, ids)
           made == [learned EXCEPT !.known = known]
           ta == TargetOf(chart, data, "a", xs)
           tb == TargetOf(chart, data, "b", xs)
           fields == {"x", "xs", "category", "xSort", "targets", "known", "categories"}
<1>1. /\ TakesX(learned, x) /\ learned.known \in Seq(KnownX)
      /\ KnownXs(learned, "a") = xs /\ KnownXs(learned, "b") = xs /\ xs \in Seq(Int)
      /\ DOMAIN learned = fields
  BY TableLearned
<1>2. TakesX(chart, x)
  BY TableChart
<1>3. IdsOf(chart, data) = ids
  <2>1. data.keys = IF x = <<>> THEN <<"a", "b">> ELSE <<"x", "a", "b">>
    BY DEF IsTableData
  <2> QED
    BY <1>2, <2>1, TableIds
<1>4. Converted(chart, data) = TargetsOf(chart, data, ids, learned)
  <2> DEFINE js == IdsOf(chart, data)
  <2>1. ids \in Seq({"a", "b"}) /\ Len(ids) <= 2
    OBVIOUS
  <2>2. js \in Seq({"a", "b"}) /\ Len(js) <= 2
    BY <1>3, <2>1
  <2>3. Converted(chart, data) = TargetsOf(chart, data, js, Learned(chart, data, js))
    BY <2>2, UpToTwoLearned
  <2> HIDE DEF js
  <2> QED
    BY <1>3, <2>3 DEF js
<1> HIDE DEF learned, xs, chart
<1>5. xs # Null
  <2>1. Null \notin Seq(Int)
    BY DEF TablesAssumption
  <2> QED
    BY <1>1, <2>1
<1>6. DOMAIN ids = {1, 2} /\ ids[1] = "a" /\ ids[2] = "b"
  OBVIOUS
<1> HIDE DEF ids, known
<1>7. TargetsOf(chart, data, ids, learned)
        = [error |-> FALSE, targets |-> <<ta, tb>>, chart |-> made]
  <2>1. ~ \E i \in DOMAIN ids : KnownXs(learned, ids[i]) = Null
    BY <1>1, <1>5, <1>6
  <2>2. [i \in DOMAIN ids |-> TargetOf(chart, data, ids[i], KnownXs(learned, ids[i]))] = <<ta, tb>>
    <3>1. \A i \in DOMAIN ids : KnownXs(learned, ids[i]) = xs
      BY <1>1, <1>6
    <3>2. [i \in DOMAIN ids |-> TargetOf(chart, data, ids[i], KnownXs(learned, ids[i]))]
            = [i \in {1, 2} |-> TargetOf(chart, data, ids[i], xs)]
      BY <1>6, <3>1
    <3>3. \A i \in {1, 2} : TargetOf(chart, data, ids[i], xs) = IF i = 1 THEN ta ELSE tb
      BY <1>6
    <3> HIDE DEF ta, tb
    <3>4. [i \in {1, 2} |-> IF i = 1 THEN ta ELSE tb] = <<ta, tb>>
      OBVIOUS
    <3> QED
      BY <3>2, <3>3, <3>4
  <2>3. [learned EXCEPT
              !.categories = IF chart.category /\ IsCustomX(chart) /\ ids # <<>>
                             THEN CategoriesOf(@, data, XKey(chart, ids[1])) ELSE @,
              !.known = XsSorted(@, ids)]
          = made
    <3>1. ~ chart.category
      BY <1>2 DEF TakesX
    <3>2. (IF chart.category /\ IsCustomX(chart) /\ ids # <<>>
           THEN CategoriesOf(learned.categories, data, XKey(chart, ids[1])) ELSE learned.categories)
            = learned.categories
      BY <3>1
    <3>3. [learned EXCEPT
              !.categories = IF chart.category /\ IsCustomX(chart) /\ ids # <<>>
                             THEN CategoriesOf(@, data, XKey(chart, ids[1])) ELSE @,
              !.known = XsSorted(@, ids)]
            = [learned EXCEPT !.categories = learned.categories, !.known = known]
      BY <3>2, Zenon DEF known
    <3>4. [learned EXCEPT !.categories = learned.categories, !.known = known] = made
      BY <1>1
    <3> QED
      BY <3>3, <3>4
  <2> HIDE DEF made, ta, tb
  <2> QED
    BY <2>1, <2>2, <2>3, Zenon DEF TargetsOf
<1>8. made.known = known
  BY <1>1
<1> HIDE DEF made
<1>9. KnownXs(made, "a") = Ascending(xs) /\ KnownXs(made, "b") = Ascending(xs)
  <2>1. Contains(ids, "a") /\ Contains(ids, "b")
    <3>1. 1 \in 1 .. Len(ids) /\ 2 \in 1 .. Len(ids)
      BY DEF ids
    <3>2. (\E i \in 1 .. Len(ids) : ids[i] = "a") /\ (\E i \in 1 .. Len(ids) : ids[i] = "b")
      BY <1>6, <3>1
    <3> QED
      BY <3>2, Zenon DEF Contains
  <2> QED
    BY <1>1, <1>5, <1>8, <2>1, KnownSorted DEF known
<1> DEFINE c == Converted(chart, data)
<1>10. c = [error |-> FALSE, targets |-> <<ta, tb>>, chart |-> made]
  BY <1>4, <1>7
<1> HIDE DEF c, ta, tb
<1>11. c.error = FALSE /\ c.targets = <<ta, tb>> /\ c.chart = made
  BY <1>10
<1>12. IsConverted(c, chart, data, xs)
  BY <1>9, <1>11 DEF IsConverted, ta, tb
<1>13. c = TableMade(chart, data, xs)
  BY <1>10 DEF TableMade, ChartMade, ta, tb, made, known, learned, ids
<1> QED
  BY <1>12, <1>13 DEF c, chart, xs

\* The targets of a table: which values, at which x.
XAt(x, k) == IF x = <<>> THEN k - 1 ELSE x[k]

TableLength(x, s) == IF x = <<>> THEN Len(s) ELSE Min({Len(x), Len(s)})

TableXs(x, m) == [k \in 1 .. m |-> XAt(x, k)]

\* A column goes as far as it has values and, if there are any, x.
LEMMA LengthOfTable ==
  ASSUME NEW x \in Seq(Int), NEW s, Len(s) \in Nat
  PROVE  /\ TableLength(x, s) \in Nat
         /\ \A k \in Nat : k <= TableLength(x, s) <=> k <= Len(s) /\ (x = <<>> \/ k <= Len(x))
<1>1. Len(x) \in Int /\ Len(s) \in Int /\ Len(x) >= 0 /\ Len(s) >= 0
  OBVIOUS
<1>2. CASE x = <<>>
  BY <1>1, <1>2 DEF TableLength
<1>3. CASE x # <<>>
  <2>1. TableLength(x, s) = Min({Len(x), Len(s)})
    BY <1>3 DEF TableLength
  <2>2. Min({Len(x), Len(s)}) = IF Len(x) <= Len(s) THEN Len(x) ELSE Len(s)
    BY <1>1, TwoExtremes
  <2> DEFINE p == Len(x)
             q == Len(s)
             l == TableLength(x, s)
  <2>3. l = (IF p <= q THEN p ELSE q) /\ p \in Nat /\ q \in Nat
    BY <1>1, <2>1, <2>2
  <2> HIDE DEF p, q, l
  <2>4. l \in Nat /\ \A k \in Nat : k <= l <=> k <= q /\ k <= p
    BY <2>3
  <2> QED
    BY <1>3, <2>4 DEF p, q, l
<1> QED
  BY <1>2, <1>3

\* The x of a column are numbers, all of them different.
LEMMA XsOfTableTyped ==
  ASSUME NEW x \in Seq(Int), IsInjective(x), NEW m \in Nat, x = <<>> \/ m <= Len(x)
  PROVE  /\ TableXs(x, m) \in Seq(Int) /\ Len(TableXs(x, m)) = m
         /\ \A k \in 1 .. m : TableXs(x, m)[k] = XAt(x, k)
         /\ \A i, j \in 1 .. m : TableXs(x, m)[i] = TableXs(x, m)[j] => i = j
<1> DEFINE X == TableXs(x, m)
<1>1. DOMAIN X = 1 .. m /\ \A k \in 1 .. m : X[k] = XAt(x, k)
  BY DEF TableXs
<1>2. CASE x = <<>>
  <2>1. X = [k \in 1 .. m |-> k - 1]
    BY <1>2 DEF TableXs, XAt
  <2>2. [k \in 1 .. m |-> k - 1] \in Seq(Int) /\ Len([k \in 1 .. m |-> k - 1]) = m
    OBVIOUS
  <2>3. \A i, j \in 1 .. m : X[i] = X[j] => i = j
    BY <2>1
  <2> QED
    BY <1>1, <2>1, <2>2, <2>3
<1>3. CASE x # <<>>
  <2>1. m <= Len(x) /\ DOMAIN x = 1 .. Len(x) /\ Len(x) \in Nat /\ \A k \in 1 .. Len(x) : x[k] \in Int
    BY <1>3
  <2>2. X = [k \in 1 .. m |-> x[k]]
    BY <1>3 DEF TableXs, XAt
  <2>3. \A k \in 1 .. m : x[k] \in Int /\ k \in DOMAIN x
    BY <2>1
  <2>4. X \in Seq(Int) /\ Len(X) = m
    BY <2>2, <2>3
  <2>5. \A i, j \in DOMAIN x : x[i] = x[j] => i = j
    BY DEF IsInjective
  <2>6. \A i, j \in 1 .. m : X[i] = X[j] => i = j
    BY <2>2, <2>3, <2>5
  <2> QED
    BY <1>1, <2>4, <2>6
<1> QED
  BY <1>2, <1>3

\* The target of a column has its values at the x of the table.
LEMMA TableTarget ==
  ASSUME TablesAssumption, NEW x \in Seq(Int), IsInjective(x), NEW data,
         NEW a, NEW b, IsTableData(data, x, a, b),
         NEW key, NEW s, Len(s) \in Nat, HasColumn(data, key, s)
  PROVE  LET m == TableLength(x, s)
         IN  TargetOf(ChartOf(x), data, key, XsOfTable(data, x))
               = [id |-> key, values |-> ValuesAtX(TableXs(x, m), [k \in 1 .. m |-> Number(s[k])])]
<1> DEFINE m == TableLength(x, s)
           n == Len(data.rows)
           X == TableXs(x, m)
           value == [k \in 1 .. m |-> Number(s[k])]
           xs == XsOfTable(data, x)
           chart == ChartOf(x)
<1>1. /\ m \in Nat
      /\ \A k \in Nat : k <= m <=> k <= Len(s) /\ (x = <<>> \/ k <= Len(x))
  BY LengthOfTable
<1>2. /\ X \in Seq(Int) /\ Len(X) = m /\ \A k \in 1 .. m : X[k] = XAt(x, k)
  <2>1. x = <<>> \/ m <= Len(x)
    BY <1>1
  <2> QED
    BY <1>1, <2>1, XsOfTableTyped
<1>3. TakesX(chart, x)
  BY TableChart
<1>4. n \in Nat /\ DOMAIN data.rows = 1 .. n
  BY DEF IsTableData
<1>5. /\ Len(s) <= n
      /\ \A i \in 1 .. n : /\ key \in DOMAIN data.rows[i] <=> i <= Len(s)
                           /\ i <= Len(s) => data.rows[i][key] = s[i]
      /\ Len(x) <= n
      /\ \A i \in 1 .. n : /\ "x" \in DOMAIN data.rows[i] <=> i <= Len(x)
                           /\ i <= Len(x) => data.rows[i]["x"] = x[i]
  BY DEF IsTableData, HasColumn
<1> HIDE DEF m, n, X, chart
<1>6. Len(xs) = IF x = <<>> THEN n ELSE Len(x)
  BY <1>4 DEF XsOfTable, n
<1> HIDE DEF xs
<1>7. {i \in DOMAIN data.rows : key \in DOMAIN data.rows[i] /\ i <= Len(xs)} = 1 .. m
  <2>1. \A i \in 1 .. n : key \in DOMAIN data.rows[i] /\ i <= Len(xs) <=> i <= m
    BY <1>1, <1>4, <1>5, <1>6
  <2>2. m <= n
    BY <1>1, <1>4, <1>5
  <2> QED
    BY <1>1, <1>4, <2>1, <2>2
<1>8. ASSUME NEW i \in 1 .. m
      PROVE  /\ TargetX(chart, Cell(data.rows[i], XKey(chart, key)), xs, i) = X[i]
             /\ Number(data.rows[i][key]) = value[i]
  <2>1. /\ i \in Nat /\ i \in 1 .. n /\ i <= Len(s) /\ (x = <<>> \/ i <= Len(x))
    BY <1>1, <1>4, <1>5
  <2>2. Number(data.rows[i][key]) = value[i]
    BY <1>5, <2>1
  <2>3. CASE x = <<>>
    <3>1. ~ IsCustomX(chart)
      BY <1>3, <2>3 DEF IsCustomX, TakesX
    <3> QED
      BY <1>2, <2>2, <2>3, <3>1 DEF TargetX, XAt
  <2>4. CASE x # <<>>
    <3>1. "x" # Null
      BY DEF TablesAssumption
    <3>2. XKey(chart, key) = "x" /\ IsCustomX(chart) /\ ~ chart.category
      BY <1>3, <2>4, <3>1 DEF XKey, IsCustomX, TakesX
    <3>3. Cell(data.rows[i], "x") = x[i]
      BY <1>5, <2>1, <2>4 DEF Cell
    <3>4. x[i] \in Int /\ x[i] \notin {Null, Empty}
      <4>1. i \in 1 .. Len(x)
        BY <2>1, <2>4
      <4>2. x[i] \in Int
        BY <4>1
      <4> QED
        BY <4>2 DEF TablesAssumption
    <3> QED
      BY <1>2, <2>2, <2>4, <3>2, <3>3, <3>4 DEF TargetX, XAt, IsValue
  <2> QED
    BY <2>3, <2>4
<1> HIDE DEF value
<1>9. AtX(chart, data, key, xs, X, value)
  <2>1. Len(X) <= n
    BY <1>1, <1>2, <1>4, <1>5
  <2> QED
    BY <1>2, <1>3, <1>4, <1>7, <1>8, <2>1 DEF AtX, TakesX, n
<1>10. TargetOf(chart, data, key, xs) = [id |-> key, values |-> ValuesAtX(X, value)]
  BY <1>2, <1>9, TargetAtX
<1> QED
  BY <1>10 DEF chart, xs, X, value, m

\* Values at x that are all different are there once each, in the order of x.
InOrderOfX(values, X, value) ==
  /\ Len(values) = Len(X) /\ DOMAIN values = 1 .. Len(X)
  /\ {<<v.x, v.value>> : v \in ToSet(values)} = {<<X[k], value[k]>> : k \in 1 .. Len(X)}
  /\ \A k \in 1 .. Len(X) : /\ values[k].index = k - 1
                            /\ values[k].x = X[StableOrder(X)[k]]
                            /\ k > 1 => values[k - 1].x < values[k].x

\* Values sorted by different x are in the order of x and indexed in that order.
LEMMA OrderOfX ==
  ASSUME NEW X \in Seq(Int), \A i, j \in 1 .. Len(X) : X[i] = X[j] => i = j, NEW value
  PROVE  InOrderOfX(ValuesAtX(X, value), X, value)
<1> DEFINE n == Len(X)
           order == StableOrder(X)
           values == ValuesAtX(X, value)
<1>1. n \in Nat
  OBVIOUS
<1>2. /\ \A k \in 1 .. n : order[k] \in 1 .. n
      /\ \A k \in 2 .. n : X[order[k - 1]] < X[order[k]]
      /\ \A i \in 1 .. n : \E k \in 1 .. n : order[k] = i
  BY StrictOrder
<1>3. values = [k \in 1 .. n |-> [x |-> X[order[k]], value |-> value[order[k]], index |-> k - 1]]
  BY DEF ValuesAtX
<1> HIDE DEF values, order, n
<1>4. DOMAIN values = 1 .. n /\ Len(values) = n
  BY <1>1, <1>3
<1>5. \A k \in 1 .. n : /\ values[k].x = X[order[k]] /\ values[k].value = value[order[k]]
                        /\ values[k].index = k - 1
  BY <1>3
<1>6. ASSUME NEW k \in 1 .. n, k > 1 PROVE values[k - 1].x < values[k].x
  <2>1. k \in 2 .. n /\ k - 1 \in 1 .. n
    BY <1>1, <1>6
  <2> QED
    BY <1>2, <1>5, <2>1
<1>7. {<<v.x, v.value>> : v \in ToSet(values)} = {<<X[k], value[k]>> : k \in 1 .. n}
  <2>1. ToSet(values) = {values[k] : k \in 1 .. n}
    BY <1>4 DEF ToSet
  <2>2. {<<v.x, v.value>> : v \in ToSet(values)} = {<<values[k].x, values[k].value>> : k \in 1 .. n}
    BY <2>1
  <2>3. {<<values[k].x, values[k].value>> : k \in 1 .. n}
          = {<<X[order[k]], value[order[k]]>> : k \in 1 .. n}
    BY <1>5
  <2>4. {<<X[order[k]], value[order[k]]>> : k \in 1 .. n} = {<<X[k], value[k]>> : k \in 1 .. n}
    <3> DEFINE P(k) == <<X[k], value[k]>>
    <3> HIDE DEF P
    <3>1. {P(order[k]) : k \in 1 .. n} = {P(k) : k \in 1 .. n}
      <4>1. \A k \in 1 .. n : P(order[k]) \in {P(j) : j \in 1 .. n}
        BY <1>2
      <4>2. \A i \in 1 .. n : \E k \in 1 .. n : P(i) = P(order[k])
        <5> TAKE i \in 1 .. n
        <5>1. PICK k \in 1 .. n : order[k] = i
          BY <1>2
        <5> QED
          BY <5>1
      <4> QED
        BY <4>1, <4>2
    <3> QED
      BY <3>1 DEF P
  <2> QED
    BY <2>2, <2>3, <2>4
<1> QED
  BY <1>4, <1>5, <1>6, <1>7 DEF InOrderOfX, n, order, values

\* What a target of a table shows, of values s and with known x.
ShownAtX(t, x, s, known) ==
  LET m == TableLength(x, s)
  IN  /\ Len(t.values) = m
      /\ {<<v.x, v.value>> : v \in ToSet(t.values)} = {<<XAt(x, k), Number(s[k])>> : k \in 1 .. m}
      /\ \A k \in DOMAIN t.values :
           /\ t.values[k].index = k - 1
           /\ k > 1 => t.values[k - 1].x < t.values[k].x
           /\ m = Len(known) => known[k] = t.values[k].x

\* The target of a column shows what ValuesAtTheirX asks for.
LEMMA TargetShows ==
  ASSUME TablesAssumption, NEW x \in Seq(Int), IsInjective(x), NEW data,
         NEW a, NEW b, IsTableData(data, x, a, b),
         NEW key, NEW s, Len(s) \in Nat, HasColumn(data, key, s)
  PROVE  LET t == TargetOf(ChartOf(x), data, key, XsOfTable(data, x))
         IN  t.id = key /\ ShownAtX(t, x, s, Ascending(XsOfTable(data, x)))
<1> DEFINE m == TableLength(x, s)
           n == Len(data.rows)
           X == TableXs(x, m)
           value == [k \in 1 .. m |-> Number(s[k])]
           xs == XsOfTable(data, x)
           t == TargetOf(ChartOf(x), data, key, xs)
           values == ValuesAtX(X, value)
           known == Ascending(xs)
<1>1. t = [id |-> key, values |-> values]
  BY TableTarget
<1>2. m \in Nat /\ (x = <<>> \/ m <= Len(x))
  BY LengthOfTable
<1>3. /\ X \in Seq(Int) /\ Len(X) = m /\ \A k \in 1 .. m : X[k] = XAt(x, k)
      /\ \A i, j \in 1 .. m : X[i] = X[j] => i = j
  BY <1>2, XsOfTableTyped
<1>4. \A k \in 1 .. m : value[k] = Number(s[k])
  OBVIOUS
<1> HIDE DEF m, value, X
<1>5. InOrderOfX(values, X, value)
  BY <1>3, OrderOfX
<1>6. ASSUME m = Len(xs), NEW k \in 1 .. m PROVE known[k] = X[StableOrder(X)[k]]
  <2>1. xs = X
    <3>1. CASE x = <<>>
      <4>1. n \in Nat
        BY DEF IsTableData
      <4>2. xs = [i \in 1 .. n |-> i - 1] /\ Len(xs) = n
        BY <3>1, <4>1 DEF XsOfTable
      <4> HIDE DEF n
      <4>3. X = [i \in 1 .. m |-> i - 1]
        BY <3>1 DEF X, TableXs, XAt
      <4> QED
        BY <1>6, <4>2, <4>3
    <3>2. CASE x # <<>>
      <4>1. xs = x
        BY <3>2 DEF XsOfTable
      <4>2. X = [i \in 1 .. m |-> x[i]]
        BY <3>2 DEF X, TableXs, XAt
      <4>3. x = [i \in 1 .. Len(x) |-> x[i]]
        OBVIOUS
      <4> QED
        BY <1>6, <4>1, <4>2, <4>3
    <3> QED
      BY <3>1, <3>2
  <2>2. Ascending(X)[k] = X[StableOrder(X)[k]]
    <3>0. X \in Seq(Int)
      BY <1>3
    <3>1. \A i \in 1 .. Len(X) : Ordered(X, X)[i] = X[StableOrder(X)[i]]
      BY <3>0, OrderedValues
    <3> QED
      BY <1>3, <3>1 DEF Ascending
  <2> QED
    BY <2>1, <2>2
<1> HIDE DEF known, values
<1>7. /\ Len(values) = m /\ DOMAIN values = 1 .. m
      /\ {<<v.x, v.value>> : v \in ToSet(values)} = {<<X[k], value[k]>> : k \in 1 .. m}
      /\ \A k \in 1 .. m : /\ values[k].index = k - 1
                           /\ values[k].x = X[StableOrder(X)[k]]
                           /\ k > 1 => values[k - 1].x < values[k].x
  BY <1>3, <1>5 DEF InOrderOfX
<1>8. {<<X[k], value[k]>> : k \in 1 .. m} = {<<XAt(x, k), Number(s[k])>> : k \in 1 .. m}
  <2>1. \A k \in 1 .. m : <<X[k], value[k]>> = <<XAt(x, k), Number(s[k])>>
    BY <1>3, <1>4
  <2> QED
    BY <2>1
<1>9. \A k \in 1 .. m : m = Len(known) => known[k] = values[k].x
  <2>1. Len(known) = Len(xs)
    <3>1. xs \in Seq(Int)
      <4>1. CASE x = <<>>
        <5>1. n \in Nat
          BY DEF IsTableData
        <5>2. [i \in 1 .. n |-> i - 1] \in Seq(Int)
          BY <5>1
        <5> QED
          BY <4>1, <5>2 DEF XsOfTable
      <4>2. CASE x # <<>>
        BY <4>2 DEF XsOfTable
      <4> QED
        BY <4>1, <4>2
    <3> HIDE DEF xs
    <3>2. Len(Ordered(xs, xs)) = Len(xs)
      BY <3>1, OrderedValues
    <3> QED
      BY <3>2 DEF known, Ascending
  <2> QED
    BY <1>6, <1>7, <2>1
<1> HIDE DEF t
<1>10. t.id = key /\ t.values = values
  BY <1>1
<1> HIDE DEF xs
<1>11. ShownAtX(t, x, s, known)
  BY <1>7, <1>8, <1>9, <1>10 DEF ShownAtX, m
<1> QED
  BY <1>10, <1>11 DEF t, known, xs

\* Every question about the places of values is answered right.
LEMMA ValuesStandAtX == AskedOfQuestions => ValuesAtTheirX
<1> SUFFICES ASSUME AskedOfQuestions, Asked("table") PROVE ValuesAtTheirX
  BY DEF ValuesAtTheirX
<1> DEFINE i == probe.input
           data == Columns(i)
           chart == ChartOf(i.x)
           made == ConvertDataToTargets(chart, data, FALSE)
           xs == XsOfTable(data, i.x)
           ta == TargetOf(chart, data, "a", xs)
           tb == TargetOf(chart, data, "b", xs)
           known == Ascending(xs)
<1>1. TablesAssumption /\ IsTable(i)
  BY InputAsked, TablesAssumed, CalculationsAssumption DEF CalculationsAssumption
<1>2. i.x \in Seq(Int) /\ IsInjective(i.x)
  BY <1>1 DEF IsTable
<1> HIDE DEF i
<1>3. Len(i.a) \in Nat /\ Len(i.b) \in Nat
  BY <1>1, ATable
<1>4. IsTableData(data, i.x, i.a, i.b)
  BY <1>1, ColumnsOfTable
<1> HIDE DEF data
<1>5. HasColumn(data, "a", i.a) /\ HasColumn(data, "b", i.b)
  BY <1>4 DEF IsTableData
<1>6. ta.id = "a" /\ ShownAtX(ta, i.x, i.a, known)
  BY <1>1, <1>2, <1>3, <1>4, <1>5, TargetShows
<1>7. tb.id = "b" /\ ShownAtX(tb, i.x, i.b, known)
  BY <1>1, <1>2, <1>3, <1>4, <1>5, TargetShows
<1>8. IsConverted(Converted(chart, data), chart, data, xs)
  BY <1>1, <1>2, <1>4, TableConverted
<1>9. made = Converted(chart, data)
  BY DEF Converted
<1> HIDE DEF made, ta, tb, known, chart
<1>10. /\ made.error = FALSE /\ made.targets = <<ta, tb>>
       /\ KnownXs(made.chart, "a") = known /\ KnownXs(made.chart, "b") = known
  BY <1>8, <1>9 DEF IsConverted, ta, tb, known
<1> DEFINE x(k) == IF i.x = <<>> THEN k - 1 ELSE i.x[k]
           column(id) == IF id = "a" THEN i.a ELSE i.b
           length(id) == IF i.x = <<>> THEN Len(column(id)) ELSE Min({Len(i.x), Len(column(id))})
           AllShown(t) ==
             /\ Len(t.values) = length(t.id)
             /\ {<<v.x, v.value>> : v \in ToSet(t.values)}
                    = {<<x(k), Number(column(t.id)[k])>> : k \in 1 .. length(t.id)}
             /\ \A k \in DOMAIN t.values :
                  /\ t.values[k].index = k - 1
                  /\ k > 1 => t.values[k - 1].x < t.values[k].x
                  /\ length(t.id) = Len(KnownXs(made.chart, t.id))
                        => KnownXs(made.chart, t.id)[k] = t.values[k].x
<1>11. AllShown(ta)
  <2>1. length(ta.id) = TableLength(i.x, i.a) /\ column(ta.id) = i.a
        /\ KnownXs(made.chart, ta.id) = known
    BY <1>6, <1>10 DEF TableLength
  <2> QED
    BY <1>6, <2>1 DEF ShownAtX, XAt
<1>12. AllShown(tb)
  <2>1. length(tb.id) = TableLength(i.x, i.b) /\ column(tb.id) = i.b
        /\ KnownXs(made.chart, tb.id) = known
    BY <1>7, <1>10 DEF TableLength
  <2> QED
    BY <1>7, <2>1 DEF ShownAtX, XAt
<1>13. \A t \in ToSet(made.targets) : t = ta \/ t = tb
  BY <1>10 DEF ToSet
<1> HIDE DEF AllShown
<1>14. ~ made.error /\ \A t \in ToSet(made.targets) : AllShown(t)
  BY <1>10, <1>11, <1>12, <1>13
<1> QED
  BY <1>14, Zenon DEF ValuesAtTheirX, AllShown, made, chart, data, i

-----------------------------------------------------------------------------
(***************************************************************************)
(* The same table in other forms.                                          *)
(***************************************************************************)
\* Targets come of the rows, of the ids, and of which keys there are.
LEMMA SameData ==
  ASSUME NEW one, NEW two, one.rows = two.rows,
         \A key : Contains(one.keys, key) <=> Contains(two.keys, key),
         NEW chart, NEW T, IdsOf(chart, one) \in Seq(T), Len(IdsOf(chart, one)) <= 2,
         IdsOf(chart, two) = IdsOf(chart, one)
  PROVE  Converted(chart, one) = Converted(chart, two)
<1> DEFINE ids == IdsOf(chart, one)
           learned == Learned(chart, one, ids)
<1>1. Converted(chart, one) = TargetsOf(chart, one, ids, learned)
  BY UpToTwoLearned
<1>2. Converted(chart, two) = TargetsOf(chart, two, ids, Learned(chart, two, ids))
  <2> DEFINE js == IdsOf(chart, two)
  <2>1. js \in Seq(T) /\ Len(js) <= 2 /\ js = ids
    OBVIOUS
  <2>2. Converted(chart, two) = TargetsOf(chart, two, js, Learned(chart, two, js))
    BY <2>1, UpToTwoLearned
  <2> QED
    BY <2>1, <2>2
<1> HIDE DEF ids
<1>3. \A c, id : XsLoaded(c, one, id) = XsLoaded(c, two, id)
  <2> TAKE c, id
  <2>1. Contains(one.keys, XKey(c, id)) <=> Contains(two.keys, XKey(c, id))
    OBVIOUS
  <2>2. CASE Contains(one.keys, XKey(c, id))
    BY <2>1, <2>2, Zenon DEF XsLoaded, XsFor
  <2>3. CASE ~ Contains(one.keys, XKey(c, id))
    BY <2>1, <2>3, Zenon DEF XsLoaded, XsFor
  <2> QED
    BY <2>2, <2>3
<1>4. \A c, id : Learn(c, one, id) = Learn(c, two, id)
  BY <1>3, Zenon DEF Learn
<1>5. Learned(chart, two, ids) = learned
  BY <1>4, Zenon DEF Learned
<1> HIDE DEF learned
<1>6. \A id, xs : TargetOf(chart, one, id, xs) = TargetOf(chart, two, id, xs)
  <2> TAKE id, xs
  <2> DEFINE rows == one.rows
  <2>1. one.rows = rows /\ two.rows = rows
    OBVIOUS
  <2> HIDE DEF rows
  <2> QED
    BY <2>1, SMTT(30) DEF TargetOf
<1>7. \A old, key : CategoriesOf(old, one, key) = CategoriesOf(old, two, key)
  BY Zenon DEF CategoriesOf
<1>8. TargetsOf(chart, one, ids, learned) = TargetsOf(chart, two, ids, learned)
  BY <1>6, <1>7, Zenon DEF TargetsOf
<1> QED
  BY <1>1, <1>2, <1>5, <1>8

\* Rows with a cell for each key.
AreTableRows(rows, T) ==
  /\ rows \in Seq(Seq(T)) /\ Len(rows) > 1
  /\ \A k \in 1 .. Len(rows) : Len(rows[k]) = Len(rows[1])
  /\ \A j \in DOMAIN rows[1] : rows[1][j] \notin {Null, Empty}
  /\ \A j, k \in DOMAIN rows[1] : rows[1][j] = rows[1][k] => j = k

\* What they are as data.
DataOf(rows, data) ==
  LET keys == rows[1]
  IN  /\ data.keys = keys
      /\ data.rows = [i \in 1 .. Len(rows) - 1 |-> data.rows[i]]
      /\ \A i \in 1 .. Len(rows) - 1 :
           /\ data.rows[i] = [key \in {keys[j] : j \in DOMAIN keys} |-> data.rows[i][key]]
           /\ \A j \in DOMAIN keys : data.rows[i][keys[j]] = rows[i + 1][j]

\* Rows under a row of keys are the data of these rows.
LEMMA RowsConverted ==
  ASSUME NEW T, NEW rows, AreTableRows(rows, T)
  PROVE  DataOf(rows, ConvertRowsToData(rows))
<1> DEFINE keys == rows[1]
           n == Len(rows)
           w == Len(keys)
           data == ConvertRowsToData(rows)
           row(i) == [key \in {keys[j] : j \in DOMAIN rows[i + 1]} |->
                          rows[i + 1][Max({j \in DOMAIN rows[i + 1] : keys[j] = key})]]
<1>1. /\ n \in Nat /\ n > 1 /\ keys \in Seq(T) /\ w \in Nat /\ DOMAIN keys = 1 .. w
      /\ \A j \in 1 .. w : keys[j] \notin {Null, Empty}
      /\ \A j, k \in 1 .. w : keys[j] = keys[k] => j = k
      /\ \A k \in 1 .. n : Len(rows[k]) = w
      /\ \A k \in 1 .. n : DOMAIN rows[k] = 1 .. w
  <2>1. /\ rows \in Seq(Seq(T)) /\ n > 1
        /\ \A k \in 1 .. n : Len(rows[k]) = w
    BY DEF AreTableRows
  <2>2. n \in Nat /\ keys \in Seq(T) /\ \A k \in 1 .. n : rows[k] \in Seq(T)
    BY <2>1
  <2>3. w \in Nat /\ DOMAIN keys = 1 .. w
    BY <2>2
  <2>4. \A k \in 1 .. n : DOMAIN rows[k] = 1 .. w
    <3> TAKE k \in 1 .. n
    <3>1. rows[k] \in Seq(T) /\ Len(rows[k]) = w
      BY <2>1, <2>2
    <3> QED
      BY <3>1
  <2> QED
    BY <2>1, <2>2, <2>3, <2>4 DEF AreTableRows
<1>2. data = [keys |-> IF n = 1 THEN <<>> ELSE Distinct(SubSeq(keys, 1, Len(rows[2]))),
              rows |-> [i \in 1 .. n - 1 |-> row(i)]]
  BY Zenon DEF ConvertRowsToData
<1> HIDE DEF n, data, w
<1>3. SubSeq(keys, 1, Len(rows[2])) = keys
  <2>1. Len(rows[2]) = w
    BY <1>1
  <2>2. SubSeq(keys, 1, w) = keys
    BY <1>1 DEF w
  <2> QED
    BY <2>1, <2>2
<1> HIDE DEF keys
<1>4. Distinct(keys) = keys
  <2>1. \A i \in DOMAIN keys : /\ IsValue(keys[i])
                               /\ \A j \in 1 .. i - 1 : keys[j] # keys[i]
    BY <1>1 DEF IsValue
  <2>2. {i \in DOMAIN keys : /\ IsValue(keys[i])
                             /\ \A j \in 1 .. i - 1 : keys[j] # keys[i]} = DOMAIN keys
    BY <2>1
  <2> QED
    BY <1>1, <2>2, ChosenAll DEF Distinct
<1> HIDE DEF row
<1>5. data.keys = keys /\ data.rows = [i \in 1 .. n - 1 |-> row(i)]
  <2>1. n # 1
    BY <1>1
  <2> QED
    BY <1>2, <1>3, <1>4, <2>1
<1>6. ASSUME NEW i \in 1 .. n - 1
      PROVE  /\ data.rows[i] = [key \in {keys[j] : j \in DOMAIN keys} |-> data.rows[i][key]]
             /\ \A j \in DOMAIN keys : data.rows[i][keys[j]] = rows[i + 1][j]
  <2>1. i + 1 \in 1 .. n /\ data.rows[i] = row(i)
    BY <1>1, <1>5
  <2>2. DOMAIN rows[i + 1] = 1 .. w
    BY <1>1, <2>1
  <2>3. row(i) = [key \in {keys[j] : j \in 1 .. w} |->
                    rows[i + 1][Max({j \in 1 .. w : keys[j] = key})]]
    BY <2>2 DEF row
  <2>4. ASSUME NEW j \in 1 .. w PROVE row(i)[keys[j]] = rows[i + 1][j]
    <3>1. {k \in 1 .. w : keys[k] = keys[j]} = {j}
      BY <1>1
    <3>2. Max({j}) = j
      BY OneExtreme
    <3> QED
      BY <2>3, <3>1, <3>2
  <2>5. row(i) = [key \in {keys[j] : j \in 1 .. w} |-> row(i)[key]]
    BY <2>3
  <2> QED
    BY <1>1, <2>1, <2>4, <2>5
<1>7. data.rows = [i \in 1 .. n - 1 |-> data.rows[i]]
  BY <1>5
<1> QED
  BY <1>5, <1>6, <1>7 DEF DataOf, n, keys, data

\* Read from a file, they are the same data.
LEMMA FileConverted ==
  ASSUME NEW T, NEW rows, AreTableRows(rows, T)
  PROVE  DataOf(rows, ConvertXsvToData(rows))
<1> DEFINE keys == rows[1]
           n == Len(rows)
           w == Len(keys)
           data == ConvertXsvToData(rows)
           at(key) == Max({j \in DOMAIN keys : keys[j] = key})
           row(i) == [key \in {key \in ToSet(keys) : at(key) <= Len(rows[i + 1])} |->
                         rows[i + 1][at(key)]]
<1>1. /\ n \in Nat /\ n > 1 /\ keys \in Seq(T) /\ w \in Nat /\ DOMAIN keys = 1 .. w
      /\ \A j \in 1 .. w : keys[j] \notin {Null, Empty}
      /\ \A j, k \in 1 .. w : keys[j] = keys[k] => j = k
      /\ \A k \in 1 .. n : Len(rows[k]) = w
  <2>1. /\ rows \in Seq(Seq(T)) /\ n > 1
        /\ \A k \in 1 .. n : Len(rows[k]) = w
    BY DEF AreTableRows
  <2>2. n \in Nat /\ keys \in Seq(T)
    BY <2>1
  <2>3. w \in Nat /\ DOMAIN keys = 1 .. w
    BY <2>2
  <2> QED
    BY <2>1, <2>2, <2>3 DEF AreTableRows
<1>2. data = [keys |-> Distinct(keys),
              rows |-> IF n = 1 THEN <<[key \in ToSet(keys) |-> Null]>>
                                ELSE [i \in 1 .. n - 1 |-> row(i)]]
  BY Zenon DEF ConvertXsvToData
<1> HIDE DEF n, data, w, keys
<1>3. Distinct(keys) = keys
  <2>1. \A i \in DOMAIN keys : /\ IsValue(keys[i])
                               /\ \A j \in 1 .. i - 1 : keys[j] # keys[i]
    BY <1>1 DEF IsValue
  <2>2. {i \in DOMAIN keys : /\ IsValue(keys[i])
                             /\ \A j \in 1 .. i - 1 : keys[j] # keys[i]} = DOMAIN keys
    BY <2>1
  <2> QED
    BY <1>1, <2>2, ChosenAll DEF Distinct
<1>4. \A j \in 1 .. w : at(keys[j]) = j
  <2> TAKE j \in 1 .. w
  <2>1. {k \in DOMAIN keys : keys[k] = keys[j]} = {j}
    BY <1>1
  <2>2. Max({j}) = j
    BY OneExtreme
  <2>3. at(keys[j]) = Max({k \in DOMAIN keys : keys[k] = keys[j]})
    OBVIOUS
  <2> HIDE DEF at
  <2> QED
    BY <2>1, <2>2, <2>3
<1>5. ToSet(keys) = {keys[j] : j \in DOMAIN keys}
  BY DEF ToSet
<1> HIDE DEF at
<1>6. ASSUME NEW i \in 1 .. n - 1
      PROVE  /\ row(i) = [key \in {keys[j] : j \in DOMAIN keys} |-> row(i)[key]]
             /\ \A j \in DOMAIN keys : row(i)[keys[j]] = rows[i + 1][j]
  <2>1. Len(rows[i + 1]) = w
    BY <1>1
  <2>2. \A j \in 1 .. w : at(keys[j]) <= w
    BY <1>1, <1>4
  <2>3. {key \in ToSet(keys) : at(key) <= Len(rows[i + 1])} = {keys[j] : j \in DOMAIN keys}
    BY <1>1, <1>5, <2>1, <2>2
  <2>4. row(i) = [key \in {keys[j] : j \in DOMAIN keys} |-> rows[i + 1][at(key)]]
    BY <2>3
  <2> HIDE DEF row
  <2> QED
    BY <1>1, <1>4, <2>4
<1> HIDE DEF row
<1>7. data.keys = keys /\ data.rows = [i \in 1 .. n - 1 |-> row(i)]
  <2>1. n # 1
    BY <1>1
  <2> QED
    BY <1>2, <1>3, <2>1
<1>8. ASSUME NEW i \in 1 .. n - 1
      PROVE  /\ data.rows[i] = [key \in {keys[j] : j \in DOMAIN keys} |-> data.rows[i][key]]
             /\ \A j \in DOMAIN keys : data.rows[i][keys[j]] = rows[i + 1][j]
  <2>1. data.rows[i] = row(i)
    BY <1>7
  <2> QED
    BY <1>6, <2>1
<1>9. data.rows = [i \in 1 .. n - 1 |-> data.rows[i]]
  BY <1>7
<1> QED
  BY <1>7, <1>8, <1>9 DEF DataOf, n, keys, data

\* Rows are functions of keys.
AreFunctions(rows) ==
  /\ rows = [i \in DOMAIN rows |-> rows[i]]
  /\ \A i \in DOMAIN rows : rows[i] = [key \in DOMAIN rows[i] |-> rows[i][key]]

\* The rows made of columns are functions of their keys.
LEMMA ColumnsFunctions ==
  ASSUME NEW columns
  PROVE  AreFunctions(ConvertColumnsToData(columns).rows)
<1> DEFINE has(i) == {k \in DOMAIN columns : Len(columns[k]) > i}
           length == Max({0} \cup {Len(columns[k]) - 1 : k \in DOMAIN columns})
           row(i) == [key \in {columns[k][1] : k \in has(i)} |->
                          columns[Max({k \in has(i) : columns[k][1] = key})][i + 1]]
           rows == ConvertColumnsToData(columns).rows
<1>1. rows = [i \in 1 .. length |-> row(i)]
  BY DEF ConvertColumnsToData
<1>2. \A i : row(i) = [key \in DOMAIN row(i) |-> row(i)[key]]
  OBVIOUS
<1> HIDE DEF row, length, rows
<1> QED
  BY <1>1, <1>2, Zenon DEF AreFunctions, rows

\* Rows with the same columns are the same.
RowsOfTable(data, n, x, a, b) ==
  /\ AreFunctions(data.rows) /\ Len(data.rows) = n /\ DOMAIN data.rows = 1 .. n
  /\ HasColumn(data, "a", a) /\ HasColumn(data, "b", b) /\ HasColumn(data, "x", x)
  /\ \A i \in 1 .. n : DOMAIN data.rows[i] \subseteq {"a", "b", "x"}

\* Data with the rows of the same table have the same rows.
LEMMA SameRows ==
  ASSUME NEW one, NEW two, NEW n, NEW x, NEW a, NEW b,
         RowsOfTable(one, n, x, a, b), RowsOfTable(two, n, x, a, b)
  PROVE  one.rows = two.rows
<1> DEFINE p == one.rows
           q == two.rows
           keys == {"a", "b", "x"}
<1>1. /\ p = [i \in 1 .. n |-> p[i]] /\ q = [i \in 1 .. n |-> q[i]]
      /\ \A i \in 1 .. n : /\ p[i] = [key \in DOMAIN p[i] |-> p[i][key]]
                           /\ q[i] = [key \in DOMAIN q[i] |-> q[i][key]]
                           /\ DOMAIN p[i] \subseteq keys /\ DOMAIN q[i] \subseteq keys
  BY DEF RowsOfTable, AreFunctions
<1> DEFINE Same(key, s) ==
              \A i \in 1 .. n : /\ key \in DOMAIN p[i] <=> i <= Len(s)
                                /\ i <= Len(s) => p[i][key] = s[i]
                                /\ key \in DOMAIN q[i] <=> i <= Len(s)
                                /\ i <= Len(s) => q[i][key] = s[i]
<1>2. \A key \in keys : \E s : Same(key, s)
  <2>1. Same("a", a) /\ Same("b", b) /\ Same("x", x)
    BY DEF RowsOfTable, HasColumn
  <2> HIDE DEF Same
  <2> QED
    BY <2>1
<1> HIDE DEF p, q, keys
<1>3. ASSUME NEW i \in 1 .. n PROVE p[i] = q[i]
  <2>1. DOMAIN p[i] = DOMAIN q[i]
    <3>1. \A key \in keys : key \in DOMAIN p[i] <=> key \in DOMAIN q[i]
      BY <1>2
    <3> QED
      BY <1>1, <3>1
  <2>2. \A key \in DOMAIN p[i] : p[i][key] = q[i][key]
    <3> TAKE key \in DOMAIN p[i]
    <3>1. key \in keys
      BY <1>1
    <3>2. PICK s : Same(key, s)
      BY <1>2, <3>1
    <3> QED
      BY <3>2
  <2>3. p[i] = [key \in DOMAIN p[i] |-> p[i][key]] /\ q[i] = [key \in DOMAIN q[i] |-> q[i][key]]
    BY <1>1
  <2> QED
    BY <2>1, <2>2, <2>3
<1> QED
  BY <1>1, <1>3 DEF p, q

\* A table as rows: its keys, and a row of cells for each of its rows.
TableKeys(x) == IF x = <<>> THEN <<"a", "b">> ELSE <<"a", "b", "x">>
TableRow(i, k) == IF i.x = <<>> THEN <<i.a[k], i.b[k]>> ELSE <<i.a[k], i.b[k], i.x[k]>>
TableRows(i) == <<TableKeys(i.x)>> \o [k \in DOMAIN i.a |-> TableRow(i, k)]

\* A table of which no column is short.
IsFullTable(i) == IsTable(i) /\ Len(i.a) = Len(i.b) /\ Len(i.x) \in {0, Len(i.a)}

RowsOfFullTable(i, rows) ==
  /\ Len(rows) = Len(i.a) + 1 /\ rows[1] = TableKeys(i.x)
  /\ \A k \in 1 .. Len(i.a) : rows[k + 1] = TableRow(i, k)
  /\ AreTableRows(rows, TableCells)

\* A full table given as rows has its keys first and its values in turn.
LEMMA FullTableRows ==
  ASSUME TablesAssumption, NEW i, IsFullTable(i)
  PROVE  RowsOfFullTable(i, TableRows(i))
<1> DEFINE T == TableCells
           n == Len(i.a)
           keys == TableKeys(i.x)
           cells == [k \in 1 .. n |-> TableRow(i, k)]
           rows == <<keys>> \o cells
           w == Len(keys)
<1>1. /\ i.a \in Seq(T) /\ i.b \in Seq(T) /\ i.x \in Seq(T)
      /\ n \in Nat \ {0} /\ Len(i.b) = n /\ (i.x # <<>> => Len(i.x) = n)
  BY ATable DEF IsFullTable
<1>2. "a" \in T /\ "b" \in T /\ "x" \in T /\ {"a", "b", "x"} \cap {Null, Empty} = {}
  BY DEF TablesAssumption, TableCells
<1>3. DOMAIN i.a = 1 .. n
  BY <1>1
<1> HIDE DEF T, n
<1>4. /\ keys \in Seq(T) /\ DOMAIN keys = 1 .. w /\ w \in {2, 3}
      /\ \A j \in DOMAIN keys : keys[j] \notin {Null, Empty}
      /\ \A j, k \in DOMAIN keys : keys[j] = keys[k] => j = k
      /\ w = IF i.x = <<>> THEN 2 ELSE 3
  <2>1. CASE i.x = <<>>
    <3>1. keys = <<"a", "b">>
      BY <2>1 DEF TableKeys
    <3> HIDE DEF keys
    <3>2. keys \in Seq(T) /\ w = 2 /\ keys[1] = "a" /\ keys[2] = "b"
      BY <1>2, <3>1
    <3>3. DOMAIN keys = 1 .. w
      BY <3>2
    <3>4. \A j \in DOMAIN keys : j = 1 \/ j = 2
      BY <3>2, <3>3
    <3>5. "a" # "b"
      OBVIOUS
    <3>6. /\ \A j, k \in DOMAIN keys : keys[j] = keys[k] => j = k
          /\ \A j \in DOMAIN keys : keys[j] \notin {Null, Empty}
      BY <1>2, <3>2, <3>4, <3>5
    <3>7. (w = IF i.x = <<>> THEN 2 ELSE 3) /\ w \in {2, 3}
      BY <2>1, <3>2
    <3> HIDE DEF w
    <3> QED
      BY <3>2, <3>3, <3>6, <3>7
  <2>2. CASE i.x # <<>>
    <3>1. keys = <<"a", "b", "x">>
      BY <2>2 DEF TableKeys
    <3> HIDE DEF keys
    <3>2. keys \in Seq(T) /\ w = 3
      BY <1>2, <3>1
    <3>3. DOMAIN keys = 1 .. w
      BY <3>2
    <3>4. keys[1] = "a" /\ keys[2] = "b" /\ keys[3] = "x"
      BY <3>1
    <3>5. \A j \in DOMAIN keys : j = 1 \/ j = 2 \/ j = 3
      BY <3>2, <3>3
    <3>6. "a" # "b" /\ "a" # "x" /\ "b" # "x"
      OBVIOUS
    <3>7. \A j, k \in DOMAIN keys : keys[j] = keys[k] => j = k
      BY <3>4, <3>5, <3>6
    <3>8. \A j \in DOMAIN keys : keys[j] \notin {Null, Empty}
      BY <1>2, <3>4, <3>5
    <3>9. w = IF i.x = <<>> THEN 2 ELSE 3
      BY <2>2, <3>2
    <3>10. w \in {2, 3}
      BY <3>2
    <3> HIDE DEF w
    <3> QED
      BY <3>2, <3>3, <3>7, <3>8, <3>9, <3>10, Zenon
  <2> QED
    BY <2>1, <2>2
<1> HIDE DEF keys
<1>5. ASSUME NEW k \in 1 .. n
      PROVE  TableRow(i, k) \in Seq(T) /\ Len(TableRow(i, k)) = w
  <2>1. i.a[k] \in T /\ i.b[k] \in T /\ (i.x # <<>> => i.x[k] \in T)
    <3>1. k \in 1 .. Len(i.a) /\ k \in 1 .. Len(i.b) /\ (i.x # <<>> => k \in 1 .. Len(i.x))
      BY <1>1 DEF n
    <3>2. \A s \in Seq(T) : \A j \in 1 .. Len(s) : s[j] \in T
      OBVIOUS
    <3> QED
      BY <1>1, <3>1, <3>2
  <2>2. CASE i.x = <<>>
    <3>1. TableRow(i, k) = <<i.a[k], i.b[k]>>
      BY <2>2 DEF TableRow
    <3>2. w = 2
      BY <1>4, <2>2
    <3> HIDE DEF w
    <3> QED
      BY <2>1, <3>1, <3>2
  <2>3. CASE i.x # <<>>
    <3>1. TableRow(i, k) = <<i.a[k], i.b[k], i.x[k]>>
      BY <2>3 DEF TableRow
    <3>2. w = 3
      BY <1>4, <2>3
    <3> HIDE DEF w
    <3> QED
      BY <2>1, <2>3, <3>1, <3>2
  <2> QED
    BY <2>2, <2>3
<1> HIDE DEF w
<1>6. cells \in Seq(Seq(T)) /\ Len(cells) = n /\ \A k \in 1 .. n : cells[k] = TableRow(i, k)
  <2>1. \A k \in 1 .. n : TableRow(i, k) \in Seq(T)
    BY <1>5
  <2>2. n \in Nat
    BY <1>1
  <2> QED
    BY <2>1, <2>2
<1> HIDE DEF cells
<1>7. <<keys>> \in Seq(Seq(T)) /\ Len(<<keys>>) = 1 /\ <<keys>>[1] = keys
  BY <1>4
<1>8. /\ rows \in Seq(Seq(T)) /\ Len(rows) = 1 + n
      /\ \A k \in 1 .. 1 + n : rows[k] = IF k <= 1 THEN <<keys>>[k] ELSE cells[k - 1]
  <2> DEFINE first == <<keys>>
  <2>1. first \in Seq(Seq(T)) /\ Len(first) = 1 /\ first = <<keys>>
    BY <1>7
  <2> HIDE DEF first
  <2> DEFINE all == first \o cells
  <2>2. /\ all \in Seq(Seq(T)) /\ Len(all) = Len(first) + Len(cells)
        /\ \A k \in 1 .. Len(first) + Len(cells) :
             all[k] = IF k <= Len(first) THEN first[k] ELSE cells[k - Len(first)]
    BY <1>6, <2>1, ConcatProperties
  <2>3. rows = all
    BY <2>1
  <2> HIDE DEF all
  <2> QED
    BY <1>6, <2>1, <2>2, <2>3
<1> HIDE DEF rows
<1>9. rows[1] = keys /\ \A k \in 1 .. n : rows[k + 1] = TableRow(i, k)
  <2>1. rows[1] = keys
    BY <1>1, <1>7, <1>8
  <2>2. ASSUME NEW k \in 1 .. n PROVE rows[k + 1] = TableRow(i, k)
    <3>1. k + 1 \in 1 .. 1 + n /\ ~ (k + 1 <= 1) /\ (k + 1) - 1 = k
      BY <1>1
    <3> QED
      BY <1>6, <1>8, <3>1
  <2> QED
    BY <2>1, <2>2
<1>10. \A k \in 1 .. Len(rows) : Len(rows[k]) = w
  <2> TAKE k \in 1 .. Len(rows)
  <2>1. CASE k = 1
    BY <1>9, <2>1 DEF w
  <2>2. CASE k # 1
    <3>1. k - 1 \in 1 .. n /\ (k - 1) + 1 = k
      BY <1>1, <1>8, <2>2
    <3>2. rows[k] = TableRow(i, k - 1)
      BY <1>9, <3>1
    <3> QED
      BY <1>5, <3>1, <3>2
  <2> QED
    BY <2>1, <2>2
<1>11. AreTableRows(rows, T)
  BY <1>1, <1>4, <1>8, <1>9, <1>10 DEF AreTableRows, w
<1>12. Len(rows) = n + 1
  BY <1>1, <1>8
<1>13. TableRows(i) = rows
  BY <1>3 DEF TableRows, rows, cells, keys
<1> QED
  BY <1>9, <1>11, <1>12, <1>13 DEF RowsOfFullTable, T, n, keys

\* What is made of the rows of a table has these rows.
LEMMA DataOfFullTable ==
  ASSUME TablesAssumption, NEW i, IsFullTable(i), NEW rows, RowsOfFullTable(i, rows),
         NEW data, DataOf(rows, data)
  PROVE  RowsOfTable(data, Len(i.a), i.x, i.a, i.b) /\ data.keys = TableKeys(i.x)
<1> DEFINE n == Len(i.a)
           keys == TableKeys(i.x)
<1>1. /\ n \in Nat /\ Len(i.b) = n
      /\ (i.x # <<>> => Len(i.x) = n) /\ (i.x = <<>> => Len(i.x) = 0)
  BY ATable DEF IsFullTable
<1> HIDE DEF n, keys
<1>2. /\ Len(rows) = n + 1 /\ rows[1] = keys
      /\ \A k \in 1 .. n : rows[k + 1] = TableRow(i, k)
  BY DEF RowsOfFullTable, n, keys
<1>4. /\ data.keys = keys
      /\ data.rows = [k \in 1 .. n |-> data.rows[k]]
      /\ \A k \in 1 .. n :
           /\ data.rows[k] = [key \in {keys[j] : j \in DOMAIN keys} |-> data.rows[k][key]]
           /\ \A j \in DOMAIN keys : data.rows[k][keys[j]] = rows[k + 1][j]
  <2>1. Len(rows) - 1 = n
    BY <1>1, <1>2
  <2> DEFINE P(m, names) ==
               /\ data.keys = names
               /\ data.rows = [k \in 1 .. m |-> data.rows[k]]
               /\ \A k \in 1 .. m :
                    /\ data.rows[k] = [key \in {names[j] : j \in DOMAIN names} |-> data.rows[k][key]]
                    /\ \A j \in DOMAIN names : data.rows[k][names[j]] = rows[k + 1][j]
  <2>3. P(Len(rows) - 1, rows[1])
    BY Zenon DEF DataOf
  <2> HIDE DEF P
  <2>4. P(n, keys)
    BY <1>2, <2>1, <2>3
  <2> QED
    BY <2>4 DEF P
<1>5. Len(data.rows) = n /\ DOMAIN data.rows = 1 .. n
  BY <1>1, <1>4
<1>6. AreFunctions(data.rows)
  <2>1. \A k \in 1 .. n : DOMAIN data.rows[k] = {keys[j] : j \in DOMAIN keys}
    BY <1>4
  <2>2. \A k \in 1 .. n : data.rows[k] = [key \in DOMAIN data.rows[k] |-> data.rows[k][key]]
    BY <1>4, <2>1
  <2> QED
    BY <1>4, <1>5, <2>2 DEF AreFunctions
<1>7. CASE i.x = <<>>
  <2>1. DOMAIN keys = {1, 2} /\ keys[1] = "a" /\ keys[2] = "b"
    BY <1>7 DEF keys, TableKeys
  <2>2. {keys[j] : j \in DOMAIN keys} = {"a", "b"}
    BY <2>1
  <2>3. ASSUME NEW k \in 1 .. n
        PROVE  /\ DOMAIN data.rows[k] = {"a", "b"}
               /\ data.rows[k]["a"] = i.a[k] /\ data.rows[k]["b"] = i.b[k]
    <3>1. TableRow(i, k) = <<i.a[k], i.b[k]>>
      BY <1>7 DEF TableRow
    <3>2. TableRow(i, k)[1] = i.a[k] /\ TableRow(i, k)[2] = i.b[k]
      BY <3>1
    <3>3. data.rows[k]["a"] = rows[k + 1][1] /\ data.rows[k]["b"] = rows[k + 1][2]
      <4>1. 1 \in DOMAIN keys /\ 2 \in DOMAIN keys
        BY <2>1
      <4>2. data.rows[k][keys[1]] = rows[k + 1][1] /\ data.rows[k][keys[2]] = rows[k + 1][2]
        BY <1>4, <4>1, Zenon
      <4> QED
        BY <2>1, <4>2
    <3>4. DOMAIN data.rows[k] = {"a", "b"}
      BY <1>4, <2>2
    <3> QED
      BY <1>2, <3>2, <3>3, <3>4
  <2>4. "x" \notin {"a", "b"}
    OBVIOUS
  <2>5. HasColumn(data, "a", i.a) /\ HasColumn(data, "b", i.b)
    BY <1>1, <1>5, <2>3 DEF HasColumn, n
  <2>6. HasColumn(data, "x", i.x)
    BY <1>1, <1>5, <1>7, <2>3, <2>4 DEF HasColumn
  <2>7. \A k \in 1 .. n : DOMAIN data.rows[k] \subseteq {"a", "b", "x"}
    BY <2>3
  <2> QED
    BY <1>4, <1>5, <1>6, <2>5, <2>6, <2>7 DEF RowsOfTable, n, keys
<1>8. CASE i.x # <<>>
  <2>1. DOMAIN keys = {1, 2, 3} /\ keys[1] = "a" /\ keys[2] = "b" /\ keys[3] = "x"
    BY <1>8 DEF keys, TableKeys
  <2>2. {keys[j] : j \in DOMAIN keys} = {"a", "b", "x"}
    BY <2>1
  <2>3. ASSUME NEW k \in 1 .. n
        PROVE  /\ DOMAIN data.rows[k] = {"a", "b", "x"}
               /\ data.rows[k]["a"] = i.a[k] /\ data.rows[k]["b"] = i.b[k]
               /\ data.rows[k]["x"] = i.x[k]
    <3>1. TableRow(i, k) = <<i.a[k], i.b[k], i.x[k]>>
      BY <1>8 DEF TableRow
    <3>2. TableRow(i, k)[1] = i.a[k] /\ TableRow(i, k)[2] = i.b[k] /\ TableRow(i, k)[3] = i.x[k]
      BY <3>1
    <3>3. /\ data.rows[k]["a"] = rows[k + 1][1] /\ data.rows[k]["b"] = rows[k + 1][2]
          /\ data.rows[k]["x"] = rows[k + 1][3]
      <4>1. 1 \in DOMAIN keys /\ 2 \in DOMAIN keys /\ 3 \in DOMAIN keys
        BY <2>1
      <4>2. /\ data.rows[k][keys[1]] = rows[k + 1][1] /\ data.rows[k][keys[2]] = rows[k + 1][2]
            /\ data.rows[k][keys[3]] = rows[k + 1][3]
        BY <1>4, <4>1, Zenon
      <4> QED
        BY <2>1, <4>2
    <3>4. DOMAIN data.rows[k] = {"a", "b", "x"}
      BY <1>4, <2>2
    <3> QED
      BY <1>2, <3>2, <3>3, <3>4
  <2>5. HasColumn(data, "a", i.a) /\ HasColumn(data, "b", i.b) /\ HasColumn(data, "x", i.x)
    BY <1>1, <1>5, <1>8, <2>3 DEF HasColumn, n
  <2>7. \A k \in 1 .. n : DOMAIN data.rows[k] \subseteq {"a", "b", "x"}
    BY <2>3
  <2> QED
    BY <1>4, <1>5, <1>6, <2>5, <2>7 DEF RowsOfTable, n, keys
<1> QED
  BY <1>7, <1>8

\* Converted from columns, it has the rows of the table.
LEMMA ColumnsOfFullTable ==
  ASSUME TablesAssumption, NEW i, IsFullTable(i)
  PROVE  RowsOfTable(Columns(i), Len(i.a), i.x, i.a, i.b)
<1> DEFINE data == Columns(i)
           n == Len(i.a)
<1>1. /\ n \in Nat \ {0} /\ Len(i.b) = n /\ (Len(i.x) = n \/ Len(i.x) = 0)
  BY ATable DEF IsFullTable
<1>2. IsTableData(data, i.x, i.a, i.b)
  BY ColumnsOfTable DEF IsFullTable
<1>3. AreFunctions(data.rows)
  BY ColumnsFunctions DEF Columns
<1> HIDE DEF data, n
<1>4. Len(data.rows) = n
  <2>1. n <= Len(data.rows)
    BY <1>2 DEF IsTableData, HasColumn, n
  <2>2. PICK s \in {i.a, i.b, i.x} : Len(data.rows) = Len(s)
    BY <1>2 DEF IsTableData
  <2>3. Len(s) = n \/ Len(s) = 0
    BY <1>1, <2>2 DEF n
  <2> QED
    BY <1>1, <2>1, <2>2, <2>3
<1> QED
  BY <1>2, <1>3, <1>4 DEF IsTableData, RowsOfTable, data, n

\* Two and one are three.
LEMMA TwoAndOne ==
  ASSUME NEW T, NEW one \in T, NEW two \in T, NEW three \in T
  PROVE  <<one, two>> \o <<three>> = <<one, two, three>>
<1> DEFINE f == <<one, two>>
           g == <<three>>
           h == f \o g
           all == <<one, two, three>>
<1>1. /\ f \in Seq(T) /\ Len(f) = 2 /\ f[1] = one /\ f[2] = two
      /\ g \in Seq(T) /\ Len(g) = 1 /\ g[1] = three
  OBVIOUS
<1>2. all \in Seq(T) /\ Len(all) = 3 /\ all[1] = one /\ all[2] = two /\ all[3] = three
  OBVIOUS
<1> HIDE DEF f, g, all
<1>3. /\ h \in Seq(T) /\ Len(h) = Len(f) + Len(g)
      /\ \A i \in 1 .. Len(f) + Len(g) : h[i] = IF i <= Len(f) THEN f[i] ELSE g[i - Len(f)]
  BY <1>1, ConcatProperties
<1> HIDE DEF h
<1>4. \A k \in 1 .. 3 : h[k] = all[k]
  BY <1>1, <1>2, <1>3
<1>5. h = all
  BY <1>1, <1>2, <1>3, <1>4
<1> QED
  BY <1>5 DEF f, g, h, all

\* The same keys come with x first as with x last.
LEMMA SameKeys ==
  ASSUME NEW key
  PROVE  Contains(<<"x", "a", "b">>, key) <=> Contains(<<"a", "b", "x">>, key)
<1> DEFINE p == <<"x", "a", "b">>
           q == <<"a", "b", "x">>
<1>1. /\ 1 .. Len(p) = {1, 2, 3} /\ p[1] = "x" /\ p[2] = "a" /\ p[3] = "b"
      /\ 1 .. Len(q) = {1, 2, 3} /\ q[1] = "a" /\ q[2] = "b" /\ q[3] = "x"
  OBVIOUS
<1> HIDE DEF p, q
<1>2. (\E k \in 1 .. Len(p) : p[k] = key) <=> key \in {"a", "b", "x"}
  BY <1>1
<1>3. (\E k \in 1 .. Len(q) : q[k] = key) <=> key \in {"a", "b", "x"}
  BY <1>1
<1>4. Contains(p, key) <=> Contains(q, key)
  BY <1>2, <1>3, Zenon DEF Contains
<1> QED
  BY <1>4 DEF p, q

\* Full tables whose cells are the same numbers are the same chart.
LEMMA AlikeTables ==
  ASSUME TablesAssumption, NEW x \in Seq(Int), IsInjective(x),
         NEW one, NEW a, NEW b, IsTableData(one, x, a, b), Len(a) \in Nat, Len(b) \in Nat,
         NEW two, NEW c, NEW d, IsTableData(two, x, c, d), Len(c) = Len(a), Len(d) = Len(b),
         Len(one.rows) = Len(two.rows),
         \A k \in 1 .. Len(a) : Number(a[k]) = Number(c[k]),
         \A k \in 1 .. Len(b) : Number(b[k]) = Number(d[k])
  PROVE  Converted(ChartOf(x), one) = Converted(ChartOf(x), two)
<1> DEFINE chart == ChartOf(x)
           xs == XsOfTable(one, x)
           ids == <<"a", "b">>
<1>1. XsOfTable(two, x) = xs
  BY DEF XsOfTable
<1>2. /\ Converted(chart, one) = TableMade(chart, one, xs)
      /\ Converted(chart, two) = TableMade(chart, two, xs)
  BY <1>1, TableConverted
<1>3. /\ HasColumn(one, "a", a) /\ HasColumn(one, "b", b)
      /\ HasColumn(two, "a", c) /\ HasColumn(two, "b", d)
  BY DEF IsTableData
<1>4. ASSUME NEW key, NEW s, NEW t, HasColumn(one, key, s), HasColumn(two, key, t),
             Len(s) \in Nat, Len(t) = Len(s), \A k \in 1 .. Len(s) : Number(s[k]) = Number(t[k])
      PROVE  TargetOf(chart, one, key, xs) = TargetOf(chart, two, key, xs)
  <2> DEFINE m == TableLength(x, s)
             numbers(column) == [k \in 1 .. m |-> Number(column[k])]
             made(column) == [id |-> key, values |-> ValuesAtX(TableXs(x, m), numbers(column))]
  <2>1. TableLength(x, t) = m
    BY <1>4 DEF TableLength
  <2>2. TargetOf(chart, one, key, xs) = made(s)
    BY <1>4, TableTarget
  <2>3. TargetOf(chart, two, key, xs) = made(t)
    BY <1>1, <1>4, <2>1, TableTarget
  <2>4. \A k \in 1 .. m : Number(s[k]) = Number(t[k])
    <3>1. m \in Nat /\ \A k \in Nat : k <= m => k <= Len(s)
      BY <1>4, LengthOfTable
    <3> HIDE DEF m
    <3>2. \A k \in 1 .. m : k \in 1 .. Len(s)
      BY <1>4, <3>1
    <3> QED
      BY <1>4, <3>2
  <2>5. numbers(s) = numbers(t)
    <3> HIDE DEF m
    <3> QED
      BY <2>4
  <2> HIDE DEF numbers, m
  <2> QED
    BY <2>2, <2>3, <2>5
<1>5. /\ TargetOf(chart, one, "a", xs) = TargetOf(chart, two, "a", xs)
      /\ TargetOf(chart, one, "b", xs) = TargetOf(chart, two, "b", xs)
  BY <1>3, <1>4
<1>6. Learned(chart, one, ids) = Learned(chart, two, ids)
  <2> DEFINE first == Learn(chart, one, "a")
             fields == {"x", "xs", "category", "xSort", "targets", "known", "categories"}
  <2>1. TakesX(chart, x) /\ DOMAIN chart = fields
    BY TableChart
  <2> HIDE DEF chart, xs
  <2>2. XsLoaded(chart, one, "a") = xs /\ XsLoaded(chart, two, "a") = xs
    BY <1>1, <2>1, XsLearned DEF xs
  <2>3. Learn(chart, two, "a") = first
    BY <2>2 DEF Learn
  <2>4. TakesX(first, x)
    BY <2>1, LearnKeeps
  <2> HIDE DEF first
  <2>5. XsLoaded(first, one, "b") = xs /\ XsLoaded(first, two, "b") = xs
    BY <1>1, <2>4, XsLearned DEF xs
  <2>6. Learn(first, one, "b") = Learn(first, two, "b")
    BY <2>5 DEF Learn
  <2>7. Len(ids) = 2 /\ ids[1] = "a" /\ ids[2] = "b"
    OBVIOUS
  <2>8. /\ Learned(chart, one, ids) = Learn(first, one, "b")
        /\ Learned(chart, two, ids) = Learn(Learn(chart, two, "a"), two, "b")
    BY <2>7 DEF Learned, first
  <2> QED
    BY <2>3, <2>6, <2>8
<1>7. TableMade(chart, one, xs) = TableMade(chart, two, xs)
  <2> HIDE DEF chart, xs
  <2>1. ChartMade(chart, one) = ChartMade(chart, two)
    BY <1>6, Zenon DEF ChartMade
  <2> QED
    BY <1>5, <2>1, Zenon DEF TableMade
<1> QED
  BY <1>2, <1>7

\* What is made of the rows of a full table is the chart of its columns.
LEMMA FullTableAgrees ==
  ASSUME TablesAssumption, NEW i, IsFullTable(i), NEW data, DataOf(TableRows(i), data)
  PROVE  /\ Converted(ChartOf(i.x), Columns(i)) = Converted(ChartOf(i.x), data)
         /\ Len(Converted(ChartOf(i.x), Columns(i)).targets) = 2
<1> DEFINE columns == Columns(i)
           chart == ChartOf(i.x)
           n == Len(i.a)
<1>1. RowsOfTable(data, n, i.x, i.a, i.b) /\ data.keys = TableKeys(i.x)
  BY FullTableRows, DataOfFullTable
<1>2. RowsOfTable(columns, n, i.x, i.a, i.b)
  BY ColumnsOfFullTable
<1>3. IsTable(i)
  BY DEF IsFullTable
<1>4. IsTableData(columns, i.x, i.a, i.b)
  BY <1>3, ColumnsOfTable
<1>5. i.x \in Seq(Int) /\ TakesX(chart, i.x)
  <2>1. i.x \in Seq(Int)
    BY <1>3 DEF IsTable
  <2> QED
    BY <2>1, TableChart
<1> HIDE DEF columns, chart, n
<1>6. columns.keys = IF i.x = <<>> THEN <<"a", "b">> ELSE <<"x", "a", "b">>
  BY <1>4 DEF IsTableData
<1>7. columns.rows = data.rows
  BY <1>1, <1>2, SameRows
<1>8. IdsOf(chart, columns) = <<"a", "b">>
  BY <1>5, <1>6, TableIds
<1>9. IdsOf(chart, data) = <<"a", "b">>
  BY <1>1, <1>5, TableIds DEF TableKeys
<1>10. \A key : Contains(columns.keys, key) <=> Contains(data.keys, key)
  <2>1. CASE i.x = <<>>
    <3>1. columns.keys = data.keys
      BY <1>1, <1>6, <2>1 DEF TableKeys
    <3> QED
      BY <3>1
  <2>2. CASE i.x # <<>>
    <3>1. columns.keys = <<"x", "a", "b">> /\ data.keys = <<"a", "b", "x">>
      BY <1>1, <1>6, <2>2 DEF TableKeys
    <3> QED
      BY <3>1, SameKeys
  <2> QED
    BY <2>1, <2>2
<1>11. Converted(chart, columns) = Converted(chart, data)
  <2>1. <<"a", "b">> \in Seq({"a", "b"}) /\ Len(<<"a", "b">>) <= 2
    OBVIOUS
  <2> DEFINE ids == IdsOf(chart, columns)
  <2>2. ids \in Seq({"a", "b"}) /\ Len(ids) <= 2
    BY <1>8, <2>1
  <2> QED
    BY <1>7, <1>8, <1>9, <1>10, <2>2, SameData
<1>12. Len(Converted(chart, columns).targets) = 2
  <2>1. IsConverted(Converted(chart, columns), chart, columns, XsOfTable(columns, i.x))
    BY <1>4, <1>5, TableConverted DEF chart
  <2> QED
    BY <2>1 DEF IsConverted
<1> QED
  BY <1>11, <1>12 DEF chart, columns

\* The rows of a full table, written with the x last.
LEMMA RowsWritten ==
  ASSUME TablesAssumption, NEW i, IsFullTable(i)
  PROVE  /\ <<"a", "b">> \o (IF i.x = <<>> THEN <<>> ELSE <<"x">>) = TableKeys(i.x)
         /\ \A k \in DOMAIN i.a :
              <<i.a[k], i.b[k]>> \o (IF i.x = <<>> THEN <<>> ELSE <<i.x[k]>>) = TableRow(i, k)
<1> DEFINE T == TableCells
           n == Len(i.a)
           last(x) == IF i.x = <<>> THEN <<>> ELSE <<x>>
<1>1. /\ i.a \in Seq(T) /\ i.b \in Seq(T) /\ i.x \in Seq(T)
      /\ n \in Nat \ {0} /\ Len(i.b) = n /\ (i.x # <<>> => Len(i.x) = n)
  BY ATable DEF IsFullTable
<1>2. DOMAIN i.a = 1 .. n
  BY <1>1
<1>3. "a" \in T /\ "b" \in T /\ "x" \in T
  BY DEF TablesAssumption, TableCells
<1> HIDE DEF T
<1>4. <<"a", "b">> \o last("x") = TableKeys(i.x)
  <2>1. CASE i.x = <<>>
    <3>1. <<"a", "b">> \o <<>> = <<"a", "b">>
      OBVIOUS
    <3> QED
      BY <2>1, <3>1 DEF TableKeys
  <2>2. CASE i.x # <<>>
    <3>1. <<"a", "b">> \o <<"x">> = <<"a", "b", "x">>
      BY <1>3, TwoAndOne
    <3> QED
      BY <2>2, <3>1 DEF TableKeys
  <2> QED
    BY <2>1, <2>2
<1>5. ASSUME NEW k \in 1 .. n PROVE <<i.a[k], i.b[k]>> \o last(i.x[k]) = TableRow(i, k)
  <2>1. i.a[k] \in T /\ i.b[k] \in T /\ (i.x # <<>> => i.x[k] \in T)
    <3>1. k \in 1 .. Len(i.a) /\ k \in 1 .. Len(i.b) /\ (i.x # <<>> => k \in 1 .. Len(i.x))
      BY <1>1
    <3>2. \A s \in Seq(T) : \A j \in 1 .. Len(s) : s[j] \in T
      OBVIOUS
    <3> QED
      BY <1>1, <3>1, <3>2
  <2>2. CASE i.x = <<>>
    <3>1. <<i.a[k], i.b[k]>> \o <<>> = <<i.a[k], i.b[k]>>
      OBVIOUS
    <3> QED
      BY <2>2, <3>1 DEF TableRow
  <2>3. CASE i.x # <<>>
    <3>1. <<i.a[k], i.b[k]>> \o <<i.x[k]>> = <<i.a[k], i.b[k], i.x[k]>>
      BY <2>1, <2>3, TwoAndOne
    <3> QED
      BY <2>3, <3>1 DEF TableRow
  <2> QED
    BY <2>2, <2>3
<1> HIDE DEF n
<1> QED
  BY <1>2, <1>4, <1>5

\* The columns of a full table with each of their values made another one.
Changed(column, to(_)) == [k \in DOMAIN column |-> to(column[k])]

InFileTable(i) == [a |-> Changed(i.a, InFile), b |-> Changed(i.b, InFile), x |-> i.x]

ZerosTable(i) == [a |-> Changed(i.a, FromFile), b |-> Changed(i.b, FromFile), x |-> i.x]

\* They are a full table as well, both as they are in a file and with zeros for nulls.
LEMMA TablesChanged ==
  ASSUME TablesAssumption, NEW i, IsFullTable(i)
  PROVE  IsFullTable(InFileTable(i)) /\ IsFullTable(ZerosTable(i))
<1> DEFINE S == Int \cup {Null, Text, Empty}
<1>1. /\ i.a \in Seq(S) \ {<<>>} /\ i.b \in Seq(S) \ {<<>>}
      /\ i.x \in Seq(Int) /\ IsInjective(i.x) /\ Len(i.a) = Len(i.b) /\ Len(i.x) \in {0, Len(i.a)}
  BY DEF IsFullTable, IsTable
<1>2. \A v \in S : InFile(v) \in S /\ FromFile(v) \in S
  BY DEF InFile, FromFile
<1> HIDE DEF S
<1>3. ASSUME NEW s \in Seq(S) \ {<<>>}
      PROVE  /\ Changed(s, InFile) \in Seq(S) \ {<<>>} /\ Len(Changed(s, InFile)) = Len(s)
             /\ Changed(s, FromFile) \in Seq(S) \ {<<>>} /\ Len(Changed(s, FromFile)) = Len(s)
  <2>1. DOMAIN s = 1 .. Len(s) /\ Len(s) \in Nat \ {0} /\ \A k \in 1 .. Len(s) : s[k] \in S
    OBVIOUS
  <2>2. ASSUME NEW t, t = [k \in 1 .. Len(s) |-> t[k]], \A k \in 1 .. Len(s) : t[k] \in S
        PROVE  t \in Seq(S) \ {<<>>} /\ Len(t) = Len(s)
    BY <2>1, <2>2
  <2>3. /\ Changed(s, InFile) = [k \in 1 .. Len(s) |-> InFile(s[k])]
        /\ Changed(s, FromFile) = [k \in 1 .. Len(s) |-> FromFile(s[k])]
    BY <2>1 DEF Changed
  <2> DEFINE t == Changed(s, InFile)
             u == Changed(s, FromFile)
  <2> HIDE DEF t, u
  <2>4. /\ t = [k \in 1 .. Len(s) |-> t[k]] /\ \A k \in 1 .. Len(s) : t[k] \in S
        /\ u = [k \in 1 .. Len(s) |-> u[k]] /\ \A k \in 1 .. Len(s) : u[k] \in S
    BY <1>2, <2>1, <2>3 DEF t, u
  <2> QED
    BY <2>2, <2>4 DEF t, u
<1> QED
  BY <1>1, <1>3 DEF IsFullTable, IsTable, InFileTable, ZerosTable, S

\* A file is the chart of its table with zeros for nulls.
LEMMA FileAgrees ==
  ASSUME TablesAssumption, NEW i, IsFullTable(i)
  PROVE  Converted(ChartOf(i.x), Columns(InFileTable(i))) = Converted(ChartOf(i.x), Columns(ZerosTable(i)))
<1> DEFINE f == InFileTable(i)
           z == ZerosTable(i)
           one == Columns(f)
           two == Columns(z)
<1>1. IsFullTable(f) /\ IsFullTable(z) /\ f.x = i.x /\ z.x = i.x
  BY TablesChanged DEF InFileTable, ZerosTable
<1>2. /\ f.a = Changed(i.a, InFile) /\ f.b = Changed(i.b, InFile)
      /\ z.a = Changed(i.a, FromFile) /\ z.b = Changed(i.b, FromFile)
  BY DEF InFileTable, ZerosTable
<1>3. /\ DOMAIN i.a = 1 .. Len(i.a) /\ Len(i.a) \in Nat /\ DOMAIN i.b = 1 .. Len(i.b) /\ Len(i.b) = Len(i.a)
      /\ i.x \in Seq(Int) /\ IsInjective(i.x)
  <2>1. i.a \in Seq(TableCells) /\ i.b \in Seq(TableCells)
    BY ATable DEF IsFullTable
  <2>2. /\ DOMAIN i.a = 1 .. Len(i.a) /\ Len(i.a) \in Nat /\ DOMAIN i.b = 1 .. Len(i.b)
    BY <2>1
  <2> QED
    BY <2>2 DEF IsFullTable, IsTable
<1> HIDE DEF f, z
<1>4. ASSUME NEW s, NEW n \in Nat, DOMAIN s = 1 .. n
      PROVE  /\ Len(Changed(s, InFile)) = n /\ Len(Changed(s, FromFile)) = n
             /\ \A k \in 1 .. n : Number(Changed(s, InFile)[k]) = Number(Changed(s, FromFile)[k])
  <2>1. DOMAIN Changed(s, InFile) = 1 .. n /\ DOMAIN Changed(s, FromFile) = 1 .. n
    BY <1>4 DEF Changed
  <2>2. \A v : Number(InFile(v)) = Number(FromFile(v))
    <3>1. 0 \notin {Null, Text, Empty} /\ Empty \notin {Null, Text}
      <4>1. 0 \in Int
        OBVIOUS
      <4> QED
        BY <4>1, Zenon DEF TablesAssumption
    <3> QED
      BY <3>1 DEF Number, InFile, FromFile
  <2>3. \A k \in 1 .. n : /\ Changed(s, InFile)[k] = InFile(s[k])
                          /\ Changed(s, FromFile)[k] = FromFile(s[k])
    BY <1>4 DEF Changed
  <2>4. /\ Changed(s, InFile) = [k \in 1 .. n |-> InFile(s[k])]
        /\ Changed(s, FromFile) = [k \in 1 .. n |-> FromFile(s[k])]
    BY <1>4 DEF Changed
  <2>5. \A t : t = [k \in 1 .. n |-> t[k]] => Len(t) = n
    OBVIOUS
  <2>6. Len(Changed(s, InFile)) = n /\ Len(Changed(s, FromFile)) = n
    BY <2>3, <2>4, <2>5
  <2> QED
    BY <2>2, <2>3, <2>6
<1>5. /\ Len(f.a) = Len(i.a) /\ Len(z.a) = Len(i.a) /\ Len(f.b) = Len(i.a) /\ Len(z.b) = Len(i.a)
      /\ \A k \in 1 .. Len(i.a) : Number(f.a[k]) = Number(z.a[k]) /\ Number(f.b[k]) = Number(z.b[k])
  BY <1>2, <1>3, <1>4
<1>6. IsTableData(one, i.x, f.a, f.b) /\ IsTableData(two, i.x, z.a, z.b)
  <2>1. IsTable(f) /\ IsTable(z)
    BY <1>1 DEF IsFullTable
  <2> QED
    BY <1>1, <2>1, ColumnsOfTable
<1>7. RowsOfTable(one, Len(f.a), i.x, f.a, f.b) /\ RowsOfTable(two, Len(z.a), i.x, z.a, z.b)
  BY <1>1, ColumnsOfFullTable
<1> HIDE DEF one, two
<1>8. Len(one.rows) = Len(two.rows)
  BY <1>5, <1>7 DEF RowsOfTable
<1>9. Converted(ChartOf(i.x), one) = Converted(ChartOf(i.x), two)
  BY <1>3, <1>5, <1>6, <1>8, AlikeTables
<1> QED
  BY <1>9 DEF one, two, f, z

\* A table in any form is the same chart.
LEMMA TablesAgree == AskedOfQuestions => ConversionsAgree
<1> SUFFICES ASSUME AskedOfQuestions,
                    Asked("table") /\ Len(probe.input.a) = Len(probe.input.b)
                      /\ Len(probe.input.x) \in {0, Len(probe.input.a)}
             PROVE  ConversionsAgree
  BY Zenon DEF ConversionsAgree
<1> DEFINE i == probe.input
           last(x) == IF i.x = <<>> THEN <<>> ELSE <<x>>
           rows == <<<<"a", "b">> \o last("x")>>
                       \o [k \in DOMAIN i.a |-> <<i.a[k], i.b[k]>> \o last(i.x[k])]
           object(k) == [key \in {"a", "b"} \cup ToSet(last("x")) |->
                            CASE key = "a" -> i.a[k] [] key = "b" -> i.b[k] [] key = "x" -> i.x[k]]
           objects == [k \in DOMAIN i.a |-> object(k)]
           x == IF i.x = <<>> THEN Null ELSE "x"
           json == ConvertJsonToData(objects, <<"a", "b">>, x)
           file == <<Head(rows)>> \o
                       [k \in DOMAIN i.a |-> <<InFile(i.a[k]), InFile(i.b[k])>> \o last(i.x[k])]
           zeros(column) == [k \in DOMAIN column |-> FromFile(column[k])]
           chart == ChartOf(i.x)
           made(data) == ConvertDataToTargets(chart, data, FALSE)
           n == Len(i.a)
           f == InFileTable(i)
<1>1. TablesAssumption /\ IsFullTable(i)
  BY InputAsked, TablesAssumed, CalculationsAssumption DEF CalculationsAssumption, IsFullTable
<1> HIDE DEF i
<1>2. /\ DOMAIN i.a = 1 .. n /\ n \in Nat \ {0} /\ DOMAIN i.b = 1 .. n
  <2>1. i.a \in Seq(TableCells) /\ i.b \in Seq(TableCells) /\ n \in Nat \ {0} /\ Len(i.b) = n
    BY <1>1, ATable DEF IsFullTable
  <2> QED
    BY <2>1
<1>3. /\ <<"a", "b">> \o last("x") = TableKeys(i.x)
      /\ \A k \in DOMAIN i.a : <<i.a[k], i.b[k]>> \o last(i.x[k]) = TableRow(i, k)
  BY <1>1, RowsWritten
<1>4. "a" # Null /\ "b" # Null /\ "x" # Null
  BY <1>1 DEF TablesAssumption
<1>5. rows = TableRows(i)
  <2> DEFINE cell(k) == <<i.a[k], i.b[k]>> \o last(i.x[k])
  <2>1. \A k \in DOMAIN i.a : cell(k) = TableRow(i, k)
    BY <1>3
  <2>2. rows = <<TableKeys(i.x)>> \o [k \in DOMAIN i.a |-> cell(k)]
    BY <1>3
  <2> HIDE DEF cell
  <2>3. [k \in DOMAIN i.a |-> cell(k)] = [k \in DOMAIN i.a |-> TableRow(i, k)]
    BY <2>1
  <2> QED
    BY <2>2, <2>3 DEF TableRows
<1>6. json = ConvertRowsToData(TableRows(i))
  <2> DEFINE keys == <<"a", "b">> \o (IF x = Null THEN <<>> ELSE <<x>>)
             taken(k) == [j \in DOMAIN keys |->
                IF keys[j] \in DOMAIN objects[k] THEN objects[k][keys[j]] ELSE Null]
  <2>1. json = ConvertRowsToData(<<keys>> \o [k \in DOMAIN objects |-> taken(k)])
    BY DEF ConvertJsonToData
  <2>2. keys = TableKeys(i.x)
    <3>1. (IF x = Null THEN <<>> ELSE <<x>>) = last("x")
      BY <1>4
    <3> QED
      BY <1>3, <3>1
  <2>3. ASSUME NEW k \in 1 .. n PROVE taken(k) = TableRow(i, k)
    <3>1. objects[k] = object(k)
      BY <1>2
    <3>2. CASE i.x = <<>>
      <4>1. keys = <<"a", "b">>
        BY <2>2, <3>2 DEF TableKeys
      <4>2. DOMAIN keys = {1, 2} /\ keys[1] = "a" /\ keys[2] = "b"
        BY <4>1
      <4>3. ToSet(last("x")) = {}
        BY <3>2 DEF ToSet
      <4>4. DOMAIN object(k) = {"a", "b"} /\ object(k)["a"] = i.a[k] /\ object(k)["b"] = i.b[k]
        BY <4>3
      <4>5. TableRow(i, k) = <<i.a[k], i.b[k]>>
        BY <3>2 DEF TableRow
      <4> HIDE DEF object, keys, objects
      <4>6. taken(k) = [j \in {1, 2} |-> IF j = 1 THEN i.a[k] ELSE i.b[k]]
        BY <3>1, <4>2, <4>4
      <4>7. [j \in {1, 2} |-> IF j = 1 THEN i.a[k] ELSE i.b[k]] = <<i.a[k], i.b[k]>>
        OBVIOUS
      <4> QED
        BY <4>5, <4>6, <4>7
    <3>3. CASE i.x # <<>>
      <4>1. keys = <<"a", "b", "x">>
        BY <2>2, <3>3 DEF TableKeys
      <4>2. DOMAIN keys = {1, 2, 3} /\ keys[1] = "a" /\ keys[2] = "b" /\ keys[3] = "x"
        BY <4>1
      <4>3. ToSet(last("x")) = {"x"}
        BY <3>3 DEF ToSet
      <4>4. /\ DOMAIN object(k) = {"a", "b", "x"}
            /\ object(k)["a"] = i.a[k] /\ object(k)["b"] = i.b[k] /\ object(k)["x"] = i.x[k]
        BY <4>3
      <4>5. TableRow(i, k) = <<i.a[k], i.b[k], i.x[k]>>
        BY <3>3 DEF TableRow
      <4> HIDE DEF object, keys, objects
      <4> DEFINE three == [j \in {1, 2, 3} |-> IF j = 1 THEN i.a[k] ELSE IF j = 2 THEN i.b[k] ELSE i.x[k]]
      <4>6. taken(k) = three
        BY <3>1, <4>2, <4>4
      <4>7. three = <<i.a[k], i.b[k], i.x[k]>>
        OBVIOUS
      <4> QED
        BY <4>5, <4>6, <4>7
    <3> QED
      BY <3>2, <3>3
  <2>4. DOMAIN objects = DOMAIN i.a
    OBVIOUS
  <2> HIDE DEF taken, keys, objects, json
  <2>5. [k \in DOMAIN objects |-> taken(k)] = [k \in DOMAIN i.a |-> TableRow(i, k)]
    BY <1>2, <2>3, <2>4
  <2> QED
    BY <2>1, <2>2, <2>5 DEF TableRows
<1>7. file = TableRows(f)
  <2>1. IsFullTable(f) /\ f.x = i.x
    BY <1>1, TablesChanged DEF InFileTable
  <2>2. f.a = Changed(i.a, InFile) /\ f.b = Changed(i.b, InFile)
    BY DEF InFileTable
  <2>3. /\ DOMAIN f.a = DOMAIN i.a
        /\ \A k \in DOMAIN i.a : f.a[k] = InFile(i.a[k]) /\ f.b[k] = InFile(i.b[k])
    BY <1>2, <2>2 DEF Changed
  <2> HIDE DEF f
  <2> DEFINE cell(k) == <<InFile(i.a[k]), InFile(i.b[k])>> \o last(i.x[k])
  <2>4. \A k \in DOMAIN i.a : cell(k) = TableRow(f, k)
    <3>1. \A k \in DOMAIN f.a :
            <<f.a[k], f.b[k]>> \o (IF f.x = <<>> THEN <<>> ELSE <<f.x[k]>>) = TableRow(f, k)
      BY <1>1, <2>1, RowsWritten
    <3> QED
      BY <2>1, <2>3, <3>1
  <2>5. Head(rows) = TableKeys(i.x)
    <3>1. RowsOfFullTable(i, TableRows(i))
      BY <1>1, FullTableRows
    <3>2. Head(TableRows(i)) = TableRows(i)[1]
      OBVIOUS
    <3> QED
      BY <1>5, <3>1, <3>2 DEF RowsOfFullTable
  <2> HIDE DEF rows
  <2>6. file = <<TableKeys(i.x)>> \o [k \in DOMAIN i.a |-> cell(k)]
    BY <2>5
  <2> HIDE DEF cell
  <2>7. [k \in DOMAIN i.a |-> cell(k)] = [k \in DOMAIN f.a |-> TableRow(f, k)]
    BY <2>3, <2>4
  <2> QED
    BY <2>1, <2>6, <2>7 DEF TableRows
<1>8. ASSUME NEW t, IsFullTable(t)
      PROVE  /\ DataOf(TableRows(t), ConvertRowsToData(TableRows(t)))
             /\ DataOf(TableRows(t), ConvertXsvToData(TableRows(t)))
  <2>1. AreTableRows(TableRows(t), TableCells)
    BY <1>1, <1>8, FullTableRows DEF RowsOfFullTable
  <2> QED
    BY <2>1, RowsConverted, FileConverted
<1>9. /\ made(Columns(i)) = made(ConvertRowsToData(TableRows(i)))
      /\ Len(made(Columns(i)).targets) = 2
  BY <1>1, <1>8, FullTableAgrees DEF Converted
<1>10. made(Columns(f)) = made(ConvertXsvToData(TableRows(f)))
  <2>1. IsFullTable(f) /\ f.x = i.x
    BY <1>1, TablesChanged DEF InFileTable
  <2> HIDE DEF f
  <2> QED
    BY <1>1, <1>8, <2>1, FullTableAgrees DEF Converted
<1>11. made(Columns(f)) = made(Columns(ZerosTable(i)))
  BY <1>1, FileAgrees DEF Converted
<1>12. ZerosTable(i) = [a |-> zeros(i.a), b |-> zeros(i.b), x |-> i.x]
  BY DEF ZerosTable, Changed
<1> HIDE DEF rows, json, file, made, zeros, f
<1>13. /\ Len(made(Columns(i)).targets) = 2
       /\ made(Columns(i)) = made(ConvertRowsToData(rows))
       /\ made(Columns(i)) = made(json)
       /\ made(Columns([a |-> zeros(i.a), b |-> zeros(i.b), x |-> i.x]))
             = made(ConvertXsvToData(file))
  BY <1>5, <1>6, <1>7, <1>9, <1>10, <1>11, <1>12
<1> QED
  BY <1>13, Zenon DEF ConversionsAgree, made, rows, json, file, zeros, chart, x, i

-----------------------------------------------------------------------------
(***************************************************************************)
(* Sums of functions.                                                      *)
(***************************************************************************)
Some(s) == CHOOSE x \in s : TRUE

IsSetSum(it, f, S) ==
  it = [s \in SUBSET S |-> IF s = {} THEN 0 ELSE f[Some(s)] + it[s \ {Some(s)}]]

\* A sum over a set is what the function that is chosen gives for the whole set.
LEMMA SetSumUnfolds ==
  ASSUME NEW f
  PROVE  SumFunction(f) = (CHOOSE it : IsSetSum(it, f, DOMAIN f))[DOMAIN f]
BY DEF SumFunction, SumFunctionOnSet, FoldFunctionOnSet, MapThenFoldSet, IsSetSum, Some

\* Sets of up to k elements.
UpTo(S, k) == {s \in SUBSET S : IsFiniteSet(s) /\ Cardinality(s) <= k}

SumsUpTo(it, f, S, k) ==
  /\ it \in [UpTo(S, k) -> Int]
  /\ \A s \in UpTo(S, k) : it[s] = IF s = {} THEN 0 ELSE f[Some(s)] + it[s \ {Some(s)}]

\* Without the element that is taken, a set has one element less.
LEMMA SmallerSet ==
  ASSUME NEW S, NEW k \in Nat, NEW s \in UpTo(S, k + 1), s # {}
  PROVE  Some(s) \in s /\ s \ {Some(s)} \in UpTo(S, k)
<1>1. Some(s) \in s
  BY DEF Some
<1>2. IsFiniteSet(s) /\ Cardinality(s) <= k + 1 /\ s \in SUBSET S
  BY DEF UpTo
<1>3. /\ IsFiniteSet(s \ {Some(s)}) /\ Cardinality(s \ {Some(s)}) = Cardinality(s) - 1
      /\ Cardinality(s) \in Nat
  BY <1>1, <1>2, FS_RemoveElement, FS_CardinalityType
<1>4. Cardinality(s \ {Some(s)}) <= k
  BY <1>2, <1>3
<1> QED
  BY <1>1, <1>2, <1>3, <1>4 DEF UpTo

\* There is a function that sums over every part of a finite set.
LEMMA SumsExist ==
  ASSUME NEW S, IsFiniteSet(S), NEW f \in [S -> Int]
  PROVE  \E it \in [SUBSET S -> Int] : IsSetSum(it, f, S)
<1> DEFINE n == Cardinality(S)
           K == {k \in 0 .. n : \E it : SumsUpTo(it, f, S, k)}
<1>1. n \in Nat
  BY FS_CardinalityType
<1> HIDE DEF n
<1>2. 0 \in K
  <2> DEFINE it == [s \in UpTo(S, 0) |-> 0]
  <2>1. \A s \in UpTo(S, 0) : s = {}
    <3> TAKE s \in UpTo(S, 0)
    <3>1. IsFiniteSet(s) /\ Cardinality(s) <= 0
      BY DEF UpTo
    <3>2. Cardinality(s) = 0
      BY <3>1, FS_CardinalityType
    <3> QED
      BY <3>1, <3>2, FS_EmptySet
  <2>2. SumsUpTo(it, f, S, 0)
    BY <2>1 DEF SumsUpTo
  <2> HIDE DEF it
  <2>3. 0 \in 0 .. n
    BY <1>1
  <2> QED
    BY <2>2, <2>3
<1>3. \A k \in 0 .. n - 1 : k \in K => k + 1 \in K
  <2> SUFFICES ASSUME NEW k \in 0 .. n - 1, k \in K PROVE k + 1 \in K
    OBVIOUS
  <2>1. PICK it : SumsUpTo(it, f, S, k)
    OBVIOUS
  <2>2. k \in Nat /\ k + 1 \in 0 .. n
    BY <1>1
  <2> DEFINE next(s) == IF s = {} THEN 0 ELSE f[Some(s)] + it[s \ {Some(s)}]
             new == [s \in UpTo(S, k + 1) |-> next(s)]
  <2> HIDE DEF K
  <2>3. /\ it \in [UpTo(S, k) -> Int]
        /\ \A s \in UpTo(S, k) : it[s] = next(s)
    BY <2>1 DEF SumsUpTo
  <2>4. UpTo(S, k) \subseteq UpTo(S, k + 1)
    <3> SUFFICES ASSUME NEW s \in UpTo(S, k) PROVE s \in UpTo(S, k + 1)
      OBVIOUS
    <3>1. s \in SUBSET S /\ IsFiniteSet(s) /\ Cardinality(s) <= k /\ Cardinality(s) \in Nat
      BY FS_CardinalityType DEF UpTo
    <3>2. Cardinality(s) <= k + 1
      BY <2>2, <3>1
    <3> QED
      BY <3>1, <3>2 DEF UpTo
  <2>5. ASSUME NEW s \in UpTo(S, k + 1), s # {}
        PROVE  /\ s \ {Some(s)} \in UpTo(S, k) /\ f[Some(s)] \in Int
               /\ new[s \ {Some(s)}] = it[s \ {Some(s)}] /\ it[s \ {Some(s)}] \in Int
    <3>1. Some(s) \in s /\ s \ {Some(s)} \in UpTo(S, k)
      BY <2>2, <2>5, SmallerSet
    <3>2. f[Some(s)] \in Int
      BY <3>1 DEF UpTo
    <3>3. new[s \ {Some(s)}] = it[s \ {Some(s)}]
      <4> HIDE DEF next
      <4> QED
        BY <2>3, <2>4, <3>1
    <3>4. it[s \ {Some(s)}] \in Int
      BY <2>3, <3>1
    <3> QED
      BY <3>1, <3>2, <3>3, <3>4
  <2>6. \A s \in UpTo(S, k + 1) : next(s) \in Int
    <3> TAKE s \in UpTo(S, k + 1)
    <3>1. CASE s = {}
      BY <3>1
    <3>2. CASE s # {}
      <4>1. f[Some(s)] \in Int /\ it[s \ {Some(s)}] \in Int
        BY <2>5, <3>2
      <4>2. next(s) = f[Some(s)] + it[s \ {Some(s)}]
        BY <3>2
      <4> QED
        BY <4>1, <4>2
    <3> QED
      BY <3>1, <3>2
  <2>7. new \in [UpTo(S, k + 1) -> Int]
    <3> HIDE DEF next
    <3> QED
      BY <2>6
  <2>8. \A s \in UpTo(S, k + 1) :
          new[s] = IF s = {} THEN 0 ELSE f[Some(s)] + new[s \ {Some(s)}]
    <3> TAKE s \in UpTo(S, k + 1)
    <3>1. new[s] = next(s)
      OBVIOUS
    <3> HIDE DEF new
    <3> QED
      BY <2>5, <3>1
  <2> HIDE DEF new
  <2>9. SumsUpTo(new, f, S, k + 1)
    BY <2>7, <2>8 DEF SumsUpTo
  <2> QED
    BY <2>2, <2>9 DEF K
<1>4. n \in K
  <2> HIDE DEF K
  <2>1. 0 .. n \subseteq K
    BY <1>1, <1>2, <1>3, InductionTo
  <2> QED
    BY <1>1, <2>1
<1>5. PICK it : SumsUpTo(it, f, S, n)
  BY <1>4
<1>6. UpTo(S, n) = SUBSET S
  BY FS_Subset DEF UpTo, n
<1>7. /\ it \in [SUBSET S -> Int]
      /\ \A s \in SUBSET S : it[s] = IF s = {} THEN 0 ELSE f[Some(s)] + it[s \ {Some(s)}]
  BY <1>5, <1>6 DEF SumsUpTo
<1>8. it = [s \in SUBSET S |-> it[s]]
  BY <1>7
<1>9. IsSetSum(it, f, S)
  BY <1>7, <1>8 DEF IsSetSum
<1> QED
  BY <1>7, <1>9

\* The order in which a set is summed does not matter.
AnyOrder(it, f, S) ==
  it[{}] = 0 /\ \A s \in SUBSET S : \A x \in s : it[s] = f[x] + it[s \ {x}]

\* It does not matter which element is taken first.
LEMMA SumAnyOrder ==
  ASSUME NEW S, IsFiniteSet(S), NEW f \in [S -> Int],
         NEW it \in [SUBSET S -> Int], IsSetSum(it, f, S)
  PROVE  AnyOrder(it, f, S)
<1> DEFINE n == Cardinality(S)
           K == {k \in 0 .. n : \A s \in UpTo(S, k) : \A x \in s : it[s] = f[x] + it[s \ {x}]}
<1>1. n \in Nat
  BY FS_CardinalityType
<1> HIDE DEF n
<1>2. it[{}] = 0 /\ \A s \in SUBSET S : s # {} => it[s] = f[Some(s)] + it[s \ {Some(s)}]
  BY DEF IsSetSum
<1>3. 0 \in K
  <2>1. \A s \in UpTo(S, 0) : s = {}
    <3> TAKE s \in UpTo(S, 0)
    <3>1. IsFiniteSet(s) /\ Cardinality(s) <= 0
      BY DEF UpTo
    <3>2. Cardinality(s) = 0
      BY <3>1, FS_CardinalityType
    <3> QED
      BY <3>1, <3>2, FS_EmptySet
  <2>2. 0 \in 0 .. n
    BY <1>1
  <2> QED
    BY <2>1, <2>2
<1>4. \A k \in 0 .. n - 1 : k \in K => k + 1 \in K
  <2> SUFFICES ASSUME NEW k \in 0 .. n - 1, k \in K,
                      NEW s \in UpTo(S, k + 1), NEW x \in s
               PROVE  it[s] = f[x] + it[s \ {x}]
    <3>1. \A k \in 0 .. n - 1 : k + 1 \in 0 .. n
      BY <1>1
    <3> QED
      BY <3>1
  <2>1. k \in Nat /\ \A t \in UpTo(S, k) : \A y \in t : it[t] = f[y] + it[t \ {y}]
    <3>1. k \in Nat
      BY <1>1
    <3>2. \A t \in UpTo(S, k) : \A y \in t : it[t] = f[y] + it[t \ {y}]
      BY k \in K, Zenon
    <3> QED
      BY <3>1, <3>2
  <2> HIDE DEF K
  <2> DEFINE y == Some(s)
             both == (s \ {x}) \ {y}
  <2>2. y \in s /\ s \ {y} \in UpTo(S, k) /\ s \in SUBSET S
    BY <2>1, SmallerSet DEF UpTo
  <2>3. s \ {x} \in UpTo(S, k)
    <3>1. IsFiniteSet(s) /\ Cardinality(s) <= k + 1
      BY DEF UpTo
    <3>2. /\ IsFiniteSet(s \ {x}) /\ Cardinality(s \ {x}) = Cardinality(s) - 1
          /\ Cardinality(s) \in Nat
      BY <3>1, FS_RemoveElement, FS_CardinalityType
    <3>3. Cardinality(s \ {x}) <= k
      BY <2>1, <3>1, <3>2
    <3> QED
      BY <2>2, <3>2, <3>3 DEF UpTo
  <2>4. it[s] = f[y] + it[s \ {y}]
    <3>1. s # {}
      OBVIOUS
    <3> QED
      BY <1>2, <2>2, <3>1
  <2> HIDE DEF y
  <2>5. CASE x = y
    BY <2>4, <2>5
  <2>6. CASE x # y
    <3>1. x \in s \ {y} /\ y \in s \ {x} /\ (s \ {y}) \ {x} = both
      BY <2>2, <2>6
    <3>2. it[s \ {y}] = f[x] + it[both]
      BY <2>1, <2>2, <3>1
    <3>3. it[s \ {x}] = f[y] + it[both]
      BY <2>1, <2>3, <3>1
    <3>4. f[x] \in Int /\ f[y] \in Int /\ it[both] \in Int
      BY <2>2
    <3> HIDE DEF both
    <3> QED
      BY <2>4, <3>2, <3>3, <3>4
  <2> QED
    BY <2>5, <2>6
<1>5. n \in K
  <2> HIDE DEF K
  <2>1. 0 .. n \subseteq K
    BY <1>1, <1>3, <1>4, InductionTo
  <2> QED
    BY <1>1, <2>1
<1>6. UpTo(S, n) = SUBSET S
  BY FS_Subset DEF UpTo, n
<1>7. \A s \in SUBSET S : \A x \in s : it[s] = f[x] + it[s \ {x}]
  BY <1>6, n \in K, <1>5, Zenon
<1> QED
  BY <1>2, <1>7, Zenon DEF AnyOrder

\* The sum of a function is that of its parts.
LEMMA SumsOfParts ==
  ASSUME NEW S, IsFiniteSet(S), NEW f \in [S -> Int]
  PROVE  \E it \in [SUBSET S -> Int] :
            AnyOrder(it, f, S) /\ SumFunction(f) = it[S]
<1> DEFINE it == CHOOSE i : IsSetSum(i, f, S)
<1>1. PICK sum \in [SUBSET S -> Int] : IsSetSum(sum, f, S)
  BY SumsExist
<1>2. IsSetSum(it, f, S)
  BY <1>1
<1>3. SumFunction(f) = it[S]
  <2>1. DOMAIN f = S
    OBVIOUS
  <2> QED
    BY <2>1, SetSumUnfolds
<1> HIDE DEF it
<1>4. it \in [SUBSET S -> Int]
  <2>1. /\ sum[{}] = 0
        /\ \A s \in SUBSET S : s # {} => sum[s] = f[Some(s)] + sum[s \ {Some(s)}]
    BY <1>1 DEF IsSetSum
  <2>2. /\ it[{}] = 0
        /\ \A s \in SUBSET S : s # {} => it[s] = f[Some(s)] + it[s \ {Some(s)}]
        /\ it = [s \in SUBSET S |-> it[s]]
    BY <1>2 DEF IsSetSum
  <2> DEFINE n == Cardinality(S)
             K == {k \in 0 .. n : \A s \in UpTo(S, k) : it[s] = sum[s]}
  <2>3. n \in Nat
    BY FS_CardinalityType
  <2> HIDE DEF n
  <2>4. 0 \in K
    <3>1. \A s \in UpTo(S, 0) : s = {}
      <4> TAKE s \in UpTo(S, 0)
      <4>1. IsFiniteSet(s) /\ Cardinality(s) <= 0
        BY DEF UpTo
      <4>2. Cardinality(s) = 0
        BY <4>1, FS_CardinalityType
      <4> QED
        BY <4>1, <4>2, FS_EmptySet
    <3>2. 0 \in 0 .. n
      BY <2>3
    <3> QED
      BY <2>1, <2>2, <3>1, <3>2
  <2>5. \A k \in 0 .. n - 1 : k \in K => k + 1 \in K
    <3> SUFFICES ASSUME NEW k \in 0 .. n - 1, k \in K, NEW s \in UpTo(S, k + 1), s # {}
                 PROVE  it[s] = sum[s]
      <4>1. \A k \in 0 .. n - 1 : k + 1 \in 0 .. n
        BY <2>3
      <4> QED
        BY <2>1, <2>2, <4>1
    <3>1. k \in Nat /\ \A t \in UpTo(S, k) : it[t] = sum[t]
      BY <2>3
    <3>2. Some(s) \in s /\ s \ {Some(s)} \in UpTo(S, k) /\ s \in SUBSET S
      BY <3>1, SmallerSet DEF UpTo
    <3> HIDE DEF K
    <3> QED
      BY <2>1, <2>2, <3>1, <3>2
  <2>6. n \in K
    <3> HIDE DEF K
    <3>1. 0 .. n \subseteq K
      BY <2>3, <2>4, <2>5, InductionTo
    <3> QED
      BY <2>3, <3>1
  <2>7. UpTo(S, n) = SUBSET S
    BY FS_Subset DEF UpTo, n
  <2>8. \A s \in SUBSET S : it[s] \in Int
    BY <2>6, <2>7
  <2> QED
    BY <2>2, <2>8
<1>5. AnyOrder(it, f, S)
  BY <1>2, <1>4, SumAnyOrder
<1> QED
  BY <1>3, <1>4, <1>5

\* A sum of numbers is a number.
LEMMA SumTyped ==
  ASSUME NEW S, IsFiniteSet(S), NEW f \in [S -> Int]
  PROVE  SumFunction(f) \in Int
<1>1. PICK it \in [SUBSET S -> Int] : AnyOrder(it, f, S) /\ SumFunction(f) = it[S]
  BY SumsOfParts
<1>2. S \in SUBSET S
  OBVIOUS
<1> QED
  BY <1>1, <1>2

\* A sum is that without one, and the one.
LEMMA SumWith ==
  ASSUME NEW S, IsFiniteSet(S), NEW f \in [S -> Int], NEW x \in S
  PROVE  SumFunction(f) = f[x] + SumFunction([y \in S \ {x} |-> f[y]])
<1> DEFINE others == S \ {x}
           g == [y \in others |-> f[y]]
<1>1. PICK it \in [SUBSET S -> Int] : AnyOrder(it, f, S) /\ SumFunction(f) = it[S]
  BY SumsOfParts
<1>2. IsFiniteSet(others)
  BY FS_RemoveElement
<1>3. g \in [others -> Int] /\ \A y \in others : g[y] = f[y]
  OBVIOUS
<1> HIDE DEF others, g
<1>4. PICK jt \in [SUBSET others -> Int] : AnyOrder(jt, g, others) /\ SumFunction(g) = jt[others]
  BY <1>2, <1>3, SumsOfParts
<1> DEFINE Good == {U \in SUBSET others : jt[U] = it[U]}
<1>5. {} \in Good
  <2>1. it[{}] = 0
    BY <1>1, Zenon DEF AnyOrder
  <2>2. jt[{}] = 0
    BY <1>4, Zenon DEF AnyOrder
  <2> QED
    BY <2>1, <2>2
<1>6. ASSUME NEW U \in SUBSET others, NEW y \in others, U \in Good, y \notin U
      PROVE  U \cup {y} \in Good
  <2> DEFINE more == U \cup {y}
  <2>1. more \in SUBSET others /\ more \in SUBSET S /\ y \in more /\ more \ {y} = U
    BY <1>6 DEF others
  <2> HIDE DEF more
  <2>2. it[more] = f[y] + it[more \ {y}]
    BY <1>1, <2>1, Zenon DEF AnyOrder
  <2>3. jt[more] = g[y] + jt[more \ {y}]
    BY <1>4, <2>1, Zenon DEF AnyOrder
  <2>4. jt[more] = it[more]
    BY <1>3, <1>6, <2>1, <2>2, <2>3
  <2> QED
    BY <2>1, <2>4 DEF more
<1>7. others \in Good
  <2> HIDE DEF Good
  <2> QED
    BY <1>2, <1>5, <1>6, SetInduction
<1>8. it[S] = f[x] + it[S \ {x}]
  <2>1. S \in SUBSET S
    OBVIOUS
  <2> QED
    BY <1>1, <2>1, Zenon DEF AnyOrder
<1> QED
  BY <1>1, <1>4, <1>7, <1>8 DEF others, g

\* A sum of no smaller numbers, without some that are not above zero, is not less.
LEMMA SumLower ==
  ASSUME NEW S, IsFiniteSet(S), NEW f \in [S -> Int], NEW T \in SUBSET S, NEW g \in [T -> Int],
         \A x \in T : g[x] >= f[x], \A x \in S \ T : f[x] <= 0
  PROVE  SumFunction(g) >= SumFunction(f)
<1>1. IsFiniteSet(T)
  BY FS_Subset
<1>2. PICK it \in [SUBSET S -> Int] : AnyOrder(it, f, S) /\ SumFunction(f) = it[S]
  BY SumsOfParts
<1>3. PICK jt \in [SUBSET T -> Int] : AnyOrder(jt, g, T) /\ SumFunction(g) = jt[T]
  BY <1>1, SumsOfParts
<1> DEFINE Good == {U \in SUBSET S : jt[U \cap T] >= it[U]}
<1>4. {} \in Good
  <2>1. it[{}] = 0
    BY <1>2, Zenon DEF AnyOrder
  <2>2. jt[{}] = 0
    BY <1>3, Zenon DEF AnyOrder
  <2>3. {} \cap T = {}
    OBVIOUS
  <2> QED
    BY <2>1, <2>2, <2>3
<1>5. ASSUME NEW U \in SUBSET S, NEW x \in S, U \in Good, x \notin U
      PROVE  U \cup {x} \in Good
  <2> DEFINE more == U \cup {x}
  <2>1. more \in SUBSET S /\ x \in more /\ more \ {x} = U
    BY <1>5
  <2> HIDE DEF more
  <2>2. it[more] = f[x] + it[U]
    <3>1. it[more] = f[x] + it[more \ {x}]
      BY <1>2, <2>1, Zenon DEF AnyOrder
    <3> QED
      BY <2>1, <3>1
  <2>3. f[x] \in Int /\ it[U] \in Int /\ jt[U \cap T] \in Int /\ jt[U \cap T] >= it[U]
    BY <1>5
  <2>4. CASE x \in T
    <3>1. more \cap T \in SUBSET T /\ x \in more \cap T /\ (more \cap T) \ {x} = U \cap T
      BY <2>1, <2>4
    <3>2. jt[more \cap T] = g[x] + jt[(more \cap T) \ {x}]
      BY <1>3, <3>1, Zenon DEF AnyOrder
    <3>3. jt[more \cap T] = g[x] + jt[U \cap T]
      BY <3>1, <3>2
    <3>4. g[x] \in Int /\ g[x] >= f[x]
      BY <2>4
    <3>5. jt[more \cap T] >= it[more]
      BY <2>2, <2>3, <3>3, <3>4
    <3> QED
      BY <2>1, <3>5 DEF more
  <2>5. CASE x \notin T
    <3>1. more \cap T = U \cap T
      BY <2>1, <2>5
    <3>2. f[x] <= 0
      BY <2>5
    <3>3. jt[more \cap T] = jt[U \cap T]
      BY <3>1
    <3>4. jt[more \cap T] >= it[more]
      BY <2>2, <2>3, <3>2, <3>3
    <3> QED
      BY <2>1, <3>4 DEF more
  <2> QED
    BY <2>4, <2>5
<1>6. S \in Good
  <2> HIDE DEF Good
  <2> QED
    BY <1>4, <1>5, SetInduction
<1>7. S \cap T = T
  OBVIOUS
<1> QED
  BY <1>2, <1>3, <1>6, <1>7

\* A sum of no greater numbers, without some that are not below zero, is not more.
LEMMA SumUpper ==
  ASSUME NEW S, IsFiniteSet(S), NEW f \in [S -> Int], NEW T \in SUBSET S, NEW g \in [T -> Int],
         \A x \in T : g[x] <= f[x], \A x \in S \ T : f[x] >= 0
  PROVE  SumFunction(g) <= SumFunction(f)
<1>1. IsFiniteSet(T)
  BY FS_Subset
<1>2. PICK it \in [SUBSET S -> Int] : AnyOrder(it, f, S) /\ SumFunction(f) = it[S]
  BY SumsOfParts
<1>3. PICK jt \in [SUBSET T -> Int] : AnyOrder(jt, g, T) /\ SumFunction(g) = jt[T]
  BY <1>1, SumsOfParts
<1> DEFINE Good == {U \in SUBSET S : jt[U \cap T] <= it[U]}
<1>4. {} \in Good
  <2>1. it[{}] = 0
    BY <1>2, Zenon DEF AnyOrder
  <2>2. jt[{}] = 0
    BY <1>3, Zenon DEF AnyOrder
  <2>3. {} \cap T = {}
    OBVIOUS
  <2> QED
    BY <2>1, <2>2, <2>3
<1>5. ASSUME NEW U \in SUBSET S, NEW x \in S, U \in Good, x \notin U
      PROVE  U \cup {x} \in Good
  <2> DEFINE more == U \cup {x}
  <2>1. more \in SUBSET S /\ x \in more /\ more \ {x} = U
    BY <1>5
  <2> HIDE DEF more
  <2>2. it[more] = f[x] + it[U]
    <3>1. it[more] = f[x] + it[more \ {x}]
      BY <1>2, <2>1, Zenon DEF AnyOrder
    <3> QED
      BY <2>1, <3>1
  <2>3. f[x] \in Int /\ it[U] \in Int /\ jt[U \cap T] \in Int /\ jt[U \cap T] <= it[U]
    BY <1>5
  <2>4. CASE x \in T
    <3>1. more \cap T \in SUBSET T /\ x \in more \cap T /\ (more \cap T) \ {x} = U \cap T
      BY <2>1, <2>4
    <3>2. jt[more \cap T] = g[x] + jt[(more \cap T) \ {x}]
      BY <1>3, <3>1, Zenon DEF AnyOrder
    <3>3. jt[more \cap T] = g[x] + jt[U \cap T]
      BY <3>1, <3>2
    <3>4. g[x] \in Int /\ g[x] <= f[x]
      BY <2>4
    <3>5. jt[more \cap T] <= it[more]
      BY <2>2, <2>3, <3>3, <3>4
    <3> QED
      BY <2>1, <3>5 DEF more
  <2>5. CASE x \notin T
    <3>1. more \cap T = U \cap T
      BY <2>1, <2>5
    <3>2. f[x] >= 0
      BY <2>5
    <3>3. jt[more \cap T] = jt[U \cap T]
      BY <3>1
    <3>4. jt[more \cap T] <= it[more]
      BY <2>2, <2>3, <3>2, <3>3
    <3> QED
      BY <2>1, <3>4 DEF more
  <2> QED
    BY <2>4, <2>5
<1>6. S \in Good
  <2> HIDE DEF Good
  <2> QED
    BY <1>4, <1>5, SetInduction
<1>7. S \cap T = T
  OBVIOUS
<1> QED
  BY <1>2, <1>3, <1>6, <1>7

-----------------------------------------------------------------------------
(***************************************************************************)
(* The columns of bars.                                                    *)
(***************************************************************************)
Taken(groups, indices, id) ==
  {indices[other] : other \in {o \in DOMAIN indices : Grouped(groups, id, o)}}
NextColumn(indices) == Cardinality({indices[id] : id \in DOMAIN indices})
Placed(groups, indices, t) ==
  [id \in DOMAIN indices \cup {t.id} |->
      IF id # t.id THEN indices[id]
      ELSE IF Taken(groups, indices, id) # {}
           THEN CHOOSE i \in Taken(groups, indices, id) : TRUE
      ELSE NextColumn(indices)]

NoColumns == [id \in {} |-> 0]

ArePlaced(it, ts, groups) ==
  it = [s \in SUBSET DOMAIN ts |->
          IF s = {} THEN NoColumns ELSE Placed(groups, it[s \ {Max(s)}], ts[Max(s)])]

\* The columns of bars are what the function that is chosen gives for all targets.
LEMMA IndicesUnfold ==
  ASSUME NEW ts, NEW groups
  PROVE  ShapeIndices(ts, groups) = (CHOOSE it : ArePlaced(it, ts, groups))[DOMAIN ts]
BY DEF ShapeIndices, FoldLeft, MapThenFoldSet, ArePlaced, Placed, Taken, NextColumn, NoColumns

\* No id is in two groups.
OneGroupEach(groups) == \A g, h \in ToSet(groups) : ToSet(g) \cap ToSet(h) # {} => g = h

\* When nothing is in two groups, to be in one group is an equivalence.
LEMMA GroupsApart ==
  ASSUME NEW groups, OneGroupEach(groups), NEW p, NEW q
  PROVE  /\ Grouped(groups, p, q) <=> Grouped(groups, q, p)
         /\ Grouped(groups, p, q) => \A r : Grouped(groups, p, r) <=> Grouped(groups, q, r)
<1>1. Grouped(groups, p, q) <=> Grouped(groups, q, p)
  BY DEF Grouped
<1>2. \A u, v, r : Grouped(groups, u, v) /\ Grouped(groups, u, r) => Grouped(groups, v, r)
  <2> TAKE u, v, r
  <2> SUFFICES ASSUME Grouped(groups, u, v), Grouped(groups, u, r) PROVE Grouped(groups, v, r)
    OBVIOUS
  <2>1. PICK g \in ToSet(groups) : u \in ToSet(g) /\ v \in ToSet(g)
    BY DEF Grouped
  <2>2. PICK h \in ToSet(groups) : u \in ToSet(h) /\ r \in ToSet(h)
    BY DEF Grouped
  <2>3. g = h
    BY <2>1, <2>2 DEF OneGroupEach
  <2> QED
    BY <2>1, <2>2, <2>3 DEF Grouped
<1> QED
  BY <1>1, <1>2

\* Ids share a column if and only if they share a group, and no column is empty.
InColumns(c, ids, groups) ==
  \E m \in Nat :
    /\ DOMAIN c = ids /\ c = [id \in ids |-> c[id]]
    /\ {c[id] : id \in ids} = 0 .. m - 1
    /\ \A p, q \in ids : c[p] = c[q] <=> p = q \/ Grouped(groups, p, q)

\* A target is placed in the column of its group, or in one of its own.
LEMMA PlacedInColumn ==
  ASSUME NEW groups, OneGroupEach(groups), NEW c, NEW ids, InColumns(c, ids, groups),
         NEW t, t.id \notin ids
  PROVE  InColumns(Placed(groups, c, t), ids \cup {t.id}, groups)
<1> DEFINE x == t.id
           taken == Taken(groups, c, x)
           new == Placed(groups, c, t)
           column == IF taken # {} THEN CHOOSE i \in taken : TRUE ELSE NextColumn(c)
           all == ids \cup {x}
<1>1. PICK m \in Nat : /\ DOMAIN c = ids /\ c = [id \in ids |-> c[id]]
                       /\ {c[id] : id \in ids} = 0 .. m - 1
                       /\ \A p, q \in ids : c[p] = c[q] <=> p = q \/ Grouped(groups, p, q)
  BY DEF InColumns
<1>2. taken = {c[o] : o \in {o \in ids : Grouped(groups, x, o)}}
  BY <1>1 DEF Taken
<1>3. NextColumn(c) = m
  <2>1. NextColumn(c) = Cardinality(0 .. m - 1)
    BY <1>1 DEF NextColumn
  <2>2. Cardinality(0 .. m - 1) = IF 0 > m - 1 THEN 0 ELSE (m - 1) - 0 + 1
    <3>1. 0 \in Int /\ m - 1 \in Int
      OBVIOUS
    <3> QED
      BY <3>1, FS_Interval
  <2> QED
    BY <2>1, <2>2
<1>4. new = [id \in all |-> IF id # x THEN c[id] ELSE column]
  <2> DEFINE own(id) == IF Taken(groups, c, id) # {} THEN CHOOSE i \in Taken(groups, c, id) : TRUE
                        ELSE NextColumn(c)
  <2>1. new = [id \in all |-> IF id # x THEN c[id] ELSE own(id)]
    BY <1>1 DEF Placed
  <2>2. own(x) = column
    OBVIOUS
  <2> HIDE DEF own, column, new
  <2> QED
    BY <2>1, <2>2
<1> HIDE DEF new, taken, column, x
<1>5. new[x] = column /\ \A id \in ids : new[id] = c[id]
  <2>1. x \notin ids
    BY DEF x
  <2> QED
    BY <1>4, <2>1
<1>6. DOMAIN new = all /\ new = [id \in all |-> new[id]]
  BY <1>4
<1>7. {new[id] : id \in all} = {c[id] : id \in ids} \cup {column}
  BY <1>5
<1>8. CASE taken # {}
  <2>1. column \in taken
    BY <1>8 DEF column
  <2>2. PICK o \in ids : Grouped(groups, x, o) /\ column = c[o]
    BY <1>2, <2>1
  <2>3. {new[id] : id \in all} = 0 .. m - 1
    <3> DEFINE image == {c[id] : id \in ids}
    <3>1. column \in image
      BY <2>2
    <3> HIDE DEF image
    <3>2. image \cup {column} = image
      BY <3>1
    <3> QED
      BY <1>1, <1>7, <3>2 DEF image
  <2>4. ASSUME NEW p \in ids PROVE new[x] = new[p] <=> Grouped(groups, x, p)
    <3>1. c[o] = c[p] <=> o = p \/ Grouped(groups, o, p)
      BY <1>1
    <3>2. Grouped(groups, x, p) <=> Grouped(groups, o, p)
      BY <2>2, GroupsApart
    <3> QED
      BY <1>5, <2>2, <3>1, <3>2
  <2>5. \A p, q \in all : new[p] = new[q] <=> p = q \/ Grouped(groups, p, q)
    <3> TAKE p, q \in all
    <3>1. CASE p \in ids /\ q \in ids
      BY <1>1, <1>5, <3>1
    <3>2. CASE p = x /\ q \in ids
      BY <2>4, <3>2 DEF x
    <3>3. CASE p \in ids /\ q = x
      BY <2>4, <3>3, GroupsApart DEF x
    <3>4. CASE p = x /\ q = x
      BY <3>4
    <3> QED
      BY <3>1, <3>2, <3>3, <3>4
  <2> QED
    BY <1>6, <2>3, <2>5 DEF InColumns, x, new
<1>9. CASE taken = {}
  <2>1. column = m
    BY <1>3, <1>9 DEF column
  <2>2. \A o \in ids : ~ Grouped(groups, x, o)
    BY <1>2, <1>9
  <2>3. {new[id] : id \in all} = 0 .. (m + 1) - 1 /\ m + 1 \in Nat
    <3>1. (0 .. m - 1) \cup {m} = 0 .. (m + 1) - 1
      OBVIOUS
    <3> QED
      BY <1>1, <1>7, <2>1, <3>1
  <2>4. \A p \in ids : c[p] # m
    <3>1. m \notin 0 .. m - 1
      OBVIOUS
    <3> QED
      BY <1>1, <3>1
  <2>5. \A p, q \in all : new[p] = new[q] <=> p = q \/ Grouped(groups, p, q)
    <3> TAKE p, q \in all
    <3>1. CASE p \in ids /\ q \in ids
      BY <1>1, <1>5, <3>1
    <3>2. CASE p = x /\ q \in ids
      BY <1>5, <2>1, <2>2, <2>4, <3>2 DEF x
    <3>3. CASE p \in ids /\ q = x
      BY <1>5, <2>1, <2>2, <2>4, <3>3, GroupsApart DEF x
    <3>4. CASE p = x /\ q = x
      BY <3>4
    <3> QED
      BY <3>1, <3>2, <3>3, <3>4
  <2> QED
    BY <1>6, <2>3, <2>5 DEF InColumns, x, new
<1> QED
  BY <1>8, <1>9

\* Columns of finitely many ids.
SomeColumns == UNION {[D -> Nat] : D \in {E \in SUBSET Strings : IsFiniteSet(E)}}

\* Placing a target keeps the columns typed.
LEMMA PlacedTyped ==
  ASSUME NEW groups, NEW c \in SomeColumns, NEW t, t.id \in Strings
  PROVE  Placed(groups, c, t) \in SomeColumns
<1> DEFINE new == Placed(groups, c, t)
           x == t.id
<1>1. PICK D \in SUBSET Strings : IsFiniteSet(D) /\ c \in [D -> Nat]
  BY DEF SomeColumns
<1>2. IsFiniteSet(D \cup {x}) /\ D \cup {x} \in SUBSET Strings
  BY <1>1, FS_AddElement
<1>3. NextColumn(c) \in Nat
  <2>1. IsFiniteSet({c[id] : id \in D})
    BY <1>1, ImageFinite
  <2>2. DOMAIN c = D
    BY <1>1
  <2> QED
    BY <2>1, <2>2, FS_CardinalityType DEF NextColumn
<1>4. Taken(groups, c, x) \subseteq Nat
  BY <1>1 DEF Taken
<1>5. new = [id \in D \cup {x} |->
               IF id # x THEN c[id]
               ELSE IF Taken(groups, c, id) # {} THEN CHOOSE i \in Taken(groups, c, id) : TRUE
               ELSE NextColumn(c)]
  BY <1>1 DEF Placed
<1> HIDE DEF new
<1>6. new \in [D \cup {x} -> Nat]
  BY <1>1, <1>3, <1>4, <1>5
<1> QED
  BY <1>2, <1>6 DEF SomeColumns, new

\* The columns after the first k targets, one after the other.
LEMMA PlacedInTurn ==
  ASSUME NEW ts \in Seq(Targets), NEW groups
  PROVE  \E g : /\ g[0] = NoColumns /\ ShapeIndices(ts, groups) = g[Len(ts)]
                /\ \A k \in 1 .. Len(ts) : g[k] = Placed(groups, g[k - 1], ts[k])
<1> DEFINE n == Len(ts)
           step == [k \in 1 .. n |-> [c \in SomeColumns |-> Placed(groups, c, ts[k])]]
<1>1. n \in Nat /\ DOMAIN ts = 1 .. n /\ \A k \in 1 .. n : ts[k] \in Targets /\ ts[k].id \in Strings
  <2>1. n \in Nat /\ DOMAIN ts = 1 .. n /\ \A k \in 1 .. n : ts[k] \in Targets
    OBVIOUS
  <2> QED
    BY <2>1 DEF Targets
<1> HIDE DEF n
<1>2. step \in [1 .. n -> [SomeColumns -> SomeColumns]]
  <2>1. \A k \in 1 .. n : \A c \in SomeColumns : Placed(groups, c, ts[k]) \in SomeColumns
    BY <1>1, PlacedTyped
  <2> QED
    BY <2>1
<1>3. NoColumns \in SomeColumns
  <2>1. NoColumns \in [{} -> Nat] /\ {} \in SUBSET Strings /\ IsFiniteSet({})
    BY FS_EmptySet DEF NoColumns
  <2> QED
    BY <2>1 DEF SomeColumns
<1>4. PICK it \in [SUBSET (1 .. n) -> SomeColumns] : Folds(it, n, NoColumns, step)
  <2> HIDE DEF step
  <2> QED
    BY <1>1, <1>2, <1>3, FoldExists
<1>5. ArePlaced(it, ts, groups)
  <2>1. ASSUME NEW s \in SUBSET (1 .. n), s # {}
        PROVE  it[s] = Placed(groups, it[s \ {Max(s)}], ts[Max(s)])
    <3>1. Max(s) \in 1 .. n
      BY <1>1, <2>1, MaxInSet
    <3>2. it[s \ {Max(s)}] \in SomeColumns
      BY <1>4
    <3>3. it[s] = step[Max(s)][it[s \ {Max(s)}]]
      BY <1>4, <2>1, Zenon DEF Folds
    <3> QED
      BY <3>1, <3>2, <3>3
  <2>2. it[{}] = NoColumns
    BY <1>4 DEF Folds
  <2>3. it = [s \in SUBSET (1 .. n) |-> it[s]]
    BY <1>4
  <2> QED
    BY <1>1, <2>1, <2>2, <2>3 DEF ArePlaced
<1> DEFINE all == CHOOSE i : ArePlaced(i, ts, groups)
<1>6. ArePlaced(all, ts, groups)
  BY <1>5
<1> HIDE DEF all, step
<1>7. /\ all[{}] = NoColumns
      /\ \A s \in SUBSET (1 .. n) : s # {} => all[s] = Placed(groups, all[s \ {Max(s)}], ts[Max(s)])
  BY <1>1, <1>6 DEF ArePlaced
<1>8. ASSUME NEW k \in 1 .. n
      PROVE  all[1 .. k] = Placed(groups, all[1 .. k - 1], ts[k])
  <2>1. k \in 1 .. k /\ 1 .. k \in SUBSET (1 .. n) /\ \A y \in 1 .. k : y \in Int /\ y <= k
    BY <1>1
  <2>2. Max(1 .. k) = k
    <3>1. Max(1 .. k) \in 1 .. k /\ \A y \in 1 .. k : y <= Max(1 .. k)
      BY <1>1, <2>1, MaxInSet
    <3>2. k <= Max(1 .. k) /\ Max(1 .. k) <= k /\ Max(1 .. k) \in Int
      BY <2>1, <3>1
    <3> QED
      BY <1>1, <3>2
  <2>3. (1 .. k) \ {k} = 1 .. k - 1
    <3>1. \A y : y \in (1 .. k) \ {k} <=> y \in 1 .. k - 1
      BY <1>1
    <3> QED
      BY <3>1
  <2>4. 1 .. k # {}
    BY <2>1
  <2> QED
    BY <1>7, <2>1, <2>2, <2>3, <2>4
<1> DEFINE g == [k \in 0 .. n |-> all[1 .. k]]
<1>9. g[0] = NoColumns
  <2>1. 0 \in 0 .. n /\ 1 .. 0 = {}
    BY <1>1
  <2> QED
    BY <1>7, <2>1
<1>10. \A k \in 1 .. n : g[k] = Placed(groups, g[k - 1], ts[k])
  <2> TAKE k \in 1 .. n
  <2>1. k \in 0 .. n /\ k - 1 \in 0 .. n
    BY <1>1
  <2> QED
    BY <1>8, <2>1
<1>11. ShapeIndices(ts, groups) = g[n]
  <2>1. n \in 0 .. n
    BY <1>1
  <2> QED
    BY <1>1, <2>1, IndicesUnfold DEF all
<1> HIDE DEF g
<1> QED
  BY <1>9, <1>10, <1>11 DEF n

\* Two targets have one column if and only if they are in one group.
LEMMA BarColumns ==
  ASSUME NEW ts \in Seq(Targets), IsInjective(Ids(ts)), NEW groups, OneGroupEach(groups)
  PROVE  InColumns(ShapeIndices(ts, groups), {t.id : t \in ToSet(ts)}, groups)
<1> DEFINE n == Len(ts)
           upTo(k) == {ts[j].id : j \in 1 .. k}
<1>1. n \in Nat /\ DOMAIN ts = 1 .. n
  OBVIOUS
<1>2. \A j, k \in 1 .. n : ts[j].id = ts[k].id => j = k
  BY <1>1 DEF IsInjective, Ids
<1>3. PICK g : /\ g[0] = NoColumns /\ ShapeIndices(ts, groups) = g[n]
               /\ \A k \in 1 .. n : g[k] = Placed(groups, g[k - 1], ts[k])
  BY PlacedInTurn
<1> HIDE DEF n
<1> DEFINE K == {k \in 0 .. n : InColumns(g[k], upTo(k), groups)}
<1>4. 0 \in K
  <2>1. upTo(0) = {} /\ 0 \in 0 .. n /\ 0 .. 0 - 1 = {}
    BY <1>1
  <2>2. InColumns(NoColumns, {}, groups)
    <3>1. /\ DOMAIN NoColumns = {} /\ NoColumns = [id \in {} |-> NoColumns[id]]
          /\ {NoColumns[id] : id \in {}} = 0 .. 0 - 1 /\ 0 \in Nat
      BY <2>1 DEF NoColumns
    <3> HIDE DEF NoColumns
    <3> QED
      BY <3>1 DEF InColumns
  <2> QED
    BY <1>3, <2>1, <2>2
<1>5. \A k \in 0 .. n - 1 : k \in K => k + 1 \in K
  <2> SUFFICES ASSUME NEW k \in 0 .. n - 1, k \in K PROVE k + 1 \in K
    OBVIOUS
  <2>1. k + 1 \in 1 .. n /\ k + 1 \in 0 .. n /\ (k + 1) - 1 = k /\ \A j \in 1 .. k : j \in 1 .. n /\ j # k + 1
    BY <1>1
  <2>2. ts[k + 1].id \notin upTo(k)
    BY <1>2, <2>1
  <2>3. upTo(k + 1) = upTo(k) \cup {ts[k + 1].id}
    <3>1. 1 .. k + 1 = (1 .. k) \cup {k + 1}
      BY <1>1
    <3> QED
      BY <3>1
  <2>4. InColumns(g[k], upTo(k), groups)
    OBVIOUS
  <2> HIDE DEF upTo
  <2>5. InColumns(Placed(groups, g[k], ts[k + 1]), upTo(k) \cup {ts[k + 1].id}, groups)
    BY <2>2, <2>4, PlacedInColumn
  <2>6. g[k + 1] = Placed(groups, g[k], ts[k + 1])
    BY <1>3, <2>1
  <2> QED
    BY <2>1, <2>3, <2>5, <2>6
<1>6. n \in K
  <2> HIDE DEF K
  <2>1. 0 .. n \subseteq K
    BY <1>1, <1>4, <1>5, InductionTo
  <2> QED
    BY <1>1, <2>1
<1>7. upTo(n) = {t.id : t \in ToSet(ts)}
  BY <1>1 DEF ToSet
<1> QED
  BY <1>3, <1>6, <1>7

-----------------------------------------------------------------------------
(***************************************************************************)
(* Bars: what each is stacked on.                                          *)
(***************************************************************************)
\* The targets are all in their order, in whichever order that is.
LEMMA OrderedAll ==
  ASSUME NEW T, NEW seq \in Seq(T), NEW keys \in Seq(Int), Len(seq) = Len(keys)
  PROVE  \A i \in DOMAIN seq : \E k \in DOMAIN seq : Ordered(seq, keys)[k] = seq[i]
<1> DEFINE n == Len(seq)
<1>1. n \in Nat /\ DOMAIN seq = 1 .. n /\ n = Len(keys)
  OBVIOUS
<1> HIDE DEF n
<1> SUFFICES ASSUME NEW i \in 1 .. n PROVE \E k \in 1 .. n : Ordered(seq, keys)[k] = seq[i]
  BY <1>1
<1>2. Place(keys, i) \in 0 .. n - 1
  BY <1>1, Places
<1>3. Place(keys, i) + 1 \in 1 .. n
  BY <1>1, <1>2
<1>4. StableOrder(keys)[Place(keys, i) + 1] = i
  BY <1>1, InStableOrder
<1>5. \A k \in 1 .. n : Ordered(seq, keys)[k] = seq[StableOrder(keys)[k]]
  BY <1>1, OrderedValues DEF n
<1> QED
  BY <1>3, <1>4, <1>5

\* A total of absolute values is a number.
LEMMA SumAbsTyped ==
  ASSUME NEW t \in Targets
  PROVE  SumAbs(t) \in Int
<1> DEFINE f == [k \in DOMAIN t.values |-> Abs(t.values[k].value)]
           V == [x : Int, value : Int, index : Nat]
           values == t.values
<1>1. values \in Seq(V)
  BY DEF Targets
<1> HIDE DEF values
<1>2. Len(values) \in Nat /\ DOMAIN values = 1 .. Len(values) /\ \A k \in DOMAIN values : values[k] \in V
  BY <1>1, Members
<1>3. IsFiniteSet(DOMAIN values)
  BY <1>2, FS_Interval
<1>4. \A k \in DOMAIN values : Abs(values[k].value) \in Int
  <2> TAKE k \in DOMAIN values
  <2>1. values[k].value \in Int
    BY <1>2
  <2> HIDE DEF values
  <2> QED
    BY <2>1, AbsOf
<1>5. f \in [DOMAIN values -> Int]
  BY <1>4 DEF values
<1> HIDE DEF f
<1>6. SumFunction(f) \in Int
  BY <1>3, <1>5, SumTyped
<1> QED
  BY <1>6 DEF SumAbs, f

\* Where each target is in the order in which they are stacked.
IsTurn(ts, turn) ==
  /\ \A t \in ToSet(ts) : turn[t.id] \in Nat
  /\ \A t, u \in ToSet(ts) : turn[t.id] = turn[u.id] => t.id = u.id

\* However they are ordered, each target has a turn of its own.
LEMMA TurnOfTargets ==
  ASSUME NEW ts \in Seq(Targets), NEW order
  PROVE  IsTurn(ts, [id \in {t.id : t \in ToSet(ts)} |-> IndexOf(OrderTargets(ts, order), id)])
<1> DEFINE n == Len(ts)
           key(i) == CASE order = "asc"  -> - SumAbs(ts[i])
                       [] order = "desc" -> SumAbs(ts[i])
                       [] OTHER -> 0
           keys == [i \in DOMAIN ts |-> key(i)]
           ordered == OrderTargets(ts, order)
           ids == {t.id : t \in ToSet(ts)}
           turn == [id \in ids |-> IndexOf(ordered, id)]
<1>1. n \in Nat /\ DOMAIN ts = 1 .. n /\ \A i \in 1 .. n : ts[i] \in Targets
  OBVIOUS
<1>2. \A i \in 1 .. n : key(i) \in Int
  <2> TAKE i \in 1 .. n
  <2>1. SumAbs(ts[i]) \in Int
    BY <1>1, SumAbsTyped
  <2> QED
    BY <2>1
<1> HIDE DEF key
<1>3. keys \in Seq(Int) /\ Len(keys) = n
  BY <1>1, <1>2
<1>4. ordered = Ordered(ts, keys)
  BY DEF OrderTargets, key
<1> HIDE DEF keys, ordered, n
<1>5. DOMAIN ordered = 1 .. n /\ \A i \in 1 .. n : \E k \in 1 .. n : ordered[k] = ts[i]
  <2>1. Len(ts) = Len(keys)
    BY <1>3 DEF n
  <2>2. \A i \in DOMAIN ts : \E k \in DOMAIN ts : Ordered(ts, keys)[k] = ts[i]
    BY <1>3, <2>1, OrderedAll
  <2>3. DOMAIN Ordered(ts, keys) = DOMAIN ts
    BY DEF Ordered
  <2> QED
    BY <1>1, <1>4, <2>2, <2>3
<1>6. ASSUME NEW t \in ToSet(ts)
      PROVE  IndexOf(ordered, t.id) \in 1 .. n /\ ordered[IndexOf(ordered, t.id)].id = t.id
  <2>1. PICK i \in 1 .. n : t = ts[i]
    BY <1>1 DEF ToSet
  <2>2. PICK k \in 1 .. n : ordered[k] = t
    BY <1>5, <2>1
  <2> QED
    BY <1>5, <2>2 DEF IndexOf
<1>7. \A t \in ToSet(ts) : turn[t.id] = IndexOf(ordered, t.id)
  OBVIOUS
<1> HIDE DEF turn
<1>8. \A t \in ToSet(ts) : turn[t.id] \in Nat
  BY <1>1, <1>6, <1>7
<1>9. \A t, u \in ToSet(ts) : turn[t.id] = turn[u.id] => t.id = u.id
  BY <1>6, <1>7
<1> QED
  BY <1>8, <1>9 DEF IsTurn, turn, ids, ordered

\* A value is of the same sign as another, or zero.
LEMMA SameSign ==
  ASSUME NEW v \in Int, NEW w \in Int
  PROVE  /\ w > 0 => (v * w >= 0 <=> v >= 0)
         /\ w < 0 => (v * w >= 0 <=> v <= 0)
         /\ w = 0 => v * w >= 0
OBVIOUS

-----------------------------------------------------------------------------
(***************************************************************************)
(* The bars of a column at one x: their values v, stacked in turn.         *)
(***************************************************************************)
IsBarColumn(S, v, turn) ==
  /\ IsFiniteSet(S) /\ v \in [S -> Int] /\ turn \in [S -> Int]
  /\ \A x, y \in S : turn[x] = turn[y] => x = y
Under(S, v, turn, x) == {u \in S : turn[u] < turn[x] /\ v[u] * v[x] >= 0}
Upto(S, v, turn, x) == Under(S, v, turn, x) \cup {x}
SumOf(T, v) == SumFunction([u \in T |-> v[u]])
Base(S, v, turn, x) == SumOf(Under(S, v, turn, x), v)
Depth(S, v) == SumFunction([u \in S |-> IF v[u] < 0 THEN v[u] ELSE 0])
Height(S, v) == SumFunction([u \in S |-> IF v[u] > 0 THEN v[u] ELSE 0])

\* What a sum of numbers of one sign is.
LEMMA SumSign ==
  ASSUME NEW S, IsFiniteSet(S), NEW f \in [S -> Int]
  PROVE  /\ (\A x \in S : f[x] >= 0) => SumFunction(f) >= 0
         /\ (\A x \in S : f[x] <= 0) => SumFunction(f) <= 0
<1> DEFINE none == [x \in {} |-> 0]
<1>1. SumFunction(none) = 0
  <2>1. PICK it \in [SUBSET {} -> Int] : AnyOrder(it, none, {}) /\ SumFunction(none) = it[{}]
    <3>1. IsFiniteSet({}) /\ none \in [{} -> Int]
      BY FS_EmptySet
    <3> HIDE DEF none
    <3> QED
      BY <3>1, SumsOfParts
  <2> HIDE DEF none
  <2>2. it[{}] = 0
    BY <2>1, Zenon DEF AnyOrder
  <2> QED
    BY <2>1, <2>2
<1>2. none \in [{} -> Int] /\ {} \in SUBSET S /\ \A x \in {} : none[x] = 0
  OBVIOUS
<1>3. SumFunction(f) \in Int
  BY SumTyped
<1> HIDE DEF none
<1>4. ASSUME \A x \in S : f[x] <= 0 PROVE SumFunction(none) >= SumFunction(f)
  <2>1. \A x \in {} : none[x] >= f[x]
    OBVIOUS
  <2>2. \A x \in S \ {} : f[x] <= 0
    BY <1>4
  <2> QED
    BY <1>2, <2>1, <2>2, SumLower
<1>5. ASSUME \A x \in S : f[x] >= 0 PROVE SumFunction(none) <= SumFunction(f)
  <2>1. \A x \in {} : none[x] <= f[x]
    OBVIOUS
  <2>2. \A x \in S \ {} : f[x] >= 0
    BY <1>5
  <2> QED
    BY <1>2, <2>1, <2>2, SumUpper
<1>6. (\A x \in S : f[x] >= 0) => SumFunction(f) >= 0
  BY <1>1, <1>3, <1>5
<1>7. (\A x \in S : f[x] <= 0) => SumFunction(f) <= 0
  BY <1>1, <1>3, <1>4
<1> QED
  BY <1>6, <1>7

\* A bar with what is under it.
BarStands(S, v, turn, x) ==
  /\ Base(S, v, turn, x) \in Int /\ v[x] \in Int
  /\ Under(S, v, turn, x) \in SUBSET S /\ IsFiniteSet(Under(S, v, turn, x))
  /\ Upto(S, v, turn, x) \in SUBSET S
  /\ SumOf(Upto(S, v, turn, x), v) = Base(S, v, turn, x) + v[x]

\* A bar stands on those of its sign that come before it in its column.
LEMMA BaseAndBar ==
  ASSUME NEW S, NEW v, NEW turn, IsBarColumn(S, v, turn), NEW x \in S
  PROVE  BarStands(S, v, turn, x)
<1> DEFINE under == Under(S, v, turn, x)
           to == Upto(S, v, turn, x)
           f == [u \in under |-> v[u]]
           g == [u \in to |-> v[u]]
<1>1. /\ IsFiniteSet(S) /\ v \in [S -> Int] /\ turn \in [S -> Int] /\ turn[x] \in Int /\ v[x] \in Int
  BY DEF IsBarColumn
<1>2. under \in SUBSET S /\ x \notin under
  BY <1>1 DEF Under
<1>12. to = under \cup {x}
  BY DEF Upto
<1> HIDE DEF under, to
<1>3. IsFiniteSet(under) /\ to \in SUBSET S /\ IsFiniteSet(to) /\ to \ {x} = under /\ x \in to
  BY <1>1, <1>2, <1>12, FS_Subset, FS_AddElement
<1> HIDE DEF to
<1>4. f \in [under -> Int] /\ g \in [to -> Int] /\ g[x] = v[x]
  BY <1>1, <1>2, <1>3
<1>5. [u \in to \ {x} |-> g[u]] = f
  <2>1. \A u \in under : g[u] = v[u]
    BY <1>12
  <2> HIDE DEF g
  <2> QED
    BY <1>3, <2>1
<1>6. Base(S, v, turn, x) = SumFunction(f)
  BY DEF Base, SumOf, under
<1> HIDE DEF f, g
<1>7. SumFunction(f) \in Int
  BY <1>3, <1>4, SumTyped
<1>8. SumFunction(g) = g[x] + SumFunction([u \in to \ {x} |-> g[u]])
  <2>1. ASSUME NEW h \in [to -> Int]
        PROVE  SumFunction(h) = h[x] + SumFunction([u \in to \ {x} |-> h[u]])
    BY <1>3, SumWith
  <2> QED
    BY <1>4, <2>1
<1>9. SumFunction(g) = v[x] + SumFunction(f)
  BY <1>4, <1>5, <1>8
<1>10. SumFunction(g) = Base(S, v, turn, x) + v[x]
  BY <1>1, <1>6, <1>7, <1>9
<1>11. SumOf(to, v) = Base(S, v, turn, x) + v[x]
  BY <1>10 DEF SumOf, g
<1> QED
  BY <1>1, <1>2, <1>3, <1>6, <1>7, <1>11 DEF to, under, BarStands

\* A bar does not leave the height and the depth of its column.
LEMMA BarWithin ==
  ASSUME NEW S, NEW v, NEW turn, IsBarColumn(S, v, turn), NEW x \in S
  PROVE  /\ Depth(S, v) \in Int /\ Height(S, v) \in Int /\ Depth(S, v) <= 0 /\ Height(S, v) >= 0
         /\ Depth(S, v) <= Base(S, v, turn, x) /\ Depth(S, v) <= Base(S, v, turn, x) + v[x]
         /\ Base(S, v, turn, x) <= Height(S, v) /\ Base(S, v, turn, x) + v[x] <= Height(S, v)
<1> DEFINE under == Under(S, v, turn, x)
           to == Upto(S, v, turn, x)
           f == [u \in under |-> v[u]]
           g == [u \in to |-> v[u]]
           low == [u \in S |-> IF v[u] < 0 THEN v[u] ELSE 0]
           high == [u \in S |-> IF v[u] > 0 THEN v[u] ELSE 0]
<1>1. IsFiniteSet(S) /\ v \in [S -> Int]
  BY DEF IsBarColumn
<1>2. \A u \in S : /\ low[u] \in Int /\ high[u] \in Int /\ low[u] <= 0 /\ high[u] >= 0
                   /\ low[u] <= v[u] /\ v[u] <= high[u]
  BY <1>1
<1>3. low \in [S -> Int] /\ high \in [S -> Int]
  BY <1>1
<1>4. /\ under \in SUBSET S /\ to \in SUBSET S /\ f \in [under -> Int] /\ g \in [to -> Int]
      /\ Base(S, v, turn, x) \in Int /\ v[x] \in Int
      /\ SumFunction(g) = Base(S, v, turn, x) + v[x]
  <2>0. BarStands(S, v, turn, x)
    BY BaseAndBar
  <2>1. /\ under \in SUBSET S /\ to \in SUBSET S
        /\ Base(S, v, turn, x) \in Int /\ v[x] \in Int
        /\ SumOf(to, v) = Base(S, v, turn, x) + v[x]
    BY <2>0, Zenon DEF BarStands
  <2> HIDE DEF under, to
  <2>2. f \in [under -> Int] /\ g \in [to -> Int]
    BY <1>1, <2>1
  <2> QED
    BY <2>1, <2>2 DEF SumOf
<1>5. SumFunction(f) = Base(S, v, turn, x)
  BY DEF Base, SumOf
<1>6. (\A u \in under : f[u] = v[u]) /\ \A u \in to : g[u] = v[u]
  OBVIOUS
<1>7. Depth(S, v) = SumFunction(low) /\ Height(S, v) = SumFunction(high)
  BY DEF Depth, Height
<1> HIDE DEF under, to, f, g, low, high
<1>8. SumFunction(low) \in Int /\ SumFunction(high) \in Int
  BY <1>1, <1>3, SumTyped
<1>9. SumFunction(low) <= 0 /\ SumFunction(high) >= 0
  BY <1>1, <1>2, <1>3, SumSign
<1>10. SumFunction(f) >= SumFunction(low)
  <2>1. (\A u \in under : f[u] >= low[u]) /\ \A u \in S \ under : low[u] <= 0
    <3>1. \A u \in under : u \in S /\ f[u] = v[u] /\ f[u] \in Int
      BY <1>4, <1>6
    <3> QED
      BY <1>2, <3>1
  <2> QED
    BY <1>1, <1>3, <1>4, <2>1, SumLower
<1>11. SumFunction(f) <= SumFunction(high)
  <2>1. (\A u \in under : f[u] <= high[u]) /\ \A u \in S \ under : high[u] >= 0
    <3>1. \A u \in under : u \in S /\ f[u] = v[u] /\ f[u] \in Int
      BY <1>4, <1>6
    <3> QED
      BY <1>2, <3>1
  <2> QED
    BY <1>1, <1>3, <1>4, <2>1, SumUpper
<1>12. SumFunction(g) >= SumFunction(low)
  <2>1. (\A u \in to : g[u] >= low[u]) /\ \A u \in S \ to : low[u] <= 0
    <3>1. \A u \in to : u \in S /\ g[u] = v[u] /\ g[u] \in Int
      BY <1>4, <1>6
    <3> QED
      BY <1>2, <3>1
  <2> QED
    BY <1>1, <1>3, <1>4, <2>1, SumLower
<1>13. SumFunction(g) <= SumFunction(high)
  <2>1. (\A u \in to : g[u] <= high[u]) /\ \A u \in S \ to : high[u] >= 0
    <3>1. \A u \in to : u \in S /\ g[u] = v[u] /\ g[u] \in Int
      BY <1>4, <1>6
    <3> QED
      BY <1>2, <3>1
  <2> QED
    BY <1>1, <1>3, <1>4, <2>1, SumUpper
<1> QED
  BY <1>4, <1>5, <1>7, <1>8, <1>9, <1>10, <1>11, <1>12, <1>13

\* A bar stands on its own side of zero.
LEMMA BaseSide ==
  ASSUME NEW S, NEW v, NEW turn, IsBarColumn(S, v, turn), NEW x \in S
  PROVE  /\ v[x] > 0 => Base(S, v, turn, x) >= 0
         /\ v[x] < 0 => Base(S, v, turn, x) <= 0
<1> DEFINE under == Under(S, v, turn, x)
           f == [u \in under |-> v[u]]
<1>1. under \in SUBSET S /\ IsFiniteSet(under) /\ f \in [under -> Int] /\ v[x] \in Int
  <2>0. BarStands(S, v, turn, x)
    BY BaseAndBar
  <2>1. under \in SUBSET S /\ IsFiniteSet(under) /\ v[x] \in Int
    BY <2>0, Zenon DEF BarStands
  <2>2. v \in [S -> Int]
    BY DEF IsBarColumn
  <2> HIDE DEF under
  <2> QED
    BY <2>1, <2>2
<1>2. \A u \in under : f[u] = v[u] /\ v[u] \in Int /\ v[u] * v[x] >= 0
  <2>1. \A u \in under : f[u] = v[u] /\ v[u] * v[x] >= 0
    BY DEF Under
  <2>2. v \in [S -> Int]
    BY DEF IsBarColumn
  <2> HIDE DEF f, under
  <2> QED
    BY <1>1, <2>1, <2>2
<1>3. SumFunction(f) = Base(S, v, turn, x)
  BY DEF Base, SumOf
<1> HIDE DEF f, under
<1>4. v[x] > 0 => \A u \in under : f[u] >= 0
  BY <1>1, <1>2, SameSign
<1>5. v[x] < 0 => \A u \in under : f[u] <= 0
  BY <1>1, <1>2, SameSign
<1> QED
  BY <1>1, <1>3, <1>4, <1>5, SumSign

\* What comes later in a column stands on what came before on its side of zero.
LEMMA BaseLater ==
  ASSUME NEW S, NEW v, NEW turn, IsBarColumn(S, v, turn), NEW x \in S, NEW y \in S,
         turn[x] < turn[y]
  PROVE  /\ v[x] > 0 /\ v[y] > 0 => Base(S, v, turn, x) + v[x] <= Base(S, v, turn, y)
         /\ v[x] < 0 /\ v[y] < 0 => Base(S, v, turn, y) <= Base(S, v, turn, x) + v[x]
<1> DEFINE under == Under(S, v, turn, y)
           to == Upto(S, v, turn, x)
           f == [u \in under |-> v[u]]
           g == [u \in to |-> v[u]]
<1>1. /\ v \in [S -> Int] /\ turn \in [S -> Int] /\ turn[x] \in Int /\ turn[y] \in Int
      /\ v[x] \in Int /\ v[y] \in Int
  BY DEF IsBarColumn
<1>2. /\ to \in SUBSET S /\ g \in [to -> Int]
      /\ SumFunction(g) = Base(S, v, turn, x) + v[x] /\ Base(S, v, turn, x) \in Int
  <2>0. BarStands(S, v, turn, x)
    BY BaseAndBar
  <2>1. /\ to \in SUBSET S /\ Base(S, v, turn, x) \in Int
        /\ SumOf(to, v) = Base(S, v, turn, x) + v[x]
    BY <2>0, Zenon DEF BarStands
  <2> HIDE DEF to
  <2>2. g \in [to -> Int]
    BY <1>1, <2>1
  <2> QED
    BY <2>1, <2>2 DEF SumOf
<1>3. under \in SUBSET S /\ IsFiniteSet(under) /\ f \in [under -> Int] /\ Base(S, v, turn, y) \in Int
  <2>0. BarStands(S, v, turn, y)
    BY BaseAndBar
  <2>1. under \in SUBSET S /\ IsFiniteSet(under) /\ Base(S, v, turn, y) \in Int
    BY <2>0, Zenon DEF BarStands
  <2> HIDE DEF under
  <2> QED
    BY <1>1, <2>1
<1>4. SumFunction(f) = Base(S, v, turn, y)
  BY DEF Base, SumOf
<1>5. \A u \in to : u = x \/ (u \in S /\ turn[u] < turn[x] /\ v[u] * v[x] >= 0)
  BY DEF Under, Upto
<1>6. \A u : u \in under <=> u \in S /\ turn[u] < turn[y] /\ v[u] * v[y] >= 0
  BY DEF Under
<1>7. (\A u \in under : f[u] = v[u]) /\ \A u \in to : g[u] = v[u]
  OBVIOUS
<1> HIDE DEF under, to, f, g
<1>8. \A u \in to : turn[u] < turn[y] /\ u \in S
  <2> TAKE u \in to
  <2>1. u \in S /\ turn[u] \in Int
    BY <1>1, <1>2
  <2> QED
    BY <1>1, <1>5, <2>1
<1>9. ASSUME v[x] > 0, v[y] > 0 PROVE SumFunction(g) <= SumFunction(f)
  <2>1. \A u \in to : v[u] >= 0
    <3> TAKE u \in to
    <3>1. v[u] \in Int
      BY <1>1, <1>8
    <3>2. u = x \/ v[u] * v[x] >= 0
      BY <1>5
    <3> QED
      BY <1>1, <1>9, <3>1, <3>2, SameSign
  <2>2. to \in SUBSET under
    <3> SUFFICES ASSUME NEW u \in to PROVE u \in under
      OBVIOUS
    <3>1. v[u] \in Int /\ v[u] >= 0
      BY <1>1, <1>8, <2>1
    <3>2. v[u] * v[y] >= 0
      BY <1>1, <1>9, <3>1, SameSign
    <3> QED
      BY <1>6, <1>8, <3>2
  <2>3. \A u \in to : g[u] <= f[u]
    <3>1. \A u \in to : g[u] = f[u] /\ g[u] \in Int
      BY <1>2, <1>7, <2>2
    <3> QED
      BY <3>1
  <2>4. \A u \in under \ to : f[u] >= 0
    <3> TAKE u \in under \ to
    <3>1. f[u] = v[u] /\ v[u] \in Int
      BY <1>1, <1>3, <1>7
    <3>2. v[u] * v[y] >= 0
      BY <1>6
    <3> QED
      BY <1>1, <1>9, <3>1, <3>2, SameSign
  <2> QED
    BY <1>2, <1>3, <2>2, <2>3, <2>4, SumUpper
<1>10. ASSUME v[x] < 0, v[y] < 0 PROVE SumFunction(g) >= SumFunction(f)
  <2>1. \A u \in to : v[u] <= 0
    <3> TAKE u \in to
    <3>1. v[u] \in Int
      BY <1>1, <1>8
    <3>2. u = x \/ v[u] * v[x] >= 0
      BY <1>5
    <3> QED
      BY <1>1, <1>10, <3>1, <3>2, SameSign
  <2>2. to \in SUBSET under
    <3> SUFFICES ASSUME NEW u \in to PROVE u \in under
      OBVIOUS
    <3>1. v[u] \in Int /\ v[u] <= 0
      BY <1>1, <1>8, <2>1
    <3>2. v[u] * v[y] >= 0
      BY <1>1, <1>10, <3>1, SameSign
    <3> QED
      BY <1>6, <1>8, <3>2
  <2>3. \A u \in to : g[u] >= f[u]
    <3>1. \A u \in to : g[u] = f[u] /\ g[u] \in Int
      BY <1>2, <1>7, <2>2
    <3> QED
      BY <3>1
  <2>4. \A u \in under \ to : f[u] <= 0
    <3> TAKE u \in under \ to
    <3>1. f[u] = v[u] /\ v[u] \in Int
      BY <1>1, <1>3, <1>7
    <3>2. v[u] * v[y] >= 0
      BY <1>6
    <3> QED
      BY <1>1, <1>10, <3>1, <3>2, SameSign
  <2> QED
    BY <1>2, <1>3, <2>2, <2>3, <2>4, SumLower
<1>11. SumFunction(f) \in Int /\ SumFunction(g) \in Int
  BY <1>1, <1>2, <1>3, <1>4
<1> QED
  BY <1>1, <1>2, <1>3, <1>4, <1>9, <1>10, <1>11

\* What is asked of bars.
BarsOf(ts, groups) ==
  /\ IsTargets(ts)
  /\ \A t, u \in ToSet(ts) : Len(t.values) = Len(u.values)
  /\ groups \in Seq(Seq(Strings))
  /\ OneGroupEach(groups)

\* A target is known by its id.
LEMMA SameId ==
  ASSUME NEW ts, IsTargets(ts), NEW t \in ToSet(ts), NEW u \in ToSet(ts), t.id = u.id
  PROVE  t = u
<1>1. PICK j \in DOMAIN ts : ts[j] = t
  BY DEF ToSet
<1>2. PICK k \in DOMAIN ts : ts[k] = u
  BY DEF ToSet
<1>3. Ids(ts)[j] = Ids(ts)[k] /\ DOMAIN Ids(ts) = DOMAIN ts
  BY <1>1, <1>2 DEF Ids
<1>4. j = k
  BY <1>3 DEF IsTargets, IsInjective
<1> QED
  BY <1>1, <1>2, <1>4

\* Each target has a value at an x of one of them.
LEMMA ValueAt ==
  ASSUME NEW ts, NEW groups, BarsOf(ts, groups), NEW t \in ToSet(ts), NEW k \in DOMAIN t.values,
         NEW u \in ToSet(ts)
  PROVE  k \in DOMAIN u.values /\ u.values[k].value \in Int
<1>1. IsTargets(ts) /\ Len(t.values) = Len(u.values)
  BY DEF BarsOf
<1>2. DOMAIN t.values = 1 .. Len(t.values) /\ DOMAIN u.values = 1 .. Len(u.values)
  BY <1>1, TargetsFinite
<1>3. k \in DOMAIN u.values
  BY <1>1, <1>2
<1>4. u.values[k] \in [x : Int, value : Int, index : Nat]
  BY <1>1, <1>3, TargetsFinite
<1> QED
  BY <1>3, <1>4

\* The targets in column c, their values, and the order in which they are stacked.
ColumnOf(ts, groups, c) == {u \in ToSet(ts) : ShapeIndices(ts, groups)[u.id] = c}
ValueIn(S, k) == [u \in S |-> u.values[k].value]
TurnIn(S, ts, order) == [u \in S |-> IndexOf(OrderTargets(ts, order), u.id)]

\* The bars of some targets at one place are a column.
LEMMA IsOneColumn ==
  ASSUME NEW ts, NEW groups, BarsOf(ts, groups), NEW order, NEW t \in ToSet(ts),
         NEW k \in DOMAIN t.values, NEW S \in SUBSET ToSet(ts)
  PROVE  IsBarColumn(S, ValueIn(S, k), TurnIn(S, ts, order))
<1>1. IsTargets(ts) /\ ts \in Seq(Targets)
  BY DEF BarsOf, IsTargets
<1>2. IsFiniteSet(S)
  BY <1>1, TargetsFinite, FS_Subset
<1>3. ValueIn(S, k) \in [S -> Int]
  BY ValueAt DEF ValueIn
<1> DEFINE ids == {u.id : u \in ToSet(ts)}
           turn == [id \in ids |-> IndexOf(OrderTargets(ts, order), id)]
           here == TurnIn(S, ts, order)
<1>4. IsTurn(ts, turn)
  BY <1>1, TurnOfTargets
<1>5. \A u \in S : here[u] = turn[u.id] /\ u \in ToSet(ts)
  BY DEF TurnIn
<1>6. here = [u \in S |-> here[u]]
  BY DEF TurnIn
<1> HIDE DEF turn, here
<1>7. \A u \in S : here[u] \in Int
  BY <1>4, <1>5 DEF IsTurn
<1>8. here \in [S -> Int]
  BY <1>6, <1>7
<1>9. \A u, w \in S : here[u] = here[w] => u = w
  <2> TAKE u, w \in S
  <2>1. here[u] = here[w] => u.id = w.id
    BY <1>4, <1>5 DEF IsTurn
  <2> QED
    BY <1>1, <1>5, <2>1, SameId
<1> QED
  BY <1>2, <1>3, <1>8, <1>9 DEF IsBarColumn, here

\* What a bar stands on is what is under it in its column.
LEMMA OffsetIsBase ==
  ASSUME NEW ts, NEW groups, NEW order, NEW t \in ToSet(ts), NEW k,
         NEW S, S = ColumnOf(ts, groups, ShapeIndices(ts, groups)[t.id])
  PROVE  t \in S /\ ShapeOffset(ts, groups, order, t, k)
                      = Base(S, ValueIn(S, k), TurnIn(S, ts, order), t)
<1> DEFINE v == ValueIn(S, k)
           turn == TurnIn(S, ts, order)
           ordered == OrderTargets(ts, order)
           indices == ShapeIndices(ts, groups)
           below == {u \in ToSet(ts) : /\ indices[u.id] = indices[t.id]
                                       /\ IndexOf(ordered, u.id) < IndexOf(ordered, t.id)
                                       /\ u.values[k].value * t.values[k].value >= 0}
           under == Under(S, v, turn, t)
<1>1. t \in S /\ \A u : u \in S <=> u \in ToSet(ts) /\ indices[u.id] = indices[t.id]
  BY DEF ColumnOf
<1>2. \A u \in S : v[u] = u.values[k].value /\ turn[u] = IndexOf(ordered, u.id)
  BY DEF ValueIn, TurnIn
<1>3. ShapeOffset(ts, groups, order, t, k) = SumFunction([u \in below |-> u.values[k].value])
  BY DEF ShapeOffset
<1>4. \A u : u \in under <=> u \in S /\ turn[u] < turn[t] /\ v[u] * v[t] >= 0
  BY DEF Under
<1> HIDE DEF v, turn, ordered, indices
<1>5. \A u : u \in below <=> /\ u \in S /\ IndexOf(ordered, u.id) < IndexOf(ordered, t.id)
                             /\ u.values[k].value * t.values[k].value >= 0
  BY <1>1
<1> HIDE DEF under, below
<1>6. \A u : u \in under <=> u \in below
  <2> TAKE u
  <2>1. CASE u \in S
    BY <1>1, <1>2, <1>4, <1>5, <2>1
  <2>2. CASE u \notin S
    BY <1>4, <1>5, <2>2
  <2> QED
    BY <2>1, <2>2
<1>7. under = below
  BY <1>6
<1>8. [u \in under |-> v[u]] = [u \in below |-> u.values[k].value]
  <2>1. \A u \in under : v[u] = u.values[k].value
    BY <1>2, <1>4
  <2> QED
    BY <1>7, <2>1
<1>9. Base(S, v, turn, t) = SumFunction([u \in under |-> v[u]])
  BY DEF Base, SumOf, under
<1> QED
  BY <1>1, <1>3, <1>8, <1>9 DEF v, turn

\* Bars stand in one column if and only if they are in one group.
LEMMA ColumnsAreGroups ==
  ASSUME NEW ts, NEW groups, BarsOf(ts, groups), NEW t \in ToSet(ts), NEW u \in ToSet(ts)
  PROVE  ShapeIndices(ts, groups)[t.id] = ShapeIndices(ts, groups)[u.id]
           <=> t = u \/ Grouped(groups, t.id, u.id)
<1>1. ts \in Seq(Targets) /\ IsInjective(Ids(ts)) /\ OneGroupEach(groups) /\ IsTargets(ts)
  BY DEF BarsOf, IsTargets
<1>2. InColumns(ShapeIndices(ts, groups), {w.id : w \in ToSet(ts)}, groups)
  BY <1>1, BarColumns
<1>3. ShapeIndices(ts, groups)[t.id] = ShapeIndices(ts, groups)[u.id]
        <=> t.id = u.id \/ Grouped(groups, t.id, u.id)
  BY <1>2 DEF InColumns
<1> QED
  BY <1>1, <1>3, SameId

\* Bars of one column do not overlap.
Bar(base, value) == IF value < 0 THEN <<base + value, base>> ELSE <<base, base + value>>

\* No two bars of a column overlap.
LEMMA NoOverlap ==
  ASSUME NEW S, NEW v, NEW turn, IsBarColumn(S, v, turn), NEW t \in S, NEW u \in S, t # u,
         v[t] # 0, v[u] # 0
  PROVE  LET bar(w) == Bar(Base(S, v, turn, w), v[w])
         IN  bar(t)[2] <= bar(u)[1] \/ bar(u)[2] <= bar(t)[1]
<1> DEFINE bt == Base(S, v, turn, t)
           bu == Base(S, v, turn, u)
<1>1. /\ v[t] \in Int /\ v[u] \in Int /\ turn[t] \in Int /\ turn[u] \in Int /\ turn[t] # turn[u]
  BY DEF IsBarColumn
<1>2. bt \in Int /\ bu \in Int
  <2>1. BarStands(S, v, turn, t) /\ BarStands(S, v, turn, u)
    BY BaseAndBar
  <2> QED
    BY <2>1, Zenon DEF BarStands
<1>3. (v[t] > 0 => bt >= 0) /\ (v[t] < 0 => bt <= 0) /\ (v[u] > 0 => bu >= 0) /\ (v[u] < 0 => bu <= 0)
  BY BaseSide
<1>4. CASE turn[t] < turn[u]
  <2>1. (v[t] > 0 /\ v[u] > 0 => bt + v[t] <= bu) /\ (v[t] < 0 /\ v[u] < 0 => bu <= bt + v[t])
    BY <1>4, BaseLater
  <2> HIDE DEF bt, bu
  <2>2. Bar(bt, v[t])[2] <= Bar(bu, v[u])[1] \/ Bar(bu, v[u])[2] <= Bar(bt, v[t])[1]
    BY <1>1, <1>2, <1>3, <2>1 DEF Bar
  <2> QED
    BY <2>2 DEF bt, bu
<1>5. CASE turn[u] < turn[t]
  <2>1. (v[t] > 0 /\ v[u] > 0 => bu + v[u] <= bt) /\ (v[t] < 0 /\ v[u] < 0 => bt <= bu + v[u])
    BY <1>5, BaseLater
  <2> HIDE DEF bt, bu
  <2>2. Bar(bt, v[t])[2] <= Bar(bu, v[u])[1] \/ Bar(bu, v[u])[2] <= Bar(bt, v[t])[1]
    BY <1>1, <1>2, <1>3, <2>1 DEF Bar
  <2> QED
    BY <2>2 DEF bt, bu
<1> QED
  BY <1>1, <1>4, <1>5

-----------------------------------------------------------------------------
(***************************************************************************)
(* The ends of the axis of bars.                                           *)
(***************************************************************************)
AnyOf(ts, sign) == \E v \in ValueSet(ts) : v * sign > 0
PartOf(ts, sign, value) == IF AnyOf(ts, sign) /\ value * sign < 0 THEN 0 ELSE value
InGroup(ts, g) == {t \in ToSet(ts) : Contains(g, t.id)}
FirstIn(ts, g, t) == /\ t \in InGroup(ts, g)
                     /\ \A u \in InGroup(ts, g) : IndexIn(g, t.id) <= IndexIn(g, u.id)
TotalOf(ts, g, sign, k) == SumFunction([t \in InGroup(ts, g) |-> PartOf(ts, sign, t.values[k].value)])
Based(ts, groups) == {gt \in ToSet(groups) \X ToSet(ts) : FirstIn(ts, gt[1], gt[2])}
Unbased(ts, groups) == {t \in ToSet(ts) : \A g \in ToSet(groups) : ~ FirstIn(ts, g, t)}
Singles(ts, groups) ==
  UNION {{t.values[k].value : k \in DOMAIN t.values} : t \in Unbased(ts, groups)}
Totals(ts, groups, sign) ==
  UNION {{TotalOf(ts, gt[1], sign, k) : k \in DOMAIN gt[2].values} : gt \in Based(ts, groups)}

\* What is stacked: single values, and the totals of groups.
LEMMA StackedParts ==
  ASSUME NEW ts, NEW groups, NEW sign
  PROVE  Stacked(ts, groups, sign) = Singles(ts, groups) \cup Totals(ts, groups, sign)
BY DEF Stacked, Singles, Totals, Based, Unbased, FirstIn, InGroup, TotalOf, PartOf, AnyOf

\* The parts of a value on either side of zero.
LEMMA PartTyped ==
  ASSUME NEW ts, IsTargets(ts), NEW value \in ValueSet(ts)
  PROVE  /\ value \in Int /\ PartOf(ts, 1, value) \in Int /\ PartOf(ts, -1, value) \in Int
         /\ PartOf(ts, -1, value) <= value /\ value <= PartOf(ts, 1, value)
         /\ AnyOf(ts, -1) => PartOf(ts, -1, value) = IF value < 0 THEN value ELSE 0
         /\ AnyOf(ts, 1) => PartOf(ts, 1, value) = IF value > 0 THEN value ELSE 0
<1>1. value \in Int /\ \A v \in ValueSet(ts) : v \in Int
  BY ValuesFinite
<1>2. ~ AnyOf(ts, -1) => value >= 0
  BY <1>1 DEF AnyOf
<1>3. ~ AnyOf(ts, 1) => value <= 0
  BY <1>1 DEF AnyOf
<1>4. PartOf(ts, -1, value) = IF AnyOf(ts, -1) /\ value > 0 THEN 0 ELSE value
  BY <1>1 DEF PartOf
<1>5. PartOf(ts, 1, value) = IF AnyOf(ts, 1) /\ value < 0 THEN 0 ELSE value
  BY <1>1 DEF PartOf
<1> QED
  BY <1>1, <1>2, <1>3, <1>4, <1>5

\* A value of a target is one of all values.
LEMMA ValueShown ==
  ASSUME NEW ts, NEW t \in ToSet(ts), NEW k \in DOMAIN t.values
  PROVE  t.values[k].value \in ValueSet(ts)
BY DEF ValueSet

\* The sums of a group are there, and the one below zero is not above the other.
LEMMA TotalTyped ==
  ASSUME NEW ts, NEW groups, BarsOf(ts, groups), NEW g, NEW t \in ToSet(ts), NEW k \in DOMAIN t.values
  PROVE  /\ TotalOf(ts, g, -1, k) \in Int /\ TotalOf(ts, g, 1, k) \in Int
         /\ TotalOf(ts, g, -1, k) <= TotalOf(ts, g, 1, k)
<1> DEFINE S == InGroup(ts, g)
           value(u) == u.values[k].value
           low == [u \in S |-> PartOf(ts, -1, value(u))]
           high == [u \in S |-> PartOf(ts, 1, value(u))]
<1>1. IsTargets(ts)
  BY DEF BarsOf
<1>2. S \in SUBSET ToSet(ts) /\ IsFiniteSet(S)
  <2>1. S \in SUBSET ToSet(ts)
    BY DEF InGroup
  <2> QED
    BY <1>1, <2>1, TargetsFinite, FS_Subset
<1>3. \A u \in S : value(u) \in ValueSet(ts)
  <2> TAKE u \in S
  <2>1. k \in DOMAIN u.values
    BY <1>2, ValueAt
  <2> QED
    BY <1>2, <2>1, ValueShown
<1>4. TotalOf(ts, g, -1, k) = SumFunction(low) /\ TotalOf(ts, g, 1, k) = SumFunction(high)
  BY DEF TotalOf
<1> HIDE DEF S, value
<1>5. \A u \in S : low[u] \in Int /\ high[u] \in Int /\ low[u] <= high[u]
  <2> TAKE u \in S
  <2>1. /\ value(u) \in Int /\ PartOf(ts, 1, value(u)) \in Int /\ PartOf(ts, -1, value(u)) \in Int
        /\ PartOf(ts, -1, value(u)) <= value(u) /\ value(u) <= PartOf(ts, 1, value(u))
    BY <1>1, <1>3, PartTyped
  <2> QED
    BY <2>1
<1>6. low = [u \in S |-> low[u]] /\ high = [u \in S |-> high[u]]
  OBVIOUS
<1> HIDE DEF low, high
<1>7. low \in [S -> Int] /\ high \in [S -> Int]
  BY <1>5, <1>6
<1>8. SumFunction(low) \in Int /\ SumFunction(high) \in Int
  BY <1>2, <1>7, SumTyped
<1>9. S \in SUBSET S /\ (\A u \in S : high[u] >= low[u]) /\ \A u \in S \ S : low[u] <= 0
  BY <1>5
<1>10. SumFunction(high) >= SumFunction(low)
  BY <1>2, <1>7, <1>9, SumLower
<1> QED
  BY <1>4, <1>8, <1>10

\* The values that are shown are finitely many integers.
LEMMA StackedTyped ==
  ASSUME NEW ts, NEW groups, BarsOf(ts, groups), NEW sign \in {-1, 1}
  PROVE  Stacked(ts, groups, sign) \in SUBSET Int /\ IsFiniteSet(Stacked(ts, groups, sign))
<1> DEFINE single == [t \in Unbased(ts, groups) |-> {t.values[k].value : k \in DOMAIN t.values}]
           total == [gt \in Based(ts, groups) |->
                        {TotalOf(ts, gt[1], sign, k) : k \in DOMAIN gt[2].values}]
<1>1. IsTargets(ts) /\ groups \in Seq(Seq(Strings))
  BY DEF BarsOf
<1>2. IsFiniteSet(Unbased(ts, groups)) /\ Unbased(ts, groups) \subseteq ToSet(ts)
  <2>1. Unbased(ts, groups) \subseteq ToSet(ts)
    BY DEF Unbased
  <2> QED
    BY <1>1, <2>1, TargetsFinite, FS_Subset
<1>3. /\ IsFiniteSet(Based(ts, groups))
      /\ \A gt \in Based(ts, groups) : gt[2] \in ToSet(ts)
  <2>1. IsFiniteSet(ToSet(groups))
    <3>1. DOMAIN groups = 1 .. Len(groups) /\ Len(groups) \in Nat
      BY <1>1, Members
    <3>2. IsFiniteSet(DOMAIN groups)
      BY <3>1, FS_Interval
    <3>3. IsFiniteSet({groups[j] : j \in DOMAIN groups})
      BY <3>2, ImageFinite
    <3> QED
      BY <3>3 DEF ToSet
  <2>2. IsFiniteSet(ToSet(groups) \X ToSet(ts))
    BY <1>1, <2>1, TargetsFinite, FS_Product
  <2>3. Based(ts, groups) \subseteq ToSet(groups) \X ToSet(ts)
    BY DEF Based
  <2>4. IsFiniteSet(Based(ts, groups))
    BY <2>2, <2>3, FS_Subset
  <2> QED
    BY <2>3, <2>4
<1>4. \A t \in Unbased(ts, groups) : IsFiniteSet(single[t]) /\ single[t] \subseteq Int
  <2> TAKE t \in Unbased(ts, groups)
  <2> DEFINE value == [k \in DOMAIN t.values |-> t.values[k].value]
  <2>1. t \in ToSet(ts)
    BY <1>2
  <2>2. IsFiniteSet(DOMAIN t.values)
    BY <1>1, <2>1, TargetsFinite
  <2>3. single[t] = {value[k] : k \in DOMAIN t.values}
    OBVIOUS
  <2>4. \A k \in DOMAIN t.values : value[k] \in Int
    BY <2>1, ValueAt
  <2> HIDE DEF value, single
  <2> QED
    BY <2>2, <2>3, <2>4, ImageFinite
<1>5. \A gt \in Based(ts, groups) : IsFiniteSet(total[gt]) /\ total[gt] \subseteq Int
  <2> TAKE gt \in Based(ts, groups)
  <2> DEFINE t == gt[2]
             value == [k \in DOMAIN t.values |-> TotalOf(ts, gt[1], sign, k)]
  <2>1. t \in ToSet(ts)
    BY <1>3
  <2>2. IsFiniteSet(DOMAIN t.values)
    BY <1>1, <2>1, TargetsFinite
  <2>3. total[gt] = {value[k] : k \in DOMAIN t.values}
    OBVIOUS
  <2> HIDE DEF t
  <2>4. \A k \in DOMAIN t.values : TotalOf(ts, gt[1], sign, k) \in Int
    BY <2>1, TotalTyped
  <2>5. \A k \in DOMAIN t.values : value[k] \in Int
    BY <2>4
  <2> HIDE DEF value, total
  <2> QED
    BY <2>2, <2>3, <2>5, ImageFinite
<1>6. Singles(ts, groups) = UNION {single[t] : t \in Unbased(ts, groups)}
  BY DEF Singles
<1>7. Totals(ts, groups, sign) = UNION {total[gt] : gt \in Based(ts, groups)}
  BY DEF Totals
<1> HIDE DEF single, total
<1>8. IsFiniteSet(Singles(ts, groups)) /\ Singles(ts, groups) \subseteq Int
  BY <1>2, <1>4, <1>6, UnionFinite
<1>9. IsFiniteSet(Totals(ts, groups, sign)) /\ Totals(ts, groups, sign) \subseteq Int
  BY <1>3, <1>5, <1>7, UnionFinite
<1>10. IsFiniteSet(Singles(ts, groups) \cup Totals(ts, groups, sign))
  BY <1>8, <1>9, FS_Union
<1> QED
  BY <1>8, <1>9, <1>10, StackedParts

\* The value of what is in no group is shown as it is.
LEMMA SingleStacked ==
  ASSUME NEW ts, NEW groups, NEW sign, NEW t \in ToSet(ts), NEW k \in DOMAIN t.values,
         \A g \in ToSet(groups) : ~ Contains(g, t.id)
  PROVE  t.values[k].value \in Stacked(ts, groups, sign)
<1>1. t \in Unbased(ts, groups)
  BY DEF Unbased, FirstIn, InGroup
<1>2. t.values[k].value \in Singles(ts, groups)
  BY <1>1 DEF Singles
<1> QED
  BY <1>2, StackedParts

\* Of what is in a group the sum is shown.
LEMMA TotalStacked ==
  ASSUME NEW ts, NEW groups, BarsOf(ts, groups), NEW sign, NEW t \in ToSet(ts),
         NEW k \in DOMAIN t.values, NEW g \in ToSet(groups), Contains(g, t.id)
  PROVE  TotalOf(ts, g, sign, k) \in Stacked(ts, groups, sign)
<1> DEFINE S == InGroup(ts, g)
           at == {IndexIn(g, u.id) : u \in S}
<1>1. g \in Seq(Strings)
  <2>1. groups \in Seq(Seq(Strings))
    BY DEF BarsOf
  <2> QED
    BY <2>1, Members DEF ToSet
<1>2. t \in S /\ S \subseteq ToSet(ts) /\ \A u \in S : Contains(g, u.id)
  BY DEF InGroup
<1>3. \A u \in S : IndexIn(g, u.id) \in Nat
  <2> TAKE u \in S
  <2>1. \E j \in DOMAIN g : g[j] = u.id
    BY <1>1, <1>2 DEF Contains
  <2>2. IndexIn(g, u.id) \in DOMAIN g
    BY <2>1 DEF IndexIn
  <2>3. DOMAIN g = 1 .. Len(g) /\ Len(g) \in Nat
    BY <1>1, Members
  <2> QED
    BY <2>2, <2>3
<1>4. at \in SUBSET Nat /\ at # {}
  BY <1>2, <1>3
<1>5. PICK least \in at : \A other \in at : least <= other
  <2> HIDE DEF at
  <2>1. PICK least \in at : \A other \in at : ~ (<<other, least>> \in OpToRel(<, Nat))
    BY <1>4, NatLessThanWellFounded, WFMin
  <2>2. \A other \in at : ~ (other < least)
    BY <1>4, <2>1 DEF OpToRel
  <2> QED
    BY <1>4, <2>2
<1>6. PICK f \in S : IndexIn(g, f.id) = least
  BY <1>5
<1>7. FirstIn(ts, g, f)
  BY <1>5, <1>6 DEF FirstIn
<1>8. f \in ToSet(ts) /\ k \in DOMAIN f.values
  BY <1>2, <1>6, ValueAt
<1> DEFINE gt == <<g, f>>
<1>9. gt \in Based(ts, groups) /\ gt[1] = g /\ gt[2] = f
  BY <1>7, <1>8 DEF Based
<1> HIDE DEF gt
<1>10. TotalOf(ts, g, sign, k) \in Totals(ts, groups, sign)
  <2>1. k \in DOMAIN gt[2].values /\ TotalOf(ts, gt[1], sign, k) = TotalOf(ts, g, sign, k)
    BY <1>8, <1>9
  <2> QED
    BY <1>9, <2>1 DEF Totals
<1> QED
  BY <1>10, StackedParts

\* A sum of one.
LEMMA SumOfOne ==
  ASSUME NEW t, NEW f, f \in [{t} -> Int]
  PROVE  SumFunction(f) = f[t]
<1> DEFINE rest == [y \in {t} \ {t} |-> f[y]]
<1>1. IsFiniteSet({t}) /\ t \in {t}
  BY FS_Singleton
<1>2. SumFunction(f) = f[t] + SumFunction(rest)
  BY <1>1, SumWith
<1>3. IsFiniteSet({t} \ {t}) /\ rest \in [({t} \ {t}) -> Int] /\ \A y \in {t} \ {t} : FALSE
  BY <1>1, FS_Difference
<1> HIDE DEF rest
<1>4. SumFunction(rest) \in Int /\ SumFunction(rest) >= 0 /\ SumFunction(rest) <= 0
  BY <1>3, SumTyped, SumSign
<1>5. f[t] \in Int
  OBVIOUS
<1> QED
  BY <1>2, <1>4, <1>5

\* The targets of a column are a group's, or one that is in none.
LEMMA ColumnIsGroup ==
  ASSUME NEW ts, NEW groups, BarsOf(ts, groups), NEW t \in ToSet(ts),
         NEW S, S = ColumnOf(ts, groups, ShapeIndices(ts, groups)[t.id])
  PROVE  \/ \E g \in ToSet(groups) : Contains(g, t.id) /\ S = InGroup(ts, g)
         \/ (\A g \in ToSet(groups) : ~ Contains(g, t.id)) /\ S = {t}
<1>1. \A g \in ToSet(groups) : \A id : Contains(g, id) <=> id \in ToSet(g)
  <2> TAKE g \in ToSet(groups)
  <2>1. g \in Seq(Strings)
    <3>1. groups \in Seq(Seq(Strings))
      BY DEF BarsOf
    <3> QED
      BY <3>1, Members DEF ToSet
  <2>2. DOMAIN g = 1 .. Len(g)
    BY <2>1, Members
  <2> QED
    BY <2>2 DEF Contains, ToSet
<1>2. \A u : u \in S <=> u \in ToSet(ts) /\ (u = t \/ Grouped(groups, t.id, u.id))
  <2> TAKE u
  <2>1. CASE u \in ToSet(ts)
    <3>1. u \in S <=> ShapeIndices(ts, groups)[t.id] = ShapeIndices(ts, groups)[u.id]
      BY <2>1 DEF ColumnOf
    <3> QED
      BY <2>1, <3>1, ColumnsAreGroups
  <2>2. CASE u \notin ToSet(ts)
    BY <2>2 DEF ColumnOf
  <2> QED
    BY <2>1, <2>2
<1>3. ASSUME NEW g \in ToSet(groups), Contains(g, t.id) PROVE S = InGroup(ts, g)
  <2>1. t.id \in ToSet(g)
    BY <1>1, <1>3
  <2>2. \A id : Grouped(groups, t.id, id) => id \in ToSet(g)
    <3> TAKE id
    <3> SUFFICES ASSUME NEW h \in ToSet(groups), t.id \in ToSet(h), id \in ToSet(h)
                 PROVE  id \in ToSet(g)
      BY DEF Grouped
    <3>1. h = g
      BY <2>1 DEF BarsOf, OneGroupEach
    <3> QED
      BY <3>1
  <2>3. \A id : id \in ToSet(g) => Grouped(groups, t.id, id)
    BY <2>1 DEF Grouped
  <2>4. \A u : u \in InGroup(ts, g) <=> u \in ToSet(ts) /\ u.id \in ToSet(g)
    BY <1>1 DEF InGroup
  <2>5. \A u : u \in S <=> u \in InGroup(ts, g)
    BY <1>2, <2>1, <2>2, <2>3, <2>4
  <2>6. S \subseteq InGroup(ts, g) /\ InGroup(ts, g) \subseteq S
    BY <2>5
  <2> QED
    BY <2>6
<1>4. ASSUME \A g \in ToSet(groups) : ~ Contains(g, t.id) PROVE S = {t}
  <2>1. \A id : ~ Grouped(groups, t.id, id)
    BY <1>1, <1>4 DEF Grouped
  <2>2. \A u : u \in S <=> u = t
    BY <1>2, <2>1
  <2> QED
    BY <2>2
<1> QED
  BY <1>3, <1>4

\* What a column comes to on either side of zero is shown.
LEMMA DepthStacked ==
  ASSUME NEW ts, NEW groups, BarsOf(ts, groups), NEW t \in ToSet(ts), NEW k \in DOMAIN t.values,
         NEW S, S = ColumnOf(ts, groups, ShapeIndices(ts, groups)[t.id])
  PROVE  /\ Depth(S, ValueIn(S, k)) < 0 => Depth(S, ValueIn(S, k)) \in Stacked(ts, groups, -1)
         /\ Height(S, ValueIn(S, k)) > 0 => Height(S, ValueIn(S, k)) \in Stacked(ts, groups, 1)
<1> DEFINE v == ValueIn(S, k)
           low == [u \in S |-> IF v[u] < 0 THEN v[u] ELSE 0]
           high == [u \in S |-> IF v[u] > 0 THEN v[u] ELSE 0]
<1>1. IsTargets(ts) /\ S \in SUBSET ToSet(ts) /\ IsFiniteSet(S)
  <2>1. IsTargets(ts) /\ S \in SUBSET ToSet(ts)
    BY DEF BarsOf, ColumnOf
  <2> QED
    BY <2>1, TargetsFinite, FS_Subset
<1>2. \A u \in S : v[u] = u.values[k].value /\ v[u] \in Int /\ v[u] \in ValueSet(ts)
  <2> TAKE u \in S
  <2>1. k \in DOMAIN u.values /\ u.values[k].value \in Int
    BY <1>1, ValueAt
  <2>2. u.values[k].value \in ValueSet(ts)
    BY <1>1, <2>1, ValueShown
  <2> QED
    BY <2>1, <2>2 DEF ValueIn
<1>3. Depth(S, v) = SumFunction(low) /\ Height(S, v) = SumFunction(high)
  BY DEF Depth, Height
<1> HIDE DEF v
<1>4. low \in [S -> Int] /\ high \in [S -> Int]
  BY <1>2
<1>5. /\ \A u \in S : low[u] = IF v[u] < 0 THEN v[u] ELSE 0
      /\ \A u \in S : high[u] = IF v[u] > 0 THEN v[u] ELSE 0
  OBVIOUS
<1>6. low = [u \in S |-> low[u]] /\ high = [u \in S |-> high[u]]
  OBVIOUS
<1> HIDE DEF low, high
<1>7. SumFunction(low) < 0 => AnyOf(ts, -1)
  <2> SUFFICES ASSUME SumFunction(low) < 0 PROVE AnyOf(ts, -1)
    OBVIOUS
  <2>1. PICK u \in S : ~ (low[u] >= 0)
    <3>1. SumFunction(low) \in Int
      BY <1>1, <1>4, SumTyped
    <3>2. (\A u \in S : low[u] >= 0) => SumFunction(low) >= 0
      BY <1>1, <1>4, SumSign
    <3> QED
      BY <3>1, <3>2
  <2>2. v[u] < 0 /\ v[u] \in Int /\ v[u] \in ValueSet(ts)
    BY <1>2, <1>5, <2>1
  <2>3. v[u] * (-1) > 0
    BY <2>2
  <2> QED
    BY <2>2, <2>3 DEF AnyOf
<1>8. SumFunction(high) > 0 => AnyOf(ts, 1)
  <2> SUFFICES ASSUME SumFunction(high) > 0 PROVE AnyOf(ts, 1)
    OBVIOUS
  <2>1. PICK u \in S : ~ (high[u] <= 0)
    <3>1. SumFunction(high) \in Int
      BY <1>1, <1>4, SumTyped
    <3>2. (\A u \in S : high[u] <= 0) => SumFunction(high) <= 0
      BY <1>1, <1>4, SumSign
    <3> QED
      BY <3>1, <3>2
  <2>2. v[u] > 0 /\ v[u] \in Int /\ v[u] \in ValueSet(ts)
    BY <1>2, <1>5, <2>1
  <2>3. v[u] * 1 > 0
    BY <2>2
  <2> QED
    BY <2>2, <2>3 DEF AnyOf
<1>9. CASE \E g \in ToSet(groups) : Contains(g, t.id) /\ S = InGroup(ts, g)
  <2>1. PICK g \in ToSet(groups) : Contains(g, t.id) /\ S = InGroup(ts, g)
    BY <1>9
  <2>2. ASSUME AnyOf(ts, -1) PROVE SumFunction(low) = TotalOf(ts, g, -1, k)
    <3>1. \A u \in S : low[u] = PartOf(ts, -1, u.values[k].value)
      <4> TAKE u \in S
      <4>1. PartOf(ts, -1, v[u]) = IF v[u] < 0 THEN v[u] ELSE 0
        BY <1>1, <1>2, <2>2, PartTyped
      <4> QED
        BY <1>2, <1>5, <4>1
    <3>2. low = [u \in S |-> PartOf(ts, -1, u.values[k].value)]
      BY <1>6, <3>1
    <3> QED
      BY <2>1, <3>2 DEF TotalOf
  <2>3. ASSUME AnyOf(ts, 1) PROVE SumFunction(high) = TotalOf(ts, g, 1, k)
    <3>1. \A u \in S : high[u] = PartOf(ts, 1, u.values[k].value)
      <4> TAKE u \in S
      <4>1. PartOf(ts, 1, v[u]) = IF v[u] > 0 THEN v[u] ELSE 0
        BY <1>1, <1>2, <2>3, PartTyped
      <4> QED
        BY <1>2, <1>5, <4>1
    <3>2. high = [u \in S |-> PartOf(ts, 1, u.values[k].value)]
      BY <1>6, <3>1
    <3> QED
      BY <2>1, <3>2 DEF TotalOf
  <2>4. /\ TotalOf(ts, g, -1, k) \in Stacked(ts, groups, -1)
        /\ TotalOf(ts, g, 1, k) \in Stacked(ts, groups, 1)
    BY <2>1, TotalStacked
  <2> QED
    BY <1>3, <1>7, <1>8, <2>2, <2>3, <2>4 DEF v
<1>10. CASE (\A g \in ToSet(groups) : ~ Contains(g, t.id)) /\ S = {t}
  <2>1. t.values[k].value \in Stacked(ts, groups, -1) /\ t.values[k].value \in Stacked(ts, groups, 1)
    BY <1>10, SingleStacked
  <2>2. v[t] = t.values[k].value /\ v[t] \in Int /\ t \in S
    BY <1>2, <1>10
  <2>3. SumFunction(low) = low[t] /\ SumFunction(high) = high[t]
    BY <1>4, <1>10, SumOfOne
  <2> QED
    BY <1>3, <1>5, <2>1, <2>2, <2>3 DEF v
<1> QED
  BY <1>9, <1>10, ColumnIsGroup

\* Some of the values that are shown are not above some others.
LEMMA EndsShown ==
  ASSUME NEW ts, NEW groups, BarsOf(ts, groups)
  PROVE  /\ YDomainMin(ts, groups) \in Int /\ YDomainMax(ts, groups) \in Int
         /\ YDomainMin(ts, groups) <= YDomainMax(ts, groups)
         /\ \A x \in Stacked(ts, groups, -1) : YDomainMin(ts, groups) <= x
         /\ \A x \in Stacked(ts, groups, 1) : x <= YDomainMax(ts, groups)
<1>1. IsTargets(ts)
  BY DEF BarsOf
<1>2. PICK t \in ToSet(ts) : t.values # <<>>
  BY <1>1 DEF IsTargets
<1>3. DOMAIN t.values = 1 .. Len(t.values) /\ Len(t.values) \in Nat
  BY <1>1, TargetsFinite
<1>4. 1 \in DOMAIN t.values
  <2>1. t \in Targets
    BY <1>1, TargetsFinite
  <2>2. t.values \in Seq([x : Int, value : Int, index : Nat])
    BY <2>1 DEF Targets
  <2>3. Len(t.values) # 0
    BY <1>2, <2>2
  <2> QED
    BY <1>3, <2>3
<1>5. \E x \in Stacked(ts, groups, -1) : \E y \in Stacked(ts, groups, 1) : x <= y
  <2>1. CASE \E g \in ToSet(groups) : Contains(g, t.id)
    <3>1. PICK g \in ToSet(groups) : Contains(g, t.id)
      BY <2>1
    <3>2. /\ TotalOf(ts, g, -1, 1) \in Stacked(ts, groups, -1)
          /\ TotalOf(ts, g, 1, 1) \in Stacked(ts, groups, 1)
      BY <1>4, <3>1, TotalStacked
    <3>3. TotalOf(ts, g, -1, 1) <= TotalOf(ts, g, 1, 1)
      BY <1>4, TotalTyped
    <3> QED
      BY <3>2, <3>3
  <2>2. CASE \A g \in ToSet(groups) : ~ Contains(g, t.id)
    <3>1. /\ t.values[1].value \in Stacked(ts, groups, -1)
          /\ t.values[1].value \in Stacked(ts, groups, 1)
      BY <1>4, <2>2, SingleStacked
    <3>2. t.values[1].value \in Int
      BY <1>4, ValueAt
    <3>3. t.values[1].value <= t.values[1].value
      BY <3>2
    <3> QED
      BY <3>1, <3>3
  <2> QED
    BY <2>1, <2>2
<1>6. PICK x \in Stacked(ts, groups, -1), y \in Stacked(ts, groups, 1) : x <= y
  BY <1>5
<1>7. /\ Stacked(ts, groups, -1) \in SUBSET Int /\ IsFiniteSet(Stacked(ts, groups, -1))
      /\ Stacked(ts, groups, 1) \in SUBSET Int /\ IsFiniteSet(Stacked(ts, groups, 1))
  <2>1. -1 \in {-1, 1} /\ 1 \in {-1, 1}
    OBVIOUS
  <2> QED
    BY <2>1, StackedTyped
<1> DEFINE below == Stacked(ts, groups, -1)
           above == Stacked(ts, groups, 1)
<1> HIDE DEF below, above
<1>8. below \in SUBSET Int /\ above \in SUBSET Int /\ x \in below /\ y \in above
  BY <1>6, <1>7 DEF below, above
<1>9. Min(below) \in below /\ \A z \in below : Min(below) <= z
  BY <1>7, <1>8, Extremes DEF below
<1>10. Max(above) \in above /\ \A z \in above : z <= Max(above)
  BY <1>7, <1>8, Extremes DEF above
<1>11. YDomainMin(ts, groups) = Min(below) /\ YDomainMax(ts, groups) = Max(above)
  BY DEF YDomainMin, YDomainMax, below, above
<1>12. Min(below) <= Max(above)
  <2>1. Min(below) \in Int /\ Max(above) \in Int /\ x \in Int /\ y \in Int
    BY <1>8, <1>9, <1>10
  <2>2. Min(below) <= x /\ y <= Max(above)
    BY <1>8, <1>9, <1>10
  <2> QED
    BY <1>6, <2>1, <2>2
<1> QED
  BY <1>8, <1>9, <1>10, <1>11, <1>12 DEF below, above

\* The axis of bars begins at zero, or ends there.
BarAxis == [min |-> Null, max |-> Null, center |-> Null, zeroBased |-> TRUE, inverted |-> FALSE]

\* It is a configuration, without limits or centre.
LEMMA BarAxisIs ==
  Null \notin Int =>
    /\ BarAxis \in [min : Limits, max : Limits, center : Limits, zeroBased : BOOLEAN,
                    inverted : BOOLEAN]
    /\ BarAxis.min = Null /\ BarAxis.max = Null /\ BarAxis.center = Null
    /\ BarAxis.zeroBased = TRUE /\ BarAxis.inverted = FALSE
BY DEF BarAxis, Limits

\* Where all values have one sign, it begins or ends at zero.
LEMMA AroundZero ==
  ASSUME NEW low \in Int, NEW high \in Int, Null \notin Int
  PROVE  /\ low >= 0 /\ high >= 0 => AroundEnds(<<low, high>>, BarAxis)[1] = 0
         /\ low <= 0 /\ high <= 0 => AroundEnds(<<low, high>>, BarAxis)[2] = 0
<1> DEFINE ends == <<low, high>>
           c == BarAxis
<1>1. c.min = Null /\ c.max = Null /\ c.zeroBased = TRUE /\ c.inverted = FALSE
  BY BarAxisIs
<1>2. ends[1] = low /\ ends[2] = high
  OBVIOUS
<1> HIDE DEF ends, c
<1>3. low >= 0 /\ high >= 0 => AroundEnds(ends, c)[1] = 0
  BY <1>1, <1>2 DEF AroundEnds
<1>4. low <= 0 /\ high <= 0 => AroundEnds(ends, c)[2] = 0
  BY <1>1, <1>2 DEF AroundEnds
<1> QED
  BY <1>3, <1>4 DEF ends, c

\* The axis of bars has room for zero and for the ends.
LEMMA BarAxisHolds ==
  ASSUME NEW ts, NEW groups, BarsOf(ts, groups), Null \notin Int,
         NEW domain, domain = YDomain(ts, groups, BarAxis)
  PROVE  /\ domain[1] \in Int /\ domain[2] \in Int /\ domain[1] <= 0 /\ 0 <= domain[2]
         /\ domain[1] <= 100 * YDomainMin(ts, groups)
         /\ 100 * YDomainMax(ts, groups) <= domain[2]
<1> DEFINE lo == YDomainMin(ts, groups)
           hi == YDomainMax(ts, groups)
           limited == Limited(lo, hi, BarAxis)
           ends == Apart(lo, hi)
<1>1. lo \in Int /\ hi \in Int /\ lo <= hi
  BY EndsShown
<1>2. domain = AroundEnds(Apart(limited[1], limited[2]), BarAxis)
  BY DEF YDomain
<1> HIDE DEF lo, hi
<1>3. limited[1] = lo /\ limited[2] = hi
  BY BarAxisIs DEF Limited
<1>4. ends[1] \in Int /\ ends[2] \in Int /\ ends[1] <= lo /\ hi <= ends[2] /\ ends = <<ends[1], ends[2]>>
  <2>1. ends[1] \in Int /\ ends[2] \in Int /\ ends[1] <= lo /\ hi <= ends[2]
    BY <1>1, ApartEnds
  <2>2. ends = <<ends[1], ends[2]>>
    BY <1>1 DEF Apart
  <2> QED
    BY <2>1, <2>2
<1>5. domain = AroundEnds(ends, BarAxis)
  BY <1>2, <1>3
<1> HIDE DEF limited, ends
<1> DEFINE low == ends[1]
           high == ends[2]
<1>6. low \in Int /\ high \in Int /\ low <= lo /\ hi <= high /\ domain = AroundEnds(<<low, high>>, BarAxis)
  BY <1>4, <1>5
<1> HIDE DEF low, high
<1>7. low <= high
  BY <1>1, <1>6
<1>8. /\ domain[1] \in Int /\ domain[2] \in Int
      /\ domain[1] <= 100 * low /\ 100 * high <= domain[2]
  <2> DEFINE c == BarAxis
             bottom == IF c.inverted THEN domain[2] ELSE domain[1]
             top == IF c.inverted THEN domain[1] ELSE domain[2]
  <2>1. /\ c \in [min : Limits, max : Limits, center : Limits, zeroBased : BOOLEAN, inverted : BOOLEAN]
        /\ c.center = Null /\ c.inverted = FALSE
    BY BarAxisIs
  <2>2. /\ bottom \in Int /\ top \in Int
        /\ c.center = Null /\ low <= high => bottom <= 100 * low /\ 100 * high <= top
    <3> HIDE DEF c
    <3> QED
      BY <1>6, <2>1, AroundEndsUpright DEF c
  <2>3. bottom = domain[1] /\ top = domain[2]
    BY <2>1
  <2> HIDE DEF bottom, top, c
  <2> QED
    BY <1>7, <2>1, <2>2, <2>3
<1>9. domain[1] <= 0 /\ 0 <= domain[2]
  <2>1. /\ low >= 0 /\ high >= 0 => domain[1] = 0
        /\ low <= 0 /\ high <= 0 => domain[2] = 0
    BY <1>6, AroundZero
  <2> QED
    BY <1>6, <1>7, <1>8, <2>1
<1> QED
  BY <1>1, <1>6, <1>8, <1>9 DEF lo, hi

\* A bar is within the axis, and of two bars of a column one is beside the other.
LEMMA BarShown ==
  ASSUME NEW ts, NEW groups, BarsOf(ts, groups), NEW order, Null \notin Int,
         NEW domain, domain = YDomain(ts, groups, BarAxis),
         NEW t \in ToSet(ts), NEW k \in DOMAIN t.values,
         NEW bar, bar = Bar(ShapeOffset(ts, groups, order, t, k), t.values[k].value)
  PROVE  domain[1] <= 100 * bar[1] /\ 100 * bar[2] <= domain[2]
<1> DEFINE S == ColumnOf(ts, groups, ShapeIndices(ts, groups)[t.id])
           v == ValueIn(S, k)
           turn == TurnIn(S, ts, order)
           base == Base(S, v, turn, t)
           depth == Depth(S, v)
           height == Height(S, v)
<1>1. t \in S /\ ShapeOffset(ts, groups, order, t, k) = base
  BY OffsetIsBase
<1>2. S \in SUBSET ToSet(ts)
  BY DEF ColumnOf
<1>3. v[t] = t.values[k].value
  BY <1>1 DEF ValueIn
<1>4. depth < 0 => depth \in Stacked(ts, groups, -1)
  BY DepthStacked
<1>5. height > 0 => height \in Stacked(ts, groups, 1)
  BY DepthStacked
<1> HIDE DEF S
<1>6. IsBarColumn(S, v, turn)
  BY <1>2, IsOneColumn
<1>7. base \in Int /\ v[t] \in Int
  <2> HIDE DEF v, turn
  <2>1. BarStands(S, v, turn, t)
    BY <1>1, <1>6, BaseAndBar
  <2> QED
    BY <2>1, Zenon DEF BarStands
<1> HIDE DEF v, turn
<1>8. /\ depth \in Int /\ height \in Int /\ depth <= base /\ depth <= base + v[t]
      /\ base <= height /\ base + v[t] <= height
  BY <1>1, <1>6, BarWithin
<1>9. bar = Bar(base, v[t])
  BY <1>1, <1>3
<1> HIDE DEF base, depth, height
<1>10. bar[1] \in Int /\ bar[2] \in Int /\ depth <= bar[1] /\ bar[2] <= height
  BY <1>7, <1>8, <1>9 DEF Bar
<1> DEFINE lo == YDomainMin(ts, groups)
           hi == YDomainMax(ts, groups)
<1>11. /\ domain[1] \in Int /\ domain[2] \in Int /\ domain[1] <= 0 /\ 0 <= domain[2]
       /\ domain[1] <= 100 * lo /\ 100 * hi <= domain[2]
  BY BarAxisHolds
<1>12. /\ lo \in Int /\ hi \in Int
       /\ depth < 0 => lo <= depth
       /\ height > 0 => height <= hi
  BY <1>4, <1>5, EndsShown
<1> HIDE DEF lo, hi
<1>13. domain[1] <= 100 * depth
  BY <1>8, <1>11, <1>12
<1>14. 100 * height <= domain[2]
  BY <1>8, <1>11, <1>12
<1> QED
  BY <1>8, <1>10, <1>11, <1>13, <1>14

\* Bars of two targets in one column do not overlap.
LEMMA BarsBeside ==
  ASSUME NEW ts, NEW groups, BarsOf(ts, groups), NEW order,
         NEW t \in ToSet(ts), NEW u \in ToSet(ts), t # u, NEW k \in DOMAIN t.values,
         ShapeIndices(ts, groups)[t.id] = ShapeIndices(ts, groups)[u.id],
         t.values[k].value # 0, u.values[k].value # 0,
         NEW one, one = Bar(ShapeOffset(ts, groups, order, t, k), t.values[k].value),
         NEW other, other = Bar(ShapeOffset(ts, groups, order, u, k), u.values[k].value)
  PROVE  one[2] <= other[1] \/ other[2] <= one[1]
<1> DEFINE S == ColumnOf(ts, groups, ShapeIndices(ts, groups)[t.id])
           v == ValueIn(S, k)
           turn == TurnIn(S, ts, order)
<1>1. t \in S /\ ShapeOffset(ts, groups, order, t, k) = Base(S, v, turn, t)
  BY OffsetIsBase
<1>2. S = ColumnOf(ts, groups, ShapeIndices(ts, groups)[u.id])
  OBVIOUS
<1>3. S \in SUBSET ToSet(ts)
  BY DEF ColumnOf
<1> HIDE DEF S
<1>4. u \in S /\ ShapeOffset(ts, groups, order, u, k) = Base(S, v, turn, u)
  BY <1>2, OffsetIsBase
<1>5. v[t] = t.values[k].value /\ v[u] = u.values[k].value
  BY <1>1, <1>4 DEF ValueIn
<1>6. IsBarColumn(S, v, turn)
  BY <1>3, IsOneColumn
<1> HIDE DEF v, turn
<1> DEFINE bar(w) == Bar(Base(S, v, turn, w), v[w])
<1>7. bar(t)[2] <= bar(u)[1] \/ bar(u)[2] <= bar(t)[1]
  BY <1>1, <1>4, <1>5, <1>6, NoOverlap
<1>8. one = bar(t) /\ other = bar(u)
  BY <1>1, <1>4, <1>5
<1> QED
  BY <1>7, <1>8

\* Every question about bars is answered right.
LEMMA BarsApart == AskedOfQuestions => BarsStackApart
<1> SUFFICES ASSUME AskedOfQuestions, Asked("bars") PROVE BarsStackApart
  BY DEF BarsStackApart
<1> DEFINE i == probe.input
           ts == i.ts
           groups == i.groups
           column == ShapeIndices(ts, groups)
           domain == YDomain(ts, groups, BarAxis)
           value(t, k) == t.values[k].value
           base(t, k) == ShapeOffset(ts, groups, i.order, t, k)
           bar(t, k) == IF value(t, k) < 0 THEN <<base(t, k) + value(t, k), base(t, k)>>
                                           ELSE <<base(t, k), base(t, k) + value(t, k)>>
<1>1. IsBars(i) /\ Null \notin Int
  BY InputAsked, CalculationsAssumption, SnapshotsAssumption
     DEF CalculationsAssumption, SnapshotsAssumption
<1>2. BarsOf(ts, groups)
  BY <1>1 DEF IsBars, BarsOf, OneGroupEach
<1>3. \A t \in ToSet(ts) : \A k \in DOMAIN t.values :
        bar(t, k) = Bar(ShapeOffset(ts, groups, i.order, t, k), t.values[k].value)
  BY DEF Bar
<1> HIDE DEF column, domain, value, bar
<1>4. \A t \in ToSet(ts) : \A k \in DOMAIN t.values :
        domain[1] <= 100 * bar(t, k)[1] /\ 100 * bar(t, k)[2] <= domain[2]
  <2> TAKE t \in ToSet(ts)
  <2> TAKE k \in DOMAIN t.values
  <2>1. bar(t, k) = Bar(ShapeOffset(ts, groups, i.order, t, k), t.values[k].value)
    BY <1>3
  <2>2. domain = YDomain(ts, groups, BarAxis)
    BY DEF domain
  <2> HIDE DEF ts, groups, i
  <2> QED
    BY <1>1, <1>2, <2>1, <2>2, BarShown
<1>5. \A t \in ToSet(ts) : \A u \in ToSet(ts) \ {t} :
        (column[t.id] = column[u.id]) <=> Grouped(groups, t.id, u.id)
  <2> TAKE t \in ToSet(ts)
  <2> TAKE u \in ToSet(ts) \ {t}
  <2> HIDE DEF ts, groups
  <2> QED
    BY <1>2, ColumnsAreGroups DEF column
<1>6. \A t \in ToSet(ts) : \A k \in DOMAIN t.values : \A u \in ToSet(ts) \ {t} :
        column[t.id] = column[u.id] /\ value(t, k) # 0 /\ value(u, k) # 0
          => bar(t, k)[2] <= bar(u, k)[1] \/ bar(u, k)[2] <= bar(t, k)[1]
  <2> TAKE t \in ToSet(ts)
  <2> TAKE k \in DOMAIN t.values
  <2> TAKE u \in ToSet(ts) \ {t}
  <2> SUFFICES ASSUME column[t.id] = column[u.id], value(t, k) # 0, value(u, k) # 0
               PROVE  bar(t, k)[2] <= bar(u, k)[1] \/ bar(u, k)[2] <= bar(t, k)[1]
    OBVIOUS
  <2>1. k \in DOMAIN u.values
    BY <1>2, ValueAt
  <2>2. /\ bar(t, k) = Bar(ShapeOffset(ts, groups, i.order, t, k), t.values[k].value)
        /\ bar(u, k) = Bar(ShapeOffset(ts, groups, i.order, u, k), u.values[k].value)
    BY <1>3, <2>1
  <2>3. ShapeIndices(ts, groups)[t.id] = ShapeIndices(ts, groups)[u.id]
    BY DEF column
  <2>4. t.values[k].value # 0 /\ u.values[k].value # 0
    BY DEF value
  <2> HIDE DEF ts, groups, i
  <2> QED
    BY <1>2, <2>2, <2>3, <2>4, BarsBeside
<1>7. \A t \in ToSet(ts) : \A k \in DOMAIN t.values :
        /\ domain[1] <= 100 * bar(t, k)[1] /\ 100 * bar(t, k)[2] <= domain[2]
        /\ \A u \in ToSet(ts) \ {t} :
             /\ (column[t.id] = column[u.id]) <=> Grouped(groups, t.id, u.id)
             /\ column[t.id] = column[u.id] /\ value(t, k) # 0 /\ value(u, k) # 0
                   => bar(t, k)[2] <= bar(u, k)[1] \/ bar(u, k)[2] <= bar(t, k)[1]
  <2> HIDE DEF ts, groups, i
  <2> QED
    BY <1>4, <1>5, <1>6
<1> QED
  BY <1>7, Zenon DEF BarsStackApart, column, domain, value, bar, BarAxis

\* c3.js shows the data it is given: the same table is the same chart, however
\* it is given, each value stands at its own x, bars stand apart within their
\* axis, the vertical axis is upright and the horizontal one has room.
THEOREM ChartAlwaysShowsData == CalculationsSpec => []ChartShowsData
<1>1. CalculationsInit => AskedOfQuestions
  BY DEF CalculationsInit, AskedOfQuestions
<1>2. AskedOfQuestions => ChartShowsData
  BY TablesAgree, ValuesStandAtX, BarsApart, AxisIsUpright, DomainHolds DEF ChartShowsData
<1> QED
  BY <1>1, <1>2, QuestionsKept, PTL DEF CalculationsSpec
=============================================================================
