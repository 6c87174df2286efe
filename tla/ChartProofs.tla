---------------------------- MODULE ChartProofs -----------------------------
(***************************************************************************)
(* A chart keeps the latest data in order, and the elements of a page that *)
(* waits agree with them: theorems about module Chart, for any set of      *)
(* targets, length of their values, and number of calls of each kind.      *)
(***************************************************************************)
EXTENDS Chart, FiniteSetTheorems, FunctionTheorems, SequenceTheorems, TLAPS

-----------------------------------------------------------------------------
(***************************************************************************)
(* Sequences.                                                              *)
(***************************************************************************)
\* Each value of a finite set has a place in the order of the keys, and each place
\* a value.
LEMMA SortedPlaces ==
  ASSUME NEW S, IsFiniteSet(S), NEW key, \A x \in S : key[x] \in Int,
         \A x, y \in S : key[x] = key[y] => x = y
  PROVE  /\ Cardinality(S) \in Nat
         /\ \A x \in S : /\ Cardinality(Before(S, key, x)) \in 0 .. Cardinality(S) - 1
                         /\ Sorted(S, key)[Cardinality(Before(S, key, x)) + 1] = x
         /\ \A k \in 1 .. Cardinality(S) :
              /\ Sorted(S, key)[k] \in S
              /\ Cardinality(Before(S, key, Sorted(S, key)[k])) = k - 1
<1> DEFINE n == Cardinality(S)
           rank == [x \in S |-> Cardinality(Before(S, key, x))]
<1>1. n \in Nat
  BY FS_CardinalityType
<1>2. ASSUME NEW x \in S
      PROVE  /\ IsFiniteSet(Before(S, key, x))
             /\ rank[x] \in 0 .. n - 1
  <2>1. Before(S, key, x) \in SUBSET (S \ {x})
    BY DEF Before
  <2>2. IsFiniteSet(S \ {x}) /\ Cardinality(S \ {x}) = n - 1
    BY FS_RemoveElement
  <2>3. /\ IsFiniteSet(Before(S, key, x))
        /\ Cardinality(Before(S, key, x)) <= n - 1
        /\ Cardinality(Before(S, key, x)) \in Nat
    BY <2>1, <2>2, FS_Subset, FS_CardinalityType
  <2> QED
    BY <1>1, <2>3
<1>3. ASSUME NEW x \in S, NEW y \in S, key[x] < key[y]
      PROVE  rank[x] < rank[y]
  <2>1. Before(S, key, x) \in SUBSET Before(S, key, y)
    BY <1>3 DEF Before
  <2>2. x \in Before(S, key, y) /\ x \notin Before(S, key, x)
    BY <1>3 DEF Before
  <2>3. /\ Cardinality(Before(S, key, x)) <= Cardinality(Before(S, key, y))
        /\ Cardinality(Before(S, key, x)) # Cardinality(Before(S, key, y))
    BY <1>2, <2>1, <2>2, FS_Subset
  <2> QED
    BY <1>2, <2>3
<1>4. \A x, y \in S : rank[x] = rank[y] => x = y
  <2> SUFFICES ASSUME NEW x \in S, NEW y \in S, rank[x] = rank[y], x # y PROVE FALSE
    OBVIOUS
  <2>1. key[x] < key[y] \/ key[y] < key[x]
    OBVIOUS
  <2>2. rank[x] < rank[y] \/ rank[y] < rank[x]
    BY <1>3, <2>1
  <2> QED
    BY <1>2, <2>2
<1>5. rank \in [S -> 0 .. n - 1]
  BY <1>2
<1>6. \A k \in 0 .. n - 1 : \E x \in S : rank[x] = k
  <2>1. rank \in Injection(S, 0 .. n - 1)
    BY <1>4, <1>5, Fun_IsInj
  <2>2. IsFiniteSet(0 .. n - 1) /\ Cardinality(0 .. n - 1) = n
    BY <1>1, FS_Interval
  <2>3. rank \in Surjection(S, 0 .. n - 1)
    BY <2>1, <2>2, FS_Injection
  <2> HIDE DEF n, rank
  <2> QED
    BY <2>3, Fun_SurjectionProperties
<1>7. ASSUME NEW k \in 1 .. n
      PROVE  /\ Sorted(S, key)[k] \in S
             /\ rank[Sorted(S, key)[k]] = k - 1
             /\ \A x \in S : rank[x] = k - 1 => Sorted(S, key)[k] = x
  <2>1. k - 1 \in 0 .. n - 1
    BY <1>1
  <2>2. PICK x \in S : Cardinality(Before(S, key, x)) = k - 1
    BY <1>6, <2>1
  <2>3. Sorted(S, key)[k] = CHOOSE y \in S : Cardinality(Before(S, key, y)) = k - 1
    BY DEF Sorted
  <2>4. Sorted(S, key)[k] \in S /\ Cardinality(Before(S, key, Sorted(S, key)[k])) = k - 1
    BY <2>2, <2>3
  <2> QED
    BY <1>4, <2>4
<1>8. ASSUME NEW x \in S
      PROVE  Sorted(S, key)[rank[x] + 1] = x
  <2>1. rank[x] + 1 \in 1 .. n /\ (rank[x] + 1) - 1 = rank[x]
    BY <1>1, <1>2
  <2> QED
    BY <1>7, <2>1
<1>9. \A x \in S : rank[x] = Cardinality(Before(S, key, x))
  OBVIOUS
<1> HIDE DEF rank
<1> QED
  BY <1>1, <1>2, <1>7, <1>8, <1>9

\* The order of places is that of numbers.
Order(places) == [i \in places |-> i]

\* The number of those of some places that come before place i.
Rank(places, i) == Cardinality({j \in places : j < i})

\* What is chosen is what is at the places, each at the number of the chosen
\* places before its own.
LEMMA ChosenPlaces ==
  ASSUME NEW T, NEW s \in Seq(T), NEW places \in SUBSET (1 .. Len(s))
  PROVE  /\ Chosen(s, places) \in Seq(T)
         /\ Len(Chosen(s, places)) = Cardinality(places)
         /\ Cardinality(places) \in Nat
         /\ \A i \in places : /\ Rank(places, i) + 1 \in 1 .. Cardinality(places)
                              /\ Chosen(s, places)[Rank(places, i) + 1] = s[i]
         /\ \A k \in 1 .. Cardinality(places) :
              \E i \in places : Chosen(s, places)[k] = s[i] /\ k = Rank(places, i) + 1
<1> DEFINE n == Cardinality(places)
           order == Sorted(places, Order(places))
<1>1. IsFiniteSet(places)
  <2>1. IsFiniteSet(1 .. Len(s))
    BY FS_Interval
  <2> QED
    BY <2>1, FS_Subset
<1>2. /\ \A i \in places : Order(places)[i] = i /\ Order(places)[i] \in Int
      /\ \A i, j \in places : Order(places)[i] = Order(places)[j] => i = j
  BY DEF Order
<1>3. \A i \in places : Before(places, Order(places), i) = {j \in places : j < i}
  BY <1>2 DEF Before
<1>4. /\ n \in Nat
      /\ \A i \in places : /\ Rank(places, i) \in 0 .. n - 1
                           /\ order[Rank(places, i) + 1] = i
      /\ \A k \in 1 .. n : order[k] \in places /\ Rank(places, order[k]) = k - 1
  <2>1. /\ Cardinality(places) \in Nat
        /\ \A x \in places :
             /\ Cardinality(Before(places, Order(places), x)) \in 0 .. Cardinality(places) - 1
             /\ Sorted(places, Order(places))[Cardinality(Before(places, Order(places), x)) + 1] = x
        /\ \A k \in 1 .. Cardinality(places) :
              /\ Sorted(places, Order(places))[k] \in places
              /\ Cardinality(Before(places, Order(places), Sorted(places, Order(places))[k])) = k - 1
    <3> HIDE DEF n, order
    <3> QED
      BY <1>1, <1>2, SortedPlaces
  <2>2. \A i \in places : Rank(places, i) = Cardinality(Before(places, Order(places), i))
    BY <1>3 DEF Rank
  <2> QED
    BY <2>1, <2>2
<1>5. Chosen(s, places) = [k \in 1 .. n |-> s[order[k]]]
  BY DEF Chosen, Order
<1> HIDE DEF n, order
<1>6. ASSUME NEW k \in 1 .. n
      PROVE  s[order[k]] \in T
  <2>1. order[k] \in 1 .. Len(s)
    BY <1>4
  <2> QED
    BY <2>1
<1>7. Chosen(s, places) \in Seq(T) /\ Len(Chosen(s, places)) = n
  BY <1>4, <1>5, <1>6
<1>8. ASSUME NEW i \in places
      PROVE  /\ Rank(places, i) + 1 \in 1 .. n
             /\ Chosen(s, places)[Rank(places, i) + 1] = s[i]
  <2>1. Rank(places, i) + 1 \in 1 .. n
    BY <1>4
  <2> QED
    BY <1>4, <1>5, <2>1
<1>9. ASSUME NEW k \in 1 .. n
      PROVE  \E i \in places : Chosen(s, places)[k] = s[i] /\ k = Rank(places, i) + 1
  <2>1. order[k] \in places /\ Rank(places, order[k]) = k - 1
    BY <1>4
  <2>2. k = (k - 1) + 1
    BY <1>4
  <2> QED
    BY <1>5, <2>1, <2>2
<1> QED
  BY <1>4, <1>7, <1>8, <1>9 DEF n

\* The rank of a place grows with the place.
LEMMA RankGrows ==
  ASSUME NEW n \in Nat, NEW places \in SUBSET (1 .. n),
         NEW i \in places, NEW j \in places, i < j
  PROVE  Rank(places, i) < Rank(places, j)
<1> DEFINE before(k) == {l \in places : l < k}
<1>1. IsFiniteSet(before(j)) /\ IsFiniteSet(before(i))
  <2>1. IsFiniteSet(1 .. n)
    BY FS_Interval
  <2> QED
    BY <2>1, FS_Subset
<1>2. before(i) \in SUBSET before(j) /\ i \in before(j) /\ i \notin before(i)
  <2>1. \A l \in places : l \in Nat
    OBVIOUS
  <2>2. \A l \in places : l < i => l < j
    BY <2>1
  <2>3. ~ (i < i)
    BY <2>1
  <2> QED
    BY <2>2, <2>3
<1>3. /\ Cardinality(before(i)) \in Nat /\ Cardinality(before(j)) \in Nat
      /\ Cardinality(before(i)) <= Cardinality(before(j))
      /\ Cardinality(before(i)) # Cardinality(before(j))
  BY <1>1, <1>2, FS_Subset, FS_CardinalityType
<1> QED
  BY <1>3 DEF Rank

\* If all places are chosen, the rank of each is its own number.
LEMMA RankOfAll ==
  ASSUME NEW n \in Nat, NEW i \in 1 .. n
  PROVE  Rank(1 .. n, i) = i - 1
<1>1. {j \in 1 .. n : j < i} = 1 .. i - 1
  OBVIOUS
<1>2. 1 \in Int /\ i - 1 \in Int
  OBVIOUS
<1>3. Cardinality(1 .. i - 1) = IF 1 > i - 1 THEN 0 ELSE (i - 1) - 1 + 1
  BY <1>2, FS_Interval
<1>4. Cardinality(1 .. i - 1) = i - 1
  BY <1>3
<1> QED
  BY <1>1, <1>4 DEF Rank

\* RemoveAt.
LEMMA Removed ==
  ASSUME NEW T, NEW s \in Seq(T), NEW i \in 1 .. Len(s)
  PROVE  /\ RemoveAt(s, i) \in Seq(T) /\ Len(RemoveAt(s, i)) = Len(s) - 1
         /\ \A j \in 1 .. Len(s) - 1 :
              RemoveAt(s, i)[j] = IF j < i THEN s[j] ELSE s[j + 1]
<1>1. SubSeq(s, 1, i - 1) \in Seq(T) /\ Len(SubSeq(s, 1, i - 1)) = i - 1
  OBVIOUS
<1>2. /\ SubSeq(s, i + 1, Len(s)) \in Seq(T) /\ Len(SubSeq(s, i + 1, Len(s))) = Len(s) - i
      /\ \A j \in 1 .. Len(s) - i : SubSeq(s, i + 1, Len(s))[j] = s[i + j]
  <2>1. Len(s) \in Nat
    OBVIOUS
  <2>2. SubSeq(s, i + 1, Len(s)) \in Seq(T)
    OBVIOUS
  <2>3. Len(SubSeq(s, i + 1, Len(s))) = Len(s) - i
    BY <2>1
  <2> QED
    BY <2>1, <2>2, <2>3
<1>3. \A j \in 1 .. i - 1 : SubSeq(s, 1, i - 1)[j] = s[j]
  OBVIOUS
<1> DEFINE front == SubSeq(s, 1, i - 1)
           back == SubSeq(s, i + 1, Len(s))
<1> HIDE DEF front, back
<1>4. RemoveAt(s, i) = front \o back
  BY DEF RemoveAt, front, back
<1>5. /\ front \in Seq(T) /\ Len(front) = i - 1 /\ \A j \in 1 .. i - 1 : front[j] = s[j]
      /\ back \in Seq(T) /\ Len(back) = Len(s) - i
      /\ \A j \in 1 .. Len(s) - i : back[j] = s[i + j]
  BY <1>1, <1>2, <1>3 DEF front, back
<1>6. /\ front \o back \in Seq(T) /\ Len(front \o back) = Len(front) + Len(back)
      /\ \A j \in 1 .. Len(front) + Len(back) :
           (front \o back)[j] = IF j <= Len(front) THEN front[j] ELSE back[j - Len(front)]
  BY <1>5, ConcatProperties
<1>7. Len(s) \in Nat /\ i \in Int /\ Len(front) + Len(back) = Len(s) - 1
  BY <1>5
<1>8. ASSUME NEW j \in 1 .. Len(s) - 1
      PROVE  (front \o back)[j] = IF j < i THEN s[j] ELSE s[j + 1]
  <2>1. j \in 1 .. Len(front) + Len(back)
    BY <1>7
  <2>2. CASE j < i
    <3>1. j \in 1 .. i - 1 /\ j <= Len(front)
      BY <1>5, <1>7, <2>2
    <3> QED
      BY <1>5, <1>6, <2>1, <2>2, <3>1
  <2>3. CASE ~ (j < i)
    <3>1. j - (i - 1) \in 1 .. Len(s) - i /\ ~ (j <= Len(front)) /\ i + (j - (i - 1)) = j + 1
      BY <1>5, <1>7, <2>3
    <3> QED
      BY <1>5, <1>6, <2>1, <2>3, <3>1
  <2> QED
    BY <2>2, <2>3
<1> QED
  BY <1>4, <1>6, <1>7, <1>8

-----------------------------------------------------------------------------
(***************************************************************************)
(* The data: no two targets of one id, values that run on without a gap,   *)
(* and the latest of those that were given.                                *)
(***************************************************************************)
Value == [index : Nat, value : Null .. MaxData]
Target == [id : Ids, values : Seq(Value)]

Distinct(ts) == \A i, j \in 1 .. Len(ts) : ts[i].id = ts[j].id => i = j

Runs(values) == \A k \in 1 .. Len(values) : values[k].index = values[1].index + k - 1

Latest(values, all) ==
    /\ Len(values) <= Len(all)
    /\ \A k \in 1 .. Len(values) : values[k].value = all[Len(all) - Len(values) + k]

\* Targets that are fit to be loaded.
Loadable(ts) ==
    /\ ts \in Seq(Target) /\ Distinct(ts)
    /\ \A i \in 1 .. Len(ts) : Len(ts[i].values) = LoadLength /\ Runs(ts[i].values)

\* Targets that are right for what was given.
Right(ts, all) ==
    /\ ts \in Seq(Target) /\ Distinct(ts)
    /\ \A i \in 1 .. Len(ts) : Runs(ts[i].values) /\ Latest(ts[i].values, all[ts[i].id])

\* What was given has its type.
GivenTyped(all) == all \in [Ids -> Seq(Null .. MaxData)]

CallsTyped == calls \in [data : 0 .. MaxData, view : 0 .. MaxViews]

\* A call of the page may give values.
MayGive == CallsTyped /\ calls.data < MaxData

\* The place of a target.
Which(ts, id) == CHOOSE k \in DOMAIN ts : ts[k].id = id

LEMMA WhichTarget ==
  ASSUME NEW ts, ts \in Seq(Target), NEW id
  PROVE  /\ HasTarget(ts, id) <=> \E k \in 1 .. Len(ts) : ts[k].id = id
         /\ HasTarget(ts, id) => Which(ts, id) \in 1 .. Len(ts) /\ ts[Which(ts, id)].id = id
         /\ Distinct(ts) => \A k \in 1 .. Len(ts) : ts[k].id = id => Which(ts, id) = k
<1>1. DOMAIN ts = 1 .. Len(ts)
  OBVIOUS
<1>2. HasTarget(ts, id) <=> \E k \in 1 .. Len(ts) : ts[k].id = id
  BY <1>1 DEF HasTarget
<1>3. HasTarget(ts, id) => Which(ts, id) \in 1 .. Len(ts) /\ ts[Which(ts, id)].id = id
  BY <1>1, <1>2 DEF Which
<1>4. Distinct(ts) => \A k \in 1 .. Len(ts) : ts[k].id = id => Which(ts, id) = k
  BY <1>2, <1>3 DEF Distinct
<1> QED
  BY <1>2, <1>3, <1>4

\* The value that a call gives.
LEMMA GivenValue ==
  ASSUME ChartAssumption, MayGive, NEW n \in Nat
  PROVE  /\ Given(n) \in Seq(Null .. MaxData) /\ Len(Given(n)) = n
         /\ DOMAIN Given(n) = 1 .. n
<1>1. calls.data + 1 \in Null .. MaxData
  <2>1. calls.data \in 0 .. MaxData /\ calls.data < MaxData /\ MaxData \in Nat
    BY DEF MayGive, CallsTyped, ChartAssumption
  <2> QED
    BY <2>1 DEF Null
<1>2. Given(n) = [k \in 1 .. n |-> calls.data + 1]
  BY DEF Given
<1> QED
  BY <1>1, <1>2

\* What is converted can be loaded.
LEMMA ConvertedLoadable ==
  ASSUME ChartAssumption, MayGive, NEW ids \in IdLists
  PROVE  Loadable(Converted(ids)) /\ Len(Converted(ids)) = Len(ids)
<1> DEFINE values == [k \in 1 .. LoadLength |->
                        [index |-> k - 1, value |-> Given(LoadLength)[k]]]
<1>1. /\ LoadLength \in Nat /\ LoadLength >= 2
      /\ ids \in Seq(Ids) /\ DOMAIN ids = 1 .. Len(ids)
      /\ \A i, j \in 1 .. Len(ids) : ids[i] = ids[j] => i = j
  <2>1. ids \in Seq(Ids) /\ IsInjective(ids) /\ LoadLength \in Nat \ {0, 1}
    BY DEF ChartAssumption
  <2> QED
    BY <2>1 DEF IsInjective
<1>2. /\ Given(LoadLength) \in Seq(Null .. MaxData) /\ Len(Given(LoadLength)) = LoadLength
  BY <1>1, GivenValue
<1>3. values \in Seq(Value) /\ Len(values) = LoadLength
  <2>1. ASSUME NEW k \in 1 .. LoadLength
        PROVE  [index |-> k - 1, value |-> Given(LoadLength)[k]] \in Value
    <3>1. k - 1 \in Nat
      BY <1>1
    <3>2. Given(LoadLength)[k] \in Null .. MaxData
      <4>1. k \in 1 .. Len(Given(LoadLength))
        BY <1>2
      <4> QED
        BY <1>2, <4>1, ElementOfSeq
    <3> QED
      BY <3>1, <3>2 DEF Value
  <2> QED
    BY <1>1, <2>1
<1>4. Runs(values)
  <2>1. 1 \in 1 .. LoadLength
    BY <1>1
  <2>2. values[1].index = 0 /\ \A k \in 1 .. LoadLength : values[k].index = k - 1
    BY <2>1
  <2> QED
    BY <1>1, <1>3, <2>2 DEF Runs
<1> HIDE DEF values
<1>5. Converted(ids) = [i \in 1 .. Len(ids) |-> [id |-> ids[i], values |-> values]]
  BY <1>1 DEF Converted, values
<1>6. \A i \in 1 .. Len(ids) : [id |-> ids[i], values |-> values] \in Target
  BY <1>1, <1>3 DEF Target
<1>7. Converted(ids) \in Seq(Target) /\ Len(Converted(ids)) = Len(ids)
  BY <1>1, <1>5, <1>6
<1> QED
  BY <1>1, <1>3, <1>4, <1>5, <1>7 DEF Loadable, Distinct

\* What load makes of the targets: those there keep their places and ids, and
\* each target is the loaded one of its id, if there is one, or else as it was.
LEMMA LoadedTargets ==
  ASSUME NEW ts, ts \in Seq(Target), Distinct(ts), NEW loaded, Loadable(loaded)
  PROVE  /\ Loaded(ts, loaded) \in Seq(Target) /\ Distinct(Loaded(ts, loaded))
         /\ Len(Loaded(ts, loaded)) >= Len(ts)
         /\ \A i \in 1 .. Len(ts) : Loaded(ts, loaded)[i].id = ts[i].id
         /\ \A i \in 1 .. Len(Loaded(ts, loaded)) :
              LET t == Loaded(ts, loaded)[i]
              IN  IF HasTarget(loaded, t.id) THEN t = loaded[Which(loaded, t.id)]
                  ELSE i \in 1 .. Len(ts) /\ t = ts[i]
<1> DEFINE new == {k \in 1 .. Len(loaded) : ~ HasTarget(ts, loaded[k].id)}
           old == [i \in 1 .. Len(ts) |-> IF HasTarget(loaded, ts[i].id)
                                          THEN loaded[Which(loaded, ts[i].id)] ELSE ts[i]]
           added == Added(ts, loaded)
           all == Loaded(ts, loaded)
           n == Len(ts)
<1>1. /\ loaded \in Seq(Target) /\ Distinct(loaded)
      /\ DOMAIN ts = 1 .. n /\ DOMAIN loaded = 1 .. Len(loaded) /\ n \in Nat
  BY DEF Loadable
<1>2. /\ added \in Seq(Target) /\ Len(added) = Cardinality(new)
      /\ \A k \in 1 .. Len(added) :
           \E p \in new : added[k] = loaded[p] /\ k = Rank(new, p) + 1
  <2>1. added = Chosen(loaded, new)
    BY <1>1 DEF Added
  <2>2. new \in SUBSET (1 .. Len(loaded))
    OBVIOUS
  <2> HIDE DEF new, added
  <2>3. /\ Chosen(loaded, new) \in Seq(Target)
        /\ Len(Chosen(loaded, new)) = Cardinality(new)
        /\ \A k \in 1 .. Cardinality(new) :
             \E p \in new : Chosen(loaded, new)[k] = loaded[p] /\ k = Rank(new, p) + 1
    BY <1>1, <2>2, ChosenPlaces
  <2> QED
    BY <2>1, <2>3
<1>3. /\ old \in Seq(Target) /\ Len(old) = n
      /\ \A i \in 1 .. n : old[i].id = ts[i].id
  <2>1. ASSUME NEW i \in 1 .. n
        PROVE  old[i] \in Target /\ old[i].id = ts[i].id
    <3>1. CASE HasTarget(loaded, ts[i].id)
      <4>1. Which(loaded, ts[i].id) \in 1 .. Len(loaded) /\ loaded[Which(loaded, ts[i].id)].id = ts[i].id
        BY <1>1, <3>1, WhichTarget
      <4> QED
        BY <1>1, <3>1, <4>1
    <3>2. CASE ~ HasTarget(loaded, ts[i].id)
      BY <1>1, <3>2
    <3> QED
      BY <3>1, <3>2
  <2>2. DOMAIN old = 1 .. n
    OBVIOUS
  <2> QED
    BY <1>1, <2>1, <2>2
<1>4. all = old \o added
  <2>1. all = [i \in DOMAIN ts |->
                IF HasTarget(loaded, ts[i].id)
                THEN loaded[CHOOSE k \in DOMAIN loaded : loaded[k].id = ts[i].id] ELSE ts[i]]
              \o added
    BY DEF Loaded
  <2> HIDE DEF all, added
  <2> QED
    BY <1>1, <2>1 DEF Which
<1> HIDE DEF all, added
<1>5. /\ all \in Seq(Target) /\ Len(all) = n + Len(added)
      /\ \A i \in 1 .. n : all[i] = old[i]
      /\ \A i \in 1 .. Len(all) : ~ (i \in 1 .. n) =>
           i - n \in 1 .. Len(added) /\ all[i] = added[i - n]
  <2> HIDE DEF old
  <2>1. /\ old \o added \in Seq(Target)
        /\ Len(old \o added) = Len(old) + Len(added)
        /\ \A i \in 1 .. Len(old) + Len(added) :
             (old \o added)[i] = IF i <= Len(old) THEN old[i] ELSE added[i - Len(old)]
    BY <1>2, <1>3, ConcatProperties, ZenonT(40)
  <2>2. Len(added) \in Nat
    BY <1>2
  <2> QED
    BY <1>1, <1>3, <1>4, <2>1, <2>2
<1>6. ASSUME NEW i \in 1 .. Len(all), ~ (i \in 1 .. n)
      PROVE  \E p \in 1 .. Len(loaded) :
               /\ all[i] = loaded[p] /\ i = n + Rank(new, p) + 1
               /\ p \in new /\ ~ HasTarget(ts, loaded[p].id)
  <2>1. i - n \in 1 .. Len(added) /\ all[i] = added[i - n]
    BY <1>5, <1>6
  <2>2. PICK p \in new : added[i - n] = loaded[p] /\ i - n = Rank(new, p) + 1
    BY <1>2, <2>1
  <2>3. i = n + Rank(new, p) + 1
    <3>1. i \in Int /\ n \in Int
      BY <1>1
    <3>2. Rank(new, p) \in Int
      <4>1. new \in SUBSET (1 .. Len(loaded)) /\ p \in new
        OBVIOUS
      <4>2. IsFiniteSet(1 .. Len(loaded))
        BY <1>1, FS_Interval
      <4>3. IsFiniteSet({j \in new : j < p})
        BY <4>1, <4>2, FS_Subset
      <4> QED
        BY <4>3, FS_CardinalityType DEF Rank
    <3> QED
      BY <2>2, <3>1, <3>2
  <2> QED
    BY <2>1, <2>2, <2>3
<1>7. Distinct(all)
  <2> SUFFICES ASSUME NEW i \in 1 .. Len(all), NEW j \in 1 .. Len(all), all[i].id = all[j].id
               PROVE  i = j
    BY DEF Distinct
  <2>1. CASE i \in 1 .. n /\ j \in 1 .. n
    BY <1>3, <1>5, <2>1 DEF Distinct
  <2>2. ASSUME NEW k \in 1 .. n, NEW l \in 1 .. Len(all), ~ (l \in 1 .. n)
        PROVE  all[k].id # all[l].id
    <3>1. PICK p \in 1 .. Len(loaded) : all[l] = loaded[p] /\ ~ HasTarget(ts, loaded[p].id)
      BY <1>6, <2>2
    <3>2. all[k].id = ts[k].id
      BY <1>3, <1>5
    <3> QED
      BY <3>1, <3>2, WhichTarget
  <2>3. CASE ~ (i \in 1 .. n) /\ ~ (j \in 1 .. n)
    <3>1. PICK p \in 1 .. Len(loaded) : all[i] = loaded[p] /\ i = n + Rank(new, p) + 1
      BY <1>6, <2>3
    <3>2. PICK q \in 1 .. Len(loaded) : all[j] = loaded[q] /\ j = n + Rank(new, q) + 1
      BY <1>6, <2>3
    <3>3. p = q
      BY <1>1, <3>1, <3>2 DEF Distinct
    <3> QED
      BY <3>1, <3>2, <3>3
  <2> QED
    BY <2>1, <2>2, <2>3
<1>8. ASSUME NEW i \in 1 .. Len(all)
      PROVE  IF HasTarget(loaded, all[i].id) THEN all[i] = loaded[Which(loaded, all[i].id)]
             ELSE i \in 1 .. n /\ all[i] = ts[i]
  <2>1. CASE i \in 1 .. n
    BY <1>3, <1>5, <2>1
  <2>2. CASE ~ (i \in 1 .. n)
    <3>1. PICK p \in 1 .. Len(loaded) : all[i] = loaded[p]
      BY <1>6, <2>2
    <3>2. HasTarget(loaded, all[i].id) /\ Which(loaded, all[i].id) = p
      BY <1>1, <3>1, WhichTarget
    <3> QED
      BY <3>1, <3>2
  <2> QED
    BY <2>1, <2>2
<1>9. Len(all) >= n /\ \A i \in 1 .. n : all[i].id = ts[i].id
  BY <1>1, <1>2, <1>3, <1>5
<1> QED
  BY <1>5, <1>7, <1>8, <1>9 DEF all

\* Loading keeps the targets right.
LEMMA LoadKeepsRight ==
  ASSUME Right(targets, given), GivenTyped(given), NEW loaded, Loadable(loaded)
  PROVE  /\ Right(Loaded(targets, loaded), GivenBy(loaded))
         /\ GivenTyped(GivenBy(loaded))
<1> DEFINE all == Loaded(targets, loaded)
           values(t) == [k \in DOMAIN t.values |-> t.values[k].value]
<1>1. /\ targets \in Seq(Target) /\ Distinct(targets)
      /\ loaded \in Seq(Target) /\ Distinct(loaded)
      /\ \A i \in 1 .. Len(loaded) : Runs(loaded[i].values)
  BY DEF Right, Loadable
<1>2. /\ all \in Seq(Target) /\ Distinct(all)
      /\ \A i \in 1 .. Len(all) :
           IF HasTarget(loaded, all[i].id) THEN all[i] = loaded[Which(loaded, all[i].id)]
           ELSE i \in 1 .. Len(targets) /\ all[i] = targets[i]
  BY <1>1, LoadedTargets
<1>3. ASSUME NEW t \in Target
      PROVE  /\ values(t) \in Seq(Null .. MaxData) /\ Len(values(t)) = Len(t.values)
             /\ \A k \in 1 .. Len(t.values) : values(t)[k] = t.values[k].value
  <2>1. t.values \in Seq(Value)
    BY DEF Target
  <2>2. \A k \in 1 .. Len(t.values) : t.values[k].value \in Null .. MaxData
    <3>1. \A k \in 1 .. Len(t.values) : t.values[k] \in Value
      BY <2>1
    <3> QED
      BY <3>1 DEF Value
  <2>3. /\ DOMAIN t.values = 1 .. Len(t.values) /\ Len(t.values) \in Nat
        /\ values(t) = [k \in 1 .. Len(t.values) |-> t.values[k].value]
    BY <2>1
  <2> HIDE DEF values
  <2> QED
    BY <2>2, <2>3
<1>4. GivenBy(loaded) = [id \in Ids |-> IF HasTarget(loaded, id)
                                        THEN values(loaded[Which(loaded, id)]) ELSE given[id]]
  BY DEF GivenBy, Which
<1> HIDE DEF values
<1>5. GivenTyped(GivenBy(loaded))
  <2>1. ASSUME NEW id \in Ids
        PROVE  GivenBy(loaded)[id] \in Seq(Null .. MaxData)
    <3>1. CASE HasTarget(loaded, id)
      <4>1. loaded[Which(loaded, id)] \in Target
        BY <1>1, <3>1, WhichTarget
      <4> QED
        BY <1>3, <1>4, <3>1, <4>1
    <3>2. CASE ~ HasTarget(loaded, id)
      BY <1>4, <3>2 DEF GivenTyped
    <3> QED
      BY <3>1, <3>2
  <2> QED
    BY <1>4, <2>1 DEF GivenTyped
<1> HIDE DEF all
<1>6. ASSUME NEW i \in 1 .. Len(all)
      PROVE  Runs(all[i].values) /\ Latest(all[i].values, GivenBy(loaded)[all[i].id])
  <2>1. all[i] \in Target /\ all[i].id \in Ids /\ all[i].values \in Seq(Value)
    <3>1. all[i] \in Target
      BY <1>2
    <3> QED
      BY <3>1 DEF Target
  <2>2. CASE HasTarget(loaded, all[i].id)
    <3>1. /\ Which(loaded, all[i].id) \in 1 .. Len(loaded)
          /\ all[i] = loaded[Which(loaded, all[i].id)]
      BY <1>1, <1>2, <2>2, WhichTarget
    <3>2. GivenBy(loaded)[all[i].id] = values(all[i])
      BY <1>4, <2>1, <2>2, <3>1
    <3>3. Latest(all[i].values, values(all[i]))
      <4>1. Len(all[i].values) \in Nat
        BY <2>1
      <4>2. \A k \in 1 .. Len(all[i].values) :
              Len(all[i].values) - Len(all[i].values) + k = k
        BY <4>1
      <4>3. /\ Len(values(all[i])) = Len(all[i].values)
            /\ \A k \in 1 .. Len(all[i].values) : values(all[i])[k] = all[i].values[k].value
        BY <1>3, <2>1
      <4> QED
        BY <4>1, <4>2, <4>3 DEF Latest
    <3> QED
      BY <1>1, <3>1, <3>2, <3>3
  <2>3. CASE ~ HasTarget(loaded, all[i].id)
    <3>1. i \in 1 .. Len(targets) /\ all[i] = targets[i]
      BY <1>2, <2>3
    <3> QED
      BY <1>4, <2>1, <2>3, <3>1 DEF Right
  <2> QED
    BY <2>2, <2>3
<1> QED
  BY <1>2, <1>5, <1>6 DEF Right, all

\* Targets taken out leave the others as they are, and in their order.
Left(ts, ids) == {i \in 1 .. Len(ts) : ~ Contains(ids, ts[i].id)}

LEMMA WithoutTargetsPlaces ==
  ASSUME NEW ts, ts \in Seq(Target), NEW ids
  PROVE  /\ WithoutTargets(ts, ids) \in Seq(Target)
         /\ Len(WithoutTargets(ts, ids)) = Cardinality(Left(ts, ids))
         /\ \A i \in Left(ts, ids) :
              /\ Rank(Left(ts, ids), i) + 1 \in 1 .. Cardinality(Left(ts, ids))
              /\ WithoutTargets(ts, ids)[Rank(Left(ts, ids), i) + 1] = ts[i]
         /\ \A k \in 1 .. Cardinality(Left(ts, ids)) : \E i \in Left(ts, ids) :
              WithoutTargets(ts, ids)[k] = ts[i] /\ k = Rank(Left(ts, ids), i) + 1
<1> DEFINE places == Left(ts, ids)
<1>1. WithoutTargets(ts, ids) = Chosen(ts, places)
  <2>1. DOMAIN ts = 1 .. Len(ts)
    OBVIOUS
  <2> QED
    BY <2>1 DEF WithoutTargets, Left
<1>2. places \in SUBSET (1 .. Len(ts)) /\ ts \in Seq(Target)
  BY DEF Left
<1> HIDE DEF places
<1>3. /\ Chosen(ts, places) \in Seq(Target)
      /\ Len(Chosen(ts, places)) = Cardinality(places)
  BY <1>2, ChosenPlaces
<1>4. \A i \in places : /\ Rank(places, i) + 1 \in 1 .. Cardinality(places)
                         /\ Chosen(ts, places)[Rank(places, i) + 1] = ts[i]
  BY <1>2, ChosenPlaces
<1>5. \A k \in 1 .. Cardinality(places) :
        \E i \in places : Chosen(ts, places)[k] = ts[i] /\ k = Rank(places, i) + 1
  BY <1>2, ChosenPlaces
<1> QED
  BY <1>1, <1>3, <1>4, <1>5 DEF places

LEMMA WithoutKeepsRight ==
  ASSUME NEW ts, NEW all, Right(ts, all), NEW ids
  PROVE  Right(WithoutTargets(ts, ids), all)
<1> DEFINE places == Left(ts, ids)
           rest == WithoutTargets(ts, ids)
<1>1. ts \in Seq(Target) /\ Distinct(ts)
  BY DEF Right
<1>2. /\ rest \in Seq(Target) /\ Len(rest) = Cardinality(places)
      /\ \A k \in 1 .. Cardinality(places) : \E i \in places :
           rest[k] = ts[i] /\ k = Rank(places, i) + 1
  BY <1>1, WithoutTargetsPlaces
<1>3. \A i \in places : i \in 1 .. Len(ts)
  BY DEF Left
<1> HIDE DEF places, rest
<1>4. Distinct(rest)
  <2> SUFFICES ASSUME NEW k \in 1 .. Len(rest), NEW l \in 1 .. Len(rest), rest[k].id = rest[l].id
               PROVE  k = l
    BY DEF Distinct
  <2>1. PICK i \in places : rest[k] = ts[i] /\ k = Rank(places, i) + 1
    BY <1>2
  <2>2. PICK j \in places : rest[l] = ts[j] /\ l = Rank(places, j) + 1
    BY <1>2
  <2>3. i = j
    BY <1>1, <1>3, <2>1, <2>2 DEF Distinct
  <2> QED
    BY <2>1, <2>2, <2>3
<1>5. ASSUME NEW k \in 1 .. Len(rest)
      PROVE  Runs(rest[k].values) /\ Latest(rest[k].values, all[rest[k].id])
  <2>1. PICK i \in places : rest[k] = ts[i]
    BY <1>2
  <2> QED
    BY <1>3, <2>1 DEF Right
<1> QED
  BY <1>2, <1>4, <1>5 DEF Right, rest

\* Removing heads leaves the later values.
LEMMA BeheadedKeepsRight ==
  ASSUME NEW ts, NEW all, Right(ts, all), GivenTyped(all), NEW n \in Nat
  PROVE  /\ Right(Beheaded(ts, n), all)
         /\ Len(Beheaded(ts, n)) = Len(ts)
         /\ \A i \in 1 .. Len(ts) :
              /\ Beheaded(ts, n)[i].id = ts[i].id
              /\ n <= Len(ts[i].values) =>
                   Len(Beheaded(ts, n)[i].values) = Len(ts[i].values) - n
<1> DEFINE cut(i) == SubSeq(ts[i].values, n + 1, Len(ts[i].values))
           rest == Beheaded(ts, n)
<1>1. ts \in Seq(Target) /\ Distinct(ts) /\ DOMAIN ts = 1 .. Len(ts)
  BY DEF Right
<1>2. ASSUME NEW i \in 1 .. Len(ts)
      PROVE  /\ ts[i] \in Target /\ ts[i].values \in Seq(Value) /\ Len(ts[i].values) \in Nat
             /\ cut(i) \in Seq(Value)
             /\ Len(cut(i)) = IF n <= Len(ts[i].values) THEN Len(ts[i].values) - n ELSE 0
             /\ \A k \in 1 .. Len(cut(i)) : cut(i)[k] = ts[i].values[n + k]
  <2>1. ts[i] \in Target /\ ts[i].values \in Seq(Value) /\ Len(ts[i].values) \in Nat
    <3>1. ts[i] \in Target
      BY <1>1
    <3> QED
      BY <3>1 DEF Target
  <2> DEFINE values == ts[i].values
  <2>2. values \in Seq(Value) /\ Len(values) \in Nat
    BY <2>1
  <2> HIDE DEF values
  <2>3. /\ SubSeq(values, n + 1, Len(values)) \in Seq(Value)
        /\ Len(SubSeq(values, n + 1, Len(values))) = IF n <= Len(values) THEN Len(values) - n ELSE 0
    BY <2>2
  <2>4. \A k \in 1 .. Len(SubSeq(values, n + 1, Len(values))) :
          SubSeq(values, n + 1, Len(values))[k] = values[n + k]
    BY <2>2, <2>3
  <2> QED
    BY <2>1, <2>3, <2>4 DEF values
<1>3. rest = [i \in 1 .. Len(ts) |-> [ts[i] EXCEPT !.values = cut(i)]]
  BY <1>1 DEF Beheaded
<1> HIDE DEF cut, rest
<1>4. ASSUME NEW i \in 1 .. Len(ts)
      PROVE  rest[i] \in Target /\ rest[i].id = ts[i].id /\ rest[i].values = cut(i)
  BY <1>2, <1>3 DEF Target
<1>5. rest \in Seq(Target) /\ Len(rest) = Len(ts)
  <2>1. Len(ts) \in Nat /\ DOMAIN rest = 1 .. Len(ts)
    BY <1>1, <1>3
  <2>2. rest = [i \in 1 .. Len(ts) |-> rest[i]]
    BY <1>3, <2>1
  <2> QED
    BY <1>4, <2>1, <2>2
<1>6. Distinct(rest)
  BY <1>1, <1>4, <1>5 DEF Distinct
<1>7. ASSUME NEW i \in 1 .. Len(rest)
      PROVE  Runs(rest[i].values) /\ Latest(rest[i].values, all[rest[i].id])
  <2> DEFINE values == ts[i].values
             part == cut(i)
             history == all[ts[i].id]
  <2>1. /\ i \in 1 .. Len(ts) /\ rest[i].values = part /\ rest[i].id = ts[i].id
        /\ Runs(values) /\ Latest(values, history)
    BY <1>4, <1>5 DEF Right
  <2>2. /\ values \in Seq(Value) /\ Len(values) \in Nat
        /\ Len(part) = IF n <= Len(values) THEN Len(values) - n ELSE 0
        /\ \A k \in 1 .. Len(part) : part[k] = values[n + k]
    BY <1>2, <2>1
  <2>3. Len(history) \in Nat
    <3>1. ts[i].id \in Ids
      BY <1>2, <2>1 DEF Target
    <3> QED
      BY <3>1 DEF GivenTyped
  <2>4. \A k \in 1 .. Len(values) : values[k].index \in Nat
    <3>1. \A k \in 1 .. Len(values) : values[k] \in Value
      BY <2>2
    <3> QED
      BY <3>1 DEF Value
  <2> HIDE DEF values, part, history
  <2>5. ASSUME NEW k \in 1 .. Len(part)
        PROVE  /\ part[k].index = part[1].index + k - 1
               /\ part[k].value = history[Len(history) - Len(part) + k]
    <3>1. /\ n + k \in 1 .. Len(values) /\ n + 1 \in 1 .. Len(values) /\ 1 \in 1 .. Len(values)
          /\ 1 \in 1 .. Len(part) /\ Len(part) = Len(values) - n
      BY <2>2
    <3>2. /\ part[k] = values[n + k] /\ part[1] = values[n + 1]
      BY <2>2, <3>1
    <3>3. /\ values[n + k].index = values[1].index + (n + k) - 1
          /\ values[n + 1].index = values[1].index + (n + 1) - 1
      BY <2>1, <3>1 DEF Runs
    <3>4. values[n + k].value = history[Len(history) - Len(values) + (n + k)]
      BY <2>1, <3>1 DEF Latest
    <3>5. Len(history) - Len(values) + (n + k) = Len(history) - Len(part) + k
      <4>1. /\ k \in Int /\ n \in Int /\ Len(values) \in Int /\ Len(history) \in Int
            /\ Len(part) = Len(values) - n
        BY <2>2, <2>3, <3>1
      <4> QED
        BY <4>1
    <3>6. part[k].index = part[1].index + k - 1
      <4>1. k \in Int /\ n \in Int /\ values[1].index \in Int
        BY <2>2, <2>4, <3>1
      <4>2. values[1].index + (n + k) - 1 = (values[1].index + (n + 1) - 1) + k - 1
        BY <4>1
      <4> QED
        BY <3>2, <3>3, <4>2
    <3> QED
      BY <3>2, <3>4, <3>5, <3>6
  <2>6. Len(part) <= Len(history)
    BY <2>1, <2>2, <2>3 DEF Latest
  <2> QED
    BY <2>1, <2>5, <2>6 DEF Runs, Latest, history
<1>8. \A i \in 1 .. Len(ts) : n <= Len(ts[i].values) => Len(rest[i].values) = Len(ts[i].values) - n
  BY <1>2, <1>4
<1> QED
  BY <1>4, <1>5, <1>6, <1>7, <1>8 DEF Right, rest

-----------------------------------------------------------------------------
(***************************************************************************)
(* The data of a flow.                                                     *)
(***************************************************************************)
\* Values are added behind those there are.
LEMMA AtValues ==
  ASSUME NEW t \in Target, NEW from \in Nat, NEW values \in Seq(Null .. MaxData)
  PROVE  /\ At(t, from, values) \in Target /\ At(t, from, values).id = t.id
         /\ Len(At(t, from, values).values) = Len(t.values) + Len(values)
         /\ \A k \in 1 .. Len(t.values) : At(t, from, values).values[k] = t.values[k]
         /\ \A k \in 1 .. Len(values) :
              At(t, from, values).values[Len(t.values) + k] =
                [index |-> from + k - 1, value |-> values[k]]
<1> DEFINE old == t.values
           new == [k \in 1 .. Len(values) |-> [index |-> from + k - 1, value |-> values[k]]]
<1>1. old \in Seq(Value) /\ t.id \in Ids /\ Len(values) \in Nat /\ DOMAIN values = 1 .. Len(values)
  BY DEF Target
<1>2. ASSUME NEW k \in 1 .. Len(values)
      PROVE  [index |-> from + k - 1, value |-> values[k]] \in Value
  <2>1. from + k - 1 \in Nat
    BY <1>1
  <2>2. values[k] \in Null .. MaxData
    BY <1>1, ElementOfSeq
  <2> QED
    BY <2>1, <2>2 DEF Value
<1>3. new \in Seq(Value) /\ Len(new) = Len(values)
  BY <1>1, <1>2
<1>4. At(t, from, values) = [t EXCEPT !.values = old \o new]
  BY <1>1 DEF At
<1>5. \A k \in 1 .. Len(values) : new[k] = [index |-> from + k - 1, value |-> values[k]]
  OBVIOUS
<1> HIDE DEF old, new
<1>6. /\ old \o new \in Seq(Value) /\ Len(old \o new) = Len(old) + Len(new)
      /\ \A k \in 1 .. Len(old) + Len(new) :
           (old \o new)[k] = IF k <= Len(old) THEN old[k] ELSE new[k - Len(old)]
  BY <1>1, <1>3, ConcatProperties
<1>7. /\ At(t, from, values) \in Target /\ At(t, from, values).id = t.id
      /\ At(t, from, values).values = old \o new
  BY <1>1, <1>4, <1>6 DEF Target
<1>8. Len(old) \in Nat
  BY <1>1
<1>9. \A k \in 1 .. Len(old) : (old \o new)[k] = old[k]
  BY <1>1, <1>3, <1>6, <1>8
<1>10. ASSUME NEW k \in 1 .. Len(values)
       PROVE  (old \o new)[Len(old) + k] = new[k]
  <2>1. /\ Len(old) + k \in 1 .. Len(old) + Len(new) /\ ~ (Len(old) + k <= Len(old))
        /\ Len(old) + k - Len(old) = k
    BY <1>1, <1>3, <1>8
  <2> QED
    BY <1>6, <2>1
<1> QED
  BY <1>3, <1>5, <1>6, <1>7, <1>9, <1>10 DEF old

\* They run on if they begin where those there end.
LEMMA AtRuns ==
  ASSUME NEW t \in Target, Runs(t.values), NEW from \in Nat,
         NEW values \in Seq(Null .. MaxData),
         t.values = <<>> \/ from = TailOf(t)
  PROVE  /\ Runs(At(t, from, values).values)
         /\ t.values # <<>> => At(t, from, values).values[1] = t.values[1]
         /\ t.values = <<>> /\ Len(values) > 0 => At(t, from, values).values[1].index = from
<1> DEFINE m == Len(t.values)
           n == Len(values)
           all == At(t, from, values).values
<1>1. /\ t.values \in Seq(Value) /\ m \in Nat /\ n \in Nat
      /\ Len(all) = m + n
      /\ \A k \in 1 .. m : all[k] = t.values[k]
      /\ \A k \in 1 .. n : all[m + k] = [index |-> from + k - 1, value |-> values[k]]
  <2>1. t.values \in Seq(Value)
    BY DEF Target
  <2>2. m \in Nat /\ n \in Nat
    BY <2>1
  <2>3. Len(all) = m + n
    BY AtValues
  <2>4. \A k \in 1 .. m : all[k] = t.values[k]
    BY AtValues
  <2>5. \A k \in 1 .. n : all[m + k] = [index |-> from + k - 1, value |-> values[k]]
    BY AtValues
  <2> QED
    BY <2>1, <2>2, <2>3, <2>4, <2>5
<1>2. \A k \in 1 .. m : t.values[k].index \in Nat
  <2>1. \A k \in 1 .. m : t.values[k] \in Value
    BY <1>1
  <2> QED
    BY <2>1 DEF Value
<1>3. t.values = <<>> <=> m = 0
  BY <1>1
<1> HIDE DEF m, n, all
<1>4. ASSUME m > 0
      PROVE  all[1] = t.values[1] /\ from = t.values[1].index + m
  <2>1. 1 \in 1 .. m /\ m \in 1 .. m
    BY <1>1, <1>4
  <2>2. from = t.values[m].index + 1
    BY <1>3, <1>4 DEF TailOf, m
  <2>3. t.values[m].index = t.values[1].index + m - 1
    BY <2>1 DEF Runs, m
  <2>4. t.values[1].index \in Int
    BY <1>2, <2>1
  <2> QED
    BY <1>1, <2>1, <2>2, <2>3, <2>4
<1>5. ASSUME m = 0, n > 0
      PROVE  all[1].index = from
  <2>1. 1 \in 1 .. n /\ m + 1 = 1
    BY <1>1, <1>5
  <2>2. all[m + 1] = [index |-> from + 1 - 1, value |-> values[1]]
    BY <1>1, <2>1
  <2> QED
    BY <2>1, <2>2
<1>6. ASSUME NEW k \in 1 .. Len(all)
      PROVE  all[k].index = all[1].index + k - 1
  <2>1. CASE k \in 1 .. m
    <3>1. 1 \in 1 .. m /\ m > 0
      BY <1>1, <2>1
    <3>2. t.values[k].index = t.values[1].index + k - 1
      BY <2>1 DEF Runs, m
    <3> QED
      BY <1>1, <1>4, <2>1, <3>1, <3>2
  <2>2. CASE ~ (k \in 1 .. m)
    <3> DEFINE l == k - m
    <3>1. l \in 1 .. n /\ k = m + l /\ n > 0
      BY <1>1, <2>2
    <3>2. all[k].index = from + l - 1
      <4>1. all[m + l] = [index |-> from + l - 1, value |-> values[l]]
        BY <1>1, <3>1
      <4> HIDE DEF l
      <4> QED
        BY <3>1, <4>1
    <3>3. CASE m > 0
      <4>1. from = all[1].index + m /\ all[1].index \in Int
        <5>1. 1 \in 1 .. m
          BY <1>1, <3>3
        <5> QED
          BY <1>2, <1>4, <3>3, <5>1
      <4> QED
        BY <1>1, <3>1, <3>2, <4>1
    <3>4. CASE ~ (m > 0)
      <4>1. m = 0 /\ all[1].index = from
        BY <1>1, <1>5, <3>1, <3>4
      <4> QED
        BY <1>1, <3>1, <3>2, <4>1
    <3> QED
      BY <3>3, <3>4
  <2> QED
    BY <2>1, <2>2
<1> QED
  BY <1>3, <1>4, <1>5, <1>6, <1>1 DEF Runs, m, n, all

\* There is a target at which a flow continues.
LEMMA LastTailIsOne ==
  ASSUME targets \in Seq(Target), targets # <<>>, NEW ids
  PROVE  \E i \in 1 .. Len(targets) : LastTail(ids) = TailOf(targets[i])
<1> DEFINE unnamed == WithoutTargets(targets, ids)
<1>1. CASE unnamed = <<>>
  <2>1. LastTail(ids) = TailOf(targets[Len(targets)])
    BY <1>1 DEF LastTail, Last
  <2>2. Len(targets) \in 1 .. Len(targets)
    OBVIOUS
  <2> QED
    BY <2>1, <2>2
<1>2. CASE unnamed # <<>>
  <2>1. LastTail(ids) = TailOf(unnamed[Len(unnamed)])
    BY <1>2 DEF LastTail, Last
  <2>2. /\ unnamed \in Seq(Target)
        /\ \A k \in 1 .. Len(unnamed) : \E i \in Left(targets, ids) : unnamed[k] = targets[i]
    BY WithoutTargetsPlaces
  <2> HIDE DEF unnamed
  <2>3. Len(unnamed) \in 1 .. Len(unnamed)
    BY <1>2, <2>2
  <2> QED
    BY <2>1, <2>2, <2>3 DEF Left
<1> QED
  BY <1>1, <1>2

\* The tail of a target with values.
LEMMA TailTyped ==
  ASSUME NEW t \in Target, t.values # <<>>, Runs(t.values)
  PROVE  /\ t.values[1].index \in Nat /\ TailOf(t) \in Nat
         /\ TailOf(t) = t.values[1].index + Len(t.values)
<1>1. t.values \in Seq(Value) /\ Len(t.values) \in Nat /\ Len(t.values) > 0
  <2>1. t.values \in Seq(Value)
    BY DEF Target
  <2> QED
    BY <2>1
<1>2. 1 \in 1 .. Len(t.values) /\ Len(t.values) \in 1 .. Len(t.values)
  BY <1>1
<1>3. t.values[1].index \in Nat
  <2>1. t.values[1] \in Value
    BY <1>1, <1>2
  <2> QED
    BY <2>1 DEF Value
<1>4. t.values[Len(t.values)].index = t.values[1].index + Len(t.values) - 1
  BY <1>2 DEF Runs
<1> QED
  BY <1>1, <1>3, <1>4 DEF TailOf

\* Which of the named targets are there, and which are new.
LEMMA Named ==
  ASSUME ChartAssumption, targets \in Seq(Target), NEW ids \in IdLists
  PROVE  /\ ids \in Seq(Ids)
         /\ Existing(ids) \in Seq(Ids) /\ Missing(ids) \in Seq(Ids)
         /\ Existing(ids) = <<>> <=> \A i \in 1 .. Len(targets) : ~ Contains(ids, targets[i].id)
         /\ \A k \in 1 .. Len(Existing(ids)) : HasTarget(targets, Existing(ids)[k])
         /\ \A id \in Ids : Contains(Existing(ids), id) <=> Contains(ids, id) /\ HasTarget(targets, id)
         /\ \A k \in 1 .. Len(Missing(ids)) :
              /\ Contains(ids, Missing(ids)[k]) /\ ~ HasTarget(targets, Missing(ids)[k])
         /\ \A k, l \in 1 .. Len(Missing(ids)) : Missing(ids)[k] = Missing(ids)[l] => k = l
<1> DEFINE there == {j \in 1 .. Len(ids) : HasTarget(targets, ids[j])}
           absent == {j \in 1 .. Len(ids) : ~ HasTarget(targets, ids[j])}
<1>1. /\ ids \in Seq(Ids) /\ DOMAIN ids = 1 .. Len(ids)
      /\ \A i, j \in 1 .. Len(ids) : ids[i] = ids[j] => i = j
  <2>1. ids \in Seq(Ids) /\ IsInjective(ids)
    BY DEF ChartAssumption
  <2> QED
    BY <2>1 DEF IsInjective
<1>2. Existing(ids) = Chosen(ids, there) /\ Missing(ids) = Chosen(ids, absent)
  BY <1>1 DEF Existing, Missing
<1>3. there \in SUBSET (1 .. Len(ids)) /\ absent \in SUBSET (1 .. Len(ids))
  OBVIOUS
<1>4. /\ \A j \in there : j \in 1 .. Len(ids) /\ HasTarget(targets, ids[j])
      /\ \A j \in 1 .. Len(ids) : HasTarget(targets, ids[j]) => j \in there
      /\ \A j \in absent : j \in 1 .. Len(ids) /\ ~ HasTarget(targets, ids[j])
  OBVIOUS
<1> HIDE DEF there, absent
<1>5. /\ Existing(ids) \in Seq(Ids) /\ Len(Existing(ids)) = Cardinality(there)
      /\ Missing(ids) \in Seq(Ids) /\ Len(Missing(ids)) = Cardinality(absent)
  BY <1>1, <1>2, <1>3, ChosenPlaces
<1>6. \A k \in 1 .. Len(Existing(ids)) :
        \E j \in there : Existing(ids)[k] = ids[j] /\ k = Rank(there, j) + 1
  <2>1. \A k \in 1 .. Cardinality(there) :
          \E j \in there : Chosen(ids, there)[k] = ids[j] /\ k = Rank(there, j) + 1
    BY <1>1, <1>3, ChosenPlaces
  <2> QED
    BY <1>2, <1>5, <2>1
<1>7. \A k \in 1 .. Len(Missing(ids)) :
        \E j \in absent : Missing(ids)[k] = ids[j] /\ k = Rank(absent, j) + 1
  <2>1. \A k \in 1 .. Cardinality(absent) :
          \E j \in absent : Chosen(ids, absent)[k] = ids[j] /\ k = Rank(absent, j) + 1
    BY <1>1, <1>3, ChosenPlaces
  <2> QED
    BY <1>2, <1>5, <2>1
<1>8. \A j \in there : \E k \in 1 .. Len(Existing(ids)) : Existing(ids)[k] = ids[j]
  <2>1. \A j \in there : /\ Rank(there, j) + 1 \in 1 .. Cardinality(there)
                         /\ Chosen(ids, there)[Rank(there, j) + 1] = ids[j]
    BY <1>1, <1>3, ChosenPlaces
  <2> QED
    BY <1>2, <1>5, <2>1
<1>9. \A id \in Ids : Contains(Existing(ids), id) <=> Contains(ids, id) /\ HasTarget(targets, id)
  <2> SUFFICES ASSUME NEW id \in Ids
               PROVE  Contains(Existing(ids), id) <=> Contains(ids, id) /\ HasTarget(targets, id)
    OBVIOUS
  <2>1. ASSUME NEW k \in 1 .. Len(Existing(ids)), Existing(ids)[k] = id
        PROVE  Contains(ids, id) /\ HasTarget(targets, id)
    <3>1. PICK j \in there : Existing(ids)[k] = ids[j]
      BY <1>6
    <3>2. j \in 1 .. Len(ids) /\ HasTarget(targets, ids[j]) /\ ids[j] = id
      BY <1>4, <2>1, <3>1
    <3> QED
      BY <3>2 DEF Contains
  <2>2. ASSUME NEW j \in 1 .. Len(ids), ids[j] = id, HasTarget(targets, id)
        PROVE  \E k \in 1 .. Len(Existing(ids)) : Existing(ids)[k] = id
    <3>1. j \in there
      BY <1>4, <2>2
    <3> QED
      BY <1>8, <2>2, <3>1
  <2> QED
    BY <2>1, <2>2 DEF Contains
<1>10. Existing(ids) = <<>> <=> \A i \in 1 .. Len(targets) : ~ Contains(ids, targets[i].id)
  <2>1. Existing(ids) = <<>> <=> \A k \in 1 .. Len(Existing(ids)) : FALSE
    BY <1>5
  <2>2. ASSUME NEW k \in 1 .. Len(Existing(ids))
        PROVE  \E i \in 1 .. Len(targets) : Contains(ids, targets[i].id)
    <3>1. PICK j \in there : Existing(ids)[k] = ids[j]
      BY <1>6
    <3>2. PICK i \in 1 .. Len(targets) : targets[i].id = ids[j]
      BY <1>4, <3>1, WhichTarget
    <3> QED
      BY <1>4, <3>1, <3>2 DEF Contains
  <2>3. ASSUME NEW i \in 1 .. Len(targets), Contains(ids, targets[i].id)
        PROVE  \E k \in 1 .. Len(Existing(ids)) : TRUE
    <3>1. PICK j \in 1 .. Len(ids) : ids[j] = targets[i].id
      BY <2>3 DEF Contains
    <3>2. HasTarget(targets, ids[j])
      BY <3>1, WhichTarget
    <3> QED
      BY <1>4, <1>8, <3>2
  <2> QED
    BY <2>1, <2>2, <2>3
<1>11. \A k \in 1 .. Len(Existing(ids)) : HasTarget(targets, Existing(ids)[k])
  BY <1>4, <1>6
<1>12. \A k \in 1 .. Len(Missing(ids)) :
         Contains(ids, Missing(ids)[k]) /\ ~ HasTarget(targets, Missing(ids)[k])
  BY <1>4, <1>7 DEF Contains
<1>13. ASSUME NEW k \in 1 .. Len(Missing(ids)), NEW l \in 1 .. Len(Missing(ids)),
              Missing(ids)[k] = Missing(ids)[l]
       PROVE  k = l
  <2>1. PICK i \in absent : Missing(ids)[k] = ids[i] /\ k = Rank(absent, i) + 1
    BY <1>7
  <2>2. PICK j \in absent : Missing(ids)[l] = ids[j] /\ l = Rank(absent, j) + 1
    BY <1>7
  <2>3. i = j
    BY <1>1, <1>4, <1>13, <2>1, <2>2
  <2> QED
    BY <2>1, <2>2, <2>3
<1> QED
  BY <1>1, <1>5, <1>9, <1>10, <1>11, <1>12, <1>13

\* A target that is new begins where the first one does, or at the tail.
New(id, first, tail) ==
    At(At([id |-> id, values |-> <<>>], first, [k \in 1 .. tail - first |-> Null]),
       tail, Given(1))

\* How many values it has before that of the flow.
GapBefore(first, tail) == IF tail > first THEN tail - first ELSE 0

LEMMA NewTarget ==
  ASSUME ChartAssumption, MayGive, NEW id \in Ids, NEW first \in Nat, NEW tail \in Nat
  PROVE  /\ New(id, first, tail) \in Target /\ New(id, first, tail).id = id
         /\ Runs(New(id, first, tail).values)
         /\ Len(New(id, first, tail).values) = GapBefore(first, tail) + 1
<1> DEFINE empty == [id |-> id, values |-> <<>>]
           nulls == [k \in 1 .. tail - first |-> Null]
           head == At(empty, first, nulls)
<1>1. empty \in Target /\ empty.values = <<>> /\ Runs(empty.values) /\ empty.id = id
      /\ Len(empty.values) = 0
  <2>1. <<>> \in Seq(Value) /\ Len(<<>>) = 0
    OBVIOUS
  <2> QED
    BY <2>1 DEF Target, Runs
<1>2. nulls \in Seq(Null .. MaxData) /\ Len(nulls) = GapBefore(first, tail)
  <2>1. Null \in Null .. MaxData
    BY DEF Null, ChartAssumption
  <2> DEFINE m == GapBefore(first, tail)
  <2>2. m \in Nat /\ 1 .. tail - first = 1 .. m
    BY DEF GapBefore
  <2> HIDE DEF m
  <2>3. [k \in 1 .. m |-> Null] \in Seq(Null .. MaxData) /\ Len([k \in 1 .. m |-> Null]) = m
    BY <2>1, <2>2
  <2> QED
    BY <2>2, <2>3 DEF m
<1> HIDE DEF empty, nulls
<1>3. /\ head \in Target /\ head.id = id /\ Len(head.values) = GapBefore(first, tail)
      /\ Runs(head.values)
      /\ Len(nulls) > 0 => head.values[1].index = first
  <2>1. head \in Target /\ head.id = empty.id
    BY <1>1, <1>2, AtValues, ZenonT(40)
  <2>4. Len(head.values) = Len(empty.values) + Len(nulls)
    <3>1. empty \in Target /\ nulls \in Seq(Null .. MaxData)
      BY <1>1, <1>2
    <3> QED
      BY <3>1, AtValues
  <2>2. /\ Runs(head.values)
        /\ Len(nulls) > 0 => head.values[1].index = first
    BY <1>1, <1>2, AtRuns
  <2>3. Len(nulls) \in Nat
    BY <1>2
  <2> QED
    BY <1>1, <1>2, <2>1, <2>2, <2>3, <2>4
<1>4. Given(1) \in Seq(Null .. MaxData) /\ Len(Given(1)) = 1
  BY GivenValue
<1> HIDE DEF head
<1>5. head.values = <<>> \/ tail = TailOf(head)
  <2> SUFFICES ASSUME head.values # <<>> PROVE tail = TailOf(head)
    OBVIOUS
  <2>1. head.values[1].index \in Nat /\ TailOf(head) = head.values[1].index + Len(head.values)
    BY <1>3, TailTyped
  <2>2. Len(head.values) > 0
    <3>1. head.values \in Seq(Value)
      BY <1>3 DEF Target
    <3> QED
      BY <3>1
  <2>3. tail > first /\ Len(head.values) = tail - first
    BY <1>3, <2>2 DEF GapBefore
  <2> QED
    BY <1>2, <1>3, <2>1, <2>2, <2>3
<1>6. New(id, first, tail) = At(head, tail, Given(1))
  BY DEF New, head, empty, nulls
<1>7. /\ At(head, tail, Given(1)) \in Target /\ At(head, tail, Given(1)).id = head.id
      /\ Len(At(head, tail, Given(1)).values) = Len(head.values) + Len(Given(1))
  BY <1>3, <1>4, AtValues
<1>8. Runs(At(head, tail, Given(1)).values)
  BY <1>3, <1>4, <1>5, AtRuns
<1> QED
  BY <1>3, <1>4, <1>6, <1>7, <1>8

\* How many values are given for targets that are there.
Gifts(ids) == IF Existing(ids) = <<>> THEN 0 ELSE 1

\* A target that is there, after a flow.
Longer(t, ids) ==
    At(t, TailOf(t), IF Contains(ids, t.id) THEN Given(1) ELSE [k \in 1 .. Gifts(ids) |-> Null])

LEMMA LongerTarget ==
  ASSUME ChartAssumption, MayGive, targets \in Seq(Target), NEW ids \in IdLists,
         NEW i \in 1 .. Len(targets), targets[i].values # <<>>, Runs(targets[i].values)
  PROVE  /\ Longer(targets[i], ids) \in Target /\ Longer(targets[i], ids).id = targets[i].id
         /\ Runs(Longer(targets[i], ids).values)
         /\ Len(Longer(targets[i], ids).values) = Len(targets[i].values) + Gifts(ids)
         /\ \A k \in 1 .. Len(targets[i].values) :
              Longer(targets[i], ids).values[k] = targets[i].values[k]
<1> DEFINE t == targets[i]
           n == Gifts(ids)
           gift == IF Contains(ids, t.id) THEN Given(1) ELSE [k \in 1 .. n |-> Null]
<1>1. t \in Target /\ t.values # <<>> /\ Runs(t.values)
  OBVIOUS
<1>2. n \in Nat /\ (Contains(ids, t.id) => n = 1)
  <2>1. Contains(ids, t.id) => Existing(ids) # <<>>
    BY Named
  <2> QED
    BY <2>1 DEF Gifts
<1>3. Given(1) \in Seq(Null .. MaxData) /\ Len(Given(1)) = 1
  BY GivenValue
<1> HIDE DEF n
<1>4. [k \in 1 .. n |-> Null] \in Seq(Null .. MaxData) /\ Len([k \in 1 .. n |-> Null]) = n
  <2>1. Null \in Null .. MaxData
    BY DEF Null, ChartAssumption
  <2> QED
    BY <1>2, <2>1
<1> HIDE DEF t
<1>5. gift \in Seq(Null .. MaxData) /\ Len(gift) = n
  BY <1>2, <1>3, <1>4
<1>6. TailOf(t) \in Nat
  BY <1>1, TailTyped
<1>7. Longer(t, ids) = At(t, TailOf(t), gift)
  BY DEF Longer, n
<1> HIDE DEF gift
<1>8. /\ At(t, TailOf(t), gift) \in Target /\ At(t, TailOf(t), gift).id = t.id
      /\ Len(At(t, TailOf(t), gift).values) = Len(t.values) + Len(gift)
      /\ \A k \in 1 .. Len(t.values) : At(t, TailOf(t), gift).values[k] = t.values[k]
  BY <1>1, <1>5, <1>6, AtValues, ZenonT(40)
<1>9. Runs(At(t, TailOf(t), gift).values)
  BY <1>1, <1>5, <1>6, AtRuns
<1> QED
  BY <1>5, <1>7, <1>8, <1>9 DEF t, n

\* What a flow makes of the targets: those there keep their places and values
\* and get one more each, if one of them is named; others come behind them.
LEMMA FlowedTargets ==
  ASSUME ChartAssumption, MayGive, targets \in Seq(Target), Distinct(targets),
         NEW ids \in IdLists,
         \A i \in 1 .. Len(targets) : targets[i].values # <<>> /\ Runs(targets[i].values)
  PROVE  /\ Flowed(ids, Gifts(ids)) \in Seq(Target)
         /\ Distinct(Flowed(ids, Gifts(ids)))
         /\ Len(Flowed(ids, Gifts(ids))) >= Len(targets) /\ Len(Flowed(ids, Gifts(ids))) >= 1
         /\ \A i \in 1 .. Len(Flowed(ids, Gifts(ids))) :
              /\ Runs(Flowed(ids, Gifts(ids))[i].values)
              /\ Len(Flowed(ids, Gifts(ids))[i].values) >= 1
         /\ \A i \in 1 .. Len(targets) : Flowed(ids, Gifts(ids))[i] = Longer(targets[i], ids)
         /\ \A i \in 1 .. Len(Flowed(ids, Gifts(ids))) : ~ (i \in 1 .. Len(targets)) =>
              /\ ~ HasTarget(targets, Flowed(ids, Gifts(ids))[i].id)
              /\ targets # <<>> =>
                   /\ Missing(ids) # <<>>
                   /\ Len(Flowed(ids, Gifts(ids))[i].values)
                        = GapBefore(targets[1].values[1].index, LastTail(ids)) + 1
<1> DEFINE n == Gifts(ids)
           all == Flowed(ids, n)
<1>1. /\ ids \in Seq(Ids) /\ DOMAIN ids = 1 .. Len(ids) /\ Len(ids) > 0
      /\ \A i, j \in 1 .. Len(ids) : ids[i] = ids[j] => i = j
  <2>1. ids \in Seq(Ids) /\ IsInjective(ids) /\ ids # <<>>
    BY DEF ChartAssumption
  <2> QED
    BY <2>1 DEF IsInjective
<1>2. CASE targets = <<>>
  <2> DEFINE one(id) == At([id |-> id, values |-> <<>>], 0, Given(1))
  <2>1. all = [i \in 1 .. Len(ids) |-> one(ids[i])]
    BY <1>1, <1>2 DEF Flowed
  <2>2. ASSUME NEW i \in 1 .. Len(ids)
        PROVE  /\ one(ids[i]) \in Target /\ one(ids[i]).id = ids[i]
               /\ Runs(one(ids[i]).values) /\ Len(one(ids[i]).values) = 1
    <3> DEFINE empty == [id |-> ids[i], values |-> <<>>]
    <3>1. /\ empty \in Target /\ empty.values = <<>> /\ Runs(empty.values) /\ empty.id = ids[i]
          /\ Len(empty.values) = 0
      <4>1. <<>> \in Seq(Value) /\ Len(<<>>) = 0 /\ ids[i] \in Ids
        BY <1>1
      <4> QED
        BY <4>1 DEF Target, Runs
    <3>2. Given(1) \in Seq(Null .. MaxData) /\ Len(Given(1)) = 1
      BY GivenValue
    <3> HIDE DEF empty
    <3>3. 0 \in Nat /\ 0 + 1 = 1
      OBVIOUS
    <3>4. At(empty, 0, Given(1)) \in Target /\ At(empty, 0, Given(1)).id = empty.id
      BY <3>1, <3>2, <3>3, AtValues
    <3>5. Len(At(empty, 0, Given(1)).values) = Len(empty.values) + Len(Given(1))
      <4>1. empty \in Target /\ Given(1) \in Seq(Null .. MaxData) /\ 0 \in Nat
        BY <3>1, <3>2
      <4> QED
        BY <4>1, AtValues
    <3>6. Runs(At(empty, 0, Given(1)).values)
      BY <3>1, <3>2, <3>3, AtRuns
    <3> QED
      BY <3>1, <3>2, <3>3, <3>4, <3>5, <3>6 DEF empty
  <2> HIDE DEF one, all
  <2>3. all \in Seq(Target) /\ Len(all) = Len(ids)
    BY <1>1, <2>1, <2>2
  <2>4. Distinct(all)
    BY <1>1, <2>1, <2>2, <2>3 DEF Distinct
  <2>5. Len(targets) = 0 /\ \A id : ~ HasTarget(targets, id)
    BY <1>2 DEF HasTarget
  <2>6. \A i \in 1 .. Len(all) : all[i] = one(ids[i])
    BY <2>1, <2>3
  <2>7. \A i \in 1 .. Len(all) : Runs(all[i].values) /\ Len(all[i].values) >= 1
    <3>1. 1 >= 1
      OBVIOUS
    <3> QED
      BY <2>2, <2>3, <2>6, <3>1
  <2>8. Len(all) >= Len(targets) /\ Len(all) >= 1 /\ 1 .. Len(targets) = {}
    BY <1>1, <2>3, <2>5
  <2>9. \A i \in 1 .. Len(targets) : all[i] = Longer(targets[i], ids)
    BY <2>8
  <2>10. \A i \in 1 .. Len(all) : ~ HasTarget(targets, all[i].id)
    BY <2>5
  <2> QED
    BY <1>2, <2>3, <2>4, <2>7, <2>8, <2>9, <2>10 DEF all
<1>3. CASE targets # <<>>
  <2> DEFINE there == [i \in 1 .. Len(targets) |-> Longer(targets[i], ids)]
             first == targets[1].values[1].index
             tail == LastTail(ids)
             missing == Missing(ids)
             added == [i \in 1 .. Len(missing) |-> New(missing[i], first, tail)]
  <2>1. /\ missing \in Seq(Ids) /\ DOMAIN missing = 1 .. Len(missing) /\ Len(missing) \in Nat
        /\ \A k \in 1 .. Len(missing) : ~ HasTarget(targets, missing[k])
        /\ \A k, l \in 1 .. Len(missing) : missing[k] = missing[l] => k = l
    BY Named
  <2>2. DOMAIN targets = 1 .. Len(targets) /\ Len(targets) \in Nat /\ Len(targets) > 0
    BY <1>3
  <2>3. all = there \o added
    BY <1>3, <2>1, <2>2 DEF Flowed, Longer, New, n
  <2>4. first \in Nat /\ tail \in Nat
    <3>1. 1 \in 1 .. Len(targets)
      BY <2>2
    <3>2. first \in Nat
      BY <3>1, TailTyped
    <3>3. PICK j \in 1 .. Len(targets) : LastTail(ids) = TailOf(targets[j])
      BY <1>3, LastTailIsOne
    <3>4. TailOf(targets[j]) \in Nat
      BY TailTyped
    <3> QED
      BY <3>2, <3>3, <3>4
  <2> HIDE DEF all, first, tail, missing
  <2>5. ASSUME NEW i \in 1 .. Len(targets)
        PROVE  /\ Longer(targets[i], ids) \in Target
               /\ Longer(targets[i], ids).id = targets[i].id
               /\ Runs(Longer(targets[i], ids).values)
               /\ Len(Longer(targets[i], ids).values) >= 1
    <3>1. /\ Longer(targets[i], ids) \in Target
          /\ Longer(targets[i], ids).id = targets[i].id
          /\ Runs(Longer(targets[i], ids).values)
          /\ Len(Longer(targets[i], ids).values) = Len(targets[i].values) + Gifts(ids)
      BY LongerTarget
    <3>2. Len(targets[i].values) >= 1
      <4>1. targets[i] \in Target
        OBVIOUS
      <4>2. targets[i].values \in Seq(Value) /\ targets[i].values # <<>>
        BY <4>1 DEF Target
      <4> QED
        BY <4>2
    <3>3. Gifts(ids) \in {0, 1} /\ Len(targets[i].values) \in Nat
      <4>1. targets[i] \in Target
        OBVIOUS
      <4>2. targets[i].values \in Seq(Value)
        BY <4>1 DEF Target
      <4> QED
        BY <4>2 DEF Gifts
    <3> QED
      BY <3>1, <3>2, <3>3
  <2>6. ASSUME NEW k \in 1 .. Len(missing)
        PROVE  /\ New(missing[k], first, tail) \in Target
               /\ New(missing[k], first, tail).id = missing[k]
               /\ Runs(New(missing[k], first, tail).values)
               /\ Len(New(missing[k], first, tail).values) = GapBefore(first, tail) + 1
    <3>1. missing[k] \in Ids
      BY <2>1
    <3> QED
      BY <2>4, <3>1, NewTarget
  <2>7. there \in Seq(Target) /\ Len(there) = Len(targets)
    BY <2>2, <2>5
  <2>8. added \in Seq(Target) /\ Len(added) = Len(missing)
    BY <2>1, <2>6
  <2>9. /\ \A i \in 1 .. Len(targets) : there[i] = Longer(targets[i], ids)
        /\ \A i \in 1 .. Len(missing) : added[i] = New(missing[i], first, tail)
    OBVIOUS
  <2> HIDE DEF there, added
  <2>10. /\ all \in Seq(Target) /\ Len(all) = Len(targets) + Len(missing)
         /\ \A i \in 1 .. Len(targets) : all[i] = Longer(targets[i], ids)
         /\ \A i \in 1 .. Len(all) : ~ (i \in 1 .. Len(targets)) =>
              /\ i - Len(targets) \in 1 .. Len(missing)
              /\ all[i] = New(missing[i - Len(targets)], first, tail)
    <3>1. /\ there \o added \in Seq(Target)
          /\ Len(there \o added) = Len(there) + Len(added)
          /\ \A i \in 1 .. Len(there) + Len(added) :
               (there \o added)[i] = IF i <= Len(there) THEN there[i] ELSE added[i - Len(there)]
      BY <2>7, <2>8, ConcatProperties, ZenonT(40)
    <3>2. ASSUME NEW i \in 1 .. Len(targets)
          PROVE  all[i] = Longer(targets[i], ids)
      <4>1. i \in 1 .. Len(there) + Len(added) /\ i <= Len(there)
        BY <2>1, <2>2, <2>7, <2>8
      <4> QED
        BY <2>3, <2>9, <3>1, <4>1
    <3>3. ASSUME NEW i \in 1 .. Len(all), ~ (i \in 1 .. Len(targets))
          PROVE  /\ i - Len(targets) \in 1 .. Len(missing)
                 /\ all[i] = New(missing[i - Len(targets)], first, tail)
      <4>1. /\ i \in 1 .. Len(there) + Len(added) /\ ~ (i <= Len(there))
            /\ i - Len(targets) \in 1 .. Len(missing)
        BY <2>1, <2>2, <2>3, <2>7, <2>8, <3>1, <3>3
      <4>2. all[i] = added[i - Len(targets)]
        BY <2>3, <2>7, <3>1, <4>1
      <4> QED
        BY <2>9, <4>1, <4>2
    <3> QED
      BY <2>3, <2>7, <2>8, <3>1, <3>2, <3>3
  <2>11. Distinct(all)
    <3> SUFFICES ASSUME NEW i \in 1 .. Len(all), NEW j \in 1 .. Len(all), all[i].id = all[j].id
                 PROVE  i = j
      BY DEF Distinct
    <3>1. CASE i \in 1 .. Len(targets) /\ j \in 1 .. Len(targets)
      BY <2>5, <2>10, <3>1 DEF Distinct
    <3>2. ASSUME NEW k \in 1 .. Len(targets), NEW l \in 1 .. Len(all), ~ (l \in 1 .. Len(targets))
          PROVE  all[k].id # all[l].id
      <4>1. /\ l - Len(targets) \in 1 .. Len(missing)
            /\ all[l].id = missing[l - Len(targets)]
        BY <2>6, <2>10, <3>2
      <4>2. all[k].id = targets[k].id
        BY <2>5, <2>10
      <4> QED
        BY <2>1, <4>1, <4>2, WhichTarget, SMTT(20)
    <3>3. CASE ~ (i \in 1 .. Len(targets)) /\ ~ (j \in 1 .. Len(targets))
      <4>1. /\ i - Len(targets) \in 1 .. Len(missing)
            /\ all[i].id = missing[i - Len(targets)]
        BY <2>6, <2>10, <3>3
      <4>2. /\ j - Len(targets) \in 1 .. Len(missing)
            /\ all[j].id = missing[j - Len(targets)]
        BY <2>6, <2>10, <3>3
      <4>3. i - Len(targets) = j - Len(targets)
        BY <2>1, <4>1, <4>2
      <4> QED
        BY <2>2, <4>3
    <3> QED
      BY <3>1, <3>2, <3>3
  <2>12. Len(all) >= Len(targets) /\ Len(all) >= 1
    BY <2>1, <2>2, <2>10
  <2>13. GapBefore(first, tail) + 1 >= 1
    BY <2>4 DEF GapBefore
  <2>14. \A i \in 1 .. Len(all) : Runs(all[i].values) /\ Len(all[i].values) >= 1
    BY <2>5, <2>6, <2>10, <2>13
  <2>15. ASSUME NEW i \in 1 .. Len(all), ~ (i \in 1 .. Len(targets))
         PROVE  /\ ~ HasTarget(targets, all[i].id)
                /\ Missing(ids) # <<>>
                /\ Len(all[i].values) = GapBefore(first, tail) + 1
    <3>1. /\ i - Len(targets) \in 1 .. Len(missing)
          /\ all[i] = New(missing[i - Len(targets)], first, tail)
      BY <2>10, <2>15
    <3>2. Missing(ids) # <<>>
      BY <2>1, <3>1 DEF missing
    <3> QED
      BY <2>1, <2>6, <3>1, <3>2
  <2> QED
    BY <2>10, <2>11, <2>12, <2>14, <2>15 DEF all, first, tail
<1> QED
  BY <1>2, <1>3

\* What is added to a target is added to what was given for it.
LEMMA LatestGrows ==
  ASSUME NEW old \in Seq(Value), NEW new \in Seq(Value), NEW n \in Nat,
         Len(new) = Len(old) + n, \A k \in 1 .. Len(old) : new[k] = old[k],
         NEW all \in Seq(Null .. MaxData), Latest(old, all),
         NEW values, values = [k \in DOMAIN new |-> new[k].value]
  PROVE  /\ all \o SubSeq(values, Len(values) - n + 1, Len(values)) \in Seq(Null .. MaxData)
         /\ Latest(new, all \o SubSeq(values, Len(values) - n + 1, Len(values)))
<1>1. /\ Len(old) \in Nat /\ Len(new) \in Nat /\ Len(all) \in Nat /\ DOMAIN new = 1 .. Len(new)
  OBVIOUS
<1>2. \A k \in 1 .. Len(new) : new[k].value \in Null .. MaxData
  <2>1. \A k \in 1 .. Len(new) : new[k] \in Value
    OBVIOUS
  <2> QED
    BY <2>1 DEF Value
<1>3. values = [k \in 1 .. Len(new) |-> new[k].value]
  BY <1>1
<1>4. values \in Seq(Null .. MaxData) /\ Len(values) = Len(new)
  BY <1>1, <1>2, <1>3
<1>5. \A k \in 1 .. Len(new) : values[k] = new[k].value
  BY <1>3
<1> DEFINE part == SubSeq(values, Len(values) - n + 1, Len(values))
           more == all \o part
           m == Len(old)
<1>6. /\ part \in Seq(Null .. MaxData) /\ Len(part) = n
  <2>1. Len(values) - n + 1 \in Nat /\ Len(values) - n + 1 >= 1 /\ Len(values) \in Nat
    BY <1>1, <1>4
  <2>2. part \in Seq(Null .. MaxData)
    BY <1>4, <2>1
  <2>3. Len(part) = n
    BY <1>4, <2>1
  <2> QED
    BY <2>2, <2>3
<1>7. \A k \in 1 .. n : part[k] = values[m + k]
  <2>1. Len(values) - n + 1 = m + 1
    BY <1>1, <1>4
  <2>2. part = SubSeq(values, m + 1, Len(values)) /\ Len(values) = m + n
    BY <1>4, <2>1
  <2> QED
    BY <1>1, <1>4, <2>2
<1> HIDE DEF part
<1>8. /\ more \in Seq(Null .. MaxData) /\ Len(more) = Len(all) + n
      /\ \A k \in 1 .. Len(all) + n :
           more[k] = IF k <= Len(all) THEN all[k] ELSE part[k - Len(all)]
  BY <1>6, ConcatProperties
<1> HIDE DEF more, m
<1>9. m \in Nat /\ m <= Len(all) /\ Len(new) = m + n
  BY <1>1 DEF Latest, m
<1>10. ASSUME NEW k \in 1 .. Len(new)
       PROVE  new[k].value = more[Len(more) - Len(new) + k]
  <2>1. Len(more) - Len(new) + k = Len(all) - m + k
    <3>1. \A a, b, c, d \in Int : (a + b) - (c + b) + d = a - c + d
      OBVIOUS
    <3>2. Len(all) \in Int /\ m \in Int /\ n \in Int /\ k \in Int
      BY <1>1, <1>9
    <3>3. (Len(all) + n) - (m + n) + k = Len(all) - m + k
      BY <3>1, <3>2
    <3>4. Len(more) = Len(all) + n
      BY <1>8
    <3>5. Len(new) = m + n
      BY <1>9
    <3> QED
      BY <3>3, <3>4, <3>5
  <2>2. CASE k <= m
    <3>1. /\ k \in 1 .. m /\ Len(all) - m + k \in 1 .. Len(all) + n
          /\ Len(all) - m + k <= Len(all)
      BY <1>1, <1>9, <2>2
    <3>2. old[k].value = all[Len(all) - m + k]
      BY <3>1 DEF Latest, m
    <3>3. new[k] = old[k]
      BY <3>1 DEF m
    <3> QED
      BY <1>8, <2>1, <3>1, <3>2, <3>3
  <2>3. CASE ~ (k <= m)
    <3>1. /\ k - m \in 1 .. n /\ Len(all) - m + k \in 1 .. Len(all) + n
          /\ ~ (Len(all) - m + k <= Len(all)) /\ Len(all) - m + k - Len(all) = k - m
          /\ m + (k - m) = k
      BY <1>1, <1>9, <2>3
    <3>2. more[Len(all) - m + k] = part[k - m]
      <4> DEFINE j == Len(all) - m + k
      <4>1. j \in 1 .. Len(all) + n /\ ~ (j <= Len(all)) /\ j - Len(all) = k - m
        <5>1. j \in 1 .. Len(all) + n
          BY <3>1
        <5>2. ~ (j <= Len(all))
          BY <3>1
        <5>3. j - Len(all) = k - m
          <6>1. \A a, b, c \in Int : (a - b + c) - a = c - b
            OBVIOUS
          <6>2. Len(all) \in Int /\ m \in Int /\ k \in Int
            BY <1>1, <1>9
          <6> QED
            BY <6>1, <6>2
        <5> QED
          BY <5>1, <5>2, <5>3
      <4> HIDE DEF j
      <4>2. more[j] = part[j - Len(all)]
        BY <1>8, <4>1
      <4> QED
        BY <4>1, <4>2 DEF j
    <3>3. part[k - m] = values[k]
      BY <1>7, <3>1
    <3> QED
      BY <1>5, <2>1, <3>2, <3>3
  <2> QED
    BY <2>2, <2>3
<1>11. Len(new) <= Len(more)
  BY <1>1, <1>8, <1>9
<1> QED
  BY <1>8, <1>10, <1>11 DEF Latest, more, part

\* Flow keeps the targets right.
LEMMA FlowKeepsRight ==
  ASSUME ChartAssumption, MayGive, Right(targets, given), GivenTyped(given),
         NEW ids \in IdLists, \A i \in 1 .. Len(targets) : targets[i].values # <<>>
  PROVE  /\ Right(Flowed(ids, Gifts(ids)), GivenByFlow(Flowed(ids, Gifts(ids)), Gifts(ids)))
         /\ GivenTyped(GivenByFlow(Flowed(ids, Gifts(ids)), Gifts(ids)))
<1> DEFINE n == Gifts(ids)
           all == Flowed(ids, n)
           values(t) == [k \in DOMAIN t.values |-> t.values[k].value]
           more(t) == given[t.id] \o SubSeq(values(t), Len(values(t)) - n + 1, Len(values(t)))
<1>1. /\ targets \in Seq(Target) /\ Distinct(targets) /\ DOMAIN targets = 1 .. Len(targets)
      /\ \A i \in 1 .. Len(targets) : targets[i].values # <<>> /\ Runs(targets[i].values)
      /\ \A i \in 1 .. Len(targets) : Latest(targets[i].values, given[targets[i].id])
  BY DEF Right
<1>2. n \in Nat
  BY DEF Gifts
<1>3. /\ all \in Seq(Target) /\ Distinct(all)
      /\ Len(all) >= Len(targets)
      /\ \A i \in 1 .. Len(all) : Runs(all[i].values)
      /\ \A i \in 1 .. Len(targets) : all[i] = Longer(targets[i], ids)
      /\ \A i \in 1 .. Len(all) :
           ~ (i \in 1 .. Len(targets)) => ~ HasTarget(targets, all[i].id)
  BY <1>1, FlowedTargets
<1>4. \A i \in 1 .. Len(targets) :
        /\ Longer(targets[i], ids).id = targets[i].id
        /\ Len(Longer(targets[i], ids).values) = Len(targets[i].values) + n
        /\ \A k \in 1 .. Len(targets[i].values) :
             Longer(targets[i], ids).values[k] = targets[i].values[k]
  BY <1>1, LongerTarget
<1> HIDE DEF all, n, more
<1>5. ASSUME NEW t \in Target
      PROVE  /\ values(t) \in Seq(Null .. MaxData) /\ Len(values(t)) = Len(t.values)
             /\ \A k \in 1 .. Len(t.values) : values(t)[k] = t.values[k].value
  <2>1. t.values \in Seq(Value)
    BY DEF Target
  <2>2. \A k \in 1 .. Len(t.values) : t.values[k].value \in Null .. MaxData
    <3>1. \A k \in 1 .. Len(t.values) : t.values[k] \in Value
      BY <2>1
    <3> QED
      BY <3>1 DEF Value
  <2>3. /\ DOMAIN t.values = 1 .. Len(t.values) /\ Len(t.values) \in Nat
        /\ values(t) = [k \in 1 .. Len(t.values) |-> t.values[k].value]
    BY <2>1
  <2> HIDE DEF values
  <2> QED
    BY <2>2, <2>3
<1>6. ASSUME NEW i \in 1 .. Len(targets)
      PROVE  more(all[i]) \in Seq(Null .. MaxData) /\ Latest(all[i].values, more(all[i]))
  <2>1. i \in 1 .. Len(all) /\ all[i] \in Target /\ targets[i] \in Target
    <3>1. i \in 1 .. Len(all)
      BY <1>1, <1>3
    <3> QED
      BY <1>1, <1>3, <3>1
  <2>2. all[i].values \in Seq(Value) /\ targets[i].values \in Seq(Value) /\ targets[i].id \in Ids
    BY <2>1 DEF Target
  <2>3. given[targets[i].id] \in Seq(Null .. MaxData) /\ all[i].id = targets[i].id
    BY <1>3, <1>4, <2>2 DEF GivenTyped
  <2>4. /\ Len(all[i].values) = Len(targets[i].values) + n
        /\ \A k \in 1 .. Len(targets[i].values) : all[i].values[k] = targets[i].values[k]
    BY <1>3, <1>4
  <2>5. Latest(targets[i].values, given[targets[i].id])
    BY <1>1
  <2> DEFINE old == targets[i].values
             new == all[i].values
             history == given[targets[i].id]
             told == values(all[i])
  <2>6. told = [k \in DOMAIN new |-> new[k].value]
    OBVIOUS
  <2>7. more(all[i]) = history \o SubSeq(told, Len(told) - n + 1, Len(told))
    BY <2>3 DEF more
  <2>8. /\ old \in Seq(Value) /\ new \in Seq(Value) /\ history \in Seq(Null .. MaxData)
        /\ Len(new) = Len(old) + n /\ \A k \in 1 .. Len(old) : new[k] = old[k]
        /\ Latest(old, history)
    BY <2>2, <2>3, <2>4, <2>5
  <2> HIDE DEF old, new, history, told
  <2>9. /\ history \o SubSeq(told, Len(told) - n + 1, Len(told)) \in Seq(Null .. MaxData)
        /\ Latest(new, history \o SubSeq(told, Len(told) - n + 1, Len(told)))
    BY <1>2, <2>6, <2>8, LatestGrows
  <2> QED
    BY <2>7, <2>9 DEF new
<1>7. GivenByFlow(all, n) =
        [id \in Ids |-> IF ~ HasTarget(all, id) THEN given[id]
                        ELSE IF HasTarget(targets, id)
                        THEN given[id] \o SubSeq(values(all[Which(all, id)]),
                                                 Len(values(all[Which(all, id)])) - n + 1,
                                                 Len(values(all[Which(all, id)])))
                        ELSE values(all[Which(all, id)])]
  BY DEF GivenByFlow, Which
<1>8. \A i \in 1 .. Len(all) : all[i] \in Target /\ all[i].id \in Ids
  <2>1. \A i \in 1 .. Len(all) : all[i] \in Target
    BY <1>3
  <2> QED
    BY <2>1 DEF Target
<1> HIDE DEF values
<1>9. ASSUME NEW i \in 1 .. Len(all)
      PROVE  GivenByFlow(all, n)[all[i].id] =
               IF HasTarget(targets, all[i].id) THEN more(all[i]) ELSE values(all[i])
  <2>1. HasTarget(all, all[i].id) /\ Which(all, all[i].id) = i
    BY <1>3, WhichTarget
  <2> QED
    BY <1>7, <1>8, <2>1 DEF more
<1>10. ASSUME NEW i \in 1 .. Len(all)
       PROVE  /\ GivenByFlow(all, n)[all[i].id] \in Seq(Null .. MaxData)
              /\ Latest(all[i].values, GivenByFlow(all, n)[all[i].id])
  <2>1. CASE i \in 1 .. Len(targets)
    <3>1. HasTarget(targets, all[i].id)
      <4>1. all[i].id = targets[i].id
        BY <1>3, <1>4, <2>1
      <4> QED
        BY <1>1, <2>1, <4>1, WhichTarget
    <3> QED
      BY <1>6, <1>9, <2>1, <3>1
  <2>2. CASE ~ (i \in 1 .. Len(targets))
    <3>1. GivenByFlow(all, n)[all[i].id] = values(all[i])
      BY <1>3, <1>9, <2>2
    <3>2. /\ values(all[i]) \in Seq(Null .. MaxData) /\ Len(values(all[i])) = Len(all[i].values)
          /\ \A k \in 1 .. Len(all[i].values) : values(all[i])[k] = all[i].values[k].value
      BY <1>5, <1>8
    <3>3. Latest(all[i].values, values(all[i]))
      <4>1. Len(all[i].values) \in Nat
        BY <3>2
      <4>2. \A k \in 1 .. Len(all[i].values) : Len(all[i].values) - Len(all[i].values) + k = k
        BY <4>1
      <4> QED
        BY <3>2, <4>1, <4>2 DEF Latest
    <3> QED
      BY <3>1, <3>2, <3>3
  <2> QED
    BY <2>1, <2>2
<1>11. GivenTyped(GivenByFlow(all, n))
  <2>1. ASSUME NEW id \in Ids
        PROVE  GivenByFlow(all, n)[id] \in Seq(Null .. MaxData)
    <3>1. CASE HasTarget(all, id)
      <4>1. PICK i \in 1 .. Len(all) : all[i].id = id
        BY <1>3, <3>1, WhichTarget
      <4> QED
        BY <1>10, <4>1
    <3>2. CASE ~ HasTarget(all, id)
      BY <1>7, <3>2 DEF GivenTyped
    <3> QED
      BY <3>1, <3>2
  <2> QED
    BY <1>7, <2>1 DEF GivenTyped
<1> QED
  BY <1>3, <1>10, <1>11 DEF Right, all, n

-----------------------------------------------------------------------------
(***************************************************************************)
(* The elements.                                                           *)
(***************************************************************************)
\* The transitions there are when there were n calls of unload.
TransitionOf(n) == {NoTransition} \cup [to : {0, 1}, call : 0 .. n]
ElementOf(n) == [id : Ids, opacity : {0, 1}, tr : TransitionOf(n)]

\* Those whose end a call of unload waits for.
Callers(els, k) == {i \in 1 .. Len(els) : els[i].tr.call = k}

LEMMA ElementsMore ==
  ASSUME NEW n \in Nat, NEW els \in Seq(ElementOf(n))
  PROVE  els \in Seq(ElementOf(n + 1))
<1>1. ElementOf(n) \subseteq ElementOf(n + 1)
  <2>1. 0 .. n \subseteq 0 .. n + 1
    OBVIOUS
  <2>2. TransitionOf(n) \subseteq TransitionOf(n + 1)
    BY <2>1 DEF TransitionOf
  <2> HIDE DEF TransitionOf
  <2> QED
    BY <2>2 DEF ElementOf
<1> QED
  BY <1>1

\* Fading changes transitions only.
LEMMA Faded ==
  ASSUME NEW n \in Nat, NEW els \in Seq(ElementOf(n)), NEW ids, NEW to, NEW call,
         [to |-> to, call |-> call] \in TransitionOf(n)
  PROVE  /\ Fade(els, ids, to, call) \in Seq(ElementOf(n))
         /\ Len(Fade(els, ids, to, call)) = Len(els)
         /\ \A i \in 1 .. Len(els) :
              /\ Fade(els, ids, to, call)[i].id = els[i].id
              /\ Fade(els, ids, to, call)[i].opacity = els[i].opacity
              /\ Fade(els, ids, to, call)[i].tr =
                   IF els[i].id \in ids THEN [to |-> to, call |-> call] ELSE els[i].tr
<1>1. /\ Len(els) \in Nat /\ DOMAIN els = 1 .. Len(els)
      /\ \A i \in 1 .. Len(els) : els[i] \in ElementOf(n)
  OBVIOUS
<1> DEFINE fade(i) == IF els[i].id \in ids
                      THEN [els[i] EXCEPT !.tr = [to |-> to, call |-> call]] ELSE els[i]
<1>2. [to |-> to, call |-> call] \in TransitionOf(n)
  OBVIOUS
<1>3. ASSUME NEW i \in 1 .. Len(els)
      PROVE  /\ fade(i) \in ElementOf(n)
             /\ fade(i).id = els[i].id /\ fade(i).opacity = els[i].opacity
             /\ fade(i).tr = IF els[i].id \in ids THEN [to |-> to, call |-> call] ELSE els[i].tr
  BY <1>1, <1>2 DEF ElementOf
<1>4. Fade(els, ids, to, call) = [i \in 1 .. Len(els) |-> fade(i)]
  BY <1>1 DEF Fade
<1> HIDE DEF fade
<1> QED
  BY <1>1, <1>3, <1>4

\* Joining changes no transition; new elements have none.
LEMMA Joined ==
  ASSUME NEW n \in Nat, NEW els \in Seq(ElementOf(n)), NEW ts \in Seq(Target)
  PROVE  /\ Join(els, ts) \in Seq(ElementOf(n))
         /\ Len(Join(els, ts)) = IF Len(els) < Len(ts) THEN Len(ts) ELSE Len(els)
         /\ \A i \in 1 .. Len(Join(els, ts)) :
              /\ Join(els, ts)[i].id = IF i <= Len(ts) THEN ts[i].id ELSE els[i].id
              /\ Join(els, ts)[i].opacity = IF i <= Len(els) THEN els[i].opacity ELSE 0
              /\ Join(els, ts)[i].tr = IF i <= Len(els) THEN els[i].tr ELSE NoTransition
<1> DEFINE m == IF Len(els) < Len(ts) THEN Len(ts) ELSE Len(els)
           join(i) == IF i > Len(els) THEN [id |-> ts[i].id, opacity |-> 0, tr |-> NoTransition]
                      ELSE IF i > Len(ts) THEN els[i]
                      ELSE [els[i] EXCEPT !.id = ts[i].id]
<1>1. /\ Len(els) \in Nat /\ Len(ts) \in Nat /\ m \in Nat
      /\ \A i \in 1 .. Len(els) : els[i] \in ElementOf(n)
      /\ \A i \in 1 .. Len(ts) : ts[i] \in Target
  OBVIOUS
<1>2. \A i \in 1 .. Len(ts) : ts[i].id \in Ids
  BY <1>1 DEF Target
<1>3. NoTransition \in TransitionOf(n)
  BY DEF TransitionOf
<1>4. ASSUME NEW i \in 1 .. m
      PROVE  /\ join(i) \in ElementOf(n)
             /\ join(i).id = IF i <= Len(ts) THEN ts[i].id ELSE els[i].id
             /\ join(i).opacity = IF i <= Len(els) THEN els[i].opacity ELSE 0
             /\ join(i).tr = IF i <= Len(els) THEN els[i].tr ELSE NoTransition
  <2>1. CASE i > Len(els)
    <3>1. i \in 1 .. Len(ts) /\ ~ (i <= Len(els)) /\ i <= Len(ts)
      BY <1>1, <2>1
    <3> QED
      BY <1>2, <1>3, <2>1, <3>1 DEF ElementOf
  <2>2. CASE ~ (i > Len(els)) /\ i > Len(ts)
    <3>1. i \in 1 .. Len(els) /\ i <= Len(els) /\ ~ (i <= Len(ts))
      BY <1>1, <2>2
    <3> QED
      BY <1>1, <2>2, <3>1
  <2>3. CASE ~ (i > Len(els)) /\ ~ (i > Len(ts))
    <3>1. i \in 1 .. Len(els) /\ i \in 1 .. Len(ts) /\ i <= Len(els) /\ i <= Len(ts)
      BY <1>1, <2>3
    <3>2. els[i] \in ElementOf(n) /\ ts[i].id \in Ids
      BY <1>1, <1>2, <3>1
    <3>3. join(i) = [els[i] EXCEPT !.id = ts[i].id]
      BY <2>3
    <3> HIDE DEF join
    <3> QED
      BY <3>1, <3>2, <3>3 DEF ElementOf
  <2> QED
    BY <2>1, <2>2, <2>3
<1>5. Join(els, ts) = [i \in 1 .. m |-> join(i)]
  BY DEF Join
<1> HIDE DEF join, m
<1>6. Join(els, ts) \in Seq(ElementOf(n)) /\ Len(Join(els, ts)) = m
  BY <1>1, <1>4, <1>5
<1> QED
  BY <1>4, <1>5, <1>6 DEF m

\* Updating: the elements get the ids of the targets at their places, and all
\* that are to be shown fade in.
Shown == {id \in Ids : IsTargetToShow(id)}
FadeIn == [to |-> 1, call |-> 0]

LEMMA Updated ==
  ASSUME NEW n \in Nat, NEW els \in Seq(ElementOf(n)), NEW ts \in Seq(Target)
  PROVE  /\ UpdateTargets(els, ts) \in Seq(ElementOf(n))
         /\ Len(UpdateTargets(els, ts)) = IF Len(els) < Len(ts) THEN Len(ts) ELSE Len(els)
         /\ \A i \in 1 .. Len(UpdateTargets(els, ts)) :
              /\ UpdateTargets(els, ts)[i].id = IF i <= Len(ts) THEN ts[i].id ELSE els[i].id
              /\ UpdateTargets(els, ts)[i].opacity = IF i <= Len(els) THEN els[i].opacity ELSE 0
              /\ UpdateTargets(els, ts)[i].tr =
                   IF UpdateTargets(els, ts)[i].id \in Shown THEN FadeIn
                   ELSE IF i <= Len(els) THEN els[i].tr ELSE NoTransition
<1> DEFINE join == Join(els, ts)
           all == UpdateTargets(els, ts)
<1>1. /\ join \in Seq(ElementOf(n))
      /\ Len(join) = IF Len(els) < Len(ts) THEN Len(ts) ELSE Len(els)
      /\ \A i \in 1 .. Len(join) :
           /\ join[i].id = IF i <= Len(ts) THEN ts[i].id ELSE els[i].id
           /\ join[i].opacity = IF i <= Len(els) THEN els[i].opacity ELSE 0
           /\ join[i].tr = IF i <= Len(els) THEN els[i].tr ELSE NoTransition
  BY Joined
<1>2. all = Fade(join, Shown, 1, 0)
  BY DEF UpdateTargets, ShowTargets, Shown
<1> HIDE DEF join, all
<1>3. [to |-> 1, call |-> 0] \in TransitionOf(n)
  BY DEF TransitionOf
<1>4. /\ all \in Seq(ElementOf(n)) /\ Len(all) = Len(join)
      /\ \A i \in 1 .. Len(join) :
           /\ all[i].id = join[i].id /\ all[i].opacity = join[i].opacity
           /\ all[i].tr = IF join[i].id \in Shown THEN [to |-> 1, call |-> 0] ELSE join[i].tr
  <2>1. join \in Seq(ElementOf(n))
    BY <1>1
  <2>2. Fade(join, Shown, 1, 0) \in Seq(ElementOf(n)) /\ Len(Fade(join, Shown, 1, 0)) = Len(join)
    BY <1>3, <2>1, Faded
  <2>3. \A i \in 1 .. Len(join) :
          /\ Fade(join, Shown, 1, 0)[i].id = join[i].id
          /\ Fade(join, Shown, 1, 0)[i].opacity = join[i].opacity
    BY <1>3, <2>1, Faded
  <2>4. \A i \in 1 .. Len(join) :
          Fade(join, Shown, 1, 0)[i].tr =
            IF join[i].id \in Shown THEN [to |-> 1, call |-> 0] ELSE join[i].tr
    BY <1>3, <2>1, Faded
  <2> QED
    BY <1>2, <2>2, <2>3, <2>4
<1>5. ASSUME NEW i \in 1 .. Len(all)
      PROVE  /\ all[i].id = IF i <= Len(ts) THEN ts[i].id ELSE els[i].id
             /\ all[i].opacity = IF i <= Len(els) THEN els[i].opacity ELSE 0
             /\ all[i].tr = IF all[i].id \in Shown THEN FadeIn
                            ELSE IF i <= Len(els) THEN els[i].tr ELSE NoTransition
  BY <1>1, <1>4 DEF FadeIn
<1> QED
  BY <1>1, <1>4, <1>5 DEF all

\* Those that wait for a call do not get more by fading for another one.
LEMMA CallersFinite ==
  ASSUME NEW n \in Nat, NEW els \in Seq(ElementOf(n)), NEW k
  PROVE  IsFiniteSet(Callers(els, k)) /\ Cardinality(Callers(els, k)) \in Nat
<1>1. IsFiniteSet(1 .. Len(els)) /\ Callers(els, k) \subseteq 1 .. Len(els)
  BY FS_Interval DEF Callers
<1> QED
  BY <1>1, FS_Subset, FS_CardinalityType

LEMMA FewerCallers ==
  ASSUME NEW n \in Nat, NEW els \in Seq(ElementOf(n)), NEW new, NEW k,
         Callers(new, k) \subseteq Callers(els, k)
  PROVE  /\ Cardinality(Callers(new, k)) \in Nat
         /\ Cardinality(Callers(new, k)) <= Cardinality(Callers(els, k))
<1>1. IsFiniteSet(Callers(els, k))
  BY CallersFinite
<1> QED
  BY <1>1, FS_Subset, FS_CardinalityType

LEMMA FadedCallers ==
  ASSUME NEW n \in Nat, NEW els \in Seq(ElementOf(n)), NEW ids, NEW to, NEW call,
         [to |-> to, call |-> call] \in TransitionOf(n), NEW k, k # call
  PROVE  Callers(Fade(els, ids, to, call), k) \subseteq Callers(els, k)
<1> DEFINE new == Fade(els, ids, to, call)
<1>1. /\ Len(new) = Len(els)
      /\ \A i \in 1 .. Len(els) :
           new[i].tr = IF els[i].id \in ids THEN [to |-> to, call |-> call] ELSE els[i].tr
  <2>1. Len(new) = Len(els)
    BY Faded
  <2>2. \A i \in 1 .. Len(els) :
          new[i].tr = IF els[i].id \in ids THEN [to |-> to, call |-> call] ELSE els[i].tr
    BY Faded
  <2> QED
    BY <2>1, <2>2
<1> HIDE DEF new
<1> QED
  BY <1>1 DEF Callers, new

LEMMA UpdatedCallers ==
  ASSUME NEW n \in Nat, NEW els \in Seq(ElementOf(n)), NEW ts \in Seq(Target), NEW k \in Nat \ {0}
  PROVE  Callers(UpdateTargets(els, ts), k) \subseteq Callers(els, k)
<1> DEFINE new == UpdateTargets(els, ts)
<1>1. \A i \in 1 .. Len(new) :
        new[i].tr = IF new[i].id \in Shown THEN FadeIn
                    ELSE IF i <= Len(els) THEN els[i].tr ELSE NoTransition
  BY Updated
<1>2. new \in Seq(ElementOf(n)) /\ Len(els) \in Nat /\ Len(new) \in Nat
  BY Updated
<1> HIDE DEF new
<1>3. ASSUME NEW i \in Callers(new, k)
      PROVE  i \in Callers(els, k)
  <2>1. i \in 1 .. Len(new) /\ new[i].tr.call = k
    BY DEF Callers
  <2>2. FadeIn.call # k /\ NoTransition.call # k
    BY DEF FadeIn, NoTransition
  <2>3. i <= Len(els) /\ new[i].tr = els[i].tr
    BY <1>1, <2>1, <2>2
  <2>4. i \in 1 .. Len(els)
    BY <1>2, <2>1, <2>3
  <2> QED
    BY <2>1, <2>3, <2>4 DEF Callers
<1> QED
  BY <1>3 DEF new

\* When the i-th of n elements is removed, those behind it move up: where each
\* of those that stay was, and where those of some places are.
Skip(i, j) == IF j < i THEN j ELSE j + 1
Shift(n, i, places) == {j \in 1 .. n - 1 : Skip(i, j) \in places}

LEMMA Shifted ==
  ASSUME NEW n \in Nat, NEW i \in 1 .. n, NEW places \in SUBSET (1 .. n)
  PROVE  /\ Cardinality(Shift(n, i, places)) = Cardinality(places \ {i})
         /\ Cardinality(places \ {i}) =
              IF i \in places THEN Cardinality(places) - 1 ELSE Cardinality(places)
<1> DEFINE S == Shift(n, i, places)
           T == places \ {i}
           f == [j \in S |-> Skip(i, j)]
<1>1. IsFiniteSet(places) /\ IsFiniteSet(S)
  <2>1. IsFiniteSet(1 .. n) /\ IsFiniteSet(1 .. n - 1)
    BY FS_Interval
  <2>2. S \subseteq 1 .. n - 1
    BY DEF Shift
  <2> QED
    BY <2>1, <2>2, FS_Subset
<1>2. \A j \in S : j \in 1 .. n - 1 /\ Skip(i, j) \in places
  BY DEF Shift
<1>3. f \in [S -> T]
  <2>1. ASSUME NEW j \in S
        PROVE  Skip(i, j) \in T
    <3>1. Skip(i, j) # i
      BY <1>2 DEF Skip
    <3> QED
      BY <1>2, <3>1
  <2> QED
    BY <2>1
<1>4. \A j, k \in S : f[j] = f[k] => j = k
  <2> SUFFICES ASSUME NEW j \in S, NEW k \in S, Skip(i, j) = Skip(i, k) PROVE j = k
    OBVIOUS
  <2> QED
    BY <1>2 DEF Skip
<1>5. \A t \in T : \E j \in S : f[j] = t
  <2> SUFFICES ASSUME NEW t \in T PROVE \E j \in S : f[j] = t
    OBVIOUS
  <2>1. t \in 1 .. n /\ t \in places /\ t # i
    OBVIOUS
  <2>2. CASE t < i
    <3>1. t \in 1 .. n - 1 /\ Skip(i, t) = t
      BY <2>1, <2>2 DEF Skip
    <3>2. t \in S
      BY <2>1, <3>1 DEF Shift
    <3> QED
      BY <3>1, <3>2
  <2>3. CASE ~ (t < i)
    <3>1. t - 1 \in 1 .. n - 1 /\ Skip(i, t - 1) = t
      BY <2>1, <2>3 DEF Skip
    <3>2. t - 1 \in S
      BY <2>1, <3>1 DEF Shift
    <3> QED
      BY <3>1, <3>2
  <2> QED
    BY <2>2, <2>3
<1> HIDE DEF S, T, f
<1>6. ExistsBijection(S, T)
  <2>1. f \in Bijection(S, T)
    BY <1>3, <1>4, <1>5, Fun_IsBij
  <2> QED
    BY <2>1, Fun_ExistsBij
<1>7. Cardinality(T) = Cardinality(S)
  BY <1>1, <1>6, FS_Bijection
<1>8. Cardinality(places \ {i}) =
        IF i \in places THEN Cardinality(places) - 1 ELSE Cardinality(places)
  BY <1>1, FS_RemoveElement
<1> QED
  BY <1>7, <1>8 DEF S, T

\* Their ranks stay as they were if the one removed is not among them.
LEMMA ShiftedRank ==
  ASSUME NEW n \in Nat, NEW i \in 1 .. n, NEW places \in SUBSET (1 .. n), i \notin places,
         NEW j \in 1 .. n - 1
  PROVE  Rank(Shift(n, i, places), j) = Rank(places, Skip(i, j))
<1> DEFINE before == {k \in places : k < Skip(i, j)}
<1>1. {k \in Shift(n, i, places) : k < j} = Shift(n, i, before)
  <2>1. ASSUME NEW k \in 1 .. n - 1
        PROVE  k < j <=> Skip(i, k) < Skip(i, j)
    BY DEF Skip
  <2> QED
    BY <2>1 DEF Shift
<1>2. before \in SUBSET (1 .. n) /\ i \notin before /\ before \ {i} = before
  OBVIOUS
<1> HIDE DEF before
<1>3. Cardinality(Shift(n, i, before)) = Cardinality(before)
  BY <1>2, Shifted
<1> QED
  BY <1>1, <1>3 DEF Rank, before

\* The elements that are left.
LEMMA RemovedElements ==
  ASSUME NEW n \in Nat, NEW els \in Seq(ElementOf(n)), NEW i \in 1 .. Len(els)
  PROVE  /\ RemoveAt(els, i) \in Seq(ElementOf(n))
         /\ Len(RemoveAt(els, i)) = Len(els) - 1
         /\ \A j \in 1 .. Len(els) - 1 : RemoveAt(els, i)[j] = els[Skip(i, j)]
         /\ \A k : Callers(RemoveAt(els, i), k) = Shift(Len(els), i, Callers(els, k))
         /\ \A k : Cardinality(Callers(RemoveAt(els, i), k)) =
                     IF els[i].tr.call = k THEN Cardinality(Callers(els, k)) - 1
                     ELSE Cardinality(Callers(els, k))
<1> DEFINE new == RemoveAt(els, i)
           m == Len(els)
<1>1. /\ new \in Seq(ElementOf(n)) /\ Len(new) = m - 1
      /\ \A j \in 1 .. m - 1 : new[j] = IF j < i THEN els[j] ELSE els[j + 1]
  BY Removed
<1>2. \A j \in 1 .. m - 1 : new[j] = els[Skip(i, j)]
  BY <1>1 DEF Skip
<1>3. m \in Nat /\ i \in 1 .. m
  OBVIOUS
<1>4. \A j \in 1 .. m - 1 : Skip(i, j) \in 1 .. m
  BY <1>3 DEF Skip
<1> HIDE DEF new, m
<1>5. ASSUME NEW k
      PROVE  Callers(new, k) = Shift(m, i, Callers(els, k))
  <2>1. Callers(new, k) = {j \in 1 .. m - 1 : new[j].tr.call = k}
    BY <1>1 DEF Callers
  <2>2. Callers(els, k) = {j \in 1 .. m : els[j].tr.call = k}
    BY DEF Callers, m
  <2> QED
    BY <1>2, <1>4, <2>1, <2>2 DEF Shift
<1>6. ASSUME NEW k
      PROVE  Cardinality(Callers(new, k)) =
               IF els[i].tr.call = k THEN Cardinality(Callers(els, k)) - 1
               ELSE Cardinality(Callers(els, k))
  <2>1. Callers(els, k) \in SUBSET (1 .. m) /\ (i \in Callers(els, k) <=> els[i].tr.call = k)
    BY <1>3 DEF Callers, m
  <2> DEFINE places == Callers(els, k)
  <2> HIDE DEF places
  <2>2. /\ Cardinality(Shift(m, i, places)) = Cardinality(places \ {i})
        /\ Cardinality(places \ {i}) =
              IF i \in places THEN Cardinality(places) - 1 ELSE Cardinality(places)
    <3>1. places \in SUBSET (1 .. m)
      BY <2>1 DEF places
    <3> QED
      BY <1>3, <3>1, Shifted
  <2> QED
    BY <1>5, <2>1, <2>2 DEF places
<1> QED
  BY <1>1, <1>2, <1>5, <1>6 DEF new, m

-----------------------------------------------------------------------------
(***************************************************************************)
(* What always holds.                                                      *)
(***************************************************************************)
FlowStates == {"drawing", "undrawn", "flowing", "thrown", "done"}
UnloadOf == [state : {"running", "done"}, load : Seq(Target), left : Nat]
FlowOf == [index : Nat, length : {0, 1}, state : FlowStates, even : BOOLEAN]

\* The data.
DataInv == Right(targets, given) /\ GivenTyped(given) /\ CallsTyped

\* The elements and the calls they belong to.
ElementsInv ==
    /\ elements \in Seq(ElementOf(Len(unloads)))
    /\ hidden \in Seq(Ids)

UnloadsInv ==
    /\ unloads \in Seq(UnloadOf)
    /\ \A k \in 1 .. Len(unloads) : unloads[k].load = <<>> \/ Loadable(unloads[k].load)

\* No more elements fade out for a call than it waits for; done, it waits for none.
WaitsInv ==
    \A k \in 1 .. Len(unloads) :
        /\ Cardinality(Callers(elements, k)) <= unloads[k].left
        /\ unloads[k].state = "done" => unloads[k].left = 0

FlowsInv == flows \in Seq(FlowOf) /\ flowing \in BOOLEAN /\ hasty \in BOOLEAN

Inv == DataInv /\ ElementsInv /\ UnloadsInv /\ WaitsInv /\ FlowsInv

\* A call of the page may give values, and is counted.
LEMMA Counted ==
  ASSUME ChartAssumption, CallsTyped
  PROVE  /\ MayCall => MayGive
         /\ MayCall /\ Count("data") => CallsTyped'
         /\ calls.view < MaxViews /\ Count("view") => CallsTyped'
<1>1. MaxData \in Nat /\ MaxViews \in Nat
  BY DEF ChartAssumption
<1>2. MayCall => MayGive
  BY DEF MayCall, MayGive
<1>3. MayCall /\ Count("data") => CallsTyped'
  BY <1>1 DEF MayCall, Count, CallsTyped
<1>4. calls.view < MaxViews /\ Count("view") => CallsTyped'
  BY <1>1 DEF Count, CallsTyped
<1> QED
  BY <1>2, <1>3, <1>4

\* No more elements than before fade out for the calls there are.
LEMMA WaitsKept ==
  ASSUME ElementsInv, UnloadsInv, WaitsInv, unloads' = unloads,
         \A k \in Nat \ {0} : Callers(elements', k) \subseteq Callers(elements, k)
  PROVE  WaitsInv'
<1>1. unloads \in Seq(UnloadOf) /\ elements \in Seq(ElementOf(Len(unloads))) /\ Len(unloads) \in Nat
  BY DEF UnloadsInv, ElementsInv
<1>2. ASSUME NEW k \in 1 .. Len(unloads)
      PROVE  Cardinality(Callers(elements', k)) <= unloads[k].left
  <2>1. unloads[k] \in UnloadOf /\ k \in Nat \ {0}
    BY <1>1
  <2>2. unloads[k].left \in Nat
    BY <2>1 DEF UnloadOf
  <2>3. Callers(elements', k) \subseteq Callers(elements, k)
    BY <2>1
  <2>4. /\ Cardinality(Callers(elements', k)) \in Nat
        /\ Cardinality(Callers(elements', k)) <= Cardinality(Callers(elements, k))
    BY <1>1, <2>3, FewerCallers
  <2>5. Cardinality(Callers(elements, k)) \in Nat /\ Cardinality(Callers(elements, k)) <= unloads[k].left
    BY <1>1, CallersFinite DEF WaitsInv
  <2> QED
    BY <2>2, <2>4, <2>5
<1> QED
  BY <1>2 DEF WaitsInv

\* Loading.
LEMMA DoLoadInv ==
  ASSUME ChartAssumption, DataInv, UnloadsInv,
         NEW els \in Seq(ElementOf(Len(unloads))), NEW loaded, Loadable(loaded),
         DoLoad(els, targets, loaded)
  PROVE  /\ Right(targets', given') /\ GivenTyped(given')
         /\ elements' \in Seq(ElementOf(Len(unloads)))
         /\ \A k \in Nat \ {0} : Callers(elements', k) \subseteq Callers(els, k)
<1>1. Right(targets, given) /\ GivenTyped(given) /\ Len(unloads) \in Nat
  BY DEF DataInv, UnloadsInv
<1>2. /\ targets' = Loaded(targets, loaded) /\ given' = GivenBy(loaded)
      /\ elements' = UpdateTargets(els, targets')
  BY DEF DoLoad
<1>3. Right(targets', given') /\ GivenTyped(given')
  BY <1>1, <1>2, LoadKeepsRight
<1>4. targets' \in Seq(Target)
  BY <1>3 DEF Right
<1>5. elements' \in Seq(ElementOf(Len(unloads)))
  BY <1>1, <1>2, <1>4, Updated
<1>6. \A k \in Nat \ {0} : Callers(elements', k) \subseteq Callers(els, k)
  BY <1>1, <1>2, <1>4, UpdatedCallers
<1> QED
  BY <1>3, <1>5, <1>6

\* Unloading.
LEMMA DoUnloadInv ==
  ASSUME ChartAssumption, DataInv, ElementsInv, UnloadsInv, WaitsInv,
         NEW ids \in Seq(Ids), NEW load, load = <<>> \/ Loadable(load),
         DoUnload(ids, load)
  PROVE  /\ Right(targets', given') /\ given' = given
         /\ elements' \in Seq(ElementOf(Len(unloads'))) /\ UnloadsInv' /\ WaitsInv'
<1> DEFINE n == Len(unloads)
           u == [state |-> "running", load |-> load, left |-> Waited(ids)]
<1>1. /\ Right(targets, given) /\ elements \in Seq(ElementOf(n)) /\ unloads \in Seq(UnloadOf)
      /\ n \in Nat /\ DOMAIN elements = 1 .. Len(elements)
  BY DEF DataInv, ElementsInv, UnloadsInv
<1>2. /\ targets' = WithoutTargets(targets, ids) /\ given' = given
      /\ elements' = Fade(elements, ToSet(ids), 0, n + 1)
      /\ unloads' = Append(unloads, u)
  BY DEF DoUnload
<1>3. Right(targets', given')
  BY <1>1, <1>2, WithoutKeepsRight
<1>4. \A id : id \in ToSet(ids) <=> Contains(ids, id)
  BY DEF ToSet, Contains
<1>5. Waited(ids) = Cardinality({i \in 1 .. Len(elements) : elements[i].id \in ToSet(ids)})
  BY <1>1, <1>4 DEF Waited
<1>6. u \in UnloadOf
  <2>1. IsFiniteSet(1 .. Len(elements))
    BY <1>1, FS_Interval
  <2>2. IsFiniteSet({i \in 1 .. Len(elements) : elements[i].id \in ToSet(ids)})
    BY <2>1, FS_Subset
  <2>3. Waited(ids) \in Nat
    BY <1>5, <2>2, FS_CardinalityType
  <2>4. load \in Seq(Target)
    <3>1. <<>> \in Seq(Target)
      OBVIOUS
    <3>2. Loadable(load) => load \in Seq(Target)
      BY DEF Loadable
    <3> QED
      BY <3>1, <3>2
  <2> QED
    BY <2>3, <2>4 DEF UnloadOf
<1>7. u.load = load /\ u.left = Waited(ids) /\ u.state = "running"
  OBVIOUS
<1> HIDE DEF u, n
<1>8. /\ unloads' \in Seq(UnloadOf) /\ Len(unloads') = n + 1
      /\ \A k \in 1 .. n : unloads'[k] = unloads[k]
      /\ unloads'[n + 1] = u
  <2>1. unloads \in Seq(UnloadOf) /\ Len(unloads) = n
    BY <1>1 DEF n
  <2> QED
    BY <1>2, <1>6, <2>1, AppendProperties
<1>9. [to |-> 0, call |-> n + 1] \in TransitionOf(n + 1)
  BY <1>1 DEF TransitionOf
<1>10. n + 1 \in Nat /\ elements \in Seq(ElementOf(n + 1))
  BY <1>1, ElementsMore
<1>11. elements' \in Seq(ElementOf(n + 1)) /\ Len(elements') = Len(elements)
  BY <1>2, <1>9, <1>10, Faded
<1>12. \A i \in 1 .. Len(elements) :
         elements'[i].tr = IF elements[i].id \in ToSet(ids)
                           THEN [to |-> 0, call |-> n + 1] ELSE elements[i].tr
  BY <1>2, <1>9, <1>10, Faded
<1>13. \A i \in 1 .. Len(elements) : elements[i].tr.call # n + 1
  <2>1. \A i \in 1 .. Len(elements) : elements[i] \in ElementOf(n)
    BY <1>1
  <2>2. \A t \in TransitionOf(n) : t.call # n + 1
    BY <1>1 DEF TransitionOf, NoTransition
  <2> QED
    BY <2>1, <2>2 DEF ElementOf
<1>14. Callers(elements', n + 1) = {i \in 1 .. Len(elements) : elements[i].id \in ToSet(ids)}
  BY <1>11, <1>12, <1>13 DEF Callers
<1>15. UnloadsInv'
  <2>1. ASSUME NEW k \in 1 .. n + 1
        PROVE  unloads'[k].load = <<>> \/ Loadable(unloads'[k].load)
    <3>1. CASE k \in 1 .. n
      BY <1>8, <3>1 DEF UnloadsInv, n
    <3>2. CASE ~ (k \in 1 .. n)
      <4>1. k = n + 1
        BY <1>1, <3>2
      <4> QED
        BY <1>7, <1>8, <4>1
    <3> QED
      BY <3>1, <3>2
  <2> QED
    BY <1>8, <2>1 DEF UnloadsInv
<1>16. WaitsInv'
  <2>1. ASSUME NEW k \in 1 .. n + 1
        PROVE  /\ Cardinality(Callers(elements', k)) <= unloads'[k].left
               /\ unloads'[k].state = "done" => unloads'[k].left = 0
    <3>1. CASE k \in 1 .. n
      <4>1. unloads'[k] = unloads[k] /\ k # n + 1 /\ k \in 1 .. Len(unloads)
        BY <1>1, <1>8, <3>1 DEF n
      <4>2. Callers(elements', k) \subseteq Callers(elements, k)
        BY <1>2, <1>9, <1>10, <4>1, FadedCallers
      <4>3. /\ Cardinality(Callers(elements', k)) \in Nat
            /\ Cardinality(Callers(elements', k)) <= Cardinality(Callers(elements, k))
        BY <1>10, <4>2, FewerCallers
      <4>4. /\ Cardinality(Callers(elements, k)) \in Nat
            /\ Cardinality(Callers(elements, k)) <= unloads[k].left
            /\ unloads[k].state = "done" => unloads[k].left = 0
        BY <1>1, <4>1, CallersFinite DEF WaitsInv
      <4>5. unloads[k].left \in Nat
        <5>1. unloads[k] \in UnloadOf
          BY <1>1, <4>1
        <5> QED
          BY <5>1 DEF UnloadOf
      <4> QED
        BY <4>1, <4>3, <4>4, <4>5
    <3>2. CASE ~ (k \in 1 .. n)
      <4>1. k = n + 1
        BY <1>1, <3>2
      <4>2. Cardinality(Callers(elements', k)) = u.left
        BY <1>5, <1>7, <1>14, <4>1
      <4>3. u.left \in Nat /\ unloads'[k] = u
        BY <1>6, <1>8, <4>1 DEF UnloadOf
      <4> QED
        BY <1>7, <4>2, <4>3
    <3> QED
      BY <3>1, <3>2
  <2> QED
    BY <1>8, <2>1 DEF WaitsInv
<1> QED
  BY <1>2, <1>3, <1>8, <1>11, <1>15, <1>16

\* A call that loads at once.
LEMMA LoadInv ==
  ASSUME ChartAssumption, Inv, MayCall, Count("data"), NEW loaded, Loadable(loaded),
         DoLoad(elements, targets, loaded), hasty' \in BOOLEAN,
         UNCHANGED <<hidden, unloads, flows, flowing>>
  PROVE  Inv'
<1>1. DataInv /\ ElementsInv /\ UnloadsInv /\ WaitsInv /\ FlowsInv
  BY DEF Inv
<1>2. elements \in Seq(ElementOf(Len(unloads)))
  BY <1>1 DEF ElementsInv
<1>3. /\ Right(targets', given') /\ GivenTyped(given')
      /\ elements' \in Seq(ElementOf(Len(unloads)))
      /\ \A k \in Nat \ {0} : Callers(elements', k) \subseteq Callers(elements, k)
  BY <1>1, <1>2, DoLoadInv
<1>4. WaitsInv'
  BY <1>1, <1>3, WaitsKept
<1>5. DataInv'
  BY <1>1, <1>3, Counted DEF DataInv
<1>6. ElementsInv'
  BY <1>1, <1>3 DEF ElementsInv
<1>7. UnloadsInv' /\ FlowsInv'
  BY <1>1 DEF UnloadsInv, FlowsInv
<1> QED
  BY <1>4, <1>5, <1>6, <1>7 DEF Inv

\* A call that unloads.
LEMMA UnloadInv ==
  ASSUME ChartAssumption, Inv, MayCall, Count("data"),
         NEW ids \in Seq(Ids), NEW load, load = <<>> \/ Loadable(load),
         DoUnload(ids, load), hasty' \in BOOLEAN, UNCHANGED <<hidden, flows, flowing>>
  PROVE  Inv'
<1>1. DataInv /\ ElementsInv /\ UnloadsInv /\ WaitsInv /\ FlowsInv
  BY DEF Inv
<1>2. /\ Right(targets', given') /\ given' = given
      /\ elements' \in Seq(ElementOf(Len(unloads'))) /\ UnloadsInv' /\ WaitsInv'
  BY <1>1, DoUnloadInv
<1>3. DataInv'
  BY <1>1, <1>2, Counted DEF DataInv
<1>4. ElementsInv' /\ FlowsInv'
  BY <1>1, <1>2 DEF ElementsInv, FlowsInv
<1> QED
  BY <1>2, <1>3, <1>4 DEF Inv

\* The ids that an unload finds are ids.
LEMMA ExistingTyped ==
  ASSUME ChartAssumption, Inv, NEW ids \in IdLists
  PROVE  Existing(ids) \in Seq(Ids)
<1>1. targets \in Seq(Target)
  BY DEF Inv, DataInv, Right
<1> QED
  BY <1>1, Named

\* A transition that ends: it changes its element, or the calls of its unload.
LEMMA TransitionInv ==
  ASSUME ChartAssumption, Inv, NEW i \in 1 .. Len(elements), TransitionEnds(i)
  PROVE  Inv'
<1> DEFINE tr == elements[i].tr
           settled == [elements EXCEPT ![i].opacity = tr.to, ![i].tr = NoTransition]
           removed == RemoveAt(elements, i)
           k == tr.call
           u == unloads[k]
<1>1. DataInv /\ ElementsInv /\ UnloadsInv /\ WaitsInv /\ FlowsInv
  BY DEF Inv
<1>2. /\ elements \in Seq(ElementOf(Len(unloads))) /\ unloads \in Seq(UnloadOf)
      /\ Len(unloads) \in Nat /\ DOMAIN elements = 1 .. Len(elements)
      /\ elements[i] \in ElementOf(Len(unloads))
  BY <1>1 DEF ElementsInv, UnloadsInv
<1>3. tr \in [to : {0, 1}, call : 0 .. Len(unloads)]
  <2>1. tr \in TransitionOf(Len(unloads))
    BY <1>2 DEF ElementOf
  <2>2. tr # NoTransition
    BY DEF TransitionEnds
  <2> QED
    BY <2>1, <2>2 DEF TransitionOf
<1>4. UNCHANGED <<hidden, flows, flowing, hasty, calls>>
  BY DEF TransitionEnds
<1>5. CallsTyped' /\ FlowsInv' /\ hidden' \in Seq(Ids)
  BY <1>1, <1>4 DEF DataInv, CallsTyped, FlowsInv, ElementsInv
<1>6. CASE k = 0
  <2>1. elements' = settled /\ UNCHANGED <<targets, given, unloads>>
    BY <1>6 DEF TransitionEnds
  <2>2. NoTransition \in TransitionOf(Len(unloads)) /\ tr.to \in {0, 1}
    BY <1>3 DEF TransitionOf
  <2> DEFINE settle == [elements[i] EXCEPT !.opacity = tr.to, !.tr = NoTransition]
  <2>3. settle \in ElementOf(Len(unloads)) /\ settle.tr = NoTransition
    BY <1>2, <2>2 DEF ElementOf
  <2>4. settled = [elements EXCEPT ![i] = settle]
    BY <1>2
  <2> HIDE DEF settle, settled, tr
  <2>5. /\ settled \in Seq(ElementOf(Len(unloads))) /\ Len(settled) = Len(elements)
        /\ \A j \in 1 .. Len(elements) : settled[j] = IF j = i THEN settle ELSE elements[j]
    BY <1>2, <2>3, <2>4
  <2>6. ASSUME NEW l \in Nat \ {0}
        PROVE  Callers(settled, l) \subseteq Callers(elements, l)
    <3>1. NoTransition.call # l
      BY DEF NoTransition
    <3> QED
      BY <2>3, <2>5, <3>1 DEF Callers
  <2>7. WaitsInv'
    BY <1>1, <2>1, <2>6, WaitsKept
  <2>8. DataInv' /\ ElementsInv' /\ UnloadsInv'
    BY <1>1, <1>5, <2>1, <2>5 DEF DataInv, ElementsInv, UnloadsInv
  <2> QED
    BY <1>5, <2>7, <2>8 DEF Inv
<1>7. CASE k # 0
  <2>1. k \in 1 .. Len(unloads) /\ k \in Nat \ {0}
    BY <1>2, <1>3, <1>7
  <2>2. /\ unloads' = [unloads EXCEPT ![k].left = @ - 1,
                                      ![k].state = IF u.left = 1 THEN "done" ELSE @]
        /\ IF u.left = 1 /\ u.load # <<>> THEN DoLoad(removed, targets, u.load)
           ELSE elements' = removed /\ UNCHANGED <<targets, given>>
    BY <1>7 DEF TransitionEnds
  <2>3. /\ removed \in Seq(ElementOf(Len(unloads)))
        /\ \A l : Cardinality(Callers(removed, l)) =
                    IF elements[i].tr.call = l THEN Cardinality(Callers(elements, l)) - 1
                    ELSE Cardinality(Callers(elements, l))
    BY <1>2, RemovedElements
  <2>4. \A l : Cardinality(Callers(elements, l)) \in Nat /\ Cardinality(Callers(removed, l)) \in Nat
    BY <1>2, <2>3, CallersFinite
  <2>5. u \in UnloadOf /\ u.left \in Nat /\ u.left >= 1 /\ Cardinality(Callers(elements, k)) <= u.left
    <3>1. u \in UnloadOf
      BY <1>2, <2>1
    <3>2. u.left \in Nat
      BY <3>1 DEF UnloadOf
    <3>3. Cardinality(Callers(elements, k)) <= u.left
      BY <1>1, <2>1 DEF WaitsInv
    <3>4. Cardinality(Callers(removed, k)) = Cardinality(Callers(elements, k)) - 1
      BY <2>3
    <3> QED
      BY <2>4, <3>1, <3>2, <3>3, <3>4
  <2> DEFINE over == [u EXCEPT !.left = @ - 1, !.state = IF u.left = 1 THEN "done" ELSE @]
  <2>6. /\ over \in UnloadOf /\ over.load = u.load /\ over.left = u.left - 1
        /\ over.state = IF u.left = 1 THEN "done" ELSE u.state
    <3> DEFINE left == u.left - 1
               state == IF u.left = 1 THEN "done" ELSE u.state
    <3>1. left \in Nat
      BY <2>5
    <3>2. u.state \in {"running", "done"} /\ state \in {"running", "done"}
      BY <2>5 DEF UnloadOf
    <3>3. over = [u EXCEPT !.left = left, !.state = state]
      OBVIOUS
    <3> HIDE DEF left, state, over, u
    <3>4. /\ over \in UnloadOf /\ over.load = u.load /\ over.left = left /\ over.state = state
      BY <2>5, <3>1, <3>2, <3>3 DEF UnloadOf
    <3> QED
      BY <3>4 DEF left, state
  <2>7. unloads' = [unloads EXCEPT ![k] = over]
    BY <1>2, <2>1, <2>2
  <2>8. u = unloads[k]
    OBVIOUS
  <2> HIDE DEF over, u, k, tr, removed
  <2>9. /\ unloads' \in Seq(UnloadOf) /\ Len(unloads') = Len(unloads)
        /\ \A l \in 1 .. Len(unloads) : unloads'[l] = IF l = k THEN over ELSE unloads[l]
    BY <1>2, <2>1, <2>6, <2>7
  <2>10. UnloadsInv'
    <3>1. \A l \in 1 .. Len(unloads) : unloads'[l].load = unloads[l].load
      BY <2>6, <2>8, <2>9
    <3> QED
      BY <1>1, <2>9, <3>1 DEF UnloadsInv
  <2>11. /\ Right(targets', given') /\ GivenTyped(given')
         /\ elements' \in Seq(ElementOf(Len(unloads)))
         /\ \A l \in Nat \ {0} : Callers(elements', l) \subseteq Callers(removed, l)
    <3>1. CASE u.left = 1 /\ u.load # <<>>
      <4>1. Loadable(u.load)
        BY <1>1, <2>1, <2>8, <3>1 DEF UnloadsInv
      <4>2. DoLoad(removed, targets, u.load)
        BY <2>2, <3>1
      <4> QED
        BY <1>1, <2>3, <4>1, <4>2, DoLoadInv
    <3>2. CASE ~ (u.left = 1 /\ u.load # <<>>)
      BY <1>1, <2>2, <2>3, <3>2 DEF DataInv
    <3> QED
      BY <3>1, <3>2
  <2>12. WaitsInv'
    <3>1. ASSUME NEW l \in 1 .. Len(unloads)
          PROVE  /\ Cardinality(Callers(elements', l)) <= unloads'[l].left
                 /\ unloads'[l].state = "done" => unloads'[l].left = 0
      <4>1. l \in Nat \ {0}
        BY <1>2
      <4>2. /\ Cardinality(Callers(elements', l)) \in Nat
            /\ Cardinality(Callers(elements', l)) <= Cardinality(Callers(removed, l))
        <5>1. Callers(elements', l) \subseteq Callers(removed, l)
          BY <2>11, <4>1
        <5> QED
          BY <1>2, <2>3, <5>1, FewerCallers
      <4>3. /\ Cardinality(Callers(elements, l)) <= unloads[l].left
            /\ unloads[l].state = "done" => unloads[l].left = 0
        BY <1>1 DEF WaitsInv
      <4>4. unloads[l].left \in Nat
        <5>1. unloads[l] \in UnloadOf
          BY <1>2
        <5> QED
          BY <5>1 DEF UnloadOf
      <4>5. CASE l = k
        <5>1. Cardinality(Callers(removed, l)) = Cardinality(Callers(elements, l)) - 1
          BY <2>3, <4>5 DEF k, tr
        <5>2. unloads'[l].left = unloads[l].left - 1
          BY <2>6, <2>8, <2>9, <4>5
        <5>3. unloads'[l].state = "done" => unloads'[l].left = 0
          BY <2>5, <2>6, <2>8, <2>9, <4>3, <4>5
        <5> QED
          BY <2>4, <4>2, <4>3, <4>4, <5>1, <5>2, <5>3
      <4>6. CASE l # k
        <5>1. Cardinality(Callers(removed, l)) = Cardinality(Callers(elements, l))
          BY <2>3, <4>6 DEF k, tr
        <5>2. unloads'[l] = unloads[l]
          BY <2>9, <4>6
        <5> QED
          BY <2>4, <4>2, <4>3, <4>4, <5>1, <5>2
      <4> QED
        BY <4>5, <4>6
    <3> QED
      BY <2>9, <3>1 DEF WaitsInv
  <2>13. DataInv' /\ ElementsInv'
    BY <1>5, <2>9, <2>11 DEF DataInv, ElementsInv
  <2> QED
    BY <1>5, <2>10, <2>12, <2>13 DEF Inv
<1> QED
  BY <1>6, <1>7

\* Hiding and showing.
LEMMA ViewInv ==
  ASSUME ChartAssumption, Inv, NEW shown \in Seq(Ids), NEW hid \in Seq(Ids), View(shown, hid)
  PROVE  Inv'
<1> DEFINE n == Len(unloads)
           once == Fade(elements, ToSet(shown), 1, 0)
<1>1. DataInv /\ ElementsInv /\ UnloadsInv /\ WaitsInv /\ FlowsInv
  BY DEF Inv
<1>2. /\ elements \in Seq(ElementOf(n)) /\ n \in Nat /\ hidden \in Seq(Ids)
  BY <1>1 DEF ElementsInv, UnloadsInv
<1>3. /\ hidden' = RemoveHiddenTargetIds(shown) \o hid
      /\ elements' = Fade(once, ToSet(hid), 0, 0)
      /\ hasty' = (hasty \/ Unloading)
      /\ UNCHANGED <<targets, given, unloads, flows, flowing>>
  BY DEF View
<1>4. hidden' \in Seq(Ids)
  <2> DEFINE places == {i \in 1 .. Len(hidden) : ~ Contains(shown, hidden[i])}
  <2>1. RemoveHiddenTargetIds(shown) = Chosen(hidden, places)
    <3>1. DOMAIN hidden = 1 .. Len(hidden)
      BY <1>2
    <3> QED
      BY <3>1 DEF RemoveHiddenTargetIds
  <2>2. places \in SUBSET (1 .. Len(hidden))
    OBVIOUS
  <2> HIDE DEF places
  <2>3. Chosen(hidden, places) \in Seq(Ids)
    BY <1>2, <2>2, ChosenPlaces
  <2> QED
    BY <1>3, <2>1, <2>3, ConcatProperties
<1>5. [to |-> 1, call |-> 0] \in TransitionOf(n) /\ [to |-> 0, call |-> 0] \in TransitionOf(n)
  BY <1>2 DEF TransitionOf
<1>6. once \in Seq(ElementOf(n))
  BY <1>2, <1>5, Faded
<1>7. \A k \in Nat \ {0} : Callers(once, k) \subseteq Callers(elements, k)
  <2> SUFFICES ASSUME NEW k \in Nat \ {0} PROVE Callers(once, k) \subseteq Callers(elements, k)
    OBVIOUS
  <2>1. k # 0
    OBVIOUS
  <2> QED
    BY <1>2, <1>5, <2>1, FadedCallers
<1> HIDE DEF once, n
<1>8. elements' \in Seq(ElementOf(n))
  BY <1>2, <1>3, <1>5, <1>6, Faded
<1>9. \A k \in Nat \ {0} : Callers(elements', k) \subseteq Callers(elements, k)
  <2> SUFFICES ASSUME NEW k \in Nat \ {0} PROVE Callers(elements', k) \subseteq Callers(elements, k)
    OBVIOUS
  <2>1. k # 0
    OBVIOUS
  <2>2. Callers(elements', k) \subseteq Callers(once, k)
    BY <1>2, <1>3, <1>5, <1>6, <2>1, FadedCallers
  <2> QED
    BY <1>7, <2>2
<1>10. WaitsInv'
  BY <1>1, <1>3, <1>9, WaitsKept
<1>11. DataInv'
  <2>1. CallsTyped'
    BY <1>1, Counted DEF View, DataInv
  <2> QED
    BY <1>1, <1>3, <2>1 DEF DataInv
<1>12. ElementsInv' /\ UnloadsInv'
  BY <1>1, <1>3, <1>4, <1>8 DEF ElementsInv, UnloadsInv, n
<1>13. FlowsInv'
  BY <1>1, <1>3 DEF FlowsInv, Unloading
<1> QED
  BY <1>10, <1>11, <1>12, <1>13 DEF Inv

\* What toggle shows and hides are ids.
LEMMA PartTyped ==
  ASSUME ChartAssumption, NEW ids \in IdLists, NEW places \in SUBSET (DOMAIN ids)
  PROVE  Chosen(ids, places) \in Seq(Ids)
<1>1. ids \in Seq(Ids)
  BY DEF ChartAssumption
<1>2. places \in SUBSET (1 .. Len(ids))
  BY <1>1
<1> QED
  BY <1>1, <1>2, ChosenPlaces

\* A flow.
LEMMA FlowInv ==
  ASSUME ChartAssumption, Inv, Flow
  PROVE  Inv'
<1>1. DataInv /\ ElementsInv /\ UnloadsInv /\ WaitsInv /\ FlowsInv
  BY DEF Inv
<1>2. /\ Right(targets, given) /\ GivenTyped(given) /\ MayGive /\ CallsTyped'
      /\ elements \in Seq(ElementOf(Len(unloads))) /\ Len(unloads) \in Nat
      /\ targets \in Seq(Target) /\ Distinct(targets) /\ DOMAIN targets = 1 .. Len(targets)
      /\ \A i \in 1 .. Len(targets) : Runs(targets[i].values)
  BY <1>1, Counted DEF DataInv, Right, ElementsInv, UnloadsInv, Flow
<1>3. \A i \in 1 .. Len(targets) : targets[i].values # <<>>
  BY <1>2 DEF Flow
<1>4. PICK ids \in IdLists :
        /\ targets' = Flowed(ids, Gifts(ids))
        /\ elements' = UpdateTargets(elements, targets')
        /\ given' = GivenByFlow(targets', Gifts(ids))
        /\ flows' = Append(flows, [index |-> targets'[1].values[1].index, length |-> Gifts(ids),
                                   state |-> Drawn(targets), even |-> Even(ids)])
  BY DEF Flow, Gifts
<1>5. Right(targets', given') /\ GivenTyped(given')
  BY <1>2, <1>3, <1>4, FlowKeepsRight
<1>6. targets' \in Seq(Target)
  BY <1>5 DEF Right
<1>7. elements' \in Seq(ElementOf(Len(unloads)))
  BY <1>2, <1>4, <1>6, Updated
<1>8. \A k \in Nat \ {0} : Callers(elements', k) \subseteq Callers(elements, k)
  BY <1>2, <1>4, <1>6, UpdatedCallers
<1>9. UNCHANGED <<hidden, unloads, flowing>> /\ hasty' = (hasty \/ Unloading \/ Flowing)
  BY DEF Flow
<1>10. WaitsInv'
  BY <1>1, <1>8, <1>9, WaitsKept
<1>11. targets'[1].values[1].index \in Nat
  <2>1. Len(targets') >= 1 /\ \A i \in 1 .. Len(targets') : Len(targets'[i].values) >= 1
    BY <1>2, <1>3, <1>4, FlowedTargets
  <2>2. 1 \in 1 .. Len(targets')
    BY <1>6, <2>1
  <2>3. targets'[1] \in Target /\ Len(targets'[1].values) >= 1
    BY <1>6, <2>1, <2>2
  <2>4. targets'[1].values \in Seq(Value)
    BY <2>3 DEF Target
  <2>5. targets'[1].values[1] \in Value
    BY <2>3, <2>4
  <2> QED
    BY <2>5 DEF Value
<1>12. FlowsInv'
  <2> DEFINE f == [index |-> targets'[1].values[1].index, length |-> Gifts(ids),
                   state |-> Drawn(targets), even |-> Even(ids)]
  <2>1. Gifts(ids) \in {0, 1} /\ Drawn(targets) \in FlowStates
    BY DEF Gifts, Drawn, FlowStates
  <2>2. Even(ids) \in BOOLEAN
    BY DEF Even
  <2>3. f \in FlowOf
    BY <1>11, <2>1, <2>2 DEF FlowOf
  <2> HIDE DEF f
  <2>4. flows' \in Seq(FlowOf)
    BY <1>1, <1>4, <2>3, AppendProperties DEF FlowsInv, f
  <2>5. hasty' \in BOOLEAN /\ flowing' \in BOOLEAN
    BY <1>1, <1>9 DEF FlowsInv, Unloading, Flowing
  <2> QED
    BY <2>4, <2>5 DEF FlowsInv
<1>13. DataInv' /\ ElementsInv' /\ UnloadsInv'
  BY <1>1, <1>2, <1>5, <1>7, <1>9 DEF DataInv, ElementsInv, UnloadsInv
<1> QED
  BY <1>10, <1>12, <1>13 DEF Inv

\* A flow that starts to move, or ends.
LEMMA FlowStepInv ==
  ASSUME ChartAssumption, Inv, NEW k \in 1 .. Len(flows), StartFlow(k) \/ FinishFlow(k)
  PROVE  Inv'
<1>1. DataInv /\ ElementsInv /\ UnloadsInv /\ WaitsInv /\ FlowsInv
  BY DEF Inv
<1>2. UNCHANGED <<elements, hidden, unloads, given, hasty, calls>>
  BY DEF StartFlow, FinishFlow
<1>3. flows \in Seq(FlowOf) /\ flows[k] \in FlowOf /\ flowing \in BOOLEAN /\ hasty \in BOOLEAN
  BY <1>1 DEF FlowsInv
<1>4. \/ targets' = targets
      \/ targets' = Beheaded(targets, flows[k].length)
  BY DEF StartFlow, FinishFlow
<1>5. Right(targets', given)
  <2>1. Right(targets, given) /\ GivenTyped(given) /\ flows[k].length \in Nat
    BY <1>1, <1>3 DEF DataInv, FlowOf
  <2> QED
    BY <1>4, <2>1, BeheadedKeepsRight
<1>6. flowing' \in BOOLEAN
  BY <1>3 DEF StartFlow, FinishFlow, FlowFlag
<1>7. flows' \in Seq(FlowOf)
  <2>1. ASSUME NEW state \in FlowStates
        PROVE  [flows EXCEPT ![k].state = state] \in Seq(FlowOf)
    <3>1. [flows[k] EXCEPT !.state = state] \in FlowOf
      BY <1>3 DEF FlowOf
    <3> QED
      BY <1>3, <3>1
  <2>2. \E state \in FlowStates : flows' = [flows EXCEPT ![k].state = state]
    <3>1. {"thrown", "flowing", "done"} \subseteq FlowStates
      BY DEF FlowStates
    <3> QED
      BY <3>1 DEF StartFlow, FinishFlow
  <2> QED
    BY <2>1, <2>2
<1>8. DataInv' /\ ElementsInv' /\ UnloadsInv' /\ WaitsInv' /\ FlowsInv'
  BY <1>1, <1>2, <1>3, <1>5, <1>6, <1>7
     DEF DataInv, CallsTyped, ElementsInv, UnloadsInv, WaitsInv, FlowsInv
<1> QED
  BY <1>8 DEF Inv

\* The chart that was generated.
LEMMA InitInv ==
  ASSUME ChartAssumption, Init
  PROVE  Inv
<1>1. PICK ids \in IdLists :
        /\ targets = [i \in DOMAIN ids |->
                        [id |-> ids[i], values |-> [k \in 1 .. LoadLength |->
                                                       [index |-> k - 1, value |-> 0]]]]
        /\ elements = [i \in DOMAIN ids |->
                         [id |-> ids[i], opacity |-> 0, tr |-> [to |-> 1, call |-> 0]]]
  BY DEF Init
<1>2. /\ hidden = <<>> /\ unloads = <<>> /\ flows = <<>> /\ flowing = FALSE
      /\ given = [id \in Ids |-> IF HasTarget(targets, id) THEN [k \in 1 .. LoadLength |-> 0]
                                 ELSE <<>>]
      /\ hasty = FALSE /\ calls = [data |-> 0, view |-> 0]
  BY DEF Init
<1> DEFINE values == [k \in 1 .. LoadLength |-> [index |-> k - 1, value |-> 0]]
           zeros == [k \in 1 .. LoadLength |-> 0]
<1>3. /\ LoadLength \in Nat /\ LoadLength >= 2 /\ MaxData \in Nat /\ MaxViews \in Nat
      /\ ids \in Seq(Ids) /\ DOMAIN ids = 1 .. Len(ids)
      /\ \A i, j \in 1 .. Len(ids) : ids[i] = ids[j] => i = j
  <2>1. ids \in Seq(Ids) /\ IsInjective(ids) /\ LoadLength \in Nat \ {0, 1}
        /\ MaxData \in Nat /\ MaxViews \in Nat
    BY DEF ChartAssumption
  <2> QED
    BY <2>1 DEF IsInjective
<1>4. /\ values \in Seq(Value) /\ Len(values) = LoadLength
      /\ \A k \in 1 .. LoadLength : values[k].index = k - 1 /\ values[k].value = 0
  <2>1. ASSUME NEW k \in 1 .. LoadLength
        PROVE  [index |-> k - 1, value |-> 0] \in Value
    <3>1. k - 1 \in Nat /\ 0 \in Null .. MaxData
      BY <1>3 DEF Null
    <3> QED
      BY <3>1 DEF Value
  <2> QED
    BY <1>3, <2>1
<1>5. /\ zeros \in Seq(Null .. MaxData) /\ Len(zeros) = LoadLength
      /\ \A k \in 1 .. LoadLength : zeros[k] = 0
  <2>1. 0 \in Null .. MaxData
    BY <1>3 DEF Null
  <2> QED
    BY <1>3, <2>1
<1>6. targets = [i \in 1 .. Len(ids) |-> [id |-> ids[i], values |-> values]]
  BY <1>1, <1>3
<1>7. given = [id \in Ids |-> IF HasTarget(targets, id) THEN zeros ELSE <<>>]
  BY <1>2
<1> HIDE DEF values, zeros
<1>8. /\ targets \in Seq(Target) /\ Len(targets) = Len(ids)
      /\ \A i \in 1 .. Len(ids) : targets[i].id = ids[i] /\ targets[i].values = values
  <2>1. \A i \in 1 .. Len(ids) : [id |-> ids[i], values |-> values] \in Target
    BY <1>3, <1>4 DEF Target
  <2> QED
    BY <1>3, <1>6, <2>1
<1>9. Runs(values)
  <2>1. 1 \in 1 .. LoadLength
    BY <1>3
  <2> QED
    BY <1>3, <1>4, <2>1 DEF Runs
<1>10. Latest(values, zeros)
  <2>1. \A k \in 1 .. LoadLength : LoadLength - LoadLength + k = k
    BY <1>3
  <2> QED
    BY <1>3, <1>4, <1>5, <2>1 DEF Latest
<1>11. Right(targets, given)
  <2>1. Distinct(targets)
    BY <1>3, <1>8 DEF Distinct
  <2>2. ASSUME NEW i \in 1 .. Len(targets)
        PROVE  given[targets[i].id] = zeros
    <3>1. HasTarget(targets, targets[i].id) /\ targets[i].id \in Ids
      BY <1>3, <1>8, WhichTarget
    <3> QED
      BY <1>7, <3>1
  <2> QED
    BY <1>8, <1>9, <1>10, <2>1, <2>2 DEF Right
<1>12. GivenTyped(given)
  <2>1. <<>> \in Seq(Null .. MaxData)
    OBVIOUS
  <2> QED
    BY <1>5, <1>7, <2>1 DEF GivenTyped
<1>13. CallsTyped
  BY <1>2, <1>3 DEF CallsTyped
<1>14. Len(unloads) = 0 /\ unloads \in Seq(UnloadOf) /\ flows \in Seq(FlowOf) /\ hidden \in Seq(Ids)
  BY <1>2
<1>15. elements \in Seq(ElementOf(0))
  <2>1. [to |-> 1, call |-> 0] \in TransitionOf(0)
    BY DEF TransitionOf
  <2>2. \A i \in 1 .. Len(ids) :
          [id |-> ids[i], opacity |-> 0, tr |-> [to |-> 1, call |-> 0]] \in ElementOf(0)
    BY <1>3, <2>1 DEF ElementOf
  <2> QED
    BY <1>1, <1>3, <2>2
<1>16. ElementsInv /\ UnloadsInv /\ WaitsInv
  BY <1>14, <1>15 DEF ElementsInv, UnloadsInv, WaitsInv
<1>17. FlowsInv
  BY <1>2, <1>14 DEF FlowsInv
<1> QED
  BY <1>11, <1>12, <1>13, <1>16, <1>17 DEF Inv, DataInv

\* Hide, show and toggle change the view of some ids.
LEMMA SomeView ==
  ASSUME ChartAssumption, Hide \/ Show \/ Toggle
  PROVE  \E shown \in Seq(Ids), hid \in Seq(Ids) : View(shown, hid)
<1>1. \A ids \in ViewLists : ids \in IdLists /\ ids \in Seq(Ids)
  BY DEF ChartAssumption
<1>2. <<>> \in Seq(Ids)
  OBVIOUS
<1>3. CASE Hide
  BY <1>1, <1>2, <1>3 DEF Hide
<1>4. CASE Show
  BY <1>1, <1>2, <1>4 DEF Show
<1>5. CASE Toggle
  <2> DEFINE shown(ids) == {i \in DOMAIN ids : IsTargetToShow(ids[i])}
  <2>1. PICK ids \in ViewLists :
          View(Chosen(ids, DOMAIN ids \ shown(ids)), Chosen(ids, shown(ids)))
    BY <1>5 DEF Toggle
  <2>2. shown(ids) \in SUBSET (DOMAIN ids) /\ DOMAIN ids \ shown(ids) \in SUBSET (DOMAIN ids)
    OBVIOUS
  <2> HIDE DEF shown
  <2>3. /\ Chosen(ids, shown(ids)) \in Seq(Ids)
        /\ Chosen(ids, DOMAIN ids \ shown(ids)) \in Seq(Ids)
    BY <1>1, <2>2, PartTyped
  <2> QED
    BY <2>1, <2>3
<1> QED
  BY <1>3, <1>4, <1>5

\* One step for each action.
LEMMA InvKept ==
  ASSUME ChartAssumption, Inv, [Next]_vars
  PROVE  Inv'
<1>1. hasty \in BOOLEAN /\ (hasty \/ Unloading \/ Flowing) \in BOOLEAN
  BY DEF Inv, FlowsInv, Unloading, Flowing
<1>2. CallsTyped
  BY DEF Inv, DataInv
<1>3. CASE Load
  <2>1. MayCall /\ Count("data") /\ hasty' = (hasty \/ Unloading \/ Flowing)
        /\ UNCHANGED <<hidden, unloads, flows, flowing>>
    BY <1>3 DEF Load
  <2>2. PICK ids \in IdLists : DoLoad(elements, targets, Converted(ids))
    BY <1>3 DEF Load
  <2>3. Loadable(Converted(ids))
    BY <1>2, <2>1, Counted, ConvertedLoadable
  <2> QED
    BY <1>1, <2>1, <2>2, <2>3, LoadInv
<1>4. CASE LoadUnloading
  <2>1. MayCall /\ Count("data") /\ hasty' = (hasty \/ Unloading \/ Flowing)
        /\ UNCHANGED <<hidden, flows, flowing>>
    BY <1>4 DEF LoadUnloading
  <2>2. PICK ids \in IdLists, gone \in IdLists :
          IF Existing(gone) = <<>>
          THEN DoLoad(elements, targets, Converted(ids)) /\ UNCHANGED unloads
          ELSE DoUnload(Existing(gone), Converted(ids))
    BY <1>4 DEF LoadUnloading
  <2>3. Loadable(Converted(ids))
    BY <1>2, <2>1, Counted, ConvertedLoadable
  <2>4. CASE Existing(gone) = <<>>
    <3>1. DoLoad(elements, targets, Converted(ids)) /\ UNCHANGED unloads
      BY <2>2, <2>4
    <3>2. UNCHANGED <<hidden, unloads, flows, flowing>>
      BY <2>1, <3>1
    <3> QED
      BY <1>1, <2>1, <2>3, <3>1, <3>2, LoadInv
  <2>5. CASE Existing(gone) # <<>>
    BY <1>1, <2>1, <2>2, <2>3, <2>5, ExistingTyped, UnloadInv
  <2> QED
    BY <2>4, <2>5
<1>5. CASE Unload
  <2>1. MayCall /\ Count("data") /\ hasty' = (hasty \/ Unloading \/ Flowing)
        /\ UNCHANGED <<hidden, flows, flowing>>
    BY <1>5 DEF Unload
  <2>2. PICK gone \in IdLists : DoUnload(Existing(gone), <<>>)
    BY <1>5 DEF Unload
  <2> QED
    BY <1>1, <2>1, <2>2, ExistingTyped, UnloadInv
<1>6. CASE Hide \/ Show \/ Toggle
  <2>1. PICK shown \in Seq(Ids), hid \in Seq(Ids) : View(shown, hid)
    BY <1>6, SomeView
  <2> QED
    BY <2>1, ViewInv
<1>7. CASE Flow
  BY <1>7, FlowInv
<1>8. CASE \E i \in DOMAIN elements : TransitionEnds(i)
  <2>1. DOMAIN elements = 1 .. Len(elements)
    BY DEF Inv, ElementsInv
  <2> QED
    BY <1>8, <2>1, TransitionInv
<1>9. CASE \E k \in DOMAIN flows : StartFlow(k) \/ FinishFlow(k)
  <2>1. DOMAIN flows = 1 .. Len(flows)
    BY DEF Inv, FlowsInv
  <2> QED
    BY <1>9, <2>1, FlowStepInv
<1>10. CASE UNCHANGED vars
  BY <1>10 DEF vars, Inv, DataInv, CallsTyped, ElementsInv, UnloadsInv, WaitsInv, FlowsInv
<1> QED
  BY <1>3, <1>4, <1>5, <1>6, <1>7, <1>8, <1>9, <1>10 DEF Next

\* Every state of the chart satisfies the invariant.
THEOREM ChartInvariant == Spec => []Inv
<1>1. Init => Inv
  BY ChartAssumption, InitInv
<1>2. Inv /\ [Next]_vars => Inv'
  BY ChartAssumption, InvKept
<1> QED
  BY <1>1, <1>2, PTL DEF Spec

\* The chart keeps its types: an element fades for a call of unload that there
\* was, no more elements fade for it than it waits for, and the states of calls
\* are those the code gives them (load, unload, flow).
THEOREM TypeCorrect == Spec => []TypeOK
<1>1. Inv => TypeOK
  <2> SUFFICES ASSUME Inv PROVE TypeOK
    OBVIOUS
  <2>1. DataInv /\ ElementsInv /\ UnloadsInv /\ WaitsInv /\ FlowsInv
    BY DEF Inv
  <2>2. \A i \in DOMAIN targets :
          /\ targets[i].id \in Ids
          /\ \A k \in DOMAIN targets[i].values :
               targets[i].values[k] \in [index : Nat, value : Null .. MaxData]
    <3>1. \A i \in DOMAIN targets : targets[i] \in Target
      BY <2>1 DEF DataInv, Right
    <3>2. ASSUME NEW t \in Target
          PROVE  t.id \in Ids /\ \A k \in DOMAIN t.values : t.values[k] \in Value
      <4>1. t.id \in Ids /\ t.values \in Seq(Value)
        BY DEF Target
      <4> QED
        BY <4>1
    <3> QED
      BY <3>1, <3>2 DEF Value
  <2>3. /\ DOMAIN elements = 1 .. Len(elements)
        /\ \A i \in DOMAIN elements : elements[i] \in ElementOf(Len(unloads))
    BY <2>1 DEF ElementsInv
  <2>4. \A i \in DOMAIN elements :
          /\ elements[i].id \in Ids /\ elements[i].opacity \in {0, 1}
          /\ \/ elements[i].tr = NoTransition
             \/ elements[i].tr \in [to : {0, 1}, call : 0 .. Len(unloads)]
    BY <2>3 DEF ElementOf, TransitionOf
  <2>5. \A k \in DOMAIN unloads :
          /\ unloads[k].state \in {"running", "done"}
          /\ Cardinality({i \in DOMAIN elements : elements[i].tr.call = k}) <= unloads[k].left
    <3>1. DOMAIN unloads = 1 .. Len(unloads) /\ \A k \in DOMAIN unloads : unloads[k] \in UnloadOf
      BY <2>1 DEF UnloadsInv
    <3>2. \A k : {i \in DOMAIN elements : elements[i].tr.call = k} = Callers(elements, k)
      BY <2>3 DEF Callers
    <3> QED
      BY <2>1, <3>1, <3>2 DEF WaitsInv, UnloadOf
  <2>6. \A k \in DOMAIN flows :
          flows[k].state \in {"drawing", "undrawn", "flowing", "thrown", "done"}
    <3>1. \A k \in DOMAIN flows : flows[k] \in FlowOf
      BY <2>1 DEF FlowsInv
    <3> QED
      BY <3>1 DEF FlowOf, FlowStates
  <2> QED
    BY <2>1, <2>2, <2>4, <2>5, <2>6 DEF TypeOK, ElementsInv, FlowsInv
<1> QED
  BY <1>1, ChartInvariant, PTL

\* A sequence that agrees with the end of another one is its suffix.
LEMMA SuffixByValues ==
  ASSUME NEW S, NEW s \in Seq(S), NEW t \in Seq(S), Len(s) <= Len(t),
         \A k \in 1 .. Len(s) : s[k] = t[Len(t) - Len(s) + k]
  PROVE  IsSuffix(s, t)
<1> DEFINE m == Len(s)
           n == Len(t)
           r == Reverse(s)
           q == Reverse(t)
<1>1. m \in Nat /\ n \in Nat /\ m <= n
  OBVIOUS
<1>2. /\ r \in Seq(S) /\ Len(r) = m
      /\ \A k \in 1 .. m : r[k] = s[m - k + 1]
  BY DEF Reverse
<1>3. /\ q \in Seq(S) /\ Len(q) = n
      /\ \A k \in 1 .. n : q[k] = t[n - k + 1]
  BY DEF Reverse
<1>4. ASSUME NEW k \in 1 .. m
      PROVE  r[k] = q[k]
  <2>1. m - k + 1 \in 1 .. m /\ n - m + (m - k + 1) = n - k + 1 /\ k \in 1 .. n
    BY <1>1
  <2>2. s[m - k + 1] = t[n - m + (m - k + 1)]
    BY <2>1
  <2> QED
    BY <1>2, <1>3, <2>1, <2>2
<1> HIDE DEF m, n, r, q
<1>5. SubSeq(r, 1, m) = SubSeq(q, 1, m)
  <2>1. SubSeq(r, 1, m) \in Seq(S) /\ Len(SubSeq(r, 1, m)) = m
        /\ \A k \in 1 .. m : SubSeq(r, 1, m)[k] = r[k]
    BY <1>1, <1>2
  <2>2. SubSeq(q, 1, m) \in Seq(S) /\ Len(SubSeq(q, 1, m)) = m
        /\ \A k \in 1 .. m : SubSeq(q, 1, m)[k] = q[k]
    BY <1>1, <1>3
  <2> QED
    BY <1>4, <2>1, <2>2, SeqEqual
<1> QED
  BY <1>1, <1>2, <1>3, <1>5 DEF IsSuffix, IsPrefix, r, q

\* However the calls of a page overlap, no id has two targets, the values of
\* each run on without a gap, and they are those given last, in the order they
\* were given (load, unload and flow).
THEOREM LatestAlwaysInOrder == Spec => []LatestInOrder
<1>1. Inv => LatestInOrder
  <2> SUFFICES ASSUME Inv PROVE LatestInOrder
    OBVIOUS
  <2>1. Right(targets, given) /\ GivenTyped(given)
    BY DEF Inv, DataInv
  <2>2. targets \in Seq(Target) /\ Distinct(targets) /\ DOMAIN targets = 1 .. Len(targets)
    BY <2>1 DEF Right
  <2>3. IsInjective(IdsOf(targets))
    BY <2>2 DEF IsInjective, IdsOf, Distinct
  <2> DEFINE values(t) == [k \in DOMAIN t.values |-> t.values[k].value]
  <2>4. ASSUME NEW i \in 1 .. Len(targets)
        PROVE  /\ \A k \in DOMAIN targets[i].values :
                    targets[i].values[k].index = targets[i].values[1].index + k - 1
               /\ IsSuffix(values(targets[i]), given[targets[i].id])
    <3> DEFINE s == targets[i].values
               told == values(targets[i])
               all == given[targets[i].id]
    <3>1. targets[i] \in Target
      BY <2>2
    <3>2. s \in Seq(Value) /\ targets[i].id \in Ids
      BY <3>1 DEF Target
    <3>3. Runs(s) /\ Latest(s, all) /\ all \in Seq(Null .. MaxData)
      BY <2>1, <3>2 DEF Right, GivenTyped
    <3>4. \A k \in 1 .. Len(s) : s[k].value \in Null .. MaxData
      <4>1. \A k \in 1 .. Len(s) : s[k] \in Value
        BY <3>2
      <4> QED
        BY <4>1 DEF Value
    <3>5. DOMAIN s = 1 .. Len(s) /\ Len(s) \in Nat
      BY <3>2
    <3>6. told = [k \in 1 .. Len(s) |-> s[k].value]
      BY <3>5
    <3> HIDE DEF s, told, all
    <3>7. told \in Seq(Null .. MaxData) /\ Len(told) = Len(s)
      BY <3>4, <3>5, <3>6
    <3>8. \A k \in 1 .. Len(s) : told[k] = all[Len(all) - Len(s) + k]
      BY <3>3, <3>6 DEF Latest
    <3>9. IsSuffix(told, all)
      BY <3>3, <3>7, <3>8, SuffixByValues DEF Latest
    <3> QED
      BY <3>3, <3>5, <3>9 DEF Runs, s, told, all
  <2> HIDE DEF values
  <2> QED
    BY <2>2, <2>3, <2>4 DEF LatestInOrder, values
<1> QED
  BY <1>1, ChartInvariant, PTL

-----------------------------------------------------------------------------
(***************************************************************************)
(* What holds as long as the page waits.                                   *)
(***************************************************************************)
\* The elements that no unload removes show the targets, in their order.
Kept(els) == {i \in 1 .. Len(els) : els[i].tr.call < 1}

Matched(els, ts) ==
    /\ Len(ts) = Cardinality(Kept(els))
    /\ \A i \in Kept(els) : ts[Rank(Kept(els), i) + 1].id = els[i].id

\* Each one is visible, or becomes so, unless its target is hidden.
Visible(hid, id) == IF Contains(hid, id) THEN 0 ELSE 1

Seen(els, hid) ==
    \A i \in 1 .. Len(els) :
        /\ els[i].tr = NoTransition => els[i].opacity = Visible(hid, els[i].id)
        /\ els[i].tr.call = 0 => els[i].tr.to = Visible(hid, els[i].id)

\* One call is underway at a time.
Active(f) == f.state \in {"drawing", "flowing"}

OneAtATime ==
    /\ \A k \in 1 .. Len(unloads) : unloads[k].state = "running" => k = Len(unloads)
    /\ \A k \in 1 .. Len(flows) : Active(flows[k]) => k = Len(flows)
    /\ ~ (Unloading /\ Flowing)

\* A flow will find the values from and to which the chart moves.
FlowFits ==
    /\ \A k \in 1 .. Len(flows) : flows[k].state = "drawing" =>
         /\ targets # <<>> /\ flows[k].index = targets[1].values[1].index
         /\ Len(targets[1].values) > flows[k].length
    /\ flowing => Flowing

\* All targets are of one length, a value longer while a flow is drawn.
Drawing == \E k \in 1 .. Len(flows) : flows[k].state = "drawing"

EvenLength ==
    (\A k \in 1 .. Len(flows) : flows[k].even) =>
        /\ \A k \in 1 .. Len(flows) : flows[k].length = 1
        /\ \A i \in 1 .. Len(targets) :
             Len(targets[i].values) = LoadLength + (IF Drawing THEN 1 ELSE 0)

Patient ==
    /\ Matched(elements, targets) /\ Seen(elements, hidden)
    /\ OneAtATime /\ FlowFits /\ EvenLength

PatientInv == Inv /\ (~ hasty => Patient)

\* Without an unload, all elements are kept, and match by their places.
AllKept(els) == \A i \in 1 .. Len(els) : els[i].tr.call < 1

SameIds(els, ts) == Len(els) = Len(ts) /\ \A i \in 1 .. Len(els) : els[i].id = ts[i].id

LEMMA MatchedByPlace ==
  ASSUME NEW n \in Nat, NEW els \in Seq(ElementOf(n)), NEW ts, AllKept(els)
  PROVE  Matched(els, ts) <=> SameIds(els, ts)
<1>1. Len(els) \in Nat /\ Kept(els) = 1 .. Len(els)
  BY DEF Kept, AllKept
<1>2. Cardinality(1 .. Len(els)) = Len(els)
  <2>1. 1 \in Int /\ Len(els) \in Int
    BY <1>1
  <2>2. Cardinality(1 .. Len(els)) = IF 1 > Len(els) THEN 0 ELSE Len(els) - 1 + 1
    BY <2>1, FS_Interval
  <2> QED
    BY <1>1, <2>2
<1>3. \A i \in 1 .. Len(els) : Rank(Kept(els), i) + 1 = i
  <2> SUFFICES ASSUME NEW i \in 1 .. Len(els) PROVE Rank(Kept(els), i) + 1 = i
    OBVIOUS
  <2>1. Rank(1 .. Len(els), i) = i - 1
    BY <1>1, RankOfAll
  <2> QED
    BY <1>1, <2>1
<1>4. Matched(els, ts) <=> Len(ts) = Len(els) /\ \A i \in 1 .. Len(els) : ts[i].id = els[i].id
  BY <1>1, <1>2, <1>3 DEF Matched
<1> QED
  BY <1>4 DEF SameIds

\* An unload that is done has removed all its elements.
LEMMA NoCallers ==
  ASSUME Inv, ~ Unloading
  PROVE  AllKept(elements)
<1>1. /\ elements \in Seq(ElementOf(Len(unloads))) /\ unloads \in Seq(UnloadOf) /\ WaitsInv
      /\ Len(unloads) \in Nat /\ DOMAIN unloads = 1 .. Len(unloads)
  BY DEF Inv, ElementsInv, UnloadsInv
<1>2. ASSUME NEW k \in 1 .. Len(unloads)
      PROVE  Callers(elements, k) = {}
  <2>1. unloads[k] \in UnloadOf
    BY <1>1
  <2>2. unloads[k].state = "done"
    BY <1>1, <2>1 DEF Unloading, UnloadOf
  <2>3. Cardinality(Callers(elements, k)) <= 0
    BY <1>1, <2>2 DEF WaitsInv
  <2>4. IsFiniteSet(Callers(elements, k)) /\ Cardinality(Callers(elements, k)) \in Nat
    BY <1>1, CallersFinite
  <2>5. Cardinality(Callers(elements, k)) = 0
    BY <2>3, <2>4
  <2> QED
    BY <2>4, <2>5, FS_EmptySet
<1>3. ASSUME NEW i \in 1 .. Len(elements)
      PROVE  elements[i].tr.call < 1
  <2>1. elements[i].tr \in TransitionOf(Len(unloads))
    <3>1. elements[i] \in ElementOf(Len(unloads))
      BY <1>1
    <3> QED
      BY <3>1 DEF ElementOf
  <2>2. elements[i].tr.call \in -1 .. Len(unloads)
    BY <1>1, <2>1 DEF TransitionOf, NoTransition
  <2>3. elements[i].tr.call \notin 1 .. Len(unloads)
    BY <1>2 DEF Callers
  <2> QED
    BY <1>1, <2>2, <2>3
<1> QED
  BY <1>3 DEF AllKept

\* Updating elements that match with more targets keeps them matched and seen.
LEMMA UpdatedMatch ==
  ASSUME NEW n \in Nat, NEW els \in Seq(ElementOf(n)), NEW ts \in Seq(Target),
         NEW new \in Seq(Target), AllKept(els), SameIds(els, ts), Seen(els, hidden),
         Len(new) >= Len(ts), \A i \in 1 .. Len(ts) : new[i].id = ts[i].id
  PROVE  /\ AllKept(UpdateTargets(els, new))
         /\ SameIds(UpdateTargets(els, new), new)
         /\ Seen(UpdateTargets(els, new), hidden)
<1> DEFINE all == UpdateTargets(els, new)
<1>1. Len(els) = Len(ts) /\ Len(els) \in Nat /\ Len(new) \in Nat
      /\ \A i \in 1 .. Len(els) : els[i].id = ts[i].id
  BY DEF SameIds
<1>2. /\ all \in Seq(ElementOf(n))
      /\ Len(all) = IF Len(els) < Len(new) THEN Len(new) ELSE Len(els)
      /\ \A i \in 1 .. Len(all) :
           /\ all[i].id = IF i <= Len(new) THEN new[i].id ELSE els[i].id
           /\ all[i].opacity = IF i <= Len(els) THEN els[i].opacity ELSE 0
           /\ all[i].tr = IF all[i].id \in Shown THEN FadeIn
                          ELSE IF i <= Len(els) THEN els[i].tr ELSE NoTransition
  BY Updated
<1> HIDE DEF all
<1>3. Len(all) = Len(new)
  BY <1>1, <1>2
<1>4. \A i \in 1 .. Len(all) : all[i].id = new[i].id
  BY <1>1, <1>2, <1>3
<1>5. ASSUME NEW i \in 1 .. Len(all)
      PROVE  /\ all[i].tr.call < 1
             /\ all[i].tr = NoTransition => all[i].opacity = Visible(hidden, all[i].id)
             /\ all[i].tr.call = 0 => all[i].tr.to = Visible(hidden, all[i].id)
  <2>1. FadeIn.call = 0 /\ FadeIn.to = 1 /\ NoTransition.call = -1 /\ FadeIn # NoTransition
    BY DEF FadeIn, NoTransition
  <2>2. all[i].id \in Ids
    <3>1. all[i] \in ElementOf(n)
      BY <1>2
    <3> QED
      BY <3>1 DEF ElementOf
  <2>3. CASE all[i].id \in Shown
    <3>1. all[i].tr = FadeIn
      BY <1>2, <2>3
    <3>2. Visible(hidden, all[i].id) = 1
      BY <2>3 DEF Shown, IsTargetToShow, Visible
    <3> QED
      BY <2>1, <3>1, <3>2
  <2>4. CASE all[i].id \notin Shown /\ i <= Len(els)
    <3>1. i \in 1 .. Len(els)
      BY <1>1, <1>3, <2>4
    <3>2. all[i].tr = els[i].tr /\ all[i].opacity = els[i].opacity
      BY <1>2, <2>4
    <3>3. all[i].id = els[i].id
      BY <1>1, <1>4, <3>1
    <3> QED
      BY <3>1, <3>2, <3>3 DEF AllKept, Seen
  <2>5. CASE all[i].id \notin Shown /\ ~ (i <= Len(els))
    <3>1. all[i].tr = NoTransition /\ all[i].opacity = 0
      BY <1>2, <2>5
    <3>2. Visible(hidden, all[i].id) = 0
      BY <2>2, <2>5 DEF Shown, IsTargetToShow, Visible
    <3> QED
      BY <2>1, <3>1, <3>2
  <2> QED
    BY <2>3, <2>4, <2>5
<1> QED
  BY <1>3, <1>4, <1>5 DEF AllKept, SameIds, Seen, all

\* Loading does, from elements of the targets there are.
LEMMA DoLoadMatch ==
  ASSUME ChartAssumption, DataInv, UnloadsInv,
         NEW els \in Seq(ElementOf(Len(unloads))), AllKept(els), SameIds(els, targets),
         Seen(els, hidden), hidden' = hidden, NEW loaded, Loadable(loaded),
         DoLoad(els, targets, loaded)
  PROVE  Matched(elements', targets') /\ Seen(elements', hidden')
<1>1. targets \in Seq(Target) /\ Distinct(targets) /\ Len(unloads) \in Nat
  BY DEF DataInv, Right, UnloadsInv
<1>2. targets' = Loaded(targets, loaded) /\ elements' = UpdateTargets(els, targets')
  BY DEF DoLoad
<1>3. /\ targets' \in Seq(Target) /\ Len(targets') >= Len(targets)
      /\ \A i \in 1 .. Len(targets) : targets'[i].id = targets[i].id
  BY <1>1, <1>2, LoadedTargets
<1>4. AllKept(elements') /\ SameIds(elements', targets') /\ Seen(elements', hidden)
  BY <1>1, <1>2, <1>3, UpdatedMatch
<1>5. elements' \in Seq(ElementOf(Len(unloads)))
  BY DoLoadInv
<1> QED
  BY <1>1, <1>4, <1>5, MatchedByPlace

\* Loaded targets have the length of those there are, if that is LoadLength.
LEMMA LoadLengths ==
  ASSUME DataInv, NEW loaded, Loadable(loaded),
         \A i \in 1 .. Len(targets) : Len(targets[i].values) = LoadLength
  PROVE  \A i \in 1 .. Len(Loaded(targets, loaded)) :
           Len(Loaded(targets, loaded)[i].values) = LoadLength
<1> DEFINE all == Loaded(targets, loaded)
<1>1. targets \in Seq(Target) /\ Distinct(targets)
  BY DEF DataInv, Right
<1>2. loaded \in Seq(Target) /\ \A i \in 1 .. Len(loaded) : Len(loaded[i].values) = LoadLength
  BY DEF Loadable
<1>3. \A i \in 1 .. Len(all) :
        IF HasTarget(loaded, all[i].id) THEN all[i] = loaded[Which(loaded, all[i].id)]
        ELSE i \in 1 .. Len(targets) /\ all[i] = targets[i]
  BY <1>1, LoadedTargets
<1> HIDE DEF all
<1>4. \A i \in 1 .. Len(all) : HasTarget(loaded, all[i].id) =>
        Which(loaded, all[i].id) \in 1 .. Len(loaded)
  BY <1>2, WhichTarget
<1> QED
  BY <1>2, <1>3, <1>4 DEF all

\* Where nothing flows, nothing is drawn.
LEMMA NotDrawing ==
  ASSUME FlowsInv, ~ Flowing
  PROVE  ~ Drawing /\ \A k \in 1 .. Len(flows) : ~ Active(flows[k])
<1>1. DOMAIN flows = 1 .. Len(flows)
  BY DEF FlowsInv
<1> QED
  BY <1>1 DEF Flowing, Drawing, Active

\* While nothing flows and the flows stay as they are, what holds of them holds
\* if the targets keep the length they had.
LEMMA FlowPartKept ==
  ASSUME FlowsInv, ~ Flowing, FlowFits, EvenLength, UNCHANGED <<flows, flowing>>,
         (\A i \in 1 .. Len(targets) : Len(targets[i].values) = LoadLength)
           => \A i \in 1 .. Len(targets') : Len(targets'[i].values) = LoadLength,
         LoadLength \in Nat
  PROVE  FlowFits' /\ EvenLength'
<1>1. ~ Drawing /\ \A k \in 1 .. Len(flows) : ~ Active(flows[k])
  BY NotDrawing
<1>2. ~ flowing
  BY DEF FlowFits
<1>3. FlowFits'
  <2>1. \A k \in 1 .. Len(flows') : flows'[k].state # "drawing"
    BY <1>1 DEF Active
  <2>2. ~ flowing'
    BY <1>2
  <2> QED
    BY <2>1, <2>2 DEF FlowFits
<1>4. ~ Drawing'
  BY <1>1 DEF Drawing
<1>5. EvenLength'
  <2>1. LoadLength + 0 = LoadLength
    OBVIOUS
  <2> SUFFICES ASSUME \A k \in 1 .. Len(flows) : flows[k].even
               PROVE  /\ \A k \in 1 .. Len(flows) : flows[k].length = 1
                      /\ \A i \in 1 .. Len(targets') : Len(targets'[i].values) = LoadLength
    BY <1>4, <2>1 DEF EvenLength
  <2>2. /\ \A k \in 1 .. Len(flows) : flows[k].length = 1
        /\ \A i \in 1 .. Len(targets) : Len(targets[i].values) = LoadLength + (IF Drawing THEN 1 ELSE 0)
    BY DEF EvenLength
  <2> QED
    BY <1>1, <2>1, <2>2
<1> QED
  BY <1>3, <1>5

LEMMA LoadPatient ==
  ASSUME ChartAssumption, Inv, Patient, ~ Unloading, ~ Flowing, NEW loaded, Loadable(loaded),
         DoLoad(elements, targets, loaded), UNCHANGED <<hidden, unloads, flows, flowing>>
  PROVE  Patient'
<1>1. /\ DataInv /\ UnloadsInv /\ FlowsInv /\ elements \in Seq(ElementOf(Len(unloads)))
      /\ Len(unloads) \in Nat /\ LoadLength \in Nat
  BY DEF Inv, ElementsInv, UnloadsInv, ChartAssumption
<1>2. AllKept(elements)
  BY NoCallers
<1>3. SameIds(elements, targets) /\ Seen(elements, hidden)
  BY <1>1, <1>2, MatchedByPlace DEF Patient
<1>4. Matched(elements', targets') /\ Seen(elements', hidden')
  BY <1>1, <1>2, <1>3, DoLoadMatch
<1>5. targets' = Loaded(targets, loaded)
  BY DEF DoLoad
<1>6. FlowFits' /\ EvenLength'
  BY <1>1, <1>5, LoadLengths, FlowPartKept DEF Patient
<1>7. OneAtATime'
  BY DEF Patient, OneAtATime, Unloading, Flowing
<1> QED
  BY <1>4, <1>6, <1>7 DEF Patient

\* What an unload takes out is what its elements fade out for.
LEMMA UnloadPatient ==
  ASSUME ChartAssumption, Inv, Patient, ~ Unloading, ~ Flowing,
         NEW ids \in Seq(Ids), NEW load, load = <<>> \/ Loadable(load),
         DoUnload(ids, load), UNCHANGED <<hidden, flows, flowing>>
  PROVE  Patient'
<1> DEFINE n == Len(unloads)
           left == Left(targets, ids)
           u == [state |-> "running", load |-> load, left |-> Waited(ids)]
<1>1. /\ DataInv /\ ElementsInv /\ UnloadsInv /\ WaitsInv /\ FlowsInv
      /\ elements \in Seq(ElementOf(n)) /\ unloads \in Seq(UnloadOf) /\ n \in Nat
      /\ LoadLength \in Nat /\ targets \in Seq(Target)
  BY DEF Inv, ElementsInv, UnloadsInv, ChartAssumption, DataInv, Right
<1>2. AllKept(elements)
  BY NoCallers
<1>3. SameIds(elements, targets) /\ Seen(elements, hidden)
  BY <1>1, <1>2, MatchedByPlace DEF Patient
<1>4. /\ targets' = WithoutTargets(targets, ids)
      /\ elements' = Fade(elements, ToSet(ids), 0, n + 1)
      /\ unloads' = Append(unloads, u)
  BY DEF DoUnload
<1>5. u \in UnloadOf /\ u.state = "running"
  <2>1. UnloadsInv'
    BY <1>1, DoUnloadInv
  <2>2. unloads' \in Seq(UnloadOf) /\ n + 1 \in 1 .. Len(unloads') /\ unloads'[n + 1] = u
    BY <1>1, <1>4, <2>1 DEF UnloadsInv
  <2> QED
    BY <2>2
<1> HIDE DEF u
<1>6. /\ Len(unloads') = n + 1 /\ DOMAIN unloads' = 1 .. n + 1
      /\ \A k \in 1 .. n : unloads'[k] = unloads[k]
      /\ unloads'[n + 1].state = "running"
  BY <1>1, <1>4, <1>5, AppendProperties
<1> HIDE DEF n
<1>7. [to |-> 0, call |-> n + 1] \in TransitionOf(n + 1) /\ n + 1 \in Nat
      /\ elements \in Seq(ElementOf(n + 1))
  BY <1>1, ElementsMore DEF TransitionOf
<1>8. Len(elements') = Len(elements)
  BY <1>4, <1>7, Faded
<1>9. \A i \in 1 .. Len(elements) :
        elements'[i].id = elements[i].id /\ elements'[i].opacity = elements[i].opacity
  BY <1>4, <1>7, Faded
<1>10. \A i \in 1 .. Len(elements) :
         elements'[i].tr = IF elements[i].id \in ToSet(ids)
                           THEN [to |-> 0, call |-> n + 1] ELSE elements[i].tr
  BY <1>4, <1>7, Faded
<1>11. \A id : id \in ToSet(ids) <=> Contains(ids, id)
  <2>1. DOMAIN ids = 1 .. Len(ids)
    OBVIOUS
  <2> QED
    BY <2>1 DEF ToSet, Contains
<1>12. ~ (n + 1 < 1) /\ n + 1 # 0 /\ n + 1 # -1
  BY <1>1
<1>13. Kept(elements') = left
  <2>1. ASSUME NEW i \in 1 .. Len(elements)
        PROVE  elements'[i].tr.call < 1 <=> ~ Contains(ids, targets[i].id)
    <3>1. elements[i].id = targets[i].id /\ elements[i].tr.call < 1
      BY <1>2, <1>3 DEF SameIds, AllKept
    <3> QED
      BY <1>10, <1>11, <1>12, <3>1
  <2> QED
    BY <1>3, <1>8, <2>1 DEF Kept, Left, SameIds
<1>14. Matched(elements', targets')
  <2>1. /\ Len(targets') = Cardinality(left)
        /\ \A i \in left : targets'[Rank(left, i) + 1] = targets[i]
    <3>1. Len(WithoutTargets(targets, ids)) = Cardinality(Left(targets, ids))
      BY <1>1, WithoutTargetsPlaces
    <3>2. \A i \in Left(targets, ids) :
            WithoutTargets(targets, ids)[Rank(Left(targets, ids), i) + 1] = targets[i]
      BY <1>1, WithoutTargetsPlaces
    <3> QED
      BY <1>4, <3>1, <3>2
  <2>2. \A i \in left : elements'[i].id = targets[i].id
    BY <1>3, <1>9 DEF SameIds, Left
  <2> HIDE DEF left
  <2> QED
    BY <1>13, <2>1, <2>2 DEF Matched
<1>15. Seen(elements', hidden')
  <2>1. ASSUME NEW i \in 1 .. Len(elements)
        PROVE  /\ elements'[i].tr = NoTransition =>
                    elements'[i].opacity = Visible(hidden, elements'[i].id)
               /\ elements'[i].tr.call = 0 => elements'[i].tr.to = Visible(hidden, elements'[i].id)
    <3>1. CASE elements[i].id \in ToSet(ids)
      <4>1. elements'[i].tr = [to |-> 0, call |-> n + 1]
        BY <1>10, <3>1
      <4>2. elements'[i].tr.call # 0 /\ elements'[i].tr.call # NoTransition.call
        BY <1>12, <4>1 DEF NoTransition
      <4> QED
        BY <4>2
    <3>2. CASE elements[i].id \notin ToSet(ids)
      BY <1>3, <1>9, <1>10, <3>2 DEF Seen
    <3> QED
      BY <3>1, <3>2
  <2> QED
    BY <1>8, <2>1 DEF Seen
<1>16. OneAtATime'
  <2>1. \A k \in 1 .. Len(unloads) : unloads[k].state # "running"
    <3>1. DOMAIN unloads = 1 .. Len(unloads)
      BY <1>1
    <3> QED
      BY <3>1 DEF Unloading
  <2>2. ASSUME NEW k \in 1 .. Len(unloads'), unloads'[k].state = "running"
        PROVE  k = Len(unloads')
    <3>1. k \notin 1 .. n
      BY <1>6, <2>1, <2>2 DEF n
    <3> QED
      BY <1>1, <1>6, <3>1
  <2>3. ~ Flowing'
    BY DEF Flowing
  <2>4. \A k \in 1 .. Len(flows') : Active(flows'[k]) => k = Len(flows')
    BY DEF Patient, OneAtATime
  <2> QED
    BY <2>2, <2>3, <2>4 DEF OneAtATime
<1>17. FlowFits' /\ EvenLength'
  <2>1. \A k \in 1 .. Len(targets') : \E i \in 1 .. Len(targets) : targets'[k] = targets[i]
    <3>1. Len(WithoutTargets(targets, ids)) = Cardinality(Left(targets, ids))
      BY <1>1, WithoutTargetsPlaces
    <3>2. \A k \in 1 .. Cardinality(Left(targets, ids)) : \E i \in Left(targets, ids) :
            WithoutTargets(targets, ids)[k] = targets[i] /\ k = Rank(Left(targets, ids), i) + 1
      BY <1>1, WithoutTargetsPlaces
    <3>3. \A i \in Left(targets, ids) : i \in 1 .. Len(targets)
      BY DEF Left
    <3> QED
      BY <1>4, <3>1, <3>2, <3>3
  <2> QED
    BY <1>1, <2>1, FlowPartKept DEF Patient
<1> QED
  BY <1>14, <1>15, <1>16, <1>17 DEF Patient

\* An element that an unload removes leaves the others in their order.
LEMMA RemovedMatch ==
  ASSUME NEW n \in Nat, NEW els \in Seq(ElementOf(n)), NEW ts, NEW i \in 1 .. Len(els),
         ~ (els[i].tr.call < 1), Matched(els, ts), Seen(els, hidden)
  PROVE  Matched(RemoveAt(els, i), ts) /\ Seen(RemoveAt(els, i), hidden)
<1> DEFINE new == RemoveAt(els, i)
           m == Len(els)
           kept == Kept(els)
<1>1. /\ new \in Seq(ElementOf(n)) /\ Len(new) = m - 1
      /\ \A j \in 1 .. m - 1 : new[j] = els[Skip(i, j)]
  BY RemovedElements
<1>2. m \in Nat /\ i \in 1 .. m
  OBVIOUS
<1>3. \A j \in 1 .. m - 1 : Skip(i, j) \in 1 .. m
  BY <1>2 DEF Skip
<1>4. kept \in SUBSET (1 .. m) /\ i \notin kept
  BY DEF Kept
<1>5. \A j \in 1 .. m : j \in kept <=> els[j].tr.call < 1
  BY DEF Kept
<1>6. Len(ts) = Cardinality(kept) /\ \A j \in kept : ts[Rank(kept, j) + 1].id = els[j].id
  BY DEF Matched
<1> HIDE DEF new, m, kept
<1>7. Kept(new) = Shift(m, i, kept)
  <2>1. Kept(new) = {j \in 1 .. m - 1 : new[j].tr.call < 1}
    BY <1>1 DEF Kept
  <2> QED
    BY <1>1, <1>3, <1>5, <2>1 DEF Shift
<1>8. Cardinality(Kept(new)) = Cardinality(kept)
  <2>1. Cardinality(Shift(m, i, kept)) = Cardinality(kept \ {i})
    BY <1>2, <1>4, Shifted
  <2>2. kept \ {i} = kept
    BY <1>4
  <2> QED
    BY <1>7, <2>1, <2>2
<1>9. ASSUME NEW j \in Kept(new)
      PROVE  ts[Rank(Kept(new), j) + 1].id = new[j].id
  <2>1. j \in 1 .. m - 1 /\ Skip(i, j) \in kept
    BY <1>7 DEF Shift
  <2>2. Rank(Kept(new), j) = Rank(kept, Skip(i, j))
    BY <1>2, <1>4, <1>7, <2>1, ShiftedRank
  <2> QED
    BY <1>1, <1>6, <2>1, <2>2
<1>10. Seen(new, hidden)
  <2>1. \A j \in 1 .. m :
          /\ els[j].tr = NoTransition => els[j].opacity = Visible(hidden, els[j].id)
          /\ els[j].tr.call = 0 => els[j].tr.to = Visible(hidden, els[j].id)
    BY DEF Seen, m
  <2> QED
    BY <1>1, <1>3, <2>1 DEF Seen
<1> QED
  BY <1>6, <1>8, <1>9, <1>10 DEF Matched, new

LEMMA TransitionPatient ==
  ASSUME ChartAssumption, Inv, Patient, NEW i \in 1 .. Len(elements), TransitionEnds(i)
  PROVE  Patient'
<1> DEFINE n == Len(unloads)
           tr == elements[i].tr
           settled == [elements EXCEPT ![i].opacity = tr.to, ![i].tr = NoTransition]
           removed == RemoveAt(elements, i)
           k == tr.call
           u == unloads[k]
<1>1. /\ DataInv /\ ElementsInv /\ UnloadsInv /\ WaitsInv /\ FlowsInv
      /\ elements \in Seq(ElementOf(n)) /\ unloads \in Seq(UnloadOf) /\ n \in Nat
      /\ DOMAIN elements = 1 .. Len(elements) /\ elements[i] \in ElementOf(n)
      /\ DOMAIN unloads = 1 .. n /\ LoadLength \in Nat
  BY DEF Inv, ElementsInv, UnloadsInv, ChartAssumption
<1>2. tr \in [to : {0, 1}, call : 0 .. n]
  <2>1. tr \in TransitionOf(n)
    BY <1>1 DEF ElementOf
  <2>2. tr # NoTransition
    BY DEF TransitionEnds
  <2> QED
    BY <2>1, <2>2 DEF TransitionOf
<1>3. UNCHANGED <<hidden, flows, flowing, hasty, calls>>
  BY DEF TransitionEnds
<1>4. /\ Matched(elements, targets) /\ Seen(elements, hidden)
      /\ OneAtATime /\ FlowFits /\ EvenLength
  BY DEF Patient
<1>5. CASE k = 0
  <2>1. elements' = settled /\ UNCHANGED <<targets, given, unloads>>
    BY <1>5 DEF TransitionEnds
  <2> DEFINE settle == [elements[i] EXCEPT !.opacity = tr.to, !.tr = NoTransition]
  <2>2. settle.tr = NoTransition /\ settle.id = elements[i].id /\ settle.opacity = tr.to
    BY <1>1 DEF ElementOf
  <2>3. settled = [elements EXCEPT ![i] = settle]
    BY <1>1
  <2>4. tr.to = Visible(hidden, elements[i].id)
    BY <1>4, <1>5 DEF Seen
  <2>5. elements[i].tr.call < 1
    BY <1>5
  <2> HIDE DEF settle, settled, tr
  <2>6. /\ Len(settled) = Len(elements)
        /\ \A j \in 1 .. Len(elements) : settled[j] = IF j = i THEN settle ELSE elements[j]
    BY <1>1, <2>3
  <2>7. NoTransition.call < 1 /\ NoTransition.call # 0
    BY DEF NoTransition
  <2>8. \A j \in 1 .. Len(elements) :
          /\ settled[j].id = elements[j].id
          /\ settled[j].tr.call < 1 <=> elements[j].tr.call < 1
    BY <2>2, <2>5, <2>6, <2>7
  <2>9. Kept(settled) = Kept(elements)
    BY <2>6, <2>8 DEF Kept
  <2>10. Matched(settled, targets)
    <3>1. \A j \in Kept(elements) : settled[j].id = elements[j].id
      BY <2>8 DEF Kept
    <3> QED
      BY <1>4, <2>9, <3>1 DEF Matched
  <2>11. Seen(settled, hidden)
    BY <1>4, <2>2, <2>4, <2>6, <2>7 DEF Seen
  <2>12. OneAtATime' /\ FlowFits' /\ EvenLength'
    BY <1>3, <1>4, <2>1
       DEF OneAtATime, FlowFits, EvenLength, Unloading, Flowing, Drawing
  <2> QED
    BY <1>3, <2>1, <2>10, <2>11, <2>12 DEF Patient
<1>6. CASE k # 0
  <2>1. k \in 1 .. n /\ ~ (elements[i].tr.call < 1)
    BY <1>1, <1>2, <1>6
  <2>2. /\ unloads' = [unloads EXCEPT ![k].left = @ - 1,
                                      ![k].state = IF u.left = 1 THEN "done" ELSE @]
        /\ IF u.left = 1 /\ u.load # <<>> THEN DoLoad(removed, targets, u.load)
           ELSE elements' = removed /\ UNCHANGED <<targets, given>>
    BY <1>6 DEF TransitionEnds
  <2>3. /\ removed \in Seq(ElementOf(n)) /\ Len(removed) = Len(elements) - 1
        /\ \A l : Cardinality(Callers(removed, l)) =
                    IF elements[i].tr.call = l THEN Cardinality(Callers(elements, l)) - 1
                    ELSE Cardinality(Callers(elements, l))
    BY <1>1, RemovedElements
  <2>4. Matched(removed, targets) /\ Seen(removed, hidden)
    BY <1>1, <1>4, <2>1, RemovedMatch
  <2>5. \A l \in 1 .. n :
          /\ Cardinality(Callers(elements, l)) \in Nat /\ Cardinality(Callers(removed, l)) \in Nat
          /\ IsFiniteSet(Callers(removed, l))
    BY <1>1, <2>3, CallersFinite
  <2>6. \A l \in 1 .. n : unloads[l] \in UnloadOf
    BY <1>1
  <2>7. u.state = "running"
    <3>1. Cardinality(Callers(removed, k)) = Cardinality(Callers(elements, k)) - 1
      BY <2>3
    <3>2. Cardinality(Callers(elements, k)) <= u.left
      BY <1>1, <2>1 DEF WaitsInv
    <3>3. u.left # 0
      BY <2>1, <2>5, <3>1, <3>2
    <3>4. u.state # "done"
      BY <1>1, <2>1, <3>3 DEF WaitsInv
    <3>5. u \in UnloadOf
      BY <2>1, <2>6
    <3> QED
      BY <3>4, <3>5 DEF UnloadOf
  <2>8. k = n /\ Unloading /\ ~ Flowing
    BY <1>1, <1>4, <2>1, <2>7 DEF OneAtATime, Unloading
  <2>9. \A l \in 1 .. n : l # k => unloads[l].state = "done"
    <3>1. \A l \in 1 .. n : l # k => unloads[l].state # "running"
      BY <1>4, <2>8 DEF OneAtATime
    <3> QED
      BY <2>6, <3>1 DEF UnloadOf
  <2> HIDE DEF removed
  <2>10. ASSUME u.left = 1
         PROVE  AllKept(removed)
    <3>1. ASSUME NEW l \in 1 .. n
          PROVE  Callers(removed, l) = {}
      <4>1. CASE l = k
        <5>1. Cardinality(Callers(removed, l)) = Cardinality(Callers(elements, l)) - 1
          BY <2>3, <4>1
        <5>2. Cardinality(Callers(elements, l)) <= 1
          BY <1>1, <2>1, <2>10, <4>1 DEF WaitsInv
        <5>3. Cardinality(Callers(removed, l)) = 0
          BY <2>5, <5>1, <5>2
        <5> QED
          BY <2>5, <5>3, FS_EmptySet
      <4>2. CASE l # k
        <5>1. Cardinality(Callers(removed, l)) = Cardinality(Callers(elements, l))
          BY <2>3, <4>2
        <5>2. Cardinality(Callers(elements, l)) <= 0
          BY <1>1, <2>9, <4>2 DEF WaitsInv
        <5>3. Cardinality(Callers(removed, l)) = 0
          BY <2>5, <5>1, <5>2
        <5> QED
          BY <2>5, <5>3, FS_EmptySet
      <4> QED
        BY <4>1, <4>2
    <3>2. ASSUME NEW j \in 1 .. Len(removed)
          PROVE  removed[j].tr.call < 1
      <4>1. removed[j].tr \in TransitionOf(n)
        <5>1. removed[j] \in ElementOf(n)
          BY <2>3
        <5> QED
          BY <5>1 DEF ElementOf
      <4>2. removed[j].tr.call \in -1 .. n
        BY <1>1, <4>1 DEF TransitionOf, NoTransition
      <4>3. removed[j].tr.call \notin 1 .. n
        BY <3>1 DEF Callers
      <4> QED
        BY <1>1, <4>2, <4>3
    <3> QED
      BY <3>2 DEF AllKept
  <2>11. /\ Matched(elements', targets') /\ Seen(elements', hidden')
         /\ (\A j \in 1 .. Len(targets) : Len(targets[j].values) = LoadLength)
              => \A j \in 1 .. Len(targets') : Len(targets'[j].values) = LoadLength
    <3>1. CASE u.left = 1 /\ u.load # <<>>
      <4>1. Loadable(u.load)
        BY <1>1, <2>1, <3>1 DEF UnloadsInv
      <4>2. DoLoad(removed, targets, u.load) /\ targets' = Loaded(targets, u.load)
        BY <2>2, <3>1 DEF DoLoad
      <4>3. AllKept(removed) /\ SameIds(removed, targets)
        BY <1>1, <2>3, <2>4, <2>10, <3>1, MatchedByPlace
      <4>4. Matched(elements', targets') /\ Seen(elements', hidden')
        BY <1>1, <1>3, <2>3, <2>4, <4>1, <4>2, <4>3, DoLoadMatch
      <4> QED
        BY <1>1, <4>1, <4>2, <4>4, LoadLengths
    <3>2. CASE ~ (u.left = 1 /\ u.load # <<>>)
      BY <1>3, <2>2, <2>4, <3>2
    <3> QED
      BY <3>1, <3>2
  <2>12. FlowFits' /\ EvenLength'
    BY <1>1, <1>3, <1>4, <2>8, <2>11, FlowPartKept
  <2>13. OneAtATime'
    <3>1. ~ Flowing' /\ \A l \in 1 .. Len(flows') : Active(flows'[l]) => l = Len(flows')
      BY <1>3, <1>4, <2>8 DEF Flowing, OneAtATime
    <3>2. Len(unloads') = n /\ \A l \in 1 .. n : l # k => unloads'[l] = unloads[l]
      BY <1>1, <2>1, <2>2
    <3>3. ASSUME NEW l \in 1 .. Len(unloads'), unloads'[l].state = "running"
          PROVE  l = Len(unloads')
      BY <2>8, <2>9, <3>2, <3>3
    <3> QED
      BY <3>1, <3>3 DEF OneAtATime
  <2> QED
    BY <2>11, <2>12, <2>13 DEF Patient
<1> QED
  BY <1>5, <1>6

\* What is shown is taken out of the hidden, and what is hidden comes to them.
LEMMA HiddenAfter ==
  ASSUME hidden \in Seq(Ids), NEW shown, NEW hid \in Seq(Ids), NEW id
  PROVE  Contains(RemoveHiddenTargetIds(shown) \o hid, id)
           <=> (Contains(hidden, id) /\ ~ Contains(shown, id)) \/ Contains(hid, id)
<1> DEFINE places == {i \in 1 .. Len(hidden) : ~ Contains(shown, hidden[i])}
           rest == RemoveHiddenTargetIds(shown)
<1>1. rest = Chosen(hidden, places)
  <2>1. DOMAIN hidden = 1 .. Len(hidden)
    OBVIOUS
  <2> QED
    BY <2>1 DEF RemoveHiddenTargetIds
<1>2. places \in SUBSET (1 .. Len(hidden))
  OBVIOUS
<1>3. \A i \in 1 .. Len(hidden) : i \in places <=> ~ Contains(shown, hidden[i])
  OBVIOUS
<1> HIDE DEF places, rest
<1>4. rest \in Seq(Ids) /\ Len(rest) = Cardinality(places)
  BY <1>1, <1>2, ChosenPlaces
<1>5. \A i \in places : /\ Rank(places, i) + 1 \in 1 .. Cardinality(places)
                        /\ Chosen(hidden, places)[Rank(places, i) + 1] = hidden[i]
  BY <1>2, ChosenPlaces
<1>6. \A k \in 1 .. Cardinality(places) :
        \E i \in places : Chosen(hidden, places)[k] = hidden[i] /\ k = Rank(places, i) + 1
  BY <1>2, ChosenPlaces
<1>7. Contains(rest, id) <=> Contains(hidden, id) /\ ~ Contains(shown, id)
  <2>1. ASSUME NEW k \in 1 .. Len(rest), rest[k] = id
        PROVE  Contains(hidden, id) /\ ~ Contains(shown, id)
    <3>1. PICK i \in places : rest[k] = hidden[i]
      BY <1>1, <1>4, <1>6
    <3>2. i \in 1 .. Len(hidden)
      BY <1>2
    <3> QED
      BY <1>3, <2>1, <3>1, <3>2 DEF Contains
  <2>2. ASSUME NEW i \in 1 .. Len(hidden), hidden[i] = id, ~ Contains(shown, id)
        PROVE  \E k \in 1 .. Len(rest) : rest[k] = id
    <3>1. i \in places
      BY <1>3, <2>2
    <3> QED
      BY <1>1, <1>4, <1>5, <2>2, <3>1
  <2> QED
    BY <2>1, <2>2 DEF Contains
<1>8. /\ Len(rest \o hid) = Len(rest) + Len(hid)
      /\ \A i \in 1 .. Len(rest) + Len(hid) :
           (rest \o hid)[i] = IF i <= Len(rest) THEN rest[i] ELSE hid[i - Len(rest)]
  BY <1>4, ConcatProperties
<1>9. Len(rest) \in Nat /\ Len(hid) \in Nat
  BY <1>4
<1>10. Contains(rest \o hid, id) <=> Contains(rest, id) \/ Contains(hid, id)
  <2>1. ASSUME NEW i \in 1 .. Len(rest) + Len(hid), (rest \o hid)[i] = id
        PROVE  Contains(rest, id) \/ Contains(hid, id)
    <3>1. CASE i <= Len(rest)
      <4>1. i \in 1 .. Len(rest) /\ rest[i] = id
        BY <1>8, <1>9, <2>1, <3>1
      <4> QED
        BY <4>1 DEF Contains
    <3>2. CASE ~ (i <= Len(rest))
      <4>1. i - Len(rest) \in 1 .. Len(hid) /\ hid[i - Len(rest)] = id
        BY <1>8, <1>9, <2>1, <3>2
      <4> QED
        BY <4>1 DEF Contains
    <3> QED
      BY <3>1, <3>2
  <2>2. ASSUME NEW i \in 1 .. Len(rest), rest[i] = id
        PROVE  \E j \in 1 .. Len(rest) + Len(hid) : (rest \o hid)[j] = id
    <3>1. i \in 1 .. Len(rest) + Len(hid) /\ i <= Len(rest)
      BY <1>9
    <3> QED
      BY <1>8, <2>2, <3>1
  <2>3. ASSUME NEW i \in 1 .. Len(hid), hid[i] = id
        PROVE  \E j \in 1 .. Len(rest) + Len(hid) : (rest \o hid)[j] = id
    <3>1. /\ Len(rest) + i \in 1 .. Len(rest) + Len(hid) /\ ~ (Len(rest) + i <= Len(rest))
          /\ Len(rest) + i - Len(rest) = i
      BY <1>9
    <3>2. (rest \o hid)[Len(rest) + i] = hid[i]
      BY <1>8, <3>1
    <3> QED
      BY <2>3, <3>1, <3>2
  <2> QED
    BY <1>8, <2>1, <2>2, <2>3 DEF Contains
<1> QED
  BY <1>7, <1>10 DEF rest

\* Hiding and showing, where nothing is unloaded.
LEMMA ViewPatient ==
  ASSUME ChartAssumption, Inv, Patient, ~ Unloading,
         NEW shown \in Seq(Ids), NEW hid \in Seq(Ids), View(shown, hid)
  PROVE  Patient'
<1> DEFINE n == Len(unloads)
           once == Fade(elements, ToSet(shown), 1, 0)
<1>1. /\ elements \in Seq(ElementOf(n)) /\ n \in Nat /\ hidden \in Seq(Ids)
  BY DEF Inv, ElementsInv, UnloadsInv
<1>2. /\ hidden' = RemoveHiddenTargetIds(shown) \o hid
      /\ elements' = Fade(once, ToSet(hid), 0, 0)
      /\ UNCHANGED <<targets, given, unloads, flows, flowing>>
  BY DEF View
<1>3. AllKept(elements)
  BY NoCallers
<1>4. SameIds(elements, targets) /\ Seen(elements, hidden)
  BY <1>1, <1>3, MatchedByPlace DEF Patient
<1> HIDE DEF n
<1>5. [to |-> 1, call |-> 0] \in TransitionOf(n) /\ [to |-> 0, call |-> 0] \in TransitionOf(n)
  BY <1>1 DEF TransitionOf
<1>6. once \in Seq(ElementOf(n)) /\ Len(once) = Len(elements)
  BY <1>1, <1>5, Faded
<1>7. \A i \in 1 .. Len(elements) :
        once[i].id = elements[i].id /\ once[i].opacity = elements[i].opacity
  BY <1>1, <1>5, Faded
<1>8. \A i \in 1 .. Len(elements) :
        once[i].tr = IF elements[i].id \in ToSet(shown) THEN [to |-> 1, call |-> 0]
                     ELSE elements[i].tr
  BY <1>1, <1>5, Faded
<1> HIDE DEF once
<1>9. elements' \in Seq(ElementOf(n)) /\ Len(elements') = Len(once)
  BY <1>1, <1>2, <1>5, <1>6, Faded
<1>10. \A i \in 1 .. Len(once) :
         elements'[i].id = once[i].id /\ elements'[i].opacity = once[i].opacity
  BY <1>1, <1>2, <1>5, <1>6, Faded
<1>11. \A i \in 1 .. Len(once) :
         elements'[i].tr = IF once[i].id \in ToSet(hid) THEN [to |-> 0, call |-> 0]
                           ELSE once[i].tr
  BY <1>1, <1>2, <1>5, <1>6, Faded
<1>12. \A id : /\ id \in ToSet(shown) <=> Contains(shown, id)
               /\ id \in ToSet(hid) <=> Contains(hid, id)
  <2>1. DOMAIN shown = 1 .. Len(shown) /\ DOMAIN hid = 1 .. Len(hid)
    OBVIOUS
  <2> QED
    BY <2>1 DEF ToSet, Contains
<1>13. ASSUME NEW i \in 1 .. Len(elements')
       PROVE  /\ elements'[i].id = elements[i].id
              /\ elements'[i].tr.call < 1
              /\ elements'[i].tr = NoTransition =>
                   elements'[i].opacity = Visible(hidden', elements'[i].id)
              /\ elements'[i].tr.call = 0 => elements'[i].tr.to = Visible(hidden', elements'[i].id)
  <2>1. i \in 1 .. Len(elements) /\ i \in 1 .. Len(once)
    BY <1>6, <1>9
  <2>2. elements'[i].id = elements[i].id /\ elements'[i].opacity = elements[i].opacity
    BY <1>7, <1>10, <2>1
  <2>3. Contains(hidden', elements[i].id)
          <=> (Contains(hidden, elements[i].id) /\ ~ Contains(shown, elements[i].id))
              \/ Contains(hid, elements[i].id)
    BY <1>1, <1>2, HiddenAfter
  <2>4. elements'[i].tr =
          IF Contains(hid, elements[i].id) THEN [to |-> 0, call |-> 0]
          ELSE IF Contains(shown, elements[i].id) THEN [to |-> 1, call |-> 0]
          ELSE elements[i].tr
    BY <1>7, <1>8, <1>11, <1>12, <2>1
  <2>5. /\ elements[i].tr.call < 1
        /\ elements[i].tr = NoTransition => elements[i].opacity = Visible(hidden, elements[i].id)
        /\ elements[i].tr.call = 0 => elements[i].tr.to = Visible(hidden, elements[i].id)
    BY <1>3, <1>4, <2>1 DEF AllKept, Seen
  <2>6. CASE Contains(hid, elements[i].id)
    <3>1. Visible(hidden', elements[i].id) = 0
      BY <2>3, <2>6 DEF Visible
    <3>2. elements'[i].tr = [to |-> 0, call |-> 0]
      BY <2>4, <2>6
    <3> QED
      BY <2>2, <3>1, <3>2 DEF NoTransition
  <2>7. CASE ~ Contains(hid, elements[i].id) /\ Contains(shown, elements[i].id)
    <3>1. Visible(hidden', elements[i].id) = 1
      BY <2>3, <2>7 DEF Visible
    <3>2. elements'[i].tr = [to |-> 1, call |-> 0]
      BY <2>4, <2>7
    <3> QED
      BY <2>2, <3>1, <3>2 DEF NoTransition
  <2>8. CASE ~ Contains(hid, elements[i].id) /\ ~ Contains(shown, elements[i].id)
    <3>1. Visible(hidden', elements[i].id) = Visible(hidden, elements[i].id)
      BY <2>3, <2>8 DEF Visible
    <3>2. elements'[i].tr = elements[i].tr
      BY <2>4, <2>8
    <3> QED
      BY <2>2, <2>5, <3>1, <3>2
  <2> QED
    BY <2>6, <2>7, <2>8
<1>14. AllKept(elements') /\ Seen(elements', hidden')
  BY <1>13 DEF AllKept, Seen
<1>15. SameIds(elements', targets')
  BY <1>2, <1>4, <1>6, <1>9, <1>13 DEF SameIds
<1>16. Matched(elements', targets')
  BY <1>1, <1>9, <1>14, <1>15, MatchedByPlace
<1>17. OneAtATime' /\ FlowFits' /\ EvenLength'
  BY <1>2 DEF Patient, OneAtATime, FlowFits, EvenLength, Unloading, Flowing, Drawing
<1> QED
  BY <1>14, <1>16, <1>17 DEF Patient

\* A flow that gives values to targets of one length leaves them of one length,
\* if those that are new begin where all of them do.
LEMMA FlowLengths ==
  ASSUME ChartAssumption, MayGive, Right(targets, given), NEW ids \in IdLists, Even(ids),
         \A i \in 1 .. Len(targets) : Len(targets[i].values) = LoadLength
  PROVE  /\ Gifts(ids) = 1 /\ Drawn(targets) = "drawing"
         /\ \A i \in 1 .. Len(Flowed(ids, Gifts(ids))) :
              Len(Flowed(ids, Gifts(ids))[i].values) = LoadLength + 1
<1> DEFINE all == Flowed(ids, Gifts(ids))
           first == targets[1].values[1].index
<1>1. /\ targets \in Seq(Target) /\ Distinct(targets) /\ DOMAIN targets = 1 .. Len(targets)
      /\ \A i \in 1 .. Len(targets) : Runs(targets[i].values)
      /\ LoadLength \in Nat /\ LoadLength >= 2
  BY DEF Right, ChartAssumption
<1>2. \A i \in 1 .. Len(targets) :
        targets[i] \in Target /\ targets[i].values \in Seq(Value) /\ targets[i].values # <<>>
  <2>1. \A i \in 1 .. Len(targets) : targets[i] \in Target
    BY <1>1
  <2>2. \A i \in 1 .. Len(targets) : targets[i].values \in Seq(Value)
    BY <2>1 DEF Target
  <2>3. LoadLength # 0
    BY <1>1
  <2>4. \A i \in 1 .. Len(targets) : targets[i].values # <<>>
    BY <2>2, <2>3
  <2> QED
    BY <2>1, <2>2, <2>4
<1>3. Existing(ids) # <<>> /\ Gifts(ids) = 1
  BY DEF Even, Gifts
<1>4. targets # <<>> /\ 1 \in 1 .. Len(targets)
  <2>1. \E i \in 1 .. Len(targets) : Contains(ids, targets[i].id)
    BY <1>1, <1>3, Named
  <2> QED
    BY <1>1, <2>1
<1>5. Drawn(targets) = "drawing"
  <2>1. Len(targets[1].values) > 1
    BY <1>1, <1>4
  <2> QED
    BY <1>1, <1>4, <2>1 DEF Drawn
<1>6. /\ \A i \in 1 .. Len(targets) : all[i] = Longer(targets[i], ids)
      /\ \A i \in 1 .. Len(all) : ~ (i \in 1 .. Len(targets)) =>
           /\ Missing(ids) # <<>>
           /\ Len(all[i].values) = GapBefore(first, LastTail(ids)) + 1
  BY <1>1, <1>2, <1>4, FlowedTargets
<1> HIDE DEF all, first
<1>7. ASSUME NEW i \in 1 .. Len(all)
      PROVE  Len(all[i].values) = LoadLength + 1
  <2>1. CASE i \in 1 .. Len(targets)
    <3>1. Len(Longer(targets[i], ids).values) = Len(targets[i].values) + Gifts(ids)
      BY <1>1, <1>2, <2>1, LongerTarget
    <3> QED
      BY <1>3, <1>6, <2>1, <3>1
  <2>2. CASE ~ (i \in 1 .. Len(targets))
    <3>1. Missing(ids) # <<>> /\ Len(all[i].values) = GapBefore(first, LastTail(ids)) + 1
      BY <1>6, <2>2
    <3>2. PICK j \in 1 .. Len(targets) : LastTail(ids) = TailOf(targets[j])
      BY <1>1, <1>4, LastTailIsOne
    <3>3. /\ targets[j].values[1].index \in Nat
          /\ TailOf(targets[j]) = targets[j].values[1].index + Len(targets[j].values)
      BY <1>1, <1>2, TailTyped
    <3>4. targets[j].values[1].index = first
      BY <1>1, <3>1 DEF Even, first
    <3>5. first \in Nat /\ LastTail(ids) = first + LoadLength
      BY <3>2, <3>3, <3>4
    <3>6. GapBefore(first, LastTail(ids)) = LoadLength
      BY <1>1, <3>5 DEF GapBefore
    <3> QED
      BY <3>1, <3>6
  <2> QED
    BY <2>1, <2>2
<1> QED
  BY <1>3, <1>5, <1>7 DEF all

LEMMA FlowPatient ==
  ASSUME ChartAssumption, Inv, Patient, ~ Unloading, ~ Flowing, Flow
  PROVE  Patient'
<1> DEFINE n == Len(unloads)
           m == Len(flows)
<1>1. /\ DataInv /\ ElementsInv /\ UnloadsInv /\ WaitsInv /\ FlowsInv
      /\ elements \in Seq(ElementOf(n)) /\ n \in Nat /\ LoadLength \in Nat
      /\ flows \in Seq(FlowOf) /\ m \in Nat /\ DOMAIN flows = 1 .. m
  BY DEF Inv, ElementsInv, UnloadsInv, FlowsInv, ChartAssumption
<1>2. /\ Right(targets, given) /\ MayGive
      /\ targets \in Seq(Target) /\ Distinct(targets) /\ DOMAIN targets = 1 .. Len(targets)
      /\ \A i \in 1 .. Len(targets) : Runs(targets[i].values)
  BY <1>1, Counted DEF DataInv, Right, Flow
<1>3. \A i \in 1 .. Len(targets) : targets[i].values # <<>>
  BY <1>2 DEF Flow
<1>4. PICK ids \in IdLists :
        /\ targets' = Flowed(ids, Gifts(ids))
        /\ elements' = UpdateTargets(elements, targets')
        /\ flows' = Append(flows, [index |-> targets'[1].values[1].index, length |-> Gifts(ids),
                                   state |-> Drawn(targets), even |-> Even(ids)])
  BY DEF Flow, Gifts
<1> DEFINE f == [index |-> targets'[1].values[1].index, length |-> Gifts(ids),
                 state |-> Drawn(targets), even |-> Even(ids)]
<1>5. UNCHANGED <<hidden, unloads, flowing>>
  BY DEF Flow
<1>6. AllKept(elements)
  BY NoCallers
<1>7. SameIds(elements, targets) /\ Seen(elements, hidden)
  BY <1>1, <1>6, MatchedByPlace DEF Patient
<1>8. \A i \in 1 .. Len(targets) :
        /\ Longer(targets[i], ids).id = targets[i].id
        /\ Len(Longer(targets[i], ids).values) = Len(targets[i].values) + Gifts(ids)
  BY <1>2, <1>3, LongerTarget
<1>9. /\ targets' \in Seq(Target) /\ Len(targets') >= Len(targets) /\ Len(targets') >= 1
      /\ \A i \in 1 .. Len(targets) : targets'[i] = Longer(targets[i], ids)
  BY <1>2, <1>3, <1>4, FlowedTargets
<1>10. \A i \in 1 .. Len(targets) : targets'[i].id = targets[i].id
  BY <1>8, <1>9
<1>11. AllKept(elements') /\ SameIds(elements', targets') /\ Seen(elements', hidden)
  BY <1>1, <1>2, <1>4, <1>6, <1>7, <1>9, <1>10, UpdatedMatch
<1>12. elements' \in Seq(ElementOf(n))
  BY <1>1, <1>4, <1>9, Updated
<1>13. Matched(elements', targets') /\ Seen(elements', hidden')
  BY <1>1, <1>5, <1>11, <1>12, MatchedByPlace
<1>14. /\ Len(flows') = m + 1 /\ \A k \in 1 .. m : flows'[k] = flows[k]
       /\ flows'[m + 1] = f
  <2>1. Inv'
    BY FlowInv
  <2>2. flows' \in Seq(FlowOf) /\ flows' = Append(flows, f)
    BY <1>4, <2>1 DEF Inv, FlowsInv
  <2> QED
    BY <1>1, <2>2
<1>15. f.index = targets'[1].values[1].index /\ f.length = Gifts(ids) /\ f.state = Drawn(targets)
       /\ f.even = Even(ids)
  OBVIOUS
<1> HIDE DEF f, m, n
<1>16. ~ Drawing /\ \A k \in 1 .. m : ~ Active(flows[k])
  BY <1>1, NotDrawing DEF m
<1>17. \A k \in 1 .. m + 1 : k \in 1 .. m \/ k = m + 1
  BY <1>1
<1>18. OneAtATime'
  <2>1. \A k \in 1 .. Len(flows') : Active(flows'[k]) => k = Len(flows')
    BY <1>14, <1>16, <1>17
  <2>2. ~ Unloading'
    BY <1>5 DEF Unloading
  <2>3. \A k \in 1 .. Len(unloads') : unloads'[k].state = "running" => k = Len(unloads')
    BY <1>5 DEF Patient, OneAtATime
  <2> QED
    BY <2>1, <2>2, <2>3 DEF OneAtATime
<1>19. FlowFits'
  <2>1. ASSUME NEW k \in 1 .. Len(flows'), flows'[k].state = "drawing"
        PROVE  /\ targets' # <<>> /\ flows'[k].index = targets'[1].values[1].index
               /\ Len(targets'[1].values) > flows'[k].length
    <3>1. k = m + 1
      BY <1>14, <1>16, <1>17, <2>1 DEF Active
    <3>2. flows'[k].index = targets'[1].values[1].index /\ flows'[k].length = Gifts(ids)
          /\ Drawn(targets) = "drawing"
      BY <1>14, <1>15, <2>1, <3>1
    <3>3. 1 \in 1 .. Len(targets)
      BY <1>2, <3>2 DEF Drawn
    <3>4. targets[1].values \in Seq(Value) /\ targets[1].values # <<>>
      <4>1. targets[1] \in Target
        BY <1>2, <3>3
      <4> QED
        BY <1>3, <3>3, <4>1 DEF Target
    <3>5. Len(targets'[1].values) = Len(targets[1].values) + Gifts(ids)
      BY <1>8, <1>9, <3>3
    <3>6. Gifts(ids) \in Nat
      BY DEF Gifts
    <3>7. Len(targets[1].values) \in Nat /\ Len(targets[1].values) > 0
      BY <3>4
    <3>8. Len(targets'[1].values) > Gifts(ids)
      BY <3>5, <3>6, <3>7
    <3>9. targets' # <<>>
      BY <1>9
    <3> QED
      BY <3>2, <3>8, <3>9
  <2>2. ~ flowing'
    BY <1>5 DEF Patient, FlowFits
  <2> QED
    BY <2>1, <2>2 DEF FlowFits
<1>20. EvenLength'
  <2> SUFFICES ASSUME \A k \in 1 .. Len(flows') : flows'[k].even
               PROVE  /\ \A k \in 1 .. Len(flows') : flows'[k].length = 1
                      /\ \A i \in 1 .. Len(targets') :
                           Len(targets'[i].values) = LoadLength + (IF Drawing' THEN 1 ELSE 0)
    BY DEF EvenLength
  <2>1. /\ \A k \in 1 .. m : k \in 1 .. Len(flows')
        /\ m + 1 \in 1 .. Len(flows')
    BY <1>1, <1>14
  <2>2. (\A k \in 1 .. m : flows[k].even) /\ Even(ids)
    BY <1>14, <1>15, <2>1
  <2>3. /\ \A k \in 1 .. m : flows[k].length = 1
        /\ \A i \in 1 .. Len(targets) : Len(targets[i].values) = LoadLength
    <3>1. LoadLength + 0 = LoadLength
      BY <1>1
    <3> QED
      BY <1>16, <2>2, <3>1 DEF Patient, EvenLength, m
  <2>4. /\ Gifts(ids) = 1 /\ Drawn(targets) = "drawing"
        /\ \A i \in 1 .. Len(targets') : Len(targets'[i].values) = LoadLength + 1
    BY <1>2, <1>4, <2>2, <2>3, FlowLengths
  <2>5. Drawing'
    BY <1>14, <1>15, <2>1, <2>4 DEF Drawing
  <2>6. \A k \in 1 .. Len(flows') : flows'[k].length = 1
    BY <1>14, <1>15, <1>17, <2>3, <2>4
  <2> QED
    BY <2>4, <2>5, <2>6
<1> QED
  BY <1>13, <1>18, <1>19, <1>20 DEF Patient

\* Matching is a matter of ids.
LEMMA MatchedByIds ==
  ASSUME NEW n \in Nat, NEW els \in Seq(ElementOf(n)), NEW ts, NEW new, Matched(els, ts),
         Len(new) = Len(ts), \A i \in 1 .. Len(ts) : new[i].id = ts[i].id
  PROVE  Matched(els, new)
<1> DEFINE kept == Kept(els)
<1>1. kept \in SUBSET (1 .. Len(els))
  BY DEF Kept
<1>2. Len(ts) = Cardinality(kept) /\ \A i \in kept : ts[Rank(kept, i) + 1].id = els[i].id
  BY DEF Matched
<1> HIDE DEF kept
<1>3. \A i \in kept : Rank(kept, i) + 1 \in 1 .. Cardinality(kept)
  BY <1>1, ChosenPlaces
<1>4. \A i \in kept : new[Rank(kept, i) + 1].id = els[i].id
  BY <1>2, <1>3
<1> QED
  BY <1>2, <1>4 DEF Matched, kept

\* The flow that is drawn finds its values, and takes as many as it gave.
LEMMA StartPatient ==
  ASSUME ChartAssumption, Inv, Patient, NEW k \in 1 .. Len(flows), StartFlow(k)
  PROVE  Patient'
<1> DEFINE n == Len(unloads)
           m == Len(flows)
           f == flows[k]
<1>1. /\ elements \in Seq(ElementOf(n)) /\ n \in Nat /\ flows \in Seq(FlowOf) /\ m \in Nat
      /\ DOMAIN flows = 1 .. m /\ DOMAIN unloads = 1 .. n
      /\ Right(targets, given) /\ GivenTyped(given) /\ targets \in Seq(Target)
      /\ LoadLength \in Nat
  BY DEF Inv, ElementsInv, UnloadsInv, FlowsInv, DataInv, Right, ChartAssumption
<1>2. f \in FlowOf /\ f.index \in Nat /\ f.length \in Nat
  <2>1. f \in FlowOf
    BY <1>1
  <2> QED
    BY <2>1 DEF FlowOf
<1>3. f.state = "drawing" /\ Drawing /\ Active(f) /\ Flowing
  BY <1>1 DEF StartFlow, Drawing, Active, Flowing
<1>4. ~ Unloading /\ k = m /\ \A l \in 1 .. m : Active(flows[l]) => l = m
  BY <1>3 DEF Patient, OneAtATime
<1>5. targets # <<>> /\ f.index = targets[1].values[1].index /\ Len(targets[1].values) > f.length
  BY <1>3 DEF Patient, FlowFits
<1>6. 1 \in 1 .. Len(targets) /\ targets[1].values \in Seq(Value)
  <2>1. 1 \in 1 .. Len(targets)
    BY <1>1, <1>5
  <2>2. targets[1] \in Target
    BY <1>1, <2>1
  <2> QED
    BY <2>1, <2>2 DEF Target
<1>7. HasIndex(targets, f.index) /\ HasIndex(targets, f.index + f.length)
  <2>1. /\ DOMAIN targets[1].values = 1 .. Len(targets[1].values) /\ Len(targets[1].values) \in Nat
    BY <1>6
  <2>2. 1 \in 1 .. Len(targets[1].values) /\ f.length + 1 \in 1 .. Len(targets[1].values)
    BY <1>2, <1>5, <2>1
  <2>3. Runs(targets[1].values)
    BY <1>1, <1>6 DEF Right
  <2>4. targets[1].values[f.length + 1].index = targets[1].values[1].index + (f.length + 1) - 1
    BY <2>2, <2>3 DEF Runs
  <2>5. targets[1].values[f.length + 1].index = f.index + f.length
    BY <1>2, <1>5, <2>4
  <2> QED
    BY <1>5, <2>1, <2>2, <2>5 DEF HasIndex
<1>8. /\ flowing' = TRUE /\ targets' = Beheaded(targets, f.length)
      /\ flows' = [flows EXCEPT ![k].state = "flowing"]
      /\ UNCHANGED <<elements, hidden, unloads, given, hasty, calls>>
  BY <1>5, <1>7 DEF StartFlow
<1>9. /\ Len(targets') = Len(targets)
      /\ \A i \in 1 .. Len(targets) :
           /\ targets'[i].id = targets[i].id
           /\ f.length <= Len(targets[i].values) =>
                Len(targets'[i].values) = Len(targets[i].values) - f.length
  <2> DEFINE l == f.length
  <2>1. l \in Nat /\ targets' = Beheaded(targets, l)
    BY <1>2, <1>8
  <2> HIDE DEF l
  <2>2. /\ Len(Beheaded(targets, l)) = Len(targets)
        /\ \A i \in 1 .. Len(targets) :
             /\ Beheaded(targets, l)[i].id = targets[i].id
             /\ l <= Len(targets[i].values) =>
                  Len(Beheaded(targets, l)[i].values) = Len(targets[i].values) - l
    BY <1>1, <2>1, BeheadedKeepsRight
  <2> QED
    BY <2>1, <2>2 DEF l
<1>10. Matched(elements', targets') /\ Seen(elements', hidden')
  BY <1>1, <1>8, <1>9, MatchedByIds DEF Patient
<1>11. /\ Len(flows') = m /\ DOMAIN flows' = 1 .. m
       /\ \A l \in 1 .. m : flows'[l].even = flows[l].even /\ flows'[l].length = flows[l].length
       /\ \A l \in 1 .. m : l # k => flows'[l] = flows[l]
       /\ flows'[k].state = "flowing"
  <2>1. [f EXCEPT !.state = "flowing"].even = f.even /\ [f EXCEPT !.state = "flowing"].length = f.length
        /\ [f EXCEPT !.state = "flowing"].state = "flowing"
    BY <1>2 DEF FlowOf
  <2>2. flows' = [flows EXCEPT ![k] = [f EXCEPT !.state = "flowing"]]
    BY <1>8
  <2> HIDE DEF f
  <2> QED
    BY <1>1, <2>1, <2>2 DEF f
<1> HIDE DEF f, m, n
<1>12. \A l \in 1 .. m : flows'[l].state # "drawing"
  <2>1. \A l \in 1 .. m : l # k => flows[l].state # "drawing"
    BY <1>4 DEF Active
  <2> QED
    BY <1>11, <2>1
<1>13. OneAtATime'
  <2>1. \A l \in 1 .. Len(flows') : Active(flows'[l]) => l = Len(flows')
    BY <1>4, <1>11
  <2>2. ~ Unloading'
    BY <1>4, <1>8 DEF Unloading
  <2>3. \A l \in 1 .. Len(unloads') : unloads'[l].state = "running" => l = Len(unloads')
    BY <1>8 DEF Patient, OneAtATime
  <2> QED
    BY <2>1, <2>2, <2>3 DEF OneAtATime
<1>14. FlowFits'
  <2>1. Flowing'
    BY <1>11 DEF Flowing, m
  <2> QED
    BY <1>11, <1>12, <2>1 DEF FlowFits
<1>15. EvenLength'
  <2> SUFFICES ASSUME \A l \in 1 .. Len(flows') : flows'[l].even
               PROVE  /\ \A l \in 1 .. Len(flows') : flows'[l].length = 1
                      /\ \A i \in 1 .. Len(targets') :
                           Len(targets'[i].values) = LoadLength + (IF Drawing' THEN 1 ELSE 0)
    BY DEF EvenLength
  <2>1. /\ \A l \in 1 .. m : flows[l].length = 1
        /\ \A i \in 1 .. Len(targets) : Len(targets[i].values) = LoadLength + 1
    BY <1>3, <1>11 DEF Patient, EvenLength, m
  <2>2. ~ Drawing'
    BY <1>11, <1>12 DEF Drawing
  <2>3. f.length = 1
    BY <2>1 DEF f, m
  <2>4. \A i \in 1 .. Len(targets') : Len(targets'[i].values) = LoadLength + 0
    <3> SUFFICES ASSUME NEW i \in 1 .. Len(targets')
                 PROVE  Len(targets'[i].values) = LoadLength + 0
      OBVIOUS
    <3>1. i \in 1 .. Len(targets) /\ Len(targets[i].values) = LoadLength + 1
      BY <1>9, <2>1
    <3>2. 1 <= LoadLength + 1 /\ LoadLength + 1 - 1 = LoadLength + 0
      BY <1>1
    <3>3. f.length <= Len(targets[i].values)
      BY <2>3, <3>1, <3>2
    <3>4. Len(targets'[i].values) = Len(targets[i].values) - f.length
      BY <1>9, <3>1, <3>3
    <3> QED
      BY <2>3, <3>1, <3>2, <3>4
  <2>5. \A l \in 1 .. Len(flows') : flows'[l].length = 1
    BY <1>11, <2>1
  <2> QED
    BY <2>2, <2>4, <2>5
<1> QED
  BY <1>10, <1>13, <1>14, <1>15 DEF Patient

\* The flow that moves ends, and with it the flag.
LEMMA FinishPatient ==
  ASSUME ChartAssumption, Inv, Patient, NEW k \in 1 .. Len(flows), FinishFlow(k)
  PROVE  Patient'
<1> DEFINE m == Len(flows)
           f == flows[k]
<1>1. flows \in Seq(FlowOf) /\ m \in Nat /\ DOMAIN flows = 1 .. m /\ f \in FlowOf
  BY DEF Inv, FlowsInv
<1>2. /\ f.state = "flowing" /\ flows' = [flows EXCEPT ![k].state = "done"]
      /\ flowing' = FALSE
      /\ UNCHANGED <<targets, elements, hidden, unloads, given, hasty, calls>>
  BY DEF FinishFlow, FlowFlag
<1>3. /\ Len(flows') = m /\ DOMAIN flows' = 1 .. m
      /\ \A l \in 1 .. m : flows'[l].even = flows[l].even /\ flows'[l].length = flows[l].length
      /\ \A l \in 1 .. m : l # k => flows'[l] = flows[l]
      /\ flows'[k].state = "done"
  <2>1. [f EXCEPT !.state = "done"].even = f.even /\ [f EXCEPT !.state = "done"].length = f.length
        /\ [f EXCEPT !.state = "done"].state = "done"
    BY <1>1 DEF FlowOf
  <2>2. flows' = [flows EXCEPT ![k] = [f EXCEPT !.state = "done"]]
    BY <1>2
  <2> HIDE DEF f
  <2> QED
    BY <1>1, <2>1, <2>2 DEF f
<1> HIDE DEF f
<1>4. \A l \in 1 .. m : flows'[l].state = "drawing" <=> flows[l].state = "drawing"
  BY <1>2, <1>3 DEF f
<1>5. \A l \in 1 .. m : Active(flows'[l]) => Active(flows[l])
  BY <1>3 DEF Active
<1> HIDE DEF m
<1>6. Drawing' = Drawing
  BY <1>3, <1>4 DEF Drawing, m
<1>7. Flowing' => Flowing
  <2>1. Flowing' <=> \E l \in 1 .. m : Active(flows'[l])
    BY <1>3 DEF Flowing, Active
  <2>2. Flowing <=> \E l \in 1 .. m : Active(flows[l])
    BY <1>1 DEF Flowing, Active
  <2> QED
    BY <1>5, <2>1, <2>2
<1>8. OneAtATime'
  <2>1. Unloading' <=> Unloading
    BY <1>2 DEF Unloading
  <2>2. \A l \in 1 .. Len(unloads') : unloads'[l].state = "running" => l = Len(unloads')
    BY <1>2 DEF Patient, OneAtATime
  <2>3. \A l \in 1 .. Len(flows') : Active(flows'[l]) => l = Len(flows')
    BY <1>3, <1>5 DEF Patient, OneAtATime, m
  <2> QED
    BY <1>7, <2>1, <2>2, <2>3 DEF Patient, OneAtATime
<1>9. FlowFits'
  <2>1. ASSUME NEW l \in 1 .. Len(flows'), flows'[l].state = "drawing"
        PROVE  /\ targets' # <<>> /\ flows'[l].index = targets'[1].values[1].index
               /\ Len(targets'[1].values) > flows'[l].length
    <3>1. l \in 1 .. m /\ flows'[l] = flows[l] /\ flows[l].state = "drawing"
      BY <1>3, <2>1
    <3> QED
      BY <1>2, <3>1 DEF Patient, FlowFits, m
  <2> QED
    BY <1>2, <2>1 DEF FlowFits
<1>10. EvenLength'
  BY <1>2, <1>3, <1>6 DEF Patient, EvenLength, m
<1>11. Matched(elements', targets') /\ Seen(elements', hidden')
  BY <1>2 DEF Patient
<1> QED
  BY <1>8, <1>9, <1>10, <1>11 DEF Patient

LEMMA InitPatient ==
  ASSUME ChartAssumption, Init
  PROVE  Patient
<1>1. PICK ids \in IdLists :
        /\ targets = [i \in DOMAIN ids |->
                        [id |-> ids[i], values |-> [k \in 1 .. LoadLength |->
                                                       [index |-> k - 1, value |-> 0]]]]
        /\ elements = [i \in DOMAIN ids |->
                         [id |-> ids[i], opacity |-> 0, tr |-> [to |-> 1, call |-> 0]]]
  BY DEF Init
<1>2. hidden = <<>> /\ unloads = <<>> /\ flows = <<>> /\ flowing = FALSE
  BY DEF Init
<1>3. ids \in Seq(Ids) /\ LoadLength \in Nat
  BY DEF ChartAssumption
<1>4. Len(unloads) = 0 /\ Len(flows) = 0 /\ Len(hidden) = 0
      /\ DOMAIN unloads = {} /\ DOMAIN flows = {}
  BY <1>2
<1>5. /\ Len(targets) = Len(ids) /\ Len(elements) = Len(ids)
      /\ \A i \in 1 .. Len(ids) :
           /\ targets[i].id = ids[i] /\ elements[i].id = ids[i]
           /\ elements[i].tr = [to |-> 1, call |-> 0]
           /\ Len(targets[i].values) = LoadLength
  BY <1>1, <1>3
<1>6. AllKept(elements) /\ SameIds(elements, targets)
  BY <1>5 DEF AllKept, SameIds
<1>7. Matched(elements, targets)
  <2>1. elements \in Seq(ElementOf(Len(unloads))) /\ Len(unloads) \in Nat
    BY <1>4, InitInv DEF Inv, ElementsInv
  <2> QED
    BY <1>6, <2>1, MatchedByPlace
<1>8. Seen(elements, hidden)
  <2>1. \A id : Visible(hidden, id) = 1
    BY <1>4 DEF Visible, Contains
  <2> QED
    BY <1>5, <2>1 DEF Seen, NoTransition
<1>9. OneAtATime /\ FlowFits
  BY <1>2, <1>4 DEF OneAtATime, FlowFits, Unloading
<1>10. EvenLength
  <2>1. ~ Drawing /\ LoadLength + 0 = LoadLength
    BY <1>3, <1>4 DEF Drawing
  <2> QED
    BY <1>4, <1>5, <2>1 DEF EvenLength
<1> QED
  BY <1>7, <1>8, <1>9, <1>10 DEF Patient

\* One step for each action: a call that is made while another one is underway
\* is made by a hasty page.
LEMMA PatientKept ==
  ASSUME ChartAssumption, Inv, ~ hasty => Patient, [Next]_vars, ~ hasty'
  PROVE  Patient'
<1>1. CallsTyped
  BY DEF Inv, DataInv
<1>2. CASE Load
  <2>1. MayCall /\ UNCHANGED <<hidden, unloads, flows, flowing>>
    BY <1>2 DEF Load
  <2>2. ~ hasty /\ ~ Unloading /\ ~ Flowing
    BY <1>2 DEF Load
  <2>3. PICK ids \in IdLists : DoLoad(elements, targets, Converted(ids))
    BY <1>2 DEF Load
  <2>4. Loadable(Converted(ids))
    BY <1>1, <2>1, Counted, ConvertedLoadable
  <2> QED
    BY <2>1, <2>2, <2>3, <2>4, LoadPatient
<1>3. CASE LoadUnloading
  <2>1. MayCall /\ UNCHANGED <<hidden, flows, flowing>>
    BY <1>3 DEF LoadUnloading
  <2>2. ~ hasty /\ ~ Unloading /\ ~ Flowing
    BY <1>3 DEF LoadUnloading
  <2>3. PICK ids \in IdLists, gone \in IdLists :
          IF Existing(gone) = <<>>
          THEN DoLoad(elements, targets, Converted(ids)) /\ UNCHANGED unloads
          ELSE DoUnload(Existing(gone), Converted(ids))
    BY <1>3 DEF LoadUnloading
  <2>4. Loadable(Converted(ids))
    BY <1>1, <2>1, Counted, ConvertedLoadable
  <2>5. CASE Existing(gone) = <<>>
    <3>1. DoLoad(elements, targets, Converted(ids)) /\ UNCHANGED unloads
      BY <2>3, <2>5
    <3>2. UNCHANGED <<hidden, unloads, flows, flowing>>
      BY <2>1, <3>1
    <3> QED
      BY <2>2, <2>4, <3>1, <3>2, LoadPatient
  <2>6. CASE Existing(gone) # <<>>
    BY <2>1, <2>2, <2>3, <2>4, <2>6, ExistingTyped, UnloadPatient
  <2> QED
    BY <2>5, <2>6
<1>4. CASE Unload
  <2>1. UNCHANGED <<hidden, flows, flowing>> /\ ~ hasty /\ ~ Unloading /\ ~ Flowing
    BY <1>4 DEF Unload
  <2>2. PICK gone \in IdLists : DoUnload(Existing(gone), <<>>)
    BY <1>4 DEF Unload
  <2> QED
    BY <2>1, <2>2, ExistingTyped, UnloadPatient
<1>5. CASE Hide \/ Show \/ Toggle
  <2>1. PICK shown \in Seq(Ids), hid \in Seq(Ids) : View(shown, hid)
    BY <1>5, SomeView
  <2>2. ~ hasty /\ ~ Unloading
    BY <2>1 DEF View
  <2> QED
    BY <2>1, <2>2, ViewPatient
<1>6. CASE Flow
  <2>1. ~ hasty /\ ~ Unloading /\ ~ Flowing
    BY <1>6 DEF Flow
  <2> QED
    BY <1>6, <2>1, FlowPatient
<1>7. CASE \E i \in DOMAIN elements : TransitionEnds(i)
  <2>1. DOMAIN elements = 1 .. Len(elements)
    BY DEF Inv, ElementsInv
  <2>2. ~ hasty
    BY <1>7 DEF TransitionEnds
  <2> QED
    BY <1>7, <2>1, <2>2, TransitionPatient
<1>8. CASE \E k \in DOMAIN flows : StartFlow(k) \/ FinishFlow(k)
  <2>1. DOMAIN flows = 1 .. Len(flows)
    BY DEF Inv, FlowsInv
  <2>2. ~ hasty
    BY <1>8 DEF StartFlow, FinishFlow
  <2> QED
    BY <1>8, <2>1, <2>2, StartPatient, FinishPatient
<1>9. CASE UNCHANGED vars
  BY <1>9 DEF vars, Patient, OneAtATime, FlowFits, EvenLength, Unloading, Flowing, Drawing
<1> QED
  BY <1>2, <1>3, <1>4, <1>5, <1>6, <1>7, <1>8, <1>9 DEF Next

\* If the page waits for the end of every unload and flow, the elements are
\* those of the data in their order and visible unless hidden, flows leave the
\* targets as many values as they had, and the flag of a flow that moves is up
\* only while one does (load, unload, flow, hide and show).
THEOREM PatientAlwaysServed == Spec => []PatientPageServed
<1>1. Init => PatientInv
  BY ChartAssumption, InitInv, InitPatient DEF PatientInv
<1>2. PatientInv /\ [Next]_vars => PatientInv'
  BY ChartAssumption, InvKept, PatientKept DEF PatientInv
<1>3. PatientInv => PatientPageServed
  <2> SUFFICES ASSUME PatientInv PROVE PatientPageServed
    OBVIOUS
  <2>1. Inv /\ (~ hasty => Patient)
    BY DEF PatientInv
  <2>2. /\ elements \in Seq(ElementOf(Len(unloads))) /\ Len(unloads) \in Nat
        /\ targets \in Seq(Target) /\ flows \in Seq(FlowOf) /\ FlowsInv /\ LoadLength \in Nat
    BY <2>1, ChartAssumption DEF Inv, ElementsInv, UnloadsInv, FlowsInv, DataInv, Right, ChartAssumption
  <2>3. ShownAsData
    <3> SUFFICES ASSUME ~ hasty, ~ Unloading
                 PROVE  /\ IdsOf(elements) = IdsOf(targets)
                        /\ \A i \in DOMAIN elements :
                             elements[i].tr = NoTransition =>
                               elements[i].opacity = IF IsTargetToShow(elements[i].id) THEN 1 ELSE 0
      BY DEF ShownAsData
    <3>1. SameIds(elements, targets)
      BY <2>1, <2>2, NoCallers, MatchedByPlace DEF Patient
    <3>2. DOMAIN elements = 1 .. Len(elements) /\ DOMAIN targets = 1 .. Len(targets)
      BY <2>2
    <3>3. IdsOf(elements) = IdsOf(targets)
      BY <3>1, <3>2 DEF IdsOf, SameIds
    <3> QED
      BY <2>1, <3>2, <3>3 DEF Patient, Seen, Visible, IsTargetToShow
  <2>4. FlowKeepsLength
    <3> SUFFICES ASSUME ~ hasty, ~ Flowing
                 PROVE  /\ (\A k \in DOMAIN flows : flows[k].even) =>
                             \A i \in DOMAIN targets : Len(targets[i].values) = LoadLength
                        /\ ~ flowing
      BY DEF FlowKeepsLength
    <3>1. ~ Drawing
      BY <2>2, NotDrawing
    <3>2. FlowFits /\ EvenLength
      BY <2>1 DEF Patient
    <3>3. DOMAIN flows = 1 .. Len(flows) /\ DOMAIN targets = 1 .. Len(targets)
          /\ LoadLength + 0 = LoadLength
      BY <2>2
    <3> QED
      BY <3>1, <3>2, <3>3 DEF FlowFits, EvenLength
  <2> QED
    BY <2>3, <2>4 DEF PatientPageServed
<1> QED
  BY <1>1, <1>2, <1>3, PTL DEF Spec
=============================================================================
