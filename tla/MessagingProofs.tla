-------------------------- MODULE MessagingProofs ---------------------------
(***************************************************************************)
(* How messages get from one program to the next: theorems about modules   *)
(* Reader, Sender and Exchanges.  The reader publishes what it reads in    *)
(* the order of the table and passes over nothing after the place where a  *)
(* run begins, for any set of rows, order of insertion, limit, clock and   *)
(* number of restarts.  The sender claims no success that was none, with   *)
(* any finite number of threads and any number of messages, however many   *)
(* connections fail.  No snapshot is lost between the processor and the    *)
(* web applications, and none is dispatched more often than the broker     *)
(* handed it out, for any number of web applications, browsers, snapshots  *)
(* and lost connections.                                                   *)
(***************************************************************************)
EXTENDS Reader, Sender, Exchanges, Integers, FiniteSetTheorems, FunctionTheorems,
        SequenceTheorems, TLAPS

-----------------------------------------------------------------------------
(***************************************************************************)
(* What a query returns.                                                   *)
(***************************************************************************)
\* Each value of a finite set has a place in the order of the keys, and each place
\* a value.
LEMMA SortedPlaces ==
  ASSUME NEW S, IsFiniteSet(S), NEW key, \A x \in S : key[x] \in Int,
         \A x, y \in S : key[x] = key[y] => x = y
  PROVE  /\ Cardinality(S) \in Nat
         /\ \A x \in S : /\ Cardinality(Before(S, key, x)) \in 0 .. Cardinality(S) - 1
                         /\ Sorted(S, key)[Cardinality(Before(S, key, x)) + 1] = x
         /\ \A k \in 1 .. Cardinality(S) :
              /\ Sorted(S, key)[k] \in S
              /\ Cardinality(Before(S, key, Sorted(S, key)[k])) = k - 1
<1> DEFINE n == Cardinality(S)
           rank == [x \in S |-> Cardinality(Before(S, key, x))]
<1>1. n \in Nat
  BY FS_CardinalityType
<1>2. ASSUME NEW x \in S
      PROVE  /\ IsFiniteSet(Before(S, key, x))
             /\ rank[x] \in 0 .. n - 1
  <2>1. Before(S, key, x) \in SUBSET (S \ {x})
    BY DEF Before
  <2>2. IsFiniteSet(S \ {x}) /\ Cardinality(S \ {x}) = n - 1
    BY FS_RemoveElement
  <2>3. /\ IsFiniteSet(Before(S, key, x))
        /\ Cardinality(Before(S, key, x)) <= n - 1
        /\ Cardinality(Before(S, key, x)) \in Nat
    BY <2>1, <2>2, FS_Subset, FS_CardinalityType
  <2> QED
    BY <1>1, <2>3
<1>3. ASSUME NEW x \in S, NEW y \in S, key[x] < key[y]
      PROVE  rank[x] < rank[y]
  <2>1. Before(S, key, x) \in SUBSET Before(S, key, y)
    BY <1>3 DEF Before
  <2>2. x \in Before(S, key, y) /\ x \notin Before(S, key, x)
    BY <1>3 DEF Before
  <2>3. /\ Cardinality(Before(S, key, x)) <= Cardinality(Before(S, key, y))
        /\ Cardinality(Before(S, key, x)) # Cardinality(Before(S, key, y))
    BY <1>2, <2>1, <2>2, FS_Subset
  <2> QED
    BY <1>2, <2>3
<1>4. \A x, y \in S : rank[x] = rank[y] => x = y
  <2> SUFFICES ASSUME NEW x \in S, NEW y \in S, rank[x] = rank[y], x # y PROVE FALSE
    OBVIOUS
  <2>1. key[x] < key[y] \/ key[y] < key[x]
    OBVIOUS
  <2>2. rank[x] < rank[y] \/ rank[y] < rank[x]
    BY <1>3, <2>1
  <2> QED
    BY <1>2, <2>2
<1>5. rank \in [S -> 0 .. n - 1]
  BY <1>2
<1>6. \A k \in 0 .. n - 1 : \E x \in S : rank[x] = k
  <2>1. rank \in Injection(S, 0 .. n - 1)
    BY <1>4, <1>5, Fun_IsInj
  <2>2. IsFiniteSet(0 .. n - 1) /\ Cardinality(0 .. n - 1) = n
    BY <1>1, FS_Interval
  <2>3. rank \in Surjection(S, 0 .. n - 1)
    BY <2>1, <2>2, FS_Injection
  <2> HIDE DEF n, rank
  <2> QED
    BY <2>3, Fun_SurjectionProperties
<1>7. ASSUME NEW k \in 1 .. n
      PROVE  /\ Sorted(S, key)[k] \in S
             /\ rank[Sorted(S, key)[k]] = k - 1
             /\ \A x \in S : rank[x] = k - 1 => Sorted(S, key)[k] = x
  <2>1. k - 1 \in 0 .. n - 1
    BY <1>1
  <2>2. PICK x \in S : Cardinality(Before(S, key, x)) = k - 1
    BY <1>6, <2>1
  <2>3. Sorted(S, key)[k] = CHOOSE y \in S : Cardinality(Before(S, key, y)) = k - 1
    BY DEF Sorted
  <2>4. Sorted(S, key)[k] \in S /\ Cardinality(Before(S, key, Sorted(S, key)[k])) = k - 1
    BY <2>2, <2>3
  <2> QED
    BY <1>4, <2>4
<1>8. ASSUME NEW x \in S
      PROVE  Sorted(S, key)[rank[x] + 1] = x
  <2>1. rank[x] + 1 \in 1 .. n /\ (rank[x] + 1) - 1 = rank[x]
    BY <1>1, <1>2
  <2> QED
    BY <1>7, <2>1
<1>9. \A x \in S : rank[x] = Cardinality(Before(S, key, x))
  OBVIOUS
<1> HIDE DEF rank
<1> QED
  BY <1>1, <1>2, <1>7, <1>8, <1>9

\* The rows that the query asks for.
Asked(from) == {r \in table : Country[r] = ReadCountry /\ AfterCursor(r, from)}

\* The result is in the order of the table, and no row that was asked for comes
\* before one of the result without being in it.
LEMMA ListedRows ==
  ASSUME ReaderAssumption, table \in SUBSET Rows, IsFiniteSet(table), NEW from
  PROVE  /\ Listed(from) \in Seq(table) /\ Len(Listed(from)) <= Limit
         /\ \A i \in 1 .. Len(Listed(from)) : Listed(from)[i] \in Asked(from)
         /\ \A i, j \in 1 .. Len(Listed(from)) : i < j => Key[Listed(from)[i]] < Key[Listed(from)[j]]
         /\ \A r \in Asked(from), i \in 1 .. Len(Listed(from)) :
              Key[r] <= Key[Listed(from)[i]] => \E j \in 1 .. Len(Listed(from)) : Listed(from)[j] = r
<1> DEFINE all == Sorted(Asked(from), Key)
           n == Cardinality(Asked(from))
           place == [x \in Asked(from) |-> Cardinality(Before(Asked(from), Key, x))]
           size == Min({Limit, n})
<1>1. IsFiniteSet(Asked(from)) /\ Asked(from) \in SUBSET table
  <2>1. Asked(from) \in SUBSET table
    BY DEF Asked
  <2> QED
    BY <2>1, FS_Subset
<1>2. /\ \A x \in Asked(from) : Key[x] \in Int
      /\ \A x, y \in Asked(from) : Key[x] = Key[y] => x = y
  BY <1>1 DEF ReaderAssumption
<1>3. /\ n \in Nat
      /\ \A x \in Asked(from) : place[x] \in 0 .. n - 1 /\ all[place[x] + 1] = x
      /\ \A k \in 1 .. n : all[k] \in Asked(from) /\ place[all[k]] = k - 1
  BY <1>1, <1>2, SortedPlaces
<1>4. DOMAIN all = 1 .. n
  BY DEF Sorted
<1>5. \A x, y \in Asked(from) : Key[x] < Key[y] => place[x] < place[y]
  <2> SUFFICES ASSUME NEW x \in Asked(from), NEW y \in Asked(from), Key[x] < Key[y]
               PROVE  place[x] < place[y]
    OBVIOUS
  <2>1. IsFiniteSet(Before(Asked(from), Key, y))
    <3>1. Before(Asked(from), Key, y) \in SUBSET Asked(from)
      BY DEF Before
    <3> QED
      BY <1>1, <3>1, FS_Subset
  <2>2. Before(Asked(from), Key, x) \in SUBSET Before(Asked(from), Key, y)
    BY <1>2 DEF Before
  <2>3. x \in Before(Asked(from), Key, y) /\ x \notin Before(Asked(from), Key, x)
    BY <1>2 DEF Before
  <2>4. /\ Cardinality(Before(Asked(from), Key, x)) <= Cardinality(Before(Asked(from), Key, y))
        /\ Cardinality(Before(Asked(from), Key, x)) # Cardinality(Before(Asked(from), Key, y))
    BY <2>1, <2>2, <2>3, FS_Subset
  <2> QED
    BY <1>3, <2>4
<1> HIDE DEF place, all, n
<1>6. all \in [1 .. n -> table]
  <2>1. all = [k \in 1 .. n |-> all[k]]
    BY DEF all, n, Sorted
  <2> QED
    BY <1>1, <1>3, <2>1
<1>7. all \in Seq(table) /\ Len(all) = n
  BY <1>3, <1>6
<1>8. size \in Nat /\ size <= n /\ size <= Limit /\ (size = n \/ size = Limit)
  <2>1. Limit \in Nat
    BY DEF ReaderAssumption
  <2>2. CASE Limit <= n
    <3>1. Min({Limit, n}) = Limit
      BY <1>3, <2>1, <2>2 DEF Min
    <3> QED
      BY <1>3, <2>1, <2>2, <3>1
  <2>3. CASE n <= Limit
    <3>1. Min({Limit, n}) = n
      BY <1>3, <2>1, <2>3 DEF Min
    <3> QED
      BY <1>3, <2>1, <2>3, <3>1
  <2> QED
    BY <1>3, <2>1, <2>2, <2>3
<1>9. Listed(from) = SubSeq(all, 1, size)
  BY <1>7 DEF Listed, Limited, Asked, all
<1> HIDE DEF size
<1>10. /\ Listed(from) \in Seq(table) /\ Len(Listed(from)) = size
       /\ \A i \in 1 .. size : Listed(from)[i] = all[i]
  <2> DEFINE part == SubSeq(all, 1, size)
  <2>1. size \in 0 .. Len(all)
    BY <1>3, <1>7, <1>8
  <2>2. /\ part \in Seq(table) /\ Len(part) = size
        /\ \A i \in 1 .. size : part[i] = all[i]
    BY <1>7, <2>1
  <2>3. Listed(from) = part
    BY <1>9
  <2> HIDE DEF part
  <2> QED
    BY <2>2, <2>3, Zenon
<1>11. ASSUME NEW i \in 1 .. size
       PROVE  Listed(from)[i] \in Asked(from) /\ place[Listed(from)[i]] = i - 1
  <2>1. i \in 1 .. n
    BY <1>3, <1>8
  <2>2. all[i] \in Asked(from) /\ place[all[i]] = i - 1
    BY <1>3, <2>1
  <2> QED
    BY <1>10, <2>2
<1>12. ASSUME NEW i \in 1 .. size, NEW j \in 1 .. size, i < j
       PROVE  Key[Listed(from)[i]] < Key[Listed(from)[j]]
  <2>1. /\ Listed(from)[i] \in Asked(from) /\ place[Listed(from)[i]] = i - 1
        /\ Listed(from)[j] \in Asked(from) /\ place[Listed(from)[j]] = j - 1
    BY <1>11
  <2>2. Key[Listed(from)[i]] \in Int /\ Key[Listed(from)[j]] \in Int
    BY <1>2, <2>1
  <2>3. ~ (place[Listed(from)[j]] < place[Listed(from)[i]]) /\ place[Listed(from)[i]] # place[Listed(from)[j]]
    BY <1>8, <1>12, <2>1
  <2>4. ~ (Key[Listed(from)[j]] < Key[Listed(from)[i]])
    BY <1>5, <2>1, <2>3
  <2>5. Key[Listed(from)[i]] # Key[Listed(from)[j]]
    BY <1>2, <2>1, <2>3
  <2> QED
    BY <2>2, <2>4, <2>5
<1>13. ASSUME NEW r \in Asked(from), NEW i \in 1 .. size, Key[r] <= Key[Listed(from)[i]]
       PROVE  \E j \in 1 .. size : Listed(from)[j] = r
  <2>1. Listed(from)[i] \in Asked(from) /\ place[Listed(from)[i]] = i - 1
    BY <1>11
  <2>2. Key[r] \in Int /\ Key[Listed(from)[i]] \in Int
    BY <1>2, <2>1
  <2>3. place[r] <= i - 1
    <3>1. CASE Key[r] = Key[Listed(from)[i]]
      <4>1. r = Listed(from)[i]
        BY <1>2, <2>1, <3>1
      <4> QED
        BY <1>8, <2>1, <4>1
    <3>2. CASE Key[r] < Key[Listed(from)[i]]
      <4>1. place[r] < i - 1
        BY <1>5, <2>1, <3>2
      <4> QED
        BY <1>3, <1>8, <4>1
    <3> QED
      BY <1>13, <2>2, <3>1, <3>2
  <2>4. place[r] \in 0 .. n - 1 /\ all[place[r] + 1] = r
    BY <1>3
  <2>5. place[r] + 1 \in 1 .. size
    BY <1>3, <1>8, <2>3, <2>4
  <2> QED
    BY <1>10, <2>4, <2>5
<1> QED
  BY <1>8, <1>10, <1>11, <1>12, <1>13

-----------------------------------------------------------------------------
(***************************************************************************)
(* What a run has published, or is about to.                               *)
(***************************************************************************)
\* The rows of a run, as a formula about values.
RunOf(seq, first, rest) == SubSeq(seq, first + 1, Len(seq)) \o rest

\* They are rows of the table.
LEMMA RunTyped ==
  ASSUME NEW S, NEW seq \in Seq(S), NEW first \in 0 .. Len(seq), NEW rest \in Seq(S)
  PROVE  /\ SubSeq(seq, first + 1, Len(seq)) \in Seq(S)
         /\ Len(SubSeq(seq, first + 1, Len(seq))) = Len(seq) - first
         /\ RunOf(seq, first, rest) \in Seq(S)
         /\ Len(RunOf(seq, first, rest)) = Len(seq) - first + Len(rest)
<1> DEFINE done == SubSeq(seq, first + 1, Len(seq))
<1>1. Len(seq) \in Nat /\ first \in Nat /\ first <= Len(seq)
  OBVIOUS
<1>2. done \in Seq(S) /\ Len(done) = Len(seq) - first
  BY <1>1
<1> HIDE DEF done
<1>3. done \o rest \in Seq(S) /\ Len(done \o rest) = Len(done) + Len(rest)
  BY <1>2, ConcatProperties
<1> QED
  BY <1>1, <1>2, <1>3 DEF done, RunOf

\* Publishing the next row takes it from one part of the run to the other.
LEMMA RunStays ==
  ASSUME NEW S, NEW seq \in Seq(S), NEW first \in 0 .. Len(seq),
         NEW rest \in Seq(S), rest # <<>>
  PROVE  RunOf(Append(seq, Head(rest)), first, Tail(rest)) = RunOf(seq, first, rest)
<1> DEFINE next == Head(rest)
           left == Tail(rest)
           more == Append(seq, next)
           done == SubSeq(seq, first + 1, Len(seq))
           did == SubSeq(more, first + 1, Len(more))
<1>1. Len(seq) \in Nat /\ first \in Nat /\ first <= Len(seq)
  OBVIOUS
<1>2. /\ next \in S /\ left \in Seq(S) /\ Len(left) = Len(rest) - 1
      /\ Len(rest) \in Nat /\ Len(rest) > 0 /\ rest[1] = next
      /\ \A i \in 1 .. Len(left) : left[i] = rest[i + 1]
  OBVIOUS
<1> HIDE DEF next, left
<1>3. /\ more \in Seq(S) /\ Len(more) = Len(seq) + 1 /\ more[Len(seq) + 1] = next
      /\ \A i \in 1 .. Len(seq) : more[i] = seq[i]
  BY <1>2
<1> HIDE DEF more
<1>4. /\ done \in Seq(S) /\ Len(done) = Len(seq) - first
      /\ \A i \in 1 .. Len(seq) - first : done[i] = seq[first + i]
  BY <1>1
<1>5. /\ did \in Seq(S) /\ Len(did) = Len(seq) + 1 - first
      /\ \A i \in 1 .. Len(seq) + 1 - first : did[i] = more[first + i]
  BY <1>1, <1>3
<1> HIDE DEF done, did
<1>6. /\ done \o rest \in Seq(S) /\ Len(done \o rest) = Len(done) + Len(rest)
      /\ \A i \in 1 .. Len(done) + Len(rest) :
           (done \o rest)[i] = IF i <= Len(done) THEN done[i] ELSE rest[i - Len(done)]
  BY <1>4, ConcatProperties
<1>7. /\ did \o left \in Seq(S) /\ Len(did \o left) = Len(did) + Len(left)
      /\ \A i \in 1 .. Len(did) + Len(left) :
           (did \o left)[i] = IF i <= Len(did) THEN did[i] ELSE left[i - Len(did)]
  BY <1>2, <1>5, ConcatProperties
<1>8. Len(did \o left) = Len(done \o rest)
  BY <1>1, <1>2, <1>4, <1>5, <1>6, <1>7
<1>9. ASSUME NEW i \in 1 .. Len(done) + Len(rest)
      PROVE  (did \o left)[i] = (done \o rest)[i]
  <2>1. i \in 1 .. Len(did) + Len(left)
    BY <1>1, <1>2, <1>4, <1>5
  <2>2. CASE i <= Len(seq) - first
    <3>1. i \in 1 .. Len(seq) - first /\ i \in 1 .. Len(seq) + 1 - first /\ first + i \in 1 .. Len(seq)
      BY <1>1, <2>2
    <3>2. done[i] = seq[first + i] /\ did[i] = seq[first + i]
      BY <1>3, <1>4, <1>5, <3>1
    <3> QED
      BY <1>1, <1>4, <1>5, <1>6, <1>7, <2>1, <2>2, <3>2
  <2>3. CASE i = Len(seq) - first + 1
    <3>1. i \in 1 .. Len(seq) + 1 - first /\ first + i = Len(seq) + 1 /\ i - Len(done) = 1
      BY <1>1, <1>4, <2>3
    <3>2. did[i] = more[first + i]
      BY <1>5, <3>1
    <3>3. more[first + i] = next
      BY <1>3, <3>1
    <3>4. i <= Len(did) /\ ~ (i <= Len(done))
      BY <1>1, <1>4, <1>5, <2>3
    <3>5. (did \o left)[i] = did[i] /\ (done \o rest)[i] = rest[i - Len(done)]
      BY <1>6, <1>7, <2>1, <3>4
    <3> QED
      BY <1>2, <3>1, <3>2, <3>3, <3>5
  <2>4. CASE i > Len(seq) - first + 1
    <3>1. /\ i - Len(did) \in 1 .. Len(left) /\ (i - Len(did)) + 1 = i - Len(done)
          /\ ~ (i <= Len(did)) /\ ~ (i <= Len(done))
      BY <1>1, <1>2, <1>4, <1>5, <2>1, <2>4
    <3>2. left[i - Len(did)] = rest[i - Len(done)]
      BY <1>2, <3>1
    <3> QED
      BY <1>6, <1>7, <2>1, <3>1, <3>2
  <2>5. i \in Nat /\ Len(seq) - first \in Nat
    BY <1>1, <1>2, <1>4
  <2>6. i <= Len(seq) - first \/ i = Len(seq) - first + 1 \/ i > Len(seq) - first + 1
    BY <2>5
  <2> QED
    BY <2>2, <2>3, <2>4, <2>6
<1>10. did \o left = done \o rest
  BY <1>6, <1>7, <1>8, <1>9, SeqEqual
<1> QED
  BY <1>10 DEF RunOf, did, done, more, next, left

-----------------------------------------------------------------------------
(***************************************************************************)
(* Every step keeps the invariant.                                         *)
(***************************************************************************)
\* The cursor is not before any row of the run.
NothingAhead == \A i \in DOMAIN ThisRun : Key[ThisRun[i]] <= cursor

\* Types, both parts of RowsInOrder, and that the cursor has come as far as every row
\* of the run: hence a query finds none of them again.
ReadingRight ==
  /\ ReaderTypeOK /\ IsFiniteSet(table)
  /\ InOrder /\ NonePassedOver /\ NothingAhead

\* The state in terms of the rows of the run.
LEMMA RunRows ==
  ASSUME ReaderTypeOK
  PROVE  /\ ThisRun = RunOf(published, begun, chunk)
         /\ ThisRun \in Seq(table) /\ Len(ThisRun) \in Nat
         /\ DOMAIN ThisRun = 1 .. Len(ThisRun)
<1>1. ThisRun = RunOf(published, begun, chunk)
  BY DEF ThisRun, RunOf
<1>2. RunOf(published, begun, chunk) \in Seq(table)
  BY RunTyped DEF ReaderTypeOK
<1> HIDE DEF ThisRun
<1> QED
  BY <1>1, <1>2

\* A sequence of rows of a table is one of a larger table.
LEMMA SeqGrows ==
  ASSUME NEW S, NEW T, S \in SUBSET T, NEW seq \in Seq(S)
  PROVE  seq \in Seq(T)
<1>1. Len(seq) \in Nat /\ DOMAIN seq = 1 .. Len(seq) /\ \A i \in 1 .. Len(seq) : seq[i] \in T
  OBVIOUS
<1> QED
  BY <1>1, IsASeq

\* A run that is the same, with the same cursor, is as true as it was.
LEMMA SameRun ==
  ASSUME ReadingRight, ThisRun' = ThisRun, cursor' = cursor, start' = start,
         table' = table, behind' = behind
  PROVE  InOrder' /\ NonePassedOver' /\ NothingAhead'
BY DEF ReadingRight, InOrder, NonePassedOver, NothingAhead

\* A row is inserted, before the cursor or after it.
LEMMA InsertKeeps ==
  ASSUME ReaderAssumption, ReadingRight, NEW r \in Rows, Insert(r)
  PROVE  ReadingRight'
<1>1. /\ table' = table \cup {r}
      /\ behind' = IF Key[r] <= cursor THEN behind \cup {r} ELSE behind
      /\ UNCHANGED <<cursor, chunk, running, published, restarts, begun, start>>
  BY DEF Insert
<1>2. ThisRun' = ThisRun
  BY <1>1 DEF ThisRun
<1>3. IsFiniteSet(table')
  BY <1>1, FS_AddElement DEF ReadingRight
<1>4. ReaderTypeOK'
  <2>1. chunk \in Seq(table') /\ published \in Seq(table')
    BY <1>1, SeqGrows DEF ReadingRight, ReaderTypeOK
  <2>2. behind' \in SUBSET table' /\ table' \in SUBSET Rows
    BY <1>1 DEF ReadingRight, ReaderTypeOK
  <2>3. cursor' \in {start'} \cup {Key[s] : s \in table'}
    BY <1>1 DEF ReadingRight, ReaderTypeOK
  <2> QED
    BY <1>1, <2>1, <2>2, <2>3 DEF ReadingRight, ReaderTypeOK
<1>5. InOrder' /\ NothingAhead'
  BY <1>1, <1>2 DEF ReadingRight, InOrder, NothingAhead
<1>6. NonePassedOver'
  <2> SUFFICES ASSUME NEW s \in table' \ behind', Country[s] = ReadCountry,
                      start < Key[s], Key[s] <= cursor
               PROVE  \E i \in DOMAIN ThisRun : ThisRun[i] = s
    BY <1>1, <1>2 DEF NonePassedOver
  <2>1. s \in table \ behind
    BY <1>1
  <2> QED
    BY <2>1 DEF ReadingRight, NonePassedOver
<1> QED
  BY <1>3, <1>4, <1>5, <1>6 DEF ReadingRight

\* A query adds what comes next in the order of the table.
LEMMA ReadChunkKeeps ==
  ASSUME ReaderAssumption, ReadingRight, ReadChunk
  PROVE  ReadingRight'
<1>0. PICK from \in Begins : /\ chunk' = Listed(from)
                            /\ cursor' = LastKey(Listed(from), from)
                            /\ start' = IF cursor = 0 THEN from ELSE start
  BY DEF ReadChunk
<1> DEFINE run == ThisRun
           rows == Listed(from)
           end == LastKey(rows, from)
           m == Len(run)
           n == Len(rows)
<1>1. /\ chunk = <<>> /\ chunk' = rows /\ cursor' = end
      /\ UNCHANGED <<table, running, published, restarts, begun, behind>>
  BY <1>0 DEF ReadChunk
<1>2. /\ table \in SUBSET Rows /\ IsFiniteSet(table) /\ from \in Nat
      /\ cursor \in Nat /\ cursor <= from /\ start' \in {0} \cup Starts
      /\ from \in {start'} \cup {Key[s] : s \in table}
      /\ cursor = 0 => start' = from
      /\ cursor # 0 => from = cursor /\ start' = start
      /\ \A s \in table : Key[s] \in Nat
  <2>1. /\ table \in SUBSET Rows /\ IsFiniteSet(table) /\ cursor \in {start} \cup {Key[s] : s \in table}
        /\ start \in {0} \cup Starts /\ Starts \in SUBSET Nat /\ \A s \in table : Key[s] \in Nat
    BY DEF ReadingRight, ReaderTypeOK, ReaderAssumption
  <2>2. CASE cursor = 0
    <3>1. from \in Starts /\ start' = from
      BY <1>0, <2>2 DEF Begins
    <3> QED
      BY <2>1, <2>2, <3>1
  <2>3. CASE cursor # 0
    <3>1. from = cursor /\ start' = start
      BY <1>0, <2>3 DEF Begins
    <3> QED
      BY <2>1, <2>3, <3>1
  <2> QED
    BY <2>2, <2>3
<1>3. /\ rows \in Seq(table) /\ n <= Limit /\ n \in Nat /\ DOMAIN rows = 1 .. n
      /\ \A i \in 1 .. n : rows[i] \in Asked(from)
      /\ \A i, j \in 1 .. n : i < j => Key[rows[i]] < Key[rows[j]]
      /\ \A s \in Asked(from), i \in 1 .. n :
           Key[s] <= Key[rows[i]] => \E j \in 1 .. n : rows[j] = s
  BY <1>2, ListedRows
<1>4. /\ run = RunOf(published, begun, <<>>)
      /\ run \in Seq(table) /\ m \in Nat /\ DOMAIN run = 1 .. m
  BY <1>1, RunRows DEF ReadingRight
<1>5. /\ \A i, j \in 1 .. m : i < j => Key[run[i]] < Key[run[j]]
      /\ \A i \in 1 .. m : Key[run[i]] <= from
      /\ \A s \in table \ behind :
           Country[s] = ReadCountry /\ start' < Key[s] /\ Key[s] <= from =>
             \E i \in 1 .. m : run[i] = s
  <2>1. /\ \A i, j \in 1 .. m : i < j => Key[run[i]] < Key[run[j]]
        /\ \A i \in 1 .. m : Key[run[i]] <= cursor
        /\ \A s \in table \ behind :
             Country[s] = ReadCountry /\ start < Key[s] /\ Key[s] <= cursor =>
               \E i \in 1 .. m : run[i] = s
    BY <1>4 DEF ReadingRight, InOrder, NothingAhead, NonePassedOver
  <2>2. \A i \in 1 .. m : Key[run[i]] \in Nat
    BY <1>2, <1>4
  <2> HIDE DEF run, m
  <2>3. \A i \in 1 .. m : Key[run[i]] <= from
    BY <1>2, <2>1, <2>2
  <2>4. ASSUME NEW s \in table \ behind, Country[s] = ReadCountry, start' < Key[s], Key[s] <= from
        PROVE  \E i \in 1 .. m : run[i] = s
    <3>1. cursor # 0
      BY <1>2, <2>4
    <3> QED
      BY <1>2, <2>1, <2>4, <3>1
  <2> QED
    BY <2>1, <2>3, <2>4
<1>6. ThisRun' = run \o rows
  <2>1. ThisRun' = RunOf(published, begun, rows)
    BY <1>1 DEF ThisRun, RunOf
  <2>2. SubSeq(published, begun + 1, Len(published)) \in Seq(table)
    BY RunTyped DEF ReadingRight, ReaderTypeOK
  <2>3. run = SubSeq(published, begun + 1, Len(published))
    BY <1>4, <2>2, ConcatEmptySeq DEF RunOf
  <2> QED
    BY <2>1, <2>3 DEF RunOf
<1>7. \A s \in Asked(from) : s \in table /\ Country[s] = ReadCountry /\ Key[s] > from
  BY DEF Asked, AfterCursor
<1>8. \A s \in table : Country[s] = ReadCountry /\ ~ (Key[s] <= from) => s \in Asked(from)
  BY <1>2 DEF Asked, AfterCursor
<1>9. /\ n = 0 => end = from
      /\ n > 0 => end = Key[rows[n]]
  BY <1>3, EmptySeq DEF LastKey, Last
<1> HIDE DEF run, rows, end, m, n
<1>10. /\ end \in Nat /\ from <= end
       /\ \A i \in 1 .. n : Key[rows[i]] <= end
  <2>1. CASE n = 0
    BY <1>2, <1>9, <2>1
  <2>2. CASE n > 0
    <3>1. n \in 1 .. n /\ rows[n] \in Asked(from)
      BY <1>3, <2>2
    <3>2. end \in Nat /\ from <= end
      BY <1>2, <1>7, <1>9, <2>2, <3>1
    <3>3. ASSUME NEW i \in 1 .. n PROVE Key[rows[i]] <= end
      <4>1. i = n \/ i < n
        BY <1>3
      <4>2. Key[rows[i]] \in Nat
        BY <1>2, <1>3, <1>7
      <4> QED
        BY <1>3, <1>9, <2>2, <3>1, <3>2, <4>1, <4>2
    <3> QED
      BY <3>2, <3>3
  <2> QED
    BY <1>3, <2>1, <2>2
<1>11. /\ run \o rows \in Seq(table) /\ Len(run \o rows) = m + n
       /\ DOMAIN (run \o rows) = 1 .. m + n
       /\ \A i \in 1 .. m + n : (run \o rows)[i] = IF i <= m THEN run[i] ELSE rows[i - m]
  BY <1>3, <1>4, ConcatProperties DEF m, n
<1>12. \A i \in 1 .. m + n : i <= m => i \in 1 .. m
  BY <1>3, <1>4
<1>13. \A i \in 1 .. m + n : ~ (i <= m) => i - m \in 1 .. n
  BY <1>3, <1>4
<1>14. \A i \in 1 .. m : run[i] \in table /\ Key[run[i]] \in Nat
  BY <1>2, <1>4 DEF m
<1>15. \A i \in 1 .. n : Key[rows[i]] \in Nat /\ Key[rows[i]] > from
  BY <1>2, <1>3, <1>7
<1>16. ASSUME NEW i \in 1 .. m + n, NEW j \in 1 .. m + n, i < j
       PROVE  Key[(run \o rows)[i]] < Key[(run \o rows)[j]]
  <2>1. CASE j <= m
    <3>1. i <= m
      BY <1>4, <1>16, <2>1
    <3> QED
      BY <1>5, <1>11, <1>12, <1>16, <2>1, <3>1
  <2>2. CASE i <= m /\ ~ (j <= m)
    <3>1. Key[run[i]] <= from /\ Key[rows[j - m]] > from
      BY <1>5, <1>12, <1>13, <1>15, <2>2
    <3>2. Key[run[i]] \in Nat /\ Key[rows[j - m]] \in Nat
      BY <1>12, <1>13, <1>14, <1>15, <2>2
    <3>3. Key[run[i]] < Key[rows[j - m]]
      BY <1>2, <3>1, <3>2
    <3> QED
      BY <1>11, <2>2, <3>3
  <2>3. CASE ~ (i <= m) /\ ~ (j <= m)
    <3>1. i - m \in 1 .. n /\ j - m \in 1 .. n /\ i - m < j - m
      BY <1>4, <1>13, <1>16, <2>3
    <3>2. Key[rows[i - m]] < Key[rows[j - m]]
      BY <1>3, <3>1
    <3> QED
      BY <1>11, <2>3, <3>2
  <2>4. j <= m \/ (i <= m /\ ~ (j <= m)) \/ (~ (i <= m) /\ ~ (j <= m))
    OBVIOUS
  <2> QED
    BY <2>1, <2>2, <2>3, <2>4
<1>17. ASSUME NEW i \in 1 .. m + n
       PROVE  Key[(run \o rows)[i]] <= end
  <2>1. CASE i <= m
    <3>1. Key[run[i]] <= from /\ Key[run[i]] \in Nat
      BY <1>5, <1>12, <1>14, <2>1
    <3>2. Key[run[i]] <= end
      BY <1>2, <1>10, <3>1
    <3> QED
      BY <1>11, <2>1, <3>2
  <2>2. CASE ~ (i <= m)
    BY <1>10, <1>11, <1>13, <2>2
  <2> QED
    BY <2>1, <2>2
<1>18. ASSUME NEW s \in table \ behind, Country[s] = ReadCountry, start' < Key[s], Key[s] <= end
       PROVE  \E i \in 1 .. m + n : (run \o rows)[i] = s
  <2>1. CASE Key[s] <= from
    <3>1. PICK i \in 1 .. m : run[i] = s
      BY <1>5, <1>18, <2>1
    <3>2. i \in 1 .. m + n /\ i <= m
      BY <1>3, <1>4
    <3> QED
      BY <1>11, <3>1, <3>2
  <2>2. CASE ~ (Key[s] <= from)
    <3>1. s \in Asked(from)
      BY <1>8, <1>18, <2>2
    <3>2. n > 0
      <4>1. n # 0
        BY <1>9, <1>18, <2>2
      <4> QED
        BY <1>3, <4>1
    <3>3. n \in 1 .. n /\ Key[s] <= Key[rows[n]]
      BY <1>3, <1>9, <1>18, <3>2
    <3>4. PICK j \in 1 .. n : rows[j] = s
      BY <1>3, <3>1, <3>3
    <3>5. m + j \in 1 .. m + n /\ ~ (m + j <= m) /\ (m + j) - m = j
      BY <1>3, <1>4
    <3> QED
      BY <1>11, <3>4, <3>5
  <2> QED
    BY <2>1, <2>2
<1>19. InOrder' /\ NothingAhead' /\ NonePassedOver'
  <2>1. InOrder'
    BY <1>6, <1>11, <1>16 DEF InOrder
  <2>2. NothingAhead'
    BY <1>1, <1>6, <1>11, <1>17 DEF NothingAhead
  <2>3. NonePassedOver'
    BY <1>1, <1>6, <1>11, <1>18 DEF NonePassedOver
  <2> QED
    BY <2>1, <2>2, <2>3
<1>20. ReaderTypeOK'
  <2>1. end \in {start'} \cup {Key[s] : s \in table}
    <3>1. CASE n = 0
      BY <1>2, <1>9, <3>1
    <3>2. CASE n > 0
      <4>1. n \in 1 .. n
        BY <1>3, <3>2
      <4>2. rows[n] \in table
        BY <1>3, <1>7, <4>1
      <4> QED
        BY <1>9, <3>2, <4>2
    <3> QED
      BY <1>3, <3>1, <3>2
  <2>2. chunk' \in Seq(table') /\ Len(chunk') <= Limit
    BY <1>1, <1>3 DEF n
  <2> QED
    BY <1>1, <1>2, <2>1, <2>2 DEF ReadingRight, ReaderTypeOK
<1> QED
  BY <1>1, <1>2, <1>19, <1>20 DEF ReadingRight

\* The next row goes to the exchange.
LEMMA PublishNextKeeps ==
  ASSUME ReadingRight, PublishNext
  PROVE  ReadingRight'
<1>1. /\ chunk # <<>> /\ published' = Append(published, Head(chunk)) /\ chunk' = Tail(chunk)
      /\ UNCHANGED <<table, cursor, running, restarts, begun, start, behind>>
  BY DEF PublishNext
<1>2. /\ published \in Seq(table) /\ chunk \in Seq(table) /\ begun \in 0 .. Len(published)
      /\ Len(chunk) <= Limit
  BY DEF ReadingRight, ReaderTypeOK
<1>3. /\ Head(chunk) \in table /\ Tail(chunk) \in Seq(table) /\ Len(Tail(chunk)) = Len(chunk) - 1
  BY <1>1, <1>2, HeadTailProperties
<1>4. ThisRun' = ThisRun
  <2>1. ThisRun' = RunOf(Append(published, Head(chunk)), begun, Tail(chunk))
    BY <1>1 DEF ThisRun, RunOf
  <2>2. ThisRun = RunOf(published, begun, chunk)
    BY DEF ThisRun, RunOf
  <2> QED
    BY <1>1, <1>2, <2>1, <2>2, RunStays
<1>5. ReaderTypeOK'
  <2>1. /\ published' \in Seq(table) /\ Len(published') = Len(published) + 1
    BY <1>1, <1>2, <1>3
  <2>2. begun \in 0 .. Len(published')
    BY <1>2, <2>1
  <2>3. Len(chunk') <= Limit
    <3>1. Limit \in Nat /\ Len(chunk) \in Nat
      BY <1>2, ReaderAssumption DEF ReaderAssumption
    <3> QED
      BY <1>1, <1>2, <1>3, <3>1
  <2> QED
    BY <1>1, <1>3, <2>1, <2>2, <2>3 DEF ReadingRight, ReaderTypeOK
<1> QED
  BY <1>1, <1>4, <1>5, SameRun DEF ReadingRight

\* A new process has published nothing yet, and nothing is before its cursor.
LEMMA RestartKeeps ==
  ASSUME ReaderAssumption, ReadingRight, Restart
  PROVE  ReadingRight'
<1>1. /\ restarts < MaxRestarts /\ restarts' = restarts + 1 /\ running' = TRUE
      /\ cursor' = 0 /\ chunk' = <<>> /\ begun' = Len(published) /\ start' = 0 /\ behind' = {}
      /\ UNCHANGED <<table, published>>
  BY DEF Restart
<1>2. published \in Seq(table) /\ Len(published) \in Nat
  BY DEF ReadingRight, ReaderTypeOK
<1>3. ReaderTypeOK'
  <2>1. chunk' \in Seq(table) /\ Len(chunk') = 0
    BY <1>1
  <2>2. begun' \in 0 .. Len(published) /\ 0 <= Limit
    BY <1>1, <1>2 DEF ReaderAssumption
  <2>3. restarts' \in 0 .. MaxRestarts
    BY <1>1 DEF ReadingRight, ReaderTypeOK, ReaderAssumption
  <2> QED
    BY <1>1, <2>1, <2>2, <2>3 DEF ReadingRight, ReaderTypeOK
<1>4. ThisRun' = <<>>
  <2>1. ThisRun' = SubSeq(published, Len(published) + 1, Len(published)) \o <<>>
    BY <1>1 DEF ThisRun
  <2>2. SubSeq(published, Len(published) + 1, Len(published)) = <<>>
    BY <1>2, SubSeqEmpty
  <2> QED
    BY <2>1, <2>2
<1>5. InOrder' /\ NothingAhead'
  BY <1>4 DEF InOrder, NothingAhead
<1>6. NonePassedOver'
  <2>1. \A s \in table : Key[s] \in Nat \ {0}
    BY DEF ReadingRight, ReaderTypeOK, ReaderAssumption
  <2>2. \A s \in table : ~ (Key[s] <= 0)
    BY <2>1
  <2> QED
    BY <1>1, <2>2 DEF NonePassedOver
<1> QED
  BY <1>1, <1>3, <1>5, <1>6 DEF ReadingRight

\* Every step keeps it.
LEMMA ReaderNextKeeps ==
  ASSUME ReaderAssumption, ReadingRight, [ReaderNext]_readerVars
  PROVE  ReadingRight'
<1>1. CASE LoopEnds \/ UNCHANGED readerVars
  <2>1. /\ running' \in BOOLEAN
        /\ UNCHANGED <<table, cursor, chunk, published, restarts, begun, start, behind>>
    BY <1>1 DEF LoopEnds, readerVars, ReadingRight, ReaderTypeOK
  <2>2. ThisRun' = ThisRun
    BY <2>1 DEF ThisRun
  <2> QED
    BY <2>1, <2>2, SameRun DEF ReadingRight, ReaderTypeOK
<1>2. ASSUME NEW r \in Rows, Insert(r)
      PROVE  ReadingRight'
  BY <1>2, InsertKeeps
<1> QED
  BY <1>1, <1>2, ReadChunkKeeps, PublishNextKeeps, RestartKeeps DEF ReaderNext, ReaderStep

\* At first there are no rows.
LEMMA ReaderInitKeeps ==
  ASSUME ReaderAssumption, ReaderInit
  PROVE  ReadingRight
<1>1. /\ table = {} /\ cursor = 0 /\ chunk = <<>> /\ running = TRUE
      /\ published = <<>> /\ restarts = 0 /\ begun = 0 /\ start = 0 /\ behind = {}
  BY DEF ReaderInit
<1>2. ThisRun = <<>>
  <2>1. SubSeq(published, begun + 1, Len(published)) = <<>>
    BY <1>1, SubSeqEmpty
  <2> QED
    BY <1>1, <2>1 DEF ThisRun
<1>3. ReaderTypeOK
  <2>1. <<>> \in Seq(table) /\ Len(chunk) = 0 /\ Len(published) = 0
    BY <1>1
  <2>2. begun \in 0 .. Len(published) /\ Len(chunk) <= Limit /\ restarts \in 0 .. MaxRestarts
    BY <1>1, <2>1 DEF ReaderAssumption
  <2> QED
    BY <1>1, <2>1, <2>2 DEF ReaderTypeOK
<1>4. InOrder /\ NothingAhead
  BY <1>2 DEF InOrder, NothingAhead
<1>5. NonePassedOver
  BY <1>1 DEF NonePassedOver
<1>6. IsFiniteSet(table)
  BY <1>1, FS_EmptySet
<1> QED
  BY <1>3, <1>4, <1>5, <1>6 DEF ReadingRight

-----------------------------------------------------------------------------
\* The invariant holds in every reachable state.
LEMMA ReadingIsRight == ReaderSpec => []ReadingRight
<1>1. ReaderInit => ReadingRight
  BY ReaderInitKeeps, ReaderAssumption
<1>2. ReadingRight /\ [ReaderNext]_readerVars => ReadingRight'
  BY ReaderNextKeeps, ReaderAssumption
<1> QED
  BY <1>1, <1>2, PTL DEF ReaderSpec

\* Every variable of the reader has its type in every reachable state: the cursor
\* is null, or where the run began, or at a row of the table, and a chunk never
\* exceeds the query's limit.
THEOREM ReaderTypeCorrect == ReaderSpec => []ReaderTypeOK
<1>1. ReadingRight => ReaderTypeOK
  BY DEF ReadingRight
<1> QED
  BY <1>1, ReadingIsRight, PTL

\* A run of the reader publishes each row at most once and in the order of the
\* table, and passes over none of the rows of its country after the place where it
\* began, 1000 days before its first query, that were in the table when the cursor
\* went by, in whatever order they are inserted and however many there are
\* (TransferRequestReader.processChunk, listTransferRequests).
THEOREM RowsAlwaysInOrder == ReaderSpec => []RowsInOrder
<1>1. ReadingRight => RowsInOrder
  BY DEF ReadingRight, RowsInOrder
<1> QED
  BY <1>1, ReadingIsRight, PTL

-----------------------------------------------------------------------------
(***************************************************************************)
(* The sender.                                                             *)
(***************************************************************************)
\* The messages of a thread that were answered 200.
Accepted(t) == {p \in Posts : p[1] = t /\ answer[p] = 200}

\* The types that the argument needs.
Typed ==
  /\ turn \in [Threads -> 0..messagesToSend]
  /\ waiting \subseteq {t \in Threads : turn[t] > 0}
  /\ success \in [Threads -> Nat]
  /\ finished \in BOOLEAN
  /\ stored \subseteq Posts /\ forwarded \subseteq stored
  /\ answer \in [Posts -> {0} \cup Service!Statuses]

\* Answers are true, and those to messages that were not sent, or that a thread
\* waits for, are yet to come.
AnswersAgree ==
  /\ \A p \in Posts : answer[p] = 200 => p \in stored \cap forwarded
  /\ \A p \in Posts :
       \/ p[2] > turn[p[1]]
       \/ p[2] = turn[p[1]] /\ p[1] \in waiting
       => answer[p] = 0

\* A thread has counted each answer 200 once.
CountersAgree == \A t \in Threads : success[t] = Cardinality(Accepted(t))

AnswersRight == Typed /\ AnswersAgree /\ CountersAgree

-----------------------------------------------------------------------------
\* There are finitely many messages.
LEMMA PostsFinite == IsFiniteSet(Posts)
<1>1. IsFiniteSet(Threads) /\ messagesToSend \in Nat
  BY SenderAssumption
<1>2. IsFiniteSet(1..messagesToSend)
  BY <1>1, FS_Interval
<1> QED
  BY <1>1, <1>2, FS_Product DEF Posts

\* The message of a thread that waits.
LEMMA MessageInPosts ==
  ASSUME Typed, NEW t \in waiting
  PROVE  /\ t \in Threads /\ turn[t] \in 1..messagesToSend
         /\ Message(t) \in Posts
         /\ Message(t)[1] = t /\ Message(t)[2] = turn[t]
<1>1. /\ t \in Threads /\ turn[t] \in 0..messagesToSend /\ turn[t] > 0
      /\ messagesToSend \in Nat
  BY SenderAssumption DEF Typed
<1>2. turn[t] \in 1..messagesToSend
  BY <1>1
<1> QED
  BY <1>1, <1>2 DEF Message, Posts

\* At first nothing was sent, answered or counted.
LEMMA SenderInitAgrees == SenderInit => AnswersRight
<1> SUFFICES ASSUME SenderInit PROVE AnswersRight
  OBVIOUS
<1>1. answer = [p \in Posts |-> 0] /\ stored = {} /\ forwarded = {}
  BY DEF SenderInit, Service!Init
<1>2. Typed
  <2>1. /\ turn = [t \in Threads |-> 0] /\ success = [t \in Threads |-> 0]
        /\ waiting = {} /\ finished = FALSE /\ messagesToSend \in Nat
    BY SenderAssumption DEF SenderInit
  <2>2. turn \in [Threads -> 0..messagesToSend] /\ success \in [Threads -> Nat]
    BY <2>1
  <2>3. answer \in [Posts -> {0} \cup Service!Statuses]
    BY <1>1
  <2> QED
    BY <1>1, <2>1, <2>2, <2>3 DEF Typed
<1>3. AnswersAgree
  BY <1>1 DEF AnswersAgree
<1>4. \A t \in Threads : Accepted(t) = {}
  BY <1>1 DEF Accepted
<1>5. CountersAgree
  BY <1>4, FS_EmptySet DEF CountersAgree, SenderInit
<1> QED
  BY <1>2, <1>3, <1>5 DEF AnswersRight

\* A step that gives no answer leaves the counters right.
LEMMA NothingCounted ==
  ASSUME CountersAgree, UNCHANGED <<success, answer>>
  PROVE  CountersAgree'
<1>1. \A t \in Threads : Accepted(t)' = Accepted(t)
  BY DEF Accepted
<1> QED
  BY <1>1 DEF CountersAgree

\* Sending the next message.
LEMMA SendAgrees ==
  ASSUME AnswersRight, NEW t \in Threads, Send(t)
  PROVE  AnswersRight'
<1>1. /\ Typed /\ AnswersAgree /\ CountersAgree /\ messagesToSend \in Nat
      /\ UNCHANGED <<success, finished, stored, forwarded, answer>>
  BY SenderAssumption DEF AnswersRight, Send, serviceVars
<1>2. /\ turn[t] \in 0..messagesToSend /\ turn[t] < messagesToSend
      /\ turn' = [turn EXCEPT ![t] = turn[t] + 1]
      /\ waiting' = waiting \cup {t} /\ t \notin waiting
  BY <1>1 DEF Typed, Send, MoreToSend
<1>3. Typed'
  BY <1>1, <1>2 DEF Typed
<1>4. AnswersAgree'
  <2>1. ASSUME NEW p \in Posts,
               \/ p[2] > turn'[p[1]]
               \/ p[2] = turn'[p[1]] /\ p[1] \in waiting'
        PROVE  answer[p] = 0
    <3>1. p[1] \in Threads /\ p[2] \in 1..messagesToSend
      BY DEF Posts
    <3>2. turn[p[1]] \in Nat /\ turn \in [Threads -> 0..messagesToSend]
      BY <1>1, <3>1 DEF Typed
    <3>3. CASE p[1] = t
      <4>1. turn'[p[1]] = turn[p[1]] + 1
        BY <1>2, <3>1, <3>2, <3>3
      <4>2. p[2] > turn[p[1]]
        BY <2>1, <3>1, <3>2, <4>1
      <4> QED
        BY <1>1, <4>2 DEF AnswersAgree
    <3>4. CASE p[1] # t
      BY <1>1, <1>2, <2>1, <3>1, <3>2, <3>4 DEF AnswersAgree
    <3> QED
      BY <3>3, <3>4
  <2> QED
    BY <1>1, <2>1 DEF AnswersAgree
<1>5. CountersAgree'
  BY <1>1, NothingCounted
<1> QED
  BY <1>3, <1>4, <1>5 DEF AnswersRight

\* An answer arrives and is counted, for the first and only time.
LEMMA ReceiveAgrees ==
  ASSUME AnswersRight, NEW t \in Threads, NEW status \in Service!Statuses,
         ReceiveAnswer(t, status)
  PROVE  AnswersRight'
<1> DEFINE m == Message(t)
<1>1. /\ Typed /\ AnswersAgree /\ CountersAgree
      /\ UNCHANGED <<turn, finished, stored, forwarded>>
      /\ t \in waiting /\ waiting' = waiting \ {t}
      /\ Service!Truthful(m, status)
      /\ answer' = [answer EXCEPT ![m] = status]
      /\ success' = [success EXCEPT ![t] = success[t] + Counted(status)]
  BY DEF AnswersRight, ReceiveAnswer
<1>2. /\ m \in Posts /\ m[1] = t /\ m[2] = turn[t] /\ turn[t] \in 1..messagesToSend
  BY <1>1, MessageInPosts
<1>3. Counted(status) \in {0, 1} /\ status \in {200, 400, 500}
  BY DEF Counted, Service!Statuses
<1> HIDE DEF m
<1>4. Typed'
  <2>1. success[t] + Counted(status) \in Nat
    BY <1>1, <1>3 DEF Typed
  <2>2. success' \in [Threads -> Nat]
    BY <1>1, <2>1 DEF Typed
  <2>3. answer' \in [Posts -> {0} \cup Service!Statuses]
    BY <1>1, <1>2 DEF Typed
  <2> QED
    BY <1>1, <2>2, <2>3 DEF Typed
<1>5. \A p \in Posts : answer'[p] = IF p = m THEN status ELSE answer[p]
  BY <1>1, <1>2 DEF Typed
<1>6. \A p \in Posts : p[1] = t /\ p[2] = turn[t] => p = m
  BY <1>2 DEF Posts
<1>7. AnswersAgree'
  <2>1. ASSUME NEW p \in Posts, answer'[p] = 200
        PROVE  p \in stored' \cap forwarded'
    BY <1>1, <1>5, <2>1 DEF AnswersAgree, Service!Truthful
  <2>2. ASSUME NEW p \in Posts,
               \/ p[2] > turn'[p[1]]
               \/ p[2] = turn'[p[1]] /\ p[1] \in waiting'
        PROVE  answer'[p] = 0
    <3>1. p # m
      BY <1>1, <1>2, <2>2
    <3> QED
      BY <1>1, <1>5, <2>2, <3>1 DEF AnswersAgree
  <2> QED
    BY <2>1, <2>2 DEF AnswersAgree
<1>8. answer[m] = 0
  BY <1>1, <1>2 DEF AnswersAgree
<1>9. ASSUME NEW u \in Threads
      PROVE  success'[u] = Cardinality(Accepted(u)')
  <2>1. Accepted(u)' = {p \in Posts : p[1] = u /\ answer'[p] = 200}
    BY DEF Accepted
  <2>2. CASE u = t /\ status = 200
    <3>1. Accepted(u)' = Accepted(u) \cup {m}
      BY <1>2, <1>5, <2>1, <2>2 DEF Accepted
    <3>2. m \notin Accepted(u) /\ Accepted(u) \subseteq Posts
      BY <1>8 DEF Accepted
    <3>3. IsFiniteSet(Accepted(u))
      BY <3>2, PostsFinite, FS_Subset
    <3>4. Cardinality(Accepted(u)') = Cardinality(Accepted(u)) + 1
      BY <3>1, <3>2, <3>3, FS_AddElement
    <3>5. success'[u] = success[u] + 1
      BY <1>1, <2>2 DEF Typed, Counted
    <3> QED
      BY <1>1, <3>4, <3>5 DEF CountersAgree
  <2>3. CASE u # t \/ status # 200
    <3>1. Accepted(u)' = Accepted(u)
      BY <1>2, <1>5, <1>8, <2>1, <2>3 DEF Accepted
    <3>2. success'[u] = success[u]
      BY <1>1, <2>3 DEF Typed, Counted
    <3> QED
      BY <1>1, <3>1, <3>2 DEF CountersAgree
  <2> QED
    BY <2>2, <2>3
<1> QED
  BY <1>4, <1>7, <1>9 DEF AnswersRight, CountersAgree

\* A connection fails: the message stays without an answer.
LEMMA FailsAgrees ==
  ASSUME AnswersRight, NEW t \in Threads, ConnectionFails(t)
  PROVE  AnswersRight'
<1>1. /\ Typed /\ AnswersAgree /\ CountersAgree
      /\ UNCHANGED <<success, finished, stored, forwarded, answer>>
      /\ waiting' = waiting \ {t} /\ turn' = [turn EXCEPT ![t] = turn[t]]
  BY DEF AnswersRight, ConnectionFails, serviceVars, AfterFailure
<1>2. turn' = turn
  BY <1>1 DEF Typed
<1>3. Typed' /\ AnswersAgree'
  BY <1>1, <1>2 DEF Typed, AnswersAgree
<1> QED
  BY <1>1, <1>3, NothingCounted DEF AnswersRight

\* The receiver goes on with a message.
LEMMA HandleAgrees ==
  ASSUME AnswersRight, NEW p \in Posts, Handle(p)
  PROVE  AnswersRight'
<1>1. /\ Typed /\ AnswersAgree /\ CountersAgree
      /\ UNCHANGED <<turn, waiting, success, finished>>
      /\ Service!Store(p) \/ Service!Forward(p)
  BY DEF AnswersRight, Handle, clientVars
<1>2. /\ UNCHANGED answer
      /\ \/ stored' = stored \cup {p} /\ forwarded' = forwarded
         \/ forwarded' = forwarded \cup {p} /\ stored' = stored /\ p \in stored
  BY <1>1 DEF Service!Store, Service!Forward
<1>3. Typed' /\ AnswersAgree'
  BY <1>1, <1>2 DEF Typed, AnswersAgree
<1> QED
  BY <1>1, <1>2, <1>3, NothingCounted DEF AnswersRight

\* Every step keeps the invariant.
LEMMA SenderNextAgrees ==
  ASSUME AnswersRight, [SenderNext]_senderVars
  PROVE  AnswersRight'
<1>1. CASE UNCHANGED senderVars \/ Finish
  <2>1. /\ UNCHANGED <<turn, waiting, success, stored, forwarded, answer>>
        /\ finished' \in BOOLEAN
    BY <1>1 DEF senderVars, clientVars, serviceVars, Finish, AnswersRight, Typed
  <2>2. Typed' /\ AnswersAgree'
    BY <2>1 DEF AnswersRight, Typed, AnswersAgree
  <2> QED
    BY <2>1, <2>2, NothingCounted DEF AnswersRight
<1>2. ASSUME NEW t \in Threads, Send(t) \/ Return(t)
      PROVE  AnswersRight'
  BY <1>2, SendAgrees, ReceiveAgrees, FailsAgrees DEF Return
<1> QED
  BY <1>1, <1>2, HandleAgrees DEF SenderNext

\* The inductive invariant of the sender: every answer 200 is true and was
\* counted once (MessageSenderThread.run, sendMessage).
THEOREM AnswersAlwaysAgree == SenderSpec => []AnswersRight
<1> QED
  BY SenderInitAgrees, SenderNextAgrees, PTL DEF SenderSpec

\* A thread never claims more successes than there are messages of its own that
\* were stored and forwarded, whichever connections fail.
THEOREM SuccessesAlwaysForwarded == SenderSpec => []SuccessesWereForwarded
<1>1. AnswersRight => SuccessesWereForwarded
  <2> SUFFICES ASSUME AnswersRight, NEW t \in Threads
               PROVE  success[t] <=
                        Cardinality({p \in stored \cap forwarded : p[1] = t})
    BY DEF SuccessesWereForwarded
  <2> DEFINE kept == {p \in stored \cap forwarded : p[1] = t}
  <2>1. Accepted(t) \subseteq kept /\ kept \subseteq Posts
    BY DEF Accepted, AnswersRight, AnswersAgree, Typed
  <2>2. IsFiniteSet(kept)
    BY <2>1, PostsFinite, FS_Subset
  <2>3. Cardinality(Accepted(t)) <= Cardinality(kept)
    BY <2>1, <2>2, FS_Subset
  <2> QED
    BY <2>3 DEF AnswersRight, CountersAgree
<1> QED
  BY <1>1, AnswersAlwaysAgree, PTL

\* The sender's variables have their types; no thread counts more successes than
\* it has messages to send.
THEOREM SenderTypeCorrect == SenderSpec => []SenderTypeOK
<1>1. AnswersRight => SenderTypeOK
  <2> SUFFICES ASSUME AnswersRight PROVE SenderTypeOK
    OBVIOUS
  <2>1. ASSUME NEW t \in Threads
        PROVE  success[t] \in 0..messagesToSend
    <3> DEFINE own == {t} \X (1..messagesToSend)
    <3>1. messagesToSend \in Nat /\ success[t] \in Nat
      BY SenderAssumption DEF AnswersRight, Typed
    <3>2. /\ IsFiniteSet({t}) /\ Cardinality({t}) = 1
          /\ IsFiniteSet(1..messagesToSend)
          /\ Cardinality(1..messagesToSend) = messagesToSend
      <4>1. IsFiniteSet({t}) /\ Cardinality({t}) = 1
        BY FS_Singleton
      <4>2. /\ IsFiniteSet(1..messagesToSend)
            /\ Cardinality(1..messagesToSend)
                 = IF 1 > messagesToSend THEN 0 ELSE messagesToSend - 1 + 1
        BY <3>1, FS_Interval
      <4> QED
        BY <3>1, <4>1, <4>2
    <3>3. IsFiniteSet(own) /\ Cardinality(own) = messagesToSend
      <4>1. /\ IsFiniteSet(own)
            /\ Cardinality(own) = Cardinality({t}) * Cardinality(1..messagesToSend)
        BY <3>2, FS_Product, Zenon
      <4>2. Cardinality(own) = 1 * messagesToSend
        BY <3>2, <4>1, Zenon
      <4> HIDE DEF own
      <4> QED
        BY <3>1, <4>1, <4>2
    <3>4. Accepted(t) \subseteq own
      BY DEF Accepted, Posts
    <3>5. Cardinality(Accepted(t)) <= Cardinality(own)
      BY <3>3, <3>4, FS_Subset
    <3> QED
      BY <3>1, <3>3, <3>5 DEF AnswersRight, CountersAgree
  <2>2. success \in [Threads -> 0..messagesToSend]
    BY <2>1 DEF AnswersRight, Typed
  <2> QED
    BY <2>2 DEF AnswersRight, Typed, SenderTypeOK
<1> QED
  BY <1>1, AnswersAlwaysAgree, PTL

-----------------------------------------------------------------------------
(***************************************************************************)
(* The places of a value in a sequence, and how many there are.            *)
(***************************************************************************)
\* The places of a value in a sequence.
Places(seq, x) == {i \in DOMAIN seq : seq[i] = x}

\* They can be counted.
LEMMA PlacesFinite ==
  ASSUME NEW S, NEW seq \in Seq(S), NEW x
  PROVE  IsFiniteSet(Places(seq, x)) /\ Cardinality(Places(seq, x)) \in Nat
<1>1. IsFiniteSet(1..Len(seq))
  BY FS_Interval
<1>2. Places(seq, x) \in SUBSET (1..Len(seq))
  BY DEF Places
<1> QED
  BY <1>1, <1>2, FS_Subset, FS_CardinalityType

\* A value more at the end.
LEMMA PlacesAppend ==
  ASSUME NEW S, NEW seq \in Seq(S), NEW m \in S, NEW x
  PROVE  Cardinality(Places(Append(seq, m), x))
           = Cardinality(Places(seq, x)) + (IF m = x THEN 1 ELSE 0)
<1>1. IsFiniteSet(Places(seq, x)) /\ Cardinality(Places(seq, x)) \in Nat
  BY PlacesFinite
<1>2. CASE m = x
  <2>1. Places(Append(seq, m), x) = Places(seq, x) \cup {Len(seq) + 1}
    BY <1>2 DEF Places
  <2>2. Len(seq) + 1 \notin Places(seq, x)
    BY DEF Places
  <2> QED
    BY <1>1, <1>2, <2>1, <2>2, FS_AddElement
<1>3. CASE m # x
  <2>1. Places(Append(seq, m), x) = Places(seq, x)
    BY <1>3 DEF Places
  <2> QED
    BY <1>1, <1>3, <2>1
<1> QED
  BY <1>2, <1>3

\* A value more at the head.
LEMMA PlacesShifted ==
  ASSUME NEW S, NEW seq \in Seq(S), NEW longer \in Seq(S), NEW x,
         Len(longer) = Len(seq) + 1,
         \A i \in 1..Len(seq) : longer[i + 1] = seq[i]
  PROVE  Cardinality(Places(longer, x))
           = Cardinality(Places(seq, x)) + (IF longer[1] = x THEN 1 ELSE 0)
<1> DEFINE here == Places(seq, x)
           there == Places(longer, x) \ {1}
           shift == [i \in here |-> i + 1]
<1>1. IsFiniteSet(here) /\ Cardinality(here) \in Nat
  BY PlacesFinite
<1>2. /\ here = {i \in 1..Len(seq) : seq[i] = x}
      /\ Places(longer, x) = {i \in 1..Len(longer) : longer[i] = x}
  BY DEF Places
<1>3. shift \in [here -> there]
  BY <1>2
<1>4. \A i, j \in here : shift[i] = shift[j] => i = j
  BY <1>2
<1>5. \A k \in there : \E i \in here : shift[i] = k
  <2> SUFFICES ASSUME NEW k \in there PROVE \E i \in here : shift[i] = k
    OBVIOUS
  <2>1. k \in 2..Len(longer) /\ longer[k] = x
    BY <1>2
  <2>2. k - 1 \in 1..Len(seq) /\ (k - 1) + 1 = k
    BY <2>1
  <2>3. k - 1 \in here
    BY <1>2, <2>1, <2>2
  <2> QED
    BY <2>2, <2>3
<1>6. 1 \in 1..Len(longer) /\ 1 \notin there
  OBVIOUS
<1>7. /\ longer[1] = x => Places(longer, x) = there \cup {1}
      /\ longer[1] # x => Places(longer, x) = there
  BY <1>2, <1>6
<1> HIDE DEF here, there, shift
<1>8. ExistsBijection(here, there)
  BY <1>3, <1>4, <1>5, Fun_IsBij, Fun_ExistsBij
<1>9. IsFiniteSet(there) /\ Cardinality(there) = Cardinality(here)
  BY <1>1, <1>8, FS_Bijection
<1>10. Cardinality(there \cup {1}) = Cardinality(there) + 1
  BY <1>6, <1>9, FS_AddElement
<1>11. Cardinality(here) = Cardinality(Places(seq, x))
  BY DEF here
<1>12. CASE longer[1] = x
  BY <1>1, <1>7, <1>9, <1>10, <1>11, <1>12
<1>13. CASE longer[1] # x
  BY <1>1, <1>7, <1>9, <1>11, <1>13
<1> QED
  BY <1>12, <1>13

\* One that is nowhere in it has a count of zero.
LEMMA PlacesNone ==
  ASSUME NEW seq, NEW x, \A i \in DOMAIN seq : seq[i] # x
  PROVE  Cardinality(Places(seq, x)) = 0
<1>1. Places(seq, x) = {}
  BY DEF Places
<1> QED
  BY <1>1, FS_EmptySet

-----------------------------------------------------------------------------
(***************************************************************************)
(* The inductive invariant.                                                *)
(***************************************************************************)
\* The dispatches of a snapshot.
Dispatches(n) == {i \in DOMAIN dispatched : dispatched[i].snapshot = n}

\* The applications whose listeners have yet to be given it.
Holders(n) == {w \in Webs : hand[w] = n /\ ~sent[w]}

\* Each snapshot was dispatched, waits or is about to be dispatched once, and once
\* more for each connection that was lost.
CountsAgree ==
  \A n \in Snapshots :
    /\ IsFiniteSet(Holders(n))
    /\ Cardinality(Dispatches(n)) + Cardinality(Places(statistics, n))
         + Cardinality(Holders(n)) <= 1 + losses

\* What a listener has returned from was dispatched.
HandsAgree ==
  \A w \in Webs : hand[w] # None /\ sent[w] =>
    \E i \in DOMAIN dispatched : dispatched[i].snapshot = hand[w]

IInv == TypeOK /\ CountsAgree /\ HandsAgree /\ NoSnapshotLost

-----------------------------------------------------------------------------
(***************************************************************************)
(* Counts.                                                                 *)
(***************************************************************************)
\* They are numbers.
LEMMA Counts ==
  ASSUME TypeOK, NEW n
  PROVE  /\ IsFiniteSet(Dispatches(n)) /\ Cardinality(Dispatches(n)) \in Nat
         /\ Cardinality(Places(statistics, n)) \in Nat
<1>1. IsFiniteSet(1..Len(dispatched))
  BY FS_Interval DEF TypeOK
<1>2. Dispatches(n) \in SUBSET (1..Len(dispatched))
  BY DEF Dispatches, TypeOK
<1>3. IsFiniteSet(Dispatches(n)) /\ Cardinality(Dispatches(n)) \in Nat
  BY <1>1, <1>2, FS_Subset, FS_CardinalityType
<1>4. statistics \in Seq(Snapshots)
  BY DEF TypeOK
<1> QED
  BY <1>3, <1>4, PlacesFinite

\* A snapshot that was not published is nowhere.
LEMMA NotPublished ==
  ASSUME TypeOK, NEW n, n \notin Snapshots, n # None
  PROVE  /\ Cardinality(Dispatches(n)) = 0
         /\ Cardinality(Places(statistics, n)) = 0
         /\ Holders(n) = {}
<1>1. statistics \in Seq(Snapshots) /\ dispatched \in Seq([snapshot : Snapshots, web : Webs])
  BY DEF TypeOK
<1>2. \A i \in DOMAIN statistics : statistics[i] # n
  BY <1>1
<1>3. \A i \in DOMAIN dispatched : dispatched[i].snapshot # n
  <2>1. \A i \in DOMAIN dispatched :
          dispatched[i] \in [snapshot : Snapshots, web : Webs]
    <3> DEFINE R == [snapshot : Snapshots, web : Webs]
    <3>1. dispatched \in Seq(R)
      BY <1>1
    <3> HIDE DEF R
    <3>2. \A i \in DOMAIN dispatched : dispatched[i] \in R
      BY <3>1
    <3> QED
      BY <3>2 DEF R
  <2> QED
    BY <2>1
<1>4. Dispatches(n) = {}
  BY <1>3 DEF Dispatches
<1>5. Holders(n) = {}
  BY DEF Holders, TypeOK
<1> QED
  BY <1>2, <1>4, <1>5, PlacesNone, FS_EmptySet

-----------------------------------------------------------------------------
(***************************************************************************)
(* Every step keeps the invariant.                                         *)
(***************************************************************************)
\* At first there are no snapshots.
LEMMA InitAgrees == Init => IInv
<1> SUFFICES ASSUME Init PROVE IInv
  OBVIOUS
<1>1. /\ snapshots = 0 /\ early = 0 /\ losses = 0 /\ declared = FALSE
      /\ statistics = <<>> /\ dispatched = <<>> /\ requests = <<>>
      /\ passedOn = {} /\ subscribed = {}
      /\ hand = [w \in Webs |-> None] /\ sent = [w \in Webs |-> FALSE]
      /\ outbound = [b \in Browsers |-> {}] /\ received = [b \in Browsers |-> {}]
      /\ due = [b \in Browsers |-> {}]
      /\ MaxSnapshots \in Nat /\ MaxLosses \in Nat
  BY ExchangesAssumption DEF Init
<1>2. Snapshots = {}
  BY <1>1 DEF Snapshots
<1>3. TypeOK
  <2>1. /\ snapshots \in 0..MaxSnapshots /\ early \in 0..snapshots
        /\ losses \in 0..MaxLosses
    BY <1>1
  <2>2. {outbound, received, due} \subseteq [Browsers -> SUBSET Snapshots]
    BY <1>1
  <2>3. /\ declared \in BOOLEAN /\ passedOn \subseteq Requests
        /\ subscribed \subseteq Browsers
        /\ requests \in Seq(Requests) /\ statistics \in Seq(Snapshots)
        /\ dispatched \in Seq([snapshot : Snapshots, web : Webs])
    <3>1. \A S : <<>> \in Seq(S)
      OBVIOUS
    <3> QED
      BY <1>1, <3>1
  <2>4. hand \in [Webs -> Snapshots \cup {None}] /\ sent \in [Webs -> BOOLEAN]
    BY <1>1
  <2> QED
    BY <2>1, <2>2, <2>3, <2>4 DEF TypeOK
<1>4. CountsAgree /\ NoSnapshotLost
  BY <1>2 DEF CountsAgree, NoSnapshotLost
<1>5. HandsAgree
  BY <1>1 DEF HandsAgree
<1> QED
  BY <1>3, <1>4, <1>5 DEF IInv

\* Steps that neither publish nor move a snapshot.
LEMMA QuietStep ==
  ASSUME IInv,
         UNCHANGED <<statistics, hand, sent, dispatched, losses, snapshots>>,
         \/ UNCHANGED <<declared, early>>
         \/ early' = snapshots
  PROVE  CountsAgree' /\ HandsAgree' /\ NoSnapshotLost'
<1>1. Snapshots' = Snapshots /\ snapshots \in Nat
  BY DEF Snapshots, IInv, TypeOK
<1>2. \A n : /\ Dispatches(n)' = Dispatches(n) /\ Holders(n)' = Holders(n)
             /\ Places(statistics, n)' = Places(statistics, n)
  BY DEF Dispatches, Holders, Places
<1>3. CountsAgree'
  BY <1>1, <1>2 DEF IInv, CountsAgree
<1>4. HandsAgree'
  BY DEF IInv, HandsAgree
<1>5. NoSnapshotLost'
  <2>1. CASE UNCHANGED <<declared, early>>
    BY <1>1, <2>1 DEF IInv, NoSnapshotLost
  <2>2. CASE early' = snapshots
    BY <1>1, <2>2 DEF NoSnapshotLost, Snapshots
  <2> QED
    BY <2>1, <2>2
<1> QED
  BY <1>3, <1>4, <1>5

\* The queues are declared.
LEMMA DeclareAgrees ==
  ASSUME IInv, Declare
  PROVE  IInv'
<1>1. TypeOK'
  BY DEF IInv, TypeOK, Declare, webVars, browserVars, Snapshots
<1> QED
  BY <1>1, QuietStep DEF IInv, Declare, webVars

\* A request is passed on.
LEMMA ForwardAgrees ==
  ASSUME IInv, NEW r \in Requests, Forward(r)
  PROVE  IInv'
<1>1. requests' \in Seq(Requests)
  BY DEF IInv, TypeOK, Forward, Sent
<1>2. TypeOK'
  BY <1>1 DEF IInv, TypeOK, Forward, webVars, browserVars, Snapshots
<1> QED
  BY <1>2, QuietStep DEF IInv, Forward, webVars

\* Pages come and go, and receive what waits for them.
LEMMA BrowserAgrees ==
  ASSUME IInv, NEW b \in Browsers, Subscribe(b) \/ Unsubscribe(b) \/ Receive(b)
  PROVE  IInv'
<1>1. /\ UNCHANGED <<queueVars, webVars, pastVars>> /\ TypeOK
  BY DEF IInv, Subscribe, Unsubscribe, Receive
<1>2. Snapshots' = Snapshots
  BY <1>1 DEF Snapshots, pastVars
<1>3. /\ outbound \in [Browsers -> SUBSET Snapshots]
      /\ received \in [Browsers -> SUBSET Snapshots]
      /\ due \in [Browsers -> SUBSET Snapshots] /\ subscribed \subseteq Browsers
  BY <1>1 DEF TypeOK
<1>4. /\ outbound' \in [Browsers -> SUBSET Snapshots]
      /\ received' \in [Browsers -> SUBSET Snapshots]
      /\ due' \in [Browsers -> SUBSET Snapshots] /\ subscribed' \subseteq Browsers
  <2>1. CASE Subscribe(b)
    BY <1>3, <2>1 DEF Subscribe
  <2>2. CASE Unsubscribe(b)
    BY <1>3, <2>2 DEF Unsubscribe
  <2>3. CASE Receive(b)
    <3>1. PICK n \in outbound[b] :
            /\ outbound' = [outbound EXCEPT ![b] = outbound[b] \ {n}]
            /\ received' = [received EXCEPT ![b] = received[b] \cup {n}]
            /\ UNCHANGED <<subscribed, due>>
      BY <2>3 DEF Receive
    <3>2. outbound[b] \subseteq Snapshots /\ received[b] \subseteq Snapshots
      BY <1>3
    <3> QED
      BY <1>3, <3>1, <3>2
  <2> QED
    BY <2>1, <2>2, <2>3
<1>5. TypeOK'
  BY <1>1, <1>2, <1>4 DEF TypeOK, queueVars, webVars, pastVars
<1> QED
  BY <1>1, <1>5, QuietStep DEF IInv, queueVars, webVars, pastVars

\* A snapshot is published, and lost if no queue is declared.
LEMMA PublishAgrees ==
  ASSUME IInv, PublishStatistics
  PROVE  IInv'
<1> DEFINE n0 == snapshots + 1
<1>1. /\ TypeOK /\ CountsAgree /\ HandsAgree /\ NoSnapshotLost
      /\ snapshots \in Nat /\ snapshots < MaxSnapshots /\ snapshots' = n0
      /\ MaxSnapshots \in Nat /\ early \in 0..snapshots /\ None \notin Nat
      /\ losses \in Nat /\ statistics \in Seq(Snapshots)
      /\ UNCHANGED <<declared, requests, hand, sent, subscribed, outbound,
                     received, passedOn, early, dispatched, losses>>
  BY ExchangesAssumption DEF IInv, TypeOK, PublishStatistics, webVars
<1>2. /\ Snapshots' = Snapshots \cup {n0} /\ n0 \notin Snapshots
      /\ n0 \in Nat /\ Snapshots \subseteq Nat /\ n0 # None
  BY <1>1 DEF Snapshots
<1>3. statistics' = IF declared THEN Append(statistics, n0) ELSE statistics
  BY DEF PublishStatistics, Sent, Routed, Bindings, EXCHANGE, EXCHANGE_FANOUT,
         QUEUE_NAME_REQUESTS, QUEUE_NAME_STATS, ROUTING_KEY_STATISTICS,
         ROUTING_KEY_TRANSFER_REQUEST
<1>4. TypeOK'
  <2>1. statistics' \in Seq(Snapshots')
    BY <1>1, <1>2, <1>3
  <2>2. /\ dispatched' \in Seq([snapshot : Snapshots', web : Webs])
        /\ hand' \in [Webs -> Snapshots' \cup {None}]
    <3> DEFINE R  == [snapshot : Snapshots, web : Webs]
               R2 == [snapshot : Snapshots', web : Webs]
    <3>1. R \subseteq R2
      BY <1>2
    <3>2. dispatched \in Seq(R) /\ dispatched' = dispatched
      BY <1>1 DEF TypeOK
    <3>3. hand' \in [Webs -> Snapshots' \cup {None}]
      BY <1>1, <1>2 DEF TypeOK
    <3> HIDE DEF R, R2
    <3>4. dispatched' \in Seq(R2)
      BY <3>1, <3>2
    <3> QED
      BY <3>3, <3>4 DEF R2
  <2>3. /\ outbound \in [Browsers -> SUBSET Snapshots]
        /\ received \in [Browsers -> SUBSET Snapshots]
        /\ due \in [Browsers -> SUBSET Snapshots]
    BY <1>1 DEF TypeOK
  <2>4. due' = [b \in Browsers |-> IF declared /\ b \in subscribed
                                     THEN due[b] \cup {n0} ELSE due[b]]
    BY DEF PublishStatistics
  <2> HIDE DEF n0
  <2>5. due' \in [Browsers -> SUBSET (Snapshots \cup {n0})]
    BY <2>3, <2>4
  <2>6. {outbound', received', due'} \subseteq [Browsers -> SUBSET Snapshots']
    BY <1>1, <1>2, <2>3, <2>5
  <2>7. snapshots' \in 0..MaxSnapshots /\ early' \in 0..snapshots'
    BY <1>1 DEF n0
  <2> QED
    BY <1>1, <2>1, <2>2, <2>6, <2>7 DEF TypeOK
<1> HIDE DEF n0
<1>5. ASSUME NEW n \in Snapshots'
      PROVE  /\ IsFiniteSet(Holders(n)')
             /\ Cardinality(Dispatches(n)') + Cardinality(Places(statistics', n))
                  + Cardinality(Holders(n)') <= 1 + losses'
  <2>1. Holders(n)' = Holders(n) /\ Dispatches(n)' = Dispatches(n)
    BY <1>1 DEF Holders, Dispatches
  <2>2. /\ Cardinality(Dispatches(n)) \in Nat
        /\ Cardinality(Places(statistics, n)) \in Nat
    BY <1>1, Counts
  <2>3. Cardinality(Places(statistics', n))
          \in {Cardinality(Places(statistics, n)),
               Cardinality(Places(statistics, n)) + (IF n0 = n THEN 1 ELSE 0)}
    <3> DEFINE S == Snapshots \cup {n0}
    <3>1. statistics \in Seq(S) /\ n0 \in S
      <4>1. statistics \in Seq(Snapshots)
        BY <1>1
      <4> QED
        BY <4>1
    <3> HIDE DEF S
    <3>2. Cardinality(Places(Append(statistics, n0), n))
            = Cardinality(Places(statistics, n)) + (IF n0 = n THEN 1 ELSE 0)
      BY <1>2, <3>1, PlacesAppend
    <3>3. CASE declared
      BY <1>3, <3>2, <3>3
    <3>4. CASE ~declared
      BY <1>3, <3>4
    <3> QED
      BY <3>3, <3>4
  <2>4. CASE n = n0
    <3>1. /\ Cardinality(Dispatches(n)) = 0 /\ Holders(n) = {}
          /\ Cardinality(Places(statistics, n)) = 0
      BY <1>1, <1>2, <2>4, NotPublished
    <3>2. IsFiniteSet(Holders(n)) /\ Cardinality(Holders(n)) = 0
      BY <3>1, FS_EmptySet
    <3> QED
      BY <1>1, <2>1, <2>3, <3>1, <3>2
  <2>5. CASE n # n0
    <3>1. Cardinality(Places(statistics', n)) = Cardinality(Places(statistics, n))
      BY <2>2, <2>3, <2>5
    <3> QED
      BY <1>1, <1>2, <2>1, <2>5, <3>1 DEF CountsAgree
  <2> QED
    BY <2>4, <2>5
<1>6. CountsAgree'
  <2>1. \A n : Places(statistics, n)' = Places(statistics', n)
    BY DEF Places
  <2> QED
    BY <1>5, <2>1 DEF CountsAgree
<1>7. HandsAgree'
  BY <1>1 DEF HandsAgree
<1>8. NoSnapshotLost'
  <2>1. \A i \in DOMAIN statistics :
          i \in DOMAIN statistics' /\ statistics'[i] = statistics[i]
    BY <1>1, <1>2, <1>3
  <2>2. declared => \E i \in DOMAIN statistics' : statistics'[i] = n0
    <3>1. declared => /\ Len(statistics) + 1 \in DOMAIN statistics'
                      /\ statistics'[Len(statistics) + 1] = n0
      BY <1>1, <1>2, <1>3
    <3> QED
      BY <3>1
  <2> QED
    BY <1>1, <1>2, <2>1, <2>2 DEF NoSnapshotLost
<1> QED
  BY <1>4, <1>6, <1>7, <1>8 DEF IInv

\* An application's container takes the head of the queue.
LEMMA TakeAgrees ==
  ASSUME IInv, NEW w \in Webs, Take(w)
  PROVE  IInv'
<1> DEFINE m    == Head(statistics)
           rest == statistics'
<1>1. /\ TypeOK /\ CountsAgree /\ HandsAgree /\ NoSnapshotLost
      /\ statistics \in Seq(Snapshots) /\ statistics # <<>>
      /\ statistics' = Tail(statistics) /\ hand[w] = None
      /\ hand' = [hand EXCEPT ![w] = m] /\ sent' = [sent EXCEPT ![w] = FALSE]
      /\ hand \in [Webs -> Snapshots \cup {None}] /\ sent \in [Webs -> BOOLEAN]
      /\ UNCHANGED <<declared, requests, subscribed, outbound, received, due,
                     passedOn, snapshots, early, dispatched, losses>>
  BY DEF IInv, TypeOK, Take, browserVars, pastVars
<1>2. /\ m \in Snapshots /\ m = statistics[1] /\ rest \in Seq(Snapshots)
      /\ Len(statistics) = Len(rest) + 1
      /\ \A i \in 1..Len(rest) : statistics[i + 1] = rest[i]
      /\ \A i \in 2..Len(statistics) :
           i - 1 \in DOMAIN rest /\ rest[i - 1] = statistics[i]
      /\ \A i \in DOMAIN statistics : i = 1 \/ i \in 2..Len(statistics)
  BY <1>1
<1>3. Snapshots' = Snapshots /\ None \notin Snapshots
  BY <1>1, ExchangesAssumption DEF Snapshots
<1> HIDE DEF m, rest
<1>4. TypeOK'
  <2>1. hand' \in [Webs -> Snapshots \cup {None}] /\ sent' \in [Webs -> BOOLEAN]
    BY <1>1, <1>2
  <2>2. statistics' \in Seq(Snapshots)
    BY <1>2 DEF rest
  <2> QED
    BY <1>1, <1>3, <2>1, <2>2 DEF TypeOK
<1>5. CountsAgree'
  <2>1. ASSUME NEW n \in Snapshots
        PROVE  /\ IsFiniteSet(Holders(n)')
               /\ Cardinality(Dispatches(n)') + Cardinality(Places(rest, n))
                    + Cardinality(Holders(n)') <= 1 + losses'
    <3>1. Cardinality(Places(statistics, n))
            = Cardinality(Places(rest, n)) + (IF m = n THEN 1 ELSE 0)
      <4>1. /\ statistics \in Seq(Snapshots) /\ rest \in Seq(Snapshots)
            /\ Len(statistics) = Len(rest) + 1
            /\ \A i \in 1..Len(rest) : statistics[i + 1] = rest[i]
        BY <1>1, <1>2
      <4>2. Cardinality(Places(statistics, n))
              = Cardinality(Places(rest, n))
                + (IF statistics[1] = n THEN 1 ELSE 0)
        BY <4>1, PlacesShifted
      <4> QED
        BY <4>2, <1>2
    <3>2. /\ IsFiniteSet(Holders(n)) /\ losses \in Nat
          /\ Cardinality(Dispatches(n)) + Cardinality(Places(statistics, n))
               + Cardinality(Holders(n)) <= 1 + losses
      BY <1>1 DEF CountsAgree, TypeOK
    <3>3. /\ Cardinality(Dispatches(n)) \in Nat
          /\ Cardinality(Places(rest, n)) \in Nat
          /\ Cardinality(Holders(n)) \in Nat
      BY <1>1, <1>2, <3>2, Counts, PlacesFinite, FS_CardinalityType
    <3>4. Holders(n)' = IF m = n THEN Holders(n) \cup {w} ELSE Holders(n)
      BY <1>1, <1>3 DEF Holders
    <3>5. w \notin Holders(n)
      BY <1>1, <1>3 DEF Holders
    <3>6. /\ IsFiniteSet(Holders(n)')
          /\ Cardinality(Holders(n)')
               = Cardinality(Holders(n)) + (IF m = n THEN 1 ELSE 0)
      BY <3>2, <3>3, <3>4, <3>5, FS_AddElement
    <3>7. Dispatches(n)' = Dispatches(n)
      BY <1>1 DEF Dispatches
    <3> QED
      BY <1>1, <3>1, <3>2, <3>3, <3>6, <3>7
  <2>2. \A n : Places(statistics, n)' = Places(rest, n)
    BY DEF Places, rest
  <2> QED
    BY <1>3, <2>1, <2>2 DEF CountsAgree
<1>6. HandsAgree'
  <2>1. \A v \in Webs : hand'[v] # None /\ sent'[v] =>
          hand[v] # None /\ sent[v] /\ hand'[v] = hand[v]
    BY <1>1
  <2> QED
    BY <1>1, <2>1 DEF HandsAgree
<1>7. NoSnapshotLost'
  <2>1. \A n : (\E i \in DOMAIN statistics : statistics[i] = n) =>
           m = n \/ \E i \in DOMAIN rest : rest[i] = n
    BY <1>2
  <2>2. hand'[w] = m /\ \A v \in Webs : hand[v] = None \/ hand'[v] = hand[v]
    BY <1>1
  <2>3. ASSUME NEW n \in Snapshots \ 1..early
        PROVE  \/ ~declared
               \/ \E i \in DOMAIN rest : rest[i] = n
               \/ \E v \in Webs : hand'[v] = n
               \/ \E i \in DOMAIN dispatched : dispatched[i].snapshot = n
    <3>1. \/ ~declared
          \/ \E i \in DOMAIN statistics : statistics[i] = n
          \/ \E v \in Webs : hand[v] = n
          \/ \E i \in DOMAIN dispatched : dispatched[i].snapshot = n
      BY <1>1 DEF NoSnapshotLost
    <3> QED
      BY <1>3, <2>1, <2>2, <3>1
  <2> QED
    BY <1>1, <1>3, <2>3 DEF NoSnapshotLost, rest
<1> QED
  BY <1>4, <1>5, <1>6, <1>7 DEF IInv

\* The listener sends the snapshot to its browsers.
LEMMA DispatchAgrees ==
  ASSUME IInv, NEW w \in Webs, Dispatch(w)
  PROVE  IInv'
<1> DEFINE m == hand[w]
           d == [snapshot |-> m, web |-> w]
           R == [snapshot : Snapshots, web : Webs]
<1>1. /\ TypeOK /\ CountsAgree /\ HandsAgree /\ NoSnapshotLost
      /\ m # None /\ ~sent[w] /\ sent' = [sent EXCEPT ![w] = TRUE]
      /\ dispatched' = Append(dispatched, d) /\ dispatched \in Seq(R)
      /\ hand \in [Webs -> Snapshots \cup {None}] /\ sent \in [Webs -> BOOLEAN]
      /\ UNCHANGED <<declared, requests, statistics, hand, subscribed, received,
                     due, passedOn, snapshots, early, losses>>
  BY DEF IInv, TypeOK, Dispatch, NotYetSent, queueVars
<1>2. Snapshots' = Snapshots /\ m \in Snapshots
  BY <1>1 DEF Snapshots
<1>3. d \in R /\ d.snapshot = m
  BY <1>2
<1> HIDE DEF d, R
<1>4. /\ dispatched' \in Seq(R) /\ Len(dispatched') = Len(dispatched) + 1
      /\ Len(dispatched) \in Nat
      /\ DOMAIN dispatched' = DOMAIN dispatched \cup {Len(dispatched) + 1}
      /\ Len(dispatched) + 1 \notin DOMAIN dispatched
      /\ \A i \in DOMAIN dispatched : dispatched'[i] = dispatched[i]
      /\ dispatched'[Len(dispatched) + 1] = d
  BY <1>1, <1>3
<1>5. TypeOK'
  <2>1. /\ outbound \in [Browsers -> SUBSET Snapshots]
        /\ received \in [Browsers -> SUBSET Snapshots]
        /\ due \in [Browsers -> SUBSET Snapshots]
    BY <1>1 DEF TypeOK
  <2>2. outbound' = [b \in Browsers |-> IF b \in subscribed /\ WebOf[b] = w
                                          THEN outbound[b] \cup {m} ELSE outbound[b]]
    BY DEF Dispatch
  <2> HIDE DEF m
  <2>3. outbound' \in [Browsers -> SUBSET Snapshots]
    BY <1>2, <2>1, <2>2
  <2>4. sent' \in [Webs -> BOOLEAN]
    BY <1>1
  <2> QED
    BY <1>1, <1>2, <1>4, <2>1, <2>3, <2>4 DEF TypeOK, R
<1>6. ASSUME NEW n \in Snapshots
      PROVE  /\ IsFiniteSet(Holders(n)')
             /\ Cardinality(Dispatches(n)') + Cardinality(Places(statistics, n))
                  + Cardinality(Holders(n)') <= 1 + losses'
  <2>1. /\ IsFiniteSet(Holders(n)) /\ losses \in Nat
        /\ Cardinality(Dispatches(n)) + Cardinality(Places(statistics, n))
             + Cardinality(Holders(n)) <= 1 + losses
    BY <1>1 DEF CountsAgree, TypeOK
  <2>2. /\ IsFiniteSet(Dispatches(n)) /\ Cardinality(Dispatches(n)) \in Nat
        /\ Cardinality(Places(statistics, n)) \in Nat
        /\ Cardinality(Holders(n)) \in Nat
    BY <1>1, <2>1, Counts, FS_CardinalityType
  <2>3. CASE n = m
    <3>1. Holders(n)' = Holders(n) \ {w} /\ w \in Holders(n)
      BY <1>1, <2>3 DEF Holders
    <3>2. /\ IsFiniteSet(Holders(n)')
          /\ Cardinality(Holders(n)') = Cardinality(Holders(n)) - 1
      BY <2>1, <3>1, FS_RemoveElement
    <3>3. Dispatches(n)' = Dispatches(n) \cup {Len(dispatched) + 1}
      BY <1>3, <1>4, <2>3 DEF Dispatches
    <3>4. Cardinality(Dispatches(n)') = Cardinality(Dispatches(n)) + 1
      <4>1. Len(dispatched) + 1 \notin Dispatches(n)
        BY <1>4 DEF Dispatches
      <4> QED
        BY <2>2, <3>3, <4>1, FS_AddElement
    <3> QED
      BY <1>1, <2>1, <2>2, <3>2, <3>4
  <2>4. CASE n # m
    <3>1. Holders(n)' = Holders(n)
      BY <1>1, <2>4 DEF Holders
    <3>2. Dispatches(n)' = Dispatches(n)
      BY <1>3, <1>4, <2>4 DEF Dispatches
    <3> QED
      BY <1>1, <2>1, <3>1, <3>2
  <2> QED
    BY <2>3, <2>4
<1>7. CountsAgree'
  <2>1. \A n : Places(statistics, n)' = Places(statistics, n)
    BY <1>1 DEF Places
  <2> QED
    BY <1>2, <1>6, <2>1 DEF CountsAgree
<1>8. HandsAgree'
  <2>1. \A v \in Webs : hand'[v] # None /\ sent'[v] =>
          v = w \/ (hand[v] # None /\ sent[v])
    BY <1>1
  <2> QED
    BY <1>1, <1>3, <1>4, <2>1 DEF HandsAgree
<1>9. NoSnapshotLost'
  BY <1>1, <1>2, <1>4 DEF NoSnapshotLost
<1> QED
  BY <1>5, <1>7, <1>8, <1>9 DEF IInv

\* The container acknowledges.
LEMMA AckAgrees ==
  ASSUME IInv, NEW w \in Webs, Ack(w)
  PROVE  IInv'
<1>1. /\ TypeOK /\ CountsAgree /\ HandsAgree /\ NoSnapshotLost
      /\ hand[w] # None /\ sent[w] /\ hand' = [hand EXCEPT ![w] = None]
      /\ hand \in [Webs -> Snapshots \cup {None}] /\ sent \in [Webs -> BOOLEAN]
      /\ UNCHANGED <<declared, requests, statistics, sent, subscribed, outbound,
                     received, due, passedOn, snapshots, early, dispatched,
                     losses>>
  BY DEF IInv, TypeOK, Ack, queueVars, browserVars, pastVars
<1>2. Snapshots' = Snapshots /\ None \notin Snapshots
  BY <1>1, ExchangesAssumption DEF Snapshots
<1>3. TypeOK'
  <2>1. hand' \in [Webs -> Snapshots \cup {None}]
    BY <1>1
  <2> QED
    BY <1>1, <1>2, <2>1 DEF TypeOK
<1>4. CountsAgree'
  <2>1. ASSUME NEW n \in Snapshots
        PROVE  Holders(n)' = Holders(n)
    BY <1>1, <1>2 DEF Holders
  <2>2. \A n : /\ Dispatches(n)' = Dispatches(n)
               /\ Places(statistics, n)' = Places(statistics, n)
    BY <1>1 DEF Dispatches, Places
  <2> QED
    BY <1>1, <1>2, <2>1, <2>2 DEF CountsAgree
<1>5. HandsAgree'
  BY <1>1 DEF HandsAgree
<1>6. NoSnapshotLost'
  <2>1. \E i \in DOMAIN dispatched : dispatched[i].snapshot = hand[w]
    BY <1>1 DEF HandsAgree
  <2>2. \A v \in Webs : v # w => hand'[v] = hand[v]
    BY <1>1
  <2> QED
    BY <1>1, <1>2, <2>1, <2>2 DEF NoSnapshotLost
<1> QED
  BY <1>3, <1>4, <1>5, <1>6 DEF IInv

\* A connection is lost and the broker takes the snapshot back.
LEMMA LoseAgrees ==
  ASSUME IInv, NEW w \in Webs, LoseConnection(w)
  PROVE  IInv'
<1> DEFINE m      == hand[w]
           longer == <<m>> \o statistics
<1>1. /\ TypeOK /\ CountsAgree /\ HandsAgree /\ NoSnapshotLost
      /\ m # None /\ hand' = [hand EXCEPT ![w] = None]
      /\ statistics' = longer /\ statistics \in Seq(Snapshots)
      /\ losses \in 0..MaxLosses /\ losses < MaxLosses /\ losses' = losses + 1
      /\ MaxLosses \in Nat
      /\ hand \in [Webs -> Snapshots \cup {None}] /\ sent \in [Webs -> BOOLEAN]
      /\ UNCHANGED <<declared, requests, sent, subscribed, outbound, received,
                     due, passedOn, snapshots, early, dispatched>>
  BY ExchangesAssumption
     DEF IInv, TypeOK, LoseConnection, TakenBack, browserVars
<1>2. /\ Snapshots' = Snapshots /\ m \in Snapshots /\ None \notin Snapshots
  BY <1>1, ExchangesAssumption DEF Snapshots
<1> HIDE DEF m
<1>3. /\ longer \in Seq(Snapshots) /\ Len(longer) = Len(statistics) + 1
      /\ \A i \in 1..Len(statistics) : longer[i + 1] = statistics[i]
      /\ longer[1] = m /\ 1 \in DOMAIN longer
      /\ \A i \in DOMAIN statistics : i + 1 \in DOMAIN longer
  BY <1>1, <1>2
<1> HIDE DEF longer
<1>4. TypeOK'
  <2>1. hand' \in [Webs -> Snapshots \cup {None}]
    BY <1>1
  <2>2. losses' \in 0..MaxLosses
    BY <1>1
  <2> QED
    BY <1>1, <1>2, <1>3, <2>1, <2>2 DEF TypeOK
<1>5. ASSUME NEW n \in Snapshots
      PROVE  /\ IsFiniteSet(Holders(n)')
             /\ Cardinality(Dispatches(n)') + Cardinality(Places(longer, n))
                  + Cardinality(Holders(n)') <= 1 + losses'
  <2>1. /\ IsFiniteSet(Holders(n)) /\ losses \in Nat
        /\ Cardinality(Dispatches(n)) + Cardinality(Places(statistics, n))
             + Cardinality(Holders(n)) <= 1 + losses
    BY <1>1 DEF CountsAgree
  <2>2. /\ Cardinality(Dispatches(n)) \in Nat
        /\ Cardinality(Places(statistics, n)) \in Nat
        /\ Cardinality(Holders(n)) \in Nat
    BY <1>1, <2>1, Counts, FS_CardinalityType
  <2>3. Cardinality(Places(longer, n))
          = Cardinality(Places(statistics, n)) + (IF m = n THEN 1 ELSE 0)
    <3>1. statistics \in Seq(Snapshots)
      BY <1>1
    <3>2. Cardinality(Places(longer, n))
            = Cardinality(Places(statistics, n)) + (IF longer[1] = n THEN 1 ELSE 0)
      BY <1>3, <3>1, PlacesShifted
    <3> QED
      BY <1>3, <3>2
  <2>4. Holders(n)' = Holders(n) \ {w}
    BY <1>1, <1>2 DEF Holders
  <2>5. /\ IsFiniteSet(Holders(n)')
        /\ Cardinality(Holders(n)') <= Cardinality(Holders(n))
        /\ Cardinality(Holders(n)') \in Nat
    <3> DEFINE H == Holders(n)
               rest == H \ {w}
    <3>1. IsFiniteSet(H) /\ Cardinality(H) \in Nat
      BY <2>1, <2>2
    <3> HIDE DEF H
    <3>2. /\ IsFiniteSet(rest)
          /\ Cardinality(rest)
               = IF w \in H THEN Cardinality(H) - 1 ELSE Cardinality(H)
      BY <3>1, FS_RemoveElement
    <3>3. Cardinality(rest) \in Nat
      BY <3>2, FS_CardinalityType
    <3>4. Holders(n)' = rest
      BY <2>4 DEF H
    <3> HIDE DEF rest
    <3>5. Cardinality(rest) <= Cardinality(H)
      BY <3>1, <3>2, <3>3
    <3> QED
      BY <3>2, <3>3, <3>4, <3>5 DEF H
  <2>6. Dispatches(n)' = Dispatches(n)
    BY <1>1 DEF Dispatches
  <2> QED
    BY <1>1, <2>1, <2>2, <2>3, <2>5, <2>6
<1>6. CountsAgree'
  <2>1. \A n : Places(statistics, n)' = Places(longer, n)
    BY <1>1 DEF Places
  <2> QED
    BY <1>2, <1>5, <2>1 DEF CountsAgree
<1>7. HandsAgree'
  BY <1>1 DEF HandsAgree
<1>8. NoSnapshotLost'
  <2>1. ASSUME NEW n, NEW i \in DOMAIN statistics, statistics[i] = n
        PROVE  \E j \in DOMAIN longer : longer[j] = n
    <3>1. DOMAIN statistics = 1..Len(statistics)
      BY <1>1
    <3>2. i + 1 \in DOMAIN longer /\ longer[i + 1] = n
      BY <1>3, <2>1, <3>1
    <3> QED
      BY <3>2
  <2>2. \E i \in DOMAIN longer : longer[i] = m
    BY <1>3
  <2>3. \A v \in Webs : hand[v] = m \/ hand'[v] = hand[v]
    BY <1>1 DEF m
  <2> QED
    BY <1>1, <1>2, <2>1, <2>2, <2>3 DEF NoSnapshotLost
<1> QED
  BY <1>4, <1>6, <1>7, <1>8 DEF IInv

\* Every step keeps the invariant.
LEMMA NextAgrees ==
  ASSUME IInv, [Next]_vars
  PROVE  IInv'
<1>1. CASE UNCHANGED vars
  <2>1. UNCHANGED <<queueVars, webVars, browserVars, pastVars>>
    BY <1>1 DEF vars
  <2>2. TypeOK'
    BY <2>1 DEF IInv, TypeOK, Snapshots, queueVars, webVars, browserVars, pastVars
  <2> QED
    BY <2>1, <2>2, QuietStep DEF IInv, queueVars, webVars, pastVars
<1> QED
  BY <1>1, DeclareAgrees, ForwardAgrees, PublishAgrees, TakeAgrees,
     DispatchAgrees, AckAgrees, LoseAgrees, BrowserAgrees DEF Next, Listen

-----------------------------------------------------------------------------
\* Every variable of the exchanges has its type.
THEOREM TypeCorrect == Spec => []TypeOK
<1>1. IInv => TypeOK
  BY DEF IInv
<1> QED
  BY <1>1, InitAgrees, NextAgrees, PTL DEF Spec

\* Once the queues are declared no snapshot is lost on its way to the web
\* applications, whichever of them loses its connection, and none is dispatched
\* again unless the broker took it back (QueuesConfig, AppConfig).
THEOREM SnapshotsAlwaysAccounted == Spec => []SnapshotsAccounted
<1>1. IInv => SnapshotsAccounted
  <2> SUFFICES ASSUME IInv PROVE SnapshotsAccounted
    OBVIOUS
  <2>1. ASSUME NEW n \in Snapshots
        PROVE  Cardinality(Dispatches(n)) <= 1 + losses
    <3>1. /\ Cardinality(Dispatches(n)) \in Nat
          /\ Cardinality(Places(statistics, n)) \in Nat
          /\ Cardinality(Holders(n)) \in Nat /\ losses \in Nat
      BY Counts, FS_CardinalityType DEF IInv, CountsAgree, TypeOK
    <3> QED
      BY <3>1 DEF IInv, CountsAgree
  <2> QED
    BY <2>1 DEF IInv, SnapshotsAccounted, DispatchedOnce, Dispatches
<1> QED
  BY <1>1, InitAgrees, NextAgrees, PTL DEF Spec
=============================================================================
