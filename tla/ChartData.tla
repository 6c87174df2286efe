----------------------------- MODULE ChartData ------------------------------
(***************************************************************************)
(* How c3.js makes targets of what the page gives it: columns, rows, JSON  *)
(* or a table read from a file, with the x of a column of its own, the     *)
(* category of one, or none.  Time series are left out.                    *)
(*                                                                         *)
(* Data are [keys, rows]: the keys of the first row in order, and the rows *)
(* as functions of the keys each one has.  Values are integers, Null, the  *)
(* Empty text, or Text, which stands for any other text that is no number. *)
(* The text of a number, such as a file has, is the number: every use of   *)
(* it converts it.  Categories are texts that are not empty.               *)
(***************************************************************************)
EXTENDS Integers, Sequences, FiniteSets, SequencesExt, FiniteSetsExt, Sorting

CONSTANTS Null, Text, Empty,
          Strings        \* the texts of keys and ids

IsValue(v) == v \notin {Null, Empty}

\* Mutant: an empty text is no number.
StrictNumber(v) == IF v \in {Null, Text, Empty} THEN Null ELSE v

\* d[id] !== null && !isNaN(d[id]) ? +d[id] : null
Number(v) == IF v \in {Null, Text} THEN Null ELSE IF v = Empty THEN 0 ELSE v

ValuesOf(seq) == Chosen(seq, {i \in DOMAIN seq : IsValue(seq[i])})

\* the first of each of some equal ones
Distinct(seq) == Chosen(seq, {i \in DOMAIN seq : /\ IsValue(seq[i])
                                                 /\ \A j \in 1 .. i - 1 : seq[j] # seq[i]})

-----------------------------------------------------------------------------
(* Conversions to data.                                                    *)

\* A column is its key and its values.
ConvertColumnsToData(columns) ==
    LET has(i) == {k \in DOMAIN columns : Len(columns[k]) > i}
        length == Max({0} \cup {Len(columns[k]) - 1 : k \in DOMAIN columns})
    IN  [keys |-> Distinct([k \in DOMAIN columns |-> IF k \in has(1) THEN columns[k][1] ELSE Null]),
         rows |-> [i \in 1 .. length |->
                      [key \in {columns[k][1] : k \in has(i)} |->
                          columns[Max({k \in has(i) : columns[k][1] = key})][i + 1]]]]

\* The first row holds the keys.
ConvertRowsToData(rows) ==
    LET keys == rows[1]
        row(i) == [key \in {keys[j] : j \in DOMAIN rows[i + 1]} |->
                      rows[i + 1][Max({j \in DOMAIN rows[i + 1] : keys[j] = key})]]
    IN  [keys |-> IF Len(rows) = 1 THEN <<>> ELSE Distinct(SubSeq(keys, 1, Len(rows[2]))),
         rows |-> [i \in 1 .. Len(rows) - 1 |-> row(i)]]

\* Mutant: the x is not taken.
JsonWithoutX(objects, values, x) ==
    ConvertRowsToData(<<values>> \o
        [i \in DOMAIN objects |-> [j \in DOMAIN values |->
            IF values[j] \in DOMAIN objects[i] THEN objects[i][values[j]] ELSE Null]])

\* JSON: objects of which some keys are taken, the x after the others, and what
\* an object lacks is null.
ConvertJsonToData(objects, values, x) ==
    LET keys == values \o (IF x = Null THEN <<>> ELSE <<x>>)
    IN  ConvertRowsToData(<<keys>> \o
            [i \in DOMAIN objects |-> [j \in DOMAIN keys |->
                IF keys[j] \in DOMAIN objects[i] THEN objects[i][keys[j]] ELSE Null]])

\* A file's table, whose cells are texts: one with nothing but the keys has one
\* row of nulls; of some equal keys the last is read, in rows that reach to it.
ConvertXsvToData(rows) ==
    LET keys == rows[1]
        at(key) == Max({j \in DOMAIN keys : keys[j] = key})
        row(i) == [key \in {key \in ToSet(keys) : at(key) <= Len(rows[i + 1])} |->
                      rows[i + 1][at(key)]]
    IN  [keys |-> Distinct(keys),
         rows |-> IF Len(rows) = 1 THEN <<[key \in ToSet(keys) |-> Null]>>
                                   ELSE [i \in 1 .. Len(rows) - 1 |-> row(i)]]

-----------------------------------------------------------------------------
(* Targets.  A chart is [x, xs, category, xSort] of its configuration      *)
(* (data_x, data_xs, whether x is a category, data_xSort), the targets it  *)
(* has, `known`, which is data.xs in the order in which it was filled, and *)
(* axis_x_categories.                                                      *)

IsX(chart, key) == \/ chart.x # Null /\ key = chart.x
                   \/ \E id \in DOMAIN chart.xs : chart.xs[id] = key
IsCustomX(chart) == chart.x # Null \/ DOMAIN chart.xs # {}
XKey(chart, id) == IF chart.x # Null THEN chart.x
                   ELSE IF id \in DOMAIN chart.xs THEN chart.xs[id] ELSE Null

KnownXs(chart, id) ==
    LET at == SelectInSeq(chart.known, LAMBDA k : k.id = id)
    IN  IF at = 0 THEN Null ELSE chart.known[at].xs
Know(known, id, xs) ==
    LET at == SelectInSeq(known, LAMBDA k : k.id = id)
    IN  IF at = 0 THEN Append(known, [id |-> id, xs |-> xs]) ELSE [known EXCEPT ![at].xs = xs]

\* The x of another target: the first that is known, or the last with the key.
OtherTargetXs(chart) == IF chart.known = <<>> THEN Null ELSE chart.known[1].xs
XValuesOfXKey(chart, key) ==
    LET same == {i \in DOMAIN chart.targets : XKey(chart, chart.targets[i].id) = key}
    IN  IF same = {} THEN Null ELSE KnownXs(chart, chart.targets[Max(same)].id)

Ordered(seq, keys) == LET order == StableOrder(keys) IN [k \in DOMAIN seq |-> seq[order[k]]]
Ascending(seq) == Ordered(seq, seq)

Cell(row, key) == IF key \in DOMAIN row THEN row[key] ELSE Null

\* What data.xs is for `id` once x is known.
XsFor(chart, data, id, append) ==
    LET xKey == XKey(chart, id)
        raw == ValuesOf([i \in DOMAIN data.rows |-> Cell(data.rows[i], xKey)])
        old == IF append /\ KnownXs(chart, id) # Null THEN KnownXs(chart, id) ELSE <<>>
    IN  IF ~ IsCustomX(chart) THEN [i \in DOMAIN data.rows |-> i - 1]
        ELSE IF Contains(data.keys, xKey)
        THEN old \o [i \in DOMAIN raw |-> IF chart.category THEN i - 1 ELSE raw[i]]
        ELSE IF chart.x # Null THEN OtherTargetXs(chart)
        ELSE XValuesOfXKey(chart, xKey)

\* generateTargetX: the x of a row, or what is known of its position.
TargetX(chart, rawX, xs, i) ==
    IF IsCustomX(chart) /\ ~ chart.category
    THEN IF IsValue(rawX) THEN rawX ELSE IF i \in DOMAIN xs THEN xs[i] ELSE i - 1
    ELSE i - 1

ByX(values) == Ordered(values, [k \in DOMAIN values |-> values[k].x])

\* Mutant: values are indexed in the order in which they came.
IndexedEarly(values, sort) ==
    LET indexed == [k \in DOMAIN values |-> [values[k] EXCEPT !.index = k - 1]]
    IN  IF sort THEN ByX(indexed) ELSE indexed

Indexed(values, sort) ==
    LET sorted == IF sort THEN ByX(values) ELSE values
    IN  [k \in DOMAIN sorted |-> [sorted[k] EXCEPT !.index = k - 1]]

\* A row is left out for a target that it has no value of, or no x.
TargetOf(chart, data, id, xs) ==
    LET value(i) == [x |-> TargetX(chart, Cell(data.rows[i], XKey(chart, id)), xs, i),
                     value |-> Number(data.rows[i][id]), index |-> i]
        kept == Chosen([i \in DOMAIN data.rows |-> i],
                       {i \in DOMAIN data.rows : id \in DOMAIN data.rows[i] /\ i <= Len(xs)})
    IN  [id |-> id, values |-> Indexed([k \in DOMAIN kept |-> value(kept[k])], chart.xSort)]

\* The categories, which the rows of the first target name; they replace the
\* old ones if the first row names one.
CategoriesOf(old, data, xKey) ==
    LET raw == [i \in DOMAIN data.rows |-> Cell(data.rows[i], xKey)]
    IN  (IF raw # <<>> /\ IsValue(raw[1]) THEN <<>> ELSE old) \o ValuesOf(raw)

\* The x of the targets that were loaded are put in order.
XsSorted(known, ids) ==
    [k \in DOMAIN known |-> IF Contains(ids, known[k].id)
                            THEN [known[k] EXCEPT !.xs = Ascending(@)] ELSE known[k]]

\* The targets of data and the chart that knows them, or no targets and an
\* error, if the x of one is not known; learned is the chart with their x.
TargetsOf(chart, data, ids, learned) ==
    IF \E i \in DOMAIN ids : KnownXs(learned, ids[i]) = Null
    THEN [error |-> TRUE, targets |-> <<>>, chart |-> learned]
    ELSE [error |-> FALSE,
          targets |-> [i \in DOMAIN ids |->
                          TargetOf(chart, data, ids[i], KnownXs(learned, ids[i]))],
          chart |-> [learned EXCEPT
              !.categories = IF chart.category /\ IsCustomX(chart) /\ ids # <<>>
                             THEN CategoriesOf(@, data, XKey(chart, ids[1])) ELSE @,
              !.known = XsSorted(@, ids)]]

ConvertDataToTargets(chart, data, append) ==
    LET ids == Chosen(data.keys, {i \in DOMAIN data.keys : ~ IsX(chart, data.keys[i])})
        learn(c, id) == [c EXCEPT !.known = Know(@, id, XsFor(c, data, id, append))]
    IN  TargetsOf(chart, data, ids, FoldLeft(learn, chart, ids))

HasTarget(ts, id) == \E i \in DOMAIN ts : ts[i].id = id

\* load of converted data: targets of the same id get the new values.
LoadTargets(chart, loaded) ==
    [chart EXCEPT !.targets =
        [i \in DOMAIN @ |-> IF HasTarget(loaded, @[i].id)
                            THEN loaded[CHOOSE k \in DOMAIN loaded : loaded[k].id = @[i].id] ELSE @[i]]
        \o Chosen(loaded, {k \in DOMAIN loaded : ~ HasTarget(@, loaded[k].id)})]

LoadConverted(converted) == LoadTargets(converted.chart, converted.targets)

LoadData(chart, data) == LoadConverted(ConvertDataToTargets(chart, data, FALSE))

NoChart == [x |-> Null, xs |-> [id \in {} |-> Null], category |-> FALSE, xSort |-> TRUE,
            targets |-> <<>>, known |-> <<>>, categories |-> <<>>]
=============================================================================
