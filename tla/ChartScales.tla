---------------------------- MODULE ChartScales -----------------------------
(***************************************************************************)
(* What c3.js computes of targets to draw them: in which column each bar   *)
(* stands and what it is stacked on, and the domains of the axes.  Values  *)
(* are integers, domains are in hundredths; paddings that a page configures*)
(* in pixels, labels of data and time series are left out.                 *)
(***************************************************************************)
EXTENDS ChartData

Ids(ts) == [i \in DOMAIN ts |-> ts[i].id]
ValueSet(ts) == UNION {{t.values[k].value : k \in DOMAIN t.values} : t \in ToSet(ts)}
Xs(ts) == UNION {{t.values[k].x : k \in DOMAIN t.values} : t \in ToSet(ts)}

-----------------------------------------------------------------------------
(* Bars.                                                                   *)

Grouped(groups, id, other) == \E g \in ToSet(groups) : {id, other} \subseteq ToSet(g)

\* getShapeIndices: a target takes the column of one of its groups' if any of
\* that group has one, the next one else.
ShapeIndices(ts, groups) ==
    LET taken(indices, id) ==
            {indices[other] : other \in {o \in DOMAIN indices : Grouped(groups, id, o)}}
        next(indices) == Cardinality({indices[id] : id \in DOMAIN indices})
        place(indices, t) ==
            [id \in DOMAIN indices \cup {t.id} |->
                IF id # t.id THEN indices[id]
                ELSE IF taken(indices, id) # {} THEN CHOOSE i \in taken(indices, id) : TRUE
                ELSE next(indices)]
    IN  FoldLeft(place, [id \in {} |-> 0], ts)

Abs(n) == IF n < 0 THEN -n ELSE n
SumAbs(t) == SumFunction([k \in DOMAIN t.values |-> Abs(t.values[k].value)])

\* orderTargets; targets that are equal stay as they were
OrderTargets(ts, order) ==
    Ordered(ts, [i \in DOMAIN ts |-> CASE order = "asc"  -> - SumAbs(ts[i])
                                       [] order = "desc" -> SumAbs(ts[i])
                                       [] OTHER -> 0])

\* targetIds.indexOf
IndexOf(ts, id) == CHOOSE i \in DOMAIN ts : ts[i].id = id

\* Mutant: bars are stacked on those of either sign.
ShapeOffsetBlind(ts, groups, order, t, k) ==
    LET ordered == OrderTargets(ts, order)
        indices == ShapeIndices(ts, groups)
        below == {u \in ToSet(ts) : /\ indices[u.id] = indices[t.id]
                                    /\ IndexOf(ordered, u.id) < IndexOf(ordered, t.id)}
    IN  SumFunction([u \in below |-> u.values[k].value])

\* getShapeOffset: the sum of the values of the same sign below it in its
\* column; zero is of both.
ShapeOffset(ts, groups, order, t, k) ==
    LET ordered == OrderTargets(ts, order)
        indices == ShapeIndices(ts, groups)
        below == {u \in ToSet(ts) : /\ indices[u.id] = indices[t.id]
                                    /\ IndexOf(ordered, u.id) < IndexOf(ordered, t.id)
                                    /\ u.values[k].value * t.values[k].value >= 0}
    IN  SumFunction([u \in below |-> u.values[k].value])

-----------------------------------------------------------------------------
(* Domains.                                                                *)

IndexIn(group, id) == CHOOSE i \in DOMAIN group : group[i] = id

\* The stacked values of each group, of one sign if there is any of it, in the
\* place of those of its first target; the others' as they are.
Stacked(ts, groups, sign) ==
    LET any == \E v \in ValueSet(ts) : v * sign > 0
        part(t, k) == IF any /\ t.values[k].value * sign < 0 THEN 0 ELSE t.values[k].value
        inGroup(g) == {t \in ToSet(ts) : Contains(g, t.id)}
        first(g, t) == /\ t \in inGroup(g)
                       /\ \A u \in inGroup(g) : IndexIn(g, t.id) <= IndexIn(g, u.id)
        total(g, k) == SumFunction([t \in inGroup(g) |-> part(t, k)])
        based == {gt \in ToSet(groups) \X ToSet(ts) : first(gt[1], gt[2])}
        single == {t \in ToSet(ts) : \A g \in ToSet(groups) : ~ first(g, t)}
    IN  (UNION {{t.values[k].value : k \in DOMAIN t.values} : t \in single})
        \cup (UNION {{total(gt[1], k) : k \in DOMAIN gt[2].values} : gt \in based})

YDomainMin(ts, groups) == Min(Stacked(ts, groups, -1))
YDomainMax(ts, groups) == Max(Stacked(ts, groups, 1))

\* Mutant: an axis of a single value is left without any height.
ApartNot(bottom, top) == <<bottom, top>>

\* The ends of an axis, of which one becomes zero if they are equal.
Apart(bottom, top) ==
    IF bottom # top THEN <<bottom, top>> ELSE IF bottom < 0 THEN <<bottom, 0>> ELSE <<0, top>>

\* The ends as the page limits them.  config: axis_y_min and axis_y_max, or
\* Null; axis_y_center, or Null; whether bars begin at zero; whether the axis
\* is inverted.
Limited(lowest, highest, config) ==
    <<IF config.min # Null THEN config.min
      ELSE IF config.max # Null THEN (IF lowest < config.max THEN lowest ELSE config.max - 10)
      ELSE lowest,
      IF config.max # Null THEN config.max
      ELSE IF config.min # Null THEN (IF config.min < highest THEN highest ELSE config.min + 10)
      ELSE highest>>

\* The domain made of the two ends: from zero if it is bars of one sign, around
\* the centre if there is one, and with a padding where it does not end in zero.
AroundEnds(ends, config) ==
    LET positive == ends[1] >= 0 /\ ends[2] >= 0
        negative == ends[1] <= 0 /\ ends[2] <= 0
        zero == /\ config.zeroBased
                /\ ~ (config.min # Null /\ positive) /\ ~ (config.max # Null /\ negative)
        lowest == IF zero /\ positive THEN 0 ELSE ends[1]
        highest == IF zero /\ negative THEN 0 ELSE ends[2]
        padding == 10 * Abs(highest - lowest)
        abs == Max({Abs(lowest), Abs(highest)})
        from == IF config.center = Null THEN lowest ELSE config.center - abs
        to == IF config.center = Null THEN highest ELSE config.center + abs
        bottom == IF zero /\ positive THEN 0 ELSE 100 * from - padding
        top == IF zero /\ negative THEN 0 ELSE 100 * to + padding
    IN  IF config.inverted THEN <<top, bottom>> ELSE <<bottom, top>>

YDomain(ts, groups, config) ==
    LET limited == Limited(YDomainMin(ts, groups), YDomainMax(ts, groups), config)
    IN  AroundEnds(Apart(limited[1], limited[2]), config)

\* d3.extent of a domain
Extent(domain) == <<Min(ToSet(domain)), Max(ToSet(domain))>>

\* Mutant: a domain of a single x is left as it is.
XDomainPoint(ts, category, bars) ==
    <<100 * Min(Xs(ts)), 100 * Max(Xs(ts))>>

\* getXDomain with its padding: half a bar, or a hundredth, or none for
\* categories, whose scale adds its own.
XDomain(ts, category, bars) ==
    LET first == Min(Xs(ts))
        last == Max(Xs(ts))
        count == Max({Len(t.values) : t \in ToSet(ts)})
        padding == IF category THEN 0
                   ELSE IF bars THEN (IF count > 1 THEN (100 * (last - first)) \div (2 * (count - 1)) ELSE 50)
                   ELSE last - first
        point == first = last /\ ~ category
    IN  Extent(<<(IF point THEN (IF first = 0 THEN 100 ELSE 50 * first) ELSE 100 * first) - padding,
                 (IF point THEN (IF last = 0 THEN -100 ELSE 150 * last) ELSE 100 * last) + padding>>)

\* trimXDomain: a domain that was zoomed or dragged out is moved back.
TrimXDomain(domain, org) ==
    LET left == IF domain[1] <= org[1] THEN <<org[1], domain[2] + (org[1] - domain[1])>> ELSE domain
    IN  IF org[2] <= left[2] THEN <<left[1] - (left[2] - org[2]), org[2]>> ELSE left
=============================================================================
