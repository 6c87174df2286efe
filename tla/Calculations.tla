----------------------------- MODULE Calculations ------------------------------
(***************************************************************************)
(* The parts of the system that are functions of what they are given: the  *)
(* figures of a window and the charts of the page, extended step by step,  *)
(* and functions that keep no state, each asked about every input of a set *)
(* one question a behaviour.                                               *)
(***************************************************************************)
EXTENDS Statistics, StompFrames, ChartScales, Dashboard

CONSTANTS Questions,   \* the inputs of each kind of question
          Nothing      \* no question

R == INSTANCE TransferRequest

VARIABLE probe         \* the question that was asked

calculationsVars == <<statistics, added, page, told, latest, probe>>
-----------------------------------------------------------------------------
(* What may be asked.                                                      *)

Letters == [type : {"char"}, char : DOMAIN Utf8Size]

Pieces == {Colon, Blank} \cup [type : {"word"}, word : Strings]

\* A frame that is sent: none of its headers is read as the one of its length.
IsFrame(f) ==
    /\ f.body \in Seq(Letters \cup {LF})
    /\ f.headers \in Seq([name : Seq(Pieces), value : Seq(Pieces)])
    /\ \A i \in DOMAIN f.headers :
         NameOf(HeaderLine(f.headers[i].name, f.headers[i].value)) # ContentLength

IsFrames(i) == IsFrame(i.frames[1]) /\ IsFrame(i.frames[2]) /\ i.feeds \in Nat

IsPieces(i) == i.text \in Seq(Int) /\ i.max \in Nat \ {0}

Amounts == Nat \cup {Null, NaN, Infinity}
IsRequest(i) == {i.amountBuy, i.amountSell, i.rate} \subseteq Amounts

\* Columns a and b, and the x of each row, all of them different, or none.
IsTable(i) ==
    /\ {i.a, i.b} \subseteq Seq(Int \cup {Null, Text, Empty}) \ {<<>>}
    /\ i.x \in Seq(Int) /\ IsInjective(i.x)

Targets == [id : Strings, values : Seq([x : Int, value : Int, index : Nat])]
IsTargets(ts) ==
    /\ ts \in Seq(Targets) /\ ts # <<>> /\ IsInjective(Ids(ts))
    /\ \E t \in ToSet(ts) : t.values # <<>>

\* No target is in two groups; each has as many values as the others.
IsBars(i) ==
    /\ IsTargets(i.ts)
    /\ \A t, u \in ToSet(i.ts) : Len(t.values) = Len(u.values)
    /\ i.groups \in Seq(Seq(Strings))
    /\ \A g, h \in ToSet(i.groups) : ToSet(g) \cap ToSet(h) # {} => g = h

Limits == Int \cup {Null}
IsAxis(i) ==
    /\ IsTargets(i.ts)
    /\ i.config \in [min : Limits, max : Limits, center : Limits,
                     zeroBased : BOOLEAN, inverted : BOOLEAN]

IsDomain(i) ==
    /\ IsTargets(i.ts) /\ i.bars \in BOOLEAN /\ i.category \in BOOLEAN
    /\ i.zoomed \in Int \X Int

CalculationsAssumption ==
    /\ Utf8Size \in [DOMAIN Utf8Size -> Nat \ {0}]
    /\ {"a", "b", "x"} \subseteq Strings
    /\ NaN # Null /\ Infinity \notin {Null, NaN}
    /\ \A i \in Questions["frames"] : IsFrames(i)
    /\ \A i \in Questions["pieces"] : IsPieces(i)
    /\ \A i \in Questions["request"] : IsRequest(i)
    /\ \A i \in Questions["table"] : IsTable(i)
    /\ \A i \in Questions["bars"] : IsBars(i)
    /\ \A i \in Questions["axis"] : IsAxis(i)
    /\ \A i \in Questions["domain"] : IsDomain(i)
ASSUME CalculationsAssumption


CalculationsInit == StatisticsInit /\ DashboardInit /\ probe = Nothing

\* A window is filled, or a page served, or one question asked.
Window == page = NewPage /\ StatisticsNext /\ UNCHANGED dashboardVars
Page == added = <<>> /\ DashboardNext /\ UNCHANGED statisticsVars
Ask(kind) ==
    /\ added = <<>> /\ page = NewPage
    /\ \E input \in Questions[kind] : probe' = [kind |-> kind, input |-> input]
    /\ UNCHANGED <<statisticsVars, dashboardVars>>

CalculationsNext ==
    /\ probe = Nothing
    /\ \/ Window /\ UNCHANGED probe
       \/ Page /\ UNCHANGED probe
       \/ \E kind \in DOMAIN Questions : Ask(kind)

CalculationsSpec == CalculationsInit /\ [][CalculationsNext]_calculationsVars
-----------------------------------------------------------------------------
Asked(kind) == probe # Nothing /\ probe.kind = kind

\* No blank is at an end of a text, and only those are missing in another.
Tight(text) == text # <<>> => text[1] # Blank /\ Last(text) # Blank
IsRestOf(rest, text) ==
    \E from \in 1 .. Len(text) + 1, to \in 0 .. Len(text) :
        /\ rest = SubSeq(text, from, to)
        /\ \A i \in DOMAIN text : i \notin from .. to => text[i] = Blank

PlainName(name) == Tight(name) /\ ~ Contains(name, Colon)

\* What is marshalled and sent in a stream, frame after frame with line feeds
\* in between, is read as frames of the same commands and bodies: the whole of
\* a body without a NUL, although the length in its header counts bytes and the
\* reader counts characters.  Where the names have no colon and no blanks at
\* their ends, the headers come back as well: of two with a name the first, its
\* value with its colons but without the blanks at its ends (Frame of stomp.js).
FramesSurvive ==
    Asked("frames") =>
        LET fs == probe.input.frames
            feeds == [i \in 1 .. probe.input.feeds |-> LF]
            read == Unmarshall(Marshall(fs[1]) \o feeds \o Marshall(fs[2]))
        IN  /\ Len(read) = 2
            /\ \A i \in 1 .. 2 :
                 LET headers == fs[i].headers
                 IN  /\ read[i].command = fs[i].command
                     /\ read[i].body = fs[i].body
                     /\ (\A j \in DOMAIN headers : PlainName(headers[j].name)) =>
                          /\ DOMAIN read[i].headers \ {ContentLength}
                               = {headers[j].name : j \in DOMAIN headers}
                          /\ \A j \in DOMAIN headers :
                               (\A k \in 1 .. j - 1 : headers[k].name # headers[j].name) =>
                                   LET value == read[i].headers[headers[j].name]
                                   IN  Tight(value) /\ IsRestOf(value, headers[j].value)

\* The pieces of a text put together are the text, and none of them is empty
\* or longer than a message may be (_transmit of stomp.js).
PiecesWhole ==
    Asked("pieces") =>
        LET pieces == Transmitted(probe.input.text, probe.input.max)
        IN  /\ FlattenSeq(pieces) = probe.input.text
            /\ \A i \in DOMAIN pieces : Len(pieces[i]) \in 1 .. probe.input.max

\* A request that validates raises every sum it is added to, so that volumes
\* and averages mean something: all but one with a NaN, which compares as
\* nothing and makes every sum it is added to a NaN, or with an Infinity, which
\* makes every sum of numbers infinite (TransferRequest.validate).
ValidRaisesSums ==
    Asked("request") /\ R!Validate(probe.input) = <<>> =>
        \A p \in ToSet(R!Numbers) : \A sum \in 0 .. 2 :
            LET v == probe.input[p]
            IN  IF v \in {NaN, Infinity} THEN R!Plus(sum, v) = v ELSE R!Plus(sum, v) > sum

ChartOf(x) == IF x = <<>> THEN NoChart ELSE [NoChart EXCEPT !.x = "x"]
XColumn(x) == IF x = <<>> THEN <<>> ELSE <<<<"x">> \o x>>
Columns(i) == ConvertColumnsToData(XColumn(i.x) \o <<<<"a">> \o i.a, <<"b">> \o i.b>>)

\* How a file has a value, and what c3.js makes of it: null is an empty cell,
\* which is a zero.
InFile(value) == IF value = Null THEN Empty ELSE value
FromFile(value) == IF value = Null THEN 0 ELSE value

\* The same table is the same chart, whether it is given as columns, as rows or
\* as objects, and whether the x comes first or last; written to a file, it is
\* the chart of the table with zeros for nulls (the convert functions of c3.js).
ConversionsAgree ==
    Asked("table") /\ Len(probe.input.a) = Len(probe.input.b)
        /\ Len(probe.input.x) \in {0, Len(probe.input.a)} =>
        LET i == probe.input
            last(x) == IF i.x = <<>> THEN <<>> ELSE <<x>>
            rows == <<<<"a", "b">> \o last("x")>>
                        \o [k \in DOMAIN i.a |-> <<i.a[k], i.b[k]>> \o last(i.x[k])]
            object(k) == [key \in {"a", "b"} \cup ToSet(last("x")) |->
                             CASE key = "a" -> i.a[k] [] key = "b" -> i.b[k] [] key = "x" -> i.x[k]]
            json == ConvertJsonToData([k \in DOMAIN i.a |-> object(k)], <<"a", "b">>,
                                      IF i.x = <<>> THEN Null ELSE "x")
            file == <<Head(rows)>> \o
                        [k \in DOMAIN i.a |-> <<InFile(i.a[k]), InFile(i.b[k])>> \o last(i.x[k])]
            zeros(column) == [k \in DOMAIN column |-> FromFile(column[k])]
            made(data) == ConvertDataToTargets(ChartOf(i.x), data, FALSE)
        IN  /\ Len(made(Columns(i)).targets) = 2
            /\ made(Columns(i)) = made(ConvertRowsToData(rows))
            /\ made(Columns(i)) = made(json)
            /\ made(Columns([a |-> zeros(i.a), b |-> zeros(i.b), x |-> i.x]))
                  = made(ConvertXsvToData(file))

\* Each value stands at its own x, in the order of x and indexed in that order,
\* although x may come in any order and a column may be short; and where no
\* column is short, the x that are kept for a target have the same indices as
\* its values, which is what they are sorted for (convertDataToTargets).
ValuesAtTheirX ==
    Asked("table") =>
        LET i == probe.input
            x(k) == IF i.x = <<>> THEN k - 1 ELSE i.x[k]
            column(id) == IF id = "a" THEN i.a ELSE i.b
            length(id) == IF i.x = <<>> THEN Len(column(id)) ELSE Min({Len(i.x), Len(column(id))})
            made == ConvertDataToTargets(ChartOf(i.x), Columns(i), FALSE)
        IN  /\ ~ made.error
            /\ \A t \in ToSet(made.targets) :
                 /\ Len(t.values) = length(t.id)
                 /\ {<<v.x, v.value>> : v \in ToSet(t.values)}
                        = {<<x(k), Number(column(t.id)[k])>> : k \in 1 .. length(t.id)}
                 /\ \A k \in DOMAIN t.values :
                      /\ t.values[k].index = k - 1
                      /\ k > 1 => t.values[k - 1].x < t.values[k].x
                      /\ length(t.id) = Len(KnownXs(made.chart, t.id))
                            => KnownXs(made.chart, t.id)[k] = t.values[k].x

\* Bars stand in one column if and only if they are in one group, no two of a
\* column overlap, whatever their signs and their order, and all of them are
\* within the domain of the axis (getShapeIndices, getShapeOffset, getYDomain).
BarsStackApart ==
    Asked("bars") =>
        LET i == probe.input
            column == ShapeIndices(i.ts, i.groups)
            domain == YDomain(i.ts, i.groups, [min |-> Null, max |-> Null, center |-> Null,
                                               zeroBased |-> TRUE, inverted |-> FALSE])
            value(t, k) == t.values[k].value
            base(t, k) == ShapeOffset(i.ts, i.groups, i.order, t, k)
            bar(t, k) == IF value(t, k) < 0 THEN <<base(t, k) + value(t, k), base(t, k)>>
                                            ELSE <<base(t, k), base(t, k) + value(t, k)>>
        IN  \A t \in ToSet(i.ts) : \A k \in DOMAIN t.values :
               /\ domain[1] <= 100 * bar(t, k)[1] /\ 100 * bar(t, k)[2] <= domain[2]
               /\ \A u \in ToSet(i.ts) \ {t} :
                    /\ (column[t.id] = column[u.id]) <=> Grouped(i.groups, t.id, u.id)
                    /\ column[t.id] = column[u.id] /\ value(t, k) # 0 /\ value(u, k) # 0
                          => bar(t, k)[2] <= bar(u, k)[1] \/ bar(u, k)[2] <= bar(t, k)[1]

\* The vertical axis is never turned over unless the page turns it, by its limits
\* or by a centre that bars do not reach from zero; it has no height only when
\* zero is all there is to show; it shows every value unless the page limits it,
\* and has its centre where the page puts it (getYDomain: "avoid inverting
\* domain unexpectedly").
AxisUpright ==
    Asked("axis") =>
        LET i == probe.input
            c == i.config
            limited == c.min # Null \/ c.max # Null
            upright(bottom, top) ==
               /\ \/ c.min # Null /\ c.max # Null /\ c.min >= c.max
                  \/ c.zeroBased /\ c.center # Null
                  \/ bottom < top
                  \/ bottom = top /\ ~ limited /\ ValueSet(i.ts) = {0}
               /\ ~ limited /\ c.center = Null =>
                     \A v \in ValueSet(i.ts) : bottom <= 100 * v /\ 100 * v <= top
               /\ c.center # Null /\ ~ c.zeroBased => bottom + top = 200 * c.center
            way(domain) == IF c.inverted THEN upright(domain[2], domain[1])
                                         ELSE upright(domain[1], domain[2])
        IN  way(YDomain(i.ts, <<>>, c))

\* The horizontal axis has room for every x, of whatever sign and were it the
\* only one, and is wider than a point unless all it has is a bar at -1, whose
\* padding just makes up for its shift; and a domain that was zoomed or dragged
\* out is moved back within it without changing its width, if it fits
\* (getXDomain, trimXDomain).
DomainHoldsData ==
    Asked("domain") =>
        LET i == probe.input
            domain == XDomain(i.ts, i.category, i.bars)
            trimmed == TrimXDomain(i.zoomed, domain)
            width(d) == d[2] - d[1]
            xs == Xs(i.ts)
        IN  /\ \A x \in xs : domain[1] <= 100 * x /\ 100 * x <= domain[2]
            /\ ~ i.category /\ ~ (i.bars /\ xs = {-1}) => width(domain) > 0
            /\ width(i.zoomed) <= width(domain) =>
                  /\ width(trimmed) = width(i.zoomed)
                  /\ domain[1] <= trimmed[1] /\ trimmed[2] <= domain[2]
-----------------------------------------------------------------------------
\* The processor's figures of a window do not depend on its order beyond ties,
\* and each request that is let in raises them.
FiguresCount == StatisticsTypeOK /\ FiguresOfWindow /\ ValidRaisesSums

\* Text given to stomp.js arrives as it was.
StompTextSurvives == FramesSurvive /\ PiecesWhole

\* From the page's data to places on the chart, in c3.js.
ChartShowsData ==
    /\ ConversionsAgree /\ ValuesAtTheirX
    /\ BarsStackApart /\ AxisUpright /\ DomainHoldsData
=============================================================================
