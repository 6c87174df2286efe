----------------------------- MODULE Dashboard ------------------------------
(***************************************************************************)
(* The page: line-chart.js, bar-chart.js and the handler of app.js that    *)
(* shows the count and the volume of every snapshot and gives each chart   *)
(* its part of it.  How the volume is rounded is left out.                 *)
(***************************************************************************)
EXTENDS ChartData

CONSTANTS Snapshots,     \* what may be published: totals and the figures of each chart
          NaN, Infinity  \* in a snapshot: the texts of these doubles

Figures == [key : Strings \ {""}, value : Int]
Volumes == Int \cup {NaN, Infinity}

ASSUME SnapshotsAssumption ==
    /\ {"r", "Requests", "requests", "x"} \subseteq Strings
    /\ {Null, Text, Empty} \cap (Int \cup Strings \cup Seq(Int)) = {}
    /\ {NaN, Infinity} \cap Int = {}
    /\ Text # Null /\ Empty \notin {Null, Text}
    /\ Snapshots \subseteq [count : Int, volume : Volumes,
                            seconds : Seq(Int), minutes : Seq(Int),
                            perCurrency : Seq(Figures), perCountry : Seq(Figures)]

VARIABLES page,        \* the totals that are shown and the chart of each kind of figures
          \* History variables.
          told,        \* the last count, and the last volume that was a number
          latest       \* the last figures of each kind, if there were any, that
                       \* came with a volume that was a number

dashboardVars == <<page, told, latest>>
-----------------------------------------------------------------------------

\* c3.generate with `columns: ["requests"]`, a text where a column is meant: its
\* first letter is taken for the key, the others for values.
NewLineChart == LoadData(NoChart, ConvertColumnsToData(<<[i \in 1 .. 8 |-> IF i = 1 THEN "r" ELSE Text]>>))

\* c3.generate with two columns without values
NewBarChart == LoadData([NoChart EXCEPT !.x = "x", !.category = TRUE],
                        ConvertColumnsToData(<<<<"x">>, <<"requests">>>>))

\* stats: the figures of each second or minute, in order
ProcessLine(chart, stats) ==
    LoadData(chart, ConvertColumnsToData(<<<<"Requests">> \o stats>>))

\* Mutant: the keys are not given, as if categories stayed what they were.
ProcessBarKeyless(chart, stats) ==
    LoadData(chart, ConvertColumnsToData(<<<<"x">> \o [i \in DOMAIN stats |-> "key"],
        <<"requests">> \o [i \in DOMAIN stats |-> stats[i].value]>>))

\* stats: the keys of the object with the figure of each
ProcessBar(chart, stats) ==
    LoadData(chart, ConvertColumnsToData(<<<<"x">> \o [i \in DOMAIN stats |-> stats[i].key],
        <<"requests">> \o [i \in DOMAIN stats |-> stats[i].value]>>))

NewPage == [requests |-> Null, volume |-> Null,
            seconds |-> NewLineChart, minutes |-> NewLineChart,
            perCurrency |-> NewBarChart, perCountry |-> NewBarChart]

\* volumeBuy.toFixed: numbers have it, texts do not
HasToFixed(volume) == volume \in Int

\* the handler of /topic/stats
OnMessage(stats) ==
    /\ HasToFixed(stats.volume)
    /\ page' = [requests |-> stats.count, volume |-> stats.volume,
                seconds |-> ProcessLine(page.seconds, stats.seconds),
                minutes |-> ProcessLine(page.minutes, stats.minutes),
                perCurrency |-> ProcessBar(page.perCurrency, stats.perCurrency),
                perCountry |-> ProcessBar(page.perCountry, stats.perCountry)]
    /\ told' = [requests |-> stats.count, volume |-> stats.volume]
    /\ latest' = [f \in DOMAIN latest |-> IF stats[f] = <<>> THEN latest[f] ELSE stats[f]]

\* Mutant: the totals are shown after the charts.
OnMessageThrowsLate(stats) ==
    /\ ~ HasToFixed(stats.volume)
    /\ page' = [page EXCEPT !.requests = stats.count,
                            !.seconds = ProcessLine(@, stats.seconds)]
    /\ told' = [told EXCEPT !.requests = stats.count]
    /\ UNCHANGED latest

\* the handler, which throws once the count is shown
OnMessageThrows(stats) ==
    /\ ~ HasToFixed(stats.volume)
    /\ page' = [page EXCEPT !.requests = stats.count]
    /\ told' = [told EXCEPT !.requests = stats.count]
    /\ UNCHANGED latest

DashboardInit ==
    /\ page = NewPage
    /\ told = [requests |-> Null, volume |-> Null]
    /\ latest = [seconds |-> <<>>, minutes |-> <<>>, perCurrency |-> <<>>, perCountry |-> <<>>]

DashboardNext == \E stats \in Snapshots : OnMessage(stats) \/ OnMessageThrows(stats)

DashboardSpec == DashboardInit /\ [][DashboardNext]_dashboardVars
-----------------------------------------------------------------------------
\* What a chart shows for an id.
Shown(chart, id, values) ==
    \E i \in DOMAIN chart.targets :
        /\ chart.targets[i].id = id
        /\ [k \in DOMAIN chart.targets[i].values |-> chart.targets[i].values[k].value] = values

\* After any snapshots the charts show the figures of the last one whose volume
\* was a number and that had any: the line of requests has them in order, and each
\* bar has its own key's category, also when keys come, go or change their places.
\* The volume is that of the last one whose volume was a number as well, while the
\* count is that of the last one of all: of a snapshot with the volume "NaN" or
\* "Infinity" the page shows the count and nothing else (app.js).
PageShowsLatest ==
    /\ page.requests = told.requests /\ page.volume = told.volume
    /\ \A f \in {"seconds", "minutes"} :
         latest[f] # <<>> => Shown(page[f], "Requests", latest[f])
    /\ \A f \in {"perCurrency", "perCountry"} :
         latest[f] # <<>> =>
            /\ Shown(page[f], "requests", [k \in DOMAIN latest[f] |-> latest[f][k].value])
            /\ page[f].categories = [k \in DOMAIN latest[f] |-> latest[f][k].key]
=============================================================================
