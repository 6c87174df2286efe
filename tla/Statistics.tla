----------------------------- MODULE Statistics -----------------------------
(***************************************************************************)
(* TransferRequestStatistics: the figures of a window (a second, a minute, *)
(* a country, a currency pair, the lifetime of the processor), extended by *)
(* one request at a time.  A new value is computed from the old one alone: *)
(* no request is kept but the top ones, so what a request left out of the  *)
(* top list once can never come back to it.                                *)
(*                                                                         *)
(* Amounts and rates are natural numbers here, so that sums are exact; in  *)
(* the code they are doubles, and sums are as exact as doubles are.        *)
(***************************************************************************)
EXTENDS Naturals, Sequences, SequencesExt, Sorting

CONSTANTS Requests,    \* transfer requests
          AmountSell, AmountBuy, Rate,  \* getAmountSell, getAmountBuy, getRate
          TopSize,     \* length of the list of top requests, 10 in the code
          MaxAdded     \* bound: requests added to a window

ASSUME StatisticsAssumption ==
  /\ {AmountSell, AmountBuy, Rate} \subseteq [Requests -> Nat]
  /\ TopSize \in Nat \ {0}
  /\ MaxAdded \in Nat

VARIABLES statistics,  \* the current value
          added        \* history variable: the requests added, in order

statisticsVars == <<statistics, added>>
-----------------------------------------------------------------------------
\* avgRate, as a fraction; 0 for a window to which nothing was added.
Average(sum, count) == [sum |-> sum, count |-> count]

NoStatistics ==
  [count |-> 0, volumeSell |-> 0, volumeBuy |-> 0, sumRate |-> 0,
   avgRate |-> Average(0, 1), topRequests |-> <<>>]

Rates(requests) == [i \in DOMAIN requests |-> Rate[requests[i]]]

\* Collections.sort by compareTo: by rate, and as they were where rates are equal.
ByRate(requests) ==
  LET order == StableOrder(Rates(requests))
  IN  [k \in DOMAIN requests |-> requests[order[k]]]

Smaller(m, n) == IF m < n THEN m ELSE n

\* Mutant: one request too many is kept.
TopOneMore(requests) ==
  SubSeq(requests, 1, Smaller(TopSize + 1, Len(requests)))

\* subList(0, Math.min(10, size))
Top(requests) == SubSeq(requests, 1, Smaller(TopSize, Len(requests)))

\* Mutant: the list is cut before it is sorted.
RankedLate(requests) == ByRate(Top(requests))

\* The top requests of a list.
Ranked(requests) == Top(ByRate(requests))

AddRequest(s, r) ==
  [count       |-> s.count + 1,
   volumeSell  |-> s.volumeSell + AmountSell[r],
   volumeBuy   |-> s.volumeBuy + AmountBuy[r],
   sumRate     |-> s.sumRate + Rate[r],
   avgRate     |-> Average(s.sumRate + Rate[r], s.count + 1),
   topRequests |-> Ranked(Append(s.topRequests, r))]
-----------------------------------------------------------------------------
StatisticsInit == statistics = NoStatistics /\ added = <<>>

Add(r) ==
  /\ Len(added) < MaxAdded
  /\ statistics' = AddRequest(statistics, r)
  /\ added' = Append(added, r)

StatisticsNext == \E r \in Requests : Add(r)

StatisticsSpec == StatisticsInit /\ [][StatisticsNext]_statisticsVars
-----------------------------------------------------------------------------
\* The top list never outgrows its size; the rest are numbers.
StatisticsTypeOK ==
  /\ added \in Seq(Requests)
  /\ {statistics.count, statistics.volumeSell, statistics.volumeBuy,
      statistics.sumRate} \subseteq Nat
  /\ statistics.avgRate \in [sum : Nat, count : Nat \ {0}]
  /\ statistics.topRequests \in Seq(Requests)
  /\ Len(statistics.topRequests) <= TopSize

\* How many of the added requests come before the i-th in the order of rates.
Rank(i) == Cardinality(Earlier(Rates(added), i))

Sum(f, requests) == FoldLeft(LAMBDA sum, r : sum + f[r], 0, requests)
Total(f) == Sum(f, added)

\* The figures, computed one request at a time from the figures before, are
\* those of the window as a whole; in particular cutting the top list after
\* each request (addRequest) loses none of the requests with the lowest rates.
FiguresOfWindow ==
  /\ statistics.count = Len(added)
  /\ statistics.volumeSell = Total(AmountSell)
  /\ statistics.volumeBuy = Total(AmountBuy)
  /\ statistics.sumRate = Total(Rate)
  /\ added # <<>> => statistics.avgRate = Average(Total(Rate), Len(added))
  /\ Len(statistics.topRequests) = Smaller(TopSize, Len(added))
  /\ \A i \in DOMAIN added :
       Rank(i) < TopSize => statistics.topRequests[Rank(i) + 1] = added[i]
=============================================================================
