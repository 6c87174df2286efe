------------------------- MODULE StatisticsService --------------------------
(***************************************************************************)
(* What the processor promises, without threads, lock, timer or broker:    *)
(* requests are counted one at a time, and every published view is the     *)
(* exact state of all the counters at one moment.  Module Processor is     *)
(* shown to implement it.                                                  *)
(***************************************************************************)
EXTENDS Naturals, Sequences

CONSTANTS Requests,    \* the transfer requests
          Countries,   \* originating countries
          Currencies,  \* "from-to" currency keys
          CountryOf,   \* the country of each request
          CurrencyOf   \* the currency key of each request

VARIABLES counted,  \* the requests counted since the last restart, in order
          view      \* the figures last published

serviceVars == <<counted, view>>
-----------------------------------------------------------------------------
\* The events, as positions in a sequence of counted requests, of a country.
OfCountry(requests, c) == {e \in 1..Len(requests) : CountryOf[requests[e]] = c}

\* The events of a currency key.
OfCurrency(requests, k) ==
  {e \in 1..Len(requests) : CurrencyOf[requests[e]] = k}

\* The figures that account for exactly the given requests.
ViewOf(requests) ==
  [lifetime    |-> 1..Len(requests),
   perCountry  |-> [c \in Countries |-> OfCountry(requests, c)],
   perCurrency |-> [k \in Currencies |-> OfCurrency(requests, k)]]
-----------------------------------------------------------------------------
Init ==
  /\ counted = <<>>
  /\ view = ViewOf(<<>>)

Count(r) ==
  /\ counted' = Append(counted, r)
  /\ UNCHANGED view

Publish ==
  /\ view' = ViewOf(counted)
  /\ UNCHANGED counted

\* The counters live in memory: a restart begins again from nothing, while
\* the clients keep the view they have.
Restart ==
  /\ counted' = <<>>
  /\ UNCHANGED view

Next ==
  \/ \E r \in Requests : Count(r)
  \/ Publish
  \/ Restart

Spec == Init /\ [][Next]_serviceVars
=============================================================================
