------------------------- MODULE CompleteStatistics -------------------------
(***************************************************************************)
(* The two value classes the processor keeps its figures in:               *)
(* TransferRequestStatistics (an immutable value; addRequest returns a new *)
(* one) and CompleteStatisticsWrapper (the object that is published).      *)
(*                                                                         *)
(* A TransferRequestStatistics is a function of the requests that were     *)
(* added to it, so it is abstracted here to the set of the processing      *)
(* events that were added: its count is the cardinality of the set, its    *)
(* volumes are sums over it.  Module Statistics models the figures         *)
(* themselves and checks that they depend on the added requests only.      *)
(***************************************************************************)
EXTENDS Naturals, Sequences

CONSTANT HistorySize   \* historySize, 60 in the code

ASSUME HistorySizeAssumption == HistorySize \in Nat \ {0}
-----------------------------------------------------------------------------
\* new TransferRequestStatistics(): nothing was added yet.
NoStatistics == {}

\* statistics.addRequest(request), for the processing event of the request.
AddRequest(statistics, event) == statistics \cup {event}

\* The events that at least one entry of a history accounts for.
Covered(history) == UNION {history[i] : i \in DOMAIN history}
-----------------------------------------------------------------------------
(***************************************************************************)
(* The wrapper.  Its perCountry and perCurrency fields are references to   *)
(* the processor's live maps from the first tick on, so they hold no state *)
(* of their own: a reader of the wrapper reads the live maps.              *)
(***************************************************************************)
EmptyWrapper ==
  [seconds |-> <<>>, minutes |-> <<>>, lifetime |-> NoStatistics]

\* Mutant: the loop removes entries at the head of the list.
TrimmedAtHead(history) ==
  SubSeq(history,
         IF Len(history) > HistorySize THEN Len(history) - HistorySize + 1
                                       ELSE 1,
         Len(history))

\* The while loop that removes the oldest entries, at the tail of the list.
Trimmed(history) ==
  SubSeq(history, 1, IF Len(history) > HistorySize THEN HistorySize
                                                   ELSE Len(history))

\* A new entry goes to the front of the list; otherwise the front entry is
\* replaced.
Updated(history, statistics, addNew) ==
  IF addNew \/ history = <<>>
    THEN Trimmed(<<statistics>> \o history)
    ELSE <<statistics>> \o Tail(history)

UpdateSecond(wrapper, statistics, addNew) ==
  [wrapper EXCEPT !.seconds = Updated(@, statistics, addNew)]

UpdateMinute(wrapper, statistics, addNew) ==
  [wrapper EXCEPT !.minutes = Updated(@, statistics, addNew)]

UpdateLifetime(wrapper, statistics) ==
  [wrapper EXCEPT !.lifetime = statistics]
=============================================================================
