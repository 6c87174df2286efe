------------------------------- MODULE Reader -------------------------------
(***************************************************************************)
(* The reader: a loop that reads the stored transfer requests behind a     *)
(* cursor, moves the cursor to the last of them, and hands them to the     *)
(* request exchange one by one.  Rows are inserted by the receivers at the *)
(* same time; the place of a row in the order of the table is given by the *)
(* time its sender states and a random part, not by the time of the        *)
(* insertion.  A reader that has no cursor begins 1000 days before its     *)
(* query, wherever in the order of the table that is.  Names that every    *)
(* specification has begin with the module's own, so that module           *)
(* MessagingProofs can extend it.                                          *)
(***************************************************************************)
EXTENDS Naturals, Sequences, FiniteSets, SequencesExt, Sorting

CONSTANTS
  Rows,         \* rows of transfer_requests
  Key,          \* the timestamp column: a row's place in the table's order
  Country,      \* the country column
  ReadCountry,  \* the country listTransferRequests asks for, "FR" in the code
  Limit,        \* limit of the query, 10000 in the code
  Starts,       \* places that 1000 days before a query can have in that order
  MaxRestarts   \* bound: restarts of the reader

ASSUME ReaderAssumption ==
  /\ Key \in [Rows -> Nat \ {0}]
  /\ \A r, s \in Rows : Key[r] = Key[s] => r = s
  /\ Limit \in Nat \ {0}
  /\ Starts \subseteq Nat \ {0}
  /\ MaxRestarts \in Nat

VARIABLES
  table,      \* the rows inserted so far
  cursor,     \* lastReadRequest; 0 when null
  chunk,      \* rows of the latest result yet to be published
  running,    \* FALSE once an exception has ended the loop
  published,  \* rows handed to the exchange, in order
  restarts,
  \* History variables.
  begun,      \* how many rows earlier runs of the reader published
  start,      \* where this run began to read; 0 before its first query
  behind      \* rows inserted behind the cursor of this run

readerVars == <<table, cursor, chunk, running, published, restarts, begun, start, behind>>
-----------------------------------------------------------------------------
\* A receiver stores a row.
Insert(r) ==
  /\ r \notin table
  /\ table' = table \cup {r}
  /\ behind' = IF Key[r] <= cursor THEN behind \cup {r} ELSE behind
  /\ UNCHANGED <<cursor, chunk, running, published, restarts, begun, start>>

\* Mutant: the row at the cursor is asked for again.
FromCursor(r, from) == Key[r] >= from

\* gt("timestamp", ...)
AfterCursor(r, from) == Key[r] > from

\* Mutant: the query has no limit.
Unlimited(rows) == rows

\* limit(10000)
Limited(rows) == SubSeq(rows, 1, Min({Limit, Len(rows)}))

\* listTransferRequests: rows of one country after a place, in order.
Listed(from) ==
  LET rows == {r \in table : Country[r] = ReadCountry /\ AfterCursor(r, from)}
  IN  Limited(Sorted(rows, Key))

\* Mutant: the cursor is moved to the end of the table.
EndOfTable(rows, from) ==
  IF rows = <<>> THEN from ELSE Max({Key[r] : r \in table})

\* lastUUID of the result: where the query began, if it is empty.
LastKey(rows, from) == IF rows = <<>> THEN from ELSE Key[Last(rows)]

\* Where a query may begin: at the cursor, or 1000 days ago when it is null.  The
\* clock may have been set since the last run.
Begins == IF cursor = 0 THEN Starts ELSE {cursor}

\* processChunk, up to the loop.
ReadChunk ==
  /\ running
  /\ chunk = <<>>
  /\ \E from \in Begins :
       /\ chunk' = Listed(from)
       /\ cursor' = LastKey(Listed(from), from)
       /\ start' = IF cursor = 0 THEN from ELSE start
  /\ UNCHANGED <<table, running, published, restarts, begun, behind>>

\* processTransferRequest, for the next request of the chunk.
PublishNext ==
  /\ running
  /\ chunk # <<>>
  /\ published' = Append(published, Head(chunk))
  /\ chunk' = Tail(chunk)
  /\ UNCHANGED <<table, cursor, running, restarts, begun, start, behind>>

\* convertAndSend, or a query, throws: nothing catches it in Reader.run.
LoopEnds ==
  /\ running
  /\ running' = FALSE
  /\ UNCHANGED <<table, cursor, chunk, published, restarts, begun, start, behind>>

\* The process is started again, with a null cursor.
Restart ==
  /\ restarts < MaxRestarts
  /\ restarts' = restarts + 1
  /\ running' = TRUE
  /\ cursor' = 0
  /\ chunk' = <<>>
  /\ begun' = Len(published)
  /\ start' = 0
  /\ behind' = {}
  /\ UNCHANGED <<table, published>>
-----------------------------------------------------------------------------
ReaderInit ==
  /\ table = {} /\ cursor = 0 /\ chunk = <<>> /\ running = TRUE
  /\ published = <<>> /\ restarts = 0 /\ begun = 0 /\ start = 0 /\ behind = {}

ReaderStep == ReadChunk \/ PublishNext

ReaderNext ==
  \/ \E r \in Rows : Insert(r)
  \/ ReaderStep
  \/ LoopEnds
  \/ Restart

ReaderSpec == ReaderInit /\ [][ReaderNext]_readerVars

ReaderFairSpec == ReaderSpec /\ WF_readerVars(ReaderStep)
-----------------------------------------------------------------------------
\* Every variable has its type.
ReaderTypeOK ==
  /\ table \subseteq Rows /\ behind \subseteq table
  /\ start \in {0} \cup Starts
  /\ cursor \in {start} \cup {Key[r] : r \in table}
  /\ chunk \in Seq(table) /\ Len(chunk) <= Limit
  /\ running \in BOOLEAN
  /\ published \in Seq(table) /\ begun \in 0..Len(published)
  /\ restarts \in 0..MaxRestarts

\* The rows this run of the reader has published, or is about to.
ThisRun == SubSeq(published, begun + 1, Len(published)) \o chunk

\* A run publishes rows in the order of the table, none of them twice, though
\* rows are inserted on both sides of the cursor while it runs.
InOrder ==
  \A i, j \in DOMAIN ThisRun : i < j => Key[ThisRun[i]] < Key[ThisRun[j]]

\* The cursor passes over no row of the country it reads that was in the
\* table by then and lies after the place where the run began, though the
\* cursor moves before the rows are published and a chunk may be smaller
\* than what there is to read.
NonePassedOver ==
  \A r \in table \ behind :
    Country[r] = ReadCountry /\ start < Key[r] /\ Key[r] <= cursor =>
      \E i \in DOMAIN ThisRun : ThisRun[i] = r

\* So a run publishes what it reads as if it had read the table, from the
\* place where it began, at once.
RowsInOrder == InOrder /\ NonePassedOver

\* A stored row of that country is published in the end, unless the loop has
\* ended for good, or the row was inserted behind the cursor of the last run,
\* or the last run began to read after it: its time is more than 1000 days ago.
EveryRowPublished ==
  \A r \in Rows :
    r \in table /\ Country[r] = ReadCountry
      ~> \/ \E i \in DOMAIN published : published[i] = r
         \/ [](r \in behind \/ Key[r] <= start)
         \/ []~running
=============================================================================
