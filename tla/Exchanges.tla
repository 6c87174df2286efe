----------------------------- MODULE Exchanges ------------------------------
(***************************************************************************)
(* The exchanges and queues the components are joined by, and the way of a *)
(* statistics snapshot from the processor to the browsers.  The receiver   *)
(* and the reader hand requests to a direct exchange; the processor hands  *)
(* snapshots to a fanout exchange; each web application takes snapshots    *)
(* from the one statistics queue and sends them to the browsers subscribed *)
(* to it.  RabbitMQ, Spring's containers and its STOMP broker are external *)
(* and modelled as the code here uses them: nothing is published mandatory *)
(* or confirmed, messages are acknowledged when the listener has returned, *)
(* and a pool of threads writes to the browsers.                           *)
(***************************************************************************)
EXTENDS Naturals, Sequences, SequencesExt

CONSTANTS
  Requests,
  Webs,          \* running web applications
  Browsers,      \* pages, each served by the web application given by WebOf
  WebOf,
  None,
  MaxSnapshots,  \* bound: snapshots the processor publishes
  MaxLosses      \* bound: broker connections of a web application lost

ASSUME ExchangesAssumption ==
  /\ WebOf \in [Browsers -> Webs]
  /\ {MaxSnapshots, MaxLosses} \subseteq Nat
  /\ None \notin Nat

VARIABLES
  declared,    \* TRUE once a listener container declared queues and bindings
  requests,    \* queue "transferRequests"
  statistics,  \* queue "statistics"
  hand,        \* per web application: the snapshot its listener has, if any
  sent,        \* per web application: TRUE when that snapshot was dispatched
  subscribed,  \* browsers subscribed to /topic/stats
  outbound,    \* per browser: snapshots the STOMP broker has yet to write
  received,    \* per browser: snapshots received since it subscribed
  \* History variables.
  passedOn,    \* requests handed to the request exchange
  snapshots,   \* number of the latest snapshot
  early,       \* number of the latest one published before the declaration
  dispatched,  \* dispatches, in order: a snapshot and the web application
  due,         \* per browser: snapshots published while it was subscribed
  losses

queueVars   == <<declared, requests, statistics>>
webVars     == <<hand, sent>>
browserVars == <<subscribed, outbound, received, due>>
pastVars    == <<passedOn, snapshots, early, dispatched, losses>>

vars == <<queueVars, webVars, browserVars, pastVars>>
-----------------------------------------------------------------------------
(***************************************************************************)
(* QueuesConfig and HighRateConstants.                                     *)
(***************************************************************************)
EXCHANGE        == "highRateExcahnge"
EXCHANGE_FANOUT == "highRateExcahngeFanout"

QUEUE_NAME_REQUESTS == "transferRequests"
QUEUE_NAME_STATS    == "statistics"

ROUTING_KEY_TRANSFER_REQUEST == "highrate.transferRequest"
ROUTING_KEY_STATISTICS       == "highrate.transferStatistics"

\* Mutant: both queues are bound to the direct exchange.
NoFanout ==
  {[exchange |-> EXCHANGE, queue |-> name, accepts |-> {name}] :
     name \in {QUEUE_NAME_REQUESTS, QUEUE_NAME_STATS}}

\* A fanout exchange takes no notice of the routing key.
Bindings ==
  {[exchange |-> EXCHANGE, queue |-> QUEUE_NAME_REQUESTS,
    accepts  |-> {QUEUE_NAME_REQUESTS}],
   [exchange |-> EXCHANGE_FANOUT, queue |-> QUEUE_NAME_STATS,
    accepts  |-> {ROUTING_KEY_TRANSFER_REQUEST, ROUTING_KEY_STATISTICS}]}

\* Does a message for the exchange with the routing key get to the queue?
Routed(exchange, key, queue) ==
  \E b \in Bindings : declared /\ b.exchange = exchange /\ b.queue = queue
                               /\ key \in b.accepts

\* A queue, given its name, once a message was sent.
Sent(exchange, key, queue, name, message) ==
  IF Routed(exchange, key, name) THEN Append(queue, message) ELSE queue
-----------------------------------------------------------------------------
\* The containers of the processor and of the web applications declare the
\* queues, exchanges and bindings when they start.  Receiver and reader have
\* no container, and the processor starts its timer before its container: all
\* may publish before.
Declare ==
  /\ ~declared
  /\ declared' = TRUE
  /\ early' = snapshots
  /\ UNCHANGED <<requests, statistics, webVars, browserVars, passedOn,
                 snapshots, dispatched, losses>>

\* CFHttpHandler or TransferRequestReader forwards a request.
Forward(r) ==
  /\ r \notin passedOn
  /\ passedOn' = passedOn \cup {r}
  /\ requests' = Sent(EXCHANGE, ROUTING_KEY_TRANSFER_REQUEST, requests,
                      QUEUE_NAME_REQUESTS, r)
  /\ UNCHANGED <<declared, statistics, webVars, browserVars, snapshots, early,
                 dispatched, losses>>

\* SecondsTimer.run publishes a snapshot.
PublishStatistics ==
  /\ snapshots < MaxSnapshots
  /\ snapshots' = snapshots + 1
  /\ statistics' = Sent(EXCHANGE_FANOUT, ROUTING_KEY_STATISTICS, statistics,
                        QUEUE_NAME_STATS, snapshots + 1)
  /\ due' = [b \in Browsers |-> IF declared /\ b \in subscribed
                                  THEN due[b] \cup {snapshots + 1} ELSE due[b]]
  /\ UNCHANGED <<declared, requests, webVars, subscribed, outbound, received,
                 passedOn, early, dispatched, losses>>

\* A web application's container takes the next snapshot.
Take(w) ==
  /\ hand[w] = None
  /\ statistics # <<>>
  /\ hand' = [hand EXCEPT ![w] = Head(statistics)]
  /\ sent' = [sent EXCEPT ![w] = FALSE]
  /\ statistics' = Tail(statistics)
  /\ UNCHANGED <<declared, requests, browserVars, pastVars>>

\* Mutant: a message is given to the listener until it is acknowledged.
InHand(w) == hand[w] # None

\* The listener has not been given the message in hand before.
NotYetSent(w) == hand[w] # None /\ ~sent[w]

\* receiveStatistic: to all browsers subscribed to this application.
Dispatch(w) ==
  /\ NotYetSent(w)
  /\ sent' = [sent EXCEPT ![w] = TRUE]
  /\ dispatched' = Append(dispatched, [snapshot |-> hand[w], web |-> w])
  /\ outbound' = [b \in Browsers |->
                    IF b \in subscribed /\ WebOf[b] = w
                      THEN outbound[b] \cup {hand[w]} ELSE outbound[b]]
  /\ UNCHANGED <<queueVars, hand, subscribed, received, due, passedOn,
                 snapshots, early, losses>>

\* The listener has returned: the container acknowledges.
Ack(w) ==
  /\ hand[w] # None
  /\ sent[w]
  /\ hand' = [hand EXCEPT ![w] = None]
  /\ UNCHANGED <<queueVars, sent, browserVars, pastVars>>

\* Mutant: the hand is cleared before the message is taken back.
TakenBackLate(w) == <<None>> \o statistics

\* Mutant: the broker does not take the message back.
NotTakenBack(w) == statistics

\* The queue with the message back at its head.
TakenBack(w) == <<hand[w]>> \o statistics

\* The application's connection to the broker is lost before it acknowledged.
LoseConnection(w) ==
  /\ hand[w] # None
  /\ losses < MaxLosses
  /\ losses' = losses + 1
  /\ statistics' = TakenBack(w)
  /\ hand' = [hand EXCEPT ![w] = None]
  /\ UNCHANGED <<declared, requests, sent, browserVars, passedOn, snapshots,
                 early, dispatched>>
-----------------------------------------------------------------------------
\* app.js: connect, and subscribe once connected.
Subscribe(b) ==
  /\ b \notin subscribed
  /\ subscribed' = subscribed \cup {b}
  /\ due' = [due EXCEPT ![b] = {}]
  /\ received' = [received EXCEPT ![b] = {}]
  /\ UNCHANGED <<queueVars, webVars, outbound, pastVars>>

\* The page is left, or its socket fails: app.js does not connect again.
Unsubscribe(b) ==
  /\ b \in subscribed
  /\ subscribed' = subscribed \ {b}
  /\ outbound' = [outbound EXCEPT ![b] = {}]
  /\ UNCHANGED <<queueVars, webVars, received, due, pastVars>>

\* One of the threads of the outbound channel writes a snapshot, not
\* necessarily the oldest, and the page shows it.
Receive(b) ==
  /\ \E n \in outbound[b] :
       /\ outbound' = [outbound EXCEPT ![b] = @ \ {n}]
       /\ received' = [received EXCEPT ![b] = @ \cup {n}]
  /\ UNCHANGED <<queueVars, webVars, subscribed, due, pastVars>>
-----------------------------------------------------------------------------
Init ==
  /\ declared = FALSE /\ requests = <<>> /\ statistics = <<>>
  /\ hand = [w \in Webs |-> None] /\ sent = [w \in Webs |-> FALSE]
  /\ subscribed = {} /\ outbound = [b \in Browsers |-> {}]
  /\ received = [b \in Browsers |-> {}] /\ due = [b \in Browsers |-> {}]
  /\ passedOn = {} /\ snapshots = 0 /\ early = 0
  /\ dispatched = <<>> /\ losses = 0

Listen(w) == Take(w) \/ Dispatch(w) \/ Ack(w)

Next ==
  \/ Declare
  \/ \E r \in Requests : Forward(r)
  \/ PublishStatistics
  \/ \E w \in Webs : Listen(w) \/ LoseConnection(w)
  \/ \E b \in Browsers : Subscribe(b) \/ Unsubscribe(b) \/ Receive(b)

Spec == Init /\ [][Next]_vars

\* The containers keep taking messages and the outbound threads keep writing.
Fairness ==
  /\ \A w \in Webs : WF_vars(Listen(w))
  /\ \A b \in Browsers : WF_vars(Receive(b))

FairSpec == Spec /\ Fairness
-----------------------------------------------------------------------------
Snapshots == 1..snapshots

\* Every variable has its type; what waits for a browser, or was received by
\* it, was published.
TypeOK ==
  /\ declared \in BOOLEAN
  /\ requests \in Seq(Requests) /\ passedOn \subseteq Requests
  /\ statistics \in Seq(Snapshots)
  /\ dispatched \in Seq([snapshot : Snapshots, web : Webs])
  /\ hand \in [Webs -> Snapshots \cup {None}] /\ sent \in [Webs -> BOOLEAN]
  /\ subscribed \subseteq Browsers
  /\ {outbound, received, due} \subseteq [Browsers -> SUBSET Snapshots]
  /\ snapshots \in 0..MaxSnapshots /\ early \in 0..snapshots
  /\ losses \in 0..MaxLosses

\* A request handed to the exchange is queued for processing, once the queues
\* are declared.  The code does not have this: the key that the queue is bound
\* with is not the key that requests are sent with.
ForwardedIsQueued ==
  [][\A r \in passedOn' \ passedOn :
       declared => requests' = Append(requests, r)]_vars

\* Once the queues are declared, no snapshot gets lost between the processor
\* and the web applications, also when one of them loses its connection with
\* a snapshot in its hands.
NoSnapshotLost ==
  \A n \in Snapshots \ 1..early :
    \/ ~declared
    \/ \E i \in DOMAIN statistics : statistics[i] = n
    \/ \E w \in Webs : hand[w] = n
    \/ \E i \in DOMAIN dispatched : dispatched[i].snapshot = n

\* The web applications share the snapshots out: none is dispatched again
\* unless the broker took it back.
DispatchedOnce ==
  \A n \in Snapshots :
    Cardinality({i \in DOMAIN dispatched : dispatched[i].snapshot = n})
      <= 1 + losses

\* The way of a snapshot through the shared queue: never lost, and dispatched
\* once for each time the broker hands it out.
SnapshotsAccounted == NoSnapshotLost /\ DispatchedOnce

\* A browser receives every snapshot published while it is subscribed, unless
\* another web application than its own has dispatched it: each takes only a
\* share of the snapshots.
EverySnapshotReceived ==
  \A b \in Browsers, n \in 1..MaxSnapshots :
    n \in due[b] ~> \/ n \in received[b]
                    \/ b \notin subscribed
                    \/ \E i \in DOMAIN dispatched :
                         /\ dispatched[i].snapshot = n
                         /\ dispatched[i].web # WebOf[b]
=============================================================================
