----------------------------- MODULE Processor ------------------------------
(***************************************************************************)
(* The processor: a listener thread that takes transfer requests from the  *)
(* request queue and adds them to the counters, and a timer thread that    *)
(* once a second moves the counters into the histories and publishes them. *)
(* Both do so in a block synchronized on MUTEX; every statement of the two *)
(* blocks is a step here.  The state around them is the broker's side of   *)
(* the queue (external: RabbitMQ and Spring's listener container, which    *)
(* acknowledges a message after the listener returns).                     *)
(***************************************************************************)
EXTENDS CompleteStatistics, FiniteSets

CONSTANTS
  Requests,        \* transfer requests, all of them valid
  Others,          \* messages of the queue that are no TransferRequest
  Countries, Currencies,
  CountryOf, CurrencyOf,
  None,            \* no message
  TicksPerMinute,  \* TICKS_PER_MINUTE, 60 in the code
  MaxFailures,     \* bound: publishes that may fail
  MaxDrops,        \* bound: connection losses with a message unacknowledged
  MaxCrashes       \* bound: crashes and restarts of the processor

Messages == Requests \cup Others

ASSUME ConstantsAssumption ==
  /\ CountryOf \in [Requests -> Countries]
  /\ CurrencyOf \in [Requests -> Currencies]
  /\ Requests \cap Others = {}
  /\ None \notin Messages
  /\ TicksPerMinute \in Nat \ {0}
  /\ {MaxFailures, MaxDrops, MaxCrashes} \subseteq Nat

VARIABLES
  queue,        \* request queue of the broker: messages ready for delivery
  unacked,      \* the message the broker waits an acknowledgement for
  listener,     \* listener thread: the statement it is at
  current,      \* the message in the listener's hands
  timer,        \* timer thread: the statement it is at
  mutex,        \* the thread that holds MUTEX
  lifetime, second, minute,   \* lifetimeStatistics, lastSecond-, lastMinute-
  perCountry, perCurrency,    \* statisticsPerCountry, statisticsPerCurrency
  wrapper,      \* completeStatisticsWrapper
  tickCount,    \* tickCount of the SecondsTimer
  published,    \* the snapshot the statistics exchange last accepted
  \* History variables, read by properties and by guards on bounds only.
  log,          \* requests processed since the start, one per event
  late,         \* events processed after the last-but-one tick of a minute
  ticks,        \* ticks since the start, modulo TicksPerMinute
  arrived,      \* messages that were put on the queue
  forgotten,    \* requests counted by an earlier run of the processor
  failures, drops, crashes

brokerVars  == <<queue, unacked, arrived>>
counterVars == <<lifetime, second, minute, perCountry, perCurrency>>
timerVars   == <<timer, wrapper, tickCount, published, ticks, failures>>
faultVars   == <<drops, crashes, forgotten>>

vars == <<brokerVars, listener, current, mutex, counterVars, timerVars,
          log, late, faultVars>>
-----------------------------------------------------------------------------
(***************************************************************************)
(* MUTEX.  A thread enters its block only while the lock is free.          *)
(***************************************************************************)
\* Mutant: the block is not synchronized.
EnterUnlocked(thread) == mutex' = thread

Enter(thread) == mutex = "free" /\ mutex' = thread

\* Mutant: the lock is not released.
LeaveLocked == UNCHANGED mutex

Leave == mutex' = "free"

\* The event of the request that is being processed.
Event == Len(log)
-----------------------------------------------------------------------------
(***************************************************************************)
(* The queue.  A publisher puts a message on it; the container hands the   *)
(* listener one message at a time; receiveMessage passes on requests and   *)
(* logs anything else, which is then acknowledged like the others.         *)
(***************************************************************************)
\* Mutant: receiveMessage passes on whatever it is given.
DispatchAll(m) == "lifetime"

Dispatch(m) == IF m \in Requests THEN "lifetime" ELSE "ack"

Arrive(m) ==
  /\ m \notin arrived
  /\ arrived' = arrived \cup {m}
  /\ queue' = Append(queue, m)
  /\ UNCHANGED <<unacked, listener, current, mutex, counterVars, timerVars,
                 log, late, faultVars>>

Deliver ==
  /\ listener = "idle"
  /\ queue # <<>>
  /\ current' = Head(queue)
  /\ unacked' = Head(queue)
  /\ queue' = Tail(queue)
  /\ listener' = Dispatch(Head(queue))
  /\ UNCHANGED <<arrived, mutex, counterVars, timerVars, log, late, faultVars>>

\* Mutant: the message is rejected, and so queued again, after it was counted.
AckRejects ==
  /\ listener = "ack"
  /\ listener' = "idle"
  /\ queue' = Append(queue, current)
  /\ current' = None
  /\ unacked' = None
  /\ UNCHANGED <<arrived, mutex, counterVars, timerVars, log, late, faultVars>>

Ack ==
  /\ listener = "ack"
  /\ listener' = "idle"
  /\ current' = None
  /\ unacked' = None
  /\ UNCHANGED <<queue, arrived, mutex, counterVars, timerVars, log, late,
                 faultVars>>
-----------------------------------------------------------------------------
(***************************************************************************)
(* processTransferRequest: the listener's synchronized block.              *)
(***************************************************************************)
AddLifetime ==
  /\ listener = "lifetime"
  /\ Enter("listener")
  /\ listener' = "second"
  /\ lifetime' = AddRequest(lifetime, Event + 1)
  /\ log' = Append(log, current)
  /\ late' = IF ticks = TicksPerMinute - 1 THEN late \cup {Event + 1} ELSE late
  /\ UNCHANGED <<brokerVars, current, second, minute, perCountry, perCurrency,
                 timerVars, faultVars>>

AddSecond ==
  /\ listener = "second"
  /\ listener' = "minute"
  /\ second' = AddRequest(second, Event)
  /\ UNCHANGED <<brokerVars, current, mutex, lifetime, minute, perCountry,
                 perCurrency, timerVars, log, late, faultVars>>

AddMinute ==
  /\ listener = "minute"
  /\ listener' = "country"
  /\ minute' = AddRequest(minute, Event)
  /\ UNCHANGED <<brokerVars, current, mutex, lifetime, second, perCountry,
                 perCurrency, timerVars, log, late, faultVars>>

AddCountry ==
  /\ listener = "country"
  /\ listener' = "currency"
  /\ perCountry' = [perCountry EXCEPT ![CountryOf[current]] =
                      AddRequest(@, Event)]
  /\ UNCHANGED <<brokerVars, current, mutex, lifetime, second, minute,
                 perCurrency, timerVars, log, late, faultVars>>

\* The last statement of the block; the lock is released after it.
AddCurrency ==
  /\ listener = "currency"
  /\ listener' = "ack"
  /\ Leave
  /\ perCurrency' = [perCurrency EXCEPT ![CurrencyOf[current]] =
                       AddRequest(@, Event)]
  /\ UNCHANGED <<brokerVars, current, lifetime, second, minute, perCountry,
                 timerVars, log, late, faultVars>>

Listen ==
  \/ Deliver
  \/ AddLifetime \/ AddSecond \/ AddMinute \/ AddCountry \/ AddCurrency
  \/ Ack
-----------------------------------------------------------------------------
(***************************************************************************)
(* SecondsTimer.run: the timer's synchronized block.  With one tick per    *)
(* second every tick begins a new second.                                  *)
(***************************************************************************)
TicksPerSecond == 1

NewSecond(n) == n % TicksPerSecond = 0

\* Mutant: the minute begins a tick late.
NewMinuteLate(n) == n % TicksPerMinute = 1

NewMinute(n) == n % TicksPerMinute = 0

\* Mutant: the figures of a second or minute are never begun anew.
NeverRestarted(statistics, new) == statistics

\* The figures of the running second or minute, for the ticks to come.
Restarted(statistics, new) == IF new THEN NoStatistics ELSE statistics

\* Mutant: the counter is reduced to its place in the second.
ReducedToSecond(n) == n % TicksPerSecond

\* tickCount, kept from growing.
Reduced(n) == n % TicksPerMinute

TickSecond ==
  /\ timer = "idle"
  /\ Enter("timer")
  /\ timer' = "minute"
  /\ tickCount' = tickCount + 1
  /\ ticks' = (ticks + 1) % TicksPerMinute
  /\ wrapper' = UpdateSecond(wrapper, second, NewSecond(tickCount + 1))
  /\ UNCHANGED <<brokerVars, listener, current, counterVars, published,
                 failures, log, late, faultVars>>

TickMinute ==
  /\ timer = "minute"
  /\ timer' = "lifetime"
  /\ wrapper' = UpdateMinute(wrapper, minute, NewMinute(tickCount))
  /\ UNCHANGED <<brokerVars, listener, current, mutex, counterVars, tickCount,
                 published, ticks, failures, log, late, faultVars>>

\* Also sets the wrapper's references to the live maps, which never change.
TickLifetime ==
  /\ timer = "lifetime"
  /\ timer' = "reset"
  /\ wrapper' = UpdateLifetime(wrapper, lifetime)
  /\ UNCHANGED <<brokerVars, listener, current, mutex, counterVars, tickCount,
                 published, ticks, failures, log, late, faultVars>>

TickReset ==
  /\ timer = "reset"
  /\ timer' = "publish"
  /\ second' = Restarted(second, NewSecond(tickCount))
  /\ minute' = Restarted(minute, NewMinute(tickCount))
  /\ UNCHANGED <<brokerVars, listener, current, mutex, lifetime, perCountry,
                 perCurrency, wrapper, tickCount, published, ticks, failures,
                 log, late, faultVars>>

\* What convertAndSend serializes: the wrapper and, through its references,
\* the live maps.
Snapshot ==
  [seconds     |-> wrapper.seconds,
   minutes     |-> wrapper.minutes,
   lifetime    |-> wrapper.lifetime,
   perCountry  |-> perCountry,
   perCurrency |-> perCurrency]

TickPublish ==
  /\ timer = "publish"
  /\ timer' = "idle"
  /\ published' = Snapshot
  /\ tickCount' = Reduced(tickCount)
  /\ Leave
  /\ UNCHANGED <<brokerVars, listener, current, counterVars, wrapper, ticks,
                 failures, log, late, faultVars>>

\* convertAndSend throws: the exception is logged outside the synchronized
\* block, and the statement that reduces tickCount is not reached.
TickPublishFails ==
  /\ timer = "publish"
  /\ failures < MaxFailures
  /\ failures' = failures + 1
  /\ timer' = "idle"
  /\ Leave
  /\ UNCHANGED <<brokerVars, listener, current, counterVars, wrapper,
                 tickCount, published, ticks, log, late, faultVars>>

Tick ==
  \/ TickSecond \/ TickMinute \/ TickLifetime \/ TickReset
  \/ TickPublish \/ TickPublishFails
-----------------------------------------------------------------------------
(***************************************************************************)
(* Faults.                                                                 *)
(***************************************************************************)
\* Mutant: the broker drops a message nobody acknowledged.
NotRequeued == queue

\* The broker's queue once it has taken back a message nobody acknowledged.
Requeued == IF unacked = None THEN queue ELSE <<unacked>> \o queue

\* The connection is lost while a message is unacknowledged: the broker takes
\* it back, while the listener finishes its work and fails to acknowledge.
LoseConnection ==
  /\ unacked # None
  /\ drops < MaxDrops
  /\ drops' = drops + 1
  /\ queue' = Requeued
  /\ unacked' = None
  /\ UNCHANGED <<arrived, listener, current, mutex, counterVars, timerVars,
                 log, late, crashes, forgotten>>

\* The process dies and is started again; nothing it holds survives.
Crash ==
  /\ crashes < MaxCrashes
  /\ crashes' = crashes + 1
  /\ queue' = Requeued
  /\ unacked' = None
  /\ forgotten' = forgotten \cup {log[e] : e \in DOMAIN log}
  /\ listener' = "idle"
  /\ current' = None
  /\ timer' = "idle"
  /\ mutex' = "free"
  /\ lifetime' = NoStatistics
  /\ second' = NoStatistics
  /\ minute' = NoStatistics
  /\ perCountry' = [c \in Countries |-> NoStatistics]
  /\ perCurrency' = [k \in Currencies |-> NoStatistics]
  /\ wrapper' = EmptyWrapper
  /\ tickCount' = 0
  /\ ticks' = 0
  /\ log' = <<>>
  /\ late' = {}
  /\ UNCHANGED <<arrived, published, failures, drops>>
-----------------------------------------------------------------------------
Init ==
  /\ queue = <<>> /\ unacked = None /\ arrived = {}
  /\ listener = "idle" /\ current = None
  /\ timer = "idle" /\ mutex = "free"
  /\ lifetime = NoStatistics /\ second = NoStatistics /\ minute = NoStatistics
  /\ perCountry = [c \in Countries |-> NoStatistics]
  /\ perCurrency = [k \in Currencies |-> NoStatistics]
  /\ wrapper = EmptyWrapper
  /\ tickCount = 0 /\ ticks = 0
  /\ published = Snapshot
  /\ log = <<>> /\ late = {} /\ forgotten = {}
  /\ failures = 0 /\ drops = 0 /\ crashes = 0

Next ==
  \/ \E m \in Messages : Arrive(m)
  \/ Listen
  \/ Tick
  \/ LoseConnection
  \/ Crash

Spec == Init /\ [][Next]_vars

(***************************************************************************)
(* Both threads keep running.  A listener that waits for the lock gets it: *)
(* monitors are not fair, but the timer leaves the lock alone for nearly a *)
(* second after each tick.  The timer's own wait ends because the listener *)
(* waits for deliveries outside the lock.                                  *)
(***************************************************************************)
Fairness == WF_vars(Listen) /\ WF_vars(Tick) /\ SF_vars(AddLifetime)

FairSpec == Spec /\ Fairness
-----------------------------------------------------------------------------
(***************************************************************************)
(* Properties.                                                             *)
(***************************************************************************)
Statistics == SUBSET Nat

Snapshots ==
  [seconds : Seq(Statistics), minutes : Seq(Statistics), lifetime : Statistics,
   perCountry : [Countries -> Statistics],
   perCurrency : [Currencies -> Statistics]]

\* Every variable has its type.  The listener holds a request whenever it is
\* in its synchronized block, which is what makes the map lookups there
\* (getOriginatingCountry, the currency key) defined.
TypeOK ==
  /\ queue \in Seq(Messages) /\ arrived \subseteq Messages
  /\ unacked \in Messages \cup {None} /\ current \in Messages \cup {None}
  /\ listener \in {"idle", "lifetime", "second", "minute", "country",
                   "currency", "ack"}
  /\ listener \notin {"idle", "ack"} => current \in Requests
  /\ timer \in {"idle", "minute", "lifetime", "reset", "publish"}
  /\ mutex \in {"free", "listener", "timer"}
  /\ lifetime \in Statistics /\ second \in Statistics /\ minute \in Statistics
  /\ perCountry \in [Countries -> Statistics]
  /\ perCurrency \in [Currencies -> Statistics]
  /\ wrapper \in [seconds : Seq(Statistics), minutes : Seq(Statistics),
                  lifetime : Statistics]
  /\ published \in Snapshots
  /\ tickCount \in Nat /\ ticks \in 0..(TicksPerMinute - 1)
  /\ log \in Seq(Requests) /\ late \in Statistics
  /\ forgotten \subseteq Requests
  /\ failures \in Nat /\ drops \in Nat /\ crashes \in Nat

\* The processor implements the service: each request is counted at one
\* moment, in all its counters, and a published snapshot shows the lifetime,
\* country and currency figures of one and the same moment, although the two
\* threads change them statement by statement.
Service == INSTANCE StatisticsService WITH
  counted <- log,
  view <- [lifetime |-> published.lifetime,
           perCountry |-> published.perCountry,
           perCurrency |-> published.perCurrency]

ImplementsService == Service!Spec

\* Entries of a history run from the newest to the oldest and share nothing.
NewestFirst(history) ==
  \A i, j \in DOMAIN history :
    i < j => \A e \in history[i], f \in history[j] : f < e

\* A history that accounts for an event accounts for all later ones.
Gapless(history, events) ==
  \A e \in Covered(history), f \in events : e < f => f \in Covered(history)

\* The published per-second history: no request is in two of its entries, and
\* none is missing between the oldest one shown and the newest one counted,
\* also across failed publishes and trimming.
SecondsTile ==
  /\ NewestFirst(published.seconds)
  /\ Gapless(published.seconds, published.lifetime)

\* The same for the per-minute history, as the page presents it.  The code
\* does not have this: on the first tick of a minute the front entry, which
\* by then is the full account of the minute before, is replaced by that of
\* the new minute.
MinutesGapless == Gapless(published.minutes, published.lifetime)

\* What the per-minute history does keep: the only requests it ever loses are
\* those processed between the last two ticks of a minute.
MinutesLoseOnlyLastSecond ==
  timer = "publish" =>
    \A e \in Covered(wrapper.minutes), f \in lifetime :
      e < f /\ f \notin Covered(wrapper.minutes) => f \in late

\* The tick counter keeps the phase within the minute, although a failed
\* publish skips the statement that reduces it.
TickPhase == tickCount % TicksPerMinute = ticks

\* A request leaves the broker only when it has been counted: it waits, is
\* unacknowledged, or was counted by this run or an earlier one.
NoRequestLost ==
  \A r \in arrived \cap Requests :
    \/ \E i \in DOMAIN queue : queue[i] = r
    \/ unacked = r
    \/ \E e \in DOMAIN log : log[e] = r
    \/ r \in forgotten

\* A request is counted again only if the broker took it back.
CountedOncePerDelivery ==
  \A r \in Requests : Cardinality({e \in DOMAIN log : log[e] = r}) <= 1 + drops

\* However often the connection is lost, a request is neither lost nor counted
\* more often than it was delivered.
RequestsAccounted == NoRequestLost /\ CountedOncePerDelivery

\* What the two histories account for, whatever publish fails: all requests in
\* a row, or all but those of the last second of a minute.
HistoriesAccount == SecondsTile /\ MinutesLoseOnlyLastSecond

\* Every request put on the queue is eventually in the published lifetime
\* figures, and stays there until a crash forgets it.
Shown(r) ==
  \/ r \in forgotten
  \/ \E e \in published.lifetime : e \in DOMAIN log /\ log[e] = r

EveryRequestShown == \A r \in Requests : r \in arrived ~> []Shown(r)
-----------------------------------------------------------------------------
(***************************************************************************)
(* The inductive invariant behind the theorems of ProcessorProofs.  A set  *)
(* named Pending holds the event that was added to the lifetime figures    *)
(* but not yet to the counter in question.                                 *)
(***************************************************************************)
Pending(statements) == IF listener \in statements THEN {Event} ELSE {}

\* A thread is in its block exactly while it holds MUTEX.
LockHeld ==
  /\ mutex = "listener" <=> listener \in {"second", "minute", "country",
                                          "currency"}
  /\ mutex = "timer" <=> timer # "idle"

CountersAgree ==
  /\ lifetime = 1..Event
  /\ perCountry =
       [c \in Countries |->
          Service!OfCountry(log, c) \ Pending({"second", "minute", "country"})]
  /\ perCurrency =
       [k \in Currencies |->
          Service!OfCurrency(log, k) \
            Pending({"second", "minute", "country", "currency"})]
  /\ mutex = "listener" => log # <<>> /\ log[Event] = current
  /\ timer \in {"reset", "publish"} => wrapper.lifetime = lifetime

\* The history and the running second, taken together, account for the latest
\* events: an older entry has older events, and nothing is missing in between.
SecondsAgree ==
  LET running == second \cup Pending({"second"})
      past    == Covered(wrapper.seconds)
  IN  /\ NewestFirst(wrapper.seconds)
      /\ past \cup running \subseteq lifetime
      /\ \A f \in lifetime :
           \/ f \in running
           \/ f \in past /\ \A e \in running : f < e
           \/ \A e \in past \cup running : f < e
      /\ timer \in {"idle", "publish"} => past \cap running = {}
      /\ timer \in {"minute", "lifetime", "reset"} =>
           wrapper.seconds # <<>> /\ wrapper.seconds[1] = second
      /\ timer = "publish" => second = {}

\* The running minute is empty, or has no account in the history yet: from the
\* first reset of a minute to the first update after it.
MinuteBegins ==
  \/ ticks = 0 /\ timer \in {"idle", "publish"}
  \/ ticks = 1 % TicksPerMinute /\ timer = "minute"

\* The full account of a minute, in front of the one made a tick before.
MinuteEnds == ticks = 0 /\ timer \in {"lifetime", "reset"}

\* Of two entries the newer one has newer events only, or those of the older.
NewestFirstOrShared(history) ==
  \A i, j \in DOMAIN history : i < j =>
    \A f \in history[j] : f \in history[i] \/ \A e \in history[i] : f < e

\* All that the front has alone was processed after the last-but-one tick.
FrontIsLate(history) ==
  Len(history) > 1 => history[1] \subseteq history[2] \cup late

\* The same for the minutes.  Here two entries may share events, for the full
\* account of a minute is put in front of the one made a tick before; when it
\* is replaced by that of the new minute, what it had alone is lost.
MinutesAgree ==
  LET running == minute \cup Pending({"second", "minute"})
      history == wrapper.minutes
      past    == Covered(history)
  IN  /\ past \cup running \subseteq lifetime
      /\ \A f \in lifetime :
           \/ f \in past \cup running \cup late
           \/ \A e \in past \cup running : f < e
      /\ NewestFirstOrShared(history)
      /\ MinuteBegins \/ MinuteEnds => FrontIsLate(history)
      /\ MinuteBegins => \A e \in past, f \in running : e < f
      /\ ~MinuteBegins => history # <<>> /\ history[1] \subseteq running
      /\ ~MinuteBegins /\ timer \notin {"idle", "minute"} => history[1] = minute
      /\ ~MinuteBegins /\ ~MinuteEnds =>
           /\ \A j \in DOMAIN history \ {1} :
                \A f \in history[j], e \in running : f < e
           /\ ticks = 0 \/ (ticks = TicksPerMinute - 1 /\ timer # "minute")
                => running \subseteq history[1] \cup late
      /\ timer = "publish" /\ ticks = 0 => minute = {}
      /\ TicksPerMinute = 1 => lifetime \subseteq late

\* The processor's counters agree with the requests it processed at every
\* statement of the two synchronized blocks, not only between them.
Consistent ==
  /\ LockHeld /\ CountersAgree /\ SecondsAgree /\ MinutesAgree /\ TickPhase
  /\ SecondsTile

\* How often a request was counted, and how often it waits on the queue.
CountOf(r) == Cardinality({e \in DOMAIN log : log[e] = r})
Waiting(r) == Cardinality({i \in DOMAIN queue : queue[i] = r})

\* 1 if the listener has the request in its hands and has not counted it yet.
Uncounted(r) == IF listener = "lifetime" /\ current = r THEN 1 ELSE 0

\* A request that the broker took back adds one delivery, and only that.
DeliveriesAgree ==
  /\ unacked # None => unacked = current /\ unacked \in arrived
  /\ listener = "idle" => unacked = None
  /\ \A i \in DOMAIN queue : queue[i] \in arrived
  /\ \A e \in DOMAIN log : log[e] \in arrived
  /\ current # None => current \in arrived
  /\ listener # "idle" /\ unacked \in Requests =>
       \/ listener = "lifetime"
       \/ \E e \in DOMAIN log : log[e] = unacked
  /\ \A r \in Requests : CountOf(r) + Waiting(r) + Uncounted(r) <= 1 + drops
  /\ NoRequestLost
=============================================================================
