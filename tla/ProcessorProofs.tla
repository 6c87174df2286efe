-------------------------- MODULE ProcessorProofs ---------------------------
(***************************************************************************)
(* Theorems about module Processor, for every value of its constants: what *)
(* the counters and the published histories say, and, in the last part,    *)
(* that no request is lost on its way from the queue to the counters and   *)
(* none is counted more often than it was delivered.                       *)
(***************************************************************************)
EXTENDS Processor, Integers, FiniteSets, FiniteSetTheorems, FunctionTheorems,
        TLAPS

-----------------------------------------------------------------------------
(***************************************************************************)
(* Histories.                                                              *)
(***************************************************************************)
\* What updateSecond and updateMinute make of a history: the new entry is in
\* front, and below it are the entries that follow in the old one, as many as
\* there is room for.
LEMMA UpdatedEntries ==
  ASSUME NEW history \in Seq(Statistics), NEW statistics \in Statistics,
         NEW addNew \in BOOLEAN
  PROVE  LET updated == Updated(history, statistics, addNew)
         IN  /\ updated \in Seq(Statistics)
             /\ updated # <<>>
             /\ updated[1] = statistics
             /\ addNew =>
                  /\ Len(updated) <= Len(history) + 1
                  /\ \A i \in 2..Len(updated) : updated[i] = history[i - 1]
<1> DEFINE updated == Updated(history, statistics, addNew)
<1>1. CASE addNew \/ history = <<>>
  <2> DEFINE long == <<statistics>> \o history
             room == IF Len(long) > HistorySize THEN HistorySize ELSE Len(long)
  <2>1. /\ long \in Seq(Statistics)
        /\ Len(long) = Len(history) + 1
        /\ long[1] = statistics
        /\ \A i \in 2..Len(long) : long[i] = history[i - 1]
    OBVIOUS
  <2>2. room \in 1..Len(long)
    BY <2>1, HistorySizeAssumption
  <2>3. updated = SubSeq(long, 1, room)
    BY <1>1 DEF Updated, Trimmed
  <2> HIDE DEF long, room, updated
  <2>4. /\ updated \in Seq(Statistics)
        /\ Len(updated) = room
        /\ \A i \in 1..room : updated[i] = long[i]
    BY <2>1, <2>2, <2>3
  <2> QED
    BY <2>1, <2>2, <2>4 DEF updated
<1>2. CASE ~(addNew \/ history = <<>>)
  <2>1. updated = <<statistics>> \o Tail(history)
    BY <1>2 DEF Updated
  <2>2. Tail(history) \in Seq(Statistics)
    BY <1>2
  <2> QED
    BY <1>2, <2>1, <2>2
<1> QED
  BY <1>1, <1>2
-----------------------------------------------------------------------------
(***************************************************************************)
(* The tick counter.                                                       *)
(***************************************************************************)
\* The remainder is unique.
LEMMA UniqueRemainder ==
  ASSUME NEW n \in Nat \ {0}, NEW p \in Int, NEW q \in Int,
         NEW r \in 0..(n - 1), NEW s \in 0..(n - 1),
         n * p + r = n * q + s
  PROVE  r = s
<1>1. n * (p - q) = s - r
  OBVIOUS
<1>2. CASE p - q >= 1
  <2>1. n * (p - q) >= n
    BY <1>2
  <2> QED
    BY <1>1, <2>1
<1>3. CASE p - q <= -1
  <2>1. n * (p - q) <= -n
    BY <1>3
  <2> QED
    BY <1>1, <2>1
<1>4. CASE p - q = 0
  BY <1>1, <1>4
<1> QED
  BY <1>2, <1>3, <1>4

\* Quotient and remainder of a natural number.
LEMMA Division ==
  ASSUME NEW n \in Nat \ {0}, NEW a \in Nat
  PROVE  /\ a % n \in 0..(n - 1)
         /\ a \div n \in Int
         /\ a = n * (a \div n) + (a % n)
  OBVIOUS

\* Reducing a number before it is increased does not change the remainder.
LEMMA NextRemainder ==
  ASSUME NEW n \in Nat \ {0}, NEW a \in Nat
  PROVE  (a + 1) % n = ((a % n) + 1) % n
<1> DEFINE b == (a % n) + 1
<1>1. /\ a % n \in 0..(n - 1)
      /\ a \div n \in Int
      /\ a = n * (a \div n) + (a % n)
  BY Division
<1>2. b \in Nat
  BY <1>1
<1> HIDE DEF b
<1>3. /\ b % n \in 0..(n - 1)
      /\ b \div n \in Int
      /\ b = n * (b \div n) + (b % n)
  BY <1>2, Division
<1> DEFINE c == a + 1
<1>4. c \in Nat
  OBVIOUS
<1> HIDE DEF c
<1>5. /\ c % n \in 0..(n - 1)
      /\ c \div n \in Int
      /\ c = n * (c \div n) + (c % n)
  BY <1>4, Division
<1>6. n * (c \div n) + (c % n) = n * ((a \div n) + (b \div n)) + (b % n)
  <2>1. c = n * (a \div n) + b
    BY <1>1 DEF b, c
  <2>2. \A p, q \in Int : n * (p + q) = n * p + n * q
    OBVIOUS
  <2>3. n * ((a \div n) + (b \div n)) = n * (a \div n) + n * (b \div n)
    BY <1>1, <1>3, <2>2
  <2>4. /\ n * (a \div n) \in Int
        /\ n * (b \div n) \in Int
        /\ n * (c \div n) \in Int
    BY <1>1, <1>3, <1>5
  <2> QED
    BY <1>1, <1>3, <1>5, <2>1, <2>3, <2>4
<1>7. (a \div n) + (b \div n) \in Int
  BY <1>1, <1>3
<1>8. c % n = b % n
  BY <1>3, <1>5, <1>6, <1>7, UniqueRemainder
<1> QED
  BY <1>8 DEF b, c

\* Reducing a number twice is reducing it once.
LEMMA RemainderTwice ==
  ASSUME NEW n \in Nat \ {0}, NEW a \in Nat
  PROVE  (a % n) % n = a % n
<1> DEFINE b == a % n
<1>1. b \in 0..(n - 1)
  BY Division
<1> HIDE DEF b
<1>2. b % n \in 0..(n - 1) /\ b \div n \in Int /\ b = n * (b \div n) + (b % n)
  BY <1>1, Division
<1>3. n * 0 + b = n * (b \div n) + (b % n)
  BY <1>1, <1>2
<1>4. b = b % n
  BY <1>1, <1>2, <1>3, UniqueRemainder
<1> QED
  BY <1>4 DEF b
-----------------------------------------------------------------------------
(***************************************************************************)
(* Types.                                                                  *)
(***************************************************************************)
\* The initial values have their types.
LEMMA InitTypes == Init => TypeOK
  BY HistorySizeAssumption, ConstantsAssumption
  DEF Init, TypeOK, EmptyWrapper, NoStatistics, Snapshot, Snapshots,
      Statistics, Messages

\* Events are numbered by natural numbers.
LEMMA EventType ==
  ASSUME TypeOK
  PROVE  Event \in Nat
  BY DEF TypeOK, Event

\* What the broker makes of a queue it has to take a message back into.
LEMMA RequeuedType ==
  ASSUME TypeOK
  PROVE  Requeued \in Seq(Messages)
  BY DEF TypeOK, Requeued

\* A step of the listener keeps the types.
LEMMA ListenTypes ==
  ASSUME TypeOK, Listen
  PROVE  TypeOK'
<1> USE ConstantsAssumption DEF brokerVars, counterVars, timerVars, faultVars
<1>1. CASE Deliver
  BY <1>1 DEF Deliver, Dispatch, TypeOK, Messages
<1>2. CASE AddLifetime
  <2>1. Event + 1 \in Nat /\ log' \in Seq(Requests)
    BY <1>2 DEF AddLifetime, Event, TypeOK
  <2>2. lifetime' \in Statistics /\ late' \in Statistics
    BY <1>2, <2>1 DEF AddLifetime, AddRequest, TypeOK, Statistics
  <2> QED
    BY <1>2, <2>1, <2>2 DEF AddLifetime, Enter, TypeOK
<1>3. CASE AddSecond
  <2>1. second' \in Statistics
    BY <1>3, EventType DEF AddSecond, AddRequest, TypeOK, Statistics
  <2> QED
    BY <1>3, <2>1 DEF AddSecond, TypeOK
<1>4. CASE AddMinute
  <2>1. minute' \in Statistics
    BY <1>4, EventType DEF AddMinute, AddRequest, TypeOK, Statistics
  <2> QED
    BY <1>4, <2>1 DEF AddMinute, TypeOK
<1>5. CASE AddCountry
  <2>1. perCountry' \in [Countries -> Statistics]
    BY <1>5, EventType DEF AddCountry, AddRequest, TypeOK, Statistics
  <2> QED
    BY <1>5, <2>1 DEF AddCountry, TypeOK
<1>6. CASE AddCurrency
  <2>1. perCurrency' \in [Currencies -> Statistics]
    BY <1>6, EventType DEF AddCurrency, AddRequest, TypeOK, Statistics
  <2> QED
    BY <1>6, <2>1 DEF AddCurrency, Leave, TypeOK
<1>7. CASE Ack
  BY <1>7 DEF Ack, TypeOK
<1> QED
  BY <1>1, <1>2, <1>3, <1>4, <1>5, <1>6, <1>7 DEF Listen

\* A step of the timer keeps the types.
LEMMA TickTypes ==
  ASSUME TypeOK, Tick
  PROVE  TypeOK'
<1> USE ConstantsAssumption DEF brokerVars, counterVars, timerVars, faultVars
<1>1. CASE TickSecond
  <2> DEFINE new == Updated(wrapper.seconds, second, NewSecond(tickCount + 1))
  <2>1. new \in Seq(Statistics)
    BY UpdatedEntries DEF TypeOK, NewSecond
  <2>2. wrapper' = [wrapper EXCEPT !.seconds = new]
    BY <1>1 DEF TickSecond, UpdateSecond
  <2>3. tickCount' \in Nat /\ ticks' \in 0..(TicksPerMinute - 1)
    BY <1>1, Division DEF TickSecond, TypeOK
  <2> HIDE DEF new
  <2> QED
    BY <1>1, <2>1, <2>2, <2>3 DEF TickSecond, Enter, TypeOK
<1>2. CASE TickMinute
  <2> DEFINE new == Updated(wrapper.minutes, minute, NewMinute(tickCount))
  <2>1. new \in Seq(Statistics)
    BY UpdatedEntries DEF TypeOK, NewMinute
  <2>2. wrapper' = [wrapper EXCEPT !.minutes = new]
    BY <1>2 DEF TickMinute, UpdateMinute
  <2> HIDE DEF new
  <2> QED
    BY <1>2, <2>1, <2>2 DEF TickMinute, TypeOK
<1>3. CASE TickLifetime
  BY <1>3 DEF TickLifetime, UpdateLifetime, TypeOK
<1>4. CASE TickReset
  BY <1>4 DEF TickReset, Restarted, NoStatistics, TypeOK, Statistics
<1>5. CASE TickPublish
  <2>1. published' \in Snapshots
    BY <1>5 DEF TickPublish, Snapshot, Snapshots, TypeOK
  <2>2. tickCount' \in Nat
    BY <1>5, Division DEF TickPublish, Reduced, TypeOK
  <2> QED
    BY <1>5, <2>1, <2>2 DEF TickPublish, Leave, TypeOK
<1>6. CASE TickPublishFails
  BY <1>6 DEF TickPublishFails, Leave, TypeOK
<1> QED
  BY <1>1, <1>2, <1>3, <1>4, <1>5, <1>6 DEF Tick

\* Every other step keeps the types.
LEMMA OtherTypes ==
  ASSUME TypeOK,
         (\E m \in Messages : Arrive(m)) \/ LoseConnection \/ Crash
                                         \/ UNCHANGED vars
  PROVE  TypeOK'
<1> USE ConstantsAssumption DEF brokerVars, counterVars, timerVars, faultVars
<1>1. CASE \E m \in Messages : Arrive(m)
  BY <1>1 DEF Arrive, TypeOK
<1>2. CASE LoseConnection
  BY <1>2, RequeuedType DEF LoseConnection, TypeOK
<1>3. CASE Crash
  <2>1. {log[e] : e \in DOMAIN log} \subseteq Requests
    BY DEF TypeOK
  <2>2. wrapper' \in [seconds : Seq(Statistics), minutes : Seq(Statistics),
                      lifetime : Statistics]
    BY <1>3 DEF Crash, EmptyWrapper, NoStatistics, Statistics
  <2>3. /\ perCountry' \in [Countries -> Statistics]
        /\ perCurrency' \in [Currencies -> Statistics]
    BY <1>3 DEF Crash, NoStatistics, Statistics
  <2>4. /\ lifetime' \in Statistics /\ second' \in Statistics /\ minute' \in Statistics
    BY <1>3 DEF Crash, NoStatistics, Statistics
  <2>5. queue' \in Seq(Messages) /\ forgotten' \subseteq Requests
    BY <1>3, <2>1, RequeuedType DEF Crash, TypeOK
  <2>6. log' \in Seq(Requests) /\ ticks' \in 0..(TicksPerMinute - 1)
    BY <1>3 DEF Crash
  <2>7. /\ late' \in Statistics /\ published' \in Snapshots /\ arrived' \subseteq Messages
        /\ failures' \in Nat /\ drops' \in Nat /\ crashes' \in Nat
    BY <1>3 DEF Crash, TypeOK, NoStatistics, Statistics
  <2>8. /\ listener' = "idle" /\ timer' = "idle" /\ mutex' = "free"
        /\ unacked' = None /\ current' = None /\ tickCount' = 0
    BY <1>3 DEF Crash
  <2> QED
    BY <2>2, <2>3, <2>4, <2>5, <2>6, <2>7, <2>8 DEF TypeOK
<1>4. CASE UNCHANGED vars
  BY <1>4 DEF vars, TypeOK
<1> QED
  BY <1>1, <1>2, <1>3, <1>4

\* Every variable always has its type; in particular the listener holds a
\* request, never a message of another type, throughout its synchronized
\* block (Processor.receiveMessage, processTransferRequest).
THEOREM TypeCorrect == Spec => []TypeOK
<1>1. Init => TypeOK
  BY InitTypes
<1>2. TypeOK /\ [Next]_vars => TypeOK'
  BY ListenTypes, TickTypes, OtherTypes DEF Next
<1> QED
  BY <1>1, <1>2, PTL DEF Spec
-----------------------------------------------------------------------------
(***************************************************************************)
(* The lock and the tick counter.                                          *)
(***************************************************************************)
\* A step keeps the agreement of the lock with the two threads' positions.
LEMMA LockHeldStep ==
  ASSUME TypeOK, LockHeld, [Next]_vars
  PROVE  LockHeld'
<1> USE DEF brokerVars, counterVars, timerVars, faultVars, LockHeld
<1>1. CASE Listen
  BY <1>1
  DEF Listen, Deliver, Dispatch, AddLifetime, AddSecond, AddMinute, AddCountry,
      AddCurrency, Ack, Enter, Leave, TypeOK
<1>2. CASE Tick
  BY <1>2 DEF Tick, TickSecond, TickMinute, TickLifetime, TickReset,
              TickPublish, TickPublishFails, Enter, Leave, TypeOK
<1>3. CASE (\E m \in Messages : Arrive(m)) \/ LoseConnection \/ Crash
                                           \/ UNCHANGED vars
  BY <1>3 DEF Arrive, LoseConnection, Crash, vars
<1> QED
  BY <1>1, <1>2, <1>3 DEF Next

\* A step keeps the phase of the tick counter, whichever of the statements
\* that change it are reached.
LEMMA TickPhaseStep ==
  ASSUME TypeOK, TickPhase, [Next]_vars
  PROVE  TickPhase'
<1> USE ConstantsAssumption
    DEF brokerVars, counterVars, timerVars, faultVars, TickPhase
<1>1. CASE Listen
  BY <1>1 DEF Listen, Deliver, AddLifetime, AddSecond, AddMinute, AddCountry,
              AddCurrency, Ack
<1>2. CASE TickSecond
  <2>1. (tickCount + 1) % TicksPerMinute = (ticks + 1) % TicksPerMinute
    BY NextRemainder DEF TypeOK
  <2> QED
    BY <1>2, <2>1 DEF TickSecond
<1>3. CASE TickPublish
  BY <1>3, RemainderTwice DEF TickPublish, Reduced, TypeOK
<1>4. CASE TickMinute \/ TickLifetime \/ TickReset \/ TickPublishFails
  BY <1>4 DEF TickMinute, TickLifetime, TickReset, TickPublishFails
<1>5. CASE Crash
  BY <1>5 DEF Crash
<1>6. CASE (\E m \in Messages : Arrive(m)) \/ LoseConnection \/ UNCHANGED vars
  BY <1>6 DEF Arrive, LoseConnection, vars
<1> QED
  BY <1>1, <1>2, <1>3, <1>4, <1>5, <1>6 DEF Next, Tick
-----------------------------------------------------------------------------
(***************************************************************************)
(* The counters.                                                           *)
(***************************************************************************)
\* The lock excludes a step of one thread within the other's block.
LEMMA Exclusion ==
  ASSUME TypeOK, LockHeld
  PROVE  /\ timer # "idle" => listener \in {"idle", "lifetime", "ack"}
         /\ mutex = "free" => /\ timer = "idle"
                              /\ listener \in {"idle", "lifetime", "ack"}
  BY DEF TypeOK, LockHeld

\* The figures of a country once one more request is processed.
LEMMA OfCountryAppend ==
  ASSUME NEW requests \in Seq(Requests), NEW r \in Requests,
         NEW c \in Countries
  PROVE  Service!OfCountry(Append(requests, r), c) \ {Len(requests) + 1}
           = Service!OfCountry(requests, c)
  BY DEF Service!OfCountry

\* The same for a currency key.
LEMMA OfCurrencyAppend ==
  ASSUME NEW requests \in Seq(Requests), NEW r \in Requests,
         NEW k \in Currencies
  PROVE  Service!OfCurrency(Append(requests, r), k) \ {Len(requests) + 1}
           = Service!OfCurrency(requests, k)
  BY DEF Service!OfCurrency

\* A step of the listener keeps the counters in agreement with the log.
LEMMA CountersListen ==
  ASSUME TypeOK, LockHeld, CountersAgree, Listen
  PROVE  CountersAgree'
<1> USE ConstantsAssumption DEF brokerVars, counterVars, timerVars, faultVars
<1>1. CASE Deliver \/ Ack
  BY <1>1, Exclusion
  DEF Deliver, Dispatch, Ack, CountersAgree, LockHeld, Pending, Event
<1>2. CASE AddLifetime
  <2>1. /\ listener = "lifetime" /\ listener' = "second"
        /\ mutex = "free" /\ timer = "idle" /\ timer' = timer
        /\ log' = Append(log, current) /\ current' = current
        /\ log \in Seq(Requests) /\ current \in Requests
        /\ UNCHANGED <<perCountry, perCurrency, wrapper>>
    BY <1>2, Exclusion DEF AddLifetime, Enter, TypeOK
  <2>2. /\ Event \in Nat /\ Event' = Event + 1
        /\ log'[Event'] = current /\ log' # <<>>
    BY <2>1, EventType DEF Event
  <2>3. lifetime' = 1..Event'
    BY <1>2, <2>2 DEF AddLifetime, AddRequest, CountersAgree
  <2>4. perCountry' = [c \in Countries |->
                         Service!OfCountry(log', c) \ {Event'}]
    BY <2>1, <2>2, OfCountryAppend DEF CountersAgree, Pending, Event
  <2>5. perCurrency' = [k \in Currencies |->
                          Service!OfCurrency(log', k) \ {Event'}]
    BY <2>1, <2>2, OfCurrencyAppend DEF CountersAgree, Pending, Event
  <2> QED
    BY <2>1, <2>2, <2>3, <2>4, <2>5 DEF CountersAgree, Pending
<1>3. CASE AddSecond
  BY <1>3 DEF AddSecond, CountersAgree, Pending, Event
<1>4. CASE AddMinute
  BY <1>4 DEF AddMinute, CountersAgree, Pending, Event
<1>5. CASE AddCountry
  <2>1. /\ listener = "country" /\ listener' = "currency"
        /\ log # <<>> /\ log[Event] = current /\ Event \in 1..Len(log)
        /\ UNCHANGED <<log, current, timer, mutex, lifetime, perCurrency,
                       wrapper>>
        /\ Event' = Event
    BY <1>5, EventType
    DEF AddCountry, CountersAgree, LockHeld, TypeOK, Event
  <2>2. perCountry' = [c \in Countries |-> Service!OfCountry(log, c)]
    <3>1. perCountry =
            [c \in Countries |-> Service!OfCountry(log, c) \ {Event}]
      BY <2>1 DEF CountersAgree, Pending
    <3>2. \A c \in Countries :
            Event \in Service!OfCountry(log, c) <=> c = CountryOf[current]
      BY <2>1 DEF Service!OfCountry
    <3> QED
      BY <1>5, <3>1, <3>2 DEF AddCountry, AddRequest
  <2> QED
    BY <2>1, <2>2 DEF CountersAgree, Pending
<1>6. CASE AddCurrency
  <2>1. /\ listener = "currency" /\ listener' = "ack" /\ mutex' = "free"
        /\ log[Event] = current /\ Event \in 1..Len(log)
        /\ UNCHANGED <<log, current, timer, lifetime, perCountry, wrapper>>
        /\ Event' = Event
    BY <1>6, EventType
    DEF AddCurrency, Leave, CountersAgree, LockHeld, TypeOK, Event
  <2>2. perCurrency' = [k \in Currencies |-> Service!OfCurrency(log, k)]
    <3>1. perCurrency =
            [k \in Currencies |-> Service!OfCurrency(log, k) \ {Event}]
      BY <2>1 DEF CountersAgree, Pending
    <3>2. \A k \in Currencies :
            Event \in Service!OfCurrency(log, k) <=> k = CurrencyOf[current]
      BY <2>1 DEF Service!OfCurrency
    <3> QED
      BY <1>6, <3>1, <3>2 DEF AddCurrency, AddRequest
  <2> QED
    BY <2>1, <2>2 DEF CountersAgree, Pending
<1> QED
  BY <1>1, <1>2, <1>3, <1>4, <1>5, <1>6 DEF Listen

\* A step of the timer changes no counter but those of the running second
\* and minute, and publishes the lifetime figures of the present moment.
LEMMA CountersTick ==
  ASSUME TypeOK, LockHeld, CountersAgree, Tick
  PROVE  CountersAgree'
<1> USE DEF brokerVars, counterVars, timerVars, faultVars
<1>1. UNCHANGED <<log, current, listener, lifetime, perCountry, perCurrency>>
  BY DEF Tick, TickSecond, TickMinute, TickLifetime, TickReset, TickPublish,
         TickPublishFails
<1>2. mutex' = "listener" => mutex = "listener"
  BY DEF Tick, TickSecond, TickMinute, TickLifetime, TickReset, TickPublish,
         TickPublishFails, Enter, Leave
<1>3. timer' \in {"reset", "publish"} => wrapper'.lifetime = lifetime
  BY DEF Tick, TickSecond, TickMinute, TickLifetime, TickReset, TickPublish,
         TickPublishFails, UpdateLifetime, CountersAgree, TypeOK
<1> QED
  BY <1>1, <1>2, <1>3 DEF CountersAgree, Pending, Event

\* The other steps leave the counters alone or begin again.
LEMMA CountersOther ==
  ASSUME TypeOK, LockHeld, CountersAgree,
         (\E m \in Messages : Arrive(m)) \/ LoseConnection \/ Crash
                                         \/ UNCHANGED vars
  PROVE  CountersAgree'
<1> USE DEF brokerVars, counterVars, timerVars, faultVars
<1>1. CASE Crash
  BY <1>1
  DEF Crash, CountersAgree, Pending, Event, NoStatistics,
      Service!OfCountry, Service!OfCurrency
<1>2. CASE (\E m \in Messages : Arrive(m)) \/ LoseConnection \/ UNCHANGED vars
  BY <1>2
  DEF Arrive, LoseConnection, vars, CountersAgree, Pending, Event
<1> QED
  BY <1>1, <1>2
-----------------------------------------------------------------------------
(***************************************************************************)
(* The per-second history.                                                 *)
(***************************************************************************)
\* What a history accounts for, once a new entry is in front of it.
LEMMA CoveredUpdated ==
  ASSUME NEW history \in Seq(Statistics), NEW statistics \in Statistics
  PROVE  LET updated == Updated(history, statistics, TRUE)
         IN  /\ statistics \subseteq Covered(updated)
             /\ Covered(updated) \subseteq statistics \cup Covered(history)
<1> DEFINE updated == Updated(history, statistics, TRUE)
<1>1. /\ updated \in Seq(Statistics) /\ updated # <<>>
      /\ updated[1] = statistics
      /\ Len(updated) <= Len(history) + 1
      /\ \A i \in 2..Len(updated) : updated[i] = history[i - 1]
  BY UpdatedEntries
<1> HIDE DEF updated
<1>2. statistics \subseteq Covered(updated)
  <2>1. 1 \in DOMAIN updated
    BY <1>1
  <2> QED
    BY <1>1, <2>1 DEF Covered
<1>3. ASSUME NEW e \in Covered(updated), e \notin statistics
      PROVE  e \in Covered(history)
  <2>1. PICK i \in DOMAIN updated : e \in updated[i]
    BY DEF Covered
  <2>2. i \in 2..Len(updated)
    BY <1>1, <1>3, <2>1
  <2>3. i - 1 \in DOMAIN history /\ e \in history[i - 1]
    BY <1>1, <2>1, <2>2
  <2> QED
    BY <2>3 DEF Covered
<1> QED
  BY <1>2, <1>3 DEF updated

\* A history stays sorted, and what trimming takes from it is older than all
\* that is left, when the new entry is newer than every old one.
LEMMA NewestFirstUpdated ==
  ASSUME NEW history \in Seq(Statistics), NEW statistics \in Statistics,
         NewestFirst(history),
         \A e \in Covered(history), f \in statistics : e < f
  PROVE  LET updated == Updated(history, statistics, TRUE)
         IN  /\ NewestFirst(updated)
             /\ \A f \in Covered(history) \ Covered(updated) :
                  \A e \in Covered(updated) : f < e
<1> DEFINE updated == Updated(history, statistics, TRUE)
<1>1. /\ updated \in Seq(Statistics) /\ updated # <<>>
      /\ updated[1] = statistics
      /\ Len(updated) <= Len(history) + 1
      /\ \A i \in 2..Len(updated) : updated[i] = history[i - 1]
  BY UpdatedEntries
<1> HIDE DEF updated
<1>2. ASSUME NEW i \in DOMAIN updated, NEW j \in DOMAIN updated, i < j,
             NEW e \in updated[i], NEW f \in updated[j]
      PROVE  f < e
  <2>1. j - 1 \in DOMAIN history /\ f \in history[j - 1]
    <3>1. DOMAIN updated = 1..Len(updated) /\ DOMAIN history = 1..Len(history)
      BY <1>1
    <3>2. j \in 2..Len(updated) /\ j - 1 \in 1..Len(history)
      BY <1>1, <1>2, <3>1
    <3> QED
      BY <1>1, <1>2, <3>1, <3>2
  <2>2. CASE i = 1
    <3>1. e \in statistics /\ f \in Covered(history)
      BY <1>1, <2>1, <2>2 DEF Covered
    <3> QED
      BY <3>1
  <2>3. CASE i # 1
    <3>1. i \in 2..Len(updated) /\ i - 1 < j - 1
      BY <1>1, <1>2, <2>3
    <3>2. i - 1 \in DOMAIN history /\ e \in history[i - 1]
      BY <1>1, <1>2, <3>1
    <3> QED
      BY <2>1, <3>1, <3>2 DEF NewestFirst
  <2> QED
    BY <2>2, <2>3
<1>3. ASSUME NEW f \in Covered(history), f \notin Covered(updated),
             NEW e \in Covered(updated)
      PROVE  f < e
  <2>1. PICK j \in DOMAIN history : f \in history[j]
    BY DEF Covered
  <2>2. PICK i \in DOMAIN updated : e \in updated[i]
    BY DEF Covered
  <2>3. CASE i = 1
    BY <1>1, <2>2, <2>3
  <2>4. CASE i # 1
    <3>1. i - 1 \in DOMAIN history /\ e \in history[i - 1]
      BY <1>1, <2>2, <2>4
    <3>2. j + 1 > Len(updated)
      <4>1. SUFFICES ASSUME j + 1 <= Len(updated) PROVE FALSE
        BY <1>1, <2>1
      <4>2. j + 1 \in DOMAIN updated /\ f \in updated[j + 1]
        BY <1>1, <2>1, <4>1
      <4> QED
        BY <1>3, <4>2 DEF Covered
    <3>3. i - 1 < j
      BY <1>1, <2>1, <2>2, <3>2
    <3> QED
      BY <2>1, <3>1, <3>3 DEF NewestFirst
  <2> QED
    BY <2>3, <2>4
<1> QED
  BY <1>2, <1>3 DEF updated, NewestFirst

\* A step of the listener adds an event newer than all others to the running
\* second, or changes nothing here.
LEMMA SecondsListen ==
  ASSUME TypeOK, LockHeld, CountersAgree, SecondsAgree, Listen
  PROVE  SecondsAgree'
<1> USE DEF brokerVars, counterVars, timerVars, faultVars
<1>1. UNCHANGED <<wrapper, timer>>
  BY DEF Listen, Deliver, AddLifetime, AddSecond, AddMinute, AddCountry,
         AddCurrency, Ack
<1>2. CASE AddLifetime
  <2>1. /\ listener = "lifetime" /\ listener' = "second" /\ timer = "idle"
        /\ second' = second /\ Event' = Event + 1 /\ Event \in Nat
        /\ lifetime = 1..Event /\ lifetime' = lifetime \cup {Event + 1}
    BY <1>2, Exclusion, EventType
    DEF AddLifetime, Enter, AddRequest, CountersAgree, TypeOK, Event
  <2>2. /\ Pending({"second"}) = {} /\ Pending({"second"})' = {Event + 1}
    BY <2>1 DEF Pending
  <2>3. \A e \in Covered(wrapper.seconds) \cup second : e < Event + 1
    BY <2>1, <2>2 DEF SecondsAgree
  <2> QED
    BY <1>1, <2>1, <2>2, <2>3 DEF SecondsAgree
<1>3. CASE AddSecond
  <2>1. /\ listener = "second" /\ listener' = "minute" /\ timer = "idle"
        /\ second' = second \cup {Event}
        /\ UNCHANGED <<log, lifetime>>
    BY <1>3 DEF AddSecond, AddRequest, LockHeld
  <2>2. second' \cup Pending({"second"})' = second \cup Pending({"second"})
    BY <2>1 DEF Pending
  <2> QED
    BY <1>1, <2>1, <2>2 DEF SecondsAgree
<1>4. CASE Deliver \/ AddMinute \/ AddCountry \/ AddCurrency \/ Ack
  <2>1. /\ UNCHANGED <<second, lifetime>>
        /\ Pending({"second"})' = Pending({"second"})
    BY <1>4
    DEF Deliver, Dispatch, AddMinute, AddCountry, AddCurrency, Ack, Pending
  <2> QED
    BY <1>1, <2>1 DEF SecondsAgree
<1> QED
  BY <1>2, <1>3, <1>4 DEF Listen

\* A step of the timer moves the running second to the history and empties it.
LEMMA SecondsTick ==
  ASSUME TypeOK, LockHeld, CountersAgree, SecondsAgree, Tick
  PROVE  SecondsAgree'
<1> USE DEF brokerVars, counterVars, timerVars, faultVars
<1> DEFINE past == Covered(wrapper.seconds)
<1>1. /\ UNCHANGED <<listener, log, lifetime>>
      /\ Pending({"second"}) = {} /\ Pending({"second"})' = {}
  BY Exclusion
  DEF Tick, TickSecond, TickMinute, TickLifetime, TickReset, TickPublish,
      TickPublishFails, Enter, Pending
<1>2. CASE TickSecond
  <2>1. /\ timer = "idle" /\ timer' = "minute" /\ second' = second
        /\ wrapper.seconds \in Seq(Statistics) /\ second \in Statistics
        /\ wrapper'.seconds
             = Updated(wrapper.seconds, second, NewSecond(tickCount + 1))
    BY <1>2 DEF TickSecond, UpdateSecond, TypeOK
  <2>2. NewSecond(tickCount + 1)
    BY DEF TypeOK, NewSecond, TicksPerSecond
  <2> DEFINE new == Updated(wrapper.seconds, second, TRUE)
  <2>3. wrapper'.seconds = new
    BY <2>1, <2>2, UpdatedEntries DEF Updated
  <2>4. \A e \in past, f \in second : e < f
    BY <1>1, <2>1 DEF SecondsAgree
  <2>5. /\ second \subseteq Covered(new)
        /\ Covered(new) \subseteq second \cup past
        /\ NewestFirst(new)
        /\ \A f \in past \ Covered(new) : \A e \in Covered(new) : f < e
        /\ new # <<>> /\ new[1] = second
    BY <2>1, <2>4, UpdatedEntries, CoveredUpdated, NewestFirstUpdated
    DEF SecondsAgree
  <2> HIDE DEF new
  <2>6. \A f \in lifetime :
          \/ f \in second
          \/ f \in Covered(new) /\ \A e \in second : f < e
          \/ \A e \in Covered(new) \cup second : f < e
    BY <1>1, <2>5 DEF SecondsAgree
  <2>7. Covered(new) \cup second \subseteq lifetime
    BY <2>5 DEF SecondsAgree
  <2> QED
    BY <1>1, <2>1, <2>3, <2>5, <2>6, <2>7 DEF SecondsAgree
<1>3. CASE TickMinute \/ TickLifetime
  BY <1>1, <1>3
  DEF TickMinute, TickLifetime, UpdateMinute, UpdateLifetime, SecondsAgree,
      TypeOK
<1>4. CASE TickReset
  <2>1. /\ timer = "reset" /\ timer' = "publish" /\ wrapper' = wrapper
        /\ second' = {}
    BY <1>4
    DEF TickReset, Restarted, NewSecond, TicksPerSecond, NoStatistics, TypeOK
  <2>2. second \subseteq past
    <3>1. wrapper.seconds # <<>> /\ wrapper.seconds[1] = second
      BY <2>1 DEF SecondsAgree
    <3>2. 1 \in DOMAIN wrapper.seconds
      BY <3>1 DEF TypeOK
    <3> QED
      BY <3>1, <3>2 DEF Covered
  <2> QED
    BY <1>1, <2>1, <2>2 DEF SecondsAgree
<1>5. CASE TickPublish \/ TickPublishFails
  BY <1>1, <1>5 DEF TickPublish, TickPublishFails, SecondsAgree
<1> QED
  BY <1>2, <1>3, <1>4, <1>5 DEF Tick

\* The other steps leave the history alone or begin a new one.
LEMMA SecondsOther ==
  ASSUME TypeOK, LockHeld, CountersAgree, SecondsAgree,
         (\E m \in Messages : Arrive(m)) \/ LoseConnection \/ Crash
                                         \/ UNCHANGED vars
  PROVE  SecondsAgree'
<1> USE DEF brokerVars, counterVars, timerVars, faultVars
<1>1. CASE Crash
  BY <1>1
  DEF Crash, SecondsAgree, Pending, Covered, NewestFirst, EmptyWrapper,
      NoStatistics
<1>2. CASE (\E m \in Messages : Arrive(m)) \/ LoseConnection \/ UNCHANGED vars
  BY <1>2 DEF Arrive, LoseConnection, vars, SecondsAgree, Pending, Event
<1> QED
  BY <1>1, <1>2

\* What is published tiles the seconds.
LEMMA SecondsTileStep ==
  ASSUME TypeOK, LockHeld, CountersAgree, SecondsAgree, SecondsTile,
         [Next]_vars
  PROVE  SecondsTile'
<1>1. CASE TickPublish
  <2>1. /\ published'.seconds = wrapper.seconds
        /\ published'.lifetime = lifetime
        /\ second \cup Pending({"second"}) = {}
    BY <1>1, Exclusion
    DEF TickPublish, Snapshot, CountersAgree, SecondsAgree, Pending
  <2>2. \A e \in Covered(wrapper.seconds) : e \in Nat
    BY <2>1, EventType DEF SecondsAgree, CountersAgree
  <2> QED
    BY <2>1, <2>2 DEF SecondsTile, SecondsAgree, Gapless, CountersAgree
<1>2. CASE published' = published
  BY <1>2 DEF SecondsTile
<1>3. TickPublish \/ published' = published
  BY DEF Next, Listen, Deliver, AddLifetime, AddSecond, AddMinute, AddCountry,
         AddCurrency, Ack, Tick, TickSecond, TickMinute, TickLifetime,
         TickReset, TickPublishFails, Arrive, LoseConnection, Crash, vars,
         timerVars
<1> QED
  BY <1>1, <1>2, <1>3
-----------------------------------------------------------------------------
(***************************************************************************)
(* The per-minute history.                                                 *)
(***************************************************************************)
\* What a replacement of the front entry makes of a history.
LEMMA ReplacedEntries ==
  ASSUME NEW history \in Seq(Statistics), history # <<>>,
         NEW statistics \in Statistics
  PROVE  LET updated == Updated(history, statistics, FALSE)
         IN  /\ updated \in Seq(Statistics) /\ updated # <<>>
             /\ Len(updated) = Len(history)
             /\ updated[1] = statistics
             /\ \A i \in 2..Len(updated) : updated[i] = history[i]
<1>1. Updated(history, statistics, FALSE) = <<statistics>> \o Tail(history)
  BY DEF Updated
<1>2. /\ Tail(history) \in Seq(Statistics)
      /\ Len(Tail(history)) = Len(history) - 1
      /\ \A i \in 1..(Len(history) - 1) : Tail(history)[i] = history[i + 1]
  OBVIOUS
<1> DEFINE rest == Tail(history)
<1> HIDE DEF rest
<1>3. /\ <<statistics>> \o rest \in Seq(Statistics)
      /\ Len(<<statistics>> \o rest) = Len(history)
      /\ (<<statistics>> \o rest)[1] = statistics
      /\ \A i \in 2..Len(history) : (<<statistics>> \o rest)[i] = rest[i - 1]
  BY <1>2 DEF rest
<1>4. \A i \in 2..Len(history) : rest[i - 1] = history[i]
  BY <1>2 DEF rest
<1>5. <<statistics>> \o rest # <<>>
  BY <1>2, <1>3
<1> HIDE DEF rest
<1> QED
  BY <1>1, <1>3, <1>4, <1>5 DEF rest

\* The same for both ways of updating: below the front are entries of the old
\* history, and what is no longer there was the front that was replaced, or is
\* older than all that is left.
LEMMA SharedUpdated ==
  ASSUME NEW history \in Seq(Statistics), NEW statistics \in Statistics,
         NEW addNew \in BOOLEAN, NewestFirstOrShared(history),
         \A j \in DOMAIN history : addNew \/ j # 1 =>
           \A f \in history[j] : f \in statistics \/ \A e \in statistics : f < e
  PROVE  LET updated == Updated(history, statistics, addNew)
         IN  /\ updated \in Seq(Statistics) /\ updated # <<>>
             /\ updated[1] = statistics
             /\ NewestFirstOrShared(updated)
             /\ statistics \subseteq Covered(updated)
             /\ Covered(updated) \subseteq statistics \cup Covered(history)
             /\ \A j \in 2..Len(updated) :
                  \/ ~addNew /\ j \in DOMAIN history /\ updated[j] = history[j]
                  \/ /\ addNew /\ j - 1 \in DOMAIN history
                     /\ updated[j] = history[j - 1]
             /\ \A f \in Covered(history) \ Covered(updated) :
                  \/ ~addNew /\ f \in history[1]
                  \/ \A e \in Covered(updated) : f < e
<1> DEFINE updated == Updated(history, statistics, addNew)
           shift == IF addNew THEN 1 ELSE 0
<1>1. /\ updated \in Seq(Statistics) /\ updated # <<>>
      /\ updated[1] = statistics
      /\ addNew \/ history = <<>> =>
           /\ Len(updated) <= Len(history) + 1
           /\ \A i \in 2..Len(updated) : updated[i] = history[i - 1]
      /\ ~addNew /\ history # <<>> =>
           /\ Len(updated) = Len(history)
           /\ \A i \in 2..Len(updated) : updated[i] = history[i]
  <2>1. CASE addNew
    BY <2>1, UpdatedEntries
  <2>2. CASE ~addNew /\ history = <<>>
    <3>1. updated = Updated(history, statistics, TRUE)
      BY <2>2 DEF Updated
    <3> HIDE DEF updated
    <3> QED
      BY <2>2, <3>1, UpdatedEntries
  <2>3. CASE ~addNew /\ history # <<>>
    <3>1. updated = Updated(history, statistics, FALSE)
      BY <2>3 DEF Updated
    <3> HIDE DEF updated
    <3> QED
      BY <2>3, <3>1, ReplacedEntries
  <2> QED
    BY <2>1, <2>2, <2>3
<1> HIDE DEF updated
<1>0. /\ shift \in {0, 1} /\ (addNew <=> shift = 1)
      /\ DOMAIN updated = 1..Len(updated) /\ Len(updated) \in Nat
      /\ DOMAIN history = 1..Len(history) /\ Len(history) \in Nat
      /\ ~addNew /\ history # <<>> => Len(updated) = Len(history)
      /\ Len(updated) <= Len(history) + 1
  BY <1>1
<1>8. shift \in Int /\ (shift = 0 \/ shift = 1) /\ (addNew \/ shift = 0)
  OBVIOUS
<1> HIDE DEF shift
<1>9. addNew => shift = 1
  BY DEF shift
<1>7. \A i \in 2..Len(updated) :
           i - shift \in DOMAIN history /\ updated[i] = history[i - shift]
  <2> SUFFICES ASSUME NEW i \in 2..Len(updated)
               PROVE  i - shift \in DOMAIN history
                      /\ updated[i] = history[i - shift]
    OBVIOUS
  <2>1. CASE addNew
    BY <1>0, <1>1, <2>1
  <2>2. CASE ~addNew
    <3>1. history # <<>>
      <4>1. SUFFICES ASSUME history = <<>> PROVE FALSE
        OBVIOUS
      <4>2. Len(history) = 0
        BY <4>1
      <4> QED
        BY <1>0, <4>2
    <3> QED
      BY <1>0, <1>1, <2>2, <3>1
  <2> QED
    BY <2>1, <2>2
<1>2. statistics \subseteq Covered(updated)
  <2>1. 1 \in DOMAIN updated
    BY <1>1
  <2> QED
    BY <1>1, <2>1 DEF Covered
<1>3. ASSUME NEW e \in Covered(updated), e \notin statistics
      PROVE  e \in Covered(history)
  <2>1. PICK i \in DOMAIN updated : e \in updated[i]
    BY DEF Covered
  <2>2. i \in 2..Len(updated)
    BY <1>1, <1>3, <2>1
  <2>3. i - shift \in DOMAIN history /\ e \in history[i - shift]
    BY <1>7, <2>1, <2>2
  <2> QED
    BY <2>3 DEF Covered
<1>4. ASSUME NEW i \in DOMAIN updated, NEW j \in DOMAIN updated, i < j,
             NEW f \in updated[j]
      PROVE  f \in updated[i] \/ \A e \in updated[i] : f < e
  <2>0. i \in 1..Len(updated) /\ j \in 2..Len(updated)
    BY <1>1, <1>4
  <2>1. j - shift \in DOMAIN history /\ f \in history[j - shift]
    BY <1>7, <1>4, <2>0
  <2>4. addNew \/ j - shift # 1
    BY <1>8, <2>0
  <2>2. CASE i = 1
    BY <1>1, <2>1, <2>2, <2>4
  <2>3. CASE i # 1
    <3>0. i \in 2..Len(updated) /\ i - shift < j - shift
      BY <1>8, <1>4, <2>0, <2>3
    <3>1. /\ i - shift \in DOMAIN history /\ updated[i] = history[i - shift]
      BY <1>7, <3>0
    <3> QED
      BY <2>1, <3>0, <3>1 DEF NewestFirstOrShared
  <2> QED
    BY <2>2, <2>3
<1>5. ASSUME NEW f \in Covered(history), f \notin Covered(updated),
             addNew \/ f \notin history[1], NEW e \in Covered(updated)
      PROVE  f < e
  <2>1. PICK j \in DOMAIN history : f \in history[j]
    BY DEF Covered
  <2>2. PICK i \in DOMAIN updated : e \in updated[i]
    BY DEF Covered
  <2>3. f \notin updated[i]
    BY <1>5, <2>2 DEF Covered
  <2>4. addNew \/ j # 1
    BY <1>5, <2>1
  <2>5. CASE i = 1
    BY <1>1, <2>1, <2>2, <2>3, <2>4, <2>5
  <2>6. CASE i # 1
    <3>1. /\ i - shift \in DOMAIN history /\ updated[i] = history[i - shift]
      <4>1. i \in 2..Len(updated)
        BY <1>1, <2>2, <2>6
      <4> QED
        BY <1>7, <4>1
    <3>2. j + shift \notin DOMAIN updated
      <4>1. SUFFICES ASSUME j + shift \in DOMAIN updated PROVE FALSE
        OBVIOUS
      <4>0. j \in Nat \ {0} /\ j + shift \in 1..Len(updated)
        BY <1>1, <2>1, <4>1
      <4>2. j + shift \in 2..Len(updated) /\ (j + shift) - shift = j
        BY <1>8, <1>9, <2>4, <4>0
      <4>3. updated[j + shift] = history[j]
        BY <1>7, <4>2
      <4> QED
        BY <1>5, <2>1, <4>1, <4>3 DEF Covered
    <3>3. i - shift < j
      <4>1. i \in 1..Len(updated) /\ Len(updated) \in Nat /\ j \in Nat
        BY <1>1, <2>1, <2>2
      <4>2. j + shift \notin 1..Len(updated)
        BY <1>1, <3>2
      <4> QED
        BY <1>8, <2>1, <4>1, <4>2
    <3> QED
      BY <2>1, <2>2, <2>3, <3>1, <3>3 DEF NewestFirstOrShared
  <2> QED
    BY <2>5, <2>6
<1>6. \A j \in 2..Len(updated) :
        \/ ~addNew /\ j \in DOMAIN history /\ updated[j] = history[j]
        \/ addNew /\ j - 1 \in DOMAIN history /\ updated[j] = history[j - 1]
  <2>1. CASE addNew
    BY <1>7, <1>9, <2>1
  <2>2. CASE ~addNew
    <3>1. shift = 0
      BY <2>2 DEF shift
    <3> QED
      BY <1>7, <2>2, <3>1
  <2> QED
    BY <2>1, <2>2
<1>10. NewestFirstOrShared(updated)
  BY <1>4 DEF NewestFirstOrShared
<1>11. \A f \in Covered(history) \ Covered(updated) :
         \/ ~addNew /\ f \in history[1]
         \/ \A e \in Covered(updated) : f < e
  BY <1>5
<1>12. Covered(updated) \subseteq statistics \cup Covered(history)
  BY <1>3
<1>13. updated \in Seq(Statistics) /\ updated # <<>> /\ updated[1] = statistics
  BY <1>1
<1> QED
  BY <1>2, <1>6, <1>10, <1>11, <1>12, <1>13 DEF updated
\* The next tick of a minute.
LEMMA NextTick ==
  ASSUME NEW n \in Nat \ {0}, NEW t \in 0..(n - 1)
  PROVE  (t + 1) % n = IF t = n - 1 THEN 0 ELSE t + 1
<1> DEFINE u == t + 1
           r == IF t = n - 1 THEN 0 ELSE t + 1
           q == IF t = n - 1 THEN 1 ELSE 0
<1>1. u \in Nat /\ r \in 0..(n - 1) /\ q \in Int /\ u = n * q + r
  OBVIOUS
<1> HIDE DEF u, r, q
<1>2. u % n \in 0..(n - 1) /\ u \div n \in Int /\ u = n * (u \div n) + (u % n)
  BY <1>1, Division
<1>3. n * (u \div n) + (u % n) = n * q + r
  BY <1>1, <1>2
<1>4. u % n = r
  BY <1>1, <1>2, <1>3, UniqueRemainder
<1> QED
  BY <1>4 DEF u, r

\* The account of a minute moves to the history: the step of the timer that
\* may replace, and lose, what the front entry had alone.
LEMMA MinutesUpdated ==
  ASSUME TypeOK, LockHeld, TickPhase, MinutesAgree, TickMinute
  PROVE  MinutesAgree'
<1> USE ConstantsAssumption DEF brokerVars, counterVars, timerVars, faultVars
<1> DEFINE history == wrapper.minutes
           past    == Covered(history)
           addNew  == NewMinute(tickCount)
           updated == Updated(history, minute, addNew)
<1>1. /\ timer = "minute" /\ timer' = "lifetime" /\ wrapper'.minutes = updated
      /\ UNCHANGED <<listener, log, lifetime, minute, late, ticks>>
      /\ history \in Seq(Statistics) /\ minute \in Statistics
      /\ addNew \in BOOLEAN /\ ticks \in 0..(TicksPerMinute - 1)
  BY DEF TickMinute, UpdateMinute, TypeOK, NewMinute
<1>2. /\ Pending({"second", "minute"}) = {}
      /\ Pending({"second", "minute"})' = {}
  BY <1>1, Exclusion DEF Pending
<1>3. addNew <=> ticks = 0
  BY DEF NewMinute, TickPhase
<1>4. /\ ~MinuteEnds /\ ~MinuteBegins' /\ (MinuteEnds' <=> ticks = 0)
      /\ MinuteBegins /\ ticks = 0 => TicksPerMinute = 1
  <2>1. 1 % TicksPerMinute = IF 0 = TicksPerMinute - 1 THEN 0 ELSE 1
    <3>1. \A t \in 0..(TicksPerMinute - 1) :
            (t + 1) % TicksPerMinute = IF t = TicksPerMinute - 1 THEN 0 ELSE t + 1
      BY NextTick
    <3>2. 0 \in 0..(TicksPerMinute - 1) /\ 0 + 1 = 1
      OBVIOUS
    <3> QED
      BY <3>1, <3>2
  <2> QED
    BY <1>1, <2>1 DEF MinuteEnds, MinuteBegins
<1>5. /\ past \cup minute \subseteq lifetime
      /\ \A f \in lifetime :
           \/ f \in past \cup minute \cup late
           \/ \A e \in past \cup minute : f < e
      /\ NewestFirstOrShared(history)
      /\ MinuteBegins => FrontIsLate(history)
      /\ MinuteBegins => \A e \in past, f \in minute : e < f
      /\ ~MinuteBegins => /\ history # <<>> /\ history[1] \subseteq minute
                          /\ \A j \in DOMAIN history \ {1} :
                               \A f \in history[j], e \in minute : f < e
                          /\ ticks = 0 => minute \subseteq history[1] \cup late
      /\ TicksPerMinute = 1 => lifetime \subseteq late
  BY <1>1, <1>2, <1>4 DEF MinutesAgree
<1>6. \A j \in DOMAIN history : addNew \/ j # 1 =>
        \A f \in history[j] : f \in minute \/ \A e \in minute : f < e
  <2>1. CASE MinuteBegins
    <3>1. \A j \in DOMAIN history : history[j] \subseteq past
      BY DEF Covered
    <3> HIDE DEF past, history
    <3> QED
      BY <1>5, <2>1, <3>1
  <2>2. CASE ~MinuteBegins
    BY <1>5, <2>2
  <2> QED
    BY <2>1, <2>2
<1> HIDE DEF updated, addNew
<1>7. /\ updated \in Seq(Statistics) /\ updated # <<>>
      /\ updated[1] = minute
      /\ NewestFirstOrShared(updated)
      /\ minute \subseteq Covered(updated)
      /\ Covered(updated) \subseteq minute \cup past
      /\ \A j \in 2..Len(updated) :
           \/ ~addNew /\ j \in DOMAIN history /\ updated[j] = history[j]
           \/ addNew /\ j - 1 \in DOMAIN history /\ updated[j] = history[j - 1]
      /\ \A f \in past \ Covered(updated) :
           \/ ~addNew /\ f \in history[1]
           \/ \A e \in Covered(updated) : f < e
  BY <1>1, <1>5, <1>6, SharedUpdated DEF updated
<1>8. ASSUME NEW f \in past, f \notin Covered(updated), f \notin late
      PROVE  \A e \in Covered(updated) : f < e
  <2>1. SUFFICES ASSUME ~addNew, f \in history[1]
                 PROVE  \A e \in Covered(updated) : f < e
    BY <1>7, <1>8
  <2>2. f \notin minute
    BY <1>7, <1>8
  <2>3. MinuteBegins
    BY <1>5, <2>1, <2>2
  <2>4. history # <<>>
    BY <1>8 DEF Covered
  <2>5. /\ Len(updated) = Len(history)
        /\ \A i \in 2..Len(updated) : updated[i] = history[i]
    <3>1. updated = Updated(history, minute, FALSE)
      BY <1>1, <2>1 DEF updated
    <3>2. history \in Seq(Statistics) /\ history # <<>> /\ minute \in Statistics
      BY <1>1, <2>4
    <3> HIDE DEF history
    <3> QED
      BY <3>1, <3>2, ReplacedEntries
  <2>6. CASE Len(history) > 1
    <3>1. f \in history[2]
      BY <1>5, <1>8, <2>1, <2>3, <2>6 DEF FrontIsLate
    <3>2. 2 \in DOMAIN updated /\ f \in updated[2]
      BY <1>1, <1>7, <2>5, <2>6, <3>1
    <3> QED
      BY <1>8, <3>2 DEF Covered
  <2>7. CASE ~(Len(history) > 1)
    <3>1. \A i \in DOMAIN updated : i = 1
      BY <1>1, <1>7, <2>5, <2>7
    <3>2. Covered(updated) \subseteq minute
      BY <1>7, <3>1 DEF Covered
    <3> QED
      BY <1>5, <2>3, <3>2
  <2> QED
    BY <2>6, <2>7
<1>9. \A f \in lifetime :
        \/ f \in Covered(updated) \cup minute \cup late
        \/ \A e \in Covered(updated) \cup minute : f < e
  BY <1>5, <1>7, <1>8
<1>10. ASSUME ticks = 0, Len(updated) > 1
       PROVE  updated[1] \subseteq updated[2] \cup late
  <2>1. 2 \in 2..Len(updated) /\ addNew
    BY <1>3, <1>7, <1>10 DEF addNew
  <2>2. updated[2] = history[1]
    BY <1>7, <2>1
  <2>3. CASE MinuteBegins
    BY <1>4, <1>5, <1>7, <1>10, <2>3
  <2>4. CASE ~MinuteBegins
    BY <1>5, <1>7, <1>10, <2>2, <2>4
  <2> QED
    BY <2>3, <2>4
<1>11. ASSUME ticks # 0, NEW j \in DOMAIN updated \ {1},
              NEW f \in updated[j], NEW e \in minute
       PROVE  f < e
  <2>1. j \in 2..Len(updated) /\ ~addNew
    BY <1>3, <1>7, <1>11 DEF addNew
  <2>2. j \in DOMAIN history \ {1} /\ f \in history[j]
    BY <1>7, <1>11, <2>1
  <2>3. CASE MinuteBegins
    <3>1. f \in past
      BY <2>2 DEF Covered
    <3> HIDE DEF past, history
    <3> QED
      BY <1>5, <1>11, <2>3, <3>1
  <2>4. CASE ~MinuteBegins
    BY <1>5, <2>2, <2>4
  <2> QED
    BY <2>3, <2>4
<1>12. FrontIsLate(wrapper.minutes)' \/ ticks # 0
  BY <1>1, <1>10 DEF FrontIsLate
<1> HIDE DEF history
<1> QED
  BY <1>1, <1>2, <1>4, <1>5, <1>7, <1>9, <1>11, <1>12 DEF MinutesAgree

\* A step of the listener adds an event newer than all others to the running
\* minute, or changes nothing here.
LEMMA MinutesListen ==
  ASSUME TypeOK, LockHeld, CountersAgree, MinutesAgree, Listen
  PROVE  MinutesAgree'
<1> USE DEF brokerVars, counterVars, timerVars, faultVars
<1> DEFINE waits == {"second", "minute"}
           past  == Covered(wrapper.minutes)
<1>1. UNCHANGED <<wrapper, timer, ticks>>
  BY DEF Listen, Deliver, AddLifetime, AddSecond, AddMinute, AddCountry,
         AddCurrency, Ack
<1>2. (MinuteBegins' <=> MinuteBegins) /\ (MinuteEnds' <=> MinuteEnds)
  BY <1>1 DEF MinuteBegins, MinuteEnds
<1>3. CASE AddLifetime
  <2>1. /\ listener = "lifetime" /\ listener' = "second" /\ timer = "idle"
        /\ minute' = minute /\ Event' = Event + 1 /\ Event \in Nat
        /\ lifetime = 1..Event /\ lifetime' = lifetime \cup {Event + 1}
        /\ late \subseteq late'
        /\ ticks = TicksPerMinute - 1 => Event + 1 \in late'
        /\ ticks \in 0..(TicksPerMinute - 1)
    BY <1>3, Exclusion, EventType
    DEF AddLifetime, Enter, AddRequest, CountersAgree, TypeOK, Event
  <2>2. Pending(waits) = {} /\ Pending(waits)' = {Event + 1}
    BY <2>1 DEF Pending
  <2>3. past \cup minute \subseteq lifetime
    BY <2>2 DEF MinutesAgree
  <2>4. \A e \in past \cup minute : e < Event + 1
    BY <2>1, <2>3
  <2>5. \A j \in DOMAIN wrapper.minutes : wrapper.minutes[j] \subseteq past
    BY DEF Covered
  <2>6. \A f \in lifetime' :
          \/ f \in past \cup minute \cup {Event + 1} \cup late'
          \/ \A e \in past \cup minute \cup {Event + 1} : f < e
    <3>1. ASSUME NEW f \in lifetime, f \notin past \cup minute \cup late
          PROVE  \A e \in past \cup minute \cup {Event + 1} : f < e
      BY <2>1, <2>2, <3>1 DEF MinutesAgree
    <3> QED
      BY <2>1, <3>1
  <2>7. TicksPerMinute = 1 => lifetime' \subseteq late'
    BY <2>1, ConstantsAssumption DEF MinutesAgree
  <2>8. FrontIsLate(wrapper.minutes) => FrontIsLate(wrapper.minutes)'
    BY <1>1, <2>1 DEF FrontIsLate
  <2>9. MinuteBegins => \A e \in past, f \in minute \cup {Event + 1} : e < f
    BY <2>2, <2>4 DEF MinutesAgree
  <2>10. ~MinuteBegins /\ ~MinuteEnds =>
           /\ \A j \in DOMAIN wrapper.minutes \ {1} :
                \A f \in wrapper.minutes[j], e \in minute \cup {Event + 1} :
                  f < e
           /\ ticks = TicksPerMinute - 1 =>
                minute \cup {Event + 1} \subseteq wrapper.minutes[1] \cup late'
    <3>1. SUFFICES ASSUME ~MinuteBegins, ~MinuteEnds
                   PROVE  /\ \A j \in DOMAIN wrapper.minutes \ {1} :
                               \A f \in wrapper.minutes[j],
                                  e \in minute \cup {Event + 1} : f < e
                          /\ ticks = TicksPerMinute - 1 =>
                               minute \cup {Event + 1}
                                 \subseteq wrapper.minutes[1] \cup late'
      OBVIOUS
    <3>2. \A j \in DOMAIN wrapper.minutes \ {1} :
            \A f \in wrapper.minutes[j] :
              f < Event + 1 /\ \A e \in minute : f < e
      BY <2>2, <2>4, <2>5, <3>1 DEF MinutesAgree
    <3>3. ticks = TicksPerMinute - 1 =>
            minute \subseteq wrapper.minutes[1] \cup late
      BY <2>1, <2>2, <3>1 DEF MinutesAgree
    <3> QED
      BY <2>1, <3>2, <3>3
  <2>11. ~MinuteBegins => ticks # 0
    BY <2>1 DEF MinuteBegins
  <2>12. /\ past \cup minute \cup {Event + 1} \subseteq lifetime'
         /\ NewestFirstOrShared(wrapper.minutes)
         /\ MinuteBegins \/ MinuteEnds => FrontIsLate(wrapper.minutes)
         /\ ~MinuteBegins => /\ wrapper.minutes # <<>>
                             /\ wrapper.minutes[1] \subseteq minute
    BY <2>1, <2>2, <2>3 DEF MinutesAgree
  <2> QED
    BY <1>1, <1>2, <2>1, <2>2, <2>6, <2>7, <2>8, <2>9, <2>10, <2>11, <2>12
    DEF MinutesAgree, NewestFirstOrShared
<1>4. CASE AddMinute
  <2>1. /\ listener = "minute" /\ listener' = "country" /\ timer = "idle"
        /\ minute' = minute \cup {Event}
        /\ UNCHANGED <<log, late, lifetime>>
    BY <1>4 DEF AddMinute, AddRequest, LockHeld
  <2>2. minute' \cup Pending(waits)' = minute \cup Pending(waits)
    BY <2>1 DEF Pending
  <2>3. FrontIsLate(wrapper.minutes)' <=> FrontIsLate(wrapper.minutes)
    BY <1>1, <2>1 DEF FrontIsLate
  <2> QED
    BY <1>1, <1>2, <2>1, <2>2, <2>3 DEF MinutesAgree, NewestFirstOrShared
<1>5. CASE Deliver \/ AddSecond \/ AddCountry \/ AddCurrency \/ Ack
  <2>1. /\ UNCHANGED <<minute, lifetime, late>>
        /\ Pending(waits)' = Pending(waits)
    BY <1>5
    DEF Deliver, Dispatch, AddSecond, AddCountry, AddCurrency, Ack, Pending,
        Event
  <2>2. FrontIsLate(wrapper.minutes)' <=> FrontIsLate(wrapper.minutes)
    BY <1>1, <2>1 DEF FrontIsLate
  <2> QED
    BY <1>1, <1>2, <2>1, <2>2 DEF MinutesAgree, NewestFirstOrShared
<1> QED
  BY <1>3, <1>4, <1>5 DEF Listen

\* The timer's other steps move the minute on, or empty it once its account
\* is complete.
LEMMA MinutesTick ==
  ASSUME TypeOK, LockHeld, TickPhase, MinutesAgree, Tick
  PROVE  MinutesAgree'
<1> USE ConstantsAssumption DEF brokerVars, counterVars, timerVars, faultVars
<1> DEFINE waits == {"second", "minute"}
           past  == Covered(wrapper.minutes)
<1>1. CASE TickMinute
  BY <1>1, MinutesUpdated
<1>2. CASE ~TickMinute
  <2>1. /\ UNCHANGED <<listener, log, lifetime, late>>
        /\ wrapper'.minutes = wrapper.minutes
        /\ Pending(waits) = {} /\ Pending(waits)' = {}
        /\ ticks \in 0..(TicksPerMinute - 1)
    BY <1>2, Exclusion
    DEF Tick, TickSecond, TickLifetime, TickReset, TickPublish,
        TickPublishFails, UpdateSecond, UpdateLifetime, Enter, Pending, TypeOK
  <2>2. FrontIsLate(wrapper.minutes)' <=> FrontIsLate(wrapper.minutes)
    BY <2>1 DEF FrontIsLate
  <2>3. CASE TickSecond
    <3>1. /\ timer = "idle" /\ timer' = "minute" /\ minute' = minute
          /\ ticks' = IF ticks = TicksPerMinute - 1 THEN 0 ELSE ticks + 1
      BY <2>1, <2>3, NextTick DEF TickSecond
    <3>2. 1 % TicksPerMinute = IF TicksPerMinute = 1 THEN 0 ELSE 1
      <4>1. \A t \in 0..(TicksPerMinute - 1) :
              (t + 1) % TicksPerMinute
                = IF t = TicksPerMinute - 1 THEN 0 ELSE t + 1
        BY NextTick
      <4>2. 0 \in 0..(TicksPerMinute - 1) /\ 0 + 1 = 1
        OBVIOUS
      <4> QED
        BY <4>1, <4>2
    <3>3. /\ MinuteBegins' <=> MinuteBegins
          /\ ~MinuteEnds /\ ~MinuteEnds'
          /\ ~MinuteBegins /\ ticks' = 0 => ticks = TicksPerMinute - 1
      BY <2>1, <3>1, <3>2 DEF MinuteBegins, MinuteEnds
    <3> QED
      BY <2>1, <2>2, <3>1, <3>3 DEF MinutesAgree, NewestFirstOrShared
  <2>4. CASE TickLifetime
    <3>1. /\ timer = "lifetime" /\ timer' = "reset"
          /\ UNCHANGED <<minute, ticks>>
      BY <2>4 DEF TickLifetime
    <3>2. /\ ~MinuteBegins /\ ~MinuteBegins'
          /\ MinuteEnds' <=> MinuteEnds
      BY <3>1 DEF MinuteBegins, MinuteEnds
    <3> QED
      BY <2>1, <2>2, <3>1, <3>2 DEF MinutesAgree, NewestFirstOrShared
  <2>5. CASE TickReset
    <3>1. /\ timer = "reset" /\ timer' = "publish" /\ ticks' = ticks
          /\ minute' = IF ticks = 0 THEN {} ELSE minute
      BY <2>5
      DEF TickReset, Restarted, NewMinute, NoStatistics, TickPhase, TypeOK
    <3>2. /\ ~MinuteBegins /\ ~MinuteEnds'
          /\ MinuteBegins' <=> ticks = 0
          /\ MinuteEnds <=> ticks = 0
      BY <3>1 DEF MinuteBegins, MinuteEnds
    <3>3. minute \subseteq past
      <4>1. wrapper.minutes # <<>> /\ wrapper.minutes[1] = minute
        BY <3>1, <3>2 DEF MinutesAgree
      <4>2. 1 \in DOMAIN wrapper.minutes
        BY <4>1 DEF TypeOK
      <4> QED
        BY <4>1, <4>2 DEF Covered
    <3>4. CASE ticks = 0
      BY <2>1, <2>2, <3>1, <3>2, <3>3, <3>4
      DEF MinutesAgree, NewestFirstOrShared
    <3>5. CASE ticks # 0
      BY <2>1, <2>2, <3>1, <3>2, <3>5 DEF MinutesAgree, NewestFirstOrShared
    <3> QED
      BY <3>4, <3>5
  <2>6. CASE TickPublish \/ TickPublishFails
    <3>1. /\ timer = "publish" /\ timer' = "idle"
          /\ UNCHANGED <<minute, ticks>>
      BY <2>6 DEF TickPublish, TickPublishFails
    <3>2. /\ MinuteBegins' <=> MinuteBegins
          /\ ~MinuteEnds /\ ~MinuteEnds'
          /\ ~MinuteBegins => ticks # 0
      BY <3>1 DEF MinuteBegins, MinuteEnds
    <3>3. ~MinuteBegins => minute \subseteq wrapper.minutes[1]
      BY <3>1 DEF MinutesAgree
    <3> QED
      BY <2>1, <2>2, <3>1, <3>2, <3>3 DEF MinutesAgree, NewestFirstOrShared
  <2> QED
    BY <1>2, <2>3, <2>4, <2>5, <2>6 DEF Tick
<1> QED
  BY <1>1, <1>2

\* The other steps leave the history alone or begin a new one.
LEMMA MinutesOther ==
  ASSUME TypeOK, MinutesAgree,
         (\E m \in Messages : Arrive(m)) \/ LoseConnection \/ Crash
                                         \/ UNCHANGED vars
  PROVE  MinutesAgree'
<1> USE DEF brokerVars, counterVars, timerVars, faultVars
<1>1. CASE Crash
  <2>1. /\ listener' = "idle" /\ timer' = "idle" /\ ticks' = 0
        /\ minute' = {} /\ lifetime' = {} /\ wrapper'.minutes = <<>>
    BY <1>1 DEF Crash, EmptyWrapper, NoStatistics
  <2>2. MinuteBegins' /\ ~MinuteEnds' /\ Pending({"second", "minute"})' = {}
    BY <2>1 DEF MinuteBegins, MinuteEnds, Pending
  <2> QED
    BY <2>1, <2>2 DEF MinutesAgree, FrontIsLate, NewestFirstOrShared, Covered
<1>2. CASE (\E m \in Messages : Arrive(m)) \/ LoseConnection \/ UNCHANGED vars
  BY <1>2
  DEF Arrive, LoseConnection, vars, MinutesAgree, MinuteBegins, MinuteEnds,
      FrontIsLate, NewestFirstOrShared, Pending, Event
<1> QED
  BY <1>1, <1>2

\* What the account in front lost is what came in the last second of a minute.
LEMMA LosesOnlyLate ==
  ASSUME TypeOK, LockHeld, CountersAgree, MinutesAgree
  PROVE  MinutesLoseOnlyLastSecond
<1> DEFINE past == Covered(wrapper.minutes)
<1> SUFFICES ASSUME timer = "publish", NEW e \in past, NEW f \in lifetime,
                    e < f, f \notin past
             PROVE  f \in late
  BY DEF MinutesLoseOnlyLastSecond
<1>1. Pending({"second", "minute"}) = {}
  BY Exclusion DEF Pending
<1>2. e \in Nat /\ f \in Nat
  BY <1>1, EventType DEF MinutesAgree, CountersAgree
<1>3. ~(f < e)
  BY <1>2
<1>4. minute \subseteq past
  <2>1. CASE ticks = 0
    BY <2>1 DEF MinutesAgree
  <2>2. CASE ticks # 0
    <3>1. wrapper.minutes # <<>> /\ wrapper.minutes[1] = minute
      BY <2>2 DEF MinutesAgree, MinuteBegins
    <3>2. 1 \in DOMAIN wrapper.minutes
      BY <3>1 DEF TypeOK
    <3> QED
      BY <3>1, <3>2 DEF Covered
  <2> QED
    BY <2>1, <2>2
<1> QED
  BY <1>1, <1>3, <1>4 DEF MinutesAgree
-----------------------------------------------------------------------------
(***************************************************************************)
(* The inductive invariant.                                                *)
(***************************************************************************)
\* The processor starts in agreement with the empty log.
LEMMA InitConsistent == Init => Consistent
<1> SUFFICES ASSUME Init PROVE Consistent
  OBVIOUS
<1> USE DEF Init, EmptyWrapper, NoStatistics
<1>1. LockHeld
  BY DEF LockHeld
<1>2. CountersAgree
  BY DEF CountersAgree, Pending, Event, Service!OfCountry, Service!OfCurrency
<1>3. SecondsAgree
  BY DEF SecondsAgree, Pending, Covered, NewestFirst
<1>4. TickPhase
  <2>1. 0 % TicksPerMinute = 0
    <3>1. /\ 0 % TicksPerMinute \in 0..(TicksPerMinute - 1)
          /\ 0 \div TicksPerMinute \in Int
          /\ 0 = TicksPerMinute * (0 \div TicksPerMinute)
                   + (0 % TicksPerMinute)
      BY ConstantsAssumption, Division
    <3> QED
      BY <3>1, ConstantsAssumption, UniqueRemainder
  <2> QED
    BY <2>1 DEF TickPhase
<1>5. SecondsTile
  BY DEF SecondsTile, Snapshot, NewestFirst, Gapless, Covered
<1>6. MinutesAgree
  <2>1. MinuteBegins /\ ~MinuteEnds /\ Pending({"second", "minute"}) = {}
    BY DEF MinuteBegins, MinuteEnds, Pending
  <2> QED
    BY <2>1 DEF MinutesAgree, FrontIsLate, NewestFirstOrShared, Covered
<1> QED
  BY <1>1, <1>2, <1>3, <1>4, <1>5, <1>6 DEF Consistent

\* Every step keeps the agreement.
LEMMA NextConsistent ==
  ASSUME TypeOK, Consistent, [Next]_vars
  PROVE  Consistent'
<1>1. LockHeld'
  BY LockHeldStep DEF Consistent
<1>2. CountersAgree'
  BY CountersListen, CountersTick, CountersOther DEF Consistent, Next
<1>3. SecondsAgree'
  BY SecondsListen, SecondsTick, SecondsOther DEF Consistent, Next
<1>4. TickPhase'
  BY TickPhaseStep DEF Consistent
<1>5. SecondsTile'
  BY SecondsTileStep DEF Consistent
<1>6. MinutesAgree'
  BY MinutesListen, MinutesTick, MinutesOther DEF Consistent, Next
<1> QED
  BY <1>1, <1>2, <1>3, <1>4, <1>5, <1>6 DEF Consistent

\* At every statement of the synchronized blocks of processTransferRequest
\* and SecondsTimer.run the counters account for exactly the requests that
\* were processed, but for those the listener has yet to add to.
THEOREM AlwaysConsistent == Spec => []Consistent
<1>1. Init => Consistent
  BY InitConsistent
<1>2. TypeOK /\ Consistent /\ [Next]_vars => Consistent'
  BY NextConsistent
<1> QED
  BY <1>1, <1>2, TypeCorrect, PTL DEF Spec

\* The per-second history that is published never counts a request twice and
\* never skips one, also after failed publishes (SecondsTimer.run and
\* CompleteStatisticsWrapper.updateSecond).
THEOREM SecondsAlwaysTile == Spec => []SecondsTile
<1>1. Consistent => SecondsTile
  BY DEF Consistent
<1> QED
  BY <1>1, AlwaysConsistent, PTL

\* Whatever publish fails, the per-second history has all requests in a row,
\* and the per-minute history all but those that came between the last two
\* ticks of a minute (SecondsTimer.run, CompleteStatisticsWrapper.updateSecond
\* and updateMinute).
THEOREM HistoriesAlwaysAccount == Spec => []HistoriesAccount
<1>1. TypeOK /\ Consistent => HistoriesAccount
  BY LosesOnlyLate DEF Consistent, HistoriesAccount
<1> QED
  BY <1>1, TypeCorrect, AlwaysConsistent, PTL

\* The tick counter keeps its phase when the publish throws and the statement
\* that reduces it is skipped (SecondsTimer.run).
THEOREM TickPhaseKept == Spec => []TickPhase
<1>1. Consistent => TickPhase
  BY DEF Consistent
<1> QED
  BY <1>1, AlwaysConsistent, PTL
-----------------------------------------------------------------------------
(***************************************************************************)
(* The processor implements the statistics service.                        *)
(***************************************************************************)
\* A snapshot is the view of the requests processed so far.
LEMMA SnapshotView ==
  ASSUME TypeOK, Consistent, timer = "publish"
  PROVE  [lifetime |-> Snapshot.lifetime, perCountry |-> Snapshot.perCountry,
          perCurrency |-> Snapshot.perCurrency] = Service!ViewOf(log)
<1>1. Pending({"second", "minute", "country"}) = {}
      /\ Pending({"second", "minute", "country", "currency"}) = {}
  BY Exclusion DEF Consistent, Pending
<1>2. /\ wrapper.lifetime = 1..Len(log)
      /\ perCountry = [c \in Countries |-> Service!OfCountry(log, c)]
      /\ perCurrency = [k \in Currencies |-> Service!OfCurrency(log, k)]
  BY <1>1 DEF Consistent, CountersAgree, Event
<1> QED
  BY <1>2 DEF Snapshot, Service!ViewOf

\* A step of the processor is a step of the service, or none.
LEMMA StepImplements ==
  ASSUME TypeOK, Consistent, [Next]_vars
  PROVE  [Service!Next]_(Service!serviceVars)
<1> USE DEF brokerVars, counterVars, timerVars, faultVars, Service!serviceVars
<1>1. CASE AddLifetime
  <2>1. current \in Requests
    BY <1>1 DEF AddLifetime, TypeOK
  <2>2. Service!Count(current)
    BY <1>1 DEF AddLifetime, Service!Count
  <2> QED
    BY <2>1, <2>2 DEF Service!Next
<1>2. CASE TickPublish
  <2>1. timer = "publish" /\ published' = Snapshot /\ log' = log
    BY <1>2 DEF TickPublish
  <2>2. Service!Publish
    BY <2>1, SnapshotView DEF Service!Publish
  <2> QED
    BY <2>2 DEF Service!Next
<1>3. CASE Crash
  <2>1. Service!Restart
    BY <1>3 DEF Crash, Service!Restart
  <2> QED
    BY <2>1 DEF Service!Next
<1>4. CASE UNCHANGED <<log, published>>
  BY <1>4
<1>5. AddLifetime \/ TickPublish \/ Crash \/ UNCHANGED <<log, published>>
  BY DEF Next, Listen, Deliver, AddSecond, AddMinute, AddCountry, AddCurrency,
         Ack, Tick, TickSecond, TickMinute, TickLifetime, TickReset,
         TickPublishFails, Arrive, LoseConnection, vars
<1> QED
  BY <1>1, <1>2, <1>3, <1>4, <1>5

\* Threads, lock and timer together behave as a service that counts one
\* request at a time and publishes the exact figures of one moment.
THEOREM ProcessorImplementsService == Spec => ImplementsService
<1>1. Init => Service!Init
  BY DEF Init, Service!Init, Service!ViewOf, Service!OfCountry,
         Service!OfCurrency, Snapshot, EmptyWrapper, NoStatistics
<1>2. TypeOK /\ Consistent /\ [Next]_vars
        => [Service!Next]_(Service!serviceVars)
  BY StepImplements
<1> QED
  BY <1>1, <1>2, TypeCorrect, AlwaysConsistent, PTL
  DEF Spec, ImplementsService, Service!Spec

-----------------------------------------------------------------------------
(***************************************************************************)
(* The places of a value in a sequence, and how many there are.            *)
(***************************************************************************)
\* The places of a value in a sequence.
Places(seq, x) == {i \in DOMAIN seq : seq[i] = x}

\* They can be counted.
LEMMA PlacesFinite ==
  ASSUME NEW S, NEW seq \in Seq(S), NEW x
  PROVE  IsFiniteSet(Places(seq, x)) /\ Cardinality(Places(seq, x)) \in Nat
<1>1. IsFiniteSet(1..Len(seq))
  BY FS_Interval
<1>2. Places(seq, x) \in SUBSET (1..Len(seq))
  BY DEF Places
<1> QED
  BY <1>1, <1>2, FS_Subset, FS_CardinalityType

\* A value more at the end.
LEMMA PlacesAppend ==
  ASSUME NEW S, NEW seq \in Seq(S), NEW m \in S, NEW x
  PROVE  Cardinality(Places(Append(seq, m), x))
           = Cardinality(Places(seq, x)) + (IF m = x THEN 1 ELSE 0)
<1>1. IsFiniteSet(Places(seq, x)) /\ Cardinality(Places(seq, x)) \in Nat
  BY PlacesFinite
<1>2. CASE m = x
  <2>1. Places(Append(seq, m), x) = Places(seq, x) \cup {Len(seq) + 1}
    BY <1>2 DEF Places
  <2>2. Len(seq) + 1 \notin Places(seq, x)
    BY DEF Places
  <2> QED
    BY <1>1, <1>2, <2>1, <2>2, FS_AddElement
<1>3. CASE m # x
  <2>1. Places(Append(seq, m), x) = Places(seq, x)
    BY <1>3 DEF Places
  <2> QED
    BY <1>1, <1>3, <2>1
<1> QED
  BY <1>2, <1>3

\* A value more at the head.
LEMMA PlacesShifted ==
  ASSUME NEW S, NEW seq \in Seq(S), NEW longer \in Seq(S), NEW x,
         Len(longer) = Len(seq) + 1,
         \A i \in 1..Len(seq) : longer[i + 1] = seq[i]
  PROVE  Cardinality(Places(longer, x))
           = Cardinality(Places(seq, x)) + (IF longer[1] = x THEN 1 ELSE 0)
<1> DEFINE here == Places(seq, x)
           there == Places(longer, x) \ {1}
           shift == [i \in here |-> i + 1]
<1>1. IsFiniteSet(here) /\ Cardinality(here) \in Nat
  BY PlacesFinite
<1>2. /\ here = {i \in 1..Len(seq) : seq[i] = x}
      /\ Places(longer, x) = {i \in 1..Len(longer) : longer[i] = x}
  BY DEF Places
<1>3. shift \in [here -> there]
  BY <1>2
<1>4. \A i, j \in here : shift[i] = shift[j] => i = j
  BY <1>2
<1>5. \A k \in there : \E i \in here : shift[i] = k
  <2> SUFFICES ASSUME NEW k \in there PROVE \E i \in here : shift[i] = k
    OBVIOUS
  <2>1. k \in 2..Len(longer) /\ longer[k] = x
    BY <1>2
  <2>2. k - 1 \in 1..Len(seq) /\ (k - 1) + 1 = k
    BY <2>1
  <2>3. k - 1 \in here
    BY <1>2, <2>1, <2>2
  <2> QED
    BY <2>2, <2>3
<1>6. 1 \in 1..Len(longer) /\ 1 \notin there
  OBVIOUS
<1>7. /\ longer[1] = x => Places(longer, x) = there \cup {1}
      /\ longer[1] # x => Places(longer, x) = there
  BY <1>2, <1>6
<1> HIDE DEF here, there, shift
<1>8. ExistsBijection(here, there)
  BY <1>3, <1>4, <1>5, Fun_IsBij, Fun_ExistsBij
<1>9. IsFiniteSet(there) /\ Cardinality(there) = Cardinality(here)
  BY <1>1, <1>8, FS_Bijection
<1>10. Cardinality(there \cup {1}) = Cardinality(there) + 1
  BY <1>6, <1>9, FS_AddElement
<1>11. Cardinality(here) = Cardinality(Places(seq, x))
  BY DEF here
<1>12. CASE longer[1] = x
  BY <1>1, <1>7, <1>9, <1>10, <1>11, <1>12
<1>13. CASE longer[1] # x
  BY <1>1, <1>7, <1>9, <1>11, <1>13
<1> QED
  BY <1>12, <1>13

\* A value that is somewhere in a sequence has a count of at least one.
LEMMA PlacesSome ==
  ASSUME NEW S, NEW seq \in Seq(S), NEW x, NEW i \in DOMAIN seq, seq[i] = x
  PROVE  Cardinality(Places(seq, x)) >= 1
<1>1. IsFiniteSet(Places(seq, x)) /\ Cardinality(Places(seq, x)) \in Nat
  BY PlacesFinite
<1>2. i \in Places(seq, x)
  BY DEF Places
<1>3. Cardinality(Places(seq, x)) # 0
  BY <1>1, <1>2, FS_EmptySet
<1> QED
  BY <1>1, <1>3

\* One that is nowhere in it has a count of zero.
LEMMA PlacesNone ==
  ASSUME NEW seq, NEW x, \A i \in DOMAIN seq : seq[i] # x
  PROVE  Cardinality(Places(seq, x)) = 0
<1>1. Places(seq, x) = {}
  BY DEF Places
<1> QED
  BY <1>1, FS_EmptySet

-----------------------------------------------------------------------------
(***************************************************************************)
(* The queue: how often a request waits, is in hand and was counted.       *)
(***************************************************************************)
\* The counts of a request are numbers of places in the log and the queue.
LEMMA Counts ==
  ASSUME TypeOK, NEW r \in Requests
  PROVE  /\ CountOf(r) = Cardinality(Places(log, r))
         /\ Waiting(r) = Cardinality(Places(queue, r))
         /\ CountOf(r) \in Nat /\ Waiting(r) \in Nat /\ Uncounted(r) \in 0..1
<1>1. log \in Seq(Requests) /\ queue \in Seq(Messages)
  BY DEF TypeOK
<1>2. /\ CountOf(r) = Cardinality(Places(log, r))
      /\ Waiting(r) = Cardinality(Places(queue, r))
  BY DEF CountOf, Waiting, Places
<1>3. /\ Cardinality(Places(log, r)) \in Nat
      /\ Cardinality(Places(queue, r)) \in Nat
  BY <1>1, PlacesFinite
<1>4. Uncounted(r) \in 0..1
  BY DEF Uncounted
<1> QED
  BY <1>2, <1>3, <1>4

\* The queue that took back a message has it once more.
LEMMA RequeuedCounts ==
  ASSUME TypeOK, NEW r \in Requests
  PROVE  /\ Requeued \in Seq(Messages)
         /\ Cardinality(Places(Requeued, r))
              = Waiting(r) + (IF unacked = r THEN 1 ELSE 0)
<1>1. queue \in Seq(Messages) /\ None \notin Messages /\ r \in Messages
  BY ConstantsAssumption DEF TypeOK, Messages
<1>2. Waiting(r) \in Nat /\ Waiting(r) = Cardinality(Places(queue, r))
  BY Counts
<1>3. CASE unacked = None
  BY <1>1, <1>2, <1>3 DEF Requeued
<1>4. CASE unacked # None
  <2>1. Requeued = <<unacked>> \o queue /\ unacked \in Messages
    BY <1>4 DEF Requeued, TypeOK
  <2>2. /\ Requeued \in Seq(Messages)
        /\ Len(Requeued) = Len(queue) + 1
        /\ Requeued[1] = unacked
        /\ \A i \in 1..Len(queue) : Requeued[i + 1] = queue[i]
    BY <1>1, <2>1
  <2>3. Cardinality(Places(Requeued, r))
          = Cardinality(Places(queue, r)) + (IF Requeued[1] = r THEN 1 ELSE 0)
    BY <1>1, <2>2, PlacesShifted
  <2> QED
    BY <1>2, <2>2, <2>3
<1> QED
  BY <1>3, <1>4

\* The messages of that queue.
LEMMA RequeuedMessages ==
  ASSUME TypeOK
  PROVE  /\ \A i \in DOMAIN Requeued :
              \/ Requeued[i] = unacked /\ unacked # None
              \/ \E j \in DOMAIN queue : queue[j] = Requeued[i]
         /\ \A i \in DOMAIN queue :
              \E j \in DOMAIN Requeued : Requeued[j] = queue[i]
         /\ unacked # None => \E i \in DOMAIN Requeued : Requeued[i] = unacked
<1>1. queue \in Seq(Messages)
  BY DEF TypeOK
<1>2. CASE unacked = None
  BY <1>2 DEF Requeued
<1>3. CASE unacked # None
  <2>1. Requeued = <<unacked>> \o queue /\ unacked \in Messages
    BY <1>3 DEF Requeued, TypeOK
  <2>2. /\ Requeued \in Seq(Messages)
        /\ Len(Requeued) = Len(queue) + 1
        /\ Requeued[1] = unacked
        /\ \A i \in 1..Len(queue) : Requeued[i + 1] = queue[i]
        /\ \A i \in 2..Len(Requeued) : Requeued[i] = queue[i - 1]
    BY <1>1, <2>1
  <2>3. \A i \in DOMAIN Requeued :
           i = 1 \/ (i \in 2..Len(Requeued) /\ i - 1 \in DOMAIN queue)
    BY <1>1, <2>2
  <2>4. \A i \in DOMAIN queue : i + 1 \in DOMAIN Requeued
    BY <1>1, <2>2
  <2>5. 1 \in DOMAIN Requeued
    BY <2>2
  <2>6. ASSUME NEW i \in DOMAIN Requeued, Requeued[i] # unacked
        PROVE  \E j \in DOMAIN queue : queue[j] = Requeued[i]
    BY <2>2, <2>3, <2>6
  <2>7. \A i \in DOMAIN queue : \E j \in DOMAIN Requeued : Requeued[j] = queue[i]
    BY <1>1, <2>2, <2>4
  <2> QED
    BY <1>3, <2>2, <2>5, <2>6, <2>7
<1> QED
  BY <1>2, <1>3
-----------------------------------------------------------------------------
(***************************************************************************)
(* The inductive invariant.                                                *)
(***************************************************************************)
\* Nothing has arrived, so nothing has been delivered.
LEMMA InitDeliveries == Init => DeliveriesAgree
<1> SUFFICES ASSUME Init PROVE DeliveriesAgree
  OBVIOUS
<1>1. queue = <<>> /\ log = <<>> /\ listener = "idle" /\ drops = 0
  BY DEF Init
<1>2. ASSUME NEW r \in Requests
      PROVE  CountOf(r) + Waiting(r) + Uncounted(r) <= 1 + drops
  <2>1. Cardinality(Places(<<>>, r)) = 0
    BY PlacesNone
  <2>2. CountOf(r) = 0 /\ Waiting(r) = 0
    BY <1>1, <2>1 DEF CountOf, Waiting, Places
  <2> QED
    BY <1>1, <2>2 DEF Uncounted
<1> QED
  BY <1>1, <1>2 DEF Init, DeliveriesAgree, NoRequestLost

\* A message that arrives is on the queue for the first time.
LEMMA ArriveDeliveries ==
  ASSUME TypeOK, DeliveriesAgree, NEW m \in Messages, Arrive(m)
  PROVE  DeliveriesAgree'
<1>1. /\ queue \in Seq(Messages) /\ queue' = Append(queue, m)
      /\ m \notin arrived /\ arrived' = arrived \cup {m}
      /\ UNCHANGED <<unacked, listener, current, log, drops, forgotten>>
      /\ log \in Seq(Requests) /\ drops \in Nat
  BY DEF Arrive, brokerVars, faultVars, TypeOK
<1>2. /\ \A i \in DOMAIN queue : i \in DOMAIN queue' /\ queue'[i] = queue[i]
      /\ \E i \in DOMAIN queue' : queue'[i] = m
      /\ \A i \in DOMAIN queue' : i \in DOMAIN queue \/ queue'[i] = m
  BY <1>1
<1>3. ASSUME NEW r \in Requests
      PROVE  CountOf(r)' + Waiting(r)' + Uncounted(r)' <= 1 + drops'
  <2>1. CountOf(r)' = CountOf(r) /\ Uncounted(r)' = Uncounted(r)
    BY <1>1 DEF CountOf, Uncounted
  <2>2. Waiting(r)' = Waiting(r) + (IF m = r THEN 1 ELSE 0)
    <3>1. Waiting(r)' = Cardinality(Places(Append(queue, m), r))
      BY <1>1 DEF Waiting, Places
    <3> QED
      BY <1>1, <3>1, Counts, PlacesAppend
  <2>3. CountOf(r) \in Nat /\ Waiting(r) \in Nat /\ Uncounted(r) \in 0..1
    BY Counts
  <2>4. CASE m = r
    <3>1. /\ \A i \in DOMAIN queue : queue[i] # r
          /\ \A e \in DOMAIN log : log[e] # r
          /\ current # r
      BY <1>1, <2>4, ConstantsAssumption DEF DeliveriesAgree, Messages
    <3>2. CountOf(r) = 0 /\ Waiting(r) = 0 /\ Uncounted(r) = 0
      BY <3>1, Counts, PlacesNone DEF Uncounted
    <3> QED
      BY <1>1, <2>1, <2>2, <2>4, <3>2
  <2>5. CASE m # r
    BY <1>1, <2>1, <2>2, <2>3, <2>5 DEF DeliveriesAgree
  <2> QED
    BY <2>4, <2>5
<1>4. NoRequestLost'
  BY <1>1, <1>2 DEF DeliveriesAgree, NoRequestLost
<1> QED
  BY <1>1, <1>2, <1>3, <1>4 DEF DeliveriesAgree

\* A delivery takes the message from the queue into the listener's hands.
LEMMA DeliverDeliveries ==
  ASSUME TypeOK, DeliveriesAgree, Deliver
  PROVE  DeliveriesAgree'
<1> DEFINE m == Head(queue)
<1>1. /\ queue \in Seq(Messages) /\ queue # <<>> /\ queue' = Tail(queue)
      /\ unacked' = m /\ current' = m /\ listener' = Dispatch(m)
      /\ listener = "idle" /\ unacked = None
      /\ UNCHANGED <<arrived, log, drops, forgotten>>
      /\ log \in Seq(Requests) /\ drops \in Nat
  BY DEF Deliver, faultVars, TypeOK, DeliveriesAgree
<1>2. /\ m \in Messages /\ m = queue[1] /\ 1 \in DOMAIN queue
      /\ queue' \in Seq(Messages) /\ Len(queue) = Len(queue') + 1
      /\ \A i \in 1..Len(queue') : queue[i + 1] = queue'[i]
      /\ \A i \in DOMAIN queue' : i + 1 \in DOMAIN queue
      /\ \A i \in 2..Len(queue) : i - 1 \in DOMAIN queue' /\ queue'[i - 1] = queue[i]
      /\ \A i \in DOMAIN queue : i = 1 \/ i \in 2..Len(queue)
  BY <1>1
<1> HIDE DEF m
<1>3. listener' # "idle" /\ (m \in Requests => listener' = "lifetime")
      /\ (m \notin Requests => listener' = "ack")
  BY <1>1 DEF Dispatch
<1>4. ASSUME NEW r \in Requests
      PROVE  CountOf(r)' + Waiting(r)' + Uncounted(r)' <= 1 + drops'
  <2>1. CountOf(r)' = CountOf(r)
    BY <1>1 DEF CountOf
  <2>2. Waiting(r) = Cardinality(Places(queue', r)) + (IF m = r THEN 1 ELSE 0)
    <3> DEFINE rest == queue'
    <3>1. rest \in Seq(Messages) /\ Len(queue) = Len(rest) + 1
          /\ \A i \in 1..Len(rest) : queue[i + 1] = rest[i]
      BY <1>2
    <3> HIDE DEF rest
    <3>2. Cardinality(Places(queue, r))
            = Cardinality(Places(rest, r)) + (IF queue[1] = r THEN 1 ELSE 0)
      BY <1>1, <3>1, PlacesShifted
    <3>3. Waiting(r) = Cardinality(Places(queue, r))
      BY Counts
    <3> QED
      BY <1>2, <3>2, <3>3 DEF rest
  <2>3. Waiting(r)' = Cardinality(Places(queue', r))
    BY DEF Waiting, Places
  <2>4. Cardinality(Places(queue', r)) \in Nat
    BY <1>2, PlacesFinite
  <2>5. Uncounted(r) = 0 /\ Uncounted(r)' = (IF m = r THEN 1 ELSE 0)
    BY <1>1, <1>3 DEF Uncounted
  <2>6. CountOf(r) \in Nat /\ CountOf(r) + Waiting(r) + Uncounted(r) <= 1 + drops
    BY Counts DEF DeliveriesAgree
  <2> QED
    BY <1>1, <2>1, <2>2, <2>3, <2>4, <2>5, <2>6
<1>5. NoRequestLost'
  <2> SUFFICES ASSUME NEW r \in arrived \cap Requests
               PROVE  \/ \E i \in DOMAIN queue' : queue'[i] = r
                      \/ unacked' = r
                      \/ \E e \in DOMAIN log : log[e] = r
                      \/ r \in forgotten
    BY <1>1 DEF NoRequestLost
  <2>1. CASE \E i \in DOMAIN queue : queue[i] = r
    <3>1. PICK i \in DOMAIN queue : queue[i] = r
      BY <2>1
    <3>2. i = 1 \/ (i - 1 \in DOMAIN queue' /\ queue'[i - 1] = queue[i])
      BY <1>2
    <3> QED
      BY <1>1, <1>2, <3>1, <3>2
  <2>2. CASE ~\E i \in DOMAIN queue : queue[i] = r
    BY <1>1, <2>2, ConstantsAssumption
    DEF DeliveriesAgree, NoRequestLost, Messages
  <2> QED
    BY <2>1, <2>2
<1>6. m \in arrived /\ \A i \in DOMAIN queue' : queue'[i] \in arrived
  BY <1>2 DEF DeliveriesAgree
<1> QED
  BY <1>1, <1>3, <1>4, <1>5, <1>6 DEF DeliveriesAgree

\* Counting a request ends its being uncounted.
LEMMA AddDeliveries ==
  ASSUME TypeOK, DeliveriesAgree, AddLifetime
  PROVE  DeliveriesAgree'
<1>1. /\ listener = "lifetime" /\ listener' = "second"
      /\ log \in Seq(Requests) /\ current \in Requests
      /\ log' = Append(log, current) /\ current \in arrived
      /\ UNCHANGED <<queue, unacked, arrived, current, drops, forgotten>>
      /\ drops \in Nat
  BY ConstantsAssumption
  DEF AddLifetime, brokerVars, faultVars, TypeOK, DeliveriesAgree, Messages
<1>2. /\ \A e \in DOMAIN log : e \in DOMAIN log' /\ log'[e] = log[e]
      /\ \E e \in DOMAIN log' : log'[e] = current
      /\ \A e \in DOMAIN log' : e \in DOMAIN log \/ log'[e] = current
  BY <1>1
<1>3. ASSUME NEW r \in Requests
      PROVE  CountOf(r)' + Waiting(r)' + Uncounted(r)' <= 1 + drops'
  <2>1. Waiting(r)' = Waiting(r)
    BY <1>1 DEF Waiting
  <2>2. Uncounted(r) = (IF current = r THEN 1 ELSE 0) /\ Uncounted(r)' = 0
    BY <1>1 DEF Uncounted
  <2>3. CountOf(r)' = CountOf(r) + (IF current = r THEN 1 ELSE 0)
    <3>1. CountOf(r)' = Cardinality(Places(Append(log, current), r))
      BY <1>1 DEF CountOf, Places
    <3>2. Cardinality(Places(Append(log, current), r))
            = Cardinality(Places(log, r)) + (IF current = r THEN 1 ELSE 0)
      BY <1>1, PlacesAppend
    <3>3. CountOf(r) = Cardinality(Places(log, r))
      BY Counts
    <3> QED
      BY <3>1, <3>2, <3>3
  <2>4. CountOf(r) \in Nat /\ Waiting(r) \in Nat
        /\ CountOf(r) + Waiting(r) + Uncounted(r) <= 1 + drops
    BY Counts DEF DeliveriesAgree
  <2> QED
    BY <1>1, <2>1, <2>2, <2>3, <2>4
<1>4. NoRequestLost'
  BY <1>1, <1>2 DEF DeliveriesAgree, NoRequestLost
<1>5. unacked' \in Requests => \E e \in DOMAIN log' : log'[e] = unacked'
  BY <1>1, <1>2, ConstantsAssumption DEF DeliveriesAgree, Messages
<1> QED
  BY <1>1, <1>2, <1>3, <1>4, <1>5 DEF DeliveriesAgree

\* What the broker waits an acknowledgement for was counted before.
LEMMA AckDeliveries ==
  ASSUME TypeOK, DeliveriesAgree, Ack
  PROVE  DeliveriesAgree'
<1>1. /\ listener = "ack" /\ listener' = "idle"
      /\ current' = None /\ unacked' = None
      /\ UNCHANGED <<queue, arrived, log, drops, forgotten>>
  BY DEF Ack, faultVars
<1>2. ASSUME NEW r \in Requests
      PROVE  CountOf(r)' + Waiting(r)' + Uncounted(r)' <= 1 + drops'
  <2>1. CountOf(r)' = CountOf(r) /\ Waiting(r)' = Waiting(r)
        /\ Uncounted(r)' = 0 /\ Uncounted(r) = 0
    BY <1>1 DEF CountOf, Waiting, Uncounted
  <2> QED
    BY <1>1, <2>1 DEF DeliveriesAgree
<1>3. NoRequestLost'
  BY <1>1 DEF DeliveriesAgree, NoRequestLost
<1> QED
  BY <1>1, <1>2, <1>3 DEF DeliveriesAgree

\* The broker takes a message back: one delivery more, and one loss more.
LEMMA LoseDeliveries ==
  ASSUME TypeOK, DeliveriesAgree, LoseConnection
  PROVE  DeliveriesAgree'
<1>1. /\ queue' = Requeued /\ unacked # None /\ unacked' = None
      /\ drops' = drops + 1 /\ drops \in Nat
      /\ UNCHANGED <<arrived, listener, current, log, forgotten>>
  BY DEF LoseConnection, TypeOK
<1>2. ASSUME NEW r \in Requests
      PROVE  CountOf(r)' + Waiting(r)' + Uncounted(r)' <= 1 + drops'
  <2>1. CountOf(r)' = CountOf(r) /\ Uncounted(r)' = Uncounted(r)
    BY <1>1 DEF CountOf, Uncounted
  <2>2. Waiting(r)' = Cardinality(Places(Requeued, r))
    BY <1>1 DEF Waiting, Places
  <2>3. Cardinality(Places(Requeued, r))
          = Waiting(r) + (IF unacked = r THEN 1 ELSE 0)
    BY RequeuedCounts
  <2>4. /\ CountOf(r) \in Nat /\ Waiting(r) \in Nat /\ Uncounted(r) \in 0..1
        /\ CountOf(r) + Waiting(r) + Uncounted(r) <= 1 + drops
    BY Counts DEF DeliveriesAgree
  <2> QED
    BY <1>1, <2>1, <2>2, <2>3, <2>4
<1>3. NoRequestLost'
  BY <1>1, RequeuedMessages DEF DeliveriesAgree, NoRequestLost
<1>4. \A i \in DOMAIN queue' : queue'[i] \in arrived
  BY <1>1, RequeuedMessages DEF DeliveriesAgree
<1>5. unacked' \notin Requests
  BY <1>1, ConstantsAssumption DEF Messages
<1> QED
  BY <1>1, <1>2, <1>3, <1>4, <1>5 DEF DeliveriesAgree

\* A crash forgets what was counted, and one delivery of what the listener
\* had in its hands or had just counted is due again.
LEMMA CrashDeliveries ==
  ASSUME TypeOK, DeliveriesAgree, Crash
  PROVE  DeliveriesAgree'
<1>1. /\ queue' = Requeued /\ unacked' = None /\ log' = <<>>
      /\ forgotten' = forgotten \cup {log[e] : e \in DOMAIN log}
      /\ listener' = "idle" /\ current' = None
      /\ arrived' = arrived /\ drops' = drops /\ drops \in Nat
      /\ log \in Seq(Requests)
  BY DEF Crash, TypeOK
<1>2. ASSUME NEW r \in Requests
      PROVE  CountOf(r)' + Waiting(r)' + Uncounted(r)' <= 1 + drops'
  <2>1. CountOf(r)' = 0 /\ Uncounted(r)' = 0
    <3>1. Cardinality(Places(<<>>, r)) = 0
      BY PlacesNone
    <3> QED
      BY <1>1, <3>1 DEF CountOf, Places, Uncounted
  <2>2. Waiting(r)' = Cardinality(Places(Requeued, r))
    BY <1>1 DEF Waiting, Places
  <2>3. Cardinality(Places(Requeued, r))
          = Waiting(r) + (IF unacked = r THEN 1 ELSE 0)
    BY RequeuedCounts
  <2>4. /\ CountOf(r) \in Nat /\ Waiting(r) \in Nat /\ Uncounted(r) \in 0..1
        /\ CountOf(r) + Waiting(r) + Uncounted(r) <= 1 + drops
    BY Counts DEF DeliveriesAgree
  <2>5. unacked = r => CountOf(r) >= 1 \/ Uncounted(r) = 1
    <3> SUFFICES ASSUME unacked = r PROVE CountOf(r) >= 1 \/ Uncounted(r) = 1
      OBVIOUS
    <3>1. current = r /\ listener # "idle"
      BY ConstantsAssumption DEF DeliveriesAgree, Messages
    <3>2. CASE listener = "lifetime"
      BY <3>1, <3>2 DEF Uncounted
    <3>3. CASE \E e \in DOMAIN log : log[e] = r
      <4>1. Cardinality(Places(log, r)) >= 1
        BY <1>1, <3>3, PlacesSome
      <4> QED
        BY <4>1, Counts
    <3> QED
      BY <3>1, <3>2, <3>3 DEF DeliveriesAgree
  <2> QED
    BY <1>1, <2>1, <2>2, <2>3, <2>4, <2>5
<1>3. NoRequestLost'
  <2> SUFFICES ASSUME NEW r \in arrived \cap Requests
               PROVE  (\E i \in DOMAIN queue' : queue'[i] = r) \/ r \in forgotten'
    BY <1>1 DEF NoRequestLost
  <2>1. unacked = r => unacked # None
    BY ConstantsAssumption DEF Messages
  <2> QED
    BY <1>1, <2>1, RequeuedMessages DEF DeliveriesAgree, NoRequestLost
<1>4. \A i \in DOMAIN queue' : queue'[i] \in arrived
  BY <1>1, RequeuedMessages DEF DeliveriesAgree
<1>5. \A e \in DOMAIN log' : log'[e] \in arrived'
  BY <1>1
<1> QED
  BY <1>1, <1>2, <1>3, <1>4, <1>5 DEF DeliveriesAgree

\* The other steps move no request and count none.
LEMMA OtherDeliveries ==
  ASSUME TypeOK, DeliveriesAgree,
         AddSecond \/ AddMinute \/ AddCountry \/ AddCurrency \/ Tick
                   \/ UNCHANGED vars
  PROVE  DeliveriesAgree'
<1>1. /\ UNCHANGED <<queue, unacked, arrived, current, log, drops, forgotten>>
      /\ \/ listener' = listener
         \/ /\ listener \notin {"idle", "lifetime"}
            /\ listener' \notin {"idle", "lifetime"}
  BY DEF AddSecond, AddMinute, AddCountry, AddCurrency, Tick, TickSecond,
         TickMinute, TickLifetime, TickReset, TickPublish, TickPublishFails,
         vars, brokerVars, faultVars
<1>2. ASSUME NEW r \in Requests
      PROVE  CountOf(r)' + Waiting(r)' + Uncounted(r)' <= 1 + drops'
  <2>1. CountOf(r)' = CountOf(r) /\ Waiting(r)' = Waiting(r)
        /\ Uncounted(r)' = Uncounted(r)
    BY <1>1 DEF CountOf, Waiting, Uncounted
  <2> QED
    BY <1>1, <2>1 DEF DeliveriesAgree
<1>3. NoRequestLost'
  BY <1>1 DEF DeliveriesAgree, NoRequestLost
<1> QED
  BY <1>1, <1>2, <1>3 DEF DeliveriesAgree

\* Every step keeps the agreement.
LEMMA NextDeliveries ==
  ASSUME TypeOK, DeliveriesAgree, [Next]_vars
  PROVE  DeliveriesAgree'
BY ArriveDeliveries, DeliverDeliveries, AddDeliveries, AckDeliveries,
   LoseDeliveries, CrashDeliveries, OtherDeliveries DEF Next, Listen

\* Waiting requests and those in the listener's hands, added to those that
\* were counted, are never more than the deliveries that are due.
THEOREM DeliveriesAlwaysAgree == Spec => []DeliveriesAgree
<1>1. Init => DeliveriesAgree
  BY InitDeliveries
<1>2. TypeOK /\ DeliveriesAgree /\ [Next]_vars => DeliveriesAgree'
  BY NextDeliveries
<1> QED
  BY <1>1, <1>2, TypeCorrect, PTL DEF Spec

\* However often the connection is lost and the processor is started again, a
\* request is neither lost nor counted more often than it was delivered
\* (Processor.receiveMessage and the acknowledgement after it).
THEOREM RequestsAlwaysAccounted == Spec => []RequestsAccounted
<1>1. ASSUME TypeOK, DeliveriesAgree
      PROVE  RequestsAccounted
  <2>1. ASSUME NEW r \in Requests
        PROVE  Cardinality({e \in DOMAIN log : log[e] = r}) <= 1 + drops
    <3>1. /\ CountOf(r) \in Nat /\ Waiting(r) \in Nat /\ Uncounted(r) \in 0..1
          /\ CountOf(r) + Waiting(r) + Uncounted(r) <= 1 + drops
          /\ drops \in Nat
      BY <1>1, <2>1, Counts DEF DeliveriesAgree, TypeOK
    <3>2. CountOf(r) <= 1 + drops
      BY <3>1
    <3> QED
      BY <3>2 DEF CountOf
  <2> QED
    BY <1>1, <2>1
    DEF RequestsAccounted, CountedOncePerDelivery, DeliveriesAgree
<1> QED
  BY <1>1, TypeCorrect, DeliveriesAlwaysAgree, PTL
=============================================================================
