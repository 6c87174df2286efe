# TLA+ models of highrate

highrate takes foreign-exchange transfer requests over HTTP, stores them in
Cassandra, forwards them over RabbitMQ to a processor that counts them, and
shows the processor's figures on a web page once a second.  The page brings its
own scripts: a STOMP client, a SockJS socket and a chart library, which are
most of the repository's code.  This directory holds TLA+ modules for the parts
of it in which something can go wrong that a unit test would hardly reach, TLC
configurations that check small instances of them, and TLAPS proofs about the
processor and its figures, the receiver, the reader, the sender, the exchanges, and on
the page the socket, its transports, the STOMP client with its frames, and the charts.

Paths below are those of the repository; the Java packages
`hr.cleancode.*` under `src/main/java` are abbreviated to the class name, and
the scripts are in `src/web/src/main/resources/static`.

## 1. The system

    sender --HTTP--> receiver --insert--> Cassandra --select--> reader
                        |                                         |
                        +-----> request exchange <----------------+
                                      |
                                request queue --> processor
                                                      |  once a second
                                              statistics exchange
                                                      |
                                      statistics queue --> web
                                                            |  STOMP over SockJS
       page:  app.js --> four charts (c3.js)                |
                 ^                                          v
                 +---- stomp.js <---- sock.js <---- transport (web socket, XHR,
                                                    EventSource, htmlfile, JSONP)

| component | state it keeps | operations | talks to |
|---|---|---|---|
| **processor** (`CountTransferRequestProcessor`, `Processor`, `ProcessorConfig`) | five counters, all in memory (lifetime, second, minute, one map per country and one per currency pair); the wrapper with the histories of 60 seconds and 60 minutes; the tick counter | `processTransferRequest` on the listener container's thread; `SecondsTimer.run` on a timer thread, every second; both `synchronized (MUTEX)` | request queue, statistics exchange |
| **statistics** (`TransferRequestStatistics`, `CompleteStatisticsWrapper`) | the figures of a window; the histories | `addRequest`, `updateSecond`, `updateMinute`, `updateLifetime...` | used by the processor |
| **receiver** (`Receiver`, `JsonRequestHttpHandler`, `CFHttpHandler`) | per channel: latest request, body buffer, responses not flushed | `channelRead0`, `writeResponse`, `handleRequestInput`, `channelReadComplete`, `exceptionCaught` on Netty's event loops | Cassandra, request exchange |
| **transfer request validation** (`TransferRequest`) | a value | `validate` | receiver |
| **message repository** (`MessageRepositoryCassandra`) | the table; a queue of futures when `asyncPersistence` is on | `saveTransferRequest`, `listTransferRequests` | Cassandra |
| **reader** (`Reader`, `TransferRequestReader`) | the cursor `lastReadRequest` | `processChunk`, in an endless loop | Cassandra, request exchange |
| **queues** (`QueuesConfig`, `HighRateConstants`) | exchanges, queues, bindings, routing keys | declared when a listener container starts | RabbitMQ |
| **web** (`AppConfig`, `StatisticDispatcher`, `WebSocketConfig`) | the snapshot in the listener's hands; subscriptions | `receiveStatistic` | statistics queue, browsers |
| **stomp client** (`stomp.js`) | `connected`, `counter`, `subscriptions`, two timers, time of the last sign of the server | `connect`, `subscribe`, `unsubscribe`, `send`, `begin`, `commit`, `abort`, `ack`, `nack`, `disconnect`; handlers of the socket's `onopen`, `onmessage`, `onclose` | its socket |
| **sockjs client** (`sock.js`) | `readyState`, list of protocols, transport in use and its time-out; per transport a receiver, a buffered sender, possibly an iframe | `SockJS`, `send`, `close`; `_applyInfo`, `_try_next_protocol`, `_didMessage`, `_didClose`, handlers of requests | the server by way of the browser |
| **charts** (`c3.js`) | targets, hidden ids, elements with transitions, the flag `flowing` | `load`, `unload`, `hide`, `show`, `toggle`, `flow`; conversion of data; scales | `d3` |
| **dashboard** (`app.js`, `line-chart.js`, `bar-chart.js`) | four charts | the handler of `/topic/stats` | stomp client, charts |
| **sender** (`Sender`, `MessageSenderThread`) | a success counter per thread | a loop of posts in ten threads | receiver |

What is hard about each, and what makes it correct:

* *processor* — two threads; a publish that throws in the middle of the
  timer's block, after the counters were reset and before the tick counter is
  reduced; redelivery and crashes.  A request must be counted in all counters at
  once as far as a published snapshot can tell, none may be lost or counted
  more often than it was delivered, and the histories must account for each
  request exactly once.
* *statistics* — the list of the ten requests with the lowest rates is cut after
  every request, so it must not depend on what was cut.
* *receiver* — one handler serves the posts of a channel one after the other
  from objects that cut a body anywhere; saving and publishing are two calls
  that can fail separately; responses are flushed later than they are written.
  A response must be true of what was stored and forwarded.
* *reader* — the cursor moves before the rows it passes are published, and rows
  are inserted on both sides of it.
* *queues, web* — nothing compares the routing key of a binding with that of a
  publisher; web applications share one queue; connections are lost between
  dispatch and acknowledgement.
* *stomp client* — the page's callbacks run in the middle of a message of the
  socket that holds several frames, and may subscribe, cancel, acknowledge and
  disconnect there; messages are under way when their subscription is
  cancelled.  A callback must get what it subscribed to and nothing else; no
  timer may survive the connection.
* *sockjs client* — transports are tried one after the other, each with a timer,
  while answers to earlier ones are still under way; responses end and are asked
  for again; sending and receiving are separate requests, perhaps in another
  window.  The page must see one socket that keeps order, opens at most once and
  tells of its end once.
* *charts, dashboard* — calls change the data at once and what is shown later;
  elements and data are joined by position.  A chart must show the values last
  given.
* *sender* — connections fail while the receiver handles the message.  The
  counter must never claim more than was forwarded.

## 2. The modules

| module | what it models |
|---|---|
| `CompleteStatistics` | `addRequest` and the wrapper's histories, as operators |
| `StatisticsService` | abstract: requests are counted one at a time and a published view is the exact state of one moment |
| `Processor` | the processor, both threads statement by statement, with the broker's side of its queue; implements `StatisticsService` |
| `Statistics` | the figures of a window and the list of top requests |
| `PostService` | abstract: a post is stored, forwarded, answered, and the answer is true |
| `Receiver` | the HTTP handler of every channel, with store and exchange; implements `PostService` |
| `TransferRequest` | `validate`, as an operator |
| `Sender` | the posting threads and the main thread, as a client of `PostService` |
| `Reader` | the read loop against concurrent inserts |
| `Exchanges` | exchanges, bindings, and the way of a snapshot to the browsers |
| `StompFrames` | the text of frames, and how it is cut and read, as operators |
| `SocketService` | abstract: a socket that opens at most once, keeps order and ends once |
| `StompClient` | class `Client` over a socket that keeps `SocketService`, with a broker |
| `SockJS` | the socket object: `/info`, fallback, time-outs; implements `SocketService` |
| `TransportService` | abstract: what a transport promises its socket |
| `Transports` | receivers and buffered senders, in the page and in an iframe; implements `TransportService` |
| `SockUtils` | listeners, URLs, choice of protocols, quoting, as operators |
| `Chart` | a chart's data and elements while the page calls its API |
| `ChartData`, `ChartScales` | conversion of data, positions of bars and domains of axes, as operators |
| `Dashboard` | what a snapshot does to the four charts, as operators |
| `Calculations` | what has no other actor: a window that is filled, a page that is served, and functions that are asked one question a behaviour, each about every input of a set |
| `Sorting` | the values of a set in the order of their keys, and those of a sequence at some of its places, in a form to prove about |
| `ProcessorProofs`, `ReceiverProofs`, `SockJSProofs`, `TransportsProofs`, `StompClientProofs`, `ChartProofs` | theorems about the modules of these names; the last but one also about the text of frames in `Calculations` |
| `MessagingProofs` | theorems about what feeds the queues and what empties them: `Reader`, `Sender` and `Exchanges` |
| `CalculationsProofs` | theorems about `Calculations`: `Statistics`, `Dashboard`, `TransferRequest`, `ChartData`, `ChartScales` |
| `MC<module>` | instances for TLC; `MCCalculations` also asks `SockUtils`, of which nothing is proved |

Operators whose comment begins with *Mutant* are plausible wrong versions of the
operator that follows them.  Nothing uses them; they exist so that one can
substitute them and see that a property really depends on the code being as it
is.

### Processor, CompleteStatistics, StatisticsService

A `TransferRequestStatistics` is an immutable value computed from the requests
that were added to it, so it is abstracted to the *set of processing events*
added; an event is the position of the request in `log`.  (A set of requests
would not do: a request that is redelivered is counted twice.  That the figures
themselves depend on the added requests only is the subject of `Statistics`.)

| state | code |
|---|---|
| `lifetime`, `second`, `minute` | `lifetimeStatistics`, `lastSecondStatistics`, `lastMinuteStatistics` |
| `perCountry`, `perCurrency` | the two `ConcurrentHashMap`s; a key that is not there is `NoStatistics` |
| `wrapper` | `completeStatisticsWrapper`; its maps are references to the live ones, hence no state |
| `tickCount`, `mutex` | the fields of these names; `mutex` holds the owner |
| `listener`, `timer`, `current` | the statement each thread is at; the message in hand |
| `queue`, `unacked` | the broker (external) |
| `published` | the last snapshot the statistics exchange accepted |

`AddLifetime`, `AddSecond`, `AddMinute`, `AddCountry`, `AddCurrency` are the
statements of `processTransferRequest`; the first takes the lock and the last
releases it.  `TickSecond` ... `TickPublish` are those of `SecondsTimer.run`.
Local variables are computed where they are used.
`TickPublishFails` is `convertAndSend` throwing: the lock is released, the
exception logged, `tickCount % TICKS_PER_MINUTE` not reached.  `Deliver`/`Ack`
are the container; a message that is no request is logged by `Processor` and
acknowledged.  `LoseConnection` gives an unacknowledged message back to the
queue while the listener works on; `Crash` can happen between any two
statements.  The processor is modelled against its own queue: as
`Exchanges` shows, with the routing keys in the code nothing sent by receiver or
reader gets there, and these properties are about what the processor does with
the requests that do (from another publisher, or once the keys agree).

History variables: `log`, `late` (events processed between the last two ticks of
a minute), `ticks`, `arrived`, `forgotten`, and the fault counters.

`ImplementsService` is `StatisticsService!Spec` under the mapping
`counted <- log`, `view <-` the lifetime, country and currency figures of
`published`.

### Statistics

`AddRequest` computes count, volumes, average and top list from the previous
value; `Ranked` is the stable sort by rate and the cut to ten, in this order.
The reference definition, `FiguresOfWindow`, is stated over the whole sequence of
added requests, without a sort: the `i`-th request of the window is in the list at the
place that follows those before it in the order of rates.  Doubles are natural numbers, the average is a fraction.

### Receiver

`channel[c]` is a record of the connection, the handler's fields and the
statement it is at.  `ReadHead`, `ReadContent`, `ReadLast` are `channelRead0`
of an `HttpRequest`, an `HttpContent` and a `LastHttpContent`; `Save`, `Publish`
and `Respond` go through `handleRequestInput` and `writeResponse`; `Fail` is
either call throwing, *before or after* it took effect on the other side;
`ReadComplete` is `channelReadComplete`.  A channel is sequential but blocks
inside `Save` and `Publish`, and those are the points where channels interleave.
A post is a model value with a kind (valid, refused, without `timeReceived`,
undecodable) and a body over three byte values, because the property about the
text needs a character of two bytes; `DecodeUtf8` does to it what
`toString(UTF_8)` does.  `handleRequestInput` then makes bytes of the text again with
`content.getBytes()`, in the platform's charset, and `readValue` takes them for UTF-8
(`Reread`).  `Charset` gives the charset that each start of the process finds; with
another one than UTF-8 a character that is not ASCII arrives `garbled`, that is as a question
mark or a piece of another character, or the bytes are no UTF-8 and the post is refused
(`Readable`); which of these depends on the charset and is left open.  Every charset is taken
to have ASCII in it.  A channel whose connection is being closed goes
on handling the objects of the present read, as Netty's decoder does.

`ImplementsService` is `PostService!Spec` with the rows' posts for `stored` and the
`i`-th response on a channel for the answer to its `i`-th post.

### Sender

Its specification is `SenderSpec`, with `SenderInit` and `SenderNext`.  `Send` is a turn of a thread's loop up to the wait in `c.execute`; `ReceiveAnswer` and
`ConnectionFails` are the two ways out of it (a status, an `IOException`);
`Finish` is `awaitTermination` returning.  `Handle` is the receiver, which may
store and forward a message after its sender has given it up.  The HTTP client
sends a message again only if it was not fully sent, which the receiver does not
see as a post; this is part of `Send`.

### Reader

Its specification is `ReaderSpec`.  `Key` stands for the `timestamp` column and orders the table; it is made from the
time a request was *received*, as its client says, and random bits, so insertion order is any.
A null cursor is not before every row: the query then begins 1000 days before the
present time, which is any of `Starts`, a new one at each start of the process, and that
place becomes the cursor if the result is empty.  `start` records where the present run began.
`ReadChunk` is the query with its country, cursor and limit together with the
move of the cursor; `PublishNext` is one `convertAndSend`; `LoopEnds` an
exception that nothing in `Reader.run` catches; `Restart` a new process.  `behind`
records the rows inserted behind the cursor of the present run.

### Exchanges

Constants of `HighRateConstants` and `QueuesConfig` are used literally, because
one property is about them.  A message is routed if an existing binding of that
exchange accepts the key; publishes are neither mandatory nor confirmed, so a
message that is routed nowhere is dropped silently.  `Declare` may come after the
first snapshots: the processor starts its timer in a constructor, before its
container starts.  `outbound` is a set because a pool of threads writes to a
browser.

### TransferRequest

`Validate` returns the first property that `PropertyValueRequired` would name.  A
number is given in hundredths, since the bound in `checkRequired` is 0.01.  `NaN`
and `Infinity` are values of their own, because Jackson reads them and neither is less
than the bound.
The receiver's kinds of posts *valid* and *refused* are the two outcomes; a post that
`readValue` itself fails on is *refused* too, whatever the charset.

### StompFrames, StompClient

`StompFrames` has the text of a frame as a sequence of tokens: a line feed, a NUL, a
character of a body with its size in UTF-8, or a whole command or header line.  A header
line is itself a sequence of pieces, words, blanks and colons: `HeadersOf` splits it at its first
colon (`ColonAt`) and takes the blanks off the ends of name and value (`Trim`), as
`unmarshallSingle` does, so that names with a colon, and blanks at the ends, do not come back.
`Marshall`, `UnmarshallSingle` and `Unmarshall` are the functions of these names, `Transmitted` the
loop of `_transmit` that cuts what is sent.

`StompClient` is class `Client` after the page has called `connect`.

| state | code |
|---|---|
| `state`, `closing`, `onclose` | the socket, as `SocketService` promises it, and whether its close handler is set |
| `connected`, `counter`, `subscriptions` | the fields; a subscription's value is the callback, numbered by `registry` |
| `pinger`, `ponger`, `intervals` | the fields, and the intervals that run; the fields are never reset |
| `serverActivity` | the field; its value is a function, as `now` is not called |
| `frames`, `incall` | the rest of the socket's message that the handler walks through; whether a callback runs |
| `out`, `in`, `arrived`, `delivered` | both directions of the socket; a message of the broker is a sequence of frames |
| `broker` | its session and subscriptions (external) |

A handler runs to its end, so everything but the calls of the page waits while
`frames # <<>>`; the calls are possible then if a callback runs, and whenever nothing
does.  A call that throws in `_transmit`, because the socket is still connecting,
has done what precedes it in the code: `SubscribeWith` has registered the id.
`MessageIdOf` follows from `messageID` and `subscription` being variables of the
handler that all frames of a message share.  The broker answers `CONNECT`, publishes to
the subscriptions it knows, sends heart-beats, errors, and puts several frames into
one message.  The page's callbacks are taken to return.  That of `app.js` throws on a volume that
is no number (see `Dashboard`), which ends the handler of the socket's message, and the
frames after that one in the same message are not handled.

### SocketService, SockJS

`SocketService` is what a page may expect of the object it holds.  `StompClient`
relies on nothing else, and `ImplementsSocket` shows that `SockJS` keeps it, under
`state <- s.readyState`.

`s` holds the fields of the SockJS object; `live` the transports that were made and
not cleaned up, `timers` the time-outs that have not struck and were not cleared,
`load` the listener for the event of that name, `wire[t]` the frames on their way to
transport `t`.  `InfoAsked`, `InfoArrives`, `InfoFails`, `InfoGarbled` are the request
for `/info` and its ends; `TryNext` is `_try_next_protocol`, `DidClose` is `_didClose`,
`Get...` are the branches of `_didMessage`.  An array frame is dispatched payload by
payload, and the page may call `close` between two of them.  A transport may break at
any moment, and its session may say anything of what the protocol has.

### TransportService, Transports

A transport gives frames to the socket and takes messages from it; what it
promises is `TransportService`.  `Transports` has the five ways in which a transport
without web socket is put together: XHR in the page, XHR, EventSource and htmlfile
in an iframe, and JSONP.  `recv` is the receiver's request with the text that has
come and was not read, `lines` the frames that the running handler still has to
dispatch, `buffer`, `stop` and `posts` are `send_buffer`, `send_stop` and the requests
of the buffered sender, `up` and `down` the messages between the windows.  `CleanUp` is
`doCleanup`: in the page it aborts the request and empties the list of listeners; of
an iframe it only takes the element out of the document, later, as the message to
the script inside is never sent (see *Seen while modelling*).

### SockUtils

`REventTarget` and `EventEmitter` walk a list by index while listeners change it,
hence the recursive `Called`.  URLs are sequences of words
and slashes; `DetectProtocols` has one case per probe of the browser; `Quote` replaces
what a browser might break.

### Chart

`targets` are the data, which a call changes before it returns; `elements` is what the
page shows, each with its opacity and the transition that runs on it.  `Join` binds
targets to elements by position, as `d3`'s `data()` without a key does.  `Load`,
`LoadUnloading`, `Unload`, `Hide`, `Show`, `Toggle` and `Flow` are the API's functions with all
they call; `TransitionEnds`, `StartFlow` and `FinishFlow` are `d3`'s timers.  A transition on
an element supersedes the one that runs there, and a call that waits for the end
of the earlier one waits for ever.  `hasty` records that the page did not wait for
the end of an unload or a flow; the library promises little to such a page, and the
properties say which part it keeps.  `given` records what the page gave for each target
since it was last loaded, and `even` of a flow whether it can leave all targets of one length: a
flow for new targets only removes nothing at the head, and the nulls put before a new
target's value are as many as lie between the *first* target's head and the
*last* unnamed target's tail, which is the wrong number unless all begin at one index.

### ChartData, ChartScales, Dashboard

Operators.  `ConvertColumnsToData`, `ConvertRowsToData`, `ConvertJsonToData`,
`ConvertXsvToData` and `ConvertDataToTargets` are the path from what a page gives to `targets`;
`ShapeIndices`, `ShapeOffset`, `YDomain`, `XDomain`, `TrimXDomain` place them.  `Dashboard` uses
the first for the page's charts: `OnMessage` is the handler in `app.js`.  It shows the count,
then the volume by its method `toFixed`, then updates the charts.  A volume that is NaN or
infinite is sent as a text, which has no such method (`HasToFixed`): `OnMessageThrows` is the
handler that ends there, with a new count beside an old volume and old charts.

The cells of a file are texts, and there is no null among them: an empty cell (`Empty`) is a text that
`Number`, which is `convertDataToTargets`' test and conversion of a value, makes a zero, where a null
of rows or columns stays missing.

### Calculations

The modules of operators are brought together under one specification so that there
is something to check and to prove of them.  A behaviour fills a window (`Window`), serves
a page with snapshots (`Page`), or asks one question (`Ask`): `probe` then holds an input
of `Questions[kind]`.  `CalculationsAssumption` says what an input of each kind is, in
terms of types and no bounds, so that a theorem about the specification is about every such
input; an instance for TLC gives finite sets of them.  `Strings` is a constant because
TLC cannot tell that a model value is no string, which `Null` and `Text` have to be apart from.

What is assumed of inputs is what the code needs: headers of a frame do not take the name of
the one of its length, columns are not empty, the x of one table differ, targets have different ids and one of them has a value.  `IsBars` asks
that no target be in two groups and that all have as many values, without which c3.js
does not stack: it sums up whatever shares a group at one index.

## 3. The runs

Every bound is a CONSTANT, named in the module where a guard uses it.

| run | instance and bounds | distinct states | what it shows |
|---|---|---|---|
| `processor_faults` | 2 requests of different countries, 1 other message, minute of 2 ticks, history of 2; one failed publish, one lost connection, one crash | 724 419 | `RequestsAccounted`, `HistoriesAccount`, `Consistent`, `ImplementsService`, and, with fairness, `EveryRequestShown` |
| `processor_minutes` | 2 requests, minute of 2 ticks, no faults | violation | `MinutesGapless` (finding 1) |
| `receiver` | 2 channels with 3 posts each, of all kinds, one body of three bytes, one post without keep-alive; one failure, one loss, and one crash after which the charset is another | 169 952 | `PostsTrue`, `ImplementsService`, and, with fairness, `EveryPostAnswered` |
| `sender` | 2 threads, 2 messages each | 14 096 | `SuccessesWereForwarded` and, with fairness, `Finishes` |
| `reader` | 5 rows, one of another country, a run that begins before all of them or after two, limit 2, one restart | 8 196 | `RowsInOrder` and, with fairness, `EveryRowPublished` |
| `exchanges` | 2 web applications, a browser each, 2 snapshots, one lost connection | 131 040 | `SnapshotsAccounted` and, with fairness, `EverySnapshotReceived` |
| `exchanges_routing` | 2 requests | violation | `ForwardedIsQueued` (finding 2) |
| `stomp` | 2 destinations, one id of the page's own, 3 calls of the page, 2 messages, 2 frames in a message | 1 903 474 | `MessagesAreOwn`, `ProtocolKept` and, with fairness, `EveryMessageHandled` |
| `sock` | lists of three, two and no protocols, 4 messages to the page, 2 from it, 2 frames under way | 148 907 | `OneAtATime`, `ImplementsSocket` and, with fairness, `Settles` |
| `transports` | the five kinds, 3 frames, 2 messages of the page, 2 ends of responses | 143 580 | `OrderKept`, `ImplementsTransport` and, with fairness, `NothingStuck` |
| `chart` | 3 targets, one of which comes only with another, 2 values each, 3 calls that change data (2 of a hasty page), one of hide, show or toggle | 984 598 | `LatestInOrder`, `PatientPageServed` and, with fairness, `CallsEnd` |
| `functions` (`MCCalculations`) | windows of up to 6 of 4 requests with a top list of 3; every input of small sets for the rest | 39 825 | `FiguresCount`, `StompTextSurvives`, `SockUtilsServe`, `ChartShowsData`, `PageShowsLatest` |

Each state machine's `TypeOK` is checked by its run too.  Some properties name
several that belong together:

| property | says |
|---|---|
| `RequestsAccounted` | `NoRequestLost`: what was sent to the processor is counted, on its way or forgotten in a crash; `CountedOncePerDelivery`: never counted more often than delivered |
| `HistoriesAccount` | `SecondsTile`: published seconds neither repeat nor skip an event; `MinutesLoseOnlyLastSecond`: published minutes skip none but the events of the last second of a minute |
| `Consistent` | the inductive invariant of section 4 |
| `PostsTrue` | `PostsAgree`: what was answered, stored and published agree with each other and with what each channel has yet to do; `TextIsOwn`: the text that is stored is that of the post's own body, unless the network cut a character of it in two; where a process found another charset than UTF-8, characters that are not ASCII may be garbled |
| `RowsInOrder` | `InOrder`: a run of the reader publishes by rising keys, hence none twice; `NonePassedOver`: rows it leaves out were inserted behind its cursor, are of another country, or not after where the run began |
| `SnapshotsAccounted` | `NoSnapshotLost`: an accepted snapshot is queued, in a listener's hands or dispatched; `DispatchedOnce`: once, and once more for each connection lost |
| `MessagesAreOwn` | `OwnMessages`: a callback gets messages of its destination only; `AcknowledgesOwnBatch`: `ack` and `nack` name a message that came with their own |
| `ProtocolKept` | `ConnectFirst`, `BeatsAsAgreed`, `NoTimersLeft` |
| `OneAtATime` | `OneTransport`: none goes on that the socket does not hold; `TimeoutIsOwn`; `AllTried`: failure is told when each protocol was tried |
| `OrderKept` | `FramesInOrder`; `NoGaps`: no message arrives without those before it, where the sender can tell a failure |
| `NothingStuck` | `FramesReach`, `EndNoticed`, `MessagesReach` |
| `PatientPageServed` | `ShownAsData`: elements and data agree; `FlowKeepsLength`: a flow takes as many values as it brings, if all flows were even |
| `FiguresCount` | `FiguresOfWindow`: figures are those of a definition over the whole window; `ValidRaisesSums`: a request that passes `validate` raises every sum it is added to, unless it makes it NaN or infinite |
| `StompTextSurvives` | `FramesSurvive`: commands and bodies are read back as written, although lengths are in bytes and texts in characters, and so are headers with plain names, but for the blanks at the ends of their values; `PiecesWhole`: what is cut and put together is what was sent |
| `SockUtilsServe` | `ListenersCalledOnce`, `EmitsInOrder`, `UrlsAmendedOnce`, `NumbersFit`, `QuotedIsRead`, `ProtocolsUsable` |
| `ChartShowsData` | `ConversionsAgree`, `ValuesAtTheirX`, `BarsStackApart`, `AxisUpright`, `DomainHoldsData` |

Why the bounds are enough to be of interest:

* A minute of two ticks lets several minutes pass, since ticks are not
  bounded: the timer ticks for ever and the state space closes because the
  histories are trimmed, the counters contain finitely many events and
  `tickCount` is reduced.  Trimming starts at the third entry.  The failed
  publish can be that of the tick that ends a minute, which leaves `tickCount`
  unreduced.
* One crash, loss and failure each are enough for every *pair* of faults of
  different kinds in every order and at every statement.
* Two channels suffice for `stored` and `published` to change under a handler's
  feet; three posts for the buffer to be used after a post that was refused and
  one that was accepted.
* A limit of 2 and four rows of the read country give several chunks, and a
  cursor with a row inserted behind it, between the rows of a chunk and ahead.
* `Starts` has a place before all rows and one between them, so that a run, and the one after
  a restart, may begin with rows behind it or not.
* The process that is started again finds another charset: connections made before the
  crash store texts as they are, those made after it garbled ones, or are refused.
* With requests of equal rate and a window longer than the top list, stability
  of the sort and the cut both matter.
* Three calls and two frames in a message let the callback of the first frame cancel
  the subscription of the second and make another; a message can be under way
  while its subscription is cancelled.
* A list of three protocols lets a second one fail while an answer for the first is
  under way; one array of two payloads lets the page close the socket between
  them; the list without web socket waits for the event `load`, and the empty
  one fails at once.
* Three frames and two ends give a response of several frames, one cut off in the
  middle and one that follows; two messages fill the buffer while a request runs.
* A second call can fall into the transition of the first and a third into that of
  both; two values are the least that a flow can move.  A third target is needed for a
  flow that names an old and a new one beside one that it does not name, and a list of
  two for a new one to come beside others.
* The inputs of `functions` contain what each function distinguishes: ragged rows
  and columns, missing and disordered x, empty cells, values of both signs, a character of two
  bytes, header lines with blanks at their ends and several colons, NaN, Infinity, null and empty
  texts, snapshots whose volume is a number, NaN or infinite, listeners that add and remove.

Deadlock is checked for the processor, whose timer never stops.  It is not for the
others: clients stop posting, the sender comes to its end, calls of the page,
messages and snapshots are bounded by the instance, all rows may have been
inserted and the loop have ended.

### Fairness

* Processor: weak fairness of the listener thread and of the timer thread, which
  live as long as the process.  Strong fairness of `AddLifetime`, the step that
  takes MUTEX: monitors are not fair, so weak fairness would let the timer win
  every time, but the timer leaves the lock alone for nearly a second after
  each tick and the listener's wait ends then.  The weaker assumption that this
  stands for, a wait long enough, has no place in an untimed model.
  Publishing is assumed to return or throw, though not to succeed more than
  the bound on failures says.
* Receiver: weak fairness of each channel's handler and of
  `channelReadComplete`, which run on event loops; none of the client: it
  may stop at any byte.
* Sender: weak fairness of its threads, and of the return from `c.execute`: that a
  post is answered or its connection closed is `EveryPostAnswered`.  Connections may
  fail any number of times.
* Reader: weak fairness of the loop's steps; none of inserts and restarts.
* Exchanges: weak fairness of the containers' threads and the outbound pool;
  none of the processor's timer or the browsers.
* StompClient: weak fairness of the handlers that the browser runs when they are
  due (`Handle`, `Dispatch`, `CloseFires`), and of the way of what was sent to the broker
  (`BrokerGets`); none of the page's calls, the broker's messages or the timers.
* SockJS: weak fairness of what is due in the page: the request for `/info`, its
  time-out, the transports' time-outs, the dispatch of payloads and of the close
  event; and of `Loads`, as every page is loaded some day.  None of the server
  or the network, which may do nothing at all.
* Transports: weak fairness of handlers and timers that are due, of messages
  between windows, and of a request for sending being answered or breaking (the
  browser gives up in the end).  None of the session or of the iframe's loading.
* Chart: weak fairness of `d3`'s timers, which run while the page is open.

## 4. What is proved

The theorems hold for every value of the constants that the named assumptions
allow; TLC evaluates each assumption in the run of its module.

| module | theorem | statement |
|---|---|---|
| `ProcessorProofs` | `TypeCorrect` | `Spec => []TypeOK` |
| | `AlwaysConsistent` | `Spec => []Consistent` |
| | `SecondsAlwaysTile` | `Spec => []SecondsTile` |
| | `HistoriesAlwaysAccount` | `Spec => []HistoriesAccount` |
| | `TickPhaseKept` | `Spec => []TickPhase` |
| | `ProcessorImplementsService` | `Spec => ImplementsService` |
| | `DeliveriesAlwaysAgree` | `Spec => []DeliveriesAgree` |
| | `RequestsAlwaysAccounted` | `Spec => []RequestsAccounted` |
| `ReceiverProofs` | `PostsAlwaysAgree` | `Spec => [](HasFields /\ PostsAgree)` |
| | `ReceiverImplementsService` | `Spec => ImplementsService` |
| | `TypeCorrect` | `Spec => []TypeOK` |
| | `PostsAlwaysTrue` | `Spec => []PostsTrue` |
| | `PublishedAlwaysStored` | `Spec => []PublishedWasStored` |
| | `AnswersAlwaysTrue` | `Spec => [](AcceptedIsForwarded /\ RefusedLeavesNoTrace)` |
| `MessagingProofs` | `ReaderTypeCorrect` | `ReaderSpec => []ReaderTypeOK` |
| | `RowsAlwaysInOrder` | `ReaderSpec => []RowsInOrder` |
| | `AnswersAlwaysAgree` | `SenderSpec => []AnswersRight` |
| | `SuccessesAlwaysForwarded` | `SenderSpec => []SuccessesWereForwarded` |
| | `SenderTypeCorrect` | `SenderSpec => []SenderTypeOK` |
| | `TypeCorrect` | `Spec => []TypeOK` (`Exchanges`) |
| | `SnapshotsAlwaysAccounted` | `Spec => []SnapshotsAccounted` |
| `SockJSProofs` | `TypeCorrect` | `Spec => []TypeOK` |
| | `OneAlwaysAtATime` | `Spec => []OneAtATime` |
| | `SocketImplementsService` | `Spec => ImplementsSocket` |
| `TransportsProofs` | `TypeCorrect` | `Spec => []TypeOK` |
| | `OrderAlwaysKept` | `Spec => []OrderKept` |
| | `TransportImplementsService` | `Spec => ImplementsTransport` |
| `StompClientProofs` | `TypeCorrect` | `Spec => []TypeOK` |
| | `MessagesAlwaysOwn` | `Spec => []MessagesAreOwn` |
| | `ProtocolAlwaysKept` | `Spec => []ProtocolKept` |
| | `StompTextAlwaysSurvives` | `CalculationsSpec => []StompTextSurvives` |
| `ChartProofs` | `ChartInvariant` | `Spec => []Inv` |
| | `TypeCorrect` | `Spec => []TypeOK` |
| | `LatestAlwaysInOrder` | `Spec => []LatestInOrder` |
| | `PatientAlwaysServed` | `Spec => []PatientPageServed` |
| `CalculationsProofs` | `FiguresAlwaysCount` | `CalculationsSpec => []FiguresCount` |
| | `LatestAlwaysShown` | `CalculationsSpec => []PageShowsLatest` |
| | `ChartAlwaysShowsData` | `CalculationsSpec => []ChartShowsData` |

Every safety property that a passing run checks is proved, but for `SockUtilsServe`.

### Processor

For all sets of requests and other messages, countries and currencies, every
history size, every length of a minute and any number of failed publishes, lost
connections and crashes.  Assumptions: `HistorySizeAssumption` (at least one
entry) and `ConstantsAssumption` (each request has a country and a currency key,
requests and other messages are apart, a minute has at least one tick, the
bounds are natural numbers).

None of `SecondsTile`, `HistoriesAccount` and the refinement is
inductive: they speak of what was published, and that depends on counters which,
in the middle of a block, do not agree.  `Consistent` adds what is true there.
`Pending` is the event that the listener has added to `lifetime` but not yet to the
counter in question, and

* `LockHeld`: a thread is inside its block iff it owns the lock; hence (lemma
  `Exclusion`) while the timer is between two statements, the listener is not,
  and every `Pending` is empty when a snapshot is taken;
* `CountersAgree`: `lifetime` is `1..Len(log)`, and each map's entry is the set of
  events of that country or pair less what is pending;
* `SecondsAgree`: the history and the running second, taken together, account for
  an unbroken run of latest events; entries run from the newest to the oldest.
  It says how the two overlap between `updateSecond` and the reset, which is
  where a failing publish could do harm;
* `MinutesAgree`: the same for the minutes, less the events in `late`.  At each
  statement of the tick it says how the front entry and the running minute are
  related: after the tick that begins a minute (`MinuteBegins`) the front is a copy
  of the finished minute that the next tick replaces, so that exactly the events
  between the last two ticks of the minute are left out (`FrontIsLate`), and at the
  tick that ends it (`MinuteEnds`) the counter is reset.  Entries run from the
  newest to the oldest, or the front shares its events with the running minute
  (`NewestFirstOrShared`);
* `TickPhase`: `tickCount` and the ticks since the start agree modulo a minute.

`Consistent` is preserved together with `TypeOK`: lemmas `LockHeldStep`,
`TickPhaseStep`, and for the counters, the seconds and the minutes one lemma each
for the listener's, the timer's and the other steps (`CountersListen`, ...,
`MinutesOther`) treat one part, action by action.  Arithmetic about `%` comes from
the definition of integer division (`UniqueRemainder`, `NextTick`).
`UpdatedEntries`, `ReplacedEntries` and `SharedUpdated` say what `Updated` returns in
terms of the entries of the history it was given, which has a case for a front
that is replaced and one for a history that is full; `LosesOnlyLate` draws the
conclusion for what is published.  For the refinement, `SnapshotView` says that at
`TickPublish` the snapshot is `ViewOf(log)`; `AddLifetime` maps to `Count`,
`TickPublish` to `Publish`, `Crash` to `Restart`, and every other step to a stutter.

`RequestsAccounted` is about the queue, a sequence in which a request may occur
several times.  Its inductive strengthening `DeliveriesAgree` counts places
(`Places`: what appending to, dropping from and shifting a sequence does to
the finite set of places where a value occurs): the events of a request in
`log`, its places in the queue and the one in the listener's hands that was not
counted yet are together at most one more than the connections lost while it was
unacknowledged.  `Requeued` adds a place with each loss, `Ack` removes one, and a
crash empties `log`.

### Receiver

For any number of channels and posts; `ReceiverAssumption` says that the plan of
each channel is a sequence of posts and that no two places in the plans hold the same
post, for a post is what a client sent once; each start of the process has a charset, any.

The refinement needs to know what the answer to a post is going to be while it is
being handled.  `PostsAgree`, the inductive invariant, says channel by channel
(`ChannelAgrees`) that

* answers are those to the first posts that were begun, one each, and a post in hand has
  none; while the channel is open, every post before it has;
* an answer that was written or flushed is true of store and exchange: 200 means
  both, 400 neither;
* a handler about to publish has stored its post, and the status of one about to
  respond is true already;
* of a post that was not begun, or whose body is not complete, there is no trace.

Since the plans are apart, what one channel does changes nothing in the last three
for another (`ChannelStep`, `PlansApart`).  For the refinement, flushed answers only
grow (`Grown`, `AnswersGrow`) and a post in hand has no answer (`InHandUnanswered`), so that
`Save` maps to `Store`, `Publish` to `Forward`, a flush to `Answer`, a call that throws
after it took effect to what it did, and every other step to a stutter.
`PublishedAlwaysStored` and `AnswersAlwaysTrue` follow from the invariant alone.

`PostsAlwaysTrue` adds the text of the rows, for bodies of any length and every way to
cut them.  What it rests on is a fact about decoding (`DecodedTogether`): the text of two
pieces is the texts of the pieces, one after the other, unless the cut goes through a
character.  A text has as many characters as there are bytes that begin one, in the
order of these bytes; that every one of them has its place follows by counting, for the
numbers of bytes before each are different and there are no more of them than places
(`SortedPlaces`).  So no induction over the bytes is needed.  `TextsAgree` then says what
the buffer holds while a post is read: the text of the bytes so far, with the next
byte at the beginning of a character, or the post is among those that were cut; after a
crash, of a connection that is gone, it says nothing.  `TextGrows` is the step of an
`HttpContent`; a head empties the buffer, which is what keeps one post's text from the next.  `RereadText` adds
what the charset of the process that made a row has left of it.

### Reader

For any set of rows, whose keys are positive numbers and differ, any limit of at least
one row and any number of restarts (`ReaderAssumption`).  The two parts of `RowsInOrder` are
preserved together with `NothingAhead`: the cursor has come as far as every row of the
run, published or in the chunk.  `ListedRows` says what a query returns, again by
`SortedPlaces`: rows in the order of their keys, and with each of them every row asked for
that is before it, which is what a limit must not break.  Hence what is read next is
behind what was read (`InOrder`), and whatever the new cursor passes is in the chunk
(`NonePassedOver`), be it that the first query began there.  A row that is inserted meanwhile is after the cursor or in `behind`.

### Sender

For any finite set of threads and any number of messages (`SenderAssumption`).
`SuccessesWereForwarded` compares a counter with a number of messages, and does not say
which of them were counted.  `AnswersRight` does: a thread's counter is the number of its messages
that were answered 200, such an answer is true, and a message that a thread waits for or
has not come to is not answered.  A message that is stored after its sender gave it up
adds to neither side.

### Exchanges

For any number of web applications, browsers, snapshots and lost connections
(`ExchangesAssumption`: each browser has an application, the bounds are natural
numbers).  As with the processor's queue, the invariant counts places: the dispatches of
a snapshot, its places in the queue and the applications that have it in hand and did not
dispatch it are together at most one more than the connections lost.  `HandsAgree`, that
what a listener has returned from was dispatched, is what lets `Ack` forget a snapshot.

### SockJS

For any lists of protocols, any number of messages and any frames that the sessions
may send (`BoundsAssumption`).  `IInv` has two parts.

* `Tried`: a transport is live iff the object holds it (`OneTransport`); while it
  connects, the one pending time-out is its own; while `/info` is being asked for, nothing
  was tried yet; the listener for `load` waits only if no transport is in use and one is
  left to try; the transports made and the protocols left are together those of the
  list that was detected (`ListAgrees`), so that code 2000, which is given when none
  is left, is given when each was tried.
* `Ordered`: while the socket connects, a session says *o* before it sends
  messages; while it is open, the rest of the array in hand and the frames on the
  wire go on where the page is, without gap or repetition (`Numbered`).

Everything ends in `_didClose` or `_try_next_protocol`.  `Closes` says once what they
leave (`Moved`), whatever the object had been told when they were called (`Told`), and each
handler's lemma shows that its call meets that.  A step that closes the object maps to
the service's `Close`, *o* to `Open`, the dispatch of a payload to `Deliver`.

### Transports

For any numbers of frames, messages and responses (`BoundsAssumption`), and every kind of
transport the model has.  That frames are given in order is not inductive, for between
the session and the socket there are a response that is read in part, an array in the
handler's hands and, with an iframe, a queue of messages between windows.  `Inv` follows
both directions along their whole way.

* `Framing`: what is under way goes on where the page is: first the frames between
  the windows, then those in hand, then the unread text of the response
  (`UnderWay`, `InHand`, `NotRead`).  Either they reach up to what the session writes next, or
  the session was lost, or they hold a close frame, behind which nothing counts
  (`InStep`).  Hence a request that is dropped with text in it can be followed by another one
  only when the session was lost, which is what `Dropping` says phase by phase.
* `Sending`: the messages between the windows, in the buffer and in the payload of the
  one request under way are consecutive, in this order (`Numbered`, `Handed`); what has arrived
  is below the buffer, and, if the request has not come there yet, below its payload.
* `Arriving`: where a failure can be told and comes in time, what has arrived is
  `1..k`, and `k` is where the request under way begins or ends, or the buffer begins; after a
  failure nothing is sent any more (`Reached`).
* `Places` and `Greeting`: what a handler finds where it runs.  The facade is made after
  the iframe's greeting, and until then nothing has happened; a transport in the page
  that was cleaned up has no request that is still listened to.

The lemmas about `InStep` and `Numbered` (appended to, cut at the head, joined) are
stated once; each action is then treated once for frames, once for messages and once
for arrivals.  `Give`, `Take`, `CleanUp` and `Arrive` of the service are the steps of `PageGets` or
`Dispatch`, `PageSends`, a clean-up and `PostArrives`; all others are stutters.

### StompClient

For any destinations and ids of the page's own, any number of calls, messages and frames
in one message, and any answer of the server about heart-beats (`HeartBeatAssumption`,
`StompBoundsAssumption`).  `IInv` has, besides the types, two parts.

* `Addresses`: an id stands for one subscription, whoever names it.  Registered ids
  differ, since those that the client numbers are below its counter, which also
  numbers transactions; and whatever names an id together with a
  destination, on the way to the broker, in its table, on the way back or in
  the handler's hands, names a pair that was registered (`Known`).  So the
  callback found for a message is of its destination (`CalledOwn`) although the
  subscription may have been cancelled and others made since the message left.
  That `ack` names a message of the same handler needs that the last of finitely many
  calls exists (`LastOfBatch`).
* `Connection`: nothing is sent while the socket connects, and CONNECT as it opens;
  the broker's answer is the first frame of the first message, so the handler comes
  to it before it has called anything back, and with the socket still open
  (`AtOnce`); hence timers start only on a connection that is up, and each can
  be cleared as long as it runs (`Cleared`).

`OutGrows` and `InGrows` say what handing over a frame changes, whether it is taken or
not, alone or in a message that waits; the lemmas `CallKeeps` and `BrokerSends` then
treat all calls of the page and all frames of the broker at once.

### Chart

For any set of targets, any lists of different ones that calls may name, any length of at
least two values and any number of calls of each kind (`ChartAssumption`).  There are two
invariants: one of every page, and one more of a page that waits.

`Inv`, for every page:

* `DataInv` (with `Right`, `Latest`): ids of targets differ; the indices of a target's
  values run on; the values are the last of those given, place by place.  `LatestInOrder` is
  this in terms of `IsSuffix`.  `LoadKeepsRight`, `WithoutKeepsRight`, `BeheadedKeepsRight` and the
  lemmas about `Flowed` treat the four ways in which data change.
* `ElementsInv`, `UnloadsInv`, `FlowsInv`: types; what is to be loaded after an unload can be.
* `WaitsInv`: no more elements fade out for an unload than it still waits for
  (`Callers`), and an unload that is done waits for none.  Hence an element whose transition
  ends finds a running unload, and the number of its waits does not fall below zero.

`Patient`, as long as the page has waited for each unload and flow:

* `Matched`: number *k* among the elements that are not fading out for an unload is that of
  target *k*.  Elements and data agree by position alone, and during an unload the elements
  are more than the targets, so that `ShownAsData` alone says nothing then and is not
  inductive.  When the last of them is gone no call has elements left (`WaitsInv`), and
  positions agree again.
* `Seen`: an element at rest is as visible as its target is to be, and a transition
  of no unload ends there.
* `OneAtATime`: the unload or flow under way is the last one, and only one.
* `FlowFits`: the flow that is being drawn will find the indices from and to which
  it moves, so that it does not end in a `TypeError` and leave `flowing` set.
* `EvenLength`: after even flows all targets are of one length, one value longer while a
  flow is being drawn; `FlowKeepsLength` is the case when none is.

What is filtered out of a sequence is `Chosen` at a set of places; its lemmas
(`ChosenPlaces` and those after it) rest on `SortedPlaces` and on counting, as with the
reader's query, and `Rank` says which place among the chosen an old place has.

`FlowKeepsLength` was first stated for every flow of a page that waits, and held on an instance
of two targets.  The proof did not go through: the tail comes from the last target that is not
named and the head from the first one.  With three targets TLC finds the run in which
they differ, hence `even`, and the instance of three in `chart`.

### Calculations

Here a proof is about what loops, sorts and folds compute, for inputs of any size.  The
library's induction theorems take a predicate as a parameter, which the installed
provers cannot instantiate.  Three things replace them.

* *Induction over sets.*  Every set with 0 and the successor of each of its numbers has all natural
  numbers (`Induction`), and every set with the empty set and with each extension of its members
  by an element has all parts of a finite set (`SetInduction`).  A set can be a parameter where
  a predicate cannot; the first is shown by the least number that is missing, which exists as
  `<` is well-founded (`WFMin`).
* *Folds.*  A fold of the community modules is defined by CHOOSE: *some* function on the parts of the
  set that satisfies the recursive equation.  `FoldExists` and `SumsExist` build one, step by step,
  so the one chosen satisfies it too, and `SumAppend`, `SumWith`, `SumAnyOrder` and
  `IndicesUnfold` are what the others need: a sum with one more, a sum that does not depend on
  the order, the columns of bars target by target.
* *Sorting without recursion.*  `Sorting` gives the place of a value as the number of values
  before it, and `InStableOrder`, `OrderedValues`, `ChosenInOrder` say that this is the stable sort: by
  counting, as for the reader's query.

`FiguresAlwaysCount` needs no more than `FiguresOfWindow` itself, for the totals; for the
list, `TopKept` shows that sorting the cut list with a new request gives what sorting
the whole window and then cutting it gives: a request that was cut has ten before it,
and they remain before it.

`LatestAlwaysShown` rests on `DashboardIInv`: a chart is of the kind it was made as, whatever ids,
x and categories it has come to know, and shows the values of the snapshot that last had any, under its
keys (`LineShows`, `BarShows`).  What a load makes of x depends on what earlier loads left there, for
nothing is ever forgotten: `KnowsLearned`, `LearnedInTurn` and `ChartLoaded` say which x a target ends
up with, whatever was known before, and `ChartKept` that a load of no rows changes nothing that is
shown.

`ChartAlwaysShowsData` has five parts.  `TablesAgree`: columns, rows and objects of a table become the same rows
before anything else happens to them (`SameData`); a file, whose cells are not the table's, becomes the same
targets as the table with zeros for nulls (`AlikeTables`, `FileAgrees`).  `ValuesStandAtX`: a target's values, sorted by
x, are those of its column (`TableTarget`, `OrderOfX`), and the x that are sorted apart from them agree as far
as no column is short (`KnownSorted`).  `BarsApart`: the columns of bars are the groups
(`ColumnsAreGroups`); a bar begins where the sum of those of its sign that are earlier in its column ends
(`BaseAndBar`), so of two the later begins beyond the earlier (`BaseLater`); and the end of the
axis, which `YDomain` finds by adding targets to one of them in turn, is the sum of the whole column
(`DepthStacked`), which no part exceeds (`SumUpper`).  `AxisIsUpright` and `DomainHolds` are arithmetic
over the extremes of finite sets.  The proof of the last one found the case that the first statement
of it missed: a chart whose only x is -1 with bars has a horizontal axis without width, since the padding
of half a bar is as much as the shift by which c3.js makes up for it.

`StompTextAlwaysSurvives`: the pieces of `_transmit` are stretches of the text that meet
(`PiecesTogether`).  Frames are harder, since a header's number of bytes is used as a number of
characters.  It is at least as great, so the reader asks for as much as the body or more
(`BytesOfText`), and stops at the first NUL, which is the frame's own as no body has one (`FrameRead`).  The divider is
the first of two line feeds although the body may hold others (`DividerOfFrame`); of the headers that
are read from the last to the first, the first of a name remains (`HeadersAreRead`).  Where the first
colon of a line is, and what `Trim` leaves, is said by `ColonFound` and `Trimmed`; of a plain name
the colon is the one that `toString` has put after it (`PlainIsRead`).  Between frames, the
stream is cut where a NUL is followed by line feeds only (`NullsOfStream`, `PiecesOfStream`).

### Only model-checked

* All liveness properties, since fairness and ENABLED are out of the prover's reach:
  `EveryRequestShown`, `EveryPostAnswered`, `Finishes`, `EveryRowPublished`, `EverySnapshotReceived`,
  `EveryMessageHandled`, `Settles`, `NothingStuck`, `CallsEnd`.
* `SockUtilsServe`: listeners may change the list that is being walked, so that the walk is
  recursive (`Called`), and so is the reading of a quoted text (`Unescaped`); the prover has no
  arithmetic in a module that declares such an operator.

## 5. Findings

1. **The per-minute chart loses a second per minute** (`processor_minutes`).  The
   tick that begins a minute is to put the finished minute away, but
   `CompleteStatisticsWrapper.updateMinute` inserts the figures of the finished
   minute as a *new* front entry on that tick and the next tick, finding a fresh
   counter, *replaces* that entry with those of the new minute.  What stays for the
   finished minute is the entry of one tick earlier.
   `MinutesLoseOnlyLastSecond` shows that this is all that gets lost.
2. **Requests are not routed** (`exchanges_routing`).  The queue is bound with its
   name as the key, the senders use `highrate.transferRequest`.

### Seen while modelling

These are facts of the code that contradict no statement in the repository; the
models have them as the code has.

* Services: web applications take turns at one queue, so that a browser gets only
  its application's share of the snapshots (the last disjunct of
  `EverySnapshotReceived`); snapshots may reach a browser out of order; a request
  with a null `timeReceived` is answered 500 although it is the client's fault;
  after a call that threw, a 500 does not say whether the request was stored; a
  character of several bytes that is cut between two chunks is stored as
  replacement characters; a text with others than ASCII characters is garbled or refused where the
  platform's default charset is not UTF-8; the reader binds the country `FR` and misses rows that
  are inserted behind its cursor, and those whose time received, which the client gives, was more than
  1000 days ago when the reader started; an amount of NaN or Infinity passes `validate`, and every
  sum it is added to is no finite number from then on.
* `stomp.js`: `now` returns the function `Date.now` uncalled, so a dead server is never
  noticed; the functions `ack` and `nack` of the frames of one message share
  variables and name the last of them; a body with a NUL in it is cut there; `content-length` counts bytes where `substring`
  counts characters, which cuts nothing as the NUL ends the body as well; a header whose name has a
  colon, or whose value begins or ends with blanks, is read as another one than was sent.
* `sock.js`: the listener for `load` may make a transport for a socket that is closed by
  then; an `/info` that is no JSON leaves the socket connecting for ever; the clean-up
  of an iframe looks for `iframeObj.iframe.contentWindow`, which is not there,
  so that the script inside is never told and its `abort` methods are never
  reached; `send_destructor` tests a name that is never set; a request that was
  aborted before it started is sent all the same; nothing tells of an htmlfile
  that breaks once it has started; a message in an iframe may overtake the news
  that the one before it failed, which leaves a gap; a listener that removes itself
  makes the next one be passed over; one that nukes its emitter makes `emit` throw.
* `c3.js` (0.4.9; `index.html` loads 0.4.7 from a CDN): a call during the transition of
  an `unload` supersedes it, so that `done` is never called, data to be loaded after it
  are lost and an element of another target may be removed; a second flow during
  a first ends in a `TypeError` and leaves `flowing` set; a flow of one value never
  calls `done`; a flow that names a new target beside an old one leaves the targets of
  different lengths if they do not begin at one index; a `load` during a flow loses its first values; rows without
  an x shift the x of those that follow; of ragged columns the x and the values
  have different indices, against the belief in the comment at `c3.js:2052`; an axis has no
  height when all values are zero; a minimum above the maximum turns it over;
  bars of which the only x is -1 have a horizontal axis without width.
* Dashboard: `columns: [valueUnit]` makes a target `r` of nulls that stays in the line
  charts; an empty snapshot leaves the figures of the one before; once a sum of the processor is
  NaN or infinite, each snapshot makes the handler throw after it has shown the count, and no chart is
  updated any more; an empty cell of a file is a zero, while a null is missing.

## 6. What is not modelled

* The contents of the sender's messages, which are random; its `int i` against a
  `Long` bound, which matters beyond 2^31 messages only.
* The asynchronous way of saving (`asyncPersistence`), which no configuration
  turns on.
* Deserialisation; that it fails is a post's kind, or is left open where the charset may be
  the cause.
* Rounding: amounts are stored as `float` and summed as `double`.
* How long a publish blocks; timer drift; the sleep of the reader; the length of the
  scripts' time-outs, which may strike in any order here.
* `stomp.js`: `Stomp.client` and `overTCP`, which make sockets the page does not use.
* `sock.js`: the wire of the web-socket transport, which is the browser's; the probing
  of browsers; the making of DOM elements.
* `c3.js`: drawing, legends, tooltips, zooming by mouse, pies, gauges, grids, regions, time
  series; they are layout, or the page does not use them.
* RabbitMQ, Cassandra, Netty, Spring, d3 and the browser themselves, beyond the way
  this code uses them (marked external where an action stands for them).

## 7. Plan

Done: the processor and its service, statistics, receiver, reader, exchanges, sender,
validation; the page's scripts from the socket's transports to the charts; proofs of all their
safety properties but those of `SockUtils`.  Left:

1. `AsyncRepository`: the bounded queue of futures that event loops add to and
   drain; whose failure is reported to whom; abstract specification: a row saved
   by a call that returned is stored in the end.
2. `Pipeline`: receiver, exchange, processor and web composed; a request answered
   200 is shown in the end, once the routing keys agree; receiver and reader
   together count a request twice.
3. `SockUtils` with its two recursive operators as recursive functions, and a proof that
   every listener is called that was there before and after.
