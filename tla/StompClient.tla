---------------------------- MODULE StompClient -----------------------------
(***************************************************************************)
(* Class Client of stomp.js over a socket that keeps the promises of       *)
(* SocketService, and the broker at the other end (external).  The page    *)
(* has called connect.  JavaScript is single threaded: an event handler    *)
(* runs to its end, but the callbacks it calls may call the client again,  *)
(* also while frames of the same message are still waiting.  A frame is    *)
(* one message of the socket here; how its text is cut is in StompFrames.  *)
(***************************************************************************)
EXTENDS Integers, Sequences, FiniteSets

CONSTANTS Destinations,
          UserIds,        \* ids that the page makes up itself, and
          DestinationOf,  \* the destination it subscribes each to
          HeartBeats,     \* what the server may say in the heart-beat header of CONNECTED:
                          \* whether it can send beats and whether it wants them
          MaxCalls,       \* bound on calls of the page
          MaxMessages,    \* bound on MESSAGE frames
          MaxBatch        \* frames in one message of the broker

ASSUME HeartBeatAssumption == HeartBeats \subseteq [sends : BOOLEAN, wants : BOOLEAN]
ASSUME StompBoundsAssumption == MaxCalls \in Nat /\ MaxMessages \in Nat /\ MaxBatch \in Nat \ {0}

VARIABLES
    state, closing,   \* of the socket, as in SocketService
    onclose,          \* whether the socket's close handler is set
    out, arrived,     \* frames handed to the open socket; how many have arrived
    in, delivered,    \* messages of the broker, sequences of frames; how many came
    frames, incall,   \* rest of the message being handled; a callback is running
    connected, counter, subscriptions,
    pinger, ponger, intervals,   \* the two timers; handles of those that run
    serverActivity,
    broker,           \* its session and the subscriptions it knows
    beat,             \* a heart-beat of the client is on its way
    registry,         \* history: the subscriptions made, callback k being the k-th
    received,         \* history: the calls of callbacks, in order
    calls

socketOnly == <<state, closing, onclose>>
wire == <<out, arrived, in, delivered>>
handling == <<frames, incall>>
timers == <<pinger, ponger, intervals, serverActivity, beat>>
client == <<connected, counter, subscriptions>>
history == <<registry, received, calls>>
vars == <<socketOnly, wire, handling, timers, client, broker, history>>

None == <<>>
AutoId(kind, n) == [kind |-> kind, number |-> n]
UserId(u) == [kind |-> "user", number |-> u]

\* object[key] = value
With(object, key, value) ==
    [k \in DOMAIN object \cup {key} |-> IF k = key THEN value ELSE object[k]]

-----------------------------------------------------------------------------
(* Values of JavaScript that are or are not numbers.                       *)

JsNumber(n) == [type |-> "number", value |-> n]
FunctionValue == [type |-> "function"]
NotANumber == [type |-> "NaN"]

Minus(a, b) == IF a.type = "number" /\ b.type = "number" THEN JsNumber(a.value - b.value) ELSE NotANumber
Greater(a, n) == a.type = "number" /\ a.value > n

\* `now` returns Date.now itself instead of calling it.
Now == FunctionValue

-----------------------------------------------------------------------------
(* The messages of the broker.                                             *)

Connected(heartbeat) == [command |-> "CONNECTED", heartbeat |-> heartbeat]
Message(id, d, n) == [command |-> "MESSAGE", subscription |-> id, destination |-> d, number |-> n]
ErrorFrame == [command |-> "ERROR"]
Pong == [command |-> "LF"]

TypeOK ==
    /\ state \in {"connecting", "open", "closed"} /\ closing \in {"none", "due", "fired"}
    /\ onclose \in BOOLEAN /\ incall \in BOOLEAN /\ connected \in BOOLEAN /\ beat \in BOOLEAN
    /\ arrived \in 0 .. Len(out) /\ delivered \in 0 .. Len(in)
    /\ counter \in 0 .. MaxCalls /\ calls \in 0 .. MaxCalls
    /\ DOMAIN subscriptions \subseteq {registry[k].id : k \in DOMAIN registry}
    /\ \A id \in DOMAIN subscriptions : subscriptions[id] \in DOMAIN registry
    /\ intervals \subseteq {"pinger", "ponger"}
    /\ broker.session \in {"none", "connected", "gone"}

Init ==
    /\ state = "connecting" /\ closing = "none" /\ onclose = TRUE
    /\ out = <<>> /\ arrived = 0 /\ in = <<>> /\ delivered = 0
    /\ frames = <<>> /\ incall = FALSE
    /\ connected = FALSE /\ counter = 0 /\ subscriptions = <<>>
    /\ pinger = None /\ ponger = None /\ intervals = {}
    /\ serverActivity = None /\ beat = FALSE
    /\ broker = [session |-> "none", subs |-> <<>>]
    /\ registry = <<>> /\ received = <<>> /\ calls = 0

-----------------------------------------------------------------------------
(* The socket's open event and its end.                                    *)

\* Mutant: what is sent while the socket connects waits in it.
TransmitEarly(frame) == out' = IF state # "closed" THEN Append(out, frame) ELSE out

\* A closed socket takes nothing; one that is not open yet throws, so that what
\* a call does after its _transmit is not done.
Transmit(frame) == out' = IF state = "open" THEN Append(out, frame) ELSE out

SocketOpens ==
    /\ state = "connecting"
    /\ state' = "open"
    /\ out' = Append(out, [command |-> "CONNECT"])
    /\ UNCHANGED <<closing, onclose, arrived, in, delivered, handling, timers, client, broker, history>>

\* Mutant: the check for a dead server goes on.
CleanUpPinger == connected' = FALSE /\ intervals' = intervals \ {pinger}
CleanUp == connected' = FALSE /\ intervals' = intervals \ {pinger, ponger}

SocketLost ==
    /\ state # "closed" /\ frames = <<>>
    /\ state' = "closed" /\ closing' = "due"
    /\ UNCHANGED <<onclose, wire, handling, timers, client, broker, history>>

\* The error callback is called, which may call the client.
CloseFires ==
    /\ closing = "due" /\ frames = <<>>
    /\ closing' = "fired"
    /\ IF onclose THEN CleanUp ELSE UNCHANGED <<connected, intervals>>
    /\ UNCHANGED <<state, onclose, wire, handling, pinger, ponger, serverActivity, beat,
                   counter, subscriptions, broker, history>>

-----------------------------------------------------------------------------
(* Calls of the page.                                                      *)

AppTurn == /\ frames = <<>> \/ incall
           /\ calls < MaxCalls /\ calls' = calls + 1

Quiet == UNCHANGED <<arrived, in, delivered, handling, timers, broker>>

\* Mutant: the id is registered with the callback of the call before.
SubscribeWithLate(id, d) ==
    /\ registry' = Append(registry, [id |-> id, destination |-> d])
    /\ subscriptions' = With(subscriptions, id, Len(registry))
    /\ Transmit([command |-> "SUBSCRIBE", id |-> id, destination |-> d])
    /\ UNCHANGED <<connected, received, socketOnly>>

\* The id is registered before the frame is sent, and stays when that throws.
SubscribeWith(id, d) ==
    /\ registry' = Append(registry, [id |-> id, destination |-> d])
    /\ subscriptions' = With(subscriptions, id, Len(registry) + 1)
    /\ Transmit([command |-> "SUBSCRIBE", id |-> id, destination |-> d])
    /\ UNCHANGED <<connected, received, socketOnly>>

\* Mutant: ids are numbered by the subscriptions there are.
NextIdByCount == AutoId("sub", Cardinality(DOMAIN subscriptions))
NextId == AutoId("sub", counter)

Subscribe(d) ==
    /\ AppTurn /\ Quiet
    /\ counter' = counter + 1
    /\ SubscribeWith(NextId, d)

\* The page does not use an id of its own twice.
SubscribeAs(u) ==
    /\ AppTurn /\ Quiet
    /\ \A k \in DOMAIN registry : registry[k].id # UserId(u)
    /\ UNCHANGED counter
    /\ SubscribeWith(UserId(u), DestinationOf[u])

Unsubscribe(k) ==
    /\ AppTurn /\ Quiet
    /\ registry[k].id \in DOMAIN subscriptions
    /\ subscriptions' = [id \in DOMAIN subscriptions \ {registry[k].id} |-> subscriptions[id]]
    /\ Transmit([command |-> "UNSUBSCRIBE", id |-> registry[k].id])
    /\ UNCHANGED <<connected, counter, registry, received, socketOnly>>

\* begin takes its numbers from the counter of the subscriptions.
Begin ==
    /\ AppTurn /\ Quiet
    /\ counter' = counter + 1
    /\ Transmit([command |-> "BEGIN", transaction |-> AutoId("tx", counter)])
    /\ UNCHANGED <<connected, subscriptions, registry, received, socketOnly>>

\* commit and abort of a transaction that was begun
End(command) ==
    /\ AppTurn /\ Quiet
    /\ \E i \in DOMAIN out :
        /\ out[i].command = "BEGIN"
        /\ Transmit([command |-> command, transaction |-> out[i].transaction])
    /\ UNCHANGED <<client, registry, received, socketOnly>>

SendTo ==
    /\ AppTurn /\ Quiet
    /\ Transmit([command |-> "SEND"])
    /\ UNCHANGED <<client, registry, received, socketOnly>>

\* Mutant: the variables are shared by all frames.
MessageIdOfLast(k) == received[Len(received)].number

\* The functions ack and nack of a frame share the variables of the handler that
\* made them with those of the other frames of the same message.
MessageIdOf(k) ==
    LET same == {j \in DOMAIN received : received[j].handler = received[k].handler}
    IN  received[CHOOSE j \in same : \A i \in same : i <= j].number

Acknowledge(command, k) ==
    /\ AppTurn /\ Quiet
    /\ Transmit([command |-> command, message |-> MessageIdOf(k), of |-> k])
    /\ UNCHANGED <<client, registry, received, socketOnly>>

\* Does not wait for anything.  While the socket connects, _transmit throws and
\* nothing else happens.
Disconnect ==
    /\ AppTurn
    /\ state # "connecting"
    /\ Transmit([command |-> "DISCONNECT"])
    /\ onclose' = FALSE
    /\ state' = "closed"
    /\ closing' = IF state = "open" THEN "due" ELSE closing
    /\ CleanUp
    /\ UNCHANGED <<arrived, in, delivered, handling, pinger, ponger, serverActivity, beat,
                   counter, subscriptions, broker, registry, received>>
-----------------------------------------------------------------------------
(* The message handler.                                                    *)

\* Mutant: only the first frame of a message is looked at.
FramesFirst(message) == IF message = <<Pong>> THEN <<>> ELSE <<Head(message)>>
FramesOf(message) == IF message = <<Pong>> THEN <<>> ELSE message

Handle ==
    /\ state = "open" /\ frames = <<>> /\ delivered < Len(in)
    /\ delivered' = delivered + 1
    /\ serverActivity' = Now
    /\ frames' = FramesOf(in[delivered'])
    /\ incall' = FALSE
    /\ UNCHANGED <<socketOnly, out, arrived, in, pinger, ponger, intervals, beat, client, broker, history>>

\* Both intervals of the client are 10 s; only the server may do without.
StartTimers(ping, check) ==
    /\ pinger' = IF ping THEN "pinger" ELSE pinger
    /\ ponger' = IF check THEN "ponger" ELSE ponger
    /\ intervals' = intervals \cup (IF ping THEN {"pinger"} ELSE {})
                              \cup (IF check THEN {"ponger"} ELSE {})

\* Mutant: each side's wish is taken for the other's.
SetupHeartbeatSwapped(heartbeat) == StartTimers(heartbeat.sends, heartbeat.wants)
SetupHeartbeat(heartbeat) == StartTimers(heartbeat.wants, heartbeat.sends)

DispatchConnected ==
    /\ frames # <<>> /\ Head(frames).command = "CONNECTED"
    /\ frames' = Tail(frames) /\ incall' = TRUE
    /\ connected' = TRUE
    /\ SetupHeartbeat(Head(frames).heartbeat)
    /\ UNCHANGED <<socketOnly, wire, serverActivity, beat, counter, subscriptions, broker, history>>

\* A message for a subscription that is not there any more is dropped.
DispatchMessage ==
    /\ frames # <<>> /\ Head(frames).command = "MESSAGE"
    /\ frames' = Tail(frames)
    /\ LET frame == Head(frames)
       IN  /\ incall' = (frame.subscription \in DOMAIN subscriptions)
           /\ received' = IF incall'
                          THEN Append(received, [callback |-> subscriptions[frame.subscription],
                                                 destination |-> frame.destination,
                                                 number |-> frame.number, handler |-> delivered])
                          ELSE received
    /\ UNCHANGED <<socketOnly, wire, timers, client, broker, registry, calls>>

DispatchError ==
    /\ frames # <<>> /\ Head(frames).command = "ERROR"
    /\ frames' = Tail(frames) /\ incall' = TRUE
    /\ UNCHANGED <<socketOnly, wire, timers, client, broker, history>>

-----------------------------------------------------------------------------
(* The timers of the heart-beats.                                          *)

Ping ==
    /\ "pinger" \in intervals /\ frames = <<>>
    /\ beat' = (state = "open")
    /\ UNCHANGED <<socketOnly, wire, handling, pinger, ponger, intervals, serverActivity,
                   client, broker, history>>

\* The difference is not a number and so never greater than two periods.
CheckPong ==
    /\ "ponger" \in intervals /\ frames = <<>>
    /\ IF Greater(Minus(Now, serverActivity), 2) /\ state = "open"
       THEN state' = "closed" /\ closing' = "due"
       ELSE UNCHANGED <<state, closing>>
    /\ UNCHANGED <<onclose, wire, handling, timers, client, broker, history>>

-----------------------------------------------------------------------------
(* The broker (external).                                                  *)

\* It may put a frame into a message of its own or into the last one, if that
\* has not left yet.
Emit(frame) ==
    \/ in' = Append(in, <<frame>>)
    \/ /\ Len(in) > delivered /\ Len(in[Len(in)]) < MaxBatch
       /\ in[Len(in)] # <<Pong>>
       /\ in' = [in EXCEPT ![Len(in)] = Append(@, frame)]

Messages == UNION {{in[i][j] : j \in DOMAIN in[i]} : i \in DOMAIN in}
Published == Cardinality({m \in Messages : m.command = "MESSAGE"})

BrokerGets ==
    /\ arrived < Len(out) /\ broker.session # "gone"
    /\ arrived' = arrived + 1
    /\ LET frame == out[arrived']
       IN  CASE frame.command = "CONNECT" ->
                    /\ broker' = [broker EXCEPT !.session = "connected"]
                    /\ \E heartbeat \in HeartBeats : in' = Append(in, <<Connected(heartbeat)>>)
             [] frame.command = "SUBSCRIBE" ->
                    /\ broker' = [broker EXCEPT !.subs = With(@, frame.id, frame.destination)]
                    /\ UNCHANGED in
             [] frame.command = "UNSUBSCRIBE" ->
                    /\ broker' = [broker EXCEPT !.subs = [id \in DOMAIN @ \ {frame.id} |-> @[id]]]
                    /\ UNCHANGED in
             [] frame.command = "DISCONNECT" ->
                    /\ broker' = [broker EXCEPT !.session = "gone"]
                    /\ UNCHANGED in
             [] OTHER -> UNCHANGED <<broker, in>>
    /\ UNCHANGED <<socketOnly, out, delivered, handling, timers, client, history>>

BrokerPublishes ==
    /\ broker.session = "connected" /\ Published < MaxMessages
    /\ \E id \in DOMAIN broker.subs : Emit(Message(id, broker.subs[id], Published + 1))
    /\ UNCHANGED <<socketOnly, out, arrived, delivered, handling, timers, client, broker, history>>

BrokerBeats ==
    /\ broker.session = "connected" /\ in[1][1].heartbeat.sends
    /\ Len(in) = delivered
    /\ Cardinality({i \in DOMAIN in : in[i] = <<Pong>>}) < 1
    /\ in' = Append(in, <<Pong>>)
    /\ UNCHANGED <<socketOnly, out, arrived, delivered, handling, timers, client, broker, history>>

BrokerGetsBeat ==
    /\ beat /\ beat' = FALSE
    /\ UNCHANGED <<socketOnly, wire, handling, pinger, ponger, intervals, serverActivity,
                   client, broker, history>>

BrokerRefuses ==
    /\ broker.session = "connected" /\ ErrorFrame \notin Messages
    /\ Emit(ErrorFrame)
    /\ broker' = [broker EXCEPT !.session = "gone"]
    /\ UNCHANGED <<socketOnly, out, arrived, delivered, handling, timers, client, history>>

-----------------------------------------------------------------------------
Calls ==
    \/ \E d \in Destinations : Subscribe(d)
    \/ \E u \in UserIds : SubscribeAs(u)
    \/ \E k \in DOMAIN registry : Unsubscribe(k)
    \/ SendTo \/ Begin \/ End("COMMIT") \/ End("ABORT")
    \/ \E k \in DOMAIN received : Acknowledge("ACK", k) \/ Acknowledge("NACK", k)
    \/ Disconnect

Dispatch == DispatchConnected \/ DispatchMessage \/ DispatchError
Broker == BrokerPublishes \/ BrokerBeats \/ BrokerGetsBeat \/ BrokerRefuses

Next ==
    \/ SocketOpens \/ SocketLost \/ CloseFires
    \/ Calls \/ Handle \/ Dispatch \/ Ping \/ CheckPong
    \/ BrokerGets \/ Broker

Spec == Init /\ [][Next]_vars

\* The browser runs handlers that are due; the network brings what was sent.
FairSpec == /\ Spec
            /\ WF_vars(Handle) /\ WF_vars(Dispatch) /\ WF_vars(CloseFires)
            /\ WF_vars(BrokerGets)

-----------------------------------------------------------------------------
(* Properties.                                                             *)

\* A callback gets messages of the destination it was subscribed to and of no
\* other, although a message that was under way when its subscription was
\* cancelled may come when others have been made: ids are not used again.
OwnMessages == \A i \in DOMAIN received :
    received[i].destination = registry[received[i].callback].destination

\* Whatever the page calls before the socket is open, the first frame the broker
\* sees is CONNECT, and it sees it once.
ConnectFirst == \A i \in DOMAIN out : (out[i].command = "CONNECT") <=> (i = 1)

\* When the page has disconnected, or been told that the connection is lost, no
\* timer of the client is left running.
NoTimersLeft == closing = "fired" \/ ~ onclose => intervals = {}

\* ack and nack name the message of the frame they belong to, or a later one
\* that came in the same message of the socket, and never one of another.
AcknowledgesOwnBatch == \A i \in DOMAIN out :
    out[i].command \in {"ACK", "NACK"} =>
        \E j \in DOMAIN received : /\ received[j].number = out[i].message
                                   /\ received[j].handler = received[out[i].of].handler

\* A heart-beat is on its way only to a broker that wants them, and after its
\* CONNECTED.
BeatsAsAgreed == beat => delivered > 0 /\ in[1][1].heartbeat.wants

\* Messages and their acknowledgements find each other, whatever is cancelled and
\* made anew meanwhile.
MessagesAreOwn == OwnMessages /\ AcknowledgesOwnBatch

\* The connection is begun, kept up and left as the protocol has it.
ProtocolKept == ConnectFirst /\ BeatsAsAgreed /\ NoTimersLeft

\* Every message the broker sends reaches its callback, finds its subscription
\* cancelled, or the connection ends.
EveryMessageHandled == \A n \in 1 .. MaxMessages :
    (Published >= n) ~> \/ \E i \in DOMAIN received : received[i].number = n
                        \/ state = "closed"
                        \/ \E i \in DOMAIN out : out[i].command = "UNSUBSCRIBE"
=============================================================================
