------------------------- MODULE StompClientProofs --------------------------
(***************************************************************************)
(* A callback of the page gets messages of its own destination only, the   *)
(* connection is begun, kept up and left as the protocol has it, and text  *)
(* survives: theorems about module StompClient, for any destinations, any  *)
(* number of calls, messages and frames in a message of the socket, and    *)
(* about the text of frames in module Calculations, for any text.          *)
(***************************************************************************)
EXTENDS StompClient, CalculationsProofs

-----------------------------------------------------------------------------
(***************************************************************************)
(* The inductive invariant.                                                *)
(***************************************************************************)
FrameIds == [kind : {"sub", "tx"}, number : Nat] \cup [kind : {"user"}, number : UserIds]
AllDestinations == Destinations \cup {DestinationOf[u] : u \in UserIds}

\* What the client sends, and what the broker does.
Sent == [command : {"CONNECT", "DISCONNECT", "SEND"}]
          \cup [command : {"SUBSCRIBE"}, id : FrameIds, destination : AllDestinations]
          \cup [command : {"UNSUBSCRIBE"}, id : FrameIds]
          \cup [command : {"BEGIN", "COMMIT", "ABORT"}, transaction : FrameIds]
          \cup [command : {"ACK", "NACK"}, message : Nat, of : Nat]
Frames == [command : {"CONNECTED"}, heartbeat : HeartBeats]
            \cup [command : {"MESSAGE"}, subscription : FrameIds, destination : AllDestinations, number : Nat]
            \cup [command : {"ERROR", "LF"}]

SocketTyped == /\ state \in {"connecting", "open", "closed"} /\ closing \in {"none", "due", "fired"}
               /\ onclose \in BOOLEAN /\ incall \in BOOLEAN
               /\ connected \in BOOLEAN /\ beat \in BOOLEAN
OutTyped == out \in Seq(Sent) /\ arrived \in 0 .. Len(out)
InTyped == /\ in \in Seq(Seq(Frames)) /\ delivered \in 0 .. Len(in)
           /\ \A i \in DOMAIN in : Len(in[i]) \in 1 .. MaxBatch
           /\ frames \in Seq(Frames)
ClientTyped == /\ calls \in 0 .. MaxCalls /\ counter \in 0 .. calls
               /\ registry \in Seq([id : FrameIds, destination : AllDestinations])
               /\ received \in Seq([callback : Nat, destination : AllDestinations,
                                    number : Nat, handler : Nat])
BrokerTyped == broker \in [session : {"none", "connected", "gone"}, subs : {broker.subs}]

Typed == SocketTyped /\ OutTyped /\ InTyped /\ ClientTyped /\ BrokerTyped

\* Some subscription with this id is one to this destination.
Known(id, d) == \E k \in DOMAIN registry : registry[k] = [id |-> id, destination |-> d]

IdsOnce == \A j, k \in DOMAIN registry : registry[j].id = registry[k].id => j = k
NumbersUsed == \A k \in DOMAIN registry :
    registry[k].id.kind # "user" => registry[k].id.number < counter
Registered == \A id \in DOMAIN subscriptions :
    /\ subscriptions[id] \in DOMAIN registry
    /\ registry[subscriptions[id]].id = id
OutKnown == \A i \in DOMAIN out :
    out[i].command = "SUBSCRIBE" => Known(out[i].id, out[i].destination)
BrokerKnows == \A id \in DOMAIN broker.subs : Known(id, broker.subs[id])
Addressed == \A i \in DOMAIN in : \A j \in DOMAIN in[i] :
    in[i][j].command = "MESSAGE" => Known(in[i][j].subscription, in[i][j].destination)
InHand == \A j \in DOMAIN frames :
    frames[j].command = "MESSAGE" => Known(frames[j].subscription, frames[j].destination)
CallbacksKnown == \A i \in DOMAIN received : received[i].callback \in DOMAIN registry
AcksKnown == \A i \in DOMAIN out :
    out[i].command \in {"ACK", "NACK"} => out[i].of \in DOMAIN received

\* An id stands for one subscription, whoever names it.
Addresses == /\ IdsOnce /\ NumbersUsed /\ Registered /\ OutKnown /\ BrokerKnows
             /\ Addressed /\ InHand /\ CallbacksKnown /\ AcksKnown
             /\ OwnMessages /\ AcknowledgesOwnBatch

\* CONNECT comes first and is answered by the first frame of all.
Begun == /\ state = "connecting" => out = <<>>
         /\ state = "open" => out # <<>>
         /\ ConnectFirst
Answered == /\ arrived = 0 <=> broker.session = "none"
            /\ arrived = 0 <=> in = <<>>
            /\ in # <<>> => in[1][1].command = "CONNECTED"
            /\ \A i \in DOMAIN in : \A j \in DOMAIN in[i] :
                 in[i][j].command = "CONNECTED" => i = 1 /\ j = 1

\* The handler comes to it before any callback runs.
AtOnce == \A j \in DOMAIN frames : frames[j].command = "CONNECTED" =>
    /\ j = 1 /\ ~ incall /\ state = "open" /\ delivered > 0 /\ frames[j] = in[1][1]

\* A timer can be cleared as long as it runs.
Cleared == /\ intervals \subseteq {"pinger", "ponger"}
           /\ "pinger" \in intervals => pinger = "pinger" /\ delivered > 0
                                          /\ in[1][1].heartbeat.wants
           /\ "ponger" \in intervals => ponger = "ponger"
SocketUp == state # "closed" => onclose /\ closing = "none"

Connection == Begun /\ Answered /\ AtOnce /\ Cleared /\ SocketUp /\ BeatsAsAgreed /\ NoTimersLeft

IInv == Typed /\ Addresses /\ Connection

-----------------------------------------------------------------------------
(***************************************************************************)
(* What is handed over in either direction.                                *)
(***************************************************************************)
\* Frame f may have been added to what was sent.
OutGrows(f) ==
    /\ out' \in Seq(Sent) /\ Len(out) <= Len(out')
    /\ \A i \in DOMAIN out' :
         \/ i \in DOMAIN out /\ out'[i] = out[i]
         \/ i = Len(out) + 1 /\ out'[i] = f
    /\ out # <<>> => out' # <<>>

\* Frame f was added to what the broker has sent.
InGrows(f) ==
    /\ in' \in Seq(Seq(Frames)) /\ Len(in) <= Len(in')
    /\ \A i \in DOMAIN in' : /\ Len(in'[i]) \in 1 .. MaxBatch
                             /\ \A j \in DOMAIN in'[i] :
                                  \/ i \in DOMAIN in /\ j \in DOMAIN in[i] /\ in'[i][j] = in[i][j]
                                  \/ in'[i][j] = f /\ (in # <<>> => ~ (i = 1 /\ j = 1))
    /\ in' # <<>> /\ (in # <<>> => in'[1][1] = in[1][1])

\* An open socket takes a frame, any other does not.
LEMMA FrameIsTransmitted ==
    ASSUME OutTyped, NEW f \in Sent, Transmit(f)
    PROVE  /\ OutGrows(f)
           /\ state # "open" => out' = out
<1>1. out \in Seq(Sent) /\ Len(out) \in Nat
  BY DEF OutTyped
<1>2. CASE state = "open"
  <2>1. out' = Append(out, f)
    BY <1>2 DEF Transmit
  <2>2. /\ out' \in Seq(Sent) /\ Len(out') = Len(out) + 1
        /\ \A i \in 1 .. Len(out) : out'[i] = out[i]
        /\ out'[Len(out) + 1] = f
    BY <1>1, <2>1
  <2>3. out' # <<>>
    BY <1>1, <2>2
  <2>4. DOMAIN out' = 1 .. Len(out) + 1 /\ DOMAIN out = 1 .. Len(out)
    BY <1>1, <2>2
  <2>5. \A i \in DOMAIN out' : i \in DOMAIN out \/ i = Len(out) + 1
    BY <1>1, <2>4
  <2> QED
    BY <1>1, <1>2, <2>2, <2>3, <2>4, <2>5 DEF OutGrows
<1>3. CASE state # "open"
  BY <1>1, <1>3 DEF Transmit, OutGrows
<1> QED
  BY <1>2, <1>3

\* Nothing is sent.
LEMMA NothingSent ==
    ASSUME OutTyped, out' = out, NEW f
    PROVE  OutGrows(f)
  BY DEF OutTyped, OutGrows

\* The broker sends a frame by itself.
LEMMA SentAlone ==
    ASSUME InTyped, NEW f \in Frames, in' = Append(in, <<f>>)
    PROVE  InGrows(f)
<1> DEFINE F == Seq(Frames)
<1>1. in \in Seq(F) /\ Len(in) \in Nat /\ MaxBatch \in Nat /\ MaxBatch >= 1
  BY StompBoundsAssumption DEF InTyped
<1>2. \A i \in DOMAIN in : Len(in[i]) \in 1 .. MaxBatch
  BY DEF InTyped
<1>3. <<f>> \in F /\ Len(<<f>>) = 1 /\ <<f>>[1] = f /\ DOMAIN <<f>> = {1}
  OBVIOUS
<1> DEFINE single == <<f>>
<1>4. in' = Append(in, single) /\ single \in F /\ Len(single) = 1 /\ single[1] = f
      /\ DOMAIN single = {1}
  BY <1>3
<1> HIDE DEF single
<1>5. in' \in Seq(F) /\ Len(in') = Len(in) + 1
      /\ \A i \in 1 .. Len(in) : in'[i] = in[i]
      /\ in'[Len(in) + 1] = single
  <2> HIDE DEF F
  <2> QED
    BY <1>1, <1>4
<1> HIDE DEF F
<1>6. /\ DOMAIN in = 1 .. Len(in)
      /\ \A i \in DOMAIN in' : i \in 1 .. Len(in) \/ i = Len(in) + 1
      /\ in' # <<>>
  BY <1>1, <1>5
<1>7. in # <<>> => 1 \in DOMAIN in /\ Len(in) >= 1
  BY <1>1, <1>6
<1>8. \A i \in DOMAIN in' :
        /\ Len(in'[i]) \in 1 .. MaxBatch
        /\ \A j \in DOMAIN in'[i] :
             \/ i \in DOMAIN in /\ j \in DOMAIN in[i] /\ in'[i][j] = in[i][j]
             \/ in'[i][j] = f /\ (in # <<>> => ~ (i = 1 /\ j = 1))
  <2> TAKE i \in DOMAIN in'
  <2>1. CASE i \in 1 .. Len(in)
    BY <1>2, <1>5, <1>6, <2>1
  <2>2. CASE i = Len(in) + 1
    BY <1>1, <1>4, <1>5, <1>7, <2>2
  <2> QED
    BY <1>6, <2>1, <2>2
<1> QED
  BY <1>1, <1>5, <1>6, <1>7, <1>8 DEF InGrows, F

\* Or the frame joins the last message, which has not left yet.
LEMMA SentTogether ==
    ASSUME InTyped, NEW f \in Frames,
           Len(in) > delivered, Len(in[Len(in)]) < MaxBatch,
           in' = [in EXCEPT ![Len(in)] = Append(@, f)]
    PROVE  InGrows(f)
<1> DEFINE F == Seq(Frames)
           n == Len(in)
           old == in[n]
           last == Append(old, f)
<1>1. in \in Seq(F) /\ n \in Nat /\ MaxBatch \in Nat /\ n >= 1
  BY StompBoundsAssumption DEF InTyped
<1>2. \A i \in DOMAIN in : Len(in[i]) \in 1 .. MaxBatch
  BY DEF InTyped
<1>3. DOMAIN in = 1 .. n /\ n \in DOMAIN in
  BY <1>1
<1>4. old \in F /\ Len(old) \in 1 .. MaxBatch /\ Len(old) < MaxBatch
  <2> HIDE DEF F
  <2> QED
    BY <1>1, <1>2, <1>3
<1> HIDE DEF n, old
<1>5. /\ last \in F /\ Len(last) = Len(old) + 1
      /\ \A j \in 1 .. Len(old) : last[j] = old[j]
      /\ last[Len(old) + 1] = f
      /\ DOMAIN last = 1 .. Len(old) + 1 /\ DOMAIN old = 1 .. Len(old)
  BY <1>4
<1>6. in' = [in EXCEPT ![n] = last]
  BY DEF n, old
<1> HIDE DEF last, F
<1>7. /\ in' \in Seq(F) /\ Len(in') = n /\ DOMAIN in' = DOMAIN in
      /\ in'[n] = last
      /\ \A i \in DOMAIN in : i # n => in'[i] = in[i]
  <2>1. in \in [1 .. n -> F] /\ n \in 1 .. n /\ last \in F
    BY <1>1, <1>3, <1>5
  <2>2. in' \in [1 .. n -> F] /\ in'[n] = last /\ \A i \in 1 .. n : i # n => in'[i] = in[i]
    BY <1>6, <2>1
  <2> QED
    BY <1>1, <1>3, <2>2
<1>8. \A i \in DOMAIN in' :
        /\ Len(in'[i]) \in 1 .. MaxBatch
        /\ \A j \in DOMAIN in'[i] :
             \/ i \in DOMAIN in /\ j \in DOMAIN in[i] /\ in'[i][j] = in[i][j]
             \/ in'[i][j] = f /\ (in # <<>> => ~ (i = 1 /\ j = 1))
  <2> TAKE i \in DOMAIN in'
  <2>1. CASE i # n
    BY <1>2, <1>7, <2>1
  <2>2. CASE i = n
    <3>1. in'[i] = last /\ in[i] = old
      BY <1>7, <2>2 DEF old
    <3>2. Len(last) \in 1 .. MaxBatch
      BY <1>1, <1>4, <1>5
    <3>3. ASSUME NEW j \in DOMAIN last
          PROVE  \/ j \in DOMAIN old /\ last[j] = old[j]
                 \/ last[j] = f /\ j # 1
      BY <1>4, <1>5
    <3> QED
      BY <1>3, <2>2, <3>1, <3>2, <3>3
  <2> QED
    BY <2>1, <2>2
<1>9. in' # <<>>
  BY <1>1, <1>7
<1>10. in'[1][1] = in[1][1]
  <2>1. 1 \in DOMAIN in /\ in[1] = in[1]
    BY <1>1, <1>3
  <2>2. CASE n = 1
    BY <1>4, <1>5, <1>7, <2>2 DEF old
  <2>3. CASE n # 1
    BY <1>7, <2>1, <2>3
  <2> QED
    BY <2>2, <2>3
<1> QED
  BY <1>1, <1>7, <1>8, <1>9, <1>10 DEF InGrows, F, n

\* Either way the frame was added, and nothing that was sent has changed.
LEMMA Emitted ==
    ASSUME InTyped, NEW f \in Frames, Emit(f)
    PROVE  InGrows(f)
  BY SentAlone, SentTogether DEF Emit

\* There are finitely many messages.
LEMMA PublishedIsNumber ==
    ASSUME InTyped
    PROVE  Published \in Nat
<1> DEFINE messages == {m \in Messages : m.command = "MESSAGE"}
           all == (1 .. Len(in)) \X (1 .. MaxBatch)
           places == {p \in all : /\ p[2] \in DOMAIN in[p[1]]
                                  /\ in[p[1]][p[2]].command = "MESSAGE"}
           at == [p \in places |-> in[p[1]][p[2]]]
<1>1. Len(in) \in Nat /\ MaxBatch \in Nat /\ DOMAIN in = 1 .. Len(in)
  BY StompBoundsAssumption DEF InTyped
<1>2. IsFiniteSet(places)
  <2>1. IsFiniteSet(1 .. Len(in)) /\ IsFiniteSet(1 .. MaxBatch)
    BY <1>1, FS_Interval
  <2>2. IsFiniteSet(all)
    BY <2>1, FS_Product
  <2>3. places \subseteq all
    OBVIOUS
  <2> QED
    BY <2>2, <2>3, FS_Subset
<1>3. at \in Surjection(places, messages)
  <2>1. \A p \in places : at[p] \in messages
    BY <1>1 DEF Messages
  <2>2. ASSUME NEW m \in messages
        PROVE  \E p \in places : at[p] = m
    <3>0. PICK i \in DOMAIN in : m \in {in[i][j] : j \in DOMAIN in[i]}
      BY DEF Messages
    <3>1. PICK j \in DOMAIN in[i] : in[i][j] = m
      BY <3>0
    <3>2. /\ DOMAIN in[i] = 1 .. Len(in[i])
          /\ Len(in[i]) \in 1 .. MaxBatch
      BY DEF InTyped
    <3>3. <<i, j>> \in all
      BY <1>1, <3>1, <3>2
    <3>4. <<i, j>> \in places
      BY <3>1, <3>3
    <3> QED
      BY <3>1, <3>4
  <2> QED
    BY <2>1, <2>2 DEF Surjection
<1> HIDE DEF at, places, messages
<1>4. IsFiniteSet(messages)
  BY <1>2, <1>3, FS_Surjection
<1> QED
  BY <1>4, FS_CardinalityType DEF Published, messages

\* The last of the calls that the handler made while it handled one message.
LEMMA LastOfBatch ==
    ASSUME ClientTyped, NEW k \in DOMAIN received
    PROVE  \E j \in DOMAIN received : /\ received[j].handler = received[k].handler
                                      /\ MessageIdOf(k) = received[j].number
<1> DEFINE same == {j \in DOMAIN received : received[j].handler = received[k].handler}
           n == Len(received)
           back == {n - j : j \in same}
<1>1. n \in Nat /\ DOMAIN received = 1 .. n
  BY DEF ClientTyped
<1>2. back \subseteq Nat /\ back # {}
  BY <1>1
<1>3. PICK x \in back : \A y \in back : ~ (<<y, x>> \in OpToRel(<, Nat))
  BY <1>2, WFMin, NatLessThanWellFounded
<1>4. \A y \in back : ~ (y < x)
  BY <1>2, <1>3 DEF OpToRel
<1>5. PICK j \in same : x = n - j
  OBVIOUS
<1>6. \A i \in same : i <= j
  <2> TAKE i \in same
  <2>1. n - i \in back /\ i \in Int /\ j \in Int
    BY <1>1
  <2>2. ~ (n - i < n - j)
    BY <1>4, <1>5, <2>1
  <2> QED
    BY <1>1, <2>1, <2>2
<1> DEFINE last == CHOOSE m \in same : \A i \in same : i <= m
<1>7. last \in same
  BY <1>5, <1>6
<1> QED
  BY <1>7 DEF MessageIdOf

-----------------------------------------------------------------------------
(***************************************************************************)
(* Frames and ids.                                                         *)
(***************************************************************************)
\* What the broker sends.
LEMMA BrokersFrames ==
    /\ \A h \in HeartBeats : Connected(h) \in Frames
    /\ \A id \in FrameIds, d \in AllDestinations, n \in Nat : Message(id, d, n) \in Frames
    /\ ErrorFrame \in Frames /\ Pong \in Frames
  BY DEF Connected, Message, ErrorFrame, Pong, Frames

\* What is in it.
LEMMA FrameFields ==
    ASSUME NEW f \in Frames
    PROVE  /\ f.command = "CONNECTED" => f.heartbeat \in HeartBeats
           /\ f.command = "MESSAGE" =>
                f.subscription \in FrameIds /\ f.destination \in AllDestinations /\ f.number \in Nat
  BY DEF Frames

\* The registry, or the list of calls, may have got longer.
RegistryGrows == \A k \in DOMAIN registry : k \in DOMAIN registry' /\ registry'[k] = registry[k]
ReceivedGrows == \A k \in DOMAIN received : k \in DOMAIN received' /\ received'[k] = received[k]

\* The same of the subscriptions there are after a step.
KnownThen(id, d) == \E k \in DOMAIN registry' : registry'[k] = [id |-> id, destination |-> d]

\* A subscription that was made stays known.
LEMMA KnownStays ==
    ASSUME RegistryGrows, NEW id, NEW d, Known(id, d)
    PROVE  KnownThen(id, d)
  BY DEF Known, KnownThen, RegistryGrows

\* What frame f of the client has to say for the addresses to agree.
SentAgrees(f) ==
    /\ f.command = "SUBSCRIBE" => KnownThen(f.id, f.destination)
    /\ f.command \in {"ACK", "NACK"} =>
         /\ f.of \in DOMAIN received
         /\ \E j \in DOMAIN received : /\ received[j].number = f.message
                                       /\ received[j].handler = received[f.of].handler

\* The frames that were sent go on naming what they named.
LEMMA SentStays ==
    ASSUME OutTyped, Addresses, RegistryGrows, ReceivedGrows, NEW f, OutGrows(f), SentAgrees(f)
    PROVE  OutKnown' /\ AcksKnown' /\ AcknowledgesOwnBatch'
<1>1. OutKnown'
  <2> SUFFICES ASSUME NEW i \in DOMAIN out', out'[i].command = "SUBSCRIBE"
               PROVE  KnownThen(out'[i].id, out'[i].destination)
    BY DEF OutKnown, Known, KnownThen
  <2>1. CASE i \in DOMAIN out /\ out'[i] = out[i]
    BY <2>1, KnownStays DEF Addresses, OutKnown
  <2>2. CASE out'[i] = f
    BY <2>2 DEF SentAgrees
  <2> QED
    BY <2>1, <2>2 DEF OutGrows
<1>2. AcksKnown' /\ AcknowledgesOwnBatch'
  <2> SUFFICES ASSUME NEW i \in DOMAIN out', out'[i].command \in {"ACK", "NACK"}
               PROVE  /\ out'[i].of \in DOMAIN received'
                      /\ \E j \in DOMAIN received' :
                           /\ received'[j].number = out'[i].message
                           /\ received'[j].handler = received'[out'[i].of].handler
    BY DEF AcksKnown, AcknowledgesOwnBatch
  <2> DEFINE g == out'[i]
  <2>1. /\ g.of \in DOMAIN received
        /\ \E j \in DOMAIN received : /\ received[j].number = g.message
                                       /\ received[j].handler = received[g.of].handler
    <3>1. CASE i \in DOMAIN out /\ g = out[i]
      BY <3>1 DEF Addresses, AcksKnown, AcknowledgesOwnBatch
    <3>2. CASE g = f
      BY <3>2 DEF SentAgrees
    <3> QED
      BY <3>1, <3>2 DEF OutGrows
  <2> HIDE DEF g
  <2>2. /\ g.of \in DOMAIN received'
        /\ \E j \in DOMAIN received' : /\ received'[j].number = g.message
                                        /\ received'[j].handler = received'[g.of].handler
    BY <2>1 DEF ReceivedGrows
  <2> QED
    BY <2>2 DEF g
<1> QED
  BY <1>1, <1>2

\* The frames of the broker go on being addressed.
LEMMA AddressedStays ==
    ASSUME Addresses, RegistryGrows, NEW f, in' = in \/ InGrows(f),
           f.command = "MESSAGE" => Known(f.subscription, f.destination)
    PROVE  Addressed'
<1> SUFFICES ASSUME NEW i \in DOMAIN in', NEW j \in DOMAIN in'[i],
                    in'[i][j].command = "MESSAGE"
             PROVE  KnownThen(in'[i][j].subscription, in'[i][j].destination)
  BY DEF Addressed, Known, KnownThen
<1>1. Known(in'[i][j].subscription, in'[i][j].destination)
  <2>1. CASE i \in DOMAIN in /\ j \in DOMAIN in[i] /\ in'[i][j] = in[i][j]
    BY <2>1 DEF Addresses, Addressed
  <2>2. CASE in'[i][j] = f
    BY <2>2
  <2> QED
    BY <2>1, <2>2 DEF InGrows
<1> QED
  BY <1>1, KnownStays

\* What names subscriptions, when none of it moves.
LEMMA AddressesRest ==
    ASSUME Addresses, UNCHANGED <<counter, subscriptions, out, in, broker, frames, registry, received>>
    PROVE  Addresses'
<1>1. IdsOnce' /\ NumbersUsed' /\ Registered'
  BY DEF Addresses, IdsOnce, NumbersUsed, Registered
<1>2. OutKnown' /\ BrokerKnows' /\ Addressed' /\ InHand'
  BY DEF Addresses, OutKnown, BrokerKnows, Addressed, InHand, Known
<1>3. CallbacksKnown' /\ AcksKnown' /\ OwnMessages' /\ AcknowledgesOwnBatch'
  BY DEF Addresses, CallbacksKnown, AcksKnown, OwnMessages, AcknowledgesOwnBatch
<1> QED
  BY <1>1, <1>2, <1>3 DEF Addresses

\* The same when the client has only sent frame f, and the registry has at most
\* got longer.
LEMMA AddressesSent ==
    ASSUME OutTyped, Addresses, RegistryGrows, NEW f, OutGrows(f), SentAgrees(f),
           IdsOnce', NumbersUsed', Registered',
           UNCHANGED <<in, broker, frames, received>>
    PROVE  Addresses'
<1>1. ReceivedGrows
  BY DEF ReceivedGrows
<1>2. OutKnown' /\ AcksKnown' /\ AcknowledgesOwnBatch'
  BY <1>1, SentStays
<1>3. BrokerKnows'
  <2>1. \A id \in DOMAIN broker'.subs : KnownThen(id, broker'.subs[id])
    BY KnownStays DEF Addresses, BrokerKnows
  <2> QED
    BY <2>1 DEF BrokerKnows, Known, KnownThen
<1>4. Addressed'
  <2>1. \A i \in DOMAIN in' : \A j \in DOMAIN in'[i] :
          in'[i][j].command = "MESSAGE" => KnownThen(in'[i][j].subscription, in'[i][j].destination)
    BY KnownStays DEF Addresses, Addressed
  <2> QED
    BY <2>1 DEF Addressed, Known, KnownThen
<1>5. InHand'
  <2>1. \A j \in DOMAIN frames' : frames'[j].command = "MESSAGE"
          => KnownThen(frames'[j].subscription, frames'[j].destination)
    BY KnownStays DEF Addresses, InHand
  <2> QED
    BY <2>1 DEF InHand, Known, KnownThen
<1>6. CallbacksKnown' /\ OwnMessages'
  BY DEF Addresses, CallbacksKnown, OwnMessages, RegistryGrows
<1> QED
  BY <1>2, <1>3, <1>4, <1>5, <1>6 DEF Addresses

\* The ids that were registered are ids, and numbered unless the page made them up.
LEMMA RegisteredIds ==
    ASSUME ClientTyped
    PROVE  /\ \A k \in DOMAIN registry : registry[k].id \in FrameIds /\ registry[k].destination \in AllDestinations
           /\ \A id \in FrameIds : id.kind # "user" => id.number \in Nat
<1> DEFINE E == [id : FrameIds, destination : AllDestinations]
<1>1. \A k \in DOMAIN registry : registry[k] \in E
  <2>1. registry \in Seq(E)
    BY DEF ClientTyped
  <2> HIDE DEF E
  <2> QED
    BY <2>1
<1>2. \A k \in DOMAIN registry : registry[k].id \in FrameIds /\ registry[k].destination \in AllDestinations
  BY <1>1
<1>3. \A id \in FrameIds : id.kind # "user" => id.number \in Nat
  BY DEF FrameIds
<1> QED
  BY <1>2, <1>3

-----------------------------------------------------------------------------
(***************************************************************************)
(* Calls of the page.                                                      *)
(***************************************************************************)
\* The connection does not notice that the client sends a frame other than
\* CONNECT.
LEMMA ConnectionSent ==
    ASSUME Connection, OutTyped, NEW f \in Sent, f.command # "CONNECT", Transmit(f),
           UNCHANGED <<socketOnly, arrived, in, delivered, handling, timers, broker>>
    PROVE  Connection'
<1>1. OutGrows(f) /\ (state # "open" => out' = out)
  BY FrameIsTransmitted
<1>2. Begun'
  <2>1. out # <<>> => Len(out) # 0
    BY DEF OutTyped
  <2>2. state' = state
    BY DEF socketOnly
  <2>3. (state' = "connecting" => out' = <<>>) /\ (state' = "open" => out' # <<>>)
    BY <1>1, <2>2 DEF Connection, Begun, OutGrows
  <2>4. ConnectFirst'
    <3>1. CASE state # "open"
      BY <1>1, <3>1 DEF Connection, Begun, ConnectFirst
    <3>2. CASE state = "open"
      <4>1. Len(out) \in Nat /\ Len(out) # 0
        BY <2>1, <3>2 DEF Connection, Begun, OutTyped
      <4> QED
        BY <1>1, <4>1 DEF Connection, Begun, ConnectFirst, OutGrows
    <3> QED
      BY <3>1, <3>2
  <2> QED
    BY <2>3, <2>4 DEF Begun
<1>3. Answered' /\ AtOnce'
  BY DEF Connection, Answered, AtOnce, socketOnly, handling
<1>4. Cleared' /\ SocketUp' /\ BeatsAsAgreed' /\ NoTimersLeft'
  BY DEF Connection, Cleared, SocketUp, BeatsAsAgreed, NoTimersLeft, socketOnly, timers
<1> QED
  BY <1>2, <1>3, <1>4 DEF Connection

\* What all calls have in common.
LEMMA CallKeeps ==
    ASSUME IInv, NEW f \in Sent, f.command # "CONNECT", Transmit(f), SentAgrees(f),
           AppTurn, Quiet, UNCHANGED <<connected, received, socketOnly>>,
           counter' \in {counter, counter + 1}, RegistryGrows,
           registry' \in Seq([id : FrameIds, destination : AllDestinations]),
           IdsOnce', NumbersUsed', Registered'
    PROVE  IInv'
<1>1. OutGrows(f)
  BY FrameIsTransmitted DEF IInv, Typed
<1>2. Typed'
  <2>1. SocketTyped'
    BY DEF IInv, Typed, SocketTyped, Quiet, handling, timers, socketOnly
  <2>2. OutTyped'
    BY <1>1 DEF IInv, Typed, OutTyped, OutGrows, Quiet
  <2>3. InTyped' /\ BrokerTyped'
    BY DEF IInv, Typed, InTyped, BrokerTyped, Quiet, handling
  <2>4. ClientTyped'
    BY StompBoundsAssumption DEF IInv, Typed, ClientTyped, AppTurn
  <2> QED
    BY <2>1, <2>2, <2>3, <2>4 DEF Typed
<1>3. Addresses'
  BY <1>1, AddressesSent DEF IInv, Typed, Quiet, handling
<1>4. Connection'
  BY ConnectionSent DEF IInv, Typed, Quiet
<1> QED
  BY <1>2, <1>3, <1>4 DEF IInv

\* And those that do not touch the subscriptions.
LEMMA PlainCall ==
    ASSUME IInv, NEW f \in Sent, f.command \notin {"CONNECT", "SUBSCRIBE"}, Transmit(f),
           SentAgrees(f), AppTurn, Quiet,
           UNCHANGED <<connected, subscriptions, registry, received, socketOnly>>,
           counter' \in {counter, counter + 1}
    PROVE  IInv'
<1>1. RegistryGrows /\ registry' \in Seq([id : FrameIds, destination : AllDestinations])
  BY DEF RegistryGrows, IInv, Typed, ClientTyped
<1>2. IdsOnce' /\ Registered'
  BY DEF IInv, Addresses, IdsOnce, Registered
<1>3. NumbersUsed'
  <2>1. \A k \in DOMAIN registry : registry[k].id.kind # "user" => registry[k].id.number \in Nat
    BY RegisteredIds DEF IInv, Typed
  <2>2. counter \in Nat
    BY StompBoundsAssumption DEF IInv, Typed, ClientTyped
  <2> QED
    BY <2>1, <2>2 DEF IInv, Addresses, NumbersUsed
<1> QED
  BY <1>1, <1>2, <1>3, CallKeeps

\* The ids that a subscription can be made with are new.
LEMMA Registers ==
    ASSUME IInv, NEW id \in FrameIds, NEW d \in AllDestinations,
           \A k \in DOMAIN registry : registry[k].id # id,
           counter' \in {counter, counter + 1},
           id.kind # "user" => id.number < counter',
           registry' = Append(registry, [id |-> id, destination |-> d]),
           subscriptions' = With(subscriptions, id, Len(registry) + 1)
    PROVE  /\ RegistryGrows /\ registry' \in Seq([id : FrameIds, destination : AllDestinations])
           /\ KnownThen(id, d)
           /\ IdsOnce' /\ NumbersUsed' /\ Registered'
<1> DEFINE E == [id : FrameIds, destination : AllDestinations]
           r == [id |-> id, destination |-> d]
           n == Len(registry)
<1>1. registry \in Seq(E) /\ n \in Nat /\ DOMAIN registry = 1 .. n /\ r \in E
  BY DEF IInv, Typed, ClientTyped
<1>2. /\ registry' \in Seq(E) /\ Len(registry') = n + 1 /\ DOMAIN registry' = 1 .. n + 1
      /\ \A k \in 1 .. n : registry'[k] = registry[k]
      /\ registry'[n + 1] = r
  <2> HIDE DEF E, r
  <2> QED
    BY <1>1 DEF r
<1>3. n + 1 \in 1 .. n + 1 /\ \A k \in 1 .. n + 1 : k \in 1 .. n \/ k = n + 1
  BY <1>1
<1>4. r.id = id
  OBVIOUS
<1> HIDE DEF n
<1>5. RegistryGrows /\ KnownThen(id, d)
  BY <1>1, <1>2, <1>3 DEF RegistryGrows, KnownThen
<1>6. IdsOnce'
  <2> SUFFICES ASSUME NEW j \in DOMAIN registry', NEW k \in DOMAIN registry',
                      registry'[j].id = registry'[k].id
               PROVE  j = k
    BY DEF IdsOnce
  <2> QED
    BY <1>1, <1>2, <1>3, <1>4 DEF IInv, Addresses, IdsOnce
<1>7. NumbersUsed'
  <2>1. \A k \in DOMAIN registry : registry[k].id \in FrameIds
    BY RegisteredIds DEF IInv, Typed
  <2>2. \A i \in FrameIds : i.kind # "user" => i.number \in Nat
    BY RegisteredIds DEF IInv, Typed
  <2>3. counter \in Nat
    BY StompBoundsAssumption DEF IInv, Typed, ClientTyped
  <2>4. ASSUME NEW k \in 1 .. n, registry[k].id.kind # "user"
        PROVE  registry[k].id.number < counter'
    BY <1>1, <2>1, <2>2, <2>3, <2>4 DEF IInv, Addresses, NumbersUsed
  <2> QED
    BY <1>2, <1>3, <1>4, <2>4 DEF NumbersUsed
<1>8. Registered'
  <2>1. /\ DOMAIN subscriptions' = DOMAIN subscriptions \cup {id}
        /\ subscriptions'[id] = n + 1
        /\ \A i \in DOMAIN subscriptions : i # id => subscriptions'[i] = subscriptions[i]
    BY DEF With, n
  <2>2. \A i \in DOMAIN subscriptions :
          subscriptions[i] \in DOMAIN registry /\ registry[subscriptions[i]].id = i
    BY DEF IInv, Addresses, Registered
  <2> QED
    BY <1>1, <1>2, <1>3, <1>4, <2>1, <2>2 DEF Registered
<1> QED
  BY <1>2, <1>5, <1>6, <1>7, <1>8

\* A subscription with a new id: the id stands for it from now on.
LEMMA SubscribeKeeps ==
    ASSUME IInv, NEW id \in FrameIds, NEW d \in AllDestinations,
           \A k \in DOMAIN registry : registry[k].id # id,
           counter' \in {counter, counter + 1},
           id.kind # "user" => id.number < counter',
           AppTurn, Quiet, SubscribeWith(id, d)
    PROVE  IInv'
<1> DEFINE f == [command |-> "SUBSCRIBE", id |-> id, destination |-> d]
<1>1. f \in Sent /\ f.command = "SUBSCRIBE" /\ f.id = id /\ f.destination = d
  BY DEF Sent
<1>2. /\ RegistryGrows /\ registry' \in Seq([id : FrameIds, destination : AllDestinations])
      /\ KnownThen(id, d)
      /\ IdsOnce' /\ NumbersUsed' /\ Registered'
  BY Registers DEF SubscribeWith
<1>3. Transmit(f) /\ UNCHANGED <<connected, received, socketOnly>>
  BY DEF SubscribeWith
<1> HIDE DEF f
<1>4. SentAgrees(f)
  BY <1>1, <1>2 DEF SentAgrees
<1> QED
  BY <1>1, <1>2, <1>3, <1>4, CallKeeps

\* The client's own ids are new because its counter was not used up to now.
LEMMA SubscribeStep ==
    ASSUME IInv, NEW d \in Destinations, Subscribe(d)
    PROVE  IInv'
<1>1. counter \in Nat
  BY StompBoundsAssumption DEF IInv, Typed, ClientTyped
<1>2. NextId \in FrameIds /\ NextId.kind = "sub" /\ NextId.number = counter /\ d \in AllDestinations
  BY <1>1 DEF NextId, AutoId, FrameIds, AllDestinations
<1>3. \A k \in DOMAIN registry : registry[k].id # NextId
  BY <1>1, <1>2 DEF IInv, Addresses, NumbersUsed
<1> QED
  BY <1>1, <1>2, <1>3, SubscribeKeeps DEF Subscribe

\* The page's own ids are of a kind apart, and it uses none twice.
LEMMA SubscribeAsStep ==
    ASSUME IInv, NEW u \in UserIds, SubscribeAs(u)
    PROVE  IInv'
<1>1. UserId(u) \in FrameIds /\ UserId(u).kind = "user" /\ DestinationOf[u] \in AllDestinations
  BY DEF UserId, FrameIds, AllDestinations
<1> QED
  BY <1>1, SubscribeKeeps DEF SubscribeAs

\* A cancelled subscription stays registered, for what may still come for it.
LEMMA UnsubscribeStep ==
    ASSUME IInv, NEW k \in DOMAIN registry, Unsubscribe(k)
    PROVE  IInv'
<1> DEFINE f == [command |-> "UNSUBSCRIBE", id |-> registry[k].id]
<1>1. registry[k].id \in FrameIds
  BY RegisteredIds DEF IInv, Typed
<1>2. f \in Sent /\ f.command = "UNSUBSCRIBE"
  BY <1>1 DEF Sent
<1>3. SentAgrees(f)
  BY DEF SentAgrees
<1>4. Transmit(f)
  BY DEF Unsubscribe
<1> HIDE DEF f
<1>5. RegistryGrows /\ registry' \in Seq([id : FrameIds, destination : AllDestinations])
  BY DEF RegistryGrows, Unsubscribe, IInv, Typed, ClientTyped
<1>6. IdsOnce' /\ NumbersUsed' /\ Registered'
  BY DEF IInv, Addresses, IdsOnce, NumbersUsed, Registered, Unsubscribe
<1> QED
  BY <1>2, <1>3, <1>4, <1>5, <1>6, CallKeeps DEF Unsubscribe

\* A transaction takes a number that no subscription gets any more.
LEMMA BeginStep ==
    ASSUME IInv, Begin
    PROVE  IInv'
<1> DEFINE f == [command |-> "BEGIN", transaction |-> AutoId("tx", counter)]
<1>1. counter \in Nat
  BY StompBoundsAssumption DEF IInv, Typed, ClientTyped
<1>2. f \in Sent /\ f.command = "BEGIN"
  BY <1>1 DEF AutoId, FrameIds, Sent
<1>3. Transmit(f)
  BY DEF Begin
<1> HIDE DEF f
<1> QED
  BY <1>2, <1>3, PlainCall DEF Begin, SentAgrees

\* A transaction that is ended was begun.
LEMMA EndStep ==
    ASSUME IInv, NEW command \in {"COMMIT", "ABORT"}, End(command)
    PROVE  IInv'
<1>1. PICK i \in DOMAIN out : /\ out[i].command = "BEGIN"
                              /\ Transmit([command |-> command, transaction |-> out[i].transaction])
  BY DEF End
<1> DEFINE f == [command |-> command, transaction |-> out[i].transaction]
<1>2. out[i] \in Sent
  BY DEF IInv, Typed, OutTyped
<1>3. out[i].transaction \in FrameIds
  BY <1>1, <1>2 DEF Sent
<1>4. f \in Sent /\ f.command \in {"COMMIT", "ABORT"}
  BY <1>3 DEF Sent
<1>5. Transmit(f)
  BY <1>1
<1> HIDE DEF f
<1> QED
  BY <1>4, <1>5, PlainCall DEF End, SentAgrees, client

\* send names no subscription.
LEMMA SendToStep ==
    ASSUME IInv, SendTo
    PROVE  IInv'
<1> DEFINE f == [command |-> "SEND"]
<1>1. f \in Sent /\ f.command = "SEND" /\ Transmit(f)
  BY DEF Sent, SendTo
<1> HIDE DEF f
<1> QED
  BY <1>1, PlainCall DEF SendTo, SentAgrees, client

\* An acknowledgement names the last message of the handler that made it.
LEMMA AcknowledgeStep ==
    ASSUME IInv, NEW k \in DOMAIN received, NEW command \in {"ACK", "NACK"},
           Acknowledge(command, k)
    PROVE  IInv'
<1> DEFINE f == [command |-> command, message |-> MessageIdOf(k), of |-> k]
<1>1. PICK j \in DOMAIN received : /\ received[j].handler = received[k].handler
                                    /\ MessageIdOf(k) = received[j].number
  BY LastOfBatch DEF IInv, Typed
<1>2. received[j].number \in Nat /\ k \in Nat
  <2> DEFINE E == [callback : Nat, destination : AllDestinations, number : Nat, handler : Nat]
  <2>1. received \in Seq(E)
    BY DEF IInv, Typed, ClientTyped
  <2> HIDE DEF E
  <2>2. received[j] \in E /\ k \in Nat
    BY <2>1
  <2> QED
    BY <2>2 DEF E
<1>3. f \in Sent
  BY <1>1, <1>2 DEF Sent
<1>4. f.command \in {"ACK", "NACK"} /\ f.of = k /\ f.message = received[j].number /\ Transmit(f)
  BY <1>1 DEF Acknowledge
<1> HIDE DEF f
<1>5. SentAgrees(f)
  BY <1>1, <1>4 DEF SentAgrees
<1> QED
  BY <1>3, <1>4, <1>5, PlainCall DEF Acknowledge, client

\* The page leaves: nothing is handed over any more, and no timer goes on.
LEMMA DisconnectStep ==
    ASSUME IInv, Disconnect
    PROVE  IInv'
<1> DEFINE f == [command |-> "DISCONNECT"]
<1>1. f \in Sent /\ f.command = "DISCONNECT" /\ Transmit(f)
  BY DEF Sent, Disconnect
<1> HIDE DEF f
<1>2. OutGrows(f) /\ (state # "open" => out' = out)
  BY <1>1, FrameIsTransmitted DEF IInv, Typed
<1>3. Typed'
  <2>1. SocketTyped'
    BY DEF IInv, Typed, SocketTyped, Disconnect, CleanUp, handling
  <2>2. OutTyped'
    BY <1>2 DEF IInv, Typed, OutTyped, OutGrows, Disconnect
  <2>3. InTyped' /\ BrokerTyped'
    BY DEF IInv, Typed, InTyped, BrokerTyped, Disconnect, handling
  <2>4. ClientTyped'
    BY StompBoundsAssumption DEF IInv, Typed, ClientTyped, AppTurn, Disconnect
  <2> QED
    BY <2>1, <2>2, <2>3, <2>4 DEF Typed
<1>4. Addresses'
  <2>1. RegistryGrows /\ SentAgrees(f)
    BY <1>1 DEF RegistryGrows, SentAgrees, Disconnect
  <2>2. IdsOnce' /\ NumbersUsed' /\ Registered'
    BY DEF IInv, Addresses, IdsOnce, NumbersUsed, Registered, Disconnect
  <2> QED
    BY <1>2, <2>1, <2>2, AddressesSent DEF IInv, Typed, Disconnect, handling
<1>5. Connection'
  <2>1. ConnectFirst'
    <3>1. CASE state # "open"
      BY <1>2, <3>1 DEF IInv, Connection, Begun, ConnectFirst
    <3>2. CASE state = "open"
      <4>1. Len(out) \in Nat /\ Len(out) # 0
        BY <3>2 DEF IInv, Connection, Begun, Typed, OutTyped
      <4> QED
        BY <1>1, <1>2, <4>1 DEF IInv, Connection, Begun, ConnectFirst, OutGrows
    <3> QED
      BY <3>1, <3>2
  <2>2. Begun'
    BY <2>1 DEF Begun, Disconnect
  <2>3. \A j \in DOMAIN frames : frames[j].command # "CONNECTED"
    BY DEF IInv, Typed, InTyped, Connection, AtOnce, Disconnect, AppTurn
  <2>4. Answered' /\ AtOnce'
    BY <2>3 DEF IInv, Connection, Answered, AtOnce, Disconnect, handling
  <2>5. intervals' = {}
    BY DEF IInv, Connection, Cleared, Disconnect, CleanUp
  <2>6. Cleared' /\ SocketUp' /\ BeatsAsAgreed' /\ NoTimersLeft'
    BY <2>5 DEF IInv, Connection, Cleared, SocketUp, BeatsAsAgreed, NoTimersLeft, Disconnect
  <2> QED
    BY <2>2, <2>4, <2>6 DEF Connection
<1> QED
  BY <1>3, <1>4, <1>5 DEF IInv

-----------------------------------------------------------------------------
(***************************************************************************)
(* The socket and the timers.                                              *)
(***************************************************************************)
\* The types do not care about a step that only the socket or a timer makes.
LEMMA TypedRest ==
    ASSUME Typed, UNCHANGED <<out, arrived, in, delivered, frames, broker,
                              counter, registry, received, calls>>
    PROVE  OutTyped' /\ InTyped' /\ ClientTyped' /\ BrokerTyped'
  BY DEF Typed, OutTyped, InTyped, ClientTyped, BrokerTyped

\* CONNECT is the first frame: nothing was taken while the socket connected.
LEMMA SocketOpensStep ==
    ASSUME IInv, SocketOpens
    PROVE  IInv'
<1> DEFINE f == [command |-> "CONNECT"]
<1>1. f \in Sent /\ f.command = "CONNECT" /\ out' = Append(out, f) /\ out = <<>>
  BY DEF Sent, SocketOpens, IInv, Connection, Begun
<1> HIDE DEF f
<1>2. out' \in Seq(Sent) /\ Len(out') = 1 /\ out'[1] = f /\ DOMAIN out' = {1} /\ Len(out) = 0
  BY <1>1
<1>3. OutGrows(f)
  BY <1>1, <1>2 DEF OutGrows
<1>4. Typed'
  <2>1. SocketTyped'
    BY DEF IInv, Typed, SocketTyped, SocketOpens, handling, timers, client
  <2>2. OutTyped'
    BY <1>2 DEF IInv, Typed, OutTyped, SocketOpens
  <2>3. InTyped' /\ BrokerTyped' /\ ClientTyped'
    BY DEF IInv, Typed, InTyped, BrokerTyped, ClientTyped, SocketOpens, handling, client, history
  <2> QED
    BY <2>1, <2>2, <2>3 DEF Typed
<1>5. Addresses'
  <2>1. RegistryGrows /\ SentAgrees(f)
    BY <1>1 DEF RegistryGrows, SentAgrees, SocketOpens, history
  <2>2. IdsOnce' /\ NumbersUsed' /\ Registered'
    BY DEF IInv, Addresses, IdsOnce, NumbersUsed, Registered, SocketOpens, client, history
  <2> QED
    BY <1>3, <2>1, <2>2, AddressesSent DEF IInv, Typed, SocketOpens, handling, history
<1>6. Connection'
  <2>1. Begun'
    BY <1>1, <1>2 DEF Begun, ConnectFirst, SocketOpens
  <2>2. Answered' /\ AtOnce'
    BY DEF IInv, Connection, Answered, AtOnce, SocketOpens, handling
  <2>3. Cleared' /\ SocketUp' /\ BeatsAsAgreed' /\ NoTimersLeft'
    BY DEF IInv, Connection, Cleared, SocketUp, BeatsAsAgreed, NoTimersLeft, SocketOpens, timers
  <2> QED
    BY <2>1, <2>2, <2>3 DEF Connection
<1> QED
  BY <1>4, <1>5, <1>6 DEF IInv

\* What all the other steps of the socket and the timers leave alone.
Else == UNCHANGED <<wire, handling, pinger, ponger, counter, subscriptions, broker, history>>

\* For such a step only the socket's type and the connection are left to show.
LEMMA ElseKeeps ==
    ASSUME IInv, Else, SocketTyped', Connection'
    PROVE  IInv'
<1>1. Typed'
  BY TypedRest DEF IInv, Typed, Else, wire, handling, history
<1>2. Addresses'
  BY AddressesRest DEF IInv, Else, wire, handling, history
<1> QED
  BY <1>1, <1>2 DEF IInv

\* The connection breaks between two handlers, none of which has frames left.
LEMMA SocketLostStep ==
    ASSUME IInv, SocketLost
    PROVE  IInv'
<1>1. Else /\ SocketTyped'
  BY DEF IInv, Typed, SocketTyped, SocketLost, Else, timers, client, handling
<1>2. Begun' /\ Answered' /\ AtOnce'
  <2>1. Begun' /\ Answered'
    BY DEF IInv, Connection, Begun, ConnectFirst, Answered, SocketLost, wire
  <2>2. DOMAIN frames' = {}
    BY DEF SocketLost, handling
  <2> QED
    BY <2>1, <2>2 DEF AtOnce
<1>3. Cleared' /\ SocketUp' /\ BeatsAsAgreed' /\ NoTimersLeft'
  BY DEF IInv, Connection, Cleared, SocketUp, BeatsAsAgreed, NoTimersLeft, SocketLost, wire, timers
<1> QED
  BY <1>1, <1>2, <1>3, ElseKeeps DEF Connection

\* No timer is left, whether it is this handler or disconnect that cleared them.
LEMMA CloseFiresStep ==
    ASSUME IInv, CloseFires
    PROVE  IInv'
<1>1. Else /\ SocketTyped'
  BY DEF IInv, Typed, SocketTyped, CloseFires, CleanUp, Else, handling
<1>2. intervals' = {}
  BY DEF IInv, Connection, Cleared, NoTimersLeft, CloseFires, CleanUp
<1>3. Begun' /\ Answered' /\ AtOnce'
  BY DEF IInv, Connection, Begun, ConnectFirst, Answered, AtOnce, CloseFires, wire, handling
<1>4. Cleared' /\ SocketUp' /\ BeatsAsAgreed' /\ NoTimersLeft'
  BY <1>2 DEF IInv, Connection, Cleared, SocketUp, BeatsAsAgreed, NoTimersLeft, CloseFires, wire
<1> QED
  BY <1>1, <1>3, <1>4, ElseKeeps DEF Connection

\* A heart-beat is sent by a timer that runs, so the server wanted it.
LEMMA PingStep ==
    ASSUME IInv, Ping
    PROVE  IInv'
<1>1. Else /\ SocketTyped'
  BY DEF IInv, Typed, SocketTyped, Ping, Else, socketOnly, client, handling
<1>2. Begun' /\ Answered' /\ AtOnce'
  BY DEF IInv, Connection, Begun, ConnectFirst, Answered, AtOnce, Ping, socketOnly, wire, handling
<1>3. Cleared' /\ SocketUp' /\ BeatsAsAgreed' /\ NoTimersLeft'
  BY DEF IInv, Connection, Cleared, SocketUp, BeatsAsAgreed, NoTimersLeft, Ping, socketOnly, wire
<1> QED
  BY <1>1, <1>2, <1>3, ElseKeeps DEF Connection

\* The timer never finds the server dead.
LEMMA CheckPongStep ==
    ASSUME IInv, CheckPong
    PROVE  IInv'
<1>1. UNCHANGED <<state, closing>>
  BY DEF CheckPong, Greater, Minus, Now, FunctionValue, NotANumber
<1>2. Else /\ SocketTyped'
  BY <1>1 DEF IInv, Typed, SocketTyped, CheckPong, Else, timers, client, handling
<1>3. Begun' /\ Answered' /\ AtOnce'
  BY <1>1 DEF IInv, Connection, Begun, ConnectFirst, Answered, AtOnce, CheckPong, wire, handling
<1>4. Cleared' /\ SocketUp' /\ BeatsAsAgreed' /\ NoTimersLeft'
  BY <1>1 DEF IInv, Connection, Cleared, SocketUp, BeatsAsAgreed, NoTimersLeft, CheckPong, wire, timers
<1> QED
  BY <1>2, <1>3, <1>4, ElseKeeps DEF Connection

\* It arrives.
LEMMA BrokerGetsBeatStep ==
    ASSUME IInv, BrokerGetsBeat
    PROVE  IInv'
<1>1. Else /\ SocketTyped'
  BY DEF IInv, Typed, SocketTyped, BrokerGetsBeat, Else, socketOnly, client, handling
<1>2. Begun' /\ Answered' /\ AtOnce'
  BY DEF IInv, Connection, Begun, ConnectFirst, Answered, AtOnce, BrokerGetsBeat,
         socketOnly, wire, handling
<1>3. Cleared' /\ SocketUp' /\ BeatsAsAgreed' /\ NoTimersLeft'
  BY DEF IInv, Connection, Cleared, SocketUp, BeatsAsAgreed, NoTimersLeft, BrokerGetsBeat,
         socketOnly, wire
<1> QED
  BY <1>1, <1>2, <1>3, ElseKeeps DEF Connection

\* Nothing happens.
LEMMA StutterStep ==
    ASSUME IInv, UNCHANGED vars
    PROVE  IInv'
<1>1. Else /\ SocketTyped'
  BY DEF IInv, Typed, SocketTyped, vars, Else, socketOnly, wire, handling, timers, client, history
<1>2. Begun' /\ Answered' /\ AtOnce'
  BY DEF IInv, Connection, Begun, ConnectFirst, Answered, AtOnce, vars, socketOnly, wire, handling
<1>3. Cleared' /\ SocketUp' /\ BeatsAsAgreed' /\ NoTimersLeft'
  BY DEF IInv, Connection, Cleared, SocketUp, BeatsAsAgreed, NoTimersLeft, vars,
         socketOnly, wire, timers
<1> QED
  BY <1>1, <1>2, <1>3, ElseKeeps DEF Connection

-----------------------------------------------------------------------------
(***************************************************************************)
(* The message handler.                                                    *)
(***************************************************************************)
\* The message that is taken up is one the broker sent.
LEMMA HandleStep ==
    ASSUME IInv, Handle
    PROVE  IInv'
<1> DEFINE n == delivered + 1
<1>1. /\ in \in Seq(Seq(Frames)) /\ delivered \in 0 .. Len(in) /\ Len(in) \in Nat
      /\ \A i \in DOMAIN in : Len(in[i]) \in 1 .. MaxBatch
  BY DEF IInv, Typed, InTyped
<1>2. n \in DOMAIN in /\ n \in 1 .. Len(in) /\ delivered' = n /\ in' = in
  BY <1>1 DEF Handle
<1> HIDE DEF n
<1>3. in[n] \in Seq(Frames)
  <2> DEFINE F == Seq(Frames)
  <2> HIDE DEF F
  <2>1. in \in Seq(F)
    BY <1>1 DEF F
  <2>2. in[n] \in F
    BY <1>2, <2>1
  <2> QED
    BY <2>2 DEF F
<1>4. /\ frames' \in Seq(Frames)
      /\ \A j \in DOMAIN frames' : j \in DOMAIN in[n] /\ frames'[j] = in[n][j]
  <2>1. frames' = IF in[n] = <<Pong>> THEN <<>> ELSE in[n]
    BY <1>2 DEF Handle, FramesOf
  <2>2. CASE in[n] = <<Pong>>
    BY <2>1, <2>2
  <2>3. CASE in[n] # <<Pong>>
    BY <1>3, <2>1, <2>3
  <2> QED
    BY <2>2, <2>3
<1>5. Typed'
  <2>1. SocketTyped'
    BY DEF IInv, Typed, SocketTyped, Handle, socketOnly, client
  <2>2. InTyped'
    BY <1>1, <1>2, <1>4 DEF InTyped
  <2>3. OutTyped' /\ BrokerTyped' /\ ClientTyped'
    BY DEF IInv, Typed, OutTyped, BrokerTyped, ClientTyped, Handle, client, history
  <2> QED
    BY <2>1, <2>2, <2>3 DEF Typed
<1>6. Addresses'
  <2>1. IdsOnce' /\ NumbersUsed' /\ Registered'
    BY DEF IInv, Addresses, IdsOnce, NumbersUsed, Registered, Handle, client, history
  <2>2. OutKnown' /\ BrokerKnows' /\ Addressed'
    BY DEF IInv, Addresses, OutKnown, BrokerKnows, Addressed, Known, Handle, history
  <2>3. InHand'
    <3>1. \A j \in DOMAIN frames' : frames'[j].command = "MESSAGE"
            => Known(frames'[j].subscription, frames'[j].destination)
      BY <1>2, <1>4 DEF IInv, Addresses, Addressed
    <3>2. registry' = registry
      BY DEF Handle, history
    <3> QED
      BY <3>1, <3>2 DEF InHand, Known
  <2>4. CallbacksKnown' /\ AcksKnown' /\ OwnMessages' /\ AcknowledgesOwnBatch'
    BY DEF IInv, Addresses, CallbacksKnown, AcksKnown, OwnMessages, AcknowledgesOwnBatch,
           Handle, history
  <2> QED
    BY <2>1, <2>2, <2>3, <2>4 DEF Addresses
<1>7. Connection'
  <2>1. Begun' /\ Answered'
    BY DEF IInv, Connection, Begun, ConnectFirst, Answered, Handle, socketOnly
  <2>2. AtOnce'
    <3>1. \A j \in DOMAIN frames' : frames'[j].command = "CONNECTED"
            => n = 1 /\ j = 1 /\ frames'[j] = in[1][1]
      BY <1>2, <1>4 DEF IInv, Connection, Answered
    <3>2. ~ incall' /\ state' = "open" /\ delivered' > 0
      BY <1>1, <1>2 DEF Handle, socketOnly, n
    <3> QED
      BY <1>2, <3>1, <3>2 DEF AtOnce
  <2>3. delivered > 0 => delivered' > 0
    BY <1>1, <1>2 DEF n
  <2>4. Cleared' /\ SocketUp' /\ BeatsAsAgreed' /\ NoTimersLeft'
    BY <2>3 DEF IInv, Connection, Cleared, SocketUp, BeatsAsAgreed, NoTimersLeft, Handle, socketOnly
  <2> QED
    BY <2>1, <2>2, <2>4 DEF Connection
<1> QED
  BY <1>5, <1>6, <1>7 DEF IInv

\* The frames that wait behind the first one.
LEMMA TailOfFrames ==
    ASSUME InTyped, frames # <<>>
    PROVE  /\ 1 \in DOMAIN frames /\ Head(frames) = frames[1] /\ Head(frames) \in Frames
           /\ Tail(frames) \in Seq(Frames)
           /\ \A j \in DOMAIN Tail(frames) : /\ j + 1 \in DOMAIN frames /\ j + 1 # 1
                                             /\ Tail(frames)[j] = frames[j + 1]
<1>1. frames \in Seq(Frames)
  BY DEF InTyped
<1> QED
  BY <1>1

\* CONNECTED is never among them, and they name known subscriptions.
LEMMA TailKeeps ==
    ASSUME IInv, frames # <<>>, frames' = Tail(frames), registry' = registry
    PROVE  AtOnce' /\ InHand'
<1>1. \A j \in DOMAIN frames' : /\ j + 1 \in DOMAIN frames /\ j + 1 # 1
                                /\ frames'[j] = frames[j + 1]
  BY TailOfFrames DEF IInv, Typed
<1>2. AtOnce'
  BY <1>1 DEF IInv, Connection, AtOnce
<1>3. \A j \in DOMAIN frames' : frames'[j].command = "MESSAGE"
        => Known(frames'[j].subscription, frames'[j].destination)
  BY <1>1 DEF IInv, Addresses, InHand
<1>4. InHand'
  BY <1>3 DEF InHand, Known
<1> QED
  BY <1>2, <1>4

\* What names subscriptions, when frames of a message have been dealt with.
LEMMA AddressesDispatched ==
    ASSUME IInv, InHand', UNCHANGED <<counter, subscriptions, out, in, broker, registry, received>>
    PROVE  Addresses'
<1>1. IdsOnce' /\ NumbersUsed' /\ Registered'
  BY DEF IInv, Addresses, IdsOnce, NumbersUsed, Registered
<1>2. OutKnown' /\ BrokerKnows' /\ Addressed'
  BY DEF IInv, Addresses, OutKnown, BrokerKnows, Addressed, Known
<1>3. CallbacksKnown' /\ AcksKnown' /\ OwnMessages' /\ AcknowledgesOwnBatch'
  BY DEF IInv, Addresses, CallbacksKnown, AcksKnown, OwnMessages, AcknowledgesOwnBatch
<1> QED
  BY <1>1, <1>2, <1>3 DEF Addresses

\* An error tells the page, which may call the client from there.
LEMMA DispatchErrorStep ==
    ASSUME IInv, DispatchError
    PROVE  IInv'
<1>1. AtOnce' /\ InHand'
  BY TailKeeps DEF DispatchError, history
<1>2. Typed'
  <2>1. SocketTyped'
    BY DEF IInv, Typed, SocketTyped, DispatchError, socketOnly, timers, client
  <2>2. InTyped'
    BY TailOfFrames DEF IInv, Typed, InTyped, DispatchError, wire
  <2>3. OutTyped' /\ BrokerTyped' /\ ClientTyped'
    BY DEF IInv, Typed, OutTyped, BrokerTyped, ClientTyped, DispatchError, wire, client, history
  <2> QED
    BY <2>1, <2>2, <2>3 DEF Typed
<1>3. Addresses'
  BY <1>1, AddressesDispatched DEF DispatchError, wire, client, history
<1>4. Connection'
  <2>1. Begun' /\ Answered'
    BY DEF IInv, Connection, Begun, ConnectFirst, Answered, DispatchError, wire, socketOnly
  <2>2. Cleared' /\ SocketUp' /\ BeatsAsAgreed' /\ NoTimersLeft'
    BY DEF IInv, Connection, Cleared, SocketUp, BeatsAsAgreed, NoTimersLeft, DispatchError,
           wire, socketOnly, timers
  <2> QED
    BY <1>1, <2>1, <2>2 DEF Connection
<1> QED
  BY <1>2, <1>3, <1>4 DEF IInv

\* The timers start when CONNECTED is looked at, while the socket is open.
LEMMA DispatchConnectedStep ==
    ASSUME IInv, DispatchConnected
    PROVE  IInv'
<1> DEFINE h == frames[1].heartbeat
<1>1. /\ 1 \in DOMAIN frames /\ Head(frames) = frames[1] /\ frames[1].command = "CONNECTED"
      /\ frames[1] \in Frames
  BY TailOfFrames DEF IInv, Typed, DispatchConnected
<1>2. h.wants \in BOOLEAN /\ h.sends \in BOOLEAN
  BY <1>1, FrameFields, HeartBeatAssumption
<1>3. state = "open" /\ delivered > 0 /\ frames[1] = in[1][1]
  BY <1>1 DEF IInv, Connection, AtOnce
<1>4. AtOnce' /\ InHand'
  BY TailKeeps DEF DispatchConnected, history
<1>5. StartTimers(h.wants, h.sends)
  BY <1>1 DEF DispatchConnected, SetupHeartbeat
<1>6. Typed'
  <2>1. SocketTyped'
    BY DEF IInv, Typed, SocketTyped, DispatchConnected, socketOnly
  <2>2. InTyped'
    BY TailOfFrames DEF IInv, Typed, InTyped, DispatchConnected, wire
  <2>3. OutTyped' /\ BrokerTyped' /\ ClientTyped'
    BY DEF IInv, Typed, OutTyped, BrokerTyped, ClientTyped, DispatchConnected, wire, history
  <2> QED
    BY <2>1, <2>2, <2>3 DEF Typed
<1>7. Addresses'
  BY <1>4, AddressesDispatched DEF DispatchConnected, wire, history
<1>8. Connection'
  <2>1. Begun' /\ Answered'
    BY DEF IInv, Connection, Begun, ConnectFirst, Answered, DispatchConnected, wire, socketOnly
  <2>2. Cleared'
    BY <1>2, <1>3, <1>5 DEF IInv, Connection, Cleared, StartTimers, DispatchConnected, wire
  <2>3. SocketUp' /\ BeatsAsAgreed' /\ NoTimersLeft'
    BY <1>3 DEF IInv, Connection, SocketUp, BeatsAsAgreed, NoTimersLeft, DispatchConnected,
                wire, socketOnly
  <2> QED
    BY <1>4, <2>1, <2>2, <2>3 DEF Connection
<1> QED
  BY <1>6, <1>7, <1>8 DEF IInv

\* The callback that is called was subscribed with the id of the message, and no
\* other was: it is one of the destination.
LEMMA CalledOwn ==
    ASSUME IInv, NEW id \in DOMAIN subscriptions, NEW d, Known(id, d)
    PROVE  /\ subscriptions[id] \in DOMAIN registry
           /\ registry[subscriptions[id]].destination = d
<1>1. subscriptions[id] \in DOMAIN registry /\ registry[subscriptions[id]].id = id
  BY DEF IInv, Addresses, Registered
<1>2. PICK k \in DOMAIN registry : registry[k] = [id |-> id, destination |-> d]
  BY DEF Known
<1>3. registry[k].id = id /\ registry[k].destination = d
  BY <1>2
<1>4. k = subscriptions[id]
  BY <1>1, <1>3 DEF IInv, Addresses, IdsOnce
<1> QED
  BY <1>1, <1>3, <1>4

\* A message is given to the callback of its subscription, or dropped.
LEMMA DispatchMessageStep ==
    ASSUME IInv, DispatchMessage
    PROVE  IInv'
<1> DEFINE frame == frames[1]
           id == frame.subscription
           call == [callback |-> subscriptions[id], destination |-> frame.destination,
                    number |-> frame.number, handler |-> delivered]
           E == [callback : Nat, destination : AllDestinations, number : Nat, handler : Nat]
           n == Len(received)
<1>1. /\ 1 \in DOMAIN frames /\ Head(frames) = frame /\ frame.command = "MESSAGE"
      /\ frame \in Frames
  BY TailOfFrames DEF IInv, Typed, DispatchMessage
<1>2. frame.destination \in AllDestinations /\ frame.number \in Nat
  BY <1>1, FrameFields
<1>3. /\ incall' = (id \in DOMAIN subscriptions)
      /\ received' = IF id \in DOMAIN subscriptions THEN Append(received, call) ELSE received
      /\ frames' = Tail(frames) /\ frames # <<>>
  BY <1>1 DEF DispatchMessage
<1>4. AtOnce' /\ InHand'
  BY TailKeeps DEF DispatchMessage
<1>5. Known(id, frame.destination)
  BY <1>1 DEF IInv, Addresses, InHand
<1>6. id \in DOMAIN subscriptions =>
        /\ call.callback \in DOMAIN registry
        /\ registry[call.callback].destination = call.destination
        /\ call \in E
  <2>1. id \in DOMAIN subscriptions =>
          /\ subscriptions[id] \in DOMAIN registry
          /\ registry[subscriptions[id]].destination = frame.destination
    BY <1>5, CalledOwn
  <2>2. DOMAIN registry \subseteq Nat /\ delivered \in Nat
    BY DEF IInv, Typed, ClientTyped, InTyped
  <2> QED
    BY <1>2, <2>1, <2>2
<1>7. received \in Seq(E) /\ n \in Nat /\ DOMAIN received = 1 .. n
  BY DEF IInv, Typed, ClientTyped
<1> HIDE DEF call, E, n
<1>8. /\ received' \in Seq(E)
      /\ ReceivedGrows
      /\ \A i \in DOMAIN received' :
           \/ i \in DOMAIN received /\ received'[i] = received[i]
           \/ id \in DOMAIN subscriptions /\ received'[i] = call
  <2>1. CASE id \in DOMAIN subscriptions
    <3>1. received' = Append(received, call) /\ call \in E
      BY <1>3, <1>6, <2>1
    <3>2. /\ received' \in Seq(E) /\ DOMAIN received' = 1 .. n + 1
          /\ \A i \in 1 .. n : received'[i] = received[i]
          /\ received'[n + 1] = call
      BY <1>7, <3>1 DEF n
    <3> QED
      BY <1>7, <2>1, <3>2 DEF ReceivedGrows
  <2>2. CASE id \notin DOMAIN subscriptions
    BY <1>3, <1>7, <2>2 DEF ReceivedGrows
  <2> QED
    BY <2>1, <2>2
<1>9. Typed'
  <2>1. SocketTyped'
    BY <1>3 DEF IInv, Typed, SocketTyped, DispatchMessage, socketOnly, timers, client
  <2>2. InTyped'
    BY <1>3, TailOfFrames DEF IInv, Typed, InTyped, DispatchMessage, wire
  <2>3. ClientTyped'
    BY <1>8 DEF IInv, Typed, ClientTyped, DispatchMessage, client, E
  <2>4. OutTyped' /\ BrokerTyped'
    BY DEF IInv, Typed, OutTyped, BrokerTyped, DispatchMessage, wire
  <2> QED
    BY <2>1, <2>2, <2>3, <2>4 DEF Typed
<1>10. Addresses'
  <2> DEFINE f == [command |-> "SEND"]
  <2>1. OutGrows(f)
    BY NothingSent DEF IInv, Typed, DispatchMessage, wire
  <2>2. SentAgrees(f)
    BY DEF SentAgrees
  <2> HIDE DEF f
  <2>3. RegistryGrows
    BY DEF RegistryGrows, DispatchMessage
  <2>4. OutKnown' /\ AcksKnown' /\ AcknowledgesOwnBatch'
    BY <1>8, <2>1, <2>2, <2>3, SentStays DEF IInv, Typed
  <2>5. IdsOnce' /\ NumbersUsed' /\ Registered' /\ BrokerKnows' /\ Addressed'
    BY DEF IInv, Addresses, IdsOnce, NumbersUsed, Registered, BrokerKnows, Addressed, Known,
           DispatchMessage, wire, client
  <2>6. CallbacksKnown' /\ OwnMessages'
    BY <1>6, <1>8 DEF IInv, Addresses, CallbacksKnown, OwnMessages, DispatchMessage
  <2> QED
    BY <1>4, <2>4, <2>5, <2>6 DEF Addresses
<1>11. Connection'
  <2>1. Begun' /\ Answered'
    BY DEF IInv, Connection, Begun, ConnectFirst, Answered, DispatchMessage, wire, socketOnly
  <2>2. Cleared' /\ SocketUp' /\ BeatsAsAgreed' /\ NoTimersLeft'
    BY DEF IInv, Connection, Cleared, SocketUp, BeatsAsAgreed, NoTimersLeft, DispatchMessage,
           wire, socketOnly, timers
  <2> QED
    BY <1>4, <2>1, <2>2 DEF Connection
<1> QED
  BY <1>9, <1>10, <1>11 DEF IInv

-----------------------------------------------------------------------------
(***************************************************************************)
(* The broker.                                                             *)
(***************************************************************************)
\* What no step of the broker but the arrival of a frame touches.
ElsewhereKept == UNCHANGED <<socketOnly, out, delivered, handling, timers, client, history>>

\* What names subscriptions, when the broker sends frame f.
LEMMA AddressesPublished ==
    ASSUME IInv, ElsewhereKept, NEW f, in' = in \/ InGrows(f), BrokerKnows',
           f.command = "MESSAGE" => Known(f.subscription, f.destination)
    PROVE  Addresses'
<1>1. RegistryGrows
  BY DEF RegistryGrows, ElsewhereKept, history
<1>2. Addressed'
  BY <1>1, AddressedStays DEF IInv
<1>3. IdsOnce' /\ NumbersUsed' /\ Registered'
  BY DEF IInv, Addresses, IdsOnce, NumbersUsed, Registered, ElsewhereKept, client, history
<1>4. OutKnown' /\ InHand'
  BY DEF IInv, Addresses, OutKnown, InHand, Known, ElsewhereKept, handling, history
<1>5. CallbacksKnown' /\ AcksKnown' /\ OwnMessages' /\ AcknowledgesOwnBatch'
  BY DEF IInv, Addresses, CallbacksKnown, AcksKnown, OwnMessages, AcknowledgesOwnBatch,
         ElsewhereKept, history
<1> QED
  BY <1>2, <1>3, <1>4, <1>5 DEF Addresses

\* A frame after CONNECTED.
LEMMA BrokerSends ==
    ASSUME IInv, ElsewhereKept, NEW f \in Frames, InGrows(f), in # <<>>, f.command # "CONNECTED",
           f.command = "MESSAGE" => Known(f.subscription, f.destination),
           arrived' = arrived, BrokerTyped', BrokerKnows',
           broker'.session = "none" <=> broker.session = "none"
    PROVE  IInv'
<1>1. Typed'
  <2>1. SocketTyped'
    BY DEF IInv, Typed, SocketTyped, ElsewhereKept, socketOnly, handling, timers, client
  <2>2. InTyped'
    <3>1. Len(in) \in Nat /\ Len(in') \in Nat /\ delivered \in 0 .. Len(in) /\ Len(in) <= Len(in')
      BY DEF IInv, Typed, InTyped, InGrows
    <3>2. delivered' \in 0 .. Len(in')
      BY <3>1 DEF ElsewhereKept
    <3> QED
      BY <3>2 DEF IInv, Typed, InTyped, InGrows, ElsewhereKept, handling
  <2>3. OutTyped' /\ ClientTyped'
    BY DEF IInv, Typed, OutTyped, ClientTyped, ElsewhereKept, client, history
  <2> QED
    BY <2>1, <2>2, <2>3 DEF Typed
<1>2. Addresses'
  BY AddressesPublished
<1>3. Connection'
  <2>1. in' # <<>> /\ in'[1][1] = in[1][1]
    BY DEF InGrows
  <2>2. Begun'
    BY DEF IInv, Connection, Begun, ConnectFirst, ElsewhereKept, socketOnly
  <2>3. Answered'
    <3>1. \A i \in DOMAIN in' : \A j \in DOMAIN in'[i] :
            in'[i][j].command = "CONNECTED" => i = 1 /\ j = 1
      BY DEF IInv, Connection, Answered, InGrows
    <3> QED
      BY <2>1, <3>1 DEF IInv, Connection, Answered
  <2>4. AtOnce'
    BY <2>1 DEF IInv, Connection, AtOnce, ElsewhereKept, socketOnly, handling
  <2>5. Cleared' /\ SocketUp' /\ BeatsAsAgreed' /\ NoTimersLeft'
    BY <2>1 DEF IInv, Connection, Cleared, SocketUp, BeatsAsAgreed, NoTimersLeft,
                ElsewhereKept, socketOnly, timers
  <2> QED
    BY <2>2, <2>3, <2>4, <2>5 DEF Connection
<1> QED
  BY <1>1, <1>2, <1>3 DEF IInv

\* While it has a session, it has answered CONNECT.
LEMMA InSession ==
    ASSUME IInv, broker.session # "none"
    PROVE  in # <<>> /\ arrived # 0
  BY DEF IInv, Connection, Answered

\* A message of the broker names a subscription it knows.
LEMMA BrokerPublishesStep ==
    ASSUME IInv, BrokerPublishes
    PROVE  IInv'
<1>1. PICK id \in DOMAIN broker.subs : Emit(Message(id, broker.subs[id], Published + 1))
  BY DEF BrokerPublishes
<1> DEFINE f == Message(id, broker.subs[id], Published + 1)
<1>2. Known(id, broker.subs[id])
  BY DEF IInv, Addresses, BrokerKnows
<1>3. id \in FrameIds /\ broker.subs[id] \in AllDestinations
  <2>1. PICK k \in DOMAIN registry : registry[k] = [id |-> id, destination |-> broker.subs[id]]
    BY <1>2 DEF Known
  <2>2. registry[k].id = id /\ registry[k].destination = broker.subs[id]
    BY <2>1
  <2> QED
    BY <2>2, RegisteredIds DEF IInv, Typed
<1>4. f \in Frames
  <2>1. Published \in Nat
    BY PublishedIsNumber DEF IInv, Typed
  <2> QED
    BY <1>3, <2>1, BrokersFrames
<1>5. f.command = "MESSAGE" /\ f.subscription = id /\ f.destination = broker.subs[id]
  BY DEF Message
<1>6. Emit(f)
  BY <1>1
<1> HIDE DEF f
<1>7. InGrows(f)
  BY <1>4, <1>6, Emitted DEF IInv, Typed
<1>8. ElsewhereKept /\ broker' = broker /\ arrived' = arrived
  BY DEF BrokerPublishes, ElsewhereKept
<1>9. BrokerTyped' /\ BrokerKnows'
  BY <1>8 DEF IInv, Typed, BrokerTyped, Addresses, BrokerKnows, Known, ElsewhereKept, history
<1> QED
  BY <1>2, <1>4, <1>5, <1>7, <1>8, <1>9, InSession, BrokerSends DEF BrokerPublishes

\* A heart-beat of the broker names nothing.
LEMMA BrokerBeatsStep ==
    ASSUME IInv, BrokerBeats
    PROVE  IInv'
<1>1. Pong \in Frames /\ Pong.command = "LF"
  BY BrokersFrames DEF Pong
<1>2. InGrows(Pong)
  BY <1>1, SentAlone DEF IInv, Typed, BrokerBeats
<1>3. ElsewhereKept /\ broker' = broker /\ arrived' = arrived
  BY DEF BrokerBeats, ElsewhereKept
<1>4. BrokerTyped' /\ BrokerKnows'
  BY <1>3 DEF IInv, Typed, BrokerTyped, Addresses, BrokerKnows, Known, ElsewhereKept, history
<1> QED
  BY <1>1, <1>2, <1>3, <1>4, InSession, BrokerSends DEF BrokerBeats

\* Nor does an error, after which the broker says no more.
LEMMA BrokerRefusesStep ==
    ASSUME IInv, BrokerRefuses
    PROVE  IInv'
<1>1. ErrorFrame \in Frames /\ ErrorFrame.command = "ERROR"
  BY BrokersFrames DEF ErrorFrame
<1>2. InGrows(ErrorFrame)
  BY <1>1, Emitted DEF IInv, Typed, BrokerRefuses
<1>3. ElsewhereKept /\ arrived' = arrived
  BY DEF BrokerRefuses, ElsewhereKept
<1>4. broker'.session = "gone" /\ broker'.subs = broker.subs /\ BrokerTyped'
  BY DEF IInv, Typed, BrokerTyped, BrokerRefuses
<1>5. BrokerKnows'
  BY <1>3, <1>4 DEF IInv, Addresses, BrokerKnows, Known, ElsewhereKept, history
<1> QED
  BY <1>1, <1>2, <1>3, <1>4, <1>5, InSession, BrokerSends DEF BrokerRefuses

\* The next frame of the client that the broker takes.
NextOut == out[arrived + 1]

\* It is CONNECT when it is the first one.
LEMMA TakenFirst ==
    ASSUME IInv, BrokerGets
    PROVE  /\ arrived + 1 \in DOMAIN out /\ arrived \in Nat
           /\ NextOut.command = "CONNECT" <=> arrived = 0
  BY DEF BrokerGets, NextOut, IInv, Typed, OutTyped, Connection, Begun, ConnectFirst

\* CONNECT is answered at once, and with the first frame of all.
LEMMA BrokerConnects ==
    ASSUME IInv, BrokerGets, NextOut.command = "CONNECT"
    PROVE  IInv'
<1>1. arrived = 0 /\ arrived' = 1 /\ in = <<>> /\ delivered = 0 /\ ElsewhereKept
  <2>1. arrived = 0
    BY TakenFirst
  <2>2. arrived' = 1 /\ ElsewhereKept
    BY <2>1 DEF BrokerGets, ElsewhereKept
  <2>3. in = <<>>
    BY <2>1 DEF IInv, Connection, Answered
  <2>4. delivered = 0
    BY <2>3 DEF IInv, Typed, InTyped
  <2> QED
    BY <2>1, <2>2, <2>3, <2>4
<1>2. PICK h \in HeartBeats : in' = Append(in, <<Connected(h)>>)
  BY <1>1 DEF BrokerGets, NextOut
<1> DEFINE f == Connected(h)
<1>3. f \in Frames /\ f.command = "CONNECTED" /\ in' = Append(in, <<f>>)
  BY <1>2, BrokersFrames DEF Connected
<1> HIDE DEF f
<1>4. InGrows(f)
  BY <1>3, SentAlone DEF IInv, Typed
<1>5. /\ DOMAIN in' = {1} /\ Len(in') = 1 /\ in' # <<>>
      /\ DOMAIN in'[1] = {1} /\ in'[1][1] = f
  <2> DEFINE single == <<f>>
  <2>1. DOMAIN single = {1} /\ single[1] = f
    OBVIOUS
  <2>2. in' = <<single>>
    BY <1>1, <1>3
  <2> HIDE DEF single
  <2> QED
    BY <2>1, <2>2
<1>6. broker'.session = "connected" /\ broker'.subs = broker.subs /\ BrokerTyped'
  BY <1>1 DEF BrokerGets, NextOut, IInv, Typed, BrokerTyped
<1>7. Typed'
  <2>1. SocketTyped'
    BY <1>1 DEF IInv, Typed, SocketTyped, ElsewhereKept, socketOnly, handling, timers, client
  <2>2. InTyped'
    BY <1>1, <1>4, <1>5 DEF IInv, Typed, InTyped, InGrows, ElsewhereKept, handling
  <2>3. OutTyped'
    BY <1>1, TakenFirst DEF IInv, Typed, OutTyped, ElsewhereKept
  <2>4. ClientTyped'
    BY <1>1 DEF IInv, Typed, ClientTyped, ElsewhereKept, client, history
  <2> QED
    BY <1>6, <2>1, <2>2, <2>3, <2>4 DEF Typed
<1>8. Addresses'
  <2>1. BrokerKnows'
    BY <1>1, <1>6 DEF IInv, Addresses, BrokerKnows, Known, ElsewhereKept, history
  <2> QED
    BY <1>1, <1>3, <1>4, <2>1, AddressesPublished
<1>9. Connection'
  <2>1. Begun'
    BY <1>1 DEF IInv, Connection, Begun, ConnectFirst, ElsewhereKept, socketOnly
  <2>2. Answered'
    BY <1>1, <1>3, <1>5, <1>6 DEF Answered
  <2>3. AtOnce'
    BY <1>1 DEF IInv, Connection, AtOnce, ElsewhereKept, handling
  <2>4. Cleared' /\ SocketUp' /\ BeatsAsAgreed' /\ NoTimersLeft'
    BY <1>1 DEF IInv, Connection, Cleared, SocketUp, BeatsAsAgreed, NoTimersLeft,
                ElsewhereKept, socketOnly, timers
  <2> QED
    BY <2>1, <2>2, <2>3, <2>4 DEF Connection
<1> QED
  BY <1>7, <1>8, <1>9 DEF IInv

\* Of the other frames it only remembers which subscriptions there are.
LEMMA BrokerTakes ==
    ASSUME IInv, BrokerGets, NextOut.command # "CONNECT"
    PROVE  IInv'
<1>1. arrived \in Nat /\ arrived # 0 /\ arrived' = arrived + 1 /\ ElsewhereKept /\ arrived' \in DOMAIN out
  BY TakenFirst DEF BrokerGets, ElsewhereKept
<1>2. broker.session # "none" /\ in # <<>>
  BY <1>1 DEF IInv, Connection, Answered
<1>3. in' = in
  BY <1>1 DEF BrokerGets, NextOut
<1>4. \/ broker' = broker
      \/ /\ NextOut.command = "SUBSCRIBE"
         /\ broker' = [broker EXCEPT !.subs = With(@, NextOut.id, NextOut.destination)]
      \/ broker' = [broker EXCEPT !.subs = [id \in DOMAIN @ \ {NextOut.id} |-> @[id]]]
      \/ broker' = [broker EXCEPT !.session = "gone"]
  BY <1>1 DEF BrokerGets, NextOut
<1>5. broker = [session |-> broker.session, subs |-> broker.subs]
      /\ broker.session \in {"none", "connected", "gone"}
  BY DEF IInv, Typed, BrokerTyped
<1>6. BrokerTyped' /\ broker'.session # "none"
  BY <1>2, <1>4, <1>5 DEF BrokerTyped
<1>7. BrokerKnows'
  <2> SUFFICES ASSUME NEW id \in DOMAIN broker'.subs
               PROVE  KnownThen(id, broker'.subs[id])
    BY DEF BrokerKnows, Known, KnownThen
  <2>1. Known(id, broker'.subs[id])
    <3>1. \A i \in DOMAIN broker.subs : Known(i, broker.subs[i])
      BY DEF IInv, Addresses, BrokerKnows
    <3>2. CASE broker' = broker \/ broker' = [broker EXCEPT !.session = "gone"]
      BY <1>5, <3>1, <3>2
    <3>3. CASE /\ NextOut.command = "SUBSCRIBE"
               /\ broker' = [broker EXCEPT !.subs = With(@, NextOut.id, NextOut.destination)]
      <4>1. broker'.subs = With(broker.subs, NextOut.id, NextOut.destination)
        BY <1>5, <3>3
      <4>2. Known(NextOut.id, NextOut.destination)
        BY <1>1, <3>3 DEF IInv, Addresses, OutKnown, NextOut
      <4>3. \/ id = NextOut.id /\ broker'.subs[id] = NextOut.destination
            \/ id \in DOMAIN broker.subs /\ broker'.subs[id] = broker.subs[id]
        BY <4>1 DEF With
      <4> QED
        BY <3>1, <4>2, <4>3
    <3>4. CASE broker' = [broker EXCEPT !.subs = [i \in DOMAIN @ \ {NextOut.id} |-> @[i]]]
      <4>1. broker'.subs = [i \in DOMAIN broker.subs \ {NextOut.id} |-> broker.subs[i]]
        BY <1>5, <3>4
      <4> QED
        BY <3>1, <4>1
    <3> QED
      BY <1>4, <3>2, <3>3, <3>4
  <2> QED
    BY <1>1, <2>1, KnownStays DEF RegistryGrows, ElsewhereKept, history
<1>8. Typed'
  <2>1. SocketTyped'
    BY <1>1 DEF IInv, Typed, SocketTyped, ElsewhereKept, socketOnly, handling, timers, client
  <2>2. InTyped'
    BY <1>1, <1>3 DEF IInv, Typed, InTyped, ElsewhereKept, handling
  <2>3. OutTyped'
    BY <1>1 DEF IInv, Typed, OutTyped, ElsewhereKept
  <2>4. ClientTyped'
    BY <1>1 DEF IInv, Typed, ClientTyped, ElsewhereKept, client, history
  <2> QED
    BY <1>6, <2>1, <2>2, <2>3, <2>4 DEF Typed
<1>9. Addresses'
  BY <1>1, <1>3, <1>7, BrokersFrames, AddressesPublished DEF ErrorFrame
<1>10. Connection'
  <2>1. Begun'
    BY <1>1 DEF IInv, Connection, Begun, ConnectFirst, ElsewhereKept, socketOnly
  <2>2. Answered'
    BY <1>1, <1>2, <1>3, <1>6 DEF IInv, Connection, Answered
  <2>3. AtOnce'
    BY <1>1, <1>3 DEF IInv, Connection, AtOnce, ElsewhereKept, socketOnly, handling
  <2>4. Cleared' /\ SocketUp' /\ BeatsAsAgreed' /\ NoTimersLeft'
    BY <1>1, <1>3 DEF IInv, Connection, Cleared, SocketUp, BeatsAsAgreed, NoTimersLeft,
                      ElsewhereKept, socketOnly, timers
  <2> QED
    BY <2>1, <2>2, <2>3, <2>4 DEF Connection
<1> QED
  BY <1>8, <1>9, <1>10 DEF IInv

-----------------------------------------------------------------------------
(***************************************************************************)
(* The theorems.                                                           *)
(***************************************************************************)
\* At first nothing was called, sent or registered.
LEMMA Initially == Init => IInv
<1> SUFFICES ASSUME Init PROVE IInv
  OBVIOUS
<1>1. Typed
  <2>1. SocketTyped /\ BrokerTyped
    BY DEF Init, SocketTyped, BrokerTyped
  <2>2. OutTyped /\ InTyped
    BY DEF Init, OutTyped, InTyped
  <2>3. ClientTyped
    BY StompBoundsAssumption DEF Init, ClientTyped
  <2> QED
    BY <2>1, <2>2, <2>3 DEF Typed
<1>2. Addresses
  BY DEF Init, Addresses, IdsOnce, NumbersUsed, Registered, OutKnown, BrokerKnows, Addressed,
         InHand, CallbacksKnown, AcksKnown, OwnMessages, AcknowledgesOwnBatch
<1>3. Connection
  BY DEF Init, Connection, Begun, ConnectFirst, Answered, AtOnce, Cleared, SocketUp,
         BeatsAsAgreed, NoTimersLeft
<1> QED
  BY <1>1, <1>2, <1>3 DEF IInv

\* Every step of the client, the page, the socket and the broker keeps the invariant.
LEMMA Stepwise == IInv /\ [Next]_vars => IInv'
<1> SUFFICES ASSUME IInv, [Next]_vars PROVE IInv'
  OBVIOUS
<1>1. CASE SocketOpens \/ SocketLost \/ CloseFires
  BY <1>1, SocketOpensStep, SocketLostStep, CloseFiresStep
<1>2. CASE Calls
  <2>1. ASSUME NEW d \in Destinations, Subscribe(d) PROVE IInv'
    BY <2>1, SubscribeStep
  <2>2. ASSUME NEW u \in UserIds, SubscribeAs(u) PROVE IInv'
    BY <2>2, SubscribeAsStep
  <2>3. ASSUME NEW k \in DOMAIN registry, Unsubscribe(k) PROVE IInv'
    BY <2>3, UnsubscribeStep
  <2>4. CASE SendTo \/ Begin \/ End("COMMIT") \/ End("ABORT") \/ Disconnect
    BY <2>4, SendToStep, BeginStep, EndStep, DisconnectStep
  <2>5. ASSUME NEW k \in DOMAIN received, Acknowledge("ACK", k) \/ Acknowledge("NACK", k)
        PROVE  IInv'
    BY <2>5, AcknowledgeStep
  <2> QED
    BY <1>2, <2>1, <2>2, <2>3, <2>4, <2>5 DEF Calls
<1>3. CASE Handle \/ Dispatch
  BY <1>3, HandleStep, DispatchConnectedStep, DispatchMessageStep, DispatchErrorStep DEF Dispatch
<1>4. CASE Ping \/ CheckPong
  BY <1>4, PingStep, CheckPongStep
<1>5. CASE BrokerGets
  BY <1>5, BrokerConnects, BrokerTakes
<1>6. CASE Broker
  BY <1>6, BrokerPublishesStep, BrokerBeatsStep, BrokerGetsBeatStep, BrokerRefusesStep DEF Broker
<1>7. CASE UNCHANGED vars
  BY <1>7, StutterStep
<1> QED
  BY <1>1, <1>2, <1>3, <1>4, <1>5, <1>6, <1>7 DEF Next

\* The invariant holds in every state of the client, its socket and the broker.
LEMMA Inductive == Spec => []IInv
  BY Initially, Stepwise, PTL DEF Spec

\* The client's variables stay what they are taken for: what is subscribed was
\* registered, and what was read is no more than was sent.
THEOREM TypeCorrect == Spec => []TypeOK
<1>1. IInv => TypeOK
  <2> SUFFICES ASSUME IInv PROVE TypeOK
    OBVIOUS
  <2>1. counter \in 0 .. MaxCalls
    BY StompBoundsAssumption DEF IInv, Typed, ClientTyped
  <2>2. /\ DOMAIN subscriptions \subseteq {registry[k].id : k \in DOMAIN registry}
        /\ \A id \in DOMAIN subscriptions : subscriptions[id] \in DOMAIN registry
    BY DEF IInv, Addresses, Registered
  <2>3. broker.session \in {"none", "connected", "gone"}
    BY DEF IInv, Typed, BrokerTyped
  <2> QED
    BY <2>1, <2>2, <2>3
       DEF TypeOK, IInv, Typed, SocketTyped, OutTyped, InTyped, ClientTyped, Connection, Cleared
<1> QED
  BY <1>1, Inductive, PTL

\* connect's message handler gives a message to the callback that was subscribed
\* to its destination, and ack and nack name a message of the same handler,
\* whatever the page cancels, makes anew or calls from a callback.
THEOREM MessagesAlwaysOwn == Spec => []MessagesAreOwn
<1>1. IInv => MessagesAreOwn
  BY DEF IInv, Addresses, MessagesAreOwn
<1> QED
  BY <1>1, Inductive, PTL

\* CONNECT is the first frame and is sent once, heart-beats go only to a broker
\* that asked for them in its CONNECTED, and _cleanUp leaves no timer running.
THEOREM ProtocolAlwaysKept == Spec => []ProtocolKept
<1>1. IInv => ProtocolKept
  BY DEF IInv, Connection, Begun, ProtocolKept
<1> QED
  BY <1>1, Inductive, PTL
-----------------------------------------------------------------------------
(***************************************************************************)
(* The pieces of a text.                                                   *)
(***************************************************************************)
LEMMA Multiples ==
  ASSUME NEW j \in Int, NEW k \in Int, NEW max \in Nat, j <= k
  PROVE  j * max \in Int /\ k * max \in Int /\ j * max <= k * max
           /\ (k - 1) * max = k * max - max
OBVIOUS

\* How many pieces there are.
LEMMA PieceCount ==
  ASSUME NEW n \in Nat, NEW max \in Nat \ {0}, NEW count, count = (n + max - 1) \div max
  PROVE  count \in Nat /\ (count - 1) * max < n /\ n <= count * max
<1>1. n + max - 1 \in Nat
  OBVIOUS
<1> DEFINE m == n + max - 1
<1>2. m \in Nat /\ count = m \div max
  BY <1>1
<1> HIDE DEF m
<1>3. count \in Int /\ count * max <= m /\ m < count * max + max
  BY <1>2
<1>4. count >= 0
  <2> SUFFICES ASSUME count <= -1 PROVE FALSE
    BY <1>3
  <2>1. count * max <= (-1) * max
    BY <1>3, Multiples
  <2> QED
    BY <1>2, <1>3, <2>1
<1>5. (count - 1) * max = count * max - max /\ count * max \in Int
  BY <1>3, Multiples
<1> QED
  BY <1>3, <1>4, <1>5 DEF m

\* A part of a sequence and the part that follows it are one part.
LEMMA PartsJoined ==
  ASSUME NEW T, NEW s \in Seq(T), NEW m \in Nat, NEW k \in 1 .. Len(s), m < k
  PROVE  SubSeq(s, 1, m) \o SubSeq(s, m + 1, k) = SubSeq(s, 1, k)
<1> DEFINE one == SubSeq(s, 1, m)
           two == SubSeq(s, m + 1, k)
           both == SubSeq(s, 1, k)
<1>1. Len(s) \in Nat
  OBVIOUS
<1>2. one \in Seq(T) /\ Len(one) = m /\ \A i \in 1 .. m : one[i] = s[i]
  BY <1>1
<1>3. two \in Seq(T) /\ Len(two) = k - m /\ \A i \in 1 .. k - m : two[i] = s[m + i]
  BY <1>1
<1>4. both \in Seq(T) /\ Len(both) = k /\ \A i \in 1 .. k : both[i] = s[i]
  BY <1>1
<1> HIDE DEF one, two, both
<1>5. one \o two \in Seq(T) /\ Len(one \o two) = k
  <2>1. one \o two \in Seq(T)
    BY <1>2, <1>3
  <2>2. Len(one \o two) = Len(one) + Len(two)
    BY <1>2, <1>3
  <2>3. m + (k - m) = k
    BY <1>1
  <2> QED
    BY <1>2, <1>3, <2>1, <2>2, <2>3
<1>6. \A i \in 1 .. k : (one \o two)[i] = both[i]
  <2> TAKE i \in 1 .. k
  <2>3. i \in Nat /\ k \in Nat /\ 1 <= i /\ i <= k
    BY <1>1
  <2>1. CASE i <= m
    <3>1. i \in 1 .. Len(one) /\ i \in 1 .. m
      BY <1>2, <2>1, <2>3
    <3>2. (one \o two)[i] = one[i]
      BY <1>2, <1>3, <3>1
    <3> QED
      BY <1>2, <1>4, <3>1, <3>2
  <2>2. CASE ~ (i <= m)
    <3>1. (one \o two)[i] = two[i - m]
      <4>1. i \in Len(one) + 1 .. Len(one) + Len(two)
        BY <1>2, <1>3, <2>2, <2>3
      <4> QED
        BY <1>2, <1>3, <4>1
    <3>2. i - m \in 1 .. k - m /\ m + (i - m) = i
      BY <2>2, <2>3
    <3> QED
      BY <1>3, <1>4, <3>1, <3>2
  <2> QED
    BY <2>1, <2>2, <2>3
<1>7. one \o two = both
  BY <1>4, <1>5, <1>6
<1> QED
  BY <1>7 DEF one, two, both

\* The first k pieces are the text as far as they go.
LEMMA PiecesTogether ==
  ASSUME NEW text \in Seq(Int), NEW max \in Nat \ {0}
  PROVE  LET pieces == Transmitted(text, max)
         IN  /\ FlattenSeq(pieces) = text
             /\ \A i \in DOMAIN pieces : Len(pieces[i]) \in 1 .. max
<1> DEFINE n == Len(text)
           pieces == Transmitted(text, max)
           count == (n + max - 1) \div max
           end(k) == IF k * max < n THEN k * max ELSE n
           step(f, k) == IF k = 1 THEN pieces[k] ELSE f[k - 1] \o pieces[k]
           upTo == [k \in 1 .. count |-> SubSeq(text, 1, end(k))]
<1>1. n \in Nat
  OBVIOUS
<1>2. count \in Nat /\ (count - 1) * max < n /\ n <= count * max
  <2> HIDE DEF n
  <2> QED
    BY <1>1, PieceCount
<1>3. /\ pieces = [k \in 1 .. count |-> SubSeq(text, (k - 1) * max + 1, end(k))]
      /\ DOMAIN pieces = 1 .. count
  BY DEF Transmitted
<1> HIDE DEF pieces, count
<1>4. Len(pieces) = count
  BY <1>2, <1>3
<1>5. ASSUME NEW k \in 1 .. count
      PROVE  /\ (k - 1) * max \in Nat /\ (k - 1) * max < n /\ (k - 1) * max < end(k) /\ end(k) \in 1 .. n
             /\ end(k) <= (k - 1) * max + max
  <2>1. k \in Int /\ k >= 1 /\ k <= count /\ k - 1 <= count - 1 /\ 0 <= k - 1
    BY <1>2
  <2>2. (k - 1) * max <= (count - 1) * max /\ 0 * max <= (k - 1) * max /\ (k - 1) * max \in Int
    BY <1>2, <2>1, Multiples
  <2>3. (k - 1) * max = k * max - max /\ k * max \in Int
    BY <2>1, Multiples
  <2>4. (count - 1) * max \in Int /\ 0 * max = 0
    BY <1>2
  <2>5. end(k) = IF k * max < n THEN k * max ELSE n
    OBVIOUS
  <2> HIDE DEF end
  <2> DEFINE a == (k - 1) * max
             b == k * max
             c == (count - 1) * max
  <2>6. a \in Int /\ b \in Int /\ c \in Int /\ a <= c /\ 0 <= a /\ a = b - max /\ c < n
        /\ end(k) = IF b < n THEN b ELSE n
    BY <1>2, <2>2, <2>3, <2>4, <2>5
  <2> HIDE DEF a, b, c, n
  <2>7. a \in Nat /\ a < n /\ a < end(k) /\ end(k) \in 1 .. n /\ end(k) <= a + max
    BY <1>1, <2>6
  <2> QED
    BY <2>7 DEF a
<1>6. ASSUME NEW k \in 1 .. count
      PROVE  pieces[k] = SubSeq(text, (k - 1) * max + 1, end(k)) /\ Len(pieces[k]) \in 1 .. max
  <2> DEFINE a == (k - 1) * max
             e == end(k)
  <2>1. pieces[k] = SubSeq(text, a + 1, e)
    BY <1>3
  <2>2. a \in Nat /\ a < e /\ e \in 1 .. n /\ e <= a + max
    BY <1>5
  <2> HIDE DEF a, end
  <2>3. Len(pieces[k]) = e - a
    BY <2>1, <2>2
  <2> QED
    BY <1>1, <2>1, <2>2, <2>3 DEF a
<1>7. upTo = [k \in 1 .. count |-> step(upTo, k)]
  <2>1. ASSUME NEW k \in 1 .. count PROVE SubSeq(text, 1, end(k)) = step(upTo, k)
    <3>1. CASE k = 1
      <4>1. (1 - 1) * max + 1 = 1
        OBVIOUS
      <4> QED
        BY <1>6, <3>1, <4>1
    <3>2. CASE k # 1
      <4>1. k - 1 \in 1 .. count /\ step(upTo, k) = upTo[k - 1] \o pieces[k]
        <5>1. k - 1 \in 1 .. count
          BY <1>2, <3>2
        <5> HIDE DEF upTo
        <5>2. step(upTo, k) = upTo[k - 1] \o pieces[k]
          BY <3>2
        <5> QED
          BY <5>1, <5>2
      <4>2. end(k - 1) = (k - 1) * max
        <5> DEFINE a == (k - 1) * max
        <5>1. a < n
          BY <1>5
        <5> HIDE DEF a
        <5>2. end(k - 1) = IF a < n THEN a ELSE n
          BY DEF a
        <5> QED
          BY <5>1, <5>2 DEF a
      <4> DEFINE a == (k - 1) * max
                 e == end(k)
      <4>3. a \in Nat /\ a < e /\ e \in 1 .. n
        BY <1>5
      <4>4. upTo[k - 1] = SubSeq(text, 1, a) /\ pieces[k] = SubSeq(text, a + 1, e)
        BY <1>6, <4>1, <4>2
      <4> HIDE DEF upTo, a, e, end, step
      <4>5. SubSeq(text, 1, a) \o SubSeq(text, a + 1, e) = SubSeq(text, 1, e)
        BY <4>3, PartsJoined DEF n
      <4> QED
        BY <4>1, <4>4, <4>5 DEF e
    <3> QED
      BY <3>1, <3>2
  <2> HIDE DEF step
  <2> QED
    BY <2>1
<1> DEFINE IsFlat(f) == f = [k \in 1 .. count |-> step(f, k)]
           flat == CHOOSE f : IsFlat(f)
<1>8. IsFlat(flat)
  <2>1. IsFlat(upTo)
    BY <1>7
  <2> HIDE DEF IsFlat
  <2> QED
    BY <2>1
<1>9. FlattenSeq(pieces) = IF count = 0 THEN pieces ELSE flat[count]
  BY <1>4 DEF FlattenSeq
<1> HIDE DEF flat
<1>10. \A k \in 1 .. count : flat[k] = step(flat, k) /\ upTo[k] = step(upTo, k)
  BY <1>7, <1>8
<1> HIDE DEF upTo
<1> DEFINE K == {k \in 0 .. count : k # 0 => flat[k] = upTo[k]}
<1>11. 0 \in K
  BY <1>2
<1>12. \A k \in 0 .. count - 1 : k \in K => k + 1 \in K
  <2> TAKE k \in 0 .. count - 1
  <2> SUFFICES ASSUME k \in K PROVE flat[k + 1] = upTo[k + 1]
    BY <1>2
  <2>1. k + 1 \in 1 .. count /\ (k + 1) - 1 = k
    BY <1>2
  <2>2. flat[k + 1] = step(flat, k + 1) /\ upTo[k + 1] = step(upTo, k + 1)
    BY <1>10, <2>1
  <2>3. k # 0 => flat[k] = upTo[k]
    OBVIOUS
  <2>4. step(flat, k + 1) = step(upTo, k + 1)
    BY <2>1, <2>3
  <2> QED
    BY <2>2, <2>4
<1>13. count \in K
  <2> HIDE DEF K
  <2>1. 0 .. count \subseteq K
    BY <1>2, <1>11, <1>12, InductionTo
  <2> QED
    BY <1>2, <2>1
<1>14. FlattenSeq(pieces) = text
  <2>1. CASE count = 0
    <3>1. n = 0
      <4>1. 0 * max = 0
        OBVIOUS
      <4> QED
        BY <1>1, <1>2, <2>1, <4>1
    <3>2. text = <<>> /\ pieces = <<>>
      BY <1>3, <2>1, <3>1
    <3> QED
      BY <1>9, <2>1, <3>2
  <2>2. CASE count # 0
    <3>1. count \in 1 .. count /\ flat[count] = upTo[count]
      BY <1>2, <1>13, <2>2
    <3>2. upTo[count] = SubSeq(text, 1, end(count))
      BY <3>1 DEF upTo
    <3>3. end(count) = n
      <4> DEFINE b == count * max
      <4>1. b \in Int /\ n <= b
        BY <1>2
      <4> HIDE DEF b
      <4>2. end(count) = IF b < n THEN b ELSE n
        BY DEF b
      <4> QED
        BY <1>1, <4>1, <4>2
    <3>4. SubSeq(text, 1, n) = text
      OBVIOUS
    <3> HIDE DEF end, n
    <3> QED
      BY <1>9, <2>2, <3>1, <3>2, <3>3, <3>4
  <2> QED
    BY <2>1, <2>2
<1> QED
  BY <1>3, <1>6, <1>14 DEF pieces

\* Every question about pieces is answered right.
LEMMA PiecesAnswered == AskedOfQuestions => PiecesWhole
<1> SUFFICES ASSUME AskedOfQuestions, Asked("pieces") PROVE PiecesWhole
  BY DEF PiecesWhole
<1>1. IsPieces(probe.input)
  BY InputAsked, CalculationsAssumption DEF CalculationsAssumption
<1>2. probe.input.text \in Seq(Int) /\ probe.input.max \in Nat \ {0}
  BY <1>1 DEF IsPieces
<1> QED
  BY <1>2, PiecesTogether DEF PiecesWhole

-----------------------------------------------------------------------------
(***************************************************************************)
(* The text of frames.                                                     *)
(***************************************************************************)
\* As many as are summed, if each is one.
LEMMA SumOfOnes ==
  ASSUME NEW S, IsFiniteSet(S)
  PROVE  SumFunction([x \in S |-> 1]) = Cardinality(S)
<1> DEFINE f == [x \in S |-> 1]
<1>1. f \in [S -> Int] /\ \A x \in S : f[x] = 1
  OBVIOUS
<1> HIDE DEF f
<1>2. PICK it \in [SUBSET S -> Int] : AnyOrder(it, f, S) /\ SumFunction(f) = it[S]
  BY <1>1, SumsOfParts
<1> DEFINE Good == {U \in SUBSET S : it[U] = Cardinality(U)}
<1>3. {} \in Good
  <2>1. it[{}] = 0
    BY <1>2, Zenon DEF AnyOrder
  <2> QED
    BY <2>1, FS_EmptySet
<1>4. ASSUME NEW U \in SUBSET S, NEW x \in S, U \in Good, x \notin U
      PROVE  U \cup {x} \in Good
  <2> DEFINE more == U \cup {x}
  <2>1. more \in SUBSET S /\ x \in more /\ more \ {x} = U
    BY <1>4
  <2>2. IsFiniteSet(U)
    BY FS_Subset
  <2>3. Cardinality(more) = Cardinality(U) + 1 /\ Cardinality(U) \in Nat
    BY <1>4, <2>2, FS_AddElement, FS_CardinalityType
  <2> HIDE DEF more
  <2>4. it[more] = f[x] + it[more \ {x}]
    BY <1>2, <2>1, Zenon DEF AnyOrder
  <2>5. it[more] = Cardinality(more)
    <3>1. f[x] = 1 /\ it[U] = Cardinality(U)
      BY <1>1, <1>4
    <3>2. it[more] = 1 + it[U]
      BY <2>1, <2>4, <3>1
    <3> QED
      BY <2>3, <3>1, <3>2
  <2> QED
    BY <2>1, <2>5 DEF more
<1>5. S \in Good
  <2> HIDE DEF Good
  <2> QED
    BY <1>3, <1>4, SetInduction
<1> QED
  BY <1>2, <1>5 DEF f

\* A text has as many bytes as characters, or more.
LEMMA BytesOfText ==
  ASSUME NEW body \in Seq(Letters \cup {LF})
  PROVE  SizeOfUTF8(body) \in Nat /\ Len(body) <= SizeOfUTF8(body)
<1> DEFINE S == DOMAIN body
           f == [i \in S |-> Size(body[i])]
           g == [i \in S |-> 1]
<1>1. Len(body) \in Nat /\ S = 1 .. Len(body) /\ \A i \in S : body[i] \in Letters \cup {LF}
  BY Members
<1>2. IsFiniteSet(S) /\ Cardinality(S) = Len(body)
  <2>1. 1 \in Int /\ Len(body) \in Int
    BY <1>1
  <2>2. IsFiniteSet(1 .. Len(body)) /\ Cardinality(1 .. Len(body)) = Len(body)
    <3>1. Cardinality(1 .. Len(body)) = IF 1 > Len(body) THEN 0 ELSE Len(body) - 1 + 1
      BY <2>1, FS_Interval
    <3>2. IsFiniteSet(1 .. Len(body))
      BY <2>1, FS_Interval
    <3> QED
      BY <1>1, <3>1, <3>2
  <2> QED
    BY <1>1, <2>2
<1>3. \A i \in S : Size(body[i]) \in Nat /\ 1 <= Size(body[i])
  <2> TAKE i \in S
  <2> DEFINE token == body[i]
  <2>1. token \in Letters \cup {LF}
    BY <1>1
  <2> HIDE DEF token
  <2>2. CASE token \in Letters
    <3>1. token.type = "char" /\ token.char \in DOMAIN Utf8Size
      BY <2>2 DEF Letters
    <3>2. Utf8Size[token.char] \in Nat \ {0}
      BY <3>1, CalculationsAssumption DEF CalculationsAssumption
    <3> QED
      BY <3>1, <3>2 DEF Size, token
  <2>3. CASE token = LF
    <3>1. token.type = "LF"
      BY <2>3 DEF LF
    <3> QED
      BY <3>1 DEF Size, token
  <2> QED
    BY <2>1, <2>2, <2>3
<1> HIDE DEF S
<1>4. f \in [S -> Int] /\ g \in [S -> Int] /\ \A i \in S : f[i] = Size(body[i]) /\ g[i] = 1
  BY <1>3
<1>5. SumFunction(g) = Cardinality(S)
  BY <1>2, SumOfOnes
<1>6. SizeOfUTF8(body) = SumFunction(f)
  BY DEF SizeOfUTF8, S
<1> HIDE DEF f, g
<1>7. SumFunction(f) \in Int
  BY <1>2, <1>4, SumTyped
<1>8. S \in SUBSET S /\ (\A i \in S : g[i] <= f[i]) /\ \A i \in S \ S : f[i] >= 0
  BY <1>3, <1>4
<1>9. SumFunction(g) <= SumFunction(f)
  BY <1>2, <1>4, <1>8, SumUpper
<1> QED
  BY <1>1, <1>2, <1>5, <1>6, <1>7, <1>9

\* What is at places that are given in order.
ChosenAreAt(s, m, p) ==
  Chosen(s, {p[k] : k \in 1 .. m}) = [k \in 1 .. m |-> s[p[k]]]

\* Places that are counted in their order give their values in this order.
LEMMA ChosenInOrder ==
  ASSUME NEW T, NEW s \in Seq(T), NEW m \in Nat, NEW p \in [1 .. m -> 1 .. Len(s)],
         \A j, k \in 1 .. m : j < k => p[j] < p[k]
  PROVE  ChosenAreAt(s, m, p)
<1> DEFINE places == {p[k] : k \in 1 .. m}
           below(k) == {p[j] : j \in 1 .. k - 1}
<1>1. Len(s) \in Nat /\ places \in SUBSET (1 .. Len(s))
  OBVIOUS
<1>2. \A j, k \in 1 .. m : j # k => p[j] # p[k]
  <2> TAKE j, k \in 1 .. m
  <2>1. j < k \/ k < j \/ j = k
    OBVIOUS
  <2>2. p[j] \in Nat /\ p[k] \in Nat
    BY <1>1
  <2> QED
    BY <2>1, <2>2
<1>3. \A k \in 0 .. m : Cardinality({p[j] : j \in 1 .. k}) = k
  <2> TAKE k \in 0 .. m
  <2> DEFINE U == {p[j] : j \in 1 .. k}
             f == [j \in 1 .. k |-> p[j]]
  <2>1. \A j \in 1 .. k : j \in 1 .. m
    OBVIOUS
  <2>2. f \in [1 .. k -> U] /\ (\A i, j \in 1 .. k : f[i] = f[j] => i = j)
        /\ \A u \in U : \E j \in 1 .. k : f[j] = u
    BY <1>2, <2>1
  <2> HIDE DEF U, f
  <2>3. f \in Bijection(1 .. k, U)
    BY <2>2 DEF Bijection, Injection, Surjection, IsInjective
  <2>4. ExistsBijection(1 .. k, U)
    BY <2>3 DEF ExistsBijection
  <2>5. IsFiniteSet(1 .. k) /\ Cardinality(1 .. k) = k
    BY FS_Interval
  <2>6. Cardinality(U) = k
    BY <2>4, <2>5, FS_Bijection
  <2> QED
    BY <2>6 DEF U
<1>4. Cardinality(places) = m
  <2>1. m \in 0 .. m
    OBVIOUS
  <2> QED
    BY <1>3, <2>1
<1>5. ASSUME NEW k \in 1 .. m PROVE Ahead(places, p[k]) = k - 1
  <2>1. \A j \in 1 .. m : p[j] < p[k] <=> j \in 1 .. k - 1
    <3> TAKE j \in 1 .. m
    <3>1. j < k \/ k < j \/ j = k
      OBVIOUS
    <3>2. p[j] \in Nat /\ p[k] \in Nat
      BY <1>1
    <3>3. k < j => p[k] < p[j]
      OBVIOUS
    <3>4. j < k => p[j] < p[k]
      OBVIOUS
    <3> QED
      BY <3>1, <3>2, <3>3, <3>4
  <2>2. \A j \in 1 .. k - 1 : j \in 1 .. m
    OBVIOUS
  <2>3. \A u : u \in {l \in places : l < p[k]} <=> u \in below(k)
    BY <2>1, <2>2
  <2>4. {l \in places : l < p[k]} = below(k)
    BY <2>3
  <2>5. k - 1 \in 0 .. m
    OBVIOUS
  <2> QED
    BY <1>3, <2>4, <2>5 DEF Ahead
<1> HIDE DEF places
<1> DEFINE chosen == Chosen(s, places)
<1>6. /\ chosen \in Seq(T) /\ Len(chosen) = m
      /\ \A i \in places : chosen[Ahead(places, i) + 1] = s[i]
  BY <1>1, <1>4, ChosenPlaces
<1> HIDE DEF chosen
<1>7. \A k \in 1 .. m : chosen[k] = s[p[k]]
  <2> TAKE k \in 1 .. m
  <2>1. p[k] \in places
    BY DEF places
  <2>2. chosen[(k - 1) + 1] = s[p[k]]
    BY <1>5, <1>6, <2>1
  <2> QED
    BY <2>2
<1>8. chosen = [k \in 1 .. m |-> chosen[k]]
  BY <1>6
<1>9. chosen = [k \in 1 .. m |-> s[p[k]]]
  BY <1>7, <1>8
<1> QED
  BY <1>9 DEF chosen, places, ChosenAreAt

\* One sequence after another.
AreJoined(all, one, two, T) ==
  /\ all \in Seq(T) /\ Len(all) = Len(one) + Len(two)
  /\ Len(one) \in Nat /\ Len(two) \in Nat
  /\ \A i \in 1 .. Len(one) : all[i] = one[i]
  /\ \A i \in 1 .. Len(two) : all[Len(one) + i] = two[i]

\* That is what concatenation makes.
LEMMA Joined ==
  ASSUME NEW T, NEW one \in Seq(T), NEW two \in Seq(T)
  PROVE  AreJoined(one \o two, one, two, T)
BY DEF AreJoined

\* The end of a sequence is another one.
LEMMA RestOf ==
  ASSUME NEW T, NEW s \in Seq(T), NEW U, NEW t \in Seq(U), NEW d \in Nat \ {0},
         Len(s) = d - 1 + Len(t), \A j \in 1 .. Len(t) : s[d + j - 1] = t[j]
  PROVE  SubSeq(s, d, Len(s)) = t
<1> DEFINE b == Len(t)
           l == Len(s)
           rest == SubSeq(s, d, l)
<1>1. b \in Nat /\ l \in Nat /\ l = d - 1 + b /\ l - d + 1 = b
  OBVIOUS
<1>2. rest = [j \in 1 .. l - d + 1 |-> s[d + j - 1]]
  OBVIOUS
<1>3. t = [j \in 1 .. b |-> t[j]]
  OBVIOUS
<1>4. \A j \in 1 .. b : s[d + j - 1] = t[j]
  OBVIOUS
<1> HIDE DEF b, l, rest
<1>5. rest = [j \in 1 .. b |-> s[d + j - 1]]
  BY <1>1, <1>2
<1>6. [j \in 1 .. b |-> s[d + j - 1]] = [j \in 1 .. b |-> t[j]]
  BY <1>4
<1> QED
  BY <1>3, <1>5, <1>6 DEF rest, l

\* What the text of a header line is made of.
LinePieces == Pieces \cup {Word("content-length")} \cup [type : {"length"}, length : Nat]

\* Its colons and blanks are told apart from the name and the value of the length.
LEMMA PiecesApart ==
  /\ Pieces \subseteq LinePieces /\ Colon \in LinePieces /\ Colon # Blank
  /\ ContentLength \in Seq(LinePieces) /\ Len(ContentLength) = 1
  /\ ContentLength[1] # Colon /\ ContentLength[1] # Blank
  /\ \A n \in Nat : LengthValue(n) \in Seq(LinePieces) /\ Len(LengthValue(n)) = 1
                    /\ LengthValue(n)[1] # Blank
<1>1. Pieces \subseteq LinePieces /\ Colon \in LinePieces
  BY DEF LinePieces, Pieces
<1>2. /\ Colon.type = "colon" /\ Blank.type = "blank"
      /\ Word("content-length").type = "word" /\ Word("content-length") \in LinePieces
  BY DEF Colon, Blank, Word, LinePieces
<1>3. ContentLength = <<Word("content-length")>>
  BY DEF ContentLength
<1>4. /\ ContentLength \in Seq(LinePieces) /\ Len(ContentLength) = 1
      /\ ContentLength[1] = Word("content-length")
  BY <1>2, <1>3
<1>5. ASSUME NEW n \in Nat
      PROVE  LengthValue(n) \in Seq(LinePieces) /\ Len(LengthValue(n)) = 1
             /\ LengthValue(n)[1] # Blank
  <2> DEFINE piece == [type |-> "length", length |-> n]
  <2>1. piece \in LinePieces /\ piece.type = "length"
    BY DEF LinePieces
  <2>2. LengthValue(n) = <<piece>>
    BY DEF LengthValue
  <2> HIDE DEF piece
  <2>3. LengthValue(n) \in Seq(LinePieces) /\ Len(LengthValue(n)) = 1 /\ LengthValue(n)[1] = piece
    BY <2>1, <2>2
  <2> QED
    BY <1>2, <2>1, <2>3
<1> QED
  BY <1>1, <1>2, <1>4, <1>5

\* A text is cut at its first colon.
LEMMA ColonFound ==
  ASSUME NEW name \in Seq(LinePieces), NEW value \in Seq(LinePieces),
         \A i \in 1 .. Len(name) : name[i] # Colon
  PROVE  LET line == HeaderLine(name, value)
         IN  /\ line.text \in Seq(LinePieces)
             /\ NameOf(line) = Trim(name) /\ ValueOf(line) = Trim(value)
<1> DEFINE text == name \o <<Colon>> \o value
           line == HeaderLine(name, value)
           n == Len(name)
           m == Len(value)
           T == LinePieces
           colon == <<Colon>>
           first == name \o colon
           at == ColonAt(text)
<1>0. line.text = text
  BY DEF HeaderLine
<1>1. n \in Nat /\ m \in Nat
  OBVIOUS
<1>2. colon \in Seq(T) /\ Len(colon) = 1 /\ colon[1] = Colon
  BY PiecesApart
<1> HIDE DEF colon, T
<1>3. AreJoined(first, name, colon, T)
  BY <1>2, Joined DEF T
<1> HIDE DEF first
<1>4. /\ first \in Seq(T) /\ Len(first) = n + 1 /\ first[n + 1] = Colon
      /\ \A i \in 1 .. n : first[i] = name[i]
  <2>1. /\ first \in Seq(T) /\ Len(first) = Len(name) + Len(colon)
        /\ \A i \in 1 .. Len(name) : first[i] = name[i]
        /\ \A i \in 1 .. Len(colon) : first[Len(name) + i] = colon[i]
    BY <1>3 DEF AreJoined
  <2>2. 1 \in 1 .. Len(colon)
    BY <1>2
  <2> QED
    BY <1>1, <1>2, <2>1, <2>2
<1>5. text = first \o value
  BY DEF first, colon
<1>6. AreJoined(text, first, value, T)
  BY <1>4, <1>5, Joined DEF T
<1> HIDE DEF text
<1>7. /\ text \in Seq(T) /\ Len(text) = n + 1 + m /\ text[n + 1] = Colon
      /\ \A i \in 1 .. n : text[i] = name[i]
      /\ \A i \in 1 .. m : text[n + 1 + i] = value[i]
  <2>1. /\ text \in Seq(T) /\ Len(text) = Len(first) + Len(value)
        /\ \A i \in 1 .. Len(first) : text[i] = first[i]
        /\ \A i \in 1 .. Len(value) : text[Len(first) + i] = value[i]
    BY <1>6 DEF AreJoined
  <2>2. n + 1 \in 1 .. n + 1 /\ \A i \in 1 .. n : i \in 1 .. n + 1
    BY <1>1
  <2> QED
    BY <1>1, <1>4, <2>1, <2>2
<1>8. at = n + 1
  <2> DEFINE colons == {i \in 1 .. Len(text) : text[i] = Colon}
  <2>1. n + 1 \in colons /\ \A i \in colons : n + 1 <= i
    <3>1. \A i \in 1 .. n : text[i] # Colon
      BY <1>7
    <3> HIDE DEF n, m, at
    <3>2. n + 1 \in 1 .. Len(text)
      BY <1>1, <1>7
    <3>3. \A i \in 1 .. Len(text) : ~ (n + 1 <= i) => i \in 1 .. n
      BY <1>1, <1>7
    <3> QED
      BY <1>7, <3>1, <3>2, <3>3
  <2>2. at = IF colons # {} THEN Min(colons) ELSE 0
    BY DEF ColonAt, SelectInSeq
  <2>3. colons \in SUBSET Int /\ colons # {} /\ IsFiniteSet(colons)
    <3>1. IsFiniteSet(1 .. Len(text))
      BY <1>1, <1>7, FS_Interval
    <3>2. colons \subseteq 1 .. Len(text)
      OBVIOUS
    <3>3. IsFiniteSet(colons)
      BY <3>1, <3>2, FS_Subset
    <3>4. colons \in SUBSET Int
      BY <1>1, <1>7
    <3> QED
      BY <2>1, <3>3, <3>4
  <2> HIDE DEF colons
  <2>4. Min(colons) \in colons /\ \A i \in colons : Min(colons) <= i
    BY <2>3, Extremes
  <2> DEFINE least == Min(colons)
  <2>5. at = least /\ least \in colons /\ least <= n + 1 /\ n + 1 <= least
    BY <2>1, <2>2, <2>3, <2>4
  <2> HIDE DEF n, at, least
  <2>6. least \in Int
    BY <2>3, <2>5
  <2> QED
    BY <1>1, <2>5, <2>6
<1>9. SubSeq(text, 1, at - 1) = name
  <2>1. name = [i \in 1 .. n |-> name[i]]
    OBVIOUS
  <2> HIDE DEF n, at
  <2>2. SubSeq(text, 1, n) = [i \in 1 .. n |-> text[i]]
    BY <1>1, <1>7
  <2>3. [i \in 1 .. n |-> text[i]] = [i \in 1 .. n |-> name[i]]
    BY <1>7
  <2>4. at - 1 = n
    BY <1>1, <1>8
  <2> QED
    BY <2>1, <2>2, <2>3, <2>4
<1>10. SubSeq(text, at + 1, Len(text)) = value
  <2> DEFINE d == n + 2
  <2>1. d \in Nat \ {0} /\ Len(text) = d - 1 + Len(value) /\ at + 1 = d
    BY <1>1, <1>7, <1>8
  <2>2. \A j \in 1 .. Len(value) : text[d + j - 1] = value[j]
    <3> TAKE j \in 1 .. Len(value)
    <3>1. d + j - 1 = n + 1 + j /\ j \in 1 .. m
      BY <1>1
    <3> QED
      BY <1>7, <3>1
  <2> HIDE DEF d
  <2>3. SubSeq(text, d, Len(text)) = value
    BY <1>7, <2>1, <2>2, RestOf DEF T
  <2> QED
    BY <2>1, <2>3
<1> HIDE DEF at, line
<1>11. NameOf(line) = Trim(name) /\ ValueOf(line) = Trim(value)
  BY <1>0, <1>9, <1>10 DEF NameOf, ValueOf, at
<1> QED
  BY <1>0, <1>7, <1>11 DEF line, T

\* A trimmed text is tight, and nothing but blanks is missing at its ends.
LEMMA Trimmed ==
  ASSUME NEW T, NEW text \in Seq(T)
  PROVE  /\ Tight(Trim(text)) /\ IsRestOf(Trim(text), text)
         /\ Tight(text) => Trim(text) = text
<1> DEFINE n == Len(text)
           kept == {i \in DOMAIN text : text[i] # Blank}
           rest == Trim(text)
<1>1. n \in Nat /\ DOMAIN text = 1 .. n /\ text = SubSeq(text, 1, n)
  OBVIOUS
<1>2. rest = IF kept = {} THEN <<>> ELSE SubSeq(text, Min(kept), Max(kept))
  BY DEF Trim
<1>3. \A i \in 1 .. n : i \in kept <=> text[i] # Blank
  BY <1>1
<1>4. kept \in SUBSET Int /\ kept \subseteq 1 .. n /\ IsFiniteSet(kept)
  <2>1. IsFiniteSet(1 .. n)
    BY <1>1, FS_Interval
  <2>2. kept \subseteq 1 .. n
    BY <1>1
  <2>3. IsFiniteSet(kept)
    BY <2>1, <2>2, FS_Subset
  <2> QED
    BY <2>2, <2>3
<1>5. n = 0 <=> text = <<>>
  OBVIOUS
<1>6. Last(text) = text[n]
  BY DEF Last
<1> HIDE DEF kept, rest
<1>7. CASE kept = {}
  <2>1. rest = <<>>
    BY <1>2, <1>7
  <2>2. Tight(rest)
    BY <2>1 DEF Tight
  <2>3. IsRestOf(rest, text)
    <3>1. SubSeq(text, 1, 0) = <<>>
      OBVIOUS
    <3>2. 1 \in 1 .. n + 1 /\ 0 \in 0 .. n
      BY <1>1
    <3>3. \A i \in DOMAIN text : text[i] = Blank
      BY <1>1, <1>3, <1>7
    <3> QED
      BY <2>1, <3>1, <3>2, <3>3 DEF IsRestOf, n
  <2>4. Tight(text) => text = <<>>
    <3>1. text # <<>> => 1 \in 1 .. n
      BY <1>1, <1>5
    <3> QED
      BY <1>3, <1>7, <3>1 DEF Tight
  <2> QED
    BY <2>1, <2>2, <2>3, <2>4 DEF rest
<1>8. CASE kept # {}
  <2> DEFINE p == Min(kept)
             q == Max(kept)
  <2>1. p \in kept /\ q \in kept /\ \A i \in kept : p <= i /\ i <= q
    BY <1>4, <1>8, Extremes
  <2>2. p \in 1 .. n /\ q \in 1 .. n /\ p <= q /\ text[p] # Blank /\ text[q] # Blank
    BY <1>3, <1>4, <2>1
  <2>3. rest = SubSeq(text, p, q)
    BY <1>2, <1>8
  <2> HIDE DEF p, q
  <2>4. Len(rest) = q - p + 1 /\ rest[1] = text[p] /\ rest[q - p + 1] = text[q]
    <3>1. rest = [i \in 1 .. q - p + 1 |-> text[p + i - 1]]
      BY <1>1, <2>2, <2>3
    <3>2. /\ q - p + 1 \in Nat /\ 1 \in 1 .. q - p + 1 /\ q - p + 1 \in 1 .. q - p + 1
          /\ p + 1 - 1 = p /\ p + (q - p + 1) - 1 = q
      BY <1>1, <2>2
    <3> QED
      BY <3>1, <3>2
  <2>5. Tight(rest)
    BY <2>2, <2>4 DEF Tight, Last
  <2>6. IsRestOf(rest, text)
    <3>1. p \in 1 .. n + 1 /\ q \in 0 .. n
      BY <1>1, <2>2
    <3>2. \A i \in DOMAIN text : i \notin p .. q => text[i] = Blank
      <4> TAKE i \in DOMAIN text
      <4>1. i \in 1 .. n /\ p \in Int /\ q \in Int
        BY <1>1, <2>2
      <4>2. i \in kept => i \in p .. q
        BY <2>1, <4>1
      <4> QED
        BY <1>3, <4>1, <4>2
    <3> QED
      BY <2>3, <3>1, <3>2 DEF IsRestOf, n
  <2>7. ASSUME Tight(text) PROVE rest = text
    <3>1. n # 0
      BY <1>1, <2>2
    <3>2. text[1] # Blank /\ text[n] # Blank /\ 1 \in 1 .. n /\ n \in 1 .. n
      BY <1>1, <1>5, <1>6, <2>7, <3>1 DEF Tight
    <3>3. 1 \in kept /\ n \in kept
      BY <1>3, <3>2
    <3>4. p = 1 /\ q = n
      <4>1. p <= 1 /\ n <= q
        BY <2>1, <3>3
      <4> HIDE DEF n
      <4> QED
        BY <1>1, <2>2, <4>1
    <3> QED
      BY <1>1, <2>3, <3>4
  <2> QED
    BY <2>5, <2>6, <2>7 DEF rest
<1> QED
  BY <1>7, <1>8

\* What the name and the value of a header are read as.
ReadName(header) == NameOf(HeaderLine(header.name, header.value))
ReadValue(header) == ValueOf(HeaderLine(header.name, header.value))

\* The line of the length has the name of it, and the length as value.
LEMMA LengthIsRead ==
  ASSUME NEW n \in Nat
  PROVE  LET line == HeaderLine(ContentLength, LengthValue(n))
         IN  /\ line.text \in Seq(LinePieces)
             /\ NameOf(line) = ContentLength /\ ValueOf(line)[1].length = n
<1> DEFINE line == HeaderLine(ContentLength, LengthValue(n))
           value == LengthValue(n)
<1>1. /\ ContentLength \in Seq(LinePieces) /\ Len(ContentLength) = 1
      /\ ContentLength[1] # Colon /\ ContentLength[1] # Blank
      /\ value \in Seq(LinePieces) /\ Len(value) = 1 /\ value[1] # Blank
  BY PiecesApart
<1>2. value[1].length = n
  BY DEF LengthValue
<1> HIDE DEF value
<1>3. /\ line.text \in Seq(LinePieces)
      /\ NameOf(line) = Trim(ContentLength) /\ ValueOf(line) = Trim(value)
  <2>1. \A i \in 1 .. Len(ContentLength) : ContentLength[i] # Colon
    BY <1>1
  <2> QED
    BY <1>1, <2>1, ColonFound DEF value
<1>4. Tight(ContentLength) /\ Tight(value)
  BY <1>1 DEF Tight, Last
<1> QED
  BY <1>1, <1>2, <1>3, <1>4, Trimmed

\* A plain name is read as it was, and a value without the blanks at its ends.
LEMMA PlainIsRead ==
  ASSUME NEW header, header.name \in Seq(Pieces), header.value \in Seq(Pieces), PlainName(header.name)
  PROVE  /\ ReadName(header) = header.name
         /\ Tight(ReadValue(header)) /\ IsRestOf(ReadValue(header), header.value)
<1> DEFINE name == header.name
           value == header.value
<1>1. name \in Seq(LinePieces) /\ value \in Seq(LinePieces)
  BY PiecesApart
<1>2. Tight(name) /\ \A i \in 1 .. Len(name) : name[i] # Colon
  BY DEF PlainName, Contains
<1> HIDE DEF name, value
<1>3. ReadName(header) = Trim(name) /\ ReadValue(header) = Trim(value)
  BY <1>1, <1>2, ColonFound DEF ReadName, ReadValue, name, value
<1> QED
  BY <1>1, <1>2, <1>3, Trimmed DEF name, value

\* What texts are made of, with some commands.
LineTokens(C) ==
  [type : {"command"}, command : C] \cup [type : {"header"}, text : Seq(LinePieces)]
Tokens(C) == {LF, NULL} \cup Letters \cup LineTokens(C)

\* A line is no line feed and no NUL, and no letter is a NUL.
LEMMA TokensApart ==
  ASSUME NEW C
  PROVE  /\ LF # NULL
         /\ \A t \in LineTokens(C) : t # LF /\ t # NULL
         /\ \A t \in Letters : t # NULL
<1>1. LF.type = "LF" /\ NULL.type = "NULL"
  BY DEF LF, NULL
<1>2. \A t \in LineTokens(C) : t.type = "command" \/ t.type = "header"
  BY DEF LineTokens
<1>3. \A t \in Letters : t.type = "char"
  BY DEF Letters
<1> QED
  BY <1>1, <1>2, <1>3

FrameLines(f) == LinesOf(f, SizeOfUTF8(f.body))
LengthLine(f) == HeaderLine(ContentLength, LengthValue(SizeOfUTF8(f.body)))

\* The lines of a frame: its command, its headers, and its length if it has a body.
LEMMA LinesOfFrame ==
  ASSUME NEW C, NEW f, IsFrame(f), f.command \in C
  PROVE  /\ FrameLines(f) \in Seq(LineTokens(C)) /\ Len(f.headers) \in Nat
         /\ Len(FrameLines(f)) = IF f.body = <<>> THEN Len(f.headers) + 1 ELSE Len(f.headers) + 2
         /\ FrameLines(f)[1] = CommandLine(f.command)
         /\ \A i \in 1 .. Len(f.headers) :
              FrameLines(f)[i + 1] = HeaderLine(f.headers[i].name, f.headers[i].value)
         /\ f.body # <<>> => FrameLines(f)[Len(f.headers) + 2] = LengthLine(f)
<1> DEFINE hs == f.headers
           h == Len(hs)
           T == LineTokens(C)
           one == <<CommandLine(f.command)>>
           two == [i \in DOMAIN hs |-> HeaderLine(hs[i].name, hs[i].value)]
           three == IF f.body = <<>> THEN <<>> ELSE <<LengthLine(f)>>
<1>1. /\ h \in Nat /\ DOMAIN hs = 1 .. h
      /\ \A i \in 1 .. h : hs[i].name \in Seq(Pieces) /\ hs[i].value \in Seq(Pieces)
  <2>1. hs \in Seq([name : Seq(Pieces), value : Seq(Pieces)])
    BY DEF IsFrame
  <2> HIDE DEF hs
  <2>2. h \in Nat /\ DOMAIN hs = 1 .. h
        /\ \A i \in DOMAIN hs : hs[i] \in [name : Seq(Pieces), value : Seq(Pieces)]
    BY <2>1, Members
  <2> HIDE DEF h
  <2> QED
    BY <2>2
<1> HIDE DEF h, hs
<1>2. one \in Seq(T) /\ Len(one) = 1 /\ one[1] = CommandLine(f.command)
  <2>1. CommandLine(f.command) \in T
    BY DEF CommandLine, LineTokens
  <2> HIDE DEF T
  <2> QED
    BY <2>1
<1>3. \A i \in 1 .. h : HeaderLine(hs[i].name, hs[i].value) \in T
  <2> TAKE i \in 1 .. h
  <2> DEFINE name == hs[i].name
             value == hs[i].value
  <2>1. name \in Seq(LinePieces) /\ value \in Seq(LinePieces)
    BY <1>1, PiecesApart
  <2> HIDE DEF name, value
  <2>2. name \o <<Colon>> \o value \in Seq(LinePieces)
    <3>1. <<Colon>> \in Seq(LinePieces)
      BY PiecesApart
    <3> QED
      BY <2>1, <3>1
  <2> QED
    BY <2>2 DEF HeaderLine, LineTokens, name, value
<1>4. LengthLine(f) \in T
  <2>1. SizeOfUTF8(f.body) \in Nat
    BY BytesOfText DEF IsFrame
  <2>2. LengthLine(f).text \in Seq(LinePieces)
    BY <2>1, LengthIsRead DEF LengthLine
  <2>3. LengthLine(f) = [type |-> "header", text |-> LengthLine(f).text]
    BY DEF LengthLine, HeaderLine
  <2> HIDE DEF T
  <2>4. \A text \in Seq(LinePieces) : [type |-> "header", text |-> text] \in T
    BY DEF LineTokens, T
  <2> QED
    BY <2>2, <2>3, <2>4, Zenon
<1> HIDE DEF T
<1>5. two \in Seq(T) /\ Len(two) = h /\ \A i \in 1 .. h : two[i] = HeaderLine(hs[i].name, hs[i].value)
  <2>1. two = [i \in 1 .. h |-> HeaderLine(hs[i].name, hs[i].value)]
    BY <1>1
  <2> HIDE DEF two
  <2> QED
    BY <1>1, <1>3, <2>1
<1>6. three \in Seq(T) /\ Len(three) = (IF f.body = <<>> THEN 0 ELSE 1)
      /\ (f.body # <<>> => three[1] = LengthLine(f))
  BY <1>4
<1>7. FrameLines(f) = one \o two \o three
  BY DEF FrameLines, LinesOf, LengthLine, hs
<1> HIDE DEF one, two, three
<1> DEFINE both == one \o two
<1>8. /\ both \in Seq(T) /\ Len(both) = h + 1 /\ both[1] = CommandLine(f.command)
      /\ \A i \in 1 .. h : both[i + 1] = two[i]
  <2>4. AreJoined(both, one, two, T)
    BY <1>2, <1>5, Joined
  <2> HIDE DEF both
  <2>0. /\ both \in Seq(T) /\ Len(both) = Len(one) + Len(two)
        /\ \A i \in 1 .. Len(one) : both[i] = one[i]
        /\ \A i \in 1 .. Len(two) : both[Len(one) + i] = two[i]
    BY <2>4 DEF AreJoined
  <2>1. both \in Seq(T) /\ Len(both) = h + 1
    BY <1>1, <1>2, <1>5, <2>0
  <2>2. both[1] = one[1]
    BY <1>2, <2>0
  <2>3. \A i \in 1 .. h : both[i + 1] = two[i]
    <3> TAKE i \in 1 .. h
    <3>1. i \in 1 .. Len(two) /\ Len(one) + i = i + 1
      BY <1>1, <1>2, <1>5
    <3> QED
      BY <2>0, <3>1
  <2> QED
    BY <1>2, <2>1, <2>2, <2>3
<1> HIDE DEF both
<1> DEFINE all == both \o three
<1>9. FrameLines(f) = all
  BY <1>7 DEF both
<1>17. AreJoined(all, both, three, T)
  BY <1>6, <1>8, Joined
<1> HIDE DEF all
<1>16. /\ all \in Seq(T) /\ Len(all) = Len(both) + Len(three)
       /\ \A i \in 1 .. Len(both) : all[i] = both[i]
       /\ \A i \in 1 .. Len(three) : all[Len(both) + i] = three[i]
  BY <1>17 DEF AreJoined
<1>10. all \in Seq(T) /\ Len(all) = h + 1 + Len(three)
  BY <1>8, <1>16
<1>11. \A i \in 1 .. h + 1 : all[i] = both[i]
  BY <1>8, <1>16
<1>12. f.body # <<>> => all[h + 2] = three[1]
  <2> SUFFICES ASSUME f.body # <<>> PROVE all[h + 2] = three[1]
    OBVIOUS
  <2>1. 1 \in 1 .. Len(three) /\ Len(both) + 1 = h + 2
    BY <1>1, <1>6, <1>8
  <2> QED
    BY <1>16, <2>1
<1>13. \A i \in 1 .. h : i + 1 \in 1 .. h + 1 /\ all[i + 1] = HeaderLine(hs[i].name, hs[i].value)
  <2> TAKE i \in 1 .. h
  <2>1. i + 1 \in 1 .. h + 1
    BY <1>1
  <2> QED
    BY <1>5, <1>8, <1>11, <2>1
<1>14. all[1] = CommandLine(f.command)
  <2>1. 1 \in 1 .. h + 1
    BY <1>1
  <2> QED
    BY <1>8, <1>11, <2>1
<1>15. Len(all) = IF f.body = <<>> THEN h + 1 ELSE h + 2
  BY <1>1, <1>6, <1>10
<1> QED
  BY <1>1, <1>6, <1>9, <1>10, <1>12, <1>13, <1>14, <1>15 DEF h, hs, T

\* The text of a frame: line feeds after its lines, another, and the body.
IsTextOf(C, s, body, lines) ==
  /\ s \in Seq(Tokens(C)) /\ Len(s) = 2 * Len(lines) + 1 + Len(body)
  /\ \A i \in 1 .. Len(lines) : s[2 * i - 1] = lines[i] /\ s[2 * i] = LF
  /\ s[2 * Len(lines) + 1] = LF
  /\ \A j \in 1 .. Len(body) : s[2 * Len(lines) + 1 + j] = body[j]
  /\ \A i \in 1 .. Len(s) : s[i] # NULL
  /\ s[1] # LF

\* That is what the text of a frame is.
LEMMA FrameText ==
  ASSUME NEW C, NEW f, IsFrame(f), f.command \in C,
         NEW lines, lines = FrameLines(f), NEW s, s = FrameToString(f)
  PROVE  IsTextOf(C, s, f.body, lines)
<1> DEFINE n == Len(lines)
           b == Len(f.body)
           body == f.body
           T == Tokens(C)
           ended == Ended(lines)
           middle == <<LF>>
           first == ended \o middle
           U == T \ {NULL}
<1>1. lines \in Seq(LineTokens(C)) /\ n \in Nat /\ 1 <= n
  BY LinesOfFrame
<1>2. \A i \in 1 .. n : lines[i] \in LineTokens(C) /\ lines[i] # LF /\ lines[i] # NULL
  BY <1>1, TokensApart
<1>3. LF \in U /\ Letters \subseteq U /\ LineTokens(C) \subseteq U
  BY TokensApart DEF Tokens
<1>4. b \in Nat /\ \A j \in 1 .. b : body[j] \in U
  <2>1. body \in Seq(Letters \cup {LF})
    BY DEF IsFrame
  <2>2. b \in Nat /\ \A j \in 1 .. b : body[j] \in Letters \cup {LF}
    BY <2>1
  <2> QED
    BY <1>3, <2>2
<1>5. body \in Seq(U)
  <2>1. body \in Seq(Letters \cup {LF})
    BY DEF IsFrame
  <2> HIDE DEF U, body
  <2> QED
    BY <1>3, <2>1
<1>6. s = first \o body
  BY DEF FrameToString, FrameLines
<1> HIDE DEF n, b, body, U, T
<1>7. ended = [i \in 1 .. 2 * n |-> IF i % 2 = 0 THEN LF ELSE lines[(i + 1) \div 2]]
  BY DEF Ended, n
<1>8. \A i \in 1 .. 2 * n : (i % 2 # 0 => (i + 1) \div 2 \in 1 .. n)
  BY <1>1
<1>9. \A i \in 1 .. 2 * n : ended[i] \in U
  BY <1>2, <1>3, <1>7, <1>8
<1>10. ended \in Seq(U) /\ Len(ended) = 2 * n
  BY <1>1, <1>7, <1>9
<1>11. \A i \in 1 .. n : ended[2 * i - 1] = lines[i] /\ ended[2 * i] = LF
  <2> TAKE i \in 1 .. n
  <2>1. /\ 2 * i - 1 \in 1 .. 2 * n /\ 2 * i \in 1 .. 2 * n
        /\ (2 * i) % 2 = 0 /\ (2 * i - 1) % 2 = 1 /\ ((2 * i - 1) + 1) \div 2 = i
    BY <1>1
  <2> QED
    BY <1>7, <2>1
<1> HIDE DEF ended
<1>12. middle \in Seq(U) /\ Len(middle) = 1 /\ middle[1] = LF
  BY <1>3
<1> HIDE DEF middle
<1>25. AreJoined(first, ended, middle, U)
  BY <1>10, <1>12, Joined
<1> HIDE DEF first
<1>23. /\ first \in Seq(U) /\ Len(first) = Len(ended) + Len(middle)
       /\ \A i \in 1 .. Len(ended) : first[i] = ended[i]
       /\ \A i \in 1 .. Len(middle) : first[Len(ended) + i] = middle[i]
  BY <1>25 DEF AreJoined
<1>13. first \in Seq(U) /\ Len(first) = 2 * n + 1
  BY <1>10, <1>12, <1>23
<1>14. \A i \in 1 .. 2 * n : first[i] = ended[i]
  BY <1>10, <1>23
<1>15. first[2 * n + 1] = LF
  <2>1. 1 \in 1 .. Len(middle) /\ Len(ended) + 1 = 2 * n + 1
    BY <1>10, <1>12
  <2> QED
    BY <1>12, <1>23, <2>1
<1>26. AreJoined(first \o body, first, body, U)
  BY <1>5, <1>13, Joined
<1>27. AreJoined(s, first, body, U)
  BY <1>6, <1>26
<1>24. /\ s \in Seq(U) /\ Len(s) = Len(first) + Len(body)
       /\ \A i \in 1 .. Len(first) : s[i] = first[i]
       /\ \A i \in 1 .. Len(body) : s[Len(first) + i] = body[i]
  BY <1>27 DEF AreJoined
<1>16. s \in Seq(U) /\ Len(s) = 2 * n + 1 + b
  <2>1. Len(body) = b
    BY DEF body, b
  <2> QED
    BY <1>13, <1>24, <2>1
<1>17. \A i \in 1 .. 2 * n + 1 : s[i] = first[i]
  BY <1>13, <1>24
<1>18. \A j \in 1 .. b : s[2 * n + 1 + j] = body[j]
  <2>1. Len(body) = b
    BY DEF body, b
  <2> QED
    BY <1>13, <1>24, <2>1
<1>19. s \in Seq(T) /\ \A i \in 1 .. Len(s) : s[i] # NULL
  <2>1. \A i \in 1 .. Len(s) : s[i] \in U
    BY <1>16
  <2>2. s \in Seq(T)
    <3>1. U \subseteq T
      BY DEF U
    <3> QED
      BY <1>16, <3>1
  <2> QED
    BY <2>1, <2>2 DEF U
<1>20. \A i \in 1 .. n : s[2 * i - 1] = lines[i] /\ s[2 * i] = LF
  <2> TAKE i \in 1 .. n
  <2>1. 2 * i - 1 \in 1 .. 2 * n /\ 2 * i \in 1 .. 2 * n /\ 2 * i - 1 \in 1 .. 2 * n + 1 /\ 2 * i \in 1 .. 2 * n + 1
    BY <1>1
  <2> QED
    BY <1>11, <1>14, <1>17, <2>1
<1>21. s[2 * n + 1] = LF
  <2>1. 2 * n + 1 \in 1 .. 2 * n + 1
    BY <1>1
  <2> QED
    BY <1>15, <1>17, <2>1
<1>22. s[1] # LF
  <2>1. 1 \in 1 .. n /\ 2 * 1 - 1 = 1
    BY <1>1
  <2> QED
    BY <1>2, <1>20, <2>1
<1> QED
  BY <1>16, <1>18, <1>19, <1>20, <1>21, <1>22 DEF n, b, body, T, IsTextOf

\* The header lines end where the body begins.
LEMMA DividerOfFrame ==
  ASSUME NEW C, NEW f, IsFrame(f), f.command \in C,
         NEW lines, lines = FrameLines(f), NEW s, s = FrameToString(f)
  PROVE  Divider(s) = 2 * Len(lines)
<1> DEFINE n == Len(lines)
           Ends(i) == /\ s[i] = LF /\ s[i + 1] = LF
                      /\ \A j \in 1 .. i - 1 : ~ (s[j] = LF /\ s[j + 1] = LF)
<1>1. lines \in Seq(LineTokens(C)) /\ n \in Nat /\ 1 <= n
  BY LinesOfFrame
<1>2. \A i \in 1 .. n : lines[i] # LF
  BY <1>1, TokensApart
<1> HIDE DEF n
<1>3. /\ s \in Seq(Tokens(C)) /\ Len(s) = 2 * n + 1 + Len(f.body)
      /\ \A i \in 1 .. n : s[2 * i - 1] = lines[i] /\ s[2 * i] = LF
      /\ s[2 * n + 1] = LF
  <2>1. IsTextOf(C, s, f.body, lines)
    BY FrameText
  <2> QED
    BY <2>1, Zenon DEF IsTextOf, n
<1>4. Len(f.body) \in Nat
  BY DEF IsFrame
<1>5. \A j \in 1 .. 2 * n - 1 : ~ (s[j] = LF /\ s[j + 1] = LF)
  <2> TAKE j \in 1 .. 2 * n - 1
  <2>1. CASE j % 2 = 1
    <3>1. (j + 1) \div 2 \in 1 .. n /\ 2 * ((j + 1) \div 2) - 1 = j
      BY <1>1, <2>1
    <3> QED
      BY <1>2, <1>3, <3>1
  <2>2. CASE j % 2 = 0
    <3>1. (j + 2) \div 2 \in 1 .. n /\ 2 * ((j + 2) \div 2) - 1 = j + 1
      BY <1>1, <2>2
    <3> QED
      BY <1>2, <1>3, <3>1
  <2> QED
    BY <1>1, <2>1, <2>2
<1>6. 2 * n \in 1 .. Len(s) - 1 /\ Ends(2 * n)
  <2>1. n \in 1 .. n /\ 2 * n \in Nat /\ 1 <= 2 * n
    BY <1>1
  <2>2. 2 * n \in 1 .. Len(s) - 1
    BY <1>3, <1>4, <2>1
  <2>3. s[2 * n] = LF
    BY <1>3, <2>1
  <2> QED
    BY <1>3, <1>5, <2>2, <2>3
<1>7. \A i \in 1 .. Len(s) - 1 : Ends(i) => i = 2 * n
  <2> TAKE i \in 1 .. Len(s) - 1
  <2> SUFFICES ASSUME Ends(i) PROVE i = 2 * n
    OBVIOUS
  <2>1. i \in Nat /\ 1 <= i /\ 2 * n \in Nat /\ 1 <= 2 * n
    BY <1>1, <1>3, <1>4
  <2>2. ~ (i < 2 * n)
    <3>1. i < 2 * n => i \in 1 .. 2 * n - 1
      BY <2>1
    <3> QED
      BY <1>5, <3>1
  <2>3. ~ (2 * n < i)
    <3>1. 2 * n < i => 2 * n \in 1 .. i - 1
      BY <2>1
    <3> QED
      BY <1>6, <3>1
  <2> QED
    BY <2>1, <2>2, <2>3
<1>8. Divider(s) = CHOOSE i \in 1 .. Len(s) - 1 : Ends(i)
  BY DEF Divider
<1> HIDE DEF Ends
<1> QED
  BY <1>6, <1>7, <1>8 DEF n

\* The lines are what is between their line feeds.
LEMMA LinesRead ==
  ASSUME NEW C, NEW f, IsFrame(f), f.command \in C,
         NEW lines, lines = FrameLines(f), NEW s, s = FrameToString(f)
  PROVE  Chosen(s, {i \in 1 .. 2 * Len(lines) - 1 : s[i] # LF}) = lines
<1> DEFINE n == Len(lines)
           p == [k \in 1 .. n |-> 2 * k - 1]
           places == {i \in 1 .. 2 * n - 1 : s[i] # LF}
<1>1. lines \in Seq(LineTokens(C)) /\ n \in Nat /\ 1 <= n
  BY LinesOfFrame
<1>2. \A i \in 1 .. n : lines[i] # LF
  BY <1>1, TokensApart
<1>3. lines = [k \in 1 .. n |-> lines[k]]
  BY <1>1
<1> HIDE DEF n
<1>4. /\ s \in Seq(Tokens(C)) /\ Len(s) = 2 * n + 1 + Len(f.body)
      /\ \A i \in 1 .. n : s[2 * i - 1] = lines[i] /\ s[2 * i] = LF
  <2>1. IsTextOf(C, s, f.body, lines)
    BY FrameText
  <2> QED
    BY <2>1, Zenon DEF IsTextOf, n
<1>5. Len(f.body) \in Nat
  BY DEF IsFrame
<1>6. p \in [1 .. n -> 1 .. Len(s)] /\ \A j, k \in 1 .. n : j < k => p[j] < p[k]
  <2> DEFINE b == Len(f.body)
             l == Len(s)
  <2>4. b \in Nat /\ l = 2 * n + 1 + b
    BY <1>4, <1>5
  <2>1. l \in Nat /\ 2 * n <= l
    <3> HIDE DEF b, l, n
    <3> QED
      BY <1>1, <2>4
  <2>2. \A k \in 1 .. n : 2 * k - 1 \in 1 .. l
    <3> HIDE DEF l, n
    <3> QED
      BY <1>1, <2>1
  <2>3. \A j, k \in 1 .. n : j < k => 2 * j - 1 < 2 * k - 1
    BY <1>1
  <2> HIDE DEF n
  <2> QED
    BY <2>2, <2>3
<1>7. \A i : i \in places <=> i \in {p[k] : k \in 1 .. n}
  <2>1. ASSUME NEW k \in 1 .. n PROVE p[k] \in places
    <3>1. 2 * k - 1 \in 1 .. 2 * n - 1
      BY <1>1
    <3> QED
      BY <1>2, <1>4, <3>1
  <2>2. ASSUME NEW i \in places PROVE \E k \in 1 .. n : i = p[k]
    <3>1. i \in 1 .. 2 * n - 1 /\ s[i] # LF
      OBVIOUS
    <3>2. CASE i % 2 = 0
      <4>1. i \div 2 \in 1 .. n /\ 2 * (i \div 2) = i
        BY <1>1, <3>1, <3>2
      <4> QED
        BY <1>4, <3>1, <4>1
    <3>3. CASE i % 2 = 1
      <4>1. (i + 1) \div 2 \in 1 .. n /\ 2 * ((i + 1) \div 2) - 1 = i
        BY <1>1, <3>1, <3>3
      <4> QED
        BY <4>1
    <3> QED
      BY <1>1, <3>1, <3>2, <3>3
  <2> HIDE DEF places, p
  <2> QED
    BY <2>1, <2>2
<1>8. places = {p[k] : k \in 1 .. n}
  <2> HIDE DEF places
  <2> QED
    BY <1>7
<1> HIDE DEF places
<1>9. \A k \in 1 .. n : p[k] = 2 * k - 1
  OBVIOUS
<1> HIDE DEF p
<1>10. Chosen(s, {p[k] : k \in 1 .. n}) = [k \in 1 .. n |-> s[p[k]]]
  <2>1. n \in Nat /\ s \in Seq(Tokens(C))
    BY <1>1, <1>4
  <2>2. p \in [1 .. n -> 1 .. Len(s)]
    BY <1>6
  <2>3. \A j, k \in 1 .. n : j < k => p[j] < p[k]
    BY <1>6
  <2>4. ChosenAreAt(s, n, p)
    BY <2>1, <2>2, <2>3, ChosenInOrder
  <2> QED
    BY <2>4, Zenon DEF ChosenAreAt
<1>11. [k \in 1 .. n |-> s[p[k]]] = lines
  <2>1. \A k \in 1 .. n : s[p[k]] = lines[k]
    BY <1>4, <1>9
  <2> QED
    BY <1>3, <2>1
<1>12. Chosen(s, places) = lines
  BY <1>8, <1>10, <1>11
<1> QED
  BY <1>12 DEF places, n

\* The headers that are read are those that were written, and the length.
HeadersRead(headers, f) ==
  /\ DOMAIN headers \ {ContentLength} = {ReadName(f.headers[j]) : j \in DOMAIN f.headers}
  /\ \A j \in DOMAIN f.headers :
       (\A k \in 1 .. j - 1 : ReadName(f.headers[k]) # ReadName(f.headers[j]))
         => headers[ReadName(f.headers[j])] = ReadValue(f.headers[j])
  /\ f.body = <<>> => ContentLength \notin DOMAIN headers
  /\ f.body # <<>> => /\ ContentLength \in DOMAIN headers
                      /\ headers[ContentLength][1].length = SizeOfUTF8(f.body)

\* That is what is made of the lines after the first.
LEMMA HeadersAreRead ==
  ASSUME NEW C, NEW f, IsFrame(f), f.command \in C, NEW lines, lines = FrameLines(f)
  PROVE  HeadersRead(HeadersOf(Tail(lines)), f)
<1> DEFINE hs == f.headers
           h == Len(hs)
           all == Tail(lines)
           m == Len(all)
           headers == HeadersOf(all)
           name(i) == NameOf(all[i])
           first(n) == CHOOSE i \in DOMAIN all : /\ NameOf(all[i]) = n
                                                 /\ \A j \in 1 .. i - 1 : NameOf(all[j]) # n
<1>1. /\ h \in Nat /\ DOMAIN hs = 1 .. h /\ \A i \in 1 .. h : ReadName(hs[i]) # ContentLength
  <2>1. hs \in Seq([name : Seq(Pieces), value : Seq(Pieces)])
        /\ \A i \in DOMAIN hs : ReadName(hs[i]) # ContentLength
    BY DEF IsFrame, ReadName
  <2> HIDE DEF hs
  <2>2. h \in Nat /\ DOMAIN hs = 1 .. h
    BY <2>1, Members
  <2> HIDE DEF h
  <2> QED
    BY <2>1, <2>2
<1>2. /\ lines \in Seq(LineTokens(C)) /\ Len(lines) = IF f.body = <<>> THEN h + 1 ELSE h + 2
      /\ \A i \in 1 .. h : lines[i + 1] = HeaderLine(hs[i].name, hs[i].value)
      /\ f.body # <<>> => lines[h + 2] = LengthLine(f)
  BY LinesOfFrame
<1> HIDE DEF h
<1>3. /\ all \in Seq(LineTokens(C)) /\ m = (IF f.body = <<>> THEN h ELSE h + 1)
      /\ \A i \in 1 .. m : all[i] = lines[i + 1]
  <2>1. lines # <<>>
    BY <1>1, <1>2
  <2> QED
    BY <1>1, <1>2, <2>1
<1>4. m \in Nat /\ DOMAIN all = 1 .. m
  BY <1>3, Members
<1> HIDE DEF all, m
<1>5. \A i \in 1 .. h : i \in 1 .. m /\ name(i) = ReadName(hs[i]) /\ ValueOf(all[i]) = ReadValue(hs[i])
  <2> TAKE i \in 1 .. h
  <2>1. i \in 1 .. m
    BY <1>1, <1>3
  <2>2. all[i] = HeaderLine(hs[i].name, hs[i].value)
    BY <1>2, <1>3, <2>1
  <2> HIDE DEF hs
  <2> QED
    BY <2>1, <2>2 DEF ReadName, ReadValue
<1>6. f.body # <<>> => /\ m = h + 1 /\ h + 1 \in 1 .. m /\ name(h + 1) = ContentLength
                       /\ ValueOf(all[h + 1])[1].length = SizeOfUTF8(f.body)
  <2> SUFFICES ASSUME f.body # <<>> PROVE /\ m = h + 1 /\ h + 1 \in 1 .. m
                                          /\ name(h + 1) = ContentLength
                                          /\ ValueOf(all[h + 1])[1].length = SizeOfUTF8(f.body)
    OBVIOUS
  <2>1. m = h + 1 /\ h + 1 \in 1 .. m /\ (h + 1) + 1 = h + 2
    BY <1>1, <1>3
  <2>2. all[h + 1] = LengthLine(f)
    BY <1>2, <1>3, <2>1
  <2>3. SizeOfUTF8(f.body) \in Nat
    BY BytesOfText DEF IsFrame
  <2>4. /\ NameOf(LengthLine(f)) = ContentLength
        /\ ValueOf(LengthLine(f))[1].length = SizeOfUTF8(f.body)
    BY <2>3, LengthIsRead DEF LengthLine
  <2> QED
    BY <2>1, <2>2, <2>4
<1>7. headers = [n \in {NameOf(all[i]) : i \in DOMAIN all} |-> ValueOf(all[first(n)])]
  BY DEF HeadersOf
<1> HIDE DEF headers
<1>8. DOMAIN headers = {name(i) : i \in 1 .. m}
  BY <1>4, <1>7
<1>9. ASSUME NEW j \in 1 .. m, \A k \in 1 .. j - 1 : name(k) # name(j)
      PROVE  headers[name(j)] = ValueOf(all[j])
  <2> DEFINE n == name(j)
             IsFirst(i) == NameOf(all[i]) = n /\ \A k \in 1 .. i - 1 : NameOf(all[k]) # n
  <2>1. IsFirst(j) /\ j \in DOMAIN all
    BY <1>4, <1>9
  <2>2. \A i \in DOMAIN all : IsFirst(i) => i = j
    <3> TAKE i \in DOMAIN all
    <3>1. i \in Nat /\ j \in Nat /\ 1 <= i /\ 1 <= j
      BY <1>4
    <3>2. i < j => i \in 1 .. j - 1
      BY <3>1
    <3>3. j < i => j \in 1 .. i - 1
      BY <3>1
    <3> QED
      BY <2>1, <3>1, <3>2, <3>3
  <2>3. first(n) = CHOOSE i \in DOMAIN all : IsFirst(i)
    OBVIOUS
  <2>4. headers[n] = ValueOf(all[first(n)])
    <3>1. n \in {NameOf(all[i]) : i \in DOMAIN all}
      BY <1>4
    <3> HIDE DEF n, first
    <3> QED
      BY <1>7, <3>1
  <2> HIDE DEF IsFirst, first
  <2>5. first(n) = j
    BY <2>1, <2>2, <2>3
  <2> QED
    BY <2>4, <2>5
<1> HIDE DEF name
<1>10. DOMAIN headers \ {ContentLength} = {ReadName(hs[j]) : j \in DOMAIN hs}
  <2>1. \A i \in 1 .. m : i \in 1 .. h \/ (i = h + 1 /\ f.body # <<>>)
    BY <1>1, <1>3, <1>4
  <2>2. \A i \in 1 .. m : name(i) # ContentLength => i \in 1 .. h
    BY <1>6, <2>1
  <2>3. \A n : n \in DOMAIN headers \ {ContentLength} => n \in {ReadName(hs[j]) : j \in DOMAIN hs}
    BY <1>1, <1>5, <1>8, <2>2
  <2>4. \A n : n \in {ReadName(hs[j]) : j \in DOMAIN hs} => n \in DOMAIN headers \ {ContentLength}
    BY <1>1, <1>5, <1>8
  <2> HIDE DEF hs
  <2> QED
    BY <2>3, <2>4
<1>11. ASSUME NEW j \in DOMAIN hs, \A k \in 1 .. j - 1 : ReadName(hs[k]) # ReadName(hs[j])
       PROVE  headers[ReadName(hs[j])] = ReadValue(hs[j])
  <2>1. j \in 1 .. m /\ \A k \in 1 .. j - 1 : k \in 1 .. h
    BY <1>1, <1>5
  <2>2. \A k \in 1 .. j - 1 : name(k) # name(j)
    BY <1>1, <1>5, <1>11, <2>1
  <2>3. headers[name(j)] = ValueOf(all[j])
    BY <1>9, <2>1, <2>2
  <2> QED
    BY <1>1, <1>5, <2>3
<1>12. ASSUME f.body = <<>> PROVE ContentLength \notin DOMAIN headers
  <2>1. m = h
    BY <1>3, <1>12
  <2> QED
    BY <1>1, <1>5, <1>8, <2>1
<1>13. ASSUME f.body # <<>>
       PROVE  /\ ContentLength \in DOMAIN headers
              /\ headers[ContentLength][1].length = SizeOfUTF8(f.body)
  <2>1. \A k \in 1 .. (h + 1) - 1 : name(k) # name(h + 1)
    BY <1>1, <1>5, <1>6, <1>13
  <2>2. headers[name(h + 1)] = ValueOf(all[h + 1])
    BY <1>6, <1>9, <1>13, <2>1
  <2> QED
    BY <1>6, <1>8, <1>13, <2>2
<1> QED
  BY <1>10, <1>11, <1>12, <1>13 DEF HeadersRead, headers, all

\* A frame is read from its text.
LEMMA FrameRead ==
  ASSUME NEW C, NEW f, IsFrame(f), f.command \in C
  PROVE  LET read == UnmarshallSingle(FrameToString(f))
         IN  read.command = f.command /\ read.body = f.body /\ HeadersRead(read.headers, f)
<1> DEFINE lines == FrameLines(f)
           s == FrameToString(f)
           n == Len(lines)
           b == Len(f.body)
           headers == HeadersOf(Tail(lines))
           rest == SubSeq(s, 2 * n + 2, Len(s))
           upTo == SubSeq(rest, 1, IF headers[ContentLength][1].length < Len(rest)
                                   THEN headers[ContentLength][1].length ELSE Len(rest))
           body == IF ContentLength \in DOMAIN headers THEN upTo ELSE rest
<1>1. lines \in Seq(LineTokens(C)) /\ n \in Nat /\ 1 <= n /\ lines[1] = CommandLine(f.command)
  BY LinesOfFrame
<1>2. IsTextOf(C, s, f.body, lines)
  BY FrameText
<1>3. Divider(s) = 2 * n
  BY DividerOfFrame
<1>4. Chosen(s, {i \in 1 .. 2 * n - 1 : s[i] # LF}) = lines
  BY LinesRead
<1>5. UnmarshallSingle(s) = [command |-> Head(lines).command, headers |-> headers, body |-> body]
  BY <1>3, <1>4 DEF UnmarshallSingle
<1>6. HeadersRead(headers, f)
  BY HeadersAreRead
<1>7. f.body \in Seq(Letters \cup {LF}) /\ b \in Nat /\ SizeOfUTF8(f.body) \in Nat /\ b <= SizeOfUTF8(f.body)
  <2>1. f.body \in Seq(Letters \cup {LF})
    BY DEF IsFrame
  <2> QED
    BY <2>1, BytesOfText
<1>8. Head(lines).command = f.command
  <2>1. Head(lines) = lines[1]
    BY <1>1
  <2> QED
    BY <1>1, <2>1 DEF CommandLine
<1> HIDE DEF lines, s, headers, n
<1>9. /\ s \in Seq(Tokens(C)) /\ Len(s) = 2 * n + 1 + b
      /\ \A j \in 1 .. b : s[2 * n + 1 + j] = f.body[j]
  BY <1>2, Zenon DEF IsTextOf, n
<1>10. rest = f.body
  <2> DEFINE d == 2 * n + 2
             t == f.body
             l == 2 * n + 1 + b
  <2>1. d \in Nat \ {0} /\ l = d - 1 + b /\ Len(s) = l
    <3>1. n \in Nat /\ b \in Nat
      BY <1>1, <1>7
    <3>2. Len(s) = l
      BY <1>9
    <3> HIDE DEF b
    <3> QED
      BY <3>1, <3>2
  <2>2. \A j \in 1 .. b : s[d + j - 1] = t[j]
    <3> TAKE j \in 1 .. b
    <3>1. d + j - 1 = 2 * n + 1 + j
      BY <1>1, <1>7
    <3> QED
      BY <1>9, <3>1
  <2>3. t \in Seq(Letters \cup {LF}) /\ s \in Seq(Tokens(C)) /\ Len(t) = b
    BY <1>7, <1>9
  <2> HIDE DEF d, t, l
  <2>4. Len(s) = d - 1 + Len(t) /\ \A j \in 1 .. Len(t) : s[d + j - 1] = t[j]
    BY <2>1, <2>2, <2>3
  <2>5. SubSeq(s, d, Len(s)) = t
    BY <2>1, <2>3, <2>4, RestOf
  <2> QED
    BY <2>5 DEF d, t, rest
<1> HIDE DEF rest
<1>11. body = f.body
  <2>1. CASE f.body = <<>>
    <3>1. ContentLength \notin DOMAIN headers
      BY <1>6, <2>1 DEF HeadersRead
    <3> QED
      BY <1>10, <3>1
  <2>2. CASE f.body # <<>>
    <3>1. ContentLength \in DOMAIN headers /\ headers[ContentLength][1].length = SizeOfUTF8(f.body)
      BY <1>6, <2>2 DEF HeadersRead
    <3>2. upTo = SubSeq(f.body, 1, b)
      <4>1. Len(rest) = b
        BY <1>10
      <4> DEFINE size == SizeOfUTF8(f.body)
      <4>2. (IF size < b THEN size ELSE b) = b
        <5> HIDE DEF size, b
        <5> QED
          BY <1>7 DEF size
      <4> QED
        BY <1>10, <3>1, <4>1, <4>2
    <3>3. SubSeq(f.body, 1, b) = f.body
      BY <1>7
    <3> QED
      BY <3>1, <3>2, <3>3
  <2> QED
    BY <2>1, <2>2
<1> HIDE DEF body
<1> QED
  BY <1>5, <1>6, <1>8, <1>11 DEF s

\* Two texts, each with a NUL after it, and line feeds in between.
IsStream(data, one, m, two) ==
  /\ Len(one) \in Nat \ {0} /\ m \in Nat /\ Len(two) \in Nat \ {0}
  /\ Len(data) = Len(one) + m + Len(two) + 2
  /\ \A i \in 1 .. Len(one) : data[i] = one[i] /\ one[i] # NULL
  /\ data[Len(one) + 1] = NULL
  /\ \A i \in 1 .. m : data[Len(one) + 1 + i] = LF
  /\ \A i \in 1 .. Len(two) : data[Len(one) + 1 + m + i] = two[i] /\ two[i] # NULL
  /\ data[Len(data)] = NULL
  /\ two[1] # LF

\* That is what two texts that are sent one after the other make.
LEMMA StreamOf ==
  ASSUME NEW T, NEW one \in Seq(T), NEW two \in Seq(T), LF \in T, NULL \in T, NEW m \in Nat,
         one # <<>>, two # <<>>, \A i \in 1 .. Len(one) : one[i] # NULL,
         \A i \in 1 .. Len(two) : two[i] # NULL, two[1] # LF,
         NEW data, data = Append(one, NULL) \o [i \in 1 .. m |-> LF] \o Append(two, NULL)
  PROVE  data \in Seq(T) /\ IsStream(data, one, m, two)
<1> DEFINE a == Len(one)
           b == Len(two)
           first == Append(one, NULL)
           feeds == [i \in 1 .. m |-> LF]
           last == Append(two, NULL)
           begin == first \o feeds
<1>1. a \in Nat \ {0} /\ b \in Nat \ {0}
  BY DEF a, b
<1>2. /\ first \in Seq(T) /\ Len(first) = a + 1 /\ first[a + 1] = NULL
      /\ \A i \in 1 .. a : first[i] = one[i]
  OBVIOUS
<1>3. /\ last \in Seq(T) /\ Len(last) = b + 1 /\ last[b + 1] = NULL
      /\ \A i \in 1 .. b : last[i] = two[i]
  OBVIOUS
<1>4. feeds \in Seq(T) /\ Len(feeds) = m /\ \A i \in 1 .. m : feeds[i] = LF
  OBVIOUS
<1> HIDE DEF first, last, feeds, a, b
<1>5. AreJoined(begin, first, feeds, T)
  BY <1>2, <1>4, Joined
<1>6. data = begin \o last
  BY DEF first, feeds, last
<1> HIDE DEF begin
<1>7. /\ begin \in Seq(T) /\ Len(begin) = a + 1 + m
      /\ \A i \in 1 .. a + 1 : begin[i] = first[i]
      /\ \A i \in 1 .. m : begin[a + 1 + i] = LF
  BY <1>1, <1>2, <1>4, <1>5 DEF AreJoined
<1>8. AreJoined(begin \o last, begin, last, T)
  BY <1>3, <1>7, Joined
<1>9. AreJoined(data, begin, last, T)
  BY <1>6, <1>8
<1>10. /\ data \in Seq(T) /\ Len(data) = a + m + b + 2
       /\ \A i \in 1 .. a + 1 + m : data[i] = begin[i]
       /\ \A i \in 1 .. b + 1 : data[a + 1 + m + i] = last[i]
  <2>1. /\ data \in Seq(T) /\ Len(data) = Len(begin) + Len(last)
        /\ \A i \in 1 .. Len(begin) : data[i] = begin[i]
        /\ \A i \in 1 .. Len(last) : data[Len(begin) + i] = last[i]
    BY <1>9 DEF AreJoined
  <2>2. Len(begin) = a + 1 + m /\ Len(last) = b + 1
    BY <1>3, <1>7
  <2>3. (a + 1 + m) + (b + 1) = a + m + b + 2
    BY <1>1
  <2> QED
    BY <2>1, <2>2, <2>3
<1>11. \A i \in 1 .. a : data[i] = one[i] /\ one[i] # NULL
  <2> TAKE i \in 1 .. a
  <2>1. i \in 1 .. a + 1 /\ i \in 1 .. a + 1 + m
    BY <1>1
  <2> QED
    BY <1>2, <1>7, <1>10, <2>1 DEF a
<1>12. data[a + 1] = NULL
  <2>1. a + 1 \in 1 .. a + 1 /\ a + 1 \in 1 .. a + 1 + m
    BY <1>1
  <2> QED
    BY <1>2, <1>7, <1>10, <2>1
<1>13. \A i \in 1 .. m : data[a + 1 + i] = LF
  <2> TAKE i \in 1 .. m
  <2>1. a + 1 + i \in 1 .. a + 1 + m
    BY <1>1
  <2> QED
    BY <1>7, <1>10, <2>1
<1>14. \A i \in 1 .. b : data[a + 1 + m + i] = two[i] /\ two[i] # NULL
  <2> TAKE i \in 1 .. b
  <2>1. i \in 1 .. b + 1
    BY <1>1
  <2> QED
    BY <1>3, <1>10, <2>1 DEF b
<1>15. data[Len(data)] = NULL
  <2>1. b + 1 \in 1 .. b + 1 /\ a + m + b + 2 = a + 1 + m + (b + 1)
    BY <1>1
  <2>2. Len(data) = a + 1 + m + (b + 1)
    BY <1>10, <2>1
  <2> QED
    BY <1>3, <1>10, <2>1, <2>2
<1> QED
  BY <1>1, <1>10, <1>11, <1>12, <1>13, <1>14, <1>15 DEF IsStream, a, b

\* A part of a sequence is another one.
LEMMA Stretch ==
  ASSUME NEW T, NEW s \in Seq(T), NEW U, NEW t \in Seq(U), NEW d \in Nat \ {0}, NEW e \in Nat,
         e = d - 1 + Len(t), \A j \in 1 .. Len(t) : s[d + j - 1] = t[j]
  PROVE  SubSeq(s, d, e) = t
<1> DEFINE b == Len(t)
           part == SubSeq(s, d, e)
<1>1. b \in Nat /\ e - d + 1 = b
  OBVIOUS
<1>2. part = [j \in 1 .. e - d + 1 |-> s[d + j - 1]]
  OBVIOUS
<1>3. t = [j \in 1 .. b |-> t[j]]
  OBVIOUS
<1>4. \A j \in 1 .. b : s[d + j - 1] = t[j]
  OBVIOUS
<1> HIDE DEF b, part
<1>5. part = [j \in 1 .. b |-> s[d + j - 1]]
  BY <1>1, <1>2
<1>6. [j \in 1 .. b |-> s[d + j - 1]] = [j \in 1 .. b |-> t[j]]
  BY <1>4
<1> QED
  BY <1>3, <1>5, <1>6 DEF part

\* The texts of a stream begin at 1 and after the line feeds.
Second(one, m) == Len(one) + m + 2

\* A stream has two NULs: after the first text and at its end.
LEMMA NullsOfStream ==
  ASSUME NEW data, NEW one, NEW m, NEW two, IsStream(data, one, m, two)
  PROVE  /\ {i \in 1 .. Len(data) : data[i] = NULL} = {Len(one) + 1, Len(data)}
         /\ Second(one, m) \in Nat /\ Len(one) + 1 < Second(one, m)
         /\ Len(data) = Second(one, m) + Len(two) /\ data[Second(one, m)] = two[1]
<1> DEFINE a == Len(one)
           b == Len(two)
           N == Len(data)
           p == Second(one, m)
<1>1. a \in Nat \ {0} /\ m \in Nat /\ b \in Nat \ {0} /\ N = a + m + b + 2 /\ p = a + m + 2
  BY DEF IsStream, Second
<1>2. /\ \A i \in 1 .. a : data[i] # NULL
      /\ data[a + 1] = NULL /\ data[N] = NULL
      /\ \A i \in 1 .. m : data[a + 1 + i] = LF
      /\ \A i \in 1 .. b : data[a + 1 + m + i] = two[i] /\ two[i] # NULL
  BY DEF IsStream
<1> HIDE DEF a, b, N, p
<1>3. ASSUME NEW i \in 1 .. N, data[i] = NULL PROVE i = a + 1 \/ i = N
  <2>1. CASE i <= a
    BY <1>1, <1>2, <1>3, <2>1
  <2>2. CASE ~ (i <= a + 1) /\ i <= a + 1 + m
    <3>1. i - (a + 1) \in 1 .. m /\ a + 1 + (i - (a + 1)) = i
      BY <1>1, <2>2
    <3>2. data[i] = LF
      BY <1>2, <3>1
    <3> QED
      BY <1>3, <3>2, TokensApart
  <2>3. CASE ~ (i <= a + 1 + m) /\ i < N
    <3>1. i - (a + 1 + m) \in 1 .. b /\ a + 1 + m + (i - (a + 1 + m)) = i
      BY <1>1, <2>3
    <3> QED
      BY <1>2, <1>3, <3>1
  <2> QED
    BY <1>1, <2>1, <2>2, <2>3
<1>4. a + 1 \in 1 .. N /\ N \in 1 .. N
  BY <1>1
<1>5. {i \in 1 .. N : data[i] = NULL} = {a + 1, N}
  BY <1>2, <1>3, <1>4
<1>6. p \in Nat /\ a + 1 < p /\ N = p + b
  BY <1>1
<1>7. data[p] = two[1]
  <2>1. 1 \in 1 .. b /\ a + 1 + m + 1 = p
    BY <1>1
  <2> QED
    BY <1>2, <2>1
<1> QED
  BY <1>5, <1>6, <1>7 DEF a, b, N, p

\* Where the next text begins after a NUL.
NextStart(data, i) ==
  CHOOSE s \in i + 1 .. Len(data) + 1 :
     /\ \A j \in i + 1 .. s - 1 : data[j] = LF
     /\ s <= Len(data) => data[s] # LF

\* Pieces of a stream begin at its begin, after the line feeds and at its end.
LEMMA StartsOfStream ==
  ASSUME NEW data, NEW one, NEW m, NEW two, IsStream(data, one, m, two)
  PROVE  PieceStarts(data) = {1, Second(one, m), Len(data) + 1}
<1> DEFINE a == Len(one)
           N == Len(data)
           p == Second(one, m)
           Is(i, s) == /\ \A j \in i + 1 .. s - 1 : data[j] = LF
                       /\ s <= N => data[s] # LF
           nulls == {i \in 1 .. N : data[i] = NULL}
<1>1. nulls = {a + 1, N}
  BY NullsOfStream
<1>2. PieceStarts(data) = {1} \cup {NextStart(data, i) : i \in nulls}
  BY DEF PieceStarts, NextStart
<1>3. \A i : NextStart(data, i) = CHOOSE s \in i + 1 .. N + 1 : Is(i, s)
  BY DEF NextStart
<1>4. /\ p \in Nat /\ a \in Nat /\ m \in Nat /\ N \in Nat /\ a + 1 < p /\ p <= N /\ p = a + m + 2
      /\ data[p] # LF
  <2>1. /\ a \in Nat \ {0} /\ m \in Nat /\ Len(two) \in Nat \ {0} /\ N = a + m + Len(two) + 2
        /\ two[1] # LF /\ p = a + m + 2
    BY DEF IsStream, Second
  <2>2. data[p] = two[1]
    BY NullsOfStream
  <2> HIDE DEF a, p, N
  <2> QED
    BY <2>1, <2>2
<1>5. \A j \in a + 2 .. p - 1 : data[j] = LF
  <2> TAKE j \in a + 2 .. p - 1
  <2>1. \A k \in 1 .. m : data[a + 1 + k] = LF
    BY DEF IsStream
  <2> HIDE DEF a, p
  <2>2. j - (a + 1) \in 1 .. m /\ a + 1 + (j - (a + 1)) = j
    BY <1>4
  <2> QED
    BY <2>1, <2>2
<1> HIDE DEF a, N, p, nulls
<1>6. NextStart(data, a + 1) = p
  <2> DEFINE s == NextStart(data, a + 1)
  <2>1. p \in (a + 1) + 1 .. N + 1
    BY <1>4
  <2>2. Is(a + 1, p)
    BY <1>4, <1>5
  <2>3. s \in (a + 1) + 1 .. N + 1 /\ Is(a + 1, s)
    <3>1. s = CHOOSE q \in (a + 1) + 1 .. N + 1 : Is(a + 1, q)
      BY <1>3
    <3> HIDE DEF s, Is
    <3> QED
      BY <2>1, <2>2, <3>1
  <2> HIDE DEF s
  <2>4. CASE s < p
    <3>1. s \in a + 2 .. p - 1 /\ s <= N
      BY <1>4, <2>3, <2>4
    <3> QED
      BY <1>5, <2>3, <3>1
  <2>5. CASE p < s
    <3>1. p \in (a + 1) + 1 .. s - 1
      BY <1>4, <2>3, <2>5
    <3> QED
      BY <1>4, <2>3, <3>1
  <2>6. s \in Int
    BY <2>3
  <2> QED
    BY <1>4, <2>4, <2>5, <2>6 DEF s
<1>7. NextStart(data, N) = N + 1
  <2>1. N + 1 .. N + 1 = {N + 1} /\ Is(N, N + 1)
    BY <1>4
  <2> HIDE DEF Is
  <2> QED
    BY <1>3, <2>1
<1> QED
  BY <1>1, <1>2, <1>6, <1>7 DEF N, p

\* What is read from each of them.
LEMMA PiecesOfStream ==
  ASSUME NEW T, NEW data \in Seq(T), NEW one \in Seq(T), NEW m, NEW two \in Seq(T),
         IsStream(data, one, m, two)
  PROVE  /\ PieceFrom(data, 1) = one
         /\ PieceFrom(data, Second(one, m)) = two
         /\ PieceFrom(data, Len(data) + 1) = <<>>
<1> DEFINE a == Len(one)
           b == Len(two)
           N == Len(data)
           p == Second(one, m)
           ends(s) == {i \in s .. N : data[i] = NULL}
           First(S) == CHOOSE i \in S : \A j \in S : i <= j
<1>1. {i \in 1 .. N : data[i] = NULL} = {a + 1, N}
  BY NullsOfStream
<1>2. /\ a \in Nat \ {0} /\ m \in Nat /\ b \in Nat \ {0} /\ p \in Nat /\ N \in Nat /\ a + 1 < p
      /\ p = a + m + 2 /\ N = p + b
  <2>1. /\ Len(one) \in Nat \ {0} /\ m \in Nat /\ Len(two) \in Nat \ {0}
        /\ N = a + m + b + 2 /\ p = a + m + 2
    BY DEF IsStream, Second
  <2> HIDE DEF N, p
  <2> QED
    BY <2>1
<1>3. \A i \in 1 .. a : data[i] = one[i]
  BY DEF IsStream
<1>4. \A i \in 1 .. b : data[p + i - 1] = two[i]
  <2> TAKE i \in 1 .. b
  <2>1. \A k \in 1 .. b : data[a + 1 + m + k] = two[k]
    BY DEF IsStream
  <2> HIDE DEF p, a, b
  <2>2. p + i - 1 = a + 1 + m + i
    BY <1>2
  <2> QED
    BY <2>1, <2>2
<1>5. \A s : PieceFrom(data, s)
              = SubSeq(data, s, IF ends(s) = {} THEN N ELSE First(ends(s)) - 1)
  BY DEF PieceFrom
<1> HIDE DEF a, b, N, p
<1>6. PieceFrom(data, 1) = one
  <2>1. ends(1) = {a + 1, N}
    BY <1>1
  <2>2. a + 1 < N
    BY <1>2
  <2>3. First({a + 1, N}) = a + 1
    BY <1>2, <2>2
  <2>4. PieceFrom(data, 1) = SubSeq(data, 1, a)
    <3>1. PieceFrom(data, 1) = SubSeq(data, 1, (a + 1) - 1)
      <4> HIDE DEF ends, First
      <4> QED
        BY <1>5, <2>1, <2>3
    <3>2. (a + 1) - 1 = a
      BY <1>2
    <3> QED
      BY <3>1, <3>2
  <2>5. a = 1 - 1 + a /\ \A j \in 1 .. a : 1 + j - 1 = j
    BY <1>2
  <2>6. a = 1 - 1 + Len(one) /\ \A j \in 1 .. Len(one) : data[1 + j - 1] = one[j]
    BY <1>3, <2>5 DEF a
  <2>7. SubSeq(data, 1, a) = one
    <3>1. 1 \in Nat \ {0} /\ a \in Nat
      BY <1>2
    <3>2. \A d \in Nat \ {0} : \A e \in Nat :
            (e = d - 1 + Len(one) /\ \A j \in 1 .. Len(one) : data[d + j - 1] = one[j])
              => SubSeq(data, d, e) = one
      BY Stretch
    <3> QED
      BY <2>6, <3>1, <3>2, Zenon
  <2> QED
    BY <2>4, <2>7
<1>7. PieceFrom(data, p) = two
  <2>1. ends(p) = {N}
    <3>1. \A i \in p .. N : i \in 1 .. N /\ i # a + 1
      BY <1>2
    <3>2. N \in p .. N
      BY <1>2
    <3> QED
      BY <1>1, <3>1, <3>2
  <2>2. First({N}) = N
    BY <1>2
  <2>3. PieceFrom(data, p) = SubSeq(data, p, N - 1)
    <3> HIDE DEF ends, First
    <3> QED
      BY <1>5, <2>1, <2>2
  <2>4. N - 1 = p - 1 + Len(two) /\ \A j \in 1 .. Len(two) : data[p + j - 1] = two[j]
    <3>1. N - 1 = p - 1 + b
      BY <1>2
    <3> QED
      BY <1>4, <3>1 DEF b
  <2>5. N - 1 \in Nat /\ p \in Nat \ {0}
    BY <1>2
  <2>6. SubSeq(data, p, N - 1) = two
    <3>1. \A d \in Nat \ {0} : \A e \in Nat :
            (e = d - 1 + Len(two) /\ \A j \in 1 .. Len(two) : data[d + j - 1] = two[j])
              => SubSeq(data, d, e) = two
      BY Stretch
    <3> QED
      BY <2>4, <2>5, <3>1, Zenon
  <2> QED
    BY <2>3, <2>6
<1>8. PieceFrom(data, N + 1) = <<>>
  <2>1. ends(N + 1) = {}
    BY <1>2
  <2>2. PieceFrom(data, N + 1) = SubSeq(data, N + 1, N)
    <3> HIDE DEF ends, First
    <3> QED
      BY <1>5, <2>1
  <2>3. SubSeq(data, N + 1, N) = <<>>
    BY <1>2
  <2> QED
    BY <2>2, <2>3
<1> QED
  BY <1>6, <1>7, <1>8 DEF N, p

\* A stream of two texts is read as two frames.
LEMMA StreamRead ==
  ASSUME NEW T, NEW data \in Seq(T), NEW one \in Seq(T), NEW m, NEW two \in Seq(T),
         IsStream(data, one, m, two)
  PROVE  Unmarshall(data) = <<UnmarshallSingle(one), UnmarshallSingle(two)>>
<1> DEFINE p == Second(one, m)
           N == Len(data)
           begins == {s \in PieceStarts(data) : PieceFrom(data, s) # <<>>}
           key == [s \in begins |-> s]
           starts == Sorted(begins, key)
<1>1. PieceStarts(data) = {1, p, N + 1}
  BY StartsOfStream
<1>2. PieceFrom(data, 1) = one /\ PieceFrom(data, p) = two /\ PieceFrom(data, N + 1) = <<>>
  BY PiecesOfStream
<1>3. one # <<>> /\ two # <<>>
  BY DEF IsStream
<1>4. begins = {1, p}
  <2> HIDE DEF p, N
  <2> QED
    BY <1>1, <1>2, <1>3
<1>5. p \in Nat /\ 1 < p
  <2>0. Len(one) \in Nat
    BY DEF IsStream
  <2>1. p \in Nat /\ Len(one) + 1 < p /\ Len(one) \in Nat
    BY <2>0, NullsOfStream
  <2> HIDE DEF p
  <2> QED
    BY <2>1
<1>6. Unmarshall(data) = [k \in DOMAIN starts |-> UnmarshallSingle(PieceFrom(data, starts[k]))]
  BY DEF Unmarshall
<1> HIDE DEF p, N, begins
<1>7. IsFiniteSet(begins) /\ Cardinality(begins) = 2
  <2>1. 1 # p
    BY <1>5
  <2> QED
    <3>1. IsFiniteSet({p}) /\ Cardinality({p}) = 1
      BY FS_Singleton
    <3>2. 1 \notin {p}
      BY <2>1
    <3>3. IsFiniteSet({p} \cup {1}) /\ Cardinality({p} \cup {1}) = 1 + 1
      BY <3>1, <3>2, FS_AddElement
    <3>4. begins = {p} \cup {1}
      BY <1>4
    <3>5. IsFiniteSet(begins) /\ Cardinality(begins) = 1 + 1
      BY <3>3, <3>4, Zenon
    <3> QED
      BY <3>5
<1>8. DOMAIN starts = 1 .. 2
  BY <1>7 DEF Sorted
<1>9. /\ \A x \in begins : key[x] \in Int
      /\ \A x, y \in begins : key[x] = key[y] => x = y
  BY <1>4, <1>5
<1>10. \A x \in begins : starts[Cardinality(Before(begins, key, x)) + 1] = x
  <2> HIDE DEF key
  <2> QED
    BY <1>7, <1>9, SortedPlaces
<1>11. Before(begins, key, 1) = {} /\ Before(begins, key, p) = {1}
  BY <1>4, <1>5 DEF Before
<1> HIDE DEF starts, key
<1>12. starts[1] = 1 /\ starts[2] = p
  <2>1. Cardinality({}) = 0 /\ Cardinality({1}) = 1
    BY FS_EmptySet, FS_Singleton
  <2>2. starts[0 + 1] = 1 /\ starts[1 + 1] = p
    BY <1>4, <1>10, <1>11, <2>1
  <2> QED
    BY <2>2
<1>13. Unmarshall(data) = [k \in 1 .. 2 |-> UnmarshallSingle(PieceFrom(data, starts[k]))]
  BY <1>6, <1>8
<1> QED
  BY <1>2, <1>12, <1>13

\* Two frames, whatever their commands, are read from the stream they are sent in.
LEMMA FramesOfStream ==
  ASSUME NEW f, NEW g, IsFrame(f), IsFrame(g), NEW m \in Nat
  PROVE  Unmarshall(Marshall(f) \o [i \in 1 .. m |-> LF] \o Marshall(g))
           = <<UnmarshallSingle(FrameToString(f)), UnmarshallSingle(FrameToString(g))>>
<1> DEFINE C == {f.command, g.command}
           T == Tokens(C)
           one == FrameToString(f)
           two == FrameToString(g)
           data == Append(one, NULL) \o [i \in 1 .. m |-> LF] \o Append(two, NULL)
<1>1. IsTextOf(C, one, f.body, FrameLines(f)) /\ IsTextOf(C, two, g.body, FrameLines(g))
  BY FrameText
<1>2. ASSUME NEW s, NEW body, NEW lines, IsTextOf(C, s, body, lines), Len(lines) \in Nat,
             Len(body) \in Nat
      PROVE  /\ s \in Seq(T) /\ s # <<>> /\ \A i \in 1 .. Len(s) : s[i] # NULL
             /\ s[1] # LF
  <2>1. /\ s \in Seq(T) /\ Len(s) = 2 * Len(lines) + 1 + Len(body)
        /\ \A i \in 1 .. Len(s) : s[i] # NULL
        /\ s[1] # LF
    BY <1>2, Zenon DEF IsTextOf, T
  <2>2. Len(s) # 0
    BY <1>2, <2>1
  <2>3. s # <<>>
    BY <2>2
  <2> QED
    BY <2>1, <2>3
<1>3. ASSUME NEW h, IsFrame(h), h.command \in C
      PROVE  Len(FrameLines(h)) \in Nat /\ Len(h.body) \in Nat
  <2>1. FrameLines(h) \in Seq(LineTokens(C))
    BY <1>3, LinesOfFrame
  <2>2. h.body \in Seq(Letters \cup {LF})
    BY <1>3 DEF IsFrame
  <2> QED
    BY <2>1, <2>2
<1>4. /\ Len(FrameLines(f)) \in Nat /\ Len(f.body) \in Nat
      /\ Len(FrameLines(g)) \in Nat /\ Len(g.body) \in Nat
  BY <1>3
<1>5. LF \in T /\ NULL \in T
  BY DEF Tokens
<1>6. Marshall(f) \o [i \in 1 .. m |-> LF] \o Marshall(g) = data
  BY DEF Marshall
<1> HIDE DEF T, one, two
<1>7. /\ one \in Seq(T) /\ one # <<>> /\ \A i \in 1 .. Len(one) : one[i] # NULL
      /\ two \in Seq(T) /\ two # <<>> /\ \A i \in 1 .. Len(two) : two[i] # NULL
      /\ two[1] # LF
  BY <1>1, <1>2, <1>4, Zenon
<1>8. data \in Seq(T) /\ IsStream(data, one, m, two)
  <2> HIDE DEF C
  <2> QED
    BY <1>5, <1>7, StreamOf
<1> HIDE DEF data
<1>9. Unmarshall(data) = <<UnmarshallSingle(one), UnmarshallSingle(two)>>
  BY <1>7, <1>8, StreamRead
<1> QED
  BY <1>6, <1>9 DEF one, two

\* What a frame is read as.
IsRead(read, f) ==
  /\ read.command = f.command /\ read.body = f.body
  /\ (\A j \in DOMAIN f.headers : PlainName(f.headers[j].name)) =>
       /\ DOMAIN read.headers \ {ContentLength} = {f.headers[j].name : j \in DOMAIN f.headers}
       /\ \A j \in DOMAIN f.headers :
            (\A k \in 1 .. j - 1 : f.headers[k].name # f.headers[j].name)
              => LET value == read.headers[f.headers[j].name]
                 IN  Tight(value) /\ IsRestOf(value, f.headers[j].value)

\* A frame is read as it was, its values without the blanks at their ends.
LEMMA FrameIsRead ==
  ASSUME NEW f, IsFrame(f) PROVE IsRead(UnmarshallSingle(FrameToString(f)), f)
<1> DEFINE read == UnmarshallSingle(FrameToString(f))
           hs == f.headers
<1>1. f.command \in {f.command}
  OBVIOUS
<1>2. read.command = f.command /\ read.body = f.body /\ HeadersRead(read.headers, f)
  BY <1>1, FrameRead
<1>3. /\ Len(hs) \in Nat /\ DOMAIN hs = 1 .. Len(hs)
      /\ \A j \in DOMAIN hs : hs[j].name \in Seq(Pieces) /\ hs[j].value \in Seq(Pieces)
  <2>1. hs \in Seq([name : Seq(Pieces), value : Seq(Pieces)])
    BY DEF IsFrame
  <2> HIDE DEF hs
  <2>2. \A j \in DOMAIN hs : hs[j] \in [name : Seq(Pieces), value : Seq(Pieces)]
    BY <2>1, Members
  <2>3. Len(hs) \in Nat /\ DOMAIN hs = 1 .. Len(hs)
    BY <2>1, Members
  <2> QED
    BY <2>2, <2>3
<1>4. /\ DOMAIN read.headers \ {ContentLength} = {ReadName(hs[j]) : j \in DOMAIN hs}
      /\ \A j \in DOMAIN hs :
           (\A k \in 1 .. j - 1 : ReadName(hs[k]) # ReadName(hs[j]))
             => read.headers[ReadName(hs[j])] = ReadValue(hs[j])
  BY <1>2, Zenon DEF HeadersRead
<1> HIDE DEF read, hs
<1>5. ASSUME \A j \in DOMAIN hs : PlainName(hs[j].name)
      PROVE  /\ DOMAIN read.headers \ {ContentLength} = {hs[j].name : j \in DOMAIN hs}
             /\ \A j \in DOMAIN hs :
                  (\A k \in 1 .. j - 1 : hs[k].name # hs[j].name)
                    => LET value == read.headers[hs[j].name]
                       IN  Tight(value) /\ IsRestOf(value, hs[j].value)
  <2>1. \A j \in DOMAIN hs : /\ ReadName(hs[j]) = hs[j].name
                             /\ Tight(ReadValue(hs[j])) /\ IsRestOf(ReadValue(hs[j]), hs[j].value)
    BY <1>3, <1>5, PlainIsRead
  <2>2. {ReadName(hs[j]) : j \in DOMAIN hs} = {hs[j].name : j \in DOMAIN hs}
    BY <2>1
  <2>3. ASSUME NEW j \in DOMAIN hs, \A k \in 1 .. j - 1 : hs[k].name # hs[j].name
        PROVE  read.headers[hs[j].name] = ReadValue(hs[j])
    <3>1. \A k \in 1 .. j - 1 : k \in DOMAIN hs
      BY <1>3
    <3>2. \A k \in 1 .. j - 1 : ReadName(hs[k]) # ReadName(hs[j])
      BY <2>1, <2>3, <3>1
    <3> QED
      BY <1>4, <2>1, <3>2
  <2> QED
    BY <1>4, <2>1, <2>2, <2>3
<1> QED
  BY <1>2, <1>5, Zenon DEF IsRead, read, hs

\* Every question about frames is answered right.
LEMMA FramesAnswered == AskedOfQuestions => FramesSurvive
<1> SUFFICES ASSUME AskedOfQuestions, Asked("frames") PROVE FramesSurvive
  BY DEF FramesSurvive
<1> DEFINE fs == probe.input.frames
           feeds == [i \in 1 .. probe.input.feeds |-> LF]
           read == Unmarshall(Marshall(fs[1]) \o feeds \o Marshall(fs[2]))
<1>1. IsFrames(probe.input)
  BY InputAsked, CalculationsAssumption DEF CalculationsAssumption
<1>2. IsFrame(fs[1]) /\ IsFrame(fs[2]) /\ probe.input.feeds \in Nat
  BY <1>1 DEF IsFrames
<1>3. read = <<UnmarshallSingle(FrameToString(fs[1])), UnmarshallSingle(FrameToString(fs[2]))>>
  <2> DEFINE f == fs[1]
             g == fs[2]
             m == probe.input.feeds
  <2>1. IsFrame(f) /\ IsFrame(g) /\ m \in Nat
    BY <1>2
  <2>2. Unmarshall(Marshall(f) \o [i \in 1 .. m |-> LF] \o Marshall(g))
          = <<UnmarshallSingle(FrameToString(f)), UnmarshallSingle(FrameToString(g))>>
    <3> HIDE DEF f, g, m
    <3> QED
      BY <2>1, FramesOfStream
  <2> QED
    BY <2>2
<1> HIDE DEF read
<1>4. Len(read) = 2 /\ \A i \in 1 .. 2 : IsRead(read[i], fs[i])
  <2> HIDE DEF fs
  <2>1. /\ Len(read) = 2 /\ read[1] = UnmarshallSingle(FrameToString(fs[1]))
        /\ read[2] = UnmarshallSingle(FrameToString(fs[2]))
    BY <1>3
  <2>2. IsRead(read[1], fs[1]) /\ IsRead(read[2], fs[2])
    BY <1>2, <2>1, FrameIsRead
  <2> QED
    BY <2>1, <2>2
<1> HIDE DEF fs
<1>5. /\ Len(read) = 2
      /\ \A i \in 1 .. 2 :
           LET headers == fs[i].headers
           IN  /\ read[i].command = fs[i].command
               /\ read[i].body = fs[i].body
               /\ (\A j \in DOMAIN headers : PlainName(headers[j].name)) =>
                    /\ DOMAIN read[i].headers \ {ContentLength}
                         = {headers[j].name : j \in DOMAIN headers}
                    /\ \A j \in DOMAIN headers :
                         (\A k \in 1 .. j - 1 : headers[k].name # headers[j].name) =>
                             LET value == read[i].headers[headers[j].name]
                             IN  Tight(value) /\ IsRestOf(value, headers[j].value)
  BY <1>4, Zenon DEF IsRead
<1> QED
  BY <1>5 DEF FramesSurvive, fs, read

\* Text that is given to stomp.js arrives as it was: frames in a stream are read
\* with the commands and bodies they were sent with, and with their headers if
\* their names are plain, the values without the blanks at their ends; and the
\* pieces of a text are the text.
THEOREM StompTextAlwaysSurvives == CalculationsSpec => []StompTextSurvives
<1>1. CalculationsInit => AskedOfQuestions
  BY DEF CalculationsInit, AskedOfQuestions
<1>2. AskedOfQuestions => StompTextSurvives
  BY FramesAnswered, PiecesAnswered DEF StompTextSurvives
<1> QED
  BY <1>1, <1>2, QuestionsKept, PTL DEF CalculationsSpec
=============================================================================
