------------------------------- MODULE SockJS -------------------------------
(***************************************************************************)
(* The socket of sock.js: it asks the server for /info, tries the          *)
(* protocols that fit one after the other, each with a timer of its own,   *)
(* and is open when one of them has brought the frame o.  A transport is   *)
(* here a pair of queues that may break at any time; how each keeps its    *)
(* messages in order is the subject of Transports.  Every transport has a  *)
(* session of its own on the server (external), which numbers its messages *)
(* from 1.                                                                 *)
(***************************************************************************)
EXTENDS Integers, Sequences, FiniteSets

CONSTANTS ProtocolLists,  \* what detectProtocols may return
          NeedBody,       \* the protocols with need_body
          MaxPayloads,    \* bound on messages of a session to the page
          MaxSends,       \* bound on messages of the page
          MaxQueue        \* bound on frames under way to the page

ASSUME BoundsAssumption == /\ MaxPayloads \in Nat /\ MaxSends \in Nat /\ MaxQueue \in Nat \ {0}
                           /\ \A list \in ProtocolLists : list \in Seq(STRING)

VARIABLES
    s,          \* the SockJS object, see Created
    complete,   \* document.readyState is complete
    load,       \* a listener waits for the event load
    live,       \* transports that were made and not cleaned up
    timers,     \* transports whose time-out has not run and was not cleared
    event,      \* code of the close event that the page gets or got
    closing,    \* of SocketService
    batch,      \* payloads of an array frame not yet dispatched
    wire,       \* frames on their way to each transport
    produced,   \* messages each session has sent, Unopened before its o
    delivered,  \* history: number of the last message dispatched
    sent, arrived,  \* messages of the page: handed to a transport, at the server
    detected    \* history: the list from /info

page == <<sent, arrived, delivered>>
server == <<wire, produced>>
browser == <<complete, load>>
vars == <<s, complete, load, live, timers, event, closing, batch, wire, produced, delivered,
          sent, arrived, detected>>

NoTransport == 0
Unopened == -1
Transports == DOMAIN wire
UserSetCode(code) == code = 1000 \/ code \in 3000 .. 4999

Created == [readyState |-> "connecting", ir |-> "delayed", protocols |-> <<>>,
            transport |-> NoTransport, transportTref |-> NoTransport]

Init ==
    /\ s = Created
    /\ complete \in BOOLEAN /\ load = FALSE
    /\ live = {} /\ timers = {} /\ event = 0 /\ closing = "none" /\ batch = <<>>
    /\ wire = <<>> /\ produced = <<>>
    /\ delivered = 0 /\ sent = 0 /\ arrived = 0 /\ detected = <<>>

TypeOK ==
    /\ s.readyState \in {"connecting", "open", "closed"}
    /\ s.ir \in {"delayed", "asked", "garbled", "none"}
    /\ s.transport \in Transports \cup {NoTransport} /\ s.transportTref \in Transports \cup {NoTransport}
    /\ live \subseteq Transports /\ timers \subseteq Transports
    /\ closing \in {"none", "due", "fired"}
    /\ complete \in BOOLEAN /\ load \in BOOLEAN
    /\ DOMAIN produced = Transports /\ Cardinality(Transports) <= Len(detected)
    /\ sent \in 0 .. MaxSends /\ arrived \in 0 .. sent /\ delivered \in 0 .. MaxPayloads

\* JavaScript runs a handler to its end: other events wait.
Idle == batch = <<>>

-----------------------------------------------------------------------------
(* _didClose and _try_next_protocol, from an object o whose info receiver  *)
(* and transport are done with; `running` and `pending` are the transports *)
(* and timers that are left then.                                          *)

Waits(o) == Head(o.protocols) \in NeedBody /\ ~ complete

\* Mutant: the timer of the transport before is left running.
ClearedKept(o, pending) == pending
Cleared(o, pending) == pending \ {o.transportTref}

\* Mutant: the transport gets no time-out.
ArmedNot(t, pending) == pending
Armed(t, pending) == pending \cup {t}

\* Mutant: the protocol stays in the list.
RestKept(list) == list
Rest(list) == Tail(list)

\* Every protocol in the list was probed, so none is skipped here.
TryNext(o, running, pending) ==
    IF Waits(o)
    THEN /\ s' = [o EXCEPT !.transportTref = NoTransport]
         /\ load' = TRUE
         /\ live' = running /\ timers' = Cleared(o, pending)
         /\ UNCHANGED server
    ELSE LET t == Len(wire) + 1
         IN  /\ s' = [o EXCEPT !.protocols = Rest(@), !.transport = t, !.transportTref = t]
             /\ live' = running \cup {t} /\ timers' = Armed(t, Cleared(o, pending))
             /\ wire' = Append([u \in Transports |-> <<>>], <<>>)
             /\ produced' = Append(produced, Unopened)
             /\ UNCHANGED load

\* Mutant: the transport is not cleaned up.
CleanedUpNot(o, running) == running
CleanedUp(o, running) == running \ {o.transport}

\* Mutant: the socket gives up when the first protocol fails.
GoesOnNever(o, code) == o.readyState = "connecting" /\ ~ UserSetCode(code) /\ o.protocols # <<>> /\ wire = <<>>
GoesOn(o, code) == o.readyState = "connecting" /\ ~ UserSetCode(code) /\ o.protocols # <<>>

\* Called by the open or connecting object only.  When there is no protocol left
\* to try the event's code is 2000.
DidClose(o, code, force, pending) ==
    LET closed == [o EXCEPT !.ir = "none", !.transport = NoTransport]
    IN  IF GoesOn(o, code) /\ ~ force
        THEN /\ TryNext(closed, CleanedUp(o, live), pending)
             /\ UNCHANGED <<event, closing>>
        ELSE /\ s' = [closed EXCEPT !.readyState = "closed"]
             /\ live' = CleanedUp(o, live)
             /\ timers' = IF o.readyState = "connecting" /\ ~ UserSetCode(code) /\ ~ force
                          THEN Cleared(o, pending) ELSE pending
             /\ event' = IF o.readyState = "connecting" /\ ~ UserSetCode(code) /\ ~ force
                         THEN 2000 ELSE code
             /\ closing' = "due"
             /\ wire' = [u \in Transports |-> <<>>]
             /\ UNCHANGED <<load, produced>>

Stopped == s.readyState = "closed"

-----------------------------------------------------------------------------
(* The request for /info.  A closed socket has nuked the receiver.         *)

InfoAsked ==
    /\ Idle /\ s.ir = "delayed"
    /\ s' = [s EXCEPT !.ir = "asked"]
    /\ UNCHANGED <<browser, live, timers, event, closing, batch, server, page, detected>>

ApplyInfo(list) == [s EXCEPT !.protocols = list, !.ir = "none"]

\* The list is put together, and _didClose without a code starts with it.
InfoArrives ==
    /\ Idle /\ s.ir = "asked"
    /\ \E list \in ProtocolLists :
        /\ detected' = list
        /\ DidClose(ApplyInfo(list), 0, FALSE, timers)
    /\ UNCHANGED <<complete, batch, page>>

\* Another status, no answer within 8 s or a broken connection.
InfoFails ==
    /\ Idle /\ s.ir = "asked"
    /\ DidClose([s EXCEPT !.ir = "none"], 1002, TRUE, timers)
    /\ UNCHANGED <<complete, batch, page, detected>>

\* A body that is no JSON: JSON.parse throws when the timer has been cleared, and
\* nothing tells the socket.
InfoGarbled ==
    /\ Idle /\ s.ir = "asked"
    /\ s' = [s EXCEPT !.ir = "garbled"]
    /\ UNCHANGED <<browser, live, timers, event, closing, batch, server, page, detected>>

-----------------------------------------------------------------------------
(* Events of the browser.                                                  *)

\* The listener tries the next protocol whatever has become of the socket.
Loads ==
    /\ Idle /\ ~ complete
    /\ complete' = TRUE
    /\ IF load
       THEN LET t == Len(wire) + 1
            IN  /\ s' = [s EXCEPT !.protocols = Rest(@), !.transport = t, !.transportTref = t]
                /\ live' = live \cup {t}
                /\ timers' = Armed(t, Cleared(s, timers))
                /\ wire' = Append(wire, <<>>) /\ produced' = Append(produced, Unopened)
                /\ load' = FALSE
       ELSE UNCHANGED <<s, live, timers, server, load>>
    /\ UNCHANGED <<event, closing, batch, page, detected>>

TransportTimesOut(t) ==
    /\ Idle /\ t \in timers
    /\ IF s.readyState = "connecting"
       THEN /\ DidClose(s, 2007, FALSE, timers \ {t})
            /\ UNCHANGED <<complete, batch, page, detected>>
       ELSE /\ timers' = timers \ {t}
            /\ UNCHANGED <<s, browser, live, event, closing, batch, server, page, detected>>

CloseEvent ==
    /\ Idle /\ closing = "due"
    /\ closing' = "fired"
    /\ UNCHANGED <<s, browser, live, timers, event, batch, server, page, detected>>

-----------------------------------------------------------------------------
(* Frames.  On a closed socket _didClose throws, and nothing changes but   *)
(* that the frame is gone.                                                 *)

Consume(t) == wire' = [wire EXCEPT ![t] = Tail(@)] /\ UNCHANGED produced

Ignore(t) ==
    /\ Consume(t)
    /\ UNCHANGED <<s, browser, live, timers, event, closing, batch, page, detected>>

\* A frame that ends the transport it came by: what is on its wire is lost.
Ends(code) ==
    /\ DidClose(s, code, FALSE, timers)
    /\ UNCHANGED <<complete, batch, page, detected>>

GetOpen(t) ==
    /\ Idle /\ t \in live /\ wire[t] # <<>> /\ Head(wire[t]).type = "o"
    /\ CASE s.readyState = "connecting" ->
            /\ Consume(t)
            /\ s' = [s EXCEPT !.readyState = "open", !.transportTref = NoTransport]
            /\ timers' = timers \ {s.transportTref}
            /\ UNCHANGED <<browser, live, event, closing, batch, page, detected>>
         [] s.readyState = "open" -> Ends(1006)
         [] OTHER -> Ignore(t)

GetArray(t) ==
    /\ Idle /\ t \in live /\ wire[t] # <<>> /\ Head(wire[t]).type = "a"
    /\ batch' = Head(wire[t]).payload
    /\ Consume(t)
    /\ UNCHANGED <<s, browser, live, timers, event, closing, page, detected>>

GetHeartbeat(t) ==
    /\ Idle /\ t \in live /\ wire[t] # <<>> /\ Head(wire[t]).type = "h"
    /\ Ignore(t)

GetClose(t) ==
    /\ Idle /\ t \in live /\ wire[t] # <<>> /\ Head(wire[t]).type = "c"
    /\ IF Stopped THEN Ignore(t) ELSE Ends(Head(wire[t]).code)

\* The transport reports 1006 because its connection broke or a message could not
\* be sent.
TransportBreaks(t) ==
    /\ Idle /\ t \in live /\ ~ Stopped
    /\ Ends(1006)

\* Mutant: the state is looked at once for the whole array.
DispatchesAlways == TRUE
Dispatches == s.readyState = "open"

\* One payload of the array; its callback may call the socket.
DispatchMessage ==
    /\ batch # <<>>
    /\ batch' = Tail(batch)
    /\ delivered' = IF Dispatches THEN Head(batch) ELSE delivered
    /\ UNCHANGED <<s, browser, live, timers, event, closing, server, sent, arrived, detected>>

-----------------------------------------------------------------------------
(* Calls of the page.  In other states close does nothing, and send throws *)
(* or does nothing.                                                        *)

Close ==
    /\ ~ Stopped
    /\ DidClose(s, 1000, FALSE, timers)
    /\ UNCHANGED <<complete, batch, page, detected>>

Send ==
    /\ s.readyState = "open" /\ sent < MaxSends
    /\ sent' = sent + 1
    /\ UNCHANGED <<s, browser, live, timers, event, closing, batch, server, arrived, delivered, detected>>

-----------------------------------------------------------------------------
(* The server and what carries the messages (external).                    *)

Put(t, frame) == wire' = [wire EXCEPT ![t] = Append(@, frame)]
Room(t) == t \in live /\ Len(wire[t]) < MaxQueue
Calm == UNCHANGED <<s, browser, live, timers, event, closing, batch, page, detected>>

\* A session that is reached again after it was lost says o again.
ServerOpens(t) ==
    /\ Room(t)
    /\ Put(t, [type |-> "o"])
    /\ produced' = [produced EXCEPT ![t] = IF @ = Unopened THEN 0 ELSE @]
    /\ Calm

ServerSends(t) ==
    /\ Room(t) /\ produced[t] # Unopened
    /\ \E n \in 1 .. 2 :
        /\ produced[t] + n <= MaxPayloads
        /\ Put(t, [type |-> "a", payload |-> [i \in 1 .. n |-> produced[t] + i]])
        /\ produced' = [produced EXCEPT ![t] = @ + n]
    /\ Calm

ServerBeats(t) ==
    /\ Room(t)
    /\ Put(t, [type |-> "h"])
    /\ UNCHANGED produced /\ Calm

ServerCloses(t) ==
    /\ Room(t)
    /\ \E code \in {2010, 3000} : Put(t, [type |-> "c", code |-> code])
    /\ UNCHANGED produced /\ Calm

ServerGets ==
    /\ arrived < sent
    /\ arrived' \in arrived + 1 .. sent
    /\ UNCHANGED <<s, browser, live, timers, event, closing, batch, server, delivered, sent, detected>>

-----------------------------------------------------------------------------
Info == InfoAsked \/ InfoArrives \/ InfoFails \/ InfoGarbled
Get(t) == GetOpen(t) \/ GetArray(t) \/ GetHeartbeat(t) \/ GetClose(t)

Next ==
    \/ Info \/ Loads \/ CloseEvent \/ DispatchMessage \/ Close \/ Send \/ ServerGets
    \/ \E t \in Transports : \/ TransportTimesOut(t) \/ TransportBreaks(t) \/ Get(t)
                             \/ ServerOpens(t) \/ ServerSends(t) \/ ServerBeats(t) \/ ServerCloses(t)

Spec == Init /\ [][Next]_vars

\* Handlers that are due run, timers fire, and the page is loaded some day.  The
\* server and the network may do nothing at all: the time-out of /info stands
\* for them in InfoFails.
FairSpec == /\ Spec
            /\ WF_vars(InfoAsked) /\ WF_vars(InfoFails) /\ WF_vars(Loads)
            /\ WF_vars(CloseEvent) /\ WF_vars(DispatchMessage)
            /\ WF_vars(\E t \in Transports : TransportTimesOut(t))

-----------------------------------------------------------------------------
(* Properties.                                                             *)

Socket == INSTANCE SocketService WITH state <- s.readyState

\* The page sees a socket as SocketService promises it, whichever transports were
\* tried before: one open at most, messages of one session in order, none after
\* close although the rest of an array may be waiting, one close event.
ImplementsSocket == Socket!Spec

\* No transport goes on that the object does not hold: one that failed, timed out
\* or was closed has been cleaned up before the next was made.
OneTransport == live = {s.transport} \ {NoTransport}

\* While the socket connects, the time-out that can strike is that of the protocol
\* being tried, not one of a protocol that has failed already.
TimeoutIsOwn == s.readyState = "connecting" => timers \subseteq {s.transport}

\* The page is told that all transports failed only when each was tried.
AllTried == event = 2000 => Len(wire) = Len(detected)

\* So transports are tried one at a time, each with a time-out of its own, until
\* one opens or none is left.
OneAtATime == OneTransport /\ TimeoutIsOwn /\ AllTried

\* A socket does not connect for ever: it opens or the page gets its close event,
\* unless /info answered with something that is no JSON.
Settles == s.readyState = "connecting" ~> \/ s.readyState = "open"
                                          \/ closing = "fired"
                                          \/ s.ir = "garbled"
=============================================================================
