----------------------------- MODULE Transports -----------------------------
(***************************************************************************)
(* The transports of sock.js that ask and send by separate requests: a     *)
(* receiver (XHR, EventSource, htmlfile or JSONP) that asks again when a   *)
(* response has ended, and the buffered sender, either in the page or in   *)
(* an iframe that talks to the page by postMessage.  A frame is its number *)
(* in the session of the server (external).                                *)
(***************************************************************************)
EXTENDS Integers, Sequences, FiniteSets

CONSTANTS Kinds,      \* transports: [receiver, framed]
          MaxFrames,  \* bound on frames of the session
          MaxSends,   \* bound on messages of the page
          MaxEnds     \* bound on responses that end, of which one more may close the session

\* xhr-streaming and xhr-polling, with their forms across domains, and jsonp-polling
PageReceivers == {"xhr", "jsonp"}
\* iframe-eventsource, iframe-xhr-polling and iframe-htmlfile
FramedReceivers == {"eventsource", "xhr", "htmlfile"}

ASSUME KindsAssumption == Kinds \subseteq [receiver : PageReceivers, framed : {FALSE}]
                                    \cup [receiver : FramedReceivers, framed : {TRUE}]
ASSUME BoundsAssumption == MaxFrames \in Nat /\ MaxSends \in Nat /\ MaxEnds \in Nat

VARIABLES
    kind,      \* the transport
    cleaned,   \* doCleanup was called
    given,     \* history: frames the socket got
    iframe,    \* "none", "loading", "loaded", "ready", "removing", "removed"
    facade,    \* the transport was made: in the iframe, when the page said so
    up, down,  \* messages between the iframe and the page
    recv,      \* the receiver's request: [phase, text, end, started]
    lines,     \* frames still to be dispatched in the handler that runs
    session,   \* the server's: [next, lost, ends]
    buffer, stop, posts,  \* the sender: send_buffer, send_stop, requests under way
    sent, arrived         \* messages the page sent, messages at the server

socket == <<cleaned, given>>
windows == <<iframe, facade, up, down>>
receiver == <<recv, lines>>
sender == <<buffer, stop, posts>>
vars == <<kind, socket, windows, receiver, session, sender, sent, arrived>>

CloseFrame == 0
Hello == -1

NoRequest == [phase |-> "none", text |-> <<>>, end |-> "no", started |-> FALSE]
\* XHR objects start their request in a time-out of their own.
NewRequest == [NoRequest EXCEPT !.phase = IF kind.receiver = "xhr" THEN "delayed" ELSE "open"]

Init ==
    /\ kind \in Kinds
    /\ cleaned = FALSE /\ given = <<>>
    /\ iframe = (IF kind.framed THEN "loading" ELSE "none")
    /\ facade = ~ kind.framed /\ up = <<>> /\ down = <<>>
    /\ recv = (IF kind.framed THEN NoRequest ELSE NewRequest) /\ lines = <<>>
    /\ session = [next |-> 1, lost |-> FALSE, ends |-> 0]
    /\ buffer = <<>> /\ stop = "null" /\ posts = {}
    /\ sent = 0 /\ arrived = {}

TypeOK ==
    /\ iframe \in {"none", "loading", "loaded", "ready", "removing", "removed"}
    /\ recv.phase \in {"none", "delayed", "open", "closing", "finishing", "zombie"}
    /\ recv.end \in {"no", "ok", "broken"}
    /\ \A i \in DOMAIN given : given[i] \in 1 .. MaxFrames
    /\ stop \in {"null", "request", "wait"}
    /\ arrived \subseteq 1 .. sent /\ sent \in 0 .. MaxSends
    /\ Cardinality(posts) <= 1

\* The window that the transport runs in is there, and no handler runs.
Idle == iframe # "removed" /\ lines = <<>> /\ recv.phase # "finishing"

-----------------------------------------------------------------------------
(* The socket's side.                                                      *)

\* What abort makes of a request of the page's.  One that was not started yet will
\* start all the same, unheard.
Aborted(request) == IF request.phase = "delayed" THEN request ELSE NoRequest

\* Mutant: the handlers of the polling object stay in place.
Unheard(frames) == frames
Heard(frames) == <<>>

\* doCleanup.  That of an iframe means to tell it, but looks for the window in the
\* wrong place; the iframe is taken out of the document a moment later.
CleanUp ==
    /\ cleaned' = TRUE
    /\ IF kind.framed
       THEN iframe' = "removing" /\ UNCHANGED receiver
       ELSE recv' = Aborted(recv) /\ lines' = Heard(lines) /\ UNCHANGED iframe

\* By the page, or because the socket was told of an end.
SocketCleansUp ==
    /\ ~ cleaned
    /\ CleanUp
    /\ UNCHANGED <<kind, given, facade, up, down, session, sender, sent, arrived>>

IframeRemoved ==
    /\ iframe = "removing"
    /\ iframe' = "removed"
    /\ recv' = NoRequest /\ lines' = <<>> /\ buffer' = <<>> /\ posts' = {}
    /\ UNCHANGED <<kind, socket, facade, up, down, session, stop, sent, arrived>>

\* ri._didMessage or ri._didClose: a frame for the socket, from an iframe by way of
\* the facade.  A cleaned socket throws or ignores it.
Tell(frame, r, rest) ==
    CASE kind.framed ->
            /\ up' = Append(up, frame) /\ recv' = r /\ lines' = rest
            /\ UNCHANGED <<socket, iframe>>
      [] ~ kind.framed /\ frame = CloseFrame ->
            /\ cleaned' = TRUE
            /\ IF cleaned THEN recv' = r /\ lines' = rest
                          ELSE recv' = Aborted(r) /\ lines' = Heard(rest)
            /\ UNCHANGED <<given, iframe, up>>
      [] OTHER ->
            /\ given' = Append(given, frame) /\ recv' = r /\ lines' = rest
            /\ UNCHANGED <<cleaned, iframe, up>>

-----------------------------------------------------------------------------
(* The iframe.                                                             *)

IframeLoads ==
    /\ iframe = "loading"
    /\ iframe' = "loaded"
    /\ UNCHANGED <<kind, socket, facade, up, down, receiver, session, sender, sent, arrived>>

\* bootstrap_iframe
IframeBoots ==
    /\ iframe = "loaded"
    /\ iframe' = "ready"
    /\ up' = Append(up, Hello)
    /\ UNCHANGED <<kind, socket, facade, down, receiver, session, sender, sent, arrived>>

\* Its script has not said hello 15 s after it was made or 2 s after the event load.
IframeTimesOut ==
    /\ iframe \in {"loading", "loaded", "ready"} /\ ~ facade /\ down = <<>> /\ ~ cleaned
    /\ CleanUp
    /\ UNCHANGED <<kind, given, facade, up, down, session, sender, sent, arrived>>

PageGets ==
    /\ up # <<>> /\ ~ cleaned
    /\ up' = Tail(up)
    /\ CASE Head(up) = Hello ->
                /\ down' = Append(down, Hello)
                /\ UNCHANGED <<socket, iframe>>
         [] Head(up) = CloseFrame ->
                /\ cleaned' = TRUE /\ iframe' = "removing"
                /\ UNCHANGED <<given, down>>
         [] OTHER ->
                /\ given' = Append(given, Head(up))
                /\ UNCHANGED <<cleaned, iframe, down>>
    /\ UNCHANGED <<kind, facade, receiver, session, sender, sent, arrived>>

-----------------------------------------------------------------------------
(* The buffered sender.                                                    *)

Posted(messages) == posts \cup {[payload |-> messages, there |-> FALSE]}

Schedule(messages) ==
    IF messages = <<>>
    THEN buffer' = <<>> /\ stop' = "null" /\ UNCHANGED posts
    ELSE /\ buffer' = <<>> /\ stop' = "request"
         /\ posts' = Posted(messages)

\* Mutant: a request is made for every message.
MaySendAlways == TRUE
MaySend == stop = "null"

DoSend(message) ==
    IF MaySend THEN Schedule(Append(buffer, message))
    ELSE buffer' = Append(buffer, message) /\ UNCHANGED <<stop, posts>>

\* The socket is open once it has got a frame.
PageSends ==
    /\ ~ cleaned /\ given # <<>> /\ sent < MaxSends
    /\ sent' = sent + 1
    /\ IF kind.framed THEN down' = Append(down, sent') /\ UNCHANGED sender
                      ELSE DoSend(sent') /\ UNCHANGED down
    /\ UNCHANGED <<kind, socket, iframe, facade, up, receiver, session, arrived>>

\* The first message tells the iframe to make the transport.
IframeGets ==
    /\ Idle /\ down # <<>> /\ iframe \in {"ready", "removing"}
    /\ down' = Tail(down)
    /\ IF Head(down) = Hello
       THEN facade' = TRUE /\ recv' = NewRequest /\ UNCHANGED sender
       ELSE DoSend(Head(down)) /\ UNCHANGED <<facade, recv>>
    /\ UNCHANGED <<kind, socket, iframe, up, lines, session, sent, arrived>>

\* At the server (external).
PostArrives(post) ==
    /\ ~ post.there
    /\ posts' = (posts \ {post}) \cup {[post EXCEPT !.there = TRUE]}
    /\ arrived' = arrived \cup {post.payload[i] : i \in DOMAIN post.payload}
    /\ UNCHANGED <<kind, socket, windows, receiver, session, buffer, stop, sent>>

\* 25 ms pass before the next request.
PostSucceeds(post) ==
    /\ Idle /\ post.there
    /\ posts' = posts \ {post} /\ stop' = "wait"
    /\ UNCHANGED <<kind, socket, windows, receiver, session, buffer, sent, arrived>>

\* Mutant: the sender goes on when a request has failed.
FailureUnseenAlways == TRUE
FailureUnseen == kind.receiver = "jsonp"

\* Before or after the server got it.  A form in an iframe cannot tell.
PostFails(post) ==
    /\ Idle
    /\ posts' = posts \ {post}
    /\ IF FailureUnseen
       THEN stop' = "wait" /\ UNCHANGED <<socket, iframe, up, receiver>>
       ELSE stop' = "null" /\ Tell(CloseFrame, recv, lines)
    /\ UNCHANGED <<kind, facade, down, session, buffer, sent, arrived>>

\* Mutant: what came in the meantime stays in the buffer.
LeftOverNot == <<>>
LeftOver == buffer

\* send_destructor looks for _send_stop, which nobody sets, so this runs after
\* doCleanup as well.
WaitOver ==
    /\ Idle /\ stop = "wait"
    /\ Schedule(LeftOver)
    /\ UNCHANGED <<kind, socket, windows, receiver, session, sent, arrived>>

-----------------------------------------------------------------------------
(* The receivers.                                                          *)

Calm == UNCHANGED <<kind, session, facade, down, sender, sent, arrived>>

\* A request that was aborted before runs to its end, and nobody listens.
XhrStarts ==
    /\ Idle /\ recv.phase = "delayed"
    /\ recv' = [recv EXCEPT !.phase = IF cleaned /\ ~ kind.framed THEN "zombie" ELSE "open"]
    /\ UNCHANGED <<socket, iframe, up, lines>> /\ Calm

\* Mutant: the lines that were read are not passed over the next time.
UnreadAll(text) == text
Unread(text) == <<>>

Reading(receiver_) ==
    /\ Idle /\ kind.receiver = receiver_
    /\ recv.phase = "open" /\ recv.text # <<>> /\ recv.end # "broken"

\* all lines there are
XhrReads ==
    /\ Reading("xhr")
    /\ recv' = [recv EXCEPT !.text = Unread(@)] /\ lines' = recv.text
    /\ UNCHANGED <<socket, iframe, up>> /\ Calm

\* one event after the other
EventSourceReads ==
    /\ Reading("eventsource")
    /\ recv' = [recv EXCEPT !.text = Tail(@)] /\ lines' = <<Head(recv.text)>>
    /\ UNCHANGED <<socket, iframe, up>> /\ Calm

\* one script after the other
HtmlfileReads ==
    /\ Reading("htmlfile")
    /\ recv' = [recv EXCEPT !.text = Tail(@)] /\ lines' = <<Head(recv.text)>>
    /\ UNCHANGED <<socket, iframe, up>> /\ Calm

\* the one call of the script
JsonpReads ==
    /\ Reading("jsonp")
    /\ recv' = [recv EXCEPT !.phase = "finishing"] /\ lines' = <<Head(recv.text)>>
    /\ UNCHANGED <<socket, iframe, up>> /\ Calm

Dispatch ==
    /\ lines # <<>> /\ iframe # "removed"
    /\ Tell(Head(lines), recv, Tail(lines))
    /\ Calm

\* Mutant: a response that has ended is the last one.
NextRequestNot == NoRequest
NextRequest == NewRequest

\* Mutant: what came last is not looked at when the response has ended.
DrainedNever == TRUE
Drained == recv.text = <<>>

Ended(receiver_) == Idle /\ kind.receiver = receiver_ /\ recv.phase = "open" /\ recv.end = "ok" /\ Drained

XhrEnds ==
    /\ Ended("xhr")
    /\ recv' = NextRequest
    /\ UNCHANGED <<socket, iframe, up, lines>> /\ Calm

HtmlfileStops ==
    /\ Ended("htmlfile")
    /\ recv' = NextRequest
    /\ UNCHANGED <<socket, iframe, up, lines>> /\ Calm

ScriptDone ==
    /\ lines = <<>> /\ recv.phase = "finishing"
    /\ recv' = NextRequest
    /\ UNCHANGED <<socket, iframe, up, lines>> /\ Calm

\* It would connect again by itself, were it not closed.
EventSourceEnds ==
    /\ Idle /\ kind.receiver = "eventsource" /\ recv.phase = "open"
    /\ recv.end = "broken" \/ (recv.end = "ok" /\ Drained)
    /\ recv' = [recv EXCEPT !.phase = "closing"]
    /\ UNCHANGED <<socket, iframe, up, lines>> /\ Calm

\* 200 ms later
EventSourceCloses ==
    /\ Idle /\ recv.phase = "closing"
    /\ recv' = NextRequest
    /\ UNCHANGED <<socket, iframe, up, lines>> /\ Calm

Fails(receiver_) ==
    /\ Idle /\ kind.receiver = receiver_ /\ recv.phase = "open" /\ recv.end = "broken"
    /\ Tell(CloseFrame, NoRequest, lines)
    /\ Calm

\* a status other than 200, or none
XhrFails == Fails("xhr")

\* one that gives up
EventSourceFails == Fails("eventsource")

\* An htmlfile that has not started within 15 s.  One that has is not watched.
HtmlfileFails == ~ recv.started /\ Fails("htmlfile")

\* a script that does not load, or not within 35 s
JsonpFails == Fails("jsonp")

-----------------------------------------------------------------------------
(* The session (external): it takes one receiver at a time, and when a     *)
(* response is cut off it is lost and answers c.                           *)

Writes(frame) == recv' = [recv EXCEPT !.text = Append(@, frame), !.started = TRUE]
Far == UNCHANGED <<kind, socket, windows, lines, sender, sent, arrived>>
Asked == recv.phase = "open" /\ recv.end = "no"

SessionWrites ==
    /\ Asked /\ ~ session.lost /\ session.next <= MaxFrames
    /\ kind.receiver = "jsonp" => recv.text = <<>>
    /\ Writes(session.next)
    /\ session' = [session EXCEPT !.next = @ + 1]
    /\ Far

SessionCloses ==
    /\ Asked /\ session.ends <= MaxEnds
    /\ CloseFrame \notin {recv.text[i] : i \in DOMAIN recv.text}
    /\ kind.receiver = "jsonp" => recv.text = <<>>
    /\ Writes(CloseFrame)
    /\ session' = [session EXCEPT !.ends = @ + 1, !.lost = TRUE]
    /\ Far

ResponseEnds ==
    /\ Asked /\ session.ends < MaxEnds /\ recv.started
    /\ recv' = [recv EXCEPT !.end = "ok"]
    /\ session' = [session EXCEPT !.ends = @ + 1]
    /\ Far

ResponseBreaks ==
    /\ Asked /\ session.ends < MaxEnds
    /\ recv' = [recv EXCEPT !.end = "broken"]
    /\ session' = [session EXCEPT !.ends = @ + 1, !.lost = TRUE]
    /\ Far

-----------------------------------------------------------------------------
Iframe == IframeLoads \/ IframeBoots \/ IframeTimesOut \/ IframeRemoved \/ IframeGets
Reads == XhrReads \/ EventSourceReads \/ HtmlfileReads \/ JsonpReads
Ends == XhrEnds \/ HtmlfileStops \/ ScriptDone \/ EventSourceEnds \/ EventSourceCloses
ReceiverFails == XhrFails \/ EventSourceFails \/ HtmlfileFails \/ JsonpFails
Receive == XhrStarts \/ Reads \/ Dispatch \/ Ends \/ ReceiverFails
Session == SessionWrites \/ SessionCloses \/ ResponseEnds \/ ResponseBreaks
Post(post) == PostArrives(post) \/ PostSucceeds(post) \/ PostFails(post)

Next ==
    \/ SocketCleansUp \/ Iframe \/ PageGets \/ PageSends \/ WaitOver \/ Receive \/ Session
    \/ \E post \in posts : Post(post)

Spec == Init /\ [][Next]_vars

\* Handlers and timers that are due run, messages between windows come over, and
\* a request for sending is answered or breaks.  The session may do nothing.
FairSpec ==
    /\ Spec
    /\ WF_vars(IframeTimesOut) /\ WF_vars(IframeGets) /\ WF_vars(PageGets)
    /\ WF_vars(Receive) /\ WF_vars(WaitOver)
    /\ WF_vars(\E post \in posts : Post(post))

-----------------------------------------------------------------------------
(* Properties.                                                             *)

Transport == INSTANCE TransportService WITH given <- Len(given)

\* Whichever receiver is used and wherever it runs, and although handlers may be
\* cleaned up under way, the socket gets nothing after doCleanup, and its messages
\* arrive in their order and once.
ImplementsTransport == Transport!Spec

\* No frame is given twice, passed over or overtaken, whether it came with others,
\* in a later response or from an iframe.
FramesInOrder == \A i \in DOMAIN given : given[i] = i

\* When a message has arrived, so have those before it, unless a form was used,
\* which cannot tell a failure, or messages of the page overtook the news of one in
\* an iframe.
NoGaps == kind.receiver # "jsonp" /\ ~ kind.framed => arrived = 1 .. Cardinality(arrived)

\* Both directions keep their order, whichever transport carries them.
OrderKept == FramesInOrder /\ NoGaps

\* A frame that was written reaches the socket, unless that is done with the
\* transport or the session has been lost.
FramesReach == \A n \in 1 .. MaxFrames :
    session.next > n ~> Len(given) >= n \/ cleaned \/ session.lost

\* When a response has ended or was cut off, the next one is asked for or the socket
\* is done with the transport, except when an htmlfile that has started is cut off,
\* which nothing tells of.
EndNoticed == recv.end # "no" ~> \/ cleaned \/ Asked
                                 \/ kind.receiver = "htmlfile" /\ recv.end = "broken"

\* A message reaches the server unless the socket is done with the transport.
MessagesReach == \A n \in 1 .. MaxSends :
    sent >= n ~> n \in arrived \/ cleaned \/ kind.receiver = "jsonp"

\* Neither direction comes to a halt that the socket is not told of.
NothingStuck == FramesReach /\ EndNoticed /\ MessagesReach
=============================================================================
