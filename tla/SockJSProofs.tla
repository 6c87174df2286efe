---------------------------- MODULE SockJSProofs ----------------------------
(***************************************************************************)
(* The socket of sock.js tries its transports one at a time, each with a   *)
(* time-out of its own, and the page sees what SocketService promises:     *)
(* theorems about module SockJS, for any lists of protocols, any number of *)
(* messages and a server that sends any frames its sessions may send.      *)
(***************************************************************************)
EXTENDS SockJS, FiniteSetTheorems, TLAPS

-----------------------------------------------------------------------------
(***************************************************************************)
(* The inductive invariant.                                                *)
(***************************************************************************)
Protocols == STRING
Payloads == Seq(1 .. MaxPayloads)
Numbers == {Unopened} \cup 0 .. MaxPayloads
Frames == [type : {"o", "h"}] \cup [type : {"a"}, payload : Payloads]
            \cup [type : {"c"}, code : {2010, 3000}]

Objects == [readyState : {"connecting", "open", "closed"},
            ir : {"delayed", "asked", "garbled", "none"},
            protocols : Seq(Protocols), transport : Nat, transportTref : Nat]

ObjectTyped == /\ s \in Objects
               /\ s.transport \in 0 .. Len(wire) /\ s.transportTref \in 0 .. Len(wire)
SessionsTyped == /\ wire \in Seq(Seq(Frames))
                 /\ produced \in Seq(Numbers)
                 /\ Len(produced) = Len(wire)
PageTyped == /\ batch \in Payloads /\ delivered \in 0 .. MaxPayloads
             /\ sent \in 0 .. MaxSends /\ arrived \in 0 .. sent
BrowserTyped == /\ complete \in BOOLEAN /\ load \in BOOLEAN
                /\ closing \in {"none", "due", "fired"} /\ event \in Nat
                /\ timers \subseteq 1 .. Len(wire) /\ detected \in Seq(Protocols)

Typed == ObjectTyped /\ SessionsTyped /\ PageTyped /\ BrowserTyped

\* What the transport, its time-out and the list of protocols have to do with each
\* other, for an object o.
Asking(o) == o.ir \in {"delayed", "asked", "garbled"}
TimerIsOwn(o, pending) == o.readyState = "connecting" =>
    pending \subseteq {o.transportTref} /\ o.transportTref \in {o.transport, NoTransport}
BeforeFirst(o) == Asking(o) =>
    /\ o.readyState = "connecting" /\ o.protocols = <<>> /\ o.transport = NoTransport
    /\ wire = <<>> /\ ~ load
LoadHasMore(o) == load =>
    o.transport = NoTransport /\ o.protocols # <<>> /\ o.readyState # "open"
ListAgrees(o) == Len(wire) + Len(o.protocols) = Len(detected)
NoneLeft(o) == event = 2000 => o.protocols = <<>> /\ o.readyState = "closed"

Tried == /\ OneTransport /\ TimerIsOwn(s, timers) /\ BeforeFirst(s) /\ LoadHasMore(s)
         /\ ListAgrees(s) /\ NoneLeft(s)

\* The frames take a session that has sent `from` messages to the page to one that
\* has sent `to` of them: before[i] is how many it has sent before the next.
Gains(frame) == IF frame.type = "a" THEN Len(frame.payload) ELSE 0
Follows(frame, n) ==
    frame.type = "a" => \A k \in 1 .. Len(frame.payload) : frame.payload[k] = n + k
Numbered(from, frames, to) ==
    \E before \in [0 .. Len(frames) -> Int] :
        /\ before[0] = from /\ before[Len(frames)] = to
        /\ \A i \in 1 .. Len(frames) : /\ before[i] = before[i - 1] + Gains(frames[i])
                                       /\ Follows(frames[i], before[i - 1])

\* A session says o before it sends messages.
OpensFirst(frames, n) ==
    /\ n # Unopened <=> \E j \in 1 .. Len(frames) : frames[j].type = "o"
    /\ \A i \in 1 .. Len(frames) : frames[i].type = "a" =>
         \E j \in 1 .. i - 1 : frames[j].type = "o"
    /\ Numbered(0, frames, IF n = Unopened THEN 0 ELSE n)

\* The rest of the array and what is on its way go on where the page is.
GoesOnFrom(from, frames, n) == n # Unopened /\ Numbered(from, frames, n)

WhenConnecting == s.readyState = "connecting" =>
    /\ batch = <<>> /\ delivered = 0 /\ closing = "none"
    /\ \A t \in live : OpensFirst(wire[t], produced[t])
WhenOpen == s.readyState = "open" =>
    /\ \A k \in 1 .. Len(batch) : batch[k] = delivered + k
    /\ \A t \in live : GoesOnFrom(delivered + Len(batch), wire[t], produced[t])

Ordered == WhenConnecting /\ WhenOpen

IInv == Typed /\ Tried /\ Ordered

\* A step of the object that SocketService takes for a close, or does not see.
SocketCloses == /\ s'.readyState = "closed" /\ closing' = "due"
SocketWaits == /\ s'.readyState = s.readyState /\ closing' = closing

-----------------------------------------------------------------------------
(***************************************************************************)
(* Frames and their numbers.                                               *)
(***************************************************************************)
\* A frame is of one kind.
LEMMA FrameKinds ==
    ASSUME NEW frame \in Frames
    PROVE  /\ frame.type \in {"o", "h", "a", "c"}
           /\ frame.type = "a" => frame.payload \in Payloads
           /\ frame.type = "c" => frame.code \in {2010, 3000}
           /\ Gains(frame) \in Nat
<1>1. /\ frame.type \in {"o", "h", "a", "c"}
      /\ frame.type = "a" => frame.payload \in Payloads
      /\ frame.type = "c" => frame.code \in {2010, 3000}
  BY DEF Frames
<1>2. frame.type = "a" => Len(frame.payload) \in Nat
  BY <1>1 DEF Payloads
<1> QED
  BY <1>1, <1>2 DEF Gains

\* Nothing on its way: the page is where the session is.
LEMMA NumberedEmpty == ASSUME NEW n \in Int PROVE Numbered(n, <<>>, n)
<1> DEFINE before == [i \in 0 .. 0 |-> n]
<1>1. before \in [0 .. Len(<<>>) -> Int] /\ before[0] = n /\ Len(<<>>) = 0
  OBVIOUS
<1> HIDE DEF before
<1> QED
  BY <1>1 DEF Numbered

\* The page takes the first frame.
LEMMA NumberedTail ==
    ASSUME NEW from \in Int, NEW to \in Int, NEW frames \in Seq(Frames), frames # <<>>,
           Numbered(from, frames, to)
    PROVE  /\ Numbered(from + Gains(Head(frames)), Tail(frames), to)
           /\ Follows(Head(frames), from)
<1> DEFINE rest == Tail(frames)
<1>1. PICK before \in [0 .. Len(frames) -> Int] :
        /\ before[0] = from /\ before[Len(frames)] = to
        /\ \A i \in 1 .. Len(frames) : /\ before[i] = before[i - 1] + Gains(frames[i])
                                       /\ Follows(frames[i], before[i - 1])
  BY DEF Numbered
<1> DEFINE later == [i \in 0 .. Len(rest) |-> before[i + 1]]
<1>2. /\ Len(rest) \in Nat /\ Len(frames) = Len(rest) + 1
      /\ \A i \in 1 .. Len(rest) : rest[i] = frames[i + 1]
      /\ Head(frames) = frames[1]
  OBVIOUS
<1> HIDE DEF rest
<1>3. before[1] = from + Gains(Head(frames)) /\ Follows(Head(frames), from)
  BY <1>1, <1>2
<1>4. /\ later \in [0 .. Len(rest) -> Int]
      /\ later[0] = from + Gains(Head(frames)) /\ later[Len(rest)] = to
  BY <1>1, <1>2, <1>3
<1>5. ASSUME NEW i \in 1 .. Len(rest)
      PROVE  later[i] = later[i - 1] + Gains(rest[i]) /\ Follows(rest[i], later[i - 1])
  <2>1. /\ later[i] = before[i + 1] /\ later[i - 1] = before[i]
        /\ i + 1 \in 1 .. Len(frames) /\ (i + 1) - 1 = i /\ rest[i] = frames[i + 1]
    BY <1>2
  <2> HIDE DEF later
  <2> QED
    BY <1>1, <2>1
<1> HIDE DEF later
<1>6. Numbered(from + Gains(Head(frames)), rest, to)
  BY <1>4, <1>5 DEF Numbered
<1> QED
  BY <1>3, <1>6 DEF rest

\* The session sends another frame.
LEMMA NumberedAppend ==
    ASSUME NEW from \in Int, NEW to \in Int, NEW frames \in Seq(Frames), NEW frame \in Frames,
           Numbered(from, frames, to), Follows(frame, to)
    PROVE  Numbered(from, Append(frames, frame), to + Gains(frame))
<1> DEFINE more == Append(frames, frame)
<1>1. PICK before \in [0 .. Len(frames) -> Int] :
        /\ before[0] = from /\ before[Len(frames)] = to
        /\ \A i \in 1 .. Len(frames) : /\ before[i] = before[i - 1] + Gains(frames[i])
                                       /\ Follows(frames[i], before[i - 1])
  BY DEF Numbered
<1> DEFINE after == [i \in 0 .. Len(more) |->
                       IF i = Len(more) THEN to + Gains(frame) ELSE before[i]]
<1>2. /\ Len(frames) \in Nat /\ Len(more) = Len(frames) + 1 /\ more[Len(more)] = frame
      /\ \A i \in 1 .. Len(frames) : more[i] = frames[i]
      /\ Gains(frame) \in Nat
  BY FrameKinds
<1> HIDE DEF more
<1>3. /\ after \in [0 .. Len(more) -> Int]
      /\ after[0] = from /\ after[Len(more)] = to + Gains(frame)
  BY <1>1, <1>2
<1>4. ASSUME NEW i \in 1 .. Len(more)
      PROVE  after[i] = after[i - 1] + Gains(more[i]) /\ Follows(more[i], after[i - 1])
  <2>1. CASE i = Len(more)
    BY <1>1, <1>2, <2>1
  <2>2. CASE i # Len(more)
    <3>1. /\ i \in 1 .. Len(frames) /\ after[i] = before[i] /\ after[i - 1] = before[i - 1]
          /\ more[i] = frames[i]
      BY <1>2, <2>2
    <3> HIDE DEF after
    <3> QED
      BY <1>1, <3>1
  <2> QED
    BY <2>1, <2>2
<1> HIDE DEF after
<1>5. Numbered(from, more, to + Gains(frame))
  BY <1>3, <1>4 DEF Numbered
<1> QED
  BY <1>5 DEF more

-----------------------------------------------------------------------------
(***************************************************************************)
(* The socket.                                                             *)
(***************************************************************************)
\* At first /info has yet to be asked for.
LEMMA InitAgrees == Init => IInv
<1> SUFFICES ASSUME Init PROVE IInv
  OBVIOUS
<1>1. /\ s = Created /\ complete \in BOOLEAN /\ load = FALSE /\ live = {} /\ timers = {}
      /\ event = 0 /\ closing = "none" /\ batch = <<>> /\ wire = <<>> /\ produced = <<>>
      /\ delivered = 0 /\ sent = 0 /\ arrived = 0 /\ detected = <<>>
      /\ MaxPayloads \in Nat /\ MaxSends \in Nat
  BY BoundsAssumption DEF Init
<1>2. \A S : <<>> \in Seq(S)
  OBVIOUS
<1>3. /\ s \in Objects /\ s.transport = 0 /\ s.transportTref = 0 /\ s.protocols = <<>>
      /\ s.readyState = "connecting"
  BY <1>1, <1>2 DEF Created, Objects, NoTransport
<1>4. Typed
  <2>1. wire \in Seq(Seq(Frames)) /\ batch \in Payloads /\ detected \in Seq(Protocols)
    BY <1>1, <1>2 DEF Payloads
  <2>2. produced \in Seq(Numbers)
    <3>1. produced = <<>>
      BY <1>1
    <3> QED
      BY <1>2, <3>1
  <2> QED
    <3>1. ObjectTyped
      BY <1>1, <1>3 DEF ObjectTyped
    <3>2. SessionsTyped
      BY <1>1, <2>1, <2>2 DEF SessionsTyped
    <3>3. PageTyped
      BY <1>1, <2>1 DEF PageTyped
    <3>4. BrowserTyped
      BY <1>1, <2>1 DEF BrowserTyped
    <3> QED
      BY <3>1, <3>2, <3>3, <3>4 DEF Typed
<1>5. Tried
  BY <1>1, <1>3 DEF Tried, OneTransport, TimerIsOwn, BeforeFirst, LoadHasMore, ListAgrees,
                    NoneLeft, NoTransport
<1>6. Ordered
  BY <1>1, <1>3 DEF Ordered, WhenConnecting, WhenOpen
<1> QED
  BY <1>4, <1>5, <1>6 DEF IInv

\* Whatever the object was told, its next transport is the only one, with the only
\* time-out, or it is closed and tells the page so.
Told(o, code, pending, list) ==
    /\ o \in Objects /\ o.readyState # "closed" /\ o.readyState = s.readyState
    /\ o.transport = s.transport /\ o.transportTref \in 0 .. Len(wire)
    /\ pending \subseteq 1 .. Len(wire) /\ TimerIsOwn(o, pending)
    /\ o.protocols \in Seq(Protocols) /\ list \in Seq(Protocols)
    /\ Len(wire) + Len(o.protocols) = Len(list)
    /\ code \in Nat /\ code # 2000
    /\ load => UserSetCode(code) /\ o.protocols = s.protocols

\* What becomes of it.
Moved(list) ==
    /\ ObjectTyped' /\ SessionsTyped' /\ load' \in BOOLEAN /\ event' \in Nat
    /\ closing' \in {"none", "due", "fired"} /\ timers' \subseteq 1 .. Len(wire')
    /\ s'.ir = "none" /\ OneTransport' /\ TimerIsOwn(s, timers)' /\ LoadHasMore(s)'
    /\ Len(wire') + Len(s'.protocols) = Len(list)
    /\ NoneLeft(s)'
    /\ \/ SocketCloses
       \/ /\ SocketWaits /\ s.readyState = "connecting"
          /\ \A t \in live' : OpensFirst(wire[t], produced[t])'

\* An empty wire of a session that has not said o.
LEMMA NothingSaid == OpensFirst(<<>>, Unopened)
<1>1. Numbered(0, <<>>, 0)
  BY NumberedEmpty
<1> QED
  BY <1>1 DEF OpensFirst

\* A transport is made.
LEMMA TransportMade ==
    ASSUME Typed, NEW sessions \in Seq(Seq(Frames)), Len(sessions) = Len(wire),
           wire' = Append(sessions, <<>>), produced' = Append(produced, Unopened)
    PROVE  /\ SessionsTyped' /\ Len(wire') = Len(wire) + 1
           /\ OpensFirst(wire'[Len(wire) + 1], produced'[Len(wire) + 1])
<1>1. <<>> \in Seq(Frames) /\ Unopened \in Numbers
  BY DEF Numbers
<1> DEFINE F == Seq(Frames)
<1>2. sessions \in Seq(F) /\ <<>> \in F /\ produced \in Seq(Numbers) /\ Len(produced) = Len(wire)
  BY <1>1 DEF Typed, SessionsTyped
<1> HIDE DEF F
<1>3. /\ wire' \in Seq(F) /\ Len(wire') = Len(wire) + 1 /\ wire'[Len(wire) + 1] = <<>>
      /\ produced' \in Seq(Numbers) /\ Len(produced') = Len(wire')
      /\ produced'[Len(wire) + 1] = Unopened
  BY <1>1, <1>2
<1>4. SessionsTyped'
  BY <1>3 DEF SessionsTyped, F
<1> QED
  BY <1>3, <1>4, NothingSaid

\* What it takes to try the next: nothing of the transport before is left.
Ready(o, running, pending, list) ==
    /\ o \in Objects /\ o.readyState = "connecting" /\ s.readyState = "connecting"
    /\ o.ir = "none" /\ o.transport = NoTransport /\ o.protocols # <<>>
    /\ running = {} /\ pending \subseteq {o.transportTref}
    /\ list \in Seq(Protocols) /\ Len(wire) + Len(o.protocols) = Len(list)
    /\ load = FALSE /\ event # 2000 /\ event' = event /\ closing' = closing

\* _try_next_protocol.
LEMMA NextTried ==
    ASSUME Typed, NEW o, NEW running, NEW pending, NEW list,
           Ready(o, running, pending, list), TryNext(o, running, pending)
    PROVE  Moved(list)
<1>0. /\ o \in Objects /\ o.readyState = "connecting" /\ s.readyState = "connecting"
      /\ o.ir = "none" /\ o.transport = NoTransport /\ o.protocols # <<>> /\ running = {}
  BY DEF Ready
<1>1. Cleared(o, pending) = {}
  BY DEF Cleared, Ready
<1>2. /\ o.protocols \in Seq(Protocols) /\ Len(o.protocols) \in Nat /\ Len(wire) \in Nat
      /\ Len(list) \in Nat /\ SessionsTyped /\ event \in Nat
      /\ closing \in {"none", "due", "fired"} /\ load = FALSE
      /\ event' = event /\ closing' = closing /\ event # 2000
      /\ Len(wire) + Len(o.protocols) = Len(list)
  BY DEF Typed, Objects, SessionsTyped, BrowserTyped, Ready
<1>3. CASE Waits(o)
  <2>1. /\ s' = [o EXCEPT !.transportTref = NoTransport] /\ load' = TRUE
        /\ live' = {} /\ timers' = {} /\ wire' = wire /\ produced' = produced
    BY <1>0, <1>1, <1>3 DEF TryNext, server
  <2>2. /\ s' \in Objects /\ s'.transport = 0 /\ s'.transportTref = 0 /\ s'.ir = "none"
        /\ s'.readyState = "connecting" /\ s'.protocols = o.protocols
    BY <1>0, <2>1 DEF Objects, NoTransport
  <2>9. s'.readyState = s.readyState
    BY <1>0, <2>2
  <2>3. ObjectTyped' /\ SessionsTyped'
    BY <1>2, <2>1, <2>2 DEF ObjectTyped, SessionsTyped
  <2> QED
    BY <1>0, <1>2, <2>1, <2>2, <2>3, <2>9
    DEF Moved, OneTransport, TimerIsOwn, LoadHasMore, NoneLeft, SocketWaits, NoTransport
<1>4. CASE ~ Waits(o)
  <2> DEFINE t == Len(wire) + 1
             emptied == [u \in Transports |-> <<>>]
  <2>1. /\ s' = [o EXCEPT !.protocols = Tail(@), !.transport = t, !.transportTref = t]
        /\ live' = {t} /\ timers' = {t} /\ wire' = Append(emptied, <<>>)
        /\ produced' = Append(produced, Unopened) /\ load' = load
    BY <1>0, <1>1, <1>4 DEF TryNext, Rest, Armed
  <2>2. emptied \in Seq(Seq(Frames)) /\ Len(emptied) = Len(wire)
    <3>1. Transports = 1 .. Len(wire) /\ <<>> \in Seq(Frames)
      BY <1>2 DEF Transports, SessionsTyped
    <3> DEFINE F == Seq(Frames)
    <3>2. <<>> \in F
      BY <3>1
    <3> HIDE DEF F
    <3>3. emptied \in Seq(F) /\ Len(emptied) = Len(wire)
      BY <1>2, <3>1, <3>2
    <3> QED
      BY <3>3 DEF F
  <2>3. t \in Nat /\ t # 0 /\ t = Len(wire) + 1 /\ t \in 1 .. t /\ t \in 0 .. t
    BY <1>2
  <2>10. Tail(o.protocols) \in Seq(Protocols) /\ Len(Tail(o.protocols)) = Len(o.protocols) - 1
    BY <1>0, <1>2
  <2>4. /\ SessionsTyped' /\ Len(wire') = t
        /\ OpensFirst(wire'[t], produced'[t])
    <3> HIDE DEF emptied
    <3> QED
      BY <2>1, <2>2, TransportMade
  <2> HIDE DEF t, emptied
  <2>5. /\ s' \in Objects /\ s'.transport = t /\ s'.transportTref = t /\ s'.ir = "none"
        /\ s'.readyState = "connecting" /\ s'.protocols = Tail(o.protocols)
    <3> DEFINE list2 == Tail(o.protocols)
    <3>1. /\ s' = [o EXCEPT !.protocols = list2, !.transport = t, !.transportTref = t]
          /\ list2 \in Seq(Protocols)
      BY <2>1, <2>10
    <3> HIDE DEF list2
    <3>2. /\ s' \in Objects /\ s'.transport = t /\ s'.transportTref = t
          /\ s'.ir = o.ir /\ s'.readyState = o.readyState /\ s'.protocols = list2
      BY <1>0, <2>3, <3>1 DEF Objects
    <3> QED
      BY <1>0, <3>2 DEF list2
  <2>11. Len(wire') = t /\ live' = {t} /\ timers' = {t}
    BY <2>1, <2>4
  <2>6. ObjectTyped' /\ timers' \subseteq 1 .. Len(wire')
    BY <2>3, <2>5, <2>11 DEF ObjectTyped
  <2>7. \A u \in live' : OpensFirst(wire'[u], produced'[u])
    <3> SUFFICES ASSUME NEW u \in live' PROVE OpensFirst(wire'[u], produced'[u])
      OBVIOUS
    <3>1. u = t
      BY <2>11
    <3> QED
      BY <2>4, <3>1, Zenon
  <2>8. Len(wire') + Len(s'.protocols) = Len(list)
    <3>1. Len(s'.protocols) = Len(o.protocols) - 1
      BY <2>5, <2>10
    <3>2. Len(wire') = Len(wire) + 1
      BY <2>3, <2>11
    <3>3. /\ Len(wire) \in Nat /\ Len(o.protocols) \in Nat
          /\ Len(wire) + Len(o.protocols) = Len(list)
      BY <1>2
    <3> QED
      <4> DEFINE x == Len(s'.protocols)
                 y == Len(o.protocols)
                 a == Len(wire)
                 b == Len(wire')
                 c == Len(list)
      <4>1. x = y - 1 /\ b = a + 1 /\ a \in Nat /\ y \in Nat /\ a + y = c
        BY <3>1, <3>2, <3>3
      <4> HIDE DEF x, y, a, b, c
      <4>2. b + x = c
        BY <4>1
      <4> QED
        BY <4>2 DEF b, x, c
  <2>9. OneTransport' /\ TimerIsOwn(s, timers)' /\ LoadHasMore(s)' /\ NoneLeft(s)'
    <3>1. load' = FALSE /\ event' # 2000
      BY <1>2, <2>1
    <3> QED
      BY <3>1, <2>3, <2>5, <2>11
      DEF OneTransport, TimerIsOwn, LoadHasMore, NoneLeft, NoTransport
  <2> QED
    <3>1. SocketWaits /\ event' \in Nat /\ closing' \in {"none", "due", "fired"}
      BY <1>0, <1>2, <2>5 DEF SocketWaits
    <3>2. load' \in BOOLEAN
      <4>1. load' = load
        BY <2>1
      <4>2. load = FALSE
        BY <1>2
      <4> QED
        BY <4>1, <4>2, Zenon
    <3> QED
      BY <1>0, <2>4, <2>5, <2>6, <2>7, <2>8, <2>9, <3>1, <3>2 DEF Moved
<1> QED
  BY <1>3, <1>4

\* What _didClose does, as far as the transport goes.
Ended(o, code, pending) ==
    LET closed == [o EXCEPT !.ir = "none", !.transport = NoTransport]
    IN  \/ /\ GoesOn(o, code) /\ TryNext(closed, CleanedUp(o, live), pending)
           /\ event' = event /\ closing' = closing
        \/ /\ s' = [closed EXCEPT !.readyState = "closed"] /\ live' = CleanedUp(o, live)
           /\ timers' \in {pending, Cleared(o, pending)}
           /\ event' = code \/ (event' = 2000 /\ o.protocols = <<>>)
           /\ closing' = "due" /\ wire' = [u \in Transports |-> <<>>]
           /\ load' = load /\ produced' = produced

\* _didClose.
LEMMA Closes ==
    ASSUME Typed, OneTransport, LoadHasMore(s), NoneLeft(s), NEW o, NEW code, NEW pending,
           NEW list, Told(o, code, pending, list),
           Ended(o, code, pending)
    PROVE  Moved(list)
<1>1. /\ o \in Objects /\ o.readyState \in {"connecting", "open"} /\ o.readyState = s.readyState
      /\ o.transport = s.transport /\ o.transportTref \in 0 .. Len(wire)
      /\ pending \subseteq 1 .. Len(wire) /\ o.protocols \in Seq(Protocols)
      /\ list \in Seq(Protocols) /\ Len(wire) + Len(o.protocols) = Len(list)
      /\ code \in Nat /\ code # 2000
  BY DEF Told, Objects
<1>2. /\ SessionsTyped /\ Len(wire) \in Nat /\ event \in Nat /\ load \in BOOLEAN
      /\ Transports = 1 .. Len(wire)
  BY DEF Typed, SessionsTyped, BrowserTyped, Transports
<1> DEFINE closed == [o EXCEPT !.ir = "none", !.transport = NoTransport]
<1>3. /\ closed \in Objects /\ closed.readyState = o.readyState /\ closed.ir = "none"
      /\ closed.transport = NoTransport /\ closed.transportTref = o.transportTref
      /\ closed.protocols = o.protocols
  <2>1. o \in Objects
    BY <1>1
  <2>2. NoTransport \in Nat
    BY DEF NoTransport
  <2> QED
    BY <2>1, <2>2 DEF Objects
<1>4. CleanedUp(o, live) = {}
  BY <1>1 DEF CleanedUp, OneTransport
<1>5. CASE /\ GoesOn(o, code) /\ TryNext(closed, CleanedUp(o, live), pending)
           /\ event' = event /\ closing' = closing
  <2>1. TryNext(closed, CleanedUp(o, live), pending) /\ event' = event /\ closing' = closing
    BY <1>5
  <2> HIDE DEF closed
  <2>2. s.readyState = "connecting" /\ o.protocols # <<>> /\ ~ UserSetCode(code)
    BY <1>1, <1>5 DEF GoesOn
  <2>3. load = FALSE
    BY <1>2, <2>2 DEF Told
  <2>4. pending \subseteq {closed.transportTref}
    BY <1>1, <1>3, <2>2 DEF Told, TimerIsOwn
  <2>5. event # 2000
    BY <2>2 DEF NoneLeft
  <2>6. Ready(closed, CleanedUp(o, live), pending, list)
    BY <1>1, <1>3, <1>4, <2>1, <2>2, <2>3, <2>4, <2>5 DEF Ready
  <2> QED
    BY <2>1, <2>6, NextTried
<1>6. CASE /\ s' = [closed EXCEPT !.readyState = "closed"] /\ live' = CleanedUp(o, live)
           /\ timers' \in {pending, Cleared(o, pending)}
           /\ event' = code \/ (event' = 2000 /\ o.protocols = <<>>)
           /\ closing' = "due" /\ wire' = [u \in Transports |-> <<>>]
           /\ load' = load /\ produced' = produced
  <2>1. closing' = "due" /\ load' = load /\ produced' = produced
    BY <1>6
  <2> HIDE DEF closed
  <2>3. /\ s' \in Objects /\ s'.readyState = "closed" /\ s'.ir = "none" /\ s'.transport = NoTransport
        /\ s'.transportTref = o.transportTref /\ s'.protocols = o.protocols
    BY <1>3, <1>6 DEF Objects
  <2>4. timers' \subseteq 1 .. Len(wire) /\ live' = {}
    BY <1>1, <1>4, <1>6 DEF Cleared
  <2>5. event' \in Nat /\ (event' = 2000 => o.protocols = <<>>)
    BY <1>1, <1>6
  <2>6. wire' \in Seq(Seq(Frames)) /\ Len(wire') = Len(wire)
    <3> DEFINE F == Seq(Frames)
    <3>1. <<>> \in F
      OBVIOUS
    <3> HIDE DEF F
    <3>2. wire' \in Seq(F) /\ Len(wire') = Len(wire)
      BY <1>2, <1>6, <3>1
    <3> QED
      BY <3>2 DEF F
  <2>7. ObjectTyped' /\ SessionsTyped'
    <3>1. ObjectTyped'
      BY <1>1, <1>2, <2>3, <2>6 DEF ObjectTyped, NoTransport
    <3>2. SessionsTyped'
      BY <1>2, <2>1, <2>6 DEF SessionsTyped
    <3> QED
      BY <3>1, <3>2
  <2>8. OneTransport' /\ TimerIsOwn(s, timers)' /\ NoneLeft(s)'
    BY <2>3, <2>4, <2>5 DEF OneTransport, TimerIsOwn, NoneLeft
  <2>9. LoadHasMore(s)' /\ load' \in BOOLEAN
    <3>1. load => o.protocols = s.protocols
      BY DEF Told
    <3> QED
      BY <1>2, <2>1, <2>3, <3>1 DEF LoadHasMore
  <2>10. Len(wire') + Len(s'.protocols) = Len(list)
    BY <1>1, <2>3, <2>6
  <2>11. SocketCloses
    BY <2>1, <2>3 DEF SocketCloses
  <2>12. timers' \subseteq 1 .. Len(wire') /\ closing' \in {"none", "due", "fired"}
    BY <2>1, <2>4, <2>6
  <2> QED
    BY <2>3, <2>5, <2>7, <2>8, <2>9, <2>10, <2>11, <2>12 DEF Moved
<1> QED
  BY <1>5, <1>6 DEF Ended

\* It does the same when it is forced to, but that it does not try another.
LEMMA EndedBy ==
    ASSUME NEW o, NEW code, NEW pending,
           DidClose(o, code, FALSE, pending) \/ DidClose(o, code, TRUE, pending)
    PROVE  Ended(o, code, pending)
<1>1. CASE GoesOn(o, code) /\ DidClose(o, code, FALSE, pending)
  <2> QED
    BY <1>1 DEF DidClose, Ended
<1>2. CASE ~ (GoesOn(o, code) /\ DidClose(o, code, FALSE, pending))
  <2> DEFINE closed == [o EXCEPT !.ir = "none", !.transport = NoTransport]
             end == [closed EXCEPT !.readyState = "closed"]
             emptied == [u \in Transports |-> <<>>]
  <2>1. /\ s' = end /\ live' = CleanedUp(o, live)
        /\ closing' = "due" /\ wire' = emptied
        /\ load' = load /\ produced' = produced
    BY <1>2 DEF DidClose
  <2>2. timers' \in {pending, Cleared(o, pending)}
    BY <1>2 DEF DidClose
  <2>3. event' = code \/ (event' = 2000 /\ o.protocols = <<>>)
    BY <1>2 DEF DidClose, GoesOn
  <2> HIDE DEF end, emptied
  <2> QED
    BY <2>1, <2>2, <2>3 DEF Ended, end, emptied
<1> QED
  BY <1>1, <1>2

SocketStep == [Socket!Next]_(Socket!socketVars)

\* The object is closed or tries the next transport, and nothing happens to the
\* page but that.
LEMMA MovesAgree ==
    ASSUME IInv, Moved(detected'), detected' \in Seq(Protocols), s.readyState # "closed",
           complete' = complete, batch' = batch, page' = page
    PROVE  IInv' /\ SocketStep
<1>1. /\ Typed /\ Tried /\ Ordered
      /\ delivered' = delivered /\ sent' = sent /\ arrived' = arrived
  BY DEF IInv, page
<1>2. Typed'
  <2>1. PageTyped'
    BY <1>1 DEF Typed, PageTyped
  <2>2. BrowserTyped'
    BY <1>1 DEF Typed, BrowserTyped, Moved
  <2> QED
    BY <2>1, <2>2 DEF Typed, Moved
<1>3. Tried'
  BY DEF Tried, Moved, BeforeFirst, Asking, ListAgrees
<1>4. CASE SocketCloses
  <2>1. Ordered'
    BY <1>4 DEF SocketCloses, Ordered, WhenConnecting, WhenOpen
  <2>2. s.readyState \in {"connecting", "open"}
    BY <1>1 DEF Typed, ObjectTyped, Objects
  <2>3. SocketStep
    BY <1>1, <1>4, <2>2 DEF SocketCloses, SocketStep, Socket!Next, Socket!Close
  <2> QED
    BY <1>2, <1>3, <2>1, <2>3 DEF IInv
<1>5. CASE /\ SocketWaits /\ s.readyState = "connecting"
           /\ \A t \in live' : OpensFirst(wire[t], produced[t])'
  <2>1. batch = <<>> /\ delivered = 0 /\ closing = "none"
    BY <1>1, <1>5 DEF Ordered, WhenConnecting
  <2>2. Ordered'
    BY <1>1, <1>5, <2>1 DEF SocketWaits, Ordered, WhenConnecting, WhenOpen
  <2>3. SocketStep
    BY <1>1, <1>5 DEF SocketWaits, SocketStep, Socket!socketVars
  <2> QED
    BY <1>2, <1>3, <2>2, <2>3 DEF IInv
<1> QED
  BY <1>4, <1>5 DEF Moved

\* An end that nothing else comes with.
LEMMA EndsAgrees ==
    ASSUME IInv, NEW code \in {1000, 1006, 2007, 2010, 3000}, NEW pending \in SUBSET timers,
           s.readyState # "closed", code = 1000 \/ ~ load, Ended(s, code, pending),
           complete' = complete, batch' = batch, page' = page, detected' = detected
    PROVE  IInv' /\ SocketStep
<1>1. Typed /\ Tried
  BY DEF IInv
<1>2. Told(s, code, pending, detected)
  <2>1. /\ s \in Objects /\ s.transportTref \in 0 .. Len(wire) /\ s.protocols \in Seq(Protocols)
        /\ pending \subseteq 1 .. Len(wire) /\ detected \in Seq(Protocols)
    BY <1>1 DEF Typed, ObjectTyped, BrowserTyped, Objects
  <2>2. TimerIsOwn(s, pending) /\ Len(wire) + Len(s.protocols) = Len(detected)
    BY <1>1 DEF Tried, TimerIsOwn, ListAgrees
  <2>3. load => UserSetCode(code)
    BY DEF UserSetCode
  <2> QED
    BY <2>1, <2>2, <2>3 DEF Told
<1>3. Moved(detected)
  <2>1. OneTransport /\ LoadHasMore(s) /\ NoneLeft(s)
    BY <1>1 DEF Tried
  <2> QED
    BY <1>1, <1>2, <2>1, Closes
<1>4. detected' \in Seq(Protocols) /\ Moved(detected')
  BY <1>1, <1>3 DEF Typed, BrowserTyped
<1> QED
  BY <1>4, MovesAgree

\* A transport that lives is the one the object holds.
LEMMA LiveIsHeld ==
    ASSUME IInv, NEW t \in live
    PROVE  /\ t = s.transport /\ live = {t} /\ ~ load /\ ~ Asking(s) /\ t \in 1 .. Len(wire)
           /\ wire[t] \in Seq(Frames) /\ produced[t] \in Numbers
<1>1. t = s.transport /\ live = {t} /\ t # NoTransport
  BY DEF IInv, Tried, OneTransport
<1>2. ~ load /\ ~ Asking(s)
  BY <1>1 DEF IInv, Tried, LoadHasMore, BeforeFirst
<1>3. t \in 1 .. Len(wire)
  BY <1>1 DEF IInv, Typed, ObjectTyped, SessionsTyped, NoTransport
<1> DEFINE F == Seq(Frames)
<1>4. wire \in Seq(F) /\ produced \in Seq(Numbers) /\ Len(produced) = Len(wire)
  BY DEF IInv, Typed, SessionsTyped
<1> HIDE DEF F
<1>5. wire[t] \in F /\ produced[t] \in Numbers
  BY <1>3, <1>4
<1> QED
  BY <1>1, <1>2, <1>3, <1>5 DEF F

\* Whatever the wires and the page's counters do.
LEMMA QuietAgrees ==
    ASSUME Typed, Tried, SessionsTyped', Len(wire') = Len(wire), PageTyped',
           UNCHANGED <<s, complete, load, live, event, detected>>,
           timers' \subseteq timers, closing' \in {"none", "due", "fired"}
    PROVE  Typed' /\ Tried'
<1>1. /\ s' = s /\ complete' = complete /\ load' = load /\ live' = live /\ event' = event
      /\ detected' = detected
  OBVIOUS
<1>2. ObjectTyped' /\ BrowserTyped'
  BY <1>1 DEF Typed, ObjectTyped, BrowserTyped
<1>3. wire = <<>> => wire' = <<>>
  <2> DEFINE F == Seq(Frames)
  <2>1. wire' \in Seq(F)
    BY DEF SessionsTyped
  <2> HIDE DEF F
  <2> QED
    BY <2>1
<1>4. Tried'
  <2>1. OneTransport' /\ LoadHasMore(s)' /\ ListAgrees(s)' /\ NoneLeft(s)'
    BY <1>1 DEF Tried, OneTransport, LoadHasMore, ListAgrees, NoneLeft
  <2>2. TimerIsOwn(s, timers)'
    BY <1>1 DEF Tried, TimerIsOwn
  <2>3. BeforeFirst(s)'
    BY <1>1, <1>3 DEF Tried, BeforeFirst, Asking
  <2> QED
    BY <2>1, <2>2, <2>3 DEF Tried
<1> QED
  BY <1>2, <1>4 DEF Typed

\* The handlers of /info.
LEMMA InfoAgrees == ASSUME IInv, Info PROVE IInv' /\ SocketStep
<1>1. Typed /\ Tried /\ Ordered
  BY DEF IInv
<1>2. ASSUME NEW ir \in {"asked", "garbled"}, s.ir \in {"delayed", "asked"},
             s' = [s EXCEPT !.ir = ir],
             UNCHANGED <<browser, live, timers, event, closing, batch, server, page, detected>>
      PROVE  IInv' /\ SocketStep
  <2>1. /\ UNCHANGED <<complete, load, live, timers, event, closing, batch, detected>>
        /\ UNCHANGED <<wire, produced, sent, arrived, delivered>>
    BY <1>2 DEF browser, server, page
  <2>2. /\ s' \in Objects /\ s'.readyState = s.readyState /\ s'.ir = ir
        /\ s'.protocols = s.protocols /\ s'.transport = s.transport
        /\ s'.transportTref = s.transportTref
    <3>1. s \in Objects
      BY <1>1 DEF Typed, ObjectTyped
    <3> QED
      BY <1>2, <3>1 DEF Objects
  <2>3. Typed'
    BY <1>1, <2>1, <2>2 DEF Typed, ObjectTyped, SessionsTyped, PageTyped, BrowserTyped
  <2>4. Asking(s)
    BY <1>2 DEF Asking
  <2>5. Tried'
    BY <1>1, <2>1, <2>2, <2>4
    DEF Tried, OneTransport, TimerIsOwn, BeforeFirst, LoadHasMore, ListAgrees, NoneLeft
  <2>6. Ordered'
    BY <1>1, <2>1, <2>2 DEF Ordered, WhenConnecting, WhenOpen
  <2>7. SocketStep
    BY <2>1, <2>2 DEF SocketStep, Socket!socketVars
  <2> QED
    BY <2>3, <2>5, <2>6, <2>7 DEF IInv
<1>3. CASE InfoAsked
  BY <1>2, <1>3 DEF InfoAsked
<1>4. CASE InfoGarbled
  BY <1>2, <1>4 DEF InfoGarbled
<1>5. ASSUME s.ir = "asked", NEW list \in Seq(Protocols), NEW o \in Objects,
             NEW code \in {0, 1002}, o.readyState = s.readyState, o.transport = s.transport,
             o.transportTref = s.transportTref, o.protocols = list,
             Ended(o, code, timers), detected' = list,
             UNCHANGED <<complete, batch, page>>, Len(wire) + Len(list) = Len(list)
      PROVE  IInv' /\ SocketStep
  <2>1. /\ s.readyState = "connecting" /\ ~ load /\ OneTransport /\ LoadHasMore(s)
        /\ NoneLeft(s) /\ TimerIsOwn(s, timers)
    BY <1>1, <1>5 DEF Tried, BeforeFirst, Asking
  <2>2. s.transportTref \in 0 .. Len(wire) /\ timers \subseteq 1 .. Len(wire)
    BY <1>1 DEF Typed, ObjectTyped, BrowserTyped
  <2>3. TimerIsOwn(o, timers)
    BY <1>5, <2>1 DEF TimerIsOwn
  <2>4. Told(o, code, timers, list)
    BY <1>5, <2>1, <2>2, <2>3 DEF Told
  <2>5. Moved(list)
    BY <1>1, <1>5, <2>1, <2>4, Closes
  <2>6. Moved(detected') /\ detected' \in Seq(Protocols)
    BY <1>5, <2>5
  <2> QED
    BY <1>5, <2>1, <2>6, MovesAgree
<1>6. CASE InfoArrives
  <2>1. PICK list \in ProtocolLists : /\ detected' = list
                                      /\ DidClose(ApplyInfo(list), 0, FALSE, timers)
    BY <1>6 DEF InfoArrives
  <2>2. list \in Seq(Protocols) /\ Len(list) \in Nat
    BY BoundsAssumption DEF Protocols
  <2>3. s.ir = "asked" /\ wire = <<>> /\ s \in Objects
    BY <1>1, <1>6 DEF InfoArrives, Tried, BeforeFirst, Asking, Typed, ObjectTyped
  <2>4. Len(wire) + Len(list) = Len(list)
    BY <2>2, <2>3
  <2>5. UNCHANGED <<complete, batch, page>>
    BY <1>6 DEF InfoArrives
  <2> DEFINE o == ApplyInfo(list)
  <2>6. /\ o \in Objects /\ o.readyState = s.readyState /\ o.transport = s.transport
        /\ o.transportTref = s.transportTref /\ o.protocols = list
    BY <2>2, <2>3 DEF ApplyInfo, Objects
  <2>7. DidClose(o, 0, FALSE, timers)
    BY <2>1
  <2> HIDE DEF o
  <2>8. Ended(o, 0, timers)
    BY <2>7, EndedBy, Zenon
  <2> QED
    BY <1>5, <2>1, <2>2, <2>3, <2>4, <2>5, <2>6, <2>8
<1>7. CASE InfoFails
  <2> DEFINE o == [s EXCEPT !.ir = "none"]
  <2>1. s.ir = "asked" /\ DidClose(o, 1002, TRUE, timers) /\ UNCHANGED <<complete, batch, page, detected>>
    BY <1>7 DEF InfoFails
  <2>2. wire = <<>> /\ s.protocols = <<>> /\ Len(wire) + Len(s.protocols) = Len(detected)
    BY <1>1, <2>1 DEF Tried, BeforeFirst, Asking, ListAgrees
  <2>3. /\ s.protocols \in Seq(Protocols) /\ detected \in Seq(Protocols)
        /\ s \in Objects
    BY <1>1 DEF Typed, ObjectTyped, BrowserTyped, Objects
  <2>4. detected = s.protocols
    BY <2>2, <2>3
  <2>5. /\ o \in Objects /\ o.readyState = s.readyState /\ o.transport = s.transport
        /\ o.transportTref = s.transportTref /\ o.protocols = detected
    BY <2>3, <2>4 DEF Objects
  <2>6. DidClose(o, 1002, TRUE, timers)
    BY <2>1
  <2> HIDE DEF o
  <2>7. Ended(o, 1002, timers)
    <3> DEFINE code == 1002
    <3>1. DidClose(o, code, TRUE, timers)
      BY <2>6
    <3> HIDE DEF code
    <3>2. Ended(o, code, timers)
      BY <3>1, EndedBy, Zenon
    <3> QED
      BY <3>2 DEF code
  <2>8. Len(wire) + Len(detected) = Len(detected) /\ UNCHANGED <<complete, batch, page>>
    BY <2>1, <2>2, <2>4
  <2> QED
    BY <1>5, <2>1, <2>3, <2>5, <2>7, <2>8
<1> QED
  BY <1>3, <1>4, <1>6, <1>7 DEF Info

\* A transport waited for the page to be loaded.
LEMMA LoadsAgrees == ASSUME IInv, Loads PROVE IInv' /\ SocketStep
<1>1. /\ Typed /\ Tried /\ Ordered
      /\ UNCHANGED <<event, closing, batch, detected, sent, arrived, delivered>>
      /\ complete' = TRUE
  BY DEF IInv, Loads, page
<1>2. CASE ~ load
  <2>1. UNCHANGED <<s, live, timers, wire, produced, load>>
    BY <1>2 DEF Loads, server
  <2>2. Typed'
    BY <1>1, <2>1 DEF Typed, ObjectTyped, SessionsTyped, PageTyped, BrowserTyped
  <2>3. Tried'
    BY <1>1, <2>1
    DEF Tried, OneTransport, TimerIsOwn, BeforeFirst, LoadHasMore, ListAgrees, NoneLeft
  <2>4. Ordered'
    BY <1>1, <2>1 DEF Ordered, WhenConnecting, WhenOpen
  <2>5. SocketStep
    BY <1>1, <2>1 DEF SocketStep, Socket!socketVars
  <2> QED
    BY <2>2, <2>3, <2>4, <2>5 DEF IInv
<1>3. CASE load
  <2>1. PICK t \in Nat : t = Len(wire) + 1
    BY <1>1 DEF Typed, SessionsTyped
  <2>2. /\ s.transport = NoTransport /\ s.protocols # <<>> /\ s.readyState # "open"
        /\ live = {} /\ ~ Asking(s)
    BY <1>1, <1>3 DEF Tried, LoadHasMore, OneTransport, BeforeFirst
  <2>3. /\ s \in Objects /\ s.protocols \in Seq(Protocols) /\ event \in Nat
        /\ timers \subseteq 1 .. Len(wire) /\ Len(wire) \in Nat /\ SessionsTyped
        /\ detected \in Seq(Protocols) /\ Len(wire) + Len(s.protocols) = Len(detected)
    BY <1>1 DEF Typed, ObjectTyped, SessionsTyped, BrowserTyped, Objects, Tried, ListAgrees
  <2> DEFINE list == Tail(s.protocols)
  <2>4. /\ s' = [s EXCEPT !.protocols = list, !.transport = t, !.transportTref = t]
        /\ live' = {t} /\ timers' = (timers \ {s.transportTref}) \cup {t}
        /\ wire' = Append(wire, <<>>) /\ produced' = Append(produced, Unopened)
        /\ load' = FALSE
    BY <1>3, <2>1, <2>2 DEF Loads, Rest, Armed, Cleared
  <2>5. list \in Seq(Protocols) /\ Len(list) = Len(s.protocols) - 1
    BY <2>2, <2>3
  <2>6. SessionsTyped' /\ Len(wire') = t /\ OpensFirst(wire'[t], produced'[t])
    <3>1. wire \in Seq(Seq(Frames))
      BY <2>3 DEF SessionsTyped
    <3> QED
      BY <1>1, <2>1, <2>4, <3>1, TransportMade
  <2> HIDE DEF list
  <2>7. /\ s' \in Objects /\ s'.transport = t /\ s'.transportTref = t /\ s'.protocols = list
        /\ s'.readyState = s.readyState /\ s'.ir = s.ir
    <3>1. s \in Objects
      BY <2>3
    <3> QED
      BY <2>1, <2>4, <2>5, <3>1 DEF Objects
  <2>8. Typed'
    <3>1. Len(wire') = t /\ timers' = (timers \ {s.transportTref}) \cup {t} /\ load' = FALSE
      BY <2>4, <2>6
    <3>2. ObjectTyped'
      BY <2>1, <2>7, <3>1 DEF ObjectTyped
    <3>3. timers' \subseteq 1 .. Len(wire')
      <4>1. Len(wire') = Len(wire) + 1
        BY <2>1, <3>1
      <4>2. \A u \in timers' : u \in timers \/ u = Len(wire) + 1
        BY <2>1, <3>1
      <4>3. Len(wire) \in Nat /\ timers \subseteq 1 .. Len(wire)
        BY <2>3
      <4>4. Len(wire) + 1 \in 1 .. Len(wire') /\ timers \subseteq 1 .. Len(wire')
        BY <4>1, <4>3
      <4> QED
        BY <4>2, <4>4
    <3>4. BrowserTyped'
      BY <1>1, <3>1, <3>3 DEF Typed, BrowserTyped
    <3>5. PageTyped'
      BY <1>1 DEF Typed, PageTyped
    <3> QED
      BY <2>6, <3>2, <3>4, <3>5 DEF Typed
  <2>9. Tried'
    <3>1. OneTransport' /\ LoadHasMore(s)'
      BY <2>1, <2>3, <2>4, <2>7 DEF OneTransport, LoadHasMore, NoTransport
    <3>2. TimerIsOwn(s, timers)'
      BY <1>1, <2>4, <2>7 DEF Tried, TimerIsOwn
    <3>3. BeforeFirst(s)'
      BY <2>2, <2>7 DEF BeforeFirst, Asking
    <3>4. ListAgrees(s)'
      <4>1. Len(s'.protocols) = Len(s.protocols) - 1 /\ Len(wire') = Len(wire) + 1
        BY <2>1, <2>5, <2>6, <2>7
      <4>2. /\ Len(s.protocols) \in Nat /\ Len(wire) \in Nat
            /\ Len(wire) + Len(s.protocols) = Len(detected)
        BY <2>3
      <4> DEFINE x == Len(s'.protocols)
                 y == Len(s.protocols)
                 a == Len(wire)
                 b == Len(wire')
                 c == Len(detected)
      <4>4. x = y - 1 /\ b = a + 1 /\ y \in Nat /\ a \in Nat /\ a + y = c
        BY <4>1, <4>2
      <4> HIDE DEF x, y, a, b, c
      <4>5. b + x = c
        BY <4>4
      <4>3. Len(wire') + Len(s'.protocols) = Len(detected)
        BY <4>5 DEF b, x, c
      <4> QED
        BY <1>1, <4>3 DEF ListAgrees
    <3>5. NoneLeft(s)'
      BY <1>1, <2>2 DEF Tried, NoneLeft
    <3> QED
      BY <3>1, <3>2, <3>3, <3>4, <3>5 DEF Tried
  <2>10. Ordered'
    <3>1. \A u \in live' : OpensFirst(wire'[u], produced'[u])
      <4> SUFFICES ASSUME NEW u \in live' PROVE OpensFirst(wire'[u], produced'[u])
        OBVIOUS
      <4>1. u = t
        BY <2>4
      <4> QED
        BY <2>6, <4>1, Zenon
    <3> QED
      BY <1>1, <2>2, <2>7, <3>1 DEF Ordered, WhenConnecting, WhenOpen
  <2>11. SocketStep
    BY <1>1, <2>7 DEF SocketStep, Socket!socketVars
  <2> QED
    BY <2>8, <2>9, <2>10, <2>11 DEF IInv
<1> QED
  BY <1>2, <1>3
-----------------------------------------------------------------------------
(***************************************************************************)
(* Frames on their way.                                                    *)
(***************************************************************************)
\* What a session sends next, and how many messages it has sent then.
Said(frame, n, m) ==
    IF frame.type = "a" THEN n # Unopened /\ Follows(frame, n) /\ m = n + Gains(frame)
    ELSE m = IF frame.type = "o" /\ n = Unopened THEN 0 ELSE n

\* A session that says o before it sends messages goes on doing so.
LEMMA OpensFirstAppend ==
    ASSUME NEW frames \in Seq(Frames), NEW frame \in Frames, NEW n \in Numbers,
           NEW m \in Numbers, OpensFirst(frames, n), Said(frame, n, m)
    PROVE  OpensFirst(Append(frames, frame), m)
<1> DEFINE more == Append(frames, frame)
           at(k) == IF k = Unopened THEN 0 ELSE k
<1>1. /\ Len(frames) \in Nat /\ Len(more) = Len(frames) + 1 /\ more[Len(more)] = frame
      /\ \A i \in 1 .. Len(frames) : more[i] = frames[i]
      /\ Gains(frame) \in Nat /\ frame.type \in {"o", "h", "a", "c"}
      /\ n \in Int /\ m \in Int /\ (n # Unopened => n \in Nat)
  BY FrameKinds DEF Numbers, Unopened
<1> HIDE DEF more
<1>2. /\ n # Unopened <=> \E j \in 1 .. Len(frames) : frames[j].type = "o"
      /\ \A i \in 1 .. Len(frames) : frames[i].type = "a" =>
           \E j \in 1 .. i - 1 : frames[j].type = "o"
      /\ Numbered(0, frames, at(n))
  BY DEF OpensFirst
<1>3. m # Unopened <=> \E j \in 1 .. Len(more) : more[j].type = "o"
  <2>1. m # Unopened <=> n # Unopened \/ frame.type = "o"
    BY <1>1 DEF Said, Unopened
  <2>2. (\E j \in 1 .. Len(more) : more[j].type = "o")
          <=> (\E j \in 1 .. Len(frames) : frames[j].type = "o") \/ frame.type = "o"
    BY <1>1
  <2> QED
    BY <1>2, <2>1, <2>2
<1>4. ASSUME NEW i \in 1 .. Len(more), more[i].type = "a"
      PROVE  \E j \in 1 .. i - 1 : more[j].type = "o"
  <2>1. CASE i \in 1 .. Len(frames)
    <3>1. PICK j \in 1 .. i - 1 : frames[j].type = "o"
      BY <1>1, <1>2, <1>4, <2>1
    <3>2. j \in 1 .. Len(frames)
      BY <1>1, <2>1
    <3> QED
      BY <1>1, <3>1, <3>2
  <2>2. CASE i = Len(more)
    <3>1. n # Unopened
      BY <1>1, <1>4, <2>2 DEF Said
    <3>2. PICK j \in 1 .. Len(frames) : frames[j].type = "o"
      BY <1>2, <3>1
    <3>3. j \in 1 .. i - 1
      BY <1>1, <2>2
    <3> QED
      BY <1>1, <3>2, <3>3
  <2> QED
    BY <1>1, <2>1, <2>2
<1>5. at(n) \in Int /\ Follows(frame, at(n)) /\ at(m) = at(n) + Gains(frame)
  <2>1. at(n) \in Int
    BY <1>1
  <2>2. CASE frame.type = "a"
    <3>1. n # Unopened /\ n \in Nat /\ Follows(frame, n) /\ m = n + Gains(frame)
      BY <1>1, <2>2 DEF Said
    <3>2. m \in Nat /\ m # Unopened
      BY <1>1, <3>1 DEF Unopened
    <3> QED
      BY <3>1, <3>2
  <2>3. CASE frame.type # "a"
    <3>1. Follows(frame, at(n)) /\ Gains(frame) = 0
      BY <2>3 DEF Follows, Gains
    <3>2. m = IF frame.type = "o" /\ n = Unopened THEN 0 ELSE n
      BY <2>3 DEF Said
    <3> QED
      BY <1>1, <2>1, <3>1, <3>2 DEF Unopened
  <2> QED
    BY <2>1, <2>2, <2>3
<1>6. Numbered(0, more, at(m))
  <2> HIDE DEF at
  <2>1. Numbered(0, Append(frames, frame), at(n) + Gains(frame))
    BY <1>2, <1>5, NumberedAppend
  <2> QED
    BY <1>5, <2>1 DEF more
<1> QED
  BY <1>3, <1>4, <1>6 DEF OpensFirst, more

\* The page takes a frame that is neither o nor a message.
LEMMA OpensFirstTail ==
    ASSUME NEW frames \in Seq(Frames), frames # <<>>, NEW n \in Numbers, OpensFirst(frames, n),
           Head(frames).type \in {"h", "c"}
    PROVE  OpensFirst(Tail(frames), n)
<1> DEFINE rest == Tail(frames)
           at(k) == IF k = Unopened THEN 0 ELSE k
<1>1. /\ Len(rest) \in Nat /\ Len(frames) = Len(rest) + 1
      /\ \A i \in 1 .. Len(rest) : rest[i] = frames[i + 1]
      /\ frames[1].type \in {"h", "c"}
      /\ Head(frames) \in Frames
  OBVIOUS
<1> HIDE DEF rest
<1>2. /\ n # Unopened <=> \E j \in 1 .. Len(frames) : frames[j].type = "o"
      /\ \A i \in 1 .. Len(frames) : frames[i].type = "a" =>
           \E j \in 1 .. i - 1 : frames[j].type = "o"
      /\ Numbered(0, frames, at(n))
  BY DEF OpensFirst
<1>3. \A j \in 1 .. Len(frames) : frames[j].type = "o" =>
        j - 1 \in 1 .. Len(rest) /\ rest[j - 1] = frames[j]
  BY <1>1
<1>4. n # Unopened <=> \E j \in 1 .. Len(rest) : rest[j].type = "o"
  <2>1. \A j \in 1 .. Len(rest) : j + 1 \in 1 .. Len(frames)
    BY <1>1
  <2> QED
    BY <1>1, <1>2, <1>3, <2>1
<1>5. ASSUME NEW i \in 1 .. Len(rest), rest[i].type = "a"
      PROVE  \E j \in 1 .. i - 1 : rest[j].type = "o"
  <2>1. i + 1 \in 1 .. Len(frames) /\ frames[i + 1].type = "a" /\ (i + 1) - 1 = i
    BY <1>1, <1>5
  <2>2. PICK j \in 1 .. i : frames[j].type = "o"
    BY <1>2, <2>1
  <2>3. j \in 1 .. Len(frames) /\ j # 1
    BY <1>1, <2>2
  <2>4. j - 1 \in 1 .. i - 1 /\ rest[j - 1].type = "o"
    BY <1>3, <2>2, <2>3
  <2> QED
    BY <2>4
<1>6. Numbered(0, rest, at(n))
  <2>1. Gains(Head(frames)) = 0 /\ at(n) \in Int
    BY <1>1 DEF Gains, Numbers, Unopened
  <2> HIDE DEF at
  <2>2. Numbered(0 + Gains(Head(frames)), Tail(frames), at(n))
    BY <1>2, <2>1, NumberedTail
  <2> QED
    BY <2>1, <2>2 DEF rest
<1> QED
  BY <1>4, <1>5, <1>6 DEF OpensFirst, rest

\* The same of a session whose messages the page takes.
LEMMA GoesOnAppend ==
    ASSUME NEW frames \in Seq(Frames), NEW frame \in Frames, NEW from \in Int, NEW n \in Numbers,
           NEW m \in Numbers, GoesOnFrom(from, frames, n), Said(frame, n, m)
    PROVE  GoesOnFrom(from, Append(frames, frame), m)
<1>1. n # Unopened /\ n \in Int /\ Numbered(from, frames, n)
  BY DEF GoesOnFrom, Numbers, Unopened
<1>2. m # Unopened /\ Follows(frame, n) /\ m = n + Gains(frame)
  <2>1. CASE frame.type = "a"
    <3>1. Follows(frame, n) /\ m = n + Gains(frame) /\ Gains(frame) \in Nat
      BY <2>1, FrameKinds DEF Said
    <3> QED
      BY <1>1, <3>1 DEF Unopened, Numbers
  <2>2. CASE frame.type # "a"
    BY <1>1, <2>2 DEF Said, Follows, Gains
  <2> QED
    BY <2>1, <2>2
<1>3. Numbered(from, Append(frames, frame), n + Gains(frame))
  BY <1>1, <1>2, NumberedAppend
<1> QED
  BY <1>2, <1>3 DEF GoesOnFrom

\* Frames of the one transport there is, when the object does not change.
LEMMA FramesAgree ==
    ASSUME IInv, NEW t \in live, NEW frames \in Seq(Frames), NEW n \in Numbers,
           wire' = [wire EXCEPT ![t] = frames], produced' = [produced EXCEPT ![t] = n],
           UNCHANGED <<s, complete, load, live, timers, event, closing, batch, detected>>,
           UNCHANGED <<sent, arrived, delivered>>,
           s.readyState = "connecting" => OpensFirst(frames, n),
           s.readyState = "open" => GoesOnFrom(delivered + Len(batch), frames, n)
    PROVE  IInv' /\ SocketStep
<1>1. /\ Typed /\ Tried /\ Ordered /\ t \in 1 .. Len(wire) /\ live = {t}
  BY LiveIsHeld DEF IInv
<1>2. SessionsTyped' /\ Len(wire') = Len(wire) /\ wire'[t] = frames /\ produced'[t] = n
  <2> DEFINE F == Seq(Frames)
  <2>1. wire \in Seq(F) /\ frames \in F /\ produced \in Seq(Numbers) /\ Len(produced) = Len(wire)
    BY <1>1 DEF Typed, SessionsTyped
  <2> HIDE DEF F
  <2>2. wire' \in Seq(F) /\ Len(wire') = Len(wire) /\ wire'[t] = frames
    BY <1>1, <2>1
  <2>3. produced' \in Seq(Numbers) /\ Len(produced') = Len(produced) /\ produced'[t] = n
    BY <1>1, <2>1
  <2> QED
    BY <2>1, <2>2, <2>3 DEF SessionsTyped, F
<1>3. /\ PageTyped' /\ closing' \in {"none", "due", "fired"}
      /\ s' = s /\ batch' = batch /\ delivered' = delivered /\ closing' = closing /\ live' = {t}
  BY <1>1 DEF Typed, PageTyped, BrowserTyped
<1>4. Typed' /\ Tried'
  BY <1>1, <1>2, <1>3, QuietAgrees
<1>5. Ordered'
  <2>1. ASSUME NEW u \in live', s.readyState = "connecting"
        PROVE  OpensFirst(wire'[u], produced'[u])
    <3>1. u = t
      BY <1>3
    <3> QED
      BY <1>2, <2>1, <3>1, Zenon
  <2>2. ASSUME NEW u \in live', s.readyState = "open"
        PROVE  GoesOnFrom(delivered' + Len(batch'), wire'[u], produced'[u])
    <3>1. u = t
      BY <1>3
    <3> QED
      BY <1>2, <1>3, <2>2, <3>1, Zenon
  <2>3. WhenConnecting'
    BY <1>1, <1>3, <2>1 DEF Ordered, WhenConnecting
  <2>4. WhenOpen'
    BY <1>1, <1>3, <2>2 DEF Ordered, WhenOpen
  <2> QED
    BY <2>3, <2>4 DEF Ordered
<1>6. SocketStep
  BY <1>3 DEF SocketStep, Socket!socketVars
<1> QED
  BY <1>4, <1>5, <1>6 DEF IInv

\* What the server says, when there is room for it.
LEMMA SaidAgrees ==
    ASSUME IInv, NEW t \in live, NEW frame \in Frames, NEW n \in Numbers, Said(frame, produced[t], n),
           Put(t, frame), produced' = [produced EXCEPT ![t] = n], Calm
    PROVE  IInv' /\ SocketStep
<1>1. t \in 1 .. Len(wire) /\ wire[t] \in Seq(Frames) /\ produced[t] \in Numbers
  BY LiveIsHeld
<1>2. Ordered /\ delivered \in Int /\ Len(batch) \in Int
  BY DEF IInv, Typed, PageTyped, Payloads
<1> DEFINE more == Append(wire[t], frame)
<1>3. s.readyState = "connecting" => OpensFirst(more, n)
  BY <1>1, <1>2, OpensFirstAppend DEF Ordered, WhenConnecting
<1>4. s.readyState = "open" => GoesOnFrom(delivered + Len(batch), more, n)
  <2>1. delivered + Len(batch) \in Int
    BY <1>2
  <2>2. s.readyState = "open" => GoesOnFrom(delivered + Len(batch), wire[t], produced[t])
    BY <1>2 DEF Ordered, WhenOpen
  <2> QED
    BY <1>1, <2>1, <2>2, GoesOnAppend
<1>5. wire' = [wire EXCEPT ![t] = more] /\ more \in Seq(Frames)
  BY <1>1 DEF Put
<1>6. /\ UNCHANGED <<s, complete, load, live, timers, event, closing, batch, detected>>
      /\ UNCHANGED <<sent, arrived, delivered>>
  BY DEF Calm, browser, page
<1> HIDE DEF more
<1> QED
  BY <1>3, <1>4, <1>5, <1>6, FramesAgree

\* The server opens, sends, beats and closes.
LEMMA ServerAgrees ==
    ASSUME IInv, NEW t \in Transports,
           ServerOpens(t) \/ ServerSends(t) \/ ServerBeats(t) \/ ServerCloses(t)
    PROVE  IInv' /\ SocketStep
<1>1. t \in live
  BY DEF ServerOpens, ServerSends, ServerBeats, ServerCloses, Room
<1>2. /\ t \in 1 .. Len(wire) /\ produced[t] \in Numbers /\ MaxPayloads \in Nat
      /\ produced \in Seq(Numbers)
  BY <1>1, LiveIsHeld, BoundsAssumption DEF IInv, Typed, SessionsTyped
<1>3. ASSUME UNCHANGED produced PROVE produced' = [produced EXCEPT ![t] = produced[t]]
  BY <1>2, <1>3
<1>4. CASE ServerOpens(t)
  <2> DEFINE frame == [type |-> "o"]
             n == IF produced[t] = Unopened THEN 0 ELSE produced[t]
  <2>1. /\ Put(t, frame) /\ produced' = [produced EXCEPT ![t] = n] /\ Calm
    BY <1>4 DEF ServerOpens
  <2>2. frame \in Frames /\ n \in Numbers
    BY <1>2 DEF Frames, Numbers
  <2>3. Said(frame, produced[t], n)
    BY DEF Said
  <2> HIDE DEF frame, n
  <2> QED
    BY <1>1, <2>1, <2>2, <2>3, SaidAgrees
<1>5. CASE ServerSends(t)
  <2>1. PICK k \in 1 .. 2 :
          /\ produced[t] + k <= MaxPayloads
          /\ Put(t, [type |-> "a", payload |-> [i \in 1 .. k |-> produced[t] + i]])
          /\ produced' = [produced EXCEPT ![t] = @ + k]
    BY <1>5 DEF ServerSends
  <2>2. Calm /\ produced[t] \in Nat /\ produced[t] # Unopened
    BY <1>2, <1>5 DEF ServerSends, Numbers, Unopened
  <2> DEFINE payload == [i \in 1 .. k |-> produced[t] + i]
             frame == [type |-> "a", payload |-> payload]
             n == produced[t] + k
  <2>3. payload \in Payloads /\ Len(payload) = k /\ \A i \in 1 .. k : payload[i] = produced[t] + i
    BY <1>2, <2>1, <2>2 DEF Payloads
  <2>4. n \in Numbers /\ Put(t, frame) /\ produced' = [produced EXCEPT ![t] = n]
    BY <1>2, <2>1, <2>2 DEF Numbers
  <2> HIDE DEF payload
  <2>5. frame \in Frames /\ frame.type = "a" /\ frame.payload = payload
    BY <2>3 DEF Frames
  <2> HIDE DEF frame
  <2>6. Said(frame, produced[t], n)
    BY <2>2, <2>3, <2>5 DEF Said, Follows, Gains
  <2> HIDE DEF n
  <2> QED
    BY <1>1, <2>2, <2>4, <2>5, <2>6, SaidAgrees
<1>6. CASE ServerBeats(t)
  <2> DEFINE frame == [type |-> "h"]
  <2>1. Put(t, frame) /\ UNCHANGED produced /\ Calm
    BY <1>6 DEF ServerBeats
  <2>2. frame \in Frames
    BY DEF Frames
  <2>3. Said(frame, produced[t], produced[t])
    BY DEF Said
  <2> HIDE DEF frame
  <2> QED
    BY <1>1, <1>2, <1>3, <2>1, <2>2, <2>3, SaidAgrees
<1>7. CASE ServerCloses(t)
  <2>1. PICK code \in {2010, 3000} : Put(t, [type |-> "c", code |-> code])
    BY <1>7 DEF ServerCloses
  <2> DEFINE frame == [type |-> "c", code |-> code]
  <2>2. Put(t, frame) /\ UNCHANGED produced /\ Calm
    BY <1>7, <2>1 DEF ServerCloses
  <2>3. frame \in Frames
    BY DEF Frames
  <2>4. Said(frame, produced[t], produced[t])
    BY DEF Said
  <2> HIDE DEF frame
  <2> QED
    BY <1>1, <1>2, <1>3, <2>2, <2>3, <2>4, SaidAgrees
<1> QED
  BY <1>4, <1>5, <1>6, <1>7

\* A frame is gone that the page did not wait for.
LEMMA IgnoreAgrees ==
    ASSUME IInv, NEW t \in live, wire[t] # <<>>, Ignore(t),
           s.readyState = "connecting" => Head(wire[t]).type \in {"h", "c"},
           s.readyState = "open" => Head(wire[t]).type # "a"
    PROVE  IInv' /\ SocketStep
<1>1. t \in 1 .. Len(wire) /\ wire[t] \in Seq(Frames) /\ produced[t] \in Numbers
  BY LiveIsHeld
<1>2. Ordered /\ delivered \in Int /\ Len(batch) \in Int /\ produced \in Seq(Numbers)
  BY DEF IInv, Typed, PageTyped, SessionsTyped, Payloads
<1> DEFINE rest == Tail(wire[t])
<1>3. s.readyState = "connecting" => OpensFirst(rest, produced[t])
  BY <1>1, <1>2, OpensFirstTail DEF Ordered, WhenConnecting
<1>4. ASSUME s.readyState = "open"
      PROVE  GoesOnFrom(delivered + Len(batch), rest, produced[t])
  <2>1. PICK from \in Int : from = delivered + Len(batch)
    BY <1>2
  <2>2. GoesOnFrom(from, wire[t], produced[t])
    BY <1>2, <1>4, <2>1 DEF Ordered, WhenOpen
  <2>3. produced[t] \in Int /\ Gains(Head(wire[t])) = 0
    BY <1>1, <1>4 DEF Numbers, Unopened, Gains
  <2>4. Numbered(from + Gains(Head(wire[t])), rest, produced[t])
    BY <1>1, <2>2, <2>3, NumberedTail DEF GoesOnFrom
  <2>5. from + Gains(Head(wire[t])) = from
    BY <2>3
  <2> HIDE DEF rest
  <2> QED
    BY <2>1, <2>2, <2>4, <2>5 DEF GoesOnFrom
<1>5. /\ wire' = [wire EXCEPT ![t] = rest] /\ rest \in Seq(Frames)
      /\ produced' = [produced EXCEPT ![t] = produced[t]]
  BY <1>1, <1>2 DEF Ignore, Consume
<1>6. /\ UNCHANGED <<s, complete, load, live, timers, event, closing, batch, detected>>
      /\ UNCHANGED <<sent, arrived, delivered>>
  BY DEF Ignore, browser, page
<1> HIDE DEF rest
<1> QED
  BY <1>1, <1>3, <1>4, <1>5, <1>6, FramesAgree

\* The wire of the one transport there is, when the page has taken a frame.
LEMMA ConsumeTyped ==
    ASSUME IInv, NEW t \in live, wire[t] # <<>>, Consume(t)
    PROVE  /\ SessionsTyped' /\ Len(wire') = Len(wire) /\ wire'[t] = Tail(wire[t])
           /\ produced' = produced
<1> DEFINE F == Seq(Frames)
<1>1. t \in 1 .. Len(wire) /\ wire[t] \in Seq(Frames)
  BY LiveIsHeld
<1>2. Tail(wire[t]) \in F
  BY <1>1
<1>3. wire \in Seq(F) /\ produced \in Seq(Numbers) /\ Len(produced) = Len(wire)
  BY DEF IInv, Typed, SessionsTyped
<1>4. wire' = [wire EXCEPT ![t] = Tail(wire[t])] /\ produced' = produced
  BY DEF Consume
<1> HIDE DEF F
<1>5. wire' \in Seq(F) /\ Len(wire') = Len(wire) /\ wire'[t] = Tail(wire[t])
  BY <1>1, <1>2, <1>3, <1>4
<1> QED
  BY <1>3, <1>4, <1>5 DEF SessionsTyped, F

\* The transport that is tried has brought its o.
LEMMA GetOpenAgrees ==
    ASSUME IInv, NEW t \in Transports, GetOpen(t)
    PROVE  IInv' /\ SocketStep
<1>1. /\ batch = <<>> /\ t \in live /\ wire[t] # <<>> /\ Head(wire[t]).type = "o"
      /\ Typed /\ Tried /\ Ordered
  BY DEF GetOpen, Idle, IInv
<1>2. /\ t = s.transport /\ live = {t} /\ ~ load /\ ~ Asking(s)
      /\ wire[t] \in Seq(Frames) /\ produced[t] \in Numbers
  BY <1>1, LiveIsHeld
<1>3. CASE s.readyState = "connecting"
  <2>1. /\ Consume(t)
        /\ s' = [s EXCEPT !.readyState = "open", !.transportTref = NoTransport]
        /\ timers' = timers \ {s.transportTref}
        /\ UNCHANGED <<complete, load, live, event, closing, batch, detected>>
        /\ UNCHANGED <<sent, arrived, delivered>>
    BY <1>3 DEF GetOpen, browser, page
  <2>2. /\ SessionsTyped' /\ Len(wire') = Len(wire) /\ wire'[t] = Tail(wire[t])
        /\ produced' = produced
    BY <1>1, <2>1, ConsumeTyped
  <2>3. /\ s' \in Objects /\ s'.readyState = "open" /\ s'.ir = s.ir /\ s'.protocols = s.protocols
        /\ s'.transport = s.transport /\ s'.transportTref = NoTransport
    <3>1. s \in Objects /\ NoTransport \in Nat
      BY <1>1 DEF Typed, ObjectTyped, NoTransport
    <3> QED
      BY <2>1, <3>1 DEF Objects
  <2>4. Typed'
    <3>1. ObjectTyped'
      BY <1>1, <2>2, <2>3 DEF Typed, ObjectTyped, NoTransport
    <3>2. PageTyped' /\ BrowserTyped'
      BY <1>1, <2>1, <2>2 DEF Typed, PageTyped, BrowserTyped
    <3> QED
      BY <2>2, <3>1, <3>2 DEF Typed
  <2>5. Tried'
    <3>1. OneTransport' /\ TimerIsOwn(s, timers)' /\ LoadHasMore(s)' /\ NoneLeft(s)'
      BY <1>1, <1>2, <1>3, <2>1, <2>3
      DEF Tried, OneTransport, TimerIsOwn, LoadHasMore, NoneLeft
    <3>2. BeforeFirst(s)' /\ ListAgrees(s)'
      BY <1>1, <1>2, <2>1, <2>2, <2>3 DEF Tried, BeforeFirst, ListAgrees, Asking
    <3> QED
      BY <3>1, <3>2 DEF Tried
  <2>6. OpensFirst(wire[t], produced[t]) /\ delivered = 0
    BY <1>1, <1>3 DEF Ordered, WhenConnecting
  <2>7. produced[t] # Unopened /\ Numbered(0, wire[t], produced[t])
    <3>1. \E j \in 1 .. Len(wire[t]) : wire[t][j].type = "o"
      BY <1>1, <1>2
    <3> QED
      BY <2>6, <3>1 DEF OpensFirst
  <2>8. Numbered(0, Tail(wire[t]), produced[t])
    <3>1. Gains(Head(wire[t])) = 0 /\ produced[t] \in Int
      BY <1>1, <1>2 DEF Gains, Numbers, Unopened
    <3>2. Numbered(0 + Gains(Head(wire[t])), Tail(wire[t]), produced[t])
      BY <1>1, <1>2, <2>7, <3>1, NumberedTail
    <3> QED
      BY <3>1, <3>2
  <2>9. Ordered'
    <3>1. delivered' + Len(batch') = 0 /\ batch' = <<>>
      BY <1>1, <2>1, <2>6
    <3>2. GoesOnFrom(delivered' + Len(batch'), wire'[t], produced'[t])
      BY <2>2, <2>7, <2>8, <3>1 DEF GoesOnFrom
    <3>3. ASSUME NEW u \in live'
          PROVE  GoesOnFrom(delivered' + Len(batch'), wire'[u], produced'[u])
      <4>1. u = t
        BY <1>2, <2>1
      <4> QED
        BY <3>2, <4>1, Zenon
    <3>4. WhenOpen'
      BY <3>1, <3>3 DEF WhenOpen
    <3> QED
      BY <2>3, <3>4 DEF Ordered, WhenConnecting
  <2>10. SocketStep
    BY <1>3, <2>1, <2>3 DEF SocketStep, Socket!Next, Socket!Open
  <2> QED
    BY <2>4, <2>5, <2>9, <2>10 DEF IInv
<1>4. CASE s.readyState = "open"
  <2>1. Ended(s, 1006, timers)
    <3> DEFINE code == 1006
    <3>1. DidClose(s, code, FALSE, timers)
      BY <1>4 DEF GetOpen, Ends
    <3> HIDE DEF code
    <3>2. Ended(s, code, timers)
      BY <3>1, EndedBy, Zenon
    <3> QED
      BY <3>2 DEF code
  <2>2. UNCHANGED <<complete, batch, page, detected>>
    BY <1>4 DEF GetOpen, Ends
  <2> QED
    BY <1>2, <1>4, <2>1, <2>2, EndsAgrees
<1>5. CASE s.readyState = "closed"
  BY <1>1, <1>5, IgnoreAgrees DEF GetOpen
<1> QED
  BY <1>1, <1>3, <1>4, <1>5 DEF Typed, ObjectTyped, Objects

\* An array frame: what is in it goes on where the page is.
LEMMA GetArrayAgrees ==
    ASSUME IInv, NEW t \in Transports, GetArray(t)
    PROVE  IInv' /\ SocketStep
<1> DEFINE frame == Head(wire[t])
<1>1. /\ batch = <<>> /\ t \in live /\ wire[t] # <<>> /\ frame.type = "a"
      /\ Consume(t) /\ batch' = frame.payload
      /\ UNCHANGED <<s, complete, load, live, timers, event, closing, detected>>
      /\ UNCHANGED <<sent, arrived, delivered>> /\ Typed /\ Tried /\ Ordered
  BY DEF GetArray, Idle, IInv, browser, page
<1>2. live = {t} /\ wire[t] \in Seq(Frames) /\ produced[t] \in Numbers
  BY <1>1, LiveIsHeld
<1>3. frame \in Frames /\ frame.payload \in Payloads
  BY <1>1, <1>2, FrameKinds
<1> HIDE DEF frame
<1>4. /\ SessionsTyped' /\ Len(wire') = Len(wire) /\ wire'[t] = Tail(wire[t])
      /\ produced' = produced
  BY <1>1, ConsumeTyped
<1>5. Typed' /\ Tried'
  <2>1. PageTyped' /\ closing' \in {"none", "due", "fired"}
    BY <1>1, <1>3 DEF Typed, PageTyped, BrowserTyped
  <2> QED
    BY <1>1, <1>4, <2>1, QuietAgrees
<1>6. s.readyState # "connecting"
  <2> SUFFICES ASSUME s.readyState = "connecting" PROVE FALSE
    OBVIOUS
  <2>1. OpensFirst(wire[t], produced[t])
    BY <1>1 DEF Ordered, WhenConnecting
  <2>2. 1 \in 1 .. Len(wire[t]) /\ wire[t][1].type = "a"
    BY <1>1, <1>2 DEF frame
  <2> QED
    BY <2>1, <2>2 DEF OpensFirst
<1>7. ASSUME s.readyState = "open"
      PROVE  /\ \A k \in 1 .. Len(batch') : batch'[k] = delivered + k
             /\ GoesOnFrom(delivered + Len(batch'), wire'[t], produced'[t])
  <2>1. delivered \in Int /\ produced[t] \in Int
    BY <1>1, <1>2 DEF Typed, PageTyped, Numbers, Unopened
  <2>2. GoesOnFrom(delivered, wire[t], produced[t])
    <3>1. GoesOnFrom(delivered + Len(batch), wire[t], produced[t])
      BY <1>1, <1>7 DEF Ordered, WhenOpen
    <3>2. delivered + Len(batch) = delivered
      BY <1>1, <2>1
    <3> QED
      BY <3>1, <3>2
  <2>3. Numbered(delivered + Gains(frame), Tail(wire[t]), produced[t]) /\ Follows(frame, delivered)
    BY <1>1, <1>2, <2>1, <2>2, NumberedTail DEF GoesOnFrom, frame
  <2>4. Gains(frame) = Len(batch')
    BY <1>1 DEF Gains
  <2>5. GoesOnFrom(delivered + Len(batch'), wire'[t], produced'[t])
    BY <1>4, <2>2, <2>3, <2>4 DEF GoesOnFrom
  <2> QED
    BY <1>1, <2>3, <2>5 DEF Follows
<1>8. Ordered'
  <2>1. ASSUME NEW u \in live', s.readyState = "open"
        PROVE  GoesOnFrom(delivered' + Len(batch'), wire'[u], produced'[u])
    <3>1. u = t /\ delivered' = delivered
      BY <1>1, <1>2
    <3> QED
      BY <1>7, <2>1, <3>1, Zenon
  <2>2. s' = s /\ delivered' = delivered
    BY <1>1
  <2>3. WhenOpen'
    BY <1>7, <2>1, <2>2 DEF WhenOpen
  <2> QED
    BY <1>6, <2>2, <2>3 DEF Ordered, WhenConnecting
<1>9. SocketStep
  BY <1>1 DEF SocketStep, Socket!socketVars
<1> QED
  BY <1>5, <1>8, <1>9 DEF IInv

\* A frame that closes the transport.
LEMMA GetCloseAgrees ==
    ASSUME IInv, NEW t \in Transports, GetClose(t)
    PROVE  IInv' /\ SocketStep
<1>1. t \in live /\ wire[t] # <<>> /\ Head(wire[t]).type = "c"
  BY DEF GetClose
<1>2. wire[t] \in Seq(Frames) /\ ~ load
  BY <1>1, LiveIsHeld
<1>3. CASE Stopped
  BY <1>1, <1>3, IgnoreAgrees DEF GetClose, Stopped
<1>4. CASE ~ Stopped
  <2> DEFINE code == Head(wire[t]).code
  <2>1. code \in {2010, 3000}
    BY <1>1, <1>2, FrameKinds
  <2>2. DidClose(s, code, FALSE, timers) /\ UNCHANGED <<complete, batch, page, detected>>
    BY <1>4 DEF GetClose, Ends
  <2> HIDE DEF code
  <2>3. Ended(s, code, timers)
    BY <2>2, EndedBy, Zenon
  <2> QED
    BY <1>2, <1>4, <2>1, <2>2, <2>3, EndsAgrees DEF Stopped
<1> QED
  BY <1>3, <1>4

\* A heartbeat.
LEMMA GetHeartbeatAgrees ==
    ASSUME IInv, NEW t \in Transports, GetHeartbeat(t)
    PROVE  IInv' /\ SocketStep
<1>1. t \in live /\ wire[t] # <<>> /\ Head(wire[t]).type = "h" /\ Ignore(t)
  BY DEF GetHeartbeat
<1> QED
  BY <1>1, IgnoreAgrees

\* A time-out strikes the transport that is tried, or nothing.
LEMMA TransportTimesOutAgrees ==
    ASSUME IInv, NEW t \in Transports, TransportTimesOut(t)
    PROVE  IInv' /\ SocketStep
<1>1. Typed /\ Tried /\ Ordered /\ t \in timers /\ t \in 1 .. Len(wire)
  BY DEF IInv, TransportTimesOut, Typed, BrowserTyped
<1>2. CASE s.readyState = "connecting"
  <2> DEFINE left == timers \ {t}
             code == 2007
  <2>1. DidClose(s, code, FALSE, left) /\ UNCHANGED <<complete, batch, page, detected>>
    BY <1>2 DEF TransportTimesOut
  <2>4. left \in SUBSET timers /\ code \in {2007}
    OBVIOUS
  <2> HIDE DEF left, code
  <2>2. Ended(s, code, left)
    BY <2>1, EndedBy, Zenon
  <2>3. ~ load
    BY <1>1, <1>2 DEF Tried, TimerIsOwn, LoadHasMore, NoTransport
  <2> QED
    BY <1>2, <2>1, <2>2, <2>3, <2>4, EndsAgrees
<1>3. CASE s.readyState # "connecting"
  <2>1. /\ timers' = timers \ {t}
        /\ UNCHANGED <<s, complete, load, live, event, closing, batch, wire, produced, detected>>
        /\ UNCHANGED <<sent, arrived, delivered>>
    BY <1>3 DEF TransportTimesOut, browser, server, page
  <2>2. SessionsTyped' /\ PageTyped' /\ Len(wire') = Len(wire)
    BY <1>1, <2>1 DEF Typed, SessionsTyped, PageTyped
  <2>3. Typed' /\ Tried'
    BY <1>1, <2>1, <2>2, QuietAgrees DEF Typed, BrowserTyped
  <2>4. Ordered'
    BY <1>1, <2>1 DEF Ordered, WhenConnecting, WhenOpen
  <2>5. SocketStep
    BY <2>1 DEF SocketStep, Socket!socketVars
  <2> QED
    BY <2>3, <2>4, <2>5 DEF IInv
<1> QED
  BY <1>2, <1>3

\* A transport breaks, or the page closes the socket.
LEMMA BreaksAgree ==
    ASSUME IInv, Close \/ \E t \in Transports : TransportBreaks(t)
    PROVE  IInv' /\ SocketStep
<1>1. CASE Close
  <2>1. /\ s.readyState # "closed" /\ DidClose(s, 1000, FALSE, timers)
        /\ UNCHANGED <<complete, batch, page, detected>>
    BY <1>1 DEF Close, Stopped
  <2>2. Ended(s, 1000, timers)
    <3> DEFINE code == 1000
    <3>1. DidClose(s, code, FALSE, timers)
      BY <2>1
    <3> HIDE DEF code
    <3>2. Ended(s, code, timers)
      BY <3>1, EndedBy, Zenon
    <3> QED
      BY <3>2 DEF code
  <2> QED
    BY <2>1, <2>2, EndsAgrees
<1>2. ASSUME NEW t \in Transports, TransportBreaks(t) PROVE IInv' /\ SocketStep
  <2>1. /\ t \in live /\ s.readyState # "closed" /\ DidClose(s, 1006, FALSE, timers)
        /\ UNCHANGED <<complete, batch, page, detected>>
    BY <1>2 DEF TransportBreaks, Ends, Stopped
  <2>2. Ended(s, 1006, timers)
    <3> DEFINE code == 1006
    <3>1. DidClose(s, code, FALSE, timers)
      BY <2>1
    <3> HIDE DEF code
    <3>2. Ended(s, code, timers)
      BY <3>1, EndedBy, Zenon
    <3> QED
      BY <3>2 DEF code
  <2>3. ~ load
    BY <2>1, LiveIsHeld
  <2> QED
    BY <2>1, <2>2, <2>3, EndsAgrees
<1> QED
  BY <1>1, <1>2

\* The next message of an array: the page gets it unless the socket was closed
\* meanwhile.
LEMMA DispatchAgrees == ASSUME IInv, DispatchMessage PROVE IInv' /\ SocketStep
<1>1. /\ Typed /\ Tried /\ Ordered /\ batch # <<>> /\ batch' = Tail(batch)
      /\ delivered' = IF Dispatches THEN Head(batch) ELSE delivered
      /\ UNCHANGED <<s, complete, load, live, timers, event, closing, wire, produced, detected>>
      /\ UNCHANGED <<sent, arrived>>
  BY DEF IInv, DispatchMessage, browser, server
<1>2. /\ batch \in Seq(1 .. MaxPayloads) /\ delivered \in 0 .. MaxPayloads /\ MaxPayloads \in Nat
  BY <1>1, BoundsAssumption DEF Typed, PageTyped, Payloads
<1>3. /\ Head(batch) \in 1 .. MaxPayloads /\ Head(batch) = batch[1] /\ 1 \in 1 .. Len(batch)
      /\ Tail(batch) \in Seq(1 .. MaxPayloads) /\ Len(batch) = Len(Tail(batch)) + 1
      /\ Len(Tail(batch)) \in Nat
      /\ \A k \in 1 .. Len(Tail(batch)) : Tail(batch)[k] = batch[k + 1] /\ k + 1 \in 1 .. Len(batch)
  BY <1>1, <1>2
<1>4. Typed' /\ Tried'
  <2>1. PageTyped'
    BY <1>1, <1>2, <1>3 DEF Typed, PageTyped, Payloads
  <2>2. SessionsTyped' /\ Len(wire') = Len(wire) /\ closing' \in {"none", "due", "fired"}
    BY <1>1 DEF Typed, SessionsTyped, BrowserTyped
  <2> QED
    BY <1>1, <2>1, <2>2, QuietAgrees
<1>5. s.readyState # "connecting"
  BY <1>1 DEF Ordered, WhenConnecting
<1>6. CASE s.readyState = "open"
  <2>1. /\ \A k \in 1 .. Len(batch) : batch[k] = delivered + k
        /\ \A t \in live : GoesOnFrom(delivered + Len(batch), wire[t], produced[t])
    BY <1>1, <1>6 DEF Ordered, WhenOpen
  <2>2. delivered' = delivered + 1
    BY <1>1, <1>3, <1>6, <2>1 DEF Dispatches
  <2>3. delivered' + Len(batch') = delivered + Len(batch)
    BY <1>1, <1>2, <1>3, <2>2
  <2>4. \A k \in 1 .. Len(batch') : batch'[k] = delivered' + k
    <3> SUFFICES ASSUME NEW k \in 1 .. Len(Tail(batch))
                 PROVE  Tail(batch)[k] = (delivered + 1) + k
      BY <1>1, <2>2
    <3>1. Tail(batch)[k] = batch[k + 1] /\ k + 1 \in 1 .. Len(batch)
      BY <1>3
    <3>2. batch[k + 1] = delivered + (k + 1)
      BY <2>1, <3>1
    <3> QED
      BY <1>2, <3>1, <3>2
  <2>5. \A t \in live' : GoesOnFrom(delivered' + Len(batch'), wire'[t], produced'[t])
    BY <1>1, <2>1, <2>3
  <2>6. Ordered'
    BY <1>1, <1>5, <2>4, <2>5 DEF Ordered, WhenConnecting, WhenOpen
  <2>7. SocketStep
    BY <1>1, <1>6, <2>2 DEF SocketStep, Socket!Next, Socket!Deliver
  <2> QED
    BY <1>4, <2>6, <2>7 DEF IInv
<1>7. CASE s.readyState = "closed"
  <2>1. delivered' = delivered
    BY <1>1, <1>7 DEF Dispatches
  <2>2. Ordered'
    BY <1>1, <1>7 DEF Ordered, WhenConnecting, WhenOpen
  <2>3. SocketStep
    BY <1>1, <2>1 DEF SocketStep, Socket!socketVars
  <2> QED
    BY <1>4, <2>2, <2>3 DEF IInv
<1> QED
  BY <1>1, <1>5, <1>6, <1>7 DEF Typed, ObjectTyped, Objects

\* The page's own messages, and the close event.
LEMMA PageAgrees ==
    ASSUME IInv, Send \/ ServerGets \/ CloseEvent
    PROVE  IInv' /\ SocketStep
<1>1. Typed /\ Tried /\ Ordered /\ MaxSends \in Nat
  BY BoundsAssumption DEF IInv
<1>2. /\ UNCHANGED <<s, complete, load, live, timers, event, batch, wire, produced, detected>>
      /\ delivered' = delivered
  BY DEF Send, ServerGets, CloseEvent, browser, server, page
<1>3. PageTyped' /\ closing' \in {"none", "due", "fired"}
  BY <1>1, <1>2 DEF Send, ServerGets, CloseEvent, page, Typed, PageTyped, BrowserTyped
<1>4. SessionsTyped' /\ Len(wire') = Len(wire)
  BY <1>1, <1>2 DEF Typed, SessionsTyped
<1>5. Typed' /\ Tried'
  BY <1>1, <1>2, <1>3, <1>4, QuietAgrees
<1>6. s.readyState = "connecting" => closing' = "none"
  BY <1>1 DEF Send, ServerGets, CloseEvent, Ordered, WhenConnecting
<1>7. Ordered'
  BY <1>1, <1>2, <1>6 DEF Ordered, WhenConnecting, WhenOpen
<1>8. SocketStep
  BY <1>2 DEF Send, ServerGets, CloseEvent, page, SocketStep, Socket!Next, Socket!Send,
              Socket!Arrive, Socket!Fire
<1> QED
  BY <1>5, <1>7, <1>8 DEF IInv

\* Every step keeps the invariant, and is a step that SocketService allows.
LEMMA NextAgrees ==
    ASSUME IInv, [Next]_vars
    PROVE  IInv' /\ SocketStep
<1>1. CASE UNCHANGED vars
  <2>1. /\ UNCHANGED <<s, complete, load, live, timers, event, closing, batch>>
        /\ UNCHANGED <<wire, produced, delivered, sent, arrived, detected>>
    BY <1>1 DEF vars
  <2>2. Typed'
    BY <2>1 DEF IInv, Typed, ObjectTyped, SessionsTyped, PageTyped, BrowserTyped
  <2>3. Tried'
    BY <2>1 DEF IInv, Tried, OneTransport, TimerIsOwn, BeforeFirst, Asking, LoadHasMore,
                ListAgrees, NoneLeft
  <2>4. Ordered'
    BY <2>1 DEF IInv, Ordered, WhenConnecting, WhenOpen
  <2>5. SocketStep
    BY <2>1 DEF SocketStep, Socket!socketVars
  <2> QED
    BY <2>2, <2>3, <2>4, <2>5 DEF IInv
<1>2. ASSUME NEW t \in Transports, Get(t) PROVE IInv' /\ SocketStep
  BY <1>2, GetOpenAgrees, GetArrayAgrees, GetHeartbeatAgrees, GetCloseAgrees DEF Get
<1> QED
  BY <1>1, <1>2, InfoAgrees, LoadsAgrees, PageAgrees, DispatchAgrees, BreaksAgree,
     TransportTimesOutAgrees, ServerAgrees DEF Next

-----------------------------------------------------------------------------
\* Every variable of the socket has its type.
THEOREM TypeCorrect == Spec => []TypeOK
<1>1. IInv => TypeOK
  <2> SUFFICES ASSUME IInv PROVE TypeOK
    OBVIOUS
  <2>1. Typed /\ Tried
    BY DEF IInv
  <2>2. /\ Transports = 1 .. Len(wire) /\ DOMAIN produced = Transports /\ Len(wire) \in Nat
    BY <2>1 DEF Typed, SessionsTyped, Transports
  <2>3. Cardinality(Transports) <= Len(detected)
    <3>1. Cardinality(Transports) = Len(wire)
      <4>1. PICK n \in Nat : n = Len(wire)
        BY <2>2
      <4>2. Cardinality(1 .. n) = n
        BY FS_Interval
      <4> QED
        BY <2>2, <4>1, <4>2
    <3>2. Len(s.protocols) \in Nat /\ Len(wire) + Len(s.protocols) = Len(detected)
      BY <2>1 DEF Typed, ObjectTyped, Objects, Tried, ListAgrees
    <3> QED
      BY <2>2, <3>1, <3>2
  <2>4. live \subseteq Transports
    BY <2>1, <2>2 DEF Typed, ObjectTyped, Tried, OneTransport, NoTransport
  <2> QED
    BY <2>1, <2>2, <2>3, <2>4
    DEF TypeOK, Typed, ObjectTyped, PageTyped, BrowserTyped, Objects, NoTransport
<1> QED
  BY <1>1, InitAgrees, NextAgrees, PTL DEF Spec

\* Transports are tried one at a time, each with a time-out of its own, until one
\* opens or none is left: _try_next_protocol and _didClose clean up whatever the
\* browser, the server and the page do in between.
THEOREM OneAlwaysAtATime == Spec => []OneAtATime
<1>1. IInv => OneAtATime
  <2> SUFFICES ASSUME IInv PROVE OneAtATime
    OBVIOUS
  <2>1. Typed /\ Tried
    BY DEF IInv
  <2>2. OneTransport
    BY <2>1 DEF Tried
  <2>3. TimeoutIsOwn
    BY <2>1 DEF Typed, BrowserTyped, Tried, TimerIsOwn, TimeoutIsOwn, NoTransport
  <2>4. AllTried
    <3> SUFFICES ASSUME event = 2000 PROVE Len(wire) = Len(detected)
      BY DEF AllTried
    <3>1. s.protocols = <<>> /\ Len(wire) + Len(s.protocols) = Len(detected) /\ Len(wire) \in Nat
      BY <2>1 DEF Tried, NoneLeft, ListAgrees, Typed, SessionsTyped
    <3> QED
      BY <3>1
  <2> QED
    BY <2>2, <2>3, <2>4 DEF OneAtATime
<1> QED
  BY <1>1, InitAgrees, NextAgrees, PTL DEF Spec

\* The page sees what SocketService promises: one open at most, the messages of
\* one session in order and none after the end, one close event.
THEOREM SocketImplementsService == Spec => ImplementsSocket
<1>1. Init => Socket!Init
  BY DEF Init, Created, Socket!Init
<1>2. IInv /\ [Next]_vars => [Socket!Next]_(Socket!socketVars)
  BY NextAgrees DEF SocketStep
<1> QED
  BY <1>1, <1>2, InitAgrees, NextAgrees, PTL DEF Spec, ImplementsSocket, Socket!Spec
=============================================================================
