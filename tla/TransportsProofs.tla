-------------------------- MODULE TransportsProofs --------------------------
(***************************************************************************)
(* Whichever transport is used and wherever it runs, the socket is given   *)
(* the frames of the session in their order and nothing after doCleanup,   *)
(* and the messages of the page come to the server in their order and      *)
(* once: theorems about module Transports, for any number of frames,       *)
(* messages and responses.                                                 *)
(***************************************************************************)
EXTENDS Transports, FiniteSetTheorems, SequenceTheorems, TLAPS

-----------------------------------------------------------------------------
(***************************************************************************)
(* The inductive invariant.                                                *)
(***************************************************************************)
Phases == {"none", "delayed", "open", "closing", "finishing", "zombie"}
Requests == [phase : Phases, text : Seq(Int), end : {"no", "ok", "broken"}, started : BOOLEAN]
Sendings == [payload : Seq(Int), there : BOOLEAN]

SocketTyped == kind \in Kinds /\ cleaned \in BOOLEAN /\ given \in Seq(Int)
WindowsTyped == /\ iframe \in {"none", "loading", "loaded", "ready", "removing", "removed"}
                /\ facade \in BOOLEAN /\ up \in Seq(Int) /\ down \in Seq(Int)
ReceiverTyped == recv \in Requests /\ lines \in Seq(Int)
SessionTyped == session \in [next : Nat, lost : BOOLEAN, ends : Nat]
SenderTyped == /\ buffer \in Seq(Int) /\ stop \in {"null", "request", "wait"}
               /\ posts \in SUBSET Sendings
               /\ sent \in 0 .. MaxSends /\ arrived \in SUBSET Int

Typed == SocketTyped /\ WindowsTyped /\ ReceiverTyped /\ SessionTyped /\ SenderTyped

\* What a handler finds where it runs, and after doCleanup.
Places ==
    /\ iframe = "none" <=> ~ kind.framed
    /\ ~ kind.framed => facade /\ up = <<>> /\ down = <<>>
    /\ iframe \in {"removing", "removed"} => cleaned
    /\ ~ kind.framed /\ cleaned => lines = <<>> /\ recv.phase \in {"none", "delayed", "zombie"}

\* Until the facade was made nothing has happened but the greeting.
Greeting ==
    /\ facade => iframe \notin {"loading", "loaded"}
    /\ ~ facade => /\ given = <<>> /\ recv = NoRequest /\ lines = <<>>
                   /\ session.next = 1
                   /\ buffer = <<>> /\ stop = "null" /\ sent = 0 /\ arrived = {}
                   /\ up \in {<<>>, <<Hello>>} /\ down \in {<<>>, <<Hello>>}
                   /\ up = <<>> \/ down = <<>>
                   /\ iframe \in {"loading", "loaded"} => up = <<>> /\ down = <<>>

\* What is dropped with a request is no part of the session any more.
Dropping ==
    /\ recv.end = "broken" => session.lost
    /\ recv.phase = "closing" => recv.text = <<>> \/ session.lost
    /\ kind.receiver = "jsonp" => Len(recv.text) <= 1

\* Frames under way, of which n have gone before: they are next in their order,
\* unless the session was closed before them.
Closed(frames) == \E i \in DOMAIN frames : frames[i] = CloseFrame
InStep(frames, n, next) == \A i \in DOMAIN frames :
    \/ \E j \in 1 .. i : frames[j] = CloseFrame
    \/ frames[i] = n + i /\ frames[i] < next

\* Those in the text of a response: nothing that the session wrote is missing.
NotRead(text, n, next, lost) ==
    InStep(text, n, next) /\ (Closed(text) \/ lost \/ next = n + Len(text) + 1)

\* Those being dispatched come before.
InHand(hand, text, n, next, lost) ==
    InStep(hand, n, next) /\ (Closed(hand) \/ NotRead(text, n + Len(hand), next, lost))

\* And those on their way from an iframe to the page before these.
UnderWay(coming, hand, text, n, next, lost) ==
    InStep(coming, n, next) /\ (Closed(coming) \/ InHand(hand, text, n + Len(coming), next, lost))

\* The argument of a JSONP script is dispatched, but it is there until the script is done.
Unseen == IF recv.phase = "finishing" THEN <<>> ELSE recv.text

InOrder == FramesInOrder /\ Len(given) < session.next /\ session.next <= MaxFrames + 1
Coming == facade /\ ~ cleaned =>
            UnderWay(up, lines, Unseen, Len(given), session.next, session.lost)
Framing == InOrder /\ Coming

\* Messages, the last of them with this number.
Numbered(messages, last) ==
    \A i \in DOMAIN messages : messages[i] = last - Len(messages) + i

\* Those that the sender has got end with the last one; it put off the last of them,
\* the rest were in requests, of which there is one at a time, or have arrived.
Handed(last) ==
    /\ Len(buffer) <= last /\ Numbered(buffer, last)
    /\ arrived \subseteq 1 .. last - Len(buffer)
    /\ \A p \in posts : /\ p.payload # <<>> /\ Len(p.payload) <= last - Len(buffer)
                        /\ Numbered(p.payload, last - Len(buffer))
                        /\ ~ p.there => arrived \subseteq 1 .. last - Len(buffer) - Len(p.payload)
OneRequest == (stop # "request" => posts = {}) /\ \A p, q \in posts : p = q
Sending == OneRequest /\ (facade => Numbered(down, sent) /\ Handed(sent - Len(down)))

\* Number of the last message that the sender did not put off.
Taken == sent - Len(down) - Len(buffer)

\* Where the messages that have arrived end.
Reached(k) ==
    /\ arrived = 1 .. k
    /\ \/ cleaned /\ stop = "null"
       \/ posts = {} /\ k = Taken
       \/ \E p \in posts : k = IF p.there THEN Taken ELSE Taken - Len(p.payload)
Arriving == kind.receiver # "jsonp" /\ ~ kind.framed => \E k \in Nat : Reached(k)

Inv == Typed /\ Places /\ Greeting /\ Dropping /\ Framing /\ Sending /\ Arriving

-----------------------------------------------------------------------------
(***************************************************************************)
(* Frames in step.                                                         *)
(***************************************************************************)

\* More of them, as long as the new one is next or nothing after a close counts.
LEMMA InStepAppend ==
  ASSUME NEW frames \in Seq(Int), NEW n \in Nat, NEW next \in Nat, NEW frame \in Int,
         InStep(frames, n, next),
         \/ Closed(frames) \/ frame = CloseFrame
         \/ frame = n + Len(frames) + 1 /\ frame < next
  PROVE  /\ InStep(Append(frames, frame), n, next)
         /\ Closed(Append(frames, frame)) <=> Closed(frames) \/ frame = CloseFrame
<1> DEFINE more == Append(frames, frame)
<1>1. /\ DOMAIN frames = 1 .. Len(frames) /\ Len(frames) \in Nat
      /\ DOMAIN more = 1 .. Len(frames) + 1
      /\ \A i \in 1 .. Len(frames) : more[i] = frames[i]
      /\ more[Len(frames) + 1] = frame
  OBVIOUS
<1> HIDE DEF more
<1>2. Closed(more) <=> Closed(frames) \/ frame = CloseFrame
  BY <1>1 DEF Closed
<1>3. ASSUME NEW i \in 1 .. Len(frames)
      PROVE  \/ \E j \in 1 .. i : more[j] = CloseFrame
             \/ more[i] = n + i /\ more[i] < next
  <2>1. \A j \in 1 .. i : more[j] = frames[j]
    BY <1>1
  <2> QED
    BY <1>1, <2>1 DEF InStep
<1>4. \/ \E j \in 1 .. Len(frames) + 1 : more[j] = CloseFrame
      \/ more[Len(frames) + 1] = n + (Len(frames) + 1) /\ more[Len(frames) + 1] < next
  <2>1. CASE Closed(frames)
    BY <1>1, <2>1 DEF Closed
  <2>2. CASE frame = CloseFrame
    BY <1>1, <2>2
  <2>3. CASE frame = n + Len(frames) + 1 /\ frame < next
    BY <1>1, <2>3
  <2> QED
    BY <2>1, <2>2, <2>3
<1>5. InStep(more, n, next)
  <2> SUFFICES ASSUME NEW i \in 1 .. Len(frames) + 1
               PROVE  \/ \E j \in 1 .. i : more[j] = CloseFrame
                      \/ more[i] = n + i /\ more[i] < next
    BY <1>1 DEF InStep
  <2>1. CASE i \in 1 .. Len(frames)
    BY <1>3, <2>1
  <2>2. CASE i = Len(frames) + 1
    BY <1>4, <2>2
  <2> QED
    BY <1>1, <2>1, <2>2
<1> QED
  BY <1>2, <1>5 DEF more

\* One less: the first was the next one or a close.
LEMMA InStepTail ==
  ASSUME NEW frames \in Seq(Int), NEW n \in Nat, NEW next \in Nat,
         InStep(frames, n, next), frames # <<>>
  PROVE  /\ Head(frames) = CloseFrame \/ (Head(frames) = n + 1 /\ n + 1 < next)
         /\ Head(frames) # CloseFrame =>
              /\ InStep(Tail(frames), n + 1, next)
              /\ Closed(Tail(frames)) <=> Closed(frames)
<1> DEFINE rest == Tail(frames)
<1>1. /\ DOMAIN frames = 1 .. Len(frames) /\ Len(frames) \in Nat /\ Len(frames) >= 1
      /\ Head(frames) = frames[1]
      /\ DOMAIN rest = 1 .. Len(frames) - 1
      /\ \A i \in 1 .. Len(frames) - 1 : rest[i] = frames[i + 1]
  OBVIOUS
<1> HIDE DEF rest
<1>2. frames[1] = CloseFrame \/ (frames[1] = n + 1 /\ n + 1 < next)
  BY <1>1 DEF InStep
<1>3. ASSUME frames[1] # CloseFrame
      PROVE  InStep(rest, n + 1, next)
  <2> SUFFICES ASSUME NEW i \in 1 .. Len(frames) - 1
               PROVE  \/ \E j \in 1 .. i : rest[j] = CloseFrame
                      \/ rest[i] = n + 1 + i /\ rest[i] < next
    BY <1>1 DEF InStep
  <2>1. /\ i + 1 \in 1 .. Len(frames) /\ rest[i] = frames[i + 1]
    BY <1>1
  <2>2. CASE \E j \in 1 .. i + 1 : frames[j] = CloseFrame
    <3>1. PICK j \in 1 .. i + 1 : frames[j] = CloseFrame
      BY <2>2
    <3>2. j - 1 \in 1 .. i /\ rest[j - 1] = frames[(j - 1) + 1] /\ (j - 1) + 1 = j
      BY <1>1, <1>3, <3>1
    <3> QED
      BY <3>1, <3>2
  <2>3. CASE frames[i + 1] = n + (i + 1) /\ frames[i + 1] < next
    BY <2>1, <2>3
  <2> QED
    BY <1>1, <2>1, <2>2, <2>3 DEF InStep
<1>4. ASSUME frames[1] # CloseFrame
      PROVE  Closed(rest) <=> Closed(frames)
  <2>1. ASSUME NEW i \in 1 .. Len(frames) - 1, rest[i] = CloseFrame
        PROVE  Closed(frames)
    <3>1. i + 1 \in 1 .. Len(frames) /\ frames[i + 1] = CloseFrame
      BY <1>1, <2>1
    <3> QED
      BY <1>1, <3>1 DEF Closed
  <2>2. ASSUME NEW i \in 1 .. Len(frames), frames[i] = CloseFrame
        PROVE  Closed(rest)
    <3>1. i - 1 \in 1 .. Len(frames) - 1 /\ rest[i - 1] = frames[(i - 1) + 1] /\ (i - 1) + 1 = i
      BY <1>1, <1>4, <2>2
    <3> QED
      BY <1>1, <2>2, <3>1 DEF Closed
  <2> QED
    BY <1>1, <2>1, <2>2 DEF Closed
<1> QED
  BY <1>1, <1>2, <1>3, <1>4 DEF rest

\* None.
LEMMA InStepNone ==
  ~ Closed(<<>>) /\ \A n, next : InStep(<<>>, n, next)
<1>1. DOMAIN <<>> = {}
  OBVIOUS
<1> QED
  BY <1>1 DEF InStep, Closed

\* One that is alone.
LEMMA InStepOne ==
  ASSUME NEW n \in Nat, NEW next \in Nat, NEW frame \in Int
  PROVE  /\ Closed(<<frame>>) <=> frame = CloseFrame
         /\ InStep(<<frame>>, n, next) <=> frame = CloseFrame \/ (frame = n + 1 /\ frame < next)
<1>1. DOMAIN <<frame>> = {1} /\ <<frame>>[1] = frame /\ 1 .. 1 = {1}
  OBVIOUS
<1> QED
  BY <1>1 DEF InStep, Closed

\* The session goes on writing.
LEMMA InStepMore ==
  ASSUME NEW frames \in Seq(Int), NEW n \in Nat, NEW next \in Nat, InStep(frames, n, next)
  PROVE  InStep(frames, n, next + 1)
<1>1. \A i \in DOMAIN frames : frames[i] \in Int
  OBVIOUS
<1> QED
  BY <1>1 DEF InStep

-----------------------------------------------------------------------------
(***************************************************************************)
(* Frames under way.                                                       *)
(***************************************************************************)

\* What is read goes into the hands of the receiver, all at once
LEMMA ReadAll ==
  ASSUME NEW text \in Seq(Int), NEW n \in Nat, NEW next \in Nat, NEW lost \in BOOLEAN,
         InHand(<<>>, text, n, next, lost)
  PROVE  InHand(text, <<>>, n, next, lost)
<1>1. /\ Len(text) \in Nat /\ Len(<<>>) = 0 /\ n + 0 = n
      /\ n + Len(text) + 0 + 1 = n + Len(text) + 1
  OBVIOUS
<1>2. NotRead(text, n, next, lost)
  BY <1>1, InStepNone DEF InHand
<1>3. Closed(text) \/ NotRead(<<>>, n + Len(text), next, lost)
  BY <1>1, <1>2, InStepNone DEF NotRead
<1> QED
  BY <1>2, <1>3 DEF InHand, NotRead

\* or one after the other.
LEMMA ReadOne ==
  ASSUME NEW text \in Seq(Int), NEW n \in Nat, NEW next \in Nat, NEW lost \in BOOLEAN,
         InHand(<<>>, text, n, next, lost), text # <<>>
  PROVE  InHand(<<Head(text)>>, Tail(text), n, next, lost)
<1>1. /\ Len(text) \in Nat /\ Len(<<>>) = 0 /\ n + 0 = n
      /\ Len(<<Head(text)>>) = 1 /\ Len(Tail(text)) = Len(text) - 1 /\ Head(text) \in Int
      /\ (n + 1) + Len(Tail(text)) + 1 = n + Len(text) + 1
  OBVIOUS
<1>2. NotRead(text, n, next, lost)
  BY <1>1, InStepNone DEF InHand
<1>3. /\ Head(text) = CloseFrame \/ (Head(text) = n + 1 /\ n + 1 < next)
      /\ Head(text) # CloseFrame =>
            InStep(Tail(text), n + 1, next) /\ (Closed(Tail(text)) <=> Closed(text))
  BY <1>2, InStepTail DEF NotRead
<1>4. InStep(<<Head(text)>>, n, next) /\ (Closed(<<Head(text)>>) <=> Head(text) = CloseFrame)
  BY <1>1, <1>3, InStepOne
<1>5. Head(text) # CloseFrame => NotRead(Tail(text), n + 1, next, lost)
  BY <1>1, <1>2, <1>3 DEF NotRead
<1> QED
  BY <1>1, <1>4, <1>5 DEF InHand

\* The first one leaves them.
LEMMA HandedOver ==
  ASSUME NEW hand \in Seq(Int), NEW text \in Seq(Int), NEW n \in Nat, NEW next \in Nat,
         NEW lost \in BOOLEAN, InHand(hand, text, n, next, lost), hand # <<>>
  PROVE  /\ Head(hand) = CloseFrame \/ (Head(hand) = n + 1 /\ n + 1 < next)
         /\ Head(hand) # CloseFrame => InHand(Tail(hand), text, n + 1, next, lost)
<1>1. Len(hand) \in Nat /\ Len(Tail(hand)) = Len(hand) - 1
  OBVIOUS
<1>2. n + Len(hand) = (n + 1) + Len(Tail(hand))
  BY <1>1
<1>3. InStep(hand, n, next)
  BY DEF InHand
<1>4. /\ Head(hand) = CloseFrame \/ (Head(hand) = n + 1 /\ n + 1 < next)
      /\ Head(hand) # CloseFrame =>
            InStep(Tail(hand), n + 1, next) /\ (Closed(Tail(hand)) <=> Closed(hand))
  BY <1>3, InStepTail
<1> QED
  BY <1>2, <1>4 DEF InHand

\* An iframe tells the page of it.
LEMMA Told ==
  ASSUME NEW coming \in Seq(Int), NEW hand \in Seq(Int), NEW text \in Seq(Int),
         NEW n \in Nat, NEW next \in Nat, NEW lost \in BOOLEAN,
         UnderWay(coming, hand, text, n, next, lost), hand # <<>>
  PROVE  UnderWay(Append(coming, Head(hand)), Tail(hand), text, n, next, lost)
<1> DEFINE more == Append(coming, Head(hand))
           m == n + Len(coming)
<1>1. /\ Len(coming) \in Nat /\ Head(hand) \in Int /\ Len(more) = Len(coming) + 1
      /\ m \in Nat /\ n + Len(more) = m + 1
  OBVIOUS
<1>2. InStep(coming, n, next)
  BY DEF UnderWay
<1> HIDE DEF m
<1>3. CASE Closed(coming)
  <2>1. InStep(more, n, next) /\ Closed(more)
    BY <1>1, <1>2, <1>3, InStepAppend
  <2> QED
    BY <2>1 DEF UnderWay
<1>4. CASE ~ Closed(coming)
  <2>1. InHand(hand, text, m, next, lost)
    BY <1>4 DEF UnderWay, m
  <2>2. /\ Head(hand) = CloseFrame \/ (Head(hand) = m + 1 /\ m + 1 < next)
        /\ Head(hand) # CloseFrame => InHand(Tail(hand), text, m + 1, next, lost)
    BY <1>1, <2>1, HandedOver
  <2>3. InStep(more, n, next) /\ (Closed(more) <=> Head(hand) = CloseFrame)
    <3>1. Head(hand) = CloseFrame \/ (Head(hand) = n + Len(coming) + 1 /\ Head(hand) < next)
      BY <2>2 DEF m
    <3> QED
      BY <1>1, <1>2, <1>4, <3>1, InStepAppend
  <2>4. CASE Head(hand) = CloseFrame
    BY <2>3, <2>4 DEF UnderWay
  <2>5. CASE Head(hand) # CloseFrame
    <3>1. InHand(Tail(hand), text, n + Len(more), next, lost)
      BY <1>1, <2>2, <2>5
    <3> QED
      BY <2>3, <3>1 DEF UnderWay
  <2> QED
    BY <2>4, <2>5
<1> QED
  BY <1>3, <1>4

\* The page gives one to the socket, which has got n.
LEMMA GivenOne ==
  ASSUME NEW coming \in Seq(Int), NEW hand \in Seq(Int), NEW text \in Seq(Int),
         NEW n \in Nat, NEW next \in Nat, NEW lost \in BOOLEAN,
         UnderWay(coming, hand, text, n, next, lost), coming # <<>>
  PROVE  /\ Head(coming) = CloseFrame \/ (Head(coming) = n + 1 /\ n + 1 < next)
         /\ Head(coming) # CloseFrame => UnderWay(Tail(coming), hand, text, n + 1, next, lost)
<1>1. Len(coming) \in Nat /\ Len(Tail(coming)) = Len(coming) - 1
  OBVIOUS
<1>2. n + Len(coming) = (n + 1) + Len(Tail(coming))
  BY <1>1
<1>3. InStep(coming, n, next)
  BY DEF UnderWay
<1>4. /\ Head(coming) = CloseFrame \/ (Head(coming) = n + 1 /\ n + 1 < next)
      /\ Head(coming) # CloseFrame =>
            InStep(Tail(coming), n + 1, next) /\ (Closed(Tail(coming)) <=> Closed(coming))
  BY <1>3, InStepTail
<1> QED
  BY <1>2, <1>4 DEF UnderWay

\* Nothing counts any more once an iframe has told of a close.
LEMMA ToldClosed ==
  ASSUME NEW coming \in Seq(Int), NEW hand, NEW text, NEW n \in Nat, NEW next \in Nat,
         NEW lost \in BOOLEAN, InStep(coming, n, next)
  PROVE  \A hand2, text2 : UnderWay(Append(coming, CloseFrame), hand2, text2, n, next, lost)
<1>1. InStep(Append(coming, CloseFrame), n, next) /\ Closed(Append(coming, CloseFrame))
  BY InStepAppend DEF CloseFrame
<1> QED
  BY <1>1 DEF UnderWay

\* The session writes the next one, or a close.
LEMMA Written ==
  ASSUME NEW text \in Seq(Int), NEW n \in Nat, NEW next \in Nat, NEW lost \in BOOLEAN,
         NotRead(text, n, next, lost)
  PROVE  /\ ~ lost => NotRead(Append(text, next), n, next + 1, lost)
         /\ NotRead(Append(text, CloseFrame), n, next, TRUE)
<1>1. CloseFrame \in Int /\ next \in Int /\ InStep(text, n, next) /\ InStep(text, n, next + 1)
  BY InStepMore DEF NotRead, CloseFrame
<1>2. NotRead(Append(text, CloseFrame), n, next, TRUE)
  BY <1>1, InStepAppend DEF NotRead
<1>3. ASSUME ~ lost
      PROVE  NotRead(Append(text, next), n, next + 1, lost)
  <2>1. /\ Len(text) \in Nat /\ Len(Append(text, next)) = Len(text) + 1
    OBVIOUS
  <2>2. Closed(text) \/ next = n + Len(text) + 1
    BY <1>3 DEF NotRead
  <2>3. next + 1 \in Nat /\ (Closed(text) \/ next = CloseFrame
                              \/ (next = n + Len(text) + 1 /\ next < next + 1))
    BY <2>2
  <2>4. /\ InStep(Append(text, next), n, next + 1)
        /\ Closed(text) => Closed(Append(text, next))
    BY <1>1, <2>3, InStepAppend
  <2>5. CASE Closed(text)
    BY <2>4, <2>5 DEF NotRead
  <2>6. CASE next = n + Len(text) + 1
    <3>1. next + 1 = n + Len(Append(text, next)) + 1
      BY <2>1, <2>6
    <3> QED
      BY <2>4, <3>1 DEF NotRead
  <2> QED
    BY <2>2, <2>5, <2>6
<1> QED
  BY <1>2, <1>3

\* More of the session on the whole way,
LEMMA WayWritten ==
  ASSUME NEW coming \in Seq(Int), NEW hand \in Seq(Int), NEW text \in Seq(Int),
         NEW n \in Nat, NEW next \in Nat, NEW lost \in BOOLEAN,
         UnderWay(coming, hand, text, n, next, lost)
  PROVE  /\ ~ lost => UnderWay(coming, hand, Append(text, next), n, next + 1, lost)
         /\ UnderWay(coming, hand, Append(text, CloseFrame), n, next, TRUE)
<1> DEFINE m == n + Len(coming)
           k == m + Len(hand)
<1>1. m \in Nat /\ k \in Nat
  OBVIOUS
<1>2. InStep(coming, n, next) /\ InStep(coming, n, next + 1)
  BY InStepMore DEF UnderWay
<1>3. CASE Closed(coming)
  BY <1>2, <1>3 DEF UnderWay
<1>4. CASE ~ Closed(coming)
  <2>1. InHand(hand, text, m, next, lost)
    BY <1>4 DEF UnderWay
  <2> HIDE DEF m
  <2>2. InStep(hand, m, next) /\ InStep(hand, m, next + 1)
    BY <1>1, <2>1, InStepMore DEF InHand
  <2>3. /\ ~ lost => InHand(hand, Append(text, next), m, next + 1, lost)
        /\ InHand(hand, Append(text, CloseFrame), m, next, TRUE)
    <3>1. CASE Closed(hand)
      BY <2>2, <3>1 DEF InHand
    <3>2. CASE ~ Closed(hand)
      <4>1. NotRead(text, k, next, lost)
        BY <2>1, <3>2 DEF InHand
      <4>2. /\ ~ lost => NotRead(Append(text, next), k, next + 1, lost)
            /\ NotRead(Append(text, CloseFrame), k, next, TRUE)
        BY <1>1, <4>1, Written
      <4> QED
        BY <2>2, <4>2 DEF InHand
    <3> QED
      BY <3>1, <3>2
  <2> QED
    BY <1>2, <2>3 DEF UnderWay, m
<1> QED
  BY <1>3, <1>4

\* and less of it, where nothing is lost but what is lost anyway.
LEMMA WayDropped ==
  ASSUME NEW coming \in Seq(Int), NEW hand \in Seq(Int), NEW text \in Seq(Int),
         NEW n \in Nat, NEW next \in Nat, NEW lost \in BOOLEAN,
         UnderWay(coming, hand, text, n, next, lost)
  PROVE  /\ UnderWay(coming, hand, text, n, next, TRUE)
         /\ lost \/ text = <<>> => UnderWay(coming, hand, <<>>, n, next, lost)
<1>1. \A m : NotRead(text, m, next, lost) => NotRead(text, m, next, TRUE)
  BY DEF NotRead
<1>2. \A m : NotRead(text, m, next, lost) /\ (lost \/ text = <<>>) => NotRead(<<>>, m, next, lost)
  BY InStepNone DEF NotRead
<1> QED
  BY <1>1, <1>2 DEF UnderWay, InHand

-----------------------------------------------------------------------------
(***************************************************************************)
(* Types.                                                                  *)
(***************************************************************************)

\* What a transport can be.
LEMMA KindsKnown ==
  ASSUME SocketTyped
  PROVE  /\ kind.framed \in BOOLEAN
         /\ kind.receiver \in {"xhr", "eventsource", "htmlfile", "jsonp"}
         /\ kind.receiver = "jsonp" => ~ kind.framed
BY KindsAssumption DEF SocketTyped, PageReceivers, FramedReceivers

\* The fields of a request.
LEMMA RequestFields ==
  ASSUME recv \in Requests
  PROVE  /\ recv.phase \in Phases /\ recv.text \in Seq(Int)
         /\ recv.end \in {"no", "ok", "broken"} /\ recv.started \in BOOLEAN
BY DEF Requests

\* A request goes on.
LEMMA RequestsChanged ==
  ASSUME NEW r \in Requests
  PROVE  /\ \A phase \in Phases : [r EXCEPT !.phase = phase] \in Requests
         /\ \A text \in Seq(Int) : [r EXCEPT !.text = text] \in Requests
         /\ \A end \in {"no", "ok", "broken"} : [r EXCEPT !.end = end] \in Requests
         /\ \A text \in Seq(Int) : \A started \in BOOLEAN :
               [r EXCEPT !.text = text, !.started = started] \in Requests
<1> DEFINE Texts == Seq(Int)
           R == [phase : Phases, text : Texts, end : {"no", "ok", "broken"}, started : BOOLEAN]
<1>1. r \in R
  BY DEF Requests
<1> HIDE DEF Texts
<1>2. /\ \A phase \in Phases : [r EXCEPT !.phase = phase] \in R
      /\ \A text \in Texts : [r EXCEPT !.text = text] \in R
      /\ \A end \in {"no", "ok", "broken"} : [r EXCEPT !.end = end] \in R
      /\ \A text \in Texts : \A started \in BOOLEAN :
            [r EXCEPT !.text = text, !.started = started] \in R
  BY <1>1
<1> QED
  BY <1>2 DEF Requests, Texts

\* The requests that are made.
LEMMA RequestsMade ==
  ASSUME recv \in Requests
  PROVE  /\ NoRequest \in Requests
         /\ NoRequest.phase = "none" /\ NoRequest.text = <<>> /\ NoRequest.end = "no"
         /\ NewRequest \in Requests
         /\ NewRequest.phase \in {"delayed", "open"} /\ NewRequest.text = <<>>
         /\ NewRequest.end = "no"
         /\ Aborted(recv) \in Requests
         /\ Aborted(recv) \in {recv, NoRequest} /\ Aborted(recv).phase \in {"none", "delayed"}
<1>1. /\ NoRequest \in Requests /\ NoRequest.phase = "none" /\ NoRequest.text = <<>>
      /\ NoRequest.end = "no"
  BY DEF NoRequest, Requests, Phases
<1>2. /\ NewRequest \in Requests
      /\ NewRequest.phase \in {"delayed", "open"} /\ NewRequest.text = <<>>
      /\ NewRequest.end = "no"
  <2>1. (IF kind.receiver = "xhr" THEN "delayed" ELSE "open") \in Phases
    BY DEF Phases
  <2>2. NewRequest \in Requests
    BY <1>1, <2>1, RequestsChanged DEF NewRequest
  <2> QED
    BY <2>2 DEF NewRequest, NoRequest
<1>3. /\ Aborted(recv) \in Requests
      /\ Aborted(recv) \in {recv, NoRequest} /\ Aborted(recv).phase \in {"none", "delayed"}
  BY <1>1 DEF Aborted
<1> QED
  BY <1>1, <1>2, <1>3

\* What an iframe or a response tells the page.
LEMMA Telling ==
  ASSUME kind.framed \in BOOLEAN, NEW frame, NEW r, NEW rest, Tell(frame, r, rest)
  PROVE  \/ /\ kind.framed
            /\ up' = Append(up, frame) /\ recv' = r /\ lines' = rest
            /\ UNCHANGED <<cleaned, given, iframe>>
         \/ /\ ~ kind.framed /\ frame = CloseFrame
            /\ cleaned' = TRUE
            /\ recv' = (IF cleaned THEN r ELSE Aborted(r))
            /\ lines' = (IF cleaned THEN rest ELSE <<>>)
            /\ UNCHANGED <<given, iframe, up>>
         \/ /\ ~ kind.framed /\ frame # CloseFrame
            /\ given' = Append(given, frame) /\ recv' = r /\ lines' = rest
            /\ UNCHANGED <<cleaned, iframe, up>>
<1>1. CASE kind.framed
  BY <1>1 DEF Tell, socket
<1>2. CASE ~ kind.framed /\ frame = CloseFrame
  BY <1>2 DEF Tell, Heard
<1>3. CASE ~ kind.framed /\ frame # CloseFrame
  BY <1>3 DEF Tell
<1> QED
  BY <1>1, <1>2, <1>3

\* doCleanup, of either kind.
LEMMA Cleaning ==
  ASSUME kind.framed \in BOOLEAN, CleanUp
  PROVE  /\ cleaned' = TRUE
         /\ \/ kind.framed /\ iframe' = "removing" /\ recv' = recv /\ lines' = lines
            \/ ~ kind.framed /\ recv' = Aborted(recv) /\ lines' = <<>> /\ iframe' = iframe
BY DEF CleanUp, Heard, receiver

\* The steps of the receiver: a request goes on or is made anew, a response fails,
\* or a frame is dispatched.
Quiet == /\ XhrStarts \/ Reads \/ Ends
         /\ lines = <<>> /\ recv.phase # "none"
         /\ UNCHANGED <<socket, iframe, up>> /\ Calm
Failing == /\ lines = <<>> /\ recv.phase = "open" /\ recv.end = "broken"
           /\ Tell(CloseFrame, NoRequest, lines) /\ Calm
\* There are no others.
LEMMA ReceiverSteps ==
  Receive => Quiet \/ Failing \/ Dispatch
<1>1. XhrStarts \/ Reads => Quiet
  BY DEF Quiet, Reads, XhrStarts, XhrReads, EventSourceReads, HtmlfileReads, JsonpReads,
         Reading, Idle
<1>2. Ends => Quiet
  BY DEF Quiet, Ends, XhrEnds, HtmlfileStops, ScriptDone, EventSourceEnds,
         EventSourceCloses, Ended, Idle
<1>3. ReceiverFails => Failing
  BY DEF Failing, ReceiverFails, XhrFails, EventSourceFails, HtmlfileFails, JsonpFails,
         Fails, Idle
<1> QED
  BY <1>1, <1>2, <1>3 DEF Receive

\* Those of the server touch the session and the request.
LEMMA SessionSteps ==
  Session => Far /\ recv.phase = "open" /\ recv.end = "no"
BY DEF Session, SessionWrites, SessionCloses, ResponseEnds, ResponseBreaks, Asked

\* The receiver keeps its types.
LEMMA ReceiverKeepsTypes ==
  ASSUME Typed, Receive
  PROVE  Typed'
<1>1. /\ kind.framed \in BOOLEAN /\ recv \in Requests /\ lines \in Seq(Int)
      /\ up \in Seq(Int) /\ given \in Seq(Int) /\ cleaned \in BOOLEAN
  BY KindsKnown DEF Typed, SocketTyped, ReceiverTyped, WindowsTyped
<1>2. /\ NoRequest \in Requests /\ NewRequest \in Requests
      /\ Aborted(recv) \in Requests /\ Aborted(NoRequest) \in Requests
  BY <1>1, RequestsMade DEF Aborted
<1>3. recv.text \in Seq(Int)
  BY <1>1, RequestFields
<1>4. Calm => SessionTyped' /\ SenderTyped' /\ kind' = kind /\ facade' = facade /\ down' = down
  BY DEF Calm, Typed, SessionTyped, SenderTyped, sender
<1>5. CASE Quiet
  <2>1. XhrStarts => ReceiverTyped'
    <3> SUFFICES ASSUME XhrStarts PROVE ReceiverTyped'
      OBVIOUS
    <3>1. "zombie" \in Phases /\ "open" \in Phases
      BY DEF Phases
    <3>2. [recv EXCEPT !.phase = IF cleaned /\ ~ kind.framed THEN "zombie" ELSE "open"] \in Requests
      BY <1>1, <3>1, RequestsChanged
    <3> QED
      BY <1>1, <3>2 DEF XhrStarts, ReceiverTyped
  <2>2. XhrReads => ReceiverTyped'
    <3>1. <<>> \in Seq(Int)
      OBVIOUS
    <3>2. [recv EXCEPT !.text = <<>>] \in Requests
      BY <1>1, <3>1, RequestsChanged
    <3> QED
      BY <1>3, <3>2 DEF XhrReads, Unread, ReceiverTyped
  <2>3. EventSourceReads \/ HtmlfileReads => ReceiverTyped'
    <3> SUFFICES ASSUME EventSourceReads \/ HtmlfileReads PROVE ReceiverTyped'
      OBVIOUS
    <3>1. recv.text # <<>> /\ recv' = [recv EXCEPT !.text = Tail(recv.text)]
          /\ lines' = <<Head(recv.text)>>
      BY DEF EventSourceReads, HtmlfileReads, Reading
    <3>2. Tail(recv.text) \in Seq(Int) /\ <<Head(recv.text)>> \in Seq(Int)
      BY <1>3, <3>1
    <3>3. [recv EXCEPT !.text = Tail(recv.text)] \in Requests
      BY <1>1, <3>2, RequestsChanged
    <3> QED
      BY <3>1, <3>2, <3>3 DEF ReceiverTyped
  <2>4. JsonpReads => ReceiverTyped'
    <3> SUFFICES ASSUME JsonpReads PROVE ReceiverTyped'
      OBVIOUS
    <3>1. /\ recv.text # <<>> /\ recv' = [recv EXCEPT !.phase = "finishing"]
          /\ lines' = <<Head(recv.text)>>
      BY DEF JsonpReads, Reading
    <3>2. <<Head(recv.text)>> \in Seq(Int) /\ "finishing" \in Phases
      BY <1>3, <3>1 DEF Phases
    <3>3. [recv EXCEPT !.phase = "finishing"] \in Requests
      BY <1>1, <3>2, RequestsChanged
    <3> QED
      BY <3>1, <3>2, <3>3 DEF ReceiverTyped
  <2>5. Ends => ReceiverTyped'
    <3>1. "closing" \in Phases
      BY DEF Phases
    <3>2. [recv EXCEPT !.phase = "closing"] \in Requests
      BY <1>1, <3>1, RequestsChanged
    <3> QED
      BY <1>1, <1>2, <3>2 DEF Ends, XhrEnds, HtmlfileStops, ScriptDone, EventSourceEnds,
         EventSourceCloses, NextRequest, ReceiverTyped
  <2>6. ReceiverTyped'
    BY <1>5, <2>1, <2>2, <2>3, <2>4, <2>5 DEF Quiet, Reads
  <2>7. SocketTyped' /\ WindowsTyped'
    BY <1>4, <1>5 DEF Quiet, socket, Typed, SocketTyped, WindowsTyped
  <2> QED
    BY <1>4, <1>5, <2>6, <2>7 DEF Quiet, Typed
<1>6. ASSUME NEW frame \in Int, NEW r \in {recv, NoRequest}, NEW rest \in Seq(Int),
             Tell(frame, r, rest), Calm
      PROVE  Typed'
  <2>1. /\ Append(up, frame) \in Seq(Int) /\ Append(given, frame) \in Seq(Int)
        /\ <<>> \in Seq(Int) /\ TRUE \in BOOLEAN /\ r \in Requests /\ Aborted(r) \in Requests
    BY <1>1, <1>2
  <2>2. /\ up' \in Seq(Int) /\ given' \in Seq(Int) /\ cleaned' \in BOOLEAN
        /\ recv' \in Requests /\ lines' \in Seq(Int) /\ iframe' = iframe
    <3>1. CASE kind.framed
      BY <1>1, <1>6, <2>1, <3>1 DEF Tell, socket
    <3>2. CASE ~ kind.framed /\ frame = CloseFrame
      BY <1>1, <1>6, <2>1, <3>2 DEF Tell, Heard
    <3>3. CASE ~ kind.framed /\ frame # CloseFrame
      BY <1>1, <1>6, <2>1, <3>3 DEF Tell
    <3> QED
      BY <3>1, <3>2, <3>3
  <2> QED
    BY <1>4, <1>6, <2>2 DEF Typed, SocketTyped, WindowsTyped, ReceiverTyped
<1>7. CASE Failing
  <2>1. CloseFrame \in Int
    BY DEF CloseFrame
  <2> QED
    BY <1>1, <1>6, <1>7, <2>1 DEF Failing
<1>8. CASE Dispatch
  <2>1. lines # <<>> /\ Head(lines) \in Int /\ Tail(lines) \in Seq(Int)
    BY <1>1, <1>8 DEF Dispatch
  <2> QED
    BY <1>6, <1>8, <2>1 DEF Dispatch
<1> QED
  BY <1>5, <1>7, <1>8, ReceiverSteps

\* So does the server.
LEMMA SessionKeepsTypes ==
  ASSUME Typed, Session
  PROVE  Typed'
<1>1. /\ recv \in Requests /\ session \in [next : Nat, lost : BOOLEAN, ends : Nat]
      /\ recv.text \in Seq(Int) /\ session.next \in Nat /\ session.ends \in Nat
  BY RequestFields DEF Typed, ReceiverTyped, SessionTyped
<1>2. Far
  BY SessionSteps
<1>3. SocketTyped' /\ WindowsTyped' /\ SenderTyped' /\ lines' = lines
  BY <1>2 DEF Far, Typed, SocketTyped, WindowsTyped, SenderTyped, socket, windows, sender
<1>4. recv' \in Requests
  <2>1. ASSUME NEW frame \in Int, Writes(frame)
        PROVE  recv' \in Requests
    <3>1. Append(recv.text, frame) \in Seq(Int)
      BY <1>1
    <3> QED
      BY <1>1, <2>1, <3>1, RequestsChanged DEF Writes
  <2>2. SessionWrites => recv' \in Requests
    BY <1>1, <2>1 DEF SessionWrites
  <2>3. SessionCloses => recv' \in Requests
    BY <2>1 DEF SessionCloses, CloseFrame
  <2>4. ResponseEnds \/ ResponseBreaks => recv' \in Requests
    BY <1>1, RequestsChanged DEF ResponseEnds, ResponseBreaks
  <2> QED
    BY <2>2, <2>3, <2>4 DEF Session
<1>5. session' \in [next : Nat, lost : BOOLEAN, ends : Nat]
  <2>1. /\ session.next + 1 \in Nat /\ session.ends + 1 \in Nat
    BY <1>1
  <2>2. SessionWrites => session' \in [next : Nat, lost : BOOLEAN, ends : Nat]
    BY <1>1, <2>1 DEF SessionWrites
  <2>3. SessionCloses => session' \in [next : Nat, lost : BOOLEAN, ends : Nat]
    BY <1>1, <2>1 DEF SessionCloses
  <2>4. ResponseEnds => session' \in [next : Nat, lost : BOOLEAN, ends : Nat]
    BY <1>1, <2>1 DEF ResponseEnds
  <2>5. ResponseBreaks => session' \in [next : Nat, lost : BOOLEAN, ends : Nat]
    BY <1>1, <2>1 DEF ResponseBreaks
  <2> QED
    BY <2>2, <2>3, <2>4, <2>5 DEF Session
<1> QED
  BY <1>3, <1>4, <1>5 DEF Typed, ReceiverTyped, SessionTyped

\* The buffer, the requests and what they wait for, as they are changed.
SendingTyped == /\ buffer \in Seq(Int) /\ stop \in {"null", "request", "wait"}
                /\ posts \in SUBSET Sendings

\* send_schedule
LEMMA SchedulingTyped ==
  ASSUME SendingTyped, NEW messages \in Seq(Int), Schedule(messages)
  PROVE  SendingTyped'
<1>1. <<>> \in Seq(Int)
  OBVIOUS
<1>2. [payload |-> messages, there |-> FALSE] \in Sendings
  BY DEF Sendings
<1>3. Posted(messages) \in SUBSET Sendings
  BY <1>2 DEF Posted, SendingTyped
<1> QED
  BY <1>1, <1>3 DEF Schedule, SendingTyped

\* doSend
LEMMA DoSendTyped ==
  ASSUME SendingTyped, NEW message \in Int, DoSend(message)
  PROVE  SendingTyped'
<1>1. Append(buffer, message) \in Seq(Int)
  BY DEF SendingTyped
<1> QED
  BY <1>1, SchedulingTyped DEF DoSend, SendingTyped

\* The windows keep their types.
LEMMA WindowsKeepTypes ==
  ASSUME Typed, SocketCleansUp \/ IframeLoads \/ IframeBoots \/ IframeTimesOut
                \/ IframeRemoved \/ PageGets
  PROVE  Typed'
<1>1. /\ kind.framed \in BOOLEAN /\ recv \in Requests /\ lines \in Seq(Int)
      /\ up \in Seq(Int) /\ down \in Seq(Int) /\ given \in Seq(Int) /\ cleaned \in BOOLEAN
      /\ NoRequest \in Requests /\ Aborted(recv) \in Requests
      /\ <<>> \in Seq(Int) /\ {} \in SUBSET Sendings
  BY KindsKnown, RequestsMade DEF Typed, SocketTyped, ReceiverTyped, WindowsTyped
<1>2. CASE SocketCleansUp \/ IframeTimesOut
  <2>1. CleanUp /\ UNCHANGED <<kind, given, facade, up, down, session, sender, sent, arrived>>
    BY <1>2 DEF SocketCleansUp, IframeTimesOut
  <2>2. /\ cleaned' = TRUE /\ iframe' \in {iframe, "removing"}
        /\ recv' \in Requests /\ lines' \in Seq(Int)
    BY <1>1, <2>1, Cleaning
  <2> QED
    BY <2>1, <2>2 DEF Typed, SocketTyped, WindowsTyped, ReceiverTyped, SessionTyped,
       SenderTyped, sender
<1>3. CASE IframeLoads
  BY <1>3 DEF IframeLoads, Typed, SocketTyped, WindowsTyped, ReceiverTyped, SessionTyped,
     SenderTyped, socket, receiver, sender
<1>4. CASE IframeBoots
  <2>1. Append(up, Hello) \in Seq(Int)
    BY <1>1 DEF Hello
  <2> QED
    BY <1>4, <2>1 DEF IframeBoots, Typed, SocketTyped, WindowsTyped, ReceiverTyped,
       SessionTyped, SenderTyped, socket, receiver, sender
<1>5. CASE IframeRemoved
  BY <1>1, <1>5 DEF IframeRemoved, Typed, SocketTyped, WindowsTyped, ReceiverTyped,
     SessionTyped, SenderTyped, socket
<1>6. CASE PageGets
  <2>1. /\ Head(up) \in Int /\ Tail(up) \in Seq(Int)
    BY <1>1, <1>6 DEF PageGets
  <2>2. Append(down, Hello) \in Seq(Int) /\ Append(given, Head(up)) \in Seq(Int)
    BY <1>1, <2>1 DEF Hello
  <2>3. /\ up' = Tail(up)
        /\ UNCHANGED <<kind, facade, receiver, session, sender, sent, arrived>>
    BY <1>6 DEF PageGets
  <2>4. /\ down' \in {down, Append(down, Hello)} /\ given' \in {given, Append(given, Head(up))}
        /\ cleaned' \in {cleaned, TRUE} /\ iframe' \in {iframe, "removing"}
    <3>1. CASE Head(up) = Hello
      BY <1>6, <3>1 DEF PageGets, socket
    <3>2. CASE Head(up) = CloseFrame
      BY <1>6, <3>2 DEF PageGets, CloseFrame, Hello
    <3>3. CASE Head(up) # Hello /\ Head(up) # CloseFrame
      BY <1>6, <3>3 DEF PageGets
    <3> QED
      BY <3>1, <3>2, <3>3
  <2>5. /\ down' \in Seq(Int) /\ given' \in Seq(Int) /\ cleaned' \in BOOLEAN
    BY <1>1, <2>2, <2>4
  <2>6. SocketTyped' /\ WindowsTyped'
    BY <2>1, <2>3, <2>4, <2>5 DEF Typed, SocketTyped, WindowsTyped
  <2> QED
    BY <2>3, <2>6 DEF Typed, ReceiverTyped, SessionTyped, SenderTyped, receiver, sender
<1> QED
  BY <1>2, <1>3, <1>4, <1>5, <1>6

\* So does what the page sends on its way to the server.
LEMMA SenderKeepsTypes ==
  ASSUME Typed, \/ PageSends \/ IframeGets \/ WaitOver
                \/ \E post \in posts : Post(post)
  PROVE  Typed'
<1>1. /\ SendingTyped /\ kind.framed \in BOOLEAN /\ sent \in 0 .. MaxSends /\ sent + 1 \in Int
      /\ down \in Seq(Int) /\ up \in Seq(Int) /\ given \in Seq(Int) /\ lines \in Seq(Int)
      /\ recv \in Requests /\ arrived \in SUBSET Int
      /\ NewRequest \in Requests /\ NoRequest \in Requests /\ Aborted(recv) \in Requests
      /\ <<>> \in Seq(Int)
  BY KindsKnown, RequestsMade, BoundsAssumption
     DEF Typed, SocketTyped, WindowsTyped, ReceiverTyped, SenderTyped, SendingTyped
<1>2. CASE PageSends
  <2>1. /\ sent' = sent + 1 /\ sent' \in 0 .. MaxSends
        /\ UNCHANGED <<kind, socket, iframe, facade, up, receiver, session, arrived>>
    BY <1>1, <1>2, BoundsAssumption DEF PageSends
  <2>2. Append(down, sent') \in Seq(Int) /\ sent' \in Int
    BY <1>1, <2>1
  <2>3. down' \in Seq(Int) /\ SendingTyped'
    <3>1. CASE kind.framed
      BY <1>1, <1>2, <2>2, <3>1 DEF PageSends, SendingTyped, sender
    <3>2. CASE ~ kind.framed
      <4>1. DoSend(sent') /\ down' = down
        BY <1>2, <3>2 DEF PageSends
      <4> QED
        BY <1>1, <2>2, <4>1, DoSendTyped
    <3> QED
      BY <3>1, <3>2
  <2> QED
    BY <2>1, <2>3 DEF Typed, SocketTyped, WindowsTyped, ReceiverTyped, SessionTyped,
       SenderTyped, SendingTyped, socket, receiver
<1>3. CASE IframeGets
  <2>1. /\ UNCHANGED <<kind, socket, iframe, up, lines, session, sent, arrived>>
        /\ down' = Tail(down) /\ down # <<>>
    BY <1>3 DEF IframeGets
  <2>2. Head(down) \in Int /\ Tail(down) \in Seq(Int)
    BY <1>1, <2>1
  <2>3. SendingTyped' /\ facade' \in {facade, TRUE} /\ recv' \in {recv, NewRequest}
    <3>1. CASE Head(down) = Hello
      BY <1>1, <1>3, <3>1 DEF IframeGets, SendingTyped, sender
    <3>2. CASE Head(down) # Hello
      <4>1. DoSend(Head(down)) /\ UNCHANGED <<facade, recv>>
        BY <1>3, <3>2 DEF IframeGets
      <4> QED
        BY <1>1, <2>2, <4>1, DoSendTyped
    <3> QED
      BY <3>1, <3>2
  <2> QED
    BY <1>1, <2>1, <2>2, <2>3 DEF Typed, SocketTyped, WindowsTyped, ReceiverTyped,
       SessionTyped, SenderTyped, SendingTyped, socket
<1>4. CASE WaitOver
  <2>1. /\ Schedule(buffer)
        /\ UNCHANGED <<kind, socket, windows, receiver, session, sent, arrived>>
    BY <1>4 DEF WaitOver, LeftOver
  <2>2. SendingTyped'
    BY <1>1, <2>1, SchedulingTyped DEF SendingTyped
  <2> QED
    BY <2>1, <2>2 DEF Typed, SocketTyped, WindowsTyped, ReceiverTyped, SessionTyped,
       SenderTyped, SendingTyped, socket, windows, receiver
<1>5. ASSUME NEW post \in posts, Post(post)
      PROVE  Typed'
  <2>1. post \in Sendings /\ post.payload \in Seq(Int) /\ posts \in SUBSET Sendings
    BY <1>1 DEF SendingTyped, Sendings
  <2>2. CASE PostArrives(post)
    <3>1. [post EXCEPT !.there = TRUE] \in Sendings
      BY <2>1 DEF Sendings
    <3>2. posts' \in SUBSET Sendings
      BY <2>1, <2>2, <3>1 DEF PostArrives
    <3>3. arrived' \in SUBSET Int
      BY <1>1, <2>1, <2>2 DEF PostArrives
    <3> QED
      BY <2>2, <3>2, <3>3 DEF PostArrives, Typed, SocketTyped, WindowsTyped, ReceiverTyped,
         SessionTyped, SenderTyped, socket, windows, receiver
  <2>3. CASE PostSucceeds(post)
    <3>1. posts' \in SUBSET Sendings
      BY <2>1, <2>3 DEF PostSucceeds
    <3> QED
      BY <2>3, <3>1 DEF PostSucceeds, Typed, SocketTyped, WindowsTyped, ReceiverTyped,
         SessionTyped, SenderTyped, socket, windows, receiver
  <2>4. CASE PostFails(post)
    <3>1. /\ posts' \in SUBSET Sendings /\ stop' \in {"wait", "null"}
          /\ UNCHANGED <<kind, facade, down, session, buffer, sent, arrived>>
      BY <2>1, <2>4 DEF PostFails
    <3>2. /\ up' \in Seq(Int) /\ given' = given /\ cleaned' \in {cleaned, TRUE}
          /\ recv' \in Requests /\ lines' \in Seq(Int) /\ iframe' = iframe
      <4>1. CASE FailureUnseen
        BY <1>1, <2>4, <4>1 DEF PostFails, socket, receiver
      <4>2. CASE ~ FailureUnseen
        <5>1. Tell(CloseFrame, recv, lines)
          BY <2>4, <4>2 DEF PostFails
        <5>2. Append(up, CloseFrame) \in Seq(Int)
          BY <1>1 DEF CloseFrame
        <5> QED
          BY <1>1, <5>1, <5>2, Telling
      <4> QED
        BY <4>1, <4>2
    <3>3. SenderTyped' /\ SessionTyped'
      BY <3>1 DEF Typed, SessionTyped, SenderTyped
    <3> QED
      BY <3>1, <3>2, <3>3 DEF Typed, SocketTyped, WindowsTyped, ReceiverTyped
  <2> QED
    BY <1>5, <2>2, <2>3, <2>4 DEF Post
<1> QED
  BY <1>2, <1>3, <1>4, <1>5

\* Every step keeps the types.
LEMMA StepKeepsTypes ==
  ASSUME Typed, [Next]_vars
  PROVE  Typed'
<1>1. CASE Next
  BY <1>1, ReceiverKeepsTypes, SessionKeepsTypes, WindowsKeepTypes, SenderKeepsTypes
     DEF Next, Iframe
<1>2. CASE UNCHANGED vars
  BY <1>2 DEF vars, socket, windows, receiver, sender, Typed, SocketTyped, WindowsTyped,
     ReceiverTyped, SessionTyped, SenderTyped
<1> QED
  BY <1>1, <1>2

-----------------------------------------------------------------------------
(***************************************************************************)
(* Where handlers run, and what was dropped.                               *)
(***************************************************************************)

\* A receiver keeps to its place: after doCleanup no frame is in its hands.
LEMMA ReceiverKeepsPlaces ==
  ASSUME Typed, Places, Receive
  PROVE  Places'
<1>1. kind.framed \in BOOLEAN /\ recv \in Requests /\ cleaned \in BOOLEAN
  BY KindsKnown DEF Typed, SocketTyped, ReceiverTyped
<1>2. NoRequest.phase = "none" /\ Aborted(recv).phase \in {"none", "delayed"}
      /\ Aborted(NoRequest).phase = "none"
  BY <1>1, RequestsMade DEF Aborted
<1>3. CASE Quiet
  <2>1. UNCHANGED <<kind, cleaned, iframe, facade, up, down>>
    BY <1>3 DEF Quiet, Calm, socket
  <2>2. ASSUME ~ kind.framed, cleaned
        PROVE  lines' = <<>> /\ recv'.phase \in {"none", "delayed", "zombie"}
    <3>1. lines = <<>> /\ recv.phase \in {"none", "delayed", "zombie"}
      BY <2>2 DEF Places
    <3>2. XhrStarts
      BY <1>3, <3>1 DEF Quiet, Reads, XhrReads, EventSourceReads, HtmlfileReads, JsonpReads,
         Reading, Ends, XhrEnds, HtmlfileStops, ScriptDone, EventSourceEnds,
         EventSourceCloses, Ended
    <3>3. recv' = [recv EXCEPT !.phase = "zombie"] /\ lines' = lines
      BY <2>2, <3>2 DEF XhrStarts
    <3>4. recv'.phase = "zombie"
      BY <1>1, <3>3 DEF Requests
    <3> QED
      BY <3>1, <3>3, <3>4
  <2> QED
    BY <2>1, <2>2 DEF Places
<1>4. ASSUME NEW frame, NEW r \in {recv, NoRequest}, NEW rest, Tell(frame, r, rest), Calm,
             kind.framed \/ ~ cleaned
      PROVE  Places'
  <2>1. UNCHANGED <<kind, facade, down>>
    BY <1>4 DEF Calm
  <2>2. CASE kind.framed
    <3>1. UNCHANGED <<cleaned, iframe>>
      BY <1>4, <2>2 DEF Tell, socket
    <3> QED
      BY <2>1, <2>2, <3>1 DEF Places
  <2>3. CASE ~ kind.framed /\ frame = CloseFrame
    <3>1. /\ cleaned' = TRUE /\ recv' = Aborted(r) /\ lines' = <<>>
          /\ UNCHANGED <<iframe, up>>
      BY <1>4, <2>3 DEF Tell, Heard
    <3> QED
      BY <1>2, <2>1, <2>3, <3>1 DEF Places
  <2>4. CASE ~ kind.framed /\ frame # CloseFrame
    <3>1. UNCHANGED <<cleaned, iframe, up>>
      BY <1>4, <2>4 DEF Tell
    <3> QED
      BY <1>4, <2>1, <2>4, <3>1 DEF Places
  <2> QED
    BY <1>1, <2>2, <2>3, <2>4
<1>5. CASE Failing
  <2>1. kind.framed \/ ~ cleaned
    BY <1>1, <1>5 DEF Failing, Places
  <2> QED
    BY <1>4, <1>5, <2>1 DEF Failing
<1>6. CASE Dispatch
  <2>1. kind.framed \/ ~ cleaned
    BY <1>1, <1>6 DEF Dispatch, Places
  <2> QED
    BY <1>4, <1>6, <2>1 DEF Dispatch
<1> QED
  BY <1>3, <1>5, <1>6, ReceiverSteps

\* So do the others.
LEMMA StepKeepsPlaces ==
  ASSUME Typed, Places, [Next]_vars
  PROVE  Places'
<1>1. kind.framed \in BOOLEAN /\ recv \in Requests /\ cleaned \in BOOLEAN
  BY KindsKnown DEF Typed, SocketTyped, ReceiverTyped
<1>2. Aborted(recv).phase \in {"none", "delayed"}
  BY <1>1, RequestsMade
<1>3. CASE Receive
  BY <1>3, ReceiverKeepsPlaces
<1>4. CASE Session
  <2>1. UNCHANGED <<kind, cleaned, iframe, facade, up, down, lines>> /\ recv.phase = "open"
    BY <1>4, SessionSteps DEF Far, socket, windows
  <2>2. kind.framed \/ ~ cleaned
    BY <1>1, <2>1 DEF Places
  <2> QED
    BY <1>1, <2>1, <2>2 DEF Places
<1>5. CASE SocketCleansUp \/ IframeTimesOut
  <2>1. CleanUp /\ UNCHANGED <<kind, facade, up, down>>
    BY <1>5 DEF SocketCleansUp, IframeTimesOut
  <2>2. CASE kind.framed
    <3>1. cleaned' = TRUE /\ iframe' = "removing"
      BY <2>1, <2>2 DEF CleanUp
    <3> QED
      BY <2>1, <2>2, <3>1 DEF Places
  <2>3. CASE ~ kind.framed
    <3>1. cleaned' = TRUE /\ recv' = Aborted(recv) /\ lines' = <<>> /\ iframe' = iframe
      BY <2>1, <2>3 DEF CleanUp, Heard
    <3> QED
      BY <1>2, <2>1, <2>3, <3>1 DEF Places
  <2> QED
    BY <1>1, <2>2, <2>3
<1>6. CASE IframeLoads \/ IframeBoots \/ IframeRemoved \/ IframeGets
  <2>1. /\ iframe \in {"loading", "loaded", "ready", "removing"} /\ iframe' # "none"
        /\ UNCHANGED <<kind, cleaned>>
        /\ iframe' \in {"removing", "removed"} => iframe \in {"removing", "removed"}
    BY <1>6 DEF IframeLoads, IframeBoots, IframeRemoved, IframeGets, socket
  <2>2. kind.framed
    BY <1>1, <2>1 DEF Places
  <2> QED
    BY <2>1, <2>2 DEF Places
<1>7. CASE PageGets
  <2>1. up # <<>> /\ kind' = kind
    BY <1>7 DEF PageGets
  <2>2. kind.framed
    BY <1>1, <2>1 DEF Places
  <2>3. /\ cleaned => cleaned'
        /\ iframe' = iframe \/ (iframe' = "removing" /\ cleaned')
    <3>1. CASE Head(up) = Hello
      BY <1>7, <3>1 DEF PageGets, socket
    <3>2. CASE Head(up) = CloseFrame
      BY <1>7, <3>2 DEF PageGets, CloseFrame, Hello
    <3>3. CASE Head(up) # Hello /\ Head(up) # CloseFrame
      BY <1>7, <3>3 DEF PageGets
    <3> QED
      BY <3>1, <3>2, <3>3
  <2> QED
    BY <1>1, <2>1, <2>2, <2>3 DEF Places
<1>8. CASE PageSends
  BY <1>8 DEF PageSends, Places, socket, receiver
<1>9. CASE WaitOver
  BY <1>9 DEF WaitOver, Places, socket, windows, receiver
<1>10. ASSUME NEW post \in posts, Post(post)
       PROVE  Places'
  <2>1. CASE PostArrives(post) \/ PostSucceeds(post)
    BY <2>1 DEF PostArrives, PostSucceeds, Places, socket, windows, receiver
  <2>2. CASE PostFails(post)
    <3>1. UNCHANGED <<kind, facade, down>>
      BY <2>2 DEF PostFails
    <3>2. CASE FailureUnseen
      BY <2>2, <3>1, <3>2 DEF PostFails, Places, socket, receiver
    <3>3. CASE ~ FailureUnseen /\ kind.framed
      <4>1. UNCHANGED <<cleaned, iframe>>
        BY <2>2, <3>3 DEF PostFails, Tell, socket
      <4> QED
        BY <3>1, <3>3, <4>1 DEF Places
    <3>4. CASE ~ FailureUnseen /\ ~ kind.framed
      <4>1. /\ cleaned' = TRUE /\ UNCHANGED <<iframe, up>>
            /\ IF cleaned THEN recv' = recv /\ lines' = lines
                          ELSE recv' = Aborted(recv) /\ lines' = <<>>
        BY <2>2, <3>4 DEF PostFails, Tell, Heard
      <4> QED
        BY <1>2, <3>1, <3>4, <4>1 DEF Places
    <3> QED
      BY <1>1, <3>2, <3>3, <3>4
  <2> QED
    BY <1>10, <2>1, <2>2 DEF Post
<1>11. CASE UNCHANGED vars
  BY <1>11 DEF vars, socket, windows, receiver, Places
<1> QED
  BY <1>3, <1>4, <1>5, <1>6, <1>7, <1>8, <1>9, <1>10, <1>11 DEF Next, Iframe

\* Until the facade was made no receiver runs, and nothing is sent.
LEMMA StepKeepsGreeting ==
  ASSUME Typed, Places, Greeting, OneRequest, [Next]_vars
  PROVE  Greeting'
<1>1. kind.framed \in BOOLEAN /\ facade \in BOOLEAN
  BY KindsKnown DEF Typed, SocketTyped, WindowsTyped
<1>2. recv \in Requests
  BY DEF Typed, ReceiverTyped
<1>3. ~ facade => recv.phase = "none"
  BY RequestsMade, <1>2 DEF Greeting
<1>4. CASE Receive
  <2>1. facade
    BY <1>1, <1>3, <1>4, ReceiverSteps DEF Quiet, Failing, Dispatch, Greeting
  <2>2. facade' = facade
    BY <1>4, ReceiverSteps DEF Quiet, Failing, Dispatch, Calm
  <2>3. iframe' = iframe
    <3>1. CASE Quiet
      BY <3>1 DEF Quiet
    <3>2. CASE Failing
      BY <1>1, <3>2, Telling DEF Failing
    <3>3. CASE Dispatch
      BY <1>1, <3>3, Telling DEF Dispatch
    <3> QED
      BY <1>4, <3>1, <3>2, <3>3, ReceiverSteps
  <2> QED
    BY <2>1, <2>2, <2>3 DEF Greeting
<1>5. CASE Session
  <2>1. facade /\ UNCHANGED <<facade, iframe>>
    BY <1>1, <1>3, <1>5, SessionSteps DEF Far, windows
  <2> QED
    BY <2>1 DEF Greeting
<1>6. CASE SocketCleansUp \/ IframeTimesOut
  <2>1. /\ CleanUp
        /\ UNCHANGED <<kind, given, facade, up, down, session, sender, sent, arrived>>
    BY <1>6 DEF SocketCleansUp, IframeTimesOut
  <2>2. CASE kind.framed
    <3>1. iframe' = "removing" /\ UNCHANGED <<recv, lines>>
      BY <2>1, <2>2 DEF CleanUp, receiver
    <3> QED
      BY <2>1, <3>1 DEF Greeting, sender
  <2>3. CASE ~ kind.framed
    <3>1. facade /\ iframe' = iframe
      BY <2>1, <2>3 DEF CleanUp, Places
    <3> QED
      BY <2>1, <3>1 DEF Greeting
  <2> QED
    BY <1>1, <2>2, <2>3
<1>7. CASE IframeLoads
  BY <1>7 DEF IframeLoads, Greeting, socket, receiver, sender
<1>8. CASE IframeBoots
  <2>1. ~ facade /\ up = <<>> /\ down = <<>>
    BY <1>1, <1>8 DEF IframeBoots, Greeting
  <2>2. up' = <<Hello>> /\ iframe' = "ready"
    BY <1>8, <2>1 DEF IframeBoots
  <2> QED
    BY <1>8, <2>1, <2>2 DEF IframeBoots, Greeting, socket, receiver, sender
<1>9. CASE IframeRemoved
  BY <1>9 DEF IframeRemoved, Greeting, socket
<1>10. CASE PageGets
  <2>1. facade' = facade /\ UNCHANGED <<receiver, session, sender, sent, arrived>>
    BY <1>10 DEF PageGets
  <2>2. CASE facade
    <3>1. iframe' \in {iframe, "removing"}
      BY <1>10 DEF PageGets, socket
    <3> QED
      BY <2>1, <2>2, <3>1 DEF Greeting
  <2>3. CASE ~ facade
    <3>1. up = <<Hello>> /\ down = <<>> /\ iframe \notin {"loading", "loaded"}
      BY <1>10, <2>3 DEF Greeting, PageGets
    <3>2. up' = <<>> /\ down' = <<Hello>> /\ UNCHANGED <<cleaned, given, iframe>>
      <4>1. /\ Head(<<Hello>>) = Hello /\ Tail(<<Hello>>) = <<>>
            /\ Append(<<>>, Hello) = <<Hello>>
        OBVIOUS
      <4>2. /\ Head(up) = Head(<<Hello>>) /\ Tail(up) = Tail(<<Hello>>)
            /\ Append(down, Hello) = Append(<<>>, Hello)
        BY ONLY <3>1, Zenon
      <4>3. Head(up) = Hello
        BY <4>1, <4>2, Zenon
      <4>4. up' = Tail(up) /\ down' = Append(down, Hello) /\ UNCHANGED <<cleaned, given, iframe>>
        BY <1>10, <4>3 DEF PageGets, socket, Hello, CloseFrame
      <4> QED
        BY <4>1, <4>2, <4>4, Zenon
    <3> QED
      BY <2>1, <2>3, <3>1, <3>2 DEF Greeting, socket, receiver, sender
  <2> QED
    BY <1>1, <2>2, <2>3
<1>11. CASE PageSends \/ WaitOver \/ \E post \in posts : Post(post)
  <2>1. facade
    BY <1>1, <1>11 DEF Greeting, OneRequest, PageSends, WaitOver
  <2>2. UNCHANGED <<facade, iframe>>
    <3>1. CASE PageSends \/ WaitOver
      BY <3>1 DEF PageSends, WaitOver, windows
    <3>2. ASSUME NEW post \in posts, PostArrives(post) \/ PostSucceeds(post)
          PROVE  UNCHANGED <<facade, iframe>>
      BY <3>2 DEF PostArrives, PostSucceeds, windows
    <3>3. ASSUME NEW post \in posts, PostFails(post)
          PROVE  UNCHANGED <<facade, iframe>>
      BY <1>1, <3>3, Telling DEF PostFails
    <3> QED
      BY <1>11, <3>1, <3>2, <3>3 DEF Post
  <2> QED
    BY <2>1, <2>2 DEF Greeting
<1>12. CASE IframeGets
  <2>1. iframe' = iframe /\ iframe \in {"ready", "removing"} /\ down # <<>>
    BY <1>12 DEF IframeGets
  <2>2. facade'
    <3>1. CASE facade
      BY <1>12, <3>1 DEF IframeGets
    <3>2. CASE ~ facade
      <4>1. Head(down) = Hello
        BY <2>1, <3>2 DEF Greeting
      <4> QED
        BY <1>12, <4>1 DEF IframeGets
    <3> QED
      BY <1>1, <3>1, <3>2
  <2> QED
    BY <2>1, <2>2 DEF Greeting
<1>13. CASE UNCHANGED vars
  BY <1>13 DEF vars, socket, windows, receiver, sender, Greeting
<1> QED
  BY <1>4, <1>5, <1>6, <1>7, <1>8, <1>9, <1>10, <1>11, <1>12, <1>13 DEF Next, Iframe

\* A request that is as it was, or made anew, drops nothing.
LEMMA DroppingKept ==
  ASSUME Typed, Dropping, recv' \in {recv, NoRequest, NewRequest},
         kind' = kind, session.lost => session'.lost
  PROVE  Dropping'
<1>1. recv \in Requests
  BY DEF Typed, ReceiverTyped
<1>2. CASE recv' = recv
  BY <1>2 DEF Dropping
<1>3. CASE recv' \in {NoRequest, NewRequest}
  <2>1. recv'.end = "no" /\ recv'.phase # "closing" /\ recv'.text = <<>> /\ Len(<<>>) = 0
    BY <1>1, <1>3, RequestsMade
  <2> QED
    BY <2>1 DEF Dropping
<1> QED
  BY <1>2, <1>3

\* What comes of the request when the page is told something or cleans up.
LEMMA RequestsLeft ==
  ASSUME kind.framed \in BOOLEAN, recv \in Requests
  PROVE  /\ CleanUp => recv' \in {recv, NoRequest}
         /\ \A frame, rest : \A r \in {recv, NoRequest} :
               Tell(frame, r, rest) => recv' \in {recv, NoRequest}
<1>1. Aborted(recv) \in {recv, NoRequest} /\ Aborted(NoRequest) = NoRequest
  BY RequestsMade DEF Aborted
<1>2. CleanUp => recv' \in {recv, NoRequest}
  BY <1>1, Cleaning
<1>3. ASSUME NEW frame, NEW rest, NEW r \in {recv, NoRequest}, Tell(frame, r, rest)
      PROVE  recv' \in {recv, NoRequest}
  BY <1>1, <1>3, Telling
<1> QED
  BY <1>2, <1>3

\* Those who are not the session leave it alone, and the receivers apart they keep
\* the request, drop it or make a new one.
LEMMA OthersKeepSession ==
  ASSUME Typed, [Next]_vars, ~ Session
  PROVE  /\ UNCHANGED <<kind, session>>
         /\ ~ Quiet => recv' \in {recv, NoRequest, NewRequest}
<1>1. kind.framed \in BOOLEAN /\ recv \in Requests
  BY KindsKnown DEF Typed, SocketTyped, ReceiverTyped
<1>2. CASE Receive
  <2>1. CASE Quiet
    BY <2>1 DEF Quiet, Calm
  <2>2. CASE Failing
    BY <1>1, <2>2, RequestsLeft DEF Failing, Calm
  <2>3. CASE Dispatch
    BY <1>1, <2>3, RequestsLeft DEF Dispatch, Calm
  <2> QED
    BY <1>2, <2>1, <2>2, <2>3, ReceiverSteps
<1>3. CASE SocketCleansUp \/ IframeTimesOut
  BY <1>1, <1>3, RequestsLeft DEF SocketCleansUp, IframeTimesOut
<1>4. CASE IframeLoads \/ IframeBoots \/ IframeRemoved \/ IframeGets
  BY <1>4 DEF IframeLoads, IframeBoots, IframeRemoved, IframeGets, receiver
<1>5. CASE PageGets \/ PageSends \/ WaitOver
  BY <1>5 DEF PageGets, PageSends, WaitOver, receiver
<1>6. ASSUME NEW post \in posts, Post(post)
      PROVE  UNCHANGED <<kind, session>> /\ recv' \in {recv, NoRequest}
  <2>1. CASE PostArrives(post) \/ PostSucceeds(post)
    BY <2>1 DEF PostArrives, PostSucceeds, receiver
  <2>2. CASE PostFails(post)
    BY <1>1, <2>2, RequestsLeft DEF PostFails, receiver
  <2> QED
    BY <1>6, <2>1, <2>2 DEF Post
<1>7. CASE UNCHANGED vars
  BY <1>7 DEF vars, receiver
<1> QED
  BY <1>2, <1>3, <1>4, <1>5, <1>6, <1>7 DEF Next, Iframe

\* A response that broke has cost the session, and no other drops frames.
LEMMA StepKeepsDropping ==
  ASSUME Typed, Dropping, [Next]_vars
  PROVE  Dropping'
<1>1. /\ recv \in Requests /\ recv.text \in Seq(Int)
      /\ session \in [next : Nat, lost : BOOLEAN, ends : Nat]
  BY RequestFields DEF Typed, ReceiverTyped, SessionTyped
<1>2. CASE Session
  <2>1. kind' = kind /\ recv.phase = "open" /\ recv.end = "no"
    BY <1>2, SessionSteps DEF Far
  <2>2. ASSUME NEW frame, Writes(frame), kind.receiver = "jsonp" => recv.text = <<>>
        PROVE  Dropping'
    <3>1. recv' = [recv EXCEPT !.text = Append(recv.text, frame), !.started = TRUE]
      BY <2>2 DEF Writes
    <3>2. recv'.phase = "open" /\ recv'.end = "no" /\ recv'.text = Append(recv.text, frame)
      BY <1>1, <2>1, <3>1 DEF Requests
    <3>3. recv.text = <<>> => Len(Append(recv.text, frame)) = 1
      OBVIOUS
    <3> QED
      BY <2>1, <2>2, <3>2, <3>3 DEF Dropping
  <2>3. CASE SessionWrites \/ SessionCloses
    BY <2>2, <2>3 DEF SessionWrites, SessionCloses
  <2>4. CASE ResponseEnds
    <3>1. recv'.phase = "open" /\ recv'.end = "ok" /\ recv'.text = recv.text
      BY <1>1, <2>1, <2>4 DEF ResponseEnds, Requests
    <3> QED
      BY <2>1, <3>1 DEF Dropping
  <2>5. CASE ResponseBreaks
    <3>1. /\ recv'.phase = "open" /\ recv'.end = "broken" /\ recv'.text = recv.text
          /\ session'.lost = TRUE
      BY <1>1, <2>1, <2>5 DEF ResponseBreaks, Requests
    <3> QED
      BY <2>1, <3>1 DEF Dropping
  <2> QED
    BY <1>2, <2>3, <2>4, <2>5 DEF Session
<1>3. CASE Quiet
  <2>1. UNCHANGED <<kind, session>>
    BY <1>3 DEF Quiet, Calm
  <2>2. CASE XhrStarts
    <3>1. recv'.phase # "closing" /\ recv'.end = recv.end /\ recv'.text = recv.text
      BY <1>1, <2>2 DEF XhrStarts, Requests
    <3> QED
      BY <2>1, <3>1 DEF Dropping
  <2>3. CASE XhrReads
    <3>1. recv'.phase = recv.phase /\ recv'.end = recv.end /\ recv'.text = <<>>
      BY <1>1, <2>3 DEF XhrReads, Unread, Requests
    <3> QED
      BY <2>1, <3>1 DEF Dropping
  <2>4. CASE EventSourceReads \/ HtmlfileReads
    <3>1. recv'.phase = "open" /\ recv'.end = recv.end /\ kind.receiver # "jsonp"
      BY <1>1, <2>4 DEF EventSourceReads, HtmlfileReads, Reading, Requests
    <3> QED
      BY <2>1, <3>1 DEF Dropping
  <2>5. CASE JsonpReads
    <3>1. recv'.phase = "finishing" /\ recv'.end = recv.end /\ recv'.text = recv.text
      BY <1>1, <2>5 DEF JsonpReads, Requests
    <3> QED
      BY <2>1, <3>1 DEF Dropping
  <2>6. CASE EventSourceEnds
    <3>1. /\ recv'.phase = "closing" /\ recv'.end = recv.end /\ recv'.text = recv.text
          /\ recv.end = "broken" \/ recv.text = <<>>
      BY <1>1, <2>6 DEF EventSourceEnds, Drained, Requests
    <3> QED
      BY <2>1, <3>1 DEF Dropping
  <2>7. CASE XhrEnds \/ HtmlfileStops \/ ScriptDone \/ EventSourceCloses
    <3>1. recv' = NewRequest
      BY <2>7 DEF XhrEnds, HtmlfileStops, ScriptDone, EventSourceCloses, NextRequest
    <3> QED
      BY <2>1, <3>1, DroppingKept
  <2> QED
    BY <1>3, <2>2, <2>3, <2>4, <2>5, <2>6, <2>7 DEF Quiet, Reads, Ends
<1> QED
  BY <1>2, <1>3, OthersKeepSession, DroppingKept

-----------------------------------------------------------------------------
(***************************************************************************)
(* The frames.                                                             *)
(***************************************************************************)

\* What the lemmas about frames under way ask for.
LEMMA WayTyped ==
  ASSUME Typed
  PROVE  /\ up \in Seq(Int) /\ lines \in Seq(Int) /\ given \in Seq(Int) /\ Len(given) \in Nat
         /\ recv \in Requests /\ recv.text \in Seq(Int) /\ Unseen \in Seq(Int)
         /\ session.next \in Nat /\ session.lost \in BOOLEAN
<1>1. <<>> \in Seq(Int)
  OBVIOUS
<1>2. recv \in Requests /\ recv.text \in Seq(Int)
  BY RequestFields DEF Typed, ReceiverTyped
<1> QED
  BY <1>1, <1>2 DEF Typed, SocketTyped, WindowsTyped, ReceiverTyped, SessionTyped, Unseen

\* Nothing of the way has changed, or there is none.
LEMMA FramingKept ==
  ASSUME Framing, UNCHANGED <<given, session>>,
         \/ facade' /\ ~ cleaned' => UNCHANGED <<facade, cleaned, up, lines, recv>>
         \/ cleaned' \/ ~ facade'
  PROVE  Framing'
BY DEF Framing, InOrder, FramesInOrder, Coming, Unseen

\* The socket gets the next frame.
LEMMA GivesNext ==
  ASSUME Typed, InOrder, session' = session, Len(given) + 1 < session.next,
         given' = Append(given, Len(given) + 1)
  PROVE  InOrder' /\ Len(given') = Len(given) + 1
<1>1. /\ given \in Seq(Int) /\ Len(given) \in Nat /\ DOMAIN given = 1 .. Len(given)
      /\ Len(given) + 1 \in Int
  BY WayTyped
<1>2. /\ Len(given') = Len(given) + 1 /\ DOMAIN given' = 1 .. Len(given) + 1
      /\ \A i \in 1 .. Len(given) : given'[i] = given[i]
      /\ given'[Len(given) + 1] = Len(given) + 1
  BY <1>1
<1>3. ASSUME NEW i \in 1 .. Len(given) + 1
      PROVE  given'[i] = i
  <2>1. CASE i = Len(given) + 1
    BY <1>2, <2>1
  <2>2. CASE i \in 1 .. Len(given)
    BY <1>1, <1>2, <2>2 DEF InOrder, FramesInOrder
  <2> QED
    BY <1>1, <2>1, <2>2
<1>4. FramesInOrder'
  BY <1>2, <1>3 DEF FramesInOrder
<1> QED
  BY <1>2, <1>4 DEF InOrder

\* A close for the socket: it is told at once, or an iframe is about to tell it.
LEMMA ClosingKeepsFraming ==
  ASSUME Typed, Framing, NEW r, NEW rest, Tell(CloseFrame, r, rest),
         UNCHANGED <<kind, facade, session>>
  PROVE  Framing'
<1>1. kind.framed \in BOOLEAN
  BY KindsKnown DEF Typed
<1>2. given' = given
  BY <1>1, Telling
<1>3. CASE kind.framed /\ facade /\ ~ cleaned
  <2>1. InStep(up, Len(given), session.next)
    BY <1>3 DEF Framing, Coming, UnderWay
  <2>2. up' = Append(up, CloseFrame)
    BY <1>3, Telling
  <2>3. UnderWay(Append(up, CloseFrame), lines', Unseen', Len(given), session.next, session.lost)
    BY <2>1, WayTyped, ToldClosed
  <2> QED
    BY <1>2, <2>2, <2>3 DEF Framing, InOrder, FramesInOrder, Coming
<1>4. CASE ~ (kind.framed /\ facade /\ ~ cleaned)
  <2>1. cleaned' \/ ~ facade'
    BY <1>1, <1>4, Telling
  <2> QED
    BY <1>2, <2>1, FramingKept
<1> QED
  BY <1>3, <1>4

\* Of one frame nothing is left.
LEMMA TailOfOne ==
  ASSUME NEW frames \in Seq(Int), frames # <<>>, Len(frames) <= 1
  PROVE  Tail(frames) = <<>>
<1>1. Tail(frames) \in Seq(Int) /\ Len(frames) \in Nat /\ Len(Tail(frames)) = Len(frames) - 1
  BY HeadTailProperties
<1>2. Len(Tail(frames)) = 0
  BY <1>1
<1> QED
  BY <1>1, <1>2, EmptySeq

\* A receiver reads on, asks again or closes.
LEMMA QuietKeepsFraming ==
  ASSUME Typed, Dropping, Framing, Quiet
  PROVE  Framing'
<1> DEFINE n == Len(given)
           next == session.next
           lost == session.lost
<1>1. /\ UNCHANGED <<session, facade, cleaned, given, up>> /\ lines = <<>>
  BY DEF Quiet, Calm, socket
<1>2. SUFFICES ASSUME facade, ~ cleaned
               PROVE  UnderWay(up, lines', Unseen', n, next, lost)
  BY <1>1 DEF Framing, InOrder, FramesInOrder, Coming
<1>3. UnderWay(up, <<>>, Unseen, n, next, lost)
  BY <1>1, <1>2 DEF Framing, Coming
<1>4. n \in Nat /\ next \in Nat /\ lost \in BOOLEAN /\ up \in Seq(Int) /\ Unseen \in Seq(Int)
      /\ recv \in Requests /\ recv.text \in Seq(Int) /\ n + Len(up) \in Nat
      /\ <<>> \in Seq(Int)
  BY WayTyped
<1> HIDE DEF n, next, lost
<1>5. CASE XhrStarts \/ EventSourceEnds
  <2>1. recv.phase # "finishing" /\ recv'.phase # "finishing" /\ recv'.text = recv.text
        /\ lines' = lines
    BY <1>4, <1>5 DEF XhrStarts, EventSourceEnds, Requests
  <2> QED
    BY <1>1, <1>3, <2>1 DEF Unseen
<1>6. CASE XhrReads
  <2>1. recv.phase = "open" /\ recv'.phase = "open" /\ recv'.text = <<>> /\ lines' = recv.text
    BY <1>4, <1>6 DEF XhrReads, Reading, Unread, Requests
  <2>2. Unseen = recv.text /\ Unseen' = <<>>
    BY <2>1 DEF Unseen
  <2>3. InHand(<<>>, Unseen, n + Len(up), next, lost) => InHand(Unseen, <<>>, n + Len(up), next, lost)
    BY <1>4, ReadAll
  <2> QED
    BY <1>3, <2>1, <2>2, <2>3 DEF UnderWay
<1>7. CASE EventSourceReads \/ HtmlfileReads \/ JsonpReads
  <2>1. /\ recv.phase = "open" /\ recv.text # <<>> /\ lines' = <<Head(recv.text)>>
    BY <1>7 DEF EventSourceReads, HtmlfileReads, JsonpReads, Reading
  <2>2. Unseen = recv.text
    BY <2>1 DEF Unseen
  <2>3. Unseen' = Tail(recv.text)
    <3>1. CASE EventSourceReads \/ HtmlfileReads
      <4>1. recv'.phase = "open" /\ recv'.text = Tail(recv.text)
        BY <1>4, <2>1, <3>1 DEF EventSourceReads, HtmlfileReads, Requests
      <4> QED
        BY <4>1 DEF Unseen
    <3>2. CASE JsonpReads
      <4>1. recv'.phase = "finishing" /\ Len(recv.text) <= 1
        BY <1>4, <3>2 DEF JsonpReads, Reading, Requests, Dropping
      <4>2. Tail(recv.text) = <<>>
        BY <1>4, <2>1, <4>1, TailOfOne
      <4> QED
        BY <4>1, <4>2 DEF Unseen
    <3> QED
      BY <1>7, <3>1, <3>2
  <2>4. InHand(<<>>, Unseen, n + Len(up), next, lost)
           => InHand(<<Head(Unseen)>>, Tail(Unseen), n + Len(up), next, lost)
    BY <1>4, <2>1, <2>2, ReadOne
  <2> QED
    BY <1>3, <2>1, <2>2, <2>3, <2>4 DEF UnderWay
<1>8. CASE XhrEnds \/ HtmlfileStops \/ ScriptDone \/ EventSourceCloses
  <2>1. recv' = NewRequest /\ lines' = lines
    BY <1>8 DEF XhrEnds, HtmlfileStops, ScriptDone, EventSourceCloses, NextRequest
  <2>2. Unseen' = <<>>
    BY <1>4, <2>1, RequestsMade DEF Unseen
  <2>3. Unseen = <<>> \/ lost
    BY <1>8 DEF XhrEnds, HtmlfileStops, ScriptDone, EventSourceCloses, Ended, Drained,
       Dropping, Unseen, lost
  <2>4. UnderWay(up, <<>>, <<>>, n, next, lost)
    BY <1>3, <1>4, <2>3, WayDropped
  <2> QED
    BY <1>1, <2>1, <2>2, <2>4
<1> QED
  BY <1>5, <1>6, <1>7, <1>8 DEF Quiet, Reads, Ends

\* A frame is dispatched.
LEMMA DispatchKeepsFraming ==
  ASSUME Typed, Places, Framing, Dispatch
  PROVE  Framing'
<1>1. /\ kind.framed \in BOOLEAN /\ lines # <<>> /\ Tell(Head(lines), recv, Tail(lines))
      /\ UNCHANGED <<session, facade>>
  BY KindsKnown DEF Typed, Dispatch, Calm
<1>2. CASE kind.framed
  <2>1. /\ up' = Append(up, Head(lines)) /\ recv' = recv /\ lines' = Tail(lines)
        /\ UNCHANGED <<cleaned, given>>
    BY <1>1, <1>2 DEF Tell, socket
  <2>2. Unseen' = Unseen
    BY <2>1 DEF Unseen
  <2>3. ASSUME facade, ~ cleaned
        PROVE  UnderWay(Append(up, Head(lines)), Tail(lines), Unseen,
                        Len(given), session.next, session.lost)
    BY <1>1, <2>3, WayTyped, Told DEF Framing, Coming
  <2> QED
    BY <1>1, <2>1, <2>2, <2>3 DEF Framing, InOrder, FramesInOrder, Coming
<1>3. CASE ~ kind.framed
  <2>1. facade /\ ~ cleaned /\ up = <<>>
    BY <1>1, <1>3 DEF Places
  <2>2. UnderWay(<<>>, lines, Unseen, Len(given), session.next, session.lost)
    BY <2>1 DEF Framing, Coming
  <2>3. Len(given) + Len(<<>>) = Len(given)
    BY WayTyped
  <2>4. InHand(lines, Unseen, Len(given), session.next, session.lost)
    BY <2>2, <2>3, InStepNone DEF UnderWay
  <2>5. /\ Head(lines) = CloseFrame
             \/ (Head(lines) = Len(given) + 1 /\ Len(given) + 1 < session.next)
        /\ Head(lines) # CloseFrame =>
             InHand(Tail(lines), Unseen, Len(given) + 1, session.next, session.lost)
    BY <1>1, <2>4, WayTyped, HandedOver
  <2>6. CASE Head(lines) = CloseFrame
    <3>1. cleaned' /\ given' = given
      BY <1>1, <1>3, <2>6 DEF Tell
    <3> QED
      BY <1>1, <3>1, FramingKept
  <2>7. CASE Head(lines) # CloseFrame
    <3>1. /\ given' = Append(given, Len(given) + 1) /\ recv' = recv /\ lines' = Tail(lines)
          /\ up' = <<>>
      BY <1>1, <1>3, <2>1, <2>5, <2>7 DEF Tell
    <3>2. InOrder' /\ Len(given') = Len(given) + 1
      BY <1>1, <2>5, <2>7, <3>1, GivesNext DEF Framing
    <3>3. Len(given) + 1 + Len(<<>>) = Len(given) + 1
      BY WayTyped
    <3>4. UnderWay(<<>>, Tail(lines), Unseen, Len(given) + 1, session.next, session.lost)
      BY <2>5, <2>7, <3>3, InStepNone DEF UnderWay
    <3>5. Unseen' = Unseen
      BY <3>1 DEF Unseen
    <3> QED
      BY <1>1, <3>1, <3>2, <3>4, <3>5 DEF Framing, Coming
  <2> QED
    BY <2>6, <2>7
<1> QED
  BY <1>1, <1>2, <1>3

\* The page gets a message of an iframe.
LEMMA PageGetsKeepsFraming ==
  ASSUME Typed, Greeting, Framing, PageGets
  PROVE  Framing'
<1>1. /\ up # <<>> /\ ~ cleaned /\ up' = Tail(up)
      /\ UNCHANGED <<facade, recv, lines, session>>
  BY DEF PageGets, receiver
<1>2. facade \in BOOLEAN
  BY DEF Typed, WindowsTyped
<1>3. Unseen' = Unseen
  BY <1>1 DEF Unseen
<1>4. CASE ~ facade
  <2>1. Head(up) = Hello
    BY <1>1, <1>4 DEF Greeting
  <2>2. given' = given
    BY <2>1 DEF PageGets, socket, Hello, CloseFrame
  <2> QED
    BY <1>1, <1>4, <2>2, FramingKept
<1>5. CASE facade
  <2>1. UnderWay(up, lines, Unseen, Len(given), session.next, session.lost)
    BY <1>1, <1>5 DEF Framing, Coming
  <2>2. /\ Head(up) = CloseFrame
             \/ (Head(up) = Len(given) + 1 /\ Len(given) + 1 < session.next)
        /\ Head(up) # CloseFrame =>
             UnderWay(Tail(up), lines, Unseen, Len(given) + 1, session.next, session.lost)
    BY <1>1, <2>1, WayTyped, GivenOne
  <2>3. CASE Head(up) = CloseFrame
    <3>1. cleaned' /\ given' = given
      BY <2>3 DEF PageGets, CloseFrame, Hello
    <3> QED
      BY <1>1, <3>1, FramingKept
  <2>4. CASE Head(up) # CloseFrame
    <3>1. Head(up) # Hello /\ Head(up) = Len(given) + 1
      BY <2>2, <2>4, WayTyped DEF Hello
    <3>2. given' = Append(given, Len(given) + 1)
      BY <2>4, <3>1 DEF PageGets
    <3>3. InOrder' /\ Len(given') = Len(given) + 1
      BY <1>1, <2>2, <2>4, <3>2, GivesNext DEF Framing
    <3> QED
      BY <1>1, <1>3, <2>2, <2>4, <3>3 DEF Framing, Coming
  <2> QED
    BY <2>3, <2>4
<1> QED
  BY <1>2, <1>4, <1>5

\* What the session writes or breaks off.
LEMMA SessionKeepsFraming ==
  ASSUME Typed, Framing, Session
  PROVE  Framing'
<1> DEFINE n == Len(given)
           next == session.next
           lost == session.lost
<1>1. /\ UNCHANGED <<facade, cleaned, given, up, lines>> /\ recv.phase = "open"
  BY SessionSteps DEF Far, socket, windows
<1>2. /\ n \in Nat /\ next \in Nat /\ lost \in BOOLEAN /\ up \in Seq(Int)
      /\ lines \in Seq(Int) /\ recv \in Requests /\ recv.text \in Seq(Int)
      /\ session \in [next : Nat, lost : BOOLEAN, ends : Nat]
  BY WayTyped DEF Typed, SessionTyped
<1>3. Unseen = recv.text
  BY <1>1 DEF Unseen
<1>4. facade /\ ~ cleaned => UnderWay(up, lines, recv.text, n, next, lost)
  BY <1>3 DEF Framing, Coming
<1>5. n < next /\ next <= MaxFrames + 1
  BY DEF Framing, InOrder
<1> HIDE DEF n, next, lost
<1>6. /\ recv'.phase = "open"
      /\ \/ ~ lost /\ next <= MaxFrames /\ recv'.text = Append(recv.text, next)
            /\ session'.next = next + 1 /\ session'.lost = lost
         \/ recv'.text = Append(recv.text, CloseFrame) /\ session'.next = next /\ session'.lost
         \/ recv'.text = recv.text /\ session'.next = next /\ session'.lost \in {lost, TRUE}
  <2>1. CASE SessionWrites
    BY <1>1, <1>2, <2>1 DEF SessionWrites, Writes, Requests, next, lost
  <2>2. CASE SessionCloses
    BY <1>1, <1>2, <2>2 DEF SessionCloses, Writes, Requests, next
  <2>3. CASE ResponseEnds
    BY <1>1, <1>2, <2>3 DEF ResponseEnds, Requests, next, lost
  <2>4. CASE ResponseBreaks
    BY <1>1, <1>2, <2>4 DEF ResponseBreaks, Requests, next
  <2> QED
    BY <2>1, <2>2, <2>3, <2>4 DEF Session
<1>7. session'.lost \in BOOLEAN
  BY SessionKeepsTypes DEF Typed, SessionTyped
<1>8. Unseen' = recv'.text
  BY <1>6 DEF Unseen
<1>9. InOrder'
  <2>1. n < session'.next /\ session'.next <= MaxFrames + 1
    <3>1. session'.next = next \/ (next <= MaxFrames /\ session'.next = next + 1)
      BY <1>6
    <3>2. n < next + 1 /\ (next <= MaxFrames => next + 1 <= MaxFrames + 1)
      BY <1>2, <1>5, BoundsAssumption
    <3> QED
      BY <1>5, <3>1, <3>2
  <2> QED
    BY <1>1, <2>1 DEF Framing, InOrder, FramesInOrder, n
<1>10. ASSUME facade, ~ cleaned
       PROVE  UnderWay(up, lines, recv'.text, n, session'.next, session'.lost)
  <2>1. UnderWay(up, lines, recv.text, n, next, lost)
    BY <1>4, <1>10
  <2>2. /\ ~ lost => UnderWay(up, lines, Append(recv.text, next), n, next + 1, lost)
        /\ UnderWay(up, lines, Append(recv.text, CloseFrame), n, next, TRUE)
    BY <1>2, <2>1, WayWritten
  <2>3. UnderWay(up, lines, recv.text, n, next, TRUE)
    BY <1>2, <2>1, WayDropped
  <2>4. session'.lost => session'.lost = TRUE
    BY <1>7
  <2> QED
    BY <1>6, <2>1, <2>2, <2>3, <2>4
<1> QED
  BY <1>1, <1>8, <1>9, <1>10 DEF Framing, Coming, n

\* The first message that waits for the iframe is the next one after those it took.
LEMMA DownNext ==
  ASSUME Typed, Sending, facade, down # <<>>
  PROVE  /\ Head(down) \in Int /\ Head(down) = sent - Len(down) + 1 /\ Head(down) >= 1
         /\ Head(down) # Hello
<1>1. down \in Seq(Int) /\ buffer \in Seq(Int) /\ sent \in Int
  BY BoundsAssumption DEF Typed, WindowsTyped, SenderTyped
<1>2. Len(down) \in Nat /\ Len(buffer) \in Nat /\ 1 \in DOMAIN down /\ Head(down) = down[1]
  BY <1>1
<1>3. down[1] = sent - Len(down) + 1 /\ sent - Len(down) - Len(buffer) >= 0
  BY <1>1, <1>2 DEF Sending, Handed, Numbered
<1> QED
  BY <1>1, <1>2, <1>3 DEF Hello

\* Every step keeps the frames in their order.
LEMMA StepKeepsFraming ==
  ASSUME Typed, Places, Greeting, Dropping, Framing, Sending, [Next]_vars
  PROVE  Framing'
<1>1. kind.framed \in BOOLEAN /\ facade \in BOOLEAN
  BY KindsKnown DEF Typed, SocketTyped, WindowsTyped
<1>2. CASE Receive
  <2>1. CASE Quiet
    BY <2>1, QuietKeepsFraming
  <2>2. CASE Failing
    BY <2>2, ClosingKeepsFraming DEF Failing, Calm
  <2>3. CASE Dispatch
    BY <2>3, DispatchKeepsFraming
  <2> QED
    BY <1>2, <2>1, <2>2, <2>3, ReceiverSteps
<1>3. CASE SocketCleansUp \/ IframeTimesOut
  <2>1. cleaned' /\ UNCHANGED <<given, session>>
    BY <1>3 DEF SocketCleansUp, IframeTimesOut, CleanUp
  <2> QED
    BY <2>1, FramingKept
<1>4. CASE IframeLoads
  BY <1>4, FramingKept DEF IframeLoads, socket, receiver
<1>5. CASE IframeBoots
  BY <1>1, <1>5, FramingKept DEF IframeBoots, Greeting, socket
<1>6. CASE IframeRemoved
  BY <1>6, FramingKept DEF IframeRemoved, Places, socket
<1>7. CASE IframeGets
  <2>1. UNCHANGED <<cleaned, given, up, lines, session>> /\ down # <<>>
    BY <1>7 DEF IframeGets, socket
  <2>2. CASE facade
    BY <1>7, <2>1, <2>2, DownNext, FramingKept DEF IframeGets
  <2>3. CASE ~ facade
    <3>1. /\ up = <<>> /\ lines = <<>> /\ given = <<>> /\ session.next = 1
          /\ Head(down) = Hello
      BY <2>1, <2>3 DEF Greeting
    <3>2. recv' = NewRequest
      BY <1>7, <3>1 DEF IframeGets
    <3>3. Unseen' = <<>>
      BY <3>2, RequestsMade, WayTyped DEF Unseen
    <3>4. UnderWay(<<>>, <<>>, <<>>, 0, 1, session.lost)
      <4>1. 1 = 0 + Len(<<>>) + Len(<<>>) + Len(<<>>) + 1
        OBVIOUS
      <4> QED
        BY <4>1, InStepNone DEF UnderWay, InHand, NotRead
    <3>5. Len(<<>>) = 0
      OBVIOUS
    <3> QED
      BY <2>1, <3>1, <3>3, <3>4, <3>5 DEF Framing, InOrder, FramesInOrder, Coming
  <2> QED
    BY <1>1, <2>2, <2>3
<1>8. CASE PageSends \/ WaitOver
  BY <1>8, FramingKept DEF PageSends, WaitOver, socket, receiver, windows
<1>9. ASSUME NEW post \in posts, Post(post)
      PROVE  Framing'
  <2>1. CASE PostArrives(post) \/ PostSucceeds(post)
    BY <2>1, FramingKept DEF PostArrives, PostSucceeds, socket, receiver, windows
  <2>2. CASE PostFails(post)
    <3>1. CASE FailureUnseen
      BY <2>2, <3>1, FramingKept DEF PostFails, socket, receiver
    <3>2. CASE ~ FailureUnseen
      <4>1. Tell(CloseFrame, recv, lines) /\ UNCHANGED <<kind, facade, session>>
        BY <2>2, <3>2 DEF PostFails
      <4> QED
        BY <4>1, ClosingKeepsFraming
    <3> QED
      BY <3>1, <3>2
  <2> QED
    BY <1>9, <2>1, <2>2 DEF Post
<1>10. CASE UNCHANGED vars
  BY <1>10, FramingKept DEF vars, socket, receiver, windows
<1> QED
  BY <1>2, <1>3, <1>4, <1>5, <1>6, <1>7, <1>8, <1>9, <1>10, SessionKeepsFraming,
     PageGetsKeepsFraming DEF Next, Iframe

-----------------------------------------------------------------------------
(***************************************************************************)
(* The messages.                                                           *)
(***************************************************************************)

\* Consecutive messages stay so when the next one is added at the end.
LEMMA NumberedAppend ==
  ASSUME NEW messages \in Seq(Int), NEW last \in Int, Numbered(messages, last)
  PROVE  Numbered(Append(messages, last + 1), last + 1)
<1> DEFINE more == Append(messages, last + 1)
<1>1. /\ DOMAIN messages = 1 .. Len(messages) /\ Len(messages) \in Nat
      /\ DOMAIN more = 1 .. Len(messages) + 1 /\ Len(more) = Len(messages) + 1
      /\ \A i \in 1 .. Len(messages) : more[i] = messages[i]
      /\ more[Len(messages) + 1] = last + 1
  OBVIOUS
<1> HIDE DEF more
<1>2. ASSUME NEW i \in 1 .. Len(messages) + 1
      PROVE  more[i] = (last + 1) - Len(more) + i
  <2>1. CASE i \in 1 .. Len(messages)
    <3>1. more[i] = last - Len(messages) + i
      BY <1>1, <2>1 DEF Numbered
    <3> QED
      BY <1>1, <3>1
  <2>2. CASE i = Len(messages) + 1
    BY <1>1, <2>2
  <2> QED
    BY <1>1, <2>1, <2>2
<1> QED
  BY <1>1, <1>2 DEF Numbered, more

\* They stay so when the first one is taken away.
LEMMA NumberedTail ==
  ASSUME NEW messages \in Seq(Int), NEW last \in Int, Numbered(messages, last),
         messages # <<>>
  PROVE  Numbered(Tail(messages), last)
<1> DEFINE rest == Tail(messages)
<1>1. /\ DOMAIN messages = 1 .. Len(messages) /\ Len(messages) \in Nat
      /\ DOMAIN rest = 1 .. Len(messages) - 1 /\ Len(rest) = Len(messages) - 1
      /\ \A i \in 1 .. Len(messages) - 1 : rest[i] = messages[i + 1]
  OBVIOUS
<1> HIDE DEF rest
<1>2. ASSUME NEW i \in 1 .. Len(messages) - 1
      PROVE  rest[i] = last - Len(rest) + i
  <2>1. i + 1 \in 1 .. Len(messages)
    BY <1>1
  <2>2. messages[i + 1] = last - Len(messages) + (i + 1)
    BY <1>1, <2>1 DEF Numbered
  <2> QED
    BY <1>1, <2>2
<1> QED
  BY <1>1, <1>2 DEF Numbered, rest

\* The values of numbered messages.
LEMMA NumberedValues ==
  ASSUME NEW messages \in Seq(Int), NEW last \in Int, Numbered(messages, last)
  PROVE  {messages[i] : i \in DOMAIN messages} = (last - Len(messages) + 1) .. last
<1>1. DOMAIN messages = 1 .. Len(messages) /\ Len(messages) \in Nat
  OBVIOUS
<1>2. \A i \in 1 .. Len(messages) : messages[i] = last - Len(messages) + i
  BY <1>1 DEF Numbered
<1>3. ASSUME NEW m \in (last - Len(messages) + 1) .. last
      PROVE  m \in {messages[i] : i \in DOMAIN messages}
  <2>1. /\ m - (last - Len(messages)) \in 1 .. Len(messages)
        /\ last - Len(messages) + (m - (last - Len(messages))) = m
    BY <1>1
  <2>2. messages[m - (last - Len(messages))] = m
    BY <1>2, <2>1
  <2> QED
    BY <1>1, <2>1, <2>2
<1>4. ASSUME NEW i \in 1 .. Len(messages)
      PROVE  messages[i] \in (last - Len(messages) + 1) .. last
  BY <1>1, <1>2
<1> QED
  BY <1>1, <1>3, <1>4

\* Handed of the state after a step, up to a number that is known before it.
HandedThen(last) ==
    /\ Len(buffer') <= last /\ Numbered(buffer', last)
    /\ arrived' \subseteq 1 .. last - Len(buffer')
    /\ \A p \in posts' : /\ p.payload # <<>> /\ Len(p.payload) <= last - Len(buffer')
                         /\ Numbered(p.payload, last - Len(buffer'))
                         /\ ~ p.there => arrived' \subseteq 1 .. last - Len(buffer') - Len(p.payload)
\* Sending holds after a step that leaves one request and keeps the numbers.
LEMMA SendingThen ==
  ASSUME OneRequest', facade' => Numbered(down', sent') /\ HandedThen(sent' - Len(down'))
  PROVE  Sending'
BY DEF Sending, Handed, HandedThen

\* send_schedule, when no request is under way: all there are go into one.
LEMMA SchedulingKeeps ==
  ASSUME NEW messages \in Seq(Int), NEW last \in Int, Schedule(messages), posts = {},
         Len(messages) <= last, Numbered(messages, last),
         arrived \subseteq 1 .. last - Len(messages), arrived' = arrived
  PROVE  /\ OneRequest' /\ HandedThen(last) /\ buffer' = <<>>
         /\ messages = <<>> => posts' = {}
         /\ messages # <<>> => posts' = {[payload |-> messages, there |-> FALSE]}
<1>1. Len(<<>>) = 0 /\ DOMAIN <<>> = {} /\ Len(messages) \in Nat
  OBVIOUS
<1>2. Numbered(<<>>, last) /\ last - 0 = last /\ 0 <= last
  BY <1>1 DEF Numbered
<1>3. CASE messages = <<>>
  <2>1. buffer' = <<>> /\ stop' = "null" /\ posts' = {}
    BY <1>3 DEF Schedule
  <2> QED
    BY <1>1, <1>2, <1>3, <2>1 DEF OneRequest, HandedThen
<1>4. CASE messages # <<>>
  <2> DEFINE p == [payload |-> messages, there |-> FALSE]
  <2>1. buffer' = <<>> /\ stop' = "request" /\ posts' = {p}
    BY <1>4 DEF Schedule, Posted
  <2>2. p.payload = messages /\ p.there = FALSE
    OBVIOUS
  <2> HIDE DEF p
  <2>3. OneRequest'
    BY <2>1 DEF OneRequest
  <2>4. last - Len(buffer') = last
    BY <1>1, <1>2, <2>1
  <2>5. Len(buffer') <= last /\ Numbered(buffer', last)
    BY <1>1, <1>2, <2>1
  <2>6. arrived' \subseteq 1 .. last
    BY <1>1
  <2>7. /\ p.payload # <<>> /\ Len(p.payload) <= last /\ Numbered(p.payload, last)
        /\ arrived' \subseteq 1 .. last - Len(p.payload)
    BY <1>4, <2>2
  <2>8. HandedThen(last)
    BY <2>1, <2>4, <2>5, <2>6, <2>7 DEF HandedThen
  <2> QED
    BY <1>4, <2>1, <2>3, <2>8 DEF p
<1> QED
  BY <1>3, <1>4

\* doSend: the next message goes with those put off, or waits with them.
LEMMA DoSendKeeps ==
  ASSUME SendingTyped, OneRequest, NEW last \in Int, Handed(last), DoSend(last + 1),
         arrived' = arrived
  PROVE  /\ OneRequest' /\ HandedThen(last + 1)
         /\ stop = "null" => /\ posts = {} /\ buffer' = <<>>
                             /\ posts' = {[payload |-> Append(buffer, last + 1), there |-> FALSE]}
         /\ stop # "null" => /\ buffer' = Append(buffer, last + 1)
                             /\ UNCHANGED <<stop, posts>>
<1> DEFINE more == Append(buffer, last + 1)
<1>1. /\ buffer \in Seq(Int) /\ more \in Seq(Int) /\ Len(more) = Len(buffer) + 1
      /\ Len(buffer) \in Nat /\ more # <<>>
  BY DEF SendingTyped
<1>2. Numbered(more, last + 1)
  BY <1>1, NumberedAppend DEF Handed
<1>3. last + 1 - Len(more) = last - Len(buffer) /\ Len(more) <= last + 1
  BY <1>1 DEF Handed
<1>4. CASE stop = "null"
  <2>1. Schedule(more) /\ posts = {}
    BY <1>4 DEF DoSend, MaySend, OneRequest
  <2> HIDE DEF more
  <2>2. arrived \subseteq 1 .. last + 1 - Len(more)
    BY <1>3 DEF Handed
  <2>3. /\ OneRequest' /\ HandedThen(last + 1) /\ buffer' = <<>>
        /\ posts' = {[payload |-> more, there |-> FALSE]}
    BY <1>1, <1>2, <1>3, <2>1, <2>2, SchedulingKeeps
  <2> QED
    BY <1>4, <2>1, <2>3 DEF more
<1>5. CASE stop # "null"
  <2>1. buffer' = more /\ UNCHANGED <<stop, posts>>
    BY <1>5 DEF DoSend, MaySend
  <2> HIDE DEF more
  <2>2. OneRequest'
    BY <2>1 DEF OneRequest
  <2>3. HandedThen(last + 1)
    BY <1>2, <1>3, <2>1 DEF Handed, HandedThen
  <2> QED
    BY <1>5, <2>1, <2>2, <2>3 DEF more
<1> QED
  BY <1>4, <1>5

\* A message from an iframe is no greeting once the facade was made.
LEMMA UpNext ==
  ASSUME Typed, Framing, facade, ~ cleaned, up # <<>>
  PROVE  Head(up) # Hello
<1>1. UnderWay(up, lines, Unseen, Len(given), session.next, session.lost)
  BY DEF Framing, Coming
<1>2. Head(up) = CloseFrame \/ Head(up) = Len(given) + 1
  BY <1>1, WayTyped, GivenOne
<1> QED
  BY <1>2, WayTyped DEF CloseFrame, Hello

\* Nothing on the sender's side has changed.
LEMMA SendingKept ==
  ASSUME Sending, UNCHANGED <<facade, down, buffer, stop, posts, sent, arrived>>
  PROVE  Sending'
BY DEF Sending, OneRequest, Handed, Numbered

\* The types that the lemmas about messages ask for.
LEMMA SenderTypes ==
  ASSUME Typed
  PROVE  /\ SendingTyped /\ buffer \in Seq(Int) /\ Len(buffer) \in Nat
         /\ down \in Seq(Int) /\ Len(down) \in Nat /\ sent \in Nat
         /\ sent - Len(down) \in Int /\ sent' \in 0 .. MaxSends => sent' \in Nat
         /\ \A p \in posts : p.payload \in Seq(Int) /\ Len(p.payload) \in Nat
<1>1. \A p \in Sendings : p.payload \in Seq(Int) /\ Len(p.payload) \in Nat
  BY DEF Sendings
<1>2. /\ buffer \in Seq(Int) /\ down \in Seq(Int) /\ sent \in Nat /\ SendingTyped
      /\ posts \in SUBSET Sendings
  BY BoundsAssumption DEF Typed, SenderTyped, WindowsTyped, SendingTyped
<1> QED
  BY <1>1, <1>2, BoundsAssumption

\* The page sends.
LEMMA PageSendsKeepsSending ==
  ASSUME Typed, Places, Greeting, Sending, PageSends
  PROVE  Sending'
<1>1. /\ facade /\ facade' = facade /\ sent' = sent + 1 /\ arrived' = arrived
  BY DEF PageSends, Greeting, Typed, WindowsTyped
<1>2. kind.framed \in BOOLEAN
  BY KindsKnown DEF Typed
<1>3. Numbered(down, sent) /\ Handed(sent - Len(down)) /\ OneRequest
  BY <1>1 DEF Sending
<1>4. CASE kind.framed
  <2>1. down' = Append(down, sent + 1) /\ UNCHANGED <<buffer, stop, posts>>
    BY <1>1, <1>4 DEF PageSends, sender
  <2>2. Numbered(Append(down, sent + 1), sent + 1)
    BY <1>3, SenderTypes, NumberedAppend
  <2>3. (sent + 1) - Len(Append(down, sent + 1)) = sent - Len(down)
    BY SenderTypes
  <2>4. sent' - Len(down') = sent - Len(down) /\ Numbered(down', sent')
    BY <1>1, <2>1, <2>2, <2>3
  <2>5. HandedThen(sent - Len(down)) /\ OneRequest'
    BY <1>1, <1>3, <2>1 DEF Handed, HandedThen, OneRequest
  <2> QED
    BY <2>4, <2>5, SendingThen
<1>5. CASE ~ kind.framed
  <2>1. down = <<>> /\ down' = <<>> /\ DoSend(sent + 1)
    BY <1>1, <1>5 DEF PageSends, Places
  <2>2. Len(<<>>) = 0 /\ sent - 0 = sent /\ sent + 1 - 0 = sent + 1 /\ DOMAIN <<>> = {}
    BY SenderTypes
  <2>3. Handed(sent) /\ sent \in Int /\ SendingTyped
    BY <1>3, <2>1, <2>2, SenderTypes
  <2>4. OneRequest' /\ HandedThen(sent + 1)
    BY <1>1, <1>3, <2>1, <2>3, DoSendKeeps
  <2>5. Numbered(down', sent') /\ sent' - Len(down') = sent + 1
    BY <1>1, <2>1, <2>2 DEF Numbered
  <2> QED
    BY <2>4, <2>5, SendingThen
<1> QED
  BY <1>2, <1>4, <1>5

\* The iframe gets a message: the greeting, and then what the page sends.
LEMMA IframeGetsKeepsSending ==
  ASSUME Typed, Greeting, Sending, IframeGets
  PROVE  Sending'
<1>1. down # <<>> /\ down' = Tail(down) /\ sent' = sent /\ arrived' = arrived
  BY DEF IframeGets
<1>2. facade \in BOOLEAN /\ Len(Tail(down)) = Len(down) - 1
  BY <1>1, SenderTypes DEF Typed, WindowsTyped
<1>3. CASE facade
  <2>1. Numbered(down, sent) /\ Handed(sent - Len(down)) /\ OneRequest
    BY <1>3 DEF Sending
  <2>2. Head(down) = sent - Len(down) + 1 /\ DoSend(Head(down))
    BY <1>1, <1>3, DownNext DEF IframeGets
  <2>3. OneRequest' /\ HandedThen(sent - Len(down) + 1)
    BY <1>1, <2>1, <2>2, SenderTypes, DoSendKeeps
  <2>4. Numbered(Tail(down), sent)
    BY <1>1, <2>1, SenderTypes, NumberedTail
  <2>5. sent' - Len(down') = sent - Len(down) + 1
    BY <1>1, <1>2, SenderTypes
  <2> QED
    BY <1>1, <2>3, <2>4, <2>5, SendingThen
<1>4. CASE ~ facade
  <2>1. /\ down = <<Hello>> /\ sent = 0 /\ buffer = <<>> /\ arrived = {} /\ posts = {}
        /\ OneRequest
    BY <1>1, <1>4 DEF Greeting, Sending, OneRequest
  <2>2. Head(<<Hello>>) = Hello /\ Tail(<<Hello>>) = <<>> /\ Len(<<>>) = 0 /\ DOMAIN <<>> = {}
    OBVIOUS
  <2>3. Head(down) = Hello /\ down' = <<>>
    BY <1>1, <2>1, <2>2, Zenon
  <2>4. UNCHANGED <<buffer, stop, posts>>
    BY <2>3 DEF IframeGets, sender
  <2>5. HandedThen(0) /\ Numbered(<<>>, 0) /\ OneRequest'
    <3>1. Len(buffer') <= 0 /\ buffer' = <<>> /\ posts' = {} /\ arrived' = {}
      BY <1>1, <2>1, <2>2, <2>4
    <3>2. Numbered(<<>>, 0)
      BY <2>2 DEF Numbered
    <3>3. OneRequest'
      BY <3>1 DEF OneRequest
    <3>4. Numbered(buffer', 0)
      BY <3>1, <3>2, Zenon
    <3>5. HandedThen(0)
      BY <3>1, <3>4, Zenon DEF HandedThen
    <3> QED
      BY <3>2, <3>3, <3>5
  <2>6. sent' - Len(down') = 0
    <3> DEFINE n == Len(down')
    <3>1. sent' = 0
      BY <1>1, <2>1
    <3>2. n = 0
      BY <2>2, <2>3, Zenon
    <3> HIDE DEF n
    <3>3. sent' - n = 0
      BY <3>1, <3>2
    <3> QED
      BY <3>3 DEF n
  <2> QED
    BY <1>1, <2>1, <2>3, <2>5, <2>6, SendingThen
<1> QED
  BY <1>2, <1>3, <1>4

\* What was put off goes on when the time has passed.
LEMMA WaitOverKeepsSending ==
  ASSUME Typed, Greeting, Sending, WaitOver
  PROVE  Sending'
<1>1. /\ Schedule(buffer) /\ posts = {} /\ facade
      /\ UNCHANGED <<facade, down, sent, arrived>>
  BY DEF WaitOver, LeftOver, Sending, OneRequest, Greeting, windows, Typed, WindowsTyped
<1>2. Numbered(down, sent) /\ Handed(sent - Len(down))
  BY <1>1 DEF Sending
<1>3. /\ Len(buffer) <= sent - Len(down) /\ Numbered(buffer, sent - Len(down))
      /\ arrived \subseteq 1 .. (sent - Len(down)) - Len(buffer)
  BY <1>2 DEF Handed
<1>4. OneRequest' /\ HandedThen(sent - Len(down))
  BY <1>1, <1>3, SenderTypes, SchedulingKeeps
<1> QED
  BY <1>1, <1>2, <1>4, SendingThen

\* A request comes to the server.
LEMMA ArrivingKeepsSending ==
  ASSUME Typed, Greeting, Sending, NEW post \in posts, PostArrives(post)
  PROVE  /\ Sending'
         /\ posts = {post} /\ facade /\ Taken \in Nat
         /\ arrived \subseteq 1 .. Taken - Len(post.payload)
         /\ Len(post.payload) \in Nat /\ Len(post.payload) >= 1 /\ Len(post.payload) <= Taken
         /\ {post.payload[i] : i \in DOMAIN post.payload} = (Taken - Len(post.payload) + 1) .. Taken
         /\ arrived' = arrived \cup ((Taken - Len(post.payload) + 1) .. Taken)
         /\ posts' = {[post EXCEPT !.there = TRUE]}
         /\ UNCHANGED <<kind, facade, cleaned, given, down, sent, buffer, stop>>
<1> DEFINE last == sent - Len(down)
           gone == [post EXCEPT !.there = TRUE]
<1>1. /\ ~ post.there /\ posts' = (posts \ {post}) \cup {gone}
      /\ arrived' = arrived \cup {post.payload[i] : i \in DOMAIN post.payload}
      /\ UNCHANGED <<kind, facade, cleaned, given, down, sent, buffer, stop>>
  BY DEF PostArrives, windows, socket
<1>2. posts = {post} /\ posts' = {gone}
  BY <1>1 DEF Sending, OneRequest
<1>3. stop = "request" /\ facade
  BY DEF Sending, OneRequest, Greeting, Typed, WindowsTyped
<1>4. Numbered(down, sent) /\ Handed(last)
  BY <1>3 DEF Sending
<1>5. /\ last \in Int /\ Len(buffer) \in Nat /\ Taken = last - Len(buffer)
      /\ post.payload \in Seq(Int) /\ Len(post.payload) \in Nat
  BY SenderTypes DEF Taken
<1>6. /\ post.payload # <<>> /\ Len(post.payload) <= Taken /\ Numbered(post.payload, Taken)
      /\ Numbered(buffer, last) /\ Len(buffer) <= last
      /\ arrived \subseteq 1 .. Taken - Len(post.payload)
  BY <1>1, <1>4, <1>5 DEF Handed
<1>7. Taken \in Nat /\ Len(post.payload) >= 1
  BY <1>5, <1>6
<1>8. {post.payload[i] : i \in DOMAIN post.payload} = (Taken - Len(post.payload) + 1) .. Taken
  BY <1>5, <1>6, <1>7, NumberedValues
<1>9. arrived' = arrived \cup ((Taken - Len(post.payload) + 1) .. Taken)
  BY <1>1, <1>8
<1>10. arrived' \subseteq 1 .. Taken
  <2>1. 1 .. Taken - Len(post.payload) \subseteq 1 .. Taken
    BY <1>5, <1>7
  <2>2. (Taken - Len(post.payload) + 1) .. Taken \subseteq 1 .. Taken
    BY <1>5, <1>6, <1>7
  <2> QED
    BY <1>6, <1>9, <2>1, <2>2
<1>11. gone.payload = post.payload /\ gone.there = TRUE
  BY SenderTypes DEF Sendings, SendingTyped
<1> HIDE DEF gone, last
<1>12. HandedThen(last)
  <2>1. UNCHANGED buffer
    BY <1>1
  <2>2. Len(buffer') <= last /\ Numbered(buffer', last) /\ last - Len(buffer') = Taken
    BY <1>5, <1>6, <2>1
  <2> QED
    BY <1>2, <1>6, <1>10, <1>11, <2>2 DEF HandedThen
<1>13. OneRequest'
  BY <1>1, <1>2, <1>3 DEF OneRequest
<1>14. Sending'
  BY <1>1, <1>4, <1>12, <1>13, SendingThen DEF last
<1> QED
  BY <1>1, <1>2, <1>3, <1>5, <1>6, <1>7, <1>8, <1>9, <1>14 DEF gone

\* The sender without a request, and perhaps without what it had put off.
LEMMA SendingWithout ==
  ASSUME Typed, Sending, posts' = {}, buffer' \in {buffer, <<>>},
         UNCHANGED <<facade, down, sent, arrived>>
  PROVE  Sending'
<1>1. OneRequest'
  BY DEF OneRequest
<1>2. ASSUME facade
      PROVE  HandedThen(sent - Len(down)) /\ Numbered(down, sent)
  <2> DEFINE last == sent - Len(down)
  <2>1. /\ Len(buffer) <= last /\ Numbered(buffer, last)
        /\ arrived \subseteq 1 .. last - Len(buffer) /\ Numbered(down, sent)
    BY <1>2 DEF Sending, Handed
  <2>2. last \in Int /\ Len(buffer) \in Nat /\ Len(<<>>) = 0 /\ DOMAIN <<>> = {}
    BY SenderTypes
  <2> HIDE DEF last
  <2>3. Numbered(<<>>, last)
    BY <2>2 DEF Numbered
  <2>4. 1 .. last - Len(buffer) \subseteq 1 .. last - 0
    BY <2>2
  <2>5. CASE buffer' = buffer
    BY <2>1, <2>5 DEF HandedThen, last
  <2>6. CASE buffer' = <<>>
    <3>1. Len(buffer') = 0 /\ 0 <= last /\ arrived' \subseteq 1 .. last - 0
      BY <2>1, <2>2, <2>4, <2>6
    <3> QED
      BY <2>1, <2>3, <2>6, <3>1 DEF HandedThen, last
  <2> QED
    BY <2>5, <2>6
<1> QED
  BY <1>1, <1>2, SendingThen

\* Every step keeps the messages numbered.
LEMMA StepKeepsSending ==
  ASSUME Typed, Places, Greeting, Framing, Sending, [Next]_vars
  PROVE  Sending'
<1>1. CASE Receive \/ Session
  <2>1. UNCHANGED <<facade, down, buffer, stop, posts, sent, arrived>>
    <3>1. CASE Receive
      BY <3>1, ReceiverSteps DEF Quiet, Failing, Dispatch, Calm, sender
    <3>2. CASE Session
      BY <3>2, SessionSteps DEF Far, windows, sender
    <3> QED
      BY <1>1, <3>1, <3>2
  <2> QED
    BY <2>1, SendingKept
<1>2. CASE SocketCleansUp \/ IframeTimesOut \/ IframeLoads \/ IframeBoots
  BY <1>2, SendingKept DEF SocketCleansUp, IframeTimesOut, IframeLoads, IframeBoots, sender
<1>3. CASE IframeRemoved
  BY <1>3, SendingWithout DEF IframeRemoved
<1>4. CASE PageGets
  <2>1. /\ UNCHANGED <<facade, buffer, stop, posts, sent, arrived>>
        /\ up # <<>> /\ ~ cleaned
    BY <1>4 DEF PageGets, sender
  <2>2. CASE facade
    <3>1. Head(up) # Hello
      BY <2>1, <2>2, UpNext
    <3>2. down' = down
      BY <1>4, <3>1 DEF PageGets
    <3> QED
      BY <2>1, <3>2, SendingKept
  <2>3. CASE ~ facade
    BY <2>1, <2>3 DEF Sending, OneRequest
  <2> QED
    BY <2>2, <2>3
<1>5. ASSUME NEW post \in posts, Post(post)
      PROVE  Sending'
  <2>1. CASE PostArrives(post)
    BY <2>1, ArrivingKeepsSending
  <2>2. CASE PostSucceeds(post) \/ PostFails(post)
    <3>1. posts' = posts \ {post} /\ UNCHANGED <<facade, down, sent, arrived, buffer>>
      BY <2>2 DEF PostSucceeds, PostFails, windows
    <3>2. posts' = {}
      BY <3>1 DEF Sending, OneRequest
    <3> QED
      BY <3>1, <3>2, SendingWithout
  <2> QED
    BY <1>5, <2>1, <2>2 DEF Post
<1>6. CASE UNCHANGED vars
  BY <1>6, SendingKept DEF vars, windows, sender
<1> QED
  BY <1>1, <1>2, <1>3, <1>4, <1>5, <1>6, IframeGetsKeepsSending, PageSendsKeepsSending,
     WaitOverKeepsSending DEF Next, Iframe

\* The messages that have arrived are the first ones, up to those in a request or put
\* off, or the sender has failed.
LEMMA StepKeepsArriving ==
  ASSUME Typed, Places, Greeting, Sending, Arriving, [Next]_vars
  PROVE  Arriving'
<1>1. kind.framed \in BOOLEAN /\ kind' = kind
  <2>1. Session => kind' = kind
    BY SessionSteps DEF Far
  <2> QED
    BY <2>1, OthersKeepSession, KindsKnown DEF Typed
<1>2. SUFFICES ASSUME kind.receiver # "jsonp", ~ kind.framed
               PROVE  \E k \in Nat : Reached(k)'
  BY <1>1 DEF Arriving
<1>3. PICK k \in Nat : Reached(k)
  BY <1>2 DEF Arriving
<1>4. facade /\ down = <<>> /\ iframe = "none" /\ up = <<>>
  BY <1>2 DEF Places
<1>5. ASSUME UNCHANGED <<down, buffer, stop, posts, sent, arrived>>, cleaned => cleaned'
      PROVE  Reached(k)'
  BY <1>3, <1>5 DEF Reached, Taken
<1>6. CASE Receive \/ Session
  <2>1. UNCHANGED <<down, buffer, stop, posts, sent, arrived>>
    <3>1. CASE Receive
      BY <3>1, ReceiverSteps DEF Quiet, Failing, Dispatch, Calm, sender
    <3>2. CASE Session
      BY <3>2, SessionSteps DEF Far, windows, sender
    <3> QED
      BY <1>6, <3>1, <3>2
  <2>2. cleaned => cleaned'
    <3>1. CASE Quiet \/ Session
      BY <3>1, SessionSteps DEF Quiet, Far, socket
    <3>2. CASE Failing \/ Dispatch
      BY <1>1, <3>2, Telling DEF Failing, Dispatch
    <3> QED
      BY <1>6, <3>1, <3>2, ReceiverSteps
  <2> QED
    BY <1>5, <2>1, <2>2
<1>7. CASE SocketCleansUp
  BY <1>5, <1>7 DEF SocketCleansUp, sender
<1>8. ~ Iframe /\ ~ PageGets
  BY <1>4 DEF Iframe, IframeLoads, IframeBoots, IframeTimesOut, IframeRemoved, IframeGets,
     PageGets
<1>9. Handed(sent - Len(down)) /\ OneRequest
  BY <1>4 DEF Sending
<1>10. Len(<<>>) = 0 /\ sent - 0 = sent /\ Taken = sent - Len(buffer) /\ Handed(sent)
  BY <1>4, <1>9, SenderTypes DEF Taken
<1>11. CASE PageSends
  <2>1. ~ cleaned /\ cleaned' = cleaned /\ arrived' = arrived /\ sent' = sent + 1
    BY <1>11 DEF PageSends, socket
  <2>2. DoSend(sent + 1) /\ down' = <<>>
    BY <1>2, <1>4, <1>11, <2>1 DEF PageSends
  <2>3. Len(Append(buffer, sent + 1)) = Len(buffer) + 1
    BY SenderTypes
  <2>4. /\ stop = "null" => /\ posts = {} /\ buffer' = <<>>
                            /\ posts' = {[payload |-> Append(buffer, sent + 1), there |-> FALSE]}
        /\ stop # "null" => buffer' = Append(buffer, sent + 1) /\ UNCHANGED <<stop, posts>>
    BY <1>9, <1>10, <2>1, <2>2, SenderTypes, DoSendKeeps
  <2>5. CASE stop = "null"
    <3> DEFINE p == [payload |-> Append(buffer, sent + 1), there |-> FALSE]
    <3>1. k = Taken /\ arrived = 1 .. k
      BY <1>3, <2>1, <2>4, <2>5 DEF Reached
    <3>2. p \in posts' /\ p.there = FALSE /\ Len(p.payload) = Len(buffer) + 1
      BY <2>3, <2>4, <2>5
    <3>3. Taken' = sent + 1
      BY <1>10, <2>1, <2>2, <2>4, <2>5, SenderTypes DEF Taken
    <3> HIDE DEF p
    <3>4. k = Taken' - Len(p.payload)
      BY <1>10, <3>1, <3>2, <3>3, SenderTypes
    <3> QED
      BY <2>1, <3>1, <3>2, <3>4 DEF Reached
  <2>6. CASE stop # "null"
    <3>1. Taken' = Taken
      BY <1>10, <2>1, <2>2, <2>3, <2>4, <2>6, SenderTypes DEF Taken
    <3> QED
      BY <1>3, <2>1, <2>4, <2>6, <3>1 DEF Reached
  <2> QED
    BY <2>5, <2>6
<1>12. CASE WaitOver
  <2>1. /\ Schedule(buffer) /\ stop = "wait" /\ posts = {}
        /\ UNCHANGED <<down, cleaned, sent, arrived>>
    BY <1>9, <1>12 DEF WaitOver, LeftOver, OneRequest, windows, socket
  <2>2. k = Taken /\ arrived = 1 .. k
    BY <1>3, <2>1 DEF Reached
  <2>3. /\ buffer' = <<>>
        /\ buffer = <<>> => posts' = {}
        /\ buffer # <<>> => posts' = {[payload |-> buffer, there |-> FALSE]}
    BY <2>1 DEF Schedule, Posted
  <2>4. Taken' = sent
    BY <1>4, <1>10, <2>1, <2>3 DEF Taken
  <2>5. CASE buffer = <<>>
    BY <1>10, <2>1, <2>2, <2>3, <2>4, <2>5 DEF Reached
  <2>6. CASE buffer # <<>>
    <3> DEFINE p == [payload |-> buffer, there |-> FALSE]
    <3>1. p \in posts' /\ p.there = FALSE /\ p.payload = buffer
      BY <2>3, <2>6
    <3> HIDE DEF p
    <3>2. k = Taken' - Len(p.payload)
      BY <1>10, <2>2, <2>4, <3>1
    <3> QED
      BY <2>1, <2>2, <3>1, <3>2 DEF Reached
  <2> QED
    BY <2>5, <2>6
<1>13. ASSUME NEW post \in posts, Post(post)
       PROVE  \E n \in Nat : Reached(n)'
  <2>1. posts = {post} /\ stop = "request"
    BY <1>9 DEF OneRequest
  <2>2. k = (IF post.there THEN Taken ELSE Taken - Len(post.payload)) /\ arrived = 1 .. k
    BY <1>3, <2>1 DEF Reached
  <2>3. CASE PostArrives(post)
    <3>1. /\ Taken \in Nat /\ Len(post.payload) \in Nat /\ Len(post.payload) <= Taken
          /\ arrived' = arrived \cup ((Taken - Len(post.payload) + 1) .. Taken)
          /\ posts' = {[post EXCEPT !.there = TRUE]}
          /\ UNCHANGED <<down, sent, buffer>>
      BY <2>3, ArrivingKeepsSending
    <3>2. Taken' = Taken
      BY <3>1 DEF Taken
    <3>3. ~ post.there
      BY <2>3 DEF PostArrives
    <3>4. arrived' = 1 .. Taken
      <4>1. k = Taken - Len(post.payload)
        BY <2>2, <3>3
      <4>2. 1 .. k \cup ((k + 1) .. Taken) = 1 .. Taken
        BY <3>1, <4>1
      <4> QED
        BY <2>2, <3>1, <4>1, <4>2
    <3>5. [post EXCEPT !.there = TRUE].there = TRUE
      BY SenderTypes DEF SendingTyped, Sendings
    <3> QED
      BY <3>1, <3>2, <3>4, <3>5 DEF Reached
  <2>4. CASE PostSucceeds(post)
    <3>1. posts' = {} /\ UNCHANGED <<down, buffer, sent, arrived>> /\ post.there
      BY <2>1, <2>4 DEF PostSucceeds, windows
    <3>2. Taken' = Taken
      BY <3>1 DEF Taken
    <3> QED
      BY <2>2, <3>1, <3>2 DEF Reached
  <2>5. CASE PostFails(post)
    <3>1. stop' = "null" /\ Tell(CloseFrame, recv, lines) /\ arrived' = arrived
      BY <1>2, <2>5 DEF PostFails, FailureUnseen
    <3>2. cleaned'
      BY <1>1, <1>2, <3>1, Telling
    <3> QED
      BY <2>2, <3>1, <3>2 DEF Reached
  <2> QED
    BY <1>13, <2>3, <2>4, <2>5 DEF Post
<1>14. CASE UNCHANGED vars
  BY <1>5, <1>14 DEF vars, socket, windows, sender
<1> QED
  BY <1>6, <1>7, <1>8, <1>11, <1>12, <1>13, <1>14 DEF Next

-----------------------------------------------------------------------------
(***************************************************************************)
(* The invariant holds.                                                    *)
(***************************************************************************)

\* At the start
LEMMA InvInit ==
  ASSUME Init
  PROVE  Inv
<1>1. SocketTyped /\ kind.framed \in BOOLEAN
  <2>1. SocketTyped
    <3>1. <<>> \in Seq(Int)
      OBVIOUS
    <3> QED
      BY <3>1 DEF Init, SocketTyped
  <2> QED
    BY <2>1, KindsKnown
<1>2. NoRequest \in Requests /\ NewRequest \in Requests /\ recv \in Requests
      /\ NoRequest.text = <<>> /\ NoRequest.phase = "none" /\ NoRequest.end = "no"
      /\ NewRequest.text = <<>> /\ NewRequest.phase \in {"delayed", "open"}
      /\ NewRequest.end = "no"
  <2>1. NoRequest \in Requests
    BY DEF NoRequest, Requests, Phases
  <2>2. (IF kind.receiver = "xhr" THEN "delayed" ELSE "open") \in Phases
    BY DEF Phases
  <2>3. NewRequest \in Requests
    BY <2>1, <2>2, RequestsChanged DEF NewRequest
  <2>4. recv \in Requests
    BY <2>1, <2>3 DEF Init
  <2> QED
    BY <2>1, <2>3, <2>4, RequestsMade
<1>3. Len(<<>>) = 0 /\ DOMAIN <<>> = {} /\ <<>> \in Seq(Int)
  OBVIOUS
<1>4. Typed
  <2>1. WindowsTyped
    BY <1>1, <1>3 DEF Init, WindowsTyped
  <2>2. ReceiverTyped
    BY <1>2, <1>3 DEF Init, ReceiverTyped
  <2>3. SessionTyped
    BY DEF Init, SessionTyped
  <2>4. SenderTyped
    BY <1>3, BoundsAssumption DEF Init, SenderTyped
  <2> QED
    BY <1>1, <2>1, <2>2, <2>3, <2>4 DEF Typed
<1>5. Places /\ Greeting
  BY <1>1, <1>2 DEF Init, Places, Greeting
<1>6. Dropping
  BY <1>2, <1>3 DEF Init, Dropping
<1>7. Framing
  <2>1. InOrder
    BY <1>3, BoundsAssumption DEF Init, InOrder, FramesInOrder
  <2>2. Unseen = <<>>
    BY <1>2 DEF Init, Unseen
  <2>3. UnderWay(<<>>, <<>>, <<>>, 0, 1, session.lost)
    <3>1. 1 = 0 + Len(<<>>) + Len(<<>>) + Len(<<>>) + 1
      OBVIOUS
    <3> QED
      BY <3>1, InStepNone DEF UnderWay, InHand, NotRead
  <2>4. up = <<>> /\ lines = <<>> /\ Len(given) = 0 /\ session.next = 1
    BY <1>3 DEF Init
  <2>5. Coming
    BY <2>2, <2>3, <2>4 DEF Coming
  <2> QED
    BY <2>1, <2>5 DEF Framing
<1>8. Sending
  <2>1. /\ buffer = <<>> /\ down = <<>> /\ posts = {} /\ arrived = {} /\ sent = 0
    BY DEF Init
  <2>2. \A last : Numbered(<<>>, last)
    BY <1>3 DEF Numbered
  <2> DEFINE n == Len(<<>>)
  <2>3. Len(buffer) = n /\ Len(down) = n /\ n = 0
    BY <1>3, <2>1, Zenon
  <2> HIDE DEF n
  <2>4. 0 - n = 0 /\ n <= 0
    BY <2>3
  <2>5. Handed(0)
    BY <2>1, <2>2, <2>3, <2>4, Zenon DEF Handed
  <2>6. Handed(sent - Len(down)) /\ Numbered(down, sent)
    BY <2>1, <2>2, <2>3, <2>4, <2>5, Zenon
  <2> QED
    BY <2>1, <2>6, Zenon DEF Sending, OneRequest
<1>9. Arriving
  <2> DEFINE n == Len(<<>>)
  <2>1. Taken = sent - n - n /\ sent = 0 /\ n = 0 /\ posts = {} /\ arrived = {}
    BY <1>3, Zenon DEF Init, Taken
  <2> HIDE DEF n
  <2>2. Taken = 0 /\ 1 .. 0 = {} /\ 0 \in Nat
    BY <2>1
  <2>3. Reached(0)
    BY <2>1, <2>2, Zenon DEF Reached
  <2> QED
    BY <2>2, <2>3, Zenon DEF Arriving
<1> QED
  BY <1>4, <1>5, <1>6, <1>7, <1>8, <1>9 DEF Inv

\* and after every step.
LEMMA InvStep ==
  ASSUME Inv, [Next]_vars
  PROVE  Inv'
BY StepKeepsTypes, StepKeepsPlaces, StepKeepsGreeting, StepKeepsDropping, StepKeepsFraming,
   StepKeepsSending, StepKeepsArriving DEF Inv, Sending

\* In every state that can be reached.
LEMMA InvAlways == Spec => []Inv
BY InvInit, InvStep, PTL DEF Spec

\* The variables keep to their types, whatever the transport and the windows do: no
\* frame beyond those of the session is given, no message beyond those sent arrives,
\* and a buffered sender has one request under way at most.
THEOREM TypeCorrect == Spec => []TypeOK
<1>1. Inv => TypeOK
  <2> SUFFICES ASSUME Inv PROVE TypeOK
    OBVIOUS
  <2>1. Typed /\ InOrder /\ Sending
    BY DEF Inv, Framing
  <2>2. recv.phase \in Phases /\ recv.end \in {"no", "ok", "broken"}
    BY <2>1, WayTyped, RequestFields
  <2>3. \A i \in DOMAIN given : given[i] \in 1 .. MaxFrames
    <3>1. DOMAIN given = 1 .. Len(given) /\ Len(given) \in Nat /\ Len(given) < MaxFrames + 1
          /\ MaxFrames \in Nat
      BY <2>1, WayTyped, BoundsAssumption DEF InOrder
    <3> QED
      BY <2>1, <3>1 DEF InOrder, FramesInOrder
  <2>4. arrived \subseteq 1 .. sent
    <3>1. CASE facade
      <4>1. arrived \subseteq 1 .. (sent - Len(down)) - Len(buffer)
        BY <2>1, <3>1 DEF Sending, Handed
      <4> QED
        BY <2>1, <4>1, SenderTypes
    <3>2. CASE ~ facade
      BY <3>2 DEF Inv, Greeting
    <3> QED
      BY <2>1, <3>1, <3>2 DEF Typed, WindowsTyped
  <2>5. Cardinality(posts) <= 1
    <3>1. CASE posts = {}
      BY <3>1, FS_EmptySet
    <3>2. CASE posts # {}
      <4>1. PICK p \in posts : TRUE
        BY <3>2
      <4>2. posts = {p}
        BY <2>1 DEF Sending, OneRequest
      <4> QED
        BY <4>2, FS_Singleton
    <3> QED
      BY <3>1, <3>2
  <2> QED
    BY <2>1, <2>2, <2>3, <2>4, <2>5
       DEF Typed, WindowsTyped, SenderTyped, Phases, TypeOK
<1> QED
  BY <1>1, InvAlways, PTL

\* Whichever transport is used and wherever it runs, no frame is given twice, passed
\* over or overtaken, and where the sender runs in the page and can tell a failure, a
\* message that has arrived has all those before it at the server.
THEOREM OrderAlwaysKept == Spec => []OrderKept
<1>1. Inv => OrderKept
  <2> SUFFICES ASSUME Inv PROVE OrderKept
    OBVIOUS
  <2>1. FramesInOrder
    BY DEF Inv, Framing, InOrder
  <2>2. ASSUME kind.receiver # "jsonp", ~ kind.framed
        PROVE  arrived = 1 .. Cardinality(arrived)
    <3>1. PICK k \in Nat : arrived = 1 .. k
      BY <2>2 DEF Inv, Arriving, Reached
    <3>2. Cardinality(1 .. k) = k
      <4>1. 1 \in Int /\ k \in Int
        OBVIOUS
      <4>2. Cardinality(1 .. k) = IF 1 > k THEN 0 ELSE k - 1 + 1
        BY <4>1, FS_Interval
      <4> QED
        BY <4>2
    <3> QED
      BY <3>1, <3>2
  <2> QED
    BY <2>1, <2>2 DEF OrderKept, NoGaps
<1> QED
  BY <1>1, InvAlways, PTL

-----------------------------------------------------------------------------
(***************************************************************************)
(* A transport is what TransportService says.                              *)
(***************************************************************************)
ServiceStep == [Transport!Next]_(Transport!transportVars)

\* Most steps are none of the socket's.
LEMMA ServiceStutters ==
  ASSUME UNCHANGED <<given, sent, arrived, cleaned>>
  PROVE  ServiceStep
BY DEF ServiceStep, Transport!transportVars

\* doCleanup.
LEMMA ServiceCleansUp ==
  ASSUME ~ cleaned, cleaned' = TRUE, UNCHANGED <<given, sent, arrived>>
  PROVE  ServiceStep
BY DEF ServiceStep, Transport!Next, Transport!CleanUp

\* A frame for the socket.
LEMMA ServiceGives ==
  ASSUME Typed, NEW frame, ~ cleaned, given' = Append(given, frame),
         UNCHANGED <<sent, arrived, cleaned>>
  PROVE  ServiceStep
<1>1. Len(given') = Len(given) + 1
  BY WayTyped
<1> QED
  BY <1>1 DEF ServiceStep, Transport!Next, Transport!Give

\* What the page is told, by a response or an iframe.
LEMMA TellServes ==
  ASSUME Typed, NEW frame, NEW r, NEW rest, Tell(frame, r, rest), UNCHANGED <<sent, arrived>>,
         frame # CloseFrame => kind.framed \/ ~ cleaned
  PROVE  ServiceStep
<1>1. kind.framed \in BOOLEAN /\ cleaned \in BOOLEAN
  BY KindsKnown DEF Typed, SocketTyped
<1>2. \/ kind.framed /\ UNCHANGED <<cleaned, given>>
      \/ ~ kind.framed /\ frame = CloseFrame /\ cleaned' = TRUE /\ given' = given
      \/ ~ kind.framed /\ frame # CloseFrame /\ given' = Append(given, frame) /\ cleaned' = cleaned
  BY <1>1, Telling
<1>3. CASE kind.framed
  BY <1>2, <1>3, ServiceStutters
<1>4. CASE ~ kind.framed /\ frame = CloseFrame
  BY <1>1, <1>2, <1>4, ServiceStutters, ServiceCleansUp
<1>5. CASE ~ kind.framed /\ frame # CloseFrame
  BY <1>2, <1>5, ServiceGives
<1> QED
  BY <1>1, <1>3, <1>4, <1>5

\* The page gets a message of an iframe.
LEMMA PageGetsServes ==
  ASSUME Typed, PageGets
  PROVE  ServiceStep
<1>1. ~ cleaned /\ UNCHANGED <<sent, arrived>>
  BY DEF PageGets
<1>2. CASE Head(up) = Hello
  <2>1. UNCHANGED <<given, cleaned>>
    BY <1>2 DEF PageGets, socket, Hello, CloseFrame
  <2> QED
    BY <1>1, <2>1, ServiceStutters
<1>3. CASE Head(up) = CloseFrame
  <2>1. cleaned' = TRUE /\ given' = given
    BY <1>3 DEF PageGets, Hello, CloseFrame
  <2> QED
    BY <1>1, <2>1, ServiceCleansUp
<1>4. CASE Head(up) # Hello /\ Head(up) # CloseFrame
  <2>1. given' = Append(given, Head(up)) /\ cleaned' = cleaned
    BY <1>4 DEF PageGets
  <2> QED
    BY <1>1, <2>1, ServiceGives
<1> QED
  BY <1>2, <1>3, <1>4

\* A request with messages comes to the server.
LEMMA ArrivingServes ==
  ASSUME Typed, Greeting, Sending, NEW post \in posts, PostArrives(post)
  PROVE  ServiceStep
<1> DEFINE l == Len(post.payload)
           to == Taken
           from == to - l + 1
<1>1. /\ to \in Nat /\ l \in Nat /\ l >= 1 /\ l <= to /\ arrived \subseteq 1 .. to - l
      /\ arrived' = arrived \cup (from .. to)
      /\ UNCHANGED <<given, cleaned, sent>>
  BY ArrivingKeepsSending
<1>2. to <= sent /\ sent \in Nat
  BY SenderTypes DEF Taken
<1> HIDE DEF to, l
<1>3. from \in 1 .. sent /\ to \in 1 .. sent /\ from <= to
  BY <1>1, <1>2
<1>4. \A n \in arrived : n < from
  <2>1. \A n \in 1 .. to - l : n < from
    BY <1>1
  <2> QED
    BY <1>1, <2>1
<1> HIDE DEF from
<1>5. Transport!Arrive
  BY <1>1, <1>3, <1>4 DEF Transport!Arrive
<1> QED
  BY <1>5 DEF ServiceStep, Transport!Next

\* Every step is one of the service or none.
LEMMA StepServes ==
  ASSUME Inv, [Next]_vars
  PROVE  ServiceStep
<1>1. Typed /\ Places /\ Greeting /\ Sending
  BY DEF Inv
<1>2. CASE Receive
  <2>1. CASE Quiet
    BY <2>1, ServiceStutters DEF Quiet, Calm, socket
  <2>2. CASE Failing
    BY <1>1, <2>2, TellServes DEF Failing, Calm
  <2>3. CASE Dispatch
    <3>1. kind.framed \/ ~ cleaned
      BY <1>1, <2>3 DEF Dispatch, Places
    <3> QED
      BY <1>1, <2>3, <3>1, TellServes DEF Dispatch, Calm
  <2> QED
    BY <1>2, <2>1, <2>2, <2>3, ReceiverSteps
<1>3. CASE Session
  BY <1>3, SessionSteps, ServiceStutters DEF Far, socket
<1>4. CASE SocketCleansUp \/ IframeTimesOut
  BY <1>4, ServiceCleansUp DEF SocketCleansUp, IframeTimesOut, CleanUp
<1>5. CASE IframeLoads \/ IframeBoots \/ IframeRemoved \/ IframeGets \/ WaitOver
  BY <1>5, ServiceStutters
     DEF IframeLoads, IframeBoots, IframeRemoved, IframeGets, WaitOver, socket
<1>6. CASE PageSends
  <2>1. Transport!Take
    BY <1>6 DEF PageSends, Transport!Take, socket
  <2> QED
    BY <2>1 DEF ServiceStep, Transport!Next
<1>7. ASSUME NEW post \in posts, Post(post)
      PROVE  ServiceStep
  <2>1. CASE PostArrives(post)
    BY <1>1, <2>1, ArrivingServes
  <2>2. CASE PostSucceeds(post)
    BY <2>2, ServiceStutters DEF PostSucceeds, socket
  <2>3. CASE PostFails(post) /\ FailureUnseen
    BY <2>3, ServiceStutters DEF PostFails, socket
  <2>4. CASE PostFails(post) /\ ~ FailureUnseen
    <3>1. Tell(CloseFrame, recv, lines) /\ UNCHANGED <<sent, arrived>>
      BY <2>4 DEF PostFails
    <3> QED
      BY <1>1, <3>1, TellServes
  <2> QED
    BY <1>7, <2>1, <2>2, <2>3, <2>4 DEF Post
<1>8. CASE UNCHANGED vars
  BY <1>8, ServiceStutters DEF vars, socket
<1> QED
  BY <1>1, <1>2, <1>3, <1>4, <1>5, <1>6, <1>7, <1>8, PageGetsServes DEF Next, Iframe

\* To the socket every transport is the same: it gives the frames one by one until
\* doCleanup and none after it, although handlers are cleaned up under way, and the
\* messages that it took arrive in their order, those of a request together and once.
THEOREM TransportImplementsService == Spec => ImplementsTransport
<1>1. Init => Transport!Init
  <2>1. Len(<<>>) = 0
    OBVIOUS
  <2> QED
    BY <2>1 DEF Init, Transport!Init
<1>2. Inv /\ [Next]_vars => [Transport!Next]_(Transport!transportVars)
  BY StepServes DEF ServiceStep
<1> QED
  BY <1>1, <1>2, InvAlways, PTL DEF Spec, ImplementsTransport, Transport!Spec
=============================================================================
