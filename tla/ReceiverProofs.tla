--------------------------- MODULE ReceiverProofs ---------------------------
(***************************************************************************)
(* The receiver implements the service its clients rely on, and stores the *)
(* text of each post's own body: theorems about module Receiver, for any   *)
(* number of channels, posts, failing calls, lost connections and crashes, *)
(* bodies of any length and any way to cut them.                           *)
(***************************************************************************)
EXTENDS Receiver, Integers, TLAPS, FiniteSetTheorems, FunctionTheorems,
        SequenceTheorems

-----------------------------------------------------------------------------
(***************************************************************************)
(* Channels.                                                               *)
(***************************************************************************)
\* The fields of a channel that its answers depend on have their types: all but
\* the text of a body and the place in it, which come last below.
Fields(ch) ==
  /\ DOMAIN ch = {"link", "heads", "inBody", "offset", "requestBuffer", "at",
                  "responseStatus", "written", "responses"}
  /\ ch.link \in {"new", "open", "closing", "closed"}
  /\ ch.heads \in Nat /\ ch.inBody \in BOOLEAN
  /\ ch.at \in {"read", "save", "publish", "respond"}
  /\ ch.responseStatus \in {200, 400, 500}
  /\ ch.written \in Seq({200, 400, 500})
  /\ ch.responses \in Seq({200, 400, 500})

\* They have them in every channel.
HasFields ==
  /\ DOMAIN channel = Channels
  /\ \A c \in Channels : Fields(channel[c])

\* What a step makes of one channel, the others being left alone.
Becomes(c, link, heads, inBody, at, responseStatus, written, responses) ==
  /\ channel'[c].link = link
  /\ channel'[c].heads = heads /\ channel'[c].inBody = inBody
  /\ channel'[c].at = at /\ channel'[c].responseStatus = responseStatus
  /\ channel'[c].written = written /\ channel'[c].responses = responses
  /\ \A d \in Channels \ {c} : channel'[d] = channel[d]
  /\ HasFields'

\* A client connects.
LEMMA ConnectEffect ==
  ASSUME HasFields, NEW c \in Channels, Connect(c)
  PROVE  Becomes(c, "open", channel[c].heads, channel[c].inBody,
                 channel[c].at, channel[c].responseStatus,
                 channel[c].written, channel[c].responses)
  BY DEF Connect, HasFields, Fields, Becomes

\* An HttpRequest begins the next post.
LEMMA ReadHeadEffect ==
  ASSUME HasFields, NEW c \in Channels, ReadHead(c)
  PROVE  Becomes(c, channel[c].link, channel[c].heads + 1, TRUE,
                 channel[c].at, channel[c].responseStatus,
                 channel[c].written, channel[c].responses)
  BY DEF ReadHead, HasFields, Fields, Becomes

\* An HttpContent changes the text and the place in the body only.
LEMMA ReadContentEffect ==
  ASSUME HasFields, NEW c \in Channels, ReadContent(c)
  PROVE  Becomes(c, channel[c].link, channel[c].heads, channel[c].inBody,
                 channel[c].at, channel[c].responseStatus,
                 channel[c].written, channel[c].responses)
<1>1. PICK n \in 1..Len(Rest(c)) :
        channel' = [channel EXCEPT
                      ![c].offset = @ + n,
                      ![c].requestBuffer = @ \o DecodeUtf8(NextBytes(c, n))]
  BY DEF ReadContent
<1> DEFINE offset == channel[c].offset + n
           text   == channel[c].requestBuffer \o DecodeUtf8(NextBytes(c, n))
<1>2. channel' = [channel EXCEPT ![c].offset = offset,
                                 ![c].requestBuffer = text]
  BY <1>1
<1> HIDE DEF offset, text
<1> QED
  BY <1>2 DEF HasFields, Fields, Becomes

\* The LastHttpContent settles whether the post is saved or refused.
LEMMA ReadLastEffect ==
  ASSUME HasFields, NEW c \in Channels, ReadLast(c)
  PROVE  \E readable \in BOOLEAN :
           LET good == Kind[Request(c)] = "valid" /\ readable
           IN  Becomes(c, channel[c].link, channel[c].heads, FALSE,
                       IF good THEN "save" ELSE "respond",
                       IF good THEN 200 ELSE Refusal(Request(c), readable),
                       channel[c].written, channel[c].responses)
<1>0. PICK readable \in Readable(WholeText(c)) :
        LET good == Kind[Request(c)] = "valid" /\ readable
        IN  channel' = [channel EXCEPT
              ![c].inBody = FALSE,
              ![c].offset = Len(Body[Request(c)]),
              ![c].requestBuffer = WholeText(c),
              ![c].responseStatus = IF good THEN 200
                                    ELSE Refusal(Request(c), readable),
              ![c].at = IF good THEN "save" ELSE "respond"]
  BY DEF ReadLast
<1> DEFINE good   == Kind[Request(c)] = "valid" /\ readable
           status == IF good THEN 200 ELSE Refusal(Request(c), readable)
           next   == IF good THEN "save" ELSE "respond"
           offset == Len(Body[Request(c)])
           text   == WholeText(c)
<1>1. channel' = [channel EXCEPT ![c].inBody = FALSE, ![c].offset = offset,
                                 ![c].requestBuffer = text,
                                 ![c].responseStatus = status,
                                 ![c].at = next]
  BY <1>0
<1>2. status \in {200, 400, 500} /\ next \in {"save", "respond"}
  BY DEF Refusal
<1> HIDE DEF offset, text, status, next
<1>3. Becomes(c, channel[c].link, channel[c].heads, FALSE, next, status,
              channel[c].written, channel[c].responses)
  <2>1. /\ DOMAIN channel' = Channels
        /\ \A d \in Channels \ {c} : channel'[d] = channel[d]
    BY <1>1 DEF HasFields
  <2>2. channel'[c] = [channel[c] EXCEPT !.inBody = FALSE, !.offset = offset,
                          !.requestBuffer = text, !.responseStatus = status,
                          !.at = next]
    BY <1>1 DEF HasFields
  <2>3. Fields(channel[c])
    BY DEF HasFields
  <2>4. /\ channel'[c].link = channel[c].link
        /\ channel'[c].heads = channel[c].heads /\ channel'[c].inBody = FALSE
        /\ channel'[c].at = next /\ channel'[c].responseStatus = status
        /\ channel'[c].written = channel[c].written
        /\ channel'[c].responses = channel[c].responses
        /\ DOMAIN channel'[c] = DOMAIN channel[c]
    BY <2>2, <2>3 DEF Fields
  <2>5. Fields(channel'[c])
    <3> DEFINE old == channel[c]
               new == channel'[c]
    <3>1. /\ Fields(old) /\ DOMAIN new = DOMAIN old
          /\ new.link = old.link /\ new.heads = old.heads
          /\ new.inBody = FALSE /\ new.at = next
          /\ new.responseStatus = status
          /\ new.written = old.written /\ new.responses = old.responses
      BY <2>3, <2>4
    <3> HIDE DEF old, new
    <3>2. new.inBody \in BOOLEAN
      BY <3>1
    <3>3. new.at \in {"read", "save", "publish", "respond"}
      BY <1>2, <3>1
    <3>4. Fields(new)
      BY <1>2, <3>1, <3>2, <3>3 DEF Fields
    <3> QED
      BY <3>4 DEF new
  <2> QED
    BY <2>1, <2>4, <2>5 DEF HasFields, Becomes
<1>4. readable \in BOOLEAN
  BY DEF Readable
<1> QED
  BY <1>3, <1>4 DEF status, next

\* After the row is inserted the handler publishes.
LEMMA SaveEffect ==
  ASSUME HasFields, NEW c \in Channels, Save(c)
  PROVE  Becomes(c, channel[c].link, channel[c].heads, channel[c].inBody,
                 "publish", channel[c].responseStatus,
                 channel[c].written, channel[c].responses)
  BY DEF Save, HasFields, Fields, Becomes

\* After convertAndSend the handler responds.
LEMMA PublishEffect ==
  ASSUME HasFields, NEW c \in Channels, Publish(c)
  PROVE  Becomes(c, channel[c].link, channel[c].heads, channel[c].inBody,
                 "respond", channel[c].responseStatus,
                 channel[c].written, channel[c].responses)
  BY DEF Publish, HasFields, Fields, Becomes

\* When a call throws, the handler responds 500.
LEMMA FailEffect ==
  ASSUME HasFields, NEW c \in Channels, Fail(c)
  PROVE  Becomes(c, channel[c].link, channel[c].heads, channel[c].inBody,
                 "respond", 500, channel[c].written, channel[c].responses)
  BY DEF Fail, FailureStatus, HasFields, Fields, Becomes

\* The response is kept, flushed with all before it, or written in vain.
LEMMA RespondEffect ==
  ASSUME HasFields, NEW c \in Channels, Respond(c)
  PROVE  LET written == channel[c].written \o <<channel[c].responseStatus>>
             open    == channel[c].link = "open"
             stays   == open /\ KeepAlive[Request(c)]
         IN  Becomes(c, IF stays THEN channel[c].link ELSE "closing",
                     channel[c].heads, channel[c].inBody, "read",
                     channel[c].responseStatus,
                     IF stays THEN written ELSE <<>>,
                     IF open /\ ~stays THEN channel[c].responses \o written
                                       ELSE channel[c].responses)
<1> DEFINE status  == channel[c].responseStatus
           written == channel[c].written \o <<status>>
           open    == channel[c].link = "open"
           stays   == open /\ KeepAlive[Request(c)]
           link    == IF stays THEN channel[c].link ELSE "closing"
           toFlush == IF stays THEN written ELSE <<>>
           flushed == IF open /\ ~stays THEN channel[c].responses \o written
                                       ELSE channel[c].responses
<1>1. channel' = [channel EXCEPT ![c].at = "read", ![c].link = link,
                                 ![c].written = toFlush,
                                 ![c].responses = flushed]
  BY DEF Respond
<1>2. /\ written \in Seq({200, 400, 500})
      /\ channel[c].responses \o written \in Seq({200, 400, 500})
  <2>1. /\ channel[c].written \in Seq({200, 400, 500})
        /\ channel[c].responses \in Seq({200, 400, 500})
        /\ status \in {200, 400, 500}
    BY DEF HasFields, Fields
  <2> QED
    BY <2>1
<1>3. /\ link \in {"new", "open", "closing", "closed"}
      /\ toFlush \in Seq({200, 400, 500}) /\ flushed \in Seq({200, 400, 500})
  <2>1. Fields(channel[c])
    BY DEF HasFields
  <2>2. /\ channel[c].link \in {"new", "open", "closing", "closed"}
        /\ channel[c].responses \in Seq({200, 400, 500})
    BY <2>1 DEF Fields
  <2>3. <<>> \in Seq({200, 400, 500})
    OBVIOUS
  <2> HIDE DEF written, open
  <2>4. CASE stays
    BY <1>2, <2>2, <2>4
  <2>5. CASE ~stays
    BY <1>2, <2>2, <2>3, <2>5
  <2> QED
    BY <2>4, <2>5
<1> HIDE DEF link, toFlush, flushed
<1>4. Becomes(c, link, channel[c].heads, channel[c].inBody, "read", status,
              toFlush, flushed)
  BY <1>1, <1>3 DEF HasFields, Fields, Becomes
<1> QED
  BY <1>4 DEF link, toFlush, flushed

\* What was written is flushed, or the connection is gone.
LEMMA ReadCompleteEffect ==
  ASSUME HasFields, NEW c \in Channels, ReadComplete(c)
  PROVE  LET open == channel[c].link = "open"
         IN  Becomes(c, IF open THEN "open" ELSE "closed",
                     channel[c].heads, channel[c].inBody, channel[c].at,
                     channel[c].responseStatus,
                     IF open THEN <<>> ELSE channel[c].written,
                     IF open THEN channel[c].responses \o channel[c].written
                             ELSE channel[c].responses)
<1>1. CASE channel[c].link = "open"
  <2> DEFINE flushed == channel[c].responses \o channel[c].written
  <2>1. flushed \in Seq({200, 400, 500})
    BY DEF HasFields, Fields
  <2>2. channel' = [channel EXCEPT ![c].responses = flushed,
                                   ![c].written = <<>>]
    BY <1>1 DEF ReadComplete, Flushed
  <2> HIDE DEF flushed
  <2>3. Becomes(c, "open", channel[c].heads, channel[c].inBody,
                channel[c].at, channel[c].responseStatus, <<>>, flushed)
    BY <1>1, <2>1, <2>2 DEF HasFields, Fields, Becomes
  <2> QED
    BY <1>1, <2>3 DEF flushed
<1>2. CASE channel[c].link # "open"
  <2>1. channel' = [channel EXCEPT ![c].link = "closed"]
    BY <1>2 DEF ReadComplete
  <2>2. Becomes(c, "closed", channel[c].heads, channel[c].inBody,
                channel[c].at, channel[c].responseStatus,
                channel[c].written, channel[c].responses)
    BY <2>1 DEF HasFields, Fields, Becomes
  <2> QED
    BY <1>2, <2>2
<1> QED
  BY <1>1, <1>2

\* The connection fails with what was not flushed.
LEMMA LoseEffect ==
  ASSUME HasFields, NEW c \in Channels, Lose(c)
  PROVE  Becomes(c, "closing", channel[c].heads, channel[c].inBody,
                 channel[c].at, channel[c].responseStatus,
                 <<>>, channel[c].responses)
  BY DEF Lose, HasFields, Fields, Becomes

\* A crash ends every connection there is.
LEMMA CrashEffect ==
  ASSUME HasFields, Crash
  PROVE  /\ HasFields'
         /\ \A c \in Channels :
              \/ channel'[c] = channel[c]
              \/ /\ channel'[c].link = "closed" /\ channel'[c].at = "read"
                 /\ channel'[c].written = <<>>
                 /\ channel'[c].heads = channel[c].heads
                 /\ channel'[c].inBody = channel[c].inBody
                 /\ channel'[c].responses = channel[c].responses
<1>1. /\ DOMAIN channel' = Channels
      /\ \A c \in Channels :
           channel'[c] = IF channel[c].link = "new" THEN channel[c]
                         ELSE [channel[c] EXCEPT !.link = "closed",
                                 !.at = "read", !.written = <<>>,
                                 !.requestBuffer = <<>>]
  BY DEF Crash
<1>2. ASSUME NEW c \in Channels
      PROVE  /\ Fields(channel'[c])
             /\ \/ channel'[c] = channel[c]
                \/ /\ channel'[c].link = "closed" /\ channel'[c].at = "read"
                   /\ channel'[c].written = <<>>
                   /\ channel'[c].heads = channel[c].heads
                   /\ channel'[c].inBody = channel[c].inBody
                   /\ channel'[c].responses = channel[c].responses
  <2>1. Fields(channel[c])
    BY DEF HasFields
  <2>2. CASE channel[c].link = "new"
    <3>1. channel'[c] = channel[c]
      BY <1>1, <2>2
    <3> QED
      BY <3>1, <2>1
  <2>3. CASE channel[c].link # "new"
    <3> DEFINE old == channel[c]
               new == channel'[c]
    <3>1. new = [old EXCEPT !.link = "closed", !.at = "read",
                            !.written = <<>>, !.requestBuffer = <<>>]
      BY <1>1, <2>3
    <3>2. Fields(old)
      BY <2>1
    <3> HIDE DEF old, new
    <3>3. /\ DOMAIN new = DOMAIN old
          /\ new.link = "closed" /\ new.at = "read" /\ new.written = <<>>
          /\ new.heads = old.heads /\ new.inBody = old.inBody
          /\ new.responseStatus = old.responseStatus
          /\ new.responses = old.responses
      BY <3>1, <3>2 DEF Fields
    <3>4. Fields(new)
      BY <3>2, <3>3 DEF Fields
    <3> QED
      BY <3>3, <3>4 DEF old, new
  <2> QED
    BY <2>2, <2>3
<1> QED
  BY <1>1, <1>2 DEF HasFields

\* No channel has a connection at first.
LEMMA InitFields == Init => HasFields
<1> SUFFICES ASSUME Init PROVE HasFields
  OBVIOUS
<1>1. DOMAIN channel = Channels /\ \A c \in Channels : channel[c] = NewChannel
  BY DEF Init
<1>2. Fields(NewChannel)
  BY DEF NewChannel, Fields
<1> QED
  BY <1>1, <1>2 DEF HasFields

-----------------------------------------------------------------------------
(***************************************************************************)
(* One channel's part of the invariant, as a formula about values.         *)
(***************************************************************************)
\* A status is true of a post, given what is stored and what was sent.
True(p, status, done, sent) ==
  /\ status = 200 => p \in done \cap sent
  /\ status = 400 => p \notin done \cup sent

\* A post that is in hand is yet to be answered.
AtWork(inBody, at) == IF inBody \/ at # "read" THEN 1 ELSE 0

\* The conjuncts of ChannelAgrees.
Agrees(c, link, heads, inBody, at, status, answers, done, sent) ==
  /\ heads <= Len(Plan[c])
  /\ (inBody \/ at # "read") => heads > 0
  /\ inBody => at = "read"
  /\ Len(answers) + AtWork(inBody, at) <= heads
  /\ link \in {"new", "open"} => Len(answers) + AtWork(inBody, at) = heads
  /\ \A i \in 1..Len(answers) : True(Plan[c][i], answers[i], done, sent)
  /\ at \in {"save", "publish"} => status = 200
  /\ at = "publish" => Plan[c][heads] \in done
  /\ at = "respond" => True(Plan[c][heads], status, done, sent)
  /\ \A i \in 1..Len(Plan[c]) :
       i > heads \/ (inBody /\ i = heads) => Plan[c][i] \notin done \cup sent

\* Agrees is ChannelAgrees.
LEMMA AgreesAsDefined ==
  ASSUME ReceiverAssumption, HasFields, NEW c \in Channels
  PROVE  ChannelAgrees(c) <=>
           Agrees(c, channel[c].link, channel[c].heads, channel[c].inBody,
                  channel[c].at, channel[c].responseStatus, Answers(c),
                  StoredPosts, published)
<1>1. Answers(c) \in Seq({200, 400, 500})
  BY DEF Answers, HasFields, Fields
<1>2. DOMAIN Answers(c) = 1..Len(Answers(c))
  BY <1>1
<1>3. Plan[c] \in Seq(Posts) /\ DOMAIN Plan[c] = 1..Len(Plan[c])
  BY DEF ReceiverAssumption
<1> QED
  BY <1>2, <1>3 DEF ChannelAgrees, Agrees, Busy, Pending, AtWork, Request,
                    Service!Truthful, True

\* The same of the next state.
LEMMA AgreesAsDefinedNext ==
  ASSUME ReceiverAssumption, HasFields', NEW c \in Channels
  PROVE  ChannelAgrees(c)' <=>
           Agrees(c, channel'[c].link, channel'[c].heads, channel'[c].inBody,
                  channel'[c].at, channel'[c].responseStatus, Answers(c)',
                  StoredPosts', published')
<1>1. Answers(c)' \in Seq({200, 400, 500})
  BY DEF Answers, HasFields, Fields
<1>2. (DOMAIN Answers(c))' = 1..Len(Answers(c)')
  BY <1>1
<1>3. Plan[c] \in Seq(Posts) /\ DOMAIN Plan[c] = 1..Len(Plan[c])
  BY DEF ReceiverAssumption
<1> QED
  BY <1>2, <1>3 DEF ChannelAgrees, Agrees, Busy, Pending, AtWork, Request,
                    Service!Truthful, True

\* What is stored or published for posts of other channels does no harm.
LEMMA OthersAgree ==
  ASSUME NEW c, NEW link, NEW heads \in Nat, NEW inBody, NEW at, NEW status,
         NEW answers, Len(answers) \in Nat, Len(Plan[c]) \in Nat,
         NEW done, NEW sent, NEW done2, NEW sent2, NEW Q,
         Agrees(c, link, heads, inBody, at, status, answers, done, sent),
         done \subseteq done2, done2 \subseteq done \cup Q,
         sent \subseteq sent2, sent2 \subseteq sent \cup Q,
         \A i \in 1..Len(Plan[c]) : Plan[c][i] \notin Q
  PROVE  Agrees(c, link, heads, inBody, at, status, answers, done2, sent2)
<1>1. /\ heads <= Len(Plan[c]) /\ Len(answers) <= heads
      /\ (inBody \/ at # "read") => heads > 0
      /\ inBody => at = "read"
  BY DEF Agrees, AtWork
<1>2. ASSUME NEW i \in 1..Len(Plan[c])
      PROVE  \A s : True(Plan[c][i], s, done, sent)
                      => True(Plan[c][i], s, done2, sent2)
  BY <1>2 DEF True
<1>3. \A i \in 1..Len(answers) : True(Plan[c][i], answers[i], done2, sent2)
  <2> TAKE i \in 1..Len(answers)
  <2>1. i \in 1..Len(Plan[c])
    BY <1>1
  <2> QED
    BY <1>2, <2>1 DEF Agrees
<1>4. at = "respond" => True(Plan[c][heads], status, done2, sent2)
  <2> HAVE at = "respond"
  <2>1. heads \in 1..Len(Plan[c])
    BY <1>1
  <2> QED
    BY <1>2, <2>1 DEF Agrees
<1>5. at = "publish" => Plan[c][heads] \in done2
  BY DEF Agrees
<1>6. \A i \in 1..Len(Plan[c]) :
        i > heads \/ (inBody /\ i = heads) => Plan[c][i] \notin done2 \cup sent2
  BY DEF Agrees
<1> QED
  BY <1>3, <1>4, <1>5, <1>6 DEF Agrees

\* A step of channel c that touches posts of Q, none of another channel.
LEMMA ChannelStep ==
  ASSUME ReceiverAssumption, HasFields, HasFields', PostsAgree,
         NEW c \in Channels, NEW Q,
         \A d \in Channels \ {c} : channel'[d] = channel[d],
         \A d \in Channels \ {c} : \A i \in 1..Len(Plan[d]) : Plan[d][i] \notin Q,
         StoredPosts \subseteq StoredPosts', StoredPosts' \subseteq StoredPosts \cup Q,
         published \subseteq published', published' \subseteq published \cup Q,
         published' \subseteq StoredPosts',
         Agrees(c, channel'[c].link, channel'[c].heads, channel'[c].inBody,
                channel'[c].at, channel'[c].responseStatus, Answers(c)',
                StoredPosts', published')
  PROVE  PostsAgree'
<1>1. ChannelAgrees(c)'
  BY AgreesAsDefinedNext
<1>2. ASSUME NEW d \in Channels \ {c}
      PROVE  ChannelAgrees(d)'
  <2>1. Agrees(d, channel[d].link, channel[d].heads, channel[d].inBody,
               channel[d].at, channel[d].responseStatus, Answers(d),
               StoredPosts, published)
    BY AgreesAsDefined DEF PostsAgree
  <2>2. channel[d].heads \in Nat /\ Len(Plan[d]) \in Nat
    BY DEF HasFields, Fields, ReceiverAssumption
  <2>3. Answers(d) \in Seq({200, 400, 500})
    BY DEF Answers, HasFields, Fields
  <2>4. Len(Answers(d)) \in Nat
    BY <2>3
  <2>5. Agrees(d, channel[d].link, channel[d].heads, channel[d].inBody,
               channel[d].at, channel[d].responseStatus, Answers(d),
               StoredPosts', published')
    BY <2>1, <2>2, <2>4, OthersAgree
  <2>6. channel'[d] = channel[d] /\ Answers(d)' = Answers(d)
    BY <1>2 DEF Answers
  <2> QED
    BY <2>5, <2>6, AgreesAsDefinedNext
<1> QED
  BY <1>1, <1>2 DEF PostsAgree

-----------------------------------------------------------------------------
(***************************************************************************)
(* Every step keeps the invariant.                                         *)
(***************************************************************************)
\* What is known of the channel that takes a step.
Known(c) ==
  /\ Agrees(c, channel[c].link, channel[c].heads, channel[c].inBody,
            channel[c].at, channel[c].responseStatus, Answers(c),
            StoredPosts, published)
  /\ channel[c].heads \in Nat /\ Len(Plan[c]) \in Nat
  /\ channel[c].inBody \in BOOLEAN
  /\ channel[c].responses \in Seq({200, 400, 500})
  /\ channel[c].written \in Seq({200, 400, 500})
  /\ Len(channel[c].responses) \in Nat /\ Len(channel[c].written) \in Nat
  /\ Answers(c) \in Seq({200, 400, 500}) /\ Len(Answers(c)) \in Nat
  /\ Len(Answers(c)) = Len(channel[c].responses) + Len(channel[c].written)
  /\ \A i \in 1..Len(channel[c].responses) : Answers(c)[i] = channel[c].responses[i]

\* The elements of a concatenation.
LEMMA Concatenated ==
  ASSUME NEW S, NEW r \in Seq(S), NEW w \in Seq(S)
  PROVE  /\ Len(r) \in Nat /\ Len(w) \in Nat
         /\ r \o w \in Seq(S) /\ Len(r \o w) = Len(r) + Len(w)
         /\ \A i \in 1..Len(r) : (r \o w)[i] = r[i]
         /\ \A i \in 1..Len(w) : (r \o w)[Len(r) + i] = w[i]
  OBVIOUS

\* The invariant says all this of every channel.
LEMMA KnownHolds ==
  ASSUME ReceiverAssumption, HasFields, PostsAgree, NEW c \in Channels
  PROVE  Known(c)
<1>1. /\ channel[c].heads \in Nat /\ channel[c].inBody \in BOOLEAN
      /\ channel[c].responses \in Seq({200, 400, 500})
      /\ channel[c].written \in Seq({200, 400, 500})
  BY DEF HasFields, Fields
<1>2. Len(Plan[c]) \in Nat
  BY DEF ReceiverAssumption
<1>3. /\ Len(channel[c].responses) \in Nat /\ Len(channel[c].written) \in Nat
      /\ Answers(c) \in Seq({200, 400, 500}) /\ Len(Answers(c)) \in Nat
      /\ Len(Answers(c)) = Len(channel[c].responses) + Len(channel[c].written)
      /\ \A i \in 1..Len(channel[c].responses) : Answers(c)[i] = channel[c].responses[i]
  <2> DEFINE r == channel[c].responses
             w == channel[c].written
  <2>1. Answers(c) = r \o w
    BY DEF Answers
  <2>2. r \in Seq({200, 400, 500}) /\ w \in Seq({200, 400, 500})
    BY <1>1
  <2> HIDE DEF r, w
  <2>3. /\ Len(r) \in Nat /\ Len(w) \in Nat
        /\ r \o w \in Seq({200, 400, 500}) /\ Len(r \o w) = Len(r) + Len(w)
        /\ \A i \in 1..Len(r) : (r \o w)[i] = r[i]
    BY <2>2, Concatenated
  <2>4. /\ Len(r) \in Nat /\ Len(w) \in Nat
        /\ Answers(c) \in Seq({200, 400, 500}) /\ Len(Answers(c)) \in Nat
        /\ Len(Answers(c)) = Len(r) + Len(w)
        /\ \A i \in 1..Len(r) : Answers(c)[i] = r[i]
    BY <2>1, <2>3
  <2> QED
    BY <2>4, Zenon DEF r, w
<1> QED
  BY <1>1, <1>2, <1>3, AgreesAsDefined DEF PostsAgree, Known

\* A step that stores and publishes nothing.
LEMMA QuietStep ==
  ASSUME ReceiverAssumption, HasFields, HasFields', PostsAgree,
         NEW c \in Channels, UNCHANGED <<stored, published>>,
         \A d \in Channels \ {c} : channel'[d] = channel[d],
         Agrees(c, channel'[c].link, channel'[c].heads, channel'[c].inBody,
                channel'[c].at, channel'[c].responseStatus, Answers(c)',
                StoredPosts, published)
  PROVE  PostsAgree'
<1>1. StoredPosts' = StoredPosts /\ published' = published
  BY DEF StoredPosts
<1>2. published \subseteq StoredPosts
  BY DEF PostsAgree
<1> DEFINE Q == {}
<1>3. /\ StoredPosts \subseteq StoredPosts' /\ StoredPosts' \subseteq StoredPosts \cup Q
      /\ published \subseteq published' /\ published' \subseteq published \cup Q
      /\ published' \subseteq StoredPosts'
      /\ \A d \in Channels \ {c} : \A i \in 1..Len(Plan[d]) : Plan[d][i] \notin Q
  BY <1>1, <1>2
<1>4. Agrees(c, channel'[c].link, channel'[c].heads, channel'[c].inBody,
             channel'[c].at, channel'[c].responseStatus, Answers(c)',
             StoredPosts', published')
  BY <1>1
<1> HIDE DEF Q
<1> QED
  BY <1>3, <1>4, ChannelStep

\* Reading the head of a post puts it in hand.
LEMMA HeadRead ==
  ASSUME NEW c, NEW link, NEW heads \in Nat, NEW status, NEW answers,
         NEW done, NEW sent, Len(answers) \in Nat, Len(Plan[c]) \in Nat,
         NEW inBody \in BOOLEAN, ~inBody, NEW at, at = "read",
         Agrees(c, link, heads, inBody, at, status, answers, done, sent),
         heads < Len(Plan[c])
  PROVE  Agrees(c, link, heads + 1, TRUE, at, status, answers, done, sent)
<1>1. AtWork(inBody, at) = 0 /\ AtWork(TRUE, at) = 1
  BY DEF AtWork
<1>2. Len(answers) <= heads /\ (link \in {"new", "open"} => Len(answers) = heads)
  <2>1. /\ Len(answers) + AtWork(inBody, at) <= heads
        /\ link \in {"new", "open"} => Len(answers) + AtWork(inBody, at) = heads
    BY DEF Agrees
  <2> QED
    BY <1>1, <2>1
<1>3. /\ heads + 1 <= Len(Plan[c]) /\ heads + 1 > 0
      /\ Len(answers) + 1 <= heads + 1
      /\ link \in {"new", "open"} => Len(answers) + 1 = heads + 1
  BY <1>2
<1>4. \A i \in 1..Len(Plan[c]) : i > heads => Plan[c][i] \notin done \cup sent
  BY DEF Agrees
<1>5. \A i \in 1..Len(Plan[c]) :
        i > heads + 1 \/ (TRUE /\ i = heads + 1) => Plan[c][i] \notin done \cup sent
  BY <1>4
<1>6. \A i \in 1..Len(answers) : True(Plan[c][i], answers[i], done, sent)
  BY DEF Agrees
<1> QED
  BY <1>1, <1>3, <1>5, <1>6 DEF Agrees

\* Connect keeps the invariant.
LEMMA ConnectAgrees ==
  ASSUME ReceiverAssumption, HasFields, PostsAgree, NEW c \in Channels, Connect(c)
  PROVE  HasFields' /\ PostsAgree'
<1>1. Known(c)
  BY KnownHolds
<1>2. Becomes(c, "open", channel[c].heads, channel[c].inBody,
              channel[c].at, channel[c].responseStatus,
              channel[c].written, channel[c].responses)
  BY ConnectEffect
<1>3. Answers(c)' = Answers(c)
  BY <1>2 DEF Becomes, Answers
<1>4. channel[c].link = "new" /\ UNCHANGED <<stored, published>>
  BY DEF Connect
<1>5. Agrees(c, "open", channel[c].heads, channel[c].inBody,
             channel[c].at, channel[c].responseStatus, Answers(c),
             StoredPosts, published)
  BY <1>1, <1>4 DEF Agrees, Known
<1> QED
  BY <1>2, <1>3, <1>4, <1>5, QuietStep DEF Becomes

\* ReadHead keeps the invariant.
LEMMA ReadHeadAgrees ==
  ASSUME ReceiverAssumption, HasFields, PostsAgree, NEW c \in Channels, ReadHead(c)
  PROVE  HasFields' /\ PostsAgree'
<1>1. Known(c)
  BY KnownHolds
<1>2. Becomes(c, channel[c].link, channel[c].heads + 1, TRUE,
              channel[c].at, channel[c].responseStatus,
              channel[c].written, channel[c].responses)
  BY ReadHeadEffect
<1>3. Answers(c)' = Answers(c)
  BY <1>2 DEF Becomes, Answers
<1>4. /\ channel[c].at = "read" /\ ~channel[c].inBody
      /\ channel[c].heads < Len(Plan[c])
      /\ UNCHANGED <<stored, published>>
  BY DEF ReadHead, Reading
<1>5. Agrees(c, channel[c].link, channel[c].heads + 1, TRUE,
             channel[c].at, channel[c].responseStatus, Answers(c),
             StoredPosts, published)
  BY <1>1, <1>4, HeadRead DEF Known
<1> QED
  BY <1>2, <1>3, <1>4, <1>5, QuietStep DEF Becomes

\* ReadContent keeps the invariant.
LEMMA ReadContentAgrees ==
  ASSUME ReceiverAssumption, HasFields, PostsAgree, NEW c \in Channels,
         ReadContent(c)
  PROVE  HasFields' /\ PostsAgree'
<1>1. Known(c)
  BY KnownHolds
<1>2. Becomes(c, channel[c].link, channel[c].heads, channel[c].inBody,
              channel[c].at, channel[c].responseStatus,
              channel[c].written, channel[c].responses)
  BY ReadContentEffect
<1>3. Answers(c)' = Answers(c)
  BY <1>2 DEF Becomes, Answers
<1>4. UNCHANGED <<stored, published>>
  BY DEF ReadContent
<1> QED
  BY <1>1, <1>2, <1>3, <1>4, QuietStep DEF Becomes, Known

\* ReadLast keeps the invariant.
LEMMA ReadLastAgrees ==
  ASSUME ReceiverAssumption, HasFields, PostsAgree, NEW c \in Channels,
         ReadLast(c)
  PROVE  HasFields' /\ PostsAgree'
<1>1. Known(c)
  BY KnownHolds
<1>0. PICK readable \in BOOLEAN :
        LET good == Kind[Request(c)] = "valid" /\ readable
        IN  Becomes(c, channel[c].link, channel[c].heads, FALSE,
                    IF good THEN "save" ELSE "respond",
                    IF good THEN 200 ELSE Refusal(Request(c), readable),
                    channel[c].written, channel[c].responses)
  BY ReadLastEffect
<1> DEFINE good   == Kind[Request(c)] = "valid" /\ readable
           at     == IF good THEN "save" ELSE "respond"
           status == IF good THEN 200 ELSE Refusal(Request(c), readable)
<1>2. Becomes(c, channel[c].link, channel[c].heads, FALSE, at, status,
              channel[c].written, channel[c].responses)
  BY <1>0
<1>3. Answers(c)' = Answers(c)
  BY <1>2 DEF Becomes, Answers
<1>4. channel[c].inBody /\ channel[c].at = "read" /\ UNCHANGED <<stored, published>>
  BY DEF ReadLast, Reading
<1>5. \/ at = "save" /\ status = 200
      \/ at = "respond" /\ status \in {400, 500}
  BY DEF Refusal
<1> HIDE DEF at, status
<1>6. Agrees(c, channel[c].link, channel[c].heads, FALSE, at, status,
             Answers(c), StoredPosts, published)
  <2>1. AtWork(FALSE, at) = AtWork(channel[c].inBody, channel[c].at)
    BY <1>4, <1>5 DEF AtWork
  <2>2. channel[c].heads \in 1..Len(Plan[c])
    BY <1>1, <1>4 DEF Agrees, Known
  <2>3. Plan[c][channel[c].heads] \notin StoredPosts \cup published
    BY <1>1, <1>4, <2>2 DEF Agrees, Known
  <2>4. at = "respond" =>
          True(Plan[c][channel[c].heads], status, StoredPosts, published)
    BY <1>5, <2>3 DEF True
  <2>5. /\ channel[c].heads <= Len(Plan[c]) /\ channel[c].heads > 0
        /\ \A i \in 1..Len(Answers(c)) :
             True(Plan[c][i], Answers(c)[i], StoredPosts, published)
        /\ \A i \in 1..Len(Plan[c]) :
             i > channel[c].heads => Plan[c][i] \notin StoredPosts \cup published
    <3> DEFINE h      == channel[c].heads
               was    == channel[c].responseStatus
               link   == channel[c].link
               inBody == channel[c].inBody
               old    == channel[c].at
    <3>1. Agrees(c, link, h, inBody, old, was, Answers(c), StoredPosts, published)
      BY <1>1 DEF Known
    <3>2. h > 0
      BY <2>2
    <3> HIDE DEF h, was, link, inBody, old
    <3> QED
      BY <3>1, <3>2 DEF Agrees, h
  <2>6. /\ Len(Answers(c)) + AtWork(FALSE, at) <= channel[c].heads
        /\ channel[c].link \in {"new", "open"} =>
             Len(Answers(c)) + AtWork(FALSE, at) = channel[c].heads
    BY <1>1, <2>1 DEF Agrees, Known
  <2> QED
    BY <1>5, <2>4, <2>5, <2>6, ZenonT(40) DEF Agrees
<1> QED
  BY <1>2, <1>3, <1>4, <1>6, QuietStep DEF Becomes

\* The posts of a plan are different from each other and from all others.
LEMMA PlansApart ==
  ASSUME ReceiverAssumption, NEW c \in Channels, NEW h \in 1..Len(Plan[c])
  PROVE  /\ Plan[c][h] \in Posts
         /\ \A i \in 1..Len(Plan[c]) : i # h => Plan[c][i] # Plan[c][h]
         /\ \A d \in Channels \ {c} : \A i \in 1..Len(Plan[d]) :
              Plan[d][i] # Plan[c][h]
<1>1. \A d \in Channels : Plan[d] \in Seq(Posts) /\ DOMAIN Plan[d] = 1..Len(Plan[d])
  BY DEF ReceiverAssumption
<1> QED
  BY <1>1 DEF ReceiverAssumption

\* A step of channel c that stores or publishes its latest post at most.
LEMMA WorkingStep ==
  ASSUME ReceiverAssumption, HasFields, PostsAgree, NEW c \in Channels,
         channel[c].at \in {"save", "publish"},
         NEW at \in {"publish", "respond"}, NEW status,
         Becomes(c, channel[c].link, channel[c].heads, channel[c].inBody, at,
                 status, channel[c].written, channel[c].responses),
         StoredPosts \subseteq StoredPosts',
         StoredPosts' \subseteq StoredPosts \cup {Request(c)},
         published \subseteq published',
         published' \subseteq published \cup {Request(c)},
         published' \subseteq StoredPosts',
         at = "publish" => status = 200 /\ Request(c) \in StoredPosts',
         at = "respond" => True(Request(c), status, StoredPosts', published')
  PROVE  HasFields' /\ PostsAgree'
<1>1. Known(c)
  BY KnownHolds
<1>2. Answers(c)' = Answers(c)
  BY DEF Becomes, Answers
<1> DEFINE p == Plan[c][channel[c].heads]
<1>3. p = Request(c)
  BY DEF Request
<1>4. channel[c].heads \in 1..Len(Plan[c])
  BY <1>1 DEF Known, Agrees
<1>5. /\ \A i \in 1..Len(Plan[c]) : i # channel[c].heads => Plan[c][i] # p
      /\ \A d \in Channels \ {c} : \A i \in 1..Len(Plan[d]) : Plan[d][i] # p
  <2> DEFINE h == channel[c].heads
  <2>1. h \in 1..Len(Plan[c])
    BY <1>4
  <2> HIDE DEF h
  <2> QED
    BY <2>1, PlansApart, SMTT(30) DEF h
<1> HIDE DEF p
<1>6. /\ channel'[c].link = channel[c].link /\ channel'[c].heads = channel[c].heads
      /\ channel'[c].inBody = channel[c].inBody /\ channel'[c].at = at
      /\ channel'[c].responseStatus = status
      /\ \A d \in Channels \ {c} : channel'[d] = channel[d]
      /\ HasFields'
  BY DEF Becomes
<1>7. Agrees(c, channel[c].link, channel[c].heads, channel[c].inBody, at, status,
             Answers(c), StoredPosts', published')
  <2> DEFINE h       == channel[c].heads
             inBody  == channel[c].inBody
             old     == channel[c].at
             was     == channel[c].responseStatus
             link    == channel[c].link
             answers == Answers(c)
             done    == StoredPosts
             done2   == StoredPosts'
             sent    == published
             sent2   == published'
  <2>1. /\ Agrees(c, link, h, inBody, old, was, answers, done, sent)
        /\ h \in Nat /\ inBody \in BOOLEAN
        /\ Len(answers) \in Nat /\ Len(Plan[c]) \in Nat
    BY <1>1 DEF Known
  <2>2. old \in {"save", "publish"} /\ h \in 1..Len(Plan[c])
    BY <1>4
  <2>3. /\ p = Plan[c][h]
        /\ done \subseteq done2 /\ done2 \subseteq done \cup {p}
        /\ sent \subseteq sent2 /\ sent2 \subseteq sent \cup {p}
    BY <1>3 DEF p
  <2>4. /\ at = "publish" => status = 200 /\ p \in done2
        /\ at = "respond" => True(p, status, done2, sent2)
    BY <1>3
  <2>5. \A i \in 1..Len(Plan[c]) : i # h => Plan[c][i] # p
    BY <1>5
  <2> HIDE DEF h, link, inBody, old, was, answers, done, done2, sent, sent2
  <2>6. /\ ~inBody
        /\ AtWork(inBody, old) = 1 /\ AtWork(inBody, at) = 1
    BY <2>1, <2>2 DEF AtWork, Agrees
  <2>7. Len(answers) + 1 <= h
    BY <2>1, <2>6 DEF Agrees
  <2>8. \A i \in 1..Len(answers) : True(Plan[c][i], answers[i], done2, sent2)
    <3> TAKE i \in 1..Len(answers)
    <3>1. i \in 1..Len(Plan[c]) /\ i # h
      BY <2>1, <2>2, <2>7
    <3>2. Plan[c][i] # p /\ True(Plan[c][i], answers[i], done, sent)
      BY <2>1, <2>5, <3>1 DEF Agrees
    <3> QED
      BY <2>3, <3>2 DEF True
  <2>9. \A i \in 1..Len(Plan[c]) :
          i > h \/ (inBody /\ i = h) => Plan[c][i] \notin done2 \cup sent2
    <3> TAKE i \in 1..Len(Plan[c])
    <3> HAVE i > h \/ (inBody /\ i = h)
    <3>1. i > h
      BY <2>6
    <3>2. Plan[c][i] # p /\ Plan[c][i] \notin done \cup sent
      BY <2>1, <2>5, <3>1 DEF Agrees
    <3> QED
      BY <2>3, <3>2
  <2>10. Agrees(c, link, h, inBody, at, status, answers, done2, sent2)
    BY <2>1, <2>2, <2>3, <2>4, <2>6, <2>7, <2>8, <2>9 DEF Agrees
  <2> QED
    BY <2>10 DEF link, h, inBody, answers, done2, sent2
<1>8. Agrees(c, channel'[c].link, channel'[c].heads, channel'[c].inBody,
             channel'[c].at, channel'[c].responseStatus, Answers(c)',
             StoredPosts', published')
  BY <1>2, <1>6, <1>7
<1>9. \A d \in Channels \ {c} : \A i \in 1..Len(Plan[d]) : Plan[d][i] \notin {p}
  BY <1>5
<1>10. /\ StoredPosts' \subseteq StoredPosts \cup {p}
       /\ published' \subseteq published \cup {p}
  BY <1>3
<1>11. PostsAgree'
  BY <1>6, <1>8, <1>9, <1>10, ChannelStep, ZenonT(40)
<1> QED
  BY <1>6, <1>11

\* A row inserted for a post stores the post.
LEMMA RowStored ==
  ASSUME NEW c, stored' = stored \cup {Row(c)}
  PROVE  StoredPosts' = StoredPosts \cup {Request(c)}
<1> DEFINE row == Row(c)
           p   == Request(c)
<1>1. row.post = p
  BY DEF Row
<1> HIDE DEF row, p
<1>2. stored' = stored \cup {row}
  BY DEF row
<1>3. StoredPosts' = StoredPosts \cup {p}
  BY <1>1, <1>2 DEF StoredPosts
<1> QED
  BY <1>3 DEF p

\* Save keeps the invariant.
LEMMA SaveAgrees ==
  ASSUME ReceiverAssumption, HasFields, PostsAgree, NEW c \in Channels, Save(c)
  PROVE  HasFields' /\ PostsAgree'
<1>1. /\ channel[c].at = "save" /\ published' = published
      /\ StoredPosts' = StoredPosts \cup {Request(c)}
  BY RowStored DEF Save
<1>2. channel[c].responseStatus = 200 /\ published \subseteq StoredPosts
  BY <1>1 DEF PostsAgree, ChannelAgrees
<1>3. Becomes(c, channel[c].link, channel[c].heads, channel[c].inBody, "publish", 200,
              channel[c].written, channel[c].responses)
  BY <1>2, SaveEffect
<1> DEFINE at == "publish"
<1>4. /\ at \in {"publish", "respond"} /\ at # "respond"
      /\ Becomes(c, channel[c].link, channel[c].heads, channel[c].inBody, at, 200,
                 channel[c].written, channel[c].responses)
  BY <1>3
<1> HIDE DEF at
<1> QED
  BY <1>1, <1>2, <1>4, WorkingStep

\* Publish keeps the invariant.
LEMMA PublishAgrees ==
  ASSUME ReceiverAssumption, HasFields, PostsAgree, NEW c \in Channels, Publish(c)
  PROVE  HasFields' /\ PostsAgree'
<1>1. /\ channel[c].at = "publish" /\ StoredPosts' = StoredPosts
      /\ published' = published \cup {Request(c)}
  BY DEF Publish, StoredPosts
<1>2. /\ channel[c].responseStatus = 200 /\ Request(c) \in StoredPosts
      /\ published \subseteq StoredPosts
  BY <1>1 DEF PostsAgree, ChannelAgrees
<1>3. Becomes(c, channel[c].link, channel[c].heads, channel[c].inBody, "respond", 200,
              channel[c].written, channel[c].responses)
  BY <1>2, PublishEffect
<1>4. True(Request(c), 200, StoredPosts', published')
  BY <1>1, <1>2 DEF True
<1>5. /\ StoredPosts \subseteq StoredPosts'
      /\ StoredPosts' \subseteq StoredPosts \cup {Request(c)}
      /\ published \subseteq published'
      /\ published' \subseteq published \cup {Request(c)}
      /\ published' \subseteq StoredPosts'
  BY <1>1, <1>2
<1> DEFINE at     == "respond"
           status == 200
<1>6. /\ at \in {"publish", "respond"} /\ at # "publish"
      /\ Becomes(c, channel[c].link, channel[c].heads, channel[c].inBody, at, status,
                 channel[c].written, channel[c].responses)
      /\ True(Request(c), status, StoredPosts', published')
  BY <1>3, <1>4
<1> HIDE DEF at, status
<1> QED
  BY <1>1, <1>5, <1>6, WorkingStep

\* Fail keeps the invariant.
LEMMA FailAgrees ==
  ASSUME ReceiverAssumption, HasFields, PostsAgree, NEW c \in Channels, Fail(c)
  PROVE  HasFields' /\ PostsAgree'
<1>1. /\ channel[c].at \in {"save", "publish"}
      /\ StoredPosts' = StoredPosts \/ StoredPosts' = StoredPosts \cup {Request(c)}
      /\ published' = published \/ published' = published \cup {Request(c)}
      /\ channel[c].at = "save" => published' = published
      /\ channel[c].at = "publish" => StoredPosts' = StoredPosts
  <2>1. stored' = stored => StoredPosts' = StoredPosts
    BY DEF StoredPosts
  <2>2. CASE channel[c].at = "save"
    BY <2>1, <2>2, RowStored DEF Fail
  <2>3. CASE channel[c].at # "save"
    BY <2>1, <2>3 DEF Fail
  <2> QED
    BY <2>2, <2>3
<1>2. /\ channel[c].at = "publish" => Request(c) \in StoredPosts
      /\ published \subseteq StoredPosts
  BY DEF PostsAgree, ChannelAgrees
<1>3. Becomes(c, channel[c].link, channel[c].heads, channel[c].inBody, "respond", 500,
              channel[c].written, channel[c].responses)
  BY FailEffect
<1>4. True(Request(c), 500, StoredPosts', published')
  BY DEF True
<1>5. /\ StoredPosts \subseteq StoredPosts'
      /\ StoredPosts' \subseteq StoredPosts \cup {Request(c)}
      /\ published \subseteq published'
      /\ published' \subseteq published \cup {Request(c)}
      /\ published' \subseteq StoredPosts'
  BY <1>1, <1>2
<1> DEFINE at     == "respond"
           status == 500
<1>6. /\ at \in {"publish", "respond"} /\ at # "publish"
      /\ Becomes(c, channel[c].link, channel[c].heads, channel[c].inBody, at, status,
                 channel[c].written, channel[c].responses)
      /\ True(Request(c), status, StoredPosts', published')
  BY <1>3, <1>4
<1> HIDE DEF at, status
<1> QED
  BY <1>1, <1>5, <1>6, WorkingStep

\* Answers are some of those there were, and one more if the connection is open.
Extends(link, link2, answers, answers2, status) ==
  LET n == Len(answers2)
  IN  /\ n \in Nat /\ n <= Len(answers) + 1
      /\ \A i \in 1..n : i <= Len(answers) => answers2[i] = answers[i]
      /\ n = Len(answers) + 1 => link = "open" /\ answers2[n] = status
      /\ link2 \in {"new", "open"} => n = Len(answers) + 1

\* The handler is done with its post.  What it has written is flushed, waits, or
\* is lost with the connection.
LEMMA Answered ==
  ASSUME NEW c, NEW link, NEW heads \in Nat, NEW inBody \in BOOLEAN, NEW at,
         at = "respond", NEW status, NEW answers, NEW done, NEW sent,
         Len(answers) \in Nat, Len(Plan[c]) \in Nat,
         Agrees(c, link, heads, inBody, at, status, answers, done, sent),
         NEW answers2, NEW link2, Extends(link, link2, answers, answers2, status)
  PROVE  Agrees(c, link2, heads, inBody, "read", status, answers2, done, sent)
<1> DEFINE n == Len(answers2)
<1>0. /\ n \in Nat /\ n <= Len(answers) + 1
      /\ \A i \in 1..n : i <= Len(answers) => answers2[i] = answers[i]
      /\ n = Len(answers) + 1 => link = "open" /\ answers2[n] = status
      /\ link2 \in {"new", "open"} => n = Len(answers) + 1
  BY DEF Extends
<1> HIDE DEF n
<1>1. ~inBody /\ AtWork(inBody, at) = 1 /\ AtWork(inBody, "read") = 0
  BY DEF AtWork, Agrees
<1>2. /\ heads \in 1..Len(Plan[c]) /\ Len(answers) + 1 <= heads
      /\ link = "open" => Len(answers) + 1 = heads
  BY <1>0, <1>1 DEF Agrees
<1>3. \A i \in 1..n : True(Plan[c][i], answers2[i], done, sent)
  <2> TAKE i \in 1..n
  <2>1. CASE i <= Len(answers)
    BY <1>0, <2>1 DEF Agrees
  <2>2. CASE i > Len(answers)
    <3>1. i = n /\ n = Len(answers) + 1
      BY <1>0, <2>2
    <3>2. i = heads /\ answers2[i] = status
      BY <1>0, <1>2, <3>1
    <3> QED
      BY <3>2 DEF Agrees
  <2> QED
    BY <2>1, <2>2
<1>4. /\ n + 0 <= heads
      /\ link2 \in {"new", "open"} => n + 0 = heads
  BY <1>0, <1>2
<1> QED
  BY <1>0, <1>1, <1>2, <1>3, <1>4 DEF Agrees, n

\* The first of the answers, and no others.
Begins(answers, answers2) ==
  /\ Len(answers2) \in Nat /\ Len(answers2) <= Len(answers)
  /\ \A i \in 1..Len(answers2) : answers2[i] = answers[i]

\* The handler goes on, or is gone too.
Ends(at, at2, link2) == at2 \in {at, "read"} /\ link2 \in {"closing", "closed"}

\* The connection ends; answers that were not flushed are lost.
LEMMA Cut ==
  ASSUME NEW c, NEW link, NEW heads \in Nat, NEW inBody \in BOOLEAN, NEW at,
         NEW status, NEW answers, NEW done, NEW sent,
         Len(answers) \in Nat, Len(Plan[c]) \in Nat,
         Agrees(c, link, heads, inBody, at, status, answers, done, sent),
         NEW answers2, Begins(answers, answers2),
         NEW at2, NEW link2, Ends(at, at2, link2)
  PROVE  Agrees(c, link2, heads, inBody, at2, status, answers2, done, sent)
<1>0. at2 \in {at, "read"} /\ link2 \in {"closing", "closed"}
  BY DEF Ends
<1>1. AtWork(inBody, at2) <= AtWork(inBody, at) /\ AtWork(inBody, at2) \in {0, 1}
  BY <1>0 DEF AtWork, Agrees
<1>2. Len(answers2) + AtWork(inBody, at2) <= heads
  <2>1. Len(answers) + AtWork(inBody, at) <= heads /\ AtWork(inBody, at) \in {0, 1}
    BY DEF Agrees, AtWork
  <2>2. Len(answers2) \in Nat /\ Len(answers2) <= Len(answers)
    BY DEF Begins
  <2> QED
    BY <1>1, <2>1, <2>2
<1>3. \A i \in 1..Len(answers2) : True(Plan[c][i], answers2[i], done, sent)
  BY DEF Agrees, Begins
<1>4. /\ (inBody \/ at2 # "read") => heads > 0
      /\ inBody => at2 = "read"
  BY <1>0 DEF Agrees
<1> QED
  BY <1>0, <1>2, <1>3, <1>4 DEF Agrees

\* The answers of a channel when it writes another.
LEMMA OneMore ==
  ASSUME NEW S, NEW r \in Seq(S), NEW w \in Seq(S), NEW s \in S
  PROVE  /\ w \o <<s>> \in Seq(S) /\ r \o (w \o <<s>>) \in Seq(S)
         /\ Len(r \o (w \o <<s>>)) = Len(r \o w) + 1
         /\ \A i \in 1..Len(r \o w) : (r \o (w \o <<s>>))[i] = (r \o w)[i]
         /\ (r \o (w \o <<s>>))[Len(r \o w) + 1] = s
  OBVIOUS

\* The answers of a channel that has flushed them all.
LEMMA NothingMore ==
  ASSUME NEW S, NEW r \in Seq(S)
  PROVE  /\ r \o <<>> \in Seq(S) /\ Len(r \o <<>>) = Len(r)
         /\ \A i \in 1..Len(r) : (r \o <<>>)[i] = r[i]
  OBVIOUS

\* Respond keeps the invariant.
LEMMA RespondAgrees ==
  ASSUME ReceiverAssumption, HasFields, PostsAgree, NEW c \in Channels, Respond(c)
  PROVE  HasFields' /\ PostsAgree'
<1> DEFINE r       == channel[c].responses
           w       == channel[c].written
           s       == channel[c].responseStatus
           isOpen  == channel[c].link = "open"
           stays   == isOpen /\ KeepAlive[Request(c)]
           link    == channel[c].link
           link2   == IF stays THEN link ELSE "closing"
           heads   == channel[c].heads
           inBody  == channel[c].inBody
           at      == channel[c].at
           read    == "read"
           longer  == r \o (w \o <<s>>)
           w2      == IF stays THEN w \o <<s>> ELSE <<>>
           r2      == IF isOpen /\ ~stays THEN longer ELSE r
           answers == r \o w
           then    == r2 \o w2
           done    == StoredPosts
           sent    == published
<1>1. Known(c)
  BY KnownHolds
<1>2. Becomes(c, link2, heads, inBody, "read", s, w2, r2)
  BY RespondEffect
<1>3. /\ at = "respond" /\ UNCHANGED <<stored, published>>
      /\ Answers(c) = answers
  BY DEF Respond, Answers
<1>4. s \in {200, 400, 500}
  BY DEF HasFields, Fields
<1>5. /\ r \in Seq({200, 400, 500}) /\ w \in Seq({200, 400, 500})
      /\ Len(answers) \in Nat
      /\ heads \in Nat /\ inBody \in BOOLEAN /\ Len(Plan[c]) \in Nat
      /\ Agrees(c, link, heads, inBody, at, s, answers, done, sent)
  BY <1>1, <1>3 DEF Known
<1>6. Answers(c)' = then
  BY <1>2 DEF Becomes, Answers
<1> HIDE DEF r, w, s
<1>7. /\ w \o <<s>> \in Seq({200, 400, 500}) /\ longer \in Seq({200, 400, 500})
      /\ Len(longer) = Len(answers) + 1
      /\ \A i \in 1..Len(answers) : longer[i] = answers[i]
      /\ longer[Len(answers) + 1] = s
  BY <1>4, <1>5, OneMore
<1>8. /\ Len(r) \in Nat /\ Len(r) <= Len(answers)
      /\ \A i \in 1..Len(r) : answers[i] = r[i]
  BY <1>5, Concatenated
<1>9. /\ \/ isOpen /\ Len(then) = Len(answers) + 1 /\ then[Len(answers) + 1] = s
         \/ ~isOpen /\ Len(then) <= Len(answers)
      /\ Len(then) \in Nat
      /\ \A i \in 1..Len(then) : i <= Len(answers) => then[i] = answers[i]
  <2>1. CASE stays
    BY <1>5, <1>7, <2>1
  <2>2. CASE isOpen /\ ~stays
    <3>1. w2 = <<>> /\ r2 = longer
      BY <2>2
    <3> HIDE DEF longer, w2, r2, answers
    <3>2. then = longer \o <<>>
      BY <3>1
    <3>3. /\ longer \o <<>> \in Seq({200, 400, 500})
          /\ Len(longer \o <<>>) = Len(longer)
          /\ \A i \in 1..Len(longer) : (longer \o <<>>)[i] = longer[i]
      BY <1>7, NothingMore
    <3> QED
      BY <1>5, <1>7, <2>2, <3>2, <3>3
  <2>3. CASE ~isOpen
    <3>1. /\ then = r \o <<>> /\ r \o <<>> \in Seq({200, 400, 500})
          /\ Len(r \o <<>>) = Len(r)
          /\ \A i \in 1..Len(r) : (r \o <<>>)[i] = r[i]
      BY <1>5, <2>3, NothingMore
    <3> QED
      BY <1>8, <2>3, <3>1
  <2> QED
    BY <2>1, <2>2, <2>3
<1>10. link2 \in {"new", "open"} => isOpen
  OBVIOUS
<1>11. isOpen => link = "open"
  OBVIOUS
<1> HIDE DEF isOpen, link, link2, heads, inBody, at, answers, then, done, sent
<1>12. Agrees(c, link2, heads, inBody, "read", s, then, done, sent)
  <2> DEFINE n == Len(then)
  <2>1. /\ n = Len(then) /\ n \in Nat /\ n <= Len(answers) + 1
        /\ \A i \in 1..n : i <= Len(answers) => then[i] = answers[i]
        /\ n = Len(answers) + 1 => link = "open" /\ then[n] = s
        /\ link2 \in {"new", "open"} => n = Len(answers) + 1
    BY <1>5, <1>9, <1>10, <1>11
  <2> HIDE DEF n
  <2>2. Extends(link, link2, answers, then, s)
    BY <2>1 DEF Extends
  <2> QED
    BY <1>3, <1>5, <2>2, Answered
<1> QED
  BY <1>2, <1>3, <1>6, <1>12, QuietStep
     DEF Becomes, link2, heads, inBody, s, then, done, sent

\* ReadComplete keeps the invariant.
LEMMA ReadCompleteAgrees ==
  ASSUME ReceiverAssumption, HasFields, PostsAgree, NEW c \in Channels,
         ReadComplete(c)
  PROVE  HasFields' /\ PostsAgree'
<1> DEFINE r == channel[c].responses
           w == channel[c].written
<1>1. /\ Known(c) /\ Answers(c) = r \o w
      /\ UNCHANGED <<stored, published>>
  BY KnownHolds DEF Answers, ReadComplete
<1>2. /\ r \in Seq({200, 400, 500}) /\ w \in Seq({200, 400, 500})
      /\ r \o w \in Seq({200, 400, 500})
  BY <1>1 DEF Known
<1>3. CASE channel[c].link = "open"
  <2>1. Becomes(c, "open", channel[c].heads, channel[c].inBody, channel[c].at,
                channel[c].responseStatus, <<>>, r \o w)
    BY <1>3, ReadCompleteEffect
  <2>2. Answers(c)' = (r \o w) \o <<>>
    BY <2>1 DEF Becomes, Answers
  <2> HIDE DEF r, w
  <2>3. Answers(c)' = Answers(c)
    BY <1>1, <1>2, <2>2
  <2>4. Agrees(c, "open", channel[c].heads, channel[c].inBody, channel[c].at,
               channel[c].responseStatus, Answers(c), StoredPosts, published)
    BY <1>1, <1>3 DEF Known
  <2> QED
    BY <1>1, <2>1, <2>3, <2>4, QuietStep DEF Becomes
<1>4. CASE channel[c].link # "open"
  <2> DEFINE link == "closed"
  <2>1. Becomes(c, link, channel[c].heads, channel[c].inBody, channel[c].at,
                channel[c].responseStatus, w, r)
    BY <1>4, ReadCompleteEffect
  <2>2. Answers(c)' = Answers(c)
    BY <1>1, <2>1 DEF Becomes, Answers
  <2>3. link \notin {"new", "open"}
    OBVIOUS
  <2> HIDE DEF r, w, link
  <2>4. Agrees(c, link, channel[c].heads, channel[c].inBody, channel[c].at,
               channel[c].responseStatus, Answers(c), StoredPosts, published)
    BY <1>1, <2>3 DEF Known, Agrees
  <2> QED
    BY <1>1, <2>1, <2>2, <2>4, QuietStep DEF Becomes
<1> QED
  BY <1>3, <1>4

\* The answers left when what was written is lost.
LEMMA LosingWritten ==
  ASSUME ReceiverAssumption, HasFields, PostsAgree, NEW c \in Channels,
         NEW at \in {channel[c].at, "read"}, NEW link \in {"closing", "closed"}
  PROVE  Agrees(c, link, channel[c].heads, channel[c].inBody, at,
                channel[c].responseStatus, channel[c].responses \o <<>>,
                StoredPosts, published)
<1> DEFINE r     == channel[c].responses
           less  == r \o <<>>
<1>1. Known(c)
  BY KnownHolds
<1>2. r \in Seq({200, 400, 500})
  BY <1>1 DEF Known
<1>3. /\ Len(r) \in Nat /\ Len(Answers(c)) \in Nat
      /\ Len(r) <= Len(Answers(c))
      /\ \A i \in 1..Len(r) : Answers(c)[i] = r[i]
  <2>1. /\ Len(r) \in Nat /\ Len(channel[c].written) \in Nat
        /\ Len(Answers(c)) = Len(r) + Len(channel[c].written)
        /\ \A i \in 1..Len(r) : Answers(c)[i] = r[i]
    BY <1>1 DEF Known
  <2> HIDE DEF r
  <2> QED
    BY <2>1
<1>4. Len(less) = Len(r) /\ \A i \in 1..Len(r) : less[i] = r[i]
  <2> HIDE DEF r
  <2> QED
    BY <1>2, NothingMore
<1> HIDE DEF less, r
<1>5. Begins(Answers(c), less)
  BY <1>3, <1>4 DEF Begins
<1>6. /\ channel[c].heads \in Nat /\ Len(Plan[c]) \in Nat
      /\ channel[c].inBody \in BOOLEAN
      /\ Agrees(c, channel[c].link, channel[c].heads, channel[c].inBody,
                channel[c].at, channel[c].responseStatus, Answers(c),
                StoredPosts, published)
  BY <1>1 DEF Known
<1>7. Agrees(c, link, channel[c].heads, channel[c].inBody, at,
             channel[c].responseStatus, less, StoredPosts, published)
  <2> DEFINE link1   == channel[c].link
             heads   == channel[c].heads
             inBody  == channel[c].inBody
             at1     == channel[c].at
             status  == channel[c].responseStatus
             answers == Answers(c)
             done    == StoredPosts
  <2>1. /\ at \in {at1, "read"} /\ heads \in Nat /\ inBody \in BOOLEAN
        /\ Len(answers) \in Nat /\ Len(Plan[c]) \in Nat
        /\ Agrees(c, link1, heads, inBody, at1, status, answers, done, published)
        /\ Begins(answers, less) /\ Ends(at1, at, link)
    BY <1>3, <1>5, <1>6 DEF Ends
  <2> HIDE DEF link1, heads, inBody, at1, status, answers, done
  <2>2. Agrees(c, link, heads, inBody, at, status, less, done, published)
    BY <2>1, Cut
  <2> QED
    BY <2>2 DEF heads, inBody, status, done
<1> QED
  BY <1>7 DEF less, r

\* Lose keeps the invariant.
LEMMA LoseAgrees ==
  ASSUME ReceiverAssumption, HasFields, PostsAgree, NEW c \in Channels, Lose(c)
  PROVE  HasFields' /\ PostsAgree'
<1>1. Becomes(c, "closing", channel[c].heads, channel[c].inBody, channel[c].at,
              channel[c].responseStatus, <<>>, channel[c].responses)
  BY LoseEffect
<1>2. /\ Answers(c)' = channel[c].responses \o <<>>
      /\ UNCHANGED <<stored, published>>
  BY <1>1 DEF Becomes, Answers, Lose
<1>3. Agrees(c, "closing", channel[c].heads, channel[c].inBody, channel[c].at,
             channel[c].responseStatus, channel[c].responses \o <<>>,
             StoredPosts, published)
  BY LosingWritten
<1> QED
  BY <1>1, <1>2, <1>3, QuietStep DEF Becomes

\* Crash keeps the invariant.
LEMMA CrashAgrees ==
  ASSUME ReceiverAssumption, HasFields, PostsAgree, Crash
  PROVE  HasFields' /\ PostsAgree'
<1>1. /\ StoredPosts' = StoredPosts /\ published' = published
      /\ published \subseteq StoredPosts
  BY DEF Crash, StoredPosts, PostsAgree
<1>2. HasFields'
  BY CrashEffect
<1>3. ASSUME NEW c \in Channels
      PROVE  ChannelAgrees(c)'
  <2>1. CASE channel'[c] = channel[c]
    <3>1. Answers(c)' = Answers(c)
      BY <2>1 DEF Answers
    <3>2. Agrees(c, channel'[c].link, channel'[c].heads, channel'[c].inBody,
                 channel'[c].at, channel'[c].responseStatus, Answers(c)',
                 StoredPosts', published')
      <4>1. Known(c)
        BY KnownHolds
      <4> QED
        BY <1>1, <2>1, <3>1, <4>1 DEF Known
    <3> QED
      BY <1>2, <3>2, AgreesAsDefinedNext
  <2>2. CASE /\ channel'[c].link = "closed" /\ channel'[c].at = "read"
             /\ channel'[c].written = <<>>
             /\ channel'[c].heads = channel[c].heads
             /\ channel'[c].inBody = channel[c].inBody
             /\ channel'[c].responses = channel[c].responses
    <3>1. Answers(c)' = channel[c].responses \o <<>>
      BY <2>2 DEF Answers
    <3> DEFINE s == channel'[c].responseStatus
    <3>2. Agrees(c, "closed", channel[c].heads, channel[c].inBody, "read",
                 channel[c].responseStatus, channel[c].responses \o <<>>,
                 StoredPosts, published)
      BY LosingWritten
    <3>3. Agrees(c, "closed", channel[c].heads, channel[c].inBody, "read",
                 s, channel[c].responses \o <<>>, StoredPosts, published)
      <4> HIDE DEF s
      <4> QED
        BY <3>2 DEF Agrees
    <3>4. Agrees(c, channel'[c].link, channel'[c].heads, channel'[c].inBody,
                 channel'[c].at, s, Answers(c)', StoredPosts', published')
      BY <1>1, <2>2, <3>1, <3>3
    <3> QED
      BY <1>2, <3>4, AgreesAsDefinedNext
  <2> QED
    BY <2>1, <2>2, CrashEffect
<1> QED
  BY <1>1, <1>2, <1>3 DEF PostsAgree

\* The invariant holds at first.
LEMMA InitAgrees ==
  ASSUME ReceiverAssumption, Init
  PROVE  HasFields /\ PostsAgree
<1>1. HasFields
  BY InitFields
<1>2. StoredPosts = {} /\ published = {}
  BY DEF Init, StoredPosts
<1>3. ASSUME NEW c \in Channels
      PROVE  ChannelAgrees(c)
  <2>1. /\ channel[c].link = "new" /\ channel[c].heads = 0
        /\ channel[c].inBody = FALSE /\ channel[c].at = "read"
        /\ channel[c].responseStatus = 200
        /\ channel[c].responses = <<>> /\ channel[c].written = <<>>
    BY DEF Init, NewChannel
  <2>2. Answers(c) = <<>> \o <<>>
    BY <2>1 DEF Answers
  <2>3. Len(Answers(c)) = 0 /\ Len(Plan[c]) \in Nat
    BY <2>2 DEF ReceiverAssumption
  <2> DEFINE answers == Answers(c)
             n       == Len(answers)
  <2> HIDE DEF answers, n
  <2>4. n = 0
    BY <2>3 DEF n, answers
  <2>5. \A i \in 1..n : True(Plan[c][i], answers[i], StoredPosts, published)
    BY <2>4
  <2>6. Agrees(c, "new", 0, FALSE, "read", 200, answers, StoredPosts, published)
    BY <1>2, <2>3, <2>4, <2>5 DEF Agrees, AtWork, n
  <2>7. Agrees(c, channel[c].link, channel[c].heads, channel[c].inBody,
               channel[c].at, channel[c].responseStatus, Answers(c),
               StoredPosts, published)
    BY <2>1, <2>6, Zenon DEF answers
  <2> QED
    BY <1>1, <2>7, AgreesAsDefined
<1> QED
  BY <1>1, <1>2, <1>3 DEF PostsAgree

\* Every step keeps the invariant.
LEMMA NextAgrees ==
  ASSUME ReceiverAssumption, HasFields, PostsAgree, [Next]_vars
  PROVE  HasFields' /\ PostsAgree'
<1>1. CASE UNCHANGED vars
  <2>1. UNCHANGED <<channel, stored, published>>
    BY <1>1 DEF vars
  <2>2. HasFields'
    BY <2>1 DEF HasFields, Fields
  <2>3. PostsAgree'
    <3>1. /\ StoredPosts' = StoredPosts /\ published' = published
          /\ published \subseteq StoredPosts
      BY <2>1 DEF StoredPosts, PostsAgree
    <3>2. ASSUME NEW c \in Channels
          PROVE  ChannelAgrees(c)'
      <4>1. channel'[c] = channel[c] /\ Answers(c)' = Answers(c)
        BY <2>1 DEF Answers
      <4>2. Agrees(c, channel'[c].link, channel'[c].heads, channel'[c].inBody,
                   channel'[c].at, channel'[c].responseStatus, Answers(c)',
                   StoredPosts', published')
        <5>1. Known(c)
          BY KnownHolds
        <5> QED
          BY <3>1, <4>1, <5>1 DEF Known
      <4> QED
        BY <2>2, <4>2, AgreesAsDefinedNext
    <3> QED
      BY <3>1, <3>2 DEF PostsAgree
  <2> QED
    BY <2>2, <2>3
<1>2. CASE Next
  <2>1. CASE Crash
    BY <2>1, CrashAgrees
  <2>2. ASSUME NEW c \in Channels,
               Connect(c) \/ Read(c) \/ Handle(c) \/ ReadComplete(c) \/ Lose(c)
        PROVE  HasFields' /\ PostsAgree'
    BY <2>2, ConnectAgrees, ReadHeadAgrees, ReadContentAgrees, ReadLastAgrees,
       SaveAgrees, PublishAgrees, FailAgrees, RespondAgrees,
       ReadCompleteAgrees, LoseAgrees
       DEF Read, Handle
  <2> QED
    BY <1>2, <2>1, <2>2 DEF Next
<1> QED
  BY <1>1, <1>2

\* What the answers of every channel say, what is stored and what is published
\* agree at all times (CFHttpHandler, RequestPersisterCassandra.persist).
THEOREM PostsAlwaysAgree == Spec => [](HasFields /\ PostsAgree)
<1>1. Init => HasFields /\ PostsAgree
  BY InitAgrees, ReceiverAssumption
<1>2. HasFields /\ PostsAgree /\ [Next]_vars => (HasFields /\ PostsAgree)'
  BY NextAgrees, ReceiverAssumption
<1> QED
  BY <1>1, <1>2, PTL DEF Spec
-----------------------------------------------------------------------------
(***************************************************************************)
(* The answers clients have.                                               *)
(***************************************************************************)
\* The client of some channel has status s as the answer to post p.
Given(ch, p, s) ==
  \E c \in Channels : \E i \in 1..Len(ch[c].responses) :
    Plan[c][i] = p /\ ch[c].responses[i] = s

\* AnswerTo, as a formula about the value of channel.
AnswerIn(ch, p) ==
  LET statuses == UNION {{ch[c].responses[i] :
                            i \in {j \in DOMAIN (ch[c].responses) :
                                    Plan[c][j] = p}} : c \in Channels}
  IN  IF statuses = {} THEN 0 ELSE CHOOSE s \in statuses : TRUE

\* Responses are statuses, and answer posts of the plan.
OfPlan(ch) ==
  \A c \in Channels : /\ ch[c].responses \in Seq({200, 400, 500})
                      /\ Len(ch[c].responses) <= Len(Plan[c])

\* No post has two answers: a post is in one plan only, and there once.
LEMMA AnswerIsGiven ==
  ASSUME ReceiverAssumption, NEW ch, OfPlan(ch), NEW p, NEW s, Given(ch, p, s)
  PROVE  AnswerIn(ch, p) = s /\ s \in {200, 400, 500} /\ p \in Posts
<1> DEFINE statuses == UNION {{ch[c].responses[i] :
                                 i \in {j \in DOMAIN (ch[c].responses) :
                                         Plan[c][j] = p}} : c \in Channels}
<1>1. \A c \in Channels : DOMAIN (ch[c].responses) = 1..Len(ch[c].responses)
  BY DEF OfPlan
<1>2. PICK c \in Channels, i \in Nat :
        i \in 1..Len(ch[c].responses) /\ Plan[c][i] = p /\ ch[c].responses[i] = s
  BY DEF Given
<1>3. /\ Len(ch[c].responses) \in Nat /\ Len(ch[c].responses) <= Len(Plan[c])
      /\ Plan[c] \in Seq(Posts) /\ Len(Plan[c]) \in Nat
  BY DEF OfPlan, ReceiverAssumption
<1>4. i \in 1..Len(Plan[c]) /\ p \in Posts
  BY <1>2, <1>3
<1>5. s \in {200, 400, 500}
  BY <1>2 DEF OfPlan
<1>6. s \in statuses
  BY <1>1, <1>2
<1> HIDE DEF statuses
<1>7. ASSUME NEW t \in statuses
      PROVE  t = s
  <2>0. PICK d \in Channels :
          \E j \in DOMAIN (ch[d].responses) :
            Plan[d][j] = p /\ ch[d].responses[j] = t
    BY <1>7 DEF statuses
  <2>1. PICK j \in DOMAIN (ch[d].responses) :
          Plan[d][j] = p /\ ch[d].responses[j] = t
    BY <2>0
  <2>2. /\ Len(ch[d].responses) \in Nat /\ Len(ch[d].responses) <= Len(Plan[d])
        /\ Len(Plan[d]) \in Nat
    BY DEF OfPlan, ReceiverAssumption
  <2>3. j \in 1..Len(Plan[d])
    <3>1. j \in 1..Len(ch[d].responses)
      BY <1>1, <2>1
    <3> QED
      BY <2>2, <3>1
  <2>4. d = c
    BY <1>2, <1>4, <2>1, <2>3, PlansApart
  <2>5. j = i
    BY <1>2, <1>4, <2>1, <2>3, <2>4, PlansApart
  <2> QED
    BY <1>2, <2>1, <2>4, <2>5
<1>8. statuses # {} /\ (CHOOSE t \in statuses : TRUE) = s
  BY <1>6, <1>7
<1>9. AnswerIn(ch, p) = IF statuses = {} THEN 0 ELSE CHOOSE t \in statuses : TRUE
  BY DEF AnswerIn, statuses
<1> QED
  BY <1>4, <1>5, <1>8, <1>9

\* A post that no client has an answer to.
LEMMA AnswerIsNone ==
  ASSUME NEW ch, OfPlan(ch), NEW p, \A s : ~Given(ch, p, s)
  PROVE  AnswerIn(ch, p) = 0
<1>1. \A c \in Channels : DOMAIN (ch[c].responses) = 1..Len(ch[c].responses)
  BY DEF OfPlan
<1> QED
  BY <1>1 DEF Given, AnswerIn

\* What the invariant says of the responses of one channel.
LEMMA ResponsesAgree ==
  ASSUME NEW c, NEW ch, Fields(ch), NEW done, NEW sent, Len(Plan[c]) \in Nat,
         Agrees(c, ch.link, ch.heads, ch.inBody, ch.at, ch.responseStatus,
                ch.responses \o ch.written, done, sent)
  PROVE  /\ ch.responses \in Seq({200, 400, 500})
         /\ Len(ch.responses) <= Len(Plan[c])
         /\ Len(ch.responses) + AtWork(ch.inBody, ch.at) <= ch.heads
         /\ \A i \in 1..Len(ch.responses) :
              True(Plan[c][i], ch.responses[i], done, sent)
<1> DEFINE r       == ch.responses
           w       == ch.written
           answers == r \o w
           heads   == ch.heads
           work    == AtWork(ch.inBody, ch.at)
<1>1. r \in Seq({200, 400, 500}) /\ w \in Seq({200, 400, 500}) /\ heads \in Nat
  BY DEF Fields
<1>2. /\ heads <= Len(Plan[c]) /\ Len(answers) + work <= heads
      /\ \A i \in 1..Len(answers) : True(Plan[c][i], answers[i], done, sent)
      /\ work \in {0, 1}
  BY DEF Agrees, AtWork
<1> HIDE DEF r, w, heads, work
<1>3. /\ Len(r) \in Nat /\ Len(w) \in Nat
      /\ Len(answers) = Len(r) + Len(w)
      /\ \A i \in 1..Len(r) : answers[i] = r[i]
  BY <1>1, Concatenated
<1> HIDE DEF answers
<1>4. Len(r) <= Len(answers)
  BY <1>3
<1>5. Len(r) <= Len(Plan[c]) /\ Len(r) + work <= heads
  BY <1>1, <1>2, <1>3
<1>6. \A i \in 1..Len(r) : True(Plan[c][i], r[i], done, sent)
  <2> TAKE i \in 1..Len(r)
  <2>1. i \in 1..Len(answers) /\ answers[i] = r[i]
    BY <1>3
  <2> QED
    BY <1>2, <2>1
<1> QED
  BY <1>1, <1>5, <1>6 DEF r, heads, work

\* The same of all channels.
ResponsesTrue(ch, done, sent) ==
  /\ OfPlan(ch)
  /\ \A c \in Channels : \A i \in 1..Len(ch[c].responses) :
       True(Plan[c][i], ch[c].responses[i], done, sent)

\* The invariant makes them true, and the latest post's is yet to come.
LEMMA ResponsesHold ==
  ASSUME ReceiverAssumption, HasFields, PostsAgree
  PROVE  /\ ResponsesTrue(channel, StoredPosts, published)
         /\ \A c \in Channels :
              Len(channel[c].responses)
                + AtWork(channel[c].inBody, channel[c].at) <= channel[c].heads
<1> SUFFICES ASSUME NEW c \in Channels
             PROVE  /\ channel[c].responses \in Seq({200, 400, 500})
                    /\ Len(channel[c].responses) <= Len(Plan[c])
                    /\ Len(channel[c].responses)
                         + AtWork(channel[c].inBody, channel[c].at)
                           <= channel[c].heads
                    /\ \A i \in 1..Len(channel[c].responses) :
                         True(Plan[c][i], channel[c].responses[i],
                              StoredPosts, published)
  BY DEF ResponsesTrue, OfPlan
<1>1. Answers(c) = channel[c].responses \o channel[c].written
  BY DEF Answers
<1>2. Agrees(c, channel[c].link, channel[c].heads, channel[c].inBody,
             channel[c].at, channel[c].responseStatus,
             channel[c].responses \o channel[c].written, StoredPosts, published)
  <2>1. Known(c)
    BY KnownHolds
  <2> QED
    BY <1>1, <2>1 DEF Known
<1>3. Fields(channel[c]) /\ Len(Plan[c]) \in Nat
  BY DEF HasFields, ReceiverAssumption
<1> QED
  BY <1>2, <1>3, ResponsesAgree

\* The same of the next state.
LEMMA ResponsesHoldNext ==
  ASSUME ReceiverAssumption, HasFields', PostsAgree'
  PROVE  ResponsesTrue(channel', StoredPosts', published')
<1> SUFFICES ASSUME NEW c \in Channels
             PROVE  /\ channel'[c].responses \in Seq({200, 400, 500})
                    /\ Len(channel'[c].responses) <= Len(Plan[c])
                    /\ \A i \in 1..Len(channel'[c].responses) :
                         True(Plan[c][i], channel'[c].responses[i],
                              StoredPosts', published')
  BY DEF ResponsesTrue, OfPlan
<1>1. Answers(c)' = channel'[c].responses \o channel'[c].written
  BY DEF Answers
<1>2. ChannelAgrees(c)'
  BY DEF PostsAgree
<1>3. Agrees(c, channel'[c].link, channel'[c].heads, channel'[c].inBody,
             channel'[c].at, channel'[c].responseStatus, Answers(c)',
             StoredPosts', published')
  BY <1>2, AgreesAsDefinedNext
<1> DEFINE ch == channel'[c]
<1>4. /\ Fields(ch) /\ Len(Plan[c]) \in Nat
      /\ Agrees(c, ch.link, ch.heads, ch.inBody, ch.at, ch.responseStatus,
                ch.responses \o ch.written, StoredPosts', published')
  BY <1>1, <1>3 DEF HasFields, ReceiverAssumption
<1> HIDE DEF ch
<1>5. /\ ch.responses \in Seq({200, 400, 500})
      /\ Len(ch.responses) <= Len(Plan[c])
      /\ \A i \in 1..Len(ch.responses) :
           True(Plan[c][i], ch.responses[i], StoredPosts', published')
  BY <1>4, ResponsesAgree, ZenonT(40)
<1> QED
  BY <1>5 DEF ch

\* The answer a client has does not change; a client gets an answer that is true.
Grown(ch, ch2) ==
  \A c \in Channels :
    /\ Len(ch[c].responses) \in Nat
    /\ Len(ch2[c].responses) \in Nat
    /\ Len(ch[c].responses) <= Len(ch2[c].responses)
    /\ \A i \in 1..Len(ch[c].responses) : ch2[c].responses[i] = ch[c].responses[i]

\* With more responses, a post may get the answer it did not have.
LEMMA AnswersGrow ==
  ASSUME ReceiverAssumption, NEW ch, NEW ch2, NEW done, NEW sent, OfPlan(ch),
         ResponsesTrue(ch2, done, sent), Grown(ch, ch2), NEW p,
         AnswerIn(ch2, p) # AnswerIn(ch, p)
  PROVE  /\ AnswerIn(ch, p) = 0 /\ AnswerIn(ch2, p) \in {200, 400, 500}
         /\ True(p, AnswerIn(ch2, p), done, sent)
<1>0. OfPlan(ch2)
  BY DEF ResponsesTrue
<1>1. \A s : Given(ch, p, s) => Given(ch2, p, s)
  <2> SUFFICES ASSUME NEW s, Given(ch, p, s) PROVE Given(ch2, p, s)
    OBVIOUS
  <2>1. PICK c \in Channels, i \in Nat :
          i \in 1..Len(ch[c].responses) /\ Plan[c][i] = p /\ ch[c].responses[i] = s
    BY DEF Given
  <2>2. /\ Len(ch[c].responses) \in Nat /\ Len(ch2[c].responses) \in Nat
        /\ Len(ch[c].responses) <= Len(ch2[c].responses)
        /\ ch2[c].responses[i] = ch[c].responses[i]
    BY <2>1 DEF Grown
  <2>3. i \in 1..Len(ch2[c].responses)
    BY <2>1, <2>2
  <2> QED
    BY <2>1, <2>2, <2>3 DEF Given
<1>2. \A s : ~Given(ch, p, s)
  <2> SUFFICES ASSUME NEW s, Given(ch, p, s) PROVE FALSE
    OBVIOUS
  <2>1. AnswerIn(ch, p) = s
    BY AnswerIsGiven
  <2>2. Given(ch2, p, s)
    BY <1>1
  <2>3. AnswerIn(ch2, p) = s
    BY <1>0, <2>2, AnswerIsGiven
  <2> QED
    BY <2>1, <2>3
<1>3. AnswerIn(ch, p) = 0
  BY <1>2, AnswerIsNone
<1>4. PICK s : Given(ch2, p, s)
  BY <1>0, <1>3, AnswerIsNone
<1>5. AnswerIn(ch2, p) = s /\ s \in {200, 400, 500}
  BY <1>0, <1>4, AnswerIsGiven
<1>6. PICK c \in Channels, i \in Nat :
        i \in 1..Len(ch2[c].responses) /\ Plan[c][i] = p /\ ch2[c].responses[i] = s
  BY <1>4 DEF Given
<1>7. True(p, s, done, sent)
  BY <1>6 DEF ResponsesTrue
<1> QED
  BY <1>3, <1>5, <1>7

\* The answer to the post a channel has in hand is yet to come.
LEMMA InHandUnanswered ==
  ASSUME ReceiverAssumption, HasFields, PostsAgree, NEW c \in Channels,
         channel[c].at # "read"
  PROVE  Request(c) \in Posts /\ AnswerIn(channel, Request(c)) = 0
<1> DEFINE h == channel[c].heads
           p == Plan[c][h]
<1>1. /\ h \in 1..Len(Plan[c]) /\ h \in Nat /\ p = Request(c)
      /\ AtWork(channel[c].inBody, channel[c].at) = 1
  <2>1. Known(c)
    BY KnownHolds
  <2>2. AtWork(channel[c].inBody, channel[c].at) = 1
    BY DEF AtWork
  <2>3. h \in Nat /\ Len(Plan[c]) \in Nat /\ h <= Len(Plan[c]) /\ h > 0
    BY <2>1 DEF Known, Agrees
  <2> HIDE DEF h
  <2>4. h \in 1..Len(Plan[c])
    BY <2>3
  <2> QED
    BY <2>2, <2>3, <2>4 DEF Request, h
<1>2. /\ OfPlan(channel) /\ Len(channel[c].responses) + 1 <= h
      /\ Len(channel[c].responses) \in Nat
  BY <1>1, ResponsesHold DEF ResponsesTrue, OfPlan
<1>3. /\ p \in Posts
      /\ \A i \in 1..Len(Plan[c]) : i # h => Plan[c][i] # p
      /\ \A d \in Channels \ {c} : \A i \in 1..Len(Plan[d]) : Plan[d][i] # p
  BY <1>1, PlansApart
<1> HIDE DEF p, h
<1>4. ASSUME NEW s, Given(channel, p, s)
      PROVE  FALSE
  <2>1. PICK d \in Channels, i \in Nat :
          i \in 1..Len(channel[d].responses) /\ Plan[d][i] = p
    BY <1>4 DEF Given
  <2>2. /\ Len(channel[d].responses) \in Nat
        /\ Len(channel[d].responses) <= Len(Plan[d]) /\ Len(Plan[d]) \in Nat
    BY <1>2 DEF OfPlan, ReceiverAssumption
  <2>3. i \in 1..Len(Plan[d])
    BY <2>1, <2>2
  <2>4. d = c
    BY <1>3, <2>1, <2>3
  <2>5. i # h
    BY <1>1, <1>2, <2>1, <2>4
  <2> QED
    BY <1>3, <2>1, <2>3, <2>4, <2>5
<1>5. AnswerIn(channel, p) = 0
  BY <1>2, <1>4, AnswerIsNone
<1> QED
  BY <1>1, <1>3, <1>5
-----------------------------------------------------------------------------
(***************************************************************************)
(* Every step is a step of the service, or none.                           *)
(***************************************************************************)

\* AnswerIn is AnswerTo.
LEMMA AnswerToIn ==
  ASSUME NEW p
  PROVE  AnswerTo(p) = AnswerIn(channel, p) /\ AnswerTo(p)' = AnswerIn(channel', p)
  BY DEF AnswerTo, AnswerIn

\* A step that stores and publishes nothing may give answers.
LEMMA QuietMaps ==
  ASSUME ReceiverAssumption, HasFields, PostsAgree, HasFields', PostsAgree',
         UNCHANGED <<stored, published>>, Grown(channel, channel')
  PROVE  Service!Answer
<1>1. OfPlan(channel) /\ ResponsesTrue(channel', StoredPosts', published')
  BY ResponsesHold, ResponsesHoldNext DEF ResponsesTrue
<1>2. StoredPosts' = StoredPosts /\ published' = published
  BY DEF StoredPosts
<1> DEFINE ch2 == channel'
           old(p) == AnswerIn(channel, p)
           new(p) == AnswerIn(ch2, p)
<1>3. /\ OfPlan(channel) /\ ResponsesTrue(ch2, StoredPosts, published)
      /\ OfPlan(ch2) /\ Grown(channel, ch2)
  BY <1>1, <1>2 DEF ResponsesTrue
<1> HIDE DEF ch2
<1>4. ASSUME NEW p \in Posts
      PROVE  /\ new(p) \in {0, 200, 400, 500}
             /\ new(p) # old(p) =>
                  old(p) = 0 /\ True(p, new(p), StoredPosts, published)
  <2>1. new(p) # old(p) => /\ old(p) = 0
                           /\ True(p, new(p), StoredPosts, published)
    BY <1>3, AnswersGrow
  <2>2. CASE \A s : ~Given(ch2, p, s)
    BY <1>3, <2>1, <2>2, AnswerIsNone
  <2>3. ASSUME NEW s, Given(ch2, p, s)
        PROVE  new(p) \in {200, 400, 500}
    BY <1>3, <2>3, AnswerIsGiven
  <2> QED
    BY <2>1, <2>2, <2>3
<1> HIDE DEF old, new
<1>5. \A p \in Posts : AnswerTo(p) = old(p) /\ AnswerTo(p)' = new(p)
  BY AnswerToIn DEF old, new, ch2
<1>6. /\ [p \in Posts |-> AnswerTo(p)] = [p \in Posts |-> old(p)]
      /\ [p \in Posts |-> AnswerTo(p)]' = [p \in Posts |-> new(p)]
  BY <1>5
<1>7. [p \in Posts |-> new(p)] \in [Posts -> {0} \cup {200, 400, 500}]
  BY <1>4
<1> DEFINE answer  == [p \in Posts |-> old(p)]
           answer2 == [p \in Posts |-> new(p)]
<1>8. \A p \in Posts : answer2[p] # answer[p] =>
        answer[p] = 0 /\ True(p, answer2[p], StoredPosts, published)
  BY <1>4
<1> HIDE DEF answer, answer2
<1>9. /\ [p \in Posts |-> AnswerTo(p)] = answer
      /\ [p \in Posts |-> AnswerTo(p)]' = answer2
      /\ answer2 \in [Posts -> {0} \cup {200, 400, 500}]
  BY <1>6, <1>7 DEF answer, answer2
<1> QED
  BY <1>2, <1>8, <1>9 DEF Service!Answer, Service!Statuses, Service!Truthful, True

\* Answers depend on the responses only.
LEMMA SameResponses ==
  ASSUME NEW ch, NEW ch2, \A c \in Channels : ch2[c].responses = ch[c].responses,
         NEW p
  PROVE  AnswerIn(ch2, p) = AnswerIn(ch, p)
<1>1. \A c \in Channels :
        {ch2[c].responses[i] : i \in {j \in DOMAIN (ch2[c].responses) :
                                        Plan[c][j] = p}}
          = {ch[c].responses[i] : i \in {j \in DOMAIN (ch[c].responses) :
                                          Plan[c][j] = p}}
  OBVIOUS
<1> DEFINE some(c)  == {ch[c].responses[i] :
                          i \in {j \in DOMAIN (ch[c].responses) :
                                  Plan[c][j] = p}}
           some2(c) == {ch2[c].responses[i] :
                          i \in {j \in DOMAIN (ch2[c].responses) :
                                  Plan[c][j] = p}}
           all      == UNION {some(c) : c \in Channels}
           all2     == UNION {some2(c) : c \in Channels}
<1>2. \A c \in Channels : some2(c) = some(c)
  BY <1>1
<1>3. /\ AnswerIn(ch, p) = IF all = {} THEN 0 ELSE CHOOSE s \in all : TRUE
      /\ AnswerIn(ch2, p) = IF all2 = {} THEN 0 ELSE CHOOSE s \in all2 : TRUE
  BY DEF AnswerIn
<1> HIDE DEF some, some2
<1>4. all2 = all
  BY <1>2
<1> HIDE DEF all, all2
<1> QED
  BY <1>3, <1>4

\* A step that flushes nothing leaves the answers as they are.
LEMMA SameAnswers ==
  ASSUME \A c \in Channels : channel'[c].responses = channel[c].responses
  PROVE  [p \in Posts |-> AnswerTo(p)]' = [p \in Posts |-> AnswerTo(p)]
<1> DEFINE ch2 == channel'
<1>1. \A c \in Channels : ch2[c].responses = channel[c].responses
  OBVIOUS
<1> HIDE DEF ch2
<1>2. \A p : AnswerIn(ch2, p) = AnswerIn(channel, p)
  BY <1>1, SameResponses
<1>3. \A p \in Posts : AnswerTo(p)' = AnswerTo(p)
  BY <1>2, AnswerToIn DEF ch2
<1> QED
  BY <1>3

\* A channel that is working at its latest post stores it, publishes it or does
\* neither.
LEMMA WorkMaps ==
  ASSUME ReceiverAssumption, HasFields, PostsAgree, NEW c \in Channels,
         channel[c].at # "read",
         \A d \in Channels : channel'[d].responses = channel[d].responses,
         \/ /\ StoredPosts' = StoredPosts \cup {Request(c)}
            /\ published' = published
         \/ /\ published' = published \cup {Request(c)}
            /\ StoredPosts' = StoredPosts /\ Request(c) \in StoredPosts
         \/ StoredPosts' = StoredPosts /\ published' = published
  PROVE  Service!Next \/ UNCHANGED Service!postVars
<1>1. [p \in Posts |-> AnswerTo(p)]' = [p \in Posts |-> AnswerTo(p)]
  BY SameAnswers
<1>2. /\ Request(c) \in Posts
      /\ [p \in Posts |-> AnswerTo(p)][Request(c)] = 0
  BY InHandUnanswered, AnswerToIn
<1>3. CASE /\ StoredPosts' = StoredPosts \cup {Request(c)}
           /\ published' = published
  <2>1. Service!Store(Request(c))
    BY <1>1, <1>2, <1>3 DEF Service!Store
  <2> QED
    BY <1>2, <2>1 DEF Service!Next
<1>4. CASE /\ published' = published \cup {Request(c)}
           /\ StoredPosts' = StoredPosts /\ Request(c) \in StoredPosts
  <2>1. Service!Forward(Request(c))
    BY <1>1, <1>2, <1>4 DEF Service!Forward
  <2> QED
    BY <1>2, <2>1 DEF Service!Next
<1>5. CASE StoredPosts' = StoredPosts /\ published' = published
  BY <1>1, <1>5 DEF Service!postVars
<1> QED
  BY <1>3, <1>4, <1>5

\* Calling Cassandra or the broker, whether or not the call throws.
LEMMA HandleMaps ==
  ASSUME ReceiverAssumption, HasFields, PostsAgree, NEW c \in Channels,
         Save(c) \/ Publish(c) \/ Fail(c)
  PROVE  Service!Next \/ UNCHANGED Service!postVars
<1>1. channel[c].at # "read"
  BY DEF Save, Publish, Fail
<1>2. /\ channel'[c].responses = channel[c].responses
      /\ \A d \in Channels \ {c} : channel'[d] = channel[d]
  <2>1. CASE Save(c)
    <3>1. Becomes(c, channel[c].link, channel[c].heads, channel[c].inBody,
                  "publish", channel[c].responseStatus,
                  channel[c].written, channel[c].responses)
      BY <2>1, SaveEffect
    <3> QED
      BY <3>1 DEF Becomes
  <2>2. CASE Publish(c)
    <3>1. Becomes(c, channel[c].link, channel[c].heads, channel[c].inBody,
                  "respond", channel[c].responseStatus,
                  channel[c].written, channel[c].responses)
      BY <2>2, PublishEffect
    <3> QED
      BY <3>1 DEF Becomes
  <2>3. CASE Fail(c)
    <3>1. Becomes(c, channel[c].link, channel[c].heads, channel[c].inBody,
                  "respond", 500, channel[c].written, channel[c].responses)
      BY <2>3, FailEffect
    <3> QED
      BY <3>1 DEF Becomes
  <2> QED
    BY <2>1, <2>2, <2>3
<1>3. \A d \in Channels : channel'[d].responses = channel[d].responses
  BY <1>2
<1>4. channel[c].at = "publish" => Request(c) \in StoredPosts
  BY DEF PostsAgree, ChannelAgrees
<1>5. stored' = stored => StoredPosts' = StoredPosts
  BY DEF StoredPosts
<1>6. CASE Save(c)
  BY <1>1, <1>3, <1>6, RowStored, WorkMaps DEF Save
<1>7. CASE Publish(c)
  <2>1. /\ published' = published \cup {Request(c)} /\ StoredPosts' = StoredPosts
        /\ Request(c) \in StoredPosts
    BY <1>4, <1>5, <1>7 DEF Publish
  <2> QED
    BY <1>1, <1>3, <2>1, WorkMaps
<1>8. CASE Fail(c)
  <2>1. CASE channel[c].at = "save"
    BY <1>1, <1>3, <1>5, <1>8, <2>1, RowStored, WorkMaps DEF Fail
  <2>2. CASE channel[c].at # "save"
    <3>1. /\ Request(c) \in StoredPosts /\ StoredPosts' = StoredPosts
          /\ published' \in {published, published \cup {Request(c)}}
      BY <1>4, <1>5, <1>8, <2>2 DEF Fail
    <3> QED
      BY <1>1, <1>3, <3>1, WorkMaps
  <2> QED
    BY <2>1, <2>2
<1> QED
  BY <1>6, <1>7, <1>8

\* Responses are only ever added to.
LEMMA ResponsesGrow ==
  ASSUME HasFields, HasFields', NEW c \in Channels, NEW w \in Seq({200, 400, 500}),
         \A d \in Channels \ {c} : channel'[d].responses = channel[d].responses,
         channel'[c].responses \in {channel[c].responses, channel[c].responses \o w}
  PROVE  Grown(channel, channel')
<1> SUFFICES ASSUME NEW d \in Channels
             PROVE  /\ Len(channel[d].responses) \in Nat
                    /\ Len(channel'[d].responses) \in Nat
                    /\ Len(channel[d].responses) <= Len(channel'[d].responses)
                    /\ \A i \in 1..Len(channel[d].responses) :
                         channel'[d].responses[i] = channel[d].responses[i]
  BY DEF Grown
<1> DEFINE r  == channel[d].responses
           r2 == channel'[d].responses
<1>1. r \in Seq({200, 400, 500}) /\ r2 \in Seq({200, 400, 500})
  BY DEF HasFields, Fields
<1>2. r2 = r \/ r2 = r \o w
  OBVIOUS
<1> HIDE DEF r, r2
<1>3. /\ Len(r) \in Nat /\ Len(r2) \in Nat /\ Len(r) <= Len(r2)
      /\ \A i \in 1..Len(r) : r2[i] = r[i]
  BY <1>1, <1>2, Concatenated
<1> QED
  BY <1>3, Zenon DEF r, r2

\* The steps that store and publish nothing.
LEMMA QuietGrows ==
  ASSUME ReceiverAssumption, HasFields, PostsAgree, NEW c \in Channels,
         Connect(c) \/ Read(c) \/ Respond(c) \/ ReadComplete(c) \/ Lose(c)
  PROVE  Grown(channel, channel') /\ UNCHANGED <<stored, published>>
<1>1. UNCHANGED <<stored, published>>
  BY DEF Connect, Read, ReadHead, ReadContent, ReadLast, Respond, ReadComplete, Lose
<1>2. /\ channel[c].written \in Seq({200, 400, 500})
      /\ channel[c].responseStatus \in {200, 400, 500}
  BY DEF HasFields, Fields
<1> DEFINE w    == channel[c].written
           more == w \o <<channel[c].responseStatus>>
<1>3. more \in Seq({200, 400, 500}) /\ w \in Seq({200, 400, 500})
  BY <1>2
<1>4. HasFields'
  BY ConnectAgrees, ReadHeadAgrees, ReadContentAgrees, ReadLastAgrees,
     RespondAgrees, ReadCompleteAgrees, LoseAgrees DEF Read
<1>5. CASE Connect(c)
  <2>1. Becomes(c, "open", channel[c].heads, channel[c].inBody,
                channel[c].at, channel[c].responseStatus,
                channel[c].written, channel[c].responses)
    BY <1>5, ConnectEffect
  <2> QED
    BY <1>1, <1>3, <1>4, <2>1, ResponsesGrow DEF Becomes
<1>6. CASE ReadHead(c)
  <2>1. Becomes(c, channel[c].link, channel[c].heads + 1, TRUE,
                channel[c].at, channel[c].responseStatus,
                channel[c].written, channel[c].responses)
    BY <1>6, ReadHeadEffect
  <2> QED
    BY <1>1, <1>3, <1>4, <2>1, ResponsesGrow DEF Becomes
<1>7. CASE ReadContent(c)
  <2>1. Becomes(c, channel[c].link, channel[c].heads, channel[c].inBody,
                channel[c].at, channel[c].responseStatus,
                channel[c].written, channel[c].responses)
    BY <1>7, ReadContentEffect
  <2> QED
    BY <1>1, <1>3, <1>4, <2>1, ResponsesGrow DEF Becomes
<1>8. CASE ReadLast(c)
  <2>0. PICK readable \in BOOLEAN :
          LET good == Kind[Request(c)] = "valid" /\ readable
          IN  Becomes(c, channel[c].link, channel[c].heads, FALSE,
                      IF good THEN "save" ELSE "respond",
                      IF good THEN 200 ELSE Refusal(Request(c), readable),
                      channel[c].written, channel[c].responses)
    BY <1>8, ReadLastEffect
  <2> DEFINE good   == Kind[Request(c)] = "valid" /\ readable
             at     == IF good THEN "save" ELSE "respond"
             status == IF good THEN 200 ELSE Refusal(Request(c), readable)
  <2>1. Becomes(c, channel[c].link, channel[c].heads, FALSE, at, status,
                channel[c].written, channel[c].responses)
    BY <2>0
  <2> HIDE DEF at, status
  <2> QED
    BY <1>1, <1>3, <1>4, <2>1, ResponsesGrow DEF Becomes
<1>9. CASE Respond(c)
  <2> DEFINE open   == channel[c].link = "open"
             stays  == open /\ KeepAlive[Request(c)]
             link   == IF stays THEN channel[c].link ELSE "closing"
             left   == IF stays THEN more ELSE <<>>
             given  == IF open /\ ~stays THEN channel[c].responses \o more
                                         ELSE channel[c].responses
  <2>1. Becomes(c, link, channel[c].heads, channel[c].inBody, "read",
                channel[c].responseStatus, left, given)
    BY <1>9, RespondEffect
  <2>2. given \in {channel[c].responses, channel[c].responses \o more}
    OBVIOUS
  <2> HIDE DEF link, left, given, more
  <2>3. /\ channel'[c].responses = given
        /\ \A d \in Channels \ {c} : channel'[d].responses = channel[d].responses
    BY <2>1 DEF Becomes
  <2>4. Grown(channel, channel')
    BY <1>3, <1>4, <2>2, <2>3, ResponsesGrow
  <2> QED
    BY <1>1, <2>4
<1>10. CASE ReadComplete(c)
  <2> DEFINE open   == channel[c].link = "open"
             link   == IF open THEN "open" ELSE "closed"
             left   == IF open THEN <<>> ELSE channel[c].written
             given  == IF open THEN channel[c].responses \o w
                               ELSE channel[c].responses
  <2>1. Becomes(c, link, channel[c].heads, channel[c].inBody, channel[c].at,
                channel[c].responseStatus, left, given)
    BY <1>10, ReadCompleteEffect
  <2>2. given \in {channel[c].responses, channel[c].responses \o w}
    OBVIOUS
  <2> HIDE DEF link, left, given, w
  <2>3. /\ channel'[c].responses = given
        /\ \A d \in Channels \ {c} : channel'[d].responses = channel[d].responses
    BY <2>1 DEF Becomes
  <2>4. Grown(channel, channel')
    BY <1>3, <1>4, <2>2, <2>3, ResponsesGrow
  <2> QED
    BY <1>1, <2>4
<1>11. CASE Lose(c)
  <2>1. Becomes(c, "closing", channel[c].heads, channel[c].inBody,
                channel[c].at, channel[c].responseStatus,
                <<>>, channel[c].responses)
    BY <1>11, LoseEffect
  <2>2. /\ \A d \in Channels \ {c} : channel'[d].responses = channel[d].responses
        /\ channel'[c].responses \in {channel[c].responses,
                                      channel[c].responses \o w}
    BY <2>1 DEF Becomes
  <2> HIDE DEF w
  <2> QED
    BY <1>1, <1>3, <1>4, <2>2, ResponsesGrow
<1> QED
  BY <1>5, <1>6, <1>7, <1>8, <1>9, <1>10, <1>11 DEF Read

\* A crash takes back no response.
LEMMA CrashGrows ==
  ASSUME HasFields, Crash
  PROVE  Grown(channel, channel') /\ UNCHANGED <<stored, published>>
<1>1. \A c \in Channels : /\ channel'[c].responses = channel[c].responses
                          /\ channel[c].responses \in Seq({200, 400, 500})
  BY CrashEffect DEF HasFields, Fields
<1>2. ASSUME NEW c \in Channels
      PROVE  Len(channel[c].responses) \in Nat
  BY <1>1
<1>3. Grown(channel, channel')
  BY <1>1, <1>2 DEF Grown
<1> QED
  BY <1>3 DEF Crash

\* A step of the receiver is one of the service, or changes none of its variables.
LEMMA NextMaps ==
  ASSUME ReceiverAssumption, HasFields, PostsAgree, [Next]_vars
  PROVE  Service!Next \/ UNCHANGED Service!postVars
<1>1. HasFields' /\ PostsAgree'
  BY NextAgrees
<1>2. CASE UNCHANGED vars
  <2>1. /\ StoredPosts' = StoredPosts /\ published' = published
        /\ \A c \in Channels : channel'[c].responses = channel[c].responses
    BY <1>2 DEF vars, StoredPosts
  <2>2. [p \in Posts |-> AnswerTo(p)]' = [p \in Posts |-> AnswerTo(p)]
    BY <2>1, SameAnswers
  <2> QED
    BY <2>1, <2>2 DEF Service!postVars
<1>3. CASE Next
  <2>1. CASE Crash
    BY <1>1, <2>1, CrashGrows, QuietMaps DEF Service!Next
  <2>2. ASSUME NEW c \in Channels,
               Connect(c) \/ Read(c) \/ Handle(c) \/ ReadComplete(c) \/ Lose(c)
        PROVE  Service!Next \/ UNCHANGED Service!postVars
    <3>1. CASE Save(c) \/ Publish(c) \/ Fail(c)
      BY <3>1, HandleMaps
    <3>2. CASE Connect(c) \/ Read(c) \/ Respond(c) \/ ReadComplete(c) \/ Lose(c)
      BY <1>1, <3>2, QuietGrows, QuietMaps DEF Service!Next
    <3> QED
      BY <2>2, <3>1, <3>2 DEF Handle
  <2> QED
    BY <1>3, <2>1, <2>2 DEF Next
<1> QED
  BY <1>2, <1>3

\* At first nothing is stored, published or answered.
LEMMA InitMaps ==
  ASSUME ReceiverAssumption, Init
  PROVE  Service!Init
<1>1. StoredPosts = {} /\ published = {}
  BY DEF Init, StoredPosts
<1>2. \A c \in Channels : channel[c].responses = <<>>
  BY DEF Init, NewChannel
<1>3. OfPlan(channel)
  BY InitAgrees, ResponsesHold DEF ResponsesTrue
<1>4. \A p, s : ~Given(channel, p, s)
  BY <1>2 DEF Given
<1>5. \A p \in Posts : AnswerTo(p) = 0
  BY <1>3, <1>4, AnswerIsNone, AnswerToIn
<1> QED
  BY <1>1, <1>5 DEF Service!Init

\* The receiver, with its channels, cut bodies, failing calls, lost connections
\* and crashes, does nothing that PostService does not allow: an answer is true
\* of store and exchange, and nothing is done for a post after its answer
\* (CFHttpHandler.writeResponse, JsonRequestHttpHandler.handleRequestInput).
THEOREM ReceiverImplementsService == Spec => ImplementsService
<1>1. Init => Service!Init
  BY InitMaps, ReceiverAssumption
<1>2. HasFields /\ PostsAgree /\ [Next]_vars => [Service!Next]_Service!postVars
  BY NextMaps, ReceiverAssumption
<1> QED
  BY <1>1, <1>2, PostsAlwaysAgree, PTL DEF Spec, ImplementsService, Service!Spec

\* What is forwarded can be read back from the store at any later time.
THEOREM PublishedAlwaysStored == Spec => []PublishedWasStored
<1>1. HasFields /\ PostsAgree => PublishedWasStored
  BY DEF PostsAgree, PublishedWasStored
<1> QED
  BY <1>1, PostsAlwaysAgree, PTL

\* A client that reads 200 as the answer to a post of its can rely on the post
\* being stored and forwarded, one that reads 400 on its being neither, at that
\* time and ever after.
THEOREM AnswersAlwaysTrue == Spec => [](AcceptedIsForwarded /\ RefusedLeavesNoTrace)
<1>1. HasFields /\ PostsAgree => AcceptedIsForwarded /\ RefusedLeavesNoTrace
  <2> SUFFICES ASSUME HasFields, PostsAgree
               PROVE  AcceptedIsForwarded /\ RefusedLeavesNoTrace
    OBVIOUS
  <2>1. ResponsesTrue(channel, StoredPosts, published)
    BY ResponsesHold, ReceiverAssumption
  <2>2. \A c \in Channels :
          DOMAIN (channel[c].responses) = 1..Len(channel[c].responses)
    BY <2>1 DEF ResponsesTrue, OfPlan
  <2> QED
    BY <2>1, <2>2 DEF ResponsesTrue, True, AcceptedIsForwarded,
                      RefusedLeavesNoTrace
<1> QED
  BY <1>1, PostsAlwaysAgree, PTL

-----------------------------------------------------------------------------
(***************************************************************************)
(* The characters that a sequence of bytes stands for.                     *)
(***************************************************************************)
\* The characters of a text.
Chars == {"ascii", "accented", "replacement"}

\* Each value of a finite set has a place in the order of the keys, and each place
\* a value.
LEMMA SortedPlaces ==
  ASSUME NEW S, IsFiniteSet(S), NEW key, \A x \in S : key[x] \in Int,
         \A x, y \in S : key[x] = key[y] => x = y
  PROVE  /\ Cardinality(S) \in Nat
         /\ \A x \in S : /\ Cardinality(Before(S, key, x)) \in 0 .. Cardinality(S) - 1
                         /\ Sorted(S, key)[Cardinality(Before(S, key, x)) + 1] = x
         /\ \A k \in 1 .. Cardinality(S) :
              /\ Sorted(S, key)[k] \in S
              /\ Cardinality(Before(S, key, Sorted(S, key)[k])) = k - 1
<1> DEFINE n == Cardinality(S)
           rank == [x \in S |-> Cardinality(Before(S, key, x))]
<1>1. n \in Nat
  BY FS_CardinalityType
<1>2. ASSUME NEW x \in S
      PROVE  /\ IsFiniteSet(Before(S, key, x))
             /\ rank[x] \in 0 .. n - 1
  <2>1. Before(S, key, x) \in SUBSET (S \ {x})
    BY DEF Before
  <2>2. IsFiniteSet(S \ {x}) /\ Cardinality(S \ {x}) = n - 1
    BY FS_RemoveElement
  <2>3. /\ IsFiniteSet(Before(S, key, x))
        /\ Cardinality(Before(S, key, x)) <= n - 1
        /\ Cardinality(Before(S, key, x)) \in Nat
    BY <2>1, <2>2, FS_Subset, FS_CardinalityType
  <2> QED
    BY <1>1, <2>3
<1>3. ASSUME NEW x \in S, NEW y \in S, key[x] < key[y]
      PROVE  rank[x] < rank[y]
  <2>1. Before(S, key, x) \in SUBSET Before(S, key, y)
    BY <1>3 DEF Before
  <2>2. x \in Before(S, key, y) /\ x \notin Before(S, key, x)
    BY <1>3 DEF Before
  <2>3. /\ Cardinality(Before(S, key, x)) <= Cardinality(Before(S, key, y))
        /\ Cardinality(Before(S, key, x)) # Cardinality(Before(S, key, y))
    BY <1>2, <2>1, <2>2, FS_Subset
  <2> QED
    BY <1>2, <2>3
<1>4. \A x, y \in S : rank[x] = rank[y] => x = y
  <2> SUFFICES ASSUME NEW x \in S, NEW y \in S, rank[x] = rank[y], x # y PROVE FALSE
    OBVIOUS
  <2>1. key[x] < key[y] \/ key[y] < key[x]
    OBVIOUS
  <2>2. rank[x] < rank[y] \/ rank[y] < rank[x]
    BY <1>3, <2>1
  <2> QED
    BY <1>2, <2>2
<1>5. rank \in [S -> 0 .. n - 1]
  BY <1>2
<1>6. \A k \in 0 .. n - 1 : \E x \in S : rank[x] = k
  <2>1. rank \in Injection(S, 0 .. n - 1)
    BY <1>4, <1>5, Fun_IsInj
  <2>2. IsFiniteSet(0 .. n - 1) /\ Cardinality(0 .. n - 1) = n
    BY <1>1, FS_Interval
  <2>3. rank \in Surjection(S, 0 .. n - 1)
    BY <2>1, <2>2, FS_Injection
  <2> HIDE DEF n, rank
  <2> QED
    BY <2>3, Fun_SurjectionProperties
<1>7. ASSUME NEW k \in 1 .. n
      PROVE  /\ Sorted(S, key)[k] \in S
             /\ rank[Sorted(S, key)[k]] = k - 1
             /\ \A x \in S : rank[x] = k - 1 => Sorted(S, key)[k] = x
  <2>1. k - 1 \in 0 .. n - 1
    BY <1>1
  <2>2. PICK x \in S : Cardinality(Before(S, key, x)) = k - 1
    BY <1>6, <2>1
  <2>3. Sorted(S, key)[k] = CHOOSE y \in S : Cardinality(Before(S, key, y)) = k - 1
    BY DEF Sorted
  <2>4. Sorted(S, key)[k] \in S /\ Cardinality(Before(S, key, Sorted(S, key)[k])) = k - 1
    BY <2>2, <2>3
  <2> QED
    BY <1>4, <2>4
<1>8. ASSUME NEW x \in S
      PROVE  Sorted(S, key)[rank[x] + 1] = x
  <2>1. rank[x] + 1 \in 1 .. n /\ (rank[x] + 1) - 1 = rank[x]
    BY <1>1, <1>2
  <2> QED
    BY <1>7, <2>1
<1>9. \A x \in S : rank[x] = Cardinality(Before(S, key, x))
  OBVIOUS
<1> HIDE DEF rank
<1> QED
  BY <1>1, <1>2, <1>7, <1>8, <1>9

\* The characters that start before the byte at i.
EarlierChars(bytes, i) == {j \in Starts(bytes) : j < i}

\* The characters of a text are those that start in its bytes, in this order.
LEMMA DecodedChars ==
  ASSUME NEW bytes \in Seq(Bytes)
  PROVE  LET n == Cardinality(Starts(bytes))
             text == DecodeUtf8(bytes)
         IN  /\ n \in Nat /\ IsFiniteSet(Starts(bytes))
             /\ text \in [1 .. n -> Chars]
             /\ \A i \in Starts(bytes) :
                  /\ Cardinality(EarlierChars(bytes, i)) + 1 \in 1 .. n
                  /\ text[Cardinality(EarlierChars(bytes, i)) + 1] = Char(bytes, i)
             /\ \A k \in 1 .. n :
                  \E i \in Starts(bytes) : Cardinality(EarlierChars(bytes, i)) = k - 1
<1> DEFINE heads == Starts(bytes)
           place == [i \in DOMAIN bytes |-> i]
           n == Cardinality(heads)
           starts == Sorted(heads, place)
<1>1. DOMAIN bytes = 1 .. Len(bytes) /\ Len(bytes) \in Nat
  OBVIOUS
<1>2. heads \in SUBSET (1 .. Len(bytes))
  BY <1>1 DEF Starts
<1>3. IsFiniteSet(heads)
  <2>1. IsFiniteSet(1 .. Len(bytes))
    BY <1>1, FS_Interval
  <2> HIDE DEF heads
  <2> QED
    BY <1>2, <2>1, FS_Subset
<1>4. \A i \in heads : place[i] = i /\ i \in Int
  BY <1>1, <1>2
<1>5. \A i \in heads : Before(heads, place, i) = EarlierChars(bytes, i)
  BY <1>4 DEF Before, EarlierChars
<1>6. DOMAIN starts = 1 .. n
  BY DEF Sorted
<1> HIDE DEF heads, place
<1>7. /\ n \in Nat
      /\ \A i \in heads : /\ Cardinality(Before(heads, place, i)) \in 0 .. n - 1
                      /\ starts[Cardinality(Before(heads, place, i)) + 1] = i
      /\ \A k \in 1 .. n : /\ starts[k] \in heads
                           /\ Cardinality(Before(heads, place, starts[k])) = k - 1
  <2>1. \A x \in heads : place[x] \in Int
    BY <1>4
  <2>2. \A x, y \in heads : place[x] = place[y] => x = y
    BY <1>4
  <2> HIDE DEF starts, n
  <2>3. /\ Cardinality(heads) \in Nat
        /\ \A x \in heads : /\ Cardinality(Before(heads, place, x)) \in 0 .. Cardinality(heads) - 1
                         /\ Sorted(heads, place)[Cardinality(Before(heads, place, x)) + 1] = x
        /\ \A k \in 1 .. Cardinality(heads) :
              /\ Sorted(heads, place)[k] \in heads
              /\ Cardinality(Before(heads, place, Sorted(heads, place)[k])) = k - 1
    BY <1>3, <2>1, <2>2, SortedPlaces
  <2> QED
    BY <2>3 DEF starts, n
<1>8. DecodeUtf8(bytes) = [k \in 1 .. n |-> Char(bytes, starts[k])]
  BY <1>6 DEF DecodeUtf8, heads, place
<1> HIDE DEF starts, n
<1>9. \A i : Char(bytes, i) \in Chars
  BY DEF Char, Chars
<1>10. ASSUME NEW i \in heads
       PROVE  /\ Cardinality(EarlierChars(bytes, i)) + 1 \in 1 .. n
              /\ DecodeUtf8(bytes)[Cardinality(EarlierChars(bytes, i)) + 1] = Char(bytes, i)
  <2>1. Cardinality(EarlierChars(bytes, i)) + 1 \in 1 .. n
    BY <1>5, <1>7
  <2>2. starts[Cardinality(EarlierChars(bytes, i)) + 1] = i
    BY <1>5, <1>7
  <2> QED
    BY <1>8, <2>1, <2>2
<1>11. ASSUME NEW k \in 1 .. n
       PROVE  \E i \in heads : Cardinality(EarlierChars(bytes, i)) = k - 1
  BY <1>5, <1>7
<1> QED
  BY <1>3, <1>7, <1>8, <1>9, <1>10, <1>11 DEF heads, n

\* A text is a sequence of characters.
LEMMA DecodedTyped ==
  ASSUME NEW bytes \in Seq(Bytes)
  PROVE  DecodeUtf8(bytes) \in Seq(Chars)
<1>1. PICK n \in Nat : DecodeUtf8(bytes) \in [1 .. n -> Chars]
  BY DecodedChars
<1> QED
  BY <1>1

\* Where two texts meet, no character is lost unless it is cut in two there.
LEMMA DecodedTogether ==
  ASSUME NEW left \in Seq(Bytes), NEW right \in Seq(Bytes),
         left = <<>> \/ right = <<>> \/ right[1] # "second"
  PROVE  DecodeUtf8(left \o right) = DecodeUtf8(left) \o DecodeUtf8(right)
<1> DEFINE both == left \o right
           l == Len(left)
           r == Len(right)
           m == Cardinality(Starts(left))
           n == Cardinality(Starts(right))
           shifted == [i \in Starts(right) |-> l + i]
           moved == {l + i : i \in Starts(right)}
<1>1. /\ l \in Nat /\ r \in Nat /\ both \in Seq(Bytes) /\ Len(both) = l + r
      /\ DOMAIN left = 1 .. l /\ DOMAIN right = 1 .. r /\ DOMAIN both = 1 .. l + r
      /\ \A i \in 1 .. l : both[i] = left[i]
      /\ \A i \in 1 .. r : both[l + i] = right[i]
  OBVIOUS
<1>2. l > 0 /\ r > 0 => right[1] # "second"
  OBVIOUS
<1> HIDE DEF both, l, r
<1>3. \A i \in 1 .. l : Paired(both, i) <=> Paired(left, i)
  BY <1>1 DEF Paired
<1>4. ASSUME NEW i \in 1 .. r PROVE Paired(both, l + i) <=> Paired(right, i)
  <2>1. CASE i = 1
    <3>1. l > 0 => right[1] # "second"
      BY <1>1, <1>2, <2>1
    <3>2. l = 0 => ~ (l + i > 1)
      BY <2>1
    <3>3. both[l + i] = right[i]
      BY <1>1
    <3> QED
      BY <1>1, <2>1, <3>1, <3>2, <3>3 DEF Paired
  <2>2. CASE i > 1
    <3>1. i - 1 \in 1 .. r /\ (l + i) - 1 = l + (i - 1) /\ l + i > 1
      BY <1>1, <2>2
    <3>2. both[l + i] = right[i] /\ both[(l + i) - 1] = right[i - 1]
      BY <1>1, <3>1
    <3> QED
      BY <2>2, <3>1, <3>2 DEF Paired
  <2> QED
    BY <2>1, <2>2
<1>5. /\ Starts(left) = {i \in 1 .. l : ~ Paired(left, i)}
      /\ Starts(right) = {i \in 1 .. r : ~ Paired(right, i)}
      /\ Starts(both) = {i \in 1 .. l + r : ~ Paired(both, i)}
  BY <1>1 DEF Starts
<1>6. Starts(both) = Starts(left) \cup moved
  <2>1. ASSUME NEW i \in Starts(both) PROVE i \in Starts(left) \cup moved
    <3>1. CASE i \in 1 .. l
      BY <1>3, <1>5, <3>1
    <3>2. CASE i \notin 1 .. l
      <4>1. i - l \in 1 .. r /\ l + (i - l) = i
        <5>1. i \in 1 .. l + r
          BY <1>5
        <5> QED
          BY <1>1, <3>2, <5>1
      <4>2. ~ Paired(both, i)
        BY <1>5
      <4>3. i - l \in Starts(right)
        BY <1>4, <1>5, <4>1, <4>2
      <4> QED
        BY <4>1, <4>3
    <3> QED
      BY <3>1, <3>2
  <2>2. Starts(left) \subseteq Starts(both)
    BY <1>1, <1>3, <1>5
  <2>3. ASSUME NEW i \in Starts(right) PROVE l + i \in Starts(both)
    <3>1. i \in 1 .. r /\ ~ Paired(right, i)
      BY <1>5
    <3>2. ~ Paired(both, l + i) /\ l + i \in 1 .. l + r
      BY <1>1, <1>4, <3>1
    <3> QED
      BY <1>5, <3>2
  <2> QED
    BY <2>1, <2>2, <2>3
<1>7. /\ m \in Nat /\ IsFiniteSet(Starts(left)) /\ DecodeUtf8(left) \in [1 .. m -> Chars]
      /\ n \in Nat /\ IsFiniteSet(Starts(right)) /\ DecodeUtf8(right) \in [1 .. n -> Chars]
  BY DecodedChars
\* As many characters before one of the second text, and those of the first.
<1>8. ASSUME NEW some \in SUBSET Starts(right)
      PROVE  Cardinality(Starts(left) \cup {l + i : i \in some}) = m + Cardinality(some)
  <2> DEFINE there == {l + i : i \in some}
             f == [i \in some |-> l + i]
  <2>1. \A i \in some : i \in 1 .. r
    BY <1>5
  <2>2. f \in [some -> there] /\ \A i, j \in some : f[i] = f[j] => i = j
    BY <1>1, <2>1
  <2>3. \A k \in there : \E i \in some : f[i] = k
    OBVIOUS
  <2>4. Starts(left) \cap there = {}
    BY <1>1, <1>5, <2>1
  <2>5. IsFiniteSet(some)
    BY <1>7, FS_Subset
  <2> HIDE DEF there, f
  <2>6. ExistsBijection(some, there)
    BY <2>2, <2>3, Fun_IsBij, Fun_ExistsBij
  <2>7. IsFiniteSet(there) /\ Cardinality(there) = Cardinality(some)
    BY <2>5, <2>6, FS_Bijection
  <2>8. Cardinality(Starts(left) \cup there) = m + Cardinality(there) - Cardinality({})
    BY <1>7, <2>4, <2>7, FS_Union
  <2>9. Cardinality({}) = 0 /\ Cardinality(some) \in Nat
    BY <2>5, FS_EmptySet, FS_CardinalityType
  <2>10. Cardinality(Starts(left) \cup there) = m + Cardinality(some)
    BY <1>7, <2>7, <2>8, <2>9
  <2> QED
    BY <2>10 DEF there
<1>9. Cardinality(Starts(both)) = m + n
  BY <1>6, <1>8
<1> HIDE DEF m, n, moved, shifted
<1>10. /\ DecodeUtf8(both) \in [1 .. m + n -> Chars]
       /\ \A i \in Starts(both) :
            DecodeUtf8(both)[Cardinality(EarlierChars(both, i)) + 1] = Char(both, i)
  BY <1>1, <1>9, DecodedChars
<1>11. ASSUME NEW k \in 1 .. m
       PROVE  DecodeUtf8(both)[k] = DecodeUtf8(left)[k]
  <2>1. PICK i \in Starts(left) : Cardinality(EarlierChars(left, i)) = k - 1
    BY DecodedChars DEF m
  <2>2. EarlierChars(both, i) = EarlierChars(left, i)
    BY <1>1, <1>5, <1>6 DEF EarlierChars, moved
  <2>3. Char(both, i) = Char(left, i)
    <3>1. i \in 1 .. l /\ both[i] = left[i] /\ Len(left) = l
      BY <1>1, <1>5 DEF l
    <3>2. CASE i < l
      <4>1. i + 1 \in 1 .. l /\ i < l + r
        BY <1>1, <3>1, <3>2
      <4>2. Paired(both, i + 1) <=> Paired(left, i + 1)
        BY <1>3, <4>1
      <4> QED
        BY <1>1, <3>1, <3>2, <4>1, <4>2 DEF Char
    <3>3. CASE i = l
      <4>1. i < l + r => ~ Paired(both, i + 1)
        BY <1>1, <1>2, <3>1, <3>3 DEF Paired
      <4> QED
        BY <1>1, <3>1, <3>3, <4>1 DEF Char
    <3> QED
      BY <1>1, <3>1, <3>2, <3>3
  <2>4. DecodeUtf8(left)[(k - 1) + 1] = Char(left, i)
    BY <2>1, DecodedChars
  <2>5. i \in Starts(both) /\ (k - 1) + 1 = k
    BY <1>6, <1>7
  <2> QED
    BY <1>10, <2>1, <2>2, <2>3, <2>4, <2>5
<1>12. ASSUME NEW k \in 1 .. n
       PROVE  DecodeUtf8(both)[m + k] = DecodeUtf8(right)[k]
  <2>1. PICK i \in Starts(right) : Cardinality(EarlierChars(right, i)) = k - 1
    BY DecodedChars DEF n
  <2>2. i \in 1 .. r /\ Len(right) = r
    BY <1>5 DEF r
  <2>3. EarlierChars(both, l + i) = Starts(left) \cup {l + j : j \in EarlierChars(right, i)}
    <3>1. \A j \in Starts(left) : j < l + i
      BY <1>1, <1>5, <2>2
    <3>2. \A j \in Starts(right) : l + j < l + i <=> j < i
      BY <1>1, <1>5, <2>2
    <3> QED
      BY <1>6, <3>1, <3>2 DEF EarlierChars, moved
  <2>4. EarlierChars(right, i) \in SUBSET Starts(right)
    BY DEF EarlierChars
  <2>5. Cardinality(EarlierChars(both, l + i)) = m + (k - 1)
    BY <1>8, <2>1, <2>3, <2>4
  <2>6. Char(both, l + i) = Char(right, i)
    <3>1. both[l + i] = right[i] /\ (l + i < l + r <=> i < r)
      BY <1>1, <2>2
    <3>2. i < r => (Paired(both, (l + i) + 1) <=> Paired(right, i + 1))
      <4> HAVE i < r
      <4>1. i + 1 \in 1 .. r /\ l + (i + 1) = (l + i) + 1
        BY <1>1, <2>2
      <4> QED
        BY <1>4, <4>1
    <3> QED
      BY <1>1, <2>2, <3>1, <3>2 DEF Char
  <2>7. DecodeUtf8(right)[(k - 1) + 1] = Char(right, i)
    BY <2>1, DecodedChars
  <2>8. l + i \in Starts(both) /\ (k - 1) + 1 = k /\ (m + (k - 1)) + 1 = m + k
    BY <1>6, <1>7 DEF moved
  <2> QED
    BY <1>10, <2>5, <2>6, <2>7, <2>8
<1>13. DecodeUtf8(both) = DecodeUtf8(left) \o DecodeUtf8(right)
  <2> DEFINE first == DecodeUtf8(left)
             second == DecodeUtf8(right)
             whole == DecodeUtf8(both)
  <2>1. /\ first \in Seq(Chars) /\ Len(first) = m
        /\ second \in Seq(Chars) /\ Len(second) = n
        /\ whole \in Seq(Chars) /\ Len(whole) = m + n
    BY <1>7, <1>10
  <2>2. /\ \A k \in 1 .. m : whole[k] = first[k]
        /\ \A k \in 1 .. n : whole[m + k] = second[k]
    BY <1>11, <1>12
  <2> HIDE DEF first, second, whole
  <2>3. ASSUME NEW k \in 1 .. m + n
        PROVE  whole[k] = (first \o second)[k]
    <3>1. (first \o second)[k] = IF k <= m THEN first[k] ELSE second[k - m]
      BY <1>7, <2>1, ConcatProperties
    <3>2. CASE k <= m
      <4>1. k \in 1 .. m
        BY <1>7, <3>2
      <4> QED
        BY <2>2, <3>1, <3>2, <4>1
    <3>3. CASE ~ (k <= m)
      <4>1. k - m \in 1 .. n /\ m + (k - m) = k
        BY <1>7, <3>3
      <4>2. whole[m + (k - m)] = second[k - m]
        BY <2>2, <4>1
      <4> QED
        BY <3>1, <3>3, <4>1, <4>2
    <3> QED
      BY <3>2, <3>3
  <2>4. first \o second \in Seq(Chars) /\ Len(first \o second) = m + n
    <3>1. first \o second \in Seq(Chars) /\ Len(first \o second) = Len(first) + Len(second)
      BY <2>1, ConcatProperties
    <3> QED
      BY <2>1, <3>1
  <2>5. whole = first \o second
    BY <2>1, <2>3, <2>4, SeqEqual
  <2> QED
    BY <2>5 DEF first, second, whole
<1> QED
  BY <1>13 DEF both

-----------------------------------------------------------------------------
(***************************************************************************)
(* What is in the buffers.                                                 *)
(***************************************************************************)
\* What a buffer may hold, and what a row.
Texts == Seq(Chars)
RowTexts == Seq(Chars \cup {"garbled"})

\* Every variable is a value of its type.
Typed ==
  /\ channel \in [Channels -> Channel]
  /\ stored \in SUBSET [post : Posts, text : RowTexts]
  /\ published \in SUBSET Posts /\ split \in SUBSET Posts
  /\ failures \in Nat /\ losses \in Nat /\ crashes \in Nat

\* A text is what the bytes so far stand for, and the next byte begins a character,
\* unless one of the post's characters was cut.
Follows(p, text, offset) ==
  \/ p \in split
  \/ /\ text = DecodeUtf8(SubSeq(Body[p], 1, offset))
     /\ offset \in 1 .. Len(Body[p]) - 1 => Body[p][offset + 1] # "second"

\* The buffer holds what was read of the latest post, from its head to its last
\* content, and the whole of it when the row is made.
TextAgrees(c) ==
  LET ch == channel[c]
  IN  /\ ch.inBody => ch.offset <= Len(Body[Request(c)])
      /\ ch.inBody /\ ch.link # "closed" =>
           Follows(Request(c), ch.requestBuffer, ch.offset)
      /\ ch.at = "save" => \/ Request(c) \in split
                           \/ ch.requestBuffer = DecodeUtf8(Body[Request(c)])

\* So it is on every channel.
TextsAgree == \A c \in Channels : TextAgrees(c)

\* The values of its fields link, at, and responseStatus.
Links == {"new", "open", "closing", "closed"}
Statements == {"read", "save", "publish", "respond"}
Statuses == {200, 400, 500}

\* A channel of these fields.
Made(link, heads, inBody, offset, requestBuffer, at, responseStatus, written, responses) ==
  [link |-> link, heads |-> heads, inBody |-> inBody, offset |-> offset,
   requestBuffer |-> requestBuffer, at |-> at, responseStatus |-> responseStatus,
   written |-> written, responses |-> responses]

\* It is one if each field has its type.
LEMMA MadeTyped ==
  ASSUME NEW link \in Links, NEW heads \in Nat, NEW inBody \in BOOLEAN, NEW offset \in Nat,
         NEW requestBuffer \in Texts, NEW at \in Statements, NEW responseStatus \in Statuses,
         NEW written \in Seq(Statuses), NEW responses \in Seq(Statuses)
  PROVE  Made(link, heads, inBody, offset, requestBuffer, at, responseStatus, written,
              responses) \in Channel
BY DEF Made, Channel, Links, Statements, Statuses, Texts, Chars

\* Every channel is one of its fields.
LEMMA ChannelFields ==
  ASSUME NEW ch \in Channel
  PROVE  /\ ch = Made(ch.link, ch.heads, ch.inBody, ch.offset, ch.requestBuffer, ch.at,
                      ch.responseStatus, ch.written, ch.responses)
         /\ ch.link \in Links /\ ch.heads \in Nat /\ ch.inBody \in BOOLEAN
         /\ ch.offset \in Nat /\ ch.requestBuffer \in Texts /\ ch.at \in Statements
         /\ ch.responseStatus \in Statuses
         /\ ch.written \in Seq(Statuses) /\ ch.responses \in Seq(Statuses)
BY DEF Made, Channel, Links, Statements, Statuses, Texts, Chars

\* A channel whose field takes another value of its type is a channel.
LEMMA FieldsChange ==
  ASSUME NEW ch \in Channel
  PROVE  /\ \A x \in Links : [ch EXCEPT !.link = x] \in Channel
         /\ \A x \in Nat : [ch EXCEPT !.heads = x] \in Channel
         /\ \A x \in BOOLEAN : [ch EXCEPT !.inBody = x] \in Channel
         /\ \A x \in Nat : [ch EXCEPT !.offset = x] \in Channel
         /\ \A x \in Texts : [ch EXCEPT !.requestBuffer = x] \in Channel
         /\ \A x \in Statements : [ch EXCEPT !.at = x] \in Channel
         /\ \A x \in Statuses : [ch EXCEPT !.responseStatus = x] \in Channel
         /\ \A x \in Seq(Statuses) : [ch EXCEPT !.written = x] \in Channel
         /\ \A x \in Seq(Statuses) : [ch EXCEPT !.responses = x] \in Channel
<1> DEFINE a == ch.link
           b == ch.heads
           c == ch.inBody
           d == ch.offset
           e == ch.requestBuffer
           f == ch.at
           g == ch.responseStatus
           h == ch.written
           i == ch.responses
<1>1. /\ ch = Made(a, b, c, d, e, f, g, h, i)
      /\ a \in Links /\ b \in Nat /\ c \in BOOLEAN /\ d \in Nat /\ e \in Texts /\ f \in Statements
      /\ g \in Statuses /\ h \in Seq(Statuses) /\ i \in Seq(Statuses)
  BY ChannelFields
<1> HIDE DEF a, b, c, d, e, f, g, h, i
<1>2. ASSUME NEW x \in Links PROVE [ch EXCEPT !.link = x] \in Channel
  <2>1. [Made(a, b, c, d, e, f, g, h, i) EXCEPT !.link = x] = Made(x, b, c, d, e, f, g, h, i)
    BY DEF Made
  <2>2. Made(x, b, c, d, e, f, g, h, i) \in Channel
    BY <1>1, MadeTyped
  <2> QED
    BY <1>1, <2>1, <2>2
<1>3. ASSUME NEW x \in Nat PROVE [ch EXCEPT !.heads = x] \in Channel
  <2>1. [Made(a, b, c, d, e, f, g, h, i) EXCEPT !.heads = x] = Made(a, x, c, d, e, f, g, h, i)
    BY DEF Made
  <2>2. Made(a, x, c, d, e, f, g, h, i) \in Channel
    BY <1>1, MadeTyped
  <2> QED
    BY <1>1, <2>1, <2>2
<1>4. ASSUME NEW x \in BOOLEAN PROVE [ch EXCEPT !.inBody = x] \in Channel
  <2>1. [Made(a, b, c, d, e, f, g, h, i) EXCEPT !.inBody = x] = Made(a, b, x, d, e, f, g, h, i)
    BY DEF Made
  <2>2. Made(a, b, x, d, e, f, g, h, i) \in Channel
    BY <1>1, MadeTyped
  <2> QED
    BY <1>1, <2>1, <2>2
<1>5. ASSUME NEW x \in Nat PROVE [ch EXCEPT !.offset = x] \in Channel
  <2>1. [Made(a, b, c, d, e, f, g, h, i) EXCEPT !.offset = x] = Made(a, b, c, x, e, f, g, h, i)
    BY DEF Made
  <2>2. Made(a, b, c, x, e, f, g, h, i) \in Channel
    BY <1>1, MadeTyped
  <2> QED
    BY <1>1, <2>1, <2>2
<1>6. ASSUME NEW x \in Texts PROVE [ch EXCEPT !.requestBuffer = x] \in Channel
  <2>1. [Made(a, b, c, d, e, f, g, h, i) EXCEPT !.requestBuffer = x] = Made(a, b, c, d, x, f, g, h, i)
    BY DEF Made
  <2>2. Made(a, b, c, d, x, f, g, h, i) \in Channel
    BY <1>1, MadeTyped
  <2> QED
    BY <1>1, <2>1, <2>2
<1>7. ASSUME NEW x \in Statements PROVE [ch EXCEPT !.at = x] \in Channel
  <2>1. [Made(a, b, c, d, e, f, g, h, i) EXCEPT !.at = x] = Made(a, b, c, d, e, x, g, h, i)
    BY DEF Made
  <2>2. Made(a, b, c, d, e, x, g, h, i) \in Channel
    BY <1>1, MadeTyped
  <2> QED
    BY <1>1, <2>1, <2>2
<1>8. ASSUME NEW x \in Statuses PROVE [ch EXCEPT !.responseStatus = x] \in Channel
  <2>1. [Made(a, b, c, d, e, f, g, h, i) EXCEPT !.responseStatus = x] = Made(a, b, c, d, e, f, x, h, i)
    BY DEF Made
  <2>2. Made(a, b, c, d, e, f, x, h, i) \in Channel
    BY <1>1, MadeTyped
  <2> QED
    BY <1>1, <2>1, <2>2
<1>9. ASSUME NEW x \in Seq(Statuses) PROVE [ch EXCEPT !.written = x] \in Channel
  <2>1. [Made(a, b, c, d, e, f, g, h, i) EXCEPT !.written = x] = Made(a, b, c, d, e, f, g, x, i)
    BY DEF Made
  <2>2. Made(a, b, c, d, e, f, g, x, i) \in Channel
    BY <1>1, MadeTyped
  <2> QED
    BY <1>1, <2>1, <2>2
<1>10. ASSUME NEW x \in Seq(Statuses) PROVE [ch EXCEPT !.responses = x] \in Channel
  <2>1. [Made(a, b, c, d, e, f, g, h, i) EXCEPT !.responses = x] = Made(a, b, c, d, e, f, g, h, x)
    BY DEF Made
  <2>2. Made(a, b, c, d, e, f, g, h, x) \in Channel
    BY <1>1, MadeTyped
  <2> QED
    BY <1>1, <2>1, <2>2
<1> QED
  BY <1>2, <1>3, <1>4, <1>5, <1>6, <1>7, <1>8, <1>9, <1>10

\* A step of one channel that leaves its text alone.
SameText(c) ==
  /\ channel' \in [Channels -> Channel]
  /\ channel'[c].requestBuffer = channel[c].requestBuffer
  /\ channel'[c].offset = channel[c].offset

\* It does so if the step changes this channel only, and other fields of it.
LEMMA ChannelChanges ==
  ASSUME Typed, NEW c \in Channels, NEW new \in Channel,
         channel' = [channel EXCEPT ![c] = new],
         new.requestBuffer = channel[c].requestBuffer, new.offset = channel[c].offset
  PROVE  SameText(c)
BY DEF Typed, SameText

\* A client connects.
LEMMA ConnectText ==
  ASSUME Typed, NEW c \in Channels, Connect(c)
  PROVE  SameText(c)
<1> DEFINE ch == channel[c]
           new == [ch EXCEPT !.link = "open"]
<1>1. channel' = [channel EXCEPT ![c] = new]
  BY DEF Connect
<1>2. ch \in Channel
  BY DEF Typed
<1> HIDE DEF ch
<1>3. new.requestBuffer = ch.requestBuffer /\ new.offset = ch.offset
  BY <1>2 DEF Channel
<1>4. new \in Channel
  BY <1>2, FieldsChange DEF Links
<1> QED
  BY <1>1, <1>3, <1>4, ChannelChanges DEF ch

\* The handler comes to its next statement.
LEMMA WorkText ==
  ASSUME Typed, NEW c \in Channels, Save(c) \/ Publish(c)
  PROVE  SameText(c)
<1> DEFINE ch == channel[c]
           new(at) == [ch EXCEPT !.at = at]
<1>1. PICK at \in {"publish", "respond"} : channel' = [channel EXCEPT ![c] = new(at)]
  BY DEF Save, Publish
<1>2. ch \in Channel
  BY DEF Typed
<1> HIDE DEF ch
<1>3. new(at).requestBuffer = ch.requestBuffer /\ new(at).offset = ch.offset
  BY <1>2 DEF Channel
<1>4. new(at) \in Channel
  BY <1>2, FieldsChange DEF Statements
<1> QED
  BY <1>1, <1>3, <1>4, ChannelChanges DEF ch

\* A call throws.
LEMMA FailText ==
  ASSUME Typed, NEW c \in Channels, Fail(c)
  PROVE  SameText(c)
<1> DEFINE ch == channel[c]
           status == FailureStatus(c)
           throws == [ch EXCEPT !.at = "respond"]
           new == [throws EXCEPT !.responseStatus = status]
<1>1. channel' = [channel EXCEPT ![c].at = "respond", ![c].responseStatus = status]
  BY Zenon DEF Fail
<1> HIDE DEF status
<1>2. channel' = [channel EXCEPT ![c] = new]
  BY <1>1
<1>3. ch \in Channel
  BY DEF Typed
<1>4. "respond" \in Statements /\ status \in Statuses
  BY DEF Statements, Statuses, status, FailureStatus
<1> HIDE DEF ch
<1>5. throws \in Channel /\ throws.requestBuffer = ch.requestBuffer /\ throws.offset = ch.offset
  <2>1. throws \in Channel
    BY <1>3, <1>4, FieldsChange
  <2> QED
    BY <1>3, <2>1 DEF Channel
<1> HIDE DEF throws
<1>6. new \in Channel /\ new.requestBuffer = ch.requestBuffer /\ new.offset = ch.offset
  <2>1. new \in Channel
    BY <1>4, <1>5, FieldsChange
  <2> QED
    BY <1>5, <2>1 DEF Channel
<1> HIDE DEF new
<1> QED
  BY <1>2, <1>6, ChannelChanges DEF ch

\* The handler responds.
LEMMA RespondText ==
  ASSUME Typed, NEW c \in Channels, Respond(c)
  PROVE  SameText(c)
<1> DEFINE ch == channel[c]
           more == ch.written \o <<ch.responseStatus>>
           open == ch.link = "open"
           stays == open /\ KeepAlive[Request(c)]
           link == IF stays THEN ch.link ELSE "closing"
           written == IF stays THEN more ELSE <<>>
           responses == IF open /\ ~stays THEN ch.responses \o more ELSE ch.responses
           new == [ch EXCEPT !.at = "read", !.link = link, !.written = written,
                             !.responses = responses]
<1>1. channel' = [channel EXCEPT ![c] = new]
  BY DEF Respond
<1>2. ch \in Channel
  BY DEF Typed
<1>3. /\ ch.link \in Links /\ ch.responseStatus \in Statuses
      /\ ch.written \in Seq(Statuses) /\ ch.responses \in Seq(Statuses)
  BY <1>2, ChannelFields
<1> HIDE DEF ch
<1>4. more \in Seq(Statuses) /\ ch.responses \o more \in Seq(Statuses) /\ <<>> \in Seq(Statuses)
  BY <1>3
<1> HIDE DEF more, stays, open
<1>5. link \in Links /\ written \in Seq(Statuses) /\ responses \in Seq(Statuses)
  BY <1>3, <1>4 DEF Links
<1> HIDE DEF link, written, responses
<1>6. new.requestBuffer = ch.requestBuffer /\ new.offset = ch.offset
  BY <1>2 DEF Channel
<1>7. new \in Channel
  <2>1. [ch EXCEPT !.at = "read"] \in Channel
    BY <1>2, FieldsChange DEF Statements
  <2>2. [ch EXCEPT !.at = "read", !.link = link] \in Channel
    BY <1>5, <2>1, FieldsChange
  <2>3. [ch EXCEPT !.at = "read", !.link = link, !.written = written] \in Channel
    BY <1>5, <2>2, FieldsChange
  <2> QED
    BY <1>5, <2>3, FieldsChange
<1> HIDE DEF new
<1> QED
  BY <1>1, <1>6, <1>7, ChannelChanges DEF ch

\* What was written is flushed, or the connection is gone.
LEMMA ReadCompleteText ==
  ASSUME Typed, NEW c \in Channels, ReadComplete(c)
  PROVE  SameText(c)
<1> DEFINE ch == channel[c]
           flushed == ch.responses \o ch.written
           new == [ch EXCEPT !.responses = flushed, !.written = <<>>]
           gone == [ch EXCEPT !.link = "closed"]
<1>1. \/ channel' = [channel EXCEPT ![c] = new]
      \/ channel' = [channel EXCEPT ![c] = gone]
  BY DEF ReadComplete, Flushed
<1>2. ch \in Channel
  BY DEF Typed
<1>3. ch.written \in Seq(Statuses) /\ ch.responses \in Seq(Statuses)
  BY <1>2, ChannelFields
<1> HIDE DEF ch
<1>4. flushed \in Seq(Statuses) /\ <<>> \in Seq(Statuses)
  BY <1>3
<1> HIDE DEF flushed
<1>5. /\ new.requestBuffer = ch.requestBuffer /\ new.offset = ch.offset
      /\ gone.requestBuffer = ch.requestBuffer /\ gone.offset = ch.offset
  BY <1>2 DEF Channel
<1>6. new \in Channel /\ gone \in Channel
  <2>1. [ch EXCEPT !.responses = flushed] \in Channel
    BY <1>2, <1>4, FieldsChange
  <2>2. new \in Channel
    BY <1>4, <2>1, FieldsChange
  <2>3. gone \in Channel
    BY <1>2, FieldsChange DEF Links
  <2> QED
    BY <2>2, <2>3
<1> HIDE DEF new, gone
<1> QED
  BY <1>1, <1>5, <1>6, ChannelChanges DEF ch

\* The connection fails.
LEMMA LoseText ==
  ASSUME Typed, NEW c \in Channels, Lose(c)
  PROVE  SameText(c)
<1> DEFINE ch == channel[c]
           new == [ch EXCEPT !.link = "closing", !.written = <<>>]
<1>1. channel' = [channel EXCEPT ![c] = new]
  BY DEF Lose
<1>2. ch \in Channel
  BY DEF Typed
<1> HIDE DEF ch
<1>3. new.requestBuffer = ch.requestBuffer /\ new.offset = ch.offset
  BY <1>2 DEF Channel
<1>4. new \in Channel
  <2>1. [ch EXCEPT !.link = "closing"] \in Channel
    BY <1>2, FieldsChange DEF Links
  <2>2. <<>> \in Seq(Statuses)
    OBVIOUS
  <2> QED
    BY <2>1, <2>2, FieldsChange
<1> QED
  BY <1>1, <1>3, <1>4, ChannelChanges DEF ch

\* The text of a channel is another one after the step.
NewText(c, text, offset) ==
  /\ channel' \in [Channels -> Channel]
  /\ channel'[c].requestBuffer = text /\ channel'[c].offset = offset

\* An HttpRequest empties the buffer.
LEMMA ReadHeadText ==
  ASSUME Typed, NEW c \in Channels, ReadHead(c)
  PROVE  NewText(c, <<>>, 0)
<1> DEFINE ch == channel[c]
           heads == ch.heads + 1
           new == [ch EXCEPT !.heads = heads, !.inBody = TRUE, !.offset = 0,
                             !.requestBuffer = <<>>]
<1>1. channel' = [channel EXCEPT ![c] = new]
  BY DEF ReadHead, Emptied
<1>2. ch \in Channel /\ ch.heads \in Nat
  BY ChannelFields DEF Typed
<1> HIDE DEF ch
<1>3. heads \in Nat /\ <<>> \in Texts
  BY <1>2 DEF Texts
<1> HIDE DEF heads
<1>4. new.requestBuffer = <<>> /\ new.offset = 0
  BY <1>2 DEF Channel
<1>5. new \in Channel
  <2>1. [ch EXCEPT !.heads = heads] \in Channel
    BY <1>2, <1>3, FieldsChange
  <2>2. [ch EXCEPT !.heads = heads, !.inBody = TRUE] \in Channel
    BY <2>1, FieldsChange
  <2>3. [ch EXCEPT !.heads = heads, !.inBody = TRUE, !.offset = 0] \in Channel
    BY <2>2, FieldsChange
  <2> QED
    BY <1>3, <2>3, FieldsChange
<1> HIDE DEF new
<1>6. channel' \in [Channels -> Channel] /\ channel'[c] = new
  BY <1>1, <1>5 DEF Typed
<1> QED
  BY <1>4, <1>6 DEF NewText

\* The latest post of a channel that is within its body.
LEMMA LatestPost ==
  ASSUME ReceiverAssumption, Typed, NEW c \in Channels, ChannelAgrees(c),
         channel[c].inBody \/ channel[c].at # "read"
  PROVE  /\ Request(c) \in Posts /\ Body[Request(c)] \in Seq(Bytes)
         /\ channel[c].heads \in 1 .. Len(Plan[c])
<1>1. channel[c].heads \in Nat /\ channel[c].heads > 0 /\ channel[c].heads <= Len(Plan[c])
  BY ChannelFields DEF Typed, ChannelAgrees, Busy
<1>2. Plan[c] \in Seq(Posts) /\ Body \in [Posts -> Seq(Bytes)]
  BY DEF ReceiverAssumption
<1>3. channel[c].heads \in 1 .. Len(Plan[c])
  BY <1>1, <1>2
<1> QED
  BY <1>2, <1>3 DEF Request

\* What is to come of a body is a sequence of bytes.
LEMMA RestTyped ==
  ASSUME NEW body \in Seq(Bytes), NEW offset \in Nat
  PROVE  SubSeq(body, offset + 1, Len(body)) \in Seq(Bytes)
OBVIOUS

\* An HttpContent adds the characters of its bytes.
LEMMA ReadContentText ==
  ASSUME ReceiverAssumption, Typed, NEW c \in Channels, ChannelAgrees(c), ReadContent(c)
  PROVE  \E n \in 1 .. Len(Rest(c)) :
           /\ NewText(c, channel[c].requestBuffer \o DecodeUtf8(NextBytes(c, n)),
                      channel[c].offset + n)
           /\ split' = IF n < Len(Rest(c)) /\ Rest(c)[n + 1] = "second"
                         THEN split \cup {Request(c)} ELSE split
<1> DEFINE ch == channel[c]
<1>1. PICK n \in 1 .. Len(Rest(c)) :
        /\ channel' = [channel EXCEPT
                         ![c].offset = @ + n,
                         ![c].requestBuffer = @ \o DecodeUtf8(NextBytes(c, n))]
        /\ split' = IF n < Len(Rest(c)) /\ Rest(c)[n + 1] = "second"
                      THEN split \cup {Request(c)} ELSE split
  BY DEF ReadContent
<1> DEFINE text == ch.requestBuffer \o DecodeUtf8(NextBytes(c, n))
           offset == ch.offset + n
           new == [ch EXCEPT !.offset = offset, !.requestBuffer = text]
<1>2. channel' = [channel EXCEPT ![c] = new]
  BY <1>1
<1>3. ch \in Channel /\ ch.offset \in Nat /\ ch.requestBuffer \in Texts
  BY ChannelFields DEF Typed
<1>4. Rest(c) \in Seq(Bytes) /\ n \in 1 .. Len(Rest(c))
  <2>1. Body[Request(c)] \in Seq(Bytes)
    BY LatestPost DEF ReadContent
  <2>2. Rest(c) = SubSeq(Body[Request(c)], ch.offset + 1, Len(Body[Request(c)]))
    BY DEF Rest
  <2> HIDE DEF ch
  <2> QED
    BY <1>3, <2>1, <2>2, RestTyped
<1>5. DecodeUtf8(NextBytes(c, n)) \in Texts
  <2>1. NextBytes(c, n) \in Seq(Bytes)
    BY <1>4 DEF NextBytes
  <2> QED
    BY <2>1, DecodedTyped DEF Texts
<1>6. text \in Texts /\ offset \in Nat
  BY <1>3, <1>4, <1>5 DEF Texts
<1> HIDE DEF ch
<1> HIDE DEF text, offset
<1>7. new.requestBuffer = text /\ new.offset = offset
  BY <1>3 DEF Channel
<1>8. new \in Channel
  <2>1. [ch EXCEPT !.offset = offset] \in Channel
    BY <1>3, <1>6, FieldsChange
  <2> QED
    BY <1>6, <2>1, FieldsChange
<1> HIDE DEF new
<1>9. channel' \in [Channels -> Channel] /\ channel'[c] = new
  BY <1>2, <1>8 DEF Typed
<1>10. NewText(c, text, offset)
  BY <1>7, <1>9 DEF NewText
<1> QED
  BY <1>1, <1>10 DEF text, offset, ch

\* The LastHttpContent adds those of the rest.
LEMMA ReadLastText ==
  ASSUME ReceiverAssumption, Typed, NEW c \in Channels, ChannelAgrees(c), ReadLast(c)
  PROVE  NewText(c, channel[c].requestBuffer \o DecodeUtf8(Rest(c)), Len(Body[Request(c)]))
<1>0. PICK readable \in Readable(WholeText(c)) :
        LET good == Kind[Request(c)] = "valid" /\ readable
        IN  channel' = [channel EXCEPT
              ![c].inBody = FALSE,
              ![c].offset = Len(Body[Request(c)]),
              ![c].requestBuffer = WholeText(c),
              ![c].responseStatus = IF good THEN 200
                                    ELSE Refusal(Request(c), readable),
              ![c].at = IF good THEN "save" ELSE "respond"]
  BY DEF ReadLast
<1> DEFINE ch == channel[c]
           good == Kind[Request(c)] = "valid" /\ readable
           text == ch.requestBuffer \o DecodeUtf8(Rest(c))
           offset == Len(Body[Request(c)])
           status == IF good THEN 200 ELSE Refusal(Request(c), readable)
           next == IF good THEN "save" ELSE "respond"
           new == [ch EXCEPT !.inBody = FALSE, !.offset = offset, !.requestBuffer = text,
                             !.responseStatus = status, !.at = next]
<1>1. channel' = [channel EXCEPT ![c] = new]
  BY <1>0 DEF WholeText
<1>2. ch \in Channel /\ ch.offset \in Nat /\ ch.requestBuffer \in Texts
  BY ChannelFields DEF Typed
<1>3. Body[Request(c)] \in Seq(Bytes)
  BY LatestPost DEF ReadLast
<1>4. Rest(c) \in Seq(Bytes)
  <2>1. Rest(c) = SubSeq(Body[Request(c)], ch.offset + 1, Len(Body[Request(c)]))
    BY DEF Rest
  <2> HIDE DEF ch
  <2> QED
    BY <1>2, <1>3, <2>1, RestTyped
<1>5. DecodeUtf8(Rest(c)) \in Texts
  BY <1>4, DecodedTyped DEF Texts
<1>6. text \in Texts /\ offset \in Nat
  BY <1>2, <1>3, <1>5 DEF Texts
<1>7. status \in Statuses /\ next \in Statements
  BY DEF Statuses, Statements, Refusal
<1> HIDE DEF ch
<1> HIDE DEF text, offset, status, next
<1>8. new.requestBuffer = text /\ new.offset = offset
  BY <1>2 DEF Channel
<1>9. new \in Channel
  <2>1. [ch EXCEPT !.inBody = FALSE] \in Channel
    BY <1>2, FieldsChange
  <2>2. [ch EXCEPT !.inBody = FALSE, !.offset = offset] \in Channel
    BY <1>6, <2>1, FieldsChange
  <2>3. [ch EXCEPT !.inBody = FALSE, !.offset = offset, !.requestBuffer = text] \in Channel
    BY <1>6, <2>2, FieldsChange
  <2>4. [ch EXCEPT !.inBody = FALSE, !.offset = offset, !.requestBuffer = text,
                   !.responseStatus = status] \in Channel
    BY <1>7, <2>3, FieldsChange
  <2> QED
    BY <1>7, <2>4, FieldsChange
<1> HIDE DEF new
<1>10. channel' \in [Channels -> Channel] /\ channel'[c] = new
  BY <1>1, <1>9 DEF Typed
<1>11. NewText(c, text, offset)
  BY <1>8, <1>10 DEF NewText
<1> QED
  BY <1>11 DEF text, offset, ch

-----------------------------------------------------------------------------
(***************************************************************************)
(* What is stored is the text of the post's own body.                      *)
(***************************************************************************)
\* What was read and what comes next make up what will have been read.
LEMMA BodyTogether ==
  ASSUME NEW body \in Seq(Bytes), NEW offset \in 0 .. Len(body),
         NEW n \in 0 .. Len(body) - offset
  PROVE  LET rest == SubSeq(body, offset + 1, Len(body))
             next == SubSeq(rest, 1, n)
         IN  /\ rest \in Seq(Bytes) /\ Len(rest) = Len(body) - offset
             /\ SubSeq(body, 1, offset) \in Seq(Bytes) /\ next \in Seq(Bytes)
             /\ Len(SubSeq(body, 1, offset)) = offset /\ Len(next) = n
             /\ n > 0 => next[1] = body[offset + 1]
             /\ \A i \in 1 .. Len(rest) : rest[i] = body[offset + i]
             /\ SubSeq(body, 1, offset) \o next = SubSeq(body, 1, offset + n)
<1> DEFINE rest == SubSeq(body, offset + 1, Len(body))
           next == SubSeq(rest, 1, n)
           read == SubSeq(body, 1, offset)
           more == SubSeq(body, 1, offset + n)
<1>1. Len(body) \in Nat /\ offset \in Nat /\ n \in Nat /\ offset + n <= Len(body)
  OBVIOUS
<1>2. /\ rest \in Seq(Bytes) /\ Len(rest) = Len(body) - offset
      /\ \A i \in 1 .. Len(rest) : rest[i] = body[offset + i]
  BY <1>1
<1>3. /\ read \in Seq(Bytes) /\ Len(read) = offset
      /\ \A i \in 1 .. offset : read[i] = body[i]
  BY <1>1
<1>4. /\ more \in Seq(Bytes) /\ Len(more) = offset + n
      /\ \A i \in 1 .. offset + n : more[i] = body[i]
  BY <1>1
<1> HIDE DEF rest, read, more
<1>5. /\ next \in Seq(Bytes) /\ Len(next) = n
      /\ \A i \in 1 .. n : next[i] = body[offset + i]
  <2>1. n <= Len(rest)
    BY <1>1, <1>2
  <2>2. /\ next \in Seq(Bytes) /\ Len(next) = n
        /\ \A i \in 1 .. n : next[i] = rest[i]
    BY <1>1, <1>2, <2>1
  <2> QED
    BY <1>1, <1>2, <2>1, <2>2
<1> HIDE DEF next
<1>6. read \o next = more
  <2>1. /\ read \o next \in Seq(Bytes) /\ Len(read \o next) = Len(read) + Len(next)
        /\ \A i \in 1 .. Len(read) + Len(next) :
             (read \o next)[i] = IF i <= Len(read) THEN read[i] ELSE next[i - Len(read)]
    BY <1>3, <1>5, ConcatProperties
  <2>2. ASSUME NEW i \in 1 .. offset + n PROVE (read \o next)[i] = more[i]
    <3>1. CASE i \in 1 .. offset
      <4>1. (read \o next)[i] = IF i <= Len(read) THEN read[i] ELSE next[i - Len(read)]
        BY <1>3, <1>5, <2>1
      <4>2. i <= Len(read)
        BY <1>3, <3>1
      <4>3. read[i] = body[i] /\ more[i] = body[i]
        BY <1>3, <1>4, <3>1
      <4> QED
        BY <4>1, <4>2, <4>3
    <3>2. CASE i \notin 1 .. offset
      <4>1. i - offset \in 1 .. n /\ offset + (i - offset) = i
        BY <1>1, <3>2
      <4>2. ~ (i <= offset)
        BY <1>1, <3>2
      <4>3. (read \o next)[i] = next[i - offset]
        BY <1>3, <1>5, <2>1, <4>2
      <4>4. next[i - offset] = body[i] /\ more[i] = body[i]
        BY <1>4, <1>5, <4>1
      <4> QED
        BY <4>3, <4>4
    <3> QED
      BY <3>1, <3>2
  <2> QED
    BY <1>3, <1>4, <1>5, <2>1, <2>2, SeqEqual
<1> QED
  BY <1>1, <1>2, <1>3, <1>5, <1>6 DEF rest, next, read, more

\* So the buffer goes on following the body: content upon content.
LEMMA TextGrows ==
  ASSUME NEW body \in Seq(Bytes), NEW offset \in 0 .. Len(body),
         NEW n \in 0 .. Len(body) - offset,
         offset \in 1 .. Len(body) - 1 => body[offset + 1] # "second"
  PROVE  DecodeUtf8(SubSeq(body, 1, offset))
           \o DecodeUtf8(SubSeq(SubSeq(body, offset + 1, Len(body)), 1, n))
           = DecodeUtf8(SubSeq(body, 1, offset + n))
<1> DEFINE read == SubSeq(body, 1, offset)
           next == SubSeq(SubSeq(body, offset + 1, Len(body)), 1, n)
<1>2. /\ read \in Seq(Bytes) /\ next \in Seq(Bytes) /\ Len(read) = offset /\ Len(next) = n
      /\ n > 0 => next[1] = body[offset + 1]
      /\ read \o next = SubSeq(body, 1, offset + n)
  BY BodyTogether
<1>1. Len(body) \in Nat
  OBVIOUS
<1> HIDE DEF read, next
<1>3. read = <<>> \/ next = <<>> \/ next[1] # "second"
  <2>1. CASE offset = 0
    BY <1>2, <2>1, EmptySeq
  <2>2. CASE n = 0
    BY <1>2, <2>2, EmptySeq
  <2>3. CASE offset # 0 /\ n # 0
    <3>1. offset \in 1 .. Len(body) - 1
      BY <1>1, <2>3
    <3> QED
      BY <1>2, <2>3, <3>1
  <2> QED
    BY <2>1, <2>2, <2>3
<1>4. DecodeUtf8(read \o next) = DecodeUtf8(read) \o DecodeUtf8(next)
  BY <1>2, <1>3, DecodedTogether
<1> QED
  BY <1>2, <1>4 DEF read, next

\* No bytes stand for the empty text.
LEMMA DecodedNone ==
  DecodeUtf8(<<>>) = <<>>
<1>1. <<>> \in Seq(Bytes) /\ Starts(<<>>) = {}
  BY DEF Starts
<1>2. DecodeUtf8(<<>>) \in [1 .. 0 -> Chars]
  BY <1>1, DecodedChars, FS_EmptySet
<1>3. DecodeUtf8(<<>>) \in Seq(Chars) /\ Len(DecodeUtf8(<<>>)) = 0
  BY <1>2
<1> QED
  BY <1>3, EmptySeq

\* The texts of all channels, when one of them takes a step.
LEMMA TextsStep ==
  ASSUME TextsAgree, NEW c \in Channels,
         \A d \in Channels \ {c} : channel'[d] = channel[d],
         split \subseteq split', TextAgrees(c)'
  PROVE  TextsAgree'
<1>1. ASSUME NEW d \in Channels \ {c} PROVE TextAgrees(d)'
  <2>1. TextAgrees(d) /\ channel'[d] = channel[d] /\ Request(d)' = Request(d)
    BY DEF TextsAgree, Request
  <2> QED
    BY <2>1 DEF TextAgrees, Follows
<1> QED
  BY <1>1 DEF TextsAgree

\* A step that leaves the text and the place in the plan alone.
LEMMA SameTextAgrees ==
  ASSUME NEW c \in Channels, TextAgrees(c), split \subseteq split',
         channel'[c].requestBuffer = channel[c].requestBuffer,
         channel'[c].offset = channel[c].offset,
         channel'[c].heads = channel[c].heads, channel'[c].inBody = channel[c].inBody,
         channel'[c].at = "save" => channel[c].at = "save",
         channel[c].inBody /\ channel'[c].link # "closed" => channel[c].link # "closed"
  PROVE  TextAgrees(c)'
<1>1. Request(c)' = Request(c)
  BY DEF Request
<1> QED
  BY <1>1 DEF TextAgrees, Follows

\* What readValue reads is the text, or what another charset than UTF-8 leaves of
\* it.
LEMMA RereadText ==
  ASSUME NEW text \in Texts
  PROVE  /\ Reread(text) \in RowTexts
         /\ \/ Reread(text) = text
            \/ Reread(text) = Garbled(text) /\ Charset[crashes] # "UTF-8"
<1>1. /\ Len(text) \in Nat /\ DOMAIN text = 1..Len(text)
      /\ \A i \in 1..Len(text) : text[i] \in Chars
  BY DEF Texts
<1>2. text \in RowTexts
  <2> DEFINE n == Len(text)
  <2>1. text \in [1..n -> Chars \cup {"garbled"}] /\ n \in Nat
    BY <1>1 DEF Texts
  <2> HIDE DEF n
  <2> QED
    BY <2>1 DEF RowTexts
<1>3. Garbled(text) \in RowTexts
  <2> DEFINE n == Len(text)
  <2>1. Garbled(text) \in [1..n -> Chars \cup {"garbled"}] /\ n \in Nat
    BY <1>1 DEF Garbled, Chars
  <2> HIDE DEF n
  <2> QED
    BY <2>1 DEF RowTexts
<1> QED
  BY <1>2, <1>3 DEF Reread

\* What is stored remains what it was, and a row is made of a text that agrees.
LEMMA RowsOwn ==
  ASSUME ReceiverAssumption, Typed, PostsAgree, TextsAgree, TextIsOwn, NEW c \in Channels,
         \/ stored' = stored
         \/ channel[c].at = "save" /\ stored' = stored \cup {Row(c)},
         split \subseteq split', crashes' = crashes
  PROVE  /\ TextIsOwn'
         /\ stored' \in SUBSET [post : Posts, text : RowTexts]
<1>1. CASE stored' = stored
  BY <1>1 DEF TextIsOwn, Typed
<1>2. CASE channel[c].at = "save" /\ stored' = stored \cup {Row(c)}
  <2>1. TextAgrees(c) /\ ChannelAgrees(c)
    BY DEF TextsAgree, PostsAgree
  <2>2. Request(c) \in Posts /\ channel[c].requestBuffer \in Texts
    BY <1>2, <2>1, LatestPost, ChannelFields DEF Typed
  <2>3. Row(c) \in [post : Posts, text : RowTexts]
    BY <2>2, RereadText DEF Row
  <2>4. \/ Row(c).post \in split
        \/ Row(c).text = DecodeUtf8(Body[Row(c).post])
        \/ /\ Row(c).text = Garbled(DecodeUtf8(Body[Row(c).post]))
           /\ \E n \in 0..crashes : Charset[n] # "UTF-8"
    <3>1. crashes \in 0..crashes
      BY DEF Typed
    <3> DEFINE text == channel[c].requestBuffer
               read == Reread(text)
    <3>2. \/ read = text
          \/ read = Garbled(text) /\ Charset[crashes] # "UTF-8"
      BY <2>2, RereadText
    <3>3. Row(c).post = Request(c) /\ Row(c).text = read
      BY DEF Row
    <3>4. Request(c) \in split \/ text = DecodeUtf8(Body[Request(c)])
      BY <1>2, <2>1 DEF TextAgrees
    <3> HIDE DEF text, read
    <3> QED
      BY <3>1, <3>2, <3>3, <3>4
  <2> QED
    BY <1>2, <2>3, <2>4 DEF TextIsOwn, Typed
<1> QED
  BY <1>1, <1>2

\* What every step keeps.
TextsTrue == Typed /\ TextsAgree /\ TextIsOwn

\* Steps of one channel in which it reads nothing.
Leaves(c) ==
  /\ SameText(c)
  /\ channel'[c].heads = channel[c].heads /\ channel'[c].inBody = channel[c].inBody
  /\ channel'[c].at = "save" => channel[c].at = "save"
  /\ channel[c].inBody /\ channel'[c].link # "closed" => channel[c].link # "closed"
  /\ \A d \in Channels \ {c} : channel'[d] = channel[d]
  /\ split' = split
  /\ stored' = stored \/ (channel[c].at = "save" /\ stored' = stored \cup {Row(c)})
  /\ published' = published \/ (channel[c].at = "publish" /\ published' = published \cup {Request(c)})
  /\ failures' \in Nat /\ losses' \in Nat /\ crashes' = crashes

\* They keep types and texts.
LEMMA LeavesTrue ==
  ASSUME ReceiverAssumption, PostsAgree, TextsTrue, NEW c \in Channels, Leaves(c)
  PROVE  TextsTrue'
<1>1. TextsAgree'
  <2>1. TextAgrees(c)'
    BY SameTextAgrees DEF Leaves, SameText, TextsTrue, TextsAgree
  <2> QED
    BY <2>1, TextsStep DEF Leaves, TextsTrue
<1>2. TextIsOwn' /\ stored' \in SUBSET [post : Posts, text : RowTexts]
  BY RowsOwn DEF Leaves, TextsTrue
<1>3. published' \in SUBSET Posts
  <2>1. CASE channel[c].at = "publish"
    <3>1. Request(c) \in Posts
      BY <2>1, LatestPost DEF PostsAgree, TextsTrue
    <3> QED
      BY <3>1 DEF Leaves, TextsTrue, Typed
  <2>2. CASE channel[c].at # "publish"
    BY <2>2 DEF Leaves, TextsTrue, Typed
  <2> QED
    BY <2>1, <2>2
<1>4. Typed'
  BY <1>2, <1>3 DEF Leaves, SameText, TextsTrue, Typed
<1> QED
  BY <1>1, <1>2, <1>4 DEF TextsTrue

\* All steps of a channel but ReadHead, ReadContent and ReadLast are such steps.
LEMMA LeavingSteps ==
  ASSUME HasFields, PostsAgree, Typed, NEW c \in Channels,
         Connect(c) \/ Handle(c) \/ ReadComplete(c) \/ Lose(c)
  PROVE  Leaves(c)
<1>1. CASE Connect(c)
  <2>1. /\ channel[c].link = "new"
        /\ UNCHANGED <<stored, published, split, failures, losses, crashes>>
    BY <1>1 DEF Connect
  <2> QED
    BY <1>1, <2>1, ConnectText, ConnectEffect DEF Becomes, Leaves, Typed
<1>2. CASE Save(c)
  <2>1. /\ channel[c].at = "save" /\ stored' = stored \cup {Row(c)}
        /\ UNCHANGED <<published, split, failures, losses, crashes>>
    BY <1>2 DEF Save
  <2> QED
    BY <1>2, <2>1, WorkText, SaveEffect DEF Becomes, Leaves, Typed
<1>3. CASE Publish(c)
  <2>1. /\ channel[c].at = "publish" /\ published' = published \cup {Request(c)}
        /\ UNCHANGED <<stored, split, failures, losses, crashes>>
    BY <1>3 DEF Publish
  <2> QED
    BY <1>3, <2>1, WorkText, PublishEffect DEF Becomes, Leaves, Typed
<1>4. CASE Fail(c)
  <2>1. /\ stored' = stored \/ (channel[c].at = "save" /\ stored' = stored \cup {Row(c)})
        /\ \/ published' = published
           \/ channel[c].at = "publish" /\ published' = published \cup {Request(c)}
        /\ failures' = failures + 1 /\ UNCHANGED <<split, losses, crashes>>
    BY <1>4 DEF Fail
  <2>2. failures' \in Nat
    BY <2>1 DEF Typed
  <2> QED
    BY <1>4, <2>1, <2>2, FailText, FailEffect DEF Becomes, Leaves, Typed
<1>5. CASE Respond(c)
  <2>1. UNCHANGED <<stored, published, split, failures, losses, crashes>>
    BY <1>5 DEF Respond
  <2>2. SameText(c)
    BY <1>5, RespondText
  <2>3. /\ channel'[c].at = "read" /\ channel'[c].heads = channel[c].heads
        /\ channel'[c].inBody = channel[c].inBody
        /\ channel'[c].link = channel[c].link \/ channel'[c].link = "closing"
        /\ \A d \in Channels \ {c} : channel'[d] = channel[d]
    BY <1>5, RespondEffect DEF Becomes
  <2>4. ~ channel[c].inBody
    BY <1>5 DEF Respond, PostsAgree, ChannelAgrees
  <2> QED
    BY <2>1, <2>2, <2>3, <2>4 DEF Leaves, Typed
<1>6. CASE ReadComplete(c)
  <2>1. /\ channel[c].link \in {"open", "closing"}
        /\ UNCHANGED <<stored, published, split, failures, losses, crashes>>
    BY <1>6 DEF ReadComplete, Reading
  <2>2. SameText(c)
    BY <1>6, ReadCompleteText
  <2>3. /\ channel'[c].at = channel[c].at /\ channel'[c].heads = channel[c].heads
        /\ channel'[c].inBody = channel[c].inBody
        /\ \A d \in Channels \ {c} : channel'[d] = channel[d]
    BY <1>6, ReadCompleteEffect DEF Becomes
  <2> QED
    BY <2>1, <2>2, <2>3 DEF Leaves, Typed
<1>7. CASE Lose(c)
  <2>1. /\ channel[c].link = "open" /\ losses' = losses + 1
        /\ UNCHANGED <<stored, published, split, failures, crashes>>
    BY <1>7 DEF Lose
  <2>2. losses' \in Nat
    BY <2>1 DEF Typed
  <2> QED
    BY <1>7, <2>1, <2>2, LoseText, LoseEffect DEF Becomes, Leaves, Typed
<1> QED
  BY <1>1, <1>2, <1>3, <1>4, <1>5, <1>6, <1>7 DEF Handle

\* A head begins a text of its own.
LEMMA ReadHeadTrue ==
  ASSUME ReceiverAssumption, HasFields, TextsTrue, NEW c \in Channels, ReadHead(c)
  PROVE  TextsTrue'
<1>1. /\ NewText(c, <<>>, 0)
      /\ UNCHANGED <<stored, published, split, failures, losses, crashes>>
      /\ channel[c].at = "read" /\ channel[c].heads < Len(Plan[c])
  BY ReadHeadText DEF TextsTrue, ReadHead, Reading
<1>2. /\ channel'[c].heads = channel[c].heads + 1 /\ channel'[c].at = channel[c].at
      /\ \A d \in Channels \ {c} : channel'[d] = channel[d]
  BY ReadHeadEffect DEF Becomes
<1>3. Body[Request(c)'] \in Seq(Bytes)
  <2>1. channel[c].heads \in Nat /\ Plan[c] \in Seq(Posts) /\ Body \in [Posts -> Seq(Bytes)]
    BY DEF HasFields, Fields, ReceiverAssumption
  <2>2. channel[c].heads + 1 \in 1 .. Len(Plan[c])
    BY <1>1, <2>1
  <2>3. Plan[c][channel[c].heads + 1] \in Posts
    BY <2>1, <2>2
  <2> QED
    BY <1>2, <2>1, <2>3 DEF Request
<1>4. TextAgrees(c)'
  <2> DEFINE body == Body[Request(c)']
  <2>1. SubSeq(body, 1, 0) = <<>> /\ Len(body) \in Nat
    BY <1>3, SubSeqEmpty
  <2>2. channel'[c].requestBuffer = <<>> /\ channel'[c].offset = 0 /\ channel'[c].at = "read"
    BY <1>1, <1>2 DEF NewText
  <2>3. Follows(Request(c), channel[c].requestBuffer, channel[c].offset)'
    <3>1. (SubSeq(Body[Request(c)], 1, channel[c].offset))' = <<>>
      BY <2>1, <2>2
    <3>2. ~ (channel'[c].offset \in 1 .. Len(body) - 1)
      BY <2>1, <2>2
    <3> QED
      BY <2>2, <3>1, <3>2, DecodedNone DEF Follows
  <2> QED
    BY <2>1, <2>2, <2>3 DEF TextAgrees
<1>5. TextsAgree' /\ TextIsOwn'
  BY <1>1, <1>2, <1>4, TextsStep DEF TextsTrue, TextIsOwn
<1>6. Typed'
  BY <1>1 DEF TextsTrue, Typed, NewText
<1> QED
  BY <1>5, <1>6 DEF TextsTrue

\* Follows of the state after a step, of values from before it.
FollowsThen(p, text, offset) ==
  \/ p \in split'
  \/ /\ text = DecodeUtf8(SubSeq(Body[p], 1, offset))
     /\ offset \in 1 .. Len(Body[p]) - 1 => Body[p][offset + 1] # "second"

\* A content goes on with it, or cuts a character.
LEMMA ReadContentTrue ==
  ASSUME ReceiverAssumption, HasFields, PostsAgree, TextsTrue, NEW c \in Channels,
         ReadContent(c)
  PROVE  TextsTrue'
<1> DEFINE post == Request(c)
           whole == Body[post]
           place == channel[c].offset
           got == channel[c].requestBuffer
<1>1. PICK n \in 1 .. Len(Rest(c)) :
        /\ NewText(c, got \o DecodeUtf8(NextBytes(c, n)), place + n)
        /\ split' = IF n < Len(Rest(c)) /\ Rest(c)[n + 1] = "second"
                      THEN split \cup {post} ELSE split
  BY ReadContentText DEF PostsAgree, TextsTrue
<1>2. /\ UNCHANGED <<stored, published, failures, losses, crashes>>
      /\ channel[c].at = "read" /\ channel[c].link # "closed" /\ channel[c].inBody
  BY DEF ReadContent, Reading
<1>3. /\ channel'[c].heads = channel[c].heads /\ channel'[c].at = channel[c].at
      /\ \A d \in Channels \ {c} : channel'[d] = channel[d]
  BY ReadContentEffect DEF Becomes
<1>4. post \in Posts /\ whole \in Seq(Bytes)
  BY <1>2, LatestPost DEF PostsAgree, TextsTrue
<1>5. place \in Nat /\ place <= Len(whole) /\ Follows(post, got, place)
  BY <1>2, ChannelFields DEF TextsTrue, Typed, TextsAgree, TextAgrees
<1>6. place \in 0 .. Len(whole) /\ Len(whole) \in Nat
  BY <1>4, <1>5
<1>7. /\ Rest(c) = SubSeq(whole, place + 1, Len(whole))
      /\ Len(Rest(c)) = Len(whole) - place
      /\ \A i \in 1 .. Len(Rest(c)) : Rest(c)[i] = whole[place + i]
  <2>1. 0 \in 0 .. Len(whole) - place
    BY <1>6
  <2>2. Rest(c) = SubSeq(whole, place + 1, Len(whole))
    BY DEF Rest
  <2> HIDE DEF whole, place
  <2> QED
    BY <1>4, <1>6, <2>1, <2>2, BodyTogether
<1>8. n \in 0 .. Len(whole) - place /\ n \in Nat /\ place + n <= Len(whole)
  <2> HIDE DEF whole, place
  <2>1. n \in 1 .. Len(whole) - place
    BY <1>7
  <2> QED
    BY <1>6, <2>1
<1>9. Request(c)' = post
  BY <1>3 DEF Request
<1>10. split \subseteq split' /\ split' \in SUBSET Posts
  BY <1>1, <1>4 DEF TextsTrue, Typed
<1>11. FollowsThen(post, got \o DecodeUtf8(NextBytes(c, n)), place + n)
  <2>1. CASE post \in split
    BY <1>10, <2>1 DEF FollowsThen
  <2>2. CASE post \notin split
    <3>1. got \o DecodeUtf8(NextBytes(c, n)) = DecodeUtf8(SubSeq(whole, 1, place + n))
      <4>1. NextBytes(c, n) = SubSeq(SubSeq(whole, place + 1, Len(whole)), 1, n)
        BY <1>7 DEF NextBytes
      <4>2. /\ got = DecodeUtf8(SubSeq(whole, 1, place))
            /\ place \in 1 .. Len(whole) - 1 => whole[place + 1] # "second"
        BY <1>5, <2>2 DEF Follows
      <4> HIDE DEF got, whole, place
      <4>3. DecodeUtf8(SubSeq(whole, 1, place))
              \o DecodeUtf8(SubSeq(SubSeq(whole, place + 1, Len(whole)), 1, n))
              = DecodeUtf8(SubSeq(whole, 1, place + n))
        BY <1>4, <1>6, <1>8, <4>2, TextGrows
      <4> QED
        BY <4>1, <4>2, <4>3
    <3>2. ASSUME place + n \in 1 .. Len(whole) - 1, whole[(place + n) + 1] = "second"
          PROVE  post \in split'
      <4>1. n < Len(Rest(c)) /\ n + 1 \in 1 .. Len(Rest(c))
            /\ place + (n + 1) = (place + n) + 1
        <5> HIDE DEF whole, place
        <5> QED
          BY <1>6, <1>7, <1>8, <3>2
      <4>2. Rest(c)[n + 1] = "second"
        BY <1>7, <3>2, <4>1
      <4> QED
        BY <1>1, <4>1, <4>2
    <3> QED
      BY <3>1, <3>2 DEF FollowsThen
  <2> QED
    BY <2>1, <2>2
<1>12. TextAgrees(c)'
  <2>1. /\ channel'[c].requestBuffer = got \o DecodeUtf8(NextBytes(c, n))
        /\ channel'[c].offset = place + n /\ channel'[c].at = "read"
    BY <1>1, <1>2, <1>3 DEF NewText
  <2> HIDE DEF got, place
  <2>2. /\ Body[Request(c)'] = whole
        /\ Follows(Request(c), channel[c].requestBuffer, channel[c].offset)'
    BY <1>9, <1>11, <2>1 DEF Follows, FollowsThen
  <2> HIDE DEF whole, post
  <2> QED
    BY <1>8, <2>1, <2>2 DEF TextAgrees
<1>13. TextsAgree' /\ TextIsOwn'
  BY <1>2, <1>3, <1>10, <1>12, TextsStep DEF TextsTrue, TextIsOwn
<1>14. Typed'
  BY <1>1, <1>2, <1>10 DEF TextsTrue, Typed, NewText
<1> QED
  BY <1>13, <1>14 DEF TextsTrue

\* The last content completes it.
LEMMA ReadLastTrue ==
  ASSUME ReceiverAssumption, HasFields, PostsAgree, TextsTrue, NEW c \in Channels,
         ReadLast(c)
  PROVE  TextsTrue'
<1> DEFINE post == Request(c)
           whole == Body[post]
           place == channel[c].offset
           got == channel[c].requestBuffer
<1>1. NewText(c, got \o DecodeUtf8(Rest(c)), Len(whole))
  BY ReadLastText DEF PostsAgree, TextsTrue
<1>2. /\ UNCHANGED <<stored, published, split, failures, losses, crashes>>
      /\ channel[c].link # "closed" /\ channel[c].inBody
  BY DEF ReadLast, Reading
<1>3. /\ channel'[c].heads = channel[c].heads /\ channel'[c].inBody = FALSE
      /\ \A d \in Channels \ {c} : channel'[d] = channel[d]
  BY ReadLastEffect DEF Becomes
<1>4. post \in Posts /\ whole \in Seq(Bytes)
  BY <1>2, LatestPost DEF PostsAgree, TextsTrue
<1>5. place \in Nat /\ place <= Len(whole) /\ Follows(post, got, place)
  BY <1>2, ChannelFields DEF TextsTrue, Typed, TextsAgree, TextAgrees
<1>6. place \in 0 .. Len(whole) /\ Len(whole) \in Nat
  BY <1>4, <1>5
<1>7. post \in split \/ got \o DecodeUtf8(Rest(c)) = DecodeUtf8(whole)
  <2> SUFFICES ASSUME post \notin split
               PROVE  got \o DecodeUtf8(Rest(c)) = DecodeUtf8(whole)
    OBVIOUS
  <2>1. Rest(c) = SubSeq(whole, place + 1, Len(whole))
    BY DEF Rest
  <2>2. Rest(c) \in Seq(Bytes) /\ Len(Rest(c)) = Len(whole) - place
    <3> HIDE DEF whole, place
    <3>1. 0 \in 0 .. Len(whole) - place
      BY <1>6
    <3> QED
      BY <1>4, <1>6, <2>1, <3>1, BodyTogether
  <2>3. Len(whole) - place \in 0 .. Len(whole) - place /\ place + (Len(whole) - place) = Len(whole)
    BY <1>6
  <2>4. /\ got = DecodeUtf8(SubSeq(whole, 1, place))
        /\ place \in 1 .. Len(whole) - 1 => whole[place + 1] # "second"
    BY <1>5 DEF Follows
  <2>5. SubSeq(Rest(c), 1, Len(whole) - place) = Rest(c) /\ SubSeq(whole, 1, Len(whole)) = whole
    BY <1>4, <2>2, SubSeqFull
  <2> HIDE DEF got, whole, place
  <2>6. DecodeUtf8(SubSeq(whole, 1, place))
          \o DecodeUtf8(SubSeq(SubSeq(whole, place + 1, Len(whole)), 1, Len(whole) - place))
          = DecodeUtf8(SubSeq(whole, 1, place + (Len(whole) - place)))
    BY <1>4, <1>6, <2>3, <2>4, TextGrows
  <2> QED
    BY <2>1, <2>3, <2>4, <2>5, <2>6
<1>8. TextAgrees(c)'
  <2>1. Request(c)' = post /\ split' = split
    BY <1>2, <1>3 DEF Request
  <2> HIDE DEF post
  <2> QED
    BY <1>1, <1>3, <1>7, <2>1 DEF TextAgrees, NewText
<1>9. TextsAgree' /\ TextIsOwn'
  BY <1>2, <1>3, <1>8, TextsStep DEF TextsTrue, TextIsOwn
<1>10. Typed'
  BY <1>1, <1>2 DEF TextsTrue, Typed, NewText
<1> QED
  BY <1>9, <1>10 DEF TextsTrue

\* A crash ends the connections, and what their handlers were at.
LEMMA CrashText ==
  ASSUME Typed, Crash
  PROVE  /\ channel' \in [Channels -> Channel]
         /\ \A c \in Channels :
              \/ channel'[c] = channel[c]
              \/ /\ channel'[c].link = "closed" /\ channel'[c].at = "read"
                 /\ channel'[c].offset = channel[c].offset
                 /\ channel'[c].heads = channel[c].heads
                 /\ channel'[c].inBody = channel[c].inBody
<1> DEFINE Broken(ch) == [ch EXCEPT !.link = "closed", !.at = "read", !.written = <<>>,
                                 !.requestBuffer = <<>>]
<1>1. channel' = [c \in Channels |-> IF channel[c].link = "new" THEN channel[c]
                                     ELSE Broken(channel[c])]
  BY DEF Crash
<1>2. ASSUME NEW ch \in Channel
      PROVE  /\ Broken(ch) \in Channel
             /\ Broken(ch).link = "closed" /\ Broken(ch).at = "read" /\ Broken(ch).offset = ch.offset
             /\ Broken(ch).heads = ch.heads /\ Broken(ch).inBody = ch.inBody
  <2>1. [ch EXCEPT !.link = "closed"] \in Channel
    BY FieldsChange DEF Links
  <2>2. [ch EXCEPT !.link = "closed", !.at = "read"] \in Channel
    BY <2>1, FieldsChange DEF Statements
  <2>3. <<>> \in Seq(Statuses)
    OBVIOUS
  <2>4. <<>> \in Texts
    BY DEF Texts
  <2>5. [ch EXCEPT !.link = "closed", !.at = "read", !.written = <<>>] \in Channel
    BY <2>2, <2>3, FieldsChange
  <2>6. Broken(ch) \in Channel
    BY <2>4, <2>5, FieldsChange
  <2> QED
    BY <2>6 DEF Channel
<1> HIDE DEF Broken
<1>3. ASSUME NEW c \in Channels
      PROVE  /\ channel'[c] \in Channel
             /\ \/ channel'[c] = channel[c]
                \/ /\ channel'[c].link = "closed" /\ channel'[c].at = "read"
                   /\ channel'[c].offset = channel[c].offset
                   /\ channel'[c].heads = channel[c].heads
                   /\ channel'[c].inBody = channel[c].inBody
  <2>1. channel[c] \in Channel
    BY DEF Typed
  <2>2. channel'[c] = IF channel[c].link = "new" THEN channel[c] ELSE Broken(channel[c])
    BY <1>1
  <2>3. CASE channel[c].link = "new"
    BY <2>1, <2>2, <2>3
  <2>4. CASE channel[c].link # "new"
    BY <1>2, <2>1, <2>2, <2>4
  <2> QED
    BY <2>3, <2>4
<1>4. channel' \in [Channels -> Channel]
  BY <1>1, <1>3
<1> QED
  BY <1>3, <1>4

\* What they had read is not stored.
LEMMA CrashTrue ==
  ASSUME TextsTrue, Crash
  PROVE  TextsTrue'
<1>1. /\ UNCHANGED <<stored, published, split, failures, losses>>
      /\ crashes' = crashes + 1
  BY DEF Crash
<1>2. Typed'
  BY <1>1, CrashText DEF TextsTrue, Typed
<1>3. TextIsOwn'
  <2>1. 0..crashes \subseteq 0..crashes'
    BY <1>1 DEF TextsTrue, Typed
  <2> QED
    BY <1>1, <2>1 DEF TextsTrue, TextIsOwn
<1>4. ASSUME NEW c \in Channels PROVE TextAgrees(c)'
  <2>1. TextAgrees(c)
    BY DEF TextsTrue, TextsAgree
  <2>2. CASE channel'[c] = channel[c]
    <3>1. Request(c)' = Request(c)
      BY <2>2 DEF Request
    <3> QED
      BY <1>1, <2>1, <2>2, <3>1 DEF TextAgrees, Follows
  <2>3. CASE /\ channel'[c].link = "closed" /\ channel'[c].at = "read"
             /\ channel'[c].offset = channel[c].offset
             /\ channel'[c].heads = channel[c].heads
             /\ channel'[c].inBody = channel[c].inBody
    <3>1. Request(c)' = Request(c)
      BY <2>3 DEF Request
    <3> QED
      BY <2>1, <2>3, <3>1 DEF TextAgrees
  <2> QED
    BY <2>2, <2>3, CrashText DEF TextsTrue
<1> QED
  BY <1>2, <1>3, <1>4 DEF TextsTrue, TextsAgree

\* At first there is no text.
LEMMA InitTexts ==
  ASSUME Init
  PROVE  TextsTrue
<1>1. NewChannel \in Channel
  <2>1. <<>> \in Texts
    BY DEF Texts
  <2>2. <<>> \in Seq(Statuses)
    OBVIOUS
  <2>3. /\ "new" \in Links /\ "read" \in Statements /\ 200 \in Statuses
        /\ 0 \in Nat /\ FALSE \in BOOLEAN
    BY DEF Links, Statements, Statuses
  <2>4. Made("new", 0, FALSE, 0, <<>>, "read", 200, <<>>, <<>>) \in Channel
    BY <2>1, <2>2, <2>3, MadeTyped
  <2> QED
    BY <2>4 DEF Made, NewChannel
<1>2. channel = [c \in Channels |-> NewChannel]
  BY DEF Init
<1>3. Typed
  BY <1>1, <1>2 DEF Init, Typed
<1>4. ASSUME NEW c \in Channels PROVE TextAgrees(c)
  <2>1. ~ channel[c].inBody /\ channel[c].at = "read"
    BY <1>2 DEF NewChannel
  <2> QED
    BY <2>1 DEF TextAgrees
<1>5. TextIsOwn
  BY DEF Init, TextIsOwn
<1> QED
  BY <1>3, <1>4, <1>5 DEF TextsTrue, TextsAgree

\* Every step keeps types and texts.
LEMMA NextTexts ==
  ASSUME ReceiverAssumption, HasFields, PostsAgree, TextsTrue, [Next]_vars
  PROVE  TextsTrue'
<1>1. CASE UNCHANGED vars
  <2>1. ASSUME NEW c \in Channels PROVE TextAgrees(c)'
    <3>1. TextAgrees(c) /\ Request(c)' = Request(c)
      BY <1>1 DEF TextsTrue, TextsAgree, Request, vars
    <3> QED
      BY <1>1, <3>1 DEF TextAgrees, Follows, vars
  <2> QED
    BY <1>1, <2>1 DEF TextsTrue, TextsAgree, Typed, TextIsOwn, vars
<1>2. CASE Crash
  BY <1>2, CrashTrue
<1>3. ASSUME NEW c \in Channels,
             Connect(c) \/ Read(c) \/ Handle(c) \/ ReadComplete(c) \/ Lose(c)
      PROVE  TextsTrue'
  <2>1. CASE ReadHead(c)
    BY <2>1, ReadHeadTrue
  <2>2. CASE ReadContent(c)
    BY <2>2, ReadContentTrue
  <2>3. CASE ReadLast(c)
    BY <2>3, ReadLastTrue
  <2>4. CASE Connect(c) \/ Handle(c) \/ ReadComplete(c) \/ Lose(c)
    <3>1. Leaves(c)
      BY <2>4, LeavingSteps DEF TextsTrue
    <3> QED
      BY <3>1, LeavesTrue
  <2> QED
    BY <1>3, <2>1, <2>2, <2>3, <2>4 DEF Read
<1> QED
  BY <1>1, <1>2, <1>3 DEF Next

\* In every reachable state posts, answers, types and texts agree.
LEMMA TextsAlwaysTrue == Spec => [](PostsAgree /\ TextsTrue)
<1>1. Init => TextsTrue
  BY InitTexts
<1>2. HasFields /\ PostsAgree /\ TextsTrue /\ [Next]_vars => TextsTrue'
  BY NextTexts, ReceiverAssumption
<1> QED
  BY <1>1, <1>2, PostsAlwaysAgree, PTL DEF Spec

\* Every variable of the receiver has its type in every reachable state, and a
\* handler that is within a post, or handles one, has read the head of one: its
\* field request is not null where channelRead0 and writeResponse use it.
THEOREM TypeCorrect == Spec => []TypeOK
<1>1. PostsAgree /\ TextsTrue => TypeOK
  <2> SUFFICES ASSUME PostsAgree, Typed PROVE TypeOK
    BY DEF TextsTrue
  <2>1. ASSUME NEW c \in Channels
        PROVE  /\ channel[c].heads <= Len(Plan[c])
               /\ channel[c].inBody \/ channel[c].at # "read" => channel[c].heads > 0
    BY DEF PostsAgree, ChannelAgrees, Busy
  <2> QED
    BY <2>1 DEF TypeOK, Typed, RowTexts, Chars
<1> QED
  BY <1>1, TextsAlwaysTrue, PTL

\* Whatever is cut, fails or is lost, what is stored, published and answered agree
\* with each other, and each row holds the text of its own post's body: the buffer
\* a handler uses for one post after the other and fills piecemeal never carries a
\* character from one to the next, nor loses one, unless the network cut it in two
\* (JsonRequestHttpHandler.channelRead0).  Of that text a process whose platform's
\* charset is not UTF-8 may garble the characters that are not ASCII
\* (CFHttpHandler.handleRequestInput encodes it with content.getBytes()).
THEOREM PostsAlwaysTrue == Spec => []PostsTrue
<1>1. PostsAgree /\ TextsTrue => PostsTrue
  BY DEF PostsTrue, TextsTrue
<1> QED
  BY <1>1, TextsAlwaysTrue, PTL
=============================================================================
