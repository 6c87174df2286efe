------------------------------ MODULE Receiver ------------------------------
(***************************************************************************)
(* The receiver: an HTTP server that stores each posted transfer request   *)
(* and forwards it to the request exchange.  Every channel (connection)    *)
(* has a CFHttpHandler of its own, which the channel's event loop calls    *)
(* with the objects the HTTP decoder makes of what the client sends: an    *)
(* HttpRequest, any number of HttpContents, a LastHttpContent.  Channels   *)
(* are served concurrently; the handler of one channel is sequential, but  *)
(* blocks in the middle: it saves, then publishes, then responds.          *)
(*                                                                         *)
(* Cassandra, the broker, the HTTP decoder and the clients are external:   *)
(* how a client's bytes are cut into objects is up to the network.         *)
(***************************************************************************)
EXTENDS Naturals, Sequences, Sorting

CONSTANTS
  Channels,
  Posts,        \* HTTP requests
  Plan,         \* the posts the client of each channel sends, in order
  Kind,         \* what is wrong with a post, or "valid"
  Body,         \* the bytes of its body
  KeepAlive,    \* HttpHeaders.isKeepAlive(request)
  MaxFailures,  \* bound: calls of Cassandra or the broker that throw
  MaxLosses,    \* bound: connections lost or closed by the peer
  MaxCrashes,   \* bound: crashes and restarts of the receiver
  Charset       \* the platform's charset that each start of the receiver finds

\* The decoder fails on it; it is no JSON or validate() refuses it; it passes
\* validate() but has a null timeReceived.
Flaws == {"undecodable", "refused", "untimed"}

\* The charset content.getBytes() encodes with is the platform's; every "other"
\* one is taken to have the ASCII characters as bytes of their own.
Charsets == {"UTF-8", "other"}

\* One-byte characters, and the two bytes of a two-byte character.
Bytes == {"one", "first", "second"}

ASSUME ReceiverAssumption ==
  /\ Plan \in [Channels -> Seq(Posts)]
  /\ \A c, d \in Channels : \A i \in DOMAIN Plan[c], j \in DOMAIN Plan[d] :
       Plan[c][i] = Plan[d][j] => c = d /\ i = j
  /\ Kind \in [Posts -> Flaws \cup {"valid"}]
  /\ Body \in [Posts -> Seq(Bytes)]
  /\ KeepAlive \in [Posts -> BOOLEAN]
  /\ {MaxFailures, MaxLosses, MaxCrashes} \subseteq Nat
  /\ Charset \in [0..MaxCrashes -> Charsets]

VARIABLES
  channel,    \* per channel: the connection, the handler, the responses
  stored,     \* rows of transfer_requests: a post and its text as re-read
  published,  \* posts handed to the request exchange
  split,      \* history variable: posts with a character cut in two
  failures, losses, crashes

vars == <<channel, stored, published, split, failures, losses, crashes>>
-----------------------------------------------------------------------------
(***************************************************************************)
(* A channel.  Its link is "closing" once the connection is closed, until  *)
(* the objects of the present read are worked off.  heads counts the       *)
(* HttpRequests read, offset the bytes of the body of the latest.  The     *)
(* handler's request is the latest post; at is the statement it is at.     *)
(***************************************************************************)
NewChannel ==
  [link |-> "new", heads |-> 0, inBody |-> FALSE, offset |-> 0,
   requestBuffer |-> <<>>, at |-> "read", responseStatus |-> 200,
   written |-> <<>>, responses |-> <<>>]

Request(c) == Plan[c][channel[c].heads]

Reading(c) == channel[c].link \in {"open", "closing"} /\ channel[c].at = "read"

\* Mutant: every byte is taken for a character.
DecodeBytewise(bytes) == bytes

\* The second byte of a character whose first one is there as well.
Paired(bytes, i) == bytes[i] = "second" /\ i > 1 /\ bytes[i - 1] = "first"

\* The bytes at which a character starts, and the character.
Starts(bytes) == {i \in DOMAIN bytes : ~Paired(bytes, i)}

Char(bytes, i) == CASE bytes[i] = "one" -> "ascii"
                    [] i < Len(bytes) /\ Paired(bytes, i + 1) -> "accented"
                    [] OTHER -> "replacement"

\* content.toString(UTF_8): half a character becomes a replacement character.
DecodeUtf8(bytes) ==
  LET starts == Sorted(Starts(bytes), [i \in DOMAIN bytes |-> i])
  IN  [k \in DOMAIN starts |-> Char(bytes, starts[k])]

\* What a charset other than UTF-8 leaves of a text for readValue, which reads
\* UTF-8: of any other character than an ASCII one a question mark, or a piece
\* of some other character.
Garbled(text) ==
  [i \in DOMAIN text |-> IF text[i] = "ascii" THEN "ascii" ELSE "garbled"]

\* Mutant: the text is encoded in ASCII whatever the platform's charset.
ReadAsAscii(text) == Garbled(text)

\* What readValue makes of content.getBytes().
Reread(text) == IF Charset[crashes] = "UTF-8" THEN text ELSE Garbled(text)

\* Those pieces may also be no UTF-8: then readValue throws an IOException.
Readable(text) == IF Reread(text) = text THEN {TRUE} ELSE BOOLEAN

\* The bytes of the latest post that are yet to come, or the next n of them.
Rest(c) == SubSeq(Body[Request(c)], channel[c].offset + 1,
                  Len(Body[Request(c)]))

NextBytes(c, n) == SubSeq(Rest(c), 1, n)

\* Mutant: the buffer is left as the request before has filled it.
LeftAsIs(buffer) == buffer

\* requestBuffer.setLength(0)
Emptied(buffer) == <<>>
-----------------------------------------------------------------------------
Connect(c) ==
  /\ channel[c].link = "new"
  /\ channel' = [channel EXCEPT ![c].link = "open"]
  /\ UNCHANGED <<stored, published, split, failures, losses, crashes>>

\* channelRead0 of an HttpRequest.  After a decoding failure the decoder
\* skips whatever follows.
ReadHead(c) ==
  /\ Reading(c)
  /\ ~channel[c].inBody
  /\ channel[c].heads < Len(Plan[c])
  /\ channel[c].heads > 0 => Kind[Request(c)] # "undecodable"
  /\ channel' = [channel EXCEPT ![c].heads = @ + 1, ![c].inBody = TRUE,
                                ![c].offset = 0,
                                ![c].requestBuffer = Emptied(@)]
  /\ UNCHANGED <<stored, published, split, failures, losses, crashes>>

\* channelRead0 of an HttpContent with the next n bytes.
ReadContent(c) ==
  /\ Reading(c)
  /\ channel[c].inBody
  /\ \E n \in 1..Len(Rest(c)) :
       /\ channel' = [channel EXCEPT
                        ![c].offset = @ + n,
                        ![c].requestBuffer = @ \o DecodeUtf8(NextBytes(c, n))]
       /\ split' = IF n < Len(Rest(c)) /\ Rest(c)[n + 1] = "second"
                     THEN split \cup {Request(c)} ELSE split
  /\ UNCHANGED <<stored, published, failures, losses, crashes>>

\* The response status when it is settled before anything is saved: decoder
\* failure, IOException of readValue, PropertyValueRequired of validate, and
\* the NullPointerException of a request without timeReceived, if it was read.
Refusal(p, readable) == IF Kind[p] = "untimed" /\ readable THEN 500 ELSE 400

\* The text of the body when its last bytes are decoded.
WholeText(c) == channel[c].requestBuffer \o DecodeUtf8(Rest(c))

\* channelRead0 of the LastHttpContent, up to the call of saveTransferRequest
\* or to the response.
ReadLast(c) ==
  /\ Reading(c)
  /\ channel[c].inBody
  /\ \E readable \in Readable(WholeText(c)) :
       LET good == Kind[Request(c)] = "valid" /\ readable
       IN  channel' = [channel EXCEPT
             ![c].inBody = FALSE,
             ![c].offset = Len(Body[Request(c)]),
             ![c].requestBuffer = WholeText(c),
             ![c].responseStatus = IF good THEN 200
                                   ELSE Refusal(Request(c), readable),
             ![c].at = IF good THEN "save" ELSE "respond"]
  /\ UNCHANGED <<stored, published, split, failures, losses, crashes>>

\* One row per call: its key has a random part.
Row(c) == [post |-> Request(c), text |-> Reread(channel[c].requestBuffer)]

\* Mutant: the row is saved in the background, and that may fail.
SaveInBackground(c) ==
  /\ channel[c].at = "save"
  /\ stored' \in {stored, stored \cup {Row(c)}}
  /\ channel' = [channel EXCEPT ![c].at = "publish"]
  /\ UNCHANGED <<published, split, failures, losses, crashes>>

\* saveTransferRequest returns when the row is inserted.
Save(c) ==
  /\ channel[c].at = "save"
  /\ stored' = stored \cup {Row(c)}
  /\ channel' = [channel EXCEPT ![c].at = "publish"]
  /\ UNCHANGED <<published, split, failures, losses, crashes>>

\* convertAndSend
Publish(c) ==
  /\ channel[c].at = "publish"
  /\ published' = published \cup {Request(c)}
  /\ channel' = [channel EXCEPT ![c].at = "respond"]
  /\ UNCHANGED <<stored, split, failures, losses, crashes>>

\* Mutant: exceptions of the two calls are taken for refusals of the request.
FailureTakenForRefusal(c) == 400

\* Mutant: the catch clause leaves the status alone.
FailureIgnored(c) == channel[c].responseStatus

\* The catch clause of writeResponse.
FailureStatus(c) == 500

\* The call throws, before or after it took effect on the other side.
Fail(c) ==
  /\ failures < MaxFailures
  /\ failures' = failures + 1
  /\ \/ /\ channel[c].at = "save"
        /\ stored' \in {stored, stored \cup {Row(c)}}
        /\ UNCHANGED published
     \/ /\ channel[c].at = "publish"
        /\ published' \in {published, published \cup {Request(c)}}
        /\ UNCHANGED stored
  /\ channel' = [channel EXCEPT ![c].at = "respond",
                                ![c].responseStatus = FailureStatus(c)]
  /\ UNCHANGED <<split, losses, crashes>>

\* The rest of writeResponse, and of channelRead0: without keep-alive the
\* response is flushed at once and the connection closed.  Nothing written to
\* a closed connection arrives.
Respond(c) ==
  /\ channel[c].at = "respond"
  /\ LET written == channel[c].written \o <<channel[c].responseStatus>>
         open    == channel[c].link = "open"
         stays   == open /\ KeepAlive[Request(c)]
     IN  channel' = [channel EXCEPT
           ![c].at = "read",
           ![c].link = IF stays THEN @ ELSE "closing",
           ![c].written = IF stays THEN written ELSE <<>>,
           ![c].responses = IF open /\ ~stays THEN @ \o written ELSE @]
  /\ UNCHANGED <<stored, published, split, failures, losses, crashes>>

\* Mutant: channelReadComplete does not flush.
NotFlushed(ch) == [ch EXCEPT !.written = <<>>]

\* ctx.flush()
Flushed(ch) == [ch EXCEPT !.responses = @ \o ch.written, !.written = <<>>]

ReadComplete(c) ==
  /\ Reading(c)
  /\ IF channel[c].link = "open"
       THEN channel' = [channel EXCEPT ![c] = Flushed(@)]
       ELSE channel' = [channel EXCEPT ![c].link = "closed"]
  /\ UNCHANGED <<stored, published, split, failures, losses, crashes>>
-----------------------------------------------------------------------------
\* The connection fails or the peer closes it (also exceptionCaught); what is
\* not flushed is lost, and the handler goes on.
Lose(c) ==
  /\ channel[c].link = "open"
  /\ losses < MaxLosses
  /\ losses' = losses + 1
  /\ channel' = [channel EXCEPT ![c].link = "closing", ![c].written = <<>>]
  /\ UNCHANGED <<stored, published, split, failures, crashes>>

\* The process dies; connections made later find a new one.
Crash ==
  /\ crashes < MaxCrashes
  /\ crashes' = crashes + 1
  /\ channel' = [c \in Channels |->
       IF channel[c].link = "new" THEN channel[c]
       ELSE [channel[c] EXCEPT !.link = "closed", !.at = "read",
                               !.written = <<>>, !.requestBuffer = <<>>]]
  /\ UNCHANGED <<stored, published, split, failures, losses>>
-----------------------------------------------------------------------------
Init ==
  /\ channel = [c \in Channels |-> NewChannel]
  /\ stored = {} /\ published = {} /\ split = {}
  /\ failures = 0 /\ losses = 0 /\ crashes = 0

Handle(c) == Save(c) \/ Publish(c) \/ Fail(c) \/ Respond(c)

Read(c) == ReadHead(c) \/ ReadContent(c) \/ ReadLast(c)

Next ==
  \/ \E c \in Channels :
       Connect(c) \/ Read(c) \/ Handle(c) \/ ReadComplete(c) \/ Lose(c)
  \/ Crash

Spec == Init /\ [][Next]_vars

\* The event loops keep running and their calls return; clients may stop
\* sending at any point.
Fairness == \A c \in Channels : WF_vars(Handle(c)) /\ WF_vars(ReadComplete(c))

FairSpec == Spec /\ Fairness
-----------------------------------------------------------------------------
StoredPosts == {row.post : row \in stored}

Channel ==
  [link : {"new", "open", "closing", "closed"}, heads : Nat,
   inBody : BOOLEAN, offset : Nat,
   requestBuffer : Seq({"ascii", "accented", "replacement"}),
   at : {"read", "save", "publish", "respond"},
   responseStatus : {200, 400, 500},
   written : Seq({200, 400, 500}), responses : Seq({200, 400, 500})]

\* Every variable has its type; a channel that is within a post, or handles
\* one, has read the head of one (the field request is not null then).
TypeOK ==
  /\ channel \in [Channels -> Channel]
  /\ \A c \in Channels :
       /\ channel[c].heads <= Len(Plan[c])
       /\ channel[c].inBody \/ channel[c].at # "read" => channel[c].heads > 0
  /\ stored \subseteq [post : Posts, text : Seq({"ascii", "accented",
                                                 "replacement", "garbled"})]
  /\ published \subseteq Posts /\ split \subseteq Posts
  /\ failures \in Nat /\ losses \in Nat /\ crashes \in Nat

\* The answer a client has to a post: the i-th response of a channel answers
\* its i-th post, which is how HTTP pairs them.
AnswerTo(p) ==
  LET statuses == UNION {{channel[c].responses[i] :
                            i \in {j \in DOMAIN channel[c].responses :
                                    Plan[c][j] = p}} : c \in Channels}
  IN  IF statuses = {} THEN 0 ELSE CHOOSE s \in statuses : TRUE

\* The receiver implements the service its clients rely on: whatever is cut,
\* fails or is lost, an answer is true of store and exchange, and nothing more
\* is done for a post once its client has the answer.
Service == INSTANCE PostService WITH
  stored    <- StoredPosts,
  forwarded <- published,
  answer    <- [p \in Posts |-> AnswerTo(p)]

ImplementsService == Service!Spec

\* The i-th response a client receives is the answer to its i-th post
\* (that is how HTTP pairs them): if it is 200, the post was stored and
\* handed to the exchange, whatever failed on this or another channel.
AcceptedIsForwarded ==
  \A c \in Channels : \A i \in DOMAIN channel[c].responses :
    channel[c].responses[i] = 200 => Plan[c][i] \in StoredPosts \cap published

\* A client told that its request was bad (400) can correct and send it again:
\* nothing of it was stored or forwarded.
RefusedLeavesNoTrace ==
  \A c \in Channels : \A i \in DOMAIN channel[c].responses :
    channel[c].responses[i] = 400 =>
      Plan[c][i] \notin StoredPosts \cup published

\* What is forwarded can be read back from the store at any later time.
PublishedWasStored == published \subseteq StoredPosts

\* What is stored is the text of the post's own body, though the handler's
\* buffer is used for one post after the other and filled piecemeal, unless
\* the network cut a character in two.  Only where a start of the receiver found
\* another charset than UTF-8 may it be garbled, and its ASCII characters are
\* not.
TextIsOwn ==
  \A row \in stored :
    LET own == DecodeUtf8(Body[row.post])
    IN  \/ row.post \in split
        \/ row.text = own
        \/ /\ row.text = Garbled(own)
           /\ \E n \in 0..crashes : Charset[n] # "UTF-8"

\* Posts of a channel that were read to the end.
Finished(c) == IF channel[c].inBody THEN channel[c].heads - 1
                                    ELSE channel[c].heads

\* Each post that was read to the end is answered, or its connection closed.
EveryPostAnswered ==
  \A c \in Channels : \A i \in DOMAIN Plan[c] :
    Finished(c) >= i ~> \/ Len(channel[c].responses) >= i
                        \/ channel[c].link \in {"closing", "closed"}

(***************************************************************************)
(* The inductive invariant behind the theorems of ReceiverProofs.          *)
(***************************************************************************)
\* A channel is within a post, or handles one.
Busy(c) == channel[c].inBody \/ channel[c].at # "read"

\* The answers a channel has given, and those it has yet to flush.
Answers(c) == channel[c].responses \o channel[c].written

Pending(c) == IF Busy(c) THEN 1 ELSE 0

\* Posts are answered one after the other, and truthfully: the latest one is not
\* answered while it is in hand, an open channel has answered all before it, and
\* of what was not read to the end nothing is stored or published.
ChannelAgrees(c) ==
  LET ch == channel[c]
  IN  /\ ch.heads <= Len(Plan[c])
      /\ Busy(c) => ch.heads > 0
      /\ ch.inBody => ch.at = "read"
      /\ Len(Answers(c)) + Pending(c) <= ch.heads
      /\ ch.link \in {"new", "open"} => Len(Answers(c)) + Pending(c) = ch.heads
      /\ \A i \in DOMAIN Answers(c) :
           Service!Truthful(Plan[c][i], Answers(c)[i])
      /\ ch.at \in {"save", "publish"} => ch.responseStatus = 200
      /\ ch.at = "publish" => Request(c) \in StoredPosts
      /\ ch.at = "respond" => Service!Truthful(Request(c), ch.responseStatus)
      /\ \A i \in DOMAIN Plan[c] :
           i > ch.heads \/ (ch.inBody /\ i = ch.heads) =>
             Plan[c][i] \notin StoredPosts \cup published

PostsAgree ==
  /\ \A c \in Channels : ChannelAgrees(c)
  /\ published \subseteq StoredPosts

\* Whatever is cut, fails or is lost: what is stored, published and answered
\* agree with each other and with what every channel has yet to do, and what is
\* stored of a post is the text of its own body.
PostsTrue == PostsAgree /\ TextIsOwn
=============================================================================
