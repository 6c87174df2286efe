----------------------------- MODULE SockUtils ------------------------------
(***************************************************************************)
(* The pure parts of sock.js: the lists of listeners (REventTarget and     *)
(* EventEmitter), URLs, the choice of transports and the quoting of texts. *)
(* A URL is a sequence of tokens, "/" or a word without one; a text is a   *)
(* sequence of characters, of which Extra names those that browsers break. *)
(***************************************************************************)
EXTENDS Integers, Sequences, SequencesExt, FiniteSetsExt

CONSTANTS Protocol, Host,  \* of the page's location: "http:" and a host
          Extra,           \* the characters of extra_escapable
          Special          \* characters that only json_escapable names

-----------------------------------------------------------------------------
(* Listeners.  What a listener does when it is called, to the very list    *)
(* that is being gone through, is a record [op, listener].                 *)

ArrIndexOf(arr, obj) == IF Contains(arr, obj) THEN SelectInSeq(arr, LAMBDA x : x = obj) - 1
                        ELSE -1

ArrSkip(arr, obj) ==
    LET idx == ArrIndexOf(arr, obj)
    IN  IF idx = -1 THEN arr ELSE SubSeq(arr, 1, idx) \o SubSeq(arr, idx + 2, Len(arr))

\* Mutant: a listener is added again when it is there already.
AddEventListenerAgain(arr, listener) == Append(arr, listener)

AddEventListener(arr, listener) ==
    IF ArrIndexOf(arr, listener) = -1 THEN Append(arr, listener) ELSE arr

\* A list that would be empty is deleted: no list, <<>> here.
RemoveEventListener(arr, listener) == ArrSkip(arr, listener)

Changed(arr, change) ==
    CASE change.op = "add"    -> AddEventListener(arr, change.listener)
      [] change.op = "remove" -> RemoveEventListener(arr, change.listener)
      [] change.op = "on"     -> Append(arr, change.listener)
      [] change.op = "nuke"   -> <<>>
      [] change.op = "none"   -> arr

\* The loop of dispatchEvent and of emit, from index i on.  It looks at the
\* list anew each time; a list deleted meanwhile has no length, and the loop
\* throws.
RECURSIVE Called(_, _, _, _, _)
Called(arr, does, i, calls, fuel) ==
    IF fuel = 0 \/ i >= Len(arr) THEN [calls |-> calls, left |-> arr, threw |-> FALSE]
    ELSE LET listener == arr[i + 1]
             after == Changed(arr, does[listener])
         IN  IF after = <<>> THEN [calls |-> Append(calls, listener), left |-> <<>>, threw |-> TRUE]
             ELSE Called(after, does, i + 1, Append(calls, listener), fuel - 1)

\* `fuel` bounds the listeners that add listeners without end.
DispatchEvent(arr, does, fuel) == Called(arr, does, 0, <<>>, fuel)

\* Mutant: only those listeners are called that were there at the start.
EmitCopy(listeners, does, fuel) ==
    [calls |-> listeners, threw |-> FALSE,
     left |-> FoldLeft(LAMBDA arr, l : Changed(arr, does[l]), listeners, listeners)]

Emit(listeners, does, fuel) == Called(listeners, does, 0, <<>>, fuel)

-----------------------------------------------------------------------------
(* URLs.                                                                   *)

\* url.split('/')
Split(url) ==
    LET cuts == {0} \cup {i \in DOMAIN url : url[i] = "/"}
        next(i) == CHOOSE j \in i + 1 .. Len(url) + 1 :
                       /\ j = Len(url) + 1 \/ url[j] = "/"
                       /\ \A k \in i + 1 .. j - 1 : url[k] # "/"
        order == SetToSortSeq(cuts, <)
    IN  [k \in DOMAIN order |-> SubSeq(url, order[k] + 1, next(order[k]) - 1)]

Front3(parts) == SubSeq(parts, 1, IF Len(parts) < 3 THEN Len(parts) ELSE 3)

GetOrigin(url) == Front3(Split(Append(url, "/")))
IsSameOriginUrl(a, b) == Front3(Split(a)) = Front3(Split(b))

FlatUrl(url) == ~ Contains(url, "?") /\ ~ Contains(url, "#")

\* Mutant: one of the slashes at the end is stripped.
StrippedOnce(url) ==
    IF url # <<>> /\ Last(url) = "/" THEN Front(url) ELSE url

\* url.replace(/[/]+$/, '')
Stripped(url) ==
    SubSeq(url, 1, Max({0} \cup {i \in DOMAIN url : url[i] # "/"}))

AmendUrl(url) ==
    LET absolute == IF IsPrefix(<<"/", "/">>, url) THEN <<Protocol>> \o url ELSE url
    IN  Stripped(IF IsPrefix(<<"/">>, absolute)
                 THEN <<Protocol, "/", "/", Host>> \o absolute ELSE absolute)

-----------------------------------------------------------------------------
(* Numbers.                                                                *)

CountRTO(rtt) == IF rtt > 100 THEN 3 * rtt ELSE rtt + 200

\* the digits of a number, the highest first
Digits(n) ==
    LET length == CHOOSE t \in 1 .. 10 : n < 10 ^ t /\ \A u \in 1 .. t - 1 : n >= 10 ^ u
    IN  [k \in 1 .. length |-> (n \div 10 ^ (length - k)) % 10]

\* Mutant: as many digits as max has.
RandomNumberStringLong(max, n) ==
    LET t == Len(Digits(max))
        padded == [k \in 1 .. t |-> 0] \o Digits(n)
    IN  SubSeq(padded, Len(padded) - t + 1, Len(padded))

\* random_number_string(max) when the number drawn is n: the digits of n
\* behind as many zeros as max - 1 has digits, cut to that many.
RandomNumberString(max, n) ==
    LET t == Len(Digits(max - 1))
        padded == [k \in 1 .. t |-> 0] \o Digits(n)
    IN  SubSeq(padded, Len(padded) - t + 1, Len(padded))

-----------------------------------------------------------------------------
(* Quoting.                                                                *)

\* A token of a quoted text: a character, or the four digits that stand for one
\* behind a backslash and a u.
Char(c) == [type |-> "char", char |-> c]
Code(c) == [type |-> "code", char |-> c]

\* JSON.stringify, and the code that stands in for it where there is none and
\* which escapes the characters of Special as well.
JSONQuote(string, native) ==
    LET escaped(c) ==
            IF c \in {"\"", "\\"} THEN <<Char("\\"), Char(c)>>
            ELSE IF c = "control" \/ (c \in Special /\ ~ native) THEN <<Char("\\"), Code(c)>>
            ELSE <<Char(c)>>
    IN  <<Char("\"")>> \o FlattenSeq([i \in DOMAIN string |-> escaped(string[i])])
            \o <<Char("\"")>>

\* Mutant: the characters of Extra are escaped before the text is quoted.
QuoteInside(string, native) ==
    LET early == FlattenSeq([i \in DOMAIN string |->
                                IF string[i] \in Extra THEN <<"\\", "u">> ELSE <<string[i]>>])
    IN  JSONQuote(early, native)

Quote(string, native) ==
    LET quoted == JSONQuote(string, native)
    IN  FlattenSeq([i \in DOMAIN quoted |->
                       IF quoted[i].type = "char" /\ quoted[i].char \in Extra
                       THEN <<Char("\\"), Code(quoted[i].char)>> ELSE <<quoted[i]>>])

\* What the server reads: JSON.parse of a quoted text without its quotes.
RECURSIVE Unescaped(_)
Unescaped(text) ==
    IF text = <<>> THEN <<>>
    ELSE IF Head(text) = Char("\\") /\ Len(text) > 1
    THEN <<text[2].char>> \o Unescaped(SubSeq(text, 3, Len(text)))
    ELSE <<Head(text).char>> \o Unescaped(Tail(text))

-----------------------------------------------------------------------------
(* The transports to try.                                                  *)

AllProtocols == <<"websocket", "xdr-streaming", "xhr-streaming", "iframe-eventsource",
                  "iframe-htmlfile", "xdr-polling", "xhr-polling", "iframe-xhr-polling",
                  "jsonp-polling">>

\* maybe_push: the first of `protos` that can be used, if any.
FirstOf(protos, pe) ==
    LET usable == SelectSeq(protos, LAMBDA p : p \in pe)
    IN  SubSeq(usable, 1, IF usable = <<>> THEN 0 ELSE 1)

\* One of the two classes that have a transport of the page's own, one across
\* domains, and two in a frame.
ClassOf(xhr, xdr, framed, pe, info) ==
    IF xhr \in pe /\ ~ info.null_origin THEN <<xhr>>
    ELSE IF xdr \in pe /\ ~ info.cookie_needed /\ ~ info.null_origin THEN <<xdr>>
    ELSE FirstOf(framed, pe)

\* Mutant: a transport across domains is chosen although cookies are needed.
DetectCookieless(probed, whitelist, info) ==
    LET pe == probed \cap whitelist
        careless == [info EXCEPT !.cookie_needed = FALSE]
    IN  (IF info.websocket THEN FirstOf(<<"websocket">>, pe) ELSE <<>>)
        \o ClassOf("xhr-streaming", "xdr-streaming",
                   <<"iframe-eventsource", "iframe-htmlfile">>, pe, careless)
        \o ClassOf("xhr-polling", "xdr-polling",
                   <<"iframe-xhr-polling", "jsonp-polling">>, pe, careless)

\* `probed`: those that probeProtocols found enabled; `whitelist`: those the
\* page allows, AllProtocols when it names none.
DetectProtocols(probed, whitelist, info) ==
    LET pe == probed \cap whitelist
    IN  (IF info.websocket THEN FirstOf(<<"websocket">>, pe) ELSE <<>>)
        \o ClassOf("xhr-streaming", "xdr-streaming",
                   <<"iframe-eventsource", "iframe-htmlfile">>, pe, info)
        \o ClassOf("xhr-polling", "xdr-polling",
                   <<"iframe-xhr-polling", "jsonp-polling">>, pe, info)
=============================================================================
