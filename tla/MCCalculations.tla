---------------------------- MODULE MCCalculations -----------------------------
(***************************************************************************)
(* Every input of small sets: windows of up to six requests of four, two   *)
(* with equal rates, of which the one with the lowest rate is not the one  *)
(* with the lowest amount; a page with snapshots whose keys come, go and   *)
(* change their places; and the questions, those about sock.js as well,    *)
(* which are asked only here.                                              *)
(***************************************************************************)
EXTENDS Calculations

CONSTANTS low, mid, even, high,   \* requests
          a, wide,                \* characters, of one byte and of two
          plain, broken, special  \* characters, for quoting

MCStrings == STRING
MCRequests == {low, mid, even, high}
MCRate == (low :> 1) @@ (mid :> 2) @@ (even :> 2) @@ (high :> 4)
MCAmountSell == (low :> 8) @@ (mid :> 1) @@ (even :> 3) @@ (high :> 2)
MCAmountBuy == (low :> 8) @@ (mid :> 2) @@ (even :> 6) @@ (high :> 8)
MCUtf8Size == (a :> 1) @@ (wide :> 2)
MCSnapshots == [seconds : {<<>>, <<4, 0>>, <<3, 1, 2>>}, minutes : {<<1>>, <<2, 5>>},
                perCurrency : {<<>>, <<[key |-> "EUR_GBP", value |-> 3]>>,
                               <<[key |-> "USD_GBP", value |-> 6], [key |-> "EUR_GBP", value |-> 9]>>},
                perCountry : {<<[key |-> "FR", value |-> 2]>>},
                count : {1, 2}, volume : {5, NaN}]

U == INSTANCE SockUtils WITH Protocol <- "http:", Host <- "page",
                             Extra <- {broken}, Special <- {special, broken}

Words(S, n) == UNION {[1 .. k -> S] : k \in 0 .. n}

Header(name, value) == [name |-> name, value |-> value]
AllHeaders == LET h == Word("h") x == Word("x") y == Word("y")
              IN  {<<>>, <<Header(<<h>>, <<x>>)>>, <<Header(<<h>>, <<x>>), Header(<<h>>, <<y>>)>>,
                   <<Header(<<h>>, <<x, Colon, Blank, y>>)>>, <<Header(<<h>>, <<Blank, x, Blank>>)>>,
                   <<Header(<<h, Colon, x>>, <<y>>), Header(<<Blank, h>>, <<>>)>>}
Frames == {Frame("MESSAGE", h, b) : h \in AllHeaders, b \in Words({Char(a), Char(wide), LF}, 2)}
FrameInputs == {[frames |-> <<fg[1], fg[2]>>, feeds |-> feeds] :
                   fg \in {fg \in Frames \X Frames : Len(fg[1].body) + Len(fg[2].body) <= 3},
                   feeds \in 0 .. 2}
PieceInputs == {[text |-> [i \in 1 .. n |-> i], max |-> max] : n \in 0 .. 9, max \in 1 .. 4}

Listeners == {"l1", "l2", "l3"}
DomChanges == [op : {"add", "remove"}, listener : Listeners]
                \cup {[op |-> "none", listener |-> "l1"]}
EmitterChanges == [op : {"on"}, listener : Listeners] \cup [op : {"none", "nuke"}, listener : {"l1"}]
ListenerInputs == [arr : {<<"l1", "l2">>, <<"l1", "l2", "l3">>}, does : [Listeners -> DomChanges]]
EmitterInputs == [arr : {<<"l1", "l2">>, <<"l1", "l2", "l1">>}, does : [Listeners -> EmitterChanges]]
UrlInputs == Words({"/", "http:", "other", "path"}, 5) \ {<<>>}
NumberInputs == {[n |-> n % max, max |-> max, rtt |-> n] : n \in 0 .. 120, max \in {1, 10, 11, 100, 101}}
QuoteInputs == [string : Words({plain, "\"", "\\", "control", special, broken}, 3), native : BOOLEAN]
Protocols == ToSet(U!AllProtocols)
ProtocolInputs == [probed : SUBSET Protocols, whitelist : {Protocols, {"websocket", "jsonp-polling"}},
                   info : [websocket : BOOLEAN, cookie_needed : BOOLEAN, null_origin : BOOLEAN]]

MCAmounts == {Null, NaN, Infinity, 0, 1, 250}
RequestInputs == [userId : {Null, "", "user"}, currencyFrom : {"EUR"}, currencyTo : {"GBP"},
                  originatingCountry : {"FR"}, amountBuy : MCAmounts, amountSell : MCAmounts,
                  rate : MCAmounts, timePlaced : {Null, 1}]

\* Columns of which the last may be short or long, and the x of all rows or some.
TableInputs == [x : {<<>>, <<1, 2, 3>>, <<3, 1, 2>>, <<2, 5>>},
                a : UNION {[1 .. n -> {Null, Text, Empty, 7}] : n \in 2 .. 3},
                b : UNION {[1 .. n -> {0, 8}] : n \in 1 .. 3}]

Target(id, xs, values) ==
    [id |-> id, values |-> [k \in DOMAIN xs |-> [x |-> xs[k], value |-> values[k], index |-> k - 1]]]
Groups == {<<>>, <<<<"a", "b">>>>, <<<<"c", "a">>>>, <<<<"a", "b", "c">>>>, <<<<"c">>, <<"b", "a">>>>}
BarInputs == {[groups |-> groups, order |-> order,
               ts |-> [i \in 1 .. 3 |-> Target(<<"a", "b", "c">>[i], <<0, 1>>, <<values[i], i - 2>>)]] :
                  values \in [1 .. 3 -> -2 .. 2], groups \in Groups, order \in {"none", "asc", "desc"}}
AxisInputs == [ts : {<<Target("a", <<0, 1>>, <<v, w>>)>> : v, w \in -3 .. 3},
               config : [min : {Null, -1, 2}, max : {Null, -2, 1}, center : {Null, 0, 2},
                         zeroBased : BOOLEAN, inverted : BOOLEAN]]
DomainInputs == [ts : {<<Target("a", xs, xs), Target("b", <<xs[1]>>, <<1>>)>> :
                          xs \in {<<0>>, <<4>>, <<-1>>, <<-2>>, <<0, 1>>, <<-1, 2>>, <<1, 2, 5>>}},
                 bars : BOOLEAN, category : BOOLEAN,
                 zoomed : {<<from, from + width>> : from \in {-300, -50, 0, 120}, width \in {100, 200}}]

MCQuestions ==
    ("frames" :> FrameInputs) @@ ("pieces" :> PieceInputs) @@ ("listeners" :> ListenerInputs)
    @@ ("emitter" :> EmitterInputs) @@ ("url" :> UrlInputs) @@ ("numbers" :> NumberInputs)
    @@ ("quote" :> QuoteInputs) @@ ("protocols" :> ProtocolInputs) @@ ("request" :> RequestInputs)
    @@ ("table" :> TableInputs) @@ ("bars" :> BarInputs) @@ ("axis" :> AxisInputs)
    @@ ("domain" :> DomainInputs)
-----------------------------------------------------------------------------
\* Listeners may change the list they are called from.  One that was there
\* before and after is called exactly once, and nobody twice, unless a listener
\* is removed that has had its turn: then the list moves up under the loop
\* (dispatchEvent of sock.js).  The loop never ends with an exception unless
\* the list was emptied.
ListenersCalledOnce ==
    Asked("listeners") =>
        LET arr == probe.input.arr
            does == probe.input.does
            run == U!DispatchEvent(arr, does, 9)
            turn(l) == CHOOSE i \in DOMAIN run.calls : run.calls[i] = l
            late == \E i \in DOMAIN run.calls :
                        /\ does[run.calls[i]].op = "remove"
                        /\ \E j \in 1 .. i : run.calls[j] = does[run.calls[i]].listener
        IN  /\ run.threw => late
            /\ ~ late => /\ IsInjective(run.calls)
                         /\ ToSet(run.left) \subseteq ToSet(run.calls)

\* An event of an emitter reaches its listeners in the order in which they
\* were added, those added on the way as well; one that was added twice is
\* called twice.  Only an emitter nuked by a listener stops, with an exception
\* (emit of sock.js).
EmitsInOrder ==
    Asked("emitter") =>
        LET run == U!Emit(probe.input.arr, probe.input.does, 9)
        IN  /\ run.threw \/ run.calls = run.left \/ Len(run.calls) = 9
            /\ run.threw <=> \E i \in DOMAIN run.calls : probe.input.does[run.calls[i]].op = "nuke"
            /\ IsPrefix(probe.input.arr, run.calls) \/ run.threw

\* Every URL, however the page writes it, is amended to one that is amended
\* no further and ends in no slash; one of the page's host has the page's
\* origin, and so is recognised as of the same origin (amendUrl).
UrlsAmendedOnce ==
    Asked("url") /\ U!FlatUrl(probe.input) =>
        LET amended == U!AmendUrl(probe.input)
            here == <<"http:", "/", "/", "page", "/", "path">>
        IN  /\ amended # <<>> => Last(amended) # "/"
            /\ U!AmendUrl(amended) = amended
            /\ probe.input[1] = "/" /\ (Len(probe.input) > 1 => probe.input[2] # "/")
                 => /\ U!GetOrigin(amended) = U!GetOrigin(here)
                    /\ U!IsSameOriginUrl(amended, here)

\* The names of servers drawn at random all have the same length, and differ
\* when the numbers drawn differ; the timeout of a transport is more than a
\* round trip, and never less than that for a shorter one.
NumbersFit ==
    Asked("numbers") =>
        LET name(n) == U!RandomNumberString(probe.input.max, n)
        IN  /\ Len(name(probe.input.n)) = Len(U!Digits(probe.input.max - 1))
            /\ \A n \in 0 .. probe.input.max - 1 :
                 name(n) = name(probe.input.n) => n = probe.input.n
            /\ U!CountRTO(probe.input.rtt) > probe.input.rtt
            /\ U!CountRTO(probe.input.rtt + 1) > U!CountRTO(probe.input.rtt)

\* The server reads the text that was quoted, whatever is escaped on the way,
\* and nothing that browsers break is on the wire (quote of sock.js).
QuotedIsRead ==
    Asked("quote") =>
        LET wire == U!Quote(probe.input.string, probe.input.native)
        IN  /\ U!Unescaped(SubSeq(wire, 2, Len(wire) - 1)) = probe.input.string
            /\ \A i \in DOMAIN wire : wire[i] # U!Char(broken)

\* At most one transport of each class is tried, in the order of the classes;
\* none that was not found usable, that the page does not allow, or that
\* cannot carry what the server asks for; and one of a class whenever there is
\* one in it (detectProtocols).
ProtocolsUsable ==
    Asked("protocols") =>
        LET i == probe.input
            chosen == U!DetectProtocols(i.probed, i.whitelist, i.info)
            own == {"xhr-streaming", "xhr-polling"}
            across == {"xdr-streaming", "xdr-polling"}
            usable == {p \in i.probed \cap i.whitelist :
                          /\ p = "websocket" => i.info.websocket
                          /\ p \in own \cup across => ~ i.info.null_origin
                          /\ p \in across => ~ i.info.cookie_needed}
            classes == <<{"websocket"},
                         {"xhr-streaming", "xdr-streaming", "iframe-eventsource", "iframe-htmlfile"},
                         {"xhr-polling", "xdr-polling", "iframe-xhr-polling", "jsonp-polling"}>>
            able == SelectSeq(classes, LAMBDA class : class \cap usable # {})
        IN  /\ Len(chosen) = Len(able)
            /\ \A k \in DOMAIN chosen : chosen[k] \in able[k] \cap usable

\* Events, addresses, names, text and the choice of transports in sock.js.
SockUtilsServe ==
    /\ ListenersCalledOnce /\ EmitsInOrder
    /\ UrlsAmendedOnce /\ NumbersFit /\ QuotedIsRead /\ ProtocolsUsable
=============================================================================
