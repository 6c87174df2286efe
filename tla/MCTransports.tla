---------------------------- MODULE MCTransports ----------------------------
(***************************************************************************)
(* xhr-streaming and xhr-polling, the three that run in an iframe, and     *)
(* jsonp-polling.                                                          *)
(***************************************************************************)
EXTENDS Transports

MCKinds == {[receiver |-> "xhr", framed |-> FALSE], [receiver |-> "xhr", framed |-> TRUE],
            [receiver |-> "eventsource", framed |-> TRUE],
            [receiver |-> "htmlfile", framed |-> TRUE],
            [receiver |-> "jsonp", framed |-> FALSE]}
=============================================================================
