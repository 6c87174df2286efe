--------------------------- MODULE MCStompClient ----------------------------
(***************************************************************************)
(* Two destinations, an id of the page's own, messages of up to two frames.*)
(***************************************************************************)
EXTENDS StompClient

CONSTANTS d1, d2, u1

MCDestinations == {d1, d2}
MCUserIds == {u1}
MCDestinationOf == [u \in MCUserIds |-> d2]
MCHeartBeats == {[sends |-> TRUE, wants |-> FALSE], [sends |-> FALSE, wants |-> TRUE]}
=============================================================================
