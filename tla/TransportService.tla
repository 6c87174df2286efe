-------------------------- MODULE TransportService --------------------------
(***************************************************************************)
(* What a transport of SockJS promises its socket: it gives it the frames  *)
(* of the server's session one by one and in their order, it takes the     *)
(* page's messages to the session, and when it was cleaned up it gives     *)
(* nothing any more, though messages that it took may still arrive.        *)
(***************************************************************************)
EXTENDS Naturals

VARIABLES given,    \* number of the last frame given to the socket
          sent,     \* number of the last message taken from it
          arrived,  \* the messages that have arrived
          cleaned   \* the socket is done with the transport

transportVars == <<given, sent, arrived, cleaned>>

Init == given = 0 /\ sent = 0 /\ arrived = {} /\ cleaned = FALSE

Give == ~ cleaned /\ given' = given + 1 /\ UNCHANGED <<sent, arrived, cleaned>>

Take == ~ cleaned /\ sent' = sent + 1 /\ UNCHANGED <<given, arrived, cleaned>>

\* Messages that travel together arrive together, each of them once, and none
\* before one that was taken earlier.
Arrive == /\ \E from, to \in 1 .. sent :
                /\ from <= to
                /\ \A n \in arrived : n < from
                /\ arrived' = arrived \cup (from .. to)
          /\ UNCHANGED <<given, sent, cleaned>>

\* By the socket itself, or because the transport or the server has ended.
CleanUp == ~ cleaned /\ cleaned' = TRUE /\ UNCHANGED <<given, sent, arrived>>

Next == Give \/ Take \/ Arrive \/ CleanUp

Spec == Init /\ [][Next]_transportVars
=============================================================================
