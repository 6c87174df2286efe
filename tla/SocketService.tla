--------------------------- MODULE SocketService ----------------------------
(***************************************************************************)
(* What a socket promises the page that holds it: it opens at most once,   *)
(* hands over the server's messages in the order they were sent and none   *)
(* before it is open or after it is closed, takes the page's own messages  *)
(* to the server in their order, although perhaps not all of them, and     *)
(* tells of its end exactly once.  Messages of each direction are      *)
(* numbered from 1.  SockJS implements it and StompClient uses it.         *)
(***************************************************************************)
EXTENDS Naturals, Sequences

VARIABLES state,      \* "connecting", "open" or "closed"
          delivered,  \* number of the last message handed to the page
          sent,       \* number of the last message the page could send
          arrived,    \* number of the last of these that reached the server
          closing     \* the close event: "none", "due" or "fired"

socketVars == <<state, delivered, sent, arrived, closing>>

Init == state = "connecting" /\ delivered = 0 /\ sent = 0 /\ arrived = 0 /\ closing = "none"

Open == state = "connecting" /\ state' = "open" /\ UNCHANGED <<delivered, sent, arrived, closing>>

Deliver == state = "open" /\ delivered' = delivered + 1 /\ UNCHANGED <<state, sent, arrived, closing>>

\* Before the socket is open, send throws; once it is closed, it does nothing.
Send == state = "open" /\ sent' = sent + 1 /\ UNCHANGED <<state, delivered, arrived, closing>>

\* Several messages may travel together, and some arrive after the end.
Arrive == /\ arrived' \in arrived + 1 .. sent
          /\ UNCHANGED <<state, delivered, sent, closing>>

\* By the page, by the server or because the connection is lost.
Close == /\ state \in {"connecting", "open"}
         /\ state' = "closed" /\ closing' = "due"
         /\ UNCHANGED <<delivered, sent, arrived>>

Fire == closing = "due" /\ closing' = "fired" /\ UNCHANGED <<state, delivered, sent, arrived>>

Next == Open \/ Deliver \/ Send \/ Arrive \/ Close \/ Fire

Spec == Init /\ [][Next]_socketVars
=============================================================================
