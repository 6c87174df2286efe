---------------------------- MODULE PostService -----------------------------
(***************************************************************************)
(* What the receiver promises to its clients, without channels, buffers,   *)
(* event loops or a network: a post is stored, then forwarded, then        *)
(* answered; an answer is true of what was done, and nothing is done for a *)
(* post once it is answered.  Module Receiver is shown to implement it,    *)
(* and module Sender is a client of it.                                    *)
(***************************************************************************)
EXTENDS Naturals

CONSTANT Posts

VARIABLES stored,     \* posts whose request was stored
          forwarded,  \* posts whose request was handed to the exchange
          answer      \* per post: the status its client received, or 0

postVars == <<stored, forwarded, answer>>

Statuses == {200, 400, 500}
-----------------------------------------------------------------------------
\* 200 says that the request was stored and forwarded, 400 that nothing was
\* done, and 500 that something went wrong on the way.
Truthful(p, status) ==
  /\ status = 200 => p \in stored \cap forwarded
  /\ status = 400 => p \notin stored \cup forwarded

Store(p) ==
  /\ answer[p] = 0
  /\ stored' = stored \cup {p}
  /\ UNCHANGED <<forwarded, answer>>

Forward(p) ==
  /\ answer[p] = 0
  /\ p \in stored
  /\ forwarded' = forwarded \cup {p}
  /\ UNCHANGED <<stored, answer>>

\* Several posts may be answered at once: responses are flushed together.
Answer ==
  /\ answer' \in [Posts -> {0} \cup Statuses]
  /\ \A p \in Posts : answer'[p] # answer[p] =>
                        answer[p] = 0 /\ Truthful(p, answer'[p])
  /\ UNCHANGED <<stored, forwarded>>
-----------------------------------------------------------------------------
Init == stored = {} /\ forwarded = {} /\ answer = [p \in Posts |-> 0]

Next ==
  \/ \E p \in Posts : Store(p) \/ Forward(p)
  \/ Answer

Spec == Init /\ [][Next]_postVars
=============================================================================
