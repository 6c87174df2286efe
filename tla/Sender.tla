------------------------------- MODULE Sender -------------------------------
(***************************************************************************)
(* The sender, a client of the receiver: threads that post messages one    *)
(* after the other, each waiting for the answer to one before it sends the *)
(* next, and count the answers that were 200; and the main thread, which   *)
(* waits for all of them.  The receiver is the service of PostService; the *)
(* HTTP client and the network are external, and the connection a post was *)
(* sent on may fail before the answer arrived, whatever the receiver does  *)
(* with the post then or later.  Names that every specification has begin  *)
(* with the module's own, so that module MessagingProofs can extend it.    *)
(***************************************************************************)
EXTENDS Naturals, FiniteSets

CONSTANTS
  Threads,         \* the MessageSenderThreads, ten in the code
  messagesToSend   \* per thread; also a bound

ASSUME SenderAssumption ==
  IsFiniteSet(Threads) /\ messagesToSend \in Nat

\* The message a thread sends in the i-th turn of its loop.
Posts == Threads \X (1..messagesToSend)

VARIABLES
  turn,       \* per thread: i, the turns of its loop begun
  waiting,    \* threads within c.execute
  success,    \* per thread: the counter of this name
  finished,   \* TRUE once awaitTermination has returned true
  stored, forwarded, answer   \* of the PostService

clientVars  == <<turn, waiting, success, finished>>
serviceVars == <<stored, forwarded, answer>>
senderVars  == <<clientVars, serviceVars>>

Service == INSTANCE PostService
-----------------------------------------------------------------------------
\* The message in hand.
Message(t) == <<t, turn[t]>>

\* Mutant: one turn too many.
OneMoreTurn(t) == turn[t] <= messagesToSend

\* i < messagesToSend
MoreToSend(t) == turn[t] < messagesToSend

\* Mutant: the loop goes on with the message until it was sent.
OnlyWhenSent(t) == turn[t] - 1

\* The i of the loop after a turn without an answer.
AfterFailure(t) == turn[t]

\* Mutant: the status code is not looked at.
AnyStatus(status) == 1

\* What an answer adds to the counter.
Counted(status) == IF status = 200 THEN 1 ELSE 0
-----------------------------------------------------------------------------
\* The next turn of the loop, up to the end of sending.
Send(t) ==
  /\ t \notin waiting
  /\ MoreToSend(t)
  /\ turn' = [turn EXCEPT ![t] = @ + 1]
  /\ waiting' = waiting \cup {t}
  /\ UNCHANGED <<success, finished, serviceVars>>

\* The answer arrives and is counted.
ReceiveAnswer(t, status) ==
  /\ t \in waiting
  /\ Service!Truthful(Message(t), status)
  /\ answer' = [answer EXCEPT ![Message(t)] = status]
  /\ success' = [success EXCEPT ![t] = @ + Counted(status)]
  /\ waiting' = waiting \ {t}
  /\ UNCHANGED <<turn, finished, stored, forwarded>>

\* IOException: sendMessage returns false.
ConnectionFails(t) ==
  /\ t \in waiting
  /\ waiting' = waiting \ {t}
  /\ turn' = [turn EXCEPT ![t] = AfterFailure(t)]
  /\ UNCHANGED <<success, finished, serviceVars>>

Done(t) == t \notin waiting /\ ~MoreToSend(t)

\* The main thread: awaitTermination returns true.
Finish ==
  /\ ~finished
  /\ \A t \in Threads : Done(t)
  /\ finished' = TRUE
  /\ UNCHANGED <<turn, waiting, success, serviceVars>>

\* The receiver goes about the posts it was sent, also those whose sender is
\* no longer waiting.
Handle(p) ==
  /\ p[2] <= turn[p[1]]
  /\ Service!Store(p) \/ Service!Forward(p)
  /\ UNCHANGED clientVars
-----------------------------------------------------------------------------
SenderInit ==
  /\ turn = [t \in Threads |-> 0] /\ waiting = {}
  /\ success = [t \in Threads |-> 0] /\ finished = FALSE
  /\ Service!Init

Return(t) == ConnectionFails(t) \/ \E s \in Service!Statuses : ReceiveAnswer(t, s)

SenderNext ==
  \/ \E t \in Threads : Send(t) \/ Return(t)
  \/ Finish
  \/ \E p \in Posts : Handle(p)

SenderSpec == SenderInit /\ [][SenderNext]_senderVars

\* The threads run, and what they wait for comes: the receiver answers each
\* post or closes the connection (EveryPostAnswered of module Receiver).
SenderFairness ==
  /\ \A t \in Threads : WF_senderVars(Send(t)) /\ WF_senderVars(Return(t))
  /\ WF_senderVars(Finish)

SenderFairSpec == SenderSpec /\ SenderFairness
-----------------------------------------------------------------------------
\* Every variable has its type, and a thread waits for a message it has sent.
SenderTypeOK ==
  /\ turn \in [Threads -> 0..messagesToSend]
  /\ waiting \subseteq {t \in Threads : turn[t] > 0}
  /\ success \in [Threads -> 0..messagesToSend]
  /\ finished \in BOOLEAN
  /\ stored \subseteq Posts /\ forwarded \subseteq stored
  /\ answer \in [Posts -> {0} \cup Service!Statuses]

\* A thread never claims more successes than there are messages of its own
\* that were stored and forwarded, though connections fail and the receiver
\* handles a message at any time after it was sent.
SuccessesWereForwarded ==
  \A t \in Threads :
    success[t] <= Cardinality({p \in stored \cap forwarded : p[1] = t})

\* The sender comes to an end, however many connections fail.
Finishes == <>finished
=============================================================================
