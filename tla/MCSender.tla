------------------------------ MODULE MCSender ------------------------------
(***************************************************************************)
(* Two threads with a few messages each.                                   *)
(***************************************************************************)
EXTENDS Sender

CONSTANTS t1, t2

MCThreads == {t1, t2}
=============================================================================
