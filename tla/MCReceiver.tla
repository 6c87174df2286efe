----------------------------- MODULE MCReceiver -----------------------------
(***************************************************************************)
(* Two clients.  One posts three requests on a connection that stays open, *)
(* the first of them with a two-byte character; the other's third post     *)
(* closes its connection, and what follows it is sent all the same.  The   *)
(* receiver is started again on a platform of another charset.             *)
(***************************************************************************)
EXTENDS Receiver, TLC

CONSTANTS c1, c2, p1, p2, p3, p4, p5, p6

MCChannels == {c1, c2}
MCPosts == {p1, p2, p3, p4, p5, p6}
MCPlan == (c1 :> <<p1, p2, p3>>) @@ (c2 :> <<p4, p5, p6>>)
MCKind ==
  (p1 :> "valid") @@ (p2 :> "refused") @@ (p3 :> "valid") @@
  (p4 :> "untimed") @@ (p5 :> "valid") @@ (p6 :> "undecodable")
MCBody ==
  [p \in Posts |-> IF p = p1 THEN <<"one", "first", "second">>
                   ELSE IF p = p2 THEN <<>> ELSE <<"one">>]
MCCharset == (0 :> "UTF-8") @@ (1 :> "other")
MCKeepAlive == [p \in Posts |-> p # p5]
=============================================================================
