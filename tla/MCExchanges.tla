---------------------------- MODULE MCExchanges -----------------------------
(***************************************************************************)
(* Two web applications with a browser each, or one with both browsers.    *)
(***************************************************************************)
EXTENDS Exchanges, TLC

CONSTANTS r1, r2, w1, w2, b1, b2

MCRequests == {r1, r2}
MCOneRequest == {r1}
MCWebs == {w1, w2}
MCOneWeb == {w1}
MCBrowsers == {b1, b2}
MCWebOf == [b \in Browsers |-> IF b = b2 /\ w2 \in Webs THEN w2 ELSE w1]
=============================================================================
