---------------------------- MODULE MCProcessor -----------------------------
(***************************************************************************)
(* Instances of Processor for TLC: two requests of two countries, and one  *)
(* message of another type.                                                *)
(***************************************************************************)
EXTENDS Processor

CONSTANTS r1, r2, other, hr, fr, eur, usd

MCTwoRequests == {r1, r2}
MCOthers == {other}
MCNoOthers == {}
MCCountries == {hr, fr}
MCCurrencies == {eur, usd}
MCCountryOf == [r \in Requests |-> IF r = r2 THEN fr ELSE hr]
MCCurrencyOf == [r \in Requests |-> IF r = r2 THEN usd ELSE eur]
=============================================================================
