------------------------------ MODULE MCReader ------------------------------
(***************************************************************************)
(* Five rows, one of them of a country the reader does not read.  A run     *)
(* begins before every row or after the first two.                         *)
(***************************************************************************)
EXTENDS Reader, TLC

CONSTANTS a, b, c, d, e, fr, hr

MCRows == {a, b, c, d, e}
MCKey == (a :> 2) @@ (b :> 4) @@ (c :> 6) @@ (d :> 8) @@ (e :> 10)
MCCountry == [r \in Rows |-> IF r = d THEN hr ELSE fr]
=============================================================================
