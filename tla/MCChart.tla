------------------------------ MODULE MCChart -------------------------------
(***************************************************************************)
(* Three targets, one of which comes only with another one.                *)
(***************************************************************************)
EXTENDS Chart

CONSTANTS a, b, c

MCIds == {a, b, c}
MCIdLists == {<<a>>, <<b>>, <<c, a>>}
MCViewLists == {<<c, a>>}
=============================================================================
