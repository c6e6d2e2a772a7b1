------------------------------ MODULE MCResource ------------------------------
(***************************************************************************)
(* An instance of EvcoapResource for TLC: two URIs that differ in case     *)
(* only, the first with up to two representations.                         *)
(***************************************************************************)
EXTENDS EvcoapResource

CONSTANTS lower, upper, text, xml, any

ResourceFold == [u \in Uris |-> "light"]

ResourceMaxReps == [u \in Uris |-> IF u = lower THEN 2 ELSE 1]

ResourceAttrs == {[obs |-> TRUE, exp |-> FALSE, if |-> "y", rt |-> "x"]}

P(k, v) == [key |-> k, val |-> v]

ResourceQueries ==
  {{P("rt", "x"), P("ct", "x")}, {P("rt", "y")}, {P("if", "y")},
   {P("if", "x"), P("rt", "x")}, {P("obs", "")},
   {P("exp", ""), P("sz", "x")}, {P("other", "x")}}

\* The URI and a comma, and what the link says.
ResourceLinkLen(l) ==
  2 + Cardinality(l.sz) + Cardinality(l.ct)
    + (IF l.attrs.rt = "" THEN 0 ELSE 1) + (IF l.attrs.if = "" THEN 0 ELSE 1)
=============================================================================
