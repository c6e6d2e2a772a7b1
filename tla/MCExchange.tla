----------------------------- MODULE MCExchange ------------------------------
(***************************************************************************)
(* Instances of EvcoapExchange for TLC.                                    *)
(***************************************************************************)
EXTENDS EvcoapExchange

CONSTANTS c1, c2, s1, s2
=============================================================================
