----------------------------- MODULE MCMessage ------------------------------
(***************************************************************************)
(* Instances of EvcoapMessage for TLC: one exchange with few option slots. *)
(***************************************************************************)
EXTENDS EvcoapMessage

(* A URI with an empty segment and a query, one with an address for host,  *)
(* one whose options do not fit, and one of another scheme.                *)
Uri(coap, named, path, query) ==
  [coap |-> coap, named |-> named, path |-> path, query |-> query]

MessageUris ==
  {Uri(TRUE, FALSE, <<"a", "", "b">>, <<>>),
   Uri(TRUE, TRUE, <<"a">>, <<"q">>),
   Uri(TRUE, FALSE, <<"a", "b">>, <<"q", "r">>),
   Uri(FALSE, TRUE, <<"a">>, <<>>)}

MessageRequestCalls ==
  {Opt("Uri-Path", "c"), Opt("Block2", "0"), Opt("Proxy-Uri", "other")}

MessageResponseCalls ==
  {Opt("Observe", "7"), Opt("Block2", "1")}
=============================================================================
