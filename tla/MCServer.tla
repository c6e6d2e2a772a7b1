------------------------------ MODULE MCServer ------------------------------
(***************************************************************************)
(* Instances of EvcoapServer for TLC: datagrams from one or two clients.   *)
(***************************************************************************)
EXTENDS EvcoapServer, TLC

CONSTANTS a, b    \* two clients

Dgram(p, m, code, con) ==
  [peer |-> p, mid |-> m, code |-> code, con |-> con, ok |-> TRUE, px |-> FALSE]

Con(p, m) == Dgram(p, m, "request", TRUE)
Non(p, m) == Dgram(p, m, "request", FALSE)
Ctl(p, m, code) == Dgram(p, m, code, code = "ping")

(* Two clients whose requests have the same MID.  Their ACKs and RSTs may  *)
(* have that of any message that they get.                                 *)
WireTwo == {Con(a, 1), Non(b, 1), Con(b, 1)}
             \cup {Ctl(p, m, code) : p \in {a, b}, m \in Mids,
                                     code \in {"ack", "rst"}}

(* One client with two requests, one of which may be malformed; its        *)
(* control messages may have any MID, that of a request and, if Mids has   *)
(* it, 0 included.                                                         *)
WireOne == {Con(a, 1), [Con(a, 2) EXCEPT !.px = TRUE], Non(a, 2),
            [Con(a, 1) EXCEPT !.ok = FALSE]}
             \cup {Ctl(a, m, code) : m \in Mids, code \in Control \cup {"other"}}

(* The same with one MID for all requests, which the client takes again    *)
(* when the record of the first is gone.                                   *)
WireAgain == {Con(a, 1), [Con(a, 1) EXCEPT !.px = TRUE], Non(a, 1),
              [Con(a, 1) EXCEPT !.ok = FALSE]}
             \cup {Ctl(a, m, code) : m \in Mids, code \in Control \cup {"other"}}

WireBad == {[Con(a, 1) EXCEPT !.ok = FALSE], Con(a, 2)}
             \cup {Ctl(a, m, "ack") : m \in Mids}

EveryKey == Keys

(* Contexts are interchangeable. *)
Symmetry == Permutations(Contexts)
=============================================================================
