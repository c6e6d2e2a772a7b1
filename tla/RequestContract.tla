--------------------------- MODULE RequestContract ---------------------------
(***************************************************************************)
(* What evcoap promises to the two users of a request: the one who sends   *)
(* it hears of its end, once, and of an answer only if it was served; the  *)
(* one whose callback serves it sees it at most once.                      *)
(***************************************************************************)
EXTENDS Naturals

CONSTANT Clients

VARIABLES
  status,  \* [Clients -> Status]: the request as its sender sees it
  served   \* [Clients -> Nat]: how often the callback has seen it

vars == <<status, served>>

Status == {"idle", "pending", "answered", "failed"}

Init ==
  /\ status = [c \in Clients |-> "idle"]
  /\ served = [c \in Clients |-> 0]

\* A client may send its next request once it has heard of the last.
Start(c) ==
  /\ status[c] # "pending"
  /\ status' = [status EXCEPT ![c] = "pending"]
  /\ served' = [served EXCEPT ![c] = 0]

\* The request may come late, when its sender has given up.
Serve(c) ==
  /\ status[c] # "idle" /\ served[c] = 0
  /\ served' = [served EXCEPT ![c] = 1]
  /\ UNCHANGED status

Answer(c) ==
  /\ status[c] = "pending" /\ served[c] = 1
  /\ status' = [status EXCEPT ![c] = "answered"]
  /\ UNCHANGED served

Fail(c) ==
  /\ status[c] = "pending"
  /\ status' = [status EXCEPT ![c] = "failed"]
  /\ UNCHANGED served

Next == \E c \in Clients : Start(c) \/ Serve(c) \/ Answer(c) \/ Fail(c)

Spec == Init /\ [][Next]_vars
             /\ \A c \in Clients : WF_vars(Answer(c) \/ Fail(c))
=============================================================================
