--------------------------- MODULE EvcoapExchange ---------------------------
(***************************************************************************)
(* Client contexts of one base and the server that they send requests to,  *)
(* over a network that loses, copies and reorders datagrams.  The two      *)
(* sides are EvcoapClient and EvcoapServer as they stand; this module has  *)
(* what lies between them: which bytes of one become which datagram of the *)
(* other, and the message IDs.  It is shown to implement RequestContract.  *)
(*                                                                         *)
(* A context has a socket, hence an address, of its own, which is what the *)
(* server knows it by.  Observations are left out (CntMod = 1).            *)
(***************************************************************************)
EXTENDS Naturals

CONSTANTS
  Clients,        \* client contexts
  UserOwn,        \* those created with userown == true
  Confirmable,    \* those whose requests are CON
  Contexts,       \* server contexts
  Mids,           \* message IDs, of both sides
  FirstRc,        \* results of the user callback on a new request
  LateRc,         \* results of the user callback when it is rescheduled
  NoPdu,          \* no PDU
  MaxRetransmit,  \* EC_COAP_MAX_RETRANSMIT
  MaxGo           \* bound: calls of ec_client_go per context

VARIABLES
  \* The client base, see EvcoapClient.
  cproc, state, dns, armed, retries, listed, inputs, first, on, cancel, last,
  recent, cseen, cout, goes, sent, told, shown,
  \* The server base, see EvcoapServer.
  sproc, ctx, servers, sseen, cached, sout, calls, made,
  \* Between them.
  mid,       \* [Clients -> Mids \cup {0}]: MID of the request
  toServer,  \* datagrams that have left the client base
  toClient,  \* [to : Clients, pdu : PDUs that have left the server]
  result     \* [Clients -> {"none", "answered", "failed"}]: what was reported

clientVars == <<cproc, state, dns, armed, retries, listed, inputs, first, on,
                cancel, last, recent, cseen, cout, goes, sent, told, shown>>
serverVars == <<sproc, ctx, servers, sseen, cached, sout, calls, made>>
vars == <<clientVars, serverVars, mid, toServer, toClient, result>>

NoObserve == 1

ClientPdus ==
  [key : Mids, code : {"ack", "content", "error500"}, ok : {TRUE},
   obs : {NoObserve}]

C == INSTANCE EvcoapClient WITH
       proc <- cproc, seen <- cseen, out <- cout, Observers <- {},
       Keys <- Mids, Prompt <- Mids, CntMod <- NoObserve,
       Pdus <- [c \in Clients |-> ClientPdus]

Datagram(c, m, code, con) ==
  [peer |-> c, mid |-> m, code |-> code, con |-> con, ok |-> TRUE,
   px |-> FALSE]

ServerWire ==
  {Datagram(c, m, code, con) : c \in Clients, m \in Mids,
                               code \in {"request", "ack"}, con \in BOOLEAN}

S == INSTANCE EvcoapServer WITH
       proc <- sproc, seen <- sseen, out <- sout, Peers <- Clients,
       Wire <- ServerWire, Prompt <- Clients \X Mids

ASSUME ExchangeAssumption ==
  /\ UserOwn \subseteq Clients
  /\ Confirmable \subseteq Clients
  /\ Mids \subseteq Nat
  /\ FirstRc \subseteq {"ready", "wait", "error", "notfound"}
  /\ LateRc \subseteq {"ready", "wait", "error"}
  /\ NoPdu \notin C!Pdu \cup S!Datagram \cup S!Message
  /\ MaxRetransmit \in Nat \ {0}
  /\ MaxGo \in Nat

Init ==
  /\ C!Init /\ S!Init
  /\ mid = [c \in Clients |-> 0]
  /\ toServer = {} /\ toClient = {}
  /\ result = [c \in Clients |-> "none"]

-----------------------------------------------------------------------------
(* The datagram of what a client context sends: encode_header puts method, *)
(* type and MID of a request; an ACK mirrors the MID of the response.      *)
ToServer(c, msg) ==
  IF msg = C!Req(c)
  THEN Datagram(c, mid'[c], "request", c \in Confirmable)
  ELSE Datagram(c, msg[2], "ack", FALSE)

(* The PDU that ec_client_handle_pdu decodes from a message of the server: *)
(* the Token is mirrored, so that it matches.                              *)
ToClient(msg) ==
  [to  |-> msg.re[1],
   pdu |-> [key |-> msg.mid, ok |-> TRUE, obs |-> NoObserve,
            code |-> CASE msg.code = "empty" -> "ack"
                       [] msg.code = "response" -> "content"
                       [] msg.code = "error" -> "error500"]]

Sent(c) == toServer' = toServer \cup {ToServer(c, msg) : msg \in cout'}

Replied == toClient' = toClient \cup {ToClient(msg) : msg \in sout'}

\* What the user is told, if it is told something in this step.
Reported(c, how) ==
  result' = IF told'[c] > told[c] THEN [result EXCEPT ![c] = how] ELSE result

Go(c) ==
  /\ C!Go(c)
  /\ result' = [result EXCEPT ![c] = "none"]
  /\ UNCHANGED <<serverVars, mid, toServer, toClient>>

(* ec_pdu_encode_request draws a MID for the request; two requests of one  *)
(* context in a row are taken to get different ones.                       *)
Resolved(c) ==
  /\ \/ C!DnsFailed(c) /\ UNCHANGED mid
     \/ /\ C!DnsUnsent(c) \/ C!DnsUnregistered(c) \/ C!DnsSent(c)
        /\ \E m \in Mids \ {mid[c]} : mid' = [mid EXCEPT ![c] = m]
  /\ Sent(c) /\ Reported(c, "failed")
  /\ UNCHANGED <<serverVars, toClient>>

ClientTimer(c) ==
  /\ C!Timers(c)
  /\ UNCHANGED mid
  /\ Sent(c) /\ Reported(c, "failed")
  /\ UNCHANGED <<serverVars, toClient>>

ClientReceives(c) ==
  /\ \E x \in toClient : x.to = c /\ C!Network(c, x.pdu)
  /\ UNCHANGED mid
  /\ Sent(c) /\ Reported(c, "answered")
  /\ UNCHANGED <<serverVars, toClient>>

ServerReceives ==
  /\ \E d \in toServer :
       \/ S!RecvDup(d) \/ S!RecvUnmatched(d)
       \/ \E s \in Contexts : S!Request(s, d) \/ S!RecvAck(s, d)
                                \/ S!RecvUnexpected(s, d)
  /\ Replied
  /\ UNCHANGED <<clientVars, mid, toServer, result>>

ServerTimer(s) ==
  /\ S!Deferred(s) \/ S!Retransmit(s)
  /\ Replied
  /\ UNCHANGED <<clientVars, mid, toServer, result>>

RecordExpires ==
  /\ \/ (\E m \in Mids : C!DupZap(m)) /\ UNCHANGED serverVars
     \/ (\E k \in S!Keys : S!DupZap(k)) /\ UNCHANGED clientVars
  /\ UNCHANGED <<mid, toServer, toClient, result>>

Next ==
  \/ \E c \in Clients : Go(c) \/ Resolved(c) \/ ClientTimer(c)
                          \/ ClientReceives(c)
  \/ ServerReceives
  \/ \E s \in Contexts : ServerTimer(s)
  \/ RecordExpires

(* evdns answers and timers fire; no datagram has to arrive. *)
Spec ==
  /\ Init /\ [][Next]_vars
  /\ \A c \in Clients : WF_vars(Resolved(c)) /\ WF_vars(ClientTimer(c))

-----------------------------------------------------------------------------
(***************************************************************************)
(* Properties.                                                             *)
(***************************************************************************)
StatusOf(c) ==
  CASE goes[c] = 0 -> "idle"
    [] goes[c] > 0 /\ result[c] = "none" -> "pending"
    [] OTHER -> result[c]

\* A request that has not left has not been served.
ServedOf(c) == IF dns[c] \/ sent[c] = 0 THEN 0 ELSE calls[<<c, mid[c]>>]

Promise == INSTANCE RequestContract WITH
             status <- [c \in Clients |-> StatusOf(c)],
             served <- [c \in Clients |-> ServedOf(c)]

(* Over a lossy network the two sides implement RequestContract: the user  *)
(* callback of the server runs at most once for a request, however often   *)
(* its datagram comes; its sender hears of an answer only if it ran, and   *)
(* hears of the end of each request once, in the end always.               *)
Contract == Promise!Spec

(* "Requests and responses are paired through CoAP tokens."                *)
(* (lib/evcoap/README, 2): an answer is an answer to the request that its  *)
(* context is waiting for.                                                 *)
AnswersItsRequest ==
  \A c \in Clients : StatusOf(c) = "answered" => ServedOf(c) > 0

(* Between real peers, with duplicate records on both sides and message    *)
(* IDs that collide, no message asks for a transition that either state    *)
(* machine refuses, which would end the process.                           *)
NeitherExits == cproc # "errx" /\ sproc # "errx"
=============================================================================
