----------------------- MODULE EvcoapExchangeProofs ------------------------
(***************************************************************************)
(* Proofs about EvcoapExchange, for any number of clients and contexts and *)
(* a network that loses, copies and reorders: neither side refuses what    *)
(* the other sends, and each step of the two is a step that                *)
(* RequestContract allows.  What each side keeps by itself comes from the  *)
(* proofs about the client and about the server.                           *)
(***************************************************************************)
EXTENDS EvcoapExchange, TLAPS

CP == INSTANCE EvcoapClientProofs WITH
        proc <- cproc, seen <- cseen, out <- cout, Observers <- {},
        Keys <- Mids, Prompt <- Mids, CntMod <- NoObserve,
        Pdus <- [c \in Clients |-> ClientPdus]

SP == INSTANCE EvcoapServerProofs WITH
        proc <- sproc, seen <- sseen, out <- sout, Peers <- Clients,
        Wire <- ServerWire, Prompt <- Clients \X Mids

-----------------------------------------------------------------------------
(* The two sides *)

LEMMA ClientSound == CP!ClientAssumption
<1>1. ClientPdus \subseteq CP!Pdu
  <2> SUFFICES ASSUME NEW p \in ClientPdus PROVE p \in CP!Pdu
    OBVIOUS
  <2>1. p = [key |-> p.key, code |-> p.code, ok |-> p.ok, obs |-> p.obs]
    BY DEF ClientPdus
  <2>2. p.key \in Mids /\ p.ok = TRUE /\ p.obs = 1
    BY DEF ClientPdus, NoObserve
  <2>4. p.ok \in BOOLEAN
    BY <2>2
  <2>5. p.obs \in 0 .. NoObserve
    BY <2>2 DEF NoObserve
  <2>3. p.code \in CP!Empty \cup CP!Response
    BY DEF ClientPdus, CP!Empty, CP!Response
  <2> QED BY <2>1, <2>2, <2>3, <2>4, <2>5 DEF CP!Pdu
<1>2. CP!Pdu = C!Pdu
  BY DEF CP!Pdu, C!Pdu, CP!Empty, C!Empty, CP!Response, C!Response
<1> QED BY <1>1, <1>2, ExchangeAssumption DEF CP!ClientAssumption, NoObserve

LEMMA ServerSound == SP!ServerAssumption
<1>1. SP!Datagram = S!Datagram /\ SP!Message = S!Message
  BY DEF SP!Datagram, S!Datagram, SP!Message, S!Message, SP!Control, S!Control,
         SP!Keys, S!Keys
<1>2. ServerWire \subseteq SP!Datagram
  <2> SUFFICES ASSUME NEW c \in Clients, NEW m \in Mids,
                      NEW code \in {"request", "ack"}, NEW con \in BOOLEAN
               PROVE  Datagram(c, m, code, con) \in SP!Datagram
    BY DEF ServerWire
  <2> QED BY DEF Datagram, SP!Datagram, SP!Control
<1> QED BY <1>1, <1>2, ExchangeAssumption DEF SP!ServerAssumption, SP!Keys

(* The proofs are about these very actions. *)
LEMMA SameClient ==
  ASSUME NEW c, NEW p, NEW k
  PROVE  /\ C!Go(c) => CP!Go(c)
         /\ C!DnsFailed(c) => CP!DnsFailed(c)
         /\ C!DnsUnsent(c) => CP!DnsUnsent(c)
         /\ C!DnsUnregistered(c) => CP!DnsUnregistered(c)
         /\ C!DnsSent(c) => CP!DnsSent(c)
         /\ C!Timers(c) => CP!Timers(c)
         /\ C!Network(c, p) => CP!Network(c, p)
         /\ C!DupZap(k) => CP!DupZap(k)
<1> USE DEF C!FinalState, CP!FinalState, C!Startable, CP!Startable,
           C!InFlight, CP!InFlight, C!CanEnter, CP!CanEnter, C!Ack, CP!Ack,
           C!Rst, CP!Rst, C!Req, CP!Req, C!NoObs, CP!NoObs, C!obsVars,
           CP!obsVars, C!Response, CP!Response, C!Die, CP!Die, C!FreeCrashes,
           CP!FreeCrashes, C!Unlink, CP!Unlink, C!Reports, CP!Reports,
           C!Enter, CP!Enter, C!SetState, CP!SetState, C!Move, CP!Move, C!Go,
           CP!Go, C!DnsFailed, CP!DnsFailed, C!DnsUnsent, CP!DnsUnsent,
           C!DnsUnregistered, CP!DnsUnregistered, C!DnsSent, CP!DnsSent,
           C!CoapTimeout, CP!CoapTimeout, C!CoapRetry, CP!CoapRetry,
           C!CoapRetryFails, CP!CoapRetryFails, C!AppTimeout, CP!AppTimeout,
           C!ObsTimeout, CP!ObsTimeout, C!DupZap, CP!DupZap, C!Receives,
           CP!Receives, C!Fresh, CP!Fresh, C!Record, CP!Record, C!RecvDup,
           CP!RecvDup, C!RecvBad, CP!RecvBad, C!RecvAck, CP!RecvAck,
           C!RecvRst, CP!RecvRst, C!HeadWith, CP!HeadWith, C!Stale, CP!Stale,
           C!Ended, CP!Ended, C!Good, CP!Good, C!RecvStale, CP!RecvStale,
           C!ObsTimers, CP!ObsTimers, C!RecvNotification,
           CP!RecvNotification, C!RecvResponse, CP!RecvResponse, C!Timers,
           CP!Timers, C!Network, CP!Network
<1>1. C!Go(c) => CP!Go(c)
  OBVIOUS
<1>2. C!DnsFailed(c) => CP!DnsFailed(c)
  OBVIOUS
<1>3. C!DnsUnsent(c) => CP!DnsUnsent(c)
  OBVIOUS
<1>4. C!DnsUnregistered(c) => CP!DnsUnregistered(c)
  OBVIOUS
<1>5. C!DnsSent(c) => CP!DnsSent(c)
  OBVIOUS
<1>6. C!Timers(c) => CP!Timers(c)
  OBVIOUS
<1>7. C!Network(c, p) => CP!Network(c, p)
  OBVIOUS
<1>8. C!DupZap(k) => CP!DupZap(k)
  OBVIOUS
<1> QED BY <1>1, <1>2, <1>3, <1>4, <1>5, <1>6, <1>7, <1>8

LEMMA SameServer ==
  ASSUME NEW s, NEW d, NEW k
  PROVE  /\ S!RecvDup(d) => SP!RecvDup(d)
         /\ S!RecvUnmatched(d) => SP!RecvUnmatched(d)
         /\ S!Request(s, d) => SP!Request(s, d)
         /\ S!RecvAck(s, d) => SP!RecvAck(s, d)
         /\ S!RecvUnexpected(s, d) => SP!RecvUnexpected(s, d)
         /\ S!Deferred(s) => SP!Deferred(s)
         /\ S!Retransmit(s) => SP!Retransmit(s)
         /\ S!DupZap(k) => SP!DupZap(k)
<1> USE DEF S!Keys, SP!Keys, S!Control, SP!Control, S!Datagram, SP!Datagram,
           S!Message, SP!Message, S!FinalState, SP!FinalState, S!SrvState,
           SP!SrvState, S!Event, SP!Event, S!Context, SP!Context, S!Unused,
           SP!Unused, S!CanEnter, SP!CanEnter, S!Key, SP!Key, S!Without,
           SP!Without, S!Unlinked, SP!Unlinked, S!SetState, SP!SetState,
           S!Piggyback, SP!Piggyback, S!Encoded, SP!Encoded, S!AfterEncode,
           SP!AfterEncode, S!Keep, SP!Keep, S!SendResp, SP!SendResp,
           S!ErrorReply, SP!ErrorReply, S!Receives, SP!Receives, S!Record,
           SP!Record, S!Called, SP!Called, S!RecvDup, SP!RecvDup,
           S!Open, SP!Open, S!NewRequest, SP!NewRequest, S!Accepted,
           SP!Accepted, S!BadOptions, SP!BadOptions, S!NotFound, SP!NotFound,
           S!Ready, SP!Ready, S!Error, SP!Error, S!SeparateAck, SP!SeparateAck,
           S!Wait, SP!Wait, S!WaitFails, SP!WaitFails, S!Pending, SP!Pending,
           S!Fired, SP!Fired, S!LateResponse, SP!LateResponse, S!Resched,
           SP!Resched, S!ReschedFails, SP!ReschedFails, S!UseAfterFree,
           SP!UseAfterFree, S!CoapTimeout, SP!CoapTimeout, S!CoapRetry,
           SP!CoapRetry, S!CoapRetryFails, SP!CoapRetryFails, S!Matches,
           SP!Matches, S!IsFirstMatch, SP!IsFirstMatch, S!RecvUnmatched,
           SP!RecvUnmatched, S!RecvAck, SP!RecvAck, S!RecvUnexpected,
           SP!RecvUnexpected, S!NoOrigin, SP!NoOrigin, S!Expired,
           SP!Expired, S!DupZap, SP!DupZap, S!Request, SP!Request,
           S!Deferred, SP!Deferred, S!Retransmit, SP!Retransmit
<1>1. S!RecvDup(d) => SP!RecvDup(d)
  OBVIOUS
<1>2. S!RecvUnmatched(d) => SP!RecvUnmatched(d)
  OBVIOUS
<1>3. S!Request(s, d) => SP!Request(s, d)
  OBVIOUS
<1>4. S!RecvAck(s, d) => SP!RecvAck(s, d)
  OBVIOUS
<1>5. S!RecvUnexpected(s, d) => SP!RecvUnexpected(s, d)
  OBVIOUS
<1>6. S!Deferred(s) => SP!Deferred(s)
  OBVIOUS
<1>7. S!Retransmit(s) => SP!Retransmit(s)
  BY Zenon
<1>8. S!DupZap(k) => SP!DupZap(k)
  OBVIOUS
<1> QED BY <1>1, <1>2, <1>3, <1>4, <1>5, <1>6, <1>7, <1>8

-----------------------------------------------------------------------------
(* What the two sides know of each other *)

(* The request of c has left. *)
Left(c) == ~dns[c] /\ sent[c] > 0

(* The phases of a client context, which is used once. *)
Idle(c)      == goes[c] = 0 /\ ~dns[c] /\ state[c] = "none" /\ sent[c] = 0
Resolving(c) == goes[c] > 0 /\ dns[c] /\ state[c] = "none" /\ sent[c] = 0
Waiting(c)   == goes[c] > 0 /\ Left(c) /\ state[c] \in {"req_sent", "req_ackd"}
Gone(c)      == goes[c] > 0 /\ ~dns[c] /\ state[c] = "freed"

(* The client base: no observations, no context is cancelled, the user     *)
(* knows of the end of those that are gone, and the ACK of a request that  *)
(* has been acknowledged has a record or has had one.                      *)
ClientSide ==
  /\ cproc # "errx"
  /\ \A c \in Clients :
       /\ ~on[c] /\ ~cancel[c]
       /\ \/ (Idle(c) \/ Resolving(c) \/ Waiting(c)) /\ result[c] = "none"
          \/ Gone(c) /\ result[c] \in {"answered", "failed"}
       /\ state[c] = "req_ackd" => cseen[mid[c]] # "no"

(* The server has only seen requests that have left. *)
ServerSide ==
  \A k \in S!Keys : calls[k] > 0 => k[2] = mid[k[1]] /\ Left(k[1])

(* A request that is on its way has left; what is on its way back is a     *)
(* reply to a request that was served, and an ACK is the ACK for it.       *)
Between ==
  /\ mid \in [Clients -> Mids \cup {0}]
  /\ result \in [Clients -> {"none", "answered", "failed"}]
  /\ \A c \in Clients : Left(c) => mid[c] \in Mids
  /\ toServer \subseteq ServerWire
  /\ \A d \in toServer :
       d.code = "request" => d.mid = mid[d.peer] /\ Left(d.peer)
  /\ toClient \subseteq [to : Clients, pdu : ClientPdus]
  /\ \A x \in toClient : /\ Left(x.to) /\ calls[<<x.to, mid[x.to]>>] > 0
                         /\ x.pdu.code = "ack" => x.pdu.key = mid[x.to]

LinkInv == ClientSide /\ ServerSide /\ Between

(* What each side keeps by itself. *)
ClientInv == CP!TypeOK /\ CP!TimersInv /\ CP!OwnInv
ServerInv == SP!ServerInv /\ SP!CallsInv /\ SP!KnownInv

-----------------------------------------------------------------------------
(* What a step of the client base does *)

(* Nothing to the other contexts, and nothing out of the ordinary. *)
Alone(c) ==
  /\ cproc' # "errx"
  /\ \A d \in Clients \ {c} :
       /\ state'[d] = state[d] /\ dns'[d] = dns[d] /\ goes'[d] = goes[d]
       /\ sent'[d] = sent[d] /\ told'[d] = told[d]
  /\ \A d \in Clients : ~on'[d] /\ ~cancel'[d]
  /\ \A k \in Mids : cseen'[k] = "no" => cseen[k] = "no"
  /\ cout' \subseteq {C!Req(c)} \cup {C!Ack(k) : k \in Mids}
  /\ goes'[c] = goes[c] /\ ~dns'[c]

(* The context ends, and its user is told, or it waits on. *)
Ends(c)  == state'[c] = "freed" /\ told'[c] = told[c] + 1
Waits(c) == /\ state'[c] \in {"req_sent", "req_ackd"} /\ told'[c] = told[c]
            /\ sent'[c] > 0

(* ec_client_set_state with a final state. *)
LEMMA FinalEnds ==
  ASSUME UserOwn = {}, CP!TypeOK, ClientSide, NEW c \in Clients, cproc = "up",
         NEW s \in CP!FinalState, NEW tm, NEW r, NEW head, NEW msgs,
         CP!Enter(c, s, tm, r, head, msgs)
  PROVE  /\ Ends(c) /\ cout' = msgs /\ cproc' # "errx"
         /\ \A d \in Clients \ {c} : state'[d] = state[d] /\ told'[d] = told[d]
<1>1. ~cancel[c]
  BY DEF ClientSide
<1>2. state \in [Clients -> CP!CliState] /\ told \in [Clients -> Nat]
  BY DEF CP!TypeOK, CP!FsmTypeOK
<1> QED BY <1>1, <1>2 DEF CP!Enter, CP!Reports, Ends

(* The same where the transition is checked. *)
LEMMA MoveEnds ==
  ASSUME UserOwn = {}, CP!TypeOK, ClientSide, NEW c \in Clients, cproc = "up",
         NEW s \in CP!FinalState, NEW tm, NEW r, NEW head, NEW msgs,
         CP!CanEnter(state[c], s), CP!SetState(c, s, tm, r, head, msgs)
  PROVE  /\ Ends(c) /\ cout' = msgs /\ cproc' # "errx"
         /\ \A d \in Clients \ {c} : state'[d] = state[d] /\ told'[d] = told[d]
BY FinalEnds DEF CP!SetState

(* ec_client_dns_cb: the request leaves or the context ends. *)
LEMMA ResolverEffect ==
  ASSUME UserOwn = {}, ClientInv, ClientSide, NEW c \in Clients,
         CP!DnsFailed(c) \/ CP!DnsUnsent(c) \/ CP!DnsUnregistered(c)
           \/ CP!DnsSent(c)
  PROVE  /\ Alone(c) /\ Resolving(c) /\ cseen' = cseen
         /\ state'[c] # "req_ackd"
         /\ Ends(c) \/ Waits(c)
         /\ C!Req(c) \in cout' => sent'[c] > 0
         /\ CP!DnsFailed(c) => sent'[c] = 0
<1>1. cproc = "up" /\ dns[c]
  BY DEF CP!DnsFailed, CP!DnsUnsent, CP!DnsUnregistered, CP!DnsSent
<1>2. Resolving(c)
  BY <1>1 DEF ClientSide, Idle, Resolving, Waiting, Gone, Left
<1>3. /\ CP!CanEnter(state[c], "dns_ok") /\ CP!CanEnter(state[c], "dns_failed")
      /\ "internal_err" \in CP!FinalState /\ "dns_failed" \in CP!FinalState
  BY <1>2 DEF Resolving, CP!CanEnter, CP!Startable, CP!FinalState
<1>4. /\ dns \in [Clients -> BOOLEAN] /\ sent \in [Clients -> Nat]
      /\ state \in [Clients -> CP!CliState] /\ told \in [Clients -> Nat]
  BY DEF ClientInv, CP!TypeOK, CP!FsmTypeOK, CP!RestTypeOK
<1>5. /\ dns' = [dns EXCEPT ![c] = FALSE] /\ goes' = goes /\ cseen' = cseen
      /\ on' = on /\ cancel' = cancel
  BY DEF CP!DnsFailed, CP!DnsUnsent, CP!DnsUnregistered, CP!DnsSent, CP!obsVars
<1>6. \A d \in Clients : ~on'[d] /\ ~cancel'[d]
  BY <1>5 DEF ClientSide
<1>7. \A k \in Mids : C!Ack(k) # C!Req(c)
  BY DEF C!Ack, C!Req
<1>8. CASE CP!DnsFailed(c)
  <2>1. /\ Ends(c) /\ cout' = {} /\ cproc' # "errx"
        /\ \A d \in Clients \ {c} : state'[d] = state[d] /\ told'[d] = told[d]
    BY <1>1, <1>3, <1>8, MoveEnds DEF CP!DnsFailed, CP!Move, ClientInv
  <2>2. sent' = sent
    BY <1>8 DEF CP!DnsFailed
  <2> QED BY <1>2, <1>4, <1>5, <1>6, <2>1, <2>2 DEF Alone, Resolving, Ends
<1>9. CASE CP!DnsUnsent(c)
  <2>1. /\ Ends(c) /\ cout' = {} /\ cproc' # "errx"
        /\ \A d \in Clients \ {c} : state'[d] = state[d] /\ told'[d] = told[d]
    BY <1>1, <1>3, <1>9, FinalEnds DEF CP!DnsUnsent, ClientInv
  <2>2. sent' = sent
    BY <1>9 DEF CP!DnsUnsent
  <2> QED BY <1>2, <1>4, <1>5, <1>6, <2>1, <2>2 DEF Alone, Resolving, Ends
<1>10. CASE CP!DnsUnregistered(c)
  <2>1. /\ Ends(c) /\ cout' = {C!Req(c)} /\ cproc' # "errx"
        /\ \A d \in Clients \ {c} : state'[d] = state[d] /\ told'[d] = told[d]
    BY <1>1, <1>3, <1>10, FinalEnds
    DEF CP!DnsUnregistered, ClientInv, CP!Req, C!Req
  <2>2. sent' = [sent EXCEPT ![c] = 1]
    BY <1>10 DEF CP!DnsUnregistered
  <2>3. ~CP!DnsFailed(c)
    <3>1. sent'[c] = 1 /\ sent[c] = 0
      BY <1>2, <1>4, <2>2 DEF Resolving
    <3> QED BY <3>1 DEF CP!DnsFailed
  <2> QED BY <1>2, <1>4, <1>5, <1>6, <2>1, <2>2, <2>3
          DEF Alone, Resolving, Ends
<1>11. CASE CP!DnsSent(c)
  <2>1. sent' = [sent EXCEPT ![c] = 1]
    BY <1>11 DEF CP!DnsSent
  <2>2. ~CP!DnsFailed(c)
    <3>1. sent'[c] = 1 /\ sent[c] = 0
      BY <1>2, <1>4, <2>1 DEF Resolving
    <3> QED BY <3>1 DEF CP!DnsFailed
  <2>3. armed[c] = {}
    BY <1>2 DEF Resolving, ClientInv, CP!TimersInv, CP!TimersMatchState,
       CP!TimersOf
  <2>4. /\ state' = [state EXCEPT ![c] = "req_sent"] /\ cproc' = cproc
        /\ told' = told /\ cout' = {C!Req(c)}
    BY <1>3, <1>11, <2>3 DEF CP!DnsSent, CP!Req, C!Req
  <2> QED BY <1>1, <1>2, <1>4, <1>5, <1>6, <2>1, <2>2, <2>4
          DEF Alone, Resolving, Waits
<1> QED BY <1>8, <1>9, <1>10, <1>11

(* The timers of a request in flight. *)
LEMMA TimerEffect ==
  ASSUME UserOwn = {}, ClientInv, ClientSide, NEW c \in Clients, CP!Timers(c)
  PROVE  /\ Alone(c) /\ Waiting(c) /\ cseen' = cseen /\ sent'[c] > 0
         /\ state'[c] = "req_ackd" => state[c] = "req_ackd"
         /\ Ends(c) \/ Waits(c)
<1>1. cproc = "up" /\ armed[c] # {}
  BY DEF CP!Timers, CP!CoapTimeout, CP!CoapRetry, CP!CoapRetryFails,
         CP!AppTimeout, CP!ObsTimeout
<1>2. /\ armed[c] = CP!TimersOf(c, state[c])
  BY DEF ClientInv, CP!TimersInv, CP!TimersMatchState
<1>3. Waiting(c)
  BY <1>1, <1>2 DEF ClientSide, Idle, Resolving, Waiting, Gone, CP!TimersOf
<1>4. /\ dns \in [Clients -> BOOLEAN] /\ sent \in [Clients -> Nat]
      /\ state \in [Clients -> CP!CliState] /\ told \in [Clients -> Nat]
  BY DEF ClientInv, CP!TypeOK, CP!FsmTypeOK, CP!RestTypeOK
<1>5. ~CP!ObsTimeout(c)
  BY <1>2, <1>3 DEF CP!ObsTimeout, CP!TimersOf, Waiting
<1>6. /\ dns' = dns /\ goes' = goes /\ cseen' = cseen /\ on' = on
      /\ cancel' = cancel
  BY <1>5 DEF CP!Timers, CP!CoapTimeout, CP!CoapRetry, CP!CoapRetryFails,
              CP!AppTimeout, CP!obsVars
<1>7. /\ \A d \in Clients : ~on'[d] /\ ~cancel'[d]
      /\ ~dns'[c]
  BY <1>3, <1>6 DEF ClientSide, Waiting, Left
<1>8. sent[c] > 0
  BY <1>3 DEF Waiting, Left
<1>9. CASE CP!AppTimeout(c) \/ CP!CoapTimeout(c)
  <2>1. PICK s \in {"app_timeout", "coap_timeout"} :
          CP!Move(c, s) /\ CP!CanEnter(state[c], s)
    <3>1. CASE CP!AppTimeout(c)
      BY <1>3, <3>1 DEF CP!AppTimeout, CP!CanEnter, CP!InFlight, Waiting
    <3>2. CASE CP!CoapTimeout(c)
      BY <1>2, <3>2 DEF CP!CoapTimeout, CP!CanEnter, CP!TimersOf
    <3> QED BY <1>9, <3>1, <3>2
  <2>2. s \in CP!FinalState
    BY DEF CP!FinalState
  <2>3. /\ Ends(c) /\ cout' = {} /\ cproc' # "errx"
        /\ \A d \in Clients \ {c} : state'[d] = state[d] /\ told'[d] = told[d]
    BY <1>1, <2>1, <2>2, MoveEnds DEF CP!Move, ClientInv
  <2>4. sent' = sent
    BY <1>9 DEF CP!AppTimeout, CP!CoapTimeout
  <2> QED BY <1>3, <1>6, <1>7, <1>8, <2>3, <2>4 DEF Alone, Ends
<1>10. CASE CP!CoapRetryFails(c)
  <2>1. CP!CanEnter(state[c], "coap_retry") /\ "send_failed" \in CP!FinalState
    BY <1>2, <1>10
    DEF CP!CoapRetryFails, CP!CanEnter, CP!TimersOf, CP!FinalState
  <2>2. /\ Ends(c) /\ cout' = {} /\ cproc' # "errx"
        /\ \A d \in Clients \ {c} : state'[d] = state[d] /\ told'[d] = told[d]
    BY <1>1, <1>10, <2>1, FinalEnds DEF CP!CoapRetryFails, ClientInv
  <2>3. sent' = sent
    BY <1>10 DEF CP!CoapRetryFails
  <2> QED BY <1>3, <1>6, <1>7, <1>8, <2>2, <2>3 DEF Alone, Ends
<1>11. CASE CP!CoapRetry(c)
  <2>1. CP!CanEnter(state[c], "coap_retry") /\ "req_sent" \notin CP!FinalState
    BY <1>2, <1>11 DEF CP!CoapRetry, CP!CanEnter, CP!TimersOf, CP!FinalState
  <2>2. CP!Enter(c, "req_sent", armed[c], retries[c] - 1, first[c],
                 {CP!Req(c)})
    BY <1>11, <2>1 DEF CP!CoapRetry
  <2>3. /\ state' = [state EXCEPT ![c] = "req_sent"] /\ cproc' = cproc
        /\ cout' = {C!Req(c)} /\ told' = [told EXCEPT ![c] = told[c]]
    BY <2>1, <2>2 DEF CP!Enter, CP!Reports, CP!Req, C!Req
  <2>4. sent' = [sent EXCEPT ![c] = @ + 1]
    BY <1>11 DEF CP!CoapRetry
  <2> QED BY <1>1, <1>3, <1>4, <1>6, <1>7, <1>8, <2>3, <2>4
          DEF Alone, Waits
<1> QED BY <1>5, <1>9, <1>10, <1>11 DEF CP!Timers

(* ec_client_handle_pdu, for a reply of the server. *)
LEMMA NetworkEffect ==
  ASSUME UserOwn = {}, ClientInv, LinkInv, NEW x \in toClient,
         CP!Network(x.to, x.pdu)
  PROVE  LET c == x.to IN
         /\ Alone(c) /\ Waiting(c) /\ sent'[c] > 0
         /\ state'[c] = "req_ackd" => cseen'[mid[c]] # "no"
         /\ Ends(c) \/ Waits(c)
<1> DEFINE c == x.to
           p == x.pdu
<1>1. c \in Clients /\ p \in ClientPdus
  BY DEF LinkInv, Between
<1>2. p.code \in {"ack", "content", "error500"} /\ p.ok /\ p.key \in Mids
  BY <1>1 DEF ClientPdus
<1>3. p.code = "ack" => p.key = mid[c]
  BY DEF LinkInv, Between
<1> HIDE DEF c, p
<1>4. CP!Network(c, p)
  BY DEF c, p
<1>5. CP!Receives(c, p)
  BY <1>4 DEF CP!Network, CP!RecvDup, CP!RecvBad, CP!RecvAck, CP!RecvRst,
     CP!RecvStale, CP!RecvNotification, CP!RecvResponse, CP!Good
<1>6. cproc = "up" /\ inputs[c] > 0
  BY <1>5 DEF CP!Receives
<1>7. ~on[c] /\ ~cancel[c]
  BY <1>1 DEF LinkInv, ClientSide
<1>8. Waiting(c)
  BY <1>1, <1>6
  DEF LinkInv, ClientSide, Idle, Resolving, Gone, ClientInv, CP!OwnInv,
      CP!InFlight
<1>9. /\ dns \in [Clients -> BOOLEAN] /\ sent \in [Clients -> Nat]
      /\ state \in [Clients -> CP!CliState] /\ told \in [Clients -> Nat]
      /\ cseen \in [Mids -> CP!DupRecord] /\ on \in [Clients -> BOOLEAN]
      /\ first[c] \in CP!Pdu \cup {NoPdu}
  BY <1>1 DEF ClientInv, CP!TypeOK, CP!FsmTypeOK, CP!RestTypeOK
<1>10. CP!RecvDup(c, p) \/ CP!RecvAck(c, p) \/ CP!RecvResponse(c, p)
  BY <1>2, <1>4, <1>7
  DEF CP!Network, CP!RecvBad, CP!RecvRst, CP!RecvStale, CP!RecvNotification,
      CP!Response
<1>11. /\ dns' = dns /\ goes' = goes /\ sent' = sent /\ cancel' = cancel
  BY <1>10 DEF CP!RecvDup, CP!RecvAck, CP!RecvResponse
<1>12. /\ sent[c] > 0 /\ ~dns'[c]
       /\ \A d \in Clients : ~on[d] /\ ~cancel'[d]
  BY <1>8, <1>11 DEF Waiting, Left, LinkInv, ClientSide
<1>13. state[c] \in {"req_sent", "req_ackd"}
  BY <1>8 DEF Waiting
<1>14. CASE CP!RecvDup(c, p)
  <2>1. /\ state' = state /\ told' = told /\ cseen' = cseen /\ on' = on
        /\ cproc' = cproc /\ cout' \subseteq {C!Ack(p.key)}
    BY <1>14 DEF CP!RecvDup, CP!obsVars, CP!Ack, C!Ack
  <2>2. state[c] = "req_ackd" => cseen[mid[c]] # "no"
    BY <1>1 DEF LinkInv, ClientSide
  <2>3. cout' \subseteq {C!Req(c)} \cup {C!Ack(k) : k \in Mids}
    BY <1>2, <2>1
  <2>4. Alone(c)
    BY <1>6, <1>11, <1>12, <2>1, <2>3 DEF Alone
  <2> QED BY <1>8, <1>11, <1>12, <1>13, <2>1, <2>2, <2>4 DEF Waits, c
<1>15. CASE CP!RecvAck(c, p)
  <2>1. cseen[mid[c]] = "no" /\ p.key = mid[c]
    BY <1>3, <1>15 DEF CP!RecvAck, CP!Fresh
  <2>2. state[c] = "req_sent"
    BY <1>1, <1>13, <2>1 DEF LinkInv, ClientSide
  <2>3. PICK tm : CP!Enter(c, "req_ackd", tm, retries[c], first[c], {})
    BY <1>15, <2>2 DEF CP!RecvAck, CP!SetState, CP!CanEnter
  <2>4. /\ state' = [state EXCEPT ![c] = "req_ackd"] /\ cproc' = cproc
        /\ told' = [told EXCEPT ![c] = told[c]] /\ cout' = {}
    BY <2>3 DEF CP!Enter, CP!Reports, CP!FinalState
  <2>5. cseen' = [cseen EXCEPT ![mid[c]] = "yes"] /\ on' = on
    BY <1>15, <2>1 DEF CP!RecvAck, CP!Record, CP!obsVars
  <2>6. cseen'[mid[c]] # "no" /\ \A k \in Mids : cseen'[k] = "no" => cseen[k] = "no"
    BY <1>2, <1>9, <2>1, <2>5
  <2>7. Alone(c)
    BY <1>6, <1>9, <1>11, <1>12, <2>4, <2>5, <2>6 DEF Alone
  <2> QED BY <1>1, <1>8, <1>9, <1>11, <1>12, <2>4, <2>6, <2>7 DEF Waits, c
<1>16. CASE CP!RecvResponse(c, p)
  <2> DEFINE head == CP!HeadWith(c, p)
             acks == state[c] = "req_ackd" /\ c \in Confirmable
             msgs == IF acks THEN {CP!Ack(head.key)} ELSE {}
  <2>1. CP!SetState(c, "req_done", armed[c], retries[c], head, msgs)
    BY <1>16 DEF CP!RecvResponse
  <2>2. head.key \in Mids
    BY <1>2, <1>9 DEF CP!HeadWith, CP!Pdu
  <2>3. CP!CanEnter(state[c], "req_done") /\ "req_done" \in CP!FinalState
    BY <1>13 DEF CP!CanEnter, CP!InFlight, CP!FinalState
  <2>4. \A k \in Mids : cseen'[k] = "no" => cseen[k] = "no"
    <3>1. CP!Record(p) = [cseen EXCEPT ![p.key] = "yes"]
      BY DEF CP!Record
    <3>2. CP!Record(p) \in [Mids -> CP!DupRecord]
      BY <1>2, <1>9, <3>1 DEF CP!DupRecord
    <3>3. cseen' = CP!Record(p) \/ cseen' = [CP!Record(p) EXCEPT ![head.key] = "replied"]
      BY <1>16 DEF CP!RecvResponse
    <3> QED BY <1>2, <1>9, <2>2, <3>1, <3>2, <3>3
  <2>5. on' = [on EXCEPT ![c] = FALSE]
    BY <1>16 DEF CP!RecvResponse
  <2>6. msgs \subseteq {C!Ack(k) : k \in Mids}
    BY <2>2 DEF CP!Ack, C!Ack
  <2> HIDE DEF head, msgs
  <2>7. /\ Ends(c) /\ cout' = msgs /\ cproc' # "errx"
        /\ \A d \in Clients \ {c} : state'[d] = state[d] /\ told'[d] = told[d]
    BY <1>1, <1>6, <2>1, <2>3, MoveEnds DEF LinkInv, ClientInv
  <2>8. \A d \in Clients : ~on'[d]
    BY <1>9, <1>12, <2>5
  <2>9. Alone(c)
    BY <1>11, <1>12, <2>4, <2>6, <2>7, <2>8 DEF Alone
  <2> QED BY <1>8, <1>11, <1>12, <2>7, <2>9 DEF Ends, c
<1> QED BY <1>10, <1>14, <1>15, <1>16

-----------------------------------------------------------------------------
(* What a step does to what the two sides know of each other *)

(* A request that has left stays so, with its MID, unless its context is   *)
(* used again.                                                             *)
Stays(c) == Left(c) => mid'[c] = mid[c] /\ sent'[c] > 0

LEMMA OnTheWire ==
  ASSUME NEW c \in Clients, NEW m \in Mids, NEW code \in {"request", "ack"},
         NEW con \in BOOLEAN
  PROVE  Datagram(c, m, code, con) \in ServerWire
BY DEF ServerWire

(* A step of context c on its request. *)
LEMMA ClientLink ==
  ASSUME ClientInv, LinkInv, NEW c \in Clients, Alone(c), goes[c] > 0,
         Ends(c) \/ Waits(c), state[c] # "freed", Stays(c),
         mid' \in [Clients -> Mids \cup {0}],
         \A d \in Clients \ {c} : mid'[d] = mid[d],
         sent'[c] > 0 => mid'[c] \in Mids,
         C!Req(c) \in cout' => sent'[c] > 0,
         state'[c] = "req_ackd" => cseen'[mid'[c]] # "no",
         NEW how \in {"answered", "failed"},
         Sent(c), Reported(c, how), UNCHANGED <<serverVars, toClient>>
  PROVE  LinkInv'
<1>1. /\ told \in [Clients -> Nat] /\ told'[c] \in Nat
      /\ result \in [Clients -> {"none", "answered", "failed"}]
  BY DEF ClientInv, CP!TypeOK, CP!FsmTypeOK, LinkInv, Between, Ends, Waits
<1>2. result'[c] = IF told'[c] > told[c] THEN how ELSE result[c]
  BY <1>1 DEF Reported
<1>3. /\ result' \in [Clients -> {"none", "answered", "failed"}]
      /\ \A d \in Clients \ {c} : result'[d] = result[d]
  BY <1>1 DEF Reported
<1>4. \A d \in Clients : Left(d) => mid'[d] = mid[d] /\ Left(d)'
  BY DEF Stays, Alone, Left
<1>5. ASSUME NEW d \in Clients
      PROVE  /\ \/ (Idle(d)' \/ Resolving(d)' \/ Waiting(d)') /\ result'[d] = "none"
                \/ Gone(d)' /\ result'[d] \in {"answered", "failed"}
             /\ state'[d] = "req_ackd" => cseen'[mid'[d]] # "no"
  <2>1. /\ \/ (Idle(d) \/ Resolving(d) \/ Waiting(d)) /\ result[d] = "none"
           \/ Gone(d) /\ result[d] \in {"answered", "failed"}
        /\ state[d] = "req_ackd" => cseen[mid[d]] # "no"
    BY DEF LinkInv, ClientSide
  <2>2. CASE d # c
    <3>1. /\ state'[d] = state[d] /\ dns'[d] = dns[d] /\ goes'[d] = goes[d]
          /\ sent'[d] = sent[d] /\ mid'[d] = mid[d] /\ result'[d] = result[d]
      BY <1>3, <2>2 DEF Alone
    <3>2. state[d] = "req_ackd" => mid[d] \in Mids
      BY <2>1 DEF Idle, Resolving, Waiting, Gone, LinkInv, Between
    <3> QED BY <2>1, <3>1, <3>2
            DEF Idle, Resolving, Waiting, Gone, Left, Alone
  <2>3. CASE d = c /\ Ends(c)
    BY <1>1, <1>2, <2>3 DEF Ends, Gone, Alone
  <2>4. CASE d = c /\ Waits(c)
    <3>1. result[c] = "none"
      BY <2>1, <2>4 DEF Gone
    <3>2. result'[c] = "none"
      BY <1>1, <1>2, <2>4, <3>1 DEF Waits
    <3> QED BY <2>4, <3>2 DEF Waits, Waiting, Left, Alone
  <2> QED BY <2>2, <2>3, <2>4
<1>6. ClientSide'
  BY <1>5 DEF ClientSide, Alone
<1>7. ServerSide'
  <2> SUFFICES ASSUME NEW k \in S!Keys, calls'[k] > 0
               PROVE  k[2] = mid'[k[1]] /\ Left(k[1])'
    BY DEF ServerSide
  <2>1. k[1] \in Clients
    BY DEF S!Keys
  <2>2. calls' = calls
    BY DEF serverVars
  <2>3. k[2] = mid[k[1]] /\ Left(k[1])
    BY <2>2 DEF LinkInv, ServerSide
  <2> QED BY <1>4, <2>1, <2>3
<1>8. \A d \in Clients : Left(d)' => mid'[d] \in Mids
  BY DEF Left, Alone, LinkInv, Between
<1>9. ASSUME NEW d \in toServer'
      PROVE  /\ d \in ServerWire
             /\ d.code = "request" => d.mid = mid'[d.peer] /\ Left(d.peer)'
  <2>1. CASE d \in toServer
    <3>1. d \in ServerWire
      BY <2>1 DEF LinkInv, Between
    <3>2. d.peer \in Clients
      BY <3>1 DEF ServerWire, Datagram
    <3> QED BY <1>4, <2>1, <3>1, <3>2 DEF LinkInv, Between
  <2>2. CASE d \notin toServer
    <3>1. PICK msg \in cout' : d = ToServer(c, msg)
      BY <2>2 DEF Sent
    <3>2. CASE msg = C!Req(c)
      <4>1. d = Datagram(c, mid'[c], "request", c \in Confirmable)
        BY <3>1, <3>2 DEF ToServer
      <4>2. sent'[c] > 0 /\ mid'[c] \in Mids
        BY <3>2
      <4>3. d.mid = mid'[c] /\ d.peer = c
        BY <4>1 DEF Datagram
      <4>4. d \in ServerWire
        <5>1. (c \in Confirmable) \in BOOLEAN
          OBVIOUS
        <5> QED BY <4>1, <4>2, <5>1, OnTheWire
      <4> QED BY <4>2, <4>3, <4>4 DEF Left, Alone
    <3>3. CASE msg # C!Req(c)
      <4>1. PICK k \in Mids : msg = C!Ack(k)
        BY <3>3 DEF Alone
      <4>2. d = Datagram(c, k, "ack", FALSE)
        BY <3>1, <3>3, <4>1 DEF ToServer, C!Ack
      <4>3. d.code = "ack"
        BY <4>2 DEF Datagram
      <4>4. d \in ServerWire
        BY <4>2, OnTheWire
      <4> QED BY <4>3, <4>4
    <3> QED BY <3>2, <3>3
  <2> QED BY <2>1, <2>2
<1>10. ASSUME NEW x \in toClient'
       PROVE  /\ x \in [to : Clients, pdu : ClientPdus]
              /\ Left(x.to)' /\ calls'[<<x.to, mid'[x.to]>>] > 0
              /\ x.pdu.code = "ack" => x.pdu.key = mid'[x.to]
  <2>1. x \in toClient /\ calls' = calls
    BY <1>10 DEF serverVars
  <2>2. /\ x.to \in Clients /\ Left(x.to) /\ calls[<<x.to, mid[x.to]>>] > 0
        /\ x.pdu.code = "ack" => x.pdu.key = mid[x.to]
        /\ x \in [to : Clients, pdu : ClientPdus]
    BY <2>1 DEF LinkInv, Between
  <2>3. mid'[x.to] = mid[x.to] /\ Left(x.to)'
    BY <1>4, <2>2
  <2> QED BY <2>1, <2>2, <2>3
<1>11. Between'
  BY <1>3, <1>8, <1>9, <1>10 DEF Between
<1> QED BY <1>6, <1>7, <1>11 DEF LinkInv

(* A callback of the server base, or a timer of it. *)
LEMMA ServerLink ==
  ASSUME LinkInv, ServerInv, ServerInv', Replied,
         UNCHANGED <<clientVars, mid, toServer, result>>,
         \/ calls' = calls
         \/ \E d \in toServer :
              /\ d.code = "request"
              /\ calls' = [calls EXCEPT ![<<d.peer, d.mid>>] = @ + 1]
  PROVE  LinkInv'
<1>1. ClientSide'
  BY DEF LinkInv, ClientSide, Idle, Resolving, Waiting, Gone, Left, clientVars
<1>2. \A c : Left(c)' <=> Left(c)
  BY DEF Left, clientVars
<1>3. /\ calls \in [Clients \X Mids -> Nat]
      /\ calls' \in [Clients \X Mids -> Nat]
      /\ sout' \subseteq SP!Message
  BY DEF ServerInv, SP!ServerInv, SP!DataInv, SP!Keys
<1>4. ASSUME NEW k \in Clients \X Mids, calls'[k] > 0
      PROVE  k[2] = mid[k[1]] /\ Left(k[1])
  <2>1. CASE calls[k] > 0
    BY <2>1 DEF LinkInv, ServerSide, S!Keys
  <2>2. CASE ~(calls[k] > 0)
    <3>1. PICK d \in toServer :
            /\ d.code = "request"
            /\ calls' = [calls EXCEPT ![<<d.peer, d.mid>>] = @ + 1]
      BY <1>4, <2>2
    <3>2. k = <<d.peer, d.mid>>
      BY <1>3, <1>4, <2>2, <3>1
    <3> QED BY <3>1, <3>2 DEF LinkInv, Between
  <2> QED BY <2>1, <2>2
<1>5. ServerSide'
  BY <1>2, <1>4 DEF ServerSide, S!Keys
<1>6. ASSUME NEW k \in Clients \X Mids, calls[k] > 0 PROVE calls'[k] > 0
  <2>1. CASE calls' = calls
    BY <1>6, <2>1
  <2>2. ASSUME NEW key, calls' = [calls EXCEPT ![key] = @ + 1]
        PROVE  calls'[k] > 0
    <3>1. CASE k = key
      BY <1>3, <1>6, <2>2, <3>1
    <3>2. CASE k # key
      BY <1>3, <1>6, <2>2, <3>2
    <3> QED BY <3>1, <3>2
  <2> QED BY <2>1, <2>2
<1>7. ASSUME NEW x \in toClient'
      PROVE  /\ x \in [to : Clients, pdu : ClientPdus]
             /\ Left(x.to) /\ calls'[<<x.to, mid[x.to]>>] > 0
             /\ x.pdu.code = "ack" => x.pdu.key = mid[x.to]
  <2>1. CASE x \in toClient
    <3>1. /\ x.to \in Clients /\ Left(x.to) /\ calls[<<x.to, mid[x.to]>>] > 0
          /\ x.pdu.code = "ack" => x.pdu.key = mid[x.to]
          /\ x \in [to : Clients, pdu : ClientPdus]
          /\ mid[x.to] \in Mids
      BY <2>1 DEF LinkInv, Between
    <3>2. <<x.to, mid[x.to]>> \in Clients \X Mids
      BY <3>1
    <3> QED BY <1>6, <3>1, <3>2
  <2>2. CASE x \notin toClient
    <3>1. PICK msg \in sout' : x = ToClient(msg)
      BY <2>2 DEF Replied
    <3>2. /\ msg.re \in Clients \X Mids /\ msg.mid \in Mids
          /\ msg.code \in {"empty", "response", "error"}
      BY <1>3 DEF SP!Message, SP!Keys
    <3>3. calls'[msg.re] > 0 /\ (msg.code = "empty" => msg.mid = msg.re[2])
      BY DEF ServerInv, SP!KnownInv, SP!Owed, SP!Known
    <3>4. msg.re[2] = mid[msg.re[1]] /\ Left(msg.re[1])
      BY <1>4, <3>2, <3>3
    <3>5. msg.re = <<msg.re[1], mid[msg.re[1]]>> /\ msg.re[1] \in Clients
      BY <3>2, <3>4
    <3> DEFINE code == CASE msg.code = "empty" -> "ack"
                         [] msg.code = "response" -> "content"
                         [] msg.code = "error" -> "error500"
    <3>6. /\ code \in {"ack", "content", "error500"}
          /\ code = "ack" => msg.code = "empty"
      BY <3>2
    <3>7. x = [to |-> msg.re[1],
               pdu |-> [key |-> msg.mid, ok |-> TRUE, obs |-> NoObserve,
                        code |-> code]]
      BY <3>1 DEF ToClient
    <3> HIDE DEF code
    <3>8. x.to = msg.re[1] /\ x.pdu.code = code /\ x.pdu.key = msg.mid
      BY <3>7
    <3>9. x \in [to : Clients, pdu : ClientPdus]
      BY <3>2, <3>5, <3>6, <3>7 DEF ClientPdus
    <3> QED BY <3>3, <3>4, <3>5, <3>6, <3>8, <3>9
  <2> QED BY <2>1, <2>2
<1>8. Between'
  BY <1>2, <1>7 DEF LinkInv, Between
<1> QED BY <1>1, <1>5, <1>8 DEF LinkInv

(* The first step of a context: evdns is asked. *)
LEMMA GoLink ==
  ASSUME ClientInv, LinkInv, NEW c \in Clients, CP!Go(c),
         result' = [result EXCEPT ![c] = "none"],
         UNCHANGED <<serverVars, mid, toServer, toClient>>
  PROVE  /\ LinkInv' /\ Idle(c) /\ Resolving(c)'
         /\ \A d \in Clients \ {c} :
              /\ dns'[d] = dns[d] /\ goes'[d] = goes[d] /\ sent'[d] = sent[d]
              /\ result'[d] = result[d]
<1>1. Idle(c)
  BY DEF LinkInv, ClientSide, Waiting, Gone, Resolving, CP!Go, CP!Startable,
     CP!FinalState
<1>2. /\ dns \in [Clients -> BOOLEAN] /\ goes \in [Clients -> Nat]
      /\ sent \in [Clients -> Nat] /\ calls' = calls
      /\ result \in [Clients -> {"none", "answered", "failed"}]
  BY DEF ClientInv, CP!TypeOK, CP!RestTypeOK, LinkInv, Between, serverVars
<1>3. /\ dns' = [dns EXCEPT ![c] = TRUE] /\ goes' = [goes EXCEPT ![c] = @ + 1]
      /\ sent' = [sent EXCEPT ![c] = 0] /\ cproc' = cproc /\ state' = state
      /\ on' = on /\ cancel' = cancel /\ cseen' = cseen
  BY DEF CP!Go, CP!obsVars
<1>4. Resolving(c)' /\ result'[c] = "none"
  BY <1>1, <1>2, <1>3 DEF Idle, Resolving
<1>5. \A d \in Clients \ {c} :
        /\ dns'[d] = dns[d] /\ goes'[d] = goes[d] /\ sent'[d] = sent[d]
        /\ result'[d] = result[d]
  BY <1>2, <1>3
<1>6. \A d \in Clients : Left(d)' <=> Left(d)
  BY <1>1, <1>4, <1>5 DEF Left, Idle, Resolving
<1>7. ClientSide'
  <2> SUFFICES ASSUME NEW d \in Clients
               PROVE  \/ /\ Idle(d)' \/ Resolving(d)' \/ Waiting(d)'
                         /\ result'[d] = "none"
                      \/ Gone(d)' /\ result'[d] \in {"answered", "failed"}
    BY <1>3 DEF LinkInv, ClientSide
  <2>1. CASE d = c
    BY <1>4, <2>1
  <2>2. CASE d # c
    BY <1>3, <1>5, <2>2
    DEF LinkInv, ClientSide, Idle, Resolving, Waiting, Gone, Left
  <2> QED BY <2>1, <2>2
<1>8. ServerSide'
  <2> SUFFICES ASSUME NEW k \in S!Keys, calls'[k] > 0
               PROVE  k[2] = mid'[k[1]] /\ Left(k[1])'
    BY DEF ServerSide
  <2>1. k[1] \in Clients
    BY DEF S!Keys
  <2> QED BY <1>2, <1>6, <2>1 DEF LinkInv, ServerSide
<1>9. Between'
  <2>1. \A d \in toServer : d.peer \in Clients
    BY DEF LinkInv, Between, ServerWire, Datagram
  <2>2. \A x \in toClient : x.to \in Clients
    BY DEF LinkInv, Between
  <2>3. result' \in [Clients -> {"none", "answered", "failed"}]
    BY <1>2
  <2> QED BY <1>2, <1>6, <2>1, <2>2, <2>3 DEF LinkInv, Between
<1> QED BY <1>1, <1>4, <1>5, <1>7, <1>8, <1>9 DEF LinkInv

-----------------------------------------------------------------------------
(* The contract *)

(* One request moves as RequestContract says. *)
LEMMA ContractStep ==
  ASSUME NEW c \in Clients,
         \A d \in Clients \ {c} : /\ StatusOf(d)' = StatusOf(d)
                                  /\ ServedOf(d)' = ServedOf(d),
         \/ StatusOf(c)' = StatusOf(c) /\ ServedOf(c)' = ServedOf(c)
         \/ /\ StatusOf(c) # "pending"
            /\ StatusOf(c)' = "pending" /\ ServedOf(c)' = 0
         \/ /\ StatusOf(c) # "idle" /\ ServedOf(c) = 0
            /\ StatusOf(c)' = StatusOf(c) /\ ServedOf(c)' = 1
         \/ /\ StatusOf(c) = "pending" /\ ServedOf(c) = 1
            /\ StatusOf(c)' = "answered" /\ ServedOf(c)' = ServedOf(c)
         \/ /\ StatusOf(c) = "pending"
            /\ StatusOf(c)' = "failed" /\ ServedOf(c)' = ServedOf(c)
  PROVE  [Promise!Next]_(Promise!vars)
<1> DEFINE st == [d \in Clients |-> StatusOf(d)]
           sv == [d \in Clients |-> ServedOf(d)]
<1>1. /\ st' = [st EXCEPT ![c] = StatusOf(c)'] /\ st[c] = StatusOf(c)
      /\ sv' = [sv EXCEPT ![c] = ServedOf(c)'] /\ sv[c] = ServedOf(c)
  OBVIOUS
<1>2. /\ StatusOf(c)' = StatusOf(c) => st' = st
      /\ ServedOf(c)' = ServedOf(c) => sv' = sv
  OBVIOUS
<1>3. CASE StatusOf(c)' = StatusOf(c) /\ ServedOf(c)' = ServedOf(c)
  BY <1>2, <1>3 DEF Promise!vars
<1>4. CASE /\ StatusOf(c) # "pending"
           /\ StatusOf(c)' = "pending" /\ ServedOf(c)' = 0
  BY <1>1, <1>4 DEF Promise!Next, Promise!Start
<1>5. CASE /\ StatusOf(c) # "idle" /\ ServedOf(c) = 0
           /\ StatusOf(c)' = StatusOf(c) /\ ServedOf(c)' = 1
  BY <1>1, <1>2, <1>5 DEF Promise!Next, Promise!Serve
<1>6. CASE /\ StatusOf(c) = "pending" /\ ServedOf(c) = 1
           /\ StatusOf(c)' = "answered" /\ ServedOf(c)' = ServedOf(c)
  BY <1>1, <1>2, <1>6 DEF Promise!Next, Promise!Answer
<1>7. CASE /\ StatusOf(c) = "pending"
           /\ StatusOf(c)' = "failed" /\ ServedOf(c)' = ServedOf(c)
  BY <1>1, <1>2, <1>7 DEF Promise!Next, Promise!Fail
<1> QED BY <1>3, <1>4, <1>5, <1>6, <1>7

(* What the user sees of the phases of a context. *)
LEMMA StatusIs ==
  ASSUME ClientInv, LinkInv, NEW c \in Clients
  PROVE  /\ Idle(c) => StatusOf(c) = "idle"
         /\ Resolving(c) \/ Waiting(c) => StatusOf(c) = "pending"
         /\ Gone(c) => StatusOf(c) = result[c]
         /\ Left(c) => goes[c] > 0 /\ StatusOf(c) # "idle"
<1>1. /\ goes[c] \in Nat
      /\ \/ (Idle(c) \/ Resolving(c) \/ Waiting(c)) /\ result[c] = "none"
         \/ Gone(c) /\ result[c] \in {"answered", "failed"}
  BY DEF ClientInv, CP!TypeOK, CP!RestTypeOK, LinkInv, ClientSide
<1>2. goes[c] = 0 => StatusOf(c) = "idle"
  BY DEF StatusOf
<1>3. goes[c] > 0 /\ result[c] = "none" => StatusOf(c) = "pending"
  BY <1>1 DEF StatusOf
<1>4. goes[c] > 0 /\ result[c] # "none" => StatusOf(c) = result[c]
  BY <1>1 DEF StatusOf
<1> QED BY <1>1, <1>2, <1>3, <1>4 DEF Idle, Resolving, Waiting, Gone, Left

(* A context that nothing has happened to. *)
LEMMA SameStatus ==
  ASSUME NEW d, dns'[d] = dns[d], goes'[d] = goes[d], sent'[d] = sent[d],
         result'[d] = result[d], mid'[d] = mid[d],
         Left(d) => calls'[<<d, mid[d]>>] = calls[<<d, mid[d]>>],
         sent[d] \in Nat
  PROVE  StatusOf(d)' = StatusOf(d) /\ ServedOf(d)' = ServedOf(d)
BY DEF StatusOf, ServedOf, Left

(* A step of a context on its request ends it, as failed or as answered by *)
(* a server that has served it, or shows nothing.                          *)
LEMMA ClientContract ==
  ASSUME ClientInv, ClientInv', LinkInv, ServerInv, NEW c \in Clients,
         Alone(c), Resolving(c) \/ Waiting(c), Ends(c) \/ Waits(c), Stays(c),
         mid' \in [Clients -> Mids \cup {0}],
         \A d \in Clients \ {c} : mid'[d] = mid[d],
         sent'[c] > 0 => mid'[c] \in Mids,
         NEW how \in {"answered", "failed"},
         how = "answered" => Waiting(c) /\ calls[<<c, mid[c]>>] > 0,
         Reported(c, how), calls' = calls
  PROVE  [Promise!Next]_(Promise!vars)
<1>1. /\ told \in [Clients -> Nat] /\ sent \in [Clients -> Nat]
      /\ sent'[c] \in Nat
      /\ result \in [Clients -> {"none", "answered", "failed"}]
  BY DEF ClientInv, CP!TypeOK, CP!FsmTypeOK, CP!RestTypeOK, LinkInv, Between
<1>2. /\ result'[c] = IF told'[c] > told[c] THEN how ELSE result[c]
      /\ \A d \in Clients \ {c} : result'[d] = result[d]
  BY <1>1 DEF Reported
<1>3. \A d \in Clients \ {c} : /\ StatusOf(d)' = StatusOf(d)
                               /\ ServedOf(d)' = ServedOf(d)
  BY <1>1, <1>2, SameStatus DEF Alone
<1>4. StatusOf(c) = "pending"
  BY StatusIs
<1>5. calls \in [Clients \X Mids -> Nat]
  BY DEF ServerInv, SP!ServerInv, SP!DataInv, SP!Keys
<1>6. ServedOf(c)' = ServedOf(c)
  <2>1. CASE Resolving(c)
    <3>1. ServedOf(c) = 0
      BY <2>1 DEF ServedOf, Resolving
    <3>2. CASE sent'[c] > 0
      <4>1. <<c, mid'[c]>> \in S!Keys
        BY <3>2 DEF S!Keys
      <4>2. ~(calls[<<c, mid'[c]>>] > 0)
        BY <2>1, <4>1 DEF LinkInv, ServerSide, Resolving, Left
      <4>3. calls'[<<c, mid'[c]>>] = 0
        BY <1>5, <4>1, <4>2 DEF S!Keys
      <4> QED BY <3>1, <4>3 DEF ServedOf
    <3>3. CASE ~(sent'[c] > 0)
      BY <1>1, <3>1, <3>3 DEF ServedOf
    <3> QED BY <3>2, <3>3
  <2>2. CASE Waiting(c)
    <3>1. Left(c) /\ mid'[c] = mid[c] /\ sent'[c] > 0 /\ ~dns'[c]
      BY <2>2 DEF Waiting, Stays, Alone
    <3> QED BY <3>1 DEF ServedOf, Left
  <2> QED BY <2>1, <2>2
<1>g. goes'[c] > 0 /\ goes'[c] \in Nat
  BY DEF Alone, Resolving, Waiting, ClientInv, CP!TypeOK, CP!RestTypeOK
<1>7. CASE Waits(c)
  <2>1. result[c] = "none"
    BY DEF LinkInv, ClientSide, Resolving, Waiting, Gone, Left
  <2>2. StatusOf(c)' = "pending"
    <3>1. result'[c] = "none" /\ goes'[c] > 0 /\ goes'[c] \in Nat
      BY <1>1, <1>2, <1>7, <1>g, <2>1 DEF Waits
    <3> QED BY <3>1 DEF StatusOf
  <2> QED BY <1>3, <1>4, <1>6, <2>2, ContractStep
<1>8. CASE Ends(c)
  <2>1. result'[c] = how
    BY <1>1, <1>2, <1>8 DEF Ends
  <2>2. StatusOf(c)' = how
    BY <1>g, <2>1 DEF StatusOf
  <2>3. ASSUME how = "answered" PROVE ServedOf(c) = 1
    <3>1. Left(c) /\ calls[<<c, mid[c]>>] > 0 /\ mid[c] \in Mids
      BY <2>3 DEF Waiting, LinkInv, Between
    <3>2. calls[<<c, mid[c]>>] \in Nat /\ calls[<<c, mid[c]>>] <= 1
      BY <1>5, <3>1 DEF ServerInv, SP!CallsInv, SP!Keys
    <3> QED BY <3>1, <3>2 DEF ServedOf, Left
  <2> QED BY <1>3, <1>4, <1>6, <2>2, <2>3, ContractStep
<1> QED BY <1>7, <1>8

(* The server serves a request, or shows nothing. *)
LEMMA ServerContract ==
  ASSUME ClientInv, LinkInv, ServerInv, ServerInv',
         UNCHANGED <<clientVars, mid, toServer, result>>,
         \/ calls' = calls
         \/ \E d \in toServer :
              /\ d.code = "request"
              /\ calls' = [calls EXCEPT ![<<d.peer, d.mid>>] = @ + 1]
  PROVE  [Promise!Next]_(Promise!vars)
<1>1. dns' = dns /\ goes' = goes /\ sent' = sent
  BY DEF clientVars
<1>2. /\ calls \in [Clients \X Mids -> Nat]
      /\ \A k \in Clients \X Mids : calls'[k] <= 1
      /\ sent \in [Clients -> Nat]
  BY DEF ServerInv, SP!ServerInv, SP!DataInv, SP!CallsInv, SP!Keys,
     ClientInv, CP!TypeOK, CP!RestTypeOK
<1>3. CASE calls' = calls
  <2>1. \A c : StatusOf(c)' = StatusOf(c) /\ ServedOf(c)' = ServedOf(c)
    BY <1>1, <1>3 DEF StatusOf, ServedOf
  <2> QED BY <2>1 DEF Promise!vars
<1>4. ASSUME NEW d \in toServer, d.code = "request",
             calls' = [calls EXCEPT ![<<d.peer, d.mid>>] = @ + 1]
      PROVE  [Promise!Next]_(Promise!vars)
  <2> DEFINE c == d.peer
             k == <<d.peer, d.mid>>
  <2>1. c \in Clients /\ d.mid \in Mids
    BY DEF LinkInv, Between, ServerWire, Datagram
  <2>2. d.mid = mid[c] /\ Left(c)
    BY <1>4 DEF LinkInv, Between
  <2>3. calls'[k] = calls[k] + 1 /\ calls[k] \in Nat /\ calls'[k] <= 1
    BY <1>2, <1>4, <2>1
  <2>4. ServedOf(c) = 0 /\ ServedOf(c)' = 1
    BY <1>1, <2>2, <2>3 DEF ServedOf, Left
  <2>5. StatusOf(c)' = StatusOf(c) /\ StatusOf(c) # "idle"
    <3>1. StatusOf(c) # "idle"
      BY <2>1, <2>2, StatusIs
    <3> QED BY <1>1, <3>1 DEF StatusOf
  <2>6. ASSUME NEW e \in Clients \ {c}
        PROVE  StatusOf(e)' = StatusOf(e) /\ ServedOf(e)' = ServedOf(e)
    <3>1. <<e, mid[e]>> # k
      OBVIOUS
    <3>2. ASSUME Left(e) PROVE calls'[<<e, mid[e]>>] = calls[<<e, mid[e]>>]
      <4>1. <<e, mid[e]>> \in Clients \X Mids
        BY <3>2 DEF LinkInv, Between
      <4> QED BY <1>2, <1>4, <3>1, <4>1
    <3> QED BY <1>1, <1>2, <3>2, SameStatus
  <2> HIDE DEF c
  <2> QED BY <2>1, <2>4, <2>5, <2>6, ContractStep
<1> QED BY <1>3, <1>4

-----------------------------------------------------------------------------
(* The invariant, step by step *)

(* No context outlives its request, and a URI of a request leads to a      *)
(* resource or to the fallback of the base.                                *)
PlainUse == UserOwn = {} /\ "notfound" \notin FirstRc

ExchangeInv == ClientInv /\ ServerInv /\ LinkInv

LEMMA ClientKeeps ==
  ASSUME UserOwn = {}, ClientInv, [CP!Next]_(CP!vars)
  PROVE  ClientInv'
BY ClientSound, CP!TypeStep, CP!TimersStep, CP!OwnStep DEF ClientInv

LEMMA ServerKeeps ==
  ASSUME PlainUse, ServerInv, [SP!Next]_(SP!vars)
  PROVE  ServerInv'
<1>1. SP!Served
  BY DEF SP!Served, PlainUse, ServerWire, Datagram
<1>2. SP!CoreInv' /\ SP!DataInv'
  BY ServerSound, SP!CoreStep, SP!DataStep DEF ServerInv, SP!ServerInv
<1>3. SP!CallsInv'
  BY ServerSound, SP!CallsStep DEF ServerInv, SP!Keys
<1>4. SP!KnownInv'
  BY <1>1, ServerSound, SP!KnownStep DEF ServerInv, SP!ServerInv
<1> QED BY <1>2, <1>3, <1>4 DEF ServerInv, SP!ServerInv

(* One side stands still. *)
LEMMA ClientStill ==
  ASSUME ClientInv, UNCHANGED clientVars, UserOwn = {}
  PROVE  ClientInv'
<1>1. UNCHANGED CP!vars
  BY DEF clientVars, CP!vars, CP!fsmVars, CP!obsVars
<1> QED BY <1>1, ClientKeeps

LEMMA ServerStill ==
  ASSUME ServerInv, UNCHANGED serverVars, PlainUse
  PROVE  ServerInv'
<1>1. UNCHANGED SP!vars
  BY DEF serverVars, SP!vars
<1> QED BY <1>1, ServerKeeps

(* What a step of the whole has to do. *)
Kept == ExchangeInv' /\ [Promise!Next]_(Promise!vars)

LEMMA GoStep ==
  ASSUME PlainUse, ExchangeInv, NEW c \in Clients, Go(c)
  PROVE  Kept
<1>1. CP!Go(c)
  BY SameClient DEF Go
<1>2. ClientInv'
  BY <1>1, ClientKeeps DEF CP!Next, CP!User, PlainUse, ExchangeInv
<1>3. ServerInv'
  BY ServerStill DEF Go, ExchangeInv
<1>4. /\ LinkInv' /\ Idle(c) /\ Resolving(c)'
      /\ \A d \in Clients \ {c} :
           /\ dns'[d] = dns[d] /\ goes'[d] = goes[d] /\ sent'[d] = sent[d]
           /\ result'[d] = result[d]
  BY <1>1, GoLink DEF Go, ExchangeInv
<1>5. mid' = mid /\ calls' = calls
  BY DEF Go, serverVars
<1>6. sent \in [Clients -> Nat] /\ result \in [Clients -> {"none", "answered", "failed"}]
  BY DEF ExchangeInv, ClientInv, CP!TypeOK, CP!RestTypeOK, LinkInv, Between
<1>7. \A d \in Clients \ {c} : /\ StatusOf(d)' = StatusOf(d)
                               /\ ServedOf(d)' = ServedOf(d)
  BY <1>4, <1>5, <1>6, SameStatus
<1>8. StatusOf(c) = "idle"
  BY <1>4, StatusIs DEF ExchangeInv
<1>9. StatusOf(c)' = "pending" /\ ServedOf(c)' = 0
  <2>1. result'[c] = "none" /\ goes'[c] > 0 /\ dns'[c]
    BY <1>4, <1>6 DEF Go, Resolving
  <2>2. goes'[c] \in Nat
    BY <1>2 DEF ClientInv, CP!TypeOK, CP!RestTypeOK
  <2> QED BY <2>1, <2>2 DEF StatusOf, ServedOf
<1> QED BY <1>2, <1>3, <1>4, <1>7, <1>8, <1>9, ContractStep
        DEF Kept, ExchangeInv

LEMMA ResolvedStep ==
  ASSUME PlainUse, ExchangeInv, NEW c \in Clients, Resolved(c)
  PROVE  Kept
<1>1. CP!DnsFailed(c) \/ CP!DnsUnsent(c) \/ CP!DnsUnregistered(c)
        \/ CP!DnsSent(c)
  BY SameClient DEF Resolved
<1>2. ClientInv'
  BY <1>1, ClientKeeps DEF CP!Next, CP!Resolver, PlainUse, ExchangeInv
<1>3. ServerInv'
  BY ServerStill DEF Resolved, ExchangeInv
<1>4. /\ Alone(c) /\ Resolving(c) /\ cseen' = cseen
      /\ state'[c] # "req_ackd"
      /\ Ends(c) \/ Waits(c)
      /\ C!Req(c) \in cout' => sent'[c] > 0
      /\ CP!DnsFailed(c) => sent'[c] = 0
  BY <1>1, ResolverEffect DEF PlainUse, ExchangeInv, LinkInv
<1>5. mid \in [Clients -> Mids \cup {0}]
  BY DEF ExchangeInv, LinkInv, Between
<1>6. /\ mid' \in [Clients -> Mids \cup {0}]
      /\ \A d \in Clients \ {c} : mid'[d] = mid[d]
      /\ sent'[c] > 0 => mid'[c] \in Mids
  <2>1. CASE C!DnsFailed(c) /\ UNCHANGED mid
    <3>1. sent'[c] = 0
      BY <1>4, <2>1, SameClient
    <3> QED BY <1>5, <2>1, <3>1
  <2>2. ASSUME NEW m \in Mids, mid' = [mid EXCEPT ![c] = m]
        PROVE  /\ mid' \in [Clients -> Mids \cup {0}]
               /\ \A d \in Clients \ {c} : mid'[d] = mid[d]
               /\ mid'[c] \in Mids
    BY <1>5, <2>2
  <2> QED BY <2>1, <2>2 DEF Resolved
<1>7. Stays(c) /\ state[c] # "freed" /\ goes[c] > 0
  BY <1>4 DEF Stays, Resolving, Left
<1>8. /\ Sent(c) /\ Reported(c, "failed") /\ calls' = calls
      /\ UNCHANGED <<serverVars, toClient>>
  BY DEF Resolved, serverVars
<1>9. LinkInv'
  BY <1>4, <1>6, <1>7, <1>8, ClientLink DEF ExchangeInv
<1>10. [Promise!Next]_(Promise!vars)
  BY <1>2, <1>4, <1>6, <1>7, <1>8, ClientContract DEF ExchangeInv
<1> QED BY <1>2, <1>3, <1>9, <1>10 DEF Kept, ExchangeInv

LEMMA TimerStep ==
  ASSUME PlainUse, ExchangeInv, NEW c \in Clients, ClientTimer(c)
  PROVE  Kept
<1>1. CP!Timers(c)
  BY SameClient DEF ClientTimer
<1>2. ClientInv'
  BY <1>1, ClientKeeps DEF CP!Next, PlainUse, ExchangeInv
<1>3. ServerInv'
  BY ServerStill DEF ClientTimer, ExchangeInv
<1>4. /\ Alone(c) /\ Waiting(c) /\ cseen' = cseen /\ sent'[c] > 0
      /\ state'[c] = "req_ackd" => state[c] = "req_ackd"
      /\ Ends(c) \/ Waits(c)
  BY <1>1, TimerEffect DEF PlainUse, ExchangeInv, LinkInv
<1>5. /\ mid' = mid /\ Sent(c) /\ Reported(c, "failed") /\ calls' = calls
      /\ UNCHANGED <<serverVars, toClient>>
  BY DEF ClientTimer, serverVars
<1>6. /\ mid' \in [Clients -> Mids \cup {0}] /\ mid'[c] \in Mids
      /\ state'[c] = "req_ackd" => cseen'[mid'[c]] # "no"
  BY <1>4, <1>5 DEF ExchangeInv, LinkInv, Between, ClientSide, Waiting
<1>7. Stays(c) /\ state[c] # "freed" /\ goes[c] > 0
  BY <1>4, <1>5 DEF Stays, Waiting
<1>8. LinkInv'
  BY <1>4, <1>5, <1>6, <1>7, ClientLink DEF ExchangeInv
<1>9. [Promise!Next]_(Promise!vars)
  BY <1>2, <1>4, <1>5, <1>6, <1>7, ClientContract DEF ExchangeInv
<1> QED BY <1>2, <1>3, <1>8, <1>9 DEF Kept, ExchangeInv

LEMMA ReceiveStep ==
  ASSUME PlainUse, ExchangeInv, NEW c \in Clients, ClientReceives(c)
  PROVE  Kept
<1>1. PICK x \in toClient : x.to = c /\ CP!Network(x.to, x.pdu)
  BY SameClient DEF ClientReceives
<1>2. ClientInv'
  <2>1. x.pdu \in ClientPdus
    BY DEF ExchangeInv, LinkInv, Between
  <2>2. CP!Next
    BY <1>1, <2>1 DEF CP!Next
  <2> QED BY <2>2, ClientKeeps DEF PlainUse, ExchangeInv
<1>3. ServerInv'
  BY ServerStill DEF ClientReceives, ExchangeInv
<1>4. /\ Alone(c) /\ Waiting(c) /\ sent'[c] > 0
      /\ state'[c] = "req_ackd" => cseen'[mid[c]] # "no"
      /\ Ends(c) \/ Waits(c)
  BY <1>1, NetworkEffect DEF PlainUse, ExchangeInv
<1>5. /\ mid' = mid /\ Sent(c) /\ Reported(c, "answered") /\ calls' = calls
      /\ UNCHANGED <<serverVars, toClient>>
  BY DEF ClientReceives, serverVars
<1>6. /\ mid' \in [Clients -> Mids \cup {0}] /\ mid'[c] \in Mids
      /\ calls[<<c, mid[c]>>] > 0
  BY <1>1, <1>4, <1>5 DEF ExchangeInv, LinkInv, Between, Waiting
<1>7. Stays(c) /\ state[c] # "freed" /\ goes[c] > 0
  BY <1>4, <1>5 DEF Stays, Waiting
<1>8. LinkInv'
  BY <1>4, <1>5, <1>6, <1>7, ClientLink DEF ExchangeInv
<1>9. [Promise!Next]_(Promise!vars)
  BY <1>2, <1>4, <1>5, <1>6, <1>7, ClientContract DEF ExchangeInv
<1> QED BY <1>2, <1>3, <1>8, <1>9 DEF Kept, ExchangeInv

(* A step of the server base: only a new request calls the user. *)
LEMMA ServerStep ==
  ASSUME PlainUse, ExchangeInv,
         ServerReceives \/ \E s \in Contexts : ServerTimer(s)
  PROVE  Kept
<1>1. Replied /\ UNCHANGED <<clientVars, mid, toServer, result>>
  BY DEF ServerReceives, ServerTimer
<1>2. toServer \subseteq ServerWire
  BY DEF ExchangeInv, LinkInv, Between
<1>3. SP!Next
  BY <1>2, SameServer DEF ServerReceives, ServerTimer, SP!Next
<1>4. ServerInv'
  BY <1>3, ServerKeeps DEF ExchangeInv
<1>5. ClientInv'
  BY <1>1, ClientStill DEF ExchangeInv, PlainUse
<1>6. \/ calls' = calls
      \/ \E d \in toServer :
           /\ d.code = "request"
           /\ calls' = [calls EXCEPT ![<<d.peer, d.mid>>] = @ + 1]
  <2>1. ASSUME NEW s \in Contexts, ServerTimer(s) PROVE calls' = calls
    BY <2>1
    DEF ServerTimer, S!Deferred, S!Resched, S!ReschedFails, S!UseAfterFree,
        S!Retransmit, S!CoapTimeout, S!CoapRetry, S!CoapRetryFails
  <2>2. ASSUME NEW d \in toServer, S!RecvDup(d) \/ S!RecvUnmatched(d)
        PROVE  calls' = calls
    BY <2>2 DEF S!RecvDup, S!RecvUnmatched
  <2>3. ASSUME NEW d \in toServer, NEW s \in Contexts,
               S!RecvAck(s, d) \/ S!RecvUnexpected(s, d)
        PROVE  calls' = calls
    BY <2>3 DEF S!RecvAck, S!RecvUnexpected
  <2>4. ASSUME NEW d \in toServer, NEW s \in Contexts, S!Request(s, d)
        PROVE  /\ d.code = "request"
               /\ \/ calls' = calls
                  \/ calls' = [calls EXCEPT ![<<d.peer, d.mid>>] = @ + 1]
    BY <2>4
    DEF S!Request, S!BadOptions, S!NotFound, S!Ready, S!Error, S!Wait,
        S!WaitFails, S!NewRequest, S!Called, S!Key
  <2> QED BY <2>1, <2>2, <2>3, <2>4 DEF ServerReceives
<1>7. LinkInv'
  BY <1>1, <1>4, <1>6, ServerLink DEF ExchangeInv
<1>8. [Promise!Next]_(Promise!vars)
  BY <1>1, <1>4, <1>6, ServerContract DEF ExchangeInv
<1> QED BY <1>4, <1>5, <1>7, <1>8 DEF Kept, ExchangeInv

(* A duplicate record of either side goes. *)
LEMMA ExpiryStep ==
  ASSUME PlainUse, ExchangeInv, RecordExpires
  PROVE  Kept
<1>1. ASSUME NEW m \in Mids, C!DupZap(m), UNCHANGED serverVars
      PROVE  Kept
  <2>1. CP!DupZap(m)
    BY <1>1, SameClient
  <2>2. ClientInv'
    BY <2>1, ClientKeeps DEF CP!Next, PlainUse, ExchangeInv
  <2>3. ServerInv'
    BY <1>1, ServerStill DEF ExchangeInv
  <2>4. /\ cproc' = cproc /\ state' = state /\ dns' = dns /\ goes' = goes
        /\ sent' = sent /\ on' = on /\ cancel' = cancel
        /\ cseen' = [cseen EXCEPT ![m] = "expired"]
    BY <2>1 DEF CP!DupZap, CP!obsVars
  <2>5. /\ mid' = mid /\ toServer' = toServer /\ toClient' = toClient
        /\ result' = result /\ calls' = calls
    BY <1>1 DEF RecordExpires, serverVars
  <2>6. cseen \in [Mids -> CP!DupRecord]
    BY DEF ExchangeInv, ClientInv, CP!TypeOK, CP!RestTypeOK
  <2>7. ASSUME NEW c \in Clients, state'[c] = "req_ackd"
        PROVE  cseen'[mid'[c]] # "no"
    <3>1. cseen[mid[c]] # "no" /\ mid[c] \in Mids
      BY <2>4, <2>7 DEF ExchangeInv, LinkInv, ClientSide, Between, Idle,
         Resolving, Waiting, Gone
    <3> QED BY <2>4, <2>5, <2>6, <3>1
  <2>8. ClientSide'
    BY <2>4, <2>5, <2>7
    DEF ExchangeInv, LinkInv, ClientSide, Idle, Resolving, Waiting, Gone, Left
  <2>9. ServerSide' /\ Between'
    BY <2>4, <2>5 DEF ExchangeInv, LinkInv, ServerSide, Between, Left
  <2>10. \A c : StatusOf(c)' = StatusOf(c) /\ ServedOf(c)' = ServedOf(c)
    BY <2>4, <2>5 DEF StatusOf, ServedOf
  <2>11. UNCHANGED Promise!vars
    BY <2>10 DEF Promise!vars
  <2> QED BY <2>2, <2>3, <2>8, <2>9, <2>11 DEF Kept, ExchangeInv, LinkInv
<1>2. ASSUME NEW k \in S!Keys, S!DupZap(k), UNCHANGED clientVars
      PROVE  Kept
  <2>1. SP!DupZap(k) /\ k \in SP!Keys
    BY <1>2, SameServer DEF S!Keys, SP!Keys
  <2>2. ServerInv'
    BY <2>1, ServerKeeps DEF SP!Next, ExchangeInv
  <2>3. ClientInv'
    BY <1>2, ClientStill DEF ExchangeInv, PlainUse
  <2>4. /\ calls' = calls /\ Replied
        /\ UNCHANGED <<clientVars, mid, toServer, result>>
    BY <1>2, <2>1 DEF RecordExpires, Replied, SP!DupZap
  <2>5. LinkInv'
    BY <2>2, <2>4, ServerLink DEF ExchangeInv
  <2>6. [Promise!Next]_(Promise!vars)
    BY <2>2, <2>4, ServerContract DEF ExchangeInv
  <2> QED BY <2>2, <2>3, <2>5, <2>6 DEF Kept, ExchangeInv
<1> QED BY <1>1, <1>2 DEF RecordExpires

LEMMA ExchangeStep ==
  ASSUME PlainUse, ExchangeInv, [Next]_vars
  PROVE  Kept
<1>1. CASE UNCHANGED vars
  <2>1. ClientInv' /\ ServerInv'
    BY <1>1, ClientStill, ServerStill DEF vars, ExchangeInv, PlainUse
  <2>2. LinkInv'
    BY <1>1
    DEF vars, clientVars, serverVars, ExchangeInv, LinkInv, ClientSide,
        ServerSide, Between, Idle, Resolving, Waiting, Gone, Left
  <2>3. \A c : StatusOf(c)' = StatusOf(c) /\ ServedOf(c)' = ServedOf(c)
    BY <1>1 DEF vars, clientVars, serverVars, StatusOf, ServedOf
  <2>4. UNCHANGED Promise!vars
    BY <2>3 DEF Promise!vars
  <2> QED BY <2>1, <2>2, <2>4 DEF Kept, ExchangeInv
<1> QED BY <1>1, GoStep, ResolvedStep, TimerStep, ReceiveStep, ServerStep,
           ExpiryStep DEF Next

LEMMA ExchangeInit ==
  ASSUME Init
  PROVE  ExchangeInv
<1>1. ClientInv
  <2>1. CP!Init
    BY DEF Init, C!Init, CP!Init, C!NoObs, CP!NoObs
  <2>2. CP!TypeOK
    BY <2>1, ClientSound
    DEF CP!Init, CP!TypeOK, CP!FsmTypeOK, CP!RestTypeOK, CP!CliState,
        CP!DupRecord, CP!NoObs, CP!ClientAssumption, NoObserve
  <2>3. CP!TimersInv /\ CP!OwnInv
    BY <2>1
    DEF CP!Init, CP!TimersInv, CP!AtRest, CP!TimersMatchState, CP!TimersOf,
        CP!Startable, CP!OwnInv
  <2> QED BY <2>2, <2>3 DEF ClientInv
<1>2. ServerInv
  <2>1. SP!Init
    BY DEF Init, S!Init, SP!Init, S!Keys, SP!Keys, S!Unused, SP!Unused,
       S!NoOrigin, SP!NoOrigin
  <2>2. SP!ServerInv
    BY <2>1, ServerSound, SP!ServerInit
  <2>3. SP!CallsInv
    BY <2>1 DEF SP!Init, SP!CallsInv
  <2>4. SP!KnownInv
    BY <2>1 DEF SP!Init, SP!KnownInv, SP!Unused
  <2> QED BY <2>2, <2>3, <2>4 DEF ServerInv
<1>3. LinkInv
  <2>1. /\ cproc = "up" /\ sout = {} /\ toServer = {} /\ toClient = {}
        /\ \A c \in Clients : /\ ~on[c] /\ ~cancel[c] /\ Idle(c)
                              /\ result[c] = "none"
        /\ \A k \in S!Keys : calls[k] = 0
    BY DEF Init, C!Init, S!Init, Idle
  <2>2. ClientSide
    BY <2>1 DEF ClientSide, Idle
  <2>3. ServerSide
    BY <2>1 DEF ServerSide
  <2>4. Between
    BY <2>1 DEF Between, Init, Idle, Left
  <2> QED BY <2>2, <2>3, <2>4 DEF LinkInv
<1> QED BY <1>1, <1>2, <1>3 DEF ExchangeInv

LEMMA ExchangeInvariant ==
  ASSUME PlainUse
  PROVE  Init /\ [][Next]_vars => []ExchangeInv
<1>1. Init => ExchangeInv
  BY ExchangeInit
<1>2. ExchangeInv /\ [Next]_vars => ExchangeInv'
  BY ExchangeStep DEF Kept
<1> QED BY <1>1, <1>2, PTL

-----------------------------------------------------------------------------
(* The two sides together *)

(* However the network loses, copies and reorders their datagrams, and     *)
(* however many message IDs collide, neither side sends the other what the *)
(* check of a transition (ec_client_set_state, ec_server_set_state) would  *)
(* end the process for.                                                    *)
THEOREM NeverRefused ==
  ASSUME PlainUse
  PROVE  Spec => []NeitherExits
<1>1. ExchangeInv => NeitherExits
  BY DEF ExchangeInv, LinkInv, ClientSide, ServerInv, SP!ServerInv, SP!CoreInv,
     NeitherExits
<1>2. Spec => Init /\ [][Next]_vars
  BY PTL DEF Spec
<1> QED BY <1>1, <1>2, ExchangeInvariant, PTL

(* The two sides implement RequestContract, for any number of clients,     *)
(* server contexts and retransmissions: each of their steps serves a       *)
(* request for the first time, ends one that has not ended, as answered    *)
(* only if it was served, starts one, or shows nothing to the two users.   *)
THEOREM KeepsContract ==
  ASSUME PlainUse
  PROVE  Spec => Promise!Init /\ [][Promise!Next]_(Promise!vars)
<1>1. Init => Promise!Init
  <2> SUFFICES ASSUME Init PROVE Promise!Init
    OBVIOUS
  <2>1. \A c \in Clients : goes[c] = 0 /\ sent[c] = 0
    BY DEF Init, C!Init
  <2>2. ASSUME NEW c \in Clients PROVE StatusOf(c) = "idle" /\ ServedOf(c) = 0
    <3>1. StatusOf(c) = "idle"
      BY <2>1 DEF StatusOf
    <3>2. ServedOf(c) = 0
      BY <2>1 DEF ServedOf
    <3> QED BY <3>1, <3>2
  <2> QED BY <2>2 DEF Promise!Init
<1>2. ExchangeInv /\ [Next]_vars => [Promise!Next]_(Promise!vars)
  BY ExchangeStep DEF Kept
<1>3. Spec => Init /\ [][Next]_vars
  BY PTL DEF Spec
<1> QED BY <1>1, <1>2, <1>3, ExchangeInvariant, PTL
=============================================================================
