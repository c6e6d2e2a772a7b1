---------------------------- MODULE EvcoapClient ----------------------------
(***************************************************************************)
(* The client side of evcoap: the contexts (ec_client_t) of one CoAP base, *)
(* their finite state machine, their three timers, the Observe bookkeeping *)
(* and the duplicate records that incoming datagrams go through.           *)
(*                                                                         *)
(* evcoap runs in one libevent loop, so every callback (evdns answer,      *)
(* timer, readable socket) and every API call of the user is one action.   *)
(* Time is abstract: an armed timer may fire at any moment, which covers   *)
(* every application timeout a user may ask for.                           *)
(***************************************************************************)
EXTENDS Naturals

CONSTANTS
  Clients,        \* client contexts
  UserOwn,        \* those created with userown == true
  Confirmable,    \* those whose requests are CON
  Observers,      \* those whose requests carry the Observe option
  Keys,           \* (MID, peer) pairs, the keys of the duplicate records
  Prompt,         \* keys no copy of which arrives once its record has expired
  Pdus,           \* [Clients -> sets of datagrams that the peer may send it]
  NoPdu,          \* an empty response set
  MaxRetransmit,  \* EC_COAP_MAX_RETRANSMIT
  CntMod,         \* modulus of the Observe counter, 2^16 in the code
  MaxGo           \* bound: calls of ec_client_go per context

(* What ec_client_handle_pdu tells apart in a datagram that has a valid    *)
(* header and no request code.                                             *)
Empty    == {"ack", "rst", "ping"}              \* Code 0, by message type
Response == {"content", "deleted", "error500"}  \* 2.05 & co., 2.02, 5.00
NoObs    == CntMod                              \* no Observe option
Pdu      == [key  : Keys,
             code : Empty \cup Response,
             ok   : BOOLEAN,    \* options parse and the Token, if any, matches
             obs  : 0 .. CntMod]

ASSUME ClientAssumption ==
  /\ UserOwn \subseteq Clients
  /\ Confirmable \subseteq Clients
  /\ Observers \subseteq Clients
  /\ Prompt \subseteq Keys
  /\ Pdus \in [Clients -> SUBSET Pdu]
  /\ NoPdu \notin Pdu
  /\ MaxRetransmit \in Nat \ {0}
  /\ CntMod \in Nat \ {0}
  /\ MaxGo \in Nat

VARIABLES
  proc,     \* the process: "up", "errx" (it exited) or "segv" (it crashed)
  state,    \* [Clients -> CliState], "freed" once the context is deallocated
  dns,      \* [Clients -> BOOLEAN]: an evdns request will call back
  armed,    \* [Clients -> SUBSET Timer]: timers pending in the event base
  retries,  \* [Clients -> 0..MaxRetransmit]: retries_left of the CoAP timer
  listed,   \* [Clients -> Nat]: links to the context in the clients' list
  inputs,   \* [Clients -> Nat]: persistent read events that call the context
  first,    \* [Clients -> Pdu \cup {NoPdu}]: first PDU of the response set
  on,       \* [Clients -> BOOLEAN]: observe.on
  cancel,   \* [Clients -> BOOLEAN]: observe.cancel
  last,     \* [Clients -> 0..CntMod-1]: observe.last_cnt
  recent,   \* [Clients -> BOOLEAN]: observe.last_ts is under 2^14 s ago
  seen,     \* [Keys -> DupRecord]: duplicate records, by key
  out,      \* what the last step sent: "req", or the key an ACK or RST mirrors
  goes,     \* [Clients -> 0..MaxGo]: calls of ec_client_go so far
  \* Histories of the transaction in progress, for the properties.
  sent,     \* [Clients -> Nat]: transmissions of the request
  told,     \* [Clients -> Nat]: user callbacks made in a final state
  shown     \* [Clients -> 0..CntMod]: counter last shown to the user

obsVars  == <<on, last, recent>>
fsmVars  == <<proc, state, armed, retries, listed, inputs, first, out, told>>
vars     == <<fsmVars, obsVars, dns, cancel, seen, goes, sent, shown>>

Timer == {"app", "coap", "obs"}

(* ec_client_state_is_final *)
FinalState == {"internal_err", "dns_failed", "send_failed", "coap_timeout",
               "app_timeout", "req_done", "req_rst", "obs_timeout"}

(* dns_ok and coap_retry are left within the callback that enters them.    *)
CliState == FinalState \cup
            {"none", "dns_ok", "req_sent", "req_ackd", "coap_retry",
             "wait_nfy", "freed"}

(* No record, a record, a record with the ACK sent, a record come and gone *)
DupRecord == {"no", "yes", "replied", "expired"}

Startable == FinalState \cup {"none"}
InFlight  == {"req_sent", "req_ackd", "wait_nfy"}

(* ec_client_check_transition *)
CanEnter(cur, next) ==
  \/ next = "internal_err"
  \/ next = "dns_failed" /\ cur = "none"
  \/ next = "dns_ok" /\ cur \in Startable
  \/ next \in {"send_failed", "req_sent"} /\ cur \in {"dns_ok", "coap_retry"}
  \/ next \in {"req_ackd", "coap_retry", "coap_timeout"} /\ cur = "req_sent"
  \/ next \in {"app_timeout", "req_done", "req_rst", "wait_nfy"}
       /\ cur \in InFlight
  \/ next = "obs_timeout" /\ cur = "wait_nfy"

Ack(k) == <<"ack", k>>
Rst(k) == <<"rst", k>>
Req(c) == <<"req", c>>
Messages == {Ack(k) : k \in Keys} \cup {Rst(k) : k \in Keys}
              \cup {Req(c) : c \in Clients}

Init ==
  /\ proc = "up"
  /\ state = [c \in Clients |-> "none"]
  /\ dns = [c \in Clients |-> FALSE]
  /\ armed = [c \in Clients |-> {}]
  /\ retries = [c \in Clients |-> 0]
  /\ listed = [c \in Clients |-> 0]
  /\ inputs = [c \in Clients |-> 0]
  /\ first = [c \in Clients |-> NoPdu]
  /\ on = [c \in Clients |-> FALSE]
  /\ cancel = [c \in Clients |-> FALSE]
  /\ last = [c \in Clients |-> 0]
  /\ recent = [c \in Clients |-> FALSE]
  /\ seen = [k \in Keys |-> "no"]
  /\ out = {}
  /\ goes = [c \in Clients |-> 0]
  /\ sent = [c \in Clients |-> 0]
  /\ told = [c \in Clients |-> 0]
  /\ shown = [c \in Clients |-> NoObs]

-----------------------------------------------------------------------------
(* The state machine *)

(* The process ends inside a handler; its memory no longer matters.        *)
Die(how) ==
  /\ proc' = how
  /\ out' = {}
  /\ UNCHANGED <<state, armed, retries, listed, inputs, first, told>>

(* ec_client_free unlinks the context from the list, which is only sound   *)
(* for a context that is on it: TAILQ_REMOVE of one that never was writes  *)
(* through its null back link, unless the list is empty.                   *)
FreeCrashes(c) == listed[c] = 0 /\ \E d \in Clients : listed[d] > 0

(* Mutant: ec_client_unregister is forgotten. *)
UnlinkForgets(f, c, drop) == f

(* Drop one reference to c, if there is one and drop holds. *)
Unlink(f, c, drop) ==
  IF drop /\ f[c] > 0 THEN [f EXCEPT ![c] = @ - 1] ELSE f

(* The user is called back with a final state unless she has cancelled.    *)
Reports(c, s) == s \in FinalState /\ ~cancel[c]

(* ec_client_set_state once the transition has been accepted and its own   *)
(* timers and messages dealt with: tm are the timers now pending, r the    *)
(* retries left, head the first PDU of the response set, msgs what has     *)
(* been sent.  A final state, or a notification for an observation that    *)
(* the user has cancelled, ends the transaction.                           *)
Enter(c, s, tm, r, head, msgs) ==
  LET notify == s \in FinalState \/ s = "wait_nfy"
      ends   == s \in FinalState \/ (notify /\ cancel[c])
      free   == ends /\ c \notin UserOwn
  IN /\ proc' = IF free /\ FreeCrashes(c) THEN "segv" ELSE proc
     /\ state' = [state EXCEPT ![c] = IF free THEN "freed" ELSE s]
     /\ armed' = [armed EXCEPT ![c] = IF ends THEN {} ELSE tm]
     /\ retries' = [retries EXCEPT
                      ![c] = IF ends \/ "coap" \notin tm THEN 0 ELSE r]
     /\ listed' = Unlink(listed, c, free)
     /\ inputs' = Unlink(inputs, c, free)
     /\ first' = [first EXCEPT
                    ![c] = IF ends \/ s = "wait_nfy" THEN NoPdu ELSE head]
     /\ out' = msgs \cup IF notify /\ cancel[c] /\ head # NoPdu
                         THEN {Rst(head.key)} ELSE {}
     /\ told' = [told EXCEPT
                   ![c] = IF Reports(c, s) THEN @ + 1 ELSE @]

(* ec_client_set_state from the state at rest.  "Should never happen !"    *)
SetState(c, s, tm, r, head, msgs) ==
  IF CanEnter(state[c], s) THEN Enter(c, s, tm, r, head, msgs) ELSE Die("errx")

(* A transition without timers or messages of its own. *)
Move(c, s) == SetState(c, s, armed[c], retries[c], first[c], {})

-----------------------------------------------------------------------------
(* API calls of the user *)

(* ec_client_go on a context that may be used: evdns is asked to resolve   *)
(* the destination.  A user does not send again before evdns has answered. *)
Go(c) ==
  /\ proc = "up" /\ state[c] \in Startable /\ ~dns[c] /\ goes[c] < MaxGo
  /\ dns' = [dns EXCEPT ![c] = TRUE]
  /\ goes' = [goes EXCEPT ![c] = @ + 1]
  /\ sent' = [sent EXCEPT ![c] = 0]
  /\ told' = [told EXCEPT ![c] = 0]
  /\ shown' = [shown EXCEPT ![c] = NoObs]
  /\ out' = {}
  /\ UNCHANGED <<proc, state, armed, retries, listed, inputs, first,
                 obsVars, cancel, seen>>

(* Mutant: a context may be used only once, also by its owner. *)
GoOnceOnly(c) ==
  /\ proc = "up" /\ state[c] \in FinalState \cup InFlight /\ goes[c] < MaxGo
  /\ goes' = [goes EXCEPT ![c] = @ + 1]
  /\ Move(c, "internal_err")
  /\ UNCHANGED <<obsVars, dns, cancel, seen, sent, shown>>

(* ec_client_go on a context whose request is still in flight. *)
GoBusy(c) ==
  /\ proc = "up" /\ state[c] \in InFlight /\ goes[c] < MaxGo
  /\ goes' = [goes EXCEPT ![c] = @ + 1]
  /\ Move(c, "internal_err")
  /\ UNCHANGED <<obsVars, dns, cancel, seen, sent, shown>>

(* ec_client_cancel_observation: only a flag, read by the next set_state. *)
Cancel(c) ==
  /\ proc = "up" /\ state[c] # "freed" /\ ~cancel[c]
  /\ cancel' = [cancel EXCEPT ![c] = TRUE]
  /\ out' = {}
  /\ UNCHANGED <<proc, state, armed, retries, listed, inputs, first, told,
                 obsVars, dns, seen, goes, sent, shown>>

(* ec_client_free by the owner of the context, between two transactions. *)
UserFree(c) ==
  /\ proc = "up" /\ c \in UserOwn /\ state[c] \in Startable /\ ~dns[c]
  /\ proc' = IF FreeCrashes(c) THEN "segv" ELSE proc
  /\ state' = [state EXCEPT ![c] = "freed"]
  /\ listed' = Unlink(listed, c, TRUE)
  /\ inputs' = Unlink(inputs, c, TRUE)
  /\ first' = [first EXCEPT ![c] = NoPdu]
  /\ out' = {}
  /\ UNCHANGED <<armed, retries, told, obsVars, dns, cancel, seen, goes,
                 sent, shown>>

-----------------------------------------------------------------------------
(* ec_client_dns_cb *)

DnsFailed(c) ==
  /\ proc = "up" /\ dns[c]
  /\ dns' = [dns EXCEPT ![c] = FALSE]
  /\ Move(c, "dns_failed")
  /\ UNCHANGED <<obsVars, cancel, seen, goes, sent, shown>>

(* Mutant: the error path returns without a word. *)
DnsUnsentSilent(c) ==
  /\ proc = "up" /\ dns[c]
  /\ dns' = [dns EXCEPT ![c] = FALSE]
  /\ state' = [state EXCEPT ![c] = "dns_ok"]
  /\ out' = {}
  /\ UNCHANGED <<proc, armed, retries, listed, inputs, first, told, obsVars,
                 cancel, seen, goes, sent, shown>>

(* The request cannot be encoded, or cannot be sent to any address. *)
DnsUnsent(c) ==
  /\ proc = "up" /\ dns[c]
  /\ dns' = [dns EXCEPT ![c] = FALSE]
  /\ IF CanEnter(state[c], "dns_ok")
     THEN Enter(c, "internal_err", armed[c], retries[c], first[c], {})
     ELSE Die("errx")
  /\ UNCHANGED <<obsVars, cancel, seen, goes, sent, shown>>

(* The request has left, but its socket cannot be made nonblocking or the  *)
(* read event cannot be added.                                             *)
DnsUnregistered(c) ==
  /\ proc = "up" /\ dns[c]
  /\ dns' = [dns EXCEPT ![c] = FALSE]
  /\ sent' = [sent EXCEPT ![c] = 1]
  /\ IF CanEnter(state[c], "dns_ok")
     THEN Enter(c, "internal_err", armed[c], retries[c], first[c], {Req(c)})
     ELSE Die("errx")
  /\ UNCHANGED <<obsVars, cancel, seen, goes, shown>>

(* REQ_SENT after DNS_OK: the application timer and, for CON, the CoAP     *)
(* timer start; a timer that is already pending is refused.  Then          *)
(* ec_client_register adds a read event and a link in the list.            *)
DnsSent(c) ==
  /\ proc = "up" /\ dns[c]
  /\ dns' = [dns EXCEPT ![c] = FALSE]
  /\ IF CanEnter(state[c], "dns_ok") /\ "app" \notin armed[c]
     THEN /\ proc' = proc
          /\ state' = [state EXCEPT ![c] = "req_sent"]
          /\ armed' = [armed EXCEPT
               ![c] = @ \cup {"app"} \cup IF c \in Confirmable THEN {"coap"}
                                                               ELSE {}]
          /\ retries' = [retries EXCEPT
               ![c] = IF c \in Confirmable THEN MaxRetransmit ELSE @]
          /\ listed' = [listed EXCEPT ![c] = @ + 1]
          /\ inputs' = [inputs EXCEPT ![c] = @ + 1]
          /\ out' = {Req(c)}
          /\ UNCHANGED <<first, told>>
     ELSE Die("errx")
  /\ sent' = [sent EXCEPT ![c] = 1]
  /\ UNCHANGED <<obsVars, cancel, seen, goes, shown>>

-----------------------------------------------------------------------------
(* Timers *)

(* ec_cli_coap_timeout with no retransmission left. *)
CoapTimeout(c) ==
  /\ proc = "up" /\ "coap" \in armed[c] /\ retries[c] = 0
  /\ Move(c, "coap_timeout")
  /\ UNCHANGED <<obsVars, dns, cancel, seen, goes, sent, shown>>

(* Mutant: retries_left is not looked at. *)
CoapRetryUnbounded(c) ==
  /\ proc = "up" /\ "coap" \in armed[c]
  /\ Enter(c, "req_sent", armed[c], retries[c] - 1, first[c], {Req(c)})
  /\ sent' = [sent EXCEPT ![c] = @ + 1]
  /\ UNCHANGED <<obsVars, dns, cancel, seen, goes, shown>>

(* Mutant: the timer is restarted without one retry less. *)
CoapRetryUncounted(c) ==
  /\ proc = "up" /\ "coap" \in armed[c] /\ retries[c] > 0
  /\ Enter(c, "req_sent", armed[c], retries[c], first[c], {Req(c)})
  /\ sent' = [sent EXCEPT ![c] = @ + 1]
  /\ UNCHANGED <<obsVars, dns, cancel, seen, goes, shown>>

(* ec_cli_coap_timeout: COAP_RETRY, then REQ_SENT with the timer restarted *)
CoapRetry(c) ==
  /\ proc = "up" /\ "coap" \in armed[c] /\ retries[c] > 0
  /\ IF CanEnter(state[c], "coap_retry")
     THEN Enter(c, "req_sent", armed[c], retries[c] - 1, first[c], {Req(c)})
     ELSE Die("errx")
  /\ sent' = [sent EXCEPT ![c] = @ + 1]
  /\ UNCHANGED <<obsVars, dns, cancel, seen, goes, shown>>

(* ... or SEND_FAILED. *)
CoapRetryFails(c) ==
  /\ proc = "up" /\ "coap" \in armed[c] /\ retries[c] > 0
  /\ IF CanEnter(state[c], "coap_retry")
     THEN Enter(c, "send_failed", armed[c], retries[c], first[c], {})
     ELSE Die("errx")
  /\ UNCHANGED <<obsVars, dns, cancel, seen, goes, sent, shown>>

(* ec_cli_app_timeout *)
AppTimeout(c) ==
  /\ proc = "up" /\ "app" \in armed[c]
  /\ Move(c, "app_timeout")
  /\ UNCHANGED <<obsVars, dns, cancel, seen, goes, sent, shown>>

(* ec_cli_obs_timeout *)
ObsTimeout(c) ==
  /\ proc = "up" /\ "obs" \in armed[c]
  /\ on' = [on EXCEPT ![c] = FALSE]
  /\ Move(c, "obs_timeout")
  /\ UNCHANGED <<last, recent, dns, cancel, seen, goes, sent, shown>>

(* ec_dup_zap: a duplicate record reaches EC_DUP_LIFETIME and goes. *)
DupZap(k) ==
  /\ proc = "up" /\ seen[k] \in {"yes", "replied"}
  /\ seen' = [seen EXCEPT ![k] = IF k \in Prompt THEN "expired" ELSE "no"]
  /\ out' = {}
  /\ UNCHANGED <<proc, state, armed, retries, listed, inputs, first, told,
                 obsVars, dns, cancel, goes, sent, shown>>

(* The last notification becomes 2^14 seconds old. *)
Age(c) ==
  /\ proc = "up" /\ recent[c]
  /\ recent' = [recent EXCEPT ![c] = FALSE]
  /\ out' = {}
  /\ UNCHANGED <<proc, state, armed, retries, listed, inputs, first, told,
                 on, last, dns, cancel, seen, goes, sent, shown>>

-----------------------------------------------------------------------------
(* ec_client_handle_pdu *)

Receives(c, p) ==
  /\ proc = "up" /\ inputs[c] > 0 /\ state[c] # "freed"
  /\ p \in Pdus[c] /\ seen[p.key] # "expired"

Fresh(p) == seen[p.key] = "no"
RecordNothing(p) == seen    \* Mutant: duplicates go unnoticed.
Record(p) == [seen EXCEPT ![p.key] = "yes"]

(* A duplicate, answered with the ACK that its original has elicited. *)
RecvDup(c, p) ==
  /\ Receives(c, p) /\ ~Fresh(p)
  /\ out' = IF seen[p.key] = "replied" THEN {Ack(p.key)} ELSE {}
  /\ UNCHANGED <<proc, state, armed, retries, listed, inputs, first, told,
                 obsVars, dns, cancel, seen, goes, sent, shown>>

(* Neither an ACK, nor an RST, nor a response for this request. *)
RecvBad(c, p) ==
  /\ Receives(c, p) /\ Fresh(p)
  /\ p.code = "ping" \/ (p.code \in Response /\ ~p.ok)
  /\ seen' = Record(p)
  /\ out' = {}
  /\ UNCHANGED <<proc, state, armed, retries, listed, inputs, first, told,
                 obsVars, dns, cancel, goes, sent, shown>>

(* ec_client_handle_empty_pdu: an ACK quenches the CoAP timer. *)
RecvAck(c, p) ==
  /\ Receives(c, p) /\ Fresh(p) /\ p.code = "ack"
  /\ seen' = Record(p)
  /\ SetState(c, "req_ackd",
              IF c \in Confirmable THEN armed[c] \ {"coap"} ELSE armed[c],
              retries[c], first[c], {})
  /\ UNCHANGED <<obsVars, dns, cancel, goes, sent, shown>>

RecvRst(c, p) ==
  /\ Receives(c, p) /\ Fresh(p) /\ p.code = "rst"
  /\ seen' = Record(p)
  /\ Move(c, "req_rst")
  /\ UNCHANGED <<obsVars, dns, cancel, goes, sent, shown>>

(* The response that ec_client_get_response_pdu returns once p is added. *)
HeadWith(c, p) == IF first[c] = NoPdu THEN p ELSE first[c]

(* ec_client_handle_observation, 3): the code compares the counter of the  *)
(* first PDU in the response set, in 16-bit arithmetic.                    *)
Stale(c, head) ==
  /\ (last[c] + CntMod - head.obs) % CntMod < CntMod \div 2
  /\ recent[c]

(* The server has ended the observation: a 5.00, a notification without    *)
(* an Observe option or a 2.02.                                            *)
Ended(p, head) == p.code \in {"error500", "deleted"} \/ head.obs = NoObs

Good(c, p) == Receives(c, p) /\ Fresh(p) /\ p.code \in Response /\ p.ok

(* A stale notification: the handler gives up, the PDU stays in the set. *)
RecvStale(c, p) ==
  LET head == HeadWith(c, p) IN
  /\ Good(c, p) /\ on[c] /\ ~Ended(p, head) /\ Stale(c, head)
  /\ seen' = Record(p)
  /\ first' = [first EXCEPT ![c] = head]
  /\ out' = {}
  /\ UNCHANGED <<proc, state, armed, retries, listed, inputs, told,
                 obsVars, dns, cancel, goes, sent, shown>>

(* Mutants: the application timer is left running, the observation timer   *)
(* is not started.                                                         *)
ObsTimersKeepApp(c) == {"obs"} \cup (armed[c] \ {"coap"})
ObsTimersNone(c) == armed[c] \ {"app", "coap"}

(* WAIT_NFY: the observation timer replaces the others. *)
ObsTimers(c) ==
  {"obs"} \cup (armed[c] \ IF c \in Confirmable THEN {"app", "coap"}
                                                ELSE {"app"})

(* A first response that accepts the observation, or a new notification:   *)
(* WAIT_NFY.  The observation timer replaces the others, or is restarted,  *)
(* which fails when it is not there.                                       *)
RecvNotification(c, p) ==
  LET head == HeadWith(c, p) IN
  /\ Good(c, p)
  /\ IF on[c] THEN ~Ended(p, head) /\ ~Stale(c, head)
              ELSE c \in Observers /\ head.obs # NoObs
  /\ seen' = Record(p)
  /\ on' = [on EXCEPT ![c] = TRUE]
  /\ last' = IF on[c] THEN [last EXCEPT ![c] = head.obs] ELSE last
  /\ recent' = IF on[c] THEN [recent EXCEPT ![c] = TRUE] ELSE recent
  /\ IF state[c] = "wait_nfy"
     THEN IF "obs" \in armed[c]
          THEN Enter(c, "wait_nfy", armed[c], retries[c], head, {})
          ELSE \E how \in {"errx", "segv"} : Die(how)
     ELSE IF "obs" \in armed[c]
          THEN Die("errx")
          ELSE SetState(c, "wait_nfy", ObsTimers(c), retries[c], head, {})
  /\ shown' = [shown EXCEPT ![c] = IF cancel[c] THEN @ ELSE head.obs]
  /\ UNCHANGED <<dns, cancel, goes, sent>>

(* A response that completes the request.  ec_client_send_ack acknowledges *)
(* a separate response, if the ACK of the request came first, and leaves   *)
(* the ACK with the duplicate record of the PDU that it answers.           *)
RecvResponse(c, p) ==
  LET head == HeadWith(c, p)
      acks == state[c] = "req_ackd" /\ c \in Confirmable
  IN
  /\ Good(c, p)
  /\ IF on[c] THEN Ended(p, head) ELSE c \notin Observers \/ head.obs = NoObs
  /\ seen' = IF acks /\ Record(p)[head.key] \in {"yes", "replied"}
             THEN [Record(p) EXCEPT ![head.key] = "replied"]
             ELSE Record(p)
  /\ on' = [on EXCEPT ![c] = FALSE]
  /\ SetState(c, "req_done", armed[c], retries[c], head,
              IF acks THEN {Ack(head.key)} ELSE {})
  /\ UNCHANGED <<last, recent, dns, cancel, goes, sent, shown>>

-----------------------------------------------------------------------------
User(c) == Go(c) \/ GoBusy(c) \/ Cancel(c) \/ UserFree(c)

Resolver(c) == DnsFailed(c) \/ DnsUnsent(c) \/ DnsUnregistered(c) \/ DnsSent(c)

Timers(c) == CoapTimeout(c) \/ CoapRetry(c) \/ CoapRetryFails(c)
               \/ AppTimeout(c) \/ ObsTimeout(c)

Network(c, p) == RecvDup(c, p) \/ RecvBad(c, p) \/ RecvAck(c, p)
                   \/ RecvRst(c, p) \/ RecvStale(c, p)
                   \/ RecvNotification(c, p) \/ RecvResponse(c, p)

Next ==
  \/ \E c \in Clients : User(c) \/ Resolver(c) \/ Timers(c) \/ Age(c)
  \/ \E c \in Clients : \E p \in Pdus[c] : Network(c, p)
  \/ \E k \in Keys : DupZap(k)

Spec == Init /\ [][Next]_vars

(* evdns answers every question, with an error if need be, and libevent    *)
(* fires every timer that stays pending.  Nothing is asked of the peer.    *)
Fairness ==
  \A c \in Clients : /\ WF_vars(Resolver(c))
                     /\ WF_vars(CoapTimeout(c) \/ CoapRetry(c)
                                  \/ CoapRetryFails(c))
                     /\ WF_vars(AppTimeout(c))
                     /\ WF_vars(ObsTimeout(c))

FairSpec == Spec /\ Fairness

-----------------------------------------------------------------------------
(* Properties *)

(* What ec_client_set_state assigns, and the rest. *)
FsmTypeOK ==
  /\ proc \in {"up", "errx", "segv"}
  /\ state \in [Clients -> CliState]
  /\ armed \in [Clients -> SUBSET Timer]
  /\ retries \in [Clients -> 0 .. MaxRetransmit]
  /\ listed \in [Clients -> Nat]
  /\ inputs \in [Clients -> Nat]
  /\ first \in [Clients -> Pdu \cup {NoPdu}]
  /\ out \in SUBSET Messages
  /\ told \in [Clients -> Nat]

RestTypeOK ==
  /\ dns \in [Clients -> BOOLEAN]
  /\ on \in [Clients -> BOOLEAN]
  /\ cancel \in [Clients -> BOOLEAN]
  /\ last \in [Clients -> 0 .. CntMod - 1]
  /\ recent \in [Clients -> BOOLEAN]
  /\ seen \in [Keys -> DupRecord]
  /\ goes \in [Clients -> Nat]
  /\ sent \in [Clients -> Nat]
  /\ shown \in [Clients -> 0 .. CntMod]

(* Every variable has its type: in particular retries_left never runs      *)
(* below zero and observe.last_cnt is a counter that was in a datagram.    *)
TypeOK == FsmTypeOK /\ RestTypeOK

(* The timers that a context waiting in state s must have pending. *)
TimersOf(c, s) ==
  {t \in Timer : \/ t = "app"  /\ s \in {"req_sent", "req_ackd"}
                 \/ t = "coap" /\ s = "req_sent" /\ c \in Confirmable
                 \/ t = "obs"  /\ s = "wait_nfy"}

(* Whatever the interleaving of answers, timers and calls, a context has   *)
(* exactly the timers pending that its state waits for: none is missing,   *)
(* which would leave the request hanging, and none outlives the final      *)
(* state or the context, which would call back into freed memory.  The one *)
(* exception: a user-owned context stays in WAIT_NFY without a timer once  *)
(* set_state has dropped a cancelled observation.                          *)
TimersMatchState ==
  \A c \in Clients :
    \/ armed[c] = TimersOf(c, state[c])
    \/ c \in UserOwn /\ state[c] = "wait_nfy" /\ cancel[c] /\ armed[c] = {}

(* A request leaves at most 1 + EC_COAP_MAX_RETRANSMIT times, and as long  *)
(* as its CoAP timer is pending every retransmission is accounted for.     *)
RetransmissionsBounded ==
  \A c \in Clients :
    /\ sent[c] <= 1 + MaxRetransmit
    /\ "coap" \in armed[c] => sent[c] + retries[c] = 1 + MaxRetransmit

(* The user of a context is called back in a final state once, not twice,  *)
(* and never not at all, whichever of response, RST, failure and timeout   *)
(* came first -- unless she has cancelled.                                 *)
ReportedOnce ==
  \A c \in Clients :
    /\ told[c] <= 1
    /\ (state[c] \in FinalState \/ (state[c] = "freed" /\ c \notin UserOwn))
         /\ ~cancel[c] /\ ~dns[c] /\ proc # "errx" => told[c] = 1

(* ec_client_free: "Unregister me from list of clients and events."  No    *)
(* event, timer, evdns request or list still leads to a freed context.     *)
FreedIsUnreachable ==
  \A c \in Clients : state[c] = "freed" =>
    armed[c] = {} /\ ~dns[c] /\ listed[c] = 0 /\ inputs[c] = 0

(* No datagram, timer or call ends the process through the err label of    *)
(* ec_client_set_state: "Should never happen !".                           *)
NeverErrx == proc # "errx"

(* Nor does it crash in the middle of ec_client_set_state, which returns   *)
(* to its caller: "Failure is not an option :-)".                          *)
NeverCrash == proc # "segv"

(* The response set of an observing context is empty between two           *)
(* notifications, "so that it can be reused on next notification".         *)
ResponseSetReusable ==
  \A c \in Clients : state[c] = "wait_nfy" => first[c] = NoPdu

(* observe.last_cnt is the "Last counter received": the one that came with *)
(* the representation that the user has.                                   *)
LastCounterKept ==
  \A c \in Clients : state[c] = "wait_nfy" /\ ~cancel[c] => last[c] = shown[c]

Over(c) == proc # "up" \/ state[c] \in FinalState \cup {"freed"}

(* Every request that is sent is eventually over or an observation: the    *)
(* user does not "starve waiting for a response that never comes back".    *)
RequestEnds ==
  \A c \in Clients : dns[c] ~> (~dns[c] /\ (Over(c) \/ state[c] = "wait_nfy"))

(* A cancelled observation is eventually dropped by the engine, by the     *)
(* next notification or by the observation timer.                          *)
CancelledEnds ==
  \A c \in Clients \ UserOwn :
    state[c] = "wait_nfy" /\ cancel[c] ~> Over(c)
=============================================================================
