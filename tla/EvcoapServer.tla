---------------------------- MODULE EvcoapServer ----------------------------
(***************************************************************************)
(* The server side of evcoap: the contexts (ec_server_t) that requests     *)
(* create, their finite state machine, the retransmission of separate      *)
(* responses, the rescheduled user callback and the duplicate records with *)
(* the reply that each received message has elicited.                      *)
(*                                                                         *)
(* As on the client side every libevent callback is one action and an      *)
(* armed timer may fire at any moment.  A context is one ec_server_new;    *)
(* its address is not reused, so that a late access to it shows.           *)
(* The base has no observers here: they are the subject of EvcoapObserve.  *)
(***************************************************************************)
EXTENDS Naturals, Sequences

CONSTANTS
  Contexts,       \* server contexts
  Peers,          \* clients, by address
  Mids,           \* message IDs; 0 is what a PDU has before it gets one
  Wire,           \* datagrams that may come in, a set of Datagram
  FirstRc,        \* results of the user callback on a new request
  LateRc,         \* results of the user callback when it is rescheduled
  Prompt,         \* keys no copy of which arrives once its record has expired
  NoPdu,          \* no PDU
  MaxRetransmit   \* EC_COAP_MAX_RETRANSMIT

Keys == Peers \X Mids

(* What ec_server_handle_pdu tells apart in a datagram.  Requests carry a  *)
(* Token; "other" is a code that is neither empty nor a method.            *)
Control  == {"ack", "rst", "ping"}
Datagram == [peer : Peers, mid : Mids,
             code : {"request", "other"} \cup Control,
             con  : BOOLEAN,    \* Confirmable
             ok   : BOOLEAN,    \* the options parse and compose a URI
             px   : BOOLEAN]    \* with a Proxy-Uri

(* What the server sends: re is the key of the request it answers, srv the *)
(* context that sends it and tok the number of Token options in it.        *)
Message == [re : Keys, srv : Contexts, type : {"ack", "con", "non"},
            mid : Mids, code : {"empty", "response", "error"}, tok : Nat]

(* What a record was made for: the context of its request, none if another *)
(* message made it, and the contexts that were open under its key by then. *)
Origin == [own : SUBSET Contexts, older : SUBSET Contexts]
NoOrigin == [own |-> {}, older |-> {}]

ASSUME ServerAssumption ==
  /\ Mids \subseteq Nat
  /\ Wire \subseteq Datagram
  /\ FirstRc \subseteq {"ready", "wait", "error", "notfound"}
  /\ LateRc \subseteq {"ready", "wait", "error"}
  /\ Prompt \subseteq Keys
  /\ NoPdu \notin Datagram \cup Message
  /\ MaxRetransmit \in Nat \ {0}

VARIABLES
  proc,     \* the process: "up", "errx" (it exited) or "segv" (it crashed)
  ctx,      \* [Contexts -> Context]
  servers,  \* Seq(Contexts): the list that control messages are matched with
  seen,     \* [Keys -> {"no", "yes", "expired"}]: duplicate records
  cached,   \* [Keys -> Message \cup {NoPdu}]: the reply kept with the record
  out,      \* the messages that the last step sent
  calls,    \* history: [Keys -> Nat], user callbacks made for a new request
  made      \* history: [Keys -> Origin], what each record was made for

vars == <<proc, ctx, servers, seen, cached, out, calls, made>>

(* ec_server_state_is_final: the context is freed as it enters one.        *)
FinalState == {"internal_err", "dup_req", "bad_req", "resp_ack_timeout",
               "resp_done", "client_rst"}
SrvState   == FinalState \cup
              {"none", "req_ok", "ack_sent", "wait_ack", "coap_retry"}

(* The CoAP and the reschedule timer; "wakeup" stands for the return path  *)
(* of a proxied request, which calls ec_server_wakeup.                     *)
Event == {"coap", "resched", "wakeup"}

Context == [st      : SrvState,
            req     : Datagram \cup {NoPdu},
            mid     : Mids \cup {0},   \* hdr_bits.mid of the response PDU
            sep     : BOOLEAN,         \* flow.is_sep
            armed   : SUBSET Event,
            retries : 0 .. MaxRetransmit,
            n       : Nat]             \* encodings of the response PDU

Unused == [st |-> "none", req |-> NoPdu, mid |-> 0, sep |-> FALSE,
           armed |-> {}, retries |-> 0, n |-> 0]

(* ec_server_check_transition *)
CanEnter(cur, next) ==
  \/ next \in {"internal_err", "client_rst"}
  \/ next \in {"dup_req", "bad_req", "req_ok"} /\ cur = "none"
  \/ next = "ack_sent" /\ cur \in {"req_ok", "wait_ack"}
  \/ next = "wait_ack" /\ cur \in {"ack_sent", "coap_retry"}
  \/ next \in {"resp_ack_timeout", "coap_retry"} /\ cur = "wait_ack"
  \/ next = "resp_done" /\ cur \in {"req_ok", "wait_ack", "ack_sent"}

Key(d) == <<d.peer, d.mid>>

Init ==
  /\ proc = "up"
  /\ ctx = [s \in Contexts |-> Unused]
  /\ servers = << >>
  /\ seen = [k \in Keys |-> "no"]
  /\ cached = [k \in Keys |-> NoPdu]
  /\ out = {}
  /\ calls = [k \in Keys |-> 0]
  /\ made = [k \in Keys |-> NoOrigin]

-----------------------------------------------------------------------------
(* The state machine *)

(* ec_server_del: TAILQ_REMOVE takes one link out of the list. *)
Without(list, i) ==
  [j \in 1 .. Len(list) - 1 |-> IF j < i THEN list[j] ELSE list[j + 1]]

(* ec_server_free: a context that was never linked has no parent. *)
Unlinked(list, s) ==
  IF \E i \in DOMAIN list : list[i] = s
  THEN Without(list, CHOOSE i \in DOMAIN list : list[i] = s)
  ELSE list

(* ec_server_set_state for a context whose fields are now r and that is    *)
(* linked in list.  A final state stops the CoAP timer, unlinks and frees. *)
SetState(s, r, next, list) ==
  IF ~CanEnter(r.st, next)
  THEN proc' = "errx" /\ UNCHANGED <<ctx, servers>>
  ELSE /\ proc' = proc
       /\ IF next \in FinalState
          THEN /\ ctx' = [ctx EXCEPT ![s] =
                    [r EXCEPT !.st = next, !.armed = @ \ {"coap"},
                              !.retries = 0]]
               /\ servers' = Unlinked(list, s)
          ELSE /\ ctx' = [ctx EXCEPT ![s] =
                    [r EXCEPT
                       !.st = next,
                       !.sep = @ \/ (next = "wait_ack" /\ r.st = "ack_sent"),
                       !.armed = IF next = "wait_ack" THEN @ \cup {"coap"}
                                                      ELSE @,
                       !.retries = IF next # "wait_ack" THEN @
                                   ELSE IF r.st = "ack_sent" THEN MaxRetransmit
                                   ELSE @ - 1]]
               /\ servers' = list

(* ec_server_send_resp encodes a piggybacked response to a CON request     *)
(* that has not been acknowledged, and a message of its own otherwise.     *)
Piggyback(r) == r.req.con /\ ~r.sep /\ r.st # "ack_sent"

(* The response PDU as encoded.  m is the MID that                         *)
(* ec_pdu_encode_response_separate passes on: a random one the first time, *)
(* when the PDU has none, and an uninitialized variable after that.  Every *)
(* encoding adds the Token option once more.                               *)
Encoded(s, r, code, m) ==
  [re   |-> Key(r.req),
   srv  |-> s,
   type |-> IF Piggyback(r) THEN "ack" ELSE IF r.req.con THEN "con" ELSE "non",
   mid  |-> IF Piggyback(r) THEN r.req.mid ELSE m,
   code |-> code,
   tok  |-> r.n + 1]

AfterEncode(r, m) ==
  [r EXCEPT !.mid = IF ~Piggyback(r) /\ @ = 0 THEN m ELSE @, !.n = @ + 1]

(* ec_pdu_send keeps what it sends, even if sending fails, with the record *)
(* of the request that is its sibling, if that record is still there.      *)
Keep(r, msg) ==
  IF r.st # "ack_sent" /\ seen'[Key(r.req)] = "yes"
  THEN [cached EXCEPT ![Key(r.req)] = msg] ELSE cached

(* The response is sent and the context moves on to next. *)
SendResp(s, r, next) ==
  \E m \in Mids :
    /\ out' = {Encoded(s, r, "response", m)}
    /\ cached' = Keep(r, Encoded(s, r, "response", m))
    /\ SetState(s, AfterEncode(r, m), next, servers)

(* ec_server_reply with an error code, whether it can be sent or not, and  *)
(* the transition that follows.                                            *)
ErrorReply(s, r, next) ==
  \E m \in Mids, gone \in BOOLEAN :
    /\ out' = IF gone THEN {Encoded(s, r, "error", m)} ELSE {}
    /\ cached' = Keep(r, Encoded(s, r, "error", m))
    /\ SetState(s, AfterEncode(r, m), next, servers)

-----------------------------------------------------------------------------
(* ec_server_handle_pdu: duplicates and requests *)

ReceivesAgain(d) == proc = "up"    \* Mutant: duplicates are not looked up.
Receives(d) == proc = "up" /\ seen[Key(d)] = "no"
RecordNothing(d) == seen' = seen   \* Mutant: the record is not inserted.
Record(d) == seen' = [seen EXCEPT ![Key(d)] = "yes"]
Called(d) == calls' = [calls EXCEPT ![Key(d)] = @ + 1]

(* ec_dups_handle_incoming_climsg on a message that has a record. *)
RecvDup(d) ==
  /\ proc = "up" /\ seen[Key(d)] = "yes"
  /\ out' = {cached[Key(d)]} \ {NoPdu}
  /\ UNCHANGED <<proc, ctx, servers, seen, cached, calls, made>>

(* The contexts that may still answer under the key k. *)
Open(k) == {s \in Contexts : /\ ctx[s].st \in {"ack_sent", "wait_ack"}
                             /\ Key(ctx[s].req) = k}

NewRequest(s, d) ==
  /\ Receives(d) /\ d.code = "request" /\ ctx[s] = Unused
  /\ Record(d)
  /\ made' = [made EXCEPT ![Key(d)] = [own |-> {s}, older |-> Open(Key(d))]]

(* The context that a sound request leads to. *)
Accepted(d) == [Unused EXCEPT !.st = "req_ok", !.req = d]

(* Options that do not parse: there is no response PDU yet to be sent.     *)
BadOptions(s, d) ==
  /\ NewRequest(s, d) /\ ~d.ok
  /\ out' = {}
  /\ SetState(s, [Unused EXCEPT !.req = d], "internal_err", servers)
  /\ UNCHANGED <<cached, calls>>

(* No resource and no fallback: 4.04. *)
NotFound(s, d) ==
  /\ NewRequest(s, d) /\ d.ok /\ "notfound" \in FirstRc
  /\ ErrorReply(s, Accepted(d), "resp_done")
  /\ UNCHANGED calls

(* EC_CBRC_READY.  If the response cannot be sent, 5.00 is tried. *)
Ready(s, d) ==
  /\ NewRequest(s, d) /\ d.ok /\ "ready" \in FirstRc
  /\ Called(d)
  /\ \/ SendResp(s, Accepted(d), "resp_done")
     \/ \E m \in Mids :
          ErrorReply(s, AfterEncode(Accepted(d), m), "internal_err")

(* Mutant: no 5.00. *)
ErrorSilent(s, d) ==
  /\ NewRequest(s, d) /\ d.ok /\ "error" \in FirstRc
  /\ Called(d)
  /\ out' = {}
  /\ SetState(s, Accepted(d), "internal_err", servers)
  /\ UNCHANGED cached

(* EC_CBRC_ERROR, EC_CBRC_POLL, or EC_CBRC_READY without a response code.  *)
Error(s, d) ==
  /\ NewRequest(s, d) /\ d.ok /\ "error" \in FirstRc
  /\ Called(d)
  /\ ErrorReply(s, Accepted(d), "internal_err")

(* ec_server_send_separate_ack *)
SeparateAck(s, d) ==
  [re |-> Key(d), srv |-> s, type |-> "ack", mid |-> d.mid, code |-> "empty",
   tok |-> 0]

(* Mutant: the callback is never rescheduled. *)
WaitForgets(s, d) ==
  /\ NewRequest(s, d) /\ d.ok /\ "wait" \in FirstRc
  /\ Called(d)
  /\ out' = IF d.con THEN {SeparateAck(s, d)} ELSE {}
  /\ cached' = cached
  /\ SetState(s, Accepted(d), "ack_sent", Append(servers, s))

(* EC_CBRC_WAIT: a CON request is acknowledged, the context is linked and, *)
(* unless the request is proxied, the callback is rescheduled.             *)
Wait(s, d) ==
  /\ NewRequest(s, d) /\ d.ok /\ "wait" \in FirstRc
  /\ Called(d)
  /\ out' = IF d.con THEN {SeparateAck(s, d)} ELSE {}
  /\ cached' = IF d.con THEN Keep(Accepted(d), SeparateAck(s, d)) ELSE cached
  /\ SetState(s, [Accepted(d) EXCEPT
                    !.armed = IF d.px THEN {"wakeup"} ELSE {"resched"}],
              "ack_sent", Append(servers, s))

(* The ACK cannot be sent: 5.00 is tried in its place. *)
WaitFails(s, d) ==
  /\ NewRequest(s, d) /\ d.ok /\ "wait" \in FirstRc /\ d.con
  /\ Called(d)
  /\ ErrorReply(s, Accepted(d), "internal_err")

-----------------------------------------------------------------------------
(* The response to a deferred request *)

Pending(s, e) == proc = "up" /\ e \in ctx[s].armed
FiredStays(s, e) == ctx[s]         \* Mutant: the event is persistent.
Fired(s, e) == [ctx[s] EXCEPT !.armed = @ \ {e}]

(* ec_server_ready on a context that has been acknowledged. *)
LateResponse(s, e) ==
  SendResp(s, Fired(s, e),
           IF ctx[s].req.con THEN "wait_ack" ELSE "resp_done")

(* resched_userfn, EC_CBRC_READY *)
Resched(s) ==
  /\ Pending(s, "resched") /\ ctx[s].st = "ack_sent" /\ "ready" \in LateRc
  /\ UNCHANGED <<seen, calls, made>>
  /\ LateResponse(s, "resched")

(* resched_userfn: a response that cannot be sent (which can be encoded    *)
(* first), or any other result.                                            *)
ReschedFails(s) ==
  /\ Pending(s, "resched") /\ ctx[s].st = "ack_sent"
  /\ out' = {}
  /\ \/ /\ "ready" \in LateRc
        /\ \E m \in Mids : SetState(s, AfterEncode(Fired(s, "resched"), m),
                                    "internal_err", servers)
     \/ /\ LateRc \cap {"wait", "error"} # {}
        /\ SetState(s, Fired(s, "resched"), "internal_err", servers)
  /\ UNCHANGED <<seen, cached, calls, made>>

(* ec_server_wakeup from the return path of a proxy *)
Wakeup(s) ==
  /\ Pending(s, "wakeup") /\ ctx[s].st = "ack_sent"
  /\ UNCHANGED <<seen, calls, made>>
  /\ LateResponse(s, "wakeup")

(* ... which leaves the context as it is if the response cannot be sent.   *)
WakeupFails(s) ==
  /\ Pending(s, "wakeup") /\ ctx[s].st = "ack_sent"
  /\ out' = {}
  /\ \E m \in Mids :
       ctx' = [ctx EXCEPT ![s] = AfterEncode(Fired(s, "wakeup"), m)]
  /\ UNCHANGED <<proc, servers, seen, cached, calls, made>>

(* A final state removes neither the reschedule timer nor the reference    *)
(* that a proxy holds: the memory they lead to is gone.                    *)
UseAfterFree(s) ==
  /\ proc = "up" /\ ctx[s].st \in FinalState
  /\ ctx[s].armed \cap {"resched", "wakeup"} # {}
  /\ proc' = "segv"
  /\ out' = {}
  /\ UNCHANGED <<ctx, servers, seen, cached, calls, made>>

(* ec_srv_coap_timeout *)
CoapTimeout(s) ==
  /\ Pending(s, "coap") /\ ctx[s].retries = 0
  /\ out' = {}
  /\ SetState(s, ctx[s], "resp_ack_timeout", servers)
  /\ UNCHANGED <<seen, cached, calls, made>>

(* Mutants: the timer is not tested, is started anew, COAP_RETRY is        *)
(* skipped.                                                                *)
CoapRetryUnbounded(s) ==
  /\ Pending(s, "coap")
  /\ UNCHANGED <<seen, calls, made>>
  /\ SendResp(s, [ctx[s] EXCEPT !.st = "coap_retry"], "wait_ack")
CoapRetryRestarts(s) ==
  /\ Pending(s, "coap") /\ ctx[s].retries > 0
  /\ UNCHANGED <<seen, calls, made>>
  /\ SendResp(s, [ctx[s] EXCEPT !.st = "ack_sent"], "wait_ack")
CoapRetryInPlace(s) ==
  /\ Pending(s, "coap") /\ ctx[s].retries > 0
  /\ UNCHANGED <<seen, calls, made>>
  /\ SendResp(s, ctx[s], "wait_ack")

CoapRetry(s) ==
  /\ Pending(s, "coap") /\ ctx[s].retries > 0
  /\ UNCHANGED <<seen, calls, made>>
  /\ SendResp(s, [ctx[s] EXCEPT !.st = "coap_retry"], "wait_ack")

CoapRetryFails(s) ==
  /\ Pending(s, "coap") /\ ctx[s].retries > 0
  /\ UNCHANGED <<seen, calls, made>>
  /\ out' = {}
  /\ \E m \in Mids :
       LET r == [ctx[s] EXCEPT !.st = "coap_retry"] IN
       /\ cached' = Keep(r, Encoded(s, r, "response", m))
       /\ SetState(s, AfterEncode(r, m), "internal_err", servers)

-----------------------------------------------------------------------------
(* ec_server_handle_pdu: control messages *)

(* Mutant: the address of the peer is not compared. *)
MatchesAnyPeer(s, d) == d.mid = ctx[s].mid \/ (d.mid = 0 /\ ctx[s].req.con)

(* ec_servers_lookup compares the decoded header of the response PDU and   *)
(* of the separate ACK, whose MID is only ever written to the wire format. *)
Matches(s, d) ==
  /\ ctx[s].req.peer = d.peer
  /\ d.mid = ctx[s].mid \/ (d.mid = 0 /\ ctx[s].req.con)

IsFirstMatch(s, d) ==
  \E i \in 1 .. Len(servers) :
    /\ servers[i] = s /\ Matches(s, d)
    /\ \A j \in 1 .. i - 1 : ~Matches(servers[j], d)

(* Nothing to match the message with: only its record remains. *)
RecvUnmatched(d) ==
  /\ Receives(d)
  /\ \/ d.code = "other"
     \/ d.code \in Control /\ \A s \in Contexts : ~IsFirstMatch(s, d)
  /\ Record(d)
  /\ out' = {}
  /\ UNCHANGED <<proc, ctx, servers, cached, calls, made>>

RecvRst(s, d) ==
  /\ Receives(d) /\ d.code = "rst" /\ IsFirstMatch(s, d)
  /\ Record(d)
  /\ out' = {}
  /\ SetState(s, ctx[s], "client_rst", servers)
  /\ UNCHANGED <<cached, calls, made>>

RecvAck(s, d) ==
  /\ Receives(d) /\ d.code = "ack" /\ IsFirstMatch(s, d)
  /\ ctx[s].st = "wait_ack"
  /\ Record(d)
  /\ out' = {}
  /\ SetState(s, ctx[s], "resp_done", servers)
  /\ UNCHANGED <<cached, calls, made>>

(* An ACK before the response, or an empty message that is neither ACK nor *)
(* RST: an error is sent and the context goes.                             *)
RecvUnexpected(s, d) ==
  /\ Receives(d) /\ IsFirstMatch(s, d)
  /\ d.code = "ping" \/ (d.code = "ack" /\ ctx[s].st # "wait_ack")
  /\ Record(d)
  /\ ErrorReply(s, ctx[s], "internal_err")
  /\ UNCHANGED <<calls, made>>

Expired(k) ==
  /\ seen' = [seen EXCEPT ![k] = IF k \in Prompt THEN "expired" ELSE "no"]
  /\ made' = [made EXCEPT ![k] = NoOrigin]

(* Mutant: the next record of the key starts with the reply of this one.   *)
DupZapKeeps(k) ==
  /\ proc = "up" /\ seen[k] = "yes"
  /\ Expired(k)
  /\ out' = {}
  /\ UNCHANGED <<proc, ctx, servers, cached, calls>>

(* ec_dup_zap *)
DupZap(k) ==
  /\ proc = "up" /\ seen[k] = "yes"
  /\ Expired(k)
  /\ cached' = [cached EXCEPT ![k] = NoPdu]
  /\ out' = {}
  /\ UNCHANGED <<proc, ctx, servers, calls>>

-----------------------------------------------------------------------------
Request(s, d) == BadOptions(s, d) \/ NotFound(s, d) \/ Ready(s, d)
                   \/ Error(s, d) \/ Wait(s, d) \/ WaitFails(s, d)

Deferred(s) == Resched(s) \/ ReschedFails(s) \/ UseAfterFree(s)

Retransmit(s) == CoapTimeout(s) \/ CoapRetry(s) \/ CoapRetryFails(s)

Next ==
  \/ \E d \in Wire : RecvDup(d) \/ RecvUnmatched(d)
  \/ \E s \in Contexts, d \in Wire :
       Request(s, d) \/ RecvRst(s, d) \/ RecvAck(s, d) \/ RecvUnexpected(s, d)
  \/ \E s \in Contexts : Deferred(s) \/ Wakeup(s) \/ WakeupFails(s)
                           \/ Retransmit(s)
  \/ \E k \in Keys : DupZap(k)

Spec == Init /\ [][Next]_vars

(* libevent fires every timer that stays pending; neither the peer nor the *)
(* return path of a proxy is bound to do anything.                         *)
FairSpec == Spec /\ \A s \in Contexts : WF_vars(Deferred(s))
                                          /\ WF_vars(Retransmit(s))

-----------------------------------------------------------------------------
(* Properties *)

TypeOK ==
  /\ proc \in {"up", "errx", "segv"}
  /\ ctx \in [Contexts -> Context]
  /\ servers \in Seq(Contexts)
  /\ seen \in [Keys -> {"no", "yes", "expired"}]
  /\ cached \in [Keys -> Message \cup {NoPdu}]
  /\ out \in SUBSET Message
  /\ calls \in [Keys -> Nat]
  /\ made \in [Keys -> Origin]

Linked(s) == \E i \in 1 .. Len(servers) : servers[i] = s

(* A live context is linked and has pending exactly what its state waits   *)
(* for; a freed one has nothing that leads to it.  ec_server_set_state     *)
(* never removes the reschedule timer, so this rests on no final state     *)
(* being entered while it is pending.                                      *)
EventsMatchState ==
  \A s \in Contexts :
    /\ Linked(s) <=> ctx[s].st \in {"ack_sent", "wait_ack"}
    /\ CASE ctx[s].st = "wait_ack" -> ctx[s].armed = {"coap"}
         [] ctx[s].st = "ack_sent" ->
              IF ctx[s].req.px THEN ctx[s].armed \subseteq {"wakeup"}
                               ELSE ctx[s].armed = {"resched"}
         [] OTHER -> ctx[s].armed = {}

(* Within the lifetime of the duplicate records the user callback is       *)
(* invoked for a new request once, however often the client sends it.      *)
CalledOnce == \A k \in Keys : calls[k] <= 1

(* A copy of a request, which is answered with what its record holds, gets *)
(* a reply of the context that served that very request, and none of an    *)
(* earlier one with the same MID, unless that one was still open when this *)
(* one came.  A copy of a sound CON request always gets a reply.           *)
DuplicateGetsItsReply ==
  \A k \in Keys : \A s \in made[k].own :
    /\ cached[k] # NoPdu => cached[k].srv \in {s} \cup made[k].older
    /\ ctx[s].req.con /\ ctx[s].req.ok => cached[k] # NoPdu

(* The same without the exception: a reply goes into the record of the     *)
(* message that has elicited it, "whose MID is used to locate the          *)
(* corresponding recvd_pdu" (evcoap_pdu.c, 103).                           *)
CorrespondingRecord ==
  \A k \in Keys : \A s \in made[k].own :
    cached[k] # NoPdu => cached[k].srv = s

(* While an ACK is awaited, transmissions made and transmissions left add  *)
(* up to 1 + EC_COAP_MAX_RETRANSMIT.                                       *)
ResponsesBounded ==
  \A s \in Contexts :
    ctx[s].st = "wait_ack" => ctx[s].n + ctx[s].retries = 1 + MaxRetransmit

(* A separate response is done only by the first copy of an ACK that comes *)
(* from its own client and has the MID of the response.                    *)
DoneOnlyByItsAck ==
  [][\A s \in Contexts :
       ctx[s].st = "wait_ack" /\ ctx'[s].st = "resp_done" =>
         \E k \in Keys : /\ k = <<ctx[s].req.peer, ctx[s].mid>>
                         /\ seen[k] = "no" /\ seen'[k] = "yes"]_vars

(* No message, timer or callback ends the process through the err label of *)
(* ec_server_set_state.                                                    *)
NeverErrx == proc # "errx"

(* A request whose context is gone was answered, or at least a response    *)
(* was attempted, unless its client has reset it: "evcoap will             *)
(* automatically produce a 5.00".                                          *)
Answered ==
  \A s \in Contexts :
    ctx[s].st \in FinalState \ {"client_rst"} => ctx[s].n > 0

(* As long as an ACK is awaited, the MID that the separate response has on *)
(* the wire is the one that the ACK will be looked up by: "Create new MID  *)
(* in case it is not already set."                                         *)
ResponseMidKept ==
  \A msg \in out, s \in Contexts :
    /\ msg.type = "con" /\ ctx[s].st = "wait_ack" /\ Key(ctx[s].req) = msg.re
    => msg.mid = ctx[s].mid

(* A response has one Token option: "Mirror the Token possibly sent by the *)
(* client."                                                                *)
TokenMirrored == \A msg \in out : msg.code # "empty" => msg.tok = 1

(* A request that is not proxied is over in the end, and so is every       *)
(* separate response, with or without an ACK.                              *)
RequestsEnd ==
  \A s \in Contexts :
    ctx[s].st = "wait_ack" \/ (ctx[s].st = "ack_sent" /\ ~ctx[s].req.px)
      ~> (ctx[s].st \in FinalState \/ proc # "up")
=============================================================================
