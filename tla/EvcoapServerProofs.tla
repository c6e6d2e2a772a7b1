------------------------- MODULE EvcoapServerProofs -------------------------
(***************************************************************************)
(* Proofs about EvcoapServer, for any number of clients, MIDs and contexts *)
(* and any datagrams: what the duplicate records guarantee, and that the   *)
(* state, the timers and the place of a context on the list of the base    *)
(* agree.                                                                  *)
(***************************************************************************)
EXTENDS EvcoapServer, SequenceTheorems, TLAPS

-----------------------------------------------------------------------------
(* At most once *)

(* The inductive invariant behind CalledOnce: a key without a record, past *)
(* or present, is one whose request has not reached the user.              *)
CallsInv ==
  /\ seen \in [Keys -> {"no", "yes", "expired"}]
  /\ calls \in [Keys -> Nat]
  /\ \A k \in Keys : calls[k] <= 1 /\ (seen[k] = "no" => calls[k] = 0)

LEMMA CallsStep ==
  ASSUME Prompt = Keys, CallsInv, [Next]_vars
  PROVE  CallsInv'
<1> USE ServerAssumption
<1>k. \A d \in Wire : Key(d) \in Keys
  BY DEF Key, Keys, Datagram
<1>s. ASSUME seen' = seen, calls' = calls PROVE CallsInv'
  BY <1>s DEF CallsInv
<1>r. ASSUME NEW d \in Wire, Record(d), calls' = calls PROVE CallsInv'
  BY <1>k, <1>r DEF CallsInv, Record
<1>c. ASSUME NEW d \in Wire, Receives(d), Record(d), Called(d) PROVE CallsInv'
  BY <1>k, <1>c DEF CallsInv, Receives, Record, Called
<1>1. ASSUME NEW d \in Wire, RecvDup(d) \/ RecvUnmatched(d) PROVE CallsInv'
  BY <1>1, <1>r, <1>s DEF RecvDup, RecvUnmatched
<1>2. ASSUME NEW s \in Contexts, NEW d \in Wire, Request(s, d) PROVE CallsInv'
  <2>1. CASE BadOptions(s, d) \/ NotFound(s, d)
    BY <1>r, <2>1 DEF BadOptions, NotFound, NewRequest
  <2>2. CASE Ready(s, d) \/ Error(s, d) \/ Wait(s, d) \/ WaitFails(s, d)
    BY <1>c, <2>2 DEF Ready, Error, Wait, WaitFails, NewRequest
  <2>3. QED BY <1>2, <2>1, <2>2 DEF Request
<1>3. ASSUME NEW s \in Contexts, NEW d \in Wire,
             RecvRst(s, d) \/ RecvAck(s, d) \/ RecvUnexpected(s, d)
      PROVE  CallsInv'
  BY <1>3, <1>r DEF RecvRst, RecvAck, RecvUnexpected
<1>4. ASSUME NEW s \in Contexts,
             Deferred(s) \/ Wakeup(s) \/ WakeupFails(s) \/ Retransmit(s)
      PROVE  CallsInv'
  BY <1>4, <1>s
  DEF Deferred, Resched, ReschedFails, UseAfterFree, Wakeup, WakeupFails,
      Retransmit, CoapTimeout, CoapRetry, CoapRetryFails
<1>5. ASSUME NEW k \in Keys, DupZap(k) PROVE CallsInv'
  BY <1>5 DEF DupZap, Expired, CallsInv
<1>6. CASE UNCHANGED vars
  BY <1>6, <1>s DEF vars
<1>7. QED BY <1>1, <1>2, <1>3, <1>4, <1>5, <1>6 DEF Next

(* If every copy of a request comes within EC_DUP_LIFETIME of the first,   *)
(* the user callback sees the request once, whatever the retransmissions,  *)
(* the other clients and the state of its context.                         *)
THEOREM AtMostOnce ==
  ASSUME Prompt = Keys
  PROVE  Spec => []CalledOnce
<1>1. Init => CallsInv
  BY DEF Init, CallsInv
<1>2. CallsInv /\ [Next]_vars => CallsInv'
  BY CallsStep
<1>3. CallsInv => CalledOnce
  BY DEF CallsInv, CalledOnce
<1>4. QED BY <1>1, <1>2, <1>3, PTL DEF Spec

-----------------------------------------------------------------------------
(* The list of contexts *)

On(list, x) == \E i \in 1 .. Len(list) : list[i] = x

NoRepeats(list) ==
  \A i, j \in 1 .. Len(list) : list[i] = list[j] => i = j

(* TAILQ_REMOVE takes out one entry and keeps the others. *)
LEMMA WithoutList ==
  ASSUME NEW S, NEW list \in Seq(S), NEW k \in 1 .. Len(list), NoRepeats(list)
  PROVE  /\ Without(list, k) \in Seq(S)
         /\ NoRepeats(Without(list, k))
         /\ \A x : On(Without(list, k), x) <=> On(list, x) /\ x # list[k]
<1> DEFINE w == Without(list, k)
<1>1. /\ Len(list) \in Nat /\ DOMAIN list = 1 .. Len(list)
      /\ \A j \in 1 .. Len(list) : list[j] \in S
  BY LenProperties
<1>2. Len(list) - 1 \in Nat
  BY <1>1
<1>3. /\ DOMAIN w = 1 .. Len(list) - 1
      /\ \A j \in 1 .. Len(list) - 1 :
           w[j] = IF j < k THEN list[j] ELSE list[j + 1]
  BY DEF Without
<1>4. \A j \in 1 .. Len(list) - 1 : (IF j < k THEN list[j] ELSE list[j + 1]) \in S
  BY <1>1
<1>5. w \in [1 .. Len(list) - 1 -> S]
  BY <1>4 DEF Without
<1>6. w \in Seq(S)
  BY <1>2, <1>5, SeqDef
<1> HIDE DEF w
<1>7. Len(w) = Len(list) - 1
  BY <1>2, <1>3, <1>6, LenProperties
<1>8. NoRepeats(w)
  <2> SUFFICES ASSUME NEW i \in 1 .. Len(w), NEW j \in 1 .. Len(w), w[i] = w[j]
               PROVE  i = j
    BY DEF NoRepeats
  <2>1. i \in 1 .. Len(list) - 1 /\ j \in 1 .. Len(list) - 1
    BY <1>7
  <2>2. PICK a \in 1 .. Len(list) : a = (IF i < k THEN i ELSE i + 1) /\ w[i] = list[a]
    BY <1>1, <1>3, <2>1
  <2>3. PICK b \in 1 .. Len(list) : b = (IF j < k THEN j ELSE j + 1) /\ w[j] = list[b]
    BY <1>1, <1>3, <2>1
  <2>4. a = b
    BY <2>2, <2>3 DEF NoRepeats
  <2> QED BY <1>1, <2>1, <2>2, <2>3, <2>4
<1>9. ASSUME NEW x PROVE On(w, x) <=> On(list, x) /\ x # list[k]
  <2>1. ASSUME On(w, x) PROVE On(list, x) /\ x # list[k]
    <3>1. PICK j \in 1 .. Len(list) - 1 : w[j] = x
      BY <1>7, <2>1 DEF On
    <3>2. PICK a \in 1 .. Len(list) : a # k /\ w[j] = list[a]
      BY <1>1, <1>3, <3>1
    <3> QED BY <3>1, <3>2 DEF On, NoRepeats
  <2>2. ASSUME On(list, x), x # list[k] PROVE On(w, x)
    <3>1. PICK a \in 1 .. Len(list) : list[a] = x /\ a # k
      BY <2>2 DEF On
    <3>2. CASE a < k
      BY <1>1, <1>3, <1>7, <3>1, <3>2 DEF On
    <3>3. CASE a > k
      <4>1. a - 1 \in 1 .. Len(list) - 1 /\ ~(a - 1 < k) /\ (a - 1) + 1 = a
        BY <1>1, <3>3
      <4>2. w[a - 1] = list[a]
        BY <1>3, <4>1
      <4> QED BY <1>7, <3>1, <4>1, <4>2 DEF On
    <3> QED BY <1>1, <3>1, <3>2, <3>3
  <2> QED BY <2>1, <2>2
<1> QED BY <1>6, <1>8, <1>9 DEF w

(* ec_server_free leaves the other contexts on the list. *)
LEMMA UnlinkedList ==
  ASSUME NEW S, NEW list \in Seq(S), NEW s, NoRepeats(list)
  PROVE  /\ Unlinked(list, s) \in Seq(S)
         /\ NoRepeats(Unlinked(list, s))
         /\ \A x : On(Unlinked(list, s), x) <=> On(list, x) /\ x # s
<1>1. DOMAIN list = 1 .. Len(list)
  BY LenProperties
<1>2. CASE \E i \in DOMAIN list : list[i] = s
  <2> DEFINE k == CHOOSE i \in DOMAIN list : list[i] = s
  <2>1. k \in 1 .. Len(list) /\ list[k] = s
    BY <1>1, <1>2
  <2>2. Unlinked(list, s) = Without(list, k)
    BY <1>2 DEF Unlinked
  <2> HIDE DEF k
  <2> QED BY <2>1, <2>2, WithoutList
<1>3. CASE ~\E i \in DOMAIN list : list[i] = s
  BY <1>1, <1>3 DEF Unlinked, On
<1> QED BY <1>2, <1>3

(* ec_server_add *)
LEMMA AppendList ==
  ASSUME NEW S, NEW list \in Seq(S), NEW s \in S, NoRepeats(list), ~On(list, s)
  PROVE  /\ Append(list, s) \in Seq(S)
         /\ NoRepeats(Append(list, s))
         /\ \A x : On(Append(list, s), x) <=> On(list, x) \/ x = s
<1> DEFINE a == Append(list, s)
<1>1. /\ Len(list) \in Nat /\ a \in Seq(S) /\ Len(a) = Len(list) + 1
      /\ \A i \in 1 .. Len(list) : a[i] = list[i]
      /\ a[Len(list) + 1] = s
  BY AppendProperties, LenProperties
<1> HIDE DEF a
<1>2. \A i \in 1 .. Len(a) : i \in 1 .. Len(list) \/ i = Len(list) + 1
  BY <1>1
<1>3. NoRepeats(a)
  BY <1>1, <1>2 DEF NoRepeats, On
<1>4. \A x : On(a, x) <=> On(list, x) \/ x = s
  <2>1. 1 .. Len(list) \subseteq 1 .. Len(a) /\ Len(list) + 1 \in 1 .. Len(a)
    BY <1>1
  <2> QED BY <1>1, <1>2, <2>1 DEF On
<1> QED BY <1>1, <1>3, <1>4 DEF a

-----------------------------------------------------------------------------
(* The invariant of the contexts *)

(* Requests that all parse, and a user whose rescheduled callback has its  *)
(* response ready.                                                         *)
Replies == (\A d \in Wire : d.ok) /\ LateRc \subseteq {"ready"}

(* The states a context may be in between two callbacks of libevent. *)
Live    == {"ack_sent", "wait_ack"}
Resting == Live \cup {"none", "internal_err", "resp_done",
                      "resp_ack_timeout", "client_rst"}

(* What a context may look like.  The last conjuncts tell when a freed     *)
(* context has nothing pending, and when it had a response.                *)
Fit(r) ==
  /\ r \in Context /\ r.st \in Resting
  /\ r.st = "none" => r = Unused
  /\ r.st # "none" => r.req \in Wire
  /\ r.st = "wait_ack" => /\ r.armed = {"coap"}
                          /\ r.n > 0 /\ r.n + r.retries = 1 + MaxRetransmit
  /\ r.st = "ack_sent" => IF r.req.px THEN r.armed \subseteq {"wakeup"}
                                      ELSE r.armed = {"resched"}
  /\ r.st = "ack_sent" /\ r.armed # {} => r.n = 0 /\ r.mid = 0
  /\ r.st \in FinalState => /\ "coap" \notin r.armed
                            /\ 0 \notin Mids => r.armed = {}
  /\ Replies /\ r.st \in FinalState \ {"client_rst"} => r.n > 0

CoreInv ==
  /\ proc \in {"up", "segv"}
  /\ ctx \in [Contexts -> Context]
  /\ servers \in Seq(Contexts) /\ NoRepeats(servers)
  /\ \A s \in Contexts : /\ Fit(ctx[s])
                         /\ On(servers, s) <=> ctx[s].st \in Live

(* One context changes, and the list follows its state. *)
LEMMA OneContext ==
  ASSUME CoreInv, NEW s \in Contexts, NEW r, Fit(r),
         ctx' = [ctx EXCEPT ![s] = r], proc' = proc,
         servers' \in Seq(Contexts), NoRepeats(servers'),
         \A x \in Contexts : On(servers', x) <=>
                               IF x = s THEN r.st \in Live ELSE On(servers, x)
  PROVE  CoreInv'
<1>1. r \in Context
  BY DEF Fit
<1>2. /\ ctx' \in [Contexts -> Context]
      /\ \A x \in Contexts : ctx'[x] = IF x = s THEN r ELSE ctx[x]
  BY <1>1 DEF CoreInv
<1>3. \A x \in Contexts : Fit(ctx'[x])
  BY <1>2 DEF CoreInv
<1>4. \A x \in Contexts : On(servers', x) <=> ctx'[x].st \in Live
  BY <1>2 DEF CoreInv
<1> QED BY <1>2, <1>3, <1>4 DEF CoreInv

(* Encoding a response touches nothing but its MID and the number of times *)
(* it was encoded.                                                         *)
LEMMA EncodedContext ==
  ASSUME NEW r \in Context, NEW m \in Mids
  PROVE  /\ AfterEncode(r, m) \in Context
         /\ AfterEncode(r, m).st = r.st
         /\ AfterEncode(r, m).req = r.req
         /\ AfterEncode(r, m).armed = r.armed
         /\ AfterEncode(r, m).retries = r.retries
         /\ AfterEncode(r, m).n = r.n + 1
<1> DEFINE x == IF ~Piggyback(r) /\ r.mid = 0 THEN m ELSE r.mid
           q == [r EXCEPT !.mid = x, !.n = r.n + 1]
<1>1. x \in Mids \cup {0} /\ r.n + 1 \in Nat
  BY DEF Context
<1> HIDE DEF x
<1>2. q \in Context /\ q.st = r.st /\ q.req = r.req
  BY <1>1 DEF Context
<1>3. q.armed = r.armed /\ q.retries = r.retries /\ q.n = r.n + 1
  BY <1>1 DEF Context
<1>4. AfterEncode(r, m) = q
  BY DEF AfterEncode, x
<1> QED BY <1>2, <1>3, <1>4

(* A transition into a final state. *)
LEMMA Frees ==
  ASSUME CoreInv, NEW s \in Contexts, NEW r \in Context,
         NEW next \in FinalState \cap Resting, CanEnter(r.st, next),
         r.req \in Wire, 0 \notin Mids => r.armed \subseteq {"coap"},
         Replies /\ next # "client_rst" => r.n > 0,
         SetState(s, r, next, servers)
  PROVE  CoreInv'
<1> DEFINE q == [r EXCEPT !.st = next, !.armed = @ \ {"coap"}, !.retries = 0]
<1>1. proc' = proc /\ ctx' = [ctx EXCEPT ![s] = q] /\ servers' = Unlinked(servers, s)
  BY DEF SetState
<1>a. next \in SrvState /\ r.armed \ {"coap"} \in SUBSET Event
  BY DEF Context, SrvState
<1>b. 0 \in 0 .. MaxRetransmit
  BY ServerAssumption
<1>2. /\ q \in Context /\ q.st = next /\ q.req = r.req /\ q.n = r.n
      /\ q.armed = r.armed \ {"coap"}
  BY <1>a, <1>b DEF Context
<1> HIDE DEF q
<1>3. next \notin Live /\ next \notin {"none"}
  BY DEF FinalState, Live
<1>4. Fit(q)
  BY <1>2, <1>3 DEF Fit, Live
<1>5. /\ servers' \in Seq(Contexts) /\ NoRepeats(servers')
      /\ \A x : On(servers', x) <=> On(servers, x) /\ x # s
  BY <1>1, UnlinkedList DEF CoreInv
<1> QED BY <1>1, <1>2, <1>3, <1>4, <1>5, OneContext

(* The first transmission of a separate response. *)
LEMMA Awaits ==
  ASSUME CoreInv, NEW s \in Contexts, On(servers, s), NEW r \in Context,
         r.st = "ack_sent", r.req \in Wire, r.armed = {}, r.n = 1,
         SetState(s, r, "wait_ack", servers)
  PROVE  CoreInv'
<1> DEFINE q == [r EXCEPT !.st = "wait_ack", !.sep = TRUE, !.armed = {"coap"},
                          !.retries = MaxRetransmit]
<1>1. CanEnter("ack_sent", "wait_ack") /\ "wait_ack" \notin FinalState
  BY DEF CanEnter, FinalState
<1>2. proc' = proc /\ servers' = servers
  BY <1>1 DEF SetState
<1>3. ctx' = [ctx EXCEPT ![s] =
                [r EXCEPT !.st = "wait_ack", !.sep = @ \/ TRUE,
                          !.armed = @ \cup {"coap"}, !.retries = MaxRetransmit]]
  BY <1>1 DEF SetState
<1>4. ctx' = [ctx EXCEPT ![s] = q]
  BY <1>3
<1>a. /\ "wait_ack" \in SrvState /\ {"coap"} \in SUBSET Event
      /\ MaxRetransmit \in 0 .. MaxRetransmit
  BY ServerAssumption DEF SrvState, Event
<1>5. /\ q \in Context /\ q.st = "wait_ack" /\ q.req = r.req /\ q.n = r.n
      /\ q.armed = {"coap"} /\ q.retries = MaxRetransmit
  BY <1>a DEF Context
<1> HIDE DEF q
<1>6. Fit(q)
  BY <1>5, ServerAssumption DEF Fit, Live, Resting, FinalState
<1> QED BY <1>2, <1>4, <1>5, <1>6, OneContext DEF CoreInv, Live

(* The other ones. *)
LEMMA AwaitsAgain ==
  ASSUME CoreInv, NEW s \in Contexts, On(servers, s), NEW r \in Context,
         r.st = "coap_retry", r.req \in Wire, r.armed = {"coap"},
         r.retries > 0, r.n + r.retries = 2 + MaxRetransmit,
         SetState(s, r, "wait_ack", servers)
  PROVE  CoreInv'
<1> DEFINE q == [r EXCEPT !.st = "wait_ack", !.retries = @ - 1]
<1>1. CanEnter("coap_retry", "wait_ack") /\ "wait_ack" \notin FinalState
  BY DEF CanEnter, FinalState
<1>2. proc' = proc /\ servers' = servers
  BY <1>1 DEF SetState
<1>3. ctx' = [ctx EXCEPT ![s] =
                [r EXCEPT !.st = "wait_ack", !.sep = @ \/ FALSE,
                          !.armed = @ \cup {"coap"}, !.retries = @ - 1]]
  BY <1>1 DEF SetState
<1>4. r.armed \cup {"coap"} = r.armed /\ (r.sep \/ FALSE) = r.sep
  BY DEF Context
<1>5. ctx' = [ctx EXCEPT ![s] = q]
  BY <1>3, <1>4 DEF Context
<1>a. "wait_ack" \in SrvState /\ r.retries - 1 \in 0 .. MaxRetransmit
  BY ServerAssumption DEF SrvState, Context
<1>6. /\ q \in Context /\ q.st = "wait_ack" /\ q.req = r.req /\ q.n = r.n
      /\ q.armed = {"coap"} /\ q.retries = r.retries - 1
  BY <1>a DEF Context
<1>7. r.retries \in 0 .. MaxRetransmit /\ r.n \in Nat
  BY DEF Context
<1> HIDE DEF q
<1>8. q.n > 0 /\ q.n + q.retries = 1 + MaxRetransmit
  BY <1>6, <1>7, ServerAssumption
<1>9. Fit(q)
  BY <1>6, <1>8, ServerAssumption DEF Fit, Live, Resting, FinalState
<1> QED BY <1>2, <1>5, <1>6, <1>9, OneContext DEF CoreInv, Live

(* What a context becomes between the transitions of one callback. *)
LEMMA NewContext ==
  ASSUME NEW d \in Wire
  PROVE  /\ Accepted(d) \in Context /\ [Unused EXCEPT !.req = d] \in Context
         /\ Accepted(d).st = "req_ok" /\ Accepted(d).req = d
         /\ Accepted(d).armed = {} /\ Accepted(d).n = 0 /\ Accepted(d).mid = 0
         /\ [Unused EXCEPT !.req = d].st = "none"
         /\ [Unused EXCEPT !.req = d].req = d
         /\ [Unused EXCEPT !.req = d].armed = {}
<1>1. d \in Datagram /\ 0 \in 0 .. MaxRetransmit
  BY ServerAssumption
<1>2. "req_ok" \in SrvState /\ "none" \in SrvState
  BY DEF SrvState
<1> QED BY <1>1, <1>2 DEF Accepted, Unused, Context

LEMMA FiredContext ==
  ASSUME CoreInv, NEW s \in Contexts, NEW e
  PROVE  /\ Fired(s, e) \in Context
         /\ Fired(s, e).st = ctx[s].st /\ Fired(s, e).req = ctx[s].req
         /\ Fired(s, e).armed = ctx[s].armed \ {e}
         /\ Fired(s, e).n = ctx[s].n
<1>1. ctx[s] \in Context
  BY DEF CoreInv
<1> QED BY <1>1 DEF Fired, Context

LEMMA RetryContext ==
  ASSUME CoreInv, NEW s \in Contexts
  PROVE  LET r == [ctx[s] EXCEPT !.st = "coap_retry"] IN
         /\ r \in Context /\ r.st = "coap_retry" /\ r.req = ctx[s].req
         /\ r.armed = ctx[s].armed /\ r.n = ctx[s].n
         /\ r.retries = ctx[s].retries
<1>1. ctx[s] \in Context
  BY DEF CoreInv
<1>2. "coap_retry" \in SrvState
  BY DEF SrvState
<1> QED BY <1>1, <1>2 DEF Context

(* A response that frees the context. *)
LEMMA LastWord ==
  ASSUME CoreInv, NEW s \in Contexts, NEW r \in Context,
         NEW next \in FinalState \cap Resting, CanEnter(r.st, next),
         r.req \in Wire, 0 \notin Mids => r.armed \subseteq {"coap"},
         SendResp(s, r, next) \/ ErrorReply(s, r, next)
  PROVE  CoreInv'
<1>1. PICK m \in Mids : SetState(s, AfterEncode(r, m), next, servers)
  BY DEF SendResp, ErrorReply
<1> DEFINE q == AfterEncode(r, m)
<1>2. /\ q \in Context /\ q.st = r.st /\ q.req = r.req /\ q.armed = r.armed
      /\ q.n = r.n + 1
  BY EncodedContext
<1>3. q.n > 0
  BY <1>2 DEF Context
<1> HIDE DEF q
<1>4. SetState(s, q, next, servers)
  BY <1>1 DEF q
<1> QED BY <1>2, <1>3, <1>4, Frees

LEMMA RequestCore ==
  ASSUME CoreInv, NEW s \in Contexts, NEW d \in Wire, Request(s, d)
  PROVE  CoreInv'
<1>n. /\ Accepted(d) \in Context /\ [Unused EXCEPT !.req = d] \in Context
      /\ Accepted(d).st = "req_ok" /\ Accepted(d).req = d
      /\ Accepted(d).armed = {} /\ Accepted(d).n = 0 /\ Accepted(d).mid = 0
      /\ [Unused EXCEPT !.req = d].st = "none"
      /\ [Unused EXCEPT !.req = d].req = d
      /\ [Unused EXCEPT !.req = d].armed = {}
  BY NewContext
<1>t. /\ "resp_done" \in FinalState \cap Resting
      /\ "internal_err" \in FinalState \cap Resting
      /\ CanEnter("none", "internal_err") /\ CanEnter("req_ok", "internal_err")
      /\ CanEnter("req_ok", "resp_done")
  BY DEF FinalState, Resting, CanEnter
<1>1. CASE BadOptions(s, d)
  <2> DEFINE r == [Unused EXCEPT !.req = d]
  <2>1. SetState(s, r, "internal_err", servers) /\ ~Replies
    BY <1>1 DEF BadOptions, Replies
  <2>2. r \in Context /\ r.st = "none" /\ r.req = d /\ r.armed = {}
    BY <1>n
  <2> HIDE DEF r
  <2> QED BY <1>t, <2>1, <2>2, Frees
<1>2. CASE NotFound(s, d)
  BY <1>n, <1>t, <1>2, LastWord DEF NotFound
<1>3. CASE Ready(s, d)
  <2>1. CASE SendResp(s, Accepted(d), "resp_done")
    BY <1>n, <1>t, <2>1, LastWord
  <2>2. CASE \E m \in Mids :
               ErrorReply(s, AfterEncode(Accepted(d), m), "internal_err")
    <3>1. PICK m \in Mids : ErrorReply(s, AfterEncode(Accepted(d), m), "internal_err")
      BY <2>2
    <3>2. /\ AfterEncode(Accepted(d), m) \in Context
          /\ AfterEncode(Accepted(d), m).st = "req_ok"
          /\ AfterEncode(Accepted(d), m).req = d
          /\ AfterEncode(Accepted(d), m).armed = {}
      BY <1>n, EncodedContext
    <3> QED BY <1>t, <3>1, <3>2, LastWord
  <2> QED BY <1>3, <2>1, <2>2 DEF Ready
<1>4. CASE Error(s, d) \/ WaitFails(s, d)
  BY <1>n, <1>t, <1>4, LastWord DEF Error, WaitFails
<1>5. CASE Wait(s, d)
  <2> DEFINE a == IF d.px THEN {"wakeup"} ELSE {"resched"}
             r == [Accepted(d) EXCEPT !.armed = a]
             q == [r EXCEPT !.st = "ack_sent", !.sep = @ \/ FALSE, !.armed = @,
                            !.retries = @]
  <2>1. a \in SUBSET Event /\ "ack_sent" \in SrvState
    BY DEF Event, SrvState
  <2>2. IF d.px THEN a = {"wakeup"} ELSE a = {"resched"}
    OBVIOUS
  <2>3. SetState(s, r, "ack_sent", Append(servers, s)) /\ ctx[s] = Unused
    BY <1>5 DEF Wait, NewRequest
  <2> HIDE DEF a
  <2>4. /\ r \in Context /\ r.st = "req_ok" /\ r.req = d /\ r.armed = a
        /\ r.n = 0 /\ r.mid = 0
    BY <1>n, <2>1 DEF Context
  <2>5. /\ q \in Context /\ q.st = "ack_sent" /\ q.req = d /\ q.armed = a
        /\ q.n = 0 /\ q.mid = 0
    BY <2>1, <2>4 DEF Context
  <2>6. CanEnter("req_ok", "ack_sent") /\ "ack_sent" \notin FinalState
    BY DEF CanEnter, FinalState
  <2> HIDE DEF r
  <2>7. /\ proc' = proc /\ servers' = Append(servers, s)
        /\ ctx' = [ctx EXCEPT ![s] = q]
    BY <2>3, <2>4, <2>6 DEF SetState
  <2>10. ~On(servers, s)
    BY <2>3 DEF CoreInv, Live, Unused
  <2>11. /\ servers' \in Seq(Contexts) /\ NoRepeats(servers')
         /\ \A x : On(servers', x) <=> On(servers, x) \/ x = s
    BY <2>7, <2>10, AppendList DEF CoreInv
  <2> HIDE DEF q
  <2>12. Fit(q)
    BY <2>2, <2>5, <2>6 DEF Fit, Live, Resting
  <2> QED BY <2>5, <2>7, <2>11, <2>12, OneContext DEF Live
<1> QED BY <1>1, <1>2, <1>3, <1>4, <1>5 DEF Request

(* A control message is matched with a context that is linked.  If no MID  *)
(* is 0, that context has nothing pending but its CoAP timer.              *)
LEMMA MatchedContext ==
  ASSUME CoreInv, NEW s \in Contexts, NEW d \in Wire, IsFirstMatch(s, d)
  PROVE  /\ ctx[s] \in Context /\ ctx[s].st \in Live /\ ctx[s].req \in Wire
         /\ 0 \notin Mids => ctx[s].armed \subseteq {"coap"}
         /\ Matches(s, d)
<1>1. Matches(s, d) /\ On(servers, s)
  BY DEF IsFirstMatch, On
<1>2. ctx[s].st \in Live /\ Fit(ctx[s])
  BY <1>1 DEF CoreInv
<1>3. ctx[s] \in Context /\ ctx[s].req \in Wire
  BY <1>2 DEF Fit, Live
<1>4. ASSUME 0 \notin Mids PROVE ctx[s].armed \subseteq {"coap"}
  <2>1. d.mid \in Mids
    BY ServerAssumption DEF Datagram
  <2>2. ctx[s].mid # 0
    BY <1>1, <1>4, <2>1 DEF Matches
  <2>3. CASE ctx[s].st = "ack_sent"
    BY <1>2, <2>2, <2>3 DEF Fit
  <2>4. CASE ctx[s].st = "wait_ack"
    BY <1>2, <2>4 DEF Fit
  <2> QED BY <1>2, <2>3, <2>4 DEF Live
<1> QED BY <1>1, <1>2, <1>3, <1>4

LEMMA ControlCore ==
  ASSUME CoreInv, NEW s \in Contexts, NEW d \in Wire,
         RecvRst(s, d) \/ RecvAck(s, d) \/ RecvUnexpected(s, d)
  PROVE  CoreInv'
<1>1. IsFirstMatch(s, d)
  BY DEF RecvRst, RecvAck, RecvUnexpected
<1>2. /\ ctx[s] \in Context /\ ctx[s].st \in Live /\ ctx[s].req \in Wire
      /\ 0 \notin Mids => ctx[s].armed \subseteq {"coap"}
  BY <1>1, MatchedContext
<1>3. CASE RecvRst(s, d)
  <2>1. SetState(s, ctx[s], "client_rst", servers)
    BY <1>3 DEF RecvRst
  <2>2. "client_rst" \in FinalState \cap Resting /\ CanEnter(ctx[s].st, "client_rst")
    BY DEF FinalState, Resting, CanEnter
  <2> QED BY <1>2, <2>1, <2>2, Frees
<1>4. CASE RecvAck(s, d)
  <2>1. SetState(s, ctx[s], "resp_done", servers) /\ ctx[s].st = "wait_ack"
    BY <1>4 DEF RecvAck
  <2>2. "resp_done" \in FinalState \cap Resting /\ CanEnter("wait_ack", "resp_done")
    BY DEF FinalState, Resting, CanEnter
  <2>3. ctx[s].n > 0
    BY <2>1 DEF CoreInv, Fit
  <2> QED BY <1>2, <2>1, <2>2, <2>3, Frees
<1>5. CASE RecvUnexpected(s, d)
  <2>1. ErrorReply(s, ctx[s], "internal_err")
    BY <1>5 DEF RecvUnexpected
  <2>2. /\ "internal_err" \in FinalState \cap Resting
        /\ CanEnter(ctx[s].st, "internal_err")
    BY DEF FinalState, Resting, CanEnter
  <2> QED BY <1>2, <2>1, <2>2, LastWord
<1> QED BY <1>3, <1>4, <1>5

(* The response of a rescheduled callback, or of a proxy. *)
LEMMA LateCore ==
  ASSUME CoreInv, NEW s \in Contexts, NEW e \in {"resched", "wakeup"},
         Pending(s, e), ctx[s].st = "ack_sent", LateResponse(s, e)
  PROVE  CoreInv'
<1>1. /\ Fired(s, e) \in Context /\ Fired(s, e).st = "ack_sent"
      /\ Fired(s, e).req = ctx[s].req /\ Fired(s, e).n = ctx[s].n
      /\ Fired(s, e).armed = ctx[s].armed \ {e}
  BY FiredContext
<1>2. Fit(ctx[s]) /\ On(servers, s)
  BY DEF CoreInv, Live
<1>3. ctx[s].armed = {e} /\ ctx[s].n = 0 /\ ctx[s].req \in Wire
  BY <1>2 DEF Fit, Pending
<1>4. CASE ctx[s].req.con
  <2>1. PICK m \in Mids : SetState(s, AfterEncode(Fired(s, e), m), "wait_ack", servers)
    BY <1>4 DEF LateResponse, SendResp
  <2> DEFINE q == AfterEncode(Fired(s, e), m)
  <2>2. /\ q \in Context /\ q.st = "ack_sent" /\ q.req = ctx[s].req
        /\ q.armed = {} /\ q.n = 1
    BY <1>1, <1>3, EncodedContext
  <2> HIDE DEF q
  <2>3. SetState(s, q, "wait_ack", servers)
    BY <2>1 DEF q
  <2> QED BY <1>2, <1>3, <2>2, <2>3, Awaits
<1>5. CASE ~ctx[s].req.con
  <2>1. SendResp(s, Fired(s, e), "resp_done")
    BY <1>5 DEF LateResponse
  <2>2. "resp_done" \in FinalState \cap Resting /\ CanEnter("ack_sent", "resp_done")
    BY DEF FinalState, Resting, CanEnter
  <2> QED BY <1>1, <1>3, <2>1, <2>2, LastWord
<1> QED BY <1>4, <1>5

LEMMA DeferredCore ==
  ASSUME CoreInv, NEW s \in Contexts,
         Deferred(s) \/ Wakeup(s) \/ WakeupFails(s)
  PROVE  CoreInv'
<1>1. CASE Resched(s) \/ Wakeup(s)
  BY <1>1, LateCore DEF Resched, Wakeup
<1>2. CASE ReschedFails(s)
  <2> DEFINE r == Fired(s, "resched")
  <2>1. /\ r \in Context /\ r.st = "ack_sent" /\ r.req = ctx[s].req
        /\ r.armed = ctx[s].armed \ {"resched"}
    BY <1>2, FiredContext DEF ReschedFails
  <2>2. ctx[s].armed = {"resched"} /\ ctx[s].req \in Wire
    BY <1>2 DEF CoreInv, Fit, ReschedFails, Pending
  <2>3. /\ "internal_err" \in FinalState \cap Resting
        /\ CanEnter("ack_sent", "internal_err")
    BY DEF FinalState, Resting, CanEnter
  <2> HIDE DEF r
  <2>4. ASSUME NEW m \in Mids,
               SetState(s, AfterEncode(r, m), "internal_err", servers)
        PROVE  CoreInv'
    <3> DEFINE q == AfterEncode(r, m)
    <3>1. /\ q \in Context /\ q.st = "ack_sent" /\ q.req = r.req
          /\ q.armed = r.armed /\ q.n = r.n + 1
      BY <2>1, EncodedContext
    <3>2. q.n > 0
      BY <2>1, <3>1 DEF Context
    <3> HIDE DEF q
    <3>3. SetState(s, q, "internal_err", servers)
      BY <2>4 DEF q
    <3> QED BY <2>1, <2>2, <2>3, <3>1, <3>2, <3>3, Frees
  <2>5. ASSUME LateRc \cap {"wait", "error"} # {},
               SetState(s, r, "internal_err", servers)
        PROVE  CoreInv'
    <3>1. ~Replies
      BY <2>5 DEF Replies
    <3> QED BY <2>1, <2>2, <2>3, <2>5, <3>1, Frees
  <2> QED BY <1>2, <2>4, <2>5 DEF ReschedFails, r
<1>3. CASE UseAfterFree(s)
  BY <1>3 DEF UseAfterFree, CoreInv
<1>4. CASE WakeupFails(s)
  <2>1. PICK m \in Mids :
          ctx' = [ctx EXCEPT ![s] = AfterEncode(Fired(s, "wakeup"), m)]
    BY <1>4 DEF WakeupFails
  <2> DEFINE q == AfterEncode(Fired(s, "wakeup"), m)
  <2>2. Fit(ctx[s]) /\ ctx[s].st = "ack_sent" /\ "wakeup" \in ctx[s].armed
    BY <1>4 DEF CoreInv, WakeupFails, Pending
  <2>3. ctx[s].armed = {"wakeup"} /\ ctx[s].req \in Wire /\ ctx[s].req.px
    BY <2>2 DEF Fit
  <2>4. /\ q \in Context /\ q.st = "ack_sent" /\ q.req = ctx[s].req
        /\ q.armed = ctx[s].armed \ {"wakeup"}
    BY <2>2, FiredContext, EncodedContext
  <2> HIDE DEF q
  <2>5. Fit(q)
    BY <2>3, <2>4 DEF Fit, Live, Resting, FinalState
  <2>6. ctx' = [ctx EXCEPT ![s] = q] /\ proc' = proc /\ servers' = servers
    BY <1>4, <2>1 DEF WakeupFails, q
  <2> QED BY <2>2, <2>4, <2>5, <2>6, OneContext DEF CoreInv, Live
<1> QED BY <1>1, <1>2, <1>3, <1>4 DEF Deferred

LEMMA RetransmitCore ==
  ASSUME CoreInv, NEW s \in Contexts, Retransmit(s)
  PROVE  CoreInv'
<1>1. Fit(ctx[s]) /\ "coap" \in ctx[s].armed
  BY DEF CoreInv, Retransmit, CoapTimeout, CoapRetry, CoapRetryFails, Pending
<1>2. /\ ctx[s] \in Context /\ ctx[s].st = "wait_ack" /\ ctx[s].armed = {"coap"}
      /\ ctx[s].n > 0 /\ ctx[s].n + ctx[s].retries = 1 + MaxRetransmit
      /\ ctx[s].req \in Wire /\ On(servers, s)
  <2>1. ctx[s].st # "none"
    BY <1>1 DEF Fit, Unused
  <2>2. ctx[s].st = "wait_ack"
    BY <1>1, <2>1 DEF Fit, Resting, Live, FinalState
  <2> QED BY <1>1, <2>2 DEF Fit, CoreInv, Live
<1> DEFINE r == [ctx[s] EXCEPT !.st = "coap_retry"]
<1>3. /\ r \in Context /\ r.st = "coap_retry" /\ r.req = ctx[s].req
      /\ r.armed = ctx[s].armed /\ r.n = ctx[s].n
      /\ r.retries = ctx[s].retries
  BY RetryContext
<1> HIDE DEF r
<1>4. CASE CoapTimeout(s)
  <2>1. SetState(s, ctx[s], "resp_ack_timeout", servers)
    BY <1>4 DEF CoapTimeout
  <2>2. /\ "resp_ack_timeout" \in FinalState \cap Resting
        /\ CanEnter("wait_ack", "resp_ack_timeout")
    BY DEF FinalState, Resting, CanEnter
  <2> QED BY <1>2, <2>1, <2>2, Frees
<1>5. ASSUME NEW m \in Mids
      PROVE  LET q == AfterEncode(r, m) IN
             /\ q \in Context /\ q.st = "coap_retry" /\ q.req \in Wire
             /\ q.armed = {"coap"} /\ q.retries = ctx[s].retries
             /\ q.n = ctx[s].n + 1
  BY <1>2, <1>3, EncodedContext
<1>6. CASE CoapRetry(s)
  <2>1. SendResp(s, r, "wait_ack") /\ ctx[s].retries > 0
    BY <1>6 DEF CoapRetry, r
  <2>2. PICK m \in Mids : SetState(s, AfterEncode(r, m), "wait_ack", servers)
    BY <2>1 DEF SendResp
  <2> DEFINE q == AfterEncode(r, m)
  <2>3. /\ q \in Context /\ q.st = "coap_retry" /\ q.req \in Wire
        /\ q.armed = {"coap"} /\ q.retries = ctx[s].retries
        /\ q.n = ctx[s].n + 1
    BY <1>5
  <2>4. SetState(s, q, "wait_ack", servers)
    BY <2>2
  <2> HIDE DEF q
  <2>5. q.n + q.retries = 2 + MaxRetransmit
    BY <1>2, <2>3, ServerAssumption DEF Context
  <2> QED BY <1>2, <2>1, <2>3, <2>4, <2>5, AwaitsAgain
<1>7. CASE CoapRetryFails(s)
  <2>1. PICK m \in Mids : SetState(s, AfterEncode(r, m), "internal_err", servers)
    BY <1>7 DEF CoapRetryFails, r
  <2> DEFINE q == AfterEncode(r, m)
  <2>2. /\ q \in Context /\ q.st = "coap_retry" /\ q.req \in Wire
        /\ q.armed = {"coap"} /\ q.n = ctx[s].n + 1
    BY <1>5
  <2>3. SetState(s, q, "internal_err", servers)
    BY <2>1
  <2> HIDE DEF q
  <2>4. q.n > 0
    BY <1>2, <2>2 DEF Context
  <2>5. /\ "internal_err" \in FinalState \cap Resting
        /\ CanEnter("coap_retry", "internal_err")
    BY DEF FinalState, Resting, CanEnter
  <2> QED BY <2>2, <2>3, <2>4, <2>5, Frees
<1> QED BY <1>4, <1>6, <1>7 DEF Retransmit

LEMMA CoreStep ==
  ASSUME CoreInv, [Next]_vars
  PROVE  CoreInv'
<1>1. ASSUME proc' = proc, ctx' = ctx, servers' = servers PROVE CoreInv'
  BY <1>1 DEF CoreInv
<1>2. ASSUME NEW d \in Wire, RecvDup(d) \/ RecvUnmatched(d) PROVE CoreInv'
  BY <1>1, <1>2 DEF RecvDup, RecvUnmatched
<1>3. ASSUME NEW k \in Keys, DupZap(k) PROVE CoreInv'
  BY <1>1, <1>3 DEF DupZap
<1>4. CASE UNCHANGED vars
  BY <1>1, <1>4 DEF vars
<1> QED BY <1>2, <1>3, <1>4, RequestCore, ControlCore, DeferredCore,
           RetransmitCore DEF Next

-----------------------------------------------------------------------------
(* The types of the records and of the messages *)

DataInv ==
  /\ seen \in [Keys -> {"no", "yes", "expired"}]
  /\ cached \in [Keys -> Message \cup {NoPdu}]
  /\ out \in SUBSET Message
  /\ calls \in [Keys -> Nat]
  /\ made \in [Keys -> Origin]

LEMMA EncodedType ==
  ASSUME NEW s \in Contexts, NEW r \in Context, r.req \in Wire, NEW m \in Mids,
         NEW code \in {"response", "error"}
  PROVE  Encoded(s, r, code, m) \in Message
<1>1. r.req \in Datagram /\ r.n + 1 \in Nat
  BY ServerAssumption DEF Context
<1>2. Key(r.req) \in Keys /\ r.req.mid \in Mids
  BY <1>1 DEF Key, Keys, Datagram
<1> QED BY <1>1, <1>2 DEF Encoded, Message

LEMMA KeepType ==
  ASSUME DataInv, NEW r, NEW msg \in Message
  PROVE  Keep(r, msg) \in [Keys -> Message \cup {NoPdu}]
BY DEF Keep, DataInv

(* A response of either kind is well formed, and is kept as it is. *)
LEMMA SentType ==
  ASSUME DataInv, NEW s \in Contexts, NEW r \in Context, r.req \in Wire, NEW next,
         SendResp(s, r, next) \/ ErrorReply(s, r, next)
  PROVE  out' \in SUBSET Message /\ cached' \in [Keys -> Message \cup {NoPdu}]
<1>1. ASSUME SendResp(s, r, next)
      PROVE  out' \in SUBSET Message /\ cached' \in [Keys -> Message \cup {NoPdu}]
  <2>1. PICK m \in Mids : /\ out' = {Encoded(s, r, "response", m)}
                          /\ cached' = Keep(r, Encoded(s, r, "response", m))
    BY <1>1 DEF SendResp
  <2>2. Encoded(s, r, "response", m) \in Message
    BY EncodedType
  <2> QED BY <2>1, <2>2, KeepType
<1>2. ASSUME ErrorReply(s, r, next)
      PROVE  out' \in SUBSET Message /\ cached' \in [Keys -> Message \cup {NoPdu}]
  <2>1. PICK m \in Mids : /\ out' \subseteq {Encoded(s, r, "error", m)}
                          /\ cached' = Keep(r, Encoded(s, r, "error", m))
    BY <1>2 DEF ErrorReply
  <2>2. Encoded(s, r, "error", m) \in Message
    BY EncodedType
  <2> QED BY <2>1, <2>2, KeepType
<1> QED BY <1>1, <1>2

LEMMA DataStep ==
  ASSUME CoreInv, DataInv, [Next]_vars
  PROVE  DataInv'
<1> DEFINE Sent == /\ out' \in SUBSET Message
                   /\ cached' \in [Keys -> Message \cup {NoPdu}]
<1>k. \A d \in Wire : Key(d) \in Keys
  BY ServerAssumption DEF Key, Keys, Datagram
<1>q. ASSUME NEW d \in Wire, Record(d) PROVE seen' \in [Keys -> {"no", "yes", "expired"}]
  BY <1>k, <1>q DEF DataInv, Record
<1>c. ASSUME NEW d \in Wire, Called(d) PROVE calls' \in [Keys -> Nat]
  BY <1>k, <1>c DEF DataInv, Called
<1>e. ASSUME out' = {}, cached' = cached PROVE Sent
  BY <1>e DEF DataInv
<1>o. ASSUME NEW s \in Contexts, NEW d \in Wire, NewRequest(s, d)
      PROVE  made' \in [Keys -> Origin]
  <2>1. [own |-> {s}, older |-> Open(Key(d))] \in Origin
    BY DEF Open, Origin
  <2> QED BY <1>k, <1>o, <2>1 DEF NewRequest, DataInv
<1>1. ASSUME NEW d \in Wire, RecvDup(d) \/ RecvUnmatched(d) PROVE DataInv'
  <2>1. CASE RecvDup(d)
    BY <1>k, <2>1 DEF RecvDup, DataInv
  <2>2. CASE RecvUnmatched(d)
    BY <1>q, <1>e, <2>2 DEF RecvUnmatched, DataInv
  <2> QED BY <1>1, <2>1, <2>2
<1>2. ASSUME NEW s \in Contexts, NEW d \in Wire, Request(s, d) PROVE DataInv'
  <2>a. NewRequest(s, d)
    BY <1>2 DEF Request, BadOptions, NotFound, Ready, Error, Wait, WaitFails
  <2>b. seen' \in [Keys -> {"no", "yes", "expired"}] /\ calls' \in [Keys -> Nat]
    BY <1>2, <1>q, <1>c
    DEF Request, BadOptions, NotFound, Ready, Error, Wait, WaitFails,
        NewRequest, DataInv
  <2>1. /\ seen' \in [Keys -> {"no", "yes", "expired"}] /\ calls' \in [Keys -> Nat]
        /\ made' \in [Keys -> Origin]
    BY <1>o, <2>a, <2>b
  <2>2. Accepted(d) \in Context /\ Accepted(d).req \in Wire
    BY NewContext
  <2>3. CASE BadOptions(s, d)
    BY <1>e, <2>1, <2>3 DEF BadOptions, DataInv
  <2>4. CASE NotFound(s, d) \/ Error(s, d) \/ WaitFails(s, d)
    BY <2>1, <2>2, <2>4, SentType DEF NotFound, Error, WaitFails, DataInv
  <2>5. CASE Ready(s, d)
    <3>1. ASSUME NEW m \in Mids
          PROVE  /\ AfterEncode(Accepted(d), m) \in Context
                 /\ AfterEncode(Accepted(d), m).req \in Wire
      BY <2>2, EncodedContext
    <3>2. Sent
      BY <2>2, <2>5, <3>1, SentType DEF Ready
    <3> QED BY <2>1, <3>2 DEF DataInv
  <2>6. CASE Wait(s, d)
    <3>1. SeparateAck(s, d) \in Message
      BY <1>k, ServerAssumption DEF SeparateAck, Message, Datagram
    <3>2. out' \in SUBSET Message
      BY <2>6, <3>1 DEF Wait
    <3>3. cached' = cached \/ cached' = Keep(Accepted(d), SeparateAck(s, d))
      BY <2>6 DEF Wait
    <3>4. Keep(Accepted(d), SeparateAck(s, d)) \in [Keys -> Message \cup {NoPdu}]
      BY <3>1, KeepType
    <3> QED BY <2>1, <3>2, <3>3, <3>4 DEF DataInv
  <2> QED BY <1>2, <2>3, <2>4, <2>5, <2>6 DEF Request
<1>3. ASSUME NEW s \in Contexts, NEW d \in Wire,
             RecvRst(s, d) \/ RecvAck(s, d) \/ RecvUnexpected(s, d)
      PROVE  DataInv'
  <2>1. /\ seen' \in [Keys -> {"no", "yes", "expired"}]
        /\ calls' \in [Keys -> Nat] /\ made' \in [Keys -> Origin]
        /\ IsFirstMatch(s, d)
    BY <1>3, <1>q DEF RecvRst, RecvAck, RecvUnexpected, DataInv
  <2>2. Sent
    BY <1>3, <1>e, <2>1, MatchedContext, SentType
    DEF RecvRst, RecvAck, RecvUnexpected
  <2> QED BY <2>1, <2>2 DEF DataInv
<1>4. ASSUME NEW s \in Contexts,
             Deferred(s) \/ Wakeup(s) \/ WakeupFails(s) \/ Retransmit(s)
      PROVE  DataInv'
  <2>1. /\ seen' \in [Keys -> {"no", "yes", "expired"}]
        /\ calls' \in [Keys -> Nat] /\ made' \in [Keys -> Origin]
    BY <1>4
    DEF Deferred, Resched, ReschedFails, UseAfterFree, Wakeup, WakeupFails,
        Retransmit, CoapTimeout, CoapRetry, CoapRetryFails, DataInv
  <2>2. Fit(ctx[s])
    BY DEF CoreInv
  <2>3. CASE ReschedFails(s) \/ UseAfterFree(s) \/ WakeupFails(s) \/ CoapTimeout(s)
    BY <1>e, <2>1, <2>3
    DEF ReschedFails, UseAfterFree, WakeupFails, CoapTimeout, DataInv
  <2>4. CASE Resched(s) \/ Wakeup(s)
    <3>1. ctx[s].req \in Wire
      BY <2>2, <2>4 DEF Fit, Resched, Wakeup
    <3>2. \A e : Fired(s, e) \in Context /\ Fired(s, e).req \in Wire
      BY <3>1, FiredContext
    <3>3. Sent
      BY <2>4, <3>2, SentType DEF Resched, Wakeup, LateResponse
    <3> QED BY <2>1, <3>3 DEF DataInv
  <2>5. CASE CoapRetry(s) \/ CoapRetryFails(s)
    <3> DEFINE r == [ctx[s] EXCEPT !.st = "coap_retry"]
    <3>1. "coap" \in ctx[s].armed
      BY <2>5 DEF CoapRetry, CoapRetryFails, Pending
    <3>2. ctx[s].req \in Wire
      BY <2>2, <3>1 DEF Fit, Unused
    <3>3. r \in Context /\ r.req \in Wire
      BY <3>2, RetryContext
    <3>4. ASSUME CoapRetry(s) PROVE SendResp(s, r, "wait_ack")
      BY <3>4 DEF CoapRetry
    <3>5. ASSUME CoapRetryFails(s)
          PROVE  /\ out' = {}
                 /\ \E m \in Mids : cached' = Keep(r, Encoded(s, r, "response", m))
      BY <3>5 DEF CoapRetryFails
    <3> HIDE DEF r
    <3>6. Sent
      BY <2>5, <3>3, <3>4, <3>5, SentType, EncodedType, KeepType
    <3> QED BY <2>1, <3>6 DEF DataInv
  <2> QED BY <1>4, <2>3, <2>4, <2>5 DEF Deferred, Retransmit
<1>5. ASSUME NEW k \in Keys, DupZap(k) PROVE DataInv'
  <2>1. NoOrigin \in Origin
    BY DEF NoOrigin, Origin
  <2> QED BY <1>5, <2>1 DEF DupZap, Expired, DataInv
<1>6. CASE UNCHANGED vars
  BY <1>6 DEF vars, DataInv
<1> QED BY <1>1, <1>2, <1>3, <1>4, <1>5, <1>6 DEF Next

-----------------------------------------------------------------------------
(* The contexts are sound *)

(* The inductive invariant of the server. *)
ServerInv == CoreInv /\ DataInv

LEMMA ServerInit ==
  ASSUME Init
  PROVE  ServerInv
<1>1. Unused \in Context /\ Fit(Unused)
  <2>1. 0 \in 0 .. MaxRetransmit /\ "none" \in SrvState
    BY ServerAssumption DEF SrvState
  <2>2. Unused \in Context
    BY <2>1 DEF Unused, Context
  <2>3. Unused.st = "none" /\ "none" \notin FinalState
    BY DEF Unused, FinalState
  <2> QED BY <2>2, <2>3 DEF Fit, Resting
<1>2. ctx \in [Contexts -> Context] /\ \A s \in Contexts : ctx[s] = Unused
  BY <1>1 DEF Init
<1>3. /\ servers \in Seq(Contexts) /\ NoRepeats(servers)
      /\ \A s \in Contexts : ~On(servers, s)
  BY DEF Init, NoRepeats, On
<1>4. Unused.st \notin Live /\ proc = "up"
  BY DEF Unused, Live, Init
<1>5. CoreInv
  BY <1>1, <1>2, <1>3, <1>4 DEF CoreInv
<1>6. DataInv
  BY DEF Init, DataInv, Origin, NoOrigin
<1> QED BY <1>5, <1>6 DEF ServerInv

LEMMA ServerInvariant == Spec => []ServerInv
<1>1. Init => ServerInv
  BY ServerInit
<1>2. ServerInv /\ [Next]_vars => ServerInv'
  BY CoreStep, DataStep DEF ServerInv
<1> QED BY <1>1, <1>2, PTL DEF Spec

(* Every context, record and message is well formed, also when MIDs are    *)
(* reused, timers race with messages and responses cannot be sent.         *)
THEOREM ServerTypeCorrect == Spec => []TypeOK
<1>1. ServerInv => TypeOK
  BY DEF ServerInv, CoreInv, DataInv, TypeOK
<1> QED BY <1>1, ServerInvariant, PTL

(* No order of requests, control messages, timers and failures makes       *)
(* ec_server_set_state attempt a transition that it refuses, whatever the  *)
(* user callback returns.                                                  *)
THEOREM ServerNeverExits == Spec => []NeverErrx
<1>1. ServerInv => NeverErrx
  BY DEF ServerInv, CoreInv, NeverErrx
<1> QED BY <1>1, ServerInvariant, PTL

(* If no message has MID 0, the list and the pending events of a context   *)
(* always agree with its state: no timer and no proxy leads to a context   *)
(* that is gone, and every context that waits has what will end the wait.  *)
THEOREM ServerEventsMatch ==
  ASSUME 0 \notin Mids
  PROVE  Spec => []EventsMatchState
<1>1. ServerInv => EventsMatchState
  <2> SUFFICES ASSUME CoreInv, NEW s \in Contexts
               PROVE  /\ Linked(s) <=> ctx[s].st \in {"ack_sent", "wait_ack"}
                      /\ CASE ctx[s].st = "wait_ack" -> ctx[s].armed = {"coap"}
                           [] ctx[s].st = "ack_sent" ->
                                IF ctx[s].req.px
                                THEN ctx[s].armed \subseteq {"wakeup"}
                                ELSE ctx[s].armed = {"resched"}
                           [] OTHER -> ctx[s].armed = {}
    BY DEF ServerInv, EventsMatchState
  <2>1. Linked(s) <=> ctx[s].st \in {"ack_sent", "wait_ack"}
    BY DEF CoreInv, Linked, On, Live
  <2>2. Fit(ctx[s])
    BY DEF CoreInv
  <2>3. CASE ctx[s].st \in Live
    BY <2>1, <2>2, <2>3 DEF Fit, Live
  <2>4. CASE ctx[s].st \notin Live
    <3>1. ctx[s].st = "none" \/ ctx[s].st \in FinalState
      BY <2>2, <2>4 DEF Fit, Resting, FinalState
    <3>2. ctx[s].armed = {}
      BY <2>2, <3>1 DEF Fit, Unused
    <3> QED BY <2>1, <2>4, <3>2 DEF Live
  <2> QED BY <2>3, <2>4
<1> QED BY <1>1, ServerInvariant, PTL

(* If requests parse and a rescheduled callback has its response, no       *)
(* context goes away without a response unless its client has reset it:    *)
(* every error path of ec_server_handle_pdu and of the timers encodes one. *)
THEOREM ServerAnswers ==
  ASSUME Replies
  PROVE  Spec => []Answered
<1>1. ServerInv => Answered
  BY DEF ServerInv, CoreInv, Fit, Answered
<1> QED BY <1>1, ServerInvariant, PTL

(* The transmissions of a separate response never exceed                   *)
(* 1 + EC_COAP_MAX_RETRANSMIT.                                             *)
THEOREM ServerResponsesBounded == Spec => []ResponsesBounded
<1>1. ServerInv => ResponsesBounded
  BY DEF ServerInv, CoreInv, Fit, ResponsesBounded
<1> QED BY <1>1, ServerInvariant, PTL

(* ec_server_set_state moves its own context to the state that it is given *)
(* and leaves it its request; a refused transition moves nothing.          *)
LEMMA SetStateMoves ==
  ASSUME CoreInv, NEW s \in Contexts, NEW r \in Context, NEW next, NEW list,
         SetState(s, r, next, list)
  PROVE  /\ \A x \in Contexts \ {s} : ctx'[x] = ctx[x]
         /\ \/ ctx'[s] = ctx[s] /\ proc' = "errx"
            \/ ctx'[s].st = next /\ ctx'[s].req = r.req
<1>1. ASSUME NEW q, ctx' = [ctx EXCEPT ![s] = q], q.st = next, q.req = r.req
      PROVE  /\ \A x \in Contexts \ {s} : ctx'[x] = ctx[x]
             /\ ctx'[s].st = next /\ ctx'[s].req = r.req
  BY <1>1 DEF CoreInv
<1>2. CASE ~CanEnter(r.st, next)
  BY <1>2 DEF SetState
<1>3. CASE CanEnter(r.st, next) /\ next \in FinalState
  <2> DEFINE q == [r EXCEPT !.st = next, !.armed = @ \ {"coap"}, !.retries = 0]
  <2>1. ctx' = [ctx EXCEPT ![s] = q]
    BY <1>3 DEF SetState
  <2>2. q.st = next /\ q.req = r.req
    BY DEF Context
  <2> HIDE DEF q
  <2> QED BY <1>1, <2>1, <2>2
<1>4. CASE CanEnter(r.st, next) /\ next \notin FinalState
  <2> DEFINE sep == r.sep \/ (next = "wait_ack" /\ r.st = "ack_sent")
             ev  == IF next = "wait_ack" THEN r.armed \cup {"coap"}
                                         ELSE r.armed
             n   == IF next # "wait_ack" THEN r.retries
                    ELSE IF r.st = "ack_sent" THEN MaxRetransmit
                    ELSE r.retries - 1
             q   == [r EXCEPT !.st = next, !.sep = sep, !.armed = ev,
                              !.retries = n]
  <2>1. ctx' = [ctx EXCEPT ![s] = q]
    BY <1>4 DEF SetState
  <2> HIDE DEF sep, ev, n
  <2>2. q.st = next /\ q.req = r.req
    BY DEF Context
  <2> HIDE DEF q
  <2> QED BY <1>1, <2>1, <2>2
<1> QED BY <1>2, <1>3, <1>4

(* A step that takes a context from WAIT_ACK to RESP_DONE is the arrival   *)
(* of an ACK that it is the first match of.                                *)
LEMMA DoneByAck ==
  ASSUME CoreInv, [Next]_vars, NEW s \in Contexts,
         ctx[s].st = "wait_ack", ctx'[s].st = "resp_done"
  PROVE  \E d \in Wire : RecvAck(s, d)
<1>1. ctx'[s] # ctx[s]
  OBVIOUS
<1>2. \A x \in Contexts : ctx[x] \in Context /\ Fit(ctx[x])
  BY DEF CoreInv
<1>m. ASSUME NEW x \in Contexts, NEW r \in Context, NEW next, NEW list,
             SetState(x, r, next, list)
      PROVE  x = s /\ next = "resp_done"
  BY <1>m, <1>1, SetStateMoves
<1>r. ASSUME NEW x \in Contexts, NEW r \in Context, NEW next,
             SendResp(x, r, next) \/ ErrorReply(x, r, next)
      PROVE  x = s /\ next = "resp_done"
  BY <1>r, <1>m, EncodedContext DEF SendResp, ErrorReply
<1>3. ASSUME NEW x \in Contexts, NEW d \in Wire, Request(x, d) PROVE FALSE
  <2>1. ctx[x] = Unused /\ x # s
    BY <1>3
    DEF Request, BadOptions, NotFound, Ready, Error, Wait, WaitFails,
        NewRequest, Unused
  <2>2. /\ Accepted(d) \in Context /\ [Unused EXCEPT !.req = d] \in Context
        /\ Accepted(d).armed = {}
    BY NewContext
  <2>3. \A m \in Mids : AfterEncode(Accepted(d), m) \in Context
    BY <2>2, EncodedContext
  <2>4. CASE BadOptions(x, d)
    BY <1>m, <2>1, <2>2, <2>4 DEF BadOptions
  <2>5. CASE NotFound(x, d) \/ Error(x, d) \/ WaitFails(x, d)
    BY <1>r, <2>1, <2>2, <2>5 DEF NotFound, Error, WaitFails
  <2>6. CASE Ready(x, d)
    BY <1>r, <2>1, <2>2, <2>3, <2>6 DEF Ready
  <2>7. CASE Wait(x, d)
    <3> DEFINE a == IF d.px THEN {"wakeup"} ELSE {"resched"}
               r == [Accepted(d) EXCEPT !.armed = a]
    <3>1. SetState(x, r, "ack_sent", Append(servers, x))
      BY <2>7 DEF Wait
    <3>2. a \in SUBSET Event
      BY DEF Event
    <3> HIDE DEF a
    <3>3. r \in Context
      BY <2>2, <3>2 DEF Context
    <3> HIDE DEF r
    <3> QED BY <1>m, <2>1, <3>1, <3>3
  <2> QED BY <1>3, <2>4, <2>5, <2>6, <2>7 DEF Request
<1>4. ASSUME NEW x \in Contexts, Deferred(x) \/ Wakeup(x) \/ WakeupFails(x)
      PROVE  FALSE
  <2>1. \A e : Fired(x, e) \in Context
    BY FiredContext
  <2>2. \A e : \A m \in Mids : AfterEncode(Fired(x, e), m) \in Context
    BY <2>1, EncodedContext
  <2>3. CASE Resched(x) \/ Wakeup(x)
    BY <1>r, <2>1, <2>3 DEF Resched, Wakeup, LateResponse
  <2>4. CASE ReschedFails(x)
    BY <1>m, <2>1, <2>2, <2>4 DEF ReschedFails
  <2>5. CASE UseAfterFree(x)
    BY <1>1, <2>5 DEF UseAfterFree
  <2>6. CASE WakeupFails(x)
    BY <1>1, <2>6 DEF WakeupFails, CoreInv
  <2> QED BY <1>4, <2>3, <2>4, <2>5, <2>6 DEF Deferred
<1>5. ASSUME NEW x \in Contexts, Retransmit(x) PROVE FALSE
  <2> DEFINE r == [ctx[x] EXCEPT !.st = "coap_retry"]
  <2>1. r \in Context
    BY RetryContext
  <2>2. \/ SetState(x, ctx[x], "resp_ack_timeout", servers)
        \/ SendResp(x, r, "wait_ack")
        \/ \E m \in Mids : SetState(x, AfterEncode(r, m), "internal_err", servers)
    BY <1>5 DEF Retransmit, CoapTimeout, CoapRetry, CoapRetryFails
  <2> HIDE DEF r
  <2> QED BY <1>2, <1>m, <1>r, <2>1, <2>2, EncodedContext
<1>6. ASSUME NEW x \in Contexts, NEW d \in Wire, RecvRst(x, d) \/ RecvUnexpected(x, d)
      PROVE  FALSE
  BY <1>2, <1>6, <1>m, <1>r DEF RecvRst, RecvUnexpected
<1>7. ASSUME NEW x \in Contexts, NEW d \in Wire, RecvAck(x, d) PROVE x = s
  BY <1>2, <1>7, <1>m DEF RecvAck
<1>8. \A d \in Wire : ~RecvDup(d) /\ ~RecvUnmatched(d)
  BY <1>1 DEF RecvDup, RecvUnmatched
<1>9. \A k \in Keys : ~DupZap(k)
  BY <1>1 DEF DupZap
<1> QED BY <1>1, <1>3, <1>4, <1>5, <1>6, <1>7, <1>8, <1>9 DEF Next, vars

(* If no message has MID 0, a separate response is done only by the first  *)
(* copy of the ACK that its own client sent for its MID; an ACK for        *)
(* another response, or one from another client, never ends it.            *)
THEOREM ServerDoneByItsAck ==
  ASSUME 0 \notin Mids
  PROVE  Spec => DoneOnlyByItsAck
<1> DEFINE Done == \A s \in Contexts :
              ctx[s].st = "wait_ack" /\ ctx'[s].st = "resp_done" =>
                \E k \in Keys : /\ k = <<ctx[s].req.peer, ctx[s].mid>>
                                /\ seen[k] = "no" /\ seen'[k] = "yes"
<1>1. ServerInv /\ [Next]_vars => [Done]_vars
  <2> SUFFICES ASSUME ServerInv, [Next]_vars, NEW s \in Contexts,
                      ctx[s].st = "wait_ack", ctx'[s].st = "resp_done"
               PROVE  \E k \in Keys : /\ k = <<ctx[s].req.peer, ctx[s].mid>>
                                      /\ seen[k] = "no" /\ seen'[k] = "yes"
    OBVIOUS
  <2>1. PICK d \in Wire : RecvAck(s, d)
    BY DoneByAck DEF ServerInv
  <2>2. d.mid \in Mids /\ Key(d) \in Keys
    BY ServerAssumption DEF Datagram, Key, Keys
  <2>3. Matches(s, d) /\ Receives(d) /\ Record(d)
    BY <2>1 DEF RecvAck, IsFirstMatch
  <2>4. Key(d) = <<ctx[s].req.peer, ctx[s].mid>>
    BY <2>2, <2>3 DEF Matches, Key
  <2>5. seen[Key(d)] = "no" /\ seen'[Key(d)] = "yes"
    BY <2>2, <2>3 DEF Receives, Record, ServerInv, DataInv
  <2> QED BY <2>2, <2>4, <2>5
<1>2. Spec => [][Done]_vars
  BY <1>1, ServerInvariant, PTL DEF Spec
<1> QED BY <1>2 DEF DoneOnlyByItsAck
-----------------------------------------------------------------------------
(* What the server says *)

(* The user callback has seen the request. *)
Known(k) == calls[k] > 0

(* A reply to a request that the callback has seen; an empty one mirrors   *)
(* its MID.                                                                *)
Owed(msg) == Known(msg.re) /\ (msg.code = "empty" => msg.mid = msg.re[2])

(* All that the server keeps, or has just sent, is about such a request.   *)
KnownInv ==
  /\ \A s \in Contexts : ctx[s].st # "none" => Known(Key(ctx[s].req))
  /\ \A k \in Keys : cached[k] # NoPdu => Owed(cached[k])
  /\ \A msg \in out : Owed(msg)

(* Requests parse and lead to a resource. *)
Served == (\A d \in Wire : d.ok) /\ "notfound" \notin FirstRc

(* A step that sends nothing new, for a request that is known. *)
LEMMA SilentKnown ==
  ASSUME CoreInv, KnownInv, NEW s \in Contexts, NEW r \in Context, NEW next,
         NEW list, SetState(s, r, next, list), Known(Key(r.req)),
         out' = {}, cached' = cached, calls' = calls
  PROVE  KnownInv'
<1>1. \A k : Known(k)' <=> Known(k)
  BY DEF Known
<1>2. \A x \in Contexts : ctx'[x] = ctx[x] \/ ctx'[x].req = r.req
  BY SetStateMoves
<1> QED BY <1>1, <1>2 DEF KnownInv, Owed

(* A response of either kind to a request that is known, or becomes so. *)
LEMMA ReplyKnown ==
  ASSUME CoreInv, DataInv, KnownInv, NEW s \in Contexts, NEW r \in Context,
         r.req \in Wire, NEW next, SendResp(s, r, next) \/ ErrorReply(s, r, next),
         calls'[Key(r.req)] > 0, \A k \in Keys : Known(k) => calls'[k] > 0
  PROVE  KnownInv'
<1> DEFINE OwedNext(y) == /\ calls'[y.re] > 0
                          /\ y.code = "empty" => y.mid = y.re[2]
<1>1. PICK m \in Mids, code \in {"response", "error"} :
        /\ out' \subseteq {Encoded(s, r, code, m)}
        /\ cached' = Keep(r, Encoded(s, r, code, m))
        /\ SetState(s, AfterEncode(r, m), next, servers)
  BY DEF SendResp, ErrorReply
<1> DEFINE msg == Encoded(s, r, code, m)
<1>2. msg.re = Key(r.req) /\ msg.code # "empty"
  BY DEF Encoded
<1>3. OwedNext(msg)
  BY <1>2
<1>4. AfterEncode(r, m) \in Context /\ AfterEncode(r, m).req = r.req
  BY EncodedContext
<1>5. \A x \in Contexts : ctx'[x] = ctx[x] \/ ctx'[x].req = r.req
  BY <1>1, <1>4, SetStateMoves
<1>6. Key(r.req) \in Keys
  BY ServerAssumption DEF Key, Keys, Datagram
<1>7. ASSUME NEW x \in Contexts, ctx'[x].st # "none"
      PROVE  calls'[Key(ctx'[x].req)] > 0
  <2>1. CASE ctx'[x] = ctx[x]
    <3>1. Known(Key(ctx[x].req)) /\ ctx[x].req \in Wire
      BY <1>7, <2>1 DEF KnownInv, CoreInv, Fit
    <3>2. Key(ctx[x].req) \in Keys
      BY <3>1, ServerAssumption DEF Key, Keys, Datagram
    <3> QED BY <2>1, <3>1, <3>2
  <2>2. CASE ctx'[x].req = r.req
    BY <2>2
  <2> QED BY <1>5, <2>1, <2>2
<1>8. ASSUME NEW k \in Keys, cached'[k] # NoPdu PROVE OwedNext(cached'[k])
  <2>1. CASE cached'[k] = cached[k]
    <3>1. Owed(cached[k]) /\ cached[k] \in Message
      BY <1>8, <2>1 DEF KnownInv, DataInv
    <3>2. cached[k].re \in Keys
      BY <3>1 DEF Message
    <3> QED BY <2>1, <3>1, <3>2 DEF Owed
  <2>2. CASE cached'[k] = msg
    BY <1>3, <2>2
  <2>3. cached'[k] = cached[k] \/ cached'[k] = msg
    BY <1>1, <1>6 DEF Keep, DataInv
  <2> QED BY <2>1, <2>2, <2>3
<1>9. \A x \in out' : OwedNext(x)
  BY <1>1, <1>3
<1> QED BY <1>7, <1>8, <1>9 DEF KnownInv, Owed, Known

LEMMA RequestKnown ==
  ASSUME Served, CoreInv, DataInv, KnownInv, NEW s \in Contexts, NEW d \in Wire,
         Request(s, d)
  PROVE  KnownInv'
<1>1. d.ok /\ "notfound" \notin FirstRc /\ Key(d) \in Keys
  BY ServerAssumption DEF Served, Key, Keys, Datagram
<1>2. Ready(s, d) \/ Error(s, d) \/ Wait(s, d) \/ WaitFails(s, d)
  BY <1>1 DEF Request, BadOptions, NotFound
<1>3. Called(d)
  BY <1>2 DEF Ready, Error, Wait, WaitFails
<1>4. calls'[Key(d)] > 0 /\ \A k \in Keys : Known(k) => calls'[k] > 0
  BY <1>1, <1>3 DEF Called, Known, DataInv
<1>5. Accepted(d) \in Context /\ Accepted(d).req = d
  BY NewContext
<1>6. CASE Error(s, d) \/ WaitFails(s, d)
  BY <1>4, <1>5, <1>6, ReplyKnown DEF Error, WaitFails
<1>7. CASE Ready(s, d)
  <2>1. ASSUME NEW m \in Mids
        PROVE  /\ AfterEncode(Accepted(d), m) \in Context
               /\ AfterEncode(Accepted(d), m).req = d
    BY <1>5, EncodedContext
  <2> QED BY <1>4, <1>5, <1>7, <2>1, ReplyKnown DEF Ready
<1>8. CASE Wait(s, d)
  <2> DEFINE ev == IF d.px THEN {"wakeup"} ELSE {"resched"}
             r  == [Accepted(d) EXCEPT !.armed = ev]
             OwedNext(y) == /\ calls'[y.re] > 0
                            /\ y.code = "empty" => y.mid = y.re[2]
  <2>1. SetState(s, r, "ack_sent", Append(servers, s))
    BY <1>8 DEF Wait
  <2>2. ev \in SUBSET Event
    BY DEF Event
  <2> HIDE DEF ev
  <2>3. r \in Context /\ r.req = d
    BY <1>5, <2>2 DEF Context
  <2> HIDE DEF r
  <2>4. \A x \in Contexts : ctx'[x] = ctx[x] \/ ctx'[x].req = d
    BY <2>1, <2>3, SetStateMoves
  <2>5. ASSUME NEW x \in Contexts, ctx'[x].st # "none"
        PROVE  calls'[Key(ctx'[x].req)] > 0
    <3>1. CASE ctx'[x] = ctx[x]
      <4>1. Known(Key(ctx[x].req)) /\ ctx[x].req \in Wire
        BY <2>5, <3>1 DEF KnownInv, CoreInv, Fit
      <4>2. Key(ctx[x].req) \in Keys
        BY <4>1, ServerAssumption DEF Key, Keys, Datagram
      <4> QED BY <1>4, <3>1, <4>1, <4>2
    <3> QED BY <1>4, <2>4, <3>1
  <2>6. SeparateAck(s, d).re = Key(d) /\ SeparateAck(s, d).mid = Key(d)[2]
    BY DEF SeparateAck, Key
  <2>7. OwedNext(SeparateAck(s, d))
    BY <1>4, <2>6
  <2>8. ASSUME NEW k \in Keys, cached'[k] # NoPdu PROVE OwedNext(cached'[k])
    <3>1. CASE cached'[k] = cached[k]
      <4>1. Owed(cached[k]) /\ cached[k] \in Message
        BY <2>8, <3>1 DEF KnownInv, DataInv
      <4>2. cached[k].re \in Keys
        BY <4>1 DEF Message
      <4> QED BY <1>4, <3>1, <4>1, <4>2 DEF Owed
    <3>2. cached'[k] = cached[k] \/ cached'[k] = SeparateAck(s, d)
      BY <1>1, <1>5, <1>8 DEF Wait, Keep, DataInv
    <3> QED BY <2>7, <3>1, <3>2
  <2>9. \A y \in out' : OwedNext(y)
    BY <1>8, <2>7 DEF Wait
  <2> QED BY <2>5, <2>8, <2>9 DEF KnownInv, Owed, Known
<1> QED BY <1>2, <1>6, <1>7, <1>8

(* Timers and control messages say nothing of other requests either. *)
LEMMA KnownStep ==
  ASSUME Served, CoreInv, DataInv, KnownInv, [Next]_vars
  PROVE  KnownInv'
<1>s. ASSUME ctx' = ctx, calls' = calls, out' \subseteq {y \in Message : Owed(y)},
             \A k \in Keys : cached'[k] \in {cached[k], NoPdu}
      PROVE  KnownInv'
  BY <1>s DEF KnownInv, Owed, Known
<1>w. ASSUME NEW x \in Contexts, ctx[x].st # "none"
      PROVE  /\ ctx[x] \in Context /\ ctx[x].req \in Wire
             /\ Known(Key(ctx[x].req))
  BY <1>w DEF KnownInv, CoreInv, Fit
<1>1. ASSUME NEW d \in Wire, RecvDup(d) PROVE KnownInv'
  <2>1. Key(d) \in Keys
    BY ServerAssumption DEF Key, Keys, Datagram
  <2>2. out' \subseteq {y \in Message : Owed(y)}
    BY <1>1, <2>1 DEF RecvDup, KnownInv, DataInv
  <2> QED BY <1>1, <1>s, <2>2 DEF RecvDup
<1>2. ASSUME NEW d \in Wire, RecvUnmatched(d) PROVE KnownInv'
  BY <1>2, <1>s DEF RecvUnmatched
<1>3. ASSUME NEW s \in Contexts, NEW d \in Wire,
             RecvRst(s, d) \/ RecvAck(s, d) \/ RecvUnexpected(s, d)
      PROVE  KnownInv'
  <2>1. IsFirstMatch(s, d)
    BY <1>3 DEF RecvRst, RecvAck, RecvUnexpected
  <2>2. ctx[s].st # "none"
    BY <2>1, MatchedContext DEF Live
  <2>3. calls' = calls
    BY <1>3 DEF RecvRst, RecvAck, RecvUnexpected
  <2>4. CASE RecvUnexpected(s, d)
    BY <1>w, <2>2, <2>3, <2>4, ReplyKnown DEF RecvUnexpected, Known
  <2>5. CASE RecvRst(s, d) \/ RecvAck(s, d)
    BY <1>w, <2>2, <2>3, <2>5, SilentKnown DEF RecvRst, RecvAck
  <2> QED BY <1>3, <2>4, <2>5
<1>4. ASSUME NEW s \in Contexts,
             Deferred(s) \/ Wakeup(s) \/ WakeupFails(s) \/ Retransmit(s)
      PROVE  KnownInv'
  <2>1. calls' = calls
    BY <1>4
    DEF Deferred, Resched, ReschedFails, UseAfterFree, Wakeup, WakeupFails,
        Retransmit, CoapTimeout, CoapRetry, CoapRetryFails
  <2>2. Fit(ctx[s])
    BY DEF CoreInv
  <2>3. CASE UseAfterFree(s)
    BY <1>s, <2>3 DEF UseAfterFree
  <2>4. CASE Resched(s) \/ Wakeup(s) \/ ReschedFails(s) \/ WakeupFails(s)
    <3>1. ctx[s].st # "none"
      BY <2>4 DEF Resched, Wakeup, ReschedFails, WakeupFails
    <3>2. \A e : Fired(s, e) \in Context /\ Fired(s, e).req = ctx[s].req
      BY FiredContext
    <3>3. \A e : \A m \in Mids : /\ AfterEncode(Fired(s, e), m) \in Context
                                /\ AfterEncode(Fired(s, e), m).req = ctx[s].req
      BY <3>2, EncodedContext
    <3>4. CASE Resched(s) \/ Wakeup(s)
      BY <1>w, <2>1, <3>1, <3>2, <3>4, ReplyKnown
      DEF Resched, Wakeup, LateResponse, Known
    <3>5. CASE ReschedFails(s)
      BY <1>w, <2>1, <3>1, <3>2, <3>3, <3>5, SilentKnown DEF ReschedFails
    <3>6. CASE WakeupFails(s)
      <4>1. PICK q : ctx' = [ctx EXCEPT ![s] = q] /\ q.req = ctx[s].req
        BY <3>3, <3>6 DEF WakeupFails
      <4>2. \A x \in Contexts : ctx'[x] = ctx[x] \/ ctx'[x].req = ctx[s].req
        BY <4>1 DEF CoreInv
      <4>3. cached' = cached /\ out' = {}
        BY <3>6 DEF WakeupFails
      <4> QED BY <1>w, <2>1, <3>1, <4>2, <4>3 DEF KnownInv, Owed, Known
    <3> QED BY <2>4, <3>4, <3>5, <3>6
  <2>5. CASE Retransmit(s)
    <3>1. "coap" \in ctx[s].armed
      BY <2>5 DEF Retransmit, CoapTimeout, CoapRetry, CoapRetryFails, Pending
    <3>2. ctx[s].st # "none"
      BY <2>2, <3>1 DEF Fit, Unused
    <3> DEFINE r == [ctx[s] EXCEPT !.st = "coap_retry"]
    <3>3. r \in Context /\ r.req = ctx[s].req
      BY RetryContext
    <3>4. CASE CoapTimeout(s)
      BY <1>w, <3>2, <3>4, SilentKnown DEF CoapTimeout
    <3>5. CASE CoapRetry(s)
      <4>1. SendResp(s, r, "wait_ack")
        BY <3>5 DEF CoapRetry
      <4> HIDE DEF r
      <4> QED BY <1>w, <2>1, <3>2, <3>3, <4>1, ReplyKnown DEF Known
    <3>6. CASE CoapRetryFails(s)
      <4>1. PICK m \in Mids :
              /\ cached' = Keep(r, Encoded(s, r, "response", m))
              /\ SetState(s, AfterEncode(r, m), "internal_err", servers)
        BY <3>6 DEF CoapRetryFails
      <4> HIDE DEF r
      <4>2. AfterEncode(r, m) \in Context /\ AfterEncode(r, m).req = ctx[s].req
        BY <3>3, EncodedContext
      <4>3. \A x \in Contexts : ctx'[x] = ctx[x] \/ ctx'[x].req = ctx[s].req
        BY <4>1, <4>2, SetStateMoves
      <4>4. /\ Encoded(s, r, "response", m).re = Key(ctx[s].req)
            /\ Encoded(s, r, "response", m).code # "empty"
        BY <3>3 DEF Encoded
      <4>5. Owed(Encoded(s, r, "response", m))
        BY <1>w, <3>2, <4>4 DEF Owed
      <4>6. Key(r.req) \in Keys
        BY <1>w, <3>2, <3>3, ServerAssumption DEF Key, Keys, Datagram
      <4>7. \A k \in Keys :
              cached'[k] = cached[k] \/ cached'[k] = Encoded(s, r, "response", m)
        BY <4>1, <4>6 DEF Keep, DataInv
      <4>8. out' = {}
        BY <3>6 DEF CoapRetryFails
      <4> QED BY <1>w, <2>1, <3>2, <4>3, <4>5, <4>7, <4>8
              DEF KnownInv, Owed, Known
    <3> QED BY <2>5, <3>4, <3>5, <3>6 DEF Retransmit
  <2> QED BY <1>4, <2>3, <2>4, <2>5 DEF Deferred
<1>5. ASSUME NEW k \in Keys, DupZap(k) PROVE KnownInv'
  BY <1>5, <1>s DEF DupZap, DataInv
<1>6. CASE UNCHANGED vars
  BY <1>6 DEF vars, KnownInv, Owed, Known
<1> QED BY <1>1, <1>2, <1>3, <1>4, <1>5, <1>6, RequestKnown DEF Next

-----------------------------------------------------------------------------
(* The reply to a duplicate *)

(* A request of the key k came to the context s, and whatever may still    *)
(* reply under k is that context or was open by then.                      *)
Originates(k, s) ==
  /\ ctx[s].st # "none" /\ Key(ctx[s].req) = k
  /\ Open(k) \subseteq {s} \cup made[k].older

(* The inductive invariant behind DuplicateGetsItsReply. *)
OriginInv ==
  /\ \A k \in Keys :
       seen[k] # "yes" => made[k] = NoOrigin /\ cached[k] = NoPdu
  /\ \A k \in Keys : \A s \in made[k].own : Originates(k, s)
  /\ DuplicateGetsItsReply

(* What a step of s, with a request of the key k, may do to the records.   *)
OwnReply(s, k) ==
  \A j \in Keys : \/ cached'[j] = cached[j]
                  \/ /\ j = k /\ seen'[j] = "yes"
                     /\ cached'[j] \in Message /\ cached'[j].srv = s

(* A context that is open replies to its own request, or to a later one of *)
(* the same key that came while it was open.                               *)
LEMMA OpenOrigin ==
  ASSUME ServerInv, OriginInv, made' = made,
         \A k \in Keys : seen'[k] \in {seen[k], "yes"},
         NEW s \in Contexts, ctx[s].st \in Live,
         \A x \in Contexts \ {s} : ctx'[x] = ctx[x],
         ctx'[s].req = ctx[s].req, ctx'[s].st # "none",
         OwnReply(s, Key(ctx[s].req))
  PROVE  OriginInv'
<1>1. \A k \in Keys : made[k].own \subseteq Contexts
  BY DEF ServerInv, DataInv, Origin
<1>2. \A k \in Keys : Open(k)' \subseteq Open(k)
  BY DEF Open, Live
<1>3. \A k \in Keys : seen'[k] # "yes" =>
        made'[k] = NoOrigin /\ cached'[k] = NoPdu
  BY DEF OriginInv, OwnReply
<1>4. ASSUME NEW k \in Keys, NEW t \in made'[k].own
      PROVE  /\ Originates(k, t)'
             /\ cached'[k] # NoPdu => cached'[k].srv \in {t} \cup made'[k].older
             /\ ctx'[t].req.con /\ ctx'[t].req.ok => cached'[k] # NoPdu
  <2>1. t \in made[k].own /\ t \in Contexts
    BY <1>1, <1>4
  <2>2. Originates(k, t)
    BY <2>1 DEF OriginInv
  <2>3. ctx'[t].req = ctx[t].req /\ ctx'[t].st # "none"
    BY <2>1, <2>2 DEF Originates
  <2>4. Originates(k, t)'
    BY <1>2, <2>2, <2>3 DEF Originates
  <2>5. /\ cached[k] # NoPdu => cached[k].srv \in {t} \cup made[k].older
        /\ ctx[t].req.con /\ ctx[t].req.ok => cached[k] # NoPdu
    BY <2>1 DEF OriginInv, DuplicateGetsItsReply
  <2>6. CASE cached'[k] = cached[k]
    BY <2>3, <2>4, <2>5, <2>6
  <2>7. CASE k = Key(ctx[s].req) /\ cached'[k] \in Message /\ cached'[k].srv = s
    <3>1. s \in Open(k)
      BY <2>7 DEF Open, Live
    <3>2. cached'[k].srv \in {t} \cup made'[k].older
      BY <2>2, <2>7, <3>1 DEF Originates
    <3>3. cached'[k] # NoPdu
      BY <2>7, ServerAssumption
    <3> QED BY <2>4, <3>2, <3>3
  <2> QED BY <2>6, <2>7 DEF OwnReply
<1> QED BY <1>3, <1>4 DEF OriginInv, DuplicateGetsItsReply

(* A new request makes its record its own. *)
LEMMA NewOrigin ==
  ASSUME ServerInv, OriginInv, NEW s \in Contexts, NEW d \in Wire,
         NewRequest(s, d),
         \A x \in Contexts \ {s} : ctx'[x] = ctx[x],
         ctx'[s].req = d, ctx'[s].st # "none",
         OwnReply(s, Key(d)),
         d.con /\ d.ok => cached'[Key(d)] # NoPdu
  PROVE  OriginInv'
<1> DEFINE kd == Key(d)
<1>1. kd \in Keys
  BY ServerAssumption DEF Key, Keys, Datagram
<1>2. /\ seen[kd] = "no" /\ ctx[s].st = "none"
      /\ \A k \in Keys : seen'[k] = IF k = kd THEN "yes" ELSE seen[k]
  BY <1>1 DEF NewRequest, Receives, Record, ServerInv, DataInv, Unused
<1>3. \A k \in Keys :
        made'[k] = IF k = kd THEN [own |-> {s}, older |-> Open(kd)] ELSE made[k]
  BY <1>1 DEF NewRequest, ServerInv, DataInv
<1>4. cached[kd] = NoPdu
  BY <1>1, <1>2 DEF OriginInv
<1>5. Key(ctx'[s].req) = kd
  OBVIOUS
<1> HIDE DEF kd
<1>6. \A k \in Keys : seen'[k] # "yes" =>
        made'[k] = NoOrigin /\ cached'[k] = NoPdu
  BY <1>2, <1>3 DEF OriginInv, OwnReply
<1>7. ASSUME NEW t \in made'[kd].own
      PROVE  /\ Originates(kd, t)'
             /\ cached'[kd] # NoPdu => cached'[kd].srv \in {t} \cup made'[kd].older
             /\ ctx'[t].req.con /\ ctx'[t].req.ok => cached'[kd] # NoPdu
  <2>1. t = s /\ made'[kd].older = Open(kd)
    BY <1>1, <1>3, <1>7
  <2>2. Open(kd)' \subseteq {s} \cup Open(kd)
    BY DEF Open
  <2>3. Originates(kd, t)'
    BY <1>5, <2>1, <2>2 DEF Originates
  <2>4. cached'[kd] # NoPdu => cached'[kd].srv = s
    BY <1>1, <1>4 DEF OwnReply
  <2> QED BY <2>1, <2>3, <2>4 DEF kd
<1>8. ASSUME NEW k \in Keys, k # kd, NEW t \in made'[k].own
      PROVE  /\ Originates(k, t)'
             /\ cached'[k] # NoPdu => cached'[k].srv \in {t} \cup made'[k].older
             /\ ctx'[t].req.con /\ ctx'[t].req.ok => cached'[k] # NoPdu
  <2>1. made'[k] = made[k] /\ cached'[k] = cached[k]
    BY <1>3, <1>8 DEF OwnReply, kd
  <2>2. t \in made[k].own /\ t \in Contexts /\ Originates(k, t)
    BY <1>8, <2>1 DEF OriginInv, ServerInv, DataInv, Origin
  <2>3. ctx'[t] = ctx[t]
    BY <1>2, <2>2 DEF Originates
  <2>4. Open(k)' \subseteq Open(k)
    BY <1>5, <1>8 DEF Open
  <2>5. Originates(k, t)'
    BY <2>1, <2>2, <2>3, <2>4 DEF Originates
  <2> QED BY <2>1, <2>2, <2>3, <2>5 DEF OriginInv, DuplicateGetsItsReply
<1> QED BY <1>6, <1>7, <1>8 DEF OriginInv, DuplicateGetsItsReply

(* ec_pdu_send writes to no other record than that of its request. *)
LEMMA KeepOwn ==
  ASSUME DataInv, NEW s, NEW r, Key(r.req) \in Keys,
         NEW msg \in Message, msg.srv = s, cached' = Keep(r, msg)
  PROVE  /\ OwnReply(s, Key(r.req))
         /\ r.st # "ack_sent" /\ seen'[Key(r.req)] = "yes"
              => cached'[Key(r.req)] # NoPdu
<1>1. msg # NoPdu
  BY ServerAssumption
<1>2. CASE r.st # "ack_sent" /\ seen'[Key(r.req)] = "yes"
  BY <1>1, <1>2 DEF Keep, OwnReply, DataInv
<1>3. CASE ~(r.st # "ack_sent" /\ seen'[Key(r.req)] = "yes")
  BY <1>3 DEF Keep, OwnReply
<1> QED BY <1>2, <1>3

LEMMA ReplyOwn ==
  ASSUME CoreInv, DataInv, NEW s \in Contexts, NEW r \in Context,
         r.req \in Wire, NEW next, SendResp(s, r, next) \/ ErrorReply(s, r, next)
  PROVE  /\ \A x \in Contexts \ {s} : ctx'[x] = ctx[x]
         /\ \/ ctx'[s] = ctx[s] /\ proc' = "errx"
            \/ ctx'[s].st = next /\ ctx'[s].req = r.req
         /\ OwnReply(s, Key(r.req))
         /\ r.st # "ack_sent" /\ seen'[Key(r.req)] = "yes"
              => cached'[Key(r.req)] # NoPdu
<1>1. PICK m \in Mids, code \in {"response", "error"} :
        /\ cached' = Keep(r, Encoded(s, r, code, m))
        /\ SetState(s, AfterEncode(r, m), next, servers)
  BY DEF SendResp, ErrorReply
<1>2. AfterEncode(r, m) \in Context /\ AfterEncode(r, m).req = r.req
  BY EncodedContext
<1>3. /\ \A x \in Contexts \ {s} : ctx'[x] = ctx[x]
      /\ \/ ctx'[s] = ctx[s] /\ proc' = "errx"
         \/ ctx'[s].st = next /\ ctx'[s].req = r.req
  BY <1>1, <1>2, SetStateMoves
<1>4. Encoded(s, r, code, m) \in Message /\ Encoded(s, r, code, m).srv = s
  BY EncodedType DEF Encoded
<1>5. Key(r.req) \in Keys
  BY ServerAssumption DEF Key, Keys, Datagram
<1> QED BY <1>1, <1>3, <1>4, <1>5, KeepOwn

LEMMA RequestOrigin ==
  ASSUME ServerInv, OriginInv, NEW s \in Contexts, NEW d \in Wire, Request(s, d),
         ServerInv'
  PROVE  OriginInv'
<1>1. NewRequest(s, d) /\ proc' # "errx" /\ CoreInv /\ DataInv
  BY DEF Request, BadOptions, NotFound, Ready, Error, Wait, WaitFails,
         ServerInv, CoreInv
<1>2. /\ Accepted(d) \in Context /\ [Unused EXCEPT !.req = d] \in Context
      /\ Accepted(d).st = "req_ok" /\ Accepted(d).req = d
      /\ [Unused EXCEPT !.req = d].req = d
  BY NewContext
<1>3. Key(d) \in Keys /\ seen'[Key(d)] = "yes"
  <2>1. Key(d) \in Keys
    BY ServerAssumption DEF Key, Keys, Datagram
  <2> QED BY <1>1, <2>1 DEF NewRequest, Record, DataInv
<1>r. ASSUME NEW r \in Context, r.req = d, r.st = "req_ok",
             NEW next \in {"resp_done", "internal_err"},
             SendResp(s, r, next) \/ ErrorReply(s, r, next)
      PROVE  OriginInv'
  <2>1. /\ \A x \in Contexts \ {s} : ctx'[x] = ctx[x]
        /\ ctx'[s].st = next /\ ctx'[s].req = d
        /\ OwnReply(s, Key(d)) /\ cached'[Key(d)] # NoPdu
    BY <1>1, <1>3, <1>r, ReplyOwn
  <2> QED BY <1>1, <2>1, NewOrigin
<1>4. CASE BadOptions(s, d)
  <2> DEFINE r == [Unused EXCEPT !.req = d]
  <2>1. SetState(s, r, "internal_err", servers) /\ cached' = cached /\ ~d.ok
    BY <1>4 DEF BadOptions
  <2>2. r \in Context /\ r.req = d
    BY <1>2
  <2> HIDE DEF r
  <2>3. /\ \A x \in Contexts \ {s} : ctx'[x] = ctx[x]
        /\ ctx'[s].st = "internal_err" /\ ctx'[s].req = d
    BY <1>1, <2>1, <2>2, SetStateMoves
  <2> QED BY <1>1, <2>1, <2>3, NewOrigin DEF OwnReply
<1>5. CASE NotFound(s, d) \/ Error(s, d) \/ WaitFails(s, d)
  BY <1>2, <1>5, <1>r DEF NotFound, Error, WaitFails
<1>6. CASE Ready(s, d)
  <2>1. ASSUME NEW m \in Mids
        PROVE  /\ AfterEncode(Accepted(d), m) \in Context
               /\ AfterEncode(Accepted(d), m).req = d
               /\ AfterEncode(Accepted(d), m).st = "req_ok"
    BY <1>2, EncodedContext
  <2> QED BY <1>2, <1>6, <1>r, <2>1 DEF Ready
<1>7. CASE Wait(s, d)
  <2> DEFINE ev == IF d.px THEN {"wakeup"} ELSE {"resched"}
             r  == [Accepted(d) EXCEPT !.armed = ev]
  <2>1. SetState(s, r, "ack_sent", Append(servers, s))
    BY <1>7 DEF Wait
  <2>2. ev \in SUBSET Event
    BY DEF Event
  <2> HIDE DEF ev
  <2>3. r \in Context /\ r.req = d
    BY <1>2, <2>2 DEF Context
  <2> HIDE DEF r
  <2>4. /\ \A x \in Contexts \ {s} : ctx'[x] = ctx[x]
        /\ ctx'[s].st = "ack_sent" /\ ctx'[s].req = d
    BY <1>1, <2>1, <2>3, SetStateMoves
  <2>5. OwnReply(s, Key(d)) /\ (d.con => cached'[Key(d)] # NoPdu)
    <3>1. SeparateAck(s, d) \in Message /\ SeparateAck(s, d).srv = s
      BY <1>3, ServerAssumption DEF SeparateAck, Message, Datagram
    <3>2. CASE d.con
      <4>1. cached' = Keep(Accepted(d), SeparateAck(s, d))
        BY <1>7, <3>2 DEF Wait
      <4> QED BY <1>1, <1>2, <1>3, <3>1, <4>1, KeepOwn
    <3>3. CASE ~d.con
      BY <1>7, <3>3 DEF Wait, OwnReply
    <3> QED BY <3>2, <3>3
  <2> QED BY <1>1, <2>4, <2>5, NewOrigin
<1> QED BY <1>4, <1>5, <1>6, <1>7 DEF Request

(* Control messages, timers and the user reach open contexts only. *)
LEMMA LaterOrigin ==
  ASSUME ServerInv, OriginInv, ServerInv', NEW s \in Contexts,
         \/ \E d \in Wire : RecvRst(s, d) \/ RecvAck(s, d) \/ RecvUnexpected(s, d)
         \/ Resched(s) \/ ReschedFails(s) \/ Wakeup(s) \/ WakeupFails(s)
         \/ Retransmit(s)
  PROVE  OriginInv'
<1>1. CoreInv /\ DataInv /\ proc' # "errx"
  BY DEF ServerInv, CoreInv
<1>2. ctx[s].st \in Live /\ ctx[s] \in Context /\ ctx[s].req \in Wire
  <2>1. Fit(ctx[s])
    BY <1>1 DEF CoreInv
  <2>2. CASE \E d \in Wire : RecvRst(s, d) \/ RecvAck(s, d) \/ RecvUnexpected(s, d)
    BY <1>1, <2>2, MatchedContext DEF RecvRst, RecvAck, RecvUnexpected
  <2>3. CASE Resched(s) \/ ReschedFails(s) \/ Wakeup(s) \/ WakeupFails(s)
    BY <2>1, <2>3 DEF Resched, ReschedFails, Wakeup, WakeupFails, Fit, Live
  <2>4. CASE Retransmit(s)
    <3>1. "coap" \in ctx[s].armed
      BY <2>4 DEF Retransmit, CoapTimeout, CoapRetry, CoapRetryFails, Pending
    <3>2. ctx[s].st # "none" /\ ctx[s].st \notin FinalState
      BY <2>1, <3>1 DEF Fit, Unused
    <3> QED BY <2>1, <3>2 DEF Fit, Resting, FinalState, Live
  <2> QED BY <2>2, <2>3, <2>4
<1>3. made' = made /\ \A k \in Keys : seen'[k] \in {seen[k], "yes"}
  <2>1. ASSUME NEW d \in Wire, Record(d)
        PROVE  \A k \in Keys : seen'[k] \in {seen[k], "yes"}
    BY <1>1, <2>1 DEF Record, DataInv
  <2> QED BY <2>1 DEF RecvRst, RecvAck, RecvUnexpected, Resched, ReschedFails,
         Wakeup, WakeupFails, Retransmit, CoapTimeout, CoapRetry,
         CoapRetryFails
<1>m. ASSUME NEW r \in Context, r.req = ctx[s].req, NEW next, next # "none",
             SetState(s, r, next, servers), OwnReply(s, Key(ctx[s].req))
      PROVE  OriginInv'
  <2>1. /\ \A x \in Contexts \ {s} : ctx'[x] = ctx[x]
        /\ ctx'[s].st = next /\ ctx'[s].req = ctx[s].req
    BY <1>1, <1>m, SetStateMoves
  <2> QED BY <1>2, <1>3, <1>m, <2>1, OpenOrigin
<1>r. ASSUME NEW r \in Context, r.req = ctx[s].req, NEW next, next # "none",
             SendResp(s, r, next) \/ ErrorReply(s, r, next)
      PROVE  OriginInv'
  <2>1. /\ \A x \in Contexts \ {s} : ctx'[x] = ctx[x]
        /\ ctx'[s].st = next /\ ctx'[s].req = ctx[s].req
        /\ OwnReply(s, Key(ctx[s].req))
    BY <1>1, <1>2, <1>r, ReplyOwn
  <2> QED BY <1>2, <1>3, <1>r, <2>1, OpenOrigin
<1>f. ASSUME NEW e
      PROVE  /\ Fired(s, e) \in Context /\ Fired(s, e).req = ctx[s].req
             /\ Fired(s, e).st = ctx[s].st
             /\ \A m \in Mids : /\ AfterEncode(Fired(s, e), m) \in Context
                               /\ AfterEncode(Fired(s, e), m).req = ctx[s].req
                               /\ AfterEncode(Fired(s, e), m).st = ctx[s].st
  BY <1>1, FiredContext, EncodedContext
<1>4. ASSUME NEW d \in Wire, RecvRst(s, d) \/ RecvAck(s, d) PROVE OriginInv'
  BY <1>2, <1>4, <1>m DEF RecvRst, RecvAck, OwnReply
<1>5. ASSUME NEW d \in Wire, RecvUnexpected(s, d) PROVE OriginInv'
  BY <1>2, <1>5, <1>r DEF RecvUnexpected
<1>6. CASE Resched(s) \/ Wakeup(s)
  BY <1>6, <1>f, <1>r DEF Resched, Wakeup, LateResponse
<1>7. CASE ReschedFails(s)
  <2>1. OwnReply(s, Key(ctx[s].req))
    BY <1>7 DEF ReschedFails, OwnReply
  <2> QED BY <1>7, <1>f, <1>m, <2>1 DEF ReschedFails
<1>8. CASE WakeupFails(s)
  <2>1. PICK m \in Mids :
          ctx' = [ctx EXCEPT ![s] = AfterEncode(Fired(s, "wakeup"), m)]
    BY <1>8 DEF WakeupFails
  <2>2. /\ \A x \in Contexts \ {s} : ctx'[x] = ctx[x]
        /\ ctx'[s].req = ctx[s].req /\ ctx'[s].st = ctx[s].st
    BY <1>1, <1>f, <2>1 DEF CoreInv
  <2>3. OwnReply(s, Key(ctx[s].req))
    BY <1>8 DEF WakeupFails, OwnReply
  <2> QED BY <1>2, <1>3, <2>2, <2>3, OpenOrigin DEF Live
<1>9. CASE Retransmit(s)
  <2> DEFINE r == [ctx[s] EXCEPT !.st = "coap_retry"]
  <2>1. r \in Context /\ r.req = ctx[s].req
    BY <1>1, RetryContext
  <2>2. CASE CoapTimeout(s)
    BY <1>2, <1>m, <2>2 DEF CoapTimeout, OwnReply
  <2>3. CASE CoapRetry(s)
    BY <1>r, <2>1, <2>3 DEF CoapRetry
  <2>4. CASE CoapRetryFails(s)
    <3>1. PICK m \in Mids :
            /\ cached' = Keep(r, Encoded(s, r, "response", m))
            /\ SetState(s, AfterEncode(r, m), "internal_err", servers)
      BY <2>4 DEF CoapRetryFails
    <3> HIDE DEF r
    <3>2. AfterEncode(r, m) \in Context /\ AfterEncode(r, m).req = ctx[s].req
      BY <2>1, EncodedContext
    <3>3. /\ Encoded(s, r, "response", m) \in Message
          /\ Encoded(s, r, "response", m).srv = s
      BY <1>2, <2>1, EncodedType DEF Encoded
    <3>4. Key(r.req) \in Keys
      BY <1>2, <2>1, ServerAssumption DEF Key, Keys, Datagram
    <3>5. OwnReply(s, Key(ctx[s].req))
      BY <1>1, <2>1, <3>1, <3>3, <3>4, KeepOwn
    <3> QED BY <1>m, <3>1, <3>2, <3>5
  <2> QED BY <1>9, <2>2, <2>3, <2>4 DEF Retransmit
<1> QED BY <1>4, <1>5, <1>6, <1>7, <1>8, <1>9

LEMMA OriginStep ==
  ASSUME ServerInv, OriginInv, [Next]_vars, ServerInv'
  PROVE  OriginInv'
<1>s. ASSUME ctx' = ctx, cached' = cached, made' = made,
             \A k \in Keys : seen'[k] \in {seen[k], "yes"}
      PROVE  OriginInv'
  <2>1. \A k \in Keys : \A s : Originates(k, s)' <=> Originates(k, s)
    BY <1>s DEF Originates, Open
  <2>2. DuplicateGetsItsReply'
    BY <1>s DEF OriginInv, DuplicateGetsItsReply
  <2> QED BY <1>s, <2>1, <2>2 DEF OriginInv
<1>1. ASSUME NEW d \in Wire, RecvDup(d) \/ RecvUnmatched(d) PROVE OriginInv'
  <2>1. \A k \in Keys : seen'[k] \in {seen[k], "yes"}
    BY <1>1 DEF RecvDup, RecvUnmatched, Record, ServerInv, DataInv
  <2> QED BY <1>1, <1>s, <2>1 DEF RecvDup, RecvUnmatched
<1>2. ASSUME NEW s \in Contexts, UseAfterFree(s) PROVE OriginInv'
  BY <1>2, <1>s DEF UseAfterFree
<1>3. ASSUME NEW k \in Keys, DupZap(k) PROVE OriginInv'
  <2>1. ctx' = ctx
    BY <1>3 DEF DupZap
  <2>2. \A j \in Keys \ {k} : /\ seen'[j] = seen[j] /\ cached'[j] = cached[j]
                              /\ made'[j] = made[j]
    BY <1>3 DEF DupZap, Expired, ServerInv, DataInv
  <2>3. made'[k] = NoOrigin /\ cached'[k] = NoPdu
    BY <1>3 DEF DupZap, Expired, ServerInv, DataInv
  <2>4. \A j \in Keys \ {k} : \A s : Originates(j, s)' <=> Originates(j, s)
    BY <2>1, <2>2 DEF Originates, Open
  <2>5. \A s : s \notin NoOrigin.own
    BY DEF NoOrigin
  <2> QED BY <2>1, <2>2, <2>3, <2>4, <2>5 DEF OriginInv, DuplicateGetsItsReply
<1>4. CASE UNCHANGED vars
  BY <1>4, <1>s DEF vars
<1>5. ASSUME NEW s \in Contexts,
             \/ \E d \in Wire : RecvRst(s, d) \/ RecvAck(s, d) \/ RecvUnexpected(s, d)
             \/ Resched(s) \/ ReschedFails(s) \/ Wakeup(s) \/ WakeupFails(s)
             \/ Retransmit(s)
      PROVE  OriginInv'
  BY <1>5, LaterOrigin
<1>6. ASSUME NEW s \in Contexts, NEW d \in Wire, Request(s, d) PROVE OriginInv'
  BY <1>6, RequestOrigin
<1> QED BY <1>1, <1>2, <1>3, <1>4, <1>5, <1>6 DEF Next, Deferred

(* A copy of a request gets the reply of the context that served it, or of *)
(* one with the same MID that was open when the request came, whatever     *)
(* control messages, timers and failures come in between, and for a sound  *)
(* CON request it always gets one.  The replies of a context that was over *)
(* by then never come back, though MIDs are taken again and retransmitted  *)
(* responses are written to whatever record has their key.                 *)
THEOREM DuplicatesAnswered == Spec => []DuplicateGetsItsReply
<1>1. Init => ServerInv /\ OriginInv
  <2>1. ASSUME Init PROVE OriginInv
    BY <2>1 DEF Init, OriginInv, NoOrigin, DuplicateGetsItsReply
  <2> QED BY <2>1, ServerInit
<1>2. ServerInv /\ OriginInv /\ [Next]_vars => (ServerInv /\ OriginInv)'
  <2> SUFFICES ASSUME ServerInv, OriginInv, [Next]_vars
               PROVE  (ServerInv /\ OriginInv)'
    OBVIOUS
  <2>1. ServerInv'
    BY CoreStep, DataStep DEF ServerInv
  <2> QED BY <2>1, OriginStep
<1>3. OriginInv => DuplicateGetsItsReply
  BY DEF OriginInv
<1> QED BY <1>1, <1>2, <1>3, PTL DEF Spec
=============================================================================
