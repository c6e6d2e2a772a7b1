------------------------- MODULE EvcoapClientProofs -------------------------
(***************************************************************************)
(* Proofs about EvcoapClient, for any number of contexts, any datagrams on *)
(* the wire and any values of the protocol constants.                      *)
(***************************************************************************)
EXTENDS EvcoapClient, TLAPS

-----------------------------------------------------------------------------
(* Types *)

(* What ec_client_set_state leaves behind is well typed. *)
LEMMA EnterType ==
  ASSUME FsmTypeOK, NEW c \in Clients, NEW s \in CliState,
         NEW tm \in SUBSET Timer, NEW r \in 0 .. MaxRetransmit,
         NEW head \in Pdu \cup {NoPdu}, NEW msgs \in SUBSET Messages,
         Enter(c, s, tm, r, head, msgs)
  PROVE  FsmTypeOK'
<1> USE ClientAssumption DEF FsmTypeOK, Enter, Reports
<1>1. proc' \in {"up", "errx", "segv"} /\ state' \in [Clients -> CliState]
  BY DEF CliState
<1>2. /\ armed' \in [Clients -> SUBSET Timer]
      /\ retries' \in [Clients -> 0 .. MaxRetransmit]
  OBVIOUS
<1>3. listed' \in [Clients -> Nat] /\ inputs' \in [Clients -> Nat]
  BY DEF Unlink
<1>4. first' \in [Clients -> Pdu \cup {NoPdu}] /\ told' \in [Clients -> Nat]
  OBVIOUS
<1>5. out' \in SUBSET Messages
  <2>1. head # NoPdu => head.key \in Keys
    BY DEF Pdu
  <2>2. QED BY <2>1 DEF Messages
<1>6. QED BY <1>1, <1>2, <1>3, <1>4, <1>5

(* So is what it leaves behind when it kills the process. *)
LEMMA DieType ==
  ASSUME FsmTypeOK, NEW how \in {"errx", "segv"}, Die(how)
  PROVE  FsmTypeOK'
BY DEF FsmTypeOK, Die

LEMMA SetStateType ==
  ASSUME FsmTypeOK, NEW c \in Clients, NEW s \in CliState,
         NEW tm \in SUBSET Timer, NEW r \in 0 .. MaxRetransmit,
         NEW head \in Pdu \cup {NoPdu}, NEW msgs \in SUBSET Messages,
         SetState(c, s, tm, r, head, msgs)
  PROVE  FsmTypeOK'
BY EnterType, DieType DEF SetState

LEMMA MoveType ==
  ASSUME FsmTypeOK, NEW c \in Clients, NEW s \in CliState, Move(c, s)
  PROVE  FsmTypeOK'
<1>1. /\ armed[c] \in SUBSET Timer /\ retries[c] \in 0 .. MaxRetransmit
      /\ first[c] \in Pdu \cup {NoPdu} /\ {} \in SUBSET Messages
  BY DEF FsmTypeOK
<1>2. QED BY <1>1, SetStateType DEF Move

(* A step of the client side keeps the types. *)
LEMMA TypeStep ==
  ASSUME TypeOK, [Next]_vars
  PROVE  TypeOK'
<1> USE ClientAssumption
<1>0. FsmTypeOK /\ RestTypeOK
  BY DEF TypeOK
<1>f. \A c \in Clients : /\ armed[c] \in SUBSET Timer
                         /\ retries[c] \in 0 .. MaxRetransmit
                         /\ first[c] \in Pdu \cup {NoPdu}
                         /\ {} \in SUBSET Messages
                         /\ {Req(c)} \in SUBSET Messages
  BY <1>0 DEF FsmTypeOK, Messages
<1>s. FinalState \subseteq CliState
  BY DEF CliState
<1>1. ASSUME NEW c \in Clients, User(c) PROVE TypeOK'
  <2>1. CASE Go(c)
    BY <1>0, <2>1 DEF Go, TypeOK, FsmTypeOK, RestTypeOK, obsVars, NoObs
  <2>2. CASE GoBusy(c)
    <3>1. FsmTypeOK'
      BY <1>0, <1>s, <2>2, MoveType DEF GoBusy, FinalState
    <3>2. RestTypeOK'
      BY <1>0, <2>2 DEF GoBusy, RestTypeOK, obsVars
    <3>3. QED BY <3>1, <3>2 DEF TypeOK
  <2>3. CASE Cancel(c)
    BY <1>0, <2>3 DEF Cancel, TypeOK, FsmTypeOK, RestTypeOK, obsVars
  <2>4. CASE UserFree(c)
    <3>1. RestTypeOK'
      BY <1>0, <2>4 DEF UserFree, RestTypeOK, obsVars
    <3>2. FsmTypeOK'
      BY <1>0, <2>4 DEF UserFree, FsmTypeOK, Unlink, CliState
    <3>3. QED BY <3>1, <3>2 DEF TypeOK
  <2>5. QED BY <1>1, <2>1, <2>2, <2>3, <2>4 DEF User
<1>2. ASSUME NEW c \in Clients, Resolver(c) PROVE TypeOK'
  <2>1. CASE DnsFailed(c)
    <3>1. FsmTypeOK'
      BY <1>0, <1>s, <2>1, MoveType DEF DnsFailed, FinalState
    <3>2. RestTypeOK'
      BY <1>0, <2>1 DEF DnsFailed, RestTypeOK, obsVars
    <3>3. QED BY <3>1, <3>2 DEF TypeOK
  <2>2. CASE DnsUnsent(c)
    <3>1. FsmTypeOK'
      BY <1>0, <1>f, <1>s, <2>2, EnterType, DieType DEF DnsUnsent, FinalState
    <3>2. RestTypeOK'
      BY <1>0, <2>2 DEF DnsUnsent, RestTypeOK, obsVars
    <3>3. QED BY <3>1, <3>2 DEF TypeOK
  <2>3. CASE DnsUnregistered(c)
    <3>1. FsmTypeOK'
      BY <1>0, <1>f, <1>s, <2>3, EnterType, DieType
      DEF DnsUnregistered, FinalState
    <3>2. RestTypeOK'
      BY <1>0, <2>3 DEF DnsUnregistered, RestTypeOK, obsVars
    <3>3. QED BY <3>1, <3>2 DEF TypeOK
  <2>4. CASE DnsSent(c)
    <3>1. FsmTypeOK'
      <4>1. CASE CanEnter(state[c], "dns_ok") /\ "app" \notin armed[c]
        BY <1>0, <1>f, <2>4, <4>1 DEF DnsSent, FsmTypeOK, CliState, Timer
      <4>2. CASE ~(CanEnter(state[c], "dns_ok") /\ "app" \notin armed[c])
        BY <1>0, <2>4, <4>2, DieType DEF DnsSent
      <4>3. QED BY <4>1, <4>2
    <3>2. RestTypeOK'
      BY <1>0, <2>4 DEF DnsSent, RestTypeOK, obsVars
    <3>3. QED BY <3>1, <3>2 DEF TypeOK
  <2>5. QED BY <1>2, <2>1, <2>2, <2>3, <2>4 DEF Resolver
<1>3. ASSUME NEW c \in Clients, Timers(c) PROVE TypeOK'
  <2>1. CASE CoapTimeout(c)
    <3>1. FsmTypeOK'
      BY <1>0, <1>s, <2>1, MoveType DEF CoapTimeout, FinalState
    <3>2. RestTypeOK'
      BY <1>0, <2>1 DEF CoapTimeout, RestTypeOK, obsVars
    <3>3. QED BY <3>1, <3>2 DEF TypeOK
  <2>2. CASE CoapRetry(c)
    <3>1. retries[c] - 1 \in 0 .. MaxRetransmit /\ "req_sent" \in CliState
      BY <1>f, <2>2 DEF CoapRetry, CliState
    <3>2. FsmTypeOK'
      BY <1>0, <1>f, <2>2, <3>1, EnterType, DieType DEF CoapRetry
    <3>3. RestTypeOK'
      BY <1>0, <2>2 DEF CoapRetry, RestTypeOK, obsVars
    <3>4. QED BY <3>2, <3>3 DEF TypeOK
  <2>3. CASE CoapRetryFails(c)
    <3>1. FsmTypeOK'
      BY <1>0, <1>f, <1>s, <2>3, EnterType, DieType
      DEF CoapRetryFails, FinalState
    <3>2. RestTypeOK'
      BY <1>0, <2>3 DEF CoapRetryFails, RestTypeOK, obsVars
    <3>3. QED BY <3>1, <3>2 DEF TypeOK
  <2>4. CASE AppTimeout(c)
    <3>1. FsmTypeOK'
      BY <1>0, <1>s, <2>4, MoveType DEF AppTimeout, FinalState
    <3>2. RestTypeOK'
      BY <1>0, <2>4 DEF AppTimeout, RestTypeOK, obsVars
    <3>3. QED BY <3>1, <3>2 DEF TypeOK
  <2>5. CASE ObsTimeout(c)
    <3>1. FsmTypeOK'
      BY <1>0, <1>s, <2>5, MoveType DEF ObsTimeout, FinalState
    <3>2. RestTypeOK'
      BY <1>0, <2>5 DEF ObsTimeout, RestTypeOK
    <3>3. QED BY <3>1, <3>2 DEF TypeOK
  <2>6. QED BY <1>3, <2>1, <2>2, <2>3, <2>4, <2>5 DEF Timers
<1>4. ASSUME NEW c \in Clients, Age(c) PROVE TypeOK'
  BY <1>0, <1>4 DEF Age, TypeOK, FsmTypeOK, RestTypeOK
<1>5. ASSUME NEW c \in Clients, NEW p \in Pdus[c], Network(c, p)
      PROVE  TypeOK'
  <2>p. p \in Pdu /\ p.key \in Keys /\ p.obs \in 0 .. CntMod
    BY DEF Pdu
  <2>h. HeadWith(c, p) \in Pdu /\ HeadWith(c, p).obs \in 0 .. CntMod
        /\ HeadWith(c, p).key \in Keys
    BY <1>f, <2>p DEF HeadWith, Pdu
  <2>r. Record(p) \in [Keys -> DupRecord]
    BY <1>0, <2>p DEF Record, RestTypeOK, DupRecord
  <2>1. CASE RecvDup(c, p)
    <3>1. out' \in SUBSET Messages
      BY <2>1, <2>p DEF RecvDup, Messages
    <3>2. QED
      BY <1>0, <2>1, <3>1 DEF RecvDup, TypeOK, FsmTypeOK, RestTypeOK, obsVars
  <2>2. CASE RecvBad(c, p)
    BY <1>0, <2>2, <2>r DEF RecvBad, TypeOK, FsmTypeOK, RestTypeOK, obsVars
  <2>3. CASE RecvAck(c, p)
    <3>1. "req_ackd" \in CliState
          /\ (IF c \in Confirmable THEN armed[c] \ {"coap"} ELSE armed[c])
               \in SUBSET Timer
      BY <1>f DEF CliState
    <3>2. FsmTypeOK'
      BY <1>0, <1>f, <2>3, <3>1, SetStateType DEF RecvAck
    <3>3. RestTypeOK'
      BY <1>0, <2>3, <2>r DEF RecvAck, RestTypeOK, obsVars
    <3>4. QED BY <3>2, <3>3 DEF TypeOK
  <2>4. CASE RecvRst(c, p)
    <3>1. FsmTypeOK'
      BY <1>0, <1>s, <2>4, MoveType DEF RecvRst, FinalState
    <3>2. RestTypeOK'
      BY <1>0, <2>4, <2>r DEF RecvRst, RestTypeOK, obsVars
    <3>3. QED BY <3>1, <3>2 DEF TypeOK
  <2>5. CASE RecvStale(c, p)
    BY <1>0, <2>5, <2>r, <2>h
    DEF RecvStale, TypeOK, FsmTypeOK, RestTypeOK, obsVars
  <2>6. CASE RecvNotification(c, p)
    <3> DEFINE head == HeadWith(c, p)
               tm == {"obs"} \cup (armed[c] \ IF c \in Confirmable
                                              THEN {"app", "coap"}
                                              ELSE {"app"})
    <3>1. tm \in SUBSET Timer /\ "wait_nfy" \in CliState
      BY <1>f DEF Timer, CliState
    <3>2. FsmTypeOK'
      <4>1. CASE state[c] = "wait_nfy" /\ "obs" \in armed[c]
        BY <1>0, <1>f, <2>6, <2>h, <3>1, <4>1, EnterType DEF RecvNotification, ObsTimers
      <4>2. CASE state[c] = "wait_nfy" /\ "obs" \notin armed[c]
        <5>1. PICK how \in {"errx", "segv"} : Die(how)
          BY <2>6, <4>2 DEF RecvNotification, ObsTimers
        <5>2. QED BY <1>0, <5>1, DieType
      <4>3. CASE state[c] # "wait_nfy" /\ "obs" \in armed[c]
        BY <1>0, <2>6, <4>3, DieType DEF RecvNotification, ObsTimers
      <4>4. CASE state[c] # "wait_nfy" /\ "obs" \notin armed[c]
        <5>1. SetState(c, "wait_nfy", tm, retries[c], head, {})
          BY <2>6, <4>4 DEF RecvNotification, ObsTimers
        <5>2. QED BY <1>0, <1>f, <2>h, <3>1, <5>1, SetStateType
      <4>5. QED BY <4>1, <4>2, <4>3, <4>4
    <3>3. on[c] => head.obs \in 0 .. CntMod - 1
      BY <2>6, <2>h DEF RecvNotification, Ended, NoObs
    <3>4. RestTypeOK'
      BY <1>0, <2>6, <2>r, <2>h, <3>3 DEF RecvNotification, RestTypeOK
    <3>5. QED BY <3>2, <3>4 DEF TypeOK
  <2>7. CASE RecvResponse(c, p)
    <3> DEFINE head == HeadWith(c, p)
               acks == state[c] = "req_ackd" /\ c \in Confirmable
    <3>1. (IF acks THEN {Ack(head.key)} ELSE {}) \in SUBSET Messages
      BY <2>h DEF Messages
    <3>2. FsmTypeOK'
      BY <1>0, <1>f, <1>s, <2>7, <2>h, <3>1, SetStateType
      DEF RecvResponse, FinalState
    <3>3. RestTypeOK'
      BY <1>0, <2>7, <2>r, <2>h DEF RecvResponse, RestTypeOK, DupRecord
    <3>4. QED BY <3>2, <3>3 DEF TypeOK
  <2>8. QED BY <1>5, <2>1, <2>2, <2>3, <2>4, <2>5, <2>6, <2>7 DEF Network
<1>6. ASSUME NEW k \in Keys, DupZap(k) PROVE TypeOK'
  BY <1>0, <1>6
  DEF DupZap, TypeOK, FsmTypeOK, RestTypeOK, obsVars, DupRecord
<1>7. CASE UNCHANGED vars
  BY <1>0, <1>7
  DEF vars, fsmVars, obsVars, TypeOK, FsmTypeOK, RestTypeOK
<1>8. QED BY <1>1, <1>2, <1>3, <1>4, <1>5, <1>6, <1>7 DEF Next

(* TypeOK is inductive: retries_left never runs below zero, whatever       *)
(* answers, timers and calls come in whatever order.                       *)
THEOREM TypeCorrect == Spec => []TypeOK
<1>1. Init => TypeOK
  BY ClientAssumption DEF Init, TypeOK, FsmTypeOK, RestTypeOK, CliState,
     DupRecord, NoObs
<1>2. TypeOK /\ [Next]_vars => TypeOK'
  BY TypeStep
<1>3. QED BY <1>1, <1>2, PTL DEF Spec

-----------------------------------------------------------------------------
(* Timers *)

(* Between two callbacks no context is in a transient state, and evdns is  *)
(* only ever asked on behalf of a context that has no request in flight.   *)
AtRest ==
  \A c \in Clients : /\ state[c] \notin {"dns_ok", "coap_retry"}
                     /\ dns[c] => state[c] \in Startable

(* The inductive invariant behind TimersMatchState. *)
TimersInv == AtRest /\ TimersMatchState

(* ec_client_set_state leaves the timers of the state that it enters, if   *)
(* the caller has seen to those of a state that is not final.              *)
LEMMA EnterTimers ==
  ASSUME FsmTypeOK, TimersInv, NEW c \in Clients,
         NEW s \in FinalState \cup InFlight, NEW tm \in SUBSET Timer,
         NEW r, NEW head, NEW msgs,
         s \notin FinalState => tm = TimersOf(c, s),
         Enter(c, s, tm, r, head, msgs),
         cancel' = cancel, \A d \in Clients : dns'[d] => dns[d] /\ d # c
  PROVE  TimersInv'
<1>1. AtRest'
  BY DEF FsmTypeOK, TimersInv, AtRest, Enter, FinalState, InFlight, Startable
<1>2. ASSUME NEW d \in Clients
      PROVE  \/ armed'[d] = TimersOf(d, state'[d])
             \/ d \in UserOwn /\ state'[d] = "wait_nfy" /\ cancel'[d]
                  /\ armed'[d] = {}
  <2>1. CASE d # c
    BY <2>1 DEF FsmTypeOK, TimersInv, TimersMatchState, Enter
  <2>2. CASE d = c /\ s \in FinalState
    BY <2>2 DEF FsmTypeOK, Enter, FinalState, TimersOf
  <2>3. CASE d = c /\ s \notin FinalState
    BY <2>3 DEF FsmTypeOK, Enter, FinalState, InFlight, TimersOf
  <2>4. QED BY <2>1, <2>2, <2>3
<1>3. QED BY <1>1, <1>2 DEF TimersInv, TimersMatchState

LEMMA DieTimers ==
  ASSUME TimersInv, NEW how, Die(how),
         cancel' = cancel, \A d \in Clients : dns'[d] => dns[d]
  PROVE  TimersInv'
BY DEF TimersInv, AtRest, TimersMatchState, TimersOf, Die

(* The same for a step that leaves evdns alone: the new state can only be  *)
(* entered with a request in flight, or else the process dies.             *)
LEMMA SetStateTimers ==
  ASSUME FsmTypeOK, TimersInv, NEW c \in Clients,
         NEW s \in FinalState \cup InFlight, NEW tm \in SUBSET Timer,
         NEW r, NEW head, NEW msgs,
         CanEnter(state[c], s) /\ s \notin FinalState => tm = TimersOf(c, s),
         CanEnter(state[c], s) => ~dns[c],
         SetState(c, s, tm, r, head, msgs),
         cancel' = cancel, dns' = dns
  PROVE  TimersInv'
<1>1. CASE CanEnter(state[c], s)
  <2>1. \A d \in Clients : dns'[d] => dns[d] /\ d # c
    BY <1>1
  <2>2. Enter(c, s, tm, r, head, msgs) /\ (s \notin FinalState => tm = TimersOf(c, s))
    BY <1>1 DEF SetState
  <2>3. QED BY <2>1, <2>2, EnterTimers
<1>2. CASE ~CanEnter(state[c], s)
  BY <1>2, DieTimers DEF SetState
<1>3. QED BY <1>1, <1>2

(* Steps that touch neither state nor timers. *)
LEMMA SameTimers ==
  ASSUME TimersInv, state' = state, armed' = armed,
         \A c \in Clients : cancel[c] => cancel'[c],
         \A c \in Clients : dns'[c] => dns[c] \/ state[c] \in Startable
  PROVE  TimersInv'
BY DEF TimersInv, AtRest, TimersMatchState

(* An answer that ends the request, or a timer of a request. *)
LEMMA MoveTimers ==
  ASSUME FsmTypeOK, TimersInv, NEW c \in Clients, NEW s \in FinalState,
         Move(c, s), ~dns[c], cancel' = cancel, dns' = dns
  PROVE  TimersInv'
<1>1. armed[c] \in SUBSET Timer
  BY DEF FsmTypeOK
<1>2. QED BY <1>1, SetStateTimers DEF Move

(* A context whose timer is pending, or that receives what its state       *)
(* expects, has a request in flight and none with evdns.                   *)
LEMMA BusyNotResolving ==
  ASSUME TimersInv, NEW c \in Clients,
         armed[c] # {} \/ state[c] \in InFlight
  PROVE  /\ ~dns[c]
         /\ "coap" \in armed[c] => state[c] = "req_sent" /\ c \in Confirmable
         /\ state[c] \in InFlight
BY DEF TimersInv, AtRest, TimersMatchState, TimersOf, Startable, FinalState,
       InFlight

(* TimersInv is inductive relative to the types. *)
LEMMA TimersStep ==
  ASSUME TypeOK, TimersInv, [Next]_vars
  PROVE  TimersInv'
<1> USE ClientAssumption
<1>0. FsmTypeOK /\ cancel \in [Clients -> BOOLEAN] /\ dns \in [Clients -> BOOLEAN]
  BY DEF TypeOK, RestTypeOK
<1>f. \A c \in Clients : armed[c] \in SUBSET Timer
  BY <1>0 DEF FsmTypeOK
<1>1. ASSUME NEW c \in Clients, User(c) PROVE TimersInv'
  <2>1. CASE Go(c)
    BY <1>0, <2>1, SameTimers DEF Go
  <2>2. CASE GoBusy(c)
    <3>1. ~dns[c] /\ "internal_err" \in FinalState
      BY <2>2, BusyNotResolving DEF GoBusy, FinalState
    <3>2. QED BY <1>0, <2>2, <3>1, MoveTimers DEF GoBusy
  <2>3. CASE Cancel(c)
    BY <1>0, <2>3, SameTimers DEF Cancel
  <2>4. CASE UserFree(c)
    <3>1. armed[c] = {}
      BY <2>4, BusyNotResolving DEF UserFree, InFlight, Startable, FinalState
    <3>2. state' = [state EXCEPT ![c] = "freed"] /\ armed' = armed
          /\ dns' = dns /\ cancel' = cancel /\ ~dns[c]
      BY <2>4 DEF UserFree
    <3>3. QED
      BY <1>0, <3>1, <3>2
      DEF FsmTypeOK, TimersInv, AtRest, TimersMatchState, TimersOf
  <2>5. QED BY <1>1, <2>1, <2>2, <2>3, <2>4 DEF User
<1>2. ASSUME NEW c \in Clients, Resolver(c) PROVE TimersInv'
  <2>1. dns[c] /\ dns' = [dns EXCEPT ![c] = FALSE] /\ cancel' = cancel
    BY <1>2 DEF Resolver, DnsFailed, DnsUnsent, DnsUnregistered, DnsSent
  <2>2. \A d \in Clients : dns'[d] => dns[d] /\ d # c
    BY <1>0, <2>1
  <2>s. "internal_err" \in FinalState /\ "dns_failed" \in FinalState
    BY DEF FinalState
  <2>3. CASE DnsFailed(c)
    BY <1>0, <1>f, <2>1, <2>2, <2>s, <2>3, EnterTimers, DieTimers
    DEF DnsFailed, Move, SetState
  <2>4. CASE DnsUnsent(c)
    BY <1>0, <1>f, <2>1, <2>2, <2>s, <2>4, EnterTimers, DieTimers
    DEF DnsUnsent
  <2>5. CASE DnsUnregistered(c)
    BY <1>0, <1>f, <2>1, <2>2, <2>s, <2>5, EnterTimers, DieTimers
    DEF DnsUnregistered
  <2>6. CASE DnsSent(c)
    <3>1. CASE CanEnter(state[c], "dns_ok") /\ "app" \notin armed[c]
      <4>1. armed[c] = {}
        BY <2>1, BusyNotResolving
      <4>2. /\ state' = [state EXCEPT ![c] = "req_sent"]
            /\ armed' = [armed EXCEPT
                 ![c] = @ \cup {"app"} \cup IF c \in Confirmable THEN {"coap"}
                                                                 ELSE {}]
        BY <2>6, <3>1 DEF DnsSent
      <4>3. armed'[c] = TimersOf(c, "req_sent") /\ state'[c] = "req_sent"
        BY <1>0, <4>1, <4>2 DEF FsmTypeOK, TimersOf, Timer
      <4>4. \A d \in Clients : d # c => armed'[d] = armed[d] /\ state'[d] = state[d]
        BY <1>0, <4>2 DEF FsmTypeOK
      <4>5. AtRest'
        BY <2>2, <4>3, <4>4 DEF TimersInv, AtRest
      <4>6. TimersMatchState'
        BY <2>1, <4>3, <4>4 DEF TimersInv, TimersMatchState
      <4>7. QED BY <4>5, <4>6 DEF TimersInv
    <3>2. CASE ~(CanEnter(state[c], "dns_ok") /\ "app" \notin armed[c])
      BY <2>1, <2>2, <2>6, <3>2, DieTimers DEF DnsSent
    <3>3. QED BY <3>1, <3>2
  <2>7. QED BY <1>2, <2>3, <2>4, <2>5, <2>6 DEF Resolver
<1>3. ASSUME NEW c \in Clients, Timers(c) PROVE TimersInv'
  <2>1. armed[c] # {} /\ dns' = dns /\ cancel' = cancel
    BY <1>3
    DEF Timers, CoapTimeout, CoapRetry, CoapRetryFails, AppTimeout, ObsTimeout
  <2>2. ~dns[c] /\ \A d \in Clients : dns'[d] => dns[d] /\ d # c
    BY <2>1, BusyNotResolving
  <2>3. CASE CoapTimeout(c)
    BY <1>0, <2>1, <2>2, <2>3, MoveTimers DEF CoapTimeout, FinalState
  <2>4. CASE CoapRetry(c)
    <3>1. state[c] = "req_sent"
      BY <2>4, BusyNotResolving DEF CoapRetry
    <3>2. armed[c] = TimersOf(c, "req_sent")
      BY <3>1 DEF TimersInv, TimersMatchState
    <3>3. Enter(c, "req_sent", armed[c], retries[c] - 1, first[c], {Req(c)})
      BY <2>4, <3>1 DEF CoapRetry, CanEnter
    <3>4. "req_sent" \in InFlight
      BY DEF InFlight
    <3>5. QED BY <1>0, <1>f, <2>1, <2>2, <3>2, <3>3, <3>4, EnterTimers
  <2>5. CASE CoapRetryFails(c)
    <3>1. "send_failed" \in FinalState
      BY DEF FinalState
    <3>2. QED
      BY <1>0, <1>f, <2>1, <2>2, <2>5, <3>1, EnterTimers, DieTimers
      DEF CoapRetryFails
  <2>6. CASE AppTimeout(c)
    BY <1>0, <2>1, <2>2, <2>6, MoveTimers DEF AppTimeout, FinalState
  <2>7. CASE ObsTimeout(c)
    BY <1>0, <2>1, <2>2, <2>7, MoveTimers DEF ObsTimeout, FinalState
  <2>8. QED BY <1>3, <2>3, <2>4, <2>5, <2>6, <2>7 DEF Timers
<1>4. ASSUME NEW c \in Clients, Age(c) PROVE TimersInv'
  BY <1>4, SameTimers DEF Age
<1>5. ASSUME NEW c \in Clients, NEW p \in Pdus[c], Network(c, p)
      PROVE  TimersInv'
  <2>0. dns' = dns /\ cancel' = cancel
    BY <1>5 DEF Network, RecvDup, RecvBad, RecvAck, RecvRst, RecvStale,
                RecvNotification, RecvResponse
  <2>1. CASE RecvDup(c, p) \/ RecvBad(c, p) \/ RecvStale(c, p)
    BY <2>1, SameTimers DEF RecvDup, RecvBad, RecvStale
  <2>2. CASE RecvAck(c, p)
    <3> DEFINE tm == IF c \in Confirmable THEN armed[c] \ {"coap"} ELSE armed[c]
    <3>1. tm \in SUBSET Timer /\ "req_ackd" \in InFlight
      BY <1>f DEF InFlight
    <3>2. ASSUME CanEnter(state[c], "req_ackd")
          PROVE  tm = TimersOf(c, "req_ackd") /\ ~dns[c]
      <4>1. state[c] = "req_sent"
        BY <3>2 DEF CanEnter
      <4>2. armed[c] = TimersOf(c, "req_sent") /\ ~dns[c]
        BY <4>1, BusyNotResolving DEF TimersInv, TimersMatchState, InFlight
      <4>3. QED BY <4>2 DEF TimersOf, Timer
    <3>3. SetState(c, "req_ackd", tm, retries[c], first[c], {})
      BY <2>2 DEF RecvAck
    <3> HIDE DEF tm
    <3>4. QED BY <1>0, <2>0, <3>1, <3>2, <3>3, SetStateTimers
  <2>3. ASSUME NEW s \in {"req_rst", "req_done"}, CanEnter(state[c], s)
        PROVE  ~dns[c]
    BY <2>3, BusyNotResolving DEF CanEnter
  <2>4. CASE RecvRst(c, p)
    BY <1>0, <1>f, <2>0, <2>3, <2>4, SetStateTimers
    DEF RecvRst, Move, FinalState
  <2>5. CASE RecvNotification(c, p)
    <3> DEFINE head == HeadWith(c, p)
               tm == {"obs"} \cup (armed[c] \ IF c \in Confirmable
                                              THEN {"app", "coap"} ELSE {"app"})
    <3>1. tm \in SUBSET Timer /\ "wait_nfy" \in InFlight
      BY <1>f DEF InFlight, Timer
    <3>2. CASE state[c] = "wait_nfy" /\ "obs" \in armed[c]
      <4>1. armed[c] = TimersOf(c, "wait_nfy") /\ ~dns[c]
        BY <3>2, BusyNotResolving DEF TimersInv, TimersMatchState
      <4>2. Enter(c, "wait_nfy", armed[c], retries[c], head, {})
        BY <2>5, <3>2 DEF RecvNotification, ObsTimers
      <4>3. \A d \in Clients : dns'[d] => dns[d] /\ d # c
        BY <2>0, <4>1
      <4>4. QED BY <1>0, <1>f, <2>0, <3>1, <4>1, <4>2, <4>3, EnterTimers
    <3>3. CASE state[c] = "wait_nfy" /\ "obs" \notin armed[c]
      BY <2>0, <2>5, <3>3, DieTimers DEF RecvNotification, ObsTimers
    <3>4. CASE state[c] # "wait_nfy" /\ "obs" \in armed[c]
      BY <2>0, <2>5, <3>4, DieTimers DEF RecvNotification, ObsTimers
    <3>5. CASE state[c] # "wait_nfy" /\ "obs" \notin armed[c]
      <4>1. SetState(c, "wait_nfy", tm, retries[c], head, {})
        BY <2>5, <3>5 DEF RecvNotification, ObsTimers
      <4>2. ASSUME CanEnter(state[c], "wait_nfy")
            PROVE  tm = TimersOf(c, "wait_nfy") /\ ~dns[c]
        <5>1. state[c] \in {"req_sent", "req_ackd"}
          BY <3>5, <4>2 DEF CanEnter, InFlight
        <5>2. armed[c] = TimersOf(c, state[c]) /\ ~dns[c]
          BY <5>1, BusyNotResolving DEF TimersInv, TimersMatchState, InFlight
        <5>3. QED BY <5>1, <5>2 DEF TimersOf, Timer
      <4> HIDE DEF tm, head
      <4>3. QED BY <1>0, <2>0, <3>1, <4>1, <4>2, SetStateTimers
    <3>6. QED BY <3>2, <3>3, <3>4, <3>5
  <2>6. CASE RecvResponse(c, p)
    BY <1>0, <1>f, <2>0, <2>3, <2>6, SetStateTimers
    DEF RecvResponse, FinalState
  <2>7. QED BY <1>5, <2>1, <2>2, <2>4, <2>5, <2>6 DEF Network
<1>6. ASSUME NEW k \in Keys, DupZap(k) PROVE TimersInv'
  BY <1>6, SameTimers DEF DupZap
<1>7. CASE UNCHANGED vars
  BY <1>7, SameTimers DEF vars, fsmVars
<1>8. QED BY <1>1, <1>2, <1>3, <1>4, <1>5, <1>6, <1>7 DEF Next

(* Whatever the order of answers, timers, evdns and calls, a context has   *)
(* exactly the timers pending that its state waits for, apart from a       *)
(* user-owned one whose cancelled observation was dropped.                 *)
THEOREM TimersCorrect == Spec => []TimersMatchState
<1>1. Init => TimersInv
  BY DEF Init, TimersInv, AtRest, TimersMatchState, TimersOf, Startable
<1>2. TypeOK /\ TimersInv /\ [Next]_vars => TimersInv'
  BY TimersStep
<1>3. TimersInv => TimersMatchState
  BY DEF TimersInv
<1>4. QED BY <1>1, <1>2, <1>3, TypeCorrect, PTL DEF Spec

-----------------------------------------------------------------------------
(* Retransmissions *)

(* ec_client_set_state keeps the account if the caller does. *)
LEMMA EnterSent ==
  ASSUME FsmTypeOK, RetransmissionsBounded, NEW c \in Clients, NEW s,
         NEW tm \in SUBSET Timer, NEW r \in 0 .. MaxRetransmit,
         NEW head, NEW msgs, Enter(c, s, tm, r, head, msgs),
         \A d \in Clients : d # c => sent'[d] = sent[d],
         sent'[c] <= 1 + MaxRetransmit,
         "coap" \in tm /\ s \notin FinalState
           => sent'[c] + r = 1 + MaxRetransmit
  PROVE  RetransmissionsBounded'
<1>1. ASSUME NEW d \in Clients
      PROVE  /\ sent'[d] <= 1 + MaxRetransmit
             /\ "coap" \in armed'[d] => sent'[d] + retries'[d] = 1 + MaxRetransmit
  <2>1. CASE d = c
    BY <2>1 DEF FsmTypeOK, Enter
  <2>2. CASE d # c
    BY <2>2 DEF FsmTypeOK, Enter, RetransmissionsBounded
  <2>3. QED BY <2>1, <2>2
<1>2. QED BY <1>1 DEF RetransmissionsBounded

LEMMA SetStateSent ==
  ASSUME FsmTypeOK, RetransmissionsBounded, NEW c \in Clients, NEW s,
         NEW tm \in SUBSET Timer, NEW head, NEW msgs,
         SetState(c, s, tm, retries[c], head, msgs),
         tm \subseteq armed[c] \cup {"obs"}, sent' = sent
  PROVE  RetransmissionsBounded'
<1>1. retries[c] \in 0 .. MaxRetransmit
  BY DEF FsmTypeOK
<1>2. CASE CanEnter(state[c], s)
  BY <1>1, <1>2, EnterSent DEF SetState, RetransmissionsBounded
<1>3. CASE ~CanEnter(state[c], s)
  BY <1>3 DEF SetState, Die, RetransmissionsBounded
<1>4. QED BY <1>2, <1>3

LEMMA MoveSent ==
  ASSUME FsmTypeOK, RetransmissionsBounded, NEW c \in Clients, NEW s,
         Move(c, s), sent' = sent
  PROVE  RetransmissionsBounded'
<1>1. armed[c] \in SUBSET Timer
  BY DEF FsmTypeOK
<1>2. QED BY <1>1, SetStateSent DEF Move

(* A request whose name has just been resolved may be sent, and no timer   *)
(* of an earlier one is left.                                              *)
LEMMA ResolvedIsIdle ==
  ASSUME TimersInv, NEW c \in Clients, dns[c]
  PROVE  CanEnter(state[c], "dns_ok") /\ armed[c] = {}
BY BusyNotResolving DEF TimersInv, AtRest, CanEnter

LEMMA SentStep ==
  ASSUME TypeOK, TimersInv, RetransmissionsBounded, [Next]_vars
  PROVE  RetransmissionsBounded'
<1> USE ClientAssumption
<1>0. FsmTypeOK /\ sent \in [Clients -> Nat]
  BY DEF TypeOK, RestTypeOK
<1>f. \A c \in Clients : /\ armed[c] \in SUBSET Timer
                         /\ retries[c] \in 0 .. MaxRetransmit
                         /\ sent[c] \in Nat
  BY <1>0 DEF FsmTypeOK
<1>s. ASSUME armed' = armed, retries' = retries, sent' = sent
      PROVE  RetransmissionsBounded'
  BY <1>s DEF RetransmissionsBounded
<1>1. ASSUME NEW c \in Clients, User(c) PROVE RetransmissionsBounded'
  <2>1. CASE Go(c)
    <3>1. "coap" \notin armed[c]
      BY <2>1, BusyNotResolving DEF Go, Startable, FinalState, InFlight
    <3>2. QED BY <1>0, <1>f, <2>1, <3>1 DEF Go, RetransmissionsBounded
  <2>2. CASE GoBusy(c)
    BY <1>0, <2>2, MoveSent DEF GoBusy
  <2>3. CASE Cancel(c) \/ UserFree(c)
    BY <1>s, <2>3 DEF Cancel, UserFree
  <2>4. QED BY <1>1, <2>1, <2>2, <2>3 DEF User
<1>2. ASSUME NEW c \in Clients, Resolver(c) PROVE RetransmissionsBounded'
  <2>1. CanEnter(state[c], "dns_ok") /\ armed[c] = {}
    BY <1>2, ResolvedIsIdle
    DEF Resolver, DnsFailed, DnsUnsent, DnsUnregistered, DnsSent
  <2>2. CASE DnsFailed(c)
    BY <1>0, <2>2, MoveSent DEF DnsFailed
  <2>3. CASE DnsUnsent(c)
    BY <1>0, <1>f, <2>1, <2>3, EnterSent DEF DnsUnsent, RetransmissionsBounded
  <2>4. CASE DnsUnregistered(c)
    <3>1. /\ \A d \in Clients : d # c => sent'[d] = sent[d]
          /\ sent'[c] = 1 /\ 1 <= 1 + MaxRetransmit
      BY <1>0, <2>4 DEF DnsUnregistered
    <3>2. Enter(c, "internal_err", armed[c], retries[c], first[c], {Req(c)})
      BY <2>1, <2>4 DEF DnsUnregistered
    <3>3. QED BY <1>0, <1>f, <2>1, <3>1, <3>2, EnterSent
  <2>5. CASE DnsSent(c)
    <3>1. /\ armed' = [armed EXCEPT
               ![c] = @ \cup {"app"} \cup IF c \in Confirmable THEN {"coap"}
                                                               ELSE {}]
          /\ retries' = [retries EXCEPT
               ![c] = IF c \in Confirmable THEN MaxRetransmit ELSE @]
          /\ sent' = [sent EXCEPT ![c] = 1]
      BY <2>1, <2>5 DEF DnsSent
    <3>2. QED
      BY <1>0, <2>1, <3>1 DEF FsmTypeOK, RetransmissionsBounded
  <2>6. QED BY <1>2, <2>2, <2>3, <2>4, <2>5 DEF Resolver
<1>3. ASSUME NEW c \in Clients, Timers(c) PROVE RetransmissionsBounded'
  <2>1. CASE CoapTimeout(c)
    BY <1>0, <2>1, MoveSent DEF CoapTimeout
  <2>2. CASE CoapRetry(c)
    <3>1. state[c] = "req_sent"
      BY <2>2, BusyNotResolving DEF CoapRetry
    <3>2. /\ Enter(c, "req_sent", armed[c], retries[c] - 1, first[c], {Req(c)})
          /\ sent' = [sent EXCEPT ![c] = @ + 1]
          /\ "coap" \in armed[c] /\ retries[c] > 0
      BY <2>2, <3>1 DEF CoapRetry, CanEnter
    <3>3. sent[c] + retries[c] = 1 + MaxRetransmit
      BY <3>2 DEF RetransmissionsBounded
    <3>4. /\ \A d \in Clients : d # c => sent'[d] = sent[d]
          /\ sent'[c] = sent[c] + 1
          /\ retries[c] - 1 \in 0 .. MaxRetransmit
      BY <1>0, <1>f, <3>2
    <3>5. sent'[c] <= 1 + MaxRetransmit
          /\ sent'[c] + (retries[c] - 1) = 1 + MaxRetransmit
      BY <1>f, <3>2, <3>3, <3>4
    <3>6. QED BY <1>0, <1>f, <3>2, <3>4, <3>5, EnterSent
  <2>3. CASE CoapRetryFails(c)
    <3>1. state[c] = "req_sent"
      BY <2>3, BusyNotResolving DEF CoapRetryFails
    <3>2. Enter(c, "send_failed", armed[c], retries[c], first[c], {})
          /\ sent' = sent
      BY <2>3, <3>1 DEF CoapRetryFails, CanEnter
    <3>3. QED
      BY <1>0, <1>f, <3>2, EnterSent DEF RetransmissionsBounded, FinalState
  <2>4. CASE AppTimeout(c)
    BY <1>0, <2>4, MoveSent DEF AppTimeout
  <2>5. CASE ObsTimeout(c)
    BY <1>0, <2>5, MoveSent DEF ObsTimeout
  <2>6. QED BY <1>3, <2>1, <2>2, <2>3, <2>4, <2>5 DEF Timers
<1>4. ASSUME NEW c \in Clients, Age(c) PROVE RetransmissionsBounded'
  BY <1>4, <1>s DEF Age
<1>5. ASSUME NEW c \in Clients, NEW p \in Pdus[c], Network(c, p)
      PROVE  RetransmissionsBounded'
  <2>1. CASE RecvDup(c, p) \/ RecvBad(c, p) \/ RecvStale(c, p)
    BY <1>s, <2>1 DEF RecvDup, RecvBad, RecvStale
  <2>2. CASE RecvAck(c, p)
    <3> DEFINE tm == IF c \in Confirmable THEN armed[c] \ {"coap"} ELSE armed[c]
    <3>1. tm \in SUBSET Timer /\ tm \subseteq armed[c] \cup {"obs"}
      BY <1>f
    <3>2. SetState(c, "req_ackd", tm, retries[c], first[c], {}) /\ sent' = sent
      BY <2>2 DEF RecvAck
    <3> HIDE DEF tm
    <3>3. QED BY <1>0, <3>1, <3>2, SetStateSent
  <2>3. CASE RecvRst(c, p)
    BY <1>0, <2>3, MoveSent DEF RecvRst
  <2>4. CASE RecvNotification(c, p)
    <3> DEFINE head == HeadWith(c, p)
               tm == {"obs"} \cup (armed[c] \ IF c \in Confirmable
                                              THEN {"app", "coap"} ELSE {"app"})
    <3>1. tm \in SUBSET Timer /\ tm \subseteq armed[c] \cup {"obs"}
          /\ sent' = sent
      BY <1>f, <2>4 DEF Timer, RecvNotification
    <3>2. CASE state[c] = "wait_nfy" /\ "obs" \in armed[c]
      <4>1. Enter(c, "wait_nfy", armed[c], retries[c], head, {})
        BY <2>4, <3>2 DEF RecvNotification, ObsTimers
      <4>2. QED
        BY <1>0, <1>f, <3>1, <4>1, EnterSent DEF RetransmissionsBounded
    <3>3. CASE (state[c] = "wait_nfy") # ("obs" \in armed[c])
      <4>1. \E how \in {"errx", "segv"} : Die(how)
        BY <2>4, <3>3 DEF RecvNotification, ObsTimers
      <4>2. QED BY <1>s, <3>1, <4>1 DEF Die
    <3>4. CASE state[c] # "wait_nfy" /\ "obs" \notin armed[c]
      <4>1. SetState(c, "wait_nfy", tm, retries[c], head, {})
        BY <2>4, <3>4 DEF RecvNotification, ObsTimers
      <4> HIDE DEF tm, head
      <4>2. QED BY <1>0, <3>1, <4>1, SetStateSent
    <3>5. QED BY <3>2, <3>3, <3>4
  <2>5. CASE RecvResponse(c, p)
    BY <1>0, <1>f, <2>5, SetStateSent DEF RecvResponse
  <2>6. QED BY <1>5, <2>1, <2>2, <2>3, <2>4, <2>5 DEF Network
<1>6. ASSUME NEW k \in Keys, DupZap(k) PROVE RetransmissionsBounded'
  BY <1>6, <1>s DEF DupZap
<1>7. CASE UNCHANGED vars
  BY <1>7, <1>s DEF vars, fsmVars
<1>8. QED BY <1>1, <1>2, <1>3, <1>4, <1>5, <1>6, <1>7 DEF Next

(* No request leaves more than 1 + EC_COAP_MAX_RETRANSMIT times, and the   *)
(* retries that the CoAP timer has left tell how often it has.             *)
THEOREM RetransmissionsCorrect == Spec => []RetransmissionsBounded
<1>1. Init => TimersInv /\ RetransmissionsBounded
  BY ClientAssumption
  DEF Init, TimersInv, AtRest, TimersMatchState, TimersOf, Startable,
      RetransmissionsBounded
<1>2. TypeOK /\ TimersInv /\ RetransmissionsBounded /\ [Next]_vars
        => TimersInv' /\ RetransmissionsBounded'
  BY TimersStep, SentStep
<1>3. QED BY <1>1, <1>2, TypeCorrect, PTL DEF Spec

-----------------------------------------------------------------------------
(* How a request ends: the one callback that its user gets in a final      *)
(* state, and what is left of a context that the engine owns               *)

(* The inductive invariant behind ReportedOnce: as long as a request is    *)
(* being resolved or in flight its user has not been told anything final.  *)
Untold(c) == state[c] \in InFlight \cup {"none"} \/ dns[c] => told[c] = 0

ToldInv == ReportedOnce /\ \A c \in Clients : Untold(c)

LEMMA EnterTold ==
  ASSUME FsmTypeOK, ToldInv, proc = "up", NEW c \in Clients, told[c] = 0,
         NEW s \in FinalState \cup InFlight, NEW tm, NEW r, NEW head, NEW msgs,
         Enter(c, s, tm, r, head, msgs), cancel' = cancel,
         ~dns'[c], \A d \in Clients : d # c => dns'[d] = dns[d]
  PROVE  ToldInv'
<1>1. proc' # "errx"
  BY DEF Enter, Reports
<1>2. ASSUME NEW d \in Clients
      PROVE  /\ told'[d] <= 1
             /\ (state'[d] \in FinalState
                   \/ (state'[d] = "freed" /\ d \notin UserOwn))
                  /\ ~cancel'[d] /\ ~dns'[d] => told'[d] = 1
             /\ state'[d] \in InFlight \cup {"none"} \/ dns'[d] => told'[d] = 0
  <2>1. CASE d # c
    BY <2>1 DEF FsmTypeOK, ToldInv, ReportedOnce, Untold, Enter, Reports
  <2>2. CASE d = c /\ s \in FinalState
    BY <2>2 DEF FsmTypeOK, Enter, Reports, FinalState, InFlight
  <2>3. CASE d = c /\ s \notin FinalState
    BY <2>3 DEF FsmTypeOK, Enter, Reports, FinalState, InFlight
  <2>4. QED BY <2>1, <2>2, <2>3
<1>3. QED BY <1>1, <1>2 DEF ToldInv, ReportedOnce, Untold

LEMMA DieTold ==
  ASSUME ToldInv, proc = "up", NEW how, Die(how), cancel' = cancel,
         \A d \in Clients : dns'[d] => dns[d],
         how = "errx" \/ dns' = dns
  PROVE  ToldInv'
<1>1. \A d \in Clients : told'[d] = told[d] /\ state'[d] = state[d]
  BY DEF Die
<1>2. CASE how = "errx"
  BY <1>1, <1>2 DEF Die, ToldInv, ReportedOnce, Untold
<1>3. CASE dns' = dns
  BY <1>1, <1>3 DEF Die, ToldInv, ReportedOnce, Untold
<1>4. QED BY <1>2, <1>3

(* A context with a request in flight enters a state, or the process dies. *)
LEMMA SetStateTold ==
  ASSUME FsmTypeOK, TimersInv, ToldInv, proc = "up", NEW c \in Clients,
         NEW s \in FinalState \cup InFlight, NEW tm, NEW r, NEW head, NEW msgs,
         SetState(c, s, tm, r, head, msgs), cancel' = cancel, dns' = dns,
         CanEnter(state[c], s) => state[c] \in InFlight
  PROVE  ToldInv'
<1>1. CASE CanEnter(state[c], s)
  <2>1. state[c] \in InFlight /\ told[c] = 0
    BY <1>1 DEF ToldInv, Untold
  <2>2. ~dns[c]
    BY <2>1, BusyNotResolving
  <2>3. QED BY <1>1, <2>1, <2>2, EnterTold DEF SetState
<1>2. CASE ~CanEnter(state[c], s)
  BY <1>2, DieTold DEF SetState
<1>3. QED BY <1>1, <1>2

LEMMA ToldStep ==
  ASSUME TypeOK, TimersInv, ToldInv, [Next]_vars
  PROVE  ToldInv'
<1> USE ClientAssumption
<1>0. FsmTypeOK /\ cancel \in [Clients -> BOOLEAN] /\ dns \in [Clients -> BOOLEAN]
  BY DEF TypeOK, RestTypeOK
<1>f. told \in [Clients -> Nat] /\ state \in [Clients -> CliState]
  BY <1>0 DEF FsmTypeOK
<1>s. ASSUME proc' = proc, state' = state, told' = told, dns' = dns,
             \A c \in Clients : cancel[c] => cancel'[c]
      PROVE  ToldInv'
  BY <1>s DEF ToldInv, ReportedOnce, Untold
<1>1. ASSUME NEW c \in Clients, User(c) PROVE ToldInv'
  <2>1. CASE Go(c)
    BY <1>0, <1>f, <2>1 DEF Go, ToldInv, ReportedOnce, Untold
  <2>2. CASE GoBusy(c)
    BY <1>0, <2>2, SetStateTold DEF GoBusy, Move, FinalState
  <2>3. CASE Cancel(c)
    BY <1>0, <1>s, <2>3 DEF Cancel
  <2>4. CASE UserFree(c)
    <3>1. /\ c \in UserOwn /\ told' = told /\ dns' = dns /\ cancel' = cancel
          /\ state' = [state EXCEPT ![c] = "freed"] /\ proc = "up" /\ ~dns[c]
      BY <2>4 DEF UserFree
    <3>2. \A d \in Clients : d # c => state'[d] = state[d]
      BY <1>f, <3>1
    <3>3. state'[c] = "freed" /\ "freed" \notin FinalState \cup InFlight \cup {"none"}
      BY <1>f, <3>1 DEF FinalState, InFlight
    <3>4. QED BY <3>1, <3>2, <3>3 DEF ToldInv, ReportedOnce, Untold
  <2>5. QED BY <1>1, <2>1, <2>2, <2>3, <2>4 DEF User
<1>2. ASSUME NEW c \in Clients, Resolver(c) PROVE ToldInv'
  <2>1. /\ dns[c] /\ dns' = [dns EXCEPT ![c] = FALSE] /\ cancel' = cancel
        /\ proc = "up"
    BY <1>2 DEF Resolver, DnsFailed, DnsUnsent, DnsUnregistered, DnsSent
  <2>2. /\ ~dns'[c] /\ \A d \in Clients : d # c => dns'[d] = dns[d]
        /\ \A d \in Clients : dns'[d] => dns[d]
    BY <1>0, <2>1
  <2>3. told[c] = 0
    BY <2>1 DEF ToldInv, Untold
  <2>4. CanEnter(state[c], "dns_ok") /\ armed[c] = {}
    BY <2>1, ResolvedIsIdle
  <2>s. "internal_err" \in FinalState /\ "dns_failed" \in FinalState
    BY DEF FinalState
  <2>5. CASE DnsFailed(c)
    BY <1>0, <2>1, <2>2, <2>3, <2>s, <2>5, EnterTold, DieTold
    DEF DnsFailed, Move, SetState
  <2>6. CASE DnsUnsent(c)
    BY <1>0, <2>1, <2>2, <2>3, <2>4, <2>s, <2>6, EnterTold DEF DnsUnsent
  <2>7. CASE DnsUnregistered(c)
    BY <1>0, <2>1, <2>2, <2>3, <2>4, <2>s, <2>7, EnterTold DEF DnsUnregistered
  <2>8. CASE DnsSent(c)
    <3>1. state' = [state EXCEPT ![c] = "req_sent"] /\ told' = told
      BY <2>4, <2>8 DEF DnsSent
    <3>2. /\ \A d \in Clients : d # c => state'[d] = state[d]
          /\ state'[c] = "req_sent" /\ "req_sent" \notin FinalState \cup {"freed"}
      BY <1>f, <3>1 DEF FinalState
    <3>3. QED BY <2>1, <2>2, <2>3, <3>1, <3>2 DEF ToldInv, ReportedOnce, Untold
  <2>9. QED BY <1>2, <2>5, <2>6, <2>7, <2>8 DEF Resolver
<1>3. ASSUME NEW c \in Clients, Timers(c) PROVE ToldInv'
  <2>1. proc = "up" /\ armed[c] # {} /\ dns' = dns /\ cancel' = cancel
    BY <1>3
    DEF Timers, CoapTimeout, CoapRetry, CoapRetryFails, AppTimeout, ObsTimeout
  <2>2. state[c] \in InFlight /\ ~dns[c] /\ told[c] = 0
    BY <2>1, BusyNotResolving DEF ToldInv, Untold
  <2>3. CASE CoapTimeout(c)
    BY <1>0, <2>1, <2>2, <2>3, SetStateTold DEF CoapTimeout, Move, FinalState
  <2>4. CASE CoapRetry(c)
    BY <1>0, <2>1, <2>2, <2>4, EnterTold, DieTold DEF CoapRetry, InFlight
  <2>5. CASE CoapRetryFails(c)
    BY <1>0, <2>1, <2>2, <2>5, EnterTold, DieTold
    DEF CoapRetryFails, FinalState
  <2>6. CASE AppTimeout(c)
    BY <1>0, <2>1, <2>2, <2>6, SetStateTold DEF AppTimeout, Move, FinalState
  <2>7. CASE ObsTimeout(c)
    BY <1>0, <2>1, <2>2, <2>7, SetStateTold DEF ObsTimeout, Move, FinalState
  <2>8. QED BY <1>3, <2>3, <2>4, <2>5, <2>6, <2>7 DEF Timers
<1>4. ASSUME NEW c \in Clients, Age(c) PROVE ToldInv'
  BY <1>4, <1>s DEF Age
<1>5. ASSUME NEW c \in Clients, NEW p \in Pdus[c], Network(c, p) PROVE ToldInv'
  <2>1. CASE RecvDup(c, p) \/ RecvBad(c, p) \/ RecvStale(c, p)
    BY <1>s, <2>1 DEF RecvDup, RecvBad, RecvStale
  <2>2. /\ \A s \in {"req_ackd", "req_rst", "req_done", "wait_nfy"} :
             CanEnter(state[c], s) => state[c] \in InFlight
        /\ {"req_ackd", "req_rst", "req_done", "wait_nfy"}
             \subseteq FinalState \cup InFlight
    BY DEF CanEnter, InFlight, FinalState
  <2>3. CASE RecvAck(c, p)
    BY <1>0, <2>2, <2>3, SetStateTold DEF RecvAck, Receives
  <2>4. CASE RecvRst(c, p)
    BY <1>0, <2>2, <2>4, SetStateTold DEF RecvRst, Receives, Move
  <2>5. CASE RecvResponse(c, p)
    BY <1>0, <2>2, <2>5, SetStateTold DEF RecvResponse, Good, Receives
  <2>6. CASE RecvNotification(c, p)
    <3> DEFINE head == HeadWith(c, p)
               tm == {"obs"} \cup (armed[c] \ IF c \in Confirmable
                                              THEN {"app", "coap"} ELSE {"app"})
    <3>1. proc = "up" /\ dns' = dns /\ cancel' = cancel
      BY <2>6 DEF RecvNotification, Good, Receives
    <3>2. CASE state[c] = "wait_nfy" /\ "obs" \in armed[c]
      <4>1. ~dns[c] /\ told[c] = 0
        BY <3>2, BusyNotResolving DEF ToldInv, Untold
      <4>2. Enter(c, "wait_nfy", armed[c], retries[c], head, {})
        BY <2>6, <3>2 DEF RecvNotification, ObsTimers
      <4>3. QED BY <1>0, <2>2, <3>1, <4>1, <4>2, EnterTold
    <3>3. CASE (state[c] = "wait_nfy") # ("obs" \in armed[c])
      <4>1. \E how \in {"errx", "segv"} : Die(how)
        BY <2>6, <3>3 DEF RecvNotification, ObsTimers
      <4>2. QED BY <3>1, <4>1, DieTold
    <3>4. CASE state[c] # "wait_nfy" /\ "obs" \notin armed[c]
      <4>1. SetState(c, "wait_nfy", tm, retries[c], head, {})
        BY <2>6, <3>4 DEF RecvNotification, ObsTimers
      <4> HIDE DEF tm, head
      <4>2. QED BY <1>0, <2>2, <3>1, <4>1, SetStateTold
    <3>5. QED BY <3>2, <3>3, <3>4
  <2>7. QED BY <1>5, <2>1, <2>3, <2>4, <2>5, <2>6 DEF Network
<1>6. ASSUME NEW k \in Keys, DupZap(k) PROVE ToldInv'
  BY <1>6, <1>s DEF DupZap
<1>7. CASE UNCHANGED vars
  BY <1>7, <1>s DEF vars, fsmVars
<1>8. QED BY <1>1, <1>2, <1>3, <1>4, <1>5, <1>6, <1>7 DEF Next

(* The user of a context is called back in a final state exactly once,     *)
(* whatever comes first of response, RST, failure and timeout, unless she  *)
(* has cancelled or the process has been ended.                            *)
THEOREM ReportedCorrect == Spec => []ReportedOnce
<1>1. Init => TimersInv /\ ToldInv
  BY DEF Init, TimersInv, AtRest, TimersMatchState, TimersOf, Startable,
         ToldInv, ReportedOnce, Untold, FinalState
<1>2. TypeOK /\ TimersInv /\ ToldInv /\ [Next]_vars => TimersInv' /\ ToldInv'
  BY TimersStep, ToldStep
<1>3. ToldInv => ReportedOnce
  BY DEF ToldInv
<1>4. QED BY <1>1, <1>2, <1>3, TypeCorrect, PTL DEF Spec

-----------------------------------------------------------------------------
(* Contexts that the engine owns *)

(* If no context is user-owned, none is ever at rest in a final state, and *)
(* exactly those with a request in flight are registered.                  *)
OwnInv ==
  \A c \in Clients :
    \/ state[c] \in {"none", "freed"} /\ listed[c] = 0 /\ inputs[c] = 0
    \/ state[c] \in InFlight /\ listed[c] = 1 /\ inputs[c] = 1

LEMMA EnterOwn ==
  ASSUME UserOwn = {}, FsmTypeOK, OwnInv, NEW c \in Clients,
         NEW s \in FinalState \cup InFlight, state[c] # "freed",
         s \in FinalState \/ state[c] \in InFlight,
         NEW tm, NEW r, NEW head, NEW msgs, Enter(c, s, tm, r, head, msgs)
  PROVE  OwnInv'
<1> SUFFICES ASSUME NEW d \in Clients
             PROVE  \/ /\ state'[d] \in {"none", "freed"}
                       /\ listed'[d] = 0 /\ inputs'[d] = 0
                    \/ /\ state'[d] \in InFlight
                       /\ listed'[d] = 1 /\ inputs'[d] = 1
  BY DEF OwnInv
<1>1. CASE d # c
  BY <1>1 DEF FsmTypeOK, OwnInv, Enter, Unlink
<1>2. CASE d = c
  <2>1. /\ listed[c] \in {0, 1} /\ inputs[c] = listed[c]
        /\ listed[c] = 1 <=> state[c] \in InFlight
    BY DEF OwnInv, InFlight
  <2>2. \/ state'[c] = "freed" /\ listed'[c] = 0 /\ inputs'[c] = 0
        \/ /\ s \in InFlight /\ state'[c] = s
           /\ listed'[c] = listed[c] /\ inputs'[c] = inputs[c]
    BY <2>1 DEF FsmTypeOK, Enter, Unlink, FinalState, InFlight
  <2>3. s \in InFlight => s \notin FinalState
    BY DEF InFlight, FinalState
  <2>4. QED BY <1>2, <2>1, <2>2, <2>3
<1>3. QED BY <1>1, <1>2

(* What a step of the state machine does, if it ends in set_state. *)
LEMMA SetStateOwn ==
  ASSUME UserOwn = {}, FsmTypeOK, OwnInv, NEW c \in Clients,
         NEW s \in FinalState \cup InFlight, state[c] # "freed",
         s \in FinalState \/ (CanEnter(state[c], s) => state[c] \in InFlight),
         NEW tm, NEW r, NEW head, NEW msgs, SetState(c, s, tm, r, head, msgs)
  PROVE  OwnInv'
<1>1. CASE CanEnter(state[c], s)
  BY <1>1, EnterOwn DEF SetState
<1>2. CASE ~CanEnter(state[c], s)
  BY <1>2 DEF SetState, Die, OwnInv
<1>3. QED BY <1>1, <1>2

LEMMA OwnStep ==
  ASSUME UserOwn = {}, TypeOK, TimersInv, OwnInv, [Next]_vars
  PROVE  OwnInv'
<1> USE ClientAssumption
<1>0. FsmTypeOK
  BY DEF TypeOK
<1>s. ASSUME state' = state, listed' = listed, inputs' = inputs
      PROVE  OwnInv'
  BY <1>s DEF OwnInv
<1>d. ASSUME NEW how, Die(how) PROVE OwnInv'
  BY <1>d, <1>s DEF Die
<1>i. ASSUME NEW c \in Clients, state[c] \in InFlight PROVE state[c] # "freed"
  BY <1>i DEF InFlight
<1>1. ASSUME NEW c \in Clients, User(c) PROVE OwnInv'
  <2>1. CASE Go(c) \/ Cancel(c)
    BY <1>s, <2>1 DEF Go, Cancel
  <2>2. CASE GoBusy(c)
    BY <1>0, <1>i, <2>2, SetStateOwn DEF GoBusy, Move, FinalState
  <2>3. CASE UserFree(c)
    BY <2>3 DEF UserFree
  <2>4. QED BY <1>1, <2>1, <2>2, <2>3 DEF User
<1>2. ASSUME NEW c \in Clients, Resolver(c) PROVE OwnInv'
  <2>1. dns[c]
    BY <1>2 DEF Resolver, DnsFailed, DnsUnsent, DnsUnregistered, DnsSent
  <2>2. /\ CanEnter(state[c], "dns_ok") /\ armed[c] = {} /\ state[c] # "freed"
        /\ state[c] \in Startable
    BY <2>1, ResolvedIsIdle DEF TimersInv, AtRest, Startable, FinalState
  <2>s. "internal_err" \in FinalState /\ "dns_failed" \in FinalState
    BY DEF FinalState
  <2>3. CASE DnsFailed(c)
    BY <1>0, <2>2, <2>3, <2>s, SetStateOwn DEF DnsFailed, Move
  <2>4. CASE DnsUnsent(c)
    BY <1>0, <2>2, <2>4, <2>s, EnterOwn DEF DnsUnsent
  <2>5. CASE DnsUnregistered(c)
    BY <1>0, <2>2, <2>5, <2>s, EnterOwn DEF DnsUnregistered
  <2>6. CASE DnsSent(c)
    <3>1. /\ state' = [state EXCEPT ![c] = "req_sent"]
          /\ listed' = [listed EXCEPT ![c] = @ + 1]
          /\ inputs' = [inputs EXCEPT ![c] = @ + 1]
      BY <2>2, <2>6 DEF DnsSent
    <3>2. listed[c] = 0 /\ inputs[c] = 0
      BY <2>2 DEF OwnInv, Startable, FinalState, InFlight
    <3>3. QED BY <1>0, <3>1, <3>2 DEF FsmTypeOK, OwnInv, InFlight
  <2>7. QED BY <1>2, <2>3, <2>4, <2>5, <2>6 DEF Resolver
<1>3. ASSUME NEW c \in Clients, Timers(c) PROVE OwnInv'
  <2>1. armed[c] # {}
    BY <1>3
    DEF Timers, CoapTimeout, CoapRetry, CoapRetryFails, AppTimeout, ObsTimeout
  <2>2. state[c] \in InFlight /\ state[c] # "freed"
    BY <1>i, <2>1, BusyNotResolving
  <2>3. CASE CoapTimeout(c)
    BY <1>0, <2>2, <2>3, SetStateOwn DEF CoapTimeout, Move, FinalState
  <2>4. CASE CoapRetry(c)
    BY <1>0, <1>d, <2>2, <2>4, EnterOwn DEF CoapRetry, InFlight
  <2>5. CASE CoapRetryFails(c)
    BY <1>0, <1>d, <2>2, <2>5, EnterOwn DEF CoapRetryFails, FinalState
  <2>6. CASE AppTimeout(c)
    BY <1>0, <2>2, <2>6, SetStateOwn DEF AppTimeout, Move, FinalState
  <2>7. CASE ObsTimeout(c)
    BY <1>0, <2>2, <2>7, SetStateOwn DEF ObsTimeout, Move, FinalState
  <2>8. QED BY <1>3, <2>3, <2>4, <2>5, <2>6, <2>7 DEF Timers
<1>4. ASSUME NEW c \in Clients, Age(c) PROVE OwnInv'
  BY <1>4, <1>s DEF Age
<1>5. ASSUME NEW c \in Clients, NEW p \in Pdus[c], Network(c, p) PROVE OwnInv'
  <2>1. CASE RecvDup(c, p) \/ RecvBad(c, p) \/ RecvStale(c, p)
    BY <1>s, <2>1 DEF RecvDup, RecvBad, RecvStale
  <2>2. /\ \A s \in {"req_ackd", "req_rst", "req_done", "wait_nfy"} :
             CanEnter(state[c], s) => state[c] \in InFlight
        /\ {"req_ackd", "req_rst", "req_done", "wait_nfy"}
             \subseteq FinalState \cup InFlight
    BY DEF CanEnter, InFlight, FinalState
  <2>3. CASE RecvAck(c, p)
    BY <1>0, <2>2, <2>3, SetStateOwn DEF RecvAck, Receives
  <2>4. CASE RecvRst(c, p)
    BY <1>0, <2>2, <2>4, SetStateOwn DEF RecvRst, Receives, Move
  <2>5. CASE RecvResponse(c, p)
    BY <1>0, <2>2, <2>5, SetStateOwn DEF RecvResponse, Good, Receives
  <2>6. CASE RecvNotification(c, p)
    <3> DEFINE head == HeadWith(c, p)
               tm == {"obs"} \cup (armed[c] \ IF c \in Confirmable
                                              THEN {"app", "coap"} ELSE {"app"})
    <3>1. state[c] # "freed"
      BY <2>6 DEF RecvNotification, Good, Receives
    <3>2. CASE state[c] = "wait_nfy" /\ "obs" \in armed[c]
      <4>1. Enter(c, "wait_nfy", armed[c], retries[c], head, {})
            /\ state[c] \in InFlight
        BY <2>6, <3>2 DEF RecvNotification, InFlight
      <4>2. QED BY <1>0, <2>2, <3>1, <4>1, EnterOwn
    <3>3. CASE (state[c] = "wait_nfy") # ("obs" \in armed[c])
      BY <1>d, <2>6, <3>3 DEF RecvNotification, ObsTimers
    <3>4. CASE state[c] # "wait_nfy" /\ "obs" \notin armed[c]
      <4>1. SetState(c, "wait_nfy", tm, retries[c], head, {})
        BY <2>6, <3>4 DEF RecvNotification, ObsTimers
      <4> HIDE DEF tm, head
      <4>2. QED BY <1>0, <2>2, <3>1, <4>1, SetStateOwn
    <3>5. QED BY <3>2, <3>3, <3>4
  <2>7. QED BY <1>5, <2>1, <2>3, <2>4, <2>5, <2>6 DEF Network
<1>6. ASSUME NEW k \in Keys, DupZap(k) PROVE OwnInv'
  BY <1>6, <1>s DEF DupZap
<1>7. CASE UNCHANGED vars
  BY <1>7, <1>s DEF vars, fsmVars
<1>8. QED BY <1>1, <1>2, <1>3, <1>4, <1>5, <1>6, <1>7 DEF Next

(* Nothing leads to a context that the engine has freed: no timer, no      *)
(* evdns request, no read event and no link in the list.  (It does not     *)
(* hold of a user-owned context that has been used twice.)                 *)
THEOREM FreedUnreachable ==
  ASSUME UserOwn = {}
  PROVE  Spec => []FreedIsUnreachable
<1>1. Init => TimersInv /\ OwnInv
  BY DEF Init, TimersInv, AtRest, TimersMatchState, TimersOf, Startable, OwnInv
<1>2. TypeOK /\ TimersInv /\ OwnInv /\ [Next]_vars => TimersInv' /\ OwnInv'
  BY TimersStep, OwnStep
<1>3. TimersInv /\ OwnInv => FreedIsUnreachable
  BY DEF TimersInv, AtRest, TimersMatchState, TimersOf, OwnInv, InFlight,
         Startable, FinalState, FreedIsUnreachable
<1>4. QED BY <1>1, <1>2, <1>3, TypeCorrect, PTL DEF Spec

-----------------------------------------------------------------------------
(* Plain requests never end the process *)

(* The engine owns every context, none asks for an observation, copies     *)
(* arrive within EC_DUP_LIFETIME, and all ACKs of a request have its MID.  *)
PlainUse ==
  /\ UserOwn = {} /\ Observers = {} /\ Prompt = Keys
  /\ \A c \in Clients : \A p, q \in Pdus[c] :
       p.code = "ack" /\ q.code = "ack" => p.key = q.key

(* There are no observations, and the ACK of a request that has been       *)
(* acknowledged has a duplicate record or has had one.                     *)
PlainInv ==
  /\ proc # "errx"
  /\ \A c \in Clients : ~on[c] /\ state[c] # "wait_nfy"
  /\ \A c \in Clients : state[c] = "req_ackd" =>
       \A p \in Pdus[c] : p.code = "ack" => seen[p.key] # "no"

(* Any step that kills no one, keeps the records and acknowledges nothing. *)
LEMMA PlainSame ==
  ASSUME PlainInv, proc' # "errx",
         \A c \in Clients : on'[c] => on[c],
         \A k \in Keys : seen'[k] = "no" => seen[k] = "no",
         \A c \in Clients : \A s \in {"req_ackd", "wait_nfy"} :
           state'[c] = s => state[c] = s,
         Pdus \in [Clients -> SUBSET Pdu]
  PROVE  PlainInv'
<1>1. \A c \in Clients : \A p \in Pdus[c] : p.key \in Keys
  BY DEF Pdu
<1>2. QED BY <1>1 DEF PlainInv

(* A state machine step to anything but REQ_ACKD and WAIT_NFY. *)
LEMMA PlainEnter ==
  ASSUME PlainInv, FsmTypeOK, proc = "up", NEW c \in Clients,
         NEW s, s \notin {"req_ackd", "wait_nfy"}, NEW tm, NEW r, NEW head, NEW msgs,
         Enter(c, s, tm, r, head, msgs),
         \A d \in Clients : on'[d] => on[d],
         \A k \in Keys : seen'[k] = "no" => seen[k] = "no",
         Pdus \in [Clients -> SUBSET Pdu]
  PROVE  PlainInv'
<1>1. proc' # "errx"
      /\ \A d \in Clients : \A q \in {"req_ackd", "wait_nfy"} :
           state'[d] = q => state[d] = q
  BY DEF FsmTypeOK, Enter
<1>2. QED BY <1>1, PlainSame

LEMMA PlainStep ==
  ASSUME PlainUse, TypeOK, TimersInv, OwnInv, PlainInv, [Next]_vars
  PROVE  PlainInv'
<1> USE ClientAssumption
<1>0. FsmTypeOK /\ seen \in [Keys -> DupRecord] /\ on \in [Clients -> BOOLEAN]
  BY DEF TypeOK, RestTypeOK
<1>f. state \in [Clients -> CliState]
  BY <1>0 DEF FsmTypeOK
<1>p. \A c \in Clients : \A p \in Pdus[c] : p \in Pdu /\ p.key \in Keys
  BY DEF Pdu
<1>s. ASSUME proc' = "up", state' = state, on' = on,
             \A k \in Keys : seen'[k] = "no" => seen[k] = "no"
      PROVE  PlainInv'
  BY <1>s, PlainSame
<1>1. ASSUME NEW c \in Clients, User(c) PROVE PlainInv'
  <2>1. CASE Go(c) \/ Cancel(c)
    BY <1>s, <2>1 DEF Go, Cancel, obsVars
  <2>2. CASE GoBusy(c)
    BY <1>0, <2>2, PlainEnter DEF GoBusy, Move, SetState, CanEnter, obsVars
  <2>3. CASE UserFree(c)
    BY <2>3 DEF UserFree, PlainUse
  <2>4. QED BY <1>1, <2>1, <2>2, <2>3 DEF User
<1>2. ASSUME NEW c \in Clients, Resolver(c) PROVE PlainInv'
  <2>1. dns[c]
    BY <1>2 DEF Resolver, DnsFailed, DnsUnsent, DnsUnregistered, DnsSent
  <2>2. CanEnter(state[c], "dns_ok") /\ armed[c] = {} /\ state[c] = "none"
    BY <2>1, ResolvedIsIdle
    DEF TimersInv, AtRest, OwnInv, Startable, FinalState, InFlight
  <2>3. CASE DnsFailed(c)
    BY <1>0, <2>2, <2>3, PlainEnter
    DEF DnsFailed, Move, SetState, CanEnter, obsVars
  <2>4. CASE DnsUnsent(c)
    BY <1>0, <2>2, <2>4, PlainEnter DEF DnsUnsent, obsVars
  <2>5. CASE DnsUnregistered(c)
    BY <1>0, <2>2, <2>5, PlainEnter DEF DnsUnregistered, obsVars
  <2>6. CASE DnsSent(c)
    BY <1>f, <2>2, <2>6, PlainSame DEF DnsSent, obsVars, PlainInv
  <2>7. QED BY <1>2, <2>3, <2>4, <2>5, <2>6 DEF Resolver
<1>3. ASSUME NEW c \in Clients, Timers(c) PROVE PlainInv'
  <2>1. armed[c] # {} /\ armed[c] \in SUBSET Timer
    BY <1>0, <1>3
    DEF Timers, CoapTimeout, CoapRetry, CoapRetryFails, AppTimeout, ObsTimeout,
        FsmTypeOK
  <2>2. /\ state[c] \in InFlight
        /\ "coap" \in armed[c] => state[c] = "req_sent"
        /\ "obs" \in armed[c] => state[c] = "wait_nfy"
    BY <2>1, BusyNotResolving DEF TimersInv, TimersMatchState, TimersOf, InFlight
  <2>3. CASE CoapTimeout(c)
    BY <1>0, <2>2, <2>3, PlainEnter
    DEF CoapTimeout, Move, SetState, CanEnter, obsVars
  <2>4. CASE CoapRetry(c)
    BY <1>0, <2>2, <2>4, PlainEnter DEF CoapRetry, CanEnter, obsVars
  <2>5. CASE CoapRetryFails(c)
    BY <1>0, <2>2, <2>5, PlainEnter DEF CoapRetryFails, CanEnter, obsVars
  <2>6. CASE AppTimeout(c)
    BY <1>0, <2>2, <2>6, PlainEnter
    DEF AppTimeout, Move, SetState, CanEnter, obsVars
  <2>7. CASE ObsTimeout(c)
    BY <1>0, <2>2, <2>7, PlainEnter
    DEF ObsTimeout, Move, SetState, CanEnter, InFlight
  <2>8. QED BY <1>3, <2>3, <2>4, <2>5, <2>6, <2>7 DEF Timers
<1>4. ASSUME NEW c \in Clients, Age(c) PROVE PlainInv'
  BY <1>4, <1>s DEF Age
<1>5. ASSUME NEW c \in Clients, NEW p \in Pdus[c], Network(c, p)
      PROVE  PlainInv'
  <2>1. proc = "up" /\ inputs[c] > 0 /\ state[c] # "freed"
    BY <1>5 DEF Network, RecvDup, RecvBad, RecvAck, RecvRst, RecvStale,
                RecvNotification, RecvResponse, Good, Receives
  <2>2. state[c] \in InFlight
    BY <2>1 DEF OwnInv
  <2>3. /\ \A k \in Keys : Record(p)[k] = "no" => seen[k] = "no"
        /\ Record(p)[p.key] = "yes"
    BY <1>0, <1>p DEF Record
  <2>4. CASE RecvDup(c, p) \/ RecvBad(c, p)
    BY <1>s, <2>1, <2>3, <2>4 DEF RecvDup, RecvBad, obsVars
  <2>5. CASE RecvAck(c, p)
    <3>1. seen[p.key] = "no" /\ p.code = "ack" /\ seen' = Record(p) /\ on' = on
      BY <2>5 DEF RecvAck, Fresh, obsVars
    <3>2. state[c] = "req_sent"
      BY <2>2, <3>1 DEF PlainInv, InFlight
    <3>3. proc' = "up" /\ state' = [state EXCEPT ![c] = "req_ackd"]
      BY <2>1, <2>5, <3>2 DEF RecvAck, SetState, CanEnter, Enter, FinalState
    <3>4. ASSUME NEW d \in Clients, state'[d] = "req_ackd",
                 NEW q \in Pdus[d], q.code = "ack"
          PROVE  seen'[q.key] # "no"
      <4>1. CASE d = c
        BY <2>3, <3>1, <3>4, <4>1 DEF PlainUse
      <4>2. CASE d # c
        BY <1>f, <1>p, <2>3, <3>1, <3>3, <3>4, <4>2 DEF PlainInv
      <4>3. QED BY <4>1, <4>2
    <3>5. \A d \in Clients : ~on'[d] /\ state'[d] # "wait_nfy"
      BY <1>f, <3>1, <3>3 DEF PlainInv
    <3>6. QED BY <3>3, <3>4, <3>5 DEF PlainInv
  <2>6. CASE RecvRst(c, p)
    BY <1>0, <2>1, <2>2, <2>3, <2>6, PlainEnter
    DEF RecvRst, Move, SetState, CanEnter, obsVars
  <2>7. CASE RecvResponse(c, p)
    BY <1>0, <2>1, <2>2, <2>3, <2>7, PlainEnter
    DEF RecvResponse, SetState, CanEnter
  <2>8. CASE RecvStale(c, p)
    BY <2>8 DEF RecvStale, PlainInv
  <2>9. CASE RecvNotification(c, p)
    BY <2>9 DEF RecvNotification, PlainInv, PlainUse
  <2>10. QED BY <1>5, <2>4, <2>5, <2>6, <2>7, <2>8, <2>9 DEF Network
<1>6. ASSUME NEW k \in Keys, DupZap(k) PROVE PlainInv'
  BY <1>0, <1>6, <1>s DEF DupZap, obsVars, PlainUse
<1>7. CASE UNCHANGED vars
  BY <1>7, PlainSame DEF vars, fsmVars, obsVars, PlainInv
<1>8. QED BY <1>1, <1>2, <1>3, <1>4, <1>5, <1>6, <1>7 DEF Next

(* For plain use no order of responses, ACKs, RSTs, duplicates, timers and *)
(* failures makes ec_client_set_state end the process.                     *)
THEOREM PlainNeverErrx ==
  ASSUME PlainUse
  PROVE  Spec => []NeverErrx
<1>0. UserOwn = {}
  BY DEF PlainUse
<1>1. Init => TimersInv /\ OwnInv /\ PlainInv
  BY DEF Init, TimersInv, AtRest, TimersMatchState, TimersOf, Startable,
         OwnInv, PlainInv
<1>2. TypeOK /\ TimersInv /\ OwnInv /\ PlainInv /\ [Next]_vars
        => TimersInv' /\ OwnInv' /\ PlainInv'
  BY <1>0, TimersStep, OwnStep, PlainStep
<1>3. PlainInv => NeverErrx
  BY DEF PlainInv, NeverErrx
<1>4. QED BY <1>1, <1>2, <1>3, TypeCorrect, PTL DEF Spec
=============================================================================
