------------------------------ MODULE HttpProxy ------------------------------
(***************************************************************************)
(* The HTTP to CoAP proxy (proxy/main.c): every HTTP request becomes a     *)
(* CoAP request, and its response an HTTP reply.  A representation that    *)
(* comes in blocks is fetched block by block before the reply is sent.     *)
(*                                                                         *)
(* The proxy keeps one global g_ctx, which is shared by all the HTTP       *)
(* requests that wait: the mapped URI, the body collected so far, the      *)
(* state of the block transfer and the CoAP context made last.  evhttp and *)
(* evcoap run in one event loop, so that each callback is one action.  Of  *)
(* evcoap only this is used: each context ends in one callback             *)
(* (EvcoapClient!ReportedOnce, RequestEnds) and is freed after it.         *)
(***************************************************************************)
EXTENDS Naturals, Sequences, FiniteSets

CONSTANTS
  Reqs,       \* HTTP requests
  Uris,       \* the resources of the mote
  UriOf,      \* [Reqs -> Uris]: what a request asks for
  Method,     \* [Reqs -> {"get", "put", "post", "delete"}], HEAD being a get
  Headers,    \* [Reqs -> Seq(Header)]: Content-Type and Accept, in order
  Blocks,     \* [Uris -> Nat]: blocks of a representation, 0: no Block2
  Binary,     \* the resources with a zero byte in every block
  Codes,      \* what the mote may answer
  Window,     \* bound: HTTP requests that wait at the same time
  NoReq,      \* no context, no URI
  MaxBlock,   \* bound: higher block numbers are told apart by parity only
  MaxBody     \* bound: what comes after so many blocks is not told apart

Failed  == "failed"   \* the CoAP request ends in another state than REQ_DONE
\* The response codes that process_coap_response tells apart; all the others.
Code    == {"changed", "deleted", "created", "content", "empty", "not_found",
            "method_not_allowed", "not_implemented", "other"}
Header  == [name : {"Content-Type", "Accept"}, known : BOOLEAN]

\* A block of a representation as it reaches the HTTP body; one without
\* Accept is a block of the default representation.
Payload == [uri : Uris, num : 0 .. MaxBlock, accept : BOOLEAN, whole : BOOLEAN]
Status  == {200, 201, 204, 404, 405, 500, 501}

CoapReq == [uri : Uris, num : 0 .. MaxBlock, accept : BOOLEAN, get : BOOLEAN]

ASSUME ProxyAssumption ==
  /\ UriOf \in [Reqs -> Uris]
  /\ Method \in [Reqs -> {"get", "put", "post", "delete"}]
  /\ Headers \in [Reqs -> Seq(Header)]
  /\ Blocks \in [Uris -> 0 .. MaxBlock]
  /\ MaxBlock \in Nat \ {0} /\ \A u \in Uris : Blocks[u] < MaxBlock
  /\ MaxBody \in Nat /\ \A u \in Uris : Blocks[u] < MaxBody
  /\ Binary \subseteq Uris
  /\ Codes \subseteq Code
  /\ Window \in Nat
  /\ NoReq \notin Reqs \cup Uris \cup CoapReq

VARIABLES
  proc,     \* the process: "up" or "segv"
  http,     \* [Reqs -> {"new", "open", "dropped", "done"}]
  replies,  \* [Reqs -> Seq([status : Status, body : Seq(Payload)])]
  hdrs,     \* [Reqs -> SUBSET Uris]: whose options are in the reply's headers
  coap,     \* [Reqs -> CoapReq \cup {NoReq}]: the CoAP request that r awaits
  \* g_ctx
  cli,      \* whose context g_ctx.cli is: the last that was made for it
  curi,     \* g_ctx.curi, NoReq if no CoAP request can be made for it
  buf,      \* g_ctx.buf
  bno,      \* g_ctx.bopt.block_no
  more,     \* g_ctx.bopt.more
  \* Histories, for the properties.
  alone,    \* [Reqs -> BOOLEAN]: no other request has waited while r has
  clean     \* [Reqs -> BOOLEAN]: no code but 2.05 and those that end a transfer

ctxVars == <<cli, curi, buf, bno, more>>
vars == <<proc, http, replies, hdrs, coap, ctxVars, alone, clean>>

Init ==
  /\ proc = "up"
  /\ http = [r \in Reqs |-> "new"]
  /\ replies = [r \in Reqs |-> <<>>]
  /\ hdrs = [r \in Reqs |-> {}]
  /\ coap = [r \in Reqs |-> NoReq]
  /\ cli = NoReq
  /\ curi = NoReq
  /\ buf = <<>>
  /\ bno = 0
  /\ more = FALSE
  /\ alone = [r \in Reqs |-> TRUE]
  /\ clean = [r \in Reqs |-> TRUE]

Open == {r \in Reqs : http[r] = "open"}

-----------------------------------------------------------------------------
(***************************************************************************)
(* process_http_request.                                                   *)
(***************************************************************************)

\* Whether process_set_coap_headers adds Accept: it stops at the first
\* header whose media type it does not know.
ForwardsAccept(r) ==
  /\ Method[r] = "get"
  /\ \E i \in DOMAIN Headers[r] :
       /\ Headers[r][i].name = "Accept"
       /\ \A j \in 1 .. i : Headers[r][j].known

\* Mutant: the body of an earlier request is kept.
RoundKeepsBody(r) ==
  /\ bno' = 0
  /\ more' = FALSE
  /\ buf' = buf

\* Mutant: whether there is more is not reset.
RoundKeepsMore(r) ==
  /\ bno' = 0
  /\ more' = more
  /\ buf' = <<>>

\* "Per-round initialisations."
Round(r) ==
  /\ bno' = 0
  /\ more' = FALSE
  /\ buf' = <<>>

Arrives(r) ==
  /\ proc = "up"
  /\ http[r] = "new"
  /\ Cardinality(Open) < Window
  /\ Round(r)

\* The URI does not parse or does not make a CoAP request, such as one with
\* more segments than a PDU has options: the callback returns without a reply.
HttpDropped(r) ==
  /\ Arrives(r)
  /\ http' = [http EXCEPT ![r] = "dropped"]
  /\ curi' = NoReq
  /\ cli' \in {cli, NoReq}    \* u_uri_crumble fails, or ec_request_new
  /\ UNCHANGED <<proc, replies, hdrs, coap, alone, clean>>

HttpRequest(r) ==
  /\ Arrives(r)
  /\ http' = [http EXCEPT ![r] = "open"]
  /\ curi' = UriOf[r]
  /\ cli' = r
  /\ coap' = [coap EXCEPT ![r] = [uri |-> UriOf[r], num |-> 0,
                                  accept |-> ForwardsAccept(r),
                                  get |-> Method[r] = "get"]]
  /\ alone' = [q \in Reqs |-> alone[q] /\ (q \in Open \cup {r} => Open = {})]
  /\ UNCHANGED <<proc, replies, hdrs, clean>>

-----------------------------------------------------------------------------
(***************************************************************************)
(* process_coap_response, the callback of the CoAP request that r awaits.  *)
(***************************************************************************)

\* process_set_http_headers reads the options of the response to g_ctx.cli:
\* those of this response if that is the context that is called back, none
\* if it still waits, and anything if it has been freed.
CopyHeaders(r, code) ==
  hdrs' \in {[hdrs EXCEPT ![r] = @ \cup from] : from \in
    CASE cli = NoReq -> {{}}
      [] cli = r -> IF code = Failed THEN {{}} ELSE {{coap[r].uri}}
      [] cli \in Reqs \ {r} /\ coap[cli] # NoReq -> {{}}
      [] OTHER -> {{}} \cup {{u} : u \in Uris}}

DanglingCli(r) == cli \in Reqs \ {r} /\ coap[cli] = NoReq

Called(r) ==
  /\ proc = "up"
  /\ coap[r] # NoReq

\* Mutant: the context is called back again.
ReplyKeepsContext(r, sent) ==
  /\ http' = [http EXCEPT ![r] = "done"]
  /\ replies' = [replies EXCEPT ![r] = @ \o sent]
  /\ UNCHANGED coap

\* The callback ends with replies; evhttp_send_reply empties what it sends.
Reply(r, sent) ==
  /\ http' = [http EXCEPT ![r] = "done"]
  /\ replies' = [replies EXCEPT ![r] = @ \o sent]
  /\ coap' = [coap EXCEPT ![r] = NoReq]

Plain(status, body) == <<[status |-> status, body |-> body]>>

\* Any read of a context that has been freed may be fatal.
CoapCrash(r) ==
  /\ Called(r)
  /\ DanglingCli(r)
  /\ proc' = "segv"
  /\ UNCHANGED <<http, replies, hdrs, coap, ctxVars, alone, clean>>

\* The CoAP request failed: "wtf!", without a body.
CoapFailed(r) ==
  /\ Called(r)
  /\ CopyHeaders(r, Failed)
  /\ Reply(r, Plain(500, <<>>))
  /\ UNCHANGED <<proc, ctxVars, alone, clean>>

\* The codes that end the transfer, with the status that they map to.
Mapped(code) ==
  CASE code \in {"changed", "deleted"} -> {204}
    [] code = "not_found" -> {404}
    [] code = "method_not_allowed" -> {405}
    [] code = "not_implemented" -> {501}
    [] OTHER -> {}

\* Mutant: the case falls through to the reply of a last block.
CoapFinalFallsThrough(r, code) ==
  /\ Called(r)
  /\ CopyHeaders(r, code)
  /\ \E status \in Mapped(code) :
       Reply(r, Plain(status, buf) \o Plain(200, <<>>))
  /\ buf' = <<>>
  /\ UNCHANGED <<proc, cli, curi, bno, more, alone, clean>>

CoapFinal(r, code) ==
  /\ Called(r)
  /\ CopyHeaders(r, code)
  /\ \E status \in Mapped(code) : Reply(r, Plain(status, buf))
  /\ buf' = <<>>
  /\ UNCHANGED <<proc, cli, curi, bno, more, alone, clean>>

\* The mote has the block that is asked for; without Block2 it has but one.
Serves(q) == Blocks[q.uri] = 0 \/ q.num < Blocks[q.uri]

\* The response has a Block2 option.
InBlocks(q, code) == code \in {"content", "empty"} /\ Blocks[q.uri] > 0

\* g_ctx.bopt.more after ec_response_get_block2, which leaves it alone if
\* there is no Block2 option.
MoreAfter(q, code) ==
  IF InBlocks(q, code) THEN q.num + 1 < Blocks[q.uri] ELSE more

\* The text that is added to the body: none but for 2.05, and only up to the
\* first zero byte.
TextOf(q, code) ==
  IF code = "content"
  THEN <<[uri |-> q.uri, num |-> q.num, accept |-> q.accept,
          whole |-> q.uri \notin Binary]>>
  ELSE <<>>

\* 2.01 is replied at once, and is then handled like a 2.05.
Early(code) == IF code = "created" THEN Plain(201, buf) ELSE <<>>

\* g_ctx.buf with the text added, by which a long body only grows longer.
Collected(q, code) ==
  LET body == (IF code = "created" THEN <<>> ELSE buf) \o TextOf(q, code)
  IN SubSeq(body, 1, IF Len(body) < MaxBody THEN Len(body) ELSE MaxBody)

\* What comes after the switch, for the codes that it does not return for.
Goes(r, code) ==
  /\ Called(r)
  /\ Mapped(code) = {}
  /\ code \in {"content", "empty"} => Serves(coap[r])
  /\ code = "created" => ~coap[r].get
  /\ CopyHeaders(r, code)
  /\ more' = MoreAfter(coap[r], code)
  /\ clean' = [clean EXCEPT ![r] = @ /\ code \in {"content", "empty"}]

\* "make sure requested block was returned"
WrongBlock(r, code) == InBlocks(coap[r], code) /\ coap[r].num # bno

\* Another block than g_ctx waits for, or no payload.
CoapRefused(r, code) ==
  /\ Goes(r, code)
  /\ WrongBlock(r, code) \/ code = "empty"
  /\ Reply(r, Early(code) \o Plain(500, <<>>))
  /\ UNCHANGED <<proc, cli, curi, buf, bno, alone>>

\* "No more blocks => send reply."
CoapLast(r, code) ==
  /\ Goes(r, code)
  /\ ~WrongBlock(r, code) /\ code # "empty"
  /\ ~more'
  /\ Reply(r, Early(code) \o Plain(200, Collected(coap[r], code)))
  /\ buf' = <<>>
  /\ UNCHANGED <<proc, cli, curi, bno, alone>>

\* Far beyond the end, block numbers differ from the one before and from all
\* that the mote has.
NextBlock == IF bno < MaxBlock THEN bno + 1 ELSE MaxBlock - 1

\* "If there is more, send a new request with Block2 Option."
CoapMore(r, code) ==
  /\ Goes(r, code)
  /\ ~WrongBlock(r, code) /\ code # "empty"
  /\ more'
  /\ curi # NoReq
  /\ buf' = Collected(coap[r], code)
  /\ bno' = NextBlock
  /\ cli' = r
  /\ coap' = [coap EXCEPT ![r] = [uri |-> curi, num |-> NextBlock,
                                  accept |-> FALSE, get |-> TRUE]]
  /\ replies' = [replies EXCEPT ![r] = @ \o Early(code)]
  /\ UNCHANGED <<proc, http, curi, alone>>

\* ... which cannot be made, or has no room for the option.
CoapMoreFails(r, code) ==
  /\ Goes(r, code)
  /\ ~WrongBlock(r, code) /\ code # "empty"
  /\ more'
  /\ buf' = Collected(coap[r], code)
  /\ \/ UNCHANGED bno
     \/ curi # NoReq /\ bno' = NextBlock
  /\ cli' = NoReq
  /\ Reply(r, Early(code) \o Plain(500, <<>>))
  /\ UNCHANGED <<proc, curi, alone>>

CoapResponse(r, code) ==
  \/ CoapFinal(r, code)
  \/ CoapRefused(r, code)
  \/ CoapLast(r, code)
  \/ CoapMore(r, code)
  \/ CoapMoreFails(r, code)

Callback(r) ==
  \/ CoapFailed(r)
  \/ CoapCrash(r)
  \/ \E code \in Codes : CoapResponse(r, code)

-----------------------------------------------------------------------------
Next ==
  \E r \in Reqs : HttpDropped(r) \/ HttpRequest(r) \/ Callback(r)

Spec == Init /\ [][Next]_vars

\* evcoap calls back for every request that it has taken, see
\* EvcoapClient!RequestEnds; no HTTP client has to send anything.
FairSpec == Spec /\ \A r \in Reqs : WF_vars(Callback(r))

-----------------------------------------------------------------------------
(***************************************************************************)
(* Properties.                                                             *)
(***************************************************************************)

\* The types; nobody waits for a CoAP response but an HTTP request that has
\* not been answered in full.
TypeOK ==
  /\ proc \in {"up", "segv"}
  /\ http \in [Reqs -> {"new", "open", "dropped", "done"}]
  /\ \A r \in Reqs : \A i \in DOMAIN replies[r] :
       replies[r][i].status \in Status
  /\ hdrs \in [Reqs -> SUBSET Uris]
  /\ coap \in [Reqs -> CoapReq \cup {NoReq}]
  /\ \A r \in Reqs : coap[r] # NoReq <=> http[r] = "open"
  /\ cli \in Reqs \cup {NoReq}
  /\ curi \in Uris \cup {NoReq}
  /\ bno \in 0 .. MaxBlock
  /\ more \in BOOLEAN
  /\ alone \in [Reqs -> BOOLEAN]
  /\ clean \in [Reqs -> BOOLEAN]

\* The representation of u, block after block.
Whole(u) ==
  [i \in 1 .. IF Blocks[u] = 0 THEN 1 ELSE Blocks[u] |->
     [uri |-> u, num |-> i - 1, accept |-> FALSE, whole |-> TRUE]]

Succeeded(r) ==
  \E i \in DOMAIN replies[r] : replies[r][i].status = 200 /\ Method[r] = "get"
Body(r) ==
  replies[r][CHOOSE i \in DOMAIN replies[r] : replies[r][i].status = 200].body

\* A GET that is replied 200 has the whole representation of its own URI,
\* every block once and in order.
BodyIsItsOwn ==
  \A r \in Reqs : Succeeded(r) => Body(r) = Whole(UriOf[r])

\* Of a request that no other has overlapped, the reply is its own: its
\* headers come from a response to its URI, and the body of a GET is the
\* whole text of it, every block once and in order, if the mote answers with
\* 2.05 or a code that ends the transfer, and no Accept restricts the first
\* block but not the others (process_coap_response and the initialisation of
\* each round in process_http_request).
ReplyIsItsOwn ==
  \A r \in Reqs : alone[r] =>
    /\ hdrs[r] \subseteq {UriOf[r]}
    /\ Succeeded(r) /\ clean[r] /\ UriOf[r] \notin Binary /\ ~ForwardsAccept(r)
         => Body(r) = Whole(UriOf[r])

\* No HTTP request is replied to twice, whatever else waits in the same
\* global context, unless it is told of a 2.01 (Created).
RepliedOnce ==
  \A r \in Reqs :
    (\A i \in DOMAIN replies[r] : replies[r][i].status # 201)
    => Len(replies[r]) = IF http[r] = "done" THEN 1 ELSE 0

\* The same for every code.
RepliedOnceAlways ==
  \A r \in Reqs : Len(replies[r]) <= 1

\* An HTTP request that a CoAP request is made for is answered, unless the
\* process crashes, another request overlaps it or the mote answers with a
\* code that the proxy does not tell apart: both can leave "more" set for
\* a response that has no Block2 option, after which there is always more.
Answered ==
  \A r \in Reqs :
    http[r] = "open" ~> (http[r] = "done" \/ ~alone[r] \/ ~clean[r])

\* Every HTTP request that a CoAP request is made for is answered, unless
\* the process crashes.
AnsweredAlways ==
  \A r \in Reqs : http[r] = "open" ~> (http[r] = "done" \/ proc = "segv")
=============================================================================
