---------------------------- MODULE EvcoapMessage ----------------------------
(***************************************************************************)
(* One exchange as its two users see it through the public API: a request  *)
(* is created from a URI, completed with options, a token and a payload,   *)
(* and sent; the server saves what it needs of it in the flow of its       *)
(* context, hands it to the callback, which composes a response; the       *)
(* client matches the response with its own flow.                          *)
(*                                                                         *)
(* Options are kept by name, in the order of the calls: the getters take   *)
(* the first of a number, or all in order, and ec_opts_push never turns    *)
(* round two options of one number (EvcoapOpt has the order of the numbers *)
(* and the bytes).  Timers, losses and copies are in EvcoapClient,         *)
(* EvcoapServer and EvcoapExchange; a datagram is delivered once here.     *)
(***************************************************************************)
EXTENDS Integers, SequencesExt

CONSTANTS
  Texts,        \* segments of URIs and other values of options
  Uris,         \* [coap : BOOLEAN, named : BOOLEAN, path, query : Seq(Texts)]
  Methods,      \* the methods of ec_method_t
  Tokens,       \* tokens that the user passes or the generator yields
  NoToken,      \* token_sz = 0
  RequestCalls, \* options that the user adds to a request: [name, val]
  ResponseCalls,\* options that the callback adds to a response
  MaxOptions,   \* EC_PROTO_MAX_OPTIONS, 15; the option count has its bits
  Asks,         \* the sizes passed to ec_set_block_size
  Payloads,     \* the sizes passed to ec_request_set_payload
  Codes         \* the codes that the callback may set

\* The names of g_opts; those behind the fencepost, which is number 14.
High  == {"Uri-Query", "Block2", "Block1", "If-None-Match", "Publish"}
Names == High \cup {"Content-Type", "Max-Age", "Proxy-Uri", "Etag", "Uri-Host",
                    "Location-Path", "Uri-Port", "Location-Query", "Uri-Path",
                    "Observe", "Token", "Accept", "If-Match"}

\* Those whose adders refuse a second one, for a request and for a response.
OnceInRequest  == {"Observe", "Publish", "Block1", "Block2"}
OnceInResponse == {"Block1", "Block2"}

NoCode == "unset"
ServerError == "5.00"
NotFoundCode == "4.04"

BlockMin == 16
BlockMax == 1024

\* What an option may hold.
Val == Texts \cup Tokens \cup {"uri", "host", "0"}

\* The strsep loops over a path and a query pass over what is empty.
Segments(segs) == SelectSeq(segs, LAMBDA s : s # "")

\* Of SelectSeq the provers know nothing; the last line says what they need.
ASSUME MessageAssumption ==
  /\ MaxOptions \in Nat \ {0}
  /\ NoToken \notin Tokens
  /\ Asks \subseteq Nat /\ Payloads \subseteq Nat
  /\ RequestCalls \cup ResponseCalls \subseteq
       [name : Names \ {"Token"}, val : Texts]
  /\ NoCode \notin Codes
  /\ \A uri \in Uris : /\ uri.coap \in BOOLEAN /\ uri.named \in BOOLEAN
                       /\ Segments(uri.path) \in Seq(Texts)
                       /\ Segments(uri.query) \in Seq(Texts)

VARIABLES
  cfg,     \* coap->cfg of the client's base: [stateless, szx]
  asked,   \* the value last passed to ec_set_block_size, -1 before
  phase,   \* how far the exchange is
  client,  \* the ec_client_t: request PDU and flow, and the response
  server,  \* the ec_server_t: what arrived, flow and response PDU
  tokens,  \* how often a token was added to the request
  closed   \* descriptors closed on behalf of a client that was never sent

vars == <<cfg, asked, phase, client, server, tokens, closed>>

Phases == {"none", "composing", "called", "replied", "silent", "accepted",
           "mismatch"}

\* What of a message a reader gets: the options of each name, how many there
\* are in all (opts->noptions), payload size; garbled if it was misread.
Message == [opts : [Names -> Seq(Val)], num : Nat, payload : Nat,
            garbled : BOOLEAN]

Empty == [opts |-> [name \in Names |-> <<>>], num |-> 0, payload |-> 0,
          garbled |-> FALSE]

NoUri == [coap |-> FALSE, named |-> FALSE, path |-> <<>>, query |-> <<>>]

Opt(name, val) == [name |-> name, val |-> val]

Has(msg, name) == msg.opts[name] # <<>>

TokenOf(msg) ==
  IF Has(msg, "Token") THEN Head(msg.opts["Token"]) ELSE NoToken

Full(msg) == msg.num = MaxOptions

Push(msg, o) ==
  [msg EXCEPT !.opts[o.name] = Append(@, o.val), !.num = @ + 1]

-----------------------------------------------------------------------------
(***************************************************************************)
(* The preferred block size of a base.                                     *)
(***************************************************************************)

\* Mutant: the smallest block that holds the value.
NearestBlockAbove(val) ==
  LET above == {i \in 4 .. 10 : val <= 2 ^ i}
  IN IF above = {} THEN -1 ELSE Min(above) - 4

\* The largest block below the value as a szx, or -1.
NearestBlock(val) ==
  LET below == {i \in 4 .. 10 : val > 2 ^ i}
  IN IF below = {} THEN -1 ELSE Max(below) - 4

SetBlockSize(val) ==
  /\ asked' = val
  /\ cfg' = IF val \in BlockMin .. BlockMax /\ NearestBlock(val) # -1
            THEN [stateless |-> FALSE, szx |-> NearestBlock(val)]
            ELSE cfg
  /\ UNCHANGED <<phase, client, server, tokens, closed>>

\* ec_get_block_size: 0 for no limit.
BlockSize == IF cfg.stateless THEN 0 ELSE 2 ^ (cfg.szx + 4)

-----------------------------------------------------------------------------
(***************************************************************************)
(* Composing a request.                                                    *)
(***************************************************************************)
NoClient ==
  [method |-> "none", uri |-> NoUri, proxied |-> FALSE, req |-> Empty,
   token |-> NoToken, code |-> NoCode, res |-> Empty]

NoServer ==
  [method |-> "none", req |-> Empty, token |-> NoToken, proxied |-> FALSE,
   path |-> <<>>, query |-> <<>>, code |-> NoCode, res |-> Empty]

Init ==
  /\ cfg = [stateless |-> TRUE, szx |-> 0]
  /\ asked = -1
  /\ phase = "none"
  /\ client = NoClient
  /\ server = NoServer
  /\ tokens = 0
  /\ closed = {}

\* The options for a URI; a proxy gets it whole.
UriOpts(uri, proxied) ==
  [Empty.opts EXCEPT
     !["Proxy-Uri"] = IF proxied THEN <<"uri">> ELSE <<>>,
     !["Uri-Host"]  = IF ~ proxied /\ uri.named THEN <<"host">> ELSE <<>>,
     !["Uri-Path"]  = IF proxied THEN <<>> ELSE Segments(uri.path),
     !["Uri-Query"] = IF proxied THEN <<>> ELSE Segments(uri.query)]

\* An observer adds one more.
NewOpts(uri, proxied, observes) ==
  [UriOpts(uri, proxied) EXCEPT
     !["Observe"] = IF observes THEN <<"0">> ELSE <<>>]

\* How many these are.
NewNum(uri, proxied, observes) ==
  (IF observes THEN 1 ELSE 0)
    + (IF proxied THEN 1
       ELSE (IF uri.named THEN 1 ELSE 0)
              + Len(Segments(uri.path)) + Len(Segments(uri.query)))

\* Every option is pushed.
CanBeNew(uri, proxied, observes) ==
  /\ proxied \/ uri.coap
  /\ NewNum(uri, proxied, observes) <= MaxOptions

RequestNew(m, uri, proxied, observes) ==
  /\ phase = "none"
  /\ observes => m = "GET"
  /\ CanBeNew(uri, proxied, observes)
  /\ phase' = "composing"
  /\ client' = [NoClient EXCEPT !.method = m, !.uri = uri, !.proxied = proxied,
                                !.req.opts = NewOpts(uri, proxied, observes),
                                !.req.num = NewNum(uri, proxied, observes)]
  /\ UNCHANGED <<cfg, asked, server, tokens, closed>>

(* The context is zeroed and its flow never initialized: freeing it closes *)
(* descriptor 0, which is not its own, unless it has been sent.            *)
RequestNewFails ==
  /\ phase = "none"
  /\ \E uri \in Uris, proxied, observes \in BOOLEAN :
       ~ CanBeNew(uri, proxied, observes)
  /\ closed' = closed \cup {0}
  /\ UNCHANGED <<cfg, asked, phase, client, server, tokens>>

RequestFree ==
  /\ phase = "composing"
  /\ phase' = "none"
  /\ client' = NoClient
  /\ tokens' = 0
  /\ closed' = closed \cup {0}
  /\ UNCHANGED <<cfg, asked, server>>

\* Mutant: the limit of the slots is not checked.
RequestAddUnchecked(o) ==
  /\ phase = "composing" /\ client.req.num <= MaxOptions
  /\ o.name \in OnceInRequest => ~ Has(client.req, o.name)
  /\ client' = [client EXCEPT !.req = Push(@, o)]
  /\ UNCHANGED <<cfg, asked, phase, server, tokens, closed>>

RequestAdd(o) ==
  /\ phase = "composing"
  /\ ~ Full(client.req)
  /\ o.name \in OnceInRequest => ~ Has(client.req, o.name)
  /\ client' = [client EXCEPT !.req = Push(@, o)]
  /\ UNCHANGED <<cfg, asked, phase, server, tokens, closed>>

\* Mutant: the token is not cached in the flow.
RequestAddTokenUncached(t) ==
  /\ phase = "composing"
  /\ ~ Full(client.req)
  /\ client' = [client EXCEPT !.req = Push(@, Opt("Token", t))]
  /\ tokens' = tokens + 1
  /\ UNCHANGED <<cfg, asked, phase, server, closed>>

\* The option is added first; the flow has the token that was added last.
RequestAddToken(t) ==
  /\ phase = "composing"
  /\ ~ Full(client.req)
  /\ client' = [client EXCEPT !.req = Push(@, Opt("Token", t)),
                              !.token = t]
  /\ tokens' = tokens + 1
  /\ UNCHANGED <<cfg, asked, phase, server, closed>>

RequestSetPayload(sz) ==
  /\ phase = "composing"
  /\ BlockSize # 0 => sz <= BlockSize
  /\ sz # 0
  /\ client' = [client EXCEPT !.req.payload = sz]
  /\ UNCHANGED <<cfg, asked, phase, server, tokens, closed>>

-----------------------------------------------------------------------------
(***************************************************************************)
(* The datagram and the server.  The fencepost is counted as an option; a  *)
(* count above its limit is 0 in the header, and what should be options is *)
(* taken for payload.                                                      *)
(***************************************************************************)
Fenceposts(msg) == IF \E name \in High : Has(msg, name) THEN 1 ELSE 0

Overflows(msg) == msg.num + Fenceposts(msg) > MaxOptions

Decoded(msg) ==
  IF Overflows(msg) THEN [Empty EXCEPT !.garbled = TRUE] ELSE msg

\* Mutant: the Uri-* options take precedence over Proxy-Uri.
ComposeUrlUriFirst(msg) ==
  [proxied |-> Has(msg, "Proxy-Uri") /\ ~ Has(msg, "Uri-Path"),
   path |-> msg.opts["Uri-Path"], query |-> msg.opts["Uri-Query"]]

\* For a proxied request path and query are those of the Proxy-Uri.
ComposeUrl(msg) ==
  IF Has(msg, "Proxy-Uri")
  THEN [proxied |-> TRUE, path |-> <<>>, query |-> <<>>]
  ELSE [proxied |-> FALSE, path |-> msg.opts["Uri-Path"],
        query |-> msg.opts["Uri-Query"]]

(* ec_pdu_encode_request and what ec_server_handle_pdu saves of it.        *)
RequestSend ==
  LET in  == Decoded(client.req)
      url == ComposeUrl(in)
  IN /\ phase = "composing"
     /\ phase' = "called"
     /\ server' = [NoServer EXCEPT !.method = client.method, !.req = in,
                     !.token = TokenOf(in), !.proxied = url.proxied,
                     !.path = url.path, !.query = url.query]
     /\ UNCHANGED <<cfg, asked, client, tokens, closed>>

(* What the ec_request_get_* functions give to the callback: options by    *)
(* name, in order, and the URI as the flow has it.                         *)
RequestView ==
  [get |-> server.req.opts, payload |-> server.req.payload,
   proxied |-> server.proxied, path |-> server.path, query |-> server.query]

-----------------------------------------------------------------------------
(***************************************************************************)
(* The callback and its response.                                          *)
(***************************************************************************)
ResponseSetCode(rc) ==
  /\ phase = "called"
  /\ server' = [server EXCEPT !.code = rc]
  /\ UNCHANGED <<cfg, asked, phase, client, tokens, closed>>

ResponseAdd(o) ==
  /\ phase = "called"
  /\ ~ Full(server.res)
  /\ o.name \in OnceInResponse => ~ Has(server.res, o.name)
  /\ server' = [server EXCEPT !.res = Push(@, o)]
  /\ UNCHANGED <<cfg, asked, phase, client, tokens, closed>>

ResponseSetPayload(sz) ==
  /\ phase = "called"
  /\ sz # 0
  /\ server' = [server EXCEPT !.res.payload = sz]
  /\ UNCHANGED <<cfg, asked, phase, client, tokens, closed>>

Mirrored(msg) ==
  IF server.token = NoToken THEN msg ELSE Push(msg, Opt("Token", server.token))

Encodable(msg) == server.token = NoToken \/ ~ Full(msg)

\* ec_server_reply: a code and the response PDU as it stands.
Send(rc) ==
  IF Encodable(server.res)
  THEN /\ phase' = "replied"
       /\ server' = [server EXCEPT !.code = rc,
                                   !.res = Mirrored(server.res)]
  ELSE /\ phase' = "silent"
       /\ server' = [server EXCEPT !.code = rc]

(* EC_CBRC_READY: without a code, or without room for the token, the       *)
(* error path replies 5.00 with the same PDU.                              *)
Ready ==
  /\ phase = "called"
  /\ Send(IF server.code # NoCode /\ Encodable(server.res)
          THEN server.code ELSE ServerError)
  /\ UNCHANGED <<cfg, asked, client, tokens, closed>>

\* EC_CBRC_ERROR.
CallbackFails ==
  /\ phase = "called"
  /\ Send(ServerError)
  /\ UNCHANGED <<cfg, asked, client, tokens, closed>>

\* Neither a callback nor a fallback for the URL.
NotFound ==
  /\ phase = "called"
  /\ server.code = NoCode /\ server.res = Empty
  /\ Send(NotFoundCode)
  /\ UNCHANGED <<cfg, asked, client, tokens, closed>>

-----------------------------------------------------------------------------
(***************************************************************************)
(* The client: a token, if the response has one, must be its own.          *)
(***************************************************************************)
Accepts(res) == Has(res, "Token") => TokenOf(res) = client.token

Receive(rc, res) ==
  IF Accepts(res)
  THEN /\ phase' = "accepted"
       /\ client' = [client EXCEPT !.code = rc, !.res = res]
  ELSE /\ phase' = "mismatch"
       /\ UNCHANGED client

RecvResponse ==
  /\ phase = "replied"
  /\ Receive(server.code, Decoded(server.res))
  /\ UNCHANGED <<cfg, asked, server, tokens, closed>>

(* What the ec_response_get_* functions give to the client's callback.     *)
ResponseView ==
  [get |-> client.res.opts, payload |-> client.res.payload,
   code |-> client.code]

Configure == \E val \in Asks : SetBlockSize(val)

Compose ==
  \/ \E m \in Methods, uri \in Uris, proxied, observes \in BOOLEAN :
       RequestNew(m, uri, proxied, observes)
  \/ RequestNewFails
  \/ RequestFree
  \/ \E o \in RequestCalls : RequestAdd(o)
  \/ \E t \in Tokens : RequestAddToken(t)
  \/ \E sz \in Payloads : RequestSetPayload(sz)

Respond ==
  \/ \E rc \in Codes : ResponseSetCode(rc)
  \/ \E o \in ResponseCalls : ResponseAdd(o)
  \/ \E sz \in Payloads : ResponseSetPayload(sz)
  \/ Ready \/ CallbackFails \/ NotFound

Next == Configure \/ Compose \/ RequestSend \/ Respond \/ RecvResponse

Spec == Init /\ [][Next]_vars

-----------------------------------------------------------------------------
(***************************************************************************)
(* Properties.                                                             *)
(***************************************************************************)

\* Types of the configuration, the flows and the two PDUs, whose options fit
\* in their slots.
TypeOK ==
  /\ cfg \in [stateless : BOOLEAN, szx : 0 .. 6]
  /\ asked \in Asks \cup {-1}
  /\ phase \in Phases
  /\ client \in [method : Methods \cup {"none"}, uri : Uris \cup {NoUri},
                 proxied : BOOLEAN, req : Message,
                 token : Tokens \cup {NoToken},
                 code : Codes \cup {NoCode, ServerError, NotFoundCode},
                 res : Message]
  /\ server \in [method : Methods \cup {"none"}, req : Message,
                 token : Tokens \cup {NoToken}, proxied : BOOLEAN,
                 path : Seq(Val), query : Seq(Val),
                 code : Codes \cup {NoCode, ServerError, NotFoundCode},
                 res : Message]
  /\ client.req.num <= MaxOptions /\ server.res.num <= MaxOptions
  /\ tokens \in Nat

(* If the option count of the request does not overflow, its callback gets *)
(* the path and the query of the URI that the client was created with,     *)
(* without empty segments, and through a proxy the fact that it is a proxy *)
(* request; options that the user adds only add to them, and none of them  *)
(* is lost (evcoap_cli.c ec_client_add_uri_opts, evcoap_flow.c             *)
(* ec_flow_save_url).                                                      *)
RequestArrives ==
  phase \notin {"none", "composing"} /\ ~ Overflows(client.req) =>
    /\ client.proxied => RequestView.proxied
    /\ ~ Has(client.req, "Proxy-Uri") =>
         /\ ~ RequestView.proxied
         /\ IsPrefix(Segments(client.uri.path), RequestView.path)
         /\ IsPrefix(Segments(client.uri.query), RequestView.query)
    /\ RequestView.get = client.req.opts
    /\ RequestView.payload = client.req.payload

(* The response is accepted, if the user added at most one token: what the *)
(* server mirrors is the token that the client has in its flow.  What the  *)
(* client then reads is what the callback composed: its code, or an error  *)
(* of the engine if there was none, its payload and its options, with      *)
(* nothing added but that token (evcoap.c ec_request_add_token,            *)
(* evcoap_pdu.c encode_response, evcoap_cli.c ec_client_handle_pdu).       *)
AnswerArrives ==
  /\ tokens <= 1 => phase # "mismatch"
  /\ phase = "accepted" /\ ~ Overflows(server.res) =>
       /\ ResponseView.code = server.code /\ ResponseView.code # NoCode
       /\ ResponseView.payload = server.res.payload
       /\ \A name \in Names \ {"Token"} :
            ResponseView.get[name] = server.res.opts[name]
       /\ ~ Overflows(client.req) => TokenOf(client.res) = TokenOf(client.req)

(* A payload that ec_request_set_payload accepts is never larger than the  *)
(* size that the user asked for with ec_set_block_size, whichever block it *)
(* was rounded to.  (The least block, 16, is refused by ec_nearest_block,  *)
(* and leaves the older size in place.)                                    *)
PayloadFitsBlock ==
  [][(asked \in BlockMin + 1 .. BlockMax) =>
       client'.req.payload \in {0, client.req.payload} \cup (1 .. asked)]_vars

(* "Supplying val=0 means unlimited (bounded only by lower layer           *)
(* protocols.)" (evcoap.c, above ec_set_block_size).                       *)
BlockUnlimited == asked = 0 => BlockSize = 0

(* "Requests and responses are paired through CoAP tokens.  The client     *)
(* generates a token and adds it to the request using the Token option."   *)
(* (lib/evcoap/README, 2): every request that is served has one.           *)
RequestsHaveTokens ==
  phase \notin {"none", "composing"} => TokenOf(client.req) # NoToken
=============================================================================
