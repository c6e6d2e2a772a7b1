# A TLA+ development of evcoap

evcoap (`src/bridge/sw/lib/evcoap`) is the CoAP engine of the webthings bridge: a C
library on top of libevent that sends CoAP requests, observes resources and serves
requests. This directory models its two state machines and the exchange between them,
the Observe machinery of the server, the option codec, the public API by which messages
are composed and read, the resources that a server offers, and the HTTP proxy of the
bridge, which is built on evcoap. TLC checks the models, and TLAPS proves the central
invariants of the first four.

All of evcoap runs in one thread, in callbacks of one libevent loop. There is no
preemption; what makes it hard is the order in which the callbacks come: answers of
evdns, timers, datagrams that are lost, duplicated, late or reordered, calls of the
user. Every callback and every call is one action.

## Inventory

| Component | State | Operations | Talks to |
|---|---|---|---|
| client transactions, `evcoap_cli.c` | `ec_client_t`: FSM state, three timers (application, CoAP, observation), response set, Observe flags, evdns request, read event, list link | `ec_client_go`, `ec_client_cancel_observation`, `ec_client_free`; callbacks `ec_client_dns_cb`, `ec_cli_{coap,app,obs}_timeout`, `ec_client_input` | evdns, libevent, duplicate records, PDUs, the user's callback |
| server transactions, `evcoap_srv.c` | `ec_server_t`: FSM state, request, response and control PDU, CoAP and reschedule timer, list link | `ec_server_input`, `resched_userfn`, `ec_srv_coap_timeout`, `ec_server_wakeup` | duplicate records, PDUs, Observe, the user's callback |
| duplicate records, `evcoap_base.c` | map from (MID, peer) to a record with the reply that the message elicited; each lives `EC_DUP_LIFETIME` = 60 s | search, insert, update, expiry | both sides share one map per base |
| timers, `evcoap_timer.c` | event, timeout, `retries_left` | start, restart, remove | libevent |
| PDUs, `evcoap_pdu.c` | header, options, payload, sibling | encode piggybacked, separate, ACK, RST, request; send | duplicate records, network |
| datagram I/O, `evcoap_net.c` | sockets | pull up, send | both sides |
| server-side Observe, `evcoap_observe.c` | observations by URI, observers, countdown | add, remove, notify, cancel by RST, cancel by GET | server transactions |
| options, `evcoap_opt.c` | sorted option list, encoded form | add, encode, decode, compose URL | PDUs |
| public API and flows, `evcoap.c`, `evcoap_flow.c` | block size of the base; of a transaction its token, URL, proxy flag and response code | create, add options, token and payload, send; compose a response; getters | client and server transactions, options |
| resources, `evcoap_resource.c`, `evcoap_filesys.c` | resources by URI, their attributes, representations by media type and ETag; callbacks and fallback | add, search, update, delete; register, unregister, dispatch; `/.well-known/core` | servers built on evcoap |
| kache, `lib/kache` | cached objects with expiry and history | put, get, expire | its own tests |
| HTTP proxy, `proxy/main.c` | one global context: mapped URI, body, block transfer, CoAP context | HTTP request in, CoAP request out, block after block, response back | evhttp, client transactions |
| pubapi, urlmap, discopub, cpubapi | a table in SQLite, stubs | – | – |

What is hard, and what makes the parts correct:

* **client**: answer, ACK, RST, notification and three timers in any order. A refused
  transition ends the process with `errx`. Correct means: the user hears of the end of
  her request exactly once; the timers pending are those that the state waits for; the
  request is retransmitted as often as the limit says; nothing leads to a freed
  context; no order of events is refused; every request ends.
* **server**: duplicates of requests, ACKs and RSTs matched by MID and address only,
  deferred callbacks, retransmission. Correct means: the callback runs once per
  request; a duplicate gets the reply to its own request; only its own ACK ends a
  separate response; every request is answered or ends.
* **Observe**: observers come and go while the countdown runs. Correct means: every
  observer gets every round, none gets one after it was removed, the countdown goes on
  while there are observers.
* **options**: what is encoded decodes to the same options, within the slots and the
  buffer, in any order of calls.
* **API and flows**: the callback of the server gets the URI and options that the client
  put in, the client the response that the callback composed; the token that the one
  mirrors is the token that the other compares with.
* **exchange**: the request is served at most once however often its datagram comes, its
  sender hears of an answer only if it was served, and hears of its end once.
* **resources**: an update replaces the representation that it names and no other; a
  link says what a client finds that follows it; unregistering ends every dispatch.
* **proxy**: one global context for all requests that wait. Correct means: each HTTP
  request is replied to, once, with the whole representation of its own URI.

`PROJECT.json` lists the hazards line by line.

## Modules

| Module | Content |
|---|---|
| `EvcoapClient` | client transactions with timers, Observe bookkeeping, duplicate records |
| `MCClient` | datagrams for the client runs |
| `EvcoapClientProofs` | types, timers, retransmissions, reports, freed contexts, legal transitions |
| `EvcoapServer` | server transactions with the callback, retransmission, duplicate records |
| `MCServer` | datagrams for the server runs |
| `EvcoapServerProofs` | at most once, replies to duplicates, types, legal transitions, pending events, answers, ACKs |
| `EvcoapObserve` | observations, observers, the countdown and its round, cancellation |
| `MCObserve` | clients and resources for the Observe runs |
| `EvcoapObserveProofs` | types, lists that agree, one observer per client, nobody dropped silently |
| `EvcoapOpt` | the options of one PDU: adding, encoding, decoding, accessors, URL |
| `MCOpt` | calls at the limits of the codec |
| `EvcoapOptProofs` | types and order of the option list |
| `RequestContract` | what evcoap promises of a request, as an abstract specification |
| `EvcoapExchange` | `EvcoapClient` and `EvcoapServer` composed over a network; implements `RequestContract` |
| `EvcoapExchangeProofs` | neither process exits; every step is one of `RequestContract` |
| `MCExchange` | contexts for the exchange |
| `EvcoapMessage` | one request and its response through the public API: options, token, payload, flow, block size |
| `EvcoapMessageProofs` | types, what arrives on either side, block sizes |
| `MCMessage` | URIs and calls for one exchange with few option slots |
| `EvcoapResource` | resources, representations, callbacks, `/.well-known/core` |
| `EvcoapResourceProofs` | types, updates, unregistering, links |
| `MCResource` | two URIs that differ in case only |
| `HttpProxy` | the HTTP proxy with its global context |
| `HttpProxyProofs` | types, one reply, its own reply |
| `MCProxy` | two GETs and a PUT |

`EvcoapExchange` INSTANCEs the two transaction modules as they stand and adds what lies
between them. The others share no variables with it: `EvcoapObserve` takes from
`EvcoapServer`, which has no observers, that a GET or an RST that arrives is no
duplicate; of an answer the transaction modules know only whether its options parse and
its Token fits, which `EvcoapMessage` has in full, for a single delivery; `EvcoapMessage` takes
from `EvcoapOpt` that options of one number keep their order and that the fencepost
counts as an option; `HttpProxy` takes from `EvcoapClient` that every request ends in one
callback.

### EvcoapClient

| Variable | Code |
|---|---|
| `state`, `on`, `cancel`, `last`, `recent` | `cli->state`, `cli->observe.{on,cancel,last_cnt}`; `recent` is `now < last_ts + 2^14` |
| `armed`, `retries` | `cli->timers.{app,coap,obs}.evti` pending; `timers.coap.retries_left` |
| `dns` | an evdns request will call `ec_client_dns_cb` |
| `listed`, `inputs` | how often the context is linked in `base->clients`, and how many read events call it |
| `first` | the first PDU of `cli->res_set`, the only one that is ever looked at |
| `seen` | the records of `base->dups`, with `replied` if an ACK is cached |
| `proc` | the process has ended: `errx` of `ec_client_set_state`, or a null pointer write |
| `out`, `goes`, `sent`, `told`, `shown` | messages of the last step, and histories for the properties |

`SetState` is `ec_client_set_state`: `CanEnter` is `ec_client_check_transition`,
`Enter` the rest of it (timers stopped, response set cleared, user called or peer
reset, context freed if the engine owns it). The states `DNS_OK` and `COAP_RETRY` are
entered and left in one callback, so that a handler checks the transition into them
and goes on to the next. The branches of `ec_client_dns_cb` are `DnsFailed`,
`DnsUnsent`, `DnsUnregistered`, `DnsSent`; those of `ec_client_handle_pdu` are the
`Recv...` actions, which between them cover every datagram with a valid header and no
request code. A datagram is abstracted to its key (MID and peer), its code, whether
its options parse and its Token fits, and its Observe counter.

A key in `Prompt` is never received again once its record has expired, which is what
CoAP asks of a peer whose retransmissions last less than `EC_DUP_LIFETIME`; outside
`Prompt` an expired record is gone and a copy counts as new.

### EvcoapServer

`ctx[s]` is one `ec_server_t`: `st`, `req`, the MID of its response PDU in
`hdr_bits` (0 until it has one), `flow.is_sep`, the pending events, `retries_left`
and the number of times the response has been encoded. `servers` is the list of the
base, in order, since `ec_servers_lookup` takes the first match. `seen` and `cached`
are the duplicate records and the reply kept with each. `calls` counts the calls of
the user callback per request. Two things are history, for the properties only: the tag
`srv` of a message, the context that composed it, and `made[k]`, which says of the record
of `k` which context its request made (`own`) and which contexts of earlier requests with
that key were still open then (`older`); both go when the record expires. `SetState` is `ec_server_set_state`, which frees the
context in a final state. The branches of `ec_server_handle_pdu` and of
`ec_server_userfn` are actions of their own. The MID of a separate response is
`random` at the first encoding and the value of an uninitialized variable afterwards:
both are a choice from `Mids`.

Facts of the code that the model keeps and that a reader may stumble over:

* the separate ACK's `hdr_bits.mid` is never set, so `ec_servers_lookup` matches it
  with MID 0 only;
* a control message with MID 0 ends a context whose callback is scheduled, and the
  timer then uses freed memory (`UseAfterFree`); this is why `EventsMatchState` is
  checked without MID 0 and `server_live` has MID 0 without that property;
* MIDs of requests and of ACKs to separate responses share one map of records;
* the retransmission of a separate response replaces the cached ACK, and finds the record by
  MID and address only: where the client has taken the MID again while the earlier context
  is open, it replaces the reply to the later request. `DuplicateGetsItsReply` therefore allows
  the replies of contexts in `older` and of no others, and `MCServerOvertaken.cfg` shows one;
* a wakeup that fails leaves the context of a proxied request forever.

### EvcoapObserve

| Variable | Code |
|---|---|
| `observing` | `base->observing`, the observations in order |
| `observers` | the observers of each, with address and last MID |
| `armed` | the countdown of the observation is pending |
| `waiting` | GETs whose callback has been deferred and may still call `ec_add_observer` |
| `proc` | the process is up, or has used a freed observation |
| `by`, `out` | who caused the last step, and the notifications that it sent |

`Round` and `Notify` are `ec_ob_cb`: the loop reaches a prefix of the observers, all of
them or those before the first notification that cannot be sent (`MayFail`); an
observer that learns that the resource is gone is removed inside the loop, and with
the last one the observation. Whether the countdown starts again is decided by
`drained`, which is not initialized: a choice from `Garbage`. `Get...` is the part of
`ec_server_handle_pdu` that concerns Observe: the old observer goes before the callback
runs, a new one comes with the callback, at once or, for a URI in `Deferring`, later
(`LateObserve`). An MID of 0, which an observer has before its first notification,
matches any RST of its address.

### EvcoapOpt

`bundle` and `noptions` are `opts->bundle` and `opts->noptions`, `added` the calls that
succeeded and `wire` the datagram of the last encoding with the list that it was made
from and who made it (`wire.by`: the first encoding, a later one, a peer). The calls differ in their type and limits (`AddUint`, `AddBlock`, `AddString`,
`AddOpaque`, `AddEmpty`) and end in `AddRaw`. `Encode` is `ec_opts_encode` with the
count that `encode_header` puts into OC: on failure nothing is sent, and the fenceposts
before the failure have been counted all the same. `Decode` is an operator, since
`ec_opts_decode` fills an empty list. `PeerSends` is a datagram of another
implementation, with options that are not in `g_opts`. Values are bytes: lengths and
positions are what the codec can get wrong. The loop of the encoder is written in two
parts, `Items` (the options with their fenceposts) and `Bytes` (a delta, a length and a value
for each), with `Used`, the bytes that are set aside, as a recursive function of the number of
options; so is the loop of the decoder. What goes through a list and picks some of it is
`FlattenSeq` of what each element adds, which can be reasoned about where `SelectSeq` cannot.

### EvcoapExchange and RequestContract

The variables are those of the two sides (`cproc`, `cseen`, `cout` and `sproc`, `sseen`,
`sout` where both have one of the name) and four more: the MID of each request, the
datagrams that have left either base, and what was reported last. `ToServer` and
`ToClient` are the only places where one side's messages become the other's input: type,
code and MID as `encode_header` writes and `ec_pdu_decode_header` reads them. A datagram stays
in `toServer` or `toClient` once it has been sent, and receiving one is never required:
that is loss, duplication, delay and reordering at once. Each side keeps its own
duplicate records, which expire; after that no copy comes (`Prompt`). Two requests
of one context in a row are taken to draw different random MIDs.

`RequestContract` has two variables per request: its status as the sender sees it and how
often the callback has seen it. `Promise` maps them to the histories `result`, `goes` and
`calls` of the two sides; `Contract` is its specification, fairness included, as a
property of the run. It is checked for one context that is used once: for a context used
again `MCExchangeRecycled.cfg` shows a late answer to the first request taken for the
answer to the second.

### EvcoapMessage

`client` and `server` are the `ec_client_t` and `ec_server_t` of one exchange with request,
response and flow; `cfg` and `asked` the block configuration; `closed` the descriptors
that are closed for a context that never had one. Options are kept by name, those of one
name in the order of the calls, with the count that is limited to `MaxOptions`. `RequestAdd`, `RequestAddToken`,
`RequestSetPayload`, `ResponseAdd`, `ResponseSetPayload` and `ResponseSetCode` are the adders
of `evcoap.c`; those that refuse a second option of their kind are `OnceInRequest` and
`OnceInResponse`. `RequestSend` is encoding, decoding and what `ec_server_handle_pdu` saves;
`Ready`, `CallbackFails` and `NotFound` the three ends of the callback, where an encoding
that fails for want of a slot for the Token falls back to an error reply with the same
PDU, and may leave the client with no answer (`silent`). `RequestView` and `ResponseView` are
the getters: options by name, in order.

### EvcoapResource

`fs` is the hash map from URI to resource with attributes and representations in order
of creation, `cbs` the list of callbacks, `fb` the fallback. Every function that changes
one of them is an action. ETags are random: a choice from `Etags`, so that two
representations may share one. `Fold` is what is left of a URI when case does not count,
as in `evutil_ascii_strcasecmp`; the hash map does not fold. `WellKnownCore` is
`ec_filesys_well_known_core` with both of its limits: a link that is too long is left
out, a document that does not fit is not given at all.

### HttpProxy

| Variable | Code |
|---|---|
| `cli`, `curi`, `buf`, `bno`, `more` | `g_ctx.{cli, curi, buf, bopt.block_no, bopt.more}` |
| `http`, `replies`, `hdrs` | the requests of evhttp, what was replied and whose options are in the headers |
| `coap` | the CoAP request that evcoap will call back for |
| `proc` | the process is up, or has read a freed context |
| `alone`, `clean` | histories: no other request has overlapped; no code that is not told apart |

`HttpDropped` and `HttpRequest` are `process_http_request`; the others are the branches of
`process_coap_response`. The mote, which is external, answers with any code, and with the
block that was asked for if it has it (`Serves`). Facts that the model keeps:
`process_set_http_headers` reads `g_ctx.cli`, not the context that is called back
(`CopyHeaders`, `CoapCrash`); `more` keeps its value if a response has no Block2 option; a
2.01 is replied at once and then handled like a 2.05; the requests for further blocks
carry no Accept; text is added up to the first zero byte; a request that cannot be
mapped is not replied to.

## Runs

| Run | Instance | Shows |
|---|---|---|
| `client_engine` | a CON request and a NON observer of the engine, 5 keys, 4 retransmissions, fair | types, retransmission bound, nothing leads to a freed context, no refused transition; every request ends, every cancelled observation is dropped |
| `client_user` | one user-owned CON observer, used twice, records expiring | timers match the state, one report per use |
| `server_two_clients` | 2 clients with one MID, 2 contexts, 2 MIDs, 2 retransmissions, every first result | types, pending events, one call per request, an answer for each, only its own ACK ends a separate response |
| `server_live` | 1 client, 2 contexts, MIDs 0 and 1, proxied and malformed requests, every result, expiring records, fair | which context a copy of a request is answered by, no refused transition, deferred requests and separate responses end |
| `observe` | 2 clients, 2 resources of which one defers, MIDs 0 and 1, up to 3 observers, 1 deferred GET each, failing sends | lists that agree, one observer per client, nobody dropped silently |
| `options` | 17 calls, 3 slots of 270 bytes, 3 foreign lists, 2 encodings | order, fragments, integers, buffer, decoding, URL |
| `exchange` | a CON context, 2 server contexts, 3 MIDs for both directions, 2 retransmissions, fair | `RequestContract` is implemented; neither process exits |
| `message` | 4 URIs, 3 option slots, 2 tokens, 2 block sizes | what is composed on one side is what is read on the other |
| `resource` | 2 URIs that differ in case only, 2 media types and "any", 2 ETags, 2 sizes, up to 2 representations, 7 queries | truthful links, exact queries, updates, dispatch |
| `proxy` | 2 GETs, of 2 blocks and of one datagram, alone or overlapping, 5 codes and failures, fair | its own reply, one reply, a reply in the end |

Bounds. Two contexts are the least for which one can disturb the other (shared MID,
shared list); no handler looks at more than one context, except for the search in the
list, which stops at the first match. Two uses of a context are the least for which
the first leaves something to the second. Counters modulo 8 have the same "half the
circle" as modulo 2^16. `MaxRetransmit` is the code's 4 where the property counts
retransmissions on the client and 1 or 2 elsewhere: a first, a middle and a last
attempt. Three observers are the least with one before, one at and one after a failed
send. Three option slots hold every pair of neighbours and a fragmented value next to
another option; OC is scaled with them, so that its limit is met as with 15. The lengths
0, 1, 8, 9, 14, 16, 270 and 271 and the integers 0, 255, 65536 and 2^24 - 1 lie on both
sides of each limit in the code. In the exchange one MID can be that of the request, of
the separate response and of neither; two requests are the least for which the first
leaves something in the proxy's context for the second, and two blocks the least of which
one is not the last; block numbers above all that exist are told apart from their
neighbours only (`MaxBlock`). Three slots hold a token next to the options of a URI and a
fencepost, or leave no room for one of them. In `resource` the lengths of links are scaled
so that one link may be too long, and two may be too long together. TLC checks deadlock nowhere: an event loop with no event left is a legal end.

Fairness. `FairSpec` asks that evdns answers (it does, with an error if need be) and
that a timer that stays pending fires, which is what libevent does. Nothing is asked
of the peer, of the user, or of the return path of a proxy. In `EvcoapExchange` the same is
asked of the client's evdns and timers, and of nothing else: no datagram need ever
arrive, and the server may stand still. `HttpProxy` asks that evcoap calls back for every
request that it has taken, which is `RequestEnds`; HTTP clients may send or not.

Runs that expect a violation state what a comment or the README of evcoap says and
show how the code departs from it; "findings" in `PROJECT.json` quotes the lines.

| Run | Departure |
|---|---|
| `observe_countdown` | a notification that cannot be sent: the countdown is not started again |
| `proxy_concurrent` | two requests that wait at the same time: one is replied 200 with blocks of the other |

More configurations reproduce departures of the same kind. They are kept for whoever
changes that code and are not part of the regular runs; all but the last expect a
violation:

| Configuration | Property | Departure |
|---|---|---|
| `MCClientLateAnswer` | `NeverErrx` | an answer after the timeout of a user-owned context ends the process (`evcoap_cli.c:807`) |
| `MCClientStale` | `ResponseSetReusable` | a stale notification stays first in the response set (`evcoap_cli.c:1010`) |
| `MCClientUnlisted` | `NeverCrash` | a context that was never registered is removed from the list when freed (`evcoap_cli.c:706`) |
| `MCClientAckAfterNotification` | `NeverErrx` | an ACK overtaken by the first notification asks for WAIT_NFY to REQ_ACKD and ends the process (`evcoap_cli.c:807`) |
| `MCClientRecycled` | `FreedIsUnreachable` | a context used twice is registered twice and unregistered once (`evcoap_cli.c:867`, `:207`) |
| `MCClientLastCounter` | `LastCounterKept` | the counter of the first response is not kept (`evcoap_cli.c:1110`) |
| `MCServerLateError` | `Answered` | a deferred callback that fails: no reply (`evcoap_srv.c:699`, against evcoap's README) |
| `MCServerBadOptions` | `Answered` | malformed options: the error reply has no PDU to go with (`evcoap_srv.c:481`) |
| `MCServerLateWait` | `Answered` | a deferred callback that is not ready yet is not called again (`evcoap_srv.c:617`, against the example in evcoap's README) |
| `MCServerRetry` | `ResponseMidKept`, `TokenMirrored` | a retransmitted separate response has another MID (`evcoap_pdu.c:172`), and every encoding adds the Token once more (`:207`); TLC shows one of them, with `-continue` both |
| `MCServerOvertaken` | `CorrespondingRecord` | the retransmission of a response to an earlier request replaces the reply kept for a later one with the same MID (`evcoap_base.c:329`, against the comment at `evcoap_pdu.c:101-103`) |
| `MCOptBorder` | `RoundTripEveryLength` | a value of 15 bytes is encoded in the extended form and decoded one byte early (`evcoap_opt.c:789`) |
| `MCOptRecount` | `CountCoherent` | every encoding counts its fenceposts once more (`evcoap_opt.c:1201`) |
| `MCOptHost` | `HostDefaults` | a request without an option from Uri-Host on gets no default host (`evcoap_opt.c:1055`) |
| `MCMessageTokens` | `RequestsHaveTokens` | a request has a token only if the user adds one (`evcoap.c:727`, against evcoap's README:30-33) |
| `MCMessageUnlimited` | `BlockUnlimited` | a block size of 0 does not lift an earlier limit (`evcoap.c:1002`) |
| `MCExchangeRecycled` | `AnswersItsRequest` | a late answer to the first request of a context is taken for the answer to the second (`evcoap_cli.c:974`, against evcoap's README:30-31) |
| `MCResourceWildcard` | `FilesysWildcard` | `ec_filesys_get_rep` with `EC_MT_ANY` finds nothing (`evcoap_filesys.c:83-86`) |
| `MCProxyEndless` | `AnsweredAlways` | an overlapping request leaves `more` set, and blocks are asked for without end (`main.c:245`) |
| `MCProxyCreated` | `RepliedOnceAlways` | a 2.01 is replied to twice (`main.c:212-220`) |
| `MCExchangeNon` | passes | the exchange with a NON request |

Every property of a passing run has a mutant, an operator marked "Mutant" before the
definition it replaces, under which TLC finds that property violated.

## Proofs

The theorems hold for every set of contexts, keys, datagrams, URIs and requests and every
limit that satisfies the assumption of the module (`ClientAssumption`, `ServerAssumption`,
`ObserveAssumption`, `OptAssumption`, `ExchangeAssumption`, `MessageAssumption`,
`ResourceAssumption`, `ProxyAssumption`), which TLC evaluates in the runs. The assumptions
give the types of the constants and keep the null values apart from the others. Three say
more than that. `MessageAssumption` states that the segments of a URI are a sequence of texts,
because the provers know nothing of `SelectSeq`. `OptAssumption` has the widths that C gives to
the arguments (an integer is a `uint32_t`, the more flag of a block a `bool`), a slot of 8 to
270 bytes (270 in the code: 8 is what an ETag, a token or an integer may need, 270 what one
length byte can say), and for lists of a peer that they are in order, that no value is longer
than the format can say and that an empty option is empty. `ResourceAssumption` states that the
URIs are finitely many and that a link has a length. Conditions beyond the assumptions are
hypotheses of the single theorem and named below.

Client:

* `TypeCorrect`: `TypeOK` is inductive.
* `TimersCorrect`: `TimersMatchState` is not inductive by itself: a step of evdns would
  start timers next to others. `TimersInv` adds `AtRest`: between two callbacks no
  context is in `DNS_OK` or `COAP_RETRY`, and one whose name is being resolved is in
  an initial or final state, so has no timer.
* `RetransmissionsCorrect`: from `TimersInv`, since transmissions and retries left are
  tied only while the CoAP timer is pending.
* `ReportedCorrect`: `ToldInv` adds that nothing has been reported of a transaction
  that is being resolved or in flight, and of a freed one.
* `FreedUnreachable`, for `UserOwn = {}`: `OwnInv` ties the list link and the read event
  to the states in flight. `MCClientRecycled.cfg` shows that the assumption is needed.
* `PlainNeverErrx`, under `PlainUse` (engine-owned, no Observe, prompt copies, one key
  for the ACKs of a context): `PlainInv` says that the ACK of an acknowledged request
  has a record. `MCClientLateAnswer.cfg` and `MCClientAckAfterNotification.cfg` show what
  happens without the first two conditions.

Server:

* `AtMostOnce`, for `Prompt = Keys`: a request that was called for has or had a record.
* `DuplicatesAnswered`: `DuplicateGetsItsReply` is not inductive by itself: it says nothing
  of the contexts that may still write into a record. `OriginInv` adds that a key without a
  record has neither an origin nor a reply, that the origin of a record is a context whose
  request has that key, and that whatever context is open under a key is the origin of its
  record or was open when that came. That only open contexts write is from `CoreInv`, since
  their timers are pending and they are on the list. No condition on MIDs, on the callback or on
  how long copies are on their way is needed.
* `ServerTypeCorrect`, `ServerNeverExits`, `ServerResponsesBounded`: by `ServerInv`, which is
  `DataInv` (types of records and messages) and `CoreInv`. The latter says what a context of
  each state is like (`Fit`: its events, retries left, encodings so far, MID) and that the
  list has the live contexts, each once. Without the list a control message could find
  a context in a state from which the check refuses the transition; without the events a
  late timer could. No condition on the callback, the messages or their MIDs is needed.
* `ServerEventsMatch`, for `0 \notin Mids`: MID 0 matches a context whose callback is
  scheduled (see above), so that the event outlives the context.
* `ServerDoneByItsAck`, an action property, for `0 \notin Mids`.
* `ServerAnswers`, under `Replies`: requests parse and a rescheduled callback is ready.
  `MCServerBadOptions.cfg`, `MCServerLateError.cfg` and `MCServerLateWait.cfg` show that no part of
  this can be left out.

Exchange, under `PlainUse` (contexts are the engine's, and the URI leads to a resource or to
the fallback; `MCExchangeRecycled.cfg` shows why the first):

* `NeverRefused`: no transition is asked of either side that ends its process.
* `KeepsContract`: initial states are initial states of `RequestContract`, and each step of
  client, server or network is a step of it or shows nothing to the users. This is the
  safety half of `Contract`; that requests end is left to the run.

Both follow from `ExchangeInv`: the invariants of the two sides, taken over from their own
proofs by INSTANCE (`CP`, `SP`), and `LinkInv`, which ties the sides together. A request in
transit has the MID of its context and was sent by it; an answer in transit is for a request
that the callback has seen, and an ACK has that request's MID; a client context is idle,
resolving, waiting or gone, and one that was acknowledged has, or had, a record of its ACK,
so that a second ACK never reaches it. For this the server has to keep one thing more
(`KnownInv`): contexts, cached replies and messages belong to requests that were called for.

Observe:

* `ObserveTypeCorrect`, `ObservationsConsistent`, `ObservesOnce`: by `ObserveInv`, which is
  `Consistent` and `OneObserver` with two facts more. `Lists`: every list is a sequence
  of the right things; removing the first match is only then what it seems. `Waits`: a
  GET waits only where callbacks may be deferred, without which an old GET could add a
  second observer to a resource for which `OneObserver` promises one.
* `ObserversNotLost`: an action property, from the same invariant.

Options: `OptTypeCorrect`, `OptionsSorted`, `ArgumentsKept`, `BufferRespected`, `DecodesWhatWasSent`
and `UrlNamesRequest`, one for each invariant of the run, for any calls, any lists of a peer and
any limits, integers of 2^31 and more included, which TLC cannot represent. They follow from
`OptInv`, which TLC has checked on the instance of `MCOpt` too. To types, order and `FitsBuffer` it
adds

* `Slots`: the slots of each number are the fragments of the accepted calls for it, in the
  order of the calls; `ArgsKept` and `UrlKept` say what the accessors make of them, from
  which one cannot go back to the slots and so not on to the next call;
* that an empty option has no value, without which the decoder, which drops such a value,
  would not give it back;
* until the first encoding `noptions` is the length of the list, so that the count of the
  first datagram is that of its options and fenceposts (`MCOptRecount.cfg` shows that this ends
  there);
* `Faithful`: the datagram of a first encoding or of a peer is what the encoder makes of the
  list that it is said to hold, and that list is in order.

What the loops compute is proved by induction over the rounds. The induction theorems of the
library take an operator, which the provers cannot instantiate; `NatInduct` and `SeqInduct`
are stated for a *set* instead (the numbers, or sequences, that have the property), and
`Recursion` shows that a function defined by recursion along `0 .. n` exists. On these rest:
`Gather`, what `FlattenSeq` makes of a list when an element is put at its end or into the middle,
by which a push into the sorted list changes the slots of its own number only; the digits of an
integer and of a block, which `DecodeUint` puts together again; `Used`, which bounds the bytes of
the items; and the decoder, which after the first k items of a datagram has their options and is
at the first byte of the item k + 1.

Messages: `MessageTypeCorrect`, `RequestDelivered`, `AnswerDelivered` and the action property
`PayloadBounded`, by `MessageInv`:

* `RequestInv`: the request has the options of its URI before those of the user, and the flow
  has the token that was added last, which is the request's if there was one;
* `SavedInv`: what the server saved is what the decoder makes of that request;
* `ReplyInv`: the response has no token until it is encoded, and the saved one then; the
  client has what was encoded;
* `BlockInv`: a block of the configured exponent is not larger than the size that was asked
  for last, if that was within the limits.

Resources, by `ResourceInv`, types and `OnePerName` (no two callbacks for one URI up to case,
without which `ec_unregister_cb`, which removes the first, would leave a second):

* `UnregisterEffective` and `UpdateEffective`, action properties, and `ResourceTypeCorrect`;
* `LinksHold`: `LinksTruthful`. That a filtered document fits where the whole one does needs
  that a sum over a finite set of links does not depend on their order and does not grow when
  links are left out (`SumTakesAny`, `SumGrows`), by induction over the number of links.

HTTP proxy, by `ProxyInv`:

* `ProxyTypeCorrect`, and `ProxyRepliesOnce`, which with the types is inductive;
* `ProxyReplyOwn` needs `OwnInv`: while a request is alone, the global context is its own
  (`Holds`): `cli` and `curi` are its or unset, the CoAP request asks for its URI, and the
  buffer has the blocks before the one that is asked for.

Only model-checked:

* liveness, which is out of the prover's reach: `RequestEnds`, `CancelledEnds`,
  `RequestsEnd`, `Answered` of the proxy, the fairness of `Contract`.

Every invariant and every action property of a passing run is a theorem, some of them under the
conditions named above.

## Not modelled

Failing allocations; failures of library calls on valid arguments
(`ec_pdu_set_peer`); the shutdown of a base (`ec_term`); the bytes of a PDU; the
durations of timers, with the Max-Age that a restarted observation timer keeps; a user
who calls `ec_request_send` on a context that is being resolved, frees a context in
the middle of a transaction, or starts a request from within the callback of the same
context; on the server the observers (`EvcoapObserve` has them), the comparison of sockets in
`ec_servers_lookup`, responses whose 15 options are used up, and the reuse of the
memory of a freed context; in Observe the representations, ETags of more than 8 bytes,
and calls of `ec_add_observer` from outside the callback of a GET; in the option codec
the text of URIs, truncated datagrams, the byte order of big endian builds; in the exchange observations, resets, proxied requests and
datagrams that are corrupted; in messages the limits of single values (`EvcoapOpt` has
them) and Block1 transfers, which evcoap leaves to its user; in resources the syntax of
links and the percent-encoding of queries; in the HTTP proxy the text of headers and a
payload of exactly 1024 bytes, to which `main.c:259` adds a zero byte behind its buffer.

kache is used by its own tests only, is a thin wrapper of libu's hash map, whose eviction
is not in the repository, and its evcoap glue (`kache_evcoap.c`) does not compile against
evcoap at this commit. pubapi is a storage driver over SQLite (whose headers, most of the
lines that no module covers, are third-party); urlmap and discopub are stubs.

## Plan

1. done: `EvcoapClient`, `EvcoapServer`, `EvcoapObserve`, `EvcoapOpt`, their runs, the
   theorems above.
2. done: `EvcoapExchange` with the refinement of `RequestContract`; `EvcoapMessage`, `EvcoapResource`
   and `HttpProxy` with their runs.
3. done: theorems about the server, the exchange, messages, resources and the proxy.
4. done: the loops of the option codec and the sums over links, by induction over sets, so
   that every invariant of a run has its theorem.
5. An abstract registry (who observes what) that `EvcoapObserve` implements, and the proof
   of that; the GET and the RST of one transaction as seen by `EvcoapServer` and
   `EvcoapObserve` together.
