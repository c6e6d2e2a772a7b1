------------------------ MODULE EvcoapMessageProofs -------------------------
(***************************************************************************)
(* Proofs about EvcoapMessage, for any URIs, options, tokens, payloads,    *)
(* codes and number of option slots.                                       *)
(***************************************************************************)
EXTENDS EvcoapMessage, SequenceTheorems, WellFoundedInduction, TLAPS

-----------------------------------------------------------------------------
(* Block sizes *)

LEMMA Powers ==
  /\ 2 ^ 4 = 16 /\ 2 ^ 5 = 32 /\ 2 ^ 6 = 64 /\ 2 ^ 7 = 128
  /\ 2 ^ 8 = 256 /\ 2 ^ 9 = 512 /\ 2 ^ 10 = 1024
OBVIOUS

(* Every block has a size. *)
LEMMA BlockTyped ==
  ASSUME NEW i \in 4 .. 10
  PROVE  2 ^ i \in Nat \ {0}
<1>1. \/ i = 4 \/ i = 5 \/ i = 6 \/ i = 7 \/ i = 8 \/ i = 9 \/ i = 10
  OBVIOUS
<1>2. 2 ^ i \in {16, 32, 64, 128, 256, 512, 1024}
  <2>1. CASE i = 4 BY <2>1, Powers
  <2>2. CASE i = 5 BY <2>2, Powers
  <2>3. CASE i = 6 BY <2>3, Powers
  <2>4. CASE i = 7 BY <2>4, Powers
  <2>5. CASE i = 8 BY <2>5, Powers
  <2>6. CASE i = 9 BY <2>6, Powers
  <2>7. CASE i = 10 BY <2>7, Powers
  <2> QED BY <1>1, <2>1, <2>2, <2>3, <2>4, <2>5, <2>6, <2>7
<1> QED BY <1>2

(* A set of exponents has a largest. *)
LEMMA LargestIs ==
  ASSUME NEW T, T \subseteq 4 .. 10, T # {}
  PROVE  Max(T) \in T
<1> DEFINE Less == OpToRel(<, Nat)
           D == {d \in 0 .. 10 : 10 - d \in T}
<1>1. D \subseteq Nat /\ D # {}
  <2>1. PICK t \in T : TRUE
    OBVIOUS
  <2>2. t \in 4 .. 10 /\ 10 - t \in 0 .. 10 /\ 10 - (10 - t) = t
    BY <2>1
  <2>3. 10 - t \in D
    BY <2>2
  <2>4. D \subseteq Nat
    OBVIOUS
  <2> HIDE DEF D
  <2> QED BY <2>3, <2>4
<1>2. PICK x \in D : \A y \in D : <<y, x>> \notin Less
  <2>1. IsWellFoundedOn(Less, Nat)
    BY NatLessThanWellFounded
  <2> HIDE DEF Less, D
  <2> QED BY <1>1, <2>1, WFMin
<1>3. \A y \in D : ~(y < x)
  BY <1>1, <1>2 DEF OpToRel
<1>4. 10 - x \in T
  OBVIOUS
<1>5. ASSUME NEW t \in T PROVE 10 - x >= t
  <2>1. t \in 4 .. 10 /\ 10 - t \in 0 .. 10 /\ 10 - (10 - t) = t
    OBVIOUS
  <2>2. 10 - t \in D
    BY <2>1
  <2>3. ~(10 - t < x)
    BY <1>3, <2>2
  <2>4. x \in 0 .. 10
    OBVIOUS
  <2> QED BY <2>1, <2>3, <2>4
<1> QED BY <1>4, <1>5 DEF Max

(* A block that ec_nearest_block chooses is smaller than the value; there  *)
(* is one for every value above the least.                                 *)
LEMMA Nearest ==
  ASSUME NEW val \in Nat
  PROVE  /\ NearestBlock(val) # -1 =>
              /\ NearestBlock(val) \in 0 .. 6
              /\ 2 ^ (NearestBlock(val) + 4) < val
         /\ val > BlockMin => NearestBlock(val) # -1
<1> DEFINE below == {i \in 4 .. 10 : val > 2 ^ i}
<1>1. NearestBlock(val) = IF below = {} THEN -1 ELSE Max(below) - 4
  BY DEF NearestBlock
<1>2. below \subseteq 4 .. 10
  OBVIOUS
<1>3. ASSUME below # {} PROVE /\ Max(below) \in 4 .. 10
                              /\ val > 2 ^ Max(below)
  <2>1. Max(below) \in below
    <3> HIDE DEF below
    <3> QED BY <1>2, <1>3, LargestIs
  <2> QED BY <2>1
<1>4. ASSUME val > BlockMin PROVE below # {}
  <2>1. 4 \in below
    BY <1>4, Powers DEF BlockMin
  <2> QED BY <2>1
<1> HIDE DEF below
<1>5. ASSUME below # {}
      PROVE  /\ NearestBlock(val) \in 0 .. 6
             /\ NearestBlock(val) + 4 = Max(below)
  BY <1>1, <1>3, <1>5
<1>6. ASSUME below # {} PROVE 2 ^ (NearestBlock(val) + 4) < val
  <2>1. 2 ^ (NearestBlock(val) + 4) = 2 ^ Max(below)
    BY <1>5, <1>6
  <2>2. 2 ^ Max(below) \in Nat
    BY <1>3, <1>6, BlockTyped
  <2> QED BY <1>3, <1>6, <2>1, <2>2
<1>7. below # {} => NearestBlock(val) # -1
  BY <1>5
<1> QED BY <1>1, <1>4, <1>5, <1>6, <1>7

-----------------------------------------------------------------------------
(* Messages *)

LEMMA PushIs ==
  ASSUME NEW msg \in Message, NEW o \in [name : Names, val : Val]
  PROVE  /\ Push(msg, o) \in Message
         /\ Push(msg, o).num = msg.num + 1
         /\ Push(msg, o).payload = msg.payload
         /\ Push(msg, o).opts[o.name] = Append(msg.opts[o.name], o.val)
         /\ \A name \in Names \ {o.name} :
              Push(msg, o).opts[name] = msg.opts[name]
<1>1. /\ o.name \in Names /\ o.val \in Val
      /\ msg.opts \in [Names -> Seq(Val)] /\ msg.num \in Nat
      /\ msg.payload \in Nat /\ msg.garbled \in BOOLEAN
  BY DEF Message
<1> DEFINE opts == [msg.opts EXCEPT ![o.name] = Append(@, o.val)]
<1>2. Append(msg.opts[o.name], o.val) \in Seq(Val)
  BY <1>1, AppendProperties
<1>3. /\ opts \in [Names -> Seq(Val)]
      /\ opts[o.name] = Append(msg.opts[o.name], o.val)
      /\ \A name \in Names \ {o.name} : opts[name] = msg.opts[name]
  BY <1>1, <1>2
<1>4. Push(msg, o) = [msg EXCEPT !.opts = opts, !.num = msg.num + 1]
  BY DEF Push, Message
<1> HIDE DEF opts
<1>5. /\ Push(msg, o).opts = opts /\ Push(msg, o).num = msg.num + 1
      /\ Push(msg, o).payload = msg.payload
      /\ Push(msg, o) \in Message
  <2>1. msg = [opts |-> msg.opts, num |-> msg.num, payload |-> msg.payload,
               garbled |-> msg.garbled]
    BY DEF Message
  <2>2. Push(msg, o) = [opts |-> opts, num |-> msg.num + 1,
                        payload |-> msg.payload, garbled |-> msg.garbled]
    BY <1>4, <2>1
  <2> QED BY <1>1, <1>3, <2>2 DEF Message
<1> QED BY <1>3, <1>5

LEMMA EmptyTyped ==
  /\ Empty \in Message
  /\ \A name \in Names : Empty.opts[name] = <<>>
  /\ Empty.num = 0 /\ Empty.payload = 0
BY DEF Empty, Message

LEMMA DecodedTyped ==
  ASSUME NEW msg \in Message
  PROVE  /\ Decoded(msg) \in Message
         /\ ~ Overflows(msg) => Decoded(msg) = msg
         /\ Overflows(msg) =>
              \A name \in Names : Decoded(msg).opts[name] = <<>>
<1>1. [Empty EXCEPT !.garbled = TRUE] \in Message
  BY EmptyTyped DEF Message
<1>2. [Empty EXCEPT !.garbled = TRUE].opts = Empty.opts
  BY EmptyTyped DEF Message
<1> QED BY <1>1, <1>2, EmptyTyped DEF Decoded

(* The options of a new request. *)
LEMMA NewTyped ==
  ASSUME NEW uri \in Uris, NEW proxied \in BOOLEAN, NEW observes \in BOOLEAN
  PROVE  /\ NewOpts(uri, proxied, observes) \in [Names -> Seq(Val)]
         /\ NewNum(uri, proxied, observes) \in Nat
         /\ NewOpts(uri, proxied, observes)["Token"] = <<>>
         /\ proxied => NewOpts(uri, proxied, observes)["Proxy-Uri"] # <<>>
         /\ ~ proxied =>
              /\ NewOpts(uri, proxied, observes)["Uri-Path"]
                   = Segments(uri.path)
              /\ NewOpts(uri, proxied, observes)["Uri-Query"]
                   = Segments(uri.query)
<1>1. /\ Segments(uri.path) \in Seq(Texts)
      /\ Segments(uri.query) \in Seq(Texts)
  BY MessageAssumption
<1>2. Texts \subseteq Val
  BY DEF Val
<1>3. /\ Segments(uri.path) \in Seq(Val) /\ Segments(uri.query) \in Seq(Val)
      /\ Len(Segments(uri.path)) \in Nat /\ Len(Segments(uri.query)) \in Nat
  BY <1>1, <1>2, SeqMonotonic, LenProperties
<1>4. /\ <<>> \in Seq(Val) /\ <<"uri">> \in Seq(Val)
      /\ <<"host">> \in Seq(Val) /\ <<"0">> \in Seq(Val)
  <2>1. "uri" \in Val /\ "host" \in Val /\ "0" \in Val
    BY DEF Val
  <2> HIDE DEF Val
  <2> QED BY <2>1
<1>5. Empty.opts \in [Names -> Seq(Val)] /\ Empty.opts["Token"] = <<>>
  BY EmptyTyped DEF Message, Names
<1>6. {"Proxy-Uri", "Uri-Host", "Uri-Path", "Uri-Query", "Observe", "Token"}
        \subseteq Names
  BY DEF Names, High
<1> HIDE DEF Val
<1>7. NewOpts(uri, proxied, observes) \in [Names -> Seq(Val)]
  BY <1>3, <1>4, <1>5, <1>6 DEF NewOpts, UriOpts
<1>8. NewNum(uri, proxied, observes) \in Nat
  <2> DEFINE own == IF observes THEN 1 ELSE 0
             segs == (IF uri.named THEN 1 ELSE 0)
                       + Len(Segments(uri.path)) + Len(Segments(uri.query))
             given == IF proxied THEN 1 ELSE segs
  <2>1. own \in Nat /\ (IF uri.named THEN 1 ELSE 0) \in Nat
    OBVIOUS
  <2>2. segs \in Nat
    BY <1>3, <2>1
  <2> HIDE DEF segs
  <2>3. given \in Nat
    BY <2>2
  <2>4. NewNum(uri, proxied, observes) = own + given
    BY DEF NewNum, segs
  <2> HIDE DEF own, given
  <2> QED BY <2>1, <2>3, <2>4
<1>9. /\ NewOpts(uri, proxied, observes)["Token"] = <<>>
      /\ proxied => NewOpts(uri, proxied, observes)["Proxy-Uri"] = <<"uri">>
      /\ ~ proxied =>
           /\ NewOpts(uri, proxied, observes)["Uri-Path"] = Segments(uri.path)
           /\ NewOpts(uri, proxied, observes)["Uri-Query"]
                = Segments(uri.query)
  BY <1>5, <1>6 DEF NewOpts, UriOpts
<1>10. <<"uri">> # <<>>
  OBVIOUS
<1> QED BY <1>7, <1>8, <1>9, <1>10

-----------------------------------------------------------------------------
(* The invariant *)

(* The request has what its URI asks for and, of the tokens that the user  *)
(* added, the flow has the last: it is that of the request if there was    *)
(* one only.  Before it is sent, the server has nothing of it.             *)
RequestInv ==
  /\ phase = "none" => client = NoClient /\ tokens = 0
  /\ phase \in {"none", "composing"} => server = NoServer
  /\ phase # "none" =>
       /\ client.uri \in Uris
       /\ client.proxied => Has(client.req, "Proxy-Uri")
       /\ ~ client.proxied =>
            /\ IsPrefix(Segments(client.uri.path), client.req.opts["Uri-Path"])
            /\ IsPrefix(Segments(client.uri.query),
                        client.req.opts["Uri-Query"])
  /\ client.req.opts["Token"] \in Seq(Tokens)
  /\ tokens = Len(client.req.opts["Token"])
  /\ tokens <= 1 => client.token = TokenOf(client.req)

(* The server has saved what it has decoded. *)
SavedInv ==
  phase \notin {"none", "composing"} =>
    /\ server.req = Decoded(client.req)
    /\ server.token = TokenOf(server.req)
    /\ ComposeUrl(server.req)
         = [proxied |-> server.proxied, path |-> server.path,
            query |-> server.query]

(* The callback does not see a token in its response; one that is sent has *)
(* that of the request, and a code.                                        *)
ReplyInv ==
  /\ phase = "called" => ~ Has(server.res, "Token")
  /\ phase \in {"replied", "accepted", "mismatch"} =>
       /\ server.code # NoCode
       /\ server.res.opts["Token"]
            = IF server.token = NoToken THEN <<>> ELSE <<server.token>>
  /\ phase = "accepted" =>
       client.code = server.code /\ client.res = Decoded(server.res)
  /\ phase = "mismatch" => ~ Accepts(Decoded(server.res))

(* The size asked for last is not below the block in use. *)
BlockInv ==
  asked \in BlockMin + 1 .. BlockMax =>
    ~ cfg.stateless /\ 2 ^ (cfg.szx + 4) <= asked

MessageInv == TypeOK /\ RequestInv /\ SavedInv /\ ReplyInv /\ BlockInv

(* An option that is pushed stays behind those that the URI asked for. *)
LEMMA PrefixGrows ==
  ASSUME NEW S, NEW p \in Seq(S), NEW t \in Seq(S)
  PROVE  /\ IsPrefix(p, p)
         /\ \A e \in S : IsPrefix(p, t) => IsPrefix(p, Append(t, e))
<1>1. IsPrefix(p, p)
  BY LenProperties DEF IsPrefix
<1>2. ASSUME NEW e \in S, IsPrefix(p, t) PROVE IsPrefix(p, Append(t, e))
  <2>1. /\ Len(p) \in Nat /\ Len(t) \in Nat /\ Len(p) <= Len(t)
        /\ SubSeq(p, 1, Len(p)) = SubSeq(t, 1, Len(p))
    BY <1>2, LenProperties DEF IsPrefix
  <2>2. /\ Append(t, e) \in Seq(S)
        /\ Len(Append(t, e)) = Len(t) + 1
        /\ \A i \in 1 .. Len(t) : Append(t, e)[i] = t[i]
    BY AppendProperties
  <2>3. \A i \in 1 .. Len(p) : t[i] \in S /\ Append(t, e)[i] = t[i]
    BY <2>1, <2>2, ElementOfSeq
  <2>4. /\ SubSeq(t, 1, Len(p)) \in Seq(S)
        /\ Len(SubSeq(t, 1, Len(p))) = Len(p)
        /\ \A i \in 1 .. Len(p) : SubSeq(t, 1, Len(p))[i] = t[i]
    BY <2>1, <2>3, SubSeqProperties
  <2>5. /\ SubSeq(Append(t, e), 1, Len(p)) \in Seq(S)
        /\ Len(SubSeq(Append(t, e), 1, Len(p))) = Len(p)
        /\ \A i \in 1 .. Len(p) :
             SubSeq(Append(t, e), 1, Len(p))[i] = Append(t, e)[i]
    BY <2>1, <2>3, SubSeqProperties
  <2>6. SubSeq(Append(t, e), 1, Len(p)) = SubSeq(t, 1, Len(p))
    BY <2>3, <2>4, <2>5, SeqEqual
  <2>7. Len(p) <= Len(Append(t, e))
    BY <2>1, <2>2
  <2> QED BY <2>1, <2>6, <2>7 DEF IsPrefix
<1> QED BY <1>1, <1>2

(* The token of a message is one of those that were added. *)
LEMMA TokenTyped ==
  ASSUME NEW msg, msg.opts["Token"] \in Seq(Tokens)
  PROVE  TokenOf(msg) \in Tokens \cup {NoToken}
<1>1. CASE msg.opts["Token"] = <<>>
  BY <1>1 DEF TokenOf, Has
<1>2. CASE msg.opts["Token"] # <<>>
  <2>1. Head(msg.opts["Token"]) \in Tokens
    BY <1>2, HeadTailProperties
  <2> QED BY <1>2, <2>1 DEF TokenOf, Has
<1> QED BY <1>1, <1>2

LEMMA NamesHave ==
  {"Proxy-Uri", "Uri-Host", "Uri-Path", "Uri-Query", "Observe", "Token"}
    \subseteq Names
BY DEF Names, High

(* Nothing but the client context changes while a request is composed. *)
LEMMA ComposeKeeps ==
  ASSUME MessageInv, TypeOK', RequestInv', phase \in {"none", "composing"},
         phase' \in {"none", "composing"}, UNCHANGED <<cfg, asked>>
  PROVE  MessageInv'
<1>1. SavedInv' /\ ReplyInv'
  BY DEF SavedInv, ReplyInv
<1>2. BlockInv'
  BY DEF MessageInv, BlockInv
<1> QED BY <1>1, <1>2 DEF MessageInv

(* An option is added to the request; a token is cached, too. *)
LEMMA PushKeeps ==
  ASSUME MessageInv, phase = "composing", ~ Full(client.req),
         UNCHANGED <<cfg, asked, phase, server, closed>>,
         NEW o \in [name : Names, val : Val],
         NEW t \in Tokens \cup {NoToken},
         client' = [client EXCEPT !.req = Push(@, o), !.token = t],
         IF o.name = "Token"
         THEN t = o.val /\ t \in Tokens /\ tokens' = tokens + 1
         ELSE t = client.token /\ tokens' = tokens
  PROVE  MessageInv'
<1> DEFINE req == client.req
           new == Push(client.req, o)
<1>1. TypeOK /\ RequestInv
  BY DEF MessageInv
<1>2. /\ req \in Message /\ client.token \in Tokens \cup {NoToken}
      /\ req.num \in Nat /\ req.num < MaxOptions
  <2>1. /\ req \in Message /\ client.token \in Tokens \cup {NoToken}
        /\ req.num <= MaxOptions
    BY <1>1 DEF TypeOK
  <2>2. req.num \in Nat /\ req.num # MaxOptions
    BY <2>1 DEF Message, Full
  <2> QED BY <2>1, <2>2, MessageAssumption
<1>3. /\ new \in Message /\ new.num = req.num + 1
      /\ new.opts[o.name] = Append(req.opts[o.name], o.val)
      /\ \A name \in Names \ {o.name} : new.opts[name] = req.opts[name]
  BY <1>2, PushIs
<1> HIDE DEF new
<1>4. /\ client'.req = new /\ client'.token = t
      /\ client'.uri = client.uri /\ client'.proxied = client.proxied
  BY <1>1 DEF TypeOK, new
<1>5. new.num <= MaxOptions
  BY <1>2, <1>3, MessageAssumption
<1>6. TypeOK'
  <2>1. tokens' \in Nat
    BY <1>1 DEF TypeOK
  <2>2. client' \in [method : Methods \cup {"none"}, uri : Uris \cup {NoUri},
                     proxied : BOOLEAN, req : Message,
                     token : Tokens \cup {NoToken},
                     code : Codes \cup {NoCode, ServerError, NotFoundCode},
                     res : Message]
    BY <1>1, <1>3 DEF TypeOK, new
  <2> QED BY <1>1, <1>4, <1>5, <2>1, <2>2 DEF TypeOK
<1>7. /\ req.opts \in [Names -> Seq(Val)]
      /\ req.opts["Proxy-Uri"] \in Seq(Val)
      /\ req.opts["Uri-Path"] \in Seq(Val)
      /\ req.opts["Uri-Query"] \in Seq(Val)
      /\ o.name \in Names /\ o.val \in Val
  BY <1>2, NamesHave DEF Message
<1>8. client.uri \in Uris
  BY <1>1 DEF RequestInv
<1>9. /\ Segments(client.uri.path) \in Seq(Val)
      /\ Segments(client.uri.query) \in Seq(Val)
  <2>1. Texts \subseteq Val
    BY DEF Val
  <2> QED BY <1>8, <2>1, SeqMonotonic, MessageAssumption
<1>10. Has(req, "Proxy-Uri") => Has(new, "Proxy-Uri")
  <2>1. CASE o.name = "Proxy-Uri"
    BY <1>3, <1>7, <2>1, AppendProperties DEF Has
  <2>2. CASE o.name # "Proxy-Uri"
    BY <1>3, <2>2, NamesHave DEF Has
  <2> QED BY <2>1, <2>2
<1>11. ASSUME NEW name \in {"Uri-Path", "Uri-Query"}, NEW p \in Seq(Val),
              IsPrefix(p, req.opts[name])
       PROVE  IsPrefix(p, new.opts[name])
  <2>1. CASE o.name = name
    <3>1. req.opts[name] \in Seq(Val)
      BY <1>7
    <3>2. new.opts[name] = Append(req.opts[name], o.val)
      BY <1>3, <2>1
    <3> QED BY <1>7, <1>11, <3>1, <3>2, PrefixGrows
  <2>2. CASE o.name # name
    BY <1>3, <1>11, <2>2, NamesHave
  <2> QED BY <2>1, <2>2
<1>12. /\ new.opts["Token"] \in Seq(Tokens)
       /\ tokens' = Len(new.opts["Token"])
       /\ tokens' <= 1 => t = TokenOf(new)
  <2>1. /\ req.opts["Token"] \in Seq(Tokens)
        /\ tokens = Len(req.opts["Token"])
        /\ tokens <= 1 => client.token = TokenOf(req)
    BY <1>1 DEF RequestInv
  <2>2. CASE o.name = "Token"
    <3>1. new.opts["Token"] = Append(req.opts["Token"], t) /\ t \in Tokens
      BY <1>3, <2>2
    <3>2. /\ new.opts["Token"] \in Seq(Tokens)
          /\ new.opts["Token"] # <<>>
          /\ Len(new.opts["Token"]) = tokens + 1
          /\ new.opts["Token"][tokens + 1] = t
      <4> DEFINE old == req.opts["Token"]
      <4> HIDE DEF old
      <4>1. old \in Seq(Tokens) /\ tokens = Len(old)
        BY <2>1 DEF old
      <4>2. /\ Append(old, t) \in Seq(Tokens) /\ Append(old, t) # <<>>
            /\ Len(Append(old, t)) = Len(old) + 1
            /\ Append(old, t)[Len(old) + 1] = t
        BY <3>1, <4>1, AppendProperties
      <4>3. new.opts["Token"] = Append(old, t)
        BY <3>1 DEF old
      <4> QED BY <4>1, <4>2, <4>3
    <3>3. tokens \in Nat /\ tokens' = tokens + 1
      BY <1>1, <2>2 DEF TypeOK
    <3>4. ASSUME tokens' <= 1 PROVE t = TokenOf(new)
      <4>1. tokens + 1 = 1
        BY <3>3, <3>4
      <4>2. Head(new.opts["Token"]) = new.opts["Token"][1]
        BY <3>2, HeadTailProperties
      <4> QED BY <3>2, <4>1, <4>2 DEF TokenOf, Has
    <3> QED BY <3>2, <3>3, <3>4
  <2>3. CASE o.name # "Token"
    <3>1. new.opts["Token"] = req.opts["Token"]
      BY <1>3, <2>3, NamesHave
    <3> QED BY <2>1, <2>3, <3>1 DEF TokenOf, Has
  <2> QED BY <2>2, <2>3
<1>13. RequestInv'
  <2>1. /\ client.proxied => Has(new, "Proxy-Uri")
        /\ ~ client.proxied =>
             /\ IsPrefix(Segments(client.uri.path), new.opts["Uri-Path"])
             /\ IsPrefix(Segments(client.uri.query), new.opts["Uri-Query"])
    BY <1>1, <1>9, <1>10, <1>11 DEF RequestInv
  <2>2. phase' = "composing" /\ server' = NoServer
    BY <1>1 DEF RequestInv
  <2> QED BY <1>4, <1>8, <1>12, <2>1, <2>2 DEF RequestInv
<1> QED BY <1>6, <1>13, ComposeKeeps

LEMMA NewKeeps ==
  ASSUME MessageInv, NEW m \in Methods, NEW uri \in Uris,
         NEW proxied \in BOOLEAN, NEW observes \in BOOLEAN,
         RequestNew(m, uri, proxied, observes)
  PROVE  MessageInv'
<1> DEFINE opts == NewOpts(uri, proxied, observes)
           num == NewNum(uri, proxied, observes)
           req == [opts |-> opts, num |-> num, payload |-> 0,
                   garbled |-> FALSE]
<1>1. TypeOK /\ RequestInv
  BY DEF MessageInv
<1>2. /\ opts \in [Names -> Seq(Val)] /\ num \in Nat
      /\ opts["Token"] = <<>>
      /\ proxied => opts["Proxy-Uri"] # <<>>
      /\ ~ proxied => /\ opts["Uri-Path"] = Segments(uri.path)
                      /\ opts["Uri-Query"] = Segments(uri.query)
  BY NewTyped
<1>3. /\ phase = "none" /\ phase' = "composing" /\ num <= MaxOptions
      /\ UNCHANGED <<cfg, asked, server, tokens, closed>>
  BY DEF RequestNew, CanBeNew
<1> HIDE DEF opts, num
<1>4. client' = [method |-> m, uri |-> uri, proxied |-> proxied, req |-> req,
                 token |-> NoToken, code |-> NoCode, res |-> Empty]
  BY DEF RequestNew, NoClient, Empty, opts, num
<1>5. req \in Message
  BY <1>2 DEF Message
<1>6. TypeOK'
  <2>1. Empty \in Message
    BY EmptyTyped
  <2> HIDE DEF req
  <2>2. client' \in [method : Methods \cup {"none"}, uri : Uris \cup {NoUri},
                     proxied : BOOLEAN, req : Message,
                     token : Tokens \cup {NoToken},
                     code : Codes \cup {NoCode, ServerError, NotFoundCode},
                     res : Message]
    BY <1>4, <1>5, <2>1
  <2>3. client'.req.num <= MaxOptions
    BY <1>3, <1>4 DEF req
  <2> QED BY <1>1, <1>3, <2>2, <2>3, Zenon DEF TypeOK, Phases
<1>7. tokens = 0 /\ server = NoServer
  BY <1>1, <1>3 DEF RequestInv
<1>8. RequestInv'
  <2>1. /\ client'.uri = uri /\ client'.proxied = proxied
        /\ client'.token = NoToken /\ client'.req.opts = opts
    BY <1>4
  <2>2. ASSUME ~ proxied
        PROVE  /\ IsPrefix(Segments(uri.path), opts["Uri-Path"])
               /\ IsPrefix(Segments(uri.query), opts["Uri-Query"])
    BY <1>2, <2>2, MessageAssumption, PrefixGrows
  <2>3. opts["Token"] \in Seq(Tokens) /\ Len(opts["Token"]) = 0
    BY <1>2
  <2>4. TokenOf(client'.req) = NoToken
    BY <1>2, <2>1 DEF TokenOf, Has
  <2> QED BY <1>2, <1>3, <1>7, <2>1, <2>2, <2>3, <2>4 DEF RequestInv, Has
<1> QED BY <1>3, <1>6, <1>8, ComposeKeeps

LEMMA FreeKeeps ==
  ASSUME MessageInv, RequestFree
  PROVE  MessageInv'
<1>1. TypeOK /\ RequestInv
  BY DEF MessageInv
<1>2. /\ phase = "composing" /\ phase' = "none" /\ client' = NoClient
      /\ tokens' = 0 /\ UNCHANGED <<cfg, asked, server>>
  BY DEF RequestFree
<1>3. /\ NoClient.req = Empty /\ NoClient.token = NoToken
      /\ NoClient \in [method : Methods \cup {"none"}, uri : Uris \cup {NoUri},
                       proxied : BOOLEAN, req : Message,
                       token : Tokens \cup {NoToken},
                       code : Codes \cup {NoCode, ServerError, NotFoundCode},
                       res : Message]
  BY EmptyTyped DEF NoClient
<1>4. /\ Empty.num = 0 /\ Empty.opts["Token"] = <<>>
      /\ TokenOf(Empty) = NoToken
  BY EmptyTyped, NamesHave DEF TokenOf, Has
<1>5. 0 <= MaxOptions
  BY MessageAssumption
<1>6. TypeOK'
  BY <1>1, <1>2, <1>3, <1>4, <1>5 DEF TypeOK, Phases
<1>7. RequestInv'
  BY <1>1, <1>2, <1>3, <1>4 DEF RequestInv
<1> QED BY <1>2, <1>6, <1>7, ComposeKeeps

LEMMA PayloadKeeps ==
  ASSUME MessageInv, NEW sz \in Payloads, RequestSetPayload(sz)
  PROVE  MessageInv'
<1>1. TypeOK /\ RequestInv
  BY DEF MessageInv
<1>2. /\ phase = "composing"
      /\ client' = [client EXCEPT !.req.payload = sz]
      /\ UNCHANGED <<cfg, asked, phase, server, tokens, closed>>
  BY DEF RequestSetPayload
<1> DEFINE req == [client.req EXCEPT !.payload = sz]
<1>3. /\ req \in Message /\ req.num = client.req.num
      /\ req.opts = client.req.opts
  BY <1>1, MessageAssumption DEF TypeOK, Message
<1>4. client' = [client EXCEPT !.req = req]
  BY <1>2
<1> HIDE DEF req
<1>5. /\ client'.req = req /\ client'.uri = client.uri
      /\ client'.proxied = client.proxied /\ client'.token = client.token
  BY <1>1, <1>4 DEF TypeOK
<1>6. client' \in [method : Methods \cup {"none"}, uri : Uris \cup {NoUri},
                   proxied : BOOLEAN, req : Message,
                   token : Tokens \cup {NoToken},
                   code : Codes \cup {NoCode, ServerError, NotFoundCode},
                   res : Message]
  BY <1>1, <1>3, <1>4 DEF TypeOK
<1>7. TypeOK'
  BY <1>1, <1>2, <1>3, <1>5, <1>6 DEF TypeOK
<1>8. RequestInv'
  BY <1>1, <1>2, <1>3, <1>5 DEF RequestInv, Has, TokenOf
<1> QED BY <1>2, <1>7, <1>8, ComposeKeeps

(* The server decodes the request and saves what its flow needs. *)
LEMMA SendKeeps ==
  ASSUME MessageInv, RequestSend
  PROVE  MessageInv'
<1> DEFINE in == Decoded(client.req)
           url == ComposeUrl(in)
<1>1. TypeOK /\ RequestInv /\ BlockInv
  BY DEF MessageInv
<1>2. /\ phase = "composing" /\ phase' = "called"
      /\ UNCHANGED <<cfg, asked, client, tokens, closed>>
      /\ server' = [method |-> client.method, req |-> in,
                    token |-> TokenOf(in), proxied |-> url.proxied,
                    path |-> url.path, query |-> url.query,
                    code |-> NoCode, res |-> Empty]
  BY DEF RequestSend, NoServer
<1>3. client.req \in Message /\ client.method \in Methods \cup {"none"}
  BY <1>1 DEF TypeOK
<1>4. /\ in \in Message
      /\ ~ Overflows(client.req) => in = client.req
      /\ Overflows(client.req) => \A name \in Names : in.opts[name] = <<>>
  BY <1>3, DecodedTyped
<1>5. TokenOf(in) \in Tokens \cup {NoToken}
  <2>1. in.opts["Token"] \in Seq(Tokens)
    <3>1. client.req.opts["Token"] \in Seq(Tokens) /\ "Token" \in Names
      BY <1>1, NamesHave DEF RequestInv
    <3>2. <<>> \in Seq(Tokens)
      OBVIOUS
    <3> HIDE DEF in
    <3> QED BY <1>4, <3>1, <3>2
  <2> HIDE DEF in
  <2> QED BY <2>1, TokenTyped
<1> HIDE DEF in
<1>6. /\ url = [proxied |-> url.proxied, path |-> url.path,
                query |-> url.query]
      /\ url.proxied \in BOOLEAN
      /\ url.path \in Seq(Val) /\ url.query \in Seq(Val)
  <2>1. /\ in.opts["Uri-Path"] \in Seq(Val)
        /\ in.opts["Uri-Query"] \in Seq(Val)
        /\ <<>> \in Seq(Val)
    BY <1>4, NamesHave DEF Message
  <2> QED BY <2>1 DEF ComposeUrl
<1> HIDE DEF url
<1>7. Empty \in Message /\ Empty.num = 0 /\ ~ Has(Empty, "Token")
  BY EmptyTyped, NamesHave DEF Has
<1>8. TypeOK'
  <2>1. server' \in [method : Methods \cup {"none"}, req : Message,
                     token : Tokens \cup {NoToken}, proxied : BOOLEAN,
                     path : Seq(Val), query : Seq(Val),
                     code : Codes \cup {NoCode, ServerError, NotFoundCode},
                     res : Message]
    BY <1>2, <1>3, <1>4, <1>5, <1>6, <1>7
  <2>2. server'.res.num <= MaxOptions
    BY <1>2, <1>7, MessageAssumption
  <2> QED BY <1>1, <1>2, <2>1, <2>2 DEF TypeOK, Phases
<1>9. RequestInv'
  BY <1>1, <1>2 DEF RequestInv
<1>10. SavedInv'
  <2>1. /\ server'.req = in /\ server'.token = TokenOf(in)
        /\ server'.proxied = url.proxied /\ server'.path = url.path
        /\ server'.query = url.query
    BY <1>2
  <2> QED BY <1>2, <1>6, <2>1 DEF SavedInv, in, url
<1>11. ReplyInv'
  BY <1>2, <1>7 DEF ReplyInv
<1>12. BlockInv'
  BY <1>1, <1>2 DEF BlockInv
<1> QED BY <1>8, <1>9, <1>10, <1>11, <1>12 DEF MessageInv

(* While the callback runs, only the response and its code change. *)
LEMMA AnswerKeeps ==
  ASSUME MessageInv, phase = "called",
         UNCHANGED <<cfg, asked, client, tokens, closed>>,
         NEW rc \in Codes \cup {NoCode, ServerError, NotFoundCode},
         NEW res \in Message, res.num <= MaxOptions,
         server' = [server EXCEPT !.code = rc, !.res = res],
         \/ phase' = "called" /\ ~ Has(res, "Token")
         \/ /\ phase' = "replied" /\ rc # NoCode
            /\ res.opts["Token"]
                 = IF server.token = NoToken THEN <<>> ELSE <<server.token>>
         \/ phase' = "silent"
  PROVE  MessageInv'
<1>1. TypeOK /\ RequestInv /\ SavedInv /\ BlockInv
  BY DEF MessageInv
<1>2. /\ server'.req = server.req /\ server'.token = server.token
      /\ server'.proxied = server.proxied /\ server'.path = server.path
      /\ server'.query = server.query /\ server'.code = rc
      /\ server'.res = res
  BY <1>1 DEF TypeOK
<1>3. server' \in [method : Methods \cup {"none"}, req : Message,
                   token : Tokens \cup {NoToken}, proxied : BOOLEAN,
                   path : Seq(Val), query : Seq(Val),
                   code : Codes \cup {NoCode, ServerError, NotFoundCode},
                   res : Message]
  BY <1>1 DEF TypeOK
<1>4. TypeOK'
  BY <1>1, <1>2, <1>3 DEF TypeOK, Phases
<1>5. RequestInv'
  BY <1>1 DEF RequestInv
<1>6. SavedInv'
  BY <1>1, <1>2 DEF SavedInv
<1>7. ReplyInv'
  BY <1>2 DEF ReplyInv
<1>8. BlockInv'
  BY <1>1 DEF BlockInv
<1> QED BY <1>4, <1>5, <1>6, <1>7, <1>8 DEF MessageInv

LEMMA CodesDiffer ==
  /\ ServerError # NoCode /\ NotFoundCode # NoCode
  /\ \A rc \in Codes : rc # NoCode
BY MessageAssumption DEF ServerError, NotFoundCode, NoCode

(* ec_server_reply adds the token of the request, if it has room for it. *)
LEMMA ReplyKeeps ==
  ASSUME MessageInv, phase = "called",
         NEW rc \in Codes \cup {ServerError, NotFoundCode}, Send(rc),
         UNCHANGED <<cfg, asked, client, tokens, closed>>
  PROVE  MessageInv'
<1>1. TypeOK /\ ~ Has(server.res, "Token")
  BY DEF MessageInv, ReplyInv
<1>2. /\ server.res \in Message /\ server.res.num <= MaxOptions
      /\ server.token \in Tokens \cup {NoToken}
      /\ server.res.num \in Nat
  BY <1>1 DEF TypeOK, Message
<1>3. rc # NoCode /\ rc \in Codes \cup {NoCode, ServerError, NotFoundCode}
  BY CodesDiffer
<1>4. CASE ~ Encodable(server.res)
  <2>1. phase' = "silent" /\ server' = [server EXCEPT !.code = rc]
    BY <1>4 DEF Send
  <2>2. server' = [server EXCEPT !.code = rc, !.res = server.res]
    BY <1>1, <2>1 DEF TypeOK
  <2> QED BY <1>2, <1>3, <2>1, <2>2, AnswerKeeps
<1>5. CASE Encodable(server.res)
  <2> DEFINE res == Mirrored(server.res)
  <2>1. /\ phase' = "replied"
        /\ server' = [server EXCEPT !.code = rc, !.res = res]
    BY <1>5 DEF Send
  <2>2. CASE server.token = NoToken
    <3>1. res = server.res
      BY <2>2 DEF Mirrored
    <3>2. res.opts["Token"] = <<>>
      BY <1>1, <3>1 DEF Has
    <3> HIDE DEF res
    <3> QED BY <1>2, <1>3, <2>1, <2>2, <3>1, <3>2, AnswerKeeps
  <2>3. CASE server.token # NoToken
    <3> DEFINE o == Opt("Token", server.token)
    <3>1. res = Push(server.res, o)
      BY <2>3 DEF Mirrored
    <3>2. /\ o \in [name : Names, val : Val]
          /\ o.name = "Token" /\ o.val = server.token
      BY <1>2, <2>3, NamesHave DEF Opt, Val
    <3> HIDE DEF o, res
    <3>3. /\ res \in Message /\ res.num = server.res.num + 1
          /\ res.opts["Token"] = Append(server.res.opts["Token"], server.token)
      BY <1>2, <3>1, <3>2, PushIs
    <3>4. res.opts["Token"] = <<server.token>>
      <4>1. server.res.opts["Token"] = <<>>
        BY <1>1 DEF Has
      <4>2. Append(<<>>, server.token) = <<server.token>>
        OBVIOUS
      <4> QED BY <3>3, <4>1, <4>2
    <3>5. res.num <= MaxOptions
      <4>1. server.res.num # MaxOptions
        BY <1>5, <2>3 DEF Encodable, Full
      <4> QED BY <1>2, <3>3, <4>1, MessageAssumption
    <3> QED BY <1>3, <2>1, <2>3, <3>3, <3>4, <3>5, AnswerKeeps
  <2> QED BY <2>2, <2>3
<1> QED BY <1>4, <1>5

LEMMA ReceiveKeeps ==
  ASSUME MessageInv, RecvResponse
  PROVE  MessageInv'
<1> DEFINE res == Decoded(server.res)
<1>1. TypeOK /\ RequestInv /\ SavedInv /\ ReplyInv /\ BlockInv
  BY DEF MessageInv
<1>2. /\ phase = "replied" /\ Receive(server.code, res)
      /\ UNCHANGED <<cfg, asked, server, tokens, closed>>
  BY DEF RecvResponse
<1>3. res \in Message
  BY <1>1, DecodedTyped DEF TypeOK
<1>4. server.code \in Codes \cup {NoCode, ServerError, NotFoundCode}
  BY <1>1 DEF TypeOK
<1> HIDE DEF res
<1>5. CASE Accepts(res)
  <2>1. /\ phase' = "accepted"
        /\ client' = [client EXCEPT !.code = server.code, !.res = res]
    BY <1>2, <1>5 DEF Receive
  <2>2. /\ client'.req = client.req /\ client'.uri = client.uri
        /\ client'.proxied = client.proxied /\ client'.token = client.token
        /\ client'.code = server.code /\ client'.res = res
    BY <1>1, <2>1 DEF TypeOK
  <2>3. client' \in [method : Methods \cup {"none"}, uri : Uris \cup {NoUri},
                     proxied : BOOLEAN, req : Message,
                     token : Tokens \cup {NoToken},
                     code : Codes \cup {NoCode, ServerError, NotFoundCode},
                     res : Message]
    BY <1>1, <1>3, <1>4, <2>1 DEF TypeOK
  <2>4. TypeOK'
    BY <1>1, <1>2, <2>1, <2>2, <2>3 DEF TypeOK, Phases
  <2>5. RequestInv'
    BY <1>1, <1>2, <2>1, <2>2 DEF RequestInv
  <2>6. SavedInv'
    BY <1>1, <1>2, <2>1, <2>2 DEF SavedInv
  <2>7. ReplyInv'
    BY <1>1, <1>2, <2>1, <2>2 DEF ReplyInv, res
  <2>8. BlockInv'
    BY <1>1, <1>2 DEF BlockInv
  <2> QED BY <2>4, <2>5, <2>6, <2>7, <2>8 DEF MessageInv
<1>6. CASE ~ Accepts(res)
  <2>1. phase' = "mismatch" /\ UNCHANGED client
    BY <1>2, <1>6 DEF Receive
  <2>2. TypeOK'
    BY <1>1, <1>2, <2>1 DEF TypeOK, Phases
  <2>3. RequestInv' /\ SavedInv' /\ BlockInv'
    BY <1>1, <1>2, <2>1 DEF RequestInv, SavedInv, BlockInv
  <2>4. ReplyInv'
    BY <1>1, <1>2, <1>6, <2>1 DEF ReplyInv, res, Accepts
  <2> QED BY <2>2, <2>3, <2>4 DEF MessageInv
<1> QED BY <1>5, <1>6

LEMMA ConfigureKeeps ==
  ASSUME MessageInv, NEW val \in Asks, SetBlockSize(val)
  PROVE  MessageInv'
<1>1. TypeOK /\ RequestInv /\ SavedInv /\ ReplyInv
  BY DEF MessageInv
<1>2. /\ asked' = val /\ UNCHANGED <<phase, client, server, tokens, closed>>
      /\ cfg' = IF val \in BlockMin .. BlockMax /\ NearestBlock(val) # -1
                THEN [stateless |-> FALSE, szx |-> NearestBlock(val)]
                ELSE cfg
  BY DEF SetBlockSize
<1>3. val \in Nat
  BY MessageAssumption
<1>4. /\ NearestBlock(val) # -1 =>
           /\ NearestBlock(val) \in 0 .. 6
           /\ 2 ^ (NearestBlock(val) + 4) < val
      /\ val > BlockMin => NearestBlock(val) # -1
  BY <1>3, Nearest
<1>5. cfg' \in [stateless : BOOLEAN, szx : 0 .. 6]
  BY <1>1, <1>2, <1>4 DEF TypeOK
<1>6. TypeOK'
  BY <1>1, <1>2, <1>5 DEF TypeOK
<1>7. BlockInv'
  <2>1. SUFFICES ASSUME val \in BlockMin + 1 .. BlockMax
                 PROVE  ~ cfg'.stateless /\ 2 ^ (cfg'.szx + 4) <= val
    BY <1>2 DEF BlockInv
  <2>2. val \in BlockMin .. BlockMax /\ val > BlockMin
    BY <2>1 DEF BlockMin, BlockMax
  <2>3. cfg' = [stateless |-> FALSE, szx |-> NearestBlock(val)]
    BY <1>2, <1>4, <2>2
  <2>4. ~ cfg'.stateless /\ cfg'.szx = NearestBlock(val)
    BY <2>3
  <2>5. 2 ^ (cfg'.szx + 4) < val
    BY <1>4, <2>2, <2>4
  <2>6. 2 ^ (cfg'.szx + 4) \in Nat
    <3>1. cfg'.szx + 4 \in 4 .. 10
      BY <1>4, <2>2, <2>4
    <3> QED BY <3>1, BlockTyped
  <2> QED BY <1>3, <2>4, <2>5, <2>6
<1>8. RequestInv' /\ SavedInv' /\ ReplyInv'
  BY <1>1, <1>2 DEF RequestInv, SavedInv, ReplyInv, Accepts
<1> QED BY <1>6, <1>7, <1>8 DEF MessageInv

LEMMA MessageStep == MessageInv /\ [Next]_vars => MessageInv'
<1> SUFFICES ASSUME MessageInv, [Next]_vars PROVE MessageInv'
  OBVIOUS
<1>1. ASSUME UNCHANGED <<cfg, asked, phase, client, server, tokens>>
      PROVE  MessageInv'
  BY <1>1 DEF MessageInv, TypeOK, RequestInv, SavedInv, ReplyInv, BlockInv,
              Accepts
<1>2. CASE UNCHANGED vars
  BY <1>1, <1>2 DEF vars
<1>3. CASE RequestNewFails
  BY <1>1, <1>3 DEF RequestNewFails
<1>4. ASSUME NEW o \in RequestCalls, RequestAdd(o) PROVE MessageInv'
  <2>1. o \in [name : Names \ {"Token"}, val : Texts]
    BY MessageAssumption
  <2>2. o \in [name : Names, val : Val] /\ o.name # "Token"
    BY <2>1 DEF Val
  <2>3. /\ phase = "composing" /\ ~ Full(client.req)
        /\ client' = [client EXCEPT !.req = Push(@, o)]
        /\ UNCHANGED <<cfg, asked, phase, server, tokens, closed>>
    BY <1>4 DEF RequestAdd
  <2>4. client.token \in Tokens \cup {NoToken}
    BY DEF MessageInv, TypeOK
  <2>5. client' = [client EXCEPT !.req = Push(@, o), !.token = client.token]
    BY <2>3 DEF MessageInv, TypeOK
  <2> QED BY <2>2, <2>3, <2>4, <2>5, PushKeeps
<1>5. ASSUME NEW t \in Tokens, RequestAddToken(t) PROVE MessageInv'
  <2> DEFINE o == Opt("Token", t)
  <2>1. /\ o \in [name : Names, val : Val]
        /\ o.name = "Token" /\ o.val = t
    BY NamesHave DEF Opt, Val
  <2>2. /\ phase = "composing" /\ ~ Full(client.req)
        /\ client' = [client EXCEPT !.req = Push(@, o), !.token = t]
        /\ tokens' = tokens + 1
        /\ UNCHANGED <<cfg, asked, phase, server, closed>>
    BY <1>5 DEF RequestAddToken
  <2> HIDE DEF o
  <2> QED BY <2>1, <2>2, PushKeeps
<1>6. CASE Compose
  BY <1>3, <1>4, <1>5, <1>6, NewKeeps, FreeKeeps, PayloadKeeps DEF Compose
<1>7. TypeOK /\ server.code \in Codes \cup {NoCode, ServerError, NotFoundCode}
      /\ server.res \in Message /\ server.res.num <= MaxOptions
  BY DEF MessageInv, TypeOK
<1>8. ASSUME NEW rc \in Codes, ResponseSetCode(rc) PROVE MessageInv'
  <2>1. /\ phase = "called" /\ phase' = "called"
        /\ server' = [server EXCEPT !.code = rc]
        /\ UNCHANGED <<cfg, asked, client, tokens, closed>>
    BY <1>8 DEF ResponseSetCode
  <2>2. server' = [server EXCEPT !.code = rc, !.res = server.res]
    BY <1>7, <2>1 DEF TypeOK
  <2>3. ~ Has(server.res, "Token")
    BY <2>1 DEF MessageInv, ReplyInv
  <2> QED BY <1>7, <2>1, <2>2, <2>3, AnswerKeeps
<1>9. ASSUME NEW res \in Message, res.num <= MaxOptions,
             phase = "called", phase' = "called",
             res.opts["Token"] = server.res.opts["Token"],
             server' = [server EXCEPT !.res = res],
             UNCHANGED <<cfg, asked, client, tokens, closed>>
      PROVE  MessageInv'
  <2>1. server' = [server EXCEPT !.code = server.code, !.res = res]
    BY <1>7, <1>9 DEF TypeOK
  <2>2. ~ Has(res, "Token")
    BY <1>9 DEF MessageInv, ReplyInv, Has
  <2> QED BY <1>7, <1>9, <2>1, <2>2, AnswerKeeps
<1>10. ASSUME NEW o \in ResponseCalls, ResponseAdd(o) PROVE MessageInv'
  <2>1. o \in [name : Names \ {"Token"}, val : Texts]
    BY MessageAssumption
  <2>2. o \in [name : Names, val : Val] /\ o.name # "Token"
    BY <2>1 DEF Val
  <2> DEFINE res == Push(server.res, o)
  <2>3. /\ phase = "called" /\ phase' = "called" /\ ~ Full(server.res)
        /\ server' = [server EXCEPT !.res = res]
        /\ UNCHANGED <<cfg, asked, client, tokens, closed>>
    BY <1>10 DEF ResponseAdd
  <2>4. /\ res \in Message /\ res.num = server.res.num + 1
        /\ res.opts["Token"] = server.res.opts["Token"]
    BY <1>7, <2>2, PushIs, NamesHave
  <2>5. server.res.num \in Nat /\ server.res.num # MaxOptions
    BY <1>7, <2>3 DEF Message, Full
  <2> HIDE DEF res
  <2>6. res.num <= MaxOptions
    BY <1>7, <2>4, <2>5, MessageAssumption
  <2> QED BY <1>9, <2>3, <2>4, <2>6
<1>11. ASSUME NEW sz \in Payloads, ResponseSetPayload(sz) PROVE MessageInv'
  <2> DEFINE res == [server.res EXCEPT !.payload = sz]
  <2>1. /\ phase = "called" /\ phase' = "called"
        /\ server' = [server EXCEPT !.res = res]
        /\ UNCHANGED <<cfg, asked, client, tokens, closed>>
    BY <1>11 DEF ResponseSetPayload
  <2>2. /\ res \in Message /\ res.num = server.res.num
        /\ res.opts = server.res.opts
    BY <1>7, MessageAssumption DEF Message
  <2> HIDE DEF res
  <2> QED BY <1>7, <1>9, <2>1, <2>2
<1>12. CASE Ready
  <2> DEFINE rc == IF server.code # NoCode /\ Encodable(server.res)
                   THEN server.code ELSE ServerError
  <2>1. /\ phase = "called" /\ Send(rc)
        /\ UNCHANGED <<cfg, asked, client, tokens, closed>>
    BY <1>12 DEF Ready
  <2>2. rc \in Codes \cup {ServerError, NotFoundCode}
    BY <1>7
  <2> HIDE DEF rc
  <2> QED BY <2>1, <2>2, ReplyKeeps
<1>13. CASE CallbackFails
  BY <1>13, ReplyKeeps DEF CallbackFails
<1>14. CASE NotFound
  BY <1>14, ReplyKeeps DEF NotFound
<1>15. CASE Respond
  BY <1>8, <1>10, <1>11, <1>12, <1>13, <1>14, <1>15 DEF Respond
<1> QED BY <1>2, <1>6, <1>15, ConfigureKeeps, SendKeeps, ReceiveKeeps
        DEF Next, Configure

LEMMA MessageInvariant == Spec => []MessageInv
<1>1. ASSUME Init PROVE MessageInv
  <2>1. /\ cfg = [stateless |-> TRUE, szx |-> 0] /\ asked = -1
        /\ phase = "none" /\ client = NoClient /\ server = NoServer
        /\ tokens = 0
    BY <1>1 DEF Init
  <2>2. Empty \in Message /\ Empty.num = 0 /\ Empty.opts["Token"] = <<>>
    BY EmptyTyped, NamesHave
  <2>3. 0 <= MaxOptions
    BY MessageAssumption
  <2>4. /\ NoClient.req = Empty /\ NoClient.token = NoToken
        /\ NoServer.res = Empty
    BY DEF NoClient, NoServer
  <2>5. NoClient \in [method : Methods \cup {"none"},
                      uri : Uris \cup {NoUri},
                      proxied : BOOLEAN, req : Message,
                      token : Tokens \cup {NoToken},
                      code : Codes \cup {NoCode, ServerError, NotFoundCode},
                      res : Message]
    BY <2>2 DEF NoClient
  <2>6. NoServer \in [method : Methods \cup {"none"}, req : Message,
                      token : Tokens \cup {NoToken}, proxied : BOOLEAN,
                      path : Seq(Val), query : Seq(Val),
                      code : Codes \cup {NoCode, ServerError, NotFoundCode},
                      res : Message]
    BY <2>2 DEF NoServer
  <2>7. TypeOK
    BY <2>1, <2>2, <2>3, <2>4, <2>5, <2>6 DEF TypeOK, Phases
  <2>8. RequestInv
    <3>1. <<>> \in Seq(Tokens) /\ Len(<<>>) = 0
      OBVIOUS
    <3>2. TokenOf(Empty) = NoToken
      BY <2>2 DEF TokenOf, Has
    <3> QED BY <2>1, <2>2, <2>4, <3>1, <3>2 DEF RequestInv
  <2>9. SavedInv /\ ReplyInv
    BY <2>1 DEF SavedInv, ReplyInv
  <2>10. BlockInv
    BY <2>1 DEF BlockInv, BlockMin, BlockMax
  <2> QED BY <2>7, <2>8, <2>9, <2>10 DEF MessageInv
<1> QED BY <1>1, MessageStep, PTL DEF Spec

-----------------------------------------------------------------------------
(* Theorems *)

(* Configuration, flows and PDUs keep their types, and neither the options *)
(* of a request nor those of a response, with the token that               *)
(* encode_response adds, outgrow their slots.                              *)
THEOREM MessageTypeCorrect == Spec => []TypeOK
<1>1. MessageInv => TypeOK
  BY DEF MessageInv
<1> QED BY <1>1, MessageInvariant, PTL

(* The callback of the server gets what the client has composed: the path  *)
(* and the query of its URI or the fact that it is a proxy request, its    *)
(* options and its payload, if their number does not overflow.             *)
THEOREM RequestDelivered == Spec => []RequestArrives
<1>1. ASSUME MessageInv, phase \notin {"none", "composing"},
             ~ Overflows(client.req)
      PROVE  /\ client.proxied => RequestView.proxied
             /\ ~ Has(client.req, "Proxy-Uri") =>
                  /\ ~ RequestView.proxied
                  /\ IsPrefix(Segments(client.uri.path), RequestView.path)
                  /\ IsPrefix(Segments(client.uri.query), RequestView.query)
             /\ RequestView.get = client.req.opts
             /\ RequestView.payload = client.req.payload
  <2>1. client.req \in Message
    BY <1>1 DEF MessageInv, TypeOK
  <2>2. server.req = client.req
    BY <1>1, <2>1, DecodedTyped DEF MessageInv, SavedInv
  <2>3. ComposeUrl(client.req)
          = [proxied |-> server.proxied, path |-> server.path,
             query |-> server.query]
    BY <1>1, <2>2 DEF MessageInv, SavedInv
  <2>4. /\ RequestView.proxied = server.proxied
        /\ RequestView.path = server.path
        /\ RequestView.query = server.query
        /\ RequestView.get = client.req.opts
        /\ RequestView.payload = client.req.payload
    BY <2>2 DEF RequestView
  <2>5. CASE Has(client.req, "Proxy-Uri")
    <3>1. server.proxied = TRUE
      BY <2>3, <2>5 DEF ComposeUrl
    <3> QED BY <2>4, <2>5, <3>1
  <2>6. CASE ~ Has(client.req, "Proxy-Uri")
    <3>1. /\ server.proxied = FALSE
          /\ server.path = client.req.opts["Uri-Path"]
          /\ server.query = client.req.opts["Uri-Query"]
      BY <2>3, <2>6 DEF ComposeUrl
    <3>2. /\ ~ client.proxied
          /\ IsPrefix(Segments(client.uri.path), client.req.opts["Uri-Path"])
          /\ IsPrefix(Segments(client.uri.query),
                      client.req.opts["Uri-Query"])
      BY <1>1, <2>6 DEF MessageInv, RequestInv
    <3> QED BY <2>4, <2>6, <3>1, <3>2
  <2> QED BY <2>5, <2>6
<1>2. MessageInv => RequestArrives
  BY <1>1 DEF RequestArrives
<1> QED BY <1>2, MessageInvariant, PTL

(* The response to a request with at most one token is accepted, and what  *)
(* the client then reads is what the callback has composed, with the token *)
(* of the request and nothing else added.                                  *)
THEOREM AnswerDelivered == Spec => []AnswerArrives
<1>1. ASSUME MessageInv
      PROVE  /\ client.req \in Message /\ server.res \in Message
             /\ ~ Overflows(client.req) => Decoded(client.req) = client.req
             /\ ~ Overflows(server.res) => Decoded(server.res) = server.res
  BY <1>1, DecodedTyped DEF MessageInv, TypeOK
<1>2. ASSUME MessageInv, phase \in {"replied", "accepted", "mismatch"}
      PROVE  /\ TokenOf(server.res) = server.token
             /\ Has(server.res, "Token") => server.token # NoToken
             /\ ~ Overflows(client.req) => server.token = TokenOf(client.req)
             /\ Overflows(client.req) => server.token = NoToken
  <2>1. /\ server.res.opts["Token"]
             = IF server.token = NoToken THEN <<>> ELSE <<server.token>>
        /\ server.token = TokenOf(Decoded(client.req))
    BY <1>2 DEF MessageInv, ReplyInv, SavedInv
  <2>2. Head(<<server.token>>) = server.token /\ <<server.token>> # <<>>
    OBVIOUS
  <2>3. Overflows(client.req) => ~ Has(Decoded(client.req), "Token")
    BY <1>1, <1>2, DecodedTyped, NamesHave DEF Has
  <2>4. Overflows(client.req) => server.token = NoToken
    BY <2>1, <2>3 DEF TokenOf
  <2>5. /\ TokenOf(server.res) = server.token
        /\ Has(server.res, "Token") => server.token # NoToken
    BY <2>1, <2>2 DEF TokenOf, Has
  <2> QED BY <1>1, <1>2, <2>1, <2>4, <2>5
<1>3. ASSUME MessageInv, tokens <= 1, phase = "mismatch" PROVE FALSE
  <2>1. ~ Accepts(Decoded(server.res))
    BY <1>3 DEF MessageInv, ReplyInv
  <2>2. /\ Has(Decoded(server.res), "Token")
        /\ TokenOf(Decoded(server.res)) # client.token
    BY <2>1 DEF Accepts
  <2>3. ~ Overflows(server.res)
    BY <1>1, <1>3, <2>2, DecodedTyped, NamesHave DEF Has
  <2>4. Has(server.res, "Token") /\ TokenOf(server.res) # client.token
    BY <1>1, <1>3, <2>2, <2>3
  <2>5. client.token = TokenOf(client.req)
    BY <1>3 DEF MessageInv, RequestInv
  <2> QED BY <1>2, <1>3, <2>4, <2>5
<1>4. ASSUME MessageInv, phase = "accepted", ~ Overflows(server.res)
      PROVE  /\ ResponseView.code = server.code /\ ResponseView.code # NoCode
             /\ ResponseView.payload = server.res.payload
             /\ \A name \in Names \ {"Token"} :
                  ResponseView.get[name] = server.res.opts[name]
             /\ ~ Overflows(client.req) =>
                  TokenOf(client.res) = TokenOf(client.req)
  <2>1. /\ client.code = server.code /\ server.code # NoCode
        /\ client.res = server.res
    BY <1>1, <1>4 DEF MessageInv, ReplyInv
  <2>2. /\ ResponseView.code = client.code
        /\ ResponseView.payload = client.res.payload
        /\ ResponseView.get = client.res.opts
    BY DEF ResponseView
  <2> QED BY <1>2, <1>4, <2>1, <2>2
<1>5. MessageInv => AnswerArrives
  BY <1>3, <1>4 DEF AnswerArrives
<1> QED BY <1>5, MessageInvariant, PTL

(* ec_request_set_payload never accepts more than the user asked for with  *)
(* ec_set_block_size.                                                      *)
THEOREM PayloadBounded == Spec => PayloadFitsBlock
<1> DEFINE Fits ==
  (asked \in BlockMin + 1 .. BlockMax) =>
       client'.req.payload \in {0, client.req.payload} \cup (1 .. asked)
<1>1. ASSUME MessageInv, [Next]_vars,
             asked \in BlockMin + 1 .. BlockMax,
             client'.req.payload # client.req.payload
      PROVE  client'.req.payload \in {0} \cup (1 .. asked)
  <2>1. /\ TypeOK /\ client.req \in Message
        /\ ~ cfg.stateless /\ 2 ^ (cfg.szx + 4) <= asked
        /\ cfg.szx \in 0 .. 6 /\ asked \in Nat
    BY <1>1 DEF MessageInv, BlockInv, TypeOK, BlockMin, BlockMax
  <2>2. CASE \E sz \in Payloads : RequestSetPayload(sz)
    <3>1. PICK sz \in Payloads : RequestSetPayload(sz)
      BY <2>2
    <3>2. 2 ^ (cfg.szx + 4) \in Nat \ {0}
      <4>1. cfg.szx + 4 \in 4 .. 10
        BY <2>1
      <4> QED BY <4>1, BlockTyped
    <3>3. BlockSize = 2 ^ (cfg.szx + 4)
      BY <2>1 DEF BlockSize
    <3>4. sz \in Nat /\ sz # 0 /\ sz <= 2 ^ (cfg.szx + 4)
      BY <3>1, <3>2, <3>3, MessageAssumption DEF RequestSetPayload
    <3>5. client'.req.payload = sz
      BY <2>1, <3>1 DEF RequestSetPayload, TypeOK, Message
    <3> QED BY <2>1, <3>2, <3>4, <3>5
  <2>3. CASE \E o \in RequestCalls : RequestAdd(o)
    <3>1. PICK o \in RequestCalls : RequestAdd(o)
      BY <2>3
    <3>2. client'.req = Push(client.req, o)
      BY <2>1, <3>1 DEF RequestAdd, TypeOK
    <3>3. o \in [name : Names, val : Val]
      BY MessageAssumption DEF Val
    <3>4. client'.req.payload = client.req.payload
      BY <2>1, <3>2, <3>3, PushIs
    <3> QED BY <1>1, <3>4
  <2>4. CASE \E t \in Tokens : RequestAddToken(t)
    <3>1. PICK t \in Tokens : RequestAddToken(t)
      BY <2>4
    <3>2. client'.req = Push(client.req, Opt("Token", t))
      BY <2>1, <3>1 DEF RequestAddToken, TypeOK
    <3>3. Opt("Token", t) \in [name : Names, val : Val]
      BY NamesHave DEF Opt, Val
    <3>4. client'.req.payload = client.req.payload
      BY <2>1, <3>2, <3>3, PushIs
    <3> QED BY <1>1, <3>4
  <2>5. CASE \E m \in Methods, uri \in Uris, proxied, observes \in BOOLEAN :
               RequestNew(m, uri, proxied, observes)
    <3>1. PICK m \in Methods, uri \in Uris, proxied \in BOOLEAN,
               observes \in BOOLEAN : RequestNew(m, uri, proxied, observes)
      BY <2>5
    <3>2. client' = [method |-> m, uri |-> uri, proxied |-> proxied,
                     req |-> [opts |-> NewOpts(uri, proxied, observes),
                              num |-> NewNum(uri, proxied, observes),
                              payload |-> 0, garbled |-> FALSE],
                     token |-> NoToken, code |-> NoCode, res |-> Empty]
      BY <3>1 DEF RequestNew, NoClient, Empty
    <3>3. client'.req.payload = 0
      BY <3>2
    <3> QED BY <3>3
  <2>6. CASE RequestFree
    <3>1. client'.req.payload = 0
      BY <2>6 DEF RequestFree, NoClient, Empty
    <3> QED BY <3>1
  <2>7. CASE RecvResponse
    <3>1. client'.req = client.req
      BY <2>1, <2>7 DEF RecvResponse, Receive, TypeOK
    <3> QED BY <1>1, <3>1
  <2>8. CASE UNCHANGED client
    BY <1>1, <2>8
  <2>9. CASE Configure \/ RequestNewFails \/ RequestSend \/ Respond
    <3>1. UNCHANGED client
      BY <2>9 DEF Configure, SetBlockSize, RequestNewFails, RequestSend,
                  Respond, ResponseSetCode, ResponseAdd, ResponseSetPayload,
                  Ready, CallbackFails, NotFound
    <3> QED BY <2>8, <3>1
  <2> QED BY <1>1, <2>2, <2>3, <2>4, <2>5, <2>6, <2>7, <2>8, <2>9
          DEF Next, Compose, vars
<1>2. ASSUME MessageInv, [Next]_vars PROVE [Fits]_vars
  BY <1>1, <1>2
<1> QED BY <1>2, MessageInvariant, PTL DEF Spec, PayloadFitsBlock
=============================================================================
