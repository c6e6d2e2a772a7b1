--------------------------- MODULE HttpProxyProofs ---------------------------
(***************************************************************************)
(* Proofs about HttpProxy: how many replies an HTTP request gets and whose *)
(* they are, for any requests, resources, representations and answers of   *)
(* the mote.                                                               *)
(***************************************************************************)
EXTENDS HttpProxy, SequenceTheorems, TLAPS

-----------------------------------------------------------------------------
(* What each request may rely on *)

Rep == [status : Status, body : Seq(Payload)]

TypeInv ==
  /\ proc \in {"up", "segv"}
  /\ http \in [Reqs -> {"new", "open", "dropped", "done"}]
  /\ replies \in [Reqs -> Seq(Rep)]
  /\ hdrs \in [Reqs -> SUBSET Uris]
  /\ coap \in [Reqs -> CoapReq \cup {NoReq}]
  /\ \A r \in Reqs : coap[r] # NoReq <=> http[r] = "open"
  /\ cli \in Reqs \cup {NoReq}
  /\ curi \in Uris \cup {NoReq}
  /\ buf \in Seq(Payload)
  /\ bno \in 0 .. MaxBlock
  /\ more \in BOOLEAN
  /\ alone \in [Reqs -> BOOLEAN]
  /\ clean \in [Reqs -> BOOLEAN]

(* The first n blocks of u. *)
Part(u, n) ==
  [i \in 1 .. n |-> [uri |-> u, num |-> i - 1, accept |-> FALSE, whole |-> TRUE]]

(* The requests whose body is to be the whole representation. *)
Plainly(r) == clean[r] /\ UriOf[r] \notin Binary /\ ~ForwardsAccept(r)

(* A transfer that goes on: g_ctx holds the blocks before the one awaited, *)
(* or was reset by a request that has been dropped.                        *)
Fetching(r) ==
  /\ ~coap[r].accept
  /\ Blocks[UriOf[r]] = 0 => coap[r].num = 0
  /\ \/ curi = NoReq /\ buf = <<>> /\ bno = 0 /\ ~more
     \/ /\ curi = UriOf[r] /\ bno = coap[r].num /\ buf = Part(UriOf[r], bno)
        /\ more <=> bno > 0
        /\ bno > 0 => bno < Blocks[UriOf[r]]

(* An open request that no other has overlapped has g_ctx for itself. *)
Holds(r) ==
  /\ \A q \in Reqs : http[q] = "open" => q = r
  /\ cli \in {r, NoReq} /\ curi \in {UriOf[r], NoReq}
  /\ coap[r].uri = UriOf[r]
  /\ Plainly(r) => Fetching(r)

OwnInv ==
  \A r \in Reqs : alone[r] =>
    /\ hdrs[r] \subseteq {UriOf[r]}
    /\ Plainly(r) => \A i \in DOMAIN replies[r] :
                       replies[r][i].status = 200
                         => replies[r][i].body = Whole(UriOf[r])
    /\ http[r] = "open" => Holds(r)

(* The inductive invariant of the proxy. *)
ProxyInv == TypeInv /\ RepliedOnce /\ OwnInv

-----------------------------------------------------------------------------
(* Sequences of replies *)

LEMMA OneReply ==
  ASSUME NEW status \in Status, NEW b \in Seq(Payload)
  PROVE  /\ Plain(status, b) \in Seq(Rep) /\ Len(Plain(status, b)) = 1
         /\ DOMAIN Plain(status, b) = {1}
         /\ Plain(status, b)[1].status = status /\ Plain(status, b)[1].body = b
BY DEF Plain, Rep

(* The reply 201, if there is one. *)
LEMMA EarlyType ==
  ASSUME TypeInv, NEW code
  PROVE  /\ Early(code) \in Seq(Rep)
         /\ code # "created" => Early(code) = <<>>
         /\ code = "created" => /\ Len(Early(code)) = 1
                               /\ Early(code)[1].status = 201
<1>1. /\ Plain(201, buf) \in Seq(Rep) /\ Len(Plain(201, buf)) = 1
      /\ Plain(201, buf)[1].status = 201
  BY OneReply DEF TypeInv, Status
<1> QED BY <1>1 DEF Early

(* What a response with code leads to when it ends in a reply of status.   *)
LEMMA EarlyReply ==
  ASSUME TypeInv, NEW code, NEW status \in Status, NEW b \in Seq(Payload)
  PROVE  /\ Early(code) \o Plain(status, b) \in Seq(Rep)
         /\ code # "created" => Early(code) \o Plain(status, b) = Plain(status, b)
         /\ code = "created" =>
              /\ 1 \in DOMAIN (Early(code) \o Plain(status, b))
              /\ (Early(code) \o Plain(status, b))[1].status = 201
<1>2. Plain(status, b) \in Seq(Rep) /\ Len(Plain(status, b)) = 1
  BY OneReply
<1>3. /\ Early(code) \in Seq(Rep)
      /\ code # "created" => Early(code) = <<>>
      /\ code = "created" => /\ Len(Early(code)) = 1
                            /\ Early(code)[1].status = 201
  BY EarlyType
<1>4. Early(code) \o Plain(status, b) \in Seq(Rep)
  BY <1>2, <1>3, ConcatProperties
<1>5. code # "created" => Early(code) \o Plain(status, b) = Plain(status, b)
  BY <1>2, <1>3, ConcatEmptySeq
<1>6. ASSUME code = "created"
      PROVE  /\ 1 \in DOMAIN (Early(code) \o Plain(status, b))
             /\ (Early(code) \o Plain(status, b))[1].status = 201
  <2> DEFINE e == Early(code)
             p == Plain(status, b)
  <2>1. e \in Seq(Rep) /\ p \in Seq(Rep) /\ Len(e) = 1 /\ Len(p) = 1 /\ e[1].status = 201
    BY <1>2, <1>3, <1>6
  <2> HIDE DEF e, p
  <2>2. e \o p \in Seq(Rep) /\ Len(e \o p) = 2 /\ (e \o p)[1] = e[1]
    BY <2>1, ConcatProperties
  <2>3. DOMAIN (e \o p) = 1 .. Len(e \o p)
    BY <2>2, LenProperties
  <2>4. 1 \in DOMAIN (e \o p) /\ (e \o p)[1].status = 201
    BY <2>1, <2>2, <2>3
  <2> QED BY <2>4 DEF e, p
<1> QED BY <1>4, <1>5, <1>6

(* The replies to r are those before and then those of sent, and no other  *)
(* request is replied to.                                                  *)
GrowsBy(r, sent) ==
  /\ replies' \in [Reqs -> Seq(Rep)]
  /\ \A q \in Reqs \ {r} : replies'[q] = replies[q]
  /\ Len(replies'[r]) = Len(replies[r]) + Len(sent)
  /\ \A i \in DOMAIN replies[r] :
       i \in DOMAIN replies'[r] /\ replies'[r][i] = replies[r][i]
  /\ \A i \in DOMAIN sent : \E j \in DOMAIN replies'[r] :
       replies'[r][j] = sent[i]
  /\ \A i \in DOMAIN replies'[r] :
       \/ i \in DOMAIN replies[r] /\ replies'[r][i] = replies[r][i]
       \/ \E j \in DOMAIN sent : replies'[r][i] = sent[j]

LEMMA Grows ==
  ASSUME TypeInv, NEW r \in Reqs, NEW sent \in Seq(Rep),
         replies' = [replies EXCEPT ![r] = @ \o sent]
  PROVE  GrowsBy(r, sent)
<1> DEFINE old == replies[r]
           new == old \o sent
<1>1. old \in Seq(Rep)
  BY DEF TypeInv
<1> HIDE DEF old
<1>2. /\ new \in Seq(Rep) /\ Len(new) = Len(old) + Len(sent)
      /\ \A i \in 1 .. Len(new) :
           new[i] = IF i <= Len(old) THEN old[i] ELSE sent[i - Len(old)]
  BY <1>1, ConcatProperties
<1>3. /\ DOMAIN old = 1 .. Len(old) /\ DOMAIN sent = 1 .. Len(sent)
      /\ DOMAIN new = 1 .. Len(new) /\ Len(old) \in Nat /\ Len(sent) \in Nat
  BY <1>1, <1>2, LenProperties
<1> HIDE DEF new
<1>4. \A i \in DOMAIN old : i \in DOMAIN new /\ new[i] = old[i]
  BY <1>2, <1>3
<1>5. ASSUME NEW i \in DOMAIN sent
      PROVE  \E j \in DOMAIN new : new[j] = sent[i]
  <2>1. /\ i + Len(old) \in DOMAIN new /\ ~(i + Len(old) <= Len(old))
        /\ (i + Len(old)) - Len(old) = i
    BY <1>2, <1>3
  <2> QED BY <1>2, <1>3, <2>1
<1>6. ASSUME NEW i \in DOMAIN new
      PROVE  \/ i \in DOMAIN old /\ new[i] = old[i]
             \/ \E j \in DOMAIN sent : new[i] = sent[j]
  <2>1. CASE i <= Len(old)
    BY <1>2, <1>3, <2>1
  <2>2. CASE ~(i <= Len(old))
    <3>1. i - Len(old) \in DOMAIN sent
      BY <1>2, <1>3, <2>2
    <3> QED BY <1>2, <1>3, <2>2, <3>1
  <2> QED BY <2>1, <2>2
<1>7. /\ replies' \in [Reqs -> Seq(Rep)] /\ replies'[r] = new
      /\ \A q \in Reqs \ {r} : replies'[q] = replies[q]
  <2>1. replies' = [replies EXCEPT ![r] = new]
    BY DEF new, old
  <2> QED BY <1>2, <2>1 DEF TypeInv
<1> QED BY <1>2, <1>4, <1>5, <1>6, <1>7 DEF old, GrowsBy

-----------------------------------------------------------------------------
(* What comes from the mote *)

(* The headers of a reply, whoever g_ctx.cli belongs to. *)
LEMMA CopiedHeaders ==
  ASSUME TypeInv, NEW r \in Reqs, NEW code, Called(r), CopyHeaders(r, code)
  PROVE  /\ hdrs' \in [Reqs -> SUBSET Uris]
         /\ \A q \in Reqs \ {r} : hdrs'[q] = hdrs[q]
         /\ cli \in {r, NoReq} => hdrs'[r] \subseteq hdrs[r] \cup {coap[r].uri}
<1>1. coap[r].uri \in Uris
  BY DEF TypeInv, Called, CoapReq
<1> DEFINE F == CASE cli = NoReq -> {{}}
                  [] cli = r -> IF code = Failed THEN {{}} ELSE {{coap[r].uri}}
                  [] cli \in Reqs \ {r} /\ coap[cli] # NoReq -> {{}}
                  [] OTHER -> {{}} \cup {{u} : u \in Uris}
<1>2. \A from \in F : from \in SUBSET Uris
  BY <1>1
<1>3. cli \in {r, NoReq} => \A from \in F : from \subseteq {coap[r].uri}
  BY ProxyAssumption
<1>4. PICK from \in F : hdrs' = [hdrs EXCEPT ![r] = @ \cup from]
  BY DEF CopyHeaders
<1> HIDE DEF F
<1> QED BY <1>2, <1>3, <1>4 DEF TypeInv

LEMMA TextType ==
  ASSUME NEW q \in CoapReq, NEW code
  PROVE  TextOf(q, code) \in Seq(Payload)
<1> DEFINE whole == q.uri \notin Binary
           block == [uri |-> q.uri, num |-> q.num, accept |-> q.accept,
                     whole |-> whole]
<1>1. whole \in BOOLEAN
  OBVIOUS
<1> HIDE DEF whole
<1>2. block \in Payload
  BY <1>1 DEF CoapReq, Payload
<1>3. TextOf(q, code) = IF code = "content" THEN <<block>> ELSE <<>>
  BY DEF TextOf, whole
<1> HIDE DEF block
<1> QED BY <1>2, <1>3

LEMMA CollectedType ==
  ASSUME TypeInv, NEW q \in CoapReq, NEW code
  PROVE  Collected(q, code) \in Seq(Payload)
<1> DEFINE body == (IF code = "created" THEN <<>> ELSE buf) \o TextOf(q, code)
           n == IF Len(body) < MaxBody THEN Len(body) ELSE MaxBody
<1>1. body \in Seq(Payload)
  BY TextType, ConcatProperties DEF TypeInv
<1>2. Collected(q, code) = SubSeq(body, 1, n)
  BY DEF Collected
<1> HIDE DEF body
<1>3. Len(body) \in Nat /\ \A i \in 1 .. Len(body) : body[i] \in Payload
  BY <1>1, LenProperties
<1>4. n \in Nat /\ n <= Len(body)
  BY <1>3, ProxyAssumption
<1> HIDE DEF n
<1>5. SubSeq(body, 1, n) \in Seq(Payload)
  BY <1>1, <1>3, <1>4, SubSeqProperties
<1> QED BY <1>2, <1>5

(* One more block of a transfer that holds g_ctx: the body is the first    *)
(* blocks, in order, and there are no more if it is all of them.           *)
LEMMA FetchesNext ==
  ASSUME TypeInv, NEW r \in Reqs, coap[r] \in CoapReq,
         Plainly(r), coap[r].uri = UriOf[r], Fetching(r),
         Serves(coap[r]), ~WrongBlock(r, "content")
  PROVE  /\ bno = coap[r].num
         /\ Collected(coap[r], "content") = Part(UriOf[r], bno + 1)
         /\ MoreAfter(coap[r], "content") <=> bno + 1 < Blocks[UriOf[r]]
         /\ ~MoreAfter(coap[r], "content")
              => Collected(coap[r], "content") = Whole(UriOf[r])
<1> DEFINE u == UriOf[r]
           block == [uri |-> u, num |-> bno, accept |-> FALSE, whole |-> TRUE]
<1>1. u \in Uris /\ Blocks[u] \in Nat /\ Blocks[u] < MaxBlock /\ Blocks[u] < MaxBody
  BY ProxyAssumption
<1>2. coap[r].num \in Nat /\ coap[r].accept \in BOOLEAN /\ bno \in 0 .. MaxBlock
  BY ProxyAssumption DEF CoapReq, TypeInv
<1>p. Part(u, 0) = <<>>
  BY DEF Part
<1>3. bno = coap[r].num /\ buf = Part(u, bno)
  <2>1. Blocks[u] > 0 => bno = coap[r].num
    BY DEF WrongBlock, InBlocks
  <2>2. Blocks[u] = 0 => bno = coap[r].num
    BY DEF Fetching
  <2>3. bno = coap[r].num
    BY <1>1, <2>1, <2>2
  <2> QED BY <1>p, <2>3 DEF Fetching
<1>4. Blocks[u] = 0 => bno = 0 /\ ~more
  BY <1>1, <1>2, <1>3 DEF Fetching
<1>5. Blocks[u] > 0 => bno < Blocks[u]
  BY <1>1, <1>3 DEF Serves
<1>6. MoreAfter(coap[r], "content") <=> bno + 1 < Blocks[u]
  <2>1. CASE Blocks[u] = 0
    BY <1>4, <2>1 DEF MoreAfter, InBlocks
  <2>2. CASE Blocks[u] > 0
    BY <1>3, <2>2 DEF MoreAfter, InBlocks
  <2> QED BY <1>1, <2>1, <2>2
<1>7. TextOf(coap[r], "content") = <<block>>
  <2>1. coap[r].accept = FALSE
    BY <1>2 DEF Fetching
  <2>2. (coap[r].uri \notin Binary) = TRUE
    BY DEF Plainly
  <2> QED BY <1>3, <2>1, <2>2 DEF TextOf
<1>8. buf \in Seq(Payload) /\ Len(buf) = bno /\ \A i \in 1 .. bno : buf[i] = Part(u, bno)[i]
  <2>1. DOMAIN buf = 1 .. bno
    BY <1>3 DEF Part
  <2>2. buf \in Seq(Payload)
    BY DEF TypeInv
  <2> QED BY <1>2, <1>3, <2>1, <2>2, LenProperties
<1> DEFINE body == buf \o <<block>>
<1>9. block \in Payload
  BY <1>1, <1>2 DEF Payload
<1> HIDE DEF block
<1>10. /\ <<block>> \in Seq(Payload) /\ Len(<<block>>) = 1 /\ <<block>>[1] = block
  BY <1>9
<1>11. /\ body \in Seq(Payload) /\ Len(body) = bno + 1
       /\ \A i \in 1 .. bno + 1 :
            body[i] = IF i <= bno THEN buf[i] ELSE <<block>>[i - bno]
  BY <1>8, <1>10, ConcatProperties
<1> HIDE DEF body
<1>12. \A i \in 1 .. bno + 1 : body[i] = Part(u, bno + 1)[i]
  <2> SUFFICES ASSUME NEW i \in 1 .. bno + 1 PROVE body[i] = Part(u, bno + 1)[i]
    OBVIOUS
  <2>1. CASE i <= bno
    <3>1. i \in 1 .. bno
      BY <1>2, <2>1
    <3>2. Part(u, bno + 1)[i] = Part(u, bno)[i]
      BY <1>2, <3>1 DEF Part
    <3> QED BY <1>8, <1>11, <2>1, <3>1, <3>2
  <2>2. CASE ~(i <= bno)
    <3>1. i = bno + 1 /\ i - bno = 1 /\ i - 1 = bno
      BY <1>2, <2>2
    <3>2. Part(u, bno + 1)[i] = block
      BY <1>2, <3>1 DEF Part, block
    <3> QED BY <1>10, <1>11, <2>2, <3>1, <3>2
  <2> QED BY <2>1, <2>2
<1>13. body = Part(u, bno + 1)
  <2>1. DOMAIN body = 1 .. bno + 1 /\ body = [i \in 1 .. bno + 1 |-> body[i]]
    BY <1>11, LenProperties, SeqDef
  <2> QED BY <1>12, <2>1 DEF Part
<1>14. Collected(coap[r], "content") = body
  <2>1. Collected(coap[r], "content")
          = SubSeq(body, 1, IF Len(body) < MaxBody THEN Len(body) ELSE MaxBody)
    BY <1>7 DEF Collected, body
  <2>2. bno + 1 <= MaxBody
    BY <1>1, <1>2, <1>4, <1>5, ProxyAssumption
  <2>3. (IF Len(body) < MaxBody THEN Len(body) ELSE MaxBody) = Len(body)
    BY <1>2, <1>11, <2>2, ProxyAssumption
  <2>4. SubSeq(body, 1, Len(body)) = body
    BY <1>11, SubSeqFull
  <2> QED BY <2>1, <2>3, <2>4
<1>15. ASSUME ~MoreAfter(coap[r], "content")
       PROVE  Part(u, bno + 1) = Whole(u)
  <2>1. bno + 1 = IF Blocks[u] = 0 THEN 1 ELSE Blocks[u]
    BY <1>1, <1>2, <1>4, <1>5, <1>6, <1>15
  <2> QED BY <2>1 DEF Part, Whole
<1> QED BY <1>3, <1>6, <1>13, <1>14, <1>15

-----------------------------------------------------------------------------
(* The steps *)

(* What holds of the replies once a callback has ended with one. *)
Ended ==
  /\ http' \in [Reqs -> {"new", "open", "dropped", "done"}]
  /\ replies' \in [Reqs -> Seq(Rep)]
  /\ hdrs' \in [Reqs -> SUBSET Uris]
  /\ coap' \in [Reqs -> CoapReq \cup {NoReq}]
  /\ \A q \in Reqs : coap'[q] # NoReq <=> http'[q] = "open"
  /\ RepliedOnce'
  /\ OwnInv'

(* A callback of r that ends with a reply. *)
LEMMA Ends ==
  ASSUME ProxyInv, NEW r \in Reqs, Called(r), NEW code, CopyHeaders(r, code),
         NEW sent \in Seq(Rep), Reply(r, sent), alone' = alone,
         clean' \in [Reqs -> BOOLEAN], clean'[r] => clean[r],
         \A q \in Reqs \ {r} : clean'[q] = clean[q],
         \A i \in DOMAIN sent :
           alone[r] /\ Plainly(r) /\ clean'[r] /\ sent[i].status = 200
             => sent[i].body = Whole(UriOf[r]),
         Len(sent) = 1 \/ \E i \in DOMAIN sent : sent[i].status = 201
  PROVE  Ended
<1>t. TypeInv /\ RepliedOnce /\ OwnInv
  BY DEF ProxyInv
<1>1. http[r] = "open" /\ coap[r] \in CoapReq
  BY <1>t DEF TypeInv, Called
<1>2. /\ http' \in [Reqs -> {"new", "open", "dropped", "done"}]
      /\ http'[r] = "done" /\ \A q \in Reqs \ {r} : http'[q] = http[q]
  BY <1>t DEF TypeInv, Reply
<1>3. /\ coap' \in [Reqs -> CoapReq \cup {NoReq}]
      /\ coap'[r] = NoReq /\ \A q \in Reqs \ {r} : coap'[q] = coap[q]
  BY <1>t DEF TypeInv, Reply
<1>4. \A q \in Reqs : coap'[q] # NoReq <=> http'[q] = "open"
  <2> SUFFICES ASSUME NEW q \in Reqs
               PROVE  coap'[q] # NoReq <=> http'[q] = "open"
    OBVIOUS
  <2>1. CASE q = r
    BY <1>2, <1>3, <2>1
  <2>2. CASE q # r
    <3>1. coap'[q] = coap[q] /\ http'[q] = http[q]
      BY <1>2, <1>3, <2>2
    <3> QED BY <1>t, <3>1 DEF TypeInv
  <2> QED BY <2>1, <2>2
<1>5. /\ hdrs' \in [Reqs -> SUBSET Uris]
      /\ \A q \in Reqs \ {r} : hdrs'[q] = hdrs[q]
      /\ cli \in {r, NoReq} => hdrs'[r] \subseteq hdrs[r] \cup {coap[r].uri}
  BY <1>t, CopiedHeaders
<1>6. GrowsBy(r, sent)
  <2>1. replies' = [replies EXCEPT ![r] = @ \o sent]
    BY DEF Reply
  <2> QED BY <1>t, <2>1, Grows
<1>7. RepliedOnce'
  <2> SUFFICES ASSUME NEW q \in Reqs,
                      \A i \in DOMAIN replies'[q] : replies'[q][i].status # 201
               PROVE  Len(replies'[q]) = IF http'[q] = "done" THEN 1 ELSE 0
    BY DEF RepliedOnce
  <2>1. CASE q # r
    <3>1. replies'[q] = replies[q] /\ http'[q] = http[q]
      BY <1>2, <1>6, <2>1 DEF GrowsBy
    <3> QED BY <1>t, <3>1 DEF RepliedOnce
  <2>2. CASE q = r
    <3>1. \A i \in DOMAIN replies[r] : replies[r][i].status # 201
      BY <1>6, <2>2 DEF GrowsBy
    <3>2. Len(replies[r]) = 0
      BY <1>t, <1>1, <3>1 DEF RepliedOnce
    <3>3. Len(sent) = 1
      BY <1>6, <2>2 DEF GrowsBy
    <3> QED BY <1>2, <1>6, <2>2, <3>2, <3>3 DEF GrowsBy
  <2> QED BY <2>1, <2>2
<1>8. OwnInv'
  <2> SUFFICES ASSUME NEW q \in Reqs, alone[q]
               PROVE  /\ hdrs'[q] \subseteq {UriOf[q]}
                      /\ Plainly(q)' => \A i \in DOMAIN replies'[q] :
                            replies'[q][i].status = 200
                              => replies'[q][i].body = Whole(UriOf[q])
                      /\ http'[q] # "open"
    BY DEF OwnInv
  <2>1. CASE q # r
    <3>1. http[q] # "open"
      BY <1>t, <1>1, <2>1 DEF OwnInv, Holds
    <3>2. Plainly(q)' => Plainly(q)
      BY <2>1 DEF Plainly, ForwardsAccept
    <3>3. hdrs'[q] = hdrs[q] /\ replies'[q] = replies[q] /\ http'[q] = http[q]
      BY <1>2, <1>5, <1>6, <2>1 DEF GrowsBy
    <3> QED BY <1>t, <3>1, <3>2, <3>3 DEF OwnInv
  <2>2. CASE q = r
    <3>1. Plainly(r)' => Plainly(r) /\ clean'[r]
      BY DEF Plainly, ForwardsAccept
    <3>2. Holds(r) /\ hdrs[r] \subseteq {UriOf[r]}
      BY <1>t, <1>1, <2>2 DEF OwnInv
    <3>3. hdrs'[r] \subseteq {UriOf[r]}
      BY <1>5, <3>2 DEF Holds
    <3>4. ASSUME Plainly(r)', NEW i \in DOMAIN replies'[r],
                 replies'[r][i].status = 200
          PROVE  replies'[r][i].body = Whole(UriOf[r])
      <4>1. CASE i \in DOMAIN replies[r] /\ replies'[r][i] = replies[r][i]
        BY <1>t, <2>2, <3>1, <3>4, <4>1 DEF OwnInv
      <4>2. CASE \E j \in DOMAIN sent : replies'[r][i] = sent[j]
        BY <2>2, <3>1, <3>4, <4>2
      <4> QED BY <1>6, <4>1, <4>2 DEF GrowsBy
    <3> QED BY <1>2, <2>2, <3>3, <3>4
  <2> QED BY <2>1, <2>2
<1> QED BY <1>2, <1>3, <1>4, <1>5, <1>6, <1>7, <1>8 DEF Ended, GrowsBy

LEMMA HttpStep ==
  ASSUME ProxyInv, NEW r \in Reqs, HttpDropped(r) \/ HttpRequest(r)
  PROVE  ProxyInv'
<1>t. TypeInv /\ RepliedOnce /\ OwnInv
  BY DEF ProxyInv
<1>1. http[r] = "new" /\ bno' = 0 /\ more' = FALSE /\ buf' = <<>>
  BY DEF HttpDropped, HttpRequest, Arrives, Round
<1>2. 0 \in 0 .. MaxBlock /\ <<>> \in Seq(Payload)
  BY ProxyAssumption
<1>3. \A u : Part(u, 0) = <<>>
  BY DEF Part
<1>4. CASE HttpDropped(r)
  <2>1. /\ http' \in [Reqs -> {"new", "open", "dropped", "done"}]
        /\ http'[r] = "dropped" /\ \A q \in Reqs \ {r} : http'[q] = http[q]
    BY <1>t, <1>4 DEF HttpDropped, TypeInv
  <2>2. /\ curi' = NoReq /\ cli' \in {cli, NoReq}
        /\ UNCHANGED <<proc, replies, hdrs, coap, alone, clean>>
    BY <1>4 DEF HttpDropped
  <2>3. \A q \in Reqs : http'[q] = "open" <=> http[q] = "open"
    BY <1>1, <2>1
  <2>4. TypeInv'
    BY <1>t, <1>1, <1>2, <2>1, <2>2, <2>3 DEF TypeInv
  <2>5. RepliedOnce'
    BY <1>t, <1>1, <2>1, <2>2 DEF RepliedOnce
  <2>6. OwnInv'
    <3> SUFFICES ASSUME NEW q \in Reqs, alone[q]
                 PROVE  /\ hdrs[q] \subseteq {UriOf[q]}
                        /\ Plainly(q)' => \A i \in DOMAIN replies[q] :
                              replies[q][i].status = 200
                                => replies[q][i].body = Whole(UriOf[q])
                        /\ http'[q] = "open" => Holds(q)'
      BY <2>2 DEF OwnInv
    <3>1. Plainly(q)' <=> Plainly(q)
      BY <2>2 DEF Plainly, ForwardsAccept
    <3>2. ASSUME http'[q] = "open" PROVE Holds(q)'
      <4>1. Holds(q)
        BY <1>t, <2>3, <3>2 DEF OwnInv
      <4>2. Plainly(q) => Fetching(q)'
        BY <1>1, <2>2, <4>1 DEF Holds, Fetching
      <4> QED BY <2>2, <2>3, <3>1, <4>1, <4>2 DEF Holds
    <3> QED BY <1>t, <3>1, <3>2 DEF OwnInv
  <2> QED BY <2>4, <2>5, <2>6 DEF ProxyInv
<1>5. CASE HttpRequest(r)
  <2> DEFINE u == UriOf[r]
             req == [uri |-> u, num |-> 0, accept |-> ForwardsAccept(r),
                     get |-> Method[r] = "get"]
  <2>1. /\ http' \in [Reqs -> {"new", "open", "dropped", "done"}]
        /\ http'[r] = "open" /\ \A q \in Reqs \ {r} : http'[q] = http[q]
    BY <1>t, <1>5 DEF HttpRequest, TypeInv
  <2>2. /\ curi' = u /\ cli' = r /\ UNCHANGED <<proc, replies, hdrs, clean>>
        /\ coap' = [coap EXCEPT ![r] = req]
    BY <1>5 DEF HttpRequest
  <2>3. ForwardsAccept(r) \in BOOLEAN /\ (Method[r] = "get") \in BOOLEAN /\ u \in Uris
    BY ProxyAssumption DEF ForwardsAccept
  <2>4. req \in CoapReq /\ req.uri = u /\ req.num = 0 /\ req.accept = ForwardsAccept(r)
    BY <1>2, <2>3 DEF CoapReq
  <2> HIDE DEF req
  <2>5. /\ coap' \in [Reqs -> CoapReq \cup {NoReq}] /\ coap'[r] = req
        /\ \A q \in Reqs \ {r} : coap'[q] = coap[q]
    BY <1>t, <2>2, <2>4 DEF TypeInv
  <2>6. \A q \in Reqs : coap'[q] # NoReq <=> http'[q] = "open"
    <3> SUFFICES ASSUME NEW q \in Reqs
                 PROVE  coap'[q] # NoReq <=> http'[q] = "open"
      OBVIOUS
    <3>1. CASE q = r
      BY <2>1, <2>4, <2>5, <3>1, ProxyAssumption
    <3>2. CASE q # r
      <4>1. coap'[q] = coap[q] /\ http'[q] = http[q]
        BY <2>1, <2>5, <3>2
      <4> QED BY <1>t, <4>1 DEF TypeInv
    <3> QED BY <3>1, <3>2
  <2>7. /\ alone' \in [Reqs -> BOOLEAN]
        /\ \A q \in Reqs : alone'[q] =>
             alone[q] /\ (q = r \/ http[q] = "open" => \A p \in Reqs : http[p] # "open")
    BY <1>t, <1>5 DEF HttpRequest, TypeInv, Open
  <2>8. TypeInv'
    BY <1>t, <1>1, <1>2, <2>1, <2>2, <2>3, <2>5, <2>6, <2>7 DEF TypeInv
  <2>9. RepliedOnce'
    BY <1>t, <1>1, <2>1, <2>2 DEF RepliedOnce
  <2>10. OwnInv'
    <3> SUFFICES ASSUME NEW q \in Reqs, alone'[q]
                 PROVE  /\ hdrs[q] \subseteq {UriOf[q]}
                        /\ Plainly(q)' => \A i \in DOMAIN replies[q] :
                              replies[q][i].status = 200
                                => replies[q][i].body = Whole(UriOf[q])
                        /\ http'[q] = "open" => Holds(q)'
      BY <2>2 DEF OwnInv
    <3>1. Plainly(q)' <=> Plainly(q)
      BY <2>2 DEF Plainly, ForwardsAccept
    <3>2. ASSUME http'[q] = "open" PROVE q = r /\ \A p \in Reqs : http'[p] = "open" => p = r
      BY <2>1, <2>7, <3>2
    <3>3. Plainly(r) => Fetching(r)'
      BY <1>1, <1>3, <2>2, <2>4, <2>5 DEF Plainly, Fetching
    <3>4. http'[q] = "open" => Holds(q)'
      BY <2>2, <2>4, <2>5, <3>1, <3>2, <3>3 DEF Holds
    <3> QED BY <1>t, <2>7, <3>1, <3>4 DEF OwnInv
  <2> QED BY <2>8, <2>9, <2>10 DEF ProxyInv
<1> QED BY <1>4, <1>5

(* The codes that do not end the transfer in the switch. *)
LEMMA GoesOn ==
  ASSUME TypeInv, NEW r \in Reqs, NEW code, Goes(r, code)
  PROVE  /\ Called(r) /\ CopyHeaders(r, code) /\ coap[r] \in CoapReq
         /\ more' \in BOOLEAN /\ more' = MoreAfter(coap[r], code)
         /\ clean' \in [Reqs -> BOOLEAN]
         /\ clean'[r] => clean[r] /\ code \in {"content", "empty"}
         /\ \A q \in Reqs \ {r} : clean'[q] = clean[q]
         /\ code = "content" => Serves(coap[r])
<1>1. coap[r] \in CoapReq
  BY DEF TypeInv, Goes, Called
<1>2. MoreAfter(coap[r], code) \in BOOLEAN
  <2>1. more \in BOOLEAN
    BY DEF TypeInv
  <2>2. (coap[r].num + 1 < Blocks[coap[r].uri]) \in BOOLEAN
    OBVIOUS
  <2> QED BY <2>1, <2>2, Zenon DEF MoreAfter
<1>3. clean' \in [Reqs -> BOOLEAN]
  BY DEF Goes, TypeInv
<1> QED BY <1>1, <1>2, <1>3 DEF Goes, TypeInv

LEMMA NextBlockType ==
  ASSUME TypeInv
  PROVE  /\ NextBlock \in 0 .. MaxBlock
         /\ bno < MaxBlock => NextBlock = bno + 1
BY ProxyAssumption DEF NextBlock, TypeInv

(* What sent is if it ends in a reply with status and b, after a 2.01 or   *)
(* without one.                                                            *)
Closes(sent, code, status, b) ==
  /\ sent \in Seq(Rep)
  /\ Len(sent) = 1 \/ \E i \in DOMAIN sent : sent[i].status = 201
  /\ code # "created" => \A i \in DOMAIN sent :
                           sent[i].status = status /\ sent[i].body = b

LEMMA SentCloses ==
  ASSUME TypeInv, NEW code, NEW b \in Seq(Payload), NEW status \in Status
  PROVE  Closes(Early(code) \o Plain(status, b), code, status, b)
<1>1. CASE code = "created"
  <2> DEFINE sent == Early(code) \o Plain(status, b)
  <2>1. sent \in Seq(Rep) /\ 1 \in DOMAIN sent /\ sent[1].status = 201
    BY <1>1, EarlyReply
  <2> HIDE DEF sent
  <2>2. Closes(sent, code, status, b)
    BY <1>1, <2>1 DEF Closes
  <2> QED BY <2>2 DEF sent
<1>2. CASE code # "created"
  <2>1. Early(code) \o Plain(status, b) = Plain(status, b)
    BY <1>2, EarlyReply
  <2>2. /\ Plain(status, b) \in Seq(Rep) /\ Len(Plain(status, b)) = 1
        /\ DOMAIN Plain(status, b) = {1}
        /\ Plain(status, b)[1].status = status /\ Plain(status, b)[1].body = b
    BY OneReply
  <2> QED BY <2>1, <2>2 DEF Closes
<1> QED BY <1>1, <1>2

LEMMA ReplyStep ==
  ASSUME ProxyInv, NEW r \in Reqs, NEW code,
         \/ CoapFailed(r) \/ CoapFinal(r, code) \/ CoapRefused(r, code)
         \/ CoapLast(r, code) \/ CoapMoreFails(r, code)
  PROVE  ProxyInv'
<1>t. TypeInv /\ RepliedOnce /\ OwnInv
  BY DEF ProxyInv
<1> DEFINE none == <<>>
<1>1. none \in Seq(Payload) /\ 200 \in Status /\ 500 \in Status /\ 500 # 200
  BY DEF Status
<1> HIDE DEF none
<1>2. CASE CoapFailed(r)
  <2> DEFINE sent == Plain(500, none)
  <2>1. /\ sent \in Seq(Rep) /\ Len(sent) = 1
        /\ \A i \in DOMAIN sent : sent[i].status = 500
    <3>1. /\ sent \in Seq(Rep) /\ Len(sent) = 1
          /\ DOMAIN sent = {1} /\ sent[1].status = 500
      BY <1>1, OneReply
    <3> HIDE DEF sent
    <3> QED BY <3>1
  <2>2. /\ Called(r) /\ CopyHeaders(r, Failed) /\ Reply(r, sent)
        /\ UNCHANGED <<proc, ctxVars, alone, clean>>
    BY <1>2 DEF CoapFailed, none
  <2> HIDE DEF sent
  <2>3. clean' \in [Reqs -> BOOLEAN]
    BY <1>t, <2>2 DEF TypeInv
  <2>e. Ended
    BY <1>1, <2>1, <2>2, <2>3, Ends
  <2> QED BY <1>t, <1>1, <2>1, <2>2, <2>3, <2>e DEF ProxyInv, TypeInv, Ended, none, ctxVars
<1>3. CASE CoapFinal(r, code)
  <2>1. PICK status \in Mapped(code) : Reply(r, Plain(status, buf))
    BY <1>3 DEF CoapFinal
  <2>2. status \in Status /\ status # 200 /\ status # 201
    BY <2>1 DEF Mapped, Status
  <2> DEFINE sent == Plain(status, buf)
  <2>3. /\ sent \in Seq(Rep) /\ Len(sent) = 1
        /\ \A i \in DOMAIN sent : sent[i].status = status
    BY <1>t, <2>2, OneReply DEF TypeInv
  <2>4. /\ Called(r) /\ CopyHeaders(r, code) /\ Reply(r, sent) /\ buf' = <<>>
        /\ UNCHANGED <<proc, cli, curi, bno, more, alone, clean>>
    BY <1>3, <2>1 DEF CoapFinal
  <2> HIDE DEF sent
  <2>5. clean' \in [Reqs -> BOOLEAN]
    BY <1>t, <2>4 DEF TypeInv
  <2>e. Ended
    BY <1>1, <2>2, <2>3, <2>4, <2>5, Ends
  <2> QED BY <1>t, <1>1, <2>2, <2>3, <2>4, <2>5, <2>e DEF ProxyInv, TypeInv, Ended, none
<1>4. CASE CoapRefused(r, code)
  <2> DEFINE sent == Early(code) \o Plain(500, none)
  <2>1. /\ sent \in Seq(Rep)
        /\ Len(sent) = 1 \/ \E i \in DOMAIN sent : sent[i].status = 201
        /\ code # "created" => \A i \in DOMAIN sent : sent[i].status = 500
    <3>1. Closes(sent, code, 500, none)
      BY <1>t, <1>1, SentCloses
    <3> QED BY <3>1 DEF Closes
  <2>2. /\ Reply(r, sent) /\ Goes(r, code)
        /\ UNCHANGED <<proc, cli, curi, buf, bno, alone>>
    BY <1>4 DEF CoapRefused, none
  <2> HIDE DEF sent
  <2>g. /\ Called(r) /\ CopyHeaders(r, code) /\ more' \in BOOLEAN
        /\ clean' \in [Reqs -> BOOLEAN]
        /\ clean'[r] => clean[r] /\ code \in {"content", "empty"}
        /\ \A q \in Reqs \ {r} : clean'[q] = clean[q]
    BY <1>t, <2>2, GoesOn
  <2>e. Ended
    BY <1>1, <2>1, <2>2, <2>g, Ends
  <2> QED BY <1>t, <1>1, <2>1, <2>2, <2>g, <2>e DEF ProxyInv, TypeInv, Ended, none
<1>5. CASE CoapMoreFails(r, code)
  <2> DEFINE sent == Early(code) \o Plain(500, none)
  <2>1. /\ sent \in Seq(Rep)
        /\ Len(sent) = 1 \/ \E i \in DOMAIN sent : sent[i].status = 201
        /\ code # "created" => \A i \in DOMAIN sent : sent[i].status = 500
    <3>1. Closes(sent, code, 500, none)
      BY <1>t, <1>1, SentCloses
    <3> QED BY <3>1 DEF Closes
  <2>2. /\ Reply(r, sent) /\ Goes(r, code) /\ cli' = NoReq
        /\ buf' = Collected(coap[r], code) /\ bno' \in {bno, NextBlock}
        /\ UNCHANGED <<proc, curi, alone>>
    BY <1>5 DEF CoapMoreFails, none
  <2> HIDE DEF sent
  <2>3. buf' \in Seq(Payload) /\ bno' \in 0 .. MaxBlock
    BY <1>t, <2>2, GoesOn, CollectedType, NextBlockType DEF TypeInv
  <2>g. /\ Called(r) /\ CopyHeaders(r, code) /\ more' \in BOOLEAN
        /\ clean' \in [Reqs -> BOOLEAN]
        /\ clean'[r] => clean[r] /\ code \in {"content", "empty"}
        /\ \A q \in Reqs \ {r} : clean'[q] = clean[q]
    BY <1>t, <2>2, GoesOn
  <2>e. Ended
    BY <1>1, <2>1, <2>2, <2>3, <2>g, Ends
  <2> QED BY <1>t, <1>1, <2>1, <2>2, <2>3, <2>g, <2>e DEF ProxyInv, TypeInv, Ended, none
<1>6. CASE CoapLast(r, code)
  <2> DEFINE b == Collected(coap[r], code)
             sent == Early(code) \o Plain(200, b)
  <2>1. /\ Goes(r, code) /\ ~WrongBlock(r, code) /\ code # "empty" /\ ~more'
        /\ Reply(r, sent) /\ buf' = <<>>
        /\ UNCHANGED <<proc, cli, curi, bno, alone>>
    BY <1>6 DEF CoapLast
  <2>2. coap[r] \in CoapReq /\ b \in Seq(Payload)
    BY <1>t, <2>1, GoesOn, CollectedType
  <2>3. /\ sent \in Seq(Rep)
        /\ Len(sent) = 1 \/ \E i \in DOMAIN sent : sent[i].status = 201
        /\ code # "created" => \A i \in DOMAIN sent : sent[i].body = b
    <3>1. Closes(sent, code, 200, b)
      BY <1>t, <1>1, <2>2, SentCloses
    <3> QED BY <3>1 DEF Closes
  <2> HIDE DEF sent
  <2>4. ASSUME alone[r], Plainly(r), clean'[r]
        PROVE  code # "created" /\ b = Whole(UriOf[r])
    <3>1. code = "content" /\ Serves(coap[r]) /\ ~MoreAfter(coap[r], code)
      BY <1>t, <2>1, <2>4, GoesOn
    <3>2. http[r] = "open"
      BY <1>t, <2>2, ProxyAssumption DEF TypeInv
    <3>3. coap[r].uri = UriOf[r] /\ Fetching(r)
      BY <1>t, <2>4, <3>2 DEF OwnInv, Holds
    <3>4. Collected(coap[r], "content") = Whole(UriOf[r])
      BY <1>t, <2>1, <2>2, <2>4, <3>1, <3>3, FetchesNext
    <3> QED BY <3>1, <3>4
  <2> HIDE DEF b
  <2>g. /\ Called(r) /\ CopyHeaders(r, code) /\ more' \in BOOLEAN
        /\ clean' \in [Reqs -> BOOLEAN]
        /\ clean'[r] => clean[r] /\ code \in {"content", "empty"}
        /\ \A q \in Reqs \ {r} : clean'[q] = clean[q]
    BY <1>t, <2>1, GoesOn
  <2>e. Ended
    BY <1>1, <2>1, <2>3, <2>4, <2>g, Ends
  <2> QED BY <1>t, <1>1, <2>1, <2>3, <2>4, <2>g, <2>e DEF ProxyInv, TypeInv, Ended, none
<1> QED BY <1>2, <1>3, <1>4, <1>5, <1>6

LEMMA MoreStep ==
  ASSUME ProxyInv, NEW r \in Reqs, NEW code, CoapMore(r, code)
  PROVE  ProxyInv'
<1>t. TypeInv /\ RepliedOnce /\ OwnInv
  BY DEF ProxyInv
<1> DEFINE u == UriOf[r]
           req == [uri |-> curi, num |-> NextBlock, accept |-> FALSE, get |-> TRUE]
<1>1. /\ Goes(r, code) /\ ~WrongBlock(r, code) /\ code # "empty" /\ more'
      /\ curi # NoReq /\ buf' = Collected(coap[r], code)
      /\ bno' = NextBlock /\ cli' = r /\ coap' = [coap EXCEPT ![r] = req]
      /\ replies' = [replies EXCEPT ![r] = @ \o Early(code)]
      /\ UNCHANGED <<proc, http, curi, alone>>
  BY DEF CoapMore
<1>2. /\ Called(r) /\ CopyHeaders(r, code) /\ coap[r] \in CoapReq
      /\ more' \in BOOLEAN /\ more' = MoreAfter(coap[r], code)
      /\ clean' \in [Reqs -> BOOLEAN]
      /\ clean'[r] => clean[r] /\ code \in {"content", "empty"}
      /\ \A q \in Reqs \ {r} : clean'[q] = clean[q]
      /\ code = "content" => Serves(coap[r])
  BY <1>t, <1>1, GoesOn
<1>3. http[r] = "open"
  BY <1>t, <1>2 DEF TypeInv, Called
<1>4. NextBlock \in 0 .. MaxBlock /\ (bno < MaxBlock => NextBlock = bno + 1)
  BY <1>t, NextBlockType
<1>5. /\ req \in CoapReq /\ req.uri = curi /\ req.num = NextBlock
      /\ req.accept = FALSE
  BY <1>t, <1>1, <1>4 DEF TypeInv, CoapReq
<1> HIDE DEF req
<1>6. /\ coap' \in [Reqs -> CoapReq \cup {NoReq}] /\ coap'[r] = req
      /\ \A q \in Reqs \ {r} : coap'[q] = coap[q]
  BY <1>t, <1>1, <1>5 DEF TypeInv
<1>7. \A q \in Reqs : coap'[q] # NoReq <=> http'[q] = "open"
  <2> SUFFICES ASSUME NEW q \in Reqs PROVE coap'[q] # NoReq <=> http[q] = "open"
    BY <1>1
  <2>1. CASE q = r
    BY <1>3, <1>5, <1>6, <2>1, ProxyAssumption
  <2>2. CASE q # r
    <3>1. coap'[q] = coap[q]
      BY <1>6, <2>2
    <3> QED BY <1>t, <3>1 DEF TypeInv
  <2> QED BY <2>1, <2>2
<1>8. buf' \in Seq(Payload)
  BY <1>t, <1>1, <1>2, CollectedType
<1>9. /\ hdrs' \in [Reqs -> SUBSET Uris]
      /\ \A q \in Reqs \ {r} : hdrs'[q] = hdrs[q]
      /\ cli \in {r, NoReq} => hdrs'[r] \subseteq hdrs[r] \cup {coap[r].uri}
  BY <1>t, <1>2, CopiedHeaders
<1>10. /\ Early(code) \in Seq(Rep)
       /\ code # "created" => Early(code) = <<>>
       /\ code = "created" => Len(Early(code)) = 1 /\ Early(code)[1].status = 201
  BY <1>t, EarlyType
<1>11. GrowsBy(r, Early(code))
  BY <1>t, <1>1, <1>10, Grows
<1>12. TypeInv'
  BY <1>t, <1>1, <1>2, <1>4, <1>6, <1>7, <1>8, <1>9, <1>11 DEF TypeInv, GrowsBy
<1>13. RepliedOnce'
  <2> SUFFICES ASSUME NEW q \in Reqs,
                      \A i \in DOMAIN replies'[q] : replies'[q][i].status # 201
               PROVE  Len(replies'[q]) = IF http[q] = "done" THEN 1 ELSE 0
    BY <1>1 DEF RepliedOnce
  <2>1. CASE q # r
    <3>1. replies'[q] = replies[q]
      BY <1>11, <2>1 DEF GrowsBy
    <3> QED BY <1>t, <3>1 DEF RepliedOnce
  <2>2. CASE q = r
    <3>1. \A i \in DOMAIN replies[r] : replies[r][i].status # 201
      BY <1>11, <2>2 DEF GrowsBy
    <3>2. Len(replies[r]) = 0
      BY <1>t, <1>3, <3>1 DEF RepliedOnce
    <3>3. code # "created"
      <4>1. \A i \in DOMAIN Early(code) : Early(code)[i].status # 201
        BY <1>11, <2>2 DEF GrowsBy
      <4>2. DOMAIN Early(code) = 1 .. Len(Early(code))
        BY <1>10, LenProperties
      <4> QED BY <1>10, <4>1, <4>2
    <3>4. Len(Early(code)) = 0
      BY <1>10, <3>3
    <3> QED BY <1>3, <1>11, <2>2, <3>2, <3>4 DEF GrowsBy
  <2> QED BY <2>1, <2>2
<1>14. OwnInv'
  <2> SUFFICES ASSUME NEW q \in Reqs, alone[q]
               PROVE  /\ hdrs'[q] \subseteq {UriOf[q]}
                      /\ Plainly(q)' => \A i \in DOMAIN replies'[q] :
                            replies'[q][i].status = 200
                              => replies'[q][i].body = Whole(UriOf[q])
                      /\ http[q] = "open" => Holds(q)'
    BY <1>1 DEF OwnInv
  <2>1. CASE q # r
    <3>1. http[q] # "open"
      BY <1>t, <1>3, <2>1 DEF OwnInv, Holds
    <3>2. Plainly(q)' => Plainly(q)
      BY <1>2, <2>1 DEF Plainly, ForwardsAccept
    <3>3. hdrs'[q] = hdrs[q] /\ replies'[q] = replies[q]
      BY <1>9, <1>11, <2>1 DEF GrowsBy
    <3> QED BY <1>t, <3>1, <3>2, <3>3 DEF OwnInv
  <2>2. CASE q = r
    <3>1. Holds(r) /\ hdrs[r] \subseteq {u} /\ curi = u
      BY <1>t, <1>1, <1>3, <2>2 DEF OwnInv, Holds
    <3>2. hdrs'[r] \subseteq {u}
      BY <1>9, <3>1 DEF Holds
    <3>3. Plainly(r)' => Plainly(r) /\ clean'[r]
      BY <1>2 DEF Plainly, ForwardsAccept
    <3>4. ASSUME Plainly(r)' PROVE code = "content" /\ Early(code) = <<>>
      BY <1>1, <1>2, <1>10, <3>3, <3>4
    <3>5. ASSUME Plainly(r)', NEW i \in DOMAIN replies'[r]
          PROVE  i \in DOMAIN replies[r] /\ replies'[r][i] = replies[r][i]
      BY <1>11, <3>4, <3>5 DEF GrowsBy
    <3>6. ASSUME Plainly(r)' PROVE Fetching(r)'
      <4>1. Plainly(r) /\ Fetching(r) /\ coap[r].uri = u
        BY <3>1, <3>3, <3>6 DEF Holds
      <4>2. /\ buf' = Part(u, bno + 1) /\ bno + 1 < Blocks[u]
        BY <1>t, <1>1, <1>2, <3>4, <3>6, <4>1, FetchesNext
      <4>3. Blocks[u] \in Nat /\ Blocks[u] < MaxBlock /\ MaxBlock \in Nat /\ bno \in Nat
        BY <1>t, ProxyAssumption DEF TypeInv
      <4>4. NextBlock = bno + 1 /\ bno + 1 > 0 /\ Blocks[u] # 0
        BY <1>4, <4>2, <4>3
      <4>5. ~coap'[r].accept /\ coap'[r].num = bno'
        BY <1>1, <1>5, <1>6
      <4>6. curi' = u /\ buf' = Part(u, bno') /\ bno' > 0 /\ bno' < Blocks[u]
        BY <1>1, <3>1, <4>2, <4>4
      <4> QED BY <1>1, <4>4, <4>5, <4>6 DEF Fetching
    <3>7. Holds(r)'
      BY <1>1, <1>5, <1>6, <3>1, <3>6 DEF Holds
    <3> QED BY <1>t, <2>2, <3>2, <3>3, <3>5, <3>7 DEF OwnInv
  <2> QED BY <2>1, <2>2
<1> QED BY <1>12, <1>13, <1>14 DEF ProxyInv

LEMMA ProxyStep ==
  ASSUME ProxyInv, [Next]_vars
  PROVE  ProxyInv'
<1>1. ASSUME UNCHANGED <<http, replies, hdrs, coap, ctxVars, alone, clean>>,
             proc' \in {"up", "segv"}
      PROVE  ProxyInv'
  BY <1>1 DEF ProxyInv, TypeInv, RepliedOnce, OwnInv, Holds, Fetching, Plainly,
              ForwardsAccept, ctxVars
<1>2. CASE UNCHANGED vars
  <2>1. proc \in {"up", "segv"}
    BY DEF ProxyInv, TypeInv
  <2> QED BY <1>1, <1>2, <2>1 DEF vars
<1>3. ASSUME NEW r \in Reqs, CoapCrash(r) PROVE ProxyInv'
  BY <1>1, <1>3 DEF CoapCrash
<1> QED BY <1>2, <1>3, HttpStep, ReplyStep, MoreStep
        DEF Next, Callback, CoapResponse

LEMMA ProxyInvariant == Spec => []ProxyInv
<1>1. Init => ProxyInv
  <2> SUFFICES ASSUME Init PROVE ProxyInv
    OBVIOUS
  <2>1. <<>> \in Seq(Rep) /\ <<>> \in Seq(Payload) /\ 0 \in 0 .. MaxBlock
    BY ProxyAssumption
  <2>2. TypeInv
    BY <2>1 DEF Init, TypeInv
  <2>3. RepliedOnce
    BY DEF Init, RepliedOnce
  <2>4. OwnInv
    BY DEF Init, OwnInv
  <2> QED BY <2>2, <2>3, <2>4 DEF ProxyInv
<1>2. ProxyInv /\ [Next]_vars => ProxyInv'
  BY ProxyStep
<1> QED BY <1>1, <1>2, PTL DEF Spec

(* The state of the proxy is well formed, and a CoAP request is out for    *)
(* exactly those HTTP requests that are still to be answered, however many *)
(* overlap.                                                                *)
THEOREM ProxyTypeCorrect == Spec => []TypeOK
<1>1. ProxyInv => TypeOK
  <2> SUFFICES ASSUME TypeInv PROVE TypeOK
    BY DEF ProxyInv
  <2>1. \A r \in Reqs : \A i \in DOMAIN replies[r] : replies[r][i].status \in Status
    <3> SUFFICES ASSUME NEW r \in Reqs, NEW i \in DOMAIN replies[r]
                 PROVE  replies[r][i].status \in Status
      OBVIOUS
    <3>1. replies[r] \in Seq(Rep)
      BY DEF TypeInv
    <3>2. replies[r][i] \in Rep
      BY <3>1, LenProperties
    <3> QED BY <3>2 DEF Rep
  <2> QED BY <2>1 DEF TypeInv, TypeOK
<1> QED BY <1>1, ProxyInvariant, PTL

(* Whatever shares g_ctx with it, an HTTP request gets one reply when its  *)
(* transfer ends and none before, unless the mote has answered it 2.01.    *)
THEOREM ProxyRepliesOnce == Spec => []RepliedOnce
<1>1. ProxyInv => RepliedOnce
  BY DEF ProxyInv
<1> QED BY <1>1, ProxyInvariant, PTL

(* A request that no other has overlapped gets its own reply: the headers  *)
(* of a response to its URI, and for a GET all the blocks of that          *)
(* representation, each once and in order, for any number of blocks and    *)
(* whatever requests came before or were dropped meanwhile.                *)
THEOREM ProxyReplyOwn == Spec => []ReplyIsItsOwn
<1>1. ProxyInv => ReplyIsItsOwn
  <2> SUFFICES ASSUME OwnInv, NEW r \in Reqs, alone[r]
               PROVE  /\ hdrs[r] \subseteq {UriOf[r]}
                      /\ Succeeded(r) /\ Plainly(r) => Body(r) = Whole(UriOf[r])
    BY DEF ProxyInv, ReplyIsItsOwn, Plainly
  <2>1. hdrs[r] \subseteq {UriOf[r]}
    BY DEF OwnInv
  <2>2. ASSUME Succeeded(r), Plainly(r) PROVE Body(r) = Whole(UriOf[r])
    <3> DEFINE i == CHOOSE i \in DOMAIN replies[r] : replies[r][i].status = 200
    <3>1. i \in DOMAIN replies[r] /\ replies[r][i].status = 200
      BY <2>2 DEF Succeeded
    <3>2. Body(r) = replies[r][i].body
      BY DEF Body
    <3> HIDE DEF i
    <3> QED BY <2>2, <3>1, <3>2 DEF OwnInv
  <2> QED BY <2>1, <2>2
<1> QED BY <1>1, ProxyInvariant, PTL
=============================================================================
