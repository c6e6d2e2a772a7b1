------------------------ MODULE EvcoapResourceProofs ------------------------
(***************************************************************************)
(* Proofs about EvcoapResource, for any finite set of URIs, any media      *)
(* types, ETags, sizes, attributes and queries, and any number of          *)
(* representations.                                                        *)
(***************************************************************************)
EXTENDS EvcoapResource, SequenceTheorems, FiniteSetTheorems,
        WellFoundedInduction, TLAPS

-----------------------------------------------------------------------------
(* Searches and removals *)

(* A search that finds something finds a first thing. *)
LEMMA LeastIs ==
  ASSUME NEW T, T \subseteq Nat, T # {}
  PROVE  Min(T) \in T
<1> DEFINE Less == OpToRel(<, Nat)
<1>1. PICK x \in T : \A y \in T : <<y, x>> \notin Less
  <2>1. IsWellFoundedOn(Less, Nat)
    BY NatLessThanWellFounded
  <2> HIDE DEF Less
  <2> QED BY <2>1, WFMin
<1>2. \A y \in T : ~(y < x)
  BY <1>1 DEF OpToRel
<1>3. \A y \in T : x <= y
  BY <1>2
<1> QED BY <1>3 DEF Min

(* What the list of callbacks has for a URI. *)
CallbackIn(list, u) == SelectInSeq(list, LAMBDA v : Fold[u] = Fold[v])

LEMMA CallbackFound ==
  ASSUME NEW list \in Seq(Uris), NEW u
  PROVE  /\ CallbackIn(list, u) # 0 =>
              /\ CallbackIn(list, u) \in DOMAIN list
              /\ Fold[u] = Fold[list[CallbackIn(list, u)]]
         /\ CallbackIn(list, u) = 0 =>
              \A i \in DOMAIN list : Fold[u] # Fold[list[i]]
<1> DEFINE I == {i \in 1 .. Len(list) : Fold[u] = Fold[list[i]]}
<1>1. CallbackIn(list, u) = IF I # {} THEN Min(I) ELSE 0
  BY DEF CallbackIn, SelectInSeq
<1>2. Len(list) \in Nat /\ DOMAIN list = 1 .. Len(list)
  BY LenProperties
<1>3. I \subseteq Nat /\ 0 \notin I
  BY <1>2
<1>4. I # {} => Min(I) \in I
  BY <1>3, LeastIs
<1> QED BY <1>1, <1>2, <1>3, <1>4

(* What a resource has for a set of media types and an ETag. *)
Suits(rep, mta, etag) ==
  MtMatches(rep.mt, mta) /\ (etag = NoEtag \/ rep.etag = etag)

LEMMA RepFound ==
  ASSUME NEW res, NEW S, res # NoRes => res.reps \in Seq(S),
         NEW mta, NEW etag
  PROVE  /\ SuitableRep(res, mta, etag) # 0 =>
              /\ res # NoRes
              /\ SuitableRep(res, mta, etag) \in DOMAIN res.reps
              /\ Suits(res.reps[SuitableRep(res, mta, etag)], mta, etag)
         /\ res # NoRes /\ SuitableRep(res, mta, etag) = 0 =>
              \A i \in DOMAIN res.reps : ~ Suits(res.reps[i], mta, etag)
<1>1. CASE res = NoRes
  BY <1>1 DEF SuitableRep
<1>2. CASE res # NoRes
  <2> DEFINE I == {i \in 1 .. Len(res.reps) : Suits(res.reps[i], mta, etag)}
  <2>1. SuitableRep(res, mta, etag) = IF I # {} THEN Min(I) ELSE 0
    BY <1>2 DEF SuitableRep, SelectInSeq, Suits
  <2>2. /\ Len(res.reps) \in Nat
        /\ DOMAIN res.reps = 1 .. Len(res.reps)
    BY <1>2, LenProperties
  <2>3. I \subseteq Nat /\ 0 \notin I
    BY <2>2
  <2>4. I # {} => Min(I) \in I
    BY <2>3, LeastIs
  <2> QED BY <1>2, <2>1, <2>2, <2>3, <2>4
<1> QED BY <1>1, <1>2

(* TAILQ_REMOVE takes out one entry and keeps the order of the others. *)
LEMMA Removed ==
  ASSUME NEW S, NEW s \in Seq(S), NEW i \in DOMAIN s
  PROVE  /\ RemoveAt(s, i) \in Seq(S)
         /\ Len(s) \in Nat \ {0}
         /\ DOMAIN s = 1 .. Len(s)
         /\ Len(RemoveAt(s, i)) = Len(s) - 1
         /\ DOMAIN RemoveAt(s, i) = 1 .. Len(s) - 1
         /\ \A j \in 1 .. Len(s) - 1 :
              RemoveAt(s, i)[j] = IF j < i THEN s[j] ELSE s[j + 1]
<1> DEFINE front == SubSeq(s, 1, i - 1)
           rear == SubSeq(s, i + 1, Len(s))
<1>1. /\ Len(s) \in Nat /\ DOMAIN s = 1 .. Len(s)
      /\ i \in 1 .. Len(s)
      /\ \A j \in 1 .. Len(s) : s[j] \in S
  BY LenProperties, ElementOfSeq
<1>2. /\ front \in Seq(S) /\ Len(front) = i - 1
      /\ \A j \in 1 .. i - 1 : front[j] = s[j]
  <2>1. \A j \in 1 .. i - 1 : s[j] \in S
    BY <1>1
  <2> QED BY <1>1, <2>1, SubSeqProperties
<1>3. /\ rear \in Seq(S) /\ Len(rear) = Len(s) - i
      /\ \A j \in 1 .. Len(s) - i : rear[j] = s[i + j]
  <2>1. \A j \in i + 1 .. Len(s) : s[j] \in S
    BY <1>1
  <2>2. i + 1 \in Int /\ Len(s) \in Int
    BY <1>1
  <2>3. /\ rear \in Seq(S)
        /\ Len(rear) = IF i + 1 <= Len(s) THEN Len(s) - (i + 1) + 1 ELSE 0
        /\ \A j \in 1 .. Len(s) - (i + 1) + 1 : rear[j] = s[i + 1 + j - 1]
    BY <2>1, <2>2, SubSeqProperties
  <2> HIDE DEF rear
  <2>4. Len(s) - (i + 1) + 1 = Len(s) - i
    BY <1>1
  <2>5. Len(rear) = Len(s) - i
    BY <1>1, <2>3
  <2>6. ASSUME NEW j \in 1 .. Len(s) - i
        PROVE  rear[j] = s[i + j]
    <3>1. i + 1 + j - 1 = i + j
      BY <1>1
    <3> QED BY <2>3, <2>4, <3>1
  <2> QED BY <2>3, <2>5, <2>6
<1>4. RemoveAt(s, i) = front \o rear
  BY DEF RemoveAt
<1> HIDE DEF front, rear
<1>5. /\ front \o rear \in Seq(S)
      /\ Len(front \o rear) = Len(s) - 1
      /\ \A j \in 1 .. Len(s) - 1 :
           (front \o rear)[j] = IF j <= i - 1 THEN front[j]
                                ELSE rear[j - (i - 1)]
  <2>1. Len(front) + Len(rear) = Len(s) - 1
    BY <1>1, <1>2, <1>3
  <2>2. /\ front \o rear \in Seq(S)
        /\ Len(front \o rear) = Len(front) + Len(rear)
        /\ \A j \in 1 .. Len(front) + Len(rear) :
             (front \o rear)[j] = IF j <= Len(front) THEN front[j]
                                  ELSE rear[j - Len(front)]
    BY <1>2, <1>3, ConcatProperties, Zenon
  <2> QED BY <1>2, <2>1, <2>2
<1>6. \A j \in 1 .. Len(s) - 1 :
        (front \o rear)[j] = IF j < i THEN s[j] ELSE s[j + 1]
  <2>1. SUFFICES ASSUME NEW j \in 1 .. Len(s) - 1
                 PROVE  (front \o rear)[j] = IF j < i THEN s[j] ELSE s[j + 1]
    OBVIOUS
  <2>2. CASE j < i
    <3>1. j \in 1 .. i - 1 /\ j <= i - 1
      BY <1>1, <2>2
    <3> QED BY <1>2, <1>5, <2>2, <3>1
  <2>3. CASE ~(j < i)
    <3>1. /\ j - (i - 1) \in 1 .. Len(s) - i
          /\ i + (j - (i - 1)) = j + 1
          /\ ~(j <= i - 1)
      BY <1>1, <2>3
    <3>2. rear[j - (i - 1)] = s[j + 1]
      BY <1>3, <3>1
    <3> QED BY <1>5, <2>3, <3>1, <3>2
  <2> QED BY <2>2, <2>3
<1>7. DOMAIN (front \o rear) = 1 .. Len(s) - 1
  BY <1>5, LenProperties
<1>8. Len(s) \in Nat \ {0}
  BY <1>1
<1> QED BY <1>1, <1>4, <1>5, <1>6, <1>7, <1>8, Zenon

(* Every other entry is still there, before or after its old place. *)
LEMMA StillThere ==
  ASSUME NEW S, NEW s \in Seq(S), NEW i \in DOMAIN s, NEW k \in DOMAIN s,
         k # i
  PROVE  \E j \in DOMAIN RemoveAt(s, i) : RemoveAt(s, i)[j] = s[k]
<1>1. k \in 1 .. Len(s) /\ i \in 1 .. Len(s) /\ Len(s) \in Nat
  BY Removed
<1>2. CASE k < i
  <2>1. k \in 1 .. Len(s) - 1
    BY <1>1, <1>2
  <2> QED BY <1>2, <2>1, Removed
<1>3. CASE k > i
  <2>1. k - 1 \in 1 .. Len(s) - 1 /\ ~(k - 1 < i) /\ (k - 1) + 1 = k
    BY <1>1, <1>3
  <2>2. RemoveAt(s, i)[k - 1] = s[k]
    BY <2>1, Removed
  <2> QED BY <2>1, <2>2, Removed
<1> QED BY <1>1, <1>2, <1>3

(* Nothing else is there. *)
LEMMA WasThere ==
  ASSUME NEW S, NEW s \in Seq(S), NEW i \in DOMAIN s,
         NEW j \in DOMAIN RemoveAt(s, i)
  PROVE  \E k \in DOMAIN s : /\ k = IF j < i THEN j ELSE j + 1
                             /\ k # i
                             /\ RemoveAt(s, i)[j] = s[k]
<1>1. /\ j \in 1 .. Len(s) - 1 /\ Len(s) \in Nat /\ i \in 1 .. Len(s)
      /\ DOMAIN s = 1 .. Len(s)
  BY Removed
<1>2. RemoveAt(s, i)[j] = IF j < i THEN s[j] ELSE s[j + 1]
  BY <1>1, Removed
<1>3. /\ j < i => j \in DOMAIN s /\ j # i
      /\ ~(j < i) => j + 1 \in DOMAIN s /\ j + 1 # i
  BY <1>1
<1> QED BY <1>2, <1>3

-----------------------------------------------------------------------------
(* The invariant *)

(* Of URIs that differ in case only, one has a callback: ec_register_cb    *)
(* looks for one before it adds another.  TypeOK alone would let a second  *)
(* one take over when the first is unregistered.                           *)
OnePerName(list) ==
  \A i, j \in DOMAIN list : Fold[list[i]] = Fold[list[j]] => i = j

ResourceInv == TypeOK /\ OnePerName(cbs)

(* What may be put in the place of a resource. *)
ResourceOf(u) == {r \in Res : Len(r.reps) <= MaxReps[u]} \cup {NoRes}

LEMMA FsTyped ==
  ASSUME TypeOK, NEW u \in Uris
  PROVE  /\ fs[u] \in ResourceOf(u)
         /\ fs[u] # NoRes => fs[u] \in Res /\ fs[u].reps \in Seq(Rep)
BY DEF TypeOK, ResourceOf, Res

LEMMA PutKeepsType ==
  ASSUME TypeOK, NEW u \in Uris, NEW r \in ResourceOf(u),
         fs' = [fs EXCEPT ![u] = r], UNCHANGED <<cbs, fb>>
  PROVE  TypeOK'
<1>1. r \in Res \cup {NoRes} /\ (r # NoRes => Len(r.reps) <= MaxReps[u])
  BY DEF ResourceOf
<1>2. fs' \in [Uris -> Res \cup {NoRes}]
  BY <1>1 DEF TypeOK
<1>3. ASSUME NEW v \in Uris, fs'[v] # NoRes
      PROVE  Len(fs'[v].reps) <= MaxReps[v]
  BY <1>1, <1>3 DEF TypeOK
<1> QED BY <1>2, <1>3 DEF TypeOK

(* Representations that fit are put in the place of others. *)
LEMMA SetRepsKeepsType ==
  ASSUME TypeOK, NEW u \in Uris, fs[u] # NoRes, NEW reps \in Seq(Rep),
         Len(reps) <= MaxReps[u], SetReps(u, reps)
  PROVE  TypeOK' /\ fs'[u] # NoRes /\ fs'[u].reps = reps
<1> DEFINE r == [fs[u] EXCEPT !.reps = reps]
<1>1. fs[u] \in [attrs : Attr, reps : Seq(Rep)]
  BY FsTyped DEF Res
<1>2. r \in Res /\ r.reps = reps
  BY <1>1 DEF Res
<1>3. r \in ResourceOf(u) /\ r # NoRes
  BY <1>2, ResourceAssumption DEF ResourceOf
<1>4. fs' = [fs EXCEPT ![u] = r] /\ UNCHANGED <<cbs, fb>>
  BY DEF SetReps
<1> HIDE DEF r
<1>5. fs'[u] = r
  BY <1>4 DEF TypeOK
<1> QED BY <1>2, <1>3, <1>4, <1>5, PutKeepsType

(* The representation that ec_resource_update_rep removes, and what is     *)
(* left.                                                                   *)
Updated(u, mt, e) ==
  \E k \in DOMAIN fs[u].reps, new \in Rep :
    /\ fs[u] # NoRes
    /\ Suits(fs[u].reps[k], IF mt = AnyType THEN {} ELSE {mt}, e)
    /\ new.mt = mt
    /\ fs'[u].reps = RemoveAt(Append(fs[u].reps, new), k)
    /\ fs'[u] # NoRes

LEMMA UpdateEffect ==
  ASSUME TypeOK, NEW u \in Uris, NEW mt \in Types, NEW e, NEW sz \in Sizes,
         UpdateRep(u, mt, e, sz)
  PROVE  TypeOK' /\ Updated(u, mt, e)
<1> DEFINE k == ResourceGetRep(fs[u], mt, e)
           reps == fs[u].reps
<1>1. k # 0
  BY DEF UpdateRep
<1>2. fs[u] # NoRes => reps \in Seq(Rep)
  BY FsTyped
<1>3. /\ fs[u] # NoRes
      /\ k \in DOMAIN reps
      /\ Suits(reps[k], IF mt = AnyType THEN {} ELSE {mt}, e)
  BY <1>1, <1>2, RepFound DEF ResourceGetRep
<1>4. PICK et \in Etags :
        SetReps(u, RemoveAt(Append(reps, [mt |-> mt, etag |-> et, sz |-> sz]),
                            k))
  BY DEF UpdateRep
<1> DEFINE new == [mt |-> mt, etag |-> et, sz |-> sz]
<1>5. new \in Rep /\ new.mt = mt
  BY DEF Rep
<1>6. SetReps(u, RemoveAt(Append(reps, new), k))
  BY <1>4
<1> HIDE DEF k, new
<1>7. /\ Append(reps, new) \in Seq(Rep)
      /\ Len(Append(reps, new)) = Len(reps) + 1
  BY <1>2, <1>3, <1>5, AppendProperties
<1>8. /\ Len(reps) \in Nat
      /\ k \in DOMAIN Append(reps, new)
  BY <1>2, <1>3, <1>7, LenProperties
<1>9. /\ RemoveAt(Append(reps, new), k) \in Seq(Rep)
      /\ Len(RemoveAt(Append(reps, new), k)) = Len(reps)
  <2> DEFINE all == Append(reps, new)
  <2> HIDE DEF all
  <2>1. all \in Seq(Rep) /\ Len(all) = Len(reps) + 1 /\ k \in DOMAIN all
    BY <1>7, <1>8 DEF all
  <2>2. RemoveAt(all, k) \in Seq(Rep) /\ Len(RemoveAt(all, k)) = Len(all) - 1
    BY <2>1, Removed
  <2>3. Len(all) - 1 = Len(reps)
    BY <1>8, <2>1
  <2> QED BY <2>2, <2>3 DEF all
<1>10. Len(reps) <= MaxReps[u]
  BY <1>3, FsTyped DEF TypeOK
<1>11. /\ TypeOK' /\ fs'[u] # NoRes
       /\ fs'[u].reps = RemoveAt(Append(reps, new), k)
  BY <1>3, <1>6, <1>9, <1>10, SetRepsKeepsType
<1> QED BY <1>3, <1>5, <1>11 DEF Updated

LEMMA RegisterKeeps ==
  ASSUME ResourceInv, NEW u \in Uris, Register(u)
  PROVE  ResourceInv'
<1>1. cbs \in Seq(Uris) /\ cbs' = Append(cbs, u) /\ UNCHANGED <<fs, fb>>
  BY DEF ResourceInv, TypeOK, Register
<1>2. /\ Len(cbs) \in Nat /\ DOMAIN cbs = 1 .. Len(cbs)
      /\ cbs' \in Seq(Uris)
      /\ DOMAIN cbs' = 1 .. Len(cbs) + 1
      /\ \A i \in 1 .. Len(cbs) : cbs'[i] = cbs[i]
      /\ cbs'[Len(cbs) + 1] = u
  BY <1>1, AppendProperties, LenProperties
<1>3. \A i \in DOMAIN cbs : Fold[u] # Fold[cbs[i]]
  <2>1. CallbackIn(cbs, u) = 0
    BY DEF Register, CallbackFor, CallbackIn
  <2> QED BY <1>1, <2>1, CallbackFound
<1>4. OnePerName(cbs)'
  <2>1. SUFFICES ASSUME NEW i \in DOMAIN cbs', NEW j \in DOMAIN cbs',
                        Fold[cbs'[i]] = Fold[cbs'[j]]
                 PROVE  i = j
    BY DEF OnePerName
  <2>2. /\ i \in 1 .. Len(cbs) \/ i = Len(cbs) + 1
        /\ j \in 1 .. Len(cbs) \/ j = Len(cbs) + 1
    BY <1>2
  <2> QED BY <1>2, <1>3, <2>1, <2>2 DEF ResourceInv, OnePerName
<1>5. TypeOK'
  BY <1>1, <1>2 DEF ResourceInv, TypeOK
<1> QED BY <1>4, <1>5 DEF ResourceInv

(* After the removal nothing is left for the URI. *)
LEMMA UnregisterKeeps ==
  ASSUME ResourceInv, NEW u \in Uris, Unregister(u)
  PROVE  /\ ResourceInv'
         /\ \A i \in DOMAIN cbs' : Fold[cbs'[i]] # Fold[u]
<1> DEFINE k == CallbackIn(cbs, u)
<1>1. /\ cbs \in Seq(Uris) /\ UNCHANGED <<fs, fb>>
      /\ k # 0 /\ cbs' = RemoveAt(cbs, k)
  BY DEF ResourceInv, TypeOK, Unregister, CallbackFor, CallbackIn
<1> HIDE DEF k
<1>2. k \in DOMAIN cbs /\ Fold[u] = Fold[cbs[k]]
  BY <1>1, CallbackFound DEF k
<1>3. cbs' \in Seq(Uris)
  BY <1>1, <1>2, Removed
<1>4. ASSUME NEW i \in DOMAIN cbs', NEW j \in DOMAIN cbs',
             Fold[cbs'[i]] = Fold[cbs'[j]]
      PROVE  i = j
  <2>1. PICK a \in DOMAIN cbs : /\ a = IF i < k THEN i ELSE i + 1
                                /\ a # k
                                /\ cbs'[i] = cbs[a]
    BY <1>1, <1>2, WasThere
  <2>2. PICK b \in DOMAIN cbs : /\ b = IF j < k THEN j ELSE j + 1
                                /\ b # k
                                /\ cbs'[j] = cbs[b]
    BY <1>1, <1>2, WasThere
  <2>3. a = b
    BY <1>4, <2>1, <2>2 DEF ResourceInv, OnePerName
  <2>4. i \in Nat /\ j \in Nat /\ k \in Nat
    BY <1>1, <1>2, <1>3, LenProperties
  <2> QED BY <2>1, <2>2, <2>3, <2>4
<1>5. ASSUME NEW i \in DOMAIN cbs'
      PROVE  Fold[cbs'[i]] # Fold[u]
  <2>1. PICK a \in DOMAIN cbs : a # k /\ cbs'[i] = cbs[a]
    BY <1>1, <1>2, WasThere
  <2> QED BY <1>2, <2>1 DEF ResourceInv, OnePerName
<1>6. TypeOK'
  BY <1>1, <1>3 DEF ResourceInv, TypeOK
<1> QED BY <1>4, <1>5, <1>6 DEF ResourceInv, OnePerName

LEMMA ResourceStep == ResourceInv /\ [Next]_vars => ResourceInv'
<1> SUFFICES ASSUME ResourceInv, [Next]_vars PROVE ResourceInv'
  OBVIOUS
<1>1. CASE UNCHANGED vars
  BY <1>1 DEF vars, ResourceInv, TypeOK
<1>2. ASSUME TypeOK', UNCHANGED cbs PROVE ResourceInv'
  BY <1>2 DEF ResourceInv
<1>3. ASSUME NEW u \in Uris, PutResource(u) PROVE ResourceInv'
  <2> DEFINE r == [attrs |-> NoAttrs, reps |-> <<>>]
  <2>1. r \in Res
    BY DEF Res, Attr, NoAttrs, Names
  <2>2. r \in ResourceOf(u)
    <3>1. Len(r.reps) = 0 /\ MaxReps[u] \in Nat
      BY ResourceAssumption
    <3> QED BY <2>1, <3>1 DEF ResourceOf
  <2> QED BY <1>2, <1>3, <2>2, PutKeepsType DEF PutResource, ResourceInv
<1>4. ASSUME NEW u \in Uris, DelResource(u) PROVE ResourceInv'
  <2>1. NoRes \in ResourceOf(u)
    BY DEF ResourceOf
  <2> QED BY <1>2, <1>4, <2>1, PutKeepsType DEF DelResource, ResourceInv
<1>5. ASSUME NEW u \in Uris, NEW mt \in Types, NEW sz \in Sizes,
             AddRep(u, mt, sz)
      PROVE  ResourceInv'
  <2>1. PICK e \in Etags :
          SetReps(u, Append(fs[u].reps, [mt |-> mt, etag |-> e, sz |-> sz]))
    BY <1>5 DEF AddRep
  <2> DEFINE new == [mt |-> mt, etag |-> e, sz |-> sz]
  <2>2. new \in Rep
    BY DEF Rep
  <2>3. fs[u] # NoRes /\ Len(fs[u].reps) < MaxReps[u]
    BY <1>5 DEF AddRep
  <2>4. fs[u].reps \in Seq(Rep)
    BY <2>3, FsTyped DEF ResourceInv
  <2> HIDE DEF new
  <2>5. /\ Append(fs[u].reps, new) \in Seq(Rep)
        /\ Len(Append(fs[u].reps, new)) = Len(fs[u].reps) + 1
    BY <2>2, <2>4, AppendProperties
  <2>6. Len(Append(fs[u].reps, new)) <= MaxReps[u]
    BY <2>3, <2>4, <2>5, LenProperties, ResourceAssumption
  <2>7. SetReps(u, Append(fs[u].reps, new))
    BY <2>1 DEF new
  <2>8. TypeOK'
    BY <2>3, <2>5, <2>6, <2>7, SetRepsKeepsType DEF ResourceInv
  <2> QED BY <1>2, <2>7, <2>8 DEF SetReps
<1>6. ASSUME NEW u \in Uris, NEW mt \in Types, NEW sz \in Sizes, NEW e,
             UpdateRep(u, mt, e, sz)
      PROVE  ResourceInv'
  <2>1. TypeOK'
    BY <1>6, UpdateEffect DEF ResourceInv
  <2>2. UNCHANGED cbs
    BY <1>6 DEF UpdateRep, SetReps
  <2> QED BY <1>2, <2>1, <2>2
<1>7. ASSUME NEW u \in Uris, NEW i, DelRep(u, i) PROVE ResourceInv'
  <2>1. /\ fs[u] # NoRes /\ i \in DOMAIN fs[u].reps
        /\ SetReps(u, RemoveAt(fs[u].reps, i))
    BY <1>7 DEF DelRep
  <2>2. fs[u].reps \in Seq(Rep) /\ Len(fs[u].reps) <= MaxReps[u]
    BY <2>1, FsTyped DEF ResourceInv, TypeOK
  <2>3. /\ RemoveAt(fs[u].reps, i) \in Seq(Rep)
        /\ Len(RemoveAt(fs[u].reps, i)) = Len(fs[u].reps) - 1
        /\ Len(fs[u].reps) \in Nat
    BY <2>1, <2>2, Removed
  <2>4. Len(RemoveAt(fs[u].reps, i)) <= MaxReps[u]
    BY <2>2, <2>3, ResourceAssumption
  <2>5. TypeOK'
    BY <2>1, <2>3, <2>4, SetRepsKeepsType DEF ResourceInv
  <2> QED BY <1>2, <2>1, <2>5 DEF SetReps
<1>8. ASSUME NEW u \in Uris, NEW a \in Attrs, SetAttrs(u, a)
      PROVE  ResourceInv'
  <2> DEFINE r == [fs[u] EXCEPT !.attrs = a]
  <2>1. fs[u] \in [attrs : Attr, reps : Seq(Rep)] /\ a \in Attr
    BY <1>8, FsTyped, ResourceAssumption DEF Res, SetAttrs, ResourceInv
  <2>2. r \in Res /\ r.reps = fs[u].reps
    BY <2>1 DEF Res
  <2>3. r \in ResourceOf(u)
    BY <1>8, <2>2 DEF ResourceOf, ResourceInv, TypeOK, SetAttrs
  <2>4. fs' = [fs EXCEPT ![u] = r] /\ UNCHANGED <<cbs, fb>>
    BY <1>8 DEF SetAttrs
  <2> HIDE DEF r
  <2>5. TypeOK'
    BY <2>3, <2>4, PutKeepsType DEF ResourceInv
  <2> QED BY <1>2, <2>4, <2>5
<1>9. ASSUME NEW on \in BOOLEAN, SetFallback(on) PROVE ResourceInv'
  BY <1>9 DEF SetFallback, ResourceInv, TypeOK
<1> QED BY <1>1, <1>3, <1>4, <1>5, <1>6, <1>7, <1>8, <1>9,
           RegisterKeeps, UnregisterKeeps
        DEF Next

LEMMA ResourceInvariant == Spec => []ResourceInv
<1>1. ASSUME Init PROVE ResourceInv
  <2>1. /\ fs \in [Uris -> Res \cup {NoRes}]
        /\ \A u \in Uris : fs[u] = NoRes
        /\ fb \in BOOLEAN
    BY <1>1 DEF Init
  <2>2. cbs \in Seq(Uris) /\ DOMAIN cbs = {}
    BY <1>1 DEF Init
  <2> QED BY <2>1, <2>2 DEF ResourceInv, TypeOK, OnePerName
<1> QED BY <1>1, ResourceStep, PTL DEF Spec

-----------------------------------------------------------------------------
(* Theorems *)

(* The file system, the list of callbacks and the fallback keep their      *)
(* types; ec_resource_update_rep, which adds before it removes, never      *)
(* leaves more representations than there were.                            *)
THEOREM ResourceTypeCorrect == Spec => []TypeOK
<1>1. ResourceInv => TypeOK
  BY DEF ResourceInv
<1> QED BY <1>1, ResourceInvariant, PTL

(* ec_unregister_cb ends the dispatch of a URI, in whatever case it is     *)
(* written, whatever was registered before.                                *)
THEOREM UnregisterEffective == Spec => UnregisterEnds
<1> DEFINE Ends == cbs' # cbs => \A u \in Uris : Unregister(u) =>
       \A v \in Uris : Fold[v] = Fold[u] => Dispatch(v)' # "callback"
<1>1. ASSUME ResourceInv, [Next]_vars PROVE [Ends]_vars
  <2> SUFFICES ASSUME NEW u \in Uris, Unregister(u),
                      NEW v \in Uris, Fold[v] = Fold[u]
               PROVE  Dispatch(v)' # "callback"
    OBVIOUS
  <2>1. /\ cbs' \in Seq(Uris)
        /\ \A i \in DOMAIN cbs' : Fold[cbs'[i]] # Fold[u]
    BY <1>1, UnregisterKeeps DEF ResourceInv, TypeOK
  <2>2. CallbackIn(cbs', v) = 0
    BY <2>1, CallbackFound
  <2>3. CallbackFor(v)' = 0
    BY <2>2 DEF CallbackFor, CallbackIn, SelectInSeq
  <2> QED BY <2>3 DEF Dispatch
<1> QED BY <1>1, ResourceInvariant, PTL DEF Spec, UnregisterEnds

(* What ec_resource_update_rep leaves is what there was, without the one   *)
(* that it found, and the new one at the end.                              *)
Replaced(old, k, new, reps) ==
  /\ reps \in Seq(Rep)
  /\ Len(reps) \in DOMAIN reps /\ reps[Len(reps)] = new
  /\ \A i \in DOMAIN old \ {k} : \E j \in DOMAIN reps : reps[j] = old[i]
  /\ \A j \in DOMAIN reps \ {Len(reps)} :
       \E i \in DOMAIN old \ {k} : reps[j] = old[i]

LEMMA UpdatedReps ==
  ASSUME NEW old \in Seq(Rep), NEW k \in DOMAIN old, NEW new \in Rep
  PROVE  Replaced(old, k, new, RemoveAt(Append(old, new), k))
<1> DEFINE all == Append(old, new)
           reps == RemoveAt(all, k)
<1>1. /\ all \in Seq(Rep) /\ Len(all) = Len(old) + 1
      /\ \A i \in 1 .. Len(old) : all[i] = old[i]
      /\ all[Len(old) + 1] = new
      /\ Len(old) \in Nat /\ DOMAIN old = 1 .. Len(old)
      /\ DOMAIN all = 1 .. Len(old) + 1
  BY AppendProperties, LenProperties
<1> HIDE DEF all
<1>2. reps = RemoveAt(all, k)
  OBVIOUS
<1> HIDE DEF reps
<1>3. k \in 1 .. Len(old) /\ k \in DOMAIN all /\ Len(old) \in 1 .. Len(old)
  BY <1>1
<1>4. /\ reps \in Seq(Rep) /\ Len(reps) = Len(all) - 1
      /\ DOMAIN reps = 1 .. Len(all) - 1
      /\ \A j \in 1 .. Len(all) - 1 :
           reps[j] = IF j < k THEN all[j] ELSE all[j + 1]
  BY <1>1, <1>2, <1>3, Removed
<1>5. Len(all) - 1 = Len(old)
  BY <1>1
<1>6. reps[Len(reps)] = new
  <2>1. ~(Len(old) < k)
    BY <1>1, <1>3
  <2> QED BY <1>1, <1>3, <1>4, <1>5, <2>1
<1>7. ASSUME NEW i \in DOMAIN old \ {k}
      PROVE  \E j \in DOMAIN reps : reps[j] = old[i]
  <2>1. i \in DOMAIN all /\ i # k /\ all[i] = old[i]
    BY <1>1
  <2>2. \E j \in DOMAIN RemoveAt(all, k) : RemoveAt(all, k)[j] = all[i]
    BY <1>1, <1>3, <2>1, StillThere
  <2> QED BY <1>2, <2>1, <2>2
<1>8. ASSUME NEW j \in DOMAIN reps \ {Len(reps)}
      PROVE  \E i \in DOMAIN old \ {k} : reps[j] = old[i]
  <2>1. PICK i \in DOMAIN all : /\ i = IF j < k THEN j ELSE j + 1
                                /\ i # k
                                /\ reps[j] = all[i]
    BY <1>1, <1>2, <1>3, WasThere
  <2>2. j \in 1 .. Len(old) /\ j # Len(old)
    BY <1>4, <1>5
  <2>3. i \in 1 .. Len(old)
    BY <1>1, <1>3, <2>1, <2>2
  <2> QED BY <1>1, <2>1, <2>3
<1> QED BY <1>3, <1>4, <1>5, <1>6, <1>7, <1>8 DEF Replaced, reps, all

(* A set of places that has one element has no other. *)
LEMMA OnlyOne ==
  ASSUME NEW S, NEW s \in Seq(S), NEW T, T \subseteq DOMAIN s,
         Cardinality(T) = 1, NEW a \in T, NEW b \in T
  PROVE  a = b
<1>1. Len(s) \in Nat /\ DOMAIN s = 1 .. Len(s)
  BY LenProperties
<1>2. IsFiniteSet(1 .. Len(s))
  BY <1>1, FS_Interval
<1>3. IsFiniteSet(T)
  BY <1>1, <1>2, FS_Subset
<1>4. PICK x : T = {x}
  BY <1>3, FS_Singleton
<1> QED BY <1>4

(* ec_resource_update_rep loses no media type that could be had before,    *)
(* and the ETag that was given for it finds the old representation no      *)
(* more, if it was that of one only.                                       *)
THEOREM UpdateEffective == Spec => UpdateReplaces
<1> DEFINE Kept(u) ==
             \A m \in MediaTypes : ResourceGetRep(fs[u], m, NoEtag) # 0
               => ResourceGetRep(fs'[u], m, NoEtag) # 0
           Same(u, mt, e) == {i \in DOMAIN fs[u].reps :
                         fs[u].reps[i].mt = mt /\ fs[u].reps[i].etag = e}
           Gone(u, mt, e) ==
             Cardinality(Same(u, mt, e)) = 1
               => ResourceGetRep(fs'[u], mt, e) \in {0, Len(fs'[u].reps)}
<1>1. ASSUME ResourceInv, NEW u \in Uris, NEW mt \in MediaTypes,
             NEW e \in Etags, NEW sz \in Sizes, UpdateRep(u, mt, e, sz)
      PROVE  Kept(u) /\ Gone(u, mt, e)
  <2> DEFINE old == fs[u].reps
             reps == fs'[u].reps
  <2>1. mt \in Types /\ \A m \in MediaTypes : m # AnyType
    BY ResourceAssumption DEF Types
  <2>2. PICK k \in DOMAIN old, new \in Rep :
          /\ fs[u] # NoRes /\ fs'[u] # NoRes
          /\ Suits(old[k], {mt}, e)
          /\ new.mt = mt
          /\ reps = RemoveAt(Append(old, new), k)
    <3>1. Updated(u, mt, e)
      BY <1>1, <2>1, UpdateEffect DEF ResourceInv
    <3> QED BY <2>1, <3>1 DEF Updated
  <2>3. old \in Seq(Rep)
    BY <1>1, <2>2, FsTyped DEF ResourceInv
  <2>4. old[k].mt = mt /\ old[k].etag = e
    BY <2>2, ResourceAssumption DEF Suits, MtMatches
  <2> HIDE DEF old, reps
  <2>5. /\ reps \in Seq(Rep)
        /\ Len(reps) \in DOMAIN reps /\ reps[Len(reps)] = new
        /\ \A i \in DOMAIN old \ {k} : \E j \in DOMAIN reps : reps[j] = old[i]
        /\ \A j \in DOMAIN reps \ {Len(reps)} :
             \E i \in DOMAIN old \ {k} : reps[j] = old[i]
    <3>1. Replaced(old, k, new, RemoveAt(Append(old, new), k))
      BY <2>3, UpdatedReps
    <3>2. Replaced(old, k, new, reps)
      BY <2>2, <3>1
    <3> QED BY <3>2 DEF Replaced
  <2>6. ASSUME NEW m \in MediaTypes, ResourceGetRep(fs[u], m, NoEtag) # 0
        PROVE  ResourceGetRep(fs'[u], m, NoEtag) # 0
    <3>1. PICK i \in DOMAIN old : old[i].mt = m
      BY <2>1, <2>2, <2>3, <2>6, RepFound
      DEF ResourceGetRep, Suits, MtMatches, old
    <3>2. PICK j \in DOMAIN reps : reps[j].mt = m
      <4>1. CASE i = k
        BY <2>2, <2>4, <2>5, <3>1, <4>1
      <4>2. CASE i # k
        BY <2>5, <3>1, <4>2
      <4> QED BY <4>1, <4>2
    <3>3. Suits(reps[j], {m}, NoEtag)
      BY <3>2 DEF Suits, MtMatches
    <3> QED BY <2>1, <2>2, <2>5, <3>2, <3>3, RepFound
            DEF ResourceGetRep, reps
  <2>7. ASSUME Cardinality(Same(u, mt, e)) = 1,
               NEW j, j = ResourceGetRep(fs'[u], mt, e), j # 0
        PROVE  j = Len(reps)
    <3>1. j \in DOMAIN reps /\ Suits(reps[j], {mt}, e)
      BY <2>1, <2>2, <2>5, <2>7, RepFound DEF ResourceGetRep, reps
    <3>2. reps[j].mt = mt /\ reps[j].etag = e
      BY <3>1, ResourceAssumption DEF Suits, MtMatches
    <3>3. SUFFICES ASSUME j # Len(reps) PROVE FALSE
      OBVIOUS
    <3>4. PICK i \in DOMAIN old \ {k} : reps[j] = old[i]
      BY <2>5, <3>1, <3>3
    <3> DEFINE T == {l \in DOMAIN old : old[l].mt = mt /\ old[l].etag = e}
    <3>5. k \in T /\ i \in T /\ T \subseteq DOMAIN old
      BY <2>4, <3>2, <3>4
    <3>6. Cardinality(T) = 1
      BY <2>7 DEF old
    <3> HIDE DEF T
    <3> QED BY <2>3, <3>4, <3>5, <3>6, OnlyOne
  <2> QED BY <2>6, <2>7 DEF reps
<1> DEFINE Replaces ==
  fs' # fs => \A u \in Uris, mt \in MediaTypes, e \in Etags, sz \in Sizes :
       UpdateRep(u, mt, e, sz) =>
         /\ \A m \in MediaTypes :
              ResourceGetRep(fs[u], m, NoEtag) # 0
                => ResourceGetRep(fs'[u], m, NoEtag) # 0
         /\ Cardinality({i \in DOMAIN fs[u].reps :
                         fs[u].reps[i].mt = mt /\ fs[u].reps[i].etag = e}) = 1
              => ResourceGetRep(fs'[u], mt, e) \in {0, Len(fs'[u].reps)}
<1>2. ASSUME ResourceInv, [Next]_vars PROVE [Replaces]_vars
  BY <1>1, <1>2
<1> QED BY <1>2, ResourceInvariant, PTL DEF Spec, UpdateReplaces

-----------------------------------------------------------------------------
(* Discovery *)

(* The value that a link gives for its representations is that of each.    *)
LEMMA CommonToAll ==
  ASSUME NEW vals, Common(vals) # {}, NEW i \in DOMAIN vals
  PROVE  Common(vals) = {vals[i]}
BY DEF Common

(* A link that is listed holds what a client finds that follows it. *)
LEMMA LinkTruthful ==
  ASSUME TypeOK, NEW q, NEW u \in Linked(q)
  PROVE  Truthful(Link(u))
<1> DEFINE reps == fs[u].reps
           sizes == [i \in DOMAIN reps |-> reps[i].sz]
           types == [i \in DOMAIN reps |-> reps[i].mt]
<1>1. u \in Uris /\ fs[u] # NoRes /\ reps # <<>>
  BY DEF Linked
<1>2. reps \in Seq(Rep)
  BY <1>1, FsTyped
<1>3. /\ Link(u).uri = u
      /\ Link(u).sz = Common(sizes)
      /\ Link(u).ct = Common(types)
  BY DEF Link
<1>4. 1 \in DOMAIN reps
  BY <1>1, <1>2, EmptySeq, LenProperties
<1>5. ResourceGetRep(fs[u], AnyType, NoEtag) # 0
  <2>1. Suits(reps[1], {}, NoEtag)
    BY DEF Suits, MtMatches
  <2> QED BY <1>1, <1>2, <1>4, <2>1, RepFound DEF ResourceGetRep
<1> HIDE DEF sizes, types
<1>6. ASSUME NEW mt \in Types, NEW i, i = SuitableRep(fs[u], {mt}, NoEtag)
      PROVE  /\ Common(types) # {} => (i # 0 <=> Common(types) = {mt})
             /\ i # 0 /\ Common(sizes) # {} => Common(sizes) = {reps[i].sz}
  <2>1. i # 0 => i \in DOMAIN reps /\ Suits(reps[i], {mt}, NoEtag)
    BY <1>1, <1>2, <1>6, RepFound
  <2>2. i # 0 => i \in DOMAIN reps /\ reps[i].mt = mt
    BY <2>1 DEF Suits, MtMatches
  <2>3. /\ DOMAIN sizes = DOMAIN reps /\ DOMAIN types = DOMAIN reps
        /\ \A j \in DOMAIN reps :
             sizes[j] = reps[j].sz /\ types[j] = reps[j].mt
    BY DEF sizes, types
  <2>4. i # 0 /\ Common(sizes) # {} => Common(sizes) = {reps[i].sz}
    BY <2>2, <2>3, CommonToAll
  <2>5. i # 0 /\ Common(types) # {} => Common(types) = {mt}
    BY <2>2, <2>3, CommonToAll
  <2>6. ASSUME Common(types) = {mt} PROVE i # 0
    <3>1. types[1] = mt
      BY <1>4, <2>3, <2>6, CommonToAll
    <3>2. Suits(reps[1], {mt}, NoEtag)
      BY <1>4, <2>3, <3>1 DEF Suits, MtMatches
    <3> QED BY <1>1, <1>2, <1>4, <1>6, <3>2, RepFound
  <2> QED BY <2>4, <2>5, <2>6
<1> QED BY <1>3, <1>5, <1>6 DEF Truthful

(* __q_match takes an attribute as the query names it. *)
LEMMA MatchesWhatItSays ==
  ASSUME NEW a, NEW q \in SUBSET Param
  PROVE  Matches(a, q) <=> Says(a, q)
<1>1. ASSUME Matches(a, q) PROVE Says(a, q)
  <2>1. \A n \in Names : [key |-> "rt", val |-> n] \in q => a.rt = n
    BY <1>1 DEF Matches
  <2>2. \A n \in Names : [key |-> "if", val |-> n] \in q => a.if = n
    BY <1>1 DEF Matches
  <2>3. ASSUME NEW p \in q
        PROVE  (p.key = "obs" => a.obs) /\ (p.key = "exp" => a.exp)
    BY <1>1 DEF Matches
  <2> QED BY <2>1, <2>2, <2>3 DEF Says
<1>2. ASSUME Says(a, q) PROVE Matches(a, q)
  <2> SUFFICES ASSUME NEW p \in q
               PROVE  /\ p.key = "if" => a.if = p.val
                      /\ p.key = "rt" => a.rt = p.val
                      /\ p.key = "obs" => a.obs
                      /\ p.key = "exp" => a.exp
    BY DEF Matches
  <2>1. p \in Param /\ p.val \in Names /\ p = [key |-> p.key, val |-> p.val]
    BY DEF Param
  <2> QED BY <1>2, <2>1 DEF Says
<1> QED BY <1>1, <1>2

-----------------------------------------------------------------------------
(* The length of the document *)

(* Induction over the natural numbers, for a set of them. *)
LEMMA NatInduct ==
  ASSUME NEW T \in SUBSET Nat, 0 \in T, \A n \in T : n + 1 \in T
  PROVE  T = Nat
<1> DEFINE U == Nat \ T
<1> SUFFICES ASSUME U # {} PROVE FALSE
  OBVIOUS
<1>1. U \subseteq Nat
  OBVIOUS
<1>2. PICK k \in U : \A m \in U : ~(<<m, k>> \in OpToRel(<, Nat))
  <2> HIDE DEF U
  <2> QED BY <1>1, NatLessThanWellFounded, WFMin
<1>3. k \in Nat /\ k # 0
  BY <1>2
<1>4. k - 1 \in Nat /\ <<k - 1, k>> \in OpToRel(<, Nat)
  BY <1>3 DEF OpToRel
<1>5. k - 1 \in T
  BY <1>2, <1>4
<1>6. k \in T
  BY <1>3, <1>5
<1> QED BY <1>2, <1>6

(* The sets of at most n of the elements of S. *)
Small(S, n) == {s \in SUBSET S : Cardinality(s) <= n}

(* The element that the sum takes first. *)
Pick(s) == CHOOSE x \in s : TRUE

(* f[s] is the sum of w over s, for every s of D. *)
Sums(f, D, w) ==
  f = [s \in D |-> IF s = {} THEN 0 ELSE w[Pick(s)] + f[s \ {Pick(s)}]]

LEMMA PickIn ==
  ASSUME NEW s, s # {}
  PROVE  Pick(s) \in s
BY DEF Pick

(* A set without its first element is a smaller one. *)
LEMMA OneLess ==
  ASSUME NEW S, IsFiniteSet(S), NEW s \in SUBSET S, NEW x \in s
  PROVE  /\ s \ {x} \in SUBSET S
         /\ Cardinality(s) \in Nat /\ Cardinality(s) # 0
         /\ Cardinality(s \ {x}) = Cardinality(s) - 1
<1>1. IsFiniteSet(s)
  BY FS_Subset
<1>2. Cardinality(s) \in Nat
  BY <1>1, FS_CardinalityType
<1>3. Cardinality(s \ {x}) = Cardinality(s) - 1
  BY <1>1, FS_RemoveElement
<1>4. Cardinality(s) # 0
  BY <1>1, FS_EmptySet
<1> QED BY <1>2, <1>3, <1>4

(* The sum is defined for every subset of a finite set. *)
LEMMA SumsExist ==
  ASSUME NEW S, IsFiniteSet(S), NEW w \in [S -> Nat]
  PROVE  \E f : Sums(f, SUBSET S, w)
<1> DEFINE T == {n \in Nat : \E f : Sums(f, Small(S, n), w)}
<1>1. 0 \in T
  <2> DEFINE f == [s \in Small(S, 0) |-> 0]
  <2>1. ASSUME NEW s \in Small(S, 0) PROVE s = {}
    <3>1. IsFiniteSet(s) /\ Cardinality(s) <= 0
      BY FS_Subset DEF Small
    <3> QED BY <3>1, FS_CardinalityType, FS_EmptySet
  <2>2. Sums(f, Small(S, 0), w)
    BY <2>1 DEF Sums
  <2> QED BY <2>2
<1>2. ASSUME NEW n \in T PROVE n + 1 \in T
  <2>1. PICK f : Sums(f, Small(S, n), w)
    OBVIOUS
  <2> DEFINE g == [s \in Small(S, n + 1) |->
                     IF s = {} THEN 0 ELSE w[Pick(s)] + f[s \ {Pick(s)}]]
  <2>2. ASSUME NEW s \in Small(S, n + 1), s # {}
        PROVE  g[s \ {Pick(s)}] = f[s \ {Pick(s)}]
    <3>1. s \in SUBSET S /\ Cardinality(s) <= n + 1
      BY DEF Small
    <3> DEFINE r == s \ {Pick(s)}
    <3>2. r \in SUBSET S /\ Cardinality(r) <= n /\ Cardinality(r) <= n + 1
      <4>1. Pick(s) \in s
        BY <2>2, PickIn
      <4> QED BY <3>1, <4>1, OneLess
    <3>3. r \in Small(S, n) /\ r \in Small(S, n + 1)
      BY <3>2 DEF Small
    <3> HIDE DEF r
    <3>4. g[r] = IF r = {} THEN 0 ELSE w[Pick(r)] + f[r \ {Pick(r)}]
      BY <3>3
    <3>5. f[r] = IF r = {} THEN 0 ELSE w[Pick(r)] + f[r \ {Pick(r)}]
      BY <2>1, <3>3 DEF Sums
    <3> QED BY <3>4, <3>5 DEF r
  <2>3. Sums(g, Small(S, n + 1), w)
    BY <2>2 DEF Sums
  <2> QED BY <2>3
<1>3. T = Nat
  <2>1. T \in SUBSET Nat
    OBVIOUS
  <2> HIDE DEF T
  <2> QED BY <1>1, <1>2, <2>1, NatInduct
<1>4. Cardinality(S) \in T
  BY <1>3, FS_CardinalityType
<1>5. Small(S, Cardinality(S)) = SUBSET S
  BY FS_Subset DEF Small
<1> QED BY <1>4, <1>5

(* What an induction over the number of elements needs. *)
LEMMA BySize ==
  ASSUME NEW S, IsFiniteSet(S), NEW P \in SUBSET SUBSET S,
         \A s \in SUBSET S : (\A x \in s : s \ {x} \in P) => s \in P
  PROVE  P = SUBSET S
<1> DEFINE T == {n \in Nat : \A s \in SUBSET S : Cardinality(s) = n => s \in P}
<1>1. 0 \in T
  <2>1. ASSUME NEW s \in SUBSET S, Cardinality(s) = 0 PROVE s \in P
    BY <2>1, FS_Subset, FS_EmptySet
  <2> QED BY <2>1
<1>2. ASSUME NEW n \in T PROVE n + 1 \in T
  <2>1. ASSUME NEW s \in SUBSET S, Cardinality(s) = n + 1 PROVE s \in P
    <3>1. ASSUME NEW x \in s PROVE s \ {x} \in P
      BY <2>1, OneLess
    <3> QED BY <3>1
  <2> QED BY <2>1
<1>3. T = Nat
  <2>1. T \in SUBSET Nat
    OBVIOUS
  <2> HIDE DEF T
  <2> QED BY <1>1, <1>2, <2>1, NatInduct
<1>4. ASSUME NEW s \in SUBSET S PROVE s \in P
  BY <1>3, FS_Subset, FS_CardinalityType
<1> QED BY <1>4

(* The sum is a number. *)
LEMMA SumIsNumber ==
  ASSUME NEW S, IsFiniteSet(S), NEW w \in [S -> Nat],
         NEW f, Sums(f, SUBSET S, w), NEW s \in SUBSET S
  PROVE  f[s] \in Nat
<1> DEFINE P == {r \in SUBSET S : f[r] \in Nat}
<1>1. ASSUME NEW r \in SUBSET S, \A x \in r : r \ {x} \in P
      PROVE  r \in P
  <2>1. CASE r = {}
    BY <2>1 DEF Sums
  <2>2. CASE r # {}
    <3>1. Pick(r) \in r
      BY <2>2, PickIn
    <3>2. f[r] = w[Pick(r)] + f[r \ {Pick(r)}]
      BY <2>2 DEF Sums
    <3> QED BY <1>1, <3>1, <3>2
  <2> QED BY <2>1, <2>2
<1>2. P = SUBSET S
  <2>1. P \in SUBSET SUBSET S
    OBVIOUS
  <2> HIDE DEF P
  <2> QED BY <1>1, <2>1, BySize
<1> QED BY <1>2

(* It does not depend on the element that is taken first. *)
LEMMA SumTakesAny ==
  ASSUME NEW S, IsFiniteSet(S), NEW w \in [S -> Nat],
         NEW f, Sums(f, SUBSET S, w), NEW s \in SUBSET S, NEW x \in s
  PROVE  f[s] = w[x] + f[s \ {x}]
<1> DEFINE P == {r \in SUBSET S : \A y \in r : f[r] = w[y] + f[r \ {y}]}
<1>1. ASSUME NEW r \in SUBSET S, \A y \in r : r \ {y} \in P,
             NEW y \in r
      PROVE  f[r] = w[y] + f[r \ {y}]
  <2> DEFINE p == Pick(r)
  <2>1. p \in r /\ f[r] = w[p] + f[r \ {p}]
    BY PickIn DEF Sums
  <2> HIDE DEF p
  <2>2. CASE y = p
    BY <2>1, <2>2
  <2>3. CASE y # p
    <3> DEFINE rest == (r \ {p}) \ {y}
    <3>1. f[r \ {p}] = w[y] + f[rest]
      BY <1>1, <2>1, <2>3
    <3>2. f[r \ {y}] = w[p] + f[rest]
      <4>1. f[r \ {y}] = w[p] + f[(r \ {y}) \ {p}]
        BY <1>1, <2>1, <2>3
      <4>2. (r \ {y}) \ {p} = rest
        OBVIOUS
      <4> QED BY <4>1, <4>2
    <3>3. rest \in SUBSET S
      OBVIOUS
    <3> HIDE DEF rest
    <3>4. w[p] \in Nat /\ w[y] \in Nat /\ f[rest] \in Nat
      BY <2>1, <3>3, SumIsNumber
    <3> QED BY <2>1, <3>1, <3>2, <3>4
  <2> QED BY <2>2, <2>3
<1>2. P = SUBSET S
  <2>1. P \in SUBSET SUBSET S
    OBVIOUS
  <2>2. ASSUME NEW r \in SUBSET S, \A y \in r : r \ {y} \in P
        PROVE  r \in P
    BY <1>1, <2>2
  <2> HIDE DEF P
  <2> QED BY <2>1, <2>2, BySize
<1> QED BY <1>2

(* It does not grow when elements are left out. *)
LEMMA SumGrows ==
  ASSUME NEW S, IsFiniteSet(S), NEW w \in [S -> Nat],
         NEW f, Sums(f, SUBSET S, w), NEW t \in SUBSET S, NEW s \in SUBSET t
  PROVE  f[s] <= f[t]
<1> DEFINE P == {r \in SUBSET S : \A q \in SUBSET r : f[q] <= f[r]}
<1>1. ASSUME NEW r \in SUBSET S, \A x \in r : r \ {x} \in P,
             NEW q \in SUBSET r
      PROVE  f[q] <= f[r]
  <2>1. f[q] \in Nat /\ f[r] \in Nat
    BY SumIsNumber
  <2>2. CASE q = r
    BY <2>1, <2>2
  <2>3. CASE q # r
    <3>1. PICK x \in r : x \notin q
      BY <2>3
    <3>2. f[q] <= f[r \ {x}]
      BY <1>1, <3>1
    <3>3. f[r] = w[x] + f[r \ {x}]
      BY SumTakesAny
    <3>4. w[x] \in Nat /\ f[r \ {x}] \in Nat
      BY SumIsNumber
    <3> QED BY <2>1, <3>2, <3>3, <3>4
  <2> QED BY <2>2, <2>3
<1>2. P = SUBSET S
  <2>1. P \in SUBSET SUBSET S
    OBVIOUS
  <2>2. ASSUME NEW r \in SUBSET S, \A x \in r : r \ {x} \in P
        PROVE  r \in P
    BY <1>1, <2>2
  <2> HIDE DEF P
  <2> QED BY <2>1, <2>2, BySize
<1> QED BY <1>2

(* A sum over fewer elements is the same sum. *)
LEMMA SumsAgree ==
  ASSUME NEW T, IsFiniteSet(T), NEW w \in [T -> Nat], NEW S \in SUBSET T,
         NEW f, Sums(f, SUBSET S, w), NEW g, Sums(g, SUBSET T, w)
  PROVE  f[S] = g[S]
<1> DEFINE P == {s \in SUBSET S : f[s] = g[s]}
<1>1. ASSUME NEW s \in SUBSET S, \A x \in s : s \ {x} \in P
      PROVE  s \in P
  <2>1. s \in SUBSET T
    OBVIOUS
  <2>2. CASE s = {}
    BY <2>1, <2>2 DEF Sums
  <2>3. CASE s # {}
    <3>1. Pick(s) \in s
      BY <2>3, PickIn
    <3>2. f[s] = w[Pick(s)] + f[s \ {Pick(s)}]
      BY <2>3 DEF Sums
    <3>3. g[s] = w[Pick(s)] + g[s \ {Pick(s)}]
      BY <2>1, <2>3 DEF Sums
    <3> QED BY <1>1, <3>1, <3>2, <3>3
  <2> QED BY <2>2, <2>3
<1>2. P = SUBSET S
  <2>1. P \in SUBSET SUBSET S
    OBVIOUS
  <2>2. IsFiniteSet(S)
    BY FS_Subset
  <2> HIDE DEF P
  <2> QED BY <1>1, <2>1, <2>2, BySize
<1> QED BY <1>2

(* How long each link is, with the comma after it. *)
Lens(S) == [u \in S |-> LinkLen(Link(u)) + 1]

(* A link that is listed has a length. *)
LEMMA LinkHasLength ==
  ASSUME TypeOK, NEW q, NEW u \in Linked(q)
  PROVE  LinkLen(Link(u)) + 1 \in Nat
<1> DEFINE reps == fs[u].reps
<1>1. u \in Uris /\ fs[u] # NoRes /\ reps # <<>>
  BY DEF Linked
<1>2. reps \in Seq(Rep) /\ fs[u].attrs \in Attr
  BY <1>1, FsTyped DEF Res
<1>3. /\ 1 \in DOMAIN reps
      /\ \A i \in DOMAIN reps : reps[i] \in Rep
  BY <1>1, <1>2, EmptySeq, ElementOfSeq, LenProperties
<1>4. \A i \in DOMAIN reps : reps[i].sz \in Sizes /\ reps[i].mt \in Types
  BY <1>3 DEF Rep
<1>5. Link(u) \in Links
  BY <1>1, <1>2, <1>3, <1>4 DEF Link, Links, Common
<1> QED BY <1>5, ResourceAssumption

(* The length of the document is the sum of the lengths of its links. *)
LEMMA DocumentLength ==
  ASSUME TypeOK, NEW q
  PROVE  \E f : /\ Sums(f, SUBSET Linked(q), Lens(Linked(q)))
                /\ Fits(q) <=> f[Linked(q)] <= WkcMax
<1> DEFINE S == Linked(q)
           Iter(f) == f = [s \in SUBSET S |->
                             IF s = {} THEN 0
                             ELSE LinkLen(Link(CHOOSE x \in s : TRUE)) + 1
                                  + f[s \ {CHOOSE x \in s : TRUE}]]
           F == CHOOSE f : Iter(f)
<1>1. IsFiniteSet(S)
  BY FS_Subset, ResourceAssumption DEF Linked
<1>2. Lens(S) \in [S -> Nat]
  BY LinkHasLength DEF Lens
<1>3. ASSUME NEW f PROVE Iter(f) <=> Sums(f, SUBSET S, Lens(S))
  <2>1. ASSUME NEW s \in SUBSET S, s # {}
        PROVE  Lens(S)[Pick(s)] = LinkLen(Link(CHOOSE x \in s : TRUE)) + 1
    <3>1. Pick(s) \in S
      BY <2>1, PickIn
    <3>2. Pick(s) = CHOOSE x \in s : TRUE
      BY DEF Pick
    <3> HIDE DEF S
    <3> QED BY <3>1, <3>2 DEF Lens
  <2> HIDE DEF S
  <2> QED BY <2>1 DEF Sums, Pick
<1>4. \E f : Iter(f)
  <2> HIDE DEF S, Iter
  <2> QED BY <1>1, <1>2, <1>3, SumsExist
<1>5. Iter(F)
  <2> HIDE DEF Iter
  <2> QED BY <1>4
<1>6. Fits(q) <=> F[S] <= WkcMax
  BY DEF Fits, MapThenSumSet, MapThenFoldSet
<1> HIDE DEF F, S, Iter
<1> QED BY <1>3, <1>5, <1>6 DEF S

(* A document that is filtered fits if the whole one does. *)
LEMMA FilteredFits ==
  ASSUME TypeOK, NEW q, Fits({}), Linked(q) \subseteq Linked({})
  PROVE  Fits(q)
<1> DEFINE S == Linked(q)
           T == Linked({})
<1>1. IsFiniteSet(T) /\ IsFiniteSet(S)
  BY FS_Subset, ResourceAssumption DEF Linked
<1>2. Lens(T) \in [T -> Nat]
  BY LinkHasLength DEF Lens
<1>3. PICK g : Sums(g, SUBSET T, Lens(T)) /\ (Fits({}) <=> g[T] <= WkcMax)
  BY DocumentLength
<1>4. PICK f : Sums(f, SUBSET S, Lens(S)) /\ (Fits(q) <=> f[S] <= WkcMax)
  BY DocumentLength
<1>5. S \in SUBSET T
  OBVIOUS
<1> HIDE DEF S, T
<1>6. \A s \in SUBSET S : s # {} => Lens(S)[Pick(s)] = Lens(T)[Pick(s)]
  <2>1. \A s \in SUBSET S : s # {} => Pick(s) \in S
    BY PickIn
  <2> QED BY <1>5, <2>1 DEF Lens
<1>7. Sums(f, SUBSET S, Lens(T))
  BY <1>4, <1>6 DEF Sums
<1>8. f[S] = g[S]
  BY <1>1, <1>2, <1>3, <1>5, <1>7, SumsAgree
<1>9. g[S] <= g[T] /\ g[S] \in Nat /\ g[T] \in Nat
  <2>1. T \in SUBSET T
    OBVIOUS
  <2> QED BY <1>1, <1>2, <1>3, <1>5, <2>1, SumGrows, SumIsNumber
<1> QED BY <1>3, <1>4, <1>8, <1>9, ResourceAssumption

(* Every link of the document that ec_filesys_well_known_core writes, with *)
(* or without a query, is truthful; and where the whole document is not    *)
(* too long, the filtered one has exactly the links that say what the      *)
(* query asks for.                                                         *)
THEOREM LinksHold == Spec => []LinksTruthful
<1>1. ASSUME ResourceInv, NEW q \in Queries \cup {{}}
      PROVE  /\ \A l \in WellKnownCore(q) : Truthful(l)
             /\ Fits({}) =>
                  WellKnownCore(q)
                    = {l \in WellKnownCore({}) : Says(l.attrs, q)}
  <2>1. ASSUME NEW l \in WellKnownCore(q) PROVE Truthful(l)
    <3>1. PICK u \in Linked(q) : l = Link(u)
      BY DEF WellKnownCore
    <3> QED BY <1>1, <3>1, LinkTruthful DEF ResourceInv
  <2>2. ASSUME Fits({})
        PROVE  WellKnownCore(q)
                 = {l \in WellKnownCore({}) : Says(l.attrs, q)}
    <3>1. \A u \in Uris : Link(u).attrs = fs[u].attrs
      BY DEF Link
    <3>2. q \in SUBSET Param
      BY ResourceAssumption
    <3>3. \A u \in Uris : Matches(fs[u].attrs, {})
      BY DEF Matches
    <3>4. Linked(q) = {u \in Linked({}) : Says(fs[u].attrs, q)}
      BY <3>2, <3>3, MatchesWhatItSays DEF Linked
    <3>5. Linked({}) \subseteq Uris
      BY DEF Linked
    <3>6. Fits(q)
      BY <1>1, <2>2, <3>4, FilteredFits DEF ResourceInv
    <3>7. /\ WellKnownCore(q) = {Link(u) : u \in Linked(q)}
          /\ WellKnownCore({}) = {Link(u) : u \in Linked({})}
      BY <2>2, <3>6 DEF WellKnownCore
    <3> QED BY <3>1, <3>4, <3>5, <3>7
  <2> QED BY <2>1, <2>2
<1>2. ResourceInv => LinksTruthful
  BY <1>1 DEF LinksTruthful
<1> QED BY <1>2, ResourceInvariant, PTL
=============================================================================
