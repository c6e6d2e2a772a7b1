------------------------ MODULE EvcoapObserveProofs ------------------------
(***************************************************************************)
(* Proofs about EvcoapObserve, for any resources, clients and bounds.      *)
(***************************************************************************)
EXTENDS EvcoapObserve, SequenceTheorems, WellFoundedInduction, TLAPS

-----------------------------------------------------------------------------
(* Lists *)

(* A set of numbers has a least element: a search that finds something     *)
(* finds a first thing.                                                    *)
LEMMA Least ==
  ASSUME NEW T, T \subseteq Nat, T # {}
  PROVE  \E x \in T : \A y \in T : x <= y
<1> DEFINE R == OpToRel(<, Nat)
<1>1. IsWellFoundedOn(R, Nat)
  BY NatLessThanWellFounded
<1>2. PICK x \in T : \A y \in T : ~(<<y, x>> \in R)
  <2> HIDE DEF R
  <2> QED BY <1>1, WFMin
<1>3. \A y \in T : ~(y < x)
  BY <1>2 DEF OpToRel
<1> QED BY <1>3

(* TAILQ_REMOVE takes out one entry and keeps the order of the others. *)
LEMMA WithoutSeq ==
  ASSUME NEW S, NEW s \in Seq(S), NEW i \in DOMAIN s
  PROVE  /\ Without(s, i) \in Seq(S)
         /\ Len(Without(s, i)) = Len(s) - 1
         /\ DOMAIN Without(s, i) = 1 .. Len(s) - 1
         /\ \A j \in 1 .. Len(s) - 1 :
              Without(s, i)[j] = IF j < i THEN s[j] ELSE s[j + 1]
<1>1. /\ Len(s) \in Nat /\ DOMAIN s = 1 .. Len(s)
      /\ \A j \in 1 .. Len(s) : s[j] \in S
  BY LenProperties
<1>2. /\ DOMAIN Without(s, i) = 1 .. Len(s) - 1
      /\ \A j \in 1 .. Len(s) - 1 :
           Without(s, i)[j] = IF j < i THEN s[j] ELSE s[j + 1]
  BY DEF Without
<1>3. Len(s) - 1 \in Nat
  BY <1>1
<1>4. \A j \in 1 .. Len(s) - 1 : (IF j < i THEN s[j] ELSE s[j + 1]) \in S
  BY <1>1
<1>5. Without(s, i) \in [1 .. Len(s) - 1 -> S]
  BY <1>4 DEF Without
<1>6. Without(s, i) \in Seq(S)
  BY <1>3, <1>5, SeqDef
<1>7. Len(Without(s, i)) = Len(s) - 1
  BY <1>2, <1>3, <1>6, LenProperties
<1> QED BY <1>2, <1>6, <1>7

(* The entries of a list that lost one are entries of the list. *)
LEMMA WithoutEntry ==
  ASSUME NEW S, NEW s \in Seq(S), NEW i \in DOMAIN s,
         NEW j \in DOMAIN Without(s, i)
  PROVE  \E k \in DOMAIN s :
           k = (IF j < i THEN j ELSE j + 1) /\ k # i /\ Without(s, i)[j] = s[k]
<1>1. Len(s) \in Nat /\ DOMAIN s = 1 .. Len(s)
  BY LenProperties
<1>2. j \in 1 .. Len(s) - 1
  BY WithoutSeq
<1>3. Without(s, i)[j] = IF j < i THEN s[j] ELSE s[j + 1]
  BY <1>2, WithoutSeq
<1> QED BY <1>1, <1>2, <1>3

(* All the others are still there. *)
LEMMA WithoutKeeps ==
  ASSUME NEW S, NEW s \in Seq(S), NEW i \in DOMAIN s, NEW k \in DOMAIN s, k # i
  PROVE  \E j \in DOMAIN Without(s, i) : Without(s, i)[j] = s[k]
<1>1. Len(s) \in Nat /\ DOMAIN s = 1 .. Len(s)
  BY LenProperties
<1>2. DOMAIN Without(s, i) = 1 .. Len(s) - 1
  BY WithoutSeq
<1>3. CASE k < i
  <2>1. k \in 1 .. Len(s) - 1
    BY <1>1, <1>3
  <2> QED BY <1>2, <1>3, <2>1, WithoutSeq
<1>4. CASE k > i
  <2>1. k - 1 \in 1 .. Len(s) - 1 /\ ~(k - 1 < i) /\ k - 1 + 1 = k
    BY <1>1, <1>4
  <2>2. Without(s, i)[k - 1] = s[k]
    BY <2>1, WithoutSeq
  <2> QED BY <1>2, <2>1, <2>2
<1> QED BY <1>1, <1>3, <1>4

(* A list without repetition has none after a removal. *)
Distinct(s) == \A i, j \in DOMAIN s : s[i] = s[j] => i = j

(* No client is on the list twice. *)
OncePerPeer(s) == \A i, j \in DOMAIN s : s[i].peer = s[j].peer => i = j

(* The client p is on the list. *)
Has(list, p) == \E i \in DOMAIN list : list[i].peer = p

LEMMA WithoutDistinct ==
  ASSUME NEW S, NEW s \in Seq(S), NEW i \in DOMAIN s
  PROVE  /\ Distinct(s) => Distinct(Without(s, i))
         /\ OncePerPeer(s) => OncePerPeer(Without(s, i))
<1>1. SUFFICES ASSUME NEW a \in DOMAIN Without(s, i), NEW b \in DOMAIN Without(s, i),
                      a # b
               PROVE  /\ Distinct(s) => Without(s, i)[a] # Without(s, i)[b]
                      /\ OncePerPeer(s) => Without(s, i)[a].peer # Without(s, i)[b].peer
  BY DEF Distinct, OncePerPeer
<1>2. a \in Nat /\ b \in Nat
  BY WithoutSeq, LenProperties
<1>3. PICK k \in DOMAIN s : /\ k = (IF a < i THEN a ELSE a + 1)
                            /\ k # i /\ Without(s, i)[a] = s[k]
  BY WithoutEntry
<1>4. PICK l \in DOMAIN s : /\ l = (IF b < i THEN b ELSE b + 1)
                            /\ l # i /\ Without(s, i)[b] = s[l]
  BY WithoutEntry
<1>5. i \in Nat
  BY LenProperties
<1>6. k # l
  BY <1>1, <1>2, <1>3, <1>4, <1>5
<1> QED BY <1>3, <1>4, <1>6 DEF Distinct, OncePerPeer

(* Removed takes the first match out of the list, or nothing. *)
LEMMA RemovedSeq ==
  ASSUME NEW list \in Seq(Observer), NEW p, NEW m
  PROVE  /\ Removed(list, p, m) \in Seq(Observer)
         /\ \/ /\ Removed(list, p, m) = list
               /\ \A i \in DOMAIN list : ~Matches(list[i], p, m)
            \/ \E i \in DOMAIN list : /\ Matches(list[i], p, m)
                                      /\ Removed(list, p, m) = Without(list, i)
<1>1. CASE \E i \in DOMAIN list : Matches(list[i], p, m)
  <2> DEFINE T == {i \in DOMAIN list : Matches(list[i], p, m)}
             f == CHOOSE i \in DOMAIN list : IsFirstMatch(list, i, p, m)
  <2>1. DOMAIN list = 1 .. Len(list) /\ Len(list) \in Nat
    BY LenProperties
  <2>2. T \subseteq Nat /\ T # {}
    BY <1>1, <2>1
  <2>3. PICK x \in T : \A y \in T : x <= y
    <3> HIDE DEF T
    <3> QED BY <2>2, Least
  <2>4. IsFirstMatch(list, x, p, m)
    BY <2>1, <2>3 DEF IsFirstMatch
  <2>5. f \in DOMAIN list /\ IsFirstMatch(list, f, p, m)
    BY <2>3, <2>4
  <2>6. Removed(list, p, m) = Without(list, f)
    BY <1>1 DEF Removed
  <2> HIDE DEF f
  <2>7. Matches(list[f], p, m)
    BY <2>5 DEF IsFirstMatch
  <2> QED BY <2>5, <2>6, <2>7, WithoutSeq
<1>2. CASE ~\E i \in DOMAIN list : Matches(list[i], p, m)
  BY <1>2 DEF Removed
<1> QED BY <1>1, <1>2

(* A list that is not empty has a first entry. *)
LEMMA NonEmpty ==
  ASSUME NEW S, NEW s \in Seq(S)
  PROVE  s # << >> <=> 1 \in DOMAIN s
<1>1. DOMAIN s = 1 .. Len(s) /\ Len(s) \in Nat
  BY LenProperties
<1>2. s # << >> => Len(s) \in Nat \ {0}
  BY EmptySeq
<1>3. s = << >> => Len(s) = 0
  BY EmptySeq
<1> QED BY <1>1, <1>2, <1>3

-----------------------------------------------------------------------------
(* The list of observations *)

(* What Become and Notify leave of the observations: exactly u is gone. *)
LEMMA UnobservedSeq ==
  ASSUME NEW u \in Uris, observing \in Seq(Uris), Distinct(observing)
  PROVE  /\ Unobserved(u) \in Seq(Uris)
         /\ Distinct(Unobserved(u))
         /\ \A v : (\E i \in DOMAIN Unobserved(u) : Unobserved(u)[i] = v)
                     <=> Observed(v) /\ v # u
<1>1. CASE Observed(u)
  <2> DEFINE k == CHOOSE i \in DOMAIN observing : observing[i] = u
  <2>1. k \in DOMAIN observing /\ observing[k] = u
    BY <1>1 DEF Observed
  <2>2. Unobserved(u) = Without(observing, k)
    BY <1>1 DEF Unobserved
  <2> HIDE DEF k
  <2>3. Unobserved(u) \in Seq(Uris) /\ Distinct(Unobserved(u))
    BY <2>1, <2>2, WithoutSeq, WithoutDistinct
  <2>4. ASSUME NEW v, NEW j \in DOMAIN Unobserved(u), Unobserved(u)[j] = v
        PROVE  Observed(v) /\ v # u
    <3>1. PICK l \in DOMAIN observing : l # k /\ v = observing[l]
      BY <2>1, <2>2, <2>4, WithoutEntry
    <3> QED BY <2>1, <3>1 DEF Observed, Distinct
  <2>5. ASSUME NEW v, Observed(v), v # u
        PROVE  \E j \in DOMAIN Unobserved(u) : Unobserved(u)[j] = v
    <3>1. PICK l \in DOMAIN observing : observing[l] = v
      BY <2>5 DEF Observed
    <3> QED BY <2>1, <2>2, <2>5, <3>1, WithoutKeeps
  <2> QED BY <2>3, <2>4, <2>5
<1>2. CASE ~Observed(u)
  BY <1>2 DEF Unobserved, Observed
<1> QED BY <1>1, <1>2

(* A new observation goes to the end of the list. *)
LEMMA AppendUri ==
  ASSUME NEW u \in Uris, NEW s \in Seq(Uris), Distinct(s),
         ~\E i \in DOMAIN s : s[i] = u
  PROVE  /\ Append(s, u) \in Seq(Uris)
         /\ Distinct(Append(s, u))
         /\ \A v : (\E i \in DOMAIN Append(s, u) : Append(s, u)[i] = v)
                     <=> (\E i \in DOMAIN s : s[i] = v) \/ v = u
<1>1. DOMAIN s = 1 .. Len(s) /\ Len(s) \in Nat
  BY LenProperties
<1>2. Append(s, u) \in Seq(Uris)
  BY AppendProperties
<1>3. DOMAIN Append(s, u) = 1 .. Len(s) + 1
  BY <1>2, LenProperties, AppendProperties
<1>4. /\ \A i \in 1 .. Len(s) : Append(s, u)[i] = s[i]
      /\ Append(s, u)[Len(s) + 1] = u
  BY AppendProperties
<1>5. \A i \in 1 .. Len(s) + 1 : i \in 1 .. Len(s) \/ i = Len(s) + 1
  BY <1>1
<1>6. Distinct(Append(s, u))
  BY <1>1, <1>3, <1>4, <1>5 DEF Distinct
<1>7. ASSUME NEW v
      PROVE  (\E i \in DOMAIN Append(s, u) : Append(s, u)[i] = v)
               <=> (\E i \in DOMAIN s : s[i] = v) \/ v = u
  <2>1. 1 .. Len(s) \subseteq 1 .. Len(s) + 1 /\ Len(s) + 1 \in 1 .. Len(s) + 1
    BY <1>1
  <2> QED BY <1>1, <1>3, <1>4, <1>5, <2>1
<1> QED BY <1>2, <1>6, <1>7

-----------------------------------------------------------------------------
(* The invariant *)

(* The part of TypeOK that the lists are about. *)
Lists ==
  /\ observing \in Seq(Uris)
  /\ observers \in [Uris -> Seq(Observer)]
  /\ armed \in [Uris -> BOOLEAN]

(* A step that gives u the observers list and keeps the observations in    *)
(* step with that preserves the invariant.                                 *)
LEMMA ListChange ==
  ASSUME Lists, Consistent, OneObserver,
         NEW u \in Uris, NEW list \in Seq(Observer), NEW a \in BOOLEAN,
         u \notin Deferring => OncePerPeer(list),
         observers' = [observers EXCEPT ![u] = list],
         armed' = [armed EXCEPT ![u] = a],
         a => list # << >>,
         observing' \in Seq(Uris), Distinct(observing'),
         \A v \in Uris : Observed(v)' <=> IF v = u THEN list # << >> ELSE Observed(v)
  PROVE  Lists' /\ Consistent' /\ OneObserver'
<1>1. Lists'
  BY DEF Lists
<1>2. \A v \in Uris : Observed(v)' <=> observers'[v] # << >>
  BY DEF Consistent, Lists
<1>3. \A v \in Uris : armed'[v] => Observed(v)'
  BY DEF Consistent, Lists
<1>4. Consistent'
  BY <1>2, <1>3 DEF Consistent, Distinct
<1>5. OneObserver'
  BY DEF OneObserver, OncePerPeer, Lists
<1> QED BY <1>1, <1>4, <1>5

LEMMA BecomeStep ==
  ASSUME Lists, Consistent, OneObserver,
         NEW u \in Uris, NEW list \in Seq(Observer),
         u \notin Deferring => OncePerPeer(list),
         Become(u, list)
  PROVE  Lists' /\ Consistent' /\ OneObserver'
<1>1. Distinct(observing) /\ observing \in Seq(Uris)
  BY DEF Consistent, Distinct, Lists
<1> DEFINE a == list # << >> /\ (Observed(u) => armed[u])
<1>2. a \in BOOLEAN /\ armed' = [armed EXCEPT ![u] = a] /\ (a => list # << >>)
  BY DEF Become
<1>3. observers' = [observers EXCEPT ![u] = list]
  BY DEF Become
<1>4. /\ observing' \in Seq(Uris) /\ Distinct(observing')
      /\ \A v \in Uris : Observed(v)' <=> IF v = u THEN list # << >> ELSE Observed(v)
  <2>1. CASE list = << >>
    <3>1. observing' = Unobserved(u)
      BY <2>1 DEF Become
    <3> QED BY <1>1, <2>1, <3>1, UnobservedSeq DEF Observed
  <2>2. CASE list # << >> /\ Observed(u)
    <3>1. observing' = observing
      BY <2>2 DEF Become
    <3> QED BY <1>1, <2>2, <3>1 DEF Observed
  <2>3. CASE list # << >> /\ ~Observed(u)
    <3>1. observing' = Append(observing, u)
      BY <2>3 DEF Become
    <3> QED BY <1>1, <2>3, <3>1, AppendUri DEF Observed
  <2> QED BY <2>1, <2>2, <2>3
<1> HIDE DEF a
<1> QED BY <1>2, <1>3, <1>4, ListChange

(* A removal leaves the other clients on the list once. *)
LEMMA RemovedOnce ==
  ASSUME Lists, OneObserver, NEW u \in Uris, NEW p \in Peers, NEW m
  PROVE  /\ Removed(observers[u], p, m) \in Seq(Observer)
         /\ u \notin Deferring => OncePerPeer(Removed(observers[u], p, m))
<1>1. observers[u] \in Seq(Observer)
  BY DEF Lists
<1>2. u \notin Deferring => OncePerPeer(observers[u])
  BY DEF OneObserver, OncePerPeer
<1> QED BY <1>1, <1>2, RemovedSeq, WithoutDistinct

(* After the GET of a client it is not on the list of a resource whose     *)
(* callback is never deferred, so that it may be added.                    *)
LEMMA GetClears ==
  ASSUME Lists, OneObserver, NEW u \in Uris \ Deferring, NEW p \in Peers,
         NEW j \in DOMAIN AfterGet(u, p)
  PROVE  AfterGet(u, p)[j].peer # p
<1> DEFINE list == observers[u]
<1>1. list \in Seq(Observer) /\ OncePerPeer(list)
  BY DEF Lists, OneObserver, OncePerPeer
<1>2. CASE Removed(list, p, 0) = list /\ \A i \in DOMAIN list : ~Matches(list[i], p, 0)
  BY <1>2 DEF AfterGet, Matches
<1>3. CASE \E i \in DOMAIN list : /\ Matches(list[i], p, 0)
                                  /\ Removed(list, p, 0) = Without(list, i)
  <2>1. PICK i \in DOMAIN list : list[i].peer = p /\ AfterGet(u, p) = Without(list, i)
    BY <1>3 DEF AfterGet, Matches
  <2>2. PICK k \in DOMAIN list : k # i /\ AfterGet(u, p)[j] = list[k]
    BY <1>1, <2>1, WithoutEntry
  <2> QED BY <1>1, <2>1, <2>2 DEF OncePerPeer
<1> QED BY <1>1, <1>2, <1>3, RemovedSeq

LEMMA AddedSeq ==
  ASSUME NEW list \in Seq(Observer), NEW p \in Peers
  PROVE  /\ Added(list, p) \in Seq(Observer) /\ Added(list, p) # << >>
         /\ OncePerPeer(list) /\ (\A j \in DOMAIN list : list[j].peer # p)
              => OncePerPeer(Added(list, p))
<1> DEFINE o == [peer |-> p, mid |-> 0]
<1>1. o \in Observer /\ o.peer = p
  BY DEF Observer
<1>2. Added(list, p) = Append(list, o)
  BY DEF Added
<1> HIDE DEF o
<1>3. DOMAIN list = 1 .. Len(list) /\ Len(list) \in Nat
  BY LenProperties
<1>4. /\ Append(list, o) \in Seq(Observer) /\ Append(list, o) # << >>
      /\ \A i \in 1 .. Len(list) : Append(list, o)[i] = list[i]
      /\ Append(list, o)[Len(list) + 1] = o
  BY <1>1, AppendProperties
<1>5. DOMAIN Append(list, o) = 1 .. Len(list) + 1
  BY <1>1, <1>4, LenProperties, AppendProperties
<1>6. \A i \in 1 .. Len(list) + 1 : i \in 1 .. Len(list) \/ i = Len(list) + 1
  BY <1>3
<1> QED BY <1>1, <1>2, <1>3, <1>4, <1>5, <1>6 DEF OncePerPeer

(* The GET that registers: the observer, and the observation if this was   *)
(* the last observer, go and come again.                                   *)
LEMMA GetObserveStep ==
  ASSUME Lists, Consistent, OneObserver,
         NEW u \in Uris, NEW p \in Peers, GetObserve(p, u)
  PROVE  Lists' /\ Consistent' /\ OneObserver'
<1> DEFINE rest == AfterGet(u, p)
           list == Added(rest, p)
           a    == armed[u] \/ rest = << >>
<1>1. Distinct(observing) /\ observing \in Seq(Uris)
  BY DEF Consistent, Distinct, Lists
<1>2. rest \in Seq(Observer) /\ (u \notin Deferring => OncePerPeer(rest))
  BY RemovedOnce DEF AfterGet
<1>3. u \notin Deferring => \A j \in DOMAIN rest : rest[j].peer # p
  BY GetClears
<1>4. /\ observers' = [observers EXCEPT ![u] = list]
      /\ armed' = [armed EXCEPT ![u] = a] /\ a \in BOOLEAN
      /\ observing' = IF rest = << >> THEN Append(Unobserved(u), u) ELSE observing
  BY DEF GetObserve, Lists
<1>5. rest # << >> => Observed(u)
  <2>1. Removed(<< >>, p, 0) = << >>
    BY DEF Removed
  <2>2. rest # << >> => observers[u] # << >>
    BY <2>1 DEF AfterGet
  <2> QED BY <2>2 DEF Consistent
<1> HIDE DEF rest
<1>6. /\ list \in Seq(Observer) /\ list # << >>
      /\ u \notin Deferring => OncePerPeer(list)
  BY <1>2, <1>3, AddedSeq
<1> HIDE DEF list, a
<1>7. /\ observing' \in Seq(Uris) /\ Distinct(observing')
      /\ \A v \in Uris : Observed(v)' <=> IF v = u THEN list # << >> ELSE Observed(v)
  <2>1. CASE rest = << >>
    <3>1. /\ Unobserved(u) \in Seq(Uris) /\ Distinct(Unobserved(u))
          /\ \A v : (\E i \in DOMAIN Unobserved(u) : Unobserved(u)[i] = v)
                      <=> Observed(v) /\ v # u
      BY <1>1, UnobservedSeq
    <3>2. observing' = Append(Unobserved(u), u)
      BY <1>4, <2>1
    <3>3. /\ observing' \in Seq(Uris) /\ Distinct(observing')
          /\ \A v : (\E i \in DOMAIN observing' : observing'[i] = v)
                      <=> (\E i \in DOMAIN Unobserved(u) : Unobserved(u)[i] = v) \/ v = u
      BY <3>1, <3>2, AppendUri
    <3>4. \A v : Observed(v)' <=> \E i \in DOMAIN observing' : observing'[i] = v
      BY DEF Observed
    <3> QED BY <1>6, <3>1, <3>3, <3>4
  <2>2. CASE rest # << >>
    BY <1>1, <1>4, <1>5, <1>6, <2>2 DEF Observed
  <2> QED BY <2>1, <2>2
<1> QED BY <1>4, <1>6, <1>7, ListChange

(* The observers that stay after a round are observers, each at most as    *)
(* often as before.                                                        *)
LEMMA AfterRoundSeq ==
  ASSUME ObserveAssumption, NEW list \in Seq(Observer),
         NEW ok, NEW mid \in [ok -> Mids], NEW gone,
         NEW stay \in InOrder((1 .. Len(list)) \ gone, Len(list))
  PROVE  /\ AfterRound(list, stay, ok, mid) \in Seq(Observer)
         /\ OncePerPeer(list) => OncePerPeer(AfterRound(list, stay, ok, mid))
         /\ \A i \in (1 .. Len(list)) \ gone :
              Has(AfterRound(list, stay, ok, mid), list[i].peer)
<1> DEFINE r == AfterRound(list, stay, ok, mid)
<1>1. /\ DOMAIN list = 1 .. Len(list) /\ Len(list) \in Nat
      /\ \A i \in 1 .. Len(list) : list[i] \in Observer
  BY LenProperties
<1>2. PICK n \in 0 .. Len(list) : stay \in [1 .. n -> (1 .. Len(list)) \ gone]
  BY DEF InOrder
<1>3. \A i, j \in 1 .. n : i < j => stay[i] < stay[j]
  BY <1>2 DEF InOrder
<1>4. \A j \in 1 .. n : stay[j] \in 1 .. Len(list)
  BY <1>2
<1>5. n \in Nat /\ DOMAIN stay = 1 .. n
  BY <1>1, <1>2
<1>6. ASSUME NEW j \in 1 .. n
      PROVE  r[j] \in Observer /\ r[j].peer = list[stay[j]].peer
  <2>1. list[stay[j]] \in Observer
    BY <1>1, <1>4
  <2>2. r[j] = IF stay[j] \in ok
               THEN [list[stay[j]] EXCEPT !.mid = mid[stay[j]]]
               ELSE list[stay[j]]
    BY <1>5 DEF AfterRound
  <2>3. stay[j] \in ok => mid[stay[j]] \in Mids
    OBVIOUS
  <2> QED BY <2>1, <2>2, <2>3 DEF Observer
<1>7. DOMAIN r = 1 .. n
  BY <1>5 DEF AfterRound
<1>8. r \in [1 .. n -> Observer]
  BY <1>5, <1>6 DEF AfterRound
<1>9. r \in Seq(Observer)
  BY <1>5, <1>8, SeqDef
<1>10. OncePerPeer(list) => OncePerPeer(r)
  <2>1. \A i, j \in 1 .. n : stay[i] = stay[j] => i = j
    BY <1>1, <1>3, <1>4, <1>5
  <2> HIDE DEF r
  <2> QED BY <1>1, <1>4, <1>6, <1>7, <2>1 DEF OncePerPeer
<1>11. ASSUME NEW i \in (1 .. Len(list)) \ gone
       PROVE  Has(r, list[i].peer)
  <2>1. PICK j \in DOMAIN stay : stay[j] = i
    BY DEF InOrder
  <2> HIDE DEF r
  <2> QED BY <1>5, <1>6, <1>7, <2>1 DEF Has
<1> QED BY <1>9, <1>10, <1>11

LEMMA NotifyStep ==
  ASSUME Lists, Consistent, OneObserver, NEW u \in Uris, Notify(u)
  PROVE  Lists' /\ Consistent' /\ OneObserver'
<1> DEFINE n == Len(observers[u])
<1> USE ObserveAssumption
<1>1. observers[u] \in Seq(Observer) /\ (u \notin Deferring => OncePerPeer(observers[u]))
  BY DEF Lists, OneObserver, OncePerPeer
<1>2. n \in Nat
  BY <1>1, LenProperties
<1>3. PICK ok \in Reached(n), drained \in Garbage :
        \E mid \in [ok -> Mids], gone \in SUBSET ok :
        \E stay \in InOrder((1 .. n) \ gone, n) :
          Round(u, ok, mid, gone, stay, drained)
  BY DEF Notify
<1>4. PICK mid \in [ok -> Mids], gone \in SUBSET ok :
        \E stay \in InOrder((1 .. n) \ gone, n) :
          Round(u, ok, mid, gone, stay, drained)
  BY <1>3
<1>5. PICK stay \in InOrder((1 .. n) \ gone, n) :
        Round(u, ok, mid, gone, stay, drained)
  BY <1>4
<1> DEFINE list == AfterRound(observers[u], stay, ok, mid)
           a    == Rearmed(ok # DOMAIN observers[u], gone, list, drained)
<1>7. list \in Seq(Observer) /\ (u \notin Deferring => OncePerPeer(list))
  BY <1>1, AfterRoundSeq
<1>8. n # 0
  <2>1. Observed(u)
    BY DEF Notify, Consistent
  <2> QED BY <1>1, <2>1, EmptySeq DEF Consistent
<1>9. gone = {} => list # << >>
  <2>1. ASSUME gone = {} PROVE 1 \in (1 .. n) \ gone
    BY <1>2, <1>8, <2>1
  <2>2. gone = {} => \E j \in DOMAIN stay : stay[j] = 1
    BY <2>1 DEF InOrder
  <2>3. DOMAIN list = DOMAIN stay
    BY DEF AfterRound
  <2>4. list # << >> <=> 1 \in DOMAIN list
    BY <1>7, NonEmpty
  <2>5. \E k \in Nat : DOMAIN stay = 1 .. k
    BY <1>2 DEF InOrder
  <2> QED BY <2>2, <2>3, <2>4, <2>5
<1>10. a \in BOOLEAN /\ (a => list # << >>)
  BY <1>9 DEF Rearmed
<1>11. /\ observing' \in Seq(Uris) /\ Distinct(observing')
       /\ \A v \in Uris : Observed(v)' <=> IF v = u THEN list # << >> ELSE Observed(v)
  <2>1. Distinct(observing) /\ observing \in Seq(Uris) /\ Observed(u)
    BY DEF Consistent, Distinct, Lists, Notify
  <2>2. CASE list = << >>
    BY <1>5, <2>1, <2>2, UnobservedSeq DEF Observed, Round
  <2>3. CASE list # << >>
    BY <1>5, <2>1, <2>3 DEF Observed, Round
  <2> QED BY <2>2, <2>3
<1>12. observers' = [observers EXCEPT ![u] = list] /\ armed' = [armed EXCEPT ![u] = a]
  BY <1>5 DEF Round
<1> HIDE DEF list, a
<1> QED BY <1>7, <1>10, <1>11, <1>12, ListChange

-----------------------------------------------------------------------------
(* Theorems *)

(* Only the callbacks of Deferring add an observer later than their GET. *)
Waits ==
  /\ waiting \in [Peers -> [Uris -> Nat]]
  /\ \A p \in Peers, u \in Uris : waiting[p][u] > 0 => u \in Deferring

(* OneObserver needs Waits, and Consistent to know that a list without     *)
(* observers has no countdown.                                             *)
ObserveInv == Lists /\ Consistent /\ OneObserver /\ Waits

LEMMA ObserveInit ==
  ASSUME Init
  PROVE  ObserveInv
<1>1. << >> \in Seq(Uris) /\ << >> \in Seq(Observer) /\ DOMAIN << >> = {}
  BY EmptySeq
<1> QED BY <1>1 DEF Init, ObserveInv, Lists, Consistent, OneObserver, Waits, Observed

(* Every step keeps the lists in step with each other. *)
LEMMA ObserveStep ==
  ASSUME ObserveInv, [Next]_vars
  PROVE  ObserveInv'
<1> USE ObserveAssumption
<1>0. Lists /\ Consistent /\ OneObserver /\ Waits
  BY DEF ObserveInv
<1>w. Waits'
  <2>1. ASSUME NEW p \in Peers, NEW u \in Uris, GetWait(p, u) PROVE Waits'
    BY <1>0, <2>1 DEF Waits, GetWait
  <2>2. ASSUME NEW p \in Peers, NEW u \in Uris, LateObserve(p, u) PROVE Waits'
    BY <1>0, <2>2 DEF Waits, LateObserve
  <2>3. CASE UNCHANGED waiting
    BY <1>0, <2>3 DEF Waits
  <2> QED BY <2>1, <2>2, <2>3
          DEF Next, vars, Get, GetObserve, RemObserver, Rst, Notify
<1>1. ASSUME NEW p \in Peers, NEW u \in Uris,
             Get(p, u) \/ GetWait(p, u) \/ RemObserver(p, u)
      PROVE  ObserveInv'
  <2>1. Become(u, Removed(observers[u], p, 0))
    BY <1>1 DEF Get, GetWait, RemObserver, AfterGet
  <2> QED BY <1>0, <1>w, <2>1, RemovedOnce, BecomeStep DEF ObserveInv
<1>2. ASSUME NEW p \in Peers, NEW u \in Uris, GetObserve(p, u)
      PROVE  ObserveInv'
  BY <1>0, <1>w, <1>2, GetObserveStep DEF ObserveInv
<1>3. ASSUME NEW p \in Peers, NEW u \in Uris, LateObserve(p, u)
      PROVE  ObserveInv'
  <2>1. Become(u, Added(observers[u], p))
    BY <1>3 DEF LateObserve
  <2>2. Added(observers[u], p) \in Seq(Observer)
    BY <1>0, AddedSeq DEF Lists
  <2>3. u \in Deferring
    BY <1>0, <1>3 DEF LateObserve, Waits
  <2> QED BY <1>0, <1>w, <2>1, <2>2, <2>3, BecomeStep DEF ObserveInv
<1>4. ASSUME NEW p \in Peers, NEW m \in Mids, Rst(p, m)
      PROVE  ObserveInv'
  <2>1. PICK i \in DOMAIN observing :
          Become(observing[i], Removed(observers[observing[i]], p, m))
    BY <1>4 DEF Rst
  <2>2. observing[i] \in Uris
    BY <1>0, LenProperties DEF Lists
  <2> QED BY <1>0, <1>w, <2>1, <2>2, RemovedOnce, BecomeStep DEF ObserveInv
<1>5. ASSUME NEW u \in Uris, Notify(u)
      PROVE  ObserveInv'
  BY <1>0, <1>w, <1>5, NotifyStep DEF ObserveInv
<1>6. CASE UNCHANGED vars
  BY <1>0, <1>w, <1>6 DEF ObserveInv, vars, Lists, Consistent, OneObserver, Observed
<1> QED BY <1>1, <1>2, <1>3, <1>4, <1>5, <1>6 DEF Next

(* The observations and their observers agree at all times, in particular  *)
(* the countdown never runs for an observation that has been freed.        *)
THEOREM ObservationsConsistent == Spec => []Consistent
<1>1. Init => ObserveInv
  BY ObserveInit
<1>2. ObserveInv /\ [Next]_vars => ObserveInv'
  BY ObserveStep
<1>3. ObserveInv => Consistent
  BY DEF ObserveInv
<1> QED BY <1>1, <1>2, <1>3, PTL DEF Spec

(* A client observes a resource whose callback is never deferred at most   *)
(* once, whatever it and the others send.                                  *)
THEOREM ObservesOnce == Spec => []OneObserver
<1>1. Init => ObserveInv
  BY ObserveInit
<1>2. ObserveInv /\ [Next]_vars => ObserveInv'
  BY ObserveStep
<1>3. ObserveInv => OneObserver
  BY DEF ObserveInv
<1> QED BY <1>1, <1>2, <1>3, PTL DEF Spec

(* Every variable keeps its type: the lists by ObserveInv, the others by   *)
(* the guards.                                                             *)
THEOREM ObserveTypeCorrect == Spec => []TypeOK
<1> USE ObserveAssumption
<1>1. Init => ObserveInv /\ TypeOK
  <2>1. Init => ObserveInv
    BY ObserveInit
  <2>2. Init /\ ObserveInv => TypeOK
    BY DEF Init, ObserveInv, Lists, TypeOK
  <2> QED BY <2>1, <2>2
<1>2. ASSUME ObserveInv, TypeOK, [Next]_vars
      PROVE  ObserveInv' /\ TypeOK'
  <2>1. ObserveInv'
    BY <1>2, ObserveStep
  <2>2. Lists'
    BY <2>1 DEF ObserveInv
  <2>3. CASE UNCHANGED vars
    BY <1>2, <2>1, <2>3 DEF TypeOK, vars
  <2>4. ASSUME NEW p \in Peers, NEW u \in Uris,
               Get(p, u) \/ GetObserve(p, u) \/ RemObserver(p, u)
        PROVE  TypeOK'
    <3>1. by' = p /\ out' = {} /\ UNCHANGED <<proc, waiting>>
      BY <2>4 DEF Get, GetObserve, RemObserver
    <3> QED BY <1>2, <2>2, <3>1 DEF TypeOK, Lists
  <2>5. ASSUME NEW p \in Peers, NEW u \in Uris, GetWait(p, u) \/ LateObserve(p, u)
        PROVE  TypeOK'
    <3>1. waiting[p][u] \in 0 .. MaxWaiting
      BY <1>2 DEF TypeOK
    <3>2. waiting' \in [Peers -> [Uris -> 0 .. MaxWaiting]]
      <4>1. CASE GetWait(p, u)
        BY <1>2, <3>1, <4>1 DEF TypeOK, GetWait
      <4>2. CASE LateObserve(p, u)
        BY <1>2, <3>1, <4>2 DEF TypeOK, LateObserve
      <4> QED BY <2>5, <4>1, <4>2
    <3> QED BY <1>2, <2>2, <2>5, <3>2 DEF TypeOK, Lists, GetWait, LateObserve
  <2>6. ASSUME NEW p \in Peers, NEW m \in Mids, Rst(p, m) PROVE TypeOK'
    BY <1>2, <2>2, <2>6 DEF TypeOK, Lists, Rst
  <2>7. ASSUME NEW u \in Uris, Notify(u) PROVE TypeOK'
    <3> DEFINE n == Len(observers[u])
    <3>1. PICK ok \in Reached(n), drained \in Garbage :
            \E mid \in [ok -> Mids], gone \in SUBSET ok :
            \E stay \in InOrder((1 .. n) \ gone, n) :
              Round(u, ok, mid, gone, stay, drained)
      BY <2>7 DEF Notify
    <3>2. PICK mid \in [ok -> Mids], gone \in SUBSET ok :
            \E stay \in InOrder((1 .. n) \ gone, n) :
              Round(u, ok, mid, gone, stay, drained)
      BY <3>1
    <3>3. /\ out' = {[to |-> observers[u][k].peer, uri |-> u, mid |-> mid[k],
                      deleted |-> k \in gone] : k \in ok}
          /\ proc' \in {"up", "segv"}
      BY <3>2 DEF Round
    <3>4. /\ DOMAIN observers[u] = 1 .. n /\ n \in Nat
          /\ \A k \in 1 .. n : observers[u][k] \in Observer
      BY <1>2, LenProperties DEF TypeOK
    <3>5. ok \subseteq 1 .. n
      BY <3>4 DEF Reached
    <3>6. \A k \in ok : observers[u][k].peer \in Peers
      BY <3>4, <3>5 DEF Observer
    <3>7. out' \subseteq Notification
      <4>1. ASSUME NEW k \in ok
            PROVE  [to |-> observers[u][k].peer, uri |-> u, mid |-> mid[k],
                    deleted |-> k \in gone] \in Notification
        <5>1. mid[k] \in Mids /\ (k \in gone) \in BOOLEAN
          OBVIOUS
        <5> QED BY <3>6, <5>1 DEF Notification
      <4> QED BY <3>3, <4>1
    <3> QED BY <1>2, <2>2, <2>7, <3>3, <3>7 DEF TypeOK, Lists, Notify
  <2> QED BY <1>2, <2>1, <2>3, <2>4, <2>5, <2>6, <2>7 DEF Next
<1> QED BY <1>1, <1>2, PTL DEF Spec

-----------------------------------------------------------------------------
(* How observers are lost *)

(* What one client does to a list leaves the others on it. *)
LEMMA OthersStay ==
  ASSUME NEW list \in Seq(Observer), NEW p \in Peers, NEW q \in Peers, p # q,
         NEW m, Has(list, p)
  PROVE  Has(Removed(list, q, m), p) /\ Has(Added(list, q), p)
<1>1. PICK i \in DOMAIN list : list[i].peer = p
  BY DEF Has
<1>2. Has(Removed(list, q, m), p)
  <2>1. CASE Removed(list, q, m) = list
    BY <2>1
  <2>2. CASE \E k \in DOMAIN list : /\ Matches(list[k], q, m)
                                    /\ Removed(list, q, m) = Without(list, k)
    <3>1. PICK k \in DOMAIN list : list[k].peer = q /\ Removed(list, q, m) = Without(list, k)
      BY <2>2 DEF Matches
    <3>2. k # i
      BY <1>1, <3>1
    <3>3. PICK j \in DOMAIN Without(list, k) : Without(list, k)[j] = list[i]
      BY <3>2, WithoutKeeps
    <3> QED BY <1>1, <3>1, <3>3 DEF Has
  <2> QED BY <2>1, <2>2, RemovedSeq
<1>3. Has(Added(list, q), p)
  <2> DEFINE o == [peer |-> q, mid |-> 0]
  <2>1. o \in Observer
    BY DEF Observer
  <2>2. DOMAIN list = 1 .. Len(list) /\ Len(list) \in Nat
    BY LenProperties
  <2> HIDE DEF o
  <2>3. /\ Append(list, o)[i] = list[i]
        /\ DOMAIN Append(list, o) = 1 .. Len(list) + 1
    BY <2>1, <2>2, AppendProperties, LenProperties
  <2>4. i \in DOMAIN Append(list, o)
    BY <2>2, <2>3
  <2>5. Added(list, q) = Append(list, o)
    BY DEF Added, o
  <2> QED BY <1>1, <2>3, <2>4, <2>5 DEF Has
<1> QED BY <1>2, <1>3

(* The list of a client's own resource is the only one that it changes. *)
LEMMA OthersKeep ==
  ASSUME Lists, NEW p \in Peers, NEW u \in Uris, NEW q \in Peers, NEW v \in Uris,
         NEW list, observers' = [observers EXCEPT ![v] = list],
         Has(observers[v], p) => Has(list, p), Observes(p, u)
  PROVE  Observes(p, u)'
<1>1. CASE u = v
  <2>1. observers'[u] = list
    BY <1>1 DEF Lists
  <2> QED BY <1>1, <2>1 DEF Observes, Has
<1>2. CASE u # v
  BY <1>2 DEF Observes, Lists
<1> QED BY <1>1, <1>2

(* One step takes a client off a list only by its own message or with the  *)
(* notification of the deletion.                                           *)
LEMMA DroppedStep ==
  ASSUME ObserveInv, Next, NEW p \in Peers, NEW u \in Uris,
         Observes(p, u), ~Observes(p, u)'
  PROVE  \/ by' = p
         \/ \E n \in out' : n.to = p /\ n.uri = u /\ n.deleted
<1> USE ObserveAssumption
<1>0. Lists
  BY DEF ObserveInv
<1>t. \A v \in Uris : observers[v] \in Seq(Observer)
  BY <1>0 DEF Lists
<1>1. ASSUME NEW q \in Peers, NEW v \in Uris, q # p,
             Get(q, v) \/ GetWait(q, v) \/ RemObserver(q, v) \/ LateObserve(q, v)
      PROVE  FALSE
  <2>1. PICK list \in {Removed(observers[v], q, 0), Added(observers[v], q)} :
          observers' = [observers EXCEPT ![v] = list]
    BY <1>1 DEF Get, GetWait, RemObserver, LateObserve, AfterGet, Become
  <2>2. Has(observers[v], p) => Has(list, p)
    BY <1>1, <1>t, <2>1, OthersStay
  <2> QED BY <1>0, <2>1, <2>2, OthersKeep
<1>2. ASSUME NEW q \in Peers, NEW v \in Uris, q # p, GetObserve(q, v)
      PROVE  FALSE
  <2> DEFINE rest == Removed(observers[v], q, 0)
  <2>1. observers' = [observers EXCEPT ![v] = Added(rest, q)]
    BY <1>2 DEF GetObserve, AfterGet
  <2>2. rest \in Seq(Observer)
    BY <1>t, RemovedSeq
  <2>3. Has(observers[v], p) => Has(rest, p)
    BY <1>2, <1>t, OthersStay
  <2> HIDE DEF rest
  <2>4. Has(observers[v], p) => Has(Added(rest, q), p)
    BY <1>2, <2>2, <2>3, OthersStay
  <2> QED BY <1>0, <2>1, <2>4, OthersKeep
<1>3. ASSUME NEW q \in Peers, NEW m \in Mids, q # p, Rst(q, m)
      PROVE  FALSE
  <2>1. PICK i \in DOMAIN observing :
          Become(observing[i], Removed(observers[observing[i]], q, m))
    BY <1>3 DEF Rst
  <2>2. observing[i] \in Uris
    BY <1>0, LenProperties DEF Lists
  <2> DEFINE v    == observing[i]
             list == Removed(observers[v], q, m)
  <2>3. observers' = [observers EXCEPT ![v] = list]
    BY <2>1 DEF Become
  <2>4. Has(observers[v], p) => Has(list, p)
    BY <1>3, <1>t, <2>2, OthersStay
  <2> HIDE DEF v, list
  <2> QED BY <1>0, <2>2, <2>3, <2>4, OthersKeep DEF v
<1>4. ASSUME NEW v \in Uris, Notify(v)
      PROVE  \E n \in out' : n.to = p /\ n.uri = u /\ n.deleted
  <2> DEFINE n == Len(observers[v])
  <2>1. PICK ok \in Reached(n), drained \in Garbage :
          \E mid \in [ok -> Mids], gone \in SUBSET ok :
          \E stay \in InOrder((1 .. n) \ gone, n) :
            Round(v, ok, mid, gone, stay, drained)
    BY <1>4 DEF Notify
  <2>2. PICK mid \in [ok -> Mids], gone \in SUBSET ok :
          \E stay \in InOrder((1 .. n) \ gone, n) :
            Round(v, ok, mid, gone, stay, drained)
    BY <2>1
  <2>3. PICK stay \in InOrder((1 .. n) \ gone, n) :
          Round(v, ok, mid, gone, stay, drained)
    BY <2>2
  <2> DEFINE list == AfterRound(observers[v], stay, ok, mid)
  <2>4. observers' = [observers EXCEPT ![v] = list]
    BY <2>3 DEF Round
  <2>5. DOMAIN observers[v] = 1 .. n /\ n \in Nat
    BY <1>t, LenProperties
  <2>6. ASSUME NEW i \in (1 .. n) \ gone
        PROVE  Has(list, observers[v][i].peer)
    <3>1. observers[v] \in Seq(Observer)
      BY <1>t
    <3> QED BY <3>1, AfterRoundSeq
  <2>7. u = v
    BY <1>0, <2>4 DEF Lists, Observes
  <2>8. PICK i \in 1 .. n : observers[v][i].peer = p
    BY <2>5, <2>7 DEF Observes
  <2>9. i \in gone
    <3>1. observers'[u] = list
      BY <1>0, <2>4, <2>7 DEF Lists
    <3> HIDE DEF list, n
    <3> QED BY <2>6, <2>8, <3>1 DEF Observes, Has
  <2>10. [to |-> p, uri |-> u, mid |-> mid[i], deleted |-> TRUE] \in out'
    <3>1. out' = {[to |-> observers[v][k].peer, uri |-> v, mid |-> mid[k],
                   deleted |-> k \in gone] : k \in ok}
      BY <2>3 DEF Round
    <3>2. i \in ok /\ (i \in gone) = TRUE
      BY <2>9
    <3> QED BY <2>7, <2>8, <3>1, <3>2
  <2> QED BY <2>10
<1> QED BY <1>1, <1>2, <1>3, <1>4
        DEF Next, Get, GetObserve, GetWait, LateObserve, RemObserver, Rst

(* No client is dropped by what another one sends or by a round that       *)
(* fails.                                                                  *)
THEOREM ObserversNotLost == Spec => DroppedKnowingly
<1>1. Init => ObserveInv
  BY ObserveInit
<1>2. ObserveInv /\ [Next]_vars => ObserveInv'
  BY ObserveStep
<1>3. ObserveInv /\ [Next]_vars
        => [\A p \in Peers, u \in Uris :
              Observes(p, u) /\ ~Observes(p, u)'
                => \/ by' = p
                   \/ \E n \in out' : n.to = p /\ n.uri = u /\ n.deleted]_vars
  BY DroppedStep
<1> QED BY <1>1, <1>2, <1>3, PTL DEF Spec, DroppedKnowingly

=============================================================================
