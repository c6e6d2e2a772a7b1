--------------------------- MODULE EvcoapOptProofs ---------------------------
(***************************************************************************)
(* The option codec for any calls, any lists of a peer and any limits: the *)
(* list stays sorted, what is encoded stays inside the buffer and is       *)
(* decoded to what it was, and the accessors and the URL give back what    *)
(* was added.  The loops of the codec are proved by induction, for which   *)
(* the first part has what is needed.                                      *)
(***************************************************************************)
EXTENDS EvcoapOpt, TLAPS, FiniteSetTheorems, WellFoundedInduction,
        SequenceTheorems

-----------------------------------------------------------------------------
(***************************************************************************)
(* Induction over data.  The library states it for an operator, which the  *)
(* provers cannot instantiate; here it is stated for a set: the numbers    *)
(* or the sequences that have a property are all of them.                  *)
(***************************************************************************)

\* Induction over the natural numbers, for a set of them.
LEMMA NatInduct ==
  ASSUME NEW T \in SUBSET Nat, 0 \in T, \A n \in T : n + 1 \in T
  PROVE  T = Nat
<1> DEFINE U == Nat \ T
<1> SUFFICES ASSUME U # {} PROVE FALSE
  OBVIOUS
<1>1. U \subseteq Nat
  OBVIOUS
<1>2. PICK k \in U : \A m \in U : ~(<<m, k>> \in OpToRel(<, Nat))
  <2> HIDE DEF U
  <2> QED BY <1>1, NatLessThanWellFounded, WFMin
<1>3. k \in Nat /\ k # 0
  BY <1>2
<1>4. k - 1 \in Nat /\ <<k - 1, k>> \in OpToRel(<, Nat)
  BY <1>3 DEF OpToRel
<1>5. k - 1 \in T
  BY <1>2, <1>4
<1>6. k \in T
  BY <1>3, <1>5
<1> QED BY <1>2, <1>6

\* Induction over sequences, for a set of them.
LEMMA SeqInduct ==
  ASSUME NEW S, NEW T \in SUBSET Seq(S), <<>> \in T,
         \A s \in Seq(S), x \in S : s \in T => Append(s, x) \in T
  PROVE  T = Seq(S)
<1> DEFINE U == {n \in Nat : \A s \in Seq(S) : Len(s) = n => s \in T}
<1>1. 0 \in U
  <2>1. \A s \in Seq(S) : Len(s) = 0 => s = <<>>
    BY EmptySeq
  <2> QED BY <2>1
<1>2. ASSUME NEW n \in U PROVE n + 1 \in U
  <2> SUFFICES ASSUME NEW s \in Seq(S), Len(s) = n + 1 PROVE s \in T
    OBVIOUS
  <2>1. s # <<>> /\ n \in Nat
    BY EmptySeq
  <2>2. PICK t \in Seq(S), x \in S : s = Append(t, x)
    BY <2>1, SequenceEmptyOrAppend
  <2>3. Len(t) \in Nat /\ Len(s) = Len(t) + 1
    BY <2>2, LenProperties, AppendProperties
  <2>4. Len(t) = n
    BY <2>1, <2>3
  <2>5. t \in T
    BY <1>2, <2>4
  <2> QED BY <2>2, <2>5
<1>3. U = Nat
  <2>1. U \in SUBSET Nat
    OBVIOUS
  <2> HIDE DEF U
  <2> QED BY <1>1, <1>2, <2>1, NatInduct
<1>4. ASSUME NEW s \in Seq(S) PROVE s \in T
  BY <1>3, LenProperties
<1> QED BY <1>4

\* What a loop of N rounds has computed after each of them.
Steps(S, N) == [1 .. N -> [S -> S]]

\* f is what that loop computes, from base on.
Rounds(f, S, N, base, step) ==
  /\ f \in [0 .. N -> S] /\ f[0] = base
  /\ \A i \in 1 .. N : f[i] = step[i][f[i - 1]]

\* A function that is defined by recursion along 0 .. N exists.
LEMMA Recursion ==
  ASSUME NEW S, NEW N \in Nat, NEW base \in S, NEW step \in Steps(S, N)
  PROVE  \E f : Rounds(f, S, N, base, step)
<1> USE DEF Steps
<1> DEFINE P(n, f) == /\ f \in [0 .. n -> S] /\ f[0] = base
                      /\ \A i \in 1 .. n : f[i] = step[i][f[i - 1]]
           T == {n \in Nat : n <= N => \E f : P(n, f)}
<1>1. 0 \in T
  <2>1. P(0, [i \in 0 .. 0 |-> base])
    OBVIOUS
  <2> QED BY <2>1
<1>2. ASSUME NEW n \in T PROVE n + 1 \in T
  <2> SUFFICES ASSUME n + 1 <= N PROVE \E f : P(n + 1, f)
    OBVIOUS
  <2>1. n \in Nat /\ n <= N /\ n + 1 \in 1 .. N
    OBVIOUS
  <2>2. PICK f : P(n, f)
    BY <1>2, <2>1
  <2>3. f \in [0 .. n -> S] /\ f[0] = base /\ f[n] \in S
    BY <2>1, <2>2
  <2> DEFINE last == step[n + 1][f[n]]
             g == [i \in 0 .. n + 1 |-> IF i <= n THEN f[i] ELSE last]
  <2>4. last \in S
    <3>1. step[n + 1] \in [S -> S]
      BY <2>1
    <3> QED BY <2>3, <3>1
  <2>5. \A i \in 1 .. n : f[i] = step[i][f[i - 1]]
    BY <2>2
  <2> HIDE DEF P
  <2>6. g \in [0 .. n + 1 -> S] /\ g[0] = base
    <3> HIDE DEF last
    <3> QED BY <2>1, <2>3, <2>4
  <2>7. ASSUME NEW i \in 1 .. n + 1 PROVE g[i] = step[i][g[i - 1]]
    <3>1. CASE i \in 1 .. n
      <4>1. g[i] = f[i] /\ g[i - 1] = f[i - 1]
        BY <2>1, <3>1
      <4> QED BY <2>5, <3>1, <4>1
    <3>2. CASE i = n + 1
      <4>1. g[i] = last /\ g[i - 1] = f[n]
        BY <2>1, <3>2
      <4> QED BY <3>2, <4>1
    <3> QED BY <2>1, <3>1, <3>2
  <2> HIDE DEF g
  <2>8. P(n + 1, g)
    BY <2>6, <2>7 DEF P
  <2> QED BY <2>8
<1>3. T = Nat
  <2>1. T \in SUBSET Nat
    OBVIOUS
  <2> HIDE DEF T
  <2> QED BY <1>1, <1>2, <2>1, NatInduct
<1>4. \E f : P(N, f)
  <2>1. N <= N /\ N \in T
    <3> HIDE DEF T
    <3> QED BY <1>3
  <2> HIDE DEF P
  <2> QED BY <2>1, Zenon
<1> QED BY <1>4 DEF Rounds

\* FlattenSeq is a loop that appends one sequence after the other.
LEMMA FlattenLoop ==
  ASSUME NEW S, NEW s \in Seq(Seq(S))
  PROVE  \E f \in [0 .. Len(s) -> Seq(S)] :
           /\ f[0] = <<>> /\ FlattenSeq(s) = f[Len(s)]
           /\ \A i \in 1 .. Len(s) : f[i] = f[i - 1] \o s[i]
<1> DEFINE N == Len(s)
           step == [i \in 1 .. N |-> [a \in Seq(S) |-> a \o s[i]]]
           Def(e) == [i \in 1 .. N |-> IF i = 1 THEN s[i] ELSE e[i - 1] \o s[i]]
<1>1. N \in Nat /\ \A i \in 1 .. N : s[i] \in Seq(S)
  BY LenProperties, ElementOfSeq
<1> HIDE DEF N
<1>2. step \in [1 .. N -> [Seq(S) -> Seq(S)]]
  BY <1>1, ConcatProperties
<1>3. <<>> \in Seq(S)
  BY EmptySeq
<1>4. PICK f : Rounds(f, Seq(S), N, <<>>, step)
  <2>1. step \in Steps(Seq(S), N)
    BY <1>2 DEF Steps
  <2> HIDE DEF step
  <2> QED BY <1>1, <1>3, <2>1, Recursion
<1>9. f \in [0 .. N -> Seq(S)] /\ f[0] = <<>>
  BY <1>4 DEF Rounds
<1>5. ASSUME NEW i \in 1 .. N
      PROVE  f[i - 1] \in Seq(S) /\ f[i] = f[i - 1] \o s[i]
  <2>1. f[i - 1] \in Seq(S)
    BY <1>1, <1>9
  <2>2. f[i] = step[i][f[i - 1]]
    BY <1>4 DEF Rounds
  <2> QED BY <2>1, <2>2
<1>6. CASE N = 0
  <2>1. s = <<>> /\ FlattenSeq(s) = s
    BY <1>6, EmptySeq DEF FlattenSeq, N
  <2> QED BY <1>5, <1>6, <1>9, <2>1 DEF N
<1>7. CASE N # 0
  <2> DEFINE g == [i \in 1 .. N |-> f[i]]
  <2>1. g = Def(g)
    <3> SUFFICES ASSUME NEW i \in 1 .. N
                 PROVE  f[i] = IF i = 1 THEN s[i] ELSE g[i - 1] \o s[i]
      OBVIOUS
    <3>1. CASE i = 1
      <4>1. f[i - 1] = <<>>
        BY <1>9, <3>1
      <4> QED BY <1>1, <1>5, <3>1, <4>1, ConcatEmptySeq
    <3>2. CASE i # 1
      <4>1. g[i - 1] = f[i - 1]
        BY <1>1, <3>2
      <4> QED BY <1>5, <3>2, <4>1
    <3> QED BY <3>1, <3>2
  <2> DEFINE h == CHOOSE e : e = Def(e)
  <2>2. h = Def(h)
    <3> HIDE DEF g, Def
    <3> QED BY <2>1
  <2>3. FlattenSeq(s) = h[N]
    BY <1>7 DEF FlattenSeq, N
  <2> HIDE DEF h
  <2> DEFINE T == {n \in Nat : n + 1 <= N => h[n + 1] = f[n + 1]}
  <2>4. 0 \in T
    <3>1. 1 \in 1 .. N
      BY <1>1, <1>7
    <3>2. h[1] = s[1]
      BY <2>2, <3>1
    <3>3. f[1] = g[1] /\ g[1] = s[1]
      BY <2>1, <3>1
    <3> QED BY <3>2, <3>3
  <2>5. ASSUME NEW n \in T PROVE n + 1 \in T
    <3> SUFFICES ASSUME n + 1 + 1 <= N PROVE h[n + 1 + 1] = f[n + 1 + 1]
      OBVIOUS
    <3> DEFINE i == n + 1 + 1
    <3>1. n \in Nat /\ i \in 1 .. N /\ i # 1 /\ i - 1 = n + 1 /\ n + 1 <= N
      BY <1>1
    <3>2. h[i] = h[i - 1] \o s[i]
      BY <2>2, <3>1
    <3>3. h[i - 1] = f[i - 1]
      BY <3>1
    <3> HIDE DEF i
    <3> QED BY <1>5, <3>1, <3>2, <3>3 DEF i
  <2>6. T = Nat
    <3>1. T \in SUBSET Nat
      OBVIOUS
    <3> HIDE DEF T
    <3> QED BY <2>4, <2>5, <3>1, NatInduct
  <2>7. h[N] = f[N]
    <3>1. N - 1 \in Nat /\ N - 1 + 1 = N
      BY <1>1, <1>7
    <3>2. N - 1 \in T
      <4> HIDE DEF T
      <4> QED BY <2>6, <3>1
    <3> QED BY <1>1, <3>1, <3>2
  <2> QED BY <1>5, <1>9, <2>3, <2>7 DEF N
<1> QED BY <1>6, <1>7

\* FlattenSeq by its last sequence.
LEMMA FlattenRules ==
  ASSUME NEW S, NEW s \in Seq(Seq(S))
  PROVE  /\ FlattenSeq(<<>>) = <<>>
         /\ FlattenSeq(s) \in Seq(S)
         /\ \A x \in Seq(S) : FlattenSeq(Append(s, x)) = FlattenSeq(s) \o x
<1>1. FlattenSeq(<<>>) = <<>>
  BY EmptySeq DEF FlattenSeq
<1>2. PICK f \in [0 .. Len(s) -> Seq(S)] :
        /\ f[0] = <<>> /\ FlattenSeq(s) = f[Len(s)]
        /\ \A i \in 1 .. Len(s) : f[i] = f[i - 1] \o s[i]
  BY FlattenLoop
<1>3. Len(s) \in Nat /\ FlattenSeq(s) \in Seq(S)
  BY <1>2, LenProperties
<1>4. ASSUME NEW x \in Seq(S)
      PROVE  FlattenSeq(Append(s, x)) = FlattenSeq(s) \o x
  <2> DEFINE t == Append(s, x)
  <2>1. /\ t \in Seq(Seq(S)) /\ Len(t) = Len(s) + 1
        /\ \A i \in 1 .. Len(s) : t[i] = s[i]
        /\ t[Len(s) + 1] = x
    BY AppendProperties
  <2> HIDE DEF t
  <2>2. PICK g \in [0 .. Len(t) -> Seq(S)] :
          /\ g[0] = <<>> /\ FlattenSeq(t) = g[Len(t)]
          /\ \A i \in 1 .. Len(t) : g[i] = g[i - 1] \o t[i]
    BY <2>1, FlattenLoop
  <2> DEFINE T == {n \in Nat : n <= Len(s) => f[n] = g[n]}
  <2>3. 0 \in T
    BY <1>2, <2>2
  <2>4. ASSUME NEW n \in T PROVE n + 1 \in T
    <3> SUFFICES ASSUME n + 1 <= Len(s) PROVE f[n + 1] = g[n + 1]
      OBVIOUS
    <3> DEFINE i == n + 1
    <3>1. /\ n \in Nat /\ i \in 1 .. Len(s) /\ i \in 1 .. Len(t)
          /\ n <= Len(s) /\ i - 1 = n
      BY <1>3, <2>1
    <3>2. f[n] = g[n]
      BY <3>1
    <3> HIDE DEF i
    <3>3. f[i] = f[i - 1] \o s[i]
      BY <1>2, <3>1
    <3>4. g[i] = g[i - 1] \o t[i]
      BY <2>2, <3>1
    <3>5. f[i] = g[i]
      BY <2>1, <3>1, <3>2, <3>3, <3>4
    <3> QED BY <3>5 DEF i
  <2>5. T = Nat
    <3>1. T \in SUBSET Nat
      OBVIOUS
    <3> HIDE DEF T
    <3> QED BY <2>3, <2>4, <3>1, NatInduct
  <2>6. f[Len(s)] = g[Len(s)]
    <3>1. Len(s) \in T
      <4> HIDE DEF T
      <4> QED BY <1>3, <2>5
    <3> QED BY <1>3, <3>1
  <2>7. Len(t) \in 1 .. Len(t) /\ Len(t) - 1 = Len(s)
    BY <1>3, <2>1
  <2>8. g[Len(t)] = g[Len(s)] \o x
    BY <2>1, <2>2, <2>7
  <2> QED BY <1>2, <2>2, <2>6, <2>8 DEF t
<1> QED BY <1>1, <1>3, <1>4

\* Appending to the second of two sequences appends to both.
LEMMA ConcatAppend ==
  ASSUME NEW S, NEW s \in Seq(S), NEW t \in Seq(S), NEW x \in S
  PROVE  s \o Append(t, x) = Append(s \o t, x)
<1>1. <<x>> \in Seq(S)
  OBVIOUS
<1>2. Append(t, x) = t \o <<x>> /\ s \o t \in Seq(S)
  BY AppendIsConcat, ConcatProperties
<1>3. Append(s \o t, x) = (s \o t) \o <<x>>
  BY <1>2, AppendIsConcat
<1>4. (s \o t) \o <<x>> = s \o (t \o <<x>>)
  BY <1>1, ConcatAssociative
<1> QED BY <1>2, <1>3, <1>4

\* Joining sequences is associative.
LEMMA Associative ==
  ASSUME NEW S
  PROVE  \A p, q, r \in Seq(S) : (p \o q) \o r = p \o (q \o r)
<1> SUFFICES ASSUME NEW p \in Seq(S), NEW q \in Seq(S), NEW r \in Seq(S)
             PROVE  (p \o q) \o r = p \o (q \o r)
  OBVIOUS
<1> QED BY ConcatAssociative

\* FlattenSeq of two lists is that of the first and that of the second.
LEMMA FlattenConcat ==
  ASSUME NEW S, NEW s \in Seq(Seq(S)), NEW t \in Seq(Seq(S))
  PROVE  FlattenSeq(s \o t) = FlattenSeq(s) \o FlattenSeq(t)
<1>0. \A p, q, r \in Seq(S) : (p \o q) \o r = p \o (q \o r)
  BY Associative
<1> DEFINE T == {u \in Seq(Seq(S)) :
                  FlattenSeq(s \o u) = FlattenSeq(s) \o FlattenSeq(u)}
<1>1. <<>> \in T
  <2>1. <<>> \in Seq(Seq(S)) /\ s \o <<>> = s
    BY EmptySeq, ConcatEmptySeq
  <2>2. FlattenSeq(<<>>) = <<>> /\ FlattenSeq(s) \in Seq(S)
    BY FlattenRules
  <2>3. FlattenSeq(s) \o <<>> = FlattenSeq(s)
    BY <2>2, ConcatEmptySeq
  <2> QED BY <2>1, <2>2, <2>3
<1>2. ASSUME NEW u \in Seq(Seq(S)), u \in T, NEW x \in Seq(S)
      PROVE  Append(u, x) \in T
  <2>1. Append(u, x) \in Seq(Seq(S)) /\ s \o u \in Seq(Seq(S))
    BY AppendProperties, ConcatProperties
  <2>2. s \o Append(u, x) = Append(s \o u, x)
    BY ConcatAppend
  <2>3. FlattenSeq(Append(s \o u, x)) = FlattenSeq(s \o u) \o x
    BY <2>1, FlattenRules
  <2>4. FlattenSeq(Append(u, x)) = FlattenSeq(u) \o x
    BY FlattenRules
  <2>5. FlattenSeq(s) \in Seq(S) /\ FlattenSeq(u) \in Seq(S)
    BY FlattenRules
  <2>6. (FlattenSeq(s) \o FlattenSeq(u)) \o x
          = FlattenSeq(s) \o (FlattenSeq(u) \o x)
    BY <1>0, <2>5
  <2> QED BY <1>2, <2>1, <2>2, <2>3, <2>4, <2>6
<1>3. T = Seq(Seq(S))
  <2>1. T \in SUBSET Seq(Seq(S))
    OBVIOUS
  <2> HIDE DEF T
  <2> QED BY <1>1, <1>2, <2>1, SeqInduct
<1> QED BY <1>3

\* A sequence is what comes up to a position and what comes after it.
LEMMA SplitAt ==
  ASSUME NEW S, NEW s \in Seq(S), NEW i \in 0 .. Len(s)
  PROVE  /\ SubSeq(s, 1, i) \in Seq(S) /\ Len(SubSeq(s, 1, i)) = i
         /\ SubSeq(s, i + 1, Len(s)) \in Seq(S)
         /\ s = SubSeq(s, 1, i) \o SubSeq(s, i + 1, Len(s))
<1>1. Len(s) \in Nat /\ DOMAIN s = 1 .. Len(s)
  BY LenProperties
<1>2. \A k \in 1 .. Len(s) : s[k] \in S
  BY ElementOfSeq
<1>3. SubSeq(s, 1, i) \in Seq(S) /\ Len(SubSeq(s, 1, i)) = i
  <2>1. 1 \in Int /\ i \in Int /\ \A k \in 1 .. i : s[k] \in S
    BY <1>1, <1>2
  <2>2. Len(SubSeq(s, 1, i)) = IF 1 <= i THEN i - 1 + 1 ELSE 0
    BY <2>1, SubSeqProperties
  <2> QED BY <1>1, <2>1, <2>2, SubSeqProperties
<1>4. SubSeq(s, i + 1, Len(s)) \in Seq(S)
  <2>1. i + 1 \in Int /\ Len(s) \in Int /\ \A k \in i + 1 .. Len(s) : s[k] \in S
    BY <1>1, <1>2
  <2> QED BY <2>1, SubSeqProperties
<1>5. SubSeq(s, 1, i) \o SubSeq(s, i + 1, Len(s)) = SubSeq(s, 1, Len(s))
  <2>1. 1 \in 1 .. Len(s) + 1 /\ i \in 1 - 1 .. Len(s) /\ Len(s) \in i .. Len(s)
    BY <1>1
  <2> QED BY <2>1, ConcatAdjacentSubSeq
<1> QED BY <1>3, <1>4, <1>5, SubSeqFull

\* A prefix is the one before it and one element more.
LEMMA PrefixNext ==
  ASSUME NEW S, NEW s \in Seq(S), NEW i \in 1 .. Len(s)
  PROVE  SubSeq(s, 1, i) = Append(SubSeq(s, 1, i - 1), s[i])
<1>1. Len(s) \in Nat /\ s[i] \in S
  BY LenProperties, ElementOfSeq
<1>2. 1 \in 1 .. Len(s) /\ i \in 1 .. Len(s) /\ i - 1 \in 0 .. Len(s)
  BY <1>1
<1>3. SubSeq(s, 1, i) = SubSeq(s, 1, i - 1) \o <<s[i]>>
  BY <1>2, SubSeqRecursiveSecond
<1>4. SubSeq(s, 1, i - 1) \in Seq(S)
  BY <1>2, SplitAt
<1> QED BY <1>1, <1>3, <1>4, AppendIsConcat

\* A flattened comprehension, by its last round.
LEMMA FlattenLast ==
  ASSUME NEW S, NEW N \in Nat, NEW f \in [1 .. N + 1 -> Seq(S)]
  PROVE  /\ [i \in 1 .. N |-> f[i]] \in Seq(Seq(S))
         /\ FlattenSeq([i \in 1 .. N |-> f[i]]) \in Seq(S)
         /\ FlattenSeq(f) = FlattenSeq([i \in 1 .. N |-> f[i]]) \o f[N + 1]
<1> DEFINE s == [i \in 1 .. N |-> f[i]]
           x == f[N + 1]
<1>1. s \in Seq(Seq(S)) /\ Len(s) = N /\ x \in Seq(S)
  OBVIOUS
<1>2. f = Append(s, x)
  <2>1. f \in Seq(Seq(S)) /\ Len(f) = N + 1
    OBVIOUS
  <2>2. Append(s, x) \in Seq(Seq(S)) /\ Len(Append(s, x)) = N + 1
    <3> HIDE DEF s, x
    <3> QED BY <1>1, AppendProperties
  <2>3. ASSUME NEW i \in 1 .. N + 1 PROVE f[i] = Append(s, x)[i]
    <3>1. i <= N => s[i] = f[i]
      OBVIOUS
    <3>2. x = f[N + 1]
      OBVIOUS
    <3> HIDE DEF s, x
    <3>3. CASE i <= N
      <4>1. i \in 1 .. Len(s)
        BY <1>1, <3>3
      <4> QED BY <1>1, <3>1, <3>3, <4>1, AppendProperties
    <3>4. CASE i = N + 1
      BY <1>1, <3>2, <3>4, AppendProperties
    <3>5. i <= N \/ i = N + 1
      OBVIOUS
    <3> QED BY <3>3, <3>4, <3>5
  <2> HIDE DEF s, x
  <2> QED BY <2>1, <2>2, <2>3, SeqEqual
<1> HIDE DEF s, x
<1>3. FlattenSeq(s) \in Seq(S) /\ FlattenSeq(Append(s, x)) = FlattenSeq(s) \o x
  BY <1>1, FlattenRules
<1> QED BY <1>1, <1>2, <1>3 DEF s, x

\* What a loop over a list gathers, g of each element after the other.
Gather(b, g) == FlattenSeq([i \in DOMAIN b |-> g[b[i]]])

\* Nothing is gathered from an empty list; what is gathered has its type.
LEMMA GatherRules ==
  ASSUME NEW A, NEW S, NEW g \in [A -> Seq(S)], NEW b \in Seq(A)
  PROVE  /\ Gather(<<>>, g) = <<>>
         /\ Gather(b, g) \in Seq(S)
<1>1. Gather(<<>>, g) = <<>>
  <2>1. [i \in DOMAIN <<>> |-> g[<<>>[i]]] = <<>>
    OBVIOUS
  <2>2. <<>> \in Seq(Seq(S))
    BY EmptySeq
  <2> QED BY <2>1, <2>2, FlattenRules DEF Gather
<1>2. Len(b) \in Nat /\ DOMAIN b = 1 .. Len(b) /\ \A i \in 1 .. Len(b) : b[i] \in A
  BY LenProperties, ElementOfSeq
<1>3. Gather(b, g) \in Seq(S)
  <2> DEFINE s == [i \in DOMAIN b |-> g[b[i]]]
  <2>1. s \in Seq(Seq(S))
    BY <1>2
  <2> HIDE DEF s
  <2>2. FlattenSeq(s) \in Seq(S)
    BY <2>1, FlattenRules
  <2> QED BY <2>2 DEF s, Gather
<1> QED BY <1>1, <1>3

\* What a list gathers with one element more.
LEMMA GatherAppend ==
  ASSUME NEW A, NEW S, NEW g \in [A -> Seq(S)], NEW b \in Seq(A), NEW x \in A
  PROVE  Gather(Append(b, x), g) = Gather(b, g) \o g[x]
<1>0. Len(b) \in Nat /\ DOMAIN b = 1 .. Len(b) /\ \A i \in 1 .. Len(b) : b[i] \in A
  BY LenProperties, ElementOfSeq
<1> DEFINE c == Append(b, x)
           N == Len(b)
           f == [i \in 1 .. N + 1 |-> g[c[i]]]
<1>1. /\ c \in Seq(A) /\ Len(c) = N + 1 /\ c[N + 1] = x
      /\ \A i \in 1 .. N : c[i] = b[i]
  BY AppendProperties
<1>2. DOMAIN c = 1 .. N + 1 /\ \A i \in 1 .. N + 1 : c[i] \in A
  BY <1>1, LenProperties, ElementOfSeq
<1> HIDE DEF c, N
<1>3. f \in [1 .. N + 1 -> Seq(S)] /\ f[N + 1] = g[x]
  BY <1>0, <1>1, <1>2 DEF N
<1>4. [i \in 1 .. N |-> f[i]] = [i \in DOMAIN b |-> g[b[i]]]
  BY <1>0, <1>1 DEF N
<1>5. Gather(c, g) = FlattenSeq(f)
  BY <1>2 DEF Gather
<1>6. FlattenSeq(f) = FlattenSeq([i \in 1 .. N |-> f[i]]) \o f[N + 1]
  <2>1. N \in Nat
    BY <1>0 DEF N
  <2> HIDE DEF f
  <2> QED BY <1>3, <2>1, FlattenLast
<1>7. FlattenSeq([i \in 1 .. N |-> f[i]]) = Gather(b, g)
  BY <1>4 DEF Gather
<1> QED BY <1>3, <1>5, <1>6, <1>7 DEF c

\* What two lists gather, one after the other.
LEMMA GatherConcat ==
  ASSUME NEW A, NEW S, NEW g \in [A -> Seq(S)], NEW a \in Seq(A), NEW b \in Seq(A)
  PROVE  Gather(a \o b, g) = Gather(a, g) \o Gather(b, g)
<1> DEFINE T == {t \in Seq(A) : Gather(a \o t, g) = Gather(a, g) \o Gather(t, g)}
<1>1. <<>> \in T
  <2>1. <<>> \in Seq(A) /\ a \o <<>> = a
    BY EmptySeq, ConcatEmptySeq
  <2>2. Gather(<<>>, g) = <<>> /\ Gather(a, g) \in Seq(S)
    BY GatherRules
  <2>3. Gather(a, g) \o <<>> = Gather(a, g)
    BY <2>2, ConcatEmptySeq
  <2> QED BY <2>1, <2>2, <2>3
<1>2. ASSUME NEW t \in Seq(A), t \in T, NEW x \in A
      PROVE  Append(t, x) \in T
  <2>1. Append(t, x) \in Seq(A) /\ a \o t \in Seq(A) /\ g[x] \in Seq(S)
    BY AppendProperties, ConcatProperties
  <2>2. a \o Append(t, x) = Append(a \o t, x)
    BY ConcatAppend
  <2>3. Gather(Append(a \o t, x), g) = Gather(a \o t, g) \o g[x]
    BY <2>1, GatherAppend
  <2>4. Gather(Append(t, x), g) = Gather(t, g) \o g[x]
    BY GatherAppend
  <2>5. Gather(a, g) \in Seq(S) /\ Gather(t, g) \in Seq(S)
    BY GatherRules
  <2>6. (Gather(a, g) \o Gather(t, g)) \o g[x] = Gather(a, g) \o (Gather(t, g) \o g[x])
    BY <2>1, <2>5, ConcatAssociative
  <2> QED BY <1>2, <2>1, <2>2, <2>3, <2>4, <2>6
<1>3. T = Seq(A)
  <2>1. T \in SUBSET Seq(A)
    OBVIOUS
  <2> HIDE DEF T
  <2> QED BY <1>1, <1>2, <2>1, SeqInduct
<1> QED BY <1>3

\* Two sequences make an empty one only if both are empty.
LEMMA ConcatNil ==
  ASSUME NEW S, NEW s \in Seq(S), NEW t \in Seq(S)
  PROVE  s \o t = <<>> <=> s = <<>> /\ t = <<>>
<1>1. Len(s \o t) = Len(s) + Len(t) /\ Len(s) \in Nat /\ Len(t) \in Nat
  BY ConcatProperties, LenProperties
<1>2. s \o t \in Seq(S)
  BY ConcatProperties
<1> QED BY <1>1, <1>2, EmptySeq

\* Nothing is gathered if and only if no element gives anything.
LEMMA GatherNothing ==
  ASSUME NEW A, NEW S, NEW g \in [A -> Seq(S)], NEW b \in Seq(A)
  PROVE  Gather(b, g) = <<>> <=> \A i \in 1 .. Len(b) : g[b[i]] = <<>>
<1> DEFINE P(t) == Gather(t, g) = <<>> <=> \A i \in 1 .. Len(t) : g[t[i]] = <<>>
           T == {t \in Seq(A) : P(t)}
<1>1. <<>> \in T
  <2>1. Gather(<<>>, g) = <<>>
    BY GatherRules
  <2>2. <<>> \in Seq(A) /\ \A i \in 1 .. Len(<<>>) : g[<<>>[i]] = <<>>
    BY EmptySeq
  <2> QED BY <2>1, <2>2
<1>2. ASSUME NEW t \in Seq(A), t \in T, NEW x \in A
      PROVE  Append(t, x) \in T
  <2> DEFINE u == Append(t, x)
  <2>1. /\ u \in Seq(A) /\ Len(u) = Len(t) + 1 /\ u[Len(t) + 1] = x
        /\ \A i \in 1 .. Len(t) : u[i] = t[i]
    BY AppendProperties
  <2>2. Gather(u, g) = Gather(t, g) \o g[x]
    BY GatherAppend
  <2>3. Gather(t, g) \in Seq(S) /\ g[x] \in Seq(S)
    BY GatherRules
  <2>4. Gather(u, g) = <<>> <=> Gather(t, g) = <<>> /\ g[x] = <<>>
    BY <2>2, <2>3, ConcatNil
  <2>5. Gather(t, g) = <<>> <=> \A i \in 1 .. Len(t) : g[t[i]] = <<>>
    BY <1>2
  <2>6. Len(t) \in Nat
    BY LenProperties
  <2> HIDE DEF u
  <2>7. (\A i \in 1 .. Len(u) : g[u[i]] = <<>>)
        <=> (\A i \in 1 .. Len(t) : g[t[i]] = <<>>) /\ g[x] = <<>>
    <3>1. \A i \in 1 .. Len(t) : i \in 1 .. Len(u) /\ u[i] = t[i]
      BY <2>1, <2>6
    <3>2. Len(t) + 1 \in 1 .. Len(u)
      BY <2>1, <2>6
    <3>3. \A i \in 1 .. Len(u) : i \in 1 .. Len(t) \/ i = Len(t) + 1
      BY <2>1, <2>6
    <3> HIDE DEF T
    <3> QED BY <2>1, <3>1, <3>2, <3>3
  <2>8. P(u)
    BY <2>4, <2>5, <2>7
  <2> QED BY <2>1, <2>8 DEF u
<1>3. T = Seq(A)
  <2>1. T \in SUBSET Seq(A)
    OBVIOUS
  <2> HIDE DEF T
  <2> QED BY <1>1, <1>2, <2>1, SeqInduct
<1> QED BY <1>3

\* Nothing is gathered if no element gives anything ...
LEMMA GatherNone ==
  ASSUME NEW A, NEW S, NEW g \in [A -> Seq(S)], NEW b \in Seq(A),
         \A i \in 1 .. Len(b) : g[b[i]] = <<>>
  PROVE  Gather(b, g) = <<>>
BY GatherNothing

\* ... and only then.
LEMMA GatherEmpty ==
  ASSUME NEW A, NEW S, NEW g \in [A -> Seq(S)], NEW b \in Seq(A),
         Gather(b, g) = <<>>, NEW i \in 1 .. Len(b)
  PROVE  g[b[i]] = <<>>
BY GatherNothing

\* The first thing that g gives for each element of b ...
Each(b, g) == [i \in 1 .. Len(b) |-> g[b[i]][1]]

\* ... and that there is no other.
OneEach(b, g) == \A i \in 1 .. Len(b) : g[b[i]] = <<g[b[i]][1]>>

\* The only element of a sequence is one of its set.
LEMMA FirstOf ==
  ASSUME NEW S, NEW e \in Seq(S), Len(e) = 1
  PROVE  e[1] \in S
<1>1. 1 \in 1 .. Len(e)
  OBVIOUS
<1> QED BY <1>1, ElementOfSeq

\* A sequence of one element is that element.
LEMMA OnlyOne ==
  ASSUME NEW S, NEW e \in Seq(S), Len(e) = 1
  PROVE  e = <<e[1]>>
<1>1. e[1] \in S
  BY FirstOf
<1> DEFINE t == <<e[1]>>
<1>2. t \in Seq(S) /\ Len(t) = 1 /\ t[1] = e[1]
  BY <1>1
<1>3. \A i \in 1 .. 1 : i = 1
  OBVIOUS
<1>4. \A i \in 1 .. Len(e) : e[i] = t[i]
  <2> HIDE DEF t
  <2> QED BY <1>2, <1>3
<1> HIDE DEF t
<1>5. e = t
  BY <1>2, <1>4, SeqEqual
<1> QED BY <1>5 DEF t

\* If each element gives one thing, a list of these is gathered.
LEMMA GatherOne ==
  ASSUME NEW A, NEW S, NEW g \in [A -> Seq(S)], NEW b \in Seq(A), OneEach(b, g)
  PROVE  Gather(b, g) = Each(b, g)
<1> DEFINE h(x) == g[x][1]
           M(t) == [i \in 1 .. Len(t) |-> h(t[i])]
           T == {t \in Seq(A) : (\A i \in 1 .. Len(t) : g[t[i]] = <<h(t[i])>>)
                                => Gather(t, g) = M(t)}
<1>1. <<>> \in T
  <2>1. Gather(<<>>, g) = <<>>
    BY GatherRules
  <2>2. <<>> \in Seq(A) /\ M(<<>>) = <<>>
    BY EmptySeq
  <2> QED BY <2>1, <2>2
<1>2. ASSUME NEW t \in Seq(A), t \in T, NEW x \in A
      PROVE  Append(t, x) \in T
  <2> DEFINE u == Append(t, x)
  <2>1. /\ u \in Seq(A) /\ Len(u) = Len(t) + 1 /\ u[Len(t) + 1] = x
        /\ \A i \in 1 .. Len(t) : u[i] = t[i]
    BY AppendProperties
  <2>2. Gather(u, g) = Gather(t, g) \o g[x]
    BY GatherAppend
  <2>3. Len(t) \in Nat /\ t \in Seq(A)
    BY LenProperties
  <2>9. \A i \in 1 .. Len(t) : t[i] \in A
    BY ElementOfSeq
  <2> HIDE DEF u
  <2>4. ASSUME \A i \in 1 .. Len(u) : g[u[i]] = <<h(u[i])>>
        PROVE  Gather(u, g) = M(u)
    <3>1. \A i \in 1 .. Len(t) : i \in 1 .. Len(u) /\ u[i] = t[i]
      <4>1. \A i \in 1 .. Len(t) : i \in 1 .. Len(u)
        <5> HIDE DEF T, M
        <5> QED BY <2>1, <2>3
      <4> QED BY <2>1, <4>1
    <3>2. Len(t) + 1 \in 1 .. Len(u)
      BY <2>1, <2>3
    <3>3. g[x] = <<h(x)>>
      BY <2>1, <2>4, <3>2
    <3>4. Gather(t, g) = M(t)
      BY <1>2, <2>4, <3>1
    <3>9. \A y \in A : g[y] = <<h(y)>> => h(y) \in S
      <4> SUFFICES ASSUME NEW y \in A, g[y] = <<h(y)>> PROVE h(y) \in S
        OBVIOUS
      <4>1. g[y] \in Seq(S) /\ Len(g[y]) = 1
        OBVIOUS
      <4>2. \A e \in Seq(S) : Len(e) = 1 => e[1] \in S
        BY FirstOf
      <4> QED BY <4>1, <4>2
    <3>5. M(t) \in Seq(S)
      <4>1. \A i \in 1 .. Len(t) : h(t[i]) \in S
        BY <2>4, <2>9, <3>1, <3>9
      <4> HIDE DEF h
      <4> QED BY <2>3, <4>1
    <3>10. h(x) \in S
      BY <3>3, <3>9
    <3>6. M(u) = Append(M(t), h(x))
      <4> HIDE DEF h
      <4> QED BY <2>1, <2>3
    <3>7. Append(M(t), h(x)) = M(t) \o <<h(x)>>
      BY <3>5, <3>10, AppendIsConcat
    <3> QED BY <2>2, <3>3, <3>4, <3>6, <3>7
  <2> QED BY <2>1, <2>4 DEF u
<1>3. T = Seq(A)
  <2>1. T \in SUBSET Seq(A)
    OBVIOUS
  <2> HIDE DEF T
  <2> QED BY <1>1, <1>2, <2>1, SeqInduct
<1> QED BY <1>3 DEF Each, OneEach

-----------------------------------------------------------------------------
(***************************************************************************)
(* What is written for an argument, and where it is put.                   *)
(***************************************************************************)

-----------------------------------------------------------------------------
(***************************************************************************)
(* What the calls hand to ec_opts_add_raw.                                 *)
(***************************************************************************)

\* ec_opt_encode_uint writes a sequence of bytes.
LEMMA EncodeUintType ==
  ASSUME NEW v \in Nat
  PROVE  EncodeUint(v) \in Seq(Nat)
<1> DEFINE K == {k \in 1 .. 4 : v >= Pow256[k]}
<1>1. IsFiniteSet(1 .. 4) /\ Cardinality(1 .. 4) = 4
  <2>1. 1 \in Int /\ 4 \in Int
    OBVIOUS
  <2>2. /\ IsFiniteSet(1 .. 4)
        /\ Cardinality(1 .. 4) = IF 1 > 4 THEN 0 ELSE 4 - 1 + 1
    BY <2>1, FS_Interval, Zenon
  <2> QED
    BY <2>2
<1>2. IsFiniteSet(K) /\ Cardinality(K) <= Cardinality(1 .. 4)
  <2>1. K \in SUBSET (1 .. 4)
    OBVIOUS
  <2> HIDE DEF K
  <2> QED
    BY <1>1, <2>1, FS_Subset
<1>3. UintLen(v) \in 0 .. 4
  BY <1>1, <1>2, FS_CardinalityType DEF UintLen
<1>4. ASSUME NEW i \in 1 .. UintLen(v)
      PROVE  (v \div Pow256[UintLen(v) - i + 1]) % 256 \in Nat
  <2>1. UintLen(v) - i + 1 \in 1 .. 4
    BY <1>3
  <2>2. Pow256[UintLen(v) - i + 1] \in {1, 256, 65536, 16777216}
    BY <2>1 DEF Pow256
  <2> QED
    BY <2>2
<1> QED
  BY <1>3, <1>4 DEF EncodeUint

\* What a call writes is a sequence of bytes, if its arguments are accepted.
LEMMA ValueType ==
  ASSUME NEW c \in Calls, c.num \in BlockNums => c.arg[3] \in ToSet(BlockSizes)
  PROVE  Value(c.num, c.arg) \in Seq(Nat)
<1>1. c.num \in Known /\ c.arg \in Seq(Nat)
  BY OptAssumption DEF Call
<1>2. CASE c.num \in BlockNums
  <2>1. c.arg[1] \in Nat /\ c.arg[2] \in Nat
    BY <1>1, <1>2, OptAssumption DEF BlockNums, UintNums
  <2>2. PICK i \in 1 .. 7 : BlockSizes[i] = c.arg[3]
    BY <1>2 DEF ToSet, BlockSizes
  <2>3. DOMAIN BlockSizes = 1 .. 7
    BY DEF BlockSizes
  <2>4. Szx(c.arg[3]) \in Nat
    BY <2>2, <2>3 DEF Szx
  <2>5. BlockValue(c.arg) \in Nat
    BY <2>1, <2>4 DEF BlockValue
  <2> QED
    BY <1>2, <2>5, EncodeUintType DEF Value, BlockNums
<1>3. CASE c.num \in UintNums \ BlockNums
  <2>1. c.arg[1] \in Nat
    BY <1>1, <1>3, OptAssumption
  <2> QED
    BY <1>3, <2>1, EncodeUintType DEF Value
<1>4. CASE c.num \notin UintNums
  BY <1>1, <1>4 DEF Value, UintNums, BlockNums
<1> QED
  BY <1>2, <1>3, <1>4

\* A value is split over at least one slot.
LEMMA FragmentsType ==
  ASSUME NEW v \in Seq(Nat)
  PROVE  Fragments(v) \in Seq(Seq(Nat)) /\ Len(Fragments(v)) \in Nat
<1> DEFINE n == IF v = <<>> THEN 1 ELSE (Len(v) + OptLenMax - 1) \div OptLenMax
           lo(i) == (i - 1) * OptLenMax + 1
           hi(i) == IF i * OptLenMax < Len(v) THEN i * OptLenMax ELSE Len(v)
<1>1. n \in Nat
  BY OptAssumption
<1>2. ASSUME NEW i \in 1 .. n
      PROVE  SubSeq(v, lo(i), hi(i)) \in Seq(Nat)
  <2>1. (i - 1) * OptLenMax \in Nat /\ i * OptLenMax \in Nat
    BY <1>1, OptAssumption
  <2>2. lo(i) \in Nat \ {0} /\ hi(i) \in Nat /\ hi(i) <= Len(v)
    BY <2>1
  <2> HIDE DEF lo, hi
  <2> QED
    BY <2>2
<1>3. Fragments(v) = [i \in 1 .. n |-> SubSeq(v, lo(i), hi(i))]
  BY DEF Fragments
<1> HIDE DEF n, lo, hi
<1>4. Fragments(v) \in Seq(Seq(Nat))
  BY <1>1, <1>2, <1>3
<1> QED
  BY <1>4

-----------------------------------------------------------------------------
(***************************************************************************)
(* What ec_opts_push does to the list.                                     *)
(***************************************************************************)

\* The number of an option is one of the table.
LEMMA OptionNum ==
  ASSUME NEW b \in Seq(Option), NEW i \in DOMAIN b
  PROVE  b[i] \in Option /\ b[i].num \in Known /\ b[i].num \in 1 .. 23
<1>1. b[i] \in Option
  OBVIOUS
<1>2. \A o \in Option : o.num \in Known
  BY DEF Option
<1>3. \A n \in Known : n \in 1 .. 23
  BY DEF Known
<1> QED
  BY <1>1, <1>2, <1>3

\* The walk from the end finds the last option that is not higher.
LEMMA PositionLast ==
  ASSUME NEW b \in Seq(Option), NEW n \in Known
  PROVE  /\ Position(b, n) \in 0 .. Len(b)
         /\ Position(b, n) # 0 => b[Position(b, n)].num <= n
         /\ \A i \in DOMAIN b : i > Position(b, n) => ~(b[i].num <= n)
<1> DEFINE S == {0} \cup {i \in DOMAIN b : b[i].num <= n}
           T == {k \in Nat : Len(b) - k \in S}
<1>1. S \subseteq 0 .. Len(b) /\ 0 \in S
  OBVIOUS
<1>2. T \in SUBSET Nat /\ Len(b) \in T
  BY <1>1
<1>3. PICK k \in T : \A m \in T : k <= m
  <2> HIDE DEF S, T
  <2>1. PICK k \in T : \A m \in T : ~(<<m, k>> \in OpToRel(<, Nat))
    BY <1>2, NatLessThanWellFounded, WFMin
  <2>2. \A m \in T : m \in Nat /\ k \in Nat /\ ~(m < k)
    BY <1>2, <2>1 DEF OpToRel
  <2> QED
    BY <2>2
<1>4. Len(b) - k \in S
  BY <1>3
<1>5. ASSUME NEW y \in S
      PROVE  Len(b) - k >= y
  <2>1. Len(b) - y \in T
    BY <1>1
  <2> QED
    BY <1>1, <1>3, <2>1
<1>6. Max(S) \in S /\ \A y \in S : Max(S) >= y
  BY <1>4, <1>5 DEF Max
<1>7. Position(b, n) = Max(S)
  BY DEF Position
<1> DEFINE p == Position(b, n)
<1>8. p \in 0 .. Len(b) /\ (p # 0 => b[p].num <= n)
  BY <1>1, <1>6, <1>7
<1>9. ASSUME NEW i \in DOMAIN b, i > p, b[i].num <= n
      PROVE  FALSE
  <2>1. i \in S /\ i \in Nat /\ p >= i
    BY <1>6, <1>7, <1>9
  <2> HIDE DEF p
  <2> QED
    BY <1>8, <1>9, <2>1
<1> HIDE DEF p
<1>10. /\ p \in 0 .. Len(b) /\ (p # 0 => b[p].num <= n)
       /\ \A i \in DOMAIN b : i > p => ~(b[i].num <= n)
  BY <1>8, <1>9
<1> QED
  BY <1>10 DEF p

\* Pushing options keeps the list a list of options, in order.
LEMMA PushSorted ==
  ASSUME NEW b \in Seq(Option), NEW n \in Known, NEW vals \in Seq(Seq(Nat))
  PROVE  /\ Push(b, n, vals) \in Seq(Option)
         /\ (\A i, j \in DOMAIN b : i <= j => b[i].num <= b[j].num)
            => \A i, j \in DOMAIN Push(b, n, vals) :
                 i <= j => Push(b, n, vals)[i].num <= Push(b, n, vals)[j].num
<1> DEFINE p == Position(b, n)
           l == Len(vals)
           f(i) == IF i <= p THEN b[i]
                   ELSE IF i <= p + l THEN [num |-> n, val |-> vals[i - p]]
                   ELSE b[i - l]
           D == 1 .. Len(b) + l
<1>1. Push(b, n, vals) = [i \in D |-> f(i)]
  BY DEF Push
<1>2. p \in 0 .. Len(b) /\ l \in Nat /\ Len(b) \in Nat /\ DOMAIN b = 1 .. Len(b)
  BY PositionLast
<1>3. ASSUME NEW i \in D
      PROVE  /\ i <= p => i \in DOMAIN b /\ f(i) = b[i]
             /\ i > p /\ i <= p + l => f(i) = [num |-> n, val |-> vals[i - p]]
             /\ i > p + l => i - l \in DOMAIN b /\ f(i) = b[i - l]
  <2> HIDE DEF p, l
  <2> QED
    BY <1>2
<1>4. ASSUME NEW i \in D
      PROVE  f(i) \in Option
  <2>1. CASE i <= p
    <3>1. i \in DOMAIN b /\ f(i) = b[i]
      BY <1>3, <2>1
    <3> HIDE DEF f
    <3> QED
      BY <3>1, OptionNum
  <2>2. CASE i > p /\ i <= p + l
    <3>1. vals[i - p] \in Seq(Nat)
      BY <1>2, <2>2
    <3>2. f(i) = [num |-> n, val |-> vals[i - p]]
      BY <1>3, <2>2
    <3> HIDE DEF f
    <3> QED
      BY <3>1, <3>2 DEF Option
  <2>3. CASE i > p + l
    BY <1>3, <2>3
  <2> QED
    BY <1>2, <2>1, <2>2, <2>3
<1>5. Push(b, n, vals) \in Seq(Option)
  BY <1>1, <1>2, <1>4
<1>6. ASSUME \A i, j \in DOMAIN b : i <= j => b[i].num <= b[j].num,
             NEW i \in D, NEW j \in D, i <= j
      PROVE  f(i).num <= f(j).num
  <2>1. i \in Nat /\ j \in Nat /\ i <= Len(b) + l /\ j <= Len(b) + l
    BY <1>2
  <2> HIDE DEF f, p, l, D
  <2>2. ASSUME NEW k \in DOMAIN b
        PROVE  b[k].num \in Nat /\ k \in Nat
    <3>1. b[k].num \in 1 .. 23
      BY OptionNum
    <3>2. \A m \in 1 .. 23 : m \in Nat
      OBVIOUS
    <3>3. k \in Nat
      BY <1>2
    <3> QED
      BY <3>1, <3>2, <3>3
  <2>3. n \in Nat
    BY DEF Known
  <2>4. /\ p # 0 => b[p].num <= n
        /\ \A k \in DOMAIN b : k > p => ~(b[k].num <= n)
    BY PositionLast DEF p
  <2>5. \A k \in DOMAIN b : k > p => n <= b[k].num
    BY <2>2, <2>3, <2>4
  <2>6. ASSUME NEW k \in DOMAIN b, k <= p
        PROVE  b[k].num <= n
    <3>1. p \in DOMAIN b /\ p # 0
      BY <1>2, <2>2, <2>6
    <3>2. b[k].num <= b[p].num /\ b[p].num <= n /\ b[p].num \in Nat
      BY <1>6, <2>2, <2>4, <2>6, <3>1
    <3> QED
      BY <2>2, <2>3, <3>2
  <2>7. CASE i <= p
    <3>1. f(i) = b[i] /\ i \in DOMAIN b
      BY <1>3, <2>7
    <3>2. CASE j <= p
      BY <1>3, <1>6, <3>1, <3>2
    <3>3. CASE j > p /\ j <= p + l
      <4>1. f(j) = [num |-> n, val |-> vals[j - p]]
        BY <1>3, <3>3
      <4> QED
        BY <2>7, <2>6, <3>1, <4>1
    <3>4. CASE j > p + l
      <4>1. f(j) = b[j - l] /\ j - l \in DOMAIN b /\ i <= j - l
        BY <1>2, <1>3, <2>7, <2>1, <3>4
      <4> QED
        BY <1>6, <3>1, <4>1
    <3> QED
      BY <1>2, <2>1, <3>2, <3>3, <3>4
  <2>8. CASE i > p /\ i <= p + l
    <3>1. f(i).num = n
      <4>1. f(i) = [num |-> n, val |-> vals[i - p]]
        BY <1>3, <2>8
      <4> QED
        BY <4>1
    <3>2. CASE j <= p + l
      <4>1. j > p
        BY <1>2, <1>6, <2>8, <2>1
      <4>2. f(j) = [num |-> n, val |-> vals[j - p]]
        BY <1>3, <3>2, <4>1
      <4>3. f(j).num = n
        BY <4>2
      <4> QED
        BY <2>3, <3>1, <4>3
    <3>3. CASE j > p + l
      <4>1. f(j) = b[j - l] /\ j - l \in DOMAIN b /\ j - l > p
        BY <1>2, <1>3, <2>1, <3>3
      <4> QED
        BY <2>5, <3>1, <4>1
    <3> QED
      BY <1>2, <2>1, <3>2, <3>3
  <2>9. CASE i > p + l
    <3>1. f(i) = b[i - l] /\ i - l \in DOMAIN b
      BY <1>3, <2>9
    <3>2. f(j) = b[j - l] /\ j - l \in DOMAIN b /\ i - l <= j - l
      BY <1>2, <1>3, <1>6, <2>9, <2>1
    <3> QED
      BY <1>6, <3>1, <3>2
  <2> QED
    BY <1>2, <2>7, <2>8, <2>9, <2>1
<1> HIDE DEF f
<1>7. DOMAIN Push(b, n, vals) = D /\ \A i \in D : Push(b, n, vals)[i] = f(i)
  BY <1>1
<1> HIDE DEF D
<1> QED
  BY <1>5, <1>6, <1>7

-----------------------------------------------------------------------------
(***************************************************************************)
(* Items: options and the fenceposts between them.                         *)
(***************************************************************************)

\* An option of any number, as a peer may send it, and fenceposts.
Item == [num : Nat \ {0}, val : Seq(Nat)]

\* The fenceposts.
Post == {Fencepost(k) : k \in Nat \ {0}}

\* The numbers of a list never fall.
Ordered(b) == \A i, j \in DOMAIN b : i <= j => b[i].num <= b[j].num

\* The number that the next delta starts from.
LastNum(s) == IF s = <<>> THEN 0 ELSE s[Len(s)].num

\* The fenceposts between two numbers.
Gap(prev, num) == IF num - prev > 14 THEN PostsFrom(prev, num) ELSE <<>>

\* Every option is an item.
LEMMA OptionIsItem == Option \subseteq Item
<1>1. Known \subseteq Nat \ {0}
  BY DEF Known
<1> QED BY <1>1 DEF Option, Item

\* A fencepost is an empty item with an even number that no option has.
LEMMA PostFacts ==
  ASSUME NEW x \in Post
  PROVE  /\ x \in Item /\ x.val = <<>> /\ x.num % 2 = 0
         /\ x.num \in Nat /\ x.num \notin Known
<1>1. PICK k \in Nat \ {0} : x = [num |-> 14 * k, val |-> <<>>]
  BY DEF Post, Fencepost
<1>2. x.num = 14 * k /\ x.val = <<>>
  BY <1>1
<1>3. 14 * k \in Nat /\ 14 * k >= 14 /\ (14 * k) % 2 = 0
  OBVIOUS
<1>4. 14 * k \notin Known
  <2>1. \A n \in Known : n < 14 \/ n % 2 = 1
    BY DEF Known
  <2> QED BY <1>3, <2>1
<1>5. <<>> \in Seq(Nat)
  OBVIOUS
<1> QED BY <1>1, <1>2, <1>3, <1>4, <1>5 DEF Item

\* The first fencepost of a gap is less than 15 above what it starts from,
\* each of the others 14 above the one before, the last less than 15 below
\* the option.
LEMMA GapFacts ==
  ASSUME NEW prev \in Nat, NEW num \in Nat \ {0}, prev <= num
  PROVE  /\ Gap(prev, num) \in Seq(Post)
         /\ Gap(prev, num) = <<>> => num - prev \in 0 .. 14
         /\ Gap(prev, num) # <<>> =>
              /\ Gap(prev, num)[1].num - prev \in 0 .. 14
              /\ num - LastNum(Gap(prev, num)) \in 0 .. 14
         /\ \A i \in 2 .. Len(Gap(prev, num)) :
              Gap(prev, num)[i].num - Gap(prev, num)[i - 1].num = 14
         /\ num <= 23 => Len(Gap(prev, num)) = IF num - prev > 14 THEN 1 ELSE 0
<1>1. CASE num - prev <= 14
  <2>1. Gap(prev, num) = <<>>
    BY <1>1 DEF Gap
  <2>2. <<>> \in Seq(Post) /\ Len(<<>>) = 0
    OBVIOUS
  <2> QED BY <1>1, <2>1, <2>2
<1>2. CASE num - prev > 14
  <2> DEFINE first == IF prev = 0 THEN 1 ELSE (prev + 13) \div 14
             last == (num - 1) \div 14
             n == last - first + 1
             g == [k \in 1 .. n |-> Fencepost(first + k - 1)]
  <2>1. Gap(prev, num) = g
    BY <1>2 DEF Gap, PostsFrom
  <2>2. /\ first \in Nat \ {0} /\ last \in Nat
        /\ 14 * first - prev \in 0 .. 14 /\ num - 14 * last \in 0 .. 14
    <3>1. last \in Nat /\ 14 * last <= num - 1 /\ num - 1 < 14 * last + 14
      OBVIOUS
    <3>2. CASE prev = 0
      BY <3>1, <3>2
    <3>3. CASE prev # 0
      <4>1. (prev + 13) \div 14 \in Nat
        OBVIOUS
      <4>2. 14 * ((prev + 13) \div 14) <= prev + 13
            /\ prev + 13 < 14 * ((prev + 13) \div 14) + 14
        OBVIOUS
      <4> QED BY <3>1, <3>3, <4>1, <4>2
    <3> QED BY <3>2, <3>3
  <2>3. num <= 23 => first = 1 /\ last = 1
    BY <1>2
  <2>4. first <= last
    BY <1>2, <2>2
  <2> HIDE DEF first, last
  <2>5. n \in Nat \ {0}
    BY <2>2, <2>4
  <2>6. ASSUME NEW k \in 1 .. n
        PROVE  /\ Fencepost(first + k - 1) \in Post
               /\ Fencepost(first + k - 1).num = 14 * (first + k - 1)
    <3>1. first + k - 1 \in Nat \ {0}
      BY <2>2
    <3> QED BY <3>1 DEF Post, Fencepost
  <2>7. n = last - first + 1
    OBVIOUS
  <2> HIDE DEF n
  <2>8. g \in Seq(Post) /\ Len(g) = n
    BY <2>5, <2>6
  <2>9. \A k \in 1 .. n : g[k].num = 14 * (first + k - 1)
    BY <2>6
  <2> HIDE DEF g
  <2>10. g # <<>> /\ 1 \in 1 .. n /\ n \in 1 .. n
    BY <2>5, <2>8
  <2>11. g[1].num = 14 * first /\ LastNum(g) = 14 * last
    <3>1. g[1].num = 14 * (first + 1 - 1)
      BY <2>9, <2>10
    <3>2. g[n].num = 14 * (first + n - 1)
      BY <2>9, <2>10
    <3>3. LastNum(g) = g[n].num
      BY <2>8, <2>10 DEF LastNum
    <3>4. first + 1 - 1 = first /\ first + n - 1 = last
      BY <2>2, <2>7
    <3> QED BY <3>1, <3>2, <3>3, <3>4
  <2>12. ASSUME NEW i \in 2 .. n PROVE g[i].num - g[i - 1].num = 14
    <3>1. i \in 1 .. n /\ i - 1 \in 1 .. n
      BY <2>5
    <3>2. g[i].num = 14 * (first + i - 1) /\ g[i - 1].num = 14 * (first + (i - 1) - 1)
      BY <2>9, <3>1
    <3> QED BY <2>2, <3>2
  <2>13. num <= 23 => n = 1
    BY <2>3, <2>7
  <2> QED BY <1>2, <2>1, <2>2, <2>8, <2>10, <2>11, <2>12, <2>13
<1> QED BY <1>1, <1>2

\* The number of the last item is a natural number.
LEMMA LastNumType ==
  ASSUME NEW b \in Seq(Item)
  PROVE  LastNum(b) \in Nat
<1>1. CASE b = <<>>
  BY <1>1 DEF LastNum
<1>2. CASE b # <<>>
  <2>1. Len(b) \in 1 .. Len(b)
    BY <1>2
  <2>2. b[Len(b)] \in Item
    BY <2>1
  <2> QED BY <1>2, <2>2 DEF LastNum, Item
<1> QED BY <1>1, <1>2

\* What Append does to the number before each option.
LEMMA PrevNumAppend ==
  ASSUME NEW b \in Seq(Item), NEW o \in Item
  PROVE  /\ \A i \in 1 .. Len(b) : PrevNum(Append(b, o), i) = PrevNum(b, i)
         /\ PrevNum(Append(b, o), Len(b) + 1) = LastNum(b)
<1> DEFINE c == Append(b, o)
           N == Len(b)
<1>1. N \in Nat /\ \A i \in 1 .. N : c[i] = b[i]
  BY AppendProperties, LenProperties
<1>2. b = <<>> <=> N = 0
  BY EmptySeq
<1> HIDE DEF c, N
<1>3. ASSUME NEW i \in 1 .. N PROVE PrevNum(c, i) = PrevNum(b, i)
  <2>1. i # 1 => i - 1 \in 1 .. N
    BY <1>1
  <2> QED BY <1>1, <2>1 DEF PrevNum
<1>4. PrevNum(c, N + 1) = LastNum(b)
  <2>1. CASE N = 0
    BY <1>2, <2>1 DEF PrevNum, LastNum
  <2>2. CASE N # 0
    <3>1. N \in 1 .. N /\ N + 1 # 1 /\ N + 1 - 1 = N
      BY <1>1, <2>2
    <3>2. PrevNum(c, N + 1) = c[N].num
      BY <3>1 DEF PrevNum
    <3>3. LastNum(b) = b[N].num
      BY <1>2, <2>2 DEF LastNum, N
    <3> QED BY <1>1, <3>1, <3>2, <3>3
  <2> QED BY <2>1, <2>2
<1> QED BY <1>3, <1>4 DEF c, N

\* The fenceposts of a gap are items.
LEMMA GapType ==
  ASSUME NEW prev \in Nat, NEW num \in Nat \ {0}
  PROVE  Gap(prev, num) \in Seq(Post) /\ Gap(prev, num) \in Seq(Item)
<1>1. Gap(prev, num) \in Seq(Post)
  <2>1. CASE prev <= num
    BY <2>1, GapFacts
  <2>2. CASE ~(prev <= num)
    <3>1. ~(num - prev > 14)
      BY <2>2
    <3> QED BY <3>1 DEF Gap
  <2> QED BY <2>1, <2>2
<1>2. Post \subseteq Item
  BY PostFacts
<1> QED BY <1>1, <1>2

\* The number before an item is a natural number.
LEMMA PrevNumType ==
  ASSUME NEW b \in Seq(Item), NEW i \in 1 .. Len(b)
  PROVE  PrevNum(b, i) \in Nat
<1>1. CASE i = 1
  BY <1>1 DEF PrevNum
<1>2. CASE i # 1
  <2>1. i - 1 \in 1 .. Len(b)
    BY <1>2
  <2>2. b[i - 1] \in Item
    BY <2>1
  <2> QED BY <1>2, <2>2 DEF PrevNum, Item
<1> QED BY <1>1, <1>2

\* No options make no items.
LEMMA ItemsEmpty == Items(<<>>) = <<>>
<1>1. [i \in DOMAIN <<>> |-> Append(Fenceposts(<<>>, i), <<>>[i])] = <<>>
  OBVIOUS
<1>2. <<>> \in Seq(Seq(Item))
  BY EmptySeq
<1>3. FlattenSeq(<<>>) = <<>>
  BY <1>2, FlattenRules
<1> QED BY <1>1, <1>3 DEF Items

\* Encoding one option more adds its fenceposts and itself.
LEMMA ItemsAppend ==
  ASSUME NEW b \in Seq(Item), NEW o \in Item
  PROVE  /\ Items(b) \in Seq(Item)
         /\ Items(Append(b, o)) = Items(b) \o Append(Gap(LastNum(b), o.num), o)
<1> DEFINE c == Append(b, o)
           N == Len(b)
           f == [i \in 1 .. N + 1 |-> Append(Fenceposts(c, i), c[i])]
<1>1. /\ c \in Seq(Item) /\ Len(c) = N + 1 /\ c[N + 1] = o
      /\ \A i \in 1 .. N : c[i] = b[i]
  BY AppendProperties
<1>2. N \in Nat /\ DOMAIN b = 1 .. N /\ DOMAIN c = 1 .. N + 1
  BY <1>1, LenProperties
<1>3. /\ \A i \in 1 .. N : PrevNum(c, i) = PrevNum(b, i)
      /\ PrevNum(c, N + 1) = LastNum(b)
  BY PrevNumAppend
<1> HIDE DEF c, N
<1>4. ASSUME NEW i \in 1 .. N + 1
      PROVE  /\ Fenceposts(c, i) = Gap(PrevNum(c, i), c[i].num)
             /\ Fenceposts(c, i) \in Seq(Item) /\ c[i] \in Item
  <2>1. c[i] \in Item /\ PrevNum(c, i) \in Nat
    BY <1>1, PrevNumType, ElementOfSeq
  <2>2. c[i].num \in Nat \ {0}
    BY <2>1 DEF Item
  <2>3. Fenceposts(c, i) = Gap(PrevNum(c, i), c[i].num)
    BY DEF Fenceposts, Gap
  <2> QED BY <2>1, <2>2, <2>3, GapType
<1>5. f \in [1 .. N + 1 -> Seq(Item)]
  BY <1>4, AppendProperties
<1>6. [i \in 1 .. N |-> f[i]] = [i \in DOMAIN b |-> Append(Fenceposts(b, i), b[i])]
  <2>1. ASSUME NEW i \in 1 .. N
        PROVE  f[i] = Append(Fenceposts(b, i), b[i])
    <3>1. i \in 1 .. N + 1 /\ c[i] = b[i] /\ PrevNum(c, i) = PrevNum(b, i)
      BY <1>1, <1>2, <1>3
    <3>2. Fenceposts(c, i) = Fenceposts(b, i)
      BY <3>1 DEF Fenceposts
    <3> QED BY <3>1, <3>2
  <2> HIDE DEF f
  <2> QED BY <1>2, <2>1
<1>7. f[N + 1] = Append(Gap(LastNum(b), o.num), o)
  <2>1. N + 1 \in 1 .. N + 1
    BY <1>2
  <2> QED BY <1>1, <1>3, <1>4, <2>1
<1>8. Items(c) = FlattenSeq(f)
  BY <1>2 DEF Items
<1>9. /\ FlattenSeq([i \in 1 .. N |-> f[i]]) \in Seq(Item)
      /\ FlattenSeq(f) = FlattenSeq([i \in 1 .. N |-> f[i]]) \o f[N + 1]
  <2> HIDE DEF f
  <2> QED BY <1>2, <1>5, FlattenLast
<1>10. FlattenSeq([i \in 1 .. N |-> f[i]]) = Items(b)
  BY <1>6 DEF Items
<1> QED BY <1>7, <1>8, <1>9, <1>10 DEF c

\* An item as ec_opts_encode writes it after an item of number prev.
Enc(prev, x) ==
  (IF Len(x.val) > 14
   THEN <<Header(x.num - prev, 15), Len(x.val) - 15>>
   ELSE <<Header(x.num - prev, Len(x.val))>>) \o x.val

\* The bytes of an item.
ItemSz(x) == (IF Len(x.val) > 14 THEN 2 ELSE 1) + Len(x.val)

\* The types of the parts of an item.
LEMMA ItemFacts ==
  ASSUME NEW x \in Item
  PROVE  /\ x.num \in Nat \ {0} /\ x.val \in Seq(Nat) /\ Len(x.val) \in Nat
         /\ ItemSz(x) \in Nat
<1>1. x.num \in Nat \ {0} /\ x.val \in Seq(Nat) /\ Len(x.val) \in Nat
  BY DEF Item
<1> DEFINE l == Len(x.val)
<1>2. l \in Nat
  BY <1>1
<1>3. ItemSz(x) = (IF l > 14 THEN 2 ELSE 1) + l
  BY DEF ItemSz
<1> HIDE DEF l
<1>4. ItemSz(x) \in Nat
  BY <1>2, <1>3
<1> QED BY <1>1, <1>4

\* An item is written with as many bytes as ItemSz says.
LEMMA EncType ==
  ASSUME NEW prev \in Nat, NEW x \in Item
  PROVE  Enc(prev, x) \in Seq(Nat) /\ Len(Enc(prev, x)) = ItemSz(x)
<1> DEFINE l == Len(x.val)
           v == x.val
           d == x.num - prev
           h == IF l > 14 THEN <<Header(d, 15), l - 15>> ELSE <<Header(d, l)>>
<1>1. l \in Nat /\ d \in Int /\ v \in Seq(Nat)
  BY ItemFacts
<1>2. Enc(prev, x) = h \o v /\ ItemSz(x) = (IF l > 14 THEN 2 ELSE 1) + l /\ Len(v) = l
  BY DEF Enc, ItemSz
<1> HIDE DEF l, v, d
<1>3. ASSUME NEW m \in Nat PROVE Header(d, m) \in Nat
  <2>1. d % 16 \in Nat
    BY <1>1
  <2> QED BY <2>1 DEF Header
<1>4. h \in Seq(Nat) /\ Len(h) = IF l > 14 THEN 2 ELSE 1
  <2>1. CASE l > 14
    <3>1. l - 15 \in Nat /\ Header(d, 15) \in Nat
      BY <1>1, <1>3, <2>1
    <3>2. h = <<Header(d, 15), l - 15>>
      BY <2>1
    <3> QED BY <2>1, <3>1, <3>2
  <2>2. CASE ~(l > 14)
    <3>1. Header(d, l) \in Nat
      BY <1>1, <1>3
    <3>2. h = <<Header(d, l)>>
      BY <2>2
    <3> QED BY <2>2, <3>1, <3>2
  <2> QED BY <2>1, <2>2
<1> HIDE DEF h
<1>5. h \o v \in Seq(Nat) /\ Len(h \o v) = Len(h) + l
  BY <1>1, <1>2, <1>4, ConcatProperties
<1> QED BY <1>2, <1>4, <1>5

\* No items make no bytes.
LEMMA BytesEmpty == Bytes(<<>>) = <<>>
<1>1. [i \in DOMAIN <<>> |-> EncodeItem(<<>>, i)] = <<>>
  OBVIOUS
<1>2. <<>> \in Seq(Seq(Nat))
  BY EmptySeq
<1>3. FlattenSeq(<<>>) = <<>>
  BY <1>2, FlattenRules
<1> QED BY <1>1, <1>3 DEF Bytes

\* The bytes of a list with one item more.
LEMMA BytesAppend ==
  ASSUME NEW s \in Seq(Item), NEW x \in Item
  PROVE  /\ Bytes(s) \in Seq(Nat)
         /\ Bytes(Append(s, x)) = Bytes(s) \o Enc(LastNum(s), x)
<1> DEFINE c == Append(s, x)
           N == Len(s)
           f == [i \in 1 .. N + 1 |-> EncodeItem(c, i)]
<1>1. /\ c \in Seq(Item) /\ Len(c) = N + 1 /\ c[N + 1] = x
      /\ \A i \in 1 .. N : c[i] = s[i]
  BY AppendProperties
<1>2. N \in Nat /\ DOMAIN s = 1 .. N /\ DOMAIN c = 1 .. N + 1
  BY <1>1, LenProperties
<1>3. /\ \A i \in 1 .. N : PrevNum(c, i) = PrevNum(s, i)
      /\ PrevNum(c, N + 1) = LastNum(s)
  BY PrevNumAppend
<1> HIDE DEF c, N
<1>4. ASSUME NEW i \in 1 .. N + 1
      PROVE  /\ EncodeItem(c, i) = Enc(PrevNum(c, i), c[i])
             /\ EncodeItem(c, i) \in Seq(Nat)
  <2>1. c[i] \in Item /\ PrevNum(c, i) \in Nat
    BY <1>1, PrevNumType, ElementOfSeq
  <2>2. EncodeItem(c, i) = Enc(PrevNum(c, i), c[i])
    BY DEF EncodeItem, Enc
  <2> QED BY <2>1, <2>2, EncType
<1>5. f \in [1 .. N + 1 -> Seq(Nat)]
  BY <1>4
<1>6. [i \in 1 .. N |-> f[i]] = [i \in DOMAIN s |-> EncodeItem(s, i)]
  <2>1. ASSUME NEW i \in 1 .. N PROVE f[i] = EncodeItem(s, i)
    <3>1. i \in 1 .. N + 1 /\ c[i] = s[i] /\ PrevNum(c, i) = PrevNum(s, i)
      BY <1>1, <1>2, <1>3
    <3>2. EncodeItem(c, i) = EncodeItem(s, i)
      BY <3>1 DEF EncodeItem
    <3> QED BY <3>1, <3>2
  <2> HIDE DEF f
  <2> QED BY <1>2, <2>1
<1>7. f[N + 1] = Enc(LastNum(s), x)
  <2>1. N + 1 \in 1 .. N + 1
    BY <1>2
  <2> QED BY <1>1, <1>3, <1>4, <2>1
<1>8. Bytes(c) = FlattenSeq(f)
  BY <1>2 DEF Bytes
<1>9. /\ FlattenSeq([i \in 1 .. N |-> f[i]]) \in Seq(Nat)
      /\ FlattenSeq(f) = FlattenSeq([i \in 1 .. N |-> f[i]]) \o f[N + 1]
  <2> HIDE DEF f
  <2> QED BY <1>2, <1>5, FlattenLast
<1>10. FlattenSeq([i \in 1 .. N |-> f[i]]) = Bytes(s)
  BY <1>6 DEF Bytes
<1> QED BY <1>7, <1>8, <1>9, <1>10 DEF c

\* The types of what encoding makes of a list.
LEMMA ItemsType ==
  ASSUME NEW b \in Seq(Item)
  PROVE  Items(b) \in Seq(Item) /\ Bytes(b) \in Seq(Nat)
<1>1. 1 \in Nat \ {0}
  OBVIOUS
<1>2. Fencepost(1) \in Post
  BY <1>1, Zenon DEF Post
<1> QED BY <1>2, PostFacts, ItemsAppend, BytesAppend

\* The last number after an Append or a concatenation.
LEMMA LastNumRules ==
  ASSUME NEW s \in Seq(Item), NEW t \in Seq(Item), NEW x \in Item
  PROVE  /\ LastNum(Append(s, x)) = x.num
         /\ LastNum(s \o Append(t, x)) = x.num
<1>1. ASSUME NEW u \in Seq(Item) PROVE LastNum(Append(u, x)) = x.num
  <2>1. /\ Len(Append(u, x)) = Len(u) + 1 /\ Append(u, x)[Len(u) + 1] = x
        /\ Append(u, x) # <<>>
    BY AppendProperties
  <2> QED BY <2>1 DEF LastNum
<1>2. s \o Append(t, x) = Append(s \o t, x) /\ s \o t \in Seq(Item)
  BY ConcatAppend, ConcatProperties
<1> QED BY <1>1, <1>2

\* The last number of an ordered list is the highest.
LEMMA OrderedAppend ==
  ASSUME NEW b \in Seq(Item), NEW o \in Item, Ordered(Append(b, o))
  PROVE  /\ Ordered(b) /\ LastNum(b) <= o.num
         /\ \A i \in 1 .. Len(b) : b[i].num <= o.num
<1> DEFINE c == Append(b, o)
           N == Len(b)
<1>1. /\ c \in Seq(Item) /\ Len(c) = N + 1 /\ c[N + 1] = o
      /\ \A i \in 1 .. N : c[i] = b[i]
  BY AppendProperties
<1>2. N \in Nat /\ DOMAIN b = 1 .. N /\ DOMAIN c = 1 .. N + 1
  BY <1>1, LenProperties
<1>3. \A i, j \in DOMAIN c : i <= j => c[i].num <= c[j].num
  BY DEF Ordered
<1>9. (b = <<>> <=> N = 0) /\ o.num \in Nat
  BY EmptySeq DEF Item
<1> HIDE DEF c
<1>4. Ordered(b)
  <2>1. \A i \in DOMAIN b : i \in DOMAIN c /\ c[i] = b[i]
    BY <1>1, <1>2
  <2> QED BY <1>3, <2>1 DEF Ordered
<1>5. ASSUME NEW i \in 1 .. N PROVE b[i].num <= o.num
  <2>1. i \in DOMAIN c /\ N + 1 \in DOMAIN c /\ i <= N + 1
    BY <1>2
  <2> QED BY <1>1, <1>3, <2>1
<1>6. LastNum(b) <= o.num
  <2>1. CASE b = <<>>
    BY <1>9, <2>1 DEF LastNum
  <2>2. CASE b # <<>>
    <3>1. N \in 1 .. N
      BY <1>2, <1>9, <2>2
    <3> QED BY <1>5, <2>2, <3>1 DEF LastNum
  <2> QED BY <2>1, <2>2
<1> QED BY <1>4, <1>5, <1>6

\* Numbers of g_opts in order need one fencepost at most, before the first
\* that is higher than 14.
LEMMA OneFencepost ==
  ASSUME NEW b \in Seq(Option), Ordered(b)
  PROVE  Len(Items(b)) - Len(b) \in 0 .. 1
<1> DEFINE P(t) == /\ Len(Items(t)) - Len(t) \in 0 .. 1
                   /\ Len(Items(t)) - Len(t) = 1 => LastNum(t) > 14
           T == {t \in Seq(Option) : Ordered(t) => P(t)}
<1>1. <<>> \in T
  <2>1. <<>> \in Seq(Option) /\ Len(<<>>) = 0
    OBVIOUS
  <2> QED BY <2>1, ItemsEmpty
<1>2. ASSUME NEW t \in Seq(Option), t \in T, NEW x \in Option
      PROVE  Append(t, x) \in T
  <2> DEFINE u == Append(t, x)
             gap == Gap(LastNum(t), x.num)
  <2>1. t \in Seq(Item) /\ x \in Item /\ u \in Seq(Option)
    BY OptionIsItem, AppendProperties
  <2> SUFFICES ASSUME Ordered(u) PROVE P(u)
    BY <2>1
  <2>2. Ordered(t) /\ LastNum(t) <= x.num
    BY <2>1, OrderedAppend
  <2>3. P(t)
    BY <1>2, <2>2
  <2>4. Items(u) = Items(t) \o Append(gap, x) /\ Items(t) \in Seq(Item)
    BY <2>1, ItemsAppend
  <2>5. LastNum(u) = x.num /\ LastNum(t) \in Nat
    BY <2>1, LastNumRules, LastNumType
  <2>6. x.num \in 1 .. 23
    <3>1. x.num \in Known
      BY DEF Option
    <3> QED BY <3>1 DEF Known
  <2>7. gap \in Seq(Item) /\ Len(gap) = IF x.num - LastNum(t) > 14 THEN 1 ELSE 0
    <3> HIDE DEF P, T, u
    <3>1. x.num \in Nat \ {0} /\ x.num <= 23
      <4>1. \A m \in 1 .. 23 : m \in Nat \ {0} /\ m <= 23
        OBVIOUS
      <4> QED BY <2>6, <4>1, Zenon
    <3>2. gap \in Seq(Item)
      BY <2>5, <3>1, GapType
    <3>3. Len(gap) = IF x.num - LastNum(t) > 14 THEN 1 ELSE 0
      <4> DEFINE prev == LastNum(t)
                 num == x.num
      <4>1. prev \in Nat /\ num \in Nat \ {0} /\ prev <= num /\ num <= 23
        BY <2>2, <2>5, <3>1
      <4> HIDE DEF prev, num
      <4>2. Len(Gap(prev, num)) = IF num - prev > 14 THEN 1 ELSE 0
        BY <4>1, GapFacts
      <4> QED BY <4>2 DEF prev, num
    <3> QED BY <3>2, <3>3
  <2>8. Len(u) = Len(t) + 1 /\ Len(t) \in Nat
    BY AppendProperties, LenProperties
  <2> HIDE DEF gap, u
  <2>9. Len(Items(u)) = Len(Items(t)) + Len(gap) + 1 /\ Len(Items(t)) \in Nat
    <3>1. Append(gap, x) \in Seq(Item) /\ Len(Append(gap, x)) = Len(gap) + 1
      BY <2>1, <2>7, AppendProperties
    <3>2. Len(Items(t) \o Append(gap, x)) = Len(Items(t)) + Len(Append(gap, x))
      BY <2>4, <3>1, ConcatProperties
    <3>3. Len(Items(t)) \in Nat /\ Len(gap) \in Nat
      BY <2>4, <2>7, LenProperties
    <3> QED BY <2>4, <3>1, <3>2, <3>3
  <2>10. ASSUME NEW it \in Nat, NEW lt \in Nat, NEW ln \in Nat, NEW n \in 1 .. 23,
                it - lt \in 0 .. 1, it - lt = 1 => ln > 14, ln <= n
         PROVE  LET iu == it + (IF n - ln > 14 THEN 1 ELSE 0) + 1
                IN  /\ iu - (lt + 1) \in 0 .. 1
                    /\ iu - (lt + 1) = 1 => n > 14
    BY <2>10
  <2> DEFINE it == Len(Items(t))
             lt == Len(t)
             ln == LastNum(t)
             n == x.num
             iu == it + (IF n - ln > 14 THEN 1 ELSE 0) + 1
  <2>11. /\ it \in Nat /\ lt \in Nat /\ ln \in Nat /\ n \in 1 .. 23
         /\ it - lt \in 0 .. 1 /\ (it - lt = 1 => ln > 14) /\ ln <= n
    BY <2>2, <2>3, <2>5, <2>6, <2>8, <2>9
  <2>12. Len(Items(u)) = iu /\ Len(u) = lt + 1 /\ LastNum(u) = n
    BY <2>5, <2>7, <2>8, <2>9
  <2>13. iu - (lt + 1) \in 0 .. 1 /\ (iu - (lt + 1) = 1 => n > 14)
    <3> HIDE DEF it, lt, ln, n
    <3> QED BY <2>10, <2>11
  <2> HIDE DEF iu, lt, n
  <2> QED BY <2>12, <2>13
<1>3. T = Seq(Option)
  <2>1. T \in SUBSET Seq(Option)
    OBVIOUS
  <2> HIDE DEF T
  <2> QED BY <1>1, <1>2, <2>1, SeqInduct
<1> QED BY <1>3

\* A fencepost is one byte.
LEMMA PostsSz ==
  ASSUME NEW s \in Seq(Item), NEW p \in Seq(Post)
  PROVE  Len(Bytes(s \o p)) = Len(Bytes(s)) + Len(p)
<1> DEFINE T == {t \in Seq(Post) : Len(Bytes(s \o t)) = Len(Bytes(s)) + Len(t)}
<1>1. <<>> \in T
  <2>1. <<>> \in Seq(Post) /\ s \o <<>> = s /\ Len(<<>>) = 0
    BY EmptySeq, ConcatEmptySeq
  <2>2. Len(Bytes(s)) \in Nat
    BY ItemsType, LenProperties
  <2> QED BY <2>1, <2>2
<1>2. ASSUME NEW t \in Seq(Post), t \in T, NEW x \in Post
      PROVE  Append(t, x) \in T
  <2>1. t \in Seq(Item) /\ x \in Item /\ x.val = <<>>
    BY PostFacts
  <2>2. s \o t \in Seq(Item) /\ s \o Append(t, x) = Append(s \o t, x)
    BY <2>1, ConcatProperties, ConcatAppend
  <2>3. /\ Bytes(Append(s \o t, x)) = Bytes(s \o t) \o Enc(LastNum(s \o t), x)
        /\ Bytes(s \o t) \in Seq(Nat)
    BY <2>1, <2>2, BytesAppend
  <2>4. /\ Enc(LastNum(s \o t), x) \in Seq(Nat)
        /\ Len(Enc(LastNum(s \o t), x)) = 1
    <3>1. ItemSz(x) = 1
      BY <2>1 DEF ItemSz
    <3> QED BY <2>1, <2>2, <3>1, EncType, LastNumType
  <2>5. Len(Bytes(Append(s \o t, x))) = Len(Bytes(s \o t)) + 1
    <3> HIDE DEF T
    <3>1. \A i, j \in Seq(Nat) : Len(i \o j) = Len(i) + Len(j)
      BY ConcatProperties
    <3> QED BY <2>3, <2>4, <3>1
  <2>6. Append(t, x) \in Seq(Post) /\ Len(Append(t, x)) = Len(t) + 1 /\ Len(t) \in Nat
    BY AppendProperties, LenProperties
  <2>7. Len(Bytes(s)) \in Nat
    BY ItemsType, LenProperties
  <2>8. Len(Bytes(s \o t)) = Len(Bytes(s)) + Len(t)
    BY <1>2
  <2>9. Len(Bytes(s \o Append(t, x))) = Len(Bytes(s)) + Len(Append(t, x))
    <3>1. \A i, j \in Nat : (i + j) + 1 = i + (j + 1)
      OBVIOUS
    <3> QED BY <2>2, <2>5, <2>6, <2>7, <2>8, <3>1, Zenon
  <2> QED BY <2>6, <2>9
<1>3. T = Seq(Post)
  <2>1. T \in SUBSET Seq(Post)
    OBVIOUS
  <2> HIDE DEF T
  <2> QED BY <1>1, <1>2, <2>1, SeqInduct
<1> QED BY <1>3

\* One option more takes as many bytes as ec_opts_encode sets aside for it.
LEMMA EncodeAllAppend ==
  ASSUME NEW b \in Seq(Item), NEW o \in Item
  PROVE  Len(EncodeAll(Append(b, o)))
           = Len(EncodeAll(b)) + ItemSz(o) + Len(Gap(LastNum(b), o.num))
<1> DEFINE g == Gap(LastNum(b), o.num)
           s == Items(b)
<1>1. s \in Seq(Item) /\ Items(Append(b, o)) = s \o Append(g, o)
  BY ItemsAppend
<1>2. LastNum(b) \in Nat /\ o.num \in Nat \ {0}
  BY LastNumType DEF Item
<1>3. g \in Seq(Post) /\ g \in Seq(Item)
  BY <1>2, GapType
<1> HIDE DEF g, s
<1>4. s \o Append(g, o) = Append(s \o g, o) /\ s \o g \in Seq(Item)
  BY <1>1, <1>3, ConcatAppend, ConcatProperties
<1>5. /\ Bytes(Append(s \o g, o)) = Bytes(s \o g) \o Enc(LastNum(s \o g), o)
      /\ Bytes(s \o g) \in Seq(Nat)
  BY <1>4, BytesAppend
<1>6. /\ Enc(LastNum(s \o g), o) \in Seq(Nat)
      /\ Len(Enc(LastNum(s \o g), o)) = ItemSz(o)
  BY <1>4, LastNumType, EncType
<1>7. Len(Bytes(Append(s \o g, o))) = Len(Bytes(s \o g)) + ItemSz(o)
  BY <1>5, <1>6, ConcatProperties
<1>8. Len(Bytes(s \o g)) = Len(Bytes(s)) + Len(g)
  BY <1>1, <1>3, PostsSz
<1>9. Len(Bytes(s)) \in Nat /\ Len(g) \in Nat /\ ItemSz(o) \in Nat
  BY <1>1, <1>3, ItemFacts, ItemsType, LenProperties
<1>10. Len(EncodeAll(Append(b, o))) = Len(Bytes(Append(s \o g, o)))
  BY <1>1, <1>4 DEF EncodeAll
<1>11. Len(EncodeAll(b)) = Len(Bytes(s))
  BY DEF EncodeAll, s
<1>12. Len(EncodeAll(Append(b, o))) = Len(EncodeAll(b)) + ItemSz(o) + Len(g)
  <2>1. \A i, j, k \in Nat : (i + j) + k = (i + k) + j
    OBVIOUS
  <2>2. (Len(Bytes(s)) + Len(g)) + ItemSz(o) = (Len(Bytes(s)) + ItemSz(o)) + Len(g)
    BY <1>9, <2>1
  <2> QED BY <1>7, <1>8, <1>10, <1>11, <2>2, Zenon
<1> QED BY <1>12 DEF g

-----------------------------------------------------------------------------
(***************************************************************************)
(* The bytes that are set aside are those that are written.                *)
(***************************************************************************)

\* The bytes set aside are counted option by option.
LEMMA UsedLoop ==
  ASSUME NEW b \in Seq(Item)
  PROVE  /\ Used(b)[0] = 0
         /\ \A i \in 1 .. Len(b) :
              Used(b)[i] = Used(b)[i - 1] + ItemSz(b[i]) + Len(Fenceposts(b, i))
<1> DEFINE N == Len(b)
           step == [i \in 1 .. N |-> [a \in Nat |-> a + EncSz(b, i)]]
           Def(e) == [i \in 0 .. N |-> IF i = 0 THEN 0 ELSE e[i - 1] + EncSz(b, i)]
           h == CHOOSE e : e = Def(e)
<1>1. N \in Nat
  BY LenProperties
<1>2. ASSUME NEW i \in 1 .. N
      PROVE  /\ EncSz(b, i) = ItemSz(b[i]) + Len(Fenceposts(b, i))
             /\ ItemSz(b[i]) \in Nat /\ Len(Fenceposts(b, i)) \in Nat
             /\ EncSz(b, i) \in Nat
  <2>1. b[i] \in Item
    BY ElementOfSeq
  <2>2. PrevNum(b, i) \in Nat /\ b[i].num \in Nat \ {0} /\ ItemSz(b[i]) \in Nat
    BY <2>1, PrevNumType, ItemFacts
  <2>3. Fenceposts(b, i) = Gap(PrevNum(b, i), b[i].num)
    BY DEF Fenceposts, Gap
  <2>4. Len(Fenceposts(b, i)) \in Nat
    BY <2>2, <2>3, GapType, LenProperties
  <2>5. EncSz(b, i) = ItemSz(b[i]) + Len(Fenceposts(b, i))
    BY DEF EncSz, ItemSz
  <2> QED BY <2>2, <2>4, <2>5
<1> HIDE DEF N
<1>3. step \in Steps(Nat, N)
  <2>1. ASSUME NEW i \in 1 .. N PROVE [a \in Nat |-> a + EncSz(b, i)] \in [Nat -> Nat]
    BY <1>2
  <2> QED BY <2>1 DEF Steps
<1>4. PICK f : Rounds(f, Nat, N, 0, step)
  <2> HIDE DEF step
  <2> QED BY <1>1, <1>3, Recursion
<1>5. f \in [0 .. N -> Nat] /\ f[0] = 0
  BY <1>4 DEF Rounds
<1>6. ASSUME NEW i \in 1 .. N PROVE f[i] = f[i - 1] + EncSz(b, i)
  <2>1. f[i - 1] \in Nat
    BY <1>1, <1>5
  <2>2. f[i] = step[i][f[i - 1]]
    BY <1>4 DEF Rounds
  <2> QED BY <2>1, <2>2
<1>7. f = Def(f)
  <2>1. ASSUME NEW i \in 0 .. N
        PROVE  f[i] = IF i = 0 THEN 0 ELSE f[i - 1] + EncSz(b, i)
    <3>1. CASE i = 0
      BY <1>5, <3>1
    <3>2. CASE i # 0
      <4>1. i \in 1 .. N
        BY <1>1, <3>2
      <4> QED BY <1>6, <3>2, <4>1
    <3> QED BY <3>1, <3>2
  <2> QED BY <1>5, <2>1
<1>8. h = Def(h)
  <2> HIDE DEF Def
  <2> QED BY <1>7
<1>9. Used(b) = h
  BY DEF Used, N
<1> HIDE DEF h
<1>10. h[0] = 0
  <2>1. 0 \in 0 .. N
    BY <1>1
  <2> QED BY <1>8, <2>1
<1>11. ASSUME NEW i \in 1 .. N
       PROVE  h[i] = h[i - 1] + ItemSz(b[i]) + Len(Fenceposts(b, i))
  <2>1. i \in 0 .. N /\ i # 0
    BY <1>1
  <2>2. h[i] = h[i - 1] + EncSz(b, i)
    BY <1>8, <2>1
  <2> DEFINE T == {n \in Nat : n <= N => h[n] \in Nat}
  <2>3. 0 \in T
    BY <1>10
  <2>4. ASSUME NEW n \in Nat, n \in T PROVE n + 1 \in T
    <3> SUFFICES ASSUME n + 1 <= N PROVE h[n + 1] \in Nat
      OBVIOUS
    <3> DEFINE j == n + 1
    <3>1. j \in 1 .. N /\ j \in 0 .. N /\ j # 0 /\ j - 1 = n /\ h[n] \in Nat
      BY <1>1, <2>4
    <3> HIDE DEF j, T
    <3>2. h[j] = h[j - 1] + EncSz(b, j)
      BY <1>8, <3>1
    <3>3. h[j] \in Nat
      BY <1>2, <3>1, <3>2
    <3> QED BY <3>3 DEF j
  <2>5. T = Nat
    <3>1. T \in SUBSET Nat
      OBVIOUS
    <3> HIDE DEF T
    <3> QED BY <2>3, <2>4, <3>1, NatInduct
  <2>6. h[i - 1] \in Nat
    <3>1. i - 1 \in Nat /\ i - 1 <= N
      BY <1>1
    <3>2. i - 1 \in T
      <4> HIDE DEF T
      <4> QED BY <2>5, <3>1
    <3> QED BY <3>1, <3>2
  <2>7. \A p, q, r \in Nat : p + (q + r) = p + q + r
    OBVIOUS
  <2> HIDE DEF T
  <2>8. ItemSz(b[i]) \in Nat /\ Len(Fenceposts(b, i)) \in Nat
    BY <1>2
  <2>9. h[i - 1] + (ItemSz(b[i]) + Len(Fenceposts(b, i)))
          = h[i - 1] + ItemSz(b[i]) + Len(Fenceposts(b, i))
    BY <2>6, <2>7, <2>8, Zenon
  <2>10. EncSz(b, i) = ItemSz(b[i]) + Len(Fenceposts(b, i))
    BY <1>2
  <2> QED BY <2>2, <2>9, <2>10, Zenon
<1> QED BY <1>9, <1>10, <1>11 DEF N

\* The last number of a prefix is the one before the next item.
LEMMA LastOfPrefix ==
  ASSUME NEW b \in Seq(Item), NEW i \in 1 .. Len(b)
  PROVE  LastNum(SubSeq(b, 1, i - 1)) = PrevNum(b, i)
<1> DEFINE k == i - 1
           p == SubSeq(b, 1, k)
<1>1. Len(b) \in Nat /\ k \in 0 .. Len(b) /\ i = k + 1
  BY LenProperties
<1>2. p \in Seq(Item) /\ Len(p) = k
  BY <1>1, SplitAt
<1>3. CASE k = 0
  <2>1. i = 1
    BY <1>1, <1>3
  <2>2. p = <<>>
    <3> HIDE DEF p
    <3> QED BY <1>2, <1>3, EmptySeq
  <2> HIDE DEF p
  <2> QED BY <2>1, <2>2 DEF LastNum, PrevNum, p, k
<1>4. CASE k # 0
  <2>1. i # 1 /\ k \in 1 .. k /\ k \in 1 .. Len(b)
    BY <1>1, <1>4
  <2>2. p[k] = b[k]
    <3> HIDE DEF k
    <3> QED BY <1>1, <2>1
  <2>3. p # <<>>
    <3> HIDE DEF p
    <3> QED BY <1>2, <1>4, EmptySeq
  <2> HIDE DEF p
  <2>4. LastNum(p) = b[k].num
    BY <1>2, <2>2, <2>3 DEF LastNum
  <2> QED BY <2>1, <2>4 DEF PrevNum, p
<1> QED BY <1>3, <1>4

\* ec_opts_encode writes as many bytes as it sets aside.
LEMMA UsedIsWritten ==
  ASSUME NEW b \in Seq(Item)
  PROVE  Len(EncodeAll(b)) = Used(b)[Len(b)]
<1> DEFINE N == Len(b)
           p(k) == SubSeq(b, 1, k)
           T == {k \in Nat : k <= N => Len(EncodeAll(p(k))) = Used(b)[k]}
<1>1. N \in Nat
  BY LenProperties
<1>2. ASSUME NEW k \in 0 .. N PROVE p(k) \in Seq(Item) /\ Len(p(k)) = k
  BY SplitAt
<1>3. 0 \in T
  <2>1. 0 \in 0 .. N
    BY <1>1
  <2>2. p(0) = <<>>
    <3> HIDE DEF p
    <3> QED BY <1>2, <2>1, EmptySeq
  <2>3. EncodeAll(<<>>) = <<>>
    BY ItemsEmpty, BytesEmpty DEF EncodeAll
  <2>4. Used(b)[0] = 0 /\ Len(<<>>) = 0
    BY UsedLoop
  <2> QED BY <2>2, <2>3, <2>4
<1>4. ASSUME NEW k \in T PROVE k + 1 \in T
  <2> SUFFICES ASSUME k + 1 <= N
               PROVE  Len(EncodeAll(p(k + 1))) = Used(b)[k + 1]
    BY <1>4
  <2> DEFINE i == k + 1
  <2>1. k \in Nat /\ i \in 1 .. N /\ k \in 0 .. N /\ i - 1 = k
    BY <1>1, <1>4
  <2>2. Len(EncodeAll(p(k))) = Used(b)[k]
    BY <1>4, <2>1
  <2> HIDE DEF i
  <2>3. p(i) = Append(p(k), b[i]) /\ b[i] \in Item
    BY <2>1, PrefixNext, ElementOfSeq
  <2>4. Len(EncodeAll(p(i))) = Len(EncodeAll(p(k))) + ItemSz(b[i])
                                 + Len(Gap(LastNum(p(k)), b[i].num))
    BY <1>2, <2>1, <2>3, EncodeAllAppend
  <2>5. LastNum(p(k)) = PrevNum(b, i)
    <3>1. LastNum(SubSeq(b, 1, i - 1)) = PrevNum(b, i)
      BY <2>1, LastOfPrefix
    <3> QED BY <2>1, <3>1
  <2>6. Fenceposts(b, i) = Gap(PrevNum(b, i), b[i].num)
    BY DEF Fenceposts, Gap
  <2>7. Used(b)[i] = Used(b)[i - 1] + ItemSz(b[i]) + Len(Fenceposts(b, i))
    BY <2>1, UsedLoop
  <2>8. Len(EncodeAll(p(i))) = Used(b)[i]
    <3> HIDE DEF p, T
    <3> QED BY <2>1, <2>2, <2>4, <2>5, <2>6, <2>7
  <2> QED BY <2>8 DEF i
<1>5. T = Nat
  <2>1. T \in SUBSET Nat
    OBVIOUS
  <2> HIDE DEF T
  <2> QED BY <1>3, <1>4, <2>1, NatInduct
<1>6. Len(EncodeAll(p(N))) = Used(b)[N]
  <2>1. N \in T
    <3> HIDE DEF T
    <3> QED BY <1>1, <1>5
  <2> QED BY <1>1, <2>1
<1>7. p(N) = b
  BY SubSeqFull
<1> QED BY <1>6, <1>7

\* A set of numbers up to a bound has a highest one.
LEMMA MaxOf ==
  ASSUME NEW n \in Nat, NEW S \in SUBSET (0 .. n), 0 \in S
  PROVE  Max(S) \in S /\ \A y \in S : Max(S) >= y
<1> DEFINE T == {k \in Nat : n - k \in S}
<1>1. T \in SUBSET Nat /\ n \in T
  BY n - n = 0
<1>2. PICK k \in T : \A m \in T : k <= m
  <2> HIDE DEF T
  <2>1. PICK k \in T : \A m \in T : ~(<<m, k>> \in OpToRel(<, Nat))
    BY <1>1, NatLessThanWellFounded, WFMin
  <2>2. \A m \in T : m \in Nat /\ k \in Nat /\ ~(m < k)
    BY <1>1, <2>1 DEF OpToRel
  <2> QED BY <2>2
<1>3. n - k \in S /\ k \in Nat
  OBVIOUS
<1>4. ASSUME NEW y \in S PROVE n - k >= y
  <2>1. y \in 0 .. n
    OBVIOUS
  <2>2. n - y \in T
    <3>1. n - y \in Nat /\ n - (n - y) = y
      BY <2>1
    <3> QED BY <3>1
  <2> QED BY <1>2, <1>3, <2>1, <2>2
<1> QED BY <1>3, <1>4 DEF Max

\* What fits does, and the encoder stops at the first option that does not.
LEMMA FittingFits ==
  ASSUME NEW b \in Seq(Item)
  PROVE  Fitting(b) \in 0 .. Len(b) /\ Used(b)[Fitting(b)] <= Capacity
<1> DEFINE S == {k \in 0 .. Len(b) : Used(b)[k] <= Capacity}
<1>1. Len(b) \in Nat /\ Capacity \in Nat
  <2>1. \A m, n \in Nat : m * n \in Nat
    OBVIOUS
  <2>2. MaxOptions \in Nat /\ OptLenMax \in Nat
    BY OptAssumption
  <2> QED BY <2>1, <2>2, LenProperties DEF Capacity
<1>2. 0 \in S /\ S \in SUBSET (0 .. Len(b))
  <2>1. Used(b)[0] = 0
    BY UsedLoop
  <2> QED BY <1>1, <2>1
<1>3. Fitting(b) = Max(S)
  BY DEF Fitting
<1>4. Max(S) \in S
  <2> HIDE DEF S
  <2> QED BY <1>1, <1>2, MaxOf
<1> QED BY <1>3, <1>4

-----------------------------------------------------------------------------
\* The deltas that ec_opts_encode has to write fit into their four bits.
Spaced(s) == \A i \in 1 .. Len(s) : s[i].num - PrevNum(s, i) \in 0 .. 14

\* A list whose deltas fit stays one with an item near its end.
LEMMA SpacedAppend ==
  ASSUME NEW s \in Seq(Item), NEW x \in Item, Spaced(s),
         x.num - LastNum(s) \in 0 .. 14
  PROVE  Spaced(Append(s, x))
<1> DEFINE c == Append(s, x)
           N == Len(s)
<1>1. /\ Len(c) = N + 1 /\ c[N + 1] = x
      /\ \A i \in 1 .. N : c[i] = s[i]
  BY AppendProperties
<1>2. /\ \A i \in 1 .. N : PrevNum(c, i) = PrevNum(s, i)
      /\ PrevNum(c, N + 1) = LastNum(s)
  BY PrevNumAppend
<1>3. N \in Nat
  BY LenProperties
<1>4. \A i \in 1 .. N : s[i].num - PrevNum(s, i) \in 0 .. 14
  BY DEF Spaced
<1> HIDE DEF c, N
<1>5. ASSUME NEW i \in 1 .. N + 1 PROVE c[i].num - PrevNum(c, i) \in 0 .. 14
  <2>1. CASE i \in 1 .. N
    BY <1>1, <1>2, <1>4, <2>1
  <2>2. CASE i = N + 1
    BY <1>1, <1>2, <2>2
  <2>3. i \in 1 .. N \/ i = N + 1
    BY <1>3
  <2> QED BY <2>1, <2>2, <2>3
<1>6. Spaced(c)
  BY <1>1, <1>5 DEF Spaced
<1> QED BY <1>6 DEF c

\* ... and with fenceposts, which are 14 apart.
LEMMA SpacedPosts ==
  ASSUME NEW s \in Seq(Item), Spaced(s), NEW g \in Seq(Post),
         g # <<>> => g[1].num - LastNum(s) \in 0 .. 14,
         \A i \in 2 .. Len(g) : g[i].num - g[i - 1].num = 14
  PROVE  /\ Spaced(s \o g)
         /\ LastNum(s \o g) = IF g = <<>> THEN LastNum(s) ELSE LastNum(g)
<1> DEFINE H(t) == /\ t # <<>> => t[1].num - LastNum(s) \in 0 .. 14
                   /\ \A i \in 2 .. Len(t) : t[i].num - t[i - 1].num = 14
           C(t) == /\ Spaced(s \o t)
                   /\ LastNum(s \o t) = IF t = <<>> THEN LastNum(s) ELSE LastNum(t)
           T == {t \in Seq(Post) : H(t) => C(t)}
<1>1. <<>> \in T
  <2>1. <<>> \in Seq(Post) /\ s \o <<>> = s
    BY EmptySeq, ConcatEmptySeq
  <2> QED BY <2>1
<1>2. ASSUME NEW t \in Seq(Post), t \in T, NEW x \in Post
      PROVE  Append(t, x) \in T
  <2> DEFINE u == Append(t, x)
             N == Len(t)
  <2>1. /\ u \in Seq(Post) /\ Len(u) = N + 1 /\ u[N + 1] = x /\ u # <<>>
        /\ \A i \in 1 .. N : u[i] = t[i]
    BY AppendProperties
  <2>2. N \in Nat /\ (t = <<>> <=> N = 0)
    BY LenProperties, EmptySeq
  <2>3. t \in Seq(Item) /\ x \in Item
    BY PostFacts
  <2>4. s \o t \in Seq(Item) /\ s \o u = Append(s \o t, x)
    BY <2>3, ConcatProperties, ConcatAppend
  <2>5. LastNum(u) = x.num /\ LastNum(s \o u) = x.num
    BY <2>3, LastNumRules
  <2>6. ASSUME H(u) PROVE C(u)
    <3> HIDE DEF T, u, N, C
    <3>1. H(t)
      <4>1. t # <<>> => 1 \in 1 .. N
        BY <2>2
      <4>2. t # <<>> => t[1].num - LastNum(s) \in 0 .. 14
        BY <2>1, <2>6, <4>1
      <4>3. ASSUME NEW i \in 2 .. N PROVE t[i].num - t[i - 1].num = 14
        <5>1. i \in 2 .. Len(u) /\ i \in 1 .. N /\ i - 1 \in 1 .. N
          BY <2>1, <2>2
        <5>2. u[i].num - u[i - 1].num = 14
          BY <2>6, <5>1
        <5> QED BY <2>1, <5>1, <5>2
      <4> QED BY <4>2, <4>3 DEF N
    <3>2. C(t)
      <4> HIDE DEF H
      <4> QED BY <1>2, <3>1 DEF T
    <3>3. x.num - LastNum(s \o t) \in 0 .. 14
      <4>1. CASE t = <<>>
        <5>1. u[1] = x /\ LastNum(s \o t) = LastNum(s)
          BY <2>1, <2>2, <3>2, <4>1 DEF C
        <5> QED BY <2>1, <2>6, <5>1
      <4>2. CASE t # <<>>
        <5>1. N + 1 \in 2 .. Len(u) /\ N + 1 - 1 = N /\ N \in 1 .. N
          BY <2>1, <2>2, <4>2
        <5>2. u[N + 1].num - u[N + 1 - 1].num = 14
          BY <2>6, <5>1
        <5>3. x.num - t[N].num = 14
          BY <2>1, <5>1, <5>2
        <5>4. LastNum(s \o t) = t[N].num
          BY <3>2, <4>2 DEF C, LastNum, N
        <5>5. 14 \in 0 .. 14
          OBVIOUS
        <5> QED BY <5>3, <5>4, <5>5
      <4> QED BY <4>1, <4>2
    <3>4. Spaced(s \o u)
      BY <2>3, <2>4, <3>2, <3>3, SpacedAppend DEF C
    <3> QED BY <2>1, <2>5, <3>4 DEF C
  <2> QED BY <2>1, <2>6
<1>3. T = Seq(Post)
  <2>1. T \in SUBSET Seq(Post)
    OBVIOUS
  <2> HIDE DEF T
  <2> QED BY <1>1, <1>2, <2>1, SeqInduct
<1>4. g \in T /\ H(g)
  <2> HIDE DEF T
  <2> QED BY <1>3
<1> QED BY <1>4

\* With its fenceposts, a list in order has no delta above 14.
LEMMA ItemsSpaced ==
  ASSUME NEW b \in Seq(Item), Ordered(b)
  PROVE  Spaced(Items(b)) /\ LastNum(Items(b)) = LastNum(b)
<1> DEFINE C(t) == Spaced(Items(t)) /\ LastNum(Items(t)) = LastNum(t)
           T == {t \in Seq(Item) : Ordered(t) => C(t)}
<1>1. <<>> \in T
  <2>1. <<>> \in Seq(Item) /\ Spaced(<<>>)
    BY EmptySeq DEF Spaced
  <2> QED BY <2>1, ItemsEmpty
<1>2. ASSUME NEW t \in Seq(Item), t \in T, NEW x \in Item
      PROVE  Append(t, x) \in T
  <2> DEFINE u == Append(t, x)
             g == Gap(LastNum(t), x.num)
             s == Items(t)
  <2>1. u \in Seq(Item)
    BY AppendProperties
  <2>2. ASSUME Ordered(u) PROVE C(u)
    <3>1. Ordered(t) /\ LastNum(t) <= x.num
      BY <2>2, OrderedAppend
    <3>2. C(t)
      BY <1>2, <3>1
    <3>3. s \in Seq(Item) /\ Items(u) = s \o Append(g, x)
      BY ItemsAppend
    <3>4. LastNum(t) \in Nat /\ x.num \in Nat \ {0}
      BY LastNumType, ItemFacts
    <3>5. /\ g \in Seq(Post)
          /\ g = <<>> => x.num - LastNum(t) \in 0 .. 14
          /\ g # <<>> => /\ g[1].num - LastNum(t) \in 0 .. 14
                         /\ x.num - LastNum(g) \in 0 .. 14
          /\ \A i \in 2 .. Len(g) : g[i].num - g[i - 1].num = 14
      <4> DEFINE prev == LastNum(t)
                 num == x.num
      <4>1. prev \in Nat /\ num \in Nat \ {0} /\ prev <= num
        BY <3>1, <3>4
      <4> HIDE DEF prev, num, T, C, s, u
      <4>2. /\ Gap(prev, num) \in Seq(Post)
            /\ Gap(prev, num) = <<>> => num - prev \in 0 .. 14
            /\ Gap(prev, num) # <<>> =>
                 /\ Gap(prev, num)[1].num - prev \in 0 .. 14
                 /\ num - LastNum(Gap(prev, num)) \in 0 .. 14
            /\ \A i \in 2 .. Len(Gap(prev, num)) :
                 Gap(prev, num)[i].num - Gap(prev, num)[i - 1].num = 14
        BY <4>1, GapFacts
      <4> QED BY <4>2 DEF prev, num
    <3>6. Spaced(s) /\ LastNum(s) = LastNum(t)
      BY <3>2
    <3> HIDE DEF g, s, T, C, u
    <3>7. /\ Spaced(s \o g)
          /\ LastNum(s \o g) = IF g = <<>> THEN LastNum(s) ELSE LastNum(g)
      BY <3>3, <3>5, <3>6, SpacedPosts
    <3>8. x.num - LastNum(s \o g) \in 0 .. 14
      BY <3>5, <3>6, <3>7
    <3>9. g \in Seq(Item)
      BY <3>5, PostFacts
    <3>10. s \o g \in Seq(Item) /\ s \o Append(g, x) = Append(s \o g, x)
      BY <3>3, <3>9, ConcatProperties, ConcatAppend
    <3>11. Spaced(Items(u))
      BY <3>3, <3>7, <3>8, <3>10, SpacedAppend
    <3>12. LastNum(u) = x.num /\ LastNum(Items(u)) = x.num
      BY <3>3, <3>9, LastNumRules DEF u
    <3> QED BY <3>11, <3>12 DEF C
  <2> QED BY <2>1, <2>2
<1>3. T = Seq(Item)
  <2>1. T \in SUBSET Seq(Item)
    OBVIOUS
  <2> HIDE DEF T
  <2> QED BY <1>1, <1>2, <2>1, SeqInduct
<1> QED BY <1>3

-----------------------------------------------------------------------------
(***************************************************************************)
(* What the decoder looks for in the items.                                *)
(***************************************************************************)

\* Fenceposts apart, the items of a list are its options.
LEMMA ItemsIn ==
  ASSUME NEW D \in SUBSET Item, Post \subseteq D, NEW b \in Seq(D)
  PROVE  Items(b) \in Seq(D)
<1> DEFINE T == {t \in Seq(D) : Items(t) \in Seq(D)}
<1>1. <<>> \in T
  <2>1. <<>> \in Seq(D)
    BY EmptySeq
  <2> QED BY <2>1, ItemsEmpty
<1>2. ASSUME NEW t \in Seq(D), t \in T, NEW x \in D
      PROVE  Append(t, x) \in T
  <2>1. t \in Seq(Item) /\ x \in Item
    OBVIOUS
  <2> DEFINE g == Gap(LastNum(t), x.num)
  <2>2. Items(Append(t, x)) = Items(t) \o Append(g, x)
    BY <2>1, ItemsAppend
  <2>3. LastNum(t) \in Nat /\ x.num \in Nat \ {0}
    BY <2>1, LastNumType, ItemFacts
  <2>4. g \in Seq(Post)
    BY <2>3, GapType
  <2> HIDE DEF g
  <2>5. g \in Seq(D) /\ Append(g, x) \in Seq(D)
    BY <2>4, AppendProperties
  <2>6. Items(t) \in Seq(D)
    BY <1>2
  <2>7. Items(t) \o Append(g, x) \in Seq(D)
    BY <2>5, <2>6, ConcatProperties
  <2>8. Append(t, x) \in Seq(D)
    BY AppendProperties
  <2> QED BY <2>2, <2>7, <2>8
<1>3. T = Seq(D)
  <2>1. T \in SUBSET Seq(D)
    OBVIOUS
  <2> HIDE DEF T
  <2> QED BY <1>1, <1>2, <2>1, SeqInduct
<1> QED BY <1>3

\* What fenceposts do not give is gathered from the items as from the list.
LEMMA GatherItems ==
  ASSUME NEW S, NEW g \in [Item -> Seq(S)], \A p \in Post : g[p] = <<>>,
         NEW b \in Seq(Item)
  PROVE  Gather(Items(b), g) = Gather(b, g)
<1> DEFINE T == {t \in Seq(Item) : Gather(Items(t), g) = Gather(t, g)}
<1>1. <<>> \in T
  <2>1. <<>> \in Seq(Item)
    BY EmptySeq
  <2> QED BY <2>1, ItemsEmpty
<1>2. ASSUME NEW t \in Seq(Item), t \in T, NEW x \in Item
      PROVE  Append(t, x) \in T
  <2> DEFINE p == Gap(LastNum(t), x.num)
             s == Items(t)
  <2>1. s \in Seq(Item) /\ Items(Append(t, x)) = s \o Append(p, x)
    BY ItemsAppend
  <2>2. LastNum(t) \in Nat /\ x.num \in Nat \ {0}
    BY LastNumType, ItemFacts
  <2>3. p \in Seq(Post) /\ p \in Seq(Item)
    BY <2>2, GapType
  <2> HIDE DEF p
  <2>4. Gather(p, g) = <<>>
    <3>1. \A i \in 1 .. Len(p) : p[i] \in Post
      BY <2>3, ElementOfSeq
    <3>2. \A i \in 1 .. Len(p) : g[p[i]] = <<>>
      BY <3>1
    <3> QED BY <2>3, <3>2, GatherNone
  <2>5. Gather(s, g) = Gather(t, g)
    BY <1>2
  <2> HIDE DEF s, T
  <2>6. s \o Append(p, x) = Append(s \o p, x) /\ s \o p \in Seq(Item)
    BY <2>1, <2>3, ConcatAppend, ConcatProperties
  <2>7. Gather(Append(s \o p, x), g) = Gather(s \o p, g) \o g[x]
    BY <2>6, GatherAppend
  <2>8. Gather(s \o p, g) = Gather(s, g) \o Gather(p, g)
    BY <2>1, <2>3, GatherConcat
  <2>9. Gather(s, g) \o <<>> = Gather(s, g)
    BY <2>1, GatherRules, ConcatEmptySeq
  <2>10. Gather(Append(t, x), g) = Gather(t, g) \o g[x]
    BY GatherAppend
  <2>11. Append(t, x) \in Seq(Item)
    BY AppendProperties
  <2> QED BY <2>1, <2>4, <2>5, <2>6, <2>7, <2>8, <2>9, <2>10, <2>11 DEF T
<1>3. T = Seq(Item)
  <2>1. T \in SUBSET Seq(Item)
    OBVIOUS
  <2> HIDE DEF T
  <2> QED BY <1>1, <1>2, <2>1, SeqInduct
<1> QED BY <1>3

\* What Recognized takes of an item.
Recog == [o \in Item |-> IF o.num \in Known THEN <<o>> ELSE <<>>]

\* What makes an item critical.
Crit == [o \in Item |-> IF Critical(o.num) THEN <<o.num>> ELSE <<>>]

\* Their types; a fencepost is neither recognized nor critical.
LEMMA RecogType ==
  /\ Recog \in [Item -> Seq(Option)] /\ Crit \in [Item -> Seq(Nat)]
  /\ \A p \in Post : Recog[p] = <<>> /\ Crit[p] = <<>>
<1>1. ASSUME NEW o \in Item
      PROVE  /\ (IF o.num \in Known THEN <<o>> ELSE <<>>) \in Seq(Option)
             /\ (IF Critical(o.num) THEN <<o.num>> ELSE <<>>) \in Seq(Nat)
  <2>1. o.num \in Known => o \in Option
    BY DEF Item, Option
  <2>2. <<>> \in Seq(Option) /\ <<>> \in Seq(Nat)
    BY EmptySeq
  <2>3. o \in Option => <<o>> \in Seq(Option)
    OBVIOUS
  <2>4. <<o.num>> \in Seq(Nat)
    BY ItemFacts
  <2> QED BY <2>1, <2>2, <2>3, <2>4
<1>2. ASSUME NEW p \in Post PROVE Recog[p] = <<>> /\ Crit[p] = <<>>
  <2>1. p \in Item /\ p.num \notin Known /\ p.num % 2 # 1
    <3>1. p \in Item /\ p.num \notin Known /\ p.num % 2 = 0
      BY PostFacts
    <3> QED BY <3>1
  <2> QED BY <2>1 DEF Recog, Crit, Critical
<1>3. Recog \in [Item -> Seq(Option)]
  BY <1>1 DEF Recog
<1>4. Crit \in [Item -> Seq(Nat)]
  BY <1>1 DEF Crit
<1> QED BY <1>2, <1>3, <1>4

\* Recognized gathers what Recog gives.
LEMMA RecognizedGather ==
  ASSUME NEW b \in Seq(Item)
  PROVE  Recognized(b) = Gather(b, Recog)
<1>1. \A i \in DOMAIN b : b[i] \in Item
  OBVIOUS
<1>2. [i \in DOMAIN b |-> Recog[b[i]]]
        = [i \in DOMAIN b |-> IF b[i].num \in Known THEN <<b[i]>> ELSE <<>>]
  BY <1>1 DEF Recog
<1> QED BY <1>2 DEF Recognized, Gather

\* Nothing critical is gathered if no item is critical, and only then.
LEMMA NoneCritical ==
  ASSUME NEW c \in Seq(Item)
  PROVE  Gather(c, Crit) = <<>> <=> \A i \in 1 .. Len(c) : ~Critical(c[i].num)
<1>1. Crit \in [Item -> Seq(Nat)]
  BY RecogType
<1>2. ASSUME NEW i \in 1 .. Len(c)
      PROVE  Crit[c[i]] = <<>> <=> ~Critical(c[i].num)
  <2>1. c[i] \in Item
    BY ElementOfSeq
  <2>2. <<c[i].num>> # <<>>
    OBVIOUS
  <2> QED BY <2>1, <2>2 DEF Crit
<1>3. ASSUME NEW S, Crit \in [Item -> Seq(S)], Gather(c, Crit) = <<>>,
             NEW i \in 1 .. Len(c)
      PROVE  Crit[c[i]] = <<>>
  BY <1>3, GatherEmpty
<1>4. ASSUME \A i \in 1 .. Len(c) : Crit[c[i]] = <<>>
      PROVE  Gather(c, Crit) = <<>>
  BY <1>1, <1>4, GatherNone
<1> QED BY <1>1, <1>2, <1>3, <1>4

\* The decoder skips the fenceposts.
LEMMA ItemsRecognized ==
  ASSUME NEW b \in Seq(Item)
  PROVE  /\ Recognized(Items(b)) = Recognized(b)
         /\ (\E i \in 1 .. Len(Items(b)) : Critical(Items(b)[i].num))
              <=> (\E i \in 1 .. Len(b) : Critical(b[i].num))
<1>1. Gather(Items(b), Recog) = Gather(b, Recog)
  BY RecogType, GatherItems
<1>2. Items(b) \in Seq(Item)
  BY ItemsType
<1>3. Recognized(Items(b)) = Recognized(b)
  BY <1>1, <1>2, RecognizedGather
<1>4. Gather(Items(b), Crit) = Gather(b, Crit)
  BY RecogType, GatherItems
<1>5. \A c \in Seq(Item) :
        Gather(c, Crit) = <<>> <=> \A i \in 1 .. Len(c) : ~Critical(c[i].num)
  BY NoneCritical
<1>6. (\A i \in 1 .. Len(Items(b)) : ~Critical(Items(b)[i].num))
        <=> (\A i \in 1 .. Len(b) : ~Critical(b[i].num))
  BY <1>2, <1>4, <1>5
<1> QED BY <1>3, <1>6

\* An option that is not below the others is pushed to the end.
LEMMA PushEnd ==
  ASSUME NEW b \in Seq(Option), NEW n \in Known, NEW v \in Seq(Nat),
         \A i \in 1 .. Len(b) : b[i].num <= n
  PROVE  Push(b, n, <<v>>) = Append(b, [num |-> n, val |-> v])
<1>1. Position(b, n) = Len(b)
  <2>1. /\ Position(b, n) \in 0 .. Len(b)
        /\ \A i \in DOMAIN b : i > Position(b, n) => ~(b[i].num <= n)
    BY PositionLast
  <2>2. Len(b) \in Nat /\ DOMAIN b = 1 .. Len(b)
    BY LenProperties
  <2>3. Len(b) > Position(b, n) => Len(b) \in DOMAIN b
    BY <2>1, <2>2
  <2> QED BY <2>1, <2>2, <2>3
<1> DEFINE N == Len(b)
           o == [num |-> n, val |-> v]
<1>2. N \in Nat /\ Len(<<v>>) = 1 /\ DOMAIN b = 1 .. N
  BY LenProperties
<1>3. Push(b, n, <<v>>) = [i \in 1 .. N + 1 |->
        IF i <= N THEN b[i]
        ELSE IF i <= N + 1 THEN [num |-> n, val |-> <<v>>[i - N]]
        ELSE b[i - 1]]
  BY <1>1, <1>2 DEF Push
<1>4. Append(b, o) = [i \in 1 .. N + 1 |-> IF i <= N THEN b[i] ELSE o]
  OBVIOUS
<1>5. ASSUME NEW i \in 1 .. N + 1
      PROVE  (IF i <= N THEN b[i]
              ELSE IF i <= N + 1 THEN [num |-> n, val |-> <<v>>[i - N]]
              ELSE b[i - 1]) = IF i <= N THEN b[i] ELSE o
  <2>1. CASE i <= N
    BY <2>1
  <2>2. CASE ~(i <= N)
    <3>1. i - N = 1 /\ i <= N + 1
      BY <1>2, <2>2
    <3>2. <<v>>[i - N] = v
      BY <3>1
    <3> QED BY <2>2, <3>1, <3>2
  <2> QED BY <2>1, <2>2
<1> QED BY <1>3, <1>4, <1>5

-----------------------------------------------------------------------------
(***************************************************************************)
(* Decoding one item, and then all of them.                                *)
(***************************************************************************)

\* What the decoder takes as it was sent: values of every length but 15,
\* and none for an option without a value.
Plain == {x \in Item : Len(x.val) # 15 /\ (x.num \in EmptyNums => x.val = <<>>)}

\* The decoder when it has read the items s and nothing else.
After(s) == [rc |-> "UNSET", pos |-> Len(Bytes(s)) + 1, num |-> LastNum(s),
             bundle |-> Recognized(s)]

\* What stands in a datagram after the items s.
LEMMA AtItem ==
  ASSUME NEW s \in Seq(Item), NEW x \in Item, NEW rest \in Seq(Nat),
         NEW j \in 1 .. ItemSz(x)
  PROVE  At(Bytes(Append(s, x)) \o rest, Len(Bytes(s)) + j) = Enc(LastNum(s), x)[j]
<1> DEFINE a == Bytes(s)
           e == Enc(LastNum(s), x)
           o == Len(a)
<1>1. a \in Seq(Nat) /\ Bytes(Append(s, x)) = a \o e
  BY BytesAppend
<1>2. e \in Seq(Nat) /\ Len(e) = ItemSz(x) /\ ItemSz(x) \in Nat
  BY LastNumType, EncType, ItemFacts
<1> HIDE DEF a, e
<1>3. a \o e \in Seq(Nat) /\ Len(a \o e) = o + ItemSz(x) /\ o \in Nat
  BY <1>1, <1>2, ConcatProperties, LenProperties
<1> DEFINE c == a \o e
<1>4. c \o rest \in Seq(Nat) /\ Len(c \o rest) = Len(c) + Len(rest) /\ Len(rest) \in Nat
  <2>1. \A p, q \in Seq(Nat) : p \o q \in Seq(Nat) /\ Len(p \o q) = Len(p) + Len(q)
    BY ConcatProperties
  <2>2. Len(rest) \in Nat
    BY LenProperties
  <2> QED BY <1>3, <2>1, <2>2
<1>5. c[o + j] = e[j]
  <2>1. j \in 1 .. Len(e)
    BY <1>2
  <2>2. o + j \in 1 .. Len(a) + Len(e) /\ ~(o + j <= Len(a)) /\ o + j - Len(a) = j
    BY <1>3, <1>2
  <2> QED BY <1>1, <1>2, <2>2, ConcatProperties
<1>6. o + j \in 1 .. Len(c)
  BY <1>2, <1>3
<1>9. Len(c) \in Nat
  BY <1>2, <1>3
<1> HIDE DEF c, o
<1>10. c \in Seq(Nat)
  BY <1>3 DEF c
<1>7. (c \o rest)[o + j] = c[o + j]
  <2>1. o + j \in 1 .. Len(c) + Len(rest) /\ o + j <= Len(c)
    BY <1>4, <1>6, <1>9
  <2> QED BY <1>10, <2>1, ConcatProperties
<1>8. o + j <= Len(c \o rest)
  BY <1>4, <1>6, <1>9
<1>11. At(c \o rest, o + j) = e[j]
  BY <1>5, <1>7, <1>8 DEF At
<1> QED BY <1>1, <1>11 DEF c, o, e, a

\* The bytes of an item.
LEMMA EncBytes ==
  ASSUME NEW prev \in Nat, NEW x \in Item, x.num - prev \in 0 .. 14
  PROVE  LET l == Len(x.val)
             e == Enc(prev, x)
         IN /\ e[1] = (x.num - prev) * 16 + (IF l > 14 THEN 15 ELSE l)
            /\ l > 14 => e[2] = l - 15
            /\ \A i \in 1 .. l : e[i + (IF l > 14 THEN 2 ELSE 1)] = x.val[i]
<1> DEFINE l == Len(x.val)
           v == x.val
           d == x.num - prev
<1>1. l \in Nat /\ v \in Seq(Nat) /\ d \in 0 .. 14
  BY ItemFacts
<1>2. Enc(prev, x) = (IF l > 14 THEN <<Header(d, 15), l - 15>>
                      ELSE <<Header(d, l)>>) \o v
  BY DEF Enc
<1>3. Len(v) = l
  OBVIOUS
<1> HIDE DEF l, v, d
<1>4. d % 16 = d
  BY <1>1
<1>5. ASSUME NEW h \in Seq(Nat), NEW n \in 1 .. 2, Len(h) = n
      PROVE  /\ \A i \in 1 .. n : (h \o v)[i] = h[i]
             /\ \A i \in 1 .. l : (h \o v)[i + n] = v[i]
  <2>1. ASSUME NEW i \in 1 .. n PROVE (h \o v)[i] = h[i]
    <3>1. i \in 1 .. Len(h) + Len(v) /\ i <= Len(h)
      BY <1>1, <1>3, <1>5
    <3> QED BY <1>1, <3>1, ConcatProperties
  <2>2. ASSUME NEW i \in 1 .. l PROVE (h \o v)[i + n] = v[i]
    <3> DEFINE k == i + n
    <3>1. k \in 1 .. Len(h) + Len(v) /\ ~(k <= Len(h)) /\ k - Len(h) = i
      BY <1>1, <1>3, <1>5
    <3> HIDE DEF k
    <3>2. (h \o v)[k] = v[i]
      BY <1>1, <3>1, ConcatProperties
    <3> QED BY <3>2 DEF k
  <2> QED BY <2>1, <2>2
<1>6. CASE l > 14
  <2> DEFINE h == <<Header(d, 15), l - 15>>
  <2>1. /\ h \in Seq(Nat) /\ Len(h) = 2 /\ h[1] = d * 16 + 15 /\ h[2] = l - 15
    <3>1. Header(d, 15) = d * 16 + 15 /\ Header(d, 15) \in Nat /\ l - 15 \in Nat
      BY <1>1, <1>4, <1>6 DEF Header
    <3> QED BY <3>1
  <2>2. Enc(prev, x) = h \o v
    BY <1>2, <1>6
  <2> HIDE DEF h
  <2>3. 2 \in 1 .. 2 /\ 1 \in 1 .. 2
    OBVIOUS
  <2>4. /\ \A i \in 1 .. 2 : (h \o v)[i] = h[i]
        /\ \A i \in 1 .. l : (h \o v)[i + 2] = v[i]
    BY <1>5, <2>1, <2>3
  <2> QED BY <1>6, <2>1, <2>2, <2>3, <2>4 DEF l, v, d
<1>7. CASE ~(l > 14)
  <2> DEFINE h == <<Header(d, l)>>
  <2>1. /\ h \in Seq(Nat) /\ Len(h) = 1 /\ h[1] = d * 16 + l
    <3>1. Header(d, l) = d * 16 + l /\ Header(d, l) \in Nat
      BY <1>1, <1>4 DEF Header
    <3> QED BY <3>1
  <2>2. Enc(prev, x) = h \o v
    BY <1>2, <1>7
  <2> HIDE DEF h
  <2>3. 1 \in 1 .. 1 /\ 1 \in 1 .. 2
    OBVIOUS
  <2>4. /\ \A i \in 1 .. 1 : (h \o v)[i] = h[i]
        /\ \A i \in 1 .. l : (h \o v)[i + 1] = v[i]
    BY <1>5, <2>1, <2>3
  <2> QED BY <1>7, <2>1, <2>2, <2>3, <2>4 DEF l, v, d
<1> QED BY <1>6, <1>7

\* What one round of ec_opts_decode reads.
LEMMA DecodeReads ==
  ASSUME NEW s \in Seq(Item), NEW x \in Plain, NEW rest \in Seq(Nat),
         x.num - LastNum(s) \in 0 .. 14
  PROVE  LET bytes == Bytes(Append(s, x)) \o rest
             p == Len(Bytes(s)) + 1
             l == Len(x.val)
             n == IF l > 14 THEN 2 ELSE 1
             nibble == IF l > 14 THEN 15 ELSE l
         IN /\ LastNum(s) + At(bytes, p) \div 16 = x.num
            /\ At(bytes, p) % 16 = nibble
            /\ nibble = 15 => At(bytes, p + 1) + 15 = l
            /\ (IF l > 15 THEN 2 ELSE 1) = n
            /\ \A i \in 1 .. l : At(bytes, p + n + i - 1) = x.val[i]
            /\ p + n + l = Len(Bytes(Append(s, x))) + 1
<1> DEFINE bytes == Bytes(Append(s, x)) \o rest
           o == Len(Bytes(s))
           p == o + 1
           l == Len(x.val)
           n == IF l > 14 THEN 2 ELSE 1
           nibble == IF l > 14 THEN 15 ELSE l
           e == Enc(LastNum(s), x)
           d == x.num - LastNum(s)
           last == LastNum(s)
           num == x.num
<1>1. x \in Item /\ l # 15 /\ l \in Nat /\ last \in Nat /\ num \in Nat /\ o \in Nat
  <2>1. x \in Item /\ l # 15
    BY DEF Plain
  <2>2. Bytes(s) \in Seq(Nat)
    BY <2>1, BytesAppend
  <2> QED BY <2>1, <2>2, ItemFacts, LastNumType, LenProperties
<1>2. /\ e[1] = d * 16 + (IF l > 14 THEN 15 ELSE l)
      /\ l > 14 => e[2] = l - 15
      /\ \A i \in 1 .. l : e[i + (IF l > 14 THEN 2 ELSE 1)] = x.val[i]
  BY <1>1, EncBytes
<1>3. ItemSz(x) = n + l
  BY DEF ItemSz
<1>4. \A j \in 1 .. ItemSz(x) : At(bytes, o + j) = e[j]
  BY <1>1, AtItem
<1>5. d \in 0 .. 14 /\ d = num - last
  OBVIOUS
<1>6. Len(Bytes(Append(s, x))) = o + ItemSz(x)
  <2>1. Bytes(Append(s, x)) = Bytes(s) \o e /\ Bytes(s) \in Seq(Nat)
    BY <1>1, BytesAppend
  <2>2. e \in Seq(Nat) /\ Len(e) = ItemSz(x)
    BY <1>1, EncType
  <2>3. \A i, j \in Seq(Nat) : Len(i \o j) = Len(i) + Len(j)
    BY ConcatProperties
  <2> HIDE DEF e
  <2> QED BY <2>1, <2>2, <2>3
<1> DEFINE val == x.val
           total == Len(Bytes(Append(s, x)))
           sz == ItemSz(x)
<1>7. /\ \A i \in 1 .. l : e[i + n] = val[i]
      /\ \A j \in 1 .. sz : At(bytes, o + j) = e[j]
      /\ total = o + sz /\ sz = n + l
      /\ e[1] = d * 16 + nibble
  BY <1>2, <1>3, <1>4, <1>6
<1> HIDE DEF bytes, o, l, e, d, last, num, val, total, sz
<1>8. n \in 1 .. 2 /\ (l > 14 => n = 2 /\ nibble = 15) /\ nibble \in 0 .. 15
      /\ (nibble = 15 => l > 14) /\ (IF l > 15 THEN 2 ELSE 1) = n
  BY <1>1
<1> HIDE DEF n, nibble
<1>9. At(bytes, p) = d * 16 + nibble
  <2>1. 1 \in 1 .. sz
    BY <1>1, <1>7, <1>8
  <2>2. At(bytes, o + 1) = e[1]
    BY <1>7, <2>1
  <2> QED BY <1>7, <2>2
<1>10. nibble = 15 => At(bytes, p + 1) + 15 = l
  <2> SUFFICES ASSUME nibble = 15 PROVE At(bytes, p + 1) + 15 = l
    OBVIOUS
  <2>1. l > 14 /\ n = 2
    BY <1>8
  <2>2. 2 \in 1 .. sz /\ p + 1 = o + 2
    BY <1>1, <1>7, <2>1
  <2>3. At(bytes, o + 2) = e[2]
    BY <1>7, <2>2
  <2>4. e[2] = l - 15
    BY <1>2, <2>1 DEF e, l
  <2> QED BY <1>1, <2>2, <2>3, <2>4
<1>11. ASSUME NEW i \in 1 .. l PROVE At(bytes, p + n + i - 1) = val[i]
  <2>1. i + n \in 1 .. sz /\ p + n + i - 1 = o + (i + n)
    BY <1>1, <1>7, <1>8
  <2> QED BY <1>7, <2>1
<1>12. last + (d * 16 + nibble) \div 16 = num /\ (d * 16 + nibble) % 16 = nibble
  <2>1. \A i \in 0 .. 14, j \in 0 .. 15 :
          (i * 16 + j) \div 16 = i /\ (i * 16 + j) % 16 = j
    OBVIOUS
  <2>2. (d * 16 + nibble) \div 16 = d /\ (d * 16 + nibble) % 16 = nibble
    BY <1>5, <1>8, <2>1
  <2> QED BY <1>1, <1>5, <2>2
<1>13. p + n + l = total + 1
  BY <1>1, <1>7, <1>8
<1>14. /\ last + At(bytes, p) \div 16 = num
       /\ At(bytes, p) % 16 = nibble
  BY <1>9, <1>12
<1> QED BY <1>8, <1>10, <1>11, <1>13, <1>14
        DEF bytes, o, l, last, num, val, total, n, nibble

\* What is recognized of a list with one item more.
LEMMA RecognizedAppend ==
  ASSUME NEW s \in Seq(Item), NEW x \in Item
  PROVE  /\ Recognized(s) \in Seq(Option)
         /\ x.num \in Known => Recognized(Append(s, x)) = Append(Recognized(s), x)
                               /\ x \in Option
         /\ x.num \notin Known => Recognized(Append(s, x)) = Recognized(s)
<1>1. Recog \in [Item -> Seq(Option)]
  BY RecogType
<1>2. Append(s, x) \in Seq(Item)
  BY AppendProperties
<1> DEFINE r == Recognized(s)
<1>3. r = Gather(s, Recog) /\ Recognized(Append(s, x)) = Gather(Append(s, x), Recog)
  BY <1>2, RecognizedGather
<1>4. r \in Seq(Option)
  BY <1>1, <1>3, GatherRules
<1>5. Recognized(Append(s, x)) = r \o Recog[x]
  BY <1>1, <1>3, GatherAppend
<1> HIDE DEF r
<1>6. ASSUME x.num \in Known
      PROVE  x \in Option /\ r \o Recog[x] = Append(r, x)
  <2>1. x \in Option
    BY <1>6 DEF Item, Option
  <2>2. Recog[x] = <<x>>
    BY <1>6 DEF Recog
  <2> QED BY <1>4, <2>1, <2>2, AppendIsConcat
<1>7. ASSUME x.num \notin Known
      PROVE  r \o Recog[x] = r
  <2>1. Recog[x] = <<>>
    BY <1>7 DEF Recog
  <2> QED BY <1>4, <2>1, ConcatEmptySeq
<1>8. /\ r \in Seq(Option)
      /\ x.num \in Known => Recognized(Append(s, x)) = Append(r, x) /\ x \in Option
      /\ x.num \notin Known => Recognized(Append(s, x)) = r
  BY <1>4, <1>5, <1>6, <1>7
<1> QED BY <1>8 DEF r

\* One round of ec_opts_decode reads the next item, or refuses it.
LEMMA DecodeNext ==
  ASSUME NEW s \in Seq(Item), NEW x \in Plain, NEW rest \in Seq(Nat),
         x.num - LastNum(s) \in 0 .. 14,
         \A i \in 1 .. Len(Recognized(s)) : Recognized(s)[i].num <= x.num
  PROVE  LET d == DecodeOption(Bytes(Append(s, x)) \o rest, After(s))
         IN /\ Critical(x.num) => d.rc = "BAD_OPTION"
            /\ ~Critical(x.num) => d = After(Append(s, x))
<1> DEFINE bytes == Bytes(Append(s, x)) \o rest
           p == Len(Bytes(s)) + 1
           l == Len(x.val)
           n == IF l > 14 THEN 2 ELSE 1
           nibble == IF l > 14 THEN 15 ELSE l
           r == Recognized(s)
           d == After(s)
           next == After(Append(s, x))
<1>1. /\ LastNum(s) + At(bytes, p) \div 16 = x.num
      /\ At(bytes, p) % 16 = nibble
      /\ nibble = 15 => At(bytes, p + 1) + 15 = l
      /\ (IF l > 15 THEN 2 ELSE 1) = n
      /\ \A i \in 1 .. l : At(bytes, p + n + i - 1) = x.val[i]
      /\ p + n + l = Len(Bytes(Append(s, x))) + 1
  BY DecodeReads
<1>2. x \in Item /\ l \in Nat /\ x.val \in Seq(Nat) /\ x.num \in Nat
      /\ (x.num \in EmptyNums => x.val = <<>>)
  <2>1. x \in Item /\ (x.num \in EmptyNums => x.val = <<>>)
    BY DEF Plain
  <2> QED BY <2>1, ItemFacts
<1>3. /\ r \in Seq(Option)
      /\ x.num \in Known => Recognized(Append(s, x)) = Append(r, x) /\ x \in Option
      /\ x.num \notin Known => Recognized(Append(s, x)) = r
  BY <1>2, RecognizedAppend
<1>4. next = [rc |-> "UNSET", pos |-> Len(Bytes(Append(s, x))) + 1, num |-> x.num,
              bundle |-> Recognized(Append(s, x))]
  BY <1>2, LastNumRules DEF After
<1>5. d = [rc |-> "UNSET", pos |-> p, num |-> LastNum(s), bundle |-> r]
  BY DEF After
<1>6. d.rc = "UNSET" /\ d.pos = p /\ d.num = LastNum(s) /\ d.bundle = r
  BY <1>5
<1> DEFINE num == d.num + At(bytes, d.pos) \div 16
           nib == At(bytes, d.pos) % 16
           len == IF nib = 15 THEN At(bytes, d.pos + 1) + 15 ELSE nib
           start == d.pos + (IF len > 15 THEN 2 ELSE 1)
           val == IF num \in EmptyNums THEN <<>>
                  ELSE [i \in 1 .. len |-> At(bytes, start + i - 1)]
           known == IF num \in Known THEN Push(d.bundle, num, <<val>>) ELSE d.bundle
<1>7. DecodeOption(bytes, d)
        = CASE d.rc # "UNSET" -> d
            [] d.rc = "UNSET" /\ Critical(num) -> [d EXCEPT !.rc = "BAD_OPTION"]
            [] OTHER -> [rc |-> "UNSET", pos |-> start + len, num |-> num,
                         bundle |-> known]
  BY DEF DecodeOption
<1> HIDE DEF bytes, p, r, d, next
<1>8. num = x.num
  BY <1>1, <1>6
<1>9. nib = nibble
  BY <1>1, <1>6
<1>10. len = l
  <2>1. CASE l > 14
    BY <1>1, <1>6, <1>9, <2>1
  <2>2. CASE ~(l > 14)
    <3>1. nibble = l /\ nibble # 15
      <4> HIDE DEF l
      <4> QED BY <1>2, <2>2
    <3> HIDE DEF nib, nibble, l
    <3> QED BY <1>9, <3>1
  <2> QED BY <2>1, <2>2
<1>11. start = p + n
  <2> HIDE DEF len, l, n
  <2>1. (IF len > 15 THEN 2 ELSE 1) = n
    BY <1>1, <1>10
  <2> QED BY <1>6, <2>1
<1> HIDE DEF num, nib, len, start, n, nibble
<1>12. val = x.val
  <2>1. CASE num \in EmptyNums
    BY <1>2, <1>8, <2>1
  <2>2. CASE num \notin EmptyNums
    <3>1. val = [i \in 1 .. l |-> At(bytes, p + n + i - 1)]
      BY <1>10, <1>11, <2>2
    <3>2. val = [i \in 1 .. l |-> x.val[i]]
      BY <1>1, <3>1
    <3>3. x.val = [i \in 1 .. Len(x.val) |-> x.val[i]]
      BY <1>2
    <3> QED BY <3>2, <3>3
  <2> QED BY <2>1, <2>2
<1>13. start + len = Len(Bytes(Append(s, x))) + 1
  BY <1>1, <1>10, <1>11
<1> HIDE DEF val, l
<1>14. known = Recognized(Append(s, x))
  <2>1. CASE x.num \in Known
    <3>1. known = Push(r, x.num, <<x.val>>)
      BY <1>6, <1>8, <1>12, <2>1
    <3>2. x = [num |-> x.num, val |-> x.val]
      BY <1>2 DEF Item
    <3>3. Push(r, x.num, <<x.val>>) = Append(r, [num |-> x.num, val |-> x.val])
      <4> DEFINE k == x.num
                 v == x.val
      <4>1. \A i \in 1 .. Len(r) : r[i].num <= k
        BY DEF r
      <4>2. k \in Known /\ v \in Seq(Nat)
        BY <1>2, <2>1
      <4> HIDE DEF k, v
      <4>3. Push(r, k, <<v>>) = Append(r, [num |-> k, val |-> v])
        BY <1>3, <4>1, <4>2, PushEnd
      <4> QED BY <4>3 DEF k, v
    <3>4. Recognized(Append(s, x)) = Append(r, x)
      BY <1>3, <2>1
    <3> HIDE DEF known
    <3> QED BY <3>1, <3>2, <3>3, <3>4
  <2>2. CASE x.num \notin Known
    BY <1>3, <1>6, <1>8, <2>2
  <2> QED BY <2>1, <2>2
<1> HIDE DEF known
<1>15. ASSUME Critical(x.num) PROVE DecodeOption(bytes, d).rc = "BAD_OPTION"
  <2>1. DecodeOption(bytes, d) = [d EXCEPT !.rc = "BAD_OPTION"]
    BY <1>6, <1>7, <1>8, <1>15
  <2>2. [d EXCEPT !.rc = "BAD_OPTION"].rc = "BAD_OPTION"
    BY <1>5
  <2> QED BY <2>1, <2>2
<1>16. ASSUME ~Critical(x.num) PROVE DecodeOption(bytes, d) = next
  <2>1. DecodeOption(bytes, d) = [rc |-> "UNSET", pos |-> start + len, num |-> num,
                                  bundle |-> known]
    BY <1>6, <1>7, <1>8, <1>16
  <2> QED BY <1>4, <1>8, <1>13, <1>14, <2>1
<1> QED BY <1>15, <1>16 DEF bytes, d, next

\* Joining bytes is associative.
LEMMA ByteAssociative ==
  \A p, q, r \in Seq(Nat) : (p \o q) \o r = p \o (q \o r)
<1> DEFINE S == Nat
<1> HIDE DEF S
<1>1. \A p, q, r \in Seq(S) : (p \o q) \o r = p \o (q \o r)
  BY Associative
<1> QED BY <1>1 DEF S

\* The bytes of a list start with those of its prefixes.
LEMMA BytesPrefix ==
  ASSUME NEW s \in Seq(Item), NEW t \in Seq(Item)
  PROVE  \E rest \in Seq(Nat) : Bytes(s \o t) = Bytes(s) \o rest
<1> DEFINE T == {u \in Seq(Item) : \E rest \in Seq(Nat) : Bytes(s \o u) = Bytes(s) \o rest}
<1>0. Bytes(s) \in Seq(Nat)
  BY ItemsType
<1>1. <<>> \in T
  <2>1. <<>> \in Seq(Item) /\ s \o <<>> = s /\ <<>> \in Seq(Nat)
    BY EmptySeq, ConcatEmptySeq
  <2>2. Bytes(s) \o <<>> = Bytes(s)
    BY <1>0, ConcatEmptySeq
  <2> QED BY <2>1, <2>2
<1>2. ASSUME NEW u \in Seq(Item), u \in T, NEW x \in Item
      PROVE  Append(u, x) \in T
  <2>1. PICK rest \in Seq(Nat) : Bytes(s \o u) = Bytes(s) \o rest
    BY <1>2
  <2>2. s \o u \in Seq(Item) /\ s \o Append(u, x) = Append(s \o u, x)
    BY ConcatProperties, ConcatAppend
  <2> DEFINE e == Enc(LastNum(s \o u), x)
  <2>3. Bytes(Append(s \o u, x)) = Bytes(s \o u) \o e
    BY <2>2, BytesAppend
  <2>4. e \in Seq(Nat)
    BY <2>2, LastNumType, EncType
  <2> HIDE DEF e
  <2>5. \A p, q, r \in Seq(Nat) : (p \o q) \o r = p \o (q \o r)
    BY ByteAssociative
  <2>8. \A p, q \in Seq(Nat) : p \o q \in Seq(Nat)
    BY ConcatProperties
  <2> DEFINE a == Bytes(s)
  <2>9. a \in Seq(Nat) /\ Bytes(s \o u) = a \o rest
    BY <1>0, <2>1
  <2> HIDE DEF a, T
  <2>6. Bytes(s \o Append(u, x)) = a \o (rest \o e) /\ rest \o e \in Seq(Nat)
    <3>1. (a \o rest) \o e = a \o (rest \o e)
      BY <2>4, <2>5, <2>9
    <3> QED BY <2>2, <2>3, <2>4, <2>8, <2>9, <3>1
  <2>7. Append(u, x) \in Seq(Item)
    BY AppendProperties
  <2> QED BY <2>6, <2>7 DEF a, T
<1>3. T = Seq(Item)
  <2>1. T \in SUBSET Seq(Item)
    OBVIOUS
  <2> HIDE DEF T
  <2> QED BY <1>1, <1>2, <2>1, SeqInduct
<1> QED BY <1>3

\* The states of the loop of ec_opts_decode.
Decoder == [rc : {"UNSET", "BAD_OPTION"}, pos : Nat \ {0}, num : Nat, bundle : Seq(Option)]

\* A round of ec_opts_decode ends in such a state.
LEMMA DecodeOptionType ==
  ASSUME NEW bytes \in Seq(Nat), NEW d \in Decoder
  PROVE  DecodeOption(bytes, d) \in Decoder
<1> DEFINE p == d.pos
           b == d.bundle
           n == d.num
           num == n + At(bytes, p) \div 16
           nib == At(bytes, p) % 16
           len == IF nib = 15 THEN At(bytes, p + 1) + 15 ELSE nib
           start == p + (IF len > 15 THEN 2 ELSE 1)
           val == IF num \in EmptyNums THEN <<>>
                  ELSE [i \in 1 .. len |-> At(bytes, start + i - 1)]
           known == IF num \in Known THEN Push(b, num, <<val>>) ELSE b
           bad == [d EXCEPT !.rc = "BAD_OPTION"]
           next == [rc |-> "UNSET", pos |-> start + len, num |-> num, bundle |-> known]
<1>1. p \in Nat \ {0} /\ n \in Nat /\ b \in Seq(Option)
  BY DEF Decoder
<1>2. bad \in Decoder
  BY DEF Decoder
<1>3. DecodeOption(bytes, d)
        = CASE d.rc # "UNSET" -> d
            [] d.rc = "UNSET" /\ Critical(num) -> bad
            [] OTHER -> next
  BY DEF DecodeOption
<1> HIDE DEF bad
<1>4. DecodeOption(bytes, d) \in {d, bad, next}
  <2> HIDE DEF next, num
  <2> QED BY <1>3, Zenon
<1> HIDE DEF p, n, b
<1>5. ASSUME NEW i \in Nat \ {0} PROVE At(bytes, i) \in Nat
  <2>1. i <= Len(bytes) => bytes[i] \in Nat
    OBVIOUS
  <2> QED BY <2>1, OptAssumption DEF At
<1>6. At(bytes, p) \in Nat /\ At(bytes, p + 1) \in Nat
  <2>1. p + 1 \in Nat \ {0}
    BY <1>1
  <2> QED BY <1>1, <1>5, <2>1
<1>7. num \in Nat /\ nib \in Nat
  <2> DEFINE a == At(bytes, p)
  <2>1. a \in Nat
    BY <1>6
  <2> HIDE DEF a
  <2>2. n + a \div 16 \in Nat /\ a % 16 \in Nat
    BY <1>1, <2>1
  <2> QED BY <2>2 DEF a
<1> HIDE DEF num, nib
<1>8. len \in Nat
  BY <1>6, <1>7
<1> HIDE DEF len
<1>9. start \in Nat \ {0} /\ start + len \in Nat \ {0}
  BY <1>1, <1>8
<1> HIDE DEF start
<1>10. val \in Seq(Nat)
  <2>1. ASSUME NEW i \in 1 .. len PROVE At(bytes, start + i - 1) \in Nat
    <3>1. start + i - 1 \in Nat \ {0}
      BY <1>8, <1>9
    <3> QED BY <1>5, <3>1
  <2> QED BY <1>8, <2>1
<1> HIDE DEF val
<1>11. known \in Seq(Option)
  <2>1. <<val>> \in Seq(Seq(Nat))
    BY <1>10
  <2> QED BY <1>1, <2>1, PushSorted
<1> HIDE DEF known
<1>12. next \in Decoder
  BY <1>7, <1>9, <1>11 DEF Decoder
<1> QED BY <1>2, <1>4, <1>12

\* ec_opts_decode, round by round.
LEMMA DecodeLoop ==
  ASSUME NEW w, w.bytes \in Seq(Nat), Oc(w) \in Nat
  PROVE  \E h : /\ h[0] = DecodeStart
                /\ \A i \in 1 .. Oc(w) : h[i] = DecodeOption(w.bytes, h[i - 1])
                /\ Decode(w) = h[Oc(w)]
<1> DEFINE N == Oc(w)
           bytes == w.bytes
           step == [i \in 1 .. N |-> [d \in Decoder |-> DecodeOption(bytes, d)]]
           Def(e) == [i \in 0 .. N |-> IF i = 0 THEN DecodeStart
                                       ELSE DecodeOption(bytes, e[i - 1])]
           h == CHOOSE e : e = Def(e)
<1>1. N \in Nat /\ bytes \in Seq(Nat)
  OBVIOUS
<1>2. Decode(w) = h[N]
  BY DEF Decode
<1> HIDE DEF N, bytes
<1>3. step \in Steps(Decoder, N)
  BY <1>1, DecodeOptionType DEF Steps
<1>4. DecodeStart \in Decoder
  <2>1. <<>> \in Seq(Option) /\ 1 \in Nat \ {0} /\ 0 \in Nat
    OBVIOUS
  <2> QED BY <2>1 DEF DecodeStart, Decoder
<1>5. PICK f : Rounds(f, Decoder, N, DecodeStart, step)
  <2> HIDE DEF step
  <2> QED BY <1>1, <1>3, <1>4, Recursion
<1>6. f \in [0 .. N -> Decoder] /\ f[0] = DecodeStart
  BY <1>5 DEF Rounds
<1>7. ASSUME NEW i \in 1 .. N PROVE f[i] = DecodeOption(bytes, f[i - 1])
  <2>1. f[i - 1] \in Decoder
    BY <1>1, <1>6
  <2>2. f[i] = step[i][f[i - 1]]
    BY <1>5 DEF Rounds
  <2> QED BY <2>1, <2>2
<1>8. f = Def(f)
  <2>1. ASSUME NEW i \in 0 .. N
        PROVE  f[i] = IF i = 0 THEN DecodeStart ELSE DecodeOption(bytes, f[i - 1])
    <3>1. CASE i = 0
      BY <1>6, <3>1
    <3>2. CASE i # 0
      <4>1. i \in 1 .. N
        BY <1>1, <3>2
      <4> QED BY <1>7, <3>2, <4>1
    <3> QED BY <3>1, <3>2
  <2> QED BY <1>6, <2>1
<1>9. h = Def(h)
  <2> HIDE DEF Def
  <2> QED BY <1>8
<1> HIDE DEF h
<1>10. h[0] = DecodeStart
  <2>1. 0 \in 0 .. N
    BY <1>1
  <2> QED BY <1>9, <2>1
<1>11. ASSUME NEW i \in 1 .. N PROVE h[i] = DecodeOption(bytes, h[i - 1])
  <2>1. i \in 0 .. N /\ i # 0
    BY <1>1
  <2> QED BY <1>9, <2>1
<1> QED BY <1>2, <1>10, <1>11 DEF N, bytes

\* No number of the list is above n.
Below(b, n) == \A i \in 1 .. Len(b) : b[i].num <= n

\* What ec_opts_decode makes of the items that were encoded.
LEMMA DecodeItems ==
  ASSUME NEW q \in Seq(Plain), Spaced(q), NEW h, h[0] = DecodeStart,
         \A i \in 1 .. Len(q) : h[i] = DecodeOption(Bytes(q), h[i - 1])
  PROVE  IF \E i \in 1 .. Len(q) : Critical(q[i].num)
         THEN h[Len(q)].rc = "BAD_OPTION"
         ELSE h[Len(q)] = After(q)
<1> DEFINE N == Len(q)
           p(k) == SubSeq(q, 1, k)
           P(k) == IF \E i \in 1 .. k : Critical(q[i].num)
                   THEN h[k].rc = "BAD_OPTION"
                   ELSE h[k] = After(p(k)) /\ Below(Recognized(p(k)), LastNum(p(k)))
           T == {k \in Nat : k <= N => P(k)}
<1>1. N \in Nat /\ q \in Seq(Item)
  BY LenProperties DEF Plain
<1>2. ASSUME NEW k \in 0 .. N PROVE p(k) \in Seq(Item) /\ Len(p(k)) = k
  BY <1>1, SplitAt
<1>3. 0 \in T
  <2>1. p(0) = <<>>
    <3>1. 0 \in 0 .. N
      BY <1>1
    <3> HIDE DEF p
    <3> QED BY <1>2, <3>1, EmptySeq
  <2>2. Recognized(<<>>) = <<>>
    <3>1. <<>> \in Seq(Item) /\ Recog \in [Item -> Seq(Option)]
      BY EmptySeq, RecogType
    <3> QED BY <3>1, RecognizedGather, GatherRules
  <2>3. After(<<>>) = DecodeStart
    BY <2>2, BytesEmpty DEF After, DecodeStart, LastNum
  <2>4. Below(<<>>, LastNum(<<>>))
    BY DEF Below
  <2>5. ~ \E i \in 1 .. 0 : Critical(q[i].num)
    OBVIOUS
  <2>6. P(0)
    <3> HIDE DEF p
    <3> QED BY <2>1, <2>2, <2>3, <2>4, <2>5
  <2> QED BY <2>6
<1>4. ASSUME NEW k \in T PROVE k + 1 \in T
  <2> SUFFICES ASSUME k + 1 <= N PROVE P(k + 1)
    BY <1>4
  <2> DEFINE i == k + 1
             s == p(k)
             x == q[i]
             d == DecodeOption(Bytes(q), h[k])
  <2>1. k \in Nat /\ i \in 1 .. N /\ k \in 0 .. N /\ i \in 0 .. N /\ i - 1 = k
    BY <1>1, <1>4
  <2>2. P(k)
    BY <1>4, <2>1
  <2> HIDE DEF P, T, i
  <2>3. x \in Plain /\ x \in Item
    BY <2>1, ElementOfSeq DEF Plain
  <2>4. p(i) = Append(s, x) /\ s \in Seq(Item)
    <3>1. p(i) = Append(SubSeq(q, 1, i - 1), q[i])
      BY <1>1, <2>1, PrefixNext
    <3>2. s \in Seq(Item)
      BY <1>2, <2>1
    <3> QED BY <2>1, <3>1, <3>2
  <2>5. x.num - LastNum(s) \in 0 .. 14
    <3>1. x.num - PrevNum(q, i) \in 0 .. 14
      BY <2>1 DEF Spaced
    <3>2. LastNum(SubSeq(q, 1, i - 1)) = PrevNum(q, i)
      BY <1>1, <2>1, LastOfPrefix
    <3> QED BY <2>1, <3>1, <3>2
  <2>6. PICK rest \in Seq(Nat) : Bytes(q) = Bytes(Append(s, x)) \o rest
    <3>1. q = SubSeq(q, 1, i) \o SubSeq(q, i + 1, N)
          /\ SubSeq(q, 1, i) \in Seq(Item) /\ SubSeq(q, i + 1, N) \in Seq(Item)
      BY <1>1, <2>1, SplitAt
    <3> DEFINE u == SubSeq(q, i + 1, N)
    <3>2. p(i) \in Seq(Item) /\ u \in Seq(Item) /\ q = p(i) \o u
      BY <3>1
    <3> HIDE DEF p, u
    <3>3. \E rest \in Seq(Nat) : Bytes(p(i) \o u) = Bytes(p(i)) \o rest
      BY <3>2, BytesPrefix
    <3> QED BY <2>4, <3>2, <3>3
  <2>7. h[i] = d
    BY <2>1
  <2>8. /\ LastNum(s) \in Nat /\ x.num \in Nat /\ LastNum(s) <= x.num
        /\ LastNum(Append(s, x)) = x.num
    <3>1. LastNum(s) \in Nat /\ x.num \in Nat /\ LastNum(Append(s, x)) = x.num
      BY <2>3, <2>4, LastNumType, ItemFacts, LastNumRules
    <3> QED BY <2>5, <3>1
  <2>9. \A j \in 1 .. i : j \in 1 .. k \/ j = i
    BY <2>1
  <2>10. \A j \in 1 .. k : j \in 1 .. i
    BY <2>1
  <2>11. i \in 1 .. i
    BY <2>1
  <2> DEFINE r == Recognized(s)
             t == Append(s, x)
  <2>12. CASE \E j \in 1 .. k : Critical(q[j].num)
    <3>1. h[k].rc = "BAD_OPTION"
      BY <2>2, <2>12 DEF P
    <3>2. d = h[k]
      <4>1. h[k].rc # "UNSET"
        BY <3>1
      <4> QED BY <4>1, Zenon DEF DecodeOption
    <3>3. \E j \in 1 .. i : Critical(q[j].num)
      BY <2>10, <2>12
    <3>4. h[i].rc = "BAD_OPTION"
      BY <2>7, <3>1, <3>2
    <3>5. P(i)
      BY <3>3, <3>4 DEF P
    <3> QED BY <3>5 DEF i
  <2>13. CASE ~ \E j \in 1 .. k : Critical(q[j].num)
    <3>1. h[k] = After(s) /\ Below(r, LastNum(s))
      BY <2>2, <2>13 DEF P
    <3> HIDE DEF s, x, p
    <3>2. /\ r \in Seq(Option)
          /\ x.num \in Known => Recognized(t) = Append(r, x) /\ x \in Option
          /\ x.num \notin Known => Recognized(t) = r
      BY <2>3, <2>4, RecognizedAppend
    <3>3. Below(r, x.num)
      <4>1. ASSUME NEW j \in 1 .. Len(r) PROVE r[j].num <= x.num
        <5>1. r[j].num <= LastNum(s)
          BY <3>1 DEF Below
        <5>2. r[j].num \in Nat
          <6>1. r[j] \in Item
            BY <3>2, ElementOfSeq, OptionIsItem
          <6> QED BY <6>1, ItemFacts
        <5>3. \A a, b, c \in Nat : a <= b /\ b <= c => a <= c
          OBVIOUS
        <5> QED BY <2>8, <5>1, <5>2, <5>3
      <4> QED BY <4>1 DEF Below
    <3>4. /\ Critical(x.num) => d.rc = "BAD_OPTION"
          /\ ~Critical(x.num) => d = After(t)
      <4>1. \A j \in 1 .. Len(r) : r[j].num <= x.num
        BY <3>3 DEF Below
      <4>2. LET e == DecodeOption(Bytes(Append(s, x)) \o rest, After(s))
            IN /\ Critical(x.num) => e.rc = "BAD_OPTION"
               /\ ~Critical(x.num) => e = After(Append(s, x))
        BY <2>3, <2>4, <2>5, <4>1, DecodeNext
      <4> QED BY <2>6, <3>1, <4>2
    <3>5. Below(Recognized(t), LastNum(t))
      <4>1. CASE x.num \in Known
        <5>1. /\ Len(Append(r, x)) = Len(r) + 1 /\ Append(r, x)[Len(r) + 1] = x
              /\ \A j \in 1 .. Len(r) : Append(r, x)[j] = r[j]
          BY <3>2, <4>1, AppendProperties
        <5>2. Len(r) \in Nat
          BY <3>2, LenProperties
        <5> HIDE DEF r
        <5>3. ASSUME NEW j \in 1 .. Len(Append(r, x))
              PROVE  Append(r, x)[j].num <= x.num
          <6>1. j \in 1 .. Len(r) \/ j = Len(r) + 1
            BY <5>1, <5>2
          <6>2. CASE j \in 1 .. Len(r)
            BY <3>3, <5>1, <6>2 DEF Below
          <6>3. CASE j = Len(r) + 1
            <7>1. x.num <= x.num
              BY <2>8
            <7> QED BY <5>1, <6>3, <7>1
          <6> QED BY <6>1, <6>2, <6>3
        <5> QED BY <2>8, <3>2, <4>1, <5>3 DEF Below
      <4>2. CASE x.num \notin Known
        BY <2>8, <3>2, <3>3, <4>2
      <4> QED BY <4>1, <4>2
    <3>6. P(i)
      <4>1. CASE Critical(x.num)
        <5>1. \E j \in 1 .. i : Critical(q[j].num)
          BY <2>11, <4>1 DEF x
        <5>2. h[i].rc = "BAD_OPTION"
          BY <2>7, <3>4, <4>1
        <5> QED BY <5>1, <5>2 DEF P
      <4>2. CASE ~Critical(x.num)
        <5>1. ~ \E j \in 1 .. i : Critical(q[j].num)
          BY <2>9, <2>13, <4>2 DEF x
        <5>2. h[i] = After(p(i)) /\ Below(Recognized(p(i)), LastNum(p(i)))
          BY <2>4, <2>7, <3>4, <3>5, <4>2
        <5> QED BY <5>1, <5>2 DEF P
      <4> QED BY <4>1, <4>2
    <3> QED BY <3>6 DEF i
  <2> QED BY <2>12, <2>13
<1>5. T = Nat
  <2>1. T \in SUBSET Nat
    OBVIOUS
  <2> HIDE DEF T
  <2> QED BY <1>3, <1>4, <2>1, NatInduct
<1>6. P(N)
  <2>1. N \in T
    <3> HIDE DEF T
    <3> QED BY <1>1, <1>5
  <2> HIDE DEF P
  <2> QED BY <1>1, <2>1
<1>7. p(N) = q
  BY <1>1, SubSeqFull
<1> HIDE DEF p
<1> QED BY <1>6, <1>7

\* What was encoded is decoded.
LEMMA DecodesEncoded ==
  ASSUME NEW w, w.sent \in Seq(Plain), Ordered(w.sent),
         w.bytes = EncodeAll(w.sent), w.count = Len(Items(w.sent)),
         w.count <= MaxOptions
  PROVE  Decodes(w)
<1> DEFINE b == w.sent
           q == Items(b)
           N == Len(q)
<1>1. b \in Seq(Plain) /\ Ordered(b) /\ w.bytes = Bytes(q) /\ w.count = N
  BY DEF EncodeAll
<1> HIDE DEF b
<1>2. b \in Seq(Item) /\ Plain \subseteq Item
  BY <1>1 DEF Plain
<1>3. Post \subseteq Plain
  <2>1. ASSUME NEW x \in Post PROVE x \in Plain
    <3>1. x \in Item /\ x.val = <<>>
      BY PostFacts
    <3>2. Len(<<>>) # 15
      OBVIOUS
    <3> QED BY <3>1, <3>2 DEF Plain
  <2> QED BY <2>1
<1>4. q \in Seq(Plain)
  BY <1>1, <1>2, <1>3, ItemsIn
<1>5. Spaced(q) /\ LastNum(q) = LastNum(b) /\ q \in Seq(Item) /\ Bytes(q) \in Seq(Nat)
  BY <1>1, <1>2, ItemsSpaced, ItemsType
<1>6. /\ Recognized(q) = Recognized(b)
      /\ (\E i \in 1 .. N : Critical(q[i].num)) <=> (\E i \in 1 .. Len(b) : Critical(b[i].num))
  BY <1>2, ItemsRecognized
<1> HIDE DEF q
<1>7. N \in Nat /\ Oc(w) = N
  <2>1. N \in Nat
    BY <1>4, LenProperties
  <2>2. N <= MaxOptions /\ MaxOptions \in Nat
    BY <1>1, OptAssumption
  <2>3. \A m, n \in Nat : m <= n => m % (n + 1) = m
    OBVIOUS
  <2>4. N % (MaxOptions + 1) = N
    BY <2>1, <2>2, <2>3
  <2> QED BY <1>1, <2>1, <2>4 DEF Oc
<1> HIDE DEF N
<1>8. PICK h : /\ h[0] = DecodeStart
               /\ \A i \in 1 .. Oc(w) : h[i] = DecodeOption(w.bytes, h[i - 1])
               /\ Decode(w) = h[Oc(w)]
  BY <1>1, <1>5, <1>7, DecodeLoop
<1>9. IF \E i \in 1 .. N : Critical(q[i].num)
      THEN h[N].rc = "BAD_OPTION" ELSE h[N] = After(q)
  <2>1. \A i \in 1 .. Len(q) : h[i] = DecodeOption(Bytes(q), h[i - 1])
    BY <1>1, <1>7, <1>8 DEF N
  <2>2. IF \E i \in 1 .. Len(q) : Critical(q[i].num)
        THEN h[Len(q)].rc = "BAD_OPTION" ELSE h[Len(q)] = After(q)
    BY <1>4, <1>5, <1>8, <2>1, DecodeItems
  <2> QED BY <2>2 DEF N
<1>10. Decode(w) = h[N] /\ DOMAIN b = 1 .. Len(b)
  BY <1>2, <1>7, <1>8, LenProperties
<1>11. CASE \E i \in DOMAIN b : Critical(b[i].num)
  <2>1. Decode(w).rc = "BAD_OPTION"
    BY <1>6, <1>9, <1>10, <1>11
  <2> QED BY <1>11, <2>1 DEF Decodes, b
<1>12. CASE ~ \E i \in DOMAIN b : Critical(b[i].num)
  <2>1. Decode(w) = After(q)
    BY <1>6, <1>9, <1>10, <1>12
  <2>2. /\ After(q).rc = "UNSET" /\ After(q).bundle = Recognized(b)
        /\ After(q).pos = Len(Bytes(q)) + 1
    BY <1>6 DEF After
  <2>3. Olen(Decode(w)) = Len(w.bytes)
    <3>1. Len(Bytes(q)) \in Nat
      BY <1>5, LenProperties
    <3> QED BY <1>1, <2>1, <2>2, <3>1 DEF Olen
  <2> QED BY <1>12, <2>1, <2>2, <2>3 DEF Decodes, b
<1> QED BY <1>11, <1>12

-----------------------------------------------------------------------------
\* The options that a call pushes.
News(n, vals) == [i \in 1 .. Len(vals) |-> [num |-> n, val |-> vals[i]]]

\* The options that a push adds.
LEMMA NewsType ==
  ASSUME NEW n \in Known, NEW vals \in Seq(Seq(Nat))
  PROVE  /\ News(n, vals) \in Seq(Option) /\ Len(News(n, vals)) = Len(vals)
         /\ \A i \in 1 .. Len(vals) : News(n, vals)[i] = [num |-> n, val |-> vals[i]]
<1>1. Len(vals) \in Nat /\ \A i \in 1 .. Len(vals) : vals[i] \in Seq(Nat)
  BY LenProperties, ElementOfSeq
<1>2. \A i \in 1 .. Len(vals) : [num |-> n, val |-> vals[i]] \in Option
  BY <1>1 DEF Option
<1> QED BY <1>1, <1>2 DEF News

\* ec_opts_push puts them between those that are not higher and the rest.
LEMMA PushSplit ==
  ASSUME NEW b \in Seq(Option), NEW n \in Known, NEW vals \in Seq(Seq(Nat))
  PROVE  LET p == Position(b, n)
         IN /\ p \in 0 .. Len(b)
            /\ Push(b, n, vals) = (SubSeq(b, 1, p) \o News(n, vals))
                                  \o SubSeq(b, p + 1, Len(b))
            /\ SubSeq(b, 1, p) \in Seq(Option)
            /\ SubSeq(b, p + 1, Len(b)) \in Seq(Option)
            /\ b = SubSeq(b, 1, p) \o SubSeq(b, p + 1, Len(b))
            /\ Len(Push(b, n, vals)) = Len(b) + Len(vals)
<1> DEFINE p == Position(b, n)
           N == Len(b)
           l == Len(vals)
           lo == SubSeq(b, 1, p)
           hi == SubSeq(b, p + 1, N)
           new == News(n, vals)
<1>1. p \in 0 .. N /\ N \in Nat /\ l \in Nat
  BY PositionLast, LenProperties
<1>2. /\ lo \in Seq(Option) /\ Len(lo) = p /\ hi \in Seq(Option) /\ b = lo \o hi
  BY <1>1, SplitAt
<1>3. /\ new \in Seq(Option) /\ Len(new) = l
      /\ \A i \in 1 .. l : new[i] = [num |-> n, val |-> vals[i]]
  BY NewsType
<1>4. Push(b, n, vals) = [i \in 1 .. N + l |->
        IF i <= p THEN b[i]
        ELSE IF i <= p + l THEN [num |-> n, val |-> vals[i - p]] ELSE b[i - l]]
  BY DEF Push
<1> HIDE DEF p, N, l, lo, hi, new
<1>5. N = p + Len(hi) /\ Len(hi) \in Nat
  <2>1. Len(lo \o hi) = Len(lo) + Len(hi) /\ Len(hi) \in Nat
    BY <1>2, ConcatProperties, LenProperties
  <2> QED BY <1>1, <1>2, <2>1 DEF N
<1>6. /\ \A i \in 1 .. p : b[i] = lo[i]
      /\ \A i \in 1 .. Len(hi) : b[i + p] = hi[i]
  <2>1. ASSUME NEW i \in 1 .. p PROVE b[i] = lo[i]
    <3>1. i \in 1 .. Len(lo) + Len(hi) /\ i <= Len(lo)
      BY <1>1, <1>2, <1>5
    <3> QED BY <1>2, <3>1, ConcatProperties
  <2>2. ASSUME NEW i \in 1 .. Len(hi) PROVE b[i + p] = hi[i]
    <3> DEFINE k == i + p
    <3>1. k \in 1 .. Len(lo) + Len(hi) /\ ~(k <= Len(lo)) /\ k - Len(lo) = i
      BY <1>1, <1>2, <1>5
    <3> HIDE DEF k
    <3>2. (lo \o hi)[k] = hi[i]
      BY <1>2, <3>1, ConcatProperties
    <3> QED BY <1>2, <3>2 DEF k
  <2> QED BY <2>1, <2>2
<1> DEFINE c == lo \o new
           t == c \o hi
<1>7. c \in Seq(Option) /\ Len(c) = p + l
  <2>1. \A s1, s2 \in Seq(Option) : s1 \o s2 \in Seq(Option) /\ Len(s1 \o s2) = Len(s1) + Len(s2)
    BY ConcatProperties
  <2> QED BY <1>2, <1>3, <2>1
<1>8. /\ \A i \in 1 .. p : c[i] = lo[i]
      /\ \A i \in 1 .. l : c[i + p] = new[i]
  <2>1. ASSUME NEW i \in 1 .. p PROVE c[i] = lo[i]
    <3>1. i \in 1 .. Len(lo) + Len(new) /\ i <= Len(lo)
      BY <1>1, <1>2, <1>3
    <3> QED BY <1>2, <1>3, <3>1, ConcatProperties
  <2>2. ASSUME NEW i \in 1 .. l PROVE c[i + p] = new[i]
    <3> DEFINE k == i + p
    <3>1. k \in 1 .. Len(lo) + Len(new) /\ ~(k <= Len(lo)) /\ k - Len(lo) = i
      BY <1>1, <1>2, <1>3
    <3> HIDE DEF k
    <3>2. (lo \o new)[k] = new[i]
      BY <1>2, <1>3, <3>1, ConcatProperties
    <3> QED BY <3>2 DEF k
  <2> QED BY <2>1, <2>2
<1> HIDE DEF c
<1>9. t \in Seq(Option) /\ Len(t) = N + l
  <2>1. \A s1, s2 \in Seq(Option) : s1 \o s2 \in Seq(Option) /\ Len(s1 \o s2) = Len(s1) + Len(s2)
    BY ConcatProperties
  <2>2. Len(t) = p + l + Len(hi) /\ t \in Seq(Option)
    BY <1>2, <1>7, <2>1
  <2> QED BY <1>1, <1>5, <2>2
<1>10. /\ \A i \in 1 .. p + l : t[i] = c[i]
       /\ \A i \in 1 .. Len(hi) : t[i + (p + l)] = hi[i]
  <2>1. ASSUME NEW i \in 1 .. p + l PROVE t[i] = c[i]
    <3>1. i \in 1 .. Len(c) + Len(hi) /\ i <= Len(c)
      BY <1>1, <1>5, <1>7
    <3> QED BY <1>2, <1>7, <3>1, ConcatProperties
  <2>2. ASSUME NEW i \in 1 .. Len(hi) PROVE t[i + (p + l)] = hi[i]
    <3> DEFINE k == i + (p + l)
    <3>1. k \in 1 .. Len(c) + Len(hi) /\ ~(k <= Len(c)) /\ k - Len(c) = i
      BY <1>1, <1>5, <1>7
    <3> HIDE DEF k
    <3>2. (c \o hi)[k] = hi[i]
      BY <1>2, <1>7, <3>1, ConcatProperties
    <3> QED BY <3>2 DEF k
  <2> QED BY <2>1, <2>2
<1> HIDE DEF t
<1> DEFINE f(i) == IF i <= p THEN b[i]
                   ELSE IF i <= p + l THEN [num |-> n, val |-> vals[i - p]]
                   ELSE b[i - l]
<1>11. ASSUME NEW i \in 1 .. N + l PROVE t[i] = f(i)
  <2>1. CASE i <= p
    <3>1. i \in 1 .. p /\ i \in 1 .. p + l
      BY <1>1, <2>1
    <3> QED BY <1>6, <1>8, <1>10, <2>1, <3>1
  <2>2. CASE i > p /\ i <= p + l
    <3> DEFINE j == i - p
    <3>1. j \in 1 .. l /\ i \in 1 .. p + l /\ j + p = i /\ ~(i <= p)
      BY <1>1, <2>2
    <3> HIDE DEF j
    <3>2. t[i] = new[j]
      BY <1>8, <1>10, <3>1
    <3>3. f(i) = [num |-> n, val |-> vals[j]]
      BY <2>2, <3>1 DEF j
    <3> QED BY <1>3, <3>1, <3>2, <3>3
  <2>3. CASE i > p + l
    <3> DEFINE j == i - (p + l)
    <3>1. /\ j \in 1 .. Len(hi) /\ j + (p + l) = i /\ j + p = i - l
          /\ ~(i <= p) /\ ~(i <= p + l)
      BY <1>1, <1>5, <2>3
    <3> HIDE DEF j
    <3>2. t[i] = hi[j] /\ b[j + p] = hi[j]
      BY <1>6, <1>10, <3>1
    <3> QED BY <3>1, <3>2
  <2>4. i <= p \/ (i > p /\ i <= p + l) \/ i > p + l
    BY <1>1
  <2> HIDE DEF f
  <2> QED BY <2>1, <2>2, <2>3, <2>4
<1>12. Push(b, n, vals) = t
  <2>1. DOMAIN t = 1 .. N + l /\ t = [i \in DOMAIN t |-> t[i]]
    BY <1>9, LenProperties
  <2>2. Push(b, n, vals) = [i \in 1 .. N + l |-> f(i)]
    BY <1>4
  <2> HIDE DEF f
  <2> QED BY <1>11, <2>1, <2>2
<1> QED BY <1>1, <1>2, <1>9, <1>12 DEF p, N, l, lo, hi, new, c, t

-----------------------------------------------------------------------------
(***************************************************************************)
(* Integers, fragments and slots.                                          *)
(***************************************************************************)

-----------------------------------------------------------------------------
\* The number of bytes of an integer.
LEMMA UintLenIs ==
  ASSUME NEW v \in Nat
  PROVE  UintLen(v) = IF v < 1 THEN 0 ELSE IF v < 256 THEN 1
                      ELSE IF v < 65536 THEN 2 ELSE IF v < 16777216 THEN 3 ELSE 4
<1> DEFINE K == {k \in 1 .. 4 : v >= Pow256[k]}
<1>1. Pow256[1] = 1 /\ Pow256[2] = 256 /\ Pow256[3] = 65536 /\ Pow256[4] = 16777216
  BY DEF Pow256
<1>2. UintLen(v) = Cardinality(K)
  BY DEF UintLen
<1>3. ASSUME NEW j \in 0 .. 4, K = 1 .. j PROVE UintLen(v) = j
  <2>1. 1 \in Int /\ j \in Int
    OBVIOUS
  <2>2. Cardinality(1 .. j) = IF 1 > j THEN 0 ELSE j - 1 + 1
    BY <2>1, FS_Interval, Zenon
  <2> HIDE DEF K
  <2>3. UintLen(v) = IF 1 > j THEN 0 ELSE j - 1 + 1
    BY <1>2, <1>3, <2>2
  <2> QED BY <2>3
<1>4. \A k \in 1 .. 4 : k \in K <=> v >= Pow256[k]
  OBVIOUS
<1>5. K \subseteq 1 .. 4
  OBVIOUS
<1> HIDE DEF K
<1>6. \A k \in K : k = 1 \/ k = 2 \/ k = 3 \/ k = 4
  BY <1>5
<1>7. (1 \in K <=> v >= 1) /\ (2 \in K <=> v >= 256) /\ (3 \in K <=> v >= 65536)
      /\ (4 \in K <=> v >= 16777216)
  BY <1>1, <1>4
<1>8. CASE v < 1
  <2>1. K = 1 .. 0
    BY <1>6, <1>7, <1>8
  <2> QED BY <1>3, <1>8, <2>1
<1>9. CASE v >= 1 /\ v < 256
  <2>1. K = 1 .. 1
    BY <1>6, <1>7, <1>9
  <2> QED BY <1>3, <1>9, <2>1
<1>10. CASE v >= 256 /\ v < 65536
  <2>1. K = 1 .. 2
    BY <1>6, <1>7, <1>10
  <2> QED BY <1>3, <1>10, <2>1
<1>11. CASE v >= 65536 /\ v < 16777216
  <2>1. K = 1 .. 3
    BY <1>6, <1>7, <1>11
  <2> QED BY <1>3, <1>11, <2>1
<1>12. CASE v >= 16777216
  <2>1. K = 1 .. 4
    BY <1>6, <1>7, <1>12
  <2> QED BY <1>3, <1>12, <2>1
<1> QED BY <1>8, <1>9, <1>10, <1>11, <1>12

\* ec_opt_decode_uint, byte by byte.
LEMMA DecodeUintLoop ==
  ASSUME NEW s \in Seq(Nat)
  PROVE  \E h : /\ h[0] = 0 /\ DecodeUint(s) = h[Len(s)]
                /\ \A i \in 1 .. Len(s) : h[i] = h[i - 1] * 256 + s[i]
<1> DEFINE N == Len(s)
           step == [i \in 1 .. N |-> [a \in Nat |-> a * 256 + s[i]]]
           Def(e) == [i \in 0 .. N |-> IF i = 0 THEN 0 ELSE e[i - 1] * 256 + s[i]]
           h == CHOOSE e : e = Def(e)
<1>1. N \in Nat /\ \A i \in 1 .. N : s[i] \in Nat
  BY LenProperties, ElementOfSeq
<1>2. DecodeUint(s) = h[N]
  BY DEF DecodeUint
<1> HIDE DEF N
<1>3. step \in Steps(Nat, N)
  <2>1. ASSUME NEW i \in 1 .. N PROVE [a \in Nat |-> a * 256 + s[i]] \in [Nat -> Nat]
    BY <1>1
  <2> QED BY <2>1 DEF Steps
<1>4. PICK f : Rounds(f, Nat, N, 0, step)
  <2> HIDE DEF step
  <2> QED BY <1>1, <1>3, Recursion
<1>5. f \in [0 .. N -> Nat] /\ f[0] = 0
  BY <1>4 DEF Rounds
<1>6. ASSUME NEW i \in 1 .. N PROVE f[i] = f[i - 1] * 256 + s[i]
  <2>1. f[i - 1] \in Nat
    BY <1>1, <1>5
  <2>2. f[i] = step[i][f[i - 1]]
    BY <1>4 DEF Rounds
  <2> QED BY <2>1, <2>2
<1>7. f = Def(f)
  <2>1. ASSUME NEW i \in 0 .. N
        PROVE  f[i] = IF i = 0 THEN 0 ELSE f[i - 1] * 256 + s[i]
    <3>1. CASE i = 0
      BY <1>5, <3>1
    <3>2. CASE i # 0
      <4>1. i \in 1 .. N
        BY <1>1, <3>2
      <4> QED BY <1>6, <3>2, <4>1
    <3> QED BY <3>1, <3>2
  <2> QED BY <1>5, <2>1
<1>8. h = Def(h)
  <2> HIDE DEF Def
  <2> QED BY <1>7
<1> HIDE DEF h
<1>9. h[0] = 0
  <2>1. 0 \in 0 .. N
    BY <1>1
  <2> QED BY <1>8, <2>1
<1>10. ASSUME NEW i \in 1 .. N PROVE h[i] = h[i - 1] * 256 + s[i]
  <2>1. i \in 0 .. N /\ i # 0
    BY <1>1
  <2> QED BY <1>8, <2>1
<1> QED BY <1>2, <1>9, <1>10 DEF N

\* An integer of 32 bits is read as it was written.
LEMMA UintRoundTrip ==
  ASSUME NEW v \in Nat, v \div 65536 < 65536
  PROVE  /\ DecodeUint(EncodeUint(v)) = v
         /\ Len(EncodeUint(v)) = UintLen(v) /\ UintLen(v) \in 0 .. 4
<1> DEFINE l == UintLen(v)
           s == EncodeUint(v)
<1>1. l \in 0 .. 4
  BY UintLenIs
<1>2. s \in Seq(Nat)
  BY EncodeUintType
<1>3. s = [i \in 1 .. l |-> (v \div Pow256[l - i + 1]) % 256]
  BY DEF EncodeUint
<1> HIDE DEF l
<1>4. Len(s) = l
  <2>1. DOMAIN s = 1 .. l
    BY <1>3
  <2> HIDE DEF s
  <2> QED BY <1>1, <1>2, <2>1, LenProperties
<1>5. \A i \in 1 .. l : s[i] = (v \div Pow256[l - i + 1]) % 256
  BY <1>3
<1> HIDE DEF s
<1>6. PICK h : /\ h[0] = 0 /\ DecodeUint(s) = h[l]
               /\ \A i \in 1 .. l : h[i] = h[i - 1] * 256 + s[i]
  BY <1>2, <1>4, DecodeUintLoop
<1>7. Pow256[1] = 1 /\ Pow256[2] = 256 /\ Pow256[3] = 65536 /\ Pow256[4] = 16777216
  BY DEF Pow256
<1>8. DecodeUint(s) = v
  <2>1. CASE l = 0
    <3>1. v = 0
      BY <2>1, UintLenIs DEF l
    <3> QED BY <1>6, <2>1, <3>1
  <2>2. CASE l = 1
    <3>1. v < 256
      BY <2>2, UintLenIs DEF l
    <3>2. 1 \in 1 .. l /\ 1 - 1 = 0 /\ l - 1 + 1 = 1
      BY <2>2
    <3>3. s[1] = (v \div 1) % 256
      BY <1>5, <1>7, <3>2
    <3>4. h[1] = 0 * 256 + s[1]
      BY <1>6, <3>2
    <3> QED BY <1>6, <2>2, <3>1, <3>3, <3>4
  <2>3. CASE l = 2
    <3>1. v < 65536
      BY <2>3, UintLenIs DEF l
    <3>2. /\ 1 \in 1 .. l /\ 1 - 1 = 0 /\ l - 1 + 1 = 2
          /\ 2 \in 1 .. l /\ 2 - 1 = 1 /\ l - 2 + 1 = 1
      BY <2>3
    <3>3. s[1] = (v \div 256) % 256 /\ s[2] = (v \div 1) % 256
      BY <1>5, <1>7, <3>2
    <3>4. h[1] = 0 * 256 + s[1] /\ h[2] = h[1] * 256 + s[2]
      BY <1>6, <3>2
    <3> QED BY <1>6, <2>3, <3>1, <3>3, <3>4
  <2>4. CASE l = 3
    <3>1. v < 16777216
      BY <2>4, UintLenIs DEF l
    <3>2. /\ 1 \in 1 .. l /\ 1 - 1 = 0 /\ l - 1 + 1 = 3
          /\ 2 \in 1 .. l /\ 2 - 1 = 1 /\ l - 2 + 1 = 2
          /\ 3 \in 1 .. l /\ 3 - 1 = 2 /\ l - 3 + 1 = 1
      BY <2>4
    <3>3. /\ s[1] = (v \div 65536) % 256 /\ s[2] = (v \div 256) % 256
          /\ s[3] = (v \div 1) % 256
      BY <1>5, <1>7, <3>2
    <3>4. /\ h[1] = 0 * 256 + s[1] /\ h[2] = h[1] * 256 + s[2]
          /\ h[3] = h[2] * 256 + s[3]
      BY <1>6, <3>2
    <3> QED BY <1>6, <2>4, <3>1, <3>3, <3>4
  <2>5. CASE l = 4
    <3>2. /\ 1 \in 1 .. l /\ 1 - 1 = 0 /\ l - 1 + 1 = 4
          /\ 2 \in 1 .. l /\ 2 - 1 = 1 /\ l - 2 + 1 = 3
          /\ 3 \in 1 .. l /\ 3 - 1 = 2 /\ l - 3 + 1 = 2
          /\ 4 \in 1 .. l /\ 4 - 1 = 3 /\ l - 4 + 1 = 1
      BY <2>5
    <3>3. /\ s[1] = (v \div 16777216) % 256 /\ s[2] = (v \div 65536) % 256
          /\ s[3] = (v \div 256) % 256 /\ s[4] = (v \div 1) % 256
      BY <1>5, <1>7, <3>2
    <3>4. /\ h[1] = 0 * 256 + s[1] /\ h[2] = h[1] * 256 + s[2]
          /\ h[3] = h[2] * 256 + s[3] /\ h[4] = h[3] * 256 + s[4]
      BY <1>6, <3>2
    <3>5. /\ h[2] = v \div 65536
      BY <3>3, <3>4
    <3>6. h[3] = v \div 256
      BY <3>3, <3>4, <3>5
    <3>7. h[4] = v
      BY <3>3, <3>4, <3>6
    <3> QED BY <1>6, <2>5, <3>7
  <2>6. l = 0 \/ l = 1 \/ l = 2 \/ l = 3 \/ l = 4
    BY <1>1
  <2> QED BY <2>1, <2>2, <2>3, <2>4, <2>5, <2>6
<1> QED BY <1>1, <1>4, <1>8 DEF l, s

\* A value that fits into one slot gets one.
LEMMA OneFragment ==
  ASSUME NEW v \in Seq(Nat), Len(v) <= OptLenMax
  PROVE  Fragments(v) = <<v>>
<1> DEFINE M == OptLenMax
           L == Len(v)
           n == IF v = <<>> THEN 1 ELSE (L + M - 1) \div M
           F(i) == SubSeq(v, (i - 1) * M + 1, IF i * M < L THEN i * M ELSE L)
<1>1. M \in Nat /\ M >= 1 /\ L \in Nat /\ L <= M
  BY OptAssumption, LenProperties
<1>2. Fragments(v) = [i \in 1 .. n |-> F(i)]
  BY DEF Fragments
<1>3. n = 1
  <2>1. CASE v = <<>>
    BY <2>1
  <2>2. CASE v # <<>>
    <3>1. L \in 1 .. M
      BY <1>1, <2>2, EmptySeq
    <3>2. \A a, m \in Nat : m >= 1 /\ a >= m /\ a < m + m => a \div m = 1
      OBVIOUS
    <3>3. L + M - 1 \in Nat /\ L + M - 1 >= M /\ L + M - 1 < M + M
      BY <1>1, <3>1
    <3> HIDE DEF M, L
    <3> QED BY <1>1, <2>2, <3>2, <3>3
  <2> QED BY <2>1, <2>2
<1>4. F(1) = v
  <2>1. (1 - 1) * M + 1 = 1 /\ 1 * M = M /\ ~(M < L)
    BY <1>1
  <2>2. F(1) = SubSeq(v, 1, L)
    BY <2>1
  <2> QED BY <2>2, SubSeqFull
<1> HIDE DEF n, F
<1>5. Fragments(v) = [i \in 1 .. 1 |-> v]
  <2>1. \A i \in 1 .. 1 : F(i) = v
    BY <1>4
  <2> QED BY <1>2, <1>3, <2>1
<1> QED BY <1>5

\* FlattenLoop, for sequences of bytes.
LEMMA FlattenValues ==
  ASSUME NEW S, S = Nat, NEW s \in Seq(Seq(S))
  PROVE  \E f \in [0 .. Len(s) -> Seq(S)] :
           /\ f[0] = <<>> /\ FlattenSeq(s) = f[Len(s)]
           /\ \A i \in 1 .. Len(s) : f[i] = f[i - 1] \o s[i]
BY FlattenLoop

\* ... by its rounds.
LEMMA FlattenBytes ==
  ASSUME NEW s \in Seq(Seq(Nat))
  PROVE  \E f \in [0 .. Len(s) -> Seq(Nat)] :
           /\ f[0] = <<>> /\ FlattenSeq(s) = f[Len(s)]
           /\ \A i \in 1 .. Len(s) : f[i] = f[i - 1] \o s[i]
BY FlattenValues

\* Multiplication keeps the order.
LEMMA TimesOrder ==
  ASSUME NEW a \in Nat, NEW b \in Nat, NEW m \in Nat, a <= b
  PROVE  a * m <= b * m /\ a * m \in Nat
<1>1. b * m = a * m + (b - a) * m
  OBVIOUS
<1>2. (b - a) * m >= 0
  OBVIOUS
<1>3. a * m \in Nat
  OBVIOUS
<1> QED BY <1>1, <1>2, <1>3

\* The fragments of a value are the value, in order.
LEMMA FragmentsWhole ==
  ASSUME NEW v \in Seq(Nat)
  PROVE  FlattenSeq(Fragments(v)) = v
<1> DEFINE M == OptLenMax
           L == Len(v)
           n == IF v = <<>> THEN 1 ELSE (L + M - 1) \div M
           hi(i) == IF i * M < L THEN i * M ELSE L
           F(i) == SubSeq(v, (i - 1) * M + 1, hi(i))
           s == Fragments(v)
<1>1. M \in Nat /\ M >= 1 /\ L \in Nat
  BY OptAssumption, LenProperties
<1>2. s = [i \in 1 .. n |-> F(i)] /\ s \in Seq(Seq(Nat))
  BY FragmentsType DEF Fragments
<1>3. CASE v = <<>>
  <2>1. Len(v) <= OptLenMax
    BY <1>1, <1>3
  <2>2. s = <<v>>
    BY <2>1, OneFragment
  <2>3. FlattenSeq(Append(<<>>, v)) = FlattenSeq(<<>>) \o v /\ FlattenSeq(<<>>) = <<>>
    <3>1. <<>> \in Seq(Seq(Nat))
      BY EmptySeq
    <3> QED BY <3>1, FlattenRules
  <2>4. <<v>> = Append(<<>>, v) /\ <<>> \o v = v
    BY ConcatEmptySeq
  <2> HIDE DEF s
  <2> QED BY <2>2, <2>3, <2>4 DEF s
<1>4. CASE v # <<>>
  <2> HIDE DEF M, L
  <2>1. L >= 1
    BY <1>1, <1>4, EmptySeq DEF L
  <2>2. n \in Nat /\ n >= 1 /\ n * M >= L /\ (n - 1) * M < L
    <3> DEFINE a == L + M - 1
               q == a \div M
    <3>1. a \in Nat /\ a >= M
      BY <1>1, <2>1
    <3>2. \A i, m \in Nat : m >= 1 => /\ i \div m \in Nat
                                     /\ (i \div m) * m <= i
                                     /\ i < (i \div m) * m + m
      OBVIOUS
    <3> HIDE DEF a
    <3>3. q \in Nat /\ q * M <= a /\ a < q * M + M
      BY <1>1, <3>1, <3>2
    <3>4. n = q
      BY <1>4 DEF a
    <3> HIDE DEF q, n
    <3>5. q >= 1
      <4>1. q = 0 => q * M = 0
        BY <1>1
      <4> QED BY <1>1, <3>1, <3>3, <4>1
    <3>6. (q - 1) * M = q * M - M /\ q * M \in Nat
      BY <1>1, <3>3
    <3> QED BY <1>1, <3>3, <3>4, <3>5, <3>6 DEF a
  <2> HIDE DEF n, s
  <2>3. Len(s) = n
    <3>1. DOMAIN s = 1 .. n
      BY <1>2
    <3> QED BY <1>2, <2>2, <3>1, LenProperties
  <2>4. PICK f \in [0 .. Len(s) -> Seq(Nat)] :
          /\ f[0] = <<>> /\ FlattenSeq(s) = f[Len(s)]
          /\ \A i \in 1 .. Len(s) : f[i] = f[i - 1] \o s[i]
    <3> HIDE DEF hi, F
    <3> QED BY <1>2, FlattenBytes
  <2> DEFINE T == {k \in Nat : k <= n => f[k] = SubSeq(v, 1, hi(k))}
  <2>5. 0 \in T
    <3>1. hi(0) = 0
      BY <1>1, <2>1
    <3>2. SubSeq(v, 1, 0) = <<>>
      OBVIOUS
    <3> QED BY <2>4, <3>1, <3>2
  <2>6. ASSUME NEW k \in T PROVE k + 1 \in T
    <3> SUFFICES ASSUME k + 1 <= n PROVE f[k + 1] = SubSeq(v, 1, hi(k + 1))
      BY <2>6
    <3> DEFINE i == k + 1
    <3>1. k \in Nat /\ i \in 1 .. n /\ i - 1 = k /\ k <= n - 1 /\ n - 1 \in Nat
      BY <2>2, <2>6
    <3>2. f[k] = SubSeq(v, 1, hi(k))
      BY <2>2, <2>6, <3>1
    <3> HIDE DEF i, T
    <3>3. k * M <= (n - 1) * M /\ k * M \in Nat
      BY <1>1, <3>1, TimesOrder
    <3>4. (n - 1) * M \in Nat
      BY <1>1, <3>1, TimesOrder
    <3>5. k * M < L
      BY <1>1, <2>2, <3>3, <3>4
    <3>6. hi(k) = k * M
      BY <3>5
    <3>7. i * M = k * M + M
      BY <1>1, <3>1 DEF i
    <3>8. hi(i) \in k * M .. L
      BY <1>1, <3>3, <3>5, <3>7
    <3>9. f[i] = f[k] \o F(i)
      <4>1. f[i] = f[i - 1] \o s[i]
        BY <2>3, <2>4, <3>1
      <4>2. s[i] = F(i)
        BY <1>2, <3>1
      <4> QED BY <3>1, <4>1, <4>2
    <3>10. F(i) = SubSeq(v, k * M + 1, hi(i))
      BY <3>1
    <3>11. SubSeq(v, 1, k * M) \o SubSeq(v, k * M + 1, hi(i)) = SubSeq(v, 1, hi(i))
      <4> DEFINE a == k * M
                 z == hi(i)
      <4>1. /\ 1 \in 1 .. Len(v) + 1 /\ a \in 1 - 1 .. Len(v)
            /\ z \in a .. Len(v)
        BY <1>1, <3>3, <3>5, <3>8 DEF L
      <4> HIDE DEF a, z
      <4>2. SubSeq(v, 1, a) \o SubSeq(v, a + 1, z) = SubSeq(v, 1, z)
        BY <4>1, ConcatAdjacentSubSeq
      <4> QED BY <4>2 DEF a, z
    <3> HIDE DEF hi, F
    <3>12. f[i] = SubSeq(v, 1, hi(i))
      BY <3>2, <3>6, <3>9, <3>10, <3>11
    <3> QED BY <3>12 DEF i
  <2>7. T = Nat
    <3>1. T \in SUBSET Nat
      OBVIOUS
    <3> HIDE DEF T
    <3> QED BY <2>5, <2>6, <3>1, NatInduct
  <2>8. f[n] = SubSeq(v, 1, hi(n))
    <3>1. n \in T
      <4> HIDE DEF T
      <4> QED BY <2>2, <2>7
    <3> QED BY <2>2, <3>1
  <2>9. hi(n) = L
    BY <1>1, <2>2
  <2>10. SubSeq(v, 1, L) = v
    BY SubSeqFull DEF L
  <2> HIDE DEF hi
  <2> QED BY <2>3, <2>4, <2>8, <2>9, <2>10 DEF s
<1> QED BY <1>3, <1>4

\* What Vals collects from one option.
ValOf(n) == [o \in Option |-> IF o.num = n THEN <<o.val>> ELSE <<>>]

\* Vals gathers what ValOf gives.
LEMMA ValOfType ==
  ASSUME NEW n
  PROVE  /\ ValOf(n) \in [Option -> Seq(Seq(Nat))]
         /\ \A b \in Seq(Option) : Vals(b, n) = Gather(b, ValOf(n))
<1>1. ASSUME NEW o \in Option
      PROVE  (IF o.num = n THEN <<o.val>> ELSE <<>>) \in Seq(Seq(Nat))
  <2>1. o.val \in Seq(Nat)
    BY DEF Option
  <2>2. <<o.val>> \in Seq(Seq(Nat)) /\ <<>> \in Seq(Seq(Nat))
    BY <2>1
  <2> QED BY <2>2
<1>2. ASSUME NEW b \in Seq(Option) PROVE Vals(b, n) = Gather(b, ValOf(n))
  <2>1. \A i \in DOMAIN b : b[i] \in Option
    OBVIOUS
  <2>2. [i \in DOMAIN b |-> ValOf(n)[b[i]]]
          = [i \in DOMAIN b |-> IF b[i].num = n THEN <<b[i].val>> ELSE <<>>]
    BY <2>1 DEF ValOf
  <2> QED BY <2>2 DEF Vals, Gather
<1>3. ValOf(n) \in [Option -> Seq(Seq(Nat))]
  BY <1>1 DEF ValOf
<1> QED BY <1>2, <1>3

\* The end of a list, after position p.
LEMMA TailOf ==
  ASSUME NEW S, NEW s \in Seq(S), NEW p \in 0 .. Len(s),
         NEW i \in 1 .. Len(SubSeq(s, p + 1, Len(s)))
  PROVE  /\ i + p \in DOMAIN s /\ i + p > p
         /\ SubSeq(s, p + 1, Len(s))[i] = s[i + p]
<1>1. Len(s) \in Nat /\ DOMAIN s = 1 .. Len(s)
  BY LenProperties
<1>2. p \in Nat /\ p + 1 \in Nat /\ p <= Len(s)
  BY <1>1
<1> DEFINE n == Len(s)
           t == SubSeq(s, p + 1, n)
<1>3. n \in Nat /\ p \in 0 .. n /\ DOMAIN s = 1 .. n
  BY <1>1
<1>4. t = [k \in 1 .. (n - (p + 1) + 1) |-> s[(p + 1) + k - 1]]
  OBVIOUS
<1>5. n - (p + 1) + 1 = n - p /\ n - p \in Nat
  BY <1>3
<1>6. Len(t) = n - p
  <2>1. DOMAIN t = 1 .. n - p
    BY <1>4, <1>5
  <2> HIDE DEF t
  <2>2. t \in Seq(S)
    <3>1. p \in 0 .. Len(s)
      OBVIOUS
    <3> QED BY <3>1, SplitAt DEF t
  <2>3. Len(t) \in Nat /\ DOMAIN t = 1 .. Len(t)
    BY <2>2, LenProperties
  <2> DEFINE a == Len(t)
             c == n - p
  <2>4. a \in Nat /\ c \in Nat /\ 1 .. a = 1 .. c
    BY <1>5, <2>1, <2>3
  <2> HIDE DEF a, c
  <2>5. a = c
    BY <2>4
  <2> QED BY <2>5 DEF a, c
<1>7. i \in 1 .. n - p
  BY <1>6
<1> HIDE DEF n, t
<1>8. t[i] = s[(p + 1) + i - 1] /\ (p + 1) + i - 1 = i + p
  BY <1>3, <1>4, <1>5, <1>7
<1> QED BY <1>3, <1>7, <1>8 DEF t, n

\* A push adds to the values of its number, after those that are there.
LEMMA ValsPush ==
  ASSUME NEW b \in Seq(Option), NEW n \in Known, NEW vals \in Seq(Seq(Nat)),
         NEW m \in Known
  PROVE  Vals(Push(b, n, vals), m) = IF m = n THEN Vals(b, m) \o vals ELSE Vals(b, m)
<1> DEFINE p == Position(b, n)
           lo == SubSeq(b, 1, p)
           hi == SubSeq(b, p + 1, Len(b))
           new == News(n, vals)
           g == ValOf(m)
           pushed == Push(b, n, vals)
<1>1. /\ p \in 0 .. Len(b) /\ pushed = (lo \o new) \o hi
      /\ lo \in Seq(Option) /\ hi \in Seq(Option) /\ b = lo \o hi
  BY PushSplit
<1>2. /\ new \in Seq(Option) /\ Len(new) = Len(vals)
      /\ \A i \in 1 .. Len(vals) : new[i] = [num |-> n, val |-> vals[i]]
  BY NewsType
<1>3. g \in [Option -> Seq(Seq(Nat))] /\ Vals(b, m) = Gather(b, g)
      /\ Vals(pushed, m) = Gather(pushed, g)
  <2>1. pushed \in Seq(Option)
    BY PushSorted
  <2> QED BY <2>1, ValOfType
<1>4. m = n => Gather(hi, g) = <<>>
  <2> SUFFICES ASSUME m = n PROVE Gather(hi, g) = <<>>
    OBVIOUS
  <2>1. ASSUME NEW i \in 1 .. Len(hi) PROVE g[hi[i]] = <<>>
    <3>2. hi[i] = b[i + p] /\ i + p \in DOMAIN b /\ i + p > p
      <4> HIDE DEF p
      <4> QED BY <1>1, TailOf
    <3>3. ~(b[i + p].num <= n)
      BY <3>2, PositionLast
    <3>4. hi[i] \in Option /\ ~(hi[i].num <= n)
      BY <1>1, <3>2, <3>3, ElementOfSeq
    <3>5. hi[i].num # n
      <4>1. n <= n
        BY DEF Known
      <4> QED BY <3>4, <4>1
    <3> HIDE DEF hi
    <3> QED BY <3>4, <3>5 DEF ValOf
  <2> HIDE DEF hi, g
  <2> QED BY <1>1, <1>3, <2>1, GatherNone
<1>5. Gather(new, g) = IF m = n THEN vals ELSE <<>>
  <2>1. ASSUME NEW i \in 1 .. Len(new)
        PROVE  new[i] \in Option /\ new[i].num = n /\ new[i].val = vals[i]
    <3> HIDE DEF new
    <3>1. i \in 1 .. Len(vals)
      BY <1>2
    <3>2. new[i] = [num |-> n, val |-> vals[i]]
      BY <1>2, <3>1
    <3> QED BY <1>2, <3>2, ElementOfSeq
  <2>2. CASE m = n
    <3>1. \A i \in 1 .. Len(new) : g[new[i]] = <<vals[i]>>
      <4> HIDE DEF new
      <4> QED BY <2>1, <2>2 DEF ValOf
    <3> HIDE DEF g, new
    <3>6. \A i \in 1 .. Len(new) : g[new[i]][1] = vals[i]
      <4>1. \A x : <<x>>[1] = x
        OBVIOUS
      <4> QED BY <3>1, <4>1
    <3>2. OneEach(new, g)
      <4> SUFFICES ASSUME NEW i \in 1 .. Len(new)
                   PROVE  g[new[i]] = <<g[new[i]][1]>>
        BY DEF OneEach
      <4> QED BY <3>1, <3>6
    <3>3. Gather(new, g) = Each(new, g)
      BY <1>2, <1>3, <3>2, GatherOne
    <3>4. Each(new, g) = [i \in 1 .. Len(vals) |-> vals[i]]
      <4>1. 1 .. Len(new) = 1 .. Len(vals)
        BY <1>2
      <4>2. Each(new, g) = [i \in 1 .. Len(new) |-> g[new[i]][1]]
        BY DEF Each
      <4> QED BY <3>6, <4>1, <4>2
    <3>5. vals = [i \in 1 .. Len(vals) |-> vals[i]]
      OBVIOUS
    <3> QED BY <2>2, <3>3, <3>4, <3>5
  <2>3. CASE m # n
    <3>1. \A i \in 1 .. Len(new) : g[new[i]] = <<>>
      <4> HIDE DEF new
      <4> QED BY <2>1, <2>3 DEF ValOf
    <3> HIDE DEF g, new
    <3> QED BY <1>2, <1>3, <2>3, <3>1, GatherNone
  <2> QED BY <2>2, <2>3
<1> HIDE DEF p, lo, hi, new, g, pushed
<1>6. Gather(b, g) = Gather(lo, g) \o Gather(hi, g)
  BY <1>1, <1>3, GatherConcat
<1>7. Gather(pushed, g) = (Gather(lo, g) \o Gather(new, g)) \o Gather(hi, g)
  <2>1. lo \o new \in Seq(Option)
    BY <1>1, <1>2, ConcatProperties
  <2>2. Gather(lo \o new, g) = Gather(lo, g) \o Gather(new, g)
    BY <1>1, <1>2, <1>3, GatherConcat
  <2>3. Gather((lo \o new) \o hi, g) = Gather(lo \o new, g) \o Gather(hi, g)
    BY <1>1, <1>3, <2>1, GatherConcat
  <2> QED BY <1>1, <2>2, <2>3
<1>8. Gather(lo, g) \in Seq(Seq(Nat)) /\ Gather(hi, g) \in Seq(Seq(Nat))
  BY <1>1, <1>3, GatherRules
<1> DEFINE L == Gather(lo, g)
           H == Gather(hi, g)
<1> HIDE DEF L, H
<1>9. L \in Seq(Seq(Nat)) /\ H \in Seq(Seq(Nat)) /\ Gather(b, g) = L \o H
      /\ Gather(pushed, g) = (L \o Gather(new, g)) \o H /\ (m = n => H = <<>>)
  BY <1>4, <1>6, <1>7, <1>8 DEF L, H
<1>10. CASE m = n
  <2>1. L \o <<>> = L /\ (L \o vals) \o <<>> = L \o vals
    <3>1. L \o vals \in Seq(Seq(Nat))
      BY <1>9, ConcatProperties
    <3> QED BY <1>9, <3>1, ConcatEmptySeq
  <2> QED BY <1>3, <1>5, <1>9, <1>10, <2>1 DEF pushed
<1>11. CASE m # n
  <2>1. L \o <<>> = L
    BY <1>9, ConcatEmptySeq
  <2> QED BY <1>3, <1>5, <1>9, <1>11, <2>1 DEF pushed
<1> QED BY <1>10, <1>11

-----------------------------------------------------------------------------
(***************************************************************************)
(* From the calls that were accepted to the slots, and back.               *)
(***************************************************************************)

\* The calls that are accepted, whatever there is room for.
Accepted(c) ==
  /\ c.num \in BlockNums => c.arg[3] \in ToSet(BlockSizes) /\ c.arg[1] < 1048576
  /\ c.num \in UintNums \ BlockNums => UintLen(c.arg[1]) <= UintBytes(c.num)
  /\ c.num \in StringNums =>
       c.arg # <<>> /\ (c.num # ProxyUri => Len(c.arg) <= OptLenMax)
  /\ c.num \in OpaqueNums => Len(c.arg) \in 1 .. 8
  /\ c.num \in EmptyNums => c.arg = <<>>

\* The calls that can succeed.
OKCalls == {c \in Calls : Accepted(c)}

\* The arguments that may have been given for number n.
Args(n) == {c.arg : c \in {d \in OKCalls : d.num = n}}

\* What a call adds for number n: slots, or an argument.
SlotOf(n) == [c \in OKCalls |-> IF c.num = n THEN Fragments(Value(n, c.arg)) ELSE <<>>]
\* ... or its argument.
ArgOf(n) == [c \in OKCalls |-> IF c.num = n THEN <<c.arg>> ELSE <<>>]

\* What is written for each of the arguments of number n.
ValuesOf(n, s) == [i \in DOMAIN s |-> Value(n, s[i])]

\* The types of a call that is accepted, and of what it writes.
LEMMA OKCall ==
  ASSUME NEW c \in OKCalls
  PROVE  c \in Calls /\ c.num \in Known /\ c.arg \in Seq(Nat) /\ Accepted(c)
         /\ Value(c.num, c.arg) \in Seq(Nat)
<1>1. c \in Calls /\ Accepted(c)
  BY DEF OKCalls
<1>2. c.num \in Known /\ c.arg \in Seq(Nat)
  BY <1>1, OptAssumption DEF Call
<1>3. c.num \in BlockNums => c.arg[3] \in ToSet(BlockSizes)
  BY <1>1 DEF Accepted
<1> QED BY <1>1, <1>2, <1>3, ValueType

\* An argument of number n is one of an accepted call.
LEMMA ArgsType ==
  ASSUME NEW n, NEW a \in Args(n)
  PROVE  /\ a \in Seq(Nat) /\ Value(n, a) \in Seq(Nat)
         /\ \E c \in OKCalls : c.num = n /\ c.arg = a
<1>1. PICK c \in OKCalls : c.num = n /\ c.arg = a
  BY DEF Args
<1> QED BY <1>1, OKCall

\* What a call adds for its number, and that it adds nothing for another.
LEMMA SlotOfType ==
  ASSUME NEW n
  PROVE  /\ SlotOf(n) \in [OKCalls -> Seq(Seq(Nat))]
         /\ ArgOf(n) \in [OKCalls -> Seq(Args(n))]
         /\ \A c \in OKCalls :
              /\ c.num = n => /\ SlotOf(n)[c] = Fragments(Value(n, c.arg))
                              /\ ArgOf(n)[c] = <<c.arg>> /\ c.arg \in Args(n)
              /\ c.num # n => SlotOf(n)[c] = <<>> /\ ArgOf(n)[c] = <<>>
<1>1. ASSUME NEW c \in OKCalls, c.num = n
      PROVE  Fragments(Value(n, c.arg)) \in Seq(Seq(Nat))
  BY <1>1, OKCall, FragmentsType
<1>2. ASSUME NEW c \in OKCalls, c.num = n
      PROVE  c.arg \in Args(n) /\ <<c.arg>> \in Seq(Args(n))
  <2>1. c.arg \in Args(n)
    BY <1>2 DEF Args
  <2> QED BY <2>1
<1>3. <<>> \in Seq(Seq(Nat)) /\ <<>> \in Seq(Args(n))
  BY EmptySeq
<1>4. SlotOf(n) \in [OKCalls -> Seq(Seq(Nat))]
  BY <1>1, <1>3 DEF SlotOf
<1>5. ArgOf(n) \in [OKCalls -> Seq(Args(n))]
  BY <1>2, <1>3 DEF ArgOf
<1>6. ASSUME NEW c \in OKCalls
      PROVE  /\ c.num = n => /\ SlotOf(n)[c] = Fragments(Value(n, c.arg))
                             /\ ArgOf(n)[c] = <<c.arg>> /\ c.arg \in Args(n)
             /\ c.num # n => SlotOf(n)[c] = <<>> /\ ArgOf(n)[c] = <<>>
  BY <1>2 DEF SlotOf, ArgOf
<1> QED BY <1>4, <1>5, <1>6

\* The slots hold what was added.
Slots(b, a) ==
  /\ a \in Seq(OKCalls)
  /\ \A n \in Known : Vals(b, n) = Gather(a, SlotOf(n))

\* Without a call the slots are empty ...
LEMMA SlotsEmpty == Slots(<<>>, <<>>)
<1>1. ASSUME NEW n \in Known PROVE Vals(<<>>, n) = Gather(<<>>, SlotOf(n))
  <2>1. <<>> \in Seq(Option) /\ <<>> \in Seq(OKCalls)
    BY EmptySeq
  <2>2. Vals(<<>>, n) = Gather(<<>>, ValOf(n)) /\ ValOf(n) \in [Option -> Seq(Seq(Nat))]
    BY <2>1, ValOfType
  <2>3. Gather(<<>>, ValOf(n)) = <<>>
    BY <2>1, <2>2, GatherRules
  <2>4. Gather(<<>>, SlotOf(n)) = <<>>
    BY <2>1, SlotOfType, GatherRules
  <2> QED BY <2>2, <2>3, <2>4
<1> QED BY <1>1, EmptySeq DEF Slots

\* ... and a call puts its fragments after those that its number has.
LEMMA SlotsPush ==
  ASSUME NEW b \in Seq(Option), NEW a, Slots(b, a), NEW c \in OKCalls
  PROVE  Slots(Push(b, c.num, Fragments(Value(c.num, c.arg))), Append(a, c))
<1> DEFINE vals == Fragments(Value(c.num, c.arg))
<1>1. c.num \in Known /\ vals \in Seq(Seq(Nat))
  BY OKCall, FragmentsType
<1>2. a \in Seq(OKCalls) /\ Append(a, c) \in Seq(OKCalls)
  BY AppendProperties DEF Slots
<1>3. ASSUME NEW n \in Known
      PROVE  Vals(Push(b, c.num, vals), n) = Gather(Append(a, c), SlotOf(n))
  <2>1. SlotOf(n) \in [OKCalls -> Seq(Seq(Nat))]
        /\ (c.num = n => SlotOf(n)[c] = vals) /\ (c.num # n => SlotOf(n)[c] = <<>>)
    BY SlotOfType
  <2> HIDE DEF vals
  <2>2. Gather(Append(a, c), SlotOf(n)) = Gather(a, SlotOf(n)) \o SlotOf(n)[c]
    BY <1>2, <2>1, GatherAppend
  <2>3. Vals(b, n) = Gather(a, SlotOf(n)) /\ Gather(a, SlotOf(n)) \in Seq(Seq(Nat))
    BY <1>2, <2>1, GatherRules DEF Slots
  <2>4. Vals(Push(b, c.num, vals), n)
          = IF n = c.num THEN Vals(b, n) \o vals ELSE Vals(b, n)
    BY <1>1, ValsPush
  <2>5. Gather(a, SlotOf(n)) \o <<>> = Gather(a, SlotOf(n))
    BY <2>3, ConcatEmptySeq
  <2> QED BY <2>1, <2>2, <2>3, <2>4, <2>5
<1> QED BY <1>2, <1>3 DEF Slots

\* What is written for one argument more.
LEMMA ValuesAppend ==
  ASSUME NEW n, NEW s \in Seq(Args(n)), NEW x \in Args(n)
  PROVE  /\ ValuesOf(n, s) \in Seq(Seq(Nat)) /\ Len(ValuesOf(n, s)) = Len(s)
         /\ ValuesOf(n, Append(s, x)) = Append(ValuesOf(n, s), Value(n, x))
<1>1. Len(s) \in Nat /\ DOMAIN s = 1 .. Len(s) /\ \A i \in 1 .. Len(s) : s[i] \in Args(n)
  BY LenProperties, ElementOfSeq
<1>2. \A a \in Args(n) : Value(n, a) \in Seq(Nat)
  BY ArgsType
<1>3. \A i \in 1 .. Len(s) : Value(n, s[i]) \in Seq(Nat)
  BY <1>1, <1>2
<1> DEFINE v == ValuesOf(n, s)
           u == Append(s, x)
<1>4. v \in Seq(Seq(Nat)) /\ Len(v) = Len(s) /\ \A i \in 1 .. Len(s) : v[i] = Value(n, s[i])
  BY <1>1, <1>3 DEF ValuesOf
<1>5. /\ Len(u) = Len(s) + 1 /\ DOMAIN u = 1 .. Len(s) + 1 /\ u[Len(s) + 1] = x
      /\ \A i \in 1 .. Len(s) : u[i] = s[i]
  BY <1>1, AppendProperties
<1>6. ValuesOf(n, u) = [i \in 1 .. Len(s) + 1 |-> Value(n, u[i])]
  BY <1>5 DEF ValuesOf
<1>7. Append(v, Value(n, x)) = [i \in 1 .. Len(s) + 1 |-> IF i <= Len(s) THEN v[i] ELSE Value(n, x)]
  <2> DEFINE y == Value(n, x)
             N == Len(s)
  <2>1. N \in Nat /\ v \in Seq(Seq(Nat)) /\ Len(v) = N /\ y \in Seq(Nat)
    BY <1>1, <1>2, <1>4
  <2> HIDE DEF v, y, N
  <2>3. \A w \in Seq(Seq(Nat)) : Len(w) = N + 1 => w = [i \in 1 .. N + 1 |-> w[i]]
    OBVIOUS
  <2>4. /\ Append(v, y) \in Seq(Seq(Nat)) /\ Len(Append(v, y)) = N + 1
        /\ \A i \in 1 .. N : Append(v, y)[i] = v[i]
        /\ Append(v, y)[N + 1] = y
    BY <2>1, AppendProperties
  <2> DEFINE w == Append(v, y)
  <2>5. w = [i \in 1 .. N + 1 |-> w[i]]
    BY <2>3, <2>4
  <2>6. \A i \in 1 .. N + 1 : w[i] = IF i <= N THEN v[i] ELSE y
    <3> HIDE DEF w
    <3> SUFFICES ASSUME NEW i \in 1 .. N + 1 PROVE w[i] = IF i <= N THEN v[i] ELSE y
      OBVIOUS
    <3>1. i \in 1 .. N \/ (i = N + 1 /\ ~(i <= N))
      BY <2>1
    <3> QED BY <2>4, <3>1 DEF w
  <2> HIDE DEF w
  <2>2. w = [i \in 1 .. N + 1 |-> IF i <= N THEN v[i] ELSE y]
    BY <2>5, <2>6
  <2> QED BY <2>2 DEF w, y, N
<1>8. \A i \in 1 .. Len(s) + 1 : Value(n, u[i]) = IF i <= Len(s) THEN v[i] ELSE Value(n, x)
  <2> HIDE DEF u, v
  <2> SUFFICES ASSUME NEW i \in 1 .. Len(s) + 1
               PROVE  Value(n, u[i]) = IF i <= Len(s) THEN v[i] ELSE Value(n, x)
    OBVIOUS
  <2>1. CASE i <= Len(s)
    <3>1. i \in 1 .. Len(s)
      BY <1>1, <2>1
    <3> QED BY <1>4, <1>5, <2>1, <3>1
  <2>2. CASE ~(i <= Len(s))
    <3>1. i = Len(s) + 1
      BY <1>1, <2>2
    <3> QED BY <1>5, <2>2, <3>1
  <2> QED BY <2>1, <2>2
<1> HIDE DEF u, v
<1> QED BY <1>4, <1>6, <1>7, <1>8 DEF u, v

\* The slots of a number hold the values of its calls, one after the other.
LEMMA SlotsWhole ==
  ASSUME NEW n \in Known, NEW a \in Seq(OKCalls)
  PROVE  FlattenSeq(Gather(a, SlotOf(n))) = FlattenSeq(ValuesOf(n, Gather(a, ArgOf(n))))
<1> DEFINE G(t) == Gather(t, ArgOf(n))
           L(t) == FlattenSeq(Gather(t, SlotOf(n)))
           R(t) == FlattenSeq(ValuesOf(n, G(t)))
           T == {t \in Seq(OKCalls) : L(t) = R(t)}
<1>1. /\ SlotOf(n) \in [OKCalls -> Seq(Seq(Nat))]
      /\ ArgOf(n) \in [OKCalls -> Seq(Args(n))]
  BY SlotOfType
<1>2. <<>> \in T
  <2>1. <<>> \in Seq(OKCalls)
    BY EmptySeq
  <2>2. Gather(<<>>, SlotOf(n)) = <<>> /\ G(<<>>) = <<>>
    BY <1>1, <2>1, GatherRules
  <2>3. ValuesOf(n, <<>>) = <<>>
    BY DEF ValuesOf
  <2> QED BY <2>1, <2>2, <2>3
<1>3. ASSUME NEW t \in Seq(OKCalls), t \in T, NEW c \in OKCalls
      PROVE  Append(t, c) \in T
  <2> DEFINE u == Append(t, c)
             s == Gather(t, SlotOf(n))
             g == G(t)
             v == Value(n, c.arg)
  <2>1. u \in Seq(OKCalls) /\ L(t) = R(t)
    BY <1>3, AppendProperties
  <2>2. /\ Gather(u, SlotOf(n)) = s \o SlotOf(n)[c] /\ G(u) = g \o ArgOf(n)[c]
    BY <1>1, GatherAppend
  <2>3. s \in Seq(Seq(Nat)) /\ g \in Seq(Args(n))
    BY <1>1, GatherRules
  <2>4. CASE c.num = n
    <3>1. /\ SlotOf(n)[c] = Fragments(v) /\ ArgOf(n)[c] = <<c.arg>>
          /\ c.arg \in Args(n)
      BY <2>4, SlotOfType
    <3>2. v \in Seq(Nat) /\ Fragments(v) \in Seq(Seq(Nat)) /\ FlattenSeq(Fragments(v)) = v
      <4>1. v \in Seq(Nat)
        BY <2>4, OKCall
      <4> HIDE DEF v
      <4> QED BY <4>1, FragmentsType, FragmentsWhole
    <3>3. FlattenSeq(s \o Fragments(v)) = FlattenSeq(s) \o v
      <4> HIDE DEF s, v
      <4>1. FlattenSeq(s \o Fragments(v)) = FlattenSeq(s) \o FlattenSeq(Fragments(v))
        BY <2>3, <3>2, FlattenConcat
      <4> QED BY <3>2, <4>1
    <3>4. g \o <<c.arg>> = Append(g, c.arg)
      <4> HIDE DEF g
      <4> QED BY <2>3, <3>1, AppendIsConcat
    <3>5. /\ ValuesOf(n, Append(g, c.arg)) = Append(ValuesOf(n, g), v)
          /\ ValuesOf(n, g) \in Seq(Seq(Nat))
      <4> HIDE DEF g
      <4> QED BY <2>3, <3>1, ValuesAppend
    <3>6. FlattenSeq(Append(ValuesOf(n, g), v)) = FlattenSeq(ValuesOf(n, g)) \o v
      <4> HIDE DEF g, v
      <4> QED BY <3>2, <3>5, FlattenRules
    <3>7. L(u) = FlattenSeq(s) \o v
      <4> HIDE DEF u, v
      <4> QED BY <2>2, <3>1, <3>3
    <3>8. R(u) = FlattenSeq(ValuesOf(n, g)) \o v
      <4> HIDE DEF u, g, v
      <4> QED BY <2>2, <3>1, <3>4, <3>5, <3>6
    <3> HIDE DEF u, v
    <3> QED BY <2>1, <3>7, <3>8 DEF u
  <2>5. CASE c.num # n
    <3>1. SlotOf(n)[c] = <<>> /\ ArgOf(n)[c] = <<>>
      BY <2>5, SlotOfType
    <3>2. s \o <<>> = s /\ g \o <<>> = g
      <4> HIDE DEF s, g
      <4> QED BY <2>3, ConcatEmptySeq
    <3>3. L(u) = L(t) /\ R(u) = R(t)
      <4> HIDE DEF u
      <4> QED BY <2>2, <3>1, <3>2
    <3> HIDE DEF u
    <3> QED BY <2>1, <3>3 DEF u
  <2> QED BY <2>4, <2>5
<1>4. T = Seq(OKCalls)
  <2>1. T \in SUBSET Seq(OKCalls)
    OBVIOUS
  <2> HIDE DEF T
  <2> QED BY <1>2, <1>3, <2>1, SeqInduct
<1> QED BY <1>4

\* The values of a uint32_t.
Uint32 == {v \in Nat : v \div 65536 < 65536}

\* What is assumed of the arguments that are integers.
LEMMA UintCalls ==
  ASSUME NEW c \in Calls, c.num \in UintNums
  PROVE  /\ c.num \in BlockNums => Len(c.arg) = 3 /\ c.arg[2] \in {0, 1}
         /\ c.num \notin BlockNums => Len(c.arg) = 1
         /\ c.arg[1] \in Uint32
<1>1. /\ Len(c.arg) = IF c.num \in BlockNums THEN 3 ELSE 1
      /\ c.arg[1] \div 65536 < 65536
      /\ c.num \in BlockNums => c.arg[2] \in {0, 1}
  BY OptAssumption, SMT
<1>2. c.arg \in Seq(Nat)
  BY OptAssumption, SMT DEF Call
<1>3. 1 \in 1 .. Len(c.arg)
  BY <1>1, SMT
<1>4. c.arg[1] \in Nat
  BY <1>2, <1>3, ElementOfSeq, SMT
<1> QED BY <1>1, <1>4, SMT DEF Uint32

\* They come back from at most four bytes.
LEMMA Uint32RoundTrip ==
  ASSUME NEW v \in Uint32
  PROVE  DecodeUint(EncodeUint(v)) = v /\ Len(EncodeUint(v)) \in 0 .. 4
<1>1. v \in Nat /\ v \div 65536 < 65536
  BY SMT DEF Uint32
<1>2. /\ DecodeUint(EncodeUint(v)) = v
      /\ Len(EncodeUint(v)) = UintLen(v) /\ UintLen(v) \in 0 .. 4
  BY <1>1, UintRoundTrip, SMT
<1> QED BY <1>2

\* An integer that was accepted comes back from its bytes.
LEMMA UintArg ==
  ASSUME NEW c \in OKCalls, c.num \in UintNums \ BlockNums
  PROVE  /\ c.arg[1] \in Nat /\ c.arg = <<c.arg[1]>>
         /\ DecodeUint(Value(c.num, c.arg)) = c.arg[1]
         /\ Len(Value(c.num, c.arg)) \in 0 .. 4
         /\ UintLen(c.arg[1]) <= UintBytes(c.num)
<1>1. c \in Calls /\ Accepted(c) /\ c.arg \in Seq(Nat)
  BY OKCall
<1>2. Len(c.arg) = 1 /\ c.arg[1] \in Uint32
  BY <1>1, UintCalls
<1> DEFINE a == c.arg
           v == c.arg[1]
<1>3. a \in Seq(Nat) /\ Len(a) = 1
  BY <1>1, <1>2
<1>4. a[1] \in Nat /\ a = <<a[1]>>
  <2> HIDE DEF a
  <2> QED BY <1>3, FirstOf, OnlyOne
<1>5. Value(c.num, c.arg) = EncodeUint(v)
  BY DEF Value
<1>6. v \in Uint32
  BY <1>2
<1> HIDE DEF v
<1>7. /\ DecodeUint(EncodeUint(v)) = v
      /\ Len(EncodeUint(v)) \in 0 .. 4
  BY <1>6, Uint32RoundTrip
<1>8. UintLen(c.arg[1]) <= UintBytes(c.num)
  BY <1>1 DEF Accepted
<1> QED BY <1>4, <1>5, <1>7, <1>8 DEF v

\* Three numbers in one integer, SZX being k - 1.
Packed(k, f, m) == (k - 1) + 8 * f + 16 * m

\* ... come apart again.
LEMMA BlockBits ==
  ASSUME NEW m \in Nat, NEW f \in {0, 1}, NEW k \in 1 .. 7
  PROVE  /\ Packed(k, f, m) \div 16 = m
         /\ Packed(k, f, m) % 8 = k - 1
         /\ (Packed(k, f, m) \div 8) % 2 = f
<1> DEFINE z == k - 1
<1>1. z \in 0 .. 6
  OBVIOUS
<1> HIDE DEF z, Packed
<1>2. CASE f = 0
  <2> DEFINE v == z + 16 * m
  <2>1. v \div 16 = m /\ v % 8 = z /\ v \div 8 = 2 * m
    BY <1>1
  <2>2. (2 * m) % 2 = 0
    OBVIOUS
  <2>3. z + 8 * f + 16 * m = v
    BY <1>1, <1>2
  <2> HIDE DEF v
  <2> QED BY <1>2, <2>1, <2>2, <2>3 DEF z, Packed
<1>3. CASE f = 1
  <2> DEFINE v == z + 8 + 16 * m
  <2>1. v \div 16 = m /\ v % 8 = z /\ v \div 8 = 2 * m + 1
    BY <1>1
  <2>2. (2 * m + 1) % 2 = 1
    OBVIOUS
  <2>3. z + 8 * f + 16 * m = v
    BY <1>1, <1>3
  <2> HIDE DEF v
  <2> QED BY <1>3, <2>1, <2>2, <2>3 DEF z, Packed
<1> QED BY <1>2, <1>3

\* The size that SZX stands for.
SizeOf(z) == 2 ^ (4 + z)

\* It is the one of the table.
LEMMA SizeOfSzx ==
  ASSUME NEW k \in 1 .. 7, NEW z, z = k - 1
  PROVE  SizeOf(z) = BlockSizes[k]
<1>1. k = 1 \/ k = 2 \/ k = 3 \/ k = 4 \/ k = 5 \/ k = 6 \/ k = 7
  OBVIOUS
<1>2. /\ 2 ^ 4 = 16 /\ 2 ^ 5 = 32 /\ 2 ^ 6 = 64 /\ 2 ^ 7 = 128
      /\ 2 ^ 8 = 256 /\ 2 ^ 9 = 512 /\ 2 ^ 10 = 1024
  OBVIOUS
<1>3. /\ BlockSizes[1] = 16 /\ BlockSizes[2] = 32 /\ BlockSizes[3] = 64
      /\ BlockSizes[4] = 128 /\ BlockSizes[5] = 256 /\ BlockSizes[6] = 512
      /\ BlockSizes[7] = 1024
  BY DEF BlockSizes
<1> DEFINE e == 4 + z
<1>4. /\ k = 1 => e = 4
      /\ k = 2 => e = 5
      /\ k = 3 => e = 6
      /\ k = 4 => e = 7
      /\ k = 5 => e = 8
      /\ k = 6 => e = 9
      /\ k = 7 => e = 10
  OBVIOUS
<1> HIDE DEF e
<1>5. ASSUME NEW i, NEW j, k = i, e = j PROVE 2 ^ e = 2 ^ j /\ BlockSizes[k] = BlockSizes[i]
  BY <1>5, Zenon
<1> DEFINE p == 2 ^ e
           q == BlockSizes[k]
<1>6. CASE k = 1
  <2>1. e = 4
    BY <1>4, <1>6
  <2>2. p = 2 ^ 4 /\ q = BlockSizes[1]
    BY <1>5, <1>6, <2>1, Zenon
  <2> HIDE DEF p, q
  <2> QED BY <1>2, <1>3, <2>2 DEF SizeOf, p, q, e
<1>7. CASE k = 2
  <2>1. e = 5
    BY <1>4, <1>7
  <2>2. p = 2 ^ 5 /\ q = BlockSizes[2]
    BY <1>5, <1>7, <2>1, Zenon
  <2> HIDE DEF p, q
  <2> QED BY <1>2, <1>3, <2>2 DEF SizeOf, p, q, e
<1>8. CASE k = 3
  <2>1. e = 6
    BY <1>4, <1>8
  <2>2. p = 2 ^ 6 /\ q = BlockSizes[3]
    BY <1>5, <1>8, <2>1, Zenon
  <2> HIDE DEF p, q
  <2> QED BY <1>2, <1>3, <2>2 DEF SizeOf, p, q, e
<1>9. CASE k = 4
  <2>1. e = 7
    BY <1>4, <1>9
  <2>2. p = 2 ^ 7 /\ q = BlockSizes[4]
    BY <1>5, <1>9, <2>1, Zenon
  <2> HIDE DEF p, q
  <2> QED BY <1>2, <1>3, <2>2 DEF SizeOf, p, q, e
<1>10. CASE k = 5
  <2>1. e = 8
    BY <1>4, <1>10
  <2>2. p = 2 ^ 8 /\ q = BlockSizes[5]
    BY <1>5, <1>10, <2>1, Zenon
  <2> HIDE DEF p, q
  <2> QED BY <1>2, <1>3, <2>2 DEF SizeOf, p, q, e
<1>11. CASE k = 6
  <2>1. e = 9
    BY <1>4, <1>11
  <2>2. p = 2 ^ 9 /\ q = BlockSizes[6]
    BY <1>5, <1>11, <2>1, Zenon
  <2> HIDE DEF p, q
  <2> QED BY <1>2, <1>3, <2>2 DEF SizeOf, p, q, e
<1>12. CASE k = 7
  <2>1. e = 10
    BY <1>4, <1>12
  <2>2. p = 2 ^ 10 /\ q = BlockSizes[7]
    BY <1>5, <1>12, <2>1, Zenon
  <2> HIDE DEF p, q
  <2> QED BY <1>2, <1>3, <2>2 DEF SizeOf, p, q, e
<1> QED BY <1>1, <1>6, <1>7, <1>8, <1>9, <1>10, <1>11, <1>12

\* The parts of a block option come back from one integer of 24 bits.
LEMMA BlockParts ==
  ASSUME NEW a \in Seq(Nat), Len(a) = 3, a[1] < 1048576, a[2] \in {0, 1},
         a[3] \in ToSet(BlockSizes)
  PROVE  /\ BlockValue(a) \in Nat /\ BlockValue(a) < 16777216
         /\ <<BlockValue(a) \div 16, (BlockValue(a) \div 8) % 2,
              2 ^ (4 + (BlockValue(a) % 8))>> = a
<1>1. PICK i \in 1 .. 7 : BlockSizes[i] = a[3]
  BY SMT DEF ToSet, BlockSizes
<1>2. DOMAIN BlockSizes = 1 .. 7
  BY SMT DEF BlockSizes
<1>3. /\ BlockSizes[1] = 16 /\ BlockSizes[2] = 32 /\ BlockSizes[3] = 64
      /\ BlockSizes[4] = 128 /\ BlockSizes[5] = 256 /\ BlockSizes[6] = 512
      /\ BlockSizes[7] = 1024
  BY SMT DEF BlockSizes
<1>4. \A j \in 1 .. 7 : j = 1 \/ j = 2 \/ j = 3 \/ j = 4 \/ j = 5 \/ j = 6 \/ j = 7
  BY SMT
<1> DEFINE k == CHOOSE j \in DOMAIN BlockSizes : BlockSizes[j] = a[3]
<1>5. k \in 1 .. 7 /\ BlockSizes[k] = a[3] /\ Szx(a[3]) = k - 1
  BY <1>1, <1>2, SMT DEF Szx
<1> HIDE DEF k
<1> DEFINE m == a[1]
           f == a[2]
           v == Packed(k, f, m)
<1>6. m \in Nat /\ m < 1048576 /\ f \in {0, 1}
  BY SMT
<1>7. BlockValue(a) = v
  BY <1>5, SMT DEF BlockValue, Packed
<1> HIDE DEF m, f
<1>8. v \in Nat /\ v < 16777216
  <2>1. f = 0 \/ f = 1
    BY <1>6, SMT
  <2> QED BY <1>5, <1>6, <2>1, SMT DEF Packed
<1>11. v \div 16 = m /\ v % 8 = k - 1 /\ (v \div 8) % 2 = f
  <2>1. m \in Nat /\ f \in {0, 1} /\ k \in 1 .. 7
    BY <1>5, <1>6, SMT
  <2> QED BY <2>1, BlockBits, SMT
<1>9. 2 ^ (4 + (v % 8)) = a[3]
  <2> HIDE DEF v
  <2> DEFINE z == v % 8
  <2>1. z = k - 1 /\ k \in 1 .. 7
    BY <1>5, <1>11, SMT
  <2> HIDE DEF z
  <2>2. SizeOf(z) = BlockSizes[k]
    BY <2>1, SizeOfSzx, SMT
  <2> QED BY <1>5, <2>2, SMT DEF z, SizeOf
<1>10. a = <<m, f, a[3]>>
  BY SMT DEF m, f
<1> HIDE DEF v
<1> QED BY <1>7, <1>8, <1>9, <1>10, <1>11, SMT

\* Block options have up to three bytes.
LEMMA BlockBytes == \A n \in BlockNums : UintBytes(n) = 3
<1>1. \A n \in BlockNums : n # MaxAge /\ n # Publish
  BY DEF BlockNums, MaxAge, Publish
<1> QED BY <1>1, Zenon DEF UintBytes

\* A block that was accepted comes back from its bytes.
LEMMA BlockArg ==
  ASSUME NEW c \in OKCalls, c.num \in BlockNums
  PROVE  LET v == BlockValue(c.arg)
         IN /\ v \in Nat /\ UintLen(v) <= UintBytes(c.num)
            /\ <<v \div 16, (v \div 8) % 2, 2 ^ (4 + (v % 8))>> = c.arg
            /\ DecodeUint(Value(c.num, c.arg)) = v
            /\ Len(Value(c.num, c.arg)) \in 0 .. 4
<1>1. c \in Calls /\ Accepted(c) /\ c.arg \in Seq(Nat) /\ c.num \in UintNums
  BY OKCall, SMT DEF BlockNums, UintNums
<1>2. Len(c.arg) = 3 /\ c.arg[2] \in {0, 1}
  BY <1>1, UintCalls, SMT
<1>3. c.arg[3] \in ToSet(BlockSizes) /\ c.arg[1] < 1048576
  BY <1>1, SMT DEF Accepted
<1> DEFINE v == BlockValue(c.arg)
<1>4. /\ v \in Nat /\ v < 16777216
      /\ <<v \div 16, (v \div 8) % 2, 2 ^ (4 + (v % 8))>> = c.arg
  <2> DEFINE a == c.arg
  <2>1. a \in Seq(Nat) /\ Len(a) = 3 /\ a[1] < 1048576 /\ a[2] \in {0, 1}
        /\ a[3] \in ToSet(BlockSizes)
    BY <1>1, <1>2, <1>3, SMT
  <2> HIDE DEF a
  <2>2. /\ BlockValue(a) \in Nat /\ BlockValue(a) < 16777216
        /\ <<BlockValue(a) \div 16, (BlockValue(a) \div 8) % 2,
             2 ^ (4 + (BlockValue(a) % 8))>> = a
    BY <2>1, BlockParts, SMT
  <2> QED BY <2>2, SMT DEF a
<1>5. Value(c.num, c.arg) = EncodeUint(v)
  BY SMT DEF Value
<1> HIDE DEF v
<1>6. v \in Uint32
  BY <1>4, SMT DEF Uint32
<1>7. DecodeUint(EncodeUint(v)) = v /\ Len(EncodeUint(v)) \in 0 .. 4
  BY <1>6, Uint32RoundTrip, SMT
<1>8. UintLen(v) <= 3
  BY <1>4, UintLenIs, SMT
<1>9. UintBytes(c.num) = 3
  BY BlockBytes, SMT
<1> QED BY <1>4, <1>5, <1>7, <1>8, <1>9, SMT DEF v

\* What is not a Proxy-Uri fits into one slot.
LEMMA OneSlot ==
  ASSUME NEW c \in OKCalls, c.num # ProxyUri
  PROVE  Fragments(Value(c.num, c.arg)) = <<Value(c.num, c.arg)>>
<1>1. /\ c.num \in Known /\ c.arg \in Seq(Nat) /\ Accepted(c)
      /\ Value(c.num, c.arg) \in Seq(Nat)
  BY OKCall
<1>2. OptLenMax \in 8 .. 270
  BY OptAssumption
<1>3. Len(Value(c.num, c.arg)) <= OptLenMax
  <2>1. CASE c.num \in UintNums
    <3>1. Len(Value(c.num, c.arg)) \in 0 .. 4
      BY <2>1, UintArg, BlockArg
    <3>2. \A i \in 0 .. 4, j \in 8 .. 270 : i <= j
      OBVIOUS
    <3> QED BY <1>2, <3>1, <3>2
  <2>2. CASE c.num \notin UintNums
    <3>1. Value(c.num, c.arg) = c.arg
      BY <2>2 DEF Value, UintNums, BlockNums
    <3>2. c.num \in StringNums \cup OpaqueNums \cup EmptyNums
      BY <1>1, <2>2 DEF Known, UintNums, StringNums, OpaqueNums, EmptyNums
    <3>3. c.num \in StringNums => Len(c.arg) <= OptLenMax
      BY <1>1 DEF Accepted
    <3>4. c.num \in OpaqueNums => Len(c.arg) \in 1 .. 8
      BY <1>1 DEF Accepted
    <3>5. c.num \in EmptyNums => Len(c.arg) = 0
      BY <1>1 DEF Accepted
    <3>6. \A i \in 0 .. 8, j \in 8 .. 270 : i <= j
      OBVIOUS
    <3>7. c.num \in OpaqueNums \cup EmptyNums => Len(c.arg) \in 0 .. 8
      BY <3>4, <3>5
    <3>8. CASE c.num \in StringNums
      BY <3>1, <3>3, <3>8
    <3>9. CASE c.num \in OpaqueNums \cup EmptyNums
      BY <1>2, <3>1, <3>6, <3>7, <3>9
    <3> QED BY <3>2, <3>8, <3>9
  <2> QED BY <2>1, <2>2
<1> DEFINE v == Value(c.num, c.arg)
<1> HIDE DEF v
<1> QED BY <1>1, <1>3, OneFragment DEF v

\* Of the other numbers, each slot holds the value of one call.
LEMMA SlotsSingle ==
  ASSUME NEW n \in Known, n # ProxyUri, NEW a \in Seq(OKCalls)
  PROVE  Gather(a, SlotOf(n)) = ValuesOf(n, Gather(a, ArgOf(n)))
<1> DEFINE G(t) == Gather(t, ArgOf(n))
           L(t) == Gather(t, SlotOf(n))
           R(t) == ValuesOf(n, G(t))
           T == {t \in Seq(OKCalls) : L(t) = R(t)}
<1>1. /\ SlotOf(n) \in [OKCalls -> Seq(Seq(Nat))]
      /\ ArgOf(n) \in [OKCalls -> Seq(Args(n))]
  BY SlotOfType
<1>2. <<>> \in T
  <2>1. <<>> \in Seq(OKCalls)
    BY EmptySeq
  <2>2. Gather(<<>>, SlotOf(n)) = <<>> /\ G(<<>>) = <<>>
    BY <1>1, <2>1, GatherRules
  <2>3. ValuesOf(n, <<>>) = <<>>
    BY DEF ValuesOf
  <2> QED BY <2>1, <2>2, <2>3
<1>3. ASSUME NEW t \in Seq(OKCalls), t \in T, NEW c \in OKCalls
      PROVE  Append(t, c) \in T
  <2> DEFINE u == Append(t, c)
             s == Gather(t, SlotOf(n))
             g == G(t)
             v == Value(n, c.arg)
  <2>1. u \in Seq(OKCalls) /\ s = ValuesOf(n, g)
    BY <1>3, AppendProperties
  <2>2. /\ Gather(u, SlotOf(n)) = s \o SlotOf(n)[c] /\ G(u) = g \o ArgOf(n)[c]
    BY <1>1, GatherAppend
  <2>3. s \in Seq(Seq(Nat)) /\ g \in Seq(Args(n))
    BY <1>1, GatherRules
  <2>4. CASE c.num = n
    <3>1. /\ SlotOf(n)[c] = Fragments(v) /\ ArgOf(n)[c] = <<c.arg>>
          /\ c.arg \in Args(n)
      BY <2>4, SlotOfType
    <3>2. v \in Seq(Nat) /\ Fragments(v) = <<v>>
      BY <2>4, OKCall, OneSlot
    <3>3. s \o <<v>> = Append(s, v)
      <4> HIDE DEF s, v
      <4> QED BY <2>3, <3>2, AppendIsConcat
    <3>4. g \o <<c.arg>> = Append(g, c.arg)
      <4> HIDE DEF g
      <4> QED BY <2>3, <3>1, AppendIsConcat
    <3>5. ValuesOf(n, Append(g, c.arg)) = Append(ValuesOf(n, g), v)
      <4> HIDE DEF g
      <4> QED BY <2>3, <3>1, ValuesAppend
    <3> HIDE DEF u, s, g, v
    <3>6. L(u) = R(u)
      BY <2>1, <2>2, <3>1, <3>2, <3>3, <3>4, <3>5
    <3> QED BY <2>1, <3>6 DEF u
  <2>5. CASE c.num # n
    <3>1. SlotOf(n)[c] = <<>> /\ ArgOf(n)[c] = <<>>
      BY <2>5, SlotOfType
    <3>2. s \o <<>> = s /\ g \o <<>> = g
      <4> HIDE DEF s, g
      <4> QED BY <2>3, ConcatEmptySeq
    <3> HIDE DEF u, s, g
    <3>3. L(u) = R(u)
      BY <2>1, <2>2, <3>1, <3>2
    <3> QED BY <2>1, <3>3 DEF u
  <2> QED BY <2>4, <2>5
<1>4. T = Seq(OKCalls)
  <2>1. T \in SUBSET Seq(OKCalls)
    OBVIOUS
  <2> HIDE DEF T
  <2> QED BY <1>2, <1>3, <2>1, SeqInduct
<1> QED BY <1>4

\* ... so that its values are those of its arguments, and the first is that
\* of the first argument, which an accepted call has given.
LEMMA ValsOfArgs ==
  ASSUME NEW n \in Known, NEW b, NEW a, Slots(b, a)
  PROVE  LET s == Gather(a, ArgOf(n))
         IN /\ s \in Seq(Args(n))
            /\ FlattenSeq(Vals(b, n)) = FlattenSeq(ValuesOf(n, s))
            /\ n # ProxyUri => Vals(b, n) = ValuesOf(n, s)
            /\ n # ProxyUri /\ s # <<>> =>
                 Vals(b, n) # <<>> /\ Vals(b, n)[1] = Value(n, s[1])
            /\ s # <<>> => \E c \in OKCalls : c.num = n /\ c.arg = s[1]
<1> DEFINE s == Gather(a, ArgOf(n))
<1>1. a \in Seq(OKCalls) /\ Vals(b, n) = Gather(a, SlotOf(n))
  BY DEF Slots
<1>2. s \in Seq(Args(n))
  BY <1>1, SlotOfType, GatherRules
<1>3. FlattenSeq(Vals(b, n)) = FlattenSeq(ValuesOf(n, s))
  BY <1>1, SlotsWhole
<1>4. n # ProxyUri => Vals(b, n) = ValuesOf(n, s)
  BY <1>1, SlotsSingle
<1> HIDE DEF s
<1>5. s # <<>> => 1 \in DOMAIN s /\ s[1] \in Args(n)
  <2> SUFFICES ASSUME s # <<>> PROVE 1 \in DOMAIN s /\ s[1] \in Args(n)
    OBVIOUS
  <2>1. 1 \in 1 .. Len(s) /\ DOMAIN s = 1 .. Len(s)
    BY <1>2, EmptySeq, LenProperties
  <2> QED BY <1>2, <2>1, ElementOfSeq
<1>6. s # <<>> => \E c \in OKCalls : c.num = n /\ c.arg = s[1]
  BY <1>5, ArgsType
<1>7. s # <<>> => ValuesOf(n, s) # <<>> /\ ValuesOf(n, s)[1] = Value(n, s[1])
  <2> SUFFICES ASSUME s # <<>>
               PROVE  ValuesOf(n, s) # <<>> /\ ValuesOf(n, s)[1] = Value(n, s[1])
    OBVIOUS
  <2>1. 1 \in DOMAIN ValuesOf(n, s) /\ ValuesOf(n, s)[1] = Value(n, s[1])
    BY <1>5 DEF ValuesOf
  <2>2. 1 \notin DOMAIN <<>>
    OBVIOUS
  <2> QED BY <2>1, <2>2
<1> QED BY <1>2, <1>3, <1>4, <1>6, <1>7 DEF s

\* The accessor returns the first integer of a number, if it is not too wide.
LEMMA GetNumberFirst ==
  ASSUME NEW n, NEW b, Vals(b, n) # <<>>, NEW v \in Nat,
         Len(Vals(b, n)[1]) \in 0 .. 4, DecodeUint(Vals(b, n)[1]) = v,
         UintLen(v) <= UintBytes(n)
  PROVE  GetNumber(b, n) = <<v>>
<1>1. GetUint(b, n) = <<v>>
  <2> DEFINE s == Vals(b, n)
  <2>1. GetUint(b, n) = IF s # <<>> /\ Len(s[1]) <= 8 THEN <<DecodeUint(s[1])>> ELSE <<>>
    BY DEF GetUint
  <2>2. \A i \in 0 .. 4 : i <= 8
    OBVIOUS
  <2>3. s # <<>> /\ Len(s[1]) <= 8 /\ DecodeUint(s[1]) = v
    BY <2>2
  <2> HIDE DEF s
  <2> QED BY <2>1, <2>3
<1>2. <<v>> # <<>> /\ <<v>>[1] = v
  OBVIOUS
<1>3. GetNumber(b, n) = LET w == <<v>> IN
        CASE w = <<>> /\ n = MaxAge -> <<3600>>
          [] w # <<>> /\ UintLen(w[1]) <= UintBytes(n) -> w
          [] OTHER -> <<>>
  BY <1>1 DEF GetNumber
<1> DEFINE w == <<v>>
<1>4. w # <<>> /\ UintLen(w[1]) <= UintBytes(n)
  BY <1>2
<1> HIDE DEF w
<1>5. (CASE w = <<>> /\ n = MaxAge -> <<3600>>
          [] w # <<>> /\ UintLen(w[1]) <= UintBytes(n) -> w
          [] OTHER -> <<>>) = w
  BY <1>4
<1> QED BY <1>3, <1>5 DEF w

\* The accessors return what the first call for a number gave.
LEMMA AccessorsFirst ==
  ASSUME NEW n \in UintNums, NEW b, NEW a, Slots(b, a),
         Gather(a, ArgOf(n)) # <<>>
  PROVE  (IF n \in BlockNums THEN GetBlock(b, n) ELSE GetNumber(b, n))
           = Gather(a, ArgOf(n))[1]
<1> DEFINE s == Gather(a, ArgOf(n))
           v == Vals(b, n)
<1>1. n \in Known /\ n # ProxyUri
  BY DEF Known, UintNums, ProxyUri
<1>2. v # <<>> /\ v[1] = Value(n, s[1])
  BY <1>1, ValsOfArgs
<1>3. PICK c \in OKCalls : c.num = n /\ c.arg = s[1]
  BY <1>1, ValsOfArgs
<1>4. CASE n \in BlockNums
  <2> DEFINE x == BlockValue(c.arg)
  <2>1. /\ x \in Nat /\ UintLen(x) <= UintBytes(c.num)
        /\ <<x \div 16, (x \div 8) % 2, 2 ^ (4 + (x % 8))>> = c.arg
        /\ DecodeUint(Value(c.num, c.arg)) = x
        /\ Len(Value(c.num, c.arg)) \in 0 .. 4
    BY <1>3, <1>4, BlockArg
  <2> HIDE DEF x, s, v
  <2>2. GetNumber(b, n) = <<x>>
    BY <1>2, <1>3, <2>1, GetNumberFirst DEF v
  <2>3. <<x>> # <<>> /\ <<x>>[1] = x
    OBVIOUS
  <2>4. GetBlock(b, n) = <<x \div 16, (x \div 8) % 2, 2 ^ (4 + (x % 8))>>
    BY <2>2, <2>3 DEF GetBlock
  <2> QED BY <1>3, <1>4, <2>1, <2>4 DEF s
<1>5. CASE n \notin BlockNums
  <2> DEFINE x == c.arg[1]
  <2>1. /\ x \in Nat /\ c.arg = <<x>>
        /\ DecodeUint(Value(c.num, c.arg)) = x
        /\ Len(Value(c.num, c.arg)) \in 0 .. 4
        /\ UintLen(x) <= UintBytes(c.num)
    BY <1>3, <1>5, UintArg
  <2> HIDE DEF x, s, v
  <2>2. GetNumber(b, n) = <<x>>
    BY <1>2, <1>3, <2>1, GetNumberFirst DEF v
  <2> QED BY <1>3, <1>5, <2>1, <2>2 DEF s
<1> QED BY <1>4, <1>5

\* ArgsOf gathers what ArgOf gives.
LEMMA ArgsOfGather ==
  ASSUME NEW n, added \in Seq(OKCalls)
  PROVE  ArgsOf(n) = Gather(added, ArgOf(n))
<1>1. \A i \in DOMAIN added : added[i] \in OKCalls
  OBVIOUS
<1>2. [i \in DOMAIN added |-> ArgOf(n)[added[i]]]
        = [i \in DOMAIN added |-> IF added[i].num = n THEN <<added[i].arg>> ELSE <<>>]
  BY <1>1 DEF ArgOf
<1> QED BY <1>2 DEF ArgsOf, Gather

\* ArgsKept follows from the slots.
LEMMA KeepsArgs ==
  ASSUME Slots(bundle, added)
  PROVE  ArgsKept
<1>1. \A n \in Known : ArgsOf(n) = Gather(added, ArgOf(n))
  BY ArgsOfGather DEF Slots
<1>2. ASSUME NEW n \in Known
      PROVE  FlattenSeq(Vals(bundle, n)) =
             FlattenSeq([i \in DOMAIN ArgsOf(n) |-> Value(n, ArgsOf(n)[i])])
  <2>1. FlattenSeq(Vals(bundle, n)) = FlattenSeq(ValuesOf(n, ArgsOf(n)))
    BY <1>1, ValsOfArgs
  <2> QED BY <2>1 DEF ValuesOf
<1>3. ASSUME NEW n \in UintNums, ArgsOf(n) # <<>>
      PROVE  (IF n \in BlockNums THEN GetBlock(bundle, n) ELSE GetNumber(bundle, n))
               = ArgsOf(n)[1]
  <2>1. n \in Known
    BY DEF Known, UintNums
  <2>2. ArgsOf(n) = Gather(added, ArgOf(n))
    BY <1>1, <2>1
  <2> QED BY <1>3, <2>2, AccessorsFirst
<1> QED BY <1>2, <1>3 DEF ArgsKept

\* What From collects from one option.
FromOf(n) == [o \in Option |-> IF o.num >= n THEN <<o>> ELSE <<>>]

\* From gathers what FromOf gives.
LEMMA FromOfType ==
  ASSUME NEW n
  PROVE  /\ FromOf(n) \in [Option -> Seq(Option)]
         /\ \A b \in Seq(Option) : From(b, n) = Gather(b, FromOf(n))
<1>1. ASSUME NEW o \in Option
      PROVE  (IF o.num >= n THEN <<o>> ELSE <<>>) \in Seq(Option)
  <2>1. <<o>> \in Seq(Option) /\ <<>> \in Seq(Option)
    OBVIOUS
  <2> QED BY <2>1
<1>2. ASSUME NEW b \in Seq(Option) PROVE From(b, n) = Gather(b, FromOf(n))
  <2>1. \A i \in DOMAIN b : b[i] \in Option
    OBVIOUS
  <2>2. [i \in DOMAIN b |-> FromOf(n)[b[i]]]
          = [i \in DOMAIN b |-> IF b[i].num >= n THEN <<b[i]>> ELSE <<>>]
    BY <2>1 DEF FromOf
  <2> QED BY <2>2 DEF From, Gather
<1>3. FromOf(n) \in [Option -> Seq(Option)]
  BY <1>1 DEF FromOf
<1> QED BY <1>2, <1>3

\* What comes after a sequence does not change its first element.
LEMMA FirstStays ==
  ASSUME NEW S, NEW s \in Seq(S), NEW t \in Seq(S), s # <<>>
  PROVE  s \o t # <<>> /\ (s \o t)[1] = s[1]
<1>1. Len(s) \in Nat /\ Len(s) >= 1 /\ Len(t) \in Nat
  BY EmptySeq, LenProperties
<1>2. 1 \in 1 .. Len(s) /\ 1 \in 1 .. Len(s) + Len(t)
  BY <1>1
<1>3. (s \o t)[1] = s[1] /\ Len(s \o t) = Len(s) + Len(t)
  BY <1>1, <1>2, ConcatProperties
<1>4. Len(s \o t) # 0
  BY <1>1, <1>3
<1> QED BY <1>3, <1>4, EmptySeq

\* A number without values has no option.
LEMMA NoVals ==
  ASSUME NEW b \in Seq(Option), NEW n, Gather(b, ValOf(n)) = <<>>,
         NEW i \in 1 .. Len(b)
  PROVE  b[i].num # n
<1>1. ValOf(n) \in [Option -> Seq(Seq(Nat))]
  BY ValOfType
<1> DEFINE g == ValOf(n)
<1>6. g \in [Option -> Seq(Seq(Nat))] /\ Gather(b, g) = <<>>
  BY <1>1
<1> HIDE DEF g
<1>5. ASSUME NEW A, NEW S, g \in [A -> Seq(S)], b \in Seq(A), Gather(b, g) = <<>>,
             NEW j \in 1 .. Len(b)
      PROVE  g[b[j]] = <<>>
  BY <1>5, GatherEmpty
<1>2. ValOf(n)[b[i]] = <<>>
  BY <1>6, <1>5 DEF g
<1>3. b[i] \in Option
  BY ElementOfSeq
<1>4. b[i].num = n => ValOf(n)[b[i]] = <<b[i].val>>
  BY <1>3 DEF ValOf
<1> QED BY <1>2, <1>4

\* In a sorted list, the first option from n on is the first of number n, if
\* there is one.
LEMMA FromFirst ==
  ASSUME NEW b \in Seq(Option), Ordered(b), NEW n \in Known, Vals(b, n) # <<>>
  PROVE  /\ From(b, n) # <<>> /\ From(b, n)[1].num = n
         /\ From(b, n)[1].val = Vals(b, n)[1]
<1> DEFINE V(t) == Gather(t, ValOf(n))
           F(t) == Gather(t, FromOf(n))
           P(t) == Ordered(t) /\ V(t) # <<>> =>
                     F(t) # <<>> /\ F(t)[1].num = n /\ F(t)[1].val = V(t)[1]
           T == {t \in Seq(Option) : P(t)}
<1>1. /\ ValOf(n) \in [Option -> Seq(Seq(Nat))]
      /\ FromOf(n) \in [Option -> Seq(Option)]
      /\ Vals(b, n) = V(b) /\ From(b, n) = F(b)
  BY ValOfType, FromOfType
<1>2. <<>> \in T
  <2>1. <<>> \in Seq(Option)
    BY EmptySeq
  <2>2. V(<<>>) = <<>>
    BY <1>1, <2>1, GatherRules
  <2> QED BY <2>1, <2>2
<1>3. ASSUME NEW t \in Seq(Option), t \in T, NEW x \in Option
      PROVE  Append(t, x) \in T
  <2> DEFINE u == Append(t, x)
  <2>1. u \in Seq(Option) /\ P(t)
    BY <1>3, AppendProperties
  <2>2. V(u) = V(t) \o ValOf(n)[x] /\ F(u) = F(t) \o FromOf(n)[x]
    BY <1>1, GatherAppend
  <2>3. V(t) \in Seq(Seq(Nat)) /\ F(t) \in Seq(Option)
    BY <1>1, GatherRules
  <2>4. ValOf(n)[x] \in Seq(Seq(Nat)) /\ FromOf(n)[x] \in Seq(Option)
    BY <1>1
  <2>5. ASSUME Ordered(u) PROVE Ordered(t) /\ \A i \in 1 .. Len(t) : t[i].num <= x.num
    <3>1. t \in Seq(Item) /\ x \in Item
      BY OptionIsItem
    <3> QED BY <2>5, <3>1, OrderedAppend
  <2>6. ASSUME Ordered(u), V(u) # <<>>
        PROVE  F(u) # <<>> /\ F(u)[1].num = n /\ F(u)[1].val = V(u)[1]
    <3>1. CASE V(t) # <<>>
      <4>1. F(t) # <<>> /\ F(t)[1].num = n /\ F(t)[1].val = V(t)[1]
        BY <2>1, <2>5, <2>6, <3>1
      <4>2. V(u)[1] = V(t)[1]
        <5> DEFINE p == V(t)
                   q == ValOf(n)[x]
        <5>1. p \in Seq(Seq(Nat)) /\ q \in Seq(Seq(Nat)) /\ p # <<>>
          BY <2>3, <2>4, <3>1
        <5> HIDE DEF p, q
        <5>2. (p \o q)[1] = p[1]
          BY <5>1, FirstStays
        <5> HIDE DEF u
        <5> QED BY <2>2, <5>2 DEF p, q
      <4>3. F(u) # <<>> /\ F(u)[1] = F(t)[1]
        <5> DEFINE p == F(t)
                   q == FromOf(n)[x]
        <5>1. p \in Seq(Option) /\ q \in Seq(Option) /\ p # <<>>
          BY <2>3, <2>4, <4>1
        <5> HIDE DEF p, q
        <5>2. p \o q # <<>> /\ (p \o q)[1] = p[1]
          BY <5>1, FirstStays
        <5> HIDE DEF u
        <5> QED BY <2>2, <5>2 DEF p, q
      <4> HIDE DEF u, F, V
      <4> QED BY <4>1, <4>2, <4>3
    <3>2. CASE V(t) = <<>>
      <4>1. V(u) = ValOf(n)[x]
        <5>1. \A e \in Seq(Seq(Nat)) : <<>> \o e = e
          OBVIOUS
        <5> HIDE DEF u, V
        <5> QED BY <2>2, <2>4, <3>2, <5>1
      <4>2. x.num = n
        <5>1. x.num # n => ValOf(n)[x] = <<>>
          BY DEF ValOf
        <5> HIDE DEF u, V
        <5> QED BY <2>6, <4>1, <5>1
      <4>3. ValOf(n)[x] = <<x.val>> /\ FromOf(n)[x] = <<x>>
        <5>1. n >= n
          BY DEF Known
        <5> QED BY <4>2, <5>1 DEF ValOf, FromOf
      <4>4. F(t) = <<>>
        <5>1. ASSUME NEW i \in 1 .. Len(t) PROVE FromOf(n)[t[i]] = <<>>
          <6>1. t[i] \in Option /\ t[i].num \in 1 .. 23 /\ n \in 1 .. 23
            <7>1. i \in DOMAIN t
              BY LenProperties
            <7>2. n \in 1 .. 23
              BY DEF Known
            <7> HIDE DEF T, P
            <7> QED BY <7>1, <7>2, OptionNum
          <6>3. t[i].num # n
            <7> HIDE DEF T, P
            <7> QED BY <3>2, NoVals
          <6>4. t[i].num <= n
            BY <2>5, <2>6, <4>2
          <6>5. \A j, k \in 1 .. 23 : j <= k /\ j # k => ~(j >= k)
            OBVIOUS
          <6>6. ~(t[i].num >= n)
            BY <6>1, <6>3, <6>4, <6>5
          <6> QED BY <6>1, <6>6 DEF FromOf
        <5> HIDE DEF T, P
        <5> QED BY <1>1, <5>1, GatherNone
      <4>5. F(u) = <<x>>
        <5>1. <<>> \o <<x>> = <<x>>
          OBVIOUS
        <5> HIDE DEF u, F
        <5> QED BY <2>2, <4>3, <4>4, <5>1
      <4>6. \A y : <<y>> # <<>> /\ <<y>>[1] = y
        OBVIOUS
      <4> HIDE DEF u, F, V
      <4> QED BY <4>1, <4>2, <4>3, <4>5, <4>6
    <3> QED BY <3>1, <3>2
  <2> HIDE DEF u, V, F
  <2> QED BY <2>1, <2>6 DEF u
<1>4. T = Seq(Option)
  <2>1. T \in SUBSET Seq(Option)
    OBVIOUS
  <2> HIDE DEF T
  <2> QED BY <1>2, <1>3, <2>1, SeqInduct
<1>5. P(b)
  <2>1. b \in T
    BY <1>4
  <2> HIDE DEF P
  <2> QED BY <2>1
<1> HIDE DEF V, F
<1> QED BY <1>1, <1>5

\* A text that was given for a Proxy-Uri is not empty.
LEMMA ProxyUriText ==
  ASSUME NEW s \in Seq(Args(ProxyUri)), s # <<>>
  PROVE  FlattenSeq(s) # <<>>
<1> DEFINE A == Args(ProxyUri)
           id == [x \in A |-> x]
<1>1. \A x \in A : x \in Seq(Nat) /\ x # <<>>
  <2> SUFFICES ASSUME NEW x \in A PROVE x \in Seq(Nat) /\ x # <<>>
    OBVIOUS
  <2>1. PICK c \in OKCalls : c.num = ProxyUri /\ c.arg = x
    BY ArgsType
  <2>2. Accepted(c) /\ x \in Seq(Nat)
    BY <2>1, OKCall
  <2> QED BY <2>1, <2>2 DEF Accepted, ProxyUri, StringNums
<1> HIDE DEF A
<1>2. id \in [A -> Seq(Nat)]
  BY <1>1
<1>3. s \in Seq(A)
  BY DEF A
<1>4. FlattenSeq(s) = Gather(s, id)
  <2>1. \A i \in DOMAIN s : s[i] \in A
    BY <1>3
  <2>2. s = [i \in DOMAIN s |-> id[s[i]]]
    BY <1>3, <2>1
  <2> QED BY <2>2 DEF Gather
<1>5. 1 \in 1 .. Len(s) /\ s[1] \in A
  BY <1>3, EmptySeq, LenProperties, ElementOfSeq
<1>6. id[s[1]] # <<>>
  BY <1>1, <1>5
<1> HIDE DEF id
<1>7. ASSUME NEW S, id \in [A -> Seq(S)], s \in Seq(A), Gather(s, id) = <<>>,
             NEW j \in 1 .. Len(s)
      PROVE  id[s[j]] = <<>>
  BY <1>7, GatherEmpty
<1> QED BY <1>2, <1>3, <1>4, <1>5, <1>6, <1>7

\* Texts are handed on as they are.
LEMMA TextValues ==
  ASSUME NEW n \in StringNums, NEW s \in Seq(Args(n))
  PROVE  ValuesOf(n, s) = s
<1>1. n \notin BlockNums /\ n \notin UintNums
  BY DEF StringNums, BlockNums, UintNums
<1>2. \A x : Value(n, x) = x
  BY <1>1 DEF Value
<1>3. s = [i \in DOMAIN s |-> s[i]]
  OBVIOUS
<1> QED BY <1>2, <1>3 DEF ValuesOf

\* The texts of a number are its arguments.
LEMMA UrlArgs ==
  ASSUME NEW b, NEW a, Slots(b, a), NEW n \in StringNums
  PROVE  /\ n \in Known /\ Gather(a, ArgOf(n)) \in Seq(Args(n))
         /\ FlattenSeq(Vals(b, n)) = FlattenSeq(Gather(a, ArgOf(n)))
         /\ n # ProxyUri => Vals(b, n) = Gather(a, ArgOf(n))
<1>1. n \in Known
  BY DEF StringNums, Known
<1> DEFINE s == Gather(a, ArgOf(n))
<1>2. /\ s \in Seq(Args(n)) /\ FlattenSeq(Vals(b, n)) = FlattenSeq(ValuesOf(n, s))
      /\ n # ProxyUri => Vals(b, n) = ValuesOf(n, s)
  BY <1>1, ValsOfArgs
<1> HIDE DEF s
<1>3. ValuesOf(n, s) = s
  BY <1>2, TextValues
<1> QED BY <1>1, <1>2, <1>3 DEF s

\* The host and the port of the URL, if there are options for them.
LEMMA UriHostPort ==
  ASSUME NEW b, From(b, UriHost) # <<>>, From(b, UriHost)[1].num = UriHost
  PROVE  LET u == ComposeUri(b)
             ports == From(b, UriPort)
         IN /\ u.proxy = <<>> /\ u.path = Vals(b, UriPath)
            /\ u.query = Vals(b, UriQuery)
            /\ u.host = From(b, UriHost)[1].val
            /\ ports # <<>> /\ ports[1].num = UriPort =>
                 u.port = <<DecodeUint(ports[1].val)>>
<1> DEFINE hosts == From(b, UriHost)
           ports == From(b, UriPort)
           named == hosts # <<>> /\ hosts[1].num = UriHost
           host == CASE hosts = <<>> -> <<>>
                     [] named -> hosts[1].val
                     [] OTHER -> DestHost
           p1 == IF ports[1].num = UriPort
                 THEN <<DecodeUint(ports[1].val)>>
                 ELSE <<DestPort>>
           port == CASE hosts = <<>> -> <<>>
                     [] hosts # <<>> /\ ~named -> <<DestPort>>
                     [] named /\ ports = <<>> -> <<>>
                     [] OTHER -> p1
<1>1. ComposeUri(b) = [proxy |-> <<>>, host |-> host, port |-> port,
                       path |-> Vals(b, UriPath), query |-> Vals(b, UriQuery)]
  BY DEF ComposeUri
<1>2. named /\ hosts # <<>>
  OBVIOUS
<1>3. ports # <<>> /\ ports[1].num = UriPort => p1 = <<DecodeUint(ports[1].val)>>
  OBVIOUS
<1> HIDE DEF hosts, ports, named, p1
<1>4. host = hosts[1].val
  BY <1>2, Zenon
<1>5. ports # <<>> => port = p1
  BY <1>2, Zenon
<1> HIDE DEF host, port
<1> QED BY <1>1, <1>3, <1>4, <1>5 DEF hosts, ports

\* The path and the query of the URL, whatever host it has.
LEMMA UriRest ==
  ASSUME NEW b
  PROVE  /\ ComposeUri(b).proxy = <<>> /\ ComposeUri(b).path = Vals(b, UriPath)
         /\ ComposeUri(b).query = Vals(b, UriQuery)
BY DEF ComposeUri

\* UrlKept follows from the slots and their order.
LEMMA KeepsUrl ==
  ASSUME Slots(bundle, added), bundle \in Seq(Option), Ordered(bundle)
  PROVE  UrlKept
<1> DEFINE u == UrlOf(bundle)
<1>1. \A n : ArgsOf(n) = Gather(added, ArgOf(n))
  BY ArgsOfGather DEF Slots
<1>2. ASSUME NEW n \in StringNums
      PROVE  /\ n \in Known /\ ArgsOf(n) \in Seq(Args(n))
             /\ FlattenSeq(Vals(bundle, n)) = FlattenSeq(ArgsOf(n))
             /\ n # ProxyUri => Vals(bundle, n) = ArgsOf(n)
  BY <1>1, UrlArgs
<1>3. ProxyUri \in StringNums /\ UriPath \in StringNums /\ UriQuery \in StringNums
      /\ UriHost \in StringNums
  BY DEF StringNums, ProxyUri, UriPath, UriQuery, UriHost
<1>4. UriPath # ProxyUri /\ UriQuery # ProxyUri /\ UriHost # ProxyUri
  BY DEF ProxyUri, UriPath, UriQuery, UriHost
<1>5. ComposeProxyUri(bundle) = FlattenSeq(ArgsOf(ProxyUri))
  BY <1>2, <1>3 DEF ComposeProxyUri
<1>6. CASE ArgsOf(ProxyUri) # <<>>
  <2>1. FlattenSeq(ArgsOf(ProxyUri)) # <<>>
    BY <1>2, <1>3, <1>6, ProxyUriText
  <2>2. u.proxy = FlattenSeq(ArgsOf(ProxyUri))
    BY <1>5, <2>1 DEF UrlOf
  <2> QED BY <1>6, <2>2 DEF UrlKept
<1>7. CASE ArgsOf(ProxyUri) = <<>>
  <2>1. FlattenSeq(<<>>) = <<>>
    <3>1. \A s \in Seq(Seq(Nat)) : FlattenSeq(<<>>) = <<>>
      BY FlattenRules
    <3>2. <<>> \in Seq(Seq(Nat))
      BY EmptySeq
    <3> QED BY <3>1, <3>2
  <2>2. u = ComposeUri(bundle)
    BY <1>5, <1>7, <2>1 DEF UrlOf
  <2>3. u.proxy = <<>> /\ u.path = ArgsOf(UriPath) /\ u.query = ArgsOf(UriQuery)
    BY <1>2, <1>3, <1>4, <2>2, UriRest
  <2>4. ASSUME ArgsOf(UriHost) # <<>>
        PROVE  /\ u.host = ArgsOf(UriHost)[1]
               /\ ArgsOf(UriPort) # <<>> => u.port = ArgsOf(UriPort)[1]
    <3>1. Vals(bundle, UriHost) = ArgsOf(UriHost) /\ UriHost \in Known
      BY <1>2, <1>3, <1>4
    <3>2. /\ From(bundle, UriHost) # <<>> /\ From(bundle, UriHost)[1].num = UriHost
          /\ From(bundle, UriHost)[1].val = ArgsOf(UriHost)[1]
      BY <2>4, <3>1, FromFirst
    <3>3. u.host = ArgsOf(UriHost)[1]
      BY <2>2, <3>2, UriHostPort
    <3>4. ASSUME ArgsOf(UriPort) # <<>> PROVE u.port = ArgsOf(UriPort)[1]
      <4>1. UriPort \in Known /\ UriPort # ProxyUri /\ UriPort \in UintNums \ BlockNums
        BY DEF Known, UriPort, ProxyUri, UintNums, BlockNums
      <4> DEFINE s == Gather(added, ArgOf(UriPort))
      <4>2. s = ArgsOf(UriPort) /\ s # <<>>
        BY <1>1, <3>4
      <4>3. /\ Vals(bundle, UriPort) # <<>> /\ Vals(bundle, UriPort)[1] = Value(UriPort, s[1])
            /\ \E c \in OKCalls : c.num = UriPort /\ c.arg = s[1]
        BY <4>1, <4>2, ValsOfArgs
      <4>4. PICK c \in OKCalls : c.num = UriPort /\ c.arg = s[1]
        BY <4>3
      <4>5. c.arg = <<c.arg[1]>> /\ DecodeUint(Value(c.num, c.arg)) = c.arg[1]
        BY <4>1, <4>4, UintArg
      <4>6. /\ From(bundle, UriPort) # <<>> /\ From(bundle, UriPort)[1].num = UriPort
            /\ From(bundle, UriPort)[1].val = Vals(bundle, UriPort)[1]
        BY <4>1, <4>3, FromFirst
      <4> HIDE DEF s
      <4>7. u.port = <<DecodeUint(From(bundle, UriPort)[1].val)>>
        BY <2>2, <3>2, <4>6, UriHostPort
      <4>8. DecodeUint(From(bundle, UriPort)[1].val) = c.arg[1]
        BY <4>3, <4>4, <4>5, <4>6
      <4> HIDE DEF u
      <4> QED BY <4>2, <4>4, <4>5, <4>7, <4>8
    <3> QED BY <3>3, <3>4
  <2> HIDE DEF u
  <2> QED BY <1>7, <2>3, <2>4 DEF UrlKept, u
<1> QED BY <1>6, <1>7

-----------------------------------------------------------------------------
(***************************************************************************)
(* The inductive invariant, and what follows from it.                      *)
(***************************************************************************)

\* Items of which the empty ones are empty.
Emptied == {x \in Item : x.num \in EmptyNums => x.val = <<>>}

\* What a datagram holds, if it is not a second encoding.
Faithful(w) ==
  /\ w.sent \in Seq(Emptied) /\ Ordered(w.sent)
  /\ w.bytes = EncodeAll(w.sent) /\ w.count = Len(Items(w.sent))

\* The inductive invariant: besides types and order, that the slots hold the
\* accepted calls, that the count is right until the options are encoded, and
\* that a datagram is what encoding makes of the list that it is said to hold.
OptInv ==
  /\ TypeOK /\ Sorted /\ FitsBuffer
  /\ bundle \in Seq(Option \cap Emptied)
  /\ encodes = 0 => noptions = Len(bundle)
  /\ Slots(bundle, added)
  /\ wire.by \in {"first", "peer"} => Faithful(wire)

\* A push keeps the list within a set of options.
LEMMA PushIn ==
  ASSUME NEW D \in SUBSET Option, NEW b \in Seq(D), NEW n \in Known,
         NEW vals \in Seq(Seq(Nat)),
         \A i \in 1 .. Len(vals) : [num |-> n, val |-> vals[i]] \in D
  PROVE  Push(b, n, vals) \in Seq(D)
<1> DEFINE p == Position(b, n)
           lo == SubSeq(b, 1, p)
           hi == SubSeq(b, p + 1, Len(b))
           new == News(n, vals)
<1>1. b \in Seq(Option)
  OBVIOUS
<1>2. p \in 0 .. Len(b) /\ Push(b, n, vals) = (lo \o new) \o hi
  BY <1>1, PushSplit
<1>3. new \in Seq(D)
  <2>1. Len(vals) \in Nat
    BY LenProperties
  <2> QED BY <2>1 DEF News
<1> HIDE DEF p, new
<1>4. lo \in Seq(D) /\ hi \in Seq(D)
  BY <1>2, SplitAt
<1> HIDE DEF lo, hi
<1>5. (lo \o new) \o hi \in Seq(D)
  <2>1. lo \o new \in Seq(D)
    BY <1>3, <1>4, ConcatProperties
  <2> QED BY <1>4, <2>1, ConcatProperties
<1> QED BY <1>2, <1>5

\* What a call adds is empty where it has to be.
LEMMA CallEmptied ==
  ASSUME NEW c \in OKCalls
  PROVE  LET vals == Fragments(Value(c.num, c.arg))
         IN \A i \in 1 .. Len(vals) :
              [num |-> c.num, val |-> vals[i]] \in Option \cap Emptied
<1> DEFINE vals == Fragments(Value(c.num, c.arg))
<1>1. c.num \in Known /\ vals \in Seq(Seq(Nat)) /\ Accepted(c)
  BY OKCall, FragmentsType
<1>2. c.num \in EmptyNums => vals = << <<>> >>
  <2> SUFFICES ASSUME c.num \in EmptyNums PROVE vals = << <<>> >>
    OBVIOUS
  <2>1. c.arg = <<>> /\ c.num \notin BlockNums /\ c.num \notin UintNums /\ c.num # ProxyUri
    BY <1>1 DEF Accepted, EmptyNums, BlockNums, UintNums, ProxyUri
  <2>2. Value(c.num, c.arg) = <<>>
    BY <2>1 DEF Value
  <2>3. vals = <<Value(c.num, c.arg)>>
    BY <2>1, OneSlot
  <2> QED BY <2>2, <2>3
<1> HIDE DEF vals
<1>3. ASSUME NEW i \in 1 .. Len(vals)
      PROVE  [num |-> c.num, val |-> vals[i]] \in Option \cap Emptied
  <2> DEFINE o == [num |-> c.num, val |-> vals[i]]
  <2>1. vals[i] \in Seq(Nat)
    BY <1>1, ElementOfSeq
  <2>2. o \in Option
    BY <1>1, <2>1 DEF Option
  <2>3. o \in Item
    BY <2>2, OptionIsItem
  <2>4. c.num \in EmptyNums => vals[i] = <<>>
    <3>1. Len(<< <<>> >>) = 1 /\ \A j \in 1 .. 1 : << <<>> >>[j] = <<>>
      OBVIOUS
    <3> QED BY <1>2, <3>1
  <2>5. o.num = c.num /\ o.val = vals[i]
    OBVIOUS
  <2> HIDE DEF o
  <2>6. o \in Emptied
    BY <2>3, <2>4, <2>5 DEF Emptied
  <2> QED BY <2>2, <2>6 DEF o
<1> QED BY <1>3 DEF vals

\* Every call that adds an option ends in ec_opts_add_raw.
LEMMA AddRawInv ==
  ASSUME OptInv, NEW c \in OKCalls, AddRaw(c)
  PROVE  OptInv'
<1> DEFINE vals == Fragments(Value(c.num, c.arg))
<1>1. c \in Calls /\ c.num \in Known /\ vals \in Seq(Seq(Nat)) /\ Len(vals) \in Nat
  BY OKCall, FragmentsType
<1>2. /\ bundle' = Push(bundle, c.num, vals)
      /\ noptions' = noptions + Len(vals)
      /\ noptions + Len(vals) <= MaxOptions
      /\ added' = Append(added, c)
      /\ encodes' = encodes /\ wire' = wire
  BY DEF AddRaw
<1>3. bundle \in Seq(Option) /\ Slots(bundle, added)
  BY DEF OptInv, TypeOK
<1>4. Slots(bundle', added')
  BY <1>2, <1>3, SlotsPush
<1>5. bundle' \in Seq(Option \cap Emptied)
  <2>1. \A i \in 1 .. Len(vals) :
          [num |-> c.num, val |-> vals[i]] \in Option \cap Emptied
    BY CallEmptied
  <2> DEFINE D == Option \cap Emptied
  <2>2. D \in SUBSET Option /\ bundle \in Seq(D)
        /\ \A i \in 1 .. Len(vals) : [num |-> c.num, val |-> vals[i]] \in D
    BY <2>1 DEF OptInv
  <2> HIDE DEF D, vals
  <2>3. Push(bundle, c.num, vals) \in Seq(D)
    BY <1>1, <2>2, PushIn
  <2> QED BY <1>2, <2>3 DEF D
<1> HIDE DEF vals
<1>6. bundle' \in Seq(Option) /\ Sorted'
  BY <1>1, <1>2, <1>3, PushSorted DEF OptInv, Sorted
<1>7. added' \in Seq(Calls)
  BY <1>1, <1>2 DEF OptInv, TypeOK
<1>8. noptions' \in 0 .. MaxOptions + encodes' /\ encodes' \in 0 .. MaxEncodes
  BY <1>1, <1>2, OptAssumption DEF OptInv, TypeOK
<1>9. encodes' = 0 => noptions' = Len(bundle')
  <2>1. Len(bundle') = Len(bundle) + Len(vals)
    BY <1>1, <1>2, <1>3, PushSplit
  <2> QED BY <1>2, <2>1 DEF OptInv
<1>10. FitsBuffer' /\ (wire'.by \in {"first", "peer"} => Faithful(wire'))
  BY <1>2 DEF OptInv, FitsBuffer
<1> QED
  BY <1>4, <1>5, <1>6, <1>7, <1>8, <1>9, <1>10 DEF OptInv, TypeOK

\* A call that succeeds was acceptable and ends in ec_opts_add_raw.
LEMMA AcceptedCall ==
  ASSUME NEW c \in Calls,
         AddUint(c) \/ AddBlock(c) \/ AddString(c) \/ AddOpaque(c) \/ AddEmpty(c)
  PROVE  c \in OKCalls /\ AddRaw(c)
<1>1. CASE AddUint(c)
  BY <1>1, SMT DEF AddUint, OKCalls, Accepted, UintNums, BlockNums, StringNums,
              OpaqueNums, EmptyNums
<1>2. CASE AddBlock(c)
  BY <1>2, SMT DEF AddBlock, OKCalls, Accepted, UintNums, BlockNums, StringNums,
              OpaqueNums, EmptyNums
<1>3. CASE AddString(c)
  BY <1>3, SMT DEF AddString, OKCalls, Accepted, UintNums, BlockNums, StringNums,
              OpaqueNums, EmptyNums
<1>4. CASE AddOpaque(c)
  BY <1>4, SMT DEF AddOpaque, OKCalls, Accepted, UintNums, BlockNums, StringNums,
              OpaqueNums, EmptyNums
<1>5. CASE AddEmpty(c)
  BY <1>5, SMT DEF AddEmpty, OKCalls, Accepted, UintNums, BlockNums, StringNums,
              OpaqueNums, EmptyNums
<1> QED BY <1>1, <1>2, <1>3, <1>4, <1>5, SMT

\* Each encoding counts at most one fencepost, however far it gets.
LEMMA CountedFew ==
  ASSUME NEW b \in Seq(Option), Ordered(b)
  PROVE  /\ Counted(b) \in 0 .. 1
         /\ Fitting(b) = Len(b) => Len(b) + Counted(b) = Len(Items(b))
                                   /\ Len(EncodeAll(b)) <= Capacity
<1> DEFINE k == Fitting(b)
           p == SubSeq(b, 1, k)
<1>1. b \in Seq(Item) /\ Len(b) \in Nat /\ DOMAIN b = 1 .. Len(b)
  BY OptionIsItem, LenProperties
<1>2. k \in 0 .. Len(b) /\ Used(b)[k] <= Capacity
  BY <1>1, FittingFits
<1> HIDE DEF k
<1>3. p \in Seq(Option) /\ Len(p) = k
  BY <1>2, SplitAt
<1>4. Ordered(p)
  <2>1. \A i \in 1 .. k : p[i] = b[i] /\ i \in DOMAIN b
    BY <1>1, <1>2
  <2>2. DOMAIN p = 1 .. k
    <3> HIDE DEF p
    <3> QED BY <1>3, LenProperties
  <2> HIDE DEF p
  <2> QED BY <2>1, <2>2 DEF Ordered
<1>5. Len(Items(p)) - Len(p) \in 0 .. 1
  <2> HIDE DEF p
  <2> QED BY <1>3, <1>4, OneFencepost
<1>6. Counted(b) = Len(Items(p)) - Len(p)
  <2>1. Counted(b) = Len(Items(p)) - k
    BY DEF Counted, k
  <2> HIDE DEF p
  <2> QED BY <1>3, <2>1
<1>7. ASSUME k = Len(b)
      PROVE  Len(b) + Counted(b) = Len(Items(b)) /\ Len(EncodeAll(b)) <= Capacity
  <2>1. p = b
    BY <1>7, SubSeqFull
  <2>2. Len(Items(b)) \in Nat
    BY <1>1, ItemsType, LenProperties
  <2>3. Counted(b) = Len(Items(b)) - Len(b)
    <3> HIDE DEF p
    <3> QED BY <1>6, <2>1
  <2>4. Len(EncodeAll(b)) <= Capacity
    BY <1>1, <1>2, <1>7, UsedIsWritten
  <2> QED BY <1>1, <2>2, <2>3, <2>4
<1> QED BY <1>5, <1>6, <1>7 DEF k

\* Where nothing is sent, the buffer is not exceeded.
LEMMA NoWireFits ==
  /\ NoWire.by = "nobody" /\ Len(NoWire.bytes) <= Capacity /\ NoWire.bytes = <<>>
<1>1. NoWire.by = "nobody" /\ NoWire.bytes = <<>>
  BY DEF NoWire
<1>2. Capacity \in Nat
  <2>1. \A i, j \in Nat : i * j \in Nat
    OBVIOUS
  <2>2. MaxOptions \in Nat /\ OptLenMax \in Nat
    BY OptAssumption
  <2> QED BY <2>1, <2>2 DEF Capacity
<1> QED BY <1>1, <1>2

\* The invariant of an ec_opts_t that holds nothing.
Nothing(b, n, e, a, w) ==
  b = <<>> /\ n = 0 /\ e = 0 /\ a = <<>> /\ w = NoWire

\* It holds at the start and after ec_opts_clear.
LEMMA StartInv ==
  /\ Nothing(bundle, noptions, encodes, added, wire) => OptInv
  /\ Nothing(bundle', noptions', encodes', added', wire') => OptInv'
<1>1. /\ <<>> \in Seq(Option) /\ <<>> \in Seq(Option \cap Emptied)
      /\ <<>> \in Seq(Calls) /\ Len(<<>>) = 0 /\ DOMAIN <<>> = {}
  BY EmptySeq
<1>2. 0 \in 0 .. MaxOptions + 0 /\ 0 \in 0 .. MaxEncodes
  BY OptAssumption
<1>3. "nobody" \notin {"first", "peer"}
  OBVIOUS
<1>4. ASSUME Nothing(bundle, noptions, encodes, added, wire) PROVE OptInv
  BY <1>1, <1>2, <1>3, <1>4, SlotsEmpty, NoWireFits
     DEF OptInv, TypeOK, Sorted, FitsBuffer, Nothing
<1>5. ASSUME Nothing(bundle', noptions', encodes', added', wire') PROVE OptInv'
  BY <1>1, <1>2, <1>3, <1>5, SlotsEmpty, NoWireFits
     DEF OptInv, TypeOK, Sorted, FitsBuffer, Nothing
<1> QED BY <1>4, <1>5

\* Encoding keeps the invariant, also where it fails halfway.
LEMMA EncodeInv ==
  ASSUME OptInv, Encode
  PROVE  OptInv'
<1>1. /\ bundle' = bundle /\ added' = added
      /\ encodes < MaxEncodes /\ encodes' = encodes + 1
      /\ noptions' = noptions + Counted(bundle)
  BY DEF Encode
<1>2. /\ bundle \in Seq(Option) /\ bundle \in Seq(Option \cap Emptied)
      /\ Ordered(bundle) /\ Len(bundle) \in Nat
      /\ noptions \in 0 .. MaxOptions + encodes /\ encodes \in 0 .. MaxEncodes
  BY LenProperties DEF OptInv, TypeOK, Sorted, Ordered
<1>3. /\ Counted(bundle) \in 0 .. 1
      /\ Fitting(bundle) = Len(bundle) =>
           /\ Len(bundle) + Counted(bundle) = Len(Items(bundle))
           /\ Len(EncodeAll(bundle)) <= Capacity
  BY <1>2, CountedFew
<1>4. TypeOK' /\ Sorted'
  <2>1. noptions' \in 0 .. MaxOptions + encodes' /\ encodes' \in 0 .. MaxEncodes
    BY <1>1, <1>2, <1>3, OptAssumption
  <2> QED BY <1>1, <2>1 DEF OptInv, TypeOK, Sorted
<1>5. encodes' # 0
  BY <1>1, <1>2, OptAssumption
<1>6. FitsBuffer' /\ (wire'.by \in {"first", "peer"} => Faithful(wire'))
  <2>1. CASE Fitting(bundle) = Len(bundle)
    <3> DEFINE by == IF encodes = 0 THEN "first" ELSE "again"
    <3>1. wire' = [bytes |-> EncodeAll(bundle), count |-> noptions',
                   sent |-> bundle, by |-> by]
      BY <2>1 DEF Encode
    <3>2. /\ wire'.bytes = EncodeAll(bundle) /\ wire'.count = noptions'
          /\ wire'.sent = bundle /\ wire'.by = by
      BY <3>1
    <3>3. by \in {"first", "peer"} => encodes = 0
      OBVIOUS
    <3>4. encodes = 0 => noptions' = Len(Items(bundle))
      BY <1>1, <1>3, <2>1 DEF OptInv
    <3>5. bundle \in Seq(Emptied)
      BY <1>2
    <3> HIDE DEF by
    <3>6. wire'.by \in {"first", "peer"} => Faithful(wire')
      BY <1>2, <3>2, <3>3, <3>4, <3>5 DEF Faithful
    <3>7. FitsBuffer'
      BY <1>3, <2>1, <3>2 DEF FitsBuffer, Capacity
    <3> QED BY <3>6, <3>7
  <2>2. CASE Fitting(bundle) # Len(bundle)
    <3>1. wire' = NoWire
      BY <2>2 DEF Encode
    <3>2. wire'.by = "nobody" /\ Len(wire'.bytes) <= Capacity
      BY <3>1, NoWireFits
    <3>3. "nobody" \notin {"first", "peer"}
      OBVIOUS
    <3> QED BY <3>2, <3>3 DEF FitsBuffer, Capacity
  <2> QED BY <2>1, <2>2
<1>7. Slots(bundle', added') /\ bundle' \in Seq(Option \cap Emptied)
  BY <1>1, <1>2 DEF OptInv
<1> QED BY <1>4, <1>5, <1>6, <1>7 DEF OptInv

\* What a peer sends is made from its list.
LEMMA ForeignFaithful ==
  ASSUME NEW b \in Foreign, NEW w, w.sent = b, w.bytes = EncodeAll(b),
         w.count = Len(Items(b))
  PROVE  Faithful(w)
<1>1. Sendable(b)
  BY OptAssumption
<1>2. b \in Seq(Item) /\ Ordered(b)
  BY <1>1 DEF Sendable, Item, Ordered
<1>3. \A i \in DOMAIN b : b[i].num \in EmptyNums => b[i].val = <<>>
  BY <1>1 DEF Sendable
<1>4. Len(b) \in Nat /\ DOMAIN b = 1 .. Len(b) /\ \A i \in 1 .. Len(b) : b[i] \in Item
  BY <1>2, LenProperties, ElementOfSeq
<1>5. \A i \in 1 .. Len(b) : b[i] \in Emptied
  BY <1>3, <1>4 DEF Emptied
<1>6. b \in Seq(Emptied)
  <2>1. b = [i \in 1 .. Len(b) |-> b[i]]
    BY <1>2
  <2> QED BY <1>4, <1>5, <2>1
<1> QED BY <1>2, <1>6 DEF Faithful

\* All that holds together is kept by every step.
THEOREM OptInvariant == Spec => []OptInv
<1>1. Init => OptInv
  <2> SUFFICES ASSUME Init PROVE OptInv
    OBVIOUS
  <2>1. bundle = <<>> /\ noptions = 0 /\ encodes = 0 /\ added = <<>> /\ wire = NoWire
    BY DEF Init
  <2> QED BY <2>1, StartInv DEF Nothing
<1>2. OptInv /\ [Next]_vars => OptInv'
  <2> SUFFICES ASSUME OptInv, [Next]_vars
               PROVE  OptInv'
    OBVIOUS
  <2>1. CASE Add
    <3>1. PICK c \in Calls :
            AddUint(c) \/ AddBlock(c) \/ AddString(c) \/ AddOpaque(c) \/ AddEmpty(c)
      BY <2>1 DEF Add
    <3>2. c \in OKCalls /\ AddRaw(c)
      BY <3>1, AcceptedCall
    <3> QED BY <3>2, AddRawInv
  <2>2. CASE Clear
    <3>1. /\ bundle' = <<>> /\ noptions' = 0 /\ encodes' = 0 /\ added' = <<>>
          /\ wire' = NoWire
      BY <2>2 DEF Clear
    <3> QED BY <3>1, StartInv DEF Nothing
  <2>3. CASE Encode
    BY <2>3, EncodeInv
  <2>4. CASE \E b \in Foreign : PeerSends(b)
    <3>1. PICK b \in Foreign : PeerSends(b)
      BY <2>4
    <3>2. /\ wire' = [bytes |-> EncodeAll(b), count |-> Len(Items(b)),
                      sent |-> b, by |-> "peer"]
          /\ bundle' = bundle /\ noptions' = noptions /\ encodes' = encodes
          /\ added' = added
      BY <3>1 DEF PeerSends
    <3>3. Faithful(wire')
      BY <3>2, ForeignFaithful
    <3>4. FitsBuffer'
      BY <3>2 DEF FitsBuffer
    <3> QED BY <3>2, <3>3, <3>4 DEF OptInv, TypeOK, Sorted
  <2>5. CASE UNCHANGED vars
    BY <2>5 DEF vars, OptInv, TypeOK, Sorted, FitsBuffer
  <2> QED
    BY <2>1, <2>2, <2>3, <2>4, <2>5 DEF Next
<1> QED
  BY <1>1, <1>2, PTL DEF Spec

\* Options, counters and history keep their types; opts->noptions exceeds
\* EC_PROTO_MAX_OPTIONS by no more than one fencepost for each encoding.
THEOREM OptTypeCorrect == Spec => []TypeOK
<1>1. OptInv => TypeOK
  BY DEF OptInv
<1> QED
  BY <1>1, OptInvariant, PTL

\* ec_opts_encode may assume that the options are ordered from the lowest to
\* the highest, whatever was added in which order and however it was split.
THEOREM OptionsSorted == Spec => []Sorted
<1>1. OptInv => Sorted
  BY DEF OptInv
<1> QED
  BY <1>1, OptInvariant, PTL

\* What ec_opts_encode writes stays inside opts->enc: the bytes it sets aside
\* for each option, fenceposts included, are those it writes, and it stops
\* before the first option that does not fit.
THEOREM BufferRespected == Spec => []FitsBuffer
<1>1. OptInv => FitsBuffer
  BY DEF OptInv
<1> QED
  BY <1>1, OptInvariant, PTL

\* ec_opts_decode gives back the options of every list, its own or that of a
\* peer that knows more of them, from the first encoding of the list: if OC
\* can count it and no value has a length of 15, for all lists and values,
\* and whatever the decoder finds in memory after the datagram.
THEOREM DecodesWhatWasSent == Spec => []RoundTrip
<1>1. OptInv => RoundTrip
  <2> SUFFICES ASSUME OptInv, wire.by \in {"first", "peer"}, wire.count <= MaxOptions,
                      \A i \in DOMAIN wire.sent : Len(wire.sent[i].val) # 15
               PROVE  Decodes(wire)
    BY DEF RoundTrip
  <2>1. Faithful(wire)
    BY DEF OptInv
  <2> DEFINE b == wire.sent
  <2>2. b \in Seq(Emptied) /\ Ordered(b) /\ \A i \in DOMAIN b : Len(b[i].val) # 15
    BY <2>1 DEF Faithful
  <2> HIDE DEF b
  <2>3. Len(b) \in Nat /\ DOMAIN b = 1 .. Len(b) /\ \A i \in 1 .. Len(b) : b[i] \in Emptied
    BY <2>2, LenProperties, ElementOfSeq
  <2>4. \A i \in 1 .. Len(b) : b[i] \in Plain
    BY <2>2, <2>3 DEF Emptied, Plain
  <2>5. b \in Seq(Plain)
    <3>1. b = [i \in 1 .. Len(b) |-> b[i]]
      BY <2>2
    <3> QED BY <2>3, <2>4, <3>1
  <2> QED BY <2>1, <2>2, <2>5, DecodesEncoded DEF Faithful, b
<1> QED
  BY <1>1, OptInvariant, PTL

\* Whatever is added in whichever order, the slots of a number hold what was
\* added for it, the fragments of a long Proxy-Uri in order, and the accessors
\* return the first integer or block that was given: for every 32-bit integer
\* that the calls accept, every block number of 20 bits and every SZX.
THEOREM ArgumentsKept == Spec => []ArgsKept
<1>1. OptInv => ArgsKept
  BY KeepsArgs DEF OptInv
<1> QED
  BY <1>1, OptInvariant, PTL

\* The URL that ec_opts_compose_url makes of the options names the Proxy-Uri
\* in one piece, or the host, the port, the path and the query that the client
\* added: a sorted list has its Uri-Host and Uri-Port where they are looked
\* for.
THEOREM UrlNamesRequest == Spec => []UrlKept
<1>1. OptInv => UrlKept
  <2> SUFFICES ASSUME OptInv PROVE UrlKept
    OBVIOUS
  <2>1. Slots(bundle, added) /\ bundle \in Seq(Option) /\ Ordered(bundle)
    BY DEF OptInv, TypeOK, Sorted, Ordered
  <2> QED BY <2>1, KeepsUrl
<1> QED
  BY <1>1, OptInvariant, PTL
=============================================================================
