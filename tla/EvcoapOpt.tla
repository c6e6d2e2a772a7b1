------------------------------ MODULE EvcoapOpt ------------------------------
(***************************************************************************)
(* The options of one PDU: the calls that add them, the encoder with its   *)
(* delta numbers and fenceposts, the decoder, the accessors and the URL    *)
(* that a server composes from what it has decoded.                        *)
(*                                                                         *)
(* An option is known by its number (ec_opt_sym_t is the rank of the       *)
(* number in g_opts).  A value is a sequence of bytes; unsigned integers   *)
(* are those of a little endian build.  The decoder starts from an empty   *)
(* ec_opts_t and changes nothing else, so that it is an operator here.     *)
(* Loops over a list are recursive functions of the number of rounds, or   *)
(* FlattenSeq of what each round adds: this is how parts of a list are     *)
(* selected, too, since the provers know nothing of SelectSeq.             *)
(***************************************************************************)
EXTENDS Integers, SequencesExt

CONSTANTS
  Calls,       \* what the user adds: [num : Known, arg : Seq(Nat)]
  Foreign,     \* option lists that another implementation may send
  MaxOptions,  \* EC_PROTO_MAX_OPTIONS, 15: the OC field holds up to it
  OptLenMax,   \* EC_COAP_OPT_LEN_MAX, 270
  DestHost,    \* the destination of the request, as text
  DestPort,    \* ... and its UDP port
  Beyond,      \* what the decoder finds in memory after the datagram
  MaxEncodes   \* bound: encodings of one PDU

Known      == 1 .. 13 \cup {15, 17, 19, 21, 23}
UintNums   == {1, 2, 7, 10, 12, 17, 19, 23}
StringNums == {3, 5, 6, 8, 9, 15}
OpaqueNums == {4, 11, 13}
EmptyNums  == {21}
BlockNums  == {17, 19}

MaxAge == 2
ProxyUri == 3
UriHost == 5
UriPort == 7
UriPath == 9
UriQuery == 15
Publish == 23

Byte   == 0 .. 255
Option == [num : Known, val : Seq(Nat)]
Call   == [num : Known, arg : Seq(Nat)]

\* What a peer may send: options in order, of lengths that can be encoded.
Sendable(b) ==
  /\ b \in Seq([num : Nat \ {0}, val : Seq(Nat)])
  /\ \A i, j \in DOMAIN b : i <= j => b[i].num <= b[j].num
  /\ \A i \in DOMAIN b : /\ Len(b[i].val) <= 270
                         /\ b[i].num \in EmptyNums => b[i].val = <<>>

\* An integer is a uint32_t, the more flag of a block a bool.
ASSUME OptAssumption ==
  /\ MaxOptions \in Nat
  /\ OptLenMax \in 8 .. 270
  /\ MaxEncodes \in Nat
  /\ Beyond \in Nat
  /\ Calls \subseteq Call
  /\ \A c \in Calls : c.num \in UintNums =>
       /\ Len(c.arg) = IF c.num \in BlockNums THEN 3 ELSE 1
       /\ c.arg[1] \div 65536 < 65536
       /\ c.num \in BlockNums => c.arg[2] \in {0, 1}
  /\ \A b \in Foreign : Sendable(b)

VARIABLES
  bundle,    \* opts->bundle: Seq(Option)
  noptions,  \* opts->noptions
  encodes,   \* how often the options have been encoded
  added,     \* the calls that succeeded, in order
  wire       \* what the last encoding put into a datagram, or NoWire

vars == <<bundle, noptions, encodes, added, wire>>

NoWire == [bytes |-> <<>>, count |-> 0, sent |-> <<>>, by |-> "nobody"]

-----------------------------------------------------------------------------
(***************************************************************************)
(* Unsigned integers: as many bytes as the value needs, none for 0, the    *)
(* highest first.  The table of powers ends where TLC's integers do.       *)
(***************************************************************************)
Pow256 == <<1, 256, 65536, 16777216>>

UintLen(v) == Cardinality({k \in 1 .. 4 : v >= Pow256[k]})

\* Mutant: the size is that of the next smaller integer.
EncodeUintShort(v) ==
  LET l == Cardinality({k \in 1 .. 4 : v > Pow256[k]})
  IN [i \in 1 .. l |-> (v \div Pow256[l - i + 1]) % 256]

EncodeUint(v) ==
  [i \in 1 .. UintLen(v) |-> (v \div Pow256[UintLen(v) - i + 1]) % 256]

DecodeUint(s) ==
  LET n[i \in 0 .. Len(s)] == IF i = 0 THEN 0 ELSE n[i - 1] * 256 + s[i]
  IN n[Len(s)]

\* The widest argument or result of the calls for a number, in bytes.
UintBytes(n) ==
  CASE n = MaxAge -> 4 [] n \in BlockNums -> 3 [] n = Publish -> 1
    [] OTHER -> 2

(***************************************************************************)
(* Block options: number, more flag (0 or 1) and size in one integer.      *)
(***************************************************************************)
BlockSizes == <<16, 32, 64, 128, 256, 512, 1024>>

Szx(size) == (CHOOSE i \in DOMAIN BlockSizes : BlockSizes[i] = size) - 1

BlockValue(a) == Szx(a[3]) + 8 * a[2] + 16 * a[1]

\* The bytes that a call hands to ec_opts_add_raw.
Value(n, a) ==
  IF n \in BlockNums THEN EncodeUint(BlockValue(a))
  ELSE IF n \in UintNums THEN EncodeUint(a[1]) ELSE a

-----------------------------------------------------------------------------
(***************************************************************************)
(* Adding.                                                                 *)
(***************************************************************************)
Init ==
  /\ bundle = <<>>
  /\ noptions = 0
  /\ encodes = 0
  /\ added = <<>>
  /\ wire = NoWire

\* The slots that a value is split over: at least one.
Fragments(v) ==
  LET n == IF v = <<>> THEN 1 ELSE (Len(v) + OptLenMax - 1) \div OptLenMax
  IN [i \in 1 .. n |->
       SubSeq(v, (i - 1) * OptLenMax + 1,
              IF i * OptLenMax < Len(v) THEN i * OptLenMax ELSE Len(v))]

\* Mutant: an option is put before the others of its number.
PositionBefore(b, n) ==
  Max({0} \cup {i \in DOMAIN b : b[i].num < n})

\* Where ec_opts_push puts an option: after the last that is not higher.
Position(b, n) ==
  Max({0} \cup {i \in DOMAIN b : b[i].num <= n})

\* Mutant: an option is always put at the end.
PushLast(b, n, vals) ==
  b \o [i \in 1 .. Len(vals) |-> [num |-> n, val |-> vals[i]]]

\* One option for each value, pushed one after the other.
Push(b, n, vals) ==
  LET p == Position(b, n)
  IN [i \in 1 .. Len(b) + Len(vals) |->
       IF i <= p THEN b[i]
       ELSE IF i <= p + Len(vals) THEN [num |-> n, val |-> vals[i - p]]
       ELSE b[i - Len(vals)]]

\* Mutant: the slots are not counted.
AddRawUnbounded(c) ==
  LET vals == Fragments(Value(c.num, c.arg))
  IN /\ noptions < MaxOptions
     /\ bundle' = Push(bundle, c.num, vals)
     /\ noptions' = noptions + Len(vals)
     /\ added' = Append(added, c)
     /\ UNCHANGED <<encodes, wire>>

AddRaw(c) ==
  LET vals == Fragments(Value(c.num, c.arg))
  IN /\ noptions + Len(vals) <= MaxOptions
     /\ bundle' = Push(bundle, c.num, vals)
     /\ noptions' = noptions + Len(vals)
     /\ added' = Append(added, c)
     /\ UNCHANGED <<encodes, wire>>

AddUint(c) ==
  /\ c.num \in UintNums \ BlockNums
  /\ UintLen(c.arg[1]) <= UintBytes(c.num)
  /\ AddRaw(c)

AddBlock(c) ==
  /\ c.num \in BlockNums
  /\ c.arg[3] \in ToSet(BlockSizes)
  /\ \A i \in DOMAIN bundle : bundle[i].num # c.num
  /\ c.arg[1] < 1048576
  /\ AddRaw(c)

\* A Proxy-Uri may be longer than one slot, the other texts may not.
AddString(c) ==
  /\ c.num \in StringNums
  /\ c.arg # <<>>
  /\ c.num # ProxyUri => Len(c.arg) <= OptLenMax
  /\ AddRaw(c)

AddOpaque(c) ==
  /\ c.num \in OpaqueNums
  /\ Len(c.arg) \in 1 .. 8
  /\ AddRaw(c)

AddEmpty(c) ==
  /\ c.num \in EmptyNums
  /\ c.arg = <<>>
  /\ AddRaw(c)

Clear ==
  /\ added # <<>>
  /\ bundle' = <<>>
  /\ noptions' = 0
  /\ encodes' = 0
  /\ added' = <<>>
  /\ wire' = NoWire

-----------------------------------------------------------------------------
(***************************************************************************)
(* Encoding.                                                               *)
(***************************************************************************)
PrevNum(b, i) == IF i = 1 THEN 0 ELSE b[i - 1].num

Fencepost(k) == [num |-> 14 * k, val |-> <<>>]

\* The fenceposts from prev up to, but not including, num.
PostsFrom(prev, num) ==
  LET first == IF prev = 0 THEN 1 ELSE (prev + 13) \div 14
      last == (num - 1) \div 14
  IN [k \in 1 .. last - first + 1 |-> Fencepost(first + k - 1)]

\* Mutant: only gaps of more than one fencepost get any.
FencepostsSparse(b, i) ==
  IF b[i].num - PrevNum(b, i) > 28
  THEN PostsFrom(PrevNum(b, i), b[i].num) ELSE <<>>

\* The fenceposts that go before the i-th option.
Fenceposts(b, i) ==
  IF b[i].num - PrevNum(b, i) > 14
  THEN PostsFrom(PrevNum(b, i), b[i].num) ELSE <<>>

\* The options with their fenceposts.
Items(b) == FlattenSeq([i \in DOMAIN b |-> Append(Fenceposts(b, i), b[i])])

\* Mutant: only the values are counted, not the bytes before them.
EncSzValues(b, i) == Len(b[i].val)

\* The bytes that ec_opts_encode sets aside for the i-th option.
EncSz(b, i) ==
  (IF Len(b[i].val) > 14 THEN 2 ELSE 1) + Len(b[i].val)
    + Len(Fenceposts(b, i))

Capacity == MaxOptions * OptLenMax

\* The bytes that are set aside for the first options of b.
Used(b) ==
  LET u[i \in 0 .. Len(b)] == IF i = 0 THEN 0 ELSE u[i - 1] + EncSz(b, i)
  IN u

\* How many options fit into the buffer, up to the first that does not.
Fitting(b) == Max({k \in 0 .. Len(b) : Used(b)[k] <= Capacity})

\* A byte with a delta and a length; the delta is cut to its four bits.
Header(delta, length) == (delta % 16) * 16 + length

EncodeItem(s, i) ==
  LET delta == s[i].num - PrevNum(s, i)
      l == Len(s[i].val)
  IN (IF l > 14 THEN <<Header(delta, 15), l - 15>> ELSE <<Header(delta, l)>>)
       \o s[i].val

Bytes(s) == FlattenSeq([i \in DOMAIN s |-> EncodeItem(s, i)])

EncodeAll(b) == Bytes(Items(b))

\* The fenceposts that encoding counts, those before a failure included.
Counted(b) == Len(Items(SubSeq(b, 1, Fitting(b)))) - Fitting(b)

\* Encoding, and the header with the count; on failure nothing is sent.
Encode ==
  /\ encodes < MaxEncodes
  /\ encodes' = encodes + 1
  /\ noptions' = noptions + Counted(bundle)
  /\ wire' = IF Fitting(bundle) = Len(bundle)
             THEN [bytes |-> EncodeAll(bundle), count |-> noptions',
                   sent |-> bundle,
                   by |-> IF encodes = 0 THEN "first" ELSE "again"]
             ELSE NoWire
  /\ UNCHANGED <<bundle, added>>

\* A datagram of another implementation, which may know more options.
PeerSends(b) ==
  /\ wire = NoWire
  /\ added = <<>>
  /\ wire' = [bytes |-> EncodeAll(b), count |-> Len(Items(b)),
              sent |-> b, by |-> "peer"]
  /\ UNCHANGED <<bundle, noptions, encodes, added>>

-----------------------------------------------------------------------------
(***************************************************************************)
(* Decoding.  OC has as many bits as MaxOptions needs (four in the code).  *)
(***************************************************************************)
Oc(w) == w.count % (MaxOptions + 1)

At(s, i) == IF i <= Len(s) THEN s[i] ELSE Beyond

\* An option that is not known and must not be ignored.
Critical(n) == n \notin Known /\ n % 2 = 1

DecodeOption(bytes, d) ==
  LET num == d.num + At(bytes, d.pos) \div 16
      nibble == At(bytes, d.pos) % 16
      len == IF nibble = 15 THEN At(bytes, d.pos + 1) + 15 ELSE nibble
      start == d.pos + (IF len > 15 THEN 2 ELSE 1)
      val == IF num \in EmptyNums THEN <<>>
             ELSE [i \in 1 .. len |-> At(bytes, start + i - 1)]
  IN CASE d.rc # "UNSET" -> d
       [] d.rc = "UNSET" /\ Critical(num) -> [d EXCEPT !.rc = "BAD_OPTION"]
       [] OTHER -> [rc |-> "UNSET", pos |-> start + len, num |-> num,
                    bundle |-> IF num \in Known
                               THEN Push(d.bundle, num, <<val>>)
                               ELSE d.bundle]

DecodeStart == [rc |-> "UNSET", pos |-> 1, num |-> 0, bundle |-> <<>>]

Decode(w) ==
  LET d[i \in 0 .. Oc(w)] ==
        IF i = 0 THEN DecodeStart ELSE DecodeOption(w.bytes, d[i - 1])
  IN d[Oc(w)]

\* Where the payload starts, as the number of bytes before it.
Olen(d) == d.pos - 1

-----------------------------------------------------------------------------
(***************************************************************************)
(* Accessors.                                                              *)
(***************************************************************************)
\* The values of number n, in order.
Vals(b, n) ==
  FlattenSeq([i \in DOMAIN b |->
               IF b[i].num = n THEN <<b[i].val>> ELSE <<>>])

\* ec_opts_get_uint: the first option of number n, unless it is too long.
GetUint(b, n) ==
  LET s == Vals(b, n)
  IN IF s # <<>> /\ Len(s[1]) <= 8 THEN <<DecodeUint(s[1])>> ELSE <<>>

\* What the accessor for number n makes of it: nothing if it is too large,
\* and an hour without a Max-Age.
GetNumber(b, n) ==
  LET v == GetUint(b, n)
  IN CASE v = <<>> /\ n = MaxAge -> <<3600>>
       [] v # <<>> /\ UintLen(v[1]) <= UintBytes(n) -> v
       [] OTHER -> <<>>

GetBlock(b, n) ==
  LET v == GetNumber(b, n)
  IN IF v = <<>> THEN <<>>
     ELSE <<v[1] \div 16, (v[1] \div 8) % 2, 2 ^ (4 + (v[1] % 8))>>

ComposeProxyUri(b) == FlattenSeq(Vals(b, ProxyUri))

\* The options from number n on.
From(b, n) ==
  FlattenSeq([i \in DOMAIN b |-> IF b[i].num >= n THEN <<b[i]>> ELSE <<>>])

\* The first option from Uri-Host on decides the host, and the port with it
\* if it is not a Uri-Host; else the first from Uri-Port on does.
ComposeUri(b) ==
  LET hosts == From(b, UriHost)
      ports == From(b, UriPort)
      named == hosts # <<>> /\ hosts[1].num = UriHost
      host == CASE hosts = <<>> -> <<>>
                [] named -> hosts[1].val
                [] OTHER -> DestHost
      port == CASE hosts = <<>> -> <<>>
                [] hosts # <<>> /\ ~named -> <<DestPort>>
                [] named /\ ports = <<>> -> <<>>
                [] OTHER -> IF ports[1].num = UriPort
                            THEN <<DecodeUint(ports[1].val)>>
                            ELSE <<DestPort>>
  IN [proxy |-> <<>>, host |-> host, port |-> port,
      path |-> Vals(b, UriPath), query |-> Vals(b, UriQuery)]

\* A Proxy-Uri takes precedence over all the rest.
UrlOf(b) ==
  IF ComposeProxyUri(b) = <<>> THEN ComposeUri(b)
  ELSE [proxy |-> ComposeProxyUri(b), host |-> <<>>, port |-> <<>>,
        path |-> <<>>, query |-> <<>>]

-----------------------------------------------------------------------------
Add == \E c \in Calls :
         AddUint(c) \/ AddBlock(c) \/ AddString(c) \/ AddOpaque(c) \/ AddEmpty(c)

Next == Add \/ Clear \/ Encode \/ \E b \in Foreign : PeerSends(b)

Spec == Init /\ [][Next]_vars

-----------------------------------------------------------------------------
(***************************************************************************)
(* Properties.                                                             *)
(***************************************************************************)

\* The types; the slots in use are never more than ec_opts_add_raw checks,
\* but for the fencepost that each encoding may count.
TypeOK ==
  /\ bundle \in Seq(Option)
  /\ noptions \in 0 .. MaxOptions + encodes
  /\ encodes \in 0 .. MaxEncodes
  /\ added \in Seq(Calls)

\* ec_opts_push keeps the numbers in order, which ec_opts_encode assumes:
\* a number below the one before it would have a negative delta.
Sorted ==
  \A i, j \in DOMAIN bundle : i <= j => bundle[i].num <= bundle[j].num

\* What was added for a number, in the order of the calls.
ArgsOf(n) ==
  FlattenSeq([i \in DOMAIN added |->
               IF added[i].num = n THEN <<added[i].arg>> ELSE <<>>])

\* Whatever else is added in between, the slots of a number hold what was
\* added for it, value after value, the fragments of a long one in order;
\* ec_opts_get_uint and ec_opts_get_block return the first value that was
\* given for the number, the boundaries of each width and of SZX included.
ArgsKept ==
  /\ \A n \in Known :
       FlattenSeq(Vals(bundle, n)) =
       FlattenSeq([i \in DOMAIN ArgsOf(n) |-> Value(n, ArgsOf(n)[i])])
  /\ \A n \in UintNums : ArgsOf(n) # <<>> =>
       (IF n \in BlockNums THEN GetBlock(bundle, n) ELSE GetNumber(bundle, n))
         = ArgsOf(n)[1]

\* What ec_opts_encode writes stays inside opts->enc.
FitsBuffer == wire.by # "peer" => Len(wire.bytes) <= Capacity

\* The options of b that are in g_opts.
Recognized(b) ==
  FlattenSeq([i \in DOMAIN b |->
               IF b[i].num \in Known THEN <<b[i]>> ELSE <<>>])

\* ec_opts_decode gives back what w was made from: the same options at the
\* same place before the payload without those it does not know, or an error
\* if it must know one of them.
Decodes(w) ==
  LET d == Decode(w)
  IN IF \E i \in DOMAIN w.sent : Critical(w.sent[i].num)
     THEN d.rc = "BAD_OPTION"
     ELSE /\ d.rc = "UNSET"
          /\ d.bundle = Recognized(w.sent)
          /\ Olen(d) = Len(w.bytes)

\* The first encoding of every option list decodes to the same list, if OC
\* can count it and no value has a length of 15.
RoundTrip ==
  (/\ wire.by \in {"first", "peer"}
   /\ wire.count <= MaxOptions
   /\ \A i \in DOMAIN wire.sent : Len(wire.sent[i].val) # 15)
  => Decodes(wire)

\* The same without the exception for the length on the border between the
\* two forms, for which ec_opts_decode skips one length byte too few.
RoundTripEveryLength ==
  wire.by = "first" /\ wire.count <= MaxOptions => Decodes(wire)

\* "Increment the number of options coherently": the count of the header is
\* that of the options and fenceposts in the datagram, however often the
\* options are encoded.
CountCoherent == wire.count = Len(Items(wire.sent))

\* The URL of a request names what the client put into it: the Proxy-Uri in
\* one piece, or the host, the path and the query segment by segment.
UrlKept ==
  LET u == UrlOf(bundle)
  IN IF ArgsOf(ProxyUri) # <<>>
     THEN u.proxy = FlattenSeq(ArgsOf(ProxyUri))
     ELSE /\ u.proxy = <<>>
          /\ u.path = ArgsOf(UriPath)
          /\ u.query = ArgsOf(UriQuery)
          /\ ArgsOf(UriHost) # <<>> =>
               /\ u.host = ArgsOf(UriHost)[1]
               /\ ArgsOf(UriPort) # <<>> => u.port = ArgsOf(UriPort)[1]

\* "The default value of the Uri-Host Option is the IP literal representing
\* the destination IP address of the request message", whatever else the
\* request has.
HostDefaults ==
  ArgsOf(UriHost) = <<>> /\ ArgsOf(ProxyUri) = <<>>
    => UrlOf(bundle).host = DestHost
=============================================================================
