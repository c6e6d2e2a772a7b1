------------------------------- MODULE MCOpt -------------------------------
(***************************************************************************)
(* Calls on both sides of the limits of the option codec, each value made  *)
(* of one byte of its own.                                                 *)
(***************************************************************************)
EXTENDS EvcoapOpt

Text(byte, length) == [i \in 1 .. length |-> byte]

Of(n, arg) == [num |-> n, arg |-> arg]

Opt(n, val) == [num |-> n, val |-> val]

\* Texts up to the limit of a slot and beyond, and the integers at the
\* borders between the widths.
LimitCalls == {
  Of(MaxAge, <<0>>), Of(MaxAge, <<65536>>),
  Of(ProxyUri, Text(112, 271)),
  Of(UriHost, Text(104, 14)),
  Of(UriPort, <<255>>), Of(UriPort, <<65536>>),
  Of(UriPath, Text(97, 1)), Of(UriPath, Text(98, 16)),
  Of(UriPath, <<>>), Of(UriPath, Text(99, 271)),
  Of(11, Text(1, 8)), Of(11, Text(2, 9)),
  Of(UriQuery, Text(113, 270)),
  Of(17, <<1048575, 1, 1024>>), Of(17, <<0, 0, 16>>), Of(17, <<1, 0, 24>>),
  Of(21, <<>>) }

\* Lists with numbers that are not in g_opts: odd ones must be understood.
UnknownLists == {
  <<Opt(9, Text(97, 1)), Opt(16, Text(5, 3)), Opt(21, <<>>)>>,
  <<Opt(1, <<41>>), Opt(40, Text(6, 20))>>,
  <<Opt(9, Text(97, 1)), Opt(25, Text(7, 2))>> }

\* A path segment on the border between the two forms of the length.
BorderCalls == {Of(UriPath, Text(97, 15)), Of(UriQuery, Text(113, 2)),
                Of(11, Text(1, 8))}

FewCalls == {Of(1, <<41>>), Of(UriPath, Text(97, 1)), Of(UriQuery, Text(113, 2))}

NoLists == {}

Host == Text(100, 4)
=============================================================================
