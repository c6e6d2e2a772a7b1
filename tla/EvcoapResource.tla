--------------------------- MODULE EvcoapResource ---------------------------
(***************************************************************************)
(* What a server serves: the embedded file system of resources and their   *)
(* representations, the callbacks that requests are dispatched to, and the *)
(* /.well-known/core document from which clients learn of the resources.   *)
(*                                                                         *)
(* The file system is a hash map by URI; the callbacks are a list that is  *)
(* searched without regard to case.  Fold maps a URI to what is left of it *)
(* when case does not count.  The user may make the calls in any order, as *)
(* the servers and the proxy of the tests do between them.                 *)
(***************************************************************************)
EXTENDS Naturals, SequencesExt

CONSTANTS
  Uris,       \* URIs below the origin of the request
  Fold,       \* [Uris -> names]: equal for URIs that differ in case only
  MediaTypes, \* media types
  AnyType,    \* EC_MT_ANY
  Etags,      \* the values that the random ETag may have
  NoEtag,     \* no ETag is given
  Sizes,      \* sizes of representations
  Attrs,      \* sets of attributes that a user gives to a resource
  Queries,    \* queries of /.well-known/core, as sets of Param
  NoRes,      \* no resource
  LinkLen(_), \* length of a link in the link format
  LinkMax,    \* EC_LINK_FMT_MAX
  WkcMax,     \* EC_WKC_MAX
  MaxReps     \* [Uris -> Nat], bound: representations of one resource

Names   == {"", "x", "y"}    \* values of if= and rt=
Attr    == [obs : BOOLEAN, exp : BOOLEAN, if : Names, rt : Names]
\* A query parameter; the value counts for if and rt only.
Param   == [key : {"if", "rt", "obs", "exp", "ct", "sz", "other"}, val : Names]
Types   == MediaTypes \cup {AnyType}
Rep     == [mt : Types, etag : Etags, sz : Sizes]
Res     == [attrs : Attr, reps : Seq(Rep)]
\* A link; what its representations do not agree on is left out.
Links   == [uri : Uris, attrs : Attr, sz : SUBSET Sizes, ct : SUBSET Types]

ASSUME ResourceAssumption ==
  /\ IsFiniteSet(Uris)
  /\ AnyType \notin MediaTypes
  /\ NoEtag \notin Etags
  /\ Sizes \subseteq Nat
  /\ Attrs \subseteq Attr
  /\ Queries \subseteq SUBSET Param
  /\ NoRes \notin Res
  /\ \A l \in Links : LinkLen(l) \in Nat
  /\ WkcMax \in Nat
  /\ MaxReps \in [Uris -> Nat]

VARIABLES
  fs,     \* [Uris -> Res \cup {NoRes}]: ec_filesys_t
  cbs,    \* coap->resources: URIs with a callback, in order of registration
  fb      \* coap->fb: a fallback is set

vars == <<fs, cbs, fb>>

NoAttrs == [obs |-> FALSE, exp |-> FALSE, if |-> "", rt |-> ""]

Init ==
  /\ fs = [u \in Uris |-> NoRes]
  /\ cbs = <<>>
  /\ fb = FALSE

-----------------------------------------------------------------------------
(***************************************************************************)
(* Lookup.                                                                 *)
(***************************************************************************)

\* ec_mt_matches: "An empty array is acceptable, and means EC_MT_ANY."
MtMatches(mt, mta) == mta = {} \/ mt \in mta

\* ec_resource_get_suitable_rep: the place of the first representation that
\* fits, 0 if there is none.
SuitableRep(res, mta, etag) ==
  IF res = NoRes THEN 0
  ELSE SelectInSeq(res.reps, LAMBDA rep :
         MtMatches(rep.mt, mta) /\ (etag = NoEtag \/ rep.etag = etag))

\* ec_resource_get_rep
ResourceGetRep(res, mt, etag) ==
  SuitableRep(res, IF mt = AnyType THEN {} ELSE {mt}, etag)

\* ec_filesys_get_rep
FilesysGetRep(u, mt, etag) == SuitableRep(fs[u], {mt}, etag)

-----------------------------------------------------------------------------
(***************************************************************************)
(* Resources and representations.                                          *)
(***************************************************************************)

\* ec_filesys_put_resource: a new resource takes the place of one that has
\* the same URI.
PutResource(u) ==
  /\ fs' = [fs EXCEPT ![u] = [attrs |-> NoAttrs, reps |-> <<>>]]
  /\ UNCHANGED <<cbs, fb>>

\* ec_filesys_del_resource
DelResource(u) ==
  /\ fs[u] # NoRes
  /\ fs' = [fs EXCEPT ![u] = NoRes]
  /\ UNCHANGED <<cbs, fb>>

SetReps(u, reps) ==
  /\ fs' = [fs EXCEPT ![u].reps = reps]
  /\ UNCHANGED <<cbs, fb>>

\* ec_resource_add_rep; ec_rep_new draws the ETag.
AddRep(u, mt, sz) ==
  /\ fs[u] # NoRes
  /\ Len(fs[u].reps) < MaxReps[u]
  /\ \E e \in Etags :
       SetReps(u, Append(fs[u].reps, [mt |-> mt, etag |-> e, sz |-> sz]))

\* ec_rep_del
DelRep(u, i) ==
  /\ fs[u] # NoRes
  /\ i \in DOMAIN fs[u].reps
  /\ SetReps(u, RemoveAt(fs[u].reps, i))

\* Mutant: what is removed is the first of the media type, whatever its ETag.
UpdateRepAnyEtag(u, mt, etag, sz) ==
  /\ ResourceGetRep(fs[u], mt, etag) # 0
  /\ \E e \in Etags :
       SetReps(u, RemoveAt(
         Append(fs[u].reps, [mt |-> mt, etag |-> e, sz |-> sz]),
         ResourceGetRep(fs[u], mt, NoEtag)))

\* Mutant: the old representation is never removed.
UpdateRepKeepsOld(u, mt, etag, sz) ==
  /\ ResourceGetRep(fs[u], mt, etag) # 0
  /\ \E e \in Etags :
       SetReps(u, Append(fs[u].reps, [mt |-> mt, etag |-> e, sz |-> sz]))

\* ec_resource_update_rep: the new representation is added, then the first
\* that matched is removed.
UpdateRep(u, mt, etag, sz) ==
  /\ ResourceGetRep(fs[u], mt, etag) # 0
  /\ \E e \in Etags :
       SetReps(u, RemoveAt(
         Append(fs[u].reps, [mt |-> mt, etag |-> e, sz |-> sz]),
         ResourceGetRep(fs[u], mt, etag)))

\* ec_res_attrs_set_obs, _exp, _if and _rt
SetAttrs(u, a) ==
  /\ fs[u] # NoRes
  /\ fs' = [fs EXCEPT ![u].attrs = a]
  /\ UNCHANGED <<cbs, fb>>

-----------------------------------------------------------------------------
(***************************************************************************)
(* Callbacks.                                                              *)
(***************************************************************************)

\* The first callback for u, 0 if there is none.
CallbackFor(u) == SelectInSeq(cbs, LAMBDA v : Fold[u] = Fold[v])

\* Mutant: case counts where callbacks are registered.
RegisterExactly(u) ==
  /\ \A i \in DOMAIN cbs : cbs[i] # u
  /\ cbs' = Append(cbs, u)
  /\ UNCHANGED <<fs, fb>>

\* ec_register_cb; a URI that has a callback is refused.
Register(u) ==
  /\ CallbackFor(u) = 0
  /\ cbs' = Append(cbs, u)
  /\ UNCHANGED <<fs, fb>>

\* ec_unregister_cb
Unregister(u) ==
  /\ CallbackFor(u) # 0
  /\ cbs' = RemoveAt(cbs, CallbackFor(u))
  /\ UNCHANGED <<fs, fb>>

\* ec_register_fb, ec_unregister_fb
SetFallback(on) ==
  /\ fb' = on
  /\ UNCHANGED <<fs, cbs>>

\* Where ec_server_handle_pdu takes a request for u.
Dispatch(u) ==
  IF CallbackFor(u) # 0 THEN "callback" ELSE IF fb THEN "fallback" ELSE "4.04"

-----------------------------------------------------------------------------
(***************************************************************************)
(* Discovery.  What is left out of a link is the set {}, else the set of   *)
(* its value.                                                              *)
(***************************************************************************)

\* Mutant: the first representation speaks for all.
CommonFirst(vals) == {vals[1]}

\* What all representations have in common.
Common(vals) ==
  IF \A i \in DOMAIN vals : vals[i] = vals[1] THEN {vals[1]} ELSE {}

\* __q_match: parameters that are not known, and ct= and sz=, are ignored.
Matches(a, q) ==
  \A p \in q : CASE p.key = "if"  -> a.if = p.val
                 [] p.key = "rt"  -> a.rt = p.val
                 [] p.key = "obs" -> a.obs
                 [] p.key = "exp" -> a.exp
                 [] OTHER         -> TRUE

\* ec_res_link_format_str
Link(u) ==
  LET reps == fs[u].reps
  IN [uri |-> u, attrs |-> fs[u].attrs,
      sz |-> Common([i \in DOMAIN reps |-> reps[i].sz]),
      ct |-> Common([i \in DOMAIN reps |-> reps[i].mt])]

\* __build_wkc: a resource without representations, and one whose link is
\* too long, is left out.
Linked(q) ==
  {u \in Uris : /\ fs[u] # NoRes
                /\ fs[u].reps # <<>>
                /\ Matches(fs[u].attrs, q)
                /\ LinkLen(Link(u)) < LinkMax}

\* ec_filesys_well_known_core: with commas between the links and the final
\* zero, the document fits or there is none.
Fits(q) ==
  MapThenSumSet(LAMBDA u : LinkLen(Link(u)) + 1, Linked(q)) <= WkcMax

WellKnownCore(q) == IF Fits(q) THEN {Link(u) : u \in Linked(q)} ELSE {}

-----------------------------------------------------------------------------
Next ==
  \/ \E u \in Uris :
       \/ PutResource(u)
       \/ DelResource(u)
       \/ \E mt \in Types, sz \in Sizes :
            \/ AddRep(u, mt, sz)
            \/ \E e \in Etags \cup {NoEtag} : UpdateRep(u, mt, e, sz)
       \/ \E i \in 1 .. MaxReps[u] : DelRep(u, i)
       \/ \E a \in Attrs : SetAttrs(u, a)
       \/ Register(u)
       \/ Unregister(u)
  \/ \E on \in BOOLEAN : SetFallback(on)

Spec == Init /\ [][Next]_vars

-----------------------------------------------------------------------------
(***************************************************************************)
(* Properties.                                                             *)
(***************************************************************************)

\* The types; ec_resource_update_rep, which adds before it removes, leaves
\* as many representations as there were.
TypeOK ==
  /\ fs \in [Uris -> Res \cup {NoRes}]
  /\ \A u \in Uris : fs[u] # NoRes => Len(fs[u].reps) <= MaxReps[u]
  /\ cbs \in Seq(Uris)
  /\ fb \in BOOLEAN

\* After ec_unregister_cb no request for the URI, in whatever case, gets to
\* a callback any more: ec_register_cb never lets a second one in behind the
\* first.
UnregisterEnds ==
  [][cbs' # cbs => \A u \in Uris : Unregister(u) =>
       \A v \in Uris : Fold[v] = Fold[u] => Dispatch(v)' # "callback"]_vars

\* ec_resource_update_rep with a media type: no media type that could be had
\* before is lost, and the ETag that it was called with, if it was that of
\* one representation only, no longer finds the old one.
UpdateReplaces ==
  [][fs' # fs => \A u \in Uris, mt \in MediaTypes, e \in Etags, sz \in Sizes :
       UpdateRep(u, mt, e, sz) =>
         /\ \A m \in MediaTypes :
              ResourceGetRep(fs[u], m, NoEtag) # 0
                => ResourceGetRep(fs'[u], m, NoEtag) # 0
         /\ Cardinality({i \in DOMAIN fs[u].reps :
                         fs[u].reps[i].mt = mt /\ fs[u].reps[i].etag = e}) = 1
              => ResourceGetRep(fs'[u], mt, e) \in {0, Len(fs'[u].reps)}]_vars

\* What a link says is what a client finds that follows it: there is a
\* representation, with ct= of no other type than that one, and with sz= it
\* has that size whatever type is asked for.
Truthful(l) ==
  /\ ResourceGetRep(fs[l.uri], AnyType, NoEtag) # 0
  /\ \A mt \in Types :
       LET i == SuitableRep(fs[l.uri], {mt}, NoEtag)
       IN /\ l.ct # {} => (i # 0 <=> l.ct = {mt})
          /\ i # 0 /\ l.sz # {} => l.sz = {fs[l.uri].reps[i].sz}

\* The attributes have what the query asks for.
Says(a, q) ==
  /\ \A n \in Names : [key |-> "rt", val |-> n] \in q => a.rt = n
  /\ \A n \in Names : [key |-> "if", val |-> n] \in q => a.if = n
  /\ (\E p \in q : p.key = "obs") => a.obs
  /\ (\E p \in q : p.key = "exp") => a.exp

\* Every link of ec_filesys_well_known_core, with or without a query, holds
\* what a client finds that follows it.  If the whole document fits, one that
\* is filtered by a query has exactly those links that say what the query
\* asks for.
LinksTruthful ==
  \A q \in Queries \cup {{}} :
    /\ \A l \in WellKnownCore(q) : Truthful(l)
    /\ Fits({}) =>
         WellKnownCore(q) = {l \in WellKnownCore({}) : Says(l.attrs, q)}

\* "set it to EC_MT_ANY if you don't care about a specific representation":
\* ec_filesys_get_rep with EC_MT_ANY finds a representation if there is one.
FilesysWildcard ==
  \A u \in Uris :
    fs[u] # NoRes /\ fs[u].reps # <<>> => FilesysGetRep(u, AnyType, NoEtag) # 0
=============================================================================
