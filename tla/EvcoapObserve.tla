--------------------------- MODULE EvcoapObserve ---------------------------
(***************************************************************************)
(* The server side of Observe: the observations of one CoAP base, by URI,  *)
(* their observers and the countdown that notifies them.                   *)
(*                                                                         *)
(* Observers come with GET requests, whose callback may add them at once   *)
(* or, if it is deferred, later; they go with another GET, an RST, a call  *)
(* of the user or the deletion of the resource.  EvcoapServer has already  *)
(* sorted out duplicates: a request or an RST here is a new one.           *)
(***************************************************************************)
EXTENDS Naturals, Sequences

CONSTANTS
  Uris,         \* resources that may be observed
  Peers,        \* clients, by address
  Mids,         \* message IDs; 0 is an observer's before it is notified
  MayFail,      \* whether the sending of a notification may fail
  Garbage,      \* values that a variable may have that is not initialized
  Deferring,    \* resources whose callback may return EC_CBRC_WAIT
  MaxObservers, \* bound: observers of one resource
  MaxWaiting    \* bound: deferred requests of one client for one resource

ASSUME ObserveAssumption ==
  /\ Mids \subseteq Nat
  /\ MayFail \in BOOLEAN
  /\ Garbage \subseteq BOOLEAN
  /\ Deferring \subseteq Uris
  /\ MaxObservers \in Nat
  /\ MaxWaiting \in Nat

VARIABLES
  proc,       \* the process: "up", or "segv" (it crashed)
  observing,  \* Seq(Uris): the observations of the base, in order
  observers,  \* [Uris -> Seq(Observer)]
  armed,      \* [Uris -> BOOLEAN]: the countdown of the observation runs
  waiting,    \* [Peers -> [Uris -> Nat]]: GETs with a deferred callback
  by,         \* who caused the last step: a client, or a URI by its countdown
  out         \* the notifications that the last step sent

vars == <<proc, observing, observers, armed, waiting, by, out>>

(* ec_observer_t: its client and the MID of the last notification. *)
Observer == [peer : Peers, mid : Mids \cup {0}]

(* A notification, of a new representation or of the deletion. *)
Notification == [to : Peers, uri : Uris, mid : Mids, deleted : BOOLEAN]

Init ==
  /\ proc = "up"
  /\ observing = << >>
  /\ observers = [u \in Uris |-> << >>]
  /\ armed = [u \in Uris |-> FALSE]
  /\ waiting = [p \in Peers |-> [u \in Uris |-> 0]]
  /\ by = "nobody"
  /\ out = {}

-----------------------------------------------------------------------------
(* Observers *)

(* Mutant: any client matches. *)
MatchesAnyPeer(o, p, m) == m = 0 \/ o.mid = m

(* ec_observer_search compares the client and, if it is not 0, the MID. *)
Matches(o, p, m) == o.peer = p /\ (m = 0 \/ o.mid = m)

IsFirstMatch(list, i, p, m) ==
  /\ i \in DOMAIN list /\ Matches(list[i], p, m)
  /\ \A j \in 1 .. i - 1 : ~Matches(list[j], p, m)

(* TAILQ_REMOVE *)
Without(list, i) ==
  [j \in 1 .. Len(list) - 1 |-> IF j < i THEN list[j] ELSE list[j + 1]]

(* The list once the observer that p and m lead to, if any, is removed. *)
Removed(list, p, m) ==
  IF \E i \in DOMAIN list : Matches(list[i], p, m)
  THEN Without(list, CHOOSE i \in DOMAIN list : IsFirstMatch(list, i, p, m))
  ELSE list

(* ec_observation_search *)
Observed(u) == \E i \in DOMAIN observing : observing[i] = u

(* The observations without that of u, which has lost its observers. *)
Unobserved(u) ==
  IF Observed(u)
  THEN Without(observing, CHOOSE i \in DOMAIN observing : observing[i] = u)
  ELSE observing

(* Mutant: an observation that has lost its last observer is kept. *)
BecomeKeepsEmpty(u, list) ==
  /\ observers' = [observers EXCEPT ![u] = list]
  /\ observing' = IF Observed(u) THEN observing ELSE Append(observing, u)
  /\ armed' = [armed EXCEPT ![u] = IF Observed(u) THEN @ ELSE TRUE]

(* The observers of u become list.  The first one makes the observation    *)
(* and starts its countdown (ec_observation_add), the last one takes it    *)
(* away with its countdown (ec_observer_remove, ec_observation_free).      *)
Become(u, list) ==
  /\ observers' = [observers EXCEPT ![u] = list]
  /\ observing' = IF list = << >> THEN Unobserved(u)
                  ELSE IF Observed(u) THEN observing
                  ELSE Append(observing, u)
  /\ armed' = [armed EXCEPT ![u] = /\ list # << >>
                                   /\ Observed(u) => armed[u]]

(* ec_observer_new, ec_observer_add *)
Added(list, p) == Append(list, [peer |-> p, mid |-> 0])

-----------------------------------------------------------------------------
(* Requests and resets *)

(* What the GET of p leaves of the observers of u, before the callback is  *)
(* called (ec_observe_canceled_by_get).                                    *)
AfterGet(u, p) == Removed(observers[u], p, 0)

(* A GET whose callback does not add an observer. *)
Get(p, u) ==
  /\ proc = "up"
  /\ Become(u, AfterGet(u, p))
  /\ by' = p /\ out' = {}
  /\ UNCHANGED <<proc, waiting>>

(* Mutant: the GET of an observer does not remove it. *)
GetObserveTwice(p, u) ==
  /\ proc = "up" /\ Len(observers[u]) < MaxObservers
  /\ Become(u, Added(observers[u], p))
  /\ by' = p /\ out' = {}
  /\ UNCHANGED <<proc, waiting>>

(* A GET whose callback calls ec_add_observer.  An observation that was    *)
(* left without observers in between is a new one, at the end of the list. *)
GetObserve(p, u) ==
  /\ proc = "up" /\ Len(AfterGet(u, p)) < MaxObservers
  /\ observers' = [observers EXCEPT ![u] = Added(AfterGet(u, p), p)]
  /\ observing' = IF AfterGet(u, p) = << >>
                  THEN Append(Unobserved(u), u)
                  ELSE observing
  /\ armed' = [armed EXCEPT ![u] = @ \/ AfterGet(u, p) = << >>]
  /\ by' = p /\ out' = {}
  /\ UNCHANGED <<proc, waiting>>

(* A GET whose callback returns EC_CBRC_WAIT, ... *)
GetWait(p, u) ==
  /\ proc = "up" /\ u \in Deferring /\ waiting[p][u] < MaxWaiting
  /\ Become(u, AfterGet(u, p))
  /\ waiting' = [waiting EXCEPT ![p][u] = @ + 1]
  /\ by' = p /\ out' = {}
  /\ UNCHANGED proc

(* Mutant: the callback is rescheduled after it has answered. *)
LateObserveAgain(p, u) ==
  /\ proc = "up" /\ Len(observers[u]) < MaxObservers
  /\ Become(u, Added(observers[u], p))
  /\ waiting' = [waiting EXCEPT ![p][u] = @ - 1]
  /\ by' = p /\ out' = {}
  /\ UNCHANGED proc

(* ... and calls ec_add_observer when it is rescheduled. *)
LateObserve(p, u) ==
  /\ proc = "up" /\ waiting[p][u] > 0 /\ Len(observers[u]) < MaxObservers
  /\ Become(u, Added(observers[u], p))
  /\ waiting' = [waiting EXCEPT ![p][u] = @ - 1]
  /\ by' = p /\ out' = {}
  /\ UNCHANGED proc

(* ec_rem_observer, in the callback of a request other than GET. *)
RemObserver(p, u) ==
  /\ proc = "up"
  /\ Become(u, Removed(observers[u], p, 0))
  /\ by' = p /\ out' = {}
  /\ UNCHANGED <<proc, waiting>>

(* ec_observe_canceled_by_rst: the first observation that has a matching   *)
(* observer loses it.                                                      *)
Rst(p, m) ==
  LET found(u) == \E i \in DOMAIN observers[u] : Matches(observers[u][i], p, m)
  IN
  /\ proc = "up"
  /\ \E i \in DOMAIN observing :
       /\ found(observing[i])
       /\ \A j \in 1 .. i - 1 : ~found(observing[j])
       /\ Become(observing[i], Removed(observers[observing[i]], p, m))
  /\ by' = p /\ out' = {}
  /\ UNCHANGED <<proc, waiting>>

-----------------------------------------------------------------------------
(* ec_ob_cb: the countdown has elapsed.  The user produces a               *)
(* representation for each observer in turn, or none if the resource has   *)
(* been deleted, which removes the observer.                               *)

(* The observers, of n, that a round may reach: those before a failure. *)
Reached(n) == {1 .. k : k \in IF MayFail THEN 0 .. n ELSE {n}}

(* The indices in S, all at most n, in order (there is one such list). *)
InOrder(S, n) ==
  {f \in UNION {[1 .. k -> S] : k \in 0 .. n} :
     /\ \A i, j \in DOMAIN f : i < j => f[i] < f[j]
     /\ \A i \in S : \E j \in DOMAIN f : f[j] = i}

(* The observers that stay after a round that has reached those in ok. *)
AfterRound(list, stay, ok, mid) ==
  [j \in DOMAIN stay |-> IF stay[j] \in ok
                         THEN [list[stay[j]] EXCEPT !.mid = mid[stay[j]]]
                         ELSE list[stay[j]]]

(* Whether the countdown starts again.  A failure ends the round before    *)
(* that.  drained has a value if an observer was removed: whether it was   *)
(* the last one.  Otherwise it has not been initialized.                   *)
Rearmed(aborted, gone, list, drained) ==
  ~aborted /\ IF gone = {} THEN ~drained ELSE list # << >>

(* A round of u that reaches the observers in ok, sends them notifications *)
(* with the MIDs mid, and leaves those in stay after removing gone.        *)
Round(u, ok, mid, gone, stay, drained) ==
  LET list == AfterRound(observers[u], stay, ok, mid) IN
  /\ observers' = [observers EXCEPT ![u] = list]
  /\ observing' = IF list = << >> THEN Unobserved(u) ELSE observing
  /\ armed' = [armed EXCEPT
                 ![u] = Rearmed(ok # DOMAIN observers[u], gone, list, drained)]
  /\ out' = {[to |-> observers[u][i].peer, uri |-> u, mid |-> mid[i],
              deleted |-> i \in gone] : i \in ok}
  \* The loop steps from an observer that it has just freed.
  /\ proc' \in IF gone = {} THEN {"up"} ELSE {"up", "segv"}

Notify(u) ==
  LET n == Len(observers[u]) IN
  /\ proc = "up" /\ armed[u]
  /\ \E ok \in Reached(n), drained \in Garbage :
     \E mid \in [ok -> Mids], gone \in SUBSET ok :
     \E stay \in InOrder((1 .. n) \ gone, n) :
       Round(u, ok, mid, gone, stay, drained)
  /\ by' = u
  /\ UNCHANGED waiting

-----------------------------------------------------------------------------
Next ==
  \/ \E p \in Peers, u \in Uris :
       Get(p, u) \/ GetObserve(p, u) \/ GetWait(p, u) \/ LateObserve(p, u)
         \/ RemObserver(p, u)
  \/ \E p \in Peers, m \in Mids : Rst(p, m)
  \/ \E u \in Uris : Notify(u)

Spec == Init /\ [][Next]_vars

-----------------------------------------------------------------------------
(* Properties *)

TypeOK ==
  /\ proc \in {"up", "segv"}
  /\ observing \in Seq(Uris)
  /\ observers \in [Uris -> Seq(Observer)]
  /\ armed \in [Uris -> BOOLEAN]
  /\ waiting \in [Peers -> [Uris -> 0 .. MaxWaiting]]
  /\ by \in Peers \cup Uris \cup {"nobody"}
  /\ out \subseteq Notification

(* A resource is on the list of observations, once, exactly while it has   *)
(* observers, and no countdown runs for one that is not: ec_ob_cb never    *)
(* starts on an observation that has been freed.                           *)
Consistent ==
  /\ \A i, j \in DOMAIN observing : observing[i] = observing[j] => i = j
  /\ \A u \in Uris : Observed(u) <=> observers[u] # << >>
  /\ \A u \in Uris : armed[u] => Observed(u)

(* A client observes a resource at most once, however often it registers,  *)
(* unless a callback is deferred between the GET that cancels the old      *)
(* observer and the call that adds the new one: otherwise it would be      *)
(* notified twice and a later GET or RST would cancel only one of the two. *)
OneObserver ==
  \A u \in Uris \ Deferring : \A i, j \in DOMAIN observers[u] :
    observers[u][i].peer = observers[u][j].peer => i = j

Observes(p, u) == \E i \in DOMAIN observers[u] : observers[u][i].peer = p

(* A client stops observing a resource only by a message of its own or     *)
(* with a notification that the resource is gone: nothing that another     *)
(* client sends, and no notification that fails, ends it silently.         *)
DroppedKnowingly ==
  [][\A p \in Peers, u \in Uris :
       Observes(p, u) /\ ~Observes(p, u)'
         => \/ by' = p
            \/ \E n \in out' : n.to = p /\ n.uri = u /\ n.deleted]_vars

(* "In case observation has not been removed because of deletion of the    *)
(* underlying resource, rearm the notification countdown": a resource that *)
(* is observed has a countdown.  It has none after a round that a failed   *)
(* send ended, or that read the uninitialized flag as true.                *)
CountdownRuns ==
  proc = "up" => \A u \in Uris : Observed(u) => armed[u]
=============================================================================
