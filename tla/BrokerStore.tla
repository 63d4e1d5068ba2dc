---------------------------- MODULE BrokerStore ----------------------------
(***************************************************************************)
(* The desktop application's picture of the service: one state fetch at a  *)
(* time, changes a person asks for meanwhile, and answers to either that   *)
(* come late, fail or never come.                                          *)
(*                                                                         *)
(* A snapshot is its revision.  Revisions are positive; 0 means none.      *)
(* Freshness is fresh exactly while connected, so only the latter is kept. *)
(***************************************************************************)
EXTENDS FiniteSets, Naturals

CONSTANTS
  Servers,     \* endpoints, and leases a person moves to other cards
  Slots,       \* bound: changes under way at once
  Gens,        \* bound: generations told apart, one more than fetches given up in flight
  MaxRevision, \* bound: how far the service's state moves on
  MaxRollbacks \* bound: how often it is started with an older database

ASSUME StoreAssumption ==
  MaxRevision \in Nat \ {0} /\ MaxRollbacks \in Nat /\ Gens # {} /\ 0 \notin Gens

NoGen == 0

VARIABLES
  revision,  \* the service's snapshot_revision
  rollbacks, \* how often it went back
  fetch,     \* for each generation: idle, asked, or the revision it read
  refresh,   \* refreshGeneration, activeRefreshTask, isRefreshing, pendingRefresh, discardedRefreshGeneration
  shown,     \* lastGoodSnapshot
  required,  \* minimumRequiredSnapshotRevision
  connected, \* isConnected
  failures,  \* consecutiveRefreshFailures, as far as it is compared
  request,   \* changes under way
  marked,    \* mutatingEndpointIDs and reassigningLeaseIDs
  told       \* the newest revision an answer named

vars == <<revision, rollbacks, fetch, refresh, shown, required, connected,
          failures, request, marked, told>>
service == <<revision, rollbacks, told>>
picture == <<shown, required, connected, failures>>

Idle == [at |-> "idle", rev |-> 0]
FailuresBeforeStale == 2

\* plain: claims, new servers, groups, the collector's interval, a lease's
\* release.  toggle: a server switched off or on.  change: what marks its
\* server or lease.  delete and move: batches, one server after another.
NoRequest == [kind |-> "none", on |-> {}, rest |-> {}, done |-> FALSE, rev |-> 0]

\* The application has just connected, and asked for the state.
Init ==
  /\ revision = 1 /\ rollbacks = 0 /\ told = 0
  /\ LET first == CHOOSE g \in Gens : TRUE IN
       /\ fetch = [g \in Gens |-> IF g = first THEN [Idle EXCEPT !.at = "asked"] ELSE Idle]
       /\ refresh = [gen |-> first, active |-> TRUE, busy |-> TRUE, pending |-> FALSE, discarded |-> NoGen]
  /\ shown = 0 /\ required = 0 /\ failures = 0
  /\ connected = FALSE
  /\ request = [i \in Slots |-> NoRequest]
  /\ marked = {}

Maximum(a, b) == IF a > b THEN a ELSE b

-----------------------------------------------------------------------------
(* Fetching the state *)

\* refreshGeneration &+= 1: a generation that no fetch in flight has.
Unused == {g \in Gens : fetch[g].at = "idle"}
NextGen == CHOOSE g \in Unused : TRUE

Started(f, gen) == [f EXCEPT !.gen = gen, !.active = TRUE, !.busy = TRUE]

\* requestRefresh
Requested(f) == IF f.active THEN [f EXCEPT !.pending = TRUE] ELSE Started(f, NextGen)

\* A slip: the task is cancelled and still counts as running.
InvalidatedButRunning(f) == [f EXCEPT !.gen = NextGen, !.pending = FALSE, !.discarded = NoGen, !.busy = FALSE]

\* invalidateActiveRefresh
Invalidated(f) ==
  [f EXCEPT !.gen = NextGen, !.pending = FALSE, !.discarded = NoGen, !.active = FALSE, !.busy = FALSE]

\* A slip: what was read before an answer counts after it.
RaisedOnly(f) == [f EXCEPT !.pending = @ \/ f.active]

\* What is being fetched when an answer arrives was perhaps read before it.
Raised(f) == IF f.active THEN [f EXCEPT !.discarded = f.gen, !.pending = TRUE] ELSE f

\* A fetch that the new value of refresh has started is on its way.
Fetching(f, flights) ==
  /\ refresh' = f
  /\ fetch' = IF f.busy /\ flights[f.gen].at = "idle" THEN [flights EXCEPT ![f.gen].at = "asked"] ELSE flights

\* connect, or another actor: what is in flight is given up, and a new fetch
\* is started.
Switch ==
  /\ Unused # {}
  /\ Fetching(Requested(Invalidated(refresh)), fetch)
  /\ UNCHANGED <<service, picture, request, marked>>

\* The periodic loop when a fetch is due, a reload by hand, a window that
\* comes back.
Reload ==
  /\ Fetching(Requested(refresh), fetch)
  /\ UNCHANGED <<service, picture, request, marked>>

\* snapshot: everything the service knows, read in one transaction and named
\* by the revision it was read at.
Snapshot == [at |-> "read", rev |-> revision]

\* control_plane_state: a fetch is answered with the state of some moment.
Serve(g) ==
  /\ fetch[g].at = "asked"
  /\ fetch' = [fetch EXCEPT ![g] = Snapshot]
  /\ UNCHANGED <<service, refresh, picture, request, marked>>

\* A slip: any answer is as good as the last.
AnyIsNewEnough(rev) == rev > 0

\* snapshotRevisionFloorError
NewEnough(rev) == rev >= Maximum(required, shown)

Published(rev) ==
  /\ shown' = rev /\ connected' = TRUE /\ failures' = 0
  /\ required' = IF rev >= required THEN 0 ELSE required

Behind ==
  /\ connected' = FALSE
  /\ UNCHANGED <<shown, failures, required>>

\* One slow answer is not an outage.
Missed ==
  /\ failures' = IF failures < FailuresBeforeStale THEN failures + 1 ELSE failures
  /\ IF shown # 0 /\ failures' < FailuresBeforeStale THEN UNCHANGED connected
     ELSE connected' = FALSE
  /\ UNCHANGED <<shown, required>>

\* completeRefresh starts what was asked for meanwhile, or comes to rest.
Completed(f) ==
  LET rest == [f EXCEPT !.active = FALSE, !.discarded = NoGen, !.pending = FALSE, !.busy = FALSE]
  IN IF f.pending THEN Started(rest, f.gen) ELSE rest

\* A fetch ends, with what was read or with an error; a timeout, a refused
\* or an unreadable answer are errors.  One of an older generation is over.
Complete(g, good) ==
  /\ fetch[g].at # "idle"
  /\ good => fetch[g].at = "read"
  /\ IF g # refresh.gen
     THEN /\ fetch' = [fetch EXCEPT ![g] = Idle]
          /\ UNCHANGED <<refresh, picture>>
     ELSE /\ Fetching(Completed(refresh), [fetch EXCEPT ![g] = Idle])
          /\ IF refresh.discarded = g THEN UNCHANGED picture
             ELSE IF ~good THEN Missed
             ELSE IF NewEnough(fetch[g].rev) THEN Published(fetch[g].rev)
             ELSE Behind
  /\ UNCHANGED <<service, request, marked>>

-----------------------------------------------------------------------------
(* Changes *)

\* A change is sent only on top of a current picture.
AllowsMutations == connected

\* A slip: the first answer of a batch lifts the marks of all of it.
LiftedAtOnce(r) == IF r.kind \in {"change", "delete", "move"} THEN marked \ (r.on \union r.rest) ELSE marked

\* The mark of a server is lifted when its own request is answered.
Lifted(r) == IF r.kind \in {"change", "delete", "move"} THEN marked \ r.on ELSE marked

\* What succeeded, also in part, is followed by a reload; a move and a switch
\* in any case.
Reloads(r) == r.done \/ r.kind \in {"move", "toggle"}

\* A batch goes on with a server it has not asked for: a deletion holds them
\* all from the start, a move passes over those that others hold by then.
Turns(r, marks) ==
  IF r.kind = "delete" THEN {[on |-> {x}, rest |-> r.rest \ {x}] : x \in r.rest}
  ELSE IF r.rest \subseteq marks THEN {[on |-> {}, rest |-> {}]}
  ELSE {[on |-> {x}, rest |-> (r.rest \ {x}) \ passed] : x \in r.rest \ marks, passed \in SUBSET (r.rest \intersect marks)}

\* It ends, when nothing is left or the picture is no longer current.
Ended(i, r, marks, f) ==
  /\ request' = [request EXCEPT ![i] = NoRequest]
  /\ marked' = IF r.kind = "delete" THEN marks \ r.rest ELSE marks
  /\ Fetching(IF Reloads(r) THEN Requested(f) ELSE f, fetch)

GoneOn(i, r, marks, f) ==
  IF r.rest = {} \/ ~AllowsMutations THEN Ended(i, r, marks, f)
  ELSE \E turn \in Turns(r, marks) :
         IF turn.on = {} THEN Ended(i, r, marks, f)
         ELSE /\ request' = [request EXCEPT ![i] = [r EXCEPT !.on = turn.on, !.rest = turn.rest]]
              /\ marked' = marks \union turn.on
              /\ Fetching(f, fetch)

\* performMutationWithPayload: one request is sent.
Send(i, kind, targets) ==
  /\ request[i] = NoRequest
  /\ AllowsMutations
  /\ request' = [request EXCEPT ![i] = [NoRequest EXCEPT !.kind = kind, !.on = targets]]
  /\ UNCHANGED <<service, fetch, refresh, picture>>

SubmitClaim(i) == Send(i, "plain", {}) /\ UNCHANGED marked
AddEndpoint(i) == Send(i, "plain", {}) /\ UNCHANGED marked
ChangeGroup(i) == Send(i, "plain", {}) /\ UNCHANGED marked
UpdateCollectorInterval(i) == Send(i, "plain", {}) /\ UNCHANGED marked
ReleaseLease(i) == Send(i, "plain", {}) /\ UNCHANGED marked
SetConnection(i) == Send(i, "toggle", {}) /\ UNCHANGED marked

\* What is marked meanwhile, so that it is not asked for twice.
SendMarked(i, x) == x \notin marked /\ Send(i, "change", {x}) /\ marked' = marked \union {x}
UpdateEndpoint(i, x) == SendMarked(i, x)
SetEndpointKeepalive(i, x) == SendMarked(i, x)
ClearEmptyConflictedLease(i, x) == SendMarked(i, x)
ReassignLease(i, x) == SendMarked(i, x)

\* The batches: the first request is sent.
DeleteEndpoints(i, targets) ==
  /\ request[i] = NoRequest /\ AllowsMutations
  /\ targets # {} /\ targets \intersect marked = {}
  /\ GoneOn(i, [NoRequest EXCEPT !.kind = "delete", !.rest = targets], marked \union targets, refresh)
  /\ UNCHANGED <<service, picture>>

MoveServers(i, targets) ==
  /\ request[i] = NoRequest /\ AllowsMutations
  /\ targets # {}
  /\ GoneOn(i, [NoRequest EXCEPT !.kind = "move", !.rest = targets], marked, refresh)
  /\ UNCHANGED <<service, picture>>

\* The service makes the change that was asked for last, in one transaction
\* that moves the revision on (_write, _bump_revision).
Apply(i) ==
  /\ request[i].kind # "none" /\ request[i].rev = 0
  /\ revision < MaxRevision
  /\ revision' = revision + 1
  /\ request' = [request EXCEPT ![i].rev = revision']
  /\ UNCHANGED <<rollbacks, told, fetch, refresh, picture, marked>>

\* Its answer names the revision or none.  Without an answer, or with a
\* refusal, the change has failed as far as the application knows.
Answer(i, good, named) ==
  LET r == [request[i] EXCEPT !.done = @ \/ good, !.rev = 0]
      rev == request[i].rev
  IN /\ request[i].kind # "none"
     /\ good => rev > 0
     /\ named => good
     /\ required' = IF named THEN Maximum(required, rev) ELSE required
     /\ told' = IF named THEN Maximum(told, rev) ELSE told
     /\ GoneOn(i, [r EXCEPT !.on = {}], Lifted(request[i]), IF named THEN Raised(refresh) ELSE refresh)
     /\ UNCHANGED <<revision, rollbacks, shown, connected, failures>>

-----------------------------------------------------------------------------
\* The service's state moves on by itself, too.
Observe ==
  /\ revision < MaxRevision
  /\ revision' = revision + 1
  /\ UNCHANGED <<rollbacks, told, fetch, refresh, picture, request, marked>>

\* It is started again with a backup (restore_to): that takes longer than any
\* answer is waited for.
Rollback ==
  /\ \A i \in Slots : request[i] = NoRequest
  /\ \A g \in Gens : fetch[g].at = "idle"
  /\ rollbacks < MaxRollbacks
  /\ rollbacks' = rollbacks + 1
  /\ revision' \in 1 .. revision - 1
  /\ UNCHANGED <<told, fetch, refresh, picture, request, marked>>

Refreshing == Switch \/ Reload \/ \E g \in Gens : Serve(g) \/ \E good \in BOOLEAN : Complete(g, good)
Single(i) ==
  \/ SubmitClaim(i) \/ AddEndpoint(i) \/ ChangeGroup(i) \/ UpdateCollectorInterval(i)
  \/ ReleaseLease(i) \/ SetConnection(i)
  \/ \E x \in Servers :
       UpdateEndpoint(i, x) \/ SetEndpointKeepalive(i, x) \/ ClearEmptyConflictedLease(i, x) \/ ReassignLease(i, x)
Batch(i) == \E targets \in SUBSET Servers : DeleteEndpoints(i, targets) \/ MoveServers(i, targets)
Changing ==
  \E i \in Slots : Single(i) \/ Batch(i) \/ Apply(i) \/ \E good, named \in BOOLEAN : Answer(i, good, named)

Next == Refreshing \/ Changing \/ Observe \/ Rollback

Spec == Init /\ [][Next]_vars

\* The periodic loop asks again and again, and of the fetches of the present
\* generation one is answered now and then, and comes through.
Served == \E g \in Gens : g = refresh.gen /\ Serve(g)
Arrived == \E g \in Gens : g = refresh.gen /\ Complete(g, TRUE)
FairSpec == Spec /\ WF_vars(Reload /\ ~refresh.active) /\ SF_vars(Served) /\ SF_vars(Arrived)

-----------------------------------------------------------------------------
(* What should hold *)

\* A server is marked exactly as long as one change, and only one, holds it:
\* through batches that pass it over, are refused half way or fail in part.
Held(i) ==
  CASE request[i].kind \in {"change", "move"} -> request[i].on
    [] request[i].kind = "delete" -> request[i].on \union request[i].rest
    [] OTHER -> {}
MarksMatchChanges ==
  /\ marked = UNION {Held(i) : i \in Slots}
  /\ \A i, j \in Slots : i # j => Held(i) \intersect Held(j) = {}

\* What a person sees never goes back, nor behind an answer already seen:
\* whatever was read before, and after the service lost its latest state.
ShownIsNotOlder == [][shown' # shown => shown' >= Maximum(shown, told)]_vars

\* The picture counts as lost only after two failures on end, or when the
\* service itself went back: never because a change overtook a fetch.
OutageIsReal == [][connected /\ ~connected' => failures' >= FailuresBeforeStale \/ rollbacks > 0]_vars

\* In the end the picture is the service's state again, unless the service
\* is behind what was seen of it.
CatchesUp == []<>(shown = revision \/ revision < Maximum(required, shown))
=============================================================================
