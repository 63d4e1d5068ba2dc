---------------------------- MODULE ShownProofs ----------------------------
(***************************************************************************)
(* Proofs about what a person is shown: the application's picture of the   *)
(* service (BrokerStore), and the warning and the reminder that a server   *)
(* cannot be reached (Monitor).                                            *)
(*                                                                         *)
(* BrokerStore, for any number of servers, of changes under way and of     *)
(* fetches given up in flight: a server is marked exactly while one change *)
(* holds it, the picture never goes back, and it counts as lost only for a *)
(* reason.                                                                 *)
(*                                                                         *)
(* Monitor, for any durations and any number of faults.                    *)
(* AlertAgreesWithMonitor is inductive.  OutageIsLong is a property of the *)
(* step that makes a reminder active; it needs what HoldsWatched says of a *)
(* pending one: its hold has not run longer than the service has been      *)
(* watching, and the server was silent for Stale before it, unless an      *)
(* answer came that no evaluation has seen yet, or the next one starts the *)
(* hold over.                                                              *)
(***************************************************************************)
EXTENDS BrokerStore, Monitor, TLAPS

Kinds == {"none", "plain", "toggle", "change", "delete", "move"}
Flights == [at : {"idle", "asked", "read"}, rev : Nat]
Refreshes ==
  [gen : Gens, active : BOOLEAN, busy : BOOLEAN, pending : BOOLEAN, discarded : Gens \union {NoGen}]
Requests ==
  [kind : Kinds, on : SUBSET Servers, rest : SUBSET Servers, done : BOOLEAN, rev : Nat]

\* The type of the state.
Shape ==
  /\ revision \in Nat \ {0} /\ rollbacks \in Nat /\ told \in Nat
  /\ fetch \in [Gens -> Flights]
  /\ refresh \in Refreshes
  /\ shown \in Nat /\ required \in Nat /\ failures \in Nat /\ connected \in BOOLEAN
  /\ request \in [Slots -> Requests]

\* A generation is in flight exactly while a fetch is active, and what was
\* read is a snapshot.
InFlight ==
  /\ refresh.busy = refresh.active
  /\ refresh.active <=> fetch[refresh.gen].at # "idle"
  /\ ~refresh.active => refresh.discarded = NoGen
  /\ \A g \in Gens : fetch[g].at = "read" => fetch[g].rev > 0

\* Only a batch has servers left, and it has not asked for those.
Batches ==
  \A i \in Slots :
    /\ request[i].rest # {} => request[i].kind \in {"delete", "move"}
    /\ request[i].on \intersect request[i].rest = {}
    /\ request[i].kind \in {"none", "plain", "toggle"} => request[i].on = {}
    /\ request[i].kind = "none" => request[i] = NoRequest

\* What is asked of the next picture covers every answer already seen.
FloorHolds ==
  /\ told <= Maximum(required, shown)
  /\ connected => shown # 0

\* While the service has not gone back, nothing the application knows is ahead
\* of it, and what the present fetch has read will do unless it is discarded.
UpToDate ==
  rollbacks = 0 =>
    /\ shown <= revision /\ required <= revision
    /\ \A i \in Slots : request[i].rev <= revision
    /\ \A g \in Gens : fetch[g].rev <= revision
    /\ fetch[refresh.gen].at = "read" /\ refresh.discarded # refresh.gen
         => fetch[refresh.gen].rev >= Maximum(required, shown)

IInv == Shape /\ InFlight /\ Batches /\ MarksMatchChanges /\ FloorHolds /\ UpToDate

-----------------------------------------------------------------------------
(* The present fetch *)

\* A value of refresh the application may go on with, given the fetches.
Ready(f, flights) ==
  /\ f \in Refreshes /\ f.busy = f.active
  /\ ~f.active => flights[f.gen].at = "idle" /\ f.discarded = NoGen

\* It takes over no fetch that was read and counts, or at most the present one.
Carried(f, present) ==
  fetch[f.gen].at = "read" /\ f.discarded # f.gen
    => present /\ f.gen = refresh.gen /\ refresh.discarded # refresh.gen

LEMMA RefreshIsReady ==
  ASSUME Shape, InFlight
  PROVE  Ready(refresh, fetch) /\ Carried(refresh, TRUE)
<1>1. fetch[refresh.gen].at \in {"idle", "asked", "read"}
  BY DEF Shape, Refreshes, Flights
<1> QED BY <1>1 DEF Shape, InFlight, Ready, Carried

LEMMA RaisedIsReady ==
  ASSUME Shape, InFlight
  PROVE  Ready(Raised(refresh), fetch) /\ Carried(Raised(refresh), FALSE)
<1>1. CASE ~refresh.active
  BY <1>1, RefreshIsReady DEF Raised, Ready, Carried
<1>2. CASE refresh.active
  <2>1. Raised(refresh) = [refresh EXCEPT !.discarded = refresh.gen, !.pending = TRUE]
    BY <1>2 DEF Raised
  <2> QED BY <1>2, <2>1 DEF Shape, InFlight, Ready, Carried, Refreshes
<1> QED BY <1>1, <1>2

\* A new generation is one that no fetch in flight has.
LEMMA NextIsUnused ==
  ASSUME Unused # {}
  PROVE  NextGen \in Gens /\ fetch[NextGen].at = "idle"
BY DEF NextGen, Unused

LEMMA RequestedIsReady ==
  ASSUME Shape, NEW f, NEW present, Ready(f, fetch), Carried(f, present)
  PROVE  Ready(Requested(f), fetch) /\ Carried(Requested(f), present)
<1>1. CASE f.active
  <2>1. Requested(f) = [f EXCEPT !.pending = TRUE]
    BY <1>1 DEF Requested
  <2> QED BY <1>1, <2>1 DEF Ready, Carried, Refreshes
<1>2. CASE ~f.active
  <2>1. f.gen \in Unused
    BY <1>2 DEF Ready, Refreshes, Unused
  <2>2. NextGen \in Gens /\ fetch[NextGen].at = "idle"
    BY <2>1, NextIsUnused
  <2>3. Requested(f) = [f EXCEPT !.gen = NextGen, !.active = TRUE, !.busy = TRUE]
    BY <1>2 DEF Requested, Started
  <2> QED BY <1>2, <2>2, <2>3 DEF Ready, Carried, Refreshes
<1> QED BY <1>1, <1>2

LEMMA InvalidatedIsReady ==
  ASSUME Shape, Unused # {}
  PROVE  Ready(Invalidated(refresh), fetch) /\ Carried(Invalidated(refresh), FALSE)
<1>1. NextGen \in Gens /\ fetch[NextGen].at = "idle"
  BY NextIsUnused
<1> QED BY <1>1 DEF Shape, Invalidated, Ready, Carried, Refreshes

\* What Fetching makes of the fetches in flight.
LEMMA FetchingStarts ==
  ASSUME NEW f, NEW flights \in [Gens -> Flights], Ready(f, flights),
         \A g \in Gens : flights[g].at = "read" => flights[g].rev > 0,
         Fetching(f, flights)
  PROVE  /\ refresh' = f /\ refresh' \in Refreshes /\ fetch' \in [Gens -> Flights] /\ InFlight'
         /\ \A g \in Gens : /\ fetch'[g].rev = flights[g].rev
                            /\ fetch'[g].at = "read" => flights[g].at = "read"
<1>1. f.gen \in Gens /\ flights[f.gen] \in Flights
  BY DEF Ready, Refreshes
<1>2. CASE f.busy /\ flights[f.gen].at = "idle"
  <2>1. fetch' = [flights EXCEPT ![f.gen] = [flights[f.gen] EXCEPT !.at = "asked"]]
    BY <1>2 DEF Fetching
  <2>2. [flights[f.gen] EXCEPT !.at = "asked"] \in Flights
    BY <1>1 DEF Flights
  <2>3. /\ [flights[f.gen] EXCEPT !.at = "asked"].at = "asked"
        /\ [flights[f.gen] EXCEPT !.at = "asked"].rev = flights[f.gen].rev
    BY <1>1 DEF Flights
  <2>4. fetch' \in [Gens -> Flights]
    BY <2>1, <2>2
  <2> QED BY <1>1, <1>2, <2>1, <2>3, <2>4 DEF Ready, Fetching, InFlight
<1>3. CASE ~(f.busy /\ flights[f.gen].at = "idle")
  <2>1. fetch' = flights
    BY <1>3 DEF Fetching
  <2> QED BY <1>3, <2>1 DEF Ready, Fetching, InFlight
<1> QED BY <1>2, <1>3

-----------------------------------------------------------------------------
(* Changes and marks *)

\* Held, for a request that may not be recorded yet.
HeldBy(r) ==
  IF r.kind \in {"change", "move"} THEN r.on
  ELSE IF r.kind = "delete" THEN r.on \union r.rest ELSE {}
LEMMA HeldIsHeldBy == \A i : Held(i) = HeldBy(request[i])
BY DEF Held, HeldBy

Others(i) == UNION {Held(j) : j \in Slots \ {i}}

\* A request that has been answered, or not been sent: what it asked for is
\* no longer marked, and a deletion still holds what it has left.
Open(i, r, marks) ==
  /\ r \in Requests /\ r.on = {} /\ r.kind # "none"
  /\ r.rest # {} => r.kind \in {"delete", "move"}
  /\ marks = Others(i) \union HeldBy(r)
  /\ Others(i) \intersect HeldBy(r) = {}

\* One request is replaced by another that holds what no other does.
LEMMA ReplacedKeepsMarks ==
  ASSUME Shape, Batches, MarksMatchChanges, NEW i \in Slots, NEW r \in Requests,
         r.rest # {} => r.kind \in {"delete", "move"},
         r.on \intersect r.rest = {},
         r.kind \in {"none", "plain", "toggle"} => r.on = {},
         r.kind = "none" => r = NoRequest,
         request' = [request EXCEPT ![i] = r],
         marked' = Others(i) \union HeldBy(r),
         Others(i) \intersect HeldBy(r) = {}
  PROVE  request' \in [Slots -> Requests] /\ Batches' /\ MarksMatchChanges'
<1>1. request' \in [Slots -> Requests] /\ Batches'
  BY DEF Shape, Batches
<1>2. request'[i] = r /\ \A j \in Slots \ {i} : request'[j] = request[j]
  BY DEF Shape
<1>3. Held(i)' = HeldBy(r) /\ \A j \in Slots \ {i} : Held(j)' = Held(j)
  BY <1>2 DEF Held, HeldBy
<1>4. marked' = UNION {Held(j)' : j \in Slots}
  BY <1>3 DEF Others
<1>5. \A j \in Slots \ {i} : Held(j) \subseteq Others(i)
  BY DEF Others
<1>6. \A j, k \in Slots : j # k => Held(j)' \intersect Held(k)' = {}
  BY <1>3, <1>5 DEF MarksMatchChanges
<1> QED BY <1>1, <1>4, <1>6 DEF MarksMatchChanges

LEMMA MarkedIsHeld ==
  ASSUME MarksMatchChanges, NEW i \in Slots
  PROVE  /\ marked = Others(i) \union HeldBy(request[i])
         /\ Others(i) \intersect HeldBy(request[i]) = {}
<1>1. marked = Others(i) \union Held(i) /\ Others(i) \intersect Held(i) = {}
  BY DEF MarksMatchChanges, Others
<1> QED BY <1>1, HeldIsHeldBy

\* The answer to a request gives back exactly what that request asked for.
LEMMA LiftedIsOpen ==
  ASSUME Shape, Batches, MarksMatchChanges, NEW i \in Slots, request[i].kind # "none",
         NEW good \in BOOLEAN
  PROVE  Open(i, [[request[i] EXCEPT !.done = @ \/ good, !.rev = 0] EXCEPT !.on = {}],
              Lifted(request[i]))
<1> DEFINE r == [[request[i] EXCEPT !.done = @ \/ good, !.rev = 0] EXCEPT !.on = {}]
<1>1. request[i] \in Requests
  BY DEF Shape
<1>2. r \in Requests
  BY <1>1 DEF Requests
<1>3. r.on = {} /\ r.kind = request[i].kind /\ r.rest = request[i].rest
  BY <1>1 DEF Requests
<1> HIDE DEF r
<1>4. Lifted(request[i]) = Others(i) \union HeldBy(r)
  <2>1. CASE request[i].kind \in {"change", "delete", "move"}
    BY <1>3, <2>1, MarkedIsHeld DEF Lifted, HeldBy, Batches
  <2>2. CASE request[i].kind \notin {"change", "delete", "move"}
    BY <1>3, <2>2, MarkedIsHeld DEF Lifted, HeldBy
  <2> QED BY <2>1, <2>2
<1>5. HeldBy(r) \subseteq HeldBy(request[i])
  BY <1>3 DEF HeldBy
<1>6. Open(i, r, Lifted(request[i]))
  BY <1>2, <1>3, <1>4, <1>5, MarkedIsHeld DEF Open, Batches
<1> QED BY <1>6 DEF r

\* A request goes on with the next server, or ends: either way it holds what
\* it marks, and the reload it may ask for is a fetch of the present.
LEMMA GoneOnKeeps ==
  ASSUME Shape, InFlight, Batches, MarksMatchChanges, NEW i \in Slots, NEW r, NEW marks,
         Open(i, r, marks), NEW f, NEW present,
         Ready(f, fetch), Carried(f, present), GoneOn(i, r, marks, f)
  PROVE  /\ request' \in [Slots -> Requests] /\ Batches' /\ MarksMatchChanges'
         /\ \A j \in Slots : request'[j].rev \in {0, r.rev, request[j].rev}
         /\ \E g : Ready(g, fetch) /\ Carried(g, present) /\ Fetching(g, fetch)
<1>1. CASE Ended(i, r, marks, f)
  <2>1. NoRequest \in Requests /\ HeldBy(NoRequest) = {} /\ NoRequest.rev = 0
    BY DEF NoRequest, Requests, Kinds, HeldBy
  <2>2. marked' = Others(i)
    BY <1>1 DEF Ended, Open, HeldBy
  <2>3. request' = [request EXCEPT ![i] = NoRequest]
    BY <1>1 DEF Ended
  <2>4. request' \in [Slots -> Requests] /\ Batches' /\ MarksMatchChanges'
    BY <2>1, <2>2, <2>3, ReplacedKeepsMarks DEF NoRequest
  <2>5. \A j \in Slots : request'[j].rev \in {0, r.rev, request[j].rev}
    BY <2>1, <2>3 DEF Shape
  <2> QED BY <1>1, <2>4, <2>5, RequestedIsReady DEF Ended
<1>2. ASSUME NEW turn \in Turns(r, marks), r.rest # {}, turn.on # {},
             request' = [request EXCEPT ![i] = [r EXCEPT !.on = turn.on, !.rest = turn.rest]],
             marked' = marks \union turn.on, Fetching(f, fetch)
      PROVE  /\ request' \in [Slots -> Requests] /\ Batches' /\ MarksMatchChanges'
             /\ \A j \in Slots : request'[j].rev \in {0, r.rev, request[j].rev}
             /\ \E g : Ready(g, fetch) /\ Carried(g, present) /\ Fetching(g, fetch)
  <2> DEFINE n == [r EXCEPT !.on = turn.on, !.rest = turn.rest]
  <2>1. r.kind \in {"delete", "move"} /\ r \in Requests
    BY <1>2 DEF Open
  <2>2. PICK x \in r.rest :
          /\ turn.on = {x} /\ turn.rest \subseteq r.rest \ {x}
          /\ r.kind = "delete" => turn.rest = r.rest \ {x}
          /\ r.kind # "delete" => x \notin marks
    BY <1>2 DEF Turns
  <2>3. turn.on \in SUBSET Servers /\ turn.rest \in SUBSET Servers
    BY <2>1, <2>2 DEF Requests
  <2>4. n \in Requests
    BY <2>1, <2>3 DEF Requests
  <2>5. n.on = {x} /\ n.rest = turn.rest /\ n.kind = r.kind /\ n.rev = r.rev
    BY <2>1, <2>2 DEF Requests
  <2> HIDE DEF n
  <2>6. marked' = Others(i) \union HeldBy(n) /\ Others(i) \intersect HeldBy(n) = {}
    <3>1. CASE r.kind = "delete"
      <4>1. HeldBy(n) = r.rest /\ HeldBy(r) = r.rest
        BY <2>2, <2>5, <3>1 DEF HeldBy, Open
      <4> QED BY <1>2, <2>2, <4>1 DEF Open
    <3>2. CASE r.kind = "move"
      <4>1. HeldBy(n) = {x} /\ HeldBy(r) = {}
        BY <2>2, <2>5, <3>2 DEF HeldBy, Open
      <4> QED BY <1>2, <2>2, <3>2, <4>1 DEF Open
    <3> QED BY <2>1, <3>1, <3>2
  <2>7. n.rest # {} => n.kind \in {"delete", "move"}
    BY <2>1, <2>5
  <2>8. n.on \intersect n.rest = {} /\ n.kind \notin {"none", "plain", "toggle"}
    BY <2>1, <2>2, <2>5
  <2>9. request' = [request EXCEPT ![i] = n]
    BY <1>2 DEF n
  <2>10. request' \in [Slots -> Requests] /\ Batches' /\ MarksMatchChanges'
    BY <2>4, <2>6, <2>7, <2>8, <2>9, ReplacedKeepsMarks
  <2>11. \A j \in Slots : request'[j].rev \in {0, r.rev, request[j].rev}
    BY <2>5, <2>9 DEF Shape
  <2> QED BY <1>2, <2>10, <2>11
<1> QED BY <1>1, <1>2 DEF GoneOn

-----------------------------------------------------------------------------
(* Each step keeps the invariant *)

LEMMA IInvInit == StoreAssumption /\ Init => IInv
<1> SUFFICES ASSUME StoreAssumption, Init PROVE IInv
  OBVIOUS
<1> DEFINE first == CHOOSE g \in Gens : TRUE
           asked == [Idle EXCEPT !.at = "asked"]
<1>1. first \in Gens
  BY DEF StoreAssumption
<1>2. asked \in Flights /\ asked.at = "asked" /\ asked.rev = 0
      /\ Idle \in Flights /\ Idle.at = "idle" /\ Idle.rev = 0
  BY DEF Idle, Flights
<1>3. refresh = [gen |-> first, active |-> TRUE, busy |-> TRUE, pending |-> FALSE, discarded |-> NoGen]
      /\ fetch = [g \in Gens |-> IF g = first THEN asked ELSE Idle]
  BY DEF Init
<1> HIDE DEF first, asked
<1>4. NoRequest \in Requests /\ NoRequest.rev = 0
  BY DEF NoRequest, Requests, Kinds
<1>5. Shape
  <2>1. refresh \in Refreshes
    BY <1>1, <1>3 DEF Refreshes
  <2>2. fetch \in [Gens -> Flights]
    BY <1>2, <1>3
  <2>3. request \in [Slots -> Requests]
    BY <1>4 DEF Init
  <2>4. connected \in BOOLEAN
    BY DEF Init
  <2>5. /\ revision \in Nat \ {0} /\ rollbacks \in Nat /\ told \in Nat
        /\ shown \in Nat /\ required \in Nat /\ failures \in Nat
    BY DEF Init
  <2> QED BY <2>1, <2>2, <2>3, <2>4, <2>5 DEF Shape
<1>6. InFlight
  BY <1>1, <1>2, <1>3 DEF InFlight
<1>7. Batches
  BY DEF Init, Batches, NoRequest
<1>8. MarksMatchChanges
  <2>1. \A i \in Slots : Held(i) = {}
    BY HeldIsHeldBy DEF Init, NoRequest, HeldBy
  <2>2. marked = {}
    BY DEF Init
  <2>3. UNION {Held(i) : i \in Slots} = {}
    BY <2>1
  <2> QED BY <2>1, <2>2, <2>3 DEF MarksMatchChanges
<1>9. FloorHolds
  BY DEF Init, FloorHolds, Maximum
<1>10. UpToDate
  <2>1. /\ \A g \in Gens : fetch[g].rev = 0
        /\ fetch[refresh.gen].at = "asked"
        /\ \A i \in Slots : request[i].rev = 0
    BY <1>1, <1>2, <1>3, <1>4 DEF Init
  <2> QED BY <2>1 DEF Init, UpToDate
<1> QED BY <1>5, <1>6, <1>7, <1>8, <1>9, <1>10 DEF IInv

\* A step that touches neither requests nor marks keeps what is said of them.
LEMMA RequestsKept ==
  ASSUME Shape, Batches, MarksMatchChanges, UNCHANGED <<request, marked>>
  PROVE  request' \in [Slots -> Requests] /\ Batches' /\ MarksMatchChanges'
BY DEF Shape, Batches, MarksMatchChanges, Held

LEMMA SwitchIInv == ASSUME IInv, Switch PROVE IInv'
<1> DEFINE f == Requested(Invalidated(refresh))
<1>1. Ready(f, fetch) /\ Carried(f, FALSE)
  BY InvalidatedIsReady, RequestedIsReady DEF IInv, Switch
<1>2. Fetching(f, fetch) /\ UNCHANGED <<service, picture, request, marked>>
  BY DEF Switch
<1> HIDE DEF f
<1>3. /\ refresh' = f /\ refresh' \in Refreshes /\ fetch' \in [Gens -> Flights] /\ InFlight'
      /\ \A g \in Gens : /\ fetch'[g].rev = fetch[g].rev
                         /\ fetch'[g].at = "read" => fetch[g].at = "read"
  BY <1>1, <1>2, FetchingStarts DEF IInv, Shape, InFlight
<1>4. request' \in [Slots -> Requests] /\ Batches' /\ MarksMatchChanges'
  BY <1>2, RequestsKept DEF IInv
<1>5. Shape'
  BY <1>2, <1>3, <1>4 DEF IInv, Shape, service, picture
<1>6. FloorHolds'
  BY <1>2 DEF IInv, FloorHolds, service, picture
<1>7. UpToDate'
  BY <1>1, <1>2, <1>3 DEF IInv, UpToDate, service, picture, Carried, Refreshes
<1> QED BY <1>3, <1>4, <1>5, <1>6, <1>7 DEF IInv

LEMMA ReloadIInv == ASSUME IInv, Reload PROVE IInv'
<1> DEFINE f == Requested(refresh)
<1>1. Ready(f, fetch) /\ Carried(f, TRUE)
  BY RefreshIsReady, RequestedIsReady DEF IInv
<1>2. Fetching(f, fetch) /\ UNCHANGED <<service, picture, request, marked>>
  BY DEF Reload
<1> HIDE DEF f
<1>3. /\ refresh' = f /\ refresh' \in Refreshes /\ fetch' \in [Gens -> Flights] /\ InFlight'
      /\ \A g \in Gens : /\ fetch'[g].rev = fetch[g].rev
                         /\ fetch'[g].at = "read" => fetch[g].at = "read"
  BY <1>1, <1>2, FetchingStarts DEF IInv, Shape, InFlight
<1>4. request' \in [Slots -> Requests] /\ Batches' /\ MarksMatchChanges'
  BY <1>2, RequestsKept DEF IInv
<1>5. Shape'
  BY <1>2, <1>3, <1>4 DEF IInv, Shape, service, picture
<1>6. FloorHolds'
  BY <1>2 DEF IInv, FloorHolds, service, picture
<1>7. UpToDate'
  BY <1>1, <1>2, <1>3 DEF IInv, UpToDate, service, picture, Carried, Refreshes
<1> QED BY <1>3, <1>4, <1>5, <1>6, <1>7 DEF IInv

LEMMA ServeIInv == ASSUME IInv, NEW g \in Gens, Serve(g) PROVE IInv'
<1>1. /\ fetch' = [fetch EXCEPT ![g] = [at |-> "read", rev |-> revision]]
      /\ UNCHANGED <<service, refresh, picture, request, marked>>
      /\ fetch[g].at = "asked"
  BY DEF Serve, Snapshot
<1>2. [at |-> "read", rev |-> revision] \in Flights
  BY DEF IInv, Shape, Flights
<1>3. fetch' \in [Gens -> Flights] /\ refresh.gen \in Gens
  BY <1>1, <1>2 DEF IInv, Shape, Refreshes
<1>4. request' \in [Slots -> Requests] /\ Batches' /\ MarksMatchChanges'
  BY <1>1, RequestsKept DEF IInv
<1>5. Shape'
  BY <1>1, <1>3, <1>4 DEF IInv, Shape, service, picture
<1>6. fetch'[g].at = "read" /\ fetch'[g].rev = revision
      /\ \A k \in Gens \ {g} : fetch'[k] = fetch[k]
  BY <1>1 DEF IInv, Shape
<1>7. InFlight'
  BY <1>1, <1>3, <1>6 DEF IInv, Shape, InFlight
<1>8. FloorHolds'
  BY <1>1 DEF IInv, FloorHolds, service, picture
<1>9. UpToDate'
  <2> SUFFICES ASSUME rollbacks = 0
               PROVE  /\ \A k \in Gens : fetch'[k].rev <= revision
                      /\ fetch'[refresh.gen].at = "read" /\ refresh.discarded # refresh.gen
                           => fetch'[refresh.gen].rev >= Maximum(required, shown)
    BY <1>1 DEF IInv, UpToDate, service, picture
  <2>1. shown <= revision /\ required <= revision
    BY DEF IInv, UpToDate
  <2> QED BY <1>3, <1>6, <2>1 DEF IInv, Shape, UpToDate, Maximum
<1> QED BY <1>4, <1>5, <1>7, <1>8, <1>9 DEF IInv

\* What becomes of the picture when the present fetch is over.
Pictured(g, good) ==
  IF refresh.discarded = g THEN UNCHANGED picture
  ELSE IF ~good THEN Missed
  ELSE IF NewEnough(fetch[g].rev) THEN Published(fetch[g].rev)
  ELSE Behind

\* A snapshot that is shown is as new as any answer, and no newer than the
\* service; a failure or an old snapshot leaves the picture as it is.
LEMMA PicturedKeeps ==
  ASSUME IInv, NEW g \in Gens, NEW good \in BOOLEAN, good => fetch[g].at = "read",
         Pictured(g, good), UNCHANGED service
  PROVE  /\ shown' \in Nat /\ required' \in Nat /\ failures' \in Nat /\ connected' \in BOOLEAN
         /\ FloorHolds'
         /\ rollbacks = 0 => shown' <= revision /\ required' <= revision
<1>1. /\ fetch[g].rev \in Nat /\ shown \in Nat /\ required \in Nat /\ failures \in Nat
      /\ told \in Nat /\ connected \in BOOLEAN /\ told' = told
  BY DEF IInv, Shape, Flights, service
<1>2. rollbacks = 0 => fetch[g].rev <= revision /\ shown <= revision /\ required <= revision
  BY DEF IInv, UpToDate
<1>3. CASE UNCHANGED picture
  BY <1>1, <1>2, <1>3 DEF picture, IInv, FloorHolds
<1>4. CASE Missed
  <2>1. /\ failures' \in Nat /\ shown' = shown /\ required' = required
        /\ connected' = connected \/ connected' = FALSE
    BY <1>1, <1>4 DEF Missed
  <2>2. FloorHolds'
    BY <1>1, <2>1 DEF IInv, FloorHolds
  <2> QED BY <1>1, <1>2, <2>1, <2>2
<1>5. CASE Behind
  BY <1>1, <1>2, <1>5 DEF Behind, IInv, FloorHolds
<1>6. CASE good /\ NewEnough(fetch[g].rev) /\ Published(fetch[g].rev)
  <2>1. fetch[g].rev > 0
    BY <1>6 DEF IInv, InFlight
  <2>2. /\ fetch[g].rev >= Maximum(required, shown) /\ fetch[g].rev >= required
        /\ told <= fetch[g].rev
    BY <1>1, <1>6 DEF NewEnough, Maximum, IInv, FloorHolds
  <2>3. shown' = fetch[g].rev /\ required' = 0 /\ failures' = 0 /\ connected' = TRUE
    BY <1>6, <2>2 DEF Published
  <2>4. FloorHolds'
    BY <1>1, <2>1, <2>2, <2>3 DEF FloorHolds, Maximum
  <2> QED BY <1>1, <1>2, <2>3, <2>4 DEF IInv, Shape
<1> QED BY <1>3, <1>4, <1>5, <1>6 DEF Pictured

LEMMA CompleteIInv ==
  ASSUME IInv, NEW g \in Gens, NEW good \in BOOLEAN, Complete(g, good)
  PROVE  IInv'
<1> DEFINE over == [fetch EXCEPT ![g] = Idle]
<1>1. Idle \in Flights /\ Idle.at = "idle" /\ Idle.rev = 0
  BY DEF Idle, Flights
<1>2. /\ over \in [Gens -> Flights] /\ over[g] = Idle
      /\ \A k \in Gens \ {g} : over[k] = fetch[k]
  BY <1>1 DEF IInv, Shape
<1>3. request' \in [Slots -> Requests] /\ Batches' /\ MarksMatchChanges'
  BY RequestsKept DEF IInv, Complete
<1>4. UNCHANGED <<service, request>> /\ fetch[g].at # "idle" /\ (good => fetch[g].at = "read")
  BY DEF Complete
<1>5. CASE g # refresh.gen
  <2>1. fetch' = over /\ UNCHANGED <<refresh, picture>>
    BY <1>5 DEF Complete
  <2>2. Shape'
    BY <1>2, <1>3, <1>4, <2>1 DEF IInv, Shape, service, picture
  <2>3. InFlight'
    BY <1>1, <1>2, <1>5, <2>1 DEF IInv, Shape, InFlight, Refreshes
  <2>4. FloorHolds'
    BY <1>4, <2>1 DEF IInv, FloorHolds, service, picture
  <2>5. UpToDate'
    <3>1. fetch'[refresh.gen] = fetch[refresh.gen]
      BY <1>2, <1>5, <2>1 DEF IInv, Shape, Refreshes
    <3>2. \A k \in Gens : fetch'[k].rev = 0 \/ fetch'[k].rev = fetch[k].rev
      BY <1>1, <1>2, <2>1
    <3> HIDE DEF over
    <3> QED BY <1>4, <2>1, <3>1, <3>2 DEF IInv, Shape, UpToDate, service, picture
  <2> QED BY <1>3, <2>2, <2>3, <2>4, <2>5 DEF IInv
<1>6. CASE g = refresh.gen
  <2> DEFINE f == Completed(refresh)
  <2>1. Fetching(f, over) /\ Pictured(g, good)
    BY <1>6 DEF Complete, Pictured
  <2>2. /\ f \in Refreshes /\ f.gen = g /\ f.busy = f.active
        /\ f.discarded = NoGen
    BY <1>6 DEF Completed, Started, IInv, Shape, Refreshes
  <2>3. Ready(f, over)
    BY <1>1, <1>2, <2>2 DEF Ready
  <2> HIDE DEF f, over
  <2>4. \A k \in Gens : over[k].at = "read" => over[k].rev > 0 /\ k # g
    BY <1>1, <1>2 DEF IInv, InFlight
  <2>5. /\ refresh' = f /\ refresh' \in Refreshes /\ fetch' \in [Gens -> Flights] /\ InFlight'
        /\ \A k \in Gens : /\ fetch'[k].rev = over[k].rev
                           /\ fetch'[k].at = "read" => over[k].at = "read"
    BY <1>2, <2>1, <2>3, <2>4, FetchingStarts
  <2>6. /\ shown' \in Nat /\ required' \in Nat /\ failures' \in Nat /\ connected' \in BOOLEAN
        /\ FloorHolds'
        /\ rollbacks = 0 => shown' <= revision /\ required' <= revision
    BY <1>4, <2>1, PicturedKeeps
  <2>7. Shape'
    BY <1>3, <1>4, <2>5, <2>6 DEF IInv, Shape, service
  <2>8. UpToDate'
    <3>1. refresh'.gen = g /\ ~(fetch'[g].at = "read")
      BY <2>2, <2>4, <2>5
    <3>2. \A k \in Gens : fetch'[k].rev = 0 \/ fetch'[k].rev = fetch[k].rev
      BY <1>1, <1>2, <2>5
    <3> QED BY <1>4, <2>6, <3>1, <3>2 DEF IInv, Shape, UpToDate, service
  <2> QED BY <1>3, <2>5, <2>6, <2>7, <2>8 DEF IInv
<1> QED BY <1>5, <1>6

LEMMA NoRequestIsRequest ==
  /\ NoRequest \in Requests
  /\ NoRequest.on = {} /\ NoRequest.rest = {} /\ NoRequest.rev = 0
BY DEF NoRequest, Requests, Kinds

\* A change is recorded or goes on, and perhaps a fetch of the present starts.
LEMMA ChangeIInv ==
  ASSUME IInv, UNCHANGED <<service, picture>>,
         request' \in [Slots -> Requests], Batches', MarksMatchChanges',
         \A j \in Slots : request'[j].rev \in {0, request[j].rev},
         NEW f, Ready(f, fetch), Carried(f, TRUE), Fetching(f, fetch)
  PROVE  IInv'
<1>1. /\ refresh' = f /\ refresh' \in Refreshes /\ fetch' \in [Gens -> Flights] /\ InFlight'
      /\ \A g \in Gens : /\ fetch'[g].rev = fetch[g].rev
                         /\ fetch'[g].at = "read" => fetch[g].at = "read"
  BY FetchingStarts DEF IInv, Shape, InFlight
<1>2. Shape'
  BY <1>1 DEF IInv, Shape, service, picture
<1>3. FloorHolds'
  BY DEF IInv, FloorHolds, service, picture
<1>4. UpToDate'
  <2>1. \A j \in Slots : request'[j].rev = 0 \/ request'[j].rev = request[j].rev
    OBVIOUS
  <2>2. f.gen \in Gens
    BY <1>1 DEF Refreshes
  <2> QED BY <1>1, <2>1, <2>2 DEF IInv, Shape, UpToDate, service, picture, Carried
<1> QED BY <1>1, <1>2, <1>3, <1>4 DEF IInv

\* A request that takes an empty slot.
LEMMA SentKeeps ==
  ASSUME IInv, NEW i \in Slots, request[i] = NoRequest, NEW r \in Requests,
         r.rest = {}, r.kind \in {"plain", "toggle", "change"}, r.rev = 0,
         r.kind # "change" => r.on = {}, r.on \intersect marked = {},
         request' = [request EXCEPT ![i] = r],
         marked' = marked \union r.on,
         UNCHANGED <<service, fetch, refresh, picture>>
  PROVE  IInv'
<1>1. HeldBy(NoRequest) = {}
  BY DEF NoRequest, HeldBy
<1>2. marked = Others(i)
  BY <1>1, MarkedIsHeld DEF IInv
<1>3. HeldBy(r) = r.on
  BY DEF HeldBy
<1>4. request' \in [Slots -> Requests] /\ Batches' /\ MarksMatchChanges'
  BY <1>2, <1>3, ReplacedKeepsMarks DEF IInv
<1>5. \A j \in Slots : request'[j].rev \in {0, request[j].rev}
  BY DEF IInv, Shape
<1>6. Shape' /\ InFlight' /\ FloorHolds'
  BY <1>4 DEF IInv, Shape, InFlight, FloorHolds, service, picture
<1>7. UpToDate'
  <2>1. \A j \in Slots : request'[j].rev = 0 \/ request'[j].rev = request[j].rev
    BY <1>5
  <2> QED BY <2>1 DEF IInv, Shape, UpToDate, service, picture
<1> QED BY <1>4, <1>6, <1>7 DEF IInv

LEMMA SingleIInv == ASSUME IInv, NEW i \in Slots, Single(i) PROVE IInv'
<1>1. ASSUME NEW kind \in {"plain", "toggle"}, Send(i, kind, {}), UNCHANGED marked
      PROVE  IInv'
  <2> DEFINE r == [NoRequest EXCEPT !.kind = kind, !.on = {}]
  <2>1. r \in Requests
    BY <1>1, NoRequestIsRequest DEF Requests, Kinds
  <2>2. r.kind = kind /\ r.on = {} /\ r.rest = {} /\ r.rev = 0
    BY NoRequestIsRequest DEF Requests
  <2>3. /\ request[i] = NoRequest /\ request' = [request EXCEPT ![i] = r]
        /\ UNCHANGED <<service, fetch, refresh, picture>>
    BY <1>1 DEF Send
  <2> HIDE DEF r
  <2>4. marked' = marked \union r.on /\ r.on \intersect marked = {}
    BY <1>1, <2>2
  <2> QED BY <1>1, <2>1, <2>2, <2>3, <2>4, SentKeeps
<1>2. ASSUME NEW x \in Servers, SendMarked(i, x) PROVE IInv'
  <2> DEFINE r == [NoRequest EXCEPT !.kind = "change", !.on = {x}]
  <2>1. r \in Requests
    BY NoRequestIsRequest DEF Requests, Kinds
  <2>2. r.kind = "change" /\ r.on = {x} /\ r.rest = {} /\ r.rev = 0
    BY NoRequestIsRequest DEF Requests
  <2>3. /\ request[i] = NoRequest /\ request' = [request EXCEPT ![i] = r]
        /\ UNCHANGED <<service, fetch, refresh, picture>>
    BY <1>2 DEF SendMarked, Send
  <2> HIDE DEF r
  <2>4. marked' = marked \union r.on /\ r.on \intersect marked = {}
    BY <1>2, <2>2 DEF SendMarked
  <2> QED BY <2>1, <2>2, <2>3, <2>4, SentKeeps
<1> QED BY <1>1, <1>2
  DEF Single, SubmitClaim, AddEndpoint, ChangeGroup, UpdateCollectorInterval, ReleaseLease,
      SetConnection, UpdateEndpoint, SetEndpointKeepalive, ClearEmptyConflictedLease, ReassignLease

LEMMA BatchIInv == ASSUME IInv, NEW i \in Slots, Batch(i) PROVE IInv'
<1>1. ASSUME NEW kind \in {"delete", "move"}, NEW targets \in SUBSET Servers, NEW marks,
             request[i] = NoRequest, UNCHANGED <<service, picture>>,
             kind = "delete" => targets \intersect marked = {} /\ marks = marked \union targets,
             kind = "move" => marks = marked,
             GoneOn(i, [NoRequest EXCEPT !.kind = kind, !.rest = targets], marks, refresh)
      PROVE  IInv'
  <2> DEFINE r == [NoRequest EXCEPT !.kind = kind, !.rest = targets]
  <2>1. r \in Requests
    BY <1>1, NoRequestIsRequest DEF Requests, Kinds
  <2>2. r.kind = kind /\ r.on = {} /\ r.rest = targets /\ r.rev = 0
    BY NoRequestIsRequest DEF Requests
  <2>3. HeldBy(NoRequest) = {} /\ NoRequest.rev = 0
    BY DEF NoRequest, HeldBy
  <2>4. marked = Others(i)
    BY <1>1, <2>3, MarkedIsHeld DEF IInv
  <2>5. GoneOn(i, r, marks, refresh)
    BY <1>1
  <2> HIDE DEF r
  <2>6. HeldBy(r) = IF kind = "delete" THEN targets ELSE {}
    BY <1>1, <2>2 DEF HeldBy
  <2>7. Open(i, r, marks)
    BY <1>1, <2>1, <2>2, <2>4, <2>6 DEF Open
  <2>8. Ready(refresh, fetch) /\ Carried(refresh, TRUE)
    BY RefreshIsReady DEF IInv
  <2>9. /\ request' \in [Slots -> Requests] /\ Batches' /\ MarksMatchChanges'
        /\ \A j \in Slots : request'[j].rev \in {0, r.rev, request[j].rev}
        /\ \E g : Ready(g, fetch) /\ Carried(g, TRUE) /\ Fetching(g, fetch)
    BY <2>5, <2>7, <2>8, GoneOnKeeps DEF IInv
  <2>10. \A j \in Slots : request'[j].rev \in {0, request[j].rev}
    BY <2>2, <2>9
  <2> QED BY <1>1, <2>9, <2>10, ChangeIInv
<1> QED BY <1>1 DEF Batch, DeleteEndpoints, MoveServers

LEMMA ApplyIInv == ASSUME IInv, NEW i \in Slots, Apply(i) PROVE IInv'
<1> DEFINE r == [request[i] EXCEPT !.rev = revision']
<1>1. /\ request[i] \in Requests /\ revision' \in Nat \ {0} /\ revision' = revision + 1
      /\ request' = [request EXCEPT ![i] = r] /\ request[i].kind # "none"
  BY DEF Apply, IInv, Shape
<1>2. /\ r \in Requests /\ r.kind = request[i].kind /\ r.on = request[i].on
      /\ r.rest = request[i].rest /\ r.rev = revision'
  BY <1>1 DEF Requests
<1> HIDE DEF r
<1>3. HeldBy(r) = HeldBy(request[i])
  BY <1>2 DEF HeldBy
<1>4. marked' = Others(i) \union HeldBy(r) /\ Others(i) \intersect HeldBy(r) = {}
  BY <1>3, MarkedIsHeld DEF IInv, Apply
<1>5. request' \in [Slots -> Requests] /\ Batches' /\ MarksMatchChanges'
  BY <1>1, <1>2, <1>4, ReplacedKeepsMarks DEF IInv, Batches
<1>6. UNCHANGED <<rollbacks, told, fetch, refresh, picture>>
  BY DEF Apply
<1>7. Shape' /\ InFlight' /\ FloorHolds'
  BY <1>1, <1>5, <1>6 DEF IInv, Shape, InFlight, FloorHolds, picture
<1>8. UpToDate'
  <2>1. \A j \in Slots : request'[j].rev = revision' \/ request'[j].rev = request[j].rev
    BY <1>1, <1>2 DEF IInv, Shape
  <2>2. \A j \in Slots : request[j].rev \in Nat
    BY DEF IInv, Shape, Requests
  <2>3. \A g \in Gens : fetch[g].rev \in Nat
    BY DEF IInv, Shape, Flights
  <2> QED BY <1>1, <1>6, <2>1, <2>2, <2>3 DEF IInv, Shape, UpToDate, picture
<1> QED BY <1>5, <1>7, <1>8 DEF IInv

\* An answer raises what is asked of the next picture, and what is being
\* fetched then no longer counts.
LEMMA AnswerIInv ==
  ASSUME IInv, NEW i \in Slots, NEW good \in BOOLEAN, NEW named \in BOOLEAN, Answer(i, good, named)
  PROVE  IInv'
<1> DEFINE r == [[request[i] EXCEPT !.done = @ \/ good, !.rev = 0] EXCEPT !.on = {}]
           f == IF named THEN Raised(refresh) ELSE refresh
           rev == request[i].rev
<1>1. /\ request[i].kind # "none"
      /\ required' = IF named THEN Maximum(required, rev) ELSE required
      /\ told' = IF named THEN Maximum(told, rev) ELSE told
      /\ UNCHANGED <<revision, rollbacks, shown, connected, failures>>
      /\ GoneOn(i, r, Lifted(request[i]), f)
  BY DEF Answer
<1>2. request[i] \in Requests /\ rev \in Nat
  BY DEF IInv, Shape, Requests
<1>3. r.rev = 0
  BY <1>2 DEF Requests
<1>4. Open(i, r, Lifted(request[i]))
  BY <1>1, LiftedIsOpen DEF IInv
<1>5. Ready(f, fetch) /\ Carried(f, ~named)
  BY RefreshIsReady, RaisedIsReady DEF IInv, Carried
<1> HIDE DEF r, f
<1>6. /\ request' \in [Slots -> Requests] /\ Batches' /\ MarksMatchChanges'
      /\ \A j \in Slots : request'[j].rev \in {0, r.rev, request[j].rev}
      /\ \E g : Ready(g, fetch) /\ Carried(g, ~named) /\ Fetching(g, fetch)
  BY <1>1, <1>4, <1>5, GoneOnKeeps DEF IInv
<1>7. PICK g : Ready(g, fetch) /\ Carried(g, ~named) /\ Fetching(g, fetch)
  BY <1>6
<1>8. /\ refresh' = g /\ refresh' \in Refreshes /\ fetch' \in [Gens -> Flights] /\ InFlight'
      /\ \A k \in Gens : /\ fetch'[k].rev = fetch[k].rev
                         /\ fetch'[k].at = "read" => fetch[k].at = "read"
  BY <1>7, FetchingStarts DEF IInv, Shape, InFlight
<1>9. required' \in Nat /\ told' \in Nat
  BY <1>1, <1>2 DEF IInv, Shape, Maximum
<1>10. Shape'
  BY <1>1, <1>6, <1>8, <1>9 DEF IInv, Shape
<1>11. FloorHolds'
  <2>1. told' <= Maximum(required', shown')
    BY <1>1, <1>2 DEF IInv, Shape, FloorHolds, Maximum
  <2>2. connected' => shown' # 0
    BY <1>1 DEF IInv, FloorHolds
  <2> QED BY <2>1, <2>2 DEF FloorHolds
<1>12. UpToDate'
  <2> SUFFICES ASSUME rollbacks = 0
               PROVE  /\ shown <= revision /\ required' <= revision
                      /\ \A j \in Slots : request'[j].rev <= revision
                      /\ \A k \in Gens : fetch'[k].rev <= revision
                      /\ fetch'[g.gen].at = "read" /\ g.discarded # g.gen
                           => fetch'[g.gen].rev >= Maximum(required', shown)
    BY <1>1, <1>8 DEF UpToDate
  <2>1. shown <= revision /\ required' <= revision
    BY <1>1, <1>2 DEF IInv, Shape, UpToDate, Maximum
  <2>2. \A j \in Slots : request'[j].rev <= revision
    <3>1. \A j \in Slots : request'[j].rev = 0 \/ request'[j].rev = request[j].rev
      BY <1>3, <1>6
    <3> QED BY <3>1 DEF IInv, Shape, UpToDate
  <2>3. \A k \in Gens : fetch'[k].rev <= revision
    BY <1>8 DEF IInv, UpToDate
  <2>4. ASSUME fetch'[g.gen].at = "read", g.discarded # g.gen
        PROVE  fetch'[g.gen].rev >= Maximum(required', shown)
    <3>1. g.gen \in Gens
      BY <1>8 DEF Refreshes
    <3>2. /\ ~named /\ g.gen = refresh.gen /\ refresh.discarded # refresh.gen
          /\ fetch[g.gen].at = "read"
      BY <1>7, <1>8, <2>4, <3>1 DEF Carried
    <3> QED BY <1>1, <1>8, <3>1, <3>2 DEF IInv, UpToDate
  <2> QED BY <2>1, <2>2, <2>3, <2>4
<1> QED BY <1>6, <1>8, <1>10, <1>11, <1>12 DEF IInv

LEMMA ServiceIInv == ASSUME StoreAssumption, IInv, Observe \/ Rollback PROVE IInv'
<1>1. UNCHANGED <<told, fetch, refresh, picture, request, marked>>
  BY DEF Observe, Rollback
<1>2. request' \in [Slots -> Requests] /\ Batches' /\ MarksMatchChanges'
  BY <1>1, RequestsKept DEF IInv
<1>3. revision' \in Nat \ {0} /\ rollbacks' \in Nat
  BY DEF Observe, Rollback, IInv, Shape
<1>4. Shape' /\ InFlight' /\ FloorHolds'
  BY <1>1, <1>2, <1>3 DEF IInv, Shape, InFlight, FloorHolds, picture
<1>5. rollbacks' = 0 => rollbacks = 0 /\ revision' = revision + 1
  BY DEF Observe, Rollback, IInv, Shape
<1>6. UpToDate'
  <2>1. \A j \in Slots : request[j].rev \in Nat
    BY DEF IInv, Shape, Requests
  <2>2. \A g \in Gens : fetch[g].rev \in Nat
    BY DEF IInv, Shape, Flights
  <2> QED BY <1>1, <1>5, <2>1, <2>2 DEF IInv, Shape, UpToDate, picture
<1> QED BY <1>2, <1>4, <1>6 DEF IInv

LEMMA IInvStep == StoreAssumption /\ IInv /\ [Next]_vars => IInv'
<1> SUFFICES ASSUME StoreAssumption, IInv, [Next]_vars PROVE IInv'
  OBVIOUS
<1>1. CASE Refreshing
  BY <1>1, SwitchIInv, ReloadIInv, ServeIInv, CompleteIInv DEF Refreshing
<1>2. CASE Changing
  BY <1>2, SingleIInv, BatchIInv, ApplyIInv, AnswerIInv DEF Changing
<1>3. CASE Observe \/ Rollback
  BY <1>3, ServiceIInv
<1>4. CASE UNCHANGED vars
  <2>1. UNCHANGED <<service, picture, fetch, refresh, request, marked>>
    BY <1>4 DEF vars, service, picture
  <2>2. Shape' /\ InFlight' /\ FloorHolds' /\ UpToDate'
    BY <2>1 DEF IInv, Shape, InFlight, FloorHolds, UpToDate, service, picture
  <2>3. Batches' /\ MarksMatchChanges'
    BY <2>1, RequestsKept DEF IInv
  <2> QED BY <2>2, <2>3 DEF IInv
<1> QED BY <1>1, <1>2, <1>3, <1>4 DEF Next

\* The app's refresh, its marks and the revisions it knows fit together,
\* whatever order answers to fetches and changes come in.
THEOREM Invariance == Spec => []IInv
<1>1. Init => IInv
  BY StoreAssumption, IInvInit
<1>2. IInv /\ [Next]_vars => IInv'
  BY StoreAssumption, IInvStep
<1> QED BY <1>1, <1>2, PTL DEF Spec

-----------------------------------------------------------------------------
(* What follows *)

\* Only the end of the present fetch changes the picture.
LEMMA PictureSteps ==
  ASSUME IInv, [Next]_vars, ~(UNCHANGED <<shown, connected, failures>>)
  PROVE  \E g \in Gens, good \in BOOLEAN :
           /\ g = refresh.gen /\ (good => fetch[g].at = "read")
           /\ Pictured(g, good) /\ refresh.discarded # g /\ UNCHANGED service
<1>1. ASSUME NEW g \in Gens, NEW good \in BOOLEAN, Complete(g, good)
      PROVE  /\ g = refresh.gen /\ (good => fetch[g].at = "read")
             /\ Pictured(g, good) /\ refresh.discarded # g /\ UNCHANGED service
  BY <1>1 DEF Complete, Pictured, picture
<1>2. CASE Refreshing
  BY <1>1, <1>2 DEF Refreshing, Switch, Reload, Serve, Snapshot, picture
<1>3. CASE Changing
  <2>1. ASSUME NEW i \in Slots, Single(i) PROVE FALSE
    BY <2>1 DEF Single, SubmitClaim, AddEndpoint, ChangeGroup, UpdateCollectorInterval,
       ReleaseLease, SetConnection, UpdateEndpoint, SetEndpointKeepalive,
       ClearEmptyConflictedLease, ReassignLease, SendMarked, Send, picture
  <2>2. ASSUME NEW i \in Slots, Batch(i) PROVE FALSE
    BY <2>2 DEF Batch, DeleteEndpoints, MoveServers, picture
  <2>3. ASSUME NEW i \in Slots, NEW good, NEW named, Apply(i) \/ Answer(i, good, named) PROVE FALSE
    BY <2>3 DEF Apply, Answer, picture
  <2> QED BY <1>3, <2>1, <2>2, <2>3 DEF Changing
<1>4. CASE Observe \/ Rollback
  BY <1>4 DEF Observe, Rollback, picture
<1>5. CASE UNCHANGED vars
  BY <1>5 DEF vars
<1> QED BY <1>2, <1>3, <1>4, <1>5 DEF Next

\* A server or lease is marked exactly as long as one change holds it, and no
\* two changes hold the same: whatever a batch passes over, is refused half
\* way or gives up because the picture is no longer current.
THEOREM MarksMatchChangesHolds == Spec => []MarksMatchChanges
<1>1. IInv => MarksMatchChanges
  BY DEF IInv
<1> QED BY <1>1, Invariance, PTL

\* What a person sees never goes back, nor behind an answer already seen, also
\* when fetches come out of order and the service lost its latest state.
THEOREM ShownIsNotOlderHolds == Spec => ShownIsNotOlder
<1>1. IInv /\ [Next]_vars => [shown' # shown => shown' >= Maximum(shown, told)]_vars
  <2> SUFFICES ASSUME IInv, [Next]_vars, shown' # shown
               PROVE  shown' >= Maximum(shown, told)
    OBVIOUS
  <2>1. PICK g \in Gens, good \in BOOLEAN : Pictured(g, good) /\ refresh.discarded # g
    BY PictureSteps
  <2>2. NewEnough(fetch[g].rev) /\ shown' = fetch[g].rev
    BY <2>1 DEF Pictured, Missed, Behind, Published
  <2>3. /\ fetch[g].rev \in Nat /\ shown \in Nat /\ required \in Nat /\ told \in Nat
        /\ told <= Maximum(required, shown)
    BY DEF IInv, Shape, Flights, FloorHolds
  <2> QED BY <2>2, <2>3 DEF NewEnough, Maximum
<1> QED BY <1>1, Invariance, PTL DEF Spec, ShownIsNotOlder

\* The picture counts as lost only after two failures on end or when the
\* service itself went back: a change that overtakes a fetch discards what was
\* read, so the fetch never looks like a service that lost its state.
THEOREM OutageIsRealHolds == Spec => OutageIsReal
<1>1. IInv /\ [Next]_vars =>
        [connected /\ ~connected' => failures' >= FailuresBeforeStale \/ rollbacks > 0]_vars
  <2> SUFFICES ASSUME IInv, [Next]_vars, connected, ~connected', rollbacks = 0
               PROVE  failures' >= FailuresBeforeStale
    BY DEF IInv, Shape
  <2>1. PICK g \in Gens, good \in BOOLEAN :
          /\ g = refresh.gen /\ (good => fetch[g].at = "read")
          /\ Pictured(g, good) /\ refresh.discarded # g
    BY PictureSteps
  <2>2. CASE good
    <3>1. fetch[g].rev >= Maximum(required, shown)
      BY <2>1, <2>2 DEF IInv, UpToDate
    <3> QED BY <2>1, <2>2, <3>1 DEF Pictured, NewEnough, Published
  <2>3. CASE ~good
    <3>1. Missed /\ shown # 0
      BY <2>1, <2>3 DEF Pictured, IInv, FloorHolds
    <3>2. ~(failures' < FailuresBeforeStale)
      <4>1. CASE failures' < FailuresBeforeStale
        BY <3>1, <4>1, Zenon DEF Missed
      <4> QED BY <4>1
    <3>3. failures' \in Nat
      <4>1. failures \in Nat
        BY DEF IInv, Shape
      <4> QED BY <3>1, <4>1 DEF Missed, FailuresBeforeStale
    <3> QED BY <3>2, <3>3 DEF FailuresBeforeStale
  <2> QED BY <2>2, <2>3
<1> QED BY <1>1, Invariance, PTL DEF Spec, OutageIsReal

-----------------------------------------------------------------------------
(* What is known of one server *)

Reminders == [state : {"none", "pending", "active", "acked"}, since : Nat, streak : Nat, notified : Int]

Watched ==
  /\ known \in BOOLEAN /\ failed \in BOOLEAN /\ unreachable \in BOOLEAN
  /\ success \in Nat /\ evaluated \in Nat /\ resumed \in Nat
  /\ lastTold \in Int
  /\ reminder \in Reminders

HoldsWatched ==
  reminder.state = "pending" =>
    /\ reminder.since <= resumed /\ reminder.since <= Hold
    /\ \/ Stale + reminder.since < success
       \/ success <= evaluated
       \/ Stale < evaluated

MonitorInv == Watched /\ AlertAgreesWithMonitor /\ HoldsWatched

\* The durations are positive.
LEMMA Durations ==
  /\ Stale \in Nat /\ Hold \in Nat /\ Repeat \in Nat /\ Recovery \in Nat
  /\ Stale > 0 /\ Hold > 0 /\ LongAgo = Stale + Hold + 1 /\ NotEvaluated = Stale + 1
BY MonitorAssumption DEF MonitorAssumption, LongAgo, NotEvaluated

\* Marking a reminder as told changes neither its state nor its hold.
LEMMA MarkedReminder ==
  ASSUME NEW m \in Reminders
  PROVE  /\ [m EXCEPT !.notified = 0] \in Reminders
         /\ [m EXCEPT !.notified = 0].state = m.state
         /\ [m EXCEPT !.notified = 0].since = m.since
BY DEF Reminders

\* What a look at a reminder whose condition holds makes of it.
LEMMA PresentStep ==
  ASSUME Watched, NEW resuming \in BOOLEAN
  PROVE  /\ Present(resuming) \in Reminders
         /\ Present(resuming).state = "pending" =>
              /\ Present(resuming).since = 0 \/ (~resuming /\ Present(resuming).since = reminder.since
                                                 /\ reminder.state = "pending")
         /\ (Present(resuming).state = "active" /\ reminder.state # "active") =>
              ~resuming /\ reminder.state = "pending" /\ reminder.since >= Hold
<1> DEFINE fresh == [NoReminder EXCEPT !.state = "pending"]
           held == [reminder EXCEPT !.since = Since(resuming),
                                    !.state = IF Since(resuming) >= Hold THEN "active" ELSE "pending"]
           still == [reminder EXCEPT !.streak = 0]
           Marked(m) == IF m.state = "active" /\ m.notified = NotTold /\ ~Rested(lastTold)
                        THEN [m EXCEPT !.notified = 0] ELSE m
<1>0. ASSUME NEW m \in Reminders
      PROVE  Marked(m) \in Reminders /\ Marked(m).state = m.state /\ Marked(m).since = m.since
  BY <1>0, MarkedReminder
<1>1. CASE reminder.state = "none"
  <2>1. Present(resuming) = Marked(fresh)
    BY <1>1 DEF Present
  <2>2. fresh \in Reminders /\ fresh.state = "pending" /\ fresh.since = 0
    BY DEF Reminders, NoReminder, NotTold
  <2> HIDE DEF fresh, Marked
  <2> QED BY <1>0, <1>1, <2>1, <2>2
<1>2. CASE reminder.state = "pending"
  <2>1. Present(resuming) = Marked(held)
    BY <1>2 DEF Present
  <2>2. held \in Reminders
    BY DEF Watched, Reminders, Since
  <2>3. held.since = Since(resuming) /\ (held.state = "active" <=> Since(resuming) >= Hold)
    BY DEF Watched, Reminders
  <2>4. /\ Marked(held) \in Reminders
        /\ Marked(held).since = held.since /\ Marked(held).state = held.state
    <3> HIDE DEF held, Marked
    <3> QED BY <1>0, <2>2
  <2> QED BY <1>2, <2>1, <2>3, <2>4, Durations DEF Since
<1>3. CASE reminder.state \in {"active", "acked"}
  <2>1. Present(resuming) = Marked(still)
    BY <1>3 DEF Present
  <2>2. still \in Reminders /\ still.state = reminder.state
    BY DEF Watched, Reminders
  <2>3. Marked(still) \in Reminders /\ Marked(still).state = still.state
    <3> HIDE DEF still, Marked
    <3> QED BY <1>0, <2>2
  <2> QED BY <1>3, <2>1, <2>2, <2>3
<1> QED BY <1>1, <1>2, <1>3 DEF Watched, Reminders

\* One evaluation, with the silence as it is after the step it is part of: an
\* answer may just have ended it.
LEMMA EvaluatedStep ==
  ASSUME Watched, HoldsWatched, NEW silence \in Nat, silence = success \/ silence = 0, Evaluated(silence)
  PROVE  /\ evaluated' \in Nat /\ resumed' \in Nat /\ lastTold' \in Int /\ reminder' \in Reminders
         /\ reminder'.state = "pending" =>
              /\ reminder'.since <= resumed' /\ reminder'.since <= Hold
              /\ \/ Stale + reminder'.since < silence
                 \/ silence <= evaluated'
                 \/ Stale < evaluated'
         /\ (reminder.state # "active" /\ reminder'.state = "active") =>
              silence > Stale + Hold /\ resumed' >= Hold
<1> DEFINE resuming == evaluated > Stale
<1>1. CASE evaluated < Every
  BY <1>1, Durations DEF Evaluated, alerts, Watched, HoldsWatched
<1>2. CASE ~(evaluated < Every) /\ Offline(silence)
  <2>1. /\ evaluated' = 0 /\ resumed' = IF resuming THEN 0 ELSE resumed
        /\ reminder' = Present(resuming) /\ lastTold' = lastTold
    BY <1>2 DEF Evaluated
  <2>2. silence > Stale /\ silence = success
    BY <1>2, Durations DEF Offline
  <2>3. resuming \in BOOLEAN
    OBVIOUS
  <2>4. ASSUME ~resuming, reminder.state = "pending"
        PROVE  Stale + reminder.since < silence /\ reminder.since <= resumed /\ reminder.since <= Hold
               /\ reminder.since \in Nat
    BY <2>2, <2>4, Durations DEF HoldsWatched, Watched, Reminders
  <2>5. ASSUME reminder'.state = "pending"
        PROVE  reminder'.since <= resumed' /\ reminder'.since <= Hold /\ Stale + reminder'.since < silence
    <3>1. CASE reminder'.since = 0
      BY <2>1, <2>2, <3>1, Durations DEF Watched
    <3>2. CASE ~resuming /\ reminder'.since = reminder.since /\ reminder.state = "pending"
      BY <2>1, <2>4, <3>2
    <3> QED BY <2>1, <2>3, <2>5, <3>1, <3>2, PresentStep
  <2>6. ASSUME reminder.state # "active", reminder'.state = "active"
        PROVE  silence > Stale + Hold /\ resumed' >= Hold
    <3>1. ~resuming /\ reminder.state = "pending" /\ reminder.since >= Hold
      BY <2>1, <2>3, <2>6, PresentStep
    <3> QED BY <2>1, <2>4, <3>1, Durations DEF Watched
  <2>7. reminder' \in Reminders
    BY <2>1, <2>3, PresentStep
  <2> QED BY <2>1, <2>5, <2>6, <2>7 DEF Watched
<1>3. CASE ~(evaluated < Every) /\ ~Offline(silence) /\ Gone
  <2>1. reminder' = NoReminder /\ NoReminder \in Reminders /\ NoReminder.state = "none"
    BY <1>3 DEF Evaluated, Closed, NoReminder, Reminders, NotTold
  <2>2. lastTold' \in Int
    BY <1>3 DEF Evaluated, Closed, Watched, Reminders
  <2>3. evaluated' = 0 /\ resumed' \in Nat
    BY <1>3 DEF Evaluated, Watched
  <2> QED BY <2>1, <2>2, <2>3
<1>4. CASE ~(evaluated < Every) /\ ~Offline(silence) /\ ~Gone
  <2>1. /\ evaluated' = 0 /\ lastTold' = lastTold /\ resumed' = IF resuming THEN 0 ELSE resumed
        /\ reminder' = IF reminder.state = "none" THEN reminder ELSE [reminder EXCEPT !.streak = @ + 1]
    BY <1>4 DEF Evaluated
  <2>2. reminder' \in Reminders /\ reminder'.state = reminder.state /\ reminder.state # "pending"
    BY <1>4, <2>1 DEF Gone, Watched, Reminders
  <2> QED BY <2>1, <2>2 DEF Watched
<1> QED BY <1>1, <1>2, <1>3, <1>4

-----------------------------------------------------------------------------
(* What is known of the server: the invariant *)

LEMMA MonitorInitInv == MonitorInit => MonitorInv
<1>1. NoReminder \in Reminders /\ NoReminder.state = "none"
  BY DEF NoReminder, Reminders, NotTold
<1> SUFFICES ASSUME MonitorInit PROVE MonitorInv
  OBVIOUS
<1>2. Watched
  <2>1. success \in Nat /\ evaluated \in Nat /\ resumed \in Nat /\ lastTold \in Int
    BY Durations DEF MonitorInit
  <2> QED BY <1>1, <2>1 DEF MonitorInit, Watched
<1>3. AlertAgreesWithMonitor
  BY DEF MonitorInit, AlertAgreesWithMonitor
<1>4. HoldsWatched
  BY <1>1 DEF MonitorInit, HoldsWatched
<1> QED BY <1>2, <1>3, <1>4 DEF MonitorInv

\* What the probe's end and its evaluation leave, put together.
LEMMA IngestMonitorInv == ASSUME MonitorInv, Ingest PROVE MonitorInv'
<1>1. success' \in Nat /\ (success' = success \/ success' = 0) /\ Evaluated(success')
  BY DEF Ingest, MonitorInv, Watched
<1>2. Watched'
  BY <1>1, EvaluatedStep DEF Ingest, MonitorInv, Watched
<1>3. HoldsWatched'
  BY <1>1, EvaluatedStep DEF MonitorInv, HoldsWatched
<1>4. AlertAgreesWithMonitor'
  BY DEF Ingest, MonitorInv, AlertAgreesWithMonitor, Watched
<1> QED BY <1>2, <1>3, <1>4 DEF MonitorInv

LEMMA FailMonitorInv == ASSUME MonitorInv, Fail PROVE MonitorInv'
<1>1. success' = success /\ success \in Nat /\ Evaluated(success)
  BY DEF Fail, MonitorInv, Watched
<1>2. Watched'
  BY <1>1, EvaluatedStep DEF Fail, MonitorInv, Watched
<1>3. HoldsWatched'
  BY <1>1, EvaluatedStep DEF MonitorInv, HoldsWatched
<1>4. AlertAgreesWithMonitor'
  BY DEF Fail, InTrouble, MonitorInv, AlertAgreesWithMonitor, Watched
<1> QED BY <1>2, <1>3, <1>4 DEF MonitorInv

LEMMA OthersMonitorInv == ASSUME MonitorInv, OthersAreRead PROVE MonitorInv'
<1>1. /\ success' = success /\ success \in Nat /\ Evaluated(success)
      /\ known' = known /\ failed' = failed /\ unreachable' = unreachable
  BY DEF OthersAreRead, collecting, connection, MonitorInv, Watched
<1>2. Watched'
  BY <1>1, EvaluatedStep DEF MonitorInv, Watched
<1>3. HoldsWatched'
  BY <1>1, EvaluatedStep DEF MonitorInv, HoldsWatched
<1>4. AlertAgreesWithMonitor'
  BY <1>1 DEF MonitorInv, AlertAgreesWithMonitor
<1> QED BY <1>2, <1>3, <1>4 DEF MonitorInv

LEMMA TickMonitorInv == ASSUME MonitorInv, Tick PROVE MonitorInv'
<1> DEFINE hold == IF reminder.state = "pending" THEN Older(reminder.since, Hold) ELSE reminder.since
           mark == IF reminder.notified = NotTold THEN NotTold ELSE Older(reminder.notified, Repeat)
<1>1. reminder' = [reminder EXCEPT !.since = hold, !.notified = mark]
  BY DEF Tick, MonitorInv, Watched, Reminders
<1>2. hold \in Nat /\ mark \in Int
  BY DEF MonitorInv, Watched, Reminders, Older, NotTold
<1>3. reminder' \in Reminders /\ reminder'.state = reminder.state /\ reminder'.since = hold
  <2> HIDE DEF hold, mark
  <2> QED BY <1>1, <1>2 DEF MonitorInv, Watched, Reminders
<1>4. /\ success' \in Nat /\ success <= success' /\ (success < LongAgo => success' = success + 1)
      /\ evaluated' \in Nat /\ evaluated <= evaluated'
      /\ (evaluated < NotEvaluated => evaluated' = evaluated + 1)
      /\ resumed' \in Nat /\ resumed <= resumed' /\ (resumed < Hold => resumed' = resumed + 1)
      /\ lastTold' \in Int
  BY Durations DEF Tick, Older, MonitorInv, Watched
<1>5. Watched'
  BY <1>3, <1>4 DEF Tick, MonitorInv, Watched
<1>6. AlertAgreesWithMonitor'
  BY <1>4, Durations DEF Tick, MonitorInv, Watched, AlertAgreesWithMonitor
<1>7. HoldsWatched'
  <2>1. SUFFICES ASSUME reminder.state = "pending"
                 PROVE  /\ hold <= resumed' /\ hold <= Hold
                        /\ \/ Stale + hold < success'
                           \/ success' <= evaluated'
                           \/ Stale < evaluated'
    BY <1>3 DEF HoldsWatched
  <2>2. /\ reminder.since \in Nat /\ reminder.since <= resumed /\ reminder.since <= Hold
        /\ \/ Stale + reminder.since < success \/ success <= evaluated \/ Stale < evaluated
    BY <2>1 DEF MonitorInv, Watched, Reminders, HoldsWatched
  <2>3. hold = IF reminder.since < Hold THEN reminder.since + 1 ELSE reminder.since
    BY <2>1 DEF Older
  <2>4. hold <= resumed' /\ hold <= Hold
    BY <1>4, <2>2, <2>3, Durations DEF MonitorInv, Watched
  <2>5. CASE Stale + reminder.since < success
    BY <1>4, <2>2, <2>3, <2>5, Durations DEF MonitorInv, Watched
  <2>6. CASE success <= evaluated \/ Stale < evaluated
    <3>1. success \in Nat /\ evaluated \in Nat
      BY DEF MonitorInv, Watched
    <3>2. CASE evaluated < NotEvaluated
      <4>1. evaluated' = evaluated + 1 /\ evaluated <= Stale /\ success <= evaluated
        BY <1>4, <2>6, <3>1, <3>2, Durations
      <4>2. success < LongAgo
        BY <3>1, <4>1, Durations
      <4> QED BY <1>4, <2>4, <3>1, <4>1, <4>2
    <3>3. CASE evaluated >= NotEvaluated
      BY <1>4, <2>4, <3>1, <3>3, Durations
    <3> QED BY <3>1, <3>2, <3>3, Durations
  <2> QED BY <2>2, <2>4, <2>5, <2>6
<1> QED BY <1>5, <1>6, <1>7 DEF MonitorInv

\* Steps that leave the rules' own memory and the connection as they are.
LEMMA QuietMonitorInv ==
  ASSUME MonitorInv, known' = known, UNCHANGED connection, UNCHANGED <<evaluated, resumed>>,
         lastTold' \in Int, reminder' \in Reminders,
         reminder'.state = "pending" => reminder' = reminder
  PROVE  MonitorInv'
BY DEF connection, MonitorInv, Watched, AlertAgreesWithMonitor, HoldsWatched

LEMMA MonitorStepInv == MonitorInv /\ [MonitorNext]_monitorVars => MonitorInv'
<1>1. SUFFICES ASSUME MonitorInv, [MonitorNext]_monitorVars PROVE MonitorInv'
  OBVIOUS
<1>2. CASE Tick
  BY <1>1, <1>2, TickMonitorInv
<1>3. CASE Ingest
  BY <1>1, <1>3, IngestMonitorInv
<1>4. CASE Fail
  BY <1>1, <1>4, FailMonitorInv
<1>5. CASE OthersAreRead
  BY <1>1, <1>5, OthersMonitorInv
<1>6. CASE StartProbe \/ TaskEnds \/ Supervise
  BY <1>1, <1>6, QuietMonitorInv DEF StartProbe, TaskEnds, Supervise, alerts, MonitorInv, Watched
<1>7. CASE Create
  BY <1>1, <1>7 DEF Create, connection, alerts, MonitorInv, Watched, AlertAgreesWithMonitor, HoldsWatched
<1>8. CASE Delete
  <2>1. success' = LongAgo /\ success' \in Nat
    BY <1>8, Durations DEF Delete
  <2>2. HoldsWatched'
    <3>1. reminder' = reminder /\ evaluated' = evaluated /\ resumed' = resumed
      BY <1>8 DEF Delete, alerts
    <3>2. ASSUME reminder.state = "pending"
          PROVE  Stale + reminder.since < success'
      BY <1>1, <2>1, <3>2, Durations DEF MonitorInv, Watched, Reminders, HoldsWatched
    <3> QED BY <1>1, <3>1, <3>2 DEF MonitorInv, HoldsWatched
  <2> QED BY <1>1, <1>8, <2>1, <2>2 DEF Delete, alerts, MonitorInv, Watched, AlertAgreesWithMonitor
<1>9. CASE Restart
  BY <1>1, <1>9, Durations DEF Restart, connection, MonitorInv, Watched, Reminders, AlertAgreesWithMonitor, HoldsWatched
<1>10. CASE ShowBanner
  BY <1>1, <1>10, QuietMonitorInv DEF ShowBanner, collecting, alerts, MonitorInv, Watched
<1>11. CASE MarkNotified
  <2> DEFINE told1 == [reminder EXCEPT !.notified = IF @ = NotTold THEN 0 ELSE @]
  <2>1. told1 \in Reminders /\ told1.state = reminder.state /\ told1.since = reminder.since
    BY <1>1 DEF MonitorInv, Watched, Reminders, NotTold
  <2>2. reminder' \in {reminder, told1} /\ lastTold' \in {lastTold, 0}
    BY <1>11 DEF MarkNotified
  <2> HIDE DEF told1
  <2>3. Watched'
    BY <1>1, <1>11, <2>1, <2>2 DEF MarkNotified, collecting, connection, MonitorInv, Watched
  <2>4. HoldsWatched'
    BY <1>1, <1>11, <2>1, <2>2 DEF MarkNotified, connection, MonitorInv, HoldsWatched
  <2> QED BY <1>1, <1>11, <2>3, <2>4 DEF MarkNotified, collecting, connection, MonitorInv, AlertAgreesWithMonitor
<1>12. CASE Acknowledge
  <2>1. reminder' \in Reminders /\ reminder'.state = "acked"
    BY <1>1, <1>12 DEF Acknowledge, MonitorInv, Watched, Reminders
  <2> QED BY <1>1, <1>12, <2>1, QuietMonitorInv DEF Acknowledge, collecting, MonitorInv, Watched
<1>13. CASE UNCHANGED monitorVars
  BY <1>1, <1>13, QuietMonitorInv DEF monitorVars, connection, MonitorInv, Watched
<1> QED BY <1>1, <1>2, <1>3, <1>4, <1>5, <1>6, <1>7, <1>8, <1>9, <1>10, <1>11, <1>12, <1>13 DEF MonitorNext

LEMMA MonitorInvariance == MonitorSpec => []MonitorInv
BY MonitorInitInv, MonitorStepInv, PTL DEF MonitorSpec

-----------------------------------------------------------------------------
(* What follows for the warning and the reminder *)

\* The warning that a server cannot be reached and its monitor state agree, for
\* any number of lost tasks, restarts and registrations.
THEOREM AlertIsTrue == MonitorSpec => []AlertAgreesWithMonitor
BY MonitorInvariance, PTL DEF MonitorInv

\* A reminder becomes active after a silence of Stale and a watched hold, and
\* never earlier.
THEOREM ReminderMeansLongOutage == MonitorSpec => OutageIsLong
<1>1. ASSUME MonitorInv, MonitorNext, reminder.state # "active", reminder'.state = "active"
      PROVE  success' > Stale + Hold /\ resumed' >= Hold
  <2>1. CASE Ingest
    <3>1. success' \in Nat /\ (success' = success \/ success' = 0) /\ Evaluated(success')
      BY <1>1, <2>1 DEF Ingest, MonitorInv, Watched
    <3> QED BY <1>1, <3>1, EvaluatedStep DEF MonitorInv
  <2>2. CASE Fail \/ OthersAreRead
    <3>1. success' = success /\ success \in Nat /\ Evaluated(success)
      BY <1>1, <2>2 DEF Fail, OthersAreRead, connection, MonitorInv, Watched
    <3> QED BY <1>1, <3>1, EvaluatedStep DEF MonitorInv
  <2>3. ASSUME Tick \/ MarkNotified \/ Acknowledge PROVE FALSE
    <3>1. reminder \in Reminders
      BY <1>1 DEF MonitorInv, Watched
    <3> QED BY <1>1, <2>3, <3>1 DEF Tick, MarkNotified, Acknowledge, Reminders
  <2>4. ASSUME \/ StartProbe \/ TaskEnds \/ Supervise \/ Create \/ Delete \/ Restart \/ ShowBanner
        PROVE  FALSE
    BY <1>1, <2>4 DEF StartProbe, TaskEnds, Supervise, Create, Delete, Restart, ShowBanner, alerts
  <2> QED BY <1>1, <2>1, <2>2, <2>3, <2>4 DEF MonitorNext
<1>2. MonitorInv /\ [MonitorNext]_monitorVars =>
        [(reminder.state # "active" /\ reminder'.state = "active") =>
           success' > Stale + Hold /\ resumed' >= Hold]_monitorVars
  BY <1>1
<1> QED BY <1>2, MonitorInvariance, PTL DEF MonitorSpec, OutageIsLong
=============================================================================
