----------------------------- MODULE Inventory -----------------------------
(***************************************************************************)
(* Which server a physical card belongs to.  Readings of servers are under *)
(* way for a while and come in late or out of order; two registrations may *)
(* report the same card; servers are created and deleted meanwhile.        *)
(*                                                                         *)
(* There is one physical card: the rules never relate two.  A place is a   *)
(* node of a server, and row[p] is the card's row there.  Moments are kept *)
(* as ages, as far as they are compared.                                   *)
(***************************************************************************)
EXTENDS FiniteSets, Naturals

CONSTANTS
  Servers,
  NodesOf,     \* for each server the nodes a reading of it reports
  Clusters,    \* the servers read through a plugin
  Views,       \* what each place can be found with: "card", "none", "unknown", "failed"
  Stale,       \* stale_after_seconds
  MaxProbe,    \* bound of a probe's own deadline: how old a reading gets
  MaxReadings  \* bound: readings of each server under way at once

ASSUME InventoryAssumption == Stale \in Nat /\ MaxProbe \in Nat /\ Clusters \subseteq Servers

VARIABLES
  known,   \* Endpoint rows
  reading, \* for each server what probes under way will report, and since when
  row,     \* GPUDevice of the card: Absent (or none), or how long ago it was seen
  host,    \* EndpointTelemetryCurrent.observed_at: its age, as far as a reading can be older
  monitor, \* ProviderState of a server that is no cluster
  keepers  \* where a keepalive lease is live

vars == <<known, reading, row, host, monitor, keepers>>

Places == UNION {{s} \X NodesOf[s] : s \in Servers}
PlacesOf(s) == {s} \X NodesOf[s]

OldRow == MaxProbe + Stale + 1 \* staler than any reading can ask for
OldHost == MaxProbe + 1        \* no reading is older
Absent == OldRow + 1
Present == {p \in Places : row[p] # Absent}

NeverRead == [age |-> Stale + 1, failed |-> FALSE]

Init ==
  /\ known = {}
  /\ reading = [s \in Servers |-> {}]
  /\ row = [p \in Places |-> Absent]
  /\ host = [p \in Places |-> OldHost]
  /\ monitor = [s \in Servers \ Clusters |-> NeverRead]
  /\ keepers = {}

\* create_endpoint: the id is free.
Create(s) ==
  /\ s \notin known
  /\ known' = known \union {s}
  /\ UNCHANGED <<reading, row, host, monitor, keepers>>

\* A raw ssh probe finds the card in the driver's list or not (parse_gpu_csv),
\* cannot ask the driver ("unknown"), or gives no answer at all: it cannot
\* connect, fails, is cut off, or what it lists is partial or contradicts itself.
NoAnswer == <<>>
RawViews == {"card", "none", "unknown"}
RawAnswers(s) == {NoAnswer} \union {v \in [NodesOf[s] -> RawViews] :
                                      \A n \in NodesOf[s] : v[n] \in Views[<<s, n>>]}

\* A plugin answers for every node of its cluster; a node's failure, or a part
\* that cannot be read, is reported beside the other nodes.
ClusterAnswers(s) == {v \in [NodesOf[s] -> {"card", "none", "unknown", "failed"}] :
                        \A n \in NodesOf[s] : v[n] \in Views[<<s, n>>]}

\* The card is in one node of a server at a time.
Answers(s) == {v \in IF s \in Clusters THEN ClusterAnswers(s) ELSE RawAnswers(s) :
                 Cardinality({n \in DOMAIN v : v[n] = "card"}) <= 1}

\* observe_endpoint, of a registered server: by its own loop, or for a targeted
\* check (collector_endpoint), which also reaches a server that is paused.
Probe(s) ==
  /\ s \in known
  /\ Cardinality(reading[s]) < MaxReadings[s]
  /\ \E v \in Answers(s) :
       LET r == [view |-> v, age |-> 0] IN
         r \notin reading[s] /\ reading' = [reading EXCEPT ![s] = @ \union {r}]
  /\ UNCHANGED <<known, row, host, monitor, keepers>>

\* A probe's deadline is up: it has answered, or is killed and fails.
Overdue(r) == r.age = MaxProbe

Settled(s, r) == reading' = [reading EXCEPT ![s] = @ \ {r}]

\* The server is gone: ingest_observation and record_provider_failure refuse.
Drop(s, r) ==
  /\ s \notin known
  /\ Settled(s, r)
  /\ UNCHANGED <<known, row, host, monitor, keepers>>

Fails(m) == [m EXCEPT !.failed = TRUE]
Succeeds == [age |-> 0, failed |-> FALSE]

\* record_provider_failure, of a server whose monitor state is kept.
Fail(s, r) ==
  /\ s \in known \ Clusters
  /\ r.view = NoAnswer
  /\ Settled(s, r)
  /\ monitor' = [monitor EXCEPT ![s] = Fails(@)]
  /\ UNCHANGED <<known, row, host, keepers>>

-----------------------------------------------------------------------------
(* Recording a reading *)

\* A slip: what the reading says of one node is taken, whatever is known of it.
AnyNode(s, r) == {<<s, n>> : n \in {n \in NodesOf[s] : r.view[n] # "failed"}}

\* The nodes of reading r that nothing newer is known of.
Current(s, r) == {<<s, n>> : n \in {n \in NodesOf[s] : r.view[n] # "failed" /\ r.age <= host[<<s, n>>]}}

\* The whole reading is passed over.
Ignored(s, r) == \A n \in NodesOf[s] : r.view[n] # "failed" /\ r.age > host[<<s, n>>]

Found(s, r) == {p \in Current(s, r) : r.view[p[2]] = "card"}
Missing(s, r) == {p \in Current(s, r) : r.view[p[2]] = "none"}

Siblings(s) == {p \in Present : p[1] # s}

\* A slip: how long ago the card was seen, not how long before this reading.
StaleByNow(p, r) == row[p] > Stale

\* A slip: a row that was read once is never given up.
StaleNever(p, r) == FALSE

\* last_seen_at < observed_at - stale_after_seconds
StaleFor(p, r) == row[p] > r.age + Stale

\* _converge_gpu_uuid_ownership: the rows that lose the card to the newcomer s,
\* and whether another server still has it.
HandedOver(s, r) == IF Found(s, r) = {} THEN {} ELSE {p \in Siblings(s) : StaleFor(p, r)}

\* A slip: the newer sighting wins.
ContestedByNewer(s, r) == \E p \in Siblings(s) : row[p] < r.age

Contested(s, r) == \E p \in Siblings(s) : ~StaleFor(p, r)

Rows(s, r) ==
  [p \in Places |->
    IF p \in Missing(s, r) \union HandedOver(s, r) THEN Absent
    ELSE IF p \in Found(s, r) THEN IF Contested(s, r) THEN Absent ELSE r.age
    ELSE row[p]]

\* A slip: leases of the server that was read, and of no other.
OwnKeepers(s, r) == PlacesOf(s)

\* _release_absent_keepalive_leases: of the server and of those that lost to it.
Reconciled(s, r) == (UNION {PlacesOf(p[1]) : p \in HandedOver(s, r)}) \union PlacesOf(s)

Complete(s, r) == \A n \in NodesOf[s] : r.view[n] \in {"card", "none"}

\* EndpointTelemetryCurrent of the nodes the reading is news of.
HostAfter(s, r) == [p \in Places |-> IF p \in Current(s, r) THEN r.age ELSE host[p]]

\* Ages no reading under way compares with any more.
Overtaken(h, rs) ==
  [p \in Places |-> IF \E r \in rs[p[1]] : r.age > h[p] THEN h[p] ELSE OldHost]

\* ingest_observation
Ingest(s, r) ==
  /\ s \in known
  /\ r.view # NoAnswer
  /\ Settled(s, r)
  /\ IF Ignored(s, r) THEN UNCHANGED <<row, host, monitor, keepers>>
     ELSE /\ row' = Rows(s, r)
          /\ host' = Overtaken(HostAfter(s, r), reading')
          /\ keepers' = IF Found(s, r) \union Missing(s, r) = {} THEN keepers
                        ELSE keepers \ {p \in Reconciled(s, r) : Rows(s, r)[p] = Absent}
          /\ monitor' = IF s \in Clusters THEN monitor
                        ELSE [monitor EXCEPT ![s] = IF Complete(s, r) THEN Succeeds ELSE Fails(@)]
  /\ UNCHANGED known

-----------------------------------------------------------------------------
(* Leases and the end of a server *)

\* A keeper starts on a card that is offered, and ends.
StartKeeper(p) ==
  /\ p[1] \in known \ Clusters
  /\ row[p] <= Stale /\ p \notin keepers
  /\ keepers' = keepers \union {p}
  /\ UNCHANGED <<known, reading, row, host, monitor>>

StopKeeper(p) ==
  /\ p \in keepers
  /\ keepers' = keepers \ {p}
  /\ UNCHANGED <<known, reading, row, host, monitor>>

\* FreshnessView.unreachable
Unreachable(s) == s \notin Clusters /\ monitor[s].failed /\ monitor[s].age > Stale

\* delete_endpoint: a server with live leases only when it does not answer.
\* Its leases are settled; its rows and its monitor state go with it.
Delete(s) ==
  /\ s \in known
  /\ Unreachable(s) \/ keepers \intersect PlacesOf(s) = {}
  /\ known' = known \ {s}
  /\ keepers' = keepers \ PlacesOf(s)
  /\ row' = [p \in Places |-> IF p[1] = s THEN Absent ELSE row[p]]
  /\ host' = [p \in Places |-> IF p[1] = s THEN OldHost ELSE host[p]]
  /\ monitor' = IF s \in Clusters THEN monitor ELSE [monitor EXCEPT ![s] = NeverRead]
  /\ UNCHANGED reading

\* One unit of time.  No probe outlives its deadline.
Older(age, cap) == IF age < cap THEN age + 1 ELSE age

Tick ==
  /\ \A s \in Servers : \A r \in reading[s] : ~Overdue(r)
  /\ reading' = [s \in Servers |-> {[r EXCEPT !.age = @ + 1] : r \in reading[s]}]
  /\ row' = [p \in Places |-> IF row[p] = Absent THEN Absent ELSE Older(row[p], OldRow)]
  /\ host' = [p \in Places |-> Older(host[p], OldHost)]
  /\ monitor' = [s \in Servers \ Clusters |-> [monitor[s] EXCEPT !.age = Older(@, Stale + 1)]]
  /\ UNCHANGED <<known, keepers>>

Settle(s, r) == Ingest(s, r) \/ Fail(s, r) \/ Drop(s, r)

Next ==
  \/ Tick
  \/ \E s \in Servers : Create(s) \/ Delete(s) \/ Probe(s) \/ \E r \in reading[s] : Settle(s, r)
  \/ \E p \in Places : StartKeeper(p) \/ StopKeeper(p)

\* Time passes; every server is probed again and again (collector_supervisor);
\* no probe outlives its deadline.
Fairness ==
  /\ WF_vars(Tick)
  /\ \A s \in Servers :
       /\ WF_vars(Probe(s))
       /\ WF_vars(\E r \in reading[s] : Overdue(r) /\ Settle(s, r))

Spec == Init /\ [][Next]_vars /\ Fairness

-----------------------------------------------------------------------------
(* Properties *)

\* A card is offered by one server at a time: what _converge_gpu_uuid_ownership
\* is for, over every order in which the readings of its claimants come in.
OneOwner == \A p, q \in Present : p[1] = q[1]

\* A live keepalive lease has its card: when the card goes to another server,
\* is gone, or its server is deleted, the lease goes with it
\* (_release_absent_keepalive_leases, _settle_leases_for_deleted_endpoint).
KeepersHaveCards == keepers \subseteq Present

\* A server that saw its card when another began to look, or not long before,
\* keeps it: it loses the card to a reading of its own that misses the card, or
\* to another server's only Stale after it was last seen, reckoned from when
\* that reading was begun and not from when it was recorded.
CardIsNotTakenWhileSeen ==
  [][\A p \in Places :
       (p \in Present /\ p \notin Present' /\ p[1] \in known') =>
         \E s \in Servers : \E r \in reading[s] \ reading'[s] :
           IF s = p[1] THEN r.view # NoAnswer /\ r.view[p[2]] = "none"
           ELSE row[p] > r.age + Stale]_vars

\* What was found out about a node earlier than what is known of it changes
\* nothing there, also when the same reading brings news of another node
\* (ingest_observation, _ingest_node_observation).
OldNewsChangesNothing ==
  [][\/ Tick
     \/ \A s \in known : \A r \in reading[s] \ reading'[s] : \A n \in NodesOf[s] :
          r.age > host[<<s, n>>] =>
            row'[<<s, n>>] = row[<<s, n>>] /\ host'[<<s, n>>] \in {host[<<s, n>>], OldHost}]_vars

\* A card that one server alone sees from some time on ends up with it, however
\* many had it before: the rows of a server that no longer answers hold it no
\* longer than Stale.
Sees(s, n) == \A r \in reading[s] : r.view # NoAnswer /\ r.view[n] = "card"
SeesNot(s) == \A r \in reading[s] : \A n \in DOMAIN r.view : r.view[n] # "card"

CardFindsItsServer ==
  \A p \in Places :
    <>[](p[1] \in known /\ Sees(p[1], p[2]) /\ \A t \in Servers \ {p[1]} : SeesNot(t))
      => <>[](p \in Present)
=============================================================================
