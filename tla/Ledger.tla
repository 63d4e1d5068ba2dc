------------------------------- MODULE Ledger -------------------------------
(***************************************************************************)
(* The workload-lease ledger of BrokerService (service.py): which lease    *)
(* holds which GPU card, and every operation that changes it.  Each public *)
(* operation runs inside one BEGIN IMMEDIATE transaction (_write), so it   *)
(* is one action here.                                                     *)
(*                                                                         *)
(* The scope is servers with direct leases and no keepalive adapter.  Time *)
(* is left out: a deadline, a grace period or an idle window may run out   *)
(* whenever the code reads it.  IdleReclaim has the clocks.                *)
(***************************************************************************)
EXTENDS FiniteSets, Integers

CONSTANTS
  Servers,    \* endpoint ids
  Cards,      \* GPU rows, one per physical card
  HostOf,     \* the server each card is plugged into
  Leases,     \* lease ids, each issued at most once
  Sessions,   \* agent sessions: callers with a session id
  Locals,     \* callers without one: the CLI and the desktop App
  Projects,
  ProjectOf,  \* the project each session declared
  LabelOf,    \* the actor label of each caller
  Tasks,      \* task references
  Quota,      \* quota_gpus of each project
  Limit,      \* concurrency_limit of each project
  None        \* the absent session

Actors == Sessions \union Locals

ASSUME LedgerAssumption ==
  /\ HostOf \in [Cards -> Servers]
  /\ ProjectOf \in [Sessions -> Projects]
  /\ LabelOf \in [Actors -> STRING]
  /\ Quota \in [Projects -> Nat]
  /\ Limit \in [Projects -> Nat]
  /\ IsFiniteSet(Cards)
  /\ None \notin Sessions
  /\ None \notin Leases

VARIABLES
  link,     \* what the attempts to observe each server last gave
  aged,     \* servers whose last complete observation is stale, or missing
  known,    \* cards with a GPU row
  visible,  \* cards present with telemetry that is not stale
  busy,     \* cards with an active process sighting
  lease,    \* one record per lease
  held,     \* the active LeaseResource rows of each lease
  commit    \* the servers each lease has a LeaseEndpointCommitment for

serverVars == <<link, aged, known, visible, busy>>
leaseVars == <<lease, held, commit>>
vars == <<serverVars, leaseVars>>

Links == {"unregistered", "pending", "complete", "incomplete", "failed"}
LiveStates == {"HELD", "ACTIVE", "ORPHANED_BUSY"}
TerminalStates == {"RELEASED", "EXPIRED_EMPTY"}
Labels == {LabelOf[a] : a \in Actors}
LeaseRecords ==
  [state : LiveStates \union TerminalStates,
   project : Projects, task : Tasks, owner : Sessions \union {None},
   label : Labels, timed : BOOLEAN]
Unissued == [state |-> "UNISSUED"]

TypeOK ==
  /\ link \in [Servers -> Links]
  /\ aged \subseteq Servers
  /\ known \subseteq Cards
  /\ visible \subseteq known
  /\ busy \subseteq known
  /\ lease \in [Leases -> LeaseRecords \union {Unissued}]
  /\ held \in [Leases -> SUBSET Cards]
  /\ commit \in [Leases -> SUBSET Servers]

CardsOf(s) == {c \in Cards : HostOf[c] = s}
Hosts(S) == {HostOf[c] : c \in S}
\* (LiveOrReleased and the other definitions placed just before their likeness
\* are plausible slips: the properties below tell each from the code's.)
LiveOrReleased(l) == lease[l].state \in LiveStates \union {"RELEASED"}
Live(l) == lease[l].state \in LiveStates
Registered(s) == link[s] # "unregistered"

\* Freshness.unreachable: the last attempt left an error and the last success
\* is stale.  One failed attempt on its own does not qualify.
Unreachable(s) == link[s] \in {"incomplete", "failed"} /\ s \in aged

\* No active row of any lease, terminal ones included, names this card.
UnheldExceptOrphaned(c, h) ==
  \A l \in Leases : c \in h[l] => lease[l].state = "ORPHANED_BUSY"
Unheld(c, h) == \A l \in Leases : c \notin h[l]

\* _gpu_state = AVAILABLE for a card of a server without keepalive, under the
\* rows h: fresh, no node error, no process and no lease.
Available(c, h) ==
  /\ c \in visible \ busy
  /\ link[HostOf[c]] \in {"complete", "failed"}
  /\ Unheld(c, h)

\* The cards the allocator may return for a request of n cards under the rows
\* h, on one server when the request says same_host.
Placements(n, h, sameHost) ==
  {S \in SUBSET {c \in Cards : Available(c, h)} :
     /\ S # {} /\ Cardinality(S) = n
     /\ sameHost => \E s \in Servers : S \subseteq CardsOf(s)}

\* _project_usage.
LeasesOf(p) == {l \in Leases : Live(l) /\ lease[l].project = p}
Usage(p, h) == Cardinality(UNION {h[l] : l \in LeasesOf(p)})

\* n more cards stay within quota_gpus.
QuotaNotReached(p, n, h) == Usage(p, h) < Quota[p]
QuotaAllows(p, n, h) == Usage(p, h) + n <= Quota[p]

\* _can_manage_lease: sessions of one project share their leases; without a
\* session on both sides the actor labels must agree.
CanManage(a, l) ==
  IF lease[l].owner # None /\ a \in Sessions
  THEN lease[l].owner = a \/ lease[l].project = ProjectOf[a]
  ELSE lease[l].label = LabelOf[a]

\* An owned live lease of this task, other than those in ls.
TaskTakenUnbound(p, t, ls) ==
  \E l \in Leases \ ls : /\ lease[l].state = "HELD"
                         /\ lease[l].project = p /\ lease[l].task = t
                         /\ lease[l].owner # None
TaskTaken(p, t, ls) ==
  \E l \in Leases \ ls : /\ Live(l)
                         /\ lease[l].project = p /\ lease[l].task = t
                         /\ lease[l].owner # None

-----------------------------------------------------------------------------
(* Callers *)

\* create_request: a claim fits now or is refused.  A session that already
\* holds the task is answered with its lease, or refused: nothing changes.
Claim(a, l, p, t, n) ==
  /\ lease[l].state = "UNISSUED"
  /\ a \in Sessions => p = ProjectOf[a] /\ ~TaskTaken(p, t, {})
  /\ QuotaAllows(p, n, held)
  /\ Cardinality(LeasesOf(p)) < Limit[p]
  /\ \E S \in Placements(n, held, a \in Sessions) :
       /\ held' = [held EXCEPT ![l] = S]
       /\ commit' = [commit EXCEPT ![l] = Hosts(S)]
  /\ lease' = [lease EXCEPT ![l] =
        [state |-> "HELD", project |-> p, task |-> t,
         owner |-> IF a \in Sessions THEN a ELSE None,
         label |-> LabelOf[a],
         timed |-> a \notin Sessions]]
  /\ UNCHANGED serverVars

\* release_lease, by its holder or by the App's operator override.  The
\* commitment rows stay as history.
Release(a, l) ==
  /\ Live(l)
  /\ CanManage(a, l) \/ a \in Locals
  /\ lease' = [lease EXCEPT ![l].state = "RELEASED"]
  /\ held' = [held EXCEPT ![l] = {}]
  /\ UNCHANGED <<serverVars, commit>>

\* _sync_commitments: lease l keeps one commitment per server of S.
TrimmedCommitments(l, S) == [commit EXCEPT ![l] = @ \intersect Hosts(S)]
SyncedCommitments(l, S) == [commit EXCEPT ![l] = Hosts(S)]

\* resize_lease: cards without a process are settled first, then the added
\* ones are chosen from what is free after that, all in one transaction.
Resize(a, l, back, n) ==
  LET kept == [held EXCEPT ![l] = @ \ back] IN
  /\ Live(l) /\ CanManage(a, l)
  /\ back \subseteq held[l] \ busy
  /\ n = 0 => back # {} /\ back # held[l]
  /\ n > 0 => QuotaAllows(lease[l].project, n, kept)
  /\ \E S \in IF n = 0 THEN {{}} ELSE Placements(n, kept, TRUE) :
       /\ held' = [held EXCEPT ![l] = (@ \ back) \union S]
       /\ commit' = SyncedCommitments(l, (held[l] \ back) \union S)
  /\ UNCHANGED <<serverVars, lease>>

\* take_over_lease: the lease moves to the caller's session and project.  The
\* unclaimed lease of one's own project is not compared with the tasks held;
\* there the partial unique index on (project, task) refuses the write.
TakeOver(a, l, force) ==
  LET p == ProjectOf[a] IN
  /\ Live(l)
  /\ lease[l].owner = None \/ lease[l].project = p \/ force
  /\ ~TaskTaken(p, lease[l].task, {l})
  /\ lease' = [lease EXCEPT ![l].project = p,
                            ![l].owner = a,
                            ![l].label = LabelOf[a]]
  /\ UNCHANGED <<serverVars, held, commit>>

\* _workload_reassignment_targets: existing cards, as many as the lease has.
IsTarget(a, l, S) ==
  /\ Live(l)
  /\ CanManage(a, l) \/ a \in Locals
  /\ S \subseteq known /\ Cardinality(S) = Cardinality(held[l])

\* reassign_lease_gpus: the exact cards chosen in the App, whether or not they
\* are fresh or idle, none of them held by another lease.
Reassign(a, l, S) ==
  /\ IsTarget(a, l, S)
  /\ \A k \in Leases \ {l} : held[k] \intersect S = {}
  /\ held' = [held EXCEPT ![l] = S]
  /\ commit' = [commit EXCEPT ![l] = Hosts(S)]
  /\ UNCHANGED <<serverVars, lease>>

\* bind_observed_workload: the holder reports its processes, which must have
\* been observed on every card.
Bindable(a, l) ==
  /\ lease[l].state \in {"HELD", "ACTIVE"} /\ CanManage(a, l)
  /\ held[l] # {} /\ held[l] \subseteq busy
Bind(a, l) ==
  /\ Bindable(a, l)
  /\ lease' = [lease EXCEPT ![l].state = "ACTIVE"]
  /\ UNCHANGED <<serverVars, held, commit>>

\* Lease l after a person settles the cards in `back`: it ends with its last one.
SettledWhole(l, back) ==
  IF back # {} THEN [lease[l] EXCEPT !.state = "RELEASED"] ELSE lease[l]
Settled(l, back) ==
  IF back # {} /\ back = held[l]
  THEN [lease[l] EXCEPT !.state = "RELEASED"] ELSE lease[l]

\* release_empty_conflicted_lease: a person clears one server's share of a
\* lease, on a complete empty observation or because the server is gone.  That
\* the holder has been quiet and the observation is newer than the click are
\* matters of time, left open here.
ReleaseEmpty(l, s) ==
  LET back == held[l] \intersect CardsOf(s) IN
  /\ Live(l) /\ Registered(s) /\ back # {}
  /\ Unreachable(s) \/ (s \notin aged /\ back \intersect busy = {})
  /\ held' = [held EXCEPT ![l] = @ \ back]
  /\ lease' = [lease EXCEPT ![l] = Settled(l, back)]
  /\ UNCHANGED <<serverVars, commit>>

\* create_endpoint.
AddServer(s) ==
  /\ link[s] = "unregistered"
  /\ link' = [link EXCEPT ![s] = "pending"]
  /\ aged' = aged \union {s}
  /\ UNCHANGED <<known, visible, busy, leaseVars>>

\* _endpoint_has_active_leases.
HasActiveLeases(s) ==
  \E l \in Leases : Live(l) /\ (held[l] \intersect CardsOf(s) # {} \/ s \in commit[l])

\* The card rows left once those of server s are purged.
PurgedOfWhole(s) == [l \in Leases |-> IF held[l] \subseteq CardsOf(s) THEN {} ELSE held[l]]
Purged(s) == [l \in Leases |-> held[l] \ CardsOf(s)]

\* delete_endpoint: refused while a lease is active there, unless the server
\* no longer answers; then its leases are settled and its rows purged.
DeleteServer(s) ==
  /\ Registered(s)
  /\ Unreachable(s) \/ ~HasActiveLeases(s)
  /\ held' = Purged(s)
  /\ lease' = [l \in Leases |->
        IF Live(l) /\ Unreachable(s)
        THEN Settled(l, held[l] \intersect CardsOf(s)) ELSE lease[l]]
  /\ commit' = [l \in Leases |-> commit[l] \ {s}]
  /\ link' = [link EXCEPT ![s] = "unregistered"]
  /\ aged' = aged \ {s}
  /\ known' = known \ CardsOf(s)
  /\ visible' = visible \ CardsOf(s)
  /\ busy' = busy \ CardsOf(s)

-----------------------------------------------------------------------------
(* The collector *)

\* _bind_new_workload_processes: a claim becomes ACTIVE once every one of its
\* cards runs something.
BoundBy(s, b) ==
  [l \in Leases |->
     IF /\ lease[l].state = "HELD"
        /\ held[l] \intersect CardsOf(s) # {} /\ held[l] \subseteq b
     THEN [lease[l] EXCEPT !.state = "ACTIVE"] ELSE lease[l]]

\* How a lease whose deadline passed ends, with processes on the cards in b.
ExpiredUnbound(l, b) ==
  IF lease[l].state = "ACTIVE" /\ held[l] \intersect b # {}
  THEN "ORPHANED_BUSY" ELSE "EXPIRED_EMPTY"
Expired(l, b) ==
  IF held[l] \intersect b # {} THEN "ORPHANED_BUSY" ELSE "EXPIRED_EMPTY"

\* _reconcile_leases over the bound leases r: the idle cards in `gone` are
\* reclaimed, then a lease in `due` whose deadline passed ends, or stays
\* blocked when any card it had before the reclaim runs a process.
Reconciled(r, b, gone, due) ==
  [l \in Leases |->
     IF r[l].state \notin {"HELD", "ACTIVE"} THEN r[l]
     ELSE IF held[l] # {} /\ held[l] \subseteq gone THEN [r[l] EXCEPT !.state = "EXPIRED_EMPTY"]
     ELSE IF l \notin due THEN r[l]
     ELSE [r[l] EXCEPT !.state = Expired(l, b)]]

\* ingest_observation: one reading of server s lists the cards `seen` and
\* processes on `procs`.  A complete one also retires the sightings in `lost`,
\* which every reading has left out for the whole grace.
Ingest(s, complete, seen, procs, lost, gone, due) ==
  LET b == (busy \union procs) \ lost
      v == IF complete THEN (visible \ CardsOf(s)) \union seen ELSE visible \union seen
      r == Reconciled(BoundBy(s, b), b, gone, due)
  IN
  /\ Registered(s)
  /\ seen \subseteq CardsOf(s) /\ procs \subseteq seen
  /\ lost \subseteq (busy \intersect CardsOf(s)) \ procs
  /\ ~complete => lost = {}
  /\ gone \subseteq {c \in v \ b :
                       \E l \in Leases : lease[l].state \in {"HELD", "ACTIVE"} /\ c \in held[l]}
  /\ due \subseteq {l \in Leases : Live(l) /\ lease[l].timed}
  /\ link' = [link EXCEPT ![s] = IF complete THEN "complete" ELSE "incomplete"]
  /\ aged' = IF complete THEN aged \ {s} ELSE aged
  /\ known' = known \union seen
  /\ visible' = v
  /\ busy' = b
  /\ lease' = r
  /\ held' = [l \in Leases |->
        IF lease[l].state \notin {"HELD", "ACTIVE"} THEN held[l]
        ELSE IF r[l].state = "EXPIRED_EMPTY" THEN {}
        ELSE held[l] \ gone]
  /\ UNCHANGED commit

\* record_provider_failure.  The node error of an incomplete reading stays
\* until a complete one clears it.
Fail(s) ==
  /\ Registered(s)
  /\ link' = [link EXCEPT ![s] = IF @ = "incomplete" THEN @ ELSE "failed"]
  /\ UNCHANGED <<aged, known, visible, busy, leaseVars>>

\* Time passes: what was last read of server s is stale now.  Cards listed by
\* a later incomplete reading may still be fresh.
Age(s) ==
  /\ Registered(s)
  /\ aged' = aged \union {s}
  /\ \E S \in SUBSET (visible \intersect CardsOf(s)) :
       /\ link[s] # "incomplete" => S = visible \intersect CardsOf(s)
       /\ visible' = visible \ S
  /\ UNCHANGED <<link, known, busy, leaseVars>>

-----------------------------------------------------------------------------
Init ==
  /\ link = [s \in Servers |-> "unregistered"]
  /\ aged = {} /\ known = {} /\ visible = {} /\ busy = {}
  /\ lease = [l \in Leases |-> Unissued]
  /\ held = [l \in Leases |-> {}]
  /\ commit = [l \in Leases |-> {}]

CallerStep ==
  \/ \E a \in Actors, l \in Leases, p \in Projects, t \in Tasks,
        n \in 1..Cardinality(Cards) : Claim(a, l, p, t, n)
  \/ \E a \in Actors, l \in Leases : Release(a, l)
  \/ \E a \in Actors, l \in Leases : \E back \in SUBSET held[l],
        n \in 0..Cardinality(Cards) : Resize(a, l, back, n)
  \/ \E a \in Sessions, l \in Leases, force \in BOOLEAN : TakeOver(a, l, force)
  \/ \E a \in Actors, l \in Leases, S \in SUBSET Cards : Reassign(a, l, S)
  \/ \E a \in Actors, l \in Leases : Bind(a, l)
  \/ \E l \in Leases, s \in Servers : ReleaseEmpty(l, s)
  \/ \E s \in Servers : AddServer(s)
  \/ \E s \in Servers : DeleteServer(s)

CollectorStep ==
  \/ \E s \in Servers, complete \in BOOLEAN :
       \E seen \in SUBSET CardsOf(s), lost \in SUBSET (busy \intersect CardsOf(s)),
          gone \in SUBSET UNION {held[l] : l \in Leases},
          due \in SUBSET {l \in Leases : Live(l) /\ lease[l].timed} :
         \E procs \in SUBSET seen : Ingest(s, complete, seen, procs, lost, gone, due)
  \/ \E s \in Servers : Fail(s)
  \/ \E s \in Servers : Age(s)

Next == CallerStep \/ CollectorStep

Spec == Init /\ [][Next]_vars

-----------------------------------------------------------------------------
(* What the ledger guarantees *)

\* No GPU row is active in two leases (uq_active_gpu_lease): an operation that
\* would try is refused or picks other cards, it never relies on the index.
ExclusiveCards ==
  \A k, l \in Leases : k # l => held[k] \intersect held[l] = {}

\* A lease is live exactly while it holds a card: whichever of the seven
\* operations takes the last card also ends the lease, and none ends it early.
LiveHoldsCards == \A l \in Leases : Live(l) <=> held[l] # {}

\* A leased card has a GPU row and its server is registered: delete_endpoint
\* never purges a row that a lease still names.
LeasedCardsExist ==
  \A l \in Leases : held[l] \subseteq {c \in known : Registered(HostOf[c])}

\* A live lease has a commitment on every server where it holds a card, so CPU
\* and memory promised there are counted and the server cannot be deleted.
CommitmentsCover == \A l \in Leases : Live(l) => Hosts(held[l]) \subseteq commit[l]

\* IMPLEMENTATION_STATUS_zh.md: a commitment is written only together with card
\* rows on that server, so an active lease never has one without the other.
\* A partial reclaim or clearing does not keep it: see the README.
CommitmentsFollowCards == \A l \in Leases : Live(l) => commit[l] \subseteq Hosts(held[l])

\* One project never has two live leases with an owner for one task, whatever
\* sessions claim, take over and end.
OneOwnedLeasePerTask ==
  \A k, l \in Leases :
    /\ k # l /\ Live(k) /\ Live(l)
    /\ lease[k].owner # None /\ lease[l].owner # None
    => <<lease[k].project, lease[k].task>> # <<lease[l].project, lease[l].task>>

\* A project is pushed beyond its GPU quota or its number of leases only by a
\* take-over that moves a lease into it, never by a claim, a resize or a move
\* of cards.
MovedInto(p) ==
  \E l \in Leases : Live(l) /\ lease[l].project # p /\ lease'[l].project = p
BudgetsExceededOnlyByTakeOver ==
  [][\A p \in Projects : ~MovedInto(p) =>
       /\ Usage(p, held)' > Usage(p, held) => Usage(p, held)' <= Quota[p]
       /\ Cardinality(LeasesOf(p)') > Cardinality(LeasesOf(p))
            => Cardinality(LeasesOf(p)') <= Limit[p]]_vars

\* A card leaves a lease only when the whole lease is released, when its cards
\* are exchanged one for one, when its server no longer answers, or when no
\* process is seen on it: no reclaim, expiry, resize or clearing of one server
\* takes a card from under a running process.
CardsLeaveOnEvidence ==
  [][\A l \in Leases : \A c \in held[l] \ held'[l] :
       \/ c \in known' \ busy'
       \/ lease'[l].state = "RELEASED"
       \/ Cardinality(held'[l]) = Cardinality(held[l])
       \/ Unreachable(HostOf[c])]_vars

\* The ledger implements CardOwnership: every operation either grants free
\* cards to one lease or gives cards back, and the leases left with none are
\* over for good.
HolderIn(h, c) ==
  IF \E l \in Leases : c \in h[l] THEN CHOOSE l \in Leases : c \in h[l] ELSE None
Ownership == INSTANCE CardOwnership WITH
  Free <- None,
  holder <- [c \in Cards |-> HolderIn(held, c)],
  over <- {l \in Leases : lease[l].state \in TerminalStates}
ImplementsCardOwnership == Ownership!Spec

=============================================================================
