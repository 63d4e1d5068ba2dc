# ServerPilot in TLA+

ServerPilot lets coding agents share GPU servers: a daemon on a Mac reads the
servers over SSH, keeps a ledger of which lease has which card, and answers
agents (MCP), people (desktop app, CLI) and its own collector. This directory
models the part of it that decides who has which card and how that is known and
shown, checks it with TLC and proves the safety of every module with TLAPS.

Paths below are relative to the repository; `service.py`, `api.py` and so on
are in `src/serverpilot/`, `BrokerStore.swift` in `desktop/ServerPilotCore/`.

## 1. The system

### Components, their state and their operations

| Component | State | Operations | Model |
|---|---|---|---|
| Lease ledger (`service.py`, `models.py`) | leases, one row per lease and card, a commitment per lease and server, quotas | claim, release, resize, take over, move, bind, settle an unreachable server, add and delete a server, reconcile on every reading | `Ledger`, `CardOwnership`, `LedgerProofs` |
| Declarations (`api.py`) | nothing of its own: several transactions with awaits between them | `apply_lease`, `redeclare_task`, `change_cards`, heartbeats | `Declaration`, `DeclarationProofs` |
| Idle reclaim and sightings (`service.py`) | two timestamps and a window count per row, a sighting per process, a heartbeat per lease | every reading or failure of every server, keep-idle | `IdleReclaim`, `IdleReclaimProofs` |
| Keepalive coordination (`api.py`, `service.py`) | one lease per kept card, a policy, an error and a pending cleanup per card | start, confirm, recover, stop, clean up, hand over to a claim | `Keepalive`, `KeepaliveProofs` |
| Keepalive helper (`server_keepalive.py`) | a state file naming each card's worker, the workers, a file lock | start, stop, attest | `Helper`, `HelperProofs` |
| Provider allocations (`service.py`, `plugins.py`, the Slurm plugin) | allocations of a cluster, remembered answers, the cluster's jobs | claim, replay, record, release, reconcile after a restart | `ProviderClaim`, `ProviderClaimProofs` |
| Card identity and ingestion (`service.py`, `collector.py`) | card rows, presence, the age of each node's reading | ingest a reading, converge the rows of one UUID, release what is absent | `Inventory`, `InventoryProofs` |
| Collector (`api.py`, `collector.py`) | one probe task per server, the outcome of the last attempt | start, cancel, restart the loops; record a success or a failure | `Monitor` (tasks), `Inventory` (readings) |
| Alerts (`alerts.py`, `service.py`, `AlertSurfaces.swift`) | alerts and reminders, what was told and when | evaluate, banner, mark, acknowledge | `Monitor`, `ShownProofs` |
| Desktop app (Swift) | the last good picture of the service, the refresh under way, marks of pending changes | refresh, reload, switch actor, actions | `BrokerStore`, `ShownProofs` |
| Database, idempotency (`database.py`, `service.py`) | one SQLite file, remembered answers, revisions | a write is one transaction | in `ProviderClaim` and `BrokerStore` |
| Placement selection (`service.py`) | none (pure) | eligible cards, placement, explanation | not modelled: any result is allowed |
| Server connections (`service.py`) | login state of the ssh master | log in, out | not modelled: no answer |
| HTTP API, MCP server, CLI, client | none | translate calls | not modelled: stateless |
| Daemon, adapters, configuration, migrations | process and port, settings, schema | | not modelled, but for restarts |

### How they interact

* All state is one SQLite database. A service operation is one serialised write
  transaction (`BrokerService._write`), so the modules make each of them one
  action, with everything it changes: rows, lease state, commitments, epoch.
* API handlers are coroutines. Between two service calls of one handler any
  other operation may run. `Declaration` keeps these steps apart.
* The collector probes each server in its own loop. Every reading is ingested
  in one transaction, which then reconciles *all* leases, also those on other
  servers.
* A card belongs to the server whose readings show it; what a reading takes
  from a server is settled with its leases in the same transaction.
* A cluster is asked for its allocations outside the database's writer lock, so
  the ledger and the cluster are changed in steps that a kill can part.
* The helper on a server is a process per call; the file lock and the state file
  are all that two calls share.
* Agents learn of changes by asking: a heartbeat carries the changes recorded
  since the last one, and an epoch tells whether the cards changed.

### What is hard

Stale reads across awaits (declarations); a lease that spans servers which are
read, fail and disappear separately; readings that are late, incomplete or
absent for a long time (the Mac sleeps), or come from two registrations of one
machine; a remote change that took effect and whose answer was lost; holders that are silent but alive; the
App changing a lease under its holder; two accounts of the same fact (rows and
commitments, cards and epoch, news and the mark of what was told) that only
some operations keep together. `PROJECT.json` lists each hazard at its line
with the property that would show it going wrong.

## 2. The modules

### `CardOwnership`: what the ledger promises

A map from cards to the lease that has them, and the set of leases that are
over. A lease gains cards only by a grant of cards nobody has, gives them back,
or swaps them; a lease without cards is over, and one that is over never has a
card again. Nothing is said of states, evidence, or who asks.

### `Ledger`: leases, rows and commitments

| Variable | In the code |
|---|---|
| `link` | `ProviderState`: whether the last attempt at the server succeeded |
| `aged` | servers whose last success is older than the freshness limit |
| `known`, `visible` | card rows; those with a present card and fresh telemetry |
| `busy` | cards with an active `ProcessObservation` |
| `lease` | owner, project, task, state, whether it expires and is bound |
| `held` | the active `LeaseResource` rows of each lease |
| `commit` | its `LeaseEndpointCommitment` rows |

One action per operation of the service that changes who has a card: `Claim`,
`Release`, `Resize`, `TakeOver`, `Reassign`, `Bind`, `ReleaseEmpty`,
`AddServer`, `DeleteServer`, `Ingest` (a complete reading with the
reconciliation that follows in the same transaction: binding, idle reclaim,
expiry), `Fail` and `Age`. Idle reclaim takes any set of idle cards here; when
it may is the business of `IdleReclaim`.

### `Declaration`: one task, several calls at once

`lease` holds every lease of the task with its owner class (`ours`: the
sessions of one project, `theirs`: another project, `nobody`: a lease made by a
person), `call` the place of each call and what it has read. A call goes `Ask`
(`task_holding`), then `TakeOver`, `View`, `Grow`, `Pick` + `Shrink`, or
`Claim`, each in its own transaction. Around it: `Heartbeat`, `Return`, and
what others do (`Reclaim`, `Reassign`, `Release`, `Seize`, `LocalClaim`,
`Sight`).

### `IdleReclaim`: the clocks

Time is an integer. `row` is a `LeaseResource` with `idle_since`,
`idle_checked_at` and `keep_idle_windows`; `sight` a `ProcessObservation` with
`last_seen_at` and `absent_since`; `read` the age of a card's telemetry.
`Observe` is `ingest_observation`: sightings, binding, then the look
`_reconcile_idle_lease` takes at *every* card of the lease. `spent` is not in
the code: it counts the observed idle time by accumulation, the way the
docstring describes it, and `ClockIsObservedTime` says that the code's two
timestamps, with their shifts and resets, always agree with it. `Clear` is a
person clearing the lease's cards on one server.

### `Keepalive`: workers that keep idle cards warm

| Variable | In the code |
|---|---|
| `policy` | the server's `keepalive_policy` |
| `owner` | kind of the active lease of each card |
| `keep` | `KeepaliveCurrent.actual` and the worker the lease was confirmed with |
| `mark` | `KeepaliveCurrent.cleanup_pending` |
| `seen`, `stale` | active `ProcessObservation` rows, and those with `absent_since` |
| `reach` | age of the server's last reading: fresh, stale, or old enough to clear without one |
| `worker`, `alive`, `job` | on the server: the helper's record of workers that run, their cards, other processes |
| `late` | cards of starts the daemon gave up that may still happen |
| `overtaken` | not in the code, and read by no step: the cards about which the helper answered a call while a given-up start of them was still to come |
| `op` | the coroutine that holds the server's lock: where it waits, for which cards, what is left of its plan |
| `asked` | the card a person is clearing, once it was read for that |

The lock (`keepalive_reconcile_lock`) is held across awaits, so one coroutine is
in progress at a time and `op` is its program counter. A reconciliation goes
`Reconcile` (the plan of `list_keepalive_transitions`), then `Cleanup`,
`FinishCleanup`, then `Start`, `Attest`, `StartRead`, `Confirm` or on any
failure `Undo`, `StartFailed`, then `Recover`, `RecoverRead`, `Rebind`, then
per card `Stop`, `StopRead`, `Finalize`. A claim or a move takes free cards at
once (`Claim`), or goes `PlanReclaim`, `Reclaim`, `ReclaimRead`,
`SettleReclaimed`, `ClaimReclaimed`. What needs no lock happens between any two
of these steps: readings (`Observe`, `Unanswered`), a switched policy, a task
that ends, a person clearing a card (`Clear`), workers that die, other
processes, a killed daemon, and starts that were given up (`LateStart`). The
daemon gives a start up on wall time (`adapters.py:465`) and the helper takes its
file lock only after its own checks (`server_keepalive.py:311`), so such a start
may take effect after any later call, also after the stop that was to undo it has
answered. `overtaken` remembers the cards where that can be: nothing the helper
answered about them will be true for good.

### `Helper`: inside one server

`proc` is what runs under each process id, `ticks` and `boot` the clock and the
boot that date it, `file` the state file, `call` the calls under way with their
copy of the record, `slip` the workers whose call was killed or could not write
after they came up. A call waits (`Ask`), takes the lock (`Begin`) or cannot
(`Refuse`), then starts (`Look`, `Fork`, `Capture` or `GiveUp`, `Record`), stops
(`StopNext`, `Open`, `Check`, `Signal`, `Strike`, `Stopped`) or attests. Between
any two steps processes arrive and end, ids are used again, the machine boots,
and a call may be killed. `Keepalive` takes a call as one step; `Helper` is what
happens inside it.

### `ProviderClaim`: an allocation and its job

A claim goes `Prepare` (replay, retry or a new `applying` row), `Observe`,
`Apply`, `Applied` or `Failed`, `Remember`, `Finish`, as in `claim_provider`; a
release goes `ReleaseAsked`, `ReleaseMark`, `ReleaseCall`, then `ReleaseKept` or
`ReleaseSettle` and `ReleaseWrite`; the idle reclaim marks rows in `Ingested` and
gives them back in `ReclaimCall`. `Look` takes a reading of the cluster and
`Ingest` records it later. `Crash` drops everything that is only in memory.
`keyed` is fixed for a behaviour: callers either name their requests or none
does.

### `Inventory`: where a card is

There is one card. `row` is its row at each place (a node of a server) as the
age of the last sighting, `host` the age of what is known of the node, `reading`
what probes under way will report and when they began, `monitor` the outcome of
the last attempt, `keepers` the keepalive leases on the card. `Ingest` is
`ingest_observation` for the card: old news is refused per reading and per node,
the card's row appears (`Found`) unless a fresher row elsewhere contests it,
rows elsewhere that are stale are handed over, missing ones leave, and leases of
absent cards are released.

### `Monitor`: from a probe to a banner

One server: its probe loop (`task`, `probe`), the last success and failure, the
alert, the reminder with its hold, streak and mark, and the banner. `Supervise`
is one pass of `collector_supervisor`; `Evaluated` is `_evaluate_alerts`, which
runs inside every reading and every failure of any server (`OthersAreRead`), at
most once in `Every` (`EVALUATE_EVERY_SECONDS`). From the end of a probe to the
end of the next at most `Gap` passes, the longest pause of the loop and the
probe's deadline, which may be more than `Stale` (`stale_after_seconds`).
`TaskEnds`, `Restart` and a listing that fails are the faults, `MaxFaults` of
them.

### `BrokerStore`: what the app shows

A snapshot is its revision. `refresh` holds the generation, the running task and
what waits for it; `fetch` each generation's request; `required` the revision an
answer to a change named; `request` the changes under way, among them the
batches `delete` and `move`; `marked` the rows shown as changing. `Apply`,
`Observe`, `Serve` and `Rollback` are the service.

In each module a definition placed just before another of almost the same name
(`UnheldExceptOrphaned` before `Unheld`, `AnchorKeepingGaps` before `Anchor`)
is a plausible slip in the same code. Nothing uses it: it is there to show that
the properties tell it from the code's.

## 3. What the runs show

| Run | Bounds | Properties | Result |
|---|---|---|---|
| `ledger_projects` | 1 server, 2 cards, 2 sessions of 2 projects and the App | `ExclusiveCards`, `OneOwnedLeasePerTask`, `BudgetsExceededOnlyByTakeOver`, `ImplementsCardOwnership` | holds, 132,754 states |
| `ledger_fleet` | 2 servers, 3 cards, one lease at a time | `LiveHoldsCards`, `LeasedCardsExist`, `CommitmentsCover`, `CardsLeaveOnEvidence` | holds, 245,420 states |
| `declaration_race` | 2 calls, 2 leases, 2 cards | `OneLeaseForTask`, `TakenLeaseOutOfReach` | holds, 368,429 states |
| `idle_one_server` | 2 cards of one server, times 0..4 | `ClockIsObservedTime`, `TakenAfterObservedIdleness`, `KeepingIsBounded` | holds, 626,044 states |
| `idle_two_servers` | a card on each of two servers, moves, times 0..2 | `QuietServerKeepsCards`, `SeenProcessHoldsCard` | holds, 387,264 states |
| `keepalive_one_card` | 1 card, its other processes, people clearing it, 1 crash | `OnMeansOnlyKeeperSeen`, `SwitchedOffServerIsFreed` | holds, 292,244 states |
| `keepalive_two_cards` | 2 symmetric cards, batches that succeed in part | `WorkersStayAccountedFor`, `StartsOnlyOnUnclaimed` | holds, 2,202,700 states |
| `helper` | 2 calls, 2 cards, 2 process ids, 3 processes per boot, 1 reboot | `RunningWorkersAreOnRecord`, `StoppedMeansStopped`, `OnlyTheWorkerIsSignalled` | holds, 926,544 states |
| `provider_claim` | 2 callers, 2 allocations, 1 kill of the daemon, with and without a key | `NoJobIsForgotten`, `OneJobPerTask`, `LeaseOutlivesItsJob`, `ReleaseIsNotUndone`, `LeaseEndsWithItsJob` | holds, 473,540 states |
| `inventory` | a server read over ssh and a cluster of 2 nodes, limit 1, probes of age 0..1, two readings of the cluster at once | `OneOwner`, `KeepersHaveCards`, `CardIsNotTakenWhileSeen`, `OldNewsChangesNothing`, `CardFindsItsServer` | holds, 375,106 states |
| `monitor` | 1 server, limits of 2 to 5, `Gap` over `Stale`, 1 fault | `AlertAgreesWithMonitor`, `OutageIsLong`, `ServerIsReadAgain`, `OutageIsTold` | holds, 636,792 states |
| `broker_store` | 2 servers, 2 changes at once, 2 revisions, 1 restored database | `MarksMatchChanges`, `ShownIsNotOlder`, `OutageIsReal`, `CatchesUp` | holds, 601,082 states |

Liveness is `SwitchedOffServerIsFreed`, `LeaseEndsWithItsJob`,
`CardFindsItsServer`, `ServerIsReadAgain`, `OutageIsTold` and `CatchesUp`; the
others are safety properties and need no fairness. The type invariants `TypeOK`
hold under the same configurations; no run lists them, as what they say is
implied by how the modules are written, and the types of every module are part
of what is proved.

Why the bounds are enough. Every conflict over a card is between two leases and
every hand-over between two sessions, so two of each, with quotas of one or two
cards, reach every refusal and every grant; a third card lets a lease lose a
part of its cards on one of two servers and keep another. Two calls in progress
show every stale read, as each call reads once and acts once. In `IdleReclaim`
the constants are the smallest that keep the code's order (`Stale <
OutageReset`, `CardReclaim < LeaseReclaim`), so that within the horizon a gap
can be a blip, a pause or an outage, and a card can be kept for every window
and still be taken. In `Keepalive` every decision is about one card, except
that a batch can succeed for a part of it: one card shows every order of calls,
answers, readings and disturbances, two cards every partial batch. Two
identities (three give the same results) tell the confirmed worker from a
replaced one whose sighting is still listed; a third does not start while both
are remembered. With an empty `Disturbed` the second run keeps other processes and clearing
off, which the first one has.

In `Helper` two calls are enough for every overlap, as the lock lets one through
and the other waits with what it asked; two ids with three starts let an id be
used again by a stranger and by a worker of the other card. In `ProviderClaim` a
second allocation is the one that must not be, a second caller the retry. In
`Inventory` the rules relate the card's own row to the others', so one server
and one cluster whose two nodes may disagree about the card show every conflict;
with limit and probe bound 1 a row can be fresh, stale for the newest reading
and stale for a late one. In `Monitor` the limits are the smallest that keep the
code's order at the default interval of 10 s: evaluations 15 s apart come closer
than the 40 s of freshness, a gap between two probes may be 41 s, the hold is no
shorter than that, and what was told is repeated after more. In `BrokerStore` two fetches and two changes at
once show every way an answer can overtake another; the generation is taken
from two values, as at most two fetches are in flight: a change that needs a
third waits.

The fairness of `Keepalive`'s `FairSpec`, used only by `SwitchedOffServerIsFreed`:

* weak fairness of the coroutine that holds the lock, and of a start that was
  given up: an event loop resumes what is ready, and every remote call has a
  timeout, so it is answered or given up;
* strong fairness of `Reconcile`: every collection of the probe loop asks for
  the lock (`observe_endpoint_forever`, `reconcile_collected`), and a lock of
  `asyncio` is first come, first served, so claims cannot keep it away for good;
* strong fairness of an answered cleanup and stop, and of a reading after it:
  the server is not broken for ever whenever it is asked. Without this a worker
  on a dead server stays, which is what the code wants;
* strong fairness of a reading that retires sightings whose absence has lasted
  the grace: readings keep coming, and time passes.

No answer of a start is assumed fair, nor that anybody stops claiming; the
premise is only that the policy is off and that no other process runs on the
cards from some point on.

The fairness elsewhere:

* `ProviderClaim`: strong fairness of readings that know of every job that is
  over (`Telling`), of their ingestion when no later confirmation outdates them
  (`Hearing`), and weak fairness of ingestion: the collector reads for ever,
  and the accounting is not silent for ever. No call of a claim or of a release
  is fair: a lease ends with its job also when nobody asks again.
* `Inventory`: time passes, every server is probed again, and a probe whose
  deadline is up is settled (`RawSSHObservationAdapter.run_probe` kills it).
* `Monitor`: timers fire, a probe ends, a supervisor pass that would start the
  server's task is not put off for ever (faults are bounded), and the
  application shows and marks banners.
* `BrokerStore`: the periodic loop asks again, and of the fetches of the present
  generation one is answered and arrives now and then.

## 4. What is proved

`LedgerProofs` proves, for any finite set of cards and any servers, sessions,
projects and leases and any quotas:

* `TypeCorrect`: `Spec => []TypeOK`;
* `NoCardHeldTwice`: `Spec => []ExclusiveCards`;
* `LiveExactlyWhileHolding`: `Spec => []LiveHoldsCards`;
* `LeasesNameExistingCards`: `Spec => []LeasedCardsExist`;
* `LedgerImplementsOwnership`: `Spec => ImplementsCardOwnership`, the refinement.

They rest on one inductive invariant, `LedgerInv`: the types, exclusive cards,
"live exactly while holding", that rows name known cards, and that known cards
lie on registered servers. None of them is inductive alone. Exclusiveness needs
the types of the rows, and the refinement needs exclusiveness (otherwise the
holder of a card is not a function) and liveness of the holder (otherwise
ending a lease could leave it a card); that a leased card exists needs that an
ingested reading and a deleted server touch only rows of registered servers.
Each operation's step is a lemma of its own; the reconciliation inside `Ingest`
is shown to preserve the invariant as a whole, because binding, reclaim and
expiry pass intermediate ledgers to each other. The assumptions are
`LedgerAssumption` only.

`InventoryProofs` proves, for any servers, clusters, nodes, limits and numbers
of readings under way, from `InventoryAssumption`:

* `CardHasOneOwner`: `Spec => []OneOwner`;
* `KeepersKeepTheirCards`: `Spec => []KeepersHaveCards`;
* `CardIsKeptWhileSeen`: `Spec => CardIsNotTakenWhileSeen`;
* `OldNewsIsIgnored`: `Spec => OldNewsChangesNothing`.

The inductive invariant is the two invariants with `Shape`, the types: ages of
rows stay at most `Absent`, or else time alone would make a row look absent and
leave a lease without it. The heart is `RowsKeepOneOwner`: after a reading every
row elsewhere is stale and handed over, or it contests the card and the reading
puts it nowhere. The action properties are read off the cases of a step.

`DeclarationProofs` proves, for any calls, cards and bounds, from
`DeclarationAssumption`: `TypesHold`, `OneLeaseForTaskHolds` and
`TakenLeaseOutOfReachHolds`. The inductive invariant is the types with "no two
live leases of the task are the project's" (`OneHeld`). What a call read when it
began is no part of it: the two steps that make a lease the project's,
`TakeOver` and `Claim`, look for another one in their own transaction, and that
carries the proof. A call past its first read names a lease that exists
(`Shape`); without that `TakenLeaseOutOfReach` could not be read off the steps.

`IdleReclaimProofs` proves, for any servers, cards and durations, from
`IdleReclaimAssumption`:

* `Invariance` and `TypesHold`: the timestamps of each row and each sighting are
  in order, and what a clock counted was read lately (`Fresh`);
* `SeenProcessHoldsCardHolds`, `QuietServerKeepsCardsHolds` and
  `KeepingIsBoundedHolds`, moves included;
* `ClocksAgreeAlways`: the two timestamps of a row measure at least the idle time
  observed, and exactly that on a card outside `Movable`;
* `ClockIsObservedTimeHolds` and `TakenAfterObservedIdlenessHolds`, for leases
  that are not moved (`Movable = {}`).

The last two need their hypothesis: a card that is moved away and back finds the
streak its row had before (section 5), so with moves they are false, and TLC
shows it. The run checks them under the same condition. The bound on keeping
needs only that a clock is never too short. `Fresh` is needed because a clock may go on
counting over a gap only while the gap is shorter than `OutageReset`: without a
bound on how old the last look was, the code's comparison of two timestamps says
nothing about time that was seen. The heart is `AgreeStep` and `NoShorterStep`, one look at
one card (`_card_idleness`, `_idle_anchor`, `_advance_idle_clock`) by cases: a
process, a blip, an outage that ends the streak, a pause that shifts it.

`HelperProofs` proves, for any cards, calls, process ids and bounds, from
`HelperAssumption` and `NobodyAssumption` (the absent identity is no identity):
`Invariance`, `TypesHold`, `RunningWorkersAreOnRecordHolds`,
`StoppedMeansStoppedHolds` and `OnlyTheWorkerIsSignalledHolds`. The invariant
says that a process was started before now and since the boot (`Clock`), that
the state file and every copy of it in a call name workers of the right card, or
processes that are over (`Records`), that one call at most is past the lock
(`Locked`), what a call knows at each place (`Phases`), and that a running worker
is on record, or held by a call that has yet to record it, or slipped
(`Accounted`). The record alone is not inductive: between `Fork` and `Record`
the worker is in the call only. The heart is that identities are never used
twice: boot, start time and process id together are new whenever a process
starts, so an identity in the record that no process has will never be one
again, and the look between opening a process and signalling it is enough.

`ProviderClaimProofs` proves, for any callers, rows and kills of the daemon,
from `ProviderAssumption` (which names that 0, the absent key, is no key):
`TypesHold`, `NoJobIsForgottenHolds`, `OneJobPerTaskHolds`,
`LeaseOutlivesItsJobHolds` and `ReleaseIsNotUndoneHolds`. The invariant has the
lock (`Locked`), what a row says of its job (`Known`), what calls under way were
told (`Underway`), what a reading not yet ingested says (`Honest`) and that one
attempt at most may still start a job (`OneAttempt`). Each says "is or was
true": a job only moves on, so what was true of a job that is over stays true,
and a late reading can do no harm as long as it says "active" of no row that is
over, or is known to be late. `OneJobPerTask` is not inductive without the
attempts that have not reached the cluster yet, nor without the key that makes
the next caller find them.

`ShownProofs` is about what a person sees, in both modules that have a part in
it. Of `Monitor` it proves, for any limits and any number of faults, from
`MonitorAssumption`:

* `AlertIsTrue`: `Spec => []AlertAgreesWithMonitor`;
* `ReminderMeansLongOutage`: `Spec => OutageIsLong`.

The first is inductive with the types. The second needs `HoldsWatched`: the hold of a
pending reminder has run no longer than somebody has been watching and than
`Hold`, and before it the server was silent for `Stale`, unless an answer came
that no evaluation has seen, or the gap is so long that the next evaluation
starts the hold again. Without the last two cases `HoldsWatched` is false between an
answer and the evaluation that follows it.

Of `BrokerStore` it proves, for any servers, changes at once and fetches in
flight, from `StoreAssumption`: `Invariance`, `MarksMatchChangesHolds`,
`ShownIsNotOlderHolds` and `OutageIsRealHolds`. Besides the types the invariant
says that a generation is in flight exactly while a fetch is active
(`InFlight`), that a batch has not asked for the servers it has left
(`Batches`), that the floor of the next picture covers every answer seen
(`FloorHolds`), and that, until the service goes back, what the present fetch
has read will do unless it is discarded (`UpToDate`). The last is what makes an
outage real: a fetch that a change overtook is discarded or repeated, and its
answer is not counted as a failure.

`KeepaliveProofs` proves, for any cards, identities and number of kills, from
`KeepaliveAssumption`:

* `Invariance` and `TypesHold`;
* `OnMeansOnlyKeeperSeenHolds`: `Spec => []OnMeansOnlyKeeperSeen`;
* `StartsOnlyOnUnclaimedHolds`: `Spec => StartsOnlyOnUnclaimed`;
* `MarkedUntilCrashHolds`: until the daemon is killed, every start that may still
  happen and every worker on a kept card that is not the confirmed one has a
  pending cleanup or is in the coroutine's hands, unless its card is `overtaken`;
* `WorkersStayAccountedForHolds`: `Spec => WorkersStayAccountedFor`.

The invariant has two parts. `Data` is what holds between any two steps: a kept
card is ON only when its worker is all that is seen, the confirmed worker is
seen as long as it runs (`KeepersAreSeen`), and nothing is seen of it on a card
where a start may still happen that no call has overtaken (`LateStartsUnseen`).
`OnMeansOnlyKeeperSeen` needs no more than the types; the other two are what makes a reading trustworthy
when it takes a card's mark away, and what lets a settled stop forget a worker.
`Phased` is what the coroutine relies on at each place: the cards it is still to
start are safe to start (`StartSafe`), where the helper has answered about its cards
(`Answered`) every start that may still happen on them is overtaken, so is
whatever runs on the cards of a cleanup about to be finished, and after a stop a
worker that still runs was listed by a reading since. No part says that a start
which was given up is over. What others do meanwhile is `Calm`: it takes none of
this away (`PhasedStep`), so readings, people's actions and late starts need no
lock. Each effect on the data (a
stop, a start, a reading, a lease that ends, a grant, a confirmation) is a lemma,
each action one more.

`WorkersStayAccountedFor` needs a second invariant, `MarkedUntilCrash`. For each
step `NothingLetSlip` says what it may do to a worker nobody confirmed: cover is
lost only where nothing runs, the confirmed worker does, or the card is
overtaken, and a card stays overtaken until the start and its worker are gone
(`StaysOvertaken`). Three lemmas carry the argument: `ReadingSlip` (a mark goes
only when the card is ON, which excludes strangers and starts nothing has
overtaken), `UndoSlip` with `StartFailedSlip` (a stop without an answer leaves a
mark) and `SettleSlip` (a stop is settled only when a reading
since then leaves the worker out).

`LedgerProofs` also proves, from `LedgerInv`:

* `OneOwnedLeasePerTaskHolds`: inductive with the types; every operation that
  gives a lease an owner, a project or life asks `TaskTaken` of all others;
* `CommitmentsCoverHolds`: inductive, and needs that a lease that is live has
  cards only where a commitment is made or kept in the same step;
* `CardsLeaveOnEvidenceHolds` and `BudgetsExceededOnlyByTakeOverHolds`, by the
  cases of a step; the second counts the cards of a project and needs
  exclusiveness, as a card held twice would count once.

So every safety property of the runs is a theorem for all values of the
constants, two of `IdleReclaim` with no card `Movable`.
Liveness stays with TLC: TLAPS does not reason about fairness and `ENABLED`, so
`SwitchedOffServerIsFreed`, `LeaseEndsWithItsJob`, `CardFindsItsServer`,
`ServerIsReadAgain`, `OutageIsTold` and `CatchesUp` hold for the instances of
the runs. The formulas of section 5 are false, and nothing is proved of them.

## 5. Where the code does not do what is said of it

The eight properties below are in the modules and are false; TLC shows each
violated with a configuration of one property. The first needs the constants of
`LedgerFleet.cfg` with `Leases = {l1, l2}`, `Cards = {a1, b1}` and
`SYMMETRY LeaseSymmetry`; the next four those of `DeclarationRace.cfg` with
`Cards = {g1, g2, g3}` and `MaxLeases = 1`; the sixth those of
`KeepaliveOneCard.cfg` with `Disturbed = {}` and `MaxCrashes = 0`; the last two
those of `Monitor.cfg`.

1. `CommitmentsFollowCards`: a partial reclaim or clearing (`service.py:9347`,
   8773) leaves a commitment on a server without a card of the lease, and the
   server cannot be deleted. `docs/IMPLEMENTATION_STATUS_zh.md:588` says that no
   active lease has a commitment without card rows.
2. `NeverMoreThanAsked`: overlapping or retried `change=true` declarations add
   the difference twice (`api.py:1458`); `agent_contract.py:110` says repeating
   "is always safe".
3. `EpochTellsCards`: a move by the App leaves `resource_epoch`
   (`service.py:8376`), which "rises on every change to the card set"
   (`models.py:431`).
4. `SeenNewsWasTold`: repeating a declaration consumes the news (`api.py:1466`)
   that a holder "is told about on its next heartbeat" (`service.py:85`).
5. `DeclarationsAreAnswered`: a lease that ends in the middle of a repeated
   declaration makes the answer a `KeyError` (`api.py:1466`).
6. `LeftBehindIsTakenBack`: `docs/IMPLEMENTATION_STATUS_zh.md:40` says that retries
   take back the workers a start leaves behind when its cleanup fails. A start is
   given up, its undo fails and leaves the mark, a cleanup is answered while the
   start has yet to take the helper's lock (`server_keepalive.py:314`), the start
   happens, and `finish_keepalive_cleanup` clears the mark: the worker has neither
   lease nor mark, and switching the policy off does not stop it. With
   `c \in overtaken` as a third disjunct of its right side the property holds, so
   nothing else breaks it.
7. `LateMeansOverdue`: `config.py:166` says that a host is not late until a full
   cycle and a full probe could have completed. The pause of the loop is up to 1.1
   intervals (`api.py:1103`): a cycle and a probe take 41 s at the default
   interval, and the limit is 40; at 30 s they take 63, and it is 60.
8. `OutageIsToldAnyway`: reminders are evaluated when a probe of any server ends,
   and a gap of more than `stale_after_seconds` starts the hold again
   (`service.py:6977`). When the only server hangs, each gap may be a pause and a
   full probe, which is more, and nobody is ever told. `OutageIsTold`, which
   holds, has the premise that evaluations come closer than that in the end, as
   they do when other servers are read; that the alert is raised needs no premise.

Remarks met while modelling, which no property states:

* A card moved away and back uses its row again with the idle clock it had
  (`service.py:8422`), and `Reassign` of `IdleReclaim` does the same;
  `ClockIsObservedTime` is checked for cards that stay.
* A fact "unknown" makes an allocation that is over "unconfirmed" again, against
  the comment at `service.py:1910`; `ReleaseIsNotUndone` allows that and nothing
  more. Mixing keyed and keyless claims of one task can make two jobs.
* Only `_eligible_gpus` looks at the physical UUID. `reassign_lease_gpus`
  (8409) and `activate_keepalives` (3640) do not, so once a card was handed to
  another server two leases can hold it; `OneOwner` is about rows, not leases.
  The alerts of a moved UUID are never closed while the server exists.
* Changing the interval from 5 to 30 s can leave the alert up while the server
  counts as online again, against the comment at `service.py:6236`;
  `AlertAgreesWithMonitor` is about one interval. A probe loop keeps the settings
  it was started with (`api.py:1074`), against
  `docs/IMPLEMENTATION_STATUS_zh.md:611`.
* In the app, a failed action gives no message while a refresh owns the error
  line (`BrokerStore.swift:156`, 189); the list of alerts may stay as it was when
  their number is unchanged (1511); after the database was restored the app
  stays disconnected until the revisions pass what it had shown.

## 6. What is not modelled, and why

* Wording, formatting, audit texts, revisions and the dashboard: nothing here
  depends on them, except which actions count as news.
* SSH, parsing and remote commands: a reading is what they deliver, complete,
  incomplete or not at all.
* In `Ledger`: cluster allocations, which have rows of their own
  (`ProviderClaim`), and keepalive leases, which meet workload leases only
  through the hand-over, which `Keepalive` has.
* Stateless layers (HTTP schemas, MCP, CLI) and one-way migrations.
* The choice of the best placement: `Ledger` and `Declaration` take any
  placement the code may return.
* Abstractions worth naming: sightings are per card, not per process; a
  complete reading in `IdleReclaim` lists every card of its server (cards that
  go missing are in `Ledger`); audit news is a counter.
* Of `Keepalive`: a call to the helper is one step (`Helper` has what is inside),
  and a reading is taken and ingested in one step. The helper's record and its
  worker change together; in `Helper` they do not, and `slip` are the workers a
  killed call or a failed write leaves unrecorded, which no later call finds.
  `StoppedMeansStopped` is about what had come up when the stop answers; a start
  that takes the lock afterwards is `LateStart` of `Keepalive`, and
  `WorkersStayAccountedFor` exempts the cards where it does, as the code has
  nothing that would find their workers. A daemon killed in the middle of a start leaves a worker no
  row points at, so `WorkersStayAccountedFor` says nothing once `Crash` has
  happened; and a server that has not been read for long may be cleared without
  proof that it is empty, so it exempts that step too. Left out are claims that
  lock several servers, cards that vanish, and the `CONFLICT` state of a
  keepalive lease, which no operation sets.
* Of `IdleReclaim`: `Clear` of an unreachable server asks only for the age of its
  last complete reading, not for the outcome of the last attempt.
* Of `ProviderClaim`: other plugins than Slurm, allocations with several jobs,
  and the idle clock of an allocation; `finish` does not look again at the
  allocation's state, and neither does the module.
* Of `Inventory`: what a reading measures, and a second card, which no rule
  relates to the first. A reading has one age though a plugin stamps each node.
* Of `Monitor`: checks of selected servers, changed intervals, reminders of
  reclaimed leases and of free capacity.
* Of `BrokerStore`: fixtures, telemetry history, the light check between two
  refreshes, and error messages.
* Login to servers, the placement's rank and the daemon's ports decide nothing
  here but whether a server answers, which card of several is taken, and when
  the daemon restarts, all of which are free in the modules.

## 7. What is left

1. `Ledger` and `Inventory` composed: leases over cards that change hands, with
   the physical UUID in the rule of exclusiveness.
2. The reminder that a lease is about to lose cards (`_alert_signals`) against
   the clocks of `IdleReclaim`: that a holder is warned before a card goes.
3. Retention and the migration of a ledger that is in use.
