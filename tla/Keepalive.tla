----------------------------- MODULE Keepalive -----------------------------
(***************************************************************************)
(* Workers that keep the idle cards of one server warm: the coroutine      *)
(* that holds the server's lock (a reconciliation, or a claim that takes   *)
(* kept cards over), the helper on the server that starts and stops the    *)
(* workers, the readings, and everything that needs no lock.               *)
(*                                                                         *)
(* A step is what happens between two awaits.  A call to the helper takes  *)
(* effect and is answered in one step; an answer that gets lost leaves any *)
(* part of the effect behind, and a start that was given up may still      *)
(* happen later, also after calls that were made since.  A collection is   *)
(* one reading, or none.  The readings of the probe loop come at any time. *)
(***************************************************************************)
EXTENDS FiniteSets, Naturals

CONSTANTS
  Cards,
  Ids,       \* identities of workers; bound: those a card can remember
  Job,       \* any process that is not a worker
  None,
  Disturbed, \* bound: the cards other processes use and people clear
  MaxCrashes \* bound: how often the daemon is killed

ASSUME KeepaliveAssumption == Job \notin Ids /\ None \notin Ids \union {Job} /\ MaxCrashes \in Nat

VARIABLES
  policy,  \* keepalive_policy is idle_keepalive
  owner,   \* kind of the active lease of each card
  keep,    \* KeepaliveCurrent of the kept cards
  mark,    \* cards with cleanup_pending
  seen,    \* active process sightings
  stale,   \* those the last reading left out
  reach,   \* how old the last reading is
  worker,  \* the worker the helper has on record, if it runs
  alive,   \* cards whose recorded worker runs
  job,     \* cards another process runs on
  late,    \* cards of starts that were given up and may still happen
  overtaken, \* history, read by no step: cards the helper answered a call about
             \* before a given-up start of them, until no such start or worker is left
  op,      \* the coroutine that holds the server's lock
  asked,   \* kept cards somebody is clearing, and that were read for it
  crashes  \* how often the daemon was killed

ledgerVars == <<policy, owner, keep, mark>>
readingVars == <<seen, stale, reach>>
serverVars == <<worker, alive, job, late, overtaken>>
asideVars == <<asked, crashes>>
vars == <<ledgerVars, readingVars, serverVars, op, asideVars>>

Processes == Ids \union {Job}
Kept == {c \in Cards : owner[c] = "keepalive"}

\* An unkept card's row says nothing that is read before the next worker's
\* start overwrites it, except for its mark.  An old error in it is forgotten
\* once a task runs there (_clear_keepalive_errors_for_assigned_workloads).
NotKept == [actual |-> "OFF", expected |-> None]

NoPlan == [cleanup |-> {}, start |-> {}, recover |-> {}, stop |-> {}]

\* at: where the coroutine waits; on: the cards its current call is about;
\* plan: what the reconciliation has left to do; want and move: the cards the
\* claim is for, and whether it moves a task onto them; since: cards whose
\* worker was listed after the stop; failed: the call's answer was no success.
Free == [at |-> "free", on |-> {}, plan |-> NoPlan, want |-> {}, move |-> FALSE,
         since |-> {}, failed |-> FALSE]
Doing(at, on, plan) == [Free EXCEPT !.at = at, !.on = on, !.plan = plan]

\* What a reconciliation turns to next.
Onward(plan) ==
  IF plan.cleanup # {} THEN Doing("cleanup", plan.cleanup, [plan EXCEPT !.cleanup = {}])
  ELSE IF plan.start # {} THEN Doing("start", plan.start, [plan EXCEPT !.start = {}])
  ELSE IF plan.recover # {} THEN Doing("recover", plan.recover, [plan EXCEPT !.recover = {}])
  ELSE IF plan.stop # {} THEN Doing("stop", {}, plan)
  ELSE Free

-----------------------------------------------------------------------------
(* The helper on the server *)

\* LocalKeepaliveController._disable for those of S it gets to.
StopWorkers(S) ==
  /\ worker' = [c \in Cards |-> IF c \in S THEN None ELSE worker[c]]
  /\ alive' = alive \ S

\* Identities no card remembers for c.
Unused(c) == Ids \ (seen[c] \union {worker[c], keep[c].expected})

\* LocalKeepaliveController._enable: a worker that runs is left alone.
StartWorkers(S) ==
  /\ \A c \in S \ alive : Unused(c) # {}
  /\ worker' = [c \in Cards |-> IF c \in S \ alive THEN CHOOSE i \in Unused(c) : TRUE ELSE worker[c]]
  /\ alive' = alive \union S

\* The adapter gives a start up on wall time, and the helper takes its file lock
\* only after its preflight.  A start that has the lock makes a later call wait
\* and be given up, too, and is done with before any call is answered; one that
\* has yet to take it is overtaken by the call.
StillOvertaken(S) == overtaken' = (overtaken \union (late \intersect S)) \intersect (alive' \union late')

\* set_enabled(False).
StopCall(S, done) ==
  /\ \E T \in SUBSET S : (done => T = S) /\ StopWorkers(T)
  /\ UNCHANGED <<job, late>>
  /\ StillOvertaken(IF done THEN S ELSE {})

\* set_enabled(True): "unreached" by the preflight, before anything happened,
\* or "unsure" of what did, L being what is still going to.
StartCall(S, answer) ==
  /\ \E T \in SUBSET S, L \in SUBSET S :
       /\ T \intersect L = {}
       /\ answer = "done" => T = S /\ L = {}
       /\ answer = "unreached" => T = {} /\ L = {}
       /\ StartWorkers(T)
       /\ late' = late \union L
  /\ StillOvertaken(IF answer = "done" THEN S ELSE {})
  /\ UNCHANGED job

\* attest_workers: each recorded worker runs, alone on its card.
Attested(S) == S \subseteq alive /\ S \intersect job = {}

\* The call that asks for it fails when the helper cannot be asked, too.
AttestCall(S, ok) ==
  /\ ok => Attested(S)
  /\ UNCHANGED <<worker, alive, job, late>>
  /\ StillOvertaken(IF ok THEN S ELSE {})

\* A start that was given up takes the lock and ends, with some of its workers
\* running; several of them end one after the other.
LateStart ==
  /\ \E L \in SUBSET late \ {{}} :
       /\ \E S \in SUBSET L : StartWorkers(S)
       /\ late' = late \ L
  /\ StillOvertaken({})
  /\ UNCHANGED <<ledgerVars, readingVars, job, op, asideVars>>

\* Of one that ended the record is only dropped, so it is left out at once.
WorkerDies(c) ==
  /\ c \in alive
  /\ alive' = alive \ {c} /\ worker' = [worker EXCEPT ![c] = None]
  /\ UNCHANGED <<ledgerVars, readingVars, job, late, op, asideVars>>
  /\ StillOvertaken({})

JobToggles(c) ==
  /\ c \in Disturbed
  /\ job' = IF c \in job THEN job \ {c} ELSE job \union {c}
  /\ UNCHANGED <<ledgerVars, readingVars, worker, alive, late, overtaken, op, asideVars>>

-----------------------------------------------------------------------------
(* Readings *)

Listed(c) == (IF c \in alive THEN {worker[c]} ELSE {}) \union (IF c \in job THEN {Job} ELSE {})

ActualAmongOthers(expected, sightings) ==
  IF sightings = {} THEN "OFF" ELSE IF expected \in sightings THEN "ON" ELSE "ERROR"

\* _record_observed_keepalive for one kept card.
Actual(expected, sightings) ==
  IF sightings = {} THEN "OFF" ELSE IF sightings = {expected} THEN "ON" ELSE "ERROR"

\* _set_keepalive_current; of a card that is found ON no worker is left behind.
WithActual(now) ==
  [c \in Cards |-> IF c \in Kept THEN [keep[c] EXCEPT !.actual = Actual(keep[c].expected, now[c])]
                   ELSE keep[c]]
NothingLeftBehind(keeps) == mark \ {c \in Kept : keeps[c].actual = "ON"}

\* ingest_observation of a complete reading; on the cards of ripe the absence
\* of the processes an earlier reading left out has lasted the grace.
Reading(ripe) ==
  LET now == [c \in Cards |-> Listed(c) \union (seen[c] \ (IF c \in ripe THEN stale[c] ELSE {}))]
  IN
  /\ seen' = now
  /\ stale' = [c \in Cards |-> now[c] \ Listed(c)]
  /\ reach' = "fresh"
  /\ keep' = WithActual(now)
  /\ mark' = NothingLeftBehind(keep')
  /\ UNCHANGED <<policy, owner, serverVars, crashes>>

\* The cards a stop is about whose expected worker this reading still lists.
StillListed == {c \in op.on : keep[c].expected \in Listed(c)}
Stopping == op.at \in {"stopRead", "finalize", "reclaimRead", "settle"}

\* observe_endpoint_forever, and the collection of a request to clear one card.
Observe(ripe) ==
  /\ Reading(ripe)
  /\ asked' \in {asked} \union {{c} : c \in Kept \intersect Disturbed}
  /\ op' = IF Stopping THEN [op EXCEPT !.since = @ \union StillListed] ELSE op

\* The server does not answer; a failed attempt restarts the absence clocks.
Unanswered ==
  /\ reach # "gone"
  /\ reach' = IF reach = "fresh" THEN "stale" ELSE "gone"
  /\ stale' = [c \in Cards |-> {}]
  /\ UNCHANGED <<ledgerVars, seen, serverVars, op, asideVars>>

-----------------------------------------------------------------------------
(* What the ledger says of a card *)

\* _gpu_state, for a card no lease has.
Available(c) == reach = "fresh" /\ owner[c] = "none" /\ seen[c] = {}

\* _eligible_gpus with include_reclaimable_keepalive
Reclaimable(c) ==
  /\ c \in Kept
  /\ reach = "fresh"
  /\ keep[c].actual = "ON" \/ (keep[c].actual = "OFF" /\ seen[c] = {})

NeedsConfirmation(c) ==
  /\ c \in Kept
  /\ seen[c] # {}
  /\ keep[c].actual = "ERROR" \/ keep[c].expected = None \/ seen[c] # {keep[c].expected}

Grant(S) ==
  /\ owner' = [c \in Cards |-> IF c \in S THEN "workload" ELSE owner[c]]
  /\ keep' = [c \in Cards |-> IF c \in S THEN NotKept ELSE keep[c]]
  /\ UNCHANGED <<policy, mark>>

\* A keepalive lease ends.
EndKeep(c) ==
  /\ owner' = [owner EXCEPT ![c] = "none"]
  /\ keep' = [keep EXCEPT ![c] = NotKept]
  /\ UNCHANGED <<policy, mark>>

\* finalize_keepalive_stop, after a reading that came after the stop: nothing
\* but the stopped worker's sighting is left, and that is from before.
Settled(c) ==
  /\ c \in Kept
  /\ seen[c] \subseteq {keep[c].expected}
  /\ c \in op.since => seen[c] = {}

Settle(c) ==
  /\ EndKeep(c)
  /\ seen' = [seen EXCEPT ![c] = {}]
  /\ stale' = [stale EXCEPT ![c] = {}]
  /\ UNCHANGED <<reach, serverVars, asideVars>>

\* confirm_keepalive_workers, for what the helper attested.
Confirmed(S) ==
  /\ policy
  /\ \A c \in S : owner[c] # "workload" /\ seen[c] = {worker[c]}

Activate(S) ==
  /\ owner' = [c \in Cards |-> IF c \in S THEN "keepalive" ELSE owner[c]]
  /\ keep' = [c \in Cards |->
        IF c \in S THEN [actual |-> "ON", expected |-> worker[c]] ELSE keep[c]]
  /\ mark' = mark \ S
  /\ UNCHANGED policy

\* The coroutine of op waits for the collection it asked for.
OwnReading(from, ok, then, otherwise) ==
  /\ op.at = from
  /\ IF ok
     THEN /\ \E ripe \in SUBSET Cards : Reading(ripe)
          /\ UNCHANGED asked
          /\ op' = [then EXCEPT !.since = op.since \union (IF Stopping THEN StillListed ELSE {})]
     ELSE /\ op' = otherwise
          /\ UNCHANGED <<ledgerVars, readingVars, serverVars, asideVars>>

-----------------------------------------------------------------------------
(* reconcile_endpoint_keepalive *)

CleanupsOfThePolicy == IF policy THEN mark \ Kept ELSE {}

\* Whatever the policy: cards with a worker left behind, and no lease for it.
Cleanups == mark \ Kept

\* Kept cards whose worker is gone, and free ones out of their cooldown.
Starting(warm) ==
  {c \in Kept : seen[c] = {}} \union {c \in Cards \ (warm \union Cleanups) : Available(c)}

\* list_keepalive_transitions; the cooldown of the cards of warm is not over.
Transitions(warm) ==
  IF policy
  THEN [NoPlan EXCEPT
          !.cleanup = Cleanups,
          !.start = Starting(warm),
          !.recover = {c \in Kept : NeedsConfirmation(c) /\ Cardinality(seen[c]) = 1}]
  ELSE [NoPlan EXCEPT !.cleanup = Cleanups, !.stop = Kept]

\* _workload_release_cooldown_remaining_seconds: a task's lease may have ended
\* on any free card not long ago.
MayBeWarm == {c \in Cards : Available(c)}

\* Takes the lock.
Reconcile ==
  /\ op = Free
  /\ \E warm \in SUBSET MayBeWarm : op' = Onward(Transitions(warm))
  /\ UNCHANGED <<ledgerVars, readingVars, serverVars, asideVars>>

CleanupWhateverTheAnswer(done) ==
  /\ op.at = "cleanup"
  /\ StopCall(op.on, done)
  /\ op' = [op EXCEPT !.at = "finish"]
  /\ UNCHANGED <<ledgerVars, readingVars, asideVars>>

Cleanup(done) ==
  /\ op.at = "cleanup"
  /\ StopCall(op.on, done)
  /\ op' = IF done THEN [op EXCEPT !.at = "finish"] ELSE Onward(op.plan)
  /\ UNCHANGED <<ledgerVars, readingVars, asideVars>>

\* finish_keepalive_cleanup
FinishCleanup ==
  /\ op.at = "finish"
  /\ mark' = mark \ op.on
  /\ op' = Onward(op.plan)
  /\ UNCHANGED <<policy, owner, keep, readingVars, serverVars, asideVars>>

Start(answer) ==
  /\ op.at = "start"
  /\ StartCall(op.on, answer)
  /\ op' = CASE answer = "done" -> [op EXCEPT !.at = "attest"]
              [] answer = "unsure" -> [op EXCEPT !.at = "undo"]
              [] answer = "unreached" -> [op EXCEPT !.at = "error"]
  /\ UNCHANGED <<ledgerVars, readingVars, asideVars>>

Attest(ok) ==
  /\ op.at = "attest"
  /\ AttestCall(op.on, ok)
  /\ op' = [op EXCEPT !.at = IF ok THEN "startRead" ELSE "undo"]
  /\ UNCHANGED <<ledgerVars, readingVars, asideVars>>

StartRead(ok) ==
  OwnReading("startRead", ok, [op EXCEPT !.at = "confirm"], [op EXCEPT !.at = "undo"])

Confirm ==
  /\ op.at = "confirm"
  /\ IF Confirmed(op.on)
     THEN Activate(op.on) /\ op' = Onward(op.plan)
     ELSE UNCHANGED ledgerVars /\ op' = [op EXCEPT !.at = "undo"]
  /\ UNCHANGED <<readingVars, serverVars, asideVars>>

\* cleanup_failed_start
Undo(done) ==
  /\ op.at = "undo"
  /\ StopCall(op.on, done)
  /\ op' = [op EXCEPT !.at = "error", !.failed = ~done]
  /\ UNCHANGED <<ledgerVars, readingVars, asideVars>>

\* set_keepalive_error; the exception ends the reconciliation.
StartFailed ==
  /\ op.at = "error"
  /\ keep' = [c \in Cards |->
        IF c \in op.on \intersect Kept THEN [keep[c] EXCEPT !.actual = "ERROR"] ELSE keep[c]]
  /\ mark' = IF op.failed THEN mark \union op.on ELSE mark
  /\ op' = Free
  /\ UNCHANGED <<policy, owner, readingVars, serverVars, asideVars>>

Recover(ok) ==
  /\ op.at = "recover"
  /\ AttestCall(op.on, ok)
  /\ op' = IF ok THEN [op EXCEPT !.at = "recoverRead"] ELSE Free
  /\ UNCHANGED <<ledgerVars, readingVars, asideVars>>

RecoverRead(ok) == OwnReading("recoverRead", ok, [op EXCEPT !.at = "rebind"], Free)

Rebind ==
  /\ op.at = "rebind"
  /\ IF Confirmed(op.on)
     THEN Activate(op.on) /\ op' = Onward(op.plan)
     ELSE UNCHANGED ledgerVars /\ op' = Free
  /\ UNCHANGED <<readingVars, serverVars, asideVars>>

\* prepare_keepalive_stop: those of S that still have a keepalive lease.
StopTargets(S) == S \intersect Kept

\* Every card is looked at before any is stopped.
PrepareStops ==
  /\ op.at = "stop"
  /\ op' = IF StopTargets(op.plan.stop) = {} THEN Free
           ELSE [op EXCEPT !.at = "stopping", !.plan.stop = StopTargets(@)]
  /\ UNCHANGED <<ledgerVars, readingVars, serverVars, asideVars>>

\* One card; its reading comes whatever the answer.
Stop(c, done) ==
  /\ op.at = "stopping" /\ c \in op.plan.stop
  /\ StopCall({c}, done)
  /\ op' = [op EXCEPT !.at = "stopRead", !.on = {c}, !.plan.stop = @ \ {c}, !.since = {}]
  /\ UNCHANGED <<ledgerVars, readingVars, asideVars>>

NextStop == IF op.plan.stop = {} THEN Free
            ELSE [op EXCEPT !.at = "stopping", !.on = {}, !.since = {}]

StopRead(ok) == OwnReading("stopRead", ok, [op EXCEPT !.at = "finalize"], NextStop)

Finalize ==
  /\ op.at = "finalize"
  /\ op' = NextStop
  /\ \E c \in op.on :
       IF Settled(c) THEN Settle(c)
       ELSE UNCHANGED <<ledgerVars, readingVars, serverVars, asideVars>>

-----------------------------------------------------------------------------
(* claim_request_now and apply_lease_gpu_reassignment *)

\* create_request and reassign_lease_gpus: a task moves to a card no lease has.
Grantable(S, move) == \A c \in S : IF move THEN owner[c] = "none" ELSE Available(c)

ClaimWithoutLock(S, move) ==
  /\ Grantable(S, move)
  /\ Grant(S)
  /\ UNCHANGED <<readingVars, serverVars, op, asideVars>>

Claim(S, move) ==
  /\ op = Free
  /\ Grantable(S, move)
  /\ Grant(S)
  /\ UNCHANGED <<readingVars, serverVars, op, asideVars>>

\* keepalive_reclaim_request_for_reassignment: no other task is in the way.
OnlyKeepersBlock(S) == \A c \in S : owner[c] # "workload"

\* plan_keepalive_reclaim, when there are not enough free cards.
PlanReclaim(S, move) ==
  /\ op = Free
  /\ S \intersect Kept # {}
  /\ move => OnlyKeepersBlock(S)
  /\ \A c \in S : Reclaimable(c) \/ Grantable({c}, move)
  /\ op' = [Free EXCEPT !.at = "reclaim", !.on = S \intersect Kept, !.want = S, !.move = move]
  /\ UNCHANGED <<ledgerVars, readingVars, serverVars, asideVars>>

\* prepare_keepalive_stop of each target, then one call for all of them.
Reclaim(done) ==
  /\ op.at = "reclaim"
  /\ IF StopTargets(op.on) = op.on
     THEN /\ StopCall(op.on, done)
          /\ op' = [op EXCEPT !.at = "reclaimRead", !.failed = ~done]
     ELSE op' = Free /\ UNCHANGED serverVars
  /\ UNCHANGED <<ledgerVars, readingVars, asideVars>>

ReclaimRead(ok) == OwnReading("reclaimRead", ok, [op EXCEPT !.at = "settle"], Free)

SettleReclaimed ==
  /\ op.at = "settle"
  /\ \E c \in op.on :
       IF Settled(c)
       THEN /\ Settle(c)
            /\ op' = IF op.on # {c} THEN [op EXCEPT !.on = @ \ {c}, !.since = @ \ {c}]
                     ELSE IF op.failed THEN Free
                     ELSE [Free EXCEPT !.at = "claim", !.want = op.want, !.move = op.move]
       ELSE op' = Free /\ UNCHANGED <<ledgerVars, readingVars, serverVars, asideVars>>

ClaimReclaimed ==
  /\ op.at = "claim"
  /\ IF Grantable(op.want, op.move) THEN Grant(op.want) ELSE UNCHANGED ledgerVars
  /\ op' = Free
  /\ UNCHANGED <<readingVars, serverVars, asideVars>>

-----------------------------------------------------------------------------
(* Without the lock *)

\* configure_keepalive_policy
SetPolicy ==
  /\ policy' = ~policy
  /\ UNCHANGED <<owner, keep, mark, readingVars, serverVars, op, asideVars>>

\* A task's lease ends: released, given back, reclaimed or cleared.
TaskEnds(c) ==
  /\ owner[c] = "workload"
  /\ owner' = [owner EXCEPT ![c] = "none"]
  /\ UNCHANGED <<policy, keep, mark, readingVars, serverVars, op, asideVars>>

\* release_empty_conflicted_lease of a keepalive lease.
Clear(c) ==
  /\ c \in Kept \intersect Disturbed
  /\ reach = "gone" \/ (c \in asked /\ reach = "fresh" /\ seen[c] = {})
  /\ EndKeep(c)
  /\ asked' = {}
  /\ UNCHANGED <<readingVars, serverVars, op, crashes>>

\* The daemon is killed and comes back; what it had asked for has happened.
Crash ==
  /\ crashes < MaxCrashes
  /\ crashes' = crashes + 1
  /\ op' = Free
  /\ asked' = {}
  /\ UNCHANGED <<ledgerVars, readingVars, serverVars>>

-----------------------------------------------------------------------------
Init ==
  /\ policy = FALSE
  /\ owner = [c \in Cards |-> "none"]
  /\ keep = [c \in Cards |-> NotKept]
  /\ mark = {}
  /\ seen = [c \in Cards |-> {}] /\ stale = seen /\ reach = "stale"
  /\ worker = [c \in Cards |-> None]
  /\ alive = {} /\ job = {} /\ late = {} /\ overtaken = {}
  /\ op = Free
  /\ asked = {} /\ crashes = 0

Reconciliation ==
  \/ Reconcile \/ FinishCleanup \/ Confirm \/ StartFailed \/ Rebind
  \/ PrepareStops \/ Finalize
  \/ \E answer \in {"done", "unsure", "unreached"} : Start(answer)
  \/ \E ok \in BOOLEAN :
       \/ Cleanup(ok) \/ Attest(ok) \/ StartRead(ok) \/ Undo(ok)
       \/ Recover(ok) \/ RecoverRead(ok) \/ StopRead(ok)
       \/ \E c \in Cards : Stop(c, ok)

Claiming ==
  \/ \E S \in SUBSET Cards \ {{}}, move \in BOOLEAN : Claim(S, move) \/ PlanReclaim(S, move)
  \/ SettleReclaimed \/ ClaimReclaimed
  \/ \E ok \in BOOLEAN : Reclaim(ok) \/ ReclaimRead(ok)

Around ==
  \/ \E ripe \in SUBSET Cards : Observe(ripe)
  \/ Unanswered \/ LateStart \/ SetPolicy \/ Crash
  \/ \E c \in Cards : WorkerDies(c) \/ JobToggles(c) \/ TaskEnds(c) \/ Clear(c)

Next == Reconciliation \/ Claiming \/ Around

Spec == Init /\ [][Next]_vars

\* The daemon runs: the coroutine goes on, and a reconciliation gets the lock
\* at times.  The helper does what it was asked, and a reading succeeds, at
\* times; what was left out stays left out for the grace at times.
Fairness ==
  /\ WF_vars(op # Free /\ (Reconciliation \/ Claiming))
  /\ SF_vars(Reconcile)
  /\ WF_vars(LateStart)
  /\ SF_vars(Cleanup(TRUE))
  /\ \A c \in Cards : SF_vars(Stop(c, TRUE))
  /\ SF_vars(StopRead(TRUE))
  /\ SF_vars(Observe(Cards) /\ seen' # seen)

FairSpec == Spec /\ Fairness

-----------------------------------------------------------------------------
(* Properties *)

Sightings == SUBSET Processes

TypeOK ==
  /\ policy \in BOOLEAN
  /\ owner \in [Cards -> {"none", "keepalive", "workload"}]
  /\ keep \in [Cards -> [actual : {"ON", "OFF", "ERROR"}, expected : Ids \union {None}]]
  /\ mark \subseteq Cards /\ alive \subseteq Cards /\ job \subseteq Cards
  /\ late \subseteq Cards /\ overtaken \subseteq Cards
  /\ seen \in [Cards -> Sightings] /\ stale \in [Cards -> Sightings]
  /\ reach \in {"fresh", "stale", "gone"}
  /\ worker \in [Cards -> Ids \union {None}]
  /\ op.on \subseteq Cards /\ op.want \subseteq Cards /\ op.since \subseteq op.on
  /\ \A part \in DOMAIN op.plan : op.plan[part] \subseteq Cards
  /\ asked \subseteq Cards /\ crashes \in 0 .. MaxCrashes

\* Cards whose start the coroutine has yet to see through.
InHand == IF op.at \in {"attest", "startRead", "confirm", "undo"} \/ (op.at = "error" /\ op.failed)
          THEN op.on ELSE {}

\* Cards with workers that run, or are about to, and that nothing will ever stop.
Unaccounted == {c \in alive \union late : c \notin Kept \union mark \union InHand}

\* A worker is never let slip: as long as one runs, or may still start, its
\* card has a keepalive lease, a pending cleanup, or a coroutine that sees to
\* it.  What may break this is a daemon killed in the middle of a start,
\* somebody clearing a server that no longer answers, and, on the card it is
\* for, a given-up start that takes the helper's lock after a call that was
\* answered since (adapters.py gives up on wall time).
WorkersStayAccountedFor ==
  [][crashes' = 0 /\ ~(reach = "gone" /\ \E c \in Cards : Clear(c))
     => Unaccounted' \ overtaken' \subseteq Unaccounted]_vars

\* What IMPLEMENTATION_STATUS_zh.md:40 says, that retries take back the workers
\* which a start leaves behind when its cleanup fails: a card that is marked is
\* kept in the end, or no worker of it runs and none may still come up.  The
\* code breaks it when a given-up start happens after the cleanup was answered
\* (finish_keepalive_cleanup).
LeftBehindIsTakenBack == \A c \in Cards : c \in mark ~> c \in Kept \/ c \notin alive \union late

\* No worker is started on a card a task holds: the lock spans the decision,
\* the start and its confirmation.  (A start that was given up may still happen
\* after its card was granted.)
StartsOnlyOnUnclaimed ==
  [][\A c \in Cards : c \in alive' \ alive /\ c \notin late => owner[c] # "workload"]_vars

\* A card counts as kept only while the confirmed worker is all that is seen.
OnMeansOnlyKeeperSeen ==
  \A c \in Kept : keep[c].actual = "ON" => keep[c].expected # None /\ seen[c] = {keep[c].expected}

\* A server that was switched off and is left alone gets rid of its workers:
\* in the end no card is kept and no cleanup is pending, whatever starts, stops
\* and claims had failed before.
SwitchedOffServerIsFreed ==
  <>[](~policy /\ job = {}) => <>[](Kept = {} /\ mark = {})

=============================================================================
