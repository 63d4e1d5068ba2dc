--------------------------- MODULE ProviderClaim ---------------------------
(***************************************************************************)
(* Allocations of a cluster for one task: claims that ask the cluster      *)
(* outside the database's writer lock, readings of the cluster that arrive *)
(* late, releases by the holder and by the idle reclaim, a daemon that is  *)
(* killed between any two steps, and the cluster's jobs.                   *)
(*                                                                         *)
(* All claims are for one task on one server and ask for the same; either  *)
(* every caller names its request by a transport key, or none does.  The   *)
(* terminal states released, expired and failed are one, "over".           *)
(***************************************************************************)
EXTENDS FiniteSets, Naturals

CONSTANTS
  Callers,
  TaskKey,   \* the identity of a request that names none
  Keys,      \* idempotency keys
  MaxRows,   \* bound: allocations ever asked for
  MaxCrashes \* bound: how often the daemon is killed

\* 0 stands for no row in an answer and for the key of a row that lost it.
ASSUME ProviderAssumption ==
  /\ TaskKey \notin Keys /\ 0 \notin Keys \union {TaskKey}
  /\ MaxRows \in Nat /\ MaxCrashes \in Nat

Rows == 1 .. MaxRows

VARIABLES
  keyed,   \* whether callers name their requests
  row,     \* ResourceAllocation
  lease,   \* the lease of each allocation
  issued,  \* leases ever made for each allocation
  job,     \* the cluster's job for each allocation
  answer,  \* IdempotencyRecord: the allocation a key was answered with
  claim,   \* calls of claim_provider
  snap,    \* a reading of the cluster that is yet to be ingested
  reclaim, \* allocations the idle reclaim is giving back
  release, \* the release under way
  crashes  \* how often the daemon was killed

vars == <<keyed, row, lease, issued, job, answer, claim, snap, reclaim, release, crashes>>
rowVars == <<row, lease>>

Open == {"applying", "unconfirmed", "active", "release_pending"}
KeyOf(k) == IF keyed THEN k ELSE TaskKey
Unused == [state |-> "none", key |-> TaskKey, ref |-> FALSE]
NoClaim == [at |-> "idle", key |-> TaskKey, row |-> 0, fact |-> "none"]
NoRelease == [at |-> "idle", row |-> 0]

\* facts: what each job was seen as; late: allocations confirmed by something
\* newer since; over: allocations whose apply answer is older than the reading.
NoSnap == [taken |-> FALSE, facts |-> [r \in Rows |-> "absent"], late |-> {}, over |-> {}]

\* The per-server lock: one claim at a time is past its first transaction.
InLock(c) == claim[c].at \notin {"idle", "asked"}
Others(c) == {d \in Callers \ {c} : InLock(d)}

Init ==
  /\ keyed \in BOOLEAN
  /\ row = [r \in Rows |-> Unused]
  /\ lease = [r \in Rows |-> "none"]
  /\ issued = [r \in Rows |-> 0]
  /\ job = [r \in Rows |-> "none"]
  /\ answer = [k \in Keys |-> 0]
  /\ claim = [c \in Callers |-> NoClaim]
  /\ snap = NoSnap
  /\ reclaim = {}
  /\ release = NoRelease
  /\ crashes = 0

-----------------------------------------------------------------------------
(* The cluster *)

\* The scheduler starts a submitted job, or has no room for it at once.
JobStarts(r) ==
  /\ job[r] = "submitted"
  /\ job' = [job EXCEPT ![r] = "live"]
  /\ UNCHANGED <<keyed, rowVars, issued, answer, claim, snap, reclaim, release, crashes>>

JobRejected(r) ==
  /\ job[r] = "submitted"
  /\ job' = [job EXCEPT ![r] = "rejected"]
  /\ UNCHANGED <<keyed, rowVars, issued, answer, claim, snap, reclaim, release, crashes>>

\* It completes, fails or reaches its time limit.
JobEnds(r) ==
  /\ job[r] = "live"
  /\ job' = [job EXCEPT ![r] = "over"]
  /\ UNCHANGED <<keyed, rowVars, issued, answer, claim, snap, reclaim, release, crashes>>

\* What a reading may say of a job: one that waits is not told apart from one
\* that is not there, and any may be unknown while the accounting is silent.
FactsOf(r) ==
  CASE job[r] = "none" -> {"absent"}
    [] job[r] = "submitted" -> {"absent", "unknown"}
    [] job[r] = "rejected" -> {"absent", "unknown", "over"}
    [] job[r] = "live" -> {"active", "unknown"}
    [] job[r] = "over" -> {"over", "unknown"}

Readings == {f \in [Rows -> {"absent", "active", "unknown", "over"}] : \A r \in Rows : f[r] \in FactsOf(r)}

-----------------------------------------------------------------------------
(* Facts and the ledger *)

\* A slip: a pending release waits for its own answer.
RecordedUnlessPending(r, fact) ==
  [r EXCEPT !.ref = TRUE,
            !.state = IF @ = "release_pending" THEN @ ELSE IF fact = "unknown" THEN "unconfirmed" ELSE fact]

\* _record_allocation_fact: a live job does not undo a pending release.
Recorded(r, fact) ==
  [r EXCEPT !.ref = TRUE,
            !.state = IF @ = "release_pending" /\ fact # "over" THEN @
                      ELSE IF fact = "unknown" THEN "unconfirmed" ELSE fact]

\* A slip: a reading counts however old it is.
HeardAtAnyAge(facts, late) == {r \in Rows : row[r].state # "none" /\ facts[r] # "absent"}

\* The allocations a reading says something new of.
Heard(facts, late) == {r \in Rows : row[r].state # "none" /\ facts[r] # "absent" /\ r \notin late}

\* A reading is ingested: facts, leases of jobs that are over, and the idle
\* reclaim of what is seen idle.
Ingested(facts, late, idle) ==
  LET heard == Heard(facts, late)
      known == [r \in Rows |-> IF r \in heard THEN Recorded(row[r], facts[r]) ELSE row[r]]
      over == {r \in heard : known[r].state = "over" /\ lease[r] = "live"}
  IN /\ idle \subseteq {r \in heard : facts[r] = "active" /\ known[r].state = "active" /\ lease[r] = "live"}
     /\ row' = [r \in Rows |-> IF r \in idle THEN [known[r] EXCEPT !.state = "release_pending"] ELSE known[r]]
     /\ lease' = [r \in Rows |-> IF r \in over THEN "ended" ELSE lease[r]]
     /\ reclaim' = reclaim \union idle

\* The collector reads the cluster, and ingests what it read later on.
Look ==
  /\ ~snap.taken
  /\ \E facts \in Readings :
       snap' = [NoSnap EXCEPT !.taken = TRUE, !.facts = facts,
                !.over = {claim[c].row : c \in {d \in Callers : claim[d].at = "remember"}}]
  /\ UNCHANGED <<keyed, rowVars, issued, job, answer, claim, reclaim, release, crashes>>

Ingest ==
  /\ snap.taken
  /\ \E idle \in SUBSET Rows : Ingested(snap.facts, snap.late, idle)
  /\ claim' = [c \in Callers |->
       IF claim[c].at = "remember" /\ claim[c].row \in Heard(snap.facts, snap.late) \intersect snap.over
       THEN [claim[c] EXCEPT !.fact = "late"] ELSE claim[c]]
  /\ snap' = NoSnap
  /\ UNCHANGED <<keyed, issued, job, answer, release, crashes>>

\* The collector's pending reading is now older than what is known of rows.
Newer(rows) == IF snap.taken THEN [snap EXCEPT !.late = @ \union rows] ELSE snap

-----------------------------------------------------------------------------
(* Claims *)

Ask(c) ==
  /\ claim[c].at = "idle"
  /\ \E k \in Keys : claim' = [claim EXCEPT ![c] = [NoClaim EXCEPT !.at = "asked", !.key = KeyOf(k)]]
  /\ UNCHANGED <<keyed, rowVars, issued, job, answer, snap, reclaim, release, crashes>>

\* The allocation an earlier request of the same identity, or of the same
\* task, asked for.
Earlier(k) ==
  LET same == {r \in Rows : row[r].state # "none" /\ row[r].key = k}
  IN IF same # {} THEN same ELSE {r \in Rows : row[r].state \in Open}

\* An ended allocation does not keep the key of its task.
Stands(r, k) == k # TaskKey \/ row[r].state # "over"

\* The first transaction has an answer: the remembered one, the lease of the
\* allocation, or that this request has ended.
Replay(c) ==
  /\ claim[c].at = "asked" /\ Others(c) = {}
  /\ LET k == claim[c].key IN
     \/ k \in Keys /\ answer[k] # 0
     \/ \E r \in Earlier(k) : Stands(r, k) /\ (lease[r] # "none" \/ row[r].state = "over")
  /\ claim' = [claim EXCEPT ![c] = NoClaim]
  /\ UNCHANGED <<keyed, rowVars, issued, job, answer, snap, reclaim, release, crashes>>

\* It finds an attempt without an outcome.
Retry(c) ==
  LET k == claim[c].key IN
  /\ claim[c].at = "asked" /\ Others(c) = {}
  /\ k \in Keys => answer[k] = 0
  /\ \E r \in Earlier(k) :
       /\ lease[r] = "none" /\ row[r].state \in Open
       /\ claim' = [claim EXCEPT ![c].at = "observe", ![c].row = r]
  /\ UNCHANGED <<keyed, rowVars, issued, job, answer, snap, reclaim, release, crashes>>

\* It records the intent to apply, before anything is asked of the cluster.
Intend(c) ==
  LET k == claim[c].key IN
  /\ claim[c].at = "asked"
  /\ k \in Keys => answer[k] = 0
  /\ \A s \in Earlier(k) : ~Stands(s, k)
  /\ \E r \in Rows :
       /\ row[r].state = "none" /\ \A s \in Rows : row[s].state = "none" => r <= s
       /\ row' = [s \in Rows |-> IF s = r THEN [Unused EXCEPT !.state = "applying", !.key = k]
                                 ELSE IF row[s].key = k THEN [row[s] EXCEPT !.key = 0] ELSE row[s]]
       /\ claim' = [claim EXCEPT ![c].at = "apply", ![c].row = r]
  /\ UNCHANGED <<keyed, lease, issued, job, answer, snap, reclaim, release, crashes>>

\* A slip: no lock around the whole of a claim.
PrepareUnlocked(c) == Intend(c) \/ Replay(c) \/ Retry(c) \/ (Others(c) # {} /\
  \E r \in Earlier(claim[c].key) :
    /\ claim[c].at = "asked" /\ lease[r] = "none" /\ row[r].state \in Open
    /\ claim' = [claim EXCEPT ![c].at = "observe", ![c].row = r]
    /\ UNCHANGED <<keyed, rowVars, issued, job, answer, snap, reclaim, release, crashes>>)

Prepare(c) ==
  \/ Replay(c)
  \/ Retry(c)
  \/ Others(c) = {} /\ Intend(c)

\* A retry asks what became of the attempt and never applies again: it goes on
\* with an active job, and is refused otherwise, also when nothing can be read.
Observe(c) ==
  /\ claim[c].at = "observe"
  /\ \/ \E facts \in Readings, idle \in SUBSET Rows :
          /\ Ingested(facts, {}, idle)
          /\ snap' = Newer(Heard(facts, {}))
          /\ claim' = [claim EXCEPT ![c] =
               IF row'[claim[c].row].state = "active" THEN [@ EXCEPT !.at = "finish"] ELSE NoClaim]
     \/ claim' = [claim EXCEPT ![c] = NoClaim] /\ UNCHANGED <<rowVars, snap, reclaim>>
  /\ UNCHANGED <<keyed, issued, job, answer, release, crashes>>

\* The cluster gets the application.
Apply(c) ==
  /\ claim[c].at = "apply" /\ job[claim[c].row] = "none"
  /\ job' = [job EXCEPT ![claim[c].row] = "submitted"]
  /\ UNCHANGED <<keyed, rowVars, issued, answer, claim, snap, reclaim, release, crashes>>

\* The allocation's fact comes back.
Applied(c) ==
  /\ claim[c].at = "apply" /\ job[claim[c].row] = "live"
  /\ claim' = [claim EXCEPT ![c].at = "remember", ![c].fact = "active"]
  /\ UNCHANGED <<keyed, rowVars, issued, job, answer, snap, reclaim, release, crashes>>

\* A slip: whatever error means that nothing was allocated.
FailedWhateverTheError(c) ==
  /\ claim[c].at = "apply"
  /\ row' = [row EXCEPT ![claim[c].row].state = "over"]
  /\ claim' = [claim EXCEPT ![c] = NoClaim]
  /\ UNCHANGED <<keyed, lease, issued, job, answer, snap, reclaim, release, crashes>>

\* invoke_plugin: an exit that means a refusal for want of room, or a request
\* that never was submitted, ends the attempt.  Everything else (a timeout, a
\* lost connection) leaves open what the cluster did, or still will do.
Outcomes(r) == IF job[r] \in {"none", "rejected"} THEN {"over", "unconfirmed"} ELSE {"unconfirmed"}
Failed(c) ==
  LET r == claim[c].row IN
  /\ claim[c].at = "apply"
  /\ \E state \in Outcomes(r) :
       /\ row' = [row EXCEPT ![r].state = state]
  /\ claim' = [claim EXCEPT ![c] = NoClaim]
  /\ UNCHANGED <<keyed, lease, issued, job, answer, snap, reclaim, release, crashes>>

Remember(c) ==
  LET r == claim[c].row IN
  /\ claim[c].at = "remember"
  /\ IF claim[c].fact = "late" THEN UNCHANGED <<row, snap>>
     ELSE /\ row' = [row EXCEPT ![r] = Recorded(row[r], "active")]
          /\ snap' = IF r \in snap.over THEN snap ELSE Newer({r})
  /\ claim' = [claim EXCEPT ![c].at = "finish", ![c].fact = "none"]
  /\ UNCHANGED <<keyed, lease, issued, job, answer, reclaim, release, crashes>>

\* The lease is made, whatever became of the allocation since.
Finish(c) ==
  LET r == claim[c].row
      k == claim[c].key
  IN /\ claim[c].at = "finish"
     /\ lease' = [lease EXCEPT ![r] = "live"]
     /\ issued' = [issued EXCEPT ![r] = @ + 1]
     /\ answer' = IF k \in Keys THEN [answer EXCEPT ![k] = r] ELSE answer
     /\ claim' = [claim EXCEPT ![c] = NoClaim]
     /\ UNCHANGED <<keyed, row, job, snap, reclaim, release, crashes>>

-----------------------------------------------------------------------------
(* Giving allocations back *)

\* The cluster is asked to cancel the job: it may end, and that may be
\* confirmed.  Only a job that is known to be over is an answer.
Cancelled(r, confirmed) ==
  /\ job' \in {job, [job EXCEPT ![r] = "over"]}
  /\ confirmed => job'[r] = "over"

\* What the idle reclaim gives back, after its transaction.
ReclaimCall(r) ==
  /\ r \in reclaim
  /\ reclaim' = reclaim \ {r}
  /\ \/ /\ Cancelled(r, TRUE)
        /\ row' = [row EXCEPT ![r].state = "over"]
        /\ lease' = [lease EXCEPT ![r] = IF @ = "live" THEN "ended" ELSE @]
        /\ snap' = Newer({r})
     \/ /\ Cancelled(r, FALSE)
        /\ row' = [row EXCEPT ![r].state = "release_pending"]
        /\ UNCHANGED <<lease, snap>>
  /\ UNCHANGED <<keyed, issued, answer, claim, release, crashes>>

\* The holder, or a person: look, mark, call, settle, write; each but the call
\* is a transaction of its own.
ReleaseAsked(r) ==
  /\ release.at = "idle"
  /\ lease[r] = "live" /\ row[r].ref
  /\ release' = [at |-> "mark", row |-> r]
  /\ UNCHANGED <<keyed, rowVars, issued, job, answer, claim, snap, reclaim, crashes>>

ReleaseMark ==
  /\ release.at = "mark"
  /\ row' = [row EXCEPT ![release.row].state = "release_pending"]
  /\ release' = [release EXCEPT !.at = "call"]
  /\ UNCHANGED <<keyed, lease, issued, job, answer, claim, snap, reclaim, crashes>>

ReleaseCall ==
  /\ release.at = "call"
  /\ \E confirmed \in BOOLEAN :
       /\ Cancelled(release.row, confirmed)
       /\ release' = [release EXCEPT !.at = IF confirmed THEN "settle" ELSE "keep"]
  /\ UNCHANGED <<keyed, rowVars, issued, answer, claim, snap, reclaim, crashes>>

\* A slip: an unconfirmed release goes on as if it were confirmed.
GoOnAnyway ==
  /\ release.at = "keep"
  /\ row' = [row EXCEPT ![release.row].state = "release_pending"]
  /\ release' = [release EXCEPT !.at = "write"]
  /\ UNCHANGED <<keyed, lease, issued, job, answer, claim, snap, reclaim, crashes>>

\* Without an answer the allocation stays, and the release is refused.
ReleaseKept ==
  /\ release.at = "keep"
  /\ row' = [row EXCEPT ![release.row].state = "release_pending"]
  /\ release' = NoRelease
  /\ UNCHANGED <<keyed, lease, issued, job, answer, claim, snap, reclaim, crashes>>

ReleaseSettle ==
  /\ release.at = "settle"
  /\ row' = [row EXCEPT ![release.row].state = "over"]
  /\ snap' = Newer({release.row})
  /\ release' = [release EXCEPT !.at = "write"]
  /\ UNCHANGED <<keyed, lease, issued, job, answer, claim, reclaim, crashes>>

\* release_lease itself, refused when the lease has ended meanwhile.
ReleaseWrite ==
  /\ release.at = "write"
  /\ lease' = [lease EXCEPT ![release.row] = IF @ = "live" THEN "ended" ELSE @]
  /\ release' = NoRelease
  /\ UNCHANGED <<keyed, row, issued, job, answer, claim, snap, reclaim, crashes>>

-----------------------------------------------------------------------------
\* The daemon is killed: the database and the cluster stay.
Crash ==
  /\ crashes < MaxCrashes
  /\ crashes' = crashes + 1
  /\ claim' = [c \in Callers |-> NoClaim]
  /\ snap' = NoSnap
  /\ reclaim' = {}
  /\ release' = NoRelease
  /\ UNCHANGED <<keyed, rowVars, issued, job, answer>>

Cluster == \E r \in Rows : JobStarts(r) \/ JobRejected(r) \/ JobEnds(r)
Claiming(c) ==
  \/ Ask(c) \/ Prepare(c) \/ Observe(c)
  \/ Apply(c) \/ Applied(c) \/ Failed(c) \/ Remember(c) \/ Finish(c)
Releasing ==
  \/ \E r \in Rows : ReleaseAsked(r) \/ ReclaimCall(r)
  \/ ReleaseMark \/ ReleaseCall \/ ReleaseKept \/ ReleaseSettle \/ ReleaseWrite

Next == Cluster \/ Look \/ Ingest \/ (\E c \in Callers : Claiming(c)) \/ Releasing \/ Crash

Spec == Init /\ [][Next]_vars

\* The collector keeps reading the cluster; now and then it knows of all jobs
\* that are over, and is not overtaken by a retry that does not.
Telling == Look /\ \A r \in Rows : job[r] = "over" => snap'.facts[r] = "over"
Hearing == Ingest /\ \A r \in Rows : job[r] = "over" => snap.facts[r] = "over" /\ r \notin snap.late
FairSpec == Spec /\ SF_vars(Telling) /\ WF_vars(Ingest) /\ SF_vars(Hearing)

-----------------------------------------------------------------------------
(* What should hold *)

\* Types of the ledger, the cluster and the calls.
TypeOK ==
  /\ keyed \in BOOLEAN
  /\ row \in [Rows -> [state : Open \union {"none", "over"}, key : Keys \union {TaskKey, 0}, ref : BOOLEAN]]
  /\ lease \in [Rows -> {"none", "live", "ended"}]
  /\ issued \in [Rows -> Nat]
  /\ job \in [Rows -> {"none", "submitted", "rejected", "live", "over"}]
  /\ answer \in [Keys -> 0 .. MaxRows]
  /\ \A c \in Callers :
       /\ claim[c].at \in {"idle", "asked", "observe", "apply", "remember", "finish"}
       /\ InLock(c) => row[claim[c].row].state # "none"
  /\ reclaim \subseteq Rows
  /\ release.at \in {"idle", "mark", "call", "keep", "settle", "write"}

\* A job that runs or may still start has an allocation that is not over, so
\* that a retry, a release and a deleted server all reckon with it: after
\* timeouts, kills at any step, late readings and answers in any order.
NoJobIsForgotten ==
  \A r \in Rows : job[r] \in {"submitted", "live"} => row[r].state \in Open

\* However often a task is claimed again, with answers lost and the daemon
\* killed, the cluster runs one job for it, and a job gets one lease.
OneJobPerTask ==
  /\ Cardinality({r \in Rows : job[r] \in {"submitted", "live"}}) <= 1
  /\ \A r \in Rows : issued[r] <= 1

\* A lease on an allocation ends when the job is over and not before: not by a
\* release the cluster did not confirm, not by what a late reading says.
LeaseOutlivesItsJob ==
  [][\A r \in Rows : lease[r] = "live" /\ lease'[r] = "ended" => job'[r] = "over"]_vars

\* What is given back stays so, whatever readings from before say: while the
\* job lives a pending release stays pending, and an allocation that is over
\* is at most doubted, never in use again.
ReleaseIsNotUndone ==
  [][\A r \in Rows :
       /\ row[r].state = "release_pending" /\ row'[r].state # "release_pending" =>
            row'[r].state = "over" /\ job'[r] = "over"
       /\ row[r].state = "over" => row'[r].state # "active"]_vars

\* A job that is over takes its lease with it in the end, so that again and
\* again none is left: also a lease that was made after the job had ended, and
\* one whose release was interrupted between the cluster and the ledger.
LeaseEndsWithItsJob == []<>(\A r \in Rows : ~(job[r] = "over" /\ lease[r] = "live"))
=============================================================================
