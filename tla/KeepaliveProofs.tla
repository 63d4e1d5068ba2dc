-------------------------- MODULE KeepaliveProofs --------------------------
(***************************************************************************)
(* Proofs about Keepalive, for any cards, identities and number of kills.  *)
(*                                                                         *)
(* Data says what the ledger, the sightings and the server agree on, and   *)
(* Phased what the coroutine that holds the lock may rely on at the place  *)
(* it has reached.  Both hold whatever happens.  Until the daemon is       *)
(* killed, Marked accounts for the workers nobody confirmed.  All three    *)
(* make an exception for the cards whose given-up start was overtaken by a *)
(* call: nothing keeps a worker from coming up there after the answer.     *)
(***************************************************************************)
EXTENDS Keepalive, TLAPS

Keeps == [actual : {"ON", "OFF", "ERROR"}, expected : Ids \union {None}]
Plans == [cleanup : SUBSET Cards, start : SUBSET Cards, recover : SUBSET Cards, stop : SUBSET Cards]
Places == {"free", "cleanup", "finish", "start", "attest", "startRead", "confirm", "undo", "error",
           "recover", "recoverRead", "rebind", "stop", "stopping", "stopRead", "finalize",
           "reclaim", "reclaimRead", "settle", "claim"}
Ops == [at : Places, on : SUBSET Cards, plan : Plans, want : SUBSET Cards, move : BOOLEAN,
        since : SUBSET Cards, failed : BOOLEAN]

Types ==
  /\ policy \in BOOLEAN
  /\ owner \in [Cards -> {"none", "keepalive", "workload"}]
  /\ keep \in [Cards -> Keeps]
  /\ mark \subseteq Cards /\ alive \subseteq Cards /\ job \subseteq Cards
  /\ late \subseteq Cards /\ overtaken \subseteq Cards
  /\ seen \in [Cards -> Sightings] /\ stale \in [Cards -> Sightings]
  /\ reach \in {"fresh", "stale", "gone"}
  /\ worker \in [Cards -> Ids \union {None}]
  /\ asked \subseteq Cards /\ crashes \in 0 .. MaxCrashes

GoodOp(o) == o \in Ops /\ o.since \subseteq o.on

\* A worker that runs is on the helper's record.
Recorded == \A c \in alive : worker[c] # None

\* The worker that a kept card was confirmed with runs.
Keeper(c) == c \in Kept \intersect alive /\ worker[c] = keep[c].expected

\* It is seen as long as it runs.
KeepersAreSeen == \A c \in Cards : Keeper(c) => worker[c] \in seen[c]

\* Nor is anything seen of it where a start may still happen, before a call.
LateStartsUnseen == \A c \in Kept \intersect (late \ overtaken) : keep[c].expected \notin seen[c]

Data == Types /\ Recorded /\ OnMeansOnlyKeeperSeen /\ KeepersAreSeen /\ LateStartsUnseen

\* A worker may be started on card c.
StartSafe(c) == owner[c] # "workload" /\ (c \in Kept => keep[c].expected \notin seen[c])

\* Cards the coroutine o is still to start workers on.
ToStart(o) == o.plan.start \union (IF o.at = "start" THEN o.on ELSE {})

\* Places where the helper has answered a call about the coroutine's cards.
Answered == {"finish", "attest", "startRead", "confirm", "recoverRead", "rebind"}

Phased(o) ==
  /\ o.at \notin {"cleanup", "finish"} => o.plan.start = {}
  /\ \A c \in ToStart(o) : StartSafe(c)
  /\ o.at \in Answered => o.on \intersect late \subseteq overtaken
  /\ o.at = "finish" => o.on \intersect alive \subseteq overtaken
  /\ o.at \in {"finalize", "settle"} => \A c \in o.on : Keeper(c) => c \in o.since

IInv == Data /\ GoodOp(op) /\ Phased(op)

-----------------------------------------------------------------------------
(* Types and places *)

LEMMA Names == None \notin Processes /\ Ids \subseteq Processes /\ Job \in Processes
BY KeepaliveAssumption DEF KeepaliveAssumption, Processes

LEMMA Listings ==
  ASSUME Data, NEW c \in Cards
  PROVE  /\ Listed(c) \subseteq Processes
         /\ c \in alive => worker[c] \in Listed(c) /\ worker[c] \in Ids
         /\ \A i \in Ids : i \in Listed(c) <=> c \in alive /\ i = worker[c]
BY Names, KeepaliveAssumption DEF Data, Types, Recorded, Listed, KeepaliveAssumption

LEMMA NoPlanPlans == NoPlan \in Plans /\ NoPlan.start = {}
BY DEF NoPlan, Plans

LEMMA FreeOp ==
  /\ GoodOp(Free) /\ Free.at = "free" /\ Free.plan = NoPlan /\ Free.on = {} /\ Free.since = {}
  /\ Free.failed = FALSE
BY NoPlanPlans DEF Free, GoodOp, Ops, Places

\* What a reconciliation turns to has at most the plan's starts left.
LEMMA OnwardOp ==
  ASSUME NEW plan \in Plans
  PROVE  /\ GoodOp(Onward(plan))
         /\ Onward(plan).at \in {"cleanup", "start", "recover", "stop", "free"}
         /\ Onward(plan).at # "cleanup" => Onward(plan).plan.start = {}
         /\ Onward(plan).at = "start" => plan.start # {}
         /\ ToStart(Onward(plan)) \subseteq plan.start
<1> DEFINE cleaned == [plan EXCEPT !.cleanup = {}]
           started == [plan EXCEPT !.start = {}]
           recovered == [plan EXCEPT !.recover = {}]
<1>1. /\ plan.cleanup \in SUBSET Cards /\ plan.start \in SUBSET Cards /\ plan.recover \in SUBSET Cards
      /\ cleaned \in Plans /\ cleaned.start = plan.start
      /\ started \in Plans /\ started.start = {}
      /\ recovered \in Plans /\ recovered.start = plan.start
  BY DEF Plans
<1> HIDE DEF cleaned, started, recovered
<1>2. CASE plan.cleanup # {}
  <2>1. Onward(plan) = [at |-> "cleanup", on |-> plan.cleanup, plan |-> cleaned, want |-> {}, move |-> FALSE,
                        since |-> {}, failed |-> FALSE]
    BY <1>2 DEF Onward, Doing, Free, cleaned
  <2>2. /\ GoodOp(Onward(plan)) /\ Onward(plan).at = "cleanup" /\ Onward(plan).on = plan.cleanup
        /\ Onward(plan).plan = cleaned
    BY <1>1, <2>1 DEF GoodOp, Ops, Places
  <2> QED BY <1>1, <1>2, <2>2 DEF ToStart
<1>3. CASE plan.cleanup = {} /\ plan.start # {}
  <2>1. Onward(plan) = [at |-> "start", on |-> plan.start, plan |-> started, want |-> {}, move |-> FALSE,
                        since |-> {}, failed |-> FALSE]
    BY <1>3 DEF Onward, Doing, Free, started
  <2>2. /\ GoodOp(Onward(plan)) /\ Onward(plan).at = "start" /\ Onward(plan).on = plan.start
        /\ Onward(plan).plan = started
    BY <1>1, <2>1 DEF GoodOp, Ops, Places
  <2> QED BY <1>1, <1>3, <2>2 DEF ToStart
<1>4. CASE plan.cleanup = {} /\ plan.start = {} /\ plan.recover # {}
  <2>1. Onward(plan) = [at |-> "recover", on |-> plan.recover, plan |-> recovered, want |-> {}, move |-> FALSE,
                        since |-> {}, failed |-> FALSE]
    BY <1>4 DEF Onward, Doing, Free, recovered
  <2>2. /\ GoodOp(Onward(plan)) /\ Onward(plan).at = "recover" /\ Onward(plan).on = plan.recover
        /\ Onward(plan).plan = recovered
    BY <1>1, <2>1 DEF GoodOp, Ops, Places
  <2> QED BY <1>1, <1>4, <2>2 DEF ToStart
<1>5. CASE plan.cleanup = {} /\ plan.start = {} /\ plan.recover = {} /\ plan.stop # {}
  <2>1. Onward(plan) = [at |-> "stop", on |-> {}, plan |-> plan, want |-> {}, move |-> FALSE,
                        since |-> {}, failed |-> FALSE]
    BY <1>5 DEF Onward, Doing, Free
  <2>2. /\ GoodOp(Onward(plan)) /\ Onward(plan).at = "stop" /\ Onward(plan).on = {}
        /\ Onward(plan).plan = plan
    BY <1>1, <2>1 DEF GoodOp, Ops, Places
  <2> QED BY <1>1, <1>5, <2>2 DEF ToStart
<1>6. CASE plan.cleanup = {} /\ plan.start = {} /\ plan.recover = {} /\ plan.stop = {}
  <2>1. Onward(plan) = Free
    BY <1>6 DEF Onward
  <2> QED BY <2>1, FreeOp, NoPlanPlans DEF ToStart
<1> QED BY <1>2, <1>3, <1>4, <1>5, <1>6

-----------------------------------------------------------------------------
(* What a step does to what everybody can see *)

\* A start that was overtaken by a call stays so until it and its worker are gone.
StaysOvertaken == overtaken \intersect (alive' \union late') \subseteq overtaken'

\* What an answered call about the cards of S adds to these.
LEMMA OvertakenEffect ==
  ASSUME NEW S, StillOvertaken(S), late' = late
  PROVE  StaysOvertaken /\ overtaken' \subseteq alive' \union late' /\ S \intersect late' \subseteq overtaken'
BY DEF StillOvertaken, StaysOvertaken

\* No start becomes unsafe, and only starts that were given up still happen.
Calm ==
  /\ \A c \in Cards : StartSafe(c) => StartSafe(c)'
  /\ \A c \in Cards : Keeper(c)' => Keeper(c)
  /\ late' \subseteq late /\ alive' \subseteq alive \union late
  /\ StaysOvertaken

\* Workers end, tasks end, marks and errors come and go.
LEMMA QuietEffect ==
  ASSUME Data, Types', seen' = seen,
         \A c \in Cards : owner'[c] = owner[c] \/ (owner[c] = "workload" /\ owner'[c] = "none"),
         \A c \in Cards : /\ keep'[c].expected = keep[c].expected
                          /\ keep'[c].actual = "ON" => keep[c].actual = "ON",
         late' \subseteq late, alive' \subseteq alive, \A c \in alive' : worker'[c] = worker[c],
         StaysOvertaken
  PROVE  Data' /\ Calm
<1>1. Kept' = Kept
  BY DEF Kept
<1>2. Recorded'
  BY DEF Data, Recorded
<1>3. OnMeansOnlyKeeperSeen'
  BY <1>1 DEF Data, OnMeansOnlyKeeperSeen, Kept
<1>4. \A c \in Cards : Keeper(c)' => Keeper(c) /\ worker'[c] = worker[c]
  BY <1>1 DEF Keeper
<1>5. KeepersAreSeen'
  BY <1>4 DEF Data, KeepersAreSeen
<1>6. LateStartsUnseen'
  BY <1>1 DEF Data, LateStartsUnseen, Kept, StaysOvertaken
<1>7. \A c \in Cards : StartSafe(c) => StartSafe(c)'
  BY <1>1 DEF StartSafe
<1>8. Data'
  BY <1>2, <1>3, <1>5, <1>6 DEF Data
<1> QED BY <1>4, <1>7, <1>8 DEF Calm

LEMMA StopEffect ==
  ASSUME Data, NEW S \in SUBSET Cards, NEW done, StopCall(S, done),
         UNCHANGED <<ledgerVars, readingVars, asideVars>>
  PROVE  /\ Data' /\ Calm
         /\ alive' \subseteq alive /\ late' = late /\ \A c \in alive' : worker'[c] = worker[c]
         /\ StaysOvertaken
         /\ done => S \intersect alive' = {} /\ S \intersect late' \subseteq overtaken'
<1>1. PICK T \in SUBSET S : (done => T = S) /\ StopWorkers(T)
  BY DEF StopCall
<1>2. /\ worker' = [c \in Cards |-> IF c \in T THEN None ELSE worker[c]] /\ alive' = alive \ T
      /\ job' = job /\ late' = late /\ StaysOvertaken /\ overtaken' \subseteq alive' \union late'
      /\ done => S \intersect late' \subseteq overtaken'
  BY <1>1, OvertakenEffect DEF StopWorkers, StopCall
<1>3. worker' \in [Cards -> Ids \union {None}]
  BY <1>2 DEF Data, Types
<1>4. /\ policy' = policy /\ owner' = owner /\ keep' = keep /\ mark' = mark
      /\ seen' = seen /\ stale' = stale /\ reach' = reach /\ asked' = asked /\ crashes' = crashes
  BY DEF ledgerVars, readingVars, asideVars
<1>5. Types'
  BY <1>2, <1>3, <1>4 DEF Data, Types
<1>6. alive' \subseteq alive /\ \A c \in alive' : worker'[c] = worker[c]
  BY <1>2 DEF Data, Types
<1>7. Data' /\ Calm
  BY <1>2, <1>4, <1>5, <1>6, QuietEffect
<1> QED BY <1>1, <1>2, <1>6, <1>7

\* Every worker that comes up has an identity its card did not know.
LEMMA WorkersEffect ==
  ASSUME Data, NEW T \in SUBSET Cards, StartWorkers(T)
  PROVE  /\ worker' \in [Cards -> Ids \union {None}] /\ alive' = alive \union T
         /\ \A c \in alive : worker'[c] = worker[c]
         /\ \A c \in T \ alive : worker'[c] \in Ids \ (seen[c] \union {keep[c].expected})
<1>1. \A c \in T \ alive : (CHOOSE i \in Unused(c) : TRUE) \in Unused(c)
  BY DEF StartWorkers
<1>2. \A c \in T \ alive : (CHOOSE i \in Unused(c) : TRUE) \in Ids \ (seen[c] \union {keep[c].expected})
  BY <1>1 DEF Unused
<1> DEFINE new(c) == CHOOSE i \in Unused(c) : TRUE
<1>3. worker' = [c \in Cards |-> IF c \in T \ alive THEN new(c) ELSE worker[c]]
      /\ alive' = alive \union T
  BY DEF StartWorkers
<1>4. \A c \in T \ alive : new(c) \in Ids \ (seen[c] \union {keep[c].expected})
  BY <1>2
<1> HIDE DEF new
<1> QED BY <1>3, <1>4 DEF Data, Types

LEMMA StartEffect ==
  ASSUME Data, NEW T \in SUBSET Cards, StartWorkers(T), late' \in SUBSET Cards,
         \A c \in late' \ late : StartSafe(c), StaysOvertaken, overtaken' \subseteq alive' \union late',
         UNCHANGED <<ledgerVars, readingVars, job, asideVars>>
  PROVE  /\ Data'
         /\ \A c \in Cards : (StartSafe(c) => StartSafe(c)') /\ (Keeper(c)' => Keeper(c))
<1>1. /\ worker' \in [Cards -> Ids \union {None}] /\ alive' = alive \union T
      /\ \A c \in alive : worker'[c] = worker[c]
      /\ \A c \in T \ alive : worker'[c] \in Ids \ (seen[c] \union {keep[c].expected})
  BY WorkersEffect
<1>2. /\ policy' = policy /\ owner' = owner /\ keep' = keep /\ mark' = mark /\ job' = job
      /\ seen' = seen /\ stale' = stale /\ reach' = reach /\ asked' = asked /\ crashes' = crashes
  BY DEF ledgerVars, readingVars, asideVars
<1>3. Kept' = Kept
  BY <1>2 DEF Kept
<1>4. Types'
  BY <1>1, <1>2 DEF Data, Types
<1>5. Recorded'
  BY <1>1, KeepaliveAssumption DEF Data, Recorded, KeepaliveAssumption
<1>6. OnMeansOnlyKeeperSeen'
  BY <1>2, <1>3 DEF Data, OnMeansOnlyKeeperSeen
<1>7. \A c \in Cards : Keeper(c)' => Keeper(c) /\ worker'[c] = worker[c]
  BY <1>1, <1>2, <1>3 DEF Keeper
<1>8. KeepersAreSeen'
  BY <1>2, <1>7 DEF Data, KeepersAreSeen
<1>9. LateStartsUnseen'
  BY <1>2, <1>3 DEF Data, LateStartsUnseen, StartSafe, StaysOvertaken
<1>10. \A c \in Cards : StartSafe(c) => StartSafe(c)'
  BY <1>2, <1>3 DEF StartSafe
<1>11. Data'
  BY <1>4, <1>5, <1>6, <1>8, <1>9 DEF Data
<1> QED BY <1>7, <1>10, <1>11

\* A reading finds a kept card ON when the confirmed worker is all it sees.
LEMMA ReadingEffect ==
  ASSUME Data, NEW ripe, Reading(ripe), asked' \in SUBSET Cards
  PROVE  /\ Data' /\ Calm
         /\ \A c \in Cards : Listed(c) \subseteq seen'[c] /\ keep'[c].expected = keep[c].expected
         /\ \A c \in Kept : keep'[c].actual = "ON" => seen'[c] = {keep[c].expected}
         /\ mark' = mark \ {c \in Kept : keep'[c].actual = "ON"}
         /\ UNCHANGED <<owner, serverVars, crashes>>
<1> DEFINE kept(c) == [keep[c] EXCEPT !.actual = Actual(keep[c].expected, seen'[c])]
           left(c) == IF c \in ripe THEN stale[c] ELSE {}
<1>1. /\ seen' = [c \in Cards |-> Listed(c) \union (seen[c] \ left(c))]
      /\ stale' = [c \in Cards |-> seen'[c] \ Listed(c)]
  BY DEF Reading
<1>2. /\ keep' = [c \in Cards |-> IF c \in Kept THEN kept(c) ELSE keep[c]]
      /\ mark' = mark \ {c \in Kept : keep'[c].actual = "ON"}
      /\ reach' = "fresh" /\ policy' = policy /\ owner' = owner /\ crashes' = crashes
      /\ worker' = worker /\ alive' = alive /\ job' = job /\ late' = late /\ overtaken' = overtaken
  BY <1>1 DEF Reading, WithActual, NothingLeftBehind, serverVars
<1>3. \A c \in Cards : keep[c] \in Keeps /\ seen[c] \subseteq Processes
  BY DEF Data, Types, Sightings
<1>4. \A c \in Cards : /\ kept(c) \in Keeps /\ kept(c).expected = keep[c].expected
                       /\ kept(c).actual = "ON" => seen'[c] = {keep[c].expected}
  <2>1. \A e, s : Actual(e, s) \in {"ON", "OFF", "ERROR"} /\ (Actual(e, s) = "ON" => s = {e})
    BY DEF Actual
  <2> QED BY <1>3, <2>1 DEF Keeps
<1> HIDE DEF kept
<1>5. /\ keep' \in [Cards -> Keeps]
      /\ \A c \in Cards : keep'[c].expected = keep[c].expected
      /\ \A c \in Kept : keep'[c].actual = "ON" => seen'[c] = {keep[c].expected}
  <2>1. keep \in [Cards -> Keeps]
    BY DEF Data, Types
  <2> QED BY <1>2, <1>4, <2>1 DEF Kept
<1>6. \A c \in Cards : Listed(c) \subseteq seen'[c] /\ seen'[c] \subseteq Processes
  BY <1>1, <1>3, Listings
<1>7. seen' \in [Cards -> Sightings] /\ stale' \in [Cards -> Sightings]
  <2>1. \A c \in Cards : Listed(c) \union (seen[c] \ left(c)) \in Sightings
    BY <1>1, <1>6 DEF Sightings
  <2>2. \A c \in Cards : seen'[c] \ Listed(c) \in Sightings
    BY <1>6 DEF Sightings
  <2> HIDE DEF left
  <2> QED BY <1>1, <2>1, <2>2
<1>8. Kept' = Kept
  BY <1>2 DEF Kept
<1>9. Types'
  BY <1>2, <1>5, <1>7 DEF Data, Types
<1>10. Recorded'
  BY <1>2 DEF Data, Recorded
<1>11. OnMeansOnlyKeeperSeen'
  <2> SUFFICES ASSUME NEW c \in Kept, keep'[c].actual = "ON"
               PROVE  keep'[c].expected # None /\ seen'[c] = {keep'[c].expected}
    BY <1>8 DEF OnMeansOnlyKeeperSeen
  <2>1. c \in Cards
    BY DEF Kept
  <2> QED BY <1>5, <1>6, <2>1, Names
<1>12. \A c \in Cards : Keeper(c)' <=> Keeper(c)
  BY <1>2, <1>5, <1>8 DEF Keeper
<1>13. KeepersAreSeen'
  <2> SUFFICES ASSUME NEW c \in Cards, Keeper(c) PROVE worker[c] \in seen'[c]
    BY <1>2, <1>12 DEF KeepersAreSeen
  <2> QED BY <1>6, Listings DEF Keeper
\* What a card was kept with is only listed while it runs.
<1>14. ASSUME NEW c \in Kept, keep[c].expected \notin seen[c]
       PROVE  keep[c].expected \notin seen'[c]
  <2>1. c \in Cards
    BY DEF Kept
  <2>2. ~Keeper(c)
    BY <1>14, <2>1 DEF Data, KeepersAreSeen, Keeper
  <2>3. keep[c].expected \in Ids \/ keep[c].expected = None
    BY <1>3, <2>1 DEF Keeps
  <2>4. keep[c].expected \in Ids => keep[c].expected \notin Listed(c)
    BY <2>1, <2>2, Listings DEF Keeper
  <2>5. keep[c].expected = None => keep[c].expected \notin Listed(c)
    BY <2>1, Listings, Names
  <2> QED BY <1>1, <1>14, <2>1, <2>3, <2>4, <2>5
<1>15. LateStartsUnseen'
  BY <1>2, <1>5, <1>8, <1>14 DEF Data, LateStartsUnseen, Kept
<1>16. \A c \in Cards : StartSafe(c) => StartSafe(c)'
  BY <1>2, <1>5, <1>8, <1>14 DEF StartSafe
<1>17. Data'
  BY <1>9, <1>10, <1>11, <1>13, <1>15 DEF Data
<1>18. Calm
  BY <1>2, <1>12, <1>16 DEF Calm, StaysOvertaken
<1> QED BY <1>2, <1>5, <1>6, <1>17, <1>18 DEF serverVars

\* A keepalive lease ends, with its card's readings thrown away or kept.
LEMMA EndEffect ==
  ASSUME Data, NEW c \in Kept, EndKeep(c), UNCHANGED <<serverVars, crashes>>,
         reach' = reach, asked' \in SUBSET Cards,
         \/ seen' = seen /\ stale' = stale
         \/ seen' = [seen EXCEPT ![c] = {}] /\ stale' = [stale EXCEPT ![c] = {}]
  PROVE  /\ Data' /\ Calm
         /\ Kept' = Kept \ {c} /\ mark' = mark
         /\ \A d \in Kept' : keep'[d] = keep[d]
<1>1. c \in Cards /\ owner \in [Cards -> {"none", "keepalive", "workload"}] /\ keep \in [Cards -> Keeps]
      /\ seen \in [Cards -> Sightings] /\ stale \in [Cards -> Sightings]
  BY DEF Kept, Data, Types
<1>2. /\ owner' = [owner EXCEPT ![c] = "none"] /\ keep' = [keep EXCEPT ![c] = NotKept]
      /\ policy' = policy /\ mark' = mark /\ worker' = worker /\ alive' = alive /\ job' = job
      /\ late' = late /\ overtaken' = overtaken /\ crashes' = crashes
  BY DEF EndKeep, serverVars
<1>3. Kept' = Kept \ {c}
  BY <1>1, <1>2 DEF Kept
<1>4. \A d \in Cards \ {c} : /\ owner'[d] = owner[d] /\ keep'[d] = keep[d] /\ seen'[d] = seen[d]
                             /\ d \in Kept' <=> d \in Kept
  BY <1>1, <1>2, <1>3
<1>5. NotKept \in Keeps /\ {} \in Sightings
  BY DEF NotKept, Keeps, Sightings
<1>6. Types'
  <2>1. keep' \in [Cards -> Keeps] /\ owner' \in [Cards -> {"none", "keepalive", "workload"}]
    BY <1>1, <1>2, <1>5
  <2>2. seen' \in [Cards -> Sightings] /\ stale' \in [Cards -> Sightings]
    BY <1>1, <1>5
  <2> QED BY <1>2, <2>1, <2>2 DEF Data, Types
<1>7. Recorded'
  BY <1>2 DEF Data, Recorded
<1>8. \A d \in Kept' : d \in Kept /\ d \in Cards \ {c} /\ keep'[d] = keep[d] /\ seen'[d] = seen[d]
  BY <1>3, <1>4 DEF Kept
<1>9. OnMeansOnlyKeeperSeen'
  BY <1>8 DEF Data, OnMeansOnlyKeeperSeen
<1>10. \A d \in Cards : Keeper(d)' => Keeper(d) /\ d \in Kept'
  BY <1>2, <1>8 DEF Keeper
<1>11. KeepersAreSeen'
  BY <1>2, <1>8, <1>10 DEF Data, KeepersAreSeen
<1>12. LateStartsUnseen'
  BY <1>2, <1>8 DEF Data, LateStartsUnseen
<1>13. \A d \in Cards : StartSafe(d) => StartSafe(d)'
  <2> SUFFICES ASSUME NEW d \in Cards, StartSafe(d) PROVE StartSafe(d)'
    OBVIOUS
  <2>1. CASE d = c
    BY <1>1, <1>2, <1>3, <2>1 DEF StartSafe
  <2>2. CASE d # c
    BY <1>4, <2>2 DEF StartSafe
  <2> QED BY <2>1, <2>2
<1>14. Data'
  BY <1>6, <1>7, <1>9, <1>11, <1>12 DEF Data
<1>15. Calm
  BY <1>2, <1>10, <1>13 DEF Calm, StaysOvertaken
<1> QED BY <1>2, <1>3, <1>8, <1>14, <1>15

\* A task gets cards no lease has: nothing changes for the kept ones.
LEMMA GrantEffect ==
  ASSUME Data, NEW S \in SUBSET Cards, NEW move, Grantable(S, move), Grant(S),
         UNCHANGED <<readingVars, serverVars, asideVars>>
  PROVE  /\ Data' /\ Kept' = Kept /\ mark' = mark
         /\ \A d \in Kept : keep'[d] = keep[d]
<1>1. owner \in [Cards -> {"none", "keepalive", "workload"}] /\ keep \in [Cards -> Keeps]
  BY DEF Data, Types
<1>2. /\ owner' = [c \in Cards |-> IF c \in S THEN "workload" ELSE owner[c]]
      /\ keep' = [c \in Cards |-> IF c \in S THEN NotKept ELSE keep[c]]
      /\ policy' = policy /\ mark' = mark
  BY DEF Grant
<1>3. /\ seen' = seen /\ stale' = stale /\ reach' = reach /\ worker' = worker /\ alive' = alive
      /\ job' = job /\ late' = late /\ overtaken' = overtaken /\ asked' = asked /\ crashes' = crashes
  BY DEF readingVars, serverVars, asideVars
<1>4. \A c \in S : owner[c] = "none"
  BY DEF Grantable, Available
<1>5. Kept' = Kept /\ \A d \in Kept : keep'[d] = keep[d]
  BY <1>2, <1>4 DEF Kept
<1>6. NotKept \in Keeps
  BY DEF NotKept, Keeps
<1>7. Types'
  <2>1. keep' \in [Cards -> Keeps] /\ owner' \in [Cards -> {"none", "keepalive", "workload"}]
    BY <1>1, <1>2, <1>6
  <2> QED BY <1>2, <1>3, <2>1 DEF Data, Types
<1>8. Recorded'
  BY <1>3 DEF Data, Recorded
<1>9. OnMeansOnlyKeeperSeen'
  BY <1>3, <1>5 DEF Data, OnMeansOnlyKeeperSeen
<1>10. KeepersAreSeen'
  BY <1>3, <1>5 DEF Data, KeepersAreSeen, Keeper
<1>11. LateStartsUnseen'
  BY <1>3, <1>5 DEF Data, LateStartsUnseen
<1> QED BY <1>2, <1>5, <1>7, <1>8, <1>9, <1>10, <1>11 DEF Data

\* Workers are confirmed only after a call that was answered about them.
LEMMA ActivateEffect ==
  ASSUME Data, NEW S \in SUBSET Cards, Confirmed(S), Activate(S), S \intersect late \subseteq overtaken,
         UNCHANGED <<readingVars, serverVars, asideVars>>
  PROVE  /\ Data' /\ Kept' = Kept \union S /\ mark' = mark \ S
         /\ \A c \in S : keep'[c].expected = worker'[c]
         /\ \A c \in Kept \ S : keep'[c] = keep[c]
<1>1. owner \in [Cards -> {"none", "keepalive", "workload"}] /\ keep \in [Cards -> Keeps]
      /\ worker \in [Cards -> Ids \union {None}] /\ seen \in [Cards -> Sightings]
  BY DEF Data, Types
<1>2. /\ owner' = [c \in Cards |-> IF c \in S THEN "keepalive" ELSE owner[c]]
      /\ keep' = [c \in Cards |->
            IF c \in S THEN [actual |-> "ON", expected |-> worker[c]] ELSE keep[c]]
      /\ policy' = policy /\ mark' = mark \ S
  BY DEF Activate
<1>3. /\ seen' = seen /\ stale' = stale /\ reach' = reach /\ worker' = worker /\ alive' = alive
      /\ job' = job /\ late' = late /\ overtaken' = overtaken /\ asked' = asked /\ crashes' = crashes
  BY DEF readingVars, serverVars, asideVars
<1>4. \A c \in S : /\ seen[c] = {worker[c]} /\ worker[c] # None
                   /\ keep'[c].expected = worker[c]
  BY <1>1, <1>2, Names DEF Confirmed, Sightings
<1>5. Kept' = Kept \union S /\ \A c \in Cards \ S : keep'[c] = keep[c] /\ (c \in Kept' <=> c \in Kept)
  BY <1>2 DEF Kept
<1>6. Types'
  <2>1. \A c \in S : [actual |-> "ON", expected |-> worker[c]] \in Keeps
    BY <1>1 DEF Keeps
  <2>2. keep' \in [Cards -> Keeps] /\ owner' \in [Cards -> {"none", "keepalive", "workload"}]
    BY <1>1, <1>2, <2>1
  <2> QED BY <1>2, <1>3, <2>2 DEF Data, Types
<1>7. Recorded'
  BY <1>3 DEF Data, Recorded
<1>8. OnMeansOnlyKeeperSeen'
  <2> SUFFICES ASSUME NEW c \in Kept', keep'[c].actual = "ON"
               PROVE  keep'[c].expected # None /\ seen'[c] = {keep'[c].expected}
    BY DEF OnMeansOnlyKeeperSeen
  <2>1. c \in Cards
    BY DEF Kept
  <2>2. CASE c \in S
    BY <1>3, <1>4, <2>2
  <2>3. CASE c \notin S
    BY <1>3, <1>5, <2>1, <2>3 DEF Data, OnMeansOnlyKeeperSeen
  <2> QED BY <2>2, <2>3
<1>9. KeepersAreSeen'
  <2> SUFFICES ASSUME NEW c \in Cards, Keeper(c)' PROVE worker[c] \in seen[c]
    BY <1>3 DEF KeepersAreSeen
  <2>1. CASE c \in S
    BY <1>4, <2>1
  <2>2. CASE c \notin S
    BY <1>3, <1>5, <2>2 DEF Data, KeepersAreSeen, Keeper
  <2> QED BY <2>1, <2>2
<1>10. LateStartsUnseen'
  BY <1>3, <1>5 DEF Data, LateStartsUnseen, Kept
<1> QED BY <1>2, <1>3, <1>4, <1>5, <1>6, <1>7, <1>8, <1>9, <1>10 DEF Data, Kept

-----------------------------------------------------------------------------
(* Where the coroutine goes next *)

\* What held of the place it goes to still holds there after a calm step.
LEMMA PhasedStep ==
  ASSUME Calm, NEW o, GoodOp(o), Phased(o), op' = o
  PROVE  GoodOp(op)' /\ Phased(op)'
<1>1. ToStart(o) \subseteq Cards /\ o.on \subseteq Cards
  BY DEF ToStart, GoodOp, Ops, Plans
<1>2. \A c \in ToStart(o) : StartSafe(c)'
  BY <1>1 DEF Phased, Calm
<1>3. o.at \in Answered => o.on \intersect late' \subseteq overtaken'
  BY DEF Phased, Calm, StaysOvertaken
<1>4. o.at = "finish" => o.on \intersect alive' \subseteq overtaken'
  BY DEF Phased, Calm, StaysOvertaken, Answered
<1>5. o.at \in {"finalize", "settle"} => \A c \in o.on : Keeper(c)' => c \in o.since
  BY <1>1 DEF Phased, Calm
<1> QED BY <1>2, <1>3, <1>4, <1>5 DEF Phased, GoodOp, ToStart

\* Places where it relies on nothing.
Easy(o) == o.plan.start = {} /\ o.at \notin {"start", "finalize", "settle"} \union Answered

LEMMA EasyStep ==
  ASSUME NEW o, GoodOp(o), Easy(o), op' = o
  PROVE  GoodOp(op)' /\ Phased(op)'
BY DEF Easy, Phased, ToStart, Answered, GoodOp

LEMMA EasyFree == Easy(Free) /\ GoodOp(Free)
BY FreeOp, NoPlanPlans DEF Easy, Answered

\* A reconciliation goes on to start workers where it is safe.
LEMMA OnwardPhased ==
  ASSUME NEW plan \in Plans, \A c \in plan.start : StartSafe(c)
  PROVE  GoodOp(Onward(plan)) /\ Phased(Onward(plan))
BY OnwardOp DEF Phased, Answered

LEMMA OnwardEasy ==
  ASSUME NEW plan \in Plans, plan.start = {}
  PROVE  GoodOp(Onward(plan)) /\ Easy(Onward(plan))
BY OnwardOp DEF Easy, Answered, ToStart

-----------------------------------------------------------------------------
(* Every step keeps the invariant: the reconciliation *)

\* The step only moves the coroutine.
LEMMA OnlyOp ==
  ASSUME Data, UNCHANGED <<ledgerVars, readingVars, serverVars, asideVars>>
  PROVE  Data' /\ Calm
<1>1. /\ policy' = policy /\ owner' = owner /\ keep' = keep /\ mark' = mark
      /\ seen' = seen /\ stale' = stale /\ reach' = reach
      /\ worker' = worker /\ alive' = alive /\ job' = job /\ late' = late /\ overtaken' = overtaken
      /\ asked' = asked /\ crashes' = crashes
  BY DEF ledgerVars, readingVars, serverVars, asideVars
<1>2. Types'
  BY <1>1 DEF Data, Types
<1>3. StaysOvertaken
  BY <1>1 DEF StaysOvertaken
<1> QED BY <1>1, <1>2, <1>3, QuietEffect

\* A question the helper was asked: what runs is left alone.
LEMMA AttestEffect ==
  ASSUME Data, NEW S \in SUBSET Cards, NEW ok, AttestCall(S, ok),
         UNCHANGED <<ledgerVars, readingVars, asideVars>>
  PROVE  /\ Data' /\ Calm
         /\ ok => S \intersect late' \subseteq overtaken'
<1>1. /\ policy' = policy /\ owner' = owner /\ keep' = keep /\ mark' = mark
      /\ seen' = seen /\ stale' = stale /\ reach' = reach
      /\ worker' = worker /\ alive' = alive /\ job' = job /\ late' = late
      /\ asked' = asked /\ crashes' = crashes
  BY DEF ledgerVars, readingVars, asideVars, AttestCall
<1>2. /\ StaysOvertaken /\ overtaken' \subseteq alive' \union late'
      /\ ok => S \intersect late' \subseteq overtaken'
  BY <1>1, OvertakenEffect DEF AttestCall
<1>3. Types'
  BY <1>1, <1>2 DEF Data, Types
<1> QED BY <1>1, <1>2, <1>3, QuietEffect

\* What the ledger asks to start is safe to start.
LEMMA TransitionsAreSafe ==
  ASSUME Data, NEW warm
  PROVE  Transitions(warm) \in Plans /\ \A c \in Transitions(warm).start : StartSafe(c)
<1>1. \A c \in Starting(warm) : c \in Cards /\ StartSafe(c)
  BY DEF Starting, Available, Kept, StartSafe
<1>2. Cleanups \subseteq Cards /\ Kept \subseteq Cards
  BY DEF Data, Types, Cleanups, Kept
<1> DEFINE warmth == {c \in Kept : NeedsConfirmation(c) /\ Cardinality(seen[c]) = 1}
<1>3. warmth \subseteq Cards
  BY DEF Kept
<1> HIDE DEF warmth
<1>4. CASE policy
  <2>1. Transitions(warm) = [cleanup |-> Cleanups, start |-> Starting(warm), recover |-> warmth,
                             stop |-> {}]
    BY <1>4 DEF Transitions, NoPlan, warmth
  <2> QED BY <1>1, <1>2, <1>3, <2>1 DEF Plans
<1>5. CASE ~policy
  <2>1. Transitions(warm) = [cleanup |-> Cleanups, start |-> {}, recover |-> {}, stop |-> Kept]
    BY <1>5 DEF Transitions, NoPlan
  <2> QED BY <1>2, <2>1 DEF Plans
<1> QED BY <1>4, <1>5

LEMMA ReconcileKeeps ==
  ASSUME IInv, Reconcile PROVE IInv'
<1>1. PICK warm \in SUBSET MayBeWarm : op' = Onward(Transitions(warm))
  BY DEF Reconcile
<1>2. Data' /\ Calm
  BY OnlyOp DEF IInv, Reconcile
<1>3. GoodOp(Onward(Transitions(warm))) /\ Phased(Onward(Transitions(warm)))
  BY TransitionsAreSafe, OnwardPhased DEF IInv
<1> QED BY <1>1, <1>2, <1>3, PhasedStep DEF IInv

\* What is left of the plan is as safe to start as it was.
LEMMA PlanLeft ==
  ASSUME IInv
  PROVE  /\ op.plan \in Plans /\ op.on \subseteq Cards
         /\ GoodOp(Onward(op.plan)) /\ Phased(Onward(op.plan))
         /\ op.plan.start = {} => Easy(Onward(op.plan))
<1>1. op.plan \in Plans /\ op.on \subseteq Cards
  BY DEF IInv, GoodOp, Ops
<1>2. \A c \in op.plan.start : StartSafe(c)
  BY DEF IInv, Phased, ToStart
<1> QED BY <1>1, <1>2, OnwardPhased, OnwardEasy

LEMMA CleanupKeeps ==
  ASSUME IInv, NEW done, Cleanup(done) PROVE IInv'
<1>1. op.at = "cleanup" /\ op \in Ops /\ op.since \subseteq op.on
  BY DEF Cleanup, IInv, GoodOp
<1>2. /\ Data' /\ Calm
      /\ done => op.on \intersect alive' = {} /\ op.on \intersect late' \subseteq overtaken'
  BY StopEffect, PlanLeft DEF IInv, Cleanup
<1>3. CASE done
  <2>1. op' = [op EXCEPT !.at = "finish"]
    BY <1>3 DEF Cleanup
  <2>2. /\ GoodOp(op)' /\ op'.at = "finish" /\ op'.on = op.on /\ op'.plan = op.plan
    BY <1>1, <2>1 DEF GoodOp, Ops, Places
  <2>3. \A c \in op.plan.start : StartSafe(c)'
    BY <1>2, PlanLeft DEF IInv, Phased, ToStart, Calm, Plans
  <2>4. Phased(op)'
    BY <1>2, <1>3, <2>2, <2>3 DEF Phased, ToStart
  <2> QED BY <1>2, <2>2, <2>4 DEF IInv
<1>4. CASE ~done
  <2>1. op' = Onward(op.plan)
    BY <1>4 DEF Cleanup
  <2> QED BY <1>2, <2>1, PlanLeft, PhasedStep DEF IInv
<1> QED BY <1>3, <1>4

LEMMA FinishCleanupKeeps ==
  ASSUME IInv, FinishCleanup PROVE IInv'
<1>1. /\ mark' = mark \ op.on /\ policy' = policy /\ owner' = owner /\ keep' = keep
      /\ seen' = seen /\ stale' = stale /\ reach' = reach
      /\ worker' = worker /\ alive' = alive /\ job' = job /\ late' = late /\ overtaken' = overtaken
      /\ asked' = asked /\ crashes' = crashes
  BY DEF FinishCleanup, readingVars, serverVars, asideVars
<1>2. Types'
  BY <1>1 DEF IInv, Data, Types
<1>3. Data' /\ Calm
  BY <1>1, <1>2, QuietEffect DEF IInv, StaysOvertaken
<1>4. op' = Onward(op.plan)
  BY DEF FinishCleanup
<1> QED BY <1>3, <1>4, PlanLeft, PhasedStep DEF IInv

LEMMA StartKeeps ==
  ASSUME IInv, NEW answer \in {"done", "unsure", "unreached"}, Start(answer) PROVE IInv'
<1>1. /\ op.at = "start" /\ op \in Ops /\ op.since \subseteq op.on /\ op.on \subseteq Cards
      /\ op.plan.start = {} /\ \A c \in op.on : c \in Cards /\ StartSafe(c)
  BY DEF Start, IInv, GoodOp, Ops, Phased, ToStart
<1>2. PICK T \in SUBSET op.on, L \in SUBSET op.on :
        /\ T \intersect L = {}
        /\ answer = "done" => T = op.on /\ L = {}
        /\ StartWorkers(T)
        /\ late' = late \union L
  BY DEF Start, StartCall
<1>3. late' \in SUBSET Cards /\ \A c \in late' \ late : StartSafe(c)
  BY <1>1, <1>2 DEF IInv, Data, Types
<1>4. /\ StaysOvertaken /\ overtaken' \subseteq alive' \union late'
      /\ answer = "done" => op.on \intersect late' \subseteq overtaken'
  BY <1>2 DEF Start, StartCall, StillOvertaken, StaysOvertaken
<1>8. Data'
  BY <1>1, <1>2, <1>3, <1>4, StartEffect DEF IInv, Start, StartCall
<1>5. CASE answer = "done"
  <2>1. op' = [op EXCEPT !.at = "attest"]
    BY <1>5 DEF Start
  <2>2. GoodOp(op)' /\ op'.at = "attest" /\ op'.plan = op.plan
    BY <1>1, <2>1 DEF GoodOp, Ops, Places
  <2>3. op'.on \intersect late' \subseteq overtaken'
    BY <1>1, <1>4, <1>5, <2>1 DEF Ops
  <2>4. Phased(op)'
    BY <1>1, <2>2, <2>3 DEF Phased, ToStart
  <2> QED BY <1>8, <2>2, <2>4 DEF IInv
<1>6. CASE answer = "unsure"
  <2>1. op' = [op EXCEPT !.at = "undo"]
    BY <1>6 DEF Start
  <2>2. GoodOp([op EXCEPT !.at = "undo"]) /\ Easy([op EXCEPT !.at = "undo"])
    BY <1>1 DEF GoodOp, Ops, Places, Easy, Answered
  <2> QED BY <1>8, <2>1, <2>2, EasyStep DEF IInv
<1>7. CASE answer = "unreached"
  <2>1. op' = [op EXCEPT !.at = "error"]
    BY <1>7 DEF Start
  <2>2. GoodOp([op EXCEPT !.at = "error"]) /\ Easy([op EXCEPT !.at = "error"])
    BY <1>1 DEF GoodOp, Ops, Places, Easy, Answered
  <2> QED BY <1>8, <2>1, <2>2, EasyStep DEF IInv
<1> QED BY <1>5, <1>6, <1>7

LEMMA AttestKeeps ==
  ASSUME IInv, NEW ok \in BOOLEAN, Attest(ok) PROVE IInv'
<1>1. /\ op.at = "attest" /\ op \in Ops /\ op.since \subseteq op.on /\ op.plan.start = {}
      /\ op.on \in SUBSET Cards /\ op.on \intersect late \subseteq overtaken
  BY DEF Attest, IInv, GoodOp, Ops, Phased, Answered
<1>2. Data' /\ Calm
  BY <1>1, AttestEffect DEF IInv, Attest
<1>3. CASE ok
  <2>1. op' = [op EXCEPT !.at = "startRead"]
    BY <1>3 DEF Attest
  <2>2. GoodOp([op EXCEPT !.at = "startRead"]) /\ Phased([op EXCEPT !.at = "startRead"])
    BY <1>1 DEF GoodOp, Ops, Places, Phased, Answered, ToStart
  <2> QED BY <1>2, <2>1, <2>2, PhasedStep DEF IInv
<1>4. CASE ~ok
  <2>1. op' = [op EXCEPT !.at = "undo"]
    BY <1>4 DEF Attest
  <2>2. GoodOp([op EXCEPT !.at = "undo"]) /\ Easy([op EXCEPT !.at = "undo"])
    BY <1>1 DEF GoodOp, Ops, Places, Easy, Answered
  <2> QED BY <1>2, <2>1, <2>2, EasyStep DEF IInv
<1> QED BY <1>3, <1>4

\* The reading an operation asked for is a reading like any other.
LEMMA OwnReadingEffect ==
  ASSUME Data, NEW ripe, Reading(ripe), UNCHANGED asked
  PROVE  Data' /\ Calm
BY ReadingEffect DEF Data, Types

LEMMA StartReadKeeps ==
  ASSUME IInv, NEW ok \in BOOLEAN, StartRead(ok) PROVE IInv'
<1>1. /\ op.at = "startRead" /\ op \in Ops /\ op.since \subseteq op.on /\ op.plan.start = {}
      /\ op.on \intersect late \subseteq overtaken
  BY DEF StartRead, OwnReading, IInv, GoodOp, Phased, Answered
<1>2. CASE ok
  <2> DEFINE o == [[op EXCEPT !.at = "confirm"] EXCEPT !.since = op.since]
  <2>1. op' = o
    BY <1>1, <1>2 DEF StartRead, OwnReading, Stopping
  <2>2. Data' /\ Calm
    BY <1>2, OwnReadingEffect DEF StartRead, OwnReading, IInv
  <2>3. GoodOp(o) /\ Phased(o)
    BY <1>1 DEF GoodOp, Ops, Places, Phased, Answered, ToStart
  <2> QED BY <2>1, <2>2, <2>3, PhasedStep DEF IInv
<1>3. CASE ~ok
  <2>1. op' = [op EXCEPT !.at = "undo"] /\ Data' /\ Calm
    BY <1>3, OnlyOp DEF StartRead, OwnReading, IInv
  <2>2. GoodOp([op EXCEPT !.at = "undo"]) /\ Easy([op EXCEPT !.at = "undo"])
    BY <1>1 DEF GoodOp, Ops, Places, Easy, Answered
  <2> QED BY <2>1, <2>2, EasyStep DEF IInv
<1> QED BY <1>2, <1>3

LEMMA ConfirmKeeps ==
  ASSUME IInv, Confirm PROVE IInv'
<1>1. /\ op.at = "confirm" /\ op \in Ops /\ op.since \subseteq op.on /\ op.plan.start = {}
      /\ op.on \in SUBSET Cards /\ op.on \intersect late \subseteq overtaken
  BY DEF Confirm, IInv, GoodOp, Ops, Phased, Answered
<1>2. CASE Confirmed(op.on)
  <2>1. Activate(op.on) /\ op' = Onward(op.plan)
    BY <1>2 DEF Confirm
  <2>2. Data'
    BY <1>1, <1>2, <2>1, ActivateEffect DEF IInv, Confirm
  <2> QED BY <1>1, <2>1, <2>2, PlanLeft, EasyStep DEF IInv
<1>3. CASE ~Confirmed(op.on)
  <2>1. op' = [op EXCEPT !.at = "undo"] /\ Data' /\ Calm
    BY <1>3, OnlyOp DEF Confirm, IInv
  <2>2. GoodOp([op EXCEPT !.at = "undo"]) /\ Easy([op EXCEPT !.at = "undo"])
    BY <1>1 DEF GoodOp, Ops, Places, Easy, Answered
  <2> QED BY <2>1, <2>2, EasyStep DEF IInv
<1> QED BY <1>2, <1>3

LEMMA UndoKeeps ==
  ASSUME IInv, NEW done \in BOOLEAN, Undo(done) PROVE IInv'
<1>1. op.at = "undo" /\ op \in Ops /\ op.since \subseteq op.on /\ op.plan.start = {}
  BY DEF Undo, IInv, GoodOp, Phased
<1>2. Data' /\ Calm
  BY StopEffect, PlanLeft DEF IInv, Undo
<1> DEFINE o == [op EXCEPT !.at = "error", !.failed = ~done]
<1>3. op' = o
  BY DEF Undo
<1>4. GoodOp(o) /\ Easy(o)
  BY <1>1 DEF GoodOp, Ops, Places, Easy, Answered
<1> QED BY <1>2, <1>3, <1>4, EasyStep DEF IInv

LEMMA StartFailedKeeps ==
  ASSUME IInv, StartFailed PROVE IInv'
<1> DEFINE failed(c) == [keep[c] EXCEPT !.actual = "ERROR"]
<1>1. /\ keep' = [c \in Cards |-> IF c \in op.on \intersect Kept THEN failed(c) ELSE keep[c]]
      /\ mark' \in {mark, mark \union op.on} /\ policy' = policy /\ owner' = owner
      /\ seen' = seen /\ stale' = stale /\ reach' = reach
      /\ worker' = worker /\ alive' = alive /\ job' = job /\ late' = late /\ overtaken' = overtaken
      /\ asked' = asked /\ crashes' = crashes
  BY DEF StartFailed, readingVars, serverVars, asideVars
<1>2. keep \in [Cards -> Keeps] /\ op.on \subseteq Cards
  BY PlanLeft DEF IInv, Data, Types
<1>3. \A c \in Cards : /\ failed(c) \in Keeps /\ failed(c).expected = keep[c].expected
                       /\ failed(c).actual # "ON"
  BY <1>2 DEF Keeps
<1> HIDE DEF failed
<1>4. /\ keep' \in [Cards -> Keeps]
      /\ \A c \in Cards : /\ keep'[c].expected = keep[c].expected
                          /\ keep'[c].actual = "ON" => keep[c].actual = "ON"
  BY <1>1, <1>2, <1>3
<1>5. Types'
  BY <1>1, <1>2, <1>4 DEF IInv, Data, Types
<1>6. Data'
  BY <1>1, <1>4, <1>5, QuietEffect DEF IInv, StaysOvertaken
<1>7. op' = Free
  BY DEF StartFailed
<1> QED BY <1>6, <1>7, EasyFree, EasyStep DEF IInv

LEMMA RecoverKeeps ==
  ASSUME IInv, NEW ok \in BOOLEAN, Recover(ok) PROVE IInv'
<1>1. /\ op.at = "recover" /\ op \in Ops /\ op.since \subseteq op.on /\ op.plan.start = {}
      /\ op.on \in SUBSET Cards
  BY DEF Recover, IInv, GoodOp, Ops, Phased
<1>2. Data' /\ (ok => op.on \intersect late' \subseteq overtaken')
  BY <1>1, AttestEffect DEF IInv, Recover
<1>3. CASE ok
  <2>1. op' = [op EXCEPT !.at = "recoverRead"]
    BY <1>3 DEF Recover
  <2>2. GoodOp(op)' /\ op'.at = "recoverRead" /\ op'.on = op.on /\ op'.plan = op.plan
    BY <1>1, <2>1 DEF GoodOp, Ops, Places
  <2>3. Phased(op)'
    BY <1>1, <1>2, <1>3, <2>2 DEF Phased, ToStart
  <2> QED BY <1>2, <2>2, <2>3 DEF IInv
<1>4. CASE ~ok
  <2>1. op' = Free
    BY <1>4 DEF Recover
  <2> QED BY <1>2, <2>1, EasyFree, EasyStep DEF IInv
<1> QED BY <1>3, <1>4

LEMMA RecoverReadKeeps ==
  ASSUME IInv, NEW ok \in BOOLEAN, RecoverRead(ok) PROVE IInv'
<1>1. /\ op.at = "recoverRead" /\ op \in Ops /\ op.since \subseteq op.on /\ op.plan.start = {}
      /\ op.on \intersect late \subseteq overtaken
  BY DEF RecoverRead, OwnReading, IInv, GoodOp, Phased, Answered
<1>2. CASE ok
  <2> DEFINE o == [[op EXCEPT !.at = "rebind"] EXCEPT !.since = op.since]
  <2>1. op' = o
    BY <1>1, <1>2 DEF RecoverRead, OwnReading, Stopping
  <2>2. Data' /\ Calm
    BY <1>2, OwnReadingEffect DEF RecoverRead, OwnReading, IInv
  <2>3. GoodOp(o) /\ Phased(o)
    BY <1>1 DEF GoodOp, Ops, Places, Phased, Answered, ToStart
  <2> QED BY <2>1, <2>2, <2>3, PhasedStep DEF IInv
<1>3. CASE ~ok
  <2>1. op' = Free /\ Data'
    BY <1>3, OnlyOp DEF RecoverRead, OwnReading, IInv
  <2> QED BY <2>1, EasyFree, EasyStep DEF IInv
<1> QED BY <1>2, <1>3

LEMMA RebindKeeps ==
  ASSUME IInv, Rebind PROVE IInv'
<1>1. /\ op.at = "rebind" /\ op.plan.start = {} /\ op.on \in SUBSET Cards
      /\ op.on \intersect late \subseteq overtaken
  BY DEF Rebind, IInv, GoodOp, Ops, Phased, Answered
<1>2. CASE Confirmed(op.on)
  <2>1. Activate(op.on) /\ op' = Onward(op.plan)
    BY <1>2 DEF Rebind
  <2>2. Data'
    BY <1>1, <1>2, <2>1, ActivateEffect DEF IInv, Rebind
  <2> QED BY <1>1, <2>1, <2>2, PlanLeft, EasyStep DEF IInv
<1>3. CASE ~Confirmed(op.on)
  <2>1. op' = Free /\ Data'
    BY <1>3, OnlyOp DEF Rebind, IInv
  <2> QED BY <2>1, EasyFree, EasyStep DEF IInv
<1> QED BY <1>2, <1>3

\* The next worker to stop, or the end of the reconciliation.
LEMMA NextStopEasy ==
  ASSUME IInv, op.at \notin {"cleanup", "finish"}
  PROVE  GoodOp(NextStop) /\ Easy(NextStop)
<1>1. op \in Ops /\ op.since \subseteq op.on /\ op.plan.start = {}
  BY DEF IInv, GoodOp, Phased
<1> DEFINE o == [op EXCEPT !.at = "stopping", !.on = {}, !.since = {}]
<1>2. GoodOp(o) /\ Easy(o)
  BY <1>1 DEF GoodOp, Ops, Places, Easy, Answered
<1>3. NextStop \in {Free, o}
  BY DEF NextStop
<1> QED BY <1>2, <1>3, EasyFree

LEMMA PrepareStopsKeeps ==
  ASSUME IInv, PrepareStops PROVE IInv'
<1>1. op.at = "stop" /\ op \in Ops /\ op.since \subseteq op.on /\ op.plan \in Plans /\ op.plan.start = {}
  BY DEF PrepareStops, IInv, GoodOp, Ops, Phased
<1>2. Data'
  BY OnlyOp DEF IInv, PrepareStops
<1> DEFINE o == [op EXCEPT !.at = "stopping", !.plan.stop = StopTargets(@)]
<1>3. op' \in {Free, o}
  BY DEF PrepareStops
<1>4. StopTargets(op.plan.stop) \in SUBSET Cards
  BY DEF StopTargets, Kept
<1>5. [op.plan EXCEPT !.stop = StopTargets(op.plan.stop)] \in Plans
      /\ [op.plan EXCEPT !.stop = StopTargets(op.plan.stop)].start = {}
  BY <1>1, <1>4 DEF Plans
<1>6. o = [op EXCEPT !.at = "stopping", !.plan = [op.plan EXCEPT !.stop = StopTargets(op.plan.stop)]]
  BY <1>1 DEF Ops, Plans
<1> HIDE DEF o
<1>7. GoodOp(o) /\ Easy(o)
  BY <1>1, <1>5, <1>6 DEF GoodOp, Ops, Places, Easy, Answered
<1> QED BY <1>2, <1>3, <1>7, EasyFree, EasyStep DEF IInv

LEMMA StopKeeps ==
  ASSUME IInv, NEW done \in BOOLEAN, NEW c \in Cards, Stop(c, done) PROVE IInv'
<1>1. op.at = "stopping" /\ op \in Ops /\ op.plan \in Plans /\ op.plan.start = {}
  BY DEF Stop, IInv, GoodOp, Ops, Phased
<1>2. Data'
  BY StopEffect DEF IInv, Stop
<1> DEFINE o == [op EXCEPT !.at = "stopRead", !.on = {c}, !.plan.stop = @ \ {c}, !.since = {}]
           left == [op.plan EXCEPT !.stop = op.plan.stop \ {c}]
<1>3. op' = o
  BY DEF Stop
<1>4. left \in Plans /\ left.start = {}
  BY <1>1 DEF Plans
<1>5. o = [op EXCEPT !.at = "stopRead", !.on = {c}, !.plan = left, !.since = {}]
  BY <1>1 DEF Ops, Plans
<1> HIDE DEF o, left
<1>6. GoodOp(o) /\ Easy(o)
  BY <1>1, <1>4, <1>5 DEF GoodOp, Ops, Places, Easy, Answered
<1> QED BY <1>2, <1>3, <1>6, EasyStep DEF IInv

\* A reading after the stop leaves no confirmed worker out that still runs.
LEMMA StillListedKeepers ==
  ASSUME IInv
  PROVE  StillListed \subseteq op.on /\ \A c \in op.on : Keeper(c) => c \in StillListed
BY PlanLeft, Listings DEF IInv, StillListed, Keeper

LEMMA StopReadKeeps ==
  ASSUME IInv, NEW ok \in BOOLEAN, StopRead(ok) PROVE IInv'
<1>1. op.at = "stopRead" /\ op \in Ops /\ op.since \subseteq op.on /\ op.plan.start = {}
  BY DEF StopRead, OwnReading, IInv, GoodOp, Phased
<1>2. CASE ok
  <2> DEFINE o == [[op EXCEPT !.at = "finalize"] EXCEPT !.since = op.since \union StillListed]
  <2>1. op' = o
    BY <1>1, <1>2 DEF StopRead, OwnReading, Stopping
  <2>2. Data' /\ Calm
    BY <1>2, OwnReadingEffect DEF StopRead, OwnReading, IInv
  <2>3. /\ StillListed \subseteq op.on /\ op.on \subseteq Cards
        /\ \A c \in op.on : Keeper(c) => c \in StillListed
    BY StillListedKeepers, PlanLeft
  <2>4. GoodOp(o)
    BY <1>1, <2>3 DEF GoodOp, Ops, Places
  <2>5. Phased(o)
    BY <1>1, <2>3 DEF Ops, Phased, Answered, ToStart
  <2> QED BY <2>1, <2>2, <2>4, <2>5, PhasedStep DEF IInv
<1>3. CASE ~ok
  <2>1. op' = NextStop /\ Data'
    BY <1>3, OnlyOp DEF StopRead, OwnReading, IInv
  <2> QED BY <1>1, <2>1, NextStopEasy, EasyStep DEF IInv
<1> QED BY <1>2, <1>3

LEMMA SettleEffect ==
  ASSUME Data, NEW c, Settled(c), Settle(c)
  PROVE  Data' /\ Calm /\ c \in Kept /\ Kept' = Kept \ {c}
BY EndEffect DEF Settled, Settle, asideVars, Data, Types

LEMMA FinalizeKeeps ==
  ASSUME IInv, Finalize PROVE IInv'
<1>1. op.at = "finalize" /\ op' = NextStop
  BY DEF Finalize
<1>2. PICK c \in op.on : IF Settled(c) THEN Settle(c)
                         ELSE UNCHANGED <<ledgerVars, readingVars, serverVars, asideVars>>
  BY DEF Finalize
<1>3. Data'
  BY <1>2, SettleEffect, OnlyOp DEF IInv
<1> QED BY <1>1, <1>3, NextStopEasy, EasyStep DEF IInv

-----------------------------------------------------------------------------
(* Every step keeps the invariant: claims *)

LEMMA ClaimKeeps ==
  ASSUME IInv, NEW S \in SUBSET Cards, NEW move \in BOOLEAN, Claim(S, move) PROVE IInv'
<1>1. Data' /\ op' = Free
  BY GrantEffect DEF Claim, IInv
<1> QED BY <1>1, EasyFree, EasyStep DEF IInv

LEMMA PlanReclaimKeeps ==
  ASSUME IInv, NEW S \in SUBSET Cards, NEW move \in BOOLEAN, PlanReclaim(S, move) PROVE IInv'
<1> DEFINE o == [Free EXCEPT !.at = "reclaim", !.on = S \intersect Kept, !.want = S, !.move = move]
<1>1. op' = o /\ Data'
  BY OnlyOp DEF PlanReclaim, IInv
<1>2. Free \in Ops /\ Free.since = {} /\ Free.plan.start = {}
  BY FreeOp, NoPlanPlans DEF GoodOp
<1>3. S \intersect Kept \in SUBSET Cards
  OBVIOUS
<1>4. GoodOp(o) /\ Easy(o)
  BY <1>2, <1>3 DEF GoodOp, Ops, Places, Easy, Answered
<1> QED BY <1>1, <1>4, EasyStep DEF IInv

LEMMA ReclaimKeeps ==
  ASSUME IInv, NEW done \in BOOLEAN, Reclaim(done) PROVE IInv'
<1>1. op.at = "reclaim" /\ op \in Ops /\ op.since \subseteq op.on /\ op.plan.start = {}
  BY DEF Reclaim, IInv, GoodOp, Phased
<1> DEFINE o == [op EXCEPT !.at = "reclaimRead", !.failed = ~done]
<1>2. CASE StopTargets(op.on) = op.on
  <2>1. Data' /\ op' = o
    BY <1>2, StopEffect, PlanLeft DEF Reclaim, IInv
  <2>2. GoodOp(o) /\ Easy(o)
    BY <1>1 DEF GoodOp, Ops, Places, Easy, Answered
  <2> QED BY <2>1, <2>2, EasyStep DEF IInv
<1>3. CASE StopTargets(op.on) # op.on
  <2>1. Data' /\ op' = Free
    BY <1>3, OnlyOp DEF Reclaim, IInv
  <2> QED BY <2>1, EasyFree, EasyStep DEF IInv
<1> QED BY <1>2, <1>3

LEMMA ReclaimReadKeeps ==
  ASSUME IInv, NEW ok \in BOOLEAN, ReclaimRead(ok) PROVE IInv'
<1>1. op.at = "reclaimRead" /\ op \in Ops /\ op.since \subseteq op.on /\ op.plan.start = {}
  BY DEF ReclaimRead, OwnReading, IInv, GoodOp, Phased
<1>2. CASE ok
  <2> DEFINE o == [[op EXCEPT !.at = "settle"] EXCEPT !.since = op.since \union StillListed]
  <2>1. op' = o
    BY <1>1, <1>2 DEF ReclaimRead, OwnReading, Stopping
  <2>2. Data' /\ Calm
    BY <1>2, OwnReadingEffect DEF ReclaimRead, OwnReading, IInv
  <2>3. /\ StillListed \subseteq op.on /\ op.on \subseteq Cards
        /\ \A c \in op.on : Keeper(c) => c \in StillListed
    BY StillListedKeepers, PlanLeft
  <2>4. GoodOp(o)
    BY <1>1, <2>3 DEF GoodOp, Ops, Places
  <2>5. Phased(o)
    BY <1>1, <2>3 DEF Ops, Phased, Answered, ToStart
  <2> QED BY <2>1, <2>2, <2>4, <2>5, PhasedStep DEF IInv
<1>3. CASE ~ok
  <2>1. op' = Free /\ Data'
    BY <1>3, OnlyOp DEF ReclaimRead, OwnReading, IInv
  <2> QED BY <2>1, EasyFree, EasyStep DEF IInv
<1> QED BY <1>2, <1>3

LEMMA SettleReclaimedKeeps ==
  ASSUME IInv, SettleReclaimed PROVE IInv'
<1>1. /\ op.at = "settle" /\ op \in Ops /\ op.since \subseteq op.on /\ op.plan.start = {}
      /\ \A c \in op.on : Keeper(c) => c \in op.since
  BY DEF SettleReclaimed, IInv, GoodOp, Phased
<1> DEFINE o(c) == [op EXCEPT !.on = @ \ {c}, !.since = @ \ {c}]
           claim == [Free EXCEPT !.at = "claim", !.want = op.want, !.move = op.move]
<1>2. PICK c \in op.on :
        IF Settled(c) THEN Settle(c) /\ op' \in {o(c), Free, claim}
        ELSE op' = Free /\ UNCHANGED <<ledgerVars, readingVars, serverVars, asideVars>>
  BY DEF SettleReclaimed
<1>3. GoodOp(o(c)) /\ Phased(o(c))
  BY <1>1 DEF GoodOp, Ops, Places, Phased, Answered, ToStart
<1>4. GoodOp(claim) /\ Easy(claim)
  <2>1. Free \in Ops /\ Free.since = {} /\ Free.plan.start = {}
    BY FreeOp, NoPlanPlans DEF GoodOp
  <2>2. op.want \in SUBSET Cards /\ op.move \in BOOLEAN
    BY <1>1 DEF Ops
  <2> QED BY <2>1, <2>2 DEF GoodOp, Ops, Places, Easy, Answered
<1> HIDE DEF o, claim
<1>5. CASE Settled(c)
  <2>1. Data' /\ Calm
    BY <1>2, <1>5, SettleEffect DEF IInv
  <2>2. CASE op' = o(c)
    BY <1>3, <2>1, <2>2, PhasedStep DEF IInv
  <2>3. CASE op' \in {Free, claim}
    BY <1>4, <2>1, <2>3, EasyFree, EasyStep DEF IInv
  <2> QED BY <1>2, <1>5, <2>2, <2>3
<1>6. CASE ~Settled(c)
  <2>1. Data' /\ op' = Free
    BY <1>2, <1>6, OnlyOp DEF IInv
  <2> QED BY <2>1, EasyFree, EasyStep DEF IInv
<1> QED BY <1>5, <1>6

LEMMA ClaimReclaimedKeeps ==
  ASSUME IInv, ClaimReclaimed PROVE IInv'
<1>1. op.want \in SUBSET Cards
  BY DEF IInv, GoodOp, Ops
<1>2. Data'
  <2>1. CASE Grantable(op.want, op.move)
    BY <1>1, <2>1, GrantEffect DEF ClaimReclaimed, IInv
  <2>2. CASE ~Grantable(op.want, op.move)
    BY <2>2, OnlyOp DEF ClaimReclaimed, IInv
  <2> QED BY <2>1, <2>2
<1>3. op' = Free
  BY DEF ClaimReclaimed
<1> QED BY <1>2, <1>3, EasyFree, EasyStep DEF IInv

-----------------------------------------------------------------------------
(* Every step keeps the invariant: everything that needs no lock *)

LEMMA ObserveKeeps ==
  ASSUME IInv, NEW ripe \in SUBSET Cards, Observe(ripe) PROVE IInv'
<1>1. asked' \in SUBSET Cards
  BY DEF Observe, IInv, Data, Types, Kept
<1>2. Data' /\ Calm
  BY <1>1, ReadingEffect DEF Observe, IInv
<1> DEFINE o == [op EXCEPT !.since = op.since \union StillListed]
<1>3. op' \in {op, o}
  BY DEF Observe
<1>4. /\ StillListed \subseteq op.on /\ op.on \subseteq Cards /\ op \in Ops /\ op.since \subseteq op.on
  BY StillListedKeepers, PlanLeft DEF IInv, GoodOp
<1>5. GoodOp(o)
  BY <1>4 DEF GoodOp, Ops
<1>6. Phased(o)
  BY <1>4 DEF Ops, IInv, Phased, ToStart
<1> HIDE DEF o
<1> QED BY <1>2, <1>3, <1>5, <1>6, PhasedStep DEF IInv

\* A step that leaves the coroutine where it was.
LEMMA SameOp ==
  ASSUME IInv, Data', Calm, op' = op PROVE IInv'
BY PhasedStep DEF IInv

LEMMA UnansweredKeeps ==
  ASSUME IInv, Unanswered PROVE IInv'
<1>1. /\ policy' = policy /\ owner' = owner /\ keep' = keep /\ mark' = mark /\ seen' = seen
      /\ worker' = worker /\ alive' = alive /\ job' = job /\ late' = late /\ overtaken' = overtaken
      /\ asked' = asked /\ crashes' = crashes /\ op' = op
      /\ reach' \in {"stale", "gone"} /\ stale' = [c \in Cards |-> {}]
  BY DEF Unanswered, ledgerVars, serverVars, asideVars
<1>2. Types'
  BY <1>1 DEF IInv, Data, Types, Sightings
<1>3. Data' /\ Calm
  BY <1>1, <1>2, QuietEffect DEF IInv, StaysOvertaken
<1> QED BY <1>1, <1>3, SameOp

LEMMA LateStartKeeps ==
  ASSUME IInv, LateStart PROVE IInv'
<1>1. PICK S \in SUBSET late : StartWorkers(S) /\ late' \subseteq late
  BY DEF LateStart
<1>2. /\ S \in SUBSET Cards /\ late' \in SUBSET Cards /\ late' \subseteq late /\ op' = op
      /\ alive' = alive \union S /\ StaysOvertaken /\ overtaken' \subseteq alive' \union late'
  BY <1>1 DEF LateStart, StartWorkers, StillOvertaken, StaysOvertaken, IInv, Data, Types
<1>3. /\ Data'
      /\ \A c \in Cards : (StartSafe(c) => StartSafe(c)') /\ (Keeper(c)' => Keeper(c))
  BY <1>1, <1>2, StartEffect DEF LateStart, IInv
<1> QED BY <1>1, <1>2, <1>3, SameOp DEF Calm

\* What a worker's end leaves on the server, and steps that leave all of it.
LEMMA SmallStepsOnServer ==
  ASSUME IInv,
         \/ SetPolicy \/ Unanswered \/ UNCHANGED vars
         \/ \E c \in Cards : WorkerDies(c) \/ JobToggles(c) \/ TaskEnds(c)
  PROVE  /\ worker' \in [Cards -> Ids \union {None}] /\ \A c \in alive' : worker'[c] = worker[c]
         /\ alive' \subseteq alive /\ late' = late
         /\ StaysOvertaken /\ overtaken' \subseteq Cards
<1>1. CASE \E c \in Cards : WorkerDies(c)
  <2>1. PICK c \in Cards : WorkerDies(c)
    BY <1>1
  <2>2. late' = late /\ alive' = alive \ {c} /\ worker' = [worker EXCEPT ![c] = None]
    BY <2>1 DEF WorkerDies
  <2>3. StaysOvertaken /\ overtaken' \subseteq alive' \union late'
    BY <2>1, <2>2, OvertakenEffect DEF WorkerDies
  <2> QED BY <2>2, <2>3 DEF IInv, Data, Types
<1>2. CASE worker' = worker /\ alive' = alive /\ late' = late /\ overtaken' = overtaken
  BY <1>2 DEF IInv, Data, Types, StaysOvertaken
<1> QED BY <1>1, <1>2 DEF SetPolicy, Unanswered, JobToggles, TaskEnds, vars, serverVars

\* The steps around that leave what is seen and who runs as they are, or less.
LEMMA SmallStepsKeep ==
  ASSUME IInv,
         \/ SetPolicy
         \/ \E c \in Cards : WorkerDies(c) \/ JobToggles(c) \/ TaskEnds(c)
  PROVE  IInv'
<1>1. /\ keep' = keep /\ mark' = mark /\ seen' = seen /\ stale' = stale /\ reach' = reach
      /\ late' = late /\ asked' = asked /\ crashes' = crashes /\ op' = op
  BY DEF SetPolicy, WorkerDies, JobToggles, TaskEnds, ledgerVars, readingVars, serverVars, asideVars
<1>2. policy' \in BOOLEAN /\ alive' \subseteq alive /\ job' \subseteq Cards
  BY DEF SetPolicy, WorkerDies, JobToggles, TaskEnds, ledgerVars, serverVars, IInv, Data, Types
<1>6. /\ worker' \in [Cards -> Ids \union {None}] /\ \A c \in alive' : worker'[c] = worker[c]
      /\ StaysOvertaken /\ overtaken' \subseteq Cards
  BY SmallStepsOnServer
<1>3. /\ owner' \in [Cards -> {"none", "keepalive", "workload"}]
      /\ \A c \in Cards : owner'[c] = owner[c] \/ (owner[c] = "workload" /\ owner'[c] = "none")
  BY DEF SetPolicy, WorkerDies, JobToggles, TaskEnds, ledgerVars, IInv, Data, Types
<1>4. Types'
  BY <1>1, <1>2, <1>3, <1>6 DEF IInv, Data, Types
<1>5. Data' /\ Calm
  BY <1>1, <1>2, <1>3, <1>4, <1>6, QuietEffect DEF IInv
<1> QED BY <1>1, <1>5, SameOp

LEMMA ClearKeeps ==
  ASSUME IInv, NEW c \in Cards, Clear(c) PROVE IInv'
<1>1. /\ c \in Kept /\ EndKeep(c) /\ asked' \in SUBSET Cards /\ op' = op
      /\ seen' = seen /\ stale' = stale /\ reach' = reach
  BY DEF Clear, readingVars
<1>2. Data' /\ Calm
  BY <1>1, EndEffect DEF Clear, IInv, serverVars
<1> QED BY <1>1, <1>2, SameOp

LEMMA CrashKeeps ==
  ASSUME IInv, Crash PROVE IInv'
<1>1. /\ policy' = policy /\ owner' = owner /\ keep' = keep /\ mark' = mark
      /\ seen' = seen /\ stale' = stale /\ reach' = reach
      /\ worker' = worker /\ alive' = alive /\ job' = job /\ late' = late /\ overtaken' = overtaken
      /\ asked' = {} /\ op' = Free
  BY DEF Crash, ledgerVars, readingVars, serverVars
<1>2. crashes' \in 0 .. MaxCrashes
  BY KeepaliveAssumption DEF Crash, IInv, Data, Types, KeepaliveAssumption
<1>3. Types'
  BY <1>1, <1>2 DEF IInv, Data, Types
<1>4. Data'
  BY <1>1, <1>3, QuietEffect DEF IInv, StaysOvertaken
<1> QED BY <1>1, <1>4, EasyFree, EasyStep DEF IInv

LEMMA StutterKeeps ==
  ASSUME IInv, UNCHANGED vars PROVE IInv'
<1>1. Data' /\ Calm /\ op' = op
  BY OnlyOp DEF IInv, vars
<1> QED BY <1>1, SameOp

LEMMA InitHolds == Init => IInv
<1> SUFFICES ASSUME Init PROVE IInv
  OBVIOUS
<1>1. NotKept \in Keeps /\ {} \in Sightings /\ 0 \in 0 .. MaxCrashes /\ NotKept.actual = "OFF"
  BY KeepaliveAssumption DEF NotKept, Keeps, Sightings, KeepaliveAssumption
<1>2. Types
  BY <1>1 DEF Init, Types
<1>3. Kept = {} /\ alive = {} /\ late = {}
  BY DEF Init, Kept
<1>4. Data
  BY <1>2, <1>3 DEF Data, Recorded, OnMeansOnlyKeeperSeen, KeepersAreSeen, LateStartsUnseen, Keeper
<1>5. op = Free
  BY DEF Init
<1>6. GoodOp(op) /\ Phased(op)
  BY <1>5, EasyFree DEF Easy, Phased, Answered, ToStart
<1> QED BY <1>4, <1>6 DEF IInv

\* Every step, whoever takes it.
LEMMA NextKeeps == IInv /\ [Next]_vars => IInv'
<1> SUFFICES ASSUME IInv, [Next]_vars PROVE IInv'
  OBVIOUS
<1>1. CASE Reconciliation
  BY <1>1, ReconcileKeeps, FinishCleanupKeeps, ConfirmKeeps, StartFailedKeeps, RebindKeeps,
     PrepareStopsKeeps, FinalizeKeeps, StartKeeps, CleanupKeeps, AttestKeeps, StartReadKeeps,
     UndoKeeps, RecoverKeeps, RecoverReadKeeps, StopReadKeeps, StopKeeps DEF Reconciliation
<1>2. CASE Claiming
  BY <1>2, ClaimKeeps, PlanReclaimKeeps, SettleReclaimedKeeps, ClaimReclaimedKeeps, ReclaimKeeps,
     ReclaimReadKeeps DEF Claiming
<1>3. CASE Around
  BY <1>3, ObserveKeeps, UnansweredKeeps, LateStartKeeps, SmallStepsKeep, ClearKeeps, CrashKeeps
  DEF Around
<1>4. CASE UNCHANGED vars
  BY <1>4, StutterKeeps
<1> QED BY <1>1, <1>2, <1>3, <1>4 DEF Next

\* The ledger, the sightings and the server agree as Data says, and the
\* coroutine finds what it relies on, after every interleaving of the lock's
\* holder, the probe loop, starts that were given up and happen later, before
\* or after any other call, and kills of the daemon.  What it may not rely on
\* is that such a start is over: on the cards of an answered call that is
\* still to come it is overtaken, and nothing is said of them.
THEOREM Invariance == Spec => []IInv
<1>1. Init => IInv
  BY InitHolds
<1>2. IInv /\ [Next]_vars => IInv'
  BY NextKeeps
<1> QED BY <1>1, <1>2, PTL DEF Spec

-----------------------------------------------------------------------------
(* The results *)

\* Everything in the ledger, in a reading and on the server stays of its type,
\* and the coroutine's readings since the stop are of cards it is about.
THEOREM TypesHold == Spec => []TypeOK
<1>1. IInv => TypeOK
  <2> SUFFICES ASSUME IInv PROVE TypeOK
    OBVIOUS
  <2>1. op.on \subseteq Cards /\ op.want \subseteq Cards /\ op.since \subseteq op.on
    BY DEF IInv, GoodOp, Ops
  <2>2. \A part \in DOMAIN op.plan : op.plan[part] \subseteq Cards
    BY DEF IInv, GoodOp, Ops, Plans
  <2> QED BY <2>1, <2>2 DEF IInv, Data, Types, Keeps, TypeOK
<1> QED BY <1>1, Invariance, PTL

\* A card is ON only while the worker it was confirmed with is all that is
\* seen: what a claim relies on when it counts a kept card as reclaimable.
THEOREM OnMeansOnlyKeeperSeenHolds == Spec => []OnMeansOnlyKeeperSeen
<1>1. IInv => OnMeansOnlyKeeperSeen
  BY DEF IInv, Data
<1> QED BY <1>1, Invariance, PTL

LEMMA StopsShrink ==
  ASSUME NEW S, NEW done, StopCall(S, done) PROVE alive' \subseteq alive
BY DEF StopCall, StopWorkers

\* What no step but a start does is to bring a worker up.
LEMMA OnlyStartsStart ==
  ASSUME [Next]_vars,
         ~ \E answer \in {"done", "unsure", "unreached"} : Start(answer), ~LateStart
  PROVE  alive' \subseteq alive
<1>1. UNCHANGED serverVars => alive' \subseteq alive
  BY DEF serverVars
<1>2. ASSUME NEW from, NEW ok, NEW then, NEW otherwise, OwnReading(from, ok, then, otherwise)
      PROVE  UNCHANGED serverVars
  BY <1>2 DEF OwnReading, Reading
<1>3. CASE Reconciliation
  <2>1. CASE Reconcile \/ FinishCleanup \/ Confirm \/ StartFailed \/ Rebind \/ PrepareStops
    BY <1>1, <2>1 DEF Reconcile, FinishCleanup, Confirm, StartFailed, Rebind, PrepareStops
  <2>2. CASE Finalize
    BY <1>1, <2>2 DEF Finalize, Settle
  <2>3. CASE \E ok \in BOOLEAN : Cleanup(ok) \/ Undo(ok) \/ \E c \in Cards : Stop(c, ok)
    BY <2>3, StopsShrink DEF Cleanup, Undo, Stop
  <2>4. CASE \E ok \in BOOLEAN : Attest(ok) \/ Recover(ok)
    BY <2>4 DEF Attest, Recover, AttestCall
  <2>5. CASE \E ok \in BOOLEAN : StartRead(ok) \/ RecoverRead(ok) \/ StopRead(ok)
    BY <1>1, <1>2, <2>5 DEF StartRead, RecoverRead, StopRead
  <2> QED BY <1>3, <2>1, <2>2, <2>3, <2>4, <2>5 DEF Reconciliation
<1>4. CASE Claiming
  <2>1. CASE \E S \in SUBSET Cards \ {{}}, move \in BOOLEAN : Claim(S, move) \/ PlanReclaim(S, move)
    BY <1>1, <2>1 DEF Claim, PlanReclaim
  <2>2. CASE SettleReclaimed
    BY <1>1, <2>2 DEF SettleReclaimed, Settle
  <2>3. CASE ClaimReclaimed
    BY <1>1, <2>3 DEF ClaimReclaimed
  <2>4. CASE \E ok \in BOOLEAN : Reclaim(ok)
    BY <1>1, <2>4, StopsShrink DEF Reclaim
  <2>5. CASE \E ok \in BOOLEAN : ReclaimRead(ok)
    BY <1>1, <1>2, <2>5 DEF ReclaimRead
  <2> QED BY <1>4, <2>1, <2>2, <2>3, <2>4, <2>5 DEF Claiming
<1>5. CASE Around
  <2>1. CASE \E ripe \in SUBSET Cards : Observe(ripe)
    BY <1>1, <2>1 DEF Observe, Reading
  <2>2. CASE Unanswered \/ SetPolicy \/ Crash
    BY <1>1, <2>2 DEF Unanswered, SetPolicy, Crash
  <2>3. CASE \E c \in Cards : WorkerDies(c) \/ JobToggles(c) \/ TaskEnds(c) \/ Clear(c)
    BY <1>1, <2>3 DEF WorkerDies, JobToggles, TaskEnds, Clear
  <2> QED BY <1>5, <2>1, <2>2, <2>3 DEF Around
<1>6. CASE UNCHANGED vars
  BY <1>1, <1>6 DEF vars
<1> QED BY <1>3, <1>4, <1>5, <1>6 DEF Next

\* A worker never comes up on a card a task holds, unless its start had been
\* given up: what Phased says of ToStart is what the lock is for.
THEOREM StartsOnlyOnUnclaimedHolds == Spec => StartsOnlyOnUnclaimed
<1> DEFINE Unclaimed == \A c \in Cards : c \in alive' \ alive /\ c \notin late => owner[c] # "workload"
<1>1. IInv /\ [Next]_vars => Unclaimed
  <2> SUFFICES ASSUME IInv, [Next]_vars PROVE Unclaimed
    OBVIOUS
  <2>1. CASE \E answer \in {"done", "unsure", "unreached"} : Start(answer)
    <3>1. \A c \in op.on : owner[c] # "workload"
      BY <2>1 DEF Start, IInv, Phased, ToStart, StartSafe
    <3>2. alive' \subseteq alive \union op.on
      BY <2>1 DEF Start, StartCall, StartWorkers
    <3> QED BY <3>1, <3>2
  <2>2. CASE LateStart
    BY <2>2 DEF LateStart, StartWorkers
  <2>3. CASE ~LateStart /\ ~ \E answer \in {"done", "unsure", "unreached"} : Start(answer)
    BY <2>3, OnlyStartsStart
  <2> QED BY <2>1, <2>2, <2>3
<1> QED BY <1>1, Invariance, PTL DEF Spec, StartsOnlyOnUnclaimed

-----------------------------------------------------------------------------
(* No worker is let slip *)

\* Cards that somebody has yet to see to.
Covered == mark \union InHand

\* A kept card on which another worker runs than the one it was confirmed with.
Stranger(c) == c \in Kept \intersect alive /\ worker[c] # keep[c].expected

\* Until the daemon is killed, every start that may still happen and every
\* stranger is one the ledger or the coroutine remembers, unless a call about
\* the card was answered before a given-up start of it.
Marked ==
  /\ late \ overtaken \subseteq Covered
  /\ \A c \in Cards : Stranger(c) => c \in Covered \union overtaken
MarkedUntilCrash == crashes = 0 => Marked

\* What a step must do to the workers nobody confirmed, and to the cards
\* that are no longer kept.
NothingLetSlip ==
  /\ \A c \in Covered \ Covered' : c \in overtaken' \/ (c \notin late' /\ (c \in alive' => Keeper(c)'))
  /\ StaysOvertaken
  /\ alive' \union late' \subseteq alive \union late \union Covered'
  /\ late' \subseteq late \union Covered'
  /\ \A c \in Cards : Stranger(c)' => Stranger(c) \/ c \in late \union Covered'
NoneLeftRunning == \A c \in Kept \ Kept' : c \in alive \union late => c \in Covered \union overtaken

LEMMA SlipStep ==
  ASSUME IInv, IInv', Marked, NothingLetSlip
  PROVE  Marked' /\ (NoneLeftRunning => Unaccounted' \ overtaken' \subseteq Unaccounted)
<1>1. late \ overtaken \subseteq Covered /\ \A c \in Cards : Stranger(c) => c \in Covered \union overtaken
  BY DEF Marked
<1>6. \A c \in alive' \union late' : c \notin overtaken' => c \notin overtaken
  BY DEF NothingLetSlip, StaysOvertaken
<1>2. late' \ overtaken' \subseteq Covered'
  BY <1>1, <1>6 DEF NothingLetSlip
<1>3. ASSUME NEW c \in Cards, Stranger(c)', c \notin overtaken' PROVE c \in Covered'
  <2>1. c \in alive' /\ ~Keeper(c)'
    BY <1>3 DEF Stranger, Keeper
  <2>2. c \in Covered \union Covered'
    BY <1>1, <1>3, <1>6, <2>1 DEF NothingLetSlip
  <2> QED BY <1>3, <2>1, <2>2 DEF NothingLetSlip
<1>4. Marked'
  BY <1>2, <1>3 DEF Marked
<1>5. ASSUME NoneLeftRunning, NEW c \in Unaccounted' \ overtaken' PROVE c \in Unaccounted
  <2>1. c \in alive' \union late' /\ c \notin Kept' /\ c \notin Covered'
    BY DEF Unaccounted, Covered
  <2>2. c \in alive \union late
    BY <2>1 DEF NothingLetSlip
  <2>3. c \notin Covered /\ c \notin overtaken
    BY <1>5, <1>6, <2>1 DEF NothingLetSlip, Keeper
  <2>4. c \notin Kept
    BY <1>5, <2>1, <2>2, <2>3 DEF NoneLeftRunning
  <2> QED BY <2>2, <2>3, <2>4 DEF Unaccounted, Covered
<1> QED BY <1>4, <1>5

\* Nothing starts, nobody is confirmed, and what was covered stays covered.
LEMMA QuietSlip ==
  ASSUME Covered \subseteq Covered', Kept' \subseteq Kept,
         \A c \in Kept' : keep'[c].expected = keep[c].expected,
         alive' \subseteq alive, late' \subseteq late, \A c \in alive' : worker'[c] = worker[c],
         StaysOvertaken
  PROVE  NothingLetSlip /\ (Kept' = Kept => NoneLeftRunning)
<1>1. \A c \in Cards : Stranger(c)' => Stranger(c)
  BY DEF Stranger
<1> QED BY <1>1 DEF NothingLetSlip, NoneLeftRunning

\* The ledger and the server are left alone.
LEMMA StillSlip ==
  ASSUME Covered \subseteq Covered', UNCHANGED <<owner, keep, serverVars>>
  PROVE  NothingLetSlip /\ NoneLeftRunning
<1>1. /\ owner' = owner /\ keep' = keep /\ worker' = worker /\ alive' = alive /\ late' = late
      /\ StaysOvertaken
  BY DEF serverVars, StaysOvertaken
<1>2. Kept' = Kept
  BY <1>1 DEF Kept
<1> QED BY <1>1, <1>2, QuietSlip

\* Outside these places nothing is in hand.
Handing == {"attest", "startRead", "confirm", "undo", "error"}
LEMMA HandFree ==
  ASSUME op.at \notin Handing PROVE InHand = {} /\ Covered = mark
BY DEF Handing, InHand, Covered

LEMMA StopSlip ==
  ASSUME IInv, NEW S \in SUBSET Cards, NEW done, StopCall(S, done),
         UNCHANGED <<ledgerVars, readingVars, asideVars>>, Covered \subseteq Covered'
  PROVE  NothingLetSlip /\ NoneLeftRunning
<1>1. /\ alive' \subseteq alive /\ late' = late /\ \A c \in alive' : worker'[c] = worker[c]
      /\ StaysOvertaken
  BY StopEffect DEF IInv
<1>2. owner' = owner /\ keep' = keep
  BY DEF ledgerVars
<1>3. Kept' = Kept
  BY <1>2 DEF Kept
<1> QED BY <1>1, <1>2, <1>3, QuietSlip

\* A reading forgets the mark of a card only when its confirmed worker is all
\* that is seen there: no start may still happen on it but an overtaken one, and
\* no stranger runs.
LEMMA ReadingSlip ==
  ASSUME IInv, NEW ripe, Reading(ripe), asked' \in SUBSET Cards, InHand \subseteq InHand'
  PROVE  NothingLetSlip /\ NoneLeftRunning
<1>1. /\ Data'
      /\ \A c \in Cards : Listed(c) \subseteq seen'[c] /\ keep'[c].expected = keep[c].expected
      /\ \A c \in Kept : keep'[c].actual = "ON" => seen'[c] = {keep[c].expected}
      /\ mark' = mark \ {c \in Kept : keep'[c].actual = "ON"}
      /\ owner' = owner /\ worker' = worker /\ alive' = alive /\ late' = late
      /\ overtaken' = overtaken
  BY ReadingEffect DEF IInv, serverVars
<1>2. Kept' = Kept
  BY <1>1 DEF Kept
<1>3. ASSUME NEW c \in Covered \ Covered', c \notin overtaken'
      PROVE  c \notin late' /\ (c \in alive' => Keeper(c)')
  <2>1. c \in Kept /\ c \in Cards /\ seen'[c] = {keep'[c].expected}
    BY <1>1 DEF Covered, Kept
  <2>2. c \notin late'
    BY <1>1, <1>2, <1>3, <2>1 DEF Data, LateStartsUnseen
  <2>3. c \in alive => worker[c] = keep'[c].expected
    BY <1>1, <2>1, Listings DEF IInv
  <2> QED BY <1>1, <1>2, <2>1, <2>2, <2>3 DEF Keeper
<1>4. \A c \in Cards : Stranger(c)' => Stranger(c)
  BY <1>1, <1>2 DEF Stranger
<1> QED BY <1>1, <1>2, <1>3, <1>4 DEF NothingLetSlip, NoneLeftRunning, StaysOvertaken

-----------------------------------------------------------------------------
(* No step lets a worker slip: the reconciliation *)

LEMMA StartSlip ==
  ASSUME IInv, NEW answer \in {"done", "unsure", "unreached"}, Start(answer)
  PROVE  NothingLetSlip /\ NoneLeftRunning
<1>1. op.at = "start" /\ op \in Ops /\ op.on \subseteq Cards /\ Covered = mark
  BY HandFree, PlanLeft DEF Start, IInv, GoodOp, Handing
<1>2. PICK T \in SUBSET op.on, L \in SUBSET op.on :
        /\ answer = "unreached" => T = {} /\ L = {}
        /\ StartWorkers(T)
        /\ late' = late \union L
        /\ StaysOvertaken
  BY DEF Start, StartCall, StillOvertaken, StaysOvertaken
<1>3. owner' = owner /\ keep' = keep /\ mark' = mark
  BY DEF Start, ledgerVars
<1>4. Kept' = Kept
  BY <1>3 DEF Kept
<1>5. /\ alive' = alive \union T /\ \A c \in alive : worker'[c] = worker[c]
  BY <1>1, <1>2, WorkersEffect DEF IInv
<1>6. T \union L \subseteq Covered'
  <2>1. CASE answer = "unreached"
    BY <1>2, <2>1
  <2>2. CASE answer # "unreached"
    <3>1. op' \in {[op EXCEPT !.at = "attest"], [op EXCEPT !.at = "undo"]}
      BY <2>2 DEF Start
    <3>2. op'.at \in {"attest", "undo"} /\ op'.on = op.on
      BY <1>1, <3>1 DEF Ops
    <3> QED BY <3>2 DEF Covered, InHand
  <2> QED BY <2>1, <2>2
<1>7. Covered \subseteq Covered'
  BY <1>1, <1>3 DEF Covered
<1>8. \A c \in Cards : Stranger(c)' => Stranger(c) \/ c \in late \union Covered'
  BY <1>3, <1>4, <1>5, <1>6 DEF Stranger
<1> QED BY <1>2, <1>4, <1>5, <1>6, <1>7, <1>8 DEF NothingLetSlip, NoneLeftRunning

LEMMA LateStartSlip ==
  ASSUME IInv, LateStart PROVE NothingLetSlip /\ NoneLeftRunning
<1>1. PICK S \in SUBSET late : StartWorkers(S) /\ late' \subseteq late /\ StaysOvertaken
  BY DEF LateStart, StillOvertaken, StaysOvertaken
<1>2. S \in SUBSET Cards /\ op' = op /\ mark' = mark /\ owner' = owner /\ keep' = keep
  BY <1>1 DEF LateStart, ledgerVars, IInv, Data, Types
<1>3. Kept' = Kept /\ Covered' = Covered
  BY <1>2 DEF Kept, Covered, InHand
<1>4. /\ alive' = alive \union S /\ \A c \in alive : worker'[c] = worker[c]
  BY <1>1, <1>2, WorkersEffect DEF IInv
<1>5. \A c \in Cards : Stranger(c)' => Stranger(c) \/ c \in late
  BY <1>2, <1>3, <1>4 DEF Stranger
<1> QED BY <1>1, <1>2, <1>3, <1>4, <1>5 DEF NothingLetSlip, NoneLeftRunning

\* A cleanup is finished when the helper answered that its workers are gone.
LEMMA FinishCleanupSlip ==
  ASSUME IInv, FinishCleanup PROVE NothingLetSlip /\ NoneLeftRunning
<1>1. /\ op.at = "finish" /\ op.on \intersect (late \union alive) \subseteq overtaken /\ Covered = mark
      /\ mark' = mark \ op.on /\ owner' = owner /\ keep' = keep
      /\ worker' = worker /\ alive' = alive /\ late' = late /\ overtaken' = overtaken
  BY HandFree DEF FinishCleanup, serverVars, IInv, Phased, Answered, Handing
<1>2. Kept' = Kept
  BY <1>1 DEF Kept
<1>3. \A c \in Covered \ Covered' : c \in op.on
  BY <1>1 DEF Covered
<1>4. \A c \in Cards : Stranger(c)' => Stranger(c)
  BY <1>1, <1>2 DEF Stranger
<1> QED BY <1>1, <1>2, <1>3, <1>4 DEF NothingLetSlip, NoneLeftRunning, StaysOvertaken

\* A card whose worker was confirmed needs nobody to see to it any more.
LEMMA ActivateSlip ==
  ASSUME IInv, NEW S \in SUBSET Cards, Confirmed(S), Activate(S), S \intersect late \subseteq overtaken,
         UNCHANGED <<readingVars, serverVars, asideVars>>, InHand \subseteq S
  PROVE  NothingLetSlip /\ NoneLeftRunning
<1>1. /\ Kept' = Kept \union S /\ mark' = mark \ S
      /\ \A c \in S : keep'[c].expected = worker'[c]
      /\ \A c \in Kept \ S : keep'[c] = keep[c]
      /\ worker' = worker /\ alive' = alive /\ late' = late /\ overtaken' = overtaken
  BY ActivateEffect DEF IInv, serverVars
<1>2. \A c \in Covered \ Covered' : c \in S
  BY <1>1 DEF Covered
<1>3. \A c \in S : c \in alive' => Keeper(c)'
  BY <1>1 DEF Keeper
<1>4. \A c \in Cards : Stranger(c)' => Stranger(c)
  BY <1>1 DEF Stranger
<1> QED BY <1>1, <1>2, <1>3, <1>4 DEF NothingLetSlip, NoneLeftRunning, StaysOvertaken

LEMMA ConfirmSlip ==
  ASSUME IInv, Confirm PROVE NothingLetSlip /\ NoneLeftRunning
<1>1. /\ op.at = "confirm" /\ op \in Ops /\ op.on \in SUBSET Cards /\ InHand = op.on
      /\ op.on \intersect late \subseteq overtaken
  BY DEF Confirm, IInv, GoodOp, Ops, Phased, Answered, InHand
<1>2. CASE Confirmed(op.on)
  BY <1>1, <1>2, ActivateSlip DEF Confirm
<1>3. CASE ~Confirmed(op.on)
  <2>1. op' = [op EXCEPT !.at = "undo"] /\ mark' = mark /\ owner' = owner /\ keep' = keep
        /\ UNCHANGED serverVars
    BY <1>3 DEF Confirm, ledgerVars
  <2>2. Covered \subseteq Covered'
    BY <1>1, <2>1 DEF Covered, InHand, Ops
  <2> QED BY <2>1, <2>2, StillSlip
<1> QED BY <1>2, <1>3

LEMMA RebindSlip ==
  ASSUME IInv, Rebind PROVE NothingLetSlip /\ NoneLeftRunning
<1>1. /\ op.at = "rebind" /\ op.on \in SUBSET Cards /\ InHand = {} /\ Covered = mark
      /\ op.on \intersect late \subseteq overtaken
  BY HandFree DEF Rebind, IInv, GoodOp, Ops, Phased, Answered, Handing
<1>2. CASE Confirmed(op.on)
  BY <1>1, <1>2, ActivateSlip DEF Rebind
<1>3. CASE ~Confirmed(op.on)
  <2>1. mark' = mark /\ owner' = owner /\ keep' = keep /\ UNCHANGED serverVars
    BY <1>3 DEF Rebind, ledgerVars
  <2>2. Covered \subseteq Covered'
    BY <1>1, <2>1 DEF Covered
  <2> QED BY <2>1, <2>2, StillSlip
<1> QED BY <1>2, <1>3

LEMMA UndoSlip ==
  ASSUME IInv, NEW done \in BOOLEAN, Undo(done) PROVE NothingLetSlip /\ NoneLeftRunning
<1>1. op.at = "undo" /\ op \in Ops /\ op.on \in SUBSET Cards /\ InHand = op.on
  BY DEF Undo, IInv, GoodOp, Ops, InHand
<1>2. /\ mark' = mark /\ owner' = owner /\ keep' = keep
      /\ op' = [op EXCEPT !.at = "error", !.failed = ~done]
  BY DEF Undo, ledgerVars
<1>3. op'.at = "error" /\ op'.on = op.on /\ op'.failed = ~done
  BY <1>1, <1>2 DEF Ops
<1>4. /\ alive' \subseteq alive /\ late' = late /\ \A c \in alive' : worker'[c] = worker[c]
      /\ StaysOvertaken
      /\ done => op.on \intersect alive' = {} /\ op.on \intersect late' \subseteq overtaken'
  BY <1>1, StopEffect DEF Undo, IInv
<1>5. Kept' = Kept
  BY <1>2 DEF Kept
<1>6. \A c \in Cards : Stranger(c)' => Stranger(c)
  BY <1>2, <1>4, <1>5 DEF Stranger
<1>7. CASE done
  <2>1. \A c \in Covered \ Covered' : c \in op.on
    BY <1>1, <1>2 DEF Covered
  <2> QED BY <1>4, <1>5, <1>6, <1>7, <2>1 DEF NothingLetSlip, NoneLeftRunning
<1>8. CASE ~done
  <2>1. Covered \subseteq Covered'
    BY <1>1, <1>2, <1>3, <1>8 DEF Covered, InHand
  <2> QED BY <1>2, <1>4, <1>5, <2>1, QuietSlip
<1> QED BY <1>7, <1>8

\* The helper is only asked about its workers.
LEMMA AskedSlip ==
  ASSUME IInv, NEW S, NEW ok, AttestCall(S, ok), UNCHANGED <<ledgerVars, readingVars, asideVars>>,
         Covered \subseteq Covered'
  PROVE  NothingLetSlip /\ NoneLeftRunning
<1>1. /\ owner' = owner /\ keep' = keep /\ worker' = worker /\ alive' = alive /\ late' = late
      /\ StaysOvertaken
  BY OvertakenEffect DEF AttestCall, ledgerVars
<1>2. Kept' = Kept
  BY <1>1 DEF Kept
<1> QED BY <1>1, <1>2, QuietSlip

LEMMA AttestSlip ==
  ASSUME IInv, NEW ok \in BOOLEAN, Attest(ok) PROVE NothingLetSlip /\ NoneLeftRunning
<1>1. op \in Ops /\ op.at = "attest"
  BY DEF IInv, GoodOp, Attest
<1>2. op' \in {[op EXCEPT !.at = "startRead"], [op EXCEPT !.at = "undo"]}
  BY DEF Attest
<1>3. op'.at \in {"startRead", "undo"} /\ op'.on = op.on
  BY <1>1, <1>2 DEF Ops
<1>4. mark' = mark
  BY DEF Attest, ledgerVars
<1>5. Covered \subseteq Covered'
  BY <1>1, <1>3, <1>4 DEF Covered, InHand
<1> QED BY <1>5, AskedSlip DEF Attest

\* The reading an operation asked for, while nothing is in hand.
LEMMA OwnReadingSlip ==
  ASSUME IInv, NEW from, NEW ok \in BOOLEAN, NEW then, NEW otherwise,
         OwnReading(from, ok, then, otherwise), InHand \subseteq InHand'
  PROVE  NothingLetSlip /\ NoneLeftRunning
<1>1. CASE ok
  BY <1>1, ReadingSlip DEF OwnReading, IInv, Data, Types
<1>2. CASE ~ok
  <2>1. mark' = mark /\ owner' = owner /\ keep' = keep /\ UNCHANGED serverVars
    BY <1>2 DEF OwnReading, ledgerVars
  <2>2. Covered \subseteq Covered'
    BY <2>1 DEF Covered
  <2> QED BY <2>1, <2>2, StillSlip
<1> QED BY <1>1, <1>2

LEMMA StartReadSlip ==
  ASSUME IInv, NEW ok \in BOOLEAN, StartRead(ok) PROVE NothingLetSlip /\ NoneLeftRunning
<1>1. op \in Ops /\ op.at = "startRead"
  BY DEF IInv, GoodOp, StartRead, OwnReading
<1> DEFINE o == [[op EXCEPT !.at = "confirm"] EXCEPT !.since = op.since]
<1>2. op' \in {o, [op EXCEPT !.at = "undo"]}
  BY <1>1 DEF StartRead, OwnReading, Stopping
<1>3. op'.at \in {"confirm", "undo"} /\ op'.on = op.on
  BY <1>1, <1>2 DEF Ops
<1>4. InHand \subseteq InHand'
  BY <1>1, <1>3 DEF InHand
<1> QED BY <1>4, OwnReadingSlip DEF StartRead

LEMMA ReadsSlip ==
  ASSUME IInv, NEW ok \in BOOLEAN, RecoverRead(ok) \/ StopRead(ok) \/ ReclaimRead(ok)
  PROVE  NothingLetSlip /\ NoneLeftRunning
<1>1. InHand \subseteq InHand'
  BY HandFree DEF RecoverRead, StopRead, ReclaimRead, OwnReading, Handing
<1> QED BY <1>1, OwnReadingSlip DEF RecoverRead, StopRead, ReclaimRead

LEMMA StartFailedSlip ==
  ASSUME IInv, StartFailed PROVE NothingLetSlip /\ NoneLeftRunning
<1>1. /\ owner' = owner /\ worker' = worker /\ alive' = alive /\ late' = late
      /\ StaysOvertaken /\ op.at = "error" /\ mark' = IF op.failed THEN mark \union op.on ELSE mark
  BY DEF StartFailed, serverVars, StaysOvertaken
<1>2. Kept' = Kept
  BY <1>1 DEF Kept
<1>3. Covered \subseteq Covered'
  BY <1>1 DEF Covered, InHand
<1> DEFINE failed(c) == [keep[c] EXCEPT !.actual = "ERROR"]
<1>4. \A c \in Cards : keep[c] \in Keeps
  BY DEF IInv, Data, Types
<1>5. \A c \in Cards : failed(c).expected = keep[c].expected
  BY <1>4 DEF Keeps
<1>6. keep' = [c \in Cards |-> IF c \in op.on \intersect Kept THEN failed(c) ELSE keep[c]]
  BY DEF StartFailed
<1> HIDE DEF failed
<1>7. \A c \in Kept' : keep'[c].expected = keep[c].expected
  BY <1>2, <1>5, <1>6 DEF Kept
<1> QED BY <1>1, <1>2, <1>3, <1>7, QuietSlip

\* The steps that stop workers, when nothing is in hand.
LEMMA StopsSlip ==
  ASSUME IInv, NEW done \in BOOLEAN,
         Cleanup(done) \/ Reclaim(done) \/ \E c \in Cards : Stop(c, done)
  PROVE  NothingLetSlip /\ NoneLeftRunning
<1>1. Covered = mark /\ mark' = mark /\ owner' = owner /\ keep' = keep
      /\ UNCHANGED <<ledgerVars, readingVars, asideVars>>
  BY HandFree DEF Cleanup, Reclaim, Stop, ledgerVars, Handing
<1>2. Covered \subseteq Covered'
  BY <1>1 DEF Covered
<1>3. CASE \E S \in SUBSET Cards : StopCall(S, done)
  BY <1>1, <1>2, <1>3, StopSlip
<1>4. CASE UNCHANGED serverVars
  BY <1>1, <1>2, <1>4, StillSlip
<1>5. op.on \in SUBSET Cards
  BY PlanLeft
<1> QED BY <1>3, <1>4, <1>5 DEF Cleanup, Reclaim, Stop

\* The steps that only decide, when nothing is in hand.
LEMMA DecisionsSlip ==
  ASSUME IInv,
         \/ Reconcile \/ PrepareStops
         \/ \E ok \in BOOLEAN : Recover(ok)
         \/ \E S \in SUBSET Cards \ {{}}, move \in BOOLEAN : PlanReclaim(S, move)
  PROVE  NothingLetSlip /\ NoneLeftRunning
<1>1. Covered = mark
  BY HandFree, FreeOp DEF Reconcile, PrepareStops, Recover, PlanReclaim, Handing
<1>2. mark' = mark /\ owner' = owner /\ keep' = keep
  BY DEF Reconcile, PrepareStops, Recover, PlanReclaim, ledgerVars
<1>3. Covered \subseteq Covered'
  BY <1>1, <1>2 DEF Covered
<1>4. CASE \E ok \in BOOLEAN : Recover(ok)
  BY <1>3, <1>4, AskedSlip DEF Recover
<1>5. CASE UNCHANGED serverVars
  BY <1>2, <1>3, <1>5, StillSlip
<1> QED BY <1>4, <1>5 DEF Reconcile, PrepareStops, PlanReclaim

\* A card may be let go on which no confirmed worker runs.
LEMMA NoKeeperLeft ==
  ASSUME Marked, NEW c \in Kept, ~Keeper(c), Kept' = Kept \ {c}
  PROVE  NoneLeftRunning
BY DEF Marked, Stranger, Keeper, NoneLeftRunning, Kept

\* A stop is settled when a reading since then leaves the worker out.
LEMMA SettleSlip ==
  ASSUME IInv, Marked, op.at \in {"finalize", "settle"}, NEW c \in op.on, Settled(c), Settle(c)
  PROVE  NothingLetSlip /\ NoneLeftRunning
<1>1. /\ c \in Kept /\ Kept' = Kept \ {c} /\ mark' = mark
      /\ \A d \in Kept' : keep'[d] = keep[d]
      /\ worker' = worker /\ alive' = alive /\ late' = late /\ StaysOvertaken
  BY EndEffect DEF Settled, Settle, asideVars, serverVars, IInv, Data, Types, StaysOvertaken
<1>2. ~Keeper(c)
  BY <1>1 DEF Settled, IInv, Phased, Data, KeepersAreSeen, Kept
<1>3. Covered \subseteq Covered'
  BY <1>1, HandFree DEF Covered, Handing
<1> QED BY <1>1, <1>2, <1>3, NoKeeperLeft, QuietSlip

LEMMA SettlesSlip ==
  ASSUME IInv, Marked, Finalize \/ SettleReclaimed
  PROVE  NothingLetSlip /\ NoneLeftRunning
<1>1. op.at \in {"finalize", "settle"} /\ Covered = mark
  BY HandFree DEF Finalize, SettleReclaimed, Handing
<1>2. CASE \E c \in op.on : Settled(c) /\ Settle(c)
  BY <1>1, <1>2, SettleSlip
<1>3. CASE UNCHANGED <<ledgerVars, readingVars, serverVars, asideVars>>
  <2>1. mark' = mark /\ owner' = owner /\ keep' = keep /\ UNCHANGED serverVars
    BY <1>3 DEF ledgerVars
  <2>2. Covered \subseteq Covered'
    BY <1>1, <2>1 DEF Covered
  <2> QED BY <2>1, <2>2, StillSlip
<1> QED BY <1>2, <1>3 DEF Finalize, SettleReclaimed

LEMMA ClaimsSlip ==
  ASSUME IInv,
         \/ \E S \in SUBSET Cards \ {{}}, move \in BOOLEAN : Claim(S, move)
         \/ ClaimReclaimed
  PROVE  NothingLetSlip /\ NoneLeftRunning
<1>1. /\ Covered = mark /\ op.want \in SUBSET Cards /\ op.move \in BOOLEAN
      /\ UNCHANGED <<readingVars, serverVars, asideVars>>
  BY HandFree, FreeOp DEF Claim, ClaimReclaimed, Handing, IInv, GoodOp, Ops
<1>2. CASE \E S \in SUBSET Cards, move \in BOOLEAN : Grantable(S, move) /\ Grant(S)
  <2>1. Kept' = Kept /\ mark' = mark /\ \A d \in Kept : keep'[d] = keep[d]
    BY <1>1, <1>2, GrantEffect DEF IInv
  <2>2. worker' = worker /\ alive' = alive /\ late' = late /\ StaysOvertaken
    BY <1>1 DEF serverVars, StaysOvertaken
  <2>3. Covered \subseteq Covered'
    BY <1>1, <2>1 DEF Covered
  <2> QED BY <2>1, <2>2, <2>3, QuietSlip
<1>3. CASE UNCHANGED ledgerVars
  <2>1. mark' = mark /\ owner' = owner /\ keep' = keep
    BY <1>3 DEF ledgerVars
  <2>2. Covered \subseteq Covered'
    BY <1>1, <2>1 DEF Covered
  <2> QED BY <1>1, <2>1, <2>2, StillSlip
<1> QED BY <1>1, <1>2, <1>3 DEF Claim, ClaimReclaimed

-----------------------------------------------------------------------------
(* No step lets a worker slip: everything that needs no lock *)

LEMMA AroundSlip ==
  ASSUME IInv,
         \/ \E ripe \in SUBSET Cards : Observe(ripe)
         \/ Unanswered \/ SetPolicy \/ UNCHANGED vars
         \/ \E c \in Cards : WorkerDies(c) \/ JobToggles(c) \/ TaskEnds(c)
  PROVE  NothingLetSlip /\ NoneLeftRunning
<1>1. CASE \E ripe \in SUBSET Cards : Observe(ripe)
  <2>1. asked' \in SUBSET Cards
    BY <1>1 DEF Observe, IInv, Data, Types, Kept
  <2>2. op'.at = op.at /\ op'.on = op.on /\ op'.failed = op.failed
    BY <1>1 DEF Observe, IInv, GoodOp, Ops
  <2>3. InHand \subseteq InHand'
    BY <2>2 DEF InHand
  <2> QED BY <1>1, <2>1, <2>3, ReadingSlip DEF Observe
<1>2. CASE \/ Unanswered \/ SetPolicy \/ UNCHANGED vars
           \/ \E c \in Cards : WorkerDies(c) \/ JobToggles(c) \/ TaskEnds(c)
  <2>1. keep' = keep /\ mark' = mark /\ op' = op
    BY <1>2 DEF Unanswered, SetPolicy, vars, WorkerDies, JobToggles, TaskEnds, ledgerVars
  <2>5. /\ alive' \subseteq alive /\ late' = late /\ \A c \in alive' : worker'[c] = worker[c]
        /\ StaysOvertaken
    BY <1>2, SmallStepsOnServer
  <2>2. owner' = owner \/ \E c \in Cards : owner[c] = "workload" /\ owner' = [owner EXCEPT ![c] = "none"]
    BY <1>2 DEF Unanswered, SetPolicy, vars, WorkerDies, JobToggles, TaskEnds, ledgerVars
  <2>3. Kept' = Kept
    BY <2>2 DEF Kept, IInv, Data, Types
  <2>4. Covered \subseteq Covered'
    BY <2>1 DEF Covered, InHand
  <2> QED BY <2>1, <2>3, <2>4, <2>5, QuietSlip
<1> QED BY <1>1, <1>2

\* Somebody clears a card after a reading that saw nothing on it.  When the
\* server no longer answers, nobody knows what runs.
LEMMA ClearSlip ==
  ASSUME IInv, Marked, NEW c \in Cards, Clear(c)
  PROVE  NothingLetSlip /\ (reach # "gone" => NoneLeftRunning)
<1>1. /\ c \in Kept /\ EndKeep(c) /\ asked' \in SUBSET Cards /\ op' = op
      /\ seen' = seen /\ stale' = stale /\ reach' = reach /\ UNCHANGED <<serverVars, crashes>>
  BY DEF Clear, readingVars
<1>2. /\ Kept' = Kept \ {c} /\ mark' = mark
      /\ \A d \in Kept' : keep'[d] = keep[d]
  BY <1>1, EndEffect DEF IInv
<1>3. worker' = worker /\ alive' = alive /\ late' = late /\ StaysOvertaken
  BY <1>1 DEF serverVars, StaysOvertaken
<1>4. Covered \subseteq Covered'
  BY <1>1, <1>2 DEF Covered, InHand
<1>5. NothingLetSlip
  BY <1>2, <1>3, <1>4, QuietSlip
<1>6. reach # "gone" => ~Keeper(c)
  BY DEF Clear, IInv, Data, KeepersAreSeen
<1> QED BY <1>1, <1>2, <1>5, <1>6, NoKeeperLeft

ClearedUnread == reach = "gone" /\ \E c \in Cards : Clear(c)

LEMMA StepsSlip ==
  ASSUME IInv, Marked, [Next]_vars, ~Crash
  PROVE  NothingLetSlip /\ (~ClearedUnread => NoneLeftRunning)
<1>1. CASE Reconciliation
  BY <1>1, DecisionsSlip, FinishCleanupSlip, ConfirmSlip, StartFailedSlip, RebindSlip, SettlesSlip,
     StartSlip, StopsSlip, AttestSlip, StartReadSlip, UndoSlip, ReadsSlip DEF Reconciliation
<1>2. CASE Claiming
  BY <1>2, ClaimsSlip, DecisionsSlip, SettlesSlip, StopsSlip, ReadsSlip DEF Claiming
<1>3. CASE Around
  BY <1>3, AroundSlip, LateStartSlip, ClearSlip DEF Around, ClearedUnread
<1>4. CASE UNCHANGED vars
  BY <1>4, AroundSlip
<1> QED BY <1>1, <1>2, <1>3, <1>4 DEF Next

\* A kill is counted, and kills are all that is counted.
LEMMA CrashesCount ==
  ASSUME IInv, [Next]_vars, crashes' = 0
  PROVE  crashes = 0 /\ ~Crash
<1>1. crashes' # crashes + 1
  BY DEF IInv, Data, Types
<1>2. ~Crash
  BY <1>1 DEF Crash
<1> SUFFICES crashes' = crashes
  BY <1>2
<1>3. UNCHANGED asideVars => crashes' = crashes
  BY DEF asideVars
<1>4. ASSUME NEW from, NEW ok, NEW then, NEW otherwise, OwnReading(from, ok, then, otherwise)
      PROVE  crashes' = crashes
  BY <1>3, <1>4 DEF OwnReading, Reading
<1>5. CASE Reconciliation
  <2>1. CASE Reconcile \/ FinishCleanup \/ Confirm \/ StartFailed \/ Rebind \/ PrepareStops
    BY <1>3, <2>1 DEF Reconcile, FinishCleanup, Confirm, StartFailed, Rebind, PrepareStops
  <2>2. CASE Finalize
    BY <1>3, <2>2 DEF Finalize, Settle
  <2>3. CASE \E answer \in {"done", "unsure", "unreached"} : Start(answer)
    BY <1>3, <2>3 DEF Start
  <2>4. CASE \E ok \in BOOLEAN : \/ Cleanup(ok) \/ Undo(ok) \/ Attest(ok) \/ Recover(ok)
                                \/ \E c \in Cards : Stop(c, ok)
    BY <1>3, <2>4 DEF Cleanup, Undo, Attest, Recover, Stop
  <2>5. CASE \E ok \in BOOLEAN : StartRead(ok) \/ RecoverRead(ok) \/ StopRead(ok)
    BY <1>4, <2>5 DEF StartRead, RecoverRead, StopRead
  <2> QED BY <1>5, <2>1, <2>2, <2>3, <2>4, <2>5 DEF Reconciliation
<1>6. CASE Claiming
  <2>1. CASE \E S \in SUBSET Cards \ {{}}, move \in BOOLEAN : Claim(S, move) \/ PlanReclaim(S, move)
    BY <1>3, <2>1 DEF Claim, PlanReclaim
  <2>2. CASE SettleReclaimed
    BY <1>3, <2>2 DEF SettleReclaimed, Settle
  <2>3. CASE ClaimReclaimed
    BY <1>3, <2>3 DEF ClaimReclaimed
  <2>4. CASE \E ok \in BOOLEAN : Reclaim(ok)
    BY <1>3, <2>4 DEF Reclaim
  <2>5. CASE \E ok \in BOOLEAN : ReclaimRead(ok)
    BY <1>4, <2>5 DEF ReclaimRead
  <2> QED BY <1>6, <2>1, <2>2, <2>3, <2>4, <2>5 DEF Claiming
<1>7. CASE Around
  <2>1. CASE \E ripe \in SUBSET Cards : Observe(ripe)
    BY <2>1 DEF Observe, Reading
  <2>2. CASE Unanswered \/ SetPolicy \/ LateStart
    BY <1>3, <2>2 DEF Unanswered, SetPolicy, LateStart
  <2>3. CASE \E c \in Cards : WorkerDies(c) \/ JobToggles(c) \/ TaskEnds(c) \/ Clear(c)
    BY <1>3, <2>3 DEF WorkerDies, JobToggles, TaskEnds, Clear
  <2> QED BY <1>2, <1>7, <2>1, <2>2, <2>3 DEF Around
<1>8. CASE UNCHANGED vars
  BY <1>3, <1>8 DEF vars
<1> QED BY <1>5, <1>6, <1>7, <1>8 DEF Next

\* As long as the daemon was not killed, every start that may still happen, and
\* every worker of a kept card that is not the one it was confirmed with, has a
\* mark or a coroutine that sees to it, unless a call was answered before a
\* given-up start of its card.
THEOREM MarkedUntilCrashHolds == Spec => []MarkedUntilCrash
<1>1. Init => MarkedUntilCrash
  BY DEF Init, MarkedUntilCrash, Marked, Stranger
<1>2. IInv /\ IInv' /\ MarkedUntilCrash /\ [Next]_vars => MarkedUntilCrash'
  BY CrashesCount, StepsSlip, SlipStep DEF MarkedUntilCrash
<1> QED BY <1>1, <1>2, Invariance, PTL DEF Spec

\* And so no step but a clear of a server that no longer answers leaves a
\* worker behind that nothing will ever stop, and no start that is given up
\* does, unless it happens after a call about its card was answered.
THEOREM WorkersStayAccountedForHolds == Spec => WorkersStayAccountedFor
<1> DEFINE Accounted == crashes' = 0 /\ ~(reach = "gone" /\ \E c \in Cards : Clear(c))
                        => Unaccounted' \ overtaken' \subseteq Unaccounted
<1>1. IInv /\ IInv' /\ MarkedUntilCrash /\ [Next]_vars => Accounted
  BY CrashesCount, StepsSlip, SlipStep DEF MarkedUntilCrash, ClearedUnread
<1> QED BY <1>1, Invariance, MarkedUntilCrashHolds, PTL DEF Spec, WorkersStayAccountedFor
=============================================================================
