------------------------ MODULE ProviderClaimProofs ------------------------
(***************************************************************************)
(* Proofs about ProviderClaim, for any callers, keys and bounds.           *)
(*                                                                         *)
(* None of the properties is inductive.  What makes them so is the lock    *)
(* around a claim (Locked), that every record of the daemon about a job    *)
(* is the truth about it or about its past (Honest, Known), and that the   *)
(* key of a task points at the one attempt that may still start a job      *)
(* (OneAttempt).                                                           *)
(***************************************************************************)
EXTENDS ProviderClaim, FiniteSetTheorems, TLAPS

Used(r) == row[r].state # "none"

\* A job runs or may start: it was submitted, or a claim is about to submit it.
Applying(c, r) == claim[c].at = "apply" /\ claim[c].row = r /\ job[r] = "none"
Pending(r) == job[r] \in {"submitted", "live"} \/ \E c \in Callers : Applying(c, r)

Claims == [at : {"idle", "asked", "observe", "apply", "remember", "finish"},
           key : Keys \union {TaskKey}, row : 0..MaxRows, fact : {"none", "active", "late"}]

Shape ==
  /\ TypeOK
  /\ claim \in [Callers -> Claims]
  /\ snap \in [taken : BOOLEAN, facts : [Rows -> {"absent", "active", "unknown", "over"}],
               late : SUBSET Rows, over : SUBSET Rows]
  /\ release \in [at : {"idle", "mark", "call", "keep", "settle", "write"}, row : 0..MaxRows]
  /\ \A c \in Callers : claim[c].at = "asked" => claim[c].key \in (IF keyed THEN Keys ELSE {TaskKey})

\* One claim at a time, on an allocation that has no lease yet.
Locked ==
  /\ \A c, d \in Callers : InLock(c) /\ InLock(d) => c = d
  /\ \A c \in Callers : InLock(c) =>
       claim[c].row \in Rows /\ Used(claim[c].row) /\ lease[claim[c].row] = "none"

\* What the ledger says of a job is or was true.
Known ==
  \A r \in Rows :
    /\ ~Used(r) => job[r] = "none" /\ lease[r] = "none"
    /\ Pending(r) => row[r].state \in Open
    /\ row[r].state = "active" => job[r] \in {"live", "over"}
    /\ row[r].state = "release_pending" => lease[r] # "none"
    /\ lease[r] # "none" => job[r] \in {"live", "over"}
    /\ issued[r] = IF lease[r] = "none" THEN 0 ELSE 1

\* What a claim or a release under way has been told is or was true.
Underway ==
  /\ \A c \in Callers : claim[c].at \in {"remember", "finish"} => job[claim[c].row] \in {"live", "over"}
  /\ \A c \in Callers : claim[c].at = "remember" /\ claim[c].fact # "late" => row[claim[c].row].state # "over"
  /\ \A r \in reclaim : lease[r] # "none"
  /\ release.at # "idle" => release.row \in Rows /\ lease[release.row] # "none"
  /\ release.at \in {"settle", "write"} => job[release.row] = "over"

\* What a reading that is yet to be ingested says is or was true, and it does
\* not say that a job runs whose allocation is over, unless it is known late.
Honest ==
  snap.taken => \A r \in Rows :
    /\ snap.facts[r] # "absent" => job[r] # "none"
    /\ snap.facts[r] = "over" => job[r] \in {"over", "rejected"}
    /\ snap.facts[r] = "active" => job[r] \in {"live", "over"}
    /\ snap.facts[r] = "active" /\ row[r].state = "over" => r \in snap.late
    /\ snap.facts[r] = "over" =>
         \A c \in Callers : claim[c].at = "remember" /\ claim[c].row = r => r \in snap.over

\* One attempt may still start a job, and it has the key of the task.
OneAttempt ==
  /\ \A r, s \in Rows : Pending(r) /\ Pending(s) => r = s
  /\ ~keyed => \A r \in Rows : Pending(r) => row[r].key = TaskKey

IInv == Shape /\ Locked /\ Known /\ Underway /\ Honest /\ OneAttempt

-----------------------------------------------------------------------------
(* Two helpers *)

USE ProviderAssumption

LEMMA RecordedShape ==
  ASSUME NEW r \in [state : Open \union {"none", "over"}, key : Keys \union {TaskKey, 0}, ref : BOOLEAN],
         NEW fact \in {"active", "unknown", "over"}
  PROVE  /\ Recorded(r, fact) \in [state : Open \union {"none", "over"}, key : Keys \union {TaskKey, 0}, ref : BOOLEAN]
         /\ Recorded(r, fact).key = r.key
         /\ Recorded(r, fact).state =
              IF r.state = "release_pending" /\ fact # "over" THEN "release_pending"
              ELSE IF fact = "unknown" THEN "unconfirmed" ELSE fact
BY DEF Recorded, Open

\* What a reading may say of a job: the truth, or nothing.
LEMMA TrueReading ==
  ASSUME NEW facts \in Readings, NEW r \in Rows,
         job[r] \in {"none", "submitted", "rejected", "live", "over"}
  PROVE  /\ facts \in [Rows -> {"absent", "active", "unknown", "over"}]
         /\ facts[r] # "absent" => job[r] # "none"
         /\ facts[r] = "over" => job[r] \in {"over", "rejected"}
         /\ facts[r] = "active" => job[r] = "live"
BY DEF Readings, FactsOf

-----------------------------------------------------------------------------
(* The initial state, the cluster *)

LEMMA InitIInv == Init => IInv
BY DEF Init, IInv, Shape, TypeOK, Locked, Known, Underway, Honest, OneAttempt, Used, Pending, Applying,
       Open, Claims, Unused, NoClaim, NoSnap, NoRelease, InLock, Rows

LEMMA ClusterIInv ==
  ASSUME IInv, Cluster
  PROVE  IInv'
<1>1. PICK r \in Rows : JobStarts(r) \/ JobRejected(r) \/ JobEnds(r)
  BY DEF Cluster
<1>2. /\ UNCHANGED <<keyed, rowVars, issued, answer, claim, snap, reclaim, release, crashes>>
      /\ \/ job[r] = "submitted" /\ job' = [job EXCEPT ![r] = "live"]
         \/ job[r] = "submitted" /\ job' = [job EXCEPT ![r] = "rejected"]
         \/ job[r] = "live" /\ job' = [job EXCEPT ![r] = "over"]
  BY <1>1 DEF JobStarts, JobRejected, JobEnds
<1>3. Shape' /\ Locked'
  BY <1>2 DEF IInv, Shape, TypeOK, Locked, Used, InLock, rowVars
<1>4. \A s \in Rows : (Pending(s))' => Pending(s)
  BY <1>2 DEF Pending, Applying, IInv, Shape, TypeOK
<1>5. Known'
  BY <1>2, <1>4 DEF Known, Used, IInv, Shape, TypeOK, rowVars
<1>6. \A s \in Rows : /\ job[s] \in {"live", "over"} => job'[s] \in {"live", "over"}
                      /\ job[s] = "over" => job'[s] = "over"
                      /\ job[s] = "rejected" => job'[s] = "rejected"
                      /\ job[s] # "none" => job'[s] # "none"
  BY <1>2 DEF IInv, Shape, TypeOK
<1>8. Underway'
  BY <1>2, <1>6 DEF Underway, Locked, InLock, IInv, rowVars
<1>9. Honest'
  BY <1>2, <1>6 DEF Honest, IInv, rowVars
<1>7. OneAttempt'
  BY <1>2, <1>4 DEF OneAttempt, IInv, rowVars
<1> QED BY <1>3, <1>5, <1>7, <1>8, <1>9 DEF IInv

-----------------------------------------------------------------------------
(* Claims *)

\* A claim that leaves the lock, or never is in it, disturbs nothing.
LEMMA LeaveIInv ==
  ASSUME IInv, NEW c \in Callers,
         claim' = [claim EXCEPT ![c] = NoClaim],
         UNCHANGED <<keyed, rowVars, issued, job, answer, snap, reclaim, release, crashes>>
  PROVE  IInv'
<1>1. \A d \in Callers : claim'[d] = (IF d = c THEN NoClaim ELSE claim[d])
  BY DEF IInv, Shape
<1>2. Shape'
  BY DEF IInv, Shape, TypeOK, Claims, NoClaim, InLock, rowVars
<1>3. Locked'
  BY <1>1 DEF IInv, Locked, InLock, NoClaim, Used, rowVars
<1>4. \A s \in Rows : (Pending(s))' => Pending(s)
  BY <1>1 DEF Pending, Applying, NoClaim
<1>5. Known' /\ OneAttempt'
  BY <1>4 DEF IInv, Known, OneAttempt, Used, rowVars
<1>6. Underway' /\ Honest'
  BY <1>1 DEF IInv, Underway, Honest, NoClaim, rowVars
<1> QED BY <1>2, <1>3, <1>5, <1>6 DEF IInv

LEMMA AskIInv ==
  ASSUME IInv, NEW c \in Callers, Ask(c)
  PROVE  IInv'
<1> PICK k \in Keys : claim' = [claim EXCEPT ![c] = [NoClaim EXCEPT !.at = "asked", !.key = KeyOf(k)]]
  BY DEF Ask
<1> DEFINE asked == [NoClaim EXCEPT !.at = "asked", !.key = KeyOf(k)]
<1>1. KeyOf(k) \in (IF keyed THEN Keys ELSE {TaskKey}) /\ KeyOf(k) \in Keys \union {TaskKey}
  BY DEF KeyOf
<1>2. asked \in Claims /\ asked.at = "asked" /\ asked.key = KeyOf(k)
  <2>1. NoClaim \in Claims
    BY DEF NoClaim, Claims
  <2> QED BY <1>1, <2>1 DEF Claims
<1> HIDE DEF asked
<1>3. claim' \in [Callers -> Claims] /\ \A d \in Callers : claim'[d] = (IF d = c THEN asked ELSE claim[d])
  BY <1>2 DEF IInv, Shape, asked
<1>4. Shape'
  <2>1. \A d \in Callers : claim'[d].at = "asked" => claim'[d].key \in (IF keyed THEN Keys ELSE {TaskKey})
    BY <1>1, <1>2, <1>3 DEF IInv, Shape
  <2>2. TypeOK'
    BY <1>2, <1>3 DEF Ask, IInv, Shape, TypeOK, InLock, rowVars
  <2> QED BY <1>3, <2>1, <2>2 DEF Ask, IInv, Shape, Claims
<1>5. Locked'
  BY <1>2, <1>3 DEF Ask, IInv, Locked, InLock, Used, rowVars
<1>6. \A s \in Rows : (Pending(s))' => Pending(s)
  BY <1>2, <1>3 DEF Ask, Pending, Applying
<1>7. Known' /\ OneAttempt'
  BY <1>6 DEF Ask, IInv, Known, OneAttempt, Used, rowVars
<1>8. Underway' /\ Honest'
  BY <1>2, <1>3 DEF Ask, IInv, Underway, Honest, rowVars
<1> QED BY <1>4, <1>5, <1>7, <1>8 DEF IInv

LEMMA RetryIInv ==
  ASSUME IInv, NEW c \in Callers, Retry(c)
  PROVE  IInv'
<1>1. PICK r \in Rows :
        /\ lease[r] = "none" /\ row[r].state \in Open
        /\ claim' = [claim EXCEPT ![c].at = "observe", ![c].row = r]
  BY DEF Retry, Earlier
<1>2. claim[c].at = "asked" /\ Others(c) = {}
      /\ UNCHANGED <<keyed, rowVars, issued, job, answer, snap, reclaim, release, crashes>>
  BY DEF Retry
<1> DEFINE retry == [claim[c] EXCEPT !.at = "observe", !.row = r]
<1>3. retry \in Claims /\ retry.at = "observe" /\ retry.row = r
  <2>1. claim[c] \in Claims /\ r \in 0..MaxRows
    BY DEF IInv, Shape, Rows
  <2> QED BY <2>1 DEF Claims
<1>4. claim' \in [Callers -> Claims] /\ \A d \in Callers : claim'[d] = (IF d = c THEN retry ELSE claim[d])
  BY <1>1, <1>3 DEF IInv, Shape
<1> HIDE DEF retry
<1>9. Shape'
  BY <1>1, <1>2, <1>3, <1>4 DEF IInv, Shape, TypeOK, Claims, InLock, rowVars, Open
<1>5. Locked'
  BY <1>1, <1>2, <1>3, <1>4 DEF IInv, Locked, InLock, Used, rowVars, Others, Open
<1>6. \A s \in Rows : (Pending(s))' => Pending(s)
  BY <1>2, <1>3, <1>4 DEF Pending, Applying
<1>7. Known' /\ OneAttempt'
  BY <1>2, <1>6 DEF IInv, Known, OneAttempt, Used, rowVars
<1>8. Underway' /\ Honest'
  BY <1>2, <1>3, <1>4 DEF IInv, Underway, Honest, rowVars
<1> QED BY <1>9, <1>5, <1>7, <1>8 DEF IInv

\* A new attempt starts only when no other may still start a job: an attempt
\* that may has the key of the task, and stands.
LEMMA NoneIsPending ==
  ASSUME IInv, NEW c \in Callers, Intend(c), NEW s \in Rows
  PROVE  ~Pending(s)
<1>1. claim[c].at = "asked" /\ \A t \in Earlier(claim[c].key) : ~Stands(t, claim[c].key)
  BY DEF Intend
<1>2. SUFFICES ASSUME Pending(s) PROVE FALSE
  OBVIOUS
<1>3. row[s].state \in Open
  BY <1>2 DEF IInv, Known
<1>4. CASE keyed
  <2>1. claim[c].key # TaskKey
    BY <1>1, <1>4 DEF IInv, Shape
  <2>2. Earlier(claim[c].key) = {}
    BY <1>1, <2>1 DEF Stands
  <2> QED BY <1>3, <2>2 DEF Earlier
<1>5. CASE ~keyed
  <2>1. claim[c].key = TaskKey /\ row[s].key = TaskKey
    BY <1>1, <1>2, <1>5 DEF IInv, Shape, OneAttempt
  <2>2. s \in Earlier(TaskKey)
    BY <1>3, <2>1 DEF Earlier, Open
  <2> QED BY <1>1, <1>3, <2>1, <2>2 DEF Stands, Open
<1> QED BY <1>4, <1>5

LEMMA IntendIInv ==
  ASSUME IInv, NEW c \in Callers, Others(c) = {}, Intend(c)
  PROVE  IInv'
<1> DEFINE k == claim[c].key
<1>1. PICK r \in Rows :
        /\ row[r].state = "none"
        /\ row' = [s \in Rows |-> IF s = r THEN [Unused EXCEPT !.state = "applying", !.key = k]
                                  ELSE IF row[s].key = k THEN [row[s] EXCEPT !.key = 0] ELSE row[s]]
        /\ claim' = [claim EXCEPT ![c].at = "apply", ![c].row = r]
  BY DEF Intend
<1>2. claim[c].at = "asked" /\ UNCHANGED <<keyed, lease, issued, job, answer, snap, reclaim, release, crashes>>
  BY DEF Intend
<1> DEFINE new == [claim[c] EXCEPT !.at = "apply", !.row = r]
<1>3. new \in Claims /\ new.at = "apply" /\ new.row = r
  <2>1. claim[c] \in Claims /\ r \in 0..MaxRows
    BY DEF IInv, Shape, Rows
  <2> QED BY <2>1 DEF Claims
<1>4. claim' \in [Callers -> Claims] /\ \A d \in Callers : claim'[d] = (IF d = c THEN new ELSE claim[d])
  BY <1>1, <1>3 DEF IInv, Shape
<1> HIDE DEF new
<1>5. k \in (IF keyed THEN Keys ELSE {TaskKey}) /\ k \in Keys \union {TaskKey}
  BY <1>2 DEF IInv, Shape
<1>6. /\ row' \in [Rows -> [state : Open \union {"none", "over"}, key : Keys \union {TaskKey, 0}, ref : BOOLEAN]]
      /\ row'[r].state = "applying" /\ row'[r].key = k
      /\ \A s \in Rows \ {r} : row'[s].state = row[s].state /\ row'[s].key \in {row[s].key, 0}
  <2> DEFINE Allocation == [state : Open \union {"none", "over"}, key : Keys \union {TaskKey, 0}, ref : BOOLEAN]
  <2>1. Unused \in Allocation /\ row \in [Rows -> Allocation]
    BY DEF IInv, Shape, TypeOK, Unused
  <2>2. LET first == [Unused EXCEPT !.state = "applying", !.key = k]
        IN  first \in Allocation /\ first.state = "applying" /\ first.key = k
    BY <1>5, <2>1 DEF Open
  <2>3. ASSUME NEW s \in Rows
        PROVE  LET other == [row[s] EXCEPT !.key = 0]
               IN  other \in Allocation /\ other.state = row[s].state /\ other.key = 0
    BY <2>1
  <2> HIDE DEF Allocation
  <2>4. row' \in [Rows -> Allocation]
    BY <1>1, <2>1, <2>2, <2>3
  <2> QED BY <1>1, <2>1, <2>2, <2>3, <2>4 DEF Allocation
<1> HIDE DEF k
<1>7. Shape'
  <2>1. \A d \in Callers : claim'[d].at = "asked" => claim'[d].key \in (IF keyed THEN Keys ELSE {TaskKey})
    BY <1>3, <1>4 DEF IInv, Shape
  <2>2. \A d \in Callers : InLock(d)' => row'[claim'[d].row].state # "none"
    <3>1. ASSUME NEW d \in Callers, InLock(d)' PROVE row'[claim'[d].row].state # "none"
      <4>1. CASE d = c
        BY <4>1, <1>3, <1>4, <1>6
      <4>2. CASE d # c
        <5>1. InLock(d)
          BY <3>1, <4>2, <1>4 DEF InLock
        <5> QED BY <4>2, <5>1, <1>4, <1>6 DEF IInv, Locked, Used
      <4> QED BY <4>1, <4>2
    <3> QED BY <3>1
  <2>3. TypeOK'
    BY <1>2, <1>3, <1>4, <1>6, <2>2 DEF IInv, Shape, TypeOK, Claims
  <2> QED BY <1>2, <1>4, <2>1, <2>3 DEF IInv, Shape, Claims
<1>8. Locked'
  BY <1>1, <1>2, <1>3, <1>4, <1>6 DEF IInv, Locked, Known, InLock, Used, Others
<1>9. \A s \in Rows : Pending(s)' => s = r
  <2>1. \A s \in Rows : ~Pending(s)
    BY NoneIsPending
  <2> QED BY <1>2, <1>3, <1>4, <2>1 DEF Pending, Applying
<1>10. Known'
  BY <1>1, <1>2, <1>6, <1>9 DEF IInv, Known, Used, Open
<1>11. Underway' /\ Honest'
  <2>1. job[r] = "none"
    BY <1>1 DEF IInv, Known, Used
  <2>2. \A d \in Callers : claim'[d].at \in {"remember", "finish"} => d # c /\ InLock(d) /\ claim[d].row # r
    BY <1>1, <1>3, <1>4 DEF InLock, IInv, Locked, Used
  <2>3. Underway'
    BY <1>2, <1>3, <1>4, <1>6, <2>2 DEF IInv, Underway, Locked
  <2>4. Honest'
    BY <1>2, <1>3, <1>4, <1>6, <2>1, <2>2 DEF IInv, Honest
  <2> QED BY <2>3, <2>4
<1>12. OneAttempt'
  BY <1>2, <1>5, <1>6, <1>9 DEF OneAttempt
<1> QED BY <1>7, <1>8, <1>10, <1>11, <1>12 DEF IInv

-----------------------------------------------------------------------------
(* Readings *)

Allocations == [state : Open \union {"none", "over"}, key : Keys \union {TaskKey, 0}, ref : BOOLEAN]
Facts == [Rows -> {"absent", "active", "unknown", "over"}]

\* What a reading does to one allocation.
LEMMA IngestedRows ==
  ASSUME Shape, NEW facts \in Facts, NEW late, NEW idle \in SUBSET Rows, Ingested(facts, late, idle)
  PROVE  /\ row' \in [Rows -> Allocations] /\ lease' \in [Rows -> {"none", "live", "ended"}]
         /\ reclaim' = reclaim \union idle
         /\ \A r \in Rows :
              /\ row'[r].key = row[r].key /\ (Used(r)' <=> Used(r))
              /\ r \notin Heard(facts, late) => row'[r] = row[r] /\ lease'[r] = lease[r] /\ r \notin idle
              /\ r \in Heard(facts, late) => facts[r] # "absent" /\ r \notin late
              /\ r \in Heard(facts, late) /\ facts[r] = "over" => row'[r].state = "over" /\ r \notin idle
              /\ r \in Heard(facts, late) /\ facts[r] = "unknown" =>
                   row'[r].state = (IF row[r].state = "release_pending" THEN "release_pending" ELSE "unconfirmed")
              /\ r \in Heard(facts, late) /\ facts[r] = "active" =>
                   row'[r].state = (IF row[r].state = "release_pending" \/ r \in idle THEN "release_pending" ELSE "active")
              /\ lease'[r] # lease[r] => r \in Heard(facts, late) /\ facts[r] = "over" /\ lease[r] = "live" /\ lease'[r] = "ended"
              /\ r \in idle => r \in Heard(facts, late) /\ facts[r] = "active" /\ lease[r] = "live"
<1> DEFINE heard == Heard(facts, late)
           known == [r \in Rows |-> IF r \in heard THEN Recorded(row[r], facts[r]) ELSE row[r]]
           over == {r \in heard : known[r].state = "over" /\ lease[r] = "live"}
<1>1. /\ idle \subseteq {r \in heard : facts[r] = "active" /\ known[r].state = "active" /\ lease[r] = "live"}
      /\ row' = [r \in Rows |-> IF r \in idle THEN [known[r] EXCEPT !.state = "release_pending"] ELSE known[r]]
      /\ lease' = [r \in Rows |-> IF r \in over THEN "ended" ELSE lease[r]]
      /\ reclaim' = reclaim \union idle
  BY DEF Ingested
<1>2. \A r \in Rows : row[r] \in Allocations
  BY DEF Shape, TypeOK, Allocations
<1>3. \A r \in heard : r \in Rows /\ Used(r) /\ r \notin late /\ facts[r] \in {"active", "unknown", "over"}
  BY DEF Heard, Used, Facts
<1> HIDE DEF heard
<1>4. ASSUME NEW r \in Rows
      PROVE  /\ known[r] \in Allocations /\ known[r].key = row[r].key
             /\ r \in heard => known[r].state =
                  (IF row[r].state = "release_pending" /\ facts[r] # "over" THEN "release_pending"
                   ELSE IF facts[r] = "unknown" THEN "unconfirmed" ELSE facts[r])
             /\ r \notin heard => known[r] = row[r]
  BY <1>2, <1>3, RecordedShape DEF Allocations
<1> HIDE DEF known
<1>5. ASSUME NEW r \in Rows
      PROVE  LET given == [known[r] EXCEPT !.state = "release_pending"]
             IN  given \in Allocations /\ given.key = row[r].key /\ given.state = "release_pending"
  BY <1>4 DEF Allocations, Open
<1>6. row' \in [Rows -> Allocations] /\ lease' \in [Rows -> {"none", "live", "ended"}]
  BY <1>1, <1>4, <1>5 DEF Shape, TypeOK
<1>7. \A r \in Rows : /\ row'[r].key = row[r].key
                      /\ row'[r].state = IF r \in idle THEN "release_pending" ELSE known[r].state
                      /\ r \notin idle => row'[r] = known[r]
  BY <1>1, <1>4, <1>5
<1>8. \A r \in Rows : r \in over <=> r \in heard /\ facts[r] = "over" /\ lease[r] = "live"
  BY <1>3, <1>4
<1> HIDE DEF over
<1>9. \A r \in Rows : lease'[r] # lease[r] => r \in over /\ lease'[r] = "ended"
  BY <1>1
<1>10. \A r \in Rows : Used(r)' <=> Used(r)
  <2> SUFFICES ASSUME NEW r \in Rows PROVE Used(r)' <=> Used(r)
    OBVIOUS
  <2>1. CASE r \in heard
    <3>1. row'[r].state \in {"release_pending", "active", "unconfirmed", "over"}
      BY <1>3, <1>4, <1>7, <2>1
    <3> QED BY <1>3, <2>1, <3>1 DEF Used
  <2>2. CASE r \notin heard
    <3>1. r \notin idle
      BY <1>1, <2>2
    <3> QED BY <1>4, <1>7, <2>2, <3>1 DEF Used
  <2> QED BY <2>1, <2>2
<1>11. \A r \in idle : r \in heard /\ facts[r] = "active" /\ lease[r] = "live"
  BY <1>1
<1> QED BY <1>1, <1>3, <1>4, <1>6, <1>7, <1>8, <1>9, <1>10, <1>11 DEF heard

\* A reading that tells the truth, or what was true and is known to be late
\* when it no longer is, keeps the ledger true.
LEMMA IngestedKnown ==
  ASSUME IInv, NEW facts \in Facts, NEW late, NEW idle \in SUBSET Rows, Ingested(facts, late, idle),
         \A r \in Rows : /\ facts[r] # "absent" => job[r] # "none"
                         /\ facts[r] = "over" => job[r] \in {"over", "rejected"}
                         /\ facts[r] = "active" => job[r] \in {"live", "over"},
         UNCHANGED <<keyed, issued, job, release>>,
         \A r \in Rows : Pending(r)' => Pending(r)
  PROVE  /\ Known' /\ OneAttempt'
         /\ \A r \in reclaim' : lease'[r] # "none"
         /\ release'.at # "idle" => release'.row \in Rows /\ lease'[release'.row] # "none"
         /\ release'.at \in {"settle", "write"} => job'[release'.row] = "over"
<1> USE IngestedRows
<1>1. Shape /\ Known
  BY DEF IInv
<1>2. ASSUME NEW r \in Rows, Pending(r)'
      PROVE  row'[r].state \in Open
  <2>1. Pending(r) /\ job[r] \in {"none", "submitted", "live"}
    BY <1>2 DEF Pending, Applying
  <2>2. row[r].state \in Open /\ facts[r] # "over"
    BY <2>1 DEF IInv, Known
  <2> QED BY <1>1, <2>2 DEF Open, Facts
<1>3. \A r \in Rows : lease'[r] = "none" <=> lease[r] = "none"
  BY <1>1
<1>4. Known'
  <2>1. \A r \in Rows : row'[r].state = "active" => job[r] \in {"live", "over"}
    <3> SUFFICES ASSUME NEW r \in Rows, row'[r].state = "active" PROVE job[r] \in {"live", "over"}
      OBVIOUS
    <3>1. CASE r \in Heard(facts, late)
      BY <1>1, <3>1 DEF Facts
    <3>2. CASE r \notin Heard(facts, late)
      BY <1>1, <3>2 DEF Known
    <3> QED BY <3>1, <3>2
  <2>2. \A r \in Rows : row'[r].state = "release_pending" => lease'[r] # "none"
    <3> SUFFICES ASSUME NEW r \in Rows, row'[r].state = "release_pending" PROVE lease'[r] # "none"
      OBVIOUS
    <3>1. CASE r \in Heard(facts, late)
      <4>1. row[r].state = "release_pending" \/ r \in idle
        BY <1>1, <3>1 DEF Facts
      <4> QED BY <1>1, <4>1 DEF Known
    <3>2. CASE r \notin Heard(facts, late)
      BY <1>1, <3>2 DEF Known
    <3> QED BY <3>1, <3>2
  <2> QED BY <1>1, <1>2, <1>3, <2>1, <2>2 DEF Known
<1>5. OneAttempt'
  BY <1>1 DEF IInv, OneAttempt
<1>6. \A r \in reclaim' : r \in Rows /\ lease[r] # "none"
  BY <1>1 DEF IInv, Underway, Shape, TypeOK
<1>7. release'.at # "idle" => release'.row \in Rows /\ lease'[release'.row] # "none"
  BY <1>3 DEF IInv, Underway
<1> QED BY <1>4, <1>5, <1>3, <1>6, <1>7 DEF IInv, Underway

\* What is read of the cluster now is true, and says of no job that it runs
\* whose allocation is over.
LEMMA LookIInv ==
  ASSUME IInv, Look
  PROVE  IInv'
<1>1. PICK facts \in Readings :
        snap' = [NoSnap EXCEPT !.taken = TRUE, !.facts = facts,
                 !.over = {claim[c].row : c \in {d \in Callers : claim[d].at = "remember"}}]
  BY DEF Look
<1>2. UNCHANGED <<keyed, rowVars, issued, job, answer, claim, reclaim, release, crashes>>
  BY DEF Look
<1>3. /\ facts \in Facts
      /\ \A r \in Rows : /\ facts[r] # "absent" => job[r] # "none"
                         /\ facts[r] = "over" => job[r] \in {"over", "rejected"}
                         /\ facts[r] = "active" => job[r] = "live"
  <2>1. facts \in Facts
    BY DEF Readings, Facts
  <2> QED BY <2>1, TrueReading DEF IInv, Shape, TypeOK
<1>4. {claim[c].row : c \in {d \in Callers : claim[d].at = "remember"}} \subseteq Rows
  BY DEF IInv, Locked, InLock
<1>5. /\ snap' \in [taken : BOOLEAN, facts : Facts, late : SUBSET Rows, over : SUBSET Rows]
      /\ snap'.facts = facts
      /\ snap'.over = {claim[c].row : c \in {d \in Callers : claim[d].at = "remember"}}
  BY <1>1, <1>3, <1>4 DEF NoSnap, Facts
<1>6. Shape' /\ Locked'
  BY <1>2, <1>5 DEF IInv, Shape, TypeOK, Claims, Locked, InLock, Used, rowVars, Facts
<1>7. \A s \in Rows : Pending(s)' => Pending(s)
  BY <1>2 DEF Pending, Applying
<1>8. Known' /\ Underway' /\ OneAttempt'
  BY <1>2, <1>7 DEF IInv, Known, Underway, OneAttempt, Used, rowVars
<1>9. Honest'
  <2>1. \A r \in Rows : job[r] = "live" => row[r].state # "over"
    BY DEF IInv, Known, Pending, Open
  <2>2. \A c \in Callers : claim[c].at = "remember" => claim[c].row \in snap'.over
    BY <1>5
  <2> QED BY <1>2, <1>3, <1>5, <2>1, <2>2 DEF Honest, rowVars
<1> QED BY <1>6, <1>8, <1>9 DEF IInv

\* Marking claims as overtaken by a reading leaves where they are.
LEMMA IngestIInv ==
  ASSUME IInv, Ingest
  PROVE  IInv'
<1> DEFINE heard == Heard(snap.facts, snap.late)
<1>1. PICK idle \in SUBSET Rows : Ingested(snap.facts, snap.late, idle)
  BY DEF Ingest
<1>2. /\ snap.taken /\ snap' = NoSnap
      /\ claim' = [c \in Callers |->
           IF claim[c].at = "remember" /\ claim[c].row \in heard \intersect snap.over
           THEN [claim[c] EXCEPT !.fact = "late"] ELSE claim[c]]
      /\ UNCHANGED <<keyed, issued, job, answer, release, crashes>>
  BY DEF Ingest
<1>3. snap.facts \in Facts /\ Shape
  BY DEF IInv, Shape, Facts
<1>4. \A r \in Rows : /\ snap.facts[r] # "absent" => job[r] # "none"
                      /\ snap.facts[r] = "over" => job[r] \in {"over", "rejected"}
                      /\ snap.facts[r] = "active" => job[r] \in {"live", "over"}
  BY <1>2 DEF IInv, Honest
<1>5. claim' \in [Callers -> Claims]
      /\ \A c \in Callers : /\ claim'[c].at = claim[c].at /\ claim'[c].row = claim[c].row /\ claim'[c].key = claim[c].key
                            /\ claim[c].at = "remember" /\ claim[c].row \in heard \intersect snap.over => claim'[c].fact = "late"
                            /\ claim'[c].fact \in {claim[c].fact, "late"}
  <2>1. ASSUME NEW c \in Callers
        PROVE  LET late == [claim[c] EXCEPT !.fact = "late"]
               IN  /\ late \in Claims /\ late.at = claim[c].at /\ late.row = claim[c].row
                   /\ late.key = claim[c].key /\ late.fact = "late"
    BY DEF IInv, Shape, Claims
  <2>2. claim \in [Callers -> Claims]
    BY DEF IInv, Shape
  <2> QED BY <1>2, <2>1, <2>2
<1>6. \A s \in Rows : Pending(s)' => Pending(s)
  BY <1>2, <1>5 DEF Pending, Applying
<1>7. /\ Known' /\ OneAttempt'
      /\ \A r \in reclaim' : lease'[r] # "none"
      /\ release'.at # "idle" => release'.row \in Rows /\ lease'[release'.row] # "none"
      /\ release'.at \in {"settle", "write"} => job'[release'.row] = "over"
  BY <1>1, <1>2, <1>3, <1>4, <1>6, IngestedKnown
<1>8. Locked'
  <2>1. \A r \in Rows : (Used(r)' <=> Used(r)) /\ (lease[r] = "none" => lease'[r] = "none")
    BY <1>1, <1>3, IngestedRows
  <2> QED BY <1>5, <2>1 DEF IInv, Locked, InLock
<1>9. Shape'
  <2>1. row' \in [Rows -> Allocations] /\ lease' \in [Rows -> {"none", "live", "ended"}]
        /\ reclaim' = reclaim \union idle
    BY <1>1, <1>3, IngestedRows
  <2>2. TypeOK'
    BY <1>2, <1>3, <1>5, <1>8, <2>1 DEF Shape, TypeOK, Allocations, Locked, Used
  <2>3. snap' \in [taken : BOOLEAN, facts : Facts, late : SUBSET Rows, over : SUBSET Rows]
    BY <1>2 DEF NoSnap, Facts
  <2>4. \A c \in Callers : claim'[c].at = "asked" => claim'[c].key \in (IF keyed' THEN Keys ELSE {TaskKey})
    BY <1>2, <1>3, <1>5 DEF Shape
  <2>5. release' \in [at : {"idle", "mark", "call", "keep", "settle", "write"}, row : 0..MaxRows]
    BY <1>2, <1>3 DEF Shape
  <2> QED BY <1>5, <2>2, <2>3, <2>4, <2>5 DEF Shape, Claims, Facts
<1>10. \A c \in Callers : claim'[c].at = "remember" /\ claim'[c].fact # "late" => row'[claim'[c].row].state # "over"
  <2> SUFFICES ASSUME NEW c \in Callers, claim[c].at = "remember", claim'[c].fact # "late"
               PROVE  row'[claim[c].row].state # "over"
    BY <1>5
  <2>1. claim[c].row \in Rows /\ claim[c].fact # "late" /\ claim[c].row \notin heard \intersect snap.over
    BY <1>5 DEF IInv, Locked, InLock
  <2>2. row[claim[c].row].state # "over"
    BY <2>1 DEF IInv, Underway
  <2>3. CASE claim[c].row \notin heard
    BY <1>1, <1>3, <2>1, <2>2, <2>3, IngestedRows
  <2>4. CASE claim[c].row \in heard
    <3>1. claim[c].row \notin snap.over
      BY <2>1, <2>4
    <3>2. snap.facts[claim[c].row] # "over"
      BY <1>2, <2>1, <3>1 DEF IInv, Honest
    <3>3. snap.facts[claim[c].row] \in {"active", "unknown"}
      BY <1>1, <1>3, <2>1, <2>4, <3>2, IngestedRows DEF Facts
    <3> QED BY <1>1, <1>3, <2>1, <2>4, <3>3, IngestedRows
  <2> QED BY <2>3, <2>4
<1>11. Underway'
  BY <1>2, <1>5, <1>7, <1>10 DEF IInv, Underway
<1>12. Honest'
  BY <1>2 DEF Honest, NoSnap
<1> QED BY <1>7, <1>8, <1>9, <1>11, <1>12 DEF IInv

-----------------------------------------------------------------------------
(* The rest of a claim *)

\* The pending reading is late for rows that are known better now.
LEMMA NewerHonest ==
  ASSUME IInv, NEW rows \in SUBSET Rows, snap' = Newer(rows), UNCHANGED job,
         \A r \in Rows : row'[r].state = "over" /\ row[r].state # "over" => r \in rows,
         \A c \in Callers : claim'[c].at = "remember" => claim'[c].at = claim[c].at /\ claim'[c].row = claim[c].row
  PROVE  /\ Honest'
         /\ snap' \in [taken : BOOLEAN, facts : Facts, late : SUBSET Rows, over : SUBSET Rows]
<1> DEFINE later == [snap EXCEPT !.late = @ \union rows]
<1>1. snap \in [taken : BOOLEAN, facts : Facts, late : SUBSET Rows, over : SUBSET Rows]
  BY DEF IInv, Shape, Facts
<1>2. /\ later \in [taken : BOOLEAN, facts : Facts, late : SUBSET Rows, over : SUBSET Rows]
      /\ later.taken = snap.taken /\ later.facts = snap.facts /\ later.over = snap.over
      /\ later.late = snap.late \union rows
  BY <1>1
<1>3. snap' = IF snap.taken THEN later ELSE snap
  BY DEF Newer
<1> HIDE DEF later
<1> QED BY <1>1, <1>2, <1>3 DEF IInv, Honest

LEMMA ObserveIInv ==
  ASSUME IInv, NEW c \in Callers, Observe(c)
  PROVE  IInv'
<1>1. claim[c].at = "observe" /\ UNCHANGED <<keyed, issued, job, answer, release, crashes>>
  BY DEF Observe
<1>2. CASE claim' = [claim EXCEPT ![c] = NoClaim] /\ UNCHANGED <<rowVars, snap, reclaim>>
  BY <1>1, <1>2, LeaveIInv
<1>3. ASSUME NEW facts \in Readings, NEW idle \in SUBSET Rows,
             Ingested(facts, {}, idle), snap' = Newer(Heard(facts, {})),
             claim' = [claim EXCEPT ![c] =
                IF row'[claim[c].row].state = "active" THEN [@ EXCEPT !.at = "finish"] ELSE NoClaim]
      PROVE  IInv'
  <2> DEFINE r == claim[c].row
             new == IF row'[r].state = "active" THEN [claim[c] EXCEPT !.at = "finish"] ELSE NoClaim
  <2>1. Shape /\ facts \in Facts
        /\ \A s \in Rows : /\ facts[s] # "absent" => job[s] # "none"
                           /\ facts[s] = "over" => job[s] \in {"over", "rejected"}
                           /\ facts[s] = "active" => job[s] \in {"live", "over"}
    <3>1. facts \in Facts
      BY DEF Readings, Facts
    <3> QED BY <3>1, TrueReading DEF IInv, Shape, TypeOK
  <2>2. r \in Rows /\ Used(r) /\ lease[r] = "none"
    BY <1>1 DEF IInv, Locked, InLock
  <2>3. /\ new \in Claims /\ new.at \in {"idle", "finish"}
        /\ new.at = "finish" => new.row = r /\ row'[r].state = "active"
    <3>1. claim[c] \in Claims /\ NoClaim \in Claims
      BY DEF IInv, Shape, Claims, NoClaim
    <3>2. LET done == [claim[c] EXCEPT !.at = "finish"]
          IN  done \in Claims /\ done.at = "finish" /\ done.row = r
      BY <3>1 DEF Claims
    <3> QED BY <3>1, <3>2 DEF NoClaim
  <2>4. claim' \in [Callers -> Claims] /\ \A d \in Callers : claim'[d] = (IF d = c THEN new ELSE claim[d])
    BY <1>3, <2>3 DEF IInv, Shape
  <2> HIDE DEF r, new
  <2>5. \A s \in Rows : Pending(s)' => Pending(s)
    BY <1>1, <2>3, <2>4 DEF Pending, Applying
  <2>6. /\ Known' /\ OneAttempt'
        /\ \A s \in reclaim' : lease'[s] # "none"
        /\ release'.at # "idle" => release'.row \in Rows /\ lease'[release'.row] # "none"
        /\ release'.at \in {"settle", "write"} => job'[release'.row] = "over"
    BY <1>1, <1>3, <2>1, <2>5, IngestedKnown
  <2>7. /\ row' \in [Rows -> Allocations] /\ lease' \in [Rows -> {"none", "live", "ended"}]
        /\ reclaim' = reclaim \union idle
        /\ \A s \in Rows : (Used(s)' <=> Used(s)) /\ (lease[s] = "none" => lease'[s] = "none")
        /\ \A s \in Rows : row'[s].state = "over" /\ row[s].state # "over" => s \in Heard(facts, {})
    BY <1>3, <2>1, IngestedRows
  <2>8. Locked'
    BY <2>2, <2>3, <2>4, <2>7, <1>1 DEF IInv, Locked, InLock
  <2>9. \A d \in Callers : claim'[d].at = "remember" => d # c /\ claim'[d] = claim[d]
    BY <2>3, <2>4
  <2>10. /\ Honest'
         /\ snap' \in [taken : BOOLEAN, facts : Facts, late : SUBSET Rows, over : SUBSET Rows]
    <3>1. Heard(facts, {}) \in SUBSET Rows
      BY DEF Heard
    <3> QED BY <1>1, <1>3, <2>7, <2>9, <3>1, NewerHonest
  <2>11. Underway'
    <3>1. \A d \in Callers : claim'[d].at # "remember"
      BY <2>9, <1>1 DEF IInv, Locked, InLock
    <3>2. \A d \in Callers : claim'[d].at = "finish" => d = c /\ job[claim'[d].row] \in {"live", "over"}
      <4>1. \A d \in Callers : claim'[d].at = "finish" => d = c
        BY <2>4, <1>1 DEF IInv, Locked, InLock
      <4> QED BY <1>1, <2>2, <2>3, <2>4, <2>6, <4>1 DEF Known
    <3> QED BY <1>1, <2>6, <3>1, <3>2 DEF Underway
  <2>12. Shape'
    <3>1. TypeOK'
      BY <1>1, <2>1, <2>4, <2>7, <2>8 DEF Shape, TypeOK, Allocations, Claims, Locked, Used
    <3>2. \A d \in Callers : claim'[d].at = "asked" => claim'[d].key \in (IF keyed' THEN Keys ELSE {TaskKey})
      BY <1>1, <2>1, <2>3, <2>4 DEF Shape
    <3>3. release' \in [at : {"idle", "mark", "call", "keep", "settle", "write"}, row : 0..MaxRows]
      BY <1>1, <2>1 DEF Shape
    <3> QED BY <2>4, <2>10, <3>1, <3>2, <3>3 DEF Shape, Claims, Facts
  <2> QED BY <2>6, <2>8, <2>10, <2>11, <2>12 DEF IInv
<1> QED BY <1>2, <1>3 DEF Observe

LEMMA ApplyIInv ==
  ASSUME IInv, NEW c \in Callers, Apply(c)
  PROVE  IInv'
<1> DEFINE r == claim[c].row
<1>1. /\ claim[c].at = "apply" /\ job[r] = "none" /\ job' = [job EXCEPT ![r] = "submitted"]
      /\ UNCHANGED <<keyed, rowVars, issued, answer, claim, snap, reclaim, release, crashes>>
  BY DEF Apply
<1>2. r \in Rows
  BY <1>1 DEF IInv, Locked, InLock
<1>3. Pending(r)
  BY <1>1 DEF Pending, Applying
<1> HIDE DEF r
<1>4. /\ job' \in [Rows -> {"none", "submitted", "rejected", "live", "over"}]
      /\ job'[r] = "submitted" /\ \A s \in Rows \ {r} : job'[s] = job[s]
  BY <1>1, <1>2 DEF IInv, Shape, TypeOK
<1>5. Shape' /\ Locked'
  BY <1>1, <1>4 DEF IInv, Shape, TypeOK, Claims, Locked, Used, InLock, rowVars
<1>6. \A s \in Rows : Pending(s)' => Pending(s)
  BY <1>1, <1>3, <1>4 DEF Pending, Applying
<1>7. \A s \in Rows : job'[s] # job[s] => s = r /\ job[s] = "none" /\ Used(s) /\ lease[s] = "none"
  BY <1>1, <1>2, <1>3, <1>4 DEF IInv, Known, Open, Used
<1>8. Known' /\ OneAttempt'
  BY <1>1, <1>4, <1>6, <1>7 DEF IInv, Known, OneAttempt, Used, rowVars
<1>9. Underway'
  BY <1>1, <1>7 DEF IInv, Underway, Locked, InLock, rowVars, Shape, TypeOK
<1>10. Honest'
  BY <1>1, <1>4, <1>7 DEF IInv, Honest, rowVars
<1> QED BY <1>5, <1>8, <1>9, <1>10 DEF IInv

LEMMA AppliedIInv ==
  ASSUME IInv, NEW c \in Callers, Applied(c)
  PROVE  IInv'
<1> DEFINE r == claim[c].row
           new == [claim[c] EXCEPT !.at = "remember", !.fact = "active"]
<1>1. /\ claim[c].at = "apply" /\ job[r] = "live" /\ r \in Rows
      /\ UNCHANGED <<keyed, rowVars, issued, job, answer, snap, reclaim, release, crashes>>
  BY DEF Applied, IInv, Locked, InLock
<1>2. new \in Claims /\ new.at = "remember" /\ new.row = r
  <2>1. claim[c] \in Claims
    BY DEF IInv, Shape
  <2> QED BY <2>1 DEF Claims
<1>3. claim' \in [Callers -> Claims] /\ \A d \in Callers : claim'[d] = (IF d = c THEN new ELSE claim[d])
  BY <1>2 DEF Applied, IInv, Shape
<1>4. row[r].state # "over"
  BY <1>1 DEF IInv, Known, Pending, Open
<1>5. \A s \in Rows : Pending(s)' => Pending(s)
  BY <1>1, <1>2, <1>3 DEF Pending, Applying
<1> HIDE DEF r, new
<1>6. Locked'
  BY <1>1, <1>2, <1>3 DEF IInv, Locked, InLock, Used, rowVars, r
<1>7. Shape'
  <2>1. TypeOK'
    BY <1>1, <1>3, <1>6 DEF IInv, Shape, TypeOK, Claims, Locked, Used, rowVars
  <2> QED BY <1>1, <1>2, <1>3, <2>1 DEF IInv, Shape, Claims
<1>8. Known' /\ OneAttempt'
  BY <1>1, <1>5 DEF IInv, Known, OneAttempt, Used, rowVars
<1>9. Underway'
  BY <1>1, <1>2, <1>3, <1>4 DEF IInv, Underway, rowVars
<1>10. Honest'
  <2>1. snap.taken => snap.facts[r] # "over"
    BY <1>1 DEF IInv, Honest
  <2> QED BY <1>1, <1>2, <1>3, <2>1 DEF IInv, Honest, rowVars
<1> QED BY <1>6, <1>7, <1>8, <1>9, <1>10 DEF IInv

\* An attempt that failed for good has no job and gets none: its claim, the one
\* that could still apply it, is over.
LEMMA FailedIInv ==
  ASSUME IInv, NEW c \in Callers, Failed(c)
  PROVE  IInv'
<1> DEFINE r == claim[c].row
<1>1. /\ claim[c].at = "apply" /\ r \in Rows /\ lease[r] = "none" /\ Used(r)
      /\ claim' = [claim EXCEPT ![c] = NoClaim]
      /\ UNCHANGED <<keyed, lease, issued, job, answer, snap, reclaim, release, crashes>>
  BY DEF Failed, Outcomes, IInv, Locked, InLock
<1>2. PICK state \in {"over", "unconfirmed"} :
        /\ state = "over" => job[r] \in {"none", "rejected"}
        /\ row' = [row EXCEPT ![r].state = state]
  BY DEF Failed, Outcomes
<1> HIDE DEF r
<1>3. /\ row' \in [Rows -> Allocations] /\ row'[r].state = state /\ row'[r].key = row[r].key
      /\ \A s \in Rows \ {r} : row'[s] = row[s]
  <2>1. row \in [Rows -> Allocations]
    BY DEF IInv, Shape, TypeOK, Allocations
  <2>2. LET failed == [row[r] EXCEPT !.state = state]
        IN  failed \in Allocations /\ failed.state = state /\ failed.key = row[r].key
    BY <1>1, <2>1 DEF Allocations, Open
  <2> QED BY <1>1, <1>2, <2>1, <2>2
<1>4. claim' \in [Callers -> Claims] /\ \A d \in Callers : claim'[d] = (IF d = c THEN NoClaim ELSE claim[d])
  BY <1>1 DEF IInv, Shape, Claims, NoClaim
<1>5. \A d \in Callers : ~InLock(d)'
  BY <1>1, <1>4 DEF IInv, Locked, InLock, NoClaim
<1>6. Locked' /\ Underway'
  BY <1>1, <1>5 DEF IInv, Locked, Underway, InLock
<1>7. \A s \in Rows : Pending(s)' => Pending(s) /\ job[s] \in {"submitted", "live"}
  BY <1>1, <1>5 DEF Pending, Applying, InLock
<1>8. Known' /\ OneAttempt'
  <2>1. \A s \in Rows : Used(s)' <=> Used(s)
    <3>1. row[r].state # "none" /\ row'[r].state # "none"
      BY <1>1, <1>2, <1>3 DEF Used
    <3>2. \A s \in Rows : s # r => row'[s].state = row[s].state
      BY <1>3
    <3> QED BY <3>1, <3>2 DEF Used
  <2>2. \A s \in Rows : Pending(s)' => row'[s].state \in Open
    BY <1>2, <1>3, <1>7 DEF IInv, Known, Open
  <2>3. \A s \in Rows : row'[s].key = row[s].key
    BY <1>3
  <2>4. \A s \in Rows : row'[s].state \in {"active", "release_pending"} => row'[s].state = row[s].state
    BY <1>2, <1>3
  <2>5. Known'
    BY <1>1, <2>1, <2>2, <2>4 DEF IInv, Known
  <2>6. OneAttempt'
    BY <1>1, <1>7, <2>3 DEF IInv, OneAttempt
  <2> QED BY <2>5, <2>6
<1>9. Shape'
  <2>1. TypeOK'
    BY <1>1, <1>3, <1>4, <1>5 DEF IInv, Shape, TypeOK, Allocations, Claims
  <2> QED BY <1>1, <1>4, <1>5, <2>1 DEF IInv, Shape, Claims, NoClaim
<1>10. Honest'
  <2>1. snap.taken /\ snap.facts[r] = "active" => state # "over"
    BY <1>1, <1>2 DEF IInv, Honest
  <2> QED BY <1>1, <1>3, <1>5, <2>1 DEF IInv, Honest, InLock
<1> QED BY <1>6, <1>8, <1>9, <1>10 DEF IInv

\* An attempt that is under way has no lease, so its release is not pending.
LEMMA RememberIInv ==
  ASSUME IInv, NEW c \in Callers, Remember(c)
  PROVE  IInv'
<1> DEFINE r == claim[c].row
           new == [claim[c] EXCEPT !.at = "finish", !.fact = "none"]
<1>1. /\ claim[c].at = "remember" /\ r \in Rows /\ lease[r] = "none" /\ Used(r) /\ job[r] \in {"live", "over"}
      /\ UNCHANGED <<keyed, lease, issued, job, answer, reclaim, release, crashes>>
  BY DEF Remember, IInv, Locked, InLock, Underway
<1>2. new \in Claims /\ new.at = "finish" /\ new.row = r
  <2>1. claim[c] \in Claims
    BY DEF IInv, Shape
  <2> QED BY <2>1 DEF Claims
<1>3. claim' \in [Callers -> Claims] /\ \A d \in Callers : claim'[d] = (IF d = c THEN new ELSE claim[d])
  BY <1>2 DEF Remember, IInv, Shape
<1>4. \/ claim[c].fact = "late" /\ UNCHANGED <<row, snap>>
      \/ /\ claim[c].fact # "late" /\ row' = [row EXCEPT ![r] = Recorded(row[r], "active")]
         /\ snap' = IF r \in snap.over THEN snap ELSE Newer({r})
  BY DEF Remember
<1> HIDE DEF r, new
<1>5. /\ row' \in [Rows -> Allocations] /\ row'[r].key = row[r].key /\ row'[r].state \in {"active", row[r].state}
      /\ \A s \in Rows \ {r} : row'[s] = row[s]
  <2>1. row \in [Rows -> Allocations] /\ row[r] \in Allocations
    BY <1>1 DEF IInv, Shape, TypeOK, Allocations
  <2>2. LET known == Recorded(row[r], "active")
        IN  known \in Allocations /\ known.key = row[r].key /\ known.state \in {"active", row[r].state}
    BY <2>1, RecordedShape DEF Allocations
  <2> QED BY <1>1, <1>4, <2>1, <2>2
<1>6. \A s \in Rows : Used(s)' <=> Used(s)
  BY <1>1, <1>5 DEF Used
<1>7. Locked'
  BY <1>1, <1>2, <1>3, <1>6 DEF IInv, Locked, InLock, r
<1>8. \A s \in Rows : Pending(s)' => Pending(s)
  BY <1>1, <1>2, <1>3 DEF Pending, Applying
<1>9. Known' /\ OneAttempt'
  <2>1. \A s \in Rows : Pending(s)' => row'[s].state \in Open
    BY <1>5, <1>8 DEF IInv, Known, Open
  <2>2. Known'
    BY <1>1, <1>5, <1>6, <2>1 DEF IInv, Known
  <2> QED BY <1>1, <1>5, <1>8, <2>2 DEF IInv, OneAttempt
<1>10. \A d \in Callers : claim'[d].at # "remember"
  BY <1>1, <1>2, <1>3 DEF IInv, Locked, InLock
<1>11. Underway'
  BY <1>1, <1>2, <1>3, <1>10 DEF IInv, Underway
<1>12. /\ Honest'
       /\ snap' \in [taken : BOOLEAN, facts : Facts, late : SUBSET Rows, over : SUBSET Rows]
  <2>1. snap \in [taken : BOOLEAN, facts : Facts, late : SUBSET Rows, over : SUBSET Rows]
    BY DEF IInv, Shape, Facts
  <2>2. \A s \in Rows : row'[s].state = "over" => row[s].state = "over"
    BY <1>5
  <2>3. CASE snap' = snap
    BY <1>1, <1>10, <2>1, <2>2, <2>3 DEF IInv, Honest
  <2>4. CASE snap' = Newer({r})
    BY <1>1, <1>10, <2>2, <2>4, NewerHonest
  <2> QED BY <1>4, <2>3, <2>4
<1>13. Shape'
  <2>1. TypeOK'
    BY <1>1, <1>3, <1>5, <1>7 DEF IInv, Shape, TypeOK, Allocations, Claims, Locked, Used
  <2> QED BY <1>1, <1>2, <1>3, <1>12, <2>1 DEF IInv, Shape, Claims, Facts
<1> QED BY <1>7, <1>9, <1>11, <1>12, <1>13 DEF IInv

LEMMA FinishIInv ==
  ASSUME IInv, NEW c \in Callers, Finish(c)
  PROVE  IInv'
<1> DEFINE r == claim[c].row
<1>1. /\ claim[c].at = "finish" /\ r \in Rows /\ lease[r] = "none" /\ job[r] \in {"live", "over"}
      /\ lease' = [lease EXCEPT ![r] = "live"] /\ issued' = [issued EXCEPT ![r] = @ + 1]
      /\ claim' = [claim EXCEPT ![c] = NoClaim]
      /\ UNCHANGED <<keyed, row, job, snap, reclaim, release, crashes>>
  BY DEF Finish, IInv, Locked, InLock, Underway
<1>2. answer' \in [Keys -> 0..MaxRows]
  BY <1>1 DEF Finish, IInv, Shape, TypeOK, Rows
<1> HIDE DEF r
<1>3. /\ lease' \in [Rows -> {"none", "live", "ended"}] /\ issued' \in [Rows -> Nat]
      /\ lease'[r] = "live" /\ issued'[r] = 1
      /\ \A s \in Rows \ {r} : lease'[s] = lease[s] /\ issued'[s] = issued[s]
  BY <1>1 DEF IInv, Shape, TypeOK, Known
<1>4. claim' \in [Callers -> Claims] /\ \A d \in Callers : claim'[d] = (IF d = c THEN NoClaim ELSE claim[d])
  BY <1>1 DEF IInv, Shape, Claims, NoClaim
<1>5. \A d \in Callers : ~InLock(d)'
  BY <1>1, <1>4 DEF IInv, Locked, InLock, NoClaim
<1>6. \A s \in Rows : lease[s] # "none" => lease'[s] # "none"
  BY <1>3
<1>7. Locked' /\ Underway'
  BY <1>1, <1>5, <1>6 DEF IInv, Locked, Underway, InLock, Shape, TypeOK
<1>8. \A s \in Rows : Pending(s)' => Pending(s)
  BY <1>1, <1>5 DEF Pending, Applying, InLock
<1>9. Known'
  BY <1>1, <1>3, <1>6, <1>8 DEF IInv, Known, Used
<1>10. OneAttempt' /\ Honest'
  BY <1>1, <1>5, <1>8 DEF IInv, OneAttempt, Honest, InLock
<1>11. Shape'
  <2>1. TypeOK'
    BY <1>1, <1>2, <1>3, <1>4, <1>5 DEF IInv, Shape, TypeOK, Claims
  <2> QED BY <1>1, <1>4, <1>5, <2>1 DEF IInv, Shape, Claims, NoClaim
<1> QED BY <1>7, <1>9, <1>10, <1>11 DEF IInv

-----------------------------------------------------------------------------
(* Giving allocations back *)

Releases == [at : {"idle", "mark", "call", "keep", "settle", "write"}, row : 0..MaxRows]

\* An allocation is given back once it has a lease, when no claim is at work on
\* it and its job has started: whichever of the two ways takes the step.
LEMMA GivenBack ==
  ASSUME IInv, NEW r \in Rows, lease[r] # "none",
         \/ row' = row /\ snap' = snap
         \/ row' = [row EXCEPT ![r].state = "release_pending"] /\ snap' = snap
         \/ row' = [row EXCEPT ![r].state = "over"] /\ snap' = Newer({r}) /\ job'[r] = "over",
         job' \in {job, [job EXCEPT ![r] = "over"]},
         lease' \in {lease, [lease EXCEPT ![r] = IF @ = "live" THEN "ended" ELSE @]},
         reclaim' \subseteq reclaim, release' \in Releases,
         release'.at # "idle" => release'.row = r \/ release' = release,
         release'.at \in {"settle", "write"} => job'[release'.row] = "over",
         UNCHANGED <<keyed, issued, answer, claim, crashes>>
  PROVE  IInv'
<1>1. job[r] \in {"live", "over"} /\ Used(r) /\ \A c \in Callers : InLock(c) => claim[c].row # r
  BY DEF IInv, Known, Locked
<1>2. /\ row' \in [Rows -> Allocations] /\ row'[r].key = row[r].key
      /\ row'[r].state \in {row[r].state, "release_pending", "over"}
      /\ row'[r].state = "over" /\ row[r].state # "over" => job'[r] = "over"
      /\ \A s \in Rows \ {r} : row'[s] = row[s]
  <2>1. row \in [Rows -> Allocations]
    BY DEF IInv, Shape, TypeOK, Allocations
  <2>2. ASSUME NEW state \in {"release_pending", "over"}
        PROVE  LET given == [row[r] EXCEPT !.state = state]
               IN  given \in Allocations /\ given.key = row[r].key /\ given.state = state
    BY <2>1 DEF Allocations, Open
  <2> QED BY <2>1, <2>2
<1>3. /\ job' \in [Rows -> {"none", "submitted", "rejected", "live", "over"}]
      /\ job'[r] \in {job[r], "over"} /\ \A s \in Rows \ {r} : job'[s] = job[s]
  BY DEF IInv, Shape, TypeOK
<1>4. /\ lease' \in [Rows -> {"none", "live", "ended"}]
      /\ lease'[r] # "none" /\ \A s \in Rows \ {r} : lease'[s] = lease[s]
  BY DEF IInv, Shape, TypeOK
<1>5. \A s \in Rows : Used(s)' <=> Used(s)
  <2>1. row'[r].state # "none" /\ row[r].state # "none"
    BY <1>1, <1>2 DEF Used
  <2>2. \A s \in Rows : s # r => row'[s].state = row[s].state
    BY <1>2
  <2> QED BY <2>1, <2>2 DEF Used
<1>6. Locked'
  BY <1>1, <1>4, <1>5 DEF IInv, Locked, InLock
<1>7. Shape'
  <2>1. TypeOK'
    BY <1>2, <1>3, <1>4, <1>6 DEF IInv, Shape, TypeOK, Allocations, Claims, Locked, Used, Releases
  <2>2. snap' \in [taken : BOOLEAN, facts : Facts, late : SUBSET Rows, over : SUBSET Rows]
    <3>1. snap \in [taken : BOOLEAN, facts : Facts, late : SUBSET Rows, over : SUBSET Rows]
      BY DEF IInv, Shape, Facts
    <3>2. LET later == [snap EXCEPT !.late = @ \union {r}]
          IN  later \in [taken : BOOLEAN, facts : Facts, late : SUBSET Rows, over : SUBSET Rows]
      BY <3>1
    <3> QED BY <3>1, <3>2 DEF Newer
  <2> QED BY <2>1, <2>2 DEF IInv, Shape, Claims, Facts, Releases
<1>8. \A s \in Rows : Pending(s)' => Pending(s) /\ row'[s].state \in Open
  <2>1. \A s \in Rows : Pending(s)' => Pending(s)
    BY <1>1, <1>3 DEF Pending, Applying
  <2>2. Pending(r)' => row'[r].state # "over"
    BY <1>1, <1>2, <1>3, <2>1 DEF Pending, Applying, IInv, Known, InLock, Open
  <2> QED BY <1>2, <2>1, <2>2 DEF IInv, Known, Open
<1>9. Known'
  <2>1. ASSUME NEW s \in Rows, s # r
        PROVE  row'[s] = row[s] /\ job'[s] = job[s] /\ lease'[s] = lease[s] /\ issued'[s] = issued[s]
    <3>1. s \in Rows \ {r}
      BY <2>1
    <3>2. row'[s] = row[s]
      BY <3>1, <1>2
    <3>3. job'[s] = job[s] /\ lease'[s] = lease[s]
      BY <3>1, <1>3, <1>4
    <3> QED BY <3>2, <3>3
  <2>2. job'[r] \in {"live", "over"} /\ lease'[r] # "none" /\ issued'[r] = 1
    <3>1. issued[r] = 1
      BY DEF IInv, Known
    <3> QED BY <1>1, <1>3, <1>4, <3>1
  <2> QED BY <1>1, <1>5, <1>8, <2>1, <2>2 DEF IInv, Known
<1>10. OneAttempt'
  BY <1>2, <1>8 DEF IInv, OneAttempt
<1>11. Underway'
  <2>1. \A c \in Callers : claim'[c].at \in {"remember", "finish"} =>
          job'[claim'[c].row] \in {"live", "over"}
    BY <1>1, <1>3 DEF IInv, Underway, Locked, InLock
  <2>2. \A c \in Callers : claim'[c].at = "remember" /\ claim'[c].fact # "late" => row'[claim'[c].row].state # "over"
    BY <1>1, <1>2 DEF IInv, Underway, Locked, InLock
  <2>3. \A s \in reclaim' : lease'[s] # "none"
    BY <1>4 DEF IInv, Underway, Shape, TypeOK
  <2>4. release'.at # "idle" => release'.row \in Rows /\ lease'[release'.row] # "none"
    BY <1>4 DEF IInv, Underway
  <2> QED BY <2>1, <2>2, <2>3, <2>4 DEF Underway
<1>12. Honest'
  <2> DEFINE later == [snap EXCEPT !.late = @ \union {r}]
  <2>1. /\ later.taken = snap.taken /\ later.facts = snap.facts /\ later.over = snap.over
        /\ later.late = snap.late \union {r}
    BY DEF IInv, Shape
  <2>2. /\ snap'.taken = snap.taken /\ snap'.facts = snap.facts /\ snap'.over = snap.over
        /\ snap.late \subseteq snap'.late
        /\ snap.taken /\ row'[r].state = "over" /\ row[r].state # "over" => r \in snap'.late
    <3>1. CASE snap' = snap /\ row'[r].state \in {row[r].state, "release_pending"}
      BY <3>1
    <3>2. CASE snap' = Newer({r})
      <4> HIDE DEF later
      <4>1. snap' = IF snap.taken THEN later ELSE snap
        BY <3>2 DEF Newer, later
      <4> QED BY <2>1, <4>1
    <3>3. \/ row' = row
          \/ row' = [row EXCEPT ![r].state = "release_pending"]
          \/ snap' = Newer({r})
      OBVIOUS
    <3>4. row' = [row EXCEPT ![r].state = "release_pending"] => row'[r].state = "release_pending"
      BY DEF IInv, Shape, TypeOK
    <3> QED BY <3>1, <3>2, <3>3, <3>4
  <2> HIDE DEF later
  <2> QED BY <1>1, <1>2, <1>3, <2>2 DEF IInv, Honest
<1> QED BY <1>6, <1>7, <1>9, <1>10, <1>11, <1>12 DEF IInv

LEMMA ReleasingIInv ==
  ASSUME IInv, Releasing
  PROVE  IInv'
<1> USE DEF Releases
<1>1. release \in Releases /\ Shape
  BY DEF IInv, Shape
<1>2. release.at # "idle" => release.row \in Rows /\ lease[release.row] # "none"
  BY DEF IInv, Underway
<1>3. \A at \in {"call", "keep", "settle", "write"} :
        LET next == [release EXCEPT !.at = at] IN next \in Releases /\ next.at = at /\ next.row = release.row
  BY <1>1
<1>4. NoRelease \in Releases /\ NoRelease.at = "idle"
  BY DEF NoRelease
<1> HIDE DEF Releases
<1>5. ASSUME NEW r \in Rows, ReleaseAsked(r)
      PROVE  IInv'
  <2>1. release' \in Releases /\ release'.at = "mark" /\ release'.row = r
    BY <1>5 DEF ReleaseAsked, Releases, Rows
  <2> QED BY <1>5, <2>1, GivenBack DEF ReleaseAsked, rowVars
<1>6. ASSUME NEW r \in Rows, ReclaimCall(r)
      PROVE  IInv'
  <2>1. /\ lease[r] # "none" /\ job' \in {job, [job EXCEPT ![r] = "over"]}
        /\ UNCHANGED <<keyed, issued, answer, claim, release, crashes>> /\ reclaim' \subseteq reclaim
    BY <1>6 DEF ReclaimCall, Cancelled, IInv, Underway
  <2>2. \/ row' = [row EXCEPT ![r].state = "release_pending"] /\ snap' = snap
        \/ row' = [row EXCEPT ![r].state = "over"] /\ snap' = Newer({r}) /\ job'[r] = "over"
    BY <1>6 DEF ReclaimCall, Cancelled
  <2>3. lease' \in {lease, [lease EXCEPT ![r] = IF @ = "live" THEN "ended" ELSE @]}
    BY <1>6 DEF ReclaimCall
  <2>4. release'.at \in {"settle", "write"} => job'[release'.row] = "over"
    BY <1>1, <1>2, <2>1 DEF IInv, Underway, Shape, TypeOK
  <2> QED BY <1>1, <2>1, <2>2, <2>3, <2>4, GivenBack
<1>7. CASE ReleaseMark
  BY <1>2, <1>3, <1>7, GivenBack DEF ReleaseMark
<1>8. CASE ReleaseCall
  <2>1. PICK confirmed \in BOOLEAN :
          /\ Cancelled(release.row, confirmed)
          /\ release' = [release EXCEPT !.at = IF confirmed THEN "settle" ELSE "keep"]
    BY <1>8 DEF ReleaseCall
  <2>2. /\ job' \in {job, [job EXCEPT ![release.row] = "over"]}
        /\ release' \in Releases /\ release'.row = release.row
        /\ release'.at \in {"settle", "write"} => job'[release.row] = "over"
    BY <1>3, <2>1 DEF Cancelled
  <2> QED BY <1>2, <1>8, <2>2, GivenBack DEF ReleaseCall, rowVars
<1>9. CASE ReleaseKept
  BY <1>2, <1>4, <1>9, GivenBack DEF ReleaseKept
<1>10. CASE ReleaseSettle
  <2>1. job'[release.row] = "over"
    BY <1>10 DEF ReleaseSettle, IInv, Underway
  <2> QED BY <1>2, <1>3, <1>10, <2>1, GivenBack DEF ReleaseSettle
<1>11. CASE ReleaseWrite
  BY <1>2, <1>4, <1>11, GivenBack DEF ReleaseWrite
<1> QED BY <1>5, <1>6, <1>7, <1>8, <1>9, <1>10, <1>11 DEF Releasing

\* What the daemon knew is gone; the ledger and the cluster stay.
LEMMA CrashIInv ==
  ASSUME IInv, Crash
  PROVE  IInv'
<1>1. UNCHANGED <<keyed, row, lease, issued, job, answer>> /\ reclaim' = {}
      /\ claim' = [c \in Callers |-> NoClaim] /\ snap' = NoSnap /\ release' = NoRelease
  BY DEF Crash, rowVars
<1>2. \A s \in Rows : Pending(s)' => Pending(s)
  BY <1>1 DEF Pending, Applying, NoClaim
<1>3. Known' /\ OneAttempt'
  BY <1>1, <1>2 DEF IInv, Known, OneAttempt, Used
<1>4. Locked' /\ Underway' /\ Honest'
  BY <1>1 DEF Locked, Underway, Honest, InLock, NoClaim, NoSnap, NoRelease
<1>5. Shape'
  <2>1. TypeOK'
    BY <1>1 DEF IInv, Shape, TypeOK, InLock, NoClaim, NoRelease
  <2>2. NoClaim \in Claims /\ NoRelease \in Releases
        /\ NoSnap \in [taken : BOOLEAN, facts : Facts, late : SUBSET Rows, over : SUBSET Rows]
    BY DEF NoClaim, Claims, NoSnap, Facts, NoRelease, Releases
  <2> QED BY <1>1, <2>1, <2>2 DEF Shape, Claims, Facts, Releases, NoClaim
<1> QED BY <1>3, <1>4, <1>5 DEF IInv

-----------------------------------------------------------------------------
(* The invariant *)

LEMMA NextIInv == IInv /\ [Next]_vars => IInv'
<1> SUFFICES ASSUME IInv, [Next]_vars PROVE IInv'
  OBVIOUS
<1>1. ASSUME NEW c \in Callers, Claiming(c)
      PROVE  IInv'
  <2>1. CASE Ask(c)      BY <2>1, AskIInv
  <2>2. CASE Replay(c)   BY <2>2, LeaveIInv DEF Replay
  <2>3. CASE Retry(c)    BY <2>3, RetryIInv
  <2>4. CASE Others(c) = {} /\ Intend(c)   BY <2>4, IntendIInv
  <2>5. CASE Observe(c)  BY <2>5, ObserveIInv
  <2>6. CASE Apply(c)    BY <2>6, ApplyIInv
  <2>7. CASE Applied(c)  BY <2>7, AppliedIInv
  <2>8. CASE Failed(c)   BY <2>8, FailedIInv
  <2>9. CASE Remember(c) BY <2>9, RememberIInv
  <2>10. CASE Finish(c)  BY <2>10, FinishIInv
  <2> QED BY <1>1, <2>1, <2>2, <2>3, <2>4, <2>5, <2>6, <2>7, <2>8, <2>9, <2>10 DEF Claiming, Prepare
<1>2. CASE UNCHANGED vars
  BY <1>2 DEF vars, IInv, Shape, TypeOK, Claims, Locked, Known, Underway, Honest, OneAttempt, Used, Pending, Applying, InLock
<1> QED BY <1>1, <1>2, ClusterIInv, LookIInv, IngestIInv, ReleasingIInv, CrashIInv DEF Next

LEMMA Invariance == Spec => []IInv
BY InitIInv, NextIInv, PTL DEF Spec

\* Types of the ledger, the cluster and the calls.
THEOREM TypesHold == Spec => []TypeOK
<1>1. IInv => TypeOK
  BY DEF IInv, Shape
<1> QED BY <1>1, Invariance, PTL

\* A job that runs or may start has an allocation that is not over, whichever
\* step was the last and wherever the daemon was killed.
THEOREM NoJobIsForgottenHolds == Spec => []NoJobIsForgotten
<1>1. IInv => NoJobIsForgotten
  BY DEF IInv, Known, Pending, NoJobIsForgotten
<1> QED BY <1>1, Invariance, PTL

\* However often a task is claimed, the cluster runs one job for it at a time
\* and each job has one lease.
THEOREM OneJobPerTaskHolds == Spec => []OneJobPerTask
<1>1. ASSUME IInv
      PROVE  OneJobPerTask
  <2> DEFINE jobs == {r \in Rows : job[r] \in {"submitted", "live"}}
  <2>1. \A r, s \in jobs : r = s
    BY <1>1 DEF IInv, OneAttempt, Pending
  <2>2. Cardinality(jobs) <= 1
    <3>1. CASE jobs = {}
      BY <3>1, FS_EmptySet
    <3>2. CASE jobs # {}
      <4>1. PICK r \in jobs : jobs = {r}
        BY <2>1, <3>2
      <4>2. Cardinality({r}) = 1
        BY FS_Singleton
      <4> QED BY <4>1, <4>2
    <3> QED BY <3>1, <3>2
  <2>3. \A r \in Rows : issued[r] <= 1
    BY <1>1 DEF IInv, Known
  <2> QED BY <2>2, <2>3 DEF OneJobPerTask
<1> QED BY <1>1, Invariance, PTL

\* Which steps end a lease: a reading that says its job is over, and a release
\* the cluster confirmed.
LEMMA LeaseEnds ==
  ASSUME IInv, [Next]_vars, NEW r \in Rows, lease[r] = "live", lease'[r] = "ended"
  PROVE  job'[r] = "over"
<1>1. ASSUME NEW facts \in Facts, NEW late, NEW idle \in SUBSET Rows, Ingested(facts, late, idle),
             facts[r] = "over" => job[r] \in {"over", "rejected"}, job' = job
      PROVE  job'[r] = "over"
  <2>1. facts[r] = "over"
    BY <1>1, IngestedRows DEF IInv
  <2> QED BY <1>1, <2>1 DEF IInv, Known
<1>2. CASE Ingest
  BY <1>1, <1>2 DEF Ingest, IInv, Honest, Shape, Facts
<1>3. ASSUME NEW c \in Callers, Claiming(c)
      PROVE  job'[r] = "over"
  <2>1. CASE Observe(c)
    <3>1. PICK facts \in Readings, idle \in SUBSET Rows : Ingested(facts, {}, idle)
      BY <2>1 DEF Observe, rowVars
    <3>2. facts \in Facts /\ (facts[r] = "over" => job[r] \in {"over", "rejected"})
      BY TrueReading DEF IInv, Shape, TypeOK, Facts
    <3> QED BY <1>1, <2>1, <3>1, <3>2 DEF Observe
  <2>2. CASE Finish(c)
    BY <2>2 DEF Finish, IInv, Shape, TypeOK, Locked, InLock
  <2> QED BY <1>3, <2>1, <2>2 DEF Claiming, Prepare, Ask, Replay, Retry, Intend, Apply, Applied, Failed, Outcomes, Remember, rowVars
<1>4. CASE Releasing
  <2>1. CASE ReleaseWrite
    BY <2>1 DEF ReleaseWrite, IInv, Shape, TypeOK, Underway
  <2>2. ASSUME NEW s \in Rows, ReclaimCall(s)
        PROVE  job'[r] = "over"
    BY <2>2 DEF ReclaimCall, Cancelled, IInv, Shape, TypeOK
  <2> QED BY <1>4, <2>1, <2>2 DEF Releasing, ReleaseAsked, ReleaseMark, ReleaseCall, ReleaseKept, ReleaseSettle, rowVars
<1> QED BY <1>2, <1>3, <1>4 DEF Next, Cluster, JobStarts, JobRejected, JobEnds, Look, Crash, rowVars, vars

\* A lease ends when its job is over and not before.
THEOREM LeaseOutlivesItsJobHolds == Spec => LeaseOutlivesItsJob
<1>1. IInv /\ [Next]_vars =>
        [\A r \in Rows : lease[r] = "live" /\ lease'[r] = "ended" => job'[r] = "over"]_vars
  BY LeaseEnds
<1> QED BY <1>1, Invariance, PTL DEF Spec, LeaseOutlivesItsJob

\* What a step makes of an allocation that is given back: nothing, unless the
\* cluster said that the job is over; and of one that is over: never one in use.
LEMMA Final ==
  ASSUME IInv, [Next]_vars, NEW r \in Rows
  PROVE  /\ row[r].state = "release_pending" /\ row'[r].state # "release_pending" =>
              row'[r].state = "over" /\ job'[r] = "over"
         /\ row[r].state = "over" => row'[r].state # "active"
<1>1. Shape /\ Known
  BY DEF IInv
<1>2. row[r].state = "release_pending" => lease[r] # "none" /\ job[r] \in {"live", "over"}
  BY <1>1 DEF Known
<1>3. ASSUME NEW facts \in Facts, NEW late, NEW idle \in SUBSET Rows, Ingested(facts, late, idle),
             facts[r] = "over" => job[r] \in {"over", "rejected"},
             facts[r] = "active" /\ row[r].state = "over" => r \in late, job' = job
      PROVE  /\ row[r].state = "release_pending" /\ row'[r].state # "release_pending" =>
                  row'[r].state = "over" /\ job'[r] = "over"
             /\ row[r].state = "over" => row'[r].state # "active"
  <2>1. CASE r \in Heard(facts, late)
    <3>1. facts[r] \in {"active", "unknown", "over"} /\ r \notin late
      BY <1>1, <1>3, <2>1, IngestedRows DEF Facts
    <3> QED BY <1>1, <1>2, <1>3, <2>1, <3>1, IngestedRows
  <2>2. CASE r \notin Heard(facts, late)
    BY <1>1, <1>3, <2>2, IngestedRows
  <2> QED BY <2>1, <2>2
<1>4. CASE Ingest
  BY <1>3, <1>4 DEF Ingest, IInv, Honest, Shape, Facts
<1>5. ASSUME NEW c \in Callers, Claiming(c)
      PROVE  /\ row[r].state = "release_pending" /\ row'[r].state # "release_pending" =>
                  row'[r].state = "over" /\ job'[r] = "over"
             /\ row[r].state = "over" => row'[r].state # "active"
  <2>1. CASE Observe(c) /\ row' # row
    <3>1. PICK facts \in Readings, idle \in SUBSET Rows : Ingested(facts, {}, idle)
      BY <2>1 DEF Observe, rowVars
    <3>2. /\ facts \in Facts /\ (facts[r] = "over" => job[r] \in {"over", "rejected"})
          /\ facts[r] = "active" => job[r] = "live"
      BY TrueReading DEF IInv, Shape, TypeOK, Facts
    <3>3. job[r] = "live" => row[r].state # "over"
      BY <1>1 DEF Known, Pending, Open
    <3> QED BY <1>3, <2>1, <3>1, <3>2, <3>3 DEF Observe
  <2>2. CASE Intend(c)
    BY <2>2 DEF Intend, Unused
  <2>3. CASE Failed(c) \/ Remember(c)
    <3>1. row'[r] # row[r] => r = claim[c].row
      BY <2>3 DEF Failed, Outcomes, Remember, IInv, Shape, TypeOK
    <3>2. r = claim[c].row => lease[r] = "none"
      BY <2>3 DEF Failed, Outcomes, Remember, IInv, Locked, InLock
    <3>3. row[r].state = "over" /\ r = claim[c].row => ~(Remember(c) /\ row' # row)
      BY DEF Remember, IInv, Underway
    <3>4. Failed(c) => row'[r].state \in {row[r].state, "over", "unconfirmed"}
      BY DEF Failed, Outcomes, IInv, Shape, TypeOK
    <3> QED BY <1>2, <2>3, <3>1, <3>2, <3>3, <3>4
  <2> QED BY <1>5, <2>1, <2>2, <2>3 DEF Claiming, Prepare, Ask, Replay, Retry, Apply, Applied, Finish, rowVars
<1>6. CASE Releasing
  <2>1. row'[r].state \in {row[r].state, "release_pending", "over"}
    <3>1. ASSUME NEW s \in Rows, row' = [row EXCEPT ![s].state = "over"] \/ row' = [row EXCEPT ![s].state = "release_pending"]
          PROVE  row'[r].state \in {row[r].state, "release_pending", "over"}
      BY <3>1 DEF IInv, Shape, TypeOK
    <3>2. release.at # "idle" => release.row \in Rows
      BY DEF IInv, Underway
    <3>3. CASE row' = row
      BY <3>3
    <3>4. row' # row => \E s \in Rows : \/ row' = [row EXCEPT ![s].state = "over"]
                                       \/ row' = [row EXCEPT ![s].state = "release_pending"]
      <4>1. ASSUME NEW s \in Rows, ReleaseAsked(s) \/ ReclaimCall(s)
            PROVE  \/ row' = row \/ row' = [row EXCEPT ![s].state = "over"]
                   \/ row' = [row EXCEPT ![s].state = "release_pending"]
        BY <4>1 DEF ReleaseAsked, ReclaimCall, rowVars
      <4>2. CASE ReleaseMark \/ ReleaseKept \/ ReleaseSettle
        BY <3>2, <4>2 DEF ReleaseMark, ReleaseKept, ReleaseSettle
      <4>3. CASE ReleaseCall \/ ReleaseWrite
        BY <4>3 DEF ReleaseCall, ReleaseWrite, rowVars
      <4> QED BY <1>6, <4>1, <4>2, <4>3 DEF Releasing
    <3> QED BY <3>1, <3>3, <3>4
  <2>2. row'[r].state = "over" /\ row[r].state # "over" => job'[r] = "over"
    <3>1. ASSUME NEW s \in Rows, ReclaimCall(s)
          PROVE  row'[r].state = "over" /\ row[r].state # "over" => job'[r] = "over"
      <4>1. \/ row' = [row EXCEPT ![s].state = "over"] /\ job'[s] = "over"
            \/ row' = [row EXCEPT ![s].state = "release_pending"]
        BY <3>1 DEF ReclaimCall, Cancelled
      <4>2. row \in [Rows -> Allocations]
        BY DEF IInv, Shape, TypeOK, Allocations
      <4>3. s = r => job'[r] = "over" \/ row'[r].state = "release_pending"
        BY <4>1, <4>2 DEF Allocations
      <4>4. s # r => row'[r] = row[r]
        BY <4>1, <4>2
      <4> QED BY <4>3, <4>4
    <3>2. CASE ReleaseSettle
      BY <3>2 DEF ReleaseSettle, IInv, Underway, Shape, TypeOK
    <3>3. CASE ReleaseMark \/ ReleaseKept
      <4>1. release.row \in Rows /\ row' = [row EXCEPT ![release.row].state = "release_pending"]
        BY <3>3 DEF ReleaseMark, ReleaseKept, IInv, Underway
      <4>2. row \in [Rows -> Allocations]
        BY DEF IInv, Shape, TypeOK, Allocations
      <4>3. row'[r].state \in {row[r].state, "release_pending"}
        BY <4>1, <4>2 DEF Allocations
      <4> QED BY <4>3
    <3>4. ASSUME NEW s \in Rows, ReleaseAsked(s)
          PROVE  row' = row
      BY <3>4 DEF ReleaseAsked, rowVars
    <3>5. ReleaseCall \/ ReleaseWrite => row' = row
      BY DEF ReleaseCall, ReleaseWrite, rowVars
    <3> QED BY <1>6, <3>1, <3>2, <3>3, <3>4, <3>5 DEF Releasing
  <2> QED BY <2>1, <2>2
<1> QED BY <1>4, <1>5, <1>6 DEF Next, Cluster, JobStarts, JobRejected, JobEnds, Look, Crash, rowVars, vars

\* While the job lives a pending release stays pending, and an allocation that
\* is over is never in use again.
THEOREM ReleaseIsNotUndoneHolds == Spec => ReleaseIsNotUndone
<1>1. IInv /\ [Next]_vars =>
        [\A r \in Rows :
           /\ row[r].state = "release_pending" /\ row'[r].state # "release_pending" =>
                row'[r].state = "over" /\ job'[r] = "over"
           /\ row[r].state = "over" => row'[r].state # "active"]_vars
  BY Final
<1> QED BY <1>1, Invariance, PTL DEF Spec, ReleaseIsNotUndone
=============================================================================
