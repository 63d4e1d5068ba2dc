------------------------- MODULE DeclarationProofs -------------------------
(***************************************************************************)
(* Proofs about Declaration, for any calls, cards and bounds.              *)
(*                                                                         *)
(* What a declaration read when it began is no part of the argument: the   *)
(* two steps that make a lease the project's look again, in the same       *)
(* transaction, for another one.                                           *)
(***************************************************************************)
EXTENDS Declaration, FiniteSetTheorems, TLAPS

Leases == [owner : Owners, live : BOOLEAN, cards : SUBSET Cards, epoch : 0..1, news : BOOLEAN]
Records == [at : Stages, answer : Answers, id : {0} \union Ids, had : Nat, want : 0..MaxCount,
            change : BOOLEAN, chosen : SUBSET Cards]

\* A declaration past its first read of a lease is about a lease.
Shape ==
  /\ TypeOK
  /\ \A c \in Calls : call[c].at \notin {"idle", "claim"} => call[c].id \in Ids

\* At most one lease of the task is the project's and live.
OneHeld == \A i, j \in HeldTasks : i = j

IInv == Shape /\ OneHeld

USE DeclarationAssumption

-----------------------------------------------------------------------------
(* Leases and calls one at a time *)

LEMMA NoLeaseNoCall == NoLease \in Leases /\ NoCall \in Records /\ NoCall.at = "idle"
BY DEF NoLease, Leases, Owners, NoCall, Records, Stages, Answers

LEMMA CountOfCards ==
  ASSUME Shape, NEW i \in Ids
  PROVE  Count(i) \in Nat
<1>1. lease[i].cards \subseteq Cards
  BY DEF Shape, TypeOK
<1> QED BY <1>1, FS_Subset, FS_CardinalityType DEF Count

LEMMA NewLease ==
  ASSUME NEW owner \in Owners, NEW S \in SUBSET Cards
  PROVE  LET l == [NoLease EXCEPT !.owner = owner, !.live = TRUE, !.cards = S]
         IN  l \in Leases /\ l.owner = owner
BY NoLeaseNoCall DEF Leases

\* A change of the cards leaves a lease what it was otherwise.
LEMMA ChangedLease ==
  ASSUME Shape, NEW i \in Ids, NEW S \in SUBSET Cards
  PROVE  Changed(i, S) \in Leases /\ Changed(i, S).owner = lease[i].owner /\ Changed(i, S).live = lease[i].live
<1>1. lease[i] \in Leases
  BY DEF Shape, TypeOK, Leases
<1>2. 1 - lease[i].epoch \in 0..1
  BY <1>1 DEF Leases
<1> DEFINE l == [lease[i] EXCEPT !.cards = S, !.epoch = 1 - lease[i].epoch, !.news = TRUE]
<1>3. l \in Leases /\ l.owner = lease[i].owner /\ l.live = lease[i].live
  BY <1>1, <1>2 DEF Leases
<1>4. Changed(i, S) = l
  BY DEF Changed
<1> QED BY <1>3, <1>4

\* What a declaration goes on with is a record of the right kind.
LEMMA ContinuedRecord ==
  ASSUME NEW r \in Records, r.id \in Ids
  PROVE  /\ Continued(r) \in Records
         /\ Continued(r).at \in {"idle", "view", "grow", "pick"}
         /\ Continued(r).at # "idle" => Continued(r).id = r.id
         /\ Continued(r).at = "grow" => Continued(r).had < Continued(r).want
         /\ Continued(r).at = "pick" => Continued(r).want < Continued(r).had
<1> DEFINE stage == StageFor(r.want, r.had, r.change)
           refused == [NoCall EXCEPT !.answer = "refused"]
           next == [r EXCEPT !.at = stage]
<1>1. /\ stage \in {"idle", "view", "grow", "pick"}
      /\ stage = "grow" => r.had < r.want
      /\ stage = "pick" => r.want < r.had
  BY DEF StageFor, Records
<1>2. refused \in Records /\ refused.at = "idle"
  BY NoLeaseNoCall DEF Records, Answers
<1> HIDE DEF stage
<1>3. next \in Records /\ next.at = stage /\ next.id = r.id /\ next.had = r.had /\ next.want = r.want
  BY <1>1 DEF Records, Stages
<1> HIDE DEF refused, next
<1>4. Continued(r) = IF stage = "idle" THEN refused ELSE next
  BY DEF Continued, stage, refused, next
<1> QED BY <1>1, <1>2, <1>3, <1>4

LEMMA AnsweredRecord ==
  ASSUME NEW answer \in Answers
  PROVE  LET r == [NoCall EXCEPT !.answer = answer] IN r \in Records /\ r.at = "idle"
BY NoLeaseNoCall DEF Records

\* One call moves on, and has a record that fits where it is.
LEMMA CallShape ==
  ASSUME Shape, NEW c \in Calls, NEW r \in Records, call' = [call EXCEPT ![c] = r],
         lease' \in [Ids -> Leases], busy' \subseteq Cards,
         r.at = "grow" => r.had < r.want,
         r.at \in {"pick", "shrink"} => r.want < r.had,
         r.at \notin {"idle", "claim"} => r.id \in Ids
  PROVE  Shape'
<1>1. call' \in [Calls -> Records] /\ \A d \in Calls : call'[d] = (IF d = c THEN r ELSE call[d])
  BY DEF Shape, TypeOK, Records
<1> QED BY <1>1 DEF Shape, TypeOK, Records, Leases

-----------------------------------------------------------------------------
(* The invariant *)

\* Steps after which nothing is held that was not held before.
LEMMA HeldNoMore ==
  ASSUME OneHeld, NEW i \in Ids, \A k \in Ids \ {i} : lease'[k] = lease[k],
         lease'[i].live /\ lease'[i].owner = "ours" => lease[i].live /\ lease[i].owner = "ours"
  PROVE  OneHeld'
<1>1. HeldTasks' \subseteq HeldTasks
  BY DEF HeldTasks
<1> QED BY <1>1 DEF OneHeld

LEMMA InitIInv == Init => IInv
BY NoLeaseNoCall DEF Init, IInv, Shape, TypeOK, OneHeld, HeldTasks, NoLease, NoCall, Leases, Records

\* A step that changes one lease, and does not make it the project's.
LEMMA OneLeaseChanges ==
  ASSUME IInv, NEW i \in Ids, NEW l \in Leases, lease' = [lease EXCEPT ![i] = l],
         l.live /\ l.owner = "ours" => lease[i].live /\ lease[i].owner = "ours"
  PROVE  lease' \in [Ids -> Leases] /\ OneHeld'
<1>1. lease \in [Ids -> Leases]
  BY DEF IInv, Shape, TypeOK, Leases
<1>2. lease' \in [Ids -> Leases] /\ lease'[i] = l /\ \A k \in Ids \ {i} : lease'[k] = lease[k]
  BY <1>1
<1> QED BY <1>2, HeldNoMore DEF IInv

\* A step of a declaration that answers, or goes on, without touching a lease.
LEMMA CallOnly ==
  ASSUME IInv, NEW c \in Calls, NEW r \in Records, call' = [call EXCEPT ![c] = r],
         UNCHANGED <<lease, busy>>,
         r.at = "grow" => r.had < r.want,
         r.at \in {"pick", "shrink"} => r.want < r.had,
         r.at \notin {"idle", "claim"} => r.id \in Ids
  PROVE  IInv'
<1>1. lease' \in [Ids -> Leases] /\ busy' \subseteq Cards
  BY DEF IInv, Shape, TypeOK, Leases
<1>2. Shape'
  BY <1>1, CallShape DEF IInv
<1> QED BY <1>2 DEF IInv, OneHeld, HeldTasks

LEMMA AnswerOnly ==
  ASSUME IInv, NEW c \in Calls, NEW answer \in Answers, call' = Answered(c, answer), UNCHANGED <<lease, busy>>
  PROVE  IInv'
BY AnsweredRecord, CallOnly DEF Answered

\* A step of a declaration that changes one lease the project holds.
LEMMA CallAndLease ==
  ASSUME IInv, NEW c \in Calls, NEW r \in Records, call' = [call EXCEPT ![c] = r],
         NEW i \in Ids, NEW l \in Leases, lease' = [lease EXCEPT ![i] = l], UNCHANGED busy,
         OneHeld', lease[i].owner # "theirs",
         r.at = "grow" => r.had < r.want,
         r.at \in {"pick", "shrink"} => r.want < r.had,
         r.at \notin {"idle", "claim"} => r.id \in Ids
  PROVE  IInv' /\ \A k \in Ids : lease[k].owner = "theirs" => lease'[k] = lease[k]
<1>1. lease \in [Ids -> Leases] /\ busy \subseteq Cards
  BY DEF IInv, Shape, TypeOK, Leases
<1>2. lease' \in [Ids -> Leases] /\ \A k \in Ids \ {i} : lease'[k] = lease[k]
  BY <1>1
<1>3. Shape'
  BY <1>1, <1>2, CallShape DEF IInv
<1> QED BY <1>2, <1>3 DEF IInv

LEMMA AskIInv ==
  ASSUME IInv, NEW c \in Calls, NEW n \in 1..MaxCount, NEW change \in BOOLEAN, NEW takeOver \in BOOLEAN,
         Ask(c, n, change, takeOver)
  PROVE  IInv'
<1>0. n \in 0..MaxCount
  OBVIOUS
<1>1. CASE call' = [call EXCEPT ![c] = [NoCall EXCEPT !.at = "claim", !.want = n]]
  <2>1. LET r == [NoCall EXCEPT !.at = "claim", !.want = n] IN r \in Records /\ r.at = "claim"
    BY <1>0, NoLeaseNoCall DEF Records, Stages
  <2> QED BY <1>1, <2>1, CallOnly DEF Ask
<1>2. ASSUME NEW i \in Found,
             call' = [call EXCEPT ![c] =
               LET r == [NoCall EXCEPT !.at = "take_over", !.id = i, !.had = Count(i), !.want = n, !.change = change]
               IN  IF CanManage(i) THEN Continued(r) ELSE r]
      PROVE  IInv'
  <2> DEFINE r == [NoCall EXCEPT !.at = "take_over", !.id = i, !.had = Count(i), !.want = n, !.change = change]
  <2>1. i \in Ids /\ Count(i) \in Nat
    BY CountOfCards DEF Found, IInv
  <2>2. r \in Records /\ r.at = "take_over" /\ r.id = i
    BY <1>0, <2>1, NoLeaseNoCall DEF Records, Stages
  <2> HIDE DEF r
  <2>3. CASE call' = [call EXCEPT ![c] = r]
    BY <2>1, <2>2, <2>3, CallOnly DEF Ask
  <2>4. CASE call' = [call EXCEPT ![c] = Continued(r)]
    BY <2>1, <2>2, <2>4, ContinuedRecord, CallOnly DEF Ask
  <2> QED BY <1>2, <2>3, <2>4 DEF r
<1> QED BY <1>1, <1>2 DEF Ask

LEMMA CallRecord ==
  ASSUME IInv, NEW c \in Calls
  PROVE  /\ call[c] \in Records
         /\ call[c].at \notin {"idle", "claim"} => call[c].id \in Ids /\ lease[call[c].id] \in Leases
BY DEF IInv, Shape, TypeOK, Records, Leases

\* Taking a lease over looks, in its own transaction, for another one of the
\* project.
LEMMA TakeOverIInv ==
  ASSUME IInv, NEW c \in Calls, TakeOver(c)
  PROVE  IInv' /\ \A k \in Ids : lease[k].owner = "theirs" => lease'[k] = lease[k]
<1> DEFINE i == call[c].id
<1>1. i \in Ids /\ lease[i] \in Leases /\ call[c] \in Records
  BY CallRecord DEF TakeOver
<1>2. CASE call' = Answered(c, "refused") /\ UNCHANGED lease
  BY <1>2, AnswerOnly DEF TakeOver, Answers
<1>3. CASE call' = Answered(c, "internal_error") /\ UNCHANGED lease
  BY <1>3, AnswerOnly DEF TakeOver, Answers
<1>4. CASE /\ lease[i].live /\ lease[i].owner \in {"ours", "nobody"} /\ HeldTasks \subseteq {i}
           /\ lease' = [lease EXCEPT ![i].owner = "ours", ![i].news = TRUE]
           /\ call' = [call EXCEPT ![c] = Continued(@)]
  <2> DEFINE l == [lease[i] EXCEPT !.owner = "ours", !.news = TRUE]
  <2>1. l \in Leases /\ lease' = [lease EXCEPT ![i] = l]
    BY <1>1, <1>4 DEF Leases, Owners
  <2>2. OneHeld'
    <3>1. \A k \in Ids : k # i => lease'[k] = lease[k]
      BY <2>1 DEF IInv, Shape, TypeOK
    <3>2. HeldTasks' \subseteq {i}
      BY <1>4, <3>1 DEF HeldTasks
    <3> QED BY <3>2 DEF OneHeld
  <2> HIDE DEF l
  <2>3. call' = [call EXCEPT ![c] = Continued(call[c])]
    BY <1>4
  <2>4. UNCHANGED busy
    BY DEF TakeOver
  <2> DEFINE r == Continued(call[c])
  <2>5. /\ r \in Records
        /\ r.at \in {"idle", "view", "grow", "pick"}
        /\ r.at # "idle" => r.id = i
        /\ r.at = "grow" => r.had < r.want
        /\ r.at = "pick" => r.want < r.had
    BY <1>1, ContinuedRecord
  <2> HIDE DEF r, i
  <2>6. call' = [call EXCEPT ![c] = r] /\ lease[i].owner # "theirs"
    BY <1>4, <2>3 DEF r
  <2>7. r.at \notin {"idle", "claim"} => r.id \in Ids
    BY <1>1, <2>5
  <2>8. r.at \in {"pick", "shrink"} => r.want < r.had
    BY <2>5
  <2> QED BY <1>1, <2>1, <2>2, <2>4, <2>5, <2>6, <2>7, <2>8, CallAndLease
<1> QED BY <1>2, <1>3, <1>4 DEF TakeOver

LEMMA ViewIInv ==
  ASSUME IInv, NEW c \in Calls, View(c)
  PROVE  IInv' /\ \A k \in Ids : lease[k].owner = "theirs" => lease'[k] = lease[k]
<1> DEFINE i == call[c].id
           l == [lease[i] EXCEPT !.news = FALSE]
<1>1. i \in Ids /\ lease[i] \in Leases
  BY CallRecord DEF View
<1>2. l \in Leases /\ l.owner = lease[i].owner /\ l.live = lease[i].live
  BY <1>1 DEF Leases
<1>3. CASE CanManage(i) /\ lease' = [lease EXCEPT ![i].news = FALSE]
  <2>1. PICK answer \in Answers : call' = Answered(c, answer)
    BY <1>3 DEF View, Answers
  <2>2. OneHeld'
    BY <1>1, <1>2, <1>3, OneLeaseChanges
  <2> QED BY <1>1, <1>2, <1>3, <2>1, <2>2, AnsweredRecord, CallAndLease DEF View, Answered, CanManage
<1>4. CASE call' = Answered(c, "refused") /\ UNCHANGED lease
  BY <1>4, AnswerOnly DEF View, Answers
<1> QED BY <1>3, <1>4 DEF View

\* Growing and shrinking change a lease the project holds now.
LEMMA ResizedIInv ==
  ASSUME IInv, NEW c \in Calls, NEW i \in Ids, NEW S \in SUBSET Cards, Editable(i),
         lease' = [lease EXCEPT ![i] = Changed(i, S)], call' = Answered(c, "ok"), UNCHANGED busy
  PROVE  IInv' /\ \A k \in Ids : lease[k].owner = "theirs" => lease'[k] = lease[k]
<1>1. /\ Changed(i, S) \in Leases /\ Changed(i, S).owner = lease[i].owner /\ Changed(i, S).live = lease[i].live
  BY ChangedLease DEF IInv
<1>2. OneHeld'
  BY <1>1, OneLeaseChanges
<1> QED BY <1>1, <1>2, AnsweredRecord, CallAndLease DEF Answered, Answers, Editable, CanManage

LEMMA GrowIInv ==
  ASSUME IInv, NEW c \in Calls, Grow(c)
  PROVE  IInv' /\ \A k \in Ids : lease[k].owner = "theirs" => lease'[k] = lease[k]
<1> DEFINE i == call[c].id
<1>1. i \in Ids /\ lease[i] \in Leases /\ lease[i].cards \subseteq Cards
  BY CallRecord DEF Grow, Leases
<1>2. CASE call' = Answered(c, "refused") /\ UNCHANGED lease
  BY <1>2, AnswerOnly DEF Grow, Answers
<1>3. CASE ~(call' = Answered(c, "refused") /\ UNCHANGED lease)
  <2>1. PICK S \in SUBSET Free : lease' = [lease EXCEPT ![i] = Changed(i, lease[i].cards \union S)]
    BY <1>3 DEF Grow
  <2>2. lease[i].cards \union S \in SUBSET Cards
    BY <1>1 DEF Free
  <2> QED BY <1>1, <1>3, <2>1, <2>2, ResizedIInv DEF Grow
<1> QED BY <1>2, <1>3

LEMMA PickIInv ==
  ASSUME IInv, NEW c \in Calls, Pick(c)
  PROVE  IInv'
<1>1. CASE call' = Answered(c, "refused")
  BY <1>1, AnswerOnly DEF Pick, Answers
<1>2. CASE ~(call' = Answered(c, "refused"))
  <2>1. PICK S \in SUBSET (lease[call[c].id].cards \ busy) :
          call' = [call EXCEPT ![c].at = "shrink", ![c].chosen = S]
    BY <1>2 DEF Pick
  <2> DEFINE r == [call[c] EXCEPT !.at = "shrink", !.chosen = S]
  <2>2. call[c] \in Records /\ call[c].id \in Ids /\ S \subseteq Cards
    BY CallRecord DEF Pick, Leases
  <2>3. r \in Records /\ r.at = "shrink" /\ r.id = call[c].id /\ r.want = call[c].want /\ r.had = call[c].had
    BY <2>2 DEF Records, Stages
  <2>4. call[c].want < call[c].had
    BY DEF Pick, IInv, Shape, TypeOK
  <2>5. call' = [call EXCEPT ![c] = r]
    BY <2>1
  <2> HIDE DEF r
  <2> QED BY <2>2, <2>3, <2>4, <2>5, CallOnly DEF Pick
<1> QED BY <1>1, <1>2

LEMMA ShrinkIInv ==
  ASSUME IInv, NEW c \in Calls, Shrink(c)
  PROVE  IInv' /\ \A k \in Ids : lease[k].owner = "theirs" => lease'[k] = lease[k]
<1> DEFINE i == call[c].id
<1>1. i \in Ids /\ lease[i] \in Leases /\ lease[i].cards \ call[c].chosen \in SUBSET Cards
  BY CallRecord DEF Shrink, Leases
<1>2. CASE call' = Answered(c, "refused") /\ UNCHANGED lease
  BY <1>2, AnswerOnly DEF Shrink, Answers
<1>3. CASE ~(call' = Answered(c, "refused") /\ UNCHANGED lease)
  <2>1. lease' = [lease EXCEPT ![i] = Changed(i, lease[i].cards \ call[c].chosen)]
    BY <1>3 DEF Shrink
  <2> QED BY <1>1, <1>3, <2>1, ResizedIInv DEF Shrink
<1> QED BY <1>2, <1>3

\* A claim that read "nobody holds it" a while ago looks again before it issues.
LEMMA ClaimIInv ==
  ASSUME IInv, NEW c \in Calls, Claim(c)
  PROVE  IInv' /\ \A k \in Ids : lease[k].owner = "theirs" => lease'[k] = lease[k]
<1>1. CASE UNCHANGED lease
  <2>1. PICK answer \in Answers : call' = Answered(c, answer)
    BY <1>1 DEF Claim, Answers
  <2> QED BY <1>1, <2>1, AnswerOnly DEF Claim
<1>2. CASE lease' # lease
  <2>1. HeldTasks = {} /\ call' = Answered(c, "ok") /\ UNCHANGED busy
    BY <1>2 DEF Claim, HeldNow
  <2>2. PICK S \in SUBSET Free, i \in Ids :
          /\ lease[i].owner = "none"
          /\ lease' = [lease EXCEPT ![i] = [NoLease EXCEPT !.owner = "ours", !.live = TRUE, !.cards = S]]
    BY <1>2 DEF Claim
  <2> DEFINE l == [NoLease EXCEPT !.owner = "ours", !.live = TRUE, !.cards = S]
  <2>3. l \in Leases
    BY NewLease DEF Owners, Free
  <2> HIDE DEF l
  <2>4. lease \in [Ids -> Leases] /\ lease' = [lease EXCEPT ![i] = l]
    BY <2>2 DEF IInv, Shape, TypeOK, Leases, l
  <2>5. OneHeld'
    BY <2>1, <2>4 DEF OneHeld, HeldTasks
  <2> DEFINE r == [NoCall EXCEPT !.answer = "ok"]
  <2>6. r \in Records /\ r.at = "idle"
    BY AnsweredRecord DEF Answers
  <2>7. call' = [call EXCEPT ![c] = r]
    BY <2>1 DEF Answered
  <2> HIDE DEF r
  <2>8. /\ lease[i].owner # "theirs" /\ UNCHANGED busy
        /\ r.at = "grow" => r.had < r.want
        /\ r.at \in {"pick", "shrink"} => r.want < r.had
        /\ r.at \notin {"idle", "claim"} => r.id \in Ids
    BY <2>1, <2>2, <2>6
  <2> QED BY <2>3, <2>4, <2>5, <2>6, <2>7, <2>8, CallAndLease
<1> QED BY <1>1, <1>2

LEMMA CallStepIInv ==
  ASSUME IInv, NEW c \in Calls, CallStep(c)
  PROVE  IInv' /\ \A k \in Ids : lease[k].owner = "theirs" => lease'[k] = lease[k]
<1>1. ASSUME NEW n \in 1..MaxCount, NEW change \in BOOLEAN, NEW takeOver \in BOOLEAN, Ask(c, n, change, takeOver)
      PROVE  IInv' /\ \A k \in Ids : lease[k].owner = "theirs" => lease'[k] = lease[k]
  BY <1>1, AskIInv DEF Ask
<1>2. CASE Pick(c)
  BY <1>2, PickIInv DEF Pick
<1> QED BY <1>1, <1>2, TakeOverIInv, ViewIInv, GrowIInv, ShrinkIInv, ClaimIInv DEF CallStep

\* What everyone else does makes no lease the project's.
LEMMA LeaseOnly ==
  ASSUME IInv, NEW i \in Ids, NEW l \in Leases, lease' = [lease EXCEPT ![i] = l], UNCHANGED <<busy, call>>,
         l.live /\ l.owner = "ours" => lease[i].live /\ lease[i].owner = "ours"
  PROVE  IInv'
<1>1. lease' \in [Ids -> Leases] /\ OneHeld'
  BY OneLeaseChanges
<1> QED BY <1>1 DEF IInv, Shape, TypeOK, Leases

LEMMA OthersIInv ==
  ASSUME IInv, OthersStep
  PROVE  IInv'
<1>1. ASSUME NEW i \in Ids
      PROVE  lease[i] \in Leases
  BY DEF IInv, Shape, TypeOK, Leases
<1>2. ASSUME NEW card \in Cards, Sight(card)
      PROVE  IInv'
  BY <1>2 DEF Sight, IInv, Shape, TypeOK, OneHeld, HeldTasks
<1>3. ASSUME NEW i \in Ids, NEW S \in SUBSET Cards, Reclaim(i, S)
      PROVE  IInv'
  <2> DEFINE l == [Changed(i, lease[i].cards \ S) EXCEPT !.live = S # lease[i].cards]
  <2>1. lease[i].cards \ S \in SUBSET Cards
    BY <1>1 DEF Leases
  <2>2. Changed(i, lease[i].cards \ S) \in Leases /\ Changed(i, lease[i].cards \ S).owner = lease[i].owner
    BY <2>1, ChangedLease DEF IInv
  <2>3. l \in Leases /\ l.owner = lease[i].owner
    BY <2>2 DEF Leases
  <2> HIDE DEF l
  <2>4. lease' = [lease EXCEPT ![i] = l] /\ lease[i].live
    BY <1>3 DEF Reclaim, l
  <2> QED BY <1>3, <2>3, <2>4, LeaseOnly DEF Reclaim
<1>4. ASSUME NEW i \in Ids, NEW S \in SUBSET Cards, Reassign(i, S)
      PROVE  IInv'
  <2> DEFINE l == [lease[i] EXCEPT !.cards = S]
  <2>1. l \in Leases /\ l.owner = lease[i].owner /\ l.live = lease[i].live
    BY <1>1 DEF Leases
  <2>2. lease' = [lease EXCEPT ![i] = l]
    BY <1>4 DEF Reassign
  <2> QED BY <1>4, <2>1, <2>2, LeaseOnly DEF Reassign
<1>5. ASSUME NEW i \in Ids, Release(i)
      PROVE  IInv'
  <2> DEFINE l == [lease[i] EXCEPT !.live = FALSE, !.cards = {}]
  <2>1. l \in Leases /\ ~l.live
    BY <1>1 DEF Leases
  <2>2. lease' = [lease EXCEPT ![i] = l]
    BY <1>5 DEF Release
  <2> QED BY <1>5, <2>1, <2>2, LeaseOnly DEF Release
<1>6. ASSUME NEW i \in Ids, Seize(i)
      PROVE  IInv'
  <2> DEFINE l == [lease[i] EXCEPT !.owner = "theirs", !.news = TRUE]
  <2>1. l \in Leases /\ l.owner = "theirs"
    BY <1>1 DEF Leases, Owners
  <2>2. lease' = [lease EXCEPT ![i] = l]
    BY <1>6 DEF Seize
  <2> QED BY <1>6, <2>1, <2>2, LeaseOnly DEF Seize
<1>7. ASSUME NEW S \in SUBSET Cards, LocalClaim(S)
      PROVE  IInv'
  <2> DEFINE l == [NoLease EXCEPT !.owner = "nobody", !.live = TRUE, !.cards = S]
  <2>1. l \in Leases /\ l.owner = "nobody"
    BY NewLease DEF Owners
  <2>2. PICK i \in Ids : lease' = [lease EXCEPT ![i] = l]
    BY <1>7 DEF LocalClaim
  <2> HIDE DEF l
  <2> QED BY <1>7, <2>1, <2>2, LeaseOnly DEF LocalClaim
<1> QED BY <1>2, <1>3, <1>4, <1>5, <1>6, <1>7 DEF OthersStep

LEMMA HolderIInv ==
  ASSUME IInv, HolderStep
  PROVE  IInv' /\ \A k \in Ids : lease[k].owner = "theirs" => lease'[k] = lease[k]
<1>1. \A i \in Ids : lease[i] \in Leases
  BY DEF IInv, Shape, TypeOK, Leases
<1>2. \A i, k \in Ids : \A l :
        lease' = [lease EXCEPT ![i] = l] /\ k # i => lease'[k] = lease[k]
  BY DEF IInv, Shape, TypeOK
<1>3. ASSUME NEW i \in Ids, Heartbeat(i)
      PROVE  IInv' /\ \A k \in Ids : lease[k].owner = "theirs" => lease'[k] = lease[k]
  <2> DEFINE l == [lease[i] EXCEPT !.news = FALSE]
  <2>1. l \in Leases /\ l.owner = lease[i].owner /\ l.live = lease[i].live
    BY <1>1 DEF Leases
  <2>2. lease' = [lease EXCEPT ![i] = l]
    BY <1>3 DEF Heartbeat
  <2> HIDE DEF l
  <2> QED BY <1>2, <1>3, <2>1, <2>2, LeaseOnly DEF Heartbeat, CanManage
<1>4. ASSUME NEW i \in Ids, NEW S \in SUBSET Cards, Return(i, S)
      PROVE  IInv' /\ \A k \in Ids : lease[k].owner = "theirs" => lease'[k] = lease[k]
  <2>1. lease[i].cards \ S \in SUBSET Cards
    BY <1>1 DEF Leases
  <2>2. /\ Changed(i, lease[i].cards \ S) \in Leases /\ Changed(i, lease[i].cards \ S).owner = lease[i].owner
        /\ Changed(i, lease[i].cards \ S).live = lease[i].live
    BY <2>1, ChangedLease DEF IInv
  <2>3. lease' = [lease EXCEPT ![i] = Changed(i, lease[i].cards \ S)]
    BY <1>4 DEF Return
  <2> QED BY <1>2, <1>4, <2>2, <2>3, LeaseOnly DEF Return, Editable, CanManage
<1> QED BY <1>3, <1>4 DEF HolderStep

LEMMA NextIInv == IInv /\ [Next]_vars => IInv'
<1> SUFFICES ASSUME IInv, [Next]_vars PROVE IInv'
  OBVIOUS
<1>1. CASE UNCHANGED vars
  BY <1>1 DEF vars, IInv, Shape, TypeOK, OneHeld, HeldTasks
<1> QED BY <1>1, OthersIInv, HolderIInv, CallStepIInv DEF Next

LEMMA Invariance == Spec => []IInv
BY InitIInv, NextIInv, PTL DEF Spec

-----------------------------------------------------------------------------
(* What a holder may rely on *)

\* Types of leases and declarations, and that a step that grows or shrinks was
\* chosen by the count read before.
THEOREM TypesHold == Spec => []TypeOK
<1>1. IInv => TypeOK
  BY DEF IInv, Shape
<1> QED BY <1>1, Invariance, PTL

\* However many declarations of a task are in progress, its project owns at
\* most one live lease for it.
THEOREM OneLeaseForTaskHolds == Spec => []OneLeaseForTask
<1>1. ASSUME IInv
      PROVE  OneLeaseForTask
  <2>1. CASE HeldTasks = {}
    BY <2>1, FS_EmptySet DEF OneLeaseForTask
  <2>2. CASE HeldTasks # {}
    <3>1. PICK i \in HeldTasks : HeldTasks = {i}
      BY <1>1, <2>2 DEF IInv, OneHeld
    <3>2. Cardinality({i}) = 1
      BY FS_Singleton
    <3> QED BY <3>1, <3>2 DEF OneLeaseForTask
  <2> QED BY <2>1, <2>2
<1> QED BY <1>1, Invariance, PTL

\* No declaration in progress, and no holder, touches a lease another project
\* has taken.
THEOREM TakenLeaseOutOfReachHolds == Spec => TakenLeaseOutOfReach
<1>1. IInv /\ [Next]_vars =>
        [HolderStep \/ (\E c \in Calls : CallStep(c)) =>
           \A i \in Ids : lease[i].owner = "theirs" => lease'[i] = lease[i]]_vars
  BY HolderIInv, CallStepIInv
<1> QED BY <1>1, Invariance, PTL DEF Spec, TakenLeaseOutOfReach
=============================================================================
