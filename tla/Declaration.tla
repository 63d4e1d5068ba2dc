---------------------------- MODULE Declaration ----------------------------
(***************************************************************************)
(* How an agent holds one task: POST /api/v2/leases "starts, repeats and   *)
(* changes" it (apply_lease and redeclare_task in api.py), and heartbeats  *)
(* tell it what happened to its cards.  A declaration is several           *)
(* transactions with awaits in between: what one step read may be stale    *)
(* when a later one uses it.                                               *)
(*                                                                         *)
(* The callers are the sessions of one project, which share its leases.    *)
(* Around them the collector reclaims idle cards, the App moves and        *)
(* releases, and a session of another project may take the lease.          *)
(***************************************************************************)
EXTENDS FiniteSets, Integers

CONSTANTS
  Calls,      \* declarations that may be in progress at once
  Cards,
  MaxLeases,  \* bound: leases issued for the task
  MaxCount    \* bound: the count a declaration asks for

Ids == 1..MaxLeases
Owners == {"none", "ours", "theirs", "nobody"}
Stages == {"idle", "take_over", "view", "grow", "pick", "shrink", "claim"}
Answers == {"none", "ok", "refused", "internal_error"}

ASSUME DeclarationAssumption ==
  /\ MaxLeases \in Nat /\ MaxCount \in Nat \ {0}
  /\ IsFiniteSet(Cards) /\ IsFiniteSet(Calls)

VARIABLES
  lease,  \* every lease of the task: owner, cards, epoch modulo 2, unseen news
  busy,   \* cards with an active process sighting
  call    \* each declaration: where it is, and what it has read so far

vars == <<lease, busy, call>>

NoLease == [owner |-> "none", live |-> FALSE, cards |-> {}, epoch |-> 0, news |-> FALSE]
NoCall == [at |-> "idle", answer |-> "none", id |-> 0, had |-> 0, want |-> 0,
           change |-> FALSE, chosen |-> {}]

TypeOK ==
  /\ lease \in [Ids -> [owner : Owners, live : BOOLEAN, cards : SUBSET Cards,
                        epoch : 0..1, news : BOOLEAN]]
  /\ busy \subseteq Cards
  /\ call \in [Calls -> [at : Stages, answer : Answers, id : {0} \union Ids,
                         had : Nat, want : 0..MaxCount, change : BOOLEAN,
                         chosen : SUBSET Cards]]
  /\ \A c \in Calls :
       /\ call[c].at = "grow" => call[c].had < call[c].want
       /\ call[c].at \in {"pick", "shrink"} => call[c].want < call[c].had

Count(i) == Cardinality(lease[i].cards)
Free == (Cards \ busy) \ UNION {lease[i].cards : i \in Ids}

\* _can_manage_lease for the sessions of the project.
CanManage(i) == lease[i].owner = "ours"
EditableOnceRead(i) == lease[i].live
Editable(i) == CanManage(i) /\ lease[i].live

\* _find_task_lease: the newest live lease of the task in the project, or
\* one without an owner.
Found == {i \in Ids : /\ lease[i].live /\ lease[i].owner \in {"ours", "nobody"}
                      /\ \A k \in Ids : k > i => ~(lease[k].live /\ lease[k].owner \in {"ours", "nobody"})}

\* The project's live leases with an owner: _held_task.
HeldTasks == {i \in Ids : lease[i].live /\ lease[i].owner = "ours"}

\* The lease after its cards changed to S in a way that is audited as one of
\* LEASE_CHANGE_ACTIONS and raises the epoch.
Changed(i, S) == [lease[i] EXCEPT !.cards = S, !.epoch = 1 - @, !.news = TRUE]

Answered(c, answer) == [call EXCEPT ![c] = [NoCall EXCEPT !.answer = answer]]

-----------------------------------------------------------------------------
(* redeclare_task: the count read by task_holding decides the rest *)

StageFor(n, had, change) ==
  IF n = had THEN "view" ELSE IF ~change THEN "idle" ELSE IF n > had THEN "grow" ELSE "pick"

\* A declaration that knows its count moves to the step that count calls for.
Continued(r) ==
  LET stage == StageFor(r.want, r.had, r.change) IN
  IF stage = "idle" THEN [NoCall EXCEPT !.answer = "refused"] ELSE [r EXCEPT !.at = stage]

\* apply_lease reads who holds the task and how many cards.
Ask(c, n, change, takeOver) ==
  /\ call[c].at = "idle"
  /\ \/ /\ Found = {}
        /\ call' = [call EXCEPT ![c] = [NoCall EXCEPT !.at = "claim", !.want = n]]
     \/ \E i \in Found :
          /\ CanManage(i) \/ takeOver
          /\ LET r == [NoCall EXCEPT !.at = "take_over", !.id = i, !.had = Count(i),
                                     !.want = n, !.change = change]
             IN  call' = [call EXCEPT ![c] = IF CanManage(i) THEN Continued(r) ELSE r]
  /\ UNCHANGED <<lease, busy>>

\* take_over_lease of a lease without an owner.  A second owned lease of the
\* task is refused by the index on (project, task), as an integrity error.
TakeOver(c) ==
  LET i == call[c].id IN
  /\ call[c].at = "take_over"
  /\ \/ /\ lease[i].live /\ lease[i].owner \in {"ours", "nobody"}
        /\ HeldTasks \subseteq {i}
        /\ lease' = [lease EXCEPT ![i].owner = "ours", ![i].news = TRUE]
        /\ call' = [call EXCEPT ![c] = Continued(@)]
     \/ /\ ~lease[i].live \/ lease[i].owner = "theirs"
        /\ call' = Answered(c, "refused") /\ UNCHANGED lease
     \/ /\ lease[i].live /\ lease[i].owner = "nobody" /\ ~(HeldTasks \subseteq {i})
        /\ call' = Answered(c, "internal_error") /\ UNCHANGED lease
  /\ UNCHANGED busy

\* The count is right already: lease_view marks the news as seen, and the
\* answer has no place for it.  An ended lease has no entry to answer with.
View(c) ==
  LET i == call[c].id IN
  /\ call[c].at = "view"
  /\ IF CanManage(i)
     THEN /\ lease' = [lease EXCEPT ![i].news = FALSE]
          /\ call' = Answered(c, IF lease[i].live THEN "ok" ELSE "internal_error")
     ELSE call' = Answered(c, "refused") /\ UNCHANGED lease
  /\ UNCHANGED busy

\* change_cards with add_count: the difference to the count read earlier.
Missing(c) == call[c].want - call[c].had
Grow(c) ==
  LET i == call[c].id
      more == {S \in SUBSET Free : Cardinality(S) = Missing(c)} IN
  /\ call[c].at = "grow"
  /\ IF Editable(i) /\ more # {}
     THEN /\ \E S \in more : lease' = [lease EXCEPT ![i] = Changed(i, @.cards \union S)]
          /\ call' = Answered(c, "ok")
     ELSE call' = Answered(c, "refused") /\ UNCHANGED lease
  /\ UNCHANGED busy

\* idle_card_ids: some of the cards without a process are picked for return.
Pick(c) ==
  LET i == call[c].id
      idle == lease[i].cards \ busy IN
  /\ call[c].at = "pick"
  /\ IF Cardinality(idle) < call[c].had - call[c].want
     THEN call' = Answered(c, "refused")
     ELSE \E S \in SUBSET idle :
            /\ Cardinality(S) = call[c].had - call[c].want
            /\ call' = [call EXCEPT ![c].at = "shrink", ![c].chosen = S]
  /\ UNCHANGED <<lease, busy>>

\* resize_lease refuses cards no longer held or in use, and the last ones.
MayReturn(i, S) == S # {} /\ S \subseteq lease[i].cards \ busy /\ S # lease[i].cards

\* resize_lease for the cards picked before.
Shrink(c) ==
  LET i == call[c].id IN
  /\ call[c].at = "shrink"
  /\ IF Editable(i) /\ MayReturn(i, call[c].chosen)
     THEN /\ lease' = [lease EXCEPT ![i] = Changed(i, @.cards \ call[c].chosen)]
          /\ call' = Answered(c, "ok")
     ELSE call' = Answered(c, "refused") /\ UNCHANGED lease
  /\ UNCHANGED busy

\* What create_request looks up again before it issues a lease.  (HeldUnread
\* and the other definitions placed just before their likeness are plausible
\* slips: the properties below tell each from the code's.)
HeldUnread == {}
HeldNow == HeldTasks

\* claim_request_now: by now another caller may have claimed the task.
Claim(c) ==
  LET n == call[c].want
      fits == {S \in SUBSET Free : Cardinality(S) = n} IN
  /\ call[c].at = "claim"
  /\ \/ \E i \in HeldNow :
          /\ call' = Answered(c, IF Count(i) = n THEN "ok" ELSE "refused")
          /\ UNCHANGED lease
     \/ /\ HeldNow = {} /\ fits = {}
        /\ call' = Answered(c, "refused") /\ UNCHANGED lease
     \/ /\ HeldNow = {}
        /\ \E S \in fits, i \in Ids :
             /\ lease[i].owner = "none" /\ \A k \in Ids : k < i => lease[k].owner # "none"
             /\ lease' = [lease EXCEPT ![i] =
                            [NoLease EXCEPT !.owner = "ours", !.live = TRUE, !.cards = S]]
        /\ call' = Answered(c, "ok")
  /\ UNCHANGED busy

\* gpu_release of some cards, by any session of the project.
Return(i, S) ==
  /\ Editable(i) /\ MayReturn(i, S)
  /\ lease' = [lease EXCEPT ![i] = Changed(i, @.cards \ S)]
  /\ UNCHANGED <<busy, call>>

\* lease_view for a heartbeat: the answer carries the news.
Heartbeat(i) ==
  /\ CanManage(i)
  /\ lease' = [lease EXCEPT ![i].news = FALSE]
  /\ UNCHANGED <<busy, call>>

CallStep(c) ==
  \/ \E n \in 1..MaxCount, change, takeOver \in BOOLEAN : Ask(c, n, change, takeOver)
  \/ TakeOver(c) \/ View(c) \/ Grow(c) \/ Pick(c) \/ Shrink(c) \/ Claim(c)

-----------------------------------------------------------------------------
(* Everyone else *)

\* A process appears on a card, or its last sighting is retired.
Sight(card) ==
  /\ busy' = IF card \in busy THEN busy \ {card} ELSE busy \union {card}
  /\ UNCHANGED <<lease, call>>

\* _reconcile_idle_lease takes idle cards, and ends the lease with the last.
Reclaim(i, S) ==
  /\ lease[i].live /\ S # {} /\ S \subseteq lease[i].cards \ busy
  /\ lease' = [lease EXCEPT ![i] =
                 [Changed(i, @.cards \ S) EXCEPT !.live = S # lease[i].cards]]
  /\ UNCHANGED <<busy, call>>

\* reassign_lease_gpus: as many other cards.  The epoch stays, and the action
\* is audited under a name LEASE_CHANGE_ACTIONS does not list.
Reassign(i, S) ==
  /\ lease[i].live
  /\ Cardinality(S) = Count(i) /\ S # lease[i].cards
  /\ \A k \in Ids \ {i} : lease[k].cards \intersect S = {}
  /\ lease' = [lease EXCEPT ![i].cards = S]
  /\ UNCHANGED <<busy, call>>

\* release_lease by a sibling session or by the App.
Release(i) ==
  /\ lease[i].live
  /\ lease' = [lease EXCEPT ![i].live = FALSE, ![i].cards = {}]
  /\ UNCHANGED <<busy, call>>

\* A session of another project takes the lease by force.
Seize(i) ==
  /\ lease[i].live /\ lease[i].owner # "theirs"
  /\ lease' = [lease EXCEPT ![i].owner = "theirs", ![i].news = TRUE]
  /\ UNCHANGED <<busy, call>>

\* The App or the CLI claims cards for the task: a lease without an owner.
LocalClaim(S) ==
  /\ S # {} /\ S \subseteq Free /\ Cardinality(S) \leq MaxCount
  /\ \E i \in Ids :
       /\ lease[i].owner = "none" /\ \A k \in Ids : k < i => lease[k].owner # "none"
       /\ lease' = [lease EXCEPT ![i] =
                      [NoLease EXCEPT !.owner = "nobody", !.live = TRUE, !.cards = S]]
  /\ UNCHANGED <<busy, call>>

-----------------------------------------------------------------------------
Init ==
  /\ lease = [i \in Ids |-> NoLease]
  /\ busy = {}
  /\ call = [c \in Calls |-> NoCall]

HolderStep == \E i \in Ids : Heartbeat(i) \/ \E S \in SUBSET Cards : Return(i, S)

OthersStep ==
  \/ \E card \in Cards : Sight(card)
  \/ \E i \in Ids, S \in SUBSET Cards : Reclaim(i, S) \/ Reassign(i, S)
  \/ \E i \in Ids : Release(i) \/ Seize(i)
  \/ \E S \in SUBSET Cards : LocalClaim(S)

Next == OthersStep \/ HolderStep \/ \E c \in Calls : CallStep(c)

Spec == Init /\ [][Next]_vars

-----------------------------------------------------------------------------
(* What a holder may rely on *)

\* However many declarations of a task start at once, its project never owns
\* two live leases for it: the answer to "who holds it" may be stale, the
\* claim that follows looks again.
OneLeaseForTask == Cardinality(HeldTasks) \leq 1

\* A lease that was taken by another project is out of reach of every
\* declaration still in progress: none changes its cards or its news.
TakenLeaseOutOfReach ==
  [][HolderStep \/ (\E c \in Calls : CallStep(c)) =>
       \A i \in Ids : lease[i].owner = "theirs" => lease'[i] = lease[i]]_vars

-----------------------------------------------------------------------------
(* What the documentation says and the code does not keep: see the README *)

\* agent_contract.py: repeating a declaration "is always safe".  A lease of the
\* project never has more cards than the largest count anyone asked for.
NeverMoreThanAsked == \A i \in Ids : lease[i].owner = "ours" => Count(i) <= MaxCount

\* models.py: the epoch "rises on every change to the card set, so a holder can
\* tell its selector went stale without comparing cards".
EpochTellsCards ==
  [][\A i \in Ids : lease[i].live /\ lease'[i].live /\ lease'[i].cards # lease[i].cards
       => lease'[i].epoch # lease[i].epoch]_vars

\* service.py: of the actions in LEASE_CHANGE_ACTIONS "a holder is told about on
\* its next heartbeat": nothing but a heartbeat's answer takes news away.
SeenNewsWasTold ==
  [][\A i \in Ids : lease[i].news /\ ~lease'[i].news => Heartbeat(i)]_vars

\* Repeating a declaration "returns your entry": no interleaving makes the
\* answer an internal error.
DeclarationsAreAnswered == \A c \in Calls : call[c].answer # "internal_error"
=============================================================================
