---------------------------- MODULE LedgerProofs ----------------------------
(***************************************************************************)
(* Proofs about Ledger, for any number of servers, cards, leases, sessions *)
(* and projects: type correctness, the invariant that ties the state       *)
(* of every lease to the cards it holds, one owned lease per task, the     *)
(* commitments that cover the cards, why cards leave a lease, what may     *)
(* exceed a budget, and that the ledger implements CardOwnership.          *)
(***************************************************************************)
EXTENDS Ledger, FiniteSetTheorems, TLAPS

\* A live lease is a full record, and changing its state to any issued one
\* keeps it a record.
LEMMA LiveIsRecord ==
  ASSUME TypeOK, NEW l \in Leases, lease[l].state # "UNISSUED"
  PROVE  /\ lease[l] \in LeaseRecords
         /\ \A st \in LiveStates \union TerminalStates :
              [lease[l] EXCEPT !.state = st] \in LeaseRecords
<1>1. lease[l] \in LeaseRecords
  BY DEF TypeOK, Unissued
<1> QED BY <1>1 DEF LeaseRecords

LEMMA SettledIsRecord ==
  ASSUME TypeOK, NEW l \in Leases, Live(l), NEW back
  PROVE  Settled(l, back) \in LeaseRecords
BY LiveIsRecord DEF Live, LiveStates, TerminalStates, Settled

\* What a reading does to the leases keeps them records, or unissued.
LEMMA ReconciledType ==
  ASSUME TypeOK, NEW s, NEW b, NEW gone, NEW due
  PROVE  Reconciled(BoundBy(s, b), b, gone, due)
            \in [Leases -> LeaseRecords \union {Unissued}]
<1> DEFINE bound == BoundBy(s, b)
<1>1. ASSUME NEW l \in Leases
      PROVE  bound[l] \in LeaseRecords \union {Unissued}
  BY <1>1, LiveIsRecord DEF BoundBy, LiveStates, TypeOK
<1>2. ASSUME NEW l \in Leases, bound[l].state \in {"HELD", "ACTIVE"},
             NEW st \in LiveStates \union TerminalStates
      PROVE  [bound[l] EXCEPT !.state = st] \in LeaseRecords
  <2>1. bound[l] \in LeaseRecords
    BY <1>1, <1>2 DEF Unissued
  <2> QED BY <2>1 DEF LeaseRecords
<1>3. ASSUME NEW l \in Leases
      PROVE  Reconciled(bound, b, gone, due)[l] \in LeaseRecords \union {Unissued}
  BY <1>1, <1>2, <1>3 DEF Reconciled, Expired, LiveStates, TerminalStates
<1> QED BY <1>3 DEF Reconciled

LEMMA PlacementsAreCards ==
  ASSUME NEW n, NEW h, NEW sameHost, NEW S \in Placements(n, h, sameHost)
  PROVE  /\ S \subseteq Cards /\ S # {}
         /\ \A c \in S : Available(c, h)
BY DEF Placements

LEMMA HostsAreServers ==
  ASSUME LedgerAssumption, NEW S \in SUBSET Cards
  PROVE  Hosts(S) \in SUBSET Servers
BY DEF LedgerAssumption, Hosts

-----------------------------------------------------------------------------
(* Type correctness *)

LEMMA TypeInit == LedgerAssumption /\ Init => TypeOK
BY DEF Init, TypeOK, Links, Unissued

LEMMA TypeClaim ==
  ASSUME LedgerAssumption, TypeOK,
         NEW a \in Actors, NEW l \in Leases, NEW p \in Projects, NEW t \in Tasks,
         NEW n \in Nat, Claim(a, l, p, t, n)
  PROVE  TypeOK'
<1> DEFINE r == [state |-> "HELD", project |-> p, task |-> t,
                 owner |-> IF a \in Sessions THEN a ELSE None,
                 label |-> LabelOf[a], timed |-> a \notin Sessions]
<1>1. r \in LeaseRecords
  BY DEF LeaseRecords, LiveStates, Labels
<1>2. lease' \in [Leases -> LeaseRecords \union {Unissued}]
  BY <1>1 DEF Claim, TypeOK
<1>3. PICK S \in Placements(n, held, a \in Sessions) :
        /\ held' = [held EXCEPT ![l] = S]
        /\ commit' = [commit EXCEPT ![l] = Hosts(S)]
  BY DEF Claim
<1>4. S \in SUBSET Cards /\ Hosts(S) \in SUBSET Servers
  BY PlacementsAreCards, HostsAreServers
<1>5. held' \in [Leases -> SUBSET Cards] /\ commit' \in [Leases -> SUBSET Servers]
  BY <1>3, <1>4 DEF TypeOK
<1> QED BY <1>2, <1>5 DEF Claim, TypeOK, serverVars

LEMMA TypeResize ==
  ASSUME LedgerAssumption, TypeOK,
         NEW a \in Actors, NEW l \in Leases, NEW back, NEW n \in Nat,
         Resize(a, l, back, n)
  PROVE  TypeOK'
<1> DEFINE kept == [held EXCEPT ![l] = @ \ back]
<1>1. PICK S \in IF n = 0 THEN {{}} ELSE Placements(n, kept, TRUE) :
        /\ held' = [held EXCEPT ![l] = (@ \ back) \union S]
        /\ commit' = [commit EXCEPT ![l] = Hosts((held[l] \ back) \union S)]
  BY DEF Resize, SyncedCommitments
<1>2. S \in SUBSET Cards
  BY PlacementsAreCards
<1>3. Hosts((held[l] \ back) \union S) \in SUBSET Servers
  BY <1>2, HostsAreServers DEF TypeOK
<1> QED BY <1>1, <1>2, <1>3 DEF Resize, TypeOK, serverVars

LEMMA TypeIngest ==
  ASSUME LedgerAssumption, TypeOK,
         NEW s \in Servers, NEW complete \in BOOLEAN, NEW seen, NEW procs, NEW lost,
         NEW gone, NEW due, Ingest(s, complete, seen, procs, lost, gone, due)
  PROVE  TypeOK'
<1>1. lease' \in [Leases -> LeaseRecords \union {Unissued}]
  BY ReconciledType DEF Ingest
<1>2. held' \in [Leases -> SUBSET Cards]
  BY DEF Ingest, TypeOK
<1>3. seen \subseteq Cards
  BY DEF Ingest, CardsOf
<1>4. known' \subseteq Cards /\ visible' \subseteq known' /\ busy' \subseteq known'
  BY <1>3 DEF Ingest, TypeOK
<1> QED BY <1>1, <1>2, <1>4 DEF Ingest, TypeOK, Links

\* Every step keeps the state well typed.
LEMMA TypeStep == LedgerAssumption /\ TypeOK /\ [Next]_vars => TypeOK'
<1> SUFFICES ASSUME LedgerAssumption, TypeOK, [Next]_vars PROVE TypeOK'
  OBVIOUS
<1>1. ASSUME NEW a \in Actors, NEW l \in Leases, NEW p \in Projects, NEW t \in Tasks,
             NEW n \in 1..Cardinality(Cards), Claim(a, l, p, t, n)
      PROVE  TypeOK'
  BY <1>1, TypeClaim
<1>2. ASSUME NEW a \in Actors, NEW l \in Leases, Release(a, l) PROVE TypeOK'
  <2>1. [lease[l] EXCEPT !.state = "RELEASED"] \in LeaseRecords
    BY <1>2, LiveIsRecord DEF Release, Live, LiveStates, TerminalStates
  <2> QED BY <1>2, <2>1 DEF Release, TypeOK, serverVars
<1>3. ASSUME NEW a \in Actors, NEW l \in Leases, NEW back, NEW n \in Nat, Resize(a, l, back, n)
      PROVE  TypeOK'
  BY <1>3, TypeResize
<1>4. ASSUME NEW a \in Sessions, NEW l \in Leases, NEW force \in BOOLEAN, TakeOver(a, l, force)
      PROVE  TypeOK'
  <2>1. lease[l] \in LeaseRecords
    BY <1>4, LiveIsRecord DEF TakeOver, Live, LiveStates
  <2>2. lease'[l] \in LeaseRecords
    BY <1>4, <2>1 DEF TakeOver, LeaseRecords, LedgerAssumption, Labels, Actors, TypeOK
  <2> QED BY <1>4, <2>2 DEF TakeOver, TypeOK, serverVars
<1>5. ASSUME NEW a \in Actors, NEW l \in Leases, NEW S \in SUBSET Cards, Reassign(a, l, S)
      PROVE  TypeOK'
  BY <1>5, HostsAreServers DEF Reassign, IsTarget, TypeOK, serverVars
<1>6. ASSUME NEW a \in Actors, NEW l \in Leases, Bind(a, l) PROVE TypeOK'
  <2>1. [lease[l] EXCEPT !.state = "ACTIVE"] \in LeaseRecords
    BY <1>6, LiveIsRecord DEF Bind, Bindable, LiveStates
  <2> QED BY <1>6, <2>1 DEF Bind, Bindable, TypeOK, serverVars
<1>7. ASSUME NEW l \in Leases, NEW s \in Servers, ReleaseEmpty(l, s) PROVE TypeOK'
  <2>1. Settled(l, held[l] \intersect CardsOf(s)) \in LeaseRecords
    BY <1>7, SettledIsRecord DEF ReleaseEmpty
  <2> QED BY <1>7, <2>1 DEF ReleaseEmpty, TypeOK, serverVars
<1>8. ASSUME NEW s \in Servers, AddServer(s) PROVE TypeOK'
  BY <1>8 DEF AddServer, TypeOK, leaseVars, Links
<1>9. ASSUME NEW s \in Servers, DeleteServer(s) PROVE TypeOK'
  <2>1. \A l \in Leases : Live(l) =>
          Settled(l, held[l] \intersect CardsOf(s)) \in LeaseRecords
    BY SettledIsRecord
  <2> QED BY <1>9, <2>1 DEF DeleteServer, Purged, TypeOK, Links
<1>10. ASSUME NEW s \in Servers, NEW complete \in BOOLEAN, NEW seen, NEW procs, NEW lost,
              NEW gone, NEW due, Ingest(s, complete, seen, procs, lost, gone, due)
       PROVE  TypeOK'
  BY <1>10, TypeIngest
<1>11. ASSUME NEW s \in Servers, Fail(s) PROVE TypeOK'
  BY <1>11 DEF Fail, TypeOK, leaseVars, Links
<1>12. ASSUME NEW s \in Servers, Age(s) PROVE TypeOK'
  BY <1>12 DEF Age, TypeOK, leaseVars
<1>13. CASE UNCHANGED vars
  BY <1>13 DEF vars, serverVars, leaseVars, TypeOK
<1>14. Cardinality(Cards) \in Nat
  BY FS_CardinalityType DEF LedgerAssumption
<1> QED
  <2>1. CASE CallerStep
    BY <2>1, <1>1, <1>2, <1>3, <1>4, <1>5, <1>6, <1>7, <1>8, <1>9, <1>14 DEF CallerStep
  <2>2. CASE CollectorStep
    BY <2>2, <1>10, <1>11, <1>12 DEF CollectorStep
  <2> QED BY <2>1, <2>2, <1>13 DEF Next

\* Every reachable state is well typed: a live lease is a full record of a
\* known project and label, and only rows that exist carry telemetry.
THEOREM TypeCorrect == Spec => []TypeOK
<1>1. Init => TypeOK
  BY LedgerAssumption, TypeInit
<1>2. TypeOK /\ [Next]_vars => TypeOK'
  BY LedgerAssumption, TypeStep
<1> QED BY <1>1, <1>2, PTL DEF Spec

-----------------------------------------------------------------------------
(* Cards and states *)

\* What the safety properties rest on.  LeasedCardsExist needs the rows of an
\* unregistered server to be gone; LiveHoldsCards is needed for the exchange
\* of cards, where as many as before must be at least one.
RowsRegistered == \A c \in known : Registered(HostOf[c])
LedgerInv ==
  /\ TypeOK
  /\ ExclusiveCards
  /\ LiveHoldsCards
  /\ RowsRegistered
  /\ LeasedCardsExist

\* Lease l changes its cards, and those it gains were held by nobody.
Takes(l) ==
  /\ \A k \in Leases \ {l} : held'[k] = held[k] /\ lease'[k] = lease[k]
  /\ held'[l] # {} /\ lease'[l].state \in LiveStates
  /\ lease[l].state \in LiveStates \union {"UNISSUED"}
  /\ held'[l] \subseteq known
  /\ \A c \in held'[l] \ held[l] : \A k \in Leases \ {l} : c \notin held[k]

\* Leases only lose cards, and end exactly with the last one.
GivesBack ==
  \A k \in Leases :
    /\ held'[k] \subseteq held[k]
    /\ lease'[k].state \in LiveStates => lease[k].state \in LiveStates
    /\ held[k] # {} /\ held'[k] # {} => lease'[k].state \in LiveStates
    /\ held[k] # {} /\ held'[k] = {} => lease'[k].state \in TerminalStates
    /\ held[k] = {} => lease'[k] = lease[k]

LEMMA ClaimTakes ==
  ASSUME LedgerInv, NEW a \in Actors, NEW l \in Leases, NEW p, NEW t, NEW n,
         Claim(a, l, p, t, n)
  PROVE  Takes(l)
<1>1. PICK S \in Placements(n, held, a \in Sessions) : held' = [held EXCEPT ![l] = S]
  BY DEF Claim
<1>2. S \subseteq known /\ S # {} /\ \A c \in S : \A k \in Leases : c \notin held[k]
  BY PlacementsAreCards DEF Available, Unheld, LedgerInv, TypeOK
<1>3. held'[l] = S /\ \A k \in Leases \ {l} : held'[k] = held[k]
  BY <1>1 DEF LedgerInv, TypeOK
<1>4. lease'[l].state = "HELD" /\ \A k \in Leases \ {l} : lease'[k] = lease[k]
  BY DEF Claim, LedgerInv, TypeOK
<1> QED BY <1>2, <1>3, <1>4 DEF Takes, Claim, LiveStates

LEMMA ResizeTakes ==
  ASSUME LedgerInv, NEW a \in Actors, NEW l \in Leases, NEW back, NEW n \in Nat,
         Resize(a, l, back, n)
  PROVE  Takes(l)
<1> DEFINE kept == [held EXCEPT ![l] = @ \ back]
<1>1. PICK S \in IF n = 0 THEN {{}} ELSE Placements(n, kept, TRUE) :
        held' = [held EXCEPT ![l] = (@ \ back) \union S]
  BY DEF Resize
<1>2. CASE n = 0
  BY <1>1, <1>2 DEF Resize, Takes, LedgerInv, TypeOK, LeasedCardsExist, Live
<1>3. CASE n # 0
  <2>1. S \subseteq known /\ S # {} /\ \A c \in S : \A k \in Leases : c \notin kept[k]
    BY <1>1, <1>3, PlacementsAreCards DEF Available, Unheld, LedgerInv, TypeOK
  <2>2. held'[l] = (held[l] \ back) \union S
    BY <1>1 DEF LedgerInv, TypeOK
  <2>3. \A k \in Leases \ {l} : held'[k] = held[k] /\ kept[k] = held[k]
    BY <1>1 DEF LedgerInv, TypeOK
  <2> QED BY <2>1, <2>2, <2>3 DEF Resize, Takes, LedgerInv, LeasedCardsExist, Live
<1> QED BY <1>2, <1>3

LEMMA ReassignTakes ==
  ASSUME LedgerAssumption, LedgerInv, NEW a \in Actors, NEW l \in Leases,
         NEW S \in SUBSET Cards, Reassign(a, l, S)
  PROVE  Takes(l)
<1>1. held[l] # {} /\ held[l] \in SUBSET Cards
  BY DEF Reassign, IsTarget, LedgerInv, LiveHoldsCards, TypeOK
<1>2. S # {}
  <2>1. IsFiniteSet(held[l])
    BY <1>1, FS_Subset DEF LedgerAssumption
  <2>2. Cardinality(held[l]) # 0
    BY <1>1, <2>1, FS_EmptySet
  <2>3. Cardinality({}) = 0
    BY FS_EmptySet
  <2> QED BY <2>2, <2>3 DEF Reassign, IsTarget
<1>3. held'[l] = S /\ \A k \in Leases \ {l} : held'[k] = held[k]
  BY DEF Reassign, IsTarget, LedgerInv, TypeOK
<1> QED BY <1>2, <1>3 DEF Reassign, IsTarget, Takes, Live

LEMMA ReleaseGivesBack ==
  ASSUME LedgerInv, NEW a \in Actors, NEW l \in Leases, Release(a, l)
  PROVE  GivesBack
<1>1. held[l] # {} /\ lease[l] \in LeaseRecords
  BY LiveIsRecord DEF Release, LedgerInv, LiveHoldsCards, Live, LiveStates
<1>2. held' = [held EXCEPT ![l] = {}] /\ lease' = [lease EXCEPT ![l].state = "RELEASED"]
  BY DEF Release
<1>3. lease'[l].state = "RELEASED"
  BY <1>1, <1>2 DEF LedgerInv, TypeOK, LeaseRecords
<1> QED BY <1>1, <1>2, <1>3
  DEF GivesBack, LedgerInv, TypeOK, LiveHoldsCards, Live, LiveStates, TerminalStates

LEMMA TakeOverGivesBack ==
  ASSUME LedgerInv, NEW a \in Sessions, NEW l \in Leases, NEW force, TakeOver(a, l, force)
  PROVE  GivesBack
<1>1. held[l] # {} /\ lease[l] \in LeaseRecords
  BY LiveIsRecord DEF TakeOver, LedgerInv, LiveHoldsCards, Live, LiveStates
<1>2. held' = held /\ lease'[l].state = lease[l].state
  BY <1>1 DEF TakeOver, LedgerInv, TypeOK, LeaseRecords
<1>3. \A k \in Leases \ {l} : lease'[k] = lease[k]
  BY DEF TakeOver, LedgerInv, TypeOK
<1> QED BY <1>1, <1>2, <1>3 DEF GivesBack, LedgerInv, LiveHoldsCards, Live

LEMMA BindGivesBack ==
  ASSUME LedgerInv, NEW a \in Actors, NEW l \in Leases, Bind(a, l)
  PROVE  GivesBack
<1>1. held[l] # {} /\ lease[l] \in LeaseRecords /\ Live(l)
  BY LiveIsRecord DEF Bind, Bindable, Live, LiveStates, LedgerInv
<1>2. held' = held /\ lease'[l].state = "ACTIVE"
  BY <1>1 DEF Bind, Bindable, LedgerInv, TypeOK, LeaseRecords
<1>3. \A k \in Leases \ {l} : lease'[k] = lease[k]
  BY DEF Bind, Bindable, LedgerInv, TypeOK
<1> QED BY <1>1, <1>2, <1>3 DEF GivesBack, LedgerInv, LiveHoldsCards, Live, LiveStates

LEMMA SettledState ==
  ASSUME TypeOK, NEW l \in Leases, Live(l), NEW back
  PROVE  Settled(l, back).state = IF back # {} /\ back = held[l] THEN "RELEASED" ELSE lease[l].state
BY LiveIsRecord DEF Settled, LeaseRecords, Live, LiveStates

LEMMA ReleaseEmptyGivesBack ==
  ASSUME LedgerInv, NEW l \in Leases, NEW s \in Servers, ReleaseEmpty(l, s)
  PROVE  GivesBack
<1> DEFINE back == held[l] \intersect CardsOf(s)
<1>1. Live(l) /\ back # {} /\ held[l] # {}
  BY DEF ReleaseEmpty
<1>2. held'[l] = held[l] \ back /\ lease'[l] = Settled(l, back)
  BY DEF ReleaseEmpty, LedgerInv, TypeOK
<1>3. lease'[l].state = IF back = held[l] THEN "RELEASED" ELSE lease[l].state
  BY <1>1, <1>2, SettledState DEF LedgerInv
<1>4. \A k \in Leases \ {l} : held'[k] = held[k] /\ lease'[k] = lease[k]
  BY DEF ReleaseEmpty, LedgerInv, TypeOK
<1>5. back = held[l] <=> held'[l] = {}
  BY <1>2
<1> QED BY <1>1, <1>2, <1>3, <1>4, <1>5
  DEF GivesBack, LedgerInv, LiveHoldsCards, Live, LiveStates, TerminalStates

\* A server that answers is deleted only when no live lease is there, so its
\* purge takes nothing from anyone.
LEMMA DeleteServerGivesBack ==
  ASSUME LedgerInv, NEW s \in Servers, DeleteServer(s)
  PROVE  GivesBack
<1> SUFFICES ASSUME NEW k \in Leases
             PROVE  /\ held'[k] \subseteq held[k]
                    /\ lease'[k].state \in LiveStates => lease[k].state \in LiveStates
                    /\ held[k] # {} /\ held'[k] # {} => lease'[k].state \in LiveStates
                    /\ held[k] # {} /\ held'[k] = {} => lease'[k].state \in TerminalStates
                    /\ held[k] = {} => lease'[k] = lease[k]
  BY DEF GivesBack
<1> DEFINE back == held[k] \intersect CardsOf(s)
<1>1. held'[k] = held[k] \ CardsOf(s)
  BY DEF DeleteServer, Purged
<1>2. lease'[k] = IF Live(k) /\ Unreachable(s) THEN Settled(k, back) ELSE lease[k]
  BY DEF DeleteServer
<1>3. Live(k) <=> held[k] # {}
  BY DEF LedgerInv, LiveHoldsCards
<1>4. CASE ~Live(k)
  BY <1>1, <1>2, <1>3, <1>4 DEF Live
<1>5. CASE Live(k) /\ Unreachable(s)
  <2>1. lease'[k].state = IF back # {} /\ back = held[k] THEN "RELEASED" ELSE lease[k].state
    BY <1>2, <1>5, SettledState DEF LedgerInv
  <2>2. back = held[k] <=> held'[k] = {}
    BY <1>1
  <2> QED BY <1>1, <1>3, <1>5, <2>1, <2>2 DEF Live, LiveStates, TerminalStates
<1>6. CASE Live(k) /\ ~Unreachable(s)
  <2>1. back = {}
    BY <1>6 DEF DeleteServer, HasActiveLeases
  <2> QED BY <1>1, <1>2, <1>3, <1>6, <2>1 DEF Live
<1> QED BY <1>4, <1>5, <1>6

LEMMA IngestGivesBack ==
  ASSUME LedgerInv, NEW s \in Servers, NEW complete \in BOOLEAN, NEW seen, NEW procs,
         NEW lost, NEW gone, NEW due, Ingest(s, complete, seen, procs, lost, gone, due)
  PROVE  GivesBack
<1> SUFFICES ASSUME NEW k \in Leases
             PROVE  /\ held'[k] \subseteq held[k]
                    /\ lease'[k].state \in LiveStates => lease[k].state \in LiveStates
                    /\ held[k] # {} /\ held'[k] # {} => lease'[k].state \in LiveStates
                    /\ held[k] # {} /\ held'[k] = {} => lease'[k].state \in TerminalStates
                    /\ held[k] = {} => lease'[k] = lease[k]
  BY DEF GivesBack
<1> DEFINE b == (busy \union procs) \ lost
           bound == BoundBy(s, b)
           r == Reconciled(bound, b, gone, due)
<1>1. lease' = r
  BY DEF Ingest
<1>2. held'[k] = IF lease[k].state \notin {"HELD", "ACTIVE"} THEN held[k]
                 ELSE IF r[k].state = "EXPIRED_EMPTY" THEN {} ELSE held[k] \ gone
  BY DEF Ingest
<1>3. Live(k) <=> held[k] # {}
  BY DEF LedgerInv, LiveHoldsCards
<1>4. CASE lease[k].state \notin {"HELD", "ACTIVE"}
  <2>1. bound[k] = lease[k] /\ r[k] = lease[k]
    BY <1>4 DEF BoundBy, Reconciled
  <2> QED BY <1>1, <1>2, <1>3, <1>4, <2>1 DEF Live
<1>5. CASE lease[k].state \in {"HELD", "ACTIVE"}
  <2>1. lease[k] \in LeaseRecords /\ Live(k)
    BY <1>5, LiveIsRecord DEF LedgerInv, Live, LiveStates
  <2>2. bound[k] \in LeaseRecords /\ bound[k].state \in {"HELD", "ACTIVE"}
    BY <1>5, <2>1 DEF BoundBy, LeaseRecords, LiveStates
  <2>3. r[k].state = IF held[k] # {} /\ held[k] \subseteq gone THEN "EXPIRED_EMPTY"
                     ELSE IF k \notin due THEN bound[k].state ELSE Expired(k, b)
    BY <2>2 DEF Reconciled, LeaseRecords
  <2>4. r[k].state \in {"HELD", "ACTIVE", "ORPHANED_BUSY", "EXPIRED_EMPTY"}
    BY <2>2, <2>3 DEF Expired
  <2>5. r[k].state # "EXPIRED_EMPTY" => held[k] \ gone # {}
    BY <1>3, <2>1, <2>3
  <2> QED BY <1>1, <1>2, <1>3, <1>5, <2>1, <2>4, <2>5 DEF Live, LiveStates, TerminalStates
<1> QED BY <1>4, <1>5

\* Every operation either gives one lease cards nobody held or gives cards back.
LEMMA EveryStepMovesCards ==
  ASSUME LedgerAssumption, LedgerInv, [Next]_vars
  PROVE  GivesBack \/ \E l \in Leases : Takes(l)
<1>1. ASSUME lease' = lease, held' = held PROVE GivesBack
  BY <1>1 DEF GivesBack, LedgerInv, LiveHoldsCards, Live
<1>2. CASE CallerStep
  <2>1. Cardinality(Cards) \in Nat
    BY FS_CardinalityType DEF LedgerAssumption
  <2>2. ASSUME NEW s \in Servers, AddServer(s) PROVE GivesBack
    BY <1>1, <2>2 DEF AddServer, leaseVars
  <2> QED
    BY <1>2, <2>1, <2>2, ClaimTakes, ReleaseGivesBack, ResizeTakes, TakeOverGivesBack,
       ReassignTakes, BindGivesBack, ReleaseEmptyGivesBack, DeleteServerGivesBack
       DEF CallerStep
<1>3. CASE CollectorStep
  <2>1. ASSUME NEW s \in Servers, Fail(s) \/ Age(s) PROVE GivesBack
    BY <1>1, <2>1 DEF Fail, Age, leaseVars
  <2> QED BY <1>3, <2>1, IngestGivesBack DEF CollectorStep
<1>4. CASE UNCHANGED vars
  BY <1>1, <1>4 DEF vars, leaseVars
<1> QED BY <1>2, <1>3, <1>4 DEF Next

\* The three ways a step may touch the rows: none is lost, or one server is
\* purged of its own, or one server's reading adds some.
LEMMA EveryStepKeepsRows ==
  ASSUME LedgerAssumption, LedgerInv, [Next]_vars
  PROVE  /\ RowsRegistered'
         /\ \A k \in Leases : \A c \in held[k] : c \in known' \/ c \notin held'[k]
         /\ ~GivesBack => known' = known
<1>1. ASSUME known' = known, \A s \in Servers : Registered(s) => Registered(s)'
      PROVE  /\ RowsRegistered'
             /\ \A k \in Leases : \A c \in held[k] : c \in known' \/ c \notin held'[k]
             /\ ~GivesBack => known' = known
  BY <1>1 DEF LedgerInv, RowsRegistered, LeasedCardsExist, LedgerAssumption, TypeOK
<1>2. ASSUME UNCHANGED serverVars
      PROVE  known' = known /\ \A s \in Servers : Registered(s) => Registered(s)'
  BY <1>2 DEF serverVars, Registered
<1>3. ASSUME NEW s \in Servers, AddServer(s) \/ Fail(s) \/ Age(s)
      PROVE  known' = known /\ \A k \in Servers : Registered(k) => Registered(k)'
  BY <1>3 DEF AddServer, Fail, Age, Registered, LedgerInv, TypeOK
<1>4. ASSUME NEW s \in Servers, DeleteServer(s)
      PROVE  /\ RowsRegistered'
             /\ \A k \in Leases : \A c \in held[k] : c \in known' \/ c \notin held'[k]
             /\ ~GivesBack => known' = known
  <2>1. known' = known \ CardsOf(s) /\ \A k \in Leases : held'[k] = held[k] \ CardsOf(s)
    BY <1>4 DEF DeleteServer, Purged
  <2>2. \A c \in known' : HostOf[c] \in Servers /\ HostOf[c] # s
    BY <2>1 DEF CardsOf, LedgerAssumption, LedgerInv, TypeOK
  <2>3. \A k \in Servers \ {s} : link'[k] = link[k]
    BY <1>4 DEF DeleteServer, LedgerInv, TypeOK
  <2>4. RowsRegistered'
    BY <2>1, <2>2, <2>3 DEF RowsRegistered, Registered, LedgerInv
  <2>5. \A k \in Leases : held[k] \subseteq known
    BY DEF LedgerInv, LeasedCardsExist
  <2> QED BY <1>4, <2>1, <2>4, <2>5, DeleteServerGivesBack
<1>5. ASSUME NEW s \in Servers, NEW complete \in BOOLEAN, NEW seen, NEW procs, NEW lost,
             NEW gone, NEW due, Ingest(s, complete, seen, procs, lost, gone, due)
      PROVE  /\ RowsRegistered'
             /\ \A k \in Leases : \A c \in held[k] : c \in known' \/ c \notin held'[k]
             /\ ~GivesBack => known' = known
  <2>1. known' = known \union seen /\ seen \subseteq CardsOf(s)
    BY <1>5 DEF Ingest
  <2>2. link'[s] # "unregistered" /\ \A k \in Servers \ {s} : link'[k] = link[k]
    BY <1>5 DEF Ingest, LedgerInv, TypeOK
  <2>3. \A c \in known : HostOf[c] \in Servers
    BY DEF LedgerAssumption, LedgerInv, TypeOK
  <2>4. RowsRegistered'
    BY <2>1, <2>2, <2>3 DEF RowsRegistered, Registered, CardsOf, LedgerInv
  <2>5. \A k \in Leases : held[k] \subseteq known
    BY DEF LedgerInv, LeasedCardsExist
  <2> QED BY <1>5, <2>1, <2>4, <2>5, IngestGivesBack
<1>6. CASE CallerStep
  <2>1. ASSUME NEW a \in Actors, NEW l \in Leases,
               \/ \E p \in Projects, t \in Tasks, n \in 1..Cardinality(Cards) : Claim(a, l, p, t, n)
               \/ Release(a, l) \/ Bind(a, l)
               \/ \E back \in SUBSET held[l], n \in 0..Cardinality(Cards) : Resize(a, l, back, n)
               \/ \E force \in BOOLEAN : TakeOver(a, l, force)
               \/ \E S \in SUBSET Cards : Reassign(a, l, S)
               \/ \E s \in Servers : ReleaseEmpty(l, s)
        PROVE  UNCHANGED serverVars
    BY <2>1 DEF Claim, Release, Bind, Bindable, Resize, TakeOver, Reassign, IsTarget, ReleaseEmpty
  <2>2. CASE \E s \in Servers : AddServer(s) \/ DeleteServer(s)
    BY <1>1, <1>3, <1>4, <2>2
  <2>3. CASE \E l \in Leases, s \in Servers : ReleaseEmpty(l, s)
    <3>1. UNCHANGED serverVars
      BY <2>3 DEF ReleaseEmpty
    <3> QED BY <1>1, <1>2, <3>1
  <2>4. CASE ~\E s \in Servers : AddServer(s) \/ DeleteServer(s) \/ \E l \in Leases : ReleaseEmpty(l, s)
    <3>1. UNCHANGED serverVars
      BY <1>6, <2>1, <2>4 DEF CallerStep, Actors
    <3> QED BY <1>1, <1>2, <3>1
  <2> QED BY <2>2, <2>3, <2>4
<1>7. CASE CollectorStep
  BY <1>1, <1>3, <1>5, <1>7 DEF CollectorStep
<1>8. CASE UNCHANGED vars
  BY <1>1, <1>2, <1>8 DEF vars
<1> QED BY <1>6, <1>7, <1>8 DEF Next

LEMMA LedgerInvInit == LedgerAssumption /\ Init => LedgerInv
<1> SUFFICES ASSUME LedgerAssumption, Init PROVE LedgerInv
  OBVIOUS
<1>1. TypeOK
  BY TypeInit
<1>2. ExclusiveCards /\ RowsRegistered /\ LeasedCardsExist
  BY DEF Init, ExclusiveCards, RowsRegistered, LeasedCardsExist
<1>3. LiveHoldsCards
  BY DEF Init, LiveHoldsCards, Live, LiveStates, Unissued
<1> QED BY <1>1, <1>2, <1>3 DEF LedgerInv

LEMMA LedgerInvStep == LedgerAssumption /\ LedgerInv /\ [Next]_vars => LedgerInv'
<1> SUFFICES ASSUME LedgerAssumption, LedgerInv, [Next]_vars PROVE LedgerInv'
  OBVIOUS
<1>1. TypeOK'
  BY TypeStep DEF LedgerInv
<1>2. GivesBack \/ \E l \in Leases : Takes(l)
  BY EveryStepMovesCards
<1>3. ExclusiveCards'
  <2>1. CASE GivesBack
    BY <2>1 DEF GivesBack, ExclusiveCards, LedgerInv
  <2>2. ASSUME NEW l \in Leases, Takes(l) PROVE ExclusiveCards'
    BY <2>2 DEF Takes, ExclusiveCards, LedgerInv
  <2> QED BY <1>2, <2>1, <2>2
<1>4. LiveHoldsCards'
  <2>1. CASE GivesBack
    <3> SUFFICES ASSUME NEW k \in Leases
                 PROVE  lease'[k].state \in LiveStates <=> held'[k] # {}
      BY DEF LiveHoldsCards, Live
    <3>1. lease[k].state \in LiveStates <=> held[k] # {}
      BY DEF LedgerInv, LiveHoldsCards, Live
    <3> QED BY <2>1, <3>1 DEF GivesBack, LiveStates, TerminalStates
  <2>2. ASSUME NEW l \in Leases, Takes(l) PROVE LiveHoldsCards'
    BY <2>2 DEF Takes, LiveHoldsCards, LedgerInv, Live
  <2> QED BY <1>2, <2>1, <2>2
<1>5. RowsRegistered'
  BY EveryStepKeepsRows
<1>6. LeasedCardsExist'
  <2>1. \A l \in Leases : held'[l] \subseteq known'
    <3>1. CASE GivesBack
      BY <3>1, EveryStepKeepsRows DEF GivesBack
    <3>2. CASE ~GivesBack
      BY <1>2, <3>2, EveryStepKeepsRows DEF Takes, LedgerInv, LeasedCardsExist
    <3> QED BY <3>1, <3>2
  <2> QED BY <1>5, <2>1 DEF RowsRegistered, LeasedCardsExist
<1> QED BY <1>1, <1>3, <1>4, <1>5, <1>6 DEF LedgerInv

\* No operation of the ledger leaves a state in which cards, leases and
\* registered servers disagree.
THEOREM LedgerInvHolds == Spec => []LedgerInv
<1>1. Init => LedgerInv
  BY LedgerAssumption, LedgerInvInit
<1>2. LedgerInv /\ [Next]_vars => LedgerInv'
  BY LedgerAssumption, LedgerInvStep
<1> QED BY <1>1, <1>2, PTL DEF Spec

\* No card is ever active in two leases, whatever callers claim, resize, move
\* and take over between the readings of any number of servers.
THEOREM NoCardHeldTwice == Spec => []ExclusiveCards
<1>1. LedgerInv => ExclusiveCards
  BY DEF LedgerInv
<1> QED BY <1>1, LedgerInvHolds, PTL

\* A lease is live exactly while it holds a card: no reclaim, expiry, clearing
\* or server deletion leaves a live lease empty or an ended one with a card.
THEOREM LiveExactlyWhileHolding == Spec => []LiveHoldsCards
<1>1. LedgerInv => LiveHoldsCards
  BY DEF LedgerInv
<1> QED BY <1>1, LedgerInvHolds, PTL

\* Deleting servers never leaves a lease on a card whose row is purged.
THEOREM LeasesNameExistingCards == Spec => []LeasedCardsExist
<1>1. LedgerInv => LeasedCardsExist
  BY DEF LedgerInv
<1> QED BY <1>1, LedgerInvHolds, PTL

-----------------------------------------------------------------------------
(* Owned tasks and commitments *)

\* No lease comes to life or changes hands.
KeepsOwners ==
  \A k \in Leases : lease'[k].state \in LiveStates =>
    /\ lease[k].state \in LiveStates
    /\ lease'[k].project = lease[k].project /\ lease'[k].task = lease[k].task
    /\ lease'[k].owner = lease[k].owner

\* Lease l is claimed or taken over, and no other owned lease has its task.
Owns(l) ==
  /\ \A k \in Leases \ {l} : lease'[k] = lease[k]
  /\ lease'[l].owner # None => ~TaskTaken(lease'[l].project, lease'[l].task, {l})

\* Changing only the state of a lease keeps whose it is.
LEMMA StateKeepsOwner ==
  ASSUME TypeOK, NEW l \in Leases, lease[l].state # "UNISSUED", NEW st
  PROVE  /\ [lease[l] EXCEPT !.state = st].state = st
         /\ [lease[l] EXCEPT !.state = st].project = lease[l].project
         /\ [lease[l] EXCEPT !.state = st].task = lease[l].task
         /\ [lease[l] EXCEPT !.state = st].owner = lease[l].owner
BY LiveIsRecord DEF LeaseRecords

LEMMA SettledKeepsOwner ==
  ASSUME TypeOK, NEW l \in Leases, Live(l), NEW back
  PROVE  /\ Settled(l, back).project = lease[l].project
         /\ Settled(l, back).task = lease[l].task
         /\ Settled(l, back).owner = lease[l].owner
BY StateKeepsOwner DEF Settled, Live, LiveStates

LEMMA ClaimOwns ==
  ASSUME TypeOK, NEW a \in Actors, NEW l \in Leases, NEW p, NEW t, NEW n,
         Claim(a, l, p, t, n)
  PROVE  Owns(l)
<1>1. \A k \in Leases \ {l} : lease'[k] = lease[k]
  BY DEF Claim, TypeOK
<1>2. /\ lease'[l].project = p /\ lease'[l].task = t
      /\ lease'[l].owner = IF a \in Sessions THEN a ELSE None
  BY DEF Claim, TypeOK
<1>3. a \in Sessions => ~TaskTaken(p, t, {l})
  BY DEF Claim, TaskTaken
<1> QED BY <1>1, <1>2, <1>3 DEF Owns

LEMMA TakeOverOwns ==
  ASSUME TypeOK, NEW a \in Sessions, NEW l \in Leases, NEW force, TakeOver(a, l, force)
  PROVE  Owns(l)
<1>1. lease[l] \in LeaseRecords
  BY LiveIsRecord DEF TakeOver, Live, LiveStates
<1>2. /\ lease'[l].project = ProjectOf[a] /\ lease'[l].task = lease[l].task
      /\ \A k \in Leases \ {l} : lease'[k] = lease[k]
  BY <1>1 DEF TakeOver, TypeOK, LeaseRecords
<1> QED BY <1>2 DEF Owns, TakeOver

LEMMA IngestKeepsOwners ==
  ASSUME TypeOK, NEW s, NEW complete, NEW seen, NEW procs,
         NEW lost, NEW gone, NEW due, Ingest(s, complete, seen, procs, lost, gone, due)
  PROVE  KeepsOwners
<1> DEFINE b == (busy \union procs) \ lost
           bound == BoundBy(s, b)
           r == Reconciled(bound, b, gone, due)
<1> SUFFICES ASSUME NEW k \in Leases, r[k].state \in LiveStates
             PROVE  /\ lease[k].state \in LiveStates
                    /\ r[k].project = lease[k].project /\ r[k].task = lease[k].task
                    /\ r[k].owner = lease[k].owner
  BY DEF Ingest, KeepsOwners
<1>1. CASE lease[k].state \notin {"HELD", "ACTIVE"}
  <2>1. r[k] = lease[k]
    BY <1>1 DEF BoundBy, Reconciled
  <2> QED BY <2>1
<1>2. CASE lease[k].state \in {"HELD", "ACTIVE"}
  <2>1. lease[k] \in LeaseRecords
    BY <1>2, LiveIsRecord
  <2>2. bound[k] \in LeaseRecords /\ bound[k].project = lease[k].project
        /\ bound[k].task = lease[k].task /\ bound[k].owner = lease[k].owner
    BY <2>1 DEF BoundBy, LeaseRecords, LiveStates
  <2> HIDE DEF bound
  <2>3. /\ r[k].project = bound[k].project /\ r[k].task = bound[k].task
        /\ r[k].owner = bound[k].owner
    BY <2>2 DEF Reconciled, LeaseRecords
  <2> QED BY <1>2, <2>2, <2>3 DEF LiveStates
<1> QED BY <1>1, <1>2

LEMMA ReleaseKeepsOwners ==
  ASSUME TypeOK, NEW a, NEW l \in Leases, Release(a, l) \/ Bind(a, l)
  PROVE  KeepsOwners
<1>1. PICK st : lease' = [lease EXCEPT ![l] = [lease[l] EXCEPT !.state = st]]
  BY DEF Release, Bind, Bindable
<1>2. Live(l)
  BY DEF Release, Bind, Bindable, Live, LiveStates
<1> QED BY <1>1, <1>2, StateKeepsOwner DEF KeepsOwners, Live, LiveStates, TypeOK

LEMMA ReleaseEmptyKeepsOwners ==
  ASSUME TypeOK, NEW l \in Leases, NEW s, ReleaseEmpty(l, s)
  PROVE  KeepsOwners
BY SettledKeepsOwner DEF ReleaseEmpty, KeepsOwners, Live, TypeOK

LEMMA DeleteServerKeepsOwners ==
  ASSUME TypeOK, NEW s, DeleteServer(s)
  PROVE  KeepsOwners
BY SettledKeepsOwner DEF DeleteServer, KeepsOwners, Live

LEMMA EveryStepKeepsOwners ==
  ASSUME TypeOK, [Next]_vars
  PROVE  KeepsOwners \/ \E l \in Leases : Owns(l)
<1>1. ASSUME lease' = lease PROVE KeepsOwners
  BY <1>1 DEF KeepsOwners
<1>2. CASE CallerStep
  <2>1. ASSUME NEW a \in Actors, NEW l \in Leases,
               \/ \E back \in SUBSET held[l], n \in 0..Cardinality(Cards) : Resize(a, l, back, n)
               \/ \E S \in SUBSET Cards : Reassign(a, l, S)
        PROVE  KeepsOwners
    BY <1>1, <2>1 DEF Resize, Reassign, IsTarget
  <2>2. ASSUME NEW s \in Servers, AddServer(s) PROVE KeepsOwners
    BY <1>1, <2>2 DEF AddServer, leaseVars
  <2> QED
    BY <1>2, <2>1, <2>2, ClaimOwns, TakeOverOwns, ReleaseKeepsOwners,
       ReleaseEmptyKeepsOwners, DeleteServerKeepsOwners DEF CallerStep
<1>3. CASE CollectorStep
  <2>1. ASSUME NEW s \in Servers, Fail(s) \/ Age(s) PROVE KeepsOwners
    BY <1>1, <2>1 DEF Fail, Age, leaseVars
  <2> QED BY <1>3, <2>1, IngestKeepsOwners DEF CollectorStep
<1>4. CASE UNCHANGED vars
  BY <1>1, <1>4 DEF vars, leaseVars
<1> QED BY <1>2, <1>3, <1>4 DEF Next

\* One project never has two live owned leases for one task: a claim by a
\* session and a take-over refuse the task another has, a claim without one
\* leaves the lease unowned, and nothing else changes whose a lease is.
THEOREM OneOwnedLeasePerTaskHolds == Spec => []OneOwnedLeasePerTask
<1>1. Init => OneOwnedLeasePerTask
  BY DEF Init, OneOwnedLeasePerTask, Live, LiveStates, Unissued
<1>2. OneOwnedLeasePerTask /\ LedgerInv /\ [Next]_vars => OneOwnedLeasePerTask'
  <2> SUFFICES ASSUME OneOwnedLeasePerTask, LedgerInv, [Next]_vars
               PROVE  OneOwnedLeasePerTask'
    OBVIOUS
  <2>1. CASE KeepsOwners
    BY <2>1 DEF KeepsOwners, OneOwnedLeasePerTask, Live
  <2>2. ASSUME NEW l \in Leases, Owns(l) PROVE OneOwnedLeasePerTask'
    BY <2>2 DEF Owns, TaskTaken, OneOwnedLeasePerTask, Live
  <2> QED BY <2>1, <2>2, EveryStepKeepsOwners DEF LedgerInv
<1> QED BY <1>1, <1>2, LedgerInvHolds, PTL DEF Spec

\* What a step does to the commitments: nothing, the commitments of the one
\* lease that takes cards follow them, or a deleted server loses all of its own.
Commits ==
  \/ commit' = commit /\ GivesBack
  \/ \E l \in Leases : Takes(l) /\ commit' = [commit EXCEPT ![l] = Hosts(held'[l])]
  \/ \E s \in Servers : /\ GivesBack
                        /\ \A l \in Leases : /\ held'[l] \subseteq held[l] \ CardsOf(s)
                                             /\ commit'[l] = commit[l] \ {s}

LEMMA EveryStepCommits ==
  ASSUME LedgerAssumption, LedgerInv, [Next]_vars
  PROVE  Commits
<1>1. ASSUME commit' = commit, lease' = lease, held' = held PROVE Commits
  BY <1>1 DEF Commits, GivesBack, LedgerInv, LiveHoldsCards, Live
<1>2. ASSUME NEW a \in Actors, NEW l \in Leases, NEW p, NEW t, NEW n, Claim(a, l, p, t, n)
      PROVE  Commits
  <2>1. commit' = [commit EXCEPT ![l] = Hosts(held'[l])]
    BY <1>2 DEF Claim, LedgerInv, TypeOK
  <2> QED BY <1>2, <2>1, ClaimTakes DEF Commits
<1>3. ASSUME NEW a \in Actors, NEW l \in Leases, NEW back, NEW n \in Nat, Resize(a, l, back, n)
      PROVE  Commits
  <2>1. commit' = [commit EXCEPT ![l] = Hosts(held'[l])]
    BY <1>3 DEF Resize, SyncedCommitments, LedgerInv, TypeOK
  <2> QED BY <1>3, <2>1, ResizeTakes DEF Commits
<1>4. ASSUME NEW a \in Actors, NEW l \in Leases, NEW S \in SUBSET Cards, Reassign(a, l, S)
      PROVE  Commits
  <2>1. commit' = [commit EXCEPT ![l] = Hosts(held'[l])]
    BY <1>4 DEF Reassign, IsTarget, LedgerInv, TypeOK
  <2> QED BY <1>4, <2>1, ReassignTakes DEF Commits
<1>5. ASSUME NEW s \in Servers, DeleteServer(s) PROVE Commits
  <2>1. \A l \in Leases : held'[l] = held[l] \ CardsOf(s) /\ commit'[l] = commit[l] \ {s}
    BY <1>5 DEF DeleteServer, Purged
  <2> QED BY <1>5, <2>1, DeleteServerGivesBack DEF Commits
<1>6. ASSUME NEW a \in Actors, NEW l \in Leases,
             \/ Release(a, l) \/ Bind(a, l)
             \/ \E s \in Servers : ReleaseEmpty(l, s)
      PROVE  Commits
  <2>1. commit' = commit
    BY <1>6 DEF Release, Bind, Bindable, ReleaseEmpty
  <2> QED BY <1>6, <2>1, ReleaseGivesBack, BindGivesBack, ReleaseEmptyGivesBack DEF Commits
<1>7. ASSUME NEW a \in Sessions, NEW l \in Leases, NEW force, TakeOver(a, l, force)
      PROVE  Commits
  <2>1. commit' = commit
    BY <1>7 DEF TakeOver
  <2> QED BY <1>7, <2>1, TakeOverGivesBack DEF Commits
<1>8. ASSUME NEW l \in Leases, NEW s \in Servers, ReleaseEmpty(l, s) PROVE Commits
  <2>1. commit' = commit
    BY <1>8 DEF ReleaseEmpty
  <2> QED BY <1>8, <2>1, ReleaseEmptyGivesBack DEF Commits
<1>9. CASE CallerStep
  <2>1. Cardinality(Cards) \in Nat
    BY FS_CardinalityType DEF LedgerAssumption
  <2>2. ASSUME NEW s \in Servers, AddServer(s) PROVE Commits
    BY <1>1, <2>2 DEF AddServer, leaseVars
  <2> QED BY <1>2, <1>3, <1>4, <1>5, <1>6, <1>7, <1>8, <1>9, <2>1, <2>2 DEF CallerStep
<1>10. CASE CollectorStep
  <2>1. ASSUME NEW s \in Servers, Fail(s) \/ Age(s) PROVE Commits
    BY <1>1, <2>1 DEF Fail, Age, leaseVars
  <2>2. ASSUME NEW s \in Servers, NEW complete \in BOOLEAN, NEW seen, NEW procs, NEW lost,
               NEW gone, NEW due, Ingest(s, complete, seen, procs, lost, gone, due)
        PROVE  Commits
    <3>1. commit' = commit
      BY <2>2 DEF Ingest
    <3> QED BY <2>2, <3>1, IngestGivesBack DEF Commits
  <2> QED BY <1>10, <2>1, <2>2 DEF CollectorStep
<1>11. CASE UNCHANGED vars
  BY <1>1, <1>11 DEF vars, leaseVars
<1> QED BY <1>9, <1>10, <1>11 DEF Next

\* A live lease has a commitment on every server where it holds a card: the
\* three operations that give it cards rewrite its commitments, and a deleted
\* server takes its cards and its commitments away together.
THEOREM CommitmentsCoverHolds == Spec => []CommitmentsCover
<1>1. Init => CommitmentsCover
  BY DEF Init, CommitmentsCover, Live, LiveStates, Unissued
<1>2. CommitmentsCover /\ LedgerInv /\ [Next]_vars => CommitmentsCover'
  <2> SUFFICES ASSUME CommitmentsCover, LedgerInv, [Next]_vars,
                      NEW k \in Leases, lease'[k].state \in LiveStates
               PROVE  Hosts(held'[k]) \subseteq commit'[k]
    BY DEF CommitmentsCover, Live, Hosts
  <2>1. lease[k].state \in LiveStates => Hosts(held[k]) \subseteq commit[k]
    BY DEF CommitmentsCover, Live
  <2>2. CASE commit' = commit /\ GivesBack
    BY <2>1, <2>2 DEF GivesBack, Hosts
  <2>3. ASSUME NEW l \in Leases, Takes(l), commit' = [commit EXCEPT ![l] = Hosts(held'[l])]
        PROVE  Hosts(held'[k]) \subseteq commit'[k]
    <3>1. CASE k = l
      BY <2>3, <3>1 DEF LedgerInv, TypeOK
    <3>2. CASE k # l
      BY <2>1, <2>3, <3>2 DEF Takes, LedgerInv, TypeOK
    <3> QED BY <3>1, <3>2
  <2>4. ASSUME NEW s \in Servers, GivesBack,
               held'[k] \subseteq held[k] \ CardsOf(s), commit'[k] = commit[k] \ {s}
        PROVE  Hosts(held'[k]) \subseteq commit'[k]
    BY <2>1, <2>4 DEF GivesBack, Hosts, CardsOf, LedgerInv, TypeOK
  <2>5. Commits
    BY EveryStepCommits, LedgerAssumption
  <2> QED BY <2>2, <2>3, <2>4, <2>5 DEF Commits
<1> QED BY <1>1, <1>2, LedgerInvHolds, PTL DEF Spec

-----------------------------------------------------------------------------
(* Why cards leave *)

\* Card c may leave lease l in this step.
Evidence(l, c) ==
  \/ c \in known' \ busy'
  \/ lease'[l].state = "RELEASED"
  \/ Cardinality(held'[l]) = Cardinality(held[l])
  \/ Unreachable(HostOf[c])

LEMMA IngestEvidence ==
  ASSUME LedgerInv, NEW s, NEW complete, NEW seen, NEW procs, NEW lost,
         NEW gone, NEW due, Ingest(s, complete, seen, procs, lost, gone, due),
         NEW l \in Leases, NEW c \in held[l] \ held'[l]
  PROVE  c \in known' \ busy'
<1> DEFINE b == (busy \union procs) \ lost
           bound == BoundBy(s, b)
           r == Reconciled(bound, b, gone, due)
<1>1. lease[l].state \in {"HELD", "ACTIVE"}
  BY DEF Ingest
<1>2. c \in known /\ known \subseteq known' /\ busy' = b /\ gone \intersect b = {}
  BY DEF Ingest, LedgerInv, LeasedCardsExist
<1>3. CASE c \in gone
  BY <1>2, <1>3
<1>4. CASE c \notin gone
  <2>1. r[l].state = "EXPIRED_EMPTY"
    BY <1>1, <1>4 DEF Ingest
  <2>2. lease[l] \in LeaseRecords
    BY <1>1, LiveIsRecord DEF LedgerInv
  <2>3. bound[l] \in LeaseRecords /\ bound[l].state \in {"HELD", "ACTIVE"}
    BY <1>1, <2>2 DEF BoundBy, LeaseRecords, LiveStates
  <2> HIDE DEF bound
  <2>4. Expired(l, b) = "EXPIRED_EMPTY"
    BY <1>4, <2>1, <2>3 DEF Reconciled, LeaseRecords
  <2>5. held[l] \intersect b = {}
    BY <2>4 DEF Expired
  <2> QED BY <1>2, <2>5
<1> QED BY <1>3, <1>4

LEMMA EveryStepHasEvidence ==
  ASSUME LedgerInv, [Next]_vars, NEW l \in Leases, NEW c \in held[l] \ held'[l]
  PROVE  Evidence(l, c)
<1>1. held[l] # {} /\ Live(l) /\ c \in known
  BY DEF LedgerInv, LiveHoldsCards, LeasedCardsExist
<1>2. ASSUME NEW a \in Actors, NEW k \in Leases, NEW p, NEW t, NEW n, Claim(a, k, p, t, n)
      PROVE  Evidence(l, c)
  BY <1>1, <1>2 DEF Claim, Live, LiveStates, LedgerInv, TypeOK
<1>3. ASSUME NEW a \in Actors, NEW k \in Leases, Release(a, k) PROVE Evidence(l, c)
  <2>1. k = l
    BY <1>3 DEF Release, LedgerInv, TypeOK
  <2>2. lease[l] \in LeaseRecords
    BY <1>1, LiveIsRecord DEF Live, LiveStates, LedgerInv
  <2>3. lease'[l].state = "RELEASED"
    BY <1>3, <2>1, <2>2 DEF Release, LedgerInv, TypeOK, LeaseRecords
  <2> QED BY <2>3 DEF Evidence
<1>4. ASSUME NEW a \in Actors, NEW k \in Leases, NEW back, NEW n, Resize(a, k, back, n)
      PROVE  Evidence(l, c)
  <2>1. PICK S : held' = [held EXCEPT ![k] = (@ \ back) \union S]
    BY <1>4 DEF Resize
  <2>2. c \in back /\ k = l
    BY <2>1 DEF LedgerInv, TypeOK
  <2>3. c \notin busy /\ known' = known /\ busy' = busy
    BY <1>4, <2>2 DEF Resize, serverVars
  <2> QED BY <1>1, <2>3 DEF Evidence
<1>5. ASSUME NEW a \in Actors, NEW k \in Leases, NEW S, Reassign(a, k, S) PROVE Evidence(l, c)
  BY <1>5 DEF Reassign, IsTarget, Evidence, LedgerInv, TypeOK
<1>6. ASSUME NEW k \in Leases, NEW s \in Servers, ReleaseEmpty(k, s) PROVE Evidence(l, c)
  <2>1. k = l /\ c \in CardsOf(s)
    BY <1>6 DEF ReleaseEmpty, LedgerInv, TypeOK
  <2>2. HostOf[c] = s
    BY <2>1 DEF CardsOf
  <2>3. CASE Unreachable(s)
    BY <2>2, <2>3 DEF Evidence
  <2>4. CASE held[l] \intersect CardsOf(s) \intersect busy = {}
    BY <1>1, <1>6, <2>1, <2>4 DEF ReleaseEmpty, serverVars, Evidence
  <2> QED BY <1>6, <2>1, <2>3, <2>4 DEF ReleaseEmpty
<1>7. ASSUME NEW s \in Servers, DeleteServer(s) PROVE Evidence(l, c)
  <2>1. c \in CardsOf(s)
    BY <1>7 DEF DeleteServer, Purged
  <2>2. HostOf[c] = s
    BY <2>1 DEF CardsOf
  <2>3. HasActiveLeases(s)
    BY <1>1, <2>1 DEF HasActiveLeases
  <2> QED BY <1>7, <2>2, <2>3 DEF DeleteServer, Evidence
<1>8. ASSUME NEW s, NEW complete, NEW seen, NEW procs, NEW lost,
             NEW gone, NEW due, Ingest(s, complete, seen, procs, lost, gone, due)
      PROVE  Evidence(l, c)
  BY <1>8, IngestEvidence DEF Evidence
<1>9. held' # held
  OBVIOUS
<1>10. ~UNCHANGED vars
  BY <1>9 DEF vars, leaseVars
<1>11. ASSUME NEW k, NEW s, NEW a, NEW force,
              Bind(a, k) \/ TakeOver(a, k, force) \/ AddServer(s) \/ Fail(s) \/ Age(s)
       PROVE  FALSE
  BY <1>9, <1>11 DEF Bind, Bindable, TakeOver, AddServer, Fail, Age, leaseVars
<1>12. CASE CallerStep
  BY <1>2, <1>3, <1>4, <1>5, <1>6, <1>7, <1>11, <1>12 DEF CallerStep
<1>13. CASE CollectorStep
  BY <1>8, <1>11, <1>13 DEF CollectorStep
<1> QED BY <1>10, <1>12, <1>13 DEF Next

\* No reclaim, expiry, resize, clearing or server deletion takes a card from
\* under a process that is seen on it: a card leaves its lease seen empty, with
\* the whole lease released, in an exchange, or with a server that is gone.
THEOREM CardsLeaveOnEvidenceHolds == Spec => CardsLeaveOnEvidence
<1>1. LedgerInv /\ [Next]_vars =>
        [\A l \in Leases : \A c \in held[l] \ held'[l] :
           \/ c \in known' \ busy'
           \/ lease'[l].state = "RELEASED"
           \/ Cardinality(held'[l]) = Cardinality(held[l])
           \/ Unreachable(HostOf[c])]_vars
  BY EveryStepHasEvidence DEF Evidence
<1> QED BY <1>1, LedgerInvHolds, PTL DEF Spec, CardsLeaveOnEvidence

-----------------------------------------------------------------------------
(* Budgets *)

\* LeasesOf and the cards counted by Usage, for any lease records f and rows h.
LeasesIn(p, f) == {l \in Leases : f[l].state \in LiveStates /\ f[l].project = p}
CardsIn(p, f, h) == UNION {h[l] : l \in LeasesIn(p, f)}

\* The step leaves project p within its budgets, or no further beyond them.
WithinBudgets(p) ==
  /\ Usage(p, held)' > Usage(p, held) => Usage(p, held)' <= Quota[p]
  /\ Cardinality(LeasesOf(p)') > Cardinality(LeasesOf(p))
       => Cardinality(LeasesOf(p)') <= Limit[p]

\* Every live lease holds a card of its own, so there are no more of them than
\* cards, however many lease ids there are.
LEMMA LiveLeasesAreFinite ==
  ASSUME LedgerAssumption, LedgerInv, NEW p
  PROVE  IsFiniteSet(LeasesOf(p))
<1> DEFINE card == [l \in LeasesOf(p) |-> CHOOSE c \in Cards : c \in held[l]]
<1>1. ASSUME NEW l \in LeasesOf(p) PROVE card[l] \in held[l] /\ card[l] \in Cards
  <2>1. \E c \in Cards : c \in held[l]
    BY DEF LeasesOf, LedgerInv, LiveHoldsCards, TypeOK
  <2> QED BY <2>1
<1>2. card \in [LeasesOf(p) -> Cards]
  BY <1>1
<1> HIDE DEF card
<1>3. ASSUME NEW k \in LeasesOf(p), NEW l \in LeasesOf(p), card[k] = card[l] PROVE k = l
  BY <1>1, <1>3 DEF LedgerInv, ExclusiveCards, LeasesOf
<1>4. card \in Injection(LeasesOf(p), Cards)
  BY <1>2, <1>3 DEF Injection, IsInjective
<1> QED BY <1>4, FS_Injection DEF LedgerAssumption

LEMMA CountsAreNumbers ==
  ASSUME LedgerAssumption, LedgerInv, NEW p
  PROVE  /\ IsFiniteSet(LeasesOf(p)) /\ Cardinality(LeasesOf(p)) \in Nat
         /\ CardsIn(p, lease, held) \in SUBSET Cards
         /\ IsFiniteSet(CardsIn(p, lease, held))
         /\ Usage(p, held) = Cardinality(CardsIn(p, lease, held))
         /\ Usage(p, held) \in Nat
<1>1. IsFiniteSet(LeasesOf(p))
  BY LiveLeasesAreFinite
<1>2. CardsIn(p, lease, held) \in SUBSET Cards
  BY DEF CardsIn, LeasesIn, LedgerInv, TypeOK
<1>3. IsFiniteSet(CardsIn(p, lease, held))
  BY <1>2, FS_Subset DEF LedgerAssumption
<1>4. Usage(p, held) = Cardinality(CardsIn(p, lease, held))
  BY DEF Usage, CardsIn, LeasesIn, LeasesOf, Live
<1> QED BY <1>1, <1>2, <1>3, <1>4, FS_CardinalityType

\* A and B together have at most as many members as both have.
LEMMA UnionIsBounded ==
  ASSUME NEW A, NEW B, IsFiniteSet(A), IsFiniteSet(B), NEW C \in SUBSET (A \union B)
  PROVE  /\ IsFiniteSet(C) /\ Cardinality(C) \in Nat
         /\ Cardinality(C) <= Cardinality(A) + Cardinality(B)
<1>1. /\ IsFiniteSet(A \union B)
      /\ Cardinality(A \union B) = Cardinality(A) + Cardinality(B) - Cardinality(A \intersect B)
  BY FS_Union
<1>2. IsFiniteSet(C) /\ Cardinality(C) <= Cardinality(A \union B)
  BY <1>1, FS_Subset
<1>3. IsFiniteSet(A \intersect B)
  BY FS_Subset
<1>4. /\ Cardinality(C) \in Nat /\ Cardinality(A \union B) \in Nat
      /\ Cardinality(A) \in Nat /\ Cardinality(B) \in Nat
      /\ Cardinality(A \intersect B) \in Nat
  BY <1>1, <1>2, <1>3, FS_CardinalityType
<1> QED BY <1>1, <1>2, <1>4

\* A step after which the project has no lease and no card it had not before.
LEMMA FewerIsWithinBudgets ==
  ASSUME LedgerAssumption, LedgerInv, NEW p,
         \A k \in Leases : lease'[k].state \in LiveStates /\ lease'[k].project = p =>
           /\ lease[k].state \in LiveStates /\ lease[k].project = p
           /\ held'[k] \subseteq held[k]
  PROVE  WithinBudgets(p)
<1>1. LeasesOf(p)' \in SUBSET LeasesOf(p)
  BY DEF LeasesOf, Live
<1>2. CardsIn(p, lease', held') \in SUBSET CardsIn(p, lease, held)
  BY DEF CardsIn, LeasesIn
<1>3. Usage(p, held)' = Cardinality(CardsIn(p, lease', held'))
  BY DEF Usage, CardsIn, LeasesIn, LeasesOf, Live
<1>4. /\ IsFiniteSet(LeasesOf(p)') /\ Cardinality(LeasesOf(p)') <= Cardinality(LeasesOf(p))
      /\ IsFiniteSet(CardsIn(p, lease', held')) /\ Usage(p, held)' <= Usage(p, held)
  BY <1>1, <1>2, <1>3, CountsAreNumbers, FS_Subset
<1>5. Cardinality(LeasesOf(p)') \in Nat /\ Usage(p, held)' \in Nat
  BY <1>3, <1>4, FS_CardinalityType
<1> QED BY <1>4, <1>5, CountsAreNumbers DEF WithinBudgets

LEMMA ClaimWithinBudgets ==
  ASSUME LedgerAssumption, LedgerInv, NEW a \in Actors, NEW l \in Leases, NEW q \in Projects,
         NEW t, NEW n \in Nat, Claim(a, l, q, t, n), NEW p \in Projects
  PROVE  WithinBudgets(p)
<1>1. PICK S \in Placements(n, held, a \in Sessions) : held' = [held EXCEPT ![l] = S]
  BY DEF Claim
<1>2. S \in SUBSET Cards /\ IsFiniteSet(S) /\ Cardinality(S) = n
  BY FS_Subset DEF Placements, LedgerAssumption
<1>3. /\ held'[l] = S /\ \A k \in Leases \ {l} : held'[k] = held[k]
      /\ lease'[l].project = q /\ \A k \in Leases \ {l} : lease'[k] = lease[k]
  BY <1>1 DEF Claim, LedgerInv, TypeOK
<1>4. CASE p # q
  BY <1>3, <1>4, FewerIsWithinBudgets
<1>5. CASE p = q
  <2>1. LeasesOf(p)' \in SUBSET (LeasesOf(p) \union {l})
    BY <1>3 DEF LeasesOf, Live
  <2>2. CardsIn(p, lease', held') \in SUBSET (CardsIn(p, lease, held) \union S)
    BY <1>3 DEF CardsIn, LeasesIn
  <2>3. Usage(p, held)' = Cardinality(CardsIn(p, lease', held'))
    BY DEF Usage, CardsIn, LeasesIn, LeasesOf, Live
  <2>4. Usage(p, held)' \in Nat /\ Usage(p, held)' <= Usage(p, held) + n
    BY <1>2, <2>2, <2>3, CountsAreNumbers, UnionIsBounded
  <2>5. IsFiniteSet({l}) /\ Cardinality({l}) = 1
    BY FS_Singleton
  <2>6. /\ Cardinality(LeasesOf(p)') \in Nat
        /\ Cardinality(LeasesOf(p)') <= Cardinality(LeasesOf(p)) + 1
    BY <2>1, <2>5, CountsAreNumbers, UnionIsBounded
  <2>7. Usage(p, held) + n <= Quota[p] /\ Cardinality(LeasesOf(p)) < Limit[p]
    BY <1>5 DEF Claim, QuotaAllows
  <2>8. Quota[p] \in Nat /\ Limit[p] \in Nat
    BY DEF LedgerAssumption
  <2> QED BY <2>4, <2>6, <2>7, <2>8, CountsAreNumbers DEF WithinBudgets
<1> QED BY <1>4, <1>5

LEMMA ResizeWithinBudgets ==
  ASSUME LedgerAssumption, LedgerInv, NEW a, NEW l \in Leases, NEW back,
         NEW n \in Nat, Resize(a, l, back, n), NEW p \in Projects
  PROVE  WithinBudgets(p)
<1> DEFINE kept == [held EXCEPT ![l] = @ \ back]
<1>1. PICK S \in IF n = 0 THEN {{}} ELSE Placements(n, kept, TRUE) :
        held' = [held EXCEPT ![l] = (@ \ back) \union S]
  BY DEF Resize
<1>2. /\ held'[l] = (held[l] \ back) \union S
      /\ \A k \in Leases \ {l} : held'[k] = held[k] /\ kept[k] = held[k]
      /\ kept[l] = held[l] \ back
      /\ lease' = lease
  BY <1>1 DEF Resize, LedgerInv, TypeOK
<1>3. CASE p # lease[l].project \/ n = 0
  BY <1>1, <1>2, <1>3, FewerIsWithinBudgets
<1>4. CASE p = lease[l].project /\ n # 0
  <2>1. S \in SUBSET Cards /\ IsFiniteSet(S) /\ Cardinality(S) = n
    BY <1>1, <1>4, FS_Subset DEF Placements, LedgerAssumption
  <2>2. CardsIn(p, lease', held') \in SUBSET (CardsIn(p, lease, kept) \union S)
    BY <1>2 DEF CardsIn, LeasesIn
  <2>3. /\ Usage(p, held)' = Cardinality(CardsIn(p, lease', held'))
        /\ Usage(p, kept) = Cardinality(CardsIn(p, lease, kept))
    BY DEF Usage, CardsIn, LeasesIn, LeasesOf, Live
  <2>4. CardsIn(p, lease, kept) \in SUBSET CardsIn(p, lease, held)
    BY <1>2 DEF CardsIn, LeasesIn
  <2>5. IsFiniteSet(CardsIn(p, lease, kept))
    BY <2>4, CountsAreNumbers, FS_Subset
  <2> HIDE DEF kept
  <2>6. Usage(p, held)' \in Nat /\ Usage(p, held)' <= Usage(p, kept) + n
    BY <2>1, <2>2, <2>3, <2>5, UnionIsBounded
  <2>7. Usage(p, kept) \in Nat
    BY <2>3, <2>5, FS_CardinalityType
  <2>8. Usage(p, kept) + n <= Quota[p]
    BY <1>4 DEF Resize, QuotaAllows, kept
  <2>9. LeasesOf(p)' = LeasesOf(p)
    BY <1>2 DEF LeasesOf, Live
  <2>10. Quota[p] \in Nat
    BY DEF LedgerAssumption
  <2> QED BY <2>6, <2>7, <2>8, <2>9, <2>10, CountsAreNumbers DEF WithinBudgets
<1> QED BY <1>3, <1>4

\* The cards given up in an exchange are as many as those taken, and nobody
\* else's count includes them.
LEMMA ReassignWithinBudgets ==
  ASSUME LedgerAssumption, LedgerInv, NEW a, NEW l \in Leases, NEW S \in SUBSET Cards,
         Reassign(a, l, S), NEW p \in Projects
  PROVE  WithinBudgets(p)
<1>1. /\ held'[l] = S /\ \A k \in Leases \ {l} : held'[k] = held[k]
      /\ lease' = lease /\ Live(l) /\ Cardinality(S) = Cardinality(held[l])
  BY DEF Reassign, IsTarget, LedgerInv, TypeOK
<1>2. CASE p # lease[l].project
  BY <1>1, <1>2, FewerIsWithinBudgets
<1>3. CASE p = lease[l].project
  <2> DEFINE before == CardsIn(p, lease, held)
  <2>1. held[l] \in SUBSET before
    BY <1>1, <1>3 DEF CardsIn, LeasesIn, Live
  <2>2. CardsIn(p, lease', held') \in SUBSET ((before \ held[l]) \union S)
    BY <1>1 DEF CardsIn, LeasesIn, LedgerInv, ExclusiveCards
  <2>3. Usage(p, held)' = Cardinality(CardsIn(p, lease', held'))
    BY DEF Usage, CardsIn, LeasesIn, LeasesOf, Live
  <2>4. IsFiniteSet(before) /\ Usage(p, held) = Cardinality(before) /\ Usage(p, held) \in Nat
    BY CountsAreNumbers
  <2>5. IsFiniteSet(S) /\ IsFiniteSet(held[l]) /\ Cardinality(held[l]) \in Nat
    BY <2>1, <2>4, FS_Subset, FS_CardinalityType DEF LedgerAssumption
  <2>6. before \intersect held[l] = held[l]
    BY <2>1
  <2> HIDE DEF before
  <2>7. /\ IsFiniteSet(before \ held[l])
        /\ Cardinality(before \ held[l]) = Cardinality(before) - Cardinality(held[l])
    BY <2>4, <2>5, <2>6, FS_Difference
  <2>8. /\ Usage(p, held)' \in Nat
        /\ Usage(p, held)' <= Cardinality(before \ held[l]) + Cardinality(S)
    BY <2>2, <2>3, <2>5, <2>7, UnionIsBounded
  <2>9. LeasesOf(p)' = LeasesOf(p)
    BY <1>1 DEF LeasesOf, Live
  <2> QED BY <1>1, <2>4, <2>5, <2>7, <2>8, <2>9, CountsAreNumbers DEF WithinBudgets
<1> QED BY <1>2, <1>3

LEMMA TakeOverWithinBudgets ==
  ASSUME LedgerAssumption, LedgerInv, NEW a, NEW l \in Leases, NEW force,
         TakeOver(a, l, force), NEW p, ~MovedInto(p)
  PROVE  WithinBudgets(p)
<1>1. lease[l] \in LeaseRecords /\ Live(l)
  BY LiveIsRecord DEF TakeOver, Live, LiveStates, LedgerInv
<1>2. held' = held /\ \A k \in Leases \ {l} : lease'[k] = lease[k]
  BY DEF TakeOver, LedgerInv, TypeOK
<1>3. lease'[l].project = p => lease[l].project = p
  BY <1>1 DEF MovedInto
<1> QED BY <1>1, <1>2, <1>3, FewerIsWithinBudgets DEF Live

\* No project goes past a budget, or further past one, but by a take-over.
LEMMA EveryStepWithinBudgets ==
  ASSUME LedgerAssumption, LedgerInv, [Next]_vars, NEW p \in Projects, ~MovedInto(p)
  PROVE  WithinBudgets(p)
<1>1. ASSUME GivesBack, KeepsOwners PROVE WithinBudgets(p)
  BY <1>1, FewerIsWithinBudgets DEF GivesBack, KeepsOwners
<1>2. ASSUME lease' = lease, held' = held PROVE WithinBudgets(p)
  BY <1>2, FewerIsWithinBudgets
<1>3. ASSUME NEW a \in Actors, NEW l \in Leases, Release(a, l) \/ Bind(a, l)
      PROVE  WithinBudgets(p)
  BY <1>1, <1>3, ReleaseGivesBack, BindGivesBack, ReleaseKeepsOwners DEF LedgerInv
<1>4. ASSUME NEW l \in Leases, NEW s \in Servers, ReleaseEmpty(l, s) PROVE WithinBudgets(p)
  BY <1>1, <1>4, ReleaseEmptyGivesBack, ReleaseEmptyKeepsOwners DEF LedgerInv
<1>5. ASSUME NEW s \in Servers, DeleteServer(s) PROVE WithinBudgets(p)
  BY <1>1, <1>5, DeleteServerGivesBack, DeleteServerKeepsOwners DEF LedgerInv
<1>6. CASE CallerStep
  <2>1. Cardinality(Cards) \in Nat
    BY FS_CardinalityType DEF LedgerAssumption
  <2>2. ASSUME NEW s \in Servers, AddServer(s) PROVE WithinBudgets(p)
    BY <1>2, <2>2 DEF AddServer, leaseVars
  <2> QED
    BY <1>3, <1>4, <1>5, <1>6, <2>1, <2>2, ClaimWithinBudgets, ResizeWithinBudgets,
       ReassignWithinBudgets, TakeOverWithinBudgets DEF CallerStep
<1>7. CASE CollectorStep
  <2>1. ASSUME NEW s \in Servers, Fail(s) \/ Age(s) PROVE WithinBudgets(p)
    BY <1>2, <2>1 DEF Fail, Age, leaseVars
  <2>2. ASSUME NEW s \in Servers, NEW complete \in BOOLEAN, NEW seen, NEW procs, NEW lost,
               NEW gone, NEW due, Ingest(s, complete, seen, procs, lost, gone, due)
        PROVE  WithinBudgets(p)
    <3>1. GivesBack
      BY <2>2, IngestGivesBack
    <3>2. KeepsOwners
      BY <2>2, IngestKeepsOwners DEF LedgerInv
    <3> QED BY <1>1, <3>1, <3>2
  <2> QED BY <1>7, <2>1, <2>2 DEF CollectorStep
<1>8. CASE UNCHANGED vars
  BY <1>2, <1>8 DEF vars, leaseVars
<1> QED BY <1>6, <1>7, <1>8 DEF Next

\* A claim, a resize and a move of cards never push a project beyond its quota
\* of cards or its number of leases; only a take-over into it may.
THEOREM BudgetsExceededOnlyByTakeOverHolds == Spec => BudgetsExceededOnlyByTakeOver
<1>1. LedgerInv /\ [Next]_vars =>
        [\A p \in Projects : ~MovedInto(p) =>
           /\ Usage(p, held)' > Usage(p, held) => Usage(p, held)' <= Quota[p]
           /\ Cardinality(LeasesOf(p)') > Cardinality(LeasesOf(p))
                => Cardinality(LeasesOf(p)') <= Limit[p]]_vars
  BY LedgerAssumption, EveryStepWithinBudgets DEF WithinBudgets
<1> QED BY <1>1, LedgerInvHolds, PTL DEF Spec, BudgetsExceededOnlyByTakeOver

-----------------------------------------------------------------------------
(* Ledger implements CardOwnership *)

\* Where cards are exclusive, a card's holder is the lease that has it.
LEMMA HolderIsLease ==
  ASSUME LedgerAssumption, NEW h,
         \A k, l \in Leases : k # l => h[k] \intersect h[l] = {},
         NEW c, NEW l \in Leases
  PROVE  HolderIn(h, c) = l <=> c \in h[l]
BY DEF HolderIn, LedgerAssumption

LEMMA HolderType ==
  ASSUME NEW h, NEW c
  PROVE  HolderIn(h, c) \in Leases \union {None}
BY DEF HolderIn

\* The cards whose holder is l are the ones in its rows.
LEMMA HeldByIsRows ==
  ASSUME LedgerAssumption, NEW h \in [Leases -> SUBSET Cards],
         \A k, l \in Leases : k # l => h[k] \intersect h[l] = {},
         NEW l \in Leases
  PROVE  {c \in Cards : [d \in Cards |-> HolderIn(h, d)][c] = l} = h[l]
<1>1. \A c \in Cards : HolderIn(h, c) = l <=> c \in h[l]
  BY HolderIsLease
<1> QED BY <1>1

LEMMA OwnershipInit == LedgerAssumption /\ Init => Ownership!Init
<1> SUFFICES ASSUME LedgerAssumption, Init PROVE Ownership!Init
  OBVIOUS
<1>1. \A c \in Cards : HolderIn(held, c) = None
  BY DEF Init, HolderIn
<1>2. {l \in Leases : lease[l].state \in TerminalStates} = {}
  BY DEF Init, Unissued, TerminalStates
<1> QED BY <1>1, <1>2 DEF Ownership!Init

LEMMA OwnershipStep ==
  ASSUME LedgerAssumption, LedgerInv, LedgerInv', [Next]_vars
  PROVE  Ownership!Next
<1> DEFINE holder == [c \in Cards |-> HolderIn(held, c)]
           holderN == [c \in Cards |-> HolderIn(held', c)]
           over == {l \in Leases : lease[l].state \in TerminalStates}
           overN == {l \in Leases : lease'[l].state \in TerminalStates}
<1>1. holderN \in [Cards -> Leases \union {None}]
  BY HolderType
<1>2. ASSUME NEW c \in Cards, NEW l \in Leases
      PROVE  /\ holder[c] = l <=> c \in held[l]
             /\ holderN[c] = l <=> c \in held'[l]
  <2>1. HolderIn(held, c) = l <=> c \in held[l]
    BY HolderIsLease DEF LedgerInv, ExclusiveCards
  <2>2. HolderIn(held', c) = l <=> c \in held'[l]
    BY HolderIsLease DEF LedgerInv, ExclusiveCards
  <2> QED BY <2>1, <2>2
<1>3. ASSUME NEW c \in Cards
      PROVE  /\ holder[c] \in Leases \union {None} /\ holderN[c] \in Leases \union {None}
  BY HolderType
<1>4. ASSUME NEW l \in Leases
      PROVE  /\ {c \in Cards : holder[c] = l} = held[l]
             /\ {c \in Cards : holderN[c] = l} = held'[l]
  BY <1>2 DEF LedgerInv, TypeOK
<1>5. None \notin Leases
  BY DEF LedgerAssumption
<1>6. \A k \in Leases : lease[k].state \in TerminalStates => held[k] = {}
  BY DEF LedgerInv, LiveHoldsCards, Live, LiveStates, TerminalStates
<1>7. ASSUME NEW l \in Leases, Takes(l) PROVE Ownership!Grant(l)
  <2>1. l \in Leases \ over
    BY <1>7 DEF Takes, LiveStates, TerminalStates
  <2>2. ASSUME NEW c \in Cards, holderN[c] # holder[c]
        PROVE  \/ holder[c] = None /\ holderN[c] = l
               \/ holder[c] = l /\ holderN[c] = None
    <3>1. \A k \in Leases \ {l} : holder[c] = k <=> holderN[c] = k
      BY <1>2, <1>7 DEF Takes
    <3>2. ~(holder[c] = l /\ holderN[c] = l)
      BY <2>2
    <3> QED BY <1>3, <2>2, <3>1, <3>2
  <2>3. {c \in Cards : holderN[c] = l} # {}
    BY <1>4, <1>7 DEF Takes
  <2>4. overN = over
    BY <1>7 DEF Takes, LiveStates, TerminalStates
  <2> QED BY <1>1, <2>1, <2>2, <2>3, <2>4 DEF Ownership!Grant, Ownership!HeldBy
<1>8. CASE GivesBack
  <2>1. ASSUME NEW c \in Cards, holderN[c] # holder[c] PROVE holderN[c] = None
    <3>1. ASSUME NEW k \in Leases, holderN[c] = k PROVE FALSE
      BY <1>2, <1>8, <2>1, <3>1 DEF GivesBack
    <3> QED BY <1>3, <3>1
  <2>2. overN = over \union {l \in Leases : held[l] # {} /\ held'[l] = {}}
    <3>1. ASSUME NEW l \in Leases
          PROVE  lease'[l].state \in TerminalStates
                   <=> \/ lease[l].state \in TerminalStates
                       \/ held[l] # {} /\ held'[l] = {}
      BY <1>6, <1>8 DEF GivesBack, LiveStates, TerminalStates
    <3> QED BY <3>1
  <2>3. overN = over \union {l \in Leases : /\ {c \in Cards : holder[c] = l} # {}
                                           /\ {c \in Cards : holderN[c] = l} = {}}
    BY <1>4, <2>2
  <2> QED BY <1>1, <2>1, <2>3 DEF Ownership!Next, Ownership!GiveBack, Ownership!HeldBy
<1> QED BY <1>7, <1>8, EveryStepMovesCards DEF Ownership!Next

\* The ledger, with all its servers, sessions and readings, is an
\* implementation of CardOwnership: a card changes hands only by being free
\* in between, and a lease that is over never holds a card again.
THEOREM LedgerImplementsOwnership == Spec => ImplementsCardOwnership
<1>1. Init => Ownership!Init
  BY LedgerAssumption, OwnershipInit
<1>2. LedgerInv /\ LedgerInv' /\ [Next]_vars => [Ownership!Next]_Ownership!vars
  BY LedgerAssumption, OwnershipStep
<1> QED BY <1>1, <1>2, LedgerInvHolds, PTL DEF Spec, ImplementsCardOwnership, Ownership!Spec
=============================================================================
