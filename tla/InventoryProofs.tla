-------------------------- MODULE InventoryProofs --------------------------
(***************************************************************************)
(* Proofs about Inventory, for any servers, nodes, clusters and bounds.    *)
(*                                                                         *)
(* OneOwner is inductive: a reading puts the card on its server only when  *)
(* no other server holds a row that is not stale, and takes every stale    *)
(* one.  KeepersHaveCards needs in addition that ages stay below Absent,   *)
(* so that neither the passing of time nor a new sighting makes a row look *)
(* absent.  The action properties follow from the invariant.               *)
(***************************************************************************)
EXTENDS Inventory, TLAPS

Findings == UNION {Answers(s) : s \in Servers}

Shape ==
  /\ known \subseteq Servers
  /\ reading \in [Servers -> SUBSET [view : Findings, age : 0..MaxProbe]]
  /\ row \in [Places -> 0..Absent]
  /\ host \in [Places -> Nat]

IInv == Shape /\ OneOwner /\ KeepersHaveCards

USE InventoryAssumption

\* Ages a row may have, and that none of them reads as an absence.
LEMMA Ages ==
  /\ OldHost \in Nat /\ OldRow \in Nat /\ Absent \in Nat /\ OldRow < Absent /\ MaxProbe < Absent /\ Stale < Absent
BY DEF OldHost, OldRow, Absent

\* The places of one server are those whose first component it is.
LEMMA PlaceOfServer ==
  ASSUME NEW p \in Places
  PROVE  p[1] \in Servers /\ p \in PlacesOf(p[1])
BY DEF Places, PlacesOf

LEMMA CurrentPlaces ==
  ASSUME NEW s \in Servers, NEW r, NEW p \in Current(s, r)
  PROVE  p \in Places /\ p[1] = s /\ p[2] \in NodesOf[s] /\ r.age <= host[p]
<1>1. PICK n \in NodesOf[s] : r.view[n] # "failed" /\ r.age <= host[<<s, n>>] /\ p = <<s, n>>
  BY DEF Current
<1>2. p \in Places
  BY <1>1 DEF Places
<1> QED BY <1>1, <1>2

\* A reading that still counted for something is gone after it was settled.
LEMMA SettledReading ==
  ASSUME Shape, NEW s \in Servers, NEW r \in reading[s], Settled(s, r)
  PROVE  /\ reading' \in [Servers -> SUBSET [view : Findings, age : 0..MaxProbe]]
         /\ r \in reading[s] \ reading'[s]
         /\ \A t \in Servers : \A q \in reading[t] \ reading'[t] : t = s /\ q = r
BY DEF Shape, Settled

-----------------------------------------------------------------------------
(* One reading *)

\* Who has the card after a reading: whoever had it and keeps it, or the server
\* that was read.
LEMMA RowsKeepOneOwner ==
  ASSUME IInv, NEW s \in Servers, NEW r,
         NEW p \in Places, NEW q \in Places,
         Rows(s, r)[p] # Absent, Rows(s, r)[q] # Absent
  PROVE  p[1] = q[1]
<1>1. ASSUME NEW x \in Places, NEW y \in Places, x \in Found(s, r), y \notin Found(s, r),
             Rows(s, r)[x] # Absent, Rows(s, r)[y] # Absent
      PROVE  y[1] = s
  <2>1. row[y] # Absent /\ y \notin HandedOver(s, r)
    BY <1>1 DEF Rows
  <2>2. ~Contested(s, r)
    BY <1>1 DEF Rows
  <2>3. SUFFICES ASSUME y[1] # s PROVE FALSE
    OBVIOUS
  <2>4. y \in Siblings(s)
    BY <2>1, <2>3 DEF Siblings, Present
  <2>5. StaleFor(y, r)
    BY <2>2, <2>4 DEF Contested
  <2>6. y \in HandedOver(s, r)
    BY <1>1, <2>4, <2>5 DEF HandedOver
  <2> QED BY <2>1, <2>6
<1>2. \A x \in Found(s, r) : x[1] = s
  BY CurrentPlaces DEF Found
<1>3. CASE p \notin Found(s, r) /\ q \notin Found(s, r)
  BY <1>3 DEF Rows, IInv, OneOwner, Present
<1> QED BY <1>1, <1>2, <1>3

\* What a reading takes away: the card of a node it found without, of a server
\* that lost it, or of its own node when another server has the card.
LEMMA RowsTakenAway ==
  ASSUME Shape, NEW s \in Servers, NEW r \in reading[s],
         NEW p \in Present, Rows(s, r)[p] = Absent
  PROVE  \/ p \in Missing(s, r)
         \/ p \in HandedOver(s, r)
         \/ p \in Found(s, r) /\ Contested(s, r)
<1>1. r.age # Absent
  BY Ages DEF Shape
<1> QED BY <1>1 DEF Rows, Present

LEMMA RowsShape ==
  ASSUME Shape, NEW s \in Servers, NEW r \in reading[s]
  PROVE  Rows(s, r) \in [Places -> 0..Absent]
<1>1. r.age \in 0..Absent /\ Absent \in 0..Absent
  BY Ages DEF Shape
<1> QED BY <1>1 DEF Rows, Shape

-----------------------------------------------------------------------------
(* The invariant *)

LEMMA InitIInv == Init => IInv
BY Ages DEF Init, IInv, Shape, OneOwner, KeepersHaveCards, Present

\* Steps that put no card anywhere keep OneOwner.
LEMMA FewerPresent ==
  ASSUME OneOwner, Present' \subseteq Present
  PROVE  OneOwner'
BY DEF OneOwner

LEMMA IngestIInv ==
  ASSUME IInv, NEW s \in Servers, NEW r \in reading[s], Ingest(s, r)
  PROVE  IInv'
<1>1. Shape'
  <2>1. row' \in [Places -> 0..Absent]
    BY RowsShape DEF Ingest, IInv, Shape
  <2>2. HostAfter(s, r) \in [Places -> Nat]
    BY DEF HostAfter, IInv, Shape
  <2>3. host' \in [Places -> Nat]
    BY <2>2, Ages DEF Ingest, Overtaken, IInv, Shape
  <2> QED BY <2>1, <2>3, SettledReading DEF Ingest, IInv, Shape
<1>2. CASE Ignored(s, r)
  BY <1>1, <1>2 DEF Ingest, IInv, OneOwner, KeepersHaveCards, Present
<1>3. CASE ~Ignored(s, r)
  <2>1. row' = Rows(s, r)
    BY <1>3 DEF Ingest
  <2>2. OneOwner'
    BY <2>1, RowsKeepOneOwner DEF OneOwner, Present
  <2>3. KeepersHaveCards'
    <3>1. SUFFICES ASSUME NEW p \in keepers', Rows(s, r)[p] = Absent
                   PROVE  FALSE
      <4>1. keepers' \subseteq keepers
        BY <1>3 DEF Ingest
      <4> QED BY <4>1, <2>1 DEF IInv, KeepersHaveCards, Present
    <3>2. p \in Present /\ p \in Places
      BY <1>3 DEF Ingest, IInv, KeepersHaveCards, Present
    <3>3. \/ p \in Missing(s, r) \/ p \in HandedOver(s, r)
          \/ p \in Found(s, r) /\ Contested(s, r)
      BY <3>1, <3>2, RowsTakenAway DEF IInv
    <3>4. Found(s, r) \union Missing(s, r) # {}
      BY <3>3 DEF HandedOver
    <3>5. p \notin Reconciled(s, r)
      BY <1>3, <3>1, <3>4 DEF Ingest
    <3>6. p \in PlacesOf(p[1])
      BY <3>2, PlaceOfServer
    <3>7. p \in Found(s, r) \union Missing(s, r) => p[1] = s
      BY CurrentPlaces DEF Found, Missing
    <3> QED BY <3>3, <3>5, <3>6, <3>7 DEF Reconciled
  <2> QED BY <1>1, <2>2, <2>3 DEF IInv
<1> QED BY <1>2, <1>3

LEMMA TickIInv == ASSUME IInv, Tick PROVE IInv' /\ Present' = Present
<1>1. \A p \in Places : row'[p] \in 0..Absent /\ (row'[p] = Absent <=> row[p] = Absent)
  BY Ages DEF IInv, Shape, Tick, Older
<1>2. Present' = Present
  BY <1>1 DEF Present
<1>3. \A s \in Servers : \A r \in reading[s] :
        [r EXCEPT !.age = @ + 1] \in [view : Findings, age : 0..MaxProbe]
  <2>1. TAKE s \in Servers
  <2>2. TAKE r \in reading[s]
  <2>3. r \in [view : Findings, age : 0..MaxProbe] /\ r.age # MaxProbe
    BY DEF IInv, Shape, Tick, Overdue
  <2>4. r.age + 1 \in 0..MaxProbe
    BY <2>3
  <2> QED BY <2>3, <2>4
<1>4. Shape'
  <2>1. reading' \in [Servers -> SUBSET [view : Findings, age : 0..MaxProbe]]
    BY <1>3 DEF Tick
  <2>2. row' \in [Places -> 0..Absent]
    BY <1>1 DEF Tick
  <2>3. host' \in [Places -> Nat]
    BY Ages DEF Tick, Older, IInv, Shape
  <2> QED BY <2>1, <2>2, <2>3 DEF Shape, IInv, Tick
<1>5. OneOwner' /\ KeepersHaveCards'
  BY <1>2, FewerPresent DEF IInv, KeepersHaveCards, Tick
<1> QED BY <1>2, <1>4, <1>5 DEF IInv

LEMMA DeleteIInv == ASSUME IInv, NEW s \in Servers, Delete(s) PROVE IInv'
<1>1. Shape'
  BY Ages DEF IInv, Shape, Delete
<1>2. Present' = {p \in Present : p[1] # s}
  BY DEF Present, Delete, IInv, Shape
<1>3. OneOwner'
  BY <1>2, FewerPresent DEF IInv
<1>4. KeepersHaveCards'
  <2>1. \A p \in keepers' : p \in Present /\ p \notin PlacesOf(s)
    BY DEF Delete, IInv, KeepersHaveCards
  <2>2. \A p \in keepers' : p[1] # s
    BY <2>1, PlaceOfServer DEF Present
  <2> QED BY <1>2, <2>1, <2>2 DEF KeepersHaveCards
<1> QED BY <1>1, <1>3, <1>4 DEF IInv

LEMMA StepIInv == IInv /\ [Next]_vars => IInv'
<1>1. SUFFICES ASSUME IInv, [Next]_vars PROVE IInv'
  OBVIOUS
<1>2. CASE Tick
  BY <1>1, <1>2, TickIInv
<1>3. ASSUME NEW s \in Servers, Create(s) PROVE IInv'
  BY <1>1, <1>3 DEF Create, IInv, Shape, OneOwner, KeepersHaveCards, Present
<1>4. ASSUME NEW s \in Servers, Delete(s) PROVE IInv'
  BY <1>1, <1>4, DeleteIInv
<1>5. ASSUME NEW s \in Servers, Probe(s) PROVE IInv'
  <2>1. PICK v \in Answers(s) : reading' = [reading EXCEPT ![s] = @ \union {[view |-> v, age |-> 0]}]
    BY <1>5 DEF Probe
  <2>2. [view |-> v, age |-> 0] \in [view : Findings, age : 0..MaxProbe]
    BY DEF Findings
  <2>3. reading' \in [Servers -> SUBSET [view : Findings, age : 0..MaxProbe]]
    BY <1>1, <2>1, <2>2 DEF IInv, Shape
  <2> QED BY <1>1, <1>5, <2>3 DEF Probe, IInv, Shape, OneOwner, KeepersHaveCards, Present
<1>6. ASSUME NEW s \in Servers, NEW r \in reading[s], Settle(s, r) PROVE IInv'
  <2>1. CASE Ingest(s, r)
    BY <1>1, <2>1, IngestIInv
  <2>2. CASE Fail(s, r) \/ Drop(s, r)
    BY <1>1, <2>2, SettledReading DEF Fail, Drop, IInv, Shape, OneOwner, KeepersHaveCards, Present
  <2> QED BY <1>6, <2>1, <2>2 DEF Settle
<1>7. ASSUME NEW p \in Places, StartKeeper(p) PROVE IInv'
  <2>1. row[p] # Absent
    BY <1>1, <1>7, Ages DEF StartKeeper, IInv, Shape
  <2> QED BY <1>1, <1>7, <2>1 DEF StartKeeper, IInv, Shape, OneOwner, KeepersHaveCards, Present
<1>8. ASSUME NEW p \in Places, StopKeeper(p) PROVE IInv'
  BY <1>1, <1>8 DEF StopKeeper, IInv, Shape, OneOwner, KeepersHaveCards, Present
<1>9. CASE UNCHANGED vars
  BY <1>1, <1>9 DEF vars, IInv, Shape, OneOwner, KeepersHaveCards, Present
<1> QED BY <1>1, <1>2, <1>3, <1>4, <1>5, <1>6, <1>7, <1>8, <1>9 DEF Next

LEMMA AlwaysIInv == Spec => []IInv
BY InitIInv, StepIInv, PTL DEF Spec

-----------------------------------------------------------------------------
(* Theorems *)

\* Of any number of servers at most one offers the card, whatever the order in
\* which their readings are recorded (_converge_gpu_uuid_ownership).
THEOREM CardHasOneOwner == Spec => []OneOwner
BY AlwaysIInv, PTL DEF IInv

\* A keepalive lease never outlives the card's row (_release_absent_keepalive_leases).
THEOREM KeepersKeepTheirCards == Spec => []KeepersHaveCards
BY AlwaysIInv, PTL DEF IInv

\* A card leaves a server's inventory only on a reading of that server without
\* it, or on one of another server begun more than Stale after it was seen.
THEOREM CardIsKeptWhileSeen == Spec => CardIsNotTakenWhileSeen
<1> DEFINE Taken(p) ==
      \E s \in Servers : \E r \in reading[s] \ reading'[s] :
        IF s = p[1] THEN r.view # NoAnswer /\ r.view[p[2]] = "none"
        ELSE row[p] > r.age + Stale
<1>1. ASSUME IInv, [Next]_vars, NEW p \in Places, p \in Present, p \notin Present', p[1] \in known'
      PROVE  Taken(p)
  <2>1. CASE Tick
    BY <1>1, <2>1, TickIInv
  <2>2. ASSUME NEW s \in Servers, Delete(s) PROVE FALSE
    <3>1. row[p] # Absent /\ p[1] # s /\ row'[p] = Absent
      BY <1>1, <2>2 DEF Delete, Present
    <3> QED BY <2>2, <3>1 DEF Delete
  <2>3. ASSUME NEW s \in Servers, NEW r \in reading[s], Ingest(s, r) PROVE Taken(p)
    <3>1. row' = Rows(s, r) /\ Rows(s, r)[p] = Absent
      BY <1>1, <2>3 DEF Ingest, Present
    <3>2. r \in reading[s] \ reading'[s] /\ r.view # NoAnswer
      BY <1>1, <2>3, SettledReading DEF Ingest, IInv
    <3>3. CASE p \in Missing(s, r)
      BY <3>2, <3>3, CurrentPlaces DEF Missing
    <3>4. CASE p \in HandedOver(s, r)
      BY <3>2, <3>4 DEF HandedOver, Siblings, StaleFor
    <3>5. CASE p \in Found(s, r) /\ Contested(s, r)
      <4>1. p[1] = s
        BY <3>5, CurrentPlaces DEF Found
      <4>2. PICK q \in Siblings(s) : TRUE
        BY <3>5 DEF Contested
      <4> QED BY <1>1, <4>1, <4>2 DEF Siblings, IInv, OneOwner
    <3> QED BY <1>1, <2>3, <3>1, <3>3, <3>4, <3>5, RowsTakenAway DEF IInv
  <2>4. CASE row' = row
    BY <1>1, <2>4 DEF Present
  <2>5. \/ Tick \/ row' = row \/ \E s \in Servers : Delete(s) \/ \E r \in reading[s] : Ingest(s, r)
    BY <1>1 DEF Next, vars, Create, Probe, Settle, Fail, Drop, StartKeeper, StopKeeper
  <2> QED BY <2>1, <2>2, <2>3, <2>4, <2>5
<1>2. IInv /\ [Next]_vars =>
        [\A p \in Places : (p \in Present /\ p \notin Present' /\ p[1] \in known') => Taken(p)]_vars
  BY <1>1
<1> QED BY <1>2, AlwaysIInv, PTL DEF Spec, CardIsNotTakenWhileSeen

\* What is older than what is known of a node changes nothing there.
THEOREM OldNewsIsIgnored == Spec => OldNewsChangesNothing
<1> DEFINE Kept(p) == row'[p] = row[p] /\ host'[p] \in {host[p], OldHost}
<1>1. ASSUME IInv, [Next]_vars, ~Tick,
             NEW s \in known, NEW r \in reading[s] \ reading'[s], NEW n \in NodesOf[s],
             r.age > host[<<s, n>>]
      PROVE  Kept(<<s, n>>)
  <2>1. s \in Servers /\ <<s, n>> \in Places
    BY <1>1 DEF IInv, Shape, Places
  <2>2. ASSUME NEW t \in Servers, NEW q \in reading[t], Ingest(t, q) PROVE Kept(<<s, n>>)
    <3>1. t = s /\ q = r
      BY <1>1, <2>1, <2>2, SettledReading DEF Ingest, IInv
    <3>2. CASE Ignored(s, r)
      BY <2>2, <3>1, <3>2 DEF Ingest
    <3>3. CASE ~Ignored(s, r)
      <4>1. <<s, n>> \notin Current(s, r)
        <5>1. r.age \in Nat /\ host[<<s, n>>] \in Nat
          BY <1>1, <2>1 DEF IInv, Shape
        <5>2. ~(r.age <= host[<<s, n>>])
          BY <1>1, <5>1
        <5> QED BY <5>2, CurrentPlaces, <2>1
      <4>2. <<s, n>> \notin HandedOver(s, r)
        BY DEF HandedOver, Siblings
      <4>3. Rows(s, r)[<<s, n>>] = row[<<s, n>>]
        BY <2>1, <4>1, <4>2 DEF Rows, Found, Missing
      <4>4. HostAfter(s, r)[<<s, n>>] = host[<<s, n>>]
        BY <2>1, <4>1 DEF HostAfter
      <4>5. host'[<<s, n>>] \in {HostAfter(s, r)[<<s, n>>], OldHost}
        BY <2>1, <2>2, <3>1, <3>3 DEF Ingest, Overtaken
      <4> QED BY <2>2, <3>1, <3>3, <4>3, <4>4, <4>5 DEF Ingest
    <3> QED BY <3>2, <3>3
  <2>3. ASSUME NEW t \in Servers, Delete(t) PROVE FALSE
    BY <1>1, <2>1, <2>3 DEF Delete
  <2>4. CASE row' = row /\ host' = host
    BY <2>4
  <2>5. \/ row' = row /\ host' = host
        \/ \E t \in Servers : Delete(t) \/ \E q \in reading[t] : Ingest(t, q)
    BY <1>1 DEF Next, vars, Create, Probe, Settle, Fail, Drop, StartKeeper, StopKeeper
  <2> QED BY <2>2, <2>3, <2>4, <2>5
<1>2. IInv /\ [Next]_vars =>
        [Tick \/ \A s \in known : \A r \in reading[s] \ reading'[s] : \A n \in NodesOf[s] :
                   r.age > host[<<s, n>>] => Kept(<<s, n>>)]_vars
  BY <1>1
<1> QED BY <1>2, AlwaysIInv, PTL DEF Spec, OldNewsChangesNothing
=============================================================================
