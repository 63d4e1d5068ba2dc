------------------------- MODULE IdleReclaimProofs -------------------------
(***************************************************************************)
(* Proofs about IdleReclaim, for any servers, cards and durations.         *)
(*                                                                         *)
(* Shape orders the timestamps of each sighting and each row; Fresh says   *)
(* that what a clock has counted was read lately.  Both hold whatever the  *)
(* App moves, and so does the bound on keeping.  ClockIsObservedTime, and  *)
(* TakenAfterObservedIdleness that rests on it, hold of a lease that is    *)
(* not moved: a moved lease finds the clock of a row it had before.        *)
(***************************************************************************)
EXTENDS IdleReclaim, FiniteSetTheorems, WellFoundedInduction, TLAPS

Sightings == [active : BOOLEAN, seen : Moments, absent : Moments]
Rows == [held : BOOLEAN, since : Moments, checked : Moments, windows : 0..MaxWindows]
Clocks == [idle : Times, last : Moments]

\* At time t, a process was left out after it was seen.
SightAt(g, t) ==
  /\ g \in Sightings /\ g.seen <= t
  /\ g.absent # Never => g.seen < g.absent /\ g.absent <= t

\* At time t, a row's streak began before it was last looked at.
RowAt(r, t) ==
  /\ r \in Rows /\ r.checked <= t
  /\ r.since # Never => r.checked # Never /\ r.since <= r.checked

ClockAt(p, t) ==
  /\ p \in Clocks /\ p.last <= t
  /\ IF p.last = Never THEN p.idle = 0 ELSE p.idle <= p.last

Shape ==
  /\ now \in Times /\ heartbeat \in Times /\ runs \subseteq Cards /\ bound \in BOOLEAN
  /\ read \in [Cards -> Times] /\ \A c \in Cards : read[c] <= now
  /\ sight \in [Cards -> Sightings] /\ \A c \in Cards : SightAt(sight[c], now)
  /\ row \in [Cards -> Rows] /\ \A c \in Cards : RowAt(row[c], now)
  /\ spent \in [Cards -> Clocks] /\ \A c \in Cards : ClockAt(spent[c], now)

\* A clock counts up to a look at a card that had been read within Stale.
Fresh == \A c \in Cards : spent[c].last # Never => spent[c].last - read[c] <= Stale

IInv == Shape /\ Fresh

-----------------------------------------------------------------------------
(* Numbers and bounded sets *)

LEMMA Durations ==
  /\ Stale \in Nat /\ OutageReset \in Nat /\ Alert \in Nat /\ CardReclaim \in Nat
  /\ LeaseReclaim \in Nat /\ Grace \in Nat /\ Horizon \in Nat /\ MaxWindows \in Nat
  /\ 0 < Stale /\ Stale < OutageReset /\ 0 < Grace /\ 0 < CardReclaim /\ Alert <= LeaseReclaim
  /\ 1 <= MaxWindows
BY IdleReclaimAssumption DEF IdleReclaimAssumption

LEMMA Hosts == HostOf \in [Cards -> Servers] /\ Movable \subseteq Cards
BY IdleReclaimAssumption DEF IdleReclaimAssumption

\* A set of moments that is not empty has a latest one.
LEMMA LatestMoment ==
  ASSUME NEW S, S \subseteq Moments, S # {}
  PROVE  \E m \in S : \A k \in S : k <= m
<1> DEFINE After(m) == 0 .. (Horizon - m)
           T == {After(m) : m \in S}
<1>1. Horizon \in Nat /\ \A m \in S : m \in Int /\ m <= Horizon
  BY Durations DEF Moments, Times, Never
<1>2. T \subseteq FiniteSubsetsOf(Nat)
  <2> SUFFICES ASSUME NEW m \in S PROVE After(m) \in FiniteSubsetsOf(Nat)
    OBVIOUS
  <2>1. IsFiniteSet(After(m))
    BY <1>1, FS_Interval
  <2>2. After(m) \subseteq Nat
    BY <1>1
  <2> QED BY <2>1, <2>2 DEF FiniteSubsetsOf
<1>3. PICK x \in T : \A y \in T : ~(<<y, x>> \in StrictSubsetOrdering(Nat))
  <2>1. T # {}
    OBVIOUS
  <2>2. IsWellFoundedOn(StrictSubsetOrdering(Nat), FiniteSubsetsOf(Nat))
    BY FS_StrictSubsetOrderingWellFounded
  <2> HIDE DEF T
  <2> QED BY <1>2, <2>1, <2>2, WFMin
<1>4. PICK m \in S : x = After(m)
  BY <1>3
<1>5. ASSUME NEW k \in S, m < k PROVE FALSE
  <2>1. After(k) \in T /\ ~(<<After(k), After(m)>> \in StrictSubsetOrdering(Nat))
    BY <1>3, <1>4
  <2>2. m \in Int /\ k \in Int /\ m <= Horizon /\ k <= Horizon /\ m < k
    BY <1>1, <1>5
  <2>3. After(k) \subseteq After(m) /\ After(m) \subseteq Nat
    BY <1>1, <2>2
  <2>4. (Horizon - m) \in After(m) /\ (Horizon - m) \notin After(k)
    BY <1>1, <2>2
  <2>5. After(k) # After(m)
    BY <2>4
  <2>6. <<After(k), After(m)>> \in (SUBSET Nat) \X (SUBSET Nat)
    BY <2>3
  <2> HIDE DEF After
  <2> QED BY <2>1, <2>3, <2>5, <2>6 DEF StrictSubsetOrdering
<1> QED BY <1>1, <1>5

-----------------------------------------------------------------------------
(* One reading *)

\* What a reading, or a failed attempt, makes of the sighting on a card: one
\* that was active stays so until a listing left the process out and the
\* grace has passed.
LEMMA SightStep ==
  ASSUME Shape, NEW c \in Cards, NEW complete \in BOOLEAN
  PROVE  /\ SightAt(SightAfter(c, complete), now)
         /\ sight[c].active /\ ~SightAfter(c, complete).active =>
              sight[c].absent # Never /\ now - sight[c].seen > Grace
<1> DEFINE g == sight[c]
           fresh == [active |-> TRUE, seen |-> now, absent |-> Never]
           back == [g EXCEPT !.absent = Never]
           gone == [g EXCEPT !.active = FALSE, !.absent = Never]
           left == [g EXCEPT !.absent = now]
<1>1. g \in Sightings /\ SightAt(g, now) /\ now \in Times
  BY DEF Shape
<1>2. fresh \in Sightings /\ fresh.active /\ fresh.seen = now /\ fresh.absent = Never
  BY <1>1 DEF Sightings, Moments, Times
<1>3. /\ back \in Sightings /\ back.active = g.active /\ back.seen = g.seen /\ back.absent = Never
      /\ gone \in Sightings /\ gone.seen = g.seen /\ gone.absent = Never
      /\ left \in Sightings /\ left.active = g.active /\ left.seen = g.seen /\ left.absent = now
  BY <1>1 DEF Sightings, Moments, Times
<1>4. g.active \in BOOLEAN /\ g.seen \in Int /\ g.absent \in Int /\ now \in Int /\ now # Never
  BY <1>1, Durations DEF Sightings, Moments, Times, Never
<1>5. /\ g.seen <= now
      /\ g.absent # Never => g.seen < g.absent /\ g.absent <= now
  BY <1>1 DEF SightAt
<1>6. SightAfter(c, complete) =
        IF complete /\ c \in runs THEN fresh
        ELSE IF ~g.active THEN g
        ELSE IF ~complete THEN back
        ELSE IF Retired(g) THEN gone
        ELSE IF g.absent = Never /\ g.seen < now THEN left
        ELSE g
  BY DEF SightAfter
<1> HIDE DEF fresh, back, gone, left
<1>7. SightAt(fresh, now) /\ SightAt(back, now) /\ SightAt(gone, now)
  BY <1>2, <1>3, <1>4, <1>5 DEF SightAt
<1>8. g.seen < now => SightAt(left, now)
  BY <1>3, <1>4, <1>5 DEF SightAt
<1>9. SightAt(SightAfter(c, complete), now)
  BY <1>1, <1>6, <1>7, <1>8
<1>10. ASSUME sight[c].active, ~SightAfter(c, complete).active
       PROVE  sight[c].absent # Never /\ now - sight[c].seen > Grace
  <2>1. Retired(g)
    BY <1>2, <1>3, <1>6, <1>10
  <2> QED BY <2>1, <1>4, <1>5, Durations DEF Retired
<1> QED BY <1>9, <1>10

\* Advancing a row's clock keeps its timestamps in order; a look that finds
\* the card idle leaves it running.
LEMMA AdvanceStep ==
  ASSUME Shape, NEW r, RowAt(r, now), NEW idleness
  PROVE  /\ RowAt(Advanced(r, idleness), now)
         /\ Advanced(r, idleness).held = r.held
         /\ Advanced(r, idleness).windows = r.windows
         /\ idleness = "idle" => Advanced(r, idleness).since # Never
<1> DEFINE off == [r EXCEPT !.since = Never, !.checked = Never]
           since == IF LongOutage(r) \/ Anchor(r) = Never THEN now ELSE Anchor(r)
           on == [r EXCEPT !.checked = now, !.since = since]
<1>1. /\ r \in Rows /\ now \in Times /\ r.since \in Int /\ r.checked \in Int /\ now \in Int
      /\ r.checked <= now /\ r.since >= Never /\ now # Never /\ Never <= now
      /\ r.since # Never => r.checked # Never /\ r.since <= r.checked
  BY Durations DEF RowAt, Rows, Shape, Moments, Times, Never
<1>2. Anchor(r) \in Int /\ (Anchor(r) # Never => Anchor(r) <= now /\ r.since <= Anchor(r) /\ r.since # Never)
  BY <1>1, Durations DEF Anchor, Never
<1>3. since \in Times /\ since <= now /\ since # Never
  BY <1>1, <1>2, Durations DEF Times, Never
<1>4. off \in Rows /\ off.since = Never /\ off.checked = Never /\ off.held = r.held /\ off.windows = r.windows
  BY <1>1 DEF Rows, Moments
<1> HIDE DEF since
<1>5. on \in Rows /\ on.since = since /\ on.checked = now /\ on.held = r.held /\ on.windows = r.windows
  BY <1>1, <1>3 DEF Rows, Moments
<1>6. Advanced(r, idleness) =
        IF idleness = "busy" \/ (idleness = "unknown" /\ LongOutage(r)) THEN off
        ELSE IF idleness = "unknown" THEN r ELSE on
  BY DEF Advanced, since
<1> HIDE DEF off, on
<1>7. RowAt(off, now) /\ RowAt(on, now)
  BY <1>1, <1>3, <1>4, <1>5 DEF RowAt, Never
<1> QED BY <1>3, <1>4, <1>5, <1>6, <1>7

\* A row that leaves the lease, or starts over, keeps its timestamps in order.
LEMMA EmptiedRow ==
  ASSUME NEW r, NEW t, RowAt(r, t)
  PROVE  /\ RowAt([r EXCEPT !.held = FALSE, !.since = Never, !.windows = 0], t)
         /\ ~[r EXCEPT !.held = FALSE, !.since = Never, !.windows = 0].held
         /\ RowAt([r EXCEPT !.held = TRUE, !.since = Never, !.windows = 0], t)
         /\ [r EXCEPT !.held = TRUE, !.since = Never, !.windows = 0].since = Never
<1> DEFINE out == [r EXCEPT !.held = FALSE, !.since = Never, !.windows = 0]
           in == [r EXCEPT !.held = TRUE, !.since = Never, !.windows = 0]
<1>1. r \in Rows /\ r.checked <= t
  BY DEF RowAt
<1>2. 0 \in 0..MaxWindows /\ Never \in Moments
  BY Durations DEF Moments
<1>3. out \in Rows /\ ~out.held /\ out.since = Never /\ out.checked = r.checked
  BY <1>1, <1>2 DEF Rows
<1>4. in \in Rows /\ in.since = Never /\ in.checked = r.checked
  BY <1>1, <1>2 DEF Rows
<1> HIDE DEF out, in
<1>5. RowAt(out, t) /\ RowAt(in, t)
  BY <1>1, <1>3, <1>4 DEF RowAt
<1> QED BY <1>3, <1>4, <1>5 DEF out, in

\* The row of a card after a look at its lease.
LEMMA RowStep ==
  ASSUME Shape, NEW c \in Cards, NEW g, NEW t, NEW heard
  PROVE  RowAt(RowAfter(c, g, t, heard), now)
<1> DEFINE r == Advanced(row[c], Idleness(c, g, t))
           kept == [r EXCEPT !.windows = 0]
<1>1. RowAt(row[c], now)
  BY DEF Shape
<1>2. RowAt(r, now)
  BY <1>1, AdvanceStep
<1>3. RowAt([r EXCEPT !.held = FALSE, !.since = Never, !.windows = 0], now)
  BY <1>2, EmptiedRow
<1>4. RowAt(kept, now)
  <2> HIDE DEF r
  <2>1. r \in Rows
    BY <1>2 DEF RowAt
  <2>2. kept \in Rows /\ kept.since = r.since /\ kept.checked = r.checked
    BY <2>1, Durations DEF Rows
  <2> HIDE DEF kept
  <2> QED BY <1>2, <2>2 DEF RowAt
<1> QED BY <1>1, <1>2, <1>3, <1>4 DEF RowAfter

\* The accumulated clock: it never exceeds the time that passed, and what it
\* counts was read within Stale.
LEMMA ClockStep ==
  ASSUME Shape, Fresh, NEW c \in Cards, NEW g, NEW t,
         t[c] \in Times, read[c] <= t[c], t[c] <= now
  PROVE  /\ ClockAt(SpentAfter(c, g, t), now)
         /\ SpentAfter(c, g, t).last # Never => SpentAfter(c, g, t).last - t[c] <= Stale
<1> DEFINE p == spent[c]
           gap == now - p.last
           i == Idleness(c, g, t)
           first == [idle |-> 0, last |-> now]
           sum == p.idle + (IF gap <= Stale THEN gap ELSE 0)
           more == [idle |-> sum, last |-> now]
<1>1. /\ p \in Clocks /\ p.idle \in Times /\ p.last \in Moments /\ now \in Times
      /\ p.last <= now /\ (IF p.last = Never THEN p.idle = 0 ELSE p.idle <= p.last)
  BY DEF Shape, ClockAt, Clocks
<1>2. p.idle \in Int /\ p.idle >= 0 /\ p.last \in Int /\ now \in Int /\ now # Never /\ 0 <= now
      /\ now <= Horizon /\ Horizon \in Nat /\ Stale \in Nat /\ Never \in Int
  BY <1>1, Durations DEF Times, Moments, Never
<1>3. ClockAt(NotSpent, now) /\ NotSpent.last = Never
  BY <1>1, <1>2 DEF ClockAt, NotSpent, Clocks, Times, Moments, Never
<1>4. ClockAt(first, now)
  BY <1>1, <1>2 DEF ClockAt, Clocks, Times, Moments
<1>5. p.last # Never => sum \in Times /\ sum <= now
  BY <1>1, <1>2 DEF Times
<1>6. p.last # Never => ClockAt(more, now)
  <2> HIDE DEF sum
  <2> QED BY <1>1, <1>2, <1>5 DEF ClockAt, Clocks, Times, Moments
<1>7. ClockAt(p, now)
  BY DEF Shape
<1>8. i = "idle" => now - t[c] <= Stale
  BY DEF Idleness
<1>9. i \in {"busy", "idle", "unknown"}
  BY DEF Idleness
<1>10. p.last # Never => p.last - t[c] <= Stale
  <2>1. p.last # Never => p.last - read[c] <= Stale
    BY DEF Fresh
  <2>2. read[c] \in Int /\ t[c] \in Int
    BY Durations DEF Shape, Times
  <2> QED BY <1>2, <2>1, <2>2
<1>11. SpentAfter(c, g, t) =
         IF \/ ~row[c].held \/ i = "busy"
            \/ i = "unknown" /\ p.last # Never /\ gap >= OutageReset
         THEN NotSpent
         ELSE IF i = "unknown" THEN p
         ELSE IF p.last = Never \/ gap >= OutageReset THEN first ELSE more
  BY DEF SpentAfter
<1>12. first.last = now /\ more.last = now
  OBVIOUS
<1> HIDE DEF i, first, more
<1> QED BY <1>3, <1>4, <1>6, <1>7, <1>8, <1>9, <1>10, <1>11, <1>12

\* The two timestamps of a row, and the accumulated clock.
Agrees(r, p) ==
  IF r.since = Never THEN p.last = Never
  ELSE r.checked = p.last /\ r.checked - r.since = p.idle

\* The timestamps count at least what the accumulated clock does.
NoShorter(r, p) ==
  p.last # Never => r.since # Never /\ r.checked = p.last /\ r.checked - r.since >= p.idle

\* A look moves both alike.
LEMMA AgreeStep ==
  ASSUME Shape, NEW c \in Cards, row[c].held, Agrees(row[c], spent[c]), NEW g, NEW t
  PROVE  Agrees(Advanced(row[c], Idleness(c, g, t)), SpentAfter(c, g, t))
<1> DEFINE r == row[c]
           p == spent[c]
           gap == now - p.last
           i == Idleness(c, g, t)
           off == [r EXCEPT !.since = Never, !.checked = Never]
           since == IF LongOutage(r) \/ Anchor(r) = Never THEN now ELSE Anchor(r)
           on == [r EXCEPT !.checked = now, !.since = since]
           first == [idle |-> 0, last |-> now]
           sum == p.idle + (IF gap <= Stale THEN gap ELSE 0)
           more == [idle |-> sum, last |-> now]
<1>1. /\ r \in Rows /\ now \in Int /\ r.since \in Int /\ r.checked \in Int /\ 0 <= now
      /\ r.checked <= now /\ r.since >= Never
      /\ r.since # Never => r.checked # Never /\ r.since <= r.checked
      /\ p.last \in Int /\ p.idle \in Int /\ p.idle >= 0
  BY Durations DEF RowAt, Rows, Shape, Moments, Times, Never, ClockAt, Clocks
<1>2. i \in {"busy", "idle", "unknown"}
  BY DEF Idleness
<1>3. off.since = Never /\ on.since = since /\ on.checked = now
  BY <1>1 DEF Rows
<1>4. Advanced(r, i) =
        IF i = "busy" \/ (i = "unknown" /\ LongOutage(r)) THEN off
        ELSE IF i = "unknown" THEN r ELSE on
  BY DEF Advanced
<1>5. SpentAfter(c, g, t) =
         IF i = "busy" \/ (i = "unknown" /\ p.last # Never /\ gap >= OutageReset)
         THEN NotSpent
         ELSE IF i = "unknown" THEN p
         ELSE IF p.last = Never \/ gap >= OutageReset THEN first ELSE more
  BY DEF SpentAfter
<1>6. NotSpent.last = Never /\ first.last = now /\ first.idle = 0 /\ more.last = now /\ more.idle = sum
  BY DEF NotSpent
<1>7. LongOutage(r) <=> r.checked # Never /\ now - r.checked >= OutageReset
  BY DEF LongOutage
<1>8. Anchor(r) = IF r.since = Never \/ r.checked = Never \/ now - r.checked <= Stale THEN r.since
                  ELSE r.since + (now - r.checked)
  BY DEF Anchor
<1>9. IF r.since = Never THEN p.last = Never ELSE r.checked = p.last /\ r.checked - r.since = p.idle
  BY DEF Agrees
<1>10. CASE i = "busy"
  BY <1>3, <1>4, <1>5, <1>6, <1>10 DEF Agrees
<1>11. CASE i = "unknown"
  <2>1. CASE LongOutage(r)
    BY <1>3, <1>4, <1>5, <1>6, <1>7, <1>9, <1>11, <2>1 DEF Agrees
  <2>2. CASE ~LongOutage(r)
    BY <1>1, <1>4, <1>5, <1>6, <1>7, <1>9, <1>11, <2>2 DEF Agrees
  <2> QED BY <2>1, <2>2
<1>12. CASE i = "idle"
  <2>1. Advanced(r, i) = on
    BY <1>4, <1>12
  <2>2. CASE r.since = Never
    <3>1. since = now /\ SpentAfter(c, g, t) = first
      BY <1>5, <1>8, <1>9, <1>12, <2>2
    <3> QED BY <1>1, <1>3, <1>6, <2>1, <3>1 DEF Agrees, Never
  <2>3. CASE r.since # Never /\ LongOutage(r)
    <3>1. since = now /\ SpentAfter(c, g, t) = first
      BY <1>1, <1>5, <1>7, <1>9, <1>12, <2>3
    <3> QED BY <1>1, <1>3, <1>6, <2>1, <3>1 DEF Agrees, Never
  <2>4. CASE r.since # Never /\ ~LongOutage(r)
    <3>1. Anchor(r) \in Int /\ Anchor(r) >= 0 /\ Anchor(r) # Never
      BY <1>1, <1>8, <2>4, Durations DEF Never
    <3>2. since = Anchor(r) /\ SpentAfter(c, g, t) = more
      BY <1>1, <1>5, <1>7, <1>9, <1>12, <2>4, <3>1
    <3>3. now - Anchor(r) = sum
      BY <1>1, <1>8, <1>9, <2>4, Durations
    <3> HIDE DEF since, sum
    <3> QED BY <1>1, <1>3, <1>6, <2>1, <3>1, <3>2, <3>3 DEF Agrees
  <2> QED BY <2>2, <2>3, <2>4
<1> QED BY <1>2, <1>10, <1>11, <1>12

\* A look moves both alike, or leaves the timestamps further apart.
LEMMA NoShorterStep ==
  ASSUME Shape, NEW c \in Cards, row[c].held, NoShorter(row[c], spent[c]), NEW g, NEW t
  PROVE  NoShorter(Advanced(row[c], Idleness(c, g, t)), SpentAfter(c, g, t))
<1> DEFINE r == row[c]
           p == spent[c]
           gap == now - p.last
           i == Idleness(c, g, t)
           off == [r EXCEPT !.since = Never, !.checked = Never]
           since == IF LongOutage(r) \/ Anchor(r) = Never THEN now ELSE Anchor(r)
           on == [r EXCEPT !.checked = now, !.since = since]
           first == [idle |-> 0, last |-> now]
           sum == p.idle + (IF gap <= Stale THEN gap ELSE 0)
           more == [idle |-> sum, last |-> now]
<1>1. /\ r \in Rows /\ now \in Int /\ r.since \in Int /\ r.checked \in Int /\ 0 <= now
      /\ r.checked <= now /\ r.since >= Never
      /\ r.since # Never => r.checked # Never /\ r.since <= r.checked
      /\ p.last \in Int /\ p.idle \in Int /\ p.idle >= 0
  BY Durations DEF RowAt, Rows, Shape, Moments, Times, Never, ClockAt, Clocks
<1>2. i \in {"busy", "idle", "unknown"}
  BY DEF Idleness
<1>3. on.since = since /\ on.checked = now
  BY <1>1 DEF Rows
<1>4. Advanced(r, i) =
        IF i = "busy" \/ (i = "unknown" /\ LongOutage(r)) THEN off
        ELSE IF i = "unknown" THEN r ELSE on
  BY DEF Advanced
<1>5. SpentAfter(c, g, t) =
         IF i = "busy" \/ (i = "unknown" /\ p.last # Never /\ gap >= OutageReset)
         THEN NotSpent
         ELSE IF i = "unknown" THEN p
         ELSE IF p.last = Never \/ gap >= OutageReset THEN first ELSE more
  BY DEF SpentAfter
<1>6. NotSpent.last = Never /\ first.last = now /\ first.idle = 0 /\ more.last = now /\ more.idle = sum
  BY DEF NotSpent
<1>7. LongOutage(r) <=> r.checked # Never /\ now - r.checked >= OutageReset
  BY DEF LongOutage
<1>8. Anchor(r) = IF r.since = Never \/ r.checked = Never \/ now - r.checked <= Stale THEN r.since
                  ELSE r.since + (now - r.checked)
  BY DEF Anchor
<1>9. p.last # Never => r.since # Never /\ r.checked = p.last /\ r.checked - r.since >= p.idle
  BY DEF NoShorter
<1>10. CASE i = "busy"
  BY <1>4, <1>5, <1>6, <1>10 DEF NoShorter
<1>11. CASE i = "unknown"
  <2>1. CASE p.last = Never
    BY <1>5, <1>11, <2>1 DEF NoShorter
  <2>2. CASE p.last # Never
    BY <1>4, <1>5, <1>6, <1>7, <1>9, <1>11, <2>2 DEF NoShorter
  <2> QED BY <2>1, <2>2
<1>12. CASE i = "idle"
  <2>1. Advanced(r, i) = on
    BY <1>4, <1>12
  <2>2. Anchor(r) \in Int /\ (Anchor(r) # Never => Anchor(r) <= now)
    BY <1>1, <1>8
  <2>3. since \in Int /\ since # Never /\ since <= now
    BY <1>1, <2>2 DEF Never
  <2>4. CASE p.last = Never \/ gap >= OutageReset
    <3>1. SpentAfter(c, g, t) = first
      BY <1>5, <1>12, <2>4
    <3> HIDE DEF since
    <3> QED BY <1>1, <1>3, <1>6, <2>1, <2>3, <3>1 DEF NoShorter
  <2>5. CASE ~(p.last = Never \/ gap >= OutageReset)
    <3>1. SpentAfter(c, g, t) = more
      BY <1>5, <1>12, <2>5
    <3>2. ~LongOutage(r) /\ Anchor(r) # Never
      BY <1>1, <1>7, <1>8, <1>9, <2>5, Durations DEF Never
    <3>3. now - since >= sum
      BY <1>1, <1>8, <1>9, <2>5, <3>2, Durations
    <3> HIDE DEF since, sum
    <3> QED BY <1>1, <1>3, <1>6, <2>1, <2>3, <3>1, <3>3 DEF NoShorter
  <2> QED BY <2>4, <2>5
<1> QED BY <1>2, <1>10, <1>11, <1>12

-----------------------------------------------------------------------------
(* The steps *)

LEMMA InitShape == Init => IInv
<1> SUFFICES ASSUME Init PROVE IInv
  OBVIOUS
<1>1. Never \in Int /\ 0 \in Times /\ Never \in Moments /\ 0 \in 0..MaxWindows /\ Never <= 0
  BY Durations DEF Times, Moments, Never
<1>2. NoSight \in Sightings /\ SightAt(NoSight, 0)
  BY <1>1 DEF NoSight, Sightings, SightAt
<1>3. NewRow \in Rows /\ NoRow \in Rows /\ NewRow.checked = Never /\ NoRow.checked = Never
      /\ NewRow.since = Never /\ NoRow.since = Never
  BY <1>1 DEF NewRow, NoRow, Rows
<1>4. RowAt(NewRow, 0) /\ RowAt(NoRow, 0)
  BY <1>1, <1>3 DEF RowAt
<1>5. NotSpent \in Clocks /\ NotSpent.last = Never /\ ClockAt(NotSpent, 0)
  BY <1>1 DEF NotSpent, Clocks, ClockAt
<1>6. now = 0 /\ heartbeat = 0 /\ runs = {} /\ bound \in BOOLEAN
      /\ read = [c \in Cards |-> 0] /\ sight = [c \in Cards |-> NoSight]
      /\ spent = [c \in Cards |-> NotSpent]
  BY DEF Init
<1>7. row \in [Cards -> Rows] /\ \A c \in Cards : RowAt(row[c], 0)
  <2>1. PICK S \in SUBSET Cards \ {{}} : row = [c \in Cards |-> IF c \in S THEN NewRow ELSE NoRow]
    BY DEF Init
  <2> QED BY <2>1, <1>3, <1>4
<1>8. Shape
  BY <1>1, <1>2, <1>5, <1>6, <1>7 DEF Shape
<1>9. Fresh
  BY <1>5, <1>6 DEF Fresh
<1> QED BY <1>8, <1>9 DEF IInv

\* What a reading of server s makes of the times the cards were read.
LEMMA ReadStep ==
  ASSUME Shape, NEW s \in Servers, NEW complete \in BOOLEAN
  PROVE  /\ ReadAfter(s, complete) \in [Cards -> Times]
         /\ \A c \in Cards : read[c] <= ReadAfter(s, complete)[c] /\ ReadAfter(s, complete)[c] <= now
<1>1. now \in Times /\ \A c \in Cards : read[c] \in Times /\ read[c] <= now
  BY DEF Shape
<1>2. now \in Int /\ \A c \in Cards : read[c] \in Int
  BY <1>1, Durations DEF Times
<1> QED BY <1>1, <1>2 DEF ReadAfter

LEMMA SightsStep ==
  ASSUME Shape, NEW s \in Servers, NEW complete \in BOOLEAN
  PROVE  /\ SightsAfter(s, complete) \in [Cards -> Sightings]
         /\ \A c \in Cards :
              /\ SightAt(SightsAfter(s, complete)[c], now)
              /\ sight[c].active /\ ~SightsAfter(s, complete)[c].active =>
                   sight[c].absent # Never /\ now - sight[c].seen > Grace
<1>1. ASSUME NEW c \in Cards
      PROVE  /\ SightAt(SightsAfter(s, complete)[c], now)
             /\ sight[c].active /\ ~SightsAfter(s, complete)[c].active =>
                  sight[c].absent # Never /\ now - sight[c].seen > Grace
  <2>1. SightsAfter(s, complete)[c] = IF HostOf[c] = s THEN SightAfter(c, complete) ELSE sight[c]
    BY DEF SightsAfter
  <2>2. SightAt(sight[c], now)
    BY DEF Shape
  <2> QED BY <2>1, <2>2, SightStep
<1>2. SightsAfter(s, complete) \in [Cards -> Sightings]
  <2>1. \A c \in Cards : SightsAfter(s, complete)[c] \in Sightings
    BY <1>1 DEF SightAt
  <2> QED BY <2>1 DEF SightsAfter
<1> QED BY <1>1, <1>2

LEMMA ObserveStep ==
  ASSUME IInv, NEW s \in Servers, NEW complete \in BOOLEAN, Observe(s, complete)
  PROVE  IInv'
<1> DEFINE g == SightsAfter(s, complete)
           t == ReadAfter(s, complete)
<1>1. Shape /\ Fresh
  BY DEF IInv
<1>2. now' = now /\ runs' = runs /\ sight' = g /\ read' = t
      /\ bound' \in BOOLEAN /\ heartbeat' \in Times
      /\ spent' = [c \in Cards |-> SpentAfter(c, g, t)]
      /\ row' = [c \in Cards |-> RowAfter(c, g, t, heartbeat')]
  BY <1>1 DEF Observe, Shape
<1>3. g \in [Cards -> Sightings] /\ \A c \in Cards : SightAt(g[c], now)
  BY <1>1, SightsStep
<1>4. t \in [Cards -> Times] /\ \A c \in Cards : read[c] <= t[c] /\ t[c] <= now
  BY <1>1, ReadStep
<1> HIDE DEF g, t
<1>5. row' \in [Cards -> Rows] /\ \A c \in Cards : RowAt(row'[c], now)
  <2>1. \A c \in Cards : row'[c] = RowAfter(c, g, t, heartbeat')
    BY <1>2
  <2>2. \A c \in Cards : RowAt(RowAfter(c, g, t, heartbeat'), now)
    BY <1>1, RowStep
  <2> QED BY <1>2, <2>1, <2>2 DEF RowAt
<1>6. /\ spent' \in [Cards -> Clocks] /\ \A c \in Cards : ClockAt(spent'[c], now)
      /\ \A c \in Cards : spent'[c].last # Never => spent'[c].last - t[c] <= Stale
  <2>1. \A c \in Cards : spent'[c] = SpentAfter(c, g, t)
    BY <1>2
  <2>2. \A c \in Cards : /\ ClockAt(SpentAfter(c, g, t), now)
                         /\ SpentAfter(c, g, t).last # Never => SpentAfter(c, g, t).last - t[c] <= Stale
    BY <1>1, <1>4, ClockStep
  <2> QED BY <1>2, <2>1, <2>2 DEF ClockAt
<1>7. Shape'
  BY <1>1, <1>2, <1>3, <1>4, <1>5, <1>6 DEF Shape
<1>8. Fresh'
  BY <1>2, <1>6 DEF Fresh
<1> QED BY <1>7, <1>8 DEF IInv

LEMMA FailStep ==
  ASSUME IInv, NEW s \in Servers, Fail(s)
  PROVE  IInv'
<1>1. Shape /\ Fresh
  BY DEF IInv
<1>2. UNCHANGED <<now, runs, read, row, heartbeat, bound, spent>> /\ sight' = SightsAfter(s, FALSE)
  BY DEF Fail, leaseVars
<1>3. SightsAfter(s, FALSE) \in [Cards -> Sightings]
      /\ \A c \in Cards : SightAt(SightsAfter(s, FALSE)[c], now)
  BY <1>1, SightsStep
<1>4. Shape'
  BY <1>1, <1>2, <1>3 DEF Shape
<1>5. Fresh'
  BY <1>1, <1>2 DEF Fresh
<1> QED BY <1>4, <1>5 DEF IInv

LEMMA Quotient ==
  ASSUME NEW a \in Nat, NEW b \in Nat, 0 < b
  PROVE  a \div b \in Nat
OBVIOUS

\* The windows a heartbeat keeps an idle card for stay within the bound.
LEMMA KeptStep ==
  ASSUME Shape, NEW c \in Cards, row[c].since # Never
  PROVE  RowAt([row[c] EXCEPT !.windows = Kept(row[c])], now)
<1> DEFINE r == row[c]
           e == [r EXCEPT !.windows = Kept(r)]
<1>1. /\ r \in Rows /\ RowAt(r, now) /\ now \in Int /\ r.since \in Int /\ r.checked \in Int
      /\ r.checked <= now /\ r.checked # Never /\ r.since <= r.checked /\ r.windows \in 0..MaxWindows
  BY Durations DEF RowAt, Rows, Shape, Moments, Times, Never
<1>2. now - Anchor(r) \in Nat
  BY <1>1, Durations DEF Anchor, Never
<1>3. (now - Anchor(r)) \div CardReclaim \in Nat
  BY <1>2, Durations, Quotient
<1>4. Kept(r) \in 0..MaxWindows
  <2> DEFINE q == (now - Anchor(r)) \div CardReclaim
  <2>1. Kept(r) = Greater(r.windows, Lesser(MaxWindows, q + 2)) /\ q \in Nat
    BY <1>3 DEF Kept
  <2> HIDE DEF q
  <2> QED BY <1>1, <2>1, Durations DEF Greater, Lesser
<1>5. e \in Rows /\ e.since = r.since /\ e.checked = r.checked
  <2> HIDE DEF r
  <2> QED BY <1>1, <1>4 DEF Rows
<1> HIDE DEF e
<1>6. RowAt(e, now)
  BY <1>1, <1>5 DEF RowAt
<1> QED BY <1>6 DEF e

LEMMA HeartbeatStep ==
  ASSUME IInv, NEW keepIdle \in BOOLEAN, Heartbeat(keepIdle)
  PROVE  IInv'
<1>1. Shape /\ Fresh
  BY DEF IInv
<1>2. UNCHANGED <<now, runs, read, sight, bound, spent>> /\ heartbeat' = now
  BY DEF Heartbeat, Recorded, sightVars
<1>3. row' = [c \in Cards |->
        IF keepIdle /\ row[c].held /\ row[c].since # Never
        THEN [row[c] EXCEPT !.windows = Kept(row[c])] ELSE row[c]]
  BY DEF Heartbeat
<1>4. \A c \in Cards : RowAt(row'[c], now)
  <2>1. \A c \in Cards : RowAt(row[c], now)
    BY <1>1 DEF Shape
  <2>2. \A c \in Cards : row[c].since # Never => RowAt([row[c] EXCEPT !.windows = Kept(row[c])], now)
    BY <1>1, KeptStep
  <2> QED BY <1>3, <2>1, <2>2
<1>5. row' \in [Cards -> Rows]
  <2>1. \A c \in Cards : row'[c] \in Rows
    BY <1>4 DEF RowAt
  <2> QED BY <1>3, <2>1
<1>6. Shape'
  BY <1>1, <1>2, <1>4, <1>5 DEF Shape
<1>7. Fresh'
  BY <1>1, <1>2 DEF Fresh
<1> QED BY <1>6, <1>7 DEF IInv

\* A change of rows alone, with the clocks of some of them started over.
LEMMA RowsStep ==
  ASSUME IInv, UNCHANGED <<now, runs, read, sight, heartbeat>>, bound' \in BOOLEAN,
         row' \in [Cards -> Rows], \A c \in Cards : RowAt(row'[c], now),
         NEW S, spent' = [c \in Cards |-> IF c \in S THEN NotSpent ELSE spent[c]]
  PROVE  IInv'
<1>1. Shape /\ Fresh
  BY DEF IInv
<1>2. now \in Times /\ NotSpent \in Clocks /\ NotSpent.last = Never /\ ClockAt(NotSpent, now)
  BY <1>1, Durations DEF Shape, NotSpent, Clocks, ClockAt, Times, Moments, Never
<1>3. spent' \in [Cards -> Clocks] /\ \A c \in Cards : ClockAt(spent'[c], now)
  BY <1>1, <1>2 DEF Shape
<1>4. Shape'
  BY <1>1, <1>3 DEF Shape
<1>5. Fresh'
  BY <1>1, <1>2 DEF Fresh
<1> QED BY <1>4, <1>5 DEF IInv

LEMMA AddStep ==
  ASSUME IInv, NEW a \in Cards, Add(a)
  PROVE  IInv'
<1> DEFINE e == [row[a] EXCEPT !.held = TRUE, !.since = Never, !.windows = 0]
<1>1. UNCHANGED <<now, runs, read, sight, heartbeat, bound>> /\ row' = [row EXCEPT ![a] = e]
      /\ spent' = [spent EXCEPT ![a] = NotSpent]
  BY DEF Add, sightVars
<1>2. Shape
  BY DEF IInv
<1>3. RowAt(e, now)
  BY <1>2, EmptiedRow DEF Shape
<1> HIDE DEF e
<1>4. row' \in [Cards -> Rows] /\ \A c \in Cards : RowAt(row'[c], now)
  BY <1>1, <1>2, <1>3 DEF Shape, RowAt
<1>5. spent' = [c \in Cards |-> IF c \in {a} THEN NotSpent ELSE spent[c]]
  BY <1>1, <1>2 DEF Shape
<1>6. bound' \in BOOLEAN
  BY <1>1, <1>2 DEF Shape
<1> QED BY <1>1, <1>4, <1>5, <1>6, RowsStep

LEMMA SettledStep ==
  ASSUME IInv, NEW S, Settled(S), UNCHANGED <<now, runs, sightVars, heartbeat, bound>>
  PROVE  IInv'
<1>1. Shape
  BY DEF IInv
<1>2. \A c \in Cards : RowAt(row[c], now)
                       /\ RowAt([row[c] EXCEPT !.held = FALSE, !.since = Never, !.windows = 0], now)
  BY <1>1, EmptiedRow DEF Shape
<1>3. row' = [c \in Cards |-> IF c \in S THEN [row[c] EXCEPT !.held = FALSE, !.since = Never, !.windows = 0]
                              ELSE row[c]]
  BY DEF Settled
<1>4. \A c \in Cards : RowAt(row'[c], now)
  BY <1>2, <1>3
<1>5. row' \in [Cards -> Rows]
  <2>1. \A c \in Cards : row'[c] \in Rows
    BY <1>4 DEF RowAt
  <2> QED BY <1>3, <2>1
<1>6. spent' = [c \in Cards |-> IF c \in S THEN NotSpent ELSE spent[c]]
  BY DEF Settled
<1>7. UNCHANGED <<now, runs, read, sight, heartbeat>> /\ bound' \in BOOLEAN
  BY <1>1 DEF sightVars, Shape
<1> QED BY <1>4, <1>5, <1>6, <1>7, RowsStep

LEMMA ReassignStep ==
  ASSUME IInv, NEW a \in Movable, NEW b \in Movable, Reassign(a, b)
  PROVE  IInv'
<1> DEFINE out == [row[a] EXCEPT !.held = FALSE]
           in == [row[b] EXCEPT !.held = TRUE]
<1>1. Shape /\ a \in Cards /\ b \in Cards /\ a # b
  BY Hosts DEF IInv, Reassign
<1>2. row' = [row EXCEPT ![a] = out, ![b] = in]
  BY <1>1 DEF Reassign, Shape
<1>3. RowAt(row[a], now) /\ RowAt(row[b], now) /\ row[a] \in Rows /\ row[b] \in Rows
  BY <1>1 DEF Shape
<1>4. out \in Rows /\ out.since = row[a].since /\ out.checked = row[a].checked
      /\ in \in Rows /\ in.since = row[b].since /\ in.checked = row[b].checked
  BY <1>3 DEF Rows
<1> HIDE DEF out, in
<1>5. RowAt(out, now) /\ RowAt(in, now)
  BY <1>3, <1>4 DEF RowAt
<1>6. row' \in [Cards -> Rows] /\ \A c \in Cards : RowAt(row'[c], now)
  BY <1>1, <1>2, <1>4, <1>5 DEF Shape
<1>7. spent' = [c \in Cards |-> IF c \in {a, b} THEN NotSpent ELSE spent[c]]
  <2>1. spent' = [spent EXCEPT ![a] = NotSpent, ![b] = NotSpent]
    BY DEF Reassign
  <2> QED BY <1>1, <2>1 DEF Shape
<1>8. UNCHANGED <<now, runs, read, sight, heartbeat>> /\ bound' \in BOOLEAN
  BY DEF Reassign, sightVars
<1> QED BY <1>6, <1>7, <1>8, RowsStep

LEMMA TickStep ==
  ASSUME IInv, Tick
  PROVE  IInv'
<1>1. Shape /\ Fresh
  BY DEF IInv
<1>2. now < Horizon /\ now' = now + 1 /\ UNCHANGED <<runs, read, sight, row, heartbeat, bound, spent>>
  BY DEF Tick, sightVars, leaseVars
<1>3. now \in Int /\ 0 <= now /\ now' \in Times
  BY <1>1, <1>2, Durations DEF Shape, Times
<1>4. \A c \in Cards : read[c] \in Int /\ read[c] <= now'
  BY <1>1, <1>2, <1>3, Durations DEF Shape, Times
<1>5. \A c \in Cards : SightAt(sight[c], now')
  BY <1>1, <1>2, <1>3, Durations DEF Shape, SightAt, Sightings, Moments, Times, Never
<1>6. \A c \in Cards : RowAt(row[c], now')
  BY <1>1, <1>2, <1>3, Durations DEF Shape, RowAt, Rows, Moments, Times, Never
<1>7. \A c \in Cards : ClockAt(spent[c], now')
  BY <1>1, <1>2, <1>3, Durations DEF Shape, ClockAt, Clocks, Moments, Times, Never
<1>8. Shape'
  BY <1>1, <1>2, <1>3, <1>4, <1>5, <1>6, <1>7 DEF Shape
<1>9. Fresh'
  BY <1>1, <1>2 DEF Fresh
<1> QED BY <1>8, <1>9 DEF IInv

\* A process that starts or ends is not known to anybody yet.
LEMMA ToggleStep ==
  ASSUME IInv, NEW c \in Cards, Toggle(c)
  PROVE  IInv'
<1>1. Shape /\ Fresh
  BY DEF IInv
<1>2. runs' \subseteq Cards /\ UNCHANGED <<now, read, sight, row, heartbeat, bound, spent>>
  BY <1>1 DEF Toggle, sightVars, leaseVars, Shape
<1>3. Shape'
  BY <1>1, <1>2 DEF Shape
<1>4. Fresh'
  BY <1>1, <1>2 DEF Fresh
<1> QED BY <1>3, <1>4 DEF IInv

LEMMA NextStep ==
  ASSUME IInv, [Next]_vars
  PROVE  IInv'
<1>1. ASSUME Observing PROVE IInv'
  BY <1>1, ObserveStep DEF Observing
<1>2. ASSUME NEW s \in Servers, Fail(s) PROVE IInv'
  BY <1>2, FailStep
<1>3. ASSUME NEW s \in Servers, Clear(s) PROVE IInv'
  BY <1>3, SettledStep DEF Clear
<1>4. ASSUME NEW keepIdle \in BOOLEAN, Heartbeat(keepIdle) PROVE IInv'
  BY <1>4, HeartbeatStep
<1>5. ASSUME NEW c \in Cards, Add(c) PROVE IInv'
  BY <1>5, AddStep
<1>6. ASSUME NEW c \in Cards, Return(c) PROVE IInv'
  BY <1>6, SettledStep DEF Return
<1>7. ASSUME NEW c \in Cards, Toggle(c) PROVE IInv'
  BY <1>7, ToggleStep
<1>8. ASSUME NEW a \in Movable, NEW b \in Movable, Reassign(a, b) PROVE IInv'
  BY <1>8, ReassignStep
<1>9. ASSUME Tick PROVE IInv'
  BY <1>9, TickStep
<1>10. ASSUME UNCHANGED vars PROVE IInv'
  BY <1>10 DEF vars, sightVars, leaseVars, IInv, Shape, Fresh
<1> QED BY <1>1, <1>2, <1>3, <1>4, <1>5, <1>6, <1>7, <1>8, <1>9, <1>10 DEF Next

\* The timestamps of sightings, rows and clocks stay in order, whatever is
\* read, kept, moved and cleared, and whenever.
THEOREM Invariance == Spec => []IInv
BY InitShape, NextStep, PTL DEF Spec

\* TypeOK: in particular no streak begins in the future, and no row is kept
\* for more windows than the code allows.
THEOREM TypesHold == Spec => []TypeOK
<1>1. IInv => TypeOK
  BY DEF IInv, Shape, TypeOK, Sightings, Rows, Clocks
<1> QED BY <1>1, Invariance, PTL

\* _advance_process_absence: a process that was seen is not forgotten before a
\* complete reading left it out and the grace has passed since it was seen, be
\* it on a moved card, after an outage or by a failed attempt.
THEOREM SeenProcessHoldsCardHolds == Spec => SeenProcessHoldsCard
<1> DEFINE A == \A c \in Cards : sight[c].active /\ ~sight'[c].active =>
                  sight[c].absent # Never /\ now - sight[c].seen > Grace
<1>1. ASSUME IInv, Next PROVE A
  <2>1. Shape
    BY <1>1 DEF IInv
  <2>2. ASSUME NEW s \in Servers, NEW complete \in BOOLEAN, sight' = SightsAfter(s, complete) PROVE A
    BY <2>1, <2>2, SightsStep
  <2>3. CASE sight' = sight
    BY <2>3
  <2>4. \/ sight' = sight
        \/ \E s \in Servers, complete \in BOOLEAN : sight' = SightsAfter(s, complete)
    BY <1>1 DEF Next, Observing, Observe, Fail, Clear, Heartbeat, Add, Return, Toggle, Reassign,
                Tick, sightVars, leaseVars
  <2> QED BY <2>2, <2>3, <2>4
<1>2. IInv /\ [Next]_vars => [A]_vars
  BY <1>1
<1> QED BY <1>2, Invariance, PTL DEF Spec, SeenProcessHoldsCard

-----------------------------------------------------------------------------
(* What a look does to the lease *)

\* A card leaves by a look exactly when the look reclaims it; the row of one
\* that stays shows the advanced clock.
LEMMA LookStep ==
  ASSUME Shape, NEW c \in Cards, NEW g, NEW t, NEW heard
  PROVE  LET r == Advanced(row[c], Idleness(c, g, t))
             next == RowAfter(c, g, t, heard) IN
         /\ ~row[c].held => next = row[c]
         /\ row[c].held => (next.held <=> c \notin Reclaimed(g, t, heard))
         /\ row[c].held /\ next.held => next.since = r.since /\ next.checked = r.checked
<1> DEFINE r == Advanced(row[c], Idleness(c, g, t))
           taken == [r EXCEPT !.held = FALSE, !.since = Never, !.windows = 0]
           unkept == [r EXCEPT !.windows = 0]
<1>1. RowAt(r, now) /\ r.held = row[c].held
  BY AdvanceStep DEF Shape
<1>2. RowAfter(c, g, t, heard) =
        IF ~row[c].held THEN row[c]
        ELSE IF c \in Reclaimed(g, t, heard) THEN taken
        ELSE IF r.since = Never THEN unkept ELSE r
  BY DEF RowAfter
<1> HIDE DEF r
<1>3. ~taken.held
  BY <1>1, EmptiedRow
<1>4. unkept.held = r.held /\ unkept.since = r.since /\ unkept.checked = r.checked
  BY <1>1 DEF RowAt, Rows
<1> HIDE DEF taken, unkept
<1>5. /\ ~row[c].held => RowAfter(c, g, t, heard) = row[c]
      /\ row[c].held => (RowAfter(c, g, t, heard).held <=> c \notin Reclaimed(g, t, heard))
      /\ row[c].held /\ RowAfter(c, g, t, heard).held =>
           RowAfter(c, g, t, heard).since = r.since /\ RowAfter(c, g, t, heard).checked = r.checked
  BY <1>1, <1>2, <1>3, <1>4
<1> QED BY <1>5 DEF r

-----------------------------------------------------------------------------
(* The clock of a card.  A card the App moved the lease to starts the streak   *)
(* its row had before, which only makes it longer than what was observed.      *)

Clocked(c, r, p) == NoShorter(r, p) /\ (c \notin Movable => Agrees(r, p))

ClocksAgree == \A c \in Held : Clocked(c, row[c], spent[c])

LEMMA ClocksInit == Init => ClocksAgree
<1> SUFFICES ASSUME Init, NEW c \in Cards PROVE Clocked(c, row[c], spent[c])
  BY DEF ClocksAgree, Held
<1>1. PICK S \in SUBSET Cards \ {{}} : row = [d \in Cards |-> IF d \in S THEN NewRow ELSE NoRow]
  BY DEF Init
<1>2. row[c].since = Never
  BY <1>1 DEF NewRow, NoRow
<1>3. spent[c].last = Never
  BY DEF Init, NotSpent
<1> QED BY <1>2, <1>3 DEF Clocked, NoShorter, Agrees

LEMMA ClocksObserve ==
  ASSUME IInv, ClocksAgree, NEW s \in Servers, NEW complete \in BOOLEAN, Observe(s, complete)
  PROVE  ClocksAgree'
<1> DEFINE g == SightsAfter(s, complete)
           t == ReadAfter(s, complete)
           heard == heartbeat'
<1>1. /\ row' = [c \in Cards |-> RowAfter(c, g, t, heard)]
      /\ spent' = [c \in Cards |-> SpentAfter(c, g, t)]
  BY DEF Observe
<1> HIDE DEF g, t, heard
<1> SUFFICES ASSUME NEW c \in Cards, row'[c].held
             PROVE  Clocked(c, row'[c], spent'[c])
  BY DEF ClocksAgree, Held, Clocked, NoShorter, Agrees
<1>2. Shape
  BY DEF IInv
<1>3. row'[c] = RowAfter(c, g, t, heard) /\ spent'[c] = SpentAfter(c, g, t)
  BY <1>1
<1> DEFINE r == Advanced(row[c], Idleness(c, g, t))
<1>4. row[c].held
  BY <1>2, <1>3, LookStep
<1>5. Clocked(c, row[c], spent[c])
  BY <1>4 DEF ClocksAgree, Held
<1>6. Clocked(c, r, SpentAfter(c, g, t))
  BY <1>2, <1>4, <1>5, AgreeStep, NoShorterStep DEF Clocked
<1>7. row'[c].since = r.since /\ row'[c].checked = r.checked
  BY <1>2, <1>3, <1>4, LookStep
<1> HIDE DEF r
<1> QED BY <1>3, <1>6, <1>7 DEF Clocked, NoShorter, Agrees

LEMMA ClocksSettled ==
  ASSUME IInv, ClocksAgree, NEW S, Settled(S)
  PROVE  ClocksAgree'
<1>1. \A c \in Cards : row[c] \in Rows
  BY DEF IInv, Shape
<1>2. \A c \in Cards : c \in S => ~row'[c].held
  BY <1>1 DEF Settled, Rows
<1>3. \A c \in Cards \ S : row'[c] = row[c] /\ spent'[c] = spent[c]
  BY DEF Settled
<1> QED BY <1>2, <1>3 DEF ClocksAgree, Held, Clocked, NoShorter, Agrees

LEMMA ClocksHeartbeat ==
  ASSUME IInv, ClocksAgree, NEW keepIdle \in BOOLEAN, Heartbeat(keepIdle)
  PROVE  ClocksAgree'
<1>1. \A c \in Cards : row[c] \in Rows
  BY DEF IInv, Shape
<1>2. row' = [c \in Cards |->
        IF keepIdle /\ row[c].held /\ row[c].since # Never
        THEN [row[c] EXCEPT !.windows = Kept(row[c])] ELSE row[c]]
  BY DEF Heartbeat
<1>3. \A c \in Cards : /\ [row[c] EXCEPT !.windows = Kept(row[c])].held = row[c].held
                       /\ [row[c] EXCEPT !.windows = Kept(row[c])].since = row[c].since
                       /\ [row[c] EXCEPT !.windows = Kept(row[c])].checked = row[c].checked
  BY <1>1 DEF Rows
<1>4. \A c \in Cards : row'[c].held = row[c].held /\ row'[c].since = row[c].since
                       /\ row'[c].checked = row[c].checked
  BY <1>2, <1>3
<1>5. spent' = spent
  BY DEF Heartbeat
<1> QED BY <1>4, <1>5 DEF ClocksAgree, Held, Clocked, NoShorter, Agrees

LEMMA ClocksAdd ==
  ASSUME IInv, ClocksAgree, NEW a \in Cards, Add(a)
  PROVE  ClocksAgree'
<1> DEFINE e == [row[a] EXCEPT !.held = TRUE, !.since = Never, !.windows = 0]
<1>1. Shape /\ row' = [row EXCEPT ![a] = e] /\ spent' = [spent EXCEPT ![a] = NotSpent]
  BY DEF Add, IInv
<1>2. e.since = Never
  BY <1>1, EmptiedRow DEF Shape
<1> HIDE DEF e
<1>3. row'[a].since = Never /\ spent'[a].last = Never
  BY <1>1, <1>2 DEF Shape, NotSpent
<1>4. \A c \in Cards \ {a} : row'[c] = row[c] /\ spent'[c] = spent[c]
  BY <1>1 DEF Shape
<1> QED BY <1>3, <1>4 DEF ClocksAgree, Held, Clocked, NoShorter, Agrees

LEMMA ClocksReassign ==
  ASSUME IInv, ClocksAgree, NEW a \in Movable, NEW b \in Movable, Reassign(a, b)
  PROVE  ClocksAgree'
<1>1. \A c \in Cards \ {a, b} : row'[c] = row[c] /\ spent'[c] = spent[c]
  BY DEF Reassign, IInv, Shape
<1>2. spent'[a].last = Never /\ spent'[b].last = Never
  BY Hosts DEF Reassign, IInv, Shape, NotSpent
<1>3. \A c \in Cards : row'[c].held /\ c \notin {a, b} => row[c].held
  BY <1>1
<1> QED BY <1>1, <1>2, <1>3 DEF ClocksAgree, Held, Clocked, NoShorter, Agrees

LEMMA ClocksNext ==
  ASSUME IInv, ClocksAgree, [Next]_vars
  PROVE  ClocksAgree'
<1>1. ASSUME Observing PROVE ClocksAgree'
  BY <1>1, ClocksObserve DEF Observing
<1>2. ASSUME NEW s \in Servers, Clear(s) PROVE ClocksAgree'
  BY <1>2, ClocksSettled DEF Clear
<1>3. ASSUME NEW keepIdle \in BOOLEAN, Heartbeat(keepIdle) PROVE ClocksAgree'
  BY <1>3, ClocksHeartbeat
<1>4. ASSUME NEW c \in Cards, Add(c) PROVE ClocksAgree'
  BY <1>4, ClocksAdd
<1>5. ASSUME NEW c \in Cards, Return(c) PROVE ClocksAgree'
  BY <1>5, ClocksSettled DEF Return
<1>6. ASSUME NEW a \in Movable, NEW b \in Movable, Reassign(a, b) PROVE ClocksAgree'
  BY <1>6, ClocksReassign
<1>7. ASSUME UNCHANGED <<row, spent>> PROVE ClocksAgree'
  BY <1>7 DEF ClocksAgree, Held, Clocked, NoShorter, Agrees
<1>8. ASSUME \/ \E s \in Servers : Fail(s)
             \/ \E c \in Cards : Toggle(c)
             \/ Tick \/ UNCHANGED vars
      PROVE  UNCHANGED <<row, spent>>
  BY <1>8 DEF Fail, Toggle, Tick, leaseVars, vars
<1> QED BY <1>1, <1>2, <1>3, <1>4, <1>5, <1>6, <1>7, <1>8 DEF Next

\* The two timestamps of a leased card measure no less than the idle time that
\* was observed, and exactly that on a card the App moves no lease to or from.
THEOREM ClocksAgreeAlways == Spec => []ClocksAgree
<1>1. IInv /\ IInv' /\ ClocksAgree /\ [Next]_vars => ClocksAgree'
  BY ClocksNext
<1> QED BY <1>1, ClocksInit, Invariance, PTL DEF Spec

\* _reconcile_idle_lease: for a lease that is not moved, whatever is kept,
\* given back, cleared, claimed again and not answered, the clock of each of
\* its cards is the idle time that was observed since the lease got the card.
THEOREM ClockIsObservedTimeHolds ==
  ASSUME Movable = {}
  PROVE  Spec => []ClockIsObservedTime
<1>1. ClocksAgree => ClockIsObservedTime
  BY DEF ClocksAgree, Clocked, ClockIsObservedTime, Agrees
<1> QED BY <1>1, ClocksAgreeAlways, PTL

-----------------------------------------------------------------------------
(* When a look takes a card *)

LEMMA Products ==
  ASSUME NEW a \in Nat, NEW b \in Nat, NEW d \in Nat, b <= d
  PROVE  a * b <= a * d /\ a * b \in Nat /\ a * d \in Nat
<1>1. d - b \in Nat /\ d = b + (d - b)
  OBVIOUS
<1>2. a * (d - b) \in Nat
  BY <1>1
<1>3. a * d = a * b + a * (d - b)
  BY <1>1
<1> QED BY <1>2, <1>3

\* Only a reading takes cards by itself, and only those Reclaimed names.
LEMMA LookTakes ==
  ASSUME IInv, NEW s \in Servers, NEW complete \in BOOLEAN, Observe(s, complete), NEW c \in Held
  PROVE  /\ c \in Cards /\ now' = now /\ sight' = SightsAfter(s, complete)
         /\ spent'[c] = SpentAfter(c, sight', read')
         /\ read' \in [Cards -> Times] /\ read[c] <= read'[c] /\ read'[c] <= now
         /\ ~row'[c].held <=> c \in Reclaimed(sight', read', heartbeat')
<1>1. c \in Cards /\ row[c].held /\ Shape
  BY DEF Held, IInv
<1>2. /\ sight' = SightsAfter(s, complete) /\ read' = ReadAfter(s, complete) /\ now' = now
      /\ row' = [d \in Cards |-> RowAfter(d, sight', read', heartbeat')]
      /\ spent' = [d \in Cards |-> SpentAfter(d, sight', read')]
  BY DEF Observe
<1>3. row'[c] = RowAfter(c, sight', read', heartbeat') /\ spent'[c] = SpentAfter(c, sight', read')
  BY <1>1, <1>2
<1>4. RowAfter(c, sight', read', heartbeat').held <=> c \notin Reclaimed(sight', read', heartbeat')
  BY <1>1, LookStep
<1>5. read' \in [Cards -> Times] /\ read[c] <= read'[c] /\ read'[c] <= now
  BY <1>1, <1>2, ReadStep
<1> QED BY <1>1, <1>2, <1>3, <1>4, <1>5

\* A card that is not moved is only taken after enough observed idle time.
LEMMA TakenStep ==
  ASSUME IInv, ClocksAgree, NEW s \in Servers, NEW complete \in BOOLEAN, Observe(s, complete),
         NEW c \in Held \ Movable, ~row'[c].held
  PROVE  /\ ~sight'[c].active
         /\ spent'[c].idle >= IF \E d \in Held : HostOf[d] = HostOf[c] /\ sight'[d].active
                             THEN CardReclaim ELSE LeaseReclaim
<1> DEFINE i == Idleness(c, sight', read')
           r == Advanced(row[c], i)
           working == WorkingOn(HostOf[c], sight')
           least == IF working THEN CardReclaim ELSE LeaseReclaim
           wait == ReclaimAfter(r, working)
<1>1. Shape /\ c \in Cards /\ row[c].held /\ c \in Held
  BY DEF IInv, Held
<1>2. c \in Reclaimed(sight', read', heartbeat') /\ spent'[c] = SpentAfter(c, sight', read')
  BY <1>1, LookTakes
<1>3. i = "idle" /\ now - r.since >= Greater(Alert, wait)
  BY <1>2 DEF Reclaimed
<1>4. ~sight'[c].active
  BY <1>3 DEF Idleness
<1>5. RowAt(row[c], now) /\ now \in Times
  BY <1>1 DEF Shape
<1>6. RowAt(r, now) /\ r.since # Never
  BY <1>1, <1>3, <1>5, AdvanceStep
<1>7. Agrees(r, spent'[c])
  BY <1>1, <1>2, AgreeStep DEF ClocksAgree, Clocked
<1>8. r.checked - r.since = spent'[c].idle
  BY <1>6, <1>7 DEF Agrees
<1>9. r.checked = now
  BY <1>3, <1>5 DEF Advanced, RowAt, Rows
<1>10. r.windows \in Nat
  BY <1>6, Durations DEF RowAt, Rows
<1>11. wait = least * Greater(1, r.windows) /\ least \in Nat
  BY Durations DEF ReclaimAfter
<1> HIDE DEF r, least, working
<1>12. Greater(1, r.windows) \in Nat /\ 1 <= Greater(1, r.windows)
  BY <1>10 DEF Greater
<1>13. least <= wait /\ wait \in Nat
  <2>1. least * 1 <= least * Greater(1, r.windows) /\ least * Greater(1, r.windows) \in Nat
    BY <1>11, <1>12, Products
  <2> QED BY <1>11, <2>1
<1> HIDE DEF wait
<1>14. wait <= Greater(Alert, wait) /\ Greater(Alert, wait) \in Nat
  BY <1>13, Durations DEF Greater
<1>15. spent'[c].idle >= least
  <2>1. now - r.since = spent'[c].idle
    BY <1>8, <1>9
  <2>2. r.since \in Int /\ now \in Int
    BY <1>5, <1>6, Durations DEF RowAt, Rows, Moments, Times, Never
  <2> QED BY <1>3, <1>11, <1>13, <1>14, <2>1, <2>2
<1>16. working <=> \E d \in Held : HostOf[d] = HostOf[c] /\ sight'[d].active
  BY DEF working, WorkingOn
<1> QED BY <1>4, <1>15, <1>16 DEF least

\* _reconcile_idle_lease: the collector takes a card of a lease that is not
\* moved only after the idle time the policy asks for was observed on it, and
\* never under a process that is not retired.
THEOREM TakenAfterObservedIdlenessHolds ==
  ASSUME Movable = {}
  PROVE  Spec => TakenAfterObservedIdleness
<1> DEFINE A == Observing => \A c \in Held : ~row'[c].held =>
                  /\ ~sight'[c].active
                  /\ spent'[c].idle >= IF \E d \in Held : HostOf[d] = HostOf[c] /\ sight'[d].active
                                      THEN CardReclaim ELSE LeaseReclaim
<1>1. ASSUME IInv, ClocksAgree PROVE A
  <2> SUFFICES ASSUME NEW s \in Servers, NEW complete \in BOOLEAN, Observe(s, complete),
                      NEW c \in Held, ~row'[c].held
               PROVE  /\ ~sight'[c].active
                      /\ spent'[c].idle >= IF \E d \in Held : HostOf[d] = HostOf[c] /\ sight'[d].active
                                          THEN CardReclaim ELSE LeaseReclaim
    BY DEF Observing
  <2>1. c \in Held \ Movable
    OBVIOUS
  <2> QED BY <1>1, <2>1, TakenStep
<1>2. IInv /\ ClocksAgree => [A]_vars
  BY <1>1
<1> QED BY <1>2, Invariance, ClocksAgreeAlways, PTL DEF TakenAfterObservedIdleness

\* _lease_liveness_age_seconds takes the latest of what it is given.
LEMMA LastHeard ==
  ASSUME NEW s \in Servers, NEW g \in [Cards -> Sightings], NEW heard \in Times
  PROVE  /\ heard <= LastHeardOf(s, g, heard)
         /\ \A d \in Held \intersect CardsOf(s) : g[d].seen <= LastHeardOf(s, g, heard)
         /\ LastHeardOf(s, g, heard) \in Moments
<1> DEFINE all == {g[d].seen : d \in Held \intersect CardsOf(s)} \union {heard}
<1>1. all \subseteq Moments /\ all # {}
  BY DEF Held, Sightings, Moments
<1>2. \E m \in all : \A k \in all : k <= m
  <2> HIDE DEF all
  <2> QED BY <1>1, LatestMoment
<1>3. LastHeardOf(s, g, heard) = CHOOSE m \in all : \A k \in all : k <= m
  BY DEF LastHeardOf
<1>4. LastHeardOf(s, g, heard) \in all /\ \A k \in all : k <= LastHeardOf(s, g, heard)
  <2> HIDE DEF all
  <2> QED BY <1>2, <1>3
<1> QED BY <1>1, <1>4

\* _reconcile_idle_lease: on a server where nothing of the lease runs, a card
\* is only taken once neither the holder nor a process on the lease's cards
\* there was heard of for LeaseReclaim, also when cards came there by a move.
THEOREM QuietServerKeepsCardsHolds == Spec => QuietServerKeepsCards
<1> DEFINE Quiet(c) ==
             LET there == {d \in Held : HostOf[d] = HostOf[c]} IN
             \/ \E d \in there : sight'[d].active
             \/ /\ now - heartbeat' >= LeaseReclaim
                /\ \A d \in there : sight'[d].seen # Never =>
                     now - sight'[d].seen >= LeaseReclaim
           A == Observing => \A c \in Held : ~row'[c].held => Quiet(c)
<1>1. ASSUME IInv, IInv' PROVE A
  <2> SUFFICES ASSUME NEW s \in Servers, NEW complete \in BOOLEAN, Observe(s, complete),
                      NEW c \in Held, ~row'[c].held,
                      ~ \E d \in Held : HostOf[d] = HostOf[c] /\ sight'[d].active
               PROVE  /\ now - heartbeat' >= LeaseReclaim
                      /\ \A d \in Held : HostOf[d] = HostOf[c] =>
                           now - sight'[d].seen >= LeaseReclaim
    BY DEF Observing
  <2>1. c \in Reclaimed(sight', read', heartbeat') /\ c \in Cards
    BY <1>1, LookTakes
  <2>2. ~WorkingOn(HostOf[c], sight')
    BY DEF WorkingOn
  <2> DEFINE last == LastHeardOf(HostOf[c], sight', heartbeat')
  <2>3. ~(now - last < LeaseReclaim)
    BY <2>1, <2>2 DEF Reclaimed, Protected
  <2>4. sight' \in [Cards -> Sightings] /\ heartbeat' \in Times /\ HostOf[c] \in Servers /\ now \in Times
    BY <1>1, <2>1, Hosts DEF IInv, Shape
  <2>5. /\ heartbeat' <= last /\ last \in Moments
        /\ \A d \in Held \intersect CardsOf(HostOf[c]) : sight'[d].seen <= last
    BY <2>4, LastHeard
  <2>6. \A d \in Held : HostOf[d] = HostOf[c] =>
          d \in Held \intersect CardsOf(HostOf[c]) /\ sight'[d].seen \in Moments
    BY <2>4 DEF Held, CardsOf, Sightings
  <2> HIDE DEF last
  <2>7. last \in Int /\ now \in Int /\ heartbeat' \in Int /\ LeaseReclaim \in Int
    BY <2>4, <2>5, Durations DEF Times, Moments, Never
  <2>8. now - last >= LeaseReclaim
    BY <2>3, <2>7
  <2>9. now - heartbeat' >= LeaseReclaim
    <3>1. heartbeat' <= last
      BY <2>5
    <3>2. \A h \in Int : h <= last => now - h >= LeaseReclaim
      BY <2>7, <2>8
    <3> QED BY <2>7, <3>1, <3>2, Zenon
  <2>10. ASSUME NEW d \in Held, HostOf[d] = HostOf[c] PROVE now - sight'[d].seen >= LeaseReclaim
    <3>1. sight'[d].seen <= last /\ sight'[d].seen \in Int
      BY <2>5, <2>6, <2>10, Durations DEF Times, Moments, Never
    <3> QED BY <2>7, <2>8, <3>1
  <2> QED BY <2>9, <2>10
<1>2. IInv /\ IInv' => [A]_vars
  BY <1>1
<1> QED BY <1>2, Invariance, PTL DEF QuietServerKeepsCards

\* Beside a working card, a look takes every card whose observed idle time it
\* brought to the end of the last window.
LEMMA EnoughStep ==
  ASSUME IInv, IInv', ClocksAgree, NEW s \in Servers, NEW complete \in BOOLEAN, Observe(s, complete),
         NEW c \in Held,
         spent'[c].last = now, spent'[c].idle >= Greater(Alert, MaxWindows * CardReclaim),
         \E d \in Held : HostOf[d] = HostOf[c] /\ sight'[d].active
  PROVE  ~row'[c].held
<1> DEFINE i == Idleness(c, sight', read')
           r == Advanced(row[c], i)
           p == spent[c]
           wait == CardReclaim * Greater(1, r.windows)
           end == MaxWindows * CardReclaim
<1>1. Shape /\ Fresh /\ c \in Cards /\ row[c].held /\ c \in Held
  BY DEF IInv, Held
<1>2. /\ ~row'[c].held <=> c \in Reclaimed(sight', read', heartbeat')
      /\ spent'[c] = SpentAfter(c, sight', read')
      /\ read' \in [Cards -> Times] /\ read[c] <= read'[c] /\ read'[c] <= now
  BY <1>1, LookTakes
<1>3. /\ now \in Int /\ 0 <= now /\ now # Never /\ read[c] \in Int /\ read'[c] \in Int
      /\ read'[c] # Never /\ RowAt(row[c], now)
  BY <1>1, <1>2, Durations DEF Shape, Times, Never
<1>4. WorkingOn(HostOf[c], sight')
  BY DEF WorkingOn
\* A clock that already showed this moment counted a card that is still fresh.
<1>5. i = "idle"
  <2>1. i \in {"busy", "idle", "unknown"} /\ (i = "unknown" => ~(now - read'[c] <= Stale))
    BY <1>3 DEF Idleness
  <2>2. i # "busy"
    BY <1>2, <1>3 DEF SpentAfter, NotSpent
  <2>3. i = "unknown" => p.last = now
    BY <1>2, <1>3 DEF SpentAfter, NotSpent
  <2>4. p.last = now => now - read[c] <= Stale
    BY <1>1, <1>3 DEF Fresh
  <2>5. now - read[c] <= Stale => now - read'[c] <= Stale
    BY <1>2, <1>3, Durations
  <2> QED BY <2>1, <2>2, <2>3, <2>4, <2>5
<1>6. RowAt(r, now) /\ r.since # Never /\ r.windows = row[c].windows
  BY <1>1, <1>3, <1>5, AdvanceStep
<1>7. NoShorter(r, spent'[c])
  BY <1>1, <1>2, NoShorterStep DEF ClocksAgree, Clocked
<1>8. r.checked = now
  BY <1>3, <1>5 DEF Advanced, RowAt, Rows
<1>9. now - r.since >= spent'[c].idle /\ spent'[c].idle \in Int
  <2>1. now - r.since >= spent'[c].idle
    BY <1>3, <1>7, <1>8 DEF NoShorter
  <2>2. spent'[c] \in Clocks
    BY <1>1 DEF IInv, Shape
  <2> QED BY <2>1, <2>2 DEF Clocks, Times
<1>10. r.windows \in 0..MaxWindows /\ r.since \in Int
  BY <1>6, Durations DEF RowAt, Rows, Moments, Times, Never
<1>11. ReclaimAfter(r, WorkingOn(HostOf[c], sight')) = wait
  BY <1>4 DEF ReclaimAfter
<1> HIDE DEF r
<1>12. wait <= end /\ wait \in Nat /\ end \in Nat
  <2>1. Greater(1, r.windows) \in Nat /\ Greater(1, r.windows) <= MaxWindows
    BY <1>10, Durations DEF Greater
  <2>2. /\ CardReclaim * Greater(1, r.windows) <= CardReclaim * MaxWindows
        /\ CardReclaim * Greater(1, r.windows) \in Nat /\ CardReclaim * MaxWindows \in Nat
    BY <2>1, Products, Durations
  <2>3. CardReclaim * MaxWindows = MaxWindows * CardReclaim
    BY Durations
  <2> QED BY <2>2, <2>3
<1> HIDE DEF wait, end
<1>13. now - r.since >= Greater(Alert, end)
  BY <1>3, <1>9, <1>10, <1>12, Durations DEF end, Greater
<1>14. now - r.since >= Greater(Alert, wait)
  BY <1>3, <1>10, <1>12, <1>13, Durations DEF Greater
<1>15. ~Protected(HostOf[c], sight', heartbeat')
  BY <1>4 DEF Protected
<1>16. c \in Reclaimed(sight', read', heartbeat')
  BY <1>1, <1>5, <1>11, <1>14, <1>15 DEF Reclaimed, r
<1> QED BY <1>2, <1>16

\* _keep_idle_cards: keeping ends.  Beside a working card on its server, a
\* card does not survive the look that brings its observed idle time to the end
\* of the last window, however often its holder asked and wherever the App moved
\* the lease.
THEOREM KeepingIsBoundedHolds == Spec => KeepingIsBounded
<1> DEFINE A == Observing => \A c \in Held :
                  /\ spent'[c].last = now /\ spent'[c].idle >= Greater(Alert, MaxWindows * CardReclaim)
                  /\ \E d \in Held : HostOf[d] = HostOf[c] /\ sight'[d].active
                  => ~row'[c].held
<1>1. ASSUME IInv, IInv', ClocksAgree PROVE A
  <2> SUFFICES ASSUME NEW s \in Servers, NEW complete \in BOOLEAN, Observe(s, complete), NEW c \in Held,
                      spent'[c].last = now,
                      spent'[c].idle >= Greater(Alert, MaxWindows * CardReclaim),
                      \E d \in Held : HostOf[d] = HostOf[c] /\ sight'[d].active
               PROVE  ~row'[c].held
    BY DEF Observing
  <2> QED BY <1>1, EnoughStep
<1>2. IInv /\ IInv' /\ ClocksAgree => [A]_vars
  BY <1>1
<1> QED BY <1>2, Invariance, ClocksAgreeAlways, PTL DEF KeepingIsBounded
=============================================================================
