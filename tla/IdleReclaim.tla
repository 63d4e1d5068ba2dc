---------------------------- MODULE IdleReclaim ----------------------------
(***************************************************************************)
(* When an idle card goes back to the pool: the clocks _reconcile_leases   *)
(* keeps for one workload lease, advanced by whichever server's reading    *)
(* arrives, and the process sightings those clocks rest on.                *)
(*                                                                         *)
(* Time is an integer.  Readings come or fail at any time: nothing in the  *)
(* code bounds the gap between two of them (the Mac that collects may      *)
(* sleep).  A complete reading lists the processes that run at that time.  *)
(***************************************************************************)
EXTENDS FiniteSets, Integers

CONSTANTS
  Servers, Cards, HostOf,
  Movable,      \* cards the App may move the lease to or from
  Stale,        \* stale_after_seconds
  OutageReset,  \* IDLE_OUTAGE_RESET_SECONDS
  Alert,        \* idle_lease_alert_seconds
  CardReclaim,  \* idle_card_reclaim_seconds
  LeaseReclaim, \* idle_lease_reclaim_seconds
  MaxWindows,   \* MAX_KEEP_IDLE_WINDOWS
  Grace,        \* process_absence_grace_seconds
  Horizon       \* bound: the last time considered

ASSUME IdleReclaimAssumption ==
  /\ HostOf \in [Cards -> Servers] /\ Movable \subseteq Cards
  /\ {Stale, OutageReset, Alert, CardReclaim, LeaseReclaim, Grace, Horizon} \subseteq Nat
  /\ 0 < Stale /\ Stale < OutageReset /\ 0 < Grace
  /\ 0 < CardReclaim /\ Alert <= LeaseReclaim /\ MaxWindows \in Nat \ {0}

Never == -1
Times == 0..Horizon
Moments == Times \union {Never}

VARIABLES
  now,
  runs,      \* cards a process runs on
  read,      \* when each card's telemetry was last read
  sight,     \* the sighting of a process on each card
  row,       \* the lease's row of each card
  heartbeat, \* last_heartbeat_at of the lease
  bound,     \* the lease has a workload binding
  spent      \* what each row's clock ought to show, kept apart (history)

sightVars == <<read, sight>>
leaseVars == <<row, heartbeat, bound>>
vars == <<now, runs, sightVars, leaseVars, spent>>

CardsOf(s) == {c \in Cards : HostOf[c] = s}
Held == {c \in Cards : row[c].held}
Greater(a, b) == IF a > b THEN a ELSE b
Lesser(a, b) == IF a < b THEN a ELSE b

NoSight == [active |-> FALSE, seen |-> Never, absent |-> Never]
NewRow == [held |-> TRUE, since |-> Never, checked |-> Never, windows |-> 0]
NoRow == [NewRow EXCEPT !.held = FALSE]
NotSpent == [idle |-> 0, last |-> Never]

-----------------------------------------------------------------------------
(* The sightings after a reading of server s, or a failed attempt *)

\* _advance_process_absence: complete readings that leave a process out start
\* its absence, and retire it once that has lasted the grace.
RetiredAtOnce(g) == g.absent # Never \/ now > g.seen
Retired(g) == g.absent # Never /\ now - g.absent >= Grace
SightAfter(c, complete) ==
  LET g == sight[c] IN
  IF complete /\ c \in runs THEN [active |-> TRUE, seen |-> now, absent |-> Never]
  ELSE IF ~g.active THEN g
  ELSE IF ~complete THEN [g EXCEPT !.absent = Never]
  ELSE IF Retired(g) THEN [g EXCEPT !.active = FALSE, !.absent = Never]
  ELSE IF g.absent = Never /\ g.seen < now THEN [g EXCEPT !.absent = now]
  ELSE g

SightsAfter(s, complete) ==
  [c \in Cards |-> IF HostOf[c] = s THEN SightAfter(c, complete) ELSE sight[c]]
ReadAfter(s, complete) ==
  [c \in Cards |-> IF HostOf[c] = s /\ complete THEN now ELSE read[c]]

-----------------------------------------------------------------------------
(* One look at the lease, given the sightings g and the reading times t *)

\* _card_idleness.
Idleness(c, g, t) ==
  IF g[c].active THEN "busy"
  ELSE IF t[c] # Never /\ now - t[c] <= Stale THEN "idle" ELSE "unknown"

\* _idle_anchor: a gap nobody could see is left out of the streak.
AnchorKeepingGaps(r) == r.since
Anchor(r) ==
  IF r.since = Never \/ r.checked = Never \/ now - r.checked <= Stale THEN r.since
  ELSE r.since + (now - r.checked)

\* _advance_idle_clock.
LongOutage(r) == r.checked # Never /\ now - r.checked >= OutageReset
Advanced(r, idleness) ==
  IF idleness = "busy" \/ (idleness = "unknown" /\ LongOutage(r))
  THEN [r EXCEPT !.since = Never, !.checked = Never]
  ELSE IF idleness = "unknown" THEN r
  ELSE [r EXCEPT !.checked = now,
                 !.since = IF LongOutage(r) \/ Anchor(r) = Never THEN now ELSE Anchor(r)]

\* _working_endpoints.
WorkingAnywhere(s, g) == \E c \in Held : g[c].active
WorkingOn(s, g) == \E c \in Held : HostOf[c] = s /\ g[c].active

\* _lease_liveness_age_seconds, asked for the cards of one server.
LastHeardOf(s, g, heard) ==
  LET seen == {g[c].seen : c \in Held \intersect CardsOf(s)} IN
  CHOOSE m \in seen \union {heard} : \A k \in seen \union {heard} : k <= m
Protected(s, g, heard) == ~WorkingOn(s, g) /\ now - LastHeardOf(s, g, heard) < LeaseReclaim

\* _card_reclaim_after_seconds.
ReclaimAfterKept(r, working) ==
  (IF working THEN CardReclaim ELSE LeaseReclaim) * r.windows
ReclaimAfter(r, working) ==
  (IF working THEN CardReclaim ELSE LeaseReclaim) * Greater(1, r.windows)

\* The cards _reconcile_idle_lease takes.
Reclaimed(g, t, heard) ==
  {c \in Held :
     LET r == Advanced(row[c], Idleness(c, g, t)) IN
     /\ Idleness(c, g, t) = "idle"
     /\ now - r.since >= Greater(Alert, ReclaimAfter(r, WorkingOn(HostOf[c], g)))
     /\ ~Protected(HostOf[c], g, heard)}

\* The row of card c after the look.
RowAfter(c, g, t, heard) ==
  LET r == Advanced(row[c], Idleness(c, g, t)) IN
  IF ~row[c].held THEN row[c]
  ELSE IF c \in Reclaimed(g, t, heard)
  THEN [r EXCEPT !.held = FALSE, !.since = Never, !.windows = 0]
  ELSE IF r.since = Never THEN [r EXCEPT !.windows = 0] ELSE r

\* The reference for the clock, by accumulation: the time between two looks
\* counts when both saw the card idle and no more than Stale lies between; a
\* process, or an outage, starts it over.
SpentAfter(c, g, t) ==
  LET p == spent[c]
      gap == now - p.last
      idleness == Idleness(c, g, t) IN
  IF \/ ~row[c].held \/ idleness = "busy"
     \/ idleness = "unknown" /\ p.last # Never /\ gap >= OutageReset
  THEN NotSpent
  ELSE IF idleness = "unknown" THEN p
  ELSE IF p.last = Never \/ gap >= OutageReset THEN [idle |-> 0, last |-> now]
  ELSE [idle |-> p.idle + (IF gap <= Stale THEN gap ELSE 0), last |-> now]

-----------------------------------------------------------------------------
(* The collector *)

\* ingest_observation: sightings, then the binding of a claim whose every card
\* is in use, then the look at every card of the lease.
Observe(s, complete) ==
  LET g == SightsAfter(s, complete)
      t == ReadAfter(s, complete)
      binds == /\ ~bound /\ Held # {} /\ \A c \in Held : g[c].active
               /\ \E c \in Held : HostOf[c] = s
      heard == IF binds THEN now ELSE heartbeat
  IN
  /\ sight' = g
  /\ read' = t
  /\ bound' = (bound \/ binds)
  /\ heartbeat' = heard
  /\ row' = [c \in Cards |-> RowAfter(c, g, t, heard)]
  /\ spent' = [c \in Cards |-> SpentAfter(c, g, t)]
  /\ UNCHANGED <<now, runs>>

\* record_provider_failure.
Fail(s) ==
  /\ sight' = SightsAfter(s, FALSE)
  /\ UNCHANGED <<now, runs, read, leaseVars, spent>>

-----------------------------------------------------------------------------
(* The holder and the App *)

\* _keep_idle_cards for one row.
KeptPast(r) == Greater(r.windows, (now - Anchor(r)) \div CardReclaim + 2)
Kept(r) ==
  Greater(r.windows, Lesser(MaxWindows, (now - Anchor(r)) \div CardReclaim + 2))

\* record_lease_heartbeat, by itself or with a look at the lease.
Recorded == Held # {} /\ heartbeat' = now
Heartbeat(keepIdle) ==
  /\ Recorded
  /\ row' = [c \in Cards |->
        IF keepIdle /\ row[c].held /\ row[c].since # Never
        THEN [row[c] EXCEPT !.windows = Kept(row[c])] ELSE row[c]]
  /\ UNCHANGED <<now, runs, sightVars, bound, spent>>

\* _add_cards: a row that existed before is used again.
Add(c) ==
  /\ Held # {} /\ ~row[c].held
  /\ row' = [row EXCEPT ![c] = [@ EXCEPT !.held = TRUE, !.since = Never, !.windows = 0]]
  /\ spent' = [spent EXCEPT ![c] = NotSpent]
  /\ UNCHANGED <<now, runs, sightVars, heartbeat, bound>>

\* _settle_cards
Settled(S) ==
  /\ row' = [c \in Cards |-> IF c \in S THEN [row[c] EXCEPT !.held = FALSE, !.since = Never, !.windows = 0]
                             ELSE row[c]]
  /\ spent' = [c \in Cards |-> IF c \in S THEN NotSpent ELSE spent[c]]

\* resize_lease giving back a card without a process.
Return(c) ==
  /\ row[c].held /\ ~sight[c].active /\ Held # {c}
  /\ Settled({c})
  /\ UNCHANGED <<now, runs, sightVars, heartbeat, bound>>

\* _manual_release_verdict, of a server that answers.
MayClear(s) ==
  /\ \A c \in Held \intersect CardsOf(s) : ~sight[c].active
  /\ now - LastHeardOf(s, sight, heartbeat) >= Alert

\* release_empty_conflicted_lease: a person clears what the lease has on one
\* server, which was just read, or has not been readable for Stale.
Clear(s) ==
  LET there == Held \intersect CardsOf(s) IN
  /\ there # {}
  /\ \/ MayClear(s) /\ \A c \in there : read[c] = now
     \/ \A c \in there : now - read[c] > Stale
  /\ Settled(there)
  /\ UNCHANGED <<now, runs, sightVars, heartbeat, bound>>

\* reassign_lease_gpus from card c to card d: both rows keep their clocks.
Reassign(c, d) ==
  /\ row[c].held /\ ~row[d].held
  /\ row' = [row EXCEPT ![c].held = FALSE, ![d].held = TRUE]
  /\ spent' = [spent EXCEPT ![c] = NotSpent, ![d] = NotSpent]
  /\ bound' = FALSE
  /\ UNCHANGED <<now, runs, sightVars, heartbeat>>

-----------------------------------------------------------------------------
(* The world *)

Tick ==
  /\ now < Horizon
  /\ now' = now + 1
  /\ UNCHANGED <<runs, sightVars, leaseVars, spent>>

\* A process starts on a card, or ends.
Toggle(c) ==
  /\ runs' = (runs \union {c}) \ (runs \intersect {c})
  /\ UNCHANGED <<now, sightVars, leaseVars, spent>>

Init ==
  /\ now = 0 /\ heartbeat = 0
  /\ runs = {}
  /\ read = [c \in Cards |-> 0]
  /\ sight = [c \in Cards |-> NoSight]
  /\ \E S \in SUBSET Cards \ {{}} : row = [c \in Cards |-> IF c \in S THEN NewRow ELSE NoRow]
  /\ bound = FALSE
  /\ spent = [c \in Cards |-> NotSpent]

Observing == \E s \in Servers, complete \in BOOLEAN : Observe(s, complete)

Next ==
  \/ Observing
  \/ \E s \in Servers : Fail(s) \/ Clear(s)
  \/ \E keepIdle \in BOOLEAN : Heartbeat(keepIdle)
  \/ \E c \in Cards : Add(c) \/ Return(c) \/ Toggle(c)
  \/ \E c, d \in Movable : Reassign(c, d)
  \/ Tick

Spec == Init /\ [][Next]_vars

TypeOK ==
  /\ now \in Times /\ heartbeat \in Times /\ runs \subseteq Cards
  /\ read \in [Cards -> Times]
  /\ sight \in [Cards -> [active : BOOLEAN, seen : Moments, absent : Moments]]
  /\ row \in [Cards -> [held : BOOLEAN, since : Moments, checked : Moments,
                        windows : 0..MaxWindows]]
  /\ bound \in BOOLEAN
  /\ spent \in [Cards -> [idle : Times, last : Moments]]

-----------------------------------------------------------------------------
(* What the clocks guarantee *)

\* _reconcile_idle_lease: "the clock of a GPU is reset whenever a process
\* appears on it or it goes unseen" for the outage.  The two timestamps of a
\* row measure exactly the idle time that was observed since the lease got the
\* card, through blips, outages and looks that other servers' readings cause.
ClockIsObservedTime ==
  \A c \in Held : IF row[c].since = Never THEN spent[c].last = Never
                  ELSE /\ row[c].checked = spent[c].last
                       /\ row[c].checked - row[c].since = spent[c].idle

\* The collector takes a card only after CardReclaim of observed idle time,
\* and only after LeaseReclaim of it when nothing of the lease works on that
\* server; never under a process that was seen and not yet retired.
TakenAfterObservedIdleness ==
  [][Observing => \A c \in Held : ~row'[c].held =>
       /\ ~sight'[c].active
       /\ spent'[c].idle >= IF \E d \in Held : HostOf[d] = HostOf[c] /\ sight'[d].active
                           THEN CardReclaim ELSE LeaseReclaim]_vars

\* _reconcile_idle_lease: "a process on some other server says nothing about
\* this one".  On a server where nothing of the lease runs, a card is only
\* taken once neither the holder nor a process on the lease's cards there was
\* heard of for LeaseReclaim, whatever moved the cards meanwhile.
QuietServerKeepsCards ==
  [][Observing => \A c \in Held : ~row'[c].held =>
       LET there == {d \in Held : HostOf[d] = HostOf[c]} IN
       \/ \E d \in there : sight'[d].active
       \/ /\ now - heartbeat' >= LeaseReclaim
          /\ \A d \in there : sight'[d].seen # Never =>
               now - sight'[d].seen >= LeaseReclaim]_vars

\* Keeping idle cards ends: beside a working card on its server, a card seen
\* idle for MaxWindows windows does not survive the look, however often its
\* holder asked to keep it.
KeepingIsBounded ==
  [][Observing => \A c \in Held :
       /\ spent'[c].last = now /\ spent'[c].idle >= Greater(Alert, MaxWindows * CardReclaim)
       /\ \E d \in Held : HostOf[d] = HostOf[c] /\ sight'[d].active
       => ~row'[c].held]_vars

\* _advance_process_absence: a process seen once is not forgotten before a
\* complete reading left it out and the grace has passed since, so that one
\* empty listing, or a failed collection, never frees a busy card.
SeenProcessHoldsCard ==
  [][\A c \in Cards : sight[c].active /\ ~sight'[c].active =>
       sight[c].absent # Never /\ now - sight[c].seen > Grace]_vars
=============================================================================
