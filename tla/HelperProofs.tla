---------------------------- MODULE HelperProofs ----------------------------
(***************************************************************************)
(* Proofs about Helper, for any number of cards, calls and process ids:    *)
(* a stop signals the recorded worker only, what it says is stopped is     *)
(* stopped, and a running worker is on record unless its call was killed   *)
(* or could not write.                                                     *)
(***************************************************************************)
EXTENDS Helper, TLAPS

Places ==
  {"idle", "asked", "start", "spawn", "stop", "open", "check", "signal", "strike", "attest"}
Rows == [Cards -> Identity \union {Nobody}]
CallRecords ==
  [at : Places, do : {"none", "start", "stop", "attest"}, want : SUBSET Cards, todo : SUBSET Cards,
   card : Cards \union {Nobody}, pin : Identity \union {Nobody}, ids : Rows, child : Rows,
   failed : BOOLEAN, told : {"nothing", "ok", "error"}]

\* The type of the state.
Shape ==
  /\ proc \in [Pids -> Process \union Other \union {Nobody}]
  /\ ticks \in 0 .. MaxTicks /\ boot \in 0 .. MaxBoots
  /\ file \in Rows
  /\ call \in [Calls -> CallRecords]

\* A process was started since the boot, before now.
Clock == \A p \in Pids : proc[p] # Nobody => proc[p].boot = boot /\ proc[p].since < ticks

\* An identity that no process still to be started can have.
Past(id) == id.boot < boot \/ (id.boot = boot /\ id.since < ticks)

\* Identities of card c's workers, of such that have said READY, and of
\* processes that are over; Up are the workers that run on the card.
Own(c) == {id \in Identity : Past(id) /\ (Runs(id) => IsWorker(id.pid) /\ proc[id.pid].card = c)}
Sure(c) == {id \in Own(c) : Runs(id) => proc[id.pid].state = "running"}
Gone == {id \in Identity : Past(id) /\ ~Runs(id)}
Up(c) ==
  {id \in Identity : /\ Runs(id) /\ IsWorker(id.pid)
                     /\ proc[id.pid].state = "running" /\ proc[id.pid].card = c}

\* The record and every copy of it name workers of the right card.
Records ==
  \A c \in Cards :
    /\ file[c] \in Sure(c) \union {Nobody}
    /\ \A h \in Calls : /\ call[h].ids[c] \in Sure(c) \union {Nobody}
                        /\ call[h].child[c] \in Own(c) \union {Nobody}

\* At most one call is past the lock.
Locked == \A g, h \in Calls : InLock(g) /\ InLock(h) => g = h

\* What a call in state r knows at its place, with the record f and the
\* processes in gone over.
Phase(r, f, gone) ==
  /\ r.at # "spawn" => \A c \in Cards : r.child[c] = Nobody
  /\ r.at = "asked" => r.do \in {"start", "stop", "attest"}
  /\ r.at \notin {"idle", "asked", "spawn"} => r.ids = f
  /\ r.at = "spawn" => \A c \in Cards :
       /\ f[c] # Nobody => r.ids[c] = f[c]
       /\ c \in r.todo \/ r.child[c] # Nobody => r.ids[c] = Nobody
       /\ c \in r.todo => r.child[c] = Nobody
  /\ r.at \in {"stop", "open", "check", "signal", "strike"} =>
       \A c \in r.want \ r.todo : r.ids[c] = Nobody
  /\ r.at \in {"open", "check", "signal", "strike"} =>
       r.card \in Cards /\ r.ids[r.card] # Nobody
  /\ r.at = "check" => r.pin = r.ids[r.card] \/ r.ids[r.card] \in gone
  /\ r.at = "signal" => r.pin = r.ids[r.card]
  /\ r.at = "strike" => r.ids[r.card] \in gone
Phases == \A h \in Calls : Phase(call[h], file, Gone)

\* A running worker is on record, or a call has yet to record it, or it
\* slipped.
Holds(r, c, id) == r.child[c] = id \/ (r.at = "spawn" /\ r.ids[c] = id)
Accounted ==
  \A c \in Cards : \A id \in Up(c) \ slip :
    file[c] = id \/ \E h \in Calls : Holds(call[h], c, id)

IInv == Shape /\ Clock /\ Records /\ Locked /\ Phases /\ Accounted

-----------------------------------------------------------------------------
(* The machine *)

\* What a step but a reboot may do to the processes: some end, one starts
\* that is no running worker, or one says READY.
Fewer == ticks' = ticks /\ \A p \in Pids : proc'[p] = proc[p] \/ proc'[p] = Nobody
Newcomer ==
  /\ ticks' = ticks + 1
  /\ \E q \in Pids :
       /\ proc'[q] # Nobody /\ proc'[q].state # "running"
       /\ proc'[q].boot = boot /\ proc'[q].since = ticks
       /\ \A p \in Pids \ {q} : proc'[p] = proc[p]
Ready(q) ==
  /\ ticks' = ticks
  /\ proc[q] # Nobody /\ proc[q].state = "warming"
  /\ proc'[q] # Nobody /\ proc'[q].state = "running"
  /\ proc'[q].card = proc[q].card /\ proc'[q].boot = proc[q].boot /\ proc'[q].since = proc[q].since
  /\ \A p \in Pids \ {q} : proc'[p] = proc[p]
Moves ==
  /\ boot' = boot /\ proc' \in [Pids -> Process \union Other \union {Nobody}]
  /\ ticks' \in 0 .. MaxTicks
  /\ Fewer \/ Newcomer \/ \E q \in Pids : Ready(q)

LEMMA NobodyIsNone ==
  /\ Nobody \notin Identity /\ Nobody \notin Process /\ Nobody \notin Other
  /\ Nobody \notin Cards
BY HelperAssumption, NobodyAssumption

LEMMA ProcessFields ==
  ASSUME Shape, NEW p \in Pids, proc[p] # Nobody
  PROVE  /\ proc[p].boot \in 0 .. MaxBoots /\ proc[p].since \in 0 .. MaxTicks
         /\ IsWorker(p) => proc[p] \in Process
         /\ IdentityOf(p) \in Identity
         /\ IdentityOf(p).pid = p /\ Runs(IdentityOf(p))
BY DEF Shape, Process, Other, IsWorker, IdentityOf, Identity, Runs

LEMMA ClockMoves == ASSUME Shape, Clock, Moves PROVE Clock'
<1>1. ticks \in Nat
  BY HelperAssumption DEF Shape
<1>2. CASE Fewer
  BY <1>2 DEF Fewer, Clock, Moves
<1>3. CASE Newcomer
  <2> SUFFICES ASSUME NEW p \in Pids, proc'[p] # Nobody
               PROVE  proc'[p].boot = boot /\ proc'[p].since < ticks + 1
    BY <1>3 DEF Newcomer, Clock, Moves
  <2>1. proc'[p] = proc[p] \/ (proc'[p].boot = boot /\ proc'[p].since = ticks)
    BY <1>3 DEF Newcomer
  <2>2. CASE proc'[p] = proc[p]
    <3>1. proc[p].boot = boot /\ proc[p].since < ticks /\ proc[p].since \in Nat
      BY <2>2, ProcessFields, HelperAssumption DEF Clock
    <3> QED BY <1>1, <2>2, <3>1
  <2> QED BY <1>1, <2>1, <2>2
<1>4. ASSUME NEW q \in Pids, Ready(q) PROVE Clock'
  BY <1>4 DEF Ready, Clock, Moves
<1> QED BY <1>2, <1>3, <1>4 DEF Moves

\* No process that is started now has the identity of one of the past, so
\* what runs under such an identity ran before.
LEMMA PastRuns ==
  ASSUME Shape, Clock, Moves, NEW id \in Identity, Past(id)
  PROVE  /\ Past(id)'
         /\ Runs(id)' => /\ Runs(id)
                         /\ IsWorker(id.pid)' = IsWorker(id.pid)
                         /\ IsWorker(id.pid) => /\ proc'[id.pid].card = proc[id.pid].card
                                                /\ proc[id.pid].state = "running"
                                                     => proc'[id.pid].state = "running"
<1>1. /\ id.pid \in Pids /\ id.boot \in Nat /\ id.since \in Nat /\ ticks \in Nat /\ boot \in Nat
      /\ ticks' \in Nat /\ ticks <= ticks' /\ boot' = boot
  BY HelperAssumption DEF Identity, Shape, Moves, Fewer, Newcomer, Ready
<1>2. Past(id)'
  BY <1>1 DEF Past
<1>3. ASSUME Runs(id)', proc'[id.pid] = proc[id.pid]
      PROVE  /\ Runs(id)
             /\ IsWorker(id.pid)' = IsWorker(id.pid)
             /\ IsWorker(id.pid) => /\ proc'[id.pid].card = proc[id.pid].card
                                    /\ proc[id.pid].state = "running"
                                         => proc'[id.pid].state = "running"
  BY <1>3 DEF Runs, IdentityOf, IsWorker
<1>4. Runs(id)' => /\ proc'[id.pid] # Nobody /\ proc'[id.pid].boot = id.boot
                   /\ proc'[id.pid].since = id.since
  BY DEF Runs, IdentityOf
<1>5. CASE Fewer
  BY <1>1, <1>2, <1>3, <1>4, <1>5 DEF Fewer
<1>6. CASE Newcomer
  <2>1. Runs(id)' => proc'[id.pid] = proc[id.pid]
    BY <1>1, <1>4, <1>6 DEF Newcomer, Past
  <2> QED BY <1>2, <1>3, <2>1
<1>7. ASSUME NEW q \in Pids, Ready(q)
      PROVE  Runs(id)' => /\ Runs(id)
                          /\ IsWorker(id.pid)' = IsWorker(id.pid)
                          /\ IsWorker(id.pid) => /\ proc'[id.pid].card = proc[id.pid].card
                                                 /\ proc[id.pid].state = "running"
                                                      => proc'[id.pid].state = "running"
  <2>1. CASE id.pid # q
    BY <1>1, <1>3, <1>7, <2>1 DEF Ready
  <2>2. CASE id.pid = q
    <3>1. proc'[q] # Nobody
      BY <1>7 DEF Ready
    <3>2. ASSUME Runs(id)' PROVE Runs(id) /\ IsWorker(q)' /\ IsWorker(q)
      BY <1>7, <2>2, <3>1, <3>2 DEF Ready, Runs, IdentityOf, IsWorker
    <3> QED BY <1>7, <2>2, <3>2 DEF Ready
  <2> QED BY <2>1, <2>2
<1> QED BY <1>2, <1>5, <1>6, <1>7 DEF Moves

\* So what is said of an identity of the past stays true of it.
LEMMA IdentitiesKept ==
  ASSUME Shape, Clock, Moves
  PROVE  /\ \A c \in Cards : Own(c) \subseteq Own(c)' /\ Sure(c) \subseteq Sure(c)'
         /\ Gone \subseteq Gone'
<1>1. ASSUME NEW c \in Cards, NEW id \in Own(c) PROVE id \in Own(c)'
  BY PastRuns DEF Own
<1>2. ASSUME NEW c \in Cards, NEW id \in Sure(c) PROVE id \in Sure(c)'
  BY <1>1, PastRuns DEF Sure, Own
<1>3. ASSUME NEW id \in Gone PROVE id \in Gone'
  BY PastRuns DEF Gone
<1> QED BY <1>1, <1>2, <1>3

\* Only saying READY makes a running worker.
LEMMA NoneComesUp ==
  ASSUME Shape, Moves, Fewer \/ Newcomer, NEW c \in Cards
  PROVE  Up(c)' \subseteq Up(c)
<1> SUFFICES ASSUME NEW id \in Up(c)' PROVE id \in Up(c)
  OBVIOUS
<1>1. /\ id \in Identity /\ id.pid \in Pids /\ proc'[id.pid] # Nobody
      /\ proc'[id.pid].state = "running" /\ proc'[id.pid].card = c
      /\ IdentityOf(id.pid)' = id
  BY DEF Up, Runs, IsWorker, Identity
<1>2. proc'[id.pid] = proc[id.pid]
  BY <1>1 DEF Fewer, Newcomer
<1> QED BY <1>1, <1>2 DEF Up, Runs, IsWorker, IdentityOf

LEMMA UpIsPast ==
  ASSUME Shape, Clock, NEW c \in Cards
  PROVE  Up(c) \subseteq Own(c)
BY DEF Up, Own, Past, Clock, Runs, IdentityOf, Identity

-----------------------------------------------------------------------------
(* One call takes a step *)

\* Call h may go on as r: with the lock, or waiting for nobody to have it.
MayLock(h, r) == r.at \notin {"idle", "asked"} => InLock(h) \/ \A g \in Calls : ~InLock(g)

\* Its copies name workers of the right card.
Knows(r) ==
  \A c \in Cards : /\ r.ids[c] \in Sure(c) \union {Nobody}
                   /\ r.child[c] \in Own(c) \union {Nobody}

\* It loses no running worker from sight.
Keeps(h, r) ==
  \A c \in Cards : \A id \in Up(c) : Holds(call[h], c, id) => file[c] = id \/ Holds(r, c, id)

\* The steps of a call: it becomes r, and the record f.  What the step leaves
\* to be shown is that r is right about the record and the processes, and
\* that no running worker is lost from sight.
LEMMA CallStep ==
  ASSUME IInv, NEW h \in Calls, NEW r \in CallRecords,
         call' = [call EXCEPT ![h] = r], Moves,
         file' \in Rows, InLock(h) \/ file' = file,
         MayLock(h, r),
         Phase(r, file', Gone'),
         \A c \in Cards : /\ file'[c] \in Sure(c)' \union {Nobody}
                          /\ r.ids[c] \in Sure(c)' \union {Nobody}
                          /\ r.child[c] \in Own(c)' \union {Nobody},
         Fewer \/ Newcomer, slip \subseteq slip',
         \A c \in Cards : \A id \in (Up(c) \intersect Up(c)') \ slip' :
           file[c] = id \/ Holds(call[h], c, id) => file'[c] = id \/ Holds(r, c, id)
  PROVE  IInv'
<1>1. call'[h] = r /\ \A g \in Calls \ {h} : call'[g] = call[g]
  BY DEF IInv, Shape
<1>2. Shape' /\ Clock'
  BY ClockMoves DEF IInv, Shape, Moves
<1>3. Records'
  <2>1. ASSUME NEW c \in Cards, NEW g \in Calls \ {h}
        PROVE  /\ call[g].ids[c] \in Sure(c)' \union {Nobody}
               /\ call[g].child[c] \in Own(c)' \union {Nobody}
    BY IdentitiesKept DEF IInv, Records
  <2> QED BY <1>1, <2>1 DEF Records
<1>4. Locked'
  <2>1. \A g \in Calls \ {h} : InLock(g)' = InLock(g)
    BY <1>1 DEF InLock
  <2>2. InLock(h)' => InLock(h) \/ \A g \in Calls : ~InLock(g)
    BY <1>1 DEF InLock, MayLock
  <2> QED BY <2>1, <2>2 DEF IInv, Locked
<1>5. Phases'
  <2> SUFFICES ASSUME NEW g \in Calls \ {h} PROVE Phase(call[g], file', Gone')
    BY <1>1 DEF Phases
  <2>1. Phase(call[g], file, Gone)
    BY DEF IInv, Phases
  <2>2. Phase(call[g], file, Gone')
    <3>1. Gone \subseteq Gone'
      BY IdentitiesKept DEF IInv
    <3> QED BY <2>1, <3>1 DEF Phase
  <2>3. CASE file' = file
    BY <2>2, <2>3
  <2>4. CASE ~InLock(g)
    BY <2>2, <2>4 DEF Phase, InLock
  <2>5. InLock(h) => ~InLock(g)
    BY DEF IInv, Locked
  <2> QED BY <2>3, <2>4, <2>5
<1>6. Accounted'
  <2> SUFFICES ASSUME NEW c \in Cards, NEW id \in Up(c)', id \notin slip'
               PROVE  file'[c] = id \/ \E g \in Calls : Holds(call'[g], c, id)
    BY DEF Accounted, Holds
  <2>1. id \in Up(c)
    BY NoneComesUp DEF IInv
  <2>2. id \in Up(c) \ slip
    BY <2>1
  <2>3. file[c] = id \/ \E g \in Calls : Holds(call[g], c, id)
    BY <2>2 DEF IInv, Accounted
  <2>4. file[c] = id \/ Holds(call[h], c, id) => file'[c] = id \/ Holds(call'[h], c, id)
    BY <1>1, <2>1
  <2>5. \A g \in Calls \ {h} : Holds(call'[g], c, id) <=> Holds(call[g], c, id)
    BY <1>1
  <2> QED BY <2>3, <2>4, <2>5
<1> QED BY <1>2, <1>3, <1>4, <1>5, <1>6 DEF IInv

\* The same, for the many steps that touch neither record nor processes.
LEMMA QuietStep ==
  ASSUME IInv, NEW h \in Calls, NEW r \in CallRecords,
         call' = [call EXCEPT ![h] = r], UNCHANGED <<proc, ticks, boot, file, slip>>,
         MayLock(h, r), Phase(r, file, Gone), Knows(r), Keeps(h, r)
  PROVE  IInv'
<1>1. Moves /\ Fewer
  BY DEF IInv, Shape, Moves, Fewer
<1>2. \A c \in Cards : Own(c)' = Own(c) /\ Sure(c)' = Sure(c)
  BY DEF Own, Sure, Past, Runs, IsWorker, IdentityOf
<1>3. Gone' = Gone
  BY DEF Gone, Past, Runs, IdentityOf
<1>4. Phase(r, file', Gone')
  BY <1>3
<1>5. \A c \in Cards : /\ file'[c] \in Sure(c)' \union {Nobody}
                       /\ r.ids[c] \in Sure(c)' \union {Nobody}
                       /\ r.child[c] \in Own(c)' \union {Nobody}
  BY <1>2 DEF IInv, Records, Knows
<1>6. file' \in Rows /\ file' = file /\ slip \subseteq slip'
  BY DEF IInv, Shape
<1>7. \A c \in Cards : \A id \in (Up(c) \intersect Up(c)') \ slip' :
        file[c] = id \/ Holds(call[h], c, id) => file'[c] = id \/ Holds(r, c, id)
  BY <1>6 DEF Keeps
<1> HIDE DEF Phase, Moves, Fewer, Newcomer, Holds
<1> QED BY <1>1, <1>4, <1>5, <1>6, <1>7, CallStep

-----------------------------------------------------------------------------
(* Calls that start and end *)

LEMMA IdleIsRecord ==
  ASSUME NEW told \in {"nothing", "ok", "error"}
  PROVE  /\ Idle(told) \in CallRecords /\ Idle(told).at = "idle"
         /\ \A c \in Cards : Idle(told).ids[c] = Nobody /\ Idle(told).child[c] = Nobody
         /\ \A f, gone : Phase(Idle(told), f, gone)
<1>1. Idle(told) \in CallRecords
  BY DEF Idle, CallRecords, Places, Rows
<1>2. /\ Idle(told).at = "idle"
      /\ \A c \in Cards : Idle(told).ids[c] = Nobody /\ Idle(told).child[c] = Nobody
  BY DEF Idle
<1>3. \A f, gone : Phase(Idle(told), f, gone)
  BY <1>2 DEF Phase
<1> QED BY <1>1, <1>2, <1>3

\* Only a call that is starting workers has any that are not on record.
LEMMA OthersHoldNone ==
  ASSUME IInv, NEW h \in Calls, call[h].at # "spawn", NEW c \in Cards, NEW id \in Up(c)
  PROVE  ~Holds(call[h], c, id)
BY NobodyIsNone DEF IInv, Phases, Phase, Holds, Up

LEMMA QuietEnd ==
  ASSUME IInv, NEW h \in Calls, call[h].at # "spawn", NEW told \in {"nothing", "ok", "error"},
         call' = [call EXCEPT ![h] = Idle(told)], UNCHANGED <<proc, ticks, boot, file, slip>>
  PROVE  IInv'
<1> DEFINE r == Idle(told)
<1>1. /\ r \in CallRecords /\ r.at = "idle" /\ Phase(r, file, Gone)
      /\ \A c \in Cards : r.ids[c] = Nobody /\ r.child[c] = Nobody
  BY IdleIsRecord
<1>2. call' = [call EXCEPT ![h] = r]
  OBVIOUS
<1> HIDE DEF r
<1>3. \A c \in Cards : \A id \in Up(c) : ~Holds(call[h], c, id)
  BY OthersHoldNone
<1>4. MayLock(h, r)
  BY <1>1 DEF MayLock
<1>5. Knows(r)
  BY <1>1 DEF Knows
<1>6. Keeps(h, r)
  BY <1>3 DEF Keeps
<1> QED BY <1>1, <1>2, <1>4, <1>5, <1>6, QuietStep

\* A call goes on to another place with the same copies of the record.
LEMMA QuietMove ==
  ASSUME IInv, NEW h \in Calls, InLock(h), call[h].at # "spawn",
         NEW r \in CallRecords, call' = [call EXCEPT ![h] = r],
         UNCHANGED <<proc, ticks, boot, file, slip>>,
         r.ids = call[h].ids, r.child = call[h].child,
         Phase(r, file, Gone)
  PROVE  IInv'
<1>1. \A c \in Cards : \A id \in Up(c) : ~Holds(call[h], c, id)
  BY OthersHoldNone
<1>2. Knows(r)
  BY DEF IInv, Records, Knows
<1>3. Keeps(h, r)
  BY <1>1 DEF Keeps
<1>4. MayLock(h, r)
  BY DEF MayLock
<1> QED BY <1>2, <1>3, <1>4, QuietStep

LEMMA AskIInv ==
  ASSUME IInv, NEW h \in Calls, NEW do \in {"start", "stop", "attest"}, NEW want \in SUBSET Cards,
         Ask(h, do, want)
  PROVE  IInv'
<1> DEFINE r == [Idle("nothing") EXCEPT !.at = "asked", !.do = do, !.want = want]
<1>1. r \in CallRecords
  BY IdleIsRecord DEF CallRecords, Places
<1>2. /\ r.at = "asked" /\ r.do = do
      /\ \A c \in Cards : r.ids[c] = Nobody /\ r.child[c] = Nobody
  BY IdleIsRecord DEF CallRecords
<1>3. /\ call' = [call EXCEPT ![h] = r] /\ UNCHANGED <<proc, ticks, boot, file, slip>>
      /\ call[h].at = "idle"
  BY DEF Ask
<1> HIDE DEF r
<1>4. Phase(r, file, Gone)
  BY <1>2 DEF Phase
<1>5. Keeps(h, r)
  BY <1>3, OthersHoldNone DEF Keeps
<1>6. Knows(r)
  BY <1>2 DEF Knows
<1>7. MayLock(h, r)
  BY <1>2 DEF MayLock
<1> QED BY <1>1, <1>3, <1>4, <1>5, <1>6, <1>7, QuietStep

LEMMA BeginIInv == ASSUME IInv, NEW h \in Calls, Begin(h) PROVE IInv'
<1> DEFINE r == [call[h] EXCEPT !.at = call[h].do, !.todo = call[h].want, !.ids = file]
<1>1. /\ call[h] \in CallRecords /\ file \in Rows /\ call[h].at = "asked"
      /\ call[h].do \in {"start", "stop", "attest"}
      /\ \A c \in Cards : call[h].child[c] = Nobody
  BY DEF IInv, Shape, Begin, Phases, Phase
<1>2. r \in CallRecords
  BY <1>1 DEF CallRecords, Places
<1>3. /\ r.at = call[h].do /\ r.todo = r.want /\ r.ids = file /\ r.child = call[h].child
  BY <1>1 DEF CallRecords
<1>4. call' = [call EXCEPT ![h] = r] /\ UNCHANGED <<proc, ticks, boot, file, slip>>
  BY DEF Begin, Reading
<1> HIDE DEF r
<1>5. Phase(r, file, Gone)
  BY <1>1, <1>3 DEF Phase
<1>6. Keeps(h, r)
  BY <1>1, OthersHoldNone DEF Keeps
<1>7. Knows(r)
  BY <1>1, <1>3 DEF IInv, Records, Knows
<1>8. MayLock(h, r)
  BY DEF Begin, MayLock
<1>9. call' = [call EXCEPT ![h] = r]
  BY <1>4
<1>10. UNCHANGED <<proc, ticks, boot, file, slip>>
  BY <1>4
<1> QED BY <1>2, <1>5, <1>6, <1>7, <1>8, <1>9, <1>10, QuietStep

LEMMA EndsIInv ==
  ASSUME IInv, NEW h \in Calls, Refuse(h) \/ CannotStop(h) \/ Stopped(h) \/ Attest(h)
  PROVE  IInv'
<1>1. PICK told \in {"nothing", "ok", "error"} : call' = [call EXCEPT ![h] = Idle(told)]
  BY DEF Refuse, CannotStop, Stopped, Attest
<1>2. call[h].at # "spawn" /\ UNCHANGED <<proc, ticks, boot, file, slip>>
  BY DEF Refuse, CannotStop, Stopped, Attest
<1> QED BY <1>1, <1>2, QuietEnd

-----------------------------------------------------------------------------
(* Writing the record, and calls that are killed *)

\* A running worker is on record for its own card only.
LEMMA RecordedForItsCard ==
  ASSUME NEW c \in Cards, NEW d \in Cards, NEW id \in Up(c), NEW e \in Sure(d) \union {Nobody}, e = id
  PROVE  c = d
BY NobodyIsNone DEF Up, Sure, Own

\* What a call held and is not on record when it ends this way has slipped.
LEMMA HeldOrSlipped ==
  ASSUME NEW h \in Calls, NEW recorded, NEW c \in Cards, NEW id \in Up(c),
         \A d \in Cards : recorded[d] \in Sure(d) \union {Nobody},
         Holds(call[h], c, id), id \notin Unrecorded(h, recorded)
  PROVE  recorded[c] = id
<1>1. id \in {call[h].ids[d] : d \in Cards} \union {call[h].child[d] : d \in Cards}
  BY DEF Holds
<1>2. Matches(id) /\ proc[id.pid].state = "running"
  BY NobodyIsNone DEF Up, Matches, Runs
<1>3. PICK d \in Cards : recorded[d] = id
  BY <1>1, <1>2 DEF Unrecorded
<1> QED BY <1>3, RecordedForItsCard

\* Sets of identities when no process changes.
LEMMA SameProcesses ==
  ASSUME UNCHANGED <<proc, ticks, boot>>
  PROVE  /\ \A c \in Cards : Own(c)' = Own(c) /\ Sure(c)' = Sure(c) /\ Up(c)' = Up(c)
         /\ Gone' = Gone
BY DEF Own, Sure, Up, Gone, Past, Runs, IsWorker, IdentityOf

LEMMA StillMoves ==
  ASSUME IInv, UNCHANGED <<proc, ticks, boot>>
  PROVE  Moves /\ Fewer
BY DEF IInv, Shape, Moves, Fewer

\* A write that names every running worker of the record and of the call.
LEMMA WriteStep ==
  ASSUME IInv, NEW h \in Calls, InLock(h), NEW ids \in Rows, NEW next \in CallRecords,
         Write(h, ids, next), UNCHANGED <<proc, ticks, boot>>,
         Phase(next, ids, Gone), Knows(next),
         \A c \in Cards : ids[c] \in Sure(c) \union {Nobody},
         \A c \in Cards : \A id \in Up(c) :
           file[c] = id \/ Holds(call[h], c, id) => ids[c] = id
  PROVE  IInv'
<1>1. Moves /\ Fewer
  BY StillMoves
<1>2. /\ \A c \in Cards : Own(c)' = Own(c) /\ Sure(c)' = Sure(c) /\ Up(c)' = Up(c)
      /\ Gone' = Gone
  BY SameProcesses
<1>3. CASE file' = ids /\ call' = [call EXCEPT ![h] = next] /\ UNCHANGED slip
  <2>1. /\ file' \in Rows /\ slip \subseteq slip' /\ MayLock(h, next)
        /\ call' = [call EXCEPT ![h] = next]
    BY <1>3 DEF MayLock
  <2>2. Phase(next, file', Gone')
    BY <1>2, <1>3
  <2>3. \A c \in Cards : /\ file'[c] \in Sure(c)' \union {Nobody}
                         /\ next.ids[c] \in Sure(c)' \union {Nobody}
                         /\ next.child[c] \in Own(c)' \union {Nobody}
    BY <1>2, <1>3 DEF Knows
  <2>4. \A c \in Cards : \A id \in (Up(c) \intersect Up(c)') \ slip' :
          file[c] = id \/ Holds(call[h], c, id) => file'[c] = id \/ Holds(next, c, id)
    BY <1>3
  <2> QED BY <1>1, <2>1, <2>2, <2>3, <2>4, CallStep
<1>4. CASE /\ file' \in {file, ids}
           /\ call' = [call EXCEPT ![h] = Idle("error")]
           /\ slip' = slip \union Unrecorded(h, file')
  <2> DEFINE r == Idle("error")
  <2>1. /\ r \in CallRecords /\ r.at = "idle" /\ Phase(r, file', Gone')
        /\ \A c \in Cards : r.ids[c] = Nobody /\ r.child[c] = Nobody
    BY IdleIsRecord
  <2>2. call' = [call EXCEPT ![h] = r] /\ file' \in Rows /\ slip \subseteq slip'
    BY <1>4 DEF IInv, Shape
  <2> HIDE DEF r
  <2>3. \A c \in Cards : file'[c] \in Sure(c) \union {Nobody}
    BY <1>4 DEF IInv, Records
  <2>4. \A c \in Cards : /\ file'[c] \in Sure(c)' \union {Nobody}
                         /\ r.ids[c] \in Sure(c)' \union {Nobody}
                         /\ r.child[c] \in Own(c)' \union {Nobody}
    BY <1>2, <2>1, <2>3
  <2>5. \A c \in Cards : \A id \in (Up(c) \intersect Up(c)') \ slip' :
          file[c] = id \/ Holds(call[h], c, id) => file'[c] = id \/ Holds(r, c, id)
    <3> SUFFICES ASSUME NEW c \in Cards, NEW id \in Up(c), id \notin slip',
                        file[c] = id \/ Holds(call[h], c, id)
                 PROVE  file'[c] = id
      OBVIOUS
    <3>1. CASE file[c] = id
      BY <1>4, <3>1
    <3>2. CASE Holds(call[h], c, id)
      <4>1. id \notin Unrecorded(h, file')
        BY <1>4
      <4> QED BY <2>3, <3>2, <4>1, HeldOrSlipped
    <3> QED BY <3>1, <3>2
  <2>6. MayLock(h, r)
    BY <2>1 DEF MayLock
  <2> QED BY <1>1, <2>1, <2>2, <2>4, <2>5, <2>6, CallStep
<1> QED BY <1>3, <1>4 DEF Write

LEMMA KilledIInv == ASSUME IInv, NEW h \in Calls, Killed(h) PROVE IInv'
<1> DEFINE r == Idle("nothing")
<1>1. /\ r \in CallRecords /\ r.at = "idle" /\ Phase(r, file', Gone')
      /\ \A c \in Cards : r.ids[c] = Nobody /\ r.child[c] = Nobody
  BY IdleIsRecord
<1>2. /\ call' = [call EXCEPT ![h] = r] /\ slip' = slip \union Unrecorded(h, file)
      /\ UNCHANGED <<proc, ticks, boot, file>>
  BY DEF Killed
<1> HIDE DEF r
<1>3. Moves /\ Fewer
  BY <1>2, StillMoves
<1>4. /\ \A c \in Cards : Own(c)' = Own(c) /\ Sure(c)' = Sure(c) /\ Up(c)' = Up(c)
      /\ Gone' = Gone
  BY <1>2, SameProcesses
<1>5. \A c \in Cards : /\ file'[c] \in Sure(c)' \union {Nobody}
                       /\ r.ids[c] \in Sure(c)' \union {Nobody}
                       /\ r.child[c] \in Own(c)' \union {Nobody}
  BY <1>1, <1>2, <1>4 DEF IInv, Records
<1>6. \A c \in Cards : \A id \in (Up(c) \intersect Up(c)') \ slip' :
        file[c] = id \/ Holds(call[h], c, id) => file'[c] = id \/ Holds(r, c, id)
  <2> SUFFICES ASSUME NEW c \in Cards, NEW id \in Up(c), id \notin slip', Holds(call[h], c, id)
               PROVE  file[c] = id
    BY <1>2
  <2>1. \A d \in Cards : file[d] \in Sure(d) \union {Nobody}
    BY DEF IInv, Records
  <2>2. id \notin Unrecorded(h, file)
    BY <1>2
  <2> QED BY <2>1, <2>2, HeldOrSlipped
<1>7. file' \in Rows /\ file' = file /\ slip \subseteq slip' /\ MayLock(h, r)
  BY <1>1, <1>2 DEF IInv, Shape, MayLock
<1> QED BY <1>1, <1>2, <1>3, <1>5, <1>6, <1>7, CallStep

-----------------------------------------------------------------------------
(* Starting workers *)

LEMMA CallIsRecord ==
  ASSUME IInv, NEW h \in Calls
  PROVE  /\ call[h] \in CallRecords /\ Phase(call[h], file, Gone)
         /\ call[h].ids \in Rows /\ call[h].child \in Rows /\ file \in Rows
BY DEF IInv, Shape, Phases, CallRecords

\* A record that is struck names no running worker.
LEMMA StruckIsDown ==
  ASSUME NEW c \in Cards, NEW id \in Up(c)
  PROVE  Matches(id)
BY NobodyIsNone DEF Up, Matches, Runs

LEMMA LookIInv == ASSUME IInv, NEW h \in Calls, NEW c \in Cards, Look(h, c) PROVE IInv'
<1> DEFINE id == call[h].ids[c]
           left == IF Matches(id) THEN id ELSE Nobody
           r == [call[h] EXCEPT !.todo = @ \ {c}, !.ids[c] = left]
           rows == [call[h].ids EXCEPT ![c] = left]
<1>1. /\ call[h] \in CallRecords /\ call[h].at = "start" /\ InLock(h)
      /\ call[h].ids = file /\ file \in Rows /\ UNCHANGED <<proc, ticks, boot>>
      /\ \A d \in Cards : call[h].child[d] = Nobody
  BY CallIsRecord DEF Look, Phase, InLock
<1>2. rows \in Rows /\ rows[c] = left /\ \A d \in Cards \ {c} : rows[d] = file[d]
  BY <1>1 DEF Rows
<1>3. r = [call[h] EXCEPT !.todo = @ \ {c}, !.ids = rows]
  OBVIOUS
<1>4. IF id = Nobody \/ Matches(id)
      THEN call' = [call EXCEPT ![h] = r] /\ UNCHANGED <<file, slip>>
      ELSE Write(h, r.ids, r)
  BY DEF Look
<1>5. id = file[c] /\ left = IF Matches(id) THEN id ELSE Nobody
  BY <1>1
<1> HIDE DEF r, rows, left
<1>6. r \in CallRecords
  BY <1>1, <1>2, <1>3 DEF CallRecords
<1>7. r.at = "start" /\ r.ids = rows /\ r.child = call[h].child
  BY <1>1, <1>3 DEF CallRecords
<1>8. \A d \in Cards : rows[d] \in Sure(d) \union {Nobody}
  BY <1>2, <1>5 DEF IInv, Records
<1>9. Knows(r)
  BY <1>1, <1>7, <1>8 DEF Knows
<1>10. Phase(r, rows, Gone)
  BY <1>1, <1>7 DEF Phase
<1>11. CASE id = Nobody \/ Matches(id)
  <2>1. rows = file
    BY <1>1, <1>2, <1>5, <1>11 DEF Rows
  <2>2. Keeps(h, r)
    BY <1>1, OthersHoldNone DEF Keeps
  <2>3. MayLock(h, r)
    BY <1>1 DEF MayLock
  <2>4. Phase(r, file, Gone)
    BY <1>10, <2>1
  <2>5. UNCHANGED <<proc, ticks, boot, file, slip>> /\ call' = [call EXCEPT ![h] = r]
    BY <1>1, <1>4, <1>11
  <2> QED BY <1>6, <1>9, <2>2, <2>3, <2>4, <2>5, QuietStep
<1>12. CASE ~(id = Nobody \/ Matches(id))
  <2>1. \A d \in Cards : \A i \in Up(d) : file[d] = i \/ Holds(call[h], d, i) => rows[d] = i
    <3> SUFFICES ASSUME NEW d \in Cards, NEW i \in Up(d), file[d] = i \/ Holds(call[h], d, i)
                 PROVE  rows[d] = i
      OBVIOUS
    <3>1. file[d] = i /\ Matches(i)
      BY <1>1, OthersHoldNone, StruckIsDown
    <3> QED BY <1>2, <1>5, <1>12, <3>1
  <2>2. Write(h, rows, r)
    BY <1>4, <1>7, <1>12
  <2> QED BY <1>1, <1>2, <1>6, <1>8, <1>9, <1>10, <2>1, <2>2, WriteStep
<1> QED BY <1>11, <1>12

LEMMA SpawnIInv == ASSUME IInv, NEW h \in Calls, Spawn(h) PROVE IInv'
<1> DEFINE bare == {c \in call[h].want : call[h].ids[c] = Nobody}
           r == [call[h] EXCEPT !.at = "spawn", !.todo = bare]
<1>1. /\ call[h] \in CallRecords /\ call[h].at = "start" /\ InLock(h)
      /\ call[h].ids = file /\ UNCHANGED <<proc, ticks, boot, file, slip>>
      /\ \A d \in Cards : call[h].child[d] = Nobody
  BY CallIsRecord DEF Spawn, Phase, InLock
<1>2. CASE call' = [call EXCEPT ![h] = Idle("ok")]
  BY <1>1, <1>2, QuietEnd
<1>3. CASE call' = [call EXCEPT ![h] = r]
  <2>1. bare \subseteq Cards
    BY <1>1 DEF CallRecords
  <2>2. \A c \in bare : call[h].ids[c] = Nobody
    OBVIOUS
  <2> HIDE DEF bare
  <2>3. r \in CallRecords
    BY <1>1, <2>1 DEF CallRecords, Places
  <2>4. /\ r.at = "spawn" /\ r.todo = bare /\ r.ids = call[h].ids /\ r.child = call[h].child
    BY <1>1 DEF CallRecords
  <2>5. call' = [call EXCEPT ![h] = r]
    BY <1>3
  <2> HIDE DEF r
  <2>6. Phase(r, file, Gone)
    BY <1>1, <2>2, <2>4 DEF Phase
  <2> QED BY <1>1, <2>3, <2>4, <2>5, <2>6, QuietMove
<1> QED BY <1>2, <1>3 DEF Spawn

LEMMA CaptureIInv == ASSUME IInv, NEW h \in Calls, NEW c \in Cards, Capture(h, c) PROVE IInv'
<1> DEFINE id == call[h].child[c]
           rows == [call[h].ids EXCEPT ![c] = id]
           rest == [call[h].child EXCEPT ![c] = Nobody]
           r == [call[h] EXCEPT !.child = rest, !.ids = rows]
<1>1. /\ call[h] \in CallRecords /\ call[h].at = "spawn" /\ InLock(h)
      /\ UNCHANGED <<proc, ticks, boot, file, slip>>
      /\ call[h].ids \in Rows /\ call[h].child \in Rows
      /\ Matches(id) /\ proc[id.pid].state = "running" /\ id # Nobody
  BY CallIsRecord DEF Capture, InLock, Matches
<1>2. Phase(call[h], file, Gone)
  BY CallIsRecord
<1>3. /\ rows \in Rows /\ rows[c] = id /\ \A d \in Cards \ {c} : rows[d] = call[h].ids[d]
      /\ rest \in Rows /\ rest[c] = Nobody /\ \A d \in Cards \ {c} : rest[d] = call[h].child[d]
  BY <1>1 DEF Rows
<1>4. call' = [call EXCEPT ![h] = r]
  BY DEF Capture
<1>5. id \in Sure(c)
  BY <1>1 DEF IInv, Records, Sure
<1> HIDE DEF id, rows, rest
<1>6. r \in CallRecords
  BY <1>1, <1>3 DEF CallRecords
<1>7. r.at = "spawn" /\ r.todo = call[h].todo /\ r.ids = rows /\ r.child = rest
  BY <1>1 DEF CallRecords
<1> HIDE DEF r
<1>8. Knows(r)
  BY <1>3, <1>5, <1>7 DEF Knows, IInv, Records
<1>9. Phase(r, file, Gone)
  <2>1. c \notin call[h].todo /\ file[c] = Nobody
    BY <1>1, <1>2 DEF Phase, id
  <2> QED BY <1>1, <1>2, <1>3, <1>7, <2>1 DEF Phase
<1>10. Keeps(h, r)
  <2>1. call[h].ids[c] = Nobody
    BY <1>1, <1>2 DEF Phase, id
  <2> SUFFICES ASSUME NEW d \in Cards, NEW i \in Up(d), Holds(call[h], d, i) PROVE Holds(r, d, i)
    BY DEF Keeps
  <2>2. i # Nobody
    BY NobodyIsNone DEF Up
  <2> QED BY <1>1, <1>3, <1>7, <2>1, <2>2 DEF Holds, id
<1>11. MayLock(h, r)
  BY <1>1 DEF MayLock
<1> QED BY <1>1, <1>4, <1>6, <1>8, <1>9, <1>10, <1>11, QuietStep

LEMMA RecordIInv == ASSUME IInv, NEW h \in Calls, Record(h) PROVE IInv'
<1> DEFINE told == IF call[h].failed THEN "error" ELSE "ok"
<1>1. /\ call[h].at = "spawn" /\ InLock(h) /\ UNCHANGED <<proc, ticks, boot>>
      /\ call[h].todo = {} /\ \A c \in Cards : call[h].child[c] = Nobody
  BY DEF Record, Started, Pending, InLock
<1>2. Write(h, call[h].ids, Idle(told))
  BY DEF Record, Answer
<1>3. /\ Idle(told) \in CallRecords /\ Phase(Idle(told), call[h].ids, Gone)
      /\ Knows(Idle(told))
  BY IdleIsRecord DEF Knows
<1> HIDE DEF told
<1>4. \A c \in Cards : call[h].ids[c] \in Sure(c) \union {Nobody}
  BY DEF IInv, Records
<1>5. \A c \in Cards : \A id \in Up(c) :
        file[c] = id \/ Holds(call[h], c, id) => call[h].ids[c] = id
  BY <1>1, CallIsRecord, NobodyIsNone DEF Phase, Holds, Up
<1>6. call[h].ids \in Rows
  BY CallIsRecord
<1> QED BY <1>1, <1>2, <1>3, <1>4, <1>5, <1>6, WriteStep

-----------------------------------------------------------------------------
(* Stopping workers *)

\* A recorded identity that is not its worker's is nobody's.
LEMMA NoMatchIsGone ==
  ASSUME NEW c \in Cards, NEW id \in Sure(c) \union {Nobody}, id # Nobody, ~Matches(id)
  PROVE  id \in Gone
BY DEF Sure, Own, Gone, Matches, Runs

\* What a call that has a card in hand knows of it.
LEMMA InHand ==
  ASSUME IInv, NEW h \in Calls, call[h].at \in {"open", "check", "signal", "strike"}
  PROVE  /\ call[h].card \in Cards /\ call[h].ids = file /\ InLock(h)
         /\ file[call[h].card] \in Sure(call[h].card) /\ file[call[h].card] # Nobody
         /\ call[h].at = "check" => call[h].pin = file[call[h].card] \/ file[call[h].card] \in Gone
         /\ call[h].at = "signal" => call[h].pin = file[call[h].card]
         /\ call[h].at = "strike" => file[call[h].card] \in Gone
<1>1. Phase(call[h], file, Gone)
  BY CallIsRecord
<1>2. call[h].card \in Cards /\ call[h].ids = file /\ file[call[h].card] # Nobody
  BY <1>1 DEF Phase
<1>3. file[call[h].card] \in Sure(call[h].card)
  BY <1>2 DEF IInv, Records
<1>4. /\ call[h].at = "check" => call[h].pin = file[call[h].card] \/ file[call[h].card] \in Gone
      /\ call[h].at = "signal" => call[h].pin = file[call[h].card]
      /\ call[h].at = "strike" => file[call[h].card] \in Gone
  BY <1>1, <1>2 DEF Phase
<1>5. InLock(h)
  BY DEF InLock
<1> QED BY <1>2, <1>3, <1>4, <1>5

LEMMA StopNextIInv == ASSUME IInv, NEW h \in Calls, NEW c \in Cards, StopNext(h, c) PROVE IInv'
<1> DEFINE id == call[h].ids[c]
           r == IF id = Nobody THEN [call[h] EXCEPT !.todo = @ \ {c}]
                ELSE [call[h] EXCEPT !.card = c, !.at = IF Matches(id) THEN "open" ELSE "strike"]
<1>1. /\ call[h] \in CallRecords /\ call[h].at = "stop" /\ InLock(h)
      /\ UNCHANGED <<proc, ticks, boot, file, slip>>
      /\ Phase(call[h], file, Gone)
  BY CallIsRecord DEF StopNext, InLock
<1>2. call' = [call EXCEPT ![h] = r]
  <2>1. CASE id = Nobody
    <3>1. r = [call[h] EXCEPT !.todo = @ \ {c}]
      BY <2>1
    <3> HIDE DEF r
    <3> QED BY <2>1, <3>1 DEF StopNext
  <2>2. CASE id # Nobody /\ Matches(id)
    <3>1. r = [call[h] EXCEPT !.card = c, !.at = "open"]
      BY <2>2
    <3> HIDE DEF r
    <3> QED BY <2>2, <3>1 DEF StopNext
  <2>3. CASE id # Nobody /\ ~Matches(id)
    <3>1. r = [call[h] EXCEPT !.card = c, !.at = "strike"]
      BY <2>3
    <3> HIDE DEF r
    <3> QED BY <2>3, <3>1 DEF StopNext
  <2> QED BY <2>1, <2>2, <2>3
<1>3. id \in Sure(c) \union {Nobody}
  BY DEF IInv, Records
<1>4. id = Nobody \/ Matches(id) \/ id \in Gone
  BY <1>3, NoMatchIsGone
<1>7. id = call[h].ids[c]
  OBVIOUS
<1> HIDE DEF id
<1>5. /\ r \in CallRecords /\ r.ids = call[h].ids /\ r.child = call[h].child
      /\ r.want = call[h].want
      /\ \/ id = Nobody /\ r.at = "stop" /\ r.todo = call[h].todo \ {c}
         \/ id # Nobody /\ Matches(id) /\ r.at = "open" /\ r.card = c /\ r.todo = call[h].todo
         \/ id # Nobody /\ id \in Gone /\ r.at = "strike" /\ r.card = c /\ r.todo = call[h].todo
  BY <1>1, <1>4 DEF CallRecords, Places
<1> HIDE DEF r
<1>6. Phase(r, file, Gone)
  BY <1>1, <1>5, <1>7 DEF Phase
<1> QED BY <1>1, <1>2, <1>5, <1>6, QuietMove

LEMMA OpenIInv == ASSUME IInv, NEW h \in Calls, Open(h) PROVE IInv'
<1> DEFINE id == call[h].ids[call[h].card]
           r == IF proc[id.pid] = Nobody THEN [call[h] EXCEPT !.at = "strike"]
                ELSE [call[h] EXCEPT !.at = "check", !.pin = IdentityOf(id.pid)]
<1>1. /\ call[h] \in CallRecords /\ call[h].at = "open" /\ InLock(h)
      /\ UNCHANGED <<proc, ticks, boot, file, slip>>
      /\ Phase(call[h], file, Gone)
  BY CallIsRecord DEF Open, InLock
<1>2. call' = [call EXCEPT ![h] = r]
  BY DEF Open
<1>3. id \in Identity /\ Past(id) /\ id.pid \in Pids
  BY <1>1, InHand DEF Sure, Own, Identity
<1>4. proc[id.pid] = Nobody => id \in Gone
  BY <1>3 DEF Gone, Runs
<1>5. proc[id.pid] # Nobody => IdentityOf(id.pid) \in Identity
  BY <1>3, ProcessFields DEF IInv
<1>6. IdentityOf(id.pid) # id => id \in Gone
  BY <1>3 DEF Gone, Runs
<1>7. /\ r \in CallRecords /\ r.ids = call[h].ids /\ r.child = call[h].child
      /\ r.want = call[h].want /\ r.todo = call[h].todo /\ r.card = call[h].card
      /\ \/ proc[id.pid] = Nobody /\ r.at = "strike"
         \/ proc[id.pid] # Nobody /\ r.at = "check" /\ r.pin = IdentityOf(id.pid)
  BY <1>1, <1>5 DEF CallRecords, Places
<1>8. id = r.ids[r.card]
  BY <1>7
<1> HIDE DEF r, id
<1>9. Phase(r, file, Gone)
  BY <1>1, <1>4, <1>6, <1>7, <1>8 DEF Phase
<1> QED BY <1>1, <1>2, <1>7, <1>9, QuietMove

LEMMA CheckIInv == ASSUME IInv, NEW h \in Calls, Check(h) PROVE IInv'
<1> DEFINE id == call[h].ids[call[h].card]
           r == [call[h] EXCEPT !.at = IF Matches(id) THEN "signal" ELSE "strike"]
<1>1. /\ call[h] \in CallRecords /\ call[h].at = "check" /\ InLock(h)
      /\ UNCHANGED <<proc, ticks, boot, file, slip>>
      /\ Phase(call[h], file, Gone)
  BY CallIsRecord DEF Check, InLock
<1>2. call' = [call EXCEPT ![h] = r]
  BY DEF Check
<1>3. /\ id \in Sure(call[h].card) /\ id # Nobody /\ call[h].card \in Cards
      /\ call[h].pin = id \/ id \in Gone
  <2>1. call[h].at \in {"open", "check", "signal", "strike"}
    BY <1>1
  <2> QED BY <1>1, <2>1, InHand
<1>4. Matches(id) => id \notin Gone
  BY DEF Matches, Gone, Runs, IsWorker
<1>5. ~Matches(id) => id \in Gone
  BY <1>3, NoMatchIsGone
<1>6. /\ r \in CallRecords /\ r.ids = call[h].ids /\ r.child = call[h].child
      /\ r.want = call[h].want /\ r.todo = call[h].todo /\ r.card = call[h].card
      /\ r.pin = call[h].pin
      /\ r.at = IF Matches(id) THEN "signal" ELSE "strike"
  BY <1>1 DEF CallRecords, Places
<1>7. id = r.ids[r.card]
  BY <1>6
<1> HIDE DEF r, id
<1>8. Phase(r, file, Gone)
  BY <1>1, <1>3, <1>4, <1>5, <1>6, <1>7 DEF Phase
<1> QED BY <1>1, <1>2, <1>6, <1>8, QuietMove

\* Ending one process, if it runs.
LEMMA EndOne ==
  ASSUME IInv, NEW id \in Identity, UNCHANGED <<ticks, boot>>,
         proc' = IF Runs(id) THEN [proc EXCEPT ![id.pid] = Nobody] ELSE proc
  PROVE  Moves /\ Fewer /\ ~Runs(id)'
<1>1. id.pid \in Pids /\ proc \in [Pids -> Process \union Other \union {Nobody}]
      /\ ticks \in 0 .. MaxTicks
  BY DEF IInv, Shape, Identity
<1>2. CASE Runs(id)
  BY <1>1, <1>2 DEF Moves, Fewer, Runs
<1>3. CASE ~Runs(id)
  <2>1. proc' = proc
    BY <1>3
  <2>2. ~Runs(id)'
    BY <1>3, <2>1 DEF Runs, IdentityOf
  <2> QED BY <1>1, <2>1, <2>2 DEF Moves, Fewer
<1> QED BY <1>2, <1>3

LEMMA SignalIInv == ASSUME IInv, NEW h \in Calls, Signal(h) PROVE IInv'
<1> DEFINE r == [call[h] EXCEPT !.at = "strike"]
<1>1. /\ call[h] \in CallRecords /\ call[h].at = "signal" /\ InLock(h)
      /\ UNCHANGED <<ticks, boot, file, slip>> /\ file \in Rows
      /\ Phase(call[h], file, Gone)
  BY CallIsRecord DEF Signal, InLock
<1>2. call' = [call EXCEPT ![h] = r]
  BY DEF Signal
<1>3. PICK id \in Identity : /\ Past(id) /\ call[h].pin = id /\ file[call[h].card] = id
                            /\ call[h].card \in Cards /\ call[h].ids = file
  <2>1. call[h].at \in {"open", "check", "signal", "strike"}
    BY <1>1
  <2> QED BY <1>1, <2>1, InHand DEF Sure, Own
<1>4. proc' = IF Runs(id) THEN [proc EXCEPT ![id.pid] = Nobody] ELSE proc
  BY <1>3 DEF Signal
<1>5. Moves /\ Fewer /\ ~Runs(id)'
  BY <1>1, <1>4, EndOne
<1>6. id \in Gone'
  <2>1. Past(id)'
    BY <1>1, <1>3 DEF Past
  <2> QED BY <1>5, <2>1 DEF Gone
<1>7. /\ r \in CallRecords /\ r.ids = call[h].ids /\ r.child = call[h].child
      /\ r.want = call[h].want /\ r.todo = call[h].todo /\ r.card = call[h].card
      /\ r.at = "strike"
  BY <1>1 DEF CallRecords, Places
<1> HIDE DEF r
<1>8. Phase(r, file', Gone')
  BY <1>1, <1>3, <1>6, <1>7 DEF Phase
<1>9. \A c \in Cards : /\ file'[c] \in Sure(c)' \union {Nobody}
                       /\ r.ids[c] \in Sure(c)' \union {Nobody}
                       /\ r.child[c] \in Own(c)' \union {Nobody}
  <2>1. \A c \in Cards : Own(c) \subseteq Own(c)' /\ Sure(c) \subseteq Sure(c)'
    BY <1>5, IdentitiesKept DEF IInv
  <2> QED BY <1>1, <1>7, <2>1 DEF IInv, Records
<1>10. \A c \in Cards : \A i \in (Up(c) \intersect Up(c)') \ slip' :
         file[c] = i \/ Holds(call[h], c, i) => file'[c] = i \/ Holds(r, c, i)
  BY <1>1, OthersHoldNone
<1>11. file' \in Rows /\ file' = file /\ slip \subseteq slip' /\ MayLock(h, r)
  BY <1>1 DEF MayLock
<1> HIDE DEF Holds, Phase
<1> QED BY <1>2, <1>5, <1>7, <1>8, <1>9, <1>10, <1>11, CallStep

LEMMA StrikeIInv == ASSUME IInv, NEW h \in Calls, Strike(h) PROVE IInv'
<1> DEFINE c == call[h].card
           rows == [call[h].ids EXCEPT ![c] = Nobody]
           r == [call[h] EXCEPT !.at = "stop", !.todo = @ \ {c}, !.ids = rows,
                                !.card = Nobody, !.pin = Nobody]
<1>1. /\ call[h] \in CallRecords /\ call[h].at = "strike" /\ InLock(h)
      /\ UNCHANGED <<proc, ticks, boot>> /\ file \in Rows /\ call[h].ids \in Rows
      /\ Phase(call[h], file, Gone)
  BY CallIsRecord DEF Strike, InLock
<1>2. Write(h, rows, r)
  BY DEF Strike
<1>3. file[c] \in Gone /\ c \in Cards /\ call[h].ids = file
  <2>1. call[h].at \in {"open", "check", "signal", "strike"}
    BY <1>1
  <2> QED BY <1>1, <2>1, InHand
<1>4. rows \in Rows /\ rows[c] = Nobody /\ \A d \in Cards \ {c} : rows[d] = file[d]
  BY <1>1, <1>3 DEF Rows
<1> HIDE DEF rows, c
<1>5. /\ r \in CallRecords /\ r.at = "stop" /\ r.todo = call[h].todo \ {c} /\ r.ids = rows
      /\ r.want = call[h].want /\ r.child = call[h].child
  BY <1>1, <1>4 DEF CallRecords, Places
<1> HIDE DEF r
<1>6. \A d \in Cards : rows[d] \in Sure(d) \union {Nobody}
  BY <1>4 DEF IInv, Records
<1>7. Knows(r)
  BY <1>5, <1>6 DEF Knows, IInv, Records
<1>8. Phase(r, rows, Gone)
  BY <1>1, <1>3, <1>4, <1>5 DEF Phase, CallRecords
<1>9. \A d \in Cards : \A i \in Up(d) : file[d] = i \/ Holds(call[h], d, i) => rows[d] = i
  <2> SUFFICES ASSUME NEW d \in Cards, NEW i \in Up(d), file[d] = i \/ Holds(call[h], d, i)
               PROVE  rows[d] = i
    OBVIOUS
  <2>1. file[d] = i
    BY <1>1, OthersHoldNone
  <2>2. i \notin Gone
    BY DEF Up, Gone
  <2> QED BY <1>3, <1>4, <2>1, <2>2
<1> QED BY <1>1, <1>2, <1>4, <1>5, <1>6, <1>7, <1>8, <1>9, WriteStep

-----------------------------------------------------------------------------
(* Children of a call *)

LEMMA ForkIInv == ASSUME IInv, NEW h \in Calls, NEW c \in Cards, Fork(h, c) PROVE IInv'
<1>1. /\ call[h] \in CallRecords /\ call[h].at = "spawn" /\ InLock(h) /\ c \in call[h].todo
      /\ UNCHANGED <<boot, file, slip>> /\ file \in Rows /\ call[h].child \in Rows
      /\ Phase(call[h], file, Gone)
  BY CallIsRecord DEF Fork, InLock
<1>2. call[h].ids[c] = Nobody /\ call[h].child[c] = Nobody
  BY <1>1 DEF Phase
<1>3. CASE /\ UNCHANGED <<proc, ticks>>
           /\ call' = [call EXCEPT ![h] = [call[h] EXCEPT !.todo = @ \ {c}, !.failed = TRUE]]
  <2> DEFINE r == [call[h] EXCEPT !.todo = @ \ {c}, !.failed = TRUE]
  <2>1. /\ r \in CallRecords /\ r.at = "spawn" /\ r.todo = call[h].todo \ {c}
        /\ r.ids = call[h].ids /\ r.child = call[h].child
    BY <1>1 DEF CallRecords
  <2>2. call' = [call EXCEPT ![h] = r]
    BY <1>3
  <2> HIDE DEF r
  <2>3. Phase(r, file, Gone)
    BY <1>1, <2>1 DEF Phase
  <2>4. Knows(r)
    BY <2>1 DEF Knows, IInv, Records
  <2>5. Keeps(h, r)
    BY <1>1, <2>1 DEF Keeps, Holds
  <2>6. MayLock(h, r)
    BY <1>1 DEF MayLock
  <2> QED BY <1>1, <1>3, <2>1, <2>2, <2>3, <2>4, <2>5, <2>6, QuietStep
<1>4. ASSUME NEW p \in Pids, Fresh(p), ticks' = ticks + 1,
             proc' = [proc EXCEPT ![p] = [state |-> "warming", card |-> c, boot |-> boot,
                                          since |-> ticks]],
             call' = [call EXCEPT ![h] = [call[h] EXCEPT !.todo = @ \ {c},
                                            !.child[c] = [pid |-> p, boot |-> boot, since |-> ticks]]]
      PROVE  IInv'
  <2> DEFINE w == [state |-> "warming", card |-> c, boot |-> boot, since |-> ticks]
  <2>1. PICK id \in Identity : id = [pid |-> p, boot |-> boot, since |-> ticks]
    BY DEF IInv, Shape, Identity
  <2> DEFINE rest == [call[h].child EXCEPT ![c] = id]
             r == [call[h] EXCEPT !.todo = @ \ {c}, !.child = rest]
  <2>2. ticks \in Nat /\ boot \in Nat /\ ticks < ticks' /\ ticks' \in 0 .. MaxTicks /\ ticks # ticks'
    BY <1>4, HelperAssumption DEF IInv, Shape, Fresh
  <2>3. w \in Process /\ w # Nobody
    BY NobodyIsNone DEF IInv, Shape, Process
  <2>4. Moves /\ Newcomer
    <3>1. /\ proc'[p] = w /\ \A q \in Pids \ {p} : proc'[q] = proc[q]
          /\ proc' \in [Pids -> Process \union Other \union {Nobody}]
      BY <1>4, <2>3 DEF IInv, Shape
    <3>2. w.state # "running" /\ w.boot = boot /\ w.since = ticks
      OBVIOUS
    <3> HIDE DEF w
    <3>3. Newcomer
      BY <1>4, <2>3, <3>1, <3>2 DEF Newcomer
    <3> QED BY <1>1, <2>2, <3>1, <3>3 DEF Moves
  <2>5. /\ rest \in Rows /\ rest[c] = id /\ \A d \in Cards \ {c} : rest[d] = call[h].child[d]
    BY <1>1 DEF Rows
  <2>6. call' = [call EXCEPT ![h] = r]
    BY <1>4, <2>1
  <2> HIDE DEF rest
  <2>7. /\ r \in CallRecords /\ r.at = "spawn" /\ r.todo = call[h].todo \ {c}
        /\ r.ids = call[h].ids /\ r.child = rest
    BY <1>1, <2>5 DEF CallRecords
  <2> HIDE DEF r
  <2>8. id # Nobody
    BY NobodyIsNone
  <2>9. Phase(r, file', Gone')
    BY <1>1, <1>2, <2>5, <2>7, <2>8 DEF Phase
  <2>10. id \in Own(c)'
    <3>1. id.pid = p /\ id.boot = boot /\ id.since = ticks
      BY <2>1
    <3>2. Past(id)'
      BY <1>1, <2>2, <3>1 DEF Past
    <3>3. proc'[p] = w
      BY <1>4 DEF IInv, Shape
    <3>4. proc'[p] # Nobody /\ proc'[p].state = "warming" /\ proc'[p].card = c
      BY <2>3, <3>3
    <3>5. IsWorker(id.pid)' /\ proc'[id.pid].card = c
      BY <3>1, <3>4 DEF IsWorker
    <3> QED BY <3>2, <3>5 DEF Own
  <2>11. \A d \in Cards : /\ file'[d] \in Sure(d)' \union {Nobody}
                          /\ r.ids[d] \in Sure(d)' \union {Nobody}
                          /\ r.child[d] \in Own(d)' \union {Nobody}
    <3>1. \A d \in Cards : Own(d) \subseteq Own(d)' /\ Sure(d) \subseteq Sure(d)'
      BY <2>4, IdentitiesKept DEF IInv
    <3> QED BY <1>1, <2>5, <2>7, <2>10, <3>1 DEF IInv, Records
  <2>12. \A d \in Cards : \A i \in (Up(d) \intersect Up(d)') \ slip' :
           file[d] = i \/ Holds(call[h], d, i) => file'[d] = i \/ Holds(r, d, i)
    <3> SUFFICES ASSUME NEW d \in Cards, NEW i \in Up(d), Holds(call[h], d, i) PROVE Holds(r, d, i)
      BY <1>1
    <3>1. i # Nobody
      BY NobodyIsNone DEF Up
    <3> QED BY <1>1, <1>2, <2>5, <2>7, <3>1 DEF Holds
  <2>13. file' \in Rows /\ file' = file /\ slip \subseteq slip' /\ MayLock(h, r)
    BY <1>1 DEF MayLock
  <2> HIDE DEF Holds, Phase
  <2> QED BY <2>4, <2>6, <2>7, <2>9, <2>11, <2>12, <2>13, CallStep
<1> QED BY <1>3, <1>4 DEF Fork

LEMMA GiveUpIInv == ASSUME IInv, NEW h \in Calls, NEW c \in Cards, GiveUp(h, c) PROVE IInv'
<1>1. /\ call[h] \in CallRecords /\ call[h].at = "spawn" /\ InLock(h) /\ call[h].child[c] # Nobody
      /\ UNCHANGED <<ticks, boot, file, slip>> /\ file \in Rows /\ call[h].child \in Rows
      /\ Phase(call[h], file, Gone)
  BY CallIsRecord DEF GiveUp, InLock
<1>2. PICK id \in Identity : id = call[h].child[c]
  BY <1>1 DEF Rows
<1> DEFINE rest == [call[h].child EXCEPT ![c] = Nobody]
           r == [call[h] EXCEPT !.child = rest, !.failed = TRUE]
<1>3. Moves /\ Fewer /\ ~Runs(id)'
  <2>1. proc' = IF Runs(id) THEN [proc EXCEPT ![id.pid] = Nobody] ELSE proc
    BY <1>2 DEF GiveUp
  <2> QED BY <1>1, <2>1, EndOne
<1>4. rest \in Rows /\ rest[c] = Nobody /\ \A d \in Cards \ {c} : rest[d] = call[h].child[d]
  BY <1>1 DEF Rows
<1>5. call' = [call EXCEPT ![h] = r]
  BY DEF GiveUp
<1> HIDE DEF rest
<1>6. /\ r \in CallRecords /\ r.at = "spawn" /\ r.todo = call[h].todo
      /\ r.ids = call[h].ids /\ r.child = rest
  BY <1>1, <1>4 DEF CallRecords
<1> HIDE DEF r
<1>7. Phase(r, file', Gone')
  BY <1>1, <1>4, <1>6 DEF Phase
<1>8. \A d \in Cards : /\ file'[d] \in Sure(d)' \union {Nobody}
                       /\ r.ids[d] \in Sure(d)' \union {Nobody}
                       /\ r.child[d] \in Own(d)' \union {Nobody}
  <2>1. \A d \in Cards : Own(d) \subseteq Own(d)' /\ Sure(d) \subseteq Sure(d)'
    BY <1>3, IdentitiesKept DEF IInv
  <2> QED BY <1>1, <1>4, <1>6, <2>1 DEF IInv, Records
<1>9. \A d \in Cards : \A i \in (Up(d) \intersect Up(d)') \ slip' :
        file[d] = i \/ Holds(call[h], d, i) => file'[d] = i \/ Holds(r, d, i)
  <2> SUFFICES ASSUME NEW d \in Cards, NEW i \in Up(d)', Holds(call[h], d, i) PROVE Holds(r, d, i)
    BY <1>1
  <2>1. i # id
    BY <1>3 DEF Up
  <2> QED BY <1>1, <1>2, <1>4, <1>6, <2>1 DEF Holds
<1>10. file' \in Rows /\ file' = file /\ slip \subseteq slip' /\ MayLock(h, r)
  BY <1>1 DEF MayLock
<1> HIDE DEF Holds, Phase
<1> QED BY <1>3, <1>5, <1>6, <1>7, <1>8, <1>9, <1>10, CallStep

-----------------------------------------------------------------------------
(* The machine under the calls *)

\* A step of the machine alone: only a worker that says READY comes up.
LEMMA MachineStep ==
  ASSUME IInv, Moves, UNCHANGED <<call, file, slip>>,
         \A c \in Cards : \A id \in Up(c)' \ Up(c) : \E h \in Calls : Holds(call[h], c, id)
  PROVE  IInv'
<1>1. Shape' /\ Clock'
  BY ClockMoves DEF IInv, Shape, Moves
<1>2. /\ \A c \in Cards : Own(c) \subseteq Own(c)' /\ Sure(c) \subseteq Sure(c)'
      /\ Gone \subseteq Gone'
  BY IdentitiesKept DEF IInv
<1>3. Records'
  BY <1>2 DEF IInv, Records
<1>4. Locked'
  BY DEF IInv, Locked, InLock
<1>5. Phases'
  <2> SUFFICES ASSUME NEW h \in Calls PROVE Phase(call[h], file, Gone')
    BY DEF Phases
  <2> QED BY <1>2 DEF IInv, Phases, Phase
<1>6. Accounted'
  <2> SUFFICES ASSUME NEW c \in Cards, NEW id \in Up(c)', id \notin slip
               PROVE  file[c] = id \/ \E h \in Calls : Holds(call[h], c, id)
    BY DEF Accounted, Holds
  <2> QED BY DEF IInv, Accounted
<1> QED BY <1>1, <1>3, <1>4, <1>5, <1>6 DEF IInv

LEMMA ArrivesIInv == ASSUME IInv, NEW p \in Pids, Arrives(p) PROVE IInv'
<1> DEFINE w == [state |-> "other", boot |-> boot, since |-> ticks]
<1>1. /\ UNCHANGED <<boot, call, file, slip>> /\ ticks' = ticks + 1
      /\ ticks' \in 0 .. MaxTicks /\ proc' = [proc EXCEPT ![p] = w]
  BY HelperAssumption DEF Arrives, Fresh, IInv, Shape
<1>2. w \in Other /\ w # Nobody
  BY NobodyIsNone DEF IInv, Shape, Other
<1>3. w.state # "running" /\ w.boot = boot /\ w.since = ticks
  OBVIOUS
<1> HIDE DEF w
<1>4. /\ proc'[p] = w /\ \A q \in Pids \ {p} : proc'[q] = proc[q]
      /\ proc' \in [Pids -> Process \union Other \union {Nobody}]
  BY <1>1, <1>2 DEF IInv, Shape
<1>5. Newcomer
  BY <1>1, <1>2, <1>3, <1>4 DEF Newcomer
<1>6. Moves
  BY <1>1, <1>4, <1>5 DEF Moves
<1>7. \A c \in Cards : Up(c)' \subseteq Up(c)
  BY <1>5, <1>6, NoneComesUp DEF IInv
<1> QED BY <1>1, <1>6, <1>7, MachineStep

LEMMA EndsProcessIInv ==
  ASSUME IInv, UNCHANGED <<ticks, boot, file, call, slip>>, NEW p \in Pids,
         proc' = [proc EXCEPT ![p] = Nobody]
  PROVE  IInv'
<1>1. Fewer /\ Moves
  BY DEF Fewer, Moves, IInv, Shape
<1>2. \A c \in Cards : Up(c)' \subseteq Up(c)
  BY <1>1, NoneComesUp DEF IInv
<1> QED BY <1>1, <1>2, MachineStep

LEMMA WarmIInv == ASSUME IInv, NEW p \in Pids, Warm(p) PROVE IInv'
<1>1. /\ UNCHANGED <<ticks, boot, file, call, slip>>
      /\ proc[p] # Nobody /\ proc[p].state = "warming"
      /\ proc \in [Pids -> Process \union Other \union {Nobody}]
  BY DEF Warm, IInv, Shape
<1>2. CASE ~\E h \in Calls : call[h].child[proc[p].card] = IdentityOf(p)
  <2>1. proc' = [proc EXCEPT ![p] = Nobody]
    BY <1>2 DEF Warm
  <2> QED BY <1>1, <2>1, EndsProcessIInv
<1>3. ASSUME NEW h \in Calls, call[h].child[proc[p].card] = IdentityOf(p)
      PROVE  IInv'
  <2> DEFINE w == [proc[p] EXCEPT !.state = "running"]
  <2>1. proc' = [proc EXCEPT ![p] = w]
    BY <1>3 DEF Warm
  <2>2. proc[p] \in Process
    BY <1>1, ProcessFields DEF IInv, IsWorker
  <2>3. /\ w \in Process /\ w # Nobody /\ w.state = "running"
        /\ w.card = proc[p].card /\ w.boot = proc[p].boot /\ w.since = proc[p].since
    BY <2>2, NobodyIsNone DEF Process
  <2> HIDE DEF w
  <2>4. /\ proc'[p] = w /\ \A q \in Pids \ {p} : proc'[q] = proc[q]
        /\ proc' \in [Pids -> Process \union Other \union {Nobody}]
    BY <1>1, <2>1, <2>3
  <2>5. Ready(p)
    BY <1>1, <2>3, <2>4 DEF Ready
  <2>6. Moves
    BY <1>1, <2>4, <2>5 DEF Moves, IInv, Shape
  <2>7. ASSUME NEW c \in Cards, NEW id \in Up(c)', id \notin Up(c)
        PROVE  Holds(call[h], c, id)
    <3>1. /\ id \in Identity /\ id.pid \in Pids /\ proc'[id.pid] # Nobody
          /\ proc'[id.pid].state = "running" /\ proc'[id.pid].card = c
          /\ IdentityOf(id.pid)' = id
      BY <2>7 DEF Up, Runs, IsWorker, Identity
    <3>2. id.pid = p
      <4> SUFFICES ASSUME id.pid # p PROVE FALSE
        OBVIOUS
      <4>1. proc'[id.pid] = proc[id.pid]
        BY <2>4, <3>1
      <4> QED BY <2>7, <3>1, <4>1 DEF Up, Runs, IsWorker, IdentityOf
    <3>3. c = proc[p].card /\ id = IdentityOf(p)
      BY <2>3, <2>4, <3>1, <3>2 DEF IdentityOf
    <3> QED BY <1>3, <3>3 DEF Holds
  <2>8. \A c \in Cards : \A id \in Up(c)' \ Up(c) : \E g \in Calls : Holds(call[g], c, id)
    BY <2>7
  <2> HIDE DEF Holds
  <2> QED BY <1>1, <2>6, <2>8, MachineStep
<1> QED BY <1>2, <1>3

LEMMA RebootIInv == ASSUME IInv, Reboot PROVE IInv'
<1>1. /\ boot' = boot + 1 /\ boot' \in 0 .. MaxBoots /\ ticks' = 0 /\ 0 \in 0 .. MaxTicks
      /\ boot \in Nat /\ ticks \in Nat
      /\ proc' = [p \in Pids |-> Nobody] /\ call' = [h \in Calls |-> Idle("nothing")]
      /\ slip' = {} /\ file' = file
  BY HelperAssumption DEF Reboot, IInv, Shape
<1>2. /\ Idle("nothing") \in CallRecords /\ Idle("nothing").at = "idle"
      /\ \A c \in Cards : Idle("nothing").ids[c] = Nobody /\ Idle("nothing").child[c] = Nobody
      /\ Phase(Idle("nothing"), file', Gone')
  BY IdleIsRecord
<1>3. \A id \in Identity : ~Runs(id)'
  BY <1>1 DEF Identity, Runs
<1>4. \A c \in Cards : Up(c)' = {}
  BY <1>3 DEF Up
<1>5. Shape' /\ Clock'
  BY <1>1, <1>2 DEF IInv, Shape, Clock
<1>6. Records'
  <2>1. ASSUME NEW c \in Cards, file[c] # Nobody PROVE file[c] \in Sure(c)'
    <3>1. PICK id \in Identity : id = file[c] /\ Past(id)
      BY <2>1 DEF IInv, Records, Sure, Own
    <3>2. Past(id)'
      BY <1>1, <3>1 DEF Past, Identity
    <3>3. id \in Sure(c)'
      BY <1>3, <3>2 DEF Sure, Own
    <3> QED BY <3>1, <3>3
  <2> QED BY <1>1, <1>2, <2>1 DEF Records
<1>7. Locked'
  BY <1>1, <1>2 DEF Locked, InLock
<1>8. Phases'
  BY <1>1, <1>2 DEF Phases
<1>9. Accounted'
  BY <1>4 DEF Accounted
<1> QED BY <1>5, <1>6, <1>7, <1>8, <1>9 DEF IInv

-----------------------------------------------------------------------------
(* The inductive invariant *)

LEMMA InitIInv == Init => IInv
<1> SUFFICES ASSUME Init PROVE IInv
  OBVIOUS
<1>1. /\ ticks = 0 /\ boot = 0 /\ 0 \in 0 .. MaxTicks /\ 0 \in 0 .. MaxBoots
      /\ proc = [p \in Pids |-> Nobody] /\ call = [h \in Calls |-> Idle("nothing")]
      /\ file = [c \in Cards |-> Nobody] /\ slip = {}
  BY HelperAssumption DEF Init
<1>2. /\ Idle("nothing") \in CallRecords /\ Idle("nothing").at = "idle"
      /\ \A c \in Cards : Idle("nothing").ids[c] = Nobody /\ Idle("nothing").child[c] = Nobody
      /\ Phase(Idle("nothing"), file, Gone)
  BY IdleIsRecord
<1>3. Shape /\ Clock
  BY <1>1, <1>2 DEF Shape, Clock, Rows
<1>4. Records /\ Locked /\ Phases
  BY <1>1, <1>2 DEF Records, Locked, InLock, Phases
<1>5. \A c \in Cards : Up(c) = {}
  BY <1>1 DEF Up, Identity, Runs
<1>6. Accounted
  BY <1>5 DEF Accounted
<1> QED BY <1>3, <1>4, <1>6 DEF IInv

LEMMA StutterIInv == ASSUME IInv, UNCHANGED vars PROVE IInv'
<1>1. UNCHANGED <<proc, ticks, boot, file, call, slip>>
  BY DEF vars
<1>2. Moves
  BY <1>1, StillMoves
<1>3. \A c \in Cards : Up(c)' = Up(c)
  BY <1>1, SameProcesses
<1> QED BY <1>1, <1>2, <1>3, MachineStep

LEMMA NextIInv == ASSUME IInv, [Next]_vars PROVE IInv'
<1>1. CASE Reboot
  BY <1>1, RebootIInv
<1>2. ASSUME NEW p \in Pids, Arrives(p) \/ Ends(p) \/ Warm(p) PROVE IInv'
  <2>1. CASE Arrives(p)
    BY <2>1, ArrivesIInv
  <2>2. CASE Ends(p)
    BY <2>2, EndsProcessIInv DEF Ends
  <2>3. CASE Warm(p)
    BY <2>3, WarmIInv
  <2> QED BY <1>2, <2>1, <2>2, <2>3
<1>3. ASSUME NEW h \in Calls,
             \/ \E do \in {"start", "stop", "attest"}, want \in SUBSET Cards \ {{}} : Ask(h, do, want)
             \/ Begin(h) \/ Refuse(h) \/ Killed(h)
      PROVE  IInv'
  BY <1>3, AskIInv, BeginIInv, EndsIInv, KilledIInv
<1>4. ASSUME NEW h \in Calls,
             \/ Spawn(h) \/ Record(h)
             \/ Open(h) \/ Check(h) \/ Signal(h) \/ CannotStop(h) \/ Strike(h) \/ Stopped(h)
             \/ Attest(h)
      PROVE  IInv'
  BY <1>4, SpawnIInv, RecordIInv, OpenIInv, CheckIInv, SignalIInv, EndsIInv, StrikeIInv
<1>5. ASSUME NEW h \in Calls, NEW c \in Cards,
             Look(h, c) \/ Fork(h, c) \/ Capture(h, c) \/ GiveUp(h, c) \/ StopNext(h, c)
      PROVE  IInv'
  BY <1>5, LookIInv, ForkIInv, CaptureIInv, GiveUpIInv, StopNextIInv
<1>6. CASE UNCHANGED vars
  BY <1>6, StutterIInv
<1> QED BY <1>1, <1>2, <1>3, <1>4, <1>5, <1>6 DEF Next

\* The inductive invariant holds in every state of the helper.
THEOREM Invariance == Spec => []IInv
<1>1. Init => IInv
  BY InitIInv
<1>2. IInv /\ [Next]_vars => IInv'
  BY NextIInv
<1> QED BY <1>1, <1>2, PTL DEF Spec

-----------------------------------------------------------------------------
(* What follows *)

\* Helper!RunningWorkersAreOnRecord: while no call has the lock of the state
\* file, every worker that said READY is on record as its card's worker,
\* unless it slipped.
THEOREM RunningWorkersAreOnRecordHolds == Spec => []RunningWorkersAreOnRecord
<1>1. ASSUME IInv PROVE RunningWorkersAreOnRecord
  <2> SUFFICES ASSUME \A h \in Calls : ~InLock(h), NEW p \in Pids, IsWorker(p),
                      proc[p].state = "running", IdentityOf(p) \notin slip
               PROVE  file[proc[p].card] = IdentityOf(p)
    BY DEF RunningWorkersAreOnRecord
  <2>1. proc[p] # Nobody /\ proc[p] \in Process /\ IdentityOf(p) \in Identity
        /\ IdentityOf(p).pid = p /\ Runs(IdentityOf(p))
    BY <1>1, ProcessFields DEF IInv, IsWorker
  <2>2. PICK c \in Cards : c = proc[p].card
    BY <2>1 DEF Process
  <2>3. IdentityOf(p) \in Up(c) \ slip
    BY <2>1, <2>2 DEF Up
  <2>4. \A h \in Calls : call[h].at # "spawn"
    BY DEF InLock
  <2>5. \A h \in Calls : ~Holds(call[h], c, IdentityOf(p))
    BY <1>1, <2>3, <2>4, OthersHoldNone
  <2> QED BY <1>1, <2>2, <2>3, <2>5 DEF IInv, Accounted
<1> QED BY <1>1, Invariance, PTL

\* The steps that call h takes once it has asked.
StepOf(h) ==
  \/ Begin(h) \/ Refuse(h) \/ Killed(h) \/ Spawn(h) \/ Record(h)
  \/ Open(h) \/ Check(h) \/ Signal(h) \/ CannotStop(h) \/ Strike(h) \/ Stopped(h) \/ Attest(h)
  \/ \E c \in Cards : Look(h, c) \/ Fork(h, c) \/ Capture(h, c) \/ GiveUp(h, c) \/ StopNext(h, c)

LEMMA OthersStay ==
  ASSUME NEW h \in Calls, NEW g \in Calls, NEW r, g # h,
         call \in [Calls -> CallRecords], call' = [call EXCEPT ![g] = r]
  PROVE  call'[h] = call[h]
OBVIOUS

\* A call that is past the lock goes on by a step of its own, or with the
\* machine.
LEMMA GoesOnItself ==
  ASSUME IInv, [Next]_vars, NEW h \in Calls, InLock(h), call'[h] # call[h], ~Reboot
  PROVE  StepOf(h)
<1>1. call \in [Calls -> CallRecords]
  BY DEF IInv, Shape
<1>2. ASSUME NEW p \in Pids, Arrives(p) \/ Ends(p) \/ Warm(p) PROVE call' = call
  BY <1>2 DEF Arrives, Ends, Warm
<1>3. ASSUME NEW g \in Calls, NEW do, NEW want, Ask(g, do, want) PROVE g # h /\ call'[h] = call[h]
  <2>1. g # h
    BY <1>3 DEF Ask, InLock
  <2> QED BY <1>1, <1>3, <2>1, OthersStay DEF Ask
<1>4. ASSUME NEW g \in Calls, StepOf(g) PROVE \E r : call' = [call EXCEPT ![g] = r]
  <2>1. CASE \E ids, next : Write(g, ids, next)
    BY <2>1 DEF Write
  <2>2. CASE Begin(g) \/ Refuse(g) \/ Killed(g) \/ Spawn(g)
    BY <2>2 DEF Begin, Reading, Refuse, Killed, Spawn
  <2>3. CASE Record(g) \/ Strike(g)
    BY <2>1, <2>3 DEF Record, Strike
  <2>4. CASE Open(g) \/ Check(g) \/ Signal(g)
    BY <2>4 DEF Open, Check, Signal
  <2>5. CASE CannotStop(g) \/ Stopped(g) \/ Attest(g)
    BY <2>5 DEF CannotStop, Stopped, Attest
  <2>6. ASSUME NEW c \in Cards, Look(g, c) PROVE \E r : call' = [call EXCEPT ![g] = r]
    BY <2>1, <2>6 DEF Look
  <2>7. ASSUME NEW c \in Cards, Fork(g, c) \/ Capture(g, c)
        PROVE  \E r : call' = [call EXCEPT ![g] = r]
    BY <2>7 DEF Fork, Capture
  <2>8. ASSUME NEW c \in Cards, GiveUp(g, c) \/ StopNext(g, c)
        PROVE  \E r : call' = [call EXCEPT ![g] = r]
    BY <2>8 DEF GiveUp, StopNext
  <2> QED BY <1>4, <2>2, <2>3, <2>4, <2>5, <2>6, <2>7, <2>8 DEF StepOf
<1>5. ASSUME NEW g \in Calls, StepOf(g) PROVE g = h
  BY <1>1, <1>4, <1>5, OthersStay
<1>6. CASE Next
  <2>1. \/ \E p \in Pids : Arrives(p) \/ Ends(p) \/ Warm(p)
        \/ \E g \in Calls : \E do, want : Ask(g, do, want)
        \/ \E g \in Calls : StepOf(g)
    BY <1>6 DEF Next, StepOf
  <2> QED BY <1>2, <1>3, <1>5, <2>1
<1>7. ~UNCHANGED vars
  BY DEF vars
<1> QED BY <1>6, <1>7

\* Whatever a stop answers "ok" about has no worker on record left, and the
\* record had every running worker.
LEMMA StoppedIsTrue ==
  ASSUME IInv, NEW h \in Calls, call[h].at = "stop", call[h].todo = {},
         NEW p \in Pids, IsWorker(p), proc[p].card \in call[h].want
  PROVE  proc[p].state = "warming" \/ IdentityOf(p) \in slip
<1> SUFFICES ASSUME proc[p].state # "warming", IdentityOf(p) \notin slip PROVE FALSE
  OBVIOUS
<1>1. proc[p] # Nobody /\ proc[p] \in Process /\ IdentityOf(p) \in Identity
      /\ IdentityOf(p).pid = p /\ Runs(IdentityOf(p))
  BY ProcessFields DEF IInv, IsWorker
<1>2. PICK c \in Cards : c = proc[p].card
  BY <1>1 DEF Process
<1>3. proc[p].state = "running"
  BY <1>1 DEF Process
<1>4. IdentityOf(p) \in Up(c) \ slip
  BY <1>1, <1>2, <1>3 DEF Up
<1>5. file[c] = Nobody
  BY <1>2, CallIsRecord DEF Phase
<1>6. PICK g \in Calls : Holds(call[g], c, IdentityOf(p))
  BY <1>1, <1>4, <1>5, NobodyIsNone DEF IInv, Accounted
<1>7. call[g].at = "spawn"
  BY <1>4, <1>6, OthersHoldNone
<1>8. g = h
  BY <1>7 DEF InLock, IInv, Locked
<1> QED BY <1>7, <1>8

\* Helper!StoppedMeansStopped: when a stop answers that it stopped the workers
\* of its cards, no worker that was ever on record runs on them.
THEOREM StoppedMeansStoppedHolds == Spec => StoppedMeansStopped
<1>1. ASSUME IInv, [Next]_vars, NEW h \in Calls, call[h].at = "stop", call'[h] = Idle("ok")
      PROVE  call[h].todo = {}
  <2>1. call'[h] # call[h] /\ InLock(h) /\ call'[h].at = "idle" /\ call'[h].told = "ok"
    BY <1>1 DEF Idle, InLock
  <2>2. call[h] \in CallRecords /\ call \in [Calls -> CallRecords]
    BY <1>1 DEF IInv, Shape
  <2>3. ~Reboot /\ ~Killed(h)
    BY <2>1, <2>2 DEF Reboot, Killed, Idle
  <2>4. StepOf(h)
    BY <1>1, <2>1, <2>3, GoesOnItself
  <2>5. ASSUME NEW c \in Cards, StopNext(h, c) PROVE FALSE
    BY <2>1, <2>2, <2>5 DEF StopNext, CallRecords
  <2>6. Stopped(h)
    BY <1>1, <2>3, <2>4, <2>5 DEF StepOf, Begin, Refuse, Spawn, Record, Started, Open, Check, Signal,
       CannotStop, Strike, Attest, Look, Fork, Capture, GiveUp
  <2> QED BY <2>6 DEF Stopped
<1>2. ASSUME IInv, [Next]_vars
      PROVE  \A h \in Calls : call[h].at = "stop" /\ call'[h] = Idle("ok") =>
               \A p \in Pids : IsWorker(p) /\ proc[p].card \in call[h].want =>
                 proc[p].state = "warming" \/ IdentityOf(p) \in slip
  BY <1>1, <1>2, StoppedIsTrue
<1> QED BY <1>2, Invariance, PTL DEF Spec, StoppedMeansStopped

\* Helper!OnlyTheWorkerIsSignalled: the process a stop ends is the worker that
\* is on record for the card it is about.
THEOREM OnlyTheWorkerIsSignalledHolds == Spec => OnlyTheWorkerIsSignalled
<1>1. ASSUME IInv, [Next]_vars, NEW h \in Calls, NEW p \in Pids,
             call[h].at = "signal", call'[h].at = "strike", proc[p] # Nobody, proc'[p] = Nobody
      PROVE  IsWorker(p) /\ proc[p].card = call[h].card /\ file[call[h].card] = IdentityOf(p)
  <2>1. call'[h] # call[h] /\ InLock(h) /\ call \in [Calls -> CallRecords]
    BY <1>1 DEF InLock, IInv, Shape
  <2>2. ~Reboot /\ ~Killed(h) /\ ~CannotStop(h)
    BY <1>1, <2>1 DEF Reboot, Killed, CannotStop, Idle
  <2>3. StepOf(h)
    BY <1>1, <2>1, <2>2, GoesOnItself
  <2>4. Signal(h)
    BY <1>1, <2>2, <2>3 DEF StepOf, Begin, Refuse, Spawn, Record, Started, Open, Check, Stopped,
       Strike, Attest, Look, Fork, Capture, GiveUp, StopNext
  <2>5. PICK id \in Sure(call[h].card) :
          call[h].card \in Cards /\ call[h].pin = id /\ file[call[h].card] = id
    <3>1. call[h].at \in {"open", "check", "signal", "strike"}
      BY <1>1
    <3> QED BY <1>1, <3>1, InHand
  <2>6. id \in Identity /\ (Runs(id) => IsWorker(id.pid) /\ proc[id.pid].card = call[h].card)
    BY <2>5 DEF Sure, Own
  <2>7. Runs(id) /\ p = id.pid
    BY <1>1, <2>4, <2>5, <2>6 DEF Signal, IInv, Shape, Identity
  <2>8. IdentityOf(p) = id
    BY <2>7 DEF Runs
  <2> QED BY <2>5, <2>6, <2>7, <2>8
<1>2. ASSUME IInv, [Next]_vars
      PROVE  \A h \in Calls, p \in Pids :
               call[h].at = "signal" /\ call'[h].at = "strike" /\ proc[p] # Nobody /\ proc'[p] = Nobody =>
                 IsWorker(p) /\ proc[p].card = call[h].card /\ file[call[h].card] = IdentityOf(p)
  BY <1>1, <1>2
<1> QED BY <1>2, Invariance, PTL DEF Spec, OnlyTheWorkerIsSignalled

-----------------------------------------------------------------------------
(* Types *)

\* A call looks at cards it was asked about, and has one in hand while it
\* stops its worker.
Stopping == {"open", "check", "signal", "strike"}
Tidy(r) ==
  /\ r.todo \subseteq r.want
  /\ r.card \in IF r.at \in Stopping THEN r.todo ELSE {Nobody}
Neat == slip \subseteq Identity /\ \A h \in Calls : Tidy(call[h])

LEMMA IdleIsTidy == \A told : Tidy(Idle(told))
BY DEF Tidy, Idle, Stopping

LEMMA SlipsAreIdentities ==
  ASSUME IInv, NEW h \in Calls, NEW recorded
  PROVE  Unrecorded(h, recorded) \subseteq Identity
<1>1. call[h].ids \in Rows /\ call[h].child \in Rows
  BY CallIsRecord
<1> QED BY <1>1 DEF Unrecorded, Matches, Rows

LEMMA WriteIsNeat ==
  ASSUME IInv, Neat, NEW h \in Calls, NEW ids, NEW next, Write(h, ids, next), Tidy(next)
  PROVE  Neat'
<1>1. call \in [Calls -> CallRecords]
  BY DEF IInv, Shape
<1>2. slip' \subseteq Identity
  BY SlipsAreIdentities DEF Write, Neat
<1>3. PICK r : call' = [call EXCEPT ![h] = r] /\ Tidy(r)
  BY IdleIsTidy DEF Write
<1> QED BY <1>1, <1>2, <1>3 DEF Neat

LEMMA MoveIsNeat ==
  ASSUME IInv, Neat, NEW h \in Calls, NEW r, call' = [call EXCEPT ![h] = r], Tidy(r),
         slip' = slip
  PROVE  Neat'
BY DEF IInv, Shape, Neat

LEMMA StepIsNeat == ASSUME IInv, Neat, NEW h \in Calls, StepOf(h) PROVE Neat'
<1>1. call[h] \in CallRecords /\ Tidy(call[h]) /\ call \in [Calls -> CallRecords]
  BY DEF IInv, Shape, Neat
<1>2. CASE Refuse(h) \/ CannotStop(h) \/ Stopped(h) \/ Attest(h)
  <2>1. PICK told : call' = [call EXCEPT ![h] = Idle(told)] /\ slip' = slip
    BY <1>2 DEF Refuse, CannotStop, Stopped, Attest
  <2> QED BY <2>1, IdleIsTidy, MoveIsNeat
<1>3. CASE Begin(h)
  <2> DEFINE r == [call[h] EXCEPT !.at = call[h].do, !.todo = call[h].want, !.ids = file]
  <2>1. call' = [call EXCEPT ![h] = r] /\ slip' = slip
    BY <1>3 DEF Begin, Reading
  <2>2. call[h].do \in {"start", "stop", "attest"} /\ call[h].at = "asked"
    BY <1>3, CallIsRecord DEF Begin, Phase
  <2>3. Tidy(r)
    BY <1>1, <2>2 DEF Tidy, Stopping, CallRecords
  <2> HIDE DEF r
  <2> QED BY <2>1, <2>3, MoveIsNeat
<1>4. CASE Killed(h)
  <2>1. slip' \subseteq Identity /\ call' = [call EXCEPT ![h] = Idle("nothing")]
    BY <1>4, SlipsAreIdentities DEF Killed, Neat
  <2> QED BY <1>1, <2>1, IdleIsTidy DEF Neat
<1>5. CASE Spawn(h)
  <2> DEFINE bare == {c \in call[h].want : call[h].ids[c] = Nobody}
             r == [call[h] EXCEPT !.at = "spawn", !.todo = bare]
  <2>1. CASE call' = [call EXCEPT ![h] = Idle("ok")]
    BY <1>5, <2>1, IdleIsTidy, MoveIsNeat DEF Spawn
  <2>2. CASE call' = [call EXCEPT ![h] = r]
    <3>1. call[h].at = "start" /\ slip' = slip
      BY <1>5 DEF Spawn
    <3>2. Tidy(r)
      BY <1>1, <3>1 DEF Tidy, Stopping, CallRecords
    <3> HIDE DEF r
    <3> QED BY <2>2, <3>1, <3>2, MoveIsNeat
  <2> QED BY <1>5, <2>1, <2>2 DEF Spawn
<1>6. CASE Record(h)
  BY <1>6, IdleIsTidy, WriteIsNeat DEF Record, Answer
<1>7. CASE Open(h) \/ Check(h) \/ Signal(h)
  <2>1. PICK r \in CallRecords :
          /\ call' = [call EXCEPT ![h] = r] /\ slip' = slip
          /\ r.at \in Stopping /\ r.todo = call[h].todo /\ r.want = call[h].want
          /\ r.card = call[h].card /\ call[h].at \in Stopping
    <3>1. CASE Open(h)
      <4> DEFINE pid == call[h].ids[call[h].card].pid
                 r == IF proc[pid] = Nobody THEN [call[h] EXCEPT !.at = "strike"]
                      ELSE [call[h] EXCEPT !.at = "check", !.pin = IdentityOf(pid)]
      <4>1. call[h].ids[call[h].card] \in Identity
        <5>1. call[h].at \in {"open", "check", "signal", "strike"}
          BY <3>1 DEF Open
        <5> QED BY <5>1, InHand DEF Sure, Own
      <4>2. proc[pid] # Nobody => IdentityOf(pid) \in Identity
        BY <4>1, ProcessFields DEF IInv, Identity
      <4>3. r \in CallRecords /\ r.at \in Stopping /\ r.todo = call[h].todo
            /\ r.want = call[h].want /\ r.card = call[h].card
        BY <1>1, <4>2 DEF CallRecords, Places, Stopping
      <4>4. call' = [call EXCEPT ![h] = r] /\ slip' = slip /\ call[h].at \in Stopping
        BY <3>1 DEF Open, Stopping
      <4> HIDE DEF r
      <4> QED BY <4>3, <4>4
    <3>2. CASE Check(h)
      <4> DEFINE r == [call[h] EXCEPT !.at = IF Matches(call[h].ids[call[h].card])
                                             THEN "signal" ELSE "strike"]
      <4>1. r \in CallRecords /\ r.at \in Stopping /\ r.todo = call[h].todo
            /\ r.want = call[h].want /\ r.card = call[h].card
        BY <1>1 DEF CallRecords, Places, Stopping
      <4>2. call' = [call EXCEPT ![h] = r] /\ slip' = slip /\ call[h].at \in Stopping
        BY <3>2 DEF Check, Stopping
      <4> HIDE DEF r
      <4> QED BY <4>1, <4>2
    <3>3. CASE Signal(h)
      <4> DEFINE r == [call[h] EXCEPT !.at = "strike"]
      <4>1. r \in CallRecords /\ r.at \in Stopping /\ r.todo = call[h].todo
            /\ r.want = call[h].want /\ r.card = call[h].card
        BY <1>1 DEF CallRecords, Places, Stopping
      <4>2. call' = [call EXCEPT ![h] = r] /\ slip' = slip /\ call[h].at \in Stopping
        BY <3>3 DEF Signal, Stopping
      <4> HIDE DEF r
      <4> QED BY <4>1, <4>2
    <3> QED BY <1>7, <3>1, <3>2, <3>3
  <2>2. Tidy(r)
    BY <1>1, <2>1 DEF Tidy
  <2> QED BY <2>1, <2>2, MoveIsNeat
<1>8. CASE Strike(h)
  <2> DEFINE c == call[h].card
             rows == [call[h].ids EXCEPT ![c] = Nobody]
             r == [call[h] EXCEPT !.at = "stop", !.todo = @ \ {c}, !.ids = rows,
                                  !.card = Nobody, !.pin = Nobody]
  <2>1. Write(h, rows, r)
    BY <1>8 DEF Strike
  <2>2. Tidy(r)
    BY <1>1 DEF Tidy, Stopping, CallRecords
  <2> HIDE DEF r, rows
  <2> QED BY <2>1, <2>2, WriteIsNeat
<1>9. ASSUME NEW c \in Cards, Look(h, c) PROVE Neat'
  <2> DEFINE r == [call[h] EXCEPT !.todo = @ \ {c},
                     !.ids[c] = IF Matches(call[h].ids[c]) THEN call[h].ids[c] ELSE Nobody]
  <2>1. /\ call[h].at = "start"
        /\ \/ call' = [call EXCEPT ![h] = r] /\ slip' = slip
           \/ Write(h, r.ids, r)
    BY <1>9 DEF Look
  <2>2. Tidy(r)
    BY <1>1, <2>1 DEF Tidy, Stopping, CallRecords
  <2> HIDE DEF r
  <2> QED BY <2>1, <2>2, WriteIsNeat, MoveIsNeat
<1>10. ASSUME NEW c \in Cards, Fork(h, c) \/ Capture(h, c) \/ GiveUp(h, c) PROVE Neat'
  <2>1. call[h].at = "spawn" /\ slip' = slip
    BY <1>10 DEF Fork, Capture, GiveUp
  <2>2. ASSUME NEW r, call' = [call EXCEPT ![h] = r], r.at = "spawn", r.want = call[h].want,
               r.card = call[h].card, r.todo \subseteq call[h].todo
        PROVE  Neat'
    <3>1. Tidy(r)
      BY <1>1, <2>1, <2>2 DEF Tidy, Stopping
    <3> QED BY <2>1, <2>2, <3>1, MoveIsNeat
  <2>3. CASE call' = [call EXCEPT ![h] = [call[h] EXCEPT !.todo = @ \ {c}, !.failed = TRUE]]
    <3> DEFINE r == [call[h] EXCEPT !.todo = @ \ {c}, !.failed = TRUE]
    <3>1. /\ r.at = "spawn" /\ r.want = call[h].want /\ r.card = call[h].card
          /\ r.todo \subseteq call[h].todo
      BY <1>1, <2>1 DEF CallRecords
    <3>2. call' = [call EXCEPT ![h] = r]
      BY <2>3
    <3> HIDE DEF r
    <3> QED BY <2>2, <3>1, <3>2
  <2>4. ASSUME NEW id, call' = [call EXCEPT ![h] = [call[h] EXCEPT !.todo = @ \ {c}, !.child[c] = id]]
        PROVE  Neat'
    <3> DEFINE r == [call[h] EXCEPT !.todo = @ \ {c}, !.child[c] = id]
    <3>1. /\ r.at = "spawn" /\ r.want = call[h].want /\ r.card = call[h].card
          /\ r.todo \subseteq call[h].todo
      BY <1>1, <2>1 DEF CallRecords
    <3>2. call' = [call EXCEPT ![h] = r]
      BY <2>4
    <3> HIDE DEF r
    <3> QED BY <2>2, <3>1, <3>2
  <2>5. CASE Capture(h, c)
    <3> DEFINE r == [call[h] EXCEPT !.child[c] = Nobody, !.ids[c] = call[h].child[c]]
    <3>1. /\ r.at = "spawn" /\ r.want = call[h].want /\ r.card = call[h].card
          /\ r.todo \subseteq call[h].todo
      BY <1>1, <2>1 DEF CallRecords
    <3>2. call' = [call EXCEPT ![h] = r]
      BY <2>5 DEF Capture
    <3> HIDE DEF r
    <3> QED BY <2>2, <3>1, <3>2
  <2>6. CASE GiveUp(h, c)
    <3> DEFINE r == [call[h] EXCEPT !.child[c] = Nobody, !.failed = TRUE]
    <3>1. /\ r.at = "spawn" /\ r.want = call[h].want /\ r.card = call[h].card
          /\ r.todo \subseteq call[h].todo
      BY <1>1, <2>1 DEF CallRecords
    <3>2. call' = [call EXCEPT ![h] = r]
      BY <2>6 DEF GiveUp
    <3> HIDE DEF r
    <3> QED BY <2>2, <3>1, <3>2
  <2>7. CASE Fork(h, c)
    BY <2>3, <2>4, <2>7 DEF Fork
  <2> QED BY <1>10, <2>5, <2>6, <2>7
<1>11. ASSUME NEW c \in Cards, StopNext(h, c) PROVE Neat'
  <2> DEFINE id == call[h].ids[c]
             r == IF id = Nobody THEN [call[h] EXCEPT !.todo = @ \ {c}]
                  ELSE [call[h] EXCEPT !.card = c, !.at = IF Matches(id) THEN "open" ELSE "strike"]
  <2>1. call[h].at = "stop" /\ c \in call[h].todo /\ slip' = slip
    BY <1>11 DEF StopNext
  <2>2. call' = [call EXCEPT ![h] = r]
    BY <1>11 DEF StopNext
  <2>3. Tidy(r)
    BY <1>1, <2>1 DEF Tidy, Stopping, CallRecords
  <2> HIDE DEF r
  <2> QED BY <2>1, <2>2, <2>3, MoveIsNeat
<1> QED BY <1>2, <1>3, <1>4, <1>5, <1>6, <1>7, <1>8, <1>9, <1>10, <1>11 DEF StepOf

\* Helper!TypeOK: what the machine runs, the record and the calls' copies of it
\* stay what they should be, and a stop has a card in hand it was asked about.
THEOREM TypesHold == Spec => []TypeOK
<1>1. Init => Neat
  BY IdleIsTidy DEF Init, Neat
<1>2. ASSUME IInv, Neat, [Next]_vars PROVE Neat'
  <2>1. ASSUME NEW h \in Calls, NEW do, NEW want, Ask(h, do, want) PROVE Neat'
    <3> DEFINE r == [Idle("nothing") EXCEPT !.at = "asked", !.do = do, !.want = want]
    <3>1. call' = [call EXCEPT ![h] = r] /\ slip' = slip
      BY <2>1 DEF Ask
    <3>2. Tidy(r)
      BY DEF Tidy, Idle, Stopping
    <3> HIDE DEF r
    <3> QED BY <1>2, <3>1, <3>2, MoveIsNeat
  <2>2. ASSUME UNCHANGED <<call, slip>> PROVE Neat'
    BY <1>2, <2>2 DEF Neat
  <2>3. CASE Reboot
    BY <2>3, IdleIsTidy DEF Reboot, Neat
  <2>4. ASSUME NEW p \in Pids, Arrives(p) \/ Ends(p) \/ Warm(p) PROVE UNCHANGED <<call, slip>>
    BY <2>4 DEF Arrives, Ends, Warm
  <2>5. \/ UNCHANGED vars \/ Reboot
        \/ \E p \in Pids : Arrives(p) \/ Ends(p) \/ Warm(p)
        \/ \E h \in Calls : \E do, want : Ask(h, do, want)
        \/ \E h \in Calls : StepOf(h)
    BY <1>2 DEF Next, StepOf
  <2>6. UNCHANGED vars => UNCHANGED <<call, slip>>
    BY DEF vars
  <2> QED BY <1>2, <2>1, <2>2, <2>3, <2>4, <2>5, <2>6, StepIsNeat
<1>3. IInv /\ Neat => TypeOK
  <2> SUFFICES ASSUME IInv, Neat PROVE TypeOK
    OBVIOUS
  <2>1. ASSUME NEW h \in Calls
        PROVE  /\ call[h].at \in Places /\ call[h].ids \in Rows /\ call[h].child \in Rows
               /\ call[h].pin \in Identity \union {Nobody}
               /\ call[h].want \subseteq Cards /\ call[h].todo \subseteq call[h].want
               /\ call[h].card \in call[h].todo \union {Nobody}
    BY DEF IInv, Shape, CallRecords, Neat, Tidy
  <2> QED BY <2>1 DEF TypeOK, IInv, Shape, Neat, Places, Rows
<1> QED BY <1>1, <1>2, <1>3, Invariance, PTL DEF Spec
=============================================================================
