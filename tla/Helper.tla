------------------------------- MODULE Helper -------------------------------
(***************************************************************************)
(* The keepalive helper on one server: processes that each carry out one   *)
(* call (start workers, stop workers, attest them) under a file lock, the  *)
(* state file that records which process is the worker of which card, and  *)
(* the machine under them: process ids are used again, a reboot restarts   *)
(* them and the clock that dates processes, and a call may be killed       *)
(* between any two of its steps.                                           *)
(*                                                                         *)
(* A write of the state file takes effect whole or not at all (temporary   *)
(* file, fsync, rename), and may report a failure either way.              *)
(***************************************************************************)
EXTENDS FiniteSets, Naturals

CONSTANTS
  Cards,
  Calls,     \* processes of the helper, each one call at a time
  Pids,      \* bound: process ids, used again and again
  Nobody,    \* no process, no record
  MaxTicks,  \* bound: processes started per boot
  MaxBoots   \* bound: how often the machine boots

ASSUME HelperAssumption ==
  /\ {MaxTicks, MaxBoots} \subseteq Nat
  /\ Nobody \notin Cards

VARIABLES
  proc,  \* what runs under each process id
  ticks, \* the clock that dates processes, since boot
  boot,  \* identity of this boot
  file,  \* workers.v3.json: the recorded identity of each card's worker
  call,  \* the calls
  slip   \* workers that ran unrecorded when their call was killed or could not write

vars == <<proc, ticks, boot, file, call, slip>>

\* KeepaliveProcessIdentity.  Pid 0 is no process's.
Identity == [pid : Pids, boot : 0 .. MaxBoots, since : 0 .. MaxTicks]

\* Processes: a worker that has yet to get its card ready and say so, one
\* that runs on it, and what is none of the helper's.
Process == [state : {"warming", "running"}, card : Cards, boot : 0 .. MaxBoots, since : 0 .. MaxTicks]
Other == [state : {"other"}, boot : 0 .. MaxBoots, since : 0 .. MaxTicks]

ASSUME NobodyAssumption == Nobody \notin Identity \union Process \union Other

IsWorker(p) == proc[p] # Nobody /\ proc[p].state # "other"
IdentityOf(p) == [pid |-> p, boot |-> proc[p].boot, since |-> proc[p].since]
Runs(id) == proc[id.pid] # Nobody /\ IdentityOf(id.pid) = id

\* Same pid, boot and start time, and the command line of a worker.
Matches(id) == id # Nobody /\ IsWorker(id.pid) /\ IdentityOf(id.pid) = id

\* at: where the call is; do: what it was asked; want: for which cards; todo:
\* those it has yet to look at; ids: its copy of the record; child: the workers
\* it started and waits for; failed: a start failed; card: the one it is
\* stopping; pin: the process its pidfd refers to; told: its last answer.
Idle(told) == [at |-> "idle", do |-> "none", want |-> {}, todo |-> {}, card |-> Nobody, pin |-> Nobody,
               ids |-> [c \in Cards |-> Nobody], child |-> [c \in Cards |-> Nobody],
               failed |-> FALSE, told |-> told]

InLock(h) == call[h].at \notin {"idle", "asked"}
Pending(h) == {c \in Cards : call[h].child[c] # Nobody}

Init ==
  /\ proc = [p \in Pids |-> Nobody]
  /\ ticks = 0
  /\ boot = 0
  /\ file = [c \in Cards |-> Nobody]
  /\ call = [h \in Calls |-> Idle("nothing")]
  /\ slip = {}

-----------------------------------------------------------------------------
(* The machine *)

Fresh(p) == proc[p] = Nobody /\ ticks < MaxTicks

\* Any other process starts, perhaps under the id of a worker that ended.
Arrives(p) ==
  /\ Fresh(p)
  /\ ticks' = ticks + 1
  /\ proc' = [proc EXCEPT ![p] = [state |-> "other", boot |-> boot, since |-> ticks]]
  /\ UNCHANGED <<boot, file, call, slip>>

\* A process ends by itself or is killed by others.
Ends(p) ==
  /\ proc[p] # Nobody
  /\ proc' = [proc EXCEPT ![p] = Nobody]
  /\ UNCHANGED <<ticks, boot, file, call, slip>>

\* A worker has its memory and writes READY: into the pipe its call holds
\* open, or into a broken one, which ends it.
Warm(p) ==
  /\ proc[p] # Nobody /\ proc[p].state = "warming"
  /\ proc' = [proc EXCEPT ![p] =
       IF \E h \in Calls : call[h].child[proc[p].card] = IdentityOf(p)
       THEN [@ EXCEPT !.state = "running"] ELSE Nobody]
  /\ UNCHANGED <<ticks, boot, file, call, slip>>

\* The machine boots again: every process is gone, the state file is not.
Reboot ==
  /\ boot < MaxBoots
  /\ boot' = boot + 1
  /\ ticks' = 0
  /\ proc' = [p \in Pids |-> Nobody]
  /\ call' = [h \in Calls |-> Idle("nothing")]
  /\ slip' = {}
  /\ UNCHANGED file

-----------------------------------------------------------------------------
(* A call takes the lock, reads the record, and gives an answer *)

\* main: a process of the helper begins with what it is asked to do.
Ask(h, do, want) ==
  /\ call[h].at = "idle"
  /\ call' = [call EXCEPT ![h] = [Idle("nothing") EXCEPT !.at = "asked", !.do = do, !.want = want]]
  /\ UNCHANGED <<proc, ticks, boot, file, slip>>

Reading(h) ==
  [call EXCEPT ![h] = [@ EXCEPT !.at = call[h].do, !.todo = call[h].want, !.ids = file]]

\* A slip: no file lock.
BeginAtOnce(h) ==
  /\ call[h].at = "asked"
  /\ call' = Reading(h)
  /\ UNCHANGED <<proc, ticks, boot, file, slip>>

Begin(h) ==
  /\ call[h].at = "asked"
  /\ \A g \in Calls : ~InLock(g)
  /\ call' = Reading(h)
  /\ UNCHANGED <<proc, ticks, boot, file, slip>>

\* Unknown cards, a record of the old version, or one that cannot be read:
\* the call fails before it has done anything.
Refuse(h) ==
  /\ call[h].at = "asked"
  /\ call' = [call EXCEPT ![h] = Idle("error")]
  /\ UNCHANGED <<proc, ticks, boot, file, slip>>

\* The workers this call would have put on record that are running, but are not on record.
Unrecorded(h, recorded) ==
  {id \in {call[h].ids[c] : c \in Cards} \union {call[h].child[c] : c \in Cards} :
     Matches(id) /\ proc[id.pid].state = "running" /\ \A c \in Cards : recorded[c] # id}

\* The record becomes ids and the call goes on, or an error ends it.
Write(h, ids, next) ==
  \/ file' = ids /\ call' = [call EXCEPT ![h] = next] /\ UNCHANGED slip
  \/ /\ file' \in {file, ids}
     /\ call' = [call EXCEPT ![h] = Idle("error")]
     /\ slip' = slip \union Unrecorded(h, file')

\* The call is killed and lets go of the lock; its workers are sessions of their own.
Killed(h) ==
  /\ call[h].at # "idle"
  /\ call' = [call EXCEPT ![h] = Idle("nothing")]
  /\ slip' = slip \union Unrecorded(h, file)
  /\ UNCHANGED <<proc, ticks, boot, file>>

-----------------------------------------------------------------------------
(* Starting workers *)

\* One card: its worker runs, or it has none, or the record of one that is
\* gone is struck first.
Look(h, c) ==
  LET id == call[h].ids[c]
      rest == [call[h] EXCEPT !.todo = @ \ {c}, !.ids[c] = IF Matches(id) THEN id ELSE Nobody]
  IN /\ call[h].at = "start" /\ c \in call[h].todo
     /\ IF id = Nobody \/ Matches(id)
        THEN call' = [call EXCEPT ![h] = rest] /\ UNCHANGED <<file, slip>>
        ELSE Write(h, rest.ids, rest)
     /\ UNCHANGED <<proc, ticks, boot>>

\* All are looked at: those without a worker get one at the same time.
Spawn(h) ==
  /\ call[h].at = "start" /\ call[h].todo = {}
  /\ LET bare == {c \in call[h].want : call[h].ids[c] = Nobody} IN
     \/ /\ bare = {}
        /\ call' = [call EXCEPT ![h] = Idle("ok")]
        /\ UNCHANGED <<proc, ticks>>
     \/ /\ bare # {}
        /\ call' = [call EXCEPT ![h] = [@ EXCEPT !.at = "spawn", !.todo = bare]]
        /\ UNCHANGED <<proc, ticks>>
  /\ UNCHANGED <<boot, file, slip>>

\* A process for one card, or none can be had.
Fork(h, c) ==
  /\ call[h].at = "spawn" /\ c \in call[h].todo
  /\ \/ \E p \in Pids :
          /\ Fresh(p)
          /\ ticks' = ticks + 1
          /\ proc' = [proc EXCEPT ![p] = [state |-> "warming", card |-> c, boot |-> boot, since |-> ticks]]
          /\ call' = [call EXCEPT ![h] = [call[h] EXCEPT !.todo = @ \ {c},
                       !.child[c] = [pid |-> p, boot |-> boot, since |-> ticks]]]
     \/ /\ call' = [call EXCEPT ![h] = [call[h] EXCEPT !.todo = @ \ {c}, !.failed = TRUE]]
        /\ UNCHANGED <<proc, ticks>>
  /\ UNCHANGED <<boot, file, slip>>

\* READY was read and the process is the worker it should be.
Capture(h, c) ==
  LET id == call[h].child[c] IN
  /\ call[h].at = "spawn" /\ Matches(id) /\ proc[id.pid].state = "running"
  /\ call' = [call EXCEPT ![h] = [@ EXCEPT !.child[c] = Nobody, !.ids[c] = id]]
  /\ UNCHANGED <<proc, ticks, boot, file, slip>>

\* READY did not come in time, or the process could not be verified: the call
\* ends its child, if that still runs.
GiveUp(h, c) ==
  LET id == call[h].child[c] IN
  /\ call[h].at = "spawn" /\ id # Nobody
  /\ proc' = IF Runs(id) THEN [proc EXCEPT ![id.pid] = Nobody] ELSE proc
  /\ call' = [call EXCEPT ![h] = [@ EXCEPT !.child[c] = Nobody, !.failed = TRUE]]
  /\ UNCHANGED <<ticks, boot, file, slip>>

Started(h) == call[h].at = "spawn" /\ call[h].todo = {} /\ Pending(h) = {}
Answer(h) == Idle(IF call[h].failed THEN "error" ELSE "ok")

\* A slip: a failed start is reported before the others are put on record.
RecordIfAllStarted(h) ==
  /\ Started(h)
  /\ IF call[h].failed
     THEN call' = [call EXCEPT ![h] = Answer(h)] /\ UNCHANGED <<file, slip>>
     ELSE Write(h, call[h].ids, Answer(h))
  /\ UNCHANGED <<proc, ticks, boot>>

\* What started is put on record in one write, also when another start failed.
Record(h) ==
  /\ Started(h)
  /\ Write(h, call[h].ids, Answer(h))
  /\ UNCHANGED <<proc, ticks, boot>>

-----------------------------------------------------------------------------
(* Stopping workers, one after the other *)

StopNext(h, c) ==
  /\ call[h].at = "stop" /\ c \in call[h].todo
  /\ LET id == call[h].ids[c] IN
     call' = [call EXCEPT ![h] =
       IF id = Nobody THEN [call[h] EXCEPT !.todo = @ \ {c}]
       ELSE [call[h] EXCEPT !.card = c, !.at = IF Matches(id) THEN "open" ELSE "strike"]]
  /\ UNCHANGED <<proc, ticks, boot, file, slip>>

\* The pidfd refers to whatever has the process id now.
Open(h) ==
  LET pid == call[h].ids[call[h].card].pid IN
  /\ call[h].at = "open"
  /\ call' = [call EXCEPT ![h] =
       IF proc[pid] = Nobody THEN [@ EXCEPT !.at = "strike"]
       ELSE [@ EXCEPT !.at = "check", !.pin = IdentityOf(pid)]]
  /\ UNCHANGED <<proc, ticks, boot, file, slip>>

\* A slip: what was opened is not looked at again.
CheckNothing(h) ==
  /\ call[h].at = "check"
  /\ call' = [call EXCEPT ![h].at = "signal"]
  /\ UNCHANGED <<proc, ticks, boot, file, slip>>

Check(h) ==
  /\ call[h].at = "check"
  /\ call' = [call EXCEPT ![h].at = IF Matches(call[h].ids[call[h].card]) THEN "signal" ELSE "strike"]
  /\ UNCHANGED <<proc, ticks, boot, file, slip>>

\* The pinned process is signalled and waited for.
Signal(h) ==
  LET pin == call[h].pin IN
  /\ call[h].at = "signal"
  /\ proc' = IF Runs(pin) THEN [proc EXCEPT ![pin.pid] = Nobody] ELSE proc
  /\ call' = [call EXCEPT ![h].at = "strike"]
  /\ UNCHANGED <<ticks, boot, file, slip>>

\* No pidfds here, or the worker did not end in time: the record stays.
CannotStop(h) ==
  /\ call[h].at \in {"open", "signal"}
  /\ call' = [call EXCEPT ![h] = Idle("error")]
  /\ UNCHANGED <<proc, ticks, boot, file, slip>>

Strike(h) ==
  LET c == call[h].card
      ids == [call[h].ids EXCEPT ![c] = Nobody]
  IN /\ call[h].at = "strike"
     /\ Write(h, ids, [call[h] EXCEPT !.at = "stop", !.todo = @ \ {c}, !.ids = ids,
                                      !.card = Nobody, !.pin = Nobody])
     /\ UNCHANGED <<proc, ticks, boot>>

Stopped(h) ==
  /\ call[h].at = "stop" /\ call[h].todo = {}
  /\ call' = [call EXCEPT ![h] = Idle("ok")]
  /\ UNCHANGED <<proc, ticks, boot, file, slip>>

-----------------------------------------------------------------------------
(* Attesting workers *)

Workers(c) == {p \in Pids : IsWorker(p) /\ proc[p].card = c}

\* Every card has a recorded worker that runs, and the driver lists one
\* process on it; otherwise, or when the driver lists somebody else's, an error.
Attest(h) ==
  /\ call[h].at = "attest"
  /\ \/ /\ \A c \in call[h].want : Matches(call[h].ids[c]) /\ Cardinality(Workers(c)) <= 1
        /\ call' = [call EXCEPT ![h] = Idle("ok")]
     \/ call' = [call EXCEPT ![h] = Idle("error")]
  /\ UNCHANGED <<proc, ticks, boot, file, slip>>

-----------------------------------------------------------------------------
Next ==
  \/ Reboot
  \/ \E p \in Pids : Arrives(p) \/ Ends(p) \/ Warm(p)
  \/ \E h \in Calls :
       \/ \E do \in {"start", "stop", "attest"}, want \in SUBSET Cards \ {{}} : Ask(h, do, want)
       \/ Begin(h) \/ Refuse(h) \/ Killed(h)
       \/ Spawn(h) \/ Record(h)
       \/ Open(h) \/ Check(h) \/ Signal(h) \/ CannotStop(h) \/ Strike(h) \/ Stopped(h)
       \/ Attest(h)
       \/ \E c \in Cards : Look(h, c) \/ Fork(h, c) \/ Capture(h, c) \/ GiveUp(h, c) \/ StopNext(h, c)

Spec == Init /\ [][Next]_vars

-----------------------------------------------------------------------------
(* What should hold *)

\* Types of the machine, the record and the calls.
TypeOK ==
  /\ proc \in [Pids -> Process \union Other \union {Nobody}]
  /\ ticks \in 0 .. MaxTicks /\ boot \in 0 .. MaxBoots
  /\ file \in [Cards -> Identity \union {Nobody}]
  /\ slip \subseteq Identity
  /\ \A h \in Calls :
       /\ call[h].at \in {"idle", "asked", "start", "spawn", "stop", "open", "check", "signal", "strike", "attest"}
       /\ call[h].ids \in [Cards -> Identity \union {Nobody}]
       /\ call[h].child \in [Cards -> Identity \union {Nobody}]
       /\ call[h].pin \in Identity \union {Nobody}
       /\ call[h].want \subseteq Cards /\ call[h].todo \subseteq call[h].want
       /\ call[h].card \in call[h].todo \union {Nobody}

\* While nobody has the lock, a worker that runs is on record as the worker of
\* its card, so that a stop finds it: starts that fail in part, lost pipes,
\* dead workers' records that are struck and reboots do not change that.  The
\* exceptions are workers whose call was killed, or could not write, after
\* they said READY and before they were recorded.
RunningWorkersAreOnRecord ==
  (\A h \in Calls : ~InLock(h)) =>
    \A p \in Pids : IsWorker(p) /\ proc[p].state = "running" /\ IdentityOf(p) \notin slip =>
      file[proc[p].card] = IdentityOf(p)

\* The answer that a card's worker is stopped is true: none that was ever on
\* record runs there, whatever other calls were doing meanwhile.
StoppedMeansStopped ==
  [][\A h \in Calls : call[h].at = "stop" /\ call'[h] = Idle("ok") =>
       \A p \in Pids : IsWorker(p) /\ proc[p].card \in call[h].want =>
         proc[p].state = "warming" \/ IdentityOf(p) \in slip]_vars

\* A process that a stop signals is the recorded worker of the card the stop
\* is about, also when process ids are used again between any two steps.
OnlyTheWorkerIsSignalled ==
  [][\A h \in Calls, p \in Pids :
       call[h].at = "signal" /\ call'[h].at = "strike" /\ proc[p] # Nobody /\ proc'[p] = Nobody =>
         IsWorker(p) /\ proc[p].card = call[h].card /\ file[call[h].card] = IdentityOf(p)]_vars

=============================================================================
