------------------------------ MODULE Monitor ------------------------------
(***************************************************************************)
(* Watching one server: the task that reads it again and again, what is    *)
(* known of its connection, the warning that it cannot be reached, and the *)
(* reminder of a long outage, up to the banner a person sees.              *)
(*                                                                         *)
(* Moments are kept as ages, as far as they are compared.  Of the fleet,   *)
(* this server is modelled, and that others are read meanwhile.            *)
(***************************************************************************)
EXTENDS Integers

CONSTANTS
  Stale,    \* stale_after_seconds: one interval and one probe
  Every,    \* EVALUATE_EVERY_SECONDS
  Hold,     \* OFFLINE_HOLD_SECONDS
  Repeat,   \* NOTIFY_REPEAT_SECONDS
  Recovery, \* RECOVERY_SUCCESSES
  Gap,      \* from the end of one probe of a running task to the end of the next,
            \* at most: the longest pause of the loop and the probe's deadline
  MaxFaults \* bound: restarts, failed listings, failed writes

ASSUME MonitorAssumption ==
  /\ {Stale, Every, Hold, Repeat, Recovery, Gap} \subseteq Nat \ {0} /\ MaxFaults \in Nat
  /\ Every <= Stale

VARIABLES
  known,       \* the Endpoint row exists
  task,        \* its probe loop: none, alive, or ended by an error
  probe,       \* what the probe under way will report, or idle
  sinceProbe,  \* of a running task: since the last probe ended
  success,     \* last_success_at: its age
  failed,      \* last_error is set
  unreachable, \* the collector_unreachable alert is active
  evaluated,   \* _alerts_evaluated_at
  resumed,     \* _alerts_resumed_at
  reminder,    \* the open reminder of the key offline:<server>
  lastTold,    \* notified_at of the newest closed one that has it
  banner,      \* the reminder the application is just showing
  faults

monitorVars == <<known, task, probe, sinceProbe, success, failed, unreachable, evaluated,
                 resumed, reminder, lastTold, banner, faults>>
collecting == <<known, task, probe, sinceProbe, faults>>
connection == <<success, failed, unreachable>>
alerts == <<evaluated, resumed, reminder, lastTold>>

LongAgo == Stale + Hold + 1   \* success: never, or longer than any rule asks
NotEvaluated == Stale + 1     \* evaluated: never, or longer than Stale
NotTold == -1

NoReminder == [state |-> "none", since |-> 0, streak |-> 0, notified |-> NotTold]

MonitorInit ==
  /\ known = FALSE /\ task = "none" /\ probe = "idle" /\ sinceProbe = 0
  /\ success = LongAgo /\ failed = FALSE /\ unreachable = FALSE
  /\ evaluated = NotEvaluated /\ resumed = Hold
  /\ reminder = NoReminder /\ lastTold = Repeat /\ banner = "none"
  /\ faults = 0

-----------------------------------------------------------------------------
(* Reminders *)

\* The server_offline signal.
Offline(silence) == known /\ silence > Stale

\* A slip: a hold runs through time nobody was watching.
SinceAnyway(resuming) == reminder.since

Since(resuming) == IF resuming THEN 0 ELSE reminder.since

Rested(age) == age >= Repeat

\* step_present, and the silent mark of a row that was told recently
\* (_told_recently).
Present(resuming) ==
  LET stepped ==
        CASE reminder.state = "none" -> [NoReminder EXCEPT !.state = "pending"]
          [] reminder.state = "pending" ->
               [reminder EXCEPT !.since = Since(resuming),
                                !.state = IF Since(resuming) >= Hold THEN "active" ELSE "pending"]
          [] OTHER -> [reminder EXCEPT !.streak = 0]
  IN IF stepped.state = "active" /\ stepped.notified = NotTold /\ ~Rested(lastTold)
     THEN [stepped EXCEPT !.notified = 0] ELSE stepped

\* step_absent; a pending row never reached anyone and is deleted.
Gone == reminder.state = "pending" \/ (reminder.state # "none" /\ reminder.streak + 1 >= Recovery)

Closed ==
  /\ reminder' = NoReminder
  /\ lastTold' = IF reminder.notified # NotTold /\ reminder.notified < lastTold THEN reminder.notified ELSE lastTold
  /\ banner' = IF banner = "open" THEN IF reminder.notified = NotTold THEN "closed" ELSE "none" ELSE banner

\* _evaluate_alerts, unless it was done less than Every ago, with the
\* connection as it is then.
Evaluated(silence) ==
  IF evaluated < Every THEN UNCHANGED <<alerts, banner>>
  ELSE LET resuming == evaluated > Stale IN
       /\ evaluated' = 0
       /\ resumed' = IF resuming THEN 0 ELSE resumed
       /\ IF Offline(silence) THEN reminder' = Present(resuming) /\ UNCHANGED <<lastTold, banner>>
          ELSE IF Gone THEN Closed
          ELSE /\ reminder' = IF reminder.state = "none" THEN reminder ELSE [reminder EXCEPT !.streak = @ + 1]
               /\ UNCHANGED <<lastTold, banner>>

\* Another server is read.
OthersAreRead ==
  /\ evaluated >= Every
  /\ Evaluated(success)
  /\ UNCHANGED <<collecting, connection>>

\* AlertDelivery.deliverPending: what nobody was told is shown, and then
\* marked.  The mark may be lost.
ShowBanner ==
  /\ banner = "none"
  /\ reminder.state = "active" /\ reminder.notified = NotTold
  /\ banner' = "open"
  /\ UNCHANGED <<collecting, connection, alerts>>

MarkNotified ==
  /\ banner # "none"
  /\ \/ UNCHANGED <<reminder, lastTold>>
     \/ /\ banner = "open"
        /\ reminder' = [reminder EXCEPT !.notified = IF @ = NotTold THEN 0 ELSE @]
        /\ UNCHANGED lastTold
     \/ banner = "closed" /\ lastTold' = 0 /\ UNCHANGED reminder
  /\ banner' = "none"
  /\ UNCHANGED <<collecting, connection, evaluated, resumed>>

\* mark_reminders by a person.
Acknowledge ==
  /\ reminder.state = "active"
  /\ reminder' = [reminder EXCEPT !.state = "acked"]
  /\ UNCHANGED <<collecting, connection, evaluated, resumed, lastTold, banner>>

-----------------------------------------------------------------------------
(* Reading the server *)

Answers == {"complete", "incomplete", "none"}

\* observe_endpoint_forever; sinceProbe is not reset before the probe ends.
StartProbe ==
  /\ task = "alive" /\ probe = "idle" /\ sinceProbe > 0
  /\ probe' \in Answers
  /\ UNCHANGED <<known, task, sinceProbe, faults, connection, alerts, banner>>

ProbeEnds == probe # "idle" /\ probe' = "idle" /\ sinceProbe' = 0

\* ingest_observation: a complete one of a server in error also closes its alert.
Ingest ==
  /\ probe \in {"complete", "incomplete"} /\ known
  /\ ProbeEnds
  /\ success' = IF probe = "complete" THEN 0 ELSE success
  /\ failed' = (probe = "incomplete")
  /\ unreachable' = (unreachable /\ ~(probe = "complete" /\ failed))
  /\ Evaluated(success')
  /\ UNCHANGED <<known, task, faults>>

\* A slip: one failed attempt is enough.
AtOnce(silence) == TRUE

\* A slip: the alert goes up with the first failure or not at all.
FirstFailure(silence) == ~failed /\ silence > Stale

InTrouble(silence) == silence > Stale

\* record_provider_failure
Fail ==
  /\ probe = "none" /\ known
  /\ ProbeEnds
  /\ failed' = TRUE
  /\ unreachable' = (unreachable \/ InTrouble(success))
  /\ Evaluated(success)
  /\ UNCHANGED <<known, task, faults, success>>

\* observe_and_ingest raises: the server is gone, or neither its reading nor
\* its failure could be written.  The task ends.
TaskEnds ==
  /\ probe # "idle"
  /\ ~known \/ faults < MaxFaults
  /\ ProbeEnds
  /\ task' = "dead"
  /\ faults' = IF known THEN faults + 1 ELSE faults
  /\ UNCHANGED <<known, connection, alerts, banner>>

\* collector_endpoints: every server whose row can be read, and nothing at all
\* when the listing fails.
Listed == {here \in BOOLEAN : IF here THEN known ELSE known => faults < MaxFaults}

\* A slip: a task that ended stays in the table.
OnlyMissing == task = "none"

NeedsTask == task # "alive"

\* collector_supervisor: one pass.
Supervise ==
  /\ \E listed \in Listed :
       /\ IF listed THEN NeedsTask /\ task' = "alive" ELSE task # "none" /\ task' = "none"
       /\ faults' = IF listed = known THEN faults ELSE faults + 1
  /\ probe' = "idle" /\ sinceProbe' = 0
  /\ UNCHANGED <<known, connection, alerts, banner>>

\* create_endpoint
Create ==
  /\ ~known
  /\ known' = TRUE
  /\ UNCHANGED <<task, probe, sinceProbe, faults, connection, alerts, banner>>

\* delete_endpoint: the alert is closed, the reminder is left to the rules.
Delete ==
  /\ known
  /\ known' = FALSE
  /\ success' = LongAgo /\ failed' = FALSE /\ unreachable' = FALSE
  /\ UNCHANGED <<task, probe, sinceProbe, faults, alerts, banner>>

\* The daemon stops and starts: what is only in memory is lost.
Restart ==
  /\ faults < MaxFaults
  /\ faults' = faults + 1
  /\ task' = "none" /\ probe' = "idle" /\ sinceProbe' = 0
  /\ evaluated' = NotEvaluated /\ resumed' = Hold
  /\ UNCHANGED <<known, connection, reminder, lastTold, banner>>

Older(age, cap) == IF age < cap THEN age + 1 ELSE age

Tick ==
  /\ task = "alive" => sinceProbe < Gap
  /\ sinceProbe' = IF task = "alive" THEN sinceProbe + 1 ELSE sinceProbe
  /\ success' = Older(success, LongAgo)
  /\ evaluated' = Older(evaluated, NotEvaluated)
  /\ resumed' = Older(resumed, Hold)
  /\ reminder' = [reminder EXCEPT !.since = IF reminder.state = "pending" THEN Older(@, Hold) ELSE @,
                                  !.notified = IF @ = NotTold THEN @ ELSE Older(@, Repeat)]
  /\ lastTold' = Older(lastTold, Repeat)
  /\ UNCHANGED <<known, task, probe, failed, unreachable, banner, faults>>

MonitorNext ==
  \/ Tick
  \/ StartProbe \/ Ingest \/ Fail \/ TaskEnds \/ Supervise
  \/ Create \/ Delete \/ Restart
  \/ OthersAreRead \/ ShowBanner \/ MarkNotified \/ Acknowledge

\* Timers fire, a probe meets its deadline, the application runs.
Fairness ==
  /\ WF_monitorVars(Tick)
  /\ WF_monitorVars(StartProbe)
  /\ WF_monitorVars(Ingest \/ Fail \/ TaskEnds)
  /\ WF_monitorVars(Supervise /\ known /\ task' = "alive")
  /\ WF_monitorVars(ShowBanner)
  /\ WF_monitorVars(MarkNotified)

MonitorSpec == MonitorInit /\ [][MonitorNext]_monitorVars /\ Fairness

-----------------------------------------------------------------------------
(* Properties *)

\* The warning that a server cannot be reached never contradicts its monitor
\* state (FreshnessView.status): it is up only while the last attempt failed
\* and the last success is stale (record_provider_failure, ingest_observation).
AlertAgreesWithMonitor == unreachable => failed /\ success > Stale /\ known

\* A reminder of an outage becomes active only when the server gave no answer
\* for Stale and then Hold, and somebody was looking all through Hold: neither
\* short outages nor time the service did not run add up (_evaluate_alerts,
\* step_present).
OutageIsLong ==
  [][(reminder.state # "active" /\ reminder'.state = "active") =>
       success' > Stale + Hold /\ resumed' >= Hold]_monitorVars

\* A server that stays registered is read again and again, whatever ended its
\* task: an error, a failed listing, a restart, its own deletion before
\* (collector_supervisor).
ServerIsReadAgain == <>[]known => []<>(probe # "idle")

\* A server that gives no more answers ends up with its warning and stays with
\* it, and its outage is told: from some time on a banner of it was seen, or is
\* shown again because its mark was lost, or a person acknowledged it, or had
\* one of the same server within Repeat.  The telling needs evaluations that
\* come no more than Stale apart from some time on.  One server whose probes all
\* hang does not give them: the longest pause of its loop and the deadline of a
\* probe are together more than Stale, and each such gap starts the hold again
\* (_evaluate_alerts, observe_endpoint_forever).
Silent == probe \in {"idle", "none"}
Told == reminder.state = "acked" \/ reminder.notified # NotTold \/ banner = "open"
OutageIsTold ==
  <>[](known /\ Silent) => <>[]unreachable /\ (<>[](evaluated <= Stale) => []<>Told)

\* The telling without that premise.  The code does not keep it.
OutageIsToldAnyway == <>[](known /\ Silent) => []<>Told

\* "A host is not late until one full cycle plus one full probe could have
\* completed and did not" (stale_after_seconds): a server whose last attempt was
\* a success is not late as long as its loop keeps to its own limits.
LateMeansOverdue == task = "alive" /\ success = sinceProbe => success <= Stale
=============================================================================
