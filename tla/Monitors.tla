------------------------------ MODULE Monitors ------------------------------
(***************************************************************************)
(* The monitors service: the table of monitors and their check results,    *)
(* the Celery workers that run the checks, the beat that schedules them,   *)
(* and the HTTP API that edits the same rows.                              *)
(*                                                                         *)
(* A check is not one step.  The worker reads the monitor                  *)
(* (Monitor.objects.get), asks probes or the site for a verdict, commits   *)
(* the result together with the new counters in one transaction, and only  *)
(* then sends an event to the incidents service.  Nothing is locked between *)
(* those steps, so other workers, PATCH requests and deletions run there.  *)
(***************************************************************************)
EXTENDS Integers, Sequences

CONSTANTS
    Monitor,      \* primary keys the database sequence can hand out
    Worker,       \* processes of the monitors Celery worker (prefork pool)
    Client,       \* PATCH / PUT requests that can be in flight at once
    Intervals,    \* interval_seconds a client may choose
    CounterCap,   \* counters saturate here (bound)
    MaxQueue,     \* beat and clients add no task to a longer queue (bound)
    MaxEvents,    \* length of incidents_queue (bound)
    MaxDeaths,    \* how many tasks may die half way (bound)
    None          \* no row, no request

ASSUME MonitorsAssumption ==
    /\ CounterCap \in Nat \ {0}
    /\ MaxQueue \in Nat /\ MaxEvents \in Nat /\ MaxDeaths \in Nat
    /\ Intervals \subseteq Nat /\ Intervals # {}

VARIABLES
    created,          \* ids the sequence has handed out; ids are never reused
    row,              \* the monitors table: a row, or None
    history,          \* the check_results table, by monitor
    failed,           \* auxiliary: failed checks ever committed, by monitor
    task_queue,       \* tasks for the monitors worker, oldest first
    job,              \* what each worker process is doing
    edit,             \* the update request each client has in flight
    site_up,          \* environment: does the site pass its check?
    incidents_queue,  \* events for the incidents service, oldest first
    deaths            \* tasks that have died so far

vars == <<created, row, history, failed, task_queue, job, edit, site_up,
          incidents_queue, deaths>>

-----------------------------------------------------------------------------
(* Data *)

Counter == 0 .. CounterCap

Row == [is_active : BOOLEAN, is_currently_up : BOOLEAN,
        consecutive_failures : Counter, consecutive_successes : Counter,
        interval_seconds : Intervals]

(* What the model keeps of a monitor's results: the newest verdict, how many *)
(* failures it ends, and whether interval_seconds have passed since it.      *)
History == [newest : {"none", "up", "down"}, streak : Counter, due : BOOLEAN]

NoHistory == [newest |-> "none", streak |-> 0, due |-> FALSE]

Tick == [kind |-> "tick"]
Check(m) == [kind |-> "check", monitor |-> m]
Task == {Tick} \cup [kind : {"check"}, monitor : Monitor]

Event == [monitor : Monitor, is_success : BOOLEAN,
          consecutive_failures : Counter, interval_seconds : Intervals]

Idle == [pc |-> "idle"]
Job == {Idle}
    \cup [pc : {"tick"}, todo : SUBSET Monitor]
    \cup [pc : {"fetched"}, monitor : Monitor, obj : Row]
    \cup [pc : {"checked", "committed"}, monitor : Monitor, obj : Row,
          ok : BOOLEAN]

Edit == [monitor : Monitor, obj : Row]

(* None stands for the absence of a row or of a request. *)
ASSUME NullAssumption == None \notin Row /\ None \notin Edit

HoldsObject(w) == job[w].pc \in {"fetched", "checked", "committed"}

Live(m) == row[m] # None
Active(m) == Live(m) /\ row[m].is_active

Inc(n) == IF n < CounterCap THEN n + 1 ELSE n

-----------------------------------------------------------------------------
Init ==
    /\ created = {}
    /\ row = [m \in Monitor |-> None]
    /\ history = [m \in Monitor |-> NoHistory]
    /\ failed = [m \in Monitor |-> 0]
    /\ task_queue = <<>>
    /\ job = [w \in Worker |-> Idle]
    /\ edit = [c \in Client |-> None]
    /\ site_up \in [Monitor -> BOOLEAN]
    /\ incidents_queue = <<>>
    /\ deaths = 0

-----------------------------------------------------------------------------
(* The HTTP API: MonitorViewSet and ManualCheckView *)

NewRow(active, interval) ==
    [is_active |-> active, is_currently_up |-> TRUE,
     consecutive_failures |-> 0, consecutive_successes |-> 0,
     interval_seconds |-> interval]

CreateMonitor(m) ==
    /\ m \notin created
    /\ created' = created \cup {m}
    /\ \E a \in BOOLEAN, i \in Intervals :
           row' = [row EXCEPT ![m] = NewRow(a, i)]
    /\ UNCHANGED <<history, failed, task_queue, job, edit, site_up,
                   incidents_queue, deaths>>

(* PATCH and PUT read the row, validate, and save the whole object. *)
EditBegin(c, m) ==
    /\ edit[c] = None
    /\ Live(m)
    /\ edit' = [edit EXCEPT ![c] = [monitor |-> m, obj |-> row[m]]]
    /\ UNCHANGED <<created, row, history, failed, task_queue, job, site_up,
                   incidents_queue, deaths>>

(* The writable columns get the client's values, every other column the      *)
(* value read by EditBegin; save() inserts the row again when it is gone.    *)
Edited(obj, active, interval) ==
    [obj EXCEPT !.is_active = active, !.interval_seconds = interval]

(* A result that is due may be recent again when the interval grows. *)
EditSave(c) ==
    LET m == edit[c].monitor IN
    /\ edit[c] # None
    /\ \E a \in BOOLEAN, i \in Intervals, still_due \in BOOLEAN :
          /\ row' = [row EXCEPT ![m] = Edited(edit[c].obj, a, i)]
          /\ Live(m) /\ i <= row[m].interval_seconds => still_due
          /\ history' = [history EXCEPT ![m].due = @ /\ still_due]
    /\ edit' = [edit EXCEPT ![c] = None]
    /\ UNCHANGED <<created, failed, task_queue, job, site_up,
                   incidents_queue, deaths>>

(* Deleting a monitor cascades to its check results. *)
DeleteMonitor(m) ==
    /\ Live(m)
    /\ row' = [row EXCEPT ![m] = None]
    /\ history' = [history EXCEPT ![m] = NoHistory]
    /\ UNCHANGED <<created, failed, task_queue, job, edit, site_up,
                   incidents_queue, deaths>>

(* A manual check works on an inactive monitor too. *)
ManualCheck(m) ==
    /\ Live(m)
    /\ Len(task_queue) < MaxQueue
    /\ task_queue' = Append(task_queue, Check(m))
    /\ UNCHANGED <<created, row, history, failed, job, edit, site_up,
                   incidents_queue, deaths>>

-----------------------------------------------------------------------------
(* The beat and run_scheduled_monitoring_tasks *)

BeatTick ==
    /\ Len(task_queue) < MaxQueue
    /\ task_queue' = Append(task_queue, Tick)
    /\ UNCHANGED <<created, row, history, failed, job, edit, site_up,
                   incidents_queue, deaths>>

StartTick(w) ==
    /\ job[w] = Idle
    /\ task_queue # <<>> /\ Head(task_queue) = Tick
    /\ task_queue' = Tail(task_queue)
    /\ job' = [job EXCEPT ![w] =
                  [pc |-> "tick", todo |-> {m \in Monitor : Active(m)}]]
    /\ UNCHANGED <<created, row, history, failed, edit, site_up,
                   incidents_queue, deaths>>

(* The newest result is read now; is_active was read when the tick began. *)
(* Mutant: a monitor without a result is never due. *)
Due_onlyIfChecked(m) == history[m].newest # "none" /\ history[m].due

Due(m) == history[m].newest = "none" \/ history[m].due

ScheduleOne(w) ==
    /\ job[w].pc = "tick"
    /\ \E m \in job[w].todo :
        /\ task_queue' = IF Due(m) THEN Append(task_queue, Check(m))
                                   ELSE task_queue
        /\ job' = [job EXCEPT ![w].todo = @ \ {m}]
    /\ UNCHANGED <<created, row, history, failed, edit, site_up,
                   incidents_queue, deaths>>

EndTick(w) ==
    /\ job[w].pc = "tick" /\ job[w].todo = {}
    /\ job' = [job EXCEPT ![w] = Idle]
    /\ UNCHANGED <<created, row, history, failed, task_queue, edit, site_up,
                   incidents_queue, deaths>>

-----------------------------------------------------------------------------
(* run_single_monitor_task *)

(* Monitor.objects.get; the task ends at once when the monitor is gone. *)
(* Mutant: the task goes on when the monitor is gone. *)
StartCheck_unguarded(w) ==
    /\ job[w] = Idle
    /\ task_queue # <<>> /\ Head(task_queue).kind = "check"
    /\ task_queue' = Tail(task_queue)
    /\ LET m == Head(task_queue).monitor IN
         job' = [job EXCEPT ![w] =
                   [pc |-> "fetched", monitor |-> m, obj |-> row[m]]]
    /\ UNCHANGED <<created, row, history, failed, edit, site_up,
                   incidents_queue, deaths>>

StartCheck(w) ==
    /\ job[w] = Idle
    /\ task_queue # <<>> /\ Head(task_queue).kind = "check"
    /\ task_queue' = Tail(task_queue)
    /\ LET m == Head(task_queue).monitor IN
         job' = [job EXCEPT ![w] =
                   IF Live(m)
                   THEN [pc |-> "fetched", monitor |-> m, obj |-> row[m]]
                   ELSE Idle]
    /\ UNCHANGED <<created, row, history, failed, edit, site_up,
                   incidents_queue, deaths>>

(* The verdict of probes, or of the local fallback when probes is away. *)
RunCheck(w) ==
    /\ job[w].pc = "fetched"
    /\ job' = [job EXCEPT ![w] =
                  [pc |-> "checked", monitor |-> job[w].monitor,
                   obj |-> job[w].obj, ok |-> site_up[job[w].monitor]]]
    /\ UNCHANGED <<created, row, history, failed, task_queue, edit, site_up,
                   incidents_queue, deaths>>

(* The new counters are computed from the object the worker read. *)
(* Mutant: every check is counted as a failure. *)
ApplyVerdict_countsAll(obj, ok) ==
    [obj EXCEPT !.consecutive_failures = Inc(@), !.is_currently_up = ok]

(* Mutant: a success does not reset the failures. *)
ApplyVerdict_noReset(obj, ok) ==
    IF ok
    THEN [obj EXCEPT !.consecutive_successes = Inc(@), !.is_currently_up = TRUE]
    ELSE [obj EXCEPT !.consecutive_successes = 0,
                     !.consecutive_failures = Inc(@),
                     !.is_currently_up = FALSE]

ApplyVerdict(obj, ok) ==
    IF ok
    THEN [obj EXCEPT !.consecutive_failures = 0,
                     !.consecutive_successes = Inc(@),
                     !.is_currently_up = TRUE]
    ELSE [obj EXCEPT !.consecutive_successes = 0,
                     !.consecutive_failures = Inc(@),
                     !.is_currently_up = FALSE]

(* save(update_fields=...): consecutive_successes is not among the fields. *)
(* Mutant: is_currently_up is not among the fields either. *)
SaveFields_noStatus(old, obj) ==
    [old EXCEPT !.consecutive_failures = obj.consecutive_failures]

SaveFields(old, obj) ==
    [old EXCEPT !.consecutive_failures = obj.consecutive_failures,
                !.is_currently_up = obj.is_currently_up]

Recorded(h, ok) ==
    [newest |-> IF ok THEN "up" ELSE "down",
     streak |-> IF ok THEN 0 ELSE Inc(h.streak),
     due |-> FALSE]

(* Mutant: the database does the counting, and the object the event is made  *)
(* from is not read again.                                                   *)
Commit_noRefresh(w) ==
    LET m == job[w].monitor
        obj == ApplyVerdict(job[w].obj, job[w].ok)
    IN  /\ job[w].pc = "checked"
        /\ Live(m)
        /\ row' = [row EXCEPT ![m] = SaveFields(@, obj)]
        /\ history' = [history EXCEPT ![m] = Recorded(@, job[w].ok)]
        /\ failed' = IF job[w].ok THEN failed
                                  ELSE [failed EXCEPT ![m] = Inc(@)]
        /\ job' = [job EXCEPT ![w] =
                      [pc |-> "committed", monitor |-> m, obj |-> job[w].obj,
                       ok |-> job[w].ok]]
        /\ UNCHANGED <<created, task_queue, edit, site_up, incidents_queue,
                       deaths>>

Commit(w) ==
    LET m == job[w].monitor
        obj == ApplyVerdict(job[w].obj, job[w].ok)
    IN  /\ job[w].pc = "checked"
        /\ Live(m)
        /\ row' = [row EXCEPT ![m] = SaveFields(@, obj)]
        /\ history' = [history EXCEPT ![m] = Recorded(@, job[w].ok)]
        /\ failed' = IF job[w].ok THEN failed
                                  ELSE [failed EXCEPT ![m] = Inc(@)]
        /\ job' = [job EXCEPT ![w] =
                      [pc |-> "committed", monitor |-> m, obj |-> obj,
                       ok |-> job[w].ok]]
        /\ UNCHANGED <<created, task_queue, edit, site_up, incidents_queue,
                       deaths>>

(* Mutant: the exception is caught inside the task, which goes on. *)
CommitFails_caught(w) ==
    /\ job[w].pc = "checked"
    /\ ~Live(job[w].monitor)
    /\ job' = [job EXCEPT ![w] =
                  [pc |-> "committed", monitor |-> job[w].monitor,
                   obj |-> ApplyVerdict(job[w].obj, job[w].ok), ok |-> job[w].ok]]
    /\ UNCHANGED <<created, row, history, failed, task_queue, edit, site_up,
                   incidents_queue, deaths>>

(* The monitor was deleted after it was read: the transaction rolls back     *)
(* with an exception, and the task ends without an event.                    *)
CommitFails(w) ==
    /\ job[w].pc = "checked"
    /\ ~Live(job[w].monitor)
    /\ job' = [job EXCEPT ![w] = Idle]
    /\ UNCHANGED <<created, row, history, failed, task_queue, edit, site_up,
                   incidents_queue, deaths>>

EventOf(j) ==
    [monitor |-> j.monitor, is_success |-> j.ok,
     consecutive_failures |-> j.obj.consecutive_failures,
     interval_seconds |-> j.obj.interval_seconds]

Publish(w) ==
    /\ job[w].pc = "committed"
    /\ Len(incidents_queue) < MaxEvents
    /\ incidents_queue' = Append(incidents_queue, EventOf(job[w]))
    /\ job' = [job EXCEPT ![w] = Idle]
    /\ UNCHANGED <<created, row, history, failed, task_queue, edit, site_up,
                   deaths>>

(* The check raises, the broker is away, or the process is killed.  Tasks    *)
(* are acknowledged when they start, so nothing runs the rest of it later.   *)
TaskDies(w) ==
    /\ job[w] # Idle
    /\ deaths < MaxDeaths
    /\ deaths' = deaths + 1
    /\ job' = [job EXCEPT ![w] = Idle]
    /\ UNCHANGED <<created, row, history, failed, task_queue, edit, site_up,
                   incidents_queue>>

-----------------------------------------------------------------------------
(* The environment *)

FlipSite(m) ==
    /\ site_up' = [site_up EXCEPT ![m] = ~@]
    /\ UNCHANGED <<created, row, history, failed, task_queue, job, edit,
                   incidents_queue, deaths>>

(* interval_seconds have passed since the newest result. *)
Elapse(m) ==
    /\ history[m].newest # "none" /\ ~history[m].due
    /\ history' = [history EXCEPT ![m].due = TRUE]
    /\ UNCHANGED <<created, row, failed, task_queue, job, edit, site_up,
                   incidents_queue, deaths>>

(* The incidents worker takes the oldest event. *)
TakeEvent ==
    /\ incidents_queue # <<>>
    /\ incidents_queue' = Tail(incidents_queue)
    /\ UNCHANGED <<created, row, history, failed, task_queue, job, edit,
                   site_up, deaths>>

-----------------------------------------------------------------------------
WorkerStep(w) ==
    \/ StartTick(w) \/ ScheduleOne(w) \/ EndTick(w)
    \/ StartCheck(w) \/ RunCheck(w) \/ Commit(w) \/ CommitFails(w)
    \/ Publish(w)

ClientStep ==
    \/ \E m \in Monitor : DeleteMonitor(m) \/ ManualCheck(m)
    \/ \E c \in Client : EditSave(c) \/ \E m \in Monitor : EditBegin(c, m)

(* Everything that needs no client once the monitors are registered. *)
ServiceStep ==
    \/ BeatTick
    \/ \E w \in Worker : WorkerStep(w) \/ TaskDies(w)
    \/ \E m \in Monitor : CreateMonitor(m) \/ FlipSite(m) \/ Elapse(m)

Next == ServiceStep \/ ClientStep \/ TakeEvent

Spec == Init /\ [][Next]_vars

(* Processes are scheduled, time passes, the incidents worker reads its      *)
(* queue, and cron enqueues a tick every minute: strong fairness, because    *)
(* only the bound MaxQueue ever disables BeatTick.  Clients owe nothing.     *)
Fairness ==
    /\ \A w \in Worker : WF_vars(WorkerStep(w))
    /\ \A m \in Monitor : WF_vars(Elapse(m))
    /\ SF_vars(BeatTick)
    /\ WF_vars(TakeEvent)

LiveSpec == Spec /\ Fairness

-----------------------------------------------------------------------------
(* Properties *)

(* Every variable has its type: the tables hold whole rows, and a worker     *)
(* past Monitor.objects.get holds a whole object.                            *)
TypeOK ==
    /\ created \subseteq Monitor
    /\ row \in [Monitor -> Row \cup {None}]
    /\ history \in [Monitor -> History]
    /\ failed \in [Monitor -> Counter]
    /\ task_queue \in Seq(Task)
    /\ job \in [Worker -> Job]
    /\ edit \in [Client -> Edit \cup {None}]
    /\ site_up \in [Monitor -> BOOLEAN]
    /\ incidents_queue \in Seq(Event)
    /\ deaths \in 0 .. MaxDeaths

(* The row or object obj of monitor m shows no failure that did not happen. *)
Backed(m, obj) == obj.consecutive_failures <= failed[m]

RowsBacked == \A m \in Monitor : Live(m) => Backed(m, row[m])
JobsBacked ==
    \A w \in Worker : HoldsObject(w) => Backed(job[w].monitor, job[w].obj)
EditsBacked ==
    \A c \in Client : edit[c] # None => Backed(edit[c].monitor, edit[c].obj)
EventsBacked ==
    \A i \in DOMAIN incidents_queue :
        Backed(incidents_queue[i].monitor, incidents_queue[i])

(* However workers, updates and deletions interleave, no counter (in the     *)
(* table, in an object a worker or a request holds, or in an event) shows    *)
(* more failures than checks of that monitor have failed: an incident is     *)
(* never opened on failures that did not happen (run_single_monitor_task     *)
(* reads, counts and saves without a lock).                                  *)
CountBacked == RowsBacked /\ JobsBacked /\ EditsBacked /\ EventsBacked

Agrees(up, obj) == up <=> obj.consecutive_failures = 0

RowsAgree == \A m \in Monitor : Live(m) => Agrees(row[m].is_currently_up, row[m])
JobsAgree ==
    \A w \in Worker :
        /\ HoldsObject(w) => Agrees(job[w].obj.is_currently_up, job[w].obj)
        /\ job[w].pc = "committed" => Agrees(job[w].ok, job[w].obj)
EditsAgree ==
    \A c \in Client :
        edit[c] # None => Agrees(edit[c].obj.is_currently_up, edit[c].obj)
EventsAgree ==
    \A i \in DOMAIN incidents_queue :
        Agrees(incidents_queue[i].is_success, incidents_queue[i])

(* is_currently_up and consecutive_failures are written by two kinds of      *)
(* writers from objects read earlier; they still always agree, in the table  *)
(* and in the event the incidents service decides on.                        *)
UpMeansNoFailures == RowsAgree /\ JobsAgree /\ EditsAgree /\ EventsAgree

(* models.py calls the counter "failures in a row".  It is, and the status   *)
(* flag is the newest verdict, when a single worker process runs and no      *)
(* update request is in flight.                                              *)
CountsConsecutive ==
    \A m \in Monitor : Live(m) =>
        /\ row[m].consecutive_failures = history[m].streak
        /\ row[m].is_currently_up <=> history[m].newest # "down"

(* With a single worker and no lost task, the newest queued event of a       *)
(* monitor tells what its row tells: events leave in the order of commits.   *)
LastEventCurrent ==
    \A m \in Monitor :
        LET of_m == {i \in DOMAIN incidents_queue : incidents_queue[i].monitor = m}
        IN  (/\ deaths = 0 /\ Live(m) /\ of_m # {}
             /\ \A w \in Worker : job[w].pc = "committed" => job[w].monitor # m)
            => \E i \in of_m :
                  /\ \A j \in of_m : j <= i
                  /\ incidents_queue[i].consecutive_failures
                        = row[m].consecutive_failures

(* A monitor that stays active is checked for ever: again and again its      *)
(* newest result is less than an interval old, whatever manual checks, site  *)
(* changes and (boundedly many) lost tasks come in between.                  *)
CheckedForever ==
    \A m \in Monitor :
        <>[]Active(m) =>
            []<>(history[m].newest # "none" /\ ~history[m].due)
=============================================================================
