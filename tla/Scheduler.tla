------------------------------ MODULE Scheduler -----------------------------
(***************************************************************************)
(* How often an active monitor is checked, with time: the beat puts a tick *)
(* in the task queue every minute, the tick puts a check there when the    *)
(* newest result is old enough, and workers take both from the same queue, *)
(* which they share with everything else.  The result is stamped when the  *)
(* check ends, not when it is ordered, and a check may end without one.    *)
(*                                                                         *)
(* Time is counted in units.  Steps within a unit take less than one, so   *)
(* ages that are equal in units may differ either way by a little.         *)
(***************************************************************************)
EXTENDS Naturals, Sequences

CONSTANTS
    Worker,    \* the celery workers that take from task_queue
    Interval,  \* interval_seconds of the monitor
    Period,    \* from one beat to the next
    Deadline,  \* the longest a check by probes takes
    \* bounds on what nothing in the code limits:
    MaxLost,   \* ticks and checks lost between two results
    MaxHeld,   \* units that tasks wait, or the fallback takes, between two results
    MaxWait    \* units that one task waits

ASSUME SchedulerAssumption ==
    /\ Interval \in Nat /\ Period \in Nat \ {0} /\ Deadline \in Nat
    /\ MaxLost \in Nat /\ MaxHeld \in Nat /\ MaxWait \in Nat

VARIABLES
    checked,  \* is there a result
    age,      \* time since the newest result (or since the monitor exists)
    beat,     \* time to the next beat
    queue,    \* task_queue
    worker,   \* what each worker does, and for how long a check by probes
    lost,     \* auxiliary: ticks and checks lost since the newest result
    held      \* auxiliary: units since then in which a task waited or a check
              \* ran in the fallback

schedulerVars == <<checked, age, beat, queue, worker, lost, held>>

(* A tick; a check it ordered, as old as the tick; or a manual check.  The    *)
(* age of a task is auxiliary.                                                *)
Task == [task : {"tick", "check", "manual"}, age : Nat]
New(task) == [task |-> task, age |-> 0]

-----------------------------------------------------------------------------
Doing(pc) == [pc |-> pc, spent |-> 0]

SchedulerInit ==
    /\ checked = FALSE /\ age = 0
    /\ beat = Period
    /\ queue = <<>>
    /\ worker = [w \in Worker |-> Doing("idle")]
    /\ lost = 0 /\ held = 0

(* A tick or a check that leads to no result. *)
Lose == lost < MaxLost /\ lost' = lost + 1

(* crontab(minute='*/1'), however long the queue is; a beat is missed while   *)
(* the beat process or the broker is down.                                    *)
Beat ==
    /\ beat = 0
    /\ beat' = Period
    /\ \/ queue' = Append(queue, New("tick")) /\ UNCHANGED lost
       \/ Lose /\ UNCHANGED queue
    /\ UNCHANGED <<checked, age, worker, held>>

Takes(w, tasks) ==
    worker[w].pc = "idle" /\ queue # <<>> /\ Head(queue).task \in tasks

(* Mutant: an interval has passed when the next beat would be too late. *)
Due_late == ~checked \/ age >= Interval + Period

(* now - checked_at >= interval_seconds: sure, or possible when equal. *)
Due == ~checked \/ age >= Interval

(* run_scheduled_monitoring_tasks; the task is acknowledged before it runs,   *)
(* so it is lost with its worker, or by an exception.                         *)
RunTick(w) ==
    /\ Takes(w, {"tick"})
    /\ \/ /\ Due
          /\ queue' = Append(Tail(queue), [Head(queue) EXCEPT !.task = "check"])
          /\ UNCHANGED <<lost, worker>>
       \/ /\ ~Due \/ (checked /\ age = Interval)
          /\ queue' = Tail(queue)
          /\ UNCHANGED <<lost, worker>>
       \/ /\ Lose
          /\ queue' = Tail(queue)
          /\ \E pc \in {"idle", "away"} : worker' = [worker EXCEPT ![w] = Doing(pc)]
    /\ UNCHANGED <<checked, age, beat, held>>

(* run_single_monitor_task, of a monitor that is there *)
StartCheck(w) ==
    /\ Takes(w, {"check", "manual"})
    /\ worker' = [worker EXCEPT ![w] = Doing("rpc")]
    /\ queue' = Tail(queue)
    /\ UNCHANGED <<checked, age, beat, lost, held>>

(* CheckResult.save: checked_at is auto_now_add. *)
Stamp == checked' = TRUE /\ age' = 0 /\ lost' = 0 /\ held' = 0

RpcAnswers(w) ==
    /\ worker[w].pc = "rpc"
    /\ Stamp
    /\ worker' = [worker EXCEPT ![w] = Doing("idle")]
    /\ UNCHANGED <<beat, queue>>

(* The RPC fails, or its deadline passes: the check starts again, locally. *)
RpcFails(w) ==
    /\ worker[w].pc = "rpc"
    /\ worker' = [worker EXCEPT ![w] = Doing("local")]
    /\ UNCHANGED <<checked, age, beat, queue, lost, held>>

(* httpx.Timeout(10) is a limit on each read, not on the request. *)
LocalEnds(w) ==
    /\ worker[w].pc = "local"
    /\ Stamp
    /\ worker' = [worker EXCEPT ![w] = Doing("idle")]
    /\ UNCHANGED <<beat, queue>>

(* No result: the check raises and the task returns, the transaction fails,   *)
(* or the worker is killed; nothing brings the task back.                     *)
CheckLost(w) ==
    /\ worker[w].pc \in {"rpc", "local"}
    /\ Lose
    /\ \E pc \in {"idle", "away"} : worker' = [worker EXCEPT ![w] = Doing(pc)]
    /\ UNCHANGED <<checked, age, beat, queue, held>>

(* Checks of other monitors go through the same queue and workers, in between *)
(* or ahead: a worker may be away with them for any time, or be stopped.      *)
Leave(w) ==
    /\ worker[w].pc = "idle"
    /\ worker' = [worker EXCEPT ![w] = Doing("away")]
    /\ UNCHANGED <<checked, age, beat, queue, lost, held>>

Return(w) ==
    /\ worker[w].pc = "away"
    /\ worker' = [worker EXCEPT ![w] = Doing("idle")]
    /\ UNCHANGED <<checked, age, beat, queue, lost, held>>

(* manage.py seed_monitors, on a monitor it makes or finds: results as of now, *)
(* because auto_now_add overrides the dates the command gives them.           *)
Seed == Stamp /\ UNCHANGED <<beat, queue, worker>>

(* A task of the monitor waits, or the fallback runs. *)
Held == queue # <<>> \/ \E w \in Worker : worker[w].pc = "local"

(* A beat comes on time, an idle worker takes the next task, and a call of    *)
(* probes ends before its deadline.  Nothing else has a time limit.           *)
TimeMayPass ==
    /\ beat > 0
    /\ \A w \in Worker : /\ worker[w].pc = "idle" => queue = <<>>
                         /\ worker[w].pc = "rpc" => worker[w].spent < Deadline
    /\ Held => held < MaxHeld
    /\ \A n \in DOMAIN queue : queue[n].age < MaxWait

SchedulerPass ==
    /\ TimeMayPass
    /\ age' = age + 1
    /\ beat' = beat - 1
    /\ held' = IF Held THEN held + 1 ELSE held
    /\ queue' = [n \in DOMAIN queue |-> [queue[n] EXCEPT !.age = @ + 1]]
    /\ worker' = [w \in Worker |-> IF worker[w].pc = "rpc"
                                   THEN [worker[w] EXCEPT !.spent = @ + 1]
                                   ELSE worker[w]]
    /\ UNCHANGED <<checked, lost>>

-----------------------------------------------------------------------------
(* The time between two results of a monitor: its interval, up to one beat    *)
(* more to be noticed, and one call of probes; once more the last two for     *)
(* every tick or check that was lost; and the time its tasks waited in the    *)
(* queue or its checks were in the fallback.  A monitor of 60 s can so be     *)
(* two minutes without a result when nothing goes wrong at all.               *)
GapBounded == age <= Interval + (Period + Deadline) * (1 + lost) + held
=============================================================================
