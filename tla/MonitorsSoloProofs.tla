-------------------------- MODULE MonitorsSoloProofs ------------------------
(* With a single worker process, and no PATCH or PUT in flight, the counters *)
(* of Monitors are what models.py says they are, and the events tell them:   *)
(* theorems for any number of monitors, tasks, deletions and manual checks.  *)
EXTENDS MonitorsProofs, FiniteSetTheorems

Solo == \A v, w \in Worker : v = w

-----------------------------------------------------------------------------
(* The inductive invariant *)

(* Nothing is known of a monitor before it is created: ids are used once. *)
OnlyCreated ==
    \A m \in Monitor : m \notin created =>
        /\ ~Live(m) /\ history[m] = NoHistory
        /\ \A w \in Worker : HoldsObject(w) => job[w].monitor # m
        /\ \A i \in DOMAIN incidents_queue : incidents_queue[i].monitor # m

(* The object the worker holds counts what the row counts: nobody else       *)
(* writes the counter.                                                       *)
HeldIsCurrent ==
    \A w \in Worker : HoldsObject(w) /\ Live(job[w].monitor) =>
        job[w].obj.consecutive_failures
            = row[job[w].monitor].consecutive_failures

(* The interval, which decides on the threshold of an incident, is the one   *)
(* the monitor was created with, in every object and every event.            *)
IntervalsKept ==
    \A m \in Monitor : Live(m) =>
        /\ \A w \in Worker : HoldsObject(w) /\ job[w].monitor = m =>
              job[w].obj.interval_seconds = row[m].interval_seconds
        /\ \A i \in DOMAIN incidents_queue : incidents_queue[i].monitor = m =>
              incidents_queue[i].interval_seconds = row[m].interval_seconds

SoloInv ==
    /\ OnlyCreated /\ HeldIsCurrent /\ IntervalsKept
    /\ CountsConsecutive /\ LastEventCurrent

(* LastEventCurrent in two parts: when it says something, and what. *)
QueuedOf(m) == {i \in DOMAIN incidents_queue : incidents_queue[i].monitor = m}

Settled(m) ==
    /\ deaths = 0 /\ Live(m) /\ QueuedOf(m) # {}
    /\ \A w \in Worker : job[w].pc = "committed" => job[w].monitor # m

NewestTells(m) ==
    \E i \in QueuedOf(m) :
        /\ \A j \in QueuedOf(m) : j <= i
        /\ incidents_queue[i].consecutive_failures = row[m].consecutive_failures

LEMMA LastEventParts ==
    LastEventCurrent <=> \A m \in Monitor : Settled(m) => NewestTells(m)
  BY DEF LastEventCurrent, Settled, NewestTells, QueuedOf

LEMMA InitSolo == Init => SoloInv
  BY DEF Init, SoloInv, OnlyCreated, HeldIsCurrent, IntervalsKept, CountsConsecutive,
         LastEventCurrent, Live, HoldsObject, Idle

-----------------------------------------------------------------------------
(* The worker *)

(* A worker that holds no object afterwards, and drops no commit unless it   *)
(* dies, disturbs nothing.                                                   *)
LEMMA HandsEmpty ==
    ASSUME SoloInv, UNCHANGED <<created, row, history, incidents_queue>>,
           \A w \in Worker : job'[w].pc \notin {"fetched", "checked", "committed"},
           deaths' = 0 =>
              deaths = 0 /\ \A w \in Worker : job[w].pc # "committed"
    PROVE  SoloInv'
  <1>1. OnlyCreated' /\ HeldIsCurrent' /\ CountsConsecutive'
    BY DEF SoloInv, OnlyCreated, HeldIsCurrent, CountsConsecutive, Live, HoldsObject
  <1>2. LastEventCurrent'
    BY DEF SoloInv, LastEventCurrent, Live
  <1>3. IntervalsKept'
    BY DEF SoloInv, IntervalsKept, Live, HoldsObject
  <1> QED BY <1>1, <1>2, <1>3 DEF SoloInv

(* The same when it holds an object of the row's value and commits nothing. *)
LEMMA HandsCurrent ==
    ASSUME SoloInv, NEW m \in Monitor,
           UNCHANGED <<created, row, history, incidents_queue, deaths>>,
           \A w \in Worker : job[w].pc # "committed",
           m \in created,
           \A w \in Worker :
              /\ job'[w].pc \in {"fetched", "checked"} /\ job'[w].monitor = m
              /\ Live(m) =>
                    /\ job'[w].obj.consecutive_failures
                         = row[m].consecutive_failures
                    /\ job'[w].obj.interval_seconds = row[m].interval_seconds
    PROVE  SoloInv'
  <1>1. OnlyCreated' /\ HeldIsCurrent' /\ CountsConsecutive'
    BY DEF SoloInv, OnlyCreated, HeldIsCurrent, CountsConsecutive, Live, HoldsObject
  <1>2. LastEventCurrent'
    BY DEF SoloInv, LastEventCurrent, Live
  <1>3. IntervalsKept'
    BY DEF SoloInv, IntervalsKept, Live, HoldsObject
  <1> QED BY <1>1, <1>2, <1>3 DEF SoloInv

LEMMA CommitSolo ==
    ASSUME Solo, TypeOK, SoloInv, NEW w \in Worker, Commit(w) PROVE SoloInv'
  <1>0. PICK m \in Monitor : job[w].monitor = m
    BY JobFields DEF Commit, HoldsObject
  <1> DEFINE obj == ApplyVerdict(job[w].obj, job[w].ok)
             ok == job[w].ok
  <1>1. ok \in BOOLEAN /\ job[w].obj \in Row /\ obj \in Row
    BY JobFields, ApplyVerdictType DEF Commit, HoldsObject
  <1>2. Live(m) /\ row[m] \in Row /\ history[m] \in History
    BY <1>0 DEF Commit, Live, TypeOK
  <1>3. /\ obj.consecutive_failures
              = IF ok THEN 0 ELSE Inc(job[w].obj.consecutive_failures)
        /\ obj.is_currently_up = ok
    <2>1. CASE ok = TRUE
      BY <1>1, <2>1 DEF ApplyVerdict, Row
    <2>2. CASE ok = FALSE
      BY <1>1, <2>2 DEF ApplyVerdict, Row
    <2> QED BY <1>1, <2>1, <2>2
  <1>4. job[w].obj.consecutive_failures = row[m].consecutive_failures
    BY <1>0, <1>2 DEF Commit, SoloInv, HeldIsCurrent, HoldsObject
  <1>5. row[m].consecutive_failures = history[m].streak
    BY <1>2 DEF SoloInv, CountsConsecutive
  <1>6. /\ row'[m] = SaveFields(row[m], obj)
        /\ \A n \in Monitor : n # m => row'[n] = row[n]
    BY <1>0 DEF Commit, TypeOK
  <1>7. /\ row'[m].consecutive_failures = obj.consecutive_failures
        /\ row'[m].is_currently_up = obj.is_currently_up
    BY <1>2, <1>6 DEF SaveFields, Row
  <1>8. /\ history'[m] = Recorded(history[m], ok)
        /\ \A n \in Monitor : n # m => history'[n] = history[n]
    BY <1>0 DEF Commit, TypeOK
  <1>9. /\ history'[m].streak = IF ok THEN 0 ELSE Inc(history[m].streak)
        /\ history'[m].newest = IF ok THEN "up" ELSE "down"
    BY <1>8 DEF Recorded
  <1>10. \A v \in Worker : /\ job'[v].pc = "committed" /\ job'[v].monitor = m
                           /\ job'[v].obj = obj
    BY <1>0 DEF Commit, Solo, TypeOK
  <1>11. UNCHANGED <<created, incidents_queue, deaths>>
    BY DEF Commit
  <1>12. row'[m] # None
    <2>1. row'[m] \in Row
      BY <1>1, <1>2, <1>6, SaveFieldsType
    <2> QED BY <2>1, NullAssumption
  <1>13. m \in created
    BY <1>2 DEF SoloInv, OnlyCreated
  <1> HIDE DEF obj, ok
  <1>14. OnlyCreated'
    BY <1>6, <1>8, <1>10, <1>11, <1>13 DEF SoloInv, OnlyCreated, Live
  <1>15. HeldIsCurrent'
    BY <1>7, <1>10 DEF HeldIsCurrent
  <1>16. CountsConsecutive'
    <2> SUFFICES ASSUME NEW n \in Monitor, Live(n)'
                 PROVE  /\ row'[n].consecutive_failures = history'[n].streak
                        /\ row'[n].is_currently_up <=> history'[n].newest # "down"
      BY DEF CountsConsecutive
    <2>1. CASE n = m
      <3>1. row'[m].consecutive_failures = history'[m].streak
        BY <1>3, <1>4, <1>5, <1>7, <1>9
      <3>2. row'[m].is_currently_up <=> history'[m].newest # "down"
        BY <1>1, <1>3, <1>7, <1>9
      <3> QED BY <2>1, <3>1, <3>2
    <2>2. CASE n # m
      BY <1>6, <1>8, <2>2 DEF SoloInv, CountsConsecutive, Live
    <2> QED BY <2>1, <2>2
  <1>17. LastEventCurrent'
    <2> SUFFICES ASSUME NEW n \in Monitor, Settled(n)' PROVE NewestTells(n)'
      BY LastEventParts DEF LastEventCurrent, Settled, NewestTells, QueuedOf
    <2>1. n # m
      BY <1>10 DEF Settled
    <2>2. row'[n] = row[n] /\ QueuedOf(n)' = QueuedOf(n)
      BY <1>6, <1>11, <2>1 DEF QueuedOf
    <2>3. \A v \in Worker : job[v].pc # "committed"
      BY DEF Commit, Solo
    <2>4. Settled(n)
      BY <1>11, <2>2, <2>3 DEF Settled, Live
    <2>5. NewestTells(n)
      BY <2>4, LastEventParts DEF SoloInv
    <2> QED BY <1>11, <2>2, <2>5 DEF NewestTells
  <1>18. IntervalsKept'
    <2> SUFFICES ASSUME NEW n \in Monitor, Live(n)'
                 PROVE  /\ \A v \in Worker : HoldsObject(v)' /\ job'[v].monitor = n =>
                              job'[v].obj.interval_seconds = row'[n].interval_seconds
                        /\ \A i \in DOMAIN incidents_queue :
                              incidents_queue[i].monitor = n =>
                                incidents_queue[i].interval_seconds
                                  = row'[n].interval_seconds
      BY <1>11 DEF IntervalsKept, HoldsObject
    <2>1. CASE n = m
      <3>1. row'[m].interval_seconds = row[m].interval_seconds
        BY <1>2, <1>6 DEF SaveFields, Row
      <3>2. obj.interval_seconds = job[w].obj.interval_seconds
        BY <1>1 DEF obj, ApplyVerdict, Row
      <3>3. job[w].obj.interval_seconds = row[m].interval_seconds
        BY <1>0, <1>2 DEF Commit, SoloInv, IntervalsKept, HoldsObject
      <3> QED BY <1>2, <1>10, <2>1, <3>1, <3>2, <3>3 DEF SoloInv, IntervalsKept
    <2>2. CASE n # m
      BY <1>6, <1>10, <2>2 DEF SoloInv, IntervalsKept, Live
    <2> QED BY <2>1, <2>2
  <1> QED BY <1>14, <1>15, <1>16, <1>17, <1>18 DEF SoloInv

LEMMA PublishSolo ==
    ASSUME Solo, TypeOK, SoloInv, NEW w \in Worker, Publish(w) PROVE SoloInv'
  <1>0. PICK m \in Monitor : job[w].monitor = m
    BY JobFields DEF Publish, HoldsObject
  <1> DEFINE q == incidents_queue
             e == EventOf(job[w])
  <1>1. /\ q \in Seq(Event) /\ q' = Append(q, e)
        /\ UNCHANGED <<created, row, history, deaths>>
    BY DEF Publish, TypeOK
  <1>2. /\ e.monitor = m
        /\ e.consecutive_failures = job[w].obj.consecutive_failures
        /\ e.interval_seconds = job[w].obj.interval_seconds
    BY <1>0 DEF EventOf
  <1> HIDE DEF e
  <1>3. /\ Len(q) \in Nat /\ DOMAIN q' = DOMAIN q \cup {Len(q) + 1}
        /\ q'[Len(q) + 1] = e
        /\ \A i \in DOMAIN q : i \in Nat /\ i <= Len(q) /\ q'[i] = q[i]
    BY <1>1
  <1>4. \A v \in Worker : job'[v].pc = "idle"
    BY DEF Publish, Solo, TypeOK, Idle
  <1>5. \A v \in Worker : job[v].monitor = m
    BY <1>0 DEF Solo
  <1>6. m \in created
    BY <1>0 DEF Publish, SoloInv, OnlyCreated, HoldsObject
  <1>7. OnlyCreated'
    BY <1>1, <1>2, <1>3, <1>4, <1>6 DEF SoloInv, OnlyCreated, Live, HoldsObject
  <1>8. HeldIsCurrent' /\ CountsConsecutive'
    BY <1>1, <1>4 DEF SoloInv, HeldIsCurrent, CountsConsecutive, Live, HoldsObject
  <1>9. LastEventCurrent'
    <2> SUFFICES ASSUME NEW n \in Monitor, Settled(n)' PROVE NewestTells(n)'
      BY LastEventParts DEF LastEventCurrent, Settled, NewestTells, QueuedOf
    <2>1. CASE n = m
      <3>1. row[m].consecutive_failures = job[w].obj.consecutive_failures
        BY <1>0, <1>1, <2>1
           DEF Settled, Publish, SoloInv, HeldIsCurrent, HoldsObject, Live
      <3>2. Len(q) + 1 \in QueuedOf(n)'
        BY <1>2, <1>3, <2>1 DEF QueuedOf
      <3>3. ASSUME NEW j \in QueuedOf(n)' PROVE j <= Len(q) + 1
        <4>1. j = Len(q) + 1 \/ (j \in Nat /\ j <= Len(q))
          BY <1>3 DEF QueuedOf
        <4> QED BY <1>3, <4>1
      <3> QED BY <1>1, <1>2, <1>3, <2>1, <3>1, <3>2, <3>3 DEF NewestTells
    <2>2. CASE n # m
      <3>1. QueuedOf(n)' = QueuedOf(n)
        BY <1>2, <1>3, <2>2 DEF QueuedOf
      <3>2. Settled(n)
        BY <1>1, <1>5, <2>2, <3>1 DEF Settled, Live
      <3>3. NewestTells(n)
        BY <3>2, LastEventParts DEF SoloInv
      <3> QED BY <1>1, <1>3, <3>1, <3>3 DEF NewestTells, QueuedOf
    <2> QED BY <2>1, <2>2
  <1>10. IntervalsKept'
    <2>1. Live(m) => e.interval_seconds = row[m].interval_seconds
      BY <1>0, <1>2 DEF Publish, SoloInv, IntervalsKept, HoldsObject
    <2> QED BY <1>1, <1>2, <1>3, <1>4, <2>1 DEF SoloInv, IntervalsKept, Live, HoldsObject
  <1> QED BY <1>7, <1>8, <1>9, <1>10 DEF SoloInv

LEMMA WorkerSolo ==
    ASSUME Solo, TypeOK, SoloInv, NEW w \in Worker, WorkerStep(w) \/ TaskDies(w)
    PROVE  SoloInv'
  <1>1. \A v \in Worker : v = w
    BY DEF Solo
  <1>2. CASE StartTick(w) \/ EndTick(w) \/ CommitFails(w)
    BY <1>1, <1>2, HandsEmpty DEF StartTick, EndTick, CommitFails, Idle, TypeOK
  <1>3. CASE ScheduleOne(w)
    <2>1. PICK m \in job[w].todo : job' = [job EXCEPT ![w].todo = @ \ {m}]
      BY <1>3 DEF ScheduleOne
    <2>2. job[w] = [pc |-> "tick", todo |-> job[w].todo]
      BY <1>3, JobFields DEF ScheduleOne
    <2>3. job'[w].pc = "tick"
      BY <2>1, <2>2 DEF TypeOK
    <2> QED BY <1>1, <1>3, <2>3, HandsEmpty DEF ScheduleOne
  <1>4. CASE StartCheck(w)
    <2> DEFINE m == Head(task_queue).monitor
    <2>1. m \in Monitor
      <3>1. Head(task_queue) \in Task
        BY <1>4 DEF StartCheck, TypeOK
      <3> QED BY <1>4, <3>1 DEF StartCheck, Task, Tick
    <2>2. CASE Live(m)
      <3>1. job'[w] = [pc |-> "fetched", monitor |-> m, obj |-> row[m]]
        BY <1>4, <2>2 DEF StartCheck, TypeOK
      <3>2. m \in created
        BY <2>1, <2>2 DEF SoloInv, OnlyCreated
      <3> QED BY <1>1, <1>4, <2>1, <3>1, <3>2, HandsCurrent DEF StartCheck, Idle
    <2>3. CASE ~Live(m)
      BY <1>1, <1>4, <2>3, HandsEmpty DEF StartCheck, Idle, TypeOK
    <2> QED BY <2>2, <2>3
  <1>5. CASE RunCheck(w)
    <2>1. PICK m \in Monitor : job[w].monitor = m
      BY <1>5, JobFields DEF RunCheck, HoldsObject
    <2>2. /\ job[w].pc = "fetched"
          /\ job'[w] = [pc |-> "checked", monitor |-> m, obj |-> job[w].obj,
                        ok |-> site_up[m]]
      BY <1>5, <2>1 DEF RunCheck, TypeOK
    <2>3. m \in created
      BY <2>1, <2>2 DEF SoloInv, OnlyCreated, HoldsObject
    <2>4. Live(m) =>
            /\ job[w].obj.consecutive_failures = row[m].consecutive_failures
            /\ job[w].obj.interval_seconds = row[m].interval_seconds
      BY <2>1, <2>2 DEF SoloInv, HeldIsCurrent, IntervalsKept, HoldsObject
    <2> QED BY <1>1, <1>5, <2>2, <2>3, <2>4, HandsCurrent DEF RunCheck
  <1>6. CASE Commit(w)
    BY <1>6, CommitSolo
  <1>7. CASE Publish(w)
    BY <1>7, PublishSolo
  <1>8. CASE TaskDies(w)
    <2>1. deaths \in Nat /\ deaths' = deaths + 1
      BY <1>8, MonitorsAssumption DEF TaskDies, TypeOK
    <2> QED BY <1>1, <1>8, <2>1, HandsEmpty DEF TaskDies, Idle, TypeOK
  <1> QED BY <1>2, <1>3, <1>4, <1>5, <1>6, <1>7, <1>8 DEF WorkerStep

-----------------------------------------------------------------------------
(* Everything else *)

LEMMA CreateMonitorSolo ==
    ASSUME TypeOK, SoloInv, NEW m \in Monitor, CreateMonitor(m) PROVE SoloInv'
  <1>1. /\ m \notin created /\ created' = created \cup {m}
        /\ \A n \in Monitor : n # m => row'[n] = row[n]
        /\ row'[m].consecutive_failures = 0 /\ row'[m].is_currently_up = TRUE
        /\ UNCHANGED <<history, job, incidents_queue, deaths>>
    BY DEF CreateMonitor, NewRow, TypeOK
  <1>2. /\ history[m].streak = 0 /\ history[m].newest = "none"
        /\ QueuedOf(m) = {}
        /\ \A w \in Worker : HoldsObject(w) => job[w].monitor # m
    BY <1>1 DEF SoloInv, OnlyCreated, NoHistory, QueuedOf
  <1>3. OnlyCreated'
    BY <1>1 DEF SoloInv, OnlyCreated, Live, HoldsObject
  <1>4. HeldIsCurrent'
    <2> SUFFICES ASSUME NEW w \in Worker, HoldsObject(w)', Live(job[w].monitor)'
                 PROVE  job[w].obj.consecutive_failures
                          = row'[job[w].monitor].consecutive_failures
      BY <1>1 DEF HeldIsCurrent, HoldsObject
    <2>1. HoldsObject(w)
      BY <1>1 DEF HoldsObject
    <2>2. job[w].monitor \in Monitor /\ job[w].monitor # m
      BY <1>2, <2>1, JobFields
    <2> QED BY <1>1, <2>1, <2>2 DEF SoloInv, HeldIsCurrent, Live
  <1>5. CountsConsecutive'
    BY <1>1, <1>2 DEF SoloInv, CountsConsecutive, Live
  <1>6. LastEventCurrent'
    BY <1>1, <1>2 DEF SoloInv, LastEventCurrent, Live, QueuedOf
  <1>7. IntervalsKept'
    BY <1>1, <1>2 DEF SoloInv, IntervalsKept, Live, HoldsObject, QueuedOf
  <1> QED BY <1>3, <1>4, <1>5, <1>6, <1>7 DEF SoloInv

LEMMA DeleteMonitorSolo ==
    ASSUME TypeOK, SoloInv, NEW m \in Monitor, DeleteMonitor(m) PROVE SoloInv'
  <1>1. /\ Live(m) /\ row'[m] = None /\ history'[m] = NoHistory
        /\ \A n \in Monitor : n # m => row'[n] = row[n] /\ history'[n] = history[n]
        /\ UNCHANGED <<created, job, incidents_queue, deaths>>
    BY DEF DeleteMonitor, TypeOK
  <1>2. OnlyCreated'
    BY <1>1 DEF SoloInv, OnlyCreated, Live, HoldsObject
  <1>3. HeldIsCurrent'
    <2> SUFFICES ASSUME NEW w \in Worker, HoldsObject(w)', Live(job[w].monitor)'
                 PROVE  job[w].obj.consecutive_failures
                          = row'[job[w].monitor].consecutive_failures
      BY <1>1 DEF HeldIsCurrent, HoldsObject
    <2>1. HoldsObject(w)
      BY <1>1 DEF HoldsObject
    <2>2. job[w].monitor \in Monitor /\ job[w].monitor # m
      BY <1>1, <2>1, JobFields DEF Live
    <2> QED BY <1>1, <2>1, <2>2 DEF SoloInv, HeldIsCurrent, Live
  <1>4. CountsConsecutive'
    BY <1>1 DEF SoloInv, CountsConsecutive, Live
  <1>5. LastEventCurrent'
    BY <1>1 DEF SoloInv, LastEventCurrent, Live
  <1>6. IntervalsKept'
    BY <1>1 DEF SoloInv, IntervalsKept, Live, HoldsObject
  <1> QED BY <1>2, <1>3, <1>4, <1>5, <1>6 DEF SoloInv

(* The oldest event leaves: the newest of a monitor stays, or none is left. *)
LEMMA TakeEventSolo ==
    ASSUME TypeOK, SoloInv, TakeEvent PROVE SoloInv'
  <1> DEFINE q == incidents_queue
  <1>1. /\ q \in Seq(Event) /\ q # <<>> /\ q' = Tail(q)
        /\ UNCHANGED <<created, row, history, job, deaths>>
    BY DEF TakeEvent, TypeOK
  <1>2. \A i \in DOMAIN q' : i \in Nat /\ i + 1 \in DOMAIN q /\ q'[i] = q[i + 1]
    BY <1>1
  <1>3. \A i \in DOMAIN q : i \in Nat /\ (i # 1 => i - 1 \in DOMAIN q')
    BY <1>1
  <1>4. OnlyCreated'
    BY <1>1, <1>2 DEF SoloInv, OnlyCreated, Live, HoldsObject
  <1>5. HeldIsCurrent' /\ CountsConsecutive'
    BY <1>1 DEF SoloInv, HeldIsCurrent, CountsConsecutive, Live, HoldsObject
  <1>6. LastEventCurrent'
    <2> SUFFICES ASSUME NEW n \in Monitor, Settled(n)' PROVE NewestTells(n)'
      BY LastEventParts DEF LastEventCurrent, Settled, NewestTells, QueuedOf
    <2>1. \A j \in QueuedOf(n)' : j \in Nat /\ j # 0 /\ j + 1 \in QueuedOf(n)
      <3>1. \A j \in DOMAIN q' : j # 0
        BY <1>1
      <3> QED BY <1>2, <3>1 DEF QueuedOf
    <2>2. PICK k \in QueuedOf(n)' : TRUE
      BY DEF Settled
    <2>3. Settled(n)
      BY <1>1, <2>1, <2>2 DEF Settled, Live
    <2>4. PICK i \in QueuedOf(n) :
            /\ \A j \in QueuedOf(n) : j <= i
            /\ q[i].consecutive_failures = row[n].consecutive_failures
      BY <2>3, LastEventParts DEF SoloInv, NewestTells
    <2>5. i \in Nat /\ i # 1
      <3>1. k \in Nat /\ k # 0 /\ k + 1 <= i
        BY <2>1, <2>2, <2>4
      <3>2. i \in Nat
        BY <1>3 DEF QueuedOf
      <3> QED BY <3>1, <3>2
    <2>6. i - 1 \in DOMAIN q' /\ q'[i - 1] = q[i]
      <3>1. i - 1 \in DOMAIN q'
        BY <1>3, <2>5 DEF QueuedOf
      <3> QED BY <1>2, <2>5, <3>1
    <2>7. i - 1 \in QueuedOf(n)'
      BY <2>6 DEF QueuedOf
    <2>8. ASSUME NEW j \in QueuedOf(n)' PROVE j <= i - 1
      <3>1. j \in Nat /\ j + 1 <= i
        BY <2>1, <2>4
      <3> QED BY <2>5, <3>1
    <2> QED BY <1>1, <2>4, <2>6, <2>7, <2>8 DEF NewestTells
  <1>7. IntervalsKept'
    BY <1>1, <1>2 DEF SoloInv, IntervalsKept, Live, HoldsObject
  <1> QED BY <1>4, <1>5, <1>6, <1>7 DEF SoloInv

LEMMA NextSolo ==
    ASSUME Solo, Client = {}, TypeOK, SoloInv, [Next]_vars PROVE SoloInv'
  <1>1. ASSUME NEW w \in Worker, WorkerStep(w) \/ TaskDies(w) PROVE SoloInv'
    BY <1>1, WorkerSolo
  <1>2. ASSUME NEW m \in Monitor, CreateMonitor(m) \/ DeleteMonitor(m) PROVE SoloInv'
    BY <1>2, CreateMonitorSolo, DeleteMonitorSolo
  <1>3. CASE TakeEvent
    BY <1>3, TakeEventSolo
  <1>4. ASSUME UNCHANGED <<created, row, history, job, incidents_queue, deaths>>
        PROVE  SoloInv'
    <2>1. OnlyCreated' /\ HeldIsCurrent' /\ CountsConsecutive'
      BY <1>4 DEF SoloInv, OnlyCreated, HeldIsCurrent, CountsConsecutive, Live,
                  HoldsObject
    <2>2. LastEventCurrent' /\ IntervalsKept'
      BY <1>4 DEF SoloInv, LastEventCurrent, IntervalsKept, Live, HoldsObject
    <2> QED BY <2>1, <2>2 DEF SoloInv
  <1>5. ASSUME NEW m \in Monitor, Elapse(m) PROVE SoloInv'
    <2>1. UNCHANGED <<created, row, job, incidents_queue, deaths>>
      BY <1>5 DEF Elapse
    <2>2. /\ \A n \in Monitor : /\ history'[n].streak = history[n].streak
                                /\ history'[n].newest = history[n].newest
          /\ \A n \in Monitor : history[n] = NoHistory => history'[n] = NoHistory
      <3>1. history[m] \in History /\ history[m].newest # "none"
        BY <1>5 DEF Elapse, TypeOK
      <3>2. /\ history'[m].streak = history[m].streak
            /\ history'[m].newest = history[m].newest
        BY <1>5, <3>1 DEF Elapse, TypeOK, History
      <3>3. \A n \in Monitor : n # m => history'[n] = history[n]
        BY <1>5 DEF Elapse, TypeOK
      <3>4. history[m] # NoHistory
        BY <3>1 DEF NoHistory
      <3> QED BY <3>2, <3>3, <3>4
    <2>3. OnlyCreated' /\ HeldIsCurrent' /\ CountsConsecutive'
      BY <2>1, <2>2 DEF SoloInv, OnlyCreated, HeldIsCurrent, CountsConsecutive,
                        Live, HoldsObject
    <2>4. LastEventCurrent' /\ IntervalsKept'
      BY <2>1 DEF SoloInv, LastEventCurrent, IntervalsKept, Live, HoldsObject
    <2> QED BY <2>3, <2>4 DEF SoloInv
  <1>6. ASSUME NEW m \in Monitor, ManualCheck(m) \/ FlipSite(m) PROVE SoloInv'
    BY <1>4, <1>6 DEF ManualCheck, FlipSite
  <1>7. CASE BeatTick \/ UNCHANGED vars
    BY <1>4, <1>7 DEF BeatTick, vars
  <1> QED BY <1>1, <1>2, <1>3, <1>5, <1>6, <1>7 DEF Next, ServiceStep, ClientStep

LEMMA SoloInvariance ==
    ASSUME Solo, Client = {} PROVE Spec => []SoloInv
  <1>1. TypeOK /\ SoloInv /\ [Next]_vars => SoloInv'
    BY NextSolo
  <1> QED BY <1>1, InitSolo, TypeCorrect, PTL DEF Spec

LEMMA OneIsSolo ==
    ASSUME IsFiniteSet(Worker), Cardinality(Worker) = 1 PROVE Solo
  <1>1. \E x : Worker = {x}
    BY FS_Singleton
  <1> QED BY <1>1 DEF Solo

(* With one worker process and no update request in flight,                  *)
(* consecutive_failures counts the failures in a row (models.py), and the    *)
(* status flag is the newest verdict, whatever tasks die and whichever       *)
(* monitors are created, deleted or checked by hand meanwhile.               *)
THEOREM SoloCountsConsecutive ==
    ASSUME IsFiniteSet(Worker), Cardinality(Worker) = 1, Client = {}
    PROVE  Spec => []CountsConsecutive
  <1>1. SoloInv => CountsConsecutive
    BY DEF SoloInv
  <1> QED BY <1>1, OneIsSolo, SoloInvariance, PTL

(* Then also the newest queued event of a monitor tells what its row tells:  *)
(* run_single_monitor_task sends in the order in which it commits.           *)
THEOREM SoloLastEventCurrent ==
    ASSUME IsFiniteSet(Worker), Cardinality(Worker) = 1, Client = {}
    PROVE  Spec => []LastEventCurrent
  <1>1. SoloInv => LastEventCurrent
    BY DEF SoloInv
  <1> QED BY <1>1, OneIsSolo, SoloInvariance, PTL
=============================================================================
