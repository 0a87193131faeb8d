--------------------------- MODULE MonitorsProofs ---------------------------
(* Theorems about Monitors, for every set of monitors, workers and clients. *)
EXTENDS Monitors, TLAPS

-----------------------------------------------------------------------------
(* Lemmas about the operators the actions are built from. *)

LEMMA IncCounter ==
    ASSUME NEW n \in Counter PROVE Inc(n) \in Counter /\ n <= Inc(n) /\ Inc(n) # 0
  BY MonitorsAssumption DEF Counter, Inc

LEMMA IncMonotone ==
    ASSUME NEW n \in Counter, NEW k \in Counter, n <= k PROVE Inc(n) <= Inc(k)
  BY MonitorsAssumption DEF Counter, Inc

LEMMA NewRowType ==
    ASSUME NEW a \in BOOLEAN, NEW i \in Intervals PROVE NewRow(a, i) \in Row
  BY MonitorsAssumption DEF NewRow, Row, Counter

LEMMA EditedType ==
    ASSUME NEW obj \in Row, NEW a \in BOOLEAN, NEW i \in Intervals
    PROVE  Edited(obj, a, i) \in Row
  BY DEF Edited, Row

LEMMA ApplyVerdictType ==
    ASSUME NEW obj \in Row, NEW ok \in BOOLEAN PROVE ApplyVerdict(obj, ok) \in Row
  <1>1. obj.consecutive_failures \in Counter /\ obj.consecutive_successes \in Counter
    BY DEF Row
  <1>2. 0 \in Counter
    BY MonitorsAssumption DEF Counter
  <1>3. /\ Inc(obj.consecutive_failures) \in Counter
        /\ Inc(obj.consecutive_successes) \in Counter
    BY <1>1, IncCounter
  <1> QED BY <1>2, <1>3 DEF ApplyVerdict, Row

LEMMA SaveFieldsType ==
    ASSUME NEW old \in Row, NEW obj \in Row PROVE SaveFields(old, obj) \in Row
  BY DEF SaveFields, Row

LEMMA RecordedType ==
    ASSUME NEW h \in History, NEW ok \in BOOLEAN PROVE Recorded(h, ok) \in History
  BY IncCounter, MonitorsAssumption DEF Recorded, History, Counter

-----------------------------------------------------------------------------
(* Type correctness *)

LEMMA InitType == Init => TypeOK
  <1> SUFFICES ASSUME Init PROVE TypeOK
    OBVIOUS
  <1>1. 0 \in Counter /\ NoHistory \in History
    BY MonitorsAssumption DEF Counter, History, NoHistory
  <1>2. Idle \in Job
    BY DEF Job
  <1>3. deaths \in 0 .. MaxDeaths
    BY MonitorsAssumption DEF Init
  <1> QED BY <1>1, <1>2, <1>3 DEF Init, TypeOK

(* What a worker's program counter says about the rest of its record. *)
LEMMA JobFields ==
    ASSUME TypeOK, NEW w \in Worker
    PROVE  /\ job[w] \in Job
           /\ job[w].pc = "tick" =>
                job[w] = [pc |-> "tick", todo |-> job[w].todo]
                /\ job[w].todo \in SUBSET Monitor
           /\ HoldsObject(w) => job[w].monitor \in Monitor /\ job[w].obj \in Row
           /\ job[w].pc \in {"checked", "committed"} => job[w].ok \in BOOLEAN
  BY DEF TypeOK, Job, Idle, HoldsObject

(* The shapes a worker's record may take. *)
LEMMA JobShapes ==
    /\ Idle \in Job
    /\ \A todo \in SUBSET Monitor : [pc |-> "tick", todo |-> todo] \in Job
    /\ \A m \in Monitor, obj \in Row :
          [pc |-> "fetched", monitor |-> m, obj |-> obj] \in Job
    /\ \A m \in Monitor, obj \in Row, ok \in BOOLEAN :
          /\ [pc |-> "checked", monitor |-> m, obj |-> obj, ok |-> ok] \in Job
          /\ [pc |-> "committed", monitor |-> m, obj |-> obj, ok |-> ok] \in Job
  BY DEF Job

LEMMA JobUpdateType ==
    ASSUME TypeOK, NEW w \in Worker, NEW j \in Job, job' = [job EXCEPT ![w] = j]
    PROVE  job' \in [Worker -> Job]
  BY DEF TypeOK

LEMMA ClientType ==
    ASSUME TypeOK, ClientStep PROVE TypeOK'
  <1>1. ASSUME NEW m \in Monitor, DeleteMonitor(m) PROVE TypeOK'
    <2>1. NoHistory \in History
      BY MonitorsAssumption DEF NoHistory, History, Counter
    <2> QED BY <1>1, <2>1 DEF DeleteMonitor, TypeOK
  <1>2. ASSUME NEW m \in Monitor, ManualCheck(m) PROVE TypeOK'
    <2>1. Check(m) \in Task
      BY DEF Check, Task
    <2> QED BY <1>2, <2>1 DEF ManualCheck, TypeOK
  <1>3. ASSUME NEW c \in Client, EditSave(c) PROVE TypeOK'
    <2>1. edit[c] \in Edit
      BY <1>3 DEF EditSave, TypeOK
    <2>2. PICK a \in BOOLEAN, i \in Intervals, b \in BOOLEAN :
            /\ row' = [row EXCEPT ![edit[c].monitor] = Edited(edit[c].obj, a, i)]
            /\ history' = [history EXCEPT ![edit[c].monitor].due = @ /\ b]
      BY <1>3 DEF EditSave
    <2>3. Edited(edit[c].obj, a, i) \in Row
      BY <2>1, EditedType DEF Edit
    <2>4. row' \in [Monitor -> Row \cup {None}]
      BY <2>2, <2>3 DEF TypeOK
    <2>5. history' \in [Monitor -> History]
      BY <2>2 DEF TypeOK, History
    <2> QED BY <1>3, <2>4, <2>5 DEF EditSave, TypeOK
  <1>4. ASSUME NEW c \in Client, NEW m \in Monitor, EditBegin(c, m) PROVE TypeOK'
    <2>1. [monitor |-> m, obj |-> row[m]] \in Edit
      BY <1>4 DEF EditBegin, Live, TypeOK, Edit
    <2> QED BY <1>4, <2>1 DEF EditBegin, TypeOK
  <1> QED BY <1>1, <1>2, <1>3, <1>4 DEF ClientStep

LEMMA WorkerType ==
    ASSUME TypeOK, NEW w \in Worker, WorkerStep(w) \/ TaskDies(w) PROVE TypeOK'
  <1> USE JobShapes, JobUpdateType
  <1>1. CASE StartTick(w)
    <2>1. task_queue' \in Seq(Task)
      BY <1>1 DEF StartTick, TypeOK
    <2>2. {m \in Monitor : Active(m)} \in SUBSET Monitor
      OBVIOUS
    <2>3. job' \in [Worker -> Job]
      BY <1>1, <2>2 DEF StartTick
    <2> QED BY <1>1, <2>1, <2>3 DEF StartTick, TypeOK
  <1>2. CASE ScheduleOne(w)
    <2>1. PICK m \in job[w].todo :
            /\ task_queue' = IF Due(m) THEN Append(task_queue, Check(m))
                                       ELSE task_queue
            /\ job' = [job EXCEPT ![w].todo = @ \ {m}]
      BY <1>2 DEF ScheduleOne
    <2>2. /\ job[w] = [pc |-> "tick", todo |-> job[w].todo]
          /\ job[w].todo \in SUBSET Monitor
      BY <1>2, JobFields DEF ScheduleOne
    <2>3. Check(m) \in Task
      BY <2>2 DEF Check, Task
    <2>4. task_queue' \in Seq(Task)
      BY <2>1, <2>3 DEF TypeOK
    <2>5. job' = [job EXCEPT ![w] = [pc |-> "tick", todo |-> job[w].todo \ {m}]]
      <3> DEFINE rest == job[w].todo \ {m}
      <3>1. [job[w] EXCEPT !.todo = rest] = [pc |-> "tick", todo |-> rest]
        BY <2>2
      <3> QED BY <2>1, <3>1, Zenon
    <2>6. job' \in [Worker -> Job]
      BY <2>2, <2>5
    <2> QED BY <1>2, <2>4, <2>6 DEF ScheduleOne, TypeOK
  <1>3. CASE EndTick(w)
    BY <1>3 DEF EndTick, TypeOK
  <1>4. CASE StartCheck(w)
    <2> DEFINE m == Head(task_queue).monitor
    <2>1. task_queue' \in Seq(Task)
      BY <1>4 DEF StartCheck, TypeOK
    <2>2. Head(task_queue) \in Task
      BY <1>4 DEF StartCheck, TypeOK
    <2>3. m \in Monitor
      BY <1>4, <2>2 DEF StartCheck, Task, Tick
    <2>4. Live(m) => row[m] \in Row
      BY <2>3 DEF Live, TypeOK
    <2>5. job' \in [Worker -> Job]
      BY <1>4, <2>3, <2>4 DEF StartCheck
    <2> QED BY <1>4, <2>1, <2>5 DEF StartCheck, TypeOK
  <1>5. CASE RunCheck(w)
    <2>1. job[w].monitor \in Monitor /\ job[w].obj \in Row
      BY <1>5, JobFields DEF RunCheck, HoldsObject
    <2>2. site_up[job[w].monitor] \in BOOLEAN
      BY <2>1 DEF TypeOK
    <2>3. job' \in [Worker -> Job]
      BY <1>5, <2>1, <2>2 DEF RunCheck
    <2> QED BY <1>5, <2>3 DEF RunCheck, TypeOK
  <1>6. CASE Commit(w)
    <2> DEFINE m == job[w].monitor
               obj == ApplyVerdict(job[w].obj, job[w].ok)
    <2>1. m \in Monitor /\ job[w].ok \in BOOLEAN /\ obj \in Row
      BY <1>6, JobFields, ApplyVerdictType DEF Commit, HoldsObject
    <2>2. row[m] \in Row
      BY <1>6, <2>1 DEF Commit, Live, TypeOK
    <2>3. row' \in [Monitor -> Row \cup {None}]
      BY <1>6, <2>1, <2>2, SaveFieldsType DEF Commit, TypeOK
    <2>4. Recorded(history[m], job[w].ok) \in History
      BY <2>1, RecordedType DEF TypeOK
    <2>5. history' \in [Monitor -> History]
      BY <1>6, <2>4 DEF Commit, TypeOK
    <2>6. Inc(failed[m]) \in Counter
      BY <2>1, IncCounter DEF TypeOK
    <2>7. failed' \in [Monitor -> Counter]
      BY <1>6, <2>6 DEF Commit, TypeOK
    <2>8. job' \in [Worker -> Job]
      BY <1>6, <2>1 DEF Commit
    <2> QED BY <1>6, <2>3, <2>5, <2>7, <2>8 DEF Commit, TypeOK
  <1>7. CASE CommitFails(w)
    BY <1>7 DEF CommitFails, TypeOK
  <1>8. CASE Publish(w)
    <2>1. job[w].monitor \in Monitor /\ job[w].obj \in Row /\ job[w].ok \in BOOLEAN
      BY <1>8, JobFields DEF Publish, HoldsObject
    <2>2. EventOf(job[w]) \in Event
      BY <2>1 DEF EventOf, Event, Row
    <2>3. incidents_queue' \in Seq(Event)
      BY <1>8, <2>2 DEF Publish, TypeOK
    <2> QED BY <1>8, <2>3 DEF Publish, TypeOK
  <1>9. CASE TaskDies(w)
    <2>1. deaths' \in 0 .. MaxDeaths
      BY <1>9, MonitorsAssumption DEF TaskDies, TypeOK
    <2> QED BY <1>9, <2>1 DEF TaskDies, TypeOK
  <1> QED BY <1>1, <1>2, <1>3, <1>4, <1>5, <1>6, <1>7, <1>8, <1>9 DEF WorkerStep

LEMMA EnvironmentType ==
    ASSUME TypeOK,
           \/ BeatTick \/ TakeEvent
           \/ \E m \in Monitor : CreateMonitor(m) \/ FlipSite(m) \/ Elapse(m)
    PROVE  TypeOK'
  <1>1. CASE BeatTick
    <2>1. Tick \in Task
      BY DEF Task
    <2> QED BY <1>1, <2>1 DEF BeatTick, TypeOK
  <1>2. CASE TakeEvent
    BY <1>2 DEF TakeEvent, TypeOK
  <1>3. ASSUME NEW m \in Monitor, CreateMonitor(m) PROVE TypeOK'
    <2>1. row' \in [Monitor -> Row \cup {None}]
      BY <1>3, NewRowType DEF CreateMonitor, TypeOK
    <2> QED BY <1>3, <2>1 DEF CreateMonitor, TypeOK
  <1>4. ASSUME NEW m \in Monitor, FlipSite(m) PROVE TypeOK'
    BY <1>4 DEF FlipSite, TypeOK
  <1>5. ASSUME NEW m \in Monitor, Elapse(m) PROVE TypeOK'
    <2>1. [history[m] EXCEPT !.due = TRUE] \in History
      BY DEF TypeOK, History
    <2>2. history' \in [Monitor -> History]
      BY <1>5, <2>1 DEF Elapse, TypeOK
    <2> QED BY <1>5, <2>2 DEF Elapse, TypeOK
  <1> QED BY <1>1, <1>2, <1>3, <1>4, <1>5

LEMMA NextType == TypeOK /\ [Next]_vars => TypeOK'
  <1> SUFFICES ASSUME TypeOK, [Next]_vars PROVE TypeOK'
    OBVIOUS
  <1>1. CASE Next
    BY <1>1, ClientType, WorkerType, EnvironmentType DEF Next, ServiceStep
  <1>2. CASE UNCHANGED vars
    BY <1>2 DEF vars, TypeOK
  <1> QED BY <1>1, <1>2

(* Every reachable state has the types the module declares: rows are whole,  *)
(* and a worker past Monitor.objects.get holds a whole object.               *)
THEOREM TypeCorrect == Spec => []TypeOK
  BY InitType, NextType, PTL DEF Spec

-----------------------------------------------------------------------------
(* No counter shows more failures than there were *)

LEMMA InitBacked == Init => CountBacked
  BY DEF Init, CountBacked, RowsBacked, JobsBacked, EditsBacked, EventsBacked,
         Live, HoldsObject, Idle

LEMMA VerdictBacked ==
    ASSUME NEW obj \in Row, NEW ok \in BOOLEAN, NEW n \in Counter,
           obj.consecutive_failures <= n
    PROVE  ApplyVerdict(obj, ok).consecutive_failures <= IF ok THEN n ELSE Inc(n)
  <1>1. obj.consecutive_failures \in Counter
    BY DEF Row
  <1>2. CASE ok
    <2>1. ApplyVerdict(obj, ok).consecutive_failures = 0
      BY <1>2 DEF ApplyVerdict, Row
    <2>2. 0 <= n
      BY DEF Counter
    <2> QED BY <1>2, <2>1, <2>2, Zenon
  <1>3. CASE ~ok
    <2>1. ApplyVerdict(obj, ok).consecutive_failures = Inc(obj.consecutive_failures)
      BY <1>3 DEF ApplyVerdict, Row
    <2>2. Inc(obj.consecutive_failures) <= Inc(n)
      BY <1>1, IncMonotone
    <2> QED BY <1>3, <2>1, <2>2, Zenon
  <1> QED BY <1>2, <1>3, Zenon

LEMMA ClientBacked ==
    ASSUME TypeOK, CountBacked, ClientStep PROVE CountBacked'
  <1> USE DEF CountBacked
  <1>1. ASSUME NEW m \in Monitor, DeleteMonitor(m) PROVE CountBacked'
    BY <1>1 DEF DeleteMonitor, RowsBacked, JobsBacked, EditsBacked, EventsBacked,
                Backed, Live, HoldsObject, TypeOK
  <1>2. ASSUME NEW m \in Monitor, ManualCheck(m) PROVE CountBacked'
    BY <1>2 DEF ManualCheck, RowsBacked, JobsBacked, EditsBacked, EventsBacked,
                Backed, Live, HoldsObject
  <1>3. ASSUME NEW c \in Client, EditSave(c) PROVE CountBacked'
    <2>1. edit[c] \in Edit
      BY <1>3 DEF EditSave, TypeOK
    <2>2. PICK a \in BOOLEAN, i \in Intervals :
            row' = [row EXCEPT ![edit[c].monitor] = Edited(edit[c].obj, a, i)]
      BY <1>3 DEF EditSave
    <2>3. Edited(edit[c].obj, a, i).consecutive_failures
            = edit[c].obj.consecutive_failures
      BY <2>1 DEF Edited, Edit, Row
    <2>4. RowsBacked'
      BY <1>3, <2>1, <2>2, <2>3
         DEF EditSave, RowsBacked, EditsBacked, Backed, Live, Edit, TypeOK
    <2>5. JobsBacked' /\ EventsBacked'
      BY <1>3 DEF EditSave, JobsBacked, EventsBacked, Backed, HoldsObject
    <2>6. EditsBacked'
      BY <1>3 DEF EditSave, EditsBacked, Backed, TypeOK
    <2> QED BY <2>4, <2>5, <2>6
  <1>4. ASSUME NEW c \in Client, NEW m \in Monitor, EditBegin(c, m)
        PROVE  CountBacked'
    <2>1. EditsBacked'
      BY <1>4 DEF EditBegin, EditsBacked, RowsBacked, Backed, Live, TypeOK
    <2>2. RowsBacked' /\ JobsBacked' /\ EventsBacked'
      BY <1>4 DEF EditBegin, RowsBacked, JobsBacked, EventsBacked, Backed, Live,
                  HoldsObject
    <2> QED BY <2>1, <2>2
  <1> QED BY <1>1, <1>2, <1>3, <1>4 DEF ClientStep

(* A worker that goes idle, or carries its object on, disturbs nothing. *)
LEMMA JobBackedStep ==
    ASSUME TypeOK, CountBacked, NEW w \in Worker, NEW j \in Job,
           job' = [job EXCEPT ![w] = j],
           j.pc \in {"fetched", "checked", "committed"} => Backed(j.monitor, j.obj),
           UNCHANGED <<row, failed, edit>>
    PROVE  RowsBacked' /\ JobsBacked' /\ EditsBacked'
  BY DEF CountBacked, RowsBacked, JobsBacked, EditsBacked, Backed, Live,
         HoldsObject, TypeOK

LEMMA CommitBacked ==
    ASSUME TypeOK, CountBacked, NEW w \in Worker, Commit(w) PROVE CountBacked'
  <1> DEFINE m == job[w].monitor
             obj == ApplyVerdict(job[w].obj, job[w].ok)
             done == [pc |-> "committed", monitor |-> m, obj |-> obj,
                      ok |-> job[w].ok]
  <1>1. /\ m \in Monitor /\ job[w].ok \in BOOLEAN /\ job[w].obj \in Row
        /\ obj \in Row /\ done \in Job
    BY JobFields, ApplyVerdictType, JobShapes DEF Commit, HoldsObject
  <1>2. \A n \in Monitor : /\ failed[n] \in Counter /\ failed'[n] \in Counter
                           /\ failed[n] <= failed'[n]
    BY <1>1, IncCounter DEF Commit, TypeOK, Counter
  <1>3. failed'[m] = IF job[w].ok THEN failed[m] ELSE Inc(failed[m])
    BY <1>1 DEF Commit, TypeOK
  <1>4. obj.consecutive_failures <= failed'[m]
    <2>1. Backed(m, job[w].obj)
      BY DEF CountBacked, JobsBacked, Commit, HoldsObject
    <2> QED BY <1>1, <1>2, <1>3, <2>1, VerdictBacked DEF Backed
  <1>5. \A n \in Monitor, x \in Counter : x <= failed[n] => x <= failed'[n]
    BY <1>2 DEF Counter
  <1>6. RowsBacked'
    <2> SUFFICES ASSUME NEW n \in Monitor, row'[n] # None
                 PROVE  row'[n].consecutive_failures <= failed'[n]
      BY DEF RowsBacked, Backed, Live
    <2>1. CASE n = m
      <3>1. row[m] \in Row
        BY <1>1 DEF Commit, Live, TypeOK
      <3>2. row'[m] = SaveFields(row[m], obj)
        BY <1>1 DEF Commit, TypeOK
      <3>3. row'[m].consecutive_failures = obj.consecutive_failures
        BY <3>1, <3>2 DEF SaveFields, Row
      <3> QED BY <1>4, <2>1, <3>3
    <2>2. CASE n # m
      <3>1. row'[n] = row[n]
        BY <2>2 DEF Commit, TypeOK
      <3>2. row[n] \in Row
        BY <3>1 DEF TypeOK
      <3>3. row[n].consecutive_failures \in Counter
        BY <3>2 DEF Row
      <3>4. row[n].consecutive_failures <= failed[n]
        BY <3>1 DEF CountBacked, RowsBacked, Backed, Live
      <3> QED BY <1>5, <3>1, <3>3, <3>4
    <2> QED BY <2>1, <2>2
  <1>7. JobsBacked'
    <2> SUFFICES ASSUME NEW v \in Worker, HoldsObject(v)'
                 PROVE  job'[v].obj.consecutive_failures
                          <= failed'[job'[v].monitor]
      BY DEF JobsBacked, Backed
    <2>1. CASE v = w
      <3>1. job'[w] = done
        BY DEF Commit, TypeOK
      <3> QED BY <1>4, <2>1, <3>1
    <2>2. CASE v # w
      <3>1. job'[v] = job[v]
        BY <2>2 DEF Commit, TypeOK
      <3>2. HoldsObject(v)
        BY <3>1 DEF HoldsObject
      <3>3. job[v].monitor \in Monitor /\ job[v].obj.consecutive_failures \in Counter
        BY <3>2, JobFields DEF Row
      <3>4. job[v].obj.consecutive_failures <= failed[job[v].monitor]
        BY <3>2 DEF CountBacked, JobsBacked, Backed
      <3> QED BY <1>5, <3>1, <3>3, <3>4
    <2> QED BY <2>1, <2>2
  <1>8. EditsBacked'
    <2> SUFFICES ASSUME NEW c \in Client, edit[c] # None
                 PROVE  edit[c].obj.consecutive_failures
                          <= failed'[edit[c].monitor]
      BY DEF EditsBacked, Backed, Commit
    <2>1. edit[c].monitor \in Monitor /\ edit[c].obj.consecutive_failures \in Counter
      BY DEF TypeOK, Edit, Row
    <2>2. edit[c].obj.consecutive_failures <= failed[edit[c].monitor]
      BY DEF CountBacked, EditsBacked, Backed
    <2> QED BY <1>5, <2>1, <2>2
  <1>9. EventsBacked'
    <2> SUFFICES ASSUME NEW i \in DOMAIN incidents_queue
                 PROVE  incidents_queue[i].consecutive_failures
                          <= failed'[incidents_queue[i].monitor]
      BY DEF EventsBacked, Backed, Commit
    <2>1. incidents_queue[i] \in Event
      BY DEF TypeOK
    <2>2. incidents_queue[i].consecutive_failures
            <= failed[incidents_queue[i].monitor]
      BY DEF CountBacked, EventsBacked, Backed
    <2> QED BY <1>5, <2>1, <2>2 DEF Event
  <1> QED BY <1>6, <1>7, <1>8, <1>9 DEF CountBacked

LEMMA WorkerBacked ==
    ASSUME TypeOK, CountBacked, NEW w \in Worker, WorkerStep(w) \/ TaskDies(w)
    PROVE  CountBacked'
  <1>1. ASSUME job' = [job EXCEPT ![w] = Idle],
               UNCHANGED <<row, failed, edit>>
        PROVE  RowsBacked' /\ JobsBacked' /\ EditsBacked'
    BY <1>1, JobBackedStep, JobShapes DEF Idle
  <1>2. ASSUME UNCHANGED <<failed, incidents_queue>> PROVE EventsBacked'
    BY <1>2 DEF CountBacked, EventsBacked, Backed
  <1>3. CASE StartTick(w)
    <2>1. [pc |-> "tick", todo |-> {m \in Monitor : Active(m)}] \in Job
      BY JobShapes
    <2> QED BY <1>2, <1>3, <2>1, JobBackedStep DEF StartTick, CountBacked
  <1>4. CASE ScheduleOne(w)
    <2>1. PICK m \in job[w].todo : job' = [job EXCEPT ![w].todo = @ \ {m}]
      BY <1>4 DEF ScheduleOne
    <2>2. \A v \in Worker : /\ job'[v].pc = job[v].pc
                            /\ v # w => job'[v] = job[v]
      <3>1. job'[w] = [job[w] EXCEPT !.todo = @ \ {m}]
        BY <2>1 DEF TypeOK
      <3>2. job[w] = [pc |-> "tick", todo |-> job[w].todo]
        BY <1>4, JobFields DEF ScheduleOne
      <3>3. job'[w].pc = job[w].pc
        BY <3>1, <3>2
      <3> QED BY <2>1, <3>3 DEF TypeOK
    <2>3. JobsBacked'
      BY <1>4, <2>2 DEF ScheduleOne, CountBacked, JobsBacked, Backed, HoldsObject
    <2>4. RowsBacked' /\ EditsBacked'
      BY <1>4 DEF ScheduleOne, CountBacked, RowsBacked, EditsBacked, Backed, Live
    <2> QED BY <1>2, <1>4, <2>3, <2>4 DEF ScheduleOne, CountBacked
  <1>5. CASE EndTick(w)
    BY <1>1, <1>2, <1>5 DEF EndTick, CountBacked
  <1>6. CASE StartCheck(w)
    <2> DEFINE m == Head(task_queue).monitor
    <2>1. m \in Monitor
      <3>1. Head(task_queue) \in Task
        BY <1>6 DEF StartCheck, TypeOK
      <3> QED BY <1>6, <3>1 DEF StartCheck, Task, Tick
    <2>2. CASE Live(m)
      <3>1. row[m] \in Row
        BY <2>1, <2>2 DEF Live, TypeOK
      <3>2. Backed(m, row[m])
        BY <2>1, <2>2 DEF CountBacked, RowsBacked
      <3>3. [pc |-> "fetched", monitor |-> m, obj |-> row[m]] \in Job
        BY <2>1, <3>1, JobShapes
      <3>4. job' = [job EXCEPT ![w] =
                       [pc |-> "fetched", monitor |-> m, obj |-> row[m]]]
        BY <1>6, <2>2 DEF StartCheck
      <3>5. RowsBacked' /\ JobsBacked' /\ EditsBacked'
        BY <1>6, <3>2, <3>3, <3>4, JobBackedStep DEF StartCheck
      <3> QED BY <1>2, <1>6, <3>5 DEF StartCheck, CountBacked
    <2>3. CASE ~Live(m)
      BY <1>1, <1>2, <1>6, <2>3 DEF StartCheck, CountBacked
    <2> QED BY <2>2, <2>3
  <1>7. CASE RunCheck(w)
    <2> DEFINE j == [pc |-> "checked", monitor |-> job[w].monitor,
                     obj |-> job[w].obj, ok |-> site_up[job[w].monitor]]
    <2>1. job[w].monitor \in Monitor /\ job[w].obj \in Row
      BY <1>7, JobFields DEF RunCheck, HoldsObject
    <2>2. j \in Job
      BY <2>1, JobShapes DEF TypeOK
    <2>3. Backed(j.monitor, j.obj)
      BY <1>7 DEF RunCheck, CountBacked, JobsBacked, HoldsObject
    <2>4. RowsBacked' /\ JobsBacked' /\ EditsBacked'
      BY <1>7, <2>2, <2>3, JobBackedStep DEF RunCheck
    <2> QED BY <1>2, <1>7, <2>4 DEF RunCheck, CountBacked
  <1>8. CASE Commit(w)
    BY <1>8, CommitBacked
  <1>9. CASE CommitFails(w)
    BY <1>1, <1>2, <1>9 DEF CommitFails, CountBacked
  <1>10. CASE Publish(w)
    <2>1. Backed(EventOf(job[w]).monitor, EventOf(job[w]))
      BY <1>10 DEF Publish, CountBacked, JobsBacked, HoldsObject, EventOf, Backed
    <2>2. EventsBacked'
      BY <1>10, <2>1 DEF Publish, CountBacked, EventsBacked, Backed, TypeOK
    <2> QED BY <1>1, <1>10, <2>2 DEF Publish, CountBacked
  <1>11. CASE TaskDies(w)
    BY <1>1, <1>2, <1>11 DEF TaskDies, CountBacked
  <1> QED BY <1>3, <1>4, <1>5, <1>6, <1>7, <1>8, <1>9, <1>10, <1>11 DEF WorkerStep

LEMMA EnvironmentBacked ==
    ASSUME TypeOK, CountBacked,
           \/ BeatTick \/ TakeEvent
           \/ \E m \in Monitor : CreateMonitor(m) \/ FlipSite(m) \/ Elapse(m)
    PROVE  CountBacked'
  <1> USE DEF CountBacked
  <1>1. CASE BeatTick
    BY <1>1 DEF BeatTick, RowsBacked, JobsBacked, EditsBacked, EventsBacked, Backed,
                Live, HoldsObject
  <1>2. CASE TakeEvent
    <2>1. EventsBacked'
      BY <1>2 DEF TakeEvent, EventsBacked, Backed, TypeOK
    <2> QED BY <1>2, <2>1 DEF TakeEvent, RowsBacked, JobsBacked, EditsBacked, Backed,
                              Live, HoldsObject
  <1>3. ASSUME NEW m \in Monitor, CreateMonitor(m) PROVE CountBacked'
    <2>1. PICK a \in BOOLEAN, i \in Intervals : row' = [row EXCEPT ![m] = NewRow(a, i)]
      BY <1>3 DEF CreateMonitor
    <2>2. NewRow(a, i).consecutive_failures = 0 /\ 0 <= failed[m]
      BY DEF NewRow, TypeOK, Counter
    <2>3. RowsBacked'
      BY <1>3, <2>1, <2>2 DEF CreateMonitor, RowsBacked, Backed, Live, TypeOK
    <2> QED BY <1>3, <2>3 DEF CreateMonitor, JobsBacked, EditsBacked, EventsBacked,
                              Backed, HoldsObject
  <1>4. ASSUME NEW m \in Monitor, FlipSite(m) \/ Elapse(m) PROVE CountBacked'
    BY <1>4 DEF FlipSite, Elapse, RowsBacked, JobsBacked, EditsBacked, EventsBacked,
                Backed, Live, HoldsObject
  <1> QED BY <1>1, <1>2, <1>3, <1>4

LEMMA NextBacked == TypeOK /\ CountBacked /\ [Next]_vars => CountBacked'
  <1> SUFFICES ASSUME TypeOK, CountBacked, [Next]_vars PROVE CountBacked'
    OBVIOUS
  <1>1. CASE Next
    BY <1>1, ClientBacked, WorkerBacked, EnvironmentBacked DEF Next, ServiceStep
  <1>2. CASE UNCHANGED vars
    BY <1>2 DEF vars, CountBacked, RowsBacked, JobsBacked, EditsBacked, EventsBacked,
                Backed, Live, HoldsObject
  <1> QED BY <1>1, <1>2

(* Under every interleaving of any number of workers and requests, no        *)
(* counter in the table, in memory or in an event exceeds the failed checks. *)
THEOREM CountsAreBacked == Spec => []CountBacked
  BY InitBacked, NextBacked, TypeCorrect, PTL DEF Spec

-----------------------------------------------------------------------------
(* The status flag and the counter agree *)

LEMMA InitAgree == Init => UpMeansNoFailures
  BY DEF Init, UpMeansNoFailures, RowsAgree, JobsAgree, EditsAgree, EventsAgree,
         Live, HoldsObject, Idle

LEMMA VerdictAgrees ==
    ASSUME NEW obj \in Row, NEW ok \in BOOLEAN
    PROVE  /\ Agrees(ApplyVerdict(obj, ok).is_currently_up, ApplyVerdict(obj, ok))
           /\ Agrees(ok, ApplyVerdict(obj, ok))
  <1>1. obj.consecutive_failures \in Counter
    BY DEF Row
  <1>2. CASE ok = TRUE
    <2>1. /\ ApplyVerdict(obj, ok).consecutive_failures = 0
          /\ ApplyVerdict(obj, ok).is_currently_up = TRUE
      BY <1>2 DEF ApplyVerdict, Row
    <2> QED BY <1>2, <2>1 DEF Agrees
  <1>3. CASE ok = FALSE
    <2>1. /\ ApplyVerdict(obj, ok).consecutive_failures = Inc(obj.consecutive_failures)
          /\ ApplyVerdict(obj, ok).is_currently_up = FALSE
      BY <1>3 DEF ApplyVerdict, Row
    <2>2. Inc(obj.consecutive_failures) # 0
      BY <1>1, IncCounter
    <2> QED BY <1>3, <2>1, <2>2 DEF Agrees
  <1> QED BY <1>2, <1>3

(* A worker that goes idle, or carries its object on, disturbs nothing. *)
LEMMA JobAgreeStep ==
    ASSUME TypeOK, UpMeansNoFailures, NEW w \in Worker, NEW j \in Job,
           job' = [job EXCEPT ![w] = j],
           j.pc \in {"fetched", "checked", "committed"}
               => Agrees(j.obj.is_currently_up, j.obj),
           j.pc = "committed" => Agrees(j.ok, j.obj)
    PROVE  JobsAgree'
  <1> SUFFICES ASSUME NEW v \in Worker
               PROVE  /\ HoldsObject(v)' =>
                            Agrees(job'[v].obj.is_currently_up, job'[v].obj)
                      /\ job'[v].pc = "committed" => Agrees(job'[v].ok, job'[v].obj)
    BY DEF JobsAgree, Agrees
  <1>1. CASE v = w
    <2>1. job'[v] = j
      BY <1>1 DEF TypeOK
    <2> QED BY <2>1 DEF HoldsObject
  <1>2. CASE v # w
    <2>1. job'[v] = job[v]
      BY <1>2 DEF TypeOK
    <2> QED BY <2>1 DEF HoldsObject, UpMeansNoFailures, JobsAgree
  <1> QED BY <1>1, <1>2

LEMMA ClientAgrees ==
    ASSUME TypeOK, UpMeansNoFailures, ClientStep PROVE UpMeansNoFailures'
  <1> USE DEF UpMeansNoFailures
  <1>1. ASSUME NEW m \in Monitor, DeleteMonitor(m) PROVE UpMeansNoFailures'
    BY <1>1 DEF DeleteMonitor, RowsAgree, JobsAgree, EditsAgree, EventsAgree,
                Agrees, Live, HoldsObject, TypeOK
  <1>2. ASSUME NEW m \in Monitor, ManualCheck(m) PROVE UpMeansNoFailures'
    BY <1>2 DEF ManualCheck, RowsAgree, JobsAgree, EditsAgree, EventsAgree,
                Agrees, Live, HoldsObject
  <1>3. ASSUME NEW c \in Client, EditSave(c) PROVE UpMeansNoFailures'
    <2>1. edit[c] \in Edit
      BY <1>3 DEF EditSave, TypeOK
    <2>2. PICK a \in BOOLEAN, i \in Intervals :
            row' = [row EXCEPT ![edit[c].monitor] = Edited(edit[c].obj, a, i)]
      BY <1>3 DEF EditSave
    <2>3. /\ Edited(edit[c].obj, a, i).consecutive_failures
               = edit[c].obj.consecutive_failures
          /\ Edited(edit[c].obj, a, i).is_currently_up
               = edit[c].obj.is_currently_up
      BY <2>1 DEF Edited, Edit, Row
    <2>4. Agrees(Edited(edit[c].obj, a, i).is_currently_up, Edited(edit[c].obj, a, i))
      BY <1>3, <2>3 DEF EditSave, EditsAgree, Agrees
    <2>5. RowsAgree'
      BY <1>3, <2>1, <2>2, <2>4 DEF EditSave, RowsAgree, Agrees, Live, Edit, TypeOK
    <2>6. JobsAgree' /\ EventsAgree'
      BY <1>3 DEF EditSave, JobsAgree, EventsAgree, Agrees, HoldsObject
    <2>7. EditsAgree'
      BY <1>3 DEF EditSave, EditsAgree, Agrees, TypeOK
    <2> QED BY <2>5, <2>6, <2>7
  <1>4. ASSUME NEW c \in Client, NEW m \in Monitor, EditBegin(c, m)
        PROVE  UpMeansNoFailures'
    <2>1. EditsAgree'
      BY <1>4 DEF EditBegin, EditsAgree, RowsAgree, Agrees, Live, TypeOK
    <2>2. RowsAgree' /\ JobsAgree' /\ EventsAgree'
      BY <1>4 DEF EditBegin, RowsAgree, JobsAgree, EventsAgree, Agrees, Live,
                  HoldsObject
    <2> QED BY <2>1, <2>2
  <1> QED BY <1>1, <1>2, <1>3, <1>4 DEF ClientStep

LEMMA CommitAgrees ==
    ASSUME TypeOK, UpMeansNoFailures, NEW w \in Worker, Commit(w)
    PROVE  UpMeansNoFailures'
  <1> DEFINE m == job[w].monitor
             obj == ApplyVerdict(job[w].obj, job[w].ok)
             done == [pc |-> "committed", monitor |-> m, obj |-> obj,
                      ok |-> job[w].ok]
  <1>1. /\ m \in Monitor /\ job[w].ok \in BOOLEAN /\ job[w].obj \in Row
        /\ obj \in Row /\ done \in Job
    BY JobFields, ApplyVerdictType, JobShapes DEF Commit, HoldsObject
  <1>2. Agrees(obj.is_currently_up, obj) /\ Agrees(job[w].ok, obj)
    BY <1>1, VerdictAgrees
  <1>3. RowsAgree'
    <2>1. row[m] \in Row
      BY <1>1 DEF Commit, Live, TypeOK
    <2>2. row' = [row EXCEPT ![m] = SaveFields(row[m], obj)]
      BY DEF Commit
    <2>3. /\ SaveFields(row[m], obj).consecutive_failures = obj.consecutive_failures
          /\ SaveFields(row[m], obj).is_currently_up = obj.is_currently_up
      BY <2>1 DEF SaveFields, Row
    <2>4. Agrees(SaveFields(row[m], obj).is_currently_up, SaveFields(row[m], obj))
      BY <1>2, <2>3 DEF Agrees
    <2> QED BY <1>1, <2>2, <2>4
            DEF UpMeansNoFailures, RowsAgree, Agrees, Live, TypeOK
  <1>4. JobsAgree'
    <2>1. job' = [job EXCEPT ![w] = done]
      BY DEF Commit
    <2>2. Agrees(done.obj.is_currently_up, done.obj) /\ Agrees(done.ok, done.obj)
      BY <1>2
    <2> QED BY <1>1, <2>1, <2>2, JobAgreeStep
  <1>5. EditsAgree' /\ EventsAgree'
    BY DEF Commit, UpMeansNoFailures, EditsAgree, EventsAgree, Agrees
  <1> QED BY <1>3, <1>4, <1>5 DEF UpMeansNoFailures

LEMMA WorkerAgrees ==
    ASSUME TypeOK, UpMeansNoFailures, NEW w \in Worker, WorkerStep(w) \/ TaskDies(w)
    PROVE  UpMeansNoFailures'
  <1>1. ASSUME job' = [job EXCEPT ![w] = Idle] PROVE JobsAgree'
    BY <1>1, JobAgreeStep, JobShapes DEF Idle
  <1>2. ASSUME UNCHANGED <<row, edit>> PROVE RowsAgree' /\ EditsAgree'
    BY <1>2 DEF UpMeansNoFailures, RowsAgree, EditsAgree, Agrees, Live
  <1>3. ASSUME UNCHANGED incidents_queue PROVE EventsAgree'
    BY <1>3 DEF UpMeansNoFailures, EventsAgree, Agrees
  <1>4. CASE StartTick(w)
    <2>1. [pc |-> "tick", todo |-> {m \in Monitor : Active(m)}] \in Job
      BY JobShapes
    <2>2. JobsAgree'
      BY <1>4, <2>1, JobAgreeStep DEF StartTick
    <2> QED BY <1>2, <1>3, <1>4, <2>2 DEF StartTick, UpMeansNoFailures
  <1>5. CASE ScheduleOne(w)
    <2>1. PICK m \in job[w].todo : job' = [job EXCEPT ![w].todo = @ \ {m}]
      BY <1>5 DEF ScheduleOne
    <2>2. job[w] = [pc |-> "tick", todo |-> job[w].todo]
      BY <1>5, JobFields DEF ScheduleOne
    <2>3. [job[w] EXCEPT !.todo = job[w].todo \ {m}]
            = [pc |-> "tick", todo |-> job[w].todo \ {m}]
      BY <2>2
    <2>4. job' = [job EXCEPT ![w] = [pc |-> "tick", todo |-> job[w].todo \ {m}]]
      BY <2>1, <2>3, Zenon
    <2>5. [pc |-> "tick", todo |-> job[w].todo \ {m}] \in Job
      BY <1>5, JobFields, JobShapes DEF ScheduleOne
    <2>6. JobsAgree'
      BY <2>4, <2>5, JobAgreeStep
    <2> QED BY <1>2, <1>3, <1>5, <2>6 DEF ScheduleOne, UpMeansNoFailures
  <1>6. CASE EndTick(w)
    BY <1>1, <1>2, <1>3, <1>6 DEF EndTick, UpMeansNoFailures
  <1>7. CASE StartCheck(w)
    <2> DEFINE m == Head(task_queue).monitor
    <2>1. m \in Monitor
      <3>1. Head(task_queue) \in Task
        BY <1>7 DEF StartCheck, TypeOK
      <3> QED BY <1>7, <3>1 DEF StartCheck, Task, Tick
    <2>2. CASE Live(m)
      <3>1. row[m] \in Row
        BY <2>1, <2>2 DEF Live, TypeOK
      <3>2. Agrees(row[m].is_currently_up, row[m])
        BY <2>1, <2>2 DEF UpMeansNoFailures, RowsAgree
      <3>3. [pc |-> "fetched", monitor |-> m, obj |-> row[m]] \in Job
        BY <2>1, <3>1, JobShapes
      <3>4. job' = [job EXCEPT ![w] =
                       [pc |-> "fetched", monitor |-> m, obj |-> row[m]]]
        BY <1>7, <2>2 DEF StartCheck
      <3>5. JobsAgree'
        BY <3>2, <3>3, <3>4, JobAgreeStep
      <3> QED BY <1>2, <1>3, <1>7, <3>5 DEF StartCheck, UpMeansNoFailures
    <2>3. CASE ~Live(m)
      BY <1>1, <1>2, <1>3, <1>7, <2>3 DEF StartCheck, UpMeansNoFailures
    <2> QED BY <2>2, <2>3
  <1>8. CASE RunCheck(w)
    <2> DEFINE j == [pc |-> "checked", monitor |-> job[w].monitor,
                     obj |-> job[w].obj, ok |-> site_up[job[w].monitor]]
    <2>1. job[w].monitor \in Monitor /\ job[w].obj \in Row
      BY <1>8, JobFields DEF RunCheck, HoldsObject
    <2>2. j \in Job
      BY <2>1, JobShapes DEF TypeOK
    <2>3. Agrees(job[w].obj.is_currently_up, job[w].obj)
      BY <1>8 DEF RunCheck, UpMeansNoFailures, JobsAgree, HoldsObject
    <2>4. JobsAgree'
      BY <1>8, <2>2, <2>3, JobAgreeStep DEF RunCheck
    <2> QED BY <1>2, <1>3, <1>8, <2>4 DEF RunCheck, UpMeansNoFailures
  <1>9. CASE Commit(w)
    BY <1>9, CommitAgrees
  <1>10. CASE CommitFails(w)
    BY <1>1, <1>2, <1>3, <1>10 DEF CommitFails, UpMeansNoFailures
  <1>11. CASE Publish(w)
    <2>1. Agrees(EventOf(job[w]).is_success, EventOf(job[w]))
      BY <1>11 DEF Publish, UpMeansNoFailures, JobsAgree, EventOf, Agrees
    <2>2. EventsAgree'
      BY <1>11, <2>1 DEF Publish, UpMeansNoFailures, EventsAgree, Agrees, TypeOK
    <2> QED BY <1>1, <1>2, <1>11, <2>2 DEF Publish, UpMeansNoFailures
  <1>12. CASE TaskDies(w)
    BY <1>1, <1>2, <1>3, <1>12 DEF TaskDies, UpMeansNoFailures
  <1> QED BY <1>4, <1>5, <1>6, <1>7, <1>8, <1>9, <1>10, <1>11, <1>12 DEF WorkerStep

LEMMA EnvironmentAgrees ==
    ASSUME TypeOK, UpMeansNoFailures,
           \/ BeatTick \/ TakeEvent
           \/ \E m \in Monitor : CreateMonitor(m) \/ FlipSite(m) \/ Elapse(m)
    PROVE  UpMeansNoFailures'
  <1> USE DEF UpMeansNoFailures
  <1>1. CASE BeatTick
    BY <1>1 DEF BeatTick, RowsAgree, JobsAgree, EditsAgree, EventsAgree, Agrees,
                Live, HoldsObject
  <1>2. CASE TakeEvent
    <2>1. EventsAgree'
      BY <1>2 DEF TakeEvent, EventsAgree, Agrees, TypeOK
    <2> QED BY <1>2, <2>1 DEF TakeEvent, RowsAgree, JobsAgree, EditsAgree, Agrees,
                              Live, HoldsObject
  <1>3. ASSUME NEW m \in Monitor, CreateMonitor(m) PROVE UpMeansNoFailures'
    <2>1. PICK a \in BOOLEAN, i \in Intervals : row' = [row EXCEPT ![m] = NewRow(a, i)]
      BY <1>3 DEF CreateMonitor
    <2>2. Agrees(NewRow(a, i).is_currently_up, NewRow(a, i))
      BY DEF NewRow, Agrees
    <2>3. RowsAgree'
      BY <1>3, <2>1, <2>2 DEF CreateMonitor, RowsAgree, Agrees, Live, TypeOK
    <2> QED BY <1>3, <2>3 DEF CreateMonitor, JobsAgree, EditsAgree, EventsAgree,
                              Agrees, HoldsObject
  <1>4. ASSUME NEW m \in Monitor, FlipSite(m) \/ Elapse(m) PROVE UpMeansNoFailures'
    BY <1>4 DEF FlipSite, Elapse, RowsAgree, JobsAgree, EditsAgree, EventsAgree,
                Agrees, Live, HoldsObject
  <1> QED BY <1>1, <1>2, <1>3, <1>4

LEMMA NextAgrees == TypeOK /\ UpMeansNoFailures /\ [Next]_vars => UpMeansNoFailures'
  <1> SUFFICES ASSUME TypeOK, UpMeansNoFailures, [Next]_vars PROVE UpMeansNoFailures'
    OBVIOUS
  <1>1. CASE Next
    BY <1>1, ClientAgrees, WorkerAgrees, EnvironmentAgrees DEF Next, ServiceStep
  <1>2. CASE UNCHANGED vars
    BY <1>2 DEF vars, UpMeansNoFailures, RowsAgree, JobsAgree, EditsAgree,
                EventsAgree, Agrees, Live, HoldsObject
  <1> QED BY <1>1, <1>2

(* The flag, the counter and the verdict of an event agree in every          *)
(* interleaving of any number of workers and requests.                       *)
THEOREM StatusAgrees == Spec => []UpMeansNoFailures
  BY InitAgree, NextAgrees, TypeCorrect, PTL DEF Spec

=============================================================================
