---------------------------- MODULE PipelineProofs --------------------------
(* Theorems about the two services together.  MP and IP are the theorems of  *)
(* their own modules, for the workers and the queue they have here; M and I, *)
(* of Pipeline, are the same modules without their proofs.                   *)
EXTENDS Pipeline, FiniteSetTheorems, TLAPS

MP == INSTANCE MonitorsSoloProofs
      WITH Worker <- CheckWorker, Client <- {}, deaths <- check_deaths

IP == INSTANCE IncidentsRefinementProofs
      WITH Worker <- IncidentWorker, Client <- {}, deaths <- incident_deaths,
           Arrivals <- {}

-----------------------------------------------------------------------------
(* What Pipeline says of M is what MP proves. *)

LEMMA MonitorsData ==
    /\ M!Counter = MP!Counter /\ M!Row = MP!Row /\ M!Edit = MP!Edit
    /\ M!History = MP!History /\ M!Task = MP!Task /\ M!Job = MP!Job
    /\ M!Event = MP!Event
    /\ M!Tick = MP!Tick /\ M!Idle = MP!Idle /\ M!NoHistory = MP!NoHistory
  BY DEF M!Counter, MP!Counter, M!Row, MP!Row, M!Edit, MP!Edit, M!History,
         MP!History, M!Tick, MP!Tick, M!Task, MP!Task, M!Idle, MP!Idle, M!Job,
         MP!Job, M!Event, MP!Event, M!NoHistory, MP!NoHistory

LEMMA MonitorsAssumed == MP!MonitorsAssumption /\ MP!NullAssumption
  BY PipelineAssumption, MonitorsData DEF MP!MonitorsAssumption, MP!NullAssumption

LEMMA MonitorsInit == M!Init => MP!Init
  BY MonitorsData DEF M!Init, MP!Init

LEMMA MonitorsWorker ==
    ASSUME NEW w \in CheckWorker
    PROVE  /\ M!WorkerStep(w) => MP!WorkerStep(w)
           /\ M!TaskDies(w) => MP!TaskDies(w)
  <1>1. M!StartTick(w) => MP!StartTick(w)
    BY MonitorsData DEF M!StartTick, MP!StartTick, M!Active, MP!Active, M!Live, MP!Live
  <1>2. M!ScheduleOne(w) => MP!ScheduleOne(w)
    BY DEF M!ScheduleOne, MP!ScheduleOne, M!Due, MP!Due, M!Check, MP!Check
  <1>3. M!EndTick(w) => MP!EndTick(w)
    BY MonitorsData DEF M!EndTick, MP!EndTick
  <1>4. M!StartCheck(w) => MP!StartCheck(w)
    BY MonitorsData DEF M!StartCheck, MP!StartCheck, M!Live, MP!Live
  <1>5. M!RunCheck(w) => MP!RunCheck(w)
    BY DEF M!RunCheck, MP!RunCheck
  <1>6. M!Commit(w) => MP!Commit(w)
    BY DEF M!Commit, MP!Commit, M!Live, MP!Live, M!ApplyVerdict, MP!ApplyVerdict,
           M!Inc, MP!Inc, M!SaveFields, MP!SaveFields, M!Recorded, MP!Recorded
  <1>7. M!CommitFails(w) => MP!CommitFails(w)
    BY MonitorsData DEF M!CommitFails, MP!CommitFails, M!Live, MP!Live
  <1>8. M!Publish(w) => MP!Publish(w)
    BY MonitorsData DEF M!Publish, MP!Publish, M!EventOf, MP!EventOf
  <1>9. M!TaskDies(w) => MP!TaskDies(w)
    BY MonitorsData DEF M!TaskDies, MP!TaskDies
  <1> QED BY <1>1, <1>2, <1>3, <1>4, <1>5, <1>6, <1>7, <1>8, <1>9
          DEF M!WorkerStep, MP!WorkerStep

LEMMA MonitorsClient ==
    /\ M!ClientStep => MP!ClientStep
    /\ M!BeatTick => MP!BeatTick
    /\ \A m \in Monitor : /\ M!CreateMonitor(m) => MP!CreateMonitor(m)
                          /\ M!FlipSite(m) => MP!FlipSite(m)
                          /\ M!Elapse(m) => MP!Elapse(m)
  <1>1. ASSUME NEW m \in Monitor
        PROVE  /\ M!DeleteMonitor(m) => MP!DeleteMonitor(m)
               /\ M!ManualCheck(m) => MP!ManualCheck(m)
    BY MonitorsData DEF M!DeleteMonitor, MP!DeleteMonitor, M!ManualCheck,
                        MP!ManualCheck, M!Live, MP!Live, M!Check, MP!Check
  <1>2. M!BeatTick => MP!BeatTick
    BY MonitorsData DEF M!BeatTick, MP!BeatTick
  <1>3. ASSUME NEW m \in Monitor
        PROVE  /\ M!CreateMonitor(m) => MP!CreateMonitor(m)
               /\ M!FlipSite(m) => MP!FlipSite(m)
               /\ M!Elapse(m) => MP!Elapse(m)
    BY DEF M!CreateMonitor, MP!CreateMonitor, M!FlipSite, MP!FlipSite, M!Elapse,
           MP!Elapse, M!NewRow, MP!NewRow
  <1> QED BY <1>1, <1>2, <1>3 DEF M!ClientStep, MP!ClientStep

-----------------------------------------------------------------------------
(* What Pipeline says of I is what IP proves. *)

LEMMA CasesData ==
    /\ I!IncidentId = IP!IncidentId /\ I!Incident = IP!Incident
    /\ I!Update = IP!Update /\ I!Idle = IP!Idle /\ I!Event = IP!Event
    /\ I!Channel = IP!Channel /\ I!Kind = IP!Kind
  BY DEF I!IncidentId, IP!IncidentId, I!Incident, IP!Incident, I!Status, IP!Status,
         I!Update, IP!Update, I!Idle, IP!Idle, I!Event, IP!Event, I!Channel, IP!Channel,
         I!Kind, IP!Kind

LEMMA CasesAssumed == IP!IncidentsAssumption /\ IP!NullAssumption
  <1>1. IP!IncidentsAssumption
    BY PipelineAssumption, CasesData
       DEF IP!IncidentsAssumption, IP!IsFiniteSet, IsFiniteSet
  <1>2. IP!NullAssumption
    BY PipelineAssumption, CasesData DEF IP!NullAssumption
  <1> QED BY <1>1, <1>2

LEMMA CasesOpen ==
    /\ \A i : I!Exists(i) = IP!Exists(i)
    /\ \A m : I!OpenOf(m) = IP!OpenOf(m) /\ I!FirstOpen(m) = IP!FirstOpen(m)
    /\ \A m : I!Creators(m) = IP!Creators(m)
    /\ \A x : I!get_failure_threshold(x) = IP!get_failure_threshold(x)
    /\ \A e, i : I!Decision(e, i) = IP!Decision(e, i)
  <1>1. \A i : I!Exists(i) = IP!Exists(i)
    BY DEF I!Exists, IP!Exists
  <1>2. \A m : I!OpenOf(m) = IP!OpenOf(m)
    BY CasesData DEF I!OpenOf, IP!OpenOf, I!Exists, IP!Exists
  <1>3. \A m : I!FirstOpen(m) = IP!FirstOpen(m)
    BY <1>2 DEF I!FirstOpen, IP!FirstOpen
  <1>4. \A m : I!Creators(m) = IP!Creators(m)
    BY DEF I!Creators, IP!Creators
  <1>5. \A x : I!get_failure_threshold(x) = IP!get_failure_threshold(x)
    BY DEF I!get_failure_threshold, IP!get_failure_threshold
  <1>6. \A e, i : I!Decision(e, i) = IP!Decision(e, i)
    BY <1>5, CasesData DEF I!Decision, IP!Decision
  <1> QED BY <1>1, <1>2, <1>3, <1>4, <1>5, <1>6

LEMMA CasesEnabled == \A k : I!Enabled(k) = IP!Enabled(k)
  <1>1. \A S : I!Cardinality(S) = IP!Cardinality(S)
    BY DEF I!Cardinality, IP!Cardinality, I!IsFiniteSet, IP!IsFiniteSet
  <1> QED BY <1>1 DEF I!Enabled, IP!Enabled

LEMMA CasesInit == I!Init => IP!Init
  BY CasesData DEF I!Init, IP!Init

LEMMA CasesWorker ==
    ASSUME NEW w \in IncidentWorker
    PROVE  /\ I!WorkerStep(w) => IP!WorkerStep(w)
           /\ I!TaskDies(w) => IP!TaskDies(w)
  <1>1. I!ReadOpen(w) => IP!ReadOpen(w)
    BY CasesData, CasesOpen DEF I!ReadOpen, IP!ReadOpen
  <1>2. I!Create(w) => IP!Create(w)
    BY CasesData DEF I!Create, IP!Create
  <1>3. I!Resolve(w) => IP!Resolve(w)
    BY CasesOpen DEF I!Resolve, IP!Resolve
  <1>4. I!ResolveFails(w) => IP!ResolveFails(w)
    BY CasesData, CasesOpen DEF I!ResolveFails, IP!ResolveFails
  <1>5. I!AskSettings(w) => IP!AskSettings(w)
    BY CasesData, CasesEnabled DEF I!AskSettings, IP!AskSettings
  <1>6. I!SendOne(w) => IP!SendOne(w)
    BY CasesData DEF I!SendOne, IP!SendOne, I!FirstOf, IP!FirstOf, I!Channels, IP!Channels
  <1>7. I!TaskDies(w) => IP!TaskDies(w)
    BY CasesData DEF I!TaskDies, IP!TaskDies
  <1> QED BY <1>1, <1>2, <1>3, <1>4, <1>5, <1>6, <1>7 DEF I!WorkerStep, IP!WorkerStep

-----------------------------------------------------------------------------
(* The incidents service is the environment Monitors assumes: it takes the   *)
(* oldest event, or it is not seen.                                          *)

LEMMA IncidentStepTakes ==
    ASSUME NEW w \in IncidentWorker, IncidentStep(w)
    PROVE  MP!TakeEvent \/ UNCHANGED MP!vars
  <1>1. CASE I!ReadOpen(w)
    BY <1>1 DEF I!ReadOpen, IncidentStep, checks, MP!TakeEvent
  <1>2. CASE ~I!ReadOpen(w)
    <2>1. UNCHANGED incidents_queue
      BY <1>2 DEF IncidentStep, I!WorkerStep, I!Create, I!Resolve, I!ResolveFails,
                  I!AskSettings, I!SendOne
    <2> QED BY <2>1 DEF IncidentStep, checks, MP!vars
  <1> QED BY <1>1, <1>2

LEMMA StepRunsMonitors == [Next]_vars => [MP!Next]_(MP!vars)
  <1> SUFFICES ASSUME [Next]_vars PROVE [MP!Next]_(MP!vars)
    OBVIOUS
  <1>1. ASSUME NEW w \in CheckWorker, CheckStep(w) PROVE MP!Next
    BY <1>1, MonitorsWorker DEF CheckStep, MP!Next, MP!ServiceStep
  <1>2. ASSUME NEW w \in IncidentWorker, IncidentStep(w) PROVE [MP!Next]_(MP!vars)
    BY <1>2, IncidentStepTakes DEF MP!Next
  <1>3. CASE Beat
    BY <1>3, MonitorsClient DEF Beat, MP!Next, MP!ServiceStep
  <1>4. ASSUME NEW m \in Monitor, Elapse(m) \/ Flip(m) PROVE MP!Next
    BY <1>4, MonitorsClient DEF Elapse, Flip, MP!Next, MP!ServiceStep
  <1>5. CASE Request
    BY <1>5, MonitorsClient DEF Request, MP!Next, MP!ServiceStep
  <1>6. CASE TaskDies
    <2>1. ASSUME NEW w \in CheckWorker, M!TaskDies(w) PROVE MP!Next
      BY <2>1, MonitorsWorker DEF MP!Next, MP!ServiceStep
    <2>2. ASSUME NEW w \in IncidentWorker, I!TaskDies(w), UNCHANGED checks
          PROVE  UNCHANGED MP!vars
      BY <2>2 DEF I!TaskDies, checks, MP!vars
    <2> QED BY <1>6, <2>1, <2>2 DEF TaskDies
  <1>7. CASE UNCHANGED vars
    BY <1>7 DEF vars, checks, MP!vars
  <1> QED BY <1>1, <1>2, <1>3, <1>4, <1>5, <1>6, <1>7 DEF Next

(* The monitors service behaves in the pipeline as Monitors says, so what is *)
(* proved of Monitors holds here too.                                        *)
THEOREM RunsMonitors == Spec => MP!Spec
  <1>1. Init => MP!Init
    BY MonitorsInit DEF Init
  <1> QED BY <1>1, StepRunsMonitors, PTL DEF Spec, MP!Spec

LEMMA MonitorsHolds == Spec => [](MP!TypeOK /\ MP!UpMeansNoFailures)
  <1>1. MP!Spec => []MP!TypeOK
    BY MonitorsAssumed, MP!TypeCorrect, MP!MonitorsAssumption, MP!NullAssumption, Zenon
  <1>2. MP!Spec => []MP!UpMeansNoFailures
    BY MonitorsAssumed, MP!StatusAgrees, MP!MonitorsAssumption, MP!NullAssumption, Zenon
  <1> QED BY <1>1, <1>2, RunsMonitors, PTL

-----------------------------------------------------------------------------
(* Types of the incidents side: its events are those Monitors sends. *)

LEMMA EventsFit == Seq(MP!Event) \subseteq Seq(IP!Event)
  <1>1. MP!Event \subseteq IP!Event
    <2>1. MP!Counter \subseteq Nat /\ Intervals \subseteq Nat
      BY PipelineAssumption DEF MP!Counter
    <2> QED BY <2>1 DEF MP!Event, IP!Event
  <1>2. ASSUME NEW q \in Seq(MP!Event) PROVE q \in Seq(IP!Event)
    BY <1>1
  <1> QED BY <1>2

LEMMA IncidentTaskTypes ==
    ASSUME IP!TypeOK, NEW w \in IncidentWorker,
           IncidentStep(w) \/ (I!TaskDies(w) /\ UNCHANGED checks)
    PROVE  IP!TypeOK'
  <1>1. IP!WorkerStep(w) \/ IP!TaskDies(w)
    BY CasesWorker DEF IncidentStep
  <1> QED BY <1>1, CasesAssumed, IP!WorkerType, IP!IncidentsAssumption,
             IP!NullAssumption

(* Every other step leaves the incidents service alone, but for its queue. *)
LEMMA StepKinds ==
    ASSUME [Next]_vars
    PROVE  \/ UNCHANGED cases
           \/ \E w \in IncidentWorker :
                 IncidentStep(w) \/ (I!TaskDies(w) /\ UNCHANGED checks)
  BY DEF Next, CheckStep, Beat, Elapse, Flip, Request, TaskDies, vars

LEMMA IncidentSideTypes ==
    ASSUME IP!TypeOK, MP!TypeOK', [Next]_vars PROVE IP!TypeOK'
  <1>1. CASE UNCHANGED cases
    <2>1. incidents_queue' \in Seq(IP!Event)
      BY EventsFit DEF MP!TypeOK
    <2> QED BY <1>1, <2>1 DEF IP!TypeOK, cases
  <1> QED BY <1>1, StepKinds, IncidentTaskTypes

TypesOK == MP!TypeOK /\ IP!TypeOK

LEMMA TypesHold == Spec => []TypesOK
  <1>1. Init => IP!TypeOK
    <2>1. IP!Init => IP!TypeOK
      BY CasesAssumed, IP!InitType, IP!IncidentsAssumption, IP!NullAssumption, Zenon
    <2> QED BY <2>1, CasesInit DEF Init
  <1>2. IP!TypeOK /\ MP!TypeOK' /\ [Next]_vars => IP!TypeOK'
    BY IncidentSideTypes
  <1>3. Spec => []MP!TypeOK
    BY MonitorsHolds, PTL
  <1> QED BY <1>1, <1>2, <1>3, PTL DEF Spec, TypesOK

-----------------------------------------------------------------------------
(* One worker runs the checks: an incident is opened on an outage *)

LEMMA ThresholdType ==
    ASSUME NEW i \in Nat PROVE IP!get_failure_threshold(i) \in Nat \ {0}
  BY DEF IP!get_failure_threshold

LEMMA ConfirmedGrows == [Next]_vars => confirmed \subseteq confirmed'
  BY DEF Next, CheckStep, IncidentStep, Beat, Elapse, Flip, Request, TaskDies,
         vars, checks

(* x, an object or an event, counts as many failures as its interval asks for. *)
Tells(x) == x.consecutive_failures >= IP!get_failure_threshold(x.interval_seconds)

(* What a check committed and what waits in the queue speak of outages only   *)
(* of monitors whose recorded results have shown one.                         *)
JobsConfirmed ==
    \A w \in CheckWorker :
        job[w].pc = "committed" /\ Tells(job[w].obj) => job[w].monitor \in confirmed
EventsConfirmed ==
    \A i \in DOMAIN incidents_queue :
        Tells(incidents_queue[i]) => incidents_queue[i].monitor \in confirmed
NewsConfirmed == JobsConfirmed /\ EventsConfirmed

(* With one worker the counter a check commits is the streak of the results, *)
(* and the interval in its hands is that of the row.                         *)
LEMMA CommitConfirms ==
    ASSUME TypesOK, MP!SoloInv', NEW w \in CheckWorker, CheckStep(w), MP!Commit(w),
           Tells(job'[w].obj)
    PROVE  job'[w].monitor \in confirmed'
  <1>1. PICK m \in Monitor : job[w].monitor = m /\ job[w].obj \in MP!Row
                             /\ job[w].ok \in BOOLEAN
    BY MonitorsAssumed, MP!JobFields, MP!MonitorsAssumption, MP!NullAssumption
       DEF MP!Commit, MP!HoldsObject, TypesOK
  <1>2. /\ job'[w].pc = "committed" /\ job'[w].monitor = m
        /\ row'[m] = MP!SaveFields(row[m], MP!ApplyVerdict(job[w].obj, job[w].ok))
        /\ row[m] \in MP!Row
    BY <1>1 DEF MP!Commit, MP!Live, TypesOK, MP!TypeOK
  <1>3. MP!ApplyVerdict(job[w].obj, job[w].ok) \in MP!Row
    BY <1>1, MonitorsAssumed, MP!ApplyVerdictType, MP!MonitorsAssumption,
       MP!NullAssumption
  <1>4. row'[m] \in MP!Row
    BY <1>2, <1>3, MonitorsAssumed, MP!SaveFieldsType, MP!MonitorsAssumption,
       MP!NullAssumption
  <1>5. row'[m] # None
    BY <1>4, MonitorsAssumed DEF MP!NullAssumption
  <1>6. /\ job'[w].obj.consecutive_failures = row'[m].consecutive_failures
        /\ job'[w].obj.interval_seconds = row'[m].interval_seconds
        /\ row'[m].consecutive_failures = history'[m].streak
    BY <1>2, <1>5 DEF MP!SoloInv, MP!HeldIsCurrent, MP!IntervalsKept,
                      MP!CountsConsecutive, MP!Live, MP!HoldsObject
  <1>7. history'[m].streak >= IP!get_failure_threshold(row'[m].interval_seconds)
    BY <1>6 DEF Tells
  <1>8. history'[m].streak >= I!get_failure_threshold(row'[m].interval_seconds)
    BY <1>7, CasesOpen
  <1>9. m \in {n \in Monitor : Confirmed(n)'}
    BY <1>5, <1>8 DEF Confirmed, M!Live
  <1> QED BY <1>2, <1>9 DEF CheckStep

(* Only Commit makes a commit. *)
LEMMA CommitsMade ==
    ASSUME TypesOK, [Next]_vars, NEW w \in CheckWorker, job'[w].pc = "committed"
    PROVE  job'[w] = job[w] \/ (CheckStep(w) /\ MP!Commit(w))
  <1>0. job \in [CheckWorker -> MP!Job]
    BY DEF TypesOK, MP!TypeOK
  <1>1. ASSUME NEW v \in CheckWorker, CheckStep(v)
        PROVE  job'[w] = job[w] \/ (CheckStep(w) /\ MP!Commit(w))
    <2>1. MP!WorkerStep(v)
      BY <1>1, MonitorsWorker DEF CheckStep
    <2>2. CASE v # w
      BY <1>0, <2>1, <2>2
         DEF MP!WorkerStep, MP!StartTick, MP!ScheduleOne, MP!EndTick, MP!StartCheck,
             MP!RunCheck, MP!Commit, MP!CommitFails, MP!Publish
    <2>3. CASE v = w /\ MP!ScheduleOne(w)
      <3>1. job[w] = [pc |-> "tick", todo |-> job[w].todo]
        BY <2>3, MonitorsAssumed, MP!JobFields, MP!MonitorsAssumption,
           MP!NullAssumption DEF MP!ScheduleOne, TypesOK
      <3> QED BY <1>0, <2>3, <3>1 DEF MP!ScheduleOne
    <2>4. CASE v = w /\ ~MP!ScheduleOne(w)
      BY <1>0, <1>1, <2>1, <2>4
         DEF MP!WorkerStep, MP!StartTick, MP!EndTick, MP!StartCheck,
             MP!RunCheck, MP!CommitFails, MP!Publish, MP!Idle
    <2> QED BY <2>2, <2>3, <2>4
  <1>2. CASE TaskDies
    <2>1. ASSUME NEW v \in CheckWorker, M!TaskDies(v) PROVE job'[w] = job[w]
      BY <1>0, <2>1 DEF M!TaskDies, M!Idle
    <2> QED BY <1>2, <2>1 DEF TaskDies, checks
  <1>3. CASE Beat \/ Request \/ \E m \in Monitor : Elapse(m) \/ Flip(m)
    <2>1. UNCHANGED job
      BY <1>3, MonitorsClient
         DEF Beat, Request, Elapse, Flip, MP!ClientStep, MP!BeatTick, MP!CreateMonitor,
             MP!DeleteMonitor, MP!ManualCheck, MP!Elapse, MP!FlipSite
    <2> QED BY <2>1
  <1> QED BY <1>1, <1>2, <1>3 DEF Next, IncidentStep, checks, vars

(* Only Publish adds to the queue, and it adds what was committed. *)
LEMMA EventsMade ==
    ASSUME TypesOK, [Next]_vars, NEW i \in DOMAIN incidents_queue'
    PROVE  \/ \E k \in DOMAIN incidents_queue : incidents_queue'[i] = incidents_queue[k]
           \/ \E w \in CheckWorker : /\ job[w].pc = "committed"
                                     /\ incidents_queue'[i] = MP!EventOf(job[w])
  <1>0. incidents_queue \in Seq(MP!Event)
    BY DEF TypesOK, MP!TypeOK
  <1>1. CASE MP!TakeEvent
    BY <1>0, <1>1 DEF MP!TakeEvent
  <1>2. ASSUME NEW w \in CheckWorker, MP!Publish(w)
        PROVE  \/ \E k \in DOMAIN incidents_queue :
                     incidents_queue'[i] = incidents_queue[k]
               \/ job[w].pc = "committed" /\ incidents_queue'[i] = MP!EventOf(job[w])
    BY <1>0, <1>2 DEF MP!Publish
  <1>3. CASE UNCHANGED incidents_queue
    BY <1>3
  <1> QED BY <1>1, <1>2, <1>3, StepRunsMonitors
          DEF MP!Next, MP!ServiceStep, MP!WorkerStep, MP!TaskDies, MP!ClientStep,
              MP!BeatTick, MP!CreateMonitor, MP!FlipSite, MP!Elapse,
              MP!StartTick, MP!ScheduleOne, MP!EndTick, MP!StartCheck, MP!RunCheck,
              MP!Commit, MP!CommitFails, MP!DeleteMonitor, MP!ManualCheck, MP!vars

LEMMA NextNewsConfirmed ==
    ASSUME TypesOK, MP!SoloInv', NewsConfirmed, [Next]_vars PROVE NewsConfirmed'
  <1>1. ASSUME NEW w \in CheckWorker, job'[w].pc = "committed", Tells(job'[w].obj)
        PROVE  job'[w].monitor \in confirmed'
    <2>1. CASE job'[w] = job[w]
      BY <1>1, <2>1, ConfirmedGrows DEF NewsConfirmed, JobsConfirmed, Tells
    <2>2. CASE CheckStep(w) /\ MP!Commit(w)
      BY <1>1, <2>2, CommitConfirms
    <2> QED BY <1>1, <2>1, <2>2, CommitsMade
  <1>2. ASSUME NEW i \in DOMAIN incidents_queue', Tells(incidents_queue'[i])
        PROVE  incidents_queue'[i].monitor \in confirmed'
    <2>1. ASSUME NEW k \in DOMAIN incidents_queue, incidents_queue'[i] = incidents_queue[k]
          PROVE  incidents_queue'[i].monitor \in confirmed'
      BY <1>2, <2>1, ConfirmedGrows DEF NewsConfirmed, EventsConfirmed, Tells
    <2>2. ASSUME NEW w \in CheckWorker, job[w].pc = "committed",
                 incidents_queue'[i] = MP!EventOf(job[w])
          PROVE  incidents_queue'[i].monitor \in confirmed'
      <3>1. /\ incidents_queue'[i].monitor = job[w].monitor
            /\ incidents_queue'[i].consecutive_failures = job[w].obj.consecutive_failures
            /\ incidents_queue'[i].interval_seconds = job[w].obj.interval_seconds
        BY <2>2 DEF MP!EventOf
      <3>2. Tells(job[w].obj)
        BY <1>2, <3>1 DEF Tells
      <3> QED BY <2>2, <3>1, <3>2, ConfirmedGrows DEF NewsConfirmed, JobsConfirmed
    <2> QED BY <2>1, <2>2, EventsMade
  <1> QED BY <1>1, <1>2 DEF NewsConfirmed, JobsConfirmed, EventsConfirmed, Tells

LEMMA NewsHold == ASSUME MP!Solo PROVE Spec => []NewsConfirmed
  <1>1. Init => NewsConfirmed
    <2>1. MP!Init => NewsConfirmed
      BY DEF MP!Init, MP!Idle, NewsConfirmed, JobsConfirmed, EventsConfirmed
    <2> QED BY <2>1, MonitorsInit DEF Init
  <1>2. MP!Spec => []MP!SoloInv
    BY MonitorsAssumed, MP!SoloInvariance, MP!MonitorsAssumption, MP!NullAssumption
  <1>3. TypesOK /\ MP!SoloInv' /\ NewsConfirmed /\ [Next]_vars => NewsConfirmed'
    BY NextNewsConfirmed
  <1> QED BY <1>1, <1>2, <1>3, RunsMonitors, TypesHold, PTL DEF Spec

(* The event a worker decides to open an incident on tells of an outage. *)
LEMMA EventOpens ==
    ASSUME TypesOK, NewsConfirmed, NEW w \in IncidentWorker, IP!ReadOpen(w),
           handling'[w].pc = "creating"
    PROVE  handling'[w].monitor \in confirmed
  <1> DEFINE e == Head(incidents_queue)
  <1>1. e = incidents_queue[1] /\ 1 \in DOMAIN incidents_queue
    BY DEF IP!ReadOpen, TypesOK, MP!TypeOK
  <1>2. PICK i \in IP!FirstOpen(e.monitor) : handling'[w] = IP!Decision(e, i)
    BY DEF IP!ReadOpen, TypesOK, IP!TypeOK
  <1>3. Tells(e) /\ handling'[w].monitor = e.monitor
    BY <1>2 DEF IP!Decision, IP!Idle, Tells
  <1> QED BY <1>1, <1>3 DEF NewsConfirmed, EventsConfirmed

Involved(m) == IP!OpenOf(m) # {} \/ IP!Creators(m) # {}

LEMMA BackedMeans ==
    IncidentBacked <=> \A m \in Monitor : Involved(m) => m \in confirmed
  BY CasesOpen DEF IncidentBacked, Involved

LEMMA IncidentTaskBacked ==
    ASSUME TypesOK, NewsConfirmed, [Next]_vars, NEW w \in IncidentWorker,
           IP!WorkerStep(w) \/ IP!TaskDies(w),
           \A m \in Monitor : Involved(m) => m \in confirmed,
           NEW m \in Monitor, Involved(m)'
    PROVE  m \in confirmed'
  <1>1. ASSUME UNCHANGED incidents, handling'[w].pc # "creating",
               \A v \in IncidentWorker : v # w => handling'[v] = handling[v]
        PROVE  m \in confirmed'
    <2>1. IP!OpenOf(m)' = IP!OpenOf(m)
      BY <1>1 DEF IP!OpenOf, IP!Exists
    <2>2. IP!Creators(m)' \subseteq IP!Creators(m)
      BY <1>1 DEF IP!Creators
    <2> QED BY <2>1, <2>2, ConfirmedGrows DEF Involved
  <1>2. handling \in [IncidentWorker -> IP!Handling]
    BY DEF TypesOK, IP!TypeOK
  <1>3. CASE IP!ReadOpen(w)
    <2>1. CASE handling'[w].pc = "creating"
      <3>1. handling'[w].monitor \in confirmed
        BY <1>3, <2>1, EventOpens
      <3>2. CASE handling'[w].monitor = m
        BY <3>1, <3>2, ConfirmedGrows
      <3>3. CASE handling'[w].monitor # m
        <4>1. IP!OpenOf(m)' = IP!OpenOf(m)
          BY <1>3 DEF IP!ReadOpen, IP!OpenOf, IP!Exists
        <4>2. IP!Creators(m)' \subseteq IP!Creators(m)
          BY <1>2, <1>3, <3>3 DEF IP!ReadOpen, IP!Creators
        <4> QED BY <4>1, <4>2, ConfirmedGrows DEF Involved
      <3> QED BY <3>2, <3>3
    <2>2. CASE handling'[w].pc # "creating"
      BY <1>1, <1>2, <1>3, <2>2 DEF IP!ReadOpen
    <2> QED BY <2>1, <2>2
  <1>4. CASE IP!Create(w)
    <2>1. PICK n \in Monitor : handling[w].monitor = n
      BY <1>4, CasesAssumed, IP!HandlingFields, IP!IncidentsAssumption,
         IP!NullAssumption DEF IP!Create, TypesOK
    <2>2. CASE n = m
      <3>1. w \in IP!Creators(m)
        BY <1>4, <2>1, <2>2 DEF IP!Create, IP!Creators
      <3> QED BY <3>1, ConfirmedGrows DEF Involved
    <2>3. CASE n # m
      <3>1. IP!OpenOf(m)' \subseteq IP!OpenOf(m)
        BY <1>4, <2>1, <2>3 DEF IP!Create, IP!OpenOf, IP!Exists, TypesOK, IP!TypeOK
      <3>2. IP!Creators(m)' \subseteq IP!Creators(m)
        BY <1>2, <1>4 DEF IP!Create, IP!Creators
      <3> QED BY <3>1, <3>2, ConfirmedGrows DEF Involved
    <2> QED BY <2>2, <2>3
  <1>5. CASE IP!Resolve(w)
    <2> DEFINE i == handling[w].incident
    <2>1. i \in IP!IncidentId
      BY <1>5, CasesAssumed, IP!HandlingFields, IP!IncidentsAssumption,
         IP!NullAssumption DEF IP!Resolve, TypesOK
    <2>2. incidents[i] \in IP!Incident
      BY <1>5, <2>1 DEF IP!Resolve, IP!Exists, TypesOK, IP!TypeOK
    <2>3. /\ incidents'[i].status = "RESOLVED"
          /\ \A j \in IP!IncidentId : j # i => incidents'[j] = incidents[j]
      BY <1>5, <2>1, <2>2 DEF IP!Resolve, TypesOK, IP!TypeOK, IP!Incident
    <2>4. IP!OpenOf(m)' \subseteq IP!OpenOf(m)
      BY <2>3 DEF IP!OpenOf, IP!Exists, IP!IncidentId
    <2>5. IP!Creators(m)' \subseteq IP!Creators(m)
      BY <1>2, <1>5 DEF IP!Resolve, IP!Creators
    <2> QED BY <2>4, <2>5, ConfirmedGrows DEF Involved
  <1>6. CASE IP!ResolveFails(w) \/ IP!TaskDies(w)
    BY <1>1, <1>2, <1>6 DEF IP!ResolveFails, IP!TaskDies, IP!Idle
  <1>7. CASE IP!AskSettings(w)
    <2>1. handling'[w].pc \in {"idle", "sending"}
      BY <1>2, <1>7 DEF IP!AskSettings, IP!Idle
    <2> QED BY <1>1, <1>2, <1>7, <2>1 DEF IP!AskSettings
  <1>8. CASE IP!SendOne(w)
    <2>1. handling[w] \in [pc : {"sending"}, incident : IP!IncidentId, kind : IP!Kind,
                           todo : (SUBSET IP!Channel) \ {{}}]
      BY <1>2, <1>8 DEF IP!SendOne, IP!Handling, IP!Idle
    <2>2. handling'[w].pc # "creating"
      BY <1>2, <1>8, <2>1 DEF IP!SendOne, IP!Idle
    <2> QED BY <1>1, <1>2, <1>8, <2>2 DEF IP!SendOne
  <1> QED BY <1>3, <1>4, <1>5, <1>6, <1>7, <1>8 DEF IP!WorkerStep

LEMMA NextIncidentBacked ==
    TypesOK /\ NewsConfirmed /\ IncidentBacked /\ [Next]_vars => IncidentBacked'
  <1> SUFFICES ASSUME TypesOK, NewsConfirmed, IncidentBacked, [Next]_vars
               PROVE  IncidentBacked'
    OBVIOUS
  <1>1. \A m \in Monitor : Involved(m) => m \in confirmed
    BY BackedMeans
  <1>2. \A m \in Monitor : Involved(m)' => m \in confirmed'
    <2>1. CASE UNCHANGED cases
      <3>1. \A m \in Monitor : Involved(m)' = Involved(m)
        BY <2>1 DEF cases, Involved, IP!OpenOf, IP!Creators, IP!Exists
      <3> QED BY <1>1, <3>1, ConfirmedGrows
    <2>2. ASSUME NEW w \in IncidentWorker,
                 IncidentStep(w) \/ (I!TaskDies(w) /\ UNCHANGED checks),
                 NEW m \in Monitor, Involved(m)'
          PROVE  m \in confirmed'
      <3>1. IP!WorkerStep(w) \/ IP!TaskDies(w)
        BY <2>2, CasesWorker DEF IncidentStep
      <3> QED BY <1>1, <2>2, <3>1, IncidentTaskBacked
    <2> QED BY <2>1, <2>2, StepKinds
  <1> QED BY <1>2, CasesOpen
          DEF IncidentBacked, Involved, I!OpenOf, IP!OpenOf, I!Creators,
              IP!Creators, I!Exists, IP!Exists, I!IncidentId, IP!IncidentId

LEMMA InitIncidentBacked == Init => IncidentBacked
  BY DEF Init, I!Init, I!Idle, IncidentBacked, I!OpenOf, I!Creators, I!Exists

LEMMA OneChecker ==
    ASSUME IsFiniteSet(CheckWorker), Cardinality(CheckWorker) = 1 PROVE MP!Solo
  <1>1. \E x : CheckWorker = {x}
    BY FS_Singleton
  <1> QED BY <1>1 DEF MP!Solo

LEMMA BackedHolds == ASSUME MP!Solo PROVE Spec => []IncidentBacked
  <1>1. Spec => []NewsConfirmed
    BY NewsHold
  <1> QED BY <1>1, InitIncidentBacked, NextIncidentBacked, TypesHold, PTL DEF Spec

(* With one worker process for the checks, and however many in the incidents *)
(* service, process_incident_task opens an incident only for a monitor whose *)
(* recorded results have shown as many failures in a row as its own interval *)
(* asks for, whichever tasks die and whichever monitors come and go.         *)
THEOREM IncidentsAreBacked ==
    ASSUME IsFiniteSet(CheckWorker), Cardinality(CheckWorker) = 1
    PROVE  Spec => []IncidentBacked
  BY OneChecker, BackedHolds

-----------------------------------------------------------------------------
(* One worker on each side: the tables agree *)

(* Incidents are about monitors that were created. *)
CasesCreated ==
    /\ \A i \in IP!IncidentId : IP!Exists(i) => incidents[i].monitor \in created
    /\ \A w \in IncidentWorker :
          handling[w].pc = "creating" => handling[w].monitor \in created

(* All that was committed about m has been read by the incidents worker. *)
NoNews(m) ==
    /\ MP!QueuedOf(m) = {}
    /\ \A w \in CheckWorker : job[w].pc = "committed" => job[w].monitor # m

(* The workers that saw an open incident of m and are about to close it. *)
Closers(m) ==
    {w \in IncidentWorker : /\ handling[w].pc = "resolving"
                            /\ incidents[handling[w].incident].monitor = m}

(* The incidents table tells what the row of m tells, or a worker is about   *)
(* to make it so.                                                            *)
Handled(m) ==
    /\ row[m].is_currently_up =>
          IP!Creators(m) = {} /\ (IP!OpenOf(m) # {} => Closers(m) # {})
    /\ row[m].consecutive_failures
             >= IP!get_failure_threshold(row[m].interval_seconds) =>
          (IP!OpenOf(m) # {} \/ IP!Creators(m) # {}) /\ Closers(m) = {}

NoDeaths == check_deaths = 0 /\ incident_deaths = 0

Reported == NoDeaths => \A m \in Monitor : MP!Live(m) /\ NoNews(m) => Handled(m)

Known == TypesOK /\ MP!UpMeansNoFailures /\ MP!SoloInv /\ IP!SoloInv

LEMMA IncidentSideSolo ==
    ASSUME IP!Solo, IP!TypeOK, IP!SoloInv, [Next]_vars PROVE IP!SoloInv'
  <1>1. CASE UNCHANGED cases
    BY <1>1 DEF cases, IP!SoloInv, IP!KeysUsed, IP!OpenIsLatest, IP!DecisionStands,
                IP!AlertIsNews, IP!MessagesTrue, IP!AlertIsFresh, IP!Pending,
                IP!Tells, IP!Exists, IP!OpenOf, IP!IncidentsOf
  <1>2. ASSUME NEW w \in IncidentWorker,
               IncidentStep(w) \/ (I!TaskDies(w) /\ UNCHANGED checks)
        PROVE  IP!SoloInv'
    <2>1. [IP!Arrive \/ IP!ServiceStep]_(IP!vars)
      BY <1>2, CasesWorker DEF IncidentStep, IP!ServiceStep
    <2> QED BY <2>1, CasesAssumed, IP!NextSolo, IP!IncidentsAssumption,
               IP!NullAssumption
  <1> QED BY <1>1, <1>2, StepKinds

LEMMA KnownHolds == ASSUME MP!Solo, IP!Solo PROVE Spec => []Known
  <1>1. MP!Spec => []MP!SoloInv
    BY MonitorsAssumed, MP!SoloInvariance, MP!MonitorsAssumption, MP!NullAssumption
  <1>2. Init => IP!SoloInv
    <2>1. IP!Init => IP!SoloInv
      BY CasesAssumed, IP!InitSolo, IP!IncidentsAssumption, IP!NullAssumption, Zenon
    <2> QED BY <2>1, CasesInit DEF Init
  <1>3. TypesOK /\ IP!SoloInv /\ [Next]_vars => IP!SoloInv'
    BY IncidentSideSolo DEF TypesOK
  <1> QED BY <1>1, <1>2, <1>3, RunsMonitors, TypesHold, MonitorsHolds, PTL
          DEF Spec, Known

LEMMA ThresholdAbove ==
    ASSUME Known, NEW m \in Monitor, MP!Live(m)
    PROVE  /\ row[m] \in MP!Row
           /\ row[m].is_currently_up =>
                ~(row[m].consecutive_failures
                     >= IP!get_failure_threshold(row[m].interval_seconds))
  <1>1. row[m] \in MP!Row
    BY DEF Known, TypesOK, MP!TypeOK, MP!Live
  <1>2. row[m].interval_seconds \in Nat
    BY <1>1, PipelineAssumption DEF MP!Row
  <1>3. IP!get_failure_threshold(row[m].interval_seconds) \in Nat \ {0}
    BY <1>2, ThresholdType
  <1>4. row[m].is_currently_up => row[m].consecutive_failures = 0
    BY DEF Known, MP!UpMeansNoFailures, MP!RowsAgree, MP!Agrees
  <1> QED BY <1>1, <1>3, <1>4

(* A step of the monitors service that makes no news disturbs nothing. *)
LEMMA NoNewsStep ==
    ASSUME Reported, UNCHANGED cases, UNCHANGED <<row, incidents_queue>>,
           check_deaths' = 0 => check_deaths = 0 /\
              \A w \in CheckWorker : job[w].pc = "committed" =>
                 job'[w].pc = "committed" /\ job'[w].monitor = job[w].monitor
    PROVE  Reported'
  <1> SUFFICES ASSUME NoDeaths', NEW m \in Monitor, MP!Live(m)', NoNews(m)'
               PROVE  Handled(m)'
    BY DEF Reported
  <1>1. NoDeaths /\ MP!Live(m) /\ NoNews(m)
    BY DEF NoDeaths, cases, MP!Live, NoNews, MP!QueuedOf
  <1>2. Handled(m)
    BY <1>1 DEF Reported
  <1> QED BY <1>2 DEF Handled, Closers, IP!Creators, IP!OpenOf, IP!Exists, cases

(* Nothing changes for m when its row, its news and its incidents stay. *)
LEMMA SameHandled ==
    ASSUME UNCHANGED cases, NEW m \in Monitor, row'[m] = row[m], Handled(m)
    PROVE  Handled(m)'
  BY DEF Handled, Closers, IP!Creators, IP!OpenOf, IP!Exists, cases

LEMMA CheckTaskReported ==
    ASSUME MP!Solo, Known, Reported, UNCHANGED cases,
           NEW w \in CheckWorker, MP!WorkerStep(w) \/ MP!TaskDies(w)
    PROVE  Reported'
  <1>0. /\ job \in [CheckWorker -> MP!Job] /\ check_deaths \in Nat
        /\ \A v \in CheckWorker : v = w
    BY PipelineAssumption DEF Known, TypesOK, MP!TypeOK, MP!Solo
  <1>1. CASE MP!StartTick(w) \/ MP!ScheduleOne(w) \/ MP!EndTick(w)
             \/ MP!StartCheck(w) \/ MP!RunCheck(w) \/ MP!CommitFails(w)
    <2>1. job[w].pc # "committed" /\ UNCHANGED <<row, incidents_queue, check_deaths>>
      BY <1>1 DEF MP!StartTick, MP!ScheduleOne, MP!EndTick, MP!StartCheck,
                  MP!RunCheck, MP!CommitFails, MP!Idle
    <2> QED BY <1>0, <2>1, NoNewsStep
  <1>2. CASE MP!TaskDies(w)
    <2>1. check_deaths' # 0 /\ UNCHANGED <<row, incidents_queue>>
      BY <1>0, <1>2 DEF MP!TaskDies
    <2> QED BY <2>1, NoNewsStep
  <1>3. CASE MP!Commit(w)
    <2> SUFFICES ASSUME NoDeaths', NEW n \in Monitor, MP!Live(n)', NoNews(n)'
                 PROVE  Handled(n)'
      BY DEF Reported
    <2>1. PICK m \in Monitor : job[w].monitor = m
      BY <1>3, MonitorsAssumed, MP!JobFields, MP!MonitorsAssumption,
         MP!NullAssumption DEF MP!Commit, MP!HoldsObject, Known, TypesOK
    <2>2. /\ job[w].pc = "checked" /\ UNCHANGED <<incidents_queue, check_deaths>>
          /\ job'[w].pc = "committed" /\ job'[w].monitor = m
      BY <1>0, <1>3, <2>1 DEF MP!Commit
    <2>3. n # m
      BY <2>2 DEF NoNews
    <2>4. row'[n] = row[n]
      BY <1>3, <2>1, <2>3 DEF MP!Commit, Known, TypesOK, MP!TypeOK
    <2>5. NoDeaths /\ MP!Live(n) /\ NoNews(n)
      BY <1>0, <2>2, <2>4 DEF NoDeaths, cases, MP!Live, NoNews, MP!QueuedOf
    <2> QED BY <2>4, <2>5, SameHandled DEF Reported
  <1>4. CASE MP!Publish(w)
    <2> SUFFICES ASSUME NoDeaths', NEW n \in Monitor, MP!Live(n)', NoNews(n)'
                 PROVE  Handled(n)'
      BY DEF Reported
    <2>1. PICK m \in Monitor : job[w].monitor = m
      BY <1>4, MonitorsAssumed, MP!JobFields, MP!MonitorsAssumption,
         MP!NullAssumption DEF MP!Publish, MP!HoldsObject, Known, TypesOK
    <2> DEFINE e == MP!EventOf(job[w])
    <2>2. /\ incidents_queue \in Seq(MP!Event)
          /\ incidents_queue' = Append(incidents_queue, e) /\ e.monitor = m
          /\ UNCHANGED <<row, check_deaths>>
      BY <1>4, <2>1 DEF MP!Publish, Known, TypesOK, MP!TypeOK, MP!EventOf
    <2> HIDE DEF e
    <2>3. n # m
      <3>1. /\ Len(incidents_queue) + 1 \in DOMAIN incidents_queue'
            /\ incidents_queue'[Len(incidents_queue) + 1] = e
        BY <2>2
      <3>2. Len(incidents_queue) + 1 \in MP!QueuedOf(m)'
        BY <2>2, <3>1 DEF MP!QueuedOf
      <3> QED BY <3>2 DEF NoNews
    <2>4. MP!QueuedOf(n) \subseteq MP!QueuedOf(n)'
      BY <2>2 DEF MP!QueuedOf
    <2>5. NoDeaths /\ MP!Live(n) /\ NoNews(n)
      BY <1>0, <2>1, <2>2, <2>3, <2>4 DEF NoDeaths, cases, MP!Live, NoNews
    <2> QED BY <2>2, <2>5, SameHandled DEF Reported
  <1> QED BY <1>1, <1>2, <1>3, <1>4 DEF MP!WorkerStep

LEMMA RequestReported ==
    ASSUME Known, Reported, CasesCreated, UNCHANGED cases, NEW m \in Monitor,
           MP!CreateMonitor(m) \/ MP!DeleteMonitor(m)
    PROVE  Reported'
  <1> SUFFICES ASSUME NoDeaths', NEW n \in Monitor, MP!Live(n)', NoNews(n)'
               PROVE  Handled(n)'
    BY DEF Reported
  <1>1. NoDeaths /\ NoNews(n)
    BY DEF MP!CreateMonitor, MP!DeleteMonitor, NoDeaths, cases, NoNews, MP!QueuedOf
  <1>2. CASE n # m
    <2>1. row'[n] = row[n]
      BY <1>2 DEF MP!CreateMonitor, MP!DeleteMonitor, Known, TypesOK, MP!TypeOK
    <2> QED BY <1>1, <2>1, SameHandled DEF Reported, MP!Live
  <1>3. CASE n = m /\ MP!DeleteMonitor(m)
    BY <1>3 DEF MP!DeleteMonitor, MP!Live, Known, TypesOK, MP!TypeOK
  <1>4. CASE n = m /\ MP!CreateMonitor(m)
    <2>1. PICK a \in BOOLEAN, i \in Intervals : row'[m] = MP!NewRow(a, i)
      BY <1>4 DEF MP!CreateMonitor, Known, TypesOK, MP!TypeOK
    <2>2. row'[m].consecutive_failures = 0 /\ row'[m].interval_seconds = i
      BY <2>1 DEF MP!NewRow
    <2>3. IP!get_failure_threshold(i) \in Nat \ {0}
      BY PipelineAssumption, ThresholdType
    <2>4. ~(row'[m].consecutive_failures
              >= IP!get_failure_threshold(row'[m].interval_seconds))
      BY <2>2, <2>3
    <2>5. IP!OpenOf(m) = {} /\ IP!Creators(m) = {}
      BY <1>4 DEF MP!CreateMonitor, CasesCreated, IP!OpenOf, IP!Creators
    <2>6. IP!OpenOf(m)' = {} /\ IP!Creators(m)' = {}
      BY <2>5 DEF cases, IP!OpenOf, IP!Creators, IP!Exists
    <2> HIDE DEF IP!get_failure_threshold
    <2> QED BY <1>4, <2>4, <2>6 DEF Handled
  <1> QED BY <1>2, <1>3, <1>4

(* A worker of the incidents service that does nothing about m, before and   *)
(* after a step, leaves what the table tells about m.                        *)
LEMMA NotAboutIt ==
    ASSUME NEW m \in Monitor, UNCHANGED row, Handled(m),
           IP!OpenOf(m)' = IP!OpenOf(m),
           IP!Creators(m) = {}, IP!Creators(m)' = {},
           Closers(m) = {}, Closers(m)' = {}
    PROVE  Handled(m)'
  <1> HIDE DEF IP!OpenOf, IP!Creators, Closers
  <1> QED BY DEF Handled, IP!get_failure_threshold

(* The newest event of m tells what the row of m tells. *)
LEMMA LastNews ==
    ASSUME Known, check_deaths = 0, NEW m \in Monitor, MP!Live(m),
           1 \in DOMAIN incidents_queue, incidents_queue[1].monitor = m,
           \A j \in MP!QueuedOf(m) : j = 1,
           \A w \in CheckWorker : job[w].pc = "committed" => job[w].monitor # m
    PROVE  LET e == incidents_queue[1] IN
           /\ e.consecutive_failures = row[m].consecutive_failures
           /\ e.interval_seconds = row[m].interval_seconds
           /\ e.is_success <=> row[m].is_currently_up
  <1>1. MP!Settled(m)
    BY DEF MP!Settled, MP!QueuedOf
  <1>2. \A n \in Monitor : MP!Settled(n) => MP!NewestTells(n)
    BY MonitorsAssumed, MP!LastEventParts, MP!MonitorsAssumption, MP!NullAssumption
       DEF Known, MP!SoloInv
  <1>3. incidents_queue[1].consecutive_failures = row[m].consecutive_failures
    BY <1>1, <1>2 DEF MP!NewestTells
  <1>4. incidents_queue[1].interval_seconds = row[m].interval_seconds
    BY DEF Known, MP!SoloInv, MP!IntervalsKept
  <1>5. incidents_queue[1].is_success <=> incidents_queue[1].consecutive_failures = 0
    BY DEF Known, MP!UpMeansNoFailures, MP!EventsAgree, MP!Agrees
  <1>6. row[m].is_currently_up <=> row[m].consecutive_failures = 0
    BY DEF Known, MP!UpMeansNoFailures, MP!RowsAgree, MP!Agrees
  <1> QED BY <1>3, <1>4, <1>5, <1>6

LEMMA ReadOpenReported ==
    ASSUME IP!Solo, Known, Reported, UNCHANGED checks,
           NEW w \in IncidentWorker, IP!ReadOpen(w)
    PROVE  Reported'
  <1> DEFINE q == incidents_queue
             e == q[1]
  <1>0. /\ q \in Seq(MP!Event) /\ q # <<>> /\ q' = Tail(q) /\ e = Head(q)
        /\ e \in MP!Event
        /\ UNCHANGED <<incidents, incident_deaths, row, job, check_deaths>>
    BY DEF IP!ReadOpen, Known, TypesOK, MP!TypeOK, checks
  <1>1. 1 \in DOMAIN q /\ \A j \in DOMAIN q : j # 1 =>
           /\ j - 1 \in DOMAIN q' /\ q'[j - 1] = q[j]
    BY <1>0
  <1>2. PICK i \in IP!FirstOpen(e.monitor) :
          handling' = [handling EXCEPT ![w] = IP!Decision(e, i)]
    BY <1>0 DEF IP!ReadOpen
  <1>3. \A v \in IncidentWorker : v = w /\ handling[v].pc = "idle"
                                  /\ handling'[v] = IP!Decision(e, i)
    BY <1>2 DEF IP!ReadOpen, IP!Solo, IP!Idle, Known, TypesOK, IP!TypeOK
  <1> DEFINE d == IP!Decision(e, i)
             closes == e.is_success /\ IP!OpenOf(e.monitor) # {}
             opens == /\ ~e.is_success /\ IP!OpenOf(e.monitor) = {}
                      /\ e.consecutive_failures
                           >= IP!get_failure_threshold(e.interval_seconds)
  <1>4. /\ i = 0 <=> IP!OpenOf(e.monitor) = {}
        /\ i # 0 => i \in IP!OpenOf(e.monitor)
    BY DEF IP!FirstOpen, IP!OpenOf, IP!IncidentId
  <1>5. /\ closes => d.pc = "resolving" /\ d.incident = i
                     /\ incidents[i].monitor = e.monitor
        /\ opens => d.pc = "creating" /\ d.monitor = e.monitor
        /\ ~closes => d.pc # "resolving"
        /\ ~opens => d.pc # "creating"
    <2> HIDE DEF IP!get_failure_threshold
    <2>1. closes => incidents[i].monitor = e.monitor
      BY <1>4 DEF IP!OpenOf
    <2> QED BY <1>0, <1>4, <2>1 DEF IP!Decision, IP!Idle, MP!Event
  <1> HIDE DEF d
  <1>6. \A n \in Monitor : /\ IP!OpenOf(n)' = IP!OpenOf(n)
                           /\ IP!Creators(n) = {} /\ Closers(n) = {}
    BY <1>0, <1>3 DEF IP!OpenOf, IP!Exists, IP!Creators, Closers
  <1>7. \A n \in Monitor : /\ IP!Creators(n)' # {} <=> opens /\ e.monitor = n
                           /\ Closers(n)' # {} <=> closes /\ e.monitor = n
    BY <1>0, <1>3, <1>5 DEF IP!Creators, Closers, d
  <1> SUFFICES ASSUME NoDeaths', NEW n \in Monitor, MP!Live(n)', NoNews(n)'
               PROVE  Handled(n)'
    BY DEF Reported
  <1>8. NoDeaths /\ MP!Live(n) /\ \A j \in MP!QueuedOf(n) : j = 1
    BY <1>0, <1>1 DEF NoDeaths, MP!Live, NoNews, MP!QueuedOf
  <1>9. CASE e.monitor # n
    <2>1. NoNews(n)
      BY <1>0, <1>8, <1>9 DEF NoNews, MP!QueuedOf
    <2> QED BY <1>0, <1>6, <1>7, <1>8, <1>9, <2>1, NotAboutIt DEF Reported
  <1>10. CASE e.monitor = n
    <2>1. /\ e.consecutive_failures = row[n].consecutive_failures
          /\ e.interval_seconds = row[n].interval_seconds
          /\ e.is_success <=> row[n].is_currently_up
      BY <1>0, <1>1, <1>8, <1>10, LastNews DEF NoDeaths, NoNews
    <2>2. row[n].is_currently_up =>
            ~(row[n].consecutive_failures
                 >= IP!get_failure_threshold(row[n].interval_seconds))
      BY <1>8, ThresholdAbove
    <2> HIDE DEF IP!get_failure_threshold
    <2>3. row[n].is_currently_up =>
            IP!Creators(n)' = {} /\ (IP!OpenOf(n)' # {} => Closers(n)' # {})
      BY <1>6, <1>7, <1>10, <2>1
    <2>4. row[n].consecutive_failures
              >= IP!get_failure_threshold(row[n].interval_seconds) =>
            (IP!OpenOf(n)' # {} \/ IP!Creators(n)' # {}) /\ Closers(n)' = {}
      BY <1>6, <1>7, <1>10, <2>1, <2>2
    <2> QED BY <1>0, <2>3, <2>4 DEF Handled, IP!get_failure_threshold
  <1> QED BY <1>9, <1>10

LEMMA CreateReported ==
    ASSUME IP!Solo, Known, Reported, UNCHANGED checks,
           NEW w \in IncidentWorker, IP!Create(w)
    PROVE  Reported'
  <1>0. PICK m \in Monitor, k \in IP!IncidentId :
          handling[w].monitor = m /\ next_id = k
    BY CasesAssumed, IP!HandlingFields, IP!IncidentsAssumption, IP!NullAssumption
       DEF IP!Create, Known, TypesOK
  <1>1. /\ IP!OpenOf(m)' = {k}
        /\ \A n \in Monitor : n # m => IP!OpenOf(n)' = IP!OpenOf(n)
    BY <1>0, CasesAssumed, IP!CreateTable, IP!IncidentsAssumption, IP!NullAssumption
       DEF Known, TypesOK
  <1>2. \A v \in IncidentWorker : /\ handling[v].pc = "creating" /\ handling[v].monitor = m
                                  /\ handling'[v].pc = "alerting"
    BY <1>0 DEF IP!Create, IP!Solo, Known, TypesOK, IP!TypeOK
  <1>3. UNCHANGED <<row, job, incidents_queue, check_deaths, incident_deaths>>
    BY DEF IP!Create, checks
  <1> SUFFICES ASSUME NoDeaths', NEW n \in Monitor, MP!Live(n)', NoNews(n)'
               PROVE  Handled(n)'
    BY DEF Reported
  <1>4. Handled(n)
    BY <1>3 DEF Reported, NoDeaths, MP!Live, NoNews, MP!QueuedOf
  <1>5. IP!Creators(n)' = {} /\ Closers(n)' = {} /\ Closers(n) = {}
    BY <1>2 DEF IP!Creators, Closers
  <1>6. CASE n # m
    <2>1. IP!Creators(n) = {}
      BY <1>2, <1>6 DEF IP!Creators
    <2> QED BY <1>1, <1>3, <1>4, <1>5, <1>6, <2>1, NotAboutIt
  <1>7. CASE n = m
    <2>1. IP!Creators(m) # {}
      BY <1>0, <1>2 DEF IP!Creators
    <2>2. ~row'[m].is_currently_up
      BY <1>3, <1>4, <1>7, <2>1 DEF Handled
    <2> QED BY <1>1, <1>5, <1>7, <2>2 DEF Handled
  <1> QED BY <1>6, <1>7

LEMMA ResolveReported ==
    ASSUME IP!Solo, Known, Reported, UNCHANGED checks,
           NEW w \in IncidentWorker, IP!Resolve(w)
    PROVE  Reported'
  <1>0. PICK i \in IP!IncidentId, m \in Monitor :
          handling[w].incident = i /\ incidents[i].monitor = m
    <2>1. handling[w].incident \in IP!IncidentId
      BY CasesAssumed, IP!HandlingFields, IP!IncidentsAssumption, IP!NullAssumption
         DEF IP!Resolve, Known, TypesOK
    <2>2. incidents[handling[w].incident] \in IP!Incident
      BY <2>1 DEF IP!Resolve, IP!Exists, Known, TypesOK, IP!TypeOK
    <2> QED BY <2>1, <2>2 DEF IP!Incident
  <1>1. /\ IP!OpenOf(m)' = {}
        /\ \A n \in Monitor : n # m => IP!OpenOf(n)' = IP!OpenOf(n)
    BY <1>0, CasesAssumed, IP!ResolveTable, IP!IncidentsAssumption, IP!NullAssumption
       DEF Known, TypesOK
  <1>2. \A v \in IncidentWorker : /\ v = w /\ handling[v].pc = "resolving"
                                  /\ handling'[v].pc = "alerting"
    BY DEF IP!Resolve, IP!Solo, Known, TypesOK, IP!TypeOK
  <1>3. UNCHANGED <<row, job, incidents_queue, check_deaths, incident_deaths>>
    BY DEF IP!Resolve, checks
  <1> SUFFICES ASSUME NoDeaths', NEW n \in Monitor, MP!Live(n)', NoNews(n)'
               PROVE  Handled(n)'
    BY DEF Reported
  <1>4. Handled(n)
    BY <1>3 DEF Reported, NoDeaths, MP!Live, NoNews, MP!QueuedOf
  <1>5. IP!Creators(n)' = {} /\ Closers(n)' = {} /\ IP!Creators(n) = {}
    BY <1>2 DEF IP!Creators, Closers
  <1>6. CASE n # m
    <2>1. Closers(n) = {}
      BY <1>0, <1>2, <1>6 DEF Closers
    <2> QED BY <1>1, <1>3, <1>4, <1>5, <1>6, <2>1, NotAboutIt
  <1>7. CASE n = m
    <2>1. Closers(m) # {}
      BY <1>0, <1>2 DEF Closers
    <2> HIDE DEF IP!get_failure_threshold
    <2>2. ~(row'[m].consecutive_failures
              >= IP!get_failure_threshold(row'[m].interval_seconds))
      BY <1>3, <1>4, <1>7, <2>1 DEF Handled
    <2> QED BY <1>1, <1>5, <1>7, <2>2 DEF Handled
  <1> QED BY <1>6, <1>7

LEMMA IncidentTaskReported ==
    ASSUME IP!Solo, Known, Reported, UNCHANGED checks,
           NEW w \in IncidentWorker, IP!WorkerStep(w) \/ IP!TaskDies(w)
    PROVE  Reported'
  <1>1. CASE IP!ReadOpen(w)
    BY <1>1, ReadOpenReported
  <1>2. CASE IP!Create(w)
    BY <1>2, CreateReported
  <1>3. CASE IP!Resolve(w)
    BY <1>3, ResolveReported
  <1>4. CASE IP!ResolveFails(w)
    BY <1>4 DEF IP!ResolveFails, Known, IP!SoloInv, IP!DecisionStands
  <1>5. CASE IP!AskSettings(w) \/ IP!SendOne(w)
    <2>1. \A v \in IncidentWorker : v = w
      BY DEF IP!Solo
    <2>2. UNCHANGED <<incidents, incidents_queue, incident_deaths,
                      row, job, check_deaths>>
      BY <1>5 DEF IP!AskSettings, IP!SendOne, checks
    <2>3. handling[w].pc \in {"alerting", "sending"}
      BY <1>5 DEF IP!AskSettings, IP!SendOne
    <2>4. handling'[w].pc \in {"idle", "sending"}
      <3>1. CASE IP!AskSettings(w)
        BY <3>1 DEF IP!AskSettings, IP!Idle, Known, TypesOK, IP!TypeOK
      <3>2. CASE IP!SendOne(w)
        <4>1. handling[w] \in [pc : {"sending"}, incident : IP!IncidentId,
                               kind : IP!Kind, todo : (SUBSET IP!Channel) \ {{}}]
          BY <3>2 DEF IP!SendOne, IP!Handling, IP!Idle, Known, TypesOK, IP!TypeOK
        <4> QED BY <3>2, <4>1 DEF IP!SendOne, IP!Idle, Known, TypesOK, IP!TypeOK
      <3> QED BY <1>5, <3>1, <3>2
    <2> SUFFICES ASSUME NoDeaths', NEW n \in Monitor, MP!Live(n)', NoNews(n)'
                 PROVE  Handled(n)'
      BY DEF Reported
    <2>5. Handled(n)
      BY <2>2 DEF Reported, NoDeaths, MP!Live, NoNews, MP!QueuedOf
    <2>6. /\ IP!Creators(n) = {} /\ IP!Creators(n)' = {}
          /\ Closers(n) = {} /\ Closers(n)' = {}
          /\ IP!OpenOf(n)' = IP!OpenOf(n)
      BY <2>1, <2>2, <2>3, <2>4 DEF IP!Creators, Closers, IP!OpenOf, IP!Exists
    <2> QED BY <2>2, <2>5, <2>6, NotAboutIt
  <1>6. CASE IP!TaskDies(w)
    <2>1. incident_deaths' # 0
      BY <1>6, PipelineAssumption DEF IP!TaskDies, Known, TypesOK, IP!TypeOK
    <2> QED BY <2>1 DEF Reported, NoDeaths
  <1> QED BY <1>1, <1>2, <1>3, <1>4, <1>5, <1>6 DEF IP!WorkerStep

LEMMA IncidentTaskCreated ==
    ASSUME Known, CasesCreated, UNCHANGED checks,
           NEW w \in IncidentWorker, IP!WorkerStep(w) \/ IP!TaskDies(w)
    PROVE  CasesCreated'
  <1>0. /\ UNCHANGED created
        /\ handling \in [IncidentWorker -> IP!Handling]
    BY DEF checks, Known, TypesOK, IP!TypeOK
  <1>1. ASSUME UNCHANGED incidents,
               handling'[w].pc = "creating" => handling'[w].monitor \in created,
               \A v \in IncidentWorker : v # w => handling'[v] = handling[v]
        PROVE  CasesCreated'
    BY <1>0, <1>1 DEF CasesCreated, IP!Exists
  <1>2. CASE IP!ReadOpen(w)
    <2> DEFINE e == Head(incidents_queue)
    <2>1. e \in MP!Event /\ e = incidents_queue[1] /\ 1 \in DOMAIN incidents_queue
      BY <1>2 DEF IP!ReadOpen, Known, TypesOK, MP!TypeOK
    <2>2. e.monitor \in created
      BY <2>1 DEF MP!Event, Known, MP!SoloInv, MP!OnlyCreated
    <2>3. PICK i \in IP!FirstOpen(e.monitor) : handling'[w] = IP!Decision(e, i)
      BY <1>0, <1>2 DEF IP!ReadOpen
    <2>4. handling'[w].pc = "creating" => handling'[w].monitor = e.monitor
      BY <2>3 DEF IP!Decision, IP!Idle
    <2> QED BY <1>0, <1>1, <1>2, <2>2, <2>4 DEF IP!ReadOpen
  <1>3. CASE IP!Create(w)
    <2> DEFINE new == [monitor |-> handling[w].monitor, owned |-> TRUE,
                       status |-> "OPEN", by_client |-> FALSE]
    <2>1. new.monitor \in created
      BY <1>3 DEF IP!Create, CasesCreated
    <2>2. \A i \in IP!IncidentId : incidents'[i] = incidents[i] \/ incidents'[i] = new
      BY <1>3 DEF IP!Create, Known, TypesOK, IP!TypeOK
    <2>3. \A v \in IncidentWorker : handling'[v] = handling[v] \/ handling'[v].pc = "alerting"
      BY <1>0, <1>3 DEF IP!Create
    <2> HIDE DEF new
    <2> QED BY <1>0, <2>1, <2>2, <2>3 DEF CasesCreated, IP!Exists, IP!IncidentId
  <1>4. CASE IP!Resolve(w)
    <2> DEFINE i == handling[w].incident
    <2>1. i \in IP!IncidentId
      BY <1>4, CasesAssumed, IP!HandlingFields, IP!IncidentsAssumption,
         IP!NullAssumption DEF IP!Resolve, Known, TypesOK
    <2>2. incidents[i] \in IP!Incident /\ IP!Exists(i)
      BY <1>4, <2>1 DEF IP!Resolve, IP!Exists, Known, TypesOK, IP!TypeOK
    <2>3. /\ incidents'[i].monitor = incidents[i].monitor
          /\ \A j \in IP!IncidentId : j # i => incidents'[j] = incidents[j]
      BY <1>4, <2>1, <2>2 DEF IP!Resolve, Known, TypesOK, IP!TypeOK, IP!Incident
    <2>4. \A v \in IncidentWorker : handling'[v] = handling[v] \/ handling'[v].pc = "alerting"
      BY <1>0, <1>4 DEF IP!Resolve
    <2> HIDE DEF i
    <2> QED BY <1>0, <2>1, <2>2, <2>3, <2>4 DEF CasesCreated, IP!Exists, IP!IncidentId
  <1>5. CASE IP!ResolveFails(w) \/ IP!TaskDies(w) \/ IP!AskSettings(w)
    BY <1>0, <1>1, <1>5 DEF IP!ResolveFails, IP!TaskDies, IP!AskSettings, IP!Idle
  <1>6. CASE IP!SendOne(w)
    <2>1. handling[w] \in [pc : {"sending"}, incident : IP!IncidentId, kind : IP!Kind,
                           todo : (SUBSET IP!Channel) \ {{}}]
      BY <1>0, <1>6 DEF IP!SendOne, IP!Handling, IP!Idle
    <2>2. handling'[w].pc # "creating"
      BY <1>0, <1>6, <2>1 DEF IP!SendOne, IP!Idle
    <2> QED BY <1>0, <1>1, <1>6, <2>2 DEF IP!SendOne
  <1> QED BY <1>2, <1>3, <1>4, <1>5, <1>6 DEF IP!WorkerStep

TableInv == Reported /\ CasesCreated

LEMMA NextTables ==
    ASSUME MP!Solo, IP!Solo, Known, TableInv, [Next]_vars PROVE TableInv'
  <1>1. ASSUME UNCHANGED cases, created \subseteq created' PROVE CasesCreated'
    BY <1>1 DEF TableInv, CasesCreated, cases, IP!Exists
  <1>2. ASSUME NEW w \in CheckWorker, MP!WorkerStep(w) \/ MP!TaskDies(w),
               UNCHANGED cases
        PROVE  TableInv'
    <2>1. UNCHANGED created
      BY <1>2 DEF MP!WorkerStep, MP!TaskDies, MP!StartTick, MP!ScheduleOne, MP!EndTick,
                  MP!StartCheck, MP!RunCheck, MP!Commit, MP!CommitFails, MP!Publish
    <2>2. Reported'
      BY <1>2, CheckTaskReported DEF TableInv
    <2> QED BY <1>1, <1>2, <2>1, <2>2 DEF TableInv
  <1>3. ASSUME NEW m \in Monitor, MP!CreateMonitor(m) \/ MP!DeleteMonitor(m),
               UNCHANGED cases
        PROVE  TableInv'
    <2>1. created \subseteq created'
      BY <1>3 DEF MP!CreateMonitor, MP!DeleteMonitor
    <2>2. Reported'
      BY <1>3, RequestReported DEF TableInv
    <2> QED BY <1>1, <1>3, <2>1, <2>2 DEF TableInv
  <1>4. ASSUME UNCHANGED cases,
               UNCHANGED <<created, row, incidents_queue, job, check_deaths>>
        PROVE  TableInv'
    <2>1. Reported'
      BY <1>4, NoNewsStep DEF TableInv
    <2> QED BY <1>1, <1>4, <2>1 DEF TableInv
  <1>5. ASSUME NEW w \in IncidentWorker,
               IncidentStep(w) \/ (I!TaskDies(w) /\ UNCHANGED checks)
        PROVE  TableInv'
    <2>1. IP!WorkerStep(w) \/ IP!TaskDies(w)
      BY <1>5, CasesWorker DEF IncidentStep
    <2>2. UNCHANGED checks
      BY <1>5 DEF IncidentStep
    <2> QED BY <2>1, <2>2, IncidentTaskReported, IncidentTaskCreated DEF TableInv
  <1>6. ASSUME NEW w \in CheckWorker,
               CheckStep(w) \/ (M!TaskDies(w) /\ UNCHANGED cases)
        PROVE  TableInv'
    BY <1>2, <1>6, MonitorsWorker DEF CheckStep
  <1>7. CASE Beat \/ \E m \in Monitor : Elapse(m) \/ Flip(m)
    BY <1>4, <1>7, MonitorsClient
       DEF Beat, Elapse, Flip, MP!BeatTick, MP!Elapse, MP!FlipSite
  <1>8. CASE Request
    <2>1. UNCHANGED cases
      BY <1>8 DEF Request
    <2>2. (\E m \in Monitor : MP!CreateMonitor(m)) \/ MP!ClientStep
      BY <1>8, MonitorsClient DEF Request
    <2>3. ASSUME NEW m \in Monitor, MP!ManualCheck(m) PROVE TableInv'
      BY <1>4, <2>1, <2>3 DEF MP!ManualCheck
    <2> QED BY <1>3, <2>1, <2>2, <2>3 DEF MP!ClientStep
  <1>9. CASE UNCHANGED vars
    BY <1>4, <1>9 DEF vars, checks
  <1> QED BY <1>5, <1>6, <1>7, <1>8, <1>9 DEF Next, TaskDies

LEMMA InitTables == Init => TableInv
  <1> SUFFICES ASSUME Init PROVE TableInv
    OBVIOUS
  <1>1. MP!Init /\ IP!Init
    BY MonitorsInit, CasesInit DEF Init
  <1>2. Reported
    BY <1>1 DEF MP!Init, Reported, MP!Live
  <1>3. CasesCreated
    BY <1>1 DEF IP!Init, CasesCreated, IP!Exists, IP!Idle
  <1> QED BY <1>2, <1>3 DEF TableInv

(* With one worker process on each side, no update request in flight and no  *)
(* lost task, the tables of the two services agree whenever nothing is under *)
(* way: what run_single_monitor_task committed last decides, through         *)
(* incidents_queue and process_incident_task, whether an incident is open.   *)
THEOREM SoloTablesAgree ==
    ASSUME IsFiniteSet(CheckWorker), Cardinality(CheckWorker) = 1,
           Cardinality(IncidentWorker) = 1
    PROVE  Spec => []TablesAgree
  <1>1. MP!Solo /\ IP!Solo
    <2>1. \E x : CheckWorker = {x}
      BY FS_Singleton
    <2>2. \E x : IncidentWorker = {x}
      BY FS_Singleton, PipelineAssumption
    <2> QED BY <2>1, <2>2 DEF MP!Solo, IP!Solo
  <1>2. Known /\ TableInv /\ [Next]_vars => TableInv'
    BY <1>1, NextTables
  <1>3. TableInv => TablesAgree
    <2> SUFFICES ASSUME TableInv, Quiet, NEW m \in Monitor, M!Live(m)
                 PROVE  /\ row[m].is_currently_up => I!OpenOf(m) = {}
                        /\ row[m].consecutive_failures
                              >= I!get_failure_threshold(row[m].interval_seconds)
                                 => I!OpenOf(m) # {}
      BY DEF TablesAgree
    <2>1. NoDeaths /\ MP!Live(m) /\ NoNews(m)
      BY DEF Quiet, NoDeaths, M!Live, MP!Live, NoNews, MP!QueuedOf
    <2>2. Handled(m)
      BY <2>1 DEF TableInv, Reported
    <2>3. IP!Creators(m) = {} /\ Closers(m) = {}
      BY DEF Quiet, IP!Creators, Closers
    <2> HIDE DEF IP!get_failure_threshold
    <2> QED BY <2>2, <2>3, CasesOpen DEF Handled
  <1>4. Spec => []Known
    BY <1>1, KnownHolds
  <1> QED BY <1>2, <1>3, <1>4, InitTables, PTL DEF Spec

-----------------------------------------------------------------------------
(* The incident of a monitor that was deleted *)

(* The monitors service has forgotten m and has nothing to say about it. *)
Forgotten(m) ==
    /\ m \in created /\ ~MP!Live(m)
    /\ \A n \in DOMAIN incidents_queue : incidents_queue[n].monitor # m
    /\ \A w \in CheckWorker : job[w].pc = "committed" => job[w].monitor # m

LEMMA WorkerForgets ==
    ASSUME MP!TypeOK, NEW m \in Monitor, Forgotten(m),
           NEW w \in CheckWorker, MP!WorkerStep(w) \/ MP!TaskDies(w)
    PROVE  Forgotten(m)'
  <1>0. job \in [CheckWorker -> MP!Job] /\ row \in [Monitor -> MP!Row \cup {None}]
    BY DEF MP!TypeOK
  <1>1. ASSUME UNCHANGED <<created, row, incidents_queue>>,
               \A v \in CheckWorker : v # w => job'[v] = job[v],
               job'[w].pc # "committed"
        PROVE  Forgotten(m)'
    BY <1>1 DEF Forgotten, MP!Live
  <1>2. CASE MP!StartTick(w) \/ MP!ScheduleOne(w) \/ MP!EndTick(w) \/ MP!StartCheck(w)
             \/ MP!RunCheck(w) \/ MP!CommitFails(w) \/ MP!TaskDies(w)
    <2>1. UNCHANGED <<created, row, incidents_queue>>
      BY <1>2 DEF MP!StartTick, MP!ScheduleOne, MP!EndTick, MP!StartCheck,
                  MP!RunCheck, MP!CommitFails, MP!TaskDies
    <2>2. \A v \in CheckWorker : v # w => job'[v] = job[v]
      BY <1>0, <1>2 DEF MP!StartTick, MP!ScheduleOne, MP!EndTick, MP!StartCheck,
                        MP!RunCheck, MP!CommitFails, MP!TaskDies
    <2>3. job'[w].pc # "committed"
      <3>1. CASE MP!ScheduleOne(w)
        <4>1. PICK n \in job[w].todo : job' = [job EXCEPT ![w].todo = @ \ {n}]
          BY <3>1 DEF MP!ScheduleOne
        <4>2. job[w] \in [pc : {"tick"}, todo : SUBSET Monitor]
          BY <1>0, <3>1 DEF MP!ScheduleOne, MP!Job, MP!Idle
        <4> QED BY <1>0, <4>1, <4>2
      <3>2. CASE ~MP!ScheduleOne(w)
        BY <1>0, <1>2, <3>2 DEF MP!StartTick, MP!EndTick, MP!StartCheck, MP!RunCheck,
                                MP!CommitFails, MP!TaskDies, MP!Idle
      <3> QED BY <3>1, <3>2
    <2> QED BY <1>1, <2>1, <2>2, <2>3
  <1>3. CASE MP!Commit(w)
    <2> DEFINE n == job[w].monitor
    <2>1. MP!Live(n) /\ n # m
      BY <1>3 DEF MP!Commit, Forgotten
    <2>2. row'[m] = row[m]
      BY <1>0, <1>3, <2>1 DEF MP!Commit
    <2>3. job'[w].monitor = n /\ \A v \in CheckWorker : v # w => job'[v] = job[v]
      BY <1>0, <1>3 DEF MP!Commit
    <2>4. UNCHANGED <<created, incidents_queue>>
      BY <1>3 DEF MP!Commit
    <2> QED BY <2>1, <2>2, <2>3, <2>4 DEF Forgotten, MP!Live
  <1>4. CASE MP!Publish(w)
    <2> DEFINE e == MP!EventOf(job[w])
    <2>1. /\ incidents_queue' = Append(incidents_queue, e) /\ e.monitor # m
          /\ job[w].pc = "committed" /\ UNCHANGED <<created, row>>
      BY <1>4 DEF MP!Publish, MP!EventOf, Forgotten
    <2>2. \A v \in CheckWorker : job'[v] = job[v] \/ job'[v].pc = "idle"
      BY <1>0, <1>4 DEF MP!Publish, MP!Idle
    <2> HIDE DEF e
    <2>3. \A n \in DOMAIN incidents_queue' :
             \/ incidents_queue'[n] = e
             \/ n \in DOMAIN incidents_queue
                   /\ incidents_queue'[n] = incidents_queue[n]
      BY <2>1 DEF MP!TypeOK
    <2>4. \A n \in DOMAIN incidents_queue' : incidents_queue'[n].monitor # m
      BY <2>1, <2>3 DEF Forgotten
    <2> QED BY <2>1, <2>2, <2>4 DEF Forgotten, MP!Live
  <1> QED BY <1>2, <1>3, <1>4 DEF MP!WorkerStep

LEMMA MonitorsForget ==
    ASSUME MP!TypeOK, [MP!Next]_(MP!vars), NEW m \in Monitor, Forgotten(m)
    PROVE  Forgotten(m)'
  <1>0. row \in [Monitor -> MP!Row \cup {None}]
    BY DEF MP!TypeOK
  <1>1. ASSUME UNCHANGED <<created, row, incidents_queue, job>> PROVE Forgotten(m)'
    BY <1>1 DEF Forgotten, MP!Live
  <1>2. CASE MP!TakeEvent
    <2>1. \A n \in DOMAIN incidents_queue' : incidents_queue'[n].monitor # m
      <3>1. incidents_queue \in Seq(MP!Event) /\ incidents_queue # <<>>
        BY <1>2 DEF MP!TakeEvent, MP!TypeOK
      <3>2. \A n \in DOMAIN incidents_queue' :
               n + 1 \in DOMAIN incidents_queue
               /\ incidents_queue'[n] = incidents_queue[n + 1]
        BY <1>2, <3>1 DEF MP!TakeEvent
      <3> QED BY <3>2 DEF Forgotten
    <2> QED BY <1>2, <2>1 DEF MP!TakeEvent, Forgotten, MP!Live
  <1>3. ASSUME NEW n \in Monitor, MP!CreateMonitor(n) PROVE Forgotten(m)'
    <2>1. n # m
      BY <1>3 DEF MP!CreateMonitor, Forgotten
    <2>2. row'[m] = row[m] /\ created \subseteq created'
      BY <1>0, <1>3, <2>1 DEF MP!CreateMonitor
    <2> QED BY <1>3, <2>2 DEF MP!CreateMonitor, Forgotten, MP!Live
  <1>4. ASSUME NEW n \in Monitor, MP!DeleteMonitor(n) PROVE Forgotten(m)'
    <2>1. row'[m] \in {row[m], None}
      BY <1>0, <1>4 DEF MP!DeleteMonitor
    <2> QED BY <1>4, <2>1 DEF MP!DeleteMonitor, Forgotten, MP!Live
  <1>5. ASSUME NEW w \in CheckWorker, MP!WorkerStep(w) \/ MP!TaskDies(w)
        PROVE  Forgotten(m)'
    BY <1>5, WorkerForgets
  <1>6. CASE UNCHANGED MP!vars
    BY <1>1, <1>6 DEF MP!vars
  <1> QED BY <1>1, <1>2, <1>3, <1>4, <1>5, <1>6
          DEF MP!Next, MP!ServiceStep, MP!ClientStep, MP!BeatTick, MP!FlipSite,
              MP!Elapse, MP!ManualCheck

(* No worker is about to close an incident of m. *)
LeftOpen(m) == IP!OpenOf(m) # {} /\ Closers(m) = {}

(* In the pipeline rows of the incidents table are made with fresh keys and  *)
(* never vanish; workers and messages are about rows that exist.             *)
KeysBelow == \A i \in IP!IncidentId : IP!Exists(i) => i < next_id
TasksHaveRows ==
    \A w \in IncidentWorker :
        handling[w].pc \in {"resolving", "alerting", "sending"} =>
            IP!Exists(handling[w].incident)
MessagesHaveRows ==
    \A n \in DOMAIN notifications_queue : IP!Exists(notifications_queue[n].incident)
RowInv == KeysBelow /\ TasksHaveRows /\ MessagesHaveRows

IncidentTask(w) == IP!WorkerStep(w) \/ IP!TaskDies(w)

LEMMA RowsPersist ==
    ASSUME IP!TypeOK, KeysBelow, NEW w \in IncidentWorker, IncidentTask(w),
           NEW i \in IP!IncidentId, IP!Exists(i)
    PROVE  IP!Exists(i)' /\ incidents'[i].monitor = incidents[i].monitor
  <1>0. incidents \in [IP!IncidentId -> IP!Incident \cup {None}]
    BY DEF IP!TypeOK
  <1>1. CASE UNCHANGED incidents
    BY <1>1 DEF IP!Exists
  <1>2. CASE IP!Create(w)
    <2>1. next_id \in Nat /\ i \in Nat /\ i < next_id
      BY <1>2 DEF IP!Create, KeysBelow, IP!IncidentId
    <2>2. incidents'[i] = incidents[i]
      BY <1>0, <1>2, <2>1 DEF IP!Create
    <2> QED BY <2>2 DEF IP!Exists
  <1>3. CASE IP!Resolve(w)
    <2> DEFINE k == handling[w].incident
    <2>1. k \in IP!IncidentId
      BY <1>3, CasesAssumed, IP!HandlingFields, IP!IncidentsAssumption,
         IP!NullAssumption DEF IP!Resolve
    <2>2. incidents[k] \in IP!Incident
      BY <1>0, <1>3, <2>1 DEF IP!Resolve, IP!Exists
    <2>3. /\ incidents'[k].monitor = incidents[k].monitor
          /\ incidents'[k] \in IP!Incident
          /\ i # k => incidents'[i] = incidents[i]
      BY <1>0, <1>3, <2>1, <2>2 DEF IP!Resolve, IP!Incident, IP!Status
    <2> QED BY <2>1, <2>3, CasesAssumed DEF IP!Exists, IP!NullAssumption
  <1> QED BY <1>1, <1>2, <1>3
          DEF IncidentTask, IP!WorkerStep, IP!TaskDies, IP!ReadOpen, IP!ResolveFails,
              IP!AskSettings, IP!SendOne

LEMMA TaskRows ==
    ASSUME IP!TypeOK, RowInv, NEW w \in IncidentWorker, IncidentTask(w)
    PROVE  RowInv'
  <1>0. /\ handling \in [IncidentWorker -> IP!Handling]
        /\ incidents \in [IP!IncidentId -> IP!Incident \cup {None}]
        /\ notifications_queue \in Seq(IP!Message)
        /\ next_id \in Nat
    BY PipelineAssumption DEF IP!TypeOK
  <1>1. \A i \in IP!IncidentId : IP!Exists(i) => IP!Exists(i)'
    BY RowsPersist DEF RowInv
  <1>2. \A v \in IncidentWorker :
           handling[v].pc \in {"resolving", "alerting", "sending"} =>
               handling[v].incident \in IP!IncidentId
    BY CasesAssumed, IP!HandlingFields, IP!IncidentsAssumption, IP!NullAssumption
  <1>3. /\ \A v \in IncidentWorker : v # w => handling'[v] = handling[v]
        /\ next_id' \in {next_id, next_id + 1}
        /\ ~IP!SendOne(w) => UNCHANGED notifications_queue
        /\ handling'[w].pc \in {"alerting", "sending"} =>
             \/ IP!Create(w) /\ handling'[w].incident = next_id
             \/ /\ handling[w].pc \in {"resolving", "alerting", "sending"}
                /\ handling'[w].incident = handling[w].incident
    BY CasesAssumed, IP!AnnouncementSteps, IP!IncidentsAssumption, IP!NullAssumption
       DEF IncidentTask, IP!Resolve, IP!AskSettings, IP!SendOne
  <1>4. IP!Create(w) => /\ next_id \in IP!IncidentId /\ incidents'[next_id] # None
                        /\ next_id' = next_id + 1
    <2> SUFFICES ASSUME IP!Create(w)
                 PROVE  next_id \in IP!IncidentId /\ incidents'[next_id] # None
                        /\ next_id' = next_id + 1
      OBVIOUS
    <2>1. handling[w].monitor \in Monitor
      BY CasesAssumed, IP!HandlingFields, IP!IncidentsAssumption, IP!NullAssumption
         DEF IP!Create
    <2>2. incidents'[next_id] \in IP!Incident
      BY <1>0, <2>1 DEF IP!Create, IP!Incident, IP!Status
    <2>3. None \notin IP!Incident
      BY PipelineAssumption, CasesData
    <2> QED BY <2>2, <2>3 DEF IP!Create
  <1>5. KeysBelow'
    <2> SUFFICES ASSUME NEW i \in IP!IncidentId, IP!Exists(i)' PROVE i < next_id'
      BY DEF KeysBelow, IP!IncidentId
    <2>1. CASE IP!Exists(i)
      BY <1>0, <1>3, <2>1 DEF RowInv, KeysBelow, IP!IncidentId
    <2>2. CASE ~IP!Exists(i)
      <3>1. i = next_id /\ IP!Create(w)
        <4>1. CASE IP!Resolve(w)
          <5>1. handling[w].incident # i
            BY <2>2, <4>1 DEF IP!Resolve
          <5> QED BY <1>0, <2>2, <4>1, <5>1 DEF IP!Resolve, IP!Exists
        <4>2. CASE IP!Create(w)
          BY <1>0, <2>2, <4>2 DEF IP!Create, IP!Exists
        <4> QED BY <2>2, <4>1, <4>2
                DEF IncidentTask, IP!WorkerStep, IP!TaskDies, IP!ReadOpen,
                    IP!ResolveFails, IP!AskSettings, IP!SendOne, IP!Exists
      <3> QED BY <1>0, <1>4, <3>1
    <2> QED BY <2>1, <2>2
  <1>6. TasksHaveRows'
    <2> SUFFICES ASSUME NEW v \in IncidentWorker,
                        handling'[v].pc \in {"resolving", "alerting", "sending"}
                 PROVE  incidents'[handling'[v].incident] # None
      BY DEF TasksHaveRows, IP!Exists
    <2>1. CASE v # w
      BY <1>1, <1>2, <1>3, <2>1 DEF RowInv, TasksHaveRows, IP!Exists
    <2>2. CASE v = w /\ handling'[w].pc \in {"alerting", "sending"}
      BY <1>1, <1>2, <1>3, <1>4, <2>2 DEF RowInv, TasksHaveRows, IP!Exists
    <2>3. CASE v = w /\ handling'[w].pc = "resolving"
      <3>1. IP!Open(handling'[w].incident)
        BY <2>3, CasesAssumed, IP!ResolverFindsOpen, IP!IncidentsAssumption,
           IP!NullAssumption DEF IncidentTask
      <3>2. handling'[w].incident \in IP!IncidentId
        <4>1. IP!TypeOK'
          BY CasesAssumed, IP!WorkerType, IP!IncidentsAssumption, IP!NullAssumption
             DEF IncidentTask
        <4>2. handling'[w] \in IP!Handling
          BY <4>1 DEF IP!TypeOK
        <4> QED BY <2>3, <4>2 DEF IP!Handling, IP!Idle
      <3> QED BY <1>1, <2>3, <3>1, <3>2 DEF IP!Open, IP!Exists
    <2> QED BY <2>1, <2>2, <2>3
  <1>7. MessagesHaveRows'
    <2>1. \A n \in DOMAIN notifications_queue :
             notifications_queue[n].incident \in IP!IncidentId
      BY CasesAssumed, IP!MessageAt, IP!IncidentsAssumption, IP!NullAssumption
         DEF IP!Message
    <2>2. CASE UNCHANGED notifications_queue
      BY <1>1, <2>1, <2>2 DEF RowInv, MessagesHaveRows
    <2>3. CASE IP!SendOne(w)
      <3>1. \A n \in DOMAIN notifications_queue' :
               \/ n \in DOMAIN notifications_queue
                     /\ notifications_queue'[n] = notifications_queue[n]
               \/ notifications_queue'[n].incident = handling[w].incident
        BY <1>0, <2>3 DEF IP!SendOne
      <3>2. handling[w].pc = "sending"
        BY <2>3 DEF IP!SendOne
      <3> QED BY <1>1, <1>2, <2>1, <3>1, <3>2
              DEF RowInv, TasksHaveRows, MessagesHaveRows
    <2> QED BY <1>3, <2>2, <2>3
  <1> QED BY <1>5, <1>6, <1>7 DEF RowInv

LEMMA RowsHold == Spec => []RowInv
  <1>1. Init => RowInv
    <2>1. IP!Init => RowInv
      BY DEF IP!Init, RowInv, KeysBelow, TasksHaveRows, MessagesHaveRows,
             IP!Exists, IP!Idle
    <2> QED BY <2>1, CasesInit DEF Init
  <1>2. TypesOK /\ RowInv /\ [Next]_vars => RowInv'
    <2> SUFFICES ASSUME TypesOK, RowInv, [Next]_vars PROVE RowInv'
      OBVIOUS
    <2>1. CASE UNCHANGED cases
      BY <2>1 DEF cases, RowInv, KeysBelow, TasksHaveRows, MessagesHaveRows, IP!Exists
    <2>2. ASSUME NEW w \in IncidentWorker,
                 IncidentStep(w) \/ (I!TaskDies(w) /\ UNCHANGED checks)
          PROVE  RowInv'
      <3>1. IncidentTask(w)
        BY <2>2, CasesWorker DEF IncidentStep, IncidentTask
      <3> QED BY <3>1, TaskRows DEF TypesOK
    <2> QED BY <2>1, <2>2, StepKinds
  <1> QED BY <1>1, <1>2, TypesHold, PTL DEF Spec

-----------------------------------------------------------------------------
(* Whoever is told of a failure *)

(* The failures behind incident i, which exists, were committed. *)
TrulyFailed(i) == incidents[i].monitor \in confirmed

WarnersBacked ==
    \A w \in IncidentWorker :
        handling[w].pc \in {"alerting", "sending"} /\ handling[w].kind = "warning" =>
            TrulyFailed(handling[w].incident)
SentBacked ==
    \A n \in DOMAIN notifications_queue :
        notifications_queue[n].kind = "warning" =>
            TrulyFailed(notifications_queue[n].incident)
WarningInv == WarnersBacked /\ SentBacked

LEMMA RowsFailStill ==
    ASSUME TypesOK, RowInv, [Next]_vars, NEW i \in IP!IncidentId, IP!Exists(i),
           TrulyFailed(i)
    PROVE  TrulyFailed(i)'
  <1>1. incidents'[i].monitor = incidents[i].monitor
    <2>1. CASE UNCHANGED cases
      BY <2>1 DEF cases
    <2>2. ASSUME NEW w \in IncidentWorker,
                 IncidentStep(w) \/ (I!TaskDies(w) /\ UNCHANGED checks)
          PROVE  incidents'[i].monitor = incidents[i].monitor
      <3>1. IncidentTask(w)
        BY <2>2, CasesWorker DEF IncidentStep, IncidentTask
      <3> QED BY <3>1, RowsPersist DEF TypesOK, RowInv
    <2> QED BY <2>1, <2>2, StepKinds
  <1>2. PICK m \in Monitor : incidents[i].monitor = m
    BY DEF TypesOK, IP!TypeOK, IP!Exists, IP!Incident
  <1>3. m \in confirmed'
    BY <1>2, ConfirmedGrows DEF TrulyFailed
  <1> QED BY <1>1, <1>2, <1>3 DEF TrulyFailed

LEMMA TaskWarns ==
    ASSUME TypesOK, RowInv, IncidentBacked, WarningInv, [Next]_vars,
           NEW w \in IncidentWorker, IncidentTask(w)
    PROVE  WarningInv'
  <1>0. /\ handling \in [IncidentWorker -> IP!Handling]
        /\ incidents \in [IP!IncidentId -> IP!Incident \cup {None}]
        /\ notifications_queue \in Seq(IP!Message)
    BY DEF TypesOK, IP!TypeOK
  <1>1. \A v \in IncidentWorker : v # w => handling'[v] = handling[v]
    BY CasesAssumed, IP!AnnouncementSteps, IP!IncidentsAssumption, IP!NullAssumption
       DEF IncidentTask, TypesOK
  <1>2. ~IP!SendOne(w) => UNCHANGED notifications_queue
    BY CasesAssumed, IP!AnnouncementSteps, IP!IncidentsAssumption, IP!NullAssumption
       DEF IncidentTask, TypesOK
  <1>3. handling'[w].pc \in {"alerting", "sending"} /\ handling'[w].kind = "warning" =>
          \/ IP!Create(w) /\ handling'[w].incident = next_id
          \/ /\ handling[w].pc \in {"alerting", "sending"}
             /\ handling[w].kind = "warning"
             /\ handling'[w].incident = handling[w].incident
    BY CasesAssumed, IP!AnnouncementSteps, IP!IncidentsAssumption, IP!NullAssumption
       DEF IncidentTask, TypesOK, IP!AskSettings, IP!SendOne
  <1>4. \A v \in IncidentWorker :
           handling[v].pc \in {"alerting", "sending"} =>
               handling[v].incident \in IP!IncidentId /\ IP!Exists(handling[v].incident)
    BY CasesAssumed, IP!HandlingFields, IP!IncidentsAssumption, IP!NullAssumption
       DEF TypesOK, RowInv, TasksHaveRows
  <1> DEFINE FailedNow(i) == incidents'[i].monitor \in confirmed'
  <1>5. ASSUME NEW i \in IP!IncidentId, IP!Exists(i), TrulyFailed(i)
        PROVE  FailedNow(i)
    BY <1>5, RowsFailStill DEF TrulyFailed
  <1>6. ASSUME IP!Create(w) PROVE FailedNow(next_id)
    <2>1. PICK m \in Monitor : handling[w].monitor = m
      BY <1>6, CasesAssumed, IP!HandlingFields, IP!IncidentsAssumption,
         IP!NullAssumption DEF IP!Create, TypesOK
    <2>2. m \in confirmed
      <3>1. w \in IP!Creators(m)
        BY <1>6, <2>1 DEF IP!Create, IP!Creators
      <3> QED BY <3>1, BackedMeans DEF Involved
    <2>3. m \in confirmed'
      BY <2>2, ConfirmedGrows
    <2>4. incidents'[next_id].monitor = m
      BY <1>0, <1>6, <2>1 DEF IP!Create
    <2> QED BY <2>3, <2>4
  <1>7. \A v \in IncidentWorker :
           handling'[v].pc \in {"alerting", "sending"} /\ handling'[v].kind = "warning" =>
               FailedNow(handling'[v].incident)
    <2> SUFFICES ASSUME NEW v \in IncidentWorker,
                        handling'[v].pc \in {"alerting", "sending"},
                        handling'[v].kind = "warning"
                 PROVE  FailedNow(handling'[v].incident)
      OBVIOUS
    <2>1. CASE v # w
      <3>1. handling'[v] = handling[v]
        BY <1>1, <2>1
      <3>2. TrulyFailed(handling[v].incident)
        BY <3>1 DEF WarningInv, WarnersBacked
      <3> HIDE DEF FailedNow
      <3> QED BY <1>4, <1>5, <3>1, <3>2
    <2>2. CASE v = w
      <3>1. CASE IP!Create(w) /\ handling'[w].incident = next_id
        BY <1>6, <2>2, <3>1
      <3>2. CASE /\ handling[w].pc \in {"alerting", "sending"}
                 /\ handling[w].kind = "warning"
                 /\ handling'[w].incident = handling[w].incident
        <4>1. TrulyFailed(handling[w].incident)
          BY <3>2 DEF WarningInv, WarnersBacked
        <4> HIDE DEF FailedNow
        <4> QED BY <1>4, <1>5, <2>2, <3>2, <4>1
      <3> QED BY <1>3, <2>2, <3>1, <3>2
    <2> QED BY <2>1, <2>2
  <1>8. \A n \in DOMAIN notifications_queue' :
           notifications_queue'[n].kind = "warning" =>
               FailedNow(notifications_queue'[n].incident)
    <2>1. ASSUME NEW n \in DOMAIN notifications_queue,
                 notifications_queue[n].kind = "warning"
          PROVE  FailedNow(notifications_queue[n].incident)
      <3>1. notifications_queue[n].incident \in IP!IncidentId
        BY CasesAssumed, IP!MessageAt, IP!IncidentsAssumption, IP!NullAssumption
           DEF IP!Message, TypesOK
      <3>2. IP!Exists(notifications_queue[n].incident)
        BY DEF RowInv, MessagesHaveRows
      <3>3. TrulyFailed(notifications_queue[n].incident)
        BY <2>1 DEF WarningInv, SentBacked
      <3> HIDE DEF FailedNow
      <3> QED BY <1>5, <3>1, <3>2, <3>3
    <2> HIDE DEF FailedNow
    <2>2. CASE UNCHANGED notifications_queue
      BY <2>1, <2>2
    <2>3. CASE IP!SendOne(w)
      <3>1. /\ handling[w].pc = "sending"
            /\ \A n \in DOMAIN notifications_queue' :
                  \/ n \in DOMAIN notifications_queue
                        /\ notifications_queue'[n] = notifications_queue[n]
                  \/ /\ notifications_queue'[n].incident = handling[w].incident
                     /\ notifications_queue'[n].kind = handling[w].kind
        BY <1>0, <2>3 DEF IP!SendOne
      <3>2. handling[w].kind = "warning" => FailedNow(handling[w].incident)
        BY <1>4, <1>5, <3>1 DEF WarningInv, WarnersBacked
      <3> QED BY <2>1, <3>1, <3>2
    <2> QED BY <1>2, <2>2, <2>3
  <1>9. WarnersBacked'
    BY <1>7 DEF WarnersBacked, TrulyFailed
  <1>10. SentBacked'
    BY <1>8 DEF SentBacked, TrulyFailed
  <1> QED BY <1>9, <1>10 DEF WarningInv

LEMMA WarningsHold == ASSUME MP!Solo PROVE Spec => []WarningInv
  <1>1. Init => WarningInv
    <2>1. IP!Init => WarningInv
      BY DEF IP!Init, WarningInv, WarnersBacked, SentBacked, IP!Idle
    <2> QED BY <2>1, CasesInit DEF Init
  <1>2. TypesOK /\ RowInv /\ IncidentBacked /\ WarningInv /\ [Next]_vars => WarningInv'
    <2> SUFFICES ASSUME TypesOK, RowInv, IncidentBacked, WarningInv, [Next]_vars
                 PROVE  WarningInv'
      OBVIOUS
    <2>1. CASE UNCHANGED cases
      <3>1. ASSUME NEW i \in IP!IncidentId, IP!Exists(i), TrulyFailed(i)
            PROVE  incidents[i].monitor \in confirmed'
        BY <2>1, <3>1, RowsFailStill DEF TrulyFailed, cases
      <3>2. \A w \in IncidentWorker :
               handling[w].pc \in {"alerting", "sending"} =>
                  handling[w].incident \in IP!IncidentId /\ IP!Exists(handling[w].incident)
        BY CasesAssumed, IP!HandlingFields, IP!IncidentsAssumption, IP!NullAssumption
           DEF TypesOK, RowInv, TasksHaveRows
      <3>3. \A n \in DOMAIN notifications_queue :
               /\ notifications_queue[n].incident \in IP!IncidentId
               /\ IP!Exists(notifications_queue[n].incident)
        BY CasesAssumed, IP!MessageAt, IP!IncidentsAssumption, IP!NullAssumption
           DEF IP!Message, TypesOK, RowInv, MessagesHaveRows
      <3>4. WarnersBacked'
        <4> SUFFICES ASSUME NEW w \in IncidentWorker,
                            handling[w].pc \in {"alerting", "sending"},
                            handling[w].kind = "warning"
                     PROVE  incidents[handling[w].incident].monitor \in confirmed'
          BY <2>1 DEF cases, WarnersBacked, TrulyFailed
        <4>1. TrulyFailed(handling[w].incident)
          BY DEF WarningInv, WarnersBacked
        <4> QED BY <3>1, <3>2, <4>1
      <3>5. SentBacked'
        <4> SUFFICES ASSUME NEW n \in DOMAIN notifications_queue,
                            notifications_queue[n].kind = "warning"
                     PROVE  incidents[notifications_queue[n].incident].monitor \in confirmed'
          BY <2>1 DEF cases, SentBacked, TrulyFailed
        <4>1. TrulyFailed(notifications_queue[n].incident)
          BY DEF WarningInv, SentBacked
        <4> QED BY <3>1, <3>3, <4>1
      <3> QED BY <3>4, <3>5 DEF WarningInv
    <2>2. ASSUME NEW w \in IncidentWorker,
                 IncidentStep(w) \/ (I!TaskDies(w) /\ UNCHANGED checks)
          PROVE  WarningInv'
      <3>1. IncidentTask(w)
        BY <2>2, CasesWorker DEF IncidentStep, IncidentTask
      <3> QED BY <3>1, TaskWarns
    <2> QED BY <2>1, <2>2, StepKinds
  <1>3. Spec => []IncidentBacked
    BY BackedHolds
  <1> QED BY <1>1, <1>2, <1>3, TypesHold, RowsHold, PTL DEF Spec

(* Nobody is warned for nothing: from the results that run_single_monitor_   *)
(* task records to the messages that dispatch_notifications sends, a warning *)
(* is about a monitor that failed as often in a row as its own interval asks *)
(* for, with one worker for the checks and any number for the incidents.     *)
THEOREM WarningsAreBacked ==
    ASSUME IsFiniteSet(CheckWorker), Cardinality(CheckWorker) = 1
    PROVE  Spec => []WarningsBacked
  <1>1. RowInv /\ WarningInv => WarningsBacked
    BY CasesOpen DEF RowInv, MessagesHaveRows, WarningInv, SentBacked, TrulyFailed,
                     WarningsBacked
  <1>2. Spec => []WarningInv
    BY OneChecker, WarningsHold
  <1> QED BY <1>1, <1>2, RowsHold, PTL

-----------------------------------------------------------------------------
(* What nobody speaks of stays open *)

LEMMA CasesLeftOpen ==
    ASSUME IP!TypeOK, RowInv, NEW m \in Monitor, LeftOpen(m),
           incidents_queue # <<>> => Head(incidents_queue).monitor # m,
           NEW w \in IncidentWorker, IncidentTask(w)
    PROVE  LeftOpen(m)'
  <1>0. /\ handling \in [IncidentWorker -> IP!Handling]
        /\ incidents \in [IP!IncidentId -> IP!Incident \cup {None}]
        /\ incidents_queue \in Seq(IP!Event)
        /\ next_id \in Nat
    BY PipelineAssumption DEF IP!TypeOK
  <1>1. PICK i \in IP!IncidentId : /\ IP!Exists(i)
                                   /\ incidents[i].monitor = m
                                   /\ incidents[i].status = "OPEN"
    BY DEF LeftOpen, IP!OpenOf
  <1>2. IP!Exists(i)' /\ incidents'[i].monitor = m
    BY <1>1, RowsPersist DEF RowInv
  <1>3. incidents'[i].status = "OPEN"
    <2>1. CASE UNCHANGED incidents
      BY <1>1, <2>1
    <2>2. CASE IP!Create(w)
      <3>1. i < next_id /\ i \in Nat
        BY <1>1 DEF RowInv, KeysBelow, IP!IncidentId
      <3> QED BY <1>0, <1>1, <2>2, <3>1 DEF IP!Create
    <2>3. CASE IP!Resolve(w)
      <3>1. handling[w].incident # i
        BY <1>1, <2>3 DEF IP!Resolve, LeftOpen, Closers
      <3> QED BY <1>0, <1>1, <2>3, <3>1 DEF IP!Resolve
    <2> QED BY <2>1, <2>2, <2>3
            DEF IncidentTask, IP!WorkerStep, IP!TaskDies, IP!ReadOpen,
                IP!ResolveFails, IP!AskSettings, IP!SendOne
  <1>4. \A v \in IncidentWorker : v # w => handling'[v] = handling[v]
    BY CasesAssumed, IP!AnnouncementSteps, IP!IncidentsAssumption, IP!NullAssumption
       DEF IncidentTask
  <1>5. ASSUME NEW v \in IncidentWorker, handling'[v].pc = "resolving"
        PROVE  incidents'[handling'[v].incident].monitor # m
    <2>1. CASE v # w
      <3>1. /\ handling'[v] = handling[v] /\ handling[v].pc = "resolving"
        BY <1>4, <1>5, <2>1
      <3>2. handling[v].incident \in IP!IncidentId
        BY <3>1, CasesAssumed, IP!HandlingFields, IP!IncidentsAssumption,
           IP!NullAssumption
      <3>3. IP!Exists(handling[v].incident)
        BY <3>1 DEF RowInv, TasksHaveRows
      <3>4. incidents[handling[v].incident].monitor # m
        BY <3>1 DEF LeftOpen, Closers
      <3> QED BY <3>1, <3>2, <3>3, <3>4, RowsPersist DEF RowInv
    <2>2. CASE v = w /\ IP!ReadOpen(w)
      <3> DEFINE e == Head(incidents_queue)
      <3>1. e \in IP!Event /\ e.monitor # m /\ UNCHANGED incidents
        BY <1>0, <2>2 DEF IP!ReadOpen
      <3>2. PICK k \in IP!FirstOpen(e.monitor) : handling'[w] = IP!Decision(e, k)
        BY <1>0, <2>2 DEF IP!ReadOpen
      <3>3. handling'[w].incident = k /\ k \in IP!OpenOf(e.monitor)
        BY <1>5, <2>2, <3>1, <3>2, CasesAssumed, IP!DecisionFields,
           IP!IncidentsAssumption, IP!NullAssumption
      <3> QED BY <2>2, <3>1, <3>3 DEF IP!OpenOf
    <2>3. CASE v = w /\ ~IP!ReadOpen(w)
      <3>1. handling'[w].pc # "resolving"
        <4>1. CASE IP!SendOne(w)
          <5>1. handling[w] \in [pc : {"sending"}, incident : IP!IncidentId,
                                 kind : IP!Kind, todo : (SUBSET IP!Channel) \ {{}}]
            BY <1>0, <4>1 DEF IP!SendOne, IP!Handling, IP!Idle
          <5> QED BY <1>0, <4>1, <5>1 DEF IP!SendOne, IP!Idle
        <4>2. CASE IP!Create(w) \/ IP!Resolve(w) \/ IP!ResolveFails(w)
                   \/ IP!AskSettings(w) \/ IP!TaskDies(w)
          BY <1>0, <4>2 DEF IP!Create, IP!Resolve, IP!ResolveFails, IP!AskSettings,
                            IP!TaskDies, IP!Idle
        <4> QED BY <2>3, <4>1, <4>2 DEF IncidentTask, IP!WorkerStep
      <3> QED BY <1>5, <2>3, <3>1
    <2> QED BY <2>1, <2>2, <2>3
  <1>6. IP!OpenOf(m)' # {}
    BY <1>1, <1>2, <1>3 DEF IP!OpenOf, IP!Exists, IP!IncidentId
  <1> QED BY <1>5, <1>6 DEF LeftOpen, Closers

LEMMA OrphanParts ==
    ASSUME NEW m \in Monitor
    PROVE  /\ Orphan(m) <=> Forgotten(m) /\ LeftOpen(m)
           /\ Orphan(m)' <=> Forgotten(m)' /\ LeftOpen(m)'
  <1>1. Orphan(m) <=> Forgotten(m) /\ LeftOpen(m)
    BY DEF Orphan, Forgotten, LeftOpen, Closers, M!Live, MP!Live, I!OpenOf,
           IP!OpenOf, I!Exists, IP!Exists, I!IncidentId, IP!IncidentId
  <1>2. Orphan(m)' <=> Forgotten(m)' /\ LeftOpen(m)'
    BY DEF Orphan, Forgotten, LeftOpen, Closers, M!Live, MP!Live, I!OpenOf,
           IP!OpenOf, I!Exists, IP!Exists, I!IncidentId, IP!IncidentId
  <1> QED BY <1>1, <1>2

LEMMA StepLeavesOrphan ==
    ASSUME TypesOK, RowInv, [Next]_vars, NEW m \in Monitor, Orphan(m)
    PROVE  Orphan(m)'
  <1>1. Forgotten(m) /\ LeftOpen(m)
    BY OrphanParts
  <1>2. Forgotten(m)'
    BY <1>1, StepRunsMonitors, MonitorsForget DEF TypesOK
  <1>3. LeftOpen(m)'
    <2>1. CASE UNCHANGED cases
      BY <1>1, <2>1 DEF cases, LeftOpen, Closers, IP!OpenOf, IP!Exists
    <2>2. ASSUME NEW w \in IncidentWorker,
                 IncidentStep(w) \/ (I!TaskDies(w) /\ UNCHANGED checks)
          PROVE  LeftOpen(m)'
      <3>1. IncidentTask(w)
        BY <2>2, CasesWorker DEF IncidentStep, IncidentTask
      <3>2. incidents_queue # <<>> => Head(incidents_queue).monitor # m
        BY <1>1 DEF Forgotten, TypesOK, MP!TypeOK
      <3> QED BY <1>1, <3>1, <3>2, CasesLeftOpen DEF TypesOK
    <2> QED BY <2>1, <2>2, StepKinds
  <1> QED BY <1>2, <1>3, OrphanParts

(* The monitor is deleted, its incident is not: whatever checks of it are    *)
(* still queued or running, whatever requests come, whoever dies, no step of *)
(* either service closes the incident of a deleted monitor again.            *)
THEOREM OrphansAreForgotten == Spec => OrphansStayOpen
  <1>1. TypesOK /\ RowInv /\ [Next]_vars =>
            [\A m \in Monitor : Orphan(m) => Orphan(m)']_vars
    BY StepLeavesOrphan
  <1> QED BY <1>1, TypesHold, RowsHold, PTL DEF Spec, OrphansStayOpen

-----------------------------------------------------------------------------
(* One incidents worker, any number of check workers: the owner hears right  *)

(* What Pipeline says of I!latest and I!down is what IP proves. *)
LEMMA SamePicture ==
    /\ I!latest = IP!latest /\ I!down = IP!down
    /\ I!latest' = IP!latest' /\ I!down' = IP!down'
  <1>1. I!latest = IP!latest
    BY DEF I!latest, IP!latest, I!Newest, IP!Newest, I!IncidentsOf, IP!IncidentsOf,
           I!Exists, IP!Exists, I!IncidentId, IP!IncidentId
  <1>2. I!latest' = IP!latest'
    BY DEF I!latest, IP!latest, I!Newest, IP!Newest, I!IncidentsOf, IP!IncidentsOf,
           I!Exists, IP!Exists, I!IncidentId, IP!IncidentId
  <1>3. I!down = IP!down
    BY DEF I!down, IP!down, I!OpenOf, IP!OpenOf, I!Exists, IP!Exists, I!IncidentId,
           IP!IncidentId
  <1>4. I!down' = IP!down'
    BY DEF I!down, IP!down, I!OpenOf, IP!OpenOf, I!Exists, IP!Exists, I!IncidentId,
           IP!IncidentId
  <1> QED BY <1>1, <1>2, <1>3, <1>4

LEMMA SamePromise ==
    /\ IP!Promise!Init => I!Promise!Init
    /\ [IP!Promise!Next]_(IP!Promise!vars) => [I!Promise!Next]_(I!Promise!vars)
  <1>1. IP!Promise!Init => I!Promise!Init
    BY SamePicture DEF IP!Promise!Init, I!Promise!Init
  <1>2. IP!Promise!Next => I!Promise!Next
    BY SamePicture, CasesData
       DEF IP!Promise!Next, I!Promise!Next, IP!Promise!Break, I!Promise!Break,
           IP!Promise!Recover, I!Promise!Recover, IP!Promise!Alert, I!Promise!Alert
  <1>3. UNCHANGED IP!Promise!vars => UNCHANGED I!Promise!vars
    BY SamePicture DEF IP!Promise!vars, I!Promise!vars
  <1> QED BY <1>1, <1>2, <1>3

LEMMA CasesSoloHold == ASSUME IP!Solo PROVE Spec => [](TypesOK /\ IP!SoloInv)
  <1>1. Init => IP!SoloInv
    <2>1. IP!Init => IP!SoloInv
      BY CasesAssumed, IP!InitSolo, IP!IncidentsAssumption, IP!NullAssumption, Zenon
    <2> QED BY <2>1, CasesInit DEF Init
  <1>2. TypesOK /\ IP!SoloInv /\ [Next]_vars => IP!SoloInv'
    BY IncidentSideSolo DEF TypesOK
  <1> QED BY <1>1, <1>2, TypesHold, PTL DEF Spec

LEMMA StepKeepsPromise ==
    ASSUME IP!Solo, TypesOK, IP!SoloInv, [Next]_vars
    PROVE  [I!Promise!Next]_(I!Promise!vars)
  <1>1. CASE UNCHANGED cases
    <2>1. UNCHANGED <<incidents, notifications_queue>>
      BY <1>1 DEF cases
    <2>2. IP!latest' = IP!latest /\ IP!down' = IP!down
      BY <2>1, CasesAssumed, IP!TableUnchanged, IP!IncidentsAssumption,
         IP!NullAssumption
    <2>3. UNCHANGED IP!Promise!vars
      BY <2>1, <2>2 DEF IP!Promise!vars
    <2> QED BY <2>3, SamePromise
  <1>2. ASSUME NEW w \in IncidentWorker,
               IncidentStep(w) \/ (I!TaskDies(w) /\ UNCHANGED checks)
        PROVE  [I!Promise!Next]_(I!Promise!vars)
    <2>1. [IP!Arrive \/ IP!ServiceStep]_(IP!vars)
      BY <1>2, CasesWorker DEF IncidentStep, IP!ServiceStep
    <2>2. [IP!Promise!Next]_(IP!Promise!vars)
      BY <2>1, CasesAssumed, IP!StepMaps, IP!IncidentsAssumption,
         IP!NullAssumption DEF TypesOK
    <2> QED BY <2>2, SamePromise
  <1> QED BY <1>1, <1>2, StepKinds

(* From the checks to the messages, the pipeline implements Outage whenever  *)
(* the incidents service has a single worker process: however many processes *)
(* run checks, whatever they lose and in whichever order their events come,  *)
(* an outage is one incident, announced in order and at most once per        *)
(* channel (process_incident_task and dispatch_notifications).               *)
THEOREM PipelineKeepsPromise ==
    ASSUME Cardinality(IncidentWorker) = 1 PROVE Spec => I!ImplementsOutage
  <1>1. IP!Solo
    <2>1. \E x : IncidentWorker = {x}
      BY FS_Singleton, PipelineAssumption
    <2> QED BY <2>1 DEF IP!Solo
  <1>2. Init => I!Promise!Init
    <2>1. IP!Init => IP!Promise!Init
      BY CasesAssumed, IP!InitMaps, IP!IncidentsAssumption, IP!NullAssumption
    <2> QED BY <2>1, CasesInit, SamePromise DEF Init
  <1>3. TypesOK /\ IP!SoloInv /\ [Next]_vars => [I!Promise!Next]_(I!Promise!vars)
    BY <1>1, StepKeepsPromise
  <1>4. Spec => [](TypesOK /\ IP!SoloInv)
    BY <1>1, CasesSoloHold
  <1> QED BY <1>2, <1>3, <1>4, PTL
          DEF Spec, I!ImplementsOutage, I!Promise!Spec
=============================================================================
