------------------------------ MODULE Pipeline ------------------------------
(***************************************************************************)
(* The monitors and the incidents service together: what Monitors puts in  *)
(* incidents_queue is what Incidents reads, so an outage of a site runs    *)
(* from the beat through the checks and their counters to the incident.    *)
(* The two services share that queue and nothing else.                     *)
(***************************************************************************)
EXTENDS Integers, Sequences, FiniteSets

CONSTANTS
    Monitor,         \* monitor ids
    CheckWorker,     \* processes of the monitors Celery worker
    IncidentWorker,  \* processes of the incidents Celery worker
    Replies,         \* channels a reply of user_support may enable
    Intervals, CounterCap, MaxQueue, MaxEvents, MaxDeaths, MaxIncidents,
    MaxMessages,     \* per kind: messages after which no channel is enabled (bound)
    MaxFlips,        \* how often a site goes down or comes back (bound)
    None

VARIABLES created, row, history, failed, task_queue, job, edit, site_up,
          check_deaths, flips,
          confirmed,  \* auxiliary: monitors that failed long enough for an incident
          incidents_queue,
          incidents, next_id, handling, update, notifications_queue,
          incident_deaths

M == INSTANCE Monitors
     WITH Worker <- CheckWorker, Client <- {}, deaths <- check_deaths

I == INSTANCE IncidentsRefinement
     WITH Worker <- IncidentWorker, Client <- {}, deaths <- incident_deaths,
          Arrivals <- {}

ASSUME PipelineAssumption ==
    /\ IsFiniteSet(IncidentWorker)
    /\ Replies \subseteq SUBSET I!Channel
    /\ Intervals \subseteq Nat /\ Intervals # {}
    /\ CounterCap \in Nat \ {0}
    /\ MaxQueue \in Nat /\ MaxEvents \in Nat /\ MaxDeaths \in Nat
    /\ MaxIncidents \in Nat /\ MaxFlips \in Nat
    /\ MaxMessages \in [I!Kind -> Nat]
    /\ None \notin M!Row /\ None \notin M!Edit
    /\ None \notin I!Incident /\ None \notin I!Update

checks == <<created, row, history, failed, task_queue, job, edit, site_up,
            check_deaths, flips, confirmed>>
cases == <<incidents, next_id, handling, update, notifications_queue,
           incident_deaths>>
vars == <<checks, incidents_queue, cases>>

Init == M!Init /\ I!Init /\ flips = 0 /\ confirmed = {}

(* The results recorded of m show an outage: as many failures in a row as    *)
(* the threshold of its interval asks for.                                   *)
Confirmed(m) ==
    /\ M!Live(m)
    /\ history[m].streak >= I!get_failure_threshold(row[m].interval_seconds)

-----------------------------------------------------------------------------
CheckStep(w) ==
    /\ M!WorkerStep(w)
    /\ confirmed' = confirmed \cup {m \in Monitor : Confirmed(m)'}
    /\ UNCHANGED <<cases, flips>>

IncidentStep(w) == I!WorkerStep(w) /\ UNCHANGED checks

Beat == M!BeatTick /\ UNCHANGED <<cases, flips, confirmed>>

Elapse(m) == M!Elapse(m) /\ UNCHANGED <<cases, flips, confirmed>>

Flip(m) ==
    /\ flips < MaxFlips
    /\ flips' = flips + 1
    /\ M!FlipSite(m)
    /\ UNCHANGED <<cases, confirmed>>

Request ==
    /\ \/ \E m \in Monitor : M!CreateMonitor(m)
       \/ M!ClientStep
    /\ UNCHANGED <<cases, flips, confirmed>>

TaskDies ==
    \/ /\ \E w \in CheckWorker : M!TaskDies(w)
       /\ UNCHANGED <<cases, flips, confirmed>>
    \/ \E w \in IncidentWorker : I!TaskDies(w) /\ UNCHANGED checks

Next ==
    \/ \E w \in CheckWorker : CheckStep(w)
    \/ \E w \in IncidentWorker : IncidentStep(w)
    \/ Beat
    \/ \E m \in Monitor : Elapse(m) \/ Flip(m)
    \/ Request
    \/ TaskDies

Spec == Init /\ [][Next]_vars

(* Processes run, time passes, cron keeps enqueueing ticks (only the bound   *)
(* MaxQueue ever stops it); sites, requests and deaths owe nothing.          *)
Fairness ==
    /\ \A w \in CheckWorker : WF_vars(CheckStep(w))
    /\ \A w \in IncidentWorker : WF_vars(IncidentStep(w))
    /\ \A m \in Monitor : WF_vars(Elapse(m))
    /\ SF_vars(Beat)

LiveSpec == Spec /\ Fairness

-----------------------------------------------------------------------------
(* Properties *)

(* With one worker that runs the checks, an incident is opened on an outage   *)
(* that happened: a monitor that has one, or that an incidents worker is     *)
(* opening one for, once had as many failed results in a row as its own      *)
(* interval asks for, whatever was lost between the counter and the table.   *)
IncidentBacked ==
    \A m \in Monitor :
        I!OpenOf(m) # {} \/ I!Creators(m) # {} => m \in confirmed

(* The same of the owners: a message is about an incident of the table, and  *)
(* a warning about a monitor that failed so often in a row.                  *)
WarningsBacked ==
    \A n \in DOMAIN notifications_queue :
        LET msg == notifications_queue[n] IN
        /\ I!Exists(msg.incident)
        /\ msg.kind = "warning" => incidents[msg.incident].monitor \in confirmed

(* m was deleted during an outage, and nothing about it is under way. *)
Orphan(m) ==
    /\ m \in created /\ ~M!Live(m)
    /\ I!OpenOf(m) # {}
    /\ \A n \in DOMAIN incidents_queue : incidents_queue[n].monitor # m
    /\ \A w \in CheckWorker : job[w].pc = "committed" => job[w].monitor # m
    /\ \A w \in IncidentWorker :
          handling[w].pc = "resolving" =>
              incidents[handling[w].incident].monitor # m

(* Deleting a monitor tells the incidents service nothing: its open incident *)
(* stays open for ever, although checks of it may still be queued or running *)
(* (run_single_monitor_task ends without an event when the row is gone).     *)
OrphansStayOpen == [][\A m \in Monitor : Orphan(m) => Orphan(m)']_vars

Quiet ==
    /\ incidents_queue = <<>>
    /\ \A w \in CheckWorker : job[w].pc # "committed"
    /\ \A w \in IncidentWorker : handling[w].pc = "idle"
    /\ check_deaths = 0 /\ incident_deaths = 0

(* With one worker on each side and no lost task, the tables of the two      *)
(* services agree whenever nothing is under way between them: a monitor that *)
(* is up has no open incident, one at its threshold has one.                 *)
TablesAgree ==
    Quiet => \A m \in Monitor : M!Live(m) =>
        /\ row[m].is_currently_up => I!OpenOf(m) = {}
        /\ row[m].consecutive_failures
              >= I!get_failure_threshold(row[m].interval_seconds)
                 => I!OpenOf(m) # {}

(* A site that stays down gets an incident that stays open, and this in      *)
(* spite of (boundedly many) events and checks that were lost.               *)
OutageReported ==
    \A m \in Monitor :
        <>[](M!Active(m) /\ ~site_up[m]) => <>[](I!OpenOf(m) # {})

(* A site that stays up has, in the end, no open incident left. *)
RecoveryReported ==
    \A m \in Monitor :
        <>[](M!Active(m) /\ site_up[m]) => <>[](I!OpenOf(m) = {})
=============================================================================
