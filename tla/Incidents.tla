----------------------------- MODULE Incidents ------------------------------
(***************************************************************************)
(* The incidents service: Celery workers turn check events into incidents  *)
(* and alerts, while the HTTP API edits the same table.                    *)
(*                                                                         *)
(* A worker looks for the newest open incident of the monitor, decides,    *)
(* and writes.  Between the query and the write nothing is locked and the  *)
(* table has no constraint against a second open incident.  After the      *)
(* write it asks user_support which channels the owner wants (gRPC) and    *)
(* puts one message per channel in notifications_queue.                    *)
(***************************************************************************)
EXTENDS Integers, Sequences, FiniteSets

CONSTANTS
    Monitor,       \* monitor ids
    Worker,        \* processes of the incidents Celery worker
    Client,        \* PATCH / PUT requests that can be in flight at once
    Arrivals,      \* the events the monitors service may send
    Replies,       \* channels a reply of user_support may enable
    MaxIncidents,  \* rows ever created (bound)
    MaxEvents,     \* length of incidents_queue (bound)
    MaxDeaths,     \* how many tasks may die half way (bound)
    MaxMessages,   \* per kind: messages after which no channel is enabled (bound)
    None           \* no row, no request

Channel == {"email", "telegram", "sms"}
Kind == {"warning", "info"}

Event == [monitor : Monitor, is_success : BOOLEAN,
          consecutive_failures : Nat, interval_seconds : Nat]

ASSUME IncidentsAssumption ==
    /\ IsFiniteSet(Worker)
    /\ Arrivals \subseteq Event
    /\ Replies \subseteq SUBSET Channel
    /\ MaxIncidents \in Nat /\ MaxEvents \in Nat /\ MaxDeaths \in Nat
    /\ MaxMessages \in [Kind -> Nat]

VARIABLES
    incidents,            \* the table: a row, or None, by primary key
    next_id,              \* the next primary key
    incidents_queue,      \* events to handle, oldest first
    handling,             \* what each worker process is doing
    update,               \* the update request each client has in flight
    notifications_queue,  \* every message ever sent, oldest first
    deaths                \* tasks that have died so far

vars == <<incidents, next_id, incidents_queue, handling, update,
          notifications_queue, deaths>>

-----------------------------------------------------------------------------
(* Data *)

IncidentId == 1 .. MaxIncidents
Status == {"OPEN", "RESOLVED"}

(* owned: user_id is set.  by_client is auxiliary: the row is open because a *)
(* request created it or saved it so.                                        *)
Incident == [monitor : Monitor, owned : BOOLEAN, status : Status,
             by_client : BOOLEAN]

(* The title and the text of a message are made from one incident. *)
Message == [incident : IncidentId, kind : Kind, channel : Channel]

Idle == [pc |-> "idle"]
Handling == {Idle}
    \cup [pc : {"creating"}, monitor : Monitor]
    \cup [pc : {"resolving"}, incident : IncidentId]
    \cup [pc : {"alerting"}, incident : IncidentId, kind : Kind]
    \cup [pc : {"sending"}, incident : IncidentId, kind : Kind,
          todo : (SUBSET Channel) \ {{}}]

(* A request gives a status, or keeps the one it read. *)
Update == [incident : IncidentId, obj : Incident, status : Status \cup {"keep"}]

(* None stands for the absence of a row or of a request. *)
ASSUME NullAssumption == None \notin Incident /\ None \notin Update

Exists(i) == incidents[i] # None

OpenOf(m) == {i \in IncidentId : /\ Exists(i)
                                 /\ incidents[i].monitor = m
                                 /\ incidents[i].status = "OPEN"}

(* open_incident of process_incident_task: the first by -started_at, 0 for    *)
(* none.  started_at is set in the worker before the row is inserted, and     *)
(* again when save() inserts a row that was gone, so any open row may be it.  *)
FirstOpen(m) == IF OpenOf(m) = {} THEN {0} ELSE OpenOf(m)

get_failure_threshold(interval) ==
    CASE interval <= 60 -> 6
      [] interval > 60 /\ interval <= 300 -> 3
      [] OTHER -> 1

-----------------------------------------------------------------------------
Init ==
    /\ incidents = [i \in IncidentId |-> None]
    /\ next_id = 1
    /\ incidents_queue = <<>>
    /\ handling = [w \in Worker |-> Idle]
    /\ update = [c \in Client |-> None]
    /\ notifications_queue = <<>>
    /\ deaths = 0

(* Bound: every failure already queued or being handled can still get a row. *)
Room ==
    next_id + Len(incidents_queue)
        + Cardinality({w \in Worker : handling[w].pc = "creating"}) <= MaxIncidents

(* The monitors service publishes an event. *)
Arrive ==
    /\ Len(incidents_queue) < MaxEvents
    /\ \E e \in Arrivals :
          /\ e.is_success \/ Room
          /\ incidents_queue' = Append(incidents_queue, e)
    /\ UNCHANGED <<incidents, next_id, handling, update, notifications_queue,
                   deaths>>

-----------------------------------------------------------------------------
(* process_incident_task *)

(* Mutant: the open incident is not looked at. *)
Decision_always(e, open_incident) ==
    LET threshold == get_failure_threshold(e.interval_seconds)
    IN  CASE e.is_success /\ open_incident # 0 ->
               [pc |-> "resolving", incident |-> open_incident]
          [] ~e.is_success /\ e.consecutive_failures >= threshold ->
               [pc |-> "creating", monitor |-> e.monitor]
          [] OTHER -> Idle

(* Mutant: an incident opens one failure early. *)
Decision_early(e, open_incident) ==
    LET threshold == get_failure_threshold(e.interval_seconds)
    IN  CASE e.is_success /\ open_incident # 0 ->
               [pc |-> "resolving", incident |-> open_incident]
          [] ~e.is_success /\ e.consecutive_failures + 1 >= threshold /\ open_incident = 0 ->
               [pc |-> "creating", monitor |-> e.monitor]
          [] OTHER -> Idle

(* Mutant: an incident opens one failure late. *)
Decision_late(e, open_incident) ==
    LET threshold == get_failure_threshold(e.interval_seconds)
    IN  CASE e.is_success /\ open_incident # 0 ->
               [pc |-> "resolving", incident |-> open_incident]
          [] ~e.is_success /\ e.consecutive_failures > threshold /\ open_incident = 0 ->
               [pc |-> "creating", monitor |-> e.monitor]
          [] OTHER -> Idle

(* Mutant: only the failure that reaches the threshold counts. *)
Decision_exact(e, open_incident) ==
    LET threshold == get_failure_threshold(e.interval_seconds)
    IN  CASE e.is_success /\ open_incident # 0 ->
               [pc |-> "resolving", incident |-> open_incident]
          [] ~e.is_success /\ e.consecutive_failures = threshold /\ open_incident = 0 ->
               [pc |-> "creating", monitor |-> e.monitor]
          [] OTHER -> Idle

(* Mutant: a failure reminds the owner of the incident that is open. *)
Decision_reminds(e, open_incident) ==
    LET threshold == get_failure_threshold(e.interval_seconds)
    IN  CASE e.is_success /\ open_incident # 0 ->
               [pc |-> "resolving", incident |-> open_incident]
          [] ~e.is_success /\ open_incident # 0 ->
               [pc |-> "alerting", incident |-> open_incident, kind |-> "warning"]
          [] ~e.is_success /\ e.consecutive_failures >= threshold ->
               [pc |-> "creating", monitor |-> e.monitor]
          [] OTHER -> Idle

(* What the task will do with event e, from the query it makes at its start. *)
Decision(e, open_incident) ==
    LET threshold == get_failure_threshold(e.interval_seconds)
    IN  CASE e.is_success /\ open_incident # 0 ->
               [pc |-> "resolving", incident |-> open_incident]
          [] ~e.is_success /\ e.consecutive_failures >= threshold
                /\ open_incident = 0 ->
               [pc |-> "creating", monitor |-> e.monitor]
          [] OTHER -> Idle

ReadOpen(w) ==
    /\ handling[w] = Idle
    /\ incidents_queue # <<>>
    /\ LET e == Head(incidents_queue) IN
         \E i \in FirstOpen(e.monitor) :
             handling' = [handling EXCEPT ![w] = Decision(e, i)]
    /\ incidents_queue' = Tail(incidents_queue)
    /\ UNCHANGED <<incidents, next_id, update, notifications_queue, deaths>>

Create(w) ==
    /\ handling[w].pc = "creating"
    /\ next_id \in IncidentId
    /\ incidents' = [incidents EXCEPT ![next_id] =
                        [monitor |-> handling[w].monitor, owned |-> TRUE,
                         status |-> "OPEN", by_client |-> FALSE]]
    /\ next_id' = next_id + 1
    /\ handling' = [handling EXCEPT ![w] =
                        [pc |-> "alerting", incident |-> next_id,
                         kind |-> "warning"]]
    /\ UNCHANGED <<incidents_queue, update, notifications_queue, deaths>>

(* Mutant: resolve() sets the status and forgets to save it. *)
Resolve_unsaved(w) ==
    LET i == handling[w].incident IN
    /\ handling[w].pc = "resolving"
    /\ Exists(i)
    /\ handling' = [handling EXCEPT ![w] =
                        [pc |-> "alerting", incident |-> i, kind |-> "info"]]
    /\ UNCHANGED <<incidents, next_id, incidents_queue, update,
                   notifications_queue, deaths>>

(* resolve() saves two columns of the row whatever they hold by now. *)
Resolve(w) ==
    LET i == handling[w].incident IN
    /\ handling[w].pc = "resolving"
    /\ Exists(i)
    /\ incidents' = [incidents EXCEPT ![i].status = "RESOLVED"]
    /\ handling' = [handling EXCEPT ![w] =
                        [pc |-> "alerting", incident |-> i, kind |-> "info"]]
    /\ UNCHANGED <<next_id, incidents_queue, update, notifications_queue,
                   deaths>>

(* The row was deleted meanwhile: the save raises, and the task ends. *)
ResolveFails(w) ==
    /\ handling[w].pc = "resolving"
    /\ ~Exists(handling[w].incident)
    /\ handling' = [handling EXCEPT ![w] = Idle]
    /\ UNCHANGED <<incidents, next_id, incidents_queue, update,
                   notifications_queue, deaths>>

(* What the owner may have chosen. *)
Enabled(kind) ==
    IF Cardinality({n \in DOMAIN notifications_queue :
                       notifications_queue[n].kind = kind}) < MaxMessages[kind]
    THEN Replies ELSE {}

(* dispatch_notifications: a reply that enables no channel, like an RPC that *)
(* fails or times out, ends the task without a message.                      *)
AskSettings(w) ==
    /\ handling[w].pc = "alerting"
    /\ \E channels \in Enabled(handling[w].kind) \cup {{}} :
          handling' = [handling EXCEPT ![w] =
              IF channels = {} THEN Idle
              ELSE [pc |-> "sending", incident |-> handling[w].incident,
                    kind |-> handling[w].kind, todo |-> channels]]
    /\ UNCHANGED <<incidents, next_id, incidents_queue, update,
                   notifications_queue, deaths>>

Channels == <<"email", "telegram", "sms">>

FirstOf(S) ==
    Channels[CHOOSE n \in 1 .. 3 :
                /\ Channels[n] \in S
                /\ \A k \in 1 .. (n - 1) : Channels[k] \notin S]

(* Mutant: every channel gets the message of a failure. *)
SendOne_alwaysWarning(w) ==
    LET h == handling[w]
        channel == FirstOf(h.todo)
        rest == h.todo \ {channel}
    IN  /\ h.pc = "sending"
        /\ notifications_queue' = Append(notifications_queue,
               [incident |-> h.incident, kind |-> "warning", channel |-> channel])
        /\ handling' = [handling EXCEPT ![w] =
                            IF rest = {} THEN Idle ELSE [h EXCEPT !.todo = rest]]
        /\ UNCHANGED <<incidents, next_id, incidents_queue, update, deaths>>

SendOne(w) ==
    LET h == handling[w]
        channel == FirstOf(h.todo)
        rest == h.todo \ {channel}
    IN  /\ h.pc = "sending"
        /\ notifications_queue' = Append(notifications_queue,
               [incident |-> h.incident, kind |-> h.kind, channel |-> channel])
        /\ handling' = [handling EXCEPT ![w] =
                            IF rest = {} THEN Idle ELSE [h EXCEPT !.todo = rest]]
        /\ UNCHANGED <<incidents, next_id, incidents_queue, update, deaths>>

(* The database or the broker raises, or the process is killed.  The event   *)
(* was acknowledged when the task started: the rest of it is never run.      *)
TaskDies(w) ==
    /\ handling[w] # Idle
    /\ deaths < MaxDeaths
    /\ deaths' = deaths + 1
    /\ handling' = [handling EXCEPT ![w] = Idle]
    /\ UNCHANGED <<incidents, next_id, incidents_queue, update,
                   notifications_queue>>

-----------------------------------------------------------------------------
(* The HTTP API: IncidentsViewSet *)

(* Nothing sets user_id on a row that a request creates. *)
ApiCreate ==
    /\ next_id \in IncidentId /\ Room
    /\ \E m \in Monitor, s \in Status :
          incidents' = [incidents EXCEPT ![next_id] =
                           [monitor |-> m, owned |-> FALSE, status |-> s,
                            by_client |-> TRUE]]
    /\ next_id' = next_id + 1
    /\ UNCHANGED <<incidents_queue, handling, update, notifications_queue,
                   deaths>>

(* Mutant: the queryset is not filtered by user. *)
UpdateBegin_anyRow(c, i) ==
    /\ update[c] = None
    /\ Exists(i)
    /\ \E s \in Status \cup {"keep"} :
          update' = [update EXCEPT ![c] =
                        [incident |-> i, obj |-> incidents[i], status |-> s]]
    /\ UNCHANGED <<incidents, next_id, incidents_queue, handling,
                   notifications_queue, deaths>>

(* Requests reach only rows of their user. *)
UpdateBegin(c, i) ==
    /\ update[c] = None
    /\ Exists(i) /\ incidents[i].owned
    /\ \E s \in Status \cup {"keep"} :
          update' = [update EXCEPT ![c] =
                        [incident |-> i, obj |-> incidents[i], status |-> s]]
    /\ UNCHANGED <<incidents, next_id, incidents_queue, handling,
                   notifications_queue, deaths>>

(* Mutant: a status the request does not mention is overwritten all the same. *)
Updated_noDefault(u, m) ==
    [u.obj EXCEPT !.monitor = m, !.status = u.status, !.by_client = TRUE]

(* save() writes every column, those the request does not mention with the   *)
(* value UpdateBegin read, and inserts the row again when it is gone.        *)
Updated(u, m) ==
    LET status == IF u.status = "keep" THEN u.obj.status ELSE u.status IN
    [u.obj EXCEPT !.monitor = m, !.status = status, !.by_client = TRUE]

UpdateSave(c) ==
    /\ update[c] # None
    /\ \E m \in Monitor :
          incidents' = [incidents EXCEPT ![update[c].incident] =
                           Updated(update[c], m)]
    /\ update' = [update EXCEPT ![c] = None]
    /\ UNCHANGED <<next_id, incidents_queue, handling, notifications_queue,
                   deaths>>

Destroy(i) ==
    /\ Exists(i) /\ incidents[i].owned
    /\ incidents' = [incidents EXCEPT ![i] = None]
    /\ UNCHANGED <<next_id, incidents_queue, handling, update,
                   notifications_queue, deaths>>

-----------------------------------------------------------------------------
WorkerStep(w) ==
    \/ ReadOpen(w) \/ Create(w) \/ Resolve(w) \/ ResolveFails(w)
    \/ AskSettings(w) \/ SendOne(w)

ServiceStep == \E w \in Worker : WorkerStep(w) \/ TaskDies(w)

ClientStep ==
    \/ ApiCreate
    \/ \E i \in IncidentId : Destroy(i)
    \/ \E c \in Client : UpdateSave(c) \/ \E i \in IncidentId : UpdateBegin(c, i)

Next == Arrive \/ ServiceStep \/ ClientStep

Spec == Init /\ [][Next]_vars

(* Nobody edits incidents by hand. *)
WorkerSpec == Init /\ [][Arrive \/ ServiceStep]_vars

-----------------------------------------------------------------------------
(* Properties *)

(* Every variable has its type. *)
TypeOK ==
    /\ incidents \in [IncidentId -> Incident \cup {None}]
    /\ next_id \in 1 .. (MaxIncidents + 1)
    /\ incidents_queue \in Seq(Event)
    /\ handling \in [Worker -> Handling]
    /\ update \in [Client -> Update \cup {None}]
    /\ notifications_queue \in Seq(Message)
    /\ deaths \in 0 .. MaxDeaths

(* The incidents that are open because a worker opened them. *)
OpenedByWorker(m) == {i \in OpenOf(m) : ~incidents[i].by_client}

(* The workers that saw no open incident and are about to create one. *)
Creators(m) ==
    {w \in Worker : handling[w].pc = "creating" /\ handling[w].monitor = m}

(* The query for an open incident and the insertion are two steps, so a      *)
(* monitor may get several incidents for one outage, but never more than     *)
(* there are worker processes, whatever events, deaths and requests come.    *)
OpenBounded ==
    \A m \in Monitor :
        Cardinality(OpenedByWorker(m)) + Cardinality(Creators(m))
            <= Cardinality(Worker)

(* One outage, one open incident, as long as nobody edits incidents by hand. *)
AtMostOneOpen == \A m \in Monitor : \A i, j \in OpenOf(m) : i = j

Sent(msg) == \E n \in DOMAIN notifications_queue : notifications_queue[n] = msg

NewMessage == notifications_queue'[Len(notifications_queue')]

(* The owner hears of an incident once per channel and kind: workers never   *)
(* announce the same failure or the same recovery twice.                     *)
AlertOnce ==
    [][notifications_queue' # notifications_queue => ~Sent(NewMessage)]_vars

(* A failure is announced once per channel whatever the number of workers    *)
(* and whatever requests, lost tasks and deletions come in between: every    *)
(* incident has one creator, and only the creator announces it.              *)
WarnedOnce ==
    [][notifications_queue' # notifications_queue /\ NewMessage.kind = "warning"
          => ~Sent(NewMessage)]_vars

Open(i) == Exists(i) /\ incidents[i].status = "OPEN"

Announcing(i, kind) ==
    \E w \in Worker : /\ handling[w].pc \in {"alerting", "sending"}
                       /\ handling[w].incident = i
                       /\ handling[w].kind = kind

Resolving(i) ==
    \E w \in Worker : handling[w].pc = "resolving" /\ handling[w].incident = i

(* Incident i has been made, or resolved, and nobody is announcing it. *)
Over(i, kind) ==
    /\ i < next_id
    /\ ~Announcing(i, kind)
    /\ kind = "info" => ~Open(i) /\ ~Resolving(i)

(* What was not announced then is never announced: when the RPC for the      *)
(* settings fails, or the task dies between its write and its messages, no   *)
(* later event, retry or request brings the alert back; only an incident a   *)
(* request opens again may be announced as recovered once more.              *)
SilenceIsFinal ==
    [][\A i \in IncidentId, kind \in Kind :
          Over(i, kind) =>
              \/ Over(i, kind)'
              \/ kind = "info" /\ Open(i)' /\ incidents'[i].by_client]_vars

(* Nobody owns the incidents that requests create: no request ever touches   *)
(* one again, and only a worker may resolve it.                              *)
UnownedOnlyResolved ==
    [][\A i \in IncidentId :
          Exists(i) /\ ~incidents[i].owned =>
              incidents'[i] \in {incidents[i],
                                 [incidents[i] EXCEPT !.status = "RESOLVED"]}]_vars
=============================================================================
