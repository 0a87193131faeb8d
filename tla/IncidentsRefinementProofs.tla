---------------------- MODULE IncidentsRefinementProofs ---------------------
(* A single incidents worker implements Outage: the refinement mapping of    *)
(* IncidentsRefinement, step by step, for any number of monitors, events,    *)
(* incidents and lost tasks.                                                 *)
EXTENDS IncidentsRefinement, IncidentsProofs

Solo == \A v, w \in Worker : v = w

LEMMA OneIsSolo == ASSUME Cardinality(Worker) = 1 PROVE Solo
  <1>1. \E x : Worker = {x}
    BY FS_Singleton, IncidentsAssumption
  <1> QED BY <1>1 DEF Solo

-----------------------------------------------------------------------------
(* A set of naturals that is not empty has a least, a set of incidents a     *)
(* newest element: inclusion of finite sets is well-founded, and intervals   *)
(* from 0 are ordered by it like their upper ends.                           *)

LEMMA Least ==
    ASSUME NEW S \in SUBSET Nat, S # {} PROVE \E x \in S : \A y \in S : x <= y
  <1> DEFINE upto(n) == 0 .. n
             intervals == {upto(n) : n \in S}
  <1>1. \A n \in Nat : upto(n) \in SUBSET Nat /\ IsFiniteSet(upto(n))
    BY FS_Interval
  <1>2. \A n \in Nat : upto(n) \in FiniteSubsetsOf(Nat)
    BY <1>1 DEF FiniteSubsetsOf
  <1>3. intervals \subseteq FiniteSubsetsOf(Nat) /\ intervals # {}
    BY <1>2
  <1>4. PICK u \in intervals :
          \A v \in intervals : <<v, u>> \notin StrictSubsetOrdering(Nat)
    BY <1>3, WFMin, FS_StrictSubsetOrderingWellFounded
  <1>5. PICK x \in S : u = upto(x)
    OBVIOUS
  <1>6. ASSUME NEW y \in S, y < x PROVE FALSE
    <2>1. upto(y) \in intervals /\ upto(y) \subseteq u /\ upto(y) # u
      BY <1>5, <1>6
    <2>2. upto(y) \in SUBSET Nat /\ u \in SUBSET Nat
      BY <1>1, <1>5
    <2>3. <<upto(y), u>> \in StrictSubsetOrdering(Nat)
      BY <2>1, <2>2 DEF StrictSubsetOrdering
    <2> QED BY <1>4, <2>1, <2>3
  <1> QED BY <1>6

LEMMA NewestIn ==
    ASSUME NEW S \in SUBSET IncidentId, S # {}
    PROVE  Newest(S) \in S /\ \A j \in S : j <= Newest(S)
  <1> DEFINE gaps == {MaxIncidents - i : i \in S}
  <1>0. MaxIncidents \in Nat /\ \A i \in S : i \in Nat /\ MaxIncidents - i \in Nat
    BY IncidentsAssumption DEF IncidentId
  <1>1. gaps \in SUBSET Nat /\ gaps # {}
    BY <1>0
  <1>2. PICK g \in gaps : \A h \in gaps : g <= h
    BY <1>1, Least
  <1>3. PICK i \in S : g = MaxIncidents - i
    OBVIOUS
  <1>4. \A j \in S : j <= i
    <2> SUFFICES ASSUME NEW j \in S PROVE j <= i
      OBVIOUS
    <2>1. MaxIncidents - i <= MaxIncidents - j
      BY <1>2, <1>3
    <2> QED BY <1>0, <2>1
  <1> QED BY <1>4 DEF Newest

LEMMA NewestIs ==
    ASSUME NEW S \in SUBSET IncidentId, NEW i \in S, \A j \in S : j <= i
    PROVE  Newest(S) = i
  <1>1. Newest(S) \in S /\ \A j \in S : j <= Newest(S)
    BY NewestIn
  <1>2. IncidentId \subseteq Int
    BY DEF IncidentId
  <1>3. i \in Int /\ Newest(S) \in Int
    BY <1>1, <1>2
  <1> QED BY <1>1, <1>3

-----------------------------------------------------------------------------
(* The inductive invariant of a worker that has the table for itself.        *)

(* Keys are handed out in order. *)
KeysUsed == \A i \in IncidentId : Exists(i) => i < next_id

(* An open incident is the latest of its monitor, hence the only open one. *)
OpenIsLatest ==
    \A m \in Monitor : \A i \in OpenOf(m), j \in IncidentsOf(m) : j <= i

(* What the worker saw when its task began still holds: nobody else writes. *)
DecisionStands ==
    \A w \in Worker :
        /\ handling[w].pc = "creating" => OpenOf(handling[w].monitor) = {}
        /\ handling[w].pc = "resolving" =>
             /\ Exists(handling[w].incident)
             /\ incidents[handling[w].incident].status = "OPEN"

(* An alert is about the latest incident of its monitor and tells its state. *)
Tells(k, i) == k = IF incidents[i].status = "OPEN" THEN "warning" ELSE "info"

AlertIsNews ==
    \A w \in Worker : handling[w].pc \in {"alerting", "sending"} =>
        /\ Exists(handling[w].incident)
        /\ Tells(handling[w].kind, handling[w].incident)
        /\ \A j \in IncidentsOf(incidents[handling[w].incident].monitor) :
              j <= handling[w].incident

(* Messages are about incidents that exist; a recovery is never taken back. *)
MessagesTrue ==
    \A n \in DOMAIN notifications_queue :
        LET msg == notifications_queue[n] IN
        /\ Exists(msg.incident)
        /\ msg.kind = "info" => incidents[msg.incident].status = "RESOLVED"

(* The channels a worker still has to write to. *)
Pending(h, channel) == h.pc = "alerting" \/ (h.pc = "sending" /\ channel \in h.todo)

(* What is still to be sent has not been sent. *)
AlertIsFresh ==
    \A w \in Worker, n \in DOMAIN notifications_queue, channel \in Channel :
        Pending(handling[w], channel) =>
            notifications_queue[n] # [incident |-> handling[w].incident,
                                      kind |-> handling[w].kind,
                                      channel |-> channel]

SoloInv ==
    /\ KeysUsed /\ OpenIsLatest /\ DecisionStands
    /\ AlertIsNews /\ MessagesTrue /\ AlertIsFresh

LEMMA InitSolo == Init => SoloInv
  BY DEF Init, SoloInv, KeysUsed, OpenIsLatest, DecisionStands, AlertIsNews,
         MessagesTrue, AlertIsFresh, OpenOf, Exists, Idle

(* What the query at the start of a task finds. *)
LEMMA DecisionFields ==
    ASSUME TypeOK, NEW e \in Event, NEW i \in FirstOpen(e.monitor)
    PROVE  LET d == Decision(e, i) IN
           /\ d.pc \in {"idle", "creating", "resolving"}
           /\ d.pc = "creating" => d.monitor = e.monitor /\ OpenOf(e.monitor) = {}
           /\ d.pc = "resolving" => d.incident = i /\ i \in OpenOf(e.monitor)
  <1>1. i = 0 <=> OpenOf(e.monitor) = {}
    BY DEF FirstOpen, OpenOf, IncidentId
  <1>2. i # 0 => i \in OpenOf(e.monitor)
    BY DEF FirstOpen
  <1> QED BY <1>1, <1>2 DEF Decision, Idle

LEMMA ReadOpenSolo ==
    ASSUME Solo, TypeOK, SoloInv, NEW w \in Worker, ReadOpen(w) PROVE SoloInv'
  <1> DEFINE e == Head(incidents_queue)
  <1>1. e \in Event
    BY DEF ReadOpen, TypeOK
  <1>2. PICK i \in FirstOpen(e.monitor) :
          handling' = [handling EXCEPT ![w] = Decision(e, i)]
    BY DEF ReadOpen
  <1>3. \A v \in Worker : handling'[v] = Decision(e, i)
    BY <1>2 DEF Solo, TypeOK
  <1>4. UNCHANGED <<incidents, next_id, notifications_queue>>
    BY DEF ReadOpen
  <1>5. KeysUsed' /\ OpenIsLatest' /\ MessagesTrue'
    BY <1>4 DEF SoloInv, KeysUsed, OpenIsLatest, MessagesTrue, Exists, OpenOf,
                IncidentsOf
  <1>6. DecisionStands'
    BY <1>1, <1>3, <1>4, DecisionFields DEF DecisionStands, OpenOf, Exists
  <1>7. AlertIsNews' /\ AlertIsFresh'
    BY <1>1, <1>3, DecisionFields DEF AlertIsNews, AlertIsFresh, Pending
  <1> QED BY <1>5, <1>6, <1>7 DEF SoloInv

(* The new incident is the only open one and newer than every other. *)
LEMMA CreateTable ==
    ASSUME TypeOK, SoloInv, NEW w \in Worker, Create(w),
           NEW m \in Monitor, handling[w].monitor = m,
           NEW k \in IncidentId, next_id = k
    PROVE  /\ ~Exists(k) /\ Exists(k)'
           /\ incidents'[k].monitor = m /\ incidents'[k].status = "OPEN"
           /\ \A i \in IncidentId : i # k => incidents'[i] = incidents[i]
           /\ \A i \in IncidentId : Exists(i) => i < k
           /\ IncidentsOf(m)' = IncidentsOf(m) \cup {k}
           /\ OpenOf(m) = {} /\ OpenOf(m)' = {k}
           /\ \A n \in Monitor : n # m => /\ IncidentsOf(n)' = IncidentsOf(n)
                                          /\ OpenOf(n)' = OpenOf(n)
  <1> DEFINE new == [monitor |-> m, owned |-> TRUE, status |-> "OPEN",
                     by_client |-> FALSE]
  <1>1. new \in Incident /\ new # None
    <2>1. new \in Incident
      BY DEF Incident, Status
    <2> QED BY <2>1, NullAssumption
  <1>2. /\ incidents'[k] = new
        /\ \A i \in IncidentId : i # k => incidents'[i] = incidents[i]
    BY DEF Create, TypeOK
  <1>3. \A i \in IncidentId : Exists(i) => i < k
    BY DEF SoloInv, KeysUsed
  <1>4. k \in Int
    BY DEF IncidentId
  <1>5. ~Exists(k) /\ Exists(k)'
    BY <1>1, <1>2, <1>3, <1>4 DEF Exists
  <1>6. OpenOf(m) = {}
    BY DEF Create, SoloInv, DecisionStands
  <1>7. new.monitor = m /\ new.status = "OPEN"
    OBVIOUS
  <1> HIDE DEF new
  <1>8. /\ IncidentsOf(m)' = IncidentsOf(m) \cup {k}
        /\ \A n \in Monitor : n # m => IncidentsOf(n)' = IncidentsOf(n)
    BY <1>1, <1>2, <1>5, <1>7 DEF IncidentsOf, Exists
  <1>9. /\ OpenOf(m)' = {k}
        /\ \A n \in Monitor : n # m => OpenOf(n)' = OpenOf(n)
    BY <1>1, <1>2, <1>5, <1>6, <1>7 DEF OpenOf, Exists
  <1> QED BY <1>2, <1>3, <1>5, <1>6, <1>7, <1>8, <1>9

LEMMA CreateSolo ==
    ASSUME Solo, TypeOK, SoloInv, NEW w \in Worker, Create(w) PROVE SoloInv'
  <1>0. PICK m \in Monitor, k \in IncidentId : handling[w].monitor = m /\ next_id = k
    BY HandlingFields DEF Create
  <1>1. /\ \A i \in IncidentId : i \in Nat
        /\ k \in Nat
    BY DEF IncidentId
  <1>11. /\ ~Exists(k) /\ Exists(k)'
         /\ incidents'[k].monitor = m /\ incidents'[k].status = "OPEN"
         /\ \A i \in IncidentId : i # k => incidents'[i] = incidents[i]
         /\ \A i \in IncidentId : Exists(i) => i < k
    BY <1>0, CreateTable
  <1>12. /\ IncidentsOf(m)' = IncidentsOf(m) \cup {k}
         /\ OpenOf(m) = {} /\ OpenOf(m)' = {k}
         /\ \A n \in Monitor : n # m => /\ IncidentsOf(n)' = IncidentsOf(n)
                                        /\ OpenOf(n)' = OpenOf(n)
    BY <1>0, CreateTable
  <1>13. \A j \in IncidentsOf(m) : j \in Nat /\ j < k
    BY <1>1, <1>11 DEF IncidentsOf
  <1>2. next_id' = k + 1 /\ UNCHANGED notifications_queue
    BY <1>0 DEF Create
  <1>3. \A v \in Worker :
          handling'[v] = [pc |-> "alerting", incident |-> k, kind |-> "warning"]
    BY <1>0 DEF Create, Solo, TypeOK
  <1>4. KeysUsed'
    <2> SUFFICES ASSUME NEW i \in IncidentId, Exists(i)' PROVE i < next_id'
      BY DEF KeysUsed, Exists
    <2>1. i = k \/ i < k
      BY <1>11 DEF Exists
    <2> QED BY <1>1, <1>2, <2>1
  <1>5. OpenIsLatest'
    <2> SUFFICES ASSUME NEW n \in Monitor, NEW i \in OpenOf(n)', NEW j \in IncidentsOf(n)'
                 PROVE  j <= i
      BY DEF OpenIsLatest
    <2>1. CASE n = m
      <3>1. i = k /\ (j = k \/ (j \in Nat /\ j < k))
        BY <1>12, <1>13, <2>1
      <3>2. CASE j = k
        BY <1>1, <3>1, <3>2
      <3>3. CASE j \in Nat /\ j < k
        BY <1>1, <3>1, <3>3
      <3> QED BY <3>1, <3>2, <3>3
    <2>2. CASE n # m
      BY <1>12, <2>2 DEF SoloInv, OpenIsLatest
    <2> QED BY <2>1, <2>2
  <1>6. DecisionStands'
    BY <1>3 DEF DecisionStands
  <1>7. AlertIsNews'
    <2>1. \A j \in IncidentsOf(m)' : j <= k
      BY <1>1, <1>12, <1>13
    <2> QED BY <1>3, <1>11, <2>1 DEF AlertIsNews, Tells
  <1>8. \A n \in DOMAIN notifications_queue :
             /\ notifications_queue[n].incident \in IncidentId
             /\ notifications_queue[n].incident # k
    <2> SUFFICES ASSUME NEW n \in DOMAIN notifications_queue
                 PROVE  /\ notifications_queue[n].incident \in IncidentId
                        /\ notifications_queue[n].incident # k
      OBVIOUS
    <2>1. notifications_queue[n] \in Message
      BY DEF TypeOK
    <2>2. Exists(notifications_queue[n].incident)
      BY DEF SoloInv, MessagesTrue
    <2> QED BY <1>11, <2>1, <2>2 DEF Message
  <1>9. MessagesTrue'
    BY <1>2, <1>8, <1>11 DEF SoloInv, MessagesTrue, Exists
  <1>10. AlertIsFresh'
    BY <1>2, <1>3, <1>8 DEF AlertIsFresh
  <1> QED BY <1>4, <1>5, <1>6, <1>7, <1>9, <1>10 DEF SoloInv

(* resolve() closes the one open incident of its monitor. *)
LEMMA ResolveTable ==
    ASSUME TypeOK, SoloInv, NEW w \in Worker, Resolve(w),
           NEW i \in IncidentId, handling[w].incident = i,
           NEW m \in Monitor, incidents[i].monitor = m
    PROVE  /\ Exists(i) /\ incidents[i].status = "OPEN"
           /\ incidents'[i].status = "RESOLVED"
           /\ \A j \in IncidentId :
                 /\ Exists(j)' <=> Exists(j)
                 /\ Exists(j) => incidents'[j].monitor = incidents[j].monitor
                 /\ j # i => incidents'[j] = incidents[j]
           /\ \A n \in Monitor : IncidentsOf(n)' = IncidentsOf(n)
           /\ i \in OpenOf(m) /\ OpenOf(m)' = {}
           /\ \A n \in Monitor : n # m => OpenOf(n)' = OpenOf(n)
  <1> DEFINE new == [incidents[i] EXCEPT !.status = "RESOLVED"]
  <1>1. Exists(i) /\ incidents[i].status = "OPEN"
    BY DEF Resolve, SoloInv, DecisionStands
  <1>2. incidents[i] \in Incident
    BY <1>1 DEF TypeOK, Exists
  <1>3. new \in Incident /\ new.monitor = m /\ new.status = "RESOLVED"
    BY <1>2 DEF Incident, Status
  <1>4. new # None
    BY <1>3, NullAssumption
  <1>5. /\ incidents'[i] = new
        /\ \A j \in IncidentId : j # i => incidents'[j] = incidents[j]
    BY DEF Resolve, TypeOK
  <1> HIDE DEF new
  <1>6. \A j \in IncidentId :
           /\ Exists(j)' <=> Exists(j)
           /\ Exists(j) => incidents'[j].monitor = incidents[j].monitor
    BY <1>1, <1>3, <1>4, <1>5 DEF Exists
  <1>7. \A n \in Monitor : IncidentsOf(n)' = IncidentsOf(n)
    BY <1>6 DEF IncidentsOf, Exists
  <1>8. i \in OpenOf(m) /\ \A j \in OpenOf(m) : j = i
    <2>1. i \in OpenOf(m)
      BY <1>1 DEF OpenOf
    <2>2. ASSUME NEW j \in OpenOf(m) PROVE j = i
      <3>1. i \in IncidentsOf(m) /\ j \in IncidentsOf(m)
        BY <2>1 DEF OpenOf, IncidentsOf
      <3>2. i <= j /\ j <= i
        BY <2>1, <3>1 DEF SoloInv, OpenIsLatest
      <3>3. i \in Nat /\ j \in Nat
        BY DEF OpenOf, IncidentId
      <3> QED BY <3>2, <3>3
    <2> QED BY <2>1, <2>2
  <1>9. /\ OpenOf(m)' = {}
        /\ \A n \in Monitor : n # m => OpenOf(n)' = OpenOf(n)
    BY <1>1, <1>3, <1>4, <1>5, <1>6, <1>8 DEF OpenOf, Exists
  <1> QED BY <1>1, <1>3, <1>5, <1>6, <1>7, <1>8, <1>9

LEMMA ResolveSolo ==
    ASSUME Solo, TypeOK, SoloInv, NEW w \in Worker, Resolve(w) PROVE SoloInv'
  <1>0. PICK i \in IncidentId, m \in Monitor :
          handling[w].incident = i /\ incidents[i].monitor = m
    <2>1. handling[w].incident \in IncidentId
      BY HandlingFields DEF Resolve
    <2>2. incidents[handling[w].incident] \in Incident
      BY <2>1 DEF Resolve, TypeOK, Exists
    <2> QED BY <2>1, <2>2 DEF Incident
  <1>1. /\ Exists(i) /\ incidents[i].status = "OPEN"
        /\ incidents'[i].status = "RESOLVED"
        /\ \A j \in IncidentId :
              /\ Exists(j)' <=> Exists(j)
              /\ Exists(j) => incidents'[j].monitor = incidents[j].monitor
              /\ j # i => incidents'[j] = incidents[j]
    BY <1>0, ResolveTable
  <1>2. /\ \A n \in Monitor : IncidentsOf(n)' = IncidentsOf(n)
        /\ i \in OpenOf(m) /\ OpenOf(m)' = {}
        /\ \A n \in Monitor : n # m => OpenOf(n)' = OpenOf(n)
    BY <1>0, ResolveTable
  <1>3. UNCHANGED <<next_id, notifications_queue>>
    BY DEF Resolve
  <1>4. \A v \in Worker :
          handling'[v] = [pc |-> "alerting", incident |-> i, kind |-> "info"]
    BY <1>0 DEF Resolve, Solo, TypeOK
  <1>5. KeysUsed'
    BY <1>1, <1>3 DEF SoloInv, KeysUsed, Exists
  <1>6. OpenIsLatest'
    BY <1>2 DEF SoloInv, OpenIsLatest
  <1>7. DecisionStands'
    BY <1>4 DEF DecisionStands
  <1>8. AlertIsNews'
    <2>1. \A j \in IncidentsOf(m)' : j <= i
      BY <1>2 DEF SoloInv, OpenIsLatest
    <2>2. Exists(i)' /\ incidents'[i].monitor = m /\ incidents'[i].status = "RESOLVED"
      BY <1>0, <1>1
    <2> QED BY <1>4, <2>1, <2>2 DEF AlertIsNews, Tells
  <1>9. \A n \in DOMAIN notifications_queue :
           /\ notifications_queue[n].incident \in IncidentId
           /\ Exists(notifications_queue[n].incident)
           /\ notifications_queue[n].kind = "info" =>
                incidents[notifications_queue[n].incident].status = "RESOLVED"
    <2> SUFFICES ASSUME NEW n \in DOMAIN notifications_queue
                 PROVE  notifications_queue[n].incident \in IncidentId
      BY DEF SoloInv, MessagesTrue
    <2>1. notifications_queue[n] \in Message
      BY DEF TypeOK
    <2> QED BY <2>1 DEF Message
  <1>10. MessagesTrue'
    BY <1>1, <1>3, <1>9 DEF MessagesTrue, Exists
  <1>11. AlertIsFresh'
    BY <1>1, <1>3, <1>4, <1>9 DEF AlertIsFresh
  <1> QED BY <1>5, <1>6, <1>7, <1>8, <1>10, <1>11 DEF SoloInv

LEMMA AskSettingsSolo ==
    ASSUME Solo, TypeOK, SoloInv, NEW w \in Worker, AskSettings(w) PROVE SoloInv'
  <1>1. UNCHANGED <<incidents, next_id, notifications_queue>>
    BY DEF AskSettings
  <1>2. PICK channels \in SUBSET Channel :
          handling' = [handling EXCEPT ![w] =
              IF channels = {} THEN Idle
              ELSE [pc |-> "sending", incident |-> handling[w].incident,
                    kind |-> handling[w].kind, todo |-> channels]]
    BY IncidentsAssumption DEF AskSettings, Enabled
  <1>21. \A v \in Worker :
            \/ handling'[v].pc = "idle"
            \/ /\ handling'[v].pc = "sending"
               /\ handling'[v].incident = handling[v].incident
               /\ handling'[v].kind = handling[v].kind
    <2>1. \A v \in Worker : v = w
      BY DEF Solo
    <2>2. CASE channels = {}
      BY <1>2, <2>1, <2>2 DEF TypeOK, Idle
    <2>3. CASE channels # {}
      BY <1>2, <2>1, <2>3 DEF TypeOK
    <2> QED BY <2>2, <2>3
  <1>3. \A v \in Worker : handling[v].pc = "alerting"
    BY DEF AskSettings, Solo
  <1>4. KeysUsed' /\ OpenIsLatest' /\ MessagesTrue'
    BY <1>1 DEF SoloInv, KeysUsed, OpenIsLatest, MessagesTrue, Exists, OpenOf,
                IncidentsOf
  <1>5. DecisionStands'
    BY <1>21 DEF DecisionStands
  <1>6. AlertIsNews'
    BY <1>1, <1>21, <1>3 DEF SoloInv, AlertIsNews, Tells, Exists, IncidentsOf
  <1>7. AlertIsFresh'
    BY <1>1, <1>21, <1>3 DEF SoloInv, AlertIsFresh, Pending
  <1> QED BY <1>4, <1>5, <1>6, <1>7 DEF SoloInv

LEMMA SendOneSolo ==
    ASSUME Solo, TypeOK, SoloInv, NEW w \in Worker, SendOne(w) PROVE SoloInv'
  <1> DEFINE h == handling[w]
             msg == [incident |-> h.incident, kind |-> h.kind,
                     channel |-> FirstOf(h.todo)]
  <1>1. UNCHANGED <<incidents, next_id>>
    BY DEF SendOne
  <1>2. /\ h.pc = "sending" /\ h \in Handling
        /\ notifications_queue' = Append(notifications_queue, msg)
    BY DEF SendOne, TypeOK
  <1>3. \A v \in Worker : handling[v] = h
    BY DEF Solo
  <1>4. \/ \A v \in Worker : handling'[v] = Idle
        \/ \A v \in Worker :
              handling'[v] = [h EXCEPT !.todo = h.todo \ {msg.channel}]
    BY DEF SendOne, Solo, TypeOK
  <1>5. h.todo \in SUBSET Channel
    BY <1>2 DEF Handling, Idle
  <1>6. KeysUsed' /\ OpenIsLatest'
    BY <1>1 DEF SoloInv, KeysUsed, OpenIsLatest, Exists, OpenOf, IncidentsOf
  <1>7. \/ \A v \in Worker : handling'[v].pc = "idle"
        \/ \A v \in Worker :
              /\ handling'[v].pc = "sending" /\ handling'[v].incident = h.incident
              /\ handling'[v].kind = h.kind
              /\ handling'[v].todo = h.todo \ {msg.channel}
    <2>1. h \in [pc : {"sending"}, incident : IncidentId, kind : Kind,
                 todo : (SUBSET Channel) \ {{}}]
      BY <1>2 DEF Handling, Idle
    <2> QED BY <1>4, <2>1 DEF Idle
  <1>8. DecisionStands'
    BY <1>7 DEF DecisionStands
  <1>9. AlertIsNews'
    BY <1>1, <1>2, <1>7 DEF SoloInv, AlertIsNews, Tells, Exists, IncidentsOf
  <1>10. \A n \in DOMAIN notifications_queue' :
            \/ notifications_queue'[n] = msg
            \/ n \in DOMAIN notifications_queue
                  /\ notifications_queue'[n] = notifications_queue[n]
    BY <1>2 DEF TypeOK
  <1>11. /\ Exists(h.incident)
         /\ h.kind = "info" => incidents[h.incident].status = "RESOLVED"
    <2>1. Exists(h.incident) /\ Tells(h.kind, h.incident)
      BY <1>2 DEF SoloInv, AlertIsNews
    <2>2. h.incident \in IncidentId
      BY <1>2, HandlingFields
    <2>3. incidents[h.incident].status \in Status
      BY <2>1, <2>2 DEF TypeOK, Exists, Incident
    <2> QED BY <2>1, <2>3 DEF Tells, Status
  <1>12. MessagesTrue'
    BY <1>1, <1>10, <1>11 DEF SoloInv, MessagesTrue, Exists
  <1>13. AlertIsFresh'
    <2> SUFFICES ASSUME NEW v \in Worker, NEW n \in DOMAIN notifications_queue',
                        NEW channel \in Channel, Pending(handling'[v], channel)
                 PROVE  notifications_queue'[n] #
                          [incident |-> handling'[v].incident,
                           kind |-> handling'[v].kind, channel |-> channel]
      BY DEF AlertIsFresh, Pending
    <2>1. /\ handling'[v].incident = h.incident /\ handling'[v].kind = h.kind
          /\ channel \in h.todo /\ channel # msg.channel
      BY <1>7 DEF Pending
    <2>2. Pending(h, channel)
      BY <1>2, <2>1 DEF Pending
    <2>3. \A k \in DOMAIN notifications_queue :
             notifications_queue[k] # [incident |-> h.incident, kind |-> h.kind,
                                       channel |-> channel]
      BY <2>2 DEF SoloInv, AlertIsFresh
    <2>4. msg # [incident |-> h.incident, kind |-> h.kind, channel |-> channel]
      BY <2>1
    <2> QED BY <1>10, <2>1, <2>3, <2>4
  <1> QED BY <1>6, <1>8, <1>9, <1>12, <1>13 DEF SoloInv

LEMMA NextSolo ==
    ASSUME Solo, TypeOK, SoloInv, [Arrive \/ ServiceStep]_vars PROVE SoloInv'
  <1>1. CASE UNCHANGED vars \/ Arrive
    BY <1>1 DEF vars, Arrive, SoloInv, KeysUsed, OpenIsLatest, DecisionStands,
                AlertIsNews, MessagesTrue, AlertIsFresh, Pending, Tells, Exists,
                OpenOf, IncidentsOf
  <1>2. ASSUME NEW w \in Worker, UNCHANGED <<incidents, next_id, notifications_queue>>,
               handling' = [handling EXCEPT ![w] = Idle]
        PROVE  SoloInv'
    <2>1. \A v \in Worker : handling'[v].pc = "idle"
      BY <1>2 DEF Solo, TypeOK, Idle
    <2>2. KeysUsed' /\ OpenIsLatest' /\ MessagesTrue'
      BY <1>2 DEF SoloInv, KeysUsed, OpenIsLatest, MessagesTrue, Exists, OpenOf,
                  IncidentsOf
    <2>3. DecisionStands' /\ AlertIsNews' /\ AlertIsFresh'
      BY <2>1 DEF DecisionStands, AlertIsNews, AlertIsFresh, Pending
    <2> QED BY <2>2, <2>3 DEF SoloInv
  <1>3. ASSUME NEW w \in Worker, WorkerStep(w) \/ TaskDies(w) PROVE SoloInv'
    <2>1. CASE ReadOpen(w)
      BY <2>1, ReadOpenSolo
    <2>2. CASE Create(w)
      BY <2>2, CreateSolo
    <2>3. CASE Resolve(w)
      BY <2>3, ResolveSolo
    <2>4. CASE ResolveFails(w)
      BY <2>4, <1>2 DEF ResolveFails
    <2>5. CASE AskSettings(w)
      BY <2>5, AskSettingsSolo
    <2>6. CASE SendOne(w)
      BY <2>6, SendOneSolo
    <2>7. CASE TaskDies(w)
      BY <2>7, <1>2 DEF TaskDies
    <2> QED BY <1>3, <2>1, <2>2, <2>3, <2>4, <2>5, <2>6, <2>7 DEF WorkerStep
  <1> QED BY <1>1, <1>3 DEF ServiceStep

-----------------------------------------------------------------------------
(* Every step of the service is a step of Outage, or changes nothing there. *)

LEMMA InitMaps == Init => Promise!Init
  <1> SUFFICES ASSUME Init PROVE Promise!Init
    OBVIOUS
  <1>1. \A m \in Monitor : IncidentsOf(m) = {} /\ OpenOf(m) = {}
    BY DEF Init, IncidentsOf, OpenOf, Exists
  <1>2. latest = [m \in Monitor |-> 0] /\ down = {}
    BY <1>1 DEF latest, down
  <1> QED BY <1>2 DEF Promise!Init, Init

LEMMA LatestUnchanged ==
    ASSUME \A n \in Monitor : IncidentsOf(n)' = IncidentsOf(n)
    PROVE  latest' = latest
  <1>1. latest' = [n \in Monitor |-> IF IncidentsOf(n)' = {} THEN 0
                                     ELSE Newest(IncidentsOf(n)')]
    BY DEF latest, Newest
  <1> QED BY <1>1 DEF latest

LEMMA TableUnchanged ==
    ASSUME UNCHANGED incidents PROVE latest' = latest /\ down' = down
  <1>1. \A n \in Monitor : IncidentsOf(n)' = IncidentsOf(n) /\ OpenOf(n)' = OpenOf(n)
    BY DEF IncidentsOf, OpenOf, Exists
  <1> QED BY <1>1, LatestUnchanged DEF down

(* The latest incident of each monitor is one of the rows. *)
LEMMA LatestBelow ==
    ASSUME NEW m \in Monitor, NEW k \in IncidentId,
           \A i \in IncidentsOf(m) : i < k
    PROVE  latest[m] < k
  <1>1. CASE IncidentsOf(m) = {}
    BY <1>1 DEF latest, IncidentId
  <1>2. CASE IncidentsOf(m) # {}
    <2>1. IncidentsOf(m) \in SUBSET IncidentId
      BY DEF IncidentsOf
    <2>2. Newest(IncidentsOf(m)) \in IncidentsOf(m)
      BY <1>2, <2>1, NewestIn
    <2> QED BY <1>2, <2>2 DEF latest
  <1> QED BY <1>1, <1>2

LEMMA CreateBreaks ==
    ASSUME Solo, TypeOK, SoloInv, NEW w \in Worker, Create(w) PROVE Promise!Next
  <1>0. PICK m \in Monitor, k \in IncidentId : handling[w].monitor = m /\ next_id = k
    BY HandlingFields DEF Create
  <1>1. \A i \in IncidentId : Exists(i) => i < k
    BY <1>0, CreateTable
  <1>2. /\ IncidentsOf(m)' = IncidentsOf(m) \cup {k}
        /\ OpenOf(m) = {} /\ OpenOf(m)' = {k}
        /\ \A n \in Monitor : n # m => /\ IncidentsOf(n)' = IncidentsOf(n)
                                       /\ OpenOf(n)' = OpenOf(n)
    BY <1>0, CreateTable
  <1>3. \A n \in Monitor : latest[n] < k
    <2> SUFFICES ASSUME NEW n \in Monitor PROVE latest[n] < k
      OBVIOUS
    <2>1. \A i \in IncidentsOf(n) : i < k
      BY <1>1 DEF IncidentsOf
    <2> QED BY <2>1, LatestBelow
  <1>4. Newest(IncidentsOf(m)') = k
    <2> DEFINE S == IncidentsOf(m) \cup {k}
    <2>1. S \in SUBSET IncidentId /\ k \in S
      BY DEF IncidentsOf
    <2>2. \A j \in S : j <= k
      <3> SUFFICES ASSUME NEW j \in S PROVE j <= k
        OBVIOUS
      <3>1. j = k \/ j < k
        BY <1>1 DEF IncidentsOf
      <3>2. j \in Nat /\ k \in Nat
        BY <2>1 DEF IncidentId
      <3> QED BY <3>1, <3>2
    <2> HIDE DEF S
    <2>3. Newest(S) = k
      BY <2>1, <2>2, NewestIs
    <2> QED BY <1>2, <2>3 DEF S
  <1>5. latest' = [latest EXCEPT ![m] = k]
    <2>1. latest' = [n \in Monitor |-> IF IncidentsOf(n)' = {} THEN 0
                                       ELSE Newest(IncidentsOf(n)')]
      BY DEF latest, Newest
    <2>2. \A n \in Monitor \ {m} : latest'[n] = latest[n]
      BY <1>2, <2>1 DEF latest
    <2>3. latest'[m] = k
      BY <1>2, <1>4, <2>1
    <2>4. latest = [n \in Monitor |-> latest[n]]
      BY DEF latest
    <2>5. latest' = [n \in Monitor |-> latest'[n]]
      BY <2>1
    <2> QED BY <2>2, <2>3, <2>4, <2>5
  <1>6. m \notin down /\ down' = down \cup {m}
    BY <1>2 DEF down
  <1>7. Promise!Break(m)
    BY <1>3, <1>5, <1>6 DEF Promise!Break, Create
  <1> QED BY <1>7 DEF Promise!Next

LEMMA ResolveRecovers ==
    ASSUME Solo, TypeOK, SoloInv, NEW w \in Worker, Resolve(w) PROVE Promise!Next
  <1>0. PICK i \in IncidentId, m \in Monitor :
          handling[w].incident = i /\ incidents[i].monitor = m
    <2>1. handling[w].incident \in IncidentId
      BY HandlingFields DEF Resolve
    <2>2. incidents[handling[w].incident] \in Incident
      BY <2>1 DEF Resolve, TypeOK, Exists
    <2> QED BY <2>1, <2>2 DEF Incident
  <1>1. /\ \A n \in Monitor : IncidentsOf(n)' = IncidentsOf(n)
        /\ i \in OpenOf(m) /\ OpenOf(m)' = {}
        /\ \A n \in Monitor : n # m => OpenOf(n)' = OpenOf(n)
    BY <1>0, ResolveTable
  <1>2. UNCHANGED latest
    BY <1>1, LatestUnchanged
  <1>3. m \in down /\ down' = down \ {m}
    BY <1>1 DEF down
  <1>4. Promise!Recover(m)
    BY <1>2, <1>3 DEF Promise!Recover, Resolve
  <1> QED BY <1>4 DEF Promise!Next

LEMMA SendOneAlerts ==
    ASSUME Solo, TypeOK, SoloInv, NEW w \in Worker, SendOne(w) PROVE Promise!Next
  <1> DEFINE h == handling[w]
             i == h.incident
             channel == FirstOf(h.todo)
             msg == [incident |-> i, kind |-> h.kind, channel |-> channel]
  <1>1. /\ h.pc = "sending" /\ h \in Handling
        /\ notifications_queue' = Append(notifications_queue, msg)
        /\ UNCHANGED incidents
    BY DEF SendOne, TypeOK
  <1>2. h.todo \in SUBSET Channel /\ h.todo # {}
    BY <1>1 DEF Handling, Idle
  <1>3. channel \in h.todo
    BY <1>2, FirstOfIn
  <1>4. i \in IncidentId
    BY <1>1, HandlingFields
  <1>5. Exists(i) /\ Tells(h.kind, i)
    BY <1>1 DEF SoloInv, AlertIsNews
  <1>6. incidents[i] \in Incident
    BY <1>4, <1>5 DEF TypeOK, Exists
  <1>7. PICK m \in Monitor : incidents[i].monitor = m
    BY <1>6 DEF Incident
  <1>8. i \in IncidentsOf(m) /\ \A j \in IncidentsOf(m) : j <= i
    BY <1>1, <1>4, <1>5, <1>7 DEF SoloInv, AlertIsNews, IncidentsOf
  <1>9. latest[m] = i
    <2>1. IncidentsOf(m) \in SUBSET IncidentId
      BY DEF IncidentsOf
    <2>2. Newest(IncidentsOf(m)) = i
      BY <1>8, <2>1, NewestIs
    <2> QED BY <1>8, <2>2 DEF latest
  <1>10. m \in down <=> incidents[i].status = "OPEN"
    <2>1. CASE incidents[i].status = "OPEN"
      BY <1>4, <1>5, <1>7, <2>1 DEF down, OpenOf
    <2>2. CASE m \in down
      <3>1. PICK j \in OpenOf(m) : TRUE
        BY <2>2 DEF down
      <3>2. i <= j
        BY <1>8 DEF SoloInv, OpenIsLatest
      <3>3. j <= i
        BY <1>8, <3>1 DEF OpenOf, IncidentsOf
      <3>4. i \in Nat /\ j \in Nat
        BY <1>4 DEF OpenOf, IncidentId
      <3>5. i = j
        BY <3>2, <3>3, <3>4
      <3> QED BY <2>2, <3>1, <3>5 DEF OpenOf
    <2> QED BY <2>1, <2>2
  <1>11. h.kind = IF m \in down THEN "warning" ELSE "info"
    BY <1>5, <1>10 DEF Tells
  <1>12. \A n \in DOMAIN notifications_queue : notifications_queue[n] # msg
    BY <1>1, <1>2, <1>3 DEF SoloInv, AlertIsFresh, Pending
  <1>13. UNCHANGED <<latest, down>>
    BY <1>1, TableUnchanged
  <1>14. latest[m] # 0
    BY <1>4, <1>9 DEF IncidentId
  <1>15. Promise!Alert(m, channel)
    BY <1>1, <1>9, <1>11, <1>12, <1>13, <1>14 DEF Promise!Alert
  <1> QED BY <1>2, <1>3, <1>15 DEF Promise!Next

LEMMA StepMaps ==
    ASSUME Solo, TypeOK, SoloInv, [Arrive \/ ServiceStep]_vars
    PROVE  [Promise!Next]_(Promise!vars)
  <1>1. ASSUME UNCHANGED <<incidents, notifications_queue>>
        PROVE  UNCHANGED Promise!vars
    BY <1>1, TableUnchanged DEF Promise!vars
  <1>2. CASE UNCHANGED vars \/ Arrive
    BY <1>1, <1>2 DEF vars, Arrive
  <1>3. ASSUME NEW w \in Worker, WorkerStep(w) \/ TaskDies(w)
        PROVE  [Promise!Next]_(Promise!vars)
    <2>1. CASE ReadOpen(w) \/ ResolveFails(w) \/ AskSettings(w) \/ TaskDies(w)
      BY <1>1, <2>1 DEF ReadOpen, ResolveFails, AskSettings, TaskDies
    <2>2. CASE Create(w)
      BY <2>2, CreateBreaks
    <2>3. CASE Resolve(w)
      BY <2>3, ResolveRecovers
    <2>4. CASE SendOne(w)
      BY <2>4, SendOneAlerts
    <2> QED BY <1>3, <2>1, <2>2, <2>3, <2>4 DEF WorkerStep
  <1> QED BY <1>2, <1>3 DEF ServiceStep

-----------------------------------------------------------------------------
LEMMA SoloInvariance ==
    ASSUME Solo PROVE WorkerSpec => [](TypeOK /\ SoloInv)
  <1>1. Init => TypeOK /\ SoloInv
    BY InitType, InitSolo
  <1>2. TypeOK /\ SoloInv /\ [Arrive \/ ServiceStep]_vars => (TypeOK /\ SoloInv)'
    <2> SUFFICES ASSUME TypeOK, SoloInv, [Arrive \/ ServiceStep]_vars
                 PROVE  TypeOK' /\ SoloInv'
      OBVIOUS
    <2>1. [Next]_vars
      BY DEF Next
    <2> QED BY <2>1, NextType, NextSolo
  <1> QED BY <1>1, <1>2, PTL DEF WorkerSpec

(* One incidents worker keeps the promise of Outage as long as nobody edits  *)
(* incidents by hand: each outage is one incident, its owner hears of it in  *)
(* order and at most once per channel, whichever tasks die on the way.       *)
(* This is process_incident_task with dispatch_notifications.                *)
THEOREM SoloKeepsPromise ==
    ASSUME Cardinality(Worker) = 1 PROVE WorkerSpec => ImplementsOutage
  <1>1. Solo
    BY OneIsSolo
  <1>2. WorkerSpec => [](TypeOK /\ SoloInv)
    BY <1>1, SoloInvariance
  <1>3. TypeOK /\ SoloInv /\ [Arrive \/ ServiceStep]_vars => [Promise!Next]_(Promise!vars)
    BY <1>1, StepMaps
  <1> QED BY <1>2, <1>3, InitMaps, PTL DEF WorkerSpec, ImplementsOutage, Promise!Spec

(* And it never announces the same failure or recovery twice: the messages   *)
(* of dispatch_notifications are all different.                              *)
THEOREM SoloAlertsOnce ==
    ASSUME Cardinality(Worker) = 1 PROVE WorkerSpec => AlertOnce
  <1>1. Solo
    BY OneIsSolo
  <1>2. WorkerSpec => [](TypeOK /\ SoloInv)
    BY <1>1, SoloInvariance
  <1>3. TypeOK /\ SoloInv /\ [Arrive \/ ServiceStep]_vars
          => [notifications_queue' # notifications_queue => ~Sent(NewMessage)]_vars
    <2> SUFFICES ASSUME TypeOK, SoloInv, Arrive \/ ServiceStep,
                        notifications_queue' # notifications_queue
                 PROVE  ~Sent(NewMessage)
      BY DEF vars
    <2>1. PICK w \in Worker : SendOne(w)
      BY DEF Arrive, ServiceStep, WorkerStep, ReadOpen, Create, Resolve, ResolveFails,
             AskSettings, TaskDies
    <2> DEFINE h == handling[w]
               msg == [incident |-> h.incident, kind |-> h.kind,
                       channel |-> FirstOf(h.todo)]
    <2>2. /\ h.pc = "sending" /\ h \in Handling
          /\ notifications_queue' = Append(notifications_queue, msg)
      BY <2>1 DEF SendOne, TypeOK
    <2>3. h.todo \in SUBSET Channel /\ h.todo # {}
      BY <2>2 DEF Handling, Idle
    <2>4. FirstOf(h.todo) \in h.todo
      BY <2>3, FirstOfIn
    <2>5. \A n \in DOMAIN notifications_queue : notifications_queue[n] # msg
      BY <2>2, <2>3, <2>4 DEF SoloInv, AlertIsFresh, Pending
    <2>6. NewMessage = msg
      BY <2>2 DEF NewMessage, TypeOK
    <2> QED BY <2>5, <2>6 DEF Sent
  <1> QED BY <1>2, <1>3, PTL DEF WorkerSpec, AlertOnce
=============================================================================
