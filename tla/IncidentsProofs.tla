--------------------------- MODULE IncidentsProofs --------------------------
(* Theorems about Incidents, for every set of monitors, workers and clients. *)
EXTENDS Incidents, FiniteSetTheorems, TLAPS

-----------------------------------------------------------------------------
(* Lemmas about the operators the actions are built from. *)

LEMMA FirstOfIn ==
    ASSUME NEW S \in SUBSET Channel, S # {} PROVE FirstOf(S) \in S
  <1> DEFINE First(n) == /\ Channels[n] \in S
                         /\ \A k \in 1 .. (n - 1) : Channels[k] \notin S
  <1>1. \E n \in 1 .. 3 : First(n)
    <2>1. CASE "email" \in S
      <3>1. First(1)
        BY <2>1 DEF Channels
      <3> QED BY <3>1
    <2>2. CASE "email" \notin S /\ "telegram" \in S
      <3>1. First(2)
        BY <2>2 DEF Channels
      <3> QED BY <3>1
    <2>3. CASE "email" \notin S /\ "telegram" \notin S
      <3>1. "sms" \in S
        BY <2>3 DEF Channel
      <3>2. First(3)
        BY <2>3, <3>1 DEF Channels
      <3> QED BY <3>2
    <2> QED BY <2>1, <2>2, <2>3
  <1> QED BY <1>1 DEF FirstOf

(* The shapes a worker's record may take. *)
LEMMA HandlingShapes ==
    /\ Idle \in Handling
    /\ \A m \in Monitor : [pc |-> "creating", monitor |-> m] \in Handling
    /\ \A i \in IncidentId :
          /\ [pc |-> "resolving", incident |-> i] \in Handling
          /\ [pc |-> "alerting", incident |-> i, kind |-> "warning"] \in Handling
          /\ [pc |-> "alerting", incident |-> i, kind |-> "info"] \in Handling
    /\ \A i \in IncidentId, k \in Kind, todo \in (SUBSET Channel) \ {{}} :
          [pc |-> "sending", incident |-> i, kind |-> k, todo |-> todo] \in Handling
  BY DEF Handling, Kind

(* What a worker's program counter says about the rest of its record. *)
LEMMA HandlingFields ==
    ASSUME TypeOK, NEW w \in Worker
    PROVE  /\ handling[w].pc = "creating" => handling[w].monitor \in Monitor
           /\ handling[w].pc \in {"resolving", "alerting", "sending"}
                => handling[w].incident \in IncidentId
           /\ handling[w].pc \in {"alerting", "sending"} => handling[w].kind \in Kind
           /\ handling[w].pc = "sending" =>
                /\ handling[w].todo \in (SUBSET Channel) \ {{}}
                /\ handling[w] = [pc |-> "sending", incident |-> handling[w].incident,
                                  kind |-> handling[w].kind, todo |-> handling[w].todo]
  BY DEF TypeOK, Handling, Idle

LEMMA DecisionType ==
    ASSUME NEW e \in Event, NEW i \in FirstOpen(e.monitor)
    PROVE  Decision(e, i) \in Handling
  <1>1. i # 0 => i \in IncidentId
    BY DEF FirstOpen, OpenOf
  <1>2. e.monitor \in Monitor
    BY DEF Event
  <1> QED BY <1>1, <1>2, HandlingShapes DEF Decision

-----------------------------------------------------------------------------
(* Type correctness *)

LEMMA InitType == Init => TypeOK
  BY IncidentsAssumption, HandlingShapes DEF Init, TypeOK

LEMMA WorkerType ==
    ASSUME TypeOK, NEW w \in Worker, WorkerStep(w) \/ TaskDies(w) PROVE TypeOK'
  <1> USE HandlingShapes
  <1>1. CASE ReadOpen(w)
    <2>1. Head(incidents_queue) \in Event /\ incidents_queue' \in Seq(Event)
      BY <1>1 DEF ReadOpen, TypeOK
    <2>2. PICK i \in FirstOpen(Head(incidents_queue).monitor) :
            handling' = [handling EXCEPT ![w] = Decision(Head(incidents_queue), i)]
      BY <1>1 DEF ReadOpen
    <2>3. handling' \in [Worker -> Handling]
      BY <2>1, <2>2, DecisionType DEF TypeOK
    <2> QED BY <1>1, <2>1, <2>3 DEF ReadOpen, TypeOK
  <1>2. CASE Create(w)
    <2>1. handling[w].monitor \in Monitor /\ next_id \in IncidentId
      BY <1>2, HandlingFields DEF Create
    <2>2. [monitor |-> handling[w].monitor, owned |-> TRUE, status |-> "OPEN",
           by_client |-> FALSE] \in Incident
      BY <2>1 DEF Incident, Status
    <2>3. incidents' \in [IncidentId -> Incident \cup {None}]
      BY <1>2, <2>2 DEF Create, TypeOK
    <2>4. next_id' \in 1 .. (MaxIncidents + 1)
      BY <1>2, <2>1, IncidentsAssumption DEF Create, IncidentId
    <2>5. handling' \in [Worker -> Handling]
      BY <1>2, <2>1 DEF Create, TypeOK
    <2> QED BY <1>2, <2>3, <2>4, <2>5 DEF Create, TypeOK
  <1>3. CASE Resolve(w)
    <2> DEFINE i == handling[w].incident
    <2>1. i \in IncidentId
      BY <1>3, HandlingFields DEF Resolve
    <2>2. incidents[i] \in Incident
      BY <1>3, <2>1 DEF Resolve, Exists, TypeOK
    <2>3. [incidents[i] EXCEPT !.status = "RESOLVED"] \in Incident
      BY <2>2 DEF Incident, Status
    <2>4. incidents' \in [IncidentId -> Incident \cup {None}]
      BY <1>3, <2>1, <2>3 DEF Resolve, TypeOK
    <2>5. handling' \in [Worker -> Handling]
      BY <1>3, <2>1 DEF Resolve, TypeOK
    <2> QED BY <1>3, <2>4, <2>5 DEF Resolve, TypeOK
  <1>4. CASE ResolveFails(w)
    BY <1>4 DEF ResolveFails, TypeOK
  <1>5. CASE AskSettings(w)
    <2>1. handling[w].incident \in IncidentId /\ handling[w].kind \in Kind
      BY <1>5, HandlingFields DEF AskSettings
    <2>2. PICK channels \in Replies \cup {{}} :
            handling' = [handling EXCEPT ![w] =
              IF channels = {} THEN Idle
              ELSE [pc |-> "sending", incident |-> handling[w].incident,
                    kind |-> handling[w].kind, todo |-> channels]]
      BY <1>5 DEF AskSettings, Enabled
    <2>3. channels # {} => channels \in (SUBSET Channel) \ {{}}
      BY IncidentsAssumption
    <2>4. handling' \in [Worker -> Handling]
      BY <2>1, <2>2, <2>3 DEF TypeOK
    <2> QED BY <1>5, <2>4 DEF AskSettings, TypeOK
  <1>6. CASE SendOne(w)
    <2> DEFINE h == handling[w]
               channel == FirstOf(h.todo)
               rest == h.todo \ {channel}
    <2>1. /\ h.incident \in IncidentId /\ h.kind \in Kind
          /\ h.todo \in (SUBSET Channel) \ {{}}
          /\ h = [pc |-> "sending", incident |-> h.incident, kind |-> h.kind,
                  todo |-> h.todo]
      BY <1>6, HandlingFields DEF SendOne
    <2>2. channel \in Channel
      BY <2>1, FirstOfIn
    <2>3. [incident |-> h.incident, kind |-> h.kind, channel |-> channel] \in Message
      BY <2>1, <2>2 DEF Message
    <2>4. notifications_queue' \in Seq(Message)
      BY <1>6, <2>3 DEF SendOne, TypeOK
    <2>5. [h EXCEPT !.todo = rest]
            = [pc |-> "sending", incident |-> h.incident, kind |-> h.kind,
               todo |-> rest]
      BY <2>1
    <2>6. rest # {} => [h EXCEPT !.todo = rest] \in Handling
      BY <2>1, <2>5
    <2>7. handling' \in [Worker -> Handling]
      BY <1>6, <2>6 DEF SendOne, TypeOK
    <2> QED BY <1>6, <2>4, <2>7 DEF SendOne, TypeOK
  <1>7. CASE TaskDies(w)
    <2>1. deaths' \in 0 .. MaxDeaths
      BY <1>7, IncidentsAssumption DEF TaskDies, TypeOK
    <2> QED BY <1>7, <2>1 DEF TaskDies, TypeOK
  <1> QED BY <1>1, <1>2, <1>3, <1>4, <1>5, <1>6, <1>7 DEF WorkerStep

LEMMA UpdatedFields ==
    ASSUME NEW u \in Update, NEW m \in Monitor
    PROVE  Updated(u, m) \in Incident /\ Updated(u, m).by_client = TRUE
  <1>1. u.obj \in Incident /\ u.status \in Status \cup {"keep"}
    BY DEF Update
  <1>2. (IF u.status = "keep" THEN u.obj.status ELSE u.status) \in Status
    BY <1>1 DEF Incident, Status
  <1> QED BY <1>1, <1>2 DEF Updated, Incident

LEMMA ClientType ==
    ASSUME TypeOK, ClientStep PROVE TypeOK'
  <1>1. CASE ApiCreate
    <2>1. PICK m \in Monitor, s \in Status :
            incidents' = [incidents EXCEPT ![next_id] =
                             [monitor |-> m, owned |-> FALSE, status |-> s,
                              by_client |-> TRUE]]
      BY <1>1 DEF ApiCreate
    <2>2. [monitor |-> m, owned |-> FALSE, status |-> s, by_client |-> TRUE] \in Incident
      BY DEF Incident
    <2>3. incidents' \in [IncidentId -> Incident \cup {None}]
      BY <2>1, <2>2 DEF TypeOK
    <2>4. next_id' \in 1 .. (MaxIncidents + 1)
      BY <1>1, IncidentsAssumption DEF ApiCreate, IncidentId
    <2> QED BY <1>1, <2>3, <2>4 DEF ApiCreate, TypeOK
  <1>2. ASSUME NEW i \in IncidentId, Destroy(i) PROVE TypeOK'
    BY <1>2 DEF Destroy, TypeOK
  <1>3. ASSUME NEW c \in Client, UpdateSave(c) PROVE TypeOK'
    <2>1. update[c] \in Update
      BY <1>3 DEF UpdateSave, TypeOK
    <2>2. PICK m \in Monitor :
            incidents' = [incidents EXCEPT ![update[c].incident] =
                             Updated(update[c], m)]
      BY <1>3 DEF UpdateSave
    <2>3. Updated(update[c], m) \in Incident
      BY <2>1, UpdatedFields
    <2>4. incidents' \in [IncidentId -> Incident \cup {None}]
      BY <2>2, <2>3 DEF TypeOK
    <2> QED BY <1>3, <2>4 DEF UpdateSave, TypeOK
  <1>4. ASSUME NEW c \in Client, NEW i \in IncidentId, UpdateBegin(c, i)
        PROVE  TypeOK'
    <2>1. PICK s \in Status \cup {"keep"} :
            update' = [update EXCEPT ![c] =
                          [incident |-> i, obj |-> incidents[i], status |-> s]]
      BY <1>4 DEF UpdateBegin
    <2>2. [incident |-> i, obj |-> incidents[i], status |-> s] \in Update
      BY <1>4 DEF UpdateBegin, Exists, TypeOK, Update
    <2> QED BY <1>4, <2>1, <2>2 DEF UpdateBegin, TypeOK
  <1> QED BY <1>1, <1>2, <1>3, <1>4 DEF ClientStep

LEMMA NextType == TypeOK /\ [Next]_vars => TypeOK'
  <1> SUFFICES ASSUME TypeOK, [Next]_vars PROVE TypeOK'
    OBVIOUS
  <1>1. CASE Arrive
    BY <1>1, IncidentsAssumption DEF Arrive, TypeOK
  <1>2. CASE ServiceStep
    BY <1>2, WorkerType DEF ServiceStep
  <1>3. CASE ClientStep
    BY <1>3, ClientType
  <1>4. CASE UNCHANGED vars
    BY <1>4 DEF vars, TypeOK
  <1> QED BY <1>1, <1>2, <1>3, <1>4 DEF Next

(* Every reachable state has the types the module declares. *)
THEOREM TypeCorrect == Spec => []TypeOK
  BY InitType, NextType, PTL DEF Spec

-----------------------------------------------------------------------------
(* How many incidents of a monitor the workers leave open *)

LEMMA Finiteness ==
    ASSUME NEW m \in Monitor
    PROVE  /\ IsFiniteSet(OpenedByWorker(m)) /\ Cardinality(OpenedByWorker(m)) \in Nat
           /\ IsFiniteSet(Creators(m)) /\ Cardinality(Creators(m)) \in Nat
           /\ Cardinality(Creators(m)) <= Cardinality(Worker)
           /\ Cardinality(Worker) \in Nat
  <1>1. IsFiniteSet(IncidentId)
    BY FS_Interval, IncidentsAssumption DEF IncidentId
  <1>2. OpenedByWorker(m) \in SUBSET IncidentId
    BY DEF OpenedByWorker, OpenOf
  <1>3. Creators(m) \in SUBSET Worker
    BY DEF Creators
  <1>4. IsFiniteSet(OpenedByWorker(m))
    BY <1>1, <1>2, FS_Subset
  <1>5. IsFiniteSet(Creators(m)) /\ Cardinality(Creators(m)) <= Cardinality(Worker)
    BY <1>3, FS_Subset, IncidentsAssumption
  <1> QED BY <1>4, <1>5, FS_CardinalityType, IncidentsAssumption

(* The sum the invariant bounds, for one monitor. *)
Pressure(m) == Cardinality(OpenedByWorker(m)) + Cardinality(Creators(m))

(* A step that opens nothing and makes nobody a creator keeps the bound. *)
LEMMA Shrinks ==
    ASSUME OpenBounded, NEW m \in Monitor,
           OpenedByWorker(m)' \subseteq OpenedByWorker(m),
           Creators(m)' \subseteq Creators(m)
    PROVE  (Pressure(m) <= Cardinality(Worker))'
  <1> DEFINE O == OpenedByWorker(m)
             O1 == OpenedByWorker(m)'
             C == Creators(m)
             C1 == Creators(m)'
  <1>1. /\ IsFiniteSet(O) /\ Cardinality(O) \in Nat
        /\ IsFiniteSet(C) /\ Cardinality(C) \in Nat /\ Cardinality(Worker) \in Nat
    BY Finiteness
  <1>2. Cardinality(O1) <= Cardinality(O) /\ IsFiniteSet(O1)
    BY <1>1, FS_Subset
  <1>3. Cardinality(C1) <= Cardinality(C) /\ IsFiniteSet(C1)
    BY <1>1, FS_Subset
  <1>4. Cardinality(O1) \in Nat /\ Cardinality(C1) \in Nat
    BY <1>2, <1>3, FS_CardinalityType
  <1>5. Cardinality(O) + Cardinality(C) <= Cardinality(Worker)
    BY DEF OpenBounded
  <1>6. Cardinality(O1) + Cardinality(C1) <= Cardinality(Worker)
    <2> HIDE DEF O, O1, C, C1
    <2> QED BY <1>1, <1>2, <1>3, <1>4, <1>5
  <1> QED BY <1>6 DEF Pressure

LEMMA InitBounded == Init => OpenBounded
  <1> SUFFICES ASSUME Init, NEW m \in Monitor
               PROVE  Cardinality(OpenedByWorker(m)) + Cardinality(Creators(m))
                        <= Cardinality(Worker)
    BY DEF OpenBounded
  <1>1. OpenedByWorker(m) = {}
    BY DEF Init, OpenedByWorker, OpenOf, Exists
  <1>2. Creators(m) = {}
    BY DEF Init, Creators, Idle
  <1>3. Cardinality(OpenedByWorker(m)) = 0 /\ Cardinality(Creators(m)) = 0
    BY <1>1, <1>2, FS_EmptySet
  <1> QED BY <1>3, Finiteness

(* The task that decides to create has seen no open incident at all. *)
LEMMA ReadOpenBounded ==
    ASSUME TypeOK, OpenBounded, NEW w \in Worker, ReadOpen(w), NEW m \in Monitor
    PROVE  (Pressure(m) <= Cardinality(Worker))'
  <1> DEFINE e == Head(incidents_queue)
  <1>0. PICK i \in FirstOpen(e.monitor) :
          handling' = [handling EXCEPT ![w] = Decision(e, i)]
    BY DEF ReadOpen
  <1> DEFINE d == Decision(e, i)
  <1>1. OpenedByWorker(m)' = OpenedByWorker(m)
    BY DEF ReadOpen, OpenedByWorker, OpenOf, Exists
  <1>2. \A v \in Worker : handling'[v] = IF v = w THEN d ELSE handling[v]
    BY <1>0 DEF TypeOK
  <1>3. CASE d.pc = "creating" /\ d.monitor = m
    <2>1. e \in Event
      BY DEF ReadOpen, TypeOK
    <2>2. OpenOf(m) = {}
      <3>1. i = 0 /\ e.monitor = m
        BY <1>3, <2>1 DEF Decision, Idle
      <3> QED BY <1>0, <3>1 DEF FirstOpen, OpenOf, IncidentId
    <2>3. Cardinality(OpenedByWorker(m)') = 0
      BY <1>1, <2>2, FS_EmptySet DEF OpenedByWorker
    <2>4. Creators(m)' \in SUBSET Worker
      BY DEF Creators
    <2>5. /\ IsFiniteSet(Creators(m)')
          /\ Cardinality(Creators(m)') <= Cardinality(Worker)
      BY <2>4, FS_Subset, IncidentsAssumption
    <2>6. Cardinality(Creators(m)') \in Nat
      BY <2>5, FS_CardinalityType
    <2> QED BY <2>3, <2>5, <2>6 DEF Pressure
  <1>4. CASE ~(d.pc = "creating" /\ d.monitor = m)
    <2>1. Creators(m)' \subseteq Creators(m)
      BY <1>2, <1>4 DEF Creators
    <2> QED BY <1>1, <2>1, Shrinks
  <1> QED BY <1>3, <1>4

(* A creator becomes an open incident: the sum does not grow. *)
LEMMA CreateBounded ==
    ASSUME TypeOK, OpenBounded, NEW w \in Worker, Create(w), NEW m \in Monitor
    PROVE  (Pressure(m) <= Cardinality(Worker))'
  <1> DEFINE O == OpenedByWorker(m)
             O1 == OpenedByWorker(m)'
             C == Creators(m)
             C1 == Creators(m)'
  <1>1. /\ IsFiniteSet(O) /\ Cardinality(O) \in Nat
        /\ IsFiniteSet(C) /\ Cardinality(C) \in Nat /\ Cardinality(Worker) \in Nat
    BY Finiteness
  <1>2. \A v \in Worker : v # w => handling'[v] = handling[v]
    BY DEF Create, TypeOK
  <1>3. handling'[w].pc = "alerting"
    BY DEF Create, TypeOK
  <1>4. C1 = C \ {w}
    BY <1>2, <1>3 DEF Creators
  <1>5. /\ \A i \in IncidentId : i # next_id => incidents'[i] = incidents[i]
        /\ incidents'[next_id].monitor = handling[w].monitor
    BY DEF Create, TypeOK
  <1>6. CASE handling[w].monitor = m
    <2>1. O1 \subseteq O \cup {next_id}
      BY <1>5 DEF OpenedByWorker, OpenOf, Exists
    <2>2. w \in C
      BY <1>6 DEF Create, Creators
    <2>3. Cardinality(C1) = Cardinality(C) - 1
      BY <1>1, <1>4, <2>2, FS_RemoveElement
    <2>4. /\ IsFiniteSet(O \cup {next_id})
          /\ Cardinality(O \cup {next_id}) <= Cardinality(O) + 1
      <3>1. /\ IsFiniteSet(O \cup {next_id})
            /\ \/ Cardinality(O \cup {next_id}) = Cardinality(O)
               \/ Cardinality(O \cup {next_id}) = Cardinality(O) + 1
        BY <1>1, FS_AddElement, Zenon
      <3> HIDE DEF O
      <3> QED BY <1>1, <3>1
    <2>5. Cardinality(O1) <= Cardinality(O \cup {next_id}) /\ IsFiniteSet(O1)
      BY <2>1, <2>4, FS_Subset
    <2>6. Cardinality(O1) \in Nat /\ Cardinality(O \cup {next_id}) \in Nat
      BY <2>4, <2>5, FS_CardinalityType
    <2>7. Cardinality(O) + Cardinality(C) <= Cardinality(Worker)
      BY DEF OpenBounded
    <2>8. Cardinality(O1) + Cardinality(C1) <= Cardinality(Worker)
      <3> HIDE DEF O, O1, C, C1
      <3> QED BY <1>1, <2>3, <2>4, <2>5, <2>6, <2>7
    <2> QED BY <2>8 DEF Pressure
  <1>7. CASE handling[w].monitor # m
    <2>1. O1 \subseteq O
      BY <1>5, <1>7 DEF OpenedByWorker, OpenOf, Exists
    <2>2. C1 \subseteq C
      BY <1>4
    <2> QED BY <2>1, <2>2, Shrinks
  <1> QED BY <1>6, <1>7

LEMMA WorkerBounded ==
    ASSUME TypeOK, OpenBounded, NEW w \in Worker, WorkerStep(w) \/ TaskDies(w),
           NEW m \in Monitor
    PROVE  (Pressure(m) <= Cardinality(Worker))'
  <1>1. ASSUME UNCHANGED incidents, handling'[w].pc # "creating",
               \A v \in Worker : v # w => handling'[v] = handling[v]
        PROVE  (Pressure(m) <= Cardinality(Worker))'
    <2>1. OpenedByWorker(m)' \subseteq OpenedByWorker(m)
      BY <1>1 DEF OpenedByWorker, OpenOf, Exists
    <2>2. Creators(m)' \subseteq Creators(m)
      BY <1>1 DEF Creators
    <2> QED BY <2>1, <2>2, Shrinks
  <1>2. CASE ReadOpen(w)
    BY <1>2, ReadOpenBounded
  <1>3. CASE Create(w)
    BY <1>3, CreateBounded
  <1>4. CASE Resolve(w)
    <2> DEFINE i == handling[w].incident
    <2>1. i \in IncidentId
      BY <1>4, HandlingFields DEF Resolve
    <2>2. incidents[i] \in Incident
      BY <1>4, <2>1 DEF Resolve, Exists, TypeOK
    <2>3. incidents'[i].status = "RESOLVED"
      BY <1>4, <2>1, <2>2 DEF Resolve, TypeOK, Incident
    <2>4. \A j \in IncidentId : j # i => incidents'[j] = incidents[j]
      BY <1>4 DEF Resolve, TypeOK
    <2>5. OpenedByWorker(m)' \subseteq OpenedByWorker(m)
      BY <2>3, <2>4 DEF OpenedByWorker, OpenOf, Exists
    <2>6. Creators(m)' \subseteq Creators(m)
      BY <1>4 DEF Resolve, Creators, TypeOK
    <2> QED BY <2>5, <2>6, Shrinks
  <1>5. CASE ResolveFails(w)
    BY <1>1, <1>5 DEF ResolveFails, TypeOK, Idle
  <1>6. CASE AskSettings(w)
    BY <1>1, <1>6 DEF AskSettings, TypeOK, Idle
  <1>7. CASE SendOne(w)
    <2> DEFINE h == handling[w]
               rest == h.todo \ {FirstOf(h.todo)}
    <2>1. h = [pc |-> "sending", incident |-> h.incident, kind |-> h.kind,
               todo |-> h.todo]
      BY <1>7, HandlingFields DEF SendOne
    <2>2. [h EXCEPT !.todo = rest].pc = "sending"
      BY <2>1
    <2>3. handling'[w] = IF rest = {} THEN Idle ELSE [h EXCEPT !.todo = rest]
      BY <1>7 DEF SendOne, TypeOK
    <2>4. handling'[w].pc # "creating"
      BY <2>2, <2>3 DEF Idle
    <2>5. UNCHANGED incidents /\ \A v \in Worker : v # w => handling'[v] = handling[v]
      BY <1>7 DEF SendOne, TypeOK
    <2> QED BY <1>1, <2>4, <2>5
  <1>8. CASE TaskDies(w)
    BY <1>1, <1>8 DEF TaskDies, TypeOK, Idle
  <1> QED BY <1>2, <1>3, <1>4, <1>5, <1>6, <1>7, <1>8 DEF WorkerStep

(* A row that a request writes is not counted; nobody becomes a creator. *)
LEMMA ClientBounded ==
    ASSUME TypeOK, OpenBounded, ClientStep, NEW m \in Monitor
    PROVE  (Pressure(m) <= Cardinality(Worker))'
  <1>1. Creators(m)' \subseteq Creators(m)
    BY DEF ClientStep, ApiCreate, Destroy, UpdateSave, UpdateBegin, Creators
  <1>2. ASSUME NEW k \in IncidentId,
               \A i \in IncidentId : i # k => incidents'[i] = incidents[i],
               incidents'[k] # None => incidents'[k].by_client = TRUE
        PROVE  OpenedByWorker(m)' \subseteq OpenedByWorker(m)
    BY <1>2 DEF OpenedByWorker, OpenOf, Exists
  <1>3. CASE ApiCreate
    <2>1. next_id \in IncidentId
      BY <1>3 DEF ApiCreate
    <2>2. incidents'[next_id].by_client = TRUE
      BY <1>3, <2>1 DEF ApiCreate, TypeOK
    <2>3. \A i \in IncidentId : i # next_id => incidents'[i] = incidents[i]
      BY <1>3 DEF ApiCreate, TypeOK
    <2> QED BY <1>1, <1>2, <2>1, <2>2, <2>3, Shrinks
  <1>4. ASSUME NEW i \in IncidentId, Destroy(i)
        PROVE  (Pressure(m) <= Cardinality(Worker))'
    <2>1. OpenedByWorker(m)' \subseteq OpenedByWorker(m)
      BY <1>2, <1>4 DEF Destroy, TypeOK
    <2> QED BY <1>1, <2>1, Shrinks
  <1>5. ASSUME NEW c \in Client, UpdateSave(c)
        PROVE  (Pressure(m) <= Cardinality(Worker))'
    <2> DEFINE k == update[c].incident
    <2>1. update[c] \in Update
      BY <1>5 DEF UpdateSave, TypeOK
    <2>2. k \in IncidentId
      BY <2>1 DEF Update
    <2>3. PICK n \in Monitor :
            incidents' = [incidents EXCEPT ![k] = Updated(update[c], n)]
      BY <1>5 DEF UpdateSave
    <2>4. incidents'[k].by_client = TRUE
      BY <2>1, <2>2, <2>3, UpdatedFields DEF TypeOK
    <2>5. \A i \in IncidentId : i # k => incidents'[i] = incidents[i]
      BY <2>3 DEF TypeOK
    <2> QED BY <1>1, <1>2, <2>2, <2>4, <2>5, Shrinks
  <1>6. ASSUME NEW c \in Client, NEW i \in IncidentId, UpdateBegin(c, i)
        PROVE  (Pressure(m) <= Cardinality(Worker))'
    <2>1. OpenedByWorker(m)' \subseteq OpenedByWorker(m)
      BY <1>6 DEF UpdateBegin, OpenedByWorker, OpenOf, Exists
    <2> QED BY <1>1, <2>1, Shrinks
  <1> QED BY <1>3, <1>4, <1>5, <1>6 DEF ClientStep

LEMMA NextBounded == TypeOK /\ OpenBounded /\ [Next]_vars => OpenBounded'
  <1> SUFFICES ASSUME TypeOK, OpenBounded, [Next]_vars, NEW m \in Monitor
               PROVE  (Pressure(m) <= Cardinality(Worker))'
    BY DEF OpenBounded, Pressure
  <1>1. CASE Arrive \/ UNCHANGED vars
    <2>1. /\ OpenedByWorker(m)' \subseteq OpenedByWorker(m)
          /\ Creators(m)' \subseteq Creators(m)
      BY <1>1 DEF Arrive, vars, OpenedByWorker, OpenOf, Exists, Creators
    <2> QED BY <2>1, Shrinks
  <1>2. CASE ServiceStep
    BY <1>2, WorkerBounded DEF ServiceStep
  <1>3. CASE ClientStep
    BY <1>3, ClientBounded
  <1> QED BY <1>1, <1>2, <1>3 DEF Next

(* Whatever events arrive and whatever requests and lost tasks come between, *)
(* a monitor never has more worker-opened incidents than there are workers.  *)
THEOREM OpenIncidentsBounded == Spec => []OpenBounded
  BY InitBounded, NextBounded, TypeCorrect, PTL DEF Spec

(* Where nobody edits incidents, every open one was opened by a worker. *)
Unedited ==
    /\ \A c \in Client : update[c] = None
    /\ \A i \in IncidentId : Exists(i) => ~incidents[i].by_client

LEMMA NextUnedited ==
    ASSUME TypeOK, Unedited, [Arrive \/ ServiceStep]_vars PROVE Unedited'
  <1>1. CASE UNCHANGED incidents
    BY <1>1 DEF Arrive, ServiceStep, WorkerStep, ReadOpen, Create, Resolve, ResolveFails,
                AskSettings, SendOne, TaskDies, vars, Unedited, Exists
  <1>2. ASSUME NEW w \in Worker, Create(w) PROVE Unedited'
    <2>1. incidents' = [incidents EXCEPT ![next_id] =
                          [monitor |-> handling[w].monitor, owned |-> TRUE,
                           status |-> "OPEN", by_client |-> FALSE]]
      BY <1>2 DEF Create
    <2>2. \A i \in IncidentId :
             incidents'[i] = incidents[i] \/ incidents'[i].by_client = FALSE
      BY <2>1 DEF TypeOK
    <2> QED BY <1>2, <2>2 DEF Create, Unedited, Exists
  <1>3. ASSUME NEW w \in Worker, Resolve(w) PROVE Unedited'
    <2> DEFINE k == handling[w].incident
    <2>1. Exists(k) /\ incidents' = [incidents EXCEPT ![k].status = "RESOLVED"]
      BY <1>3 DEF Resolve
    <2>2. ASSUME NEW i \in IncidentId, incidents'[i] # None
          PROVE  ~incidents'[i].by_client
      <3>1. CASE i = k
        <4>1. incidents[i] \in Incident /\ ~incidents[i].by_client
          BY <2>1, <3>1 DEF TypeOK, Exists, Unedited
        <4>2. incidents'[i] = [incidents[i] EXCEPT !.status = "RESOLVED"]
          BY <2>1, <3>1 DEF TypeOK
        <4> QED BY <4>1, <4>2 DEF Incident
      <3>2. CASE i # k
        <4>1. incidents'[i] = incidents[i]
          BY <2>1, <3>2 DEF TypeOK
        <4> QED BY <2>2, <4>1 DEF Exists, Unedited
      <3> QED BY <3>1, <3>2
    <2> QED BY <1>3, <2>2 DEF Resolve, Unedited, Exists
  <1>4. \/ UNCHANGED incidents
        \/ \E w \in Worker : Create(w) \/ Resolve(w)
    BY DEF Arrive, ServiceStep, WorkerStep, ReadOpen, ResolveFails, AskSettings, SendOne,
           TaskDies, vars
  <1> QED BY <1>1, <1>2, <1>3, <1>4

LEMMA BoundedByOne ==
    ASSUME Cardinality(Worker) = 1, OpenBounded, Unedited PROVE AtMostOneOpen
  <1> SUFFICES ASSUME NEW m \in Monitor, NEW i \in OpenOf(m), NEW j \in OpenOf(m)
               PROVE  i = j
    BY DEF AtMostOneOpen
  <1>0. i \in OpenedByWorker(m) /\ j \in OpenedByWorker(m)
    BY DEF Unedited, OpenedByWorker, OpenOf
  <1>1. /\ IsFiniteSet(OpenedByWorker(m)) /\ Cardinality(OpenedByWorker(m)) \in Nat
        /\ Cardinality(Creators(m)) \in Nat
    BY Finiteness
  <1>2. Cardinality(OpenedByWorker(m)) <= 1
    BY <1>1 DEF OpenBounded
  <1>3. Cardinality(OpenedByWorker(m)) # 0
    BY <1>0, <1>1, FS_EmptySet
  <1>4. Cardinality(OpenedByWorker(m)) = 1
    BY <1>1, <1>2, <1>3
  <1>5. PICK x : OpenedByWorker(m) = {x}
    BY <1>1, <1>4, FS_Singleton
  <1> QED BY <1>0, <1>5

(* With a single worker process, and nobody editing incidents, a monitor has  *)
(* at most one open incident, for any number of monitors, whatever events     *)
(* arrive and whatever tasks are lost.                                        *)
THEOREM SoloAtMostOneOpen ==
    ASSUME Cardinality(Worker) = 1 PROVE WorkerSpec => []AtMostOneOpen
  <1>1. Init => Unedited
    BY DEF Init, Unedited, Exists
  <1>2. [Arrive \/ ServiceStep]_vars => [Next]_vars
    BY DEF Next
  <1>3. TypeOK /\ Unedited /\ [Arrive \/ ServiceStep]_vars => Unedited'
    BY NextUnedited
  <1>4. OpenBounded /\ Unedited => AtMostOneOpen
    BY BoundedByOne
  <1> QED BY <1>1, <1>2, <1>3, <1>4, InitType, NextType, InitBounded, NextBounded, PTL
          DEF WorkerSpec

-----------------------------------------------------------------------------
(* What is announced, by whom and how often, with any number of workers      *)

LEMMA MessageAt ==
    ASSUME TypeOK, NEW n \in DOMAIN notifications_queue
    PROVE  notifications_queue[n] \in Message
  BY DEF TypeOK

(* A worker comes to announce an incident by making it or by resolving it,   *)
(* and goes on with it channel by channel.                                   *)
LEMMA AnnouncementSteps ==
    ASSUME TypeOK, NEW w \in Worker, WorkerStep(w) \/ TaskDies(w)
    PROVE  /\ \A v \in Worker : v # w => handling'[v] = handling[v]
           /\ next_id' \in {next_id, next_id + 1}
           /\ ~SendOne(w) => UNCHANGED notifications_queue
           /\ handling'[w].pc \in {"alerting", "sending"} =>
                \/ /\ Create(w)
                   /\ handling'[w].incident = next_id /\ next_id' = next_id + 1
                   /\ handling'[w].pc = "alerting" /\ handling'[w].kind = "warning"
                \/ /\ Resolve(w) /\ handling'[w].kind = "info"
                   /\ handling'[w].incident = handling[w].incident
                \/ /\ AskSettings(w) \/ SendOne(w)
                   /\ handling'[w].pc = "sending"
                   /\ handling'[w].incident = handling[w].incident
                   /\ handling'[w].kind = handling[w].kind
                   /\ SendOne(w) =>
                        handling'[w].todo = handling[w].todo \ {FirstOf(handling[w].todo)}
  <1>1. CASE ReadOpen(w)
    <2> DEFINE e == Head(incidents_queue)
    <2>1. PICK i \in FirstOpen(e.monitor) :
            handling' = [handling EXCEPT ![w] = Decision(e, i)]
      BY <1>1 DEF ReadOpen
    <2>2. Decision(e, i).pc \in {"idle", "creating", "resolving"}
      BY DEF Decision, Idle
    <2> QED BY <1>1, <2>1, <2>2 DEF ReadOpen, SendOne, TypeOK, Idle
  <1>2. CASE Create(w)
    BY <1>2 DEF Create, TypeOK
  <1>3. CASE Resolve(w)
    BY <1>3 DEF Resolve, TypeOK
  <1>4. CASE ResolveFails(w) \/ TaskDies(w)
    BY <1>4 DEF ResolveFails, TaskDies, TypeOK, Idle
  <1>5. CASE AskSettings(w)
    <2>1. ~SendOne(w)
      BY <1>5 DEF AskSettings, SendOne
    <2>2. PICK channels \in Replies \cup {{}} :
            handling' = [handling EXCEPT ![w] =
              IF channels = {} THEN Idle
              ELSE [pc |-> "sending", incident |-> handling[w].incident,
                    kind |-> handling[w].kind, todo |-> channels]]
      BY <1>5 DEF AskSettings, Enabled
    <2>3. \/ handling'[w].pc = "idle"
          \/ /\ handling'[w].pc = "sending"
             /\ handling'[w].incident = handling[w].incident
             /\ handling'[w].kind = handling[w].kind
      BY <2>2 DEF TypeOK, Idle
    <2>4. \A v \in Worker : v # w => handling'[v] = handling[v]
      BY <2>2 DEF TypeOK
    <2>5. UNCHANGED <<next_id, notifications_queue>>
      BY <1>5 DEF AskSettings
    <2> QED BY <1>5, <2>1, <2>3, <2>4, <2>5
  <1>6. CASE SendOne(w)
    <2> DEFINE h == handling[w]
               rest == h.todo \ {FirstOf(h.todo)}
    <2>1. h = [pc |-> "sending", incident |-> h.incident, kind |-> h.kind,
               todo |-> h.todo]
      BY <1>6, HandlingFields DEF SendOne
    <2>2. [h EXCEPT !.todo = rest]
            = [pc |-> "sending", incident |-> h.incident, kind |-> h.kind,
               todo |-> rest]
      BY <2>1
    <2>3. handling'[w] \in {Idle, [h EXCEPT !.todo = rest]}
      BY <1>6 DEF SendOne, TypeOK
    <2> QED BY <1>6, <2>2, <2>3 DEF SendOne, TypeOK, Idle
  <1> QED BY <1>1, <1>2, <1>3, <1>4, <1>5, <1>6 DEF WorkerStep

(* Requests announce nothing. *)
LEMMA ClientAnnouncesNothing ==
    ASSUME ClientStep
    PROVE  /\ UNCHANGED <<handling, notifications_queue>>
           /\ next_id' \in {next_id, next_id + 1}
  BY DEF ClientStep, ApiCreate, Destroy, UpdateSave, UpdateBegin

Warns(w) == handling[w].pc \in {"alerting", "sending"} /\ handling[w].kind = "warning"

(* Only incidents that were made are announced as failures. *)
WarnedExist ==
    /\ \A w \in Worker : Warns(w) => handling[w].incident < next_id
    /\ \A n \in DOMAIN notifications_queue :
          notifications_queue[n].kind = "warning" =>
              notifications_queue[n].incident < next_id

(* One worker announces the failure of an incident. *)
OneWarner ==
    \A v, w \in Worker :
        Warns(v) /\ Warns(w) /\ handling[v].incident = handling[w].incident => v = w

(* What that worker has still to send has not been sent. *)
WarningIsFresh ==
    \A w \in Worker, n \in DOMAIN notifications_queue, channel \in Channel :
        /\ Warns(w)
        /\ handling[w].pc = "alerting" \/ channel \in handling[w].todo
        => notifications_queue[n] # [incident |-> handling[w].incident,
                                     kind |-> "warning", channel |-> channel]

WarnInv == WarnedExist /\ OneWarner /\ WarningIsFresh

LEMMA InitWarn == Init => WarnInv
  BY DEF Init, WarnInv, WarnedExist, OneWarner, WarningIsFresh, Warns, Idle

LEMMA WorkerWarn ==
    ASSUME TypeOK, TypeOK', WarnInv, NEW w \in Worker, WorkerStep(w) \/ TaskDies(w)
    PROVE  WarnInv'
  <1> DEFINE h == handling[w]
             msg == [incident |-> h.incident, kind |-> h.kind,
                     channel |-> FirstOf(h.todo)]
  <1>1. next_id \in Nat /\ next_id' \in Nat /\ next_id <= next_id'
    <2>1. next_id' \in {next_id, next_id + 1}
      BY AnnouncementSteps
    <2>2. next_id \in Nat
      BY IncidentsAssumption DEF TypeOK
    <2> QED BY <2>1, <2>2
  <1>2. \A v \in Worker : v # w => handling'[v] = handling[v]
    BY AnnouncementSteps
  <1>3. \/ UNCHANGED notifications_queue
        \/ /\ SendOne(w) /\ h.pc = "sending"
           /\ notifications_queue' = Append(notifications_queue, msg)
    BY AnnouncementSteps DEF SendOne
  <1>4. \A n \in DOMAIN notifications_queue' :
           \/ n \in DOMAIN notifications_queue
              /\ notifications_queue'[n] = notifications_queue[n]
           \/ SendOne(w) /\ h.pc = "sending" /\ notifications_queue'[n] = msg
    <2>1. CASE UNCHANGED notifications_queue
      BY <2>1
    <2>2. CASE /\ SendOne(w) /\ h.pc = "sending"
               /\ notifications_queue' = Append(notifications_queue, msg)
      <3>1. \A n \in DOMAIN notifications_queue' :
               \/ n \in DOMAIN notifications_queue
                     /\ notifications_queue'[n] = notifications_queue[n]
               \/ notifications_queue'[n] = msg
        BY <2>2 DEF TypeOK
      <3> QED BY <2>2, <3>1
    <2> QED BY <1>3, <2>1, <2>2
  <1>5. Warns(w)' =>
           \/ /\ Create(w) /\ handling'[w].incident = next_id
              /\ next_id' = next_id + 1
              /\ UNCHANGED notifications_queue
           \/ /\ Warns(w) /\ handling'[w].incident = h.incident
              /\ handling'[w].pc = "sending"
              /\ \/ h.pc = "alerting" /\ UNCHANGED notifications_queue
                 \/ /\ SendOne(w)
                    /\ handling'[w].todo = h.todo \ {FirstOf(h.todo)}
    BY AnnouncementSteps DEF Warns, AskSettings, SendOne, Create
  <1>6. \A v \in Worker : Warns(v) => handling[v].incident \in IncidentId
    BY HandlingFields DEF Warns
  <1>7. WarnedExist'
    <2>1. ASSUME NEW v \in Worker, Warns(v)' PROVE (handling[v].incident < next_id)'
      <3>1. CASE v = w
        BY <1>1, <1>5, <1>6, <2>1, <3>1 DEF WarnInv, WarnedExist, IncidentId
      <3>2. CASE v # w
        BY <1>1, <1>2, <1>6, <2>1, <3>2 DEF WarnInv, WarnedExist, Warns, IncidentId
      <3> QED BY <3>1, <3>2
    <2>2. ASSUME NEW n \in DOMAIN notifications_queue',
                 notifications_queue'[n].kind = "warning"
          PROVE  notifications_queue'[n].incident < next_id'
      <3>1. CASE n \in DOMAIN notifications_queue
                 /\ notifications_queue'[n] = notifications_queue[n]
        <4>1. notifications_queue[n].incident \in IncidentId
          BY <3>1, MessageAt DEF Message
        <4> QED BY <1>1, <2>2, <3>1, <4>1 DEF WarnInv, WarnedExist, IncidentId
      <3>2. CASE h.pc = "sending" /\ notifications_queue'[n] = msg
        <4>1. Warns(w)
          BY <2>2, <3>2 DEF Warns
        <4> QED BY <1>1, <1>6, <3>2, <4>1 DEF WarnInv, WarnedExist, IncidentId
      <3> QED BY <1>4, <3>1, <3>2
    <2> QED BY <2>1, <2>2 DEF WarnedExist
  <1>8. OneWarner'
    <2> SUFFICES ASSUME NEW v \in Worker, v # w, Warns(v)', Warns(w)',
                        handling'[v].incident = handling'[w].incident
                 PROVE  FALSE
      <3>1. \A u, v \in Worker :
               /\ Warns(u)' /\ Warns(v)' /\ handling'[u].incident = handling'[v].incident
               /\ u # w /\ v # w
               => u = v
        BY <1>2 DEF WarnInv, OneWarner, Warns
      <3> QED BY <3>1 DEF OneWarner
    <2>1. Warns(v) /\ handling'[v].incident = handling[v].incident
      BY <1>2 DEF Warns
    <2>2. handling[v].incident < next_id /\ handling[v].incident \in Nat
      BY <1>6, <2>1 DEF WarnInv, WarnedExist, IncidentId
    <2> QED BY <1>1, <1>5, <2>1, <2>2 DEF WarnInv, OneWarner
  <1>9. WarningIsFresh'
    <2> SUFFICES ASSUME NEW v \in Worker, NEW n \in DOMAIN notifications_queue',
                        NEW channel \in Channel, Warns(v)',
                        handling'[v].pc = "alerting" \/ channel \in handling'[v].todo
                 PROVE  notifications_queue'[n] #
                          [incident |-> handling'[v].incident, kind |-> "warning",
                           channel |-> channel]
      BY DEF WarningIsFresh
    <2>1. CASE v # w
      <3>1. Warns(v) /\ handling'[v] = handling[v]
        BY <1>2, <2>1 DEF Warns
      <3>2. CASE n \in DOMAIN notifications_queue
                 /\ notifications_queue'[n] = notifications_queue[n]
        BY <3>1, <3>2 DEF WarnInv, WarningIsFresh
      <3>3. CASE h.pc = "sending" /\ notifications_queue'[n] = msg
        <4>1. ASSUME h.kind = "warning", h.incident = handling[v].incident PROVE FALSE
          BY <2>1, <3>1, <3>3, <4>1 DEF WarnInv, OneWarner, Warns
        <4> QED BY <3>1, <3>3, <4>1
      <3> QED BY <1>4, <3>2, <3>3
    <2>2. CASE v = w /\ UNCHANGED notifications_queue
      <3>1. CASE Create(w) /\ handling'[w].incident = next_id
        <4>1. ASSUME notifications_queue[n] = [incident |-> next_id, kind |-> "warning",
                                               channel |-> channel]
              PROVE  FALSE
          <5>1. next_id < next_id
            BY <2>2, <4>1 DEF WarnInv, WarnedExist
          <5> QED BY <1>1, <5>1
        <4> QED BY <2>2, <3>1, <4>1
      <3>2. CASE Warns(w) /\ h.pc = "alerting" /\ handling'[w].incident = h.incident
        BY <2>2, <3>2 DEF WarnInv, WarningIsFresh
      <3>3. CASE SendOne(w)
        <4>1. Len(notifications_queue') = Len(notifications_queue) + 1
          BY <3>3 DEF SendOne, TypeOK
        <4>2. Len(notifications_queue) \in Nat
          BY DEF TypeOK
        <4> QED BY <2>2, <4>1, <4>2
      <3> QED BY <1>5, <2>2, <3>1, <3>2, <3>3
    <2>3. CASE v = w /\ SendOne(w) /\ notifications_queue' # notifications_queue
      <3>1. /\ Warns(w) /\ handling'[w].incident = h.incident
            /\ handling'[w].pc = "sending"
            /\ handling'[w].todo = h.todo \ {FirstOf(h.todo)}
        BY <1>5, <2>3 DEF SendOne
      <3>2. channel \in h.todo /\ channel # FirstOf(h.todo)
        BY <2>3, <3>1
      <3>3. CASE n \in DOMAIN notifications_queue
                 /\ notifications_queue'[n] = notifications_queue[n]
        BY <2>3, <3>1, <3>2, <3>3 DEF WarnInv, WarningIsFresh
      <3>4. CASE notifications_queue'[n] = msg
        BY <3>2, <3>4
      <3> QED BY <1>4, <3>3, <3>4
    <2> QED BY <1>3, <2>1, <2>2, <2>3
  <1> QED BY <1>7, <1>8, <1>9 DEF WarnInv

LEMMA NextWarn == TypeOK /\ TypeOK' /\ WarnInv /\ [Next]_vars => WarnInv'
  <1> SUFFICES ASSUME TypeOK, TypeOK', WarnInv, [Next]_vars PROVE WarnInv'
    OBVIOUS
  <1>1. ASSUME UNCHANGED <<handling, notifications_queue>>,
               next_id' \in {next_id, next_id + 1}
        PROVE  WarnInv'
    <2>1. \A i \in IncidentId : i < next_id => i < next_id'
      BY <1>1 DEF TypeOK, IncidentId
    <2>2. \A w \in Worker : Warns(w) => handling[w].incident \in IncidentId
      BY HandlingFields DEF Warns
    <2>3. \A n \in DOMAIN notifications_queue :
             notifications_queue[n].incident \in IncidentId
      BY MessageAt DEF Message
    <2>4. WarnedExist'
      BY <1>1, <2>1, <2>2, <2>3 DEF WarnInv, WarnedExist, Warns
    <2>5. OneWarner' /\ WarningIsFresh'
      BY <1>1 DEF WarnInv, OneWarner, WarningIsFresh, Warns
    <2> QED BY <2>4, <2>5 DEF WarnInv
  <1>2. CASE Arrive \/ UNCHANGED vars
    BY <1>1, <1>2 DEF Arrive, vars
  <1>3. CASE ServiceStep
    BY <1>3, WorkerWarn DEF ServiceStep
  <1>4. CASE ClientStep
    BY <1>1, <1>4, ClientAnnouncesNothing
  <1> QED BY <1>2, <1>3, <1>4 DEF Next

(* An owner hears of the failure of an incident at most once per channel:    *)
(* for any number of workers, although they neither lock the row nor look at *)
(* what was sent (dispatch_notifications).                                   *)
THEOREM FailuresAreWarnedOnce == Spec => WarnedOnce
  <1>1. TypeOK /\ WarnInv /\ [Next]_vars
          => [notifications_queue' # notifications_queue /\ NewMessage.kind = "warning"
                 => ~Sent(NewMessage)]_vars
    <2> SUFFICES ASSUME TypeOK, WarnInv, Next,
                        notifications_queue' # notifications_queue,
                        NewMessage.kind = "warning"
                 PROVE  ~Sent(NewMessage)
      BY DEF vars
    <2>1. ServiceStep
      BY ClientAnnouncesNothing DEF Next, Arrive
    <2>2. PICK w \in Worker : WorkerStep(w) \/ TaskDies(w)
      BY <2>1 DEF ServiceStep
    <2>3. SendOne(w)
      BY <2>2, AnnouncementSteps
    <2> DEFINE h == handling[w]
               msg == [incident |-> h.incident, kind |-> h.kind,
                       channel |-> FirstOf(h.todo)]
    <2>4. /\ h.pc = "sending"
          /\ notifications_queue' = Append(notifications_queue, msg)
      BY <2>3 DEF SendOne
    <2>5. NewMessage = msg
      BY <2>4 DEF NewMessage, TypeOK
    <2>6. FirstOf(h.todo) \in h.todo /\ FirstOf(h.todo) \in Channel
      BY <2>4, HandlingFields, FirstOfIn
    <2>7. Warns(w)
      BY <2>4, <2>5 DEF Warns
    <2>8. \A n \in DOMAIN notifications_queue : notifications_queue[n] # msg
      BY <2>5, <2>6, <2>7 DEF WarnInv, WarningIsFresh
    <2> QED BY <2>5, <2>8 DEF Sent
  <1>2. Spec => []WarnInv
    BY InitWarn, NextWarn, TypeCorrect, PTL DEF Spec
  <1> QED BY <1>1, <1>2, TypeCorrect, PTL DEF Spec, WarnedOnce

-----------------------------------------------------------------------------
(* What was not announced in its task is never announced *)

(* The row that a step opens: a new one, or one a request saves. *)
LEMMA StepOpens ==
    ASSUME TypeOK, [Next]_vars, NEW i \in IncidentId, Open(i)', ~Open(i)
    PROVE  i = next_id \/ incidents'[i].by_client
  <1>1. CASE UNCHANGED incidents
    BY <1>1 DEF Open, Exists
  <1>2. CASE incidents' # incidents /\ ServiceStep
    <2>1. PICK w \in Worker : Create(w) \/ Resolve(w)
      BY <1>2 DEF ServiceStep, WorkerStep, ReadOpen, ResolveFails, AskSettings,
                  SendOne, TaskDies
    <2>2. CASE Create(w)
      BY <2>2 DEF Create, TypeOK, Open, Exists
    <2>3. CASE Resolve(w)
      <3> DEFINE k == handling[w].incident
      <3>1. k \in IncidentId /\ incidents[k] \in Incident
        BY <2>3, HandlingFields DEF Resolve, Exists, TypeOK
      <3>2. incidents'[k].status = "RESOLVED"
        BY <2>3, <3>1 DEF Resolve, TypeOK, Incident
      <3>3. i # k => incidents'[i] = incidents[i]
        BY <2>3 DEF Resolve, TypeOK
      <3> QED BY <3>2, <3>3 DEF Open, Exists
    <2> QED BY <2>1, <2>2, <2>3
  <1>3. CASE ApiCreate
    BY <1>3 DEF ApiCreate, TypeOK, Open, Exists
  <1>4. ASSUME NEW c \in Client, UpdateSave(c) PROVE incidents'[i].by_client \/ i = next_id
    <2>1. update[c] \in Update
      BY <1>4 DEF UpdateSave, TypeOK
    <2>2. PICK m \in Monitor :
            incidents' = [incidents EXCEPT ![update[c].incident] =
                             Updated(update[c], m)]
      BY <1>4 DEF UpdateSave
    <2>3. i # update[c].incident => incidents'[i] = incidents[i]
      BY <2>2 DEF TypeOK
    <2>4. i = update[c].incident => incidents'[i].by_client
      BY <2>1, <2>2, UpdatedFields DEF TypeOK
    <2> QED BY <2>3, <2>4 DEF Open, Exists
  <1>5. ASSUME NEW k \in IncidentId, Destroy(k) PROVE FALSE
    BY <1>5 DEF Destroy, TypeOK, Open, Exists
  <1> QED BY <1>1, <1>2, <1>3, <1>4, <1>5
          DEF Next, Arrive, vars, ClientStep, UpdateBegin

(* Only a worker that finds an incident open comes to resolve it. *)
LEMMA ResolverFindsOpen ==
    ASSUME TypeOK, NEW w \in Worker, WorkerStep(w) \/ TaskDies(w),
           handling'[w].pc = "resolving"
    PROVE  Open(handling'[w].incident)
  <1>1. CASE ReadOpen(w)
    <2> DEFINE e == Head(incidents_queue)
    <2>1. PICK i \in FirstOpen(e.monitor) :
            handling' = [handling EXCEPT ![w] = Decision(e, i)]
      BY <1>1 DEF ReadOpen
    <2>2. handling'[w] = Decision(e, i)
      BY <2>1 DEF TypeOK
    <2>3. Decision(e, i).incident = i /\ i # 0
      BY <2>2 DEF Decision, Idle
    <2>4. i \in OpenOf(e.monitor)
      BY <2>3 DEF FirstOpen
    <2> QED BY <2>2, <2>3, <2>4 DEF OpenOf, Open
  <1>2. CASE SendOne(w)
    <2>1. handling'[w].pc # "resolving"
      <3> DEFINE h == handling[w]
                 rest == h.todo \ {FirstOf(h.todo)}
      <3>1. h = [pc |-> "sending", incident |-> h.incident, kind |-> h.kind,
                 todo |-> h.todo]
        BY <1>2, HandlingFields DEF SendOne
      <3>2. [h EXCEPT !.todo = rest].pc = "sending"
        BY <3>1
      <3>3. handling'[w] \in {Idle, [h EXCEPT !.todo = rest]}
        BY <1>2 DEF SendOne, TypeOK
      <3>4. CASE handling'[w] = Idle
        BY <3>4 DEF Idle
      <3>5. CASE handling'[w] = [h EXCEPT !.todo = rest]
        <4> HIDE DEF rest
        <4> QED BY <3>2, <3>5
      <3> QED BY <3>3, <3>4, <3>5
    <2> QED BY <2>1
  <1>3. CASE Create(w) \/ Resolve(w)
    BY <1>3 DEF Create, Resolve, TypeOK
  <1>4. CASE ResolveFails(w) \/ TaskDies(w)
    BY <1>4 DEF ResolveFails, TaskDies, TypeOK, Idle
  <1>5. CASE AskSettings(w)
    BY <1>5 DEF AskSettings, TypeOK, Idle
  <1> QED BY <1>1, <1>2, <1>3, <1>4, <1>5 DEF WorkerStep

LEMMA OverStays ==
    ASSUME TypeOK, [Next]_vars, NEW i \in IncidentId, NEW kind \in Kind, Over(i, kind)
    PROVE  Over(i, kind)' \/ (kind = "info" /\ Open(i)' /\ incidents'[i].by_client)
  <1>1. i < next_id /\ i \in Nat /\ next_id \in Nat
    BY IncidentsAssumption DEF Over, TypeOK, IncidentId
  <1>2. next_id' \in {next_id, next_id + 1}
    BY AnnouncementSteps, ClientAnnouncesNothing DEF Next, ServiceStep, Arrive, vars
  <1>3. i < next_id'
    BY <1>1, <1>2
  <1>4. Open(i)' => Open(i) \/ incidents'[i].by_client
    BY <1>1, StepOpens
  <1>5. CASE UNCHANGED handling
    <2>1. ~Announcing(i, kind)' /\ (kind = "info" => ~Resolving(i)')
      BY <1>5 DEF Over, Announcing, Resolving
    <2> QED BY <1>3, <1>4, <2>1 DEF Over
  <1>6. ASSUME NEW w \in Worker, WorkerStep(w) \/ TaskDies(w) PROVE Over(i, kind)' \/ (kind = "info" /\ Open(i)' /\ incidents'[i].by_client)
    <2>1. \A v \in Worker : v # w => handling'[v] = handling[v]
      BY <1>6, AnnouncementSteps
    <2>2. /\ handling'[w].pc \in {"alerting", "sending"}
          /\ handling'[w].incident = i /\ handling'[w].kind = kind
          => FALSE
      <3> SUFFICES ASSUME handling'[w].pc \in {"alerting", "sending"},
                          handling'[w].incident = i, handling'[w].kind = kind
                   PROVE  FALSE
        OBVIOUS
      <3>1. CASE handling'[w].incident = next_id
        BY <1>1, <3>1
      <3>2. CASE Resolve(w) /\ handling'[w].kind = "info"
                 /\ handling'[w].incident = handling[w].incident
        BY <3>2 DEF Over, Resolving, Resolve
      <3>3. CASE /\ AskSettings(w) \/ SendOne(w)
                 /\ handling'[w].incident = handling[w].incident
                 /\ handling'[w].kind = handling[w].kind
        BY <3>3 DEF Over, Announcing, AskSettings, SendOne
      <3> QED BY <1>6, <3>1, <3>2, <3>3, AnnouncementSteps
    <2>3. ~Announcing(i, kind)'
      BY <2>1, <2>2 DEF Over, Announcing
    <2>4. kind = "info" => ~Resolving(i)'
      BY <1>6, <2>1, ResolverFindsOpen DEF Over, Resolving
    <2> QED BY <1>3, <1>4, <2>3, <2>4 DEF Over
  <1> QED BY <1>5, <1>6, ClientAnnouncesNothing DEF Next, ServiceStep, Arrive, vars

(* An alert that its task did not send is lost: no step of any worker or     *)
(* request makes somebody announce it again (the RPC's failure and the death *)
(* between resolve() and dispatch_notifications).                            *)
THEOREM LostAlertsStayLost == Spec => SilenceIsFinal
  <1>1. TypeOK /\ [Next]_vars =>
          [\A i \in IncidentId, kind \in Kind :
              Over(i, kind) =>
                  \/ Over(i, kind)'
                  \/ kind = "info" /\ Open(i)' /\ incidents'[i].by_client]_vars
    BY OverStays
  <1> QED BY <1>1, TypeCorrect, PTL DEF Spec, SilenceIsFinal

-----------------------------------------------------------------------------
(* The incidents nobody owns *)

(* Rows have keys that were handed out, and requests hold owned rows only. *)
RowsBelow == \A i \in IncidentId : Exists(i) => i < next_id
RequestsOwned ==
    \A c \in Client : update[c] # None =>
        /\ update[c].obj.owned /\ update[c].incident < next_id
        /\ Exists(update[c].incident) => incidents[update[c].incident].owned
OwnerInv == RowsBelow /\ RequestsOwned

LEMMA InitOwner == Init => OwnerInv
  BY DEF Init, OwnerInv, RowsBelow, RequestsOwned, Exists

(* What one step does to row i. *)
RowStep(i) ==
    \/ incidents'[i] = incidents[i]
    \/ incidents'[i] = None /\ Exists(i) /\ incidents[i].owned
    \/ i = next_id /\ next_id' = next_id + 1
    \/ /\ Exists(i) /\ incidents'[i] = [incidents[i] EXCEPT !.status = "RESOLVED"]
       /\ incidents'[i].owned = incidents[i].owned
    \/ \E c \in Client : /\ update[c] # None /\ update[c].incident = i
                         /\ incidents'[i].owned = update[c].obj.owned

LEMMA UpdatedOwner ==
    ASSUME NEW u \in Update, NEW m \in Monitor PROVE Updated(u, m).owned = u.obj.owned
  <1>1. u.obj \in Incident
    BY DEF Update
  <1> QED BY <1>1 DEF Updated, Incident

LEMMA StepRow ==
    ASSUME TypeOK, [Next]_vars, NEW i \in IncidentId PROVE RowStep(i)
  <1>1. CASE UNCHANGED incidents
    BY <1>1 DEF RowStep
  <1>2. ASSUME NEW w \in Worker, Create(w) PROVE RowStep(i)
    BY <1>2 DEF Create, TypeOK, RowStep
  <1>3. ASSUME NEW w \in Worker, Resolve(w) PROVE RowStep(i)
    <2> DEFINE k == handling[w].incident
    <2>1. k \in IncidentId /\ incidents[k] \in Incident
      BY <1>3, HandlingFields DEF Resolve, Exists, TypeOK
    <2>2. CASE i = k
      <3>1. incidents'[i] = [incidents[i] EXCEPT !.status = "RESOLVED"] /\ Exists(i)
        BY <1>3, <2>1, <2>2 DEF Resolve, TypeOK
      <3>2. incidents'[i].owned = incidents[i].owned
        BY <2>1, <2>2, <3>1 DEF Incident
      <3> QED BY <3>1, <3>2 DEF RowStep
    <2>3. CASE i # k
      BY <1>3, <2>3 DEF Resolve, TypeOK, RowStep
    <2> QED BY <2>2, <2>3
  <1>4. CASE ApiCreate
    BY <1>4 DEF ApiCreate, TypeOK, RowStep
  <1>5. ASSUME NEW c \in Client, UpdateSave(c) PROVE RowStep(i)
    <2>1. update[c] \in Update /\ update[c] # None
      BY <1>5 DEF UpdateSave, TypeOK
    <2>2. PICK m \in Monitor :
            incidents' = [incidents EXCEPT ![update[c].incident] =
                             Updated(update[c], m)]
      BY <1>5 DEF UpdateSave
    <2>3. i # update[c].incident => incidents'[i] = incidents[i]
      BY <2>2 DEF TypeOK
    <2>4. i = update[c].incident => incidents'[i].owned = update[c].obj.owned
      BY <2>1, <2>2, UpdatedOwner DEF TypeOK
    <2> QED BY <2>1, <2>3, <2>4 DEF RowStep
  <1>6. ASSUME NEW k \in IncidentId, Destroy(k) PROVE RowStep(i)
    BY <1>6 DEF Destroy, TypeOK, RowStep
  <1> QED BY <1>1, <1>2, <1>3, <1>4, <1>5, <1>6
          DEF Next, Arrive, vars, ServiceStep, WorkerStep, ReadOpen, ResolveFails,
              AskSettings, SendOne, TaskDies, ClientStep, UpdateBegin

LEMMA NextOwner == TypeOK /\ OwnerInv /\ [Next]_vars => OwnerInv'
  <1> SUFFICES ASSUME TypeOK, OwnerInv, [Next]_vars PROVE OwnerInv'
    OBVIOUS
  <1>1. next_id \in Nat /\ next_id' \in {next_id, next_id + 1}
    BY IncidentsAssumption, AnnouncementSteps, ClientAnnouncesNothing
       DEF Next, ServiceStep, Arrive, vars, TypeOK
  <1>2. RowsBelow'
    <2> SUFFICES ASSUME NEW i \in IncidentId, Exists(i)' PROVE i < next_id'
      BY DEF RowsBelow
    <2>1. i \in Nat
      BY DEF IncidentId
    <2>2. RowStep(i)
      BY StepRow
    <2>3. \/ i < next_id
          \/ i = next_id /\ next_id' = next_id + 1
      BY <2>2 DEF RowStep, Exists, OwnerInv, RowsBelow, RequestsOwned
    <2> QED BY <1>1, <2>1, <2>3
  <1>3. RequestsOwned'
    <2> SUFFICES ASSUME NEW c \in Client, update'[c] # None
                 PROVE  /\ update'[c].obj.owned /\ update'[c].incident < next_id'
                        /\ incidents'[update'[c].incident] # None =>
                               incidents'[update'[c].incident].owned
      BY DEF RequestsOwned, Exists
    <2>1. CASE update'[c] = update[c]
      <3> DEFINE k == update[c].incident
      <3>1. update[c] \in Update
        BY <2>1 DEF TypeOK
      <3>2. k \in IncidentId /\ k \in Nat
        BY <3>1 DEF Update, IncidentId
      <3>3. update[c].obj.owned /\ k < next_id /\ (Exists(k) => incidents[k].owned)
        BY <2>1 DEF OwnerInv, RequestsOwned
      <3>4. k < next_id' /\ k # next_id
        BY <1>1, <3>2, <3>3
      <3>5. \A d \in Client : update[d] # None => update[d].obj.owned
        BY DEF OwnerInv, RequestsOwned
      <3>6. RowStep(k)
        BY <3>2, StepRow
      <3>7. incidents'[k] # None => incidents'[k].owned
        BY <3>3, <3>4, <3>5, <3>6 DEF RowStep, Exists
      <3> QED BY <2>1, <3>3, <3>4, <3>7 DEF Exists
    <2>2. CASE update'[c] # update[c]
      <3>1. PICK d \in Client : UpdateSave(d) \/ \E i \in IncidentId : UpdateBegin(d, i)
        BY <2>2 DEF Next, Arrive, vars, ServiceStep, WorkerStep, ReadOpen, Create,
                    Resolve, ResolveFails, AskSettings, SendOne, TaskDies,
                    ClientStep, ApiCreate, Destroy
      <3>2. ~UpdateSave(d)
        BY <2>2 DEF UpdateSave, TypeOK
      <3>3. PICK i \in IncidentId : UpdateBegin(d, i)
        BY <3>1, <3>2
      <3>4. c = d
        BY <2>2, <3>3 DEF UpdateBegin, TypeOK
      <3>5. update'[c].incident = i /\ update'[c].obj = incidents[i]
        BY <3>3, <3>4 DEF UpdateBegin, TypeOK
      <3>6. Exists(i) /\ incidents[i].owned /\ UNCHANGED <<incidents, next_id>>
        BY <3>3 DEF UpdateBegin
      <3> QED BY <3>5, <3>6 DEF OwnerInv, RowsBelow, Exists
    <2> QED BY <2>1, <2>2
  <1> QED BY <1>2, <1>3 DEF OwnerInv

(* An incident made through the API belongs to nobody (IncidentsViewSet sets *)
(* no user_id): whatever requests are in flight, none changes, deletes or    *)
(* replaces it, and the only step that touches it is a worker's resolve().   *)
THEOREM UnownedIsUntouched == Spec => UnownedOnlyResolved
  <1>1. TypeOK /\ OwnerInv /\ [Next]_vars =>
          [\A i \in IncidentId :
              Exists(i) /\ ~incidents[i].owned =>
                  incidents'[i] \in {incidents[i],
                                     [incidents[i] EXCEPT !.status = "RESOLVED"]}]_vars
    <2> SUFFICES ASSUME TypeOK, OwnerInv, [Next]_vars, NEW i \in IncidentId,
                        Exists(i), ~incidents[i].owned
                 PROVE  incidents'[i] \in {incidents[i],
                                     [incidents[i] EXCEPT !.status = "RESOLVED"]}
      OBVIOUS
    <2>1. i < next_id /\ i \in Nat /\ next_id \in Nat
      BY IncidentsAssumption DEF OwnerInv, RowsBelow, TypeOK, IncidentId
    <2>2. \A c \in Client : update[c] # None => update[c].incident # i
      BY DEF OwnerInv, RequestsOwned
    <2>3. RowStep(i)
      BY StepRow
    <2> QED BY <2>1, <2>2, <2>3 DEF RowStep
  <1>2. Spec => []OwnerInv
    BY InitOwner, NextOwner, TypeCorrect, PTL DEF Spec
  <1> QED BY <1>1, <1>2, TypeCorrect, PTL DEF Spec, UnownedOnlyResolved
=============================================================================
