------------------------- MODULE NotificationsProofs ------------------------
(* Theorems about Notifications, for every set of alerts and clients, every  *)
(* number of retries and of faults.                                          *)
EXTENDS Notifications, TLAPS

-----------------------------------------------------------------------------
(* Type correctness *)

LEMMA InitType == Init => TypeOK
  BY NotificationsAssumption DEF Init, TypeOK, Task, Step, Attempt

(* What a task looks like after GoTo, and after a retry. *)
LEMMA GoToType ==
    ASSUME TypeOK, NEW a \in Alert, NEW pc \in Step, GoTo(a, pc)
    PROVE  /\ task' \in [Alert -> Task]
           /\ task'[a].pc = pc /\ task'[a].retries = task[a].retries
           /\ \A b \in Alert : b # a => task'[b] = task[b]
  BY DEF TypeOK, Task, GoTo

LEMMA RetryFields ==
    ASSUME TypeOK, NEW a \in Alert, MarkFails(a)
    PROVE  /\ task' \in [Alert -> Task]
           /\ \/ /\ task'[a].pc = "queued"
                 /\ task'[a].retries = task[a].retries + 1
              \/ /\ task'[a].pc = "done"
                 /\ task'[a].retries = task[a].retries
           /\ \A b \in Alert : b # a => task'[b] = task[b]
  <1>1. task[a].retries \in Attempt
    BY DEF TypeOK, Task
  <1> QED BY <1>1, NotificationsAssumption
          DEF MarkFails, TypeOK, Task, Step, Attempt

LEMMA TaskType ==
    ASSUME TypeOK, NEW a \in Alert, Dispatch(a) \/ TaskStep(a) \/ TaskDies(a)
    PROVE  TypeOK'
  <1>1. task[a] \in Task /\ task[a].retries \in Attempt
    BY DEF TypeOK, Task
  <1>2. ASSUME NEW n \in Attempt, NEW r \in Row,
               rows' = [rows EXCEPT ![a][n] = r]
        PROVE  rows' \in [Alert -> [Attempt -> Row \cup {None}]]
    BY <1>2 DEF TypeOK
  <1>3. Deliver(a) => delivered' \in [Alert -> SUBSET Attempt]
    BY <1>1 DEF Deliver, TypeOK
  <1>4. Fault => faults' \in 0 .. MaxFaults
    BY NotificationsAssumption DEF Fault, TypeOK
  <1>5. CASE Dispatch(a) \/ Start(a)
    <2>1. task' \in [Alert -> Task]
      BY <1>5, GoToType DEF Dispatch, Start, Step
    <2> QED BY <1>5, <2>1 DEF Dispatch, Start, TypeOK
  <1>6. CASE CreateRow(a)
    <2>1. [is_sent |-> FALSE, by_client |-> FALSE] \in Row
      BY DEF Row
    <2>2. task' \in [Alert -> Task]
      BY <1>6, GoToType DEF CreateRow, Step
    <2> QED BY <1>1, <1>2, <1>6, <2>1, <2>2 DEF CreateRow, TypeOK
  <1>7. CASE CreateFails(a) \/ TaskDies(a)
    <2>1. task' \in [Alert -> Task]
      BY <1>7, GoToType DEF CreateFails, TaskDies, Step
    <2> QED BY <1>4, <1>7, <2>1 DEF CreateFails, TaskDies, TypeOK
  <1>8. CASE SendOk(a) \/ SendFails(a)
    <2>1. task' \in [Alert -> Task]
      BY <1>8, GoToType DEF SendOk, SendFails, Step
    <2> QED BY <1>3, <1>4, <1>8, <2>1 DEF SendOk, SendFails, TypeOK
  <1>9. CASE Mark(a)
    <2> DEFINE n == task[a].retries
    <2>1. rows[a][n] \in Row
      BY <1>1, <1>9 DEF Mark, TypeOK
    <2>2. [rows[a][n] EXCEPT !.is_sent = TRUE] \in Row
      BY <2>1 DEF Row
    <2>3. rows' = [rows EXCEPT ![a][n] = [rows[a][n] EXCEPT !.is_sent = TRUE]]
      BY <1>9 DEF Mark
    <2>4. task' \in [Alert -> Task]
      BY <1>9, GoToType DEF Mark, Step
    <2> QED BY <1>1, <1>2, <1>9, <2>2, <2>3, <2>4 DEF Mark, TypeOK
  <1>10. CASE MarkFails(a)
    <2>1. task' \in [Alert -> Task]
      BY <1>10, RetryFields
    <2> QED BY <1>4, <1>10, <2>1 DEF MarkFails, TypeOK
  <1> QED BY <1>5, <1>6, <1>7, <1>8, <1>9, <1>10 DEF TaskStep

LEMMA SavedType == ASSUME NEW r \in Request PROVE Saved(r) \in Row
  BY DEF Saved, Request, Row

LEMMA ClientType == ASSUME TypeOK, ClientStep PROVE TypeOK'
  <1>1. ASSUME NEW a \in Alert, NEW n \in Attempt, Destroy(a, n) PROVE TypeOK'
    BY <1>1 DEF Destroy, TypeOK
  <1>2. ASSUME NEW c \in Client, RequestSave(c) PROVE TypeOK'
    <2>1. request[c] \in Request
      BY <1>2 DEF RequestSave, TypeOK
    <2>2. /\ request[c].alert \in Alert /\ request[c].attempt \in Attempt
          /\ Saved(request[c]) \in Row
      BY <2>1, SavedType DEF Request
    <2>3. rows' \in [Alert -> [Attempt -> Row \cup {None}]]
      BY <1>2, <2>2 DEF RequestSave, TypeOK
    <2> QED BY <1>2, <2>3 DEF RequestSave, TypeOK
  <1>3. ASSUME NEW c \in Client, NEW a \in Alert, NEW n \in Attempt,
               RequestBegin(c, a, n)
        PROVE  TypeOK'
    <2>1. rows[a][n] \in Row
      BY <1>3 DEF RequestBegin, TypeOK
    <2>2. \A s \in {"keep", "yes", "no"} :
            [alert |-> a, attempt |-> n, obj |-> rows[a][n], is_sent |-> s]
              \in Request
      BY <2>1 DEF Request
    <2> QED BY <1>3, <2>2 DEF RequestBegin, TypeOK
  <1> QED BY <1>1, <1>2, <1>3 DEF ClientStep

LEMMA NextType == TypeOK /\ [Next]_vars => TypeOK'
  <1>1. TypeOK /\ UNCHANGED vars => TypeOK'
    BY DEF vars, TypeOK
  <1> QED BY <1>1, TaskType, ClientType DEF Next

(* Every reachable state has the types the module declares: a retry never    *)
(* goes beyond max_retries, a request always holds a whole row.              *)
THEOREM TypeCorrect == Spec => []TypeOK
  BY InitType, NextType, PTL DEF Spec

-----------------------------------------------------------------------------
(* A task is retried only after its message was delivered                    *)

(* The inductive part: a task that is about to mark its row has sent.        *)
MarkingDelivered ==
    \A a \in Alert : task[a].pc = "marking" => task[a].retries \in delivered[a]

RetryInv == RetriesAreRepeats /\ MarkingDelivered

LEMMA InitRetry == Init => RetryInv
  BY DEF Init, RetryInv, RetriesAreRepeats, MarkingDelivered

LEMMA TaskRetry ==
    ASSUME TypeOK, RetryInv, NEW a \in Alert,
           Dispatch(a) \/ TaskStep(a) \/ TaskDies(a)
    PROVE  RetryInv'
  <1> USE DEF RetryInv, RetriesAreRepeats, MarkingDelivered
  <1>1. task[a].retries \in Nat
    BY DEF TypeOK, Task, Attempt
  <1>2. \A b \in Alert : delivered[b] \subseteq delivered'[b]
    BY DEF Dispatch, TaskStep, TaskDies, Start, CreateRow, CreateFails, SendOk,
           SendFails, Deliver, Mark, MarkFails, TypeOK
  <1>3. ASSUME NEW pc \in Step \ {"marking"}, GoTo(a, pc) PROVE RetryInv'
    BY <1>2, <1>3, GoToType
  <1>4. CASE Dispatch(a) \/ Start(a) \/ CreateRow(a) \/ CreateFails(a)
             \/ SendFails(a) \/ Mark(a) \/ TaskDies(a)
    BY <1>3, <1>4 DEF Dispatch, Start, CreateRow, CreateFails, SendFails, Mark,
                      TaskDies, Step
  <1>5. CASE SendOk(a)
    <2>1. task[a].retries \in delivered'[a]
      BY <1>5 DEF SendOk, Deliver, TypeOK
    <2> QED BY <1>2, <1>5, <2>1, GoToType DEF SendOk, Step
  <1>6. CASE MarkFails(a)
    <2>1. task[a].retries \in delivered[a]
      BY <1>6 DEF MarkFails
    <2>2. 0 .. (task[a].retries + 1 - 1) \subseteq delivered[a]
      BY <1>1, <2>1
    <2> QED BY <1>1, <1>2, <1>6, <2>2, RetryFields
  <1> QED BY <1>4, <1>5, <1>6 DEF TaskStep

LEMMA NextRetry == TypeOK /\ RetryInv /\ [Next]_vars => RetryInv'
  <1>1. ClientStep \/ UNCHANGED vars => UNCHANGED <<task, delivered>>
    BY DEF ClientStep, Destroy, RequestSave, RequestBegin, vars
  <1>2. RetryInv /\ UNCHANGED <<task, delivered>> => RetryInv'
    BY DEF RetryInv, RetriesAreRepeats, MarkingDelivered
  <1> QED BY <1>1, <1>2, TaskRetry DEF Next

LEMMA RetryInvariant == Spec => []RetryInv
  BY InitRetry, NextRetry, TypeCorrect, PTL DEF Spec

(* However calls fail and requests delete rows, every retry of a task        *)
(* repeats a message that has been delivered already.                        *)
THEOREM RetriesRepeat == Spec => []RetriesAreRepeats
  <1>1. RetryInv => RetriesAreRepeats
    BY DEF RetryInv
  <1> QED BY <1>1, RetryInvariant, PTL

-----------------------------------------------------------------------------
(* A row that says "sent" was delivered                                      *)

LEMMA InitSent == Init => SentMeansDelivered
  BY DEF Init, SentMeansDelivered

LEMMA TaskSent ==
    ASSUME TypeOK, MarkingDelivered, SentMeansDelivered, NEW a \in Alert,
           Dispatch(a) \/ TaskStep(a) \/ TaskDies(a)
    PROVE  SentMeansDelivered'
  <1> USE DEF SentMeansDelivered
  <1>1. \A b \in Alert : delivered[b] \subseteq delivered'[b]
    BY DEF Dispatch, TaskStep, TaskDies, Start, CreateRow, CreateFails, SendOk,
           SendFails, Deliver, Mark, MarkFails, TypeOK
  <1>2. ASSUME UNCHANGED rows PROVE SentMeansDelivered'
    BY <1>1, <1>2
  <1>3. CASE CreateRow(a)
    BY <1>1, <1>3 DEF CreateRow, TypeOK
  <1>4. CASE Mark(a)
    <2>1. task[a].retries \in delivered[a]
      BY <1>4 DEF Mark, MarkingDelivered
    <2>2. \A b \in Alert, n \in Attempt :
            ~(b = a /\ n = task[a].retries) => rows'[b][n] = rows[b][n]
      BY <1>4 DEF Mark, TypeOK
    <2> QED BY <1>1, <2>1, <2>2
  <1> QED BY <1>2, <1>3, <1>4
          DEF Dispatch, TaskStep, TaskDies, Start, CreateFails, SendOk, SendFails,
              MarkFails

LEMMA ClientSent ==
    ASSUME TypeOK, SentMeansDelivered, ClientStep PROVE SentMeansDelivered'
  <1> USE DEF SentMeansDelivered
  <1>1. ASSUME NEW a \in Alert, NEW n \in Attempt, Destroy(a, n)
        PROVE  SentMeansDelivered'
    BY <1>1 DEF Destroy, TypeOK
  <1>2. ASSUME NEW c \in Client, RequestSave(c) PROVE SentMeansDelivered'
    <2>1. Saved(request[c]).by_client = TRUE
      BY DEF Saved
    <2> QED BY <1>2, <2>1 DEF RequestSave, TypeOK
  <1>3. ASSUME NEW c \in Client, NEW a \in Alert, NEW n \in Attempt,
               RequestBegin(c, a, n)
        PROVE  SentMeansDelivered'
    BY <1>3 DEF RequestBegin
  <1> QED BY <1>1, <1>2, <1>3 DEF ClientStep

(* complete() writes is_sent whatever the row holds by then, and requests    *)
(* write whole rows at any time; still no row that only the task has written *)
(* says "sent" of a message that was not delivered.                          *)
THEOREM SentIsDelivered == Spec => []SentMeansDelivered
  <1>1. SentMeansDelivered /\ UNCHANGED vars => SentMeansDelivered'
    BY DEF SentMeansDelivered, vars
  <1>2. TypeOK /\ RetryInv /\ SentMeansDelivered /\ [Next]_vars => SentMeansDelivered'
    BY <1>1, TaskSent, ClientSent DEF Next, RetryInv
  <1> QED BY <1>2, InitSent, RetryInvariant, TypeCorrect, PTL DEF Spec

-----------------------------------------------------------------------------
(* What a handled alert is worth                                             *)

(* Before its message is sent an attempt has delivered nothing, afterwards   *)
(* exactly itself: for the first attempt of a task that met no fault.        *)
FirstAttempt(a) ==
    task[a].retries = 0 /\ faults = 0 =>
        delivered[a] = IF task[a].pc \in {"marking", "done"} THEN {0} ELSE {}

HandledInv == \A a \in Alert : FirstAttempt(a)

LEMMA TaskHandled ==
    ASSUME TypeOK, HandledInv, NEW a \in Alert, CanSave(a),
           Dispatch(a) \/ TaskStep(a) \/ TaskDies(a)
    PROVE  HandledInv'
  <1>1. task[a] \in Task /\ task[a].retries \in Nat /\ faults \in Nat
    BY NotificationsAssumption DEF TypeOK, Task, Attempt
  <1>2. \A b \in Alert : b # a => /\ task'[b] = task[b]
                                  /\ delivered'[b] = delivered[b]
    BY DEF Dispatch, TaskStep, TaskDies, Start, CreateRow, CreateFails, SendOk,
           SendFails, Deliver, Mark, MarkFails, GoTo, TypeOK
  <1>3. faults' = faults \/ (Fault /\ faults' # 0)
    BY <1>1 DEF Dispatch, TaskStep, TaskDies, Start, CreateRow, CreateFails, SendOk,
                SendFails, Mark, MarkFails, Fault
  <1>4. FirstAttempt(a)'
    <2> USE DEF FirstAttempt, HandledInv
    <2>1. CASE Fault /\ faults' # 0
      BY <2>1
    <2>2. CASE faults' = faults /\ (Dispatch(a) \/ Start(a) \/ CreateRow(a))
      <3>1. channel[a] \in Registered
        BY DEF CanSave, Registered
      <3>2. \E pc \in {"queued", "creating", "sending"} : GoTo(a, pc)
        BY <2>2, <3>1 DEF Dispatch, Start, CreateRow
      <3>3. /\ task[a].pc \in {"new", "queued", "creating"}
            /\ UNCHANGED delivered
        BY <2>2 DEF Dispatch, Start, CreateRow
      <3> QED BY <2>2, <3>2, <3>3, GoToType DEF Step
    <2>3. CASE faults' = faults /\ SendOk(a)
      <3>1. delivered'[a] = delivered[a] \cup {task[a].retries}
        BY <2>3 DEF SendOk, Deliver, TypeOK
      <3>2. task[a].pc = "sending" /\ GoTo(a, "marking")
        BY <2>3 DEF SendOk
      <3> QED BY <2>3, <3>1, <3>2, GoToType DEF Step
    <2>4. CASE faults' = faults /\ Mark(a)
      BY <2>4, GoToType DEF Mark, Step
    <2>5. CASE faults' = faults /\ MarkFails(a)
      <3>1. task[a].pc = "marking" /\ UNCHANGED delivered
        BY <2>5 DEF MarkFails
      <3> QED BY <1>1, <2>5, <3>1, RetryFields
    <2>6. CASE faults' = faults /\ (CreateFails(a) \/ SendFails(a) \/ TaskDies(a))
      BY <1>1, <2>6 DEF CreateFails, SendFails, TaskDies, Fault
    <2> QED BY <1>3, <2>1, <2>2, <2>3, <2>4, <2>5, <2>6 DEF TaskStep
  <1>5. \A b \in Alert : b # a => FirstAttempt(b)'
    BY <1>2, <1>3 DEF FirstAttempt, HandledInv
  <1> QED BY <1>4, <1>5 DEF HandledInv

(* An alert by e-mail whose title fits its column reaches its owner exactly  *)
(* once when its task ends without a fault and without a retry: however the  *)
(* requests that edit and delete its row fall between the steps of the task. *)
THEOREM HandledIsDelivered ==
    ASSUME \A a \in Alert : CanSave(a) PROVE Spec => []HandledMeansDelivered
  <1>1. Init => HandledInv
    BY DEF Init, HandledInv, FirstAttempt
  <1>2. TypeOK /\ HandledInv /\ [Next]_vars => HandledInv'
    <2>1. ClientStep \/ UNCHANGED vars => UNCHANGED <<task, delivered, faults>>
      BY DEF ClientStep, Destroy, RequestSave, RequestBegin, vars
    <2>2. HandledInv /\ UNCHANGED <<task, delivered, faults>> => HandledInv'
      BY DEF HandledInv, FirstAttempt
    <2> QED BY <2>1, <2>2, TaskHandled DEF Next
  <1>3. HandledInv => HandledMeansDelivered
    BY DEF HandledInv, FirstAttempt, HandledMeansDelivered
  <1> QED BY <1>1, <1>2, <1>3, TypeCorrect, PTL DEF Spec
=============================================================================
