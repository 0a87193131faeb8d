--------------------------- MODULE Notifications ----------------------------
(***************************************************************************)
(* The notifications service: one Celery task per alert saves a draft row, *)
(* sends the message, and marks the row as sent.  An exception retries the *)
(* whole task, which saves a new row and sends again; a send that fails    *)
(* raises none.  The HTTP API edits and deletes the same rows meanwhile.   *)
(*                                                                         *)
(* Tasks share nothing but the table, and each works on the rows of its    *)
(* own attempts: the state is kept by alert, not by queue or process.      *)
(***************************************************************************)
EXTENDS Integers, FiniteSets

CONSTANTS
    Alert,       \* the alerts the incidents service sends
    channel,     \* receiver_type of an alert
    kind,        \* "warning" or "info"
    NameLength,  \* length of the name of the alert's monitor
    Client,      \* PATCH / PUT requests that can be in flight at once
    MaxRetries,  \* max_retries of the task
    MaxFaults,   \* how many calls may fail and processes die (bound)
    None         \* no row, no request

Channel == {"email", "telegram", "sms"}

ASSUME NotificationsAssumption ==
    /\ channel \in [Alert -> Channel]
    /\ kind \in [Alert -> {"warning", "info"}]
    /\ NameLength \in [Alert -> 1 .. 255]
    /\ MaxRetries \in Nat /\ MaxFaults \in Nat

VARIABLES
    task,       \* the task of each alert: program counter and retries so far
    rows,       \* the table: the row each attempt of an alert saved, or None
    delivered,  \* the attempts whose message reached the mail server or Telegram
    request,    \* the update request each client has in flight
    faults      \* calls that failed and processes that died so far

vars == <<task, rows, delivered, request, faults>>

-----------------------------------------------------------------------------
(* Data *)

Attempt == 0 .. MaxRetries

Step == {"new", "queued", "creating", "sending", "marking", "done"}
Task == [pc : Step, retries : Attempt]

(* by_client is auxiliary: a request has written the row. *)
Row == [is_sent : BOOLEAN, by_client : BOOLEAN]

(* A request gives is_sent, or keeps the value it read. *)
Request == [alert : Alert, attempt : Attempt, obj : Row,
            is_sent : {"keep", "yes", "no"}]

ASSUME NullAssumption == None \notin Row /\ None \notin Request

Running == {"creating", "sending", "marking"}

(* The titles are a prefix and the name of the monitor; the column holds 255 *)
(* characters.                                                               *)
TitleLength(a) == NameLength[a] + (IF kind[a] = "info" THEN 18 ELSE 8)
(* Mutant: the longest title that fits is refused. *)
TitleFits_short(a) == TitleLength(a) < 255

TitleFits(a) == TitleLength(a) <= 255

(* NotificationService.CHANNELS has a sender and a saver for these two. *)
Registered == {"email", "telegram"}

(* TgSaver names a column the table does not have, so it never saves a row.  *)
CanSave(a) == channel[a] = "email" /\ TitleFits(a)

GoTo(a, pc) == task' = [task EXCEPT ![a].pc = pc]

Fault == faults < MaxFaults /\ faults' = faults + 1

-----------------------------------------------------------------------------
Init ==
    /\ task = [a \in Alert |-> [pc |-> "new", retries |-> 0]]
    /\ rows = [a \in Alert |-> [n \in Attempt |-> None]]
    /\ delivered = [a \in Alert |-> {}]
    /\ request = [c \in Client |-> None]
    /\ faults = 0

(* The incidents service puts the alert in notifications_queue. *)
Dispatch(a) ==
    /\ task[a].pc = "new"
    /\ GoTo(a, "queued")
    /\ UNCHANGED <<rows, delivered, request, faults>>

(* send_and_save: a channel that is not registered ends the task. *)
Start(a) ==
    /\ task[a].pc = "queued"
    /\ GoTo(a, IF channel[a] \in Registered THEN "creating" ELSE "done")
    /\ UNCHANGED <<rows, delivered, request, faults>>

(* Mutant: the draft is saved as sent already. *)
CreateRow_sent(a) ==
    /\ task[a].pc = "creating"
    /\ CanSave(a)
    /\ rows' = [rows EXCEPT ![a][task[a].retries] =
                   [is_sent |-> TRUE, by_client |-> FALSE]]
    /\ GoTo(a, "sending")
    /\ UNCHANGED <<delivered, request, faults>>

CreateRow(a) ==
    /\ task[a].pc = "creating"
    /\ CanSave(a)
    /\ rows' = [rows EXCEPT ![a][task[a].retries] =
                   [is_sent |-> FALSE, by_client |-> FALSE]]
    /\ GoTo(a, "sending")
    /\ UNCHANGED <<delivered, request, faults>>

(* The saver catches every exception and returns None: the task ends. *)
CreateFails(a) ==
    /\ task[a].pc = "creating"
    /\ \/ ~CanSave(a) /\ UNCHANGED faults
       \/ Fault
    /\ GoTo(a, "done")
    /\ UNCHANGED <<rows, delivered, request>>

Deliver(a) == delivered' = [delivered EXCEPT ![a] = @ \cup {task[a].retries}]

SendOk(a) ==
    /\ task[a].pc = "sending"
    /\ Deliver(a)
    /\ GoTo(a, "marking")
    /\ UNCHANGED <<rows, request, faults>>

(* Mutant: the sender lets the exception reach the task, which is retried. *)
SendFails_retried(a) ==
    /\ task[a].pc = "sending"
    /\ Fault
    /\ Deliver(a) \/ UNCHANGED delivered
    /\ task' = [task EXCEPT ![a] =
                   IF @.retries < MaxRetries
                   THEN [pc |-> "queued", retries |-> @.retries + 1]
                   ELSE [pc |-> "done", retries |-> @.retries]]
    /\ UNCHANGED <<rows, request>>

(* The sender catches every exception and returns False, also when the       *)
(* server has taken the message and only its answer is lost.                 *)
SendFails(a) ==
    /\ task[a].pc = "sending"
    /\ Fault
    /\ Deliver(a) \/ UNCHANGED delivered
    /\ GoTo(a, "done")
    /\ UNCHANGED <<rows, request>>

(* complete(): is_sent alone, whatever the row holds by now. *)
Mark(a) ==
    LET n == task[a].retries IN
    /\ task[a].pc = "marking"
    /\ rows[a][n] # None
    /\ rows' = [rows EXCEPT ![a][n].is_sent = TRUE]
    /\ GoTo(a, "done")
    /\ UNCHANGED <<delivered, request, faults>>

(* Mutant: max_retries is not looked at. *)
MarkFails_unbounded(a) ==
    /\ task[a].pc = "marking"
    /\ \/ rows[a][task[a].retries] = None /\ UNCHANGED faults
       \/ Fault
    /\ task' = [task EXCEPT ![a] =
                   [pc |-> "queued", retries |-> @.retries + 1]]
    /\ UNCHANGED <<rows, delivered, request>>

(* Mutant: the task is sent anew instead of retried, so no retry is counted. *)
MarkFails_uncounted(a) ==
    /\ task[a].pc = "marking"
    /\ \/ rows[a][task[a].retries] = None /\ UNCHANGED faults
       \/ Fault
    /\ GoTo(a, "queued")
    /\ UNCHANGED <<rows, delivered, request>>

(* The row is gone, or the database fails: the exception reaches the task,   *)
(* which puts itself in the queue again until max_retries is reached.        *)
MarkFails(a) ==
    LET n == task[a].retries IN
    /\ task[a].pc = "marking"
    /\ \/ rows[a][n] = None /\ UNCHANGED faults
       \/ Fault
    /\ task' = [task EXCEPT ![a] =
                   IF n < MaxRetries
                   THEN [pc |-> "queued", retries |-> n + 1]
                   ELSE [pc |-> "done", retries |-> n]]
    /\ UNCHANGED <<rows, delivered, request>>

(* The process is killed; the message was acknowledged when the task began. *)
TaskDies(a) ==
    /\ task[a].pc \in Running
    /\ Fault
    /\ GoTo(a, "done")
    /\ UNCHANGED <<rows, delivered, request>>

-----------------------------------------------------------------------------
(* The HTTP API: NotificationsViewSet *)

RequestBegin(c, a, n) ==
    /\ request[c] = None
    /\ rows[a][n] # None
    /\ \E s \in {"keep", "yes", "no"} :
          request' = [request EXCEPT ![c] =
                         [alert |-> a, attempt |-> n, obj |-> rows[a][n],
                          is_sent |-> s]]
    /\ UNCHANGED <<task, rows, delivered, faults>>

(* save() writes every column, those the request does not mention with the   *)
(* value RequestBegin read, and inserts the row again when it is gone.       *)
Saved(r) ==
    [is_sent |-> IF r.is_sent = "keep" THEN r.obj.is_sent ELSE r.is_sent = "yes",
     by_client |-> TRUE]

RequestSave(c) ==
    LET r == request[c] IN
    /\ r # None
    /\ rows' = [rows EXCEPT ![r.alert][r.attempt] = Saved(r)]
    /\ request' = [request EXCEPT ![c] = None]
    /\ UNCHANGED <<task, delivered, faults>>

Destroy(a, n) ==
    /\ rows[a][n] # None
    /\ rows' = [rows EXCEPT ![a][n] = None]
    /\ UNCHANGED <<task, delivered, request, faults>>

-----------------------------------------------------------------------------
TaskStep(a) ==
    \/ Start(a)
    \/ CreateRow(a) \/ CreateFails(a)
    \/ SendOk(a) \/ SendFails(a)
    \/ Mark(a) \/ MarkFails(a)

ClientStep ==
    \/ \E a \in Alert, n \in Attempt : Destroy(a, n)
    \/ \E c \in Client :
          RequestSave(c) \/ \E a \in Alert, n \in Attempt : RequestBegin(c, a, n)

Next ==
    \/ \E a \in Alert : Dispatch(a) \/ TaskStep(a) \/ TaskDies(a)
    \/ ClientStep

Spec == Init /\ [][Next]_vars

(* No process is killed and no request is made: calls that fail are the only *)
(* faults, so whatever ends a task is in the code of the task.               *)
CalmSpec ==
    Init /\ [][\E a \in Alert : Dispatch(a) \/ TaskStep(a)]_vars

(* Workers take what is queued, and a retry comes due after ten seconds. *)
LiveSpec == Spec /\ \A a \in Alert : WF_vars(TaskStep(a))

-----------------------------------------------------------------------------
(* Properties *)

(* Every variable has its type. *)
TypeOK ==
    /\ task \in [Alert -> Task]
    /\ rows \in [Alert -> [Attempt -> Row \cup {None}]]
    /\ delivered \in [Alert -> SUBSET Attempt]
    /\ request \in [Client -> Request \cup {None}]
    /\ faults \in 0 .. MaxFaults

(* What retries are worth: a task is only ever retried after its message has *)
(* been delivered, so an alert with r retries has reached its owner at least *)
(* r times.  The retry of send_incident_notification repeats alerts that     *)
(* arrived; it never helps one that did not.                                 *)
RetriesAreRepeats ==
    \A a \in Alert : 0 .. (task[a].retries - 1) \subseteq delivered[a]

(* A row that says "sent", and that no request has written, belongs to an    *)
(* attempt that was delivered, through every failure, retry and deletion.    *)
SentMeansDelivered ==
    \A a \in Alert, n \in Attempt :
        (rows[a][n] # None /\ rows[a][n].is_sent /\ ~rows[a][n].by_client)
            => n \in delivered[a]

(* Without a fault and without a request that deletes its row, an alert that *)
(* has been handled has reached its owner exactly once.                      *)
HandledMeansDelivered ==
    \A a \in Alert :
        (task[a].pc = "done" /\ task[a].retries = 0 /\ faults = 0)
            => delivered[a] = {0}

(* The task says it is retried on failures: a send that the server refuses   *)
(* (nothing is delivered by the step) is not the end of it while retries are *)
(* left.                                                                     *)
FailedSendRetried ==
    [][\A a \in Alert :
         (/\ task[a].pc = "sending" /\ task[a].retries < MaxRetries
          /\ delivered'[a] = delivered[a])
            => task'[a].pc # "done"]_vars

(* Every alert that is dispatched is settled: the task ends, whatever fails  *)
(* and however often its row is deleted under it.                            *)
Settled == \A a \in Alert : task[a].pc = "queued" ~> task[a].pc = "done"
=============================================================================
