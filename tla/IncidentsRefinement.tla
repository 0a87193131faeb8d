------------------------- MODULE IncidentsRefinement ------------------------
(***************************************************************************)
(* A single incidents worker keeps the promise of Outage, as long as no    *)
(* request edits the table: the monitors that are down are those with an   *)
(* open incident, and the alerts are the messages in notifications_queue.  *)
(***************************************************************************)
EXTENDS Incidents

Newest(S) == CHOOSE i \in S : \A j \in S : j <= i

IncidentsOf(m) == {i \in IncidentId : Exists(i) /\ incidents[i].monitor = m}

latest == [m \in Monitor |->
              IF IncidentsOf(m) = {} THEN 0 ELSE Newest(IncidentsOf(m))]
down == {m \in Monitor : OpenOf(m) # {}}

Promise == INSTANCE Outage WITH alerts <- notifications_queue

(* One outage is one incident, and its owner hears of it in order and once:  *)
(* process_incident_task and dispatch_notifications implement Outage.        *)
ImplementsOutage == Promise!Spec
=============================================================================
