------------------------------- MODULE Outage -------------------------------
(***************************************************************************)
(* What the incidents service promises: a monitor is up or down; every     *)
(* outage is one incident, and while it is the monitor's latest one, its   *)
(* owner may hear of it, at most once per channel and kind: of the failure *)
(* while it lasts, of the recovery when it is over.                        *)
(***************************************************************************)
EXTENDS Integers, Sequences

CONSTANTS Monitor, IncidentId, Channel

VARIABLES
    latest,   \* the latest incident of each monitor, 0 before the first
    down,     \* the monitors whose latest incident is open
    alerts    \* every message sent, oldest first

vars == <<latest, down, alerts>>

Init ==
    /\ latest = [m \in Monitor |-> 0]
    /\ down = {}
    /\ alerts = <<>>

Break(m) ==
    /\ m \notin down
    /\ \E i \in IncidentId :
          /\ \A n \in Monitor : latest[n] < i
          /\ latest' = [latest EXCEPT ![m] = i]
    /\ down' = down \cup {m}
    /\ UNCHANGED alerts

Recover(m) ==
    /\ m \in down
    /\ down' = down \ {m}
    /\ UNCHANGED <<latest, alerts>>

Alert(m, channel) ==
    LET msg == [incident |-> latest[m],
                kind |-> IF m \in down THEN "warning" ELSE "info",
                channel |-> channel]
    IN  /\ latest[m] # 0
        /\ \A n \in DOMAIN alerts : alerts[n] # msg
        /\ alerts' = Append(alerts, msg)
        /\ UNCHANGED <<latest, down>>

Next ==
    \E m \in Monitor : Break(m) \/ Recover(m) \/ \E c \in Channel : Alert(m, c)

Spec == Init /\ [][Next]_vars
=============================================================================
