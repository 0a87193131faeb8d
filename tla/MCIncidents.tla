---------------------------- MODULE MCIncidents -----------------------------
(* Small instances of Incidents for TLC. *)
EXTENDS IncidentsRefinement, TLC

EventFor(m, ok, failures, interval) ==
    [monitor |-> m, is_success |-> ok, consecutive_failures |-> failures,
     interval_seconds |-> interval]

(* A success, a failure just below and one at the threshold of 60 seconds,   *)
(* and a first failure of a monitor checked every ten minutes.               *)
SampleEvents ==
    UNION {{EventFor(m, TRUE, 0, 60), EventFor(m, FALSE, 5, 60),
            EventFor(m, FALSE, 6, 60), EventFor(m, FALSE, 1, 600)} : m \in Monitor}

(* A success, and a failure that opens an incident. *)
DecisiveEvents ==
    UNION {{EventFor(m, TRUE, 0, 60), EventFor(m, FALSE, 6, 60)} : m \in Monitor}

(* Bounds on the messages: only the first warnings reach a channel; or none binds. *)
OneWarning == [kind \in Kind |-> IF kind = "warning" THEN 1 ELSE 0]
Unbounded == [kind \in Kind |-> 12]

EmailOnly == {{"email"}}
TwoChannels == {{"email", "sms"}}

Symmetry == Permutations(Monitor) \cup Permutations(Worker) \cup Permutations(Client)
=============================================================================
