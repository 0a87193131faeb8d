----------------------------- MODULE MCMonitors -----------------------------
(* Small instances of Monitors for TLC. *)
EXTENDS Monitors, TLC

(* Processes, requests and monitors are interchangeable: nothing in the       *)
(* module orders them.  Used by the runs that check no liveness.              *)
Symmetry == Permutations(Monitor) \cup Permutations(Worker) \cup Permutations(Client)
=============================================================================
