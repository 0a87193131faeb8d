----------------------------- MODULE MCPipeline -----------------------------
(* Small instances of Pipeline for TLC. *)
EXTENDS Pipeline, TLC

EmailOnly == {{"email"}}

(* A bound on the messages that does not bind. *)
Unbounded == [kind \in {"warning", "info"} |-> 12]

Symmetry == Permutations(CheckWorker) \cup Permutations(IncidentWorker)
=============================================================================
