-------------------------- MODULE MCConnectorSync --------------------------
(* Model-checking instances of ConnectorSync. *)
EXTENDS ConnectorSync, TLC

\* Changes, tasks and requests are interchangeable within their sets.
Symmetry == Permutations(Changes) \cup Permutations(Tasks) \cup Permutations(Requests)

=============================================================================
