----------------------------- MODULE MCServices -----------------------------
(* The instance of Services that is model-checked: what may fail, per service. *)
EXTENDS Services

FaultBudget == [capture |-> 2, logs |-> 1, report |-> 1, alerts |-> 1, live |-> 1, hub |-> 0,
                fetch |-> 2]

=============================================================================
