------------------------------- MODULE Service -------------------------------
(***************************************************************************)
(* The smaller services of the backend and the capture agent.  They share    *)
(* nothing but the database server, the broker and the network, so one of    *)
(* them is looked at at a time; what may fail counts against one budget.     *)
(***************************************************************************)
EXTENDS Naturals, FiniteSets

CONSTANT MaxFaults  \* bound of what fails, per service

ASSUME ServiceAssumption == MaxFaults \in [DOMAIN MaxFaults -> Nat]

VARIABLES
  service,  \* the service looked at
  faults    \* what has failed so far

serviceVars == <<service, faults>>

\* A commit, an answer, a worker or a peer is lost.
Fault == faults < MaxFaults[service] /\ faults' = faults + 1 /\ UNCHANGED service

On(s) == service = s

NoFault == UNCHANGED serviceVars

\* A finite set of numbers, listed.
InOrder(S) ==
  CHOOSE f \in [1..Cardinality(S) -> S] :
    \A i, j \in 1..Cardinality(S) : i < j => f[i] < f[j]

=============================================================================
