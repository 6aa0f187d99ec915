--------------------------- MODULE MCThermalBudget ---------------------------
(* The thermal budget by itself: two configured devices of one and two slots *)
(* and one the budget lacks.  See MCFleetConductor for the other properties. *)
EXTENDS ThermalBudget, TLC

MCMaxAgents == [d \in Device |-> IF d = "gpu" THEN 1 ELSE IF d = "cpu" THEN 2 ELSE 0]

\* No handler compares agents.
Agents == Permutations(Agent)
=============================================================================
