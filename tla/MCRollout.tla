----------------------------- MODULE MCRollout -----------------------------
(* The instances of Rollout that TLC checks. *)
EXTENDS Rollout

CONSTANTS n1, n2, n3

MCRank == [n \in Nodes |-> CASE n = n1 -> 1 [] n = n2 -> 2 [] n = n3 -> 3]
MCCompartmentRank == [c \in Compartments |-> 1]
Unset(type) == [type |-> type, initial |-> 0, step |-> 0, threshold |-> 0, failures |-> 0, safety |-> 0]
\* The default compartment works on one node at a time and stops after one failed batch.
MCStrategy == [c \in AllCompartments |->
  IF c = DefaultCompartment THEN [Unset("fixed") EXCEPT !.failures = 1] ELSE Unset("exponential")]
MCBudget == [c \in AllCompartments |-> [kind |-> "percent", n |-> 50]]
MCLabels == [n \in Nodes |-> IF n = n3 THEN Compartments ELSE {}]
=============================================================================
