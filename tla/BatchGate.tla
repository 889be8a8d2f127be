----------------------------- MODULE BatchGate -----------------------------
(***************************************************************************)
(* What a fixed strategy promises for the nodes of one compartment: work   *)
(* starts on a node only while it is open on fewer than Limit others, and  *)
(* on none once the compartment has stopped.  Work ends when the node      *)
(* completes it, leaves, or loses it.                                      *)
(***************************************************************************)
EXTENDS Naturals, FiniteSets

CONSTANTS Members, Limit

VARIABLES open, stopped

GateInit == open = {} /\ stopped = FALSE

Admit(n) ==
  /\ n \in Members \ open /\ ~stopped
  /\ Cardinality(open) < Limit
  /\ open' = open \cup {n}
  /\ UNCHANGED stopped

Close(n) == n \in open /\ open' = open \ {n} /\ UNCHANGED stopped

Stop == ~stopped /\ stopped' = TRUE /\ UNCHANGED open

\* A stopped compartment goes on only after a reset, with no work open.
Restart == stopped /\ open = {} /\ stopped' = FALSE /\ UNCHANGED open

GateNext == (\E n \in Members : Admit(n) \/ Close(n)) \/ Stop \/ Restart

GateSpec == GateInit /\ [][GateNext]_<<open, stopped>>
=============================================================================
