----------------------------- MODULE GateProofs -----------------------------
(***************************************************************************)
(* What the gate of BatchGate promises to whoever uses it, for every       *)
(* number of nodes and every batch size.  RolloutIsGated of RolloutProofs  *)
(* shows that the default compartment of a rollout is such a gate.         *)
(***************************************************************************)
EXTENDS BatchGate, FiniteSetTheorems, TLAPS

\* The nodes with open work, and how many there may be.
WithinLimit ==
  /\ open \subseteq Members /\ stopped \in BOOLEAN
  /\ Cardinality(open) <= Limit

\* Work is open on at most Limit nodes of a compartment at any time: the size of a fixed
\* strategy (GetNodesForNextBatch) bounds how many nodes are disturbed together.
THEOREM GateBounded ==
  ASSUME IsFiniteSet(Members), Limit \in Nat
  PROVE  GateSpec => []WithinLimit
<1>1. GateInit => WithinLimit
  <2>1. Cardinality({}) = 0
    BY FS_EmptySet
  <2>2. GateInit => open \subseteq Members /\ Cardinality(open) <= Limit
    BY <2>1 DEF GateInit
  <2>3. GateInit => stopped \in BOOLEAN
    BY Zenon DEF GateInit
  <2>4. QED
    BY <2>2, <2>3, Zenon DEF WithinLimit
<1>2. WithinLimit /\ [GateNext]_<<open, stopped>> => WithinLimit'
  <2> SUFFICES ASSUME WithinLimit, [GateNext]_<<open, stopped>>
               PROVE  WithinLimit'
    OBVIOUS
  <2>0. IsFiniteSet(open) /\ Cardinality(open) \in Nat
    BY FS_Subset, FS_CardinalityType DEF WithinLimit
  <2>1. ASSUME NEW n \in Members, Admit(n) PROVE WithinLimit'
    <3>1. Cardinality(open \cup {n}) = Cardinality(open) + 1
      BY <2>0, <2>1, FS_AddElement DEF Admit
    <3>2. QED
      BY <2>0, <2>1, <3>1 DEF Admit, WithinLimit
  <2>2. ASSUME NEW n \in Members, Close(n) PROVE WithinLimit'
    <3>1. Cardinality(open \ {n}) = Cardinality(open) - 1
      BY <2>0, <2>2, FS_RemoveElement DEF Close
    <3>2. QED
      BY <2>0, <2>2, <3>1 DEF Close, WithinLimit
  <2>3. CASE Stop
    BY <2>3 DEF Stop, WithinLimit
  <2>4. CASE Restart
    BY <2>4 DEF Restart, WithinLimit
  <2>5. CASE UNCHANGED <<open, stopped>>
    BY <2>5 DEF WithinLimit
  <2>6. QED
    BY <2>1, <2>2, <2>3, <2>4, <2>5 DEF GateNext
<1>3. QED
  BY <1>1, <1>2, PTL DEF GateSpec

\* Between the failure that stops a compartment and its reset, no node is added to those
\* with open work (BatchState.ShouldStop).
StoppedStartsNothing == [][stopped => open' \subseteq open]_<<open, stopped>>

\* A compartment that has stopped starts nothing (GetNodesForNextBatch returns no new node
\* while ShouldStop is set).
THEOREM GateHolds == GateSpec => StoppedStartsNothing
<1>1. [GateNext]_<<open, stopped>> => [stopped => open' \subseteq open]_<<open, stopped>>
  BY DEF GateNext, Admit, Close, Stop, Restart
<1>2. QED
  BY <1>1, PTL DEF GateSpec, StoppedStartsNothing
=============================================================================
