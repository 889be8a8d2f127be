------------------------------ MODULE MCShared ------------------------------
(* The instances of SharedNodes that TLC checks. *)
EXTENDS SharedNodes

CONSTANTS a, b

MCOrder == [w \in Wrights |-> IF w = a THEN 1 ELSE 2]
=============================================================================
