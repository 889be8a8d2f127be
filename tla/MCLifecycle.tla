----------------------------- MODULE MCLifecycle -----------------------------
(* The instances of PackageLifecycle that TLC checks. *)
EXTENDS PackageLifecycle

CONSTANTS a, b, c

MCRank == [p \in Pkgs |-> IF p = a THEN 1 ELSE IF p = b THEN 2 ELSE 3]
NoDeps == [p \in Pkgs |-> {}]
ThirdAfterFirst == [p \in Pkgs |-> IF p = c THEN {a} ELSE {}]
MCPlain == [p \in Pkgs |-> "none"]
MCFirstInterrupts == [p \in Pkgs |-> IF p = a THEN "reboot" ELSE "none"]
MCTwoInterrupt == [p \in Pkgs |-> IF p = a THEN "reboot" ELSE IF p = b THEN "service" ELSE "none"]
=============================================================================
