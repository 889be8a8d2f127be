------------------------------ MODULE MCAgent ------------------------------
(* A package with two apply steps, one step to upgrade, one to uninstall, and
   after the interrupt the first apply step again in another environment: its
   legacy flag is there by then.  The scripts are the same in every version. *)
EXTENDS Agent

Script(n, e) == [id |-> n, env |-> e, always |-> FALSE]
MCModes ==
  [v \in Versions |->
    [s \in StepStages |->
      CASE s = "apply" -> <<Script("first", 0), Script("second", 0)>>
        [] s = "upgrade" -> <<Script("migrate", 0)>>
        [] s = "uninstall" -> <<Script("purge", 0)>>
        [] s = "post-interrupt" -> <<Script("first", 1)>>
        [] OTHER -> <<>>]]
============================================================================
