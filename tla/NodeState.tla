----------------------------- MODULE NodeState -----------------------------
(***************************************************************************)
(* The node-state annotation of one NodeWright on one node, and the pure   *)
(* operations on it (api/nodewright/v1alpha1/nodewright_types.go, together *)
(* with the delta of skyhook_controller.go that merges two of them).       *)
(*                                                                         *)
(* The Go map from unique name ("name|version") to PackageStatus is a      *)
(* function from Key = <<package, version>> to entries; NoEntry stands for *)
(* a key the map does not hold.  An entry repeats the version because      *)
(* ProgressSkipped can store an entry under the key of another version.    *)
(* Images, restart counts and digests are left out.                        *)
(***************************************************************************)
EXTENDS Naturals

CONSTANTS
  Pkgs,       \* package names
  MaxVersion  \* versions are 1..MaxVersion, ordered as semver orders them

ASSUME VersionBound == MaxVersion \in Nat \ {0}

Versions == 1..MaxVersion
Key == Pkgs \X Versions

\* The order of a package's life: an install or an upgrade, then configuration,
\* then (if the package asks for one) an interrupt and the post-interrupt step;
\* and the uninstall cycle.
Stage == {"apply", "upgrade", "config", "interrupt", "post-interrupt",
          "uninstall", "uninstall-interrupt"}
InterruptStages == {"interrupt", "uninstall-interrupt"}
State == {"in_progress", "erroring", "skipped", "complete"}

Entry == [ver: Versions, stage: Stage, state: State]
NoEntry == [ver |-> 0, stage |-> "none", state |-> "none"]
NodeStates == [Key -> Entry \cup {NoEntry}]
EmptyNodeState == [k \in Key |-> NoEntry]

Present(ns, k) == ns[k].state # "none"

Status(k, stage, state) == [ver |-> k[2], stage |-> stage, state |-> state]

Upsert(ns, k, stage, state) == [ns EXCEPT ![k] = Status(k, stage, state)]

RemoveState(ns, k) == [ns EXCEPT ![k] = NoEntry]

IsActive(e) == e.state \in {"in_progress", "erroring"}
IsInterruptStage(e) == e.stage \in InterruptStages
IsUninstallCycleInProgress(ns, k) == ns[k].stage \in {"uninstall", "uninstall-interrupt"}

\* Mutant: a package with an interrupt goes to it without being configured.
NextStageSkipsConfig(e, hasInterrupt) ==
  IF e.state # "complete" THEN "none" ELSE
  CASE e.stage \in {"apply", "upgrade"} -> IF hasInterrupt THEN "interrupt" ELSE "config"
    [] e.stage = "interrupt" -> "post-interrupt"
    [] e.stage = "uninstall" /\ ~hasInterrupt -> "apply"
    [] OTHER -> "none"

(***************************************************************************)
(* The stage that follows a completed one, or "none".  The two tables of   *)
(* the code differ in one row each: only a package with an interrupt goes  *)
(* from config to interrupt, only one without goes from a completed        *)
(* uninstall back to apply.                                                *)
(***************************************************************************)
NextStage(e, hasInterrupt) ==
  IF e.state # "complete" THEN "none" ELSE
  CASE e.stage \in {"apply", "upgrade"} -> "config"
    [] e.stage = "interrupt" -> "post-interrupt"
    [] e.stage = "config" /\ hasInterrupt -> "interrupt"
    [] e.stage = "uninstall" /\ ~hasInterrupt -> "apply"
    [] OTHER -> "none"

(***************************************************************************)
(* spec[p] is the record of package p in the NodeWright spec; interrupt[p] *)
(* says whether the package declares one.                                  *)
(***************************************************************************)
SpecKey(spec, p) == <<p, spec[p].ver>>

IsPackageComplete(ns, spec, interrupt, p) ==
  LET e == ns[SpecKey(spec, p)] IN
  /\ e.state = "complete"
  /\ e.ver = spec[p].ver
  /\ \/ e.stage = "post-interrupt"
     \/ e.stage = "config" /\ ~interrupt[p]

\* Packages whose uninstall is requested and done no longer count.
IsComplete(ns, spec, interrupt) ==
  \A p \in Pkgs : \/ spec[p].uninst /\ ~Present(ns, SpecKey(spec, p))
                  \/ IsPackageComplete(ns, spec, interrupt, p)

(***************************************************************************)
(* Every entry at (interrupt, skipped) is promoted to complete, and the    *)
(* promoted entry is stored under the key of the version the spec names,   *)
(* which need not be the key it came from.  Between a skipped entry of the *)
(* spec's version and one of another version the latter is what remains,   *)
(* in either order of the map; between several of other versions the map's *)
(* order decides, so this is the set of outcomes.                          *)
(***************************************************************************)
SkippedInterrupt(e) == e.stage = "interrupt" /\ e.state = "skipped"

PromotedFrom(ns, spec, p) ==
  LET others == {v \in Versions \ {spec[p].ver} : SkippedInterrupt(ns[<<p, v>>])}
  IN  IF others # {} THEN others ELSE {spec[p].ver}

\* Mutant: nothing is promoted.
ProgressSkippedNever(ns, spec) == {ns}

ProgressSkipped(ns, spec) ==
  {[k \in Key |->
      LET s == ns[<<k[1], from[k[1]]>>] IN
      IF k = SpecKey(spec, k[1]) /\ SkippedInterrupt(s) THEN [s EXCEPT !.state = "complete"]
                                                ELSE ns[k]]
     : from \in {f \in [Pkgs -> Versions] : \A p \in Pkgs : f[p] \in PromotedFrom(ns, spec, p)}}

\* Mutant: the pass writes back the whole annotation.
MergeDeltaWholeValue(before, after, current) == after

(***************************************************************************)
(* What a pass changed, laid over whatever the annotation holds by now:    *)
(* entries equal in `before' and `after' are not the pass's to impose.     *)
(***************************************************************************)
MergeDelta(before, after, current) ==
  [k \in Key |-> IF before[k] = after[k] THEN current[k] ELSE after[k]]
=============================================================================
