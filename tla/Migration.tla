----------------------------- MODULE Migration -----------------------------
(***************************************************************************)
(* The rename from skyhook.nvidia.com to nodewright.nvidia.com: the mirror *)
(* that makes a NodeWright of each legacy Skyhook, the hold while one is   *)
(* rolling out, the adoption of what the earlier operator left on a node   *)
(* and in the namespace, its pruning after the rollback window, and the    *)
(* way back to the earlier operator and up again.                          *)
(*                                                                         *)
(* A Skyhook's spec is a number, and stands for what is on the host when   *)
(* it has been applied; how it is applied is PackageLifecycle.  The        *)
(* earlier operator is external: it applies the legacy spec and writes the *)
(* legacy keys.  All Skyhooks share one node.                              *)
(***************************************************************************)
EXTENDS Naturals, FiniteSets

CONSTANTS
  Names,            \* Skyhooks, and the NodeWrights of the same names: numbered in their order
  UninstallEnabled, \* those whose packages are uninstalled on deletion
  RollbackWindow,   \* is LegacyCleanupDelay above zero?
  EditKinds,        \* what users do in this instance
  MaxEdits, MaxSwitches, MaxFaults \* bounds; a switch is an upgrade or a rollback

ASSUME MigrationAssumption ==
  /\ IsFiniteSet(Names) /\ Names \subseteq Nat /\ UninstallEnabled \subseteq Names /\ RollbackWindow \in BOOLEAN
  /\ EditKinds \subseteq {"legacy", "pauseLegacy", "deleteLegacy", "target", "pause", "delete", "create", "ignore"}
  /\ MaxEdits \in Nat /\ MaxSwitches \in Nat /\ MaxFaults \in Nat

VARIABLES
  operator,  \* which operator runs: "old" or "new"
  legacy,    \* the Skyhooks
  target,    \* the NodeWrights
  node,      \* the node's keys under either prefix
  host,      \* what is on the host for each name
  workload,  \* the ConfigMap of each name, and the pods the old operator made
  queue,     \* names the mirror has to look at
  mirror,    \* the mirror between its reads and its write
  pass,      \* the pass in progress
  reworked,  \* history: names whose legacy state changed after the node was adopted
  served,    \* history: NodeWrights that this process has come to
  used

vars == <<operator, legacy, target, node, host, workload, queue, mirror, pass, reworked, served, used>>

Gone == [here |-> FALSE, deleting |-> FALSE, gen |-> 0, spec |-> 0, paused |-> FALSE, status |-> "none"]
NoTarget == [here |-> FALSE, deleting |-> FALSE, owned |-> FALSE, gen |-> 0, spec |-> 0,
             paused |-> FALSE, stamp |-> "none"]
IdleMirror == [pc |-> "idle", desired |-> NoTarget, seen |-> NoTarget]
NoKeys == [old |-> [s \in Names |-> 0], new |-> [s \in Names |-> 0],
           version |-> [s \in Names |-> FALSE], ignore |-> {}]
IdlePass == [pc |-> "idle", todo |-> {}, now |-> {}, snap |-> NoKeys, mem |-> NoKeys,
             seen |-> [s \in Names |-> NoTarget], had |-> FALSE, again |-> FALSE]
NoWorkload == [here |-> FALSE, labels |-> {}, owner |-> "none", pods |-> FALSE]

Init ==
  /\ operator = "old"
  /\ legacy = [s \in Names |-> [Gone EXCEPT !.here = TRUE, !.gen = 1, !.spec = 1]]
  /\ target = [s \in Names |-> NoTarget]
  /\ node = NoKeys
  /\ host = [s \in Names |-> 0]
  /\ workload = [s \in Names |-> NoWorkload]
  /\ queue = {} /\ mirror = [s \in Names |-> IdleMirror] /\ pass = IdlePass
  /\ reworked = {} /\ served = {}
  /\ used = [edits |-> 0, switches |-> 0, faults |-> 0]

Targets == {s \in Names : target[s].here}
Fault == used.faults < MaxFaults /\ used' = [used EXCEPT !.faults = @ + 1]

-----------------------------------------------------------------------------
(***************************************************************************)
(* The earlier operator.  External.                                        *)
(***************************************************************************)
OldStarts(s) ==
  /\ operator = "old" /\ legacy[s].here /\ ~legacy[s].paused /\ "old" \notin node.ignore
  /\ legacy[s].status # "in_progress" /\ node.old[s] # legacy[s].spec
  /\ legacy' = [legacy EXCEPT ![s] = [legacy[s] EXCEPT !.status = "in_progress"]]
  /\ workload' = [workload EXCEPT ![s] =
       IF workload[s].here THEN [workload[s] EXCEPT !.pods = TRUE, !.labels = @ \cup {"old"}]
       ELSE [here |-> TRUE, labels |-> {"old"}, owner |-> "legacy", pods |-> TRUE]]
  /\ UNCHANGED <<operator, target, node, host, queue, mirror, pass, reworked, served, used>>

OldFinishes(s) ==
  /\ operator = "old" /\ legacy[s].here /\ legacy[s].status = "in_progress"
  /\ legacy' = [legacy EXCEPT ![s] = [legacy[s] EXCEPT !.status = "complete"]]
  /\ node' = [node EXCEPT !.old = [node.old EXCEPT ![s] = legacy[s].spec]]
  /\ host' = [host EXCEPT ![s] = legacy[s].spec]
  /\ reworked' = IF node.version[s] THEN reworked \cup {s} ELSE reworked
  /\ UNCHANGED <<operator, target, workload, queue, mirror, pass, served, used>>

-----------------------------------------------------------------------------
(***************************************************************************)
(* The mirror controller: reads, then at most one write.                   *)
(***************************************************************************)
\* The target a Skyhook converts to; pause and disable come along under the new prefix.
Convert(s) == [NoTarget EXCEPT !.here = TRUE, !.owned = TRUE, !.gen = legacy[s].gen,
                               !.spec = legacy[s].spec, !.paused = legacy[s].paused]

ReconcileMirror(s) ==
  LET wanted == IF legacy[s].deleting THEN "finalizer"
                ELSE IF ~target[s].here THEN "create"
                ELSE IF target[s].owned /\ target[s].gen # legacy[s].gen THEN "update"
                ELSE "idle"
  IN /\ operator = "new" /\ s \in queue /\ mirror[s].pc = "idle"
     /\ queue' = queue \ {s}
     /\ mirror' = IF ~legacy[s].here THEN mirror
                  ELSE [mirror EXCEPT ![s] = [pc |-> wanted, desired |-> Convert(s), seen |-> target[s]]]
     /\ UNCHANGED <<operator, legacy, target, node, host, workload, pass, reworked, served, used>>

\* syncMirrorOntoExisting: the annotations that only live on the target are kept.
SyncMirrorOntoExisting(existing, desired) ==
  [desired EXCEPT !.paused = @ \/ existing.paused, !.stamp = existing.stamp, !.deleting = existing.deleting]

MirrorDone(s, again) ==
  /\ mirror' = [mirror EXCEPT ![s] = IdleMirror]
  /\ queue' = IF again THEN queue \cup {s} ELSE queue

\* A create that finds a target is let be; an update of an object that has changed since
\* it was read conflicts, and is tried again.
WriteMirror(s) ==
  LET m == mirror[s] IN
  /\ m.pc # "idle"
  /\ \/ /\ m.pc = "finalizer"
        /\ legacy' = [legacy EXCEPT ![s] = Gone]
        /\ MirrorDone(s, FALSE) /\ UNCHANGED <<target, used>>
     \/ /\ m.pc = "create"
        /\ target' = IF target[s].here THEN target ELSE [target EXCEPT ![s] = m.desired]
        /\ MirrorDone(s, FALSE) /\ UNCHANGED <<legacy, used>>
     \/ /\ m.pc = "update" /\ target[s] = m.seen
        /\ target' = [target EXCEPT ![s] = SyncMirrorOntoExisting(m.seen, m.desired)]
        /\ MirrorDone(s, FALSE) /\ UNCHANGED <<legacy, used>>
     \/ /\ m.pc = "update" /\ target[s] # m.seen
        /\ MirrorDone(s, TRUE) /\ UNCHANGED <<legacy, target, used>>
     \/ Fault /\ MirrorDone(s, TRUE) /\ UNCHANGED <<legacy, target>>
  /\ UNCHANGED <<operator, node, host, workload, pass, reworked, served>>

-----------------------------------------------------------------------------
(***************************************************************************)
(* The pass of the new operator.                                           *)
(***************************************************************************)
\* inFlightLegacySkyhooks
InFlight == {s \in Names : /\ legacy[s].here /\ ~legacy[s].paused
                           /\ legacy[s].status \notin {"none", "complete"}}

BeginPass ==
  /\ operator = "new" /\ pass.pc = "idle" /\ InFlight = {} /\ Targets # {}
  /\ pass' = [IdlePass EXCEPT !.pc = "nodes", !.todo = Targets, !.snap = node, !.seen = target]
  /\ UNCHANGED <<operator, legacy, target, node, host, workload, queue, mirror, reworked, served, used>>

\* Mutant: an adopted node is pruned before the window is over.
ShouldPruneStamped(s) == pass.seen[s].stamp # "none"

\* legacyCleanupShouldPrune
ShouldPrune(s) == ~RollbackWindow \/ pass.seen[s].stamp = "elapsed"

\* The NodeWright whose turn it is: BuildState has sorted them.
Turn(s) == s \in pass.todo /\ \A x \in pass.todo : s <= x

\* Mutant: the node is taken as it is under the new prefix.
MigrateNothing(nd, s) == [nd EXCEPT !.version[s] = TRUE]

\* Migrate: a node that has no version of this NodeWright under the new prefix takes over
\* every key of the operator under the old one; keys already there win.
Migrate(nd, s) ==
  IF nd.version[s] THEN nd
  ELSE [nd EXCEPT !.new = [x \in Names |-> IF nd.new[x] # 0 THEN nd.new[x] ELSE nd.old[x]],
                  !.version = [x \in Names |-> nd.version[x] \/ nd.old[x] # 0 \/ x = s],
                  !.ignore = IF "old" \in @ THEN @ \cup {"new"} ELSE @]

\* PruneLegacyMetadata: the keys of this Skyhook; those of the node stay.
Prune(nd, s) == [nd EXCEPT !.old = [nd.old EXCEPT ![s] = 0]]

\* The write of what mem changed since snap.
PatchedNode(snap, mem) ==
  [old |-> [s \in Names |-> IF snap.old[s] = mem.old[s] THEN node.old[s] ELSE mem.old[s]],
   new |-> [s \in Names |-> IF snap.new[s] = mem.new[s] THEN node.new[s] ELSE mem.new[s]],
   version |-> [s \in Names |-> IF snap.version[s] = mem.version[s] THEN node.version[s] ELSE mem.version[s]],
   ignore |-> node.ignore \cup (mem.ignore \ snap.ignore)]

\* A node that cannot be patched does not stop the pass.
MigrateNode(s) ==
  LET migrated == Migrate(pass.snap, s)
      mem == IF ShouldPrune(s) THEN Prune(migrated, s) ELSE migrated
  IN /\ pass.pc = "nodes" /\ Turn(s)
     /\ \/ node' = PatchedNode(pass.snap, mem) /\ UNCHANGED used
        \/ mem # pass.snap /\ Fault /\ UNCHANGED node
     /\ pass' = [pass EXCEPT !.pc = "pods", !.todo = @ \ {s}, !.now = {s}, !.mem = mem,
                             !.again = @ \/ mem # pass.snap, !.had = FALSE]
     /\ UNCHANGED <<operator, legacy, target, host, workload, queue, mirror, reworked, served>>

\* Mutant: the ConfigMap gets its label and keeps its owner.
AdoptLabelsOnly(w) == [w EXCEPT !.labels = IF "old" \in @ THEN @ \cup {"new"} ELSE @]

\* reparentToNodeWright and addNodeWrightMetaLabel, for a ConfigMap with a legacy label.
Adopt(w) ==
  IF "old" \notin w.labels THEN w
  ELSE [w EXCEPT !.owner = "target", !.labels = @ \cup {"new"}]

\* ... and relabelLegacyMetadataPrefix when the window is over.
Relabel(w) == IF "old" \notin w.labels THEN w ELSE [w EXCEPT !.owner = "target", !.labels = {"new"}]

\* Mutant: every ConfigMap of the NodeWright counts as a legacy one.
HadLegacyAny(w) == w.pods \/ w.here

HadLegacy(w) == w.pods \/ (w.here /\ "old" \in w.labels)

\* reconcileLegacyLabeledWorkloads: pods, then ConfigMaps.  An error ends the pass.
ReconcileWorkloads(s) ==
  LET w == workload[s]
      swept == IF ShouldPrune(s) THEN [w EXCEPT !.pods = FALSE] ELSE w
      done == IF ShouldPrune(s) THEN Relabel(swept) ELSE Adopt(swept)
  IN /\ pass.pc = "pods" /\ s \in pass.now
     /\ \/ /\ workload' = [workload EXCEPT ![s] = done]
           /\ pass' = [pass EXCEPT !.pc = "stamp", !.had = HadLegacy(w), !.again = @ \/ done # w]
           /\ UNCHANGED used
        \/ /\ done # w /\ Fault
           /\ \E reached \in {w, swept} : workload' = [workload EXCEPT ![s] = reached]
           /\ pass' = IdlePass
     /\ UNCHANGED <<operator, legacy, target, node, host, queue, mirror, reworked, served>>

\* reconcileLegacyMigratedStamp, decided on the pass's copy of the node.
ReconcileStamp(s) ==
  LET left == pass.had \/ pass.mem.old[s] # 0
      stamp == IF ShouldPrune(s) /\ ~left THEN "none"
               ELSE IF ~ShouldPrune(s) /\ pass.seen[s].stamp = "none" /\ left THEN "set"
               ELSE pass.seen[s].stamp
      again == pass.again \/ stamp # pass.seen[s].stamp
  IN /\ pass.pc = "stamp" /\ s \in pass.now
     /\ \/ /\ target' = IF stamp = pass.seen[s].stamp THEN target ELSE [target EXCEPT ![s] = [target[s] EXCEPT !.stamp = stamp]]
           /\ pass' = IF pass.todo # {} THEN [pass EXCEPT !.pc = "nodes", !.now = {}, !.again = again]
                      ELSE IF again THEN IdlePass
                      ELSE [IdlePass EXCEPT !.pc = "work", !.seen = pass.seen,
                                           !.todo = {x \in Names : pass.seen[x].here}]
           /\ UNCHANGED used
        \/ /\ stamp # pass.seen[s].stamp /\ Fault
           /\ pass' = IdlePass /\ UNCHANGED target
     /\ UNCHANGED <<operator, legacy, node, host, workload, queue, mirror, reworked, served>>

\* UpsertConfigmaps: the ConfigMap is found by its new label; one that has only the old
\* label is in the way of the one to be created, and every pass ends there.
UpsertConfigmaps(w) ==
  IF ~w.here THEN [w EXCEPT !.here = TRUE, !.labels = {"new"}, !.owner = "target"] ELSE w

\* What the rest of the pass does for a NodeWright: apply its spec where the node's state
\* does not say that it is applied.
Serve(s) ==
  LET w == UpsertConfigmaps(workload[s])
      wanted == pass.seen[s]
      due == ~wanted.paused /\ "new" \notin node.ignore /\ node.new[s] # wanted.spec
  IN /\ pass.pc = "work" /\ Turn(s) /\ ~pass.seen[s].deleting
     /\ "new" \in w.labels
     /\ workload' = [workload EXCEPT ![s] = w]
     /\ host' = IF due THEN [host EXCEPT ![s] = wanted.spec] ELSE host
     /\ node' = IF due THEN [node EXCEPT !.new = [node.new EXCEPT ![s] = wanted.spec]] ELSE node
     /\ served' = served \cup {s}
     /\ pass' = IF pass.todo = {s} THEN IdlePass ELSE [pass EXCEPT !.todo = @ \ {s}]
     /\ UNCHANGED <<operator, legacy, target, queue, mirror, reworked, used>>

\* HandleFinalizer: the state of packages that stay on the host stays on the node.  The
\* deletion of the target enqueues the name for the mirror.
FinalizeTarget(s) ==
  /\ pass.pc = "work" /\ Turn(s) /\ pass.seen[s].deleting
  /\ host' = IF s \in UninstallEnabled THEN [host EXCEPT ![s] = 0] ELSE host
  /\ node' = IF s \in UninstallEnabled \/ node.new[s] = 0
               THEN [node EXCEPT !.new = [node.new EXCEPT ![s] = 0], !.version = [node.version EXCEPT ![s] = FALSE]] ELSE node
  /\ target' = [target EXCEPT ![s] = NoTarget]
  /\ queue' = queue \cup {s}
  /\ served' = served \ {s}
  /\ workload' = [workload EXCEPT ![s] = 
       IF workload[s].owner = "target" THEN [workload[s] EXCEPT !.owner = "deleted"] ELSE workload[s]]
  /\ pass' = IdlePass
  /\ UNCHANGED <<operator, legacy, mirror, reworked, used>>

-----------------------------------------------------------------------------
(***************************************************************************)
(* Kubernetes, time and users.                                             *)
(***************************************************************************)
GarbageCollect(s) ==
  /\ \/ /\ ~legacy[s].here
        /\ workload[s].pods \/ workload[s].owner = "legacy"
        /\ workload' = [workload EXCEPT ![s] = 
             IF workload[s].owner = "legacy" THEN NoWorkload ELSE [workload[s] EXCEPT !.pods = FALSE]]
     \/ /\ workload[s].owner = "deleted"
        /\ workload' = [workload EXCEPT ![s] = [NoWorkload EXCEPT !.pods = workload[s].pods]]
  /\ UNCHANGED <<operator, legacy, target, node, host, queue, mirror, pass, reworked, served, used>>

WindowElapses(s) ==
  /\ target[s].stamp = "set"
  /\ target' = [target EXCEPT ![s] = [target[s] EXCEPT !.stamp = "elapsed"]]
  /\ UNCHANGED <<operator, legacy, node, host, workload, queue, mirror, pass, reworked, served, used>>

\* An operator that starts lists the Skyhooks; one that stops leaves what it was doing.
Started(which) ==
  /\ operator' = which
  /\ queue' = IF which = "new" THEN {s \in Names : legacy[s].here} ELSE {}
  /\ mirror' = [s \in Names |-> IdleMirror] /\ pass' = IdlePass
  /\ served' = {}
  /\ UNCHANGED <<legacy, target, node, host, workload, reworked>>

Switch ==
  /\ used.switches < MaxSwitches
  /\ used' = [used EXCEPT !.switches = @ + 1]
  /\ Started(IF operator = "old" THEN "new" ELSE "old")

Crash ==
  /\ operator = "new" /\ Fault
  /\ pass # IdlePass \/ \E s \in Names : mirror[s] # IdleMirror
  /\ Started("new")

Edit(kind) ==
  /\ kind \in EditKinds /\ used.edits < MaxEdits
  /\ used' = [used EXCEPT !.edits = @ + 1]
  /\ UNCHANGED <<operator, host, workload, mirror, pass, served>>

\* legacyReadOnlyError: only deletion is left once the new operator serves admission.
legacyReadOnlyError == operator = "old"

EditLegacy(s) ==
  /\ legacy[s].here /\ ~legacy[s].deleting
  /\ \/ /\ Edit("legacy") /\ legacyReadOnlyError
        /\ legacy' = [legacy EXCEPT ![s] = [legacy[s] EXCEPT !.spec = @ + 1, !.gen = @ + 1]]
        /\ UNCHANGED queue
     \/ /\ Edit("pauseLegacy") /\ legacyReadOnlyError
        /\ legacy' = [legacy EXCEPT ![s] = [legacy[s] EXCEPT !.paused = ~@]]
        /\ UNCHANGED queue
     \/ /\ Edit("deleteLegacy") /\ operator = "new" /\ s \in served
        /\ legacy' = [legacy EXCEPT ![s] = [legacy[s] EXCEPT !.deleting = TRUE]]
        /\ queue' = queue \cup {s}
  /\ UNCHANGED <<target, node, reworked>>

EditTarget(s) ==
  /\ \/ /\ Edit("target") /\ target[s].here /\ ~target[s].deleting
        /\ target' = [target EXCEPT ![s] = [target[s] EXCEPT !.spec = @ + 1]]
     \/ /\ Edit("pause") /\ target[s].here /\ ~target[s].deleting
        /\ target' = [target EXCEPT ![s] = [target[s] EXCEPT !.paused = ~@]]
     \/ /\ Edit("delete") /\ target[s].here /\ ~target[s].deleting
        /\ target' = [target EXCEPT ![s] = [target[s] EXCEPT !.deleting = TRUE]]
     \/ /\ Edit("create") /\ operator = "new" /\ ~target[s].here
        /\ target' = [target EXCEPT ![s] = [NoTarget EXCEPT !.here = TRUE, !.spec = 1]]
  /\ UNCHANGED <<legacy, node, queue, reworked>>

\* A user opts the node out with the label the old operator reads.
IgnoreNode ==
  /\ Edit("ignore") /\ operator = "old" /\ "old" \notin node.ignore
  /\ node' = [node EXCEPT !.ignore = @ \cup {"old"}]
  /\ reworked' = {s \in Names : s \in reworked \/ node.version[s]}
  /\ UNCHANGED <<legacy, target, queue>>

NewOperator == BeginPass \/ \E s \in Names : \/ MigrateNode(s) \/ ReconcileWorkloads(s) \/ ReconcileStamp(s)
                                             \/ Serve(s) \/ FinalizeTarget(s)

Next ==
  \/ NewOperator \/ Switch \/ Crash \/ IgnoreNode
  \/ \E s \in Names : \/ OldStarts(s) \/ OldFinishes(s) \/ ReconcileMirror(s) \/ WriteMirror(s)
                      \/ GarbageCollect(s) \/ WindowElapses(s) \/ EditLegacy(s) \/ EditTarget(s)

Spec == Init /\ [][Next]_vars

\* The operator that runs goes on, time passes, and owners' deletions are carried out.
FairSpec ==
  /\ Spec /\ WF_vars(NewOperator)
  /\ \A s \in Names : /\ WF_vars(ReconcileMirror(s)) /\ WF_vars(WriteMirror(s))
                      /\ WF_vars(GarbageCollect(s)) /\ WF_vars(WindowElapses(s))

-----------------------------------------------------------------------------
(***************************************************************************)
(* Properties.                                                             *)
(***************************************************************************)
LegacyRecord == [here: BOOLEAN, deleting: BOOLEAN, gen: Nat, spec: Nat, paused: BOOLEAN,
                 status: {"none", "in_progress", "complete"}]
TargetRecord == [here: BOOLEAN, deleting: BOOLEAN, owned: BOOLEAN, gen: Nat, spec: Nat,
                 paused: BOOLEAN, stamp: {"none", "set", "elapsed"}]
NodeKeys == [old: [Names -> Nat], new: [Names -> Nat], version: [Names -> BOOLEAN],
             ignore: SUBSET {"old", "new"}]
WorkloadRecord == [here: BOOLEAN, labels: SUBSET {"old", "new"},
                   owner: {"none", "legacy", "target", "deleted"}, pods: BOOLEAN]
MirrorRecord == [pc: {"idle", "finalizer", "create", "update"}, desired: TargetRecord, seen: TargetRecord]
PassRecord == [pc: {"idle", "nodes", "pods", "stamp", "work"}, todo: SUBSET Names, now: SUBSET Names,
               snap: NodeKeys, mem: NodeKeys, seen: [Names -> TargetRecord], had: BOOLEAN, again: BOOLEAN]

\* Types; and only the new operator mirrors or has a pass under way.
TypeOK ==
  /\ operator \in {"old", "new"}
  /\ legacy \in [Names -> LegacyRecord] /\ target \in [Names -> TargetRecord]
  /\ node \in NodeKeys /\ host \in [Names -> Nat]
  /\ workload \in [Names -> WorkloadRecord]
  /\ queue \subseteq Names
  /\ mirror \in [Names -> MirrorRecord] /\ pass \in PassRecord
  /\ operator = "old" => queue = {} /\ pass = IdlePass /\ \A s \in Names : mirror[s] = IdleMirror

\* The new operator takes over without doing anything again: it changes the host only
\* while no Skyhook is rolling out and the node has not opted out, and only to what is not
\* there yet ("packages are not re-run").  The exception is a node whose legacy state
\* changed under a rolled back operator after it had been adopted: Migrate copies nothing
\* onto a node that has a version under the new prefix.
TakesOver ==
  [][\A s \in Names : operator = "new" /\ node.new'[s] # node.new[s] /\ pass.pc = "work" /\ ~pass.seen[s].deleting =>
       /\ InFlight = {}
       /\ s \in reworked \/ (node.ignore = {} /\ host[s] # pass.seen[s].spec)]_vars

\* The keys that a rolled back operator would read go only when the rollback window of
\* their own NodeWright is over (or there is none): one NodeWright never prunes another's,
\* although all of them are on the same node (ownedByAnnotation).
RollbackKept ==
  [][\A s \in Names : node.old[s] # 0 /\ node.old'[s] = 0 =>
       ~RollbackWindow \/ target[s].stamp = "elapsed"]_vars

\* A NodeWright that has been served does not lose its ConfigMap with the Skyhook that the
\* migration guide has the user delete: the ConfigMap has changed its owner by then.
ConfigMapsFollow ==
  \A s \in served : target[s].here => workload[s].owner # "legacy"

\* The migration ends.  If the new operator stays, and no Skyhook was left in the middle
\* of a rollout, then each NodeWright is applied (unless paused, or the node has opted
\* out), its stamp is gone, and of the old names nothing is left: no keys, labels or pods.
\* A Skyhook that is deleted goes.
Migrated(s) ==
  /\ ~legacy[s].deleting /\ ~target[s].deleting
  /\ target[s].here =>
       /\ target[s].stamp = "none" /\ node.old[s] = 0 /\ ~workload[s].pods
       /\ workload[s].here /\ workload[s].labels = {"new"}
       /\ target[s].paused \/ "new" \in node.ignore \/ node.new[s] = target[s].spec
  /\ legacy[s].here => target[s].here

MigrationCompletes == <>[](operator = "old" \/ InFlight # {} \/ \A s \in Names : Migrated(s))
=============================================================================
