--------------------------- MODULE ConfigUpdates ---------------------------
(***************************************************************************)
(* A change of a package's configMap and its way to the nodes: the owned   *)
(* ConfigMap, the config stage of every node, the interrupts that changed  *)
(* keys ask for, and the metadata ConfigMap of each node.                  *)
(*                                                                         *)
(* One NodeWright with one package.  The stages are apply, config,         *)
(* interrupt, post-interrupt; PackageLifecycle has their Jobs in detail.   *)
(***************************************************************************)
EXTENDS Naturals, FiniteSets

CONSTANTS
  Nodes, InitialMembers, \* all nodes, and those the selector matches at first
  Keys, InterruptKeys,   \* keys of the configMap; those a configInterrupts key matches
  PackageInterrupt,      \* does the package have an interrupt of its own?
  MaxEdits, MaxMoves, MaxFailures, \* bounds: edits, label changes, failed attempts,
  MaxFaults                        \* failed writes and crashes together

ASSUME ConfigAssumption ==
  /\ IsFiniteSet(Nodes) /\ InitialMembers \subseteq Nodes
  /\ IsFiniteSet(Keys) /\ InterruptKeys \subseteq Keys /\ PackageInterrupt \in BOOLEAN
  /\ MaxEdits \in Nat /\ MaxMoves \in Nat /\ MaxFailures \in Nat /\ MaxFaults \in Nat

VARIABLES
  spec,    \* the configMap of the package in the NodeWright
  cm,      \* the data of the owned ConfigMap
  updates, \* status.configUpdates of the package
  members, \* the nodes the selector matches
  entry,   \* the package's entry on each node
  meta,    \* nodes with a metadata ConfigMap
  job,     \* the package's Job on each node, with the data it was started on
  ran,     \* history: the data of the config stage last recorded on each node
  since,   \* history: the data of the install or the last interrupt of each node
  missed,  \* history: nodes an update passed by: not selected when it was recorded, or
           \* with a run on the old data when it was written
  pass, used

vars == <<spec, cm, updates, members, entry, meta, job, ran, since, missed, pass, used>>

NoData == [k \in {} |-> 0]
Data == [Keys -> Nat]
NoEntry == [stage |-> "none", state |-> "none"]
NoJob == [phase |-> "none", stage |-> "none", data |-> NoData]
Entry(stage, state) == [stage |-> stage, state |-> state]
InPhase(j, phase) == [phase |-> phase, stage |-> j.stage, data |-> j.data]
IdlePass == [pc |-> "idle", spec |-> NoData, updates |-> {}, entry |-> [n \in Nodes |-> NoEntry],
             todo |-> {}, changed |-> {}, failed |-> FALSE, config |-> FALSE]

\* The package is installed on the members (PackageLifecycle has how).
Init ==
  LET data == [k \in Keys |-> 0]
      Installed(f, g) == [n \in Nodes |-> IF n \in InitialMembers THEN f ELSE g]
  IN /\ spec = data /\ cm = data /\ updates = {} /\ members = InitialMembers
     /\ entry = Installed(Entry(IF PackageInterrupt THEN "post-interrupt" ELSE "config", "complete"),
                          NoEntry)
     /\ meta = InitialMembers /\ job = [n \in Nodes |-> NoJob]
     /\ ran = Installed(data, NoData) /\ missed = {}
     /\ since = Installed(data, NoData)
     /\ pass = IdlePass
     /\ used = [edits |-> 0, moves |-> 0, failures |-> 0, faults |-> 0]

-----------------------------------------------------------------------------
(***************************************************************************)
(* The node state under the configuration updates in force.                *)
(***************************************************************************)
\* While updates are on record they decide alone; the package's own interrupt counts
\* only when there are none.
HasInterrupt(upd) == IF upd # {} THEN upd \cap InterruptKeys # {} ELSE PackageInterrupt

IsPackageComplete(e, upd) ==
  /\ e.state = "complete"
  /\ e.stage = "post-interrupt" \/ (e.stage = "config" /\ ~HasInterrupt(upd))

NextStage(e, upd) ==
  CASE e.state = "none" -> "apply"
    [] e.state \in {"in_progress", "erroring"} -> e.stage
    [] e.state = "complete" /\ e.stage = "apply" -> "config"
    [] e.state = "complete" /\ e.stage = "config" -> "interrupt"
    [] e.state = "complete" /\ e.stage = "interrupt" -> "post-interrupt"

Unfinished(n) == job[n].phase = "active"

-----------------------------------------------------------------------------
(***************************************************************************)
(* One pass: validateAndUpsertSkyhookData, then the packages.              *)
(***************************************************************************)
\* A Job of a node that left, of another stage than its node's entry, or recorded and
\* no longer the entry's: ValidateRunningPackages removes it and the pass ends.
Stale(n) ==
  /\ job[n].phase # "none"
  /\ \/ n \notin members
     \/ job[n].phase = "active" /\ entry[n].stage # job[n].stage
     \/ job[n].phase = "recorded" /\ entry[n] # Entry(job[n].stage, "complete")

ValidateRunningPackages ==
  /\ pass.pc = "idle" /\ \E n \in Nodes : Stale(n)
  /\ job' = [n \in Nodes |-> IF Stale(n) THEN NoJob ELSE job[n]]
  /\ UNCHANGED <<spec, cm, updates, members, entry, meta, ran, since, missed, pass, used>>

\* Metadata of nodes that are not selected any more; again the pass ends.
ValidateNodeConfigmaps ==
  /\ pass.pc = "idle" /\ ~\E n \in Nodes : Stale(n)
  /\ meta \ members # {}
  /\ meta' = meta \cap members
  /\ UNCHANGED <<spec, cm, updates, members, entry, job, ran, since, missed, pass, used>>

\* The pass reads the NodeWright and its nodes, and compares the ConfigMap.
BeginPass ==
  /\ pass.pc = "idle" /\ ~\E n \in Nodes : Stale(n)
  /\ meta \subseteq members /\ members # {}
  /\ pass' = [IdlePass EXCEPT !.pc = IF cm = spec THEN "run" ELSE "config", !.spec = spec,
                              !.updates = updates, !.entry = entry, !.todo = members]
  /\ UNCHANGED <<spec, cm, updates, members, entry, meta, job, ran, since, missed, used>>

\* Mutant: nodes the selector does not match are waited for too.
AllDoneEverywhere == \A n \in Nodes : ~Unfinished(n) /\ IsPackageComplete(pass.entry[n], pass.updates)

AllDone == \A n \in members : ~Unfinished(n) /\ IsPackageComplete(pass.entry[n], pass.updates)

Erroring(n) ==
  /\ n \in members /\ pass.entry[n].state = "erroring"
  /\ pass.entry[n].stage \in {"config", "interrupt", "post-interrupt"}

ChangedKeys == {k \in DOMAIN pass.spec : k \notin DOMAIN cm \/ pass.spec[k] # cm[k]}

\* Mutant: the keys of an update that is not finished are forgotten.
ConfigUpdatesOfThisChange == ChangedKeys

\* RemoveConfigUpdates if the last update is finished, then AddConfigUpdates.
NewConfigUpdates == (IF AllDone THEN {} ELSE pass.updates) \cup ChangedKeys

\* The gate of a changed configMap: every node done, or one failing after the apply.  The
\* failing nodes' executors are deleted; every node starts over at config.
HandleConfigUpdates ==
  /\ pass.pc = "config"
  /\ job' = [n \in Nodes |-> IF Erroring(n) /\ Unfinished(n) THEN NoJob ELSE job[n]]
  /\ pass' = IF AllDone \/ \E n \in members : Erroring(n)
             THEN [pass EXCEPT !.pc = "save", !.updates = NewConfigUpdates, !.config = TRUE,
                     !.changed = members,
                     !.entry = [n \in Nodes |-> IF n \in members THEN Entry("config", "in_progress")
                                                ELSE pass.entry[n]]]
             ELSE [pass EXCEPT !.pc = "run"]
  /\ UNCHANGED <<spec, cm, updates, members, entry, meta, ran, since, missed, used>>

Fails == used.faults < MaxFaults /\ used' = [used EXCEPT !.faults = @ + 1]

\* SaveNodesAndSkyhook: every node the pass changed, with its metadata ConfigMap.
SaveNode(n) ==
  /\ pass.pc = "save" /\ n \in pass.changed
  /\ \/ /\ entry' = [entry EXCEPT ![n] = pass.entry[n]]
        /\ meta' = meta \cup {n}
        /\ pass' = [pass EXCEPT !.changed = @ \ {n}]
        /\ UNCHANGED used
     \/ /\ Fails
        /\ pass' = [pass EXCEPT !.changed = @ \ {n}, !.failed = TRUE]
        /\ UNCHANGED <<entry, meta>>
  /\ UNCHANGED <<spec, cm, updates, members, job, ran, since, missed>>

\* The nodes that left before an update was recorded.
LeftOut == {n \in Nodes \ members : entry[n] # NoEntry}

\* Mutant: a node that could not be saved does not stop the update.
SaveStatusAnyway ==
  /\ pass.pc = "save" /\ pass.changed = {}
  /\ updates' = pass.updates
  /\ IF pass.config
     THEN pass' = [pass EXCEPT !.pc = "update"] /\ missed' = missed \cup LeftOut
     ELSE pass' = IdlePass /\ UNCHANGED missed
  /\ UNCHANGED <<spec, cm, members, entry, meta, job, ran, since, used>>

\* The status follows when no node failed.
SaveStatus ==
  /\ pass.pc = "save" /\ pass.changed = {}
  /\ updates' = IF pass.failed THEN updates ELSE pass.updates
  /\ IF pass.config /\ ~pass.failed
     THEN pass' = [pass EXCEPT !.pc = "update"] /\ missed' = missed \cup LeftOut
     ELSE pass' = IdlePass /\ UNCHANGED missed
  /\ UNCHANGED <<spec, cm, members, entry, meta, job, ran, since, used>>

\* A config stage on the old data that is, or will be, taken for one on the new.
HasOldRun(n) ==
  /\ job[n].stage = "config"
  /\ job[n].phase \in {"active", "finished"} \/ entry[n] = Entry("config", "complete")

\* Last of all the ConfigMap; the pass ends.
UpdateConfigMap ==
  /\ pass.pc = "update"
  /\ \/ /\ cm' = pass.spec
        /\ missed' = missed \cup {n \in Nodes : HasOldRun(n)}
        /\ UNCHANGED used
     \/ Fails /\ UNCHANGED <<cm, missed>>
  /\ pass' = IdlePass
  /\ UNCHANGED <<spec, updates, members, entry, meta, job, ran, since>>

\* RunSkyhookPackages on one node: a Job of the next stage, unless one is there; a
\* recorded Job of the same stage makes room first.
RunNode(n) ==
  LET stage == NextStage(pass.entry[n], pass.updates)
      started == [phase |-> "active", stage |-> stage, data |-> cm]
      visited == [pass EXCEPT !.todo = @ \ {n}]
  IN /\ pass.pc = "run" /\ n \in pass.todo
     /\ \/ /\ \/ IsPackageComplete(pass.entry[n], pass.updates)
              \/ job[n].phase \in {"active", "finished"}
           /\ pass' = visited /\ UNCHANGED job
        \/ /\ ~IsPackageComplete(pass.entry[n], pass.updates)
           /\ job[n].phase = "recorded" /\ job[n].stage = stage
           /\ pass' = visited /\ job' = [job EXCEPT ![n] = NoJob]
        \/ /\ ~IsPackageComplete(pass.entry[n], pass.updates)
           /\ job[n].phase = "none" \/ (job[n].phase = "recorded" /\ job[n].stage # stage)
           /\ job' = [job EXCEPT ![n] = started]
           /\ pass' = [visited EXCEPT !.entry = [pass.entry EXCEPT ![n] = Entry(stage, "in_progress")],
                         !.changed = IF pass.entry[n] = Entry(stage, "in_progress") THEN @ ELSE @ \cup {n}]
     /\ UNCHANGED <<spec, cm, updates, members, entry, meta, ran, since, missed, used>>

RunEnds ==
  /\ pass.pc = "run" /\ pass.todo = {}
  /\ pass' = IF pass.changed = {} THEN IdlePass ELSE [pass EXCEPT !.pc = "save"]
  /\ UNCHANGED <<spec, cm, updates, members, entry, meta, job, ran, since, missed, used>>

Reconcile ==
  \/ ValidateRunningPackages \/ ValidateNodeConfigmaps \/ BeginPass \/ HandleConfigUpdates
  \/ SaveStatus \/ UpdateConfigMap \/ RunEnds \/ \E n \in Nodes : SaveNode(n) \/ RunNode(n)

Crash ==
  /\ pass.pc # "idle" /\ Fails
  /\ pass' = IdlePass
  /\ UNCHANGED <<spec, cm, updates, members, entry, meta, job, ran, since, missed>>

-----------------------------------------------------------------------------
(***************************************************************************)
(* Jobs, users and nodes.                                                  *)
(***************************************************************************)
Open(n) == entry[n].stage = job[n].stage /\ entry[n].state \in {"in_progress", "erroring"}

JobFinishes(n) ==
  /\ job[n].phase = "active"
  /\ job' = [job EXCEPT ![n] = InPhase(job[n], "finished")]
  /\ UNCHANGED <<spec, cm, updates, members, entry, meta, ran, since, missed, pass, used>>

\* A failed attempt is recorded while the Job goes on to the next one.
AttemptFails(n) ==
  /\ job[n].phase = "active" /\ Open(n) /\ used.failures < MaxFailures
  /\ entry' = [entry EXCEPT ![n] = Entry(entry[n].stage, "erroring")]
  /\ used' = [used EXCEPT !.failures = @ + 1]
  /\ UNCHANGED <<spec, cm, updates, members, meta, job, ran, since, missed, pass>>

JobRecorded(n) ==
  LET stage == job[n].stage IN
  /\ job[n].phase = "finished"
  /\ job' = [job EXCEPT ![n] = InPhase(job[n], "recorded")]
  /\ IF Open(n)
     THEN /\ entry' = [entry EXCEPT ![n] = Entry(stage, "complete")]
          /\ ran' = IF stage = "config" THEN [ran EXCEPT ![n] = job[n].data] ELSE ran
          /\ since' = IF stage = "interrupt" THEN [since EXCEPT ![n] = ran[n]]
                     ELSE IF stage = "config" /\ ran[n] = NoData
                            THEN [since EXCEPT ![n] = job[n].data]
                     ELSE since
     ELSE UNCHANGED <<entry, ran, since>>
  /\ UNCHANGED <<spec, cm, updates, members, meta, missed, pass, used>>

Edit(k) ==
  /\ used.edits < MaxEdits
  /\ spec' = [spec EXCEPT ![k] = @ + 1]
  /\ used' = [used EXCEPT !.edits = @ + 1]
  /\ UNCHANGED <<cm, updates, members, entry, meta, job, ran, since, missed, pass>>

\* A node's labels change between passes; its annotations stay.
Move(n) ==
  /\ used.moves < MaxMoves /\ pass.pc = "idle"
  /\ members' = IF n \in members THEN members \ {n} ELSE members \cup {n}
  /\ used' = [used EXCEPT !.moves = @ + 1]
  /\ UNCHANGED <<spec, cm, updates, entry, meta, job, ran, since, missed, pass>>

Next ==
  \/ Reconcile \/ Crash \/ \E k \in Keys : Edit(k)
  \/ \E n \in Nodes : JobFinishes(n) \/ AttemptFails(n) \/ JobRecorded(n) \/ Move(n)

Spec == Init /\ [][Next]_vars

\* The operator keeps reconciling and Jobs end and are recorded.
FairSpec ==
  Spec /\ WF_vars(Reconcile) /\ \A n \in Nodes : WF_vars(JobFinishes(n)) /\ WF_vars(JobRecorded(n))

-----------------------------------------------------------------------------
(***************************************************************************)
(* Properties.                                                             *)
(***************************************************************************)
States == {"in_progress", "erroring", "complete"}
Stages == {"apply", "config", "interrupt", "post-interrupt"}

EntryType == [stage: Stages, state: States] \cup {NoEntry}
JobType == [phase: {"active", "finished", "recorded"}, stage: Stages, data: Data] \cup {NoJob}
PassType == [pc: {"idle", "config", "save", "update", "run"}, spec: Data \cup {NoData},
             updates: SUBSET Keys, entry: [Nodes -> EntryType], todo: SUBSET Nodes,
             changed: SUBSET Nodes, failed: BOOLEAN, config: BOOLEAN]

TypeOK ==
  /\ spec \in Data /\ cm \in Data /\ updates \in SUBSET Keys /\ members \in SUBSET Nodes
  /\ entry \in [Nodes -> EntryType] /\ job \in [Nodes -> JobType]
  /\ meta \in SUBSET Nodes /\ missed \in SUBSET Nodes
  /\ ran \in [Nodes -> Data \cup {NoData}] /\ since \in [Nodes -> Data \cup {NoData}]
  /\ pass \in PassType /\ used \in [edits: Nat, moves: Nat, failures: Nat, faults: Nat]

Complete(n) == IsPackageComplete(entry[n], updates)

\* A node that is complete was configured with the data the ConfigMap holds, unless the
\* update passed it by: the nodes are sent back to config before the ConfigMap is written,
\* over crashes and failed writes in between (HandleConfigUpdates).
CompleteIsConfigured == \A n \in members \ missed : Complete(n) => ran[n] = cm

\* A node that is complete was interrupted after the last change of a key that asks for an
\* interrupt, however many updates were merged on the way (AddConfigUpdates).
InterruptedForKeys ==
  \A n \in members \ missed : Complete(n) =>
    \A k \in InterruptKeys : since[n][k] = ran[n][k]

\* The last edit reaches the ConfigMap and every node (a deferred update is not lost).
EditsReachNodes ==
  <>[](members # {} => cm = spec /\ \A n \in members : Complete(n) /\ (n \in missed \/ ran[n] = spec))
=============================================================================
