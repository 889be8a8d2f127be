------------------------------ MODULE Rollout ------------------------------
(***************************************************************************)
(* The rollout of one NodeWright over several nodes (cluster_state_v2.go,  *)
(* compartment.go, and the parts of skyhook_controller.go that call them): *)
(* which nodes a pass works on, what it makes of their statuses, when a    *)
(* batch is over and how it is scored.                                     *)
(*                                                                         *)
(* PackageLifecycle has the life of the packages on one node in full.      *)
(* Here a node's packages are a number of stages that run one after the    *)
(* other, and a finished Job is recorded in one step; what matters is the  *)
(* status of the node, which three controllers write, and the status of    *)
(* the NodeWright, of which a pass saves its own copy at its end.          *)
(***************************************************************************)
EXTENDS DeploymentPolicy

CONSTANTS
  Nodes, Rank,      \* the nodes, and their order by creation time (and name)
  Stages,           \* stages a node goes through
  Compartments,     \* named compartments of the policy, without the default one
  CompartmentRank,  \* their order by name
  Strategy, Budget, \* by compartment, the default one included
  HasPolicy,        \* does the NodeWright name a DeploymentPolicy?
  ResetOnCompletion,\* resetBatchStateOnCompletion
  Labels,           \* Labels[n]: the compartments whose selector n matches
  InitialMembers,   \* the nodes there are at first
  EditKinds,        \* the edits and cluster events of this instance
  MaxEdits, MaxFailures, MaxCrashes \* bounds

DefaultCompartment == "__default__"
AllCompartments == Compartments \cup {DefaultCompartment}
Kinds == {"version", "pause", "disable", "ignore", "taint", "relabel", "policy", "leave", "join"}
Statuses == {"unknown", "waiting", "in_progress", "erroring", "blocked", "complete",
             "paused", "disabled"}

ASSUME NodesAssumption ==
  /\ IsFiniteSet(Nodes) /\ Stages \in Nat \ {0}
  /\ Rank \in [Nodes -> Nat] /\ \A m, n \in Nodes : Rank[m] = Rank[n] => m = n
  /\ InitialMembers \subseteq Nodes
ASSUME CompartmentsAssumption ==
  /\ DefaultCompartment \notin Compartments
  /\ CompartmentRank \in [Compartments -> Nat]
  /\ \A c, d \in Compartments : CompartmentRank[c] = CompartmentRank[d] => c = d
  /\ Labels \in [Nodes -> SUBSET Compartments]
  /\ \A c \in AllCompartments : ValidStrategy(Strategy[c]) /\ ValidBudget(Budget[c])
ASSUME RolloutBoundsAssumption ==
  /\ HasPolicy \in BOOLEAN /\ ResetOnCompletion \in BOOLEAN /\ EditKinds \subseteq Kinds
  /\ MaxEdits \in Nat /\ MaxFailures \in Nat /\ MaxCrashes \in Nat

VARIABLES
  mode,     \* "run", or the pause / disable annotation
  policy,   \* is the DeploymentPolicy there?
  cluster,  \* the nodes that exist and match, their labels, and what holds them
  node,     \* the NodeWright's annotations on each node
  job,      \* the Job of each node
  cr,       \* the NodeWright's status
  pass,     \* the pass in progress
  orders,   \* history: <<node, order>> for the Jobs created since the last version edit
  used      \* how much of each bound is spent

vars == <<mode, policy, cluster, node, job, cr, pass, orders, used>>

\* A node's annotations: its status, the entry of the current version (the last stage
\* begun and its state), and whether an entry of an older version is there.
BlankNode == [status |-> "unknown", stage |-> 0, state |-> "none", old |-> FALSE]
NoJob == [phase |-> "none", stage |-> 0]
BlankStatus ==
  [status |-> "unknown", prio |-> [n \in Nodes |-> 0], offset |-> 0,
   batch |-> [c \in AllCompartments |-> NoBatch]]
IdlePass == [pc |-> "idle", snap |-> [n \in Nodes |-> BlankNode], todo |-> {},
             mem |-> [node |-> [n \in Nodes |-> BlankNode], comp |-> [n \in Nodes |-> "none"],
                      cr |-> BlankStatus,
                      batch |-> [c \in AllCompartments |-> NoBatch]]]

Init ==
  /\ mode = "run" /\ policy = HasPolicy
  /\ cluster = [members |-> InitialMembers, labels |-> Labels,
                held |-> [n \in Nodes |-> "none"]]
  /\ node = [n \in Nodes |-> BlankNode]
  /\ job = [n \in Nodes |-> NoJob]
  /\ cr = BlankStatus
  /\ pass = IdlePass
  /\ orders = {}
  /\ used = [edits |-> 0, failures |-> 0, crashes |-> 0]

-----------------------------------------------------------------------------
(***************************************************************************)
(* BuildState: compartments, their nodes and their batch states.           *)
(***************************************************************************)

\* A policy that cannot be found leaves the NodeWright without compartments.
CurrentCompartments ==
  IF ~HasPolicy THEN {DefaultCompartment} ELSE IF policy THEN AllCompartments ELSE {}

StrategyOf(c) ==
  IF HasPolicy THEN Default(Strategy[c])
  ELSE CreateLegacyDefaultStrategy(Budget[c], Cardinality(cluster.members))

MatchedNodes(c) == {n \in cluster.members : c \in cluster.labels[n]}

AssignNodeToCompartment(n) ==
  LET matches == {[type |-> Strategy[c].type, rank |-> CompartmentRank[c], name |-> c,
                   capacity |-> CalculateCeiling(Budget[c], Maximum(1, Cardinality(MatchedNodes(c))))]
                  : c \in cluster.labels[n] \cap CurrentCompartments}
  IN IF matches = {} THEN DefaultCompartment ELSE SafestMatch(matches).name

Assignment == [n \in Nodes |-> IF n \in cluster.members /\ CurrentCompartments # {}
                                 THEN AssignNodeToCompartment(n) ELSE "none"]

\* The batch states as NewCompartmentWrapper loads them.
LoadedBatches(status) ==
  [c \in AllCompartments |->
     IF c \in CurrentCompartments /\ status.batch[c] = NoBatch THEN FreshBatch
     ELSE status.batch[c]]

\* A pass works on a copy: the nodes and their compartments, the status, and the batch
\* states, which reach the status only when a batch is scored or reported.
Copy == [node |-> node, comp |-> Assignment, cr |-> cr, batch |-> LoadedBatches(cr)]

NodesOf(w, c) == {n \in cluster.members : w.comp[n] = c}

\* F(w), with w computed once: TLC would otherwise compute it at every use in F.
Then(w, F(_)) == CHOOSE result \in {F(v) : v \in {w}} : result = result

IsComplete(nd) == nd.stage = Stages /\ nd.state = "complete"
AllComplete(w) == \A n \in cluster.members : IsComplete(w.node[n])
SetNodeStatus(w, n, s) == [w EXCEPT !.node[n].status = s]
StatusIs(w, c, s) == {n \in NodesOf(w, c) : w.node[n].status = s}

\* What a Status report stores for the batch state of a compartment.
StoredBatch(c, bs) == IF StrategyOf(c).type = "none" THEN NoBatch ELSE bs

-----------------------------------------------------------------------------
(***************************************************************************)
(* Node priority: the position of each node that was picked and is not yet *)
(* complete, in the order of the picks, which their timestamps and names   *)
(* give; 0 for the others.  The offset counts those removed.               *)
(***************************************************************************)
InPrio(w, n) == w.cr.prio[n] > 0
Picks(w) == {n \in Nodes : InPrio(w, n)}

\* Those that stay move up by the number removed before them.
WithoutPicks(w, S) ==
  [n \in Nodes |-> IF n \in S THEN 0 ELSE
     w.cr.prio[n] - Cardinality({m \in Picks(w) \cap S : w.cr.prio[m] < w.cr.prio[n]})]

\* Mutant: a node that is removed does not move the positions of the others on.
RemoveNodeOnly(w, S) == [w EXCEPT !.cr.prio = WithoutPicks(w, S)]

RemoveNodePriority(w, S) ==
  [w EXCEPT !.cr.prio = WithoutPicks(w, S),
            !.cr.offset = @ + Cardinality(Picks(w) \cap S)]

PruneCompletedNodePriorities(w) ==
  RemoveNodePriority(w, {n \in cluster.members : w.node[n].status = "complete"})

\* The new ones of S come after all others, in rank order.
UpsertPick(w, S) ==
  LET new == S \ Picks(w) IN
  [w EXCEPT !.cr.prio = [n \in Nodes |->
     IF n \in new THEN Cardinality(Picks(w)) + Cardinality({m \in new : Rank[m] <= Rank[n]})
     ELSE @[n]]]

NodeOrder(w, n) == IF InPrio(w, n) THEN w.cr.offset + w.cr.prio[n] - 1 ELSE 0

-----------------------------------------------------------------------------
(***************************************************************************)
(* IntrospectSkyhook: statuses of the nodes and of the NodeWright, and the *)
(* evaluation of batches that are over.                                    *)
(***************************************************************************)
CollectNodeStatus(w) ==
  LET rest == {n \in cluster.members : ~IsComplete(w.node[n])}
      All(s) == \A n \in rest : w.node[n].status = s
  IN CASE rest = {} -> "complete"
       [] rest # {} /\ \E n \in rest : w.node[n].status = "in_progress" -> "in_progress"
       [] rest # {} /\ All("erroring") -> "erroring"
       [] rest # {} /\ All("blocked") -> "blocked"
       [] rest # {} /\ All("waiting") -> "waiting"
       [] OTHER -> "unknown"

NodeWrightStatus(w) ==
  LET collected == CollectNodeStatus(w)
      missing == HasPolicy /\ ~policy
  IN CASE collected # "complete" /\ mode = "disable" -> "disabled"
       [] collected # "complete" /\ mode = "pause" -> "paused"
       [] missing /\ (collected = "complete" \/ mode = "run") -> "blocked"
       [] OTHER -> collected

\* resetSkyhookBatchState: the stored states and the pass's own.
ResetBatches(w) ==
  IF ~ResetOnCompletion THEN w ELSE
  [w EXCEPT !.cr.batch = [c \in AllCompartments |-> IF @[c] = NoBatch THEN NoBatch ELSE FreshBatch],
            !.batch = [c \in AllCompartments |-> FreshBatch]]

SetStatus(w, s) ==
  LET set == [w EXCEPT !.cr.status = s]
  IN IF w.cr.status # "complete" /\ s = "complete" THEN ResetBatches(set) ELSE set

IntrospectNode(w, n) ==
  LET nd == w.node[n] IN
  CASE w.cr.status \in {"paused", "disabled"} -> w.cr.status
    [] w.cr.status \notin {"paused", "disabled"} /\ ~IsComplete(nd) /\ cluster.held[n] = "ignore" ->
         "blocked"
    [] w.cr.status \notin {"paused", "disabled"} /\ IsComplete(nd) -> "complete"
    [] OTHER ->
         CASE nd.status \in {"paused", "disabled", "waiting"} ->
                IF CurrentCompartments = {} THEN "unknown" ELSE "waiting"
           [] nd.status = "unknown" /\ CurrentCompartments # {} -> "waiting"
           [] nd.status = "complete" -> "unknown"
           [] OTHER -> nd.status

IntrospectNodes(w) ==
  [w EXCEPT !.node = [n \in Nodes |-> IF n \in cluster.members
                                        THEN [@[n] EXCEPT !.status = IntrospectNode(w, n)] ELSE @[n]]]

\* What EvaluateCurrentBatch makes of compartment c.
BatchResult(w, c) ==
  LET completed == {n \in NodesOf(w, c) : IsComplete(w.node[n])} IN
  EvaluateCurrentBatch(w.batch[c], Cardinality(StatusIs(w, c, "in_progress")),
                       Cardinality(completed), Cardinality(StatusIs(w, c, "erroring") \ completed))

Scored(w) ==
  IF w.cr.status = "complete" THEN {}
  ELSE {c \in CurrentCompartments : BatchResult(w, c).scored}

EvaluateCompletedBatches(w) ==
  IF w.cr.status = "complete" THEN w ELSE
  LET After(c) ==
        LET r == BatchResult(w, c) IN
        IF r.scored
          THEN EvaluateBatchResult(StrategyOf(c), r.bs, r.ok, r.bad, Cardinality(NodesOf(w, c)))
          ELSE r.bs
      batches == [c \in AllCompartments |-> IF c \in CurrentCompartments THEN After(c) ELSE w.batch[c]]
  IN [w EXCEPT !.batch = batches,
               !.cr.batch = [c \in AllCompartments |->
                               IF c \in Scored(w) THEN StoredBatch(c, batches[c]) ELSE @[c]]]

BeforeEvaluation(w) ==
  Then(Then(Then(w, LAMBDA v : SetStatus(v, NodeWrightStatus(v))), IntrospectNodes),
       PruneCompletedNodePriorities)
Introspect(w) == Then(BeforeEvaluation(w), EvaluateCompletedBatches)

\* Scoring a batch always counts as a change, whether or not the status differs.
Introspected(w) ==
  \/ \E v \in {Introspect(w)} : v.node # w.node \/ v.cr # w.cr
  \/ \E v \in {BeforeEvaluation(w)} : Scored(v) # {}

-----------------------------------------------------------------------------
(***************************************************************************)
(* The rest of a pass before it runs anything.                             *)
(***************************************************************************)

\* ReportState, with CleanupRemovedNodes and the statuses of the compartments.
ReportState(w) ==
  [RemoveNodePriority(w, Nodes \ cluster.members) EXCEPT
     !.cr.batch = [c \in AllCompartments |->
                     IF c \in CurrentCompartments THEN StoredBatch(c, w.batch[c]) ELSE NoBatch]]

UpdateSkyhookPauseStatus(w) ==
  [w EXCEPT !.cr.status = "paused",
            !.node = [n \in Nodes |-> IF n \in cluster.members
                                        THEN [@[n] EXCEPT !.status = "paused"] ELSE @[n]]]

\* Every node with an entry of an older version starts the upgrade, selected or not,
\* and as long as there is one the batch states are reset.
HandleVersionChange(w) ==
  LET outdated == {n \in cluster.members : w.node[n].old}
      begun == [w EXCEPT !.node = [n \in Nodes |->
                  IF n \in outdated /\ w.node[n].stage = 0
                    THEN [@[n] EXCEPT !.status = "in_progress", !.stage = 1, !.state = "in_progress"]
                    ELSE @[n]]]
  IN IF outdated = {} THEN w ELSE ResetBatches(begun)

Eligible(n) == cluster.held[n] = "none"

\* The first k nodes of S: by status, then by rank.
PickOrder(status) ==
  CASE status = "waiting" -> 1 [] status = "unknown" -> 2
    [] status = "blocked" -> 3 [] status = "erroring" -> 4 [] OTHER -> 9
Earlier(w, m, n) ==
  \/ PickOrder(w.node[m].status) < PickOrder(w.node[n].status)
  \/ PickOrder(w.node[m].status) = PickOrder(w.node[n].status) /\ Rank[m] < Rank[n]
FirstOf(w, S, k) == {n \in S : Cardinality({m \in S : Earlier(w, m, n)}) < k}

CreateNewBatch(w, c) ==
  LET total == Cardinality(NodesOf(w, c))
      s == StrategyOf(c)
      size == IF s.type = "none" THEN CalculateCeiling(Budget[c], total)
              ELSE CalculateBatchSize(s, total, w.batch[c])
  IN FirstOf(w, {n \in NodesOf(w, c) : /\ ~IsComplete(w.node[n]) /\ Eligible(n)
                                    /\ PickOrder(w.node[n].status) < 9}, size)

\* Mutant: nodes already picked are not finished before others are picked.
NextBatchNotSticky(w, c) ==
  LET running == {n \in StatusIs(w, c, "in_progress") : Eligible(n)} IN
  IF StrategyOf(c).type # "none" /\ w.batch[c].stop THEN {}
  ELSE IF running # {} THEN running ELSE CreateNewBatch(w, c)

\* Mutant: a stopped compartment goes on.
NextBatchNeverStops(w, c) ==
  LET running == {n \in StatusIs(w, c, "in_progress") : Eligible(n)}
      sticky == {n \in NodesOf(w, c) : InPrio(w, n) /\ ~IsComplete(w.node[n]) /\ Eligible(n)}
  IN IF running # {} THEN running ELSE IF sticky # {} THEN sticky ELSE CreateNewBatch(w, c)

GetNodesForNextBatch(w, c) ==
  LET running == {n \in StatusIs(w, c, "in_progress") : Eligible(n)}
      sticky == {n \in NodesOf(w, c) : InPrio(w, n) /\ ~IsComplete(w.node[n]) /\ Eligible(n)}
  IN CASE StrategyOf(c).type # "none" /\ w.batch[c].stop -> {}
       [] OTHER -> IF running # {} THEN running
                   ELSE IF sticky # {} THEN sticky ELSE CreateNewBatch(w, c)

\* SelectNodes, first half: nodes that cannot be worked on are blocked.
BlockIneligible(w) ==
  [w EXCEPT !.node = [n \in Nodes |->
     IF n \in cluster.members /\ CurrentCompartments # {} /\ ~Eligible(n) /\ ~IsComplete(w.node[n])
       THEN [@[n] EXCEPT !.status = "blocked"] ELSE @[n]]]

SelectNodes(w) == UNION {GetNodesForNextBatch(w, c) : c \in CurrentCompartments}

-----------------------------------------------------------------------------
(***************************************************************************)
(* The pass.                                                               *)
(***************************************************************************)
Save(w) == pass' = [pc |-> "save", snap |-> node, mem |-> w, todo |-> cluster.members]

\* ReportState saves and returns when something it reports has changed.
PassReports ==
  /\ pass.pc = "idle" /\ cluster.members # {}
  /\ ReportState(Copy).cr # cr
  /\ Save(ReportState(Copy))
  /\ UNCHANGED <<mode, policy, cluster, node, job, cr, orders, used>>

Reported == pass.pc = "idle" /\ cluster.members # {} /\ ReportState(Copy).cr = cr

\* A paused NodeWright: its unfinished Jobs are suspended, and all nodes are paused.
PassPauses ==
  /\ Reported /\ mode = "pause"
  /\ UpdateSkyhookPauseStatus(Copy) # Copy \/ \E n \in Nodes : job[n].phase = "active"
  /\ job' = [n \in Nodes |-> IF job[n].phase = "active" THEN [job[n] EXCEPT !.phase = "suspended"]
                             ELSE job[n]]
  /\ IF UpdateSkyhookPauseStatus(Copy) # Copy THEN Save(UpdateSkyhookPauseStatus(Copy))
     ELSE UNCHANGED pass
  /\ UNCHANGED <<mode, policy, cluster, node, cr, orders, used>>

\* The Jobs of a disabled NodeWright are not resumed.
ResumedJobs ==
  IF mode # "run" THEN job
  ELSE [n \in Nodes |-> IF job[n].phase = "suspended" THEN [job[n] EXCEPT !.phase = "active"]
                        ELSE job[n]]

\* The pass ends early when introspection changed something.
PassIntrospects ==
  /\ Reported /\ mode # "pause"
  /\ Introspected(Copy)
  /\ job' = ResumedJobs
  /\ Save(Introspect(Copy))
  /\ UNCHANGED <<mode, policy, cluster, node, cr, orders, used>>

\* RunSkyhookPackages up to the loop over the selected nodes.
Prepare(w) ==
  Then(Then(Then(Then(w, HandleVersionChange), Introspect), PruneCompletedNodePriorities),
       BlockIneligible)

PassSelects ==
  /\ Reported /\ mode = "run"
  /\ ~Introspected(Copy)
  /\ \E checked \in {Then(Then(Copy, Introspect), HandleVersionChange)} :
       /\ ~AllComplete(checked)
       /\ \E ready \in {Prepare(checked)} : \E selected \in {SelectNodes(ready)} :
            pass' = [pc |-> "run", snap |-> node, mem |-> UpsertPick(ready, selected),
                     todo |-> selected]
  /\ job' = ResumedJobs
  /\ UNCHANGED <<mode, policy, cluster, node, cr, orders, used>>

\* The next node of each compartment, in the order of its nodes.
NextOf(w, S) == {n \in S : \A m \in S : w.comp[m] = w.comp[n] => Rank[n] <= Rank[m]}

NextStage(nd) == IF nd.state \in {"none", "complete"} THEN nd.stage + 1 ELSE nd.stage

\* ApplyPackage on the pass's copy of the node: an unfinished Job is left alone; a failed
\* one absorbs the attempt while the entry is erroring; any other finished Job of this
\* stage is deleted, for a later pass to create; without one it is created.
RunNode(n) ==
  LET w == pass.mem
      stage == NextStage(w.node[n])
  IN /\ pass.pc = "run" /\ n \in NextOf(w, pass.todo)
     /\ IF /\ n \in cluster.members /\ ~IsComplete(w.node[n])
           /\ job[n].phase = "none" \/ (job[n].phase = "succeeded" /\ job[n].stage # stage)
          THEN /\ job' = [job EXCEPT ![n] = [phase |-> "active", stage |-> stage]]
               /\ orders' = orders \cup {<<n, NodeOrder(w, n)>>}
               /\ pass' = [pass EXCEPT !.todo = @ \ {n},
                             !.mem.node[n] = [@ EXCEPT !.status = "in_progress",
                                                       !.stage = stage, !.state = "in_progress"]]
          ELSE /\ pass' = [pass EXCEPT !.todo = @ \ {n}]
               /\ job' = IF \/ job[n].phase = "failed" /\ w.node[n].state # "erroring"
                            \/ job[n].phase = "succeeded" /\ ~IsComplete(w.node[n])
                           THEN [job EXCEPT ![n] = NoJob] ELSE job
               /\ UNCHANGED orders
     /\ UNCHANGED <<mode, policy, cluster, node, cr, used>>

RunEnds ==
  /\ pass.pc = "run" /\ pass.todo = {}
  /\ pass' = [pass EXCEPT !.pc = "save", !.todo = cluster.members]
  /\ UNCHANGED <<mode, policy, cluster, node, job, cr, orders, used>>

\* Only what the pass changed is written: the status, and the current version's entry.
SavedNode(n) ==
  LET before == pass.snap[n] after == pass.mem.node[n] IN
  [node[n] EXCEPT !.status = IF before.status = after.status THEN @ ELSE after.status,
                  !.stage = IF before.stage = after.stage /\ before.state = after.state
                              THEN @ ELSE after.stage,
                  !.state = IF before.stage = after.stage /\ before.state = after.state
                              THEN @ ELSE after.state]

SaveNode(n) ==
  LET changed == pass.snap[n] # pass.mem.node[n]
      after == IF changed /\ n \in cluster.members THEN SavedNode(n) ELSE node[n]
  IN /\ pass.pc = "save" /\ n \in pass.todo
     /\ \A m \in pass.todo : Rank[n] <= Rank[m]
     /\ node' = [node EXCEPT ![n] = after]
     /\ pass' = [pass EXCEPT !.todo = @ \ {n},
                   !.mem = IF changed /\ IsComplete(after) THEN RemoveNodePriority(@, {n}) ELSE @]
     /\ UNCHANGED <<mode, policy, cluster, job, cr, orders, used>>

SaveStatus ==
  /\ pass.pc = "save" /\ pass.todo = {}
  /\ cr' = pass.mem.cr
  /\ pass' = IdlePass
  /\ UNCHANGED <<mode, policy, cluster, node, job, orders, used>>

Pass ==
  \/ PassReports \/ PassPauses \/ PassIntrospects \/ PassSelects \/ RunEnds \/ SaveStatus
  \/ \E n \in Nodes : RunNode(n) \/ SaveNode(n)

Crash ==
  /\ used.crashes < MaxCrashes /\ pass.pc # "idle"
  /\ pass' = IdlePass
  /\ used' = [used EXCEPT !.crashes = @ + 1]
  /\ UNCHANGED <<mode, policy, cluster, node, job, cr, orders>>

-----------------------------------------------------------------------------
(***************************************************************************)
(* Jobs, and the two controllers that record what becomes of them.  A      *)
(* result is recorded only on an entry that is open at the Job's stage; a  *)
(* Job without one is deleted by the sweep, and its stage runs again.      *)
(***************************************************************************)
EntryOpen(n) == node[n].stage = job[n].stage /\ node[n].state \in {"in_progress", "erroring"}

JobSucceeds(n) ==
  /\ job[n].phase = "active"
  /\ job' = [job EXCEPT ![n] = IF EntryOpen(n) THEN [@ EXCEPT !.phase = "succeeded"] ELSE NoJob]
  /\ node' = IF EntryOpen(n)
               THEN [node EXCEPT ![n] = [@ EXCEPT !.state = "complete", !.old = FALSE]] ELSE node
  /\ UNCHANGED <<mode, policy, cluster, cr, pass, orders, used>>

RecordErroring(n) ==
  node' = IF EntryOpen(n)
            THEN [node EXCEPT ![n] = [@ EXCEPT !.state = "erroring", !.status = "erroring"]] ELSE node

\* An attempt fails and will be retried; the Pod watch records it.
AttemptFails(n) ==
  /\ job[n].phase = "active" /\ used.failures < MaxFailures
  /\ RecordErroring(n)
  /\ used' = [used EXCEPT !.failures = @ + 1]
  /\ UNCHANGED <<mode, policy, cluster, job, cr, pass, orders>>

\* The Job has no attempts left.  It stays until its TTL, unless nothing was recorded.
JobFails(n) ==
  /\ job[n].phase = "active" /\ used.failures < MaxFailures
  /\ RecordErroring(n)
  /\ job' = [job EXCEPT ![n] = IF EntryOpen(n) THEN [@ EXCEPT !.phase = "failed"] ELSE NoJob]
  /\ used' = [used EXCEPT !.failures = @ + 1]
  /\ UNCHANGED <<mode, policy, cluster, cr, pass, orders>>

JobExpires(n) ==
  /\ job[n].phase = "failed"
  /\ job' = [job EXCEPT ![n] = NoJob]
  /\ UNCHANGED <<mode, policy, cluster, node, cr, pass, orders, used>>

-----------------------------------------------------------------------------
(***************************************************************************)
(* Users and the cluster.  What a pass reads only once, at its start, is   *)
(* edited between passes: an edit during one comes to the same.            *)
(***************************************************************************)
Edit(kind) ==
  /\ kind \in EditKinds /\ used.edits < MaxEdits
  /\ used' = [used EXCEPT !.edits = @ + 1]

\* A new version: entries become entries of an older version, and the Jobs that run
\* for it are invalidated and deleted.
EditVersion ==
  /\ Edit("version")
  /\ node' = [n \in Nodes |-> [node[n] EXCEPT !.stage = 0, !.state = "none",
                                 !.old = @ \/ node[n].stage > 0]]
  /\ pass.pc = "idle"
  /\ job' = [n \in Nodes |-> NoJob]
  /\ orders' = {}
  /\ UNCHANGED <<mode, policy, cluster, cr, pass>>

EditMode ==
  /\ \/ Edit("pause") /\ mode' = IF mode = "run" THEN "pause" ELSE "run"
     \/ Edit("disable") /\ mode' = IF mode = "run" THEN "disable" ELSE "run"
  /\ UNCHANGED <<policy, cluster, node, job, cr, pass, orders>>

EditPolicy ==
  /\ Edit("policy") /\ HasPolicy /\ policy' = ~policy
  /\ pass.pc = "idle"
  /\ UNCHANGED <<mode, cluster, node, job, cr, pass, orders>>

EditNode(n) ==
  /\ pass.pc = "idle"
  /\ n \in cluster.members
  /\ \/ \E hold \in {"ignore", "taint"} :
          /\ Edit(hold)
          /\ cluster' = [cluster EXCEPT !.held[n] = IF @ = "none" THEN hold ELSE "none"]
     \/ /\ Edit("relabel")
        /\ \E c \in Compartments :
             cluster' = [cluster EXCEPT !.labels[n] = IF c \in @ THEN @ \ {c} ELSE @ \cup {c}]
  /\ UNCHANGED <<mode, policy, node, job, cr, pass, orders>>

\* A node is deleted, with its annotations, and its Jobs are swept; one is added.
NodeLeaves(n) ==
  /\ Edit("leave") /\ n \in cluster.members
  /\ cluster' = [cluster EXCEPT !.members = @ \ {n}]
  /\ node' = [node EXCEPT ![n] = BlankNode]
  /\ job' = [job EXCEPT ![n] = NoJob]
  /\ UNCHANGED <<mode, policy, cr, pass, orders>>

NodeJoins(n) ==
  /\ Edit("join") /\ n \notin cluster.members
  /\ cluster' = [cluster EXCEPT !.members = @ \cup {n}]
  /\ UNCHANGED <<mode, policy, node, job, cr, pass, orders>>

Edits == \/ EditVersion \/ EditMode \/ EditPolicy
         \/ \E n \in Nodes : EditNode(n) \/ NodeLeaves(n) \/ NodeJoins(n)

Next ==
  \/ Pass \/ Crash \/ Edits
  \/ \E n \in Nodes : JobSucceeds(n) \/ AttemptFails(n) \/ JobFails(n) \/ JobExpires(n)

Spec == Init /\ [][Next]_vars

\* The operator reconciles again and again, a running Job ends, and TTLs elapse.
FairSpec ==
  /\ Spec /\ WF_vars(Pass)
  /\ \A n \in Nodes : WF_vars(JobSucceeds(n)) /\ WF_vars(JobExpires(n))

-----------------------------------------------------------------------------
(***************************************************************************)
(* Properties.                                                             *)
(***************************************************************************)
NodeRecords == [status: Statuses, stage: 0..Stages, old: BOOLEAN,
                state: {"none", "in_progress", "erroring", "complete"}]
JobRecords == [phase: {"none", "active", "suspended", "succeeded", "failed"}, stage: 0..Stages]
BatchRecords == [batch: Nat, failures: Nat, completed: Nat, failed: Nat,
                 stop: BOOLEAN, lastSize: Nat, lastFailed: BOOLEAN]
StatusRecords == [status: Statuses, prio: [Nodes -> Nat], offset: Nat,
                  batch: [AllCompartments -> BatchRecords]]
CopyRecords == [node: [Nodes -> NodeRecords], comp: [Nodes -> AllCompartments \cup {"none"}],
                cr: StatusRecords, batch: [AllCompartments -> BatchRecords]]
ClusterRecords == [members: SUBSET Nodes, labels: [Nodes -> SUBSET Compartments],
                   held: [Nodes -> {"none", "ignore", "taint"}]]

\* The nodes picked have the positions 1, 2, ... up to their number.
Positioned(prio) ==
  LET picked == {n \in Nodes : prio[n] > 0} IN
  /\ \A m, n \in picked : prio[m] = prio[n] => m = n
  /\ \A n \in picked : prio[n] <= Cardinality(picked)

\* Types; no position in the order of picks is taken twice or left out (upsertPick,
\* RemoveNodePriority).
TypeOK ==
  /\ mode \in {"run", "pause", "disable"} /\ policy \in BOOLEAN
  /\ cluster \in ClusterRecords
  /\ node \in [Nodes -> NodeRecords] /\ job \in [Nodes -> JobRecords]
  /\ cr \in StatusRecords /\ Positioned(cr.prio)
  /\ pass \in [pc: {"idle", "run", "save"}, snap: [Nodes -> NodeRecords], todo: SUBSET Nodes,
               mem: CopyRecords]
  /\ orders \in SUBSET (Nodes \X Nat)
  /\ used \in [edits: Nat, failures: Nat, crashes: Nat]

\* Work has begun on the node and is not complete.
Touched(n) ==
  /\ n \in cluster.members /\ ~IsComplete(node[n])
  /\ job[n].phase # "none" \/ node[n].stage > 0

\* The nodes of the default compartment behave as a gate of the size of its fixed
\* strategy: GetNodesForNextBatch, the sticky priorities and the evaluation of
\* batches, over all their passes, never have work open on more nodes.
Gate == INSTANCE BatchGate WITH
  Members <- Nodes, Limit <- Default(Strategy[DefaultCompartment]).initial,
  open <- {n \in NodesOf(Copy, DefaultCompartment) : Touched(n)},
  stopped <- cr.batch[DefaultCompartment].stop
DefaultIsGated == Gate!GateSpec

\* Work starts on a node that has run nothing and was not picked; an upgrade is not held
\* back by the batches (HandleVersionChange).
Starts(n) ==
  /\ node[n].stage = 0 /\ ~node[n].old /\ cr.prio[n] = 0
  /\ job[n].phase \notin {"active", "suspended"} /\ job'[n].phase = "active"

\* The first Job of a node not yet picked is created only when every node picked by an
\* earlier pass in its compartment is complete or held: batches do not overlap, however
\* the passes, the Jobs' results and the edits interleave (GetNodesForNextBatch,
\* NodePriority).
BatchesDoNotOverlap ==
  [][\A m, n \in Nodes : Starts(n) /\ cr.prio[m] > 0 =>
       \/ m \notin cluster.members \/ ~Eligible(m) \/ IsComplete(node[m])
       \/ AssignNodeToCompartment(m) # AssignNodeToCompartment(n)]_vars

\* A compartment is stopped only after as many failures as its threshold asks for.
StoppedForCause ==
  \A c \in AllCompartments :
    cr.batch[c].stop => StrategyOf(c).failures > 0 /\ used.failures >= StrategyOf(c).failures

\* No two nodes are given the same position in a rollout (NodeOrder).
NodeOrdersDistinct == \A o, p \in orders : o[2] = p[2] => o[1] = p[1]

\* Every node that can be worked on completes, unless its compartment was stopped, over
\* relabelled, held and joining nodes, upgrades, and either crashes or failed attempts.
\* A crash that loses the picks of a pass whose node then fails can strand the node: it
\* counts as processed and is not sticky, so CalculateBatchSize leaves no room for it.
RolloutCompletes ==
  <>[](/\ mode = "run" /\ CurrentCompartments # {}
       /\ used.crashes = 0 \/ used.failures = 0
       => \A c \in CurrentCompartments :
            cr.batch[c].stop \/ \A n \in NodesOf(Copy, c) : ~Eligible(n) \/ IsComplete(node[n]))
=============================================================================
