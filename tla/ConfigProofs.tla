---------------------------- MODULE ConfigProofs ----------------------------
(***************************************************************************)
(* Proofs about ConfigUpdates, for any number of nodes and keys and any    *)
(* bounds: the types, then one inductive invariant with the facts that     *)
(* carry an update over a pass that can stop after each of its writes.     *)
(***************************************************************************)
EXTENDS ConfigUpdates, TLAPS

-----------------------------------------------------------------------------
(***************************************************************************)
(* The inductive invariant.                                                *)
(***************************************************************************)
\* What a pass knows: nothing between passes; until it saves, the updates in force; then
\* at least the keys that change.
PassInv ==
  /\ pass.pc = "idle" => pass = IdlePass
  /\ pass.pc # "idle" => pass.spec \in Data
  /\ pass.pc \in {"config", "run"} => pass.config = FALSE
  /\ pass.pc = "config" => pass.changed = {}
  /\ pass.config = FALSE /\ pass.pc # "idle" => pass.updates = updates
  /\ pass.config = TRUE => ChangedKeys \subseteq pass.updates /\ pass.pc \in {"save", "update"}
  /\ pass.pc = "update" => pass.config = TRUE /\ pass.updates = updates

\* The config stage is behind the entry; so is the interrupt.
Done(e) == e.stage \in {"interrupt", "post-interrupt"} \/ e = Entry("config", "complete")
Past(e) == e.stage = "post-interrupt" \/ e = Entry("interrupt", "complete")

\* Of the keys that ask for an interrupt, those outside upd have not changed since the
\* last interrupt.
Settled(n, upd) == \A k \in InterruptKeys \ upd : since[n][k] = cm[k]

\* Entries past the config stage, on the node and in the pass, and running config stages
\* have the data of the ConfigMap.
Configured(n) ==
  /\ Done(entry[n]) => ran[n] = cm
  /\ Done(pass.entry[n]) => ran[n] = cm
  /\ job[n].stage = "config" /\ job[n].phase \in {"active", "finished"} => job[n].data = cm

\* Entries past the interrupt had it after the last change; for the others the updates in
\* force, and those a config pass is about to record, name every key that changed.
Interrupted(n) ==
  /\ Past(entry[n]) => Settled(n, {})
  /\ Past(pass.entry[n]) => Settled(n, {})
  /\ ran[n] # NoData => Settled(n, updates)
  /\ ran[n] # NoData /\ n \in members /\ pass.config = TRUE => Settled(n, pass.updates)

\* Back at config; if that was recorded complete since, its Job is still there.
Back(n) == entry[n].stage = "config" /\ (entry[n].state = "complete" => job[n].stage = "config")

\* A config pass sends every member back before it writes the ConfigMap.
SentBack(n) ==
  /\ n \in pass.changed => n \in members /\ pass.entry[n] # NoEntry
  /\ n \in pass.todo => n \in members
  /\ n \in members /\ pass.config = TRUE =>
       /\ pass.entry[n] = Entry("config", "in_progress")
       /\ n \notin pass.changed /\ pass.failed = FALSE => Back(n)
  /\ pass.pc = "update" => n \notin pass.changed /\ pass.failed = FALSE
  /\ pass.pc = "update" /\ n \notin members => n \in missed \/ entry[n] = NoEntry

\* A node without an entry has never been configured.
Untouched(n) == entry[n] = NoEntry => ran[n] = NoData

NodeInv(n) == SentBack(n) /\ Untouched(n) /\ (n \notin missed => Configured(n) /\ Interrupted(n))

ConfigInv == TypeOK /\ PassInv /\ \A n \in Nodes : NodeInv(n)
-----------------------------------------------------------------------------
(***************************************************************************)
(* Types.                                                                  *)
(***************************************************************************)
\* The pass between two passes.
LEMMA IdleFacts ==
  /\ IdlePass \in PassType
  /\ IdlePass.pc = "idle" /\ IdlePass.config = FALSE /\ IdlePass.failed = FALSE
  /\ IdlePass.changed = {} /\ IdlePass.todo = {}
  /\ \A n \in Nodes : IdlePass.entry[n] = NoEntry
  BY DEF IdlePass, PassType, EntryType


\* A read of the NodeWright.
LEMMA BeginPassFacts ==
  ASSUME TypeOK, BeginPass
  PROVE  /\ pass' \in PassType
         /\ pass'.pc = (IF cm = spec THEN "run" ELSE "config")
         /\ pass'.spec = spec /\ pass'.updates = updates /\ pass'.entry = entry
         /\ pass'.todo = members /\ pass'.changed = {} /\ pass'.failed = FALSE /\ pass'.config = FALSE
  BY DEF BeginPass, TypeOK, IdlePass, PassType, EntryType

\* The gate of a changed configMap, open or closed.
LEMMA HandleFacts ==
  ASSUME TypeOK, HandleConfigUpdates
  PROVE  /\ pass' \in PassType
         /\ pass'.spec = pass.spec /\ pass'.todo = pass.todo /\ pass'.failed = pass.failed
         /\ \/ /\ AllDone \/ \E n \in members : Erroring(n)
               /\ pass'.pc = "save" /\ pass'.updates = NewConfigUpdates /\ pass'.config = TRUE
               /\ pass'.changed = members
               /\ \A n \in Nodes : pass'.entry[n] = IF n \in members THEN Entry("config", "in_progress")
                                                    ELSE pass.entry[n]
            \/ /\ pass'.pc = "run" /\ pass'.updates = pass.updates /\ pass'.config = pass.config
               /\ pass'.changed = pass.changed /\ pass'.entry = pass.entry
<1> DEFINE sent == [n \in Nodes |-> IF n \in members THEN Entry("config", "in_progress")
                                    ELSE pass.entry[n]]
<1>0. pass \in PassType
  BY DEF TypeOK
<1>1. sent \in [Nodes -> EntryType]
  BY DEF TypeOK, PassType, EntryType, Entry, Stages, States
<1>2. NewConfigUpdates \in SUBSET Keys
  <2>1. DOMAIN pass.spec \subseteq Keys
    BY <1>0 DEF PassType, Data, NoData
  <2> QED
    BY <1>0, <2>1 DEF NewConfigUpdates, ChangedKeys, PassType
<1>3. members \in SUBSET Nodes
  BY DEF TypeOK
<1>4. CASE AllDone \/ \E n \in members : Erroring(n)
  <2>1. pass' = [pass EXCEPT !.pc = "save", !.updates = NewConfigUpdates, !.config = TRUE,
                             !.changed = members, !.entry = sent]
    BY <1>4 DEF HandleConfigUpdates
  <2>2. \A n \in Nodes : sent[n] = IF n \in members THEN Entry("config", "in_progress") ELSE pass.entry[n]
    OBVIOUS
  <2> HIDE DEF sent
  <2>3. pass' \in PassType
    BY <1>0, <1>1, <1>2, <1>3, <2>1 DEF PassType
  <2>4. /\ pass'.spec = pass.spec /\ pass'.todo = pass.todo /\ pass'.failed = pass.failed
        /\ pass'.pc = "save" /\ pass'.updates = NewConfigUpdates /\ pass'.config = TRUE
        /\ pass'.changed = members /\ pass'.entry = sent
    BY <1>0, <2>1 DEF PassType
  <2> QED
    BY <1>4, <2>2, <2>3, <2>4
<1>5. CASE ~(AllDone \/ \E n \in members : Erroring(n))
  <2>1. pass' = [pass EXCEPT !.pc = "run"]
    BY <1>5 DEF HandleConfigUpdates
  <2> QED
    BY <1>0, <2>1 DEF PassType
<1> QED
  BY <1>4, <1>5

\* A saved node, or one that could not be saved.
LEMMA SaveNodeFacts ==
  ASSUME TypeOK, NEW n \in Nodes, SaveNode(n)
  PROVE  /\ pass' \in PassType /\ used' \in [edits: Nat, moves: Nat, failures: Nat, faults: Nat]
         /\ pass'.pc = pass.pc /\ pass'.spec = pass.spec /\ pass'.updates = pass.updates
         /\ pass'.entry = pass.entry /\ pass'.config = pass.config
         /\ pass'.changed = pass.changed \ {n} /\ pass'.todo = pass.todo
         /\ \/ entry' = [entry EXCEPT ![n] = pass.entry[n]] /\ pass'.failed = pass.failed
            \/ entry' = entry /\ pass'.failed = TRUE
<1>0. pass \in PassType /\ used \in [edits: Nat, moves: Nat, failures: Nat, faults: Nat]
  BY DEF TypeOK
<1>1. CASE /\ entry' = [entry EXCEPT ![n] = pass.entry[n]]
           /\ pass' = [pass EXCEPT !.changed = @ \ {n}] /\ UNCHANGED used
  BY <1>0, <1>1 DEF PassType
<1>2. CASE /\ Fails /\ pass' = [pass EXCEPT !.changed = @ \ {n}, !.failed = TRUE]
           /\ UNCHANGED entry
  <2>1. used' \in [edits: Nat, moves: Nat, failures: Nat, faults: Nat]
    BY <1>0, <1>2 DEF Fails
  <2> QED
    BY <1>0, <1>2, <2>1 DEF PassType
<1> QED
  BY <1>1, <1>2 DEF SaveNode

\* A visit of one node: nothing to do, a recorded Job removed, or a Job started.
LEMMA RunNodeFacts ==
  ASSUME TypeOK, NEW n \in Nodes, RunNode(n)
  PROVE  /\ pass' \in PassType /\ job' \in [Nodes -> JobType]
         /\ pass'.pc = pass.pc /\ pass'.spec = pass.spec /\ pass'.updates = pass.updates
         /\ pass'.config = pass.config /\ pass'.failed = pass.failed
         /\ pass'.todo = pass.todo \ {n}
         /\ \A m \in Nodes \ {n} : pass'.entry[m] = pass.entry[m] /\ job'[m] = job[m]
         /\ \/ pass'.entry = pass.entry /\ pass'.changed = pass.changed
               /\ (job' = job \/ job'[n] = NoJob)
            \/ LET stage == NextStage(pass.entry[n], pass.updates) IN
               /\ ~IsPackageComplete(pass.entry[n], pass.updates)
               /\ stage \in Stages
               /\ job'[n] = [phase |-> "active", stage |-> stage, data |-> cm]
               /\ pass'.entry[n] = Entry(stage, "in_progress")
               /\ pass'.changed \subseteq pass.changed \cup {n}
<1> DEFINE stage == NextStage(pass.entry[n], pass.updates)
           started == [phase |-> "active", stage |-> stage, data |-> cm]
           visited == [pass EXCEPT !.todo = @ \ {n}]
<1>0. pass \in PassType /\ job \in [Nodes -> JobType] /\ NoJob \in JobType /\ cm \in Data
  BY DEF TypeOK, JobType
<1>1. /\ visited \in PassType
      /\ visited.pc = pass.pc /\ visited.spec = pass.spec /\ visited.updates = pass.updates
      /\ visited.config = pass.config /\ visited.failed = pass.failed
      /\ visited.todo = pass.todo \ {n} /\ visited.entry = pass.entry /\ visited.changed = pass.changed
  BY <1>0 DEF PassType
<1>2. CASE pass' = visited /\ UNCHANGED job
  BY <1>0, <1>1, <1>2
<1>3. CASE pass' = visited /\ job' = [job EXCEPT ![n] = NoJob]
  BY <1>0, <1>1, <1>3
<1>4. CASE /\ ~IsPackageComplete(pass.entry[n], pass.updates)
           /\ job' = [job EXCEPT ![n] = started]
           /\ pass' = [visited EXCEPT
                         !.entry = [pass.entry EXCEPT ![n] = Entry(stage, "in_progress")],
                         !.changed = IF pass.entry[n] = Entry(stage, "in_progress") THEN @ ELSE @ \cup {n}]
  <2>1. pass.entry[n] \in EntryType /\ pass.entry \in [Nodes -> EntryType]
    BY <1>0 DEF PassType
  <2>2. stage \in Stages
    BY <2>1, <1>4, SMTT(30) DEF NextStage, IsPackageComplete, EntryType, Stages, States, NoEntry
  <2>3. started \in JobType
    BY <2>2, <1>0 DEF JobType
  <2>4. Entry(stage, "in_progress") \in EntryType
    BY <2>2 DEF Entry, EntryType, States
  <2> DEFINE marked == [pass.entry EXCEPT ![n] = Entry(stage, "in_progress")]
             changed == IF pass.entry[n] = Entry(stage, "in_progress") THEN visited.changed
                        ELSE visited.changed \cup {n}
  <2>5. /\ marked \in [Nodes -> EntryType] /\ marked[n] = Entry(stage, "in_progress")
        /\ \A m \in Nodes \ {n} : marked[m] = pass.entry[m]
    BY <2>1, <2>4
  <2>6. pass' = [visited EXCEPT !.entry = marked, !.changed = changed]
    BY <1>4
  <2>7. changed \in SUBSET Nodes /\ changed \subseteq pass.changed \cup {n}
    BY <1>1, <1>0 DEF PassType
  <2>8. /\ job' \in [Nodes -> JobType] /\ job'[n] = started
        /\ \A m \in Nodes \ {n} : job'[m] = job[m]
    BY <1>0, <1>4, <2>3
  <2> HIDE DEF visited, marked, changed, stage, started
  <2>9. /\ pass' \in PassType /\ pass'.entry = marked /\ pass'.changed = changed
        /\ pass'.pc = visited.pc /\ pass'.spec = visited.spec /\ pass'.updates = visited.updates
        /\ pass'.config = visited.config /\ pass'.failed = visited.failed /\ pass'.todo = visited.todo
    BY <1>1, <2>5, <2>6, <2>7 DEF PassType
  <2> QED
    BY <1>1, <1>4, <2>2, <2>5, <2>7, <2>8, <2>9 DEF started, stage
<1> QED
  BY <1>2, <1>3, <1>4 DEF RunNode

\* The types hold after every step.
LEMMA TypeStep == TypeOK /\ PassInv /\ [Next]_vars => TypeOK'
<1> DEFINE Used == [edits: Nat, moves: Nat, failures: Nat, faults: Nat]
<1> SUFFICES ASSUME TypeOK, PassInv, [Next]_vars
             PROVE  TypeOK'
  OBVIOUS
<1>0. IdlePass \in PassType /\ NoJob \in JobType
  BY IdleFacts DEF JobType
<1>1. CASE ValidateRunningPackages
  <2>1. job' \in [Nodes -> JobType]
    BY <1>0, <1>1 DEF ValidateRunningPackages, TypeOK
  <2> QED
    BY <1>1, <2>1 DEF ValidateRunningPackages, TypeOK
<1>2. CASE ValidateNodeConfigmaps
  BY <1>2 DEF ValidateNodeConfigmaps, TypeOK
<1>3. CASE BeginPass
  <2>1. pass' \in PassType
    BY <1>3, BeginPassFacts
  <2> QED
    BY <1>3, <2>1 DEF BeginPass, TypeOK
<1>4. CASE HandleConfigUpdates
  <2>1. pass' \in PassType
    BY <1>4, HandleFacts
  <2>2. job' \in [Nodes -> JobType]
    BY <1>0, <1>4 DEF HandleConfigUpdates, TypeOK
  <2> QED
    BY <1>4, <2>1, <2>2 DEF HandleConfigUpdates, TypeOK
<1>5. CASE SaveStatus
  <2>1. pass' \in PassType
    BY <1>0, <1>5 DEF SaveStatus, TypeOK, PassType
  <2>2. updates' \in SUBSET Keys /\ missed' \in SUBSET Nodes
    BY <1>5 DEF SaveStatus, TypeOK, PassType, LeftOut
  <2> QED
    BY <1>5, <2>1, <2>2 DEF SaveStatus, TypeOK
<1>6. CASE UpdateConfigMap
  <2>1. cm' \in Data /\ missed' \in SUBSET Nodes
    BY <1>6 DEF UpdateConfigMap, TypeOK, PassInv
  <2>2. used' \in Used
    BY <1>6 DEF UpdateConfigMap, TypeOK, Fails
  <2> QED
    BY <1>0, <1>6, <2>1, <2>2 DEF UpdateConfigMap, TypeOK
<1>7. CASE RunEnds
  <2>1. pass' \in PassType
    BY <1>0, <1>7 DEF RunEnds, TypeOK, PassType
  <2> QED
    BY <1>7, <2>1 DEF RunEnds, TypeOK
<1>8. ASSUME NEW n \in Nodes, SaveNode(n)
      PROVE  TypeOK'
  <2>1. pass' \in PassType /\ used' \in Used
    BY <1>8, SaveNodeFacts
  <2>2. entry' \in [Nodes -> EntryType] /\ meta' \in SUBSET Nodes
    BY <1>8 DEF SaveNode, TypeOK, PassType
  <2> QED
    BY <1>8, <2>1, <2>2 DEF SaveNode, TypeOK
<1>9. ASSUME NEW n \in Nodes, RunNode(n)
      PROVE  TypeOK'
  <2>1. pass' \in PassType /\ job' \in [Nodes -> JobType]
    BY <1>9, RunNodeFacts
  <2> QED
    BY <1>9, <2>1 DEF RunNode, TypeOK
<1>10. CASE Crash
  <2>1. used' \in Used
    BY <1>10 DEF Crash, TypeOK, Fails
  <2> QED
    BY <1>0, <1>10, <2>1 DEF Crash, TypeOK
<1>11. ASSUME NEW k \in Keys, Edit(k)
       PROVE  TypeOK'
  <2>1. used' \in Used /\ spec' \in Data
    BY <1>11 DEF Edit, TypeOK, Data
  <2> QED
    BY <1>11, <2>1 DEF Edit, TypeOK
<1>12. ASSUME NEW n \in Nodes, JobFinishes(n)
       PROVE  TypeOK'
  <2>1. job' \in [Nodes -> JobType]
    BY <1>12 DEF JobFinishes, TypeOK, JobType, InPhase, NoJob
  <2> QED
    BY <1>12, <2>1 DEF JobFinishes, TypeOK
<1>13. ASSUME NEW n \in Nodes, AttemptFails(n)
       PROVE  TypeOK'
  <2>1. Entry(entry[n].stage, "erroring") \in EntryType
    BY <1>13 DEF AttemptFails, TypeOK, EntryType, Entry, Open, States, NoEntry
  <2>2. entry' \in [Nodes -> EntryType] /\ used' \in Used
    BY <1>13, <2>1 DEF AttemptFails, TypeOK
  <2> QED
    BY <1>13, <2>2 DEF AttemptFails, TypeOK
<1>14. ASSUME NEW n \in Nodes, JobRecorded(n)
       PROVE  TypeOK'
  <2>1. job[n].stage \in Stages /\ job[n].data \in Data /\ InPhase(job[n], "recorded") \in JobType
    BY <1>14 DEF JobRecorded, TypeOK, JobType, InPhase, NoJob
  <2>2. Entry(job[n].stage, "complete") \in EntryType
    BY <2>1 DEF Entry, EntryType, States
  <2>3. job' \in [Nodes -> JobType] /\ entry' \in [Nodes -> EntryType]
    BY <1>14, <2>1, <2>2 DEF JobRecorded, TypeOK
  <2>4. ran' \in [Nodes -> Data \cup {NoData}] /\ since' \in [Nodes -> Data \cup {NoData}]
    BY <1>14, <2>1 DEF JobRecorded, TypeOK
  <2> QED
    BY <1>14, <2>3, <2>4 DEF JobRecorded, TypeOK
<1>15. ASSUME NEW n \in Nodes, Move(n)
       PROVE  TypeOK'
  <2>1. used' \in Used /\ members' \in SUBSET Nodes
    BY <1>15 DEF Move, TypeOK
  <2> QED
    BY <1>15, <2>1 DEF Move, TypeOK
<1>16. CASE UNCHANGED vars
  BY <1>16 DEF vars, TypeOK
<1> QED
  BY <1>1, <1>2, <1>3, <1>4, <1>5, <1>6, <1>7, <1>8, <1>9, <1>10, <1>11, <1>12, <1>13, <1>14, <1>15,
     <1>16 DEF Next, Reconcile

-----------------------------------------------------------------------------
(***************************************************************************)
(* The pass.                                                               *)
(***************************************************************************)
\* What a pass knows stays true.
LEMMA PassStep == TypeOK /\ PassInv /\ [Next]_vars => PassInv'
<1> SUFFICES ASSUME TypeOK, PassInv, [Next]_vars
             PROVE  PassInv'
  OBVIOUS
<1>0. /\ IdlePass.pc = "idle" /\ IdlePass.config = FALSE
      /\ pass \in PassType
  BY IdleFacts DEF TypeOK
<1>i. pass' = IdlePass => PassInv'
  BY <1>0 DEF PassInv
<1>s. pass' = pass /\ cm' = cm /\ updates' = updates => PassInv'
  BY DEF PassInv, ChangedKeys
<1>1. CASE BeginPass
  <2>1. /\ pass'.pc \in {"run", "config"} /\ pass'.spec = spec /\ pass'.updates = updates
        /\ pass'.changed = {} /\ pass'.config = FALSE /\ updates' = updates
    BY <1>1, BeginPassFacts DEF BeginPass
  <2>2. spec \in Data
    BY DEF TypeOK
  <2> QED
    BY <2>1, <2>2 DEF PassInv
<1>2. CASE HandleConfigUpdates
  <2>1. /\ pass.pc = "config" /\ pass.spec \in Data /\ pass.updates = updates
        /\ pass.config = FALSE /\ pass.changed = {}
        /\ cm' = cm /\ updates' = updates /\ pass'.spec = pass.spec
    BY <1>2, HandleFacts DEF HandleConfigUpdates, PassInv
  <2>2. ChangedKeys' = ChangedKeys /\ ChangedKeys \subseteq NewConfigUpdates
    BY <2>1 DEF ChangedKeys, NewConfigUpdates
  <2>3. CASE pass'.pc = "save" /\ pass'.updates = NewConfigUpdates /\ pass'.config = TRUE
    BY <2>1, <2>2, <2>3 DEF PassInv
  <2>4. CASE pass'.pc = "run" /\ pass'.updates = pass.updates /\ pass'.config = pass.config
             /\ pass'.changed = pass.changed
    BY <2>1, <2>4 DEF PassInv
  <2> QED
    BY <1>2, <2>3, <2>4, HandleFacts
<1>3. CASE SaveStatus
  <2>1. CASE pass.config = TRUE /\ pass.failed = FALSE
    <3>1. /\ pass'.pc = "update" /\ pass'.config = TRUE /\ pass'.updates = pass.updates
          /\ pass'.spec = pass.spec /\ updates' = pass.updates /\ cm' = cm /\ pass.pc = "save"
      BY <1>0, <1>3, <2>1 DEF SaveStatus, PassType
    <3> QED
      BY <2>1, <3>1 DEF PassInv, ChangedKeys
  <2>2. CASE ~(pass.config = TRUE /\ pass.failed = FALSE)
    BY <1>0, <1>3, <1>i, <2>2 DEF SaveStatus, PassType
  <2> QED
    BY <2>1, <2>2
<1>4. CASE RunEnds
  <2>1. CASE pass' = [pass EXCEPT !.pc = "save"]
    <3>1. /\ pass'.pc = "save" /\ pass'.config = pass.config /\ pass'.updates = pass.updates
          /\ pass'.spec = pass.spec /\ updates' = updates /\ cm' = cm /\ pass.pc = "run"
      BY <1>0, <1>4, <2>1 DEF RunEnds, PassType
    <3> QED
      BY <3>1 DEF PassInv
  <2> QED
    BY <1>4, <1>i, <2>1 DEF RunEnds
<1>5. ASSUME NEW n \in Nodes, SaveNode(n)
      PROVE  PassInv'
  <2>1. /\ pass'.pc = pass.pc /\ pass'.spec = pass.spec /\ pass'.updates = pass.updates
        /\ pass'.config = pass.config /\ pass.pc = "save" /\ cm' = cm /\ updates' = updates
    BY <1>5, SaveNodeFacts DEF SaveNode
  <2> QED
    BY <2>1 DEF PassInv, ChangedKeys
<1>6. ASSUME NEW n \in Nodes, RunNode(n)
      PROVE  PassInv'
  <2>1. /\ pass'.pc = pass.pc /\ pass'.spec = pass.spec /\ pass'.updates = pass.updates
        /\ pass'.config = pass.config /\ pass.pc = "run" /\ cm' = cm /\ updates' = updates
    BY <1>6, RunNodeFacts DEF RunNode
  <2> QED
    BY <2>1 DEF PassInv, ChangedKeys
<1>7. CASE UpdateConfigMap \/ Crash
  BY <1>7, <1>i DEF UpdateConfigMap, Crash
<1>8. CASE ValidateRunningPackages \/ ValidateNodeConfigmaps
  BY <1>8, <1>s DEF ValidateRunningPackages, ValidateNodeConfigmaps
<1>9. ASSUME NEW n \in Nodes, JobFinishes(n) \/ AttemptFails(n) \/ JobRecorded(n) \/ Move(n)
      PROVE  PassInv'
  BY <1>9, <1>s DEF JobFinishes, AttemptFails, JobRecorded, Move
<1>10. ASSUME NEW k \in Keys, Edit(k)
       PROVE  PassInv'
  BY <1>10, <1>s DEF Edit
<1>11. CASE UNCHANGED vars
  BY <1>11, <1>s DEF vars
<1> QED
  BY <1>1, <1>2, <1>3, <1>4, <1>5, <1>6, <1>7, <1>8, <1>9, <1>10, <1>11 DEF Next, Reconcile

-----------------------------------------------------------------------------
(***************************************************************************)
(* The nodes.                                                              *)
(***************************************************************************)
\* A node whose state, and the pass's, stays as it is.
LEMMA NodeFrame ==
  ASSUME NEW n \in Nodes, NodeInv(n), pass' = pass, cm' = cm, updates' = updates,
         members' = members, missed' = missed, entry'[n] = entry[n], job'[n] = job[n],
         ran'[n] = ran[n], since'[n] = since[n]
  PROVE  NodeInv(n)'
<1>1. \A u : Settled(n, u)' <=> Settled(n, u)
  BY DEF Settled
<1>2. SentBack(n)' /\ Untouched(n)'
  BY DEF NodeInv, SentBack, Untouched, Back
<1>3. n \notin missed => Configured(n)' /\ Interrupted(n)'
  BY <1>1 DEF NodeInv, Configured, Interrupted
<1> QED
  BY <1>2, <1>3 DEF NodeInv

\* Between passes a node may lose its Job and change its membership.
LEMMA NodeBetween ==
  ASSUME NEW n \in Nodes, NodeInv(n), pass = IdlePass, pass' = IdlePass, cm' = cm,
         updates' = updates, missed' = missed, entry'[n] = entry[n],
         job'[n] = job[n] \/ job'[n] = NoJob, ran'[n] = ran[n], since'[n] = since[n]
  PROVE  NodeInv(n)'
<1>0. /\ pass.pc = "idle" /\ pass.config = FALSE /\ pass.changed = {} /\ pass.todo = {}
      /\ pass.entry[n] = NoEntry /\ pass' = pass
  BY IdleFacts
<1>1. \A u : Settled(n, u)' <=> Settled(n, u)
  BY DEF Settled
<1>2. SentBack(n)' /\ Untouched(n)'
  BY <1>0 DEF NodeInv, SentBack, Untouched
<1>3. n \notin missed => Configured(n)' /\ Interrupted(n)'
  BY <1>0, <1>1 DEF NodeInv, Configured, Interrupted, NoJob
<1> QED
  BY <1>2, <1>3 DEF NodeInv

\* The end of a pass, on a node that the pass leaves as it is.
LEMMA NodeIdle ==
  ASSUME NEW n \in Nodes, NodeInv(n), pass' = IdlePass, cm' = cm, updates' = updates,
         members' = members, missed' = missed, entry'[n] = entry[n], job'[n] = job[n],
         ran'[n] = ran[n], since'[n] = since[n]
  PROVE  NodeInv(n)'
<1>0. /\ pass'.pc = "idle" /\ pass'.config = FALSE /\ pass'.changed = {} /\ pass'.todo = {}
      /\ pass'.entry[n] = NoEntry
  BY IdleFacts
<1>1. \A u : Settled(n, u)' <=> Settled(n, u)
  BY DEF Settled
<1>2. SentBack(n)' /\ Untouched(n)'
  BY <1>0 DEF NodeInv, SentBack, Untouched
<1>3. ~Done(pass'.entry[n]) /\ ~Past(pass'.entry[n])
  BY <1>0 DEF Done, Past, NoEntry, Entry
<1>4. n \notin missed => Configured(n)' /\ Interrupted(n)'
  BY <1>0, <1>1, <1>3 DEF NodeInv, Configured, Interrupted
<1> QED
  BY <1>2, <1>4 DEF NodeInv

\* A pass starts with the entries of the nodes.
LEMMA NodeBegin ==
  ASSUME ConfigInv, BeginPass, NEW n \in Nodes
  PROVE  NodeInv(n)'
<1>1. /\ pass'.pc \in {"run", "config"} /\ pass'.entry = entry /\ pass'.config = FALSE
      /\ pass'.changed = {} /\ pass'.todo = members
  BY BeginPassFacts DEF ConfigInv
<1>2. /\ cm' = cm /\ updates' = updates /\ members' = members /\ missed' = missed /\ entry' = entry
      /\ job' = job /\ ran' = ran /\ since' = since
  BY DEF BeginPass
<1>3. NodeInv(n)
  BY DEF ConfigInv
<1>4. \A u : Settled(n, u)' <=> Settled(n, u)
  BY <1>2 DEF Settled
<1>5. SentBack(n)' /\ Untouched(n)'
  BY <1>1, <1>2, <1>3 DEF NodeInv, SentBack, Untouched
<1>6. n \notin missed => Configured(n)' /\ Interrupted(n)'
  BY <1>1, <1>2, <1>3, <1>4 DEF NodeInv, Configured, Interrupted
<1> QED
  BY <1>2, <1>5, <1>6 DEF NodeInv

\* If the last update is dropped, it is finished on every member.
LEMMA DroppedWhenDone ==
  ASSUME ConfigInv, pass.pc = "config", NEW n \in members, n \notin missed, ran[n] # NoData
  PROVE  Settled(n, NewConfigUpdates)
<1>0. n \in Nodes /\ pass.updates = updates
  BY DEF ConfigInv, TypeOK, PassInv
<1>1. Configured(n) /\ Interrupted(n)
  BY <1>0 DEF ConfigInv, NodeInv
<1>2. Settled(n, updates)
  BY <1>1 DEF Interrupted
<1>3. CASE ~AllDone
  BY <1>0, <1>2, <1>3 DEF NewConfigUpdates, Settled
<1>4. CASE AllDone
  <2>1. IsPackageComplete(pass.entry[n], updates)
    BY <1>0, <1>4 DEF AllDone
  <2>2. CASE pass.entry[n].stage = "post-interrupt"
    <3>1. Settled(n, {})
      BY <1>1, <2>2 DEF Interrupted, Past
    <3> QED
      BY <3>1 DEF Settled
  <2>3. CASE ~HasInterrupt(updates)
    <3>1. updates \cap InterruptKeys = {}
      BY <2>3 DEF HasInterrupt
    <3> QED
      BY <1>2, <3>1 DEF Settled
  <2> QED
    BY <2>1, <2>2, <2>3 DEF IsPackageComplete
<1> QED
  BY <1>3, <1>4

\* The gate: open, every member is sent back; closed, nothing but executors goes.
LEMMA NodeHandle ==
  ASSUME ConfigInv, HandleConfigUpdates, NEW n \in Nodes
  PROVE  NodeInv(n)'
<1>1. /\ cm' = cm /\ updates' = updates /\ members' = members /\ missed' = missed /\ entry' = entry
      /\ ran' = ran /\ since' = since /\ (job'[n] = job[n] \/ job'[n] = NoJob) /\ pass.pc = "config"
      /\ pass.config = FALSE /\ pass.changed = {}
  BY DEF HandleConfigUpdates, ConfigInv, PassInv
<1>2. NodeInv(n) /\ TypeOK
  BY DEF ConfigInv
<1>3. \A u : Settled(n, u)' <=> Settled(n, u)
  BY <1>1 DEF Settled
<1>4. job'[n].stage = "config" /\ job'[n].phase \in {"active", "finished"} => job'[n] = job[n]
  BY <1>1 DEF NoJob
<1>5. pass'.todo = pass.todo
  BY <1>2, HandleFacts
<1>6. CASE /\ pass'.pc = "save" /\ pass'.updates = NewConfigUpdates /\ pass'.config = TRUE
           /\ pass'.changed = members
           /\ \A m \in Nodes : pass'.entry[m] = IF m \in members THEN Entry("config", "in_progress")
                                                ELSE pass.entry[m]
  <2>1. /\ n \in members => pass'.entry[n] = Entry("config", "in_progress")
        /\ n \notin members => pass'.entry[n] = pass.entry[n]
    BY <1>6
  <2>2. Entry("config", "in_progress") # NoEntry /\ ~Done(Entry("config", "in_progress"))
        /\ ~Past(Entry("config", "in_progress"))
    BY DEF Entry, NoEntry, Done, Past
  <2>3. SentBack(n)' /\ Untouched(n)'
    BY <1>1, <1>2, <1>5, <1>6, <2>1, <2>2 DEF NodeInv, SentBack, Untouched
  <2>4. Done(pass'.entry[n]) => Done(pass.entry[n])
    BY <2>1, <2>2
  <2>5. Past(pass'.entry[n]) => Past(pass.entry[n])
    BY <2>1, <2>2
  <2>6. n \notin missed => Configured(n)'
    BY <1>1, <1>2, <1>4, <2>4 DEF NodeInv, Configured
  <2>7. n \in members /\ n \notin missed /\ ran[n] # NoData => Settled(n, NewConfigUpdates)
    BY <1>1, DroppedWhenDone
  <2>8. n \notin missed => Interrupted(n)'
    BY <1>1, <1>2, <1>3, <1>6, <2>5, <2>7 DEF NodeInv, Interrupted
  <2> QED
    BY <1>1, <2>3, <2>6, <2>8 DEF NodeInv
<1>7. CASE /\ pass'.pc = "run" /\ pass'.updates = pass.updates /\ pass'.config = pass.config
           /\ pass'.changed = pass.changed /\ pass'.entry = pass.entry
  <2>1. SentBack(n)' /\ Untouched(n)'
    BY <1>1, <1>2, <1>5, <1>7 DEF NodeInv, SentBack, Untouched
  <2>2. n \notin missed => Configured(n)' /\ Interrupted(n)'
    BY <1>1, <1>2, <1>3, <1>4, <1>7 DEF NodeInv, Configured, Interrupted
  <2> QED
    BY <1>1, <2>1, <2>2 DEF NodeInv
<1> QED
  BY <1>2, <1>6, <1>7, HandleFacts

\* A node saved is where the pass has it; one that was not saved fails the pass.
LEMMA NodeSave ==
  ASSUME ConfigInv, NEW m \in Nodes, SaveNode(m), NEW n \in Nodes
  PROVE  NodeInv(n)'
<1>1. /\ cm' = cm /\ updates' = updates /\ members' = members /\ missed' = missed
      /\ job' = job /\ ran' = ran /\ since' = since /\ pass.pc = "save" /\ m \in pass.changed
  BY DEF SaveNode
<1>2. NodeInv(n) /\ TypeOK
  BY DEF ConfigInv
<1>3. /\ pass'.pc = pass.pc /\ pass'.updates = pass.updates /\ pass'.entry = pass.entry
      /\ pass'.config = pass.config /\ pass'.changed = pass.changed \ {m} /\ pass'.todo = pass.todo
      /\ \/ entry' = [entry EXCEPT ![m] = pass.entry[m]] /\ pass'.failed = pass.failed
         \/ entry' = entry /\ pass'.failed = TRUE
  BY <1>2, SaveNodeFacts
<1>4. \A u : Settled(n, u)' <=> Settled(n, u)
  BY <1>1 DEF Settled
<1>5. CASE entry'[n] = entry[n] /\ (n # m \/ pass'.failed = TRUE)
           /\ (pass'.failed = FALSE => pass.failed = FALSE)
  <2>1. SentBack(n)' /\ Untouched(n)'
    BY <1>1, <1>2, <1>3, <1>5 DEF NodeInv, SentBack, Untouched, Back
  <2>2. n \notin missed => Configured(n)' /\ Interrupted(n)'
    BY <1>1, <1>2, <1>3, <1>4, <1>5 DEF NodeInv, Configured, Interrupted
  <2> QED
    BY <1>1, <2>1, <2>2 DEF NodeInv
<1>6. CASE n = m /\ entry'[n] = pass.entry[n] /\ pass'.failed = pass.failed
  <2>1. n \in members /\ pass.entry[n] # NoEntry
    BY <1>1, <1>2, <1>6 DEF NodeInv, SentBack
  <2>2. pass.config = TRUE => entry'[n].stage = "config" /\ entry'[n].state = "in_progress"
    BY <1>2, <1>6, <2>1 DEF NodeInv, SentBack, Entry
  <2>3. SentBack(n)' /\ Untouched(n)'
    BY <1>1, <1>2, <1>3, <1>6, <2>1, <2>2 DEF NodeInv, SentBack, Untouched, Back
  <2>4. n \notin missed => Configured(n)' /\ Interrupted(n)'
    BY <1>1, <1>2, <1>3, <1>4, <1>6 DEF NodeInv, Configured, Interrupted
  <2> QED
    BY <1>1, <2>3, <2>4 DEF NodeInv
<1>7. /\ entry \in [Nodes -> EntryType]
      /\ pass.failed \in BOOLEAN
  BY <1>2 DEF TypeOK, PassType
<1> QED
  BY <1>3, <1>5, <1>6, <1>7

\* The status: with the updates in force, or a finished update dropped; the nodes that
\* left are passed by.
LEMMA NodeStatus ==
  ASSUME ConfigInv, SaveStatus, NEW n \in Nodes
  PROVE  NodeInv(n)'
<1>1. /\ cm' = cm /\ members' = members /\ entry' = entry /\ job' = job /\ ran' = ran
      /\ since' = since /\ pass.pc = "save" /\ pass.changed = {}
      /\ updates' = IF pass.failed THEN updates ELSE pass.updates
  BY DEF SaveStatus
<1>2. NodeInv(n) /\ PassInv /\ pass \in PassType
  BY DEF ConfigInv, TypeOK
<1>3. CASE pass.config = TRUE /\ pass.failed = FALSE
  <2>1. /\ pass' = [pass EXCEPT !.pc = "update"] /\ missed' = missed \cup LeftOut
        /\ updates' = pass.updates
    BY <1>1, <1>3 DEF SaveStatus
  <2>2. /\ pass'.pc = "update" /\ pass'.updates = pass.updates /\ pass'.entry = pass.entry
        /\ pass'.config = TRUE /\ pass'.changed = {} /\ pass'.todo = pass.todo /\ pass'.failed = FALSE
    BY <1>1, <1>2, <1>3, <2>1 DEF PassType
  <2>3. n \notin members => n \in missed' \/ entry[n] = NoEntry
    BY <2>1 DEF LeftOut
  <2>4. SentBack(n)' /\ Untouched(n)'
    BY <1>1, <1>2, <1>3, <2>2, <2>3 DEF NodeInv, SentBack, Untouched, Back
  <2>5. \A u : Settled(n, u)' <=> Settled(n, u)
    BY <1>1 DEF Settled
  <2>6. n \notin missed' => n \notin missed
    BY <2>1
  <2>7. n \notin missed' => Configured(n)'
    BY <1>1, <1>2, <2>2, <2>6 DEF NodeInv, Configured
  <2>8. n \notin missed' /\ ran[n] # NoData => n \in members
    BY <1>2, <2>3 DEF NodeInv, Untouched
  <2>9. n \notin missed' => Interrupted(n)'
    BY <1>1, <1>2, <1>3, <2>1, <2>2, <2>5, <2>6, <2>8 DEF NodeInv, Interrupted
  <2> QED
    BY <2>4, <2>7, <2>9 DEF NodeInv
<1>4. CASE ~(pass.config = TRUE /\ pass.failed = FALSE)
  <2>1. pass.config \in BOOLEAN /\ pass.failed \in BOOLEAN
    BY <1>2 DEF PassType
  <2>2. pass' = IdlePass /\ missed' = missed
    BY <1>4, <2>1 DEF SaveStatus
  <2>3. updates' = updates
    BY <1>1, <1>2, <1>4, <2>1 DEF PassInv
  <2> QED
    BY <1>1, <1>2, <2>2, <2>3, NodeIdle
<1> QED
  BY <1>3, <1>4

\* The ConfigMap: every member is back at config, and one whose run is on the old data is
\* passed by; the keys that change are on record.
LEMMA NodeUpdate ==
  ASSUME ConfigInv, UpdateConfigMap, NEW n \in Nodes
  PROVE  NodeInv(n)'
<1>1. /\ updates' = updates /\ members' = members /\ entry' = entry /\ job' = job /\ ran' = ran
      /\ since' = since /\ pass.pc = "update" /\ pass' = IdlePass
  BY DEF UpdateConfigMap
<1>2. NodeInv(n) /\ PassInv /\ TypeOK
  BY DEF ConfigInv
<1>3. CASE cm' = cm /\ missed' = missed
  BY <1>1, <1>2, <1>3, NodeIdle
<1>4. CASE cm' = pass.spec /\ missed' = missed \cup {m \in Nodes : HasOldRun(m)}
  <2>0. /\ pass'.pc = "idle" /\ pass'.config = FALSE /\ pass'.changed = {} /\ pass'.todo = {}
        /\ pass'.entry[n] = NoEntry
    BY <1>1, IdleFacts
  <2>1. SentBack(n)' /\ Untouched(n)'
    BY <1>1, <1>2, <2>0 DEF NodeInv, SentBack, Untouched
  <2>2. SUFFICES ASSUME n \notin missed'
                 PROVE  Configured(n)' /\ Interrupted(n)'
    BY <2>1 DEF NodeInv
  <2>3. n \notin missed /\ ~HasOldRun(n)
    BY <1>4, <2>2
  <2>4. /\ pass.config = TRUE /\ pass.updates = updates /\ ChangedKeys \subseteq updates
        /\ pass.spec \in Data
    BY <1>1, <1>2 DEF PassInv
  <2>5. n \notin members => entry[n] = NoEntry
    BY <1>1, <1>2, <2>3 DEF NodeInv, SentBack
  <2>6. n \in members => Back(n)
    BY <1>1, <1>2, <2>4 DEF NodeInv, SentBack
  <2>7. ~Done(entry[n]) /\ ~Past(entry[n])
    BY <2>3, <2>5, <2>6 DEF Done, Past, Back, HasOldRun, NoEntry, Entry
  <2>8. ~Done(NoEntry) /\ ~Past(NoEntry)
    BY DEF Done, Past, NoEntry, Entry
  <2>9. Configured(n)'
    BY <1>1, <2>0, <2>3, <2>7, <2>8 DEF Configured, HasOldRun
  <2>10. ran[n] # NoData => Settled(n, updates)'
    <3> SUFFICES ASSUME ran[n] # NoData, NEW k \in InterruptKeys \ updates
                 PROVE  since[n][k] = pass.spec[k]
      BY <1>1, <1>4 DEF Settled
    <3>1. since[n][k] = cm[k]
      BY <1>2, <2>3 DEF NodeInv, Interrupted, Settled
    <3>2. k \in DOMAIN pass.spec
      BY <2>4, ConfigAssumption DEF ConfigAssumption, Data
    <3>3. pass.spec[k] = cm[k]
      BY <2>4, <3>2 DEF ChangedKeys
    <3> QED
      BY <3>1, <3>3
  <2>11. Interrupted(n)'
    BY <1>1, <2>0, <2>7, <2>8, <2>10 DEF Interrupted
  <2> QED
    BY <2>9, <2>11
<1> QED
  BY <1>3, <1>4 DEF UpdateConfigMap

\* A started stage follows from the entry the pass has; its Job has the ConfigMap's data.
LEMMA NodeRun ==
  ASSUME ConfigInv, NEW m \in Nodes, RunNode(m), NEW n \in Nodes
  PROVE  NodeInv(n)'
<1>1. /\ cm' = cm /\ updates' = updates /\ members' = members /\ missed' = missed /\ entry' = entry
      /\ ran' = ran /\ since' = since /\ pass.pc = "run" /\ m \in pass.todo
  BY DEF RunNode
<1>2. NodeInv(n) /\ TypeOK /\ pass.config = FALSE /\ m \in members
  BY <1>1 DEF ConfigInv, PassInv, NodeInv, SentBack
<1> DEFINE stage == NextStage(pass.entry[m], pass.updates)
<1>3. /\ pass'.pc = "run" /\ pass'.updates = pass.updates
      /\ pass'.config = FALSE /\ pass'.todo = pass.todo \ {m}
      /\ \A x \in Nodes \ {m} : pass'.entry[x] = pass.entry[x] /\ job'[x] = job[x]
      /\ \/ pass'.entry = pass.entry /\ pass'.changed = pass.changed
            /\ (job' = job \/ job'[m] = NoJob)
         \/ /\ ~IsPackageComplete(pass.entry[m], pass.updates)
            /\ stage \in Stages
            /\ job'[m] = [phase |-> "active", stage |-> stage, data |-> cm]
            /\ pass'.entry[m] = Entry(stage, "in_progress")
            /\ pass'.changed \subseteq pass.changed \cup {m}
  BY <1>1, <1>2, RunNodeFacts
<1>4. \A u : Settled(n, u)' <=> Settled(n, u)
  BY <1>1 DEF Settled
<1>5. CASE pass'.entry[n] = pass.entry[n] /\ (job'[n] = job[n] \/ job'[n] = NoJob)
           /\ (n \in pass'.changed => n \in pass.changed)
  <2>1. SentBack(n)' /\ Untouched(n)'
    BY <1>1, <1>2, <1>3, <1>5 DEF NodeInv, SentBack, Untouched
  <2>2. n \notin missed => Configured(n)' /\ Interrupted(n)'
    BY <1>1, <1>2, <1>3, <1>4, <1>5 DEF NodeInv, Configured, Interrupted, NoJob
  <2> QED
    BY <1>1, <2>1, <2>2 DEF NodeInv
<1>6. CASE /\ n = m
           /\ ~IsPackageComplete(pass.entry[n], pass.updates)
           /\ stage \in Stages
           /\ job'[n] = [phase |-> "active", stage |-> stage, data |-> cm]
           /\ pass'.entry[n] = Entry(stage, "in_progress")
  <2>1. pass'.entry[n] # NoEntry
    BY <1>6 DEF Entry, NoEntry, Stages
  <2>2. SentBack(n)' /\ Untouched(n)'
    BY <1>1, <1>2, <1>3, <1>6, <2>1 DEF NodeInv, SentBack, Untouched
  <2>3. pass.entry[n] \in EntryType
    BY <1>2 DEF TypeOK, PassType
  <2>4. Done(pass'.entry[n]) => Done(pass.entry[n])
    BY <1>6, <2>3 DEF Done, NextStage, Entry, EntryType, NoEntry, States, Stages, IsPackageComplete
  <2>5. Past(pass'.entry[n]) => Past(pass.entry[n])
    BY <1>6, <2>3 DEF Past, NextStage, Entry, EntryType, NoEntry, States, Stages, IsPackageComplete
  <2>6. n \notin missed => Configured(n)' /\ Interrupted(n)'
    BY <1>1, <1>2, <1>3, <1>4, <1>6, <2>4, <2>5 DEF NodeInv, Configured, Interrupted
  <2> QED
    BY <1>1, <2>2, <2>6 DEF NodeInv
<1>7. n = m \/ n \in Nodes \ {m}
  OBVIOUS
<1> HIDE DEF stage
<1> QED
  BY <1>3, <1>5, <1>6, <1>7 DEF stage

\* A recorded config stage has the ConfigMap's data; a recorded interrupt comes after it.
LEMMA NodeRecorded ==
  ASSUME ConfigInv, NEW n \in Nodes, JobRecorded(n)
  PROVE  NodeInv(n)'
<1>1. /\ cm' = cm /\ updates' = updates /\ members' = members /\ missed' = missed /\ pass' = pass
      /\ job'[n] = InPhase(job[n], "recorded") /\ job[n].phase = "finished"
  BY DEF JobRecorded, ConfigInv, TypeOK
<1>2. NodeInv(n) /\ TypeOK
  BY DEF ConfigInv
<1>3. job'[n].phase = "recorded" /\ job'[n].stage = job[n].stage
  BY <1>1 DEF InPhase
<1>4. CASE ~Open(n)
  <2>1. entry' = entry /\ ran' = ran /\ since' = since
    BY <1>4 DEF JobRecorded
  <2>2. \A u : Settled(n, u)' <=> Settled(n, u)
    BY <1>1, <2>1 DEF Settled
  <2>3. SentBack(n)' /\ Untouched(n)'
    BY <1>1, <1>2, <1>3, <2>1 DEF NodeInv, SentBack, Untouched, Back
  <2>4. n \notin missed => Configured(n)' /\ Interrupted(n)'
    BY <1>1, <1>2, <1>3, <2>1, <2>2 DEF NodeInv, Configured, Interrupted
  <2> QED
    BY <1>1, <2>3, <2>4 DEF NodeInv
<1>5. CASE Open(n)
  <2>1. /\ entry'[n] = Entry(job[n].stage, "complete")
        /\ ran'[n] = IF job[n].stage = "config" THEN job[n].data ELSE ran[n]
        /\ since'[n] = IF job[n].stage = "interrupt" THEN ran[n]
                       ELSE IF job[n].stage = "config" /\ ran[n] = NoData THEN job[n].data
                       ELSE since[n]
    BY <1>2, <1>5 DEF JobRecorded, TypeOK
  <2>2. entry[n].stage = job[n].stage /\ entry[n] # NoEntry
    BY <1>5 DEF Open, NoEntry
  <2>3. job[n].stage # "none"
    BY <1>1, <1>2 DEF TypeOK, JobType, Stages, NoJob
  <2>4. SentBack(n)' /\ Untouched(n)'
    BY <1>1, <1>2, <1>3, <2>1, <2>2, <2>3 DEF NodeInv, SentBack, Untouched, Back, Entry, NoEntry
  <2> SUFFICES ASSUME n \notin missed
               PROVE  Configured(n)' /\ Interrupted(n)'
    BY <1>1, <2>4 DEF NodeInv
  <2>5. Configured(n) /\ Interrupted(n)
    BY <1>2 DEF NodeInv
  <2>6. CASE job[n].stage = "config"
    <3>1. job[n].data = cm /\ ran'[n] = cm
      BY <1>1, <2>1, <2>5, <2>6 DEF Configured
    <3>2. Configured(n)'
      BY <1>1, <1>3, <3>1 DEF Configured
    <3>3. ran[n] = NoData => \A u : Settled(n, u)'
      BY <1>1, <2>1, <2>6, <3>1 DEF Settled
    <3>4. ran[n] # NoData => \A u : Settled(n, u)' <=> Settled(n, u)
      BY <1>1, <2>1, <2>6 DEF Settled
    <3>5. ~Past(entry'[n])
      BY <2>1, <2>6 DEF Past, Entry
    <3>6. Interrupted(n)'
      BY <1>1, <2>5, <3>3, <3>4, <3>5 DEF Interrupted
    <3> QED
      BY <3>2, <3>6
  <2>7. CASE job[n].stage = "interrupt"
    <3>1. ran[n] = cm /\ ran'[n] = ran[n] /\ since'[n] = cm
      BY <2>1, <2>2, <2>5, <2>7 DEF Configured, Done
    <3>2. \A u : Settled(n, u)'
      BY <1>1, <3>1 DEF Settled
    <3>3. Configured(n)'
      BY <1>1, <1>3, <3>1 DEF Configured
    <3>4. Interrupted(n)'
      BY <1>1, <3>2 DEF Interrupted
    <3> QED
      BY <3>3, <3>4
  <2>8. CASE job[n].stage \notin {"config", "interrupt"}
    <3>1. ran'[n] = ran[n] /\ since'[n] = since[n]
      BY <2>1, <2>8
    <3>2. \A u : Settled(n, u)' <=> Settled(n, u)
      BY <1>1, <3>1 DEF Settled
    <3>3. /\ Done(entry'[n]) => Done(entry[n])
          /\ Past(entry'[n]) => Past(entry[n])
      BY <2>1, <2>2, <2>8 DEF Done, Past, Entry
    <3> QED
      BY <1>1, <1>3, <2>5, <3>1, <3>2, <3>3 DEF Configured, Interrupted
  <2> QED
    BY <2>6, <2>7, <2>8
<1> QED
  BY <1>4, <1>5

\* A failed attempt leaves the stage of the entry.
LEMMA NodeAttempt ==
  ASSUME ConfigInv, NEW n \in Nodes, AttemptFails(n)
  PROVE  NodeInv(n)'
<1>1. /\ cm' = cm /\ updates' = updates /\ members' = members /\ missed' = missed /\ pass' = pass
      /\ job' = job /\ ran' = ran /\ since' = since
      /\ entry'[n] = Entry(entry[n].stage, "erroring") /\ entry[n].state # "complete"
      /\ entry[n] # NoEntry
  BY DEF AttemptFails, ConfigInv, TypeOK, Open, NoEntry
<1>2. NodeInv(n)
  BY DEF ConfigInv
<1>3. \A u : Settled(n, u)' <=> Settled(n, u)
  BY <1>1 DEF Settled
<1>4. /\ Done(entry'[n]) => Done(entry[n])
      /\ Past(entry'[n]) => Past(entry[n])
      /\ entry'[n] # NoEntry /\ entry'[n].stage = entry[n].stage /\ entry'[n].state = "erroring"
  BY <1>1 DEF Done, Past, Entry, NoEntry
<1>5. SentBack(n)' /\ Untouched(n)'
  BY <1>1, <1>2, <1>4 DEF NodeInv, SentBack, Untouched, Back
<1>6. n \notin missed => Configured(n)' /\ Interrupted(n)'
  BY <1>1, <1>2, <1>3, <1>4 DEF NodeInv, Configured, Interrupted
<1> QED
  BY <1>1, <1>5, <1>6 DEF NodeInv

-----------------------------------------------------------------------------
(***************************************************************************)
(* The theorems.                                                           *)
(***************************************************************************)
\* No step breaks the invariant on a node.
LEMMA NodeStep ==
  ASSUME ConfigInv, [Next]_vars, NEW n \in Nodes
  PROVE  NodeInv(n)'
<1>0. NodeInv(n) /\ TypeOK /\ PassInv
  BY DEF ConfigInv
<1>1. CASE ValidateRunningPackages \/ ValidateNodeConfigmaps
  <2>1. /\ pass = IdlePass /\ pass' = IdlePass /\ cm' = cm /\ updates' = updates
        /\ missed' = missed /\ entry' = entry /\ ran' = ran /\ since' = since
        /\ (job'[n] = job[n] \/ job'[n] = NoJob)
    BY <1>0, <1>1 DEF ValidateRunningPackages, ValidateNodeConfigmaps, PassInv
  <2> QED
    BY <1>0, <2>1, NodeBetween
<1>2. CASE Crash
  BY <1>0, <1>2, NodeIdle DEF Crash
<1>3. CASE RunEnds
  <2>1. CASE pass' = IdlePass
    BY <1>0, <1>3, <2>1, NodeIdle DEF RunEnds
  <2>2. CASE pass' = [pass EXCEPT !.pc = "save"]
    <3>1. /\ pass'.pc = "save" /\ pass'.entry = pass.entry /\ pass'.config = pass.config
          /\ pass'.changed = pass.changed /\ pass'.todo = pass.todo /\ pass.pc = "run"
          /\ pass.config = FALSE
      BY <1>0, <1>3, <2>2 DEF RunEnds, PassType, TypeOK, PassInv
    <3>2. /\ cm' = cm /\ updates' = updates /\ members' = members /\ missed' = missed
          /\ entry' = entry /\ job' = job /\ ran' = ran /\ since' = since
      BY <1>3 DEF RunEnds
    <3>3. \A u : Settled(n, u)' <=> Settled(n, u)
      BY <3>2 DEF Settled
    <3>4. SentBack(n)' /\ Untouched(n)'
      BY <1>0, <3>1, <3>2 DEF NodeInv, SentBack, Untouched
    <3>5. n \notin missed => Configured(n)' /\ Interrupted(n)'
      BY <1>0, <3>1, <3>2, <3>3 DEF NodeInv, Configured, Interrupted
    <3> QED
      BY <3>2, <3>4, <3>5 DEF NodeInv
  <2> QED
    BY <1>3, <2>1, <2>2 DEF RunEnds
<1>4. ASSUME NEW k \in Keys, Edit(k)
      PROVE  NodeInv(n)'
  BY <1>0, <1>4, NodeFrame DEF Edit
<1>5. ASSUME NEW m \in Nodes, JobFinishes(m)
      PROVE  NodeInv(n)'
  <2>1. /\ cm' = cm /\ updates' = updates /\ members' = members /\ missed' = missed /\ pass' = pass
        /\ entry' = entry /\ ran' = ran /\ since' = since /\ job[m].phase = "active"
        /\ job' = [job EXCEPT ![m] = InPhase(job[m], "finished")] /\ job \in [Nodes -> JobType]
    BY <1>0, <1>5 DEF JobFinishes, TypeOK
  <2>2. CASE n # m
    BY <1>0, <2>1, <2>2, NodeFrame
  <2>3. CASE n = m
    <3>1. job'[n].stage = job[n].stage /\ job'[n].data = job[n].data /\ job[n].phase = "active"
      BY <2>1, <2>3 DEF InPhase
    <3>2. \A u : Settled(n, u)' <=> Settled(n, u)
      BY <2>1 DEF Settled
    <3>3. SentBack(n)' /\ Untouched(n)'
      BY <1>0, <2>1, <3>1 DEF NodeInv, SentBack, Untouched, Back
    <3>4. n \notin missed => Configured(n)' /\ Interrupted(n)'
      BY <1>0, <2>1, <3>1, <3>2 DEF NodeInv, Configured, Interrupted
    <3> QED
      BY <2>1, <3>3, <3>4 DEF NodeInv
  <2> QED
    BY <2>2, <2>3
<1>6. ASSUME NEW m \in Nodes, AttemptFails(m)
      PROVE  NodeInv(n)'
  <2>1. CASE n # m
    <3>1. /\ cm' = cm /\ updates' = updates /\ members' = members /\ missed' = missed /\ pass' = pass
          /\ entry'[n] = entry[n] /\ ran' = ran /\ since' = since /\ job' = job
      BY <1>0, <1>6, <2>1 DEF AttemptFails, TypeOK
    <3> QED
      BY <1>0, <3>1, NodeFrame
  <2> QED
    BY <1>6, <2>1, NodeAttempt
<1>7. ASSUME NEW m \in Nodes, JobRecorded(m)
      PROVE  NodeInv(n)'
  <2>1. CASE n # m
    <3>1. /\ cm' = cm /\ updates' = updates /\ members' = members /\ missed' = missed /\ pass' = pass
          /\ entry'[n] = entry[n] /\ ran'[n] = ran[n] /\ since'[n] = since[n] /\ job'[n] = job[n]
      BY <1>0, <1>7, <2>1 DEF JobRecorded, TypeOK
    <3> QED
      BY <1>0, <3>1, NodeFrame
  <2> QED
    BY <1>7, <2>1, NodeRecorded
<1>8. ASSUME NEW m \in Nodes, Move(m)
      PROVE  NodeInv(n)'
  <2>1. /\ pass = IdlePass /\ pass' = IdlePass /\ cm' = cm /\ updates' = updates
        /\ missed' = missed /\ entry' = entry /\ ran' = ran /\ since' = since /\ job' = job
    BY <1>0, <1>8 DEF Move, PassInv
  <2> QED
    BY <1>0, <2>1, NodeBetween
<1>9. CASE UNCHANGED vars
  BY <1>0, <1>9, NodeFrame DEF vars
<1> QED
  BY <1>1, <1>2, <1>3, <1>4, <1>5, <1>6, <1>7, <1>8, <1>9, NodeBegin, NodeHandle, NodeSave, NodeStatus,
     NodeUpdate, NodeRun DEF Next, Reconcile

\* At the start the members are installed with the data of the ConfigMap.
LEMMA ConfigInit == Init => ConfigInv
<1> SUFFICES ASSUME Init
             PROVE  ConfigInv
  OBVIOUS
<1> DEFINE data == [k \in Keys |-> 0]
           done == Entry(IF PackageInterrupt THEN "post-interrupt" ELSE "config", "complete")
<1>1. /\ spec = data /\ cm = data /\ updates = {} /\ members = InitialMembers
      /\ entry = [n \in Nodes |-> IF n \in InitialMembers THEN done ELSE NoEntry]
      /\ meta = InitialMembers /\ job = [n \in Nodes |-> NoJob]
      /\ ran = [n \in Nodes |-> IF n \in InitialMembers THEN data ELSE NoData] /\ missed = {}
      /\ since = [n \in Nodes |-> IF n \in InitialMembers THEN data ELSE NoData]
      /\ pass = IdlePass /\ used = [edits |-> 0, moves |-> 0, failures |-> 0, faults |-> 0]
  BY DEF Init
<1>2. data \in Data /\ InitialMembers \in SUBSET Nodes
  BY ConfigAssumption DEF ConfigAssumption, Data
<1>3. done \in EntryType /\ NoEntry \in EntryType /\ done # NoEntry
  BY DEF Entry, EntryType, Stages, States, NoEntry
<1> HIDE DEF data, done
<1>4. PassInv
  BY <1>1, IdleFacts DEF PassInv
<1>5. TypeOK
  <2>1. entry \in [Nodes -> EntryType]
    BY <1>1, <1>3
  <2>2. job \in [Nodes -> JobType]
    BY <1>1 DEF JobType
  <2>3. ran \in [Nodes -> Data \cup {NoData}] /\ since \in [Nodes -> Data \cup {NoData}]
    BY <1>1, <1>2
  <2>4. used \in [edits: Nat, moves: Nat, failures: Nat, faults: Nat]
    BY <1>1
  <2>5. pass \in PassType
    BY <1>1, IdleFacts
  <2>6. spec \in Data /\ cm \in Data /\ updates \in SUBSET Keys /\ members \in SUBSET Nodes
        /\ meta \in SUBSET Nodes /\ missed \in SUBSET Nodes
    BY <1>1, <1>2
  <2> QED
    BY <2>1, <2>2, <2>3, <2>4, <2>5, <2>6 DEF TypeOK
<1>6. ASSUME NEW n \in Nodes
      PROVE  NodeInv(n)
  <2>1. /\ pass.pc = "idle" /\ pass.config = FALSE /\ pass.changed = {} /\ pass.todo = {}
        /\ pass.entry[n] = NoEntry
    BY <1>1, IdleFacts
  <2>2. ~Done(NoEntry) /\ ~Past(NoEntry)
    BY DEF Done, Past, NoEntry, Entry
  <2>3. SentBack(n)
    BY <2>1 DEF SentBack
  <2>4. CASE n \in InitialMembers
    <3>1. ran[n] = cm /\ since[n] = cm /\ entry[n] # NoEntry /\ job[n] = NoJob
      BY <1>1, <1>3, <2>4
    <3>2. \A u : Settled(n, u)
      BY <3>1 DEF Settled
    <3> QED
      BY <2>1, <2>2, <2>3, <3>1, <3>2 DEF NodeInv, Untouched, Configured, Interrupted, NoJob
  <2>5. CASE n \notin InitialMembers
    <3>1. ran[n] = NoData /\ entry[n] = NoEntry /\ job[n] = NoJob
      BY <1>1, <2>5
    <3> QED
      BY <2>1, <2>2, <2>3, <3>1 DEF NodeInv, Untouched, Configured, Interrupted, NoJob
  <2> QED
    BY <2>4, <2>5
<1> QED
  BY <1>4, <1>5, <1>6 DEF ConfigInv

\* The types and the facts above hold in every state.
LEMMA ConfigInvariant == Spec => []ConfigInv
<1>1. ConfigInv /\ [Next]_vars => ConfigInv'
  <2> SUFFICES ASSUME ConfigInv, [Next]_vars
               PROVE  ConfigInv'
    OBVIOUS
  <2>1. TypeOK' /\ PassInv'
    BY TypeStep, PassStep DEF ConfigInv
  <2>2. \A n \in Nodes : NodeInv(n)'
    BY NodeStep
  <2> QED
    BY <2>1, <2>2 DEF ConfigInv
<1> QED
  BY ConfigInit, <1>1, PTL DEF Spec

\* Every variable has its type in every state.
THEOREM TypeInvariant == Spec => []TypeOK
<1>1. ConfigInv => TypeOK
  BY DEF ConfigInv
<1> QED
  BY ConfigInvariant, <1>1, PTL

\* A complete node was configured with the data the ConfigMap holds, unless the update
\* passed it by: HandleConfigUpdates saves every node at config before it writes the
\* ConfigMap, and stops at the first write that fails.
THEOREM ConfiguredWhenComplete == Spec => []CompleteIsConfigured
<1>1. ConfigInv => CompleteIsConfigured
  <2> SUFFICES ASSUME ConfigInv, NEW n \in members \ missed, Complete(n)
               PROVE  ran[n] = cm
    BY DEF CompleteIsConfigured
  <2>1. n \in Nodes /\ entry[n] \in EntryType
    BY DEF ConfigInv, TypeOK
  <2>2. Done(entry[n])
    BY <2>1 DEF Complete, IsPackageComplete, Done, Entry, EntryType, NoEntry
  <2> QED
    BY <2>1, <2>2 DEF ConfigInv, NodeInv, Configured
<1> QED
  BY ConfigInvariant, <1>1, PTL

\* A complete node had an interrupt after the last change of a key that asks for one,
\* unless an update passed it by: the keys stay in status.configUpdates until every
\* selected node is complete, also over updates that are merged (AddConfigUpdates).
THEOREM InterruptedWhenComplete == Spec => []InterruptedForKeys
<1>1. ConfigInv => InterruptedForKeys
  <2> SUFFICES ASSUME ConfigInv, NEW n \in members \ missed, Complete(n), NEW k \in InterruptKeys
               PROVE  since[n][k] = ran[n][k]
    BY DEF InterruptedForKeys
  <2>1. n \in Nodes /\ entry[n] \in EntryType /\ cm \in Data
    BY DEF ConfigInv, TypeOK
  <2>2. Done(entry[n])
    BY <2>1 DEF Complete, IsPackageComplete, Done, Entry, EntryType, NoEntry
  <2>3. Configured(n) /\ Interrupted(n)
    BY <2>1 DEF ConfigInv, NodeInv
  <2>4. ran[n] = cm
    BY <2>2, <2>3 DEF Configured
  <2>5. CASE entry[n].stage = "post-interrupt"
    <3>1. Settled(n, {})
      BY <2>3, <2>5 DEF Interrupted, Past
    <3> QED
      BY <2>4, <3>1 DEF Settled
  <2>6. CASE ~HasInterrupt(updates)
    <3>1. updates \cap InterruptKeys = {}
      BY <2>6 DEF HasInterrupt
    <3>2. cm # NoData
      BY <2>1, ConfigAssumption DEF ConfigAssumption, Data, NoData
    <3>3. Settled(n, updates)
      BY <2>3, <2>4, <3>2 DEF Interrupted
    <3> QED
      BY <2>4, <3>1, <3>3 DEF Settled
  <2> QED
    BY <2>5, <2>6 DEF Complete, IsPackageComplete
<1> QED
  BY ConfigInvariant, <1>1, PTL
=============================================================================
