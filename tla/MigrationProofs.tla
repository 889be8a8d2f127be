-------------------------- MODULE MigrationProofs --------------------------
(***************************************************************************)
(* Proofs about Migration, for any number of Skyhooks on one node, and of  *)
(* upgrades, rollbacks, edits and faults: the rollback window is kept, a   *)
(* ConfigMap follows its NodeWright, and the new operator does not do      *)
(* again what the earlier one has done.                                    *)
(***************************************************************************)
EXTENDS Migration, TLAPS

\* A Skyhook that is there has a spec, so that what the earlier operator writes is a key.
SpecsExist == \A s \in Names : legacy[s].here => legacy[s].spec # 0

\* Only a NodeWright that is there is stamped, and the mirror writes only ones that are.
StampsExist ==
  \A s \in Names : /\ target[s].here \/ target[s].stamp = "none"
                   /\ mirror[s].pc = "idle" \/ mirror[s].desired.here

\* What a pass has read of the stamps of the NodeWrights it has not dealt with is still
\* true once it is "elapsed": nobody else takes a stamp away, or the NodeWright.
StampsRead ==
  /\ pass.now \cap pass.todo = {}
  /\ pass.pc \in {"nodes", "pods", "stamp"} =>
       \A s \in pass.todo \cup pass.now :
         /\ target[s].here
         /\ pass.seen[s].stamp = "elapsed" => target[s].stamp = "elapsed"

IInv == TypeOK /\ SpecsExist /\ StampsExist /\ StampsRead

-----------------------------------------------------------------------------
LEMMA EmptyRecords ==
  /\ NoTarget \in TargetRecord /\ NoTarget.stamp = "none" /\ NoTarget.here = FALSE
  /\ NoKeys \in NodeKeys
BY DEF NoTarget, TargetRecord, NoKeys, NodeKeys

LEMMA IdleRecords ==
  /\ IdleMirror \in MirrorRecord /\ IdleMirror.pc = "idle"
  /\ IdlePass \in PassRecord /\ IdlePass.pc = "idle" /\ IdlePass.todo = {} /\ IdlePass.now = {}
  /\ Gone \in LegacyRecord /\ Gone.here = FALSE
  /\ NoWorkload \in WorkloadRecord
<1>1. IdleMirror \in MirrorRecord /\ IdleMirror.pc = "idle"
  BY EmptyRecords DEF IdleMirror, MirrorRecord
<1>2. IdlePass \in PassRecord /\ IdlePass.pc = "idle" /\ IdlePass.todo = {} /\ IdlePass.now = {}
  BY EmptyRecords DEF IdlePass, PassRecord
<1>3. Gone \in LegacyRecord /\ Gone.here = FALSE
  BY DEF Gone, LegacyRecord
<1>4. NoWorkload \in WorkloadRecord
  BY DEF NoWorkload, WorkloadRecord
<1>5. QED
  BY <1>1, <1>2, <1>3, <1>4

-----------------------------------------------------------------------------
LEMMA InitIInv == Init => IInv
<1> SUFFICES ASSUME Init PROVE IInv
  OBVIOUS
<1>1. \A s \in Names : legacy[s].spec = 1
  BY DEF Init, Gone
<1>2. [Gone EXCEPT !.here = TRUE, !.gen = 1, !.spec = 1] \in LegacyRecord
  BY DEF Gone, LegacyRecord
<1>4. TypeOK
  <2>1. legacy \in [Names -> LegacyRecord]
    BY <1>2 DEF Init
  <2>2. QED
    BY <2>1, EmptyRecords, IdleRecords DEF Init, TypeOK
<1>5. SpecsExist
  BY <1>1 DEF SpecsExist
<1>6. StampsExist /\ StampsRead
  BY EmptyRecords, IdleRecords DEF Init, StampsExist, StampsRead
<1>7. QED
  BY <1>4, <1>5, <1>6 DEF IInv

-----------------------------------------------------------------------------
(***************************************************************************)
(* Types.                                                                  *)
(***************************************************************************)
LEMMA ConvertType ==
  ASSUME TypeOK, NEW s \in Names
  PROVE  Convert(s) \in TargetRecord /\ Convert(s).here
<1>1. legacy[s] \in LegacyRecord
  BY DEF TypeOK
<1>2. legacy[s].gen \in Nat /\ legacy[s].spec \in Nat /\ legacy[s].paused \in BOOLEAN
  BY <1>1 DEF LegacyRecord
<1>3. QED
  BY <1>2 DEF Convert, NoTarget, TargetRecord

LEMMA SyncType ==
  ASSUME NEW existing \in TargetRecord, NEW desired \in TargetRecord
  PROVE  /\ SyncMirrorOntoExisting(existing, desired) \in TargetRecord
         /\ SyncMirrorOntoExisting(existing, desired).stamp = existing.stamp
         /\ SyncMirrorOntoExisting(existing, desired).here = desired.here
BY DEF SyncMirrorOntoExisting, TargetRecord

\* Migrate and Prune keep what a rolled back operator reads of other NodeWrights.
LEMMA MigrateType ==
  ASSUME NEW nd \in NodeKeys, NEW s \in Names
  PROVE  Migrate(nd, s) \in NodeKeys /\ Migrate(nd, s).old = nd.old
<1>1. CASE nd.version[s]
  BY <1>1 DEF Migrate
<1>2. CASE ~nd.version[s]
  <2>1. [x \in Names |-> IF nd.new[x] # 0 THEN nd.new[x] ELSE nd.old[x]] \in [Names -> Nat]
    BY DEF NodeKeys
  <2>2. [x \in Names |-> nd.version[x] \/ nd.old[x] # 0 \/ x = s] \in [Names -> BOOLEAN]
    OBVIOUS
  <2>3. (IF "old" \in nd.ignore THEN nd.ignore \cup {"new"} ELSE nd.ignore) \in SUBSET {"old", "new"}
    BY DEF NodeKeys
  <2>4. QED
    BY <1>2, <2>1, <2>2, <2>3 DEF Migrate, NodeKeys
<1>3. QED
  BY <1>1, <1>2

LEMMA PruneType ==
  ASSUME NEW nd \in NodeKeys, NEW s \in Names
  PROVE  Prune(nd, s) \in NodeKeys /\ \A x \in Names \ {s} : Prune(nd, s).old[x] = nd.old[x]
BY DEF Prune, NodeKeys

LEMMA PatchedType ==
  ASSUME TypeOK, NEW snap \in NodeKeys, NEW mem \in NodeKeys
  PROVE  PatchedNode(snap, mem) \in NodeKeys
<1>1. node \in NodeKeys
  BY DEF TypeOK
<1>2. [s \in Names |-> IF snap.old[s] = mem.old[s] THEN node.old[s] ELSE mem.old[s]] \in [Names -> Nat]
  BY <1>1 DEF NodeKeys
<1>3. [s \in Names |-> IF snap.new[s] = mem.new[s] THEN node.new[s] ELSE mem.new[s]] \in [Names -> Nat]
  BY <1>1 DEF NodeKeys
<1>4. [s \in Names |-> IF snap.version[s] = mem.version[s] THEN node.version[s] ELSE mem.version[s]] \in [Names -> BOOLEAN]
  BY <1>1 DEF NodeKeys
<1>5. node.ignore \cup (mem.ignore \ snap.ignore) \in SUBSET {"old", "new"}
  BY <1>1 DEF NodeKeys
<1>6. QED
  BY <1>2, <1>3, <1>4, <1>5 DEF PatchedNode, NodeKeys

LEMMA AdoptType ==
  ASSUME NEW w \in WorkloadRecord
  PROVE  /\ Adopt(w) \in WorkloadRecord /\ Relabel(w) \in WorkloadRecord
         /\ [w EXCEPT !.pods = FALSE] \in WorkloadRecord
         /\ UpsertConfigmaps(w) \in WorkloadRecord
BY DEF Adopt, Relabel, UpsertConfigmaps, WorkloadRecord

\* What an edit makes of a Skyhook or of a NodeWright, and where a pass goes from a stamp.
LEMMA EditedLegacy ==
  ASSUME NEW s \in Names, EditLegacy(s)
  PROVE  \/ legacy' = [legacy EXCEPT ![s] = [legacy[s] EXCEPT !.spec = @ + 1, !.gen = @ + 1]]
         \/ legacy' = [legacy EXCEPT ![s] = [legacy[s] EXCEPT !.paused = ~@]]
         \/ legacy' = [legacy EXCEPT ![s] = [legacy[s] EXCEPT !.deleting = TRUE]]
BY Zenon DEF EditLegacy

LEMMA EditedTarget ==
  ASSUME NEW s \in Names, EditTarget(s)
  PROVE  \/ target' = [target EXCEPT ![s] = [target[s] EXCEPT !.spec = @ + 1]]
         \/ target' = [target EXCEPT ![s] = [target[s] EXCEPT !.paused = ~@]]
         \/ target' = [target EXCEPT ![s] = [target[s] EXCEPT !.deleting = TRUE]]
         \/ ~target[s].here /\ target' = [target EXCEPT ![s] = [NoTarget EXCEPT !.here = TRUE, !.spec = 1]]
BY Zenon DEF EditTarget

LEMMA AfterStamp ==
  ASSUME NEW s \in Names, ReconcileStamp(s)
  PROVE  \/ pass' = IdlePass
         \/ \E again \in BOOLEAN : pass' = [pass EXCEPT !.pc = "nodes", !.now = {}, !.again = again]
         \/ pass' = [IdlePass EXCEPT !.pc = "work", !.seen = pass.seen, !.todo = {x \in Names : pass.seen[x].here}]
BY Zenon DEF ReconcileStamp

LEMMA TypeStep == TypeOK /\ [Next]_vars => TypeOK'
<1> SUFFICES ASSUME TypeOK, [Next]_vars PROVE TypeOK'
  OBVIOUS
<1> USE IdleRecords, EmptyRecords
<1>1. ASSUME NEW s \in Names, OldStarts(s) PROVE TypeOK'
  <2>1. [legacy[s] EXCEPT !.status = "in_progress"] \in LegacyRecord
    BY DEF TypeOK, LegacyRecord
  <2>2. legacy' \in [Names -> LegacyRecord]
    BY <1>1, <2>1 DEF TypeOK, OldStarts
  <2>3. /\ [workload[s] EXCEPT !.pods = TRUE, !.labels = @ \cup {"old"}] \in WorkloadRecord
        /\ [here |-> TRUE, labels |-> {"old"}, owner |-> "legacy", pods |-> TRUE] \in WorkloadRecord
    BY DEF TypeOK, WorkloadRecord
  <2>4. workload' \in [Names -> WorkloadRecord]
    <3>1. \/ workload' = [workload EXCEPT ![s] = [workload[s] EXCEPT !.pods = TRUE, !.labels = @ \cup {"old"}]]
          \/ workload' = [workload EXCEPT ![s] = [here |-> TRUE, labels |-> {"old"}, owner |-> "legacy", pods |-> TRUE]]
      BY <1>1, Zenon DEF OldStarts
    <3>2. \A w \in WorkloadRecord : [workload EXCEPT ![s] = w] \in [Names -> WorkloadRecord]
      BY DEF TypeOK
    <3>3. QED
      BY <2>3, <3>1, <3>2
  <2>5. QED
    BY <1>1, <2>2, <2>4 DEF TypeOK, OldStarts
<1>2. ASSUME NEW s \in Names, OldFinishes(s) PROVE TypeOK'
  <2>1. [legacy[s] EXCEPT !.status = "complete"] \in LegacyRecord /\ legacy[s].spec \in Nat
    BY DEF TypeOK, LegacyRecord
  <2>2. legacy' \in [Names -> LegacyRecord] /\ host' \in [Names -> Nat]
    BY <1>2, <2>1 DEF TypeOK, OldFinishes
  <2>3. node' \in NodeKeys
    BY <1>2, <2>1 DEF TypeOK, OldFinishes, NodeKeys
  <2>4. QED
    BY <1>2, <2>2, <2>3 DEF TypeOK, OldFinishes
<1>3. ASSUME NEW s \in Names, ReconcileMirror(s) PROVE TypeOK'
  <2>1. ASSUME NEW wanted \in {"idle", "finalizer", "create", "update"}
        PROVE  [pc |-> wanted, desired |-> Convert(s), seen |-> target[s]] \in MirrorRecord
    BY ConvertType DEF TypeOK, MirrorRecord
  <2>2. mirror' \in [Names -> MirrorRecord]
    BY <1>3, <2>1 DEF TypeOK, ReconcileMirror
  <2>3. QED
    BY <1>3, <2>2 DEF TypeOK, ReconcileMirror
<1>4. ASSUME NEW s \in Names, WriteMirror(s) PROVE TypeOK'
  <2>1. mirror[s] \in MirrorRecord /\ target[s] \in TargetRecord
    BY DEF TypeOK
  <2>2. mirror[s].desired \in TargetRecord /\ mirror[s].seen \in TargetRecord
    BY <2>1 DEF MirrorRecord
  <2>3. SyncMirrorOntoExisting(mirror[s].seen, mirror[s].desired) \in TargetRecord
    BY <2>2, SyncType
  <2>4. legacy' \in [Names -> LegacyRecord]
    BY <1>4 DEF TypeOK, WriteMirror
  <2>5. target' \in [Names -> TargetRecord]
    BY <1>4, <2>2, <2>3 DEF TypeOK, WriteMirror
  <2>6. mirror' \in [Names -> MirrorRecord] /\ queue' \subseteq Names
    BY <1>4 DEF TypeOK, WriteMirror, MirrorDone
  <2>7. operator # "old"
    BY <1>4 DEF TypeOK, WriteMirror
  <2>8. QED
    BY <1>4, <2>4, <2>5, <2>6, <2>7 DEF TypeOK, WriteMirror
<1>5. CASE BeginPass
  <2>1. pass' \in PassRecord
    BY <1>5 DEF TypeOK, BeginPass, PassRecord, Targets
  <2>2. QED
    BY <1>5, <2>1 DEF TypeOK, BeginPass
<1>6. ASSUME NEW s \in Names, MigrateNode(s) PROVE TypeOK'
  <2> DEFINE migrated == Migrate(pass.snap, s)
             mem == IF ShouldPrune(s) THEN Prune(migrated, s) ELSE migrated
  <2>1. pass.snap \in NodeKeys
    BY DEF TypeOK, PassRecord
  <2>2. mem \in NodeKeys
    BY <2>1, MigrateType, PruneType
  <2>3. PatchedNode(pass.snap, mem) \in NodeKeys
    BY <2>1, <2>2, PatchedType
  <2>4. node' \in NodeKeys
    BY <1>6, <2>3 DEF TypeOK, MigrateNode
  <2>5. pass' = [pass EXCEPT !.pc = "pods", !.todo = @ \ {s}, !.now = {s}, !.mem = mem,
                             !.again = @ \/ mem # pass.snap, !.had = FALSE]
    BY <1>6 DEF MigrateNode
  <2> HIDE DEF mem
  <2>6. pass' \in PassRecord
    BY <2>2, <2>5 DEF TypeOK, PassRecord
  <2>7. operator # "old"
    BY <1>6 DEF TypeOK, MigrateNode
  <2>8. QED
    BY <1>6, <2>4, <2>6, <2>7 DEF TypeOK, MigrateNode
<1>7. ASSUME NEW s \in Names, ReconcileWorkloads(s) PROVE TypeOK'
  <2>1. workload[s] \in WorkloadRecord
    BY DEF TypeOK
  <2>2. workload' \in [Names -> WorkloadRecord]
    BY <1>7, <2>1, AdoptType DEF TypeOK, ReconcileWorkloads
  <2>3. HadLegacy(workload[s]) \in BOOLEAN
    BY <2>1 DEF HadLegacy, WorkloadRecord
  <2>4. pass' \in PassRecord
    BY <1>7, <2>3 DEF TypeOK, ReconcileWorkloads, PassRecord
  <2>5. operator # "old"
    BY <1>7 DEF TypeOK, ReconcileWorkloads
  <2>6. QED
    BY <1>7, <2>2, <2>4, <2>5 DEF TypeOK, ReconcileWorkloads
<1>8. ASSUME NEW s \in Names, ReconcileStamp(s) PROVE TypeOK'
  <2>1. target[s] \in TargetRecord /\ pass.seen[s] \in TargetRecord
    BY DEF TypeOK, PassRecord
  <2>2. pass.seen[s].stamp \in {"none", "set", "elapsed"}
    BY <2>1 DEF TargetRecord
  <2>3. ASSUME NEW st \in {"none", "set", "elapsed"} PROVE [target[s] EXCEPT !.stamp = st] \in TargetRecord
    BY <2>1 DEF TargetRecord
  <2>4. target' \in [Names -> TargetRecord]
    BY <1>8, <2>2, <2>3 DEF TypeOK, ReconcileStamp
  <2>5. pass' \in PassRecord
    <3>1. \A again \in BOOLEAN : [pass EXCEPT !.pc = "nodes", !.now = {}, !.again = again] \in PassRecord
      BY DEF TypeOK, PassRecord
    <3>2. [IdlePass EXCEPT !.pc = "work", !.seen = pass.seen, !.todo = {x \in Names : pass.seen[x].here}] \in PassRecord
      BY DEF TypeOK, PassRecord, IdlePass
    <3>3. QED
      BY <1>8, <3>1, <3>2, AfterStamp
  <2>6. operator # "old"
    BY <1>8 DEF TypeOK, ReconcileStamp
  <2>7. QED
    BY <1>8, <2>4, <2>5, <2>6 DEF TypeOK, ReconcileStamp
<1>9. ASSUME NEW s \in Names, Serve(s) PROVE TypeOK'
  <2>1. workload[s] \in WorkloadRecord /\ pass.seen[s].spec \in Nat
    BY DEF TypeOK, PassRecord, TargetRecord
  <2>2. workload' \in [Names -> WorkloadRecord]
    BY <1>9, <2>1, AdoptType DEF TypeOK, Serve
  <2>3. host' \in [Names -> Nat]
    BY <1>9, <2>1 DEF TypeOK, Serve
  <2>4. node' \in NodeKeys
    BY <1>9, <2>1 DEF TypeOK, Serve, NodeKeys
  <2>5. pass' \in PassRecord
    BY <1>9 DEF TypeOK, Serve, PassRecord
  <2>6. operator # "old"
    BY <1>9 DEF TypeOK, Serve
  <2>7. QED
    BY <1>9, <2>2, <2>3, <2>4, <2>5, <2>6 DEF TypeOK, Serve
<1>10. ASSUME NEW s \in Names, FinalizeTarget(s) PROVE TypeOK'
  <2>1. workload[s] \in WorkloadRecord /\ [workload[s] EXCEPT !.owner = "deleted"] \in WorkloadRecord
    BY DEF TypeOK, WorkloadRecord
  <2>2. workload' \in [Names -> WorkloadRecord]
    BY <1>10, <2>1 DEF TypeOK, FinalizeTarget
  <2>3. host' \in [Names -> Nat] /\ target' \in [Names -> TargetRecord]
    BY <1>10 DEF TypeOK, FinalizeTarget
  <2>4. node' \in NodeKeys
    BY <1>10 DEF TypeOK, FinalizeTarget, NodeKeys
  <2>5. operator # "old"
    BY <1>10 DEF TypeOK, FinalizeTarget
  <2>6. QED
    BY <1>10, <2>2, <2>3, <2>4, <2>5 DEF TypeOK, FinalizeTarget
<1>11. ASSUME NEW s \in Names, GarbageCollect(s) PROVE TypeOK'
  <2>1. workload[s] \in WorkloadRecord
    BY DEF TypeOK
  <2>2. [workload[s] EXCEPT !.pods = FALSE] \in WorkloadRecord /\ [NoWorkload EXCEPT !.pods = workload[s].pods] \in WorkloadRecord
    BY <2>1 DEF WorkloadRecord, NoWorkload
  <2>3. workload' \in [Names -> WorkloadRecord]
    BY <1>11, <2>2 DEF TypeOK, GarbageCollect
  <2>4. QED
    BY <1>11, <2>3 DEF TypeOK, GarbageCollect
<1>12. ASSUME NEW s \in Names, WindowElapses(s) PROVE TypeOK'
  <2>1. [target[s] EXCEPT !.stamp = "elapsed"] \in TargetRecord
    BY DEF TypeOK, TargetRecord
  <2>2. QED
    BY <1>12, <2>1 DEF TypeOK, WindowElapses
<1>13. ASSUME NEW which \in {"old", "new"}, Started(which) PROVE TypeOK'
  BY <1>13 DEF TypeOK, Started
<1>14. CASE Switch
  BY <1>13, <1>14 DEF Switch
<1>15. CASE Crash
  BY <1>13, <1>15 DEF Crash
<1>16. ASSUME NEW s \in Names, EditLegacy(s) PROVE TypeOK'
  <2>0. legacy[s] \in LegacyRecord
    BY DEF TypeOK
  <2>1. /\ [legacy[s] EXCEPT !.spec = @ + 1, !.gen = @ + 1] \in LegacyRecord
        /\ [legacy[s] EXCEPT !.deleting = TRUE] \in LegacyRecord
    <3>1. legacy[s].spec + 1 \in Nat /\ legacy[s].gen + 1 \in Nat
      BY <2>0 DEF LegacyRecord
    <3>2. \A i, j \in Nat : [legacy[s] EXCEPT !.spec = i, !.gen = j] \in LegacyRecord
      BY <2>0 DEF LegacyRecord
    <3>3. [legacy[s] EXCEPT !.deleting = TRUE] \in LegacyRecord
      BY <2>0 DEF LegacyRecord
    <3>4. QED
      BY <3>1, <3>2, <3>3
  <2>2. [legacy[s] EXCEPT !.paused = ~@] \in LegacyRecord
    <3>1. (~legacy[s].paused) \in BOOLEAN
      OBVIOUS
    <3>2. \A b \in BOOLEAN : [legacy[s] EXCEPT !.paused = b] \in LegacyRecord
      BY <2>0 DEF LegacyRecord
    <3>3. QED
      BY <3>1, <3>2
  <2>3. \A l \in LegacyRecord : [legacy EXCEPT ![s] = l] \in [Names -> LegacyRecord]
    BY DEF TypeOK
  <2>4. legacy' \in [Names -> LegacyRecord]
    BY <1>16, <2>1, <2>2, <2>3, EditedLegacy
  <2>5. QED
    BY <1>16, <2>4 DEF TypeOK, EditLegacy, Edit
<1>17. ASSUME NEW s \in Names, EditTarget(s) PROVE TypeOK'
  <2>0. target[s] \in TargetRecord
    BY DEF TypeOK
  <2>1. [target[s] EXCEPT !.spec = @ + 1] \in TargetRecord /\ [target[s] EXCEPT !.deleting = TRUE] \in TargetRecord
    <3>1. target[s].spec + 1 \in Nat
      BY <2>0 DEF TargetRecord
    <3>2. \A k \in Nat : [target[s] EXCEPT !.spec = k] \in TargetRecord
      BY <2>0 DEF TargetRecord
    <3>3. [target[s] EXCEPT !.deleting = TRUE] \in TargetRecord
      BY <2>0 DEF TargetRecord
    <3>4. QED
      BY <3>1, <3>2, <3>3
  <2>2. [target[s] EXCEPT !.paused = ~@] \in TargetRecord
    <3>1. (~target[s].paused) \in BOOLEAN
      OBVIOUS
    <3>2. \A b \in BOOLEAN : [target[s] EXCEPT !.paused = b] \in TargetRecord
      BY <2>0 DEF TargetRecord
    <3>3. QED
      BY <3>1, <3>2
  <2>3. [NoTarget EXCEPT !.here = TRUE, !.spec = 1] \in TargetRecord
    BY DEF TargetRecord, NoTarget
  <2>4. \A t \in TargetRecord : [target EXCEPT ![s] = t] \in [Names -> TargetRecord]
    BY DEF TypeOK
  <2>5. target' \in [Names -> TargetRecord]
    BY <1>17, <2>1, <2>2, <2>3, <2>4, EditedTarget
  <2>6. QED
    BY <1>17, <2>5 DEF TypeOK, EditTarget, Edit
<1>18. CASE IgnoreNode
  <2>1. node' \in NodeKeys
    BY <1>18 DEF TypeOK, IgnoreNode, NodeKeys
  <2>2. QED
    BY <1>18, <2>1 DEF TypeOK, IgnoreNode, Edit
<1>19. CASE UNCHANGED vars
  BY <1>19 DEF vars, TypeOK
<1>20. QED
  BY <1>1, <1>2, <1>3, <1>4, <1>5, <1>6, <1>7, <1>8, <1>9, <1>10, <1>11, <1>12, <1>14, <1>15, <1>16,
     <1>17, <1>18, <1>19 DEF Next, NewOperator

\* The maps of keys, the objects and the records of what is under way keep their types, and
\* an operator of the earlier release leaves the mirror and the pass of the new one alone.
THEOREM MigrationTyped == Spec => []TypeOK
<1>1. Init => TypeOK
  BY InitIInv DEF IInv
<1>2. QED
  BY <1>1, TypeStep, PTL DEF Spec

-----------------------------------------------------------------------------
(***************************************************************************)
(* Stamps.                                                                 *)
(***************************************************************************)
LEMMA StampStep == IInv /\ [Next]_vars => IInv'
<1> SUFFICES ASSUME IInv, [Next]_vars PROVE IInv'
  OBVIOUS
<1>0. TypeOK /\ TypeOK'
  BY TypeStep DEF IInv
<1> USE IdleRecords, EmptyRecords
<1> SUFFICES SpecsExist' /\ StampsExist' /\ StampsRead'
  BY <1>0 DEF IInv
<1> USE <1>0
<1>1. ASSUME NEW s \in Names, OldStarts(s) PROVE SpecsExist' /\ StampsExist' /\ StampsRead'
  <2>1. \A x \in Names : legacy'[x].here = legacy[x].here /\ legacy'[x].spec = legacy[x].spec
    BY <1>1 DEF OldStarts, TypeOK, LegacyRecord
  <2>2. QED
    BY <1>1, <2>1 DEF IInv, OldStarts, SpecsExist, StampsExist, StampsRead
<1>2. ASSUME NEW s \in Names, OldFinishes(s) PROVE SpecsExist' /\ StampsExist' /\ StampsRead'
  <2>1. \A x \in Names : legacy'[x].here = legacy[x].here /\ legacy'[x].spec = legacy[x].spec
    BY <1>2 DEF OldFinishes, TypeOK, LegacyRecord
  <2>2. QED
    BY <1>2, <2>1 DEF IInv, OldFinishes, SpecsExist, StampsExist, StampsRead
<1>3. ASSUME NEW s \in Names, ReconcileMirror(s) PROVE SpecsExist' /\ StampsExist' /\ StampsRead'
  <2>1. \A x \in Names : mirror'[x].pc = "idle" \/ mirror'[x].desired.here
    BY <1>3, ConvertType DEF IInv, ReconcileMirror, StampsExist, TypeOK, MirrorRecord
  <2>2. QED
    BY <1>3, <2>1 DEF IInv, ReconcileMirror, SpecsExist, StampsExist, StampsRead
<1>4. ASSUME NEW s \in Names, WriteMirror(s) PROVE SpecsExist' /\ StampsExist' /\ StampsRead'
  <2>1. \A x \in Names : mirror'[x].pc = "idle" \/ mirror'[x].desired.here
    BY <1>4 DEF IInv, WriteMirror, MirrorDone, StampsExist, TypeOK
  <2>2. /\ \A x \in Names : target'[x].here \/ target'[x].stamp = "none"
        /\ \A x \in Names : target[x].here => target'[x].here /\ target'[x].stamp = target[x].stamp
    <3>1. mirror[s].desired \in TargetRecord /\ mirror[s].seen \in TargetRecord /\ mirror[s].desired.here
      BY <1>4 DEF IInv, WriteMirror, StampsExist, TypeOK, MirrorRecord
    <3>2. CASE target' = target
      BY <3>2 DEF IInv, StampsExist
    <3>3. CASE ~target[s].here /\ target' = [target EXCEPT ![s] = mirror[s].desired]
      BY <3>1, <3>3 DEF IInv, StampsExist, TypeOK
    <3>4. CASE /\ target[s] = mirror[s].seen
               /\ target' = [target EXCEPT ![s] = SyncMirrorOntoExisting(mirror[s].seen, mirror[s].desired)]
      BY <3>1, <3>4, SyncType DEF IInv, StampsExist, TypeOK
    <3>5. QED
      BY <1>4, <3>2, <3>3, <3>4 DEF WriteMirror
  <2>3. SpecsExist'
    BY <1>4 DEF IInv, WriteMirror, SpecsExist, TypeOK
  <2>4. StampsRead'
    BY <1>4, <2>2 DEF IInv, WriteMirror, StampsRead, TypeOK, PassRecord
  <2>5. QED
    BY <2>1, <2>2, <2>3, <2>4 DEF StampsExist
<1>5. CASE BeginPass
  <2>1. pass'.now = {} /\ pass'.todo = Targets /\ pass'.seen = target
    BY <1>5 DEF BeginPass, IdlePass
  <2>2. QED
    BY <1>5, <2>1 DEF IInv, BeginPass, SpecsExist, StampsExist, StampsRead, Targets
<1>6. ASSUME NEW s \in Names, MigrateNode(s) PROVE SpecsExist' /\ StampsExist' /\ StampsRead'
  <2>1. pass'.now = {s} /\ pass'.todo = pass.todo \ {s} /\ pass'.seen = pass.seen
    BY <1>6 DEF MigrateNode, TypeOK, PassRecord
  <2>2. s \in pass.todo
    BY <1>6 DEF MigrateNode, Turn
  <2>3. QED
    BY <1>6, <2>1, <2>2 DEF IInv, MigrateNode, SpecsExist, StampsExist, StampsRead
<1>7. ASSUME NEW s \in Names, ReconcileWorkloads(s) PROVE SpecsExist' /\ StampsExist' /\ StampsRead'
  <2>1. \/ pass' = IdlePass
        \/ pass'.now = pass.now /\ pass'.todo = pass.todo /\ pass'.seen = pass.seen
    BY <1>7 DEF ReconcileWorkloads, TypeOK, PassRecord
  <2>2. QED
    BY <1>7, <2>1 DEF IInv, ReconcileWorkloads, SpecsExist, StampsExist, StampsRead
<1>8. ASSUME NEW s \in Names, ReconcileStamp(s) PROVE SpecsExist' /\ StampsExist' /\ StampsRead'
  <2>1. /\ \A x \in Names \ {s} : target'[x] = target[x]
        /\ target'[s].here = target[s].here
    BY <1>8 DEF ReconcileStamp, TypeOK, TargetRecord
  <2>2. \/ pass' = IdlePass
        \/ pass'.now = {} /\ pass'.todo = pass.todo /\ pass'.seen = pass.seen
        \/ pass'.now = {} /\ pass'.pc = "work"
    BY <1>8, AfterStamp, ZenonT(40) DEF TypeOK, PassRecord, IdlePass
  <2>3. s \in pass.now /\ target[s].here
    BY <1>8 DEF ReconcileStamp, IInv, StampsRead
  <2>4. StampsExist'
    BY <1>8, <2>1, <2>3 DEF IInv, ReconcileStamp, StampsExist
  <2>5. StampsRead'
    BY <1>8, <2>1, <2>2, <2>3 DEF IInv, ReconcileStamp, StampsRead, TypeOK, PassRecord
  <2>6. QED
    BY <1>8, <2>4, <2>5 DEF IInv, ReconcileStamp, SpecsExist
<1>9. ASSUME NEW s \in Names, Serve(s) PROVE SpecsExist' /\ StampsExist' /\ StampsRead'
  <2>1. pass' = IdlePass \/ (pass'.now = pass.now /\ pass'.todo = pass.todo \ {s} /\ pass'.pc = "work")
    BY <1>9 DEF Serve, TypeOK, PassRecord
  <2>2. QED
    BY <1>9, <2>1 DEF IInv, Serve, SpecsExist, StampsExist, StampsRead
<1>10. ASSUME NEW s \in Names, FinalizeTarget(s) PROVE SpecsExist' /\ StampsExist' /\ StampsRead'
  BY <1>10 DEF IInv, FinalizeTarget, SpecsExist, StampsExist, StampsRead, TypeOK
<1>11. ASSUME NEW s \in Names, GarbageCollect(s) PROVE SpecsExist' /\ StampsExist' /\ StampsRead'
  BY <1>11 DEF IInv, GarbageCollect, SpecsExist, StampsExist, StampsRead
<1>12. ASSUME NEW s \in Names, WindowElapses(s) PROVE SpecsExist' /\ StampsExist' /\ StampsRead'
  <2>1. /\ \A x \in Names : target'[x].here = target[x].here
        /\ \A x \in Names \ {s} : target'[x] = target[x]
        /\ target'[s].stamp = "elapsed" /\ target[s].here
    BY <1>12 DEF IInv, WindowElapses, StampsExist, TypeOK, TargetRecord
  <2>2. QED
    BY <1>12, <2>1 DEF IInv, WindowElapses, SpecsExist, StampsExist, StampsRead, TypeOK, PassRecord
<1>13. ASSUME NEW which, Started(which) PROVE SpecsExist' /\ StampsExist' /\ StampsRead'
  BY <1>13 DEF IInv, Started, SpecsExist, StampsExist, StampsRead
<1>14. CASE Switch
  BY <1>13, <1>14 DEF Switch
<1>15. CASE Crash
  BY <1>13, <1>15 DEF Crash
<1>16. ASSUME NEW s \in Names, EditLegacy(s) PROVE SpecsExist' /\ StampsExist' /\ StampsRead'
  <2>1. \A x \in Names : legacy'[x].here = legacy[x].here /\ legacy'[x].spec >= legacy[x].spec
    <3>1. CASE legacy' = [legacy EXCEPT ![s] = [legacy[s] EXCEPT !.spec = @ + 1, !.gen = @ + 1]]
      BY <3>1 DEF TypeOK, LegacyRecord
    <3>2. CASE legacy' = [legacy EXCEPT ![s] = [legacy[s] EXCEPT !.paused = ~@]]
      BY <3>2 DEF TypeOK, LegacyRecord
    <3>3. CASE legacy' = [legacy EXCEPT ![s] = [legacy[s] EXCEPT !.deleting = TRUE]]
      BY <3>3 DEF TypeOK, LegacyRecord
    <3>4. QED
      BY <1>16, <3>1, <3>2, <3>3, EditedLegacy
  <2>2. SpecsExist'
    BY <2>1 DEF IInv, SpecsExist, TypeOK, LegacyRecord
  <2>3. QED
    BY <1>16, <2>2 DEF IInv, EditLegacy, Edit, StampsExist, StampsRead
<1>17. ASSUME NEW s \in Names, EditTarget(s) PROVE SpecsExist' /\ StampsExist' /\ StampsRead'
  <2>1. /\ \A x \in Names : target[x].here => target'[x].here /\ target'[x].stamp = target[x].stamp
        /\ \A x \in Names : target'[x].here \/ target'[x].stamp = "none"
    <3>1. CASE target' = [target EXCEPT ![s] = [target[s] EXCEPT !.spec = @ + 1]]
      BY <3>1 DEF IInv, StampsExist, TypeOK, TargetRecord
    <3>2. CASE target' = [target EXCEPT ![s] = [target[s] EXCEPT !.paused = ~@]]
      BY <3>2 DEF IInv, StampsExist, TypeOK, TargetRecord
    <3>3. CASE target' = [target EXCEPT ![s] = [target[s] EXCEPT !.deleting = TRUE]]
      BY <3>3 DEF IInv, StampsExist, TypeOK, TargetRecord
    <3>4. CASE ~target[s].here /\ target' = [target EXCEPT ![s] = [NoTarget EXCEPT !.here = TRUE, !.spec = 1]]
      BY <3>4 DEF IInv, StampsExist, TypeOK, NoTarget
    <3>5. QED
      BY <1>17, <3>1, <3>2, <3>3, <3>4, EditedTarget
  <2>2. QED
    BY <1>17, <2>1 DEF IInv, EditTarget, Edit, SpecsExist, StampsExist, StampsRead, TypeOK, PassRecord
<1>18. CASE IgnoreNode
  BY <1>18 DEF IInv, IgnoreNode, Edit, SpecsExist, StampsExist, StampsRead
<1>19. CASE UNCHANGED vars
  BY <1>19 DEF IInv, vars, SpecsExist, StampsExist, StampsRead
<1>20. QED
  BY <1>1, <1>2, <1>3, <1>4, <1>5, <1>6, <1>7, <1>8, <1>9, <1>10, <1>11, <1>12, <1>14, <1>15, <1>16,
     <1>17, <1>18, <1>19 DEF Next, NewOperator

LEMMA MigrationInvariant == Spec => []IInv
  BY InitIInv, StampStep, PTL DEF Spec

-----------------------------------------------------------------------------
(***************************************************************************)
(* The keys of a rolled back operator.                                     *)
(***************************************************************************)
\* Of a node that a pass adopts and prunes, only keys of the NodeWright at hand go, and
\* only when its window is over.
LEMMA KeysGo ==
  ASSUME IInv, NEW s \in Names, MigrateNode(s), NEW x \in Names, node.old[x] # 0, node'.old[x] = 0
  PROVE  x = s /\ ShouldPrune(s)
<1> DEFINE migrated == Migrate(pass.snap, s)
           mem == IF ShouldPrune(s) THEN Prune(migrated, s) ELSE migrated
<1>1. pass.snap \in NodeKeys /\ migrated \in NodeKeys /\ migrated.old = pass.snap.old
  BY MigrateType DEF IInv, TypeOK, PassRecord
<1>2. node' = PatchedNode(pass.snap, mem)
  BY DEF MigrateNode
<1>3. pass.snap.old[x] # mem.old[x]
  BY <1>2 DEF PatchedNode
<1>4. ShouldPrune(s)
  BY <1>1, <1>3
<1>5. \A y \in Names \ {s} : mem.old[y] = pass.snap.old[y]
  BY <1>1, <1>4, PruneType
<1>6. QED
  BY <1>3, <1>4, <1>5

\* No behaviour of the two operators, their users and their faults takes a legacy key from
\* a node before the rollback window of its own NodeWright is over (PruneLegacyMetadata,
\* legacyCleanupShouldPrune), however many NodeWrights share the node.
THEOREM RollbackWindowKept == Spec => RollbackKept
<1>1. IInv /\ [Next]_vars =>
        [\A s \in Names : node.old[s] # 0 /\ node.old'[s] = 0 => ~RollbackWindow \/ target[s].stamp = "elapsed"]_vars
  <2> SUFFICES ASSUME IInv, Next, NEW x \in Names, node.old[x] # 0, node'.old[x] = 0
               PROVE  ~RollbackWindow \/ target[x].stamp = "elapsed"
    BY DEF vars
  <2>0. TypeOK
    BY DEF IInv
  <2>1. ASSUME NEW s \in Names, OldFinishes(s) PROVE FALSE
    BY <2>0, <2>1 DEF OldFinishes, IInv, SpecsExist, TypeOK, NodeKeys, LegacyRecord
  <2>2. ASSUME NEW s \in Names, MigrateNode(s) PROVE ~RollbackWindow \/ target[x].stamp = "elapsed"
    <3>1. x = s /\ ShouldPrune(s)
      BY <2>2, KeysGo
    <3>2. s \in pass.todo
      BY <2>2 DEF MigrateNode, Turn
    <3>3. QED
      BY <2>2, <3>1, <3>2 DEF MigrateNode, ShouldPrune, IInv, StampsRead
  <2>3. ASSUME NEW s \in Names, Serve(s) \/ FinalizeTarget(s) PROVE FALSE
    BY <2>0, <2>3, ZenonT(40) DEF Serve, FinalizeTarget, TypeOK, NodeKeys
  <2>4. CASE IgnoreNode
    BY <2>0, <2>4 DEF IgnoreNode, TypeOK, NodeKeys
  <2>5. ASSUME node' = node PROVE FALSE
    BY <2>5
  <2>6. QED
    BY <2>1, <2>2, <2>3, <2>4, <2>5
    DEF Next, NewOperator, BeginPass, ReconcileWorkloads, ReconcileStamp, Switch, Crash, Started, OldStarts,
        ReconcileMirror, WriteMirror, GarbageCollect, WindowElapses, EditLegacy, EditTarget
<1>2. QED
  BY <1>1, MigrationInvariant, PTL DEF Spec, RollbackKept

-----------------------------------------------------------------------------
(***************************************************************************)
(* ConfigMaps.                                                             *)
(***************************************************************************)
\* A ConfigMap with the new label belongs to a NodeWright, and so does that of every
\* NodeWright that this process, the new operator's, has come to.
FollowInv ==
  /\ \A s \in Names : workload[s].owner = "legacy" => "new" \notin workload[s].labels
  /\ \A s \in served : s \in Names /\ workload[s].owner # "legacy"
  /\ served # {} => operator = "new"

\* A step that leaves the ConfigMaps alone.
LEMMA FollowFrame ==
  ASSUME FollowInv, workload' = workload, (served' = served /\ operator' = operator) \/ served' = {}
  PROVE  FollowInv'
  BY DEF FollowInv

\* A step on the ConfigMap of one name.
LEMMA FollowOne ==
  ASSUME TypeOK, FollowInv, NEW s \in Names, NEW w, workload' = [workload EXCEPT ![s] = w],
         w.owner = "legacy" => "new" \notin w.labels,
         w.owner = "legacy" => s \notin served',
         served' \subseteq served \cup {s}, operator' = operator, served' # {} => operator = "new"
  PROVE  FollowInv'
<1>1. workload'[s] = w /\ \A x \in Names \ {s} : workload'[x] = workload[x]
  BY DEF TypeOK
<1> QED
  BY <1>1 DEF FollowInv

LEMMA FollowStep == TypeOK /\ FollowInv /\ [Next]_vars => FollowInv'
<1> SUFFICES ASSUME TypeOK, FollowInv, [Next]_vars
             PROVE  FollowInv'
  OBVIOUS
<1>1. ASSUME NEW s \in Names, OldStarts(s)
      PROVE  FollowInv'
  <2>1. operator = "old" /\ operator' = operator /\ served' = served /\ served = {}
    BY <1>1 DEF OldStarts, FollowInv
  <2>2. workload[s] \in WorkloadRecord
    BY DEF TypeOK
  <2>3. CASE workload[s].here
    <3> DEFINE w == [workload[s] EXCEPT !.pods = TRUE, !.labels = @ \cup {"old"}]
    <3>1. w.owner = workload[s].owner /\ w.labels = workload[s].labels \cup {"old"}
      BY <2>2 DEF WorkloadRecord
    <3>2. workload' = [workload EXCEPT ![s] = w]
      BY <1>1, <2>3 DEF OldStarts
    <3>3. w.owner = "legacy" => "new" \notin w.labels
      BY <3>1 DEF FollowInv
    <3> HIDE DEF w
    <3> QED
      BY <2>1, <3>2, <3>3, FollowOne
  <2>4. CASE ~workload[s].here
    <3> DEFINE w == [here |-> TRUE, labels |-> {"old"}, owner |-> "legacy", pods |-> TRUE]
    <3>1. workload' = [workload EXCEPT ![s] = w] /\ "new" \notin w.labels
      BY <1>1, <2>4 DEF OldStarts
    <3> HIDE DEF w
    <3> QED
      BY <2>1, <3>1, FollowOne
  <2> QED
    BY <2>3, <2>4
<1>2. ASSUME NEW s \in Names, ReconcileWorkloads(s)
      PROVE  FollowInv'
  <2> DEFINE w == workload[s]
             swept == IF ShouldPrune(s) THEN [w EXCEPT !.pods = FALSE] ELSE w
             done == IF ShouldPrune(s) THEN Relabel(swept) ELSE Adopt(swept)
  <2>1. w \in WorkloadRecord
    BY DEF TypeOK
  <2>2. swept \in WorkloadRecord /\ swept.owner = w.owner /\ swept.labels = w.labels
    BY <2>1 DEF WorkloadRecord
  <2>3. w.owner = "legacy" => "new" \notin w.labels /\ s \notin served
    BY DEF FollowInv
  <2>4. operator' = operator /\ served' = served /\ (served # {} => operator = "new")
    BY <1>2 DEF ReconcileWorkloads, FollowInv
  <2> HIDE DEF swept
  <2>5. done.owner = "target" \/ done = swept
    BY <2>2 DEF Relabel, Adopt, WorkloadRecord
  <2>6. \E v \in {w, swept, done} : workload' = [workload EXCEPT ![s] = v]
    BY <1>2 DEF ReconcileWorkloads, swept
  <2> HIDE DEF w, done
  <2> QED
    BY <2>2, <2>3, <2>4, <2>5, <2>6, FollowOne
<1>3. ASSUME NEW s \in Names, Serve(s)
      PROVE  FollowInv'
  <2> DEFINE w == UpsertConfigmaps(workload[s])
  <2>1. workload' = [workload EXCEPT ![s] = w] /\ "new" \in w.labels
    BY <1>3 DEF Serve
  <2>2. served' = served \cup {s} /\ operator' = operator
    BY <1>3 DEF Serve
  <2>3. operator = "new"
    BY <1>3, IdleRecords DEF Serve, TypeOK
  <2>4. w.owner # "legacy"
    <3>1. workload[s] \in WorkloadRecord
      BY DEF TypeOK
    <3>2. CASE workload[s].here
      BY <2>1, <3>2 DEF UpsertConfigmaps, FollowInv
    <3>3. CASE ~workload[s].here
      BY <3>1, <3>3 DEF UpsertConfigmaps, WorkloadRecord
    <3> QED
      BY <3>2, <3>3
  <2> HIDE DEF w
  <2> QED
    BY <2>1, <2>2, <2>3, <2>4, FollowOne
<1>4. ASSUME NEW s \in Names, FinalizeTarget(s)
      PROVE  FollowInv'
  <2> DEFINE w == IF workload[s].owner = "target" THEN [workload[s] EXCEPT !.owner = "deleted"] ELSE workload[s]
  <2>1. workload' = [workload EXCEPT ![s] = w] /\ served' = served \ {s} /\ operator' = operator
    BY <1>4 DEF FinalizeTarget
  <2>2. w.owner = "legacy" => w = workload[s]
    BY DEF TypeOK, WorkloadRecord
  <2> HIDE DEF w
  <2>3. (w.owner = "legacy" => "new" \notin w.labels) /\ (served' # {} => operator = "new")
    BY <2>1, <2>2 DEF FollowInv
  <2> QED
    BY <2>1, <2>3, FollowOne
<1>5. ASSUME NEW s \in Names, GarbageCollect(s)
      PROVE  FollowInv'
  <2>1. operator' = operator /\ served' = served /\ (served # {} => operator = "new")
    BY <1>5 DEF GarbageCollect, FollowInv
  <2>2. NoWorkload.labels = {} /\ NoWorkload.owner = "none"
    BY DEF NoWorkload
  <2>3. PICK v \in {NoWorkload, [workload[s] EXCEPT !.pods = FALSE], [NoWorkload EXCEPT !.pods = workload[s].pods]} :
          workload' = [workload EXCEPT ![s] = v]
    BY <1>5 DEF GarbageCollect
  <2>4. v.owner = "legacy" => v.owner = workload[s].owner /\ v.labels = workload[s].labels
    BY <2>2 DEF TypeOK, WorkloadRecord, NoWorkload
  <2>5. v.owner = "legacy" => "new" \notin v.labels /\ s \notin served
    BY <2>4 DEF FollowInv
  <2> QED
    BY <2>1, <2>3, <2>5, FollowOne
<1>6. CASE workload' = workload /\ ((served' = served /\ operator' = operator) \/ served' = {})
  BY <1>6, FollowFrame
<1> QED
  BY <1>1, <1>2, <1>3, <1>4, <1>5, <1>6
  DEF Next, NewOperator, BeginPass, MigrateNode, ReconcileStamp, Switch, Crash, Started, IgnoreNode, Edit,
      OldFinishes, ReconcileMirror, WriteMirror, WindowElapses, EditLegacy, EditTarget, vars

\* A NodeWright that has been served does not lose its ConfigMap with the Skyhook it came
\* from: the ConfigMap has a label the new operator finds it by only once it has changed
\* its owner (reparentToNodeWright, UpsertConfigmaps), over rollbacks, faults and edits.
THEOREM ConfigMapsKept == Spec => []ConfigMapsFollow
<1>1. Init => FollowInv
  BY DEF Init, FollowInv, NoWorkload
<1>2. Spec => [](TypeOK /\ FollowInv)
  BY <1>1, FollowStep, MigrationTyped, PTL DEF Spec
<1>3. FollowInv => ConfigMapsFollow
  BY DEF FollowInv, ConfigMapsFollow
<1> QED
  BY <1>2, <1>3, PTL

-----------------------------------------------------------------------------
(***************************************************************************)
(* The new operator does not do again what the earlier one has done.       *)
(***************************************************************************)
\* What keys nd say of the host: under the new prefix once the node has a version of the
\* NodeWright there, before that under the old one.  A host from which the packages were
\* uninstalled has nothing (0).
KeysOf(nd, s) ==
  /\ nd.version[s] = TRUE => host[s] \in {nd.new[s], 0} /\ (nd.new[s] = 0 => nd.old[s] = 0)
  /\ nd.version[s] = TRUE /\ "old" \in nd.ignore => "new" \in nd.ignore
  /\ nd.version[s] = FALSE => nd.new[s] = 0 /\ host[s] \in {nd.old[s], 0}

\* How the keys of a name may differ from what the pass has read: the name was adopted by
\* this pass, or pruned.
Since(s) ==
  /\ node.old[s] \in {pass.snap.old[s], 0}
  /\ pass.snap.version[s] = TRUE => node.version[s] = TRUE /\ node.new[s] = pass.snap.new[s]
  /\ pass.snap.version[s] = FALSE =>
       \/ node.version[s] = FALSE /\ node.old[s] = pass.snap.old[s] /\ node.new[s] = 0
       \/ node.version[s] = TRUE /\ node.new[s] = pass.snap.old[s]

\* While nodes are adopted: the pass's copy was true and is out of date only by what the
\* pass itself has done, and what it has come to without a change had a version before.
AdoptInv ==
  /\ \A s \in Names \ reworked : KeysOf(pass.snap, s) /\ Since(s)
  /\ pass.snap.ignore \subseteq node.ignore
  /\ "old" \in node.ignore => "old" \in pass.snap.ignore
  /\ pass.again = FALSE =>
       \A s \in Names : pass.seen[s].here /\ s \notin pass.todo => pass.snap.version[s] = TRUE

\* A NodeWright has a spec, wherever it is held.
SpecsOf ==
  \A s \in Names : /\ target[s].here => target[s].spec # 0
                   /\ mirror[s].pc # "idle" => mirror[s].desired.spec # 0
                   /\ pass.seen[s].here => pass.seen[s].spec # 0

TakeInv ==
  /\ \A s \in Names \ reworked : KeysOf(node, s)
  /\ pass.pc # "idle" => InFlight = {}
  /\ pass.pc \in {"nodes", "pods", "stamp"} => AdoptInv
  /\ pass.pc = "work" => \A s \in pass.todo : pass.seen[s].here /\ (s \notin reworked => node.version[s] = TRUE)

\* What Migrate and Prune make of keys nd.
Adopted(nd, s, mem) ==
  /\ mem \in NodeKeys /\ mem.version[s] = TRUE
  /\ nd.ignore \subseteq mem.ignore /\ ("old" \in mem.ignore => "old" \in nd.ignore)
  /\ nd.version[s] = FALSE /\ "old" \in nd.ignore => "new" \in mem.ignore
  /\ nd.version[s] = TRUE => mem.new = nd.new /\ mem.version = nd.version /\ mem.ignore = nd.ignore
  /\ \A x \in Names :
       /\ mem.old[x] \in {nd.old[x], 0} /\ (x # s => mem.old[x] = nd.old[x])
       /\ nd.version[x] = TRUE => mem.version[x] = TRUE
       /\ nd.new[x] # 0 => mem.new[x] = nd.new[x]
       /\ nd.new[x] = 0 => mem.new[x] \in {0, nd.old[x]}
       /\ nd.version[x] = FALSE /\ mem.version[x] = TRUE /\ nd.new[x] = 0 => mem.new[x] = nd.old[x]
       /\ mem.version[x] = FALSE => mem.old[x] = nd.old[x] /\ mem.new[x] = nd.new[x]

LEMMA MemFields ==
  ASSUME NEW nd \in NodeKeys, NEW s \in Names, NEW mem,
         mem = Migrate(nd, s) \/ mem = Prune(Migrate(nd, s), s)
  PROVE  Adopted(nd, s, mem)
<1> DEFINE m == Migrate(nd, s)
<1>1. m \in NodeKeys /\ m.old = nd.old
  BY MigrateType
<1>2. /\ m.version[s] = TRUE
      /\ nd.ignore \subseteq m.ignore /\ ("old" \in m.ignore => "old" \in nd.ignore)
      /\ nd.version[s] = FALSE /\ "old" \in nd.ignore => "new" \in m.ignore
      /\ nd.version[s] = TRUE => m.new = nd.new /\ m.version = nd.version /\ m.ignore = nd.ignore
      /\ \A x \in Names :
           /\ nd.version[x] = TRUE => m.version[x] = TRUE
           /\ nd.new[x] # 0 => m.new[x] = nd.new[x]
           /\ nd.new[x] = 0 => m.new[x] \in {0, nd.old[x]}
           /\ nd.version[x] = FALSE /\ m.version[x] = TRUE /\ nd.new[x] = 0 => m.new[x] = nd.old[x]
           /\ m.version[x] = FALSE => x # s /\ m.new[x] = nd.new[x]
  <2>0. nd.version[s] \in BOOLEAN /\ \A x \in Names : nd.version[x] \in BOOLEAN
    BY DEF NodeKeys
  <2>1. CASE nd.version[s] = TRUE
    <3>1. m = nd
      BY <2>1 DEF Migrate
    <3> QED
      BY <2>1, <3>1
  <2>2. CASE nd.version[s] = FALSE
    <3> DEFINE new == [x \in Names |-> IF nd.new[x] # 0 THEN nd.new[x] ELSE nd.old[x]]
               version == [x \in Names |-> nd.version[x] \/ nd.old[x] # 0 \/ x = s]
               ignore == IF "old" \in nd.ignore THEN nd.ignore \cup {"new"} ELSE nd.ignore
    <3>1. m = [nd EXCEPT !.new = new, !.version = version, !.ignore = ignore]
      BY <2>2 DEF Migrate
    <3>2. \A x \in Names : new[x] = IF nd.new[x] # 0 THEN nd.new[x] ELSE nd.old[x]
      OBVIOUS
    <3>3. \A x \in Names : /\ nd.version[x] = TRUE \/ nd.old[x] # 0 \/ x = s => version[x] = TRUE
                           /\ version[x] = FALSE => nd.version[x] = FALSE /\ nd.old[x] = 0 /\ x # s
      BY <2>0
    <3>4. nd.ignore \subseteq ignore /\ ("old" \in ignore => "old" \in nd.ignore)
          /\ ("old" \in nd.ignore => "new" \in ignore)
      OBVIOUS
    <3> HIDE DEF new, version, ignore, m
    <3>5. m.new = new /\ m.version = version /\ m.ignore = ignore
      BY <3>1 DEF NodeKeys
    <3> QED
      BY <2>2, <3>2, <3>3, <3>4, <3>5
  <2> QED
    BY <2>0, <2>1, <2>2
<1> HIDE DEF m
<1>3. CASE mem = m
  BY <1>1, <1>2, <1>3 DEF Adopted
<1>4. CASE mem = Prune(m, s)
  <2>1. /\ mem \in NodeKeys /\ mem.new = m.new /\ mem.version = m.version /\ mem.ignore = m.ignore
        /\ mem.old[s] = 0 /\ \A x \in Names \ {s} : mem.old[x] = m.old[x]
    <3> DEFINE o == [m.old EXCEPT ![s] = 0]
    <3>1. mem \in NodeKeys
      BY <1>1, <1>4, PruneType
    <3>2. mem = [m EXCEPT !.old = o]
      BY <1>4 DEF Prune
    <3>3. o[s] = 0 /\ \A x \in Names \ {s} : o[x] = m.old[x]
      BY <1>1 DEF NodeKeys
    <3> HIDE DEF o
    <3>4. mem.old = o /\ mem.new = m.new /\ mem.version = m.version /\ mem.ignore = m.ignore
      BY <1>1, <3>2 DEF NodeKeys
    <3> QED
      BY <3>1, <3>3, <3>4
  <2> QED
    BY <1>1, <1>2, <2>1 DEF Adopted
<1> QED
  BY <1>3, <1>4 DEF m

\* The patch of what has changed between snap and mem.
LEMMA PatchedFields ==
  ASSUME NEW snap, NEW mem, NEW x \in Names
  PROVE  LET p == PatchedNode(snap, mem) IN
         /\ p.old[x] = IF snap.old[x] = mem.old[x] THEN node.old[x] ELSE mem.old[x]
         /\ p.new[x] = IF snap.new[x] = mem.new[x] THEN node.new[x] ELSE mem.new[x]
         /\ p.version[x] = IF snap.version[x] = mem.version[x] THEN node.version[x] ELSE mem.version[x]
         /\ p.ignore = node.ignore \cup (mem.ignore \ snap.ignore)
  BY DEF PatchedNode

\* The adoption and the pruning of a node keep its keys true.
LEMMA AdoptKeys ==
  ASSUME TypeOK, NEW s \in Names, NEW x \in Names, NEW mem,
         mem = Migrate(pass.snap, s) \/ mem = Prune(Migrate(pass.snap, s), s),
         KeysOf(pass.snap, x), KeysOf(node, x), Since(x),
         pass.snap.ignore \subseteq node.ignore, "old" \in node.ignore => "old" \in pass.snap.ignore,
         node' = PatchedNode(pass.snap, mem), host' = host, pass'.snap = pass.snap
  PROVE  KeysOf(node, x)' /\ Since(x)'
<1> DEFINE b == pass.snap
<1>0. b \in NodeKeys /\ node \in NodeKeys
  BY DEF TypeOK, PassRecord
<1>1. /\ b.version[x] \in BOOLEAN /\ node.version[x] \in BOOLEAN
  BY <1>0 DEF NodeKeys
<1>2. /\ mem \in NodeKeys
      /\ b.ignore \subseteq mem.ignore /\ ("old" \in mem.ignore => "old" \in b.ignore)
      /\ b.version[s] = FALSE /\ "old" \in b.ignore => "new" \in mem.ignore
      /\ b.version[s] = TRUE => mem.version = b.version
      /\ mem.old[x] \in {b.old[x], 0}
      /\ b.version[x] = TRUE => mem.version[x] = TRUE
      /\ b.new[x] # 0 => mem.new[x] = b.new[x]
      /\ b.new[x] = 0 => mem.new[x] \in {0, b.old[x]}
      /\ b.version[x] = FALSE /\ mem.version[x] = TRUE /\ b.new[x] = 0 => mem.new[x] = b.old[x]
      /\ mem.version[x] = FALSE => mem.old[x] = b.old[x] /\ mem.new[x] = b.new[x]
  <2>1. Adopted(b, s, mem)
    BY <1>0, MemFields
  <2> QED
    BY <2>1 DEF Adopted
<1>3. /\ node'.old[x] = IF b.old[x] = mem.old[x] THEN node.old[x] ELSE mem.old[x]
      /\ node'.new[x] = IF b.new[x] = mem.new[x] THEN node.new[x] ELSE mem.new[x]
      /\ node'.version[x] = IF b.version[x] = mem.version[x] THEN node.version[x] ELSE mem.version[x]
      /\ node'.ignore = node.ignore \cup (mem.ignore \ b.ignore)
  BY PatchedFields
<1>4. mem.version[x] \in BOOLEAN /\ b.version[s] \in BOOLEAN
  BY <1>0, <1>2 DEF NodeKeys
<1>5. node'.old[x] \in {b.old[x], 0} /\ (node.old[x] = 0 => node'.old[x] = 0)
  BY <1>2, <1>3 DEF Since
<1>6. CASE b.version[x] = TRUE
  <2>1. mem.version[x] = TRUE /\ node.version[x] = TRUE /\ node'.version[x] = TRUE
    BY <1>2, <1>3, <1>6 DEF Since
  <2>2. mem.new[x] = b.new[x]
    BY <1>2, <1>6 DEF KeysOf
  <2>3. node'.new[x] = node.new[x] /\ node'.new[x] = b.new[x]
    BY <1>3, <1>6, <2>2 DEF Since
  <2>4. "old" \in node'.ignore => "new" \in node'.ignore
    BY <1>2, <1>3, <2>1 DEF KeysOf
  <2>5. KeysOf(node, x)'
    BY <1>5, <2>1, <2>3, <2>4 DEF KeysOf
  <2>6. Since(x)'
    BY <1>5, <1>6, <2>1, <2>3 DEF Since
  <2> QED
    BY <2>5, <2>6
<1>7. CASE b.version[x] = FALSE /\ mem.version[x] = FALSE
  <2>1. node'.old[x] = node.old[x] /\ node'.new[x] = node.new[x] /\ node'.version[x] = node.version[x]
    BY <1>2, <1>3, <1>7
  <2>2. node'.version[x] = TRUE /\ "old" \in node'.ignore => "new" \in node'.ignore
    BY <1>2, <1>3, <2>1 DEF KeysOf
  <2>3. KeysOf(node, x)'
    BY <2>1, <2>2 DEF KeysOf
  <2>4. Since(x)'
    BY <2>1 DEF Since
  <2> QED
    BY <2>3, <2>4
<1>8. CASE b.version[x] = FALSE /\ mem.version[x] = TRUE
  <2>1. b.version[s] = FALSE
    BY <1>2, <1>4, <1>8
  <2>2. node'.version[x] = TRUE
    BY <1>3, <1>8
  <2>3. b.new[x] = 0 /\ mem.new[x] = b.old[x] /\ host[x] \in {b.old[x], 0}
    BY <1>2, <1>8 DEF KeysOf
  <2>4. node'.new[x] = b.old[x]
    BY <1>3, <1>8, <2>3 DEF Since
  <2>5. "old" \in node'.ignore => "new" \in node'.ignore
    BY <1>2, <1>3, <2>1
  <2>6. node'.new[x] = 0 => node'.old[x] = 0
    BY <1>5, <2>4
  <2>7. KeysOf(node, x)'
    BY <2>2, <2>3, <2>4, <2>5, <2>6 DEF KeysOf
  <2>8. Since(x)'
    BY <1>5, <1>8, <2>2, <2>4 DEF Since
  <2> QED
    BY <2>7, <2>8
<1> QED
  BY <1>1, <1>4, <1>6, <1>7, <1>8

LEMMA SpecsStep == IInv /\ SpecsOf /\ [Next]_vars => SpecsOf'
<1> SUFFICES ASSUME IInv, SpecsOf, [Next]_vars
             PROVE  SpecsOf'
  OBVIOUS
<1>0. TypeOK /\ SpecsExist
  BY DEF IInv
<1> DEFINE Read == pass'.seen = pass.seen \/ pass' = IdlePass
           Held(x) == target'[x].here => target'[x].spec # 0
<1>1. \A x \in Names : IdlePass.seen[x].here = FALSE
  BY EmptyRecords DEF IdlePass
<1>2. CASE mirror' = mirror /\ Read /\ \A x \in Names : Held(x)
  <2>1. \A x \in Names : pass'.seen[x].here => pass'.seen[x].spec # 0
    BY <1>1, <1>2 DEF SpecsOf
  <2> QED
    BY <1>2, <2>1 DEF SpecsOf
<1>3. CASE mirror' = mirror /\ Read /\ target' = target
  BY <1>2, <1>3 DEF SpecsOf
<1>4. ASSUME NEW s \in Names, ReconcileMirror(s)
      PROVE  SpecsOf'
  <2>1. target' = target /\ pass' = pass
    BY <1>4 DEF ReconcileMirror
  <2>2. CASE ~legacy[s].here
    BY <1>3, <1>4, <2>1, <2>2 DEF ReconcileMirror
  <2>3. CASE legacy[s].here
    <3>1. legacy[s].spec # 0 /\ Convert(s).spec = legacy[s].spec
      BY <1>0, <2>3 DEF SpecsExist, Convert, NoTarget
    <3>2. PICK pc : mirror' = [mirror EXCEPT ![s] = [pc |-> pc, desired |-> Convert(s), seen |-> target[s]]]
      BY <1>4, <2>3 DEF ReconcileMirror
    <3> DEFINE m == [pc |-> pc, desired |-> Convert(s), seen |-> target[s]]
    <3>3. m.desired.spec # 0
      BY <3>1
    <3> HIDE DEF m
    <3>4. \A x \in Names : mirror'[x] = m \/ mirror'[x] = mirror[x]
      BY <1>0, <3>2 DEF TypeOK, m
    <3> QED
      BY <2>1, <3>3, <3>4 DEF SpecsOf
  <2> QED
    BY <2>2, <2>3
<1>5. ASSUME NEW s \in Names, WriteMirror(s)
      PROVE  SpecsOf'
  <2>1. pass' = pass /\ mirror' = [mirror EXCEPT ![s] = IdleMirror]
    BY <1>5 DEF WriteMirror, MirrorDone
  <2>2. \A x \in Names : mirror'[x].pc # "idle" => mirror'[x] = mirror[x]
    BY <1>0, <2>1, IdleRecords DEF TypeOK
  <2>3. mirror[s].desired \in TargetRecord /\ mirror[s].seen \in TargetRecord /\ mirror[s].desired.spec # 0
    BY <1>0, <1>5 DEF TypeOK, MirrorRecord, SpecsOf, WriteMirror
  <2>4. SyncMirrorOntoExisting(mirror[s].seen, mirror[s].desired).spec # 0
    BY <2>3 DEF SyncMirrorOntoExisting, TargetRecord
  <2>5. \A x \in Names : Held(x)
    <3>1. CASE target' = target
      BY <3>1 DEF SpecsOf
    <3>2. CASE target' = [target EXCEPT ![s] = mirror[s].desired]
      BY <1>0, <2>3, <3>2 DEF SpecsOf, TypeOK
    <3>3. CASE target' = [target EXCEPT ![s] = SyncMirrorOntoExisting(mirror[s].seen, mirror[s].desired)]
      BY <1>0, <2>4, <3>3 DEF SpecsOf, TypeOK
    <3> QED
      BY <1>5, <3>1, <3>2, <3>3 DEF WriteMirror
  <2> QED
    BY <2>1, <2>2, <2>5 DEF SpecsOf
<1>6. CASE BeginPass
  <2>1. target' = target /\ mirror' = mirror /\ pass'.seen = target
    BY <1>6 DEF BeginPass, IdlePass
  <2> QED
    BY <2>1 DEF SpecsOf
<1>7. ASSUME NEW s \in Names, MigrateNode(s) \/ ReconcileWorkloads(s)
      PROVE  SpecsOf'
  <2>1. target' = target /\ mirror' = mirror
    BY <1>7 DEF MigrateNode, ReconcileWorkloads
  <2>2. Read
    BY <1>0, <1>7 DEF MigrateNode, ReconcileWorkloads, TypeOK, PassRecord
  <2> QED
    BY <1>3, <2>1, <2>2
<1>8. ASSUME NEW s \in Names, ReconcileStamp(s)
      PROVE  SpecsOf'
  <2>1. mirror' = mirror
    BY <1>8 DEF ReconcileStamp
  <2>2. Read
    BY <1>0, <1>8, AfterStamp DEF TypeOK, PassRecord, IdlePass
  <2>3. \A x \in Names : target'[x].here = target[x].here /\ target'[x].spec = target[x].spec
    <3>1. CASE target' = target
      BY <3>1
    <3>2. ASSUME NEW st, target' = [target EXCEPT ![s] = [target[s] EXCEPT !.stamp = st]]
          PROVE  \A x \in Names : target'[x].here = target[x].here /\ target'[x].spec = target[x].spec
      BY <1>0, <3>2 DEF TypeOK, TargetRecord
    <3> QED
      BY <1>8, <3>1, <3>2 DEF ReconcileStamp
  <2> QED
    BY <1>2, <2>1, <2>2, <2>3 DEF SpecsOf
<1>9. ASSUME NEW s \in Names, Serve(s)
      PROVE  SpecsOf'
  <2>1. target' = target /\ mirror' = mirror /\ Read
    BY <1>0, <1>9 DEF Serve, TypeOK, PassRecord
  <2> QED
    BY <1>3, <2>1
<1>10. ASSUME NEW s \in Names, FinalizeTarget(s)
       PROVE  SpecsOf'
  <2>1. mirror' = mirror /\ pass' = IdlePass /\ target' = [target EXCEPT ![s] = NoTarget]
    BY <1>10 DEF FinalizeTarget
  <2>2. \A x \in Names : Held(x)
    BY <1>0, <2>1, EmptyRecords DEF SpecsOf, TypeOK
  <2> QED
    BY <1>2, <2>1, <2>2
<1>11. ASSUME NEW s \in Names, WindowElapses(s)
       PROVE  SpecsOf'
  <2>1. \A x \in Names : target'[x].here = target[x].here /\ target'[x].spec = target[x].spec
    BY <1>0, <1>11 DEF WindowElapses, TypeOK, TargetRecord
  <2> QED
    BY <1>2, <1>11, <2>1 DEF SpecsOf, WindowElapses
<1>12. ASSUME NEW s \in Names, EditTarget(s)
       PROVE  SpecsOf'
  <2>1. mirror' = mirror /\ pass' = pass
    BY <1>12 DEF EditTarget, Edit
  <2>2. \A x \in Names : Held(x)
    <3>0. target[s] \in TargetRecord /\ target \in [Names -> TargetRecord]
      BY <1>0 DEF TypeOK
    <3>1. CASE target' = [target EXCEPT ![s] = [target[s] EXCEPT !.spec = @ + 1]]
      <4> DEFINE k == target[s].spec + 1
      <4>1. k # 0 /\ target' = [target EXCEPT ![s] = [target[s] EXCEPT !.spec = k]]
        BY <3>0, <3>1 DEF TargetRecord
      <4> HIDE DEF k
      <4> QED
        BY <3>0, <4>1 DEF SpecsOf, TargetRecord
    <3>2. CASE target' = [target EXCEPT ![s] = [target[s] EXCEPT !.paused = ~@]]
      BY <3>0, <3>2 DEF SpecsOf, TargetRecord
    <3>3. CASE target' = [target EXCEPT ![s] = [target[s] EXCEPT !.deleting = TRUE]]
      BY <3>0, <3>3 DEF SpecsOf, TargetRecord
    <3>4. CASE target' = [target EXCEPT ![s] = [NoTarget EXCEPT !.here = TRUE, !.spec = 1]]
      BY <3>0, <3>4 DEF SpecsOf, NoTarget
    <3> QED
      BY <1>12, <3>1, <3>2, <3>3, <3>4, EditedTarget
  <2> QED
    BY <1>2, <2>1, <2>2
<1>13. CASE Switch \/ Crash
  <2>1. target' = target /\ mirror' = [x \in Names |-> IdleMirror] /\ pass' = IdlePass
    BY <1>13 DEF Switch, Crash, Started
  <2> QED
    BY <1>1, <2>1, IdleRecords DEF SpecsOf
<1>14. CASE UNCHANGED <<target, mirror, pass>>
  BY <1>3, <1>14
<1> QED
  BY <1>4, <1>5, <1>6, <1>7, <1>8, <1>9, <1>10, <1>11, <1>12, <1>13, <1>14
  DEF Next, NewOperator, IgnoreNode, Edit, OldStarts, OldFinishes, GarbageCollect, EditLegacy, vars

\* A step that leaves the keys and the pass alone, or gives the pass up.
LEMMA TakeFrame ==
  ASSUME TakeInv, node' = node, host' = host, reworked' = reworked,
         pass' = pass \/ pass' = IdlePass, pass'.pc # "idle" => InFlight' = {}
  PROVE  TakeInv'
<1>1. \A x \in Names \ reworked' : KeysOf(node, x)'
  BY DEF TakeInv, KeysOf
<1>2. CASE pass' = IdlePass
  <2>1. pass'.pc = "idle"
    BY <1>2 DEF IdlePass
  <2> QED
    BY <1>1, <2>1 DEF TakeInv
<1>3. CASE pass' = pass
  <2>1. pass.pc \in {"nodes", "pods", "stamp"} => AdoptInv'
    BY <1>3 DEF TakeInv, AdoptInv, KeysOf, Since
  <2> QED
    BY <1>1, <1>3, <2>1 DEF TakeInv
<1> QED
  BY <1>2, <1>3

\* Skyhooks do not begin to roll out while the new operator runs.
LEMMA NoneInFlight ==
  ASSUME TypeOK, [Next]_vars, operator = "new", InFlight = {}
  PROVE  InFlight' = {}
<1>1. CASE legacy' = legacy
  BY <1>1 DEF InFlight
<1>2. ASSUME NEW s \in Names, WriteMirror(s)
      PROVE  InFlight' = {}
  <2>1. CASE legacy' = [legacy EXCEPT ![s] = Gone]
    <3>1. \A x \in Names : legacy'[x] = legacy[x] \/ legacy'[x].here = FALSE
      BY <2>1 DEF TypeOK, Gone
    <3> QED
      BY <3>1 DEF InFlight
  <2> QED
    BY <1>1, <1>2, <2>1 DEF WriteMirror
<1>3. ASSUME NEW s \in Names, EditLegacy(s)
      PROVE  InFlight' = {}
  <2>1. legacy' = [legacy EXCEPT ![s] = [legacy[s] EXCEPT !.deleting = TRUE]]
    BY <1>3 DEF EditLegacy, legacyReadOnlyError
  <2>2. \A x \in Names : legacy'[x].here = legacy[x].here /\ legacy'[x].paused = legacy[x].paused
                         /\ legacy'[x].status = legacy[x].status
    BY <2>1 DEF TypeOK, LegacyRecord
  <2> QED
    BY <2>2 DEF InFlight
<1> QED
  BY <1>1, <1>2, <1>3
  DEF Next, NewOperator, BeginPass, MigrateNode, ReconcileWorkloads, ReconcileStamp, Serve, FinalizeTarget,
      Switch, Crash, Started, IgnoreNode, Edit, OldStarts, OldFinishes, ReconcileMirror, GarbageCollect,
      WindowElapses, EditTarget, vars

LEMMA OldFinishesTake ==
  ASSUME TypeOK, TakeInv, NEW s \in Names, OldFinishes(s)
  PROVE  TakeInv'
<1> DEFINE k == legacy[s].spec
<1>1. operator = "old" /\ pass' = IdlePass
  BY DEF OldFinishes, TypeOK
<1>2. node.version[s] \in BOOLEAN /\ node \in NodeKeys /\ host \in [Names -> Nat]
  BY DEF TypeOK, NodeKeys
<1>3. /\ node'.new = node.new /\ node'.version = node.version /\ node'.ignore = node.ignore
      /\ node'.old = [node.old EXCEPT ![s] = k] /\ host' = [host EXCEPT ![s] = k]
  <2> HIDE DEF k
  <2>1. node' = [node EXCEPT !.old = [node.old EXCEPT ![s] = k]] /\ host' = [host EXCEPT ![s] = k]
    BY DEF OldFinishes, k
  <2>2. node' = [node EXCEPT !.old = [node.old EXCEPT ![s] = k]]
        => /\ node'.new = node.new /\ node'.version = node.version /\ node'.ignore = node.ignore
           /\ node'.old = [node.old EXCEPT ![s] = k]
    BY <1>2 DEF NodeKeys
  <2> QED
    BY <2>1, <2>2
<1> HIDE DEF k
<1>4. \A x \in Names \ {s} : node'.old[x] = node.old[x] /\ host'[x] = host[x]
  BY <1>2, <1>3 DEF NodeKeys
<1>5. node'.old[s] = k /\ host'[s] = k
  BY <1>2, <1>3 DEF NodeKeys
<1>6. ASSUME NEW x \in Names \ reworked'
      PROVE  KeysOf(node, x)'
  <2>1. x \notin reworked /\ (x = s => node.version[s] = FALSE)
    BY <1>2 DEF OldFinishes
  <2>2. KeysOf(node, x)
    BY <2>1 DEF TakeInv
  <2>3. CASE x = s
    BY <1>3, <1>5, <2>1, <2>2, <2>3 DEF KeysOf
  <2>4. CASE x # s
    BY <1>3, <1>4, <2>2, <2>4 DEF KeysOf
  <2> QED
    BY <2>3, <2>4
<1>7. pass'.pc = "idle"
  BY <1>1 DEF IdlePass
<1> QED
  BY <1>6, <1>7 DEF TakeInv

LEMMA IgnoreNodeTake ==
  ASSUME TypeOK, TakeInv, IgnoreNode
  PROVE  TakeInv'
<1>1. pass' = IdlePass
  BY DEF IgnoreNode, Edit, TypeOK
<1>2. host' = host /\ node' = [node EXCEPT !.ignore = @ \cup {"old"}]
      /\ reworked' = {s \in Names : s \in reworked \/ node.version[s]}
  BY DEF IgnoreNode, Edit
<1>3. node'.new = node.new /\ node'.version = node.version /\ node'.old = node.old
  BY <1>2 DEF TypeOK, NodeKeys
<1>4. ASSUME NEW x \in Names \ reworked'
      PROVE  KeysOf(node, x)'
  <2>1. x \notin reworked /\ node.version[x] = FALSE
    BY <1>2 DEF TypeOK, NodeKeys
  <2> QED
    BY <1>2, <1>3, <2>1 DEF TakeInv, KeysOf
<1>5. pass'.pc = "idle"
  BY <1>1 DEF IdlePass
<1> QED
  BY <1>4, <1>5 DEF TakeInv

LEMMA BeginPassTake ==
  ASSUME TypeOK, TakeInv, BeginPass
  PROVE  TakeInv'
<1>1. /\ pass'.pc = "nodes" /\ pass'.todo = Targets /\ pass'.snap = node /\ pass'.seen = target
      /\ node' = node /\ host' = host /\ reworked' = reworked /\ legacy' = legacy /\ InFlight = {}
  BY DEF BeginPass, IdlePass
<1>2. \A x \in Names \ reworked' : KeysOf(node, x)' /\ KeysOf(pass.snap, x)'
  BY <1>1 DEF TakeInv, KeysOf
<1>3. \A x \in Names \ reworked' : Since(x)'
  <2>1. \A x \in Names : node.version[x] \in BOOLEAN
    BY DEF TypeOK, NodeKeys
  <2> QED
    BY <1>1, <2>1 DEF TakeInv, KeysOf, Since
<1>4. AdoptInv'
  <2>1. \A x \in Names : pass'.seen[x].here => x \in pass'.todo
    BY <1>1 DEF Targets
  <2> QED
    BY <1>1, <1>2, <1>3, <2>1 DEF AdoptInv
<1> QED
  BY <1>1, <1>2, <1>4 DEF TakeInv, InFlight

LEMMA MigrateNodeTake ==
  ASSUME TypeOK, TakeInv, NEW s \in Names, MigrateNode(s)
  PROVE  TakeInv'
<1> DEFINE mem == IF ShouldPrune(s) THEN Prune(Migrate(pass.snap, s), s) ELSE Migrate(pass.snap, s)
<1>1. mem = Migrate(pass.snap, s) \/ mem = Prune(Migrate(pass.snap, s), s)
  OBVIOUS
<1>2. /\ pass.pc = "nodes" /\ host' = host /\ reworked' = reworked /\ legacy' = legacy
      /\ node' = PatchedNode(pass.snap, mem) \/ node' = node
      /\ pass' = [pass EXCEPT !.pc = "pods", !.todo = pass.todo \ {s}, !.now = {s}, !.mem = mem,
                              !.again = pass.again \/ mem # pass.snap, !.had = FALSE]
  BY DEF MigrateNode
<1> HIDE DEF mem
<1>3. pass.snap \in NodeKeys /\ pass.again \in BOOLEAN /\ pass \in PassRecord
  BY DEF TypeOK, PassRecord
<1>4. /\ pass'.pc = "pods" /\ pass'.todo = pass.todo \ {s} /\ pass'.snap = pass.snap /\ pass'.seen = pass.seen
      /\ pass'.again = (pass.again \/ mem # pass.snap)
  BY <1>2, <1>3 DEF PassRecord
<1>5. Adopted(pass.snap, s, mem)
  BY <1>1, <1>3, MemFields
<1>6. AdoptInv
  BY <1>2 DEF TakeInv
<1>7. ASSUME NEW x \in Names \ reworked'
      PROVE  KeysOf(node, x)' /\ KeysOf(pass.snap, x)' /\ Since(x)'
  <2>1. x \in Names /\ x \notin reworked
    BY <1>2
  <2>2. KeysOf(node, x) /\ KeysOf(pass.snap, x) /\ Since(x)
    BY <1>6, <2>1 DEF TakeInv, AdoptInv
  <2>3. KeysOf(pass.snap, x)'
    BY <1>2, <1>4, <2>2 DEF KeysOf
  <2>4. CASE node' = node
    BY <1>2, <1>4, <2>2, <2>3, <2>4 DEF KeysOf, Since
  <2>5. CASE node' = PatchedNode(pass.snap, mem)
    <3>1. pass.snap.ignore \subseteq node.ignore /\ ("old" \in node.ignore => "old" \in pass.snap.ignore)
      BY <1>6 DEF AdoptInv
    <3>2. KeysOf(node, x)' /\ Since(x)'
      BY <1>1, <1>2, <1>4, <2>1, <2>2, <2>5, <3>1, AdoptKeys
    <3> QED
      BY <2>3, <3>2
  <2> QED
    BY <1>2, <2>4, <2>5
<1>8. pass'.snap.ignore \subseteq node'.ignore /\ ("old" \in node'.ignore => "old" \in pass'.snap.ignore)
  <2>1. CASE node' = node
    BY <1>4, <1>6, <2>1 DEF AdoptInv
  <2>2. CASE node' = PatchedNode(pass.snap, mem)
    <3>1. node'.ignore = node.ignore \cup (mem.ignore \ pass.snap.ignore)
      BY <2>2 DEF PatchedNode
    <3>2. "old" \in mem.ignore => "old" \in pass.snap.ignore
      BY <1>5 DEF Adopted
    <3> QED
      BY <1>4, <1>6, <3>1, <3>2 DEF AdoptInv
  <2> QED
    BY <1>2, <2>1, <2>2
<1>9. ASSUME pass'.again = FALSE, NEW x \in Names, pass'.seen[x].here, x \notin pass'.todo
      PROVE  pass'.snap.version[x] = TRUE
  <2>1. pass.again = FALSE /\ mem = pass.snap
    BY <1>3, <1>4, <1>9
  <2>2. CASE x = s
    BY <1>4, <1>5, <2>1, <2>2 DEF Adopted
  <2>3. CASE x # s
    BY <1>4, <1>6, <1>9, <2>1, <2>3 DEF AdoptInv
  <2> QED
    BY <2>2, <2>3
<1>10. AdoptInv'
  BY <1>7, <1>8, <1>9 DEF AdoptInv
<1>11. InFlight' = {}
  BY <1>2 DEF TakeInv, InFlight
<1> QED
  BY <1>4, <1>7, <1>10, <1>11 DEF TakeInv

\* The steps in which the pass keeps what it has read and adopted.
LEMMA AdoptFrame ==
  ASSUME TypeOK, TakeInv, pass.pc \in {"nodes", "pods", "stamp"}, pass'.pc \in {"nodes", "pods", "stamp"},
         node' = node, host' = host, reworked' = reworked, legacy' = legacy,
         pass'.snap = pass.snap, pass'.seen = pass.seen, pass'.todo = pass.todo,
         pass'.again = FALSE => pass.again = FALSE
  PROVE  TakeInv'
<1>1. AdoptInv /\ InFlight = {}
  BY DEF TakeInv
<1>2. \A x \in Names \ reworked' : KeysOf(node, x)' /\ KeysOf(pass.snap, x)' /\ Since(x)'
  BY <1>1 DEF TakeInv, AdoptInv, KeysOf, Since
<1>3. AdoptInv'
  BY <1>1, <1>2 DEF AdoptInv
<1>4. InFlight' = {}
  BY <1>1 DEF InFlight
<1> QED
  BY <1>2, <1>3, <1>4 DEF TakeInv

LEMMA ReconcileStampTake ==
  ASSUME TypeOK, TakeInv, NEW s \in Names, ReconcileStamp(s)
  PROVE  TakeInv'
<1>1. /\ pass.pc = "stamp" /\ node' = node /\ host' = host /\ reworked' = reworked /\ legacy' = legacy
  BY DEF ReconcileStamp
<1>2. AdoptInv /\ InFlight = {} /\ InFlight' = {}
  BY <1>1 DEF TakeInv, InFlight
<1>3. pass \in PassRecord /\ pass.again \in BOOLEAN
  BY DEF TypeOK, PassRecord
<1>4. PICK again \in BOOLEAN :
        /\ again = FALSE => pass.again = FALSE
        /\ \/ pass' = IdlePass
           \/ pass' = [pass EXCEPT !.pc = "nodes", !.now = {}, !.again = again]
           \/ /\ pass.todo = {} /\ again = FALSE
              /\ pass' = [IdlePass EXCEPT !.pc = "work", !.seen = pass.seen,
                                          !.todo = {x \in Names : pass.seen[x].here}]
  <2> DEFINE left == pass.had \/ pass.mem.old[s] # 0
             stamp == IF ShouldPrune(s) /\ ~left THEN "none"
                      ELSE IF ~ShouldPrune(s) /\ pass.seen[s].stamp = "none" /\ left THEN "set"
                      ELSE pass.seen[s].stamp
             again == pass.again \/ stamp # pass.seen[s].stamp
  <2>1. pass' = IdlePass
        \/ pass' = IF pass.todo # {} THEN [pass EXCEPT !.pc = "nodes", !.now = {}, !.again = again]
                   ELSE IF again THEN IdlePass
                   ELSE [IdlePass EXCEPT !.pc = "work", !.seen = pass.seen,
                                         !.todo = {x \in Names : pass.seen[x].here}]
    BY DEF ReconcileStamp
  <2>2. again \in BOOLEAN /\ (again = FALSE => pass.again = FALSE)
    BY <1>3
  <2> HIDE DEF again
  <2> QED
    BY <2>1, <2>2
<1>5. CASE pass' = IdlePass
  BY <1>1, <1>2, <1>5, TakeFrame
<1>6. CASE pass' = [pass EXCEPT !.pc = "nodes", !.now = {}, !.again = again]
  <2>1. pass'.pc = "nodes" /\ pass'.snap = pass.snap /\ pass'.seen = pass.seen /\ pass'.todo = pass.todo
        /\ pass'.again = again
    BY <1>3, <1>6 DEF PassRecord
  <2> QED
    BY <1>1, <1>4, <2>1, AdoptFrame
<1>7. CASE /\ pass.todo = {} /\ again = FALSE
           /\ pass' = [IdlePass EXCEPT !.pc = "work", !.seen = pass.seen, !.todo = {x \in Names : pass.seen[x].here}]
  <2>1. pass'.pc = "work" /\ pass'.seen = pass.seen /\ pass'.todo = {x \in Names : pass.seen[x].here}
    BY <1>7 DEF IdlePass
  <2>2. \A x \in Names : pass.seen[x].here => pass.snap.version[x] = TRUE
    BY <1>2, <1>4, <1>7 DEF AdoptInv
  <2>3. \A x \in pass'.todo : pass'.seen[x].here /\ (x \notin reworked' => node'.version[x] = TRUE)
    BY <1>1, <1>2, <2>1, <2>2 DEF AdoptInv, Since
  <2>4. \A x \in Names \ reworked' : KeysOf(node, x)'
    BY <1>1 DEF TakeInv, KeysOf
  <2> QED
    BY <1>2, <2>1, <2>3, <2>4 DEF TakeInv
<1> QED
  BY <1>4, <1>5, <1>6, <1>7

LEMMA ServeTake ==
  ASSUME TypeOK, SpecsOf, TakeInv, NEW s \in Names, Serve(s)
  PROVE  TakeInv'
<1> DEFINE k == pass.seen[s].spec
<1>1. /\ pass.pc = "work" /\ s \in pass.todo /\ reworked' = reworked /\ legacy' = legacy
      /\ pass' = IdlePass \/ pass' = [pass EXCEPT !.todo = pass.todo \ {s}]
      /\ \/ host' = host /\ node' = node
         \/ host' = [host EXCEPT ![s] = k] /\ node' = [node EXCEPT !.new = [node.new EXCEPT ![s] = k]]
  BY DEF Serve, Turn
<1>2. k # 0 /\ pass.seen[s].here
  BY <1>1 DEF SpecsOf, TakeInv
<1> HIDE DEF k
<1>3. node \in NodeKeys /\ host \in [Names -> Nat] /\ pass \in PassRecord /\ node.version[s] \in BOOLEAN
  BY DEF TypeOK, NodeKeys
<1>4. /\ node'.version = node.version /\ node'.ignore = node.ignore /\ node'.old = node.old
      /\ \A x \in Names \ {s} : node'.new[x] = node.new[x] /\ host'[x] = host[x]
      /\ (node'.new[s] = k /\ host'[s] = k) \/ (node'.new[s] = node.new[s] /\ host'[s] = host[s])
  <2>1. CASE host' = host /\ node' = node
    BY <2>1
  <2>2. CASE host' = [host EXCEPT ![s] = k] /\ node' = [node EXCEPT !.new = [node.new EXCEPT ![s] = k]]
    <3> DEFINE n == [node.new EXCEPT ![s] = k]
    <3>1. n[s] = k /\ \A x \in Names \ {s} : n[x] = node.new[x]
      BY <1>3 DEF NodeKeys
    <3>2. host'[s] = k /\ \A x \in Names \ {s} : host'[x] = host[x]
      BY <1>3, <2>2
    <3> HIDE DEF n
    <3>3. node' = [node EXCEPT !.new = n]
      BY <2>2 DEF n
    <3>4. node'.new = n /\ node'.version = node.version /\ node'.ignore = node.ignore /\ node'.old = node.old
      BY <1>3, <3>3 DEF NodeKeys
    <3> QED
      BY <3>1, <3>2, <3>4
  <2> QED
    BY <1>1, <2>1, <2>2
<1>5. ASSUME NEW x \in Names \ reworked'
      PROVE  KeysOf(node, x)'
  <2>1. KeysOf(node, x) /\ (x = s => node.version[s] = TRUE)
    BY <1>1 DEF TakeInv
  <2>2. CASE x = s
    BY <1>2, <1>4, <2>1, <2>2 DEF KeysOf
  <2>3. CASE x # s
    BY <1>4, <2>1, <2>3 DEF KeysOf
  <2> QED
    BY <2>2, <2>3
<1>6. InFlight' = {}
  BY <1>1 DEF TakeInv, InFlight
<1>7. pass'.pc = "idle" \/ (pass'.pc = "work" /\ pass'.todo \subseteq pass.todo /\ pass'.seen = pass.seen)
  BY <1>1, <1>3 DEF PassRecord, IdlePass
<1> QED
  BY <1>1, <1>4, <1>5, <1>6, <1>7 DEF TakeInv

LEMMA FinalizeTargetTake ==
  ASSUME TypeOK, TakeInv, NEW s \in Names, FinalizeTarget(s)
  PROVE  TakeInv'
<1> DEFINE n == [node.new EXCEPT ![s] = 0]
           v == [node.version EXCEPT ![s] = FALSE]
<1>1. /\ pass.pc = "work" /\ s \in pass.todo /\ reworked' = reworked /\ pass' = IdlePass
      /\ host' = IF s \in UninstallEnabled THEN [host EXCEPT ![s] = 0] ELSE host
      /\ node' = IF s \in UninstallEnabled \/ node.new[s] = 0 THEN [node EXCEPT !.new = n, !.version = v] ELSE node
  BY DEF FinalizeTarget, Turn
<1>2. node \in NodeKeys /\ host \in [Names -> Nat] /\ node.version[s] \in BOOLEAN
  BY DEF TypeOK, NodeKeys
<1>3. /\ n[s] = 0 /\ v[s] = FALSE
      /\ \A x \in Names \ {s} : n[x] = node.new[x] /\ v[x] = node.version[x] /\ host'[x] = host[x]
  BY <1>1, <1>2 DEF NodeKeys
<1>4. s \in UninstallEnabled => host'[s] = 0
  BY <1>1, <1>2
<1> HIDE DEF n, v
<1>5. ASSUME NEW x \in Names \ reworked'
      PROVE  KeysOf(node, x)'
  <2>1. KeysOf(node, x) /\ (x = s => node.version[s] = TRUE)
    BY <1>1 DEF TakeInv
  <2>2. CASE node' = node /\ host' = host
    BY <2>1, <2>2 DEF KeysOf
  <2>3. CASE node' = [node EXCEPT !.new = n, !.version = v] /\ (s \in UninstallEnabled \/ (node.new[s] = 0 /\ host' = host))
    <3>1. node'.new = n /\ node'.version = v /\ node'.old = node.old /\ node'.ignore = node.ignore
      BY <1>2, <2>3 DEF NodeKeys
    <3>2. CASE x = s
      <4>1. host'[s] = 0
        BY <1>4, <2>1, <2>3, <3>2 DEF KeysOf
      <4> QED
        BY <1>3, <3>1, <3>2, <4>1 DEF KeysOf
    <3>3. CASE x # s
      BY <1>3, <2>1, <3>1, <3>3 DEF KeysOf
    <3> QED
      BY <3>2, <3>3
  <2> QED
    BY <1>1, <2>2, <2>3
<1>6. pass'.pc = "idle"
  BY <1>1 DEF IdlePass
<1> QED
  BY <1>5, <1>6 DEF TakeInv

LEMMA TakeStep == IInv /\ SpecsOf /\ TakeInv /\ [Next]_vars => TakeInv'
<1> SUFFICES ASSUME IInv, SpecsOf, TakeInv, [Next]_vars
             PROVE  TakeInv'
  OBVIOUS
<1>0. TypeOK
  BY DEF IInv
<1>1. CASE node' = node /\ host' = host /\ reworked' = reworked /\ (pass' = pass \/ pass' = IdlePass)
  <2>1. IdlePass.pc = "idle"
    BY DEF IdlePass
  <2>2. pass'.pc # "idle" => operator = "new" /\ InFlight = {}
    BY <1>0, <1>1, <2>1 DEF TypeOK, TakeInv
  <2>3. pass'.pc # "idle" => InFlight' = {}
    BY <1>0, <2>2, NoneInFlight
  <2> QED
    BY <1>1, <2>3, TakeFrame
<1>2. ASSUME NEW s \in Names, ReconcileWorkloads(s)
      PROVE  TakeInv'
  <2>1. /\ pass.pc = "pods" /\ node' = node /\ host' = host /\ reworked' = reworked /\ legacy' = legacy
    BY <1>2 DEF ReconcileWorkloads
  <2>2. CASE pass' = IdlePass
    BY <1>1, <2>1, <2>2
  <2>3. CASE \E had, a : pass' = [pass EXCEPT !.pc = "stamp", !.had = had, !.again = pass.again \/ a]
    <3>1. pass'.pc = "stamp" /\ pass'.snap = pass.snap /\ pass'.seen = pass.seen /\ pass'.todo = pass.todo
          /\ (pass'.again = FALSE => pass.again = FALSE)
      BY <1>0, <2>3 DEF TypeOK, PassRecord
    <3> QED
      BY <1>0, <2>1, <3>1, AdoptFrame
  <2> QED
    BY <1>2, <2>2, <2>3 DEF ReconcileWorkloads
<1>3. ASSUME NEW s \in Names,
             OldFinishes(s) \/ MigrateNode(s) \/ ReconcileStamp(s) \/ Serve(s) \/ FinalizeTarget(s)
      PROVE  TakeInv'
  BY <1>0, <1>3, OldFinishesTake, MigrateNodeTake, ReconcileStampTake, ServeTake, FinalizeTargetTake
<1>4. CASE BeginPass \/ IgnoreNode
  BY <1>0, <1>4, BeginPassTake, IgnoreNodeTake
<1> QED
  BY <1>1, <1>2, <1>3, <1>4
  DEF Next, NewOperator, Switch, Crash, Started, Edit, OldStarts, ReconcileMirror, WriteMirror, GarbageCollect,
      WindowElapses, EditLegacy, EditTarget, vars

\* A node's state under the new prefix changes in the rest of a pass by the serving of its
\* NodeWright only, which is due when the state does not say that the spec is applied.
LEMMA Applied ==
  ASSUME TypeOK, [Next]_vars, NEW s \in Names, node.new'[s] # node.new[s], pass.pc = "work", ~pass.seen[s].deleting
  PROVE  s \in pass.todo /\ "new" \notin node.ignore /\ node.new[s] # pass.seen[s].spec
<1>1. CASE node' = node
  BY <1>1
<1>2. operator = "new"
  BY DEF TypeOK, IdlePass
<1>3. ASSUME NEW x \in Names, Serve(x)
      PROVE  s \in pass.todo /\ "new" \notin node.ignore /\ node.new[s] # pass.seen[s].spec
  <2> DEFINE k == pass.seen[x].spec
             n == [node.new EXCEPT ![x] = k]
  <2>1. /\ node' = [node EXCEPT !.new = n] /\ x \in pass.todo
        /\ "new" \notin node.ignore /\ node.new[x] # k
    BY <1>1, <1>3 DEF Serve, Turn
  <2>2. \A y \in Names \ {x} : n[y] = node.new[y]
    BY DEF TypeOK, NodeKeys
  <2> HIDE DEF n
  <2>3. node'.new = n
    BY <2>1 DEF TypeOK, NodeKeys
  <2>4. x = s
    BY <2>2, <2>3
  <2> QED
    BY <2>1, <2>4
<1>4. ASSUME NEW x \in Names, FinalizeTarget(x)
      PROVE  FALSE
  <2> DEFINE n == [node.new EXCEPT ![x] = 0]
             v == [node.version EXCEPT ![x] = FALSE]
  <2>1. node' = [node EXCEPT !.new = n, !.version = v] /\ x # s
    BY <1>1, <1>4 DEF FinalizeTarget
  <2>2. \A y \in Names \ {x} : n[y] = node.new[y]
    BY DEF TypeOK, NodeKeys
  <2> HIDE DEF n, v
  <2>3. node'.new = n
    BY <2>1 DEF TypeOK, NodeKeys
  <2> QED
    BY <2>1, <2>2, <2>3
<1> QED
  BY <1>1, <1>2, <1>3, <1>4
  DEF Next, NewOperator, BeginPass, MigrateNode, ReconcileWorkloads, ReconcileStamp, Switch, Crash, Started,
      IgnoreNode, Edit, OldStarts, OldFinishes, ReconcileMirror, WriteMirror, GarbageCollect, WindowElapses,
      EditLegacy, EditTarget, vars

\* The new operator takes over what the earlier one did: what is on the host is applied
\* again for no NodeWright, on no node that has opted out, and beside no rollout of the
\* earlier operator.
THEOREM TakeoverRepeatsNothing == Spec => TakesOver
<1> DEFINE Step == \A s \in Names :
             operator = "new" /\ node.new'[s] # node.new[s] /\ pass.pc = "work" /\ ~pass.seen[s].deleting =>
               /\ InFlight = {}
               /\ s \in reworked \/ (node.ignore = {} /\ host[s] # pass.seen[s].spec)
<1>1. Init => SpecsOf /\ TakeInv
  <2>1. ASSUME Init
        PROVE  SpecsOf /\ TakeInv
    <3>1. \A x \in Names : target[x].here = FALSE /\ mirror[x].pc = "idle" /\ pass.seen[x].here = FALSE
      BY <2>1 DEF Init, NoTarget, IdleMirror, IdlePass
    <3>2. pass.pc = "idle" /\ \A x \in Names : node.version[x] = FALSE /\ node.new[x] = 0 /\ host[x] = 0
      BY <2>1 DEF Init, IdlePass, NoKeys
    <3> QED
      BY <3>1, <3>2 DEF SpecsOf, TakeInv, KeysOf
  <2> QED
    BY <2>1
<1>2. ASSUME IInv, SpecsOf, TakeInv, [Next]_vars
      PROVE  Step
  <2>0. TypeOK
    BY <1>2 DEF IInv
  <2> SUFFICES ASSUME NEW s \in Names, node.new'[s] # node.new[s], pass.pc = "work", ~pass.seen[s].deleting
               PROVE  InFlight = {} /\ (s \in reworked \/ (node.ignore = {} /\ host[s] # pass.seen[s].spec))
    OBVIOUS
  <2>1. s \in pass.todo /\ "new" \notin node.ignore /\ node.new[s] # pass.seen[s].spec
    BY <1>2, <2>0, Applied
  <2>2. InFlight = {} /\ pass.seen[s].here /\ (s \notin reworked => node.version[s] = TRUE)
    BY <1>2, <2>1 DEF TakeInv
  <2>3. ASSUME s \notin reworked
        PROVE  node.ignore = {} /\ host[s] # pass.seen[s].spec
    <3>1. KeysOf(node, s) /\ node.version[s] = TRUE
      BY <1>2, <2>2, <2>3 DEF TakeInv
    <3>2. node.ignore \subseteq {"old", "new"}
      BY <2>0 DEF TypeOK, NodeKeys
    <3>3. pass.seen[s].spec # 0
      BY <1>2, <2>2 DEF SpecsOf
    <3> QED
      BY <2>1, <3>1, <3>2, <3>3 DEF KeysOf
  <2> QED
    BY <2>2, <2>3
<1>3. Spec => [](IInv /\ SpecsOf /\ TakeInv)
  BY <1>1, InitIInv, StampStep, SpecsStep, TakeStep, PTL DEF Spec
<1> QED
  BY <1>2, <1>3, PTL DEF Spec, TakesOver
=============================================================================
