---------------------------- MODULE SharedNodes ----------------------------
(***************************************************************************)
(* Several NodeWrights on the same nodes: the order in which they may work *)
(* on a node, the cordon they share, the drain and its timeout, the        *)
(* runtime-required taint, reboots, and the deletion of a NodeWright.      *)
(*                                                                         *)
(* The packages of a NodeWright are one package here (PackageLifecycle has *)
(* the stages), and every node matches every NodeWright.  A pass reads the *)
(* nodes once; each NodeWright works on its own copy of that snapshot, and *)
(* a write sends only what the copy changed.                               *)
(***************************************************************************)
EXTENDS Naturals, FiniteSets

CONSTANTS
  Nodes, Wrights,
  Order,            \* the NodeWrights by priority, then name
  SequencingAll,    \* those with sequencing: all
  RuntimeRequired, AutoTaint, CordonAfter, \* runtimeRequired, autoTaintNewNodes, ...CordonAfter
  Interrupting,     \* those whose package has an interrupt
  UninstallEnabled, \* those whose package has uninstall.enabled
  ReapplyOnReboot,
  EditKinds,        \* edits of this instance
  Errors,           \* API calls that may fail in this instance
  MaxEdits, MaxReboots, MaxErrors, MaxCrashes \* bounds

Modes == {"run", "pause", "disable"}

ASSUME WrightsAssumption ==
  /\ IsFiniteSet(Nodes) /\ IsFiniteSet(Wrights)
  /\ Order \in [Wrights -> Nat] /\ \A v, w \in Wrights : Order[v] = Order[w] => v = w
  /\ SequencingAll \subseteq Wrights /\ RuntimeRequired \subseteq Wrights
  /\ AutoTaint \subseteq RuntimeRequired /\ CordonAfter \subseteq RuntimeRequired
  /\ Interrupting \subseteq Wrights /\ UninstallEnabled \subseteq Wrights
ASSUME SharedBoundsAssumption ==
  /\ ReapplyOnReboot \in BOOLEAN
  /\ EditKinds \subseteq {"pause", "disable", "delete"}
  /\ Errors \subseteq {"delete", "patch", "status"}
  /\ MaxEdits \in Nat /\ MaxReboots \in Nat /\ MaxErrors \in Nat /\ MaxCrashes \in Nat

VARIABLES
  wright,   \* the NodeWrights
  node,     \* the nodes
  job,      \* the Job of each NodeWright on each node, and the boot it ran in
  workload, \* the other pods of each node
  applied,  \* history: the boot in which each package was last applied
  pass,     \* the pass in progress
  used      \* how much of each bound is spent; history: the Jobs a failed deletion left
            \* behind, and the NodeWrights that were disabled and enabled again

vars == <<wright, node, job, workload, applied, pass, used>>

\* What a NodeWright keeps on a node: its status, its package's entry, its cordon
\* annotation and its drain-start annotation ("expired": older than the timeout).
NoMarks == [status |-> "none", entry |-> "none", cordon |-> FALSE, drain |-> "none"]
NoJob == [phase |-> "none", kind |-> "apply", boot |-> 0]
NewNode == [boot |-> 1, taint |-> FALSE, autoTaint |-> FALSE, unsched |-> FALSE,
            rrCordon |-> FALSE, of |-> [w \in Wrights |-> NoMarks]]
NewWright == [mode |-> "run", deleting |-> FALSE, finalizer |-> FALSE, gone |-> FALSE,
              boots |-> [n \in Nodes |-> 0]]
IdlePass == [pc |-> "idle", snap |-> [n \in Nodes |-> NewNode],
             mem |-> [n \in Nodes |-> NewNode], todo |-> {}, save |-> {},
             boots |-> [w \in Wrights |-> [n \in Nodes |-> 0]]]

Init ==
  /\ wright = [w \in Wrights |-> NewWright]
  /\ node = [n \in Nodes |-> NewNode]
  /\ job = [n \in Nodes |-> [w \in Wrights |-> NoJob]]
  /\ workload = [n \in Nodes |-> "none"]
  /\ applied = [n \in Nodes |-> [w \in Wrights |-> 0]]
  /\ pass = IdlePass
  /\ used = [edits |-> 0, reboots |-> 0, errors |-> 0, crashes |-> 0,
             kept |-> {}, resumed |-> {}]

Present == {w \in Wrights : ~wright[w].gone}
Before(w) == {v \in Present : Order[v] < Order[w]}
Completed(nd, w) == nd.of[w].entry = "complete"
SetMarks(nd, w, marks) == [nd EXCEPT !.of = [nd.of EXCEPT ![w] = marks]]
SetJob(n, w, j) == [job EXCEPT ![n] = [job[n] EXCEPT ![w] = j]]

\* A field after a patch: what was changed is written, the rest stays as it is by now.
Merged(now, old, new) == IF old = new THEN now ELSE new

\* The node after a write of what mem changed since snap, for one NodeWright.
Patched(n, w, snap, mem) ==
  LET now == node[n].of[w] old == snap.of[w] new == mem.of[w] IN
  SetMarks([node[n] EXCEPT !.unsched = Merged(node[n].unsched, snap.unsched, mem.unsched)], w,
           [status |-> Merged(now.status, old.status, new.status),
            entry |-> Merged(now.entry, old.entry, new.entry),
            cordon |-> Merged(now.cordon, old.cordon, new.cordon),
            drain |-> Merged(now.drain, old.drain, new.drain)])

-----------------------------------------------------------------------------
(***************************************************************************)
(* The node wrapper: cordon, uncordon, reset, cleanup.                     *)
(***************************************************************************)
Cordon(nd, w) == SetMarks([nd EXCEPT !.unsched = TRUE], w, [nd.of[w] EXCEPT !.cordon = TRUE])

HasSkyhookCordon(nd) == nd.rrCordon \/ \E w \in Wrights : nd.of[w].cordon

\* Mutant: a NodeWright lifts the cordon without a look at the others'.
UncordonAlone(nd, w) ==
  IF ~nd.of[w].cordon THEN nd
  ELSE SetMarks([nd EXCEPT !.unsched = FALSE], w, [nd.of[w] EXCEPT !.cordon = FALSE])

Uncordon(nd, w) ==
  LET released == SetMarks(nd, w, [nd.of[w] EXCEPT !.cordon = FALSE]) IN
  IF ~nd.of[w].cordon THEN nd
  ELSE [released EXCEPT !.unsched = nd.unsched /\ HasSkyhookCordon(released)]

\* Mutant: completion does not lift the NodeWright's cordon.
SetStatusOnly(nd, w, s) == SetMarks(nd, w, [nd.of[w] EXCEPT !.status = s])

SetStatus(nd, w, s) ==
  LET set == SetMarks(nd, w, [nd.of[w] EXCEPT !.status = s]) IN IF s = "complete" THEN Uncordon(set, w) ELSE set

\* Everything but the node's being unschedulable.
Reset(nd, w) == SetMarks(nd, w, NoMarks)

\* Entries that were not uninstalled stay, with the files on the host.
CleanupSCRMetadata(nd, w) == SetMarks(nd, w, [NoMarks EXCEPT !.entry = nd.of[w].entry])

HasSkyhookAnnotations(nd) ==
  nd.autoTaint \/ nd.rrCordon \/ \E w \in Wrights : nd.of[w] # NoMarks

-----------------------------------------------------------------------------
(***************************************************************************)
(* Auto-taint and reboots: a pass that has either to do does nothing else. *)
(***************************************************************************)
AutoTaintNodes ==
  {n \in Nodes : /\ ~node[n].taint /\ ~HasSkyhookAnnotations(node[n])
                 /\ AutoTaint \cap Present # {}}

HandleAutoTaint ==
  /\ pass.pc = "idle" /\ AutoTaintNodes # {}
  /\ node' = [n \in Nodes |-> IF n \in AutoTaintNodes
                                THEN [node[n] EXCEPT !.taint = TRUE, !.autoTaint = TRUE] ELSE node[n]]
  /\ UNCHANGED <<wright, job, workload, applied, pass, used>>

\* A node is new to a NodeWright, or has another boot id than its status.
Rebooted == {p \in Present \X Nodes : wright[p[1]].boots[p[2]] # node[p[2]].boot}

TrackReboots ==
  /\ pass.pc = "idle" /\ AutoTaintNodes = {} /\ Rebooted # {}
  /\ pass' = [IdlePass EXCEPT !.pc = "reboot", !.snap = node, !.todo = Rebooted,
                              !.save = {p[1] : p \in Rebooted},
                              !.boots = [w \in Wrights |-> wright[w].boots]]
  /\ UNCHANGED <<wright, node, job, workload, applied, used>>

MayFail(call) == call \in Errors /\ used.errors < MaxErrors
Fails(call) == MayFail(call) /\ used' = [used EXCEPT !.errors = @ + 1]

\* Mutant: the boot id is recorded whether or not the reset was written.
RecordedAnyway(w, n, patched) ==
  [pass.boots EXCEPT ![w] = [pass.boots[w] EXCEPT ![n] = pass.snap[n].boot]]

RecordBoot(w, n, patched) ==
  IF patched THEN [pass.boots EXCEPT ![w] = [pass.boots[w] EXCEPT ![n] = pass.snap[n].boot]]
  ELSE pass.boots

\* Mutant: the node starts over without its taint.
ResetUntainted(nd, w) == Reset(nd, w)

\* The node that rebooted starts over, and a NodeWright with auto-taint taints it again.
ResetRebooted(nd, w) == [Reset(nd, w) EXCEPT !.taint = nd.taint \/ w \in AutoTaint]

\* One node of TrackReboots.  A failed deletion of its Jobs stops nothing.
TrackReboot(w, n) ==
  LET first == pass.boots[w][n] = 0
      deleted == SetJob(n, w, NoJob)
      after == ResetRebooted(node[n], w)
      Done(patched) == pass' = [pass EXCEPT !.todo = @ \ {<<w, n>>},
                                            !.boots = RecordBoot(w, n, patched)]
  IN /\ pass.pc = "reboot" /\ <<w, n>> \in pass.todo
     /\ \A p \in pass.todo : Order[w] <= Order[p[1]]
     /\ \/ /\ first \/ ~ReapplyOnReboot
           /\ Done(TRUE) /\ UNCHANGED <<node, job, used>>
        \/ /\ ~first /\ ReapplyOnReboot
           /\ \/ job' = deleted /\ node' = [node EXCEPT ![n] = after] /\ Done(TRUE) /\ UNCHANGED used
              \/ MayFail("delete") /\ used' = [used EXCEPT !.errors = @ + 1, !.kept = @ \cup {<<n, w>>}]
                 /\ job' = job /\ node' = [node EXCEPT ![n] = after] /\ Done(TRUE)
              \/ Fails("patch") /\ job' = deleted /\ node' = node /\ Done(FALSE)
     /\ UNCHANGED <<wright, workload, applied>>

\* The status of a NodeWright is updated when its nodes are done.
UpdateBootIds(w) ==
  /\ pass.pc = "reboot" /\ w \in pass.save
  /\ \A p \in pass.todo : Order[w] < Order[p[1]]
  /\ \/ wright' = [wright EXCEPT ![w] = [wright[w] EXCEPT !.boots = pass.boots[w]]] /\ UNCHANGED used
     \/ Fails("status") /\ UNCHANGED wright
  /\ pass' = IF pass.save = {w} THEN IdlePass ELSE [pass EXCEPT !.save = @ \ {w}]
  /\ UNCHANGED <<node, job, workload, applied>>

-----------------------------------------------------------------------------
(***************************************************************************)
(* The loop over the NodeWrights: finalizer, pause, introspection.  A pass *)
(* ends at the first NodeWright that one of them changes.                  *)
(***************************************************************************)
AllComplete(w) == \A n \in Nodes : Completed(node[n], w)

Introspected(n, w) ==
  LET nd == node[n] s == nd.of[w].status IN
  CASE wright[w].mode = "pause" -> SetStatus(nd, w, "pause")
    [] wright[w].mode = "disable" /\ ~AllComplete(w) -> SetStatus(nd, w, "disable")
    [] wright[w].mode # "pause" /\ Completed(nd, w)
         /\ (wright[w].mode = "run" \/ AllComplete(w)) -> SetStatus(nd, w, "complete")
    [] wright[w].mode = "run" /\ ~Completed(nd, w) ->
         IF s \in {"none", "pause", "disable", "complete"} THEN SetStatus(nd, w, "waiting") ELSE nd

ToIntrospect(w) == \E n \in Nodes : Introspected(n, w) # node[n]

\* Mutant: packages that cannot be uninstalled are waited for, too.
HasPendingAny(w) == \E n \in Nodes : node[n].of[w].entry # "none"

HasPendingUninstall(w) == w \in UninstallEnabled /\ \E n \in Nodes : node[n].of[w].entry # "none"
ToFinalize(w) == wright[w].deleting /\ wright[w].finalizer /\ ~HasPendingUninstall(w)

\* The pass comes to w with nothing done for the NodeWrights before it.
Reaches(w) ==
  /\ pass.pc = "idle" /\ AutoTaintNodes = {} /\ Rebooted = {}
  /\ \A v \in Before(w) : wright[v].finalizer /\ ~ToFinalize(v) /\ ~ToIntrospect(v)

AddFinalizer(w) ==
  /\ w \in Present /\ Reaches(w) /\ ~wright[w].deleting /\ ~wright[w].finalizer
  /\ wright' = [wright EXCEPT ![w] = [wright[w] EXCEPT !.finalizer = TRUE]]
  /\ UNCHANGED <<node, job, workload, applied, pass, used>>

HandleFinalizer(w) ==
  /\ w \in Present /\ Reaches(w) /\ ToFinalize(w)
  /\ pass' = [IdlePass EXCEPT !.pc = "cleanup", !.snap = node, !.save = {w},
                              !.todo = {w} \X Nodes]
  /\ UNCHANGED <<wright, node, job, workload, applied, used>>

\* Mutant: a node that cannot be written is passed over.
CleanupNodeRegardless(w, n) ==
  LET after == CleanupSCRMetadata(Uncordon(pass.snap[n], w), w) IN
  /\ pass.pc = "cleanup" /\ <<w, n>> \in pass.todo
  /\ \/ node' = [node EXCEPT ![n] = Patched(n, w, pass.snap[n], after)] /\ UNCHANGED used
     \/ Fails("patch") /\ UNCHANGED node
  /\ pass' = [pass EXCEPT !.todo = @ \ {<<w, n>>}]
  /\ UNCHANGED <<wright, job, workload, applied>>

\* The rest is cleaned up, but a node that cannot be written keeps the finalizer in place.
CleanupNode(w, n) ==
  LET after == CleanupSCRMetadata(Uncordon(pass.snap[n], w), w) IN
  /\ pass.pc = "cleanup" /\ <<w, n>> \in pass.todo
  /\ \/ /\ node' = [node EXCEPT ![n] = Patched(n, w, pass.snap[n], after)]
        /\ pass' = [pass EXCEPT !.todo = @ \ {<<w, n>>}]
        /\ UNCHANGED used
     \/ /\ Fails("patch")
        /\ pass' = [pass EXCEPT !.todo = @ \ {<<w, n>>}, !.save = {}]
        /\ UNCHANGED node
  /\ UNCHANGED <<wright, job, workload, applied>>

\* Without its finalizer the object goes, and its Jobs with it.
RemoveFinalizer(w) ==
  /\ pass.pc = "cleanup" /\ pass.todo = {} /\ pass.save \subseteq {w}
  /\ \/ /\ pass.save = {w}
        /\ wright' = [wright EXCEPT ![w] = [wright[w] EXCEPT !.finalizer = FALSE, !.gone = TRUE]]
        /\ job' = [n \in Nodes |-> [job[n] EXCEPT ![w] = NoJob]]
     \/ pass.save = {} /\ UNCHANGED <<wright, job>>
  /\ pass' = IdlePass
  /\ UNCHANGED <<node, workload, applied, used>>

IntrospectSkyhook(w) ==
  /\ w \in Present /\ Reaches(w) /\ wright[w].finalizer /\ ~ToFinalize(w) /\ ToIntrospect(w)
  /\ node' = [n \in Nodes |-> Introspected(n, w)]
  /\ UNCHANGED <<wright, job, workload, applied, pass, used>>

-----------------------------------------------------------------------------
(***************************************************************************)
(* processSkyhooksPerNode, over the pass's snapshot.                       *)
(***************************************************************************)
\* HandleUninstallRequests: the packages a deletion asks for leave the complete state
\* in the NodeWright's own copies, before anything else looks at them.
HandleUninstallRequests(nd) ==
  [nd EXCEPT !.of = [w \in Wrights |->
     IF /\ wright[w].deleting /\ wright[w].mode = "run" /\ w \in UninstallEnabled
        /\ Completed(nd, w)
     THEN [nd.of[w] EXCEPT !.entry = "uninstall", !.status = "in_progress"] ELSE nd.of[w]]]

Requested == [n \in Nodes |-> HandleUninstallRequests(node[n])]

\* Mutant: a paused predecessor is skipped like a disabled one.
IsNodeReadyPastPaused(n, w, nodes) ==
  \A v \in Before(w) : wright[v].mode = "run" =>
    \A m \in (IF v \in SequencingAll THEN Nodes ELSE {n}) : Completed(nodes[m], v)

IsNodeReadyForSkyhook(n, w, nodes) ==
  \A v \in Before(w) : wright[v].mode # "disable" =>
    \A m \in (IF v \in SequencingAll THEN Nodes ELSE {n}) : Completed(nodes[m], v)

\* A package that was uninstalled because its NodeWright is deleted is not applied again.
ToRun(n, w, nodes) ==
  /\ w \in Present /\ wright[w].mode = "run" /\ IsNodeReadyForSkyhook(n, w, nodes)
  /\ ~Completed(nodes[n], w)
  /\ ~(wright[w].deleting /\ w \in UninstallEnabled /\ nodes[n].of[w].entry = "none")

ProcessSkyhooksPerNode ==
  /\ pass.pc = "idle" /\ Present # {} /\ AutoTaintNodes = {} /\ Rebooted = {}
  /\ \A w \in Present : ~ToFinalize(w) /\ ~ToIntrospect(w) /\ wright[w].finalizer
  /\ \E nodes \in {Requested} :
       LET todo == {p \in Wrights \X Nodes : ToRun(p[2], p[1], nodes)} IN
       pass' = [IdlePass EXCEPT !.pc = "run", !.snap = node, !.mem = nodes, !.todo = todo,
                                !.save = {p[1] : p \in todo}]
  /\ UNCHANGED <<wright, node, job, workload, applied, used>>

Visits(w, n) ==
  /\ pass.pc = "run" /\ <<w, n>> \in pass.todo
  /\ \A p \in pass.todo : Order[w] <= Order[p[1]]
  /\ \A v \in pass.save : Order[w] <= Order[v]

Visited(w, n, nd) ==
  pass' = [pass EXCEPT !.todo = @ \ {<<w, n>>}, !.mem = [pass.mem EXCEPT ![n] = nd]]

\* The copies of the next NodeWright, which have not seen this one's cordons.
NextCopies == [n \in Nodes |-> [pass.mem[n] EXCEPT !.unsched = pass.snap[n].unsched]]

\* The rest of the NodeWright's nodes are left out, and nothing of it is saved.
Abort(w) ==
  pass' = [pass EXCEPT !.todo = {p \in @ : p[1] # w}, !.save = @ \ {w}, !.mem = NextCopies]

\* The Job of the package's stage, unless one is there: a recorded one makes room first.
CreateJob(w, n, nd) ==
  LET kind == IF nd.of[w].entry = "uninstall" THEN "uninstall" ELSE "apply"
      entry == IF kind = "apply" THEN "in_progress" ELSE "uninstall"
  IN \/ /\ job[n][w].phase = "none"
        /\ job' = SetJob(n, w, [phase |-> "active", kind |-> kind, boot |-> 0])
        /\ Visited(w, n, SetStatus(SetMarks(nd, w, [nd.of[w] EXCEPT !.entry = entry]), w, "in_progress"))
     \/ /\ job[n][w].phase # "none"
        /\ job' = IF job[n][w].phase = "recorded" THEN SetJob(n, w, NoJob) ELSE job
        /\ Visited(w, n, nd)

\* EnsureNodeIsReadyForInterrupt and DrainNode: cordon first, drain in a later pass; the
\* drain is timed from its first pass, and a refused eviction ends the NodeWright's turn.
DrainNode(w, n) ==
  LET nd == pass.mem[n]
      begun == IF nd.of[w].drain # "none" THEN nd
               ELSE SetStatus(SetMarks(nd, w, [nd.of[w] EXCEPT !.drain = "started"]), w, "in_progress")
  IN \/ /\ workload[n] = "none"
        /\ CreateJob(w, n, SetMarks(nd, w, [nd.of[w] EXCEPT !.drain = "none"]))
        /\ UNCHANGED workload
     \/ /\ workload[n] # "none" /\ nd.of[w].drain = "expired"
        /\ Visited(w, n, SetStatus(nd, w, "erroring"))
        /\ UNCHANGED <<job, workload>>
     \/ /\ workload[n] \in {"running", "leaving"} /\ nd.of[w].drain # "expired"
        /\ workload' = [workload EXCEPT ![n] = "leaving"]
        /\ Visited(w, n, begun)
        /\ UNCHANGED job
     \/ /\ workload[n] = "protected" /\ nd.of[w].drain # "expired"
        /\ Abort(w)
        /\ UNCHANGED <<job, workload>>

RunPackages(w, n) ==
  LET nd == pass.mem[n] IN
  /\ Visits(w, n)
  /\ \/ /\ w \notin Interrupting \/ job[n][w].phase # "none"
        /\ CreateJob(w, n, nd) /\ UNCHANGED workload
     \/ /\ w \in Interrupting /\ job[n][w].phase = "none" /\ ~(nd.unsched /\ nd.of[w].cordon)
        /\ Visited(w, n, Cordon(nd, w)) /\ UNCHANGED <<job, workload>>
     \/ /\ w \in Interrupting /\ job[n][w].phase = "none" /\ nd.unsched /\ nd.of[w].cordon
        /\ DrainNode(w, n)
  /\ UNCHANGED <<wright, node, applied, used>>

\* SaveNodesAndSkyhook: the nodes the NodeWright's copies changed; every NodeWright
\* has copies of its own.
SaveWright(w) ==
  /\ pass.pc = "run" /\ w \in pass.save
  /\ \A p \in pass.todo : Order[w] < Order[p[1]]
  /\ \A v \in pass.save : Order[w] <= Order[v]
  /\ node' = [n \in Nodes |-> Patched(n, w, pass.snap[n], pass.mem[n])]
  /\ pass' = [pass EXCEPT !.save = @ \ {w}, !.mem = NextCopies]
  /\ UNCHANGED <<wright, job, workload, applied, used>>

RunEnds ==
  /\ pass.pc = "run" /\ pass.todo = {} /\ pass.save = {}
  /\ pass' = [pass EXCEPT !.pc = "taint", !.todo = Wrights \X Nodes]
  /\ UNCHANGED <<wright, node, job, workload, applied, used>>

-----------------------------------------------------------------------------
(***************************************************************************)
(* HandleRuntimeRequired, decided on the snapshot.                         *)
(***************************************************************************)
Required == RuntimeRequired \cap Present

TaintRemovable(nd) == Required # {} /\ \A w \in Required : Completed(nd, w)

\* The taint goes and the persistent cordon comes in one write, on the node as it is
\* now; the annotation of a cordon that was lifted by hand goes if the node is unchanged.
HandleRuntimeRequired ==
  /\ pass.pc = "taint"
  /\ node' = [n \in Nodes |->
       LET nd == node[n] snap == pass.snap[n]
           after == IF ~TaintRemovable(snap) \/ ~nd.taint THEN nd
                    ELSE IF CordonAfter \cap Present = {} THEN [nd EXCEPT !.taint = FALSE]
                    ELSE [nd EXCEPT !.taint = FALSE, !.rrCordon = TRUE, !.unsched = TRUE]
       IN IF after = nd /\ nd = snap /\ snap.rrCordon /\ ~snap.unsched
            THEN [nd EXCEPT !.rrCordon = FALSE] ELSE after]
  /\ pass' = IdlePass
  /\ UNCHANGED <<wright, job, workload, applied, used>>

Reconcile ==
  \/ HandleAutoTaint \/ TrackReboots \/ ProcessSkyhooksPerNode \/ RunEnds \/ HandleRuntimeRequired
  \/ \E w \in Wrights : \/ UpdateBootIds(w) \/ AddFinalizer(w) \/ HandleFinalizer(w)
                        \/ RemoveFinalizer(w) \/ IntrospectSkyhook(w) \/ SaveWright(w)
                        \/ \E n \in Nodes : TrackReboot(w, n) \/ CleanupNode(w, n) \/ RunPackages(w, n)

Crash ==
  /\ pass.pc # "idle" /\ used.crashes < MaxCrashes
  /\ pass' = IdlePass
  /\ used' = [used EXCEPT !.crashes = @ + 1]
  /\ UNCHANGED <<wright, node, job, workload, applied>>

-----------------------------------------------------------------------------
(***************************************************************************)
(* Jobs, nodes, workloads and users.                                       *)
(***************************************************************************)
JobFinishes(w, n) ==
  /\ job[n][w].phase = "active"
  /\ job' = SetJob(n, w, [job[n][w] EXCEPT !.phase = "finished", !.boot = node[n].boot])
  /\ UNCHANGED <<wright, node, workload, applied, pass, used>>

\* Recorded if the entry is open at the Job's stage; marked as recorded in any case.
JobRecorded(w, n) ==
  LET j == job[n][w]
      open == node[n].of[w].entry = IF j.kind = "apply" THEN "in_progress" ELSE "uninstall"
  IN /\ j.phase = "finished"
     /\ job' = SetJob(n, w, [j EXCEPT !.phase = "recorded"])
     /\ node' = IF ~open THEN node
                ELSE [node EXCEPT ![n] = SetMarks(node[n], w, [node[n].of[w] EXCEPT
                        !.entry = IF j.kind = "apply" THEN "complete" ELSE "none"])]
     /\ applied' = IF open /\ j.kind = "apply"
                   THEN [applied EXCEPT ![n] = [applied[n] EXCEPT ![w] = j.boot]] ELSE applied
     /\ UNCHANGED <<wright, workload, pass, used>>

Reboot(n) ==
  /\ used.reboots < MaxReboots
  /\ node' = [node EXCEPT ![n] = [node[n] EXCEPT !.boot = node[n].boot + 1]]
  /\ used' = [used EXCEPT !.reboots = @ + 1]
  /\ UNCHANGED <<wright, job, workload, applied, pass>>

PlaceWorkload(n) ==
  /\ workload[n] = "none" /\ ~node[n].unsched /\ ~node[n].taint
  /\ \E kind \in {"running", "protected"} : workload' = [workload EXCEPT ![n] = kind]
  /\ UNCHANGED <<wright, node, job, applied, pass, used>>

WorkloadLeaves(n) ==
  /\ workload[n] \in {"leaving", "protected"}
  /\ workload' = [workload EXCEPT ![n] = "none"]
  /\ UNCHANGED <<wright, node, job, applied, pass, used>>

DrainTimeoutPasses(w, n) ==
  /\ node[n].of[w].drain = "started"
  /\ node' = [node EXCEPT ![n] = SetMarks(node[n], w, [node[n].of[w] EXCEPT !.drain = "expired"])]
  /\ UNCHANGED <<wright, job, workload, applied, pass, used>>

\* An administrator accepts a node that was cordoned after its taint was removed.  (During
\* a pass this may cross a NodeWright's cordon; the next pass then cordons again.)
UserUncordons(n) ==
  /\ pass.pc = "idle" /\ node[n].rrCordon /\ node[n].unsched /\ \A w \in Wrights : ~node[n].of[w].cordon
  /\ node' = [node EXCEPT ![n] = [node[n] EXCEPT !.unsched = FALSE]]
  /\ UNCHANGED <<wright, job, workload, applied, pass, used>>

\* Between passes; an edit during a pass is seen by the next one.
Edit(kind) ==
  /\ kind \in EditKinds /\ used.edits < MaxEdits /\ pass.pc = "idle"
  /\ UNCHANGED <<node, job, workload, applied, pass>>

EditMode(w) ==
  /\ w \in Present
  /\ used' = [used EXCEPT !.edits = @ + 1,
                          !.resumed = IF wright[w].mode = "disable" THEN @ \cup {w} ELSE @]
  /\ \E m \in {"pause", "disable"} :
       /\ Edit(m)
       /\ wright' = [wright EXCEPT ![w] = [wright[w] EXCEPT
                       !.mode = IF wright[w].mode = "run" THEN m ELSE "run"]]

Delete(w) ==
  /\ Edit("delete") /\ w \in Present /\ ~wright[w].deleting
  /\ used' = [used EXCEPT !.edits = @ + 1]
  /\ wright' = [wright EXCEPT ![w] = [wright[w] EXCEPT !.deleting = TRUE,
                                                       !.gone = ~wright[w].finalizer]]

Environment ==
  \/ Crash
  \/ \E n \in Nodes : Reboot(n) \/ PlaceWorkload(n) \/ WorkloadLeaves(n) \/ UserUncordons(n)
  \/ \E w \in Wrights : EditMode(w) \/ Delete(w)
  \/ \E w \in Wrights, n \in Nodes :
       JobFinishes(w, n) \/ JobRecorded(w, n) \/ DrainTimeoutPasses(w, n)

Next == Reconcile \/ Environment

Spec == Init /\ [][Next]_vars

\* The operator keeps reconciling, Jobs end and are recorded, evicted pods terminate, and
\* time passes.
FairSpec ==
  /\ Spec /\ WF_vars(Reconcile)
  /\ \A n \in Nodes : WF_vars(WorkloadLeaves(n))
  /\ \A w \in Wrights, n \in Nodes :
       WF_vars(JobFinishes(w, n)) /\ WF_vars(JobRecorded(w, n)) /\ WF_vars(DrainTimeoutPasses(w, n))

-----------------------------------------------------------------------------
(***************************************************************************)
(* Properties.                                                             *)
(***************************************************************************)
Marks == [status: {"none", "waiting", "in_progress", "erroring", "complete", "pause", "disable"},
          entry: {"none", "in_progress", "complete", "uninstall"}, cordon: BOOLEAN,
          drain: {"none", "started", "expired"}]

NodeRecords == [boot: Nat, taint: BOOLEAN, autoTaint: BOOLEAN, unsched: BOOLEAN,
                rrCordon: BOOLEAN, of: [Wrights -> Marks]]
WrightRecords == [mode: Modes, deleting: BOOLEAN, finalizer: BOOLEAN, gone: BOOLEAN,
                  boots: [Nodes -> Nat]]
JobRecords == [phase: {"none", "active", "finished", "recorded"}, kind: {"apply", "uninstall"},
               boot: Nat]
PassRecords == [pc: {"idle", "reboot", "cleanup", "run", "taint"}, snap: [Nodes -> NodeRecords],
                mem: [Nodes -> NodeRecords], todo: SUBSET (Wrights \X Nodes),
                save: SUBSET Wrights, boots: [Wrights -> [Nodes -> Nat]]]
UsedRecords == [edits: Nat, reboots: Nat, errors: Nat, crashes: Nat,
                kept: SUBSET (Nodes \X Wrights), resumed: SUBSET Wrights]

\* Objects, annotations, copies and counters have the values the code writes.
TypeOK ==
  /\ wright \in [Wrights -> WrightRecords]
  /\ node \in [Nodes -> NodeRecords]
  /\ job \in [Nodes -> [Wrights -> JobRecords]]
  /\ workload \in [Nodes -> {"none", "running", "protected", "leaving"}]
  /\ applied \in [Nodes -> [Wrights -> Nat]]
  /\ pass \in PassRecords
  /\ used \in UsedRecords

\* A node that a NodeWright has recorded this boot for and holds complete was worked on
\* in this boot (TrackReboots: the reset is durable before the boot id is, over crashes,
\* failed writes and the completion of a Job from before the reboot).
CompleteInThisBoot ==
  \A n \in Nodes, w \in Present :
    ReapplyOnReboot /\ Completed(node[n], w) /\ wright[w].boots[n] = node[n].boot
      => applied[n][w] = node[n].boot

\* Two NodeWrights never apply their packages on a node at the same time
\* (IsNodeReadyForSkyhook, over priorities, pauses, deletions and reboots).  Two exceptions:
\* the first of them is disabled, so that the other one passes it, or was enabled again
\* since; and the Job of the second should have been deleted after a reboot and was not.
Applies(n, w) == w \in Present /\ job[n][w].phase = "active" /\ job[n][w].kind = "apply"
OneAtATime ==
  \A n \in Nodes, v, w \in Wrights :
    Order[v] < Order[w] /\ Applies(n, v) /\ Applies(n, w)
      => wright[v].mode = "disable" \/ v \in used.resumed \/ <<n, w>> \in used.kept

\* A node is unschedulable as long as any NodeWright holds a cordon on it, whoever else
\* completes, is deleted or starts over meanwhile (Uncordon, HandleFinalizer).
CordonHeld == \A n \in Nodes, w \in Wrights : node[n].of[w].cordon => node[n].unsched

\* An auto-tainted node loses the taint only when every runtime-required NodeWright is
\* complete on it, and has it again before one starts over: no gap opens between the
\* taint, the persistent cordon, the resets after a reboot and the deletion of a
\* NodeWright.  After a reboot only the NodeWrights that auto-taint are waited for: the
\* others start over on a node that stays open.
GatedUntilReady ==
  \A n \in Nodes : node[n].autoTaint /\ ~node[n].taint =>
    \A w \in RuntimeRequired \cap Present :
      wright[w].deleting \/ Completed(node[n], w) \/ (w \notin AutoTaint /\ node[n].boot > 1)

\* A NodeWright that is gone has left no cordon and no status behind.
GoneLeavesNothing ==
  \A w \in Wrights \ Present, n \in Nodes :
    ~node[n].of[w].cordon /\ node[n].of[w].status = "none" /\ node[n].of[w].drain = "none"

Stopped(w) == wright[w].mode # "run" \/ \E v \in Before(w) : wright[v].mode = "pause"

\* Every NodeWright that is not behind a paused one completes on every node in its
\* current boot, and then no node is kept out of service except by the persistent cordon
\* or by a NodeWright that was stopped halfway (the whole loop, with its early returns).
\* After a reboot a NodeWright that is deleted or stopped may leave its cordon behind.
AllServed ==
  <>[](/\ \A w \in Present, n \in Nodes :
            ~Stopped(w) /\ ~wright[w].deleting => applied[n][w] = node[n].boot
       /\ \A n \in Nodes : node[n].unsched =>
            \/ node[n].rrCordon
            \/ \E w \in Present : Stopped(w) /\ node[n].of[w].cordon
            \/ used.reboots > 0 /\ \E w \in Wrights : wright[w].mode # "run" \/ wright[w].deleting)

\* A deleted NodeWright goes, unless it is paused or disabled.
DeletionCompletes ==
  \A w \in Wrights : []<>(wright[w].deleting /\ wright[w].mode = "run" => wright[w].gone)
=============================================================================
