-------------------------- MODULE PackageLifecycle --------------------------
(***************************************************************************)
(* The life of the packages of one NodeWright on one node: the heavy       *)
(* reconcile pass (skyhook_controller.go), the Job and Pod reconcilers     *)
(* that write the same node-state annotation concurrently                  *)
(* (job_controller.go, pod_controller.go), the Kubernetes Job controller,  *)
(* informer caches and scheduler around them, and the user's edits.        *)
(*                                                                         *)
(* A pass takes a snapshot of the cached node, works on a private copy     *)
(* (`mem') package by package, creating Jobs as it goes, and writes the    *)
(* difference back only at its end; the other two controllers write        *)
(* between any two of its steps.                                           *)
(***************************************************************************)
EXTENDS NodeState, FiniteSets

CONSTANTS
  Rank,             \* Rank[p]: position of p in the order of package names
  Interrupt,        \* Interrupt[p]: the interrupt p declares, or "none"
  DependsOn,        \* DependsOn[p]: the packages p depends on
  UninstallEnabled, \* packages with uninstall.enabled
  Serial,           \* spec.serial
  NodeLag, JobLag,  \* may the informer's copy of the node / of a new Job lag?
  Overlap,          \* may Jobs finish during a pass, and passes start before
                    \* the outcome of a finished Job is recorded?
  Expiry,           \* outcomes of Jobs whose TTL is short enough to elapse
  EvictionRefused,  \* may the API server refuse an eviction (disruption budget)?
  EditPlans,        \* the sets of kinds of edit that a user combines
  MaxEdits,         \* bound: edits of the spec
  MaxFailures,      \* bound: failed attempts, failed and lost Jobs
  MaxCrashes        \* bound: restarts of the operator

EditKinds == {"version", "other", "uninstall", "mode"}
InterruptTypes == {"reboot", "restartAllServices", "service", "noop"}

ASSUME NoPackageIsNone == "none" \notin Pkgs
ASSUME RankAssumption ==
  /\ Rank \in [Pkgs -> Nat]
  /\ \A p, q \in Pkgs : Rank[p] = Rank[q] => p = q
ASSUME InterruptAssumption == Interrupt \in [Pkgs -> InterruptTypes \cup {"none"}]
ASSUME DependsOnAssumption == DependsOn \in [Pkgs -> SUBSET Pkgs]
ASSUME FlagsAssumption ==
  /\ UninstallEnabled \subseteq Pkgs
  /\ Serial \in BOOLEAN /\ NodeLag \in BOOLEAN /\ JobLag \in BOOLEAN
  /\ EvictionRefused \in BOOLEAN /\ Overlap \in BOOLEAN
  /\ Expiry \subseteq {"complete", "failed", "lost"}
  /\ EditPlans \subseteq SUBSET EditKinds
ASSUME BoundsAssumption == MaxEdits \in Nat /\ MaxFailures \in Nat /\ MaxCrashes \in Nat

VARIABLES
  spec,     \* the NodeWright's packages: version, uninstall.apply, and the
            \* NodeWright's generation, the same in each of them
  mode,     \* "run", or the pause / disable annotation
  node,     \* the node object in the API server
  cache,    \* the node object in the operator's informer cache
  jobs,     \* the Jobs in the API server, by deterministic name
  attempts, \* failed attempts (Job and package) the Pod watch has not handled yet
  workload, \* the user's pods on the node: "running" ones can be evicted,
            \* "protected" ones (podNonInterruptLabels) are waited for
  pass,     \* the heavy pass in progress
  recon,    \* the Job whose outcome is recorded but not yet marked processed
  ran,      \* history: executors that succeeded since their package's last uninstall
  owed,     \* history: packages configured since an interrupt last served them
  used      \* how much of each bound is spent

vars == <<spec, mode, node, cache, jobs, attempts, workload, pass, recon, ran, owed, used>>

SpecPkg == [ver: Versions, uninst: BOOLEAN, gen: 0..MaxEdits]
Specs == [Pkgs -> SpecPkg]
InitialSpec == [p \in Pkgs |-> [ver |-> 1, uninst |-> FALSE, gen |-> 0]]
Node == [ns: NodeStates, unsched: BOOLEAN, cordon: BOOLEAN]
InitialNode == [ns |-> EmptyNodeState, unsched |-> FALSE, cordon |-> FALSE]

HasInterrupt == [p \in Pkgs |-> Interrupt[p] # "none"]

(***************************************************************************)
(* Job names are deterministic.  The name of a package's stage holds the   *)
(* package, its version and the stage; the name of an interrupt only its   *)
(* type and the stage, so that packages and versions share it.             *)
(***************************************************************************)
Executors == Pkgs \X Versions \X Stage
PackageJobs == Pkgs \X Versions \X (Stage \ InterruptStages)
InterruptJobs == {<<Interrupt[p], 0, s>> : p \in {q \in Pkgs : HasInterrupt[q]}, s \in InterruptStages}
JobName == PackageJobs \cup InterruptJobs

NameOf(k, stage, type) ==
  IF stage \in InterruptStages THEN <<type, 0, stage>> ELSE <<k[1], k[2], stage>>

IsInterruptJob(j) == j[3] \in InterruptStages

\* A Job: the package it runs for and the generation it was built from.  A "failing"
\* one has exceeded its deadline and waits for its pods to end; "complete", "failed"
\* (a genuine failure) and "lost" (it only ever lost pods) are finished.  proc is the
\* state-recorded marker, inv the invalid mark, del the deletion timestamp, susp
\* spec.suspend, and seen says whether the informer cache holds the Job.
Job == [phase: {"none", "active", "failing", "complete", "failed", "lost"},
        of: Key \cup {<<"none", 0>>}, gen: 0..MaxEdits,
        seen: BOOLEAN, proc: BOOLEAN, inv: BOOLEAN, del: BOOLEAN, susp: BOOLEAN]
NoJob == [phase |-> "none", of |-> <<"none", 0>>, gen |-> 0, seen |-> FALSE,
          proc |-> FALSE, inv |-> FALSE, del |-> FALSE, susp |-> FALSE]
NewJob(k, pkg) ==
  [NoJob EXCEPT !.phase = "active", !.of = k, !.gen = pkg.gen, !.seen = ~JobLag]

KeyOf(j) == jobs[j].of
Executor(j) == <<KeyOf(j)[1], KeyOf(j)[2], j[3]>>

NoName == <<"none", 0, "none">>

\* Only Jobs the cache holds are listed; all but Create read through the cache.
Listed(j) == jobs[j].phase # "none" /\ jobs[j].seen
JobFinished(j) == jobs[j].phase \in {"complete", "failed", "lost"}
JobUnfinished(j) == jobs[j].phase \in {"active", "failing"}
JobFailedTerminally(j) == jobs[j].phase \in {"failed", "lost"}

IdlePass ==
  [pc |-> "idle", spec |-> InitialSpec, before |-> InitialNode, mem |-> InitialNode,
   un |-> {}, rest |-> {}, pack |-> "none"]

Init ==
  /\ spec = InitialSpec
  /\ mode = "run"
  /\ node = InitialNode /\ cache = InitialNode
  /\ jobs = [j \in JobName |-> NoJob]
  /\ attempts = {}
  /\ workload \in {"none", "running", "protected"}
  /\ pass = IdlePass
  /\ recon = NoName
  /\ ran = {} /\ owed = {}
  /\ used = [edits |-> 0, kinds |-> {}, failures |-> 0, crashes |-> 0]

-----------------------------------------------------------------------------
(***************************************************************************)
(* Validation of Jobs against the spec and the snapshot (the sweep).       *)
(***************************************************************************)

\* A Job built from what the spec says now.  The environment of a package's Job
\* names a directory with the generation in it, so every edit of the NodeWright
\* makes the Jobs it has differ; of an interrupt Job only the package is compared.
JobMatchesPackage(sp, j) ==
  /\ sp[KeyOf(j)[1]].ver = KeyOf(j)[2]
  /\ IsInterruptJob(j) \/ sp[KeyOf(j)[1]].gen = jobs[j].gen

\* An uninstall of a version the spec has left cannot be compared with the spec.
JobSpecMatchesPackage(sp, j) ==
  \/ JobMatchesPackage(sp, j)
  \/ j[3] = "uninstall" /\ sp[KeyOf(j)[1]].ver # KeyOf(j)[2]

JobIsStale(sp, ns, j) ==
  \/ ~JobSpecMatchesPackage(sp, j)
  \/ ~Present(ns, KeyOf(j))
  \/ ns[KeyOf(j)].stage # j[3]

ErroringAtStage(ns, k, stage) == ns[k].stage = stage /\ ns[k].state = "erroring"

\* A finished Job goes once the node state no longer records its stage as done;
\* not before it is processed, and not while it stands for a timed-out stage.
ShouldDeleteFinishedJob(sp, ns, j) ==
  /\ jobs[j].proc
  /\ ~(JobFailedTerminally(j) /\ ErroringAtStage(ns, KeyOf(j), j[3]) /\ JobSpecMatchesPackage(sp, j))
  /\ ~(Present(ns, KeyOf(j)) /\ (ns[KeyOf(j)].stage # j[3] \/ ns[KeyOf(j)].state = "complete"))

ToInvalidate(sp, ns) == {j \in JobName : Listed(j) /\ JobUnfinished(j) /\ JobIsStale(sp, ns, j)}
ToDelete(sp, ns) == {j \in JobName : Listed(j) /\ JobFinished(j) /\ ShouldDeleteFinishedJob(sp, ns, j)}

PassMayStart ==
  /\ pass.pc = "idle"
  /\ Overlap \/ \A j \in JobName : JobFinished(j) => jobs[j].proc \/ jobs[j].inv \/ jobs[j].del

\* The pass stops here when the sweep had anything to do.
ValidateRunningPackages ==
  /\ PassMayStart /\ mode # "paused"
  /\ ToInvalidate(spec, cache.ns) \cup ToDelete(spec, cache.ns) # {}
  /\ jobs' = [j \in JobName |->
                CASE j \in ToInvalidate(spec, cache.ns) -> [jobs[j] EXCEPT !.inv = TRUE]
                  [] j \in ToDelete(spec, cache.ns) -> [jobs[j] EXCEPT !.del = TRUE]
                  [] OTHER -> jobs[j]]
  /\ UNCHANGED <<spec, mode, node, cache, attempts, workload, pass, recon, ran, owed, used>>

SetSuspend(js, suspend) ==
  [j \in JobName |-> IF js[j].phase \in {"active", "failing"} /\ js[j].seen /\ ~js[j].inv
                      THEN [js[j] EXCEPT !.susp = suspend]
                      ELSE js[j]]

\* A paused NodeWright only has its running Jobs suspended.
SuspendUnfinishedJobs ==
  /\ PassMayStart /\ mode = "paused"
  /\ jobs # SetSuspend(jobs, TRUE)
  /\ jobs' = SetSuspend(jobs, TRUE)
  /\ UNCHANGED <<spec, mode, node, cache, attempts, workload, pass, recon, ran, owed, used>>

-----------------------------------------------------------------------------
(***************************************************************************)
(* Planning a pass: the handlers that move entries before anything runs.   *)
(***************************************************************************)

\* Cordons held by other NodeWrights are not modelled: this one's is the last.
Uncordon(n) == IF n.cordon THEN [n EXCEPT !.cordon = FALSE, !.unsched = FALSE] ELSE n

\* Introspection of a node that is complete releases the cordon.
IntrospectNode(n, sp) == IF IsComplete(n.ns, sp, HasInterrupt) THEN Uncordon(n) ELSE n

\* A newer version in the spec starts an upgrade; an older one does nothing.
UpgradeNeeded(ns, sp, p) ==
  /\ ~IsUninstallCycleInProgress(ns, SpecKey(sp, p))
  /\ ns[SpecKey(sp, p)].stage # "upgrade"
  /\ \E k \in Key : k[1] = p /\ Present(ns, k) /\ ns[k].ver < sp[p].ver

HandleVersionChange(ns, sp) ==
  [k \in Key |-> IF k = SpecKey(sp, k[1]) /\ UpgradeNeeded(ns, sp, k[1])
                   THEN Status(k, "upgrade", "in_progress")
                   ELSE ns[k]]

NeedsUninstall(ns, sp, p) ==
  /\ Present(ns, SpecKey(sp, p))
  /\ sp[p].uninst \/ IsUninstallCycleInProgress(ns, SpecKey(sp, p))

\* Mutant: a request drops the entry instead of starting an uninstall.
HandleUninstallRequestsForgets(ns, sp) ==
  [k \in Key |->
     IF k = SpecKey(sp, k[1]) /\ NeedsUninstall(ns, sp, k[1]) /\ ns[k].state = "complete"
       THEN NoEntry ELSE ns[k]]

\* A complete stage turns into an uninstall; a finished uninstall interrupt
\* removes the entry; an install that is still moving is left to finish.
HandleUninstallRequests(ns, sp) ==
  [k \in Key |->
     IF k # SpecKey(sp, k[1]) \/ ~NeedsUninstall(ns, sp, k[1]) THEN ns[k]
     ELSE CASE ns[k].stage = "uninstall" -> ns[k]
            [] ns[k].stage = "uninstall-interrupt" ->
                 IF ns[k].state = "complete" THEN NoEntry ELSE ns[k]
            [] OTHER ->
                 IF ns[k].state = "complete"
                   THEN Status(k, "uninstall", "in_progress")
                   ELSE ns[k]]

\* The packages handed on to run in this pass: those now in the uninstall cycle.
UninstallList(ns, sp) ==
  {p \in Pkgs : /\ NeedsUninstall(ns, sp, p)
                /\ IsUninstallCycleInProgress(HandleUninstallRequests(ns, sp), SpecKey(sp, p))}

\* An active uninstall entry, of whatever version, whose package no longer asks
\* for it: the entry of the spec's version re-enters the install pipeline.
Cancelled(ns, sp, p) ==
  /\ ~sp[p].uninst
  /\ \E k \in Key : k[1] = p /\ ns[k].stage = "uninstall" /\ IsActive(ns[k])

HandleCancelledUninstalls(ns, sp) ==
  [k \in Key |-> IF k = SpecKey(sp, k[1]) /\ Cancelled(ns, sp, k[1])
                   THEN Status(k, "apply", "in_progress")
                   ELSE ns[k]]

\* Mutant: a dependency that has started is good enough.
RunnableOnceStarted(ns, sp) ==
  {p \in Pkgs :
     /\ ~IsPackageComplete(ns, sp, HasInterrupt, p)
     /\ \A d \in DependsOn[p] : Present(ns, SpecKey(sp, d))
     /\ ~IsUninstallCycleInProgress(ns, SpecKey(sp, p))
     /\ ~(sp[p].uninst /\ ~Present(ns, SpecKey(sp, p)))}

\* What has no unmet dependency, is not complete and is not being uninstalled.
Runnable(ns, sp) ==
  {p \in Pkgs :
     /\ ~IsPackageComplete(ns, sp, HasInterrupt, p)
     /\ \A d \in DependsOn[p] : IsPackageComplete(ns, sp, HasInterrupt, d)
     /\ ~IsUninstallCycleInProgress(ns, SpecKey(sp, p))
     /\ ~(sp[p].uninst /\ ~Present(ns, SpecKey(sp, p)))}

Priority(i) == CASE i = "reboot" -> 0 [] i = "restartAllServices" -> 1
                 [] i = "service" -> 2 [] OTHER -> 3

\* One interrupt runs per pass, on behalf of the package that declares the most
\* disruptive one; equal ones go to the first name.
FudgeInterruptWithPriority(todo) ==
  LET ints == {p \in todo : HasInterrupt[p]}
      before(p, q) == \/ Priority(Interrupt[p]) < Priority(Interrupt[q])
                      \/ Priority(Interrupt[p]) = Priority(Interrupt[q]) /\ Rank[p] <= Rank[q]
  IN  IF ints = {} THEN "none" ELSE CHOOSE p \in ints : \A q \in ints : before(p, q)

PlannedState(ns, sp) ==
  LET upgraded == HandleVersionChange(ns, sp)
      requested == HandleUninstallRequests(upgraded, sp)
      cancelled == HandleCancelledUninstalls(requested, sp)
  IN  HandleVersionChange(cancelled, sp)

HasUninstallWork(ns, sp) ==
  \E p \in Pkgs : sp[p].uninst \/ IsUninstallCycleInProgress(ns, SpecKey(sp, p))

HasWork(ns, sp) == HasUninstallWork(ns, sp) \/ ~IsComplete(ns, sp, HasInterrupt)

NothingToValidate == ToInvalidate(spec, cache.ns) \cup ToDelete(spec, cache.ns) = {}

\* Mutant: Jobs are not resumed.
NotResumed == jobs

Resumed == IF mode = "disabled" THEN jobs ELSE SetSuspend(jobs, FALSE)

\* Introspection changed the node: the pass only saves that.
IntrospectSkyhook ==
  /\ PassMayStart /\ mode # "paused" /\ NothingToValidate
  /\ IntrospectNode(cache, spec) # cache
  /\ jobs' = Resumed
  /\ pass' = [IdlePass EXCEPT !.pc = "save", !.spec = spec, !.before = cache,
                              !.mem = IntrospectNode(cache, spec)]
  /\ UNCHANGED <<spec, mode, node, cache, attempts, workload, recon, ran, owed, used>>

\* Nothing to validate, nothing to introspect: plan what runs in this pass.
RunSkyhookPackages ==
  LET ns == PlannedState(cache.ns, spec)
      mem == IntrospectNode([cache EXCEPT !.ns = ns], spec)
      un == {p \in UninstallList(HandleVersionChange(cache.ns, spec), spec) :
               Present(ns, SpecKey(spec, p))}
      rest == Runnable(ns, spec)
      runs == mode = "run" /\ HasWork(HandleVersionChange(cache.ns, spec), spec)
  IN
  /\ PassMayStart /\ mode # "paused" /\ NothingToValidate
  /\ IntrospectNode(cache, spec) = cache
  /\ jobs' = Resumed
  /\ IF runs /\ (un \cup rest # {} \/ mem # cache)
       THEN pass' = [pc |-> IF un \cup rest = {} THEN "save" ELSE "run",
                     spec |-> spec, before |-> cache, mem |-> mem, un |-> un, rest |-> rest,
                     pack |-> FudgeInterruptWithPriority(un \cup rest)]
       ELSE pass' = pass /\ jobs' # jobs
  /\ UNCHANGED <<spec, mode, node, cache, attempts, workload, recon, ran, owed, used>>

-----------------------------------------------------------------------------
(***************************************************************************)
(* One package of the pass.  Every action below handles the package the    *)
(* loop has reached: uninstalls first (in any order, they come from a      *)
(* map), then the runnable ones by name.                                   *)
(***************************************************************************)
Reached(p) ==
  /\ pass.pc = "run"
  /\ \/ p \in pass.un
     \/ pass.un = {} /\ p \in pass.rest /\ \A q \in pass.rest : Rank[p] <= Rank[q]

Advance(p, mem) ==
  LET un == pass.un \ {p}
      rest == IF p \in pass.un THEN pass.rest ELSE pass.rest \ {p}
  IN  pass' = [pass EXCEPT !.mem = mem, !.un = un, !.rest = rest,
                           !.pc = IF un \cup rest = {} THEN "save" ELSE "run"]

PassKey(p) == SpecKey(pass.spec, p)
PassEntry(p) == pass.mem.ns[PassKey(p)]
PassNext(p) == NextStage(PassEntry(p), HasInterrupt[p])
RunInterrupt(p) == p = pass.pack

\* What an AlreadyExists on create leads to: the Job of that name is left alone,
\* or deleted so that a later pass can create it.
KeepExistingJob(ns, sp, k, j) ==
  LET matches == KeyOf(j) = k /\ JobMatchesPackage(sp, j) IN
  \/ ~jobs[j].seen
  \/ JobUnfinished(j) /\ matches
  \/ JobFinished(j) /\ ~jobs[j].proc
  \/ JobFailedTerminally(j) /\ ErroringAtStage(ns, k, j[3]) /\ matches

HandleExistingJob(ns, sp, k, j) ==
  IF KeepExistingJob(ns, sp, k, j) THEN jobs ELSE [jobs EXCEPT ![j].del = TRUE]

\* Create the Job of a stage and record the stage in the pass's copy; when the
\* name is taken nothing is recorded.  An interrupt is the one the pass settled
\* on, whichever package it runs for.
Create(p, stage) ==
  LET k == PassKey(p)
      j == NameOf(k, stage, IF pass.pack = "none" THEN "none" ELSE Interrupt[pass.pack])
  IN  IF jobs[j].phase = "none"
        THEN [jobs |-> [jobs EXCEPT ![j] = NewJob(k, pass.spec[p])],
              mem |-> [pass.mem EXCEPT !.ns = Upsert(@, k, stage, "in_progress")]]
        ELSE [jobs |-> HandleExistingJob(pass.mem.ns, pass.spec, k, j), mem |-> pass.mem]

Nothing == [jobs |-> jobs, mem |-> pass.mem]

HasRunningPackages == \E j \in JobName : Listed(j) /\ JobUnfinished(j)

\* Mutant: the existence gate is missing.
JobExistsNever(k) == FALSE

JobExists(k) == \E j \in JobName : KeyOf(j) = k /\ Listed(j) /\ JobUnfinished(j)

InterruptEffect(p, stage) == IF HasRunningPackages THEN Nothing ELSE Create(p, stage)

\* The stage a package (re)starts at, unless a completed one says what is next.
ApplyStage(p) ==
  IF PassNext(p) # "none" THEN PassNext(p)
  ELSE IF PassEntry(p).stage \in {"config", "upgrade", "uninstall", "uninstall-interrupt"}
    THEN PassEntry(p).stage ELSE "apply"

\* A serial NodeWright returns as soon as one package was handled.
ApplyPackage(p) ==
  LET r == IF \/ ApplyStage(p) = "uninstall-interrupt"
              \/ JobExists(PassKey(p))
              \/ PassEntry(p).state = "skipped"
             THEN Nothing
             ELSE Create(p, ApplyStage(p))
  IN  /\ jobs' = r.jobs
      /\ IF Serial THEN pass' = IdlePass ELSE Advance(p, r.mem)
      /\ UNCHANGED workload

Cordoned(n) == n.unsched /\ n.cordon

\* Mutant: the pass that cordons also drains.
EnsureNodeIsReadyAtOnce(p, r) ==
  /\ jobs' = r.jobs
  /\ workload # "none"
  /\ workload' = IF workload = "running" THEN "leaving" ELSE workload
  /\ Advance(p, [r.mem EXCEPT !.unsched = TRUE, !.cordon = TRUE])

\* Cordon and drain the node before an interrupting package touches it.  The
\* package waits in this pass; an eviction the API server refuses aborts the
\* whole pass, and with it everything the pass has not saved.
EnsureNodeIsReadyForInterrupt(p, r) ==
  /\ jobs' = r.jobs
  /\ \/ ~Cordoned(r.mem) /\ UNCHANGED workload
        /\ Advance(p, [r.mem EXCEPT !.unsched = TRUE, !.cordon = TRUE])
     \/ Cordoned(r.mem) /\ workload \in {"protected", "leaving"}
        /\ UNCHANGED workload /\ Advance(p, r.mem)
     \/ Cordoned(r.mem) /\ workload = "running" /\ workload' = "leaving" /\ Advance(p, r.mem)
     \/ Cordoned(r.mem) /\ workload = "running" /\ EvictionRefused
        /\ UNCHANGED workload /\ pass' = IdlePass

\* Mutant: pods that are terminating no longer count.
DrainedWhileLeaving(n) == Cordoned(n) /\ workload \in {"none", "leaving"}

Drained(n) == Cordoned(n) /\ workload = "none"

passOnly == <<spec, mode, node, cache, attempts, recon, ran, owed, used>>

\* No interrupt: straight on to the package's stage.
RunPlainPackage(p) ==
  /\ Reached(p) /\ ~HasInterrupt[p]
  /\ ApplyPackage(p)
  /\ UNCHANGED passOnly

\* A package skipped for another's interrupt waits until it is its turn, and
\* then is promoted without an interrupt of its own.
RunSkippedPackage(p) ==
  /\ Reached(p) /\ HasInterrupt[p] /\ PassEntry(p).state = "skipped"
  /\ \E ns \in IF RunInterrupt(p) THEN ProgressSkipped(pass.mem.ns, pass.spec)
                                  ELSE {pass.mem.ns} :
       Advance(p, [pass.mem EXCEPT !.ns = ns])
  /\ UNCHANGED <<jobs, workload>> /\ UNCHANGED passOnly

\* An interrupt in flight: its Job is recreated if it is missing, and the node
\* is cordoned and drained again if it is not any more.
RunActiveInterrupt(p) ==
  LET e == PassEntry(p)
      r == InterruptEffect(p, e.stage)
  IN
  /\ Reached(p) /\ HasInterrupt[p] /\ IsActive(e) /\ IsInterruptStage(e)
  /\ \/ EnsureNodeIsReadyForInterrupt(p, r)
     \/ Drained(r.mem) /\ jobs' = r.jobs /\ UNCHANGED workload /\ Advance(p, r.mem)
  /\ UNCHANGED passOnly

\* Nothing completed to continue from: drain first, then start the stage.
RunDrainedPackage(p) ==
  /\ Reached(p) /\ HasInterrupt[p] /\ PassEntry(p).state # "skipped"
  /\ ~(IsActive(PassEntry(p)) /\ IsInterruptStage(PassEntry(p)))
  /\ PassNext(p) = "none"
  /\ \/ EnsureNodeIsReadyForInterrupt(p, Nothing)
     \/ Drained(pass.mem) /\ ApplyPackage(p)
  /\ UNCHANGED passOnly

\* Configured: this package's turn to interrupt, or it is skipped.
RunInterruptStage(p) ==
  /\ Reached(p) /\ HasInterrupt[p] /\ PassNext(p) = "interrupt"
  /\ LET skip == [pass.mem EXCEPT !.ns = Upsert(@, PassKey(p), "interrupt", "skipped")]
         r == IF RunInterrupt(p) THEN InterruptEffect(p, "interrupt")
                                 ELSE [jobs |-> jobs, mem |-> skip]
     IN  jobs' = r.jobs /\ Advance(p, r.mem)
  /\ UNCHANGED workload /\ UNCHANGED passOnly

\* After apply, upgrade or the interrupt: the next stage's Job.
RunNextStage(p) ==
  /\ Reached(p) /\ HasInterrupt[p] /\ PassNext(p) \notin {"none", "interrupt"}
  /\ ApplyPackage(p)
  /\ UNCHANGED passOnly

RunPackage(p) ==
  \/ RunPlainPackage(p) \/ RunSkippedPackage(p) \/ RunActiveInterrupt(p)
  \/ RunDrainedPackage(p) \/ RunInterruptStage(p) \/ RunNextStage(p)

\* The cached copy follows at once unless the informer may lag.
WriteNode(n) == node' = n /\ cache' = IF NodeLag THEN cache ELSE n

\* Write the pass's delta over the node as it is now.
SaveNodesAndSkyhook ==
  /\ pass.pc = "save"
  /\ LET changed(old, new, current) == IF old = new THEN current ELSE new IN
     WriteNode([ns |-> MergeDelta(pass.before.ns, pass.mem.ns, node.ns),
                unsched |-> changed(pass.before.unsched, pass.mem.unsched, node.unsched),
                cordon |-> changed(pass.before.cordon, pass.mem.cordon, node.cordon)])
  /\ pass' = IdlePass
  /\ UNCHANGED <<spec, mode, jobs, attempts, workload, recon, ran, owed, used>>

HeavyPass ==
  \/ ValidateRunningPackages \/ SuspendUnfinishedJobs \/ IntrospectSkyhook
  \/ RunSkyhookPackages \/ SaveNodesAndSkyhook
  \/ \E p \in Pkgs : RunPackage(p)

-----------------------------------------------------------------------------
(***************************************************************************)
(* The Job and Pod reconcilers.  Their first read of the node comes from   *)
(* the cache; finding nothing to write there is final, anything else is    *)
(* decided again on the node itself (optimistic lock and uncached retry).  *)
(***************************************************************************)
EntryOpenAtStage(ns, k, stage) ==
  Present(ns, k) /\ ns[k].stage = stage /\ ns[k].state # "complete"

ShouldRecordCompletion(ns, j) ==
  \/ EntryOpenAtStage(ns, KeyOf(j), j[3])
  \/ IsInterruptJob(j) /\ \E k \in Key : SkippedInterrupt(ns[k])

\* Mutant: an upgrade replaces nothing.
SupersededNone(ns, j) == {}

\* The entries of other versions an upgrade replaces.
Superseded(ns, j) ==
  {<<KeyOf(j)[1], ns[k].ver>> : k \in {k \in Key : k[1] = KeyOf(j)[1] /\ Present(ns, k)}}
    \ {KeyOf(j)}

RecordComplete(ns, j) ==
  IF EntryOpenAtStage(ns, KeyOf(j), j[3]) THEN Upsert(ns, KeyOf(j), j[3], "complete") ELSE ns

\* HandleCompletePod and the write that follows it, as the set of outcomes.
RecordJobCompletion(ns, j) ==
  CASE IsInterruptJob(j) -> {RecordComplete(n, j) : n \in ProgressSkipped(ns, spec)}
    [] j[3] = "upgrade" ->
         {RecordComplete([k \in Key |-> IF k \in Superseded(ns, j) THEN NoEntry ELSE ns[k]], j)}
    [] j[3] = "uninstall" ->
         {IF KeyOf(j) = SpecKey(spec, KeyOf(j)[1]) /\ HasInterrupt[KeyOf(j)[1]]
            THEN Upsert(ns, KeyOf(j), "uninstall-interrupt", "in_progress")
            ELSE RemoveState(ns, KeyOf(j))}
    [] OTHER -> {RecordComplete(ns, j)}

\* Mutant: any finished Job counts as a complete one.
HandleCompleteAnyFinished(j) ==
  /\ JobFinished(j)
  /\ IF ShouldRecordCompletion(cache.ns, j) /\ ShouldRecordCompletion(node.ns, j)
       THEN \E ns \in RecordJobCompletion(node.ns, j) : WriteNode([node EXCEPT !.ns = ns])
       ELSE UNCHANGED <<node, cache>>

HandleCompleteJob(j) ==
  /\ jobs[j].phase = "complete"
  /\ IF ShouldRecordCompletion(cache.ns, j) /\ ShouldRecordCompletion(node.ns, j)
       THEN \E ns \in RecordJobCompletion(node.ns, j) : WriteNode([node EXCEPT !.ns = ns])
       ELSE UNCHANGED <<node, cache>>

ShouldRecordErroring(ns, k, stage) ==
  Present(ns, k) /\ ns[k].stage = stage /\ ns[k].state # "erroring"

\* Mutant: the Job's condition is written in place of the state.
RecordFailed(k, stage) == WriteNode([node EXCEPT !.ns = Upsert(@, k, stage, "failed")])

RecordErroring(k, stage) ==
  WriteNode([node EXCEPT !.ns = Upsert(@, k, stage, "erroring")])

\* A Job that only lost pods is not the package's failure: it is only marked.
HandleFailedJob(j) ==
  /\ JobFailedTerminally(j)
  /\ IF /\ jobs[j].phase = "failed"
        /\ ShouldRecordErroring(cache.ns, KeyOf(j), j[3])
        /\ ShouldRecordErroring(node.ns, KeyOf(j), j[3])
       THEN RecordErroring(KeyOf(j), j[3])
       ELSE UNCHANGED <<node, cache>>

JobReconcileFinished(j) ==
  /\ recon = NoName
  /\ Listed(j) /\ ~jobs[j].del /\ ~jobs[j].inv /\ ~jobs[j].proc
  /\ HandleCompleteJob(j) \/ HandleFailedJob(j)
  /\ recon' = j
  /\ UNCHANGED <<spec, mode, jobs, attempts, workload, pass, ran, owed, used>>

JobReconcileInvalid(j) ==
  /\ recon = NoName
  /\ Listed(j) /\ ~jobs[j].del /\ jobs[j].inv
  /\ jobs' = [jobs EXCEPT ![j].del = TRUE]
  /\ UNCHANGED <<spec, mode, node, cache, attempts, workload, pass, recon, ran, owed, used>>

\* A Job that has been failing for longer than the grace period is reported
\* before it ends; the marker waits for the end.
JobReconcileActive(j) ==
  /\ recon = NoName
  /\ Listed(j) /\ ~jobs[j].del /\ ~jobs[j].inv /\ jobs[j].phase = "failing"
  /\ ShouldRecordErroring(cache.ns, KeyOf(j), j[3])
  /\ ShouldRecordErroring(node.ns, KeyOf(j), j[3])
  /\ RecordErroring(KeyOf(j), j[3])
  /\ UNCHANGED <<spec, mode, jobs, attempts, workload, pass, recon, ran, owed, used>>

\* The second write of a finished Job's reconcile; it also sets the TTL.
MarkJobProcessed ==
  /\ recon # NoName
  /\ jobs' = IF jobs[recon].phase = "none" THEN jobs ELSE [jobs EXCEPT ![recon].proc = TRUE]
  /\ recon' = NoName
  /\ UNCHANGED <<spec, mode, node, cache, attempts, workload, pass, ran, owed, used>>

\* The Pod watch reports a failed attempt, possibly long after it happened; it
\* keeps silent about pods that are being deleted.
PodReconcile(j, k) ==
  LET open == EntryOpenAtStage(cache.ns, k, j[3]) /\ EntryOpenAtStage(node.ns, k, j[3]) IN
  /\ <<j, k>> \in attempts
  /\ attempts' = attempts \ {<<j, k>>}
  /\ \/ open /\ RecordErroring(k, j[3])
     \/ ~open /\ UNCHANGED <<node, cache>>
     \/ (jobs[j].del \/ jobs[j].phase = "none") /\ UNCHANGED <<node, cache>>
  /\ UNCHANGED <<spec, mode, jobs, workload, pass, recon, ran, owed, used>>

Reconcilers ==
  \/ MarkJobProcessed
  \/ \E j \in JobName : 
       JobReconcileFinished(j) \/ JobReconcileInvalid(j) \/ JobReconcileActive(j)
  \/ \E j \in JobName, k \in Key : PodReconcile(j, k)

-----------------------------------------------------------------------------
(***************************************************************************)
(* The environment: Kubernetes and the user.                               *)
(***************************************************************************)

\* The executor's effect on the host.  An uninstall undoes what the package's
\* earlier executors did; the history keeps what has succeeded since.
RanAfter(j) ==
  IF j[3] = "uninstall" THEN {i \in ran : i[1] # KeyOf(j)[1]} ELSE ran \cup {Executor(j)}

\* A configuration asks for the package's interrupt; an interrupt serves every
\* package whose own is no more disruptive.
OwedAfter(j) ==
  CASE j[3] = "config" /\ HasInterrupt[KeyOf(j)[1]] -> owed \cup {KeyOf(j)[1]}
    [] j[3] = "interrupt" -> {p \in owed : Priority(Interrupt[p]) < Priority(j[1])}
    [] OTHER -> owed

\* An executor runs, unless its Job is suspended; it may also come to its end
\* while its Job is being deleted.
CanFinish(j) ==
  /\ jobs[j].phase = "active" /\ ~jobs[j].susp
  /\ Overlap \/ (EntryOpenAtStage(node.ns, KeyOf(j), j[3]) /\ pass.pc = "idle")

JobSucceeds(j) ==
  /\ CanFinish(j)
  /\ jobs' = [jobs EXCEPT ![j].phase = "complete"]
  /\ ran' = RanAfter(j) /\ owed' = OwedAfter(j)
  /\ UNCHANGED <<spec, mode, node, cache, attempts, workload, pass, recon, used>>

CanFail == used.failures < MaxFailures

AttemptFails(j) ==
  /\ CanFinish(j) /\ CanFail
  /\ attempts' = attempts \cup {<<j, KeyOf(j)>>}
  /\ used' = [used EXCEPT !.failures = @ + 1]
  /\ UNCHANGED <<spec, mode, node, cache, jobs, workload, pass, recon, ran, owed>>

\* The deadline, retries exhausted, or every pod lost before it ran.
JobFails(j) ==
  /\ CanFinish(j) /\ CanFail
  /\ \E phase \in {"failing", "failed", "lost"} : jobs' = [jobs EXCEPT ![j].phase = phase]
  /\ used' = [used EXCEPT !.failures = @ + 1]
  /\ UNCHANGED <<spec, mode, node, cache, attempts, workload, pass, recon, ran, owed>>

\* The pods of a Job past its deadline are gone; on an unreachable node this takes
\* until the node is back.
JobFailureEnds(j) ==
  /\ jobs[j].phase = "failing"
  /\ jobs' = [jobs EXCEPT ![j].phase = "failed"]
  /\ UNCHANGED <<spec, mode, node, cache, attempts, workload, pass, recon, ran, owed, used>>

\* A foreground deletion frees the name only when the pods are gone; the TTL
\* controller removes a finished Job once it is marked processed.
JobGone(j) ==
  /\ jobs[j].phase # "none"
  /\ jobs[j].del \/ (jobs[j].phase \in Expiry /\ jobs[j].proc)
  /\ jobs' = [jobs EXCEPT ![j] = NoJob]
  /\ UNCHANGED <<spec, mode, node, cache, attempts, workload, pass, recon, ran, owed, used>>

JobSeen(j) ==
  /\ jobs[j].phase # "none" /\ ~jobs[j].seen
  /\ jobs' = [jobs EXCEPT ![j].seen = TRUE]
  /\ UNCHANGED <<spec, mode, node, cache, attempts, workload, pass, recon, ran, owed, used>>

CacheSync ==
  /\ cache # node
  /\ cache' = node
  /\ UNCHANGED <<spec, mode, node, jobs, attempts, workload, pass, recon, ran, owed, used>>

PlaceWorkload ==
  /\ workload = "none" /\ ~node.unsched
  /\ workload' \in {"running", "protected"}
  /\ UNCHANGED <<spec, mode, node, cache, jobs, attempts, pass, recon, ran, owed, used>>

WorkloadLeaves ==
  /\ workload \in {"protected", "leaving"}
  /\ workload' = "none"
  /\ UNCHANGED <<spec, mode, node, cache, jobs, attempts, pass, recon, ran, owed, used>>

\* An edit the admission webhook lets through.
Edit(kind) ==
  /\ used.edits < MaxEdits /\ \E plan \in EditPlans : used.kinds \cup {kind} \subseteq plan
  /\ used' = [used EXCEPT !.edits = @ + 1, !.kinds = @ \cup {kind}]
  /\ UNCHANGED <<node, cache, jobs, attempts, workload, pass, recon, ran, owed>>

\* A downgrade of an uninstall-enabled package has to be uninstalled first.
ValidateUpdate(p, v) ==
  \/ v > spec[p].ver
  \/ p \notin UninstallEnabled
  \/ spec[p].uninst /\ ~Present(node.ns, SpecKey(spec, p))

\* The API server counts the generation up with every change of the spec.
Update(p, pkg) ==
  /\ spec' = [q \in Pkgs |-> [(IF q = p THEN pkg ELSE spec[q]) EXCEPT !.gen = @ + 1]]
  /\ UNCHANGED mode

EditVersion(p) ==
  /\ Edit("version")
  /\ \E v \in Versions \ {spec[p].ver} :
       ValidateUpdate(p, v) /\ Update(p, [spec[p] EXCEPT !.ver = v])

\* Any other change of the spec: an image, a variable, a package's configuration.
EditOther(p) == Edit("other") /\ Update(p, spec[p])

EditUninstall(p) ==
  /\ Edit("uninstall")
  /\ p \in UninstallEnabled
  /\ Update(p, [spec[p] EXCEPT !.uninst = ~@])

EditMode ==
  /\ Edit("mode") /\ UNCHANGED spec
  /\ \E m \in {"run", "paused", "disabled"} \ {mode} : mode' = m

\* The operator restarts: a pass or a reconcile in progress is forgotten.
OperatorCrash ==
  /\ used.crashes < MaxCrashes
  /\ pass # IdlePass \/ recon # NoName
  /\ pass' = IdlePass /\ recon' = NoName
  /\ used' = [used EXCEPT !.crashes = @ + 1]
  /\ UNCHANGED <<spec, mode, node, cache, jobs, attempts, workload, ran, owed>>

Environment ==
  \/ CacheSync \/ PlaceWorkload \/ WorkloadLeaves \/ EditMode \/ OperatorCrash
  \/ \E j \in JobName : JobSucceeds(j) \/ AttemptFails(j) \/ JobFails(j)
                       \/ JobFailureEnds(j) \/ JobGone(j) \/ JobSeen(j)
  \/ \E p \in Pkgs : EditVersion(p) \/ EditOther(p) \/ EditUninstall(p)

Next == HeavyPass \/ Reconcilers \/ Environment

Spec == Init /\ [][Next]_vars

(***************************************************************************)
(* Fairness.  The pass requeues itself until the node is complete; a Job   *)
(* reconcile is retried by its work queue; the Job controller runs an      *)
(* unsuspended Job to an end, deletes what is being deleted and removes a  *)
(* processed Job after its TTL; informers catch up; an evicted pod leaves  *)
(* and a protected one ends by itself.                                     *)
(* Nothing is assumed of the user, of failures or of the scheduler.        *)
(***************************************************************************)
Fairness ==
  /\ WF_vars(HeavyPass) /\ WF_vars(Reconcilers)
  /\ WF_vars(CacheSync) /\ WF_vars(WorkloadLeaves)
  /\ SF_vars(\E j \in JobName : JobSucceeds(j))
  /\ WF_vars(\E j \in JobName : JobFailureEnds(j) \/ JobGone(j) \/ JobSeen(j))

FairSpec == Spec /\ Fairness

-----------------------------------------------------------------------------
(***************************************************************************)
(* Properties.                                                             *)
(***************************************************************************)

\* The type invariant: every object the controllers share, and the pass's private
\* copies of them, stay within what NodeState and the Job builder can produce.
TypeOK ==
  /\ spec \in Specs
  /\ mode \in {"run", "paused", "disabled"}
  /\ node \in Node /\ cache \in Node
  /\ jobs \in [JobName -> Job]
  /\ attempts \subseteq JobName \X Key
  /\ workload \in {"none", "running", "protected", "leaving"}
  /\ pass \in [pc: {"idle", "run", "save"}, spec: Specs, before: Node, mem: Node,
               un: SUBSET Pkgs, rest: SUBSET Pkgs, pack: Pkgs \cup {"none"}]
  /\ recon \in JobName \cup {NoName}
  /\ ran \subseteq Executors /\ owed \subseteq Pkgs
  /\ used \in [edits: 0..MaxEdits, kinds: SUBSET EditKinds,
              failures: 0..MaxFailures, crashes: 0..MaxCrashes]

\* A Job whose pods may be running on the host.
Running(j) == JobUnfinished(j) /\ ~jobs[j].del

Installed(k) == <<k[1], k[2], "apply">> \in ran \/ <<k[1], k[2], "upgrade">> \in ran
Configured(k) == <<k[1], k[2], "config">> \in ran

UninstallPending(k) ==
  LET u == jobs[<<k[1], k[2], "uninstall">>] IN
  pass.pc # "idle" \/ (u.phase # "none" /\ ~u.proc)

\* Node state never claims work that was not done: a stage recorded as complete
\* (recordJobCompletion, however its write is interleaved with a pass's save, a
\* crash and a retry) has an executor that succeeded, and no uninstall has undone
\* it since, other than one whose completion is still on its way.
RecordedImpliesRan ==
  \A k \in Key :
    LET e == node.ns[k] IN
    e.state = "complete" /\ e.ver = k[2] /\ ~IsInterruptStage(e) /\ ~UninstallPending(k)
      => <<k[1], k[2], e.stage>> \in ran

\* The order of the stages holds on the host, not only in the annotation: a
\* config executor runs only after an apply or upgrade of that version succeeded,
\* an interrupt or post-interrupt one only after its config did (NextStage and
\* the starting stages of ApplyPackage).
StagesInOrder ==
  \A j \in JobName : Running(j) =>
    /\ j[3] = "config" => Installed(KeyOf(j))
    /\ j[3] \in {"interrupt", "post-interrupt"} => Configured(KeyOf(j))

\* No executor of a package with an interrupt runs on a node that still has user
\* workload, or that the scheduler could place some on (ProcessInterrupt and
\* EnsureNodeIsReadyForInterrupt).
DrainedForInterrupts ==
  \A j \in JobName : Running(j) /\ HasInterrupt[KeyOf(j)[1]] => workload = "none" /\ node.unsched

\* Pods are evicted only from a node whose cordon is in the API server, or the
\* scheduler could put the replacement straight back (the deferral in
\* EnsureNodeIsReadyForInterrupt).
DrainsDurablyCordoned ==
  [][workload = "running" /\ workload' = "leaving" => node.unsched]_vars

\* Two executors of one package share a directory on the host, so they never run
\* side by side, whatever their stages (JobExists).
OneExecutor == \A i, j \in JobName : Running(i) /\ Running(j) /\ KeyOf(i) = KeyOf(j) => i = j

\* A package whose interrupt stage is recorded as complete was interrupted after
\* it was configured, by its own interrupt or by one at least as disruptive that
\* it was skipped for (fudgeInterruptWithPriority, ProgressSkipped).
InterruptHonoured ==
  \A k \in Key :
    /\ node.ns[k].state = "complete" /\ node.ns[k].stage = "interrupt"
    /\ k = SpecKey(spec, k[1])
    => k[1] \notin owed

\* A package's executors run only once each of its dependencies is configured
\* (RunNext's view of the dependency graph).
DependenciesFirst ==
  \A j \in JobName : Running(j) =>
    \A d \in DependsOn[KeyOf(j)[1]] : \E v \in Versions : Configured(<<d, v>>)

\* When the spec asks for a package to be uninstalled and it has no entry left,
\* which is what the operator and the webhook take for "uninstalled", nothing of it is
\* left on the host and no executor of it is running (shouldSkipApplyForUninstall,
\* isPackageFullyUninstalled).  Not when a pass loses its save or an uninstall's outcome is
\* recorded only after it was withdrawn and asked for again.
UninstalledMeansClean ==
  \A p \in Pkgs :
    /\ spec[p].uninst /\ pass.pc = "idle"
    /\ \A v \in Versions : ~Present(node.ns, <<p, v>>)
    =>
      /\ \A x \in ran : x[1] = p => x[3] = "uninstall-interrupt"
      /\ \A j \in JobName : KeyOf(j)[1] = p => ~Running(j) \/ j[3] = "uninstall-interrupt"

\* Once an upgraded package is complete the older version's entry is gone, so a
\* later pass does not start the upgrade over (HandleCompletePod, HandleVersionChange).
UpgradeReplaces ==
  \A p \in Pkgs : IsPackageComplete(node.ns, spec, HasInterrupt, p) =>
    \A v \in Versions : v < spec[p].ver => ~Present(node.ns, <<p, v>>)

\* A stage once recorded as complete is not taken back by another writer of the
\* annotation (the delta merge of saveNodeChanges).
CompletionKept ==
  [][\A k \in Key : node.ns[k].state = "complete" /\ node'.ns[k].stage = node.ns[k].stage
                    => node'.ns[k].state = "complete"]_vars

Settled ==
  /\ IsComplete(node.ns, spec, HasInterrupt)
  /\ ~node.unsched
  /\ \A j \in JobName : ~JobUnfinished(j)

\* Whatever happened before, once edits, failures and crashes cease the node
\* comes to rest as the spec asks: every package complete or uninstalled, the
\* cordon released and no Job left behind (the reconcile loop as a whole).
Converges == <>[](mode = "run" => Settled)
=============================================================================
