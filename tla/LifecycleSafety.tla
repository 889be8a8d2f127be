-------------------------- MODULE LifecycleSafety --------------------------
(***************************************************************************)
(* The safety of PackageLifecycle, in eight parts.                         *)
(*                                                                         *)
(* Types: the node-state annotation, and type correctness.                 *)
(*                                                                         *)
(* Safety: what the annotation says of a package that cannot be            *)
(* uninstalled is true of the host, for every number of packages and       *)
(* versions, every assignment of interrupts and dependencies, and every    *)
(* interleaving of passes, reconcilers, crashes, lagging caches and edits. *)
(* An entry, wherever a copy of it is held (the API server, the cache, the *)
(* snapshot or the working copy of a pass), may be old but never claims    *)
(* what did not happen, because what has happened stays so; every writer   *)
(* derives an entry from a sound one.                                      *)
(*                                                                         *)
(* Then, each under the conditions it needs: executors run alone, the      *)
(* executors of an interrupting package run on a drained node, a recorded  *)
(* interrupt took place, upgrades replace, a completion is kept, and what  *)
(* is uninstalled has left nothing.                                        *)
(***************************************************************************)
EXTENDS PackageLifecycle, WellFoundedInduction, TLAPS

-----------------------------------------------------------------------------
(***************************************************************************)
(* What the operations on the node-state annotation return.               *)
(***************************************************************************)

\* The entry Upsert stores is a well-formed one (NodeState.Upsert).
LEMMA StatusType ==
  ASSUME NEW k \in Key, NEW stage \in Stage, NEW state \in State
  PROVE  /\ Status(k, stage, state) \in Entry
         /\ Status(k, stage, state).stage = stage
         /\ Status(k, stage, state).state = state
         /\ Status(k, stage, state).ver = k[2]
BY DEF Status, Entry, Key

\* An entry that is there is well-formed; the absent one is not an entry.
LEMMA PresentType ==
  ASSUME NEW ns \in NodeStates, NEW k \in Key
  PROVE  /\ Present(ns, k) <=> ns[k] \in Entry
         /\ ~Present(ns, k) <=> ns[k] = NoEntry
BY DEF NodeStates, Present, Entry, NoEntry, State, Stage

LEMMA EmptyNodeStateType == EmptyNodeState \in NodeStates
BY DEF EmptyNodeState, NodeStates

\* Upsert changes the one entry it names (NodeState.Upsert).
LEMMA UpsertType ==
  ASSUME NEW ns \in NodeStates, NEW k \in Key, NEW stage \in Stage, NEW state \in State
  PROVE  /\ Upsert(ns, k, stage, state) \in NodeStates
         /\ Upsert(ns, k, stage, state)[k] = Status(k, stage, state)
         /\ \A i \in Key \ {k} : Upsert(ns, k, stage, state)[i] = ns[i]
<1>1. Status(k, stage, state) \in Entry
  BY StatusType
<1>2. QED
  BY <1>1 DEF Upsert, NodeStates

\* RemoveState changes the one entry it names (NodeState.RemoveState).
LEMMA RemoveStateType ==
  ASSUME NEW ns \in NodeStates, NEW k \in Key
  PROVE  /\ RemoveState(ns, k) \in NodeStates
         /\ RemoveState(ns, k)[k] = NoEntry
         /\ \A i \in Key \ {k} : RemoveState(ns, k)[i] = ns[i]
BY DEF RemoveState, NodeStates

LEMMA MergeDeltaType ==
  ASSUME NEW before \in NodeStates, NEW after \in NodeStates, NEW current \in NodeStates
  PROVE  /\ MergeDelta(before, after, current) \in NodeStates
         /\ \A k \in Key : \/ MergeDelta(before, after, current)[k] = current[k]
                           \/ MergeDelta(before, after, current)[k] = after[k]
BY DEF MergeDelta, NodeStates

(***************************************************************************)
(* Two writers that start from the same annotation and change different    *)
(* entries do not disturb one another, in whichever order they are saved:  *)
(* the reason saveNodeChanges merges a delta.                              *)
(***************************************************************************)
THEOREM DisjointDeltasCommute ==
  ASSUME NEW before \in NodeStates, NEW one \in NodeStates, NEW other \in NodeStates,
         \A k \in Key : one[k] = before[k] \/ other[k] = before[k]
  PROVE  LET first == MergeDelta(before, one, MergeDelta(before, other, before))
             second == MergeDelta(before, other, MergeDelta(before, one, before))
         IN  /\ first = second
             /\ \A k \in Key : first[k] = IF one[k] = before[k] THEN other[k] ELSE one[k]
BY DEF MergeDelta, NodeStates

LEMMA NextStageType ==
  ASSUME NEW ns \in NodeStates, NEW k \in Key, NEW hasInterrupt \in BOOLEAN
  PROVE  /\ NextStage(ns[k], hasInterrupt) \in
              {"none", "config", "interrupt", "post-interrupt", "apply"}
         /\ NextStage(ns[k], hasInterrupt) = "interrupt" => hasInterrupt
         /\ NextStage(ns[k], hasInterrupt) = "apply" => ns[k].stage = "uninstall"
BY DEF NextStage

(***************************************************************************)
(* Promotion touches interrupts only: an entry it leaves behind is either  *)
(* the one that was there or an interrupt stage promoted to complete, for  *)
(* a package that had an entry at that stage (NodeState.ProgressSkipped).  *)
(***************************************************************************)
LEMMA ProgressSkippedType ==
  ASSUME NEW ns \in NodeStates, NEW sp, \A p \in Pkgs : sp[p].ver \in Versions,
         NEW new \in ProgressSkipped(ns, sp)
  PROVE  /\ new \in NodeStates
         /\ \A k \in Key : \/ new[k] = ns[k]
                           \/ /\ new[k].stage = "interrupt" /\ new[k].state = "complete"
                              /\ \E v \in Versions : ns[<<k[1], v>>].stage = "interrupt"
<1>1. PICK from \in [Pkgs -> Versions] :
        new = [k \in Key |->
                 LET s == ns[<<k[1], from[k[1]]>>] IN
                 IF k = SpecKey(sp, k[1]) /\ SkippedInterrupt(s)
                   THEN [s EXCEPT !.state = "complete"] ELSE ns[k]]
  BY DEF ProgressSkipped
<1>2. ASSUME NEW k \in Key
      PROVE  /\ new[k] \in Entry \cup {NoEntry}
             /\ \/ new[k] = ns[k]
                \/ /\ new[k].stage = "interrupt" /\ new[k].state = "complete"
                   /\ \E v \in Versions : ns[<<k[1], v>>].stage = "interrupt"
  <2> DEFINE s == ns[<<k[1], from[k[1]]>>]
  <2>1. <<k[1], from[k[1]]>> \in Key /\ from[k[1]] \in Versions
    BY <1>1 DEF Key
  <2>2. s \in Entry \cup {NoEntry} /\ ns[k] \in Entry \cup {NoEntry}
    BY <2>1 DEF NodeStates
  <2>3. SkippedInterrupt(s) => /\ [s EXCEPT !.state = "complete"] \in Entry
                        /\ [s EXCEPT !.state = "complete"].stage = "interrupt"
                        /\ [s EXCEPT !.state = "complete"].state = "complete"
                        /\ s.stage = "interrupt"
    BY <2>2 DEF SkippedInterrupt, Entry, NoEntry, State
  <2>4. new[k] = IF k = SpecKey(sp, k[1]) /\ SkippedInterrupt(s)
                   THEN [s EXCEPT !.state = "complete"] ELSE ns[k]
    BY <1>1
  <2>5. QED
    BY <2>1, <2>2, <2>3, <2>4
<1>3. QED
  BY <1>1, <1>2 DEF NodeStates

-----------------------------------------------------------------------------
(***************************************************************************)
(* The interrupt of a pass is well defined.                                *)
(***************************************************************************)

LEMMA LeastNumber ==
  ASSUME NEW T, T \subseteq Nat, T # {}
  PROVE  \E x \in T : \A y \in T : x <= y
<1>1. IsWellFoundedOn(OpToRel(<, Nat), Nat)
  BY NatLessThanWellFounded
<1>2. PICK x \in T : \A y \in T : ~(<<y, x>> \in OpToRel(<, Nat))
  BY <1>1, WFMin
<1>3. \A y \in T : ~(y < x)
  BY <1>2 DEF OpToRel
<1>4. QED
  BY <1>3

LEMMA PriorityType == \A i : Priority(i) \in Nat
BY DEF Priority

\* A pass with anything to interrupt for settles on one of those packages, and
\* one with nothing settles on none (fudgeInterruptWithPriority).
LEMMA FudgeType ==
  ASSUME NEW todo \in SUBSET Pkgs
  PROVE  /\ FudgeInterruptWithPriority(todo) \in todo \cup {"none"}
         /\ (\E p \in todo : HasInterrupt[p]) =>
              /\ FudgeInterruptWithPriority(todo) \in todo
              /\ HasInterrupt[FudgeInterruptWithPriority(todo)]
<1> DEFINE ints == {p \in todo : HasInterrupt[p]}
           before(p, q) == \/ Priority(Interrupt[p]) < Priority(Interrupt[q])
                           \/ Priority(Interrupt[p]) = Priority(Interrupt[q]) /\ Rank[p] <= Rank[q]
<1>1. CASE ints = {}
  BY <1>1 DEF FudgeInterruptWithPriority
<1>2. CASE ints # {}
  <2> DEFINE prios == {Priority(Interrupt[p]) : p \in ints}
  <2>1. PICK n \in prios : \A m \in prios : n <= m
    <3>1. prios \subseteq Nat /\ prios # {}
      BY <1>2, PriorityType
    <3>2. QED
      BY <3>1, LeastNumber
  <2> DEFINE ranks == {Rank[p] : p \in {q \in ints : Priority(Interrupt[q]) = n}}
  <2>2. PICK r \in ranks : \A s \in ranks : r <= s
    <3>1. ranks \subseteq Nat /\ ranks # {}
      BY <2>1, RankAssumption
    <3>2. QED
      BY <3>1, LeastNumber
  <2>3. PICK p \in ints : Priority(Interrupt[p]) = n /\ Rank[p] = r
    BY <2>2
  <2>4. ASSUME NEW q \in ints
        PROVE  before(p, q)
    <3>1. Priority(Interrupt[q]) \in prios
      OBVIOUS
    <3>2. n <= Priority(Interrupt[q]) /\ n \in Nat /\ Priority(Interrupt[q]) \in Nat
      BY <2>1, <3>1, <2>3, PriorityType
    <3>3. Priority(Interrupt[q]) = n => Rank[q] \in ranks
      OBVIOUS
    <3>4. QED
      BY <3>2, <3>3, <2>2, <2>3
  <2>5. \E x \in ints : \A q \in ints : before(x, q)
    BY <2>4
  <2>6. (CHOOSE x \in ints : \A q \in ints : before(x, q)) \in ints
    <3> HIDE DEF before, ints
    <3> QED BY <2>5
  <2>7. FudgeInterruptWithPriority(todo) = CHOOSE x \in ints : \A q \in ints : before(x, q)
    BY <1>2 DEF FudgeInterruptWithPriority
  <2>8. QED
    BY <2>6, <2>7
<1>3. QED
  BY <1>1, <1>2

-----------------------------------------------------------------------------
(***************************************************************************)
(* The inductive invariant.  TypeOK alone is not preserved: a Job that     *)
(* exists runs for a real package, the generation is bounded by the edits  *)
(* made so far, and a pass that has an interrupting package left to handle *)
(* has settled on an interrupt, which gives its Job a name.                *)
(***************************************************************************)
JobsOK(js) ==
  /\ js \in [JobName -> Job]
  /\ \A j \in JobName : js[j].phase # "none" => js[j].of \in Key

GenerationCounted == \A p \in Pkgs : spec[p].gen <= used.edits

InterruptSettled ==
  pass.pc = "run" =>
    \A p \in pass.un \cup pass.rest :
      HasInterrupt[p] => pass.pack \in Pkgs /\ HasInterrupt[pass.pack]

TypeInv == TypeOK /\ JobsOK(jobs) /\ GenerationCounted /\ InterruptSettled

LEMMA HasInterruptType == HasInterrupt \in [Pkgs -> BOOLEAN]
BY DEF HasInterrupt

\* Every name ends in a stage; names of packages hold the package and version.
LEMMA JobNameParts ==
  ASSUME NEW j \in JobName
  PROVE  /\ j[3] \in Stage
         /\ j[3] \notin InterruptStages => <<j[1], j[2]>> \in Key
BY DEF JobName, PackageJobs, InterruptJobs, InterruptStages, Stage, Key

LEMMA NameOfType ==
  ASSUME NEW k \in Key, NEW stage \in Stage, NEW type,
         stage \in InterruptStages => \E p \in Pkgs : HasInterrupt[p] /\ type = Interrupt[p]
  PROVE  NameOf(k, stage, type) \in JobName /\ NameOf(k, stage, type)[3] = stage
BY DEF NameOf, JobName, PackageJobs, InterruptJobs, Key

LEMMA NoJobType == NoJob \in Job /\ NoJob.phase = "none"
<1>1. 0 \in 0..MaxEdits
  BY BoundsAssumption
<1>2. QED
  BY <1>1 DEF NoJob, Job

LEMMA NewJobType ==
  ASSUME NEW k \in Key, NEW pkg \in SpecPkg
  PROVE  NewJob(k, pkg) \in Job /\ NewJob(k, pkg).of = k
BY FlagsAssumption DEF NewJob, NoJob, Job, SpecPkg

LEMMA InitialTypes ==
  InitialSpec \in Specs /\ InitialNode \in Node
<1>1. 1 \in Versions
  BY VersionBound DEF Versions
<1>2. 0 \in 0..MaxEdits
  BY BoundsAssumption
<1>3. QED
  BY <1>1, <1>2, EmptyNodeStateType DEF InitialSpec, InitialNode, Specs, SpecPkg, Node

LEMMA SpecKeyType ==
  ASSUME NEW sp \in Specs, NEW p \in Pkgs
  PROVE  /\ SpecKey(sp, p) \in Key /\ SpecKey(sp, p)[1] = p
         /\ sp[p] \in SpecPkg /\ sp[p].ver \in Versions
BY DEF Specs, SpecPkg, SpecKey, Key

\* Changing one Job, or none, keeps the Jobs well-formed.
LEMMA JobChange ==
  ASSUME JobsOK(jobs), NEW j \in JobName, NEW new \in Job,
         new.phase # "none" => new.of \in Key
  PROVE  JobsOK([jobs EXCEPT ![j] = new])
BY DEF JobsOK

Passes ==
  [pc: {"idle", "run", "save"}, spec: Specs, before: Node, mem: Node,
   un: SUBSET Pkgs, rest: SUBSET Pkgs, pack: Pkgs \cup {"none"}]

LEMMA IdlePassType == IdlePass \in Passes /\ IdlePass.pc = "idle"
BY InitialTypes DEF IdlePass, Passes

LEMMA InitType == Init => TypeInv
<1> SUFFICES ASSUME Init PROVE TypeInv
  OBVIOUS
<1>1. TypeOK
  <2>1. jobs \in [JobName -> Job]
    BY NoJobType DEF Init
  <2>2. used \in [edits: 0..MaxEdits, kinds: SUBSET EditKinds,
                  failures: 0..MaxFailures, crashes: 0..MaxCrashes]
    BY BoundsAssumption DEF Init
  <2>3. QED
    BY <2>1, <2>2, InitialTypes, IdlePassType DEF Init, TypeOK, Passes
<1>2. JobsOK(jobs)
  BY <1>1, NoJobType DEF TypeOK, JobsOK, Init
<1>3. GenerationCounted
  <2>1. \A p \in Pkgs : spec[p].gen = 0
    BY DEF Init, InitialSpec
  <2>2. used.edits = 0
    BY DEF Init
  <2>3. 0 <= 0
    OBVIOUS
  <2>4. QED
    BY <2>1, <2>2, <2>3, Zenon DEF GenerationCounted
<1>4. InterruptSettled
  BY DEF InterruptSettled, Init, IdlePass
<1>5. QED
  BY <1>1, <1>2, <1>3, <1>4 DEF TypeInv

-----------------------------------------------------------------------------
(***************************************************************************)
(* Planning: the handlers return node states.                              *)
(***************************************************************************)

LEMMA HandleVersionChangeType ==
  ASSUME NEW ns \in NodeStates, NEW sp \in Specs
  PROVE  HandleVersionChange(ns, sp) \in NodeStates
<1>1. \A k \in Key : Status(k, "upgrade", "in_progress") \in Entry
  BY StatusType DEF Stage, State
<1>2. QED
  BY <1>1 DEF HandleVersionChange, NodeStates

LEMMA HandleUninstallRequestsType ==
  ASSUME NEW ns \in NodeStates, NEW sp \in Specs
  PROVE  HandleUninstallRequests(ns, sp) \in NodeStates
<1>1. \A k \in Key : Status(k, "uninstall", "in_progress") \in Entry
  BY StatusType DEF Stage, State
<1>2. ASSUME NEW k \in Key
      PROVE  HandleUninstallRequests(ns, sp)[k] \in {ns[k], NoEntry, Status(k, "uninstall", "in_progress")}
  BY DEF HandleUninstallRequests
<1>3. QED
  BY <1>1, <1>2 DEF HandleUninstallRequests, NodeStates

LEMMA HandleCancelledUninstallsType ==
  ASSUME NEW ns \in NodeStates, NEW sp \in Specs
  PROVE  HandleCancelledUninstalls(ns, sp) \in NodeStates
<1>1. \A k \in Key : Status(k, "apply", "in_progress") \in Entry
  BY StatusType DEF Stage, State
<1>2. QED
  BY <1>1 DEF HandleCancelledUninstalls, NodeStates

LEMMA PlannedStateType ==
  ASSUME NEW ns \in NodeStates, NEW sp \in Specs
  PROVE  PlannedState(ns, sp) \in NodeStates
BY HandleVersionChangeType, HandleUninstallRequestsType, HandleCancelledUninstallsType
   DEF PlannedState

LEMMA IntrospectNodeType ==
  ASSUME NEW n \in Node, NEW sp
  PROVE  IntrospectNode(n, sp) \in Node /\ IntrospectNode(n, sp).ns = n.ns
BY DEF IntrospectNode, Uncordon, Node

LEMMA SetSuspendType ==
  ASSUME JobsOK(jobs), NEW suspend \in BOOLEAN
  PROVE  JobsOK(SetSuspend(jobs, suspend))
<1>1. ASSUME NEW j \in JobName
      PROVE  /\ SetSuspend(jobs, suspend)[j] \in Job
             /\ SetSuspend(jobs, suspend)[j].of = jobs[j].of
             /\ SetSuspend(jobs, suspend)[j].phase = jobs[j].phase
  BY DEF SetSuspend, JobsOK, Job
<1>2. QED
  BY <1>1 DEF JobsOK, SetSuspend

-----------------------------------------------------------------------------
(***************************************************************************)
(* One package of a pass.                                                  *)
(***************************************************************************)

\* What a step of the heavy pass must establish: it writes neither the spec nor
\* the node, and leaves Jobs and pass well-formed.
PassStep ==
  /\ JobsOK(jobs')
  /\ workload' \in {"none", "running", "protected", "leaving"}
  /\ pass' \in Passes
  /\ InterruptSettled'

LEMMA PassStepPreserves ==
  ASSUME TypeInv, PassStep, UNCHANGED passOnly
  PROVE  TypeInv'
<1>1. TypeOK'
  BY DEF TypeInv, TypeOK, PassStep, JobsOK, Passes, passOnly
<1>2. GenerationCounted'
  BY DEF TypeInv, GenerationCounted, passOnly
<1>3. QED
  BY <1>1, <1>2 DEF TypeInv, PassStep

LEMMA PassTypes ==
  ASSUME TypeInv, NEW p \in Pkgs
  PROVE  /\ pass \in Passes /\ JobsOK(jobs)
         /\ pass.mem \in Node /\ pass.mem.ns \in NodeStates /\ pass.spec \in Specs
         /\ PassKey(p) \in Key /\ pass.spec[p] \in SpecPkg
         /\ PassEntry(p) \in Entry \cup {NoEntry}
<1>1. pass \in Passes /\ JobsOK(jobs) /\ pass.mem \in Node /\ pass.spec \in Specs
  BY DEF TypeInv, TypeOK, Passes
<1>2. pass.mem.ns \in NodeStates
  BY <1>1 DEF Node
<1>3. PassKey(p) \in Key /\ pass.spec[p] \in SpecPkg
  BY <1>1, SpecKeyType DEF PassKey
<1>4. QED
  BY <1>1, <1>2, <1>3 DEF PassEntry, NodeStates

\* Going on to the next package keeps the pass well-formed.
LEMMA AdvanceType ==
  ASSUME TypeInv, NEW p \in Pkgs, pass.pc = "run", NEW mem \in Node, Advance(p, mem)
  PROVE  pass' \in Passes /\ InterruptSettled'
<1>1. pass' \in Passes
  BY DEF TypeInv, TypeOK, Advance, Passes
<1>2. pass'.un \cup pass'.rest \subseteq pass.un \cup pass.rest /\ pass'.pack = pass.pack
  BY DEF TypeInv, TypeOK, Advance
<1>3. QED
  BY <1>1, <1>2 DEF TypeInv, InterruptSettled

LEMMA IdleType ==
  ASSUME pass' = IdlePass
  PROVE  pass' \in Passes /\ InterruptSettled'
BY IdlePassType DEF InterruptSettled

\* Creating a Job, or finding its name taken, keeps Jobs and copy well-formed.
LEMMA CreateType ==
  ASSUME TypeInv, NEW p \in Pkgs, Reached(p), NEW stage \in Stage,
         stage \in InterruptStages => HasInterrupt[p]
  PROVE  JobsOK(Create(p, stage).jobs) /\ Create(p, stage).mem \in Node
<1> DEFINE k == PassKey(p)
           j == NameOf(k, stage, IF pass.pack = "none" THEN "none" ELSE Interrupt[pass.pack])
<1>1. /\ JobsOK(jobs) /\ pass.mem \in Node /\ pass.mem.ns \in NodeStates
      /\ k \in Key /\ pass.spec[p] \in SpecPkg
  BY PassTypes
<1>2. j \in JobName
  <2>1. stage \in InterruptStages => pass.pack \in Pkgs /\ HasInterrupt[pass.pack]
    BY DEF TypeInv, InterruptSettled, Reached
  <2>2. stage \in InterruptStages =>
          \E q \in Pkgs : /\ HasInterrupt[q]
                         /\ (IF pass.pack = "none" THEN "none" ELSE Interrupt[pass.pack]) = Interrupt[q]
    BY <2>1, NoPackageIsNone
  <2>3. QED
    BY <1>1, <2>2, NameOfType
<1>3. JobsOK([jobs EXCEPT ![j] = NewJob(k, pass.spec[p])])
  BY <1>1, <1>2, NewJobType, JobChange
<1>4. [pass.mem EXCEPT !.ns = Upsert(@, k, stage, "in_progress")] \in Node
  <2>1. Upsert(pass.mem.ns, k, stage, "in_progress") \in NodeStates
    BY <1>1, UpsertType DEF State
  <2>2. QED
    BY <1>1, <2>1 DEF Node
<1>5. JobsOK(HandleExistingJob(pass.mem.ns, pass.spec, k, j))
  <2>1. [jobs EXCEPT ![j].del = TRUE] = [jobs EXCEPT ![j] = [jobs[j] EXCEPT !.del = TRUE]]
    OBVIOUS
  <2>2. /\ [jobs[j] EXCEPT !.del = TRUE] \in Job
        /\ [jobs[j] EXCEPT !.del = TRUE].phase # "none" => [jobs[j] EXCEPT !.del = TRUE].of \in Key
    BY <1>1, <1>2, ZenonT(40) DEF JobsOK, Job
  <2>3. JobsOK([jobs EXCEPT ![j].del = TRUE])
    BY <1>1, <1>2, <2>1, <2>2, JobChange
  <2>4. QED
    BY <1>1, <2>3 DEF HandleExistingJob
<1>6. QED
  BY <1>1, <1>3, <1>4, <1>5 DEF Create

LEMMA NothingType ==
  ASSUME TypeInv
  PROVE  JobsOK(Nothing.jobs) /\ Nothing.mem \in Node
BY DEF TypeInv, TypeOK, Nothing, Passes

LEMMA InterruptEffectType ==
  ASSUME TypeInv, NEW p \in Pkgs, Reached(p), HasInterrupt[p], NEW stage \in Stage
  PROVE  JobsOK(InterruptEffect(p, stage).jobs) /\ InterruptEffect(p, stage).mem \in Node
BY CreateType, NothingType DEF InterruptEffect

LEMMA ApplyPackageType ==
  ASSUME TypeInv, NEW p \in Pkgs, Reached(p), PassNext(p) # "interrupt", ApplyPackage(p)
  PROVE  PassStep
<1> DEFINE create == ~(\/ ApplyStage(p) = "uninstall-interrupt"
                       \/ JobExists(PassKey(p))
                       \/ PassEntry(p).state = "skipped")
           r == IF create THEN Create(p, ApplyStage(p)) ELSE Nothing
<1>1. ApplyStage(p) \in (Stage \ InterruptStages) \cup {"uninstall-interrupt"}
  <2>1. PassNext(p) \in {"none", "config", "post-interrupt", "apply"}
    BY PassTypes, NextStageType, HasInterruptType DEF PassNext, PassEntry
  <2>2. QED
    BY <2>1 DEF ApplyStage, Stage, InterruptStages
<1>2. JobsOK(r.jobs) /\ r.mem \in Node
  BY <1>1, CreateType, NothingType DEF Stage, InterruptStages
<1>3. /\ jobs' = r.jobs /\ workload' = workload
      /\ pass' = IdlePass \/ Advance(p, r.mem)
  BY DEF ApplyPackage
<1>4. pass.pc = "run"
  BY DEF Reached
<1>5. pass' \in Passes /\ InterruptSettled'
  BY <1>2, <1>3, <1>4, IdleType, AdvanceType
<1>6. QED
  BY <1>2, <1>3, <1>5 DEF PassStep, TypeInv, TypeOK

LEMMA EnsureNodeType ==
  ASSUME TypeInv, NEW p \in Pkgs, pass.pc = "run", NEW r, JobsOK(r.jobs), r.mem \in Node,
         EnsureNodeIsReadyForInterrupt(p, r)
  PROVE  PassStep
<1>1. [r.mem EXCEPT !.unsched = TRUE, !.cordon = TRUE] \in Node
  BY DEF Node
<1>2. pass' \in Passes /\ InterruptSettled'
  BY <1>1, IdleType, AdvanceType DEF EnsureNodeIsReadyForInterrupt
<1>3. QED
  BY <1>2 DEF EnsureNodeIsReadyForInterrupt, PassStep, TypeInv, TypeOK

LEMMA RunPackageType ==
  ASSUME TypeInv, NEW p \in Pkgs, RunPackage(p)
  PROVE  TypeInv'
<1>1. CASE RunPlainPackage(p)
  <2>1. PassNext(p) # "interrupt"
    BY <1>1, PassTypes, NextStageType, HasInterruptType DEF RunPlainPackage, PassNext, PassEntry
  <2>2. QED
    BY <1>1, <2>1, ApplyPackageType, PassStepPreserves DEF RunPlainPackage
<1>2. CASE RunSkippedPackage(p)
  <2>1. PICK ns \in NodeStates : Advance(p, [pass.mem EXCEPT !.ns = ns])
    <3>1. PICK ns \in IF RunInterrupt(p) THEN ProgressSkipped(pass.mem.ns, pass.spec)
                                         ELSE {pass.mem.ns} :
            Advance(p, [pass.mem EXCEPT !.ns = ns])
      BY <1>2 DEF RunSkippedPackage
    <3>2. pass.mem.ns \in NodeStates /\ \A q \in Pkgs : pass.spec[q].ver \in Versions
      BY PassTypes, SpecKeyType
    <3>3. ns \in NodeStates
      BY <3>1, <3>2, ProgressSkippedType
    <3>4. QED
      BY <3>1, <3>3
  <2>2. [pass.mem EXCEPT !.ns = ns] \in Node
    BY <2>1, PassTypes DEF Node
  <2>3. pass' \in Passes /\ InterruptSettled'
    BY <1>2, <2>1, <2>2, AdvanceType DEF RunSkippedPackage, Reached
  <2>4. QED
    BY <1>2, <2>3, PassStepPreserves DEF RunSkippedPackage, PassStep, TypeInv, TypeOK
<1>3. CASE RunActiveInterrupt(p)
  <2> DEFINE r == InterruptEffect(p, PassEntry(p).stage)
  <2>1. Reached(p) /\ HasInterrupt[p] /\ pass.pc = "run" /\ PassEntry(p).stage \in Stage
    BY <1>3 DEF RunActiveInterrupt, Reached, IsInterruptStage, InterruptStages, Stage
  <2>2. JobsOK(r.jobs) /\ r.mem \in Node
    BY <2>1, InterruptEffectType
  <2>3. \/ EnsureNodeIsReadyForInterrupt(p, r)
        \/ jobs' = r.jobs /\ UNCHANGED workload /\ Advance(p, r.mem)
    BY <1>3 DEF RunActiveInterrupt
  <2> HIDE DEF r
  <2>4. PassStep
    BY <2>1, <2>2, <2>3, EnsureNodeType, AdvanceType DEF PassStep, TypeInv, TypeOK
  <2>5. QED
    BY <1>3, <2>4, PassStepPreserves DEF RunActiveInterrupt
<1>4. CASE RunDrainedPackage(p)
  <2>1. Reached(p) /\ pass.pc = "run" /\ PassNext(p) # "interrupt"
    BY <1>4 DEF RunDrainedPackage, Reached
  <2>2. EnsureNodeIsReadyForInterrupt(p, Nothing) \/ ApplyPackage(p)
    BY <1>4 DEF RunDrainedPackage
  <2>3. PassStep
    BY <2>1, <2>2, NothingType, EnsureNodeType, ApplyPackageType
  <2>4. QED
    BY <1>4, <2>3, PassStepPreserves DEF RunDrainedPackage
<1>5. CASE RunInterruptStage(p)
  <2> DEFINE skip == [pass.mem EXCEPT !.ns = Upsert(@, PassKey(p), "interrupt", "skipped")]
             r == IF RunInterrupt(p) THEN InterruptEffect(p, "interrupt")
                                     ELSE [jobs |-> jobs, mem |-> skip]
  <2>1. Reached(p) /\ HasInterrupt[p] /\ pass.pc = "run" /\ "interrupt" \in Stage
    BY <1>5 DEF RunInterruptStage, Reached, Stage
  <2>2. skip \in Node
    <3>1. Upsert(pass.mem.ns, PassKey(p), "interrupt", "skipped") \in NodeStates
      BY <2>1, PassTypes, UpsertType DEF State
    <3>2. QED
      BY <3>1, PassTypes DEF Node
  <2>3. JobsOK(r.jobs) /\ r.mem \in Node
    BY <2>1, <2>2, InterruptEffectType, PassTypes
  <2>4. jobs' = r.jobs /\ Advance(p, r.mem) /\ UNCHANGED workload
    BY <1>5 DEF RunInterruptStage
  <2> HIDE DEF r
  <2>5. PassStep
    BY <2>1, <2>3, <2>4, AdvanceType DEF PassStep, TypeInv, TypeOK
  <2>6. QED
    BY <1>5, <2>5, PassStepPreserves DEF RunInterruptStage
<1>6. CASE RunNextStage(p)
  BY <1>6, ApplyPackageType, PassStepPreserves DEF RunNextStage
<1>7. QED
  BY <1>1, <1>2, <1>3, <1>4, <1>5, <1>6 DEF RunPackage

LEMMA ResumedType ==
  ASSUME TypeInv
  PROVE  JobsOK(Resumed)
BY SetSuspendType DEF Resumed, TypeInv

LEMMA HeavyPassType == TypeInv /\ HeavyPass => TypeInv'
<1> SUFFICES ASSUME TypeInv, HeavyPass PROVE TypeInv'
  OBVIOUS
<1>0. /\ JobsOK(jobs) /\ pass \in Passes /\ spec \in Specs /\ node \in Node /\ cache \in Node
      /\ cache.ns \in NodeStates
      /\ workload \in {"none", "running", "protected", "leaving"}
  BY DEF TypeInv, TypeOK, Passes, Node
<1>1. CASE ValidateRunningPackages
  <2>1. JobsOK(jobs')
    <3>1. ASSUME NEW j \in JobName
          PROVE  jobs'[j] \in Job /\ jobs'[j].of = jobs[j].of /\ jobs'[j].phase = jobs[j].phase
      <4>1. jobs'[j] \in {jobs[j], [jobs[j] EXCEPT !.inv = TRUE], [jobs[j] EXCEPT !.del = TRUE]}
        BY <1>1 DEF ValidateRunningPackages
      <4>2. jobs[j] \in Job
        BY <1>0 DEF JobsOK
      <4>3. QED
        BY <4>1, <4>2 DEF Job
    <3>2. QED
      BY <1>0, <1>1, <3>1 DEF ValidateRunningPackages, JobsOK
  <2>2. InterruptSettled'
    BY <1>1 DEF ValidateRunningPackages, TypeInv, InterruptSettled
  <2>3. QED
    BY <1>0, <1>1, <2>1, <2>2, PassStepPreserves
       DEF ValidateRunningPackages, PassStep, passOnly
<1>2. CASE SuspendUnfinishedJobs
  <2>1. JobsOK(jobs')
    BY <1>0, <1>2, SetSuspendType DEF SuspendUnfinishedJobs
  <2>2. InterruptSettled'
    BY <1>2 DEF SuspendUnfinishedJobs, TypeInv, InterruptSettled
  <2>3. QED
    BY <1>0, <1>2, <2>1, <2>2, PassStepPreserves DEF SuspendUnfinishedJobs, PassStep, passOnly
<1>3. CASE IntrospectSkyhook
  <2>1. IntrospectNode(cache, spec) \in Node
    BY <1>0, IntrospectNodeType
  <2>2. pass' \in Passes /\ pass'.pc = "save"
    BY <1>0, <1>3, <2>1, IdlePassType DEF IntrospectSkyhook, Passes
  <2>3. InterruptSettled'
    BY <2>2 DEF InterruptSettled
  <2>4. QED
    BY <1>0, <1>3, <2>2, <2>3, ResumedType, PassStepPreserves DEF IntrospectSkyhook, PassStep, passOnly
<1>4. CASE RunSkyhookPackages
  <2> DEFINE ns == PlannedState(cache.ns, spec)
             mem == IntrospectNode([cache EXCEPT !.ns = ns], spec)
             un == {p \in UninstallList(HandleVersionChange(cache.ns, spec), spec) :
                      Present(ns, SpecKey(spec, p))}
             rest == Runnable(ns, spec)
             new == [pc |-> IF un \cup rest = {} THEN "save" ELSE "run",
                     spec |-> spec, before |-> cache, mem |-> mem, un |-> un, rest |-> rest,
                     pack |-> FudgeInterruptWithPriority(un \cup rest)]
  <2>1. jobs' = Resumed /\ (pass' = new \/ pass' = pass) /\ UNCHANGED workload /\ UNCHANGED passOnly
    BY <1>4 DEF RunSkyhookPackages, passOnly
  <2>2. mem \in Node
    <3>1. ns \in NodeStates
      BY <1>0, PlannedStateType
    <3>2. [cache EXCEPT !.ns = ns] \in Node
      BY <1>0, <3>1 DEF Node
    <3>3. QED
      BY <3>2, IntrospectNodeType
  <2>3. un \subseteq Pkgs /\ rest \subseteq Pkgs
    BY DEF UninstallList, Runnable
  <2> HIDE DEF un, rest, mem
  <2>4. /\ FudgeInterruptWithPriority(un \cup rest) \in Pkgs \cup {"none"}
        /\ \A p \in un \cup rest : HasInterrupt[p] =>
             /\ FudgeInterruptWithPriority(un \cup rest) \in Pkgs
             /\ HasInterrupt[FudgeInterruptWithPriority(un \cup rest)]
    <3>1. un \cup rest \in SUBSET Pkgs
      BY <2>3
    <3>2. QED
      BY <3>1, FudgeType
  <2>5. new \in Passes
    BY <1>0, <2>2, <2>3, <2>4 DEF Passes
  <2>6. pass' \in Passes
    BY <1>0, <2>1, <2>5
  <2>7. InterruptSettled'
    <3>1. CASE pass' = new
      BY <3>1, <2>4 DEF InterruptSettled
    <3>2. CASE pass' = pass
      BY <3>2 DEF TypeInv, InterruptSettled
    <3>3. QED
      BY <2>1, <3>1, <3>2
  <2>8. QED
    BY <1>0, <2>1, <2>6, <2>7, ResumedType, PassStepPreserves DEF PassStep
<1>5. CASE SaveNodesAndSkyhook
  <2> DEFINE changed(old, new, current) == IF old = new THEN current ELSE new
             n == [ns |-> MergeDelta(pass.before.ns, pass.mem.ns, node.ns),
                   unsched |-> changed(pass.before.unsched, pass.mem.unsched, node.unsched),
                   cordon |-> changed(pass.before.cordon, pass.mem.cordon, node.cordon)]
  <2>1. n \in Node
    <3>1. pass.before \in Node /\ pass.mem \in Node /\ node \in Node
      BY <1>0 DEF Passes
    <3>2. MergeDelta(pass.before.ns, pass.mem.ns, node.ns) \in NodeStates
      BY <3>1, MergeDeltaType DEF Node
    <3>3. QED
      BY <3>1, <3>2 DEF Node
  <2>2. node' = n /\ cache' \in {cache, n} /\ pass' = IdlePass
    BY <1>5 DEF SaveNodesAndSkyhook, WriteNode
  <2> HIDE DEF n
  <2>3. TypeOK'
    BY <1>0, <1>5, <2>1, <2>2, IdlePassType DEF SaveNodesAndSkyhook, TypeInv, TypeOK, Passes
  <2>4. JobsOK(jobs)' /\ GenerationCounted'
    BY <1>5 DEF SaveNodesAndSkyhook, TypeInv, JobsOK, GenerationCounted
  <2>5. QED
    BY <2>2, <2>3, <2>4, IdleType DEF TypeInv
<1>6. ASSUME NEW p \in Pkgs, RunPackage(p)
      PROVE  TypeInv'
  BY <1>6, RunPackageType
<1>7. QED
  BY <1>1, <1>2, <1>3, <1>4, <1>5, <1>6 DEF HeavyPass

-----------------------------------------------------------------------------
(***************************************************************************)
(* The Job and Pod reconcilers.                                            *)
(***************************************************************************)

\* What a step that leaves spec, pass and bounds alone must establish.
NodeStep ==
  /\ node' \in Node /\ cache' \in Node
  /\ JobsOK(jobs')
  /\ attempts' \subseteq JobName \X Key
  /\ recon' \in JobName \cup {NoName}
  /\ ran' \subseteq Executors /\ owed' \subseteq Pkgs

LEMMA NodeStepPreserves ==
  ASSUME TypeInv, NodeStep, UNCHANGED <<spec, mode, workload, pass, used>>
  PROVE  TypeInv'
<1>1. TypeOK'
  BY DEF TypeInv, TypeOK, NodeStep, JobsOK
<1>2. GenerationCounted' /\ InterruptSettled'
  BY DEF TypeInv, GenerationCounted, InterruptSettled
<1>3. QED
  BY <1>1, <1>2 DEF TypeInv, NodeStep

LEMMA SharedTypes ==
  ASSUME TypeInv
  PROVE  /\ node \in Node /\ cache \in Node /\ node.ns \in NodeStates
         /\ JobsOK(jobs) /\ attempts \subseteq JobName \X Key
         /\ recon \in JobName \cup {NoName}
         /\ ran \subseteq Executors /\ owed \subseteq Pkgs
         /\ spec \in Specs
BY DEF TypeInv, TypeOK, Node

LEMMA WriteNodeType ==
  ASSUME TypeInv, NEW ns \in NodeStates, WriteNode([node EXCEPT !.ns = ns])
  PROVE  node' \in Node /\ cache' \in Node
BY SharedTypes DEF WriteNode, Node

LEMMA RecordErroringType ==
  ASSUME TypeInv, NEW k \in Key, NEW stage \in Stage, RecordErroring(k, stage)
  PROVE  node' \in Node /\ cache' \in Node
<1>1. Upsert(node.ns, k, stage, "erroring") \in NodeStates
  BY SharedTypes, UpsertType DEF State
<1>2. QED
  BY <1>1, WriteNodeType DEF RecordErroring

\* A Job that exists runs for a package.
LEMMA KeyOfType ==
  ASSUME TypeInv, NEW j \in JobName, jobs[j].phase # "none"
  PROVE  KeyOf(j) \in Key /\ KeyOf(j)[1] \in Pkgs /\ KeyOf(j)[2] \in Versions /\ j[3] \in Stage
BY JobNameParts DEF TypeInv, JobsOK, KeyOf, Key

LEMMA RecordCompleteType ==
  ASSUME NEW ns \in NodeStates, NEW j \in JobName, KeyOf(j) \in Key
  PROVE  RecordComplete(ns, j) \in NodeStates
BY JobNameParts, UpsertType DEF RecordComplete, State

LEMMA RecordJobCompletionType ==
  ASSUME TypeInv, NEW j \in JobName, jobs[j].phase # "none",
         NEW new \in RecordJobCompletion(node.ns, j)
  PROVE  new \in NodeStates
<1>0. node.ns \in NodeStates /\ KeyOf(j) \in Key /\ j[3] \in Stage
  BY SharedTypes, KeyOfType
<1>1. CASE IsInterruptJob(j)
  <2>1. PICK n \in ProgressSkipped(node.ns, spec) : new = RecordComplete(n, j)
    BY <1>1 DEF RecordJobCompletion, IsInterruptJob, InterruptStages
  <2>2. \A p \in Pkgs : spec[p].ver \in Versions
    BY SharedTypes, SpecKeyType
  <2>3. n \in NodeStates
    BY <1>0, <2>1, <2>2, ProgressSkippedType
  <2>4. QED
    BY <1>0, <2>1, <2>3, RecordCompleteType
<1>2. CASE ~IsInterruptJob(j) /\ j[3] = "upgrade"
  <2> DEFINE kept == [k \in Key |-> IF k \in Superseded(node.ns, j) THEN NoEntry ELSE node.ns[k]]
  <2>1. kept \in NodeStates
    BY <1>0 DEF NodeStates
  <2>2. new = RecordComplete(kept, j)
    BY <1>2 DEF RecordJobCompletion
  <2>3. QED
    BY <1>0, <2>1, <2>2, RecordCompleteType
<1>3. CASE ~IsInterruptJob(j) /\ j[3] = "uninstall"
  <2>1. \/ new = Upsert(node.ns, KeyOf(j), "uninstall-interrupt", "in_progress")
        \/ new = RemoveState(node.ns, KeyOf(j))
    BY <1>3 DEF RecordJobCompletion
  <2>2. "uninstall-interrupt" \in Stage /\ "in_progress" \in State
    BY DEF Stage, State
  <2>3. QED
    BY <1>0, <2>1, <2>2, UpsertType, RemoveStateType
<1>4. CASE ~IsInterruptJob(j) /\ j[3] \notin {"upgrade", "uninstall"}
  BY <1>0, <1>4, RecordCompleteType DEF RecordJobCompletion
<1>5. QED
  BY <1>1, <1>2, <1>3, <1>4

LEMMA ReconcilersType == TypeInv /\ Reconcilers => TypeInv'
<1> SUFFICES ASSUME TypeInv, Reconcilers PROVE TypeInv'
  OBVIOUS
<1>1. CASE MarkJobProcessed
  <2>1. JobsOK(jobs')
    <3>1. CASE jobs[recon].phase = "none"
      BY <1>1, <3>1, SharedTypes DEF MarkJobProcessed
    <3>2. CASE jobs[recon].phase # "none"
      <4>1. recon \in JobName
        BY <1>1, SharedTypes DEF MarkJobProcessed
      <4>2. /\ [jobs[recon] EXCEPT !.proc = TRUE] \in Job
            /\ [jobs[recon] EXCEPT !.proc = TRUE].of \in Key
        BY <3>2, <4>1, SharedTypes DEF JobsOK, Job
      <4>3. jobs' = [jobs EXCEPT ![recon] = [jobs[recon] EXCEPT !.proc = TRUE]]
        BY <1>1, <3>2 DEF MarkJobProcessed
      <4>4. QED
        BY <4>1, <4>2, <4>3, SharedTypes, JobChange
    <3>3. QED
      BY <3>1, <3>2
  <2>2. QED
    BY <1>1, <2>1, SharedTypes, NodeStepPreserves DEF MarkJobProcessed, NodeStep
<1>2. ASSUME NEW j \in JobName, JobReconcileFinished(j)
      PROVE  TypeInv'
  <2>1. jobs[j].phase # "none"
    BY <1>2 DEF JobReconcileFinished, Listed
  <2>2. node' \in Node /\ cache' \in Node
    <3>1. CASE HandleCompleteJob(j)
      <4>1. CASE UNCHANGED <<node, cache>>
        BY <4>1, SharedTypes
      <4>2. CASE \E ns \in RecordJobCompletion(node.ns, j) : WriteNode([node EXCEPT !.ns = ns])
        BY <2>1, <4>2, RecordJobCompletionType, WriteNodeType
      <4>3. QED
        BY <3>1, <4>1, <4>2 DEF HandleCompleteJob
    <3>2. CASE HandleFailedJob(j)
      <4>1. KeyOf(j) \in Key /\ j[3] \in Stage
        BY <2>1, KeyOfType
      <4>2. RecordErroring(KeyOf(j), j[3]) \/ UNCHANGED <<node, cache>>
        BY <3>2 DEF HandleFailedJob
      <4>3. QED
        BY <4>1, <4>2, RecordErroringType, SharedTypes
    <3>3. QED
      BY <1>2, <3>1, <3>2 DEF JobReconcileFinished
  <2>3. QED
    BY <1>2, <2>2, SharedTypes, NodeStepPreserves DEF JobReconcileFinished, NodeStep
<1>3. ASSUME NEW j \in JobName, JobReconcileInvalid(j)
      PROVE  TypeInv'
  <2>1. jobs' = [jobs EXCEPT ![j] = [jobs[j] EXCEPT !.del = TRUE]]
    BY <1>3 DEF JobReconcileInvalid
  <2>2. /\ [jobs[j] EXCEPT !.del = TRUE] \in Job
        /\ [jobs[j] EXCEPT !.del = TRUE].phase # "none" => [jobs[j] EXCEPT !.del = TRUE].of \in Key
    BY SharedTypes DEF JobsOK, Job
  <2>3. JobsOK(jobs')
    BY <2>1, <2>2, SharedTypes, JobChange
  <2>4. QED
    BY <1>3, <2>3, SharedTypes, NodeStepPreserves DEF JobReconcileInvalid, NodeStep
<1>4. ASSUME NEW j \in JobName, JobReconcileActive(j)
      PROVE  TypeInv'
  <2>1. KeyOf(j) \in Key /\ j[3] \in Stage
    BY <1>4, KeyOfType DEF JobReconcileActive, Listed
  <2>2. node' \in Node /\ cache' \in Node
    BY <1>4, <2>1, RecordErroringType DEF JobReconcileActive
  <2>3. QED
    BY <1>4, <2>2, SharedTypes, NodeStepPreserves DEF JobReconcileActive, NodeStep
<1>5. ASSUME NEW j \in JobName, NEW k \in Key, PodReconcile(j, k)
      PROVE  TypeInv'
  <2>1. j[3] \in Stage
    BY JobNameParts
  <2>2. node' \in Node /\ cache' \in Node
    BY <1>5, <2>1, RecordErroringType, SharedTypes DEF PodReconcile
  <2>3. QED
    BY <1>5, <2>2, SharedTypes, NodeStepPreserves DEF PodReconcile, NodeStep
<1>6. QED
  BY <1>1, <1>2, <1>3, <1>4, <1>5 DEF Reconcilers

-----------------------------------------------------------------------------
(***************************************************************************)
(* The environment.                                                        *)
(***************************************************************************)

\* Changing the phase or a mark of one Job.
LEMMA JobFieldTypes ==
  ASSUME TypeInv, NEW j \in JobName, jobs[j].phase # "none"
  PROVE  /\ \A phase \in {"complete", "failing", "failed", "lost"} : JobsOK([jobs EXCEPT ![j].phase = phase])
         /\ JobsOK([jobs EXCEPT ![j].seen = TRUE])
<1>1. jobs[j] \in Job /\ jobs[j].of \in Key /\ JobsOK(jobs)
  BY SharedTypes DEF JobsOK
<1>2. ASSUME NEW phase \in {"complete", "failing", "failed", "lost"}
      PROVE  JobsOK([jobs EXCEPT ![j].phase = phase])
  <2>1. [jobs[j] EXCEPT !.phase = phase] \in Job /\ [jobs[j] EXCEPT !.phase = phase].of \in Key
    BY <1>1 DEF Job
  <2>2. [jobs EXCEPT ![j].phase = phase] = [jobs EXCEPT ![j] = [jobs[j] EXCEPT !.phase = phase]]
    OBVIOUS
  <2>3. QED
    BY <1>1, <2>1, <2>2, JobChange
<1>3. JobsOK([jobs EXCEPT ![j].seen = TRUE])
  <2>1. [jobs[j] EXCEPT !.seen = TRUE] \in Job /\ [jobs[j] EXCEPT !.seen = TRUE].of \in Key
    BY <1>1 DEF Job
  <2>2. [jobs EXCEPT ![j].seen = TRUE] = [jobs EXCEPT ![j] = [jobs[j] EXCEPT !.seen = TRUE]]
    OBVIOUS
  <2>3. QED
    BY <1>1, <2>1, <2>2, JobChange
<1>4. QED
  BY <1>2, <1>3

UsedTypes ==
  [edits: 0..MaxEdits, kinds: SUBSET EditKinds, failures: 0..MaxFailures, crashes: 0..MaxCrashes]

\* Spending one of a bound stays within it.
LEMMA SpendTypes ==
  ASSUME TypeInv
  PROVE  /\ used.failures < MaxFailures => [used EXCEPT !.failures = @ + 1] \in UsedTypes
         /\ used.crashes < MaxCrashes => [used EXCEPT !.crashes = @ + 1] \in UsedTypes
         /\ \A kind \in EditKinds : used.edits < MaxEdits =>
              [used EXCEPT !.edits = @ + 1, !.kinds = @ \cup {kind}] \in UsedTypes
<1>1. used \in UsedTypes
  BY DEF TypeInv, TypeOK, UsedTypes
<1>2. /\ used.failures < MaxFailures => used.failures + 1 \in 0..MaxFailures
      /\ used.crashes < MaxCrashes => used.crashes + 1 \in 0..MaxCrashes
      /\ used.edits < MaxEdits => used.edits + 1 \in 0..MaxEdits
  BY <1>1, BoundsAssumption DEF UsedTypes
<1>3. QED
  BY <1>1, <1>2 DEF UsedTypes

\* A step that leaves spec, node and pass alone.
LEMMA WorldStepPreserves ==
  ASSUME TypeInv, UNCHANGED <<spec, mode, node, cache, pass, recon>>,
         JobsOK(jobs'), attempts' \subseteq JobName \X Key,
         workload' \in {"none", "running", "protected", "leaving"},
         ran' \subseteq Executors, owed' \subseteq Pkgs,
         used' \in UsedTypes, used'.edits = used.edits
  PROVE  TypeInv'
<1>1. TypeOK'
  BY DEF TypeInv, TypeOK, JobsOK, UsedTypes
<1>2. GenerationCounted'
  BY DEF TypeInv, GenerationCounted
<1>3. InterruptSettled'
  BY DEF TypeInv, InterruptSettled
<1>4. QED
  BY <1>1, <1>2, <1>3 DEF TypeInv

LEMMA RanAfterType ==
  ASSUME TypeInv, NEW j \in JobName, jobs[j].phase # "none"
  PROVE  RanAfter(j) \subseteq Executors /\ OwedAfter(j) \subseteq Pkgs
<1>1. Executor(j) \in Executors
  BY KeyOfType DEF Executor, Executors
<1>2. RanAfter(j) \subseteq Executors
  BY <1>1, SharedTypes DEF RanAfter
<1>3. OwedAfter(j) \subseteq Pkgs
  BY KeyOfType, SharedTypes DEF OwedAfter
<1>4. QED
  BY <1>2, <1>3

\* An edit of the spec counts the generation up by the one edit it spends.
LEMMA UpdateType ==
  ASSUME TypeInv, NEW p \in Pkgs, NEW kind \in EditKinds, Edit(kind),
         NEW pkg \in SpecPkg, pkg.gen = spec[p].gen, Update(p, pkg)
  PROVE  TypeInv'
<1>1. /\ used \in UsedTypes /\ spec \in Specs /\ used.edits < MaxEdits
      /\ used' = [used EXCEPT !.edits = @ + 1, !.kinds = @ \cup {kind}]
  BY DEF TypeInv, TypeOK, UsedTypes, Edit
<1>2. used' \in UsedTypes /\ used'.edits = used.edits + 1
  BY <1>1, SpendTypes DEF UsedTypes
<1>3. ASSUME NEW q \in Pkgs
      PROVE  spec'[q] \in SpecPkg /\ spec'[q].gen <= used'.edits
  <2> DEFINE old == IF q = p THEN pkg ELSE spec[q]
  <2>1. old \in SpecPkg /\ old.gen = spec[q].gen
    BY <1>1 DEF Specs
  <2>2. spec'[q] = [old EXCEPT !.gen = old.gen + 1]
    BY DEF Update
  <2>3. old.gen <= used.edits /\ old.gen \in Nat /\ used.edits \in Nat
    BY <1>1, <2>1, BoundsAssumption DEF TypeInv, GenerationCounted, SpecPkg, UsedTypes
  <2> HIDE DEF old
  <2>4. old.gen + 1 \in 0..MaxEdits /\ old.gen + 1 <= used.edits + 1
    BY <1>1, <2>3, BoundsAssumption
  <2>5. QED
    BY <1>2, <2>1, <2>2, <2>4 DEF SpecPkg
<1>4. spec' \in Specs
  BY <1>3 DEF Update, Specs
<1>5. TypeOK'
  BY <1>2, <1>4 DEF TypeInv, TypeOK, UsedTypes, Edit, Update
<1>6. JobsOK(jobs)' /\ InterruptSettled' /\ GenerationCounted'
  BY <1>3 DEF TypeInv, JobsOK, InterruptSettled, GenerationCounted, Edit
<1>7. QED
  BY <1>5, <1>6 DEF TypeInv

LEMMA EnvironmentType == TypeInv /\ Environment => TypeInv'
<1> SUFFICES ASSUME TypeInv, Environment PROVE TypeInv'
  OBVIOUS
<1>0. /\ used \in UsedTypes /\ spec \in Specs /\ JobsOK(jobs)
      /\ workload \in {"none", "running", "protected", "leaving"}
      /\ attempts \subseteq JobName \X Key /\ ran \subseteq Executors /\ owed \subseteq Pkgs
  BY DEF TypeInv, TypeOK, UsedTypes
<1>1. CASE CacheSync
  BY <1>1, SharedTypes, NodeStepPreserves DEF CacheSync, NodeStep
<1>2. CASE PlaceWorkload
  BY <1>0, <1>2, WorldStepPreserves DEF PlaceWorkload
<1>3. CASE WorkloadLeaves
  BY <1>0, <1>3, WorldStepPreserves DEF WorkloadLeaves
<1>4. CASE EditMode
  <2>1. used' \in UsedTypes /\ used'.edits = used.edits + 1
    BY <1>0, <1>4, SpendTypes DEF EditMode, Edit, UsedTypes, EditKinds
  <2>2. TypeOK'
    BY <1>4, <2>1 DEF EditMode, Edit, TypeInv, TypeOK, UsedTypes
  <2>3. GenerationCounted'
    <3>1. ASSUME NEW p \in Pkgs
          PROVE  spec'[p].gen <= used'.edits
      <4>1. spec[p].gen <= used.edits /\ spec[p].gen \in Nat /\ used.edits \in Nat
        BY <1>0, BoundsAssumption DEF TypeInv, GenerationCounted, Specs, SpecPkg, UsedTypes
      <4>2. spec'[p].gen = spec[p].gen
        BY <1>4 DEF EditMode
      <4>3. QED
        BY <2>1, <4>1, <4>2
    <3>2. QED
      BY <3>1 DEF GenerationCounted
  <2>4. JobsOK(jobs)' /\ InterruptSettled'
    BY <1>4 DEF EditMode, Edit, TypeInv, JobsOK, InterruptSettled
  <2>5. QED
    BY <2>2, <2>3, <2>4 DEF TypeInv
<1>5. CASE OperatorCrash
  <2>1. used' \in UsedTypes /\ used'.edits = used.edits
    BY <1>0, <1>5, SpendTypes DEF OperatorCrash, UsedTypes
  <2>2. TypeOK'
    BY <1>5, <2>1, IdlePassType DEF OperatorCrash, TypeInv, TypeOK, UsedTypes, Passes
  <2>3. GenerationCounted'
    BY <1>5, <2>1 DEF OperatorCrash, TypeInv, GenerationCounted
  <2>4. JobsOK(jobs)' /\ InterruptSettled'
    BY <1>5, IdleType DEF OperatorCrash, TypeInv, JobsOK
  <2>5. QED
    BY <2>2, <2>3, <2>4 DEF TypeInv
<1>6. ASSUME NEW j \in JobName, JobSucceeds(j)
      PROVE  TypeInv'
  BY <1>0, <1>6, JobFieldTypes, RanAfterType, WorldStepPreserves DEF JobSucceeds, CanFinish
<1>7. ASSUME NEW j \in JobName, AttemptFails(j)
      PROVE  TypeInv'
  <2>1. attempts' \subseteq JobName \X Key
    BY <1>0, <1>7, KeyOfType DEF AttemptFails, CanFinish
  <2>2. used' \in UsedTypes /\ used'.edits = used.edits
    BY <1>0, <1>7, SpendTypes DEF AttemptFails, CanFail, UsedTypes
  <2>3. QED
    BY <1>0, <1>7, <2>1, <2>2, WorldStepPreserves DEF AttemptFails
<1>8. ASSUME NEW j \in JobName, JobFails(j)
      PROVE  TypeInv'
  <2>1. JobsOK(jobs')
    BY <1>8, JobFieldTypes DEF JobFails, CanFinish
  <2>2. used' \in UsedTypes /\ used'.edits = used.edits
    BY <1>0, <1>8, SpendTypes DEF JobFails, CanFail, UsedTypes
  <2>3. QED
    BY <1>0, <1>8, <2>1, <2>2, WorldStepPreserves DEF JobFails
<1>9. ASSUME NEW j \in JobName, JobFailureEnds(j)
      PROVE  TypeInv'
  BY <1>0, <1>9, JobFieldTypes, WorldStepPreserves DEF JobFailureEnds
<1>10. ASSUME NEW j \in JobName, JobGone(j)
       PROVE  TypeInv'
  <2>1. JobsOK(jobs')
    BY <1>0, <1>10, NoJobType, JobChange DEF JobGone
  <2>2. QED
    BY <1>0, <1>10, <2>1, WorldStepPreserves DEF JobGone
<1>11. ASSUME NEW j \in JobName, JobSeen(j)
       PROVE  TypeInv'
  BY <1>0, <1>11, JobFieldTypes, WorldStepPreserves DEF JobSeen
<1>12. ASSUME NEW p \in Pkgs, EditVersion(p)
       PROVE  TypeInv'
  <2>1. PICK v \in Versions : Update(p, [spec[p] EXCEPT !.ver = v])
    BY <1>12 DEF EditVersion
  <2>2. [spec[p] EXCEPT !.ver = v] \in SpecPkg /\ [spec[p] EXCEPT !.ver = v].gen = spec[p].gen
    BY <1>0, <2>1 DEF Specs, SpecPkg
  <2>3. Edit("version") /\ "version" \in EditKinds
    BY <1>12 DEF EditVersion, EditKinds
  <2>4. QED
    BY <2>1, <2>2, <2>3, UpdateType
<1>13. ASSUME NEW p \in Pkgs, EditOther(p)
       PROVE  TypeInv'
  <2>1. Edit("other") /\ "other" \in EditKinds /\ Update(p, spec[p]) /\ spec[p] \in SpecPkg
    BY <1>0, <1>13 DEF EditOther, EditKinds, Specs
  <2>2. QED
    BY <2>1, UpdateType
<1>14. ASSUME NEW p \in Pkgs, EditUninstall(p)
       PROVE  TypeInv'
  <2> DEFINE pkg == [spec[p] EXCEPT !.uninst = ~@]
  <2>1. pkg \in SpecPkg /\ pkg.gen = spec[p].gen
    BY <1>0 DEF Specs, SpecPkg
  <2>2. Edit("uninstall") /\ "uninstall" \in EditKinds /\ Update(p, pkg)
    BY <1>14 DEF EditUninstall, EditKinds
  <2>3. QED
    BY <2>1, <2>2, UpdateType
<1>15. QED
  BY <1>1, <1>2, <1>3, <1>4, <1>5, <1>6, <1>7, <1>8, <1>9, <1>10, <1>11, <1>12, <1>13, <1>14
     DEF Environment

-----------------------------------------------------------------------------
LEMMA NextType == TypeInv /\ [Next]_vars => TypeInv'
<1> SUFFICES ASSUME TypeInv, [Next]_vars PROVE TypeInv'
  OBVIOUS
<1>1. CASE Next
  BY <1>1, HeavyPassType, ReconcilersType, EnvironmentType DEF Next
<1>2. CASE UNCHANGED vars
  <2>1. TypeOK' /\ JobsOK(jobs)' /\ GenerationCounted' /\ InterruptSettled'
    BY <1>2 DEF vars, TypeInv, TypeOK, JobsOK, GenerationCounted, InterruptSettled
  <2>2. QED
    BY <2>1 DEF TypeInv
<1>3. QED
  BY <1>1, <1>2

\* The inductive invariant holds in every reachable state.
THEOREM TypeInvariant == Spec => []TypeInv
<1>1. QED
  BY InitType, NextType, PTL DEF Spec

\* Whatever the packages, interrupts, dependencies and bounds, and however passes,
\* reconcilers, crashes and edits interleave, every shared object and every private
\* copy of a pass stays well-formed: no state or stage outside NodeState's tables is
\* recorded, and every Job the pass creates has a name of its own.
THEOREM TypeCorrect == Spec => []TypeOK
<1>1. TypeInv => TypeOK
  BY DEF TypeInv
<1>2. QED
  BY <1>1, TypeInvariant, PTL

-----------------------------------------------------------------------------

KeptPkgs == Pkgs \ UninstallEnabled

Ran(k, stage, r) == <<k[1], k[2], stage>> \in r
ConfiguredOnce(p, r) == \E v \in Versions : <<p, v, "config">> \in r

\* What must have run for an entry or a Job of key k to be at a stage.
MayBeAt(k, stage, r) ==
  /\ stage \notin {"uninstall", "uninstall-interrupt"}
  /\ stage = "config" => Ran(k, "apply", r) \/ Ran(k, "upgrade", r)
  /\ stage \in {"interrupt", "post-interrupt"} => ConfiguredOnce(k[1], r)

SoundEntry(e, k, r) ==
  /\ MayBeAt(k, e.stage, r)
  /\ e.state = "complete" /\ e.stage # "interrupt" => Ran(k, e.stage, r)

Sound(ns, r) == \A k \in Key : k[1] \in KeptPkgs => SoundEntry(ns[k], k, r)

DependenciesRan(p, r) == \A d \in DependsOn[p] : d \in KeptPkgs => ConfiguredOnce(d, r)

SoundJobs(js, r) ==
  \A j \in JobName : js[j].phase # "none" /\ js[j].of[1] \in KeptPkgs =>
    /\ MayBeAt(js[j].of, j[3], r)
    /\ js[j].phase = "complete" => Ran(js[j].of, j[3], r)
    /\ DependenciesRan(js[j].of[1], r)

NotUninstalled(sp) == \A p \in KeptPkgs : ~sp[p].uninst

SoundPass(ps, r) ==
  /\ NotUninstalled(ps.spec)
  /\ Sound(ps.before.ns, r) /\ Sound(ps.mem.ns, r)
  /\ \A p \in KeptPkgs : p \notin ps.un /\ (p \in ps.rest => DependenciesRan(p, r))

\* The inductive invariant, on top of TypeInv.
SafeInv ==
  /\ NotUninstalled(spec)
  /\ Sound(node.ns, ran) /\ Sound(cache.ns, ran)
  /\ SoundJobs(jobs, ran)
  /\ SoundPass(pass, ran)

-----------------------------------------------------------------------------
(***************************************************************************)
(* Soundness of entries and of the operations on node states.              *)
(***************************************************************************)

LEMMA EmptySound == ASSUME NEW r PROVE Sound(EmptyNodeState, r)
BY DEF Sound, SoundEntry, MayBeAt, EmptyNodeState, NoEntry

LEMMA NoEntrySound == ASSUME NEW k, NEW r PROVE SoundEntry(NoEntry, k, r)
BY DEF SoundEntry, MayBeAt, NoEntry

LEMMA StatusSound ==
  ASSUME NEW k \in Key, NEW stage \in Stage, NEW state \in State, NEW r,
         MayBeAt(k, stage, r),
         state = "complete" /\ stage # "interrupt" => Ran(k, stage, r)
  PROVE  SoundEntry(Status(k, stage, state), k, r)
BY StatusType DEF SoundEntry

LEMMA UpsertSound ==
  ASSUME NEW ns \in NodeStates, NEW k \in Key, NEW stage \in Stage, NEW state \in State, NEW r,
         Sound(ns, r),
         k[1] \in KeptPkgs =>
           /\ MayBeAt(k, stage, r)
           /\ state = "complete" /\ stage # "interrupt" => Ran(k, stage, r)
  PROVE  Sound(Upsert(ns, k, stage, state), r)
<1>1. k[1] \in KeptPkgs => SoundEntry(Status(k, stage, state), k, r)
  BY StatusSound
<1>2. QED
  BY <1>1, UpsertType DEF Sound

LEMMA RemoveSound ==
  ASSUME NEW ns \in NodeStates, NEW k \in Key, NEW r, Sound(ns, r)
  PROVE  Sound(RemoveState(ns, k), r)
BY RemoveStateType, NoEntrySound DEF Sound

LEMMA MergeSound ==
  ASSUME NEW before \in NodeStates, NEW after \in NodeStates, NEW current \in NodeStates, NEW r,
         Sound(after, r), Sound(current, r)
  PROVE  Sound(MergeDelta(before, after, current), r)
<1>1. ASSUME NEW k \in Key, k[1] \in KeptPkgs
      PROVE  SoundEntry(MergeDelta(before, after, current)[k], k, r)
  BY <1>1, MergeDeltaType DEF Sound
<1>2. QED
  BY <1>1 DEF Sound

LEMMA PromotionSound ==
  ASSUME NEW ns \in NodeStates, NEW sp \in Specs, NEW r, Sound(ns, r),
         NEW new \in ProgressSkipped(ns, sp)
  PROVE  Sound(new, r)
<1>1. \A p \in Pkgs : sp[p].ver \in Versions
  BY SpecKeyType
<1>2. ASSUME NEW k \in Key, k[1] \in KeptPkgs
      PROVE  SoundEntry(new[k], k, r)
  <2>1. CASE new[k] = ns[k]
    BY <1>2, <2>1 DEF Sound
  <2>2. CASE /\ new[k].stage = "interrupt" /\ new[k].state = "complete"
             /\ \E v \in Versions : ns[<<k[1], v>>].stage = "interrupt"
    <3>1. PICK v \in Versions : ns[<<k[1], v>>].stage = "interrupt"
      BY <2>2
    <3>2. <<k[1], v>> \in Key /\ <<k[1], v>>[1] = k[1]
      BY DEF Key
    <3>3. SoundEntry(ns[<<k[1], v>>], <<k[1], v>>, r)
      BY <1>2, <3>2 DEF Sound
    <3>4. ConfiguredOnce(k[1], r)
      BY <3>1, <3>2, <3>3 DEF SoundEntry, MayBeAt
    <3>5. QED
      BY <2>2, <3>4 DEF SoundEntry, MayBeAt
  <2>3. QED
    BY <1>1, <2>1, <2>2, ProgressSkippedType
<1>3. QED
  BY <1>2 DEF Sound

\* The handlers that plan a pass claim nothing new.
LEMMA VersionChangeSound ==
  ASSUME NEW ns \in NodeStates, NEW sp \in Specs, NEW r, Sound(ns, r)
  PROVE  Sound(HandleVersionChange(ns, sp), r)
<1>1. ASSUME NEW k \in Key, k[1] \in KeptPkgs
      PROVE  SoundEntry(HandleVersionChange(ns, sp)[k], k, r)
  <2>1. SoundEntry(Status(k, "upgrade", "in_progress"), k, r)
    BY DEF SoundEntry, MayBeAt, Status
  <2>2. HandleVersionChange(ns, sp)[k] \in {ns[k], Status(k, "upgrade", "in_progress")}
    BY DEF HandleVersionChange
  <2>3. QED
    BY <1>1, <2>1, <2>2 DEF Sound
<1>2. QED
  BY <1>1 DEF Sound

LEMMA CancelledUninstallsSound ==
  ASSUME NEW ns \in NodeStates, NEW sp \in Specs, NEW r, Sound(ns, r)
  PROVE  Sound(HandleCancelledUninstalls(ns, sp), r)
<1>1. ASSUME NEW k \in Key, k[1] \in KeptPkgs
      PROVE  SoundEntry(HandleCancelledUninstalls(ns, sp)[k], k, r)
  <2>1. SoundEntry(Status(k, "apply", "in_progress"), k, r)
    BY DEF SoundEntry, MayBeAt, Status
  <2>2. HandleCancelledUninstalls(ns, sp)[k] \in {ns[k], Status(k, "apply", "in_progress")}
    BY DEF HandleCancelledUninstalls
  <2>3. QED
    BY <1>1, <2>1, <2>2 DEF Sound
<1>2. QED
  BY <1>1 DEF Sound

\* Neither the spec nor a sound entry asks for an uninstall of a kept package.
LEMMA NoUninstallNeeded ==
  ASSUME NEW ns \in NodeStates, NEW sp \in Specs, NEW r, Sound(ns, r), NotUninstalled(sp),
         NEW p \in KeptPkgs
  PROVE  ~NeedsUninstall(ns, sp, p)
<1>1. p \in Pkgs
  BY DEF KeptPkgs
<1>2. SpecKey(sp, p) \in Key /\ SpecKey(sp, p)[1] = p
  BY <1>1, SpecKeyType
<1>3. SoundEntry(ns[SpecKey(sp, p)], SpecKey(sp, p), r)
  BY <1>2 DEF Sound
<1>4. QED
  BY <1>3 DEF NeedsUninstall, IsUninstallCycleInProgress, SoundEntry, MayBeAt, NotUninstalled

LEMMA UninstallRequestsSound ==
  ASSUME NEW ns \in NodeStates, NEW sp \in Specs, NEW r, Sound(ns, r), NotUninstalled(sp)
  PROVE  Sound(HandleUninstallRequests(ns, sp), r)
<1>1. ASSUME NEW k \in Key, k[1] \in KeptPkgs
      PROVE  SoundEntry(HandleUninstallRequests(ns, sp)[k], k, r)
  <2>1. ~NeedsUninstall(ns, sp, k[1])
    BY <1>1, NoUninstallNeeded
  <2>2. HandleUninstallRequests(ns, sp)[k] = ns[k]
    BY <2>1 DEF HandleUninstallRequests
  <2>3. QED
    BY <1>1, <2>2 DEF Sound
<1>2. QED
  BY <1>1 DEF Sound

LEMMA PlannedSound ==
  ASSUME NEW ns \in NodeStates, NEW sp \in Specs, NEW r, Sound(ns, r), NotUninstalled(sp)
  PROVE  Sound(PlannedState(ns, sp), r)
<1> DEFINE upgraded == HandleVersionChange(ns, sp)
           requested == HandleUninstallRequests(upgraded, sp)
           cancelled == HandleCancelledUninstalls(requested, sp)
<1>1. upgraded \in NodeStates /\ Sound(upgraded, r)
  BY HandleVersionChangeType, VersionChangeSound
<1>2. requested \in NodeStates /\ Sound(requested, r)
  BY <1>1, HandleUninstallRequestsType, UninstallRequestsSound
<1>3. cancelled \in NodeStates /\ Sound(cancelled, r)
  BY <1>2, HandleCancelledUninstallsType, CancelledUninstallsSound
<1>4. QED
  BY <1>3, VersionChangeSound DEF PlannedState

\* A package the plan takes for complete has been configured, so what it lets
\* run has its dependencies configured.
LEMMA RunnableSound ==
  ASSUME NEW ns \in NodeStates, NEW sp \in Specs, NEW r, Sound(ns, r),
         NEW p \in Runnable(ns, sp)
  PROVE  DependenciesRan(p, r)
<1>1. ASSUME NEW d \in DependsOn[p], d \in KeptPkgs
      PROVE  ConfiguredOnce(d, r)
  <2> DEFINE k == SpecKey(sp, d)
  <2>1. d \in Pkgs /\ k \in Key /\ k = <<d, sp[d].ver>> /\ sp[d].ver \in Versions
    BY <1>1, SpecKeyType DEF KeptPkgs, SpecKey
  <2>2. IsPackageComplete(ns, sp, HasInterrupt, d)
    BY <1>1 DEF Runnable
  <2>3. SoundEntry(ns[k], k, r)
    BY <1>1, <2>1 DEF Sound
  <2>4. CASE ns[k].stage = "post-interrupt"
    BY <2>1, <2>3, <2>4 DEF SoundEntry, MayBeAt
  <2>5. CASE ns[k].stage = "config"
    BY <2>1, <2>2, <2>3, <2>5 DEF SoundEntry, IsPackageComplete, Ran, ConfiguredOnce
  <2>6. QED
    BY <2>2, <2>4, <2>5 DEF IsPackageComplete
<1>2. QED
  BY <1>1 DEF DependenciesRan

-----------------------------------------------------------------------------
LEMMA InitSafe == Init => SafeInv
<1> SUFFICES ASSUME Init PROVE SafeInv
  OBVIOUS
<1>1. NotUninstalled(spec) /\ NotUninstalled(pass.spec)
  BY DEF Init, IdlePass, InitialSpec, NotUninstalled, KeptPkgs
<1>2. Sound(EmptyNodeState, ran)
  BY EmptySound
<1>3. SoundJobs(jobs, ran)
  BY NoJobType DEF Init, SoundJobs
<1>4. pass.before.ns = EmptyNodeState /\ pass.mem.ns = EmptyNodeState /\ pass.un = {} /\ pass.rest = {}
  BY DEF Init, IdlePass, InitialNode
<1>5. node.ns = EmptyNodeState /\ cache.ns = EmptyNodeState
  BY DEF Init, InitialNode
<1>6. QED
  BY <1>1, <1>2, <1>3, <1>4, <1>5 DEF SafeInv, SoundPass

LEMMA IdleSound == SoundPass(IdlePass, ran)
<1>1. /\ IdlePass.before.ns = EmptyNodeState /\ IdlePass.mem.ns = EmptyNodeState
      /\ IdlePass.un = {} /\ IdlePass.rest = {} /\ NotUninstalled(IdlePass.spec)
  BY DEF IdlePass, InitialNode, InitialSpec, NotUninstalled, KeptPkgs
<1>2. QED
  BY <1>1, EmptySound DEF SoundPass

(***************************************************************************)
(* One package of a pass.                                                  *)
(***************************************************************************)
PassSafe == SoundJobs(jobs', ran) /\ SoundPass(pass', ran)

LEMMA PassSafePreserves ==
  ASSUME SafeInv, PassSafe, UNCHANGED passOnly
  PROVE  SafeInv'
BY DEF SafeInv, PassSafe, passOnly

LEMMA AdvanceSound ==
  ASSUME TypeInv, SafeInv, NEW p \in Pkgs, NEW mem \in Node, Sound(mem.ns, ran), Advance(p, mem)
  PROVE  SoundPass(pass', ran)
<1>1. pass \in Passes
  BY DEF TypeInv, TypeOK, Passes
<1>2. /\ pass'.spec = pass.spec /\ pass'.before = pass.before /\ pass'.mem = mem
      /\ pass'.un \subseteq pass.un /\ pass'.rest \subseteq pass.rest
  BY <1>1 DEF Advance, Passes
<1>3. QED
  BY <1>2 DEF SafeInv, SoundPass

\* Marks and deletions of Jobs keep what the Jobs stand for.
LEMMA MarkedJobsSound ==
  ASSUME SafeInv, NEW js,
         \A j \in JobName : js[j].phase = jobs[j].phase /\ js[j].of = jobs[j].of
  PROVE  SoundJobs(js, ran)
BY DEF SafeInv, SoundJobs

LEMMA CreateSound ==
  ASSUME TypeInv, SafeInv, NEW p \in Pkgs, Reached(p), NEW stage \in Stage,
         stage \in InterruptStages => HasInterrupt[p],
         p \in KeptPkgs => MayBeAt(PassKey(p), stage, ran)
  PROVE  SoundJobs(Create(p, stage).jobs, ran) /\ Sound(Create(p, stage).mem.ns, ran)
<1> DEFINE k == PassKey(p)
           j == NameOf(k, stage, IF pass.pack = "none" THEN "none" ELSE Interrupt[pass.pack])
<1>1. /\ JobsOK(jobs) /\ pass.mem \in Node /\ pass.mem.ns \in NodeStates
      /\ k \in Key /\ pass.spec[p] \in SpecPkg /\ pass.spec \in Specs
  BY PassTypes
<1>2. k[1] = p
  BY <1>1, SpecKeyType DEF PassKey
<1>3. p \in KeptPkgs => DependenciesRan(p, ran)
  BY DEF SafeInv, SoundPass, Reached
<1>4. j \in JobName /\ j[3] = stage
  <2>1. stage \in InterruptStages => pass.pack \in Pkgs /\ HasInterrupt[pass.pack]
    BY DEF TypeInv, InterruptSettled, Reached
  <2>2. stage \in InterruptStages =>
          \E q \in Pkgs : /\ HasInterrupt[q]
                         /\ (IF pass.pack = "none" THEN "none" ELSE Interrupt[pass.pack]) = Interrupt[q]
    BY <2>1, NoPackageIsNone
  <2>3. QED
    BY <1>1, <2>2, NameOfType
<1>5. SoundJobs([jobs EXCEPT ![j] = NewJob(k, pass.spec[p])], ran)
  <2>1. NewJob(k, pass.spec[p]).of = k /\ NewJob(k, pass.spec[p]).phase = "active"
    BY DEF NewJob, NoJob
  <2>2. ASSUME NEW i \in JobName
        PROVE  [jobs EXCEPT ![j] = NewJob(k, pass.spec[p])][i]
                 = IF i = j THEN NewJob(k, pass.spec[p]) ELSE jobs[i]
    BY <1>1 DEF JobsOK
  <2> DEFINE js == [jobs EXCEPT ![j] = NewJob(k, pass.spec[p])]
  <2>3. ASSUME NEW i \in JobName, js[i].phase # "none", js[i].of[1] \in KeptPkgs
        PROVE  /\ MayBeAt(js[i].of, i[3], ran)
               /\ js[i].phase = "complete" => Ran(js[i].of, i[3], ran)
               /\ DependenciesRan(js[i].of[1], ran)
    <3>1. CASE i = j
      <4>1. js[i].of = k /\ js[i].phase = "active" /\ i[3] = stage
        BY <1>4, <2>1, <2>2, <3>1
      <4>2. p \in KeptPkgs
        BY <1>2, <2>3, <4>1
      <4>3. QED
        BY <1>2, <1>3, <4>1, <4>2
    <3>2. CASE i # j
      <4>1. js[i] = jobs[i]
        BY <2>2, <3>2
      <4>2. QED
        BY <2>3, <4>1 DEF SafeInv, SoundJobs
    <3>3. QED
      BY <3>1, <3>2
  <2> HIDE DEF js
  <2>4. SoundJobs(js, ran)
    BY <2>3 DEF SoundJobs
  <2>5. QED
    BY <2>4 DEF js
<1>6. SoundJobs(HandleExistingJob(pass.mem.ns, pass.spec, k, j), ran)
  <2>1. SoundJobs([jobs EXCEPT ![j].del = TRUE], ran)
    <3>1. \A i \in JobName : /\ [jobs EXCEPT ![j].del = TRUE][i].phase = jobs[i].phase
                            /\ [jobs EXCEPT ![j].del = TRUE][i].of = jobs[i].of
      BY <1>1 DEF JobsOK, Job
    <3>2. QED
      BY <3>1, MarkedJobsSound
  <2>2. QED
    BY <2>1 DEF HandleExistingJob, SafeInv
<1>7. Sound([pass.mem EXCEPT !.ns = Upsert(@, k, stage, "in_progress")].ns, ran)
  <2>1. "in_progress" \in State /\ Sound(pass.mem.ns, ran)
    BY DEF State, SafeInv, SoundPass
  <2>2. Sound(Upsert(pass.mem.ns, k, stage, "in_progress"), ran)
    BY <1>1, <1>2, <2>1, UpsertSound
  <2>3. QED
    BY <1>1, <2>2 DEF Node
<1>8. QED
  BY <1>5, <1>6, <1>7 DEF Create, SafeInv, SoundPass

LEMMA NothingSound ==
  ASSUME SafeInv
  PROVE  SoundJobs(Nothing.jobs, ran) /\ Sound(Nothing.mem.ns, ran)
BY DEF SafeInv, SoundPass, Nothing

LEMMA InterruptEffectSound ==
  ASSUME TypeInv, SafeInv, NEW p \in Pkgs, Reached(p), HasInterrupt[p], NEW stage \in Stage,
         p \in KeptPkgs => MayBeAt(PassKey(p), stage, ran)
  PROVE  /\ SoundJobs(InterruptEffect(p, stage).jobs, ran)
         /\ Sound(InterruptEffect(p, stage).mem.ns, ran)
BY CreateSound, NothingSound DEF InterruptEffect

LEMMA PassEntrySound ==
  ASSUME TypeInv, SafeInv, NEW p \in KeptPkgs
  PROVE  SoundEntry(PassEntry(p), PassKey(p), ran)
<1>1. p \in Pkgs
  BY DEF KeptPkgs
<1>2. PassKey(p) \in Key /\ PassKey(p)[1] = p
  BY <1>1, PassTypes, SpecKeyType DEF PassKey
<1>3. QED
  BY <1>2 DEF SafeInv, SoundPass, Sound, PassEntry

\* A package moves on only from what it has done (NextStage, ApplyStage).
LEMMA NextStageSound ==
  ASSUME TypeInv, SafeInv, NEW p \in KeptPkgs, PassNext(p) # "none"
  PROVE  MayBeAt(PassKey(p), PassNext(p), ran)
<1>1. SoundEntry(PassEntry(p), PassKey(p), ran)
  BY PassEntrySound
<1>2. p \in Pkgs /\ PassKey(p) \in Key /\ PassKey(p)[2] \in Versions
  BY PassTypes DEF KeptPkgs, Key
<1>3. PassEntry(p).state = "complete"
  BY DEF PassNext, NextStage
<1>4. CASE PassEntry(p).stage \in {"apply", "upgrade"}
  BY <1>1, <1>3, <1>4 DEF PassNext, NextStage, SoundEntry, MayBeAt
<1>5. CASE PassEntry(p).stage = "interrupt"
  BY <1>1, <1>3, <1>5 DEF PassNext, NextStage, SoundEntry, MayBeAt
<1>6. CASE PassEntry(p).stage = "config"
  <2>1. ConfiguredOnce(PassKey(p)[1], ran)
    BY <1>1, <1>2, <1>3, <1>6 DEF SoundEntry, Ran, ConfiguredOnce
  <2>2. PassNext(p) = "interrupt"
    BY <1>3, <1>6 DEF PassNext, NextStage
  <2>3. QED
    BY <2>1, <2>2 DEF MayBeAt
<1>7. CASE PassEntry(p).stage \notin {"apply", "upgrade", "interrupt", "config"}
  <2>1. PassEntry(p).stage # "uninstall"
    BY <1>1 DEF SoundEntry, MayBeAt
  <2>2. QED
    BY <1>3, <1>7, <2>1 DEF PassNext, NextStage
<1>8. QED
  BY <1>4, <1>5, <1>6, <1>7

LEMMA ApplyStageSound ==
  ASSUME TypeInv, SafeInv, NEW p \in KeptPkgs
  PROVE  MayBeAt(PassKey(p), ApplyStage(p), ran)
<1>1. CASE PassNext(p) # "none"
  BY <1>1, NextStageSound DEF ApplyStage
<1>2. CASE PassNext(p) = "none"
  <2>1. SoundEntry(PassEntry(p), PassKey(p), ran)
    BY PassEntrySound
  <2>2. ApplyStage(p) \in {PassEntry(p).stage, "apply"}
    BY <1>2 DEF ApplyStage
  <2>3. QED
    BY <2>1, <2>2 DEF SoundEntry, MayBeAt
<1>3. QED
  BY <1>1, <1>2

LEMMA ApplyPackageSound ==
  ASSUME TypeInv, SafeInv, NEW p \in Pkgs, Reached(p), PassNext(p) # "interrupt", ApplyPackage(p)
  PROVE  PassSafe
<1> DEFINE create == ~(\/ ApplyStage(p) = "uninstall-interrupt"
                       \/ JobExists(PassKey(p))
                       \/ PassEntry(p).state = "skipped")
           r == IF create THEN Create(p, ApplyStage(p)) ELSE Nothing
<1>1. ApplyStage(p) \in (Stage \ InterruptStages) \cup {"uninstall-interrupt"}
  <2>1. PassNext(p) \in {"none", "config", "post-interrupt", "apply"}
    BY PassTypes, NextStageType, HasInterruptType DEF PassNext, PassEntry
  <2>2. QED
    BY <2>1 DEF ApplyStage, Stage, InterruptStages
<1>2. JobsOK(r.jobs) /\ r.mem \in Node
  BY <1>1, CreateType, NothingType DEF Stage, InterruptStages
<1>3. SoundJobs(r.jobs, ran) /\ Sound(r.mem.ns, ran)
  BY <1>1, CreateSound, ApplyStageSound, NothingSound DEF Stage, InterruptStages
<1>4. jobs' = r.jobs /\ (pass' = IdlePass \/ Advance(p, r.mem))
  BY DEF ApplyPackage
<1> HIDE DEF r
<1>5. QED
  BY <1>2, <1>3, <1>4, IdleSound, AdvanceSound DEF PassSafe

LEMMA EnsureNodeSound ==
  ASSUME TypeInv, SafeInv, NEW p \in Pkgs, NEW r, SoundJobs(r.jobs, ran),
         r.mem \in Node, Sound(r.mem.ns, ran), EnsureNodeIsReadyForInterrupt(p, r)
  PROVE  PassSafe
<1>1. /\ [r.mem EXCEPT !.unsched = TRUE, !.cordon = TRUE] \in Node
      /\ [r.mem EXCEPT !.unsched = TRUE, !.cordon = TRUE].ns = r.mem.ns
  BY DEF Node
<1>2. SoundPass(pass', ran)
  BY <1>1, IdleSound, AdvanceSound DEF EnsureNodeIsReadyForInterrupt
<1>3. QED
  BY <1>2 DEF EnsureNodeIsReadyForInterrupt, PassSafe

LEMMA RunPackageSafe ==
  ASSUME TypeInv, SafeInv, NEW p \in Pkgs, RunPackage(p)
  PROVE  SafeInv'
<1>1. CASE RunPlainPackage(p)
  <2>1. PassNext(p) # "interrupt"
    BY <1>1, PassTypes, NextStageType, HasInterruptType DEF RunPlainPackage, PassNext, PassEntry
  <2>2. QED
    BY <1>1, <2>1, ApplyPackageSound, PassSafePreserves DEF RunPlainPackage
<1>2. CASE RunSkippedPackage(p)
  <2>1. pass.mem \in Node /\ pass.mem.ns \in NodeStates /\ pass.spec \in Specs /\ Sound(pass.mem.ns, ran)
    BY PassTypes DEF SafeInv, SoundPass
  <2>2. PICK ns \in IF RunInterrupt(p) THEN ProgressSkipped(pass.mem.ns, pass.spec)
                                       ELSE {pass.mem.ns} :
          Advance(p, [pass.mem EXCEPT !.ns = ns])
    BY <1>2 DEF RunSkippedPackage
  <2>3. \A q \in Pkgs : pass.spec[q].ver \in Versions
    BY <2>1, SpecKeyType
  <2>4. ns \in NodeStates /\ Sound(ns, ran)
    BY <2>1, <2>2, <2>3, ProgressSkippedType, PromotionSound
  <2>5. [pass.mem EXCEPT !.ns = ns] \in Node /\ [pass.mem EXCEPT !.ns = ns].ns = ns
    BY <2>1, <2>4 DEF Node
  <2>6. SoundPass(pass', ran)
    BY <2>2, <2>4, <2>5, AdvanceSound
  <2>7. QED
    BY <1>2, <2>6, PassSafePreserves DEF RunSkippedPackage, PassSafe, SafeInv
<1>3. CASE RunActiveInterrupt(p)
  <2> DEFINE r == InterruptEffect(p, PassEntry(p).stage)
  <2>1. Reached(p) /\ HasInterrupt[p] /\ PassEntry(p).stage \in Stage
    BY <1>3 DEF RunActiveInterrupt, IsInterruptStage, InterruptStages, Stage
  <2>2. p \in KeptPkgs => MayBeAt(PassKey(p), PassEntry(p).stage, ran)
    BY PassEntrySound DEF SoundEntry
  <2>3. r.mem \in Node /\ SoundJobs(r.jobs, ran) /\ Sound(r.mem.ns, ran)
    BY <2>1, <2>2, InterruptEffectType, InterruptEffectSound
  <2>4. \/ EnsureNodeIsReadyForInterrupt(p, r)
        \/ jobs' = r.jobs /\ Advance(p, r.mem)
    BY <1>3 DEF RunActiveInterrupt
  <2> HIDE DEF r
  <2>5. PassSafe
    BY <2>3, <2>4, EnsureNodeSound, AdvanceSound DEF PassSafe
  <2>6. QED
    BY <1>3, <2>5, PassSafePreserves DEF RunActiveInterrupt
<1>4. CASE RunDrainedPackage(p)
  <2>1. Reached(p) /\ PassNext(p) # "interrupt"
    BY <1>4 DEF RunDrainedPackage
  <2>2. EnsureNodeIsReadyForInterrupt(p, Nothing) \/ ApplyPackage(p)
    BY <1>4 DEF RunDrainedPackage
  <2>3. PassSafe
    BY <2>1, <2>2, NothingType, NothingSound, EnsureNodeSound, ApplyPackageSound
  <2>4. QED
    BY <1>4, <2>3, PassSafePreserves DEF RunDrainedPackage
<1>5. CASE RunInterruptStage(p)
  <2> DEFINE skip == [pass.mem EXCEPT !.ns = Upsert(@, PassKey(p), "interrupt", "skipped")]
             r == IF RunInterrupt(p) THEN InterruptEffect(p, "interrupt")
                                     ELSE [jobs |-> jobs, mem |-> skip]
  <2>1. /\ Reached(p) /\ HasInterrupt[p] /\ PassNext(p) = "interrupt"
        /\ "interrupt" \in Stage /\ "skipped" \in State
    BY <1>5 DEF RunInterruptStage, Stage, State
  <2>2. p \in KeptPkgs => MayBeAt(PassKey(p), "interrupt", ran)
    BY <2>1, NextStageSound
  <2>3. /\ pass.mem \in Node /\ pass.mem.ns \in NodeStates /\ PassKey(p) \in Key
        /\ PassKey(p)[1] = p /\ Sound(pass.mem.ns, ran)
    BY PassTypes, SpecKeyType DEF PassKey, SafeInv, SoundPass
  <2>4. skip \in Node /\ Sound(skip.ns, ran)
    <3>1. Upsert(pass.mem.ns, PassKey(p), "interrupt", "skipped") \in NodeStates
      BY <2>1, <2>3, UpsertType
    <3>2. Sound(Upsert(pass.mem.ns, PassKey(p), "interrupt", "skipped"), ran)
      BY <2>1, <2>2, <2>3, UpsertSound
    <3>3. QED
      BY <2>3, <3>1, <3>2 DEF Node
  <2>5. r.mem \in Node /\ SoundJobs(r.jobs, ran) /\ Sound(r.mem.ns, ran)
    <3>1. CASE RunInterrupt(p)
      BY <2>1, <2>2, <3>1, InterruptEffectType, InterruptEffectSound
    <3>2. CASE ~RunInterrupt(p)
      BY <2>4, <3>2 DEF SafeInv
    <3>3. QED
      BY <3>1, <3>2
  <2>6. jobs' = r.jobs /\ Advance(p, r.mem)
    BY <1>5 DEF RunInterruptStage
  <2> HIDE DEF r
  <2>7. PassSafe
    BY <2>5, <2>6, AdvanceSound DEF PassSafe
  <2>8. QED
    BY <1>5, <2>7, PassSafePreserves DEF RunInterruptStage
<1>6. CASE RunNextStage(p)
  BY <1>6, ApplyPackageSound, PassSafePreserves DEF RunNextStage
<1>7. QED
  BY <1>1, <1>2, <1>3, <1>4, <1>5, <1>6 DEF RunPackage

LEMMA SuspendSound ==
  ASSUME TypeInv, SafeInv, NEW suspend \in BOOLEAN
  PROVE  SoundJobs(SetSuspend(jobs, suspend), ran)
<1>1. \A j \in JobName : /\ SetSuspend(jobs, suspend)[j].phase = jobs[j].phase
                        /\ SetSuspend(jobs, suspend)[j].of = jobs[j].of
  BY DEF SetSuspend, TypeInv, JobsOK, Job
<1>2. QED
  BY <1>1, MarkedJobsSound

LEMMA ResumedSound ==
  ASSUME TypeInv, SafeInv
  PROVE  SoundJobs(Resumed, ran)
BY SuspendSound DEF Resumed, SafeInv

LEMMA HeavyPassSafe == TypeInv /\ SafeInv /\ HeavyPass => SafeInv'
<1> SUFFICES ASSUME TypeInv, SafeInv, HeavyPass PROVE SafeInv'
  OBVIOUS
<1>0. /\ JobsOK(jobs) /\ pass \in Passes /\ spec \in Specs /\ node \in Node /\ cache \in Node
      /\ cache.ns \in NodeStates /\ node.ns \in NodeStates
      /\ Sound(cache.ns, ran) /\ NotUninstalled(spec)
  BY DEF TypeInv, TypeOK, Passes, Node, SafeInv
<1>1. CASE ValidateRunningPackages
  <2>1. \A j \in JobName : jobs'[j].phase = jobs[j].phase /\ jobs'[j].of = jobs[j].of
    <3>1. ASSUME NEW j \in JobName
          PROVE  jobs'[j].phase = jobs[j].phase /\ jobs'[j].of = jobs[j].of
      <4>1. jobs'[j] \in {jobs[j], [jobs[j] EXCEPT !.inv = TRUE], [jobs[j] EXCEPT !.del = TRUE]}
        BY <1>1 DEF ValidateRunningPackages
      <4>2. jobs[j] \in Job
        BY <1>0 DEF JobsOK
      <4>3. QED
        BY <4>1, <4>2 DEF Job
    <3>2. QED
      BY <3>1
  <2>2. SoundJobs(jobs', ran)
    BY <2>1, MarkedJobsSound
  <2>3. QED
    BY <1>1, <2>2, PassSafePreserves DEF ValidateRunningPackages, PassSafe, SafeInv, passOnly
<1>2. CASE SuspendUnfinishedJobs
  BY <1>2, SuspendSound, PassSafePreserves DEF SuspendUnfinishedJobs, PassSafe, SafeInv, passOnly
<1>3. CASE IntrospectSkyhook
  <2>1. IntrospectNode(cache, spec) \in Node /\ IntrospectNode(cache, spec).ns = cache.ns
    BY <1>0, IntrospectNodeType
  <2>2. /\ pass'.spec = spec /\ pass'.before = cache /\ pass'.mem = IntrospectNode(cache, spec)
        /\ pass'.un = {} /\ pass'.rest = {}
    BY <1>3 DEF IntrospectSkyhook, IdlePass
  <2>3. SoundPass(pass', ran)
    BY <1>0, <2>1, <2>2 DEF SoundPass
  <2>4. QED
    BY <1>3, <2>3, ResumedSound, PassSafePreserves DEF IntrospectSkyhook, PassSafe, passOnly
<1>4. CASE RunSkyhookPackages
  <2> DEFINE ns == PlannedState(cache.ns, spec)
             mem == IntrospectNode([cache EXCEPT !.ns = ns], spec)
             un == {p \in UninstallList(HandleVersionChange(cache.ns, spec), spec) :
                      Present(ns, SpecKey(spec, p))}
             rest == Runnable(ns, spec)
             new == [pc |-> IF un \cup rest = {} THEN "save" ELSE "run",
                     spec |-> spec, before |-> cache, mem |-> mem, un |-> un, rest |-> rest,
                     pack |-> FudgeInterruptWithPriority(un \cup rest)]
  <2>1. jobs' = Resumed /\ (pass' = new \/ pass' = pass) /\ UNCHANGED passOnly
    BY <1>4 DEF RunSkyhookPackages, passOnly
  <2>2. ns \in NodeStates /\ Sound(ns, ran)
    BY <1>0, PlannedStateType, PlannedSound
  <2>3. mem.ns = ns
    <3>1. [cache EXCEPT !.ns = ns] \in Node /\ [cache EXCEPT !.ns = ns].ns = ns
      BY <1>0, <2>2 DEF Node
    <3>2. QED
      BY <3>1, IntrospectNodeType
  <2>4. ASSUME NEW p \in KeptPkgs
        PROVE  p \notin un /\ (p \in rest => DependenciesRan(p, ran))
    <3>1. /\ HandleVersionChange(cache.ns, spec) \in NodeStates
          /\ Sound(HandleVersionChange(cache.ns, spec), ran)
      BY <1>0, HandleVersionChangeType, VersionChangeSound
    <3>2. p \notin un
      BY <1>0, <3>1, NoUninstallNeeded DEF UninstallList
    <3>3. QED
      BY <1>0, <2>2, <3>2, RunnableSound
  <2> HIDE DEF un, rest, mem, ns
  <2>5. SoundPass(new, ran)
    BY <1>0, <2>2, <2>3, <2>4 DEF SoundPass
  <2>6. SoundPass(pass', ran)
    BY <2>1, <2>5 DEF SafeInv
  <2>7. QED
    BY <2>1, <2>6, ResumedSound, PassSafePreserves DEF PassSafe
<1>5. CASE SaveNodesAndSkyhook
  <2>1. /\ pass.before.ns \in NodeStates /\ pass.mem.ns \in NodeStates
        /\ Sound(pass.mem.ns, ran) /\ Sound(node.ns, ran)
    BY <1>0 DEF Passes, Node, SafeInv, SoundPass
  <2>2. Sound(MergeDelta(pass.before.ns, pass.mem.ns, node.ns), ran)
    BY <1>0, <2>1, MergeSound
  <2>3. /\ node'.ns = MergeDelta(pass.before.ns, pass.mem.ns, node.ns)
        /\ cache' = node' \/ cache' = cache
        /\ pass' = IdlePass
    BY <1>5 DEF SaveNodesAndSkyhook, WriteNode
  <2>4. QED
    BY <1>0, <1>5, <2>2, <2>3, IdleSound DEF SaveNodesAndSkyhook, SafeInv
<1>6. ASSUME NEW p \in Pkgs, RunPackage(p)
      PROVE  SafeInv'
  BY <1>6, RunPackageSafe
<1>7. QED
  BY <1>1, <1>2, <1>3, <1>4, <1>5, <1>6 DEF HeavyPass

-----------------------------------------------------------------------------
(***************************************************************************)
(* The Job and Pod reconcilers.                                            *)
(***************************************************************************)

LEMMA WriteSafe ==
  ASSUME TypeInv, SafeInv, NEW ns \in NodeStates, Sound(ns, ran), WriteNode([node EXCEPT !.ns = ns])
  PROVE  Sound(node'.ns, ran) /\ Sound(cache'.ns, ran)
<1>1. [node EXCEPT !.ns = ns].ns = ns
  BY SharedTypes DEF Node
<1>2. QED
  BY <1>1 DEF WriteNode, SafeInv

\* Reporting a failure keeps the stage the entry is at.
LEMMA ErroringSafe ==
  ASSUME TypeInv, SafeInv, NEW k \in Key, NEW stage \in Stage, node.ns[k].stage = stage,
         RecordErroring(k, stage)
  PROVE  Sound(node'.ns, ran) /\ Sound(cache'.ns, ran)
<1>1. node.ns \in NodeStates /\ Sound(node.ns, ran) /\ "erroring" \in State
  BY SharedTypes DEF SafeInv, State
<1>2. k[1] \in KeptPkgs => MayBeAt(k, stage, ran)
  BY <1>1 DEF Sound, SoundEntry
<1>3. Upsert(node.ns, k, stage, "erroring") \in NodeStates /\ Sound(Upsert(node.ns, k, stage, "erroring"), ran)
  BY <1>1, <1>2, UpsertType, UpsertSound
<1>4. QED
  BY <1>3, WriteSafe DEF RecordErroring

LEMMA RecordCompleteSound ==
  ASSUME TypeInv, SafeInv, NEW j \in JobName, jobs[j].phase = "complete",
         NEW ns \in NodeStates, Sound(ns, ran)
  PROVE  Sound(RecordComplete(ns, j), ran)
<1>1. KeyOf(j) \in Key /\ j[3] \in Stage /\ "complete" \in State
  BY KeyOfType DEF State
<1>2. KeyOf(j)[1] \in KeptPkgs => MayBeAt(KeyOf(j), j[3], ran) /\ Ran(KeyOf(j), j[3], ran)
  BY DEF SafeInv, SoundJobs, KeyOf
<1>3. QED
  BY <1>1, <1>2, UpsertSound DEF RecordComplete

LEMMA RecordJobCompletionSound ==
  ASSUME TypeInv, SafeInv, NEW j \in JobName, jobs[j].phase = "complete",
         NEW new \in RecordJobCompletion(node.ns, j)
  PROVE  Sound(new, ran)
<1>0. /\ node.ns \in NodeStates /\ Sound(node.ns, ran) /\ KeyOf(j) \in Key /\ spec \in Specs
      /\ jobs[j].phase # "none"
  BY SharedTypes, KeyOfType DEF SafeInv
<1>1. CASE IsInterruptJob(j)
  <2>1. PICK n \in ProgressSkipped(node.ns, spec) : new = RecordComplete(n, j)
    BY <1>1 DEF RecordJobCompletion, IsInterruptJob, InterruptStages
  <2>2. \A p \in Pkgs : spec[p].ver \in Versions
    BY <1>0, SpecKeyType
  <2>3. n \in NodeStates /\ Sound(n, ran)
    BY <1>0, <2>1, <2>2, ProgressSkippedType, PromotionSound
  <2>4. QED
    BY <2>1, <2>3, RecordCompleteSound
<1>2. CASE ~IsInterruptJob(j) /\ j[3] = "upgrade"
  <2> DEFINE kept == [k \in Key |-> IF k \in Superseded(node.ns, j) THEN NoEntry ELSE node.ns[k]]
  <2>1. kept \in NodeStates
    BY <1>0 DEF NodeStates
  <2>2. Sound(kept, ran)
    BY <1>0, NoEntrySound DEF Sound
  <2>3. new = RecordComplete(kept, j)
    BY <1>2 DEF RecordJobCompletion
  <2> HIDE DEF kept
  <2>4. QED
    BY <2>1, <2>2, <2>3, RecordCompleteSound
<1>3. CASE ~IsInterruptJob(j) /\ j[3] = "uninstall"
  <2>1. KeyOf(j)[1] \notin KeptPkgs
    BY <1>0, <1>3 DEF SafeInv, SoundJobs, MayBeAt, KeyOf
  <2>2. \/ new = Upsert(node.ns, KeyOf(j), "uninstall-interrupt", "in_progress")
        \/ new = RemoveState(node.ns, KeyOf(j))
    BY <1>3 DEF RecordJobCompletion
  <2>3. "uninstall-interrupt" \in Stage /\ "in_progress" \in State
    BY DEF Stage, State
  <2>4. QED
    BY <1>0, <2>1, <2>2, <2>3, UpsertSound, RemoveSound
<1>4. CASE ~IsInterruptJob(j) /\ j[3] \notin {"upgrade", "uninstall"}
  BY <1>0, <1>4, RecordCompleteSound DEF RecordJobCompletion
<1>5. QED
  BY <1>1, <1>2, <1>3, <1>4

LEMMA ReconcilersSafe == TypeInv /\ SafeInv /\ Reconcilers => SafeInv'
<1> SUFFICES ASSUME TypeInv, SafeInv, Reconcilers PROVE SafeInv'
  OBVIOUS
<1>1. CASE MarkJobProcessed
  <2>1. \A j \in JobName : jobs'[j].phase = jobs[j].phase /\ jobs'[j].of = jobs[j].of
    BY <1>1, SharedTypes DEF MarkJobProcessed, JobsOK, Job
  <2>2. QED
    BY <1>1, <2>1, MarkedJobsSound DEF MarkJobProcessed, SafeInv
<1>2. ASSUME NEW j \in JobName, JobReconcileFinished(j)
      PROVE  SafeInv'
  <2>1. Sound(node'.ns, ran) /\ Sound(cache'.ns, ran)
    <3>1. CASE HandleCompleteJob(j)
      <4>1. CASE UNCHANGED <<node, cache>>
        BY <4>1 DEF SafeInv
      <4>2. CASE \E ns \in RecordJobCompletion(node.ns, j) : WriteNode([node EXCEPT !.ns = ns])
        <5>1. jobs[j].phase = "complete"
          BY <3>1 DEF HandleCompleteJob
        <5>2. QED
          BY <4>2, <5>1, RecordJobCompletionType, RecordJobCompletionSound, WriteSafe
      <4>3. QED
        BY <3>1, <4>1, <4>2 DEF HandleCompleteJob
    <3>2. CASE HandleFailedJob(j)
      <4>1. KeyOf(j) \in Key /\ j[3] \in Stage
        BY <1>2, KeyOfType DEF JobReconcileFinished, Listed
      <4>2. \/ RecordErroring(KeyOf(j), j[3]) /\ node.ns[KeyOf(j)].stage = j[3]
            \/ UNCHANGED <<node, cache>>
        BY <3>2 DEF HandleFailedJob, ShouldRecordErroring
      <4>3. QED
        BY <4>1, <4>2, ErroringSafe DEF SafeInv
    <3>3. QED
      BY <1>2, <3>1, <3>2 DEF JobReconcileFinished
  <2>2. QED
    BY <1>2, <2>1 DEF JobReconcileFinished, SafeInv
<1>3. ASSUME NEW j \in JobName, JobReconcileInvalid(j)
      PROVE  SafeInv'
  <2>1. \A i \in JobName : jobs'[i].phase = jobs[i].phase /\ jobs'[i].of = jobs[i].of
    BY <1>3, SharedTypes DEF JobReconcileInvalid, JobsOK, Job
  <2>2. QED
    BY <1>3, <2>1, MarkedJobsSound DEF JobReconcileInvalid, SafeInv
<1>4. ASSUME NEW j \in JobName, JobReconcileActive(j)
      PROVE  SafeInv'
  <2>1. KeyOf(j) \in Key /\ j[3] \in Stage /\ node.ns[KeyOf(j)].stage = j[3]
    BY <1>4, KeyOfType DEF JobReconcileActive, Listed, ShouldRecordErroring
  <2>2. Sound(node'.ns, ran) /\ Sound(cache'.ns, ran)
    BY <1>4, <2>1, ErroringSafe DEF JobReconcileActive
  <2>3. QED
    BY <1>4, <2>2 DEF JobReconcileActive, SafeInv
<1>5. ASSUME NEW j \in JobName, NEW k \in Key, PodReconcile(j, k)
      PROVE  SafeInv'
  <2>1. j[3] \in Stage
    BY JobNameParts
  <2>2. \/ RecordErroring(k, j[3]) /\ node.ns[k].stage = j[3]
        \/ UNCHANGED <<node, cache>>
    BY <1>5 DEF PodReconcile, EntryOpenAtStage
  <2>3. Sound(node'.ns, ran) /\ Sound(cache'.ns, ran)
    BY <2>1, <2>2, ErroringSafe DEF SafeInv
  <2>4. QED
    BY <1>5, <2>3 DEF PodReconcile, SafeInv
<1>6. QED
  BY <1>1, <1>2, <1>3, <1>4, <1>5 DEF Reconcilers

-----------------------------------------------------------------------------
(***************************************************************************)
(* The environment.                                                        *)
(***************************************************************************)

\* What has run for a kept package stays so.
Grows(r, new) == \A x \in r : x[1] \in KeptPkgs => x \in new

LEMMA RanGrows ==
  ASSUME NEW r, NEW new, Grows(r, new)
  PROVE  /\ \A k \in Key : \A stage : k[1] \in KeptPkgs /\ Ran(k, stage, r) => Ran(k, stage, new)
         /\ \A p \in KeptPkgs : ConfiguredOnce(p, r) => ConfiguredOnce(p, new)
BY DEF Grows, Ran, ConfiguredOnce, Key

LEMMA MayBeAtGrows ==
  ASSUME NEW r, NEW new, Grows(r, new), NEW k \in Key, k[1] \in KeptPkgs, NEW stage,
         MayBeAt(k, stage, r)
  PROVE  MayBeAt(k, stage, new)
BY RanGrows DEF MayBeAt

LEMMA SoundGrows ==
  ASSUME NEW r, NEW new, Grows(r, new), NEW ns, Sound(ns, r)
  PROVE  Sound(ns, new)
<1>1. ASSUME NEW k \in Key, k[1] \in KeptPkgs
      PROVE  SoundEntry(ns[k], k, new)
  <2>1. SoundEntry(ns[k], k, r)
    BY <1>1 DEF Sound
  <2>2. MayBeAt(k, ns[k].stage, new)
    BY <1>1, <2>1, MayBeAtGrows DEF SoundEntry
  <2>3. Ran(k, ns[k].stage, r) => Ran(k, ns[k].stage, new)
    BY <1>1, RanGrows
  <2>4. QED
    BY <2>1, <2>2, <2>3 DEF SoundEntry
<1>2. QED
  BY <1>1 DEF Sound

LEMMA DependenciesGrow ==
  ASSUME NEW r, NEW new, Grows(r, new), NEW p, DependenciesRan(p, r)
  PROVE  DependenciesRan(p, new)
BY RanGrows DEF DependenciesRan

LEMMA JobSucceedsSafe ==
  ASSUME TypeInv, SafeInv, NEW j \in JobName, JobSucceeds(j)
  PROVE  SafeInv'
<1>0. /\ jobs[j].phase = "active" /\ JobsOK(jobs) /\ ran' = RanAfter(j)
      /\ jobs' = [jobs EXCEPT ![j].phase = "complete"]
  BY SharedTypes DEF JobSucceeds, CanFinish
<1>1. KeyOf(j)[1] \in KeptPkgs => MayBeAt(KeyOf(j), j[3], ran)
  BY <1>0 DEF SafeInv, SoundJobs, KeyOf
<1>2. Grows(ran, ran')
  BY <1>0, <1>1 DEF Grows, RanAfter, MayBeAt
<1>3. KeyOf(j)[1] \in KeptPkgs => Ran(KeyOf(j), j[3], ran')
  BY <1>0, <1>1 DEF RanAfter, MayBeAt, Executor, Ran
<1>4. SoundJobs(jobs', ran')
  <2>1. ASSUME NEW i \in JobName, jobs'[i].phase # "none", jobs'[i].of[1] \in KeptPkgs
        PROVE  /\ MayBeAt(jobs'[i].of, i[3], ran')
               /\ jobs'[i].phase = "complete" => Ran(jobs'[i].of, i[3], ran')
               /\ DependenciesRan(jobs'[i].of[1], ran')
    <3>1. /\ jobs'[i].of = jobs[i].of /\ jobs[i].phase # "none"
          /\ i # j => jobs'[i].phase = jobs[i].phase
      BY <1>0, <2>1 DEF JobsOK, Job
    <3>2. jobs[i].of \in Key
      BY <1>0, <3>1 DEF JobsOK
    <3>3. /\ MayBeAt(jobs[i].of, i[3], ran) /\ DependenciesRan(jobs[i].of[1], ran)
          /\ jobs[i].phase = "complete" => Ran(jobs[i].of, i[3], ran)
      BY <2>1, <3>1 DEF SafeInv, SoundJobs
    <3>4. MayBeAt(jobs[i].of, i[3], ran') /\ DependenciesRan(jobs[i].of[1], ran')
      BY <1>2, <2>1, <3>1, <3>2, <3>3, MayBeAtGrows, DependenciesGrow
    <3>5. jobs[i].phase = "complete" => Ran(jobs[i].of, i[3], ran')
      BY <1>2, <2>1, <3>1, <3>2, <3>3, RanGrows
    <3>6. QED
      BY <1>3, <2>1, <3>1, <3>4, <3>5 DEF KeyOf
  <2>2. QED
    BY <2>1 DEF SoundJobs
<1>5. SoundPass(pass, ran')
  BY <1>2, SoundGrows, DependenciesGrow DEF SafeInv, SoundPass
<1>6. Sound(node.ns, ran') /\ Sound(cache.ns, ran')
  BY <1>2, SoundGrows DEF SafeInv
<1>7. QED
  BY <1>4, <1>5, <1>6 DEF JobSucceeds, SafeInv

LEMMA UpdateSafe ==
  ASSUME TypeInv, SafeInv, NEW p \in Pkgs, NEW pkg \in SpecPkg, Update(p, pkg),
         p \in KeptPkgs => ~pkg.uninst
  PROVE  NotUninstalled(spec')
<1>1. ASSUME NEW q \in KeptPkgs
      PROVE  ~spec'[q].uninst
  <2> DEFINE old == IF q = p THEN pkg ELSE spec[q]
  <2>1. q \in Pkgs
    BY DEF KeptPkgs
  <2>2. old \in SpecPkg /\ ~old.uninst
    BY <2>1, SharedTypes DEF Specs, SafeInv, NotUninstalled
  <2>3. spec'[q] = [old EXCEPT !.gen = old.gen + 1]
    BY <2>1 DEF Update
  <2> HIDE DEF old
  <2>4. QED
    BY <2>2, <2>3 DEF SpecPkg
<1>2. QED
  BY <1>1 DEF NotUninstalled

LEMMA EnvironmentSafe == TypeInv /\ SafeInv /\ Environment => SafeInv'
<1> SUFFICES ASSUME TypeInv, SafeInv, Environment PROVE SafeInv'
  OBVIOUS
<1>0. spec \in Specs /\ JobsOK(jobs) /\ \A q \in Pkgs : spec[q] \in SpecPkg
  BY SharedTypes DEF Specs
<1>1. CASE CacheSync
  BY <1>1 DEF CacheSync, SafeInv
<1>2. CASE PlaceWorkload
  BY <1>2 DEF PlaceWorkload, SafeInv
<1>3. CASE WorkloadLeaves
  BY <1>3 DEF WorkloadLeaves, SafeInv
<1>4. CASE EditMode
  BY <1>4 DEF EditMode, Edit, SafeInv
<1>5. CASE OperatorCrash
  BY <1>5, IdleSound DEF OperatorCrash, SafeInv
<1>6. ASSUME NEW j \in JobName, JobSucceeds(j)
      PROVE  SafeInv'
  BY <1>6, JobSucceedsSafe
<1>7. ASSUME NEW j \in JobName, AttemptFails(j)
      PROVE  SafeInv'
  BY <1>7 DEF AttemptFails, SafeInv
<1>8. ASSUME NEW j \in JobName, JobFails(j) \/ JobFailureEnds(j)
      PROVE  SafeInv'
  <2>1. PICK phase \in {"failing", "failed", "lost"} : jobs' = [jobs EXCEPT ![j].phase = phase]
    BY <1>8 DEF JobFails, JobFailureEnds
  <2>2. jobs[j].phase # "none" /\ UNCHANGED <<spec, node, cache, pass, ran>>
    BY <1>8 DEF JobFails, JobFailureEnds, CanFinish
  <2>3. \A i \in JobName :
          /\ jobs'[i].of = jobs[i].of
          /\ jobs'[i].phase # "none" => jobs[i].phase # "none"
          /\ jobs'[i].phase = "complete" => jobs[i].phase = "complete"
    BY <1>0, <2>1, <2>2 DEF JobsOK, Job
  <2>4. SoundJobs(jobs', ran)
    BY <2>3 DEF SafeInv, SoundJobs
  <2>5. QED
    BY <2>2, <2>4 DEF SafeInv
<1>9. ASSUME NEW j \in JobName, JobGone(j)
      PROVE  SafeInv'
  <2>1. \A i \in JobName : jobs'[i] = jobs[i] \/ jobs'[i].phase = "none"
    BY <1>0, <1>9, NoJobType DEF JobGone, JobsOK
  <2>2. SoundJobs(jobs', ran)
    BY <2>1 DEF SafeInv, SoundJobs
  <2>3. QED
    BY <1>9, <2>2 DEF JobGone, SafeInv
<1>10. ASSUME NEW j \in JobName, JobSeen(j)
       PROVE  SafeInv'
  <2>1. \A i \in JobName : jobs'[i].phase = jobs[i].phase /\ jobs'[i].of = jobs[i].of
    BY <1>0, <1>10 DEF JobSeen, JobsOK, Job
  <2>2. QED
    BY <1>10, <2>1, MarkedJobsSound DEF JobSeen, SafeInv
<1>11. ASSUME NEW p \in Pkgs, EditVersion(p) \/ EditOther(p) \/ EditUninstall(p)
       PROVE  SafeInv'
  <2>1. UNCHANGED <<node, cache, jobs, pass, ran>>
    BY <1>11 DEF EditVersion, EditOther, EditUninstall, Edit
  <2>2. p \in KeptPkgs => ~spec[p].uninst
    BY DEF SafeInv, NotUninstalled
  <2>3. NotUninstalled(spec')
    <3>1. CASE EditVersion(p)
      <4>1. PICK v \in Versions : Update(p, [spec[p] EXCEPT !.ver = v])
        BY <3>1 DEF EditVersion
      <4>2. /\ [spec[p] EXCEPT !.ver = v] \in SpecPkg
            /\ [spec[p] EXCEPT !.ver = v].uninst = spec[p].uninst
        BY <1>0 DEF SpecPkg
      <4>3. QED
        BY <2>2, <4>1, <4>2, UpdateSafe
    <3>2. CASE EditOther(p)
      BY <1>0, <2>2, <3>2, UpdateSafe DEF EditOther
    <3>3. CASE EditUninstall(p)
      <4> DEFINE pkg == [spec[p] EXCEPT !.uninst = ~@]
      <4>1. pkg \in SpecPkg
        BY <1>0 DEF SpecPkg
      <4>2. Update(p, pkg) /\ p \notin KeptPkgs
        BY <3>3 DEF EditUninstall, KeptPkgs
      <4>3. QED
        BY <4>1, <4>2, UpdateSafe
    <3>4. QED
      BY <1>11, <3>1, <3>2, <3>3
  <2>4. QED
    BY <2>1, <2>3 DEF SafeInv
<1>12. QED
  BY <1>1, <1>2, <1>3, <1>4, <1>5, <1>6, <1>7, <1>8, <1>9, <1>10, <1>11 DEF Environment

-----------------------------------------------------------------------------
LEMMA NextSafe == TypeInv /\ SafeInv /\ [Next]_vars => SafeInv'
<1> SUFFICES ASSUME TypeInv, SafeInv, [Next]_vars PROVE SafeInv'
  OBVIOUS
<1>1. CASE Next
  BY <1>1, HeavyPassSafe, ReconcilersSafe, EnvironmentSafe DEF Next
<1>2. CASE UNCHANGED vars
  BY <1>2 DEF vars, SafeInv
<1>3. QED
  BY <1>1, <1>2

\* Whatever the interleaving, no copy of a kept package's entry claims more than
\* has happened on the host.
THEOREM Safety == Spec => []SafeInv
<1>1. QED
  BY InitSafe, NextSafe, TypeInvariant, PTL DEF Spec

\* Without uninstalls, node state never claims work that was not done: every stage
\* recorded as complete has an executor that succeeded (recordJobCompletion against
\* saveNodesAndSkyhook, crashes, lagging caches and retries).
THEOREM RecordedWorkWasDone ==
  UninstallEnabled = {} => (Spec => []RecordedImpliesRan)
<1> SUFFICES ASSUME UninstallEnabled = {} PROVE Spec => []RecordedImpliesRan
  OBVIOUS
<1>1. TypeInv /\ SafeInv => RecordedImpliesRan
  <2> SUFFICES ASSUME TypeInv, SafeInv PROVE RecordedImpliesRan
    OBVIOUS
  <2>1. ASSUME NEW k \in Key, node.ns[k].state = "complete", ~IsInterruptStage(node.ns[k])
        PROVE  <<k[1], k[2], node.ns[k].stage>> \in ran
    <3>1. k[1] \in KeptPkgs
      BY DEF KeptPkgs, Key
    <3>2. SoundEntry(node.ns[k], k, ran)
      BY <3>1 DEF SafeInv, Sound
    <3>3. QED
      BY <2>1, <3>2 DEF SoundEntry, Ran, IsInterruptStage, InterruptStages
  <2>2. QED
    BY <2>1 DEF RecordedImpliesRan
<1>2. QED
  BY <1>1, Safety, TypeInvariant, PTL

\* Without uninstalls, an executor runs only once each dependency of its package has
\* been configured (RunNext on the pass's possibly old copy of the node state).
THEOREM DependenciesBeforeDependents ==
  UninstallEnabled = {} => (Spec => []DependenciesFirst)
<1> SUFFICES ASSUME UninstallEnabled = {} PROVE Spec => []DependenciesFirst
  OBVIOUS
<1>1. TypeInv /\ SafeInv => DependenciesFirst
  <2> SUFFICES ASSUME TypeInv, SafeInv, NEW j \in JobName, Running(j),
                      NEW d \in DependsOn[KeyOf(j)[1]]
               PROVE  \E v \in Versions : Configured(<<d, v>>)
    BY DEF DependenciesFirst
  <2>1. jobs[j].phase # "none"
    BY DEF Running, JobUnfinished
  <2>2. KeyOf(j)[1] \in KeptPkgs /\ KeyOf(j)[1] \in Pkgs
    BY <2>1, KeyOfType DEF KeptPkgs
  <2>3. d \in KeptPkgs
    BY <2>2, DependsOnAssumption DEF KeptPkgs
  <2>4. DependenciesRan(KeyOf(j)[1], ran)
    BY <2>1, <2>2 DEF SafeInv, SoundJobs, KeyOf
  <2>5. QED
    BY <2>3, <2>4 DEF DependenciesRan, ConfiguredOnce, Configured
<1>2. QED
  BY <1>1, Safety, TypeInvariant, PTL

\* The half of StagesInOrder that no version edit disturbs, for the packages that
\* cannot be uninstalled, whatever is done to others beside them.
InstalledFirst ==
  \A j \in JobName :
    Running(j) /\ j[3] = "config" /\ KeyOf(j)[1] \in KeptPkgs => Installed(KeyOf(j))

\* However a spec moves between versions, a kept package's configuration of a version
\* runs only after an apply or an upgrade of that version succeeded (NextStage, and
\* the starting stages of ApplyPackage).
THEOREM InstallBeforeConfig == Spec => []InstalledFirst
<1>1. SafeInv => InstalledFirst
  BY DEF SafeInv, SoundJobs, MayBeAt, Ran, Installed, InstalledFirst, Running, JobUnfinished, KeyOf
<1>2. QED
  BY <1>1, Safety, PTL

\* Without uninstalls and with packages at one version, the stages of a package run
\* in their order on the host.  With several versions the promotion of a skipped
\* entry to another version's key (ProgressSkipped) breaks the second half.
THEOREM StagesOrdered ==
  UninstallEnabled = {} /\ MaxVersion = 1 => (Spec => []StagesInOrder)
<1> SUFFICES ASSUME UninstallEnabled = {}, MaxVersion = 1 PROVE Spec => []StagesInOrder
  OBVIOUS
<1>1. TypeInv /\ SafeInv => StagesInOrder
  <2> SUFFICES ASSUME TypeInv, SafeInv, NEW j \in JobName, Running(j)
               PROVE  /\ j[3] = "config" => Installed(KeyOf(j))
                      /\ j[3] \in {"interrupt", "post-interrupt"} => Configured(KeyOf(j))
    BY DEF StagesInOrder
  <2>1. jobs[j].phase # "none"
    BY DEF Running, JobUnfinished
  <2>2. KeyOf(j)[1] \in KeptPkgs /\ KeyOf(j)[2] \in Versions
    BY <2>1, KeyOfType DEF KeptPkgs
  <2>3. MayBeAt(KeyOf(j), j[3], ran)
    BY <2>1, <2>2 DEF SafeInv, SoundJobs, KeyOf
  <2>4. \A v \in Versions : v = KeyOf(j)[2]
    BY <2>2 DEF Versions
  <2>5. QED
    BY <2>3, <2>4 DEF MayBeAt, Ran, ConfiguredOnce, Installed, Configured
<1>2. QED
  BY <1>1, Safety, TypeInvariant, PTL

-----------------------------------------------------------------------------
(***************************************************************************)
(* One executor of a package at a time.  When the cache holds every Job,   *)
(* the existence gate of ApplyPackage and the wait of ProcessInterrupt see *)
(* all of them; nothing else starts work.                                  *)
(***************************************************************************)
Unfinished(js, j) == js[j].phase \in {"active", "failing"}

AllSeen(js) == \A j \in JobName : js[j].phase # "none" => js[j].seen

\* On top of OneExecutor: a Job that is being deleted still counts.
Alone(js) ==
  \A i, j \in JobName : Unfinished(js, i) /\ Unfinished(js, j) /\ js[i].of = js[j].of => i = j

SoloInv == AllSeen(jobs) /\ Alone(jobs)

\* A Job goes on, comes to an end or goes; none is started.
Continues(f, e) ==
  /\ f.phase # "none" => e.phase # "none" /\ f.of = e.of /\ (f.seen = e.seen \/ f.seen = TRUE)
  /\ f.phase \in {"active", "failing"} =>
       e.phase \in {"active", "failing"} /\ (f.del = e.del \/ f.del = TRUE)
  /\ e.phase \notin {"active", "failing"} => f.phase \in {"none", e.phase}

NoNewWork(js) == \A j \in JobName : Continues(js[j], jobs[j])

\* The one way to start work: an unused name, with what JobExists and
\* HasRunningPackages have let through.
Starts(js, k, j) ==
  /\ j \in JobName /\ jobs[j].phase = "none"
  /\ \E pkg \in SpecPkg : js = [jobs EXCEPT ![j] = NewJob(k, pkg)]

LEMMA NewJobFields ==
  ASSUME NEW k, NEW pkg
  PROVE  /\ NewJob(k, pkg).of = k /\ NewJob(k, pkg).phase = "active"
         /\ NewJob(k, pkg).seen = ~JobLag /\ NewJob(k, pkg).del = FALSE
BY DEF NewJob, NoJob

LEMMA MarksContinue ==
  ASSUME NEW e \in Job
  PROVE  /\ Continues(e, e) /\ Continues(NoJob, e)
         /\ Continues([e EXCEPT !.del = TRUE], e) /\ Continues([e EXCEPT !.inv = TRUE], e)
         /\ Continues([e EXCEPT !.proc = TRUE], e) /\ Continues([e EXCEPT !.seen = TRUE], e)
         /\ Continues([e EXCEPT !.susp = TRUE], e) /\ Continues([e EXCEPT !.susp = FALSE], e)
         /\ e.phase \in {"active", "failing"} =>
              \A phase \in {"complete", "failing", "failed", "lost"} :
                Continues([e EXCEPT !.phase = phase], e)
<1>1. Continues(e, e) /\ Continues(NoJob, e)
  BY NoJobType DEF Continues
<1>2. Continues([e EXCEPT !.del = TRUE], e)
  BY DEF Continues, Job
<1>3. Continues([e EXCEPT !.inv = TRUE], e) /\ Continues([e EXCEPT !.proc = TRUE], e)
  BY DEF Continues, Job
<1>4. Continues([e EXCEPT !.seen = TRUE], e)
  BY DEF Continues, Job
<1>5. Continues([e EXCEPT !.susp = TRUE], e) /\ Continues([e EXCEPT !.susp = FALSE], e)
  BY DEF Continues, Job
<1>6. ASSUME e.phase \in {"active", "failing"}, NEW phase \in {"complete", "failing", "failed", "lost"}
      PROVE  Continues([e EXCEPT !.phase = phase], e)
  BY <1>6 DEF Continues, Job
<1>7. QED
  BY <1>1, <1>2, <1>3, <1>4, <1>5, <1>6

LEMMA CreateStarts ==
  ASSUME TypeInv, NEW p \in Pkgs, Reached(p), NEW stage \in Stage,
         stage \in InterruptStages => HasInterrupt[p]
  PROVE  LET j == NameOf(PassKey(p), stage, IF pass.pack = "none" THEN "none" ELSE Interrupt[pass.pack])
         IN  /\ j \in JobName /\ j[3] = stage
             /\ stage \in InterruptStages => pass.pack \in Pkgs /\ HasInterrupt[pass.pack] /\ j[1] = Interrupt[pass.pack]
             /\ \/ /\ NoNewWork(Create(p, stage).jobs)
                   /\ Create(p, stage).mem = pass.mem
                \/ /\ Starts(Create(p, stage).jobs, PassKey(p), j)
                   /\ Create(p, stage).mem = [pass.mem EXCEPT !.ns = Upsert(@, PassKey(p), stage, "in_progress")]
<1> DEFINE k == PassKey(p)
           type == IF pass.pack = "none" THEN "none" ELSE Interrupt[pass.pack]
           j == NameOf(k, stage, type)
           r == Create(p, stage)
<1>1. /\ JobsOK(jobs) /\ k \in Key /\ pass.spec[p] \in SpecPkg
  BY PassTypes
<1>2. stage \in InterruptStages => pass.pack \in Pkgs /\ HasInterrupt[pass.pack] /\ type = Interrupt[pass.pack]
  <2>1. stage \in InterruptStages => pass.pack \in Pkgs /\ HasInterrupt[pass.pack]
    BY DEF TypeInv, InterruptSettled, Reached
  <2>2. QED
    BY <2>1, NoPackageIsNone
<1>3. j \in JobName /\ j[3] = stage /\ (stage \in InterruptStages => j[1] = type)
  <2>1. stage \in InterruptStages => \E o \in Pkgs : HasInterrupt[o] /\ type = Interrupt[o]
    BY <1>2
  <2>2. j \in JobName /\ j[3] = stage
    BY <1>1, <2>1, NameOfType
  <2>3. QED
    BY <2>2 DEF NameOf
<1>4. CASE jobs[j].phase = "none"
  <2>1. r = [jobs |-> [jobs EXCEPT ![j] = NewJob(k, pass.spec[p])],
             mem |-> [pass.mem EXCEPT !.ns = Upsert(@, k, stage, "in_progress")]]
    BY <1>4 DEF Create
  <2> HIDE DEF r, j, k
  <2>2. r.jobs = [jobs EXCEPT ![j] = NewJob(k, pass.spec[p])]
    BY <2>1
  <2>3. r.mem = [pass.mem EXCEPT !.ns = Upsert(@, k, stage, "in_progress")]
    BY <2>1
  <2>4. Starts(r.jobs, k, j)
    BY <1>1, <1>3, <1>4, <2>2 DEF Starts
  <2>5. QED
    BY <1>2, <1>3, <2>3, <2>4 DEF r, j, k
<1>5. CASE jobs[j].phase # "none"
  <2>1. /\ r.jobs = HandleExistingJob(pass.mem.ns, pass.spec, k, j)
        /\ r.mem = pass.mem
    BY <1>5 DEF Create
  <2> HIDE DEF r, j, k
  <2>2. r.jobs = jobs \/ r.jobs = [jobs EXCEPT ![j].del = TRUE]
    BY <2>1 DEF HandleExistingJob
  <2>3. ASSUME NEW i \in JobName
        PROVE  jobs[i] \in Job /\ (r.jobs[i] = jobs[i] \/ r.jobs[i] = [jobs[i] EXCEPT !.del = TRUE])
    BY <1>1, <1>3, <2>2 DEF JobsOK
  <2>4. NoNewWork(r.jobs)
    BY <2>3, MarksContinue DEF NoNewWork
  <2>5. QED
    BY <1>2, <1>3, <2>1, <2>4 DEF r, j, k
<1>6. QED
  BY <1>4, <1>5

\* What is not a step of RunPackage starts nothing.
LEMMA OtherStepsStartNothing ==
  ASSUME TypeInv, Next, \A p \in Pkgs : ~RunPackage(p)
  PROVE  NoNewWork(jobs')
<1>0. JobsOK(jobs) /\ \A j \in JobName : jobs[j] \in Job
  BY SharedTypes DEF JobsOK
<1> DEFINE Same(j) == Continues(jobs'[j], jobs[j])
<1>1. UNCHANGED jobs => NoNewWork(jobs')
  BY <1>0, MarksContinue DEF NoNewWork
<1>2. ValidateRunningPackages => NoNewWork(jobs')
  <2>1. ASSUME ValidateRunningPackages, NEW j \in JobName PROVE Same(j)
    <3>1. jobs'[j] \in {jobs[j], [jobs[j] EXCEPT !.inv = TRUE], [jobs[j] EXCEPT !.del = TRUE]}
      BY <2>1 DEF ValidateRunningPackages
    <3>2. QED
      BY <1>0, <3>1, MarksContinue
  <2>2. QED
    BY <2>1 DEF NoNewWork
<1>3. ASSUME NEW suspend \in BOOLEAN, jobs' = SetSuspend(jobs, suspend)
      PROVE  NoNewWork(jobs')
  <2>1. ASSUME NEW j \in JobName PROVE Same(j)
    <3>1. jobs'[j] \in {jobs[j], [jobs[j] EXCEPT !.susp = suspend]}
      BY <1>3 DEF SetSuspend
    <3>2. QED
      BY <1>0, <3>1, MarksContinue
  <2>2. QED
    BY <2>1 DEF NoNewWork
<1>4. SuspendUnfinishedJobs \/ IntrospectSkyhook \/ RunSkyhookPackages \/ SaveNodesAndSkyhook
        => NoNewWork(jobs')
  BY <1>1, <1>3 DEF SuspendUnfinishedJobs, IntrospectSkyhook, RunSkyhookPackages, SaveNodesAndSkyhook, Resumed
<1>5. MarkJobProcessed => NoNewWork(jobs')
  <2>1. ASSUME MarkJobProcessed, NEW j \in JobName PROVE Same(j)
    <3>1. jobs' = jobs \/ jobs' = [jobs EXCEPT ![recon].proc = TRUE]
      BY <2>1 DEF MarkJobProcessed
    <3>2. jobs'[j] = jobs[j] \/ jobs'[j] = [jobs[j] EXCEPT !.proc = TRUE]
      BY <1>0, <3>1 DEF JobsOK
    <3>3. QED
      BY <1>0, <3>2, MarksContinue
  <2>2. QED
    BY <2>1 DEF NoNewWork
<1>6. ASSUME NEW i \in JobName, JobReconcileInvalid(i)
      PROVE  NoNewWork(jobs')
  <2>1. ASSUME NEW j \in JobName PROVE Same(j)
    <3>1. jobs'[j] = jobs[j] \/ jobs'[j] = [jobs[j] EXCEPT !.del = TRUE]
      BY <1>0, <1>6 DEF JobReconcileInvalid, JobsOK
    <3>2. QED
      BY <1>0, <3>1, MarksContinue
  <2>2. QED
    BY <2>1 DEF NoNewWork
<1>7. Reconcilers => NoNewWork(jobs')
  BY <1>1, <1>5, <1>6 DEF Reconcilers, JobReconcileFinished, JobReconcileActive, PodReconcile
<1>8. ASSUME NEW i \in JobName, JobSucceeds(i) \/ JobFails(i) \/ JobFailureEnds(i)
      PROVE  NoNewWork(jobs')
  <2>1. Unfinished(jobs, i) /\ \E phase \in {"complete", "failing", "failed", "lost"} : jobs' = [jobs EXCEPT ![i].phase = phase]
    BY <1>8 DEF JobSucceeds, JobFails, JobFailureEnds, CanFinish, Unfinished
  <2>2. PICK phase \in {"complete", "failing", "failed", "lost"} : jobs' = [jobs EXCEPT ![i].phase = phase]
    BY <2>1
  <2>3. ASSUME NEW j \in JobName
        PROVE  jobs'[j] = jobs[j] \/ (j = i /\ jobs'[j] = [jobs[j] EXCEPT !.phase = phase])
    BY <1>0, <2>2 DEF JobsOK
  <2>4. QED
    BY <1>0, <2>1, <2>3, MarksContinue, ZenonT(40) DEF NoNewWork, Unfinished
<1>9. ASSUME NEW i \in JobName, JobGone(i)
      PROVE  NoNewWork(jobs')
  <2>1. \A j \in JobName : jobs'[j] = jobs[j] \/ jobs'[j] = NoJob
    BY <1>0, <1>9 DEF JobGone, JobsOK
  <2>2. QED
    BY <1>0, <2>1, MarksContinue DEF NoNewWork
<1>10. ASSUME NEW i \in JobName, JobSeen(i)
       PROVE  NoNewWork(jobs')
  <2>1. ASSUME NEW j \in JobName PROVE Same(j)
    <3>1. jobs'[j] = jobs[j] \/ jobs'[j] = [jobs[j] EXCEPT !.seen = TRUE]
      BY <1>0, <1>10 DEF JobSeen, JobsOK
    <3>2. QED
      BY <1>0, <3>1, MarksContinue
  <2>2. QED
    BY <2>1 DEF NoNewWork
<1>11. Environment => NoNewWork(jobs')
  BY <1>1, <1>8, <1>9, <1>10 DEF Environment, CacheSync, PlaceWorkload, WorkloadLeaves, EditMode, Edit,
     OperatorCrash, AttemptFails, EditVersion, EditOther, EditUninstall
<1>12. QED
  BY <1>2, <1>4, <1>7, <1>11 DEF Next, HeavyPass

\* RunPackage starts at most one Job, under the package's key, and none beside
\* another one of that key that the cache holds.
LEMMA RunPackageStarts ==
  ASSUME TypeInv, NEW p \in Pkgs, RunPackage(p)
  PROVE  \/ NoNewWork(jobs')
         \/ /\ \E j : Starts(jobs', PassKey(p), j)
            /\ ~JobExists(PassKey(p))
<1>1. NoNewWork(jobs)
  <2>1. \A j \in JobName : jobs[j] \in Job
    BY SharedTypes DEF JobsOK
  <2>2. QED
    BY <2>1, MarksContinue DEF NoNewWork
<1>2. ASSUME NEW stage \in Stage, Reached(p), HasInterrupt[p], jobs' = InterruptEffect(p, stage).jobs
      PROVE  \/ NoNewWork(jobs')
             \/ (\E j : Starts(jobs', PassKey(p), j)) /\ ~HasRunningPackages
  BY <1>1, <1>2, CreateStarts DEF InterruptEffect, Nothing
<1>3. ASSUME Reached(p), PassNext(p) # "interrupt", ApplyPackage(p)
      PROVE  \/ NoNewWork(jobs')
             \/ (\E j : Starts(jobs', PassKey(p), j)) /\ ~JobExists(PassKey(p))
  <2>1. ApplyStage(p) \in (Stage \ InterruptStages) \cup {"uninstall-interrupt"}
    <3>1. PassNext(p) \in {"none", "config", "post-interrupt", "apply"}
      BY <1>3, PassTypes, NextStageType, HasInterruptType DEF PassNext, PassEntry
    <3>2. QED
      BY <3>1 DEF ApplyStage, Stage, InterruptStages
  <2>2. \/ jobs' = jobs
        \/ /\ ApplyStage(p) # "uninstall-interrupt" /\ ~JobExists(PassKey(p))
           /\ jobs' = Create(p, ApplyStage(p)).jobs
    BY <1>3 DEF ApplyPackage, Nothing
  <2>3. ASSUME ApplyStage(p) # "uninstall-interrupt"
        PROVE  ApplyStage(p) \in Stage /\ ApplyStage(p) \notin InterruptStages
    BY <2>1, <2>3
  <2>4. ASSUME NEW stage \in Stage, stage \notin InterruptStages
        PROVE  NoNewWork(Create(p, stage).jobs) \/ \E j : Starts(Create(p, stage).jobs, PassKey(p), j)
    BY <1>3, <2>4, CreateStarts
  <2>5. QED
    BY <1>1, <2>2, <2>3, <2>4
<1>4. ~HasRunningPackages => ~JobExists(PassKey(p))
  BY DEF HasRunningPackages, JobExists
<1>5. CASE RunPlainPackage(p)
  <2>1. PassNext(p) # "interrupt"
    BY <1>5, PassTypes, NextStageType, HasInterruptType DEF RunPlainPackage, PassNext, PassEntry
  <2>2. QED
    BY <1>3, <1>5, <2>1 DEF RunPlainPackage
<1>6. CASE RunSkippedPackage(p)
  BY <1>1, <1>6 DEF RunSkippedPackage
<1>7. CASE RunActiveInterrupt(p)
  <2>1. PassEntry(p).stage \in Stage /\ Reached(p) /\ HasInterrupt[p]
    BY <1>7 DEF RunActiveInterrupt, IsInterruptStage, InterruptStages, Stage
  <2>2. jobs' = InterruptEffect(p, PassEntry(p).stage).jobs
    BY <1>7 DEF RunActiveInterrupt, EnsureNodeIsReadyForInterrupt
  <2>3. QED
    BY <1>2, <1>4, <2>1, <2>2
<1>8. CASE RunDrainedPackage(p)
  BY <1>1, <1>3, <1>8 DEF RunDrainedPackage, EnsureNodeIsReadyForInterrupt, Nothing
<1>9. CASE RunInterruptStage(p)
  <2>1. "interrupt" \in Stage
    BY DEF Stage
  <2>2. jobs' = jobs \/ jobs' = InterruptEffect(p, "interrupt").jobs
    BY <1>9 DEF RunInterruptStage
  <2>3. QED
    BY <1>1, <1>2, <1>4, <1>9, <2>1, <2>2 DEF RunInterruptStage
<1>10. CASE RunNextStage(p)
  BY <1>3, <1>10 DEF RunNextStage
<1>11. QED
  BY <1>5, <1>6, <1>7, <1>8, <1>9, <1>10 DEF RunPackage

LEMMA NextSolo ==
  ASSUME JobLag = FALSE
  PROVE  TypeInv /\ SoloInv /\ [Next]_vars => SoloInv'
<1> SUFFICES ASSUME TypeInv, SoloInv, [Next]_vars PROVE SoloInv'
  OBVIOUS
<1>1. CASE UNCHANGED vars
  BY <1>1 DEF vars, SoloInv, AllSeen, Alone, Unfinished
<1>2. CASE NoNewWork(jobs')
  BY <1>2 DEF NoNewWork, Continues, SoloInv, AllSeen, Alone, Unfinished
<1>3. ASSUME NEW p \in Pkgs, NEW i, Starts(jobs', PassKey(p), i), ~JobExists(PassKey(p))
      PROVE  SoloInv'
  <2> DEFINE k == PassKey(p)
  <2>0. JobsOK(jobs)
    BY SharedTypes
  <2>1. PICK pkg \in SpecPkg : jobs' = [jobs EXCEPT ![i] = NewJob(k, pkg)]
    BY <1>3 DEF Starts
  <2>2. \A j \in JobName : jobs'[j] = IF j = i THEN NewJob(k, pkg) ELSE jobs[j]
    BY <2>0, <2>1 DEF JobsOK
  <2>3. \A j \in JobName : Unfinished(jobs, j) => jobs[j].of # k
    <3>1. ASSUME NEW j \in JobName, Unfinished(jobs, j) PROVE Listed(j) /\ JobUnfinished(j)
      BY <3>1 DEF SoloInv, AllSeen, Listed, JobUnfinished, Unfinished
    <3>2. QED
      BY <1>3, <3>1 DEF JobExists, KeyOf
  <2>new. NewJob(k, pkg).of = k /\ NewJob(k, pkg).phase = "active" /\ NewJob(k, pkg).seen = TRUE
    BY DEF NewJob, NoJob
  <2> HIDE DEF k
  <2>4. AllSeen(jobs')
    BY <2>2, <2>new DEF SoloInv, AllSeen
  <2>5. Alone(jobs')
    <3> SUFFICES ASSUME NEW x \in JobName, NEW y \in JobName, Unfinished(jobs', x), Unfinished(jobs', y),
                        jobs'[x].of = jobs'[y].of
                 PROVE  x = y
      BY DEF Alone
    <3>1. CASE x # i /\ y # i
      BY <2>2, <3>1 DEF SoloInv, Alone, Unfinished
    <3>2. CASE x = i /\ y # i
      BY <2>2, <2>3, <3>2, <2>new DEF Unfinished
    <3>3. CASE y = i /\ x # i
      BY <2>2, <2>3, <3>3, <2>new DEF Unfinished
    <3>4. QED
      BY <3>1, <3>2, <3>3
  <2>6. QED
    BY <2>4, <2>5 DEF SoloInv
<1>4. CASE Next
  BY <1>2, <1>3, <1>4, OtherStepsStartNothing, RunPackageStarts
<1>5. QED
  BY <1>1, <1>4

\* With a cache that holds every Job, no two executors of a package run side by side
\* (JobExists, HasRunningPackages and the deterministic names).
THEOREM ExecutorsAlone == JobLag = FALSE => (Spec => []OneExecutor)
<1> SUFFICES ASSUME JobLag = FALSE PROVE Spec => []OneExecutor
  OBVIOUS
<1>1. Init => SoloInv
  BY NoJobType DEF Init, SoloInv, AllSeen, Alone, Unfinished
<1>2. SoloInv => OneExecutor
  BY DEF SoloInv, Alone, Unfinished, OneExecutor, Running, JobUnfinished, KeyOf
<1>3. QED
  BY <1>1, <1>2, NextSolo, TypeInvariant, PTL DEF Spec

-----------------------------------------------------------------------------
(***************************************************************************)
(* The drain of the node and the interrupt itself, for a NodeWright with   *)
(* one interrupting package at one version, not to be uninstalled, among   *)
(* any other packages, and with caches that are up to date.  The drain     *)
(* needs each of these conditions: see the README for what happens         *)
(* without.                                                                *)
(*                                                                         *)
(* The argument: the node is held (cordoned, drained) from before the      *)
(* first executor of the package until its entry is done; only the pass    *)
(* that sees the entry done lets go, and that one runs nothing of it.      *)
(***************************************************************************)
OnlyInterrupt(q) ==
  /\ q \in KeptPkgs /\ HasInterrupt[q]
  /\ \A p \in Pkgs : HasInterrupt[p] => p = q
  /\ MaxVersion = 1 /\ NodeLag = FALSE /\ JobLag = FALSE

Of(q) == <<q, 1>>
Last(q) == <<q, 1, "post-interrupt">>

Done(e) == e.stage = "post-interrupt" /\ e.state = "complete"
Busy(e) == e.state # "none" /\ ~Done(e)

Now(q) == node.ns[Of(q)]
Before(q) == pass.before.ns[Of(q)]
Mem(q) == pass.mem.ns[Of(q)]

Held == node.unsched = TRUE /\ node.cordon = TRUE /\ workload = "none"
Works(q) == \E j \in JobName : Running(j) /\ KeyOf(j) = Of(q)

Named(js, q) ==
  \A j \in JobName : js[j].phase # "none" =>
    js[j].of = IF j[3] \in InterruptStages THEN Of(q) ELSE <<j[1], j[2]>>

JobsHeld(q) ==
  /\ AllSeen(jobs) /\ Named(jobs, q)
  /\ Done(Now(q)) => jobs[Last(q)].phase \in {"none", "complete"}
  /\ Works(q) => Held

KeepsCordon == (node.unsched = TRUE => pass.mem.unsched = TRUE) /\ (node.cordon = TRUE => pass.mem.cordon = TRUE)

PassHeld(q) ==
  /\ node.unsched = pass.before.unsched /\ node.cordon = pass.before.cordon
  /\ Now(q).stage = Before(q).stage
  /\ Busy(Before(q)) => Held
  /\ Mem(q) # Before(q) => Held /\ ~Done(Mem(q))
  /\ q \in pass.rest =>
       Mem(q) = Before(q) /\ pass.mem.unsched = node.unsched /\ pass.mem.cordon = node.cordon
  /\ KeepsCordon \/ (q \notin pass.rest /\ Mem(q) = Before(q) /\ Done(Now(q)) /\ ~Works(q))

\* The inductive invariant, on top of TypeInv and SafeInv.
DrainInv(q) ==
  /\ cache = node
  /\ JobsHeld(q)
  /\ Busy(Now(q)) => Held
  /\ pass.pc # "idle" => PassHeld(q)

LEMMA OnlyFacts ==
  ASSUME NEW q, OnlyInterrupt(q)
  PROVE  /\ q \in Pkgs /\ Versions = {1} /\ Of(q) \in Key /\ Last(q) \in JobName
         /\ Of(q)[1] = q /\ Last(q)[3] = "post-interrupt"
         /\ \A k \in Key : k = <<k[1], 1>>
         /\ \A k \in Key : k[1] = q => k = Of(q)
         /\ \A sp \in Specs, p \in Pkgs : SpecKey(sp, p) = <<p, 1>>
<1>1. q \in Pkgs /\ Versions = {1}
  BY DEF OnlyInterrupt, KeptPkgs, Versions
<1>2. Of(q) \in Key /\ \A k \in Key : k = <<k[1], 1>>
  BY <1>1 DEF Of, Key
<1>3. Last(q) \in JobName
  BY <1>1 DEF Last, JobName, PackageJobs, Stage, InterruptStages
<1>4. \A sp \in Specs, p \in Pkgs : SpecKey(sp, p) = <<p, 1>>
  BY <1>1 DEF Specs, SpecPkg, SpecKey
<1>5. QED
  BY <1>1, <1>2, <1>3, <1>4 DEF Of, Last

\* Planning leaves the package alone.
LEMMA KeptPlanned ==
  ASSUME NEW q, OnlyInterrupt(q), NEW ns \in NodeStates, NEW sp \in Specs,
         Sound(ns, ran), NotUninstalled(sp)
  PROVE  PlannedState(ns, sp)[Of(q)] = ns[Of(q)]
<1>1. q \in KeptPkgs /\ q \in Pkgs /\ Of(q) \in Key /\ Of(q)[1] = q /\ SpecKey(sp, q) = Of(q) /\ sp[q].ver = 1
  <2>1. sp[q].ver = 1
    BY OnlyFacts DEF Specs, SpecPkg
  <2>2. QED
    BY <2>1, OnlyFacts DEF OnlyInterrupt, Of
<1>2. ASSUME NEW m \in NodeStates
      PROVE  HandleVersionChange(m, sp)[Of(q)] = m[Of(q)]
  <2>1. ASSUME NEW k \in Key, Present(m, k) PROVE ~(m[k].ver < sp[q].ver)
    <3>1. m[k] \in Entry
      BY <2>1 DEF NodeStates, Present, NoEntry
    <3>2. m[k].ver = 1
      BY <3>1, OnlyFacts DEF Entry
    <3>3. QED
      BY <1>1, <3>2
  <2>2. ~UpgradeNeeded(m, sp, q)
    BY <2>1 DEF UpgradeNeeded
  <2>3. QED
    BY <1>1, <2>2 DEF HandleVersionChange
<1>3. ns[Of(q)].stage \notin {"uninstall", "uninstall-interrupt"}
  BY <1>1 DEF Sound, SoundEntry, MayBeAt
<1>4. sp[q].uninst = FALSE
  BY <1>1 DEF NotUninstalled, Specs, SpecPkg
<1> DEFINE m1 == HandleVersionChange(ns, sp)
           m2 == HandleUninstallRequests(m1, sp)
           m3 == HandleCancelledUninstalls(m2, sp)
<1>5. m1 \in NodeStates /\ m1[Of(q)] = ns[Of(q)]
  BY <1>2, HandleVersionChangeType
<1> HIDE DEF m1
<1>6. m2 \in NodeStates /\ m2[Of(q)] = ns[Of(q)]
  <2>1. m2 \in NodeStates
    BY <1>5, HandleUninstallRequestsType
  <2>2. ~NeedsUninstall(m1, sp, q)
    BY <1>1, <1>3, <1>4, <1>5 DEF NeedsUninstall, IsUninstallCycleInProgress
  <2>3. m2[Of(q)] = m1[Of(q)]
    BY <1>1, <2>2 DEF HandleUninstallRequests
  <2>4. QED
    BY <1>5, <2>1, <2>3
<1> HIDE DEF m2
<1>7. m3 \in NodeStates /\ m3[Of(q)] = ns[Of(q)]
  <2>1. m3 \in NodeStates
    BY <1>6, HandleCancelledUninstallsType
  <2>2. \A k \in Key : k[1] = q => m2[k].stage # "uninstall"
    BY <1>3, <1>6, OnlyFacts
  <2>3. ~Cancelled(m2, sp, q)
    BY <2>2 DEF Cancelled
  <2>4. m3[Of(q)] = m2[Of(q)]
    BY <1>1, <2>3 DEF HandleCancelledUninstalls
  <2>5. QED
    BY <1>6, <2>1, <2>4
<1> HIDE DEF m3
<1>8. PlannedState(ns, sp) = HandleVersionChange(m3, sp)
  BY DEF PlannedState, m1, m2, m3
<1>9. QED
  BY <1>2, <1>7, <1>8

\* A step that starts nothing and leaves the package's completion alone.
LEMMA QuietJobs ==
  ASSUME NEW q, OnlyInterrupt(q), TypeInv, JobsHeld(q), NoNewWork(jobs'),
         Done(Now(q))' => Done(Now(q)), Held => Held'
  PROVE  JobsHeld(q)' /\ (Works(q)' => Works(q))
<1>0. Last(q) \in JobName
  BY OnlyFacts
<1>1. ASSUME NEW j \in JobName, Running(j)', KeyOf(j)' = Of(q)
      PROVE  Running(j) /\ KeyOf(j) = Of(q)
  <2>1. Continues(jobs'[j], jobs[j])
    BY DEF NoNewWork
  <2>2. jobs'[j].phase \in {"active", "failing"} /\ ~jobs'[j].del /\ jobs'[j].of = Of(q)
    BY <1>1 DEF Running, JobUnfinished, KeyOf
  <2>3. jobs[j].phase \in {"active", "failing"} /\ jobs[j].of = Of(q) /\ ~jobs[j].del
    BY <2>1, <2>2 DEF Continues
  <2>4. QED
    BY <2>3 DEF Running, JobUnfinished, KeyOf
<1>2. Works(q)' => Works(q)
  BY <1>1 DEF Works
<1>3. AllSeen(jobs') /\ Named(jobs', q)
  BY DEF JobsHeld, AllSeen, Named, NoNewWork, Continues
<1>4. Done(Now(q))' => jobs'[Last(q)].phase \in {"none", "complete"}
  BY <1>0 DEF JobsHeld, NoNewWork, Continues
<1>5. QED
  BY <1>2, <1>3, <1>4 DEF JobsHeld

\* Steps of the world: the node object stays, a pass goes on as it is or is lost.
LEMMA WorldDrain ==
  ASSUME NEW q, OnlyInterrupt(q), TypeInv, DrainInv(q), NoNewWork(jobs'),
         UNCHANGED <<node, cache>>, pass' = pass \/ pass' = IdlePass, Held => Held'
  PROVE  DrainInv(q)'
<1>1. JobsHeld(q)' /\ (Works(q)' => Works(q))
  BY QuietJobs DEF DrainInv, Now
<1>2. pass' = pass /\ pass.pc # "idle" => PassHeld(q)'
  BY <1>1 DEF DrainInv, PassHeld, Now, Before, Mem, KeepsCordon
<1>3. pass'.pc # "idle" => pass' = pass /\ pass.pc # "idle"
  BY IdlePassType
<1>4. QED
  BY <1>1, <1>2, <1>3 DEF DrainInv, Now

LEMMA EnvironmentDrain ==
  ASSUME NEW q, OnlyInterrupt(q), TypeInv, DrainInv(q),
         Environment \/ ValidateRunningPackages \/ SuspendUnfinishedJobs \/ UNCHANGED vars,
         NoNewWork(jobs')
  PROVE  DrainInv(q)'
<1>1. UNCHANGED <<node, cache>>
  BY DEF DrainInv, Environment, CacheSync, PlaceWorkload, WorkloadLeaves, EditMode, Edit, OperatorCrash,
     JobSucceeds, AttemptFails, JobFails, JobFailureEnds, JobGone, JobSeen, EditVersion, EditOther,
     EditUninstall, ValidateRunningPackages, SuspendUnfinishedJobs, vars
<1>2. pass' = pass \/ pass' = IdlePass
  BY DEF Environment, CacheSync, PlaceWorkload, WorkloadLeaves, EditMode, Edit, OperatorCrash,
     JobSucceeds, AttemptFails, JobFails, JobFailureEnds, JobGone, JobSeen, EditVersion, EditOther,
     EditUninstall, ValidateRunningPackages, SuspendUnfinishedJobs, vars
<1>3. Held => workload' = workload
  BY DEF Held, Environment, CacheSync, PlaceWorkload, WorkloadLeaves, EditMode, Edit, OperatorCrash,
     JobSucceeds, AttemptFails, JobFails, JobFailureEnds, JobGone, JobSeen, EditVersion, EditOther,
     EditUninstall, ValidateRunningPackages, SuspendUnfinishedJobs, vars
<1>4. Held => Held'
  BY <1>1, <1>3 DEF Held
<1>5. QED
  BY <1>1, <1>2, <1>4, WorldDrain

(***************************************************************************)
(* The reconcilers move the package's entry within its stage.              *)
(***************************************************************************)
CompletedBy(q, stage) ==
  \E j \in JobName : jobs[j].phase = "complete" /\ KeyOf(j) = Of(q) /\ j[3] = stage

\* How a reconciler may change an entry e of the package.
Recorded(q, e, new) ==
  \/ new = e
  \/ /\ Busy(e) /\ new.stage = e.stage
     /\ new.state = "erroring" \/ (new.state = "complete" /\ CompletedBy(q, e.stage))

EntryStep(q) ==
  /\ cache' = node' /\ node'.unsched = node.unsched /\ node'.cordon = node.cordon
  /\ Recorded(q, Now(q), Now(q)')

LEMMA WriteEntry ==
  ASSUME NEW q, OnlyInterrupt(q), TypeInv, NEW ns \in NodeStates,
         WriteNode([node EXCEPT !.ns = ns]), Recorded(q, Now(q), ns[Of(q)])
  PROVE  EntryStep(q)
<1>1. node \in Node
  BY SharedTypes
<1>2. node' = [node EXCEPT !.ns = ns] /\ cache' = node'
  BY DEF WriteNode, OnlyInterrupt
<1>3. node'.ns = ns /\ node'.unsched = node.unsched /\ node'.cordon = node.cordon
  BY <1>1, <1>2 DEF Node
<1>4. Now(q)' = ns[Of(q)]
  BY <1>3 DEF Now, Of
<1>5. QED
  BY <1>2, <1>3, <1>4 DEF EntryStep

LEMMA ErringEntry ==
  ASSUME NEW q, OnlyInterrupt(q), TypeInv, NEW k \in Key, NEW stage \in Stage,
         RecordErroring(k, stage), node.ns[k].stage = stage, k = Of(q) => Busy(Now(q))
  PROVE  EntryStep(q)
<1> DEFINE ns == Upsert(node.ns, k, stage, "erroring")
<1>1. node \in Node /\ node.ns \in NodeStates
  BY SharedTypes DEF Node
<1>2. ns \in NodeStates
  BY <1>1, UpsertType DEF State
<1>3. WriteNode([node EXCEPT !.ns = ns])
  BY DEF RecordErroring
<1>4. Recorded(q, Now(q), ns[Of(q)])
  <2>1. CASE k = Of(q)
    <3>1. ns[Of(q)] = Status(k, stage, "erroring")
      BY <1>1, <2>1 DEF Upsert, NodeStates
    <3>2. ns[Of(q)].stage = stage /\ ns[Of(q)].state = "erroring"
      BY <3>1 DEF Status
    <3>3. QED
      BY <2>1, <3>2 DEF Recorded, Now
  <2>2. CASE k # Of(q)
    <3>1. ns[Of(q)] = Now(q)
      BY <1>1, <2>2, OnlyFacts DEF Upsert, NodeStates, Now
    <3>2. QED
      BY <3>1 DEF Recorded
  <2>3. QED
    BY <2>1, <2>2
<1> HIDE DEF ns
<1>5. QED
  BY <1>2, <1>3, <1>4, WriteEntry

LEMMA CompleteEntry ==
  ASSUME NEW q, OnlyInterrupt(q), TypeInv, NEW j \in JobName, jobs[j].phase = "complete",
         NEW ns \in NodeStates, Recorded(q, Now(q), ns[Of(q)]),
         EntryOpenAtStage(ns, KeyOf(j), j[3]) /\ KeyOf(j) = Of(q) => ns[Of(q)] = Now(q)
  PROVE  RecordComplete(ns, j) \in NodeStates /\ Recorded(q, Now(q), RecordComplete(ns, j)[Of(q)])
<1>0. KeyOf(j) \in Key /\ j[3] \in Stage
  BY KeyOfType, JobNameParts
<1>1. RecordComplete(ns, j) \in NodeStates
  BY <1>0, RecordCompleteType
<1>2. CASE ~(EntryOpenAtStage(ns, KeyOf(j), j[3]) /\ KeyOf(j) = Of(q))
  <2>1. RecordComplete(ns, j)[Of(q)] = ns[Of(q)]
    BY <1>0, <1>2, OnlyFacts DEF RecordComplete, Upsert, NodeStates
  <2>2. QED
    BY <1>1, <2>1
<1>3. CASE EntryOpenAtStage(ns, KeyOf(j), j[3]) /\ KeyOf(j) = Of(q)
  <2>1. RecordComplete(ns, j)[Of(q)] = Status(Of(q), j[3], "complete")
    BY <1>0, <1>3 DEF RecordComplete, Upsert, NodeStates
  <2>2. Now(q).stage = j[3] /\ Now(q).state # "complete" /\ Now(q).state # "none"
    BY <1>3 DEF EntryOpenAtStage, Present
  <2>3. Busy(Now(q)) /\ CompletedBy(q, Now(q).stage)
    BY <1>3, <2>2 DEF Busy, Done, CompletedBy
  <2>4. RecordComplete(ns, j)[Of(q)].stage = Now(q).stage /\ RecordComplete(ns, j)[Of(q)].state = "complete"
    BY <2>1, <2>2 DEF Status
  <2>5. QED
    BY <1>1, <2>3, <2>4 DEF Recorded
<1>4. QED
  BY <1>2, <1>3

LEMMA PromotedEntry ==
  ASSUME NEW q, OnlyInterrupt(q), NEW ns \in NodeStates, NEW sp \in Specs,
         NEW n \in ProgressSkipped(ns, sp)
  PROVE  /\ n \in NodeStates
         /\ \/ n[Of(q)] = ns[Of(q)]
            \/ /\ SkippedInterrupt(ns[Of(q)])
               /\ n[Of(q)].stage = "interrupt" /\ n[Of(q)].state = "complete"
<1>1. Of(q) \in Key /\ Of(q)[1] = q
  BY OnlyFacts
<1>2. n \in NodeStates
  <2>1. \A p \in Pkgs : sp[p].ver \in Versions
    BY SpecKeyType
  <2>2. QED
    BY <2>1, ProgressSkippedType
<1>3. PICK from \in [Pkgs -> Versions] :
        n = [k \in Key |->
               LET s == ns[<<k[1], from[k[1]]>>] IN
               IF k = SpecKey(sp, k[1]) /\ SkippedInterrupt(s)
                 THEN [s EXCEPT !.state = "complete"] ELSE ns[k]]
  BY DEF ProgressSkipped
<1>4. from[q] = 1 /\ <<q, from[q]>> = Of(q)
  <2>1. q \in Pkgs /\ Versions = {1}
    BY OnlyFacts
  <2>2. from[q] \in Versions
    BY <1>3, <2>1
  <2>3. QED
    BY <2>1, <2>2 DEF Of
<1>5. n[Of(q)] = IF Of(q) = SpecKey(sp, q) /\ SkippedInterrupt(ns[Of(q)])
                   THEN [ns[Of(q)] EXCEPT !.state = "complete"] ELSE ns[Of(q)]
  BY <1>1, <1>3, <1>4
<1>6. SkippedInterrupt(ns[Of(q)]) => ns[Of(q)] \in Entry
  BY <1>1 DEF NodeStates, SkippedInterrupt, NoEntry
<1>7. QED
  BY <1>2, <1>5, <1>6 DEF SkippedInterrupt, Entry

LEMMA CompletionEntry ==
  ASSUME NEW q, OnlyInterrupt(q), TypeInv, SafeInv, DrainInv(q), NEW j \in JobName, jobs[j].phase = "complete",
         NEW ns \in RecordJobCompletion(node.ns, j)
  PROVE  ns \in NodeStates /\ Recorded(q, Now(q), ns[Of(q)])
<1>0. /\ node.ns \in NodeStates /\ spec \in Specs /\ KeyOf(j) \in Key /\ j[3] \in Stage
      /\ Of(q) \in Key /\ Of(q)[1] = q /\ q \in KeptPkgs
  BY SharedTypes, KeyOfType, JobNameParts, OnlyFacts DEF Node, OnlyInterrupt
<1>1. ns \in NodeStates
  BY RecordJobCompletionType
<1>2. Recorded(q, Now(q), Now(q))
  BY DEF Recorded
<1>3. KeyOf(j) = Of(q) => j[3] \notin {"uninstall", "uninstall-interrupt"}
  BY <1>0 DEF SafeInv, SoundJobs, MayBeAt, KeyOf
<1>4. CASE IsInterruptJob(j)
  <2>1. PICK n \in ProgressSkipped(node.ns, spec) : ns = RecordComplete(n, j)
    BY <1>4 DEF RecordJobCompletion, IsInterruptJob, InterruptStages
  <2>2. KeyOf(j) = Of(q) /\ j[3] = "interrupt"
    <3>1. KeyOf(j) = Of(q)
      BY <1>4 DEF IsInterruptJob, DrainInv, JobsHeld, Named, KeyOf
    <3>2. QED
      BY <1>3, <1>4, <3>1 DEF IsInterruptJob, InterruptStages
  <2>3. /\ n \in NodeStates
        /\ \/ n[Of(q)] = Now(q)
           \/ SkippedInterrupt(Now(q)) /\ n[Of(q)].stage = "interrupt" /\ n[Of(q)].state = "complete"
    BY <1>0, PromotedEntry DEF Now
  <2>4. CASE n[Of(q)] = Now(q)
    BY <1>2, <2>1, <2>3, <2>4, CompleteEntry
  <2>5. CASE SkippedInterrupt(Now(q)) /\ n[Of(q)].stage = "interrupt" /\ n[Of(q)].state = "complete"
    <3>1. Busy(Now(q)) /\ CompletedBy(q, Now(q).stage) /\ Now(q).stage = "interrupt"
      BY <2>2, <2>5 DEF SkippedInterrupt, Busy, Done, CompletedBy
    <3>2. Recorded(q, Now(q), n[Of(q)])
      BY <2>5, <3>1 DEF Recorded
    <3>3. ~EntryOpenAtStage(n, KeyOf(j), j[3])
      BY <2>2, <2>5 DEF EntryOpenAtStage
    <3>4. QED
      BY <2>1, <2>3, <3>2, <3>3, CompleteEntry
  <2>6. QED
    BY <2>3, <2>4, <2>5
<1>5. CASE j[3] = "upgrade"
  <2>1. Superseded(node.ns, j) = {}
    <3>1. ASSUME NEW k \in Key, k[1] = KeyOf(j)[1], Present(node.ns, k)
          PROVE  <<KeyOf(j)[1], node.ns[k].ver>> = KeyOf(j)
      <4>1. node.ns[k] \in Entry
        BY <1>0, <3>1 DEF NodeStates, Present, NoEntry
      <4>2. node.ns[k].ver = 1
        BY <4>1, OnlyFacts DEF Entry
      <4>3. KeyOf(j) = <<KeyOf(j)[1], 1>>
        BY <1>0, OnlyFacts
      <4>4. QED
        BY <4>2, <4>3
    <3>2. QED
      BY <3>1 DEF Superseded
  <2>2. [k \in Key |-> IF k \in Superseded(node.ns, j) THEN NoEntry ELSE node.ns[k]] = node.ns
    BY <1>0, <2>1 DEF NodeStates
  <2>3. ns = RecordComplete(node.ns, j)
    BY <1>5, <2>2 DEF RecordJobCompletion, IsInterruptJob, InterruptStages
  <2>4. QED
    BY <1>0, <1>2, <2>3, CompleteEntry DEF Now
<1>6. CASE j[3] = "uninstall"
  <2>1. KeyOf(j) # Of(q)
    BY <1>3, <1>6
  <2>2. \/ ns = Upsert(node.ns, KeyOf(j), "uninstall-interrupt", "in_progress")
        \/ ns = RemoveState(node.ns, KeyOf(j))
    BY <1>6 DEF RecordJobCompletion, IsInterruptJob, InterruptStages
  <2>3. ns[Of(q)] = Now(q)
    BY <1>0, <2>1, <2>2 DEF Upsert, RemoveState, NodeStates, Now
  <2>4. QED
    BY <1>1, <1>2, <2>3
<1>7. CASE ~IsInterruptJob(j) /\ j[3] \notin {"upgrade", "uninstall"}
  <2>1. ns = RecordComplete(node.ns, j)
    BY <1>7 DEF RecordJobCompletion
  <2>2. QED
    BY <1>0, <1>2, <2>1, CompleteEntry DEF Now
<1>8. QED
  BY <1>4, <1>5, <1>6, <1>7

LEMMA ReconcilersEntry ==
  ASSUME NEW q, OnlyInterrupt(q), TypeInv, SafeInv, DrainInv(q), Reconcilers
  PROVE  EntryStep(q)
<1>0. Of(q) \in Key /\ Last(q) \in JobName
  BY OnlyFacts
<1>1. UNCHANGED <<node, cache>> => EntryStep(q)
  BY DEF EntryStep, Recorded, DrainInv, Now
<1>2. ASSUME NEW j \in JobName, jobs[j].phase \in {"failing", "failed"}, KeyOf(j) = Of(q),
             Present(node.ns, KeyOf(j)), node.ns[KeyOf(j)].stage = j[3]
      PROVE  Busy(Now(q))
  <2>1. CASE Done(Now(q))
    <3>1. j[3] = "post-interrupt"
      BY <1>2, <2>1 DEF Done, Now
    <3>2. j = Last(q)
      <4>1. j \in PackageJobs
        BY <3>1 DEF JobName, InterruptJobs, InterruptStages
      <4>2. <<j[1], j[2]>> = <<q, 1>>
        BY <1>2, <3>1 DEF DrainInv, JobsHeld, Named, KeyOf, InterruptStages, Of
      <4>3. QED
        BY <3>1, <4>1, <4>2 DEF PackageJobs, Last
    <3>3. QED
      BY <1>2, <2>1, <3>2 DEF DrainInv, JobsHeld
  <2>2. QED
    BY <1>2, <2>1 DEF Busy, Present, Now
<1>3. ASSUME NEW j \in JobName, JobReconcileFinished(j)
      PROVE  EntryStep(q)
  <2>1. CASE HandleCompleteJob(j)
    <3>1. CASE UNCHANGED <<node, cache>>
      BY <1>1, <3>1
    <3>2. CASE \E ns \in RecordJobCompletion(node.ns, j) : WriteNode([node EXCEPT !.ns = ns])
      <4>1. PICK ns \in RecordJobCompletion(node.ns, j) : WriteNode([node EXCEPT !.ns = ns])
        BY <3>2
      <4>2. jobs[j].phase = "complete"
        BY <2>1 DEF HandleCompleteJob
      <4>3. ns \in NodeStates /\ Recorded(q, Now(q), ns[Of(q)])
        BY <4>2, CompletionEntry
      <4>4. QED
        BY <4>1, <4>3, WriteEntry
    <3>3. QED
      BY <2>1, <3>1, <3>2 DEF HandleCompleteJob
  <2>2. CASE HandleFailedJob(j)
    <3>1. CASE UNCHANGED <<node, cache>>
      BY <1>1, <3>1
    <3>2. CASE /\ jobs[j].phase = "failed" /\ ShouldRecordErroring(node.ns, KeyOf(j), j[3])
               /\ RecordErroring(KeyOf(j), j[3])
      <4>1. KeyOf(j) \in Key /\ j[3] \in Stage
        BY <3>2, KeyOfType, JobNameParts
      <4>2. node.ns[KeyOf(j)].stage = j[3] /\ (KeyOf(j) = Of(q) => Busy(Now(q)))
        BY <1>2, <3>2 DEF ShouldRecordErroring
      <4>3. QED
        BY <3>2, <4>1, <4>2, ErringEntry
    <3>3. QED
      BY <2>2, <3>1, <3>2 DEF HandleFailedJob
  <2>3. QED
    BY <1>3, <2>1, <2>2 DEF JobReconcileFinished
<1>4. ASSUME NEW j \in JobName, JobReconcileActive(j)
      PROVE  EntryStep(q)
  <2>1. KeyOf(j) \in Key /\ j[3] \in Stage
    BY <1>4, KeyOfType, JobNameParts DEF JobReconcileActive, Listed
  <2>2. node.ns[KeyOf(j)].stage = j[3] /\ (KeyOf(j) = Of(q) => Busy(Now(q)))
    BY <1>2, <1>4 DEF ShouldRecordErroring, JobReconcileActive
  <2>3. QED
    BY <1>4, <2>1, <2>2, ErringEntry DEF JobReconcileActive
<1>5. ASSUME NEW j \in JobName, NEW k \in Key, PodReconcile(j, k)
      PROVE  EntryStep(q)
  <2>1. CASE UNCHANGED <<node, cache>>
    BY <1>1, <2>1
  <2>2. CASE EntryOpenAtStage(node.ns, k, j[3]) /\ RecordErroring(k, j[3])
    <3>1. j[3] \in Stage
      BY JobNameParts
    <3>2. node.ns[k].stage = j[3] /\ (k = Of(q) => Busy(Now(q)))
      BY <2>2 DEF EntryOpenAtStage, Present, Busy, Done, Now
    <3>3. QED
      BY <2>2, <3>1, <3>2, ErringEntry
  <2>3. QED
    BY <1>5, <2>1, <2>2 DEF PodReconcile
<1>6. QED
  BY <1>1, <1>3, <1>4, <1>5 DEF Reconcilers, MarkJobProcessed, JobReconcileInvalid

LEMMA ReconcilersDrain ==
  ASSUME NEW q, OnlyInterrupt(q), TypeInv, SafeInv, DrainInv(q), Reconcilers, NoNewWork(jobs')
  PROVE  DrainInv(q)'
<1>0. Last(q) \in JobName
  BY OnlyFacts
<1>1. EntryStep(q)
  BY ReconcilersEntry
<1>2. UNCHANGED <<pass, workload>>
  BY DEF Reconcilers, MarkJobProcessed, JobReconcileFinished, JobReconcileInvalid, JobReconcileActive, PodReconcile
<1>3. Held' <=> Held
  BY <1>1, <1>2 DEF Held, EntryStep
<1>4. Now(q)'.stage = Now(q).stage /\ (Busy(Now(q))' => Busy(Now(q))) /\ (Done(Now(q)) => Done(Now(q))')
  BY <1>1 DEF EntryStep, Recorded, Busy, Done
<1>5. Works(q)' => Works(q)
  <2>1. ASSUME NEW j \in JobName, Running(j)', KeyOf(j)' = Of(q)
        PROVE  Running(j) /\ KeyOf(j) = Of(q)
    <3>1. Continues(jobs'[j], jobs[j])
      BY DEF NoNewWork
    <3>2. jobs'[j].phase \in {"active", "failing"} /\ ~jobs'[j].del /\ jobs'[j].of = Of(q)
      BY <2>1 DEF Running, JobUnfinished, KeyOf
    <3>3. jobs[j].phase \in {"active", "failing"} /\ jobs[j].of = Of(q) /\ ~jobs[j].del
      BY <3>1, <3>2 DEF Continues
    <3>4. QED
      BY <3>3 DEF Running, JobUnfinished, KeyOf
  <2>2. QED
    BY <2>1 DEF Works
<1>6. AllSeen(jobs') /\ Named(jobs', q)
  BY DEF DrainInv, JobsHeld, AllSeen, Named, NoNewWork, Continues
<1>7. Done(Now(q))' => jobs'[Last(q)].phase \in {"none", "complete"}
  <2>1. Done(Now(q))' => jobs[Last(q)].phase \in {"none", "complete"}
    <3>1. CASE Now(q)' = Now(q)
      BY <3>1 DEF DrainInv, JobsHeld, Done
    <3>2. CASE Done(Now(q))' /\ Now(q)' # Now(q)
      <4>1. CompletedBy(q, "post-interrupt")
        BY <1>1, <3>2 DEF EntryStep, Recorded, Done
      <4>2. PICK j \in JobName : jobs[j].phase = "complete" /\ KeyOf(j) = Of(q) /\ j[3] = "post-interrupt"
        BY <4>1 DEF CompletedBy
      <4>3. j \in PackageJobs
        BY <4>2 DEF JobName, InterruptJobs, InterruptStages
      <4>4. <<j[1], j[2]>> = <<q, 1>>
        BY <4>2 DEF DrainInv, JobsHeld, Named, KeyOf, InterruptStages, Of
      <4>5. j = Last(q)
        BY <4>2, <4>3, <4>4 DEF PackageJobs, Last
      <4>6. QED
        BY <4>2, <4>5
    <3>3. QED
      BY <3>1, <3>2
  <2>2. Continues(jobs'[Last(q)], jobs[Last(q)])
    BY <1>0 DEF NoNewWork
  <2>3. QED
    BY <2>1, <2>2 DEF Continues
<1>8. pass.pc # "idle" => PassHeld(q)'
  <2>1. Before(q)' = Before(q) /\ Mem(q)' = Mem(q)
    BY <1>2 DEF Before, Mem
  <2>2. QED
    BY <1>1, <1>2, <1>3, <1>4, <1>5, <2>1 DEF DrainInv, PassHeld, EntryStep, KeepsCordon, Busy, Done
<1>9. QED
  BY <1>1, <1>2, <1>3, <1>4, <1>5, <1>6, <1>7, <1>8 DEF DrainInv, JobsHeld, EntryStep

(***************************************************************************)
(* The start of a pass and its end.                                        *)
(***************************************************************************)

\* A sweep that finds nothing to do leaves no executor of a package that is done.
LEMMA DoneIsIdle ==
  ASSUME NEW q, OnlyInterrupt(q), TypeInv, DrainInv(q), NothingToValidate, Done(Now(q))
  PROVE  ~Works(q)
<1> SUFFICES ASSUME NEW j \in JobName, Running(j), KeyOf(j) = Of(q) PROVE FALSE
  BY DEF Works
<1>1. JobUnfinished(j) /\ jobs[j].phase \in {"active", "failing"}
  BY DEF Running, JobUnfinished
<1>2. Listed(j)
  BY <1>1 DEF Listed, DrainInv, JobsHeld, AllSeen
<1>3. ~JobIsStale(spec, cache.ns, j)
  BY <1>1, <1>2 DEF NothingToValidate, ToInvalidate
<1>4. Now(q).stage = j[3]
  BY <1>3 DEF JobIsStale, DrainInv, Now
<1>5. j[3] = "post-interrupt"
  BY <1>4 DEF Done
<1>6. j \in PackageJobs
  BY <1>5 DEF JobName, InterruptJobs, InterruptStages
<1>7. <<j[1], j[2]>> = <<q, 1>>
  BY <1>1, <1>5 DEF DrainInv, JobsHeld, Named, KeyOf, InterruptStages, Of
<1>8. j = Last(q)
  BY <1>5, <1>6, <1>7 DEF PackageJobs, Last
<1>9. QED
  BY <1>1, <1>8 DEF DrainInv, JobsHeld

\* Only a node that is complete, and so one whose package is done, is released.
LEMMA IntrospectReleases ==
  ASSUME NEW q, OnlyInterrupt(q), NEW n \in Node, NEW sp \in Specs, NotUninstalled(sp)
  PROVE  /\ IntrospectNode(n, sp).ns = n.ns
         /\ \/ IntrospectNode(n, sp) = n
            \/ IsPackageComplete(n.ns, sp, HasInterrupt, q) /\ Done(n.ns[Of(q)])
<1>1. IntrospectNode(n, sp) = n \/ (IsComplete(n.ns, sp, HasInterrupt) /\ IntrospectNode(n, sp).ns = n.ns)
  BY DEF IntrospectNode, Uncordon, Node
<1>2. IsComplete(n.ns, sp, HasInterrupt) => IsPackageComplete(n.ns, sp, HasInterrupt, q)
  BY OnlyFacts DEF IsComplete, NotUninstalled, OnlyInterrupt
<1>3. IsPackageComplete(n.ns, sp, HasInterrupt, q) => Done(n.ns[Of(q)])
  BY OnlyFacts DEF IsPackageComplete, Done, OnlyInterrupt, Of
<1>4. QED
  BY <1>1, <1>2, <1>3

LEMMA StartDrain ==
  ASSUME NEW q, OnlyInterrupt(q), TypeInv, DrainInv(q), NothingToValidate, NoNewWork(jobs'),
         UNCHANGED <<node, cache, workload>>,
         pass'.before = cache, pass'.mem.ns[Of(q)] = cache.ns[Of(q)],
         \/ pass'.mem.unsched = cache.unsched /\ pass'.mem.cordon = cache.cordon
         \/ q \notin pass'.rest /\ Done(cache.ns[Of(q)])
  PROVE  DrainInv(q)'
<1>1. JobsHeld(q)' /\ (Works(q)' => Works(q))
  BY QuietJobs DEF DrainInv, Now, Held
<1>2. Before(q)' = Now(q) /\ Mem(q)' = Now(q) /\ Now(q)' = Now(q) /\ cache = node
  BY DEF Before, Mem, Now, DrainInv, Of
<1>3. Held' <=> Held
  BY DEF Held
<1>4. Done(Now(q)) => ~Works(q)
  BY DoneIsIdle
<1>5. Busy(Now(q)) => Held
  BY DEF DrainInv
<1>6. Done(cache.ns[Of(q)]) <=> Done(Now(q))
  BY <1>2 DEF Now
<1>7. PassHeld(q)'
  BY <1>1, <1>2, <1>3, <1>4, <1>5, <1>6 DEF PassHeld, KeepsCordon
<1>8. QED
  BY <1>1, <1>2, <1>3, <1>5, <1>7 DEF DrainInv

\* A pass begins with the package's entry as it is, and lets go of the node only when
\* that entry is done.
Begins(q) ==
  /\ NothingToValidate
  /\ pass'.before = cache /\ pass'.mem.ns[Of(q)] = cache.ns[Of(q)]
  /\ \/ pass'.mem.unsched = cache.unsched /\ pass'.mem.cordon = cache.cordon
     \/ q \notin pass'.rest /\ Done(cache.ns[Of(q)])

LEMMA PassStarts ==
  ASSUME NEW q, OnlyInterrupt(q), TypeInv, SafeInv, IntrospectSkyhook \/ RunSkyhookPackages
  PROVE  UNCHANGED <<node, cache, workload, owed>> /\ (pass' = pass \/ Begins(q))
<1>0. /\ cache \in Node /\ cache.ns \in NodeStates /\ spec \in Specs /\ NotUninstalled(spec)
      /\ Sound(cache.ns, ran) /\ Of(q) \in Key
  BY SharedTypes, OnlyFacts DEF SafeInv, Node
<1>1. CASE IntrospectSkyhook
  <2> DEFINE mem == IntrospectNode(cache, spec)
  <2>1. mem.ns = cache.ns /\ (mem = cache \/ Done(cache.ns[Of(q)]))
    BY <1>0, IntrospectReleases
  <2> HIDE DEF mem
  <2>2. pass'.before = cache /\ pass'.mem = mem /\ pass'.rest = {}
    BY <1>1 DEF IntrospectSkyhook, IdlePass, mem
  <2>3. NothingToValidate /\ UNCHANGED <<node, cache, workload, owed>>
    BY <1>1 DEF IntrospectSkyhook
  <2>4. QED
    BY <2>1, <2>2, <2>3 DEF Begins
<1>2. CASE RunSkyhookPackages /\ pass' = pass
  BY <1>2 DEF RunSkyhookPackages
<1>3. CASE RunSkyhookPackages /\ pass' # pass
  <2> DEFINE ns == PlannedState(cache.ns, spec)
             n == [cache EXCEPT !.ns = ns]
             mem == IntrospectNode(n, spec)
             rest == Runnable(ns, spec)
  <2>1. pass'.before = cache /\ pass'.mem = mem /\ pass'.rest = rest
    BY <1>3 DEF RunSkyhookPackages
  <2>2. NothingToValidate /\ UNCHANGED <<node, cache, workload, owed>>
    BY <1>3 DEF RunSkyhookPackages
  <2>3. ns \in NodeStates /\ ns[Of(q)] = cache.ns[Of(q)]
    BY <1>0, PlannedStateType, KeptPlanned
  <2>4. q \in rest => ~IsPackageComplete(ns, spec, HasInterrupt, q)
    BY DEF Runnable
  <2> HIDE DEF ns, rest
  <2>5. n \in Node /\ n.ns = ns /\ n.unsched = cache.unsched /\ n.cordon = cache.cordon
    BY <1>0, <2>3 DEF Node
  <2> HIDE DEF n
  <2>6. /\ mem.ns = ns
        /\ mem = n \/ (IsPackageComplete(ns, spec, HasInterrupt, q) /\ Done(ns[Of(q)]))
    BY <1>0, <2>5, IntrospectReleases
  <2> HIDE DEF mem
  <2>7. QED
    BY <2>1, <2>2, <2>3, <2>4, <2>5, <2>6 DEF Begins
<1>4. QED
  BY <1>1, <1>2, <1>3

LEMMA PassStartDrain ==
  ASSUME NEW q, OnlyInterrupt(q), TypeInv, SafeInv, DrainInv(q), NoNewWork(jobs'),
         IntrospectSkyhook \/ RunSkyhookPackages
  PROVE  DrainInv(q)'
<1>1. UNCHANGED <<node, cache, workload>> /\ (pass' = pass \/ Begins(q))
  BY PassStarts
<1>2. CASE pass' = pass
  BY <1>1, <1>2, WorldDrain DEF Held
<1>3. CASE Begins(q)
  BY <1>1, <1>3, StartDrain DEF Begins
<1>4. QED
  BY <1>1, <1>2, <1>3

LEMMA SaveDrain ==
  ASSUME NEW q, OnlyInterrupt(q), TypeInv, DrainInv(q), SaveNodesAndSkyhook
  PROVE  DrainInv(q)'
<1>0. /\ node \in Node /\ pass.before \in Node /\ pass.mem \in Node /\ Of(q) \in Key
      /\ pass.pc = "save" /\ PassHeld(q)
  BY OnlyFacts DEF TypeInv, TypeOK, SaveNodesAndSkyhook, DrainInv
<1>1. /\ node'.ns = MergeDelta(pass.before.ns, pass.mem.ns, node.ns)
      /\ node'.unsched = IF pass.before.unsched = pass.mem.unsched THEN node.unsched ELSE pass.mem.unsched
      /\ node'.cordon = IF pass.before.cordon = pass.mem.cordon THEN node.cordon ELSE pass.mem.cordon
      /\ cache' = node' /\ pass' = IdlePass /\ jobs' = jobs /\ workload' = workload
  BY DEF SaveNodesAndSkyhook, WriteNode, OnlyInterrupt
<1>2. Now(q)' = IF Before(q) = Mem(q) THEN Now(q) ELSE Mem(q)
  BY <1>0, <1>1 DEF MergeDelta, Now, Before, Mem, Of
<1>3. pass'.pc = "idle"
  BY <1>1, IdlePassType
<1>4. NoNewWork(jobs')
  <2>1. \A j \in JobName : jobs[j] \in Job
    BY SharedTypes DEF JobsOK
  <2>2. QED
    BY <1>1, <2>1, MarksContinue DEF NoNewWork
<1>5. CASE KeepsCordon
  <2>1. Held => Held'
    BY <1>0, <1>1, <1>5 DEF Held, KeepsCordon, PassHeld
  <2>2. Done(Now(q))' => Done(Now(q))
    BY <1>0, <1>2 DEF PassHeld, Done
  <2>3. Busy(Now(q))' => Held'
    <3>1. CASE Before(q) = Mem(q)
      BY <1>2, <2>1, <3>1 DEF DrainInv, Busy, Done
    <3>2. CASE Before(q) # Mem(q)
      BY <1>0, <2>1, <3>2 DEF PassHeld
    <3>3. QED
      BY <3>1, <3>2
  <2>4. JobsHeld(q)'
    BY <1>4, <2>1, <2>2, QuietJobs DEF DrainInv
  <2>5. QED
    BY <1>1, <1>3, <2>3, <2>4 DEF DrainInv
<1>6. CASE ~KeepsCordon
  <2>1. Mem(q) = Before(q) /\ Done(Now(q)) /\ ~Works(q)
    BY <1>0, <1>6 DEF PassHeld
  <2>2. Now(q)' = Now(q)
    BY <1>2, <2>1
  <2>3. ~Works(q)'
    BY <1>1, <2>1 DEF Works, Running, JobUnfinished, KeyOf, Of
  <2>4. JobsHeld(q)'
    BY <1>1, <2>2, <2>3 DEF DrainInv, JobsHeld, Done, AllSeen, Named
  <2>5. QED
    BY <1>1, <1>3, <2>1, <2>2, <2>4 DEF DrainInv, Busy, Done
<1>7. QED
  BY <1>5, <1>6

(***************************************************************************)
(* One package of a pass.                                                  *)
(***************************************************************************)

\* ApplyPackage: at most one Job is started and recorded in the pass's copy.
LEMMA ApplyOutcome ==
  ASSUME TypeInv, NEW p \in Pkgs, Reached(p), PassNext(p) # "interrupt", ApplyPackage(p)
  PROVE  /\ workload' = workload
         /\ \E m \in Node :
              /\ pass' = IdlePass \/ Advance(p, m)
              /\ m.unsched = pass.mem.unsched /\ m.cordon = pass.mem.cordon
              /\ \/ NoNewWork(jobs') /\ m = pass.mem
                 \/ /\ ApplyStage(p) \in Stage \ InterruptStages
                    /\ Starts(jobs', PassKey(p), <<PassKey(p)[1], PassKey(p)[2], ApplyStage(p)>>)
                    /\ m.ns = Upsert(pass.mem.ns, PassKey(p), ApplyStage(p), "in_progress")
<1>0. pass.mem \in Node /\ pass.mem.ns \in NodeStates /\ PassKey(p) \in Key /\ \A j \in JobName : jobs[j] \in Job
  BY PassTypes DEF JobsOK
<1>1. NoNewWork(jobs)
  BY <1>0, MarksContinue DEF NoNewWork
<1>2. ApplyStage(p) \in (Stage \ InterruptStages) \cup {"uninstall-interrupt"}
  <2>1. PassNext(p) \in {"none", "config", "post-interrupt", "apply"}
    BY PassTypes, NextStageType, HasInterruptType DEF PassNext, PassEntry
  <2>2. QED
    BY <2>1 DEF ApplyStage, Stage, InterruptStages
<1> DEFINE r == Create(p, ApplyStage(p))
           j == <<PassKey(p)[1], PassKey(p)[2], ApplyStage(p)>>
<1>3. /\ workload' = workload
      /\ \/ jobs' = jobs /\ (pass' = IdlePass \/ Advance(p, pass.mem))
         \/ /\ ApplyStage(p) # "uninstall-interrupt"
            /\ jobs' = r.jobs /\ (pass' = IdlePass \/ Advance(p, r.mem))
  BY DEF ApplyPackage, Nothing
<1>4. ASSUME ApplyStage(p) \in Stage \ InterruptStages
      PROVE  \/ NoNewWork(r.jobs) /\ r.mem = pass.mem
             \/ /\ Starts(r.jobs, PassKey(p), j)
                /\ r.mem = [pass.mem EXCEPT !.ns = Upsert(@, PassKey(p), ApplyStage(p), "in_progress")]
  <2>1. ASSUME NEW type PROVE NameOf(PassKey(p), ApplyStage(p), type) = j
    BY <1>4 DEF NameOf
  <2>2. QED
    BY <1>4, <2>1, CreateStarts
<1> HIDE DEF r, j
<1>5. CASE jobs' = jobs /\ (pass' = IdlePass \/ Advance(p, pass.mem))
  BY <1>0, <1>1, <1>3, <1>5
<1>6. CASE ApplyStage(p) # "uninstall-interrupt" /\ jobs' = r.jobs /\ (pass' = IdlePass \/ Advance(p, r.mem))
  <2>1. ApplyStage(p) \in Stage \ InterruptStages
    BY <1>2, <1>6
  <2>2. CASE NoNewWork(r.jobs) /\ r.mem = pass.mem
    BY <1>0, <1>3, <1>6, <2>2
  <2>3. CASE /\ Starts(r.jobs, PassKey(p), j)
             /\ r.mem = [pass.mem EXCEPT !.ns = Upsert(@, PassKey(p), ApplyStage(p), "in_progress")]
    <3> DEFINE up == Upsert(pass.mem.ns, PassKey(p), ApplyStage(p), "in_progress")
    <3>1. up \in NodeStates
      BY <1>0, <2>1, UpsertType DEF State
    <3>2. r.mem = [pass.mem EXCEPT !.ns = up]
      BY <2>3
    <3> HIDE DEF up
    <3>3. r.mem \in Node /\ r.mem.ns = up /\ r.mem.unsched = pass.mem.unsched /\ r.mem.cordon = pass.mem.cordon
      BY <1>0, <3>1, <3>2 DEF Node
    <3>4. QED
      BY <1>3, <1>6, <2>1, <2>3, <3>3 DEF up, j
  <2>4. QED
    BY <1>4, <2>1, <2>2, <2>3
<1>7. QED
  BY <1>3, <1>5, <1>6

\* An interrupt is started only when nothing else runs.
LEMMA InterruptOutcome ==
  ASSUME TypeInv, NEW p \in Pkgs, Reached(p), HasInterrupt[p], NEW stage \in InterruptStages
  PROVE  LET r == InterruptEffect(p, stage) IN
         /\ r.mem \in Node /\ r.mem.unsched = pass.mem.unsched /\ r.mem.cordon = pass.mem.cordon
         /\ \/ NoNewWork(r.jobs) /\ r.mem = pass.mem
            \/ /\ \E j \in JobName : Starts(r.jobs, PassKey(p), j) /\ j[3] = stage
               /\ r.mem.ns = Upsert(pass.mem.ns, PassKey(p), stage, "in_progress")
               /\ ~HasRunningPackages
<1>0. /\ pass.mem \in Node /\ pass.mem.ns \in NodeStates /\ PassKey(p) \in Key
      /\ stage \in Stage /\ \A j \in JobName : jobs[j] \in Job
  BY PassTypes DEF JobsOK, InterruptStages, Stage
<1>1. NoNewWork(jobs)
  BY <1>0, MarksContinue DEF NoNewWork
<1> DEFINE r == InterruptEffect(p, stage)
<1>2. CASE HasRunningPackages
  BY <1>0, <1>1, <1>2 DEF InterruptEffect, Nothing
<1>3. CASE ~HasRunningPackages
  <2>1. r = Create(p, stage)
    BY <1>3 DEF InterruptEffect
  <2> HIDE DEF r
  <2>2. \/ NoNewWork(r.jobs) /\ r.mem = pass.mem
        \/ /\ \E j \in JobName : Starts(r.jobs, PassKey(p), j) /\ j[3] = stage
           /\ r.mem = [pass.mem EXCEPT !.ns = Upsert(@, PassKey(p), stage, "in_progress")]
    BY <1>0, <2>1, CreateStarts
  <2>3. CASE NoNewWork(r.jobs) /\ r.mem = pass.mem
    BY <1>0, <2>3 DEF r
  <2>4. CASE /\ \E j \in JobName : Starts(r.jobs, PassKey(p), j) /\ j[3] = stage
             /\ r.mem = [pass.mem EXCEPT !.ns = Upsert(@, PassKey(p), stage, "in_progress")]
    <3> DEFINE up == Upsert(pass.mem.ns, PassKey(p), stage, "in_progress")
    <3>1. up \in NodeStates
      BY <1>0, UpsertType DEF State
    <3>2. r.mem = [pass.mem EXCEPT !.ns = up]
      BY <2>4
    <3> HIDE DEF up
    <3>3. r.mem \in Node /\ r.mem.ns = up /\ r.mem.unsched = pass.mem.unsched /\ r.mem.cordon = pass.mem.cordon
      BY <1>0, <3>1, <3>2 DEF Node
    <3>4. QED
      BY <1>3, <2>4, <3>3 DEF up, r
  <2>5. QED
    BY <2>2, <2>3, <2>4
<1>4. QED
  BY <1>2, <1>3

\* What the package's own step of a pass does, m being the copy it goes on with.
Outcome(q, m) ==
  \/ /\ NoNewWork(jobs')
     /\ \/ m.ns[Of(q)] = Mem(q)
        \/ Mem(q).stage = "interrupt" /\ Mem(q).state = "skipped" /\ m.ns[Of(q)].stage = "interrupt"
  \/ \E j \in JobName :
       /\ Starts(jobs', Of(q), j) /\ Held
       /\ j[3] \in InterruptStages \/ <<j[1], j[2]>> = Of(q)
       /\ m.ns[Of(q)].stage = j[3] /\ m.ns[Of(q)].state = "in_progress"
       /\ j[3] = "post-interrupt" => Mem(q).stage = "interrupt"
       /\ j[3] = "config" => Mem(q).stage \in {"apply", "upgrade", "config"}
       /\ j[3] = "interrupt" => ~HasRunningPackages /\ Mem(q).stage \in {"config", "interrupt"}

SameCordon(m) == m.unsched = pass.mem.unsched /\ m.cordon = pass.mem.cordon

LEMMA InterrupterApplies ==
  ASSUME NEW q, OnlyInterrupt(q), TypeInv, Reached(q), PassKey(q) = Of(q),
         PassNext(q) # "interrupt", ApplyPackage(q), Held
  PROVE  /\ workload' = workload
         /\ \E m \in Node : (pass' = IdlePass \/ Advance(q, m)) /\ SameCordon(m) /\ Outcome(q, m)
<1>0. q \in Pkgs /\ Of(q) \in Key /\ pass.mem.ns \in NodeStates
  BY OnlyFacts, PassTypes
<1>1. PICK m \in Node :
        /\ pass' = IdlePass \/ Advance(q, m)
        /\ SameCordon(m)
        /\ \/ NoNewWork(jobs') /\ m = pass.mem
           \/ /\ ApplyStage(q) \in Stage \ InterruptStages
              /\ Starts(jobs', PassKey(q), <<PassKey(q)[1], PassKey(q)[2], ApplyStage(q)>>)
              /\ m.ns = Upsert(pass.mem.ns, PassKey(q), ApplyStage(q), "in_progress")
  BY <1>0, ApplyOutcome DEF SameCordon
<1>2. workload' = workload
  BY <1>0, ApplyOutcome
<1>3. CASE NoNewWork(jobs') /\ m = pass.mem
  BY <1>1, <1>2, <1>3 DEF Outcome, Mem
<1>4. CASE /\ ApplyStage(q) \in Stage \ InterruptStages
           /\ Starts(jobs', PassKey(q), <<PassKey(q)[1], PassKey(q)[2], ApplyStage(q)>>)
           /\ m.ns = Upsert(pass.mem.ns, PassKey(q), ApplyStage(q), "in_progress")
  <2> DEFINE j == <<q, 1, ApplyStage(q)>>
  <2>1. Starts(jobs', Of(q), j) /\ j \in JobName
    <3>1. <<PassKey(q)[1], PassKey(q)[2], ApplyStage(q)>> = j
      BY DEF Of
    <3>2. QED
      BY <1>4, <3>1 DEF Starts
  <2>2. m.ns[Of(q)].stage = ApplyStage(q) /\ m.ns[Of(q)].state = "in_progress"
    BY <1>0, <1>4 DEF Upsert, Status, NodeStates
  <2>3. PassEntry(q) = Mem(q)
    BY DEF PassEntry, Mem
  <2>4. /\ ApplyStage(q) = "post-interrupt" => Mem(q).stage = "interrupt"
        /\ ApplyStage(q) = "config" => Mem(q).stage \in {"apply", "upgrade", "config"}
        /\ ApplyStage(q) # "interrupt"
    BY <1>4, <2>3 DEF ApplyStage, PassNext, NextStage, InterruptStages
  <2>5. j[3] = ApplyStage(q) /\ <<j[1], j[2]>> = Of(q)
    BY DEF Of
  <2> HIDE DEF j
  <2>6. Outcome(q, m)
    BY <2>1, <2>2, <2>4, <2>5 DEF Outcome
  <2>7. QED
    BY <1>1, <1>2, <2>6
<1>5. QED
  BY <1>1, <1>3, <1>4

LEMMA InterrupterInterrupts ==
  ASSUME NEW q, OnlyInterrupt(q), TypeInv, Reached(q), PassKey(q) = Of(q), Held,
         NEW stage \in InterruptStages, jobs' = InterruptEffect(q, stage).jobs,
         stage = "interrupt" => Mem(q).stage \in {"config", "interrupt"}
  PROVE  LET m == InterruptEffect(q, stage).mem
         IN  m \in Node /\ SameCordon(m) /\ Outcome(q, m)
<1>0. q \in Pkgs /\ Of(q) \in Key /\ pass.mem.ns \in NodeStates /\ HasInterrupt[q]
  BY OnlyFacts, PassTypes DEF OnlyInterrupt
<1> DEFINE r == InterruptEffect(q, stage)
           m == r.mem
<1>1. /\ m \in Node /\ m.unsched = pass.mem.unsched /\ m.cordon = pass.mem.cordon
      /\ \/ NoNewWork(r.jobs) /\ m = pass.mem
         \/ /\ \E j \in JobName : Starts(r.jobs, PassKey(q), j) /\ j[3] = stage
            /\ m.ns = Upsert(pass.mem.ns, PassKey(q), stage, "in_progress")
            /\ ~HasRunningPackages
  BY <1>0, InterruptOutcome
<1> HIDE DEF r
<1>2. CASE NoNewWork(r.jobs) /\ m = pass.mem
  BY <1>1, <1>2 DEF Outcome, Mem, SameCordon, r
<1>3. CASE /\ \E j \in JobName : Starts(r.jobs, PassKey(q), j) /\ j[3] = stage
           /\ m.ns = Upsert(pass.mem.ns, PassKey(q), stage, "in_progress")
           /\ ~HasRunningPackages
  <2>1. PICK j \in JobName : Starts(jobs', Of(q), j) /\ j[3] = stage
    BY <1>3 DEF r
  <2>2. m.ns[Of(q)].stage = stage /\ m.ns[Of(q)].state = "in_progress"
    BY <1>0, <1>3 DEF Upsert, Status, NodeStates
  <2>3. stage \notin {"post-interrupt", "config"}
    BY DEF InterruptStages
  <2>4. Outcome(q, m)
    BY <1>3, <2>1, <2>2, <2>3 DEF Outcome
  <2>5. QED
    BY <1>1, <2>4 DEF SameCordon, r
<1>4. QED
  BY <1>1, <1>2, <1>3

LEMMA InterrupterStep ==
  ASSUME NEW q, OnlyInterrupt(q), TypeInv, SafeInv, DrainInv(q), RunPackage(q)
  PROVE  /\ pass.pc = "run" /\ q \in pass.rest /\ q \notin pass.un
         /\ UNCHANGED passOnly
         /\ workload' = workload \/ (workload = "running" /\ node.unsched = TRUE)
         /\ \E m \in Node :
              /\ pass' = IdlePass \/ Advance(q, m)
              /\ SameCordon(m) \/ (m.unsched = TRUE /\ m.cordon = TRUE)
              /\ Outcome(q, m)
<1>0. /\ q \in Pkgs /\ Of(q) \in Key /\ HasInterrupt[q] /\ q \in KeptPkgs
      /\ pass.mem \in Node /\ pass.mem.ns \in NodeStates /\ pass.spec \in Specs
      /\ \A j \in JobName : jobs[j] \in Job
  BY OnlyFacts, PassTypes DEF OnlyInterrupt, JobsOK
<1>1. PassKey(q) = Of(q) /\ PassEntry(q) = Mem(q)
  BY <1>0, OnlyFacts DEF PassKey, PassEntry, Mem, Of
<1>2. Reached(q) /\ UNCHANGED passOnly
  BY <1>0 DEF RunPackage, RunPlainPackage, RunSkippedPackage, RunActiveInterrupt, RunDrainedPackage,
     RunInterruptStage, RunNextStage
<1>3. pass.pc = "run" /\ q \notin pass.un /\ q \in pass.rest
  BY <1>0, <1>2 DEF Reached, SafeInv, SoundPass
<1>4. /\ PassHeld(q) /\ Mem(q) = Before(q)
      /\ pass.mem.unsched = node.unsched /\ pass.mem.cordon = node.cordon
  BY <1>3 DEF DrainInv, PassHeld
<1>5. Busy(Mem(q)) => Held
  BY <1>4 DEF PassHeld
<1>6. pass.pack = q
  BY <1>0, <1>2, <1>3 DEF TypeInv, InterruptSettled, OnlyInterrupt
<1>7. NoNewWork(jobs)
  BY <1>0, MarksContinue DEF NoNewWork
<1> DEFINE C(m) == [m EXCEPT !.unsched = TRUE, !.cordon = TRUE]
<1>8. ASSUME NEW m \in Node
      PROVE  C(m) \in Node /\ C(m).unsched = TRUE /\ C(m).cordon = TRUE /\ C(m).ns = m.ns
  BY DEF Node
<1> DEFINE Goal == \E m \in Node :
                     /\ pass' = IdlePass \/ Advance(q, m)
                     /\ SameCordon(m) \/ (m.unsched = TRUE /\ m.cordon = TRUE)
                     /\ Outcome(q, m)
<1>9. ASSUME NEW r, jobs' = r.jobs, r.mem \in Node, SameCordon(r.mem), Outcome(q, r.mem),
             EnsureNodeIsReadyForInterrupt(q, r)
      PROVE  Goal /\ (workload' = workload \/ (workload = "running" /\ node.unsched = TRUE))
  <2>1. Outcome(q, C(r.mem))
    BY <1>8, <1>9 DEF Outcome
  <2>2. \/ UNCHANGED workload /\ Advance(q, C(r.mem))
        \/ /\ UNCHANGED workload \/ (workload = "running" /\ node.unsched = TRUE)
           /\ pass' = IdlePass \/ Advance(q, r.mem)
    BY <1>0, <1>4, <1>9 DEF EnsureNodeIsReadyForInterrupt, Cordoned, SameCordon, Node
  <2> HIDE DEF C
  <2>3. CASE UNCHANGED workload /\ Advance(q, C(r.mem))
    BY <1>8, <1>9, <2>1, <2>3
  <2>4. CASE /\ UNCHANGED workload \/ (workload = "running" /\ node.unsched = TRUE)
             /\ pass' = IdlePass \/ Advance(q, r.mem)
    BY <1>9, <2>4
  <2>5. QED
    BY <2>2, <2>3, <2>4
<1> HIDE DEF C
<1>10. CASE RunSkippedPackage(q)
  <2>1. PICK ns \in IF RunInterrupt(q) THEN ProgressSkipped(pass.mem.ns, pass.spec) ELSE {pass.mem.ns} :
          Advance(q, [pass.mem EXCEPT !.ns = ns])
    BY <1>10 DEF RunSkippedPackage
  <2> DEFINE m == [pass.mem EXCEPT !.ns = ns]
  <2>2. ns \in NodeStates /\ (\/ ns[Of(q)] = Mem(q)
                              \/ SkippedInterrupt(Mem(q)) /\ ns[Of(q)].stage = "interrupt")
    BY <1>0, PromotedEntry DEF Mem
  <2>3. m \in Node /\ m.ns = ns /\ SameCordon(m)
    BY <1>0, <2>2 DEF Node, SameCordon
  <2> HIDE DEF m
  <2>4. jobs' = jobs /\ workload' = workload
    BY <1>10 DEF RunSkippedPackage
  <2>5. SkippedInterrupt(Mem(q)) => Mem(q).stage = "interrupt" /\ Mem(q).state = "skipped"
    BY DEF SkippedInterrupt
  <2>6. Outcome(q, m)
    BY <1>7, <2>2, <2>3, <2>4, <2>5 DEF Outcome
  <2>7. Advance(q, m)
    BY <2>1 DEF m
  <2>8. QED
    BY <1>2, <1>3, <2>3, <2>4, <2>6, <2>7
<1>11. CASE RunActiveInterrupt(q)
  <2> DEFINE r == InterruptEffect(q, Mem(q).stage)
  <2>1. IsActive(Mem(q)) /\ Mem(q).stage \in InterruptStages
    BY <1>1, <1>11 DEF RunActiveInterrupt, IsInterruptStage
  <2>2. Held
    BY <1>5, <2>1 DEF IsActive, Busy, Done
  <2>3. \/ EnsureNodeIsReadyForInterrupt(q, r)
        \/ jobs' = r.jobs /\ UNCHANGED workload /\ Advance(q, r.mem)
    BY <1>1, <1>11 DEF RunActiveInterrupt
  <2>4. jobs' = r.jobs
    BY <2>3 DEF EnsureNodeIsReadyForInterrupt
  <2>5. r.mem \in Node /\ SameCordon(r.mem) /\ Outcome(q, r.mem)
    BY <1>1, <1>2, <2>1, <2>2, <2>4, InterrupterInterrupts
  <2> HIDE DEF r
  <2>6. QED
    BY <1>2, <1>3, <1>9, <2>3, <2>4, <2>5
<1>12. CASE RunDrainedPackage(q)
  <2>1. CASE EnsureNodeIsReadyForInterrupt(q, Nothing)
    <3>1. Nothing.jobs = jobs /\ Nothing.mem = pass.mem
      BY DEF Nothing
    <3>2. jobs' = jobs
      BY <2>1, <3>1 DEF EnsureNodeIsReadyForInterrupt
    <3>3. SameCordon(pass.mem) /\ Outcome(q, pass.mem)
      BY <1>7, <3>2 DEF SameCordon, Outcome, Mem
    <3>4. QED
      BY <1>0, <1>2, <1>3, <1>9, <2>1, <3>1, <3>2, <3>3
  <2>2. CASE Drained(pass.mem) /\ ApplyPackage(q)
    <3>1. Held
      BY <1>0, <1>4, <2>2 DEF Drained, Cordoned, Held, Node
    <3>2. PassNext(q) # "interrupt"
      BY <1>12 DEF RunDrainedPackage
    <3>3. QED
      BY <1>1, <1>2, <1>3, <2>2, <3>1, <3>2, InterrupterApplies
  <2>3. QED
    BY <1>12, <2>1, <2>2 DEF RunDrainedPackage
<1>13. CASE RunInterruptStage(q)
  <2> DEFINE r == InterruptEffect(q, "interrupt")
  <2>1. Mem(q).stage = "config" /\ Mem(q).state = "complete"
    BY <1>1, <1>13 DEF RunInterruptStage, PassNext, NextStage
  <2>2. Held
    BY <1>5, <2>1 DEF Busy, Done
  <2>3. jobs' = r.jobs /\ Advance(q, r.mem) /\ workload' = workload
    BY <1>6, <1>13 DEF RunInterruptStage, RunInterrupt
  <2>4. "interrupt" \in InterruptStages
    BY DEF InterruptStages
  <2>5. r.mem \in Node /\ SameCordon(r.mem) /\ Outcome(q, r.mem)
    BY <1>1, <1>2, <2>1, <2>2, <2>3, <2>4, InterrupterInterrupts
  <2> HIDE DEF r
  <2>6. QED
    BY <1>2, <1>3, <2>3, <2>5
<1>14. CASE RunNextStage(q)
  <2>1. PassNext(q) \notin {"none", "interrupt"} /\ ApplyPackage(q)
    BY <1>14 DEF RunNextStage
  <2>2. Mem(q).state = "complete" /\ Mem(q).stage # "post-interrupt"
    BY <1>1, <2>1 DEF PassNext, NextStage
  <2>3. Held
    BY <1>5, <2>2 DEF Busy, Done
  <2>4. QED
    BY <1>1, <1>2, <1>3, <2>1, <2>3, InterrupterApplies
<1>15. ~RunPlainPackage(q)
  BY <1>0 DEF RunPlainPackage
<1>16. QED
  BY <1>10, <1>11, <1>12, <1>13, <1>14, <1>15 DEF RunPackage

\* A Job is started under its name; one of the package only on a node that is held.
LEMMA StartedJobs ==
  ASSUME NEW q, OnlyInterrupt(q), TypeInv, JobsHeld(q), NEW k \in Key, NEW j, Starts(jobs', k, j),
         k = IF j[3] \in InterruptStages THEN Of(q) ELSE <<j[1], j[2]>>,
         Now(q)' = Now(q), Held => Held',
         k = Of(q) => Held /\ (j[3] = "post-interrupt" => ~Done(Now(q)))
  PROVE  JobsHeld(q)' /\ (Works(q)' => Works(q) \/ k = Of(q))
<1>0. JobsOK(jobs) /\ j \in JobName /\ Last(q) \in JobName
  BY SharedTypes, OnlyFacts DEF Starts
<1>1. PICK pkg \in SpecPkg : jobs' = [jobs EXCEPT ![j] = NewJob(k, pkg)]
  BY DEF Starts
<1>2. NewJob(k, pkg).of = k /\ NewJob(k, pkg).phase = "active" /\ NewJob(k, pkg).seen = TRUE
  BY DEF NewJob, NoJob, OnlyInterrupt
<1>3. \A i \in JobName : jobs'[i] = IF i = j THEN NewJob(k, pkg) ELSE jobs[i]
  BY <1>0, <1>1 DEF JobsOK
<1>4. AllSeen(jobs')
  BY <1>2, <1>3 DEF JobsHeld, AllSeen
<1>5. Named(jobs', q)
  <2>1. ASSUME NEW i \in JobName, jobs'[i].phase # "none"
        PROVE  jobs'[i].of = IF i[3] \in InterruptStages THEN Of(q) ELSE <<i[1], i[2]>>
    <3>1. CASE i = j
      BY <1>2, <1>3, <3>1
    <3>2. CASE i # j
      BY <1>3, <2>1, <3>2 DEF JobsHeld, Named
    <3>3. QED
      BY <3>1, <3>2
  <2>2. QED
    BY <2>1 DEF Named
<1>6. Done(Now(q))' => jobs'[Last(q)].phase \in {"none", "complete"}
  <2>1. CASE j = Last(q)
    <3>1. j[3] = "post-interrupt" /\ k = Of(q)
      BY <2>1, OnlyFacts DEF InterruptStages, Last, Of
    <3>2. QED
      BY <3>1 DEF Done
  <2>2. CASE j # Last(q)
    BY <1>0, <1>3, <2>2 DEF JobsHeld, Done
  <2>3. QED
    BY <2>1, <2>2
<1>7. Works(q)' => Works(q) \/ k = Of(q)
  <2>1. ASSUME NEW i \in JobName, Running(i)', KeyOf(i)' = Of(q), k # Of(q)
        PROVE  Running(i) /\ KeyOf(i) = Of(q)
    <3>1. i # j
      BY <1>2, <1>3, <2>1 DEF KeyOf
    <3>2. QED
      BY <1>3, <2>1, <3>1 DEF Running, JobUnfinished, KeyOf
  <2>2. QED
    BY <2>1 DEF Works
<1>8. Works(q)' => Held'
  BY <1>7 DEF JobsHeld
<1>9. QED
  BY <1>4, <1>5, <1>6, <1>7, <1>8 DEF JobsHeld

\* Another package's step says nothing of this one.
LEMMA OtherPackageDrain ==
  ASSUME NEW q, OnlyInterrupt(q), TypeInv, SafeInv, DrainInv(q), NEW p \in Pkgs, p # q, RunPackage(p)
  PROVE  /\ DrainInv(q)' /\ pass.pc = "run" /\ UNCHANGED passOnly
         /\ pass' = IdlePass \/ (Mem(q)' = Mem(q) /\ Before(q)' = Before(q))
         /\ PassKey(p) # Of(q)
<1>0. /\ ~HasInterrupt[p] /\ PassKey(p) = <<p, 1>> /\ PassKey(p) \in Key /\ PassKey(p) # Of(q) /\ Of(q) \in Key
      /\ pass.mem.ns \in NodeStates /\ pass \in Passes
  <2>1. PassKey(p) = <<p, 1>> /\ PassKey(p) \in Key
    BY PassTypes, OnlyFacts DEF PassKey
  <2>2. ~HasInterrupt[p]
    BY HasInterruptType DEF OnlyInterrupt
  <2>3. PassKey(p) # Of(q)
    BY <2>1 DEF Of
  <2>4. Of(q) \in Key
    BY OnlyFacts
  <2>5. pass.mem.ns \in NodeStates /\ pass \in Passes
    BY PassTypes
  <2>6. QED
    BY <2>1, <2>2, <2>3, <2>4, <2>5
<1>1. Reached(p) /\ ApplyPackage(p) /\ UNCHANGED passOnly
  BY <1>0 DEF RunPackage, RunPlainPackage, RunSkippedPackage, RunActiveInterrupt, RunDrainedPackage,
     RunInterruptStage, RunNextStage
<1>2. PassNext(p) # "interrupt"
  BY <1>0, PassTypes, NextStageType, HasInterruptType DEF PassNext, PassEntry
<1>3. PICK m \in Node :
        /\ pass' = IdlePass \/ Advance(p, m)
        /\ m.unsched = pass.mem.unsched /\ m.cordon = pass.mem.cordon
        /\ \/ NoNewWork(jobs') /\ m = pass.mem
           \/ /\ ApplyStage(p) \in Stage \ InterruptStages
              /\ Starts(jobs', PassKey(p), <<PassKey(p)[1], PassKey(p)[2], ApplyStage(p)>>)
              /\ m.ns = Upsert(pass.mem.ns, PassKey(p), ApplyStage(p), "in_progress")
  BY <1>1, <1>2, ApplyOutcome
<1>4. workload' = workload /\ UNCHANGED <<node, cache>>
  BY <1>1, <1>2, ApplyOutcome DEF passOnly
<1>5. (Held' <=> Held) /\ Now(q)' = Now(q)
  BY <1>4 DEF Held, Now, Of
<1>6. m.ns[Of(q)] = Mem(q)
  BY <1>0, <1>3 DEF Upsert, NodeStates, Mem
<1>7. JobsHeld(q)' /\ (Works(q)' => Works(q))
  <2>1. CASE NoNewWork(jobs')
    BY <1>5, <2>1, QuietJobs DEF DrainInv
  <2>2. CASE /\ ApplyStage(p) \in Stage \ InterruptStages
             /\ Starts(jobs', PassKey(p), <<PassKey(p)[1], PassKey(p)[2], ApplyStage(p)>>)
    <3> DEFINE j == <<p, 1, ApplyStage(p)>>
    <3>1. Starts(jobs', PassKey(p), j) /\ j[3] \notin InterruptStages /\ <<j[1], j[2]>> = PassKey(p)
      <4>1. <<PassKey(p)[1], PassKey(p)[2], ApplyStage(p)>> = j
        BY <1>0
      <4>2. QED
        BY <1>0, <2>2, <4>1
    <3> HIDE DEF j
    <3>2. QED
      BY <1>0, <1>5, <3>1, StartedJobs DEF DrainInv
  <2>3. QED
    BY <1>3, <2>1, <2>2
<1>8. pass.pc = "run"
  BY <1>1 DEF Reached
<1>9. CASE pass' = IdlePass
  <2>1. DrainInv(q)'
    BY <1>4, <1>5, <1>7, <1>9, IdlePassType DEF DrainInv, Busy, Done
  <2>2. QED
    BY <1>0, <1>1, <1>8, <1>9, <2>1
<1>10. CASE Advance(p, m)
  <2>1. /\ pass'.before = pass.before /\ pass'.mem = m
        /\ pass'.rest \subseteq pass.rest /\ (q \in pass.rest => q \in pass'.rest)
    BY <1>0, <1>10 DEF Advance, Passes
  <2>2. Before(q)' = Before(q) /\ Mem(q)' = Mem(q)
    BY <1>6, <2>1 DEF Before, Mem, Of
  <2>3. PassHeld(q)
    BY <1>1 DEF DrainInv, Reached
  <2>4. PassHeld(q)'
    BY <1>3, <1>4, <1>5, <1>7, <2>1, <2>2, <2>3 DEF PassHeld, KeepsCordon
  <2>5. DrainInv(q)'
    BY <1>4, <1>5, <1>7, <2>4 DEF DrainInv, Busy, Done
  <2>6. QED
    BY <1>0, <1>1, <1>8, <2>2, <2>5
<1>11. QED
  BY <1>3, <1>9, <1>10

LEMMA InterrupterDrain ==
  ASSUME NEW q, OnlyInterrupt(q), TypeInv, SafeInv, DrainInv(q), RunPackage(q)
  PROVE  DrainInv(q)'
<1>0. pass \in Passes /\ Of(q) \in Key
  BY OnlyFacts DEF TypeInv, TypeOK, Passes
<1>1. /\ pass.pc = "run" /\ q \in pass.rest /\ q \notin pass.un /\ UNCHANGED <<node, cache>>
      /\ workload' = workload \/ workload = "running"
  BY InterrupterStep DEF passOnly
<1>2. PICK m \in Node :
        /\ pass' = IdlePass \/ Advance(q, m)
        /\ SameCordon(m) \/ (m.unsched = TRUE /\ m.cordon = TRUE)
        /\ Outcome(q, m)
  BY InterrupterStep
<1>3. /\ PassHeld(q) /\ Mem(q) = Before(q)
      /\ pass.mem.unsched = node.unsched /\ pass.mem.cordon = node.cordon
  BY <1>1 DEF DrainInv, PassHeld
<1>4. (Held => Held') /\ Now(q)' = Now(q) /\ Now(q).stage = Mem(q).stage /\ (Busy(Mem(q)) => Held)
  BY <1>1, <1>3 DEF Held, Now, Of, PassHeld
<1>5. JobsHeld(q)'
  <2>1. CASE NoNewWork(jobs')
    BY <1>4, <2>1, QuietJobs DEF DrainInv
  <2>2. CASE \E j \in JobName :
               /\ Starts(jobs', Of(q), j) /\ Held
               /\ j[3] \in InterruptStages \/ <<j[1], j[2]>> = Of(q)
               /\ j[3] = "post-interrupt" => Mem(q).stage = "interrupt"
    <3>1. PICK j \in JobName :
             /\ Starts(jobs', Of(q), j) /\ Held
             /\ j[3] \in InterruptStages \/ <<j[1], j[2]>> = Of(q)
             /\ j[3] = "post-interrupt" => Mem(q).stage = "interrupt"
      BY <2>2
    <3>2. j[3] = "post-interrupt" => ~Done(Now(q))
      BY <1>4, <3>1 DEF Done
    <3>3. QED
      BY <1>0, <1>4, <3>1, <3>2, StartedJobs DEF DrainInv
  <2>3. QED
    BY <1>2, <2>1, <2>2 DEF Outcome
<1>6. m.ns[Of(q)] = Mem(q) \/ (Held /\ ~Done(m.ns[Of(q)]))
  BY <1>2, <1>4 DEF Outcome, Busy, Done
<1>7. Busy(Now(q))' => Held'
  BY <1>4 DEF DrainInv, Busy, Done
<1>8. CASE pass' = IdlePass
  BY <1>1, <1>5, <1>7, <1>8, IdlePassType DEF DrainInv
<1>9. CASE Advance(q, m)
  <2>1. pass'.before = pass.before /\ pass'.mem = m /\ q \notin pass'.rest
    BY <1>0, <1>1, <1>9 DEF Advance, Passes
  <2>2. Before(q)' = Before(q) /\ Mem(q)' = m.ns[Of(q)]
    BY <2>1 DEF Before, Mem, Of
  <2>3. KeepsCordon'
    BY <1>1, <1>2, <1>3, <2>1 DEF KeepsCordon, SameCordon
  <2>4. Mem(q)' # Before(q)' => Held' /\ ~Done(Mem(q))'
    BY <1>3, <1>4, <1>6, <2>2 DEF Done
  <2>5. PassHeld(q)'
    <3>1. node'.unsched = pass'.before.unsched /\ node'.cordon = pass'.before.cordon
      BY <1>1, <1>3, <2>1 DEF PassHeld
    <3>2. Now(q)'.stage = Before(q)'.stage /\ (Busy(Before(q))' => Held')
      BY <1>3, <1>4, <2>2 DEF PassHeld, Busy, Done
    <3>3. QED
      BY <2>1, <2>3, <2>4, <3>1, <3>2 DEF PassHeld
  <2>6. QED
    BY <1>1, <1>5, <1>7, <2>5 DEF DrainInv
<1>10. QED
  BY <1>2, <1>8, <1>9

LEMMA NextDrain ==
  ASSUME NEW q, OnlyInterrupt(q)
  PROVE  TypeInv /\ SafeInv /\ DrainInv(q) /\ [Next]_vars => DrainInv(q)'
<1> SUFFICES ASSUME TypeInv, SafeInv, DrainInv(q), [Next]_vars PROVE DrainInv(q)'
  OBVIOUS
<1>1. CASE UNCHANGED vars
  <2>1. \A j \in JobName : jobs[j] \in Job
    BY SharedTypes DEF JobsOK
  <2>2. NoNewWork(jobs')
    BY <1>1, <2>1, MarksContinue DEF NoNewWork, vars
  <2>3. QED
    BY <1>1, <2>2, EnvironmentDrain
<1>2. ASSUME NEW p \in Pkgs, RunPackage(p)
      PROVE  DrainInv(q)'
  BY <1>2, OtherPackageDrain, InterrupterDrain
<1>3. CASE Next /\ \A p \in Pkgs : ~RunPackage(p)
  <2>1. NoNewWork(jobs')
    BY <1>3, OtherStepsStartNothing
  <2>2. QED
    BY <1>3, <2>1, EnvironmentDrain, ReconcilersDrain, PassStartDrain, SaveDrain DEF Next, HeavyPass
<1>4. QED
  BY <1>1, <1>2, <1>3

LEMMA InitDrain ==
  ASSUME NEW q, OnlyInterrupt(q)
  PROVE  Init => DrainInv(q)
<1> SUFFICES ASSUME Init PROVE DrainInv(q)
  OBVIOUS
<1>1. \A j \in JobName : jobs[j].phase = "none"
  BY NoJobType DEF Init
<1>2. Now(q) = NoEntry
  BY OnlyFacts DEF Init, InitialNode, EmptyNodeState, Now
<1>3. JobsHeld(q)
  <2>1. ~Works(q)
    BY <1>1 DEF Works, Running, JobUnfinished
  <2>2. QED
    BY <1>1, <2>1, OnlyFacts DEF JobsHeld, AllSeen, Named
<1>4. cache = node /\ pass.pc = "idle"
  BY IdlePassType DEF Init
<1>5. QED
  BY <1>2, <1>3, <1>4 DEF DrainInv, Busy, NoEntry

LEMMA DrainInvariant ==
  ASSUME NEW q, OnlyInterrupt(q)
  PROVE  Spec => []DrainInv(q)
<1>1. Init => DrainInv(q)
  BY InitDrain
<1>2. TypeInv /\ SafeInv /\ DrainInv(q) /\ [Next]_vars => DrainInv(q)'
  BY NextDrain
<1>3. QED
  BY <1>1, <1>2, Safety, TypeInvariant, PTL DEF Spec

\* For a NodeWright with one interrupting package, at one version and not to be
\* uninstalled, and caches that are up to date: the executors of that package run only
\* while the node is unschedulable and empty of user workload, whatever fails, restarts
\* or is edited beside it (ProcessInterrupt, EnsureNodeIsReadyForInterrupt).
THEOREM ExecutorsDrained ==
  ASSUME NodeLag = FALSE, JobLag = FALSE, MaxVersion = 1,
         \A p \in Pkgs : HasInterrupt[p] => p \in KeptPkgs,
         \A p, o \in Pkgs : HasInterrupt[p] /\ HasInterrupt[o] => p = o
  PROVE  Spec => []DrainedForInterrupts
<1>1. CASE \A p \in Pkgs : ~HasInterrupt[p]
  <2>1. TypeInv => DrainedForInterrupts
    BY <1>1, KeyOfType DEF DrainedForInterrupts, Running, JobUnfinished
  <2>2. QED
    BY <2>1, TypeInvariant, PTL
<1>2. CASE \E p \in Pkgs : HasInterrupt[p]
  <2>1. PICK q \in Pkgs : HasInterrupt[q]
    BY <1>2
  <2>2. OnlyInterrupt(q)
    BY <2>1 DEF OnlyInterrupt
  <2>3. TypeInv /\ DrainInv(q) => DrainedForInterrupts
    <3> SUFFICES ASSUME TypeInv, DrainInv(q), NEW j \in JobName, Running(j), HasInterrupt[KeyOf(j)[1]]
                 PROVE  workload = "none" /\ node.unsched
      BY DEF DrainedForInterrupts
    <3>1. KeyOf(j) \in Key /\ KeyOf(j)[1] \in Pkgs
      BY KeyOfType DEF Running, JobUnfinished
    <3>2. KeyOf(j) = Of(q)
      BY <2>2, <3>1, OnlyFacts DEF OnlyInterrupt
    <3>3. QED
      BY <3>2 DEF DrainInv, JobsHeld, Works, Held
  <2>4. Spec => []DrainInv(q)
    BY <2>2, DrainInvariant
  <2>5. QED
    BY <2>3, <2>4, TypeInvariant, PTL
<1>3. QED
  BY <1>1, <1>2

\* Under the same conditions: a pod is evicted only from a node that is unschedulable in
\* the API server already, so that its replacement cannot come back to it.
THEOREM EvictionsFromCordoned ==
  ASSUME NodeLag = FALSE, JobLag = FALSE, MaxVersion = 1,
         \A p \in Pkgs : HasInterrupt[p] => p \in KeptPkgs,
         \A p, o \in Pkgs : HasInterrupt[p] /\ HasInterrupt[o] => p = o
  PROVE  Spec => DrainsDurablyCordoned
<1> DEFINE Evicts == workload = "running" /\ workload' = "leaving"
<1>1. ASSUME [Next]_vars, Evicts PROVE \E p \in Pkgs : RunPackage(p) /\ HasInterrupt[p]
  <2>1. \E p \in Pkgs : RunPackage(p)
    BY <1>1 DEF Next, HeavyPass, Reconcilers, Environment, vars, CacheSync, PlaceWorkload, WorkloadLeaves,
       EditMode, Edit, OperatorCrash, JobSucceeds, AttemptFails, JobFails, JobFailureEnds, JobGone, JobSeen,
       EditVersion, EditOther, EditUninstall, ValidateRunningPackages, SuspendUnfinishedJobs,
       IntrospectSkyhook, RunSkyhookPackages, SaveNodesAndSkyhook, MarkJobProcessed, JobReconcileFinished,
       JobReconcileInvalid, JobReconcileActive, PodReconcile
  <2>2. ASSUME NEW p \in Pkgs, RunPackage(p), ~HasInterrupt[p] PROVE workload' = workload
    BY <2>2 DEF RunPackage, RunPlainPackage, RunSkippedPackage, RunActiveInterrupt, RunDrainedPackage,
       RunInterruptStage, RunNextStage, ApplyPackage
  <2>3. QED
    BY <1>1, <2>1, <2>2
<1>2. CASE \A p \in Pkgs : ~HasInterrupt[p]
  <2>1. [Next]_vars => [Evicts => node.unsched]_vars
    BY <1>1, <1>2
  <2>2. QED
    BY <2>1, PTL DEF Spec, DrainsDurablyCordoned
<1>3. CASE \E p \in Pkgs : HasInterrupt[p]
  <2>1. PICK q \in Pkgs : HasInterrupt[q]
    BY <1>3
  <2>2. OnlyInterrupt(q)
    BY <2>1 DEF OnlyInterrupt
  <2>3. TypeInv /\ SafeInv /\ DrainInv(q) /\ [Next]_vars => [Evicts => node.unsched]_vars
    <3> SUFFICES ASSUME TypeInv, SafeInv, DrainInv(q), [Next]_vars, Evicts PROVE node.unsched = TRUE
      OBVIOUS
    <3>1. PICK p \in Pkgs : RunPackage(p) /\ HasInterrupt[p]
      BY <1>1
    <3>2. p = q
      BY <2>2, <3>1 DEF OnlyInterrupt
    <3>3. QED
      BY <2>2, <3>1, <3>2, InterrupterStep
  <2>4. Spec => []DrainInv(q)
    BY <2>2, DrainInvariant
  <2>5. QED
    BY <2>3, <2>4, Safety, TypeInvariant, PTL DEF Spec, DrainsDurablyCordoned
<1>4. QED
  BY <1>2, <1>3

-----------------------------------------------------------------------------
(***************************************************************************)
(* The interrupt is honoured, under the same conditions.                   *)
(*                                                                         *)
(* The argument: no configuration of the package runs while its entry, on  *)
(* the node or in a pass, is at the interrupt; the one Job name of the     *)
(* interrupt is free when an interrupt starts, so a Job found complete     *)
(* under it ran after the configuration.                                   *)
(***************************************************************************)
ConfigOf(q) == <<q, 1, "config">>
Configuring(q) == JobUnfinished(ConfigOf(q))
Served == \E j \in JobName : j[3] = "interrupt" /\ jobs[j].phase = "complete"

AtInterrupt(q, e) == e.stage = "interrupt" => ~Configuring(q) /\ (Served => q \notin owed)

PassHonours(q) ==
  /\ Before(q).state # "skipped"
  /\ Mem(q) = Before(q) \/ Mem(q).state = "in_progress"
  /\ AtInterrupt(q, Mem(q))

HonourInv(q) ==
  /\ owed \subseteq {q}
  /\ Now(q).state # "skipped"
  /\ AtInterrupt(q, Now(q))
  /\ Now(q).stage = "interrupt" /\ Now(q).state = "complete" => q \notin owed
  /\ pass.pc # "idle" => PassHonours(q)

LEMMA InterruptName ==
  ASSUME NEW q, OnlyInterrupt(q)
  PROVE  /\ ConfigOf(q) \in JobName
         /\ \A j \in JobName : j[3] = "interrupt" => j = <<Interrupt[q], 0, "interrupt">>
         /\ \A j \in JobName : j[3] \notin InterruptStages =>
              j[1] \in Pkgs /\ j = <<j[1], 1, j[3]>>
<1>1. q \in Pkgs /\ Versions = {1} /\ "interrupt" \in InterruptStages
  BY OnlyFacts DEF InterruptStages
<1>2. ConfigOf(q) \in JobName
  BY <1>1 DEF ConfigOf, JobName, PackageJobs, Stage, InterruptStages
<1>3. ASSUME NEW j \in JobName, j[3] = "interrupt" PROVE j = <<Interrupt[q], 0, "interrupt">>
  <2>1. j \in InterruptJobs
    BY <1>1, <1>3 DEF JobName, PackageJobs
  <2>2. PICK p \in {o \in Pkgs : HasInterrupt[o]}, st \in InterruptStages : j = <<Interrupt[p], 0, st>>
    BY <2>1 DEF InterruptJobs
  <2>3. p = q /\ st = "interrupt"
    BY <1>3, <2>2 DEF OnlyInterrupt
  <2>4. QED
    BY <2>2, <2>3
<1>4. ASSUME NEW j \in JobName, j[3] \notin InterruptStages
      PROVE  j[1] \in Pkgs /\ j = <<j[1], 1, j[3]>>
  <2>1. j \in PackageJobs
    BY <1>4 DEF JobName, InterruptJobs
  <2>2. QED
    BY <1>1, <2>1 DEF PackageJobs
<1>5. QED
  BY <1>2, <1>3, <1>4

\* Only the end of an executor makes a Job complete.
NoNewSuccess == \A j \in JobName : jobs'[j].phase = "complete" => jobs[j].phase = "complete"

LEMMA CreateCompletesNothing ==
  ASSUME TypeInv, NEW p, NEW stage, NEW i \in JobName
  PROVE  Create(p, stage).jobs[i].phase \in {jobs[i].phase, "active"}
<1>0. JobsOK(jobs) /\ jobs[i] \in Job
  BY SharedTypes DEF JobsOK
<1> DEFINE j == NameOf(PassKey(p), stage, IF pass.pack = "none" THEN "none" ELSE Interrupt[pass.pack])
           new == NewJob(PassKey(p), pass.spec[p])
<1>1. \/ Create(p, stage).jobs = [jobs EXCEPT ![j] = new]
      \/ Create(p, stage).jobs = jobs
      \/ Create(p, stage).jobs = [jobs EXCEPT ![j].del = TRUE]
  BY DEF Create, HandleExistingJob
<1>2. new.phase = "active"
  <2>1. ASSUME NEW k, NEW pkg PROVE NewJob(k, pkg).phase = "active"
    BY NewJobFields
  <2>2. QED
    BY <2>1
<1> HIDE DEF j, new
<1>3. CASE Create(p, stage).jobs = [jobs EXCEPT ![j] = new]
  BY <1>0, <1>2, <1>3 DEF JobsOK
<1>4. CASE Create(p, stage).jobs = [jobs EXCEPT ![j].del = TRUE]
  BY <1>0, <1>4 DEF JobsOK, Job
<1>5. QED
  BY <1>1, <1>3, <1>4

\* A package's step leaves the Jobs alone or creates one.
LEMMA RunJobs ==
  ASSUME NEW p \in Pkgs, RunPackage(p)
  PROVE  jobs' = jobs \/ \E stage : jobs' = Create(p, stage).jobs
<1>1. RunSkippedPackage(p) => jobs' = jobs
  BY DEF RunSkippedPackage
<1>2. ASSUME NEW stage, jobs' = InterruptEffect(p, stage).jobs
      PROVE  jobs' = jobs \/ jobs' = Create(p, stage).jobs
  BY <1>2 DEF InterruptEffect, Nothing
<1>3. ApplyPackage(p) => jobs' = jobs \/ jobs' = Create(p, ApplyStage(p)).jobs
  BY DEF ApplyPackage, Nothing
<1>4. ASSUME RunActiveInterrupt(p) PROVE jobs' = InterruptEffect(p, PassEntry(p).stage).jobs
  BY <1>4 DEF RunActiveInterrupt, EnsureNodeIsReadyForInterrupt
<1>5. ASSUME RunInterruptStage(p) PROVE jobs' = jobs \/ jobs' = InterruptEffect(p, "interrupt").jobs
  <2>1. CASE RunInterrupt(p)
    BY <1>5, <2>1 DEF RunInterruptStage
  <2>2. CASE ~RunInterrupt(p)
    BY <1>5, <2>2 DEF RunInterruptStage
  <2>3. QED
    BY <2>1, <2>2
<1>6. RunPlainPackage(p) \/ RunNextStage(p) => ApplyPackage(p)
  BY DEF RunPlainPackage, RunNextStage
<1>7. RunDrainedPackage(p) => jobs' = jobs \/ ApplyPackage(p)
  BY DEF RunDrainedPackage, EnsureNodeIsReadyForInterrupt, Nothing
<1>8. QED
  BY <1>1, <1>2, <1>3, <1>4, <1>5, <1>6, <1>7 DEF RunPackage

LEMMA RunCompletesNothing ==
  ASSUME TypeInv, NEW p \in Pkgs, RunPackage(p)
  PROVE  NoNewSuccess
BY RunJobs, CreateCompletesNothing DEF NoNewSuccess

LEMMA OthersCompleteNothing ==
  ASSUME TypeInv, Next, \A p \in Pkgs : ~RunPackage(p), \A j \in JobName : ~JobSucceeds(j)
  PROVE  NoNewSuccess
<1>0. JobsOK(jobs) /\ \A j \in JobName : jobs[j] \in Job
  BY SharedTypes DEF JobsOK
<1>1. UNCHANGED jobs => NoNewSuccess
  BY DEF NoNewSuccess
<1>2. ValidateRunningPackages => NoNewSuccess
  BY <1>0 DEF ValidateRunningPackages, NoNewSuccess, Job
<1>3. ASSUME NEW b PROVE \A j \in JobName : SetSuspend(jobs, b)[j].phase = jobs[j].phase
  BY <1>0 DEF SetSuspend, Job
<1>4. SuspendUnfinishedJobs \/ IntrospectSkyhook \/ RunSkyhookPackages => NoNewSuccess
  BY <1>3 DEF SuspendUnfinishedJobs, IntrospectSkyhook, RunSkyhookPackages, Resumed, NoNewSuccess
<1>5. SaveNodesAndSkyhook => NoNewSuccess
  BY <1>1 DEF SaveNodesAndSkyhook
<1>6. Reconcilers => NoNewSuccess
  <2>1. ASSUME NEW j, jobs' = [jobs EXCEPT ![j].proc = TRUE] \/ jobs' = [jobs EXCEPT ![j].del = TRUE]
        PROVE  NoNewSuccess
    BY <1>0, <2>1 DEF NoNewSuccess, JobsOK, Job
  <2>2. MarkJobProcessed => NoNewSuccess
    BY <1>1, <2>1 DEF MarkJobProcessed
  <2>3. ASSUME NEW j \in JobName, JobReconcileInvalid(j) PROVE NoNewSuccess
    BY <2>1, <2>3 DEF JobReconcileInvalid
  <2>4. QED
    BY <1>1, <2>2, <2>3 DEF Reconcilers, JobReconcileFinished, JobReconcileActive, PodReconcile
<1>7. ASSUME NEW j \in JobName, JobFails(j) \/ JobFailureEnds(j) \/ JobGone(j) \/ JobSeen(j)
      PROVE  NoNewSuccess
  <2>1. \E e : jobs' = [jobs EXCEPT ![j] = e] /\ (e.phase = jobs[j].phase \/ e.phase \in {"failing", "failed", "lost", "none"})
    BY <1>0, <1>7, NoJobType DEF JobFails, JobFailureEnds, JobGone, JobSeen, JobsOK, Job
  <2>2. QED
    BY <1>0, <2>1 DEF NoNewSuccess, JobsOK
<1>8. Environment => NoNewSuccess
  BY <1>1, <1>7 DEF Environment, CacheSync, PlaceWorkload, WorkloadLeaves, EditMode, Edit, OperatorCrash,
     AttemptFails, EditVersion, EditOther, EditUninstall
<1>9. QED
  BY <1>2, <1>4, <1>5, <1>6, <1>8 DEF Next, HeavyPass

LEMMA NoSuccessFacts ==
  ASSUME NoNewSuccess
  PROVE  Served' => Served
BY DEF NoNewSuccess, Served

\* A step that starts no configuration of the package, serves nothing and leaves what is
\* owed keeps what is said of an entry.
Quiet(q) == (Configuring(q)' => Configuring(q)) /\ (Served' => Served) /\ owed' = owed

LEMMA QuietSteps ==
  ASSUME NEW q, OnlyInterrupt(q), NoNewWork(jobs'), NoNewSuccess, owed' = owed
  PROVE  Quiet(q)
<1>1. Configuring(q)' => Configuring(q)
  BY InterruptName DEF NoNewWork, Continues, Configuring, JobUnfinished, ConfigOf
<1>2. QED
  BY <1>1, NoSuccessFacts DEF Quiet

LEMMA QuietHonours ==
  ASSUME NEW q, Quiet(q), HonourInv(q), UNCHANGED node,
         pass'.pc = "idle" \/ (pass.pc # "idle" /\ Mem(q)' = Mem(q) /\ Before(q)' = Before(q))
  PROVE  HonourInv(q)'
<1>1. Now(q)' = Now(q)
  BY DEF Now, Of
<1>2. AtInterrupt(q, Now(q))'
  BY <1>1 DEF HonourInv, AtInterrupt, Quiet
<1>3. pass'.pc # "idle" => PassHonours(q)'
  BY DEF HonourInv, PassHonours, AtInterrupt, Quiet
<1>4. QED
  BY <1>1, <1>2, <1>3 DEF HonourInv, Quiet

LEMMA EnvironmentHonours ==
  ASSUME NEW q, OnlyInterrupt(q), TypeInv, DrainInv(q), HonourInv(q), NoNewWork(jobs'), NoNewSuccess,
         Environment \/ ValidateRunningPackages \/ SuspendUnfinishedJobs \/ UNCHANGED vars,
         \A j \in JobName : ~JobSucceeds(j)
  PROVE  HonourInv(q)'
<1>1. UNCHANGED <<node, owed>>
  BY DEF DrainInv, Environment, CacheSync, PlaceWorkload, WorkloadLeaves, EditMode, Edit, OperatorCrash,
     AttemptFails, JobFails, JobFailureEnds, JobGone, JobSeen, EditVersion, EditOther,
     EditUninstall, ValidateRunningPackages, SuspendUnfinishedJobs, vars
<1>2. pass' = pass \/ pass' = IdlePass
  BY DEF Environment, CacheSync, PlaceWorkload, WorkloadLeaves, EditMode, Edit, OperatorCrash,
     AttemptFails, JobFails, JobFailureEnds, JobGone, JobSeen, EditVersion, EditOther,
     EditUninstall, ValidateRunningPackages, SuspendUnfinishedJobs, vars
<1>3. pass'.pc = "idle" \/ (pass.pc # "idle" /\ Mem(q)' = Mem(q) /\ Before(q)' = Before(q))
  BY <1>2, IdlePassType DEF Mem, Before, Of
<1>4. QED
  BY <1>1, <1>3, QuietSteps, QuietHonours

\* A configuration of the package ends while its entry is not at the interrupt; the end
\* of an interrupt serves the package.
LEMMA SuccessHonours ==
  ASSUME NEW q, OnlyInterrupt(q), TypeInv, DrainInv(q), HonourInv(q), NEW j \in JobName, JobSucceeds(j)
  PROVE  HonourInv(q)'
<1>0. /\ JobsOK(jobs) /\ jobs[j] \in Job /\ jobs[j].phase = "active"
      /\ UNCHANGED <<node, pass>> /\ ConfigOf(q) \in JobName
      /\ jobs' = [jobs EXCEPT ![j].phase = "complete"] /\ owed' = OwedAfter(j)
  BY SharedTypes, InterruptName DEF JobsOK, JobSucceeds, CanFinish
<1>1. \A i \in JobName : jobs'[i].phase = IF i = j THEN "complete" ELSE jobs[i].phase
  BY <1>0 DEF JobsOK, Job
<1>2. /\ Configuring(q)' => Configuring(q)
      /\ Now(q)' = Now(q) /\ Mem(q)' = Mem(q) /\ Before(q)' = Before(q)
  BY <1>0, <1>1 DEF Configuring, JobUnfinished, ConfigOf, Now, Mem, Before, Of
<1>3. KeyOf(j) = IF j[3] \in InterruptStages THEN Of(q) ELSE <<j[1], j[2]>>
  BY <1>0 DEF DrainInv, JobsHeld, Named, KeyOf
<1>4. CASE j = ConfigOf(q)
  <2>1. Configuring(q)
    BY <1>0, <1>4 DEF Configuring, JobUnfinished
  <2>2. Now(q).stage # "interrupt" /\ (pass.pc # "idle" => Mem(q).stage # "interrupt")
    BY <2>1 DEF HonourInv, PassHonours, AtInterrupt
  <2>3. KeyOf(j)[1] = q
    BY <1>3, <1>4 DEF ConfigOf, InterruptStages
  <2>4. owed' \subseteq {q}
    BY <1>0, <2>3 DEF OwedAfter, HonourInv
  <2>5. QED
    BY <1>0, <1>2, <2>2, <2>4 DEF HonourInv, PassHonours, AtInterrupt
<1>5. CASE j[3] = "interrupt"
  <2>1. j[1] = Interrupt[q]
    BY <1>5, InterruptName
  <2>2. owed' = {p \in owed : Priority(Interrupt[p]) < Priority(j[1])}
    BY <1>0, <1>5 DEF OwedAfter
  <2>3. q \notin owed' /\ owed' \subseteq {q}
    <3>1. Priority(Interrupt[q]) \in Nat
      BY DEF Priority
    <3>2. QED
      BY <2>1, <2>2, <3>1 DEF HonourInv
  <2>4. QED
    BY <1>0, <1>2, <2>3 DEF HonourInv, PassHonours, AtInterrupt
<1>6. CASE j # ConfigOf(q) /\ j[3] # "interrupt"
  <2>1. owed' = owed
    <3>1. CASE j[3] = "config"
      <4>1. j[1] \in Pkgs /\ j = <<j[1], 1, "config">> /\ KeyOf(j)[1] = j[1]
        BY <1>3, <3>1, InterruptName DEF InterruptStages
      <4>2. ~HasInterrupt[j[1]]
        BY <1>6, <4>1 DEF OnlyInterrupt, ConfigOf
      <4>3. QED
        BY <1>0, <3>1, <4>1, <4>2 DEF OwedAfter
    <3>2. CASE j[3] # "config"
      BY <1>0, <1>6, <3>2 DEF OwedAfter
    <3>3. QED
      BY <3>1, <3>2
  <2>2. Served' => Served
    BY <1>1, <1>6 DEF Served
  <2>3. QED
    BY <1>0, <1>2, <2>1, <2>2, QuietHonours DEF Quiet
<1>7. QED
  BY <1>4, <1>5, <1>6

LEMMA ReconcilersHonour ==
  ASSUME NEW q, OnlyInterrupt(q), TypeInv, SafeInv, DrainInv(q), HonourInv(q), Reconcilers,
         NoNewWork(jobs'), NoNewSuccess
  PROVE  HonourInv(q)'
<1>1. EntryStep(q)
  BY ReconcilersEntry
<1>2. UNCHANGED <<pass, owed>>
  BY DEF Reconcilers, MarkJobProcessed, JobReconcileFinished, JobReconcileInvalid, JobReconcileActive, PodReconcile
<1>3. Quiet(q)
  BY <1>2, QuietSteps
<1>4. /\ Now(q)'.stage = Now(q).stage /\ Now(q)'.state # "skipped"
      /\ Now(q)' = Now(q) \/ Now(q)'.state # "complete" \/ CompletedBy(q, Now(q).stage)
  BY <1>1 DEF EntryStep, Recorded, HonourInv
<1>5. CompletedBy(q, "interrupt") => Served
  BY DEF CompletedBy, Served
<1>6. Now(q)'.stage = "interrupt" /\ Now(q)'.state = "complete" => q \notin owed'
  BY <1>3, <1>4, <1>5 DEF HonourInv, AtInterrupt, Quiet
<1>7. AtInterrupt(q, Now(q))'
  BY <1>3, <1>4 DEF HonourInv, AtInterrupt, Quiet
<1>8. pass'.pc # "idle" => PassHonours(q)'
  BY <1>2, <1>3 DEF HonourInv, PassHonours, AtInterrupt, Quiet, Mem, Before, Of
<1>9. QED
  BY <1>3, <1>4, <1>6, <1>7, <1>8 DEF HonourInv, Quiet

LEMMA PassStartHonours ==
  ASSUME NEW q, OnlyInterrupt(q), TypeInv, SafeInv, DrainInv(q), HonourInv(q), NoNewWork(jobs'), NoNewSuccess,
         IntrospectSkyhook \/ RunSkyhookPackages
  PROVE  HonourInv(q)'
<1>1. UNCHANGED <<node, cache, owed>> /\ (pass' = pass \/ Begins(q))
  BY PassStarts
<1>2. Quiet(q) /\ Now(q)' = Now(q)
  BY <1>1, QuietSteps DEF Now, Of
<1>3. CASE pass' = pass
  <2>1. pass'.pc = "idle" \/ (pass.pc # "idle" /\ Mem(q)' = Mem(q) /\ Before(q)' = Before(q))
    BY <1>3 DEF Mem, Before, Of
  <2>2. QED
    BY <1>1, <1>2, <2>1, QuietHonours
<1>4. CASE Begins(q)
  <2>1. Mem(q)' = Now(q) /\ Before(q)' = Now(q)
    BY <1>4 DEF Begins, DrainInv, Mem, Before, Now, Of
  <2>2. PassHonours(q)'
    BY <1>2, <2>1 DEF HonourInv, PassHonours, AtInterrupt, Quiet
  <2>3. QED
    BY <1>2, <2>2 DEF HonourInv, AtInterrupt, Quiet
<1>5. QED
  BY <1>1, <1>3, <1>4

LEMMA SaveHonours ==
  ASSUME NEW q, OnlyInterrupt(q), TypeInv, DrainInv(q), HonourInv(q), SaveNodesAndSkyhook
  PROVE  HonourInv(q)'
<1>0. Of(q) \in Key /\ PassHonours(q)
  BY OnlyFacts DEF SaveNodesAndSkyhook, HonourInv
<1>1. /\ node'.ns = MergeDelta(pass.before.ns, pass.mem.ns, node.ns)
      /\ pass' = IdlePass /\ jobs' = jobs /\ owed' = owed
  BY DEF SaveNodesAndSkyhook, WriteNode
<1>2. Now(q)' = IF Before(q) = Mem(q) THEN Now(q) ELSE Mem(q)
  BY <1>0, <1>1 DEF MergeDelta, Now, Before, Mem, Of
<1>3. pass'.pc = "idle" /\ (Configuring(q)' <=> Configuring(q)) /\ (Served' <=> Served)
  BY <1>1, IdlePassType DEF Configuring, JobUnfinished, ConfigOf, Served
<1>4. QED
  BY <1>0, <1>1, <1>2, <1>3 DEF HonourInv, PassHonours, AtInterrupt

LEMMA OtherPackageHonours ==
  ASSUME NEW q, OnlyInterrupt(q), TypeInv, SafeInv, DrainInv(q), HonourInv(q),
         NEW p \in Pkgs, p # q, RunPackage(p)
  PROVE  HonourInv(q)'
<1>1. /\ DrainInv(q)' /\ pass.pc = "run" /\ UNCHANGED <<node, owed>>
      /\ pass' = IdlePass \/ (Mem(q)' = Mem(q) /\ Before(q)' = Before(q))
      /\ PassKey(p) # Of(q)
  BY OtherPackageDrain DEF passOnly
<1>2. NoNewSuccess
  BY RunCompletesNothing
<1>3. Quiet(q)
  <2>1. CASE NoNewWork(jobs')
    BY <1>1, <1>2, <2>1, QuietSteps
  <2>2. CASE \E j : Starts(jobs', PassKey(p), j)
    <3>0. PICK j \in JobName : Starts(jobs', PassKey(p), j)
      BY <2>2 DEF Starts
    <3>1. PICK pkg \in SpecPkg : jobs' = [jobs EXCEPT ![j] = NewJob(PassKey(p), pkg)]
      BY <3>0 DEF Starts
    <3>2. JobsOK(jobs) /\ ConfigOf(q) \in JobName
      BY SharedTypes, InterruptName
    <3>3. \A i \in JobName : jobs'[i] = IF i = j THEN NewJob(PassKey(p), pkg) ELSE jobs[i]
      BY <3>1, <3>2 DEF JobsOK
    <3>4. j # ConfigOf(q)
      <4> SUFFICES ASSUME j = ConfigOf(q) PROVE FALSE
        OBVIOUS
      <4>0. ASSUME NEW k PROVE NewJob(k, pkg).of = k /\ NewJob(k, pkg).phase = "active"
        BY NewJobFields
      <4>1. jobs'[j].of = PassKey(p) /\ jobs'[j].phase = "active"
        BY <3>3, <4>0
      <4>2. jobs'[j].of = Of(q)
        BY <1>1, <3>1, <4>1 DEF DrainInv, JobsHeld, Named, ConfigOf, InterruptStages, Of
      <4>3. QED
        BY <1>1, <4>1, <4>2
    <3>5. Configuring(q)' => Configuring(q)
      BY <3>2, <3>3, <3>4 DEF Configuring, JobUnfinished, ConfigOf
    <3>6. QED
      BY <1>1, <1>2, <3>5, NoSuccessFacts DEF Quiet
  <2>3. QED
    BY <2>1, <2>2, RunPackageStarts
<1>4. pass'.pc = "idle" \/ (pass.pc # "idle" /\ Mem(q)' = Mem(q) /\ Before(q)' = Before(q))
  BY <1>1, IdlePassType
<1>5. QED
  BY <1>1, <1>3, <1>4, QuietHonours

\* What the package starts: a configuration only from before the interrupt, and an
\* interrupt only when no configuration runs and its Job's name is free.
LEMMA StartHonours ==
  ASSUME NEW q, OnlyInterrupt(q), TypeInv, DrainInv(q), HonourInv(q), pass.pc = "run", q \in pass.rest,
         NEW j \in JobName, Starts(jobs', Of(q), j), NoNewSuccess, UNCHANGED <<node, owed>>,
         j[3] = "config" => Mem(q).stage \in {"apply", "upgrade", "config"},
         j[3] = "interrupt" => ~HasRunningPackages
  PROVE  /\ AtInterrupt(q, Now(q))'
         /\ j[3] = "interrupt" => ~Configuring(q)' /\ ~Served'
<1>0. JobsOK(jobs) /\ ConfigOf(q) \in JobName /\ jobs[j].phase = "none"
  BY SharedTypes, InterruptName DEF Starts
<1>1. PICK pkg \in SpecPkg : jobs' = [jobs EXCEPT ![j] = NewJob(Of(q), pkg)]
  BY DEF Starts
<1>2. \A i \in JobName : jobs'[i] = IF i = j THEN NewJob(Of(q), pkg) ELSE jobs[i]
  BY <1>0, <1>1 DEF JobsOK
<1>3. NewJob(Of(q), pkg).phase = "active"
  BY DEF NewJob, NoJob
<1>4. Now(q)' = Now(q) /\ Now(q).stage = Mem(q).stage /\ (Served' => Served)
  BY NoSuccessFacts DEF DrainInv, PassHeld, Now, Of
<1>5. CASE j[3] = "config"
  BY <1>4, <1>5 DEF AtInterrupt
<1>6. CASE j[3] # "config"
  <2>1. Configuring(q)' => Configuring(q)
    BY <1>0, <1>2, <1>6 DEF Configuring, JobUnfinished, ConfigOf
  <2>2. AtInterrupt(q, Now(q))'
    BY <1>4, <2>1 DEF HonourInv, AtInterrupt
  <2>3. ASSUME j[3] = "interrupt" PROVE ~Configuring(q)' /\ ~Served'
    <3>1. ~Configuring(q)
      BY <1>0, <2>3 DEF HasRunningPackages, Listed, Configuring, JobUnfinished, DrainInv, JobsHeld, AllSeen
    <3>2. ASSUME NEW i \in JobName, i[3] = "interrupt" PROVE jobs'[i].phase # "complete"
      BY <1>2, <1>3, <2>3, <3>2, InterruptName
    <3>3. QED
      BY <2>1, <3>1, <3>2 DEF Served
  <2>4. QED
    BY <2>2, <2>3
<1>7. QED
  BY <1>5, <1>6

LEMMA InterrupterHonours ==
  ASSUME NEW q, OnlyInterrupt(q), TypeInv, SafeInv, DrainInv(q), HonourInv(q), RunPackage(q)
  PROVE  HonourInv(q)'
<1>0. pass \in Passes /\ Of(q) \in Key /\ q \in Pkgs
  BY OnlyFacts DEF TypeInv, TypeOK, Passes
<1>1. pass.pc = "run" /\ q \in pass.rest /\ q \notin pass.un /\ UNCHANGED <<node, owed>>
  BY InterrupterStep DEF passOnly
<1>2. PICK m \in Node : (pass' = IdlePass \/ Advance(q, m)) /\ Outcome(q, m)
  BY InterrupterStep
<1>3. NoNewSuccess
  BY <1>0, RunCompletesNothing
<1>4. Advance(q, m) => Before(q)' = Before(q) /\ Mem(q)' = m.ns[Of(q)]
  BY <1>0 DEF Advance, Passes, Before, Mem, Of
<1>5. Mem(q) = Before(q) /\ PassHonours(q) /\ Mem(q).state # "skipped"
  BY <1>1 DEF DrainInv, PassHeld, HonourInv, PassHonours
<1>6. CASE NoNewWork(jobs') /\ m.ns[Of(q)] = Mem(q)
  <2>1. pass'.pc = "idle" \/ (pass.pc # "idle" /\ Mem(q)' = Mem(q) /\ Before(q)' = Before(q))
    BY <1>1, <1>2, <1>4, <1>6, IdlePassType
  <2>2. QED
    BY <1>1, <1>3, <1>6, <2>1, QuietSteps, QuietHonours
<1>7. CASE \E j \in JobName :
             /\ Starts(jobs', Of(q), j)
             /\ m.ns[Of(q)].stage = j[3] /\ m.ns[Of(q)].state = "in_progress"
             /\ j[3] = "config" => Mem(q).stage \in {"apply", "upgrade", "config"}
             /\ j[3] = "interrupt" => ~HasRunningPackages
  <2>1. PICK j \in JobName :
             /\ Starts(jobs', Of(q), j)
             /\ m.ns[Of(q)].stage = j[3] /\ m.ns[Of(q)].state = "in_progress"
             /\ j[3] = "config" => Mem(q).stage \in {"apply", "upgrade", "config"}
             /\ j[3] = "interrupt" => ~HasRunningPackages
    BY <1>7
  <2>2. /\ AtInterrupt(q, Now(q))'
        /\ j[3] = "interrupt" => ~Configuring(q)' /\ ~Served'
    BY <1>1, <1>3, <2>1, StartHonours
  <2>3. Now(q)' = Now(q) /\ owed' = owed
    BY <1>1 DEF Now, Of
  <2>4. CASE pass' = IdlePass
    BY <2>2, <2>3, <2>4, IdlePassType DEF HonourInv
  <2>5. CASE Advance(q, m)
    <3>1. PassHonours(q)'
      BY <1>4, <1>5, <2>1, <2>2, <2>5 DEF PassHonours, AtInterrupt
    <3>2. QED
      BY <2>2, <2>3, <3>1 DEF HonourInv
  <2>6. QED
    BY <1>2, <2>4, <2>5
<1>8. QED
  BY <1>2, <1>5, <1>6, <1>7 DEF Outcome

LEMMA NextHonours ==
  ASSUME NEW q, OnlyInterrupt(q)
  PROVE  TypeInv /\ SafeInv /\ DrainInv(q) /\ HonourInv(q) /\ [Next]_vars => HonourInv(q)'
<1> SUFFICES ASSUME TypeInv, SafeInv, DrainInv(q), HonourInv(q), [Next]_vars PROVE HonourInv(q)'
  OBVIOUS
<1>1. CASE UNCHANGED vars
  <2>1. UNCHANGED <<node, pass, owed, jobs>>
    BY <1>1 DEF vars
  <2>2. QED
    BY <2>1 DEF HonourInv, PassHonours, AtInterrupt, Configuring, JobUnfinished, ConfigOf, Served, Now, Mem,
       Before, Of
<1>2. ASSUME NEW p \in Pkgs, RunPackage(p)
      PROVE  HonourInv(q)'
  BY <1>2, OtherPackageHonours, InterrupterHonours
<1>3. ASSUME NEW j \in JobName, JobSucceeds(j)
      PROVE  HonourInv(q)'
  BY <1>3, SuccessHonours
<1>4. CASE Next /\ (\A p \in Pkgs : ~RunPackage(p)) /\ \A j \in JobName : ~JobSucceeds(j)
  <2>1. NoNewWork(jobs') /\ NoNewSuccess
    BY <1>4, OtherStepsStartNothing, OthersCompleteNothing
  <2>2. QED
    BY <1>4, <2>1, EnvironmentHonours, ReconcilersHonour, PassStartHonours, SaveHonours DEF Next, HeavyPass
<1>5. QED
  BY <1>1, <1>2, <1>3, <1>4

\* Under the same conditions: a package whose interrupt stage is recorded as complete was
\* interrupted after it was last configured, whatever is deleted, retried or restarted in
\* between (HandleCompletePod, ProcessInterrupt).
THEOREM InterruptServed ==
  ASSUME NodeLag = FALSE, JobLag = FALSE, MaxVersion = 1,
         \A p \in Pkgs : HasInterrupt[p] => p \in KeptPkgs,
         \A p, o \in Pkgs : HasInterrupt[p] /\ HasInterrupt[o] => p = o,
         \E p \in Pkgs : HasInterrupt[p]
  PROVE  Spec => []InterruptHonoured
<1>1. PICK q \in Pkgs : HasInterrupt[q]
  OBVIOUS
<1>2. OnlyInterrupt(q)
  BY <1>1 DEF OnlyInterrupt
<1>3. Init => HonourInv(q)
  <2> SUFFICES ASSUME Init PROVE HonourInv(q)
    OBVIOUS
  <2>1. Now(q) = NoEntry /\ owed = {} /\ pass.pc = "idle"
    BY <1>2, OnlyFacts, IdlePassType DEF Init, InitialNode, EmptyNodeState, Now
  <2>2. QED
    BY <2>1 DEF HonourInv, AtInterrupt, NoEntry
<1>4. TypeInv /\ HonourInv(q) => InterruptHonoured
  <2> SUFFICES ASSUME TypeInv, HonourInv(q), NEW k \in Key, node.ns[k].state = "complete",
                      node.ns[k].stage = "interrupt"
               PROVE  k[1] \notin owed
    BY DEF InterruptHonoured
  <2>1. CASE k = Of(q)
    BY <2>1 DEF HonourInv, Now, Of
  <2>2. CASE k # Of(q)
    BY <1>2, <2>2, OnlyFacts DEF HonourInv
  <2>3. QED
    BY <2>1, <2>2
<1>5. TypeInv /\ SafeInv /\ DrainInv(q) /\ HonourInv(q) /\ [Next]_vars => HonourInv(q)'
  BY <1>2, NextHonours
<1>6. Spec => []DrainInv(q)
  BY <1>2, DrainInvariant
<1>7. QED
  BY <1>3, <1>4, <1>5, <1>6, Safety, TypeInvariant, PTL DEF Spec

-----------------------------------------------------------------------------
(***************************************************************************)
(* Upgrades replace, for packages without an interrupt whose versions only *)
(* go up and that are not uninstalled, with a node cache that is up to     *)
(* date; the Job cache may lag, and whatever else may fail or restart.     *)
(*                                                                         *)
(* The argument: while an older version has an entry, a newer one is at    *)
(* an upgrade that is not recorded.  Planning puts it there, the record of *)
(* its completion removes the older entries in the same write, and no      *)
(* entry comes back, because only one pass writes at a time and only under *)
(* the version it has read.                                                *)
(***************************************************************************)
Upgrading(e) == e.stage = "upgrade" /\ e.state # "complete"

Early(ns, p) ==
  \A v \in Versions :
    \/ ns[<<p, v>>] = NoEntry
    \/ ns[<<p, v>>].ver = v /\ ns[<<p, v>>].stage \in {"apply", "upgrade", "config"}

Replaced(ns, p) ==
  \A v, w \in Versions : v < w /\ Present(ns, <<p, v>>) /\ Present(ns, <<p, w>>) => Upgrading(ns[<<p, w>>])

Below(ns, sp, p) == \A v \in Versions : Present(ns, <<p, v>>) => v <= sp[p].ver

Older(ns, p, w) == \E v \in Versions : v < w /\ Present(ns, <<p, v>>)

NoneAppear(from, to, p) == \A v \in Versions : Present(to, <<p, v>>) => Present(from, <<p, v>>)

PassReplaces(p) ==
  LET w == pass.spec[p].ver
      before == pass.before.ns
      mem == pass.mem.ns
  IN  /\ w <= spec[p].ver
      /\ Early(before, p) /\ Replaced(before, p) /\ Below(before, pass.spec, p)
      /\ Early(mem, p)
      /\ NoneAppear(before, node.ns, p)
      /\ \A v \in Versions \ {w} : mem[<<p, v>>] = before[<<p, v>>]
      /\ Older(before, p, w) =>
           Upgrading(mem[<<p, w>>]) \/ (pass.pc = "save" /\ mem[<<p, w>>] = before[<<p, w>>])

UpgradeInv(p) ==
  /\ cache = node
  /\ Early(node.ns, p) /\ Replaced(node.ns, p) /\ Below(node.ns, spec, p)
  /\ pass.pc # "idle" => PassReplaces(p)

\* What the reconcilers do to a package's entries, but for the end of an upgrade.
Reported(from, to, p) ==
  \A v \in Versions :
    \/ to[<<p, v>>] = from[<<p, v>>]
    \/ /\ from[<<p, v>>].state # "none" /\ to[<<p, v>>].ver = v
       /\ to[<<p, v>>].stage = from[<<p, v>>].stage
       /\ \/ to[<<p, v>>].state = "erroring"
          \/ to[<<p, v>>].state = "complete" /\ to[<<p, v>>].stage # "upgrade"

Shrinks(from, to, p) == Early(to, p) /\ Replaced(to, p) /\ NoneAppear(from, to, p)

LEMMA ReportedShrinks ==
  ASSUME NEW p \in Pkgs, NEW from \in NodeStates, NEW to, Early(from, p), Replaced(from, p), Reported(from, to, p)
  PROVE  Shrinks(from, to, p)
<1>1. Early(to, p)
  BY DEF Early, Reported, NoEntry
<1>2. NoneAppear(from, to, p)
  BY DEF NoneAppear, Reported, Present
<1>3. Replaced(to, p)
  <2> SUFFICES ASSUME NEW v \in Versions, NEW w \in Versions, v < w, Present(to, <<p, v>>), Present(to, <<p, w>>)
               PROVE  Upgrading(to[<<p, w>>])
    BY DEF Replaced
  <2>1. Upgrading(from[<<p, w>>])
    BY <1>2 DEF NoneAppear, Replaced
  <2>2. QED
    BY <2>1 DEF Reported, Upgrading
<1>4. QED
  BY <1>1, <1>2, <1>3 DEF Shrinks

\* An entry of one package is none of another's.
LEMMA OtherEntry ==
  ASSUME NEW p \in Pkgs, NEW from \in NodeStates, NEW to, Early(from, p), Replaced(from, p),
         \A v \in Versions : to[<<p, v>>] = from[<<p, v>>]
  PROVE  Shrinks(from, to, p)
BY ReportedShrinks DEF Reported

LEMMA UpsertFields ==
  ASSUME NEW ns \in NodeStates, NEW k \in Key, NEW stage \in Stage, NEW state \in State,
         NEW to, to = Upsert(ns, k, stage, state)
  PROVE  /\ to[k].ver = k[2] /\ to[k].stage = stage /\ to[k].state = state
         /\ \A i \in Key \ {k} : to[i] = ns[i]
BY UpsertType, StatusType

LEMMA ErringShrinks ==
  ASSUME NEW p \in Pkgs, NEW ns \in NodeStates, Early(ns, p), Replaced(ns, p),
         NEW k \in Key, NEW stage \in Stage, Present(ns, k), ns[k].stage = stage
  PROVE  Shrinks(ns, Upsert(ns, k, stage, "erroring"), p)
<1> DEFINE to == Upsert(ns, k, stage, "erroring")
<1>1. /\ to[k].ver = k[2] /\ to[k].stage = stage /\ to[k].state = "erroring"
      /\ \A i \in Key \ {k} : to[i] = ns[i]
  BY UpsertType, StatusType DEF State
<1> HIDE DEF to
<1>2. Reported(ns, to, p)
  <2> SUFFICES ASSUME NEW v \in Versions, to[<<p, v>>] # ns[<<p, v>>]
               PROVE  /\ ns[<<p, v>>].state # "none" /\ to[<<p, v>>].ver = v
                      /\ to[<<p, v>>].stage = ns[<<p, v>>].stage /\ to[<<p, v>>].state = "erroring"
    BY DEF Reported
  <2>1. <<p, v>> \in Key
    BY DEF Key
  <2>2. k = <<p, v>>
    BY <1>1, <2>1
  <2>3. QED
    BY <1>1, <2>2 DEF Present
<1>3. QED
  BY <1>2, ReportedShrinks DEF to

LEMMA CompletingShrinks ==
  ASSUME NEW p \in Pkgs, NEW ns \in NodeStates, Early(ns, p), Replaced(ns, p),
         NEW j \in JobName, KeyOf(j) \in Key, j[3] # "upgrade"
  PROVE  Shrinks(ns, RecordComplete(ns, j), p)
<1> DEFINE to == RecordComplete(ns, j)
<1>0. j[3] \in Stage
  BY JobNameParts
<1>1. CASE ~EntryOpenAtStage(ns, KeyOf(j), j[3])
  <2>1. to = ns
    BY <1>1 DEF RecordComplete
  <2>2. QED
    BY <2>1, OtherEntry
<1>2. CASE EntryOpenAtStage(ns, KeyOf(j), j[3])
  <2> DEFINE k == KeyOf(j)
  <2>1. to = Upsert(ns, k, j[3], "complete") /\ k \in Key
    BY <1>2 DEF RecordComplete
  <2>2. Present(ns, k) /\ ns[k].stage = j[3]
    BY <1>2 DEF EntryOpenAtStage
  <2> HIDE DEF to, k
  <2>3. /\ to[k].ver = k[2] /\ to[k].stage = j[3] /\ to[k].state = "complete"
        /\ \A i \in Key \ {k} : to[i] = ns[i]
    BY <1>0, <2>1, UpsertFields DEF State
  <2>4. Reported(ns, to, p)
    <3> SUFFICES ASSUME NEW v \in Versions, to[<<p, v>>] # ns[<<p, v>>]
                 PROVE  /\ ns[<<p, v>>].state # "none" /\ to[<<p, v>>].ver = v
                        /\ to[<<p, v>>].stage = ns[<<p, v>>].stage
                        /\ to[<<p, v>>].state = "complete" /\ to[<<p, v>>].stage # "upgrade"
      BY DEF Reported
    <3>1. <<p, v>> \in Key
      BY DEF Key
    <3>2. k = <<p, v>>
      BY <2>3, <3>1
    <3>3. QED
      BY <2>2, <2>3, <3>2 DEF Present
  <2>5. QED
    BY <2>4, ReportedShrinks DEF to
<1>3. QED
  BY <1>1, <1>2

\* The end of an upgrade leaves no entry but its own.
LEMMA UpgradeShrinks ==
  ASSUME NEW p \in Pkgs, NEW ns \in NodeStates, Early(ns, p), Replaced(ns, p),
         NEW j \in JobName, KeyOf(j) \in Key, j[3] = "upgrade", EntryOpenAtStage(ns, KeyOf(j), j[3])
  PROVE  Shrinks(ns, RecordComplete([k \in Key |-> IF k \in Superseded(ns, j) THEN NoEntry ELSE ns[k]], j), p)
<1> DEFINE cut == [k \in Key |-> IF k \in Superseded(ns, j) THEN NoEntry ELSE ns[k]]
           to == RecordComplete(cut, j)
           own == KeyOf(j)
<1>1. cut \in NodeStates /\ own \in Key /\ own \notin Superseded(ns, j) /\ "upgrade" \in Stage
  BY DEF NodeStates, Superseded, Stage
<1>2. cut[own] = ns[own]
  BY <1>1
<1>3. to = Upsert(cut, own, "upgrade", "complete")
  BY <1>2 DEF RecordComplete, EntryOpenAtStage, Present
<1>4. Present(ns, own) /\ ns[own].stage = "upgrade"
  BY DEF EntryOpenAtStage
<1>5. \A k \in Key : cut[k] = IF k \in Superseded(ns, j) THEN NoEntry ELSE ns[k]
  OBVIOUS
<1> HIDE DEF to, cut
<1>6. /\ to[own].ver = own[2] /\ to[own].stage = "upgrade" /\ to[own].state = "complete"
      /\ \A k \in Key \ {own} : to[k] = cut[k]
  <2> HIDE DEF own
  <2>1. QED
    BY <1>1, <1>3, UpsertFields DEF State
<1>7. CASE own[1] # p
  <2>1. ASSUME NEW v \in Versions PROVE to[<<p, v>>] = ns[<<p, v>>]
    <3>1. <<p, v>> \in Key /\ <<p, v>> # own
      BY <1>7 DEF Key
    <3>2. <<p, v>> \notin Superseded(ns, j)
      BY <1>7 DEF Superseded
    <3>3. QED
      BY <1>5, <1>6, <3>1, <3>2
  <2>2. QED
    BY <2>1, OtherEntry DEF to, cut
<1>8. CASE own[1] = p
  <2>1. ASSUME NEW v \in Versions, <<p, v>> # own PROVE to[<<p, v>>] = NoEntry
    <3>1. <<p, v>> \in Key
      BY DEF Key
    <3>2. CASE ns[<<p, v>>] = NoEntry
      BY <1>5, <1>6, <2>1, <3>1, <3>2
    <3>3. CASE ns[<<p, v>>] # NoEntry
      <4>1. Present(ns, <<p, v>>) /\ ns[<<p, v>>].ver = v
        BY <3>1, <3>3, PresentType DEF Early
      <4>2. <<p, v>> \in Superseded(ns, j)
        BY <1>8, <2>1, <3>1, <4>1 DEF Superseded
      <4>3. QED
        BY <1>5, <1>6, <2>1, <3>1, <4>2
    <3>4. QED
      BY <3>2, <3>3
  <2>2. PICK u \in Versions : own = <<p, u>>
    BY <1>1, <1>8 DEF Key
  <2>3. to[<<p, u>>].ver = u /\ to[<<p, u>>].stage = "upgrade"
    BY <1>6, <2>2
  <2>4. Early(to, p)
    BY <2>1, <2>2, <2>3 DEF Early
  <2>5. \A v \in Versions : Present(to, <<p, v>>) => v = u
    BY <2>1, <2>2 DEF Present, NoEntry
  <2>6. NoneAppear(ns, to, p)
    BY <1>4, <2>2, <2>5 DEF NoneAppear
  <2>7. Replaced(to, p)
    BY <2>5 DEF Replaced, Versions
  <2>8. QED
    BY <2>4, <2>6, <2>7 DEF Shrinks, to, cut
<1>9. QED
  BY <1>7, <1>8

LEMMA CompletionShrinks ==
  ASSUME TypeInv, NEW p \in Pkgs, ~HasInterrupt[p], Early(node.ns, p), Replaced(node.ns, p),
         NEW j \in JobName, jobs[j].phase # "none", ShouldRecordCompletion(node.ns, j),
         NEW ns \in RecordJobCompletion(node.ns, j)
  PROVE  Shrinks(node.ns, ns, p)
<1>0. /\ node.ns \in NodeStates /\ KeyOf(j) \in Key /\ j[3] \in Stage /\ spec \in Specs
      /\ \A o \in Pkgs : spec[o].ver \in Versions
  BY SharedTypes, KeyOfType, SpecKeyType
<1>1. \A v \in Versions : node.ns[<<p, v>>].stage \in {"none", "apply", "upgrade", "config"}
  BY DEF Early, NoEntry
<1>2. CASE IsInterruptJob(j)
  <2>1. PICK n \in ProgressSkipped(node.ns, spec) : ns = RecordComplete(n, j)
    BY <1>2 DEF RecordJobCompletion, IsInterruptJob, InterruptStages
  <2>2. /\ n \in NodeStates
        /\ \A k \in Key : \/ n[k] = node.ns[k]
                          \/ \E v \in Versions : node.ns[<<k[1], v>>].stage = "interrupt"
    BY <1>0, ProgressSkippedType
  <2>3. ASSUME NEW v \in Versions PROVE n[<<p, v>>] = node.ns[<<p, v>>]
    <3>1. <<p, v>> \in Key /\ <<p, v>>[1] = p
      BY DEF Key
    <3>2. ~\E u \in Versions : node.ns[<<p, u>>].stage = "interrupt"
      BY <1>1
    <3>3. QED
      BY <2>2, <3>1, <3>2
  <2>4. Shrinks(node.ns, n, p)
    BY <1>0, <2>3, OtherEntry
  <2>5. Shrinks(n, ns, p)
    BY <1>0, <1>2, <2>1, <2>2, <2>4, CompletingShrinks DEF Shrinks, IsInterruptJob, InterruptStages
  <2>6. QED
    BY <2>4, <2>5 DEF Shrinks, NoneAppear
<1>3. CASE j[3] = "upgrade"
  <2>1. EntryOpenAtStage(node.ns, KeyOf(j), j[3])
    BY <1>3 DEF ShouldRecordCompletion, IsInterruptJob, InterruptStages
  <2>2. ns = RecordComplete([k \in Key |-> IF k \in Superseded(node.ns, j) THEN NoEntry ELSE node.ns[k]], j)
    BY <1>3 DEF RecordJobCompletion, IsInterruptJob, InterruptStages
  <2>3. QED
    BY <1>0, <1>3, <2>1, <2>2, UpgradeShrinks
<1>4. CASE j[3] = "uninstall"
  <2>1. node.ns[KeyOf(j)].stage = "uninstall"
    BY <1>4 DEF ShouldRecordCompletion, EntryOpenAtStage, IsInterruptJob, InterruptStages
  <2>2. KeyOf(j)[1] # p
    BY <1>0, <1>1, <2>1 DEF Key
  <2>3. \/ ns = Upsert(node.ns, KeyOf(j), "uninstall-interrupt", "in_progress")
        \/ ns = RemoveState(node.ns, KeyOf(j))
    BY <1>4 DEF RecordJobCompletion, IsInterruptJob, InterruptStages
  <2>4. \A k \in Key \ {KeyOf(j)} : ns[k] = node.ns[k]
    BY <1>0, <2>3 DEF Upsert, RemoveState, NodeStates
  <2>5. \A v \in Versions : ns[<<p, v>>] = node.ns[<<p, v>>]
    BY <2>2, <2>4 DEF Key
  <2>6. QED
    BY <1>0, <2>5, OtherEntry
<1>5. CASE ~IsInterruptJob(j) /\ j[3] \notin {"upgrade", "uninstall"}
  <2>1. ns = RecordComplete(node.ns, j)
    BY <1>5 DEF RecordJobCompletion
  <2>2. QED
    BY <1>0, <1>5, <2>1, CompletingShrinks
<1>6. QED
  BY <1>2, <1>3, <1>4, <1>5

\* A reconciler's write of the annotation, or none.
Writes(p) ==
  /\ cache = node => cache' = node'
  /\ Shrinks(node.ns, node'.ns, p)

LEMMA WriteShrinks ==
  ASSUME TypeInv, NodeLag = FALSE, NEW p \in Pkgs, NEW ns \in NodeStates, Shrinks(node.ns, ns, p),
         WriteNode([node EXCEPT !.ns = ns])
  PROVE  Writes(p)
<1>1. node' = [node EXCEPT !.ns = ns] /\ cache' = node' /\ node \in Node
  BY SharedTypes DEF WriteNode
<1>2. node'.ns = ns
  BY <1>1 DEF Node
<1>3. QED
  BY <1>1, <1>2 DEF Writes

LEMMA ErrorShrinks ==
  ASSUME TypeInv, NodeLag = FALSE, NEW p \in Pkgs, Early(node.ns, p), Replaced(node.ns, p),
         NEW k \in Key, NEW stage \in Stage, Present(node.ns, k), node.ns[k].stage = stage,
         RecordErroring(k, stage)
  PROVE  Writes(p)
<1> DEFINE ns == Upsert(node.ns, k, stage, "erroring")
<1>1. node.ns \in NodeStates
  BY SharedTypes
<1>2. ns \in NodeStates
  BY <1>1, UpsertType DEF State
<1>3. Shrinks(node.ns, ns, p)
  BY <1>1, ErringShrinks
<1>4. WriteNode([node EXCEPT !.ns = ns])
  BY DEF RecordErroring
<1> HIDE DEF ns
<1>5. QED
  BY <1>2, <1>3, <1>4, WriteShrinks

LEMMA ReconcilersShrink ==
  ASSUME TypeInv, NodeLag = FALSE, NEW p \in Pkgs, ~HasInterrupt[p], UpgradeInv(p), Reconcilers
  PROVE  Writes(p)
<1>0. node.ns \in NodeStates /\ Early(node.ns, p) /\ Replaced(node.ns, p)
  BY SharedTypes DEF UpgradeInv
<1>1. UNCHANGED <<node, cache>> => Writes(p)
  BY <1>0, OtherEntry DEF Writes
<1>2. ASSUME NEW j \in JobName, Listed(j), HandleCompleteJob(j) PROVE Writes(p)
  <2>1. jobs[j].phase # "none"
    BY <1>2 DEF Listed
  <2>2. CASE UNCHANGED <<node, cache>>
    BY <1>1, <2>2
  <2>3. CASE /\ ShouldRecordCompletion(node.ns, j)
             /\ \E ns \in RecordJobCompletion(node.ns, j) : WriteNode([node EXCEPT !.ns = ns])
    <3>1. PICK ns \in RecordJobCompletion(node.ns, j) : WriteNode([node EXCEPT !.ns = ns])
      BY <2>3
    <3>2. ns \in NodeStates /\ Shrinks(node.ns, ns, p)
      BY <1>0, <2>1, <2>3, RecordJobCompletionType, CompletionShrinks
    <3>3. QED
      BY <3>1, <3>2, WriteShrinks
  <2>4. QED
    BY <1>2, <2>2, <2>3 DEF HandleCompleteJob
<1>3. ASSUME NEW k \in Key, NEW stage \in Stage, ShouldRecordErroring(node.ns, k, stage), RecordErroring(k, stage)
      PROVE  Writes(p)
  BY <1>0, <1>3, ErrorShrinks DEF ShouldRecordErroring
<1>4. ASSUME NEW j \in JobName, Listed(j), HandleFailedJob(j) PROVE Writes(p)
  <2>1. KeyOf(j) \in Key /\ j[3] \in Stage
    BY <1>4, KeyOfType DEF Listed
  <2>2. QED
    BY <1>1, <1>3, <1>4, <2>1 DEF HandleFailedJob
<1>5. ASSUME NEW j \in JobName, JobReconcileActive(j) PROVE Writes(p)
  <2>1. KeyOf(j) \in Key /\ j[3] \in Stage
    BY <1>5, KeyOfType DEF JobReconcileActive, Listed
  <2>2. QED
    BY <1>3, <1>5, <2>1 DEF JobReconcileActive
<1>6. ASSUME NEW j \in JobName, NEW k \in Key, PodReconcile(j, k) PROVE Writes(p)
  <2>1. j[3] \in Stage
    BY JobNameParts
  <2>2. QED
    BY <1>0, <1>1, <1>6, <2>1, ErrorShrinks DEF PodReconcile, EntryOpenAtStage
<1>7. QED
  BY <1>1, <1>2, <1>4, <1>5, <1>6 DEF Reconcilers, MarkJobProcessed, JobReconcileFinished, JobReconcileInvalid

LEMMA ReconcilersReplace ==
  ASSUME TypeInv, NodeLag = FALSE, NEW p \in Pkgs, ~HasInterrupt[p], UpgradeInv(p), Reconcilers
  PROVE  UpgradeInv(p)'
<1>1. Writes(p) /\ UNCHANGED <<pass, spec>>
  BY ReconcilersShrink
     DEF Reconcilers, MarkJobProcessed, JobReconcileFinished, JobReconcileInvalid, JobReconcileActive, PodReconcile
<1>2. cache' = node' /\ Early(node'.ns, p) /\ Replaced(node'.ns, p) /\ NoneAppear(node.ns, node'.ns, p)
  BY <1>1 DEF Writes, Shrinks, UpgradeInv
<1>3. Below(node'.ns, spec', p)
  BY <1>1, <1>2 DEF Below, NoneAppear, UpgradeInv
<1>4. pass'.pc # "idle" => PassReplaces(p)'
  <2> SUFFICES ASSUME pass.pc # "idle" PROVE PassReplaces(p)'
    BY <1>1
  <2>1. PassReplaces(p)
    BY DEF UpgradeInv
  <2>2. NoneAppear(pass.before.ns, node'.ns, p)
    BY <1>2, <2>1 DEF PassReplaces, NoneAppear
  <2>3. QED
    BY <1>1, <2>1, <2>2 DEF PassReplaces, Early, Replaced, Below, Older
<1>5. QED
  BY <1>2, <1>3, <1>4 DEF UpgradeInv, Early, Replaced, Below

\* Planning moves only the entry of the spec's version, and only to an upgrade from an
\* older one.
LEMMA VersionChangeOf ==
  ASSUME NEW ns \in NodeStates, NEW sp \in Specs, NEW p \in Pkgs, Early(ns, p)
  PROVE  LET to == HandleVersionChange(ns, sp)
             w == sp[p].ver
         IN  /\ to \in NodeStates /\ Early(to, p)
             /\ \A v \in Versions \ {w} : to[<<p, v>>] = ns[<<p, v>>]
             /\ \/ to[<<p, w>>] = ns[<<p, w>>] /\ (Older(ns, p, w) => ns[<<p, w>>].stage = "upgrade")
                \/ to[<<p, w>>].stage = "upgrade" /\ to[<<p, w>>].state = "in_progress"
<1> DEFINE to == HandleVersionChange(ns, sp)
           w == sp[p].ver
<1>1. /\ to \in NodeStates /\ w \in Versions /\ <<p, w>> \in Key /\ SpecKey(sp, p) = <<p, w>>
      /\ \A v \in Versions : <<p, v>> \in Key
  BY HandleVersionChangeType, SpecKeyType DEF Key, SpecKey
<1>2. \A v \in Versions : to[<<p, v>>] = IF <<p, v>> = <<p, w>> /\ UpgradeNeeded(ns, sp, p)
                                            THEN Status(<<p, v>>, "upgrade", "in_progress") ELSE ns[<<p, v>>]
  BY <1>1 DEF HandleVersionChange, SpecKey
<1>3. \A v \in Versions \ {w} : to[<<p, v>>] = ns[<<p, v>>]
  BY <1>2
<1>4. CASE UpgradeNeeded(ns, sp, p)
  <2>1. to[<<p, w>>].stage = "upgrade" /\ to[<<p, w>>].state = "in_progress" /\ to[<<p, w>>].ver = w
    <3>1. ASSUME NEW v
          PROVE  LET e == Status(<<p, v>>, "upgrade", "in_progress")
                 IN  e.stage = "upgrade" /\ e.state = "in_progress" /\ e.ver = v
      BY DEF Status
    <3>2. to[<<p, w>>] = Status(<<p, w>>, "upgrade", "in_progress")
      BY <1>1, <1>2, <1>4
    <3>3. QED
      BY <3>1, <3>2
  <2> HIDE DEF to
  <2>2. Early(to, p)
    BY <1>3, <2>1 DEF Early
  <2>3. QED
    BY <1>1, <1>3, <2>1, <2>2 DEF to
<1>5. CASE ~UpgradeNeeded(ns, sp, p)
  <2>1. to[<<p, w>>] = ns[<<p, w>>]
    BY <1>1, <1>2, <1>5
  <2>2. Older(ns, p, w) => ns[<<p, w>>].stage = "upgrade"
    <3> SUFFICES ASSUME NEW v \in Versions, v < w, Present(ns, <<p, v>>) PROVE ns[<<p, w>>].stage = "upgrade"
      BY DEF Older
    <3>1. ns[<<p, v>>].ver < w
      BY DEF Early, Present, NoEntry
    <3>2. ~IsUninstallCycleInProgress(ns, <<p, w>>)
      BY <1>1 DEF IsUninstallCycleInProgress, Early, NoEntry
    <3>3. QED
      BY <1>1, <1>5, <3>1, <3>2 DEF UpgradeNeeded
  <2> HIDE DEF to
  <2>3. Early(to, p)
    BY <1>3, <2>1 DEF Early
  <2>4. QED
    BY <1>1, <1>3, <2>1, <2>2, <2>3 DEF to
<1>6. QED
  BY <1>4, <1>5

LEMMA UninstallsElsewhere ==
  ASSUME NEW ns \in NodeStates, NEW sp \in Specs, NEW p \in Pkgs, Early(ns, p), ~sp[p].uninst
  PROVE  \A v \in Versions : /\ HandleUninstallRequests(ns, sp)[<<p, v>>] = ns[<<p, v>>]
                             /\ HandleCancelledUninstalls(ns, sp)[<<p, v>>] = ns[<<p, v>>]
<1>1. SpecKey(sp, p) \in Key /\ \A v \in Versions : <<p, v>> \in Key /\ <<p, v>>[1] = p
  BY SpecKeyType DEF Key
<1>2. \A k \in Key : k[1] = p => ns[k].stage \notin {"uninstall", "uninstall-interrupt"}
  BY DEF Key, Early, NoEntry
<1>3. ~NeedsUninstall(ns, sp, p)
  BY <1>1, <1>2, SpecKeyType DEF NeedsUninstall, IsUninstallCycleInProgress
<1>4. ~Cancelled(ns, sp, p)
  BY <1>2 DEF Cancelled
<1>5. QED
  BY <1>1, <1>3, <1>4 DEF HandleUninstallRequests, HandleCancelledUninstalls

LEMMA PlannedUpgrade ==
  ASSUME NEW ns \in NodeStates, NEW sp \in Specs, NEW p \in Pkgs, Early(ns, p), Replaced(ns, p), ~sp[p].uninst
  PROVE  LET to == PlannedState(ns, sp)
             w == sp[p].ver
         IN  /\ to \in NodeStates /\ Early(to, p)
             /\ \A v \in Versions \ {w} : to[<<p, v>>] = ns[<<p, v>>]
             /\ Older(ns, p, w) => Upgrading(to[<<p, w>>])
<1> DEFINE w == sp[p].ver
           n1 == HandleVersionChange(ns, sp)
           n2 == HandleUninstallRequests(n1, sp)
           n3 == HandleCancelledUninstalls(n2, sp)
           to == HandleVersionChange(n3, sp)
<1>0. w \in Versions /\ <<p, w>> \in Key
  BY SpecKeyType DEF Key
<1>1. /\ n1 \in NodeStates /\ Early(n1, p)
      /\ \A v \in Versions \ {w} : n1[<<p, v>>] = ns[<<p, v>>]
      /\ \/ n1[<<p, w>>] = ns[<<p, w>>] /\ (Older(ns, p, w) => ns[<<p, w>>].stage = "upgrade")
         \/ n1[<<p, w>>].stage = "upgrade" /\ n1[<<p, w>>].state = "in_progress"
  BY VersionChangeOf
<1> HIDE DEF n1
<1>2. n2 \in NodeStates /\ \A v \in Versions : n2[<<p, v>>] = n1[<<p, v>>]
  BY <1>1, HandleUninstallRequestsType, UninstallsElsewhere
<1> HIDE DEF n2
<1>3. Early(n2, p)
  BY <1>1, <1>2 DEF Early
<1>4. n3 \in NodeStates /\ \A v \in Versions : n3[<<p, v>>] = n2[<<p, v>>]
  BY <1>2, <1>3, HandleCancelledUninstallsType, UninstallsElsewhere
<1> HIDE DEF n3
<1>5. Early(n3, p)
  BY <1>3, <1>4 DEF Early
<1>6. /\ to \in NodeStates /\ Early(to, p)
      /\ \A v \in Versions \ {w} : to[<<p, v>>] = n3[<<p, v>>]
      /\ \/ to[<<p, w>>] = n3[<<p, w>>]
         \/ to[<<p, w>>].stage = "upgrade" /\ to[<<p, w>>].state = "in_progress"
  BY <1>4, <1>5, VersionChangeOf
<1>7. to = PlannedState(ns, sp)
  BY DEF PlannedState, n1, n2, n3
<1> HIDE DEF to
<1>8. Older(ns, p, w) => Upgrading(to[<<p, w>>])
  <2> SUFFICES ASSUME NEW v \in Versions, v < w, Present(ns, <<p, v>>), ns[<<p, w>>].stage = "upgrade"
               PROVE  Upgrading(ns[<<p, w>>])
    BY <1>0, <1>1, <1>2, <1>4, <1>6 DEF Older, Upgrading
  <2>1. Present(ns, <<p, w>>)
    BY <1>0, PresentType DEF NoEntry
  <2>2. QED
    BY <1>0, <2>1 DEF Replaced
<1>9. QED
  BY <1>1, <1>2, <1>4, <1>6, <1>7, <1>8

LEMMA PassStartReplaces ==
  ASSUME TypeInv, NEW p \in Pkgs, UpgradeInv(p), ~spec[p].uninst, IntrospectSkyhook \/ RunSkyhookPackages
  PROVE  UpgradeInv(p)'
<1>0. /\ cache \in Node /\ cache.ns \in NodeStates /\ spec \in Specs /\ spec[p].ver \in Versions
      /\ cache = node /\ Early(node.ns, p) /\ Replaced(node.ns, p) /\ Below(node.ns, spec, p)
  BY SharedTypes, SpecKeyType DEF UpgradeInv, Node
<1>1. UNCHANGED <<node, cache, spec>> /\ pass.pc = "idle"
  BY DEF IntrospectSkyhook, RunSkyhookPackages, PassMayStart
<1>2. NoneAppear(node.ns, node.ns, p)
  BY DEF NoneAppear
<1>3. UpgradeInv(p)' \/ (pass'.pc # "idle" /\ ~PassReplaces(p)')
  BY <1>0, <1>1 DEF UpgradeInv, Early, Replaced, Below
<1>4. CASE IntrospectSkyhook
  <2>1. IntrospectNode(cache, spec).ns = cache.ns
    BY <1>0, IntrospectNodeType
  <2>2. /\ pass'.pc = "save" /\ pass'.spec = spec /\ pass'.before = cache
        /\ pass'.mem = IntrospectNode(cache, spec)
    BY <1>4 DEF IntrospectSkyhook, IdlePass
  <2>3. pass'.before.ns = node.ns /\ pass'.mem.ns = node.ns
    BY <1>0, <2>1, <2>2
  <2>4. PassReplaces(p)'
    BY <1>0, <1>1, <1>2, <2>2, <2>3 DEF PassReplaces, Early, Replaced, Below, NoneAppear, Versions
  <2>5. QED
    BY <1>3, <2>4
<1>5. CASE RunSkyhookPackages /\ pass' = pass
  BY <1>1, <1>3, <1>5
<1>6. CASE RunSkyhookPackages /\ pass' # pass
  <2> DEFINE ns == PlannedState(cache.ns, spec)
             n == [cache EXCEPT !.ns = ns]
             mem == IntrospectNode(n, spec)
  <2>1. pass'.spec = spec /\ pass'.before = cache /\ pass'.mem = mem
    BY <1>6 DEF RunSkyhookPackages
  <2>2. /\ ns \in NodeStates /\ Early(ns, p)
        /\ \A v \in Versions \ {spec[p].ver} : ns[<<p, v>>] = node.ns[<<p, v>>]
        /\ Older(node.ns, p, spec[p].ver) => Upgrading(ns[<<p, spec[p].ver>>])
    BY <1>0, PlannedUpgrade
  <2> HIDE DEF ns
  <2>3. n \in Node /\ n.ns = ns
    BY <1>0, <2>2 DEF Node
  <2> HIDE DEF n
  <2>4. mem.ns = ns
    BY <2>3, IntrospectNodeType
  <2> HIDE DEF mem
  <2>5. pass'.before.ns = node.ns /\ pass'.mem.ns = ns
    BY <1>0, <2>1, <2>4
  <2>6. PassReplaces(p)'
    BY <1>0, <1>1, <1>2, <2>1, <2>2, <2>5
       DEF PassReplaces, Early, Replaced, Below, NoneAppear, Versions, Older, Upgrading, Present
  <2>7. QED
    BY <1>3, <2>6
<1>7. QED
  BY <1>4, <1>5, <1>6

\* A package's step of a pass writes no other package's entry, but for promotions.
LEMMA StepWritesOwn ==
  ASSUME TypeInv, NEW o \in Pkgs, RunPackage(o)
  PROVE  /\ UNCHANGED <<node, cache, spec>>
         /\ \/ pass' = IdlePass
            \/ \E m \in Node :
                 /\ Advance(o, m)
                 /\ \/ m.ns \in ProgressSkipped(pass.mem.ns, pass.spec)
                    \/ \A k \in Key \ {PassKey(o)} : m.ns[k] = pass.mem.ns[k]
<1>0. pass.mem \in Node /\ pass.mem.ns \in NodeStates /\ PassKey(o) \in Key /\ pass.spec \in Specs
  BY PassTypes
<1> DEFINE Own(m) == m \in Node /\ \A k \in Key \ {PassKey(o)} : m.ns[k] = pass.mem.ns[k]
           Good == pass' = IdlePass \/ \E m \in Node : Advance(o, m) /\ Own(m)
<1>1. UNCHANGED <<node, cache, spec>>
  BY DEF RunPackage, RunPlainPackage, RunSkippedPackage, RunActiveInterrupt, RunDrainedPackage,
     RunInterruptStage, RunNextStage, passOnly
<1>2. Own(pass.mem) /\ Own(Nothing.mem)
  BY <1>0 DEF Nothing
<1>3. ASSUME NEW stage \in Stage, NEW state \in State
      PROVE  Own([pass.mem EXCEPT !.ns = Upsert(@, PassKey(o), stage, state)])
  <2> DEFINE up == Upsert(pass.mem.ns, PassKey(o), stage, state)
             m == [pass.mem EXCEPT !.ns = up]
  <2>1. up \in NodeStates /\ \A k \in Key \ {PassKey(o)} : up[k] = pass.mem.ns[k]
    BY <1>0, UpsertType
  <2> HIDE DEF up
  <2>2. m \in Node /\ m.ns = up
    BY <1>0, <2>1 DEF Node
  <2>3. QED
    BY <2>1, <2>2 DEF up
<1>4. ASSUME NEW stage \in Stage PROVE Own(Create(o, stage).mem)
  BY <1>2, <1>3 DEF Create, State
<1>5. ASSUME NEW stage \in Stage PROVE Own(InterruptEffect(o, stage).mem)
  BY <1>2, <1>4 DEF InterruptEffect
<1>6. ASSUME NEW m, Own(m) PROVE Own([m EXCEPT !.unsched = TRUE, !.cordon = TRUE])
  BY <1>6 DEF Node
<1> HIDE DEF Own
<1>7. ASSUME NEW m, Own(m) PROVE m \in Node
  BY <1>7 DEF Own
<1>8. ApplyStage(o) \in Stage
  <2>1. PassNext(o) \in Stage \cup {"none"}
    BY PassTypes, NextStageType, HasInterruptType DEF PassNext, PassEntry, Stage
  <2>2. QED
    BY <2>1 DEF ApplyStage, Stage
<1>9. ApplyPackage(o) => Good
  BY <1>2, <1>4, <1>7, <1>8 DEF ApplyPackage
<1>10. ASSUME NEW r, Own(r.mem), EnsureNodeIsReadyForInterrupt(o, r) PROVE Good
  BY <1>6, <1>7, <1>10 DEF EnsureNodeIsReadyForInterrupt
<1>11. CASE RunSkippedPackage(o)
  <2>1. PICK ns \in IF RunInterrupt(o) THEN ProgressSkipped(pass.mem.ns, pass.spec) ELSE {pass.mem.ns} :
          Advance(o, [pass.mem EXCEPT !.ns = ns])
    BY <1>11 DEF RunSkippedPackage
  <2>2. \A p \in Pkgs : pass.spec[p].ver \in Versions
    BY <1>0, SpecKeyType
  <2>3. ns \in NodeStates
    BY <1>0, <2>2, ProgressSkippedType
  <2>4. [pass.mem EXCEPT !.ns = ns] \in Node /\ [pass.mem EXCEPT !.ns = ns].ns = ns
    BY <1>0, <2>3 DEF Node
  <2>5. QED
    BY <1>1, <2>1, <2>4
<1>12. CASE RunActiveInterrupt(o)
  <2>1. PassEntry(o).stage \in Stage
    BY <1>12 DEF RunActiveInterrupt, IsInterruptStage, InterruptStages, Stage
  <2>2. Good
    BY <1>5, <1>7, <1>10, <1>12, <2>1 DEF RunActiveInterrupt
  <2>3. QED
    BY <1>1, <2>2 DEF Own
<1>13. CASE RunDrainedPackage(o)
  BY <1>1, <1>2, <1>9, <1>10, <1>13 DEF RunDrainedPackage, Own
<1>14. CASE RunInterruptStage(o)
  <2>1. "interrupt" \in Stage /\ "skipped" \in State
    BY DEF Stage, State
  <2>2. Good
    BY <1>3, <1>5, <1>7, <1>14, <2>1 DEF RunInterruptStage
  <2>3. QED
    BY <1>1, <2>2 DEF Own
<1>15. CASE RunPlainPackage(o) \/ RunNextStage(o)
  BY <1>1, <1>9, <1>15 DEF RunPlainPackage, RunNextStage, Own
<1>16. QED
  BY <1>11, <1>12, <1>13, <1>14, <1>15 DEF RunPackage

LEMMA EntryReplaces ==
  ASSUME TypeInv, NEW p \in Pkgs, UpgradeInv(p), pass.pc = "run", UNCHANGED <<node, cache, spec>>,
         pass'.before = pass.before, pass'.spec = pass.spec, Early(pass'.mem.ns, p),
         \A v \in Versions \ {pass.spec[p].ver} : pass'.mem.ns[<<p, v>>] = pass.mem.ns[<<p, v>>],
         LET w == pass.spec[p].ver IN Upgrading(pass.mem.ns[<<p, w>>]) => Upgrading(pass'.mem.ns[<<p, w>>])
  PROVE  UpgradeInv(p)'
<1>1. PassReplaces(p)
  BY DEF UpgradeInv
<1>2. PassReplaces(p)'
  BY <1>1 DEF PassReplaces, Early, Replaced, Below, NoneAppear, Older
<1>3. QED
  BY <1>2 DEF UpgradeInv, Early, Replaced, Below

LEMMA RunReplaces ==
  ASSUME TypeInv, NEW p \in Pkgs, ~HasInterrupt[p], UpgradeInv(p), NEW o \in Pkgs, RunPackage(o)
  PROVE  UpgradeInv(p)'
<1>0. /\ pass.pc = "run" /\ pass \in Passes /\ pass.mem.ns \in NodeStates /\ pass.spec \in Specs
      /\ PassKey(p) = <<p, pass.spec[p].ver>> /\ PassKey(p) \in Key /\ PassKey(o) \in Key /\ PassKey(o)[1] = o
      /\ pass.spec[p].ver \in Versions /\ \A q \in Pkgs : pass.spec[q].ver \in Versions
  BY PassTypes, SpecKeyType DEF PassKey, SpecKey, RunPackage, RunPlainPackage, RunSkippedPackage,
     RunActiveInterrupt, RunDrainedPackage, RunInterruptStage, RunNextStage, Reached
<1>1. UNCHANGED <<node, cache, spec>>
  BY StepWritesOwn
<1>2. Early(pass.mem.ns, p)
  BY <1>0 DEF UpgradeInv, PassReplaces
<1>3. CASE pass' = IdlePass
  BY <1>1, <1>3, IdlePassType DEF UpgradeInv, Early, Replaced, Below
<1>4. ASSUME NEW m, Advance(o, m)
      PROVE  pass'.before = pass.before /\ pass'.spec = pass.spec /\ pass'.mem = m
  BY <1>0, <1>4 DEF Advance, Passes
<1>5. ASSUME NEW m, Advance(o, m), \A v \in Versions : m.ns[<<p, v>>] = pass.mem.ns[<<p, v>>]
      PROVE  UpgradeInv(p)'
  <2>1. pass'.before = pass.before /\ pass'.spec = pass.spec /\ pass'.mem = m
    BY <1>4, <1>5
  <2>2. Early(pass'.mem.ns, p)
    BY <1>2, <1>5, <2>1 DEF Early
  <2>3. QED
    BY <1>0, <1>1, <1>5, <2>1, <2>2, EntryReplaces
<1>6. CASE o # p /\ pass' # IdlePass
  <2>1. PICK m \in Node :
          /\ Advance(o, m)
          /\ \/ m.ns \in ProgressSkipped(pass.mem.ns, pass.spec)
             \/ \A k \in Key \ {PassKey(o)} : m.ns[k] = pass.mem.ns[k]
    BY <1>6, StepWritesOwn
  <2>2. ASSUME NEW v \in Versions PROVE m.ns[<<p, v>>] = pass.mem.ns[<<p, v>>]
    <3>1. <<p, v>> \in Key /\ <<p, v>>[1] = p /\ <<p, v>> # PassKey(o)
      BY <1>0, <1>6 DEF Key
    <3>2. ~\E u \in Versions : pass.mem.ns[<<p, u>>].stage = "interrupt"
      <4>1. \A u \in Versions : pass.mem.ns[<<p, u>>].stage \in {"none", "apply", "upgrade", "config"}
        BY <1>2 DEF Early, NoEntry
      <4>2. QED
        BY <4>1
    <3>3. CASE m.ns \in ProgressSkipped(pass.mem.ns, pass.spec)
      BY <1>0, <3>1, <3>2, <3>3, ProgressSkippedType
    <3>4. QED
      BY <2>1, <3>1, <3>3
  <2>3. QED
    BY <1>5, <2>1, <2>2
<1>7. CASE o = p /\ pass' # IdlePass
  <2> DEFINE w == pass.spec[p].ver
  <2>1. Reached(p) /\ ApplyPackage(p)
    BY <1>7 DEF RunPackage, RunPlainPackage, RunSkippedPackage, RunActiveInterrupt, RunDrainedPackage,
       RunInterruptStage, RunNextStage
  <2>2. /\ PassEntry(p) = pass.mem.ns[<<p, w>>]
        /\ PassEntry(p) = NoEntry \/ PassEntry(p).stage \in {"apply", "upgrade", "config"}
    BY <1>0, <1>2 DEF PassEntry, Early
  <2>3. PassNext(p) \in {"none", "config"} /\ (Upgrading(PassEntry(p)) => PassNext(p) = "none")
    BY <2>2, SMTT(30) DEF PassNext, NextStage, Upgrading, NoEntry
  <2>4. ApplyStage(p) \in {"apply", "upgrade", "config"} /\ (Upgrading(PassEntry(p)) => ApplyStage(p) = "upgrade")
    BY <2>2, <2>3 DEF ApplyStage, Upgrading, NoEntry
  <2>5. PICK m \in Node :
          /\ Advance(p, m)
          /\ \/ m = pass.mem
             \/ m.ns = Upsert(pass.mem.ns, PassKey(p), ApplyStage(p), "in_progress")
    BY <1>7, <2>1, <2>3, ApplyOutcome
  <2>6. CASE m = pass.mem
    BY <1>5, <1>7, <2>5, <2>6
  <2>7. CASE m.ns = Upsert(pass.mem.ns, PassKey(p), ApplyStage(p), "in_progress")
    <3>1. ApplyStage(p) \in Stage /\ "in_progress" \in State
      BY <2>4 DEF Stage, State
    <3>2. /\ m.ns[<<p, w>>].ver = w /\ m.ns[<<p, w>>].stage = ApplyStage(p)
          /\ m.ns[<<p, w>>].state = "in_progress"
          /\ \A k \in Key \ {<<p, w>>} : m.ns[k] = pass.mem.ns[k]
      BY <1>0, <2>7, <3>1, UpsertFields
    <3>3. \A v \in Versions \ {w} : m.ns[<<p, v>>] = pass.mem.ns[<<p, v>>]
      BY <3>2 DEF Key
    <3>4. Early(m.ns, p)
      BY <1>2, <2>4, <3>2, <3>3 DEF Early
    <3>5. Upgrading(pass.mem.ns[<<p, w>>]) => Upgrading(m.ns[<<p, w>>])
      BY <2>2, <2>4, <3>2 DEF Upgrading
    <3>6. pass'.before = pass.before /\ pass'.spec = pass.spec /\ pass'.mem = m
      BY <1>4, <1>7, <2>5
    <3>7. QED
      BY <1>0, <1>1, <3>3, <3>4, <3>5, <3>6, EntryReplaces
  <2>8. QED
    BY <2>5, <2>6, <2>7
<1>8. QED
  BY <1>3, <1>6, <1>7

LEMMA SaveReplaces ==
  ASSUME TypeInv, NodeLag = FALSE, NEW p \in Pkgs, UpgradeInv(p), SaveNodesAndSkyhook
  PROVE  UpgradeInv(p)'
<1> DEFINE w == pass.spec[p].ver
           before == pass.before.ns
           mem == pass.mem.ns
           to == MergeDelta(before, mem, node.ns)
<1>0. /\ pass.pc = "save" /\ PassReplaces(p) /\ pass.spec \in Specs /\ w \in Versions /\ spec[p].ver \in Versions
      /\ before \in NodeStates /\ mem \in NodeStates /\ node.ns \in NodeStates
      /\ Early(node.ns, p) /\ Replaced(node.ns, p) /\ Below(node.ns, spec, p)
  BY SharedTypes, PassTypes, SpecKeyType DEF SaveNodesAndSkyhook, UpgradeInv, TypeInv, TypeOK, Node
<1>1. node'.ns = to /\ cache' = node' /\ pass' = IdlePass /\ spec' = spec
  BY DEF SaveNodesAndSkyhook, WriteNode
<1>2. \A v \in Versions : to[<<p, v>>] = IF before[<<p, v>>] = mem[<<p, v>>] THEN node.ns[<<p, v>>] ELSE mem[<<p, v>>]
  BY DEF MergeDelta, Key
<1>3. /\ w <= spec[p].ver /\ Below(before, pass.spec, p) /\ Early(mem, p) /\ NoneAppear(before, node.ns, p)
      /\ \A v \in Versions \ {w} : mem[<<p, v>>] = before[<<p, v>>]
      /\ Older(before, p, w) => Upgrading(mem[<<p, w>>]) \/ mem[<<p, w>>] = before[<<p, w>>]
  BY <1>0 DEF PassReplaces
<1> HIDE DEF w, before, mem, to
<1>4. \A v \in Versions \ {w} : to[<<p, v>>] = node.ns[<<p, v>>]
  BY <1>2, <1>3
<1>5. to[<<p, w>>] = node.ns[<<p, w>>] \/ (to[<<p, w>>] = mem[<<p, w>>] /\ mem[<<p, w>>] # before[<<p, w>>])
  BY <1>0, <1>2
<1>6. Early(to, p)
  BY <1>0, <1>3, <1>4, <1>5 DEF Early
<1>7. \A v \in Versions : Present(node.ns, <<p, v>>) => v <= w
  BY <1>3 DEF NoneAppear, Below, w
<1>8. Below(to, spec, p)
  BY <1>0, <1>3, <1>4 DEF Below, Present
<1>9. Replaced(to, p)
  <2> SUFFICES ASSUME NEW u \in Versions, NEW v \in Versions, u < v, Present(to, <<p, u>>), Present(to, <<p, v>>)
               PROVE  Upgrading(to[<<p, v>>])
    BY DEF Replaced
  <2>1. CASE to[<<p, w>>] = node.ns[<<p, w>>]
    <3>1. Present(node.ns, <<p, u>>) /\ Present(node.ns, <<p, v>>) /\ to[<<p, v>>] = node.ns[<<p, v>>]
      BY <1>4, <2>1 DEF Present
    <3>2. QED
      BY <1>0, <3>1 DEF Replaced
  <2>2. CASE v # w
    <3>1. Present(node.ns, <<p, v>>) /\ to[<<p, v>>] = node.ns[<<p, v>>]
      BY <1>4, <2>2 DEF Present
    <3>2. u # w
      BY <1>0, <1>7, <3>1 DEF Versions
    <3>3. Present(node.ns, <<p, u>>)
      BY <1>4, <3>2 DEF Present
    <3>4. QED
      BY <1>0, <3>1, <3>3 DEF Replaced
  <2>3. CASE v = w /\ to[<<p, w>>] # node.ns[<<p, w>>]
    <3>1. u # w
      BY <2>3 DEF Versions
    <3>2. Present(before, <<p, u>>)
      BY <1>3, <1>4, <3>1 DEF Present, NoneAppear
    <3>3. Older(before, p, w)
      BY <2>3, <3>2 DEF Older
    <3>4. QED
      BY <1>3, <1>5, <2>3, <3>3
  <2>4. QED
    BY <2>1, <2>2, <2>3
<1>10. QED
  BY <1>1, <1>6, <1>8, <1>9, IdlePassType DEF UpgradeInv, Early, Replaced, Below

\* What is assumed of the edits: versions only go up, and no uninstall is asked for.
VersionsGrow == \A p \in Pkgs : spec[p].ver <= spec'[p].ver
NothingUninstalled == \A p \in Pkgs : ~spec[p].uninst

LEMMA EnvironmentReplaces ==
  ASSUME TypeInv, NEW p \in Pkgs, UpgradeInv(p), spec' \in Specs, spec[p].ver <= spec'[p].ver,
         Environment \/ ValidateRunningPackages \/ SuspendUnfinishedJobs \/ UNCHANGED vars
  PROVE  UpgradeInv(p)'
<1>0. spec[p].ver \in Nat /\ spec'[p].ver \in Nat /\ (pass.spec[p].ver \in Nat) /\ Versions \subseteq Nat
  BY SharedTypes, PassTypes, SpecKeyType DEF Versions
<1>1. UNCHANGED <<node, cache>>
  BY DEF UpgradeInv, Environment, CacheSync, PlaceWorkload, WorkloadLeaves, EditMode, Edit, OperatorCrash,
     JobSucceeds, AttemptFails, JobFails, JobFailureEnds, JobGone, JobSeen, EditVersion, EditOther,
     EditUninstall, ValidateRunningPackages, SuspendUnfinishedJobs, vars
<1>2. pass' = pass \/ pass' = IdlePass
  BY DEF Environment, CacheSync, PlaceWorkload, WorkloadLeaves, EditMode, Edit, OperatorCrash,
     JobSucceeds, AttemptFails, JobFails, JobFailureEnds, JobGone, JobSeen, EditVersion, EditOther,
     EditUninstall, ValidateRunningPackages, SuspendUnfinishedJobs, vars
<1>3. Below(node.ns, spec, p)'
  <2> SUFFICES ASSUME NEW v \in Versions, Present(node.ns, <<p, v>>)' PROVE v <= spec'[p].ver
    BY DEF Below
  <2>1. Present(node.ns, <<p, v>>)
    BY <1>1 DEF Present
  <2>2. v <= spec[p].ver
    BY <2>1 DEF UpgradeInv, Below
  <2>3. QED
    BY <1>0, <2>2
<1>4. CASE pass' = IdlePass
  BY <1>1, <1>3, <1>4, IdlePassType DEF UpgradeInv, Early, Replaced, Below
<1>5. CASE pass' = pass /\ pass.pc = "idle"
  BY <1>1, <1>3, <1>5 DEF UpgradeInv, Early, Replaced, Below
<1>6. CASE pass' = pass /\ pass.pc # "idle"
  <2>1. PassReplaces(p)
    BY <1>6 DEF UpgradeInv
  <2>2. PassReplaces(p)'
    BY <1>0, <1>1, <1>6, <2>1 DEF PassReplaces, Early, Replaced, Below, NoneAppear, Older
  <2>3. QED
    BY <1>1, <1>3, <2>2 DEF UpgradeInv, Early, Replaced, Below
<1>7. QED
  BY <1>2, <1>4, <1>5, <1>6

LEMMA NextReplaces ==
  ASSUME NodeLag = FALSE, NEW p \in Pkgs, ~HasInterrupt[p]
  PROVE  /\ TypeInv /\ TypeInv' /\ UpgradeInv(p) /\ NothingUninstalled /\ [Next]_vars /\ [VersionsGrow]_vars
         => UpgradeInv(p)'
<1> SUFFICES ASSUME TypeInv, TypeInv', UpgradeInv(p), NothingUninstalled, [Next]_vars, [VersionsGrow]_vars
             PROVE  UpgradeInv(p)'
  OBVIOUS
<1>1. spec' \in Specs /\ spec[p].ver <= spec'[p].ver
  <2>1. spec \in Specs /\ spec' \in Specs /\ spec[p].ver \in Nat
    BY SharedTypes, SpecKeyType DEF TypeInv, TypeOK, Versions
  <2>2. QED
    BY <2>1 DEF VersionsGrow, vars
<1>2. ASSUME NEW o \in Pkgs, RunPackage(o) PROVE UpgradeInv(p)'
  BY <1>2, RunReplaces
<1>3. CASE IntrospectSkyhook \/ RunSkyhookPackages
  BY <1>3, PassStartReplaces DEF NothingUninstalled
<1>4. QED
  BY <1>1, <1>2, <1>3, EnvironmentReplaces, ReconcilersReplace, SaveReplaces DEF Next, HeavyPass

\* Where packages have no interrupt, for as long as versions only go up and nothing is
\* uninstalled: once an upgraded package is complete the entries of its older versions
\* are gone, although passes, completions and edits are interleaved, Jobs fail and the
\* operator restarts (HandleCompletePod, HandleVersionChange, saveNodeChanges).
THEOREM UpgradesReplace ==
  ASSUME NodeLag = FALSE, \A p \in Pkgs : ~HasInterrupt[p]
  PROVE  Spec /\ [][VersionsGrow]_vars /\ []NothingUninstalled => []UpgradeReplaces
<1> DEFINE Inv == \A p \in Pkgs : UpgradeInv(p)
<1>1. Init => Inv
  <2> SUFFICES ASSUME Init, NEW p \in Pkgs PROVE UpgradeInv(p)
    OBVIOUS
  <2>1. \A v \in Versions : node.ns[<<p, v>>] = NoEntry
    BY DEF Init, InitialNode, EmptyNodeState, Key
  <2>2. cache = node /\ pass.pc = "idle"
    BY IdlePassType DEF Init
  <2>3. QED
    BY <2>1, <2>2 DEF UpgradeInv, Early, Replaced, Below, Present, NoEntry
<1>2. TypeInv /\ TypeInv' /\ Inv /\ NothingUninstalled /\ [Next]_vars /\ [VersionsGrow]_vars => Inv'
  BY NextReplaces
<1>3. TypeInv /\ Inv => UpgradeReplaces
  <2> SUFFICES ASSUME TypeInv, Inv, NEW p \in Pkgs, IsPackageComplete(node.ns, spec, HasInterrupt, p),
                      NEW v \in Versions, v < spec[p].ver, Present(node.ns, <<p, v>>)
               PROVE  FALSE
    BY DEF UpgradeReplaces
  <2>1. spec[p].ver \in Versions /\ SpecKey(spec, p) = <<p, spec[p].ver>>
    BY SharedTypes, SpecKeyType DEF SpecKey
  <2>2. Present(node.ns, <<p, spec[p].ver>>) /\ node.ns[<<p, spec[p].ver>>].state = "complete"
    BY <2>1 DEF IsPackageComplete, Present
  <2>3. QED
    BY <2>1, <2>2 DEF UpgradeInv, Replaced, Upgrading
<1>4. QED
  BY <1>1, <1>2, <1>3, TypeInvariant, PTL DEF Spec

-----------------------------------------------------------------------------
(***************************************************************************)
(* A completion is kept.  Only the pass's save could take one back, so the *)
(* invariant says what the save can find: of every entry, where the pass's *)
(* copy may be relative to the snapshot (Moved: it is the same, or at      *)
(* another stage than the snapshot's) and where the reconcilers may have   *)
(* brought the node's meanwhile (Brought: the same stage, an uninstall's  *)
(* interrupt, or no entry).  The two meet at no open stage.                *)
(***************************************************************************)
UninstallCycle == {"uninstall", "uninstall-interrupt"}

\* What is assumed of the constants: nothing fails, the node's copy does not lag, and
\* what moves entries to another version is not combined with interrupts or uninstalls.
KeepConditions ==
  /\ MaxFailures = 0 /\ NodeLag = FALSE
  /\ \/ \A plan \in EditPlans : "version" \notin plan
     \/ /\ \A plan \in EditPlans : ~({"version", "uninstall"} \subseteq plan)
        /\ \A p \in Pkgs : ~HasInterrupt[p]

VersionsApart ==
  \/ "version" \notin used.kinds
  \/ "uninstall" \notin used.kinds /\ \A p \in Pkgs : ~HasInterrupt[p]

NothingFails ==
  attempts = {} /\ \A j \in JobName : jobs[j].phase \in {"none", "active", "complete"}

\* While no version is edited all entries are of the first one, and while no uninstall is
\* asked for none is in the uninstall cycle.
PlainEntry(e, k) ==
  \/ e = NoEntry
  \/ /\ e.ver = k[2] /\ e.state # "erroring"
     /\ "version" \notin used.kinds => k[2] = 1
     /\ "uninstall" \notin used.kinds => e.stage \notin UninstallCycle
     /\ e.stage = "interrupt" => HasInterrupt[k[1]]
     /\ e.stage = "uninstall" => e.state # "complete"

PlainNodeState(ns) == \A k \in Key : PlainEntry(ns[k], k)

PlainSpec(sp) ==
  /\ "version" \notin used.kinds => \A p \in Pkgs : sp[p].ver = 1
  /\ "uninstall" \notin used.kinds => \A p \in Pkgs : sp[p].uninst = FALSE

\* Where a pass may bring an entry that it has read as e.
Moved(e, m) ==
  \/ m = e
  \/ m = NoEntry /\ e.stage = "uninstall-interrupt"
  \/ m.state = "in_progress" /\ m.stage \in {"apply", "upgrade", "uninstall"} /\ e.stage # m.stage
  \/ m.state = "in_progress" /\ m.stage = "config" /\ e.stage \in {"apply", "upgrade"}
  \/ m.state = "in_progress" /\ m.stage = "post-interrupt" /\ e.stage \in {"config", "interrupt"}
  \/ m.stage = "interrupt" /\ (e.stage = "config" \/ (e.stage = "interrupt" /\ m.state = "complete"))

\* Where the reconcilers may bring it meanwhile.
Brought(e, n) ==
  \/ n = NoEntry \/ n.stage = e.stage
  \/ e.stage = "uninstall" /\ n.stage = "uninstall-interrupt"

\* A package the pass will still handle has something left to do.
LeftToDo(e, p) ==
  e.state = "complete" =>
    e.stage \in {"apply", "upgrade", "interrupt"} \/ (e.stage = "config" /\ HasInterrupt[p])

PassKeeps ==
  /\ PlainSpec(pass.spec)
  /\ \A k \in Key : /\ Moved(pass.before.ns[k], pass.mem.ns[k])
                    /\ Brought(pass.before.ns[k], node.ns[k])
  /\ PlainNodeState(pass.mem.ns)
  /\ \A p \in pass.un \cup pass.rest : LeftToDo(pass.mem.ns[PassKey(p)], p)

KeepInv ==
  /\ cache = node
  /\ VersionsApart
  /\ NothingFails
  /\ PlainSpec(spec) /\ PlainNodeState(node.ns)
  /\ pass.pc # "idle" => PassKeeps

LEMMA PlainPromotion ==
  ASSUME NEW ns \in NodeStates, NEW sp \in Specs, PlainNodeState(ns), PlainSpec(sp), VersionsApart,
         NEW new \in ProgressSkipped(ns, sp), NEW k \in Key
  PROVE  \/ new[k] = ns[k]
         \/ /\ ns[k].stage = "interrupt" /\ ns[k].state = "skipped"
            /\ new[k].stage = "interrupt" /\ new[k].state = "complete" /\ new[k].ver = k[2]
<1>1. PICK from \in [Pkgs -> Versions] :
        new = [i \in Key |->
                 LET s == ns[<<i[1], from[i[1]]>>] IN
                 IF i = SpecKey(sp, i[1]) /\ SkippedInterrupt(s)
                   THEN [s EXCEPT !.state = "complete"] ELSE ns[i]]
  BY DEF ProgressSkipped
<1> DEFINE i == <<k[1], from[k[1]]>>
<1>2. i \in Key /\ i[1] = k[1] /\ i[2] = from[k[1]] /\ k[1] \in Pkgs /\ k = <<k[1], k[2]>>
  <2>1. k[1] \in Pkgs /\ k = <<k[1], k[2]>>
    BY DEF Key
  <2>2. QED
    BY <1>1, <2>1 DEF Key
<1>3. new[k] = IF k = SpecKey(sp, k[1]) /\ SkippedInterrupt(ns[i]) THEN [ns[i] EXCEPT !.state = "complete"] ELSE ns[k]
  BY <1>1
<1> HIDE DEF i
<1>4. ASSUME k = SpecKey(sp, k[1]), SkippedInterrupt(ns[i])
      PROVE  i = k
  <2>1. ns[i] # NoEntry /\ ns[i].stage = "interrupt"
    BY <1>4 DEF SkippedInterrupt, NoEntry
  <2>2. PlainEntry(ns[i], i)
    BY <1>2 DEF PlainNodeState
  <2>3. HasInterrupt[k[1]]
    BY <1>2, <2>1, <2>2 DEF PlainEntry
  <2>4. "version" \notin used.kinds
    BY <1>2, <2>3 DEF VersionsApart
  <2>5. i[2] = 1
    BY <2>1, <2>2, <2>4 DEF PlainEntry
  <2>6. k[2] = 1
    BY <1>2, <1>4, <2>4 DEF PlainSpec, SpecKey
  <2>7. QED
    BY <1>2, <2>5, <2>6 DEF i
<1>5. CASE k = SpecKey(sp, k[1]) /\ SkippedInterrupt(ns[i])
  <2>1. i = k /\ ns[k].stage = "interrupt" /\ ns[k].state = "skipped"
    BY <1>4, <1>5 DEF SkippedInterrupt
  <2>2. ns[k] \in Entry
    BY <2>1 DEF NodeStates, NoEntry
  <2>3. ns[k].ver = k[2]
    BY <2>1 DEF PlainNodeState, PlainEntry, NoEntry
  <2>4. new[k] = [ns[k] EXCEPT !.state = "complete"]
    BY <1>3, <1>5, <2>1
  <2>5. QED
    BY <2>1, <2>2, <2>3, <2>4 DEF Entry
<1>6. QED
  BY <1>3, <1>5

\* What a reconciler may make of an entry e.
Ends(e, n, k) ==
  \/ n = e \/ n = NoEntry
  \/ /\ e.state \notin {"none", "complete"} /\ n.ver = k[2]
     /\ \/ n.stage = e.stage /\ n.state = "complete" /\ n.stage # "uninstall"
        \/ e.stage = "uninstall" /\ n.stage = "uninstall-interrupt" /\ n.state = "in_progress"

LEMMA EndsPlain ==
  ASSUME NEW e \in Entry \cup {NoEntry}, NEW n, NEW k \in Key, PlainEntry(e, k), Ends(e, n, k)
  PROVE  /\ PlainEntry(n, k)
         /\ \A b : Brought(b, e) => Brought(b, n)
         /\ e.state = "complete" /\ n.stage = e.stage => n.state = "complete"
<1>1. e # NoEntry => e \in Entry
  OBVIOUS
<1>2. PlainEntry(n, k)
  BY DEF Ends, PlainEntry, NoEntry, UninstallCycle
<1>3. ASSUME NEW b, Brought(b, e) PROVE Brought(b, n)
  BY <1>3 DEF Ends, Brought, NoEntry
<1>4. e.state = "complete" /\ n.stage = e.stage => n.state = "complete"
  BY <1>1 DEF Ends, NoEntry, Entry, Stage
<1>5. QED
  BY <1>2, <1>3, <1>4

LEMMA CompleteEnds ==
  ASSUME NEW ns \in NodeStates, NEW j \in JobName, KeyOf(j) \in Key, j[3] \in Stage \ {"uninstall"}, NEW k \in Key
  PROVE  Ends(ns[k], RecordComplete(ns, j)[k], k)
<1>1. CASE ~EntryOpenAtStage(ns, KeyOf(j), j[3])
  BY <1>1 DEF RecordComplete, Ends
<1>2. CASE EntryOpenAtStage(ns, KeyOf(j), j[3])
  <2> DEFINE to == Upsert(ns, KeyOf(j), j[3], "complete")
  <2>1. RecordComplete(ns, j) = to
    BY <1>2 DEF RecordComplete
  <2>2. /\ to[KeyOf(j)].ver = KeyOf(j)[2] /\ to[KeyOf(j)].stage = j[3] /\ to[KeyOf(j)].state = "complete"
        /\ \A i \in Key \ {KeyOf(j)} : to[i] = ns[i]
    BY UpsertFields DEF State
  <2> HIDE DEF to
  <2>3. QED
    BY <1>2, <2>1, <2>2 DEF Ends, EntryOpenAtStage, Present
<1>3. QED
  BY <1>1, <1>2

LEMMA CompletionEnds ==
  ASSUME TypeInv, PlainNodeState(node.ns), PlainSpec(spec), VersionsApart,
         NEW j \in JobName, jobs[j].phase # "none", ShouldRecordCompletion(node.ns, j),
         NEW ns \in RecordJobCompletion(node.ns, j), NEW k \in Key
  PROVE  Ends(node.ns[k], ns[k], k)
<1>0. node.ns \in NodeStates /\ KeyOf(j) \in Key /\ j[3] \in Stage /\ spec \in Specs
  BY SharedTypes, KeyOfType
<1>1. CASE IsInterruptJob(j)
  <2>1. PICK n \in ProgressSkipped(node.ns, spec) : ns = RecordComplete(n, j)
    BY <1>1 DEF RecordJobCompletion, IsInterruptJob, InterruptStages
  <2>2. n \in NodeStates
    BY <1>0, SpecKeyType, ProgressSkippedType
  <2>3. Ends(n[k], ns[k], k)
    BY <1>0, <1>1, <2>1, <2>2, CompleteEnds DEF IsInterruptJob, InterruptStages
  <2>4. \/ n[k] = node.ns[k]
        \/ /\ node.ns[k].stage = "interrupt" /\ node.ns[k].state = "skipped"
           /\ n[k].stage = "interrupt" /\ n[k].state = "complete" /\ n[k].ver = k[2]
    BY <1>0, PlainPromotion
  <2>5. QED
    BY <2>3, <2>4 DEF Ends
<1>2. CASE j[3] = "upgrade"
  <2> DEFINE n == [i \in Key |-> IF i \in Superseded(node.ns, j) THEN NoEntry ELSE node.ns[i]]
  <2>1. ns = RecordComplete(n, j)
    BY <1>2 DEF RecordJobCompletion, IsInterruptJob, InterruptStages
  <2>2. n \in NodeStates /\ n[k] \in {NoEntry, node.ns[k]}
    BY <1>0 DEF NodeStates
  <2> HIDE DEF n
  <2>3. Ends(n[k], ns[k], k)
    BY <1>0, <1>2, <2>1, <2>2, CompleteEnds DEF IsInterruptJob, InterruptStages
  <2>4. QED
    BY <2>2, <2>3 DEF Ends, NoEntry
<1>3. CASE j[3] = "uninstall"
  <2>1. EntryOpenAtStage(node.ns, KeyOf(j), "uninstall")
    BY <1>3 DEF ShouldRecordCompletion, IsInterruptJob, InterruptStages
  <2>2. \/ ns = Upsert(node.ns, KeyOf(j), "uninstall-interrupt", "in_progress")
        \/ ns = RemoveState(node.ns, KeyOf(j))
    BY <1>3 DEF RecordJobCompletion, IsInterruptJob, InterruptStages
  <2>3. CASE ns = RemoveState(node.ns, KeyOf(j))
    BY <1>0, <2>3 DEF RemoveState, Ends, NodeStates
  <2>4. CASE ns = Upsert(node.ns, KeyOf(j), "uninstall-interrupt", "in_progress")
    <3>1. /\ ns[KeyOf(j)].ver = KeyOf(j)[2] /\ ns[KeyOf(j)].stage = "uninstall-interrupt"
          /\ ns[KeyOf(j)].state = "in_progress"
          /\ \A i \in Key \ {KeyOf(j)} : ns[i] = node.ns[i]
      BY <1>0, <2>4, UpsertFields DEF State, Stage
    <3>2. QED
      BY <2>1, <3>1 DEF Ends, EntryOpenAtStage, Present
  <2>5. QED
    BY <2>2, <2>3, <2>4
<1>4. CASE ~IsInterruptJob(j) /\ j[3] \notin {"upgrade", "uninstall"}
  <2>1. ns = RecordComplete(node.ns, j)
    BY <1>4 DEF RecordJobCompletion
  <2>2. QED
    BY <1>0, <1>4, <2>1, CompleteEnds
<1>5. QED
  BY <1>1, <1>2, <1>3, <1>4

\* Without failures the reconcilers only bring entries to an end.
LEMMA ReconcilersEnd ==
  ASSUME NodeLag = FALSE, TypeInv, KeepInv, Reconcilers
  PROVE  /\ cache' = node' /\ \A k \in Key : Ends(node.ns[k], node'.ns[k], k)
         /\ UNCHANGED <<spec, pass, used>> /\ attempts' = {}
<1>0. /\ cache = node /\ attempts = {} /\ PlainSpec(spec) /\ PlainNodeState(node.ns) /\ VersionsApart
      /\ \A j \in JobName : jobs[j].phase \in {"none", "active", "complete"}
  BY DEF KeepInv, NothingFails
<1>1. UNCHANGED <<spec, pass, used>> /\ attempts' = {}
  BY <1>0 DEF Reconcilers, MarkJobProcessed, JobReconcileFinished, JobReconcileInvalid, JobReconcileActive, PodReconcile
<1>2. UNCHANGED <<node, cache>> => cache' = node' /\ \A k \in Key : Ends(node.ns[k], node'.ns[k], k)
  BY <1>0 DEF Ends
<1>3. ASSUME NEW j \in JobName, JobReconcileFinished(j), ~UNCHANGED <<node, cache>>
      PROVE  cache' = node' /\ \A k \in Key : Ends(node.ns[k], node'.ns[k], k)
  <2>1. ~HandleFailedJob(j)
    BY <1>0 DEF HandleFailedJob, JobFailedTerminally
  <2>2. /\ jobs[j].phase # "none" /\ ShouldRecordCompletion(node.ns, j)
        /\ \E ns \in RecordJobCompletion(node.ns, j) : WriteNode([node EXCEPT !.ns = ns])
    BY <1>3, <2>1 DEF JobReconcileFinished, HandleCompleteJob
  <2>3. PICK ns \in RecordJobCompletion(node.ns, j) : WriteNode([node EXCEPT !.ns = ns])
    BY <2>2
  <2>4. node' = [node EXCEPT !.ns = ns] /\ cache' = node' /\ node \in Node
    BY <2>3, SharedTypes DEF WriteNode
  <2>5. node'.ns = ns
    BY <2>4 DEF Node
  <2>6. QED
    BY <1>0, <2>2, <2>4, <2>5, CompletionEnds
<1>4. ASSUME NEW j \in JobName PROVE ~JobReconcileActive(j)
  BY <1>0 DEF JobReconcileActive
<1>5. ASSUME NEW j \in JobName, NEW k \in Key PROVE ~PodReconcile(j, k)
  BY <1>0 DEF PodReconcile
<1>6. CASE MarkJobProcessed \/ \E j \in JobName : JobReconcileInvalid(j)
  BY <1>1, <1>2, <1>6 DEF MarkJobProcessed, JobReconcileInvalid
<1>7. QED
  BY <1>1, <1>2, <1>3, <1>4, <1>5, <1>6 DEF Reconcilers

(***************************************************************************)
(* Planning, where no uninstall is asked for and where no version changes. *)
(***************************************************************************)
LEMMA VersionPlanned ==
  ASSUME NEW ns \in NodeStates, NEW sp \in Specs, PlainNodeState(ns), PlainSpec(sp), NEW k \in Key
  PROVE  LET to == HandleVersionChange(ns, sp) IN
         /\ PlainEntry(to[k], k)
         /\ "version" \notin used.kinds => to[k] = ns[k]
         /\ \/ to[k] = ns[k]
            \/ ns[k].stage # "upgrade" /\ to[k].stage = "upgrade" /\ to[k].state = "in_progress"
<1> DEFINE to == HandleVersionChange(ns, sp)
<1>0. PlainEntry(ns[k], k) /\ k[1] \in Pkgs
  BY DEF PlainNodeState, Key
<1>1. to[k] = IF k = SpecKey(sp, k[1]) /\ UpgradeNeeded(ns, sp, k[1]) THEN Status(k, "upgrade", "in_progress") ELSE ns[k]
  BY DEF HandleVersionChange
<1> HIDE DEF to
<1>2. ASSUME k = SpecKey(sp, k[1]), UpgradeNeeded(ns, sp, k[1])
      PROVE  "version" \in used.kinds /\ ns[k].stage # "upgrade"
  <2>1. ns[k].stage # "upgrade"
    BY <1>2 DEF UpgradeNeeded
  <2>2. PICK i \in Key : i[1] = k[1] /\ Present(ns, i) /\ ns[i].ver < sp[k[1]].ver
    BY <1>2 DEF UpgradeNeeded
  <2>3. ns[i].ver = i[2] /\ ("version" \notin used.kinds => i[2] = 1)
    BY <2>2 DEF PlainNodeState, PlainEntry, Present, NoEntry
  <2>4. "version" \notin used.kinds => sp[k[1]].ver = 1
    BY <1>0 DEF PlainSpec
  <2>5. QED
    BY <2>1, <2>2, <2>3, <2>4
<1>3. CASE k = SpecKey(sp, k[1]) /\ UpgradeNeeded(ns, sp, k[1])
  <2>1. to[k].ver = k[2] /\ to[k].stage = "upgrade" /\ to[k].state = "in_progress"
    BY <1>1, <1>3 DEF Status
  <2>2. QED
    BY <1>2, <1>3, <2>1 DEF to, PlainEntry, UninstallCycle
<1>4. QED
  BY <1>0, <1>1, <1>3 DEF to

LEMMA UninstallPlanned ==
  ASSUME NEW ns \in NodeStates, NEW sp \in Specs, PlainNodeState(ns), PlainSpec(sp), NEW k \in Key
  PROVE  LET to == HandleUninstallRequests(ns, sp) IN
         /\ PlainEntry(to[k], k)
         /\ "uninstall" \notin used.kinds => to[k] = ns[k]
         /\ \/ to[k] = ns[k]
            \/ to[k] = NoEntry /\ ns[k].stage = "uninstall-interrupt"
            \/ /\ sp[k[1]].uninst = TRUE /\ ns[k].stage \notin UninstallCycle
               /\ to[k].stage = "uninstall" /\ to[k].state = "in_progress"
         /\ k = SpecKey(sp, k[1]) /\ NeedsUninstall(ns, sp, k[1]) /\ to[k].stage = "uninstall-interrupt"
              => to[k].state # "complete"
<1> DEFINE to == HandleUninstallRequests(ns, sp)
<1>0. PlainEntry(ns[k], k) /\ k[1] \in Pkgs /\ sp[k[1]].uninst \in BOOLEAN
  BY DEF PlainNodeState, Key, Specs, SpecPkg
<1>1. to[k] = IF k # SpecKey(sp, k[1]) \/ ~NeedsUninstall(ns, sp, k[1]) THEN ns[k]
              ELSE CASE ns[k].stage = "uninstall" -> ns[k]
                     [] ns[k].stage = "uninstall-interrupt" -> IF ns[k].state = "complete" THEN NoEntry ELSE ns[k]
                     [] OTHER -> IF ns[k].state = "complete" THEN Status(k, "uninstall", "in_progress") ELSE ns[k]
  BY DEF HandleUninstallRequests
<1> HIDE DEF to
<1>2. "uninstall" \notin used.kinds => sp[k[1]].uninst = FALSE /\ ns[k].stage \notin UninstallCycle
  BY <1>0 DEF PlainSpec, PlainEntry, NoEntry, UninstallCycle
<1>3. NeedsUninstall(ns, sp, k[1]) /\ k = SpecKey(sp, k[1]) /\ ns[k].stage \notin UninstallCycle
        => sp[k[1]].uninst = TRUE
  BY <1>0 DEF NeedsUninstall, IsUninstallCycleInProgress, UninstallCycle
<1>4. /\ Status(k, "uninstall", "in_progress").stage = "uninstall"
      /\ Status(k, "uninstall", "in_progress").state = "in_progress"
      /\ Status(k, "uninstall", "in_progress").ver = k[2]
  BY DEF Status
<1>5. CASE k # SpecKey(sp, k[1]) \/ ~NeedsUninstall(ns, sp, k[1])
  BY <1>0, <1>1, <1>5 DEF to
<1>6. CASE k = SpecKey(sp, k[1]) /\ NeedsUninstall(ns, sp, k[1])
  <2>1. CASE ns[k].stage = "uninstall"
    BY <1>0, <1>1, <1>6, <2>1 DEF to
  <2>2. CASE ns[k].stage = "uninstall-interrupt"
    <3>1. to[k] = IF ns[k].state = "complete" THEN NoEntry ELSE ns[k]
      BY <1>1, <1>6, <2>2
    <3>2. PlainEntry(to[k], k) /\ "uninstall" \in used.kinds
      BY <1>0, <1>2, <2>2, <3>1 DEF PlainEntry, UninstallCycle
    <3>3. QED
      BY <2>2, <3>1, <3>2 DEF to, NoEntry
  <2>3. CASE ns[k].stage \notin UninstallCycle
    <3>1. to[k] = IF ns[k].state = "complete" THEN Status(k, "uninstall", "in_progress") ELSE ns[k]
      BY <1>1, <1>6, <2>3 DEF UninstallCycle
    <3>2. sp[k[1]].uninst = TRUE /\ "uninstall" \in used.kinds
      BY <1>2, <1>3, <1>6, <2>3
    <3>3. ns[k].state = "complete" => ns[k] # NoEntry
      BY DEF NoEntry
    <3>4. PlainEntry(to[k], k)
      BY <1>0, <1>4, <3>1, <3>2, <3>3 DEF PlainEntry
    <3>5. QED
      BY <1>4, <2>3, <3>1, <3>2, <3>4 DEF to, UninstallCycle
  <2>4. QED
    BY <2>1, <2>2, <2>3 DEF UninstallCycle
<1>7. QED
  BY <1>5, <1>6

LEMMA CancelPlanned ==
  ASSUME NEW ns \in NodeStates, NEW sp \in Specs, PlainNodeState(ns), PlainSpec(sp), VersionsApart, NEW k \in Key
  PROVE  LET to == HandleCancelledUninstalls(ns, sp) IN
         /\ PlainEntry(to[k], k)
         /\ "uninstall" \notin used.kinds => to[k] = ns[k]
         /\ \/ to[k] = ns[k]
            \/ /\ sp[k[1]].uninst = FALSE /\ ns[k].stage = "uninstall"
               /\ to[k].stage = "apply" /\ to[k].state = "in_progress"
<1> DEFINE to == HandleCancelledUninstalls(ns, sp)
<1>0. PlainEntry(ns[k], k) /\ k[1] \in Pkgs /\ sp[k[1]].uninst \in BOOLEAN /\ k = <<k[1], k[2]>>
  <2>1. k = <<k[1], k[2]>> /\ k[1] \in Pkgs
    BY DEF Key
  <2>2. QED
    BY <2>1 DEF PlainNodeState, Specs, SpecPkg
<1>1. to[k] = IF k = SpecKey(sp, k[1]) /\ Cancelled(ns, sp, k[1]) THEN Status(k, "apply", "in_progress") ELSE ns[k]
  BY DEF HandleCancelledUninstalls
<1> HIDE DEF to
<1>2. ASSUME k = SpecKey(sp, k[1]), Cancelled(ns, sp, k[1])
      PROVE  /\ "uninstall" \in used.kinds /\ sp[k[1]].uninst = FALSE /\ ns[k].stage = "uninstall"
             /\ ns[k] # NoEntry
  <2>1. PICK i \in Key : i[1] = k[1] /\ ns[i].stage = "uninstall"
    BY <1>2 DEF Cancelled
  <2>2. ns[i] # NoEntry
    BY <2>1 DEF NoEntry
  <2>3. PlainEntry(ns[i], i)
    BY DEF PlainNodeState
  <2>4. "uninstall" \in used.kinds
    BY <2>1, <2>2, <2>3 DEF PlainEntry, UninstallCycle
  <2>5. "version" \notin used.kinds
    BY <2>4 DEF VersionsApart
  <2>6. i[2] = 1 /\ k[2] = 1
    BY <1>0, <1>2, <2>2, <2>3, <2>5 DEF PlainEntry, PlainSpec, SpecKey
  <2>7. i = <<i[1], i[2]>>
    BY DEF Key
  <2>8. i = k
    BY <1>0, <2>1, <2>6, <2>7
  <2>9. QED
    BY <1>0, <1>2, <2>1, <2>2, <2>4, <2>8 DEF Cancelled
<1>3. CASE k = SpecKey(sp, k[1]) /\ Cancelled(ns, sp, k[1])
  <2>1. to[k].ver = k[2] /\ to[k].stage = "apply" /\ to[k].state = "in_progress"
    BY <1>1, <1>3 DEF Status
  <2>2. PlainEntry(to[k], k)
    BY <1>0, <1>2, <1>3, <2>1 DEF PlainEntry, UninstallCycle
  <2>3. QED
    BY <1>2, <1>3, <2>1, <2>2 DEF to
<1>4. QED
  BY <1>0, <1>1, <1>3 DEF to

LEMMA PlannedKeeps ==
  ASSUME NEW ns \in NodeStates, NEW sp \in Specs, PlainNodeState(ns), PlainSpec(sp), VersionsApart
  PROVE  LET to == PlannedState(ns, sp) IN
         /\ PlainNodeState(to) /\ \A k \in Key : Moved(ns[k], to[k])
         /\ \A p \in Runnable(to, sp) \cup UninstallList(HandleVersionChange(ns, sp), sp) :
              LeftToDo(to[SpecKey(sp, p)], p)
<1> DEFINE n1 == HandleVersionChange(ns, sp)
           n2 == HandleUninstallRequests(n1, sp)
           n3 == HandleCancelledUninstalls(n2, sp)
           to == HandleVersionChange(n3, sp)
           un == UninstallList(n1, sp)
           list == {p \in Pkgs : NeedsUninstall(n1, sp, p) /\ IsUninstallCycleInProgress(n2, SpecKey(sp, p))}
<1>0. to = PlannedState(ns, sp) /\ un = list
  BY DEF PlannedState, UninstallList
<1> HIDE DEF un
<1>1. /\ n1 \in NodeStates /\ PlainNodeState(n1)
      /\ \A k \in Key : /\ "version" \notin used.kinds => n1[k] = ns[k]
                        /\ \/ n1[k] = ns[k]
                           \/ ns[k].stage # "upgrade" /\ n1[k].stage = "upgrade" /\ n1[k].state = "in_progress"
  BY VersionPlanned, HandleVersionChangeType DEF PlainNodeState
<1> HIDE DEF n1
<1>2. /\ n2 \in NodeStates /\ PlainNodeState(n2)
      /\ \A k \in Key :
           /\ "uninstall" \notin used.kinds => n2[k] = n1[k]
           /\ \/ n2[k] = n1[k]
              \/ n2[k] = NoEntry /\ n1[k].stage = "uninstall-interrupt"
              \/ /\ sp[k[1]].uninst = TRUE /\ n1[k].stage \notin UninstallCycle
                 /\ n2[k].stage = "uninstall" /\ n2[k].state = "in_progress"
           /\ k = SpecKey(sp, k[1]) /\ NeedsUninstall(n1, sp, k[1]) /\ n2[k].stage = "uninstall-interrupt"
                => n2[k].state # "complete"
  BY <1>1, UninstallPlanned, HandleUninstallRequestsType DEF PlainNodeState
<1> HIDE DEF n2
<1>3. /\ n3 \in NodeStates /\ PlainNodeState(n3)
      /\ \A k \in Key : /\ "uninstall" \notin used.kinds => n3[k] = n2[k]
                        /\ \/ n3[k] = n2[k]
                           \/ /\ sp[k[1]].uninst = FALSE /\ n2[k].stage = "uninstall"
                              /\ n3[k].stage = "apply" /\ n3[k].state = "in_progress"
  BY <1>2, CancelPlanned, HandleCancelledUninstallsType DEF PlainNodeState
<1> HIDE DEF n3
<1>4. /\ to \in NodeStates /\ PlainNodeState(to)
      /\ \A k \in Key : /\ "version" \notin used.kinds => to[k] = n3[k]
                        /\ \/ to[k] = n3[k]
                           \/ n3[k].stage # "upgrade" /\ to[k].stage = "upgrade" /\ to[k].state = "in_progress"
  BY <1>3, VersionPlanned, HandleVersionChangeType DEF PlainNodeState
<1> HIDE DEF to
<1>5. ASSUME NEW k \in Key PROVE Moved(ns[k], to[k])
  <2>1. CASE "version" \notin used.kinds
    <3>1. n1[k] = ns[k] /\ to[k] = n3[k]
      BY <1>1, <1>4, <2>1
    <3>2. CASE n2[k] = ns[k]
      BY <1>3, <3>1, <3>2 DEF Moved
    <3>3. CASE n2[k] = NoEntry /\ ns[k].stage = "uninstall-interrupt"
      <4>1. n3[k] = n2[k]
        BY <1>3, <3>3 DEF NoEntry
      <4>2. QED
        BY <3>1, <3>3, <4>1 DEF Moved
    <3>4. CASE /\ sp[k[1]].uninst = TRUE /\ ns[k].stage \notin UninstallCycle
               /\ n2[k].stage = "uninstall" /\ n2[k].state = "in_progress"
      <4>1. n3[k] = n2[k]
        BY <1>3, <3>4
      <4>2. QED
        BY <3>1, <3>4, <4>1 DEF Moved, UninstallCycle
    <3>5. QED
      BY <1>2, <3>1, <3>2, <3>3, <3>4
  <2>2. CASE "uninstall" \notin used.kinds
    <3>1. n3[k] = n1[k]
      BY <1>2, <1>3, <2>2
    <3>2. QED
      BY <1>1, <1>4, <3>1 DEF Moved
  <2>3. QED
    BY <2>1, <2>2 DEF VersionsApart
<1>6. ASSUME NEW p \in Runnable(to, sp) PROVE LeftToDo(to[SpecKey(sp, p)], p)
  <2> DEFINE k == SpecKey(sp, p)
  <2>1. p \in Pkgs /\ ~IsPackageComplete(to, sp, HasInterrupt, p) /\ ~IsUninstallCycleInProgress(to, k)
    BY <1>6 DEF Runnable
  <2>2. k \in Key /\ k[2] = sp[p].ver
    BY <2>1, SpecKeyType DEF SpecKey
  <2>3. PlainEntry(to[k], k) /\ to[k] \in Entry \cup {NoEntry}
    BY <1>4, <2>2 DEF PlainNodeState, NodeStates
  <2> HIDE DEF k
  <2>4. ASSUME to[k].state = "complete"
        PROVE  to[k].stage \in {"apply", "upgrade", "interrupt"} \/ (to[k].stage = "config" /\ HasInterrupt[p])
    <3>1. to[k] # NoEntry
      BY <2>4 DEF NoEntry
    <3>2. to[k].ver = sp[p].ver /\ to[k].stage \in Stage
      BY <2>2, <2>3, <3>1 DEF PlainEntry, Entry
    <3>3. ~(to[k].stage = "post-interrupt" \/ (to[k].stage = "config" /\ ~HasInterrupt[p]))
      BY <2>1, <2>4, <3>2 DEF IsPackageComplete, k
    <3>4. to[k].stage \notin UninstallCycle
      BY <2>1 DEF IsUninstallCycleInProgress, UninstallCycle, k
    <3>5. QED
      BY <3>2, <3>3, <3>4 DEF Stage, UninstallCycle
  <2>5. QED
    BY <2>4 DEF LeftToDo, k
<1>7. ASSUME NEW p \in list PROVE LeftToDo(to[SpecKey(sp, p)], p)
  <2> DEFINE k == SpecKey(sp, p)
  <2>1. p \in Pkgs /\ k \in Key /\ k[1] = p /\ k = SpecKey(sp, k[1])
    BY SpecKeyType DEF SpecKey
  <2>2. NeedsUninstall(n1, sp, k[1]) /\ n2[k].stage \in UninstallCycle
    BY <1>7, <2>1 DEF IsUninstallCycleInProgress, UninstallCycle
  <2> HIDE DEF k
  <2>3. n2[k].stage = "uninstall" \/ n2[k].state # "complete"
    BY <1>2, <2>1, <2>2 DEF UninstallCycle
  <2>4. n3[k].stage = "uninstall" \/ n3[k].state # "complete"
    BY <1>3, <2>1, <2>3
  <2>5. to[k].state # "complete"
    BY <1>4, <2>1, <2>4 DEF PlainNodeState, PlainEntry, NoEntry
  <2>6. QED
    BY <2>5 DEF LeftToDo, k
<1> HIDE DEF list
<1>8. \A p \in Runnable(to, sp) \cup un : LeftToDo(to[SpecKey(sp, p)], p)
  BY <1>0, <1>6, <1>7
<1>9. un = UninstallList(HandleVersionChange(ns, sp), sp)
  BY DEF un, n1
<1>10. QED
  BY <1>0, <1>4, <1>5, <1>8, <1>9

LEMMA PassStartKeeps ==
  ASSUME TypeInv, KeepInv, IntrospectSkyhook \/ RunSkyhookPackages
  PROVE  /\ UNCHANGED <<spec, node, cache, used, attempts>>
         /\ pass'.pc # "idle" => PassKeeps'
<1>0. /\ cache \in Node /\ cache.ns \in NodeStates /\ spec \in Specs /\ cache = node
      /\ PlainNodeState(cache.ns) /\ PlainSpec(spec) /\ VersionsApart
  BY SharedTypes DEF KeepInv, Node
<1>1. UNCHANGED <<spec, node, cache, used, attempts>> /\ pass.pc = "idle"
  BY DEF IntrospectSkyhook, RunSkyhookPackages, PassMayStart
<1>2. CASE IntrospectSkyhook
  <2>1. IntrospectNode(cache, spec).ns = cache.ns
    BY <1>0, IntrospectNodeType
  <2>2. /\ pass'.spec = spec /\ pass'.before = cache /\ pass'.un \cup pass'.rest = {}
        /\ pass'.mem = IntrospectNode(cache, spec)
    BY <1>2 DEF IntrospectSkyhook, IdlePass
  <2>3. pass'.before.ns = node.ns /\ pass'.mem.ns = node.ns
    BY <1>0, <2>1, <2>2
  <2>4. PassKeeps'
    BY <1>0, <1>1, <2>2, <2>3 DEF PassKeeps, PlainSpec, PlainNodeState, PlainEntry, Moved, Brought
  <2>5. QED
    BY <1>1, <2>4
<1>3. CASE RunSkyhookPackages /\ pass' = pass
  BY <1>1, <1>3
<1>4. CASE RunSkyhookPackages /\ pass' # pass
  <2> DEFINE ns == PlannedState(cache.ns, spec)
             n == [cache EXCEPT !.ns = ns]
             mem == IntrospectNode(n, spec)
             rest == Runnable(ns, spec)
             list == UninstallList(HandleVersionChange(cache.ns, spec), spec)
  <2>1. /\ pass'.spec = spec /\ pass'.before = cache /\ pass'.mem = mem
        /\ pass'.un \subseteq list /\ pass'.rest = rest
    BY <1>4 DEF RunSkyhookPackages
  <2>2. /\ ns \in NodeStates /\ PlainNodeState(ns) /\ \A k \in Key : Moved(cache.ns[k], ns[k])
        /\ \A p \in rest \cup list : LeftToDo(ns[SpecKey(spec, p)], p)
    BY <1>0, PlannedKeeps, PlannedStateType
  <2> HIDE DEF ns, rest, list
  <2>3. n \in Node /\ n.ns = ns
    BY <1>0, <2>2 DEF Node
  <2> HIDE DEF n
  <2>4. mem.ns = ns
    BY <2>3, IntrospectNodeType
  <2> HIDE DEF mem
  <2>5. pass'.before.ns = node.ns /\ pass'.mem.ns = ns
    BY <1>0, <2>1, <2>4
  <2>6. /\ PlainSpec(pass.spec)' /\ PlainNodeState(pass.mem.ns)'
    BY <1>0, <1>1, <2>1, <2>2, <2>5 DEF PlainSpec, PlainNodeState, PlainEntry
  <2>7. \A k \in Key : Moved(pass.before.ns[k], pass.mem.ns[k])' /\ Brought(pass.before.ns[k], node.ns[k])'
    BY <1>0, <1>1, <2>2, <2>5 DEF Moved, Brought
  <2>8. \A p \in pass'.un \cup pass'.rest : LeftToDo(pass.mem.ns[PassKey(p)], p)'
    BY <2>1, <2>2, <2>5 DEF PassKey, LeftToDo
  <2>9. PassKeeps'
    BY <2>6, <2>7, <2>8 DEF PassKeeps
  <2>10. QED
    BY <1>1, <2>9
<1>5. QED
  BY <1>2, <1>3, <1>4

(***************************************************************************)
(* One package of the pass.                                                *)
(***************************************************************************)

\* What a package's own step may write over its entry e.
OwnStep(e, p, stage, state) ==
  \/ e.state = "complete" /\ stage = NextStage(e, HasInterrupt[p]) /\ state = "in_progress"
  \/ e.state = "complete" /\ e.stage = "config" /\ HasInterrupt[p] /\ stage = "interrupt" /\ state = "skipped"
  \/ /\ NextStage(e, HasInterrupt[p]) = "none" /\ e.state # "skipped" /\ state = "in_progress"
     /\ \/ stage = e.stage
        \/ stage = "apply" /\ e.stage \notin {"config", "upgrade", "uninstall", "uninstall-interrupt"}

LEMMA OwnStepKeeps ==
  ASSUME NEW p \in Pkgs, NEW k \in Key, k[1] = p, NEW b, NEW e \in Entry \cup {NoEntry},
         NEW stage \in Stage, NEW state \in State, NEW n, "version" \notin used.kinds => k[2] = 1,
         n = Status(k, stage, state), Moved(b, e), PlainEntry(e, k), LeftToDo(e, p), OwnStep(e, p, stage, state)
  PROVE  Moved(b, n) /\ PlainEntry(n, k) /\ LeftToDo(n, p)
<1>0. n.ver = k[2] /\ n.stage = stage /\ n.state = state
  BY DEF Status
<1>1. CASE e.state = "complete" /\ stage = NextStage(e, HasInterrupt[p]) /\ state = "in_progress"
  <2>1. e.stage \in {"apply", "upgrade", "interrupt"} \/ (e.stage = "config" /\ HasInterrupt[p])
    BY <1>1 DEF LeftToDo
  <2>2. \/ e.stage \in {"apply", "upgrade"} /\ stage = "config"
        \/ e.stage = "interrupt" /\ stage = "post-interrupt"
        \/ e.stage = "config" /\ stage = "interrupt" /\ HasInterrupt[p]
    BY <1>1, <2>1 DEF NextStage
  <2>3. Moved(b, n)
    BY <1>0, <1>1, <2>2 DEF Moved, NoEntry
  <2>4. PlainEntry(n, k) /\ LeftToDo(n, p)
    BY <1>0, <1>1, <2>2 DEF PlainEntry, LeftToDo, UninstallCycle
  <2>5. QED
    BY <2>3, <2>4
<1>2. CASE /\ e.state = "complete" /\ e.stage = "config" /\ HasInterrupt[p]
           /\ stage = "interrupt" /\ state = "skipped"
  <2>1. Moved(b, n)
    BY <1>0, <1>2 DEF Moved, NoEntry
  <2>2. QED
    BY <1>0, <1>2, <2>1 DEF PlainEntry, LeftToDo, UninstallCycle
<1>3. CASE NextStage(e, HasInterrupt[p]) = "none" /\ e.state # "skipped" /\ state = "in_progress"
  <2>1. e.state # "complete"
    BY <1>3 DEF LeftToDo, NextStage
  <2>2. e = NoEntry \/ (e \in Entry /\ e.state = "in_progress" /\ e.ver = k[2])
    BY <1>3, <2>1 DEF PlainEntry, Entry, State
  <2>3. CASE stage = e.stage
    <3>1. e # NoEntry
      BY <2>3 DEF NoEntry, Stage
    <3>2. e = [ver |-> e.ver, stage |-> e.stage, state |-> e.state]
      BY <2>2, <3>1 DEF Entry
    <3>3. n = e
      BY <1>3, <2>2, <2>3, <3>1, <3>2 DEF Status
    <3>4. QED
      BY <3>3
  <2>4. CASE /\ stage = "apply" /\ stage # e.stage
             /\ e.stage \notin {"config", "upgrade", "uninstall", "uninstall-interrupt"}
    <3>1. e = NoEntry \/ e.stage \in {"interrupt", "post-interrupt"}
      BY <2>2, <2>4 DEF Entry, Stage
    <3>2. Moved(b, n)
      BY <1>0, <1>3, <2>1, <2>4, <3>1 DEF Moved, NoEntry
    <3>3. QED
      BY <1>0, <1>3, <2>4, <3>2 DEF PlainEntry, LeftToDo, UninstallCycle
  <2>5. QED
    BY <1>3, <2>3, <2>4, OwnStep(e, p, stage, state), <2>1 DEF OwnStep
<1>4. QED
  BY <1>1, <1>2, <1>3 DEF OwnStep

LEMMA StepWrites ==
  ASSUME TypeInv, NEW p \in Pkgs, RunPackage(p), pass' # IdlePass
  PROVE  \E m \in Node :
           /\ Advance(p, m)
           /\ \/ m.ns \in ProgressSkipped(pass.mem.ns, pass.spec) \/ m.ns = pass.mem.ns
              \/ \E stage \in Stage, state \in State :
                   /\ OwnStep(PassEntry(p), p, stage, state)
                   /\ m.ns = Upsert(pass.mem.ns, PassKey(p), stage, state)
<1>0. pass.mem \in Node /\ pass.mem.ns \in NodeStates /\ PassKey(p) \in Key /\ pass.spec \in Specs /\ Reached(p)
  BY PassTypes DEF RunPackage, RunPlainPackage, RunSkippedPackage, RunActiveInterrupt, RunDrainedPackage,
     RunInterruptStage, RunNextStage
<1>t. PassEntry(p) \in Entry \cup {NoEntry}
  BY PassTypes
<1> DEFINE Own(m) ==
             /\ m \in Node
             /\ \/ m.ns = pass.mem.ns
                \/ \E stage \in Stage, state \in State :
                     /\ OwnStep(PassEntry(p), p, stage, state)
                     /\ m.ns = Upsert(pass.mem.ns, PassKey(p), stage, state)
           Good == \E m \in Node : Advance(p, m) /\ Own(m)
<1>1. Own(pass.mem) /\ Own(Nothing.mem)
  BY <1>0 DEF Nothing
<1>2. ASSUME NEW m, Own(m) PROVE Own([m EXCEPT !.unsched = TRUE, !.cordon = TRUE])
  <2>1. [m EXCEPT !.unsched = TRUE, !.cordon = TRUE] \in Node /\ [m EXCEPT !.unsched = TRUE, !.cordon = TRUE].ns = m.ns
    BY <1>2 DEF Node
  <2>2. QED
    BY <1>2, <2>1
<1>3. ASSUME NEW m, Own(m) PROVE m \in Node
  BY <1>3
<1>4. ApplyPackage(p) /\ PassNext(p) # "interrupt" /\ PassEntry(p).state # "skipped" => Good
  <2> SUFFICES ASSUME ApplyPackage(p), PassNext(p) # "interrupt", PassEntry(p).state # "skipped" PROVE Good
    OBVIOUS
  <2>1. PICK m \in Node :
          /\ pass' = IdlePass \/ Advance(p, m)
          /\ \/ m = pass.mem
             \/ /\ ApplyStage(p) \in Stage \ InterruptStages
                /\ m.ns = Upsert(pass.mem.ns, PassKey(p), ApplyStage(p), "in_progress")
    BY <1>0, ApplyOutcome
  <2>2. OwnStep(PassEntry(p), p, ApplyStage(p), "in_progress")
    <3>1. CASE PassNext(p) = "none"
      BY <3>1 DEF ApplyStage, PassNext, OwnStep
    <3>2. CASE PassNext(p) # "none"
      <4>1. ApplyStage(p) = NextStage(PassEntry(p), HasInterrupt[p]) /\ PassEntry(p).state = "complete"
        BY <3>2 DEF ApplyStage, PassNext, NextStage
      <4>2. QED
        BY <4>1 DEF OwnStep
    <3>3. QED
      BY <3>1, <3>2
  <2>3. Own(m)
    BY <2>1, <2>2 DEF State
  <2> HIDE DEF Own
  <2>4. QED
    BY <2>1, <2>3
<1>5. ASSUME NEW stage \in InterruptStages, HasInterrupt[p], OwnStep(PassEntry(p), p, stage, "in_progress")
      PROVE  Own(InterruptEffect(p, stage).mem)
  <2> DEFINE m == InterruptEffect(p, stage).mem
  <2>1. m \in Node /\ (m = pass.mem \/ m.ns = Upsert(pass.mem.ns, PassKey(p), stage, "in_progress"))
    BY <1>0, <1>5, InterruptOutcome
  <2>2. stage \in Stage /\ "in_progress" \in State
    BY DEF InterruptStages, Stage, State
  <2> HIDE DEF m
  <2>3. QED
    BY <1>5, <2>1, <2>2 DEF m
<1> HIDE DEF Own
<1>6. ASSUME NEW r, Own(r.mem), EnsureNodeIsReadyForInterrupt(p, r) PROVE Good
  BY <1>2, <1>3, <1>6 DEF EnsureNodeIsReadyForInterrupt
<1>7. CASE RunSkippedPackage(p)
  <2>1. PICK ns \in IF RunInterrupt(p) THEN ProgressSkipped(pass.mem.ns, pass.spec) ELSE {pass.mem.ns} :
          Advance(p, [pass.mem EXCEPT !.ns = ns])
    BY <1>7 DEF RunSkippedPackage
  <2>2. \A o \in Pkgs : pass.spec[o].ver \in Versions
    BY <1>0, SpecKeyType
  <2>3. ns \in NodeStates
    BY <1>0, <2>2, ProgressSkippedType
  <2>4. [pass.mem EXCEPT !.ns = ns] \in Node /\ [pass.mem EXCEPT !.ns = ns].ns = ns
    BY <1>0, <2>3 DEF Node
  <2>5. QED
    BY <2>1, <2>4
<1>8. CASE RunActiveInterrupt(p)
  <2> DEFINE s == PassEntry(p).stage
  <2>1. HasInterrupt[p] /\ s \in InterruptStages /\ PassEntry(p).state \in {"in_progress", "erroring"}
    BY <1>8 DEF RunActiveInterrupt, IsInterruptStage, IsActive
  <2>2. OwnStep(PassEntry(p), p, s, "in_progress")
    BY <2>1 DEF OwnStep, NextStage
  <2>3. Own(InterruptEffect(p, s).mem)
    BY <1>5, <2>1, <2>2
  <2>4. Good
    BY <1>3, <1>6, <1>8, <2>3 DEF RunActiveInterrupt
  <2>5. QED
    BY <2>4 DEF Own
<1>9. CASE RunDrainedPackage(p)
  <2>1. PassEntry(p).state # "skipped" /\ PassNext(p) # "interrupt"
    BY <1>9 DEF RunDrainedPackage
  <2>2. Good
    BY <1>1, <1>4, <1>6, <1>9, <2>1 DEF RunDrainedPackage
  <2>3. QED
    BY <2>2 DEF Own
<1>10. CASE RunInterruptStage(p)
  <2> DEFINE up == Upsert(pass.mem.ns, PassKey(p), "interrupt", "skipped")
             skip == [pass.mem EXCEPT !.ns = up]
  <2>1. /\ HasInterrupt[p] /\ PassEntry(p).state = "complete" /\ PassEntry(p).stage = "config"
        /\ NextStage(PassEntry(p), HasInterrupt[p]) = "interrupt"
    BY <1>10 DEF RunInterruptStage, PassNext, NextStage
  <2>2. Own(InterruptEffect(p, "interrupt").mem)
    <3>1. OwnStep(PassEntry(p), p, "interrupt", "in_progress")
      BY <2>1 DEF OwnStep
    <3>2. QED
      BY <1>5, <2>1, <3>1 DEF InterruptStages
  <2>3. OwnStep(PassEntry(p), p, "interrupt", "skipped")
    BY <2>1 DEF OwnStep
  <2>4. up \in NodeStates
    BY <1>0, UpsertType DEF Stage, State
  <2>5. Advance(p, InterruptEffect(p, "interrupt").mem) \/ Advance(p, skip)
    <3>1. CASE RunInterrupt(p)
      BY <1>10, <3>1 DEF RunInterruptStage
    <3>2. CASE ~RunInterrupt(p)
      BY <1>10, <3>2 DEF RunInterruptStage
    <3>3. QED
      BY <3>1, <3>2
  <2>6. Own(skip)
    <3>1. "interrupt" \in Stage /\ "skipped" \in State
      BY DEF Stage, State
    <3> HIDE DEF up
    <3>2. skip \in Node /\ skip.ns = up
      BY <1>0, <2>4 DEF Node
    <3> HIDE DEF skip
    <3>3. QED
      BY <2>3, <3>1, <3>2 DEF Own, up
  <2> HIDE DEF skip
  <2>7. Good
    BY <1>3, <2>2, <2>5, <2>6
  <2>8. QED
    BY <2>7 DEF Own
<1>11. CASE RunPlainPackage(p) \/ RunNextStage(p)
  <2>1. CASE PassEntry(p).state = "skipped"
    <3>1. RunPlainPackage(p)
      BY <1>11, <2>1 DEF RunNextStage, PassNext, NextStage
    <3>2. pass' = IdlePass \/ Advance(p, pass.mem)
      BY <2>1, <3>1 DEF RunPlainPackage, ApplyPackage, Nothing
    <3>3. QED
      BY <1>0, <3>2
  <2>2. CASE PassEntry(p).state # "skipped"
    <3>1. ApplyPackage(p) /\ PassNext(p) # "interrupt"
      BY <1>11 DEF RunPlainPackage, RunNextStage, PassNext, NextStage
    <3>2. Good
      BY <1>4, <2>2, <3>1
    <3>3. QED
      BY <3>2 DEF Own
  <2>3. QED
    BY <2>1, <2>2
<1>12. QED
  BY <1>7, <1>8, <1>9, <1>10, <1>11 DEF RunPackage

LEMMA RunKeeps ==
  ASSUME TypeInv, KeepInv, NEW p \in Pkgs, RunPackage(p)
  PROVE  /\ UNCHANGED <<spec, node, cache, used, attempts>>
         /\ pass'.pc # "idle" => PassKeeps'
<1>0. /\ pass.pc = "run" /\ pass \in Passes /\ pass.mem.ns \in NodeStates /\ pass.spec \in Specs
      /\ PassKey(p) \in Key /\ PassKey(p)[1] = p /\ PassEntry(p) = pass.mem.ns[PassKey(p)]
      /\ p \in pass.un \cup pass.rest
  BY PassTypes, SpecKeyType DEF PassKey, SpecKey, PassEntry, RunPackage, RunPlainPackage, RunSkippedPackage,
     RunActiveInterrupt, RunDrainedPackage, RunInterruptStage, RunNextStage, Reached
<1>1. UNCHANGED <<spec, node, cache, used, attempts>>
  BY DEF RunPackage, RunPlainPackage, RunSkippedPackage, RunActiveInterrupt, RunDrainedPackage,
     RunInterruptStage, RunNextStage, passOnly
<1>2. /\ PlainSpec(pass.spec) /\ PlainNodeState(pass.mem.ns) /\ VersionsApart
      /\ \A k \in Key : /\ Moved(pass.before.ns[k], pass.mem.ns[k]) /\ Brought(pass.before.ns[k], node.ns[k])
      /\ \A q \in pass.un \cup pass.rest : LeftToDo(pass.mem.ns[PassKey(q)], q)
  BY <1>0 DEF KeepInv, PassKeeps
<1>3. CASE pass' = IdlePass
  BY <1>1, <1>3, IdlePassType
<1>4. CASE pass' # IdlePass
  <2>1. PICK m \in Node :
          /\ Advance(p, m)
          /\ \/ m.ns \in ProgressSkipped(pass.mem.ns, pass.spec) \/ m.ns = pass.mem.ns
             \/ \E stage \in Stage, state \in State :
                  /\ OwnStep(PassEntry(p), p, stage, state)
                  /\ m.ns = Upsert(pass.mem.ns, PassKey(p), stage, state)
    BY <1>4, StepWrites
  <2>2. /\ pass'.before = pass.before /\ pass'.spec = pass.spec /\ pass'.mem = m
        /\ pass'.un \cup pass'.rest \subseteq pass.un \cup pass.rest
    BY <1>0, <2>1 DEF Advance, Passes
  <2> DEFINE Kept(k) ==
               /\ Moved(pass.before.ns[k], m.ns[k]) /\ PlainEntry(m.ns[k], k)
               /\ \A q \in pass.un \cup pass.rest : k = PassKey(q) => LeftToDo(m.ns[k], q)
  <2>3. ASSUME NEW k \in Key, m.ns[k] = pass.mem.ns[k] PROVE Kept(k)
    BY <1>2, <2>3 DEF PlainNodeState
  <2>4. ASSUME NEW k \in Key PROVE Kept(k)
    <3>1. CASE m.ns \in ProgressSkipped(pass.mem.ns, pass.spec)
      <4>1. \/ m.ns[k] = pass.mem.ns[k]
            \/ /\ pass.mem.ns[k].stage = "interrupt" /\ pass.mem.ns[k].state = "skipped"
               /\ m.ns[k].stage = "interrupt" /\ m.ns[k].state = "complete" /\ m.ns[k].ver = k[2]
        BY <1>0, <1>2, <3>1, PlainPromotion
      <4>2. CASE /\ pass.mem.ns[k].stage = "interrupt" /\ pass.mem.ns[k].state = "skipped"
                 /\ m.ns[k].stage = "interrupt" /\ m.ns[k].state = "complete" /\ m.ns[k].ver = k[2]
        <5>1. Moved(pass.before.ns[k], pass.mem.ns[k]) /\ PlainEntry(pass.mem.ns[k], k)
          BY <1>2 DEF PlainNodeState
        <5>2. Moved(pass.before.ns[k], m.ns[k])
          BY <4>2, <5>1 DEF Moved, NoEntry
        <5>3. PlainEntry(m.ns[k], k)
          BY <4>2, <5>1 DEF PlainEntry, NoEntry, UninstallCycle
        <5>4. QED
          BY <4>2, <5>2, <5>3 DEF LeftToDo
      <4>3. QED
        BY <2>3, <4>1, <4>2
    <3>2. ASSUME NEW stage \in Stage, NEW state \in State, OwnStep(PassEntry(p), p, stage, state),
                 m.ns = Upsert(pass.mem.ns, PassKey(p), stage, state)
          PROVE  Kept(k)
      <4>1. CASE k # PassKey(p)
        <5>1. m.ns[k] = pass.mem.ns[k]
          BY <1>0, <3>2, <4>1, UpsertFields
        <5>2. QED
          BY <2>3, <5>1
      <4>2. CASE k = PassKey(p)
        <5>1. m.ns[k] = Status(k, stage, state)
          BY <1>0, <3>2, <4>2 DEF Upsert, NodeStates
        <5>2. "version" \notin used.kinds => k[2] = 1
          BY <1>2, <4>2 DEF PlainSpec, PassKey, SpecKey
        <5>3. /\ Moved(pass.before.ns[k], pass.mem.ns[k]) /\ PlainEntry(pass.mem.ns[k], k)
              /\ LeftToDo(pass.mem.ns[k], p) /\ pass.mem.ns[k] \in Entry \cup {NoEntry}
              /\ PassEntry(p) = pass.mem.ns[k]
          BY <1>0, <1>2, <4>2 DEF PlainNodeState, NodeStates
        <5>4. Moved(pass.before.ns[k], m.ns[k]) /\ PlainEntry(m.ns[k], k) /\ LeftToDo(m.ns[k], p)
          BY <1>0, <3>2, <4>2, <5>1, <5>2, <5>3, OwnStepKeeps
        <5>5. \A q : k = PassKey(q) => q = p
          BY <1>0, <4>2 DEF PassKey, SpecKey
        <5>6. QED
          BY <5>4, <5>5
      <4>3. QED
        BY <4>1, <4>2
    <3>3. QED
      BY <2>1, <2>3, <3>1, <3>2
  <2>5. PlainSpec(pass.spec)' /\ PlainNodeState(pass.mem.ns)'
    BY <1>1, <1>2, <2>2, <2>4 DEF PlainSpec, PlainNodeState, PlainEntry
  <2>6. \A k \in Key : Moved(pass.before.ns[k], pass.mem.ns[k])' /\ Brought(pass.before.ns[k], node.ns[k])'
    BY <1>1, <1>2, <2>2, <2>4 DEF Moved, Brought
  <2>7. ASSUME NEW q \in pass'.un \cup pass'.rest PROVE LeftToDo(pass.mem.ns[PassKey(q)], q)'
    <3>1. q \in pass.un \cup pass.rest /\ q \in Pkgs
      BY <1>0, <2>2 DEF Passes
    <3>2. PassKey(q) \in Key /\ PassKey(q)' = PassKey(q)
      BY <2>2, <3>1, PassTypes DEF PassKey
    <3>3. LeftToDo(m.ns[PassKey(q)], q)
      BY <2>4, <3>1, <3>2
    <3>4. QED
      BY <2>2, <3>2, <3>3 DEF LeftToDo
  <2>8. QED
    BY <1>1, <2>5, <2>6, <2>7 DEF PassKeeps
<1>5. QED
  BY <1>3, <1>4

\* The save: what the pass has moved on is at a stage that the node's entry is not
\* complete at.
LEMMA SaveKeeps ==
  ASSUME NodeLag = FALSE, TypeInv, KeepInv, SaveNodesAndSkyhook
  PROVE  /\ UNCHANGED <<spec, used, attempts>> /\ cache' = node' /\ pass'.pc = "idle"
         /\ \A k \in Key : /\ PlainEntry(node'.ns[k], k)
                           /\ node.ns[k].state = "complete" /\ node'.ns[k].stage = node.ns[k].stage
                                => node'.ns[k].state = "complete"
<1>1. UNCHANGED <<spec, used, attempts>> /\ cache' = node' /\ pass'.pc = "idle"
  BY IdlePassType DEF SaveNodesAndSkyhook, WriteNode
<1>2. /\ PlainNodeState(pass.mem.ns) /\ PlainNodeState(node.ns) /\ node.ns \in NodeStates
      /\ \A k \in Key : /\ Moved(pass.before.ns[k], pass.mem.ns[k]) /\ Brought(pass.before.ns[k], node.ns[k])
  BY SharedTypes DEF KeepInv, PassKeeps, SaveNodesAndSkyhook
<1>3. node'.ns = MergeDelta(pass.before.ns, pass.mem.ns, node.ns)
  BY DEF SaveNodesAndSkyhook, WriteNode
<1>4. ASSUME NEW k \in Key
      PROVE  /\ PlainEntry(node'.ns[k], k)
             /\ node.ns[k].state = "complete" /\ node'.ns[k].stage = node.ns[k].stage
                  => node'.ns[k].state = "complete"
  <2>1. node'.ns[k] = IF pass.before.ns[k] = pass.mem.ns[k] THEN node.ns[k] ELSE pass.mem.ns[k]
    BY <1>3 DEF MergeDelta
  <2>2. CASE pass.before.ns[k] = pass.mem.ns[k]
    BY <1>2, <2>1, <2>2 DEF PlainNodeState
  <2>3. CASE pass.before.ns[k] # pass.mem.ns[k]
    <3> DEFINE b == pass.before.ns[k]
               e == pass.mem.ns[k]
               n == node.ns[k]
    <3>1. node'.ns[k] = e /\ Moved(b, e) /\ Brought(b, n) /\ b # e /\ n \in Entry \cup {NoEntry} /\ PlainEntry(e, k)
      BY <1>2, <2>1, <2>3 DEF PlainNodeState, NodeStates
    <3> HIDE DEF b, e, n
    <3>2. ASSUME n.state = "complete", e.stage = n.stage PROVE e.state = "complete"
      <4>1. n # NoEntry /\ n.stage \in Stage
        BY <3>1, <3>2 DEF NoEntry, Entry
      <4>2. n.stage = b.stage \/ (b.stage = "uninstall" /\ n.stage = "uninstall-interrupt")
        BY <3>1, <4>1 DEF Brought
      <4>3. QED
        BY <3>1, <3>2, <4>1, <4>2 DEF Moved, NoEntry, Stage
    <3>3. QED
      BY <3>1, <3>2 DEF n, e
  <2>4. QED
    BY <2>2, <2>3
<1>5. QED
  BY <1>1, <1>4

LEMMA NothingNewFails ==
  ASSUME MaxFailures = 0, TypeInv, NothingFails, Next, NEW i \in JobName
  PROVE  jobs'[i].phase \in {"none", "active", "complete"}
<1>0. /\ JobsOK(jobs) /\ \A j \in JobName : jobs[j] \in Job /\ jobs[j].phase \in {"none", "active", "complete"}
      /\ ~CanFail
  BY SharedTypes DEF JobsOK, NothingFails, CanFail, TypeInv, TypeOK
<1> DEFINE Fine == jobs'[i].phase \in {"none", "active", "complete"}
<1>1. UNCHANGED jobs => Fine
  BY <1>0
<1>2. ValidateRunningPackages => Fine
  BY <1>0 DEF ValidateRunningPackages, Job
<1>3. ASSUME NEW b PROVE SetSuspend(jobs, b)[i].phase = jobs[i].phase
  BY <1>0 DEF SetSuspend, Job
<1>4. SuspendUnfinishedJobs \/ IntrospectSkyhook \/ RunSkyhookPackages \/ SaveNodesAndSkyhook => Fine
  BY <1>0, <1>1, <1>3, ZenonT(40) DEF SuspendUnfinishedJobs, IntrospectSkyhook, RunSkyhookPackages, Resumed,
     SaveNodesAndSkyhook
<1>5. ASSUME NEW p \in Pkgs, RunPackage(p) PROVE Fine
  BY <1>0, <1>5, RunJobs, CreateCompletesNothing
<1>6. ASSUME NEW j, NEW e, jobs' = [jobs EXCEPT ![j] = e], j \in JobName => e.phase \in {"none", "active", "complete"}
      PROVE  Fine
  BY <1>0, <1>6 DEF JobsOK
<1>7. Reconcilers => Fine
  <2>1. ASSUME NEW j, jobs' = [jobs EXCEPT ![j].proc = TRUE] \/ jobs' = [jobs EXCEPT ![j].del = TRUE]
        PROVE  Fine
    BY <1>0, <2>1 DEF JobsOK, Job
  <2>2. MarkJobProcessed => Fine
    BY <1>1, <2>1 DEF MarkJobProcessed
  <2>3. ASSUME NEW j \in JobName, JobReconcileInvalid(j) PROVE Fine
    BY <2>1, <2>3 DEF JobReconcileInvalid
  <2>4. QED
    BY <1>1, <2>2, <2>3 DEF Reconcilers, JobReconcileFinished, JobReconcileActive, PodReconcile
<1>8. ASSUME NEW j \in JobName, JobSucceeds(j) \/ JobFails(j) \/ JobFailureEnds(j) \/ JobGone(j) \/ JobSeen(j)
      PROVE  Fine
  <2>1. ~JobFails(j) /\ ~JobFailureEnds(j)
    BY <1>0 DEF JobFails, JobFailureEnds
  <2>2. \E e : jobs' = [jobs EXCEPT ![j] = e] /\ e.phase \in {"none", "active", "complete"}
    BY <1>0, <1>8, <2>1, NoJobType DEF JobSucceeds, JobGone, JobSeen, JobsOK, Job
  <2>3. QED
    BY <1>6, <2>2
<1>9. Environment => Fine
  BY <1>1, <1>8 DEF Environment, CacheSync, PlaceWorkload, WorkloadLeaves, EditMode, Edit, OperatorCrash,
     AttemptFails, EditVersion, EditOther, EditUninstall
<1>10. QED
  BY <1>2, <1>4, <1>5, <1>7, <1>9 DEF Next, HeavyPass

\* An edit is of a kind that the plans let through.
LEMMA EditKeeps ==
  ASSUME KeepConditions, TypeInv, KeepInv, NEW kind \in EditKinds, Edit(kind),
         spec' # spec => \/ \E p \in Pkgs : EditVersion(p) /\ kind = "version"
                         \/ \E p \in Pkgs : EditUninstall(p) /\ kind = "uninstall"
                         \/ \E p \in Pkgs : EditOther(p) /\ kind = "other"
  PROVE  used.kinds \subseteq used'.kinds /\ VersionsApart' /\ PlainSpec(spec)'
<1>0. used'.kinds = used.kinds \cup {kind} /\ \E plan \in EditPlans : used.kinds \cup {kind} \subseteq plan
  BY DEF Edit, TypeInv, TypeOK
<1>1. VersionsApart'
  BY <1>0 DEF KeepConditions, VersionsApart
<1>2. spec \in Specs /\ PlainSpec(spec)
  BY SharedTypes DEF KeepInv
<1>3. ASSUME NEW p \in Pkgs, NEW pkg \in SpecPkg, Update(p, pkg), NEW q \in Pkgs
      PROVE  /\ spec'[q].ver = (IF q = p THEN pkg.ver ELSE spec[q].ver)
             /\ spec'[q].uninst = (IF q = p THEN pkg.uninst ELSE spec[q].uninst)
  <2> DEFINE new == IF q = p THEN pkg ELSE spec[q]
  <2>1. new \in SpecPkg
    BY <1>2 DEF Specs
  <2>2. spec'[q] = [new EXCEPT !.gen = @ + 1]
    BY <1>3 DEF Update
  <2> HIDE DEF new
  <2>3. spec'[q].ver = new.ver /\ spec'[q].uninst = new.uninst
    BY <2>1, <2>2 DEF SpecPkg
  <2>4. QED
    BY <2>3 DEF new
<1>4. CASE spec' = spec
  <2>1. \A q \in Pkgs : spec'[q].ver = spec[q].ver /\ spec'[q].uninst = spec[q].uninst
    BY <1>4
  <2>2. QED
    BY <1>0, <1>1, <1>2, <2>1 DEF PlainSpec
<1>5. ASSUME NEW p \in Pkgs, EditOther(p) PROVE PlainSpec(spec)'
  <2>1. spec[p] \in SpecPkg /\ Update(p, spec[p])
    BY <1>2, <1>5 DEF EditOther, Specs
  <2>2. \A q \in Pkgs : spec'[q].ver = spec[q].ver /\ spec'[q].uninst = spec[q].uninst
    BY <1>3, <2>1
  <2>3. QED
    BY <1>0, <1>2, <2>2 DEF PlainSpec
<1>6. ASSUME NEW p \in Pkgs, EditVersion(p), kind = "version" PROVE PlainSpec(spec)'
  <2>1. PICK v \in Versions : Update(p, [spec[p] EXCEPT !.ver = v])
    BY <1>6 DEF EditVersion
  <2>2. [spec[p] EXCEPT !.ver = v] \in SpecPkg /\ [spec[p] EXCEPT !.ver = v].uninst = spec[p].uninst
    BY <1>2 DEF Specs, SpecPkg
  <2>3. \A q \in Pkgs : spec'[q].uninst = spec[q].uninst
    BY <1>3, <2>1, <2>2
  <2>4. QED
    BY <1>0, <1>2, <1>6, <2>3 DEF PlainSpec
<1>7. ASSUME NEW p \in Pkgs, EditUninstall(p), kind = "uninstall" PROVE PlainSpec(spec)'
  <2> DEFINE pkg == [spec[p] EXCEPT !.uninst = ~spec[p].uninst]
  <2>1. Update(p, pkg)
    BY <1>7 DEF EditUninstall
  <2>2. pkg \in SpecPkg /\ pkg.ver = spec[p].ver
    BY <1>2 DEF Specs, SpecPkg
  <2> HIDE DEF pkg
  <2>3. \A q \in Pkgs : spec'[q].ver = spec[q].ver
    BY <1>3, <2>1, <2>2
  <2>4. QED
    BY <1>0, <1>2, <1>7, <2>3 DEF PlainSpec
<1>8. PlainSpec(spec)'
  BY <1>4, <1>5, <1>6, <1>7
<1>9. QED
  BY <1>0, <1>1, <1>8

\* What leaves the node alone: the environment and the sweep.
LEMMA EnvironmentKeeps ==
  ASSUME KeepConditions, TypeInv, KeepInv,
         Environment \/ ValidateRunningPackages \/ SuspendUnfinishedJobs \/ UNCHANGED vars
  PROVE  /\ UNCHANGED <<node, cache>> /\ attempts' = {} /\ (pass' = pass \/ pass'.pc = "idle")
         /\ used.kinds \subseteq used'.kinds /\ VersionsApart' /\ PlainSpec(spec)'
<1>0. cache = node /\ attempts = {} /\ VersionsApart /\ PlainSpec(spec) /\ ~CanFail
  BY DEF KeepInv, NothingFails, KeepConditions, CanFail, TypeInv, TypeOK
<1>1. UNCHANGED <<node, cache>> /\ attempts' = {}
  BY <1>0 DEF Environment, CacheSync, PlaceWorkload, WorkloadLeaves, EditMode, Edit, OperatorCrash,
     JobSucceeds, AttemptFails, JobFails, JobFailureEnds, JobGone, JobSeen, EditVersion, EditOther,
     EditUninstall, ValidateRunningPackages, SuspendUnfinishedJobs, vars
<1>2. pass' = pass \/ pass'.pc = "idle"
  BY IdlePassType DEF Environment, CacheSync, PlaceWorkload, WorkloadLeaves, EditMode, Edit, OperatorCrash,
     JobSucceeds, AttemptFails, JobFails, JobFailureEnds, JobGone, JobSeen, EditVersion, EditOther,
     EditUninstall, ValidateRunningPackages, SuspendUnfinishedJobs, vars
<1>3. CASE spec' = spec /\ used'.kinds = used.kinds
  BY <1>0, <1>1, <1>2, <1>3 DEF VersionsApart, PlainSpec
<1>4. CASE EditMode
  <2>1. Edit("mode") /\ spec' = spec /\ "mode" \in EditKinds
    BY <1>4 DEF EditMode, EditKinds
  <2>2. QED
    BY <1>1, <1>2, <2>1, EditKeeps
<1>5. ASSUME NEW p \in Pkgs, EditVersion(p) \/ EditOther(p) \/ EditUninstall(p)
      PROVE  used.kinds \subseteq used'.kinds /\ VersionsApart' /\ PlainSpec(spec)'
  <2>1. "version" \in EditKinds /\ "uninstall" \in EditKinds /\ "other" \in EditKinds
    BY DEF EditKinds
  <2>2. CASE EditVersion(p)
    BY <2>1, <2>2, EditKeeps DEF EditVersion
  <2>3. CASE EditOther(p)
    BY <2>1, <2>3, EditKeeps DEF EditOther
  <2>4. CASE EditUninstall(p)
    BY <2>1, <2>4, EditKeeps DEF EditUninstall
  <2>5. QED
    BY <1>5, <2>2, <2>3, <2>4
<1>6. CASE \/ ValidateRunningPackages \/ SuspendUnfinishedJobs \/ UNCHANGED vars
           \/ CacheSync \/ PlaceWorkload \/ WorkloadLeaves \/ OperatorCrash
           \/ \E j \in JobName : JobSucceeds(j) \/ AttemptFails(j) \/ JobFails(j) \/ JobFailureEnds(j)
                                 \/ JobGone(j) \/ JobSeen(j)
  <2>1. spec' = spec /\ used'.kinds = used.kinds
    BY <1>0, <1>6 DEF CacheSync, PlaceWorkload, WorkloadLeaves, OperatorCrash, JobSucceeds, AttemptFails, JobFails,
       JobFailureEnds, JobGone, JobSeen, ValidateRunningPackages, SuspendUnfinishedJobs, vars, TypeInv, TypeOK
  <2>2. QED
    BY <1>3, <2>1
<1>7. QED
  BY <1>1, <1>2, <1>4, <1>5, <1>6 DEF Environment

LEMMA NextKeeps ==
  ASSUME KeepConditions, TypeInv, KeepInv, [Next]_vars
  PROVE  /\ KeepInv'
         /\ \A k \in Key : node.ns[k].state = "complete" /\ node'.ns[k].stage = node.ns[k].stage
                           => node'.ns[k].state = "complete"
<1>0. /\ NodeLag = FALSE /\ MaxFailures = 0 /\ cache = node /\ node.ns \in NodeStates
      /\ NothingFails /\ VersionsApart /\ PlainSpec(spec) /\ PlainNodeState(node.ns)
  BY SharedTypes DEF KeepConditions, KeepInv
<1>1. \A i \in JobName : jobs'[i].phase \in {"none", "active", "complete"}
  BY <1>0, NothingNewFails DEF NothingFails, vars
<1>2. ASSUME NEW e, NEW k, PlainEntry(e, k), used.kinds \subseteq used'.kinds
      PROVE  PlainEntry(e, k)'
  BY <1>2 DEF PlainEntry
<1> DEFINE Kept == \A k \in Key : node.ns[k].state = "complete" /\ node'.ns[k].stage = node.ns[k].stage
                                  => node'.ns[k].state = "complete"
<1>3. CASE Environment \/ ValidateRunningPackages \/ SuspendUnfinishedJobs \/ UNCHANGED vars
  <2>1. /\ UNCHANGED <<node, cache>> /\ attempts' = {} /\ (pass' = pass \/ pass'.pc = "idle")
        /\ used.kinds \subseteq used'.kinds /\ VersionsApart' /\ PlainSpec(spec)'
    BY <1>3, EnvironmentKeeps
  <2>2. PlainNodeState(node.ns)'
    BY <1>0, <1>2, <2>1 DEF PlainNodeState
  <2>3. ASSUME pass'.pc # "idle" PROVE PassKeeps'
    <3>1. pass' = pass /\ PassKeeps
      BY <2>1, <2>3 DEF KeepInv
    <3>2. PlainNodeState(pass.mem.ns)'
      BY <1>2, <2>1, <3>1 DEF PlainNodeState, PassKeeps
    <3>3. PlainSpec(pass.spec)'
      <4>1. \A q \in Pkgs : pass'.spec[q].ver = pass.spec[q].ver /\ pass'.spec[q].uninst = pass.spec[q].uninst
        BY <3>1
      <4>2. PlainSpec(pass.spec)
        BY <3>1 DEF PassKeeps
      <4>3. QED
        BY <2>1, <4>1, <4>2 DEF PlainSpec
    <3>4. \A k \in Key : Moved(pass.before.ns[k], pass.mem.ns[k])' /\ Brought(pass.before.ns[k], node.ns[k])'
      BY <2>1, <3>1 DEF PassKeeps, Moved, Brought
    <3>5. \A p \in pass'.un \cup pass'.rest : LeftToDo(pass.mem.ns[PassKey(p)], p)'
      BY <3>1 DEF PassKeeps, LeftToDo, PassKey
    <3>6. QED
      BY <3>2, <3>3, <3>4, <3>5 DEF PassKeeps
  <2>4. Kept
    BY <2>1
  <2>5. QED
    BY <1>0, <1>1, <2>1, <2>2, <2>3, <2>4 DEF KeepInv, NothingFails
<1>4. ASSUME UNCHANGED <<spec, node, cache, used, attempts>>, pass'.pc # "idle" => PassKeeps'
      PROVE  KeepInv' /\ Kept
  <2>1. PlainNodeState(node.ns)'
    BY <1>0, <1>2, <1>4 DEF PlainNodeState
  <2>2. PlainSpec(spec)' /\ VersionsApart'
    BY <1>0, <1>4 DEF PlainSpec, VersionsApart
  <2>3. QED
    BY <1>0, <1>1, <1>4, <2>1, <2>2 DEF KeepInv, NothingFails
<1>5. CASE IntrospectSkyhook \/ RunSkyhookPackages
  BY <1>4, <1>5, PassStartKeeps
<1>6. ASSUME NEW p \in Pkgs, RunPackage(p) PROVE KeepInv' /\ Kept
  BY <1>4, <1>6, RunKeeps
<1>7. CASE SaveNodesAndSkyhook
  <2>1. /\ UNCHANGED <<spec, used, attempts>> /\ cache' = node' /\ pass'.pc = "idle"
        /\ \A k \in Key : PlainEntry(node'.ns[k], k)
        /\ Kept
    BY <1>0, <1>7, SaveKeeps
  <2>2. PlainNodeState(node.ns)'
    BY <1>2, <2>1 DEF PlainNodeState
  <2>3. PlainSpec(spec)' /\ VersionsApart'
    BY <1>0, <2>1 DEF PlainSpec, VersionsApart
  <2>4. QED
    BY <1>0, <1>1, <2>1, <2>2, <2>3 DEF KeepInv, NothingFails
<1>8. CASE Reconcilers
  <2>1. /\ cache' = node' /\ \A k \in Key : Ends(node.ns[k], node'.ns[k], k)
        /\ UNCHANGED <<spec, pass, used>> /\ attempts' = {}
    BY <1>0, <1>8, ReconcilersEnd
  <2>2. \A k \in Key : /\ PlainEntry(node'.ns[k], k)
                       /\ \A b : Brought(b, node.ns[k]) => Brought(b, node'.ns[k])
                       /\ node.ns[k].state = "complete" /\ node'.ns[k].stage = node.ns[k].stage
                            => node'.ns[k].state = "complete"
    BY <1>0, <2>1, EndsPlain DEF PlainNodeState, NodeStates
  <2>3. PlainNodeState(node.ns)'
    BY <1>2, <2>1, <2>2 DEF PlainNodeState
  <2>4. PlainSpec(spec)' /\ VersionsApart'
    BY <1>0, <2>1 DEF PlainSpec, VersionsApart
  <2>5. ASSUME pass'.pc # "idle" PROVE PassKeeps'
    <3>1. PassKeeps
      BY <2>1, <2>5 DEF KeepInv
    <3>2. PlainNodeState(pass.mem.ns)' /\ PlainSpec(pass.spec)'
      BY <2>1, <3>1 DEF PassKeeps, PlainNodeState, PlainSpec, PlainEntry
    <3>3. \A k \in Key : Moved(pass.before.ns[k], pass.mem.ns[k])'
      BY <2>1, <3>1 DEF PassKeeps, Moved
    <3>4. \A k \in Key : Brought(pass.before.ns[k], node.ns[k])'
      BY <2>1, <2>2, <3>1 DEF PassKeeps, Brought
    <3>5. \A p \in pass'.un \cup pass'.rest : LeftToDo(pass.mem.ns[PassKey(p)], p)'
      BY <2>1, <3>1 DEF PassKeeps, LeftToDo, PassKey
    <3>6. QED
      BY <3>2, <3>3, <3>4, <3>5 DEF PassKeeps
  <2>6. QED
    BY <1>0, <1>1, <2>1, <2>2, <2>3, <2>4, <2>5 DEF KeepInv, NothingFails
<1>9. QED
  BY <1>3, <1>5, <1>6, <1>7, <1>8 DEF Next, HeavyPass

LEMMA InitKeeps == Init => KeepInv
<1> SUFFICES ASSUME Init PROVE KeepInv
  OBVIOUS
<1>1. cache = node /\ pass.pc = "idle" /\ VersionsApart
  BY IdlePassType DEF Init, VersionsApart
<1>2. PlainNodeState(node.ns)
  BY DEF Init, InitialNode, EmptyNodeState, PlainNodeState, PlainEntry
<1>3. PlainSpec(spec)
  BY DEF Init, InitialSpec, PlainSpec
<1>4. NothingFails
  BY NoJobType DEF Init, NothingFails
<1>5. QED
  BY <1>1, <1>2, <1>3, <1>4 DEF KeepInv

\* Where nothing fails and the operator's copy of the node does not lag, for any number of
\* packages, edits, restarts and passes that lose what they did: a stage recorded as
\* complete is not taken back, although passes save what they decided on an older
\* snapshot (saveNodeChanges, recordJobCompletion).  Version edits may not be combined
\* with uninstalls, nor with interrupts.
THEOREM CompletionsKept ==
  ASSUME KeepConditions
  PROVE  Spec => CompletionKept
<1>1. Init => KeepInv
  BY InitKeeps
<1>2. TypeInv /\ KeepInv /\ [Next]_vars => KeepInv'
  BY NextKeeps
<1>3. TypeInv /\ KeepInv /\ [Next]_vars
        => [\A k \in Key : node.ns[k].state = "complete" /\ node'.ns[k].stage = node.ns[k].stage
                           => node'.ns[k].state = "complete"]_vars
  BY NextKeeps
<1>4. QED
  BY <1>1, <1>2, <1>3, TypeInvariant, PTL DEF Spec, CompletionKept

-----------------------------------------------------------------------------
(***************************************************************************)
(* What is uninstalled has left nothing.  The Jobs and the host agree with *)
(* the annotation as the pass in progress will leave it (Settles): an      *)
(* executor runs only at the stage it says, without an entry nothing is    *)
(* left on the host, and there is an uninstall Job only once the uninstall *)
(* was asked for.  Between the snapshot of a pass and its turn a package's *)
(* stage may be recorded as complete; the Job that completed it still      *)
(* holds its name then, so that the pass cannot run the stage again.       *)
(***************************************************************************)

\* What is assumed of the constants besides KeepConditions: a pass that has started Jobs
\* also saves them (no interrupt, no serial NodeWright, no restart), and the TTL of a
\* complete Job does not elapse within a pass.
CleanConditions ==
  /\ KeepConditions /\ \A p \in Pkgs : ~HasInterrupt[p]
  /\ Serial = FALSE /\ MaxCrashes = 0 /\ "complete" \notin Expiry

\* What is assumed of the user: an uninstall once asked for is not withdrawn.
NotWithdrawn == \A p \in Pkgs : spec[p].uninst = TRUE => spec'[p].uninst = TRUE

PlainStages == {"none", "apply", "config", "uninstall"}

Uninstalled(p) == \A x \in ran : x[1] # p
UninstallJob(p) == jobs[<<p, 1, "uninstall">>]

Settles(p) == IF pass.pc = "idle" \/ Mem(p) = Before(p) THEN Now(p) ELSE Mem(p)

ActiveWhereSettled(p) ==
  \A j \in JobName : j[1] = p /\ jobs[j].phase = "active" =>
    Settles(p).stage = j[3] /\ Settles(p).state = "in_progress"

HostAgrees(p) ==
  \/ Settles(p) = NoEntry
  \/ Settles(p).stage = "uninstall" /\ UninstallJob(p).phase = "complete"
  => Uninstalled(p)

UninstallAsked(p) ==
  /\ Now(p).stage = "uninstall" => spec[p].uninst = TRUE
  /\ UninstallJob(p).phase # "none" =>
       /\ spec[p].uninst = TRUE /\ (pass.pc # "idle" => pass.spec[p].uninst = TRUE)
       /\ Settles(p) = NoEntry \/ Settles(p).stage = "uninstall"

\* The Job of the stage the snapshot shows is complete and stays.
HoldsName(j) == j.phase = "complete" /\ j.del = FALSE /\ j.inv = FALSE

Waiting(p) ==
  /\ \/ Mem(p) = Before(p)
     \/ Before(p).state = "complete" /\ Mem(p).stage = "uninstall" /\ Mem(p).state = "in_progress"
  /\ Now(p) # Before(p) => HoldsName(jobs[<<p, 1, Before(p).stage>>])
  /\ pass.spec[p].uninst = TRUE => Mem(p) # NoEntry

CleanPass(p) ==
  /\ pass.spec[p].uninst = TRUE => spec[p].uninst = TRUE
  /\ Mem(p).stage = "uninstall" => pass.spec[p].uninst = TRUE
  /\ Mem(p).stage \in PlainStages
  /\ Mem(p) = Before(p) \/ Before(p).state \in {"none", "complete"}
  /\ Before(p).state \in {"none", "complete"} => Now(p) = Before(p)
  /\ p \in pass.un \cup pass.rest => Waiting(p)
  /\ ~(p \in pass.un /\ p \in pass.rest)

Clean(p) ==
  /\ Now(p).stage \in PlainStages
  /\ ActiveWhereSettled(p) /\ HostAgrees(p) /\ UninstallAsked(p)
  /\ pass.pc # "idle" => CleanPass(p)

JobsOfFirst == \A j \in JobName : jobs[j].phase # "none" => j[2] = 1 /\ jobs[j].of = <<j[1], 1>>

\* While versions are edited no uninstall is asked for (KeepConditions).
CleanInv == "version" \notin used.kinds => JobsOfFirst /\ \A p \in Pkgs : Clean(p)

LEMMA CleanFacts ==
  ASSUME CleanConditions
  PROVE  /\ \A p \in Pkgs : Of(p) \in Key /\ Of(p)[1] = p
         /\ \A j \in JobName : /\ j = <<j[1], j[2], j[3]>> /\ j[1] \in Pkgs
                               /\ j[3] \in Stage \ InterruptStages /\ ~IsInterruptJob(j)
         /\ \A p \in Pkgs, s \in Stage \ InterruptStages : <<p, 1, s>> \in JobName
         /\ \A p \in Pkgs : <<p, 1, "uninstall">> \in JobName
<1>1. 1 \in Versions
  BY VersionBound DEF Versions
<1>2. JobName = PackageJobs
  BY DEF CleanConditions, JobName, InterruptJobs
<1>3. \A p \in Pkgs : Of(p) \in Key /\ Of(p)[1] = p
  BY <1>1 DEF Of, Key
<1>4. \A j \in JobName : j = <<j[1], j[2], j[3]>> /\ j[1] \in Pkgs /\ j[3] \in Stage \ InterruptStages
  BY <1>2 DEF PackageJobs
<1>5. \A p \in Pkgs, s \in Stage \ InterruptStages : <<p, 1, s>> \in JobName
  BY <1>1, <1>2 DEF PackageJobs
<1>6. "uninstall" \in Stage \ InterruptStages
  BY DEF Stage, InterruptStages
<1>7. QED
  BY <1>3, <1>4, <1>5, <1>6 DEF IsInterruptJob

\* The entries of a package while no version is edited.
LEMMA FirstEntries ==
  ASSUME CleanConditions, TypeInv, KeepInv, "version" \notin used.kinds, NEW p \in Pkgs
  PROVE  /\ SpecKey(spec, p) = Of(p) /\ cache = node
         /\ Now(p) \in Entry \cup {NoEntry} /\ PlainEntry(Now(p), Of(p))
         /\ pass.pc # "idle" =>
              /\ PassKey(p) = Of(p) /\ PassEntry(p) = Mem(p)
              /\ Mem(p) \in Entry \cup {NoEntry} /\ PlainEntry(Mem(p), Of(p))
              /\ Before(p) \in Entry \cup {NoEntry}
<1>1. Of(p) \in Key
  BY CleanFacts
<1>2. SpecKey(spec, p) = Of(p) /\ cache = node
  BY DEF KeepInv, PlainSpec, SpecKey, Of
<1>3. Now(p) \in Entry \cup {NoEntry} /\ PlainEntry(Now(p), Of(p))
  BY <1>1, SharedTypes DEF KeepInv, PlainNodeState, NodeStates, Now
<1>4. ASSUME pass.pc # "idle"
      PROVE  /\ PassKey(p) = Of(p) /\ PassEntry(p) = Mem(p)
             /\ Mem(p) \in Entry \cup {NoEntry} /\ PlainEntry(Mem(p), Of(p))
             /\ Before(p) \in Entry \cup {NoEntry}
  <2>1. PlainSpec(pass.spec) /\ PlainNodeState(pass.mem.ns)
    BY <1>4 DEF KeepInv, PassKeeps
  <2>2. PassKey(p) = Of(p)
    BY <2>1 DEF PlainSpec, PassKey, SpecKey, Of
  <2>3. pass.mem.ns \in NodeStates /\ pass.before.ns \in NodeStates
    BY DEF TypeInv, TypeOK, Node
  <2>4. QED
    BY <1>1, <2>1, <2>2, <2>3 DEF PassEntry, Mem, Before, PlainNodeState, NodeStates
<1>5. QED
  BY <1>2, <1>3, <1>4

(***************************************************************************)
(* What a step leaves alone.                                               *)
(***************************************************************************)
SameFor(p) ==
  /\ Now(p)' = Now(p)
  /\ pass'.pc = "idle" <=> pass.pc = "idle"
  /\ pass'.spec = pass.spec /\ Before(p)' = Before(p) /\ Mem(p)' = Mem(p)
  /\ pass'.un \subseteq pass.un /\ pass'.rest \subseteq pass.rest
  /\ Uninstalled(p) => Uninstalled(p)'
  /\ spec[p].uninst = TRUE => spec'[p].uninst = TRUE

JobsLast(p) ==
  \A j \in JobName : j[1] = p =>
    /\ jobs'[j].phase \in {jobs[j].phase, "none"}
    /\ jobs'[j].phase # "none" => jobs'[j].of = jobs[j].of
    /\ pass.pc # "idle" /\ p \in pass'.un \cup pass'.rest /\ HoldsName(jobs[j]) => HoldsName(jobs[j])'

\* What was recorded since the snapshot was open in it, and is as the pass read it.
LEMMA RecordedSince ==
  ASSUME CleanConditions, TypeInv, NEW p \in Pkgs, CleanPass(p), Now(p) # Before(p)
  PROVE  /\ Mem(p) = Before(p) /\ Before(p) \in Entry /\ Before(p).state # "complete"
         /\ Before(p).stage \in {"apply", "config", "uninstall"}
         /\ <<p, 1, Before(p).stage>> \in JobName /\ <<p, 1, Before(p).stage>>[1] = p
<1>1. Of(p) \in Key
  BY CleanFacts
<1>2. Before(p) \in Entry \cup {NoEntry}
  BY <1>1 DEF TypeInv, TypeOK, Node, NodeStates, Before
<1>3. Before(p).state \notin {"none", "complete"} /\ Mem(p) = Before(p) /\ Mem(p).stage \in PlainStages
  BY DEF CleanPass
<1>4. Before(p) \in Entry /\ Before(p).stage \in Stage
  BY <1>2, <1>3 DEF NoEntry, Entry
<1>5. Before(p).stage \in {"apply", "config", "uninstall"}
  BY <1>3, <1>4 DEF PlainStages, Stage
<1>6. Before(p).stage \in Stage \ InterruptStages
  BY <1>5 DEF Stage, InterruptStages
<1>7. QED
  BY <1>3, <1>4, <1>5, <1>6, CleanFacts

LEMMA CleanFrame ==
  ASSUME CleanConditions, TypeInv, NEW p \in Pkgs, Clean(p), SameFor(p), JobsLast(p)
  PROVE  Clean(p)'
<1>0. <<p, 1, "uninstall">> \in JobName /\ <<p, 1, "uninstall">>[1] = p
  BY CleanFacts
<1>1. Settles(p)' = Settles(p)
  BY DEF Settles, SameFor
<1>2. UninstallJob(p)'.phase \in {UninstallJob(p).phase, "none"}
  BY <1>0 DEF UninstallJob, JobsLast
<1>3. ActiveWhereSettled(p)'
  BY <1>1 DEF Clean, ActiveWhereSettled, JobsLast
<1>4. HostAgrees(p)'
  BY <1>1, <1>2 DEF Clean, HostAgrees, SameFor
<1>5. UninstallAsked(p)'
  BY <1>1, <1>2 DEF Clean, UninstallAsked, SameFor
<1>6. ASSUME pass'.pc # "idle" PROVE CleanPass(p)'
  <2>1. CleanPass(p) /\ pass.pc # "idle"
    BY <1>6 DEF Clean, SameFor
  <2>2. ASSUME Waiting(p), p \in pass'.un \cup pass'.rest PROVE Waiting(p)'
    <3> DEFINE j == <<p, 1, Before(p).stage>>
    <3>1. ASSUME Now(p) # Before(p) PROVE HoldsName(jobs[j])'
      <4>1. HoldsName(jobs[j])
        BY <2>2, <3>1 DEF Waiting
      <4>2. j \in JobName /\ j[1] = p /\ j' = j
        BY <2>1, <3>1, RecordedSince DEF SameFor
      <4> HIDE DEF j
      <4>3. QED
        BY <2>1, <2>2, <4>1, <4>2 DEF JobsLast
    <3>2. QED
      BY <2>2, <3>1 DEF Waiting, SameFor
  <2>3. QED
    BY <2>1, <2>2 DEF CleanPass, SameFor
<1>7. QED
  BY <1>3, <1>4, <1>5, <1>6 DEF Clean, SameFor

LEMMA JobsStayOfFirst ==
  ASSUME CleanConditions, JobsOfFirst, \A p \in Pkgs : JobsLast(p)
  PROVE  JobsOfFirst'
<1>1. ASSUME NEW j \in JobName, jobs'[j].phase # "none" PROVE j[2] = 1 /\ jobs'[j].of = <<j[1], 1>>
  <2>1. jobs'[j].phase \in {jobs[j].phase, "none"} /\ jobs'[j].of = jobs[j].of
    BY <1>1, CleanFacts DEF JobsLast
  <2>2. QED
    BY <1>1, <2>1 DEF JobsOfFirst
<1>2. QED
  BY <1>1 DEF JobsOfFirst

LEMMA QuietClean ==
  ASSUME CleanConditions, TypeInv, CleanInv, UNCHANGED <<node, pass, ran>>, NotWithdrawn,
         \A p \in Pkgs : JobsLast(p), used.kinds \subseteq used'.kinds
  PROVE  CleanInv'
<1> SUFFICES ASSUME "version" \notin used'.kinds PROVE JobsOfFirst' /\ \A p \in Pkgs : Clean(p)'
  BY DEF CleanInv
<1>1. JobsOfFirst /\ \A p \in Pkgs : Clean(p)
  BY DEF CleanInv
<1>2. JobsOfFirst'
  BY <1>1, JobsStayOfFirst
<1>3. ASSUME NEW p \in Pkgs PROVE Clean(p)'
  <2>1. SameFor(p)
    BY DEF SameFor, Now, Before, Mem, Of, Uninstalled, NotWithdrawn
  <2>2. QED
    BY <1>1, <2>1, CleanFrame
<1>4. QED
  BY <1>2, <1>3

\* Suspending, resuming, marking and deleting Jobs; the sweep runs between passes.
LEMMA JobsGoOn ==
  ASSUME CleanConditions, TypeInv, NEW p \in Pkgs,
         \/ UNCHANGED jobs \/ ValidateRunningPackages
         \/ \E suspend \in BOOLEAN : jobs' = SetSuspend(jobs, suspend)
         \/ MarkJobProcessed
         \/ \E i \in JobName : JobReconcileInvalid(i) \/ JobGone(i) \/ JobSeen(i)
  PROVE  JobsLast(p)
<1>0. JobsOK(jobs) /\ \A j \in JobName : jobs[j] \in Job
  BY SharedTypes DEF JobsOK
<1> DEFINE GoesOn(j) == /\ jobs'[j].phase \in {jobs[j].phase, "none"}
                        /\ jobs'[j].phase # "none" => jobs'[j].of = jobs[j].of
                        /\ pass.pc # "idle" /\ HoldsName(jobs[j]) => HoldsName(jobs'[j])
<1>1. ASSUME NEW j \in JobName,
             \/ jobs'[j] = jobs[j]
             \/ jobs'[j] = [jobs[j] EXCEPT !.susp = TRUE] \/ jobs'[j] = [jobs[j] EXCEPT !.susp = FALSE]
             \/ jobs'[j] = [jobs[j] EXCEPT !.proc = TRUE] \/ jobs'[j] = [jobs[j] EXCEPT !.seen = TRUE]
      PROVE  GoesOn(j)
  <2>1. jobs[j] \in Job
    BY <1>0
  <2>2. /\ jobs'[j].phase = jobs[j].phase /\ jobs'[j].of = jobs[j].of
        /\ jobs'[j].del = jobs[j].del /\ jobs'[j].inv = jobs[j].inv
    BY <1>1, <2>1 DEF Job
  <2>3. QED
    BY <2>2 DEF HoldsName
<1>2. ASSUME NEW j \in JobName, pass.pc = "idle" \/ ~HoldsName(jobs[j]),
             \/ jobs'[j] = [jobs[j] EXCEPT !.inv = TRUE] \/ jobs'[j] = [jobs[j] EXCEPT !.del = TRUE]
             \/ jobs'[j] = NoJob
      PROVE  GoesOn(j)
  <2>1. jobs[j] \in Job /\ NoJob.phase = "none"
    BY <1>0, NoJobType
  <2>2. jobs'[j].phase = "none" \/ (jobs'[j].phase = jobs[j].phase /\ jobs'[j].of = jobs[j].of)
    BY <1>2, <2>1 DEF Job
  <2>3. QED
    BY <1>2, <2>2
<1>3. ASSUME NEW j \in JobName PROVE GoesOn(j)
  <2>1. CASE UNCHANGED jobs
    BY <1>1, <2>1
  <2>2. CASE ValidateRunningPackages
    BY <1>1, <1>2, <2>2 DEF ValidateRunningPackages, PassMayStart
  <2>3. ASSUME NEW suspend \in BOOLEAN, jobs' = SetSuspend(jobs, suspend) PROVE GoesOn(j)
    <3>1. jobs'[j] = jobs[j] \/ jobs'[j] = [jobs[j] EXCEPT !.susp = suspend]
      BY <2>3 DEF SetSuspend
    <3>2. suspend = TRUE \/ suspend = FALSE
      OBVIOUS
    <3>3. QED
      BY <1>1, <3>1, <3>2
  <2>4. CASE MarkJobProcessed
    <3>1. jobs' = jobs \/ jobs' = [jobs EXCEPT ![recon].proc = TRUE]
      BY <2>4 DEF MarkJobProcessed
    <3>2. jobs'[j] = jobs[j] \/ jobs'[j] = [jobs[j] EXCEPT !.proc = TRUE]
      BY <1>0, <3>1 DEF JobsOK
    <3>3. QED
      BY <1>1, <3>2
  <2>5. ASSUME NEW i \in JobName, JobReconcileInvalid(i) PROVE GoesOn(j)
    <3>1. jobs'[j] = jobs[j] \/ (j = i /\ jobs'[j] = [jobs[j] EXCEPT !.del = TRUE])
      BY <1>0, <2>5 DEF JobReconcileInvalid, JobsOK
    <3>2. ~HoldsName(jobs[i])
      BY <2>5 DEF JobReconcileInvalid, HoldsName
    <3>3. QED
      BY <1>1, <1>2, <3>1, <3>2
  <2>6. ASSUME NEW i \in JobName, JobGone(i) PROVE GoesOn(j)
    <3>1. jobs'[j] = jobs[j] \/ (j = i /\ jobs'[j] = NoJob)
      BY <1>0, <2>6 DEF JobGone, JobsOK
    <3>2. ~HoldsName(jobs[i])
      BY <2>6 DEF JobGone, HoldsName, CleanConditions
    <3>3. QED
      BY <1>1, <1>2, <3>1, <3>2
  <2>7. ASSUME NEW i \in JobName, JobSeen(i) PROVE GoesOn(j)
    <3>1. jobs'[j] = jobs[j] \/ jobs'[j] = [jobs[j] EXCEPT !.seen = TRUE]
      BY <1>0, <2>7 DEF JobSeen, JobsOK
    <3>2. QED
      BY <1>1, <3>1
  <2>8. QED
    BY <2>1, <2>2, <2>3, <2>4, <2>5, <2>6, <2>7
<1>4. QED
  BY <1>3 DEF JobsLast, HoldsName

LEMMA SuccessClean ==
  ASSUME CleanConditions, TypeInv, KeepInv, CleanInv, NEW i \in JobName, JobSucceeds(i)
  PROVE  CleanInv'
<1> SUFFICES ASSUME "version" \notin used'.kinds PROVE JobsOfFirst' /\ \A p \in Pkgs : Clean(p)'
  BY DEF CleanInv
<1>0. /\ UNCHANGED <<node, pass, spec, used>> /\ ran' = RanAfter(i) /\ jobs[i].phase = "active"
      /\ jobs' = [jobs EXCEPT ![i].phase = "complete"]
  BY DEF JobSucceeds, CanFinish
<1>1. JobsOfFirst /\ \A p \in Pkgs : Clean(p)
  BY <1>0 DEF CleanInv
<1>2. /\ JobsOK(jobs) /\ \A j \in JobName : jobs[j] \in Job
      /\ i[1] \in Pkgs /\ KeyOf(i) = <<i[1], 1>> /\ i = <<i[1], 1, i[3]>> /\ i[3] \in Stage
  BY <1>0, <1>1, SharedTypes, CleanFacts DEF JobsOK, JobsOfFirst, KeyOf
<1>3. /\ jobs'[i].phase = "complete" /\ jobs'[i].of = jobs[i].of
      /\ \A j \in JobName \ {i} : jobs'[j] = jobs[j]
  BY <1>0, <1>2 DEF JobsOK, Job
<1>4. JobsOfFirst'
  BY <1>0, <1>1, <1>3 DEF JobsOfFirst
<1>5. \A p \in Pkgs : /\ Now(p)' = Now(p) /\ Mem(p)' = Mem(p) /\ Before(p)' = Before(p)
                      /\ Settles(p)' = Settles(p)
  BY <1>0 DEF Now, Mem, Before, Settles, Of
<1>6. \A p \in Pkgs : Uninstalled(p) /\ (p # i[1] \/ i[3] = "uninstall") => Uninstalled(p)'
  <2>1. Executor(i) = <<i[1], 1, i[3]>>
    BY <1>2 DEF Executor
  <2>2. i[3] # "uninstall" => ran' = ran \cup {<<i[1], 1, i[3]>>}
    BY <1>0, <2>1 DEF RanAfter
  <2>3. i[3] = "uninstall" => ran' = {x \in ran : x[1] # i[1]}
    BY <1>0, <1>2 DEF RanAfter
  <2>4. QED
    BY <2>2, <2>3 DEF Uninstalled
<1>7. ASSUME NEW p \in Pkgs, p # i[1] PROVE Clean(p)'
  <2>1. SameFor(p)
    BY <1>0, <1>5, <1>6, <1>7 DEF SameFor
  <2>2. JobsLast(p)
    BY <1>3, <1>7 DEF JobsLast, HoldsName
  <2>3. QED
    BY <1>1, <2>1, <2>2, CleanFrame
<1>8. Clean(i[1])'
  <2> DEFINE p == i[1]
  <2>1. p \in Pkgs /\ Clean(p) /\ Settles(p).stage = i[3] /\ Settles(p).state = "in_progress"
    BY <1>0, <1>1, <1>2 DEF Clean, ActiveWhereSettled
  <2>2. i[3] = "uninstall" => Uninstalled(p)'
    BY <1>0, <1>2 DEF RanAfter, Uninstalled
  <2>3. UninstallJob(p).phase # "none" <=> UninstallJob(p)'.phase # "none"
    <3>1. CASE <<p, 1, "uninstall">> = i
      BY <1>0, <1>3, <3>1 DEF UninstallJob
    <3>2. CASE <<p, 1, "uninstall">> # i
      BY <1>2, <1>3, <3>2, CleanFacts DEF UninstallJob
    <3>3. QED
      BY <3>1, <3>2
  <2>4. ActiveWhereSettled(p)'
    BY <1>3, <1>5, <2>1 DEF Clean, ActiveWhereSettled
  <2>5. HostAgrees(p)'
    BY <1>5, <2>1, <2>2 DEF HostAgrees, NoEntry
  <2>6. UninstallAsked(p)'
    BY <1>0, <1>5, <2>1, <2>3 DEF Clean, UninstallAsked
  <2>7. ASSUME pass.pc # "idle" PROVE CleanPass(p)'
    <3>1. CleanPass(p)
      BY <2>1, <2>7 DEF Clean
    <3>2. ASSUME Waiting(p) PROVE Waiting(p)'
      <4> DEFINE j == <<p, 1, Before(p).stage>>
      <4>1. ASSUME Now(p) # Before(p) PROVE HoldsName(jobs[j])'
        <5>1. HoldsName(jobs[j]) /\ j \in JobName /\ j' = j
          BY <1>5, <2>1, <3>1, <3>2, <4>1, RecordedSince DEF Waiting
        <5> HIDE DEF j
        <5>2. j # i
          BY <1>0, <5>1 DEF HoldsName
        <5>3. QED
          BY <1>3, <5>1, <5>2 DEF HoldsName
      <4>2. QED
        BY <1>0, <1>5, <2>1, <3>2, <4>1 DEF Waiting
    <3>3. QED
      BY <1>0, <1>5, <2>1, <3>1, <3>2 DEF CleanPass
  <2>8. QED
    BY <1>0, <1>5, <2>1, <2>4, <2>5, <2>6, <2>7 DEF Clean
<1>9. QED
  BY <1>4, <1>7, <1>8

\* Recording a completion: the Job was complete, so no executor runs at the stage.
LEMMA RecordClean ==
  ASSUME CleanConditions, TypeInv, KeepInv, CleanInv, NEW i \in JobName, JobReconcileFinished(i)
  PROVE  CleanInv'
<1> SUFFICES ASSUME "version" \notin used'.kinds PROVE JobsOfFirst' /\ \A p \in Pkgs : Clean(p)'
  BY DEF CleanInv
<1>0. UNCHANGED <<spec, jobs, pass, ran, used>> /\ \A j \in JobName : jobs[j].phase \in {"none", "active", "complete"}
  BY DEF JobReconcileFinished, KeepInv, NothingFails
<1>1. JobsOfFirst /\ \A p \in Pkgs : Clean(p)
  BY <1>0 DEF CleanInv
<1>2. JobsOfFirst'
  BY <1>0, <1>1 DEF JobsOfFirst
<1>3. ASSUME NEW p \in Pkgs, Now(p)' = Now(p) PROVE Clean(p)'
  <2>1. SameFor(p)
    BY <1>0, <1>3 DEF SameFor, Before, Mem, Of, Uninstalled
  <2>2. JobsLast(p)
    BY <1>0, JobsGoOn
  <2>3. QED
    BY <1>1, <2>1, <2>2, CleanFrame
<1>4. CASE UNCHANGED <<node, cache>>
  BY <1>2, <1>3, <1>4 DEF Now, Of
<1>5. CASE ~UNCHANGED <<node, cache>>
  <2> DEFINE p == i[1]
             k == Of(p)
  <2>1. ~HandleFailedJob(i)
    BY <1>0 DEF HandleFailedJob, JobFailedTerminally
  <2>2. /\ jobs[i].phase = "complete" /\ ShouldRecordCompletion(node.ns, i)
        /\ HoldsName(jobs[i])
        /\ \E ns \in RecordJobCompletion(node.ns, i) : WriteNode([node EXCEPT !.ns = ns])
    <3>1. jobs[i] \in Job
      BY SharedTypes DEF JobsOK
    <3>2. jobs[i].del = FALSE /\ jobs[i].inv = FALSE
      BY <3>1 DEF JobReconcileFinished, Job
    <3>3. QED
      BY <1>5, <2>1, <3>2 DEF JobReconcileFinished, HandleCompleteJob, HoldsName
  <2>3. /\ p \in Pkgs /\ KeyOf(i) = k /\ i = <<p, 1, i[3]>> /\ k \in Key /\ k[1] = p
        /\ ~IsInterruptJob(i) /\ i[3] \in Stage /\ node.ns \in NodeStates
    BY <1>1, <2>2, CleanFacts, SharedTypes DEF JobsOfFirst, KeyOf, Of
  <2>4. Clean(p) /\ Now(p) = node.ns[k]
    BY <1>1, <2>3 DEF Now
  <2> HIDE DEF k
  <2>5. Now(p).state \notin {"none", "complete"} /\ Now(p).stage = i[3]
    BY <2>2, <2>3, <2>4 DEF ShouldRecordCompletion, EntryOpenAtStage, Present
  <2>6. i[3] \in {"apply", "config", "uninstall"}
    BY <2>3, <2>4, <2>5 DEF Clean, PlainStages, Stage
  <2>7. PICK ns \in RecordJobCompletion(node.ns, i) : WriteNode([node EXCEPT !.ns = ns])
    BY <2>2
  <2>8. node'.ns = ns
    BY <2>7, SharedTypes DEF WriteNode, Node
  <2>9. /\ \A o \in Key \ {k} : ns[o] = node.ns[o]
        /\ i[3] = "uninstall" => ns[k] = NoEntry
        /\ i[3] # "uninstall" => ns[k].stage = i[3] /\ ns[k].state = "complete" /\ ns[k].ver = k[2]
    <3>1. CASE i[3] = "uninstall"
      <4>1. ns = RemoveState(node.ns, k)
        BY <2>3, <2>7, <3>1 DEF RecordJobCompletion, CleanConditions
      <4>2. QED
        BY <2>3, <3>1, <4>1, RemoveStateType DEF RemoveState, NodeStates
    <3>2. CASE i[3] # "uninstall"
      <4>1. ns = RecordComplete(node.ns, i)
        BY <2>3, <2>6, <2>7, <3>2 DEF RecordJobCompletion
      <4>2. EntryOpenAtStage(node.ns, k, i[3])
        BY <2>2, <2>3 DEF ShouldRecordCompletion
      <4>3. ns = Upsert(node.ns, k, i[3], "complete")
        BY <2>3, <4>1, <4>2 DEF RecordComplete
      <4>4. QED
        BY <2>3, <3>2, <4>3, UpsertFields DEF State
    <3>3. QED
      BY <3>1, <3>2
  <2>10. ASSUME NEW q \in Pkgs, q # p PROVE Clean(q)'
    <3>1. Of(q) \in Key \ {k}
      BY <2>10, CleanFacts, <2>3
    <3>2. Now(q)' = Now(q)
      BY <2>8, <2>9, <3>1 DEF Now, Of
    <3>3. QED
      BY <1>3, <3>2
  <2>11. Now(p)' = ns[k]
    BY <2>8 DEF Now, Of, k
  <2>12. Mem(p)' = Mem(p) /\ Before(p)' = Before(p)
    BY <1>0 DEF Mem, Before, Of
  <2>13. Now(p)' = NoEntry \/ (Now(p)'.stage = i[3] /\ Now(p)'.state = "complete" /\ i[3] # "uninstall")
    BY <2>9, <2>11
  <2>14. Settles(p)' = Settles(p) \/ (Settles(p) = Now(p) /\ Settles(p)' = Now(p)')
    BY <1>0, <2>12 DEF Settles
  <2>15. ActiveWhereSettled(p)'
    <3>1. ASSUME NEW j \in JobName, j[1] = p, jobs[j].phase = "active", Settles(p) = Now(p) PROVE FALSE
      <4>1. j[3] = i[3] /\ j[2] = 1
        BY <1>1, <2>4, <2>5, <3>1 DEF Clean, ActiveWhereSettled, JobsOfFirst
      <4>2. j = <<j[1], j[2], j[3]>>
        BY CleanFacts
      <4>3. j = i
        BY <2>3, <3>1, <4>1, <4>2
      <4>4. QED
        BY <2>2, <3>1, <4>3
    <3>2. QED
      BY <1>0, <2>4, <2>14, <3>1 DEF Clean, ActiveWhereSettled
  <2>16. Uninstalled(p)' <=> Uninstalled(p)
    BY <1>0 DEF Uninstalled
  <2>17. UninstallJob(p)' = UninstallJob(p) /\ (i[3] = "uninstall" => UninstallJob(p) = jobs[i])
    BY <1>0, <2>3 DEF UninstallJob
  <2>18. HostAgrees(p)'
    <3>1. CASE Settles(p)' = Settles(p)
      BY <2>4, <2>16, <2>17, <3>1 DEF Clean, HostAgrees
    <3>2. CASE Settles(p) = Now(p) /\ Settles(p)' = Now(p)'
      <4>1. CASE i[3] = "uninstall"
        BY <2>2, <2>4, <2>5, <2>16, <2>17, <3>2, <4>1 DEF Clean, HostAgrees
      <4>2. CASE i[3] # "uninstall"
        BY <2>9, <2>11, <3>2, <4>2 DEF HostAgrees, NoEntry
      <4>3. QED
        BY <4>1, <4>2
    <3>3. QED
      BY <2>14, <3>1, <3>2
  <2>19. UninstallAsked(p)'
    <3>1. Now(p)'.stage # "uninstall"
      BY <2>13 DEF NoEntry
    <3>2. ASSUME UninstallJob(p).phase # "none"
          PROVE  /\ spec[p].uninst = TRUE /\ (pass.pc # "idle" => pass.spec[p].uninst = TRUE)
                 /\ Settles(p)' = NoEntry \/ Settles(p)'.stage = "uninstall"
      <4>1. /\ spec[p].uninst = TRUE /\ (pass.pc # "idle" => pass.spec[p].uninst = TRUE)
            /\ Settles(p) = NoEntry \/ Settles(p).stage = "uninstall"
        BY <2>4, <3>2 DEF Clean, UninstallAsked
      <4>2. Settles(p) = Now(p) => i[3] = "uninstall"
        BY <2>5, <4>1 DEF NoEntry
      <4>3. QED
        BY <2>9, <2>11, <2>14, <4>1, <4>2
    <3>3. QED
      BY <1>0, <2>17, <3>1, <3>2 DEF UninstallAsked
  <2>20. ASSUME pass.pc # "idle" PROVE CleanPass(p)'
    <3>1. CleanPass(p)
      BY <2>4, <2>20 DEF Clean
    <3>2. Before(p).state \notin {"none", "complete"}
      BY <2>5, <3>1 DEF CleanPass
    <3>3. ASSUME Waiting(p) PROVE Waiting(p)'
      <4>1. HoldsName(jobs[<<p, 1, Before(p).stage>>])
        <5>1. CASE Now(p) = Before(p)
          BY <2>2, <2>3, <2>5, <5>1
        <5>2. CASE Now(p) # Before(p)
          BY <3>3, <5>2 DEF Waiting
        <5>3. QED
          BY <5>1, <5>2
      <4>2. QED
        BY <1>0, <2>12, <3>3, <4>1 DEF Waiting
    <3>4. QED
      BY <1>0, <2>12, <3>1, <3>2, <3>3 DEF CleanPass
  <2>21. Now(p)'.stage \in PlainStages
    BY <2>6, <2>13 DEF PlainStages, NoEntry
  <2>22. Clean(p)'
    BY <1>0, <2>15, <2>18, <2>19, <2>20, <2>21 DEF Clean
  <2>23. QED
    BY <1>2, <2>10, <2>22
<1>6. QED
  BY <1>4, <1>5

LEMMA SaveClean ==
  ASSUME CleanConditions, TypeInv, KeepInv, CleanInv, SaveNodesAndSkyhook
  PROVE  CleanInv'
<1> SUFFICES ASSUME "version" \notin used'.kinds PROVE JobsOfFirst' /\ \A p \in Pkgs : Clean(p)'
  BY DEF CleanInv
<1>0. /\ UNCHANGED <<spec, jobs, ran, used>> /\ pass.pc = "save" /\ pass'.pc = "idle"
      /\ node'.ns = MergeDelta(pass.before.ns, pass.mem.ns, node.ns)
  BY IdlePassType DEF SaveNodesAndSkyhook, WriteNode
<1>1. JobsOfFirst /\ \A p \in Pkgs : Clean(p)
  BY <1>0 DEF CleanInv
<1>2. JobsOfFirst'
  BY <1>0, <1>1 DEF JobsOfFirst
<1>3. ASSUME NEW p \in Pkgs PROVE Clean(p)'
  <2>1. Clean(p) /\ CleanPass(p) /\ Of(p) \in Key
    BY <1>0, <1>1, CleanFacts DEF Clean
  <2>2. Now(p)' = Settles(p)
    <3>1. node'.ns[Of(p)] = IF pass.before.ns[Of(p)] = pass.mem.ns[Of(p)] THEN node.ns[Of(p)] ELSE pass.mem.ns[Of(p)]
      BY <1>0, <2>1 DEF MergeDelta
    <3>2. QED
      BY <1>0, <3>1 DEF Settles, Now, Mem, Before, Of
  <2>3. Settles(p)' = Settles(p)
    BY <1>0, <2>2 DEF Settles
  <2>4. Settles(p) = Now(p) \/ Settles(p) = Mem(p)
    BY DEF Settles
  <2>5. ActiveWhereSettled(p)'
    BY <1>0, <2>1, <2>3 DEF Clean, ActiveWhereSettled
  <2>6. HostAgrees(p)'
    BY <1>0, <2>1, <2>3 DEF Clean, HostAgrees, UninstallJob, Uninstalled
  <2>7. UninstallAsked(p)'
    BY <1>0, <2>1, <2>2, <2>3, <2>4 DEF Clean, UninstallAsked, UninstallJob, CleanPass
  <2>8. Now(p)'.stage \in PlainStages
    BY <2>1, <2>2, <2>4 DEF Clean, CleanPass
  <2>9. QED
    BY <1>0, <2>5, <2>6, <2>7, <2>8 DEF Clean
<1>4. QED
  BY <1>2, <1>3

\* What a pass plans for a package while no version is edited: nothing, or its uninstall.
LEMMA PlannedClean ==
  ASSUME CleanConditions, TypeInv, KeepInv, "version" \notin used.kinds, NEW p \in Pkgs, Clean(p)
  PROVE  LET to == PlannedState(cache.ns, spec)
             un == UninstallList(HandleVersionChange(cache.ns, spec), spec)
         IN  /\ \/ to[Of(p)] = Now(p)
                \/ /\ Now(p).state = "complete" /\ Now(p).stage \in {"apply", "config"} /\ spec[p].uninst = TRUE
                   /\ to[Of(p)].stage = "uninstall" /\ to[Of(p)].state = "in_progress"
             /\ p \in un => IsUninstallCycleInProgress(to, Of(p))
<1> DEFINE k == Of(p)
           n0 == cache.ns
           n1 == HandleVersionChange(n0, spec)
           n2 == HandleUninstallRequests(n1, spec)
           n3 == HandleCancelledUninstalls(n2, spec)
           to == HandleVersionChange(n3, spec)
<1>0. /\ k \in Key /\ k[1] = p /\ SpecKey(spec, p) = k /\ cache = node /\ n0[k] = Now(p)
      /\ n0 \in NodeStates /\ spec \in Specs /\ PlainNodeState(n0) /\ PlainSpec(spec) /\ VersionsApart
      /\ Now(p) \in Entry \cup {NoEntry} /\ Now(p).stage \in PlainStages
      /\ Now(p).stage = "uninstall" => spec[p].uninst = TRUE
  BY CleanFacts, FirstEntries, SharedTypes DEF KeepInv, Now, Clean, UninstallAsked
<1>1. to = PlannedState(cache.ns, spec)
  BY DEF PlannedState
<1> HIDE DEF k, n0
<1>2. n1 \in NodeStates /\ PlainNodeState(n1) /\ n1[k] = n0[k]
  BY <1>0, VersionPlanned, HandleVersionChangeType DEF PlainNodeState
<1> HIDE DEF n1
<1>3. /\ n2 \in NodeStates /\ PlainNodeState(n2)
      /\ \/ n2[k] = Now(p)
         \/ /\ Now(p).state = "complete" /\ Now(p).stage \in {"apply", "config"} /\ spec[p].uninst = TRUE
            /\ n2[k].stage = "uninstall" /\ n2[k].state = "in_progress"
  <2>1. n2 \in NodeStates /\ PlainNodeState(n2)
    BY <1>0, <1>2, UninstallPlanned, HandleUninstallRequestsType DEF PlainNodeState
  <2>2. n2[k] = IF ~NeedsUninstall(n1, spec, p) THEN n1[k]
                ELSE CASE n1[k].stage = "uninstall" -> n1[k]
                       [] n1[k].stage = "uninstall-interrupt" -> IF n1[k].state = "complete" THEN NoEntry ELSE n1[k]
                       [] OTHER -> IF n1[k].state = "complete" THEN Status(k, "uninstall", "in_progress") ELSE n1[k]
    BY <1>0 DEF HandleUninstallRequests
  <2> HIDE DEF n2
  <2>3. CASE n2[k] = n1[k]
    BY <1>0, <1>2, <2>1, <2>3
  <2>4. CASE n2[k] # n1[k]
    <3>1. n1[k].stage \notin {"uninstall", "uninstall-interrupt"}
      BY <1>0, <1>2, <2>2, <2>4 DEF PlainStages
    <3>2. /\ NeedsUninstall(n1, spec, p) /\ n1[k].state = "complete"
          /\ n2[k] = Status(k, "uninstall", "in_progress")
      BY <2>2, <2>4, <3>1
    <3>3. spec[p].uninst = TRUE
      <4>1. spec[p].uninst \in BOOLEAN
        BY <1>0 DEF Specs, SpecPkg
      <4>2. QED
        BY <1>0, <3>1, <3>2, <4>1 DEF NeedsUninstall, IsUninstallCycleInProgress
    <3>4. n2[k].stage = "uninstall" /\ n2[k].state = "in_progress"
      BY <3>2 DEF Status
    <3>5. Now(p).stage \in {"apply", "config"}
      BY <1>0, <1>2, <3>1, <3>2 DEF PlainStages, NoEntry, Entry, Stage
    <3>6. QED
      BY <1>0, <1>2, <2>1, <3>2, <3>3, <3>4, <3>5
  <2>5. QED
    BY <2>3, <2>4
<1>4. n1 = HandleVersionChange(cache.ns, spec)
  BY DEF n1, n0
<1>5. p \in UninstallList(n1, spec) => n2[k].stage \in {"uninstall", "uninstall-interrupt"}
  BY <1>0 DEF UninstallList, IsUninstallCycleInProgress
<1> HIDE DEF n2
<1>6. n3 \in NodeStates /\ PlainNodeState(n3) /\ n3[k] = n2[k]
  <2>1. /\ n3 \in NodeStates /\ PlainNodeState(n3)
        /\ n3[k] = n2[k] \/ (spec[k[1]].uninst = FALSE /\ n2[k].stage = "uninstall")
    BY <1>0, <1>3, CancelPlanned, HandleCancelledUninstallsType DEF PlainNodeState
  <2>2. QED
    BY <1>0, <1>3, <2>1
<1> HIDE DEF n3
<1>7. to[k] = n3[k]
  BY <1>0, <1>6, VersionPlanned
<1>8. to[k] = n2[k]
  BY <1>6, <1>7
<1> HIDE DEF to
<1>9. QED
  BY <1>1, <1>3, <1>4, <1>5, <1>8 DEF k, IsUninstallCycleInProgress

\* What the beginning of a pass shows of a package.
Planned(p) ==
  /\ pass'.spec = spec /\ Before(p)' = Now(p)
  /\ \/ Mem(p)' = Now(p)
     \/ /\ Now(p).state = "complete" /\ Now(p).stage \in {"apply", "config"} /\ spec[p].uninst = TRUE
        /\ Mem(p)'.stage = "uninstall" /\ Mem(p)'.state = "in_progress"
  /\ p \in pass'.un \cup pass'.rest /\ spec[p].uninst = TRUE => Mem(p)' # NoEntry
  /\ ~(p \in pass'.un /\ p \in pass'.rest)

LEMMA PassStartPlans ==
  ASSUME CleanConditions, TypeInv, KeepInv, "version" \notin used.kinds, NEW p \in Pkgs, Clean(p),
         IntrospectSkyhook \/ RunSkyhookPackages, pass' # pass
  PROVE  Planned(p)
<1>0. /\ cache \in Node /\ cache.ns \in NodeStates /\ spec \in Specs /\ cache = node
      /\ Of(p) \in Key /\ SpecKey(spec, p) = Of(p)
  BY SharedTypes, CleanFacts, FirstEntries DEF KeepInv, Node
<1>1. CASE IntrospectSkyhook
  <2>1. IntrospectNode(cache, spec).ns = cache.ns
    BY <1>0, IntrospectNodeType
  <2>2. /\ pass'.spec = spec /\ pass'.before = cache /\ pass'.un = {} /\ pass'.rest = {}
        /\ pass'.mem = IntrospectNode(cache, spec)
    BY <1>1 DEF IntrospectSkyhook, IdlePass
  <2>3. QED
    BY <1>0, <2>1, <2>2 DEF Planned, Before, Mem, Now, Of
<1>2. CASE RunSkyhookPackages
  <2> DEFINE ns == PlannedState(cache.ns, spec)
             n == [cache EXCEPT !.ns = ns]
             mem == IntrospectNode(n, spec)
             rest == Runnable(ns, spec)
             list == UninstallList(HandleVersionChange(cache.ns, spec), spec)
  <2>1. /\ pass'.spec = spec /\ pass'.before = cache /\ pass'.mem = mem
        /\ pass'.un = {o \in list : Present(ns, SpecKey(spec, o))} /\ pass'.rest = rest
    BY <1>2 DEF RunSkyhookPackages
  <2>2. /\ ns \in NodeStates
        /\ \/ ns[Of(p)] = Now(p)
           \/ /\ Now(p).state = "complete" /\ Now(p).stage \in {"apply", "config"} /\ spec[p].uninst = TRUE
              /\ ns[Of(p)].stage = "uninstall" /\ ns[Of(p)].state = "in_progress"
        /\ p \in list => IsUninstallCycleInProgress(ns, Of(p))
    BY <1>0, PlannedClean, PlannedStateType
  <2>3. p \in rest => /\ ~IsUninstallCycleInProgress(ns, Of(p))
                      /\ ~(spec[p].uninst = TRUE /\ ~Present(ns, Of(p)))
    BY <1>0 DEF Runnable
  <2> HIDE DEF ns, rest, list
  <2>4. n \in Node /\ n.ns = ns
    BY <1>0, <2>2 DEF Node
  <2> HIDE DEF n
  <2>5. mem.ns = ns
    BY <2>4, IntrospectNodeType
  <2> HIDE DEF mem
  <2>6. Before(p)' = Now(p) /\ Mem(p)' = ns[Of(p)]
    BY <1>0, <2>1, <2>5 DEF Before, Mem, Now, Of
  <2>7. p \in pass'.un => p \in list /\ Present(ns, Of(p))
    BY <1>0, <2>1
  <2>8. ~(p \in pass'.un /\ p \in pass'.rest)
    BY <2>1, <2>2, <2>3, <2>7
  <2>9. p \in pass'.un \cup pass'.rest /\ spec[p].uninst = TRUE => Mem(p)' # NoEntry
    BY <2>1, <2>3, <2>6, <2>7 DEF Present, NoEntry
  <2>10. QED
    BY <2>1, <2>2, <2>6, <2>8, <2>9 DEF Planned
<1>3. QED
  BY <1>1, <1>2

LEMMA StartClean ==
  ASSUME CleanConditions, TypeInv, KeepInv, CleanInv, IntrospectSkyhook \/ RunSkyhookPackages
  PROVE  CleanInv'
<1> SUFFICES ASSUME "version" \notin used'.kinds PROVE JobsOfFirst' /\ \A p \in Pkgs : Clean(p)'
  BY DEF CleanInv
<1>0. UNCHANGED <<spec, node, ran, used>> /\ pass.pc = "idle" /\ jobs' = Resumed
  BY DEF IntrospectSkyhook, RunSkyhookPackages, PassMayStart
<1>1. JobsOfFirst /\ \A p \in Pkgs : Clean(p)
  BY <1>0 DEF CleanInv
<1>2. \A p \in Pkgs : JobsLast(p)
  BY <1>0, JobsGoOn DEF Resumed
<1>3. JobsOfFirst'
  BY <1>1, <1>2, JobsStayOfFirst
<1>4. CASE pass' = pass
  <2>1. ASSUME NEW p \in Pkgs PROVE SameFor(p)
    BY <1>0, <1>4 DEF SameFor, Now, Before, Mem, Of, Uninstalled
  <2>2. QED
    BY <1>1, <1>2, <1>3, <2>1, CleanFrame
<1>5. CASE pass' # pass
  <2>1. ASSUME NEW p \in Pkgs PROVE Clean(p)'
    <3>1. Clean(p) /\ Planned(p) /\ Now(p)' = Now(p) /\ Now(p) \in Entry \cup {NoEntry} /\ Settles(p) = Now(p)
      BY <1>0, <1>1, <1>5, PassStartPlans, FirstEntries DEF Now, Of, Settles
    <3>2. Settles(p)' = Now(p) \/ (Settles(p)' = Mem(p)' /\ Mem(p)' # Now(p))
      BY <3>1 DEF Settles, Planned
    <3>3. ASSUME NEW j \in JobName, j[1] = p PROVE jobs'[j].phase \in {jobs[j].phase, "none"}
      BY <1>2, <3>3 DEF JobsLast
    <3>4. UninstallJob(p)'.phase \in {UninstallJob(p).phase, "none"}
      <4>1. <<p, 1, "uninstall">> \in JobName /\ <<p, 1, "uninstall">>[1] = p
        BY CleanFacts
      <4>2. QED
        BY <3>3, <4>1 DEF UninstallJob
    <3>5. Uninstalled(p)' <=> Uninstalled(p)
      BY <1>0 DEF Uninstalled
    <3>6. Mem(p)' # Now(p) =>
            /\ \A j \in JobName : j[1] = p => jobs'[j].phase # "active"
            /\ UninstallJob(p)'.phase = "none" /\ Mem(p)'.stage = "uninstall"
      BY <3>1, <3>3, <3>4 DEF Planned, Clean, ActiveWhereSettled, UninstallAsked, NoEntry
    <3>7. ActiveWhereSettled(p)'
      BY <3>1, <3>2, <3>3, <3>6 DEF Clean, ActiveWhereSettled
    <3>8. HostAgrees(p)'
      BY <3>1, <3>2, <3>4, <3>5, <3>6 DEF Clean, HostAgrees, NoEntry
    <3>9. UninstallAsked(p)'
      BY <1>0, <3>1, <3>2, <3>4, <3>6 DEF Clean, UninstallAsked, Planned
    <3>10. CleanPass(p)'
      <4>1. Waiting(p)' \/ p \notin pass'.un \cup pass'.rest
        BY <3>1 DEF Planned, Waiting
      <4>2. Mem(p)'.stage = "uninstall" => spec[p].uninst = TRUE
        BY <3>1 DEF Planned, Clean, UninstallAsked
      <4>3. Mem(p)'.stage \in PlainStages
        BY <3>1 DEF Planned, Clean, PlainStages
      <4>4. QED
        BY <1>0, <3>1, <4>1, <4>2, <4>3 DEF Planned, CleanPass
    <3>11. QED
      BY <3>1, <3>7, <3>8, <3>9, <3>10 DEF Clean
  <2>2. QED
    BY <1>3, <2>1
<1>6. QED
  BY <1>4, <1>5

\* A package's turn: its Job is left alone or deleted, or one is created and recorded.
LEMMA TurnOutcome ==
  ASSUME CleanConditions, TypeInv, KeepInv, "version" \notin used.kinds, NEW p \in Pkgs, RunPackage(p)
  PROVE  LET s == ApplyStage(p)
             j == <<p, 1, s>>
         IN  \E m \in Node :
               /\ Reached(p) /\ Advance(p, m)
               /\ \/ m = pass.mem /\ (jobs' = jobs \/ jobs' = [jobs EXCEPT ![j].del = TRUE])
                  \/ /\ PassEntry(p).state # "skipped" /\ s \in Stage \ InterruptStages
                     /\ jobs[j].phase = "none" /\ jobs' = [jobs EXCEPT ![j] = NewJob(Of(p), pass.spec[p])]
                     /\ m.ns = Upsert(pass.mem.ns, Of(p), s, "in_progress")
<1> DEFINE s == ApplyStage(p)
           j == <<p, 1, s>>
           r == Create(p, s)
<1>1. Reached(p) /\ ApplyPackage(p)
  BY DEF RunPackage, RunPlainPackage, RunSkippedPackage, RunActiveInterrupt, RunDrainedPackage,
     RunInterruptStage, RunNextStage, CleanConditions
<1>2. /\ PassKey(p) = Of(p) /\ Of(p) \in Key /\ pass.mem \in Node /\ pass.mem.ns \in NodeStates
      /\ PassEntry(p) \in Entry \cup {NoEntry}
  BY <1>1, FirstEntries, CleanFacts, PassTypes DEF Reached
<1>3. PassNext(p) \in {"none", "config", "post-interrupt", "apply"}
  <2>1. PassNext(p) # "interrupt"
    BY DEF PassNext, NextStage, CleanConditions
  <2>2. QED
    BY <2>1, PassTypes, NextStageType, HasInterruptType DEF PassNext, PassEntry
<1>4. s \in (Stage \ InterruptStages) \cup {"uninstall-interrupt"}
  BY <1>3 DEF ApplyStage, Stage, InterruptStages
<1>5. \/ jobs' = jobs /\ Advance(p, pass.mem)
      \/ /\ s # "uninstall-interrupt" /\ PassEntry(p).state # "skipped"
         /\ jobs' = r.jobs /\ Advance(p, r.mem)
  BY <1>1 DEF ApplyPackage, Nothing, CleanConditions
<1>6. CASE jobs' = jobs /\ Advance(p, pass.mem)
  BY <1>1, <1>2, <1>6
<1>7. CASE /\ s # "uninstall-interrupt" /\ PassEntry(p).state # "skipped"
           /\ jobs' = r.jobs /\ Advance(p, r.mem)
  <2>1. s \in Stage \ InterruptStages
    BY <1>4, <1>7
  <2>2. ASSUME NEW type PROVE NameOf(PassKey(p), s, type) = j
    BY <1>2, <2>1 DEF NameOf, Of
  <2> HIDE DEF s, j
  <2>3. r = IF jobs[j].phase = "none"
              THEN [jobs |-> [jobs EXCEPT ![j] = NewJob(Of(p), pass.spec[p])],
                    mem |-> [pass.mem EXCEPT !.ns = Upsert(@, Of(p), s, "in_progress")]]
              ELSE [jobs |-> HandleExistingJob(pass.mem.ns, pass.spec, Of(p), j), mem |-> pass.mem]
    BY <1>2, <2>2 DEF Create
  <2> HIDE DEF r
  <2>4. CASE jobs[j].phase # "none"
    <3>1. r.jobs = HandleExistingJob(pass.mem.ns, pass.spec, Of(p), j) /\ r.mem = pass.mem
      BY <2>3, <2>4
    <3>2. jobs' = jobs \/ jobs' = [jobs EXCEPT ![j].del = TRUE]
      BY <1>7, <3>1 DEF HandleExistingJob
    <3>3. QED
      BY <1>1, <1>2, <1>7, <3>1, <3>2 DEF s, j
  <2>5. CASE jobs[j].phase = "none"
    <3> DEFINE up == Upsert(pass.mem.ns, Of(p), s, "in_progress")
    <3>1. /\ r.jobs = [jobs EXCEPT ![j] = NewJob(Of(p), pass.spec[p])]
          /\ r.mem = [pass.mem EXCEPT !.ns = up]
      BY <2>3, <2>5
    <3>2. up \in NodeStates
      BY <1>2, <2>1, UpsertType DEF State
    <3> HIDE DEF up
    <3>3. r.mem \in Node /\ r.mem.ns = up
      BY <1>2, <3>1, <3>2 DEF Node
    <3>4. QED
      BY <1>1, <1>7, <2>1, <2>5, <3>1, <3>3 DEF s, j, up
  <2>6. QED
    BY <2>4, <2>5
<1>8. QED
  BY <1>5, <1>6, <1>7

\* Where a Job is created nothing was recorded since the snapshot, and no executor runs.
LEMMA NewJobAlone ==
  ASSUME CleanConditions, TypeInv, KeepInv, "version" \notin used.kinds, JobsOfFirst,
         NEW p \in Pkgs, Clean(p), Reached(p), PassEntry(p).state # "skipped",
         NEW s, s = ApplyStage(p), s \in Stage \ InterruptStages, jobs[<<p, 1, s>>].phase = "none"
  PROVE  /\ Settles(p) = Mem(p) /\ Now(p) = Before(p)
         /\ s \in {"apply", "config", "uninstall"}
         /\ s = "uninstall" <=> Mem(p).stage = "uninstall"
         /\ Mem(p) # NoEntry /\ Mem(p).state # "complete" =>
              s = Mem(p).stage /\ Mem(p) = Status(Of(p), s, "in_progress")
         /\ \A j \in JobName : j[1] = p => jobs[j].phase # "active"
<1>0. /\ pass.pc = "run" /\ p \in pass.un \cup pass.rest /\ CleanPass(p) /\ Waiting(p)
      /\ PassKey(p) = Of(p) /\ PassEntry(p) = Mem(p) /\ Mem(p) \in Entry \cup {NoEntry}
      /\ PlainEntry(Mem(p), Of(p)) /\ LeftToDo(Mem(p), p) /\ HasInterrupt[p] = FALSE
  <2>1. pass.pc = "run" /\ p \in pass.un \cup pass.rest
    BY DEF Reached
  <2>2. CleanPass(p) /\ Waiting(p)
    BY <2>1 DEF Clean, CleanPass
  <2>3. /\ PassKey(p) = Of(p) /\ PassEntry(p) = Mem(p) /\ Mem(p) \in Entry \cup {NoEntry}
        /\ PlainEntry(Mem(p), Of(p))
    BY <2>1, FirstEntries
  <2>4. LeftToDo(Mem(p), p)
    BY <2>1, <2>3 DEF KeepInv, PassKeeps, PassEntry
  <2>5. HasInterrupt[p] = FALSE
    BY HasInterruptType DEF CleanConditions
  <2>6. QED
    BY <2>1, <2>2, <2>3, <2>4, <2>5
<1>1. Mem(p) = NoEntry \/ (Mem(p) \in Entry /\ Mem(p).ver = 1 /\ Mem(p).stage \in {"apply", "config", "uninstall"})
  BY <1>0 DEF PlainEntry, CleanPass, PlainStages, Entry, Stage, Of
<1>2. CASE Mem(p) = NoEntry
  <2>1. PassNext(p) = "none"
    BY <1>0, <1>2 DEF PassNext, NextStage, NoEntry
  <2>2. s = "apply"
    BY <1>0, <1>2, <2>1 DEF ApplyStage, NoEntry
  <2>3. Now(p) = Before(p)
    <3>1. Mem(p).stage = "none"
      BY <1>2 DEF NoEntry
    <3>2. QED
      BY <1>0, <3>1, RecordedSince
  <2>4. Settles(p) = Mem(p)
    BY <1>0, <1>2, <2>3 DEF Settles, Waiting, NoEntry
  <2>5. \A j \in JobName : j[1] = p => jobs[j].phase # "active"
    BY <1>2, <2>4 DEF Clean, ActiveWhereSettled, NoEntry
  <2>6. QED
    BY <1>2, <2>2, <2>3, <2>4, <2>5 DEF NoEntry
<1>3. CASE Mem(p) \in Entry /\ Mem(p).state = "complete"
  <2>1. Mem(p).stage = "apply"
    BY <1>0, <1>1, <1>3 DEF LeftToDo, NoEntry, Entry, Stage, PlainEntry
  <2>2. PassNext(p) = "config"
    BY <1>0, <1>3, <2>1 DEF PassNext, NextStage
  <2>3. s = "config"
    BY <2>2 DEF ApplyStage
  <2>4. Now(p) = Before(p)
    BY <1>0, <1>3, RecordedSince
  <2>5. Settles(p) = Mem(p)
    BY <1>0, <1>3, <2>4 DEF Settles, Waiting
  <2>6. \A j \in JobName : j[1] = p => jobs[j].phase # "active"
    BY <1>3, <2>5 DEF Clean, ActiveWhereSettled
  <2>7. QED
    BY <1>3, <2>1, <2>3, <2>4, <2>5, <2>6
<1>4. CASE Mem(p) \in Entry /\ Mem(p).state # "complete"
  <2>1. Mem(p).state = "in_progress"
    BY <1>0, <1>4 DEF PlainEntry, Entry, State, NoEntry
  <2>2. PassNext(p) = "none"
    BY <1>0, <1>4 DEF PassNext, NextStage
  <2>3. s = Mem(p).stage /\ s \in {"apply", "config", "uninstall"}
    BY <1>0, <1>1, <1>4, <2>2 DEF ApplyStage, NoEntry, Entry, Stage
  <2>4. Mem(p) = Status(Of(p), s, "in_progress")
    <3>1. Mem(p) = [ver |-> Mem(p).ver, stage |-> Mem(p).stage, state |-> Mem(p).state]
      BY <1>4 DEF Entry
    <3>2. Mem(p).ver = 1
      BY <1>1, <1>4, <2>1 DEF NoEntry
    <3>3. QED
      BY <2>1, <2>3, <3>1, <3>2 DEF Status, Of
  <2>5. Now(p) = Before(p)
    <3>1. SUFFICES ASSUME Now(p) # Before(p) PROVE FALSE
      OBVIOUS
    <3>2. Mem(p) = Before(p)
      BY <1>0, <3>1, RecordedSince
    <3>3. HoldsName(jobs[<<p, 1, s>>])
      BY <1>0, <2>3, <3>1, <3>2 DEF Waiting
    <3>4. QED
      BY <3>3 DEF HoldsName
  <2>6. Settles(p) = Mem(p)
    BY <1>0, <2>5 DEF Settles
  <2>7. ASSUME NEW j \in JobName, j[1] = p, jobs[j].phase = "active" PROVE FALSE
    <3>1. j[3] = s /\ j[2] = 1
      BY <2>3, <2>6, <2>7 DEF Clean, ActiveWhereSettled, JobsOfFirst
    <3>2. j = <<j[1], j[2], j[3]>>
      BY CleanFacts
    <3>3. j = <<p, 1, s>>
      BY <2>7, <3>1, <3>2
    <3>4. QED
      BY <2>7, <3>3
  <2>8. QED
    BY <1>4, <2>3, <2>4, <2>5, <2>6, <2>7
<1>5. QED
  BY <1>1, <1>2, <1>3, <1>4

LEMMA RunClean ==
  ASSUME CleanConditions, TypeInv, KeepInv, CleanInv, NEW p \in Pkgs, RunPackage(p)
  PROVE  CleanInv'
<1> SUFFICES ASSUME "version" \notin used'.kinds PROVE JobsOfFirst' /\ \A q \in Pkgs : Clean(q)'
  BY DEF CleanInv
<1>0. UNCHANGED <<spec, node, ran, used>>
  BY DEF RunPackage, RunPlainPackage, RunSkippedPackage, RunActiveInterrupt, RunDrainedPackage,
     RunInterruptStage, RunNextStage, passOnly
<1>1. JobsOfFirst /\ \A q \in Pkgs : Clean(q)
  BY <1>0 DEF CleanInv
<1> DEFINE s == ApplyStage(p)
           j == <<p, 1, s>>
           new == NewJob(Of(p), pass.spec[p])
<1>2. PICK m \in Node :
        /\ Reached(p) /\ Advance(p, m)
        /\ \/ m = pass.mem /\ (jobs' = jobs \/ jobs' = [jobs EXCEPT ![j].del = TRUE])
           \/ /\ PassEntry(p).state # "skipped" /\ s \in Stage \ InterruptStages
              /\ jobs[j].phase = "none" /\ jobs' = [jobs EXCEPT ![j] = new]
              /\ m.ns = Upsert(pass.mem.ns, Of(p), s, "in_progress")
  BY <1>0, TurnOutcome
<1> HIDE DEF s, new
<1>3. /\ pass \in Passes /\ pass.mem.ns \in NodeStates /\ JobsOK(jobs) /\ \A i \in JobName : jobs[i] \in Job
      /\ pass.pc = "run" /\ p \in pass.un \cup pass.rest /\ Of(p) \in Key
  BY <1>2, PassTypes, CleanFacts DEF Reached, JobsOK
<1>4. /\ pass'.spec = pass.spec /\ pass'.before = pass.before /\ pass'.mem = m /\ pass'.pc # "idle"
      /\ pass'.un = pass.un \ {p} /\ pass'.rest = IF p \in pass.un THEN pass.rest ELSE pass.rest \ {p}
  BY <1>2, <1>3 DEF Advance, Passes
<1>5. p \notin pass'.un \cup pass'.rest
  <2>1. ~(p \in pass.un /\ p \in pass.rest)
    BY <1>1, <1>3 DEF Clean, CleanPass
  <2>2. QED
    BY <1>4, <2>1
<1>6. \A q \in Pkgs : Now(q)' = Now(q) /\ Before(q)' = Before(q) /\ (Uninstalled(q)' <=> Uninstalled(q))
  BY <1>0, <1>4 DEF Now, Before, Of, Uninstalled
<1>7. ASSUME NEW q \in Pkgs, Mem(q)' = Mem(q), JobsLast(q) PROVE Clean(q)'
  <2>1. SameFor(q)
    BY <1>0, <1>3, <1>4, <1>6, <1>7 DEF SameFor
  <2>2. QED
    BY <1>1, <1>7, <2>1, CleanFrame
<1>8. CASE m = pass.mem /\ (jobs' = jobs \/ jobs' = [jobs EXCEPT ![j].del = TRUE])
  <2>1. ASSUME NEW i \in JobName
        PROVE  jobs'[i].phase = jobs[i].phase /\ jobs'[i].of = jobs[i].of /\ (i[1] # p => jobs'[i] = jobs[i])
    <3>1. i[1] # p => i # j
      OBVIOUS
    <3> HIDE DEF j
    <3>2. QED
      BY <1>3, <1>8, <3>1 DEF JobsOK, Job
  <2>2. \A q \in Pkgs : Mem(q)' = Mem(q)
    BY <1>4, <1>8 DEF Mem, Of
  <2>3. \A q \in Pkgs : JobsLast(q)
    BY <1>5, <2>1 DEF JobsLast, HoldsName
  <2>4. JobsOfFirst'
    BY <1>1, <2>3, JobsStayOfFirst
  <2>5. QED
    BY <1>7, <2>2, <2>3, <2>4
<1>9. CASE /\ PassEntry(p).state # "skipped" /\ s \in Stage \ InterruptStages
           /\ jobs[j].phase = "none" /\ jobs' = [jobs EXCEPT ![j] = new]
           /\ m.ns = Upsert(pass.mem.ns, Of(p), s, "in_progress")
  <2>1. j \in JobName /\ j[1] = p /\ j[2] = 1 /\ j[3] = s
    BY <1>9, CleanFacts
  <2>2. new.phase = "active" /\ new.of = Of(p)
    <3>1. ASSUME NEW k, NEW pkg PROVE NewJob(k, pkg).phase = "active" /\ NewJob(k, pkg).of = k
      BY NewJobFields
    <3>2. QED
      BY <3>1 DEF new
  <2>3. jobs'[j] = new /\ \A i \in JobName \ {j} : jobs'[i] = jobs[i]
    BY <1>3, <1>9, <2>1 DEF JobsOK
  <2>4. JobsOfFirst'
    BY <1>1, <2>1, <2>2, <2>3 DEF JobsOfFirst, Of
  <2>5. m.ns[Of(p)] = Status(Of(p), s, "in_progress") /\ \A k \in Key \ {Of(p)} : m.ns[k] = pass.mem.ns[k]
    BY <1>3, <1>9 DEF Upsert, NodeStates
  <2>6. ASSUME NEW q \in Pkgs, q # p PROVE Clean(q)'
    <3>1. Of(q) \in Key \ {Of(p)}
      BY <2>6, CleanFacts
    <3>2. Mem(q)' = Mem(q)
      BY <1>4, <2>5, <3>1 DEF Mem, Of
    <3>3. JobsLast(q)
      BY <2>1, <2>3, <2>6 DEF JobsLast, HoldsName
    <3>4. QED
      BY <1>7, <3>2, <3>3
  <2>7. Mem(p)'.stage = s /\ Mem(p)'.state = "in_progress" /\ Mem(p)' = Status(Of(p), s, "in_progress")
    BY <1>4, <2>5 DEF Mem, Of, Status
  <2>8. /\ Settles(p) = Mem(p) /\ Now(p) = Before(p)
        /\ s \in {"apply", "config", "uninstall"}
        /\ s = "uninstall" <=> Mem(p).stage = "uninstall"
        /\ Mem(p) # NoEntry /\ Mem(p).state # "complete" => s = Mem(p).stage /\ Mem(p) = Status(Of(p), s, "in_progress")
        /\ \A i \in JobName : i[1] = p => jobs[i].phase # "active"
    BY <1>0, <1>1, <1>2, <1>9, NewJobAlone DEF s, j
  <2> HIDE DEF j
  <2>9. Settles(p)' = Mem(p)'
    BY <1>4, <1>6, <2>8 DEF Settles
  <2>10. CleanPass(p) /\ Waiting(p)
    BY <1>1, <1>3 DEF Clean, CleanPass
  <2>11. UninstallJob(p)'.phase = IF s = "uninstall" THEN "active" ELSE UninstallJob(p).phase
    <3>1. CASE s = "uninstall"
      BY <2>2, <2>3, <3>1 DEF UninstallJob, j
    <3>2. CASE s # "uninstall"
      <4>1. <<p, 1, "uninstall">> \in JobName \ {j}
        BY <3>2, CleanFacts DEF j
      <4>2. QED
        BY <2>3, <3>2, <4>1 DEF UninstallJob
    <3>3. QED
      BY <3>1, <3>2
  <2>12. s # "uninstall" => UninstallJob(p).phase = "none"
    BY <1>1, <1>3, <2>8, <2>10 DEF Clean, UninstallAsked, Waiting
  <2>13. s = "uninstall" => spec[p].uninst = TRUE /\ pass.spec[p].uninst = TRUE
    BY <2>8, <2>10 DEF CleanPass
  <2>14. ActiveWhereSettled(p)'
    BY <2>1, <2>3, <2>7, <2>8, <2>9 DEF ActiveWhereSettled
  <2>15. HostAgrees(p)'
    <3>1. Settles(p)' # NoEntry
      BY <2>7, <2>9 DEF NoEntry
    <3>2. Settles(p)'.stage = "uninstall" => UninstallJob(p)'.phase # "complete"
      BY <2>7, <2>9, <2>11
    <3>3. QED
      BY <3>1, <3>2 DEF HostAgrees
  <2>16. UninstallAsked(p)'
    <3>1. Now(p)'.stage = "uninstall" => spec[p].uninst = TRUE
      BY <1>1, <1>6 DEF Clean, UninstallAsked
    <3>2. UninstallJob(p)'.phase # "none" => s = "uninstall"
      BY <2>11, <2>12
    <3>3. QED
      BY <1>0, <1>4, <2>7, <2>9, <2>13, <3>1, <3>2 DEF UninstallAsked
  <2>17. CleanPass(p)'
    <3>1. Mem(p)' = Before(p) \/ Before(p).state \in {"none", "complete"}
      <4>1. SUFFICES ASSUME Before(p).state \notin {"none", "complete"} PROVE Mem(p)' = Before(p)
        OBVIOUS
      <4>2. Mem(p) = Before(p)
        BY <2>10, <4>1 DEF CleanPass
      <4>3. Mem(p) = Status(Of(p), s, "in_progress")
        BY <2>8, <4>1, <4>2 DEF NoEntry
      <4>4. QED
        BY <2>7, <4>2, <4>3
    <3>2. Mem(p)'.stage \in PlainStages /\ (Mem(p)'.stage = "uninstall" => pass.spec[p].uninst = TRUE)
      BY <2>7, <2>8, <2>13 DEF PlainStages
    <3>3. QED
      BY <1>0, <1>4, <1>5, <1>6, <2>8, <2>10, <3>1, <3>2 DEF CleanPass
  <2>18. Clean(p)'
    BY <1>1, <1>6, <2>14, <2>15, <2>16, <2>17 DEF Clean
  <2>19. QED
    BY <2>4, <2>6, <2>18
<1>10. QED
  BY <1>2, <1>8, <1>9

LEMMA NextClean ==
  ASSUME CleanConditions, TypeInv, KeepInv, CleanInv, [Next]_vars, [NotWithdrawn]_vars
  PROVE  CleanInv'
<1>0. /\ cache = node /\ attempts = {} /\ ~CanFail /\ KeepConditions
      /\ \A j \in JobName : jobs[j].phase \in {"none", "active", "complete"}
  BY DEF KeepInv, NothingFails, CleanConditions, KeepConditions, CanFail, TypeInv, TypeOK
<1>1. NotWithdrawn
  BY DEF NotWithdrawn, vars
<1>2. CASE IntrospectSkyhook \/ RunSkyhookPackages \/ SaveNodesAndSkyhook \/ \E p \in Pkgs : RunPackage(p)
  BY <1>2, StartClean, SaveClean, RunClean
<1>3. CASE \E j \in JobName : JobReconcileFinished(j) \/ JobSucceeds(j)
  BY <1>3, RecordClean, SuccessClean
<1>4. CASE \/ UNCHANGED vars \/ ValidateRunningPackages \/ SuspendUnfinishedJobs \/ MarkJobProcessed
           \/ \E j \in JobName : JobReconcileInvalid(j) \/ JobGone(j) \/ JobSeen(j)
  <2>1. UNCHANGED <<node, pass, ran>> /\ used' = used
    BY <1>4 DEF vars, ValidateRunningPackages, SuspendUnfinishedJobs, MarkJobProcessed, JobReconcileInvalid,
       JobGone, JobSeen
  <2>2. \A p \in Pkgs : JobsLast(p)
    BY <1>4, JobsGoOn DEF vars, SuspendUnfinishedJobs
  <2>3. QED
    BY <1>1, <2>1, <2>2, QuietClean
<1>5. CASE \/ CacheSync \/ PlaceWorkload \/ WorkloadLeaves \/ EditMode
           \/ \E p \in Pkgs : EditVersion(p) \/ EditOther(p) \/ EditUninstall(p)
  <2>1. UNCHANGED <<node, pass, ran, jobs>>
    BY <1>5 DEF CacheSync, PlaceWorkload, WorkloadLeaves, EditMode, EditVersion, EditOther, EditUninstall, Edit
  <2>2. used.kinds \subseteq used'.kinds
    BY <1>0, <1>5, EnvironmentKeeps DEF Environment
  <2>3. \A p \in Pkgs : JobsLast(p)
    BY <2>1, JobsGoOn
  <2>4. QED
    BY <1>1, <2>1, <2>2, <2>3, QuietClean
<1>6. ~OperatorCrash
  BY DEF OperatorCrash, CleanConditions, TypeInv, TypeOK
<1>7. ASSUME NEW j \in JobName PROVE ~(JobReconcileActive(j) \/ AttemptFails(j) \/ JobFails(j) \/ JobFailureEnds(j))
  BY <1>0 DEF JobReconcileActive, AttemptFails, JobFails, JobFailureEnds
<1>8. ASSUME NEW j \in JobName, NEW k \in Key PROVE ~PodReconcile(j, k)
  BY <1>0 DEF PodReconcile
<1>9. QED
  BY <1>2, <1>3, <1>4, <1>5, <1>6, <1>7, <1>8 DEF Next, HeavyPass, Reconcilers, Environment

LEMMA CleanMeansClean ==
  ASSUME CleanConditions, TypeInv, KeepInv, CleanInv
  PROVE  UninstalledMeansClean
<1>1. SUFFICES ASSUME NEW p \in Pkgs, spec[p].uninst, pass.pc = "idle",
                      \A v \in Versions : ~Present(node.ns, <<p, v>>)
               PROVE  /\ \A x \in ran : x[1] # p
                      /\ \A j \in JobName : KeyOf(j)[1] = p => ~Running(j)
  BY DEF UninstalledMeansClean
<1>2. "version" \notin used.kinds
  BY <1>1 DEF KeepInv, VersionsApart, PlainSpec
<1>3. JobsOfFirst /\ Clean(p)
  BY <1>2 DEF CleanInv
<1>4. Settles(p) = NoEntry
  <2>1. Of(p) \in Key /\ ~Present(node.ns, Of(p))
    BY <1>1, VersionBound, CleanFacts DEF Versions, Of
  <2>2. Now(p) = NoEntry
    BY <2>1, SharedTypes, PresentType DEF Now
  <2>3. QED
    BY <1>1, <2>2 DEF Settles
<1>5. \A x \in ran : x[1] # p
  BY <1>3, <1>4 DEF Clean, HostAgrees, Uninstalled
<1>6. ASSUME NEW j \in JobName, KeyOf(j)[1] = p, Running(j) PROVE FALSE
  <2>1. jobs[j].phase = "active"
    BY <1>6 DEF Running, JobUnfinished, KeepInv, NothingFails
  <2>2. j[1] = p /\ j[3] \in Stage
    BY <1>3, <1>6, <2>1, CleanFacts DEF JobsOfFirst, KeyOf
  <2>3. Settles(p).stage = j[3]
    BY <1>3, <2>1, <2>2 DEF Clean, ActiveWhereSettled
  <2>4. QED
    BY <1>4, <2>2, <2>3 DEF NoEntry, Stage
<1>7. QED
  BY <1>5, <1>6

LEMMA InitClean ==
  ASSUME CleanConditions
  PROVE  Init => CleanInv
<1> SUFFICES ASSUME Init PROVE JobsOfFirst /\ \A p \in Pkgs : Clean(p)
  BY DEF CleanInv
<1>1. pass.pc = "idle" /\ ran = {} /\ \A j \in JobName : jobs[j].phase = "none"
  BY IdlePassType, NoJobType DEF Init
<1>2. JobsOfFirst
  BY <1>1 DEF JobsOfFirst
<1>3. ASSUME NEW p \in Pkgs PROVE Clean(p)
  <2>1. Now(p) = NoEntry /\ Settles(p) = NoEntry
    BY <1>1, CleanFacts DEF Init, InitialNode, EmptyNodeState, Now, Settles
  <2>2. UninstallJob(p).phase = "none"
    BY <1>1, CleanFacts DEF UninstallJob
  <2>3. QED
    BY <1>1, <2>1, <2>2 DEF Clean, ActiveWhereSettled, HostAgrees, UninstallAsked, Uninstalled, PlainStages, NoEntry
<1>4. QED
  BY <1>2, <1>3

\* Where nothing fails or restarts, no package has an interrupt and the TTL of a complete
\* Job is longer than a pass, for any number of packages and edits, whatever the order of
\* passes and reconciles and however late Jobs are seen: an uninstall that is not
\* withdrawn ends with nothing of the package on the host and no executor of it running
\* (shouldSkipApplyForUninstall, isPackageFullyUninstalled).
THEOREM UninstallsLeaveNothing ==
  ASSUME CleanConditions
  PROVE  Spec /\ [][NotWithdrawn]_vars => []UninstalledMeansClean
<1>1. KeepConditions
  BY DEF CleanConditions
<1>2. Init => KeepInv /\ CleanInv
  BY InitClean, InitKeeps
<1>3. TypeInv /\ KeepInv /\ [Next]_vars => KeepInv'
  BY <1>1, NextKeeps
<1>4. TypeInv /\ KeepInv /\ CleanInv /\ [Next]_vars /\ [NotWithdrawn]_vars => CleanInv'
  BY NextClean
<1>5. TypeInv /\ KeepInv /\ CleanInv => UninstalledMeansClean
  BY CleanMeansClean
<1>6. QED
  BY <1>2, <1>3, <1>4, <1>5, TypeInvariant, PTL DEF Spec

=============================================================================
