---------------------------- MODULE AgentProofs ----------------------------
(***************************************************************************)
(* Proofs about Agent, for every package (its versions, stages and steps), *)
(* every kind of interrupt and any bounds.                                 *)
(***************************************************************************)
EXTENDS Agent, WellFoundedInduction, TLAPS

-----------------------------------------------------------------------------
(***************************************************************************)
(* How an invocation goes on and ends.                                     *)
(***************************************************************************)
Positions == [version : Versions, stage : StageNames, done : BOOLEAN]
SameOp == pos' = pos /\ gen' = gen /\ job' = job

\* An agent that does not run.
LEMMA IdleFacts ==
  /\ Idle \in Procs
  /\ Idle.pc = "idle" /\ Idle.check = FALSE /\ Idle.i = 0
  BY DEF Idle, Procs

\* The next operation of the same invocation.
LEMMA GotoFacts ==
  ASSUME proc \in Procs, NEW pc, Goto(pc),
         pc \in {"idle", "copy", "begin", "step", "mark", "flag", "summarize", "record", "remove",
                 "interrupt", "pending", "reboot", "complete"}
  PROVE  /\ proc' \in Procs /\ SameOp
         /\ proc'.pc = pc /\ proc'.check = proc.check /\ proc'.i = proc.i
  BY DEF Goto, Procs, op, SameOp

\* The next step of a stage.
LEMMA NextStepFacts ==
  ASSUME proc \in Procs, NextStep
  PROVE  /\ proc' \in Procs /\ SameOp
         /\ proc'.pc = "step" /\ proc'.check = proc.check /\ proc'.i = proc.i + 1
<1>1. proc.i + 1 \in Nat
  BY DEF Procs
<1>2. proc' = [proc EXCEPT !.pc = "step", !.i = proc.i + 1, !.existed = FALSE] /\ SameOp
  BY DEF NextStep, op, SameOp, Procs
<1> DEFINE j == proc.i + 1
<1>3. j \in Nat /\ proc' = [proc EXCEPT !.pc = "step", !.i = j, !.existed = FALSE]
  BY <1>1, <1>2
<1> HIDE DEF j
<1>4. proc' \in Procs /\ proc'.pc = "step" /\ proc'.check = proc.check /\ proc'.i = j
  BY <1>3 DEF Procs
<1> QED
  BY <1>2, <1>4 DEF j

\* The checks follow the steps, the summary follows the checks.
LEMMA EndOfStepsFacts ==
  ASSUME proc \in Procs, EndOfSteps
  PROVE  /\ proc' \in Procs /\ SameOp
         /\ \/ /\ proc.check = TRUE /\ proc'.pc = "summarize" /\ proc'.check = TRUE
            \/ /\ proc.check = FALSE /\ proc'.pc = "begin" /\ proc'.check = TRUE
<1>1. CASE proc.check
  <2>1. Goto("summarize")
    BY <1>1 DEF EndOfSteps
  <2> QED
    BY <1>1, <2>1, GotoFacts DEF Procs
<1>2. CASE ~proc.check
  <2>1. proc' = [Idle EXCEPT !.pc = "begin", !.check = TRUE] /\ SameOp
    BY <1>2 DEF EndOfSteps, op, SameOp
  <2>2. proc' \in Procs /\ proc'.pc = "begin" /\ proc'.check = TRUE
    BY <2>1, IdleFacts DEF Procs
  <2>3. proc.check = FALSE
    BY <1>2 DEF Procs
  <2> QED
    BY <2>1, <2>2, <2>3
<1> QED
  BY <1>1, <1>2

\* The pod fails; the stage is not done.
LEMMA PodFailsFacts ==
  ASSUME PodFails
  PROVE  proc' = Idle /\ SameOp
  BY DEF PodFails, op, SameOp

\* The pod succeeds; the stage is recorded as done.
LEMMA PodSucceedsFacts ==
  ASSUME pos \in Positions, PodSucceeds
  PROVE  /\ proc' = Idle /\ gen' = gen /\ job' = job
         /\ pos' \in Positions /\ pos'.version = pos.version /\ pos'.stage = pos.stage
         /\ pos'.done = TRUE
  BY DEF PodSucceeds, Positions

\* The operator moves the package to another stage.
LEMMA EnterFacts ==
  ASSUME NEW v \in Versions, NEW s \in StageNames, Enter(v, s)
  PROVE  /\ proc' = Idle /\ job' = 0
         /\ pos' \in Positions /\ pos'.version = v /\ pos'.stage = s
         /\ pos'.done = (s = "absent")
  BY DEF Enter, Positions

\* The smallest element of a set of numbers.
LEMMA LeastNumber ==
  ASSUME NEW T, T \subseteq Nat, T # {}
  PROVE  \E x \in T : \A y \in T : x <= y
<1>1. IsWellFoundedOn(OpToRel(<, Nat), Nat)
  BY NatLessThanWellFounded
<1>2. PICK x \in T : \A y \in T : ~(<<y, x>> \in OpToRel(<, Nat))
  BY <1>1, WFMin
<1>3. \A y \in T : ~(y < x)
  BY <1>2 DEF OpToRel
<1> QED
  BY <1>3

\* The first operation without a marker is one of the interrupt's operations.
LEMMA FirstPendingType ==
  ASSUME Unmarked # {}
  PROVE  FirstPending \in Markers /\ FirstPending \in 1..(Operations + 1)
<1>1. Operations \in Nat /\ 1..(Operations + 1) \subseteq Nat
  BY AgentAssumption DEF AgentAssumption
<1>2. Markers \subseteq 1..(Operations + 1)
  BY <1>1 DEF Markers
<1>3. Unmarked \subseteq Nat /\ Unmarked \subseteq Markers
  BY <1>1, <1>2 DEF Unmarked
<1>4. \E o \in Unmarked : \A p \in Unmarked : o <= p
  BY <1>3, LeastNumber
<1>5. FirstPending \in Unmarked
  BY <1>4 DEF FirstPending
<1> QED
  BY <1>2, <1>3, <1>5

\* The steps of a stage.
LEMMA StepsType ==
  ASSUME TypeOK, pos.stage \in StepStages
  PROVE  /\ Len(Steps) \in Nat
         /\ \A i \in 1..Len(Steps) : Steps[i] \in StepSet
<1>1. pos.version \in Versions
  BY DEF TypeOK
<1>2. Steps \in Seq([id : STRING, env : Nat, always : BOOLEAN])
  BY <1>1, AgentAssumption DEF AgentAssumption, Steps
<1>3. Len(Steps) \in Nat
  BY <1>2
<1>4. ASSUME NEW i \in 1..Len(Steps)
      PROVE  Steps[i] \in StepSet
  <2> DEFINE Of(v, s) == {Modes[v][s][j] : j \in 1..Len(Modes[v][s])}
  <2>1. Steps[i] \in Of(pos.version, pos.stage)
    BY <1>4 DEF Steps
  <2>2. Of(pos.version, pos.stage) \in {Of(v, s) : v \in Versions, s \in StepStages}
    BY <1>1
  <2>3. StepSet = UNION {Of(v, s) : v \in Versions, s \in StepStages}
    BY DEF StepSet
  <2> HIDE DEF Of
  <2> QED
    BY <2>1, <2>2, <2>3
<1> QED
  BY <1>3, <1>4

-----------------------------------------------------------------------------
(***************************************************************************)
(* Types and control: where in its code the agent is tells which kind of   *)
(* stage the package is at, and that the stage is not done yet.            *)
(***************************************************************************)
StepPcs == {"copy", "step", "mark", "flag", "summarize", "record", "remove"}
InterruptPcs == {"interrupt", "pending", "reboot", "complete"}

Control ==
  /\ proc.pc = "idle" => proc = Idle
  /\ proc.pc # "idle" => pos.done = FALSE /\ job # 0
  /\ pos.stage = "absent" => pos.done = TRUE
  /\ proc.pc \in StepPcs \/ proc.check = TRUE => pos.stage \in StepStages
  /\ proc.pc \in InterruptPcs => pos.stage \in InterruptStages
  /\ proc.pc = "remove" => pos.stage = "uninstall"
  /\ proc.pc \in {"mark", "flag"} => proc.check = FALSE /\ proc.i \in 1..Len(Steps)
  /\ proc.pc \in {"summarize", "record", "remove"} => proc.check = TRUE
  /\ proc.pc = "step" => proc.i # 0
  /\ proc.pc = "complete" => Unmarked # {}

RunTypes ==
  /\ kind \in InterruptKinds /\ edits \in 0..MaxEdits /\ gen \in 1..(edits + 1) /\ job \in 0..gen
  /\ pos \in Positions /\ proc \in Procs

HostTypes ==
  /\ flags \in [Versions -> SUBSET FlagNames] /\ history \in Ledgers
  /\ checked \subseteq Versions \X StepStages
  /\ complete \subseteq RIDs \X (1..(Operations + 1))
  /\ pending \in [RIDs -> 0..boot] /\ began \in [RIDs -> 0..boot]
  /\ boot \in Nat \ {NoBoot, Malformed} /\ rebooting \in BOOLEAN

LEMMA TypeParts == TypeOK <=> RunTypes /\ HostTypes
  BY DEF TypeOK, RunTypes, HostTypes, Positions

\* A stage of the pipeline is followed by a stage, or the pipeline is over.
LEMMA NextStageType ==
  ASSUME NEW s \in StageNames, NextStage(s) # "end"
  PROVE  NextStage(s) \in StageNames
  BY DEF NextStage, StageNames, StepStages, InterruptStages

\* The invocation is over and the stage is where it was, done or not.
LEMMA Ended ==
  ASSUME TypeOK, Control, kind' = kind, edits' = edits, gen' = gen, job' = job, proc' = Idle,
         pos' \in Positions, pos'.stage = pos.stage, pos.done = TRUE => pos'.done = TRUE
  PROVE  RunTypes' /\ Control'
<1>1. RunTypes'
  BY IdleFacts DEF TypeOK, RunTypes
<1>2. Control'
  BY IdleFacts DEF Control, StepPcs, InterruptPcs
<1> QED
  BY <1>1, <1>2

\* The invocation goes on.
LEMMA GoesOn ==
  ASSUME TypeOK, kind' = kind, edits' = edits, SameOp, proc' \in Procs
  PROVE  RunTypes'
  BY DEF TypeOK, RunTypes, SameOp, Positions

\* Which operations lack a marker depends on the interrupt, the Job and the markers.
LEMMA SameMarkers ==
  ASSUME kind' = kind, pos' = pos, job' = job, complete' = complete
  PROVE  Unmarked' = Unmarked
  BY DEF Unmarked, Marked, Markers, rid

\* Neither the agent nor the package moves.
LEMMA Stays ==
  ASSUME TypeOK, Control, kind' = kind, edits' = edits, SameOp, proc' = proc, complete' = complete
  PROVE  RunTypes' /\ Control'
<1>1. RunTypes'
  BY GoesOn DEF TypeOK
<1>2. Steps' = Steps /\ Unmarked' = Unmarked
  BY SameMarkers DEF Steps, SameOp
<1>3. Control'
  BY <1>2 DEF Control, SameOp
<1> QED
  BY <1>1, <1>3

\* The package enters a stage, with the edit that sends it there or without one.
LEMMA Enters ==
  ASSUME TypeOK, NEW v \in Versions, NEW s \in StageNames, Enter(v, s), kind' = kind,
         edits' \in 0..MaxEdits, gen' \in 1..(edits' + 1)
  PROVE  RunTypes' /\ Control'
<1>1. /\ proc' = Idle /\ job' = 0 /\ pos' \in Positions /\ pos'.stage = s
      /\ pos'.done = (s = "absent")
  BY EnterFacts
<1>2. job' \in 0..gen'
  BY <1>1
<1>3. RunTypes'
  BY <1>1, <1>2, IdleFacts DEF TypeOK, RunTypes
<1>4. Control'
  BY <1>1, IdleFacts DEF Control, StepPcs, InterruptPcs
<1> QED
  BY <1>3, <1>4

\* The user and the operator.
LEMMA OpSteps ==
  ASSUME TypeOK, Control, (Advance /\ UNCHANGED edits) \/ Edit \/ Rerun, UNCHANGED kind
  PROVE  RunTypes' /\ Control'
<1>0. /\ pos.version \in Versions /\ pos.stage \in StageNames /\ MaxVersion \in Nat
      /\ edits \in 0..MaxEdits /\ gen \in 1..(edits + 1) /\ MaxEdits \in Nat
  BY AgentAssumption DEF TypeOK, AgentAssumption
<1>1. CASE Advance /\ UNCHANGED edits
  <2>1. NextStage(pos.stage) \in StageNames /\ Enter(pos.version, NextStage(pos.stage)) /\ gen' = gen
    BY <1>0, <1>1, NextStageType DEF Advance
  <2> QED
    BY <1>0, <1>1, <2>1, Enters
<1>2. CASE Rerun
  <2>1. PICK s \in {"apply", "config", "interrupt", "post-interrupt"} : Enter(pos.version, s)
    BY <1>2 DEF Rerun
  <2>2. s \in StageNames
    BY DEF StageNames, StepStages, InterruptStages
  <2>3. edits' \in 0..MaxEdits /\ gen' \in 1..(edits' + 1)
    BY <1>0, <1>2 DEF Rerun
  <2> QED
    BY <1>0, <2>1, <2>2, <2>3, Enters
<1>3. CASE Edit
  <2>1. edits' \in 0..MaxEdits /\ gen' \in 1..(edits' + 1) /\ gen' = gen + 1
    BY <1>0, <1>3 DEF Edit
  <2>2. {"config", "uninstall", "apply", "upgrade"} \subseteq StageNames
    BY DEF StageNames, StepStages
  <2>3. CASE \E v \in Versions, s \in StageNames : Enter(v, s)
    BY <2>1, <2>3, Enters
  <2>4. CASE UNCHANGED <<pos, job, proc>>
    <3>1. job' \in 0..gen'
      BY <1>0, <2>1, <2>4 DEF TypeOK
    <3>2. RunTypes'
      BY <2>1, <2>4, <3>1 DEF TypeOK, RunTypes, Positions
    <3>3. Steps' = Steps /\ Unmarked' = Unmarked
      BY <1>3, <2>4, SameMarkers DEF Steps, Edit, host
    <3>4. Control'
      BY <2>4, <3>3 DEF Control
    <3> QED
      BY <3>2, <3>4
  <2>5. pos.version < MaxVersion => pos.version + 1 \in Versions
    BY <1>0 DEF Versions
  <2>6. 1..pos.version \subseteq Versions
    BY <1>0 DEF Versions
  <2>7. \/ Enter(pos.version, "config")
        \/ pos.version < MaxVersion /\ Enter(pos.version + 1, "upgrade")
        \/ Enter(pos.version, "uninstall")
        \/ Enter(pos.version, "apply")
        \/ \E v \in 1..pos.version : Enter(v, "apply")
        \/ UNCHANGED <<pos, job, proc>>
    BY <1>3 DEF Edit
  <2> QED
    BY <1>0, <2>2, <2>3, <2>4, <2>5, <2>6, <2>7
<1> QED
  BY <1>1, <1>2, <1>3

\* Kills, reboots and a damaged ledger.
LEMMA FaultSteps ==
  ASSUME TypeOK, Control, Environment, UNCHANGED <<edits, kind>>
  PROVE  RunTypes' /\ Control'
<1>1. CASE PodFails
  BY <1>1, PodFailsFacts, Ended DEF TypeOK, Positions, SameOp
<1>2. CASE DamageHistory
  BY <1>2, Stays DEF DamageHistory, SameOp, op
<1> QED
  BY <1>1, <1>2 DEF Environment, Kill, Reboot

\* A pod starts, for a Job that has a generation.
LEMMA StartPodFacts ==
  ASSUME TypeOK, Control, StartPod
  PROVE  /\ pos.done = FALSE /\ proc = Idle /\ pos' = pos /\ gen' = gen
         /\ job' \in 1..gen /\ (job # 0 => job' = job)
         /\ proc' \in Procs /\ proc'.check = FALSE
         /\ \/ pos.stage \in InterruptStages /\ proc'.pc = "begin"
            \/ pos.stage \in StepStages /\ proc'.pc = "copy"
<1>1. job \in 0..gen /\ gen \in Nat \ {0} /\ pos \in Positions /\ edits \in Nat
  BY AgentAssumption DEF TypeOK, AgentAssumption, Positions
<1>2. job' \in 1..gen /\ (job # 0 => job' = job)
  BY <1>1 DEF StartPod
<1>3. pos.done = FALSE
  BY <1>1 DEF StartPod, Positions
<1>4. pos.stage \in StepStages \cup InterruptStages
  BY <1>1, <1>3 DEF Control, Positions, StageNames
<1>5. CASE pos.stage \in InterruptStages
  <2>1. proc' = [Idle EXCEPT !.pc = "begin"]
    BY <1>5 DEF StartPod
  <2>2. proc' \in Procs /\ proc'.check = FALSE /\ proc'.pc = "begin"
    BY <2>1, IdleFacts DEF Procs
  <2> QED
    BY <1>2, <1>3, <1>5, <2>2 DEF StartPod
<1>6. CASE pos.stage \notin InterruptStages
  <2>1. proc' = [Idle EXCEPT !.pc = "copy"]
    BY <1>6 DEF StartPod
  <2>2. proc' \in Procs /\ proc'.check = FALSE /\ proc'.pc = "copy"
    BY <2>1, IdleFacts DEF Procs
  <2> QED
    BY <1>2, <1>3, <1>4, <1>6, <2>2 DEF StartPod
<1> QED
  BY <1>5, <1>6

\* The start of a stage, or of its checks: without the package the pod fails.
LEMMA RunRequestFacts ==
  ASSUME TypeOK, runRequest
  PROVE  /\ proc.pc = "begin"
         /\ \/ proc' = Idle /\ SameOp
            \/ /\ pos.stage \in InterruptStages /\ proc' \in Procs /\ SameOp
               /\ proc'.pc = "interrupt" /\ proc'.check = proc.check
            \/ /\ pos.stage \in StepStages /\ proc' \in Procs /\ SameOp
               /\ proc'.pc = "step" /\ proc'.check = proc.check /\ proc'.i = 1
<1>0. proc \in Procs /\ proc.pc = "begin"
  BY DEF TypeOK, runRequest
<1>1. CASE PodFails
  BY <1>0, <1>1, PodFailsFacts
<1>2. CASE pos.stage \in InterruptStages /\ Goto("interrupt")
  BY <1>0, <1>2, GotoFacts
<1>3. CASE pos.stage \in StepStages /\ proc' = [proc EXCEPT !.pc = "step", !.i = 1] /\ UNCHANGED op
  <2>1. proc' \in Procs /\ proc'.pc = "step" /\ proc'.check = proc.check /\ proc'.i = 1
    BY <1>0, <1>3 DEF Procs
  <2> QED
    BY <1>0, <1>3, <2>1 DEF op, SameOp
<1> QED
  BY <1>1, <1>2, <1>3 DEF runRequest

\* A step that runs: succeeded, or the pod fails.
LEMMA RunStepFacts ==
  ASSUME TypeOK, RunStep
  PROVE  /\ proc.pc = "step" /\ proc.check = FALSE /\ proc.i <= Len(Steps) /\ SameOp
         /\ \/ /\ proc' \in Procs /\ proc'.pc = "mark" /\ proc'.check = FALSE /\ proc'.i = proc.i
               /\ succeeded' = succeeded \cup {<<pos.version, step>>}
            \/ proc' = Idle /\ succeeded' = succeeded
<1>0. proc \in Procs /\ proc.pc = "step" /\ proc.check = FALSE /\ proc.i <= Len(Steps)
  BY DEF TypeOK, RunStep, Procs
<1>1. CASE PodFails /\ UNCHANGED succeeded
  BY <1>0, <1>1, PodFailsFacts
<1>2. CASE /\ succeeded' = succeeded \cup {<<pos.version, step>>}
           /\ proc' = [proc EXCEPT !.pc = "mark", !.existed = legacyPath(step) \in flags[pos.version]]
           /\ UNCHANGED op
  <2> DEFINE had == legacyPath(step) \in flags[pos.version]
  <2>1. had \in BOOLEAN /\ proc' = [proc EXCEPT !.pc = "mark", !.existed = had]
    BY <1>2
  <2> HIDE DEF had
  <2>2. proc' \in Procs /\ proc'.pc = "mark" /\ proc'.check = proc.check /\ proc'.i = proc.i
    BY <1>0, <2>1 DEF Procs
  <2> QED
    BY <1>0, <1>2, <2>2 DEF op, SameOp
<1> QED
  BY <1>1, <1>2 DEF RunStep

\* A check that runs, and the last one.
LEMMA RunCheckFacts ==
  ASSUME TypeOK, RunCheck
  PROVE  /\ proc.pc = "step" /\ proc.check = TRUE /\ SameOp
         /\ proc' \in Procs /\ proc'.check = TRUE
         /\ \/ proc'.pc = "summarize"
            \/ proc'.pc = "step" /\ proc'.i = proc.i + 1
<1>0. proc \in Procs /\ proc.pc = "step" /\ proc.check = TRUE
  BY DEF TypeOK, RunCheck, Procs
<1>1. CASE EndOfSteps
  BY <1>0, <1>1, EndOfStepsFacts
<1>2. CASE NextStep
  BY <1>0, <1>2, NextStepFacts
<1>3. CASE proc' = [proc EXCEPT !.i = @ + 1, !.bad = TRUE] /\ UNCHANGED op
  <2> DEFINE j == proc.i + 1
  <2>1. j \in Nat /\ proc' = [proc EXCEPT !.i = j, !.bad = TRUE]
    BY <1>0, <1>3 DEF Procs
  <2> HIDE DEF j
  <2>2. proc' \in Procs /\ proc'.pc = "step" /\ proc'.check = TRUE /\ proc'.i = j
    BY <1>0, <2>1 DEF Procs
  <2> QED
    BY <1>0, <1>3, <2>2 DEF op, SameOp, j
<1> QED
  BY <1>1, <1>2, <1>3 DEF RunCheck

\* A step that is passed over, and the end of the steps.
LEMMA SkipStepFacts ==
  ASSUME TypeOK, SkipStep
  PROVE  /\ proc.pc = "step" /\ proc.check = FALSE /\ SameOp /\ proc' \in Procs
         /\ \/ proc.i > Len(Steps) /\ proc'.pc = "begin" /\ proc'.check = TRUE
            \/ /\ proc.i <= Len(Steps) /\ ~Check(step)
               /\ proc'.pc = "step" /\ proc'.check = FALSE /\ proc'.i = proc.i + 1
<1>0. proc \in Procs /\ proc.pc = "step" /\ proc.check = FALSE
  BY DEF TypeOK, SkipStep, Procs
<1>1. CASE proc.i > Len(Steps) /\ EndOfSteps
  BY <1>0, <1>1, EndOfStepsFacts
<1>2. CASE proc.i <= Len(Steps) /\ ~Check(step) /\ NextStep
  BY <1>0, <1>2, NextStepFacts
<1> QED
  BY <1>1, <1>2 DEF SkipStep

\* An invocation that goes on within the stage, at pc' = x.
LEMMA Within ==
  ASSUME TypeOK, Control, kind' = kind, edits' = edits, SameOp, proc' \in Procs,
         proc.pc # "idle", proc'.pc # "idle",
         proc'.pc \in StepPcs \/ proc'.check = TRUE => pos.stage \in StepStages,
         proc'.pc \in InterruptPcs => pos.stage \in InterruptStages,
         proc'.pc = "remove" => pos.stage = "uninstall",
         proc'.pc \in {"mark", "flag"} => proc'.check = FALSE /\ proc'.i \in 1..Len(Steps),
         proc'.pc \in {"summarize", "record", "remove"} => proc'.check = TRUE,
         proc'.pc = "step" => proc'.i # 0,
         proc'.pc = "complete" => Unmarked' # {}
  PROVE  RunTypes' /\ Control'
<1>1. Steps' = Steps
  BY DEF Steps, SameOp
<1>2. Control'
  BY <1>1 DEF Control, SameOp
<1> QED
  BY <1>2, GoesOn

\* Every operation of the agent.
LEMMA AgentSteps ==
  ASSUME TypeOK, Control, StartPod \/ Invocation, UNCHANGED <<edits, kind>>
  PROVE  RunTypes' /\ Control'
<1>0. pos \in Positions /\ proc \in Procs
  BY DEF TypeOK, Positions
<1>1. CASE PodFails
  BY <1>0, <1>1, PodFailsFacts, Ended DEF SameOp
<1>2. CASE PodSucceeds
  BY <1>0, <1>2, PodSucceedsFacts, Ended
<1>3. CASE StartPod
  <2>1. /\ pos.done = FALSE /\ proc = Idle /\ pos' = pos /\ gen' = gen
        /\ job' \in 1..gen /\ proc' \in Procs /\ proc'.check = FALSE
        /\ \/ pos.stage \in InterruptStages /\ proc'.pc = "begin"
           \/ pos.stage \in StepStages /\ proc'.pc = "copy"
    BY <1>3, StartPodFacts
  <2>2. job' \in 0..gen /\ job' # 0
    BY <2>1 DEF TypeOK
  <2>3. RunTypes'
    BY <1>0, <2>1, <2>2 DEF TypeOK, RunTypes
  <2>4. Control'
    BY <2>1, <2>2 DEF Control, StepPcs, InterruptPcs
  <2> QED
    BY <2>3, <2>4
<1>4. CASE CopyPackage
  <2>1. proc.pc = "copy" /\ Goto("begin")
    BY <1>4 DEF CopyPackage, Goto
  <2>2. proc' \in Procs /\ SameOp /\ proc'.pc = "begin" /\ proc'.check = proc.check
    BY <1>0, <2>1, GotoFacts
  <2> QED
    BY <2>1, <2>2, Within DEF Control, StepPcs, InterruptPcs
<1>5. CASE runRequest
  <2>1. CASE proc' = Idle /\ SameOp
    BY <1>0, <2>1, Ended DEF SameOp
  <2>2. proc.check = TRUE => pos.stage \in StepStages
    BY DEF Control
  <2>3. CASE /\ proc.pc = "begin" /\ proc' \in Procs /\ SameOp /\ proc'.check = proc.check
             /\ pos.stage \in InterruptStages /\ proc'.pc = "interrupt"
    BY <2>2, <2>3, Within DEF StepPcs, InterruptPcs
  <2>4. CASE /\ proc.pc = "begin" /\ proc' \in Procs /\ SameOp /\ proc'.check = proc.check
             /\ pos.stage \in StepStages /\ proc'.pc = "step" /\ proc'.i = 1
    BY <2>4, Within DEF StepPcs, InterruptPcs
  <2> QED
    BY <1>5, <2>1, <2>3, <2>4, RunRequestFacts
<1>6. CASE SkipStep
  <2>1. /\ proc.pc = "step" /\ SameOp /\ proc' \in Procs
        /\ \/ proc'.pc = "begin"
           \/ proc'.pc = "step" /\ proc'.check = FALSE /\ proc'.i = proc.i + 1
    BY <1>6, SkipStepFacts
  <2>2. pos.stage \in StepStages
    BY <2>1 DEF Control, StepPcs
  <2>3. proc.i + 1 # 0
    BY <1>0 DEF Procs
  <2> QED
    BY <2>1, <2>2, <2>3, Within DEF StepPcs, InterruptPcs
<1>7. CASE RunStep
  <2>1. CASE proc' = Idle /\ SameOp
    BY <1>0, <2>1, Ended DEF SameOp
  <2>2. CASE /\ proc.pc = "step" /\ proc.i <= Len(Steps) /\ SameOp
             /\ proc' \in Procs /\ proc'.pc = "mark" /\ proc'.check = FALSE /\ proc'.i = proc.i
    <3>1. pos.stage \in StepStages /\ proc.i # 0
      BY <2>2 DEF Control, StepPcs
    <3>2. proc.i \in 1..Len(Steps)
      BY <1>0, <2>2, <3>1, StepsType DEF Procs
    <3> QED
      BY <2>2, <3>1, <3>2, Within DEF StepPcs, InterruptPcs
  <2> QED
    BY <1>7, <2>1, <2>2, RunStepFacts
<1>8. CASE proc.pc = "mark" /\ Goto("flag")
  <2>1. proc' \in Procs /\ SameOp /\ proc'.pc = "flag" /\ proc'.check = proc.check /\ proc'.i = proc.i
    BY <1>0, <1>8, GotoFacts
  <2> QED
    BY <1>8, <2>1, Within DEF Control, StepPcs, InterruptPcs
<1>9. CASE proc.pc = "flag" /\ NextStep
  <2>1. proc' \in Procs /\ SameOp /\ proc'.pc = "step" /\ proc'.check = proc.check
        /\ proc'.i = proc.i + 1
    BY <1>0, <1>9, NextStepFacts
  <2>2. proc.i + 1 # 0
    BY <1>0 DEF Procs
  <2> QED
    BY <1>9, <2>1, <2>2, Within DEF Control, StepPcs, InterruptPcs
<1>10. CASE RunCheck
  <2>1. /\ proc.pc = "step" /\ SameOp /\ proc' \in Procs /\ proc'.check = TRUE
        /\ \/ proc'.pc = "summarize"
           \/ proc'.pc = "step" /\ proc'.i = proc.i + 1
    BY <1>10, RunCheckFacts
  <2>2. proc.i + 1 # 0 /\ pos.stage \in StepStages
    BY <1>0, <2>1 DEF Procs, Control, StepPcs
  <2> QED
    BY <2>1, <2>2, Within DEF StepPcs, InterruptPcs
<1>11. CASE proc.pc = "summarize" /\ Goto("record")
  <2>1. proc' \in Procs /\ SameOp /\ proc'.pc = "record" /\ proc'.check = proc.check
    BY <1>0, <1>11, GotoFacts
  <2> QED
    BY <1>11, <2>1, Within DEF Control, StepPcs, InterruptPcs
<1>12. CASE proc.pc = "record" /\ pos.stage = "uninstall" /\ Goto("remove")
  <2>1. proc' \in Procs /\ SameOp /\ proc'.pc = "remove" /\ proc'.check = proc.check
    BY <1>0, <1>12, GotoFacts
  <2> QED
    BY <1>12, <2>1, Within DEF Control, StepPcs, InterruptPcs
<1>13. CASE UNCHANGED <<op, proc, complete>>
  BY <1>13, Stays DEF op, SameOp
<1>14. CASE /\ proc.pc \in InterruptPcs
            /\ \E x \in InterruptPcs : Goto(x) /\ (x = "complete" => Unmarked' # {})
  <2>1. PICK x \in InterruptPcs : Goto(x) /\ (x = "complete" => Unmarked' # {})
    BY <1>14
  <2>2. proc' \in Procs /\ SameOp /\ proc'.pc = x /\ proc'.check = proc.check
    BY <1>0, <2>1, GotoFacts DEF InterruptPcs
  <2>3. pos.stage \in InterruptStages /\ (proc.check = TRUE => pos.stage \in StepStages)
    BY <1>14 DEF Control
  <2> QED
    BY <1>14, <2>1, <2>2, <2>3, Within DEF StepPcs, InterruptPcs
<1>15. CASE MarkLegacy
  BY <1>1, <1>8, <1>15 DEF MarkLegacy
<1>16. CASE MarkFlag
  BY <1>1, <1>9, <1>16 DEF MarkFlag
<1>17. CASE summarizeChecks
  BY <1>1, <1>11, <1>17 DEF summarizeChecks
<1>18. CASE Record
  BY <1>2, <1>12, <1>18 DEF Record
<1>19. CASE RemoveFlag
  BY <1>2, <1>13, <1>19 DEF RemoveFlag
<1>20. CASE SkipInterrupt
  BY <1>2, <1>20 DEF SkipInterrupt
<1>21. CASE prepareNodeRestartMarker
  BY <1>1, <1>14, <1>21 DEF prepareNodeRestartMarker, InterruptPcs
<1>22. CASE NodeRestart
  BY <1>1, <1>2, <1>22 DEF NodeRestart
<1>23. CASE RunPending
  <2>1. CASE Goto("complete")
    <3>1. Unmarked' # {}
      BY <1>0, <1>23, <2>1, GotoFacts, SameMarkers DEF RunPending, SameOp, host
    <3> QED
      BY <1>14, <1>23, <2>1, <3>1 DEF RunPending, InterruptPcs
  <2> QED
    BY <1>1, <1>23, <2>1 DEF RunPending
<1>24. CASE markInterruptComplete
  BY <1>1, <1>14, <1>24 DEF markInterruptComplete, InterruptPcs
<1> QED
  BY <1>3, <1>4, <1>5, <1>6, <1>7, <1>10, <1>15, <1>16, <1>17, <1>18, <1>19, <1>20, <1>21, <1>22,
     <1>23, <1>24 DEF Invocation

\* The files on the host.
LEMMA HostSteps ==
  ASSUME TypeOK, Control, [Next]_vars
  PROVE  HostTypes'
<1>0. HostTypes /\ RunTypes
  BY TypeParts
<1>1. pos.version \in Versions /\ pos.stage \in StageNames
  BY <1>0 DEF RunTypes, Positions
<1>2. CASE UNCHANGED <<host, began>>
  BY <1>0, <1>2 DEF HostTypes, host
<1>3. proc.pc # "idle" => rid \in RIDs
  <2>1. edits \in 0..MaxEdits /\ gen \in 1..(edits + 1) /\ job \in 0..gen /\ MaxEdits \in Nat
    BY <1>0, AgentAssumption DEF RunTypes, AgentAssumption
  <2>2. job # 0 => job \in 1..(MaxEdits + 1)
    BY <2>1
  <2> QED
    BY <1>1, <2>2 DEF Control, rid, ResourceID, RIDs
<1>4. CASE CopyPackage
  BY <1>0, <1>4 DEF CopyPackage, HostTypes, ghost
<1>5. CASE runRequest
  <2>1. Load(history) \in Ledgers
    BY <1>0 DEF HostTypes, Load, Ledgers
  <2>2. history' \in Ledgers /\ checked' \subseteq Versions \X StepStages
    BY <1>0, <1>5, <2>1 DEF runRequest, HostTypes, host
  <2> QED
    BY <1>0, <1>5, <2>2 DEF runRequest, HostTypes, host, ghost
<1>6. CASE MarkLegacy \/ MarkFlag
  <2>1. proc.pc \in {"mark", "flag"}
    BY <1>6 DEF MarkLegacy, MarkFlag
  <2>2. pos.stage \in StepStages /\ proc.i \in 1..Len(Steps)
    BY <2>1 DEF Control, StepPcs
  <2>3. step \in StepSet
    BY <2>2, StepsType DEF step
  <2>4. Path(step) \in FlagNames /\ legacyPath(step) \in FlagNames
    BY <2>3 DEF FlagNames
  <2>5. flags' \in [Versions -> SUBSET FlagNames]
    BY <1>0, <1>6, <2>4 DEF HostTypes, MarkLegacy, MarkFlag
  <2> QED
    BY <1>0, <1>6, <2>5 DEF HostTypes, MarkLegacy, MarkFlag, ghost
<1>7. CASE summarizeChecks
  <2>1. pos.stage \in StepStages
    BY <1>7 DEF summarizeChecks, Control, StepPcs
  <2>2. checked' \subseteq Versions \X StepStages
    BY <1>0, <1>1, <1>7, <2>1 DEF summarizeChecks, HostTypes
  <2> QED
    BY <1>0, <1>7, <2>2 DEF summarizeChecks, HostTypes, ghost
<1>8. CASE Record
  <2>1. history' \in Ledgers
    BY <1>0, <1>1, <1>8 DEF Record, HostTypes, Ledgers
  <2> QED
    BY <1>0, <1>8, <2>1 DEF Record, HostTypes, ghost
<1>9. CASE RemoveFlag
  <2>1. flags' \in [Versions -> SUBSET FlagNames]
    BY <1>0, <1>9 DEF RemoveFlag, HostTypes
  <2> QED
    BY <1>0, <1>9, <2>1 DEF RemoveFlag, HostTypes
<1>10. CASE SkipInterrupt
  <2>1. rid \in RIDs /\ Operations \in Nat
    BY <1>3, <1>10, AgentAssumption DEF SkipInterrupt, AgentAssumption
  <2>2. <<rid, 1>> \in RIDs \X (1..(Operations + 1))
    BY <2>1
  <2>3. complete' \subseteq RIDs \X (1..(Operations + 1))
    BY <1>0, <1>10, <2>2 DEF SkipInterrupt, HostTypes
  <2>4. NoBoot \in 0..boot
    BY <1>0 DEF HostTypes, NoBoot
  <2>5. pending' \in [RIDs -> 0..boot]
    BY <1>0, <1>10, <2>4 DEF SkipInterrupt, HostTypes
  <2> QED
    BY <1>0, <1>10, <2>3, <2>5 DEF SkipInterrupt, HostTypes, ghost
<1>11. CASE prepareNodeRestartMarker
  <2>1. boot \in Nat /\ boot # 0 /\ boot # 1
    BY <1>0 DEF HostTypes, NoBoot, Malformed
  <2>2. NoBoot \in 0..boot /\ Malformed \in 0..boot /\ boot \in 0..boot
    BY <2>1 DEF NoBoot, Malformed
  <2>3. pending' \in [RIDs -> 0..boot]
    BY <1>0, <1>11, <2>2 DEF prepareNodeRestartMarker, HostTypes
  <2>4. began' \in [RIDs -> 0..boot]
    BY <1>0, <1>11, <2>2 DEF prepareNodeRestartMarker, HostTypes
  <2> QED
    BY <1>0, <1>11, <2>3, <2>4 DEF prepareNodeRestartMarker, HostTypes
<1>12. CASE NodeRestart
  BY <1>0, <1>12 DEF NodeRestart, HostTypes, ghost
<1>13. CASE markInterruptComplete
  <2>1. FirstPending \in 1..(Operations + 1)
    BY <1>13, FirstPendingType DEF Control, markInterruptComplete
  <2>2. CASE complete' = complete \cup {<<rid, FirstPending>>}
    BY <1>0, <1>3, <1>13, <2>1, <2>2 DEF markInterruptComplete, HostTypes, ghost
  <2>3. CASE complete' = complete
    BY <1>0, <1>13, <2>3 DEF markInterruptComplete, HostTypes, ghost
  <2> QED
    BY <1>13, <2>2, <2>3 DEF markInterruptComplete
<1>14. CASE Reboot
  <2>1. boot \in Nat /\ boot # 0 /\ boot # 1
    BY <1>0 DEF HostTypes, NoBoot, Malformed
  <2>2. boot' = boot + 1 /\ boot' \in Nat \ {NoBoot, Malformed}
    BY <1>14, <2>1 DEF Reboot, NoBoot, Malformed
  <2>3. 0..boot \subseteq 0..boot'
    BY <2>1, <2>2
  <2>4. pending' \in [RIDs -> 0..boot'] /\ began' \in [RIDs -> 0..boot']
    BY <1>0, <1>14, <2>3 DEF Reboot, HostTypes, ghost
  <2> QED
    BY <1>0, <1>14, <2>2, <2>4 DEF Reboot, HostTypes, ghost
<1>15. CASE DamageHistory
  BY <1>0, <1>15 DEF DamageHistory, HostTypes, Ledgers, ghost
<1>16. CASE Advance \/ Edit \/ Rerun \/ StartPod \/ SkipStep \/ RunStep \/ RunCheck \/ RunPending \/ Kill
  BY <1>2, <1>16 DEF Advance, Edit, Rerun, StartPod, SkipStep, RunStep, RunCheck, RunPending, Kill, ghost
<1>17. CASE UNCHANGED vars
  BY <1>2, <1>17 DEF vars, ghost
<1> QED
  BY <1>4, <1>5, <1>6, <1>7, <1>8, <1>9, <1>10, <1>11, <1>12, <1>13, <1>14, <1>15, <1>16, <1>17
     DEF Next, Invocation, Environment

\* The types and the control at the start, and after every step.
AgentInv == TypeOK /\ Control

LEMMA AgentInit == Init => AgentInv
<1> SUFFICES ASSUME Init
             PROVE  AgentInv
  OBVIOUS
<1>0. MaxVersion \in Nat \ {0} /\ MaxEdits \in Nat /\ Operations \in Nat
  BY AgentAssumption DEF AgentAssumption
<1>1. 1 \in Versions
  BY <1>0 DEF Versions
<1>2. RunTypes
  <2>1. pos \in Positions
    BY <1>1 DEF Init, Positions, StageNames, StepStages
  <2>2. edits \in 0..MaxEdits /\ gen \in 1..(edits + 1) /\ job \in 0..gen
    BY <1>0 DEF Init
  <2> QED
    BY <2>1, <2>2, IdleFacts DEF Init, RunTypes
<1>3. HostTypes
  <2>1. boot \in Nat \ {NoBoot, Malformed} /\ NoBoot \in 0..boot
    BY DEF Init, FirstBoot, NoBoot, Malformed
  <2>2. pending \in [RIDs -> 0..boot] /\ began \in [RIDs -> 0..boot]
    BY <2>1 DEF Init
  <2>3. history \in Ledgers /\ flags \in [Versions -> SUBSET FlagNames]
    BY DEF Init, Ledgers
  <2> QED
    BY <2>1, <2>2, <2>3 DEF Init, HostTypes
<1>4. Control
  BY IdleFacts DEF Init, Control, StepPcs, InterruptPcs
<1> QED
  BY <1>2, <1>3, <1>4, TypeParts DEF AgentInv

LEMMA AgentStep == AgentInv /\ [Next]_vars => AgentInv'
<1> SUFFICES ASSUME TypeOK, Control, [Next]_vars
             PROVE  TypeOK' /\ Control'
  BY DEF AgentInv
<1>1. HostTypes'
  BY HostSteps
<1>2. RunTypes' /\ Control'
  <2>1. CASE UNCHANGED vars
    BY <2>1, Stays DEF vars, op, host, SameOp
  <2>2. CASE Next
    <3>1. (Advance /\ UNCHANGED edits) \/ Edit \/ Rerun => RunTypes' /\ Control'
      BY <2>2, OpSteps DEF Next
    <3>2. (StartPod \/ Invocation) /\ UNCHANGED edits => RunTypes' /\ Control'
      BY <2>2, AgentSteps DEF Next
    <3>3. Environment /\ UNCHANGED edits => RunTypes' /\ Control'
      BY <2>2, FaultSteps DEF Next
    <3> QED
      BY <2>2, <3>1, <3>2, <3>3 DEF Next, Advance
  <2> QED
    BY <2>1, <2>2
<1> QED
  BY <1>1, <1>2 DEF TypeOK, RunTypes, HostTypes, Positions

\* Every variable has its type in every state; the boots of a host are not bounded.
THEOREM AgentTyped == Spec => []TypeOK
<1>1. Spec => []AgentInv
  BY AgentInit, AgentStep, PTL DEF Spec
<1>2. AgentInv => TypeOK
  BY DEF AgentInv
<1> QED
  BY <1>1, <1>2, PTL

-----------------------------------------------------------------------------
(***************************************************************************)
(* An uninstall forgets.                                                   *)
(***************************************************************************)
\* While the flags are removed the ledger already says so.
ForgetInv == UninstallForgets /\ (proc.pc = "remove" => history = <<"uninstalled">>)

Uninstalled == pos.stage \in {"uninstall-interrupt", "absent"} \/ (pos.stage = "uninstall" /\ pos.done)

\* Flags and ledger stay, and no stage is entered or ended that needs them gone.
LEMMA ForgetFrame ==
  ASSUME ForgetInv, flags' = flags, history' = history, pos'.version = pos.version,
         Uninstalled' => Uninstalled, proc'.pc = "remove" => proc.pc = "remove"
  PROVE  ForgetInv'
  BY DEF ForgetInv, UninstallForgets, Uninstalled

\* Not at such a stage, and not removing flags.
LEMMA ForgetElsewhere ==
  ASSUME ~Uninstalled', proc'.pc # "remove"
  PROVE  ForgetInv'
  BY DEF ForgetInv, UninstallForgets, Uninstalled

LEMMA ForgetStep == AgentInv /\ ForgetInv /\ [Next]_vars => ForgetInv'
<1> SUFFICES ASSUME AgentInv, ForgetInv, [Next]_vars
             PROVE  ForgetInv'
  OBVIOUS
<1>0. TypeOK /\ Control /\ pos \in Positions /\ proc \in Procs /\ Idle.pc = "idle"
  BY IdleFacts DEF AgentInv, TypeOK, Positions
<1>1. proc.pc \in StepPcs => ~Uninstalled /\ pos.stage \in StepStages
  BY <1>0 DEF Control, Uninstalled, StepStages, StepPcs
<1>2. CASE PodFails /\ flags' = flags /\ history' = history
  BY <1>0, <1>2, PodFailsFacts, ForgetFrame DEF SameOp, Uninstalled
<1>3. CASE proc.pc \in StepPcs /\ SameOp /\ proc'.pc # "remove"
  BY <1>1, <1>3, ForgetElsewhere DEF SameOp, Uninstalled
<1>4. CASE proc.pc \in InterruptPcs /\ flags' = flags /\ history' = history /\ PodSucceeds
  <2>1. pos.stage \in InterruptStages
    BY <1>0, <1>4 DEF Control
  <2>2. /\ proc'.pc = "idle" /\ pos'.version = pos.version /\ pos'.stage = pos.stage
    BY <1>0, <1>4, PodSucceedsFacts
  <2> QED
    BY <1>4, <2>1, <2>2, ForgetFrame DEF Uninstalled, InterruptStages
<1>5. CASE proc.pc \in InterruptPcs /\ flags' = flags /\ history' = history
           /\ \E x \in InterruptPcs : Goto(x)
  <2>1. SameOp /\ proc'.pc \in InterruptPcs
    BY <1>0, <1>5, GotoFacts DEF InterruptPcs
  <2> QED
    BY <1>5, <2>1, ForgetFrame DEF Uninstalled, SameOp, InterruptPcs
<1>6. CASE Advance
  <2>1. /\ flags' = flags /\ history' = history /\ pos.done /\ NextStage(pos.stage) # "end"
        /\ Enter(pos.version, NextStage(pos.stage))
    BY <1>6 DEF Advance, host
  <2>2. NextStage(pos.stage) \in StageNames /\ pos.version \in Versions
    BY <1>0, <2>1, NextStageType DEF Positions
  <2>3. /\ proc'.pc = "idle" /\ pos'.version = pos.version /\ pos'.stage = NextStage(pos.stage)
        /\ pos'.done = (pos'.stage = "absent")
    BY <1>0, <2>1, <2>2, EnterFacts
  <2>4. Uninstalled' => NextStage(pos.stage) \in {"uninstall-interrupt", "absent"}
    BY <2>3 DEF Uninstalled
  <2>5. NextStage(pos.stage) \in {"uninstall-interrupt", "absent"} => Uninstalled
    BY <1>0, <2>1 DEF NextStage, Uninstalled, Positions, StageNames, StepStages, InterruptStages
  <2> QED
    BY <2>1, <2>3, <2>4, <2>5, ForgetFrame
<1>7. ASSUME NEW v \in Versions, NEW st \in {"apply", "config", "interrupt", "post-interrupt", "upgrade",
                                            "uninstall"}, Enter(v, st)
      PROVE  ForgetInv'
  <2>1. st \in StageNames
    BY DEF StageNames, StepStages, InterruptStages
  <2>2. proc'.pc = "idle" /\ pos'.stage = st /\ pos'.done = (st = "absent")
    BY <1>0, <1>7, <2>1, EnterFacts
  <2> QED
    BY <2>2, ForgetElsewhere DEF Uninstalled
<1>8. CASE Edit
  <2>1. CASE UNCHANGED <<pos, job, proc>>
    BY <1>8, <2>1, ForgetFrame DEF Edit, host, Uninstalled
  <2>2. pos.version \in Versions /\ MaxVersion \in Nat
    BY <1>0, AgentAssumption DEF Positions, AgentAssumption
  <2>3. (pos.version < MaxVersion => pos.version + 1 \in Versions) /\ 1..pos.version \subseteq Versions
    BY <2>2 DEF Versions
  <2>4. \/ Enter(pos.version, "config")
        \/ pos.version < MaxVersion /\ Enter(pos.version + 1, "upgrade")
        \/ Enter(pos.version, "uninstall")
        \/ Enter(pos.version, "apply")
        \/ \E v \in 1..pos.version : Enter(v, "apply")
        \/ UNCHANGED <<pos, job, proc>>
    BY <1>8 DEF Edit
  <2> QED
    BY <1>7, <2>1, <2>2, <2>3, <2>4
<1>9. CASE Rerun
  <2>1. pos.version \in Versions
    BY <1>0 DEF Positions
  <2> QED
    BY <1>7, <1>9, <2>1 DEF Rerun
<1>10. CASE StartPod
  <2>1. pos' = pos /\ proc'.pc \in {"begin", "copy"}
    BY <1>0, <1>10, StartPodFacts
  <2> QED
    BY <1>10, <2>1, ForgetFrame DEF StartPod, host, Uninstalled
<1>11. CASE CopyPackage
  <2>1. proc.pc = "copy" /\ Goto("begin")
    BY <1>11 DEF CopyPackage, Goto
  <2> QED
    BY <1>0, <1>3, <2>1, GotoFacts DEF StepPcs
<1>12. CASE runRequest
  <2>1. CASE pos.stage \in StepStages /\ SameOp /\ proc'.pc = "step"
    <3>1. pos.done = FALSE
      BY <1>0, <1>12 DEF Control, runRequest
    <3> QED
      BY <2>1, <3>1, ForgetElsewhere DEF Uninstalled, SameOp, StepStages
  <2>2. CASE SameOp /\ proc'.pc # "remove" /\ UNCHANGED host
    BY <2>2, ForgetFrame DEF SameOp, host, Uninstalled
  <2>3. CASE UNCHANGED host
    <3>1. SameOp /\ proc'.pc # "remove"
      BY <1>0, <1>12, RunRequestFacts
    <3> QED
      BY <2>2, <2>3, <3>1
  <2>4. CASE proc' = [proc EXCEPT !.pc = "step", !.i = 1] /\ UNCHANGED op /\ pos.stage \in StepStages
    <3>1. proc'.pc = "step" /\ SameOp
      BY <1>0, <2>4 DEF Procs, op, SameOp
    <3> QED
      BY <2>1, <2>4, <3>1
  <2> QED
    BY <1>12, <2>3, <2>4 DEF runRequest
<1>13. CASE SkipStep \/ RunStep \/ RunCheck
  <2>1. proc.pc = "step" /\ SameOp /\ proc'.pc # "remove"
    BY <1>0, <1>13, SkipStepFacts, RunStepFacts, RunCheckFacts
  <2> QED
    BY <1>3, <2>1 DEF StepPcs
<1>14. CASE MarkLegacy \/ MarkFlag \/ summarizeChecks
  <2>1. proc.pc \in StepPcs
    BY <1>14 DEF MarkLegacy, MarkFlag, summarizeChecks, StepPcs
  <2>2. PodFails \/ Goto("flag") \/ NextStep \/ Goto("record")
    BY <1>14 DEF MarkLegacy, MarkFlag, summarizeChecks
  <2>3. SameOp /\ proc'.pc # "remove"
    BY <1>0, <2>2, PodFailsFacts, GotoFacts, NextStepFacts
  <2> QED
    BY <1>3, <2>1, <2>3
<1>15. CASE Record
  <2>1. proc.pc = "record" /\ pos.stage \in StepStages /\ ~Uninstalled
    BY <1>1, <1>15 DEF Record, StepPcs
  <2>2. CASE pos.stage = "uninstall"
    <3>1. SameOp /\ proc'.pc = "remove" /\ history' = <<"uninstalled">>
      BY <1>0, <1>15, <2>2, GotoFacts DEF Record
    <3> QED
      BY <2>1, <3>1 DEF ForgetInv, UninstallForgets, Uninstalled, SameOp
  <2>3. CASE pos.stage # "uninstall"
    <3>1. proc'.pc = "idle" /\ pos'.stage = pos.stage
      BY <1>0, <1>15, <2>3, PodSucceedsFacts DEF Record
    <3> QED
      BY <2>1, <2>3, <3>1, ForgetElsewhere DEF Uninstalled, StepStages
  <2> QED
    BY <2>2, <2>3
<1>16. CASE RemoveFlag
  <2>1. pos.stage = "uninstall" /\ history = <<"uninstalled">> /\ history' = history /\ ~Uninstalled
    BY <1>0, <1>1, <1>16 DEF RemoveFlag, Control, ForgetInv, StepPcs
  <2>2. CASE flags[pos.version] = {}
    <3>1. PodSucceeds /\ flags' = flags
      BY <1>16, <2>2 DEF RemoveFlag
    <3>2. proc'.pc = "idle" /\ pos'.version = pos.version
      BY <1>0, <3>1, PodSucceedsFacts
    <3> QED
      BY <2>1, <2>2, <3>1, <3>2 DEF ForgetInv, UninstallForgets
  <2>3. CASE flags[pos.version] # {}
    <3>1. UNCHANGED <<op, proc>>
      BY <1>16, <2>3 DEF RemoveFlag
    <3> QED
      BY <2>1, <3>1 DEF ForgetInv, UninstallForgets, Uninstalled, op
  <2> QED
    BY <2>2, <2>3
<1>17. CASE SkipInterrupt \/ prepareNodeRestartMarker \/ NodeRestart \/ RunPending \/ markInterruptComplete
  <2>1. proc.pc \in InterruptPcs /\ flags' = flags /\ history' = history
    BY <1>17 DEF SkipInterrupt, prepareNodeRestartMarker, NodeRestart, RunPending, markInterruptComplete,
                 InterruptPcs, host
  <2>2. PodFails \/ PodSucceeds \/ \E x \in InterruptPcs : Goto(x)
    BY <1>17 DEF SkipInterrupt, prepareNodeRestartMarker, NodeRestart, RunPending, markInterruptComplete,
                 InterruptPcs
  <2> QED
    BY <1>2, <1>4, <1>5, <2>1, <2>2
<1>18. CASE Kill \/ Reboot
  BY <1>2, <1>18 DEF Kill, Reboot, host
<1>19. CASE DamageHistory
  <2>1. history # <<"uninstalled">> /\ pos' = pos /\ proc' = proc
    BY <1>19 DEF DamageHistory, op
  <2> QED
    BY <2>1 DEF ForgetInv, UninstallForgets
<1>20. CASE UNCHANGED vars
  BY <1>20, ForgetFrame DEF vars, op, host, Uninstalled
<1> QED
  BY <1>6, <1>8, <1>9, <1>10, <1>11, <1>12, <1>13, <1>14, <1>15, <1>16, <1>17, <1>18, <1>19, <1>20
     DEF Next, Invocation, Environment

\* Once an uninstall is reported as done no flag of the version is left and the ledger
\* says so, wherever earlier attempts were killed (history.Record, removeStepFlags).
THEOREM UninstallLeavesNothing == Spec => []UninstallForgets
<1>1. Init => ForgetInv
  BY IdleFacts DEF Init, ForgetInv, UninstallForgets
<1>2. Spec => [](AgentInv /\ ForgetInv)
  BY AgentInit, AgentStep, <1>1, ForgetStep, PTL DEF Spec
<1>3. ForgetInv => UninstallForgets
  BY DEF ForgetInv
<1> QED
  BY <1>2, <1>3, PTL

-----------------------------------------------------------------------------
(***************************************************************************)
(* A stage that is done has run.                                           *)
(***************************************************************************)
\* A step has succeeded, or one that stands for it; all of the stage have.
Ran(i) == \E e \in succeeded : e[1] = pos.version /\ StandsFor(e[2], Steps[i])
AllRan == \A i \in 1..Len(Steps) : Ran(i)

\* A flag of a version is the flag of a step that succeeded there.
FlagsTrue == \A v \in Versions : \A f \in flags[v] : \E e \in succeeded : e[1] = v /\ e[2].id = f[2]

\* The steps before the one the agent is at have run; with the checks, all.
Progress ==
  /\ proc.pc \in {"mark", "flag"} => <<pos.version, step>> \in succeeded
  /\ proc.pc \in {"step", "mark", "flag"} /\ proc.check = FALSE /\ pos.stage # "uninstall" =>
       \A j \in 1..Len(Steps) : j < proc.i => Ran(j)
  /\ proc.check = TRUE /\ pos.stage # "uninstall" => AllRan

RanInv ==
  /\ FlagsTrue /\ Progress
  /\ pos.done = TRUE /\ pos.stage \in StepStages \ {"uninstall"} => AllRan

\* What has succeeded stays so until the version is uninstalled.
LEMMA RanStays ==
  ASSUME pos'.version = pos.version, pos'.stage = pos.stage, succeeded \subseteq succeeded'
  PROVE  Steps' = Steps /\ (\A j : Ran(j) => Ran(j)') /\ (AllRan => AllRan')
<1>1. Steps' = Steps
  BY DEF Steps
<1>2. \A t, u : StandsFor(t, u)' <=> StandsFor(t, u)
  BY DEF StandsFor
<1>3. ASSUME NEW j, Ran(j)
      PROVE  Ran(j)'
  <2>1. PICK e \in succeeded : e[1] = pos.version /\ StandsFor(e[2], Steps[j])
    BY <1>3 DEF Ran
  <2>2. e \in succeeded' /\ e[1] = pos'.version /\ StandsFor(e[2], Steps[j])'
    BY <1>1, <1>2, <2>1
  <2> QED
    BY <1>1, <2>2 DEF Ran
<1>4. AllRan => AllRan'
  BY <1>1, <1>3 DEF AllRan
<1> QED
  BY <1>1, <1>3, <1>4

\* The flags stay true when only some are removed and more steps have succeeded.
LEMMA FlagsStay ==
  ASSUME FlagsTrue, succeeded \subseteq succeeded', \A v \in Versions : flags'[v] \subseteq flags[v]
  PROVE  FlagsTrue'
  BY DEF FlagsTrue

\* The invocation is over and the stage is not done, or was.
LEMMA RanEnded ==
  ASSUME RanInv, pos' = pos, proc' = Idle, succeeded \subseteq succeeded', FlagsTrue'
  PROVE  RanInv'
<1>1. AllRan => AllRan'
  BY RanStays
<1> QED
  BY <1>1, IdleFacts DEF RanInv, Progress

\* The invocation goes on.
LEMMA RanGoesOn ==
  ASSUME RanInv, pos' = pos, succeeded \subseteq succeeded', FlagsTrue', Progress'
  PROVE  RanInv'
  BY RanStays DEF RanInv

LEMMA RanStep == AgentInv /\ RanInv /\ [Next]_vars => RanInv'
<1> SUFFICES ASSUME AgentInv, RanInv, [Next]_vars
             PROVE  RanInv'
  OBVIOUS
<1>0. TypeOK /\ Control /\ pos \in Positions /\ proc \in Procs
  BY DEF AgentInv, TypeOK, Positions
<1>1. succeeded' = succeeded /\ flags' = flags => FlagsTrue'
  BY DEF RanInv, FlagsTrue
<1>2. CASE PodFails /\ succeeded' = succeeded /\ flags' = flags
  BY <1>1, <1>2, PodFailsFacts, RanEnded DEF SameOp
<1>3. ASSUME NEW v \in Versions, NEW st \in StageNames, Enter(v, st), succeeded' = succeeded, flags' = flags
      PROVE  RanInv'
  <2>1. proc' = Idle /\ pos'.stage = st /\ pos'.done = (st = "absent")
    BY <1>3, EnterFacts
  <2>2. Progress'
    BY <2>1, IdleFacts DEF Progress
  <2> QED
    BY <1>1, <1>3, <2>1, <2>2 DEF RanInv, StepStages
<1>4. CASE Advance
  <2>1. NextStage(pos.stage) \in StageNames /\ pos.version \in Versions
    BY <1>0, <1>4, NextStageType DEF Positions, Advance
  <2> QED
    BY <1>3, <1>4, <2>1 DEF Advance, host, ghost
<1>5. CASE pos' = pos /\ proc' = proc /\ succeeded \subseteq succeeded' /\ FlagsTrue'
  <2>1. Progress'
    BY <1>5, RanStays DEF RanInv, Progress, step
  <2> QED
    BY <1>5, <2>1, RanGoesOn
<1>6. CASE Edit
  <2>0. succeeded' = succeeded /\ flags' = flags
    BY <1>6 DEF Edit, host, ghost
  <2>1. pos.version \in Versions /\ MaxVersion \in Nat
    BY <1>0, AgentAssumption DEF Positions, AgentAssumption
  <2>2. (pos.version < MaxVersion => pos.version + 1 \in Versions) /\ 1..pos.version \subseteq Versions
    BY <2>1 DEF Versions
  <2>3. {"config", "uninstall", "apply", "upgrade"} \subseteq StageNames
    BY DEF StageNames, StepStages
  <2>4. \/ Enter(pos.version, "config")
        \/ pos.version < MaxVersion /\ Enter(pos.version + 1, "upgrade")
        \/ Enter(pos.version, "uninstall")
        \/ Enter(pos.version, "apply")
        \/ \E v \in 1..pos.version : Enter(v, "apply")
        \/ UNCHANGED <<pos, job, proc>>
    BY <1>6 DEF Edit
  <2>5. CASE UNCHANGED <<pos, job, proc>>
    BY <1>1, <1>5, <2>0, <2>5
  <2> QED
    BY <1>3, <2>0, <2>1, <2>2, <2>3, <2>4, <2>5
<1>7. CASE Rerun
  <2>1. pos.version \in Versions /\ {"apply", "config", "interrupt", "post-interrupt"} \subseteq StageNames
    BY <1>0 DEF Positions, StageNames, StepStages, InterruptStages
  <2> QED
    BY <1>3, <1>7, <2>1 DEF Rerun, host, ghost
<1>8. CASE StartPod
  <2>1. pos' = pos /\ proc'.pc \in {"begin", "copy"} /\ proc'.check = FALSE
    BY <1>0, <1>8, StartPodFacts
  <2>2. succeeded' = succeeded /\ flags' = flags
    BY <1>8 DEF StartPod, host, ghost
  <2>3. Progress'
    BY <2>1 DEF Progress
  <2> QED
    BY <1>1, <2>1, <2>2, <2>3, RanGoesOn
<1>9. CASE CopyPackage
  <2>1. proc.pc = "copy" /\ Goto("begin") /\ succeeded' = succeeded /\ flags' = flags
    BY <1>9 DEF CopyPackage, Goto, ghost
  <2>2. SameOp /\ proc'.pc = "begin" /\ proc'.check = proc.check
    BY <1>0, <2>1, GotoFacts
  <2>3. Progress'
    BY <2>1, <2>2, RanStays DEF Progress, RanInv, SameOp
  <2> QED
    BY <1>1, <2>1, <2>2, <2>3, RanGoesOn DEF SameOp
<1>10. CASE runRequest
  <2>1. succeeded' = succeeded /\ flags' = flags
    BY <1>10 DEF runRequest, host, ghost
  <2>2. CASE proc' = Idle /\ SameOp
    BY <1>1, <2>1, <2>2, RanEnded DEF SameOp
  <2>3. CASE /\ SameOp /\ proc'.check = proc.check
             /\ \/ proc'.pc = "interrupt"
                \/ proc'.pc = "step" /\ proc'.i = 1
    <3>1. AllRan => AllRan'
      BY <2>1, <2>3, RanStays DEF SameOp
    <3>2. proc'.pc = "step" => \A j \in 1..Len(Steps') : ~(j < proc'.i)
      <4>1. SUFFICES ASSUME proc'.pc = "step", NEW j \in 1..Len(Steps'), j < 1
                     PROVE  FALSE
        BY <2>3
      <4> QED
        BY <4>1
    <3>3. Progress'
      BY <2>3, <3>1, <3>2 DEF Progress, RanInv, SameOp
    <3> QED
      BY <1>1, <2>1, <2>3, <3>3, RanGoesOn DEF SameOp
  <2> QED
    BY <1>0, <1>10, <2>2, <2>3, RunRequestFacts
<1>11. CASE SkipStep
  <2>0. succeeded' = succeeded /\ flags' = flags
    BY <1>11 DEF SkipStep, host, ghost
  <2>1. proc.pc = "step" /\ proc.check = FALSE /\ SameOp
    BY <1>0, <1>11, SkipStepFacts
  <2>2. pos.stage \in StepStages /\ proc.i \in Nat \ {0}
    BY <1>0, <2>1 DEF Control, StepPcs, Procs
  <2>3. Len(Steps) \in Nat
    BY <1>0, <2>2, StepsType
  <2>4. pos.stage # "uninstall" => \A j \in 1..Len(Steps) : j < proc.i => Ran(j)
    BY <2>1 DEF RanInv, Progress
  <2>5. Steps' = Steps /\ (\A j : Ran(j) => Ran(j)') /\ (AllRan => AllRan')
    BY <2>0, <2>1, RanStays DEF SameOp
  <2>6. CASE proc.i > Len(Steps) /\ proc'.pc = "begin" /\ proc'.check = TRUE
    <3>1. pos.stage # "uninstall" => AllRan
      <4> SUFFICES ASSUME pos.stage # "uninstall", NEW j \in 1..Len(Steps)
                   PROVE  Ran(j)
        BY DEF AllRan
      <4>1. j < proc.i
        BY <2>2, <2>3, <2>6
      <4> QED
        BY <2>4, <4>1
    <3>2. Progress'
      BY <2>1, <2>5, <2>6, <3>1 DEF Progress, SameOp
    <3> QED
      BY <1>1, <2>0, <2>1, <3>2, RanGoesOn DEF SameOp
  <2>7. CASE /\ proc.i <= Len(Steps) /\ ~Check(step)
             /\ proc'.pc = "step" /\ proc'.check = FALSE /\ proc'.i = proc.i + 1
    <3>1. Ran(proc.i)
      <4>1. flags[pos.version] \cap {Path(step), legacyPath(step)} # {} /\ ~step.always
            /\ pos.stage \notin {"config", "uninstall", "upgrade"}
        BY <2>7 DEF Check
      <4>2. PICK f \in flags[pos.version] : f \in {Path(step), legacyPath(step)}
        BY <4>1
      <4>3. f[2] = step.id
        BY <4>2 DEF Path, legacyPath
      <4>4. pos.version \in Versions /\ pos.stage \in {"apply", "post-interrupt"}
        BY <1>0, <2>2, <4>1 DEF Positions, StepStages
      <4>5. PICK e \in succeeded : e[1] = pos.version /\ e[2].id = f[2]
        BY <4>2, <4>4 DEF RanInv, FlagsTrue
      <4>6. StandsFor(e[2], step)
        BY <4>1, <4>3, <4>4, <4>5 DEF StandsFor
      <4> QED
        BY <4>5, <4>6 DEF Ran, step
    <3>2. pos.stage # "uninstall" => \A j \in 1..Len(Steps) : j < proc.i + 1 => Ran(j)
      <4> SUFFICES ASSUME pos.stage # "uninstall", NEW j \in 1..Len(Steps), j < proc.i + 1
                   PROVE  Ran(j)
        OBVIOUS
      <4>1. j < proc.i \/ j = proc.i
        BY <2>2
      <4> QED
        BY <2>4, <3>1, <4>1
    <3>3. Progress'
      BY <2>1, <2>5, <2>7, <3>2 DEF Progress, SameOp
    <3> QED
      BY <1>1, <2>0, <2>1, <3>3, RanGoesOn DEF SameOp
  <2> QED
    BY <1>0, <1>11, <2>6, <2>7, SkipStepFacts
<1>12. CASE RunStep
  <2>0. flags' = flags
    BY <1>12 DEF RunStep, host
  <2>1. CASE proc' = Idle /\ succeeded' = succeeded /\ SameOp
    BY <1>1, <2>0, <2>1, RanEnded DEF SameOp
  <2>2. CASE /\ proc.pc = "step" /\ proc.check = FALSE /\ SameOp
             /\ proc'.pc = "mark" /\ proc'.check = FALSE /\ proc'.i = proc.i
             /\ succeeded' = succeeded \cup {<<pos.version, step>>}
    <3>1. Steps' = Steps /\ (\A j : Ran(j) => Ran(j)')
      BY <2>2, RanStays DEF SameOp
    <3>2. FlagsTrue'
      BY <2>0, <2>2, FlagsStay DEF RanInv
    <3>3. step' = step
      BY <2>2, <3>1 DEF step
    <3>4. Progress'
      BY <2>2, <3>1, <3>3 DEF Progress, RanInv, SameOp
    <3> QED
      BY <2>2, <3>2, <3>4, RanGoesOn DEF SameOp
  <2> QED
    BY <1>0, <1>12, <2>1, <2>2, RunStepFacts
<1>13. CASE MarkLegacy \/ MarkFlag
  <2>0. proc.pc \in {"mark", "flag"} /\ succeeded' = succeeded /\ pos.version \in Versions
    BY <1>0, <1>13 DEF MarkLegacy, MarkFlag, ghost, Positions
  <2>1. <<pos.version, step>> \in succeeded /\ proc.check = FALSE /\ proc.i \in 1..Len(Steps)
    BY <1>0, <2>0 DEF RanInv, Progress, Control
  <2>2. \A v \in Versions : \A f \in flags'[v] :
          f \in flags[v] \/ (v = pos.version /\ f \in {Path(step), legacyPath(step)})
    BY <1>0, <1>13 DEF MarkLegacy, MarkFlag, TypeOK
  <2>3. FlagsTrue'
    <3> SUFFICES ASSUME NEW v \in Versions, NEW f \in flags'[v]
                 PROVE  \E e \in succeeded' : e[1] = v /\ e[2].id = f[2]
      BY DEF FlagsTrue
    <3>1. CASE f \in flags[v]
      BY <2>0, <3>1 DEF RanInv, FlagsTrue
    <3>2. CASE v = pos.version /\ f \in {Path(step), legacyPath(step)}
      <4>1. f[2] = step.id
        BY <3>2 DEF Path, legacyPath
      <4>2. <<pos.version, step>>[1] = v /\ <<pos.version, step>>[2].id = f[2]
        BY <3>2, <4>1
      <4> QED
        BY <2>0, <2>1, <4>2
    <3> QED
      BY <2>2, <3>1, <3>2
  <2>4. CASE PodFails
    BY <2>0, <2>3, <2>4, PodFailsFacts, RanEnded DEF SameOp
  <2>5. CASE proc.pc = "mark" /\ Goto("flag")
    <3>1. SameOp /\ proc'.pc = "flag" /\ proc'.check = FALSE /\ proc'.i = proc.i
      BY <1>0, <2>1, <2>5, GotoFacts
    <3>2. Steps' = Steps /\ (\A j : Ran(j) => Ran(j)')
      BY <2>0, <3>1, RanStays DEF SameOp
    <3>3. step' = step
      BY <3>1, <3>2 DEF step
    <3>4. Progress'
      BY <2>0, <2>1, <2>5, <3>1, <3>2, <3>3 DEF Progress, RanInv, SameOp
    <3> QED
      BY <2>0, <2>3, <3>1, <3>4, RanGoesOn DEF SameOp
  <2>6. CASE proc.pc = "flag" /\ NextStep
    <3>1. SameOp /\ proc'.pc = "step" /\ proc'.check = FALSE /\ proc'.i = proc.i + 1
      BY <1>0, <2>1, <2>6, NextStepFacts
    <3>2. Steps' = Steps /\ (\A j : Ran(j) => Ran(j)')
      BY <2>0, <3>1, RanStays DEF SameOp
    <3>3. Ran(proc.i)
      BY <2>1 DEF Ran, StandsFor, step
    <3>4. pos.stage # "uninstall" => \A j \in 1..Len(Steps) : j < proc.i + 1 => Ran(j)
      <4> SUFFICES ASSUME pos.stage # "uninstall", NEW j \in 1..Len(Steps), j < proc.i + 1
                   PROVE  Ran(j)
        OBVIOUS
      <4>1. proc.i \in Nat
        BY <1>0 DEF Procs
      <4>2. j < proc.i \/ j = proc.i
        BY <4>1
      <4>3. j < proc.i => Ran(j)
        BY <2>1, <2>6 DEF RanInv, Progress
      <4> QED
        BY <3>3, <4>2, <4>3
    <3>5. Progress'
      BY <3>1, <3>2, <3>4 DEF Progress, SameOp
    <3> QED
      BY <2>0, <2>3, <3>1, <3>5, RanGoesOn DEF SameOp
  <2> QED
    BY <1>13, <2>4, <2>5, <2>6 DEF MarkLegacy, MarkFlag
<1>14. CASE RunCheck
  <2>1. /\ SameOp /\ proc.check = TRUE /\ proc'.check = TRUE /\ proc'.pc \in {"summarize", "step"}
        /\ succeeded' = succeeded /\ flags' = flags
    BY <1>0, <1>14, RunCheckFacts DEF RunCheck, host, ghost
  <2>2. AllRan => AllRan'
    BY <2>1, RanStays DEF SameOp
  <2>3. Progress'
    BY <2>1, <2>2 DEF RanInv, Progress, SameOp
  <2> QED
    BY <1>1, <2>1, <2>3, RanGoesOn DEF SameOp
<1>15. CASE summarizeChecks
  <2>0. succeeded' = succeeded /\ flags' = flags
    BY <1>15 DEF summarizeChecks, ghost
  <2>1. CASE Goto("record")
    <3>1. SameOp /\ proc'.pc = "record" /\ proc'.check = proc.check
      BY <1>0, <2>1, GotoFacts
    <3>2. AllRan => AllRan'
      BY <2>0, <3>1, RanStays DEF SameOp
    <3>3. Progress'
      BY <3>1, <3>2 DEF RanInv, Progress, SameOp
    <3> QED
      BY <1>1, <2>0, <3>1, <3>3, RanGoesOn DEF SameOp
  <2> QED
    BY <1>2, <1>15, <2>0, <2>1 DEF summarizeChecks
<1>16. CASE Record
  <2>0. succeeded' = succeeded /\ flags' = flags /\ proc.pc = "record" /\ proc.check = TRUE
    BY <1>0, <1>16 DEF Record, ghost, Control
  <2>1. CASE pos.stage = "uninstall" /\ Goto("remove")
    <3>1. SameOp /\ proc'.pc = "remove"
      BY <1>0, <2>1, GotoFacts
    <3>2. Progress'
      BY <2>1, <3>1 DEF Progress, SameOp
    <3> QED
      BY <1>1, <2>0, <3>1, <3>2, RanGoesOn DEF SameOp
  <2>2. CASE pos.stage # "uninstall" /\ PodSucceeds
    <3>1. proc' = Idle /\ pos'.version = pos.version /\ pos'.stage = pos.stage
      BY <1>0, <2>2, PodSucceedsFacts
    <3>2. AllRan'
      BY <2>0, <2>2, <3>1, RanStays DEF RanInv, Progress
    <3> QED
      BY <1>1, <2>0, <3>1, <3>2, IdleFacts DEF RanInv, Progress
  <2> QED
    BY <1>16, <2>1, <2>2 DEF Record
<1>17. CASE RemoveFlag
  <2>0. pos.stage = "uninstall" /\ pos.version \in Versions
    BY <1>0, <1>17 DEF RemoveFlag, Control, Positions
  <2>1. CASE flags[pos.version] = {}
    <3>1. /\ PodSucceeds /\ flags' = flags
          /\ succeeded' = {e \in succeeded : e[1] # pos.version}
      BY <1>17, <2>1 DEF RemoveFlag
    <3>2. proc' = Idle /\ pos'.stage = "uninstall"
      BY <1>0, <2>0, <3>1, PodSucceedsFacts
    <3>3. FlagsTrue'
      <4> SUFFICES ASSUME NEW v \in Versions, NEW f \in flags[v]
                   PROVE  \E e \in succeeded' : e[1] = v /\ e[2].id = f[2]
        BY <3>1 DEF FlagsTrue
      <4>1. PICK e \in succeeded : e[1] = v /\ e[2].id = f[2]
        BY DEF RanInv, FlagsTrue
      <4>2. v # pos.version
        BY <2>1
      <4> QED
        BY <3>1, <4>1, <4>2
    <3> QED
      BY <3>2, <3>3, IdleFacts DEF RanInv, Progress
  <2>2. CASE flags[pos.version] # {}
    <3>1. /\ pos' = pos /\ proc' = proc /\ succeeded' = succeeded
          /\ \E f \in flags[pos.version] : flags' = [flags EXCEPT ![pos.version] = @ \ {f}]
      BY <1>17, <2>2 DEF RemoveFlag, op
    <3>2. \A v \in Versions : flags'[v] \subseteq flags[v]
      BY <1>0, <3>1 DEF TypeOK
    <3>3. FlagsTrue'
      BY <3>1, <3>2, FlagsStay DEF RanInv
    <3> QED
      BY <1>5, <3>1, <3>3
  <2> QED
    BY <2>1, <2>2
<1>18. CASE SkipInterrupt \/ prepareNodeRestartMarker \/ NodeRestart \/ RunPending \/ markInterruptComplete
  <2>1. proc.pc \in InterruptPcs /\ flags' = flags /\ succeeded' = succeeded
    BY <1>18 DEF SkipInterrupt, prepareNodeRestartMarker, NodeRestart, RunPending, markInterruptComplete,
                 InterruptPcs, host, ghost
  <2>2. PodFails \/ PodSucceeds \/ \E x \in InterruptPcs : Goto(x)
    BY <1>18 DEF SkipInterrupt, prepareNodeRestartMarker, NodeRestart, RunPending, markInterruptComplete,
                 InterruptPcs
  <2>3. pos.stage \in InterruptStages /\ (proc.check = TRUE => pos.stage \in StepStages)
    BY <1>0, <2>1 DEF Control
  <2>4. pos.stage \notin StepStages /\ proc.check # TRUE
    BY <2>3 DEF StepStages, InterruptStages
  <2>5. CASE PodSucceeds
    <3>1. proc' = Idle /\ pos'.stage = pos.stage
      BY <1>0, <2>5, PodSucceedsFacts
    <3> QED
      BY <1>1, <2>1, <2>4, <3>1, IdleFacts DEF RanInv, Progress
  <2>6. CASE \E x \in InterruptPcs : Goto(x)
    <3>1. SameOp /\ proc'.pc \in InterruptPcs /\ proc'.check = proc.check
      BY <1>0, <2>6, GotoFacts DEF InterruptPcs
    <3>2. Progress'
      BY <2>4, <3>1 DEF Progress, InterruptPcs
    <3> QED
      BY <1>1, <2>1, <3>1, <3>2, RanGoesOn DEF SameOp
  <2> QED
    BY <1>2, <2>1, <2>2, <2>5, <2>6
<1>19. CASE Kill \/ Reboot
  BY <1>2, <1>19 DEF Kill, Reboot, host, ghost
<1>20. CASE DamageHistory
  BY <1>1, <1>5, <1>20 DEF DamageHistory, op, ghost
<1>21. CASE UNCHANGED vars
  BY <1>1, <1>5, <1>21 DEF vars, op, host, ghost
<1> QED
  BY <1>4, <1>6, <1>7, <1>8, <1>9, <1>10, <1>11, <1>12, <1>13, <1>14, <1>15, <1>16, <1>17, <1>18, <1>19,
     <1>20, <1>21 DEF Next, Invocation, Environment

\* A stage reported as done has run every step since the version was last uninstalled, or
\* one with the step's legacy name where a flag decides: a flag is written after the step
\* has succeeded and is gone before that counts as undone (flags.Check, flags.Mark).
THEOREM DoneMeansRan == Spec => []StageRan
<1>1. Init => RanInv
  BY IdleFacts DEF Init, RanInv, FlagsTrue, Progress
<1>2. Spec => [](AgentInv /\ RanInv)
  BY AgentInit, AgentStep, <1>1, RanStep, PTL DEF Spec
<1>3. RanInv => StageRan
  BY DEF RanInv, AllRan, Ran, StageRan
<1> QED
  BY <1>2, <1>3, PTL

-----------------------------------------------------------------------------
(***************************************************************************)
(* An interrupt that is done has happened.                                 *)
(***************************************************************************)
\* A marker that names a boot names one at or after the first attempt, and a completion
\* marker was set in a later boot.
RestartInv ==
  /\ \A r \in RIDs : pending[r] \notin {NoBoot, Malformed} => began[r] # NoBoot /\ began[r] <= pending[r]
  /\ \A r \in RIDs, o \in 1..(Operations + 1) :
       <<r, o>> \in complete => began[r] # NoBoot /\ began[r] < boot
  /\ proc.pc \in {"pending", "reboot"} => began[<<job, pos.version>>] # NoBoot
  /\ proc.pc # "complete"

\* The commands with a completion marker have run, and the one that gets it next.
CommandInv ==
  /\ \A g \in 1..(MaxEdits + 1), v \in Versions, o \in 1..(Operations + 1) :
       <<<<g, v>>, o>> \in complete => <<g, v, o>> \in executed
  /\ proc.pc = "complete" => <<job, pos.version, FirstPending>> \in executed
  /\ proc.pc \notin {"pending", "reboot"}

InterruptInv ==
  /\ kind = "node_restart" => RestartInv
  /\ kind # "node_restart" => CommandInv
  /\ pos.done /\ pos.stage \in InterruptStages => job # 0
  /\ InterruptHappened

\* The resource ID of a running agent.
LEMMA RidType ==
  ASSUME TypeOK, job # 0
  PROVE  rid \in RIDs /\ rid = <<job, pos.version>> /\ job \in 1..(MaxEdits + 1) /\ pos.version \in Versions
<1>1. edits \in 0..MaxEdits /\ gen \in 1..(edits + 1) /\ job \in 0..gen /\ MaxEdits \in Nat
  BY AgentAssumption DEF TypeOK, AgentAssumption
<1>2. job \in 1..(MaxEdits + 1)
  BY <1>1
<1>3. pos.version \in Versions
  BY DEF TypeOK
<1> QED
  BY <1>2, <1>3 DEF rid, ResourceID, RIDs

\* A step that leaves the interrupts' files and the boot alone, and does not end an interrupt.
LEMMA InterruptFrame ==
  ASSUME InterruptInv, kind' = kind, complete' = complete, pending' = pending, boot' = boot,
         rebooting' = rebooting, executed' = executed, began' = began,
         proc'.pc \notin {"pending", "reboot", "complete"},
         pos'.done /\ pos'.stage \in InterruptStages =>
           pos.done /\ pos.stage \in InterruptStages /\ pos'.version = pos.version /\ job' = job
  PROVE  InterruptInv'
<1>1. kind = "node_restart" => RestartInv'
  BY DEF InterruptInv, RestartInv
<1>2. kind # "node_restart" => CommandInv'
  BY DEF InterruptInv, CommandInv
<1>3. Markers' = Markers
  BY DEF Markers
<1>4. InterruptHappened'
  BY <1>3 DEF InterruptInv, InterruptHappened
<1> QED
  BY <1>1, <1>2, <1>4 DEF InterruptInv

\* Enough for a step that ends no interrupt and changes files.
LEMMA InterruptGoesOn ==
  ASSUME kind' = kind, kind = "node_restart" => RestartInv', kind # "node_restart" => CommandInv',
         pos'.done = FALSE
  PROVE  InterruptInv'
  BY DEF InterruptInv, InterruptHappened

\* The pending marker of a restart, or the end of the restart.
LEMMA RestartSteps ==
  ASSUME AgentInv, InterruptInv, prepareNodeRestartMarker \/ NodeRestart, kind' = kind
  PROVE  InterruptInv'
<1>0. TypeOK /\ Control /\ pos \in Positions /\ proc \in Procs
  BY DEF AgentInv, TypeOK, Positions
<1>1. proc.pc \in InterruptPcs
  BY DEF prepareNodeRestartMarker, NodeRestart, InterruptPcs
<1>2. pos.done = FALSE /\ job # 0 /\ pos.stage \in InterruptStages
  BY <1>0, <1>1 DEF Control, InterruptPcs
<1>3. rid \in RIDs /\ rid = <<job, pos.version>>
  BY <1>0, <1>2, RidType
<1>4. kind = "node_restart" /\ RestartInv
  BY DEF prepareNodeRestartMarker, NodeRestart, InterruptInv, CommandInv
<1>5. /\ boot \in Nat /\ boot # NoBoot /\ boot # Malformed /\ pending \in [RIDs -> 0..boot]
      /\ began \in [RIDs -> 0..boot]
  BY <1>0 DEF TypeOK
<1>6. \A r \in RIDs : began[r] <= boot /\ began[r] \in Nat
  BY <1>5
<1>7. CASE /\ proc.pc = "interrupt" /\ pending' = [pending EXCEPT ![rid] = Malformed]
           /\ began' = [began EXCEPT ![<<job, pos.version>>] = IF @ = NoBoot THEN boot ELSE @]
           /\ Goto("pending") /\ complete' = complete /\ boot' = boot /\ ~Marked(1)
  <2>1. SameOp /\ proc'.pc = "pending"
    BY <1>0, <1>7, GotoFacts
  <2>2. /\ \A r \in RIDs : began[r] # NoBoot => began'[r] = began[r]
        /\ began'[rid] # NoBoot
    BY <1>3, <1>5, <1>7
  <2>3. \A r \in RIDs : pending'[r] \notin {NoBoot, Malformed} => pending'[r] = pending[r]
    BY <1>5, <1>7
  <2>4. RestartInv'
    BY <1>3, <1>4, <1>7, <2>1, <2>2, <2>3 DEF RestartInv, SameOp
  <2> QED
    BY <1>2, <1>4, <2>1, <2>4, InterruptGoesOn DEF SameOp
<1>8. CASE /\ proc.pc = "pending" /\ pending' = [pending EXCEPT ![rid] = boot] /\ Goto("reboot")
           /\ began' = began /\ complete' = complete /\ boot' = boot
  <2>1. SameOp /\ proc'.pc = "reboot"
    BY <1>0, <1>8, GotoFacts
  <2>2. began[rid] # NoBoot
    BY <1>3, <1>4, <1>8 DEF RestartInv
  <2>3. \A r \in RIDs : pending'[r] \notin {NoBoot, Malformed} =>
          pending'[r] = pending[r] \/ (r = rid /\ pending'[r] = boot)
    BY <1>5, <1>8
  <2>4. \A r \in RIDs : pending'[r] \notin {NoBoot, Malformed} => began[r] # NoBoot /\ began[r] <= pending'[r]
    BY <1>4, <1>6, <2>2, <2>3 DEF RestartInv
  <2>5. RestartInv'
    BY <1>3, <1>4, <1>8, <2>1, <2>2, <2>4 DEF RestartInv, SameOp
  <2> QED
    BY <1>2, <1>4, <2>1, <2>5, InterruptGoesOn DEF SameOp
<1>9. CASE /\ pending' = [pending EXCEPT ![rid] = NoBoot] /\ PodFails /\ began' = began
           /\ complete' = complete /\ boot' = boot
  <2>1. SameOp /\ proc' = Idle
    BY <1>9, PodFailsFacts
  <2>2. \A r \in RIDs : pending'[r] \notin {NoBoot, Malformed} => pending'[r] = pending[r]
    BY <1>5, <1>9
  <2>3. RestartInv'
    BY <1>4, <1>9, <2>1, <2>2, IdleFacts DEF RestartInv
  <2> QED
    BY <1>2, <1>4, <2>1, <2>3, InterruptGoesOn DEF SameOp
<1>10. CASE NodeRestart
  <2>1. /\ complete' = complete /\ pending' = pending /\ boot' = boot /\ began' = began
        /\ proc.pc = "reboot"
    BY <1>10 DEF NodeRestart, ghost
  <2>2. CASE PodFails
    <3>1. SameOp /\ proc' = Idle
      BY <2>2, PodFailsFacts
    <3>2. RestartInv'
      BY <1>4, <2>1, <3>1, IdleFacts DEF RestartInv
    <3> QED
      BY <1>2, <1>4, <3>1, <3>2, InterruptGoesOn DEF SameOp
  <2>3. CASE PodSucceeds /\ rebooting' = TRUE
    <3>1. proc' = Idle /\ job' = job /\ pos'.version = pos.version
      BY <1>0, <2>3, PodSucceedsFacts
    <3>2. RestartInv'
      BY <1>4, <2>1, <3>1, IdleFacts DEF RestartInv
    <3>3. began[<<job, pos.version>>] # NoBoot
      BY <1>4, <2>1 DEF RestartInv
    <3>4. InterruptHappened'
      BY <1>4, <2>1, <2>3, <3>1, <3>3 DEF InterruptHappened
    <3> QED
      BY <1>2, <1>4, <3>1, <3>2, <3>4 DEF InterruptInv
  <2> QED
    BY <1>10, <2>2, <2>3 DEF NodeRestart
<1>11. CASE prepareNodeRestartMarker
  BY <1>7, <1>8, <1>9, <1>11 DEF prepareNodeRestartMarker
<1> QED
  BY <1>10, <1>11

\* All operations are marked, or the marker of a restart names an earlier boot.
LEMMA SkipSteps ==
  ASSUME AgentInv, InterruptInv, SkipInterrupt, kind' = kind
  PROVE  InterruptInv'
<1>0. TypeOK /\ Control /\ pos \in Positions /\ proc.pc = "interrupt"
  BY DEF AgentInv, TypeOK, Positions, SkipInterrupt
<1>1. pos.done = FALSE /\ job # 0 /\ pos.stage \in InterruptStages
  BY <1>0 DEF Control, InterruptPcs
<1>2. rid \in RIDs /\ rid = <<job, pos.version>> /\ job \in 1..(MaxEdits + 1) /\ pos.version \in Versions
  BY <1>0, <1>1, RidType
<1>3. /\ PodSucceeds /\ boot' = boot /\ rebooting' = rebooting /\ executed' = executed /\ began' = began
  BY DEF SkipInterrupt, ghost
<1>4. proc' = Idle /\ job' = job /\ pos'.version = pos.version /\ Markers' = Markers
  BY <1>0, <1>3, PodSucceedsFacts DEF Markers
<1>5. Operations \in Nat /\ 1 \in 1..(Operations + 1) /\ Markers \subseteq 1..(Operations + 1)
  BY AgentAssumption DEF AgentAssumption, Markers
<1>6. CASE Markers # {} /\ (\A o \in Markers : Marked(o)) /\ UNCHANGED <<complete, pending>>
  <2>1. kind = "node_restart" => RestartInv'
    BY <1>3, <1>4, <1>6, IdleFacts DEF InterruptInv, RestartInv
  <2>2. kind # "node_restart" => CommandInv'
    BY <1>3, <1>4, <1>6, IdleFacts DEF InterruptInv, CommandInv
  <2>3. CASE kind = "node_restart"
    <3>1. <<rid, 1>> \in complete
      BY <1>6, <2>3 DEF Markers, Marked
    <3>2. began[rid] # NoBoot /\ began[rid] < boot
      BY <1>2, <1>5, <2>3, <3>1 DEF InterruptInv, RestartInv
    <3>3. began[rid] \in Nat /\ boot \in Nat
      BY <1>0, <1>2 DEF TypeOK
    <3>4. boot > began[rid]
      BY <3>2, <3>3
    <3>5. InterruptHappened'
      BY <1>2, <1>3, <1>4, <2>3, <3>2, <3>4 DEF InterruptHappened
    <3> QED
      BY <1>1, <1>4, <2>1, <2>3, <3>5 DEF InterruptInv
  <2>4. CASE kind # "node_restart"
    <3>1. \A o \in Markers : <<job, pos.version, o>> \in executed
      BY <1>2, <1>5, <1>6, <2>4 DEF InterruptInv, CommandInv, Marked
    <3>2. InterruptHappened'
      BY <1>3, <1>4, <2>4, <3>1 DEF InterruptHappened
    <3> QED
      BY <1>1, <1>4, <2>2, <2>4, <3>2 DEF InterruptInv
  <2> QED
    BY <2>3, <2>4
<1>7. CASE /\ kind = "node_restart" /\ pending[rid] \notin {NoBoot, Malformed, boot}
           /\ complete' = complete \cup {<<rid, 1>>}
           /\ pending' = [pending EXCEPT ![rid] = NoBoot]
  <2>1. /\ pending[rid] \in 0..boot /\ boot \in Nat /\ began[rid] \in Nat /\ pending \in [RIDs -> 0..boot]
    BY <1>0, <1>2 DEF TypeOK
  <2>2. began[rid] # NoBoot /\ began[rid] <= pending[rid]
    BY <1>2, <1>7 DEF InterruptInv, RestartInv
  <2>3. began[rid] < boot /\ boot > began[rid]
    BY <1>7, <2>1, <2>2
  <2>4. \A r \in RIDs : pending'[r] \notin {NoBoot, Malformed} => pending'[r] = pending[r]
    BY <1>7, <2>1
  <2>5. RestartInv'
    BY <1>3, <1>4, <1>7, <2>2, <2>3, <2>4, IdleFacts DEF InterruptInv, RestartInv
  <2>6. InterruptHappened'
    BY <1>2, <1>3, <1>4, <1>7, <2>2, <2>3 DEF InterruptHappened
  <2> QED
    BY <1>1, <1>4, <1>7, <2>5, <2>6 DEF InterruptInv
<1> QED
  BY <1>6, <1>7 DEF SkipInterrupt

\* A command is run, then its marker is set.
LEMMA CommandSteps ==
  ASSUME AgentInv, InterruptInv, RunPending \/ markInterruptComplete, kind' = kind
  PROVE  InterruptInv'
<1>0. TypeOK /\ Control /\ pos \in Positions /\ proc \in Procs
  BY DEF AgentInv, TypeOK, Positions
<1>1. proc.pc \in InterruptPcs
  BY DEF RunPending, markInterruptComplete, InterruptPcs
<1>2. pos.done = FALSE /\ job # 0
  BY <1>0, <1>1 DEF Control, InterruptPcs
<1>3. rid = <<job, pos.version>>
  BY <1>0, <1>2, RidType
<1>4. kind # "node_restart" /\ CommandInv
  BY DEF RunPending, markInterruptComplete, InterruptInv, RestartInv
<1>5. CASE PodFails /\ executed' = executed /\ complete' = complete
  <2>1. SameOp /\ proc' = Idle
    BY <1>5, PodFailsFacts
  <2>2. CommandInv'
    BY <1>4, <1>5, <2>1, IdleFacts DEF CommandInv
  <2> QED
    BY <1>2, <1>4, <2>1, <2>2, InterruptGoesOn DEF SameOp
<1>6. CASE executed' = executed \cup {<<job, pos.version, FirstPending>>} /\ Goto("complete")
           /\ complete' = complete
  <2>1. SameOp /\ proc'.pc = "complete"
    BY <1>0, <1>6, GotoFacts
  <2>2. FirstPending' = FirstPending
    BY <1>6, <2>1, SameMarkers DEF FirstPending, SameOp
  <2>3. CommandInv'
    BY <1>4, <1>6, <2>1, <2>2 DEF CommandInv, SameOp
  <2> QED
    BY <1>2, <1>4, <2>1, <2>3, InterruptGoesOn DEF SameOp
<1>7. CASE proc.pc = "complete" /\ complete' = complete \cup {<<rid, FirstPending>>}
           /\ Goto("interrupt") /\ executed' = executed
  <2>1. SameOp /\ proc'.pc = "interrupt"
    BY <1>0, <1>7, GotoFacts
  <2>2. <<job, pos.version, FirstPending>> \in executed
    BY <1>4, <1>7 DEF CommandInv
  <2>3. \A g \in 1..(MaxEdits + 1), v \in Versions, o \in 1..(Operations + 1) :
          <<<<g, v>>, o>> \in complete' => <<g, v, o>> \in executed'
    BY <1>3, <1>4, <1>7, <2>2 DEF CommandInv
  <2>4. CommandInv'
    BY <2>1, <2>3 DEF CommandInv
  <2> QED
    BY <1>2, <1>4, <2>1, <2>4, InterruptGoesOn DEF SameOp
<1> QED
  BY <1>5, <1>6, <1>7 DEF RunPending, markInterruptComplete, host, ghost

\* A new boot is later than every attempt so far.
LEMMA RebootStep ==
  ASSUME AgentInv, InterruptInv, Reboot, kind' = kind
  PROVE  InterruptInv'
<1>0. /\ proc' = Idle /\ pos' = pos /\ job' = job /\ boot' = boot + 1 /\ complete' = complete
      /\ pending' = pending /\ executed' = executed /\ began' = began
  BY PodFailsFacts DEF Reboot, SameOp, ghost
<1>1. boot \in Nat /\ began \in [RIDs -> 0..boot] /\ TypeOK
  BY DEF AgentInv, TypeOK
<1>2. \A r \in RIDs : began[r] < boot' /\ boot' > began[r]
  BY <1>0, <1>1
<1>3. kind = "node_restart" => RestartInv'
  BY <1>0, <1>2, IdleFacts DEF InterruptInv, RestartInv
<1>4. kind # "node_restart" => CommandInv'
  BY <1>0, IdleFacts DEF InterruptInv, CommandInv
<1>5. Markers' = Markers
  BY DEF Markers
<1>6. CASE kind # "node_restart"
  <2>1. InterruptHappened'
    BY <1>0, <1>5, <1>6 DEF InterruptInv, InterruptHappened
  <2> QED
    BY <1>0, <1>4, <1>6, <2>1 DEF InterruptInv
<1>7. CASE kind = "node_restart"
  <2>1. CASE job = 0
    <3>1. pos.done = FALSE \/ pos.stage \notin InterruptStages
      BY <1>1, <2>1 DEF InterruptInv, TypeOK
    <3> QED
      BY <1>0, <1>3, <1>7, <3>1 DEF InterruptInv, InterruptHappened
  <2>2. CASE job # 0
    <3>1. <<job, pos.version>> \in RIDs
      BY <1>1, <2>2, RidType
    <3>2. InterruptHappened'
      BY <1>0, <1>2, <1>7, <3>1 DEF InterruptInv, InterruptHappened
    <3> QED
      BY <1>0, <1>3, <1>7, <3>2 DEF InterruptInv
  <2> QED
    BY <2>1, <2>2
<1> QED
  BY <1>6, <1>7

\* A step that leaves the interrupts' files, the boot, the agent and the package alone.
LEMMA InterruptStays ==
  ASSUME InterruptInv, kind' = kind, complete' = complete, pending' = pending, boot' = boot,
         rebooting' = rebooting, executed' = executed, began' = began,
         proc' = proc, pos' = pos, job' = job
  PROVE  InterruptInv'
<1>1. FirstPending' = FirstPending
  BY SameMarkers DEF FirstPending
<1>2. Markers' = Markers
  BY DEF Markers
<1>3. kind = "node_restart" => RestartInv'
  BY DEF InterruptInv, RestartInv
<1>4. kind # "node_restart" => CommandInv'
  BY <1>1 DEF InterruptInv, CommandInv
<1>5. InterruptHappened'
  BY <1>2 DEF InterruptInv, InterruptHappened
<1> QED
  BY <1>3, <1>4, <1>5 DEF InterruptInv

LEMMA InterruptStep == AgentInv /\ InterruptInv /\ [Next]_vars => InterruptInv'
<1> SUFFICES ASSUME AgentInv, InterruptInv, [Next]_vars
             PROVE  InterruptInv'
  OBVIOUS
<1> DEFINE Apart == /\ complete' = complete /\ pending' = pending /\ boot' = boot
                    /\ rebooting' = rebooting /\ executed' = executed /\ began' = began
<1>0. TypeOK /\ Control /\ pos \in Positions /\ proc \in Procs /\ kind' = kind
  BY DEF AgentInv, TypeOK, Positions, Next, vars
<1>1. CASE Apart /\ SameOp /\ proc'.pc \notin {"pending", "reboot", "complete"}
  BY <1>0, <1>1, InterruptFrame DEF SameOp
<1>2. CASE Apart /\ pos'.stage \in StepStages /\ proc'.pc = "idle"
  BY <1>0, <1>2, InterruptFrame DEF StepStages, InterruptStages
<1>3. CASE Apart /\ proc' = proc /\ pos' = pos /\ job' = job
  BY <1>0, <1>3, InterruptStays
<1>4. ASSUME NEW v \in Versions, NEW st \in StageNames, Enter(v, st), Apart
      PROVE  InterruptInv'
  <2>1. proc'.pc = "idle" /\ pos'.stage = st /\ pos'.done = (st = "absent")
    BY <1>4, EnterFacts, IdleFacts
  <2>2. ~(pos'.done /\ pos'.stage \in InterruptStages)
    BY <2>1 DEF InterruptStages
  <2> QED
    BY <1>0, <1>4, <2>1, <2>2, InterruptFrame
<1>5. CASE PodFails /\ Apart
  BY <1>1, <1>5, PodFailsFacts, IdleFacts
<1>6. CASE Advance
  <2>1. NextStage(pos.stage) # "end" /\ Enter(pos.version, NextStage(pos.stage)) /\ Apart
    BY <1>6 DEF Advance, host, ghost
  <2>2. NextStage(pos.stage) \in StageNames /\ pos.version \in Versions
    BY <1>0, <2>1, NextStageType DEF Positions
  <2> QED
    BY <1>4, <2>1, <2>2
<1>7. CASE Edit
  <2>1. Apart
    BY <1>7 DEF Edit, host, ghost
  <2>2. pos.version \in Versions /\ MaxVersion \in Nat
    BY <1>0, AgentAssumption DEF Positions, AgentAssumption
  <2>3. (pos.version < MaxVersion => pos.version + 1 \in Versions) /\ 1..pos.version \subseteq Versions
    BY <2>2 DEF Versions
  <2>4. {"config", "uninstall", "apply", "upgrade"} \subseteq StageNames
    BY DEF StageNames, StepStages
  <2>5. \/ Enter(pos.version, "config")
        \/ pos.version < MaxVersion /\ Enter(pos.version + 1, "upgrade")
        \/ Enter(pos.version, "uninstall")
        \/ Enter(pos.version, "apply")
        \/ \E v \in 1..pos.version : Enter(v, "apply")
        \/ UNCHANGED <<pos, job, proc>>
    BY <1>7 DEF Edit
  <2> HIDE DEF Apart
  <2> QED
    BY <1>3, <1>4, <2>1, <2>2, <2>3, <2>4, <2>5
<1>8. CASE Rerun
  <2>1. PICK st \in {"apply", "config", "interrupt", "post-interrupt"} : Enter(pos.version, st)
    BY <1>8 DEF Rerun
  <2>2. st \in StageNames /\ pos.version \in Versions
    BY <1>0 DEF StageNames, StepStages, InterruptStages, Positions
  <2>3. Apart
    BY <1>8 DEF Rerun, host, ghost
  <2> QED
    BY <1>4, <2>1, <2>2, <2>3
<1>9. CASE StartPod
  <2>1. pos' = pos /\ pos.done = FALSE /\ proc'.pc \in {"begin", "copy"}
    BY <1>0, <1>9, StartPodFacts
  <2>2. Apart
    BY <1>9 DEF StartPod, host, ghost
  <2> QED
    BY <1>0, <2>1, <2>2, InterruptFrame
<1>10. CASE CopyPackage
  <2>1. Goto("begin") /\ Apart
    BY <1>10 DEF CopyPackage, Goto, ghost
  <2> QED
    BY <1>0, <1>1, <2>1, GotoFacts
<1>11. CASE runRequest
  <2>1. Apart
    BY <1>11 DEF runRequest, host, ghost
  <2>2. SameOp /\ proc'.pc \notin {"pending", "reboot", "complete"}
    BY <1>0, <1>11, RunRequestFacts, IdleFacts
  <2> QED
    BY <1>1, <2>1, <2>2
<1>12. CASE SkipStep \/ RunStep \/ RunCheck
  <2>1. SameOp /\ proc'.pc \notin {"pending", "reboot", "complete"}
    BY <1>0, <1>12, SkipStepFacts, RunStepFacts, RunCheckFacts, IdleFacts
  <2>2. Apart
    BY <1>12 DEF SkipStep, RunStep, RunCheck, host, ghost
  <2> QED
    BY <1>1, <2>1, <2>2
<1>13. CASE MarkLegacy \/ MarkFlag \/ summarizeChecks
  <2>1. PodFails \/ Goto("flag") \/ NextStep \/ Goto("record")
    BY <1>13 DEF MarkLegacy, MarkFlag, summarizeChecks
  <2>2. SameOp /\ proc'.pc \notin {"pending", "reboot", "complete"}
    BY <1>0, <2>1, PodFailsFacts, GotoFacts, NextStepFacts, IdleFacts
  <2>3. Apart
    BY <1>13 DEF MarkLegacy, MarkFlag, summarizeChecks, ghost
  <2> QED
    BY <1>1, <2>2, <2>3
<1>14. CASE Record \/ RemoveFlag
  <2>1. Apart
    BY <1>14 DEF Record, RemoveFlag, ghost
  <2>2. pos.stage \in StepStages
    BY <1>0, <1>14 DEF Record, RemoveFlag, Control, StepPcs
  <2>3. CASE PodSucceeds
    BY <1>0, <1>2, <2>1, <2>2, <2>3, PodSucceedsFacts, IdleFacts
  <2>4. CASE Goto("remove")
    BY <1>0, <1>1, <2>1, <2>4, GotoFacts
  <2>5. CASE UNCHANGED <<op, proc>>
    BY <1>3, <2>1, <2>5 DEF op
  <2> QED
    BY <1>14, <2>3, <2>4, <2>5 DEF Record, RemoveFlag
<1>15. CASE SkipInterrupt
  BY <1>0, <1>15, SkipSteps
<1>16. CASE prepareNodeRestartMarker \/ NodeRestart
  BY <1>0, <1>16, RestartSteps
<1>17. CASE RunPending \/ markInterruptComplete
  BY <1>0, <1>17, CommandSteps
<1>18. CASE Kill
  BY <1>5, <1>18 DEF Kill, host, ghost
<1>19. CASE Reboot
  BY <1>0, <1>19, RebootStep
<1>20. CASE DamageHistory
  BY <1>3, <1>20 DEF DamageHistory, op, ghost
<1>21. CASE UNCHANGED vars
  BY <1>3, <1>21 DEF vars, op, host, ghost
<1> QED
  BY <1>6, <1>7, <1>8, <1>9, <1>10, <1>11, <1>12, <1>13, <1>14, <1>15, <1>16, <1>17, <1>18, <1>19,
     <1>20, <1>21 DEF Next, Invocation, Environment

\* An interrupt reported as done has happened for this generation and version: its
\* commands were run, or the host has rebooted since the first attempt or is about to
\* (runInterrupt, prepareNodeRestartMarker, markInterruptComplete).
THEOREM DoneMeansInterrupted == Spec => []InterruptHappened
<1>1. Init => InterruptInv
  <2> SUFFICES ASSUME Init
               PROVE  InterruptInv
    OBVIOUS
  <2>1. /\ proc.pc = "idle" /\ pos.done = FALSE /\ complete = {}
        /\ \A r \in RIDs : pending[r] = NoBoot
    BY IdleFacts DEF Init
  <2>2. RestartInv /\ CommandInv
    BY <2>1 DEF RestartInv, CommandInv
  <2> QED
    BY <2>1, <2>2 DEF InterruptInv, InterruptHappened
<1>2. Spec => [](AgentInv /\ InterruptInv)
  BY AgentInit, AgentStep, <1>1, InterruptStep, PTL DEF Spec
<1>3. InterruptInv => InterruptHappened
  BY DEF InterruptInv
<1> QED
  BY <1>2, <1>3, PTL
=============================================================================
