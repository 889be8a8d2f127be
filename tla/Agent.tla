------------------------------- MODULE Agent -------------------------------
(* The agent (agent/go): the process that a package's pods run on a node, one
   invocation for a stage, one for the stage's checks or one for an interrupt.
   All it remembers between invocations is on the host: a completion flag for
   each step (flags.Store), the version history of the package
   (history.Store), completion and pending markers of interrupts, and the copy
   of the package under a directory named for version and generation.

   An invocation is a sequence of single file operations and commands; the
   process may be killed between any two of them (eviction, suspension,
   deletion of its Job) and the host may reboot.  The pods come from the
   operator, which is reduced here to the position of the package in its
   pipeline (NodeState.NextStage) and to the edits that move it: the model is
   about what the files on the host make of repeated, interrupted and
   cancelled stages. *)
EXTENDS Naturals, Sequences, FiniteSets

CONSTANTS
  MaxVersion,     \* versions 1..MaxVersion of the package
  Modes,          \* Modes[v][stage]: the configured steps of a stage, in order
  InterruptKinds, \* among "none", "node_restart", "service_restart" and "no_op"
  Operations,     \* how many commands a service_restart runs
  EditKinds,      \* which edits the user makes
  MaxEdits,       \* bound on edits; each one is a generation of the resource
  MaxFaults       \* bound on failing commands and file operations, kills of a running
                  \* agent, reboots that no interrupt asked for and damaged ledgers

Versions == 1..MaxVersion
StepStages == {"apply", "config", "post-interrupt", "upgrade", "uninstall"}
InterruptStages == {"interrupt", "uninstall-interrupt"}
NoBoot == 0
Malformed == 1
FirstBoot == 2

ASSUME AgentAssumption ==
  /\ MaxVersion \in Nat \ {0}
  /\ \A v \in Versions, s \in StepStages : Modes[v][s] \in Seq([id : STRING, env : Nat, always : BOOLEAN])
  /\ InterruptKinds \subseteq {"none", "node_restart", "service_restart", "no_op"}
  /\ {Operations, MaxEdits, MaxFaults} \subseteq Nat
  /\ EditKinds \subseteq {"config", "upgrade", "uninstall", "cancel", "reinstall", "touch", "rerun"}

VARIABLES
  kind,      \* the interrupt the package declares
  pos,       \* the operator's view: version, stage, whether the stage is recorded as done
  gen,       \* generation of the resource
  job,       \* generation the stage's Job was built from, 0 when it has none
  proc,      \* the running agent: what it does next and what it holds in memory
  flags,     \* flags[v]: completion flags of the steps of version v
  history,   \* the ledger: <<"version", v>>, <<"uninstalled">>, <<"missing">> or <<"corrupt">>
  checked,   \* the <stage>_ALL_CHECKED files, as <<version, stage>>
  complete,  \* completion markers of interrupts, as <<resource ID, operation>>
  pending,   \* pending[rid]: boot the pending restart marker names
  copied,    \* package copies on the host, as <<version, generation>>
  boot,      \* boot ID of the host
  rebooting, \* a reboot has been enqueued
  effect,    \* history variable: steps whose effect is on the host
  succeeded, \* history variable: steps that succeeded since the version was last uninstalled
  executed,  \* history variable: interrupt commands run, as <<generation, version, operation>>
  began,     \* history variable: began[<<g, v>>] is the boot in which a restart was first attempted
  edits, faults  \* how often the user and the environment have acted

op == <<pos, gen, job>>
host == <<flags, history, checked, complete, pending, copied, boot, rebooting>>
ghost == <<effect, succeeded, executed, began>>
vars == <<kind, op, proc, host, ghost, edits, faults>>

Idle == [pc |-> "idle", check |-> FALSE, i |-> 0, bad |-> FALSE, existed |-> FALSE]

(* Mutant of ResourceID: the generation is left out. *)
ResourceIDOfPackage(g, v) == <<1, v>>

(* The resource ID names the markers of an interrupt: name, UID and generation
   of the resource, package and version. *)
ResourceID(g, v) == <<g, v>>
RIDs == (1..(MaxEdits + 1)) \X Versions
rid == ResourceID(job, pos.version)

Steps == Modes[pos.version][pos.stage]
step == Steps[proc.i]

(* The two flags of a step.  The fingerprint of the first covers every input;
   the legacy name leaves out the environment and the host execution. *)
Path(s) == <<"flag", s.id, s.env>>
legacyPath(s) == <<"legacy", s.id, 0>>

HasInterrupt == kind # "none"
Markers == CASE kind = "service_restart" -> 1..Operations
             [] kind \in {"node_restart", "no_op"} -> {1}
             [] OTHER -> {}

Init ==
  /\ kind \in InterruptKinds
  /\ pos = [version |-> 1, stage |-> "apply", done |-> FALSE]
  /\ gen = 1 /\ job = 0
  /\ proc = Idle
  /\ flags = [v \in Versions |-> {}]
  /\ history = <<"missing">>
  /\ checked = {} /\ complete = {} /\ copied = {}
  /\ pending = [r \in RIDs |-> NoBoot]
  /\ boot = FirstBoot /\ rebooting = FALSE
  /\ effect = {} /\ succeeded = {} /\ executed = {}
  /\ began = [r \in RIDs |-> NoBoot]
  /\ edits = 0 /\ faults = 0

----------------------------------------------------------------------------
(* The operator and the user. *)

NextStage(stage) ==
  CASE stage \in {"apply", "upgrade"} -> "config"
    [] stage = "config" -> IF HasInterrupt THEN "interrupt" ELSE "end"
    [] stage = "interrupt" -> "post-interrupt"
    [] stage = "uninstall" -> IF HasInterrupt THEN "uninstall-interrupt" ELSE "absent"
    [] stage = "uninstall-interrupt" -> "absent"
    [] OTHER -> "end"

Installed == pos.done /\ NextStage(pos.stage) = "end" /\ pos.stage # "absent"

(* The position moves to stage s of version v: the Job of the old stage is
   deleted with its pod, the stage's Job is yet to be created. *)
Enter(v, s) ==
  /\ pos' = [version |-> v, stage |-> s, done |-> s = "absent"]
  /\ job' = 0
  /\ proc' = Idle

Advance ==
  /\ pos.done /\ NextStage(pos.stage) # "end"
  /\ Enter(pos.version, NextStage(pos.stage))
  /\ UNCHANGED <<gen, host, ghost, edits, faults>>

(* Where each kind of edit is possible and where it sends the package. *)
Edit ==
  /\ edits < MaxEdits
  /\ edits' = edits + 1
  /\ \/ /\ "config" \in EditKinds /\ Installed
        /\ Enter(pos.version, "config")
     \/ /\ "upgrade" \in EditKinds /\ pos.version < MaxVersion
        /\ pos.stage \notin {"uninstall", "uninstall-interrupt", "absent"}
        /\ Enter(pos.version + 1, "upgrade")
     \/ /\ "uninstall" \in EditKinds /\ Installed
        /\ Enter(pos.version, "uninstall")
     \/ /\ "cancel" \in EditKinds /\ pos.stage = "uninstall" /\ ~pos.done
        /\ Enter(pos.version, "apply")
     \/ /\ "reinstall" \in EditKinds /\ pos.stage = "absent"
        /\ \E v \in 1..pos.version : Enter(v, "apply")
     \/ /\ "touch" \in EditKinds
        /\ UNCHANGED <<pos, job, proc>>
  /\ gen' = gen + 1
  /\ UNCHANGED <<host, ghost, faults>>

(* package rerun: the stage is taken back on the node, the resource is not
   edited. *)
Rerun ==
  /\ "rerun" \in EditKinds /\ Installed /\ edits < MaxEdits
  /\ edits' = edits + 1
  /\ \E s \in {"apply", "config", "interrupt", "post-interrupt"} : Enter(pos.version, s)
  /\ UNCHANGED <<gen, host, ghost, faults>>

(* A pod of the stage's Job starts; a retry is built from the same template. *)
StartPod ==
  /\ proc = Idle /\ ~pos.done
  /\ job' = IF job = 0 THEN gen ELSE job
  /\ proc' = [Idle EXCEPT !.pc = IF pos.stage \in InterruptStages THEN "begin" ELSE "copy"]
  /\ UNCHANGED <<pos, gen, host, ghost, faults>>

(* The init container copies the package; an interrupt pod has none. *)
CopyPackage ==
  /\ proc.pc = "copy"
  /\ copied' = copied \cup {<<pos.version, job>>}
  /\ proc' = [proc EXCEPT !.pc = "begin"]
  /\ UNCHANGED <<op, flags, history, checked, complete, pending, boot, rebooting, ghost, faults>>

----------------------------------------------------------------------------
(* How an invocation ends. *)

PodFails == proc' = Idle /\ UNCHANGED op
PodSucceeds == proc' = Idle /\ pos' = [pos EXCEPT !.done = TRUE] /\ UNCHANGED <<job, gen>>
Spend == faults < MaxFaults /\ faults' = faults + 1
Goto(pc) == proc' = [proc EXCEPT !.pc = pc] /\ UNCHANGED op

(* After the steps of a stage come its checks, in a container of their own. *)
EndOfSteps ==
  IF proc.check THEN Goto("summarize")
  ELSE proc' = [Idle EXCEPT !.pc = "begin", !.check = TRUE] /\ UNCHANGED op

NextStep ==
  proc' = [proc EXCEPT !.pc = "step", !.i = @ + 1, !.existed = FALSE] /\ UNCHANGED op

----------------------------------------------------------------------------
(* runRequest *)

ensurePackageData == <<pos.version, job>> \in copied

(* Up to the first step: the package must be on the host, the completed-check
   flag of a check stage is cleared; an upgrade stage loads the history, which
   moves a corrupt ledger aside. *)
Load(h) == IF h = <<"corrupt">> THEN <<"missing">> ELSE h

runRequest ==
  /\ proc.pc = "begin"
  /\ \/ /\ ~ensurePackageData
        /\ PodFails
        /\ UNCHANGED host
     \/ /\ ensurePackageData /\ pos.stage \in InterruptStages
        /\ Goto("interrupt")
        /\ UNCHANGED host
     \/ /\ ensurePackageData /\ pos.stage \in StepStages
        /\ proc' = [proc EXCEPT !.pc = "step", !.i = 1]
        /\ history' = IF pos.stage = "upgrade" THEN Load(history) ELSE history
        /\ checked' = IF proc.check /\ Len(Steps) > 0
                        THEN checked \ {<<pos.version, pos.stage>>} ELSE checked
        /\ UNCHANGED <<op, flags, complete, pending, copied, boot, rebooting>>
  /\ UNCHANGED <<ghost, faults>>

(* flags.Check and flags.Decide: whether a step runs. *)
Check(s) ==
  LET exists == flags[pos.version] \cap {Path(s), legacyPath(s)} # {}
  IN \/ ~exists
     \/ pos.stage \in {"config", "uninstall", "upgrade"}
     \/ s.always

SkipStep ==
  /\ proc.pc = "step" /\ ~proc.check
  /\ \/ proc.i > Len(Steps) /\ EndOfSteps
     \/ proc.i <= Len(Steps) /\ ~Check(step) /\ NextStep
  /\ UNCHANGED <<host, ghost, faults>>

(* The step's script.  Its effect replaces what other versions of the package
   left, an uninstall takes everything away. *)
RunStep ==
  /\ proc.pc = "step" /\ ~proc.check /\ proc.i <= Len(Steps)
  /\ Check(step)
  /\ \/ /\ effect' = {e \in effect : e[1] = pos.version /\ pos.stage # "uninstall"}
                     \cup {<<pos.version, step>>}
        /\ succeeded' = succeeded \cup {<<pos.version, step>>}
        /\ proc' = [proc EXCEPT !.pc = "mark", !.existed = legacyPath(step) \in flags[pos.version]]
        /\ UNCHANGED <<op, faults>>
     \/ /\ Spend
        /\ effect' = {e \in effect : e[1] = pos.version /\ pos.stage # "uninstall"}
        /\ PodFails /\ UNCHANGED succeeded
  /\ UNCHANGED <<host, executed, began>>

(* flags.Mark: the legacy flag first, then the fingerprinted one; a failed
   write takes back what this call has created. *)
MarkLegacy ==
  /\ proc.pc = "mark"
  /\ \/ /\ flags' = [flags EXCEPT ![pos.version] = @ \cup {legacyPath(step)}]
        /\ Goto("flag") /\ UNCHANGED faults
     \/ /\ Spend /\ PodFails /\ UNCHANGED flags
  /\ UNCHANGED <<history, checked, complete, pending, copied, boot, rebooting, ghost>>

MarkFlag ==
  /\ proc.pc = "flag"
  /\ \/ /\ flags' = [flags EXCEPT ![pos.version] = @ \cup {Path(step)}]
        /\ NextStep /\ UNCHANGED faults
     \/ /\ Spend /\ PodFails
        /\ flags' = IF proc.existed THEN flags
                    ELSE [flags EXCEPT ![pos.version] = @ \ {legacyPath(step)}]
  /\ UNCHANGED <<history, checked, complete, pending, copied, boot, rebooting, ghost>>

(* A check stage runs all its checks and collects the failures. *)
RunCheck ==
  /\ proc.pc = "step" /\ proc.check
  /\ \/ proc.i > Len(Steps) /\ EndOfSteps /\ UNCHANGED faults
     \/ proc.i <= Len(Steps) /\ NextStep /\ UNCHANGED faults
     \/ /\ proc.i <= Len(Steps) /\ Spend
        /\ proc' = [proc EXCEPT !.i = @ + 1, !.bad = TRUE] /\ UNCHANGED op
  /\ UNCHANGED <<host, ghost>>

summarizeChecks ==
  /\ proc.pc = "summarize"
  /\ IF proc.bad
       THEN PodFails /\ UNCHANGED checked
       ELSE /\ Goto("record")
            /\ checked' = IF Len(Steps) > 0 THEN checked \cup {<<pos.version, pos.stage>>} ELSE checked
  /\ UNCHANGED <<flags, history, complete, pending, copied, boot, rebooting, ghost, faults>>

recordsHistory(stage) == stage \in {"apply", "upgrade", "uninstall"}

(* Mutant of Record: the flags of an uninstalled package are left alone. *)
RecordOnly ==
  /\ proc.pc = "record"
  /\ history' = CASE pos.stage = "uninstall" -> <<"uninstalled">>
                  [] recordsHistory(pos.stage) /\ pos.stage # "uninstall" -> <<"version", pos.version>>
                  [] OTHER -> history
  /\ PodSucceeds
  /\ UNCHANGED <<flags, checked, complete, pending, copied, boot, rebooting, ghost, faults>>

(* history.Record, and the end of every check but the one of an uninstall. *)
Record ==
  /\ proc.pc = "record"
  /\ history' = CASE pos.stage = "uninstall" -> <<"uninstalled">>
                  [] recordsHistory(pos.stage) /\ pos.stage # "uninstall" -> <<"version", pos.version>>
                  [] OTHER -> history
  /\ IF pos.stage = "uninstall" THEN Goto("remove") ELSE PodSucceeds
  /\ UNCHANGED <<flags, checked, complete, pending, copied, boot, rebooting, ghost, faults>>

(* Mutant of RemoveFlag: the legacy flags stay. *)
RemoveFingerprints ==
  /\ proc.pc = "remove"
  /\ LET fingerprinted == {f \in flags[pos.version] : f[1] = "flag"}
     IN IF fingerprinted = {}
          THEN /\ PodSucceeds /\ UNCHANGED flags
               /\ succeeded' = {e \in succeeded : e[1] # pos.version}
          ELSE /\ UNCHANGED succeeded
               /\ \E f \in fingerprinted : flags' = [flags EXCEPT ![pos.version] = @ \ {f}]
               /\ UNCHANGED <<op, proc>>
  /\ UNCHANGED <<history, checked, complete, pending, copied, boot, rebooting, effect, executed, began, faults>>

(* removeStepFlags, a file at a time. *)
RemoveFlag ==
  /\ proc.pc = "remove"
  /\ IF flags[pos.version] = {}
       THEN /\ PodSucceeds /\ UNCHANGED flags
            /\ succeeded' = {e \in succeeded : e[1] # pos.version}
       ELSE /\ UNCHANGED succeeded
            /\ \E f \in flags[pos.version] : flags' = [flags EXCEPT ![pos.version] = @ \ {f}]
            /\ UNCHANGED <<op, proc>>
  /\ UNCHANGED <<history, checked, complete, pending, copied, boot, rebooting, effect, executed, began, faults>>

----------------------------------------------------------------------------
(* runInterrupt *)

Marked(o) == <<rid, o>> \in complete

(* All operations marked: nothing to do.  A restart is decided by the boot ID:
   a pending marker of another boot becomes the completion marker, any other
   one is removed and written again. *)
SkipInterrupt ==
  /\ proc.pc = "interrupt"
  /\ \/ /\ Markers # {} /\ \A o \in Markers : Marked(o)
        /\ PodSucceeds
        /\ UNCHANGED <<complete, pending>>
     \/ /\ kind = "node_restart" /\ ~Marked(1)
        /\ pending[rid] \notin {NoBoot, Malformed, boot}
        /\ complete' = complete \cup {<<rid, 1>>}
        /\ pending' = [pending EXCEPT ![rid] = NoBoot]
        /\ PodSucceeds
  /\ UNCHANGED <<flags, history, checked, copied, boot, rebooting, ghost, faults>>

(* Mutant of RestartDue: a marker left in the same boot is not replaced. *)
RestartDueOnce == pending[rid] = NoBoot

RestartDue == pending[rid] \in {NoBoot, Malformed, boot}

(* The pending marker is created (empty at first), then filled; until the
   command is started a failure removes it. *)
prepareNodeRestartMarker ==
  /\ kind = "node_restart"
  /\ \/ /\ proc.pc = "interrupt" /\ ~Marked(1) /\ RestartDue
        /\ pending' = [pending EXCEPT ![rid] = Malformed]
        /\ began' = [began EXCEPT ![<<job, pos.version>>] = IF @ = NoBoot THEN boot ELSE @]
        /\ Goto("pending") /\ UNCHANGED faults
     \/ /\ proc.pc = "pending"
        /\ pending' = [pending EXCEPT ![rid] = boot]
        /\ Goto("reboot") /\ UNCHANGED <<began, faults>>
     \/ /\ proc.pc \in {"pending", "reboot"} /\ Spend
        /\ pending' = [pending EXCEPT ![rid] = NoBoot]
        /\ PodFails /\ UNCHANGED began
  /\ UNCHANGED <<flags, history, checked, complete, copied, boot, rebooting, effect, succeeded, executed>>

(* reboot: the command fails, or the reboot is under way.  Then either the
   command is ended by the shutdown, which counts as success, or the agent
   waits and gives up; the marker stays in every case. *)
NodeRestart ==
  /\ proc.pc = "reboot"
  /\ \/ rebooting' = TRUE /\ PodSucceeds /\ UNCHANGED faults
     \/ rebooting' = TRUE /\ PodFails /\ Spend
     \/ UNCHANGED rebooting /\ PodFails /\ Spend
  /\ UNCHANGED <<flags, history, checked, complete, pending, copied, boot, ghost>>

(* The commands of the other interrupts, in order, each marked once it has
   succeeded; the marker file is created without replacing one. *)
Unmarked == {o \in Markers : ~Marked(o)}
FirstPending == CHOOSE o \in Unmarked : \A p \in Unmarked : o <= p

RunPending ==
  /\ proc.pc = "interrupt" /\ kind # "node_restart" /\ Unmarked # {}
  /\ \/ /\ executed' = executed \cup {<<job, pos.version, FirstPending>>}
        /\ Goto("complete") /\ UNCHANGED faults
     \/ Spend /\ PodFails /\ UNCHANGED executed
  /\ UNCHANGED <<host, effect, succeeded, began>>

markInterruptComplete ==
  /\ proc.pc = "complete"
  /\ \/ /\ complete' = complete \cup {<<rid, FirstPending>>}
        /\ Goto("interrupt") /\ UNCHANGED faults
     \/ Spend /\ PodFails /\ UNCHANGED complete
  /\ UNCHANGED <<flags, history, checked, pending, copied, boot, rebooting, ghost>>

----------------------------------------------------------------------------
(* Faults. *)

Kill ==
  /\ proc # Idle /\ Spend
  /\ PodFails
  /\ UNCHANGED <<host, ghost>>

Reboot ==
  /\ \/ rebooting /\ UNCHANGED faults
     \/ ~rebooting /\ Spend
  /\ boot' = boot + 1 /\ rebooting' = FALSE
  /\ PodFails
  /\ UNCHANGED <<flags, history, checked, complete, pending, copied, ghost>>

(* Somebody damages the ledger on the host. *)
DamageHistory ==
  /\ history[1] = "version" /\ Spend
  /\ history' = <<"corrupt">>
  /\ UNCHANGED <<op, proc, flags, checked, complete, pending, copied, boot, rebooting, ghost>>

Invocation ==
  \/ CopyPackage \/ runRequest \/ SkipStep \/ RunStep \/ MarkLegacy \/ MarkFlag \/ RunCheck
  \/ summarizeChecks \/ Record \/ RemoveFlag
  \/ SkipInterrupt \/ prepareNodeRestartMarker \/ NodeRestart \/ RunPending \/ markInterruptComplete

Environment == Kill \/ Reboot \/ DamageHistory

Next ==
  /\ \/ Advance \/ Edit \/ Rerun
     \/ (StartPod \/ Invocation \/ Environment) /\ UNCHANGED edits
  /\ UNCHANGED kind

Spec == Init /\ [][Next]_vars

(* The operator retries a stage until it is recorded (the Job's back-off limit
   lies above the bounds here), the kernel carries out an enqueued reboot. *)
Fairness == WF_vars(Next /\ (Advance \/ StartPod \/ Invocation)) /\ WF_vars(Next /\ rebooting /\ Reboot)
FairSpec == Spec /\ Fairness
----------------------------------------------------------------------------
(* Properties. *)

StageNames == StepStages \cup InterruptStages \cup {"absent"}
StepSet == UNION {{Modes[v][s][i] : i \in 1..Len(Modes[v][s])} : v \in Versions, s \in StepStages}

Procs == [pc : {"idle", "copy", "begin", "step", "mark", "flag", "summarize", "record", "remove",
                "interrupt", "pending", "reboot", "complete"},
          check : BOOLEAN, i : Nat, bad : BOOLEAN, existed : BOOLEAN]
FlagNames == {Path(s) : s \in StepSet} \cup {legacyPath(s) : s \in StepSet}
Ledgers == {<<"missing">>, <<"corrupt">>, <<"uninstalled">>} \cup ({"version"} \X Versions)

(* Type correctness of the host's files and of the running agent. *)
TypeOK ==
  /\ kind \in InterruptKinds /\ edits \in 0..MaxEdits /\ gen \in 1..(edits + 1) /\ job \in 0..gen
  /\ pos \in [version : Versions, stage : StageNames, done : BOOLEAN]
  /\ proc \in Procs
  /\ flags \in [Versions -> SUBSET FlagNames] /\ history \in Ledgers
  /\ checked \subseteq Versions \X StepStages
  /\ complete \subseteq RIDs \X (1..(Operations + 1))
  /\ pending \in [RIDs -> 0..boot] /\ began \in [RIDs -> 0..boot]
  /\ boot \in Nat \ {NoBoot, Malformed} /\ rebooting \in BOOLEAN

(* A stage is reported as done only when each of its steps has succeeded since
   the version was last uninstalled: whatever was killed, rolled back or half
   removed, flags.Check never skips a step that still has to run.  Where a flag
   decides, a step with the same legacy name stands in for it, whatever its
   environment. *)
StandsFor(t, s) == t = s \/ (t.id = s.id /\ pos.stage \in {"apply", "post-interrupt"} /\ ~s.always)
StageRan ==
  pos.done /\ pos.stage \in StepStages \ {"uninstall"} =>
    \A i \in 1..Len(Steps) : \E e \in succeeded : e[1] = pos.version /\ StandsFor(e[2], Steps[i])

(* An interrupt is reported as done only when it has happened for this
   generation and version: every command was run, or the host has rebooted since
   the first attempt or is about to.  Markers of an earlier generation or a
   half-written pending marker never stand in for it (runInterrupt,
   prepareNodeRestartMarker). *)
InterruptHappened ==
  pos.done /\ pos.stage \in InterruptStages =>
    IF kind = "node_restart"
      THEN began[<<job, pos.version>>] # NoBoot /\ (boot > began[<<job, pos.version>>] \/ rebooting)
      ELSE \A o \in Markers : <<job, pos.version, o>> \in executed

(* Once an uninstall is reported as done no flag of the version is left and the
   ledger says so, wherever earlier attempts were killed: a later installation
   starts from nothing (removeStepFlags). *)
UninstallForgets ==
  pos.stage \in {"uninstall-interrupt", "absent"} \/ (pos.stage = "uninstall" /\ pos.done) =>
    flags[pos.version] = {} /\ history = <<"uninstalled">>

(* Every pipeline comes to its end: no sequence of kills, failed writes and
   reboots leaves files behind on which the agent fails for ever.  One case is
   left out: an interrupt pod built after an edit looks for a copy of the
   package under the new generation, and nothing puts it there
   (ensurePackageData). *)
CopyMissing == pos.stage \in InterruptStages /\ job # 0 /\ ~ensurePackageData
PipelineEnds == <>[](CopyMissing \/ (pos.done /\ NextStage(pos.stage) = "end"))

(* docs/user-guide/uninstall.md, Cancel Uninstall: "Reset to install pipeline
   (`StageApply`). Package re-installs."  The flags of the apply steps survive
   until the uninstall's checks have passed, so flags.Check skips the steps the
   uninstall has undone. *)
CancelReinstalls ==
  pos.done /\ pos.stage = "apply" => \A i \in 1..Len(Steps) : <<pos.version, Steps[i]>> \in effect
============================================================================
