---------------------------- MODULE SharedProofs ----------------------------
(***************************************************************************)
(* Proofs about SharedNodes, for any number of nodes and NodeWrights and   *)
(* any bounds.                                                             *)
(*                                                                         *)
(* First what the node wrapper's operators do, then one lemma per action   *)
(* with its effect field by field (with them the types), then five         *)
(* inductive invariants: the shared cordon, the deletion, reboots, the     *)
(* runtime-required taint, and whose turn it is.  Deletion and reboots use *)
(* the cordon's, the taint and the turns use the reboots'.                 *)
(***************************************************************************)
EXTENDS SharedNodes, TLAPS

-----------------------------------------------------------------------------
(***************************************************************************)
(* The operators of the node wrapper.                                      *)
(***************************************************************************)
\* new is old with other marks of w, and perhaps another unsched.
Marked(new, old, w) ==
  /\ new \in NodeRecords
  /\ new.boot = old.boot /\ new.taint = old.taint /\ new.autoTaint = old.autoTaint
  /\ new.rrCordon = old.rrCordon
  /\ \A v \in Wrights \ {w} : new.of[v] = old.of[v]

\* A node that holds every cordon on it (CordonHeld, of one node).
Held(nd) == \A v \in Wrights : nd.of[v].cordon => nd.unsched

\* SetMarks changes the marks of one NodeWright and nothing else of the node.
LEMMA SetMarksFacts ==
  ASSUME NEW nd \in NodeRecords, NEW w \in Wrights, NEW marks \in Marks
  PROVE  /\ Marked(SetMarks(nd, w, marks), nd, w)
         /\ SetMarks(nd, w, marks).of[w] = marks
         /\ SetMarks(nd, w, marks).unsched = nd.unsched
  BY DEF SetMarks, Marked, NodeRecords

\* The same with another unsched.
LEMMA SetMarksUnsched ==
  ASSUME NEW nd \in NodeRecords, NEW w \in Wrights, NEW marks \in Marks, NEW u \in BOOLEAN
  PROVE  /\ Marked(SetMarks([nd EXCEPT !.unsched = u], w, marks), nd, w)
         /\ SetMarks([nd EXCEPT !.unsched = u], w, marks).of[w] = marks
         /\ SetMarks([nd EXCEPT !.unsched = u], w, marks).unsched = u
<1> DEFINE x == [nd EXCEPT !.unsched = u]
<1>1. x \in NodeRecords /\ x.unsched = u /\ x.boot = nd.boot /\ x.taint = nd.taint
      /\ x.autoTaint = nd.autoTaint /\ x.rrCordon = nd.rrCordon /\ x.of = nd.of
  BY DEF NodeRecords
<1> HIDE DEF x
<1>2. Marked(SetMarks(x, w, marks), x, w) /\ SetMarks(x, w, marks).of[w] = marks
      /\ SetMarks(x, w, marks).unsched = x.unsched
  BY <1>1, SetMarksFacts
<1>3. Marked(SetMarks(x, w, marks), nd, w) /\ SetMarks(x, w, marks).of[w] = marks
      /\ SetMarks(x, w, marks).unsched = u
  BY <1>1, <1>2 DEF Marked
<1> QED
  BY <1>3 DEF x

\* Cordon makes the node unschedulable and marks w's cordon.
LEMMA CordonFacts ==
  ASSUME NEW nd \in NodeRecords, NEW w \in Wrights
  PROVE  /\ Marked(Cordon(nd, w), nd, w)
         /\ Cordon(nd, w).unsched = TRUE
         /\ Cordon(nd, w).of[w] = [nd.of[w] EXCEPT !.cordon = TRUE]
<1> DEFINE marks == [nd.of[w] EXCEPT !.cordon = TRUE]
<1>1. marks \in Marks
  BY DEF NodeRecords, Marks
<1>2. Cordon(nd, w) = SetMarks([nd EXCEPT !.unsched = TRUE], w, marks)
  BY DEF Cordon
<1> HIDE DEF marks
<1>3. \A u \in BOOLEAN : /\ Marked(SetMarks([nd EXCEPT !.unsched = u], w, marks), nd, w)
                        /\ SetMarks([nd EXCEPT !.unsched = u], w, marks).of[w] = marks
                        /\ SetMarks([nd EXCEPT !.unsched = u], w, marks).unsched = u
  BY <1>1, SetMarksUnsched
<1>4. Marked(SetMarks([nd EXCEPT !.unsched = TRUE], w, marks), nd, w)
      /\ SetMarks([nd EXCEPT !.unsched = TRUE], w, marks).of[w] = marks
      /\ SetMarks([nd EXCEPT !.unsched = TRUE], w, marks).unsched = TRUE
  BY <1>3, Zenon
<1> QED
  BY <1>2, <1>4 DEF marks

\* Uncordon removes w's mark; the node becomes schedulable only if nobody else holds it.
LEMMA UncordonFacts ==
  ASSUME NEW nd \in NodeRecords, NEW w \in Wrights
  PROVE  /\ Marked(Uncordon(nd, w), nd, w)
         /\ Uncordon(nd, w).of[w] = [nd.of[w] EXCEPT !.cordon = FALSE]
         /\ Uncordon(nd, w).unsched => nd.unsched
         /\ ~nd.of[w].cordon => Uncordon(nd, w).unsched = nd.unsched
         /\ (nd.unsched /\ ~Uncordon(nd, w).unsched) => \A v \in Wrights \ {w} : ~nd.of[v].cordon
<1> DEFINE marks == [nd.of[w] EXCEPT !.cordon = FALSE]
           x == SetMarks(nd, w, marks)
<1>1. nd.of[w] \in Marks /\ marks \in Marks
  BY DEF NodeRecords, Marks
<1>2. Marked(x, nd, w) /\ x.of[w] = marks /\ x.unsched = nd.unsched
  BY <1>1, SetMarksFacts
<1>3. CASE ~nd.of[w].cordon
  <2>1. Uncordon(nd, w) = nd
    BY <1>3 DEF Uncordon
  <2>2. marks = nd.of[w]
    BY <1>1, <1>3 DEF Marks
  <2> QED
    BY <2>1, <2>2 DEF Marked
<1>4. CASE nd.of[w].cordon
  <2> DEFINE u == nd.unsched /\ HasSkyhookCordon(x)
  <2>1. Uncordon(nd, w) = [x EXCEPT !.unsched = u]
    BY <1>4 DEF Uncordon
  <2>2. u \in BOOLEAN
    OBVIOUS
  <2>3. ~u /\ nd.unsched => \A v \in Wrights \ {w} : ~nd.of[v].cordon
    BY <1>2 DEF HasSkyhookCordon, Marked
  <2>4. x \in NodeRecords
    BY <1>2 DEF Marked
  <2> HIDE DEF u, x, marks
  <2>5. [x EXCEPT !.unsched = u] \in NodeRecords /\ [x EXCEPT !.unsched = u].unsched = u
        /\ [x EXCEPT !.unsched = u].of = x.of /\ [x EXCEPT !.unsched = u].boot = x.boot
        /\ [x EXCEPT !.unsched = u].taint = x.taint /\ [x EXCEPT !.unsched = u].autoTaint = x.autoTaint
        /\ [x EXCEPT !.unsched = u].rrCordon = x.rrCordon
    BY <2>2, <2>4 DEF NodeRecords
  <2>6. Marked([x EXCEPT !.unsched = u], nd, w)
    BY <2>5, <1>2 DEF Marked
  <2>7. u => nd.unsched
    BY DEF u
  <2> QED
    BY <2>1, <2>3, <2>5, <2>6, <2>7, <1>2, <1>4 DEF marks
<1> QED
  BY <1>3, <1>4

\* The statuses of a NodeWright on a node.
Statuses == {"none", "waiting", "in_progress", "erroring", "complete", "pause", "disable"}

\* A new status changes neither entry nor drain, and loses nobody's cordon.
LEMMA SetStatusFacts ==
  ASSUME NEW nd \in NodeRecords, NEW w \in Wrights, NEW s \in Statuses
  PROVE  /\ Marked(SetStatus(nd, w, s), nd, w)
         /\ SetStatus(nd, w, s).of[w].status = s
         /\ SetStatus(nd, w, s).of[w].entry = nd.of[w].entry
         /\ SetStatus(nd, w, s).of[w].drain = nd.of[w].drain
         /\ s # "complete" => /\ SetStatus(nd, w, s).unsched = nd.unsched
                              /\ SetStatus(nd, w, s).of[w].cordon = nd.of[w].cordon
         /\ Held(nd) => Held(SetStatus(nd, w, s))
<1> DEFINE marks == [nd.of[w] EXCEPT !.status = s]
           x == SetMarks(nd, w, marks)
<1>1. nd.of[w] \in Marks /\ marks \in Marks /\ marks.status = s /\ marks.entry = nd.of[w].entry
      /\ marks.drain = nd.of[w].drain /\ marks.cordon = nd.of[w].cordon
  BY DEF NodeRecords, Marks, Statuses
<1>2. Marked(x, nd, w) /\ x.of[w] = marks /\ x.unsched = nd.unsched
  BY <1>1, SetMarksFacts
<1>3. x \in NodeRecords
  BY <1>2 DEF Marked
<1>4. Held(nd) => Held(x)
  BY <1>1, <1>2 DEF Held, Marked
<1>5. CASE s # "complete"
  <2>1. SetStatus(nd, w, s) = x
    BY <1>5 DEF SetStatus
  <2> HIDE DEF x, marks
  <2> QED
    BY <2>1, <1>1, <1>2, <1>4, <1>5
<1>6. CASE s = "complete"
  <2>1. SetStatus(nd, w, s) = Uncordon(x, w)
    BY <1>6 DEF SetStatus
  <2> HIDE DEF x, marks
  <2> DEFINE y == Uncordon(x, w)
  <2>2. Marked(y, x, w) /\ y.of[w] = [x.of[w] EXCEPT !.cordon = FALSE] /\ (y.unsched => x.unsched)
        /\ (~x.of[w].cordon => y.unsched = x.unsched)
        /\ ((x.unsched /\ ~y.unsched) => \A v \in Wrights \ {w} : ~x.of[v].cordon)
    BY <1>3, UncordonFacts
  <2> HIDE DEF y
  <2>3. y.of[w].status = s /\ y.of[w].entry = nd.of[w].entry /\ y.of[w].drain = nd.of[w].drain
        /\ y.of[w].cordon = FALSE
    BY <2>2, <1>1, <1>2 DEF Marks
  <2>4. Marked(y, nd, w)
    BY <2>2, <1>2 DEF Marked
  <2>5. Held(x) => Held(y)
    BY <2>2, <2>3 DEF Held, Marked, NodeRecords
  <2> QED
    BY <2>1, <2>3, <2>4, <2>5, <1>4, <1>6 DEF y
<1> QED
  BY <1>5, <1>6

\* A write sends, field by field, what the copy changed since the snapshot.
LEMMA PatchedFacts ==
  ASSUME NEW w \in Wrights, NEW n \in Nodes, NEW snap \in NodeRecords, NEW mem \in NodeRecords,
         node \in [Nodes -> NodeRecords]
  PROVE  LET x == Patched(n, w, snap, mem) IN
         /\ Marked(x, node[n], w)
         /\ x.unsched = Merged(node[n].unsched, snap.unsched, mem.unsched)
         /\ x.of[w].status = Merged(node[n].of[w].status, snap.of[w].status, mem.of[w].status)
         /\ x.of[w].entry = Merged(node[n].of[w].entry, snap.of[w].entry, mem.of[w].entry)
         /\ x.of[w].cordon = Merged(node[n].of[w].cordon, snap.of[w].cordon, mem.of[w].cordon)
         /\ x.of[w].drain = Merged(node[n].of[w].drain, snap.of[w].drain, mem.of[w].drain)
<1> DEFINE now == node[n].of[w]
           old == snap.of[w]
           new == mem.of[w]
           u == Merged(node[n].unsched, snap.unsched, mem.unsched)
           marks == [status |-> Merged(now.status, old.status, new.status),
                     entry |-> Merged(now.entry, old.entry, new.entry),
                     cordon |-> Merged(now.cordon, old.cordon, new.cordon),
                     drain |-> Merged(now.drain, old.drain, new.drain)]
<1>1. now \in Marks /\ old \in Marks /\ new \in Marks /\ u \in BOOLEAN
  BY DEF NodeRecords, Merged
<1>2. marks \in Marks
  <2> HIDE DEF now, old, new
  <2> QED
    BY <1>1 DEF Marks, Merged
<1>3. Patched(n, w, snap, mem) = SetMarks([node[n] EXCEPT !.unsched = u], w, marks)
  BY DEF Patched
<1>4. node[n] \in NodeRecords
  OBVIOUS
<1> HIDE DEF u
<1>5. Marked(Patched(n, w, snap, mem), node[n], w) /\ Patched(n, w, snap, mem).of[w] = marks
      /\ Patched(n, w, snap, mem).unsched = u
  <2> HIDE DEF marks
  <2> QED
    BY <1>1, <1>2, <1>3, <1>4, SetMarksUnsched
<1> QED
  BY <1>5 DEF u

-----------------------------------------------------------------------------
\* The initial records have their types.
LEMMA RecordsInhabited ==
  /\ NoMarks \in Marks /\ NewNode \in NodeRecords /\ NoJob \in JobRecords
  /\ NewWright \in WrightRecords /\ IdlePass \in PassRecords
<1>1. NoMarks \in Marks
  BY DEF NoMarks, Marks
<1>2. NewNode \in NodeRecords
  BY <1>1 DEF NewNode, NodeRecords
<1>3. NoJob \in JobRecords
  BY DEF NoJob, JobRecords
<1>4. NewWright \in WrightRecords
  BY DEF NewWright, WrightRecords, Modes
<1>5. IdlePass \in PassRecords
  BY <1>2 DEF IdlePass, PassRecords
<1> QED
  BY <1>1, <1>2, <1>3, <1>4, <1>5

\* SetJob changes one Job.
LEMMA SetJobFacts ==
  ASSUME NEW n \in Nodes, NEW w \in Wrights, NEW j \in JobRecords,
         job \in [Nodes -> [Wrights -> JobRecords]]
  PROVE  /\ SetJob(n, w, j) \in [Nodes -> [Wrights -> JobRecords]]
         /\ SetJob(n, w, j)[n][w] = j
         /\ \A m \in Nodes, v \in Wrights : m # n \/ v # w => SetJob(n, w, j)[m][v] = job[m][v]
  BY DEF SetJob

\* The counters and the history have their types.
LEMMA UsedFields ==
  ASSUME NEW u \in UsedRecords
  PROVE  /\ u.errors + 1 \in Nat /\ u.edits + 1 \in Nat /\ u.reboots + 1 \in Nat
         /\ u.crashes + 1 \in Nat /\ u.kept \in SUBSET (Nodes \X Wrights)
         /\ u.resumed \in SUBSET Wrights
  BY DEF UsedRecords

\* The parts of a pass have their types.
LEMMA PassFields ==
  ASSUME NEW p \in PassRecords
  PROVE  /\ p.snap \in [Nodes -> NodeRecords] /\ p.mem \in [Nodes -> NodeRecords]
         /\ p.todo \in SUBSET (Wrights \X Nodes) /\ p.save \in SUBSET Wrights
         /\ p.boots \in [Wrights -> [Nodes -> Nat]]
  BY DEF PassRecords

\* What the proofs know of each action: its guards, and its effect field by field.
LEMMA HandleAutoTaintEffect ==
  ASSUME TypeOK, HandleAutoTaint
  PROVE  /\ TypeOK'
         /\ pass.pc = "idle" /\ UNCHANGED <<wright, job, workload, applied, pass, used>>
         /\ \A m \in Nodes :
              /\ node'[m].of = node[m].of /\ node'[m].unsched = node[m].unsched
              /\ node'[m].boot = node[m].boot /\ node'[m].rrCordon = node[m].rrCordon
              /\ \/ node'[m].taint = TRUE
                 \/ node'[m].taint = node[m].taint /\ node'[m].autoTaint = node[m].autoTaint
<1> DEFINE tainted(m) == [node[m] EXCEPT !.taint = TRUE, !.autoTaint = TRUE]
<1>0. ASSUME NEW nd \in NodeRecords, NEW x, x = [nd EXCEPT !.taint = TRUE, !.autoTaint = TRUE]
      PROVE  /\ x \in NodeRecords /\ x.of = nd.of /\ x.unsched = nd.unsched /\ x.boot = nd.boot
             /\ x.rrCordon = nd.rrCordon /\ x.taint = TRUE
  BY <1>0 DEF NodeRecords
<1>1. \A m \in Nodes : /\ tainted(m) \in NodeRecords /\ tainted(m).of = node[m].of
                      /\ tainted(m).unsched = node[m].unsched /\ tainted(m).boot = node[m].boot
                      /\ tainted(m).rrCordon = node[m].rrCordon /\ tainted(m).taint = TRUE
  BY <1>0 DEF TypeOK
<1>2. node' = [m \in Nodes |-> IF m \in AutoTaintNodes THEN tainted(m) ELSE node[m]]
  BY DEF HandleAutoTaint
<1> HIDE DEF tainted
<1>3. \A m \in Nodes : node'[m] = tainted(m) \/ node'[m] = node[m]
  BY <1>2
<1>4. node' \in [Nodes -> NodeRecords]
  BY <1>1, <1>2 DEF TypeOK
<1>5. pass.pc = "idle" /\ UNCHANGED <<wright, job, workload, applied, pass, used>>
  BY DEF HandleAutoTaint
<1>6. TypeOK'
  BY <1>4, <1>5 DEF TypeOK
<1> QED
  BY <1>1, <1>3, <1>5, <1>6

\* A reboot pass begins with what the NodeWrights recorded.
LEMMA TrackRebootsEffect ==
  ASSUME TypeOK, TrackReboots
  PROVE  /\ TypeOK'
         /\ pass.pc = "idle" /\ UNCHANGED <<wright, node, job, workload, applied, used>>
         /\ pass'.pc = "reboot" /\ pass'.snap = node
         /\ \A w \in Wrights, n \in Nodes :
              /\ pass'.boots[w][n] = wright[w].boots[n]
              /\ <<w, n>> \in pass'.todo => w \in pass'.save /\ wright[w].boots[n] # node[n].boot
<1> DEFINE boots == [w \in Wrights |-> wright[w].boots]
           save == {p[1] : p \in Rebooted}
<1>1. boots \in [Wrights -> [Nodes -> Nat]]
  BY DEF TypeOK, WrightRecords
<1>2. Rebooted \in SUBSET (Wrights \X Nodes) /\ save \in SUBSET Wrights
  BY DEF Rebooted, Present
<1>3. pass' = [IdlePass EXCEPT !.pc = "reboot", !.snap = node, !.todo = Rebooted, !.save = save,
                               !.boots = boots]
  BY DEF TrackReboots
<1>4. \A w \in Wrights, n \in Nodes : <<w, n>> \in Rebooted =>
        w \in save /\ wright[w].boots[n] # node[n].boot
  BY DEF Rebooted
<1> HIDE DEF boots, save
<1>5. pass' \in PassRecords /\ pass'.pc = "reboot" /\ pass'.snap = node /\ pass'.todo = Rebooted
      /\ pass'.save = save /\ pass'.boots = boots
  BY <1>1, <1>2, <1>3, RecordsInhabited DEF PassRecords, TypeOK
<1>6. pass.pc = "idle" /\ UNCHANGED <<wright, node, job, workload, applied, used>>
  BY DEF TrackReboots
<1>7. TypeOK'
  BY <1>5, <1>6 DEF TypeOK
<1> QED
  BY <1>4, <1>5, <1>6, <1>7 DEF boots

\* A reset clears w's marks and keeps the rest; auto-taint taints in the same write.
LEMMA ResetRebootedFacts ==
  ASSUME NEW nd \in NodeRecords, NEW w \in Wrights
  PROVE  LET x == ResetRebooted(nd, w) IN
         /\ x \in NodeRecords /\ x.boot = nd.boot /\ x.unsched = nd.unsched
         /\ x.autoTaint = nd.autoTaint /\ x.rrCordon = nd.rrCordon /\ x.of[w] = NoMarks
         /\ \A v \in Wrights \ {w} : x.of[v] = nd.of[v]
         /\ (nd.taint = TRUE \/ w \in AutoTaint) => x.taint = TRUE
         /\ w \notin AutoTaint => x.taint = nd.taint
<1> DEFINE x == Reset(nd, w)
           t == nd.taint \/ w \in AutoTaint
<1>1. Marked(x, nd, w) /\ x.of[w] = NoMarks /\ x.unsched = nd.unsched
  BY RecordsInhabited, SetMarksFacts DEF Reset
<1>2. ResetRebooted(nd, w) = [x EXCEPT !.taint = t]
  BY DEF ResetRebooted
<1>3. nd.taint \in BOOLEAN
  BY DEF NodeRecords
<1>4. t \in BOOLEAN /\ ((nd.taint = TRUE \/ w \in AutoTaint) => t = TRUE)
      /\ (w \notin AutoTaint => t = nd.taint)
  BY <1>3
<1> HIDE DEF x, t
<1> QED
  BY <1>1, <1>2, <1>4 DEF Marked, NodeRecords

\* A reset touches one NodeWright's marks, Job and boot id on one node.
RebootKeeps(w, n) ==
  \A m \in Nodes, v \in Wrights : (m # n \/ v # w) =>
    /\ node'[m].of[v] = node[m].of[v] /\ job'[m][v] = job[m][v]
    /\ pass'.boots[v][m] = pass.boots[v][m]

\* The first boot of a node is only noted; later ones reset it, or a failed write leaves
\* the boot id as it was.
RebootOutcome(w, n) ==
  \/ /\ pass.boots[w][n] = 0 \/ ~ReapplyOnReboot
     /\ node' = node /\ job' = job /\ pass'.boots[w][n] = pass.snap[n].boot
  \/ /\ pass.boots[w][n] # 0 /\ ReapplyOnReboot /\ node'[n].of[w] = NoMarks
     /\ w \in AutoTaint => node'[n].taint = TRUE
     /\ w \notin AutoTaint => node'[n].taint = node[n].taint
     /\ \/ job'[n][w] = NoJob
        \/ job'[n][w] = job[n][w] /\ <<n, w>> \in used'.kept
     /\ pass'.boots[w][n] = pass.snap[n].boot
  \/ /\ pass.boots[w][n] # 0 /\ ReapplyOnReboot /\ node' = node /\ job'[n][w] = NoJob
     /\ pass'.boots[w][n] = pass.boots[w][n]

\* One node of a reboot pass.
LEMMA TrackRebootEffect ==
  ASSUME TypeOK, NEW w \in Wrights, NEW n \in Nodes, TrackReboot(w, n)
  PROVE  /\ TypeOK'
         /\ pass.pc = "reboot" /\ <<w, n>> \in pass.todo /\ UNCHANGED <<wright, workload, applied>>
         /\ used'.resumed = used.resumed /\ used.kept \subseteq used'.kept
         /\ pass'.pc = "reboot" /\ pass'.snap = pass.snap /\ pass'.save = pass.save
         /\ pass'.todo = pass.todo \ {<<w, n>>}
         /\ \A m \in Nodes :
              /\ node'[m].boot = node[m].boot /\ node'[m].unsched = node[m].unsched
              /\ node'[m].autoTaint = node[m].autoTaint /\ node'[m].rrCordon = node[m].rrCordon
              /\ node[m].taint = TRUE => node'[m].taint = TRUE
              /\ m # n => node'[m].taint = node[m].taint
         /\ RebootKeeps(w, n) /\ RebootOutcome(w, n)
<1> USE DEF TypeOK
<1> DEFINE deleted == SetJob(n, w, NoJob)
           after == ResetRebooted(node[n], w)
           noted == [pass.boots EXCEPT ![w] = [pass.boots[w] EXCEPT ![n] = pass.snap[n].boot]]
           Done(b) == pass' = [pass EXCEPT !.todo = @ \ {<<w, n>>}, !.boots = b]
<1>1. pass.pc = "reboot" /\ <<w, n>> \in pass.todo /\ UNCHANGED <<wright, workload, applied>>
  BY DEF TrackReboot
<1>2. \/ /\ pass.boots[w][n] = 0 \/ ~ReapplyOnReboot
         /\ node' = node /\ job' = job /\ Done(noted) /\ used' = used
      \/ /\ pass.boots[w][n] # 0 /\ ReapplyOnReboot
         /\ job' = deleted /\ node' = [node EXCEPT ![n] = after] /\ Done(noted) /\ used' = used
      \/ /\ pass.boots[w][n] # 0 /\ ReapplyOnReboot
         /\ used' = [used EXCEPT !.errors = @ + 1, !.kept = @ \cup {<<n, w>>}]
         /\ job' = job /\ node' = [node EXCEPT ![n] = after] /\ Done(noted)
      \/ /\ pass.boots[w][n] # 0 /\ ReapplyOnReboot
         /\ used' = [used EXCEPT !.errors = @ + 1]
         /\ job' = deleted /\ node' = node /\ Done(pass.boots)
  BY DEF TrackReboot, RecordBoot, Fails
<1>3. /\ deleted \in [Nodes -> [Wrights -> JobRecords]] /\ deleted[n][w] = NoJob
      /\ \A m \in Nodes, v \in Wrights : m # n \/ v # w => deleted[m][v] = job[m][v]
  BY RecordsInhabited, SetJobFacts
<1>4. /\ noted \in [Wrights -> [Nodes -> Nat]] /\ noted[w][n] = pass.snap[n].boot
      /\ \A m \in Nodes, v \in Wrights : m # n \/ v # w => noted[v][m] = pass.boots[v][m]
  BY DEF PassRecords, NodeRecords
<1>5a. node[n] \in NodeRecords
  OBVIOUS
<1>5. /\ after \in NodeRecords /\ after.boot = node[n].boot /\ after.unsched = node[n].unsched
      /\ after.autoTaint = node[n].autoTaint /\ after.rrCordon = node[n].rrCordon
      /\ after.of[w] = NoMarks
      /\ \A v \in Wrights \ {w} : after.of[v] = node[n].of[v]
      /\ (node[n].taint = TRUE \/ w \in AutoTaint) => after.taint = TRUE
      /\ w \notin AutoTaint => after.taint = node[n].taint
  BY <1>5a, ResetRebootedFacts
<1>6. pass \in PassRecords /\ used \in UsedRecords /\ pass.boots \in [Wrights -> [Nodes -> Nat]]
      /\ pass.todo \ {<<w, n>>} \in SUBSET (Wrights \X Nodes)
      /\ used.kept \cup {<<n, w>>} \in SUBSET (Nodes \X Wrights) /\ used.errors + 1 \in Nat
  BY PassFields, UsedFields
<1> HIDE DEF deleted, after, noted, TypeOK
<1>6a. ASSUME NEW b \in [Wrights -> [Nodes -> Nat]], Done(b)
       PROVE  /\ pass' \in PassRecords /\ pass'.pc = "reboot" /\ pass'.snap = pass.snap
              /\ pass'.save = pass.save /\ pass'.todo = pass.todo \ {<<w, n>>} /\ pass'.boots = b
  BY <1>1, <1>6, <1>6a DEF PassRecords
<1>7. /\ used' = [used EXCEPT !.errors = @ + 1, !.kept = @ \cup {<<n, w>>}] =>
           /\ used' \in UsedRecords /\ used'.resumed = used.resumed
           /\ used'.kept = used.kept \cup {<<n, w>>}
      /\ used' = [used EXCEPT !.errors = @ + 1] =>
           used' \in UsedRecords /\ used'.resumed = used.resumed /\ used'.kept = used.kept
  BY <1>6 DEF UsedRecords
<1> HIDE DEF Done
<1>8. node \in [Nodes -> NodeRecords] /\ job \in [Nodes -> [Wrights -> JobRecords]]
  BY DEF TypeOK
<1>9. pass'.pc = "reboot" /\ pass'.snap = pass.snap /\ pass'.save = pass.save
      /\ pass'.todo = pass.todo \ {<<w, n>>} /\ pass' \in PassRecords
  BY <1>2, <1>4, <1>6, <1>6a
<1>10. used'.resumed = used.resumed /\ used.kept \subseteq used'.kept /\ used' \in UsedRecords
  BY <1>2, <1>6, <1>7
<1>11. node' \in [Nodes -> NodeRecords] /\ job' \in [Nodes -> [Wrights -> JobRecords]]
  BY <1>2, <1>3, <1>5, <1>8
<1>12. TypeOK'
  BY <1>1, <1>9, <1>10, <1>11 DEF TypeOK
<1>13. ASSUME NEW m \in Nodes, NEW v \in Wrights, m # n \/ v # w
       PROVE  /\ node'[m].of[v] = node[m].of[v] /\ job'[m][v] = job[m][v]
              /\ pass'.boots[v][m] = pass.boots[v][m]
  <2>1. node'[m].of[v] = node[m].of[v]
    BY <1>2, <1>5, <1>8, <1>13
  <2>2. job'[m][v] = job[m][v]
    BY <1>2, <1>3, <1>8, <1>13
  <2>3. pass'.boots = noted \/ pass'.boots = pass.boots
    BY <1>2, <1>4, <1>6, <1>6a
  <2> QED
    BY <2>1, <2>2, <2>3, <1>4, <1>13
<1>14. \A m \in Nodes :
              /\ node'[m].boot = node[m].boot /\ node'[m].unsched = node[m].unsched
              /\ node'[m].autoTaint = node[m].autoTaint /\ node'[m].rrCordon = node[m].rrCordon
              /\ node[m].taint = TRUE => node'[m].taint = TRUE
              /\ m # n => node'[m].taint = node[m].taint
  BY <1>2, <1>5, <1>8
<1>15. RebootOutcome(w, n)
  BY <1>2, <1>3, <1>4, <1>5, <1>6, <1>6a, <1>7, <1>8 DEF RebootOutcome
<1>16. RebootKeeps(w, n)
  BY <1>13 DEF RebootKeeps
<1> QED
  BY <1>1, <1>9, <1>10, <1>12, <1>14, <1>15, <1>16

\* The parts of a NodeWright have their types.
LEMMA WrightFields ==
  ASSUME NEW x \in WrightRecords
  PROVE  /\ x.boots \in [Nodes -> Nat] /\ x.mode \in Modes /\ x.gone \in BOOLEAN
         /\ x.finalizer \in BOOLEAN /\ x.deleting \in BOOLEAN
  BY DEF WrightRecords

\* The boot ids of one NodeWright are recorded, or the write fails.
LEMMA UpdateBootIdsEffect ==
  ASSUME TypeOK, NEW w \in Wrights, UpdateBootIds(w)
  PROVE  /\ TypeOK'
         /\ pass.pc = "reboot" /\ w \in pass.save /\ UNCHANGED <<node, job, workload, applied>>
         /\ used'.kept = used.kept /\ used'.resumed = used.resumed
         /\ \A v \in Wrights, n \in Nodes : <<v, n>> \in pass.todo => Order[w] < Order[v]
         /\ \A v \in Wrights \ {w} : wright'[v] = wright[v]
         /\ wright'[w].mode = wright[w].mode /\ wright'[w].deleting = wright[w].deleting
         /\ wright'[w].finalizer = wright[w].finalizer /\ wright'[w].gone = wright[w].gone
         /\ wright'[w].boots = pass.boots[w] \/ wright'[w].boots = wright[w].boots
         /\ \/ pass'.pc = "idle"
            \/ /\ pass'.pc = "reboot" /\ pass'.snap = pass.snap /\ pass'.todo = pass.todo
               /\ pass'.save = pass.save \ {w} /\ pass'.boots = pass.boots
<1>1. pass.pc = "reboot" /\ w \in pass.save /\ UNCHANGED <<node, job, workload, applied>>
  BY DEF UpdateBootIds
<1>2. \A p \in pass.todo : Order[w] < Order[p[1]]
  BY DEF UpdateBootIds
<1>3. \A v \in Wrights, n \in Nodes : <<v, n>> \in pass.todo => Order[w] < Order[v]
  BY <1>2
<1>4. \/ wright' = [wright EXCEPT ![w] = [wright[w] EXCEPT !.boots = pass.boots[w]]] /\ used' = used
      \/ used' = [used EXCEPT !.errors = @ + 1] /\ wright' = wright
  BY DEF UpdateBootIds, Fails
<1>5. pass' = IdlePass \/ pass' = [pass EXCEPT !.save = @ \ {w}]
  BY DEF UpdateBootIds
<1>6. wright \in [Wrights -> WrightRecords] /\ pass \in PassRecords /\ used \in UsedRecords
  BY DEF TypeOK
<1>7. pass.boots[w] \in [Nodes -> Nat] /\ used.errors + 1 \in Nat
  BY <1>6, PassFields, UsedFields
<1>8. used' \in UsedRecords /\ used'.kept = used.kept /\ used'.resumed = used.resumed
  BY <1>4, <1>6, <1>7 DEF UsedRecords
<1> DEFINE x == [wright[w] EXCEPT !.boots = pass.boots[w]]
<1>9. x \in WrightRecords /\ x.boots = pass.boots[w] /\ x.mode = wright[w].mode
      /\ x.deleting = wright[w].deleting /\ x.finalizer = wright[w].finalizer /\ x.gone = wright[w].gone
  BY <1>6, <1>7 DEF WrightRecords
<1>10. wright' = [wright EXCEPT ![w] = x] \/ wright' = wright
  BY <1>4
<1> HIDE DEF x
<1>11. wright' \in [Wrights -> WrightRecords] /\ (\A v \in Wrights \ {w} : wright'[v] = wright[v])
       /\ (wright'[w] = x \/ wright'[w] = wright[w])
  BY <1>6, <1>9, <1>10
<1>12. pass' \in PassRecords
       /\ \/ pass'.pc = "idle"
          \/ /\ pass'.pc = "reboot" /\ pass'.snap = pass.snap /\ pass'.todo = pass.todo
             /\ pass'.save = pass.save \ {w} /\ pass'.boots = pass.boots
  <2>1. CASE pass' = IdlePass
    BY <2>1, RecordsInhabited DEF IdlePass
  <2>2. CASE pass' = [pass EXCEPT !.save = @ \ {w}]
    BY <2>2, <1>1, <1>6 DEF PassRecords
  <2> QED
    BY <2>1, <2>2, <1>5
<1>13. TypeOK'
  BY <1>1, <1>8, <1>11, <1>12 DEF TypeOK
<1> QED
  BY <1>1, <1>3, <1>8, <1>9, <1>11, <1>12, <1>13

\* The finalizer is added, and nothing else happens.
LEMMA AddFinalizerEffect ==
  ASSUME TypeOK, NEW w \in Wrights, AddFinalizer(w)
  PROVE  /\ TypeOK'
         /\ pass.pc = "idle" /\ ~wright[w].gone /\ UNCHANGED <<node, job, workload, applied, pass, used>>
         /\ \A v \in Wrights \ {w} : wright'[v] = wright[v]
         /\ wright'[w].mode = wright[w].mode /\ wright'[w].deleting = wright[w].deleting
         /\ wright'[w].finalizer = TRUE /\ wright'[w].gone = wright[w].gone
         /\ wright'[w].boots = wright[w].boots
<1> DEFINE x == [wright[w] EXCEPT !.finalizer = TRUE]
<1>1. pass.pc = "idle" /\ ~wright[w].gone /\ UNCHANGED <<node, job, workload, applied, pass, used>>
      /\ wright' = [wright EXCEPT ![w] = x]
  BY DEF AddFinalizer, Reaches, Present
<1>2. wright \in [Wrights -> WrightRecords]
  BY DEF TypeOK
<1>3. x \in WrightRecords /\ x.boots = wright[w].boots /\ x.mode = wright[w].mode
      /\ x.deleting = wright[w].deleting /\ x.finalizer = TRUE /\ x.gone = wright[w].gone
  BY <1>2 DEF WrightRecords
<1> HIDE DEF x
<1>4. wright' \in [Wrights -> WrightRecords] /\ (\A v \in Wrights \ {w} : wright'[v] = wright[v])
       /\ wright'[w] = x
  BY <1>1, <1>2, <1>3
<1>5. TypeOK'
  BY <1>1, <1>4 DEF TypeOK
<1> QED
  BY <1>1, <1>3, <1>4, <1>5

\* A cleanup begins with every node of w to do.
LEMMA HandleFinalizerEffect ==
  ASSUME TypeOK, NEW w \in Wrights, HandleFinalizer(w)
  PROVE  /\ TypeOK'
         /\ pass.pc = "idle" /\ UNCHANGED <<wright, node, job, workload, applied, used>>
         /\ pass'.pc = "cleanup" /\ pass'.snap = node /\ pass'.save = {w}
         /\ \A v \in Wrights, n \in Nodes : <<v, n>> \in pass'.todo <=> v = w
<1>1. pass.pc = "idle" /\ UNCHANGED <<wright, node, job, workload, applied, used>>
      /\ pass' = [IdlePass EXCEPT !.pc = "cleanup", !.snap = node, !.save = {w}, !.todo = {w} \X Nodes]
  BY DEF HandleFinalizer, Reaches
<1>2. node \in [Nodes -> NodeRecords]
  BY DEF TypeOK
<1>3. {w} \X Nodes \in SUBSET (Wrights \X Nodes) /\ {w} \in SUBSET Wrights
  OBVIOUS
<1> DEFINE t == {w} \X Nodes
           s == {w}
<1>4. \A v \in Wrights, n \in Nodes : <<v, n>> \in t <=> v = w
  OBVIOUS
<1> HIDE DEF t, s
<1>5. pass' \in PassRecords /\ pass'.pc = "cleanup" /\ pass'.snap = node /\ pass'.save = s /\ pass'.todo = t
  BY <1>1, <1>2, <1>3, RecordsInhabited DEF PassRecords, t, s
<1>6. TypeOK'
  BY <1>1, <1>5 DEF TypeOK
<1> QED
  BY <1>1, <1>4, <1>5, <1>6 DEF s

\* A cleaned copy keeps w's entry and none of its other marks.
LEMMA CleanedFacts ==
  ASSUME NEW nd \in NodeRecords, NEW w \in Wrights
  PROVE  LET x == CleanupSCRMetadata(Uncordon(nd, w), w) IN
         /\ x \in NodeRecords
         /\ x.of[w].entry = nd.of[w].entry /\ x.of[w].status = "none"
         /\ x.of[w].cordon = FALSE /\ x.of[w].drain = "none"
         /\ x.unsched => nd.unsched
         /\ (nd.unsched /\ ~x.unsched) => \A v \in Wrights \ {w} : ~nd.of[v].cordon
<1> DEFINE y == Uncordon(nd, w)
           marks == [NoMarks EXCEPT !.entry = y.of[w].entry]
<1>1. Marked(y, nd, w) /\ y.of[w] = [nd.of[w] EXCEPT !.cordon = FALSE] /\ (y.unsched => nd.unsched)
      /\ ((nd.unsched /\ ~y.unsched) => \A v \in Wrights \ {w} : ~nd.of[v].cordon)
  BY UncordonFacts
<1>2. CleanupSCRMetadata(y, w) = SetMarks(y, w, marks)
  BY DEF CleanupSCRMetadata
<1> HIDE DEF y
<1>3. y \in NodeRecords /\ y.of[w].entry = nd.of[w].entry
  BY <1>1 DEF Marked, NodeRecords, Marks
<1>4. y.of[w] \in Marks
  BY <1>3 DEF NodeRecords
<1>5. marks \in Marks /\ marks.entry = nd.of[w].entry /\ marks.status = "none" /\ marks.cordon = FALSE
      /\ marks.drain = "none"
  BY <1>3, <1>4 DEF NoMarks, Marks
<1> HIDE DEF marks
<1>6. Marked(SetMarks(y, w, marks), y, w) /\ SetMarks(y, w, marks).of[w] = marks
      /\ SetMarks(y, w, marks).unsched = y.unsched
  BY <1>3, <1>5, SetMarksFacts
<1>7. SetMarks(y, w, marks) \in NodeRecords
  BY <1>6 DEF Marked
<1> QED
  BY <1>1, <1>2, <1>5, <1>6, <1>7 DEF y

\* One node is cleaned up, or its write fails and nothing will be removed.
LEMMA CleanupNodeEffect ==
  ASSUME TypeOK, NEW w \in Wrights, NEW n \in Nodes, CleanupNode(w, n)
  PROVE  /\ TypeOK'
         /\ pass.pc = "cleanup" /\ <<w, n>> \in pass.todo /\ UNCHANGED <<wright, job, workload, applied>>
         /\ used'.kept = used.kept /\ used'.resumed = used.resumed
         /\ pass'.pc = "cleanup" /\ pass'.snap = pass.snap /\ pass'.todo = pass.todo \ {<<w, n>>}
         /\ \/ /\ pass'.save = pass.save
               /\ \A m \in Nodes \ {n} : node'[m] = node[m]
               /\ Marked(node'[n], node[n], w) /\ node'[n].of[w].entry = node[n].of[w].entry
               /\ node'[n].of[w].cordon = Merged(node[n].of[w].cordon, pass.snap[n].of[w].cordon, FALSE)
               /\ node'[n].of[w].status = Merged(node[n].of[w].status, pass.snap[n].of[w].status, "none")
               /\ node'[n].of[w].drain = Merged(node[n].of[w].drain, pass.snap[n].of[w].drain, "none")
               /\ \/ node'[n].unsched = node[n].unsched
                  \/ /\ node'[n].unsched = FALSE
                     /\ \A v \in Wrights \ {w} : ~pass.snap[n].of[v].cordon
            \/ pass'.save = {} /\ node' = node
<1> DEFINE after == CleanupSCRMetadata(Uncordon(pass.snap[n], w), w)
           x == Patched(n, w, pass.snap[n], after)
<1>1. pass.pc = "cleanup" /\ <<w, n>> \in pass.todo /\ UNCHANGED <<wright, job, workload, applied>>
  BY DEF CleanupNode
<1>2. \/ /\ node' = [node EXCEPT ![n] = x] /\ pass' = [pass EXCEPT !.todo = @ \ {<<w, n>>}]
         /\ used' = used
      \/ /\ used' = [used EXCEPT !.errors = @ + 1]
         /\ pass' = [pass EXCEPT !.todo = @ \ {<<w, n>>}, !.save = {}] /\ node' = node
  BY DEF CleanupNode, Fails
<1>3. node \in [Nodes -> NodeRecords] /\ pass \in PassRecords /\ used \in UsedRecords
  BY DEF TypeOK
<1>4. pass.snap[n] \in NodeRecords /\ node[n] \in NodeRecords /\ used.errors + 1 \in Nat
      /\ pass.todo \ {<<w, n>>} \in SUBSET (Wrights \X Nodes)
  BY <1>3, PassFields, UsedFields
<1>5. /\ after \in NodeRecords
      /\ after.of[w].entry = pass.snap[n].of[w].entry /\ after.of[w].status = "none"
      /\ after.of[w].cordon = FALSE /\ after.of[w].drain = "none"
      /\ after.unsched => pass.snap[n].unsched
      /\ (pass.snap[n].unsched /\ ~after.unsched) => \A v \in Wrights \ {w} : ~pass.snap[n].of[v].cordon
  BY <1>4, CleanedFacts
<1> HIDE DEF after
<1>6. /\ Marked(x, node[n], w)
      /\ x.unsched = Merged(node[n].unsched, pass.snap[n].unsched, after.unsched)
      /\ x.of[w].status = Merged(node[n].of[w].status, pass.snap[n].of[w].status, after.of[w].status)
      /\ x.of[w].entry = Merged(node[n].of[w].entry, pass.snap[n].of[w].entry, after.of[w].entry)
      /\ x.of[w].cordon = Merged(node[n].of[w].cordon, pass.snap[n].of[w].cordon, after.of[w].cordon)
      /\ x.of[w].drain = Merged(node[n].of[w].drain, pass.snap[n].of[w].drain, after.of[w].drain)
  BY <1>3, <1>4, <1>5, PatchedFacts
<1> HIDE DEF x
<1>7. x.of[w].entry = node[n].of[w].entry
  BY <1>5, <1>6 DEF Merged
<1>8. \/ x.unsched = node[n].unsched
      \/ /\ x.unsched = FALSE
         /\ \A v \in Wrights \ {w} : ~pass.snap[n].of[v].cordon
  <2>1. after.unsched \in BOOLEAN /\ pass.snap[n].unsched \in BOOLEAN
    BY <1>4, <1>5 DEF NodeRecords
  <2> QED
    BY <2>1, <1>5, <1>6 DEF Merged
<1>9. x \in NodeRecords
  BY <1>6 DEF Marked
<1>10. node' \in [Nodes -> NodeRecords] /\ (node' = node \/ (node'[n] = x /\ \A m \in Nodes \ {n} : node'[m] = node[m]))
  BY <1>2, <1>3, <1>9
<1>11. pass' \in PassRecords /\ pass'.pc = "cleanup" /\ pass'.snap = pass.snap
       /\ pass'.todo = pass.todo \ {<<w, n>>} /\ (pass'.save = pass.save \/ pass'.save = {})
  BY <1>1, <1>2, <1>3, <1>4 DEF PassRecords
<1>12. used' \in UsedRecords /\ used'.kept = used.kept /\ used'.resumed = used.resumed
  BY <1>2, <1>3, <1>4 DEF UsedRecords
<1>13. TypeOK'
  BY <1>1, <1>10, <1>11, <1>12 DEF TypeOK
<1>14. \/ pass'.save = pass.save /\ node'[n] = x /\ \A m \in Nodes \ {n} : node'[m] = node[m]
       \/ pass'.save = {} /\ node' = node
  BY <1>2, <1>3, <1>4, <1>9 DEF PassRecords
<1> QED
  BY <1>1, <1>5, <1>6, <1>7, <1>8, <1>11, <1>12, <1>13, <1>14

\* The finalizer goes if every node was cleaned up.
LEMMA RemoveFinalizerEffect ==
  ASSUME TypeOK, NEW w \in Wrights, RemoveFinalizer(w)
  PROVE  /\ TypeOK'
         /\ pass.pc = "cleanup" /\ pass.todo = {} /\ UNCHANGED <<node, workload, applied, used>>
         /\ pass'.pc = "idle"
         /\ \/ UNCHANGED <<wright, job>>
            \/ /\ w \in pass.save
               /\ \A v \in Wrights \ {w} : wright'[v] = wright[v]
               /\ wright'[w].mode = wright[w].mode /\ wright'[w].deleting = wright[w].deleting
               /\ wright'[w].finalizer = FALSE /\ wright'[w].gone = TRUE
               /\ wright'[w].boots = wright[w].boots
               /\ \A n \in Nodes : /\ job'[n][w] = NoJob
                                   /\ \A v \in Wrights \ {w} : job'[n][v] = job[n][v]
<1> DEFINE x == [wright[w] EXCEPT !.finalizer = FALSE, !.gone = TRUE]
           j == [n \in Nodes |-> [job[n] EXCEPT ![w] = NoJob]]
<1>1. pass.pc = "cleanup" /\ pass.todo = {} /\ UNCHANGED <<node, workload, applied, used>>
      /\ pass' = IdlePass
  BY DEF RemoveFinalizer
<1>2. \/ UNCHANGED <<wright, job>>
      \/ pass.save = {w} /\ wright' = [wright EXCEPT ![w] = x] /\ job' = j
  BY DEF RemoveFinalizer
<1>3. wright \in [Wrights -> WrightRecords] /\ job \in [Nodes -> [Wrights -> JobRecords]]
  BY DEF TypeOK
<1>4. x \in WrightRecords /\ x.boots = wright[w].boots /\ x.mode = wright[w].mode
      /\ x.deleting = wright[w].deleting /\ x.finalizer = FALSE /\ x.gone = TRUE
  BY <1>3 DEF WrightRecords
<1>5. j \in [Nodes -> [Wrights -> JobRecords]]
      /\ \A n \in Nodes : j[n][w] = NoJob /\ \A v \in Wrights \ {w} : j[n][v] = job[n][v]
  BY <1>3, RecordsInhabited
<1> HIDE DEF x, j
<1>6. pass' \in PassRecords /\ pass'.pc = "idle"
  BY <1>1, RecordsInhabited DEF IdlePass
<1>7. wright' \in [Wrights -> WrightRecords] /\ job' \in [Nodes -> [Wrights -> JobRecords]]
  BY <1>2, <1>3, <1>4, <1>5
<1>8. TypeOK'
  BY <1>1, <1>6, <1>7 DEF TypeOK
<1> QED
  BY <1>1, <1>2, <1>3, <1>4, <1>5, <1>6, <1>8

\* Introspection changes w's status and perhaps its cordon, not its entry.
LEMMA IntrospectedFacts ==
  ASSUME TypeOK, NEW w \in Wrights, NEW n \in Nodes
  PROVE  LET x == Introspected(n, w) IN
         /\ Marked(x, node[n], w)
         /\ x.of[w].entry = node[n].of[w].entry /\ x.of[w].drain = node[n].of[w].drain
         /\ Held(node[n]) => Held(x)
<1>1. node[n] \in NodeRecords /\ wright[w].mode \in Modes
  BY WrightFields DEF TypeOK
<1>2. AllComplete(w) => Completed(node[n], w)
  BY DEF AllComplete
<1>3. Introspected(n, w) = node[n] \/ \E s \in Statuses : Introspected(n, w) = SetStatus(node[n], w, s)
  <2>1. CASE wright[w].mode = "pause"
    BY <2>1 DEF Introspected, Statuses
  <2>2. CASE wright[w].mode = "disable" /\ ~AllComplete(w)
    BY <2>2 DEF Introspected, Statuses
  <2>3. CASE wright[w].mode = "disable" /\ AllComplete(w)
    BY <2>3, <1>2 DEF Introspected, Statuses
  <2>4. CASE wright[w].mode = "run" /\ Completed(node[n], w)
    BY <2>4 DEF Introspected, Statuses
  <2>5. CASE wright[w].mode = "run" /\ ~Completed(node[n], w)
    BY <2>5 DEF Introspected, Statuses
  <2> QED
    BY <2>1, <2>2, <2>3, <2>4, <2>5, <1>1 DEF Modes
<1>4. Marked(node[n], node[n], w)
  BY <1>1 DEF Marked
<1>5. \A s \in Statuses :
        LET x == SetStatus(node[n], w, s) IN
        /\ Marked(x, node[n], w)
        /\ x.of[w].entry = node[n].of[w].entry /\ x.of[w].drain = node[n].of[w].drain
        /\ Held(node[n]) => Held(x)
  BY <1>1, SetStatusFacts
<1> QED
  BY <1>3, <1>4, <1>5

\* The same for all nodes at once.
LEMMA IntrospectSkyhookEffect ==
  ASSUME TypeOK, NEW w \in Wrights, IntrospectSkyhook(w)
  PROVE  /\ TypeOK'
         /\ pass.pc = "idle" /\ UNCHANGED <<wright, job, workload, applied, pass, used>>
         /\ wright[w].finalizer = TRUE
         /\ \A n \in Nodes :
              /\ Marked(node'[n], node[n], w)
              /\ node'[n].of[w].entry = node[n].of[w].entry
              /\ node'[n].of[w].drain = node[n].of[w].drain
              /\ Held(node[n]) => Held(node'[n])
<1>1. pass.pc = "idle" /\ UNCHANGED <<wright, job, workload, applied, pass, used>>
      /\ wright[w].finalizer /\ node' = [n \in Nodes |-> Introspected(n, w)]
  BY DEF IntrospectSkyhook, Reaches
<1>2. wright[w].finalizer = TRUE
  BY <1>1, WrightFields DEF TypeOK
<1>3. \A n \in Nodes :
        /\ Marked(node'[n], node[n], w)
        /\ node'[n].of[w].entry = node[n].of[w].entry
        /\ node'[n].of[w].drain = node[n].of[w].drain
        /\ Held(node[n]) => Held(node'[n])
  BY <1>1, IntrospectedFacts
<1>4. node' \in [Nodes -> NodeRecords]
  BY <1>1, <1>3 DEF Marked
<1>5. TypeOK'
  BY <1>1, <1>4 DEF TypeOK
<1> QED
  BY <1>1, <1>2, <1>3, <1>5

\* The copies of a run pass differ from the nodes in what is to be uninstalled.
LEMMA RequestedFacts ==
  ASSUME TypeOK, NEW n \in Nodes
  PROVE  /\ Requested[n] \in NodeRecords /\ Requested[n].unsched = node[n].unsched
         /\ \A w \in Wrights :
              /\ Requested[n].of[w].cordon = node[n].of[w].cordon
              /\ \/ Requested[n].of[w] = node[n].of[w]
                 \/ /\ Requested[n].of[w].entry = "uninstall" /\ node[n].of[w].entry = "complete"
                    /\ wright[w].deleting = TRUE /\ w \in UninstallEnabled
<1> DEFINE Asked(w) == /\ wright[w].deleting /\ wright[w].mode = "run" /\ w \in UninstallEnabled
                       /\ Completed(node[n], w)
           of == [w \in Wrights |-> IF Asked(w)
                    THEN [node[n].of[w] EXCEPT !.entry = "uninstall", !.status = "in_progress"]
                    ELSE node[n].of[w]]
<1>1. Requested[n] = [node[n] EXCEPT !.of = of]
  BY DEF Requested, HandleUninstallRequests
<1>2. node[n] \in NodeRecords /\ \A w \in Wrights : node[n].of[w] \in Marks
  BY DEF TypeOK, NodeRecords
<1>2a. ASSUME NEW m \in Marks, NEW y, y = [m EXCEPT !.entry = "uninstall", !.status = "in_progress"]
       PROVE  y \in Marks /\ y.cordon = m.cordon /\ y.entry = "uninstall"
  BY <1>2a DEF Marks
<1>3. ASSUME NEW w \in Wrights
      PROVE  /\ of[w] \in Marks /\ of[w].cordon = node[n].of[w].cordon
             /\ \/ of[w] = node[n].of[w]
                \/ /\ of[w].entry = "uninstall" /\ node[n].of[w].entry = "complete"
                   /\ wright[w].deleting = TRUE /\ w \in UninstallEnabled
  <2>1. CASE ~Asked(w)
    <3>1. of[w] = node[n].of[w]
      BY <2>1
    <3> QED
      BY <3>1, <1>2
  <2>2. CASE Asked(w)
    <3>1. of[w] = [node[n].of[w] EXCEPT !.entry = "uninstall", !.status = "in_progress"]
      BY <2>2
    <3>2. wright[w].deleting = TRUE
      BY <2>2, WrightFields DEF TypeOK
    <3>3. node[n].of[w].entry = "complete" /\ w \in UninstallEnabled
      BY <2>2 DEF Completed
    <3>4. of[w] \in Marks /\ of[w].cordon = node[n].of[w].cordon /\ of[w].entry = "uninstall"
      BY <3>1, <1>2, <1>2a
    <3> QED
      BY <3>2, <3>3, <3>4
  <2> QED
    BY <2>1, <2>2
<1>4. of \in [Wrights -> Marks]
  <2>1. of = [w \in Wrights |-> of[w]]
    OBVIOUS
  <2> HIDE DEF of
  <2> QED
    BY <2>1, <1>3
<1> HIDE DEF of
<1>5. Requested[n] \in NodeRecords /\ Requested[n].unsched = node[n].unsched /\ Requested[n].of = of
  BY <1>1, <1>2, <1>4 DEF NodeRecords
<1> QED
  BY <1>3, <1>5

\* A run pass begins when every NodeWright has recorded every boot.
LEMMA ProcessSkyhooksEffect ==
  ASSUME TypeOK, ProcessSkyhooksPerNode
  PROVE  /\ TypeOK'
         /\ pass.pc = "idle" /\ UNCHANGED <<wright, node, job, workload, applied, used>>
         /\ \A w \in Present : wright[w].finalizer = TRUE
         /\ \A w \in Present, n \in Nodes : wright[w].boots[n] = node[n].boot
         /\ pass'.pc = "run" /\ pass'.snap = node /\ pass'.mem = Requested
         /\ \A w \in Wrights, n \in Nodes :
              <<w, n>> \in pass'.todo => w \in pass'.save /\ ToRun(n, w, Requested)
         /\ \A w \in pass'.save : w \in Present
<1> DEFINE todo == {p \in Wrights \X Nodes : ToRun(p[2], p[1], Requested)}
           save == {p[1] : p \in todo}
<1>1. pass.pc = "idle" /\ UNCHANGED <<wright, node, job, workload, applied, used>> /\ Rebooted = {}
      /\ \A w \in Present : wright[w].finalizer
  BY DEF ProcessSkyhooksPerNode
<1>2. pass' = [IdlePass EXCEPT !.pc = "run", !.snap = node, !.mem = Requested, !.todo = todo,
                               !.save = save]
  BY DEF ProcessSkyhooksPerNode
<1>3. todo \in SUBSET (Wrights \X Nodes) /\ save \in SUBSET Wrights
  OBVIOUS
<1>4. \A w \in Wrights, n \in Nodes : <<w, n>> \in todo => w \in save /\ ToRun(n, w, Requested)
  OBVIOUS
<1>5. \A w \in save : w \in Present
  BY DEF ToRun
<1>6. Requested = [n \in Nodes |-> Requested[n]]
  BY DEF Requested
<1>7. Requested \in [Nodes -> NodeRecords] /\ node \in [Nodes -> NodeRecords]
  BY <1>6, RequestedFacts, ZenonT(40) DEF TypeOK
<1> HIDE DEF todo, save
<1>8. pass' \in PassRecords /\ pass'.pc = "run" /\ pass'.snap = node /\ pass'.mem = Requested
      /\ pass'.todo = todo /\ pass'.save = save
  BY <1>2, <1>3, <1>7, RecordsInhabited DEF PassRecords
<1>9. TypeOK'
  BY <1>1, <1>8 DEF TypeOK
<1>10. \A w \in Present : wright[w].finalizer = TRUE
  BY <1>1, WrightFields DEF TypeOK, Present
<1>11. \A w \in Present, n \in Nodes : wright[w].boots[n] = node[n].boot
  <2> SUFFICES ASSUME NEW w \in Present, NEW n \in Nodes, wright[w].boots[n] # node[n].boot
               PROVE  FALSE
    OBVIOUS
  <2>1. <<w, n>> \in Rebooted
    BY DEF Rebooted
  <2> QED
    BY <2>1, <1>1
<1> QED
  BY <1>1, <1>4, <1>5, <1>8, <1>9, <1>10, <1>11

\* The next NodeWright's copies have the same marks and the snapshot's unsched.
LEMMA NextCopiesFacts ==
  ASSUME TypeOK
  PROVE  /\ NextCopies \in [Nodes -> NodeRecords]
         /\ \A n \in Nodes : /\ NextCopies[n].of = pass.mem[n].of
                             /\ NextCopies[n].unsched = pass.snap[n].unsched
<1>1. \A n \in Nodes : pass.mem[n] \in NodeRecords /\ pass.snap[n] \in NodeRecords
  BY PassFields DEF TypeOK
<1>2. ASSUME NEW nd \in NodeRecords, NEW sn \in NodeRecords, NEW x, x = [nd EXCEPT !.unsched = sn.unsched]
      PROVE  x \in NodeRecords /\ x.of = nd.of /\ x.unsched = sn.unsched
  BY <1>2 DEF NodeRecords
<1> QED
  BY <1>1, <1>2 DEF NextCopies

\* What a visit of RunPackages does to the copy and to the Job.
VisitOutcome(w, n, old, new) ==
  /\ Marked(new, old, w)
  /\ \/ new.unsched = old.unsched /\ new.of[w].cordon = old.of[w].cordon
     \/ new.unsched = TRUE /\ new.of[w].cordon = TRUE
  /\ \/ job' = job /\ new.of[w].entry = old.of[w].entry
     \/ /\ job[n][w].phase = "none"
        /\ \E kind \in {"apply", "uninstall"} :
             /\ job' = SetJob(n, w, [phase |-> "active", kind |-> kind, boot |-> 0])
             /\ kind = "uninstall" <=> old.of[w].entry = "uninstall"
             /\ kind = "uninstall" => new.of[w].entry = old.of[w].entry
             /\ kind = "apply" => new.of[w].entry = "in_progress"
     \/ /\ job[n][w].phase = "recorded" /\ job' = SetJob(n, w, NoJob)
        /\ new.of[w].entry = old.of[w].entry

\* What CreateJob makes of a copy and a Job.
LEMMA CreateJobFacts ==
  ASSUME TypeOK, NEW w \in Wrights, NEW n \in Nodes, NEW old \in NodeRecords, NEW nd \in NodeRecords,
         Marked(nd, old, w), nd.unsched = old.unsched, nd.of[w].cordon = old.of[w].cordon,
         nd.of[w].entry = old.of[w].entry, CreateJob(w, n, nd)
  PROVE  \E new \in NodeRecords : VisitOutcome(w, n, old, new) /\ Visited(w, n, new)
<1> DEFINE kind == IF nd.of[w].entry = "uninstall" THEN "uninstall" ELSE "apply"
           entry == IF kind = "apply" THEN "in_progress" ELSE "uninstall"
           marks == [nd.of[w] EXCEPT !.entry = entry]
           x == SetMarks(nd, w, marks)
           new == SetStatus(x, w, "in_progress")
<1>1. \/ /\ job[n][w].phase = "none"
         /\ job' = SetJob(n, w, [phase |-> "active", kind |-> kind, boot |-> 0])
         /\ Visited(w, n, new)
      \/ /\ job[n][w].phase # "none"
         /\ job' = IF job[n][w].phase = "recorded" THEN SetJob(n, w, NoJob) ELSE job
         /\ Visited(w, n, nd)
  BY DEF CreateJob
<1>2. CASE /\ job[n][w].phase = "none"
           /\ job' = SetJob(n, w, [phase |-> "active", kind |-> kind, boot |-> 0])
           /\ Visited(w, n, new)
  <2>1. nd.of[w] \in Marks /\ marks \in Marks /\ marks.entry = entry /\ marks.cordon = nd.of[w].cordon
    BY DEF NodeRecords, Marks
  <2>2. Marked(x, nd, w) /\ x.of[w] = marks /\ x.unsched = nd.unsched
    BY <2>1, SetMarksFacts
  <2>3. x \in NodeRecords /\ "in_progress" \in Statuses
    BY <2>2 DEF Marked, Statuses
  <2> HIDE DEF x, marks
  <2>4. Marked(new, x, w) /\ new.of[w].entry = x.of[w].entry /\ new.unsched = x.unsched
        /\ new.of[w].cordon = x.of[w].cordon
    BY <2>3, SetStatusFacts
  <2> HIDE DEF new
  <2>5. new \in NodeRecords /\ Marked(new, old, w)
    BY <2>2, <2>4 DEF Marked
  <2>6. new.of[w].entry = entry /\ new.unsched = old.unsched /\ new.of[w].cordon = old.of[w].cordon
    BY <2>1, <2>2, <2>4
  <2>7. kind \in {"apply", "uninstall"} /\ (kind = "uninstall" <=> old.of[w].entry = "uninstall")
        /\ (kind = "uninstall" => entry = old.of[w].entry) /\ (kind = "apply" => entry = "in_progress")
    OBVIOUS
  <2> HIDE DEF kind, entry
  <2>8. VisitOutcome(w, n, old, new)
    BY <1>2, <2>5, <2>6, <2>7 DEF VisitOutcome
  <2> QED
    BY <1>2, <2>5, <2>8
<1>3. CASE /\ job[n][w].phase # "none"
           /\ job' = IF job[n][w].phase = "recorded" THEN SetJob(n, w, NoJob) ELSE job
           /\ Visited(w, n, nd)
  <2>1. VisitOutcome(w, n, old, nd)
    BY <1>3 DEF VisitOutcome
  <2> QED
    BY <1>3, <2>1
<1> QED
  BY <1>1, <1>2, <1>3

\* RunPackages ends the NodeWright's turn, or visits the node.
LEMMA RunPackagesOutcome ==
  ASSUME TypeOK, NEW w \in Wrights, NEW n \in Nodes, RunPackages(w, n)
  PROVE  \/ Abort(w) /\ job' = job
         \/ \E new \in NodeRecords : VisitOutcome(w, n, pass.mem[n], new) /\ Visited(w, n, new)
<1> DEFINE nd == pass.mem[n]
<1>1. nd \in NodeRecords /\ nd.of[w] \in Marks
  <2>1. nd \in NodeRecords
    BY PassFields DEF TypeOK
  <2> QED
    BY <2>1 DEF NodeRecords
<1>2. Marked(nd, nd, w)
  BY <1>1 DEF Marked
<1>3. \/ CreateJob(w, n, nd)
      \/ Visited(w, n, Cordon(nd, w)) /\ job' = job
      \/ DrainNode(w, n)
  BY DEF RunPackages
<1>4. CASE CreateJob(w, n, nd)
  <2> HIDE DEF nd
  <2>1. \E new \in NodeRecords : VisitOutcome(w, n, nd, new) /\ Visited(w, n, new)
    BY <1>1, <1>2, <1>4, CreateJobFacts
  <2> QED
    BY <2>1 DEF nd
<1>5. CASE Visited(w, n, Cordon(nd, w)) /\ job' = job
  <2> DEFINE new == Cordon(nd, w)
  <2>1. Marked(new, nd, w) /\ new.unsched = TRUE /\ new.of[w] = [nd.of[w] EXCEPT !.cordon = TRUE]
    BY <1>1, CordonFacts
  <2> HIDE DEF new, nd
  <2>2. new \in NodeRecords /\ new.of[w].cordon = TRUE /\ new.of[w].entry = nd.of[w].entry
    BY <1>1, <2>1 DEF Marked, Marks
  <2>3. VisitOutcome(w, n, nd, new)
    BY <1>5, <2>1, <2>2 DEF VisitOutcome
  <2> QED
    BY <1>5, <2>2, <2>3 DEF new, nd
<1>6. CASE DrainNode(w, n)
  <2> DEFINE calm == SetMarks(nd, w, [nd.of[w] EXCEPT !.drain = "none"])
             begun == SetStatus(SetMarks(nd, w, [nd.of[w] EXCEPT !.drain = "started"]), w, "in_progress")
             late == SetStatus(nd, w, "erroring")
  <2>1. \/ CreateJob(w, n, calm)
        \/ Visited(w, n, late) /\ job' = job
        \/ (Visited(w, n, begun) \/ Visited(w, n, nd)) /\ job' = job
        \/ Abort(w) /\ job' = job
    BY <1>6 DEF DrainNode
  <2>2. ASSUME NEW d \in {"none", "started"}, NEW x, x = SetMarks(nd, w, [nd.of[w] EXCEPT !.drain = d])
        PROVE  /\ x \in NodeRecords /\ Marked(x, nd, w) /\ x.unsched = nd.unsched
               /\ x.of[w].cordon = nd.of[w].cordon /\ x.of[w].entry = nd.of[w].entry
    <3> DEFINE marks == [nd.of[w] EXCEPT !.drain = d]
    <3>1. marks \in Marks /\ marks.cordon = nd.of[w].cordon /\ marks.entry = nd.of[w].entry
      BY <1>1 DEF Marks
    <3> HIDE DEF marks, nd
    <3>2. x = SetMarks(nd, w, marks)
      BY <2>2 DEF marks
    <3>3. Marked(x, nd, w) /\ x.of[w] = marks /\ x.unsched = nd.unsched
      BY <1>1, <3>1, <3>2, SetMarksFacts
    <3> QED
      BY <3>1, <3>3 DEF Marked
  <2>3. ASSUME NEW s \in {"in_progress", "erroring"}, NEW x \in NodeRecords, NEW y, y = SetStatus(x, w, s),
               Marked(x, nd, w), x.unsched = nd.unsched, x.of[w].cordon = nd.of[w].cordon,
               x.of[w].entry = nd.of[w].entry, job' = job
        PROVE  y \in NodeRecords /\ VisitOutcome(w, n, nd, y)
    <3> HIDE DEF nd
    <3>1. s \in Statuses /\ s # "complete"
      BY DEF Statuses
    <3>2. Marked(y, x, w) /\ y.of[w].entry = x.of[w].entry /\ y.unsched = x.unsched
          /\ y.of[w].cordon = x.of[w].cordon
      BY <2>3, <3>1, SetStatusFacts
    <3>3. y \in NodeRecords /\ Marked(y, nd, w)
      BY <2>3, <3>2 DEF Marked
    <3> QED
      BY <2>3, <3>2, <3>3 DEF VisitOutcome
  <2>4. CASE CreateJob(w, n, calm)
    <3>1. calm \in NodeRecords /\ Marked(calm, nd, w) /\ calm.unsched = nd.unsched
          /\ calm.of[w].cordon = nd.of[w].cordon /\ calm.of[w].entry = nd.of[w].entry
      BY <2>2
    <3> HIDE DEF nd, calm
    <3>2. \E new \in NodeRecords : VisitOutcome(w, n, nd, new) /\ Visited(w, n, new)
      BY <1>1, <2>4, <3>1, CreateJobFacts
    <3> QED
      BY <3>2 DEF nd
  <2>5. CASE Visited(w, n, late) /\ job' = job
    <3>1. late \in NodeRecords /\ VisitOutcome(w, n, nd, late)
      BY <1>1, <1>2, <2>3, <2>5
    <3> QED
      BY <2>5, <3>1
  <2>6. CASE Visited(w, n, begun) /\ job' = job
    <3> DEFINE x == SetMarks(nd, w, [nd.of[w] EXCEPT !.drain = "started"])
    <3>1. x \in NodeRecords /\ Marked(x, nd, w) /\ x.unsched = nd.unsched
          /\ x.of[w].cordon = nd.of[w].cordon /\ x.of[w].entry = nd.of[w].entry
      BY <2>2
    <3>2. begun = SetStatus(x, w, "in_progress")
      OBVIOUS
    <3> HIDE DEF x, begun
    <3>3. begun \in NodeRecords /\ VisitOutcome(w, n, nd, begun)
      BY <2>3, <2>6, <3>1, <3>2
    <3> QED
      BY <2>6, <3>3
  <2>7. CASE Visited(w, n, nd) /\ job' = job
    <3>1. VisitOutcome(w, n, nd, nd)
      BY <1>2, <2>7 DEF VisitOutcome
    <3> QED
      BY <1>1, <2>7, <3>1
  <2> HIDE DEF calm, begun, late
  <2> QED
    BY <2>1, <2>4, <2>5, <2>6, <2>7
<1> HIDE DEF nd
<1> QED
  BY <1>3, <1>4, <1>5, <1>6

\* After an abort nothing of w is left to visit or to save.
LEMMA AbortEffect ==
  ASSUME TypeOK, NEW w \in Wrights, Abort(w)
  PROVE  /\ pass' \in PassRecords /\ pass'.pc = pass.pc /\ pass'.snap = pass.snap
         /\ pass'.save = pass.save \ {w} /\ pass'.mem = NextCopies
         /\ \A v \in Wrights, m \in Nodes : <<v, m>> \in pass'.todo <=> <<v, m>> \in pass.todo /\ v # w
<1> DEFINE t == {p \in pass.todo : p[1] # w}
<1>1. pass' = [pass EXCEPT !.todo = t, !.save = pass.save \ {w}, !.mem = NextCopies]
  BY DEF Abort
<1>2. pass \in PassRecords /\ NextCopies \in [Nodes -> NodeRecords]
  BY NextCopiesFacts DEF TypeOK
<1>3. t \in SUBSET (Wrights \X Nodes)
  BY <1>2, PassFields
<1>4. \A v \in Wrights, m \in Nodes : <<v, m>> \in t <=> <<v, m>> \in pass.todo /\ v # w
  OBVIOUS
<1> HIDE DEF t
<1>5. pass' \in PassRecords /\ pass'.pc = pass.pc /\ pass'.snap = pass.snap
         /\ pass'.save = pass.save \ {w} /\ pass'.mem = NextCopies /\ pass'.todo = t
  BY <1>1, <1>2, <1>3 DEF PassRecords
<1> QED
  BY <1>4, <1>5

\* A visit changes one copy.
LEMMA VisitedEffect ==
  ASSUME TypeOK, NEW w \in Wrights, NEW n \in Nodes, NEW nd \in NodeRecords, Visited(w, n, nd)
  PROVE  /\ pass' \in PassRecords /\ pass'.pc = pass.pc /\ pass'.snap = pass.snap
         /\ pass'.save = pass.save /\ pass'.todo = pass.todo \ {<<w, n>>}
         /\ pass'.mem[n] = nd /\ \A m \in Nodes \ {n} : pass'.mem[m] = pass.mem[m]
<1> DEFINE mem == [pass.mem EXCEPT ![n] = nd]
<1>1. pass \in PassRecords /\ mem \in [Nodes -> NodeRecords]
      /\ mem[n] = nd /\ \A m \in Nodes \ {n} : mem[m] = pass.mem[m]
  BY PassFields DEF TypeOK
<1>2. pass' = [pass EXCEPT !.todo = pass.todo \ {<<w, n>>}, !.mem = mem]
  BY DEF Visited
<1>3. pass.todo \ {<<w, n>>} \in SUBSET (Wrights \X Nodes)
  BY <1>1, PassFields
<1> HIDE DEF mem
<1>4. pass' \in PassRecords /\ pass'.pc = pass.pc /\ pass'.snap = pass.snap
      /\ pass'.save = pass.save /\ pass'.todo = pass.todo \ {<<w, n>>} /\ pass'.mem = mem
  BY <1>1, <1>2, <1>3 DEF PassRecords
<1> QED
  BY <1>1, <1>4

\* RunPackages, from what its cases have in common.
LEMMA RunPackagesEffect ==
  ASSUME TypeOK, NEW w \in Wrights, NEW n \in Nodes, RunPackages(w, n)
  PROVE  /\ TypeOK'
         /\ pass.pc = "run" /\ <<w, n>> \in pass.todo /\ UNCHANGED <<wright, node, applied, used>>
         /\ \A v \in pass.save : Order[w] <= Order[v]
         /\ pass'.pc = "run" /\ pass'.snap = pass.snap
         /\ \/ /\ job' = job /\ pass'.save = pass.save \ {w} /\ pass'.mem = NextCopies
               /\ \A v \in Wrights, m \in Nodes :
                    <<v, m>> \in pass'.todo <=> <<v, m>> \in pass.todo /\ v # w
            \/ /\ pass'.save = pass.save /\ pass'.todo = pass.todo \ {<<w, n>>}
               /\ VisitOutcome(w, n, pass.mem[n], pass'.mem[n])
               /\ \A m \in Nodes \ {n} : pass'.mem[m] = pass.mem[m]
<1>1. pass.pc = "run" /\ <<w, n>> \in pass.todo /\ UNCHANGED <<wright, node, applied, used>>
      /\ \A v \in pass.save : Order[w] <= Order[v]
  BY DEF RunPackages, Visits
<1>2. workload' \in [Nodes -> {"none", "running", "protected", "leaving"}]
  <2>1. workload' = workload \/ workload' = [workload EXCEPT ![n] = "leaving"]
    BY DEF RunPackages, DrainNode
  <2> QED
    BY <2>1 DEF TypeOK
<1>3. CASE Abort(w) /\ job' = job
  <2>1. /\ pass' \in PassRecords /\ pass'.pc = "run" /\ pass'.snap = pass.snap
        /\ pass'.save = pass.save \ {w} /\ pass'.mem = NextCopies
        /\ \A v \in Wrights, m \in Nodes : <<v, m>> \in pass'.todo <=> <<v, m>> \in pass.todo /\ v # w
    BY <1>1, <1>3, AbortEffect
  <2>2. TypeOK'
    BY <1>1, <1>2, <1>3, <2>1 DEF TypeOK
  <2> QED
    BY <1>1, <1>3, <2>1, <2>2
<1>4. ASSUME NEW new \in NodeRecords, VisitOutcome(w, n, pass.mem[n], new), Visited(w, n, new)
      PROVE  /\ TypeOK' /\ pass'.pc = "run" /\ pass'.snap = pass.snap
             /\ pass'.save = pass.save /\ pass'.todo = pass.todo \ {<<w, n>>}
             /\ VisitOutcome(w, n, pass.mem[n], pass'.mem[n])
             /\ \A m \in Nodes \ {n} : pass'.mem[m] = pass.mem[m]
  <2>1. /\ pass' \in PassRecords /\ pass'.pc = "run" /\ pass'.snap = pass.snap
        /\ pass'.save = pass.save /\ pass'.todo = pass.todo \ {<<w, n>>}
        /\ pass'.mem[n] = new /\ \A m \in Nodes \ {n} : pass'.mem[m] = pass.mem[m]
    BY <1>1, <1>4, VisitedEffect
  <2>2. job \in [Nodes -> [Wrights -> JobRecords]]
    BY DEF TypeOK
  <2>3. job' = job \/ (\E j \in JobRecords : job' = SetJob(n, w, j))
    <3>1. \A kind \in {"apply", "uninstall"} : [phase |-> "active", kind |-> kind, boot |-> 0] \in JobRecords
      BY DEF JobRecords
    <3> QED
      BY <1>4, <3>1, RecordsInhabited DEF VisitOutcome
  <2>4. job' \in [Nodes -> [Wrights -> JobRecords]]
    BY <2>2, <2>3, SetJobFacts
  <2>5. TypeOK'
    BY <1>1, <1>2, <2>1, <2>4 DEF TypeOK
  <2> QED
    BY <1>4, <2>1, <2>5
<1> QED
  BY <1>1, <1>3, <1>4, RunPackagesOutcome

\* A save writes what w's copies changed, on every node.
LEMMA SaveWrightEffect ==
  ASSUME TypeOK, NEW w \in Wrights, SaveWright(w)
  PROVE  /\ TypeOK'
         /\ pass.pc = "run" /\ w \in pass.save /\ UNCHANGED <<wright, job, workload, applied, used>>
         /\ \A v \in Wrights, n \in Nodes : <<v, n>> \in pass.todo => Order[w] < Order[v]
         /\ \A v \in pass.save : Order[w] <= Order[v]
         /\ pass'.pc = "run" /\ pass'.snap = pass.snap /\ pass'.todo = pass.todo
         /\ pass'.save = pass.save \ {w} /\ pass'.mem = NextCopies
         /\ \A n \in Nodes :
              LET nd == node[n] snap == pass.snap[n] mem == pass.mem[n] x == node'[n] IN
              /\ Marked(x, nd, w)
              /\ x.unsched = Merged(nd.unsched, snap.unsched, mem.unsched)
              /\ x.of[w].status = Merged(nd.of[w].status, snap.of[w].status, mem.of[w].status)
              /\ x.of[w].entry = Merged(nd.of[w].entry, snap.of[w].entry, mem.of[w].entry)
              /\ x.of[w].cordon = Merged(nd.of[w].cordon, snap.of[w].cordon, mem.of[w].cordon)
              /\ x.of[w].drain = Merged(nd.of[w].drain, snap.of[w].drain, mem.of[w].drain)
<1>1. pass.pc = "run" /\ w \in pass.save /\ UNCHANGED <<wright, job, workload, applied, used>>
      /\ (\A p \in pass.todo : Order[w] < Order[p[1]]) /\ (\A v \in pass.save : Order[w] <= Order[v])
      /\ node' = [n \in Nodes |-> Patched(n, w, pass.snap[n], pass.mem[n])]
      /\ pass' = [pass EXCEPT !.save = pass.save \ {w}, !.mem = NextCopies]
  BY DEF SaveWright
<1>2. \A v \in Wrights, n \in Nodes : <<v, n>> \in pass.todo => Order[w] < Order[v]
  BY <1>1
<1>3. node \in [Nodes -> NodeRecords] /\ pass \in PassRecords
      /\ NextCopies \in [Nodes -> NodeRecords]
  BY NextCopiesFacts DEF TypeOK
<1>4. \A n \in Nodes : pass.snap[n] \in NodeRecords /\ pass.mem[n] \in NodeRecords
  BY <1>3, PassFields
<1>5. \A n \in Nodes :
        LET nd == node[n] snap == pass.snap[n] mem == pass.mem[n] x == Patched(n, w, pass.snap[n], pass.mem[n]) IN
        /\ Marked(x, nd, w)
        /\ x.unsched = Merged(nd.unsched, snap.unsched, mem.unsched)
        /\ x.of[w].status = Merged(nd.of[w].status, snap.of[w].status, mem.of[w].status)
        /\ x.of[w].entry = Merged(nd.of[w].entry, snap.of[w].entry, mem.of[w].entry)
        /\ x.of[w].cordon = Merged(nd.of[w].cordon, snap.of[w].cordon, mem.of[w].cordon)
        /\ x.of[w].drain = Merged(nd.of[w].drain, snap.of[w].drain, mem.of[w].drain)
  BY <1>3, <1>4, PatchedFacts
<1>6. \A n \in Nodes : node'[n] = Patched(n, w, pass.snap[n], pass.mem[n])
  BY <1>1
<1>7. \A n \in Nodes : Patched(n, w, pass.snap[n], pass.mem[n]) \in NodeRecords
  BY <1>5 DEF Marked
<1>8. node' \in [Nodes -> NodeRecords]
  BY <1>1, <1>7
<1>9. pass' \in PassRecords /\ pass'.pc = "run" /\ pass'.snap = pass.snap /\ pass'.todo = pass.todo
         /\ pass'.save = pass.save \ {w} /\ pass'.mem = NextCopies
  BY <1>1, <1>3 DEF PassRecords
<1>10. TypeOK'
  BY <1>1, <1>8, <1>9 DEF TypeOK
<1> QED
  BY <1>1, <1>2, <1>5, <1>6, <1>9, <1>10

\* The run ends with the snapshot kept for the taints.
LEMMA RunEndsEffect ==
  ASSUME TypeOK, RunEnds
  PROVE  /\ TypeOK'
         /\ pass.pc = "run" /\ pass.todo = {} /\ UNCHANGED <<wright, node, job, workload, applied, used>>
         /\ pass'.pc = "taint" /\ pass'.snap = pass.snap
<1>1. pass.pc = "run" /\ pass.todo = {} /\ UNCHANGED <<wright, node, job, workload, applied, used>>
      /\ pass' = [pass EXCEPT !.pc = "taint", !.todo = Wrights \X Nodes]
  BY DEF RunEnds
<1>2. pass \in PassRecords /\ Wrights \X Nodes \in SUBSET (Wrights \X Nodes)
  BY DEF TypeOK
<1>3. pass' \in PassRecords /\ pass'.pc = "taint" /\ pass'.snap = pass.snap
  BY <1>1, <1>2 DEF PassRecords
<1>4. TypeOK'
  BY <1>1, <1>3 DEF TypeOK
<1> QED
  BY <1>1, <1>3, <1>4

\* A taint goes only where the snapshot has everything complete.
LEMMA HandleRuntimeRequiredEffect ==
  ASSUME TypeOK, HandleRuntimeRequired
  PROVE  /\ TypeOK'
         /\ pass.pc = "taint" /\ UNCHANGED <<wright, job, workload, applied, used>> /\ pass'.pc = "idle"
         /\ \A n \in Nodes :
              /\ node'[n].boot = node[n].boot /\ node'[n].of = node[n].of
              /\ node'[n].autoTaint = node[n].autoTaint
              /\ node[n].unsched = TRUE => node'[n].unsched = TRUE
              /\ node'[n].taint = node[n].taint \/ TaintRemovable(pass.snap[n])
<1> DEFINE one(n) == [node[n] EXCEPT !.taint = FALSE]
           two(n) == [node[n] EXCEPT !.taint = FALSE, !.rrCordon = TRUE, !.unsched = TRUE]
           three(n) == [node[n] EXCEPT !.rrCordon = FALSE]
<1>1. pass.pc = "taint" /\ UNCHANGED <<wright, job, workload, applied, used>> /\ pass' = IdlePass
  BY DEF HandleRuntimeRequired
<1>2. ASSUME NEW n \in Nodes
      PROVE  \/ node'[n] = node[n]
             \/ node'[n] = one(n) /\ TaintRemovable(pass.snap[n])
             \/ node'[n] = two(n) /\ TaintRemovable(pass.snap[n])
             \/ node'[n] = three(n)
  BY DEF HandleRuntimeRequired
<1>3. node' = [n \in Nodes |-> node'[n]]
  BY DEF HandleRuntimeRequired
<1>4. ASSUME NEW nd \in NodeRecords
      PROVE  /\ LET x == [nd EXCEPT !.taint = FALSE] IN
                /\ x \in NodeRecords /\ x.boot = nd.boot /\ x.of = nd.of /\ x.autoTaint = nd.autoTaint
                /\ x.unsched = nd.unsched
             /\ LET x == [nd EXCEPT !.taint = FALSE, !.rrCordon = TRUE, !.unsched = TRUE] IN
                /\ x \in NodeRecords /\ x.boot = nd.boot /\ x.of = nd.of /\ x.autoTaint = nd.autoTaint
                /\ x.unsched = TRUE
             /\ LET x == [nd EXCEPT !.rrCordon = FALSE] IN
                /\ x \in NodeRecords /\ x.boot = nd.boot /\ x.of = nd.of /\ x.autoTaint = nd.autoTaint
                /\ x.unsched = nd.unsched /\ x.taint = nd.taint
  BY DEF NodeRecords
<1>5. ASSUME NEW n \in Nodes
      PROVE  /\ node'[n] \in NodeRecords
             /\ node'[n].boot = node[n].boot /\ node'[n].of = node[n].of
             /\ node'[n].autoTaint = node[n].autoTaint
             /\ node[n].unsched = TRUE => node'[n].unsched = TRUE
             /\ node'[n].taint = node[n].taint \/ TaintRemovable(pass.snap[n])
  <2>1. node[n] \in NodeRecords
    BY DEF TypeOK
  <2>2. /\ one(n) \in NodeRecords /\ one(n).boot = node[n].boot /\ one(n).of = node[n].of
        /\ one(n).autoTaint = node[n].autoTaint /\ one(n).unsched = node[n].unsched
    BY <2>1, <1>4
  <2>3. /\ two(n) \in NodeRecords /\ two(n).boot = node[n].boot /\ two(n).of = node[n].of
        /\ two(n).autoTaint = node[n].autoTaint /\ two(n).unsched = TRUE
    BY <2>1, <1>4
  <2>4. /\ three(n) \in NodeRecords /\ three(n).boot = node[n].boot /\ three(n).of = node[n].of
        /\ three(n).autoTaint = node[n].autoTaint /\ three(n).unsched = node[n].unsched
        /\ three(n).taint = node[n].taint
    BY <2>1, <1>4
  <2> HIDE DEF one, two, three
  <2> QED
    BY <2>1, <2>2, <2>3, <2>4, <1>2
<1>6. node' \in [Nodes -> NodeRecords]
  BY <1>3, <1>5
<1>7. pass' \in PassRecords /\ pass'.pc = "idle"
  BY <1>1, RecordsInhabited DEF IdlePass
<1>8. TypeOK'
  BY <1>1, <1>6, <1>7 DEF TypeOK
<1> QED
  BY <1>1, <1>5, <1>7, <1>8

\* A crash forgets the pass.
LEMMA CrashEffect ==
  ASSUME TypeOK, Crash
  PROVE  /\ TypeOK' /\ pass'.pc = "idle" /\ UNCHANGED <<wright, node, job, workload, applied>>
         /\ used'.kept = used.kept /\ used'.resumed = used.resumed
<1>1. UNCHANGED <<wright, node, job, workload, applied>> /\ pass' = IdlePass
      /\ used' = [used EXCEPT !.crashes = used.crashes + 1]
  BY DEF Crash
<1>2. used \in UsedRecords /\ used.crashes + 1 \in Nat
  BY UsedFields DEF TypeOK
<1>3. used' \in UsedRecords /\ used'.kept = used.kept /\ used'.resumed = used.resumed
  BY <1>1, <1>2 DEF UsedRecords
<1>4. pass' \in PassRecords /\ pass'.pc = "idle"
  BY <1>1, RecordsInhabited DEF IdlePass
<1>5. TypeOK'
  BY <1>1, <1>3, <1>4 DEF TypeOK
<1> QED
  BY <1>1, <1>3, <1>4, <1>5

\* A Job finishes in the node's boot.
LEMMA JobFinishesEffect ==
  ASSUME TypeOK, NEW w \in Wrights, NEW n \in Nodes, JobFinishes(w, n)
  PROVE  /\ TypeOK' /\ UNCHANGED <<wright, node, workload, applied, pass, used>>
         /\ job[n][w].phase = "active"
         /\ job'[n][w].phase = "finished" /\ job'[n][w].boot = node[n].boot
         /\ \A m \in Nodes, v \in Wrights : m # n \/ v # w => job'[m][v] = job[m][v]
<1> DEFINE j == [job[n][w] EXCEPT !.phase = "finished", !.boot = node[n].boot]
<1>1. UNCHANGED <<wright, node, workload, applied, pass, used>> /\ job[n][w].phase = "active"
      /\ job' = SetJob(n, w, j)
  BY DEF JobFinishes
<1>2. job \in [Nodes -> [Wrights -> JobRecords]] /\ job[n][w] \in JobRecords
  BY DEF TypeOK
<1>3. node[n].boot \in Nat
  BY DEF TypeOK, NodeRecords
<1>4. j \in JobRecords /\ j.phase = "finished" /\ j.boot = node[n].boot
  BY <1>2, <1>3 DEF JobRecords
<1> HIDE DEF j
<1>5. /\ job' \in [Nodes -> [Wrights -> JobRecords]] /\ job'[n][w] = j
      /\ \A m \in Nodes, v \in Wrights : m # n \/ v # w => job'[m][v] = job[m][v]
  BY <1>1, <1>2, <1>4, SetJobFacts
<1>6. TypeOK'
  BY <1>1, <1>5 DEF TypeOK
<1> QED
  BY <1>1, <1>4, <1>5, <1>6

\* An open entry takes the result of a finished Job; no other does.
LEMMA JobRecordedEffect ==
  ASSUME TypeOK, NEW w \in Wrights, NEW n \in Nodes, JobRecorded(w, n)
  PROVE  /\ TypeOK' /\ UNCHANGED <<wright, workload, pass, used>>
         /\ job[n][w].phase = "finished"
         /\ job'[n][w].phase = "recorded"
         /\ \A m \in Nodes, v \in Wrights : m # n \/ v # w =>
              job'[m][v] = job[m][v] /\ applied'[m][v] = applied[m][v]
         /\ \A m \in Nodes \ {n} : node'[m] = node[m]
         /\ Marked(node'[n], node[n], w) /\ node'[n].unsched = node[n].unsched
         /\ node'[n].of[w].status = node[n].of[w].status /\ node'[n].of[w].cordon = node[n].of[w].cordon
         /\ node'[n].of[w].drain = node[n].of[w].drain
         /\ \/ node'[n].of[w].entry = node[n].of[w].entry /\ applied' = applied
            \/ /\ job[n][w].kind = "apply" /\ node[n].of[w].entry = "in_progress"
               /\ node'[n].of[w].entry = "complete" /\ applied'[n][w] = job[n][w].boot
            \/ /\ node[n].of[w].entry = "uninstall" /\ node'[n].of[w].entry = "none"
               /\ applied' = applied
<1> DEFINE j == [job[n][w] EXCEPT !.phase = "recorded"]
           entry == IF job[n][w].kind = "apply" THEN "complete" ELSE "none"
           x == SetMarks(node[n], w, [node[n].of[w] EXCEPT !.entry = entry])
           noted == [applied EXCEPT ![n] = [applied[n] EXCEPT ![w] = job[n][w].boot]]
<1>1. UNCHANGED <<wright, workload, pass, used>> /\ job[n][w].phase = "finished" /\ job' = SetJob(n, w, j)
  BY DEF JobRecorded
<1>2. \/ node' = node /\ applied' = applied
      \/ /\ job[n][w].kind = "apply" /\ node[n].of[w].entry = "in_progress"
         /\ node' = [node EXCEPT ![n] = x] /\ applied' = noted
      \/ /\ job[n][w].kind # "apply" /\ node[n].of[w].entry = "uninstall"
         /\ node' = [node EXCEPT ![n] = x] /\ applied' = applied
  BY DEF JobRecorded
<1>3. job \in [Nodes -> [Wrights -> JobRecords]] /\ job[n][w] \in JobRecords
      /\ node \in [Nodes -> NodeRecords] /\ node[n] \in NodeRecords
      /\ applied \in [Nodes -> [Wrights -> Nat]]
  BY DEF TypeOK
<1>4. j \in JobRecords /\ j.phase = "recorded" /\ job[n][w].boot \in Nat
  BY <1>3 DEF JobRecords
<1>5. /\ noted \in [Nodes -> [Wrights -> Nat]] /\ noted[n][w] = job[n][w].boot
      /\ \A m \in Nodes, v \in Wrights : m # n \/ v # w => noted[m][v] = applied[m][v]
  BY <1>3, <1>4
<1> DEFINE marks == [node[n].of[w] EXCEPT !.entry = entry]
<1>6. node[n].of[w] \in Marks
  BY <1>3 DEF NodeRecords
<1>7. marks \in Marks /\ marks.entry = entry /\ marks.status = node[n].of[w].status
      /\ marks.cordon = node[n].of[w].cordon /\ marks.drain = node[n].of[w].drain
  BY <1>6 DEF Marks
<1>8. x = SetMarks(node[n], w, marks)
  OBVIOUS
<1>9. (job[n][w].kind = "apply" => entry = "complete") /\ (job[n][w].kind # "apply" => entry = "none")
  OBVIOUS
<1> HIDE DEF marks, x, noted, j, entry
<1>10. Marked(x, node[n], w) /\ x.of[w] = marks /\ x.unsched = node[n].unsched
  BY <1>3, <1>7, <1>8, SetMarksFacts
<1>11. x \in NodeRecords /\ Marked(node[n], node[n], w)
  BY <1>3, <1>10 DEF Marked
<1>12. /\ job' \in [Nodes -> [Wrights -> JobRecords]] /\ job'[n][w] = j
       /\ \A m \in Nodes, v \in Wrights : m # n \/ v # w => job'[m][v] = job[m][v]
  BY <1>1, <1>3, <1>4, SetJobFacts
<1>13. node' \in [Nodes -> NodeRecords] /\ \A m \in Nodes \ {n} : node'[m] = node[m]
  BY <1>2, <1>3, <1>11
<1>14. \/ node'[n] = node[n] /\ applied' = applied
       \/ /\ job[n][w].kind = "apply" /\ node[n].of[w].entry = "in_progress"
          /\ node'[n] = x /\ applied' = noted
       \/ /\ job[n][w].kind # "apply" /\ node[n].of[w].entry = "uninstall"
          /\ node'[n] = x /\ applied' = applied
  BY <1>2, <1>3
<1>15. applied' \in [Nodes -> [Wrights -> Nat]]
       /\ \A m \in Nodes, v \in Wrights : m # n \/ v # w => applied'[m][v] = applied[m][v]
  BY <1>3, <1>5, <1>14
<1>16. TypeOK'
  BY <1>1, <1>12, <1>13, <1>15 DEF TypeOK
<1>17. Marked(node'[n], node[n], w) /\ node'[n].unsched = node[n].unsched
         /\ node'[n].of[w].status = node[n].of[w].status /\ node'[n].of[w].cordon = node[n].of[w].cordon
         /\ node'[n].of[w].drain = node[n].of[w].drain
  BY <1>7, <1>10, <1>11, <1>14
<1>18. \/ node'[n].of[w].entry = node[n].of[w].entry /\ applied' = applied
       \/ /\ job[n][w].kind = "apply" /\ node[n].of[w].entry = "in_progress"
          /\ node'[n].of[w].entry = "complete" /\ applied'[n][w] = job[n][w].boot
       \/ /\ node[n].of[w].entry = "uninstall" /\ node'[n].of[w].entry = "none"
          /\ applied' = applied
  BY <1>5, <1>7, <1>9, <1>10, <1>14
<1> QED
  BY <1>1, <1>4, <1>12, <1>13, <1>15, <1>16, <1>17, <1>18

\* A reboot is a new boot id.
LEMMA RebootEffect ==
  ASSUME TypeOK, NEW n \in Nodes, Reboot(n)
  PROVE  /\ TypeOK' /\ UNCHANGED <<wright, job, workload, applied, pass>>
         /\ used'.kept = used.kept /\ used'.resumed = used.resumed
         /\ \A m \in Nodes \ {n} : node'[m] = node[m]
         /\ node'[n].boot = node[n].boot + 1 /\ node'[n].of = node[n].of
         /\ node'[n].unsched = node[n].unsched /\ node'[n].taint = node[n].taint
         /\ node'[n].autoTaint = node[n].autoTaint
<1> DEFINE x == [node[n] EXCEPT !.boot = node[n].boot + 1]
<1>1. UNCHANGED <<wright, job, workload, applied, pass>> /\ node' = [node EXCEPT ![n] = x]
      /\ used' = [used EXCEPT !.reboots = used.reboots + 1]
  BY DEF Reboot
<1>2. used \in UsedRecords /\ used.reboots + 1 \in Nat /\ node \in [Nodes -> NodeRecords]
      /\ node[n] \in NodeRecords
  BY UsedFields DEF TypeOK
<1>3. used' \in UsedRecords /\ used'.kept = used.kept /\ used'.resumed = used.resumed
  BY <1>1, <1>2 DEF UsedRecords
<1>4. node[n].boot + 1 \in Nat
  BY <1>2 DEF NodeRecords
<1>5. x \in NodeRecords /\ x.boot = node[n].boot + 1 /\ x.of = node[n].of /\ x.unsched = node[n].unsched
      /\ x.taint = node[n].taint /\ x.autoTaint = node[n].autoTaint
  BY <1>2, <1>4 DEF NodeRecords
<1> HIDE DEF x
<1>6. node' \in [Nodes -> NodeRecords] /\ node'[n] = x /\ \A m \in Nodes \ {n} : node'[m] = node[m]
  BY <1>1, <1>2, <1>5
<1>7. TypeOK'
  BY <1>1, <1>3, <1>6 DEF TypeOK
<1> QED
  BY <1>1, <1>3, <1>5, <1>6, <1>7

\* Workloads touch nothing of the operator's.
LEMMA WorkloadEffect ==
  ASSUME TypeOK, NEW n \in Nodes, PlaceWorkload(n) \/ WorkloadLeaves(n)
  PROVE  TypeOK' /\ UNCHANGED <<wright, node, job, applied, pass, used>>
  BY DEF PlaceWorkload, WorkloadLeaves, TypeOK

\* Only the drain mark of a drain that started expires.
LEMMA DrainTimeoutEffect ==
  ASSUME TypeOK, NEW w \in Wrights, NEW n \in Nodes, DrainTimeoutPasses(w, n)
  PROVE  /\ TypeOK' /\ UNCHANGED <<wright, job, workload, applied, pass, used>>
         /\ \A m \in Nodes \ {n} : node'[m] = node[m]
         /\ Marked(node'[n], node[n], w) /\ node'[n].unsched = node[n].unsched
         /\ node'[n].of[w].status = node[n].of[w].status /\ node'[n].of[w].cordon = node[n].of[w].cordon
         /\ node'[n].of[w].entry = node[n].of[w].entry
         /\ node[n].of[w].drain = "started"
<1> DEFINE marks == [node[n].of[w] EXCEPT !.drain = "expired"]
           x == SetMarks(node[n], w, marks)
<1>1. UNCHANGED <<wright, job, workload, applied, pass, used>> /\ node' = [node EXCEPT ![n] = x]
      /\ node[n].of[w].drain = "started"
  BY DEF DrainTimeoutPasses
<1>2. node \in [Nodes -> NodeRecords] /\ node[n] \in NodeRecords
  BY DEF TypeOK
<1>3. node[n].of[w] \in Marks
  BY <1>2 DEF NodeRecords
<1>4. marks \in Marks /\ marks.status = node[n].of[w].status /\ marks.entry = node[n].of[w].entry
      /\ marks.cordon = node[n].of[w].cordon
  BY <1>3 DEF Marks
<1> HIDE DEF marks
<1>5. Marked(x, node[n], w) /\ x.of[w] = marks /\ x.unsched = node[n].unsched
  BY <1>2, <1>4, SetMarksFacts
<1> HIDE DEF x
<1>6. x \in NodeRecords
  BY <1>5 DEF Marked
<1>7. node' \in [Nodes -> NodeRecords] /\ node'[n] = x /\ \A m \in Nodes \ {n} : node'[m] = node[m]
  BY <1>1, <1>2, <1>6
<1>8. TypeOK'
  BY <1>1, <1>7 DEF TypeOK
<1> QED
  BY <1>1, <1>4, <1>5, <1>7, <1>8

\* A user uncordons a node that no NodeWright holds.
LEMMA UserUncordonsEffect ==
  ASSUME TypeOK, NEW n \in Nodes, UserUncordons(n)
  PROVE  /\ TypeOK' /\ UNCHANGED <<wright, job, workload, applied, pass, used>> /\ pass.pc = "idle"
         /\ \A m \in Nodes \ {n} : node'[m] = node[m]
         /\ node'[n].of = node[n].of /\ node'[n].boot = node[n].boot
         /\ node'[n].taint = node[n].taint /\ node'[n].autoTaint = node[n].autoTaint
         /\ \A w \in Wrights : ~node[n].of[w].cordon
<1> DEFINE x == [node[n] EXCEPT !.unsched = FALSE]
<1>1. UNCHANGED <<wright, job, workload, applied, pass, used>> /\ node' = [node EXCEPT ![n] = x]
      /\ pass.pc = "idle" /\ \A w \in Wrights : ~node[n].of[w].cordon
  BY DEF UserUncordons
<1>2. node \in [Nodes -> NodeRecords] /\ node[n] \in NodeRecords
  BY DEF TypeOK
<1>3. x \in NodeRecords /\ x.boot = node[n].boot /\ x.of = node[n].of
      /\ x.taint = node[n].taint /\ x.autoTaint = node[n].autoTaint
  BY <1>2 DEF NodeRecords
<1> HIDE DEF x
<1>4. node' \in [Nodes -> NodeRecords] /\ node'[n] = x /\ \A m \in Nodes \ {n} : node'[m] = node[m]
  BY <1>1, <1>2, <1>3
<1>5. TypeOK'
  BY <1>1, <1>4 DEF TypeOK
<1> QED
  BY <1>1, <1>3, <1>4, <1>5

\* Who was disabled and is enabled again is remembered.
LEMMA EditModeEffect ==
  ASSUME TypeOK, NEW w \in Wrights, EditMode(w)
  PROVE  /\ TypeOK' /\ UNCHANGED <<node, job, workload, applied, pass>> /\ pass.pc = "idle"
         /\ used'.kept = used.kept /\ used.resumed \subseteq used'.resumed
         /\ wright[w].mode = "disable" => w \in used'.resumed
         /\ \A v \in Wrights \ {w} : wright'[v] = wright[v]
         /\ wright'[w].deleting = wright[w].deleting /\ wright'[w].finalizer = wright[w].finalizer
         /\ wright'[w].gone = wright[w].gone /\ wright'[w].boots = wright[w].boots
<1>1. PICK m \in {"pause", "disable"} :
        /\ pass.pc = "idle" /\ UNCHANGED <<node, job, workload, applied, pass>>
        /\ wright' = [wright EXCEPT ![w] = [wright[w] EXCEPT
                        !.mode = IF wright[w].mode = "run" THEN m ELSE "run"]]
  BY DEF EditMode, Edit
<1> DEFINE mode == IF wright[w].mode = "run" THEN m ELSE "run"
           x == [wright[w] EXCEPT !.mode = mode]
           r == IF wright[w].mode = "disable" THEN used.resumed \cup {w} ELSE used.resumed
<1>2. wright' = [wright EXCEPT ![w] = x]
  BY <1>1
<1>3. used' = [used EXCEPT !.edits = used.edits + 1, !.resumed = r]
  BY DEF EditMode
<1>4. wright \in [Wrights -> WrightRecords] /\ wright[w] \in WrightRecords /\ used \in UsedRecords
  BY DEF TypeOK
<1>5. used.edits + 1 \in Nat /\ r \in SUBSET Wrights /\ used.resumed \subseteq r
      /\ (wright[w].mode = "disable" => w \in r)
  BY <1>4, UsedFields
<1>6. mode \in Modes
  BY DEF Modes
<1> HIDE DEF r, mode
<1>7. used' \in UsedRecords /\ used'.kept = used.kept /\ used'.resumed = r
  BY <1>3, <1>4, <1>5 DEF UsedRecords
<1>8. x \in WrightRecords /\ x.deleting = wright[w].deleting /\ x.finalizer = wright[w].finalizer
      /\ x.gone = wright[w].gone /\ x.boots = wright[w].boots
  BY <1>4, <1>6 DEF WrightRecords
<1> HIDE DEF x
<1>9. wright' \in [Wrights -> WrightRecords] /\ wright'[w] = x
      /\ \A v \in Wrights \ {w} : wright'[v] = wright[v]
  BY <1>2, <1>4, <1>8
<1>10. TypeOK'
  BY <1>1, <1>7, <1>9 DEF TypeOK
<1> QED
  BY <1>1, <1>5, <1>7, <1>8, <1>9, <1>10

\* An object without a finalizer goes at once.
LEMMA DeleteEffect ==
  ASSUME TypeOK, NEW w \in Wrights, Delete(w)
  PROVE  /\ TypeOK' /\ UNCHANGED <<node, job, workload, applied, pass>> /\ pass.pc = "idle"
         /\ used'.kept = used.kept /\ used'.resumed = used.resumed
         /\ \A v \in Wrights \ {w} : wright'[v] = wright[v]
         /\ wright'[w].mode = wright[w].mode /\ wright'[w].deleting = TRUE
         /\ wright'[w].finalizer = wright[w].finalizer
         /\ wright'[w].gone => ~wright[w].finalizer
         /\ wright'[w].boots = wright[w].boots
         /\ ~wright[w].gone
<1> DEFINE g == ~wright[w].finalizer
           x == [wright[w] EXCEPT !.deleting = TRUE, !.gone = g]
<1>1. pass.pc = "idle" /\ UNCHANGED <<node, job, workload, applied, pass>>
      /\ wright' = [wright EXCEPT ![w] = x] /\ used' = [used EXCEPT !.edits = used.edits + 1]
      /\ ~wright[w].gone
  BY DEF Delete, Edit, Present
<1>2. wright \in [Wrights -> WrightRecords] /\ wright[w] \in WrightRecords /\ used \in UsedRecords
  BY DEF TypeOK
<1>3. used.edits + 1 \in Nat /\ g \in BOOLEAN /\ (g => ~wright[w].finalizer)
  BY <1>2, UsedFields
<1> HIDE DEF g
<1>4. used' \in UsedRecords /\ used'.kept = used.kept /\ used'.resumed = used.resumed
  BY <1>1, <1>2, <1>3 DEF UsedRecords
<1>5. x \in WrightRecords /\ x.deleting = TRUE /\ x.finalizer = wright[w].finalizer
      /\ x.gone = g /\ x.boots = wright[w].boots /\ x.mode = wright[w].mode
  BY <1>2, <1>3 DEF WrightRecords
<1> HIDE DEF x
<1>6. wright' \in [Wrights -> WrightRecords] /\ wright'[w] = x
      /\ \A v \in Wrights \ {w} : wright'[v] = wright[v]
  BY <1>1, <1>2, <1>5
<1>7. TypeOK'
  BY <1>1, <1>4, <1>6 DEF TypeOK
<1> QED
  BY <1>1, <1>3, <1>4, <1>5, <1>6, <1>7

-----------------------------------------------------------------------------
\* Every action keeps the types.
LEMMA TypeStep == TypeOK /\ [Next]_vars => TypeOK'
<1> SUFFICES ASSUME TypeOK, [Next]_vars PROVE TypeOK'
  OBVIOUS
<1>1. CASE Reconcile
  BY <1>1, HandleAutoTaintEffect, TrackRebootsEffect, ProcessSkyhooksEffect, RunEndsEffect,
     HandleRuntimeRequiredEffect, UpdateBootIdsEffect, AddFinalizerEffect, HandleFinalizerEffect,
     RemoveFinalizerEffect, IntrospectSkyhookEffect, SaveWrightEffect, TrackRebootEffect,
     CleanupNodeEffect, RunPackagesEffect DEF Reconcile
<1>2. CASE Environment
  BY <1>2, CrashEffect, RebootEffect, WorkloadEffect, UserUncordonsEffect, EditModeEffect,
     DeleteEffect, JobFinishesEffect, JobRecordedEffect, DrainTimeoutEffect DEF Environment
<1>3. CASE UNCHANGED vars
  BY <1>3 DEF vars, TypeOK
<1> QED
  BY <1>1, <1>2, <1>3 DEF Next

\* The initial state has them.
LEMMA TypeInit == Init => TypeOK
<1> SUFFICES ASSUME Init PROVE TypeOK
  OBVIOUS
<1>1. used \in UsedRecords
  BY DEF Init, UsedRecords
<1>2. applied \in [Nodes -> [Wrights -> Nat]]
  BY DEF Init
<1> QED
  BY <1>1, <1>2, RecordsInhabited DEF Init, TypeOK

\* Whatever fails, crashes or is edited, the objects, annotations, Jobs and copies keep
\* their types.
THEOREM TypeInvariant == Spec => []TypeOK
  BY TypeInit, TypeStep, PTL DEF Spec

-----------------------------------------------------------------------------
(***************************************************************************)
(* The shared cordon.  A pass writes what its copy changed since the       *)
(* snapshot, so the invariant relates the node, the snapshot and the copy. *)
(***************************************************************************)
\* What a run pass has still to visit, it has still to save.
RunShape ==
  pass.pc = "run" => \A w \in Wrights, n \in Nodes : <<w, n>> \in pass.todo => w \in pass.save

\* A cleanup is of one NodeWright.
CleanupOfOne ==
  pass.pc = "cleanup" =>
    \A v, w \in Wrights, m, n \in Nodes : <<v, m>> \in pass.todo /\ <<w, n>> \in pass.todo => v = w

\* Until a node is cleaned up, the snapshot has its cordons.
CleanupCopies ==
  pass.pc = "cleanup" =>
    \A w \in Wrights, n \in Nodes : <<w, n>> \in pass.todo =>
      /\ pass.snap[n].unsched = node[n].unsched
      /\ \A v \in Wrights : pass.snap[n].of[v].cordon = node[n].of[v].cordon

\* A run pass makes nodes unschedulable and never schedulable, and only the NodeWright
\* whose turn it is has set a cordon that is not saved yet.
RunCordons ==
  pass.pc = "run" =>
    \A n \in Nodes :
      /\ pass.snap[n].unsched => node[n].unsched /\ pass.mem[n].unsched
      /\ \A w \in pass.save : pass.mem[n].of[w].cordon =>
           \/ pass.snap[n].of[w].cordon
           \/ pass.mem[n].unsched /\ \A v \in pass.save : Order[w] <= Order[v]

\* The inductive invariant of the shared cordon.
CordonInv == CordonHeld /\ RunShape /\ CleanupOfOne /\ CleanupCopies /\ RunCordons

\* Order is a total order of the NodeWrights.
LEMMA OrderFacts ==
  /\ \A w \in Wrights : Order[w] \in Nat
  /\ \A v, w \in Wrights : Order[v] = Order[w] => v = w
  BY WrightsAssumption

\* Outside the passes that keep a snapshot, only the nodes matter.
LEMMA CordonIdle ==
  ASSUME \A n \in Nodes : Held(node'[n]), pass'.pc \notin {"run", "cleanup"}
  PROVE  CordonInv'
  BY DEF CordonInv, CordonHeld, Held, RunShape, CleanupOfOne, CleanupCopies, RunCordons

\* A step that leaves cordons and the pass alone keeps the invariant.
LEMMA CordonFrame ==
  ASSUME CordonInv, pass' = pass,
         \A n \in Nodes : /\ node'[n].unsched = node[n].unsched
                          /\ \A v \in Wrights : node'[n].of[v].cordon = node[n].of[v].cordon
  PROVE  CordonInv'
<1>1. CordonHeld' /\ RunShape' /\ CleanupOfOne'
  BY DEF CordonInv, CordonHeld, RunShape, CleanupOfOne
<1>2. CleanupCopies'
  BY DEF CordonInv, CleanupCopies
<1>3. RunCordons'
  BY DEF CordonInv, RunCordons
<1> QED
  BY <1>1, <1>2, <1>3 DEF CordonInv

\* Every step keeps the invariant; CleanupNode and SaveWright write from old copies.
LEMMA CordonStep == TypeOK /\ CordonInv /\ [Next]_vars => CordonInv'
<1> SUFFICES ASSUME TypeOK, CordonInv, [Next]_vars PROVE CordonInv'
  OBVIOUS
<1>0. \A n \in Nodes : Held(node[n])
  BY DEF CordonInv, CordonHeld, Held
<1>1. CASE HandleAutoTaint
  BY <1>1, HandleAutoTaintEffect, CordonFrame
<1>2. CASE TrackReboots
  BY <1>0, <1>2, TrackRebootsEffect, CordonIdle
<1>3. ASSUME NEW w \in Wrights, NEW n \in Nodes, TrackReboot(w, n)
      PROVE  CordonInv'
  <2>1. NoMarks.cordon = FALSE
    BY DEF NoMarks
  <2>2. \A m \in Nodes : node'[m].unsched = node[m].unsched
    BY <1>3, TrackRebootEffect
  <2>3. \A m \in Nodes, v \in Wrights :
          node'[m].of[v].cordon = node[m].of[v].cordon \/ node'[m].of[v].cordon = FALSE
    <3>0. RebootKeeps(w, n)
      BY <1>3, TrackRebootEffect
    <3>1. \A m \in Nodes, v \in Wrights : (m # n \/ v # w) => node'[m].of[v] = node[m].of[v]
      BY <3>0 DEF RebootKeeps
    <3>2. node' = node \/ node'[n].of[w] = NoMarks
      BY <1>3, TrackRebootEffect, ZenonT(40) DEF RebootOutcome
    <3> QED
      BY <2>1, <3>1, <3>2
  <2>4. \A m \in Nodes : Held(node'[m])
    BY <1>0, <2>2, <2>3 DEF Held
  <2> QED
    BY <1>3, <2>4, TrackRebootEffect, CordonIdle
<1>4. ASSUME NEW w \in Wrights, UpdateBootIds(w)
      PROVE  CordonInv'
  BY <1>0, <1>4, UpdateBootIdsEffect, CordonIdle
<1>5. ASSUME NEW w \in Wrights, AddFinalizer(w)
      PROVE  CordonInv'
  BY <1>5, AddFinalizerEffect, CordonFrame
<1>6. ASSUME NEW w \in Wrights, HandleFinalizer(w)
      PROVE  CordonInv'
  <2>1. /\ node' = node /\ pass'.pc = "cleanup" /\ pass'.snap = node
        /\ \A v \in Wrights, n \in Nodes : <<v, n>> \in pass'.todo <=> v = w
    BY <1>6, HandleFinalizerEffect
  <2>2. CordonHeld' /\ RunShape' /\ RunCordons'
    BY <2>1 DEF CordonInv, CordonHeld, RunShape, RunCordons
  <2>3. CleanupOfOne'
    BY <2>1 DEF CleanupOfOne
  <2>4. CleanupCopies'
    BY <2>1 DEF CleanupCopies
  <2> QED
    BY <2>2, <2>3, <2>4 DEF CordonInv
<1>7. ASSUME NEW w \in Wrights, NEW n \in Nodes, CleanupNode(w, n)
      PROVE  CordonInv'
  <2>1. /\ pass.pc = "cleanup" /\ <<w, n>> \in pass.todo
        /\ pass'.pc = "cleanup" /\ pass'.snap = pass.snap /\ pass'.todo = pass.todo \ {<<w, n>>}
    BY <1>7, CleanupNodeEffect
  <2>2. RunShape' /\ RunCordons' /\ CleanupOfOne'
    BY <2>1 DEF CordonInv, CleanupOfOne, RunShape, RunCordons
  <2>3. \A v \in Wrights, m \in Nodes : <<v, m>> \in pass'.todo => v = w /\ m # n /\ <<v, m>> \in pass.todo
    BY <2>1 DEF CordonInv, CleanupOfOne
  <2>4. \A m \in Nodes \ {n} : node'[m] = node[m]
    BY <1>7, CleanupNodeEffect
  <2>5. CleanupCopies'
    BY <2>1, <2>3, <2>4 DEF CordonInv, CleanupCopies
  <2>6. /\ \A v \in Wrights : pass.snap[n].of[v].cordon = node[n].of[v].cordon
        /\ \A v \in Wrights : pass.snap[n].of[v].cordon => pass.snap[n].unsched
    BY <2>1 DEF CordonInv, CleanupCopies, CordonHeld
  <2>7. Held(node'[n])
    <3>1. CASE node' = node
      BY <3>1, <1>0
    <3>2. CASE /\ Marked(node'[n], node[n], w)
               /\ node'[n].of[w].cordon = Merged(node[n].of[w].cordon, pass.snap[n].of[w].cordon, FALSE)
               /\ \/ node'[n].unsched = node[n].unsched
                  \/ /\ node'[n].unsched = FALSE
                     /\ \A v \in Wrights \ {w} : ~pass.snap[n].of[v].cordon
      <4>1. node'[n].of[w].cordon = FALSE
        <5>1. pass.snap[n].of[w].cordon = node[n].of[w].cordon
          BY <2>6
        <5> QED
          BY <3>2, <5>1 DEF Merged
      <4>2. \A v \in Wrights \ {w} : node'[n].of[v] = node[n].of[v]
        BY <3>2 DEF Marked
      <4> QED
        BY <1>0, <2>6, <3>2, <4>1, <4>2 DEF Held
    <3> QED
      BY <1>7, <3>1, <3>2, CleanupNodeEffect
  <2>8. CordonHeld'
    BY <1>0, <2>4, <2>7 DEF CordonHeld, Held
  <2> QED
    BY <2>2, <2>5, <2>8 DEF CordonInv
<1>8. ASSUME NEW w \in Wrights, RemoveFinalizer(w)
      PROVE  CordonInv'
  BY <1>0, <1>8, RemoveFinalizerEffect, CordonIdle
<1>9. ASSUME NEW w \in Wrights, IntrospectSkyhook(w)
      PROVE  CordonInv'
  <2>1. \A n \in Nodes : Held(node'[n])
    BY <1>0, <1>9, IntrospectSkyhookEffect
  <2>2. pass'.pc = "idle"
    BY <1>9, IntrospectSkyhookEffect
  <2> QED
    BY <2>1, <2>2, CordonIdle
<1>10. CASE ProcessSkyhooksPerNode
  <2>1. /\ node' = node /\ pass'.pc = "run" /\ pass'.snap = node /\ pass'.mem = Requested
        /\ \A w \in Wrights, n \in Nodes : <<w, n>> \in pass'.todo => w \in pass'.save
    BY <1>10, ProcessSkyhooksEffect
  <2>2. pass'.save \subseteq Wrights
    <3>1. pass' \in PassRecords
      BY <1>10, ProcessSkyhooksEffect DEF TypeOK
    <3> QED
      BY <3>1, PassFields
  <2>3. \A n \in Nodes : /\ Requested[n].unsched = node[n].unsched
                         /\ \A w \in Wrights : Requested[n].of[w].cordon = node[n].of[w].cordon
    BY RequestedFacts
  <2>4. RunCordons'
    BY <2>1, <2>2, <2>3 DEF RunCordons
  <2>5. CordonHeld' /\ RunShape' /\ CleanupOfOne' /\ CleanupCopies'
    BY <2>1 DEF CordonInv, CordonHeld, RunShape, CleanupOfOne, CleanupCopies
  <2> QED
    BY <2>4, <2>5 DEF CordonInv
<1>11. ASSUME NEW w \in Wrights, NEW s, pass.pc = "run", s = pass.save \ {w},
              \A v \in pass.save : Order[w] <= Order[v], w \in pass.save,
              pass'.pc = "run", pass'.snap = pass.snap, pass'.save = s, pass'.mem = NextCopies,
              \A n \in Nodes : pass.snap[n].unsched => node'[n].unsched
       PROVE  RunCordons'
  <2>1. \A n \in Nodes : NextCopies[n].of = pass.mem[n].of /\ NextCopies[n].unsched = pass.snap[n].unsched
    BY NextCopiesFacts
  <2>2. pass.save \subseteq Wrights
    BY PassFields DEF TypeOK
  <2>3. ASSUME NEW n \in Nodes, NEW v \in s, pass.mem[n].of[v].cordon
        PROVE  pass.snap[n].of[v].cordon
    <3>1. v # w /\ v \in Wrights /\ v \in pass.save
      BY <1>11, <2>2
    <3>2. ~(Order[v] <= Order[w])
      BY <1>11, <3>1, OrderFacts
    <3> QED
      BY <1>11, <2>3, <3>1, <3>2 DEF CordonInv, RunCordons
  <2> QED
    BY <1>11, <2>1, <2>3 DEF RunCordons
<1>12. ASSUME NEW w \in Wrights, NEW n \in Nodes, RunPackages(w, n)
       PROVE  CordonInv'
  <2>1. pass.pc = "run" /\ <<w, n>> \in pass.todo /\ node' = node
        /\ (\A v \in pass.save : Order[w] <= Order[v]) /\ pass'.pc = "run" /\ pass'.snap = pass.snap
    BY <1>12, RunPackagesEffect
  <2>2. w \in pass.save
    BY <2>1 DEF CordonInv, RunShape
  <2>3. CordonHeld' /\ CleanupOfOne' /\ CleanupCopies'
    BY <2>1 DEF CordonInv, CordonHeld, CleanupOfOne, CleanupCopies
  <2>4. CASE /\ pass'.save = pass.save \ {w} /\ pass'.mem = NextCopies
             /\ \A v \in Wrights, m \in Nodes : <<v, m>> \in pass'.todo <=> <<v, m>> \in pass.todo /\ v # w
    <3>1. RunShape'
      BY <2>1, <2>4 DEF CordonInv, RunShape
    <3>2. \A m \in Nodes : pass.snap[m].unsched => node'[m].unsched
      BY <2>1 DEF CordonInv, RunCordons
    <3>3. RunCordons'
      BY <1>11, <2>1, <2>2, <2>4, <3>2
    <3> QED
      BY <2>3, <3>1, <3>3 DEF CordonInv
  <2>5. CASE /\ pass'.save = pass.save /\ pass'.todo = pass.todo \ {<<w, n>>}
             /\ VisitOutcome(w, n, pass.mem[n], pass'.mem[n])
             /\ \A m \in Nodes \ {n} : pass'.mem[m] = pass.mem[m]
    <3>1. RunShape'
      BY <2>1, <2>5 DEF CordonInv, RunShape
    <3> DEFINE old == pass.mem[n]
               new == pass'.mem[n]
    <3>2. /\ \A v \in Wrights \ {w} : new.of[v] = old.of[v]
          /\ \/ new.unsched = old.unsched /\ new.of[w].cordon = old.of[w].cordon
             \/ new.unsched = TRUE /\ new.of[w].cordon = TRUE
      BY <2>5 DEF VisitOutcome, Marked
    <3>3. pass.save \subseteq Wrights
      BY PassFields DEF TypeOK
    <3>4. old.unsched => new.unsched
      BY <3>2
    <3>5. ASSUME NEW m \in Nodes
          PROVE  /\ pass.snap[m].unsched => node[m].unsched /\ pass'.mem[m].unsched
                 /\ \A v \in pass.save : pass'.mem[m].of[v].cordon =>
                      \/ pass.snap[m].of[v].cordon
                      \/ pass'.mem[m].unsched /\ \A u \in pass.save : Order[v] <= Order[u]
      <4>1. CASE m # n
        BY <2>1, <2>5, <4>1 DEF CordonInv, RunCordons
      <4>2. CASE m = n
        <5>1. /\ pass.snap[n].unsched => node[n].unsched /\ old.unsched
              /\ \A v \in pass.save : old.of[v].cordon =>
                   \/ pass.snap[n].of[v].cordon
                   \/ old.unsched /\ \A u \in pass.save : Order[v] <= Order[u]
          BY <2>1 DEF CordonInv, RunCordons
        <5> HIDE DEF old, new
        <5>2. /\ pass.snap[n].unsched => node[n].unsched /\ new.unsched
              /\ \A v \in pass.save : new.of[v].cordon =>
                   \/ pass.snap[n].of[v].cordon
                   \/ new.unsched /\ \A u \in pass.save : Order[v] <= Order[u]
          BY <2>1, <3>2, <3>3, <3>4, <5>1
        <5> QED
          BY <4>2, <5>2 DEF new
      <4> QED
        BY <4>1, <4>2
    <3>6. RunCordons'
      BY <2>1, <2>5, <3>5 DEF RunCordons
    <3> QED
      BY <2>3, <3>1, <3>6 DEF CordonInv
  <2> QED
    BY <1>12, <2>4, <2>5, RunPackagesEffect
<1>13. ASSUME NEW w \in Wrights, SaveWright(w)
       PROVE  CordonInv'
  <2>1. /\ pass.pc = "run" /\ w \in pass.save
        /\ \A v \in Wrights, n \in Nodes : <<v, n>> \in pass.todo => Order[w] < Order[v]
        /\ \A v \in pass.save : Order[w] <= Order[v]
        /\ pass'.pc = "run" /\ pass'.snap = pass.snap /\ pass'.todo = pass.todo
        /\ pass'.save = pass.save \ {w} /\ pass'.mem = NextCopies
    BY <1>13, SaveWrightEffect
  <2>2. \A n \in Nodes :
          /\ \A v \in Wrights \ {w} : node'[n].of[v] = node[n].of[v]
          /\ node'[n].unsched = Merged(node[n].unsched, pass.snap[n].unsched, pass.mem[n].unsched)
          /\ node'[n].of[w].cordon = Merged(node[n].of[w].cordon, pass.snap[n].of[w].cordon,
                                            pass.mem[n].of[w].cordon)
    BY <1>13, SaveWrightEffect DEF Marked
  <2>3. ASSUME NEW n \in Nodes
        PROVE  /\ Held(node'[n]) /\ (pass.snap[n].unsched => node'[n].unsched)
    <3>1. /\ pass.snap[n].unsched => node[n].unsched /\ pass.mem[n].unsched
          /\ pass.mem[n].of[w].cordon => pass.snap[n].of[w].cordon \/ pass.mem[n].unsched
      BY <2>1 DEF CordonInv, RunCordons
    <3>2. pass.snap[n].unsched \in BOOLEAN /\ pass.mem[n].unsched \in BOOLEAN
          /\ pass.snap[n].of[w].cordon \in BOOLEAN /\ pass.mem[n].of[w].cordon \in BOOLEAN
      <4>1. pass.snap[n] \in NodeRecords /\ pass.mem[n] \in NodeRecords
        BY PassFields DEF TypeOK
      <4> QED
        BY <4>1 DEF NodeRecords, Marks
    <3>3. node[n].unsched => node'[n].unsched
      BY <2>2, <3>1, <3>2 DEF Merged
    <3>4. node'[n].of[w].cordon => node[n].of[w].cordon \/ node'[n].unsched
      BY <2>2, <3>1, <3>2 DEF Merged
    <3>5. Held(node'[n])
      BY <1>0, <2>2, <3>3, <3>4 DEF Held
    <3> QED
      BY <3>1, <3>3, <3>5
  <2>4. CordonHeld'
    BY <2>3 DEF CordonHeld, Held
  <2>5. RunCordons'
    BY <1>11, <2>1, <2>3
  <2>6. RunShape'
    BY <2>1, OrderFacts DEF CordonInv, RunShape
  <2>7. CleanupOfOne' /\ CleanupCopies'
    BY <2>1 DEF CleanupOfOne, CleanupCopies
  <2> QED
    BY <2>4, <2>5, <2>6, <2>7 DEF CordonInv
<1>14. CASE RunEnds
  BY <1>0, <1>14, RunEndsEffect, CordonIdle
<1>15. CASE HandleRuntimeRequired
  <2>1. \A n \in Nodes : node'[n].of = node[n].of /\ (node[n].unsched = TRUE => node'[n].unsched = TRUE)
    BY <1>15, HandleRuntimeRequiredEffect
  <2>2. \A n \in Nodes : node[n].unsched \in BOOLEAN
    BY DEF TypeOK, NodeRecords
  <2>3. \A n \in Nodes : Held(node'[n])
    BY <1>0, <2>1, <2>2 DEF Held
  <2> QED
    BY <1>15, <2>3, HandleRuntimeRequiredEffect, CordonIdle
<1>16. CASE Crash
  BY <1>0, <1>16, CrashEffect, CordonIdle
<1>17. ASSUME NEW n \in Nodes, Reboot(n)
       PROVE  CordonInv'
  <2>1. \A m \in Nodes : node'[m].unsched = node[m].unsched /\ node'[m].of = node[m].of
    BY <1>17, RebootEffect
  <2> QED
    BY <1>17, <2>1, RebootEffect, CordonFrame
<1>18. ASSUME NEW n \in Nodes, PlaceWorkload(n) \/ WorkloadLeaves(n)
       PROVE  CordonInv'
  BY <1>18, WorkloadEffect, CordonFrame
<1>19. ASSUME NEW n \in Nodes, UserUncordons(n)
       PROVE  CordonInv'
  <2>1. \A m \in Nodes : Held(node'[m])
    BY <1>0, <1>19, UserUncordonsEffect DEF Held
  <2> QED
    BY <1>19, <2>1, UserUncordonsEffect, CordonIdle
<1>20. ASSUME NEW w \in Wrights, EditMode(w) \/ Delete(w)
       PROVE  CordonInv'
  BY <1>20, EditModeEffect, DeleteEffect, CordonFrame
<1>21. ASSUME NEW w \in Wrights, NEW n \in Nodes, JobFinishes(w, n)
       PROVE  CordonInv'
  BY <1>21, JobFinishesEffect, CordonFrame
<1>22. ASSUME NEW w \in Wrights, NEW n \in Nodes, JobRecorded(w, n) \/ DrainTimeoutPasses(w, n)
       PROVE  CordonInv'
  <2>1. /\ pass' = pass /\ Marked(node'[n], node[n], w) /\ node'[n].unsched = node[n].unsched
        /\ node'[n].of[w].cordon = node[n].of[w].cordon
        /\ \A m \in Nodes \ {n} : node'[m] = node[m]
    BY <1>22, JobRecordedEffect, DrainTimeoutEffect
  <2>2. \A m \in Nodes : /\ node'[m].unsched = node[m].unsched
                         /\ \A v \in Wrights : node'[m].of[v].cordon = node[m].of[v].cordon
    BY <2>1 DEF Marked
  <2> QED
    BY <2>1, <2>2, CordonFrame
<1>23. CASE UNCHANGED vars
  BY <1>23, CordonFrame DEF vars
<1> QED
  BY <1>1, <1>2, <1>3, <1>4, <1>5, <1>6, <1>7, <1>8, <1>9, <1>10, <1>12, <1>13, <1>14, <1>15, <1>16,
     <1>17, <1>18, <1>19, <1>20, <1>21, <1>22, <1>23 DEF Next, Reconcile, Environment

\* At the start there is no cordon.
LEMMA CordonInit == Init => CordonInv
<1> SUFFICES ASSUME Init PROVE CordonInv
  OBVIOUS
<1>1. pass.pc = "idle" /\ \A n \in Nodes, w \in Wrights : node[n].of[w].cordon = FALSE
  BY DEF Init, IdlePass, NewNode, NoMarks
<1> QED
  BY <1>1 DEF CordonInv, CordonHeld, RunShape, CleanupOfOne, CleanupCopies, RunCordons

\* A node stays unschedulable as long as any NodeWright holds a cordon on it, for any
\* number of nodes and NodeWrights, whatever completes, crashes, reboots or is deleted:
\* Uncordon looks at the other cordons of its copy, and a copy has all of them.
THEOREM CordonsAreHeld == Spec => []CordonHeld
<1>1. Spec => []CordonInv
  BY TypeInvariant, CordonInit, CordonStep, PTL DEF Spec
<1>2. CordonInv => CordonHeld
  BY DEF CordonInv
<1> QED
  BY <1>1, <1>2, PTL

-----------------------------------------------------------------------------
(***************************************************************************)
(* What a deleted NodeWright leaves.  The cleanup writes what it changed   *)
(* since its snapshot, so a node is clean only if the snapshot is current. *)
(***************************************************************************)
Clean(marks) == ~marks.cordon /\ marks.status = "none" /\ marks.drain = "none"

\* Only a NodeWright with its finalizer has anything on a node.
FinalizerGuards ==
  /\ \A w \in Wrights : wright[w].gone => ~wright[w].finalizer
  /\ \A w \in Wrights, n \in Nodes : ~wright[w].finalizer => Clean(node[n].of[w])

\* Only NodeWrights with a finalizer are saved.
RunFinalized == pass.pc = "run" => \A w \in pass.save : wright[w].finalizer

\* Until a node is cleaned up, the snapshot has its marks ...
CleanupCurrent ==
  pass.pc = "cleanup" =>
    \A w \in Wrights, n \in Nodes : <<w, n>> \in pass.todo =>
      /\ pass.snap[n].of[w].status = node[n].of[w].status
      /\ (pass.snap[n].of[w].drain = "none" => node[n].of[w].drain = "none")

\* ... and from then on it is clean.
CleanupCleans ==
  pass.pc = "cleanup" =>
    \A w \in pass.save, n \in Nodes : <<w, n>> \in pass.todo \/ Clean(node[n].of[w])

\* The inductive invariant of the deletion.
GoneInv == FinalizerGuards /\ RunFinalized /\ CleanupCurrent /\ CleanupCleans

\* Outside the passes that keep a snapshot, only the nodes and the finalizers matter.
LEMMA GoneIdle ==
  ASSUME FinalizerGuards', pass'.pc \notin {"run", "cleanup"}
  PROVE  GoneInv'
  BY DEF GoneInv, RunFinalized, CleanupCurrent, CleanupCleans

\* A step that leaves finalizers, marks and the pass alone keeps the invariant.
LEMMA GoneFrame ==
  ASSUME GoneInv, pass' = pass,
         \A w \in Wrights : wright'[w].finalizer = wright[w].finalizer
                            /\ (wright'[w].gone => wright[w].gone \/ ~wright[w].finalizer),
         \A n \in Nodes, w \in Wrights : /\ node'[n].of[w].cordon = node[n].of[w].cordon
                                         /\ node'[n].of[w].status = node[n].of[w].status
                                         /\ node'[n].of[w].drain = node[n].of[w].drain,
         TypeOK
  PROVE  GoneInv'
<1>1. FinalizerGuards'
  BY DEF GoneInv, FinalizerGuards, Clean
<1>2. RunFinalized'
  BY PassFields DEF GoneInv, RunFinalized, TypeOK
<1>3. CleanupCurrent'
  BY DEF GoneInv, CleanupCurrent
<1>4. CleanupCleans'
  <2>1. \A n \in Nodes, w \in Wrights : Clean(node[n].of[w]) => Clean(node'[n].of[w])
    BY DEF Clean
  <2>2. pass.save \subseteq Wrights
    BY PassFields DEF TypeOK
  <2> QED
    BY <2>1, <2>2 DEF GoneInv, CleanupCleans
<1> QED
  BY <1>1, <1>2, <1>3, <1>4 DEF GoneInv

\* A NodeWright with its finalizer may change its own marks.
LEMMA GuardsKept ==
  ASSUME FinalizerGuards, wright' = wright, NEW w \in Wrights, wright[w].finalizer,
         \A n \in Nodes, v \in Wrights \ {w} : node'[n].of[v] = node[n].of[v]
  PROVE  FinalizerGuards'
  BY DEF FinalizerGuards, Clean

\* Every step keeps the invariant; CleanupNode is where the snapshot matters.
LEMMA GoneStep == TypeOK /\ CordonInv /\ GoneInv /\ [Next]_vars => GoneInv'
<1> SUFFICES ASSUME TypeOK, CordonInv, GoneInv, [Next]_vars PROVE GoneInv'
  OBVIOUS
<1>0. FinalizerGuards
  BY DEF GoneInv
<1>1. CASE HandleAutoTaint
  BY <1>1, HandleAutoTaintEffect, GoneFrame
<1>2. CASE TrackReboots
  <2>1. FinalizerGuards'
    BY <1>0, <1>2, TrackRebootsEffect DEF FinalizerGuards
  <2> QED
    BY <1>2, <2>1, TrackRebootsEffect, GoneIdle
<1>3. ASSUME NEW w \in Wrights, NEW n \in Nodes, TrackReboot(w, n)
      PROVE  GoneInv'
  <2>1. Clean(NoMarks)
    BY DEF NoMarks, Clean
  <2>0. RebootKeeps(w, n)
    BY <1>3, TrackRebootEffect
  <2>2. \A m \in Nodes, v \in Wrights : (m # n \/ v # w) => node'[m].of[v] = node[m].of[v]
    BY <2>0 DEF RebootKeeps
  <2>3. node' = node \/ node'[n].of[w] = NoMarks
    BY <1>3, TrackRebootEffect, ZenonT(40) DEF RebootOutcome
  <2>4. \A m \in Nodes, v \in Wrights : Clean(node[m].of[v]) => Clean(node'[m].of[v])
    BY <2>1, <2>2, <2>3
  <2>5. FinalizerGuards'
    BY <1>0, <1>3, <2>4, TrackRebootEffect DEF FinalizerGuards
  <2> QED
    BY <1>3, <2>5, TrackRebootEffect, GoneIdle
<1>4. ASSUME NEW w \in Wrights, UpdateBootIds(w)
      PROVE  GoneInv'
  <2>1. \A v \in Wrights : wright'[v].finalizer = wright[v].finalizer /\ wright'[v].gone = wright[v].gone
    BY <1>4, UpdateBootIdsEffect
  <2>2. FinalizerGuards'
    BY <1>0, <1>4, <2>1, UpdateBootIdsEffect DEF FinalizerGuards
  <2> QED
    BY <1>4, <2>2, UpdateBootIdsEffect, GoneIdle
<1>5. ASSUME NEW w \in Wrights, AddFinalizer(w)
      PROVE  GoneInv'
  <2>1. FinalizerGuards'
    BY <1>0, <1>5, AddFinalizerEffect DEF FinalizerGuards
  <2> QED
    BY <1>5, <2>1, AddFinalizerEffect, GoneIdle
<1>6. ASSUME NEW w \in Wrights, HandleFinalizer(w)
      PROVE  GoneInv'
  <2>1. /\ node' = node /\ wright' = wright /\ pass'.pc = "cleanup" /\ pass'.snap = node
        /\ pass'.save = {w} /\ \A v \in Wrights, n \in Nodes : <<v, n>> \in pass'.todo <=> v = w
    BY <1>6, HandleFinalizerEffect
  <2>2. FinalizerGuards' /\ RunFinalized'
    BY <1>0, <2>1 DEF FinalizerGuards, RunFinalized
  <2>3. CleanupCurrent' /\ CleanupCleans'
    BY <2>1 DEF CleanupCurrent, CleanupCleans
  <2> QED
    BY <2>2, <2>3 DEF GoneInv
<1>7. ASSUME NEW w \in Wrights, NEW n \in Nodes, CleanupNode(w, n)
      PROVE  GoneInv'
  <2>1. /\ pass.pc = "cleanup" /\ <<w, n>> \in pass.todo /\ wright' = wright
        /\ pass'.pc = "cleanup" /\ pass'.snap = pass.snap /\ pass'.todo = pass.todo \ {<<w, n>>}
    BY <1>7, CleanupNodeEffect
  <2>2. RunFinalized'
    BY <2>1 DEF RunFinalized
  <2>3. CASE pass'.save = {} /\ node' = node
    <3>1. FinalizerGuards' /\ CleanupCurrent' /\ CleanupCleans'
      BY <1>0, <2>1, <2>3 DEF GoneInv, FinalizerGuards, CleanupCurrent, CleanupCleans
    <3> QED
      BY <2>2, <3>1 DEF GoneInv
  <2>4. CASE /\ pass'.save = pass.save
             /\ \A m \in Nodes \ {n} : node'[m] = node[m]
             /\ Marked(node'[n], node[n], w)
             /\ node'[n].of[w].cordon = Merged(node[n].of[w].cordon, pass.snap[n].of[w].cordon, FALSE)
             /\ node'[n].of[w].status = Merged(node[n].of[w].status, pass.snap[n].of[w].status, "none")
             /\ node'[n].of[w].drain = Merged(node[n].of[w].drain, pass.snap[n].of[w].drain, "none")
    <3>1. \A m \in Nodes, v \in Wrights : (m # n \/ v # w) => node'[m].of[v] = node[m].of[v]
      BY <2>4 DEF Marked
    <3>2. node'[n].of[w].cordon = FALSE
      <4>1. pass.snap[n].of[w].cordon = node[n].of[w].cordon
        BY <2>1 DEF CordonInv, CleanupCopies
      <4> QED
        BY <2>4, <4>1 DEF Merged
    <3>3. node'[n].of[w].status = "none" /\ node'[n].of[w].drain = "none"
      BY <2>1, <2>4 DEF GoneInv, CleanupCurrent, Merged
    <3>4. Clean(node'[n].of[w])
      BY <3>2, <3>3 DEF Clean
    <3>5. FinalizerGuards'
      BY <1>0, <2>1, <3>1, <3>4 DEF FinalizerGuards
    <3>6. \A v \in Wrights, m \in Nodes :
            <<v, m>> \in pass'.todo <=> <<v, m>> \in pass.todo /\ (v # w \/ m # n)
      BY <2>1
    <3>7. CleanupCurrent'
      BY <2>1, <3>1, <3>6 DEF GoneInv, CleanupCurrent
    <3>8. pass.save \subseteq Wrights
      BY PassFields DEF TypeOK
    <3>9. CleanupCleans'
      BY <2>1, <2>4, <3>1, <3>4, <3>6, <3>8 DEF GoneInv, CleanupCleans
    <3> QED
      BY <2>2, <3>5, <3>7, <3>9 DEF GoneInv
  <2> QED
    BY <1>7, <2>3, <2>4, CleanupNodeEffect
<1>8. ASSUME NEW w \in Wrights, RemoveFinalizer(w)
      PROVE  GoneInv'
  <2>1. pass.pc = "cleanup" /\ pass.todo = {} /\ node' = node /\ pass'.pc = "idle"
    BY <1>8, RemoveFinalizerEffect
  <2>2. CASE wright' = wright
    BY <1>0, <2>1, <2>2, GoneIdle DEF FinalizerGuards
  <2>3. CASE /\ w \in pass.save /\ wright'[w].finalizer = FALSE
             /\ \A v \in Wrights \ {w} : wright'[v] = wright[v]
    <3>1. \A n \in Nodes : Clean(node[n].of[w])
      BY <2>1, <2>3 DEF GoneInv, CleanupCleans
    <3>2. FinalizerGuards'
      BY <1>0, <2>1, <2>3, <3>1 DEF FinalizerGuards
    <3> QED
      BY <2>1, <3>2, GoneIdle
  <2> QED
    BY <1>8, <2>2, <2>3, RemoveFinalizerEffect
<1>9. ASSUME NEW w \in Wrights, IntrospectSkyhook(w)
      PROVE  GoneInv'
  <2>1. wright' = wright /\ wright[w].finalizer /\ pass'.pc = "idle"
        /\ \A n \in Nodes, v \in Wrights \ {w} : node'[n].of[v] = node[n].of[v]
    BY <1>9, IntrospectSkyhookEffect DEF Marked
  <2> QED
    BY <1>0, <2>1, GuardsKept, GoneIdle
<1>10. CASE ProcessSkyhooksPerNode
  <2>1. /\ node' = node /\ wright' = wright /\ pass'.pc = "run"
        /\ \A w \in pass'.save : w \in Present
        /\ \A w \in Present : wright[w].finalizer = TRUE
    BY <1>10, ProcessSkyhooksEffect
  <2>2. FinalizerGuards' /\ RunFinalized' /\ CleanupCurrent' /\ CleanupCleans'
    BY <1>0, <2>1 DEF FinalizerGuards, RunFinalized, CleanupCurrent, CleanupCleans
  <2> QED
    BY <2>2 DEF GoneInv
<1>11. ASSUME NEW w \in Wrights, NEW n \in Nodes, RunPackages(w, n)
       PROVE  GoneInv'
  <2>1. node' = node /\ wright' = wright /\ pass.pc = "run" /\ pass'.pc = "run" /\ pass'.save \subseteq pass.save
    BY <1>11, RunPackagesEffect
  <2>2. FinalizerGuards' /\ RunFinalized' /\ CleanupCurrent' /\ CleanupCleans'
    BY <1>0, <2>1 DEF GoneInv, FinalizerGuards, RunFinalized, CleanupCurrent, CleanupCleans
  <2> QED
    BY <2>2 DEF GoneInv
<1>12. ASSUME NEW w \in Wrights, SaveWright(w)
       PROVE  GoneInv'
  <2>1. /\ wright' = wright /\ pass.pc = "run" /\ pass'.pc = "run" /\ w \in pass.save
        /\ pass'.save \subseteq pass.save
        /\ \A n \in Nodes, v \in Wrights \ {w} : node'[n].of[v] = node[n].of[v]
    BY <1>12, SaveWrightEffect DEF Marked
  <2>2. wright[w].finalizer /\ RunFinalized' /\ CleanupCurrent' /\ CleanupCleans'
    BY <2>1 DEF GoneInv, RunFinalized, CleanupCurrent, CleanupCleans
  <2> QED
    BY <1>0, <2>1, <2>2, GuardsKept DEF GoneInv
<1>13. CASE RunEnds
  <2>1. FinalizerGuards'
    BY <1>0, <1>13, RunEndsEffect DEF FinalizerGuards
  <2> QED
    BY <1>13, <2>1, RunEndsEffect, GoneIdle
<1>14. CASE HandleRuntimeRequired
  <2>1. FinalizerGuards'
    BY <1>0, <1>14, HandleRuntimeRequiredEffect DEF FinalizerGuards
  <2> QED
    BY <1>14, <2>1, HandleRuntimeRequiredEffect, GoneIdle
<1>15. CASE Crash
  <2>1. FinalizerGuards'
    BY <1>0, <1>15, CrashEffect DEF FinalizerGuards
  <2> QED
    BY <1>15, <2>1, CrashEffect, GoneIdle
<1>16. ASSUME NEW n \in Nodes, Reboot(n) \/ UserUncordons(n)
       PROVE  GoneInv'
  <2>1. wright' = wright /\ pass' = pass /\ \A m \in Nodes : node'[m].of = node[m].of
    BY <1>16, RebootEffect, UserUncordonsEffect
  <2> QED
    BY <2>1, GoneFrame
<1>17. ASSUME NEW n \in Nodes, PlaceWorkload(n) \/ WorkloadLeaves(n)
       PROVE  GoneInv'
  BY <1>17, WorkloadEffect, GoneFrame
<1>18. ASSUME NEW w \in Wrights, EditMode(w)
       PROVE  GoneInv'
  BY <1>18, EditModeEffect, GoneFrame
<1>19. ASSUME NEW w \in Wrights, Delete(w)
       PROVE  GoneInv'
  BY <1>19, DeleteEffect, GoneFrame
<1>20. ASSUME NEW w \in Wrights, NEW n \in Nodes, JobFinishes(w, n)
       PROVE  GoneInv'
  BY <1>20, JobFinishesEffect, GoneFrame
<1>21. ASSUME NEW w \in Wrights, NEW n \in Nodes, JobRecorded(w, n)
       PROVE  GoneInv'
  <2>1. wright' = wright /\ pass' = pass
    BY <1>21, JobRecordedEffect
  <2>2. \A m \in Nodes, v \in Wrights : /\ node'[m].of[v].cordon = node[m].of[v].cordon
                                        /\ node'[m].of[v].status = node[m].of[v].status
                                        /\ node'[m].of[v].drain = node[m].of[v].drain
    BY <1>21, JobRecordedEffect DEF Marked
  <2> QED
    BY <2>1, <2>2, GoneFrame
<1>22. ASSUME NEW w \in Wrights, NEW n \in Nodes, DrainTimeoutPasses(w, n)
       PROVE  GoneInv'
  <2>1. /\ wright' = wright /\ pass' = pass /\ node[n].of[w].drain = "started"
        /\ node'[n].of[w].status = node[n].of[w].status
        /\ \A m \in Nodes, v \in Wrights : (m # n \/ v # w) => node'[m].of[v] = node[m].of[v]
    BY <1>22, DrainTimeoutEffect DEF Marked
  <2>2. ~Clean(node[n].of[w])
    BY <2>1 DEF Clean
  <2>3. FinalizerGuards'
    BY <1>0, <2>1, <2>2 DEF FinalizerGuards
  <2>4. RunFinalized'
    BY <2>1 DEF GoneInv, RunFinalized
  <2>5. CleanupCurrent'
    <3>1. \A m \in Nodes, v \in Wrights : /\ node'[m].of[v].status = node[m].of[v].status
                                          /\ node[m].of[v].drain = "none" => node'[m].of[v].drain = "none"
      BY <2>1
    <3> QED
      BY <2>1, <3>1 DEF GoneInv, CleanupCurrent
  <2>6. pass.save \subseteq Wrights
    BY PassFields DEF TypeOK
  <2>7. CleanupCleans'
    BY <2>1, <2>2, <2>6 DEF GoneInv, CleanupCleans
  <2> QED
    BY <2>3, <2>4, <2>5, <2>7 DEF GoneInv
<1>23. CASE UNCHANGED vars
  BY <1>23, GoneFrame DEF vars
<1> QED
  BY <1>1, <1>2, <1>3, <1>4, <1>5, <1>6, <1>7, <1>8, <1>9, <1>10, <1>11, <1>12, <1>13, <1>14, <1>15, <1>16,
     <1>17, <1>18, <1>19, <1>20, <1>21, <1>22, <1>23 DEF Next, Reconcile, Environment

\* At the start no NodeWright has anything on a node.
LEMMA GoneInit == Init => GoneInv
<1> SUFFICES ASSUME Init PROVE GoneInv
  OBVIOUS
<1>1. pass.pc = "idle" /\ \A w \in Wrights : wright[w].gone = FALSE
  BY DEF Init, IdlePass, NewWright
<1>2. \A n \in Nodes, w \in Wrights : Clean(node[n].of[w])
  BY DEF Init, NewNode, NoMarks, Clean
<1> QED
  BY <1>1, <1>2 DEF GoneInv, FinalizerGuards, RunFinalized, CleanupCurrent, CleanupCleans

\* A NodeWright that is gone has left no cordon, no status and no drain mark on any node:
\* HandleFinalizer removes the finalizer only after a cleanup in which every write
\* succeeded, and nothing writes for a NodeWright without a finalizer.
THEOREM DeletedIsClean == Spec => []GoneLeavesNothing
<1>1. Spec => [](CordonInv /\ GoneInv)
  BY TypeInvariant, CordonInit, CordonStep, GoneInit, GoneStep, PTL DEF Spec
<1>2. GoneInv => GoneLeavesNothing
  BY DEF GoneInv, FinalizerGuards, Clean, GoneLeavesNothing, Present
<1> QED
  BY <1>1, <1>2, PTL

-----------------------------------------------------------------------------
(***************************************************************************)
(* Reboots.  The invariant speaks of one NodeWright on one node: what its  *)
(* recorded boot id, its entry, its Job and the pass's copies say of each  *)
(* other.                                                                  *)
(***************************************************************************)
\* A recorded boot is a boot the node has had, and nothing is done before one is recorded.
Behind(n, w) ==
  /\ node[n].boot >= 1 /\ wright[w].boots[n] <= node[n].boot
  /\ wright[w].boots[n] = 0 => node[n].of[w].entry = "none" /\ job[n][w].phase = "none"

\* A reboot pass has a new boot id for what it has reset, and the old one for the rest.
ResetsFirst(n, w) ==
  pass.pc = "reboot" =>
    /\ pass.snap[n].boot >= 1 /\ pass.snap[n].boot <= node[n].boot
    /\ <<w, n>> \in pass.todo => /\ w \in pass.save /\ pass.boots[w][n] = wright[w].boots[n]
                                 /\ wright[w].boots[n] # pass.snap[n].boot
    /\ w \in pass.save => wright[w].boots[n] <= pass.snap[n].boot
    /\ (w \in pass.save /\ pass.boots[w][n] # wright[w].boots[n]) =>
         /\ pass.boots[w][n] = pass.snap[n].boot
         /\ ReapplyOnReboot => /\ node[n].of[w].entry = "none"
                               /\ job[n][w].phase = "none" \/ <<n, w>> \in used.kept

\* What the copy of a run pass may make of an entry.
EntryMoves(n, w) ==
  LET old == pass.snap[n].of[w].entry new == pass.mem[n].of[w].entry
      removed == wright[w].deleting /\ w \in UninstallEnabled IN
  /\ \/ new = old
     \/ new = "in_progress" /\ old = "none" /\ ~removed
     \/ new = "uninstall" /\ old = "complete" /\ removed
  /\ old = "none" => node[n].of[w].entry = "none"
  /\ <<w, n>> \in pass.todo =>
       wright[w].mode = "run" /\ new # "complete" /\ (removed => new # "none")

\* A run pass is of a boot that every NodeWright has recorded.
RunCurrent(n, w) ==
  pass.pc = "run" =>
    /\ pass.snap[n].boot >= 1 /\ pass.snap[n].boot <= node[n].boot
    /\ ~wright[w].gone => wright[w].boots[n] = pass.snap[n].boot
    /\ w \in pass.save => ~wright[w].gone /\ EntryMoves(n, w)

\* A finished Job that is going to be recorded ran in this boot.
AppliedNow(n, w) ==
  LET j == job[n][w] nd == node[n] IN
  ReapplyOnReboot =>
    /\ nd.of[w].entry = "complete" /\ wright[w].boots[n] = nd.boot => applied[n][w] = nd.boot
    /\ j.phase = "finished" /\ j.kind = "apply"
       /\ nd.of[w].entry = "in_progress" /\ wright[w].boots[n] = nd.boot => j.boot = nd.boot
    /\ j.phase = "finished" /\ j.kind = "apply"
       /\ pass.pc = "run" /\ w \in pass.save /\ pass.snap[n].boot = nd.boot
       /\ pass.mem[n].of[w].entry = "in_progress" /\ pass.snap[n].of[w].entry # "in_progress"
         => j.boot = nd.boot

\* The invariant of one NodeWright on one node, and of all of them.
BootPoint(n, w) == Behind(n, w) /\ ResetsFirst(n, w) /\ RunCurrent(n, w) /\ AppliedNow(n, w)
BootInv == \A n \in Nodes, w \in Wrights : BootPoint(n, w)

\* The numbers the invariant compares are numbers.
LEMMA BootTypes ==
  ASSUME TypeOK, NEW n \in Nodes, NEW w \in Wrights
  PROVE  /\ node[n].boot \in Nat /\ wright[w].boots[n] \in Nat /\ pass.snap[n].boot \in Nat
         /\ pass.boots[w][n] \in Nat /\ job[n][w].boot \in Nat /\ applied[n][w] \in Nat
<1>1. node[n] \in NodeRecords /\ wright[w] \in WrightRecords /\ pass.snap[n] \in NodeRecords
      /\ job[n][w] \in JobRecords /\ applied[n][w] \in Nat
  BY PassFields DEF TypeOK
<1>2. pass.boots[w][n] \in Nat
  BY PassFields DEF TypeOK
<1>3. \A nd \in NodeRecords : nd.boot \in Nat
  BY DEF NodeRecords
<1>4. \A j \in JobRecords : j.boot \in Nat
  BY DEF JobRecords
<1> QED
  BY <1>1, <1>2, <1>3, <1>4, WrightFields

\* What the invariant says of w on n depends on these values; the pass stays, or moves on.
SamePoint(n, w) ==
  /\ node'[n].boot = node[n].boot /\ node'[n].of[w].entry = node[n].of[w].entry
  /\ job'[n][w] = job[n][w] /\ applied'[n][w] = applied[n][w]
  /\ wright'[w].boots[n] = wright[w].boots[n] /\ used.kept \subseteq used'.kept

\* The pass of the next state, seen from w on n.
PassMovesOn(n, w) ==
  /\ wright'[w].mode = wright[w].mode /\ wright'[w].deleting = wright[w].deleting
  /\ wright'[w].gone = wright[w].gone
  /\ pass'.pc = pass.pc /\ pass'.snap = pass.snap
  /\ pass'.mem[n].of[w].entry = pass.mem[n].of[w].entry
  /\ pass'.boots[w][n] = pass.boots[w][n]
  /\ <<w, n>> \in pass'.todo => <<w, n>> \in pass.todo /\ w \in pass'.save
  /\ w \in pass'.save => w \in pass.save

\* A step that changes none of these values keeps the invariant.
LEMMA BootPointKept ==
  ASSUME NEW n \in Nodes, NEW w \in Wrights, BootPoint(n, w), SamePoint(n, w),
         PassMovesOn(n, w) \/ pass'.pc \notin {"run", "reboot"}
  PROVE  BootPoint(n, w)'
<1>1. CASE pass'.pc \notin {"run", "reboot"}
  <2>1. Behind(n, w)'
    BY DEF BootPoint, SamePoint, Behind
  <2>2. AppliedNow(n, w)'
    BY <1>1 DEF BootPoint, SamePoint, AppliedNow
  <2> QED
    BY <1>1, <2>1, <2>2 DEF BootPoint, ResetsFirst, RunCurrent
<1>2. CASE PassMovesOn(n, w)
  <2>1. Behind(n, w)'
    BY DEF BootPoint, SamePoint, Behind
  <2>2. AppliedNow(n, w)'
    BY <1>2 DEF BootPoint, SamePoint, PassMovesOn, AppliedNow
  <2>3. ResetsFirst(n, w)'
    BY <1>2 DEF BootPoint, SamePoint, PassMovesOn, ResetsFirst
  <2>4. EntryMoves(n, w) => EntryMoves(n, w)'
    BY <1>2 DEF SamePoint, PassMovesOn, EntryMoves
  <2>5. RunCurrent(n, w)'
    BY <1>2, <2>4 DEF BootPoint, SamePoint, PassMovesOn, RunCurrent
  <2> QED
    BY <2>1, <2>2, <2>3, <2>5 DEF BootPoint
<1> QED
  BY <1>1, <1>2

\* The same for all points, at the end of a pass ...
LEMMA BootIdle ==
  ASSUME BootInv, pass'.pc \notin {"run", "reboot"}, \A n \in Nodes, w \in Wrights : SamePoint(n, w)
  PROVE  BootInv'
  BY BootPointKept DEF BootInv

\* ... and within one.
LEMMA BootFrame ==
  ASSUME BootInv, RunShape, pass' = pass, \A n \in Nodes, w \in Wrights : SamePoint(n, w),
         \A w \in Wrights : /\ wright'[w].mode = wright[w].mode
                            /\ wright'[w].deleting = wright[w].deleting
                            /\ wright'[w].gone = wright[w].gone
  PROVE  BootInv'
<1> SUFFICES ASSUME NEW n \in Nodes, NEW w \in Wrights PROVE BootPoint(n, w)'
  BY DEF BootInv
<1>1. BootPoint(n, w)
  BY DEF BootInv
<1>2. PassMovesOn(n, w) \/ pass'.pc \notin {"run", "reboot"}
  <2>1. pass.pc \in {"run", "reboot"} /\ <<w, n>> \in pass.todo => w \in pass.save
    BY <1>1 DEF RunShape, BootPoint, ResetsFirst
  <2> QED
    BY <2>1 DEF PassMovesOn
<1> QED
  BY <1>1, <1>2, BootPointKept

\* A reboot resets nothing yet, and makes the recorded boots old.
LEMMA BootReboot ==
  ASSUME TypeOK, CordonInv, BootInv, NEW n \in Nodes, Reboot(n)
  PROVE  BootInv'
<1> SUFFICES ASSUME NEW m \in Nodes, NEW w \in Wrights PROVE BootPoint(m, w)'
  BY DEF BootInv
<1>1. BootPoint(m, w)
  BY DEF BootInv
<1>2. /\ wright' = wright /\ job' = job /\ applied' = applied /\ pass' = pass /\ used'.kept = used.kept
      /\ node'[m].of = node[m].of
      /\ node'[m].boot = node[m].boot \/ node'[m].boot = node[m].boot + 1
  BY RebootEffect
<1>3. CASE node'[m].boot = node[m].boot
  <2>1. SamePoint(m, w)
    BY <1>2, <1>3 DEF SamePoint
  <2>2. PassMovesOn(m, w) \/ pass'.pc \notin {"run", "reboot"}
    <3>1. pass.pc \in {"run", "reboot"} /\ <<w, m>> \in pass.todo => w \in pass.save
      BY <1>1 DEF CordonInv, RunShape, BootPoint, ResetsFirst
    <3> QED
      BY <1>2, <3>1 DEF PassMovesOn
  <2> QED
    BY <1>1, <2>1, <2>2, BootPointKept
<1>4. CASE node'[m].boot = node[m].boot + 1
  <2>1. node[m].boot \in Nat /\ wright[w].boots[m] \in Nat /\ pass.snap[m].boot \in Nat
    BY BootTypes
  <2>2. Behind(m, w)'
    BY <1>1, <1>2, <1>4, <2>1 DEF BootPoint, Behind
  <2>3. ResetsFirst(m, w)'
    BY <1>1, <1>2, <1>4, <2>1 DEF BootPoint, ResetsFirst
  <2>4. EntryMoves(m, w) => EntryMoves(m, w)'
    BY <1>2 DEF EntryMoves
  <2>5. RunCurrent(m, w)'
    BY <1>1, <1>2, <1>4, <2>1, <2>4 DEF BootPoint, RunCurrent
  <2>6. wright'[w].boots[m] # node'[m].boot
    BY <1>1, <1>2, <1>4, <2>1 DEF BootPoint, Behind
  <2>7. pass.pc = "run" => pass'.snap[m].boot # node'[m].boot
    BY <1>1, <1>2, <1>4, <2>1 DEF BootPoint, RunCurrent
  <2>8. AppliedNow(m, w)'
    BY <1>2, <2>6, <2>7 DEF AppliedNow
  <2> QED
    BY <2>2, <2>3, <2>5, <2>8 DEF BootPoint
<1> QED
  BY <1>2, <1>3, <1>4

\* A reset is written before the boot id is noted.
LEMMA BootTrackReboot ==
  ASSUME TypeOK, CordonInv, BootInv, NEW w \in Wrights, NEW n \in Nodes, TrackReboot(w, n)
  PROVE  BootInv'
<1> SUFFICES ASSUME NEW m \in Nodes, NEW v \in Wrights PROVE BootPoint(m, v)'
  BY DEF BootInv
<1>1. BootPoint(m, v) /\ BootPoint(n, w)
  BY DEF BootInv
<1>2. /\ wright' = wright /\ applied' = applied /\ used.kept \subseteq used'.kept
      /\ pass.pc = "reboot" /\ pass'.pc = "reboot" /\ pass'.snap = pass.snap /\ pass'.save = pass.save
      /\ pass'.todo = pass.todo \ {<<w, n>>} /\ <<w, n>> \in pass.todo
      /\ \A k \in Nodes : node'[k].boot = node[k].boot
      /\ RebootKeeps(w, n) /\ RebootOutcome(w, n)
  BY TrackRebootEffect
<1>3. CASE m # n \/ v # w
  <2>1. /\ node'[m].of[v] = node[m].of[v] /\ job'[m][v] = job[m][v]
        /\ pass'.boots[v][m] = pass.boots[v][m]
    BY <1>2, <1>3 DEF RebootKeeps
  <2>2. /\ <<v, m>> \in pass'.todo => <<v, m>> \in pass.todo /\ v \in pass'.save
    BY <1>1, <1>2 DEF BootPoint, ResetsFirst
  <2>3. Behind(m, v)'
    BY <1>1, <1>2, <2>1 DEF BootPoint, Behind
  <2>4. ResetsFirst(m, v)'
    BY <1>1, <1>2, <2>1, <2>2 DEF BootPoint, ResetsFirst
  <2>5. AppliedNow(m, v)'
    BY <1>1, <1>2, <2>1 DEF BootPoint, AppliedNow
  <2> QED
    BY <1>2, <2>3, <2>4, <2>5 DEF BootPoint, RunCurrent
<1>4. CASE m = n /\ v = w
  <2>1. NoMarks.entry = "none" /\ NoJob.phase = "none"
    BY DEF NoMarks, NoJob
  <2>2. /\ w \in pass.save /\ pass.boots[w][n] = wright[w].boots[n]
        /\ pass.snap[n].boot >= 1 /\ pass.snap[n].boot <= node[n].boot
        /\ wright[w].boots[n] <= pass.snap[n].boot
    BY <1>1, <1>2 DEF BootPoint, ResetsFirst
  <2>3. wright[w].boots[n] = 0 => node[n].of[w].entry = "none" /\ job[n][w].phase = "none"
    BY <1>1 DEF BootPoint, Behind
  <2>4. /\ node'[n].of[w].entry = node[n].of[w].entry \/ node'[n].of[w].entry = "none"
        /\ job'[n][w] = job[n][w] \/ job'[n][w].phase = "none"
    BY <1>2, <2>1 DEF RebootOutcome
  <2>5. \/ pass'.boots[w][n] = wright[w].boots[n]
        \/ /\ pass'.boots[w][n] = pass.snap[n].boot
           /\ ReapplyOnReboot => /\ node'[n].of[w].entry = "none"
                                 /\ job'[n][w].phase = "none" \/ <<n, w>> \in used'.kept
    <3>1. CASE pass.boots[w][n] = 0 /\ node' = node /\ job' = job /\ pass'.boots[w][n] = pass.snap[n].boot
      BY <2>2, <2>3, <3>1
    <3>2. CASE ~ReapplyOnReboot /\ pass'.boots[w][n] = pass.snap[n].boot
      BY <3>2
    <3>3. CASE /\ node'[n].of[w] = NoMarks /\ pass'.boots[w][n] = pass.snap[n].boot
               /\ job'[n][w] = NoJob \/ <<n, w>> \in used'.kept
      BY <2>1, <3>3
    <3>4. CASE pass'.boots[w][n] = pass.boots[w][n]
      BY <2>2, <3>4
    <3> QED
      BY <1>2, <3>1, <3>2, <3>3, <3>4 DEF RebootOutcome
  <2>6. Behind(n, w)'
    BY <1>1, <1>2, <2>4 DEF BootPoint, Behind
  <2>7. ResetsFirst(n, w)'
    <3>1. <<w, n>> \notin pass'.todo
      BY <1>2
    <3> QED
      BY <1>2, <2>2, <2>5, <3>1 DEF ResetsFirst
  <2>8. AppliedNow(n, w)'
    BY <1>1, <1>2, <2>4 DEF BootPoint, AppliedNow
  <2> QED
    BY <1>2, <1>4, <2>6, <2>7, <2>8 DEF BootPoint, RunCurrent
<1> QED
  BY <1>3, <1>4

\* The boot id that is recorded is of a node that was reset.
LEMMA BootUpdateIds ==
  ASSUME TypeOK, CordonInv, BootInv, NEW w \in Wrights, UpdateBootIds(w)
  PROVE  BootInv'
<1> SUFFICES ASSUME NEW m \in Nodes, NEW v \in Wrights PROVE BootPoint(m, v)'
  BY DEF BootInv
<1>1. BootPoint(m, v) /\ BootPoint(m, w)
  BY DEF BootInv
<1>2. /\ node' = node /\ job' = job /\ applied' = applied /\ used'.kept = used.kept
      /\ pass.pc = "reboot" /\ w \in pass.save
      /\ \A u \in Wrights, n \in Nodes : <<u, n>> \in pass.todo => Order[w] < Order[u]
      /\ v # w => wright'[v] = wright[v]
      /\ wright'[w].boots = pass.boots[w] \/ wright'[w].boots = wright[w].boots
      /\ \/ pass'.pc = "idle"
         \/ /\ pass'.pc = "reboot" /\ pass'.snap = pass.snap /\ pass'.todo = pass.todo
            /\ pass'.save = pass.save \ {w} /\ pass'.boots = pass.boots
  BY UpdateBootIdsEffect
<1>3. <<w, m>> \notin pass.todo
  BY <1>2, OrderFacts
<1>4. CASE v # w
  <2>1. Behind(m, v)'
    BY <1>1, <1>2, <1>4 DEF BootPoint, Behind
  <2>2. ResetsFirst(m, v)'
    BY <1>1, <1>2, <1>4 DEF BootPoint, ResetsFirst
  <2>3. AppliedNow(m, v)'
    BY <1>1, <1>2, <1>4 DEF BootPoint, AppliedNow
  <2> QED
    BY <1>2, <2>1, <2>2, <2>3 DEF BootPoint, RunCurrent
<1>5. CASE v = w
  <2>1. \/ wright'[w].boots[m] = wright[w].boots[m]
        \/ /\ wright'[w].boots[m] = pass.snap[m].boot
           /\ pass.snap[m].boot >= 1 /\ pass.snap[m].boot <= node[m].boot
           /\ ReapplyOnReboot => node[m].of[w].entry = "none"
    BY <1>1, <1>2 DEF BootPoint, ResetsFirst
  <2>2. node[m].boot \in Nat /\ pass.snap[m].boot \in Nat
    BY BootTypes
  <2>3. Behind(m, w)'
    BY <1>1, <1>2, <2>1, <2>2 DEF BootPoint, Behind
  <2>4. ResetsFirst(m, w)'
    BY <1>1, <1>2, <1>3 DEF BootPoint, ResetsFirst
  <2>5. AppliedNow(m, w)'
    BY <1>1, <1>2, <2>1 DEF BootPoint, AppliedNow
  <2> QED
    BY <1>2, <1>5, <2>3, <2>4, <2>5 DEF BootPoint, RunCurrent
<1> QED
  BY <1>4, <1>5

\* A run pass starts from a boot that every NodeWright has recorded.
LEMMA BootProcess ==
  ASSUME TypeOK, CordonInv, BootInv, ProcessSkyhooksPerNode
  PROVE  BootInv'
<1> SUFFICES ASSUME NEW n \in Nodes, NEW w \in Wrights PROVE BootPoint(n, w)'
  BY DEF BootInv
<1>1. BootPoint(n, w)
  BY DEF BootInv
<1>2. /\ wright' = wright /\ node' = node /\ job' = job /\ applied' = applied /\ used' = used
      /\ \A v \in Present, m \in Nodes : wright[v].boots[m] = node[m].boot
      /\ pass'.pc = "run" /\ pass'.snap = node /\ pass'.mem = Requested
      /\ <<w, n>> \in pass'.todo => w \in pass'.save /\ ToRun(n, w, Requested)
      /\ \A v \in pass'.save : v \in Present
  BY ProcessSkyhooksEffect
<1>3. \/ Requested[n].of[w].entry = node[n].of[w].entry
      \/ /\ Requested[n].of[w].entry = "uninstall" /\ node[n].of[w].entry = "complete"
         /\ wright[w].deleting = TRUE /\ w \in UninstallEnabled
  BY RequestedFacts
<1>4. node[n].boot \in Nat
  BY BootTypes
<1>5. Behind(n, w)'
  BY <1>1, <1>2 DEF BootPoint, Behind
<1>6. <<w, n>> \in pass'.todo =>
        /\ wright[w].mode = "run" /\ Requested[n].of[w].entry # "complete"
        /\ (wright[w].deleting /\ w \in UninstallEnabled => Requested[n].of[w].entry # "none")
  BY <1>2 DEF ToRun, Completed
<1>7. EntryMoves(n, w)'
  BY <1>2, <1>3, <1>6 DEF EntryMoves
<1>8. RunCurrent(n, w)'
  BY <1>1, <1>2, <1>4, <1>7 DEF BootPoint, Behind, RunCurrent, Present
<1>9. AppliedNow(n, w)'
  BY <1>1, <1>2, <1>3 DEF BootPoint, AppliedNow
<1> QED
  BY <1>2, <1>5, <1>8, <1>9 DEF BootPoint, ResetsFirst

\* A visit moves the entry of one copy, and with it goes a new Job.
LEMMA BootRunPackages ==
  ASSUME TypeOK, CordonInv, BootInv, NEW w \in Wrights, NEW n \in Nodes, RunPackages(w, n)
  PROVE  BootInv'
<1> SUFFICES ASSUME NEW m \in Nodes, NEW v \in Wrights PROVE BootPoint(m, v)'
  BY DEF BootInv
<1>1. BootPoint(m, v)
  BY DEF BootInv
<1>2. /\ wright' = wright /\ node' = node /\ applied' = applied /\ used' = used
      /\ pass.pc = "run" /\ <<w, n>> \in pass.todo /\ pass'.pc = "run" /\ pass'.snap = pass.snap
  BY RunPackagesEffect
<1>3. ASSUME NEW u \in Wrights, NEW k \in Nodes
      PROVE  <<u, k>> \in pass.todo => u \in pass.save
  BY <1>2 DEF CordonInv, RunShape
<1>4. ASSUME job'[m][v] = job[m][v], pass'.mem[m].of[v].entry = pass.mem[m].of[v].entry,
             <<v, m>> \in pass'.todo => <<v, m>> \in pass.todo /\ v \in pass'.save,
             v \in pass'.save => v \in pass.save
      PROVE  BootPoint(m, v)'
  <2>1. Behind(m, v)'
    BY <1>1, <1>2, <1>4 DEF BootPoint, Behind
  <2>2. EntryMoves(m, v) => EntryMoves(m, v)'
    BY <1>2, <1>4 DEF EntryMoves
  <2>3. RunCurrent(m, v)'
    BY <1>1, <1>2, <1>4, <2>2 DEF BootPoint, RunCurrent
  <2>4. AppliedNow(m, v)'
    BY <1>1, <1>2, <1>4 DEF BootPoint, AppliedNow
  <2> QED
    BY <1>2, <2>1, <2>3, <2>4 DEF BootPoint, ResetsFirst
<1>5. CASE /\ job' = job /\ pass'.save = pass.save \ {w} /\ pass'.mem = NextCopies
           /\ \A u \in Wrights, k \in Nodes : <<u, k>> \in pass'.todo <=> <<u, k>> \in pass.todo /\ u # w
  <2>1. pass'.mem[m].of[v].entry = pass.mem[m].of[v].entry
    BY <1>5, NextCopiesFacts
  <2>2. <<v, m>> \in pass'.todo => <<v, m>> \in pass.todo /\ v \in pass'.save
    BY <1>3, <1>5
  <2> QED
    BY <1>4, <1>5, <2>1, <2>2
<1>6. CASE /\ pass'.save = pass.save /\ pass'.todo = pass.todo \ {<<w, n>>}
           /\ VisitOutcome(w, n, pass.mem[n], pass'.mem[n])
           /\ \A k \in Nodes \ {n} : pass'.mem[k] = pass.mem[k]
  <2>1. <<v, m>> \in pass'.todo => <<v, m>> \in pass.todo /\ v \in pass'.save
    BY <1>3, <1>6
  <2>2. CASE m # n \/ v # w
    <3>1. pass'.mem[m].of[v].entry = pass.mem[m].of[v].entry
      BY <1>6, <2>2 DEF VisitOutcome, Marked
    <3>2. job \in [Nodes -> [Wrights -> JobRecords]] /\ NoJob \in JobRecords
          /\ \A kind \in {"apply", "uninstall"} :
               [phase |-> "active", kind |-> kind, boot |-> 0] \in JobRecords
      BY RecordsInhabited DEF TypeOK, JobRecords
    <3>3. \A j \in JobRecords : SetJob(n, w, j)[m][v] = job[m][v]
      BY <2>2, <3>2, SetJobFacts
    <3>4. job'[m][v] = job[m][v]
      BY <1>6, <3>2, <3>3 DEF VisitOutcome
    <3> QED
      BY <1>4, <1>6, <2>1, <3>1, <3>4
  <2>3. CASE m = n /\ v = w
    <3> DEFINE old == pass.mem[n].of[w].entry
               new == pass'.mem[n].of[w].entry
    <3>1. \/ job' = job /\ new = old
          \/ /\ job'[n][w].phase = "active"
             /\ new = old \/ (new = "in_progress" /\ old # "uninstall")
          \/ job'[n][w].phase = "none" /\ new = old
      <4>1. job \in [Nodes -> [Wrights -> JobRecords]] /\ NoJob \in JobRecords /\ NoJob.phase = "none"
            /\ \A kind \in {"apply", "uninstall"} :
                 [phase |-> "active", kind |-> kind, boot |-> 0] \in JobRecords
        BY RecordsInhabited DEF TypeOK, JobRecords, NoJob
      <4>2. \A j \in JobRecords : SetJob(n, w, j)[n][w] = j
        BY <4>1, SetJobFacts
      <4> HIDE DEF old, new
      <4>3. \/ job' = job /\ new = old
            \/ \E kind \in {"apply", "uninstall"} :
                 /\ job' = SetJob(n, w, [phase |-> "active", kind |-> kind, boot |-> 0])
                 /\ kind = "uninstall" <=> old = "uninstall"
                 /\ kind = "uninstall" => new = old
                 /\ kind = "apply" => new = "in_progress"
            \/ job' = SetJob(n, w, NoJob) /\ new = old
        BY <1>6 DEF VisitOutcome, old, new
      <4> QED
        BY <4>1, <4>2, <4>3
    <3>2. w \in pass.save /\ <<w, n>> \notin pass'.todo
      BY <1>2, <1>3, <1>6
    <3>3. RunCurrent(n, w)
      BY <1>1, <2>3 DEF BootPoint
    <3>4. /\ pass.snap[n].boot >= 1 /\ ~wright[w].gone /\ wright[w].boots[n] = pass.snap[n].boot
          /\ EntryMoves(n, w)
      BY <1>2, <3>2, <3>3 DEF RunCurrent
    <3>5. wright[w].boots[n] # 0
      BY <3>4, BootTypes
    <3>6. Behind(n, w)'
      BY <1>1, <1>2, <2>3, <3>5 DEF BootPoint, Behind
    <3>7. CASE new = old /\ job' = job
      BY <1>4, <1>6, <2>1, <2>3, <3>7
    <3>8. CASE job'[n][w].phase \in {"none", "active"}
      <4>1. AppliedNow(n, w)'
        BY <1>1, <1>2, <2>3, <3>8 DEF BootPoint, AppliedNow
      <4>2. EntryMoves(n, w)'
        <5>1. new = old \/ (new = "in_progress" /\ old # "uninstall")
          BY <3>1
        <5>2. old \in {"none", "in_progress", "complete", "uninstall"}
          <6>1. pass.mem[n] \in NodeRecords
            BY PassFields DEF TypeOK
          <6> QED
            BY <6>1 DEF NodeRecords, Marks
        <5> QED
          BY <1>2, <3>2, <3>4, <5>1, <5>2 DEF EntryMoves
      <4>3. RunCurrent(n, w)'
        BY <1>2, <3>3, <3>4, <4>2 DEF RunCurrent
      <4> QED
        BY <1>2, <2>3, <3>6, <4>1, <4>3 DEF BootPoint, ResetsFirst
    <3> QED
      BY <3>1, <3>7, <3>8
  <2> QED
    BY <2>2, <2>3
<1> QED
  BY <1>5, <1>6, RunPackagesEffect

\* A save writes an entry that its copy moved.
LEMMA BootSave ==
  ASSUME TypeOK, CordonInv, BootInv, NEW w \in Wrights, SaveWright(w)
  PROVE  BootInv'
<1> SUFFICES ASSUME NEW m \in Nodes, NEW v \in Wrights PROVE BootPoint(m, v)'
  BY DEF BootInv
<1>1. BootPoint(m, v)
  BY DEF BootInv
<1>2. /\ wright' = wright /\ job' = job /\ applied' = applied /\ used' = used
      /\ pass.pc = "run" /\ w \in pass.save
      /\ pass'.pc = "run" /\ pass'.snap = pass.snap /\ pass'.todo = pass.todo
      /\ pass'.save = pass.save \ {w} /\ pass'.mem = NextCopies
      /\ \A u \in Wrights, n \in Nodes : <<u, n>> \in pass.todo => Order[w] < Order[u]
  BY SaveWrightEffect
<1>3. /\ node'[m].boot = node[m].boot
      /\ v # w => node'[m].of[v] = node[m].of[v]
      /\ node'[m].of[w].entry = Merged(node[m].of[w].entry, pass.snap[m].of[w].entry, pass.mem[m].of[w].entry)
  BY SaveWrightEffect DEF Marked
<1>4. pass'.mem[m].of[v].entry = pass.mem[m].of[v].entry
  BY <1>2, NextCopiesFacts
<1>5. <<w, m>> \notin pass.todo
  BY <1>2, OrderFacts
<1>6. CASE v # w
  <2>1. Behind(m, v)'
    BY <1>1, <1>2, <1>3, <1>6 DEF BootPoint, Behind
  <2>2. EntryMoves(m, v) => EntryMoves(m, v)'
    BY <1>2, <1>3, <1>4, <1>6 DEF EntryMoves
  <2>3. RunCurrent(m, v)'
    BY <1>1, <1>2, <1>3, <2>2 DEF BootPoint, RunCurrent
  <2>4. AppliedNow(m, v)'
    BY <1>1, <1>2, <1>3, <1>4, <1>6 DEF BootPoint, AppliedNow
  <2> QED
    BY <1>2, <2>1, <2>3, <2>4 DEF BootPoint, ResetsFirst
<1>7. CASE v = w
  <2>1. RunCurrent(m, w) /\ AppliedNow(m, w) /\ Behind(m, w)
    BY <1>1, <1>7 DEF BootPoint
  <2>2. /\ pass.snap[m].boot >= 1 /\ wright[w].boots[m] = pass.snap[m].boot /\ EntryMoves(m, w)
    BY <1>2, <2>1 DEF RunCurrent
  <2>3. wright[w].boots[m] # 0
    BY <2>2, BootTypes
  <2>4. Behind(m, w)'
    BY <1>2, <1>3, <2>1, <2>3 DEF Behind
  <2>5. RunCurrent(m, w)'
    BY <1>2, <1>3, <2>1 DEF RunCurrent
  <2>6. \/ node'[m].of[w].entry = node[m].of[w].entry
        \/ node'[m].of[w].entry = "uninstall"
        \/ /\ node'[m].of[w].entry = "in_progress" /\ pass.mem[m].of[w].entry = "in_progress"
           /\ pass.snap[m].of[w].entry # "in_progress"
    BY <1>3, <2>2 DEF EntryMoves, Merged
  <2>7. AppliedNow(m, w)'
    BY <1>2, <1>3, <2>1, <2>2, <2>6 DEF AppliedNow
  <2> QED
    BY <1>2, <1>7, <2>4, <2>5, <2>7 DEF BootPoint, ResetsFirst
<1> QED
  BY <1>6, <1>7

\* A Job finishes in the node's boot.
LEMMA BootJobFinishes ==
  ASSUME TypeOK, CordonInv, BootInv, NEW w \in Wrights, NEW n \in Nodes, JobFinishes(w, n)
  PROVE  BootInv'
<1> SUFFICES ASSUME NEW m \in Nodes, NEW v \in Wrights PROVE BootPoint(m, v)'
  BY DEF BootInv
<1>1. BootPoint(m, v)
  BY DEF BootInv
<1>2. /\ wright' = wright /\ node' = node /\ applied' = applied /\ used' = used /\ pass' = pass
      /\ job[n][w].phase = "active" /\ job'[n][w].phase = "finished" /\ job'[n][w].boot = node[n].boot
      /\ m # n \/ v # w => job'[m][v] = job[m][v]
  BY JobFinishesEffect
<1>3. Behind(m, v)'
  BY <1>1, <1>2 DEF BootPoint, Behind
<1>4. ResetsFirst(m, v)'
  BY <1>1, <1>2 DEF BootPoint, ResetsFirst
<1>5. EntryMoves(m, v) => EntryMoves(m, v)'
  BY <1>2 DEF EntryMoves
<1>6. RunCurrent(m, v)'
  BY <1>1, <1>2, <1>5 DEF BootPoint, RunCurrent
<1>7. AppliedNow(m, v)'
  BY <1>1, <1>2 DEF BootPoint, AppliedNow
<1> QED
  BY <1>3, <1>4, <1>6, <1>7 DEF BootPoint

\* Only an entry that is open takes what a finished Job did.
LEMMA BootJobRecorded ==
  ASSUME TypeOK, CordonInv, BootInv, NEW w \in Wrights, NEW n \in Nodes, JobRecorded(w, n)
  PROVE  BootInv'
<1> SUFFICES ASSUME NEW m \in Nodes, NEW v \in Wrights PROVE BootPoint(m, v)'
  BY DEF BootInv
<1>1. BootPoint(m, v)
  BY DEF BootInv
<1>2. /\ wright' = wright /\ used' = used /\ pass' = pass
      /\ job[n][w].phase = "finished" /\ job'[n][w].phase = "recorded"
      /\ m # n \/ v # w => job'[m][v] = job[m][v] /\ applied'[m][v] = applied[m][v]
      /\ \/ node'[n].of[w].entry = node[n].of[w].entry /\ applied' = applied
         \/ /\ job[n][w].kind = "apply" /\ node[n].of[w].entry = "in_progress"
            /\ node'[n].of[w].entry = "complete" /\ applied'[n][w] = job[n][w].boot
         \/ /\ node[n].of[w].entry = "uninstall" /\ node'[n].of[w].entry = "none"
            /\ applied' = applied
  BY JobRecordedEffect
<1>3. node'[m].boot = node[m].boot /\ (m # n \/ v # w => node'[m].of[v] = node[m].of[v])
  BY JobRecordedEffect DEF Marked
<1>4. CASE m # n \/ v # w
  <2>1. SamePoint(m, v)
    BY <1>2, <1>3, <1>4 DEF SamePoint
  <2>2. PassMovesOn(m, v) \/ pass'.pc \notin {"run", "reboot"}
    <3>1. pass.pc \in {"run", "reboot"} /\ <<v, m>> \in pass.todo => v \in pass.save
      BY <1>1 DEF CordonInv, RunShape, BootPoint, ResetsFirst
    <3> QED
      BY <1>2, <3>1 DEF PassMovesOn
  <2> QED
    BY <1>1, <2>1, <2>2, BootPointKept
<1>5. CASE m = n /\ v = w
  <2>1. Behind(n, w)'
    BY <1>1, <1>2, <1>3, <1>5 DEF BootPoint, Behind
  <2>2. ResetsFirst(n, w)'
    BY <1>1, <1>2, <1>3, <1>5 DEF BootPoint, ResetsFirst
  <2>3. EntryMoves(n, w) => EntryMoves(n, w)'
    BY <1>2 DEF EntryMoves
  <2>4. RunCurrent(n, w)'
    BY <1>1, <1>2, <1>3, <1>5, <2>3 DEF BootPoint, RunCurrent
  <2>5. AppliedNow(n, w)'
    BY <1>1, <1>2, <1>3, <1>5 DEF BootPoint, AppliedNow
  <2> QED
    BY <1>5, <2>1, <2>2, <2>4, <2>5 DEF BootPoint
<1> QED
  BY <1>4, <1>5

\* Every step keeps the invariant.
LEMMA BootStep == TypeOK /\ CordonInv /\ BootInv /\ [Next]_vars => BootInv'
<1> SUFFICES ASSUME TypeOK, CordonInv, BootInv, [Next]_vars PROVE BootInv'
  OBVIOUS
<1>0. RunShape
  BY DEF CordonInv
<1>1. CASE HandleAutoTaint
  BY <1>0, <1>1, HandleAutoTaintEffect, BootFrame DEF SamePoint
<1>2. CASE TrackReboots
  <2> SUFFICES ASSUME NEW n \in Nodes, NEW w \in Wrights PROVE BootPoint(n, w)'
    BY DEF BootInv
  <2>1. BootPoint(n, w)
    BY DEF BootInv
  <2>2. /\ wright' = wright /\ node' = node /\ job' = job /\ applied' = applied /\ used' = used
        /\ pass'.pc = "reboot" /\ pass'.snap = node /\ pass'.boots[w][n] = wright[w].boots[n]
        /\ <<w, n>> \in pass'.todo => w \in pass'.save /\ wright[w].boots[n] # node[n].boot
    BY <1>2, TrackRebootsEffect
  <2>3. node[n].boot \in Nat
    BY BootTypes
  <2>4. Behind(n, w)' /\ ResetsFirst(n, w)'
    BY <2>1, <2>2, <2>3 DEF BootPoint, Behind, ResetsFirst
  <2>5. AppliedNow(n, w)'
    BY <2>1, <2>2 DEF BootPoint, AppliedNow
  <2> QED
    BY <2>2, <2>4, <2>5 DEF BootPoint, RunCurrent
<1>3. ASSUME NEW w \in Wrights, AddFinalizer(w)
      PROVE  BootInv'
  <2>1. \A v \in Wrights : /\ wright'[v].boots = wright[v].boots /\ wright'[v].mode = wright[v].mode
                           /\ wright'[v].deleting = wright[v].deleting /\ wright'[v].gone = wright[v].gone
    BY <1>3, AddFinalizerEffect
  <2> QED
    BY <1>0, <1>3, <2>1, AddFinalizerEffect, BootFrame DEF SamePoint
<1>4. ASSUME NEW w \in Wrights, HandleFinalizer(w)
      PROVE  BootInv'
  BY <1>4, HandleFinalizerEffect, BootIdle DEF SamePoint
<1>5. ASSUME NEW w \in Wrights, NEW n \in Nodes, CleanupNode(w, n)
      PROVE  BootInv'
  <2>1. /\ wright' = wright /\ job' = job /\ applied' = applied /\ used'.kept = used.kept /\ pass'.pc = "cleanup"
    BY <1>5, CleanupNodeEffect
  <2>2. \A m \in Nodes, v \in Wrights :
          node'[m].boot = node[m].boot /\ node'[m].of[v].entry = node[m].of[v].entry
    <3>1. \/ node' = node
          \/ /\ \A m \in Nodes \ {n} : node'[m] = node[m]
             /\ Marked(node'[n], node[n], w) /\ node'[n].of[w].entry = node[n].of[w].entry
      BY <1>5, CleanupNodeEffect
    <3> QED
      BY <3>1 DEF Marked
  <2> QED
    BY <2>1, <2>2, BootIdle DEF SamePoint
<1>6. ASSUME NEW w \in Wrights, RemoveFinalizer(w)
      PROVE  BootInv'
  <2> SUFFICES ASSUME NEW m \in Nodes, NEW v \in Wrights PROVE BootPoint(m, v)'
    BY DEF BootInv
  <2>1. BootPoint(m, v)
    BY DEF BootInv
  <2>2. node' = node /\ applied' = applied /\ used' = used /\ pass'.pc = "idle"
    BY <1>6, RemoveFinalizerEffect
  <2>3. wright'[v].boots = wright[v].boots /\ (job'[m][v] = job[m][v] \/ job'[m][v] = NoJob)
    BY <1>6, RemoveFinalizerEffect
  <2>4. NoJob.phase = "none"
    BY DEF NoJob
  <2>5. Behind(m, v)'
    BY <2>1, <2>2, <2>3, <2>4 DEF BootPoint, Behind
  <2>6. AppliedNow(m, v)'
    BY <2>1, <2>2, <2>3, <2>4 DEF BootPoint, AppliedNow
  <2> QED
    BY <2>2, <2>5, <2>6 DEF BootPoint, ResetsFirst, RunCurrent
<1>7. ASSUME NEW w \in Wrights, IntrospectSkyhook(w)
      PROVE  BootInv'
  <2>1. /\ wright' = wright /\ job' = job /\ applied' = applied /\ used' = used /\ pass' = pass
    BY <1>7, IntrospectSkyhookEffect
  <2>2. \A m \in Nodes, v \in Wrights :
          node'[m].boot = node[m].boot /\ node'[m].of[v].entry = node[m].of[v].entry
    BY <1>7, IntrospectSkyhookEffect, ZenonT(40) DEF Marked
  <2> QED
    BY <1>0, <2>1, <2>2, BootFrame DEF SamePoint
<1>8. CASE RunEnds
  BY <1>8, RunEndsEffect, BootIdle DEF SamePoint
<1>9. CASE HandleRuntimeRequired
  BY <1>9, HandleRuntimeRequiredEffect, BootIdle DEF SamePoint
<1>10. CASE Crash
  BY <1>10, CrashEffect, BootIdle DEF SamePoint
<1>11. ASSUME NEW n \in Nodes, PlaceWorkload(n) \/ WorkloadLeaves(n)
       PROVE  BootInv'
  BY <1>0, <1>11, WorkloadEffect, BootFrame DEF SamePoint
<1>12. ASSUME NEW n \in Nodes, UserUncordons(n)
       PROVE  BootInv'
  BY <1>0, <1>12, UserUncordonsEffect, BootFrame DEF SamePoint
<1>13. ASSUME NEW w \in Wrights, EditMode(w) \/ Delete(w)
       PROVE  BootInv'
  <2>1. /\ node' = node /\ job' = job /\ applied' = applied /\ used'.kept = used.kept
        /\ pass' = pass /\ pass.pc = "idle"
    BY <1>13, EditModeEffect, DeleteEffect
  <2>2. \A v \in Wrights : wright'[v].boots = wright[v].boots
    BY <1>13, EditModeEffect, DeleteEffect
  <2> QED
    BY <2>1, <2>2, BootIdle DEF SamePoint
<1>14. ASSUME NEW w \in Wrights, NEW n \in Nodes, DrainTimeoutPasses(w, n)
       PROVE  BootInv'
  <2>1. /\ wright' = wright /\ job' = job /\ applied' = applied /\ used' = used /\ pass' = pass
    BY <1>14, DrainTimeoutEffect
  <2>2. \A m \in Nodes, v \in Wrights :
          node'[m].boot = node[m].boot /\ node'[m].of[v].entry = node[m].of[v].entry
    BY <1>14, DrainTimeoutEffect DEF Marked
  <2> QED
    BY <1>0, <2>1, <2>2, BootFrame DEF SamePoint
<1>15. CASE UNCHANGED vars
  BY <1>0, <1>15, BootFrame DEF vars, SamePoint
<1> QED
  BY <1>1, <1>2, <1>3, <1>4, <1>5, <1>6, <1>7, <1>8, <1>9, <1>10, <1>11, <1>12, <1>13, <1>14, <1>15,
     BootReboot, BootTrackReboot, BootUpdateIds, BootProcess, BootRunPackages, BootSave,
     BootJobFinishes, BootJobRecorded DEF Next, Reconcile, Environment

\* At the start no boot is recorded and nothing is applied.
LEMMA BootInit == Init => BootInv
<1> SUFFICES ASSUME Init, NEW n \in Nodes, NEW w \in Wrights PROVE BootPoint(n, w)
  BY DEF BootInv
<1>1. /\ pass.pc = "idle" /\ node[n].boot = 1 /\ node[n].of[w].entry = "none"
      /\ job[n][w].phase = "none" /\ wright[w].boots[n] = 0
  BY DEF Init, IdlePass, NewNode, NoMarks, NewWright, NoJob
<1> QED
  BY <1>1 DEF BootPoint, Behind, ResetsFirst, RunCurrent, AppliedNow

\* With reapplyOnReboot, a package that a NodeWright holds complete on a node whose boot
\* it has recorded was applied in that boot, over any number of reboots, crashes and
\* failed writes: TrackReboots resets before it records, and a Job from before the reboot
\* finds no open entry.
THEOREM AppliedAfterReboot == Spec => []CompleteInThisBoot
<1>1. Spec => [](CordonInv /\ BootInv)
  BY TypeInvariant, CordonInit, CordonStep, BootInit, BootStep, PTL DEF Spec
<1>2. BootInv => CompleteInThisBoot
  BY DEF BootInv, BootPoint, AppliedNow, CompleteInThisBoot, Completed, Present
<1> QED
  BY <1>1, <1>2, PTL

-----------------------------------------------------------------------------
(***************************************************************************)
(* The runtime-required taint.  It is removed on what the snapshot says,   *)
(* so the invariant also says what of the snapshot is still true.          *)
(***************************************************************************)
Gated(n, w) ==
  w \in RuntimeRequired /\ ~wright[w].gone /\ node[n].autoTaint /\ ~node[n].taint =>
    wright[w].deleting \/ node[n].of[w].entry = "complete" \/ (w \notin AutoTaint /\ node[n].boot > 1)

\* What was complete when the pass began is complete, unless its NodeWright is deleted.
SnapshotTrue(n, w) ==
  pass.pc \in {"run", "taint"} /\ pass.snap[n].of[w].entry = "complete" =>
    node[n].of[w].entry = "complete" \/ wright[w].deleting

\* The inductive invariant of the taint.
GateInv == \A n \in Nodes, w \in Wrights : Gated(n, w) /\ SnapshotTrue(n, w)

\* A step that opens no gate, takes back no completion and keeps the snapshot.
GateSafe(n, w) ==
  /\ node'[n].boot = node[n].boot
  /\ node'[n].autoTaint /\ ~node'[n].taint => node[n].autoTaint /\ ~node[n].taint
  /\ node[n].of[w].entry = "complete" => node'[n].of[w].entry = "complete" \/ wright'[w].deleting
  /\ wright[w].deleting => wright'[w].deleting
  /\ wright[w].gone => wright'[w].gone

\* Safe steps keep it.
LEMMA GateFrame ==
  ASSUME GateInv, \A n \in Nodes, w \in Wrights : GateSafe(n, w),
         \/ pass'.pc \notin {"run", "taint"}
         \/ pass.pc \in {"run", "taint"} /\ pass'.snap = pass.snap
  PROVE  GateInv'
<1> SUFFICES ASSUME NEW n \in Nodes, NEW w \in Wrights PROVE Gated(n, w)' /\ SnapshotTrue(n, w)'
  BY DEF GateInv
<1>1. Gated(n, w) /\ SnapshotTrue(n, w) /\ GateSafe(n, w)
  BY DEF GateInv
<1>2. Gated(n, w)'
  BY <1>1 DEF Gated, GateSafe
<1>3. SnapshotTrue(n, w)'
  BY <1>1 DEF SnapshotTrue, GateSafe
<1> QED
  BY <1>2, <1>3

\* Every step keeps the gate: the resets taint, the removal of the taint sees what is
\* still true, and a save takes back a completion only for a deletion.
LEMMA GateStep == TypeOK /\ CordonInv /\ BootInv /\ GateInv /\ [Next]_vars => GateInv'
<1> SUFFICES ASSUME TypeOK, CordonInv, BootInv, GateInv, [Next]_vars PROVE GateInv'
  OBVIOUS
<1>1. CASE HandleAutoTaint
  <2>1. /\ wright' = wright /\ pass' = pass /\ pass.pc = "idle"
        /\ \A m \in Nodes : /\ node'[m].of = node[m].of /\ node'[m].boot = node[m].boot
                            /\ \/ node'[m].taint = TRUE
                               \/ node'[m].taint = node[m].taint /\ node'[m].autoTaint = node[m].autoTaint
    BY <1>1, HandleAutoTaintEffect
  <2>2. \A n \in Nodes, w \in Wrights : GateSafe(n, w)
    BY <2>1 DEF GateSafe
  <2> QED
    BY <2>1, <2>2, GateFrame
<1>2. CASE TrackReboots
  BY <1>2, TrackRebootsEffect, GateFrame DEF GateSafe
<1>3. ASSUME NEW w \in Wrights, NEW n \in Nodes, TrackReboot(w, n)
      PROVE  GateInv'
  <2> SUFFICES ASSUME NEW m \in Nodes, NEW v \in Wrights PROVE Gated(m, v)' /\ SnapshotTrue(m, v)'
    BY DEF GateInv
  <2>1. Gated(m, v) /\ BootPoint(n, w)
    BY DEF GateInv, BootInv
  <2>2. /\ wright' = wright /\ pass.pc = "reboot" /\ pass'.pc = "reboot" /\ <<w, n>> \in pass.todo
        /\ node'[m].boot = node[m].boot /\ node'[m].autoTaint = node[m].autoTaint
        /\ node[m].taint = TRUE => node'[m].taint = TRUE
        /\ RebootKeeps(w, n) /\ RebootOutcome(w, n)
    BY <1>3, TrackRebootEffect
  <2>3. node[m].taint \in BOOLEAN
    BY DEF TypeOK, NodeRecords
  <2>4. ASSUME node'[m].of[v].entry = node[m].of[v].entry
        PROVE  Gated(m, v)'
    BY <2>1, <2>2, <2>3, <2>4 DEF Gated
  <2>5. CASE m # n \/ v # w
    <3>1. node'[m].of[v] = node[m].of[v]
      BY <2>2, <2>5 DEF RebootKeeps
    <3> QED
      BY <2>2, <2>4, <3>1 DEF SnapshotTrue
  <2>6. CASE m = n /\ v = w
    <3>1. CASE node' = node
      BY <2>2, <2>4, <3>1 DEF SnapshotTrue
    <3>2. CASE /\ pass.boots[w][n] # 0
               /\ w \in AutoTaint => node'[n].taint = TRUE
      <4>1. /\ pass.boots[w][n] = wright[w].boots[n] /\ wright[w].boots[n] # pass.snap[n].boot
            /\ pass.snap[n].boot >= 1 /\ pass.snap[n].boot <= node[n].boot
            /\ wright[w].boots[n] <= node[n].boot
        BY <2>1, <2>2 DEF BootPoint, ResetsFirst, Behind
      <4>2. node[n].boot > 1
        BY <3>2, <4>1, BootTypes
      <4> QED
        BY <2>2, <2>6, <3>2, <4>2 DEF Gated, SnapshotTrue
    <3> QED
      BY <2>2, <3>1, <3>2 DEF RebootOutcome
  <2> QED
    BY <2>5, <2>6
<1>4. ASSUME NEW w \in Wrights, UpdateBootIds(w)
      PROVE  GateInv'
  <2>1. node' = node /\ pass'.pc \in {"idle", "reboot"}
        /\ \A v \in Wrights : wright'[v].deleting = wright[v].deleting /\ wright'[v].gone = wright[v].gone
    BY <1>4, UpdateBootIdsEffect
  <2> QED
    BY <2>1, GateFrame DEF GateSafe
<1>5. ASSUME NEW w \in Wrights, AddFinalizer(w)
      PROVE  GateInv'
  <2>1. node' = node /\ pass'.pc = "idle"
        /\ \A v \in Wrights : wright'[v].deleting = wright[v].deleting /\ wright'[v].gone = wright[v].gone
    BY <1>5, AddFinalizerEffect
  <2> QED
    BY <2>1, GateFrame DEF GateSafe
<1>6. ASSUME NEW w \in Wrights, HandleFinalizer(w)
      PROVE  GateInv'
  BY <1>6, HandleFinalizerEffect, GateFrame DEF GateSafe
<1>7. ASSUME NEW w \in Wrights, NEW n \in Nodes, CleanupNode(w, n)
      PROVE  GateInv'
  <2>1. wright' = wright /\ pass'.pc = "cleanup"
    BY <1>7, CleanupNodeEffect
  <2>2. \/ node' = node
        \/ /\ \A m \in Nodes \ {n} : node'[m] = node[m]
           /\ Marked(node'[n], node[n], w) /\ node'[n].of[w].entry = node[n].of[w].entry
    BY <1>7, CleanupNodeEffect
  <2>3. \A m \in Nodes, v \in Wrights : GateSafe(m, v)
    BY <2>1, <2>2 DEF Marked, GateSafe
  <2> QED
    BY <2>1, <2>3, GateFrame
<1>8. ASSUME NEW w \in Wrights, RemoveFinalizer(w)
      PROVE  GateInv'
  <2>1. node' = node /\ pass'.pc = "idle"
        /\ \A v \in Wrights : /\ wright'[v].deleting = wright[v].deleting
                              /\ wright[v].gone => wright'[v].gone
    BY <1>8, RemoveFinalizerEffect
  <2> QED
    BY <2>1, GateFrame DEF GateSafe
<1>9. ASSUME NEW w \in Wrights, IntrospectSkyhook(w)
      PROVE  GateInv'
  <2>1. /\ wright' = wright /\ pass' = pass /\ pass.pc = "idle"
        /\ \A n \in Nodes : Marked(node'[n], node[n], w) /\ node'[n].of[w].entry = node[n].of[w].entry
    BY <1>9, IntrospectSkyhookEffect
  <2>2. \A m \in Nodes, v \in Wrights : GateSafe(m, v)
    BY <2>1 DEF Marked, GateSafe
  <2> QED
    BY <2>1, <2>2, GateFrame
<1>10. CASE ProcessSkyhooksPerNode
  <2>1. wright' = wright /\ node' = node /\ pass'.pc = "run" /\ pass'.snap = node
    BY <1>10, ProcessSkyhooksEffect
  <2> QED
    BY <2>1 DEF GateInv, Gated, SnapshotTrue
<1>11. ASSUME NEW w \in Wrights, NEW n \in Nodes, RunPackages(w, n)
       PROVE  GateInv'
  <2>1. wright' = wright /\ node' = node /\ pass.pc = "run" /\ pass'.snap = pass.snap
    BY <1>11, RunPackagesEffect
  <2> QED
    BY <2>1, GateFrame DEF GateSafe
<1>12. ASSUME NEW w \in Wrights, SaveWright(w)
       PROVE  GateInv'
  <2>1. wright' = wright /\ pass.pc = "run" /\ w \in pass.save /\ pass'.snap = pass.snap
    BY <1>12, SaveWrightEffect
  <2>2. \A n \in Nodes :
          /\ Marked(node'[n], node[n], w)
          /\ node'[n].of[w].entry = Merged(node[n].of[w].entry, pass.snap[n].of[w].entry, pass.mem[n].of[w].entry)
    BY <1>12, SaveWrightEffect
  <2>3. \A n \in Nodes : EntryMoves(n, w)
    BY <2>1 DEF BootInv, BootPoint, RunCurrent
  <2>4. \A n \in Nodes : node[n].of[w].entry = "complete" => node'[n].of[w].entry = "complete" \/ wright[w].deleting
    BY <2>2, <2>3 DEF EntryMoves, Merged
  <2>5. \A m \in Nodes, v \in Wrights : GateSafe(m, v)
    BY <2>1, <2>2, <2>4 DEF Marked, GateSafe
  <2> QED
    BY <2>1, <2>5, GateFrame
<1>13. CASE RunEnds
  BY <1>13, RunEndsEffect, GateFrame DEF GateSafe
<1>14. CASE HandleRuntimeRequired
  <2> SUFFICES ASSUME NEW n \in Nodes, NEW w \in Wrights PROVE Gated(n, w)' /\ SnapshotTrue(n, w)'
    BY DEF GateInv
  <2>1. Gated(n, w) /\ SnapshotTrue(n, w)
    BY DEF GateInv
  <2>2. /\ wright' = wright /\ pass.pc = "taint" /\ pass'.pc = "idle"
        /\ node'[n].boot = node[n].boot /\ node'[n].of = node[n].of
        /\ node'[n].autoTaint = node[n].autoTaint
        /\ node'[n].taint = node[n].taint \/ TaintRemovable(pass.snap[n])
    BY <1>14, HandleRuntimeRequiredEffect
  <2>3. TaintRemovable(pass.snap[n]) /\ w \in RuntimeRequired /\ ~wright[w].gone =>
          pass.snap[n].of[w].entry = "complete"
    BY DEF TaintRemovable, Required, Completed, Present
  <2>4. Gated(n, w)'
    BY <2>1, <2>2, <2>3 DEF Gated, SnapshotTrue
  <2> QED
    BY <2>2, <2>4 DEF SnapshotTrue
<1>15. CASE Crash
  BY <1>15, CrashEffect, GateFrame DEF GateSafe
<1>16. ASSUME NEW n \in Nodes, Reboot(n)
       PROVE  GateInv'
  <2>1. /\ wright' = wright /\ pass' = pass
        /\ \A m \in Nodes : /\ node'[m].of = node[m].of /\ node'[m].taint = node[m].taint
                            /\ node'[m].autoTaint = node[m].autoTaint
                            /\ node'[m].boot = node[m].boot \/ node'[m].boot = node[m].boot + 1
    BY <1>16, RebootEffect
  <2>2. \A m \in Nodes : node[m].boot \in Nat
    BY DEF TypeOK, NodeRecords
  <2>3. \A m \in Nodes : node[m].boot > 1 => node'[m].boot > 1
    BY <2>1, <2>2
  <2> QED
    BY <2>1, <2>3 DEF GateInv, Gated, SnapshotTrue
<1>17. ASSUME NEW n \in Nodes, PlaceWorkload(n) \/ WorkloadLeaves(n)
       PROVE  GateInv'
  BY <1>17, WorkloadEffect, GateFrame DEF GateSafe
<1>18. ASSUME NEW n \in Nodes, UserUncordons(n)
       PROVE  GateInv'
  BY <1>18, UserUncordonsEffect, GateFrame DEF GateSafe
<1>19. ASSUME NEW w \in Wrights, EditMode(w)
       PROVE  GateInv'
  <2>1. node' = node /\ pass' = pass /\ pass.pc = "idle"
        /\ \A v \in Wrights : wright'[v].deleting = wright[v].deleting /\ wright'[v].gone = wright[v].gone
    BY <1>19, EditModeEffect
  <2> QED
    BY <2>1, GateFrame DEF GateSafe
<1>20. ASSUME NEW w \in Wrights, Delete(w)
       PROVE  GateInv'
  <2>1. node' = node /\ pass' = pass /\ pass.pc = "idle"
        /\ \A v \in Wrights : /\ wright[v].deleting => wright'[v].deleting
                              /\ wright[v].gone => wright'[v].gone
    BY <1>20, DeleteEffect
  <2> QED
    BY <2>1, GateFrame DEF GateSafe
<1>21. ASSUME NEW w \in Wrights, NEW n \in Nodes, JobFinishes(w, n)
       PROVE  GateInv'
  BY <1>21, JobFinishesEffect DEF GateInv, Gated, SnapshotTrue
<1>22. ASSUME NEW w \in Wrights, NEW n \in Nodes, JobRecorded(w, n) \/ DrainTimeoutPasses(w, n)
       PROVE  GateInv'
  <2>1. /\ wright' = wright /\ pass' = pass
        /\ \A m \in Nodes \ {n} : node'[m] = node[m]
        /\ Marked(node'[n], node[n], w)
        /\ node[n].of[w].entry = "complete" => node'[n].of[w].entry = "complete"
    BY <1>22, JobRecordedEffect, DrainTimeoutEffect
  <2>2. \A m \in Nodes, v \in Wrights :
          /\ node'[m].boot = node[m].boot /\ node'[m].taint = node[m].taint
          /\ node'[m].autoTaint = node[m].autoTaint
          /\ node[m].of[v].entry = "complete" => node'[m].of[v].entry = "complete"
    BY <2>1 DEF Marked
  <2> QED
    BY <2>1, <2>2 DEF GateInv, Gated, SnapshotTrue
<1>23. CASE UNCHANGED vars
  BY <1>23 DEF vars, GateInv, Gated, SnapshotTrue
<1> QED
  BY <1>1, <1>2, <1>3, <1>4, <1>5, <1>6, <1>7, <1>8, <1>9, <1>10, <1>11, <1>12, <1>13, <1>14, <1>15, <1>16,
     <1>17, <1>18, <1>19, <1>20, <1>21, <1>22, <1>23 DEF Next, Reconcile, Environment

\* At the start no node is auto-tainted.
LEMMA GateInit == Init => GateInv
<1> SUFFICES ASSUME Init, NEW n \in Nodes, NEW w \in Wrights PROVE Gated(n, w) /\ SnapshotTrue(n, w)
  BY DEF GateInv
<1>1. pass.pc = "idle" /\ node[n].autoTaint = FALSE
  BY DEF Init, IdlePass, NewNode
<1> QED
  BY <1>1 DEF Gated, SnapshotTrue

\* A node that was auto-tainted never comes into service before every runtime-required
\* NodeWright is complete on it: HandleRuntimeRequired decides on a snapshot whose
\* completions nothing but a deletion takes back, and TrackReboots taints in the write
\* that resets.
THEOREM GateHolds == Spec => []GatedUntilReady
<1>1. Spec => [](CordonInv /\ BootInv /\ GateInv)
  BY TypeInvariant, CordonInit, CordonStep, BootInit, BootStep, GateInit, GateStep, PTL DEF Spec
<1>2. GateInv => GatedUntilReady
  BY DEF GateInv, Gated, GatedUntilReady, Completed, Present
<1> QED
  BY <1>1, <1>2, PTL

-----------------------------------------------------------------------------
(***************************************************************************)
(* One NodeWright at a time.  A Job of w on n, unless a failed deletion    *)
(* left it behind, has every NodeWright before w behind it, in the boot    *)
(* that w has recorded.                                                    *)
(***************************************************************************)
Counts(n, w) == Applies(n, w) /\ <<n, w>> \notin used.kept

\* A NodeWright that others pass, or that came back after they did.
StandsAside(v) == wright[v].mode = "disable" \/ v \in used.resumed

\* A package that is complete is not applied, and one that is to be applied has no Job.
IdleWhenDone(n, w) ==
  /\ node[n].of[w].entry = "complete" => ~Applies(n, w)
  /\ pass.pc = "run" /\ <<w, n>> \in pass.todo /\ node[n].of[w].entry = "complete" =>
       job[n][w].phase # "none" \/ pass.mem[n].of[w].entry = "uninstall"

\* While a Job of this boot is active, every NodeWright has recorded this boot.
BootsAgree(n, v, w) ==
  ReapplyOnReboot /\ Counts(n, w) /\ wright[w].boots[n] = node[n].boot /\ ~wright[v].gone =>
    wright[v].boots[n] = node[n].boot

\* The NodeWrights before one that applies are done, or on their way out, or it is
\* going to be reset.
Passed(n, v, w) ==
  Counts(n, w) /\ ~wright[v].gone /\ ~StandsAside(v) =>
    \/ node[n].of[v].entry = "complete"
    \/ /\ wright[v].deleting /\ v \in UninstallEnabled
       /\ node[n].of[v].entry \in {"uninstall", "none"}
    \/ ReapplyOnReboot /\ wright[w].boots[n] # node[n].boot

\* Before a visit to w, everything before it is done, in the copies and on the node.
ReadyAhead(n, v, w) ==
  pass.pc = "run" /\ <<w, n>> \in pass.todo /\ ~wright[v].gone /\ wright[v].mode # "disable" =>
    pass.mem[n].of[v].entry = "complete" /\ node[n].of[v].entry = "complete"

\* A visit to v while a later NodeWright applies can only be for an uninstall.
NotAgain(n, v, w) ==
  pass.pc = "run" /\ <<v, n>> \in pass.todo /\ v \notin used.resumed /\ Counts(n, w) =>
    pass.mem[n].of[v].entry = "uninstall"

\* OneAtATime, of two NodeWrights on one node.
Apart(n, v, w) == Applies(n, v) /\ Counts(n, w) => StandsAside(v)

\* The invariant of v on n, and of v before w.
TurnPoint(n, v, w) ==
  /\ IdleWhenDone(n, v) /\ BootsAgree(n, v, w)
  /\ Order[v] < Order[w] => /\ Passed(n, v, w) /\ ReadyAhead(n, v, w)
                            /\ NotAgain(n, v, w) /\ Apart(n, v, w)

TurnInv == \A n \in Nodes, v, w \in Wrights : TurnPoint(n, v, w)

\* No Job becomes active.
NoNewJob == \A n \in Nodes, w \in Wrights : Applies(n, w)' => Applies(n, w)

\* NodeWrights go, are deleted and are enabled again; nothing of that is taken back.
OnlyLeaving ==
  /\ used.kept \subseteq used'.kept
  /\ \A w \in Wrights : /\ wright[w].gone => wright'[w].gone
                        /\ wright[w].deleting => wright'[w].deleting
                        /\ StandsAside(w) => StandsAside(w)'

\* The run pass, if there is one, goes on with the same copies and at most the same visits.
RunGoesOn ==
  pass'.pc = "run" =>
    /\ pass.pc = "run" /\ wright' = wright /\ used' = used
    /\ \A n \in Nodes, w \in Wrights :
         /\ <<w, n>> \in pass'.todo => /\ <<w, n>> \in pass.todo
                                       /\ job[n][w].phase # "none" => job'[n][w].phase # "none"
         /\ pass'.mem[n].of[w].entry = pass.mem[n].of[w].entry

\* Then no Job begins to count either.
LEMMA NoNewCount ==
  ASSUME NoNewJob, OnlyLeaving
  PROVE  \A n \in Nodes, w \in Wrights : Counts(n, w)' => Counts(n, w)
  BY DEF NoNewJob, OnlyLeaving, Counts

\* Steps that touch neither entries nor boots.
LEMMA TurnFrame ==
  ASSUME TurnInv, NoNewJob, OnlyLeaving, RunGoesOn,
         \A n \in Nodes, w \in Wrights : /\ node'[n].boot = node[n].boot
                                         /\ node'[n].of[w].entry = node[n].of[w].entry
                                         /\ wright'[w].boots[n] = wright[w].boots[n]
  PROVE  TurnInv'
<1> SUFFICES ASSUME NEW n \in Nodes, NEW v \in Wrights, NEW w \in Wrights PROVE TurnPoint(n, v, w)'
  BY DEF TurnInv
<1>1. TurnPoint(n, v, w)
  BY DEF TurnInv
<1>2. (Counts(n, w)' => Counts(n, w)) /\ (Applies(n, v)' => Applies(n, v))
  BY NoNewCount DEF NoNewJob
<1>3. IdleWhenDone(n, v)'
  BY <1>1, <1>2 DEF TurnPoint, IdleWhenDone, RunGoesOn
<1>4. BootsAgree(n, v, w)'
  BY <1>1, <1>2 DEF TurnPoint, BootsAgree, OnlyLeaving
<1>5. Order[v] < Order[w] => Passed(n, v, w)'
  BY <1>1, <1>2 DEF TurnPoint, Passed, OnlyLeaving
<1>6. Order[v] < Order[w] => ReadyAhead(n, v, w)'
  BY <1>1 DEF TurnPoint, ReadyAhead, RunGoesOn
<1>7. Order[v] < Order[w] => NotAgain(n, v, w)'
  BY <1>1, <1>2 DEF TurnPoint, NotAgain, RunGoesOn
<1>8. Order[v] < Order[w] => Apart(n, v, w)'
  BY <1>1, <1>2 DEF TurnPoint, Apart, OnlyLeaving
<1> QED
  BY <1>3, <1>4, <1>5, <1>6, <1>7, <1>8 DEF TurnPoint

\* After a reboot every Job that counts is of a NodeWright that is going to be reset.
LEMMA TurnReboot ==
  ASSUME TypeOK, BootInv, TurnInv, NEW n \in Nodes, Reboot(n)
  PROVE  TurnInv'
<1> SUFFICES ASSUME NEW m \in Nodes, NEW v \in Wrights, NEW w \in Wrights PROVE TurnPoint(m, v, w)'
  BY DEF TurnInv
<1>1. TurnPoint(m, v, w) /\ Behind(m, w)
  BY DEF TurnInv, BootInv, BootPoint
<1>2. /\ wright' = wright /\ job' = job /\ pass' = pass
      /\ used'.kept = used.kept /\ used'.resumed = used.resumed
      /\ node'[m].of = node[m].of
      /\ node'[m].boot = node[m].boot \/ node'[m].boot = node[m].boot + 1
  BY RebootEffect
<1>3. node[m].boot \in Nat /\ wright[w].boots[m] \in Nat
  BY BootTypes
<1>4. node'[m].boot = node[m].boot \/ wright'[w].boots[m] # node'[m].boot
  BY <1>1, <1>2, <1>3 DEF Behind
<1>5. /\ \A u \in Wrights : Applies(m, u)' <=> Applies(m, u)
      /\ Counts(m, w)' <=> Counts(m, w)
      /\ StandsAside(v)' <=> StandsAside(v)
  BY <1>2 DEF Applies, Counts, StandsAside, Present
<1>6. IdleWhenDone(m, v)'
  BY <1>1, <1>2, <1>5 DEF TurnPoint, IdleWhenDone
<1>7. BootsAgree(m, v, w)'
  BY <1>1, <1>2, <1>4, <1>5 DEF TurnPoint, BootsAgree
<1>8. Order[v] < Order[w] => Passed(m, v, w)'
  BY <1>1, <1>2, <1>4, <1>5 DEF TurnPoint, Passed
<1>9. Order[v] < Order[w] => ReadyAhead(m, v, w)' /\ NotAgain(m, v, w)' /\ Apart(m, v, w)'
  BY <1>1, <1>2, <1>5 DEF TurnPoint, ReadyAhead, NotAgain, Apart
<1> QED
  BY <1>6, <1>7, <1>8, <1>9 DEF TurnPoint

\* A reset of v is in a boot that a later NodeWright has not recorded either.
LEMMA TurnTrackReboot ==
  ASSUME TypeOK, BootInv, TurnInv, NEW u \in Wrights, NEW n \in Nodes, TrackReboot(u, n)
  PROVE  TurnInv'
<1>1. /\ wright' = wright /\ used'.resumed = used.resumed /\ used.kept \subseteq used'.kept
      /\ pass.pc = "reboot" /\ pass'.pc = "reboot" /\ <<u, n>> \in pass.todo
      /\ \A m \in Nodes : node'[m].boot = node[m].boot
      /\ RebootKeeps(u, n) /\ RebootOutcome(u, n)
  BY TrackRebootEffect
<1>2. NoJob.phase = "none" /\ NoMarks.entry = "none"
  BY DEF NoJob, NoMarks
<1>3. \A m \in Nodes, w \in Wrights : (m # n \/ w # u) =>
        node'[m].of[w] = node[m].of[w] /\ job'[m][w] = job[m][w]
  BY <1>1 DEF RebootKeeps
<1>4. job'[n][u] = job[n][u] \/ job'[n][u] = NoJob
  BY <1>1 DEF RebootOutcome
<1>5. NoNewJob
  BY <1>1, <1>2, <1>3, <1>4 DEF NoNewJob, Applies, Present
<1>6. OnlyLeaving
  BY <1>1 DEF OnlyLeaving, StandsAside
<1> SUFFICES ASSUME NEW m \in Nodes, NEW v \in Wrights, NEW w \in Wrights PROVE TurnPoint(m, v, w)'
  BY DEF TurnInv
<1>7. TurnPoint(m, v, w)
  BY DEF TurnInv
<1>8. (Counts(m, w)' => Counts(m, w)) /\ (Applies(m, v)' => Applies(m, v))
  BY <1>5, <1>6, NoNewCount DEF NoNewJob
<1>9. node'[m].of[v].entry = node[m].of[v].entry
      \/ (m = n /\ v = u /\ node'[m].of[v].entry = "none" /\ ReapplyOnReboot)
  BY <1>1, <1>2, <1>3 DEF RebootOutcome
<1>10. IdleWhenDone(m, v)'
  BY <1>1, <1>7, <1>8, <1>9 DEF TurnPoint, IdleWhenDone
<1>11. BootsAgree(m, v, w)'
  BY <1>1, <1>7, <1>8 DEF TurnPoint, BootsAgree
<1>12. Order[v] < Order[w] => Passed(m, v, w)'
  <2>1. CASE node'[m].of[v].entry = node[m].of[v].entry
    BY <1>1, <1>7, <1>8, <2>1 DEF TurnPoint, Passed, StandsAside
  <2>2. CASE m = n /\ v = u /\ ReapplyOnReboot
    <3>1. wright[v].boots[m] # node[m].boot
      <4>1. /\ pass.snap[m].boot <= node[m].boot /\ wright[v].boots[m] # pass.snap[m].boot
            /\ wright[v].boots[m] <= pass.snap[m].boot
        BY <1>1, <2>2 DEF BootInv, BootPoint, ResetsFirst
      <4> QED
        BY <4>1, BootTypes
    <3>2. (Counts(m, w) /\ ~wright[v].gone) => wright[w].boots[m] # node[m].boot
      BY <1>7, <2>2, <3>1 DEF TurnPoint, BootsAgree
    <3> QED
      BY <1>1, <1>8, <2>2, <3>2 DEF Passed
  <2> QED
    BY <1>9, <2>1, <2>2
<1>13. Order[v] < Order[w] => ReadyAhead(m, v, w)' /\ NotAgain(m, v, w)'
  BY <1>1 DEF ReadyAhead, NotAgain
<1>14. Order[v] < Order[w] => Apart(m, v, w)'
  BY <1>1, <1>7, <1>8 DEF TurnPoint, Apart, StandsAside
<1> QED
  BY <1>10, <1>11, <1>12, <1>13, <1>14 DEF TurnPoint

\* A boot id is recorded when the Job of the boot before is gone.
LEMMA TurnUpdateIds ==
  ASSUME TypeOK, BootInv, TurnInv, NEW u \in Wrights, UpdateBootIds(u)
  PROVE  TurnInv'
<1> SUFFICES ASSUME NEW m \in Nodes, NEW v \in Wrights, NEW w \in Wrights PROVE TurnPoint(m, v, w)'
  BY DEF TurnInv
<1>1. TurnPoint(m, v, w) /\ BootPoint(m, u) /\ BootPoint(m, v)
  BY DEF TurnInv, BootInv
<1>2. /\ node' = node /\ job' = job /\ used'.kept = used.kept /\ used'.resumed = used.resumed
      /\ pass.pc = "reboot" /\ pass'.pc # "run" /\ u \in pass.save
      /\ \A x \in Wrights : /\ wright'[x].mode = wright[x].mode /\ wright'[x].gone = wright[x].gone
                            /\ wright'[x].deleting = wright[x].deleting
      /\ \A x \in Wrights \ {u} : wright'[x].boots = wright[x].boots
      /\ wright'[u].boots = pass.boots[u] \/ wright'[u].boots = wright[u].boots
  BY UpdateBootIdsEffect
<1>3. /\ Applies(m, v)' <=> Applies(m, v)
      /\ Counts(m, w)' <=> Counts(m, w)
      /\ StandsAside(v)' <=> StandsAside(v)
  BY <1>2 DEF Applies, Counts, StandsAside, Present
<1>4. \A x \in Wrights : \/ wright'[x].boots[m] = wright[x].boots[m]
                         \/ /\ x = u /\ wright'[u].boots[m] = pass.boots[u][m]
                            /\ pass.boots[u][m] # wright[u].boots[m]
  BY <1>2
<1>5. pass.boots[u][m] # wright[u].boots[m] =>
        /\ pass.boots[u][m] = pass.snap[m].boot /\ wright[u].boots[m] <= pass.snap[m].boot
        /\ pass.snap[m].boot <= node[m].boot
        /\ ReapplyOnReboot => job[m][u].phase = "none" \/ <<m, u>> \in used.kept
  BY <1>1, <1>2 DEF BootPoint, ResetsFirst
<1>6. ReapplyOnReboot /\ Counts(m, w) => wright'[w].boots[m] = wright[w].boots[m]
  BY <1>4, <1>5 DEF Counts, Applies
<1>7. wright[v].boots[m] = node[m].boot => wright'[v].boots[m] = node[m].boot
  <2>1. node[m].boot \in Nat /\ pass.snap[m].boot \in Nat
    BY BootTypes
  <2> QED
    BY <1>4, <1>5, <2>1
<1>8. IdleWhenDone(m, v)'
  BY <1>1, <1>2, <1>3 DEF TurnPoint, IdleWhenDone
<1>9. BootsAgree(m, v, w)'
  BY <1>1, <1>2, <1>3, <1>6, <1>7 DEF TurnPoint, BootsAgree
<1>10. Order[v] < Order[w] => Passed(m, v, w)'
  BY <1>1, <1>2, <1>3, <1>6 DEF TurnPoint, Passed
<1>11. Order[v] < Order[w] => ReadyAhead(m, v, w)' /\ NotAgain(m, v, w)' /\ Apart(m, v, w)'
  BY <1>1, <1>2, <1>3 DEF TurnPoint, ReadyAhead, NotAgain, Apart
<1> QED
  BY <1>8, <1>9, <1>10, <1>11 DEF TurnPoint

\* The visits of a pass: to NodeWrights that are not done, behind NodeWrights that are.
LEMMA TurnProcess ==
  ASSUME TypeOK, TurnInv, ProcessSkyhooksPerNode
  PROVE  TurnInv'
<1> SUFFICES ASSUME NEW n \in Nodes, NEW v \in Wrights, NEW w \in Wrights PROVE TurnPoint(n, v, w)'
  BY DEF TurnInv
<1>1. TurnPoint(n, v, w)
  BY DEF TurnInv
<1>2. /\ wright' = wright /\ node' = node /\ job' = job /\ used' = used
      /\ \A x \in Present, m \in Nodes : wright[x].boots[m] = node[m].boot
      /\ pass'.pc = "run" /\ pass'.mem = Requested
      /\ \A x \in Wrights, m \in Nodes : <<x, m>> \in pass'.todo => ToRun(m, x, Requested)
  BY ProcessSkyhooksEffect
<1>3. \/ Requested[n].of[v] = node[n].of[v]
      \/ Requested[n].of[v].entry = "uninstall" /\ node[n].of[v].entry = "complete"
  BY RequestedFacts
<1>4. /\ Applies(n, v)' <=> Applies(n, v)
      /\ Counts(n, w)' <=> Counts(n, w)
      /\ StandsAside(v)' <=> StandsAside(v)
  BY <1>2 DEF Applies, Counts, StandsAside, Present
<1>5. <<v, n>> \in pass'.todo =>
        /\ wright[v].mode = "run" /\ ~wright[v].gone /\ Requested[n].of[v].entry # "complete"
        /\ ~(wright[v].deleting /\ v \in UninstallEnabled /\ Requested[n].of[v].entry = "none")
  BY <1>2 DEF ToRun, Completed, Present
<1>6. (Order[v] < Order[w] /\ <<w, n>> \in pass'.todo /\ ~wright[v].gone /\ wright[v].mode # "disable") =>
        Requested[n].of[v].entry = "complete"
  <2> SUFFICES ASSUME Order[v] < Order[w], <<w, n>> \in pass'.todo, ~wright[v].gone, wright[v].mode # "disable"
               PROVE  Requested[n].of[v].entry = "complete"
    OBVIOUS
  <2>1. v \in Before(w) /\ IsNodeReadyForSkyhook(n, w, Requested)
    BY <1>2 DEF ToRun, Before, Present
  <2>2. \A m \in (IF v \in SequencingAll THEN Nodes ELSE {n}) : Completed(Requested[m], v)
    BY <2>1 DEF IsNodeReadyForSkyhook
  <2>3. n \in (IF v \in SequencingAll THEN Nodes ELSE {n})
    OBVIOUS
  <2> QED
    BY <2>2, <2>3 DEF Completed
<1>7. IdleWhenDone(n, v)'
  BY <1>1, <1>2, <1>3, <1>4, <1>5 DEF TurnPoint, IdleWhenDone
<1>8. BootsAgree(n, v, w)'
  BY <1>1, <1>2, <1>4 DEF TurnPoint, BootsAgree
<1>9. Order[v] < Order[w] => Passed(n, v, w)' /\ Apart(n, v, w)'
  BY <1>1, <1>2, <1>4 DEF TurnPoint, Passed, Apart
<1>10. Order[v] < Order[w] => ReadyAhead(n, v, w)'
  BY <1>2, <1>3, <1>6 DEF ReadyAhead
<1>11. Counts(n, w) => wright[w].boots[n] = node[n].boot
  BY <1>2 DEF Counts, Applies
<1>12. Order[v] < Order[w] => NotAgain(n, v, w)'
  BY <1>1, <1>2, <1>3, <1>4, <1>5, <1>11 DEF TurnPoint, Passed, NotAgain, StandsAside
<1> QED
  BY <1>7, <1>8, <1>9, <1>10, <1>12 DEF TurnPoint

\* A visit that creates an apply Job: everything before it is done, nothing after it runs.
LEMMA TurnNewJob ==
  ASSUME TypeOK, CordonInv, BootInv, TurnInv, NEW u \in Wrights, NEW k \in Nodes,
         pass.pc = "run", pass'.pc = "run", <<u, k>> \in pass.todo, pass'.todo = pass.todo \ {<<u, k>>},
         \A v \in pass.save : Order[u] <= Order[v],
         wright' = wright, node' = node, used' = used,
         job[k][u].phase = "none", pass.mem[k].of[u].entry # "uninstall",
         \A n \in Nodes, w \in Wrights : (n # k \/ w # u) =>
           job'[n][w] = job[n][w] /\ pass'.mem[n].of[w].entry = pass.mem[n].of[w].entry
  PROVE  TurnInv'
<1> SUFFICES ASSUME NEW n \in Nodes, NEW v \in Wrights, NEW w \in Wrights PROVE TurnPoint(n, v, w)'
  BY DEF TurnInv
<1>1. TurnPoint(n, v, w) /\ TurnPoint(n, w, v)
  BY DEF TurnInv
<1>2. /\ \A x \in Wrights : Applies(n, x)' => Applies(n, x) \/ (n = k /\ x = u)
      /\ Counts(n, w)' => Counts(n, w) \/ (n = k /\ w = u)
      /\ StandsAside(v)' <=> StandsAside(v)
  BY DEF Applies, Counts, StandsAside, Present
<1>3. /\ \A x \in Wrights : <<x, n>> \in pass'.todo => /\ <<x, n>> \in pass.todo /\ (n # k \/ x # u)
                                                     /\ x \in pass.save
      /\ u \in pass.save
  BY DEF CordonInv, RunShape
<1>4. /\ ~wright[u].gone /\ wright[u].mode = "run" /\ wright[u].boots[k] = pass.snap[k].boot
      /\ pass.mem[k].of[u].entry # "complete"
  BY <1>3 DEF BootInv, BootPoint, RunCurrent, EntryMoves
<1>5. ~wright[v].gone => wright[v].boots[k] = pass.snap[k].boot
  BY DEF BootInv, BootPoint, RunCurrent
<1>6. node[k].of[u].entry # "complete"
  BY DEF TurnInv, TurnPoint, IdleWhenDone
<1>7. IdleWhenDone(n, v)'
  <2>1. CASE n = k /\ v = u
    BY <1>6, <2>1 DEF IdleWhenDone
  <2>2. CASE n # k \/ v # u
    BY <1>1, <1>2, <1>3, <2>2 DEF TurnPoint, IdleWhenDone
  <2> QED
    BY <2>1, <2>2
<1>8. BootsAgree(n, v, w)'
  BY <1>1, <1>2, <1>4, <1>5 DEF TurnPoint, BootsAgree
<1> SUFFICES ASSUME Order[v] < Order[w]
             PROVE  Passed(n, v, w)' /\ ReadyAhead(n, v, w)' /\ NotAgain(n, v, w)' /\ Apart(n, v, w)'
  BY <1>7, <1>8 DEF TurnPoint
<1>9. (n = k /\ w = u /\ ~wright[v].gone /\ ~StandsAside(v)) => node[n].of[v].entry = "complete"
  BY <1>1 DEF TurnPoint, ReadyAhead, StandsAside
<1>10. Passed(n, v, w)'
  BY <1>1, <1>2, <1>9 DEF TurnPoint, Passed
<1>11. ReadyAhead(n, v, w)'
  <2>1. (n = k /\ v = u) => <<w, n>> \notin pass'.todo
    BY <1>1, <1>3, <1>4 DEF TurnPoint, ReadyAhead
  <2> QED
    BY <1>1, <1>3, <2>1 DEF TurnPoint, ReadyAhead
<1>12. NotAgain(n, v, w)'
  <2>1. (n = k /\ w = u) => <<v, n>> \notin pass'.todo
    BY <1>3, OrderFacts
  <2> QED
    BY <1>1, <1>2, <1>3, <2>1 DEF TurnPoint, NotAgain
<1>13. Apart(n, v, w)'
  <2>1. CASE n = k /\ w = u
    <3>1. v # u
      BY <2>1, OrderFacts
    <3>2. Applies(n, v)' => Applies(n, v) /\ ~wright[v].gone
      BY <1>2, <3>1 DEF Applies, Present
    <3>3. node[n].of[v].entry = "complete" => ~Applies(n, v)
      BY <1>1 DEF TurnPoint, IdleWhenDone
    <3> QED
      BY <1>2, <1>9, <2>1, <3>2, <3>3 DEF Apart
  <2>2. CASE n = k /\ v = u
    <3>1. w # u
      BY <2>2, OrderFacts
    <3>2. Counts(n, w)' => Counts(n, w)
      BY <1>2, <3>1
    <3>3. Counts(n, w) => StandsAside(v)
      BY <1>1, <2>2 DEF TurnPoint, NotAgain, StandsAside
    <3> QED
      BY <1>2, <3>2, <3>3 DEF Apart
  <2>3. CASE n # k \/ (v # u /\ w # u)
    BY <1>1, <1>2, <2>3 DEF TurnPoint, Apart
  <2> QED
    BY <2>1, <2>2, <2>3
<1> QED
  BY <1>10, <1>11, <1>12, <1>13

\* A visit creates at most one Job.
LEMMA TurnRunPackages ==
  ASSUME TypeOK, CordonInv, BootInv, TurnInv, NEW u \in Wrights, NEW k \in Nodes, RunPackages(u, k)
  PROVE  TurnInv'
<1>1. /\ wright' = wright /\ node' = node /\ used' = used
      /\ pass.pc = "run" /\ pass'.pc = "run" /\ <<u, k>> \in pass.todo
      /\ \A v \in pass.save : Order[u] <= Order[v]
  BY RunPackagesEffect
<1>2. OnlyLeaving
  BY <1>1 DEF OnlyLeaving, StandsAside
<1>3. CASE /\ job' = job /\ pass'.mem = NextCopies
           /\ \A v \in Wrights, m \in Nodes : <<v, m>> \in pass'.todo <=> <<v, m>> \in pass.todo /\ v # u
  <2>1. RunGoesOn
    BY <1>1, <1>3, NextCopiesFacts DEF RunGoesOn
  <2>2. NoNewJob
    BY <1>1, <1>3 DEF NoNewJob, Applies, Present
  <2> QED
    BY <1>1, <1>2, <2>1, <2>2, TurnFrame
<1>4. CASE /\ pass'.todo = pass.todo \ {<<u, k>>} /\ VisitOutcome(u, k, pass.mem[k], pass'.mem[k])
           /\ \A m \in Nodes \ {k} : pass'.mem[m] = pass.mem[m]
  <2> DEFINE old == pass.mem[k].of[u].entry
             new == pass'.mem[k].of[u].entry
             J(kind) == [phase |-> "active", kind |-> kind, boot |-> 0]
  <2>1. \A n \in Nodes, w \in Wrights : (n # k \/ w # u) =>
          pass'.mem[n].of[w].entry = pass.mem[n].of[w].entry
    BY <1>4 DEF VisitOutcome, Marked
  <2>2. \/ job' = job /\ new = old
        \/ /\ job[k][u].phase = "none"
           /\ \E kind \in {"apply", "uninstall"} :
                /\ job' = SetJob(k, u, J(kind))
                /\ kind = "uninstall" <=> old = "uninstall"
                /\ kind = "uninstall" => new = old
        \/ job' = SetJob(k, u, NoJob) /\ new = old
    BY <1>4 DEF VisitOutcome
  <2>3. /\ job \in [Nodes -> [Wrights -> JobRecords]] /\ NoJob \in JobRecords
        /\ J("apply") \in JobRecords /\ J("uninstall") \in JobRecords
        /\ NoJob.phase = "none" /\ J("uninstall").kind = "uninstall"
    BY RecordsInhabited DEF TypeOK, JobRecords, NoJob
  <2> HIDE DEF old, new, J
  <2>4. \A j \in JobRecords : /\ SetJob(k, u, j)[k][u] = j
                              /\ \A n \in Nodes, w \in Wrights : (n # k \/ w # u) =>
                                   SetJob(k, u, j)[n][w] = job[n][w]
    BY <2>3, SetJobFacts
  <2>5. ASSUME new = old, \A n \in Nodes, w \in Wrights : (n # k \/ w # u) => job'[n][w] = job[n][w],
               job'[k][u] = job[k][u] \/ job'[k][u].phase = "none" \/ job'[k][u].kind = "uninstall"
        PROVE  TurnInv'
    <3>1. NoNewJob
      BY <1>1, <2>5 DEF NoNewJob, Applies, Present
    <3>2. \A n \in Nodes, w \in Wrights : pass'.mem[n].of[w].entry = pass.mem[n].of[w].entry
      BY <2>1, <2>5 DEF old, new
    <3>3. RunGoesOn
      BY <1>1, <1>4, <2>5, <3>2 DEF RunGoesOn
    <3> QED
      BY <1>1, <1>2, <3>1, <3>3, TurnFrame
  <2>6. CASE job' = job /\ new = old
    BY <2>5, <2>6
  <2>7. CASE job' = SetJob(k, u, NoJob) /\ new = old
    BY <2>3, <2>4, <2>5, <2>7
  <2>8. CASE job' = SetJob(k, u, J("uninstall")) /\ new = old
    BY <2>3, <2>4, <2>5, <2>8
  <2>9. CASE job' = SetJob(k, u, J("apply")) /\ job[k][u].phase = "none" /\ old # "uninstall"
    <3>1. \A n \in Nodes, w \in Wrights : (n # k \/ w # u) =>
            job'[n][w] = job[n][w] /\ pass'.mem[n].of[w].entry = pass.mem[n].of[w].entry
      BY <2>1, <2>3, <2>4, <2>9
    <3>2. pass.mem[k].of[u].entry # "uninstall"
      BY <2>9 DEF old
    <3> QED
      BY <1>1, <1>4, <2>9, <3>1, <3>2, TurnNewJob
  <2> QED
    BY <2>2, <2>6, <2>7, <2>8, <2>9
<1> QED
  BY <1>3, <1>4, RunPackagesEffect

\* A save takes back a completion only for an uninstall.
LEMMA TurnSave ==
  ASSUME TypeOK, CordonInv, BootInv, TurnInv, NEW u \in Wrights, SaveWright(u)
  PROVE  TurnInv'
<1> SUFFICES ASSUME NEW n \in Nodes, NEW v \in Wrights, NEW w \in Wrights PROVE TurnPoint(n, v, w)'
  BY DEF TurnInv
<1>1. TurnPoint(n, v, w)
  BY DEF TurnInv
<1>2. /\ wright' = wright /\ job' = job /\ used' = used /\ pass.pc = "run" /\ u \in pass.save
      /\ pass'.pc = "run" /\ pass'.todo = pass.todo /\ pass'.mem = NextCopies
  BY SaveWrightEffect
<1>3. /\ node'[n].boot = node[n].boot
      /\ v # u => node'[n].of[v] = node[n].of[v]
      /\ node'[n].of[u].entry = Merged(node[n].of[u].entry, pass.snap[n].of[u].entry, pass.mem[n].of[u].entry)
  BY SaveWrightEffect DEF Marked
<1>4. pass'.mem[n].of[v].entry = pass.mem[n].of[v].entry
  BY <1>2, NextCopiesFacts
<1>5. /\ Applies(n, v)' <=> Applies(n, v)
      /\ Counts(n, w)' <=> Counts(n, w)
      /\ StandsAside(v)' <=> StandsAside(v)
  BY <1>2 DEF Applies, Counts, StandsAside, Present
<1>6. EntryMoves(n, u)
  BY <1>2 DEF BootInv, BootPoint, RunCurrent
<1>7. \/ node'[n].of[v].entry = node[n].of[v].entry
      \/ node'[n].of[v].entry = "uninstall" /\ wright[v].deleting /\ v \in UninstallEnabled
         /\ pass.mem[n].of[v].entry = "uninstall"
      \/ node'[n].of[v].entry = "in_progress" /\ node[n].of[v].entry = "none"
         /\ ~(wright[v].deleting /\ v \in UninstallEnabled) /\ pass.mem[n].of[v].entry = "in_progress"
  BY <1>3, <1>6 DEF EntryMoves, Merged
<1>8. IdleWhenDone(n, v)'
  BY <1>1, <1>2, <1>4, <1>5, <1>7 DEF TurnPoint, IdleWhenDone
<1>9. BootsAgree(n, v, w)'
  BY <1>1, <1>2, <1>3, <1>5 DEF TurnPoint, BootsAgree
<1>10. Order[v] < Order[w] => Passed(n, v, w)'
  BY <1>1, <1>2, <1>3, <1>5, <1>7 DEF TurnPoint, Passed
<1>11. Order[v] < Order[w] => ReadyAhead(n, v, w)'
  BY <1>1, <1>2, <1>4, <1>7 DEF TurnPoint, ReadyAhead
<1>12. Order[v] < Order[w] => NotAgain(n, v, w)' /\ Apart(n, v, w)'
  BY <1>1, <1>2, <1>4, <1>5 DEF TurnPoint, NotAgain, Apart
<1> QED
  BY <1>8, <1>9, <1>10, <1>11, <1>12 DEF TurnPoint

\* A completion is recorded when its Job is over.
LEMMA TurnRecorded ==
  ASSUME TypeOK, TurnInv, NEW u \in Wrights, NEW k \in Nodes, JobRecorded(u, k)
  PROVE  TurnInv'
<1> SUFFICES ASSUME NEW n \in Nodes, NEW v \in Wrights, NEW w \in Wrights PROVE TurnPoint(n, v, w)'
  BY DEF TurnInv
<1>1. TurnPoint(n, v, w)
  BY DEF TurnInv
<1>2. /\ wright' = wright /\ used' = used /\ pass' = pass
      /\ job[k][u].phase = "finished" /\ job'[k][u].phase = "recorded"
      /\ \A x \in Wrights : n # k \/ x # u => job'[n][x] = job[n][x]
  BY JobRecordedEffect
<1>3. node'[n].boot = node[n].boot /\ (n # k \/ v # u => node'[n].of[v] = node[n].of[v])
  BY JobRecordedEffect DEF Marked
<1>4. \/ node'[k].of[u].entry = node[k].of[u].entry
      \/ node[k].of[u].entry = "in_progress" /\ node'[k].of[u].entry = "complete"
      \/ node[k].of[u].entry = "uninstall" /\ node'[k].of[u].entry = "none"
  BY JobRecordedEffect
<1>5. \A x \in Wrights : Applies(n, x)' <=> Applies(n, x)
  BY <1>2 DEF Applies, Present
<1>6. (Counts(n, w)' <=> Counts(n, w)) /\ (StandsAside(v)' <=> StandsAside(v))
  BY <1>2, <1>5 DEF Counts, StandsAside
<1>7. IdleWhenDone(n, v)'
  <2>1. CASE n = k /\ v = u
    BY <1>2, <2>1 DEF IdleWhenDone, Applies
  <2>2. CASE n # k \/ v # u
    BY <1>1, <1>2, <1>3, <1>5, <2>2 DEF TurnPoint, IdleWhenDone
  <2> QED
    BY <2>1, <2>2
<1>8. BootsAgree(n, v, w)'
  BY <1>1, <1>2, <1>3, <1>6 DEF TurnPoint, BootsAgree
<1>9. Order[v] < Order[w] => Passed(n, v, w)'
  BY <1>1, <1>2, <1>3, <1>4, <1>6 DEF TurnPoint, Passed
<1>10. Order[v] < Order[w] => ReadyAhead(n, v, w)'
  BY <1>1, <1>2, <1>3, <1>4 DEF TurnPoint, ReadyAhead
<1>11. Order[v] < Order[w] => NotAgain(n, v, w)' /\ Apart(n, v, w)'
  BY <1>1, <1>2, <1>5, <1>6 DEF TurnPoint, NotAgain, Apart
<1> QED
  BY <1>7, <1>8, <1>9, <1>10, <1>11 DEF TurnPoint

\* Every step keeps the invariant.
LEMMA TurnStep == TypeOK /\ CordonInv /\ BootInv /\ TurnInv /\ [Next]_vars => TurnInv'
<1> SUFFICES ASSUME TypeOK, CordonInv, BootInv, TurnInv, [Next]_vars PROVE TurnInv'
  OBVIOUS
\* Steps that keep Jobs, entries, boots and the history.
<1>0. ASSUME job' = job, used'.kept = used.kept, used'.resumed = used.resumed,
             pass'.pc # "run" \/ (pass' = pass /\ wright' = wright /\ used' = used),
             \A w \in Wrights : /\ wright'[w].mode = wright[w].mode /\ wright'[w].boots = wright[w].boots
                                /\ wright[w].gone => wright'[w].gone
                                /\ wright[w].deleting => wright'[w].deleting,
             \A n \in Nodes, w \in Wrights :
               node'[n].boot = node[n].boot /\ node'[n].of[w].entry = node[n].of[w].entry
      PROVE  TurnInv'
  <2>1. NoNewJob
    BY <1>0 DEF NoNewJob, Applies, Present
  <2>2. OnlyLeaving
    BY <1>0 DEF OnlyLeaving, StandsAside
  <2>3. RunGoesOn
    BY <1>0 DEF RunGoesOn
  <2> QED
    BY <1>0, <2>1, <2>2, <2>3, TurnFrame
<1>1. CASE HandleAutoTaint
  <2>1. job' = job /\ used' = used /\ pass' = pass /\ wright' = wright
        /\ \A n \in Nodes : node'[n].boot = node[n].boot /\ node'[n].of = node[n].of
    BY <1>1, HandleAutoTaintEffect
  <2> QED
    BY <1>0, <2>1
<1>2. CASE TrackReboots
  <2>1. job' = job /\ used' = used /\ pass'.pc = "reboot" /\ wright' = wright /\ node' = node
    BY <1>2, TrackRebootsEffect
  <2> QED
    BY <1>0, <2>1
<1>3. ASSUME NEW w \in Wrights, AddFinalizer(w)
      PROVE  TurnInv'
  <2>1. job' = job /\ used' = used /\ node' = node /\ pass'.pc = "idle"
    BY <1>3, AddFinalizerEffect
  <2>2. \A v \in Wrights : /\ wright'[v].mode = wright[v].mode /\ wright'[v].boots = wright[v].boots
                           /\ wright'[v].gone = wright[v].gone /\ wright'[v].deleting = wright[v].deleting
    BY <1>3, AddFinalizerEffect
  <2> QED
    BY <1>0, <2>1, <2>2
<1>4. ASSUME NEW w \in Wrights, HandleFinalizer(w)
      PROVE  TurnInv'
  <2>1. job' = job /\ used' = used /\ pass'.pc = "cleanup" /\ wright' = wright /\ node' = node
    BY <1>4, HandleFinalizerEffect
  <2> QED
    BY <1>0, <2>1
<1>5. ASSUME NEW w \in Wrights, NEW n \in Nodes, CleanupNode(w, n)
      PROVE  TurnInv'
  <2>1. /\ wright' = wright /\ job' = job /\ pass'.pc = "cleanup"
        /\ used'.kept = used.kept /\ used'.resumed = used.resumed
    BY <1>5, CleanupNodeEffect
  <2>2. \/ node' = node
        \/ /\ \A m \in Nodes \ {n} : node'[m] = node[m]
           /\ Marked(node'[n], node[n], w) /\ node'[n].of[w].entry = node[n].of[w].entry
    BY <1>5, CleanupNodeEffect
  <2>3. \A m \in Nodes, v \in Wrights :
          node'[m].boot = node[m].boot /\ node'[m].of[v].entry = node[m].of[v].entry
    BY <2>2 DEF Marked
  <2> QED
    BY <1>0, <2>1, <2>3
<1>6. ASSUME NEW w \in Wrights, RemoveFinalizer(w)
      PROVE  TurnInv'
  <2>1. node' = node /\ used' = used /\ pass'.pc = "idle"
    BY <1>6, RemoveFinalizerEffect
  <2>2. \A v \in Wrights : /\ wright'[v].mode = wright[v].mode /\ wright'[v].boots = wright[v].boots
                           /\ wright[v].gone => wright'[v].gone
                           /\ wright'[v].deleting = wright[v].deleting
    BY <1>6, RemoveFinalizerEffect
  <2>3. \A n \in Nodes, v \in Wrights : job'[n][v] = job[n][v] \/ job'[n][v] = NoJob
    BY <1>6, RemoveFinalizerEffect
  <2>4. NoJob.phase = "none"
    BY DEF NoJob
  <2>5. NoNewJob
    BY <2>2, <2>3, <2>4 DEF NoNewJob, Applies, Present
  <2>6. OnlyLeaving /\ RunGoesOn
    BY <2>1, <2>2 DEF OnlyLeaving, StandsAside, RunGoesOn
  <2> QED
    BY <2>1, <2>2, <2>5, <2>6, TurnFrame
<1>7. ASSUME NEW w \in Wrights, IntrospectSkyhook(w)
      PROVE  TurnInv'
  <2>1. wright' = wright /\ job' = job /\ used' = used /\ pass' = pass
    BY <1>7, IntrospectSkyhookEffect
  <2>2. \A m \in Nodes, v \in Wrights :
          node'[m].boot = node[m].boot /\ node'[m].of[v].entry = node[m].of[v].entry
    BY <1>7, IntrospectSkyhookEffect, ZenonT(40) DEF Marked
  <2> QED
    BY <1>0, <2>1, <2>2
<1>8. CASE RunEnds
  <2>1. job' = job /\ used' = used /\ pass'.pc = "taint" /\ wright' = wright /\ node' = node
    BY <1>8, RunEndsEffect
  <2> QED
    BY <1>0, <2>1
<1>9. CASE HandleRuntimeRequired
  <2>1. job' = job /\ used' = used /\ pass'.pc = "idle" /\ wright' = wright
        /\ \A n \in Nodes : node'[n].boot = node[n].boot /\ node'[n].of = node[n].of
    BY <1>9, HandleRuntimeRequiredEffect
  <2> QED
    BY <1>0, <2>1
<1>10. CASE Crash
  <2>1. job' = job /\ used'.kept = used.kept /\ used'.resumed = used.resumed
        /\ pass'.pc = "idle" /\ wright' = wright /\ node' = node
    BY <1>10, CrashEffect
  <2> QED
    BY <1>0, <2>1
<1>11. ASSUME NEW n \in Nodes, PlaceWorkload(n) \/ WorkloadLeaves(n)
       PROVE  TurnInv'
  BY <1>0, <1>11, WorkloadEffect
<1>12. ASSUME NEW n \in Nodes, UserUncordons(n)
       PROVE  TurnInv'
  <2>1. job' = job /\ used' = used /\ pass' = pass /\ wright' = wright
        /\ \A m \in Nodes : node'[m].boot = node[m].boot /\ node'[m].of = node[m].of
    BY <1>12, UserUncordonsEffect
  <2> QED
    BY <1>0, <2>1
<1>13. ASSUME NEW w \in Wrights, EditMode(w)
       PROVE  TurnInv'
  <2>1. /\ node' = node /\ job' = job /\ pass' = pass /\ pass.pc = "idle"
        /\ used'.kept = used.kept /\ used.resumed \subseteq used'.resumed
        /\ wright[w].mode = "disable" => w \in used'.resumed
        /\ \A v \in Wrights \ {w} : wright'[v] = wright[v]
        /\ wright'[w].deleting = wright[w].deleting /\ wright'[w].gone = wright[w].gone
        /\ wright'[w].boots = wright[w].boots
    BY <1>13, EditModeEffect
  <2>2. NoNewJob
    BY <2>1 DEF NoNewJob, Applies, Present
  <2>3. OnlyLeaving
    BY <2>1 DEF OnlyLeaving, StandsAside
  <2>4. RunGoesOn
    BY <2>1 DEF RunGoesOn
  <2> QED
    BY <2>1, <2>2, <2>3, <2>4, TurnFrame
<1>14. ASSUME NEW w \in Wrights, Delete(w)
       PROVE  TurnInv'
  <2>1. /\ node' = node /\ job' = job /\ pass' = pass /\ pass.pc = "idle"
        /\ used'.kept = used.kept /\ used'.resumed = used.resumed
    BY <1>14, DeleteEffect
  <2>2. \A v \in Wrights : /\ wright'[v].mode = wright[v].mode /\ wright'[v].boots = wright[v].boots
                           /\ wright[v].gone => wright'[v].gone
                           /\ wright[v].deleting => wright'[v].deleting
    BY <1>14, DeleteEffect
  <2> QED
    BY <1>0, <2>1, <2>2
<1>15. ASSUME NEW w \in Wrights, NEW n \in Nodes, JobFinishes(w, n)
       PROVE  TurnInv'
  <2>1. /\ node' = node /\ wright' = wright /\ pass' = pass /\ used' = used
        /\ job'[n][w].phase = "finished"
        /\ \A m \in Nodes, v \in Wrights : m # n \/ v # w => job'[m][v] = job[m][v]
    BY <1>15, JobFinishesEffect
  <2>2. NoNewJob
    BY <2>1 DEF NoNewJob, Applies, Present
  <2>3. OnlyLeaving
    BY <2>1 DEF OnlyLeaving, StandsAside
  <2>4. RunGoesOn
    BY <2>1 DEF RunGoesOn
  <2> QED
    BY <2>1, <2>2, <2>3, <2>4, TurnFrame
<1>16. ASSUME NEW w \in Wrights, NEW n \in Nodes, DrainTimeoutPasses(w, n)
       PROVE  TurnInv'
  <2>1. /\ wright' = wright /\ job' = job /\ used' = used /\ pass' = pass
    BY <1>16, DrainTimeoutEffect
  <2>2. \A m \in Nodes, v \in Wrights :
          node'[m].boot = node[m].boot /\ node'[m].of[v].entry = node[m].of[v].entry
    BY <1>16, DrainTimeoutEffect DEF Marked
  <2> QED
    BY <1>0, <2>1, <2>2
<1>17. CASE UNCHANGED vars
  BY <1>0, <1>17 DEF vars
<1> QED
  BY <1>1, <1>2, <1>3, <1>4, <1>5, <1>6, <1>7, <1>8, <1>9, <1>10, <1>11, <1>12, <1>13, <1>14, <1>15,
     <1>16, <1>17, TurnReboot, TurnTrackReboot, TurnUpdateIds, TurnProcess, TurnRunPackages, TurnSave,
     TurnRecorded DEF Next, Reconcile, Environment

\* At the start there is no Job.
LEMMA TurnInit == Init => TurnInv
<1> SUFFICES ASSUME Init, NEW n \in Nodes, NEW v \in Wrights, NEW w \in Wrights
             PROVE  TurnPoint(n, v, w)
  BY DEF TurnInv
<1>1. pass.pc = "idle" /\ node[n].of[v].entry = "none" /\ ~Applies(n, v) /\ ~Applies(n, w)
  BY DEF Init, IdlePass, NewNode, NoMarks, NoJob, Applies
<1> QED
  BY <1>1 DEF TurnPoint, IdleWhenDone, BootsAgree, Passed, ReadyAhead, NotAgain, Apart, Counts

\* Two NodeWrights never apply their packages on a node at the same time, but for the
\* two exceptions the property names: IsNodeReadyForSkyhook sees every NodeWright before
\* this one complete, nothing but an uninstall takes that back in the same boot, and a
\* reboot resets the later ones, too.
THEOREM OneAfterAnother == Spec => []OneAtATime
<1>1. Spec => [](CordonInv /\ BootInv /\ TurnInv)
  BY TypeInvariant, CordonInit, CordonStep, BootInit, BootStep, TurnInit, TurnStep, PTL DEF Spec
<1>2. TurnInv => OneAtATime
  BY DEF TurnInv, TurnPoint, Apart, Counts, StandsAside, OneAtATime
<1> QED
  BY <1>1, <1>2, PTL
=============================================================================
