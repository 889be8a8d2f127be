---------------------------- MODULE CertsProofs ----------------------------
(***************************************************************************)
(* No webhook configuration ever carries a caBundle that does not sign for *)
(* the Service it dials, for any number of pods, releases and faults: the  *)
(* lease does not exclude two writers, the resourceVersion of the update   *)
(* does.                                                                   *)
(***************************************************************************)
EXTENDS WebhookCerts, FiniteSetTheorems, TLAPS

\* A certificate that a reconcile has in hand is one for the Service of its own pod.
CertsCover == \A p \in Pods : ctl[p].pc # "idle" => Covers(ctl[p].cert, ServiceOf[p])

\* A configuration that a reconcile is about to update, and that nobody has written since
\* it was listed, still dials the Service of the pod.
ListedIsOurs ==
  \A p \in Pods : ctl[p].pc = "write" /\ ctl[p].current => conf[ctl[p].kind].svc = ServiceOf[p]

IInv == TypeOK /\ CASignsService /\ CertsCover /\ ListedIsOurs

-----------------------------------------------------------------------------
(***************************************************************************)
(* There is always a number for a new certificate.                         *)
(***************************************************************************)
LEMMA ImageBound ==
  ASSUME NEW S, IsFiniteSet(S), NEW f, DOMAIN f = S, f = [x \in S |-> f[x]]
  PROVE  IsFiniteSet({f[x] : x \in S}) /\ Cardinality({f[x] : x \in S}) <= Cardinality(S)
<1>1. f \in Surjection(S, {f[x] : x \in S})
  BY DEF Surjection
<1>2. QED
  BY <1>1, FS_Surjection

LEMMA UnionBound ==
  ASSUME NEW S, NEW T, IsFiniteSet(S), IsFiniteSet(T), NEW m \in Nat, NEW n \in Nat,
         Cardinality(S) <= m, Cardinality(T) <= n
  PROVE  IsFiniteSet(S \cup T) /\ Cardinality(S \cup T) <= m + n
<1>1. /\ IsFiniteSet(S \cup T)
      /\ Cardinality(S \cup T) = Cardinality(S) + Cardinality(T) - Cardinality(S \cap T)
  BY FS_Union
<1>2. IsFiniteSet(S \cap T)
  BY FS_Intersection
<1>3. Cardinality(S) \in Nat /\ Cardinality(T) \in Nat /\ Cardinality(S \cap T) \in Nat
  BY <1>2, FS_CardinalityType
<1>4. QED
  BY <1>1, <1>3

LEMMA NumberLeft ==
  ASSUME NEW S, IsFiniteSet(S), NEW m \in Nat, Cardinality(S) < m
  PROVE  \E i \in 1..m : i \notin S
<1> SUFFICES ASSUME 1..m \subseteq S PROVE FALSE
  OBVIOUS
<1>1. Cardinality(1..m) = m
  BY FS_Interval
<1>2. Cardinality(1..m) <= Cardinality(S)
  BY FS_Subset
<1>3. Cardinality(S) \in Nat
  BY FS_CardinalityType
<1>4. QED
  BY <1>1, <1>2, <1>3

LEMMA ThreeNumbers ==
  ASSUME NEW a, NEW b, NEW c
  PROVE  IsFiniteSet({a, b, c}) /\ Cardinality({a, b, c}) <= 3
<1>1. \A x : IsFiniteSet({x}) /\ Cardinality({x}) <= 1
  <2>1. \A x : IsFiniteSet({x}) /\ Cardinality({x}) = 1
    BY FS_Singleton, Zenon
  <2>2. 1 <= 1
    OBVIOUS
  <2>3. QED
    BY <2>1, <2>2, Zenon
<1>2. IsFiniteSet({b} \cup {c}) /\ Cardinality({b} \cup {c}) <= 1 + 1
  BY <1>1, UnionBound
<1>3. IsFiniteSet({a} \cup ({b} \cup {c})) /\ Cardinality({a} \cup ({b} \cup {c})) <= 1 + (1 + 1)
  <2>1. 1 \in Nat /\ 1 + 1 \in Nat
    OBVIOUS
  <2>2. QED
    BY <1>1, <1>2, <2>1, UnionBound
<1>4. {a, b, c} = {a} \cup ({b} \cup {c})
  OBVIOUS
<1>5. QED
  BY <1>3, <1>4

\* Three numbers, two for every pod and one for every pod but one leave one to spare.
LEMMA Spare ==
  ASSUME NEW A, NEW D, NEW E, NEW F, IsFiniteSet(A), IsFiniteSet(D), IsFiniteSet(E), IsFiniteSet(F),
         Cardinality(A) <= 3, Cardinality(D) <= Cardinality(Pods), Cardinality(E) <= Cardinality(Pods),
         Cardinality(F) < Cardinality(Pods)
  PROVE  \E i \in 1..MaxCopies : i \notin (A \cup D \cup E \cup F)
<1> DEFINE n == Cardinality(Pods)
<1>1. n \in Nat /\ Cardinality(F) \in Nat
  BY CertsAssumption, FS_CardinalityType
<1>2. Cardinality(F) <= n - 1 /\ n - 1 \in Nat
  BY <1>1
<1> HIDE DEF n
<1>3. IsFiniteSet(A \cup D) /\ Cardinality(A \cup D) <= 3 + n
  BY <1>1, UnionBound DEF n
<1>4. IsFiniteSet(A \cup D \cup E) /\ Cardinality(A \cup D \cup E) <= 3 + n + n
  <2>1. 3 + n \in Nat
    BY <1>1
  <2>2. QED
    BY <1>1, <1>3, <2>1, UnionBound DEF n
<1>5. IsFiniteSet(A \cup D \cup E \cup F) /\ Cardinality(A \cup D \cup E \cup F) <= 3 + n + n + (n - 1)
  <2>1. 3 + n + n \in Nat
    BY <1>1
  <2>2. QED
    BY <1>2, <1>4, <2>1, UnionBound
<1>6. MaxCopies = 3 * n + 3
  BY DEF MaxCopies, n
<1>7. Cardinality(A \cup D \cup E \cup F) \in Nat
  BY <1>5, FS_CardinalityType
<1>8. Cardinality(A \cup D \cup E \cup F) < MaxCopies /\ MaxCopies \in Nat
  BY <1>1, <1>5, <1>6, <1>7
<1>9. \E i \in 1..MaxCopies : i \notin (A \cup D \cup E \cup F)
  BY <1>5, <1>8, NumberLeft
<1>10. QED
  BY <1>9

\* A pod that mints a certificate has none in hand at one of the two places it keeps one.
LEMMA Minted ==
  ASSUME TypeOK, NEW p \in Pods, ctl[p].cert = None \/ ctl[p].created = None
  PROVE  generateCert(p) \in Certs /\ generateCert(p).svc = ServiceOf[p] /\ generateCert(p) # None
<1> DEFINE disks == [q \in Pods |-> disk[q].id]
           certs == [q \in Pods |-> ctl[q].cert.id]
           created == [q \in Pods |-> ctl[q].created.id]
           A == {secret.id, conf["validating"].ca.id, conf["mutating"].ca.id}
           D == {disks[q] : q \in Pods}
           C == {certs[q] : q \in Pods}
           R == {created[q] : q \in Pods}
<1>1. IsFiniteSet(Pods) /\ Cardinality(Pods) \in Nat
  BY CertsAssumption, FS_CardinalityType
<1>2. IsFiniteSet(Pods \ {p}) /\ Cardinality(Pods \ {p}) < Cardinality(Pods)
  BY <1>1, FS_RemoveElement, SMTT(30)
<1>3. /\ IsFiniteSet(D) /\ Cardinality(D) <= Cardinality(Pods)
      /\ IsFiniteSet(C) /\ Cardinality(C) <= Cardinality(Pods)
      /\ IsFiniteSet(R) /\ Cardinality(R) <= Cardinality(Pods)
  <2>1. /\ DOMAIN disks = Pods /\ disks = [q \in Pods |-> disks[q]]
        /\ DOMAIN certs = Pods /\ certs = [q \in Pods |-> certs[q]]
        /\ DOMAIN created = Pods /\ created = [q \in Pods |-> created[q]]
    OBVIOUS
  <2> HIDE DEF disks, certs, created
  <2>2. QED
    BY <1>1, <2>1, ImageBound
\* The numbers of p's pods but one, when that one is 0.
<1>4. ASSUME NEW f, f = [q \in Pods |-> f[q]], f[p] = 0
      PROVE  \E F : /\ IsFiniteSet(F) /\ Cardinality(F) < Cardinality(Pods)
                    /\ \A i \in 1..MaxCopies : i \notin F => i \notin {f[q] : q \in Pods}
  <2> DEFINE others == [q \in Pods \ {p} |-> f[q]]
             F == {others[q] : q \in Pods \ {p}}
  <2>1. DOMAIN others = Pods \ {p} /\ others = [q \in Pods \ {p} |-> others[q]]
    OBVIOUS
  <2>2. \A i \in 1..MaxCopies : i \notin F => i \notin {f[q] : q \in Pods}
    BY <1>4
  <2> HIDE DEF others
  <2>3. IsFiniteSet(F) /\ Cardinality(F) <= Cardinality(Pods \ {p})
    BY <1>2, <2>1, ImageBound
  <2>4. Cardinality(F) < Cardinality(Pods)
    BY <1>1, <1>2, <2>3, FS_CardinalityType
  <2> HIDE DEF F
  <2>5. QED
    BY <2>2, <2>3, <2>4 DEF others
<1>5. None.id = 0
  BY DEF None
<1>6. InUse = A \cup D \cup C \cup R
  BY DEF InUse, Kinds
<1>7. IsFiniteSet(A) /\ Cardinality(A) <= 3
  BY ThreeNumbers
<1>8. \E i \in 1..MaxCopies : i \notin InUse
  <2>1. CASE ctl[p].cert = None
    <3>1. certs = [q \in Pods |-> certs[q]] /\ certs[p] = 0
      BY <1>5, <2>1
    <3>2. PICK F : /\ IsFiniteSet(F) /\ Cardinality(F) < Cardinality(Pods)
                   /\ \A i \in 1..MaxCopies : i \notin F => i \notin C
      BY <1>4, <3>1
    <3> HIDE DEF A, D, C, R
    <3>3. PICK i \in 1..MaxCopies : i \notin (A \cup D \cup R \cup F)
      BY <1>3, <1>7, <3>2, Spare
    <3>4. QED
      BY <1>6, <3>2, <3>3
  <2>2. CASE ctl[p].created = None
    <3>1. created = [q \in Pods |-> created[q]] /\ created[p] = 0
      BY <1>5, <2>2
    <3>2. PICK F : /\ IsFiniteSet(F) /\ Cardinality(F) < Cardinality(Pods)
                   /\ \A i \in 1..MaxCopies : i \notin F => i \notin R
      BY <1>4, <3>1
    <3> HIDE DEF A, D, C, R
    <3>3. PICK i \in 1..MaxCopies : i \notin (A \cup D \cup C \cup F)
      BY <1>3, <1>7, <3>2, Spare
    <3>4. QED
      BY <1>6, <3>2, <3>3
  <2>3. QED
    BY <2>1, <2>2
<1>9. PICK i \in 1..MaxCopies : generateCert(p) = [id |-> i, svc |-> ServiceOf[p]]
  BY <1>8 DEF generateCert
<1>10. ServiceOf[p] \in Services
  BY DEF Services
<1>11. QED
  BY <1>9, <1>10 DEF Certs, None

-----------------------------------------------------------------------------
(***************************************************************************)
(* Controllers.                                                            *)
(***************************************************************************)
LEMMA NoneIn == None \in MaybeCert /\ None \notin Certs
BY DEF MaybeCert, None, Certs

LEMMA IdleIsQuiet ==
  /\ IdleCtl \in CtlRecord /\ Quiet(IdleCtl) /\ IdleCtl.superseded = "no"
  /\ \A x \in {"no", "since", "elapsed"} :
       /\ [IdleCtl EXCEPT !.superseded = x] \in CtlRecord
       /\ Quiet([IdleCtl EXCEPT !.superseded = x]) /\ [IdleCtl EXCEPT !.superseded = x].superseded = x
BY NoneIn DEF IdleCtl, CtlRecord, Quiet, Kinds

LEMMA WrittenRecord ==
  ASSUME NEW c \in [Pods -> CtlRecord], NEW pc, NEW k, NEW q \in Pods
  PROVE  LET w == Written(c, pc, k) IN
         /\ w[q] \in CtlRecord
         /\ w[q].pc = c[q].pc /\ w[q].kind = c[q].kind /\ w[q].daily = c[q].daily /\ w[q].cert = c[q].cert
         /\ w[q].superseded = c[q].superseded /\ w[q].relinquished = c[q].relinquished
         /\ w[q].start = c[q].start /\ w[q].created = c[q].created
         /\ w[q].queued => c[q].queued \/ Leading(q)
         /\ w[q].current => c[q].current /\ ~(c[q].pc = pc /\ c[q].kind = k)
<1> DEFINE x == c[q].queued \/ Leading(q)
           y == c[q].current /\ ~(c[q].pc = pc /\ c[q].kind = k)
           w == Written(c, pc, k)
<1>1. c[q] \in CtlRecord /\ x \in BOOLEAN /\ y \in BOOLEAN
  OBVIOUS
<1>2. w[q] = [c[q] EXCEPT !.queued = x, !.current = y]
  BY DEF Written
<1> HIDE DEF w, x, y
<1>3. ASSUME NEW d, d = c[q], NEW v, v = w[q]
      PROVE  /\ v \in CtlRecord
             /\ v.pc = d.pc /\ v.kind = d.kind /\ v.daily = d.daily /\ v.cert = d.cert
             /\ v.superseded = d.superseded /\ v.relinquished = d.relinquished
             /\ v.start = d.start /\ v.created = d.created /\ v.queued = x /\ v.current = y
  <2>1. d \in CtlRecord /\ v = [d EXCEPT !.queued = x, !.current = y]
    BY <1>1, <1>2, <1>3
  <2>2. QED
    BY <1>1, <2>1 DEF CtlRecord
<1>4. QED
  BY <1>3, ZenonT(40) DEF w, x, y

LEMMA WrittenType ==
  ASSUME NEW c \in [Pods -> CtlRecord], NEW pc, NEW k
  PROVE  Written(c, pc, k) \in [Pods -> CtlRecord]
<1> DEFINE w == Written(c, pc, k)
<1>1. \A q \in Pods : w[q] \in CtlRecord
  BY WrittenRecord
<1>2. DOMAIN w = Pods /\ w = [q \in Pods |-> w[q]]
  BY DEF Written
<1> HIDE DEF w
<1>3. w \in [Pods -> CtlRecord]
  BY <1>1, <1>2
<1>4. QED
  BY <1>3 DEF w

LEMMA ReconcileTypes ==
  ASSUME NEW c \in CtlRecord
  PROVE  /\ Requeued(c) \in CtlRecord /\ Finished(c) \in CtlRecord /\ AfterKind(c) \in CtlRecord
         /\ Requeued(c).pc = "idle" /\ Requeued(c).cert = None
         /\ Finished(c).pc = "idle" /\ Finished(c).cert = None
         /\ AfterKind(c).pc \in {"list", "idle"}
         /\ AfterKind(c).pc = "list" => AfterKind(c).cert = c.cert
         /\ AfterKind(c).pc = "idle" => AfterKind(c).cert = None
         /\ \A d \in {Requeued(c), Finished(c), AfterKind(c)} : d.start = c.start /\ d.created = c.created
BY NoneIn DEF Requeued, Finished, AfterKind, CtlRecord, Kinds

LEMMA HandleTypes ==
  ASSUME NEW p \in Pods, NEW c \in CtlRecord
  PROVE  LET d == handleNoOwnedConfigurations(p, c) IN
         /\ d \in CtlRecord /\ d.pc = "idle" /\ d.cert = None /\ d.start = c.start /\ d.created = c.created
<1>1. c.superseded \in {"no", "since", "elapsed"}
  BY DEF CtlRecord
<1>2. handleNoOwnedConfigurations(p, c) \in
        {Requeued(c), [Requeued(c) EXCEPT !.superseded = "no"], [Requeued(c) EXCEPT !.superseded = "since"],
         [Finished(c) EXCEPT !.relinquished = TRUE]}
  BY <1>1 DEF handleNoOwnedConfigurations
<1>3. ASSUME NEW r \in CtlRecord
      PROVE  /\ \A x \in {"no", "since"} :
                  /\ [r EXCEPT !.superseded = x] \in CtlRecord /\ [r EXCEPT !.superseded = x].pc = r.pc
                  /\ [r EXCEPT !.superseded = x].cert = r.cert /\ [r EXCEPT !.superseded = x].start = r.start
                  /\ [r EXCEPT !.superseded = x].created = r.created
             /\ [r EXCEPT !.relinquished = TRUE] \in CtlRecord /\ [r EXCEPT !.relinquished = TRUE].pc = r.pc
             /\ [r EXCEPT !.relinquished = TRUE].cert = r.cert /\ [r EXCEPT !.relinquished = TRUE].start = r.start
             /\ [r EXCEPT !.relinquished = TRUE].created = r.created
  BY DEF CtlRecord
<1> DEFINE good(d) == d \in CtlRecord /\ d.pc = "idle" /\ d.cert = None /\ d.start = c.start /\ d.created = c.created
<1>4. good(Requeued(c)) /\ good(Finished(c))
  BY ReconcileTypes
<1>5. good([Requeued(c) EXCEPT !.superseded = "no"]) /\ good([Requeued(c) EXCEPT !.superseded = "since"])
  <2>1. \A x \in {"no", "since"} : good([Requeued(c) EXCEPT !.superseded = x])
    BY <1>3, <1>4
  <2> HIDE DEF good
  <2>2. QED
    BY <2>1
<1>6. good([Finished(c) EXCEPT !.relinquished = TRUE])
  BY <1>3, <1>4
<1>7. good(handleNoOwnedConfigurations(p, c))
  <2> HIDE DEF good
  <2>1. QED
    BY <1>2, <1>4, <1>5, <1>6
<1>8. QED
  BY <1>7

-----------------------------------------------------------------------------
LEMMA InitIInv == Init => IInv
<1> SUFFICES ASSUME Init PROVE IInv
  OBVIOUS
<1>1. /\ Legacy \in Services /\ MaxReleases \in Nat /\ MaxFaults \in Nat
  BY CertsAssumption
<1>2. conf \in [Kinds -> ConfRecord] /\ \A k \in Kinds : conf[k].ca = None
  BY <1>1, NoneIn DEF Init, ConfRecord
<1>3. mgr \in [Pods -> {"down", "contending", "leading", "aside"}] /\ \A p \in Pods : p \notin alive => mgr[p] = "down"
  BY DEF Init
<1>4. ctl \in [Pods -> CtlRecord] /\ \A p \in Pods : ctl[p] = IdleCtl
  BY IdleIsQuiet DEF Init
<1>5. \A p \in Pods : PodOK(p)
  BY <1>3, <1>4, IdleIsQuiet DEF Init, PodOK, Quiet
<1>6. used \in [releases : 0..MaxReleases, faults : 0..MaxFaults]
  BY <1>1 DEF Init
<1>7. TypeOK
  BY <1>1, <1>2, <1>3, <1>4, <1>5, <1>6, NoneIn DEF Init, TypeOK
<1>8. QED
  BY <1>2, <1>4, <1>7, IdleIsQuiet DEF IInv, CASignsService, CertsCover, ListedIsOurs, Quiet

\* One pod's controller and manager move, and the pod stays what it was for the others.
LEMMA OthersOK ==
  ASSUME TypeOK, NEW p \in Pods, NEW q \in Pods \ {p},
         alive' \cup {p} = alive \cup {p}, mgr'[q] = mgr[q], ctl'[q] = ctl[q], disk'[q] = disk[q]
  PROVE  PodOK(q)'
BY DEF TypeOK, PodOK, Leading

LEMMA FaultType ==
  ASSUME TypeOK, Fault \/ UNCHANGED used
  PROVE  used' \in [releases : 0..MaxReleases, faults : 0..MaxFaults]
BY CertsAssumption DEF TypeOK, Fault

\* A write of an object by whoever it is.
LEMMA WrittenOK ==
  ASSUME TypeOK, NEW c \in [Pods -> CtlRecord], NEW pc, NEW k, NEW q \in Pods,
         ctl' = Written(c, pc, k), UNCHANGED <<alive, mgr, disk>>,
         ~Leading(q) => c[q] = ctl[q],
         c[q].cert = None <=> c[q].pc = "idle", c[q].created = None <=> c[q].start # "create"
  PROVE  PodOK(q)'
<1> DEFINE w == Written(c, pc, k)
<1>1. /\ w[q].pc = c[q].pc /\ w[q].kind = c[q].kind /\ w[q].daily = c[q].daily /\ w[q].cert = c[q].cert
      /\ w[q].superseded = c[q].superseded /\ w[q].relinquished = c[q].relinquished
      /\ w[q].start = c[q].start /\ w[q].created = c[q].created
      /\ w[q].queued => c[q].queued \/ Leading(q)
      /\ w[q].current => c[q].current /\ ~(c[q].pc = pc /\ c[q].kind = k)
  BY WrittenRecord
<1> HIDE DEF w
<1>2. ctl' = w
  BY DEF w
<1>3. Leading(q)' <=> Leading(q)
  BY DEF Leading
<1>4. q \notin alive => mgr[q] = "down" /\ ctl[q].superseded = "no" /\ disk[q] = None
  BY DEF TypeOK, PodOK
<1>5. ~Leading(q) => Quiet(c[q])
  BY DEF TypeOK, PodOK
<1>6. q \notin alive => ~Leading(q)
  BY <1>4 DEF Leading
<1>7. ~Leading(q) => Quiet(w[q])
  BY <1>1, <1>5 DEF Quiet
<1>8. QED
  BY <1>1, <1>2, <1>3, <1>4, <1>6, <1>7 DEF PodOK

LEMMA TypeStep == TypeOK /\ [Next]_vars => TypeOK'
<1> SUFFICES ASSUME TypeOK, [Next]_vars PROVE TypeOK'
  OBVIOUS
<1> USE NoneIn
<1>0. \A p \in Pods : PodOK(p) /\ ctl[p] \in CtlRecord /\ (Leading(p) => p \in alive)
  BY DEF TypeOK, PodOK, Leading
<1>1. ASSUME NEW s \in Services, HelmRelease(s) PROVE TypeOK'
  <2>1. used' \in [releases : 0..MaxReleases, faults : 0..MaxFaults]
    BY <1>1, CertsAssumption DEF TypeOK, HelmRelease
  <2>2. QED
    BY <1>1, <2>1 DEF TypeOK, HelmRelease, PodOK, Leading
<1>2. ASSUME NEW k \in Kinds, HelmApply(k) PROVE TypeOK'
  <2>1. used' \in [releases : 0..MaxReleases, faults : 0..MaxFaults]
    BY <1>2, CertsAssumption DEF TypeOK, HelmApply
  <2>2. conf' \in [Kinds -> ConfRecord]
    BY <1>2 DEF TypeOK, HelmApply, ConfRecord
  <2>3. ctl' = Written(ctl, "write", k) /\ ctl \in [Pods -> CtlRecord]
    BY <1>2 DEF TypeOK, HelmApply, ConfigurationWritten
  <2>4. \A p \in Pods : PodOK(p)'
    BY <1>0, <1>2, <2>3, WrittenOK DEF HelmApply, PodOK
  <2>5. ctl' \in [Pods -> CtlRecord]
    BY <2>3, WrittenType DEF TypeOK
  <2>6. QED
    BY <1>2, <2>1, <2>2, <2>4, <2>5 DEF TypeOK, HelmApply, Leading
<1>3. CASE ComeToExpire
  <2>1. used' \in [releases : 0..MaxReleases, faults : 0..MaxFaults]
    BY <1>3, FaultType DEF ComeToExpire
  <2>2. QED
    BY <1>3, <2>1 DEF TypeOK, ComeToExpire, PodOK, Leading
\* A process that starts or stops.
<1>4. ASSUME NEW p \in Pods, Process(p), UNCHANGED <<target, conf, secret, aged>>,
             alive' \in {alive, alive \cup {p}, alive \ {p}}, due' \subseteq alive',
             mgr' = [mgr EXCEPT ![p] = IF p \in alive' THEN "contending" ELSE "down"],
             used' \in [releases : 0..MaxReleases, faults : 0..MaxFaults]
      PROVE  TypeOK'
  <2>1. ctl' \in [Pods -> CtlRecord] /\ ctl'[p] = IdleCtl /\ \A q \in Pods \ {p} : ctl'[q] = ctl[q]
    BY <1>4, IdleIsQuiet DEF TypeOK, Process
  <2>2. disk' \in [Pods -> MaybeCert] /\ disk'[p] = None /\ \A q \in Pods \ {p} : disk'[q] = disk[q]
    BY <1>4 DEF TypeOK, Process
  <2>3. /\ mgr' \in [Pods -> {"down", "contending", "leading", "aside"}]
        /\ mgr'[p] = (IF p \in alive' THEN "contending" ELSE "down") /\ \A q \in Pods \ {p} : mgr'[q] = mgr[q]
    BY <1>4 DEF TypeOK
  <2>4. alive' \cup {p} = alive \cup {p}
    BY <1>4
  <2>5. \A q \in Pods \ {p} : PodOK(q)'
    BY <2>1, <2>2, <2>3, <2>4, OthersOK
  <2>6. PodOK(p)'
    BY <2>1, <2>2, <2>3, IdleIsQuiet DEF PodOK, Quiet
  <2>7. lease' = {} \/ \E q \in alive' : lease' = {q} /\ Leading(q)'
    BY <1>4, <2>3, <2>4 DEF TypeOK, Process, Leading
  <2>8. QED
    BY <1>4, <2>1, <2>2, <2>3, <2>5, <2>6, <2>7 DEF TypeOK
<1>5. ASSUME NEW p \in Pods, StartPod(p) PROVE TypeOK'
  <2>1. due' \subseteq alive'
    BY <1>5 DEF TypeOK, StartPod
  <2>2. QED
    BY <1>4, <1>5, <2>1 DEF StartPod, TypeOK
<1>6. ASSUME NEW p \in Pods, StopPod(p) PROVE TypeOK'
  <2>1. due' \subseteq alive'
    BY <1>6 DEF TypeOK, StopPod
  <2>2. QED
    BY <1>4, <1>6, <2>1 DEF StopPod, TypeOK
<1>7. ASSUME NEW p \in Pods, Restart(p), Fault \/ UNCHANGED used PROVE TypeOK'
  <2>1. due' \subseteq alive' /\ p \in alive'
    BY <1>7 DEF TypeOK, Restart
  <2>2. QED
    BY <1>4, <1>7, <2>1, FaultType DEF Restart
<1>8. ASSUME NEW p \in Pods, LoseLease(p) PROVE TypeOK'
  <2>1. used' \in [releases : 0..MaxReleases, faults : 0..MaxFaults]
    BY <1>8, FaultType DEF LoseLease
  <2>2. QED
    BY <1>8, <2>1 DEF TypeOK, LoseLease, PodOK, Leading
<1>9. ASSUME NEW p \in Pods, syncSecretToDisk(p) PROVE TypeOK'
  <2>1. disk' \in [Pods -> MaybeCert] /\ p \in alive /\ \A q \in Pods \ {p} : disk'[q] = disk[q]
    BY <1>9 DEF TypeOK, syncSecretToDisk
  <2>2. \A q \in Pods : PodOK(q)'
    BY <1>0, <1>9, <2>1 DEF syncSecretToDisk, PodOK, Leading
  <2>3. QED
    BY <1>9, <2>1, <2>2 DEF TypeOK, syncSecretToDisk, Leading
\* The controller of a pod moves, its manager leading before or after.
<1>10. ASSUME NEW p \in Pods, NEW c \in CtlRecord, p \in alive, ctl' = [ctl EXCEPT ![p] = c],
              c.cert = None <=> c.pc = "idle", c.created = None <=> c.start # "create",
              Leading(p)' \/ Quiet(c),
              mgr' \in [Pods -> {"down", "contending", "leading", "aside"}], \A q \in Pods \ {p} : mgr'[q] = mgr[q],
              disk' \in [Pods -> MaybeCert], \A q \in Pods \ {p} : disk'[q] = disk[q],
              lease' = {} \/ \E q \in alive : lease' = {q} /\ Leading(q)',
              UNCHANGED <<target, conf, secret, aged, alive, due>>,
              used' \in [releases : 0..MaxReleases, faults : 0..MaxFaults]
       PROVE  TypeOK'
  <2>1. ctl' \in [Pods -> CtlRecord] /\ ctl'[p] = c /\ \A q \in Pods \ {p} : ctl'[q] = ctl[q]
    BY <1>10 DEF TypeOK
  <2>2. \A q \in Pods \ {p} : PodOK(q)'
    BY <1>10, <2>1, OthersOK
  <2>3. PodOK(p)'
    BY <1>10, <2>1 DEF PodOK
  <2>4. QED
    BY <1>10, <2>1, <2>2, <2>3 DEF TypeOK
<1>11. used \in [releases : 0..MaxReleases, faults : 0..MaxFaults] /\ disk \in [Pods -> MaybeCert]
       /\ mgr \in [Pods -> {"down", "contending", "leading", "aside"}]
       /\ (lease = {} \/ \E q \in alive : lease = {q} /\ Leading(q))
  BY DEF TypeOK
<1>12. ASSUME NEW p \in Pods, Acquire(p) PROVE TypeOK'
  <2> DEFINE c == [ctl[p] EXCEPT !.queued = TRUE, !.start = "get"]
  <2>1. p \in alive /\ ~Leading(p)
    BY <1>0, <1>12 DEF Acquire, PodOK, Leading
  <2>2. Quiet(ctl[p])
    BY <1>0, <2>1 DEF PodOK
  <2>3. c \in CtlRecord /\ c.cert = None /\ c.pc = "idle" /\ c.created = None /\ c.start = "get"
    BY <1>0, <2>2 DEF Quiet, CtlRecord
  <2>4. ctl' = [ctl EXCEPT ![p] = c]
    BY <1>12 DEF Acquire
  <2>5. /\ mgr' \in [Pods -> {"down", "contending", "leading", "aside"}] /\ Leading(p)'
        /\ \A q \in Pods \ {p} : mgr'[q] = mgr[q]
    BY <1>11, <1>12 DEF Acquire, Leading
  <2> HIDE DEF c
  <2>6. QED
    BY <1>10, <1>11, <1>12, <2>1, <2>3, <2>4, <2>5 DEF Acquire
<1>13. ASSUME NEW p \in Pods, Recontend(p) PROVE TypeOK'
  <2>1. p \in alive /\ ~Leading(p)
    BY <1>0, <1>13 DEF Recontend, PodOK, Leading
  <2>2. /\ mgr' \in [Pods -> {"down", "contending", "leading", "aside"}] /\ ~Leading(p)'
        /\ \A q \in Pods \ {p} : mgr'[q] = mgr[q]
    BY <1>11, <1>13 DEF Recontend, Leading
  <2>3. \A q \in Pods : PodOK(q)'
    BY <1>0, <1>13, <2>1, <2>2 DEF Recontend, PodOK, Leading
  <2>4. QED
    BY <1>13, <2>1, <2>2, <2>3 DEF TypeOK, Recontend, Leading
<1>14. ASSUME NEW p \in Pods, StandAside(p) PROVE TypeOK'
  <2> DEFINE c == [IdleCtl EXCEPT !.superseded = ctl[p].superseded]
  <2>1. p \in alive /\ ctl[p].superseded \in {"no", "since", "elapsed"}
    BY <1>0, <1>14 DEF StandAside, CtlRecord
  <2>2. c \in CtlRecord /\ Quiet(c)
    BY <2>1, IdleIsQuiet
  <2>3. ctl' = [ctl EXCEPT ![p] = c]
    BY <1>14 DEF StandAside
  <2>4. /\ mgr' \in [Pods -> {"down", "contending", "leading", "aside"}] /\ \A q \in Pods \ {p} : mgr'[q] = mgr[q]
    BY <1>11, <1>14 DEF StandAside
  <2>5. lease' = {} \/ \E q \in alive : lease' = {q} /\ Leading(q)'
    BY <1>11, <1>14, <2>4 DEF StandAside, Leading
  <2> HIDE DEF c
  <2>6. QED
    BY <1>10, <1>11, <1>14, <2>1, <2>2, <2>3, <2>4, <2>5 DEF StandAside, Quiet
\* Steps of a leading pod that leave managers and leases alone.
<1>15. ASSUME NEW p \in Pods, NEW c \in CtlRecord, Leading(p), ctl' = [ctl EXCEPT ![p] = c],
              c.cert = None <=> c.pc = "idle", c.created = None <=> c.start # "create",
              disk' = disk \/ \E m \in MaybeCert : disk' = [disk EXCEPT ![p] = m],
              UNCHANGED <<target, conf, secret, aged, alive, due, lease, mgr>>, Fault \/ UNCHANGED used
       PROVE  TypeOK'
  <2>1. disk' \in [Pods -> MaybeCert] /\ \A q \in Pods \ {p} : disk'[q] = disk[q]
    BY <1>11, <1>15
  <2>2. used' \in [releases : 0..MaxReleases, faults : 0..MaxFaults]
    BY <1>15, FaultType
  <2>3. \A q \in Pods : Leading(q)' <=> Leading(q)
    BY <1>15 DEF Leading
  <2>4. p \in alive
    BY <1>0, <1>15
  <2>5. lease' = {} \/ \E q \in alive : lease' = {q} /\ Leading(q)'
    BY <1>11, <1>15, <2>3 DEF TypeOK
  <2>6. QED
    BY <1>10, <1>11, <1>15, <2>1, <2>2, <2>3, <2>4, <2>5
<1>16. ASSUME NEW p \in Pods, StartGet(p) PROVE TypeOK'
  <2>1. ctl[p] \in CtlRecord /\ ctl[p].start = "get" /\ ctl[p].created = None
    BY <1>0, <1>16 DEF StartGet, PodOK
  <2>2. CASE secret # None
    <3> DEFINE c == [ctl[p] EXCEPT !.start = "done"]
    <3>1. c \in CtlRecord /\ c.cert = ctl[p].cert /\ c.pc = ctl[p].pc /\ c.created = None /\ c.start = "done"
      BY <2>1 DEF CtlRecord
    <3>2. ctl' = [ctl EXCEPT ![p] = c]
      BY <1>16, <2>2 DEF StartGet
    <3> HIDE DEF c
    <3>3. QED
      BY <1>0, <1>15, <1>16, <2>2, <3>1, <3>2, ZenonT(40) DEF StartGet, PodOK
  <2>3. CASE secret = None
    <3> DEFINE c == [ctl[p] EXCEPT !.start = "create", !.created = generateCert(p)]
    <3>1. generateCert(p) \in MaybeCert /\ generateCert(p) # None
      BY <2>1, Minted DEF MaybeCert
    <3>2. c \in CtlRecord /\ c.cert = ctl[p].cert /\ c.pc = ctl[p].pc /\ c.created # None /\ c.start = "create"
      BY <2>1, <3>1 DEF CtlRecord
    <3>3. ctl' = [ctl EXCEPT ![p] = c] /\ disk' = [disk EXCEPT ![p] = generateCert(p)]
      BY <1>16, <2>3 DEF StartGet
    <3> HIDE DEF c
    <3>4. QED
      BY <1>0, <1>15, <1>16, <3>1, <3>2, <3>3, ZenonT(40) DEF StartGet, PodOK
  <2>4. QED
    BY <2>2, <2>3
\* Writes of a leading pod, which outdate the copies of the others.
<1>17. ASSUME NEW p \in Pods, NEW c \in CtlRecord, Leading(p), NEW pc, NEW k,
              ctl' = Written([ctl EXCEPT ![p] = c], pc, k),
              c.cert = None <=> c.pc = "idle", c.created = None <=> c.start # "create",
              conf' \in [Kinds -> ConfRecord], secret' \in MaybeCert, aged' \in BOOLEAN, due' \subseteq alive,
              UNCHANGED <<target, alive, disk, lease, mgr, used>>
       PROVE  TypeOK'
  <2> DEFINE d == [ctl EXCEPT ![p] = c]
  <2>1. d \in [Pods -> CtlRecord] /\ d[p] = c /\ \A q \in Pods \ {p} : d[q] = ctl[q]
    BY <1>17 DEF TypeOK
  <2>2. ctl' = Written(d, pc, k)
    BY <1>17
  <2> HIDE DEF d
  <2>3. ctl' \in [Pods -> CtlRecord]
    BY <2>1, <2>2, WrittenType
  <2>4. ASSUME NEW q \in Pods PROVE PodOK(q)'
    <3>1. /\ ~Leading(q) => d[q] = ctl[q]
          /\ d[q].cert = None <=> d[q].pc = "idle"
          /\ d[q].created = None <=> d[q].start # "create"
      <4>1. CASE q = p
        BY <1>17, <2>1, <4>1
      <4>2. CASE q # p
        BY <1>0, <2>1, <4>2 DEF PodOK
      <4>3. QED
        BY <4>1, <4>2
    <3>2. QED
      BY <1>17, <2>1, <2>2, <3>1, WrittenOK
  <2>5. \A q \in Pods : Leading(q)' <=> Leading(q)
    BY <1>17 DEF Leading
  <2>6. lease' = {} \/ \E q \in alive' : lease' = {q} /\ Leading(q)'
    BY <1>11, <1>17, <2>5 DEF TypeOK
  <2>7. QED
    BY <1>17, <2>3, <2>4, <2>6 DEF TypeOK
<1>18. ASSUME NEW p \in Pods, StartCreate(p) PROVE TypeOK'
  <2> DEFINE c == [ctl[p] EXCEPT !.start = "done", !.created = None]
  <2>1. c \in CtlRecord /\ c.cert = ctl[p].cert /\ c.pc = ctl[p].pc /\ c.created = None /\ c.start = "done"
    BY <1>0 DEF CtlRecord
  <2>2. ctl[p].created \in MaybeCert
    BY <1>0 DEF CtlRecord
  <2>3. c.cert = None <=> c.pc = "idle"
    BY <1>0, <2>1 DEF PodOK
  <2>4. CASE secret = None
    <3>1. ctl' = Written([ctl EXCEPT ![p] = c], "update", "validating")
      BY <1>18, <2>4 DEF StartCreate, SecretWritten
    <3> HIDE DEF c
    <3>2. QED
      BY <1>17, <1>18, <2>1, <2>2, <2>3, <2>4, <3>1 DEF StartCreate, TypeOK
  <2>5. CASE secret # None
    <3>1. ctl' = [ctl EXCEPT ![p] = c]
      BY <1>18, <2>5 DEF StartCreate
    <3> HIDE DEF c
    <3>2. QED
      BY <1>15, <1>18, <2>1, <2>3, <2>5, <3>1 DEF StartCreate
  <2>6. QED
    BY <2>4, <2>5
<1>19. ASSUME NEW p \in Pods, ReconcileSecret(p) PROVE TypeOK'
  <2> DEFINE c == [ctl[p] EXCEPT !.queued = FALSE]
  <2>1. /\ c \in CtlRecord /\ c.cert = ctl[p].cert /\ c.pc = ctl[p].pc
        /\ c.created = ctl[p].created /\ c.start = ctl[p].start
    BY <1>0 DEF CtlRecord
  <2>2. /\ ctl[p].pc = "idle" /\ ctl[p].cert = None /\ (c.created = None <=> c.start # "create")
        /\ Leading(p) /\ (Fault \/ UNCHANGED used)
    BY <1>0, <1>19, <2>1 DEF ReconcileSecret, PodOK
  <2>3. generateCert(p) \in MaybeCert /\ generateCert(p) # None
    BY <2>2, Minted DEF MaybeCert
  <2>4. \/ ctl' = [ctl EXCEPT ![p] = c] /\ UNCHANGED disk
        \/ /\ ctl' = [ctl EXCEPT ![p] = [c EXCEPT !.pc = "update", !.current = TRUE, !.cert = generateCert(p)]]
           /\ disk' = [disk EXCEPT ![p] = generateCert(p)]
        \/ secret # None /\ ctl' = [ctl EXCEPT ![p] = [c EXCEPT !.pc = "list", !.cert = secret]] /\ UNCHANGED disk
    BY <1>19 DEF ReconcileSecret
  <2>5. UNCHANGED <<target, conf, secret, aged, alive, due, lease, mgr>>
    BY <1>19 DEF ReconcileSecret
  <2> HIDE DEF c
  <2>6. CASE ctl' = [ctl EXCEPT ![p] = c] /\ UNCHANGED disk
    BY <1>15, <2>1, <2>2, <2>5, <2>6
  <2>7. CASE /\ ctl' = [ctl EXCEPT ![p] = [c EXCEPT !.pc = "update", !.current = TRUE, !.cert = generateCert(p)]]
             /\ disk' = [disk EXCEPT ![p] = generateCert(p)]
    <3> DEFINE d == [c EXCEPT !.pc = "update", !.current = TRUE, !.cert = generateCert(p)]
    <3>1. d \in CtlRecord /\ d.pc = "update" /\ d.cert # None /\ d.created = c.created /\ d.start = c.start
      BY <2>1, <2>3 DEF CtlRecord
    <3>2. ctl' = [ctl EXCEPT ![p] = d] /\ disk' = [disk EXCEPT ![p] = generateCert(p)]
      BY <2>7
    <3> HIDE DEF d
    <3>3. QED
      BY <1>15, <2>2, <2>3, <2>5, <3>1, <3>2
  <2>8. CASE secret # None /\ ctl' = [ctl EXCEPT ![p] = [c EXCEPT !.pc = "list", !.cert = secret]] /\ UNCHANGED disk
    <3> DEFINE d == [c EXCEPT !.pc = "list", !.cert = secret]
    <3>1. d \in CtlRecord /\ d.pc = "list" /\ d.cert # None /\ d.created = c.created /\ d.start = c.start
      BY <2>1, <2>8 DEF CtlRecord, TypeOK
    <3>2. ctl' = [ctl EXCEPT ![p] = d]
      BY <2>8
    <3> HIDE DEF d
    <3>3. QED
      BY <1>15, <2>2, <2>5, <2>8, <3>1, <3>2
  <2>9. QED
    BY <2>4, <2>6, <2>7, <2>8
\* Where a reconcile ends, or fails.
<1>20. ASSUME NEW p \in Pods
       PROVE  LET c == ctl[p] IN
              /\ c \in CtlRecord
              /\ c.cert = None <=> c.pc = "idle"
              /\ c.created = None <=> c.start # "create"
              /\ \A d \in {Requeued(c), Finished(c), AfterKind(c), handleNoOwnedConfigurations(p, c)} :
                   /\ d \in CtlRecord
                   /\ d.start = c.start /\ d.created = c.created
              /\ Requeued(c).pc = "idle" /\ Requeued(c).cert = None
              /\ handleNoOwnedConfigurations(p, c).pc = "idle" /\ handleNoOwnedConfigurations(p, c).cert = None
              /\ c.pc # "idle" => (AfterKind(c).cert = None <=> AfterKind(c).pc = "idle")
  <2>1. /\ ctl[p] \in CtlRecord
        /\ ctl[p].cert = None <=> ctl[p].pc = "idle"
        /\ ctl[p].created = None <=> ctl[p].start # "create"
    BY <1>0 DEF PodOK
  <2>2. QED
    BY <2>1, ReconcileTypes, HandleTypes
<1>21. ASSUME NEW p \in Pods, UpdateSecret(p) PROVE TypeOK'
  <2> DEFINE c == [ctl[p] EXCEPT !.pc = "list", !.current = FALSE]
  <2>1. ctl[p] \in CtlRecord /\ ctl[p].pc = "update" /\ Leading(p)
    BY <1>20, <1>21 DEF UpdateSecret
  <2>2. ctl[p].cert # None /\ ctl[p].cert \in MaybeCert
    BY <1>20, <2>1 DEF CtlRecord
  <2>3. /\ c \in CtlRecord /\ c.pc = "list" /\ c.cert = ctl[p].cert
        /\ c.created = ctl[p].created /\ c.start = ctl[p].start
    BY <2>1 DEF CtlRecord
  <2>4. \/ /\ secret' = ctl[p].cert /\ aged' = FALSE /\ due' = alive
           /\ ctl' = Written([ctl EXCEPT ![p] = c], "update", "validating") /\ UNCHANGED used
        \/ /\ ctl' = [ctl EXCEPT ![p] = Requeued(ctl[p])] /\ UNCHANGED <<secret, aged, due>>
           /\ (Fault \/ UNCHANGED used)
    BY <1>21 DEF UpdateSecret, SecretWritten
  <2>5. UNCHANGED <<target, conf, alive, disk, lease, mgr>>
    BY <1>21 DEF UpdateSecret
  <2> HIDE DEF c
  <2>6. CASE /\ secret' = ctl[p].cert /\ aged' = FALSE /\ due' = alive
             /\ ctl' = Written([ctl EXCEPT ![p] = c], "update", "validating") /\ UNCHANGED used
    <3>1. conf' \in [Kinds -> ConfRecord] /\ secret' \in MaybeCert /\ aged' \in BOOLEAN /\ due' \subseteq alive
      BY <2>2, <2>5, <2>6 DEF TypeOK
    <3>2. c.created = None <=> c.start # "create"
      BY <1>20, <2>3
    <3>3. QED
      BY <1>17, <2>1, <2>2, <2>3, <2>5, <2>6, <3>1, <3>2
  <2>7. CASE /\ ctl' = [ctl EXCEPT ![p] = Requeued(ctl[p])] /\ UNCHANGED <<secret, aged, due>>
             /\ (Fault \/ UNCHANGED used)
    BY <1>15, <1>20, <2>1, <2>5, <2>7
  <2>8. QED
    BY <2>4, <2>6, <2>7
<1>22. ASSUME NEW p \in Pods, ListConfigurations(p) PROVE TypeOK'
  <2> DEFINE c == [ctl[p] EXCEPT !.pc = "write", !.current = TRUE]
  <2>1. ctl[p] \in CtlRecord /\ ctl[p].pc = "list" /\ ctl[p].cert # None /\ Leading(p)
    BY <1>20, <1>22 DEF ListConfigurations
  <2>2. /\ c \in CtlRecord /\ c.pc = "write" /\ c.cert = ctl[p].cert
        /\ c.created = ctl[p].created /\ c.start = ctl[p].start
    BY <2>1 DEF CtlRecord
  <2>3. \E d \in {c, AfterKind(ctl[p]), handleNoOwnedConfigurations(p, ctl[p])} : ctl' = [ctl EXCEPT ![p] = d]
    BY <1>22 DEF ListConfigurations
  <2>4. UNCHANGED <<target, conf, secret, aged, alive, disk, due, lease, mgr, used>>
    BY <1>22 DEF ListConfigurations
  <2> HIDE DEF c
  <2>5. ASSUME NEW d \in {c, AfterKind(ctl[p]), handleNoOwnedConfigurations(p, ctl[p])}
        PROVE  /\ d \in CtlRecord
               /\ d.cert = None <=> d.pc = "idle"
               /\ d.created = None <=> d.start # "create"
    BY <1>20, <2>1, <2>2
  <2>6. QED
    BY <1>15, <2>1, <2>3, <2>4, <2>5
<1>23. ASSUME NEW p \in Pods, WriteConfiguration(p) PROVE TypeOK'
  <2> DEFINE c == ctl[p]  k == c.kind
  <2>1. c \in CtlRecord /\ c.pc = "write" /\ c.cert # None /\ Leading(p) /\ k \in Kinds /\ c.cert \in MaybeCert
    <3>1. c \in CtlRecord /\ c.pc = "write" /\ c.cert # None /\ Leading(p)
      BY <1>20, <1>23 DEF WriteConfiguration
    <3>2. QED
      BY <3>1 DEF CtlRecord
  <2>2. \/ /\ conf' = [conf EXCEPT ![k] = [conf[k] EXCEPT !.ca = c.cert]]
           /\ ctl' = Written([ctl EXCEPT ![p] = AfterKind(c)], "write", k) /\ UNCHANGED used
        \/ /\ ctl' = [ctl EXCEPT ![p] = Requeued(c)] /\ UNCHANGED conf
           /\ (Fault \/ UNCHANGED used)
    BY <1>23 DEF WriteConfiguration, ConfigurationWritten
  <2>3. UNCHANGED <<target, secret, aged, alive, disk, due, lease, mgr>>
    BY <1>23 DEF WriteConfiguration
  <2>4. CASE /\ conf' = [conf EXCEPT ![k] = [conf[k] EXCEPT !.ca = c.cert]]
             /\ ctl' = Written([ctl EXCEPT ![p] = AfterKind(c)], "write", k) /\ UNCHANGED used
    <3>1. conf' \in [Kinds -> ConfRecord]
      BY <2>1, <2>4 DEF TypeOK, ConfRecord
    <3>2. secret' \in MaybeCert /\ aged' \in BOOLEAN /\ due' \subseteq alive
      BY <2>3 DEF TypeOK
    <3>3. /\ AfterKind(c) \in CtlRecord
          /\ AfterKind(c).cert = None <=> AfterKind(c).pc = "idle"
          /\ AfterKind(c).created = None <=> AfterKind(c).start # "create"
      BY <1>20, <2>1
    <3>4. QED
      BY <1>17, <2>1, <2>3, <2>4, <3>1, <3>2, <3>3
  <2>5. CASE /\ ctl' = [ctl EXCEPT ![p] = Requeued(c)] /\ UNCHANGED conf
             /\ (Fault \/ UNCHANGED used)
    BY <1>15, <1>20, <2>1, <2>3, <2>5
  <2>6. QED
    BY <2>2, <2>4, <2>5
<1>24. ASSUME NEW p \in Pods, Grace(p) PROVE TypeOK'
  <2> DEFINE c == [ctl[p] EXCEPT !.superseded = "elapsed"]
  <2>1. ctl[p] \in CtlRecord /\ p \in alive /\ (Leading(p) \/ Quiet(ctl[p]))
    BY <1>0, <1>24 DEF Grace, PodOK
  <2>2. /\ c \in CtlRecord /\ (Quiet(ctl[p]) => Quiet(c)) /\ c.pc = ctl[p].pc /\ c.cert = ctl[p].cert
        /\ c.created = ctl[p].created /\ c.start = ctl[p].start
    BY <2>1 DEF CtlRecord, Quiet
  <2>3. ctl' = [ctl EXCEPT ![p] = c] /\ UNCHANGED <<target, conf, secret, aged, alive, disk, due, lease, mgr, used>>
    BY <1>24 DEF Grace
  <2> HIDE DEF c
  <2>4. \A q \in Pods : Leading(q)' <=> Leading(q)
    BY <2>3 DEF Leading
  <2>5. /\ c.cert = None <=> c.pc = "idle"
        /\ c.created = None <=> c.start # "create"
        /\ Leading(p)' \/ Quiet(c)
    BY <1>20, <2>1, <2>2, <2>4
  <2>6. lease' = {} \/ \E q \in alive : lease' = {q} /\ Leading(q)'
    BY <1>11, <2>3, <2>4 DEF TypeOK
  <2>7. QED
    BY <1>10, <1>11, <2>1, <2>2, <2>3, <2>5, <2>6
<1>25. ASSUME NEW p \in Pods, Daily(p) PROVE TypeOK'
  <2> DEFINE c == [ctl[p] EXCEPT !.daily = FALSE, !.queued = TRUE]
  <2>1. ctl[p] \in CtlRecord /\ Leading(p)
    BY <1>0, <1>25 DEF Daily
  <2>2. /\ c \in CtlRecord /\ c.pc = ctl[p].pc /\ c.cert = ctl[p].cert
        /\ c.created = ctl[p].created /\ c.start = ctl[p].start
    BY <2>1 DEF CtlRecord
  <2>3. ctl' = [ctl EXCEPT ![p] = c] /\ UNCHANGED <<target, conf, secret, aged, alive, disk, due, lease, mgr, used>>
    BY <1>25 DEF Daily
  <2> HIDE DEF c
  <2>4. QED
    BY <1>15, <1>20, <2>1, <2>2, <2>3
<1>26. CASE UNCHANGED vars
  BY <1>26 DEF vars, TypeOK, PodOK, Leading
<1>27. QED
  BY <1>1, <1>2, <1>3, <1>5, <1>6, <1>7, <1>8, <1>9, <1>12, <1>13, <1>14, <1>16, <1>18, <1>19, <1>21, <1>22,
     <1>23, <1>24, <1>25, <1>26 DEF Next, Crash, LeaseLost, Bootstrap, Reconcile

\* In every interleaving of pods, releases, crashes and lost leases the controllers' state
\* is well formed: the lease is held by a leading manager or by nobody, a pod whose manager
\* does not lead has no reconcile under way (runWebhookBootstrap, relinquish), and a new
\* certificate can always be told apart from every copy that is left.
THEOREM CertsTyped == Spec => []TypeOK
<1>1. Init => TypeOK
  BY InitIInv DEF IInv
<1>2. QED
  BY <1>1, TypeStep, PTL DEF Spec

-----------------------------------------------------------------------------
(***************************************************************************)
(* The caBundle.                                                           *)
(***************************************************************************)
\* What the invariant says of one controller.
Honest(p, c, cf) ==
  /\ c.pc # "idle" => Covers(c.cert, ServiceOf[p])
  /\ c.pc = "write" /\ c.current => cf[c.kind].svc = ServiceOf[p]

LEMMA StepInv == IInv /\ [Next]_vars => IInv'
<1> SUFFICES ASSUME IInv, [Next]_vars PROVE IInv'
  OBVIOUS
<1> DEFINE Goal == CASignsService' /\ CertsCover' /\ ListedIsOurs'
<1>1. TypeOK /\ TypeOK' /\ CASignsService /\ ctl \in [Pods -> CtlRecord] /\ conf \in [Kinds -> ConfRecord]
  BY TypeStep DEF IInv, TypeOK
<1>2. \A p \in Pods : ctl[p] \in CtlRecord /\ Honest(p, ctl[p], conf)
  BY <1>1 DEF IInv, CertsCover, ListedIsOurs, Honest
<1>3. ASSUME CASignsService', \A p \in Pods : Honest(p, ctl'[p], conf') PROVE Goal
  BY <1>3 DEF CertsCover, ListedIsOurs, Honest
<1>4. ASSUME UNCHANGED conf PROVE CASignsService'
  BY <1>1, <1>4 DEF CASignsService
<1>5. ASSUME UNCHANGED <<conf, ctl>> PROVE Goal
  BY <1>2, <1>3, <1>4, <1>5
\* One controller moves.
<1>6. ASSUME NEW p \in Pods, NEW c, Honest(p, c, conf), ctl' = [ctl EXCEPT ![p] = c], UNCHANGED conf PROVE Goal
  <2>1. ctl'[p] = c /\ \A q \in Pods \ {p} : ctl'[q] = ctl[q]
    BY <1>1, <1>6
  <2>2. \A q \in Pods : Honest(q, ctl'[q], conf')
    BY <1>2, <1>6, <2>1
  <2>3. QED
    BY <1>3, <1>4, <1>6, <2>2
\* An object is written.
<1>7. ASSUME NEW d \in [Pods -> CtlRecord], \A q \in Pods : Honest(q, d[q], conf), NEW pc, NEW k \in Kinds,
             ctl' = Written(d, pc, k), CASignsService',
             \A j \in Kinds : conf'[j] = conf[j] \/ (pc = "write" /\ j = k)
      PROVE  Goal
  <2>1. ASSUME NEW q \in Pods PROVE Honest(q, ctl'[q], conf')
    <3> DEFINE w == ctl'[q]
    <3>1. /\ w.pc = d[q].pc /\ w.kind = d[q].kind /\ w.cert = d[q].cert
          /\ w.current => d[q].current /\ ~(d[q].pc = pc /\ d[q].kind = k)
      BY <1>7, WrittenRecord
    <3>2. d[q].kind \in Kinds /\ Honest(q, d[q], conf)
      BY <1>7 DEF CtlRecord
    <3> HIDE DEF w
    <3>3. w.pc = "write" /\ w.current => conf'[w.kind] = conf[w.kind]
      BY <1>7, <3>1, <3>2
    <3>4. Honest(q, w, conf')
      BY <3>1, <3>2, <3>3 DEF Honest
    <3>5. QED
      BY <3>4 DEF w
  <2>2. QED
    BY <1>3, <1>7, <2>1
\* A controller moves, its reconcile does not.
<1>8. ASSUME NEW p \in Pods, NEW c, ctl' = [ctl EXCEPT ![p] = c], UNCHANGED conf,
             c.pc = ctl[p].pc /\ c.cert = ctl[p].cert /\ c.current = ctl[p].current /\ c.kind = ctl[p].kind
      PROVE  Goal
  <2>1. Honest(p, c, conf)
    BY <1>2, <1>8 DEF Honest
  <2>2. QED
    BY <1>6, <1>8, <2>1
<1>9. ASSUME NEW k \in Kinds, HelmApply(k) PROVE Goal
  <2>1. ctl' = Written(ctl, "write", k)
    BY <1>9 DEF HelmApply, ConfigurationWritten
  <2>2. conf'[k].ca = None /\ \A j \in Kinds \ {k} : conf'[j] = conf[j]
    BY <1>1, <1>9 DEF HelmApply
  <2>3. CASignsService'
    BY <1>1, <2>2 DEF CASignsService
  <2>4. QED
    BY <1>1, <1>2, <1>7, <2>1, <2>2, <2>3
<1>10. ASSUME NEW p \in Pods, Process(p), UNCHANGED conf PROVE Goal
  <2>1. Honest(p, IdleCtl, conf)
    BY DEF Honest, IdleCtl
  <2>2. QED
    BY <1>6, <1>10, <2>1 DEF Process
<1>11. ASSUME NEW p \in Pods, Acquire(p) \/ StartGet(p) \/ Grace(p) \/ Daily(p) PROVE Goal
  <2>1. ctl[p] \in CtlRecord
    BY <1>2
  <2>2. CASE Acquire(p)
    <3> DEFINE c == [ctl[p] EXCEPT !.queued = TRUE, !.start = "get"]
    <3>1. c.pc = ctl[p].pc /\ c.cert = ctl[p].cert /\ c.current = ctl[p].current /\ c.kind = ctl[p].kind
      BY <2>1 DEF CtlRecord
    <3>2. ctl' = [ctl EXCEPT ![p] = c] /\ UNCHANGED conf
      BY <2>2 DEF Acquire
    <3> HIDE DEF c
    <3>3. QED
      BY <1>8, <3>1, <3>2
  <2>3. CASE StartGet(p) /\ secret # None
    <3> DEFINE c == [ctl[p] EXCEPT !.start = "done"]
    <3>1. c.pc = ctl[p].pc /\ c.cert = ctl[p].cert /\ c.current = ctl[p].current /\ c.kind = ctl[p].kind
      BY <2>1 DEF CtlRecord
    <3>2. ctl' = [ctl EXCEPT ![p] = c] /\ UNCHANGED conf
      BY <2>3 DEF StartGet
    <3> HIDE DEF c
    <3>3. QED
      BY <1>8, <3>1, <3>2
  <2>4. CASE StartGet(p) /\ secret = None
    <3> DEFINE c == [ctl[p] EXCEPT !.start = "create", !.created = generateCert(p)]
    <3>1. c.pc = ctl[p].pc /\ c.cert = ctl[p].cert /\ c.current = ctl[p].current /\ c.kind = ctl[p].kind
      BY <2>1 DEF CtlRecord
    <3>2. ctl' = [ctl EXCEPT ![p] = c] /\ UNCHANGED conf
      BY <2>4 DEF StartGet
    <3> HIDE DEF c
    <3>3. QED
      BY <1>8, <3>1, <3>2
  <2>5. CASE Grace(p)
    <3> DEFINE c == [ctl[p] EXCEPT !.superseded = "elapsed"]
    <3>1. c.pc = ctl[p].pc /\ c.cert = ctl[p].cert /\ c.current = ctl[p].current /\ c.kind = ctl[p].kind
      BY <2>1 DEF CtlRecord
    <3>2. ctl' = [ctl EXCEPT ![p] = c] /\ UNCHANGED conf
      BY <2>5 DEF Grace
    <3> HIDE DEF c
    <3>3. QED
      BY <1>8, <3>1, <3>2
  <2>6. CASE Daily(p)
    <3> DEFINE c == [ctl[p] EXCEPT !.daily = FALSE, !.queued = TRUE]
    <3>1. c.pc = ctl[p].pc /\ c.cert = ctl[p].cert /\ c.current = ctl[p].current /\ c.kind = ctl[p].kind
      BY <2>1 DEF CtlRecord
    <3>2. ctl' = [ctl EXCEPT ![p] = c] /\ UNCHANGED conf
      BY <2>6 DEF Daily
    <3> HIDE DEF c
    <3>3. QED
      BY <1>8, <3>1, <3>2
  <2>7. QED
    BY <1>11, <2>2, <2>3, <2>4, <2>5, <2>6
<1>12. ASSUME NEW p \in Pods, StandAside(p) PROVE Goal
  <2> DEFINE c == [IdleCtl EXCEPT !.superseded = ctl[p].superseded]
  <2>1. c.pc = "idle"
    BY DEF IdleCtl
  <2>2. ctl' = [ctl EXCEPT ![p] = c] /\ UNCHANGED conf
    BY <1>12 DEF StandAside
  <2> HIDE DEF c
  <2>3. QED
    BY <1>6, <2>1, <2>2 DEF Honest
\* A write of the Secret.
<1>13. ASSUME NEW p \in Pods, NEW c \in CtlRecord, Honest(p, c, conf), UNCHANGED conf,
              ctl' = Written([ctl EXCEPT ![p] = c], "update", "validating")
       PROVE  Goal
  <2> DEFINE d == [ctl EXCEPT ![p] = c]
  <2>1. d \in [Pods -> CtlRecord] /\ d[p] = c /\ \A q \in Pods \ {p} : d[q] = ctl[q]
    BY <1>1
  <2>2. ctl' = Written(d, "update", "validating")
    BY <1>13
  <2> HIDE DEF d
  <2>3. \A q \in Pods : Honest(q, d[q], conf)
    BY <1>2, <1>13, <2>1
  <2>4. "validating" \in Kinds /\ \A j \in Kinds : conf'[j] = conf[j]
    BY <1>13 DEF Kinds
  <2>5. QED
    BY <1>4, <1>7, <1>13, <2>1, <2>2, <2>3, <2>4
<1>14. ASSUME NEW p \in Pods, StartCreate(p) PROVE Goal
  <2> DEFINE c == [ctl[p] EXCEPT !.start = "done", !.created = None]
  <2>1. /\ c \in CtlRecord /\ c.pc = ctl[p].pc /\ c.cert = ctl[p].cert
        /\ c.current = ctl[p].current /\ c.kind = ctl[p].kind
    BY <1>2, NoneIn DEF CtlRecord
  <2>2. \/ ctl' = Written([ctl EXCEPT ![p] = c], "update", "validating")
        \/ ctl' = [ctl EXCEPT ![p] = c]
    BY <1>14 DEF StartCreate, SecretWritten
  <2>3. UNCHANGED conf
    BY <1>14 DEF StartCreate
  <2> HIDE DEF c
  <2>4. Honest(p, c, conf)
    BY <1>2, <2>1 DEF Honest
  <2>5. QED
    BY <1>6, <1>13, <2>1, <2>2, <2>3, <2>4
<1>15. ASSUME NEW p \in Pods, ReconcileSecret(p) PROVE Goal
  <2> DEFINE c == [ctl[p] EXCEPT !.queued = FALSE]
             u == [c EXCEPT !.pc = "update", !.current = TRUE, !.cert = generateCert(p)]
             l == [c EXCEPT !.pc = "list", !.cert = secret]
  <2>1. ctl[p] \in CtlRecord /\ ctl[p].pc = "idle" /\ UNCHANGED conf
    BY <1>2, <1>15 DEF ReconcileSecret
  <2>2. /\ c.pc = "idle" /\ u.pc = "update" /\ u.cert = generateCert(p)
        /\ l.pc = "list" /\ l.cert = secret
    BY <2>1 DEF CtlRecord
  <2>3. generateCert(p).svc = ServiceOf[p]
    BY DEF generateCert
  <2>4. \/ ctl' = [ctl EXCEPT ![p] = c]
        \/ ctl' = [ctl EXCEPT ![p] = u]
        \/ ctl' = [ctl EXCEPT ![p] = l] /\ ~MustMint(p)
    BY <1>15 DEF ReconcileSecret
  <2> HIDE DEF c, u, l
  <2>5. Honest(p, c, conf) /\ Honest(p, u, conf)
    BY <2>2, <2>3 DEF Honest, Covers
  <2>6. ~MustMint(p) => Honest(p, l, conf)
    BY <2>2 DEF MustMint, Honest
  <2>7. QED
    BY <1>6, <2>1, <2>4, <2>5, <2>6
<1>16. ASSUME NEW p \in Pods, UpdateSecret(p) PROVE Goal
  <2> DEFINE c == [ctl[p] EXCEPT !.pc = "list", !.current = FALSE]
  <2>1. ctl[p] \in CtlRecord /\ ctl[p].pc = "update" /\ UNCHANGED conf /\ Covers(ctl[p].cert, ServiceOf[p])
    BY <1>2, <1>16 DEF UpdateSecret, Honest
  <2>2. c \in CtlRecord /\ c.pc = "list" /\ c.cert = ctl[p].cert
    BY <2>1 DEF CtlRecord
  <2>3. \/ ctl' = Written([ctl EXCEPT ![p] = c], "update", "validating")
        \/ ctl' = [ctl EXCEPT ![p] = Requeued(ctl[p])]
    BY <1>16 DEF UpdateSecret, SecretWritten
  <2> HIDE DEF c
  <2>4. Honest(p, c, conf) /\ Honest(p, Requeued(ctl[p]), conf)
    BY <2>1, <2>2, ReconcileTypes DEF Honest
  <2>5. QED
    BY <1>6, <1>13, <2>1, <2>2, <2>3, <2>4
<1>17. ASSUME NEW p \in Pods, ctl[p].pc # "idle"
       PROVE  Honest(p, AfterKind(ctl[p]), conf) /\ Honest(p, handleNoOwnedConfigurations(p, ctl[p]), conf)
  <2>1. ctl[p] \in CtlRecord /\ Covers(ctl[p].cert, ServiceOf[p])
    BY <1>2, <1>17 DEF Honest
  <2>2. QED
    BY <2>1, ReconcileTypes, HandleTypes DEF Honest
<1>18. ASSUME NEW p \in Pods, ListConfigurations(p) PROVE Goal
  <2> DEFINE c == [ctl[p] EXCEPT !.pc = "write", !.current = TRUE]
  <2>1. ctl[p] \in CtlRecord /\ ctl[p].pc = "list" /\ UNCHANGED conf /\ Covers(ctl[p].cert, ServiceOf[p])
    BY <1>2, <1>18 DEF ListConfigurations, Honest
  <2>2. c.pc = "write" /\ c.cert = ctl[p].cert /\ c.kind = ctl[p].kind
    BY <2>1 DEF CtlRecord
  <2>3. \/ ctl' = [ctl EXCEPT ![p] = AfterKind(ctl[p])]
        \/ ctl' = [ctl EXCEPT ![p] = handleNoOwnedConfigurations(p, ctl[p])]
        \/ ctl' = [ctl EXCEPT ![p] = c] /\ dialsThisOperator(p, conf[ctl[p].kind])
    BY <1>18 DEF ListConfigurations
  <2> HIDE DEF c
  <2>4. dialsThisOperator(p, conf[ctl[p].kind]) => Honest(p, c, conf)
    BY <2>1, <2>2 DEF Honest, dialsThisOperator
  <2>5. QED
    BY <1>6, <1>17, <2>1, <2>3, <2>4
<1>19. ASSUME NEW p \in Pods, WriteConfiguration(p) PROVE Goal
  <2> DEFINE c == ctl[p]  k == c.kind
  <2>1. c \in CtlRecord /\ c.pc = "write" /\ Covers(c.cert, ServiceOf[p]) /\ Honest(p, c, conf)
    BY <1>2, <1>19 DEF WriteConfiguration, Honest
  <2>2. \/ /\ c.current /\ conf' = [conf EXCEPT ![k] = [conf[k] EXCEPT !.ca = c.cert]]
           /\ ctl' = Written([ctl EXCEPT ![p] = AfterKind(c)], "write", k)
        \/ ctl' = [ctl EXCEPT ![p] = Requeued(c)] /\ UNCHANGED conf
    BY <1>19 DEF WriteConfiguration, ConfigurationWritten
  <2>3. CASE /\ c.current /\ conf' = [conf EXCEPT ![k] = [conf[k] EXCEPT !.ca = c.cert]]
             /\ ctl' = Written([ctl EXCEPT ![p] = AfterKind(c)], "write", k)
    <3> DEFINE d == [ctl EXCEPT ![p] = AfterKind(c)]
    <3>1. k \in Kinds /\ conf[k].svc = ServiceOf[p] /\ conf[k] \in ConfRecord
      BY <1>1, <2>1, <2>3 DEF Honest, CtlRecord
    <3>2. conf'[k].ca = c.cert /\ conf'[k].svc = conf[k].svc /\ \A j \in Kinds \ {k} : conf'[j] = conf[j]
      BY <1>1, <2>3, <3>1 DEF ConfRecord
    <3>3. CASignsService'
      BY <1>1, <2>1, <3>1, <3>2 DEF CASignsService
    <3>4. d \in [Pods -> CtlRecord] /\ d[p] = AfterKind(c) /\ \A q \in Pods \ {p} : d[q] = ctl[q]
      BY <1>1, <2>1, ReconcileTypes
    <3>5. Honest(p, AfterKind(c), conf)
      BY <1>17, <2>1
    <3>6. ctl' = Written(d, "write", k)
      BY <2>3
    <3> HIDE DEF d
    <3>7. \A q \in Pods : Honest(q, d[q], conf)
      BY <1>2, <3>4, <3>5
    <3>8. QED
      BY <1>7, <3>1, <3>2, <3>3, <3>4, <3>6, <3>7
  <2>4. CASE ctl' = [ctl EXCEPT ![p] = Requeued(c)] /\ UNCHANGED conf
    <3>1. Honest(p, Requeued(c), conf)
      BY <2>1, ReconcileTypes DEF Honest
    <3>2. QED
      BY <1>6, <2>4, <3>1
  <2>5. QED
    BY <2>2, <2>3, <2>4
<1>20. ASSUME NEW p \in Pods, StartPod(p) \/ StopPod(p) \/ Restart(p) PROVE Goal
  BY <1>10, <1>20 DEF StartPod, StopPod, Restart
<1>21. ASSUME NEW p \in Pods, LoseLease(p) \/ syncSecretToDisk(p) \/ Recontend(p) PROVE Goal
  BY <1>5, <1>21 DEF LoseLease, syncSecretToDisk, Recontend
<1>22. ASSUME ComeToExpire \/ (\E s \in Services : HelmRelease(s)) \/ UNCHANGED vars PROVE Goal
  BY <1>5, <1>22 DEF ComeToExpire, HelmRelease, vars
<1> HIDE DEF Goal
<1>23. Goal
  BY <1>9, <1>11, <1>12, <1>14, <1>15, <1>16, <1>18, <1>19, <1>20, <1>21, <1>22
     DEF Next, Crash, LeaseLost, Bootstrap, Reconcile
<1>24. QED
  BY <1>1, <1>23 DEF IInv, Goal

\* A caBundle always signs for the Service its configuration dials, for any number of pods,
\* releases, crashes and lost leases (ensureValidatingWebhookConfiguration and
\* ensureMutatingWebhookConfiguration write only what dialsThisOperator accepted): two pods
\* that both believe they lead do not break it, since the update carries the
\* resourceVersion of the configuration that was listed.
THEOREM CASignsAlways == Spec => []CASignsService
<1>1. IInv => CASignsService
  BY DEF IInv
<1>2. QED
  BY <1>1, InitIInv, StepInv, PTL DEF Spec

=============================================================================
