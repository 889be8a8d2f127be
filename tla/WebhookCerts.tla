---------------------------- MODULE WebhookCerts ----------------------------
(***************************************************************************)
(* The serving certificate of the admission webhooks: the Secret, the copy *)
(* on each pod's disk, the caBundle of the two webhook configurations, and *)
(* the bootstrap lease that says which pod may write them.                 *)
(*                                                                         *)
(* A release names one webhook Service.  A pod is started to serve one     *)
(* Service for its whole life, so a release that renames it runs beside a  *)
(* pod of the release before until its own pod is ready.  Time is left     *)
(* out: a delay ends at some moment, a certificate is fresh or about to    *)
(* expire.                                                                 *)
(***************************************************************************)
EXTENDS Naturals, FiniteSets

CONSTANTS
  Pods, ServiceOf, \* the pods that can exist and WEBHOOK_SERVICE_NAME of each
  Legacy,          \* legacyWebhookServiceName: every certificate also covers it
  MaxReleases,     \* bound: helm upgrades, rollbacks and re-applied configurations,
  MaxFaults        \* crashes, failed writes, lost leases, ageing certificates and reconciles
                   \* that outrun the certificate watcher of their own pod, together

Services == {ServiceOf[p] : p \in Pods}
Kinds == {"validating", "mutating"}

ASSUME CertsAssumption ==
  /\ IsFiniteSet(Pods) /\ Legacy \in Services
  /\ MaxReleases \in Nat /\ MaxFaults \in Nat

VARIABLES
  target,  \* the Service the current release names
  conf,    \* the webhook configurations: the Service they dial, their caBundle
  secret,  \* the certificate in Secret/webhook-cert
  aged,    \* is it within certRotationThreshold of its expiry?
  alive,   \* the running pods
  disk,    \* the certificate in the certDir of each pod
  due,     \* pods whose SecretCertWatcher has not handled the last event of the Secret
  lease,   \* the holder of the bootstrap lease
  mgr,     \* the bootstrap manager of each pod
  ctl,     \* WebhookController of each pod
  used

vars == <<target, conf, secret, aged, alive, disk, due, lease, mgr, ctl, used>>

-----------------------------------------------------------------------------
(* Certificates. *)

\* A certificate is known by a number, which stands for its bytes, and the Service it
\* was minted for.  Numbers are reused once no copy is left.
MaxCopies == 3 * Cardinality(Pods) + 3
Certs == [id : 1..MaxCopies, svc : Services]
None == [id |-> 0, svc |-> "none"]
MaybeCert == Certs \cup {None}

Covers(c, svc) == svc \in {c.svc, Legacy}

IdleCtl == [pc |-> "idle", kind |-> "validating", queued |-> FALSE, daily |-> FALSE, cert |-> None, current |-> FALSE,
            superseded |-> "no", relinquished |-> FALSE, start |-> "done", created |-> None]

InUse == {secret.id} \cup {conf[k].ca.id : k \in Kinds} \cup {disk[p].id : p \in Pods}
         \cup {ctl[p].cert.id : p \in Pods} \cup {ctl[p].created.id : p \in Pods}
generateCert(p) == [id |-> CHOOSE i \in 1..MaxCopies : i \notin InUse, svc |-> ServiceOf[p]]

-----------------------------------------------------------------------------
(* What the controller asks of the objects it reads. *)

dialsThisOperator(p, c) == c.svc = ServiceOf[p]
supersedingService(p) == \E k \in Kinds : conf[k].svc # ServiceOf[p]

\* WebhookSecretReadyzCheck.
Ready(p) ==
  /\ p \in alive /\ secret # None /\ disk[p] = secret
  /\ \A k \in Kinds : dialsThisOperator(p, conf[k]) /\ conf[k].ca = secret

\* The certificate of the Secret has to be replaced.
MustMint(p) == disk[p] # secret \/ ~Covers(secret, ServiceOf[p]) \/ aged

\* Has the watcher of the pod handled what the Secret holds?
InSync(p) == p \notin due

Leading(p) == mgr[p] = "leading"
Fault == used.faults < MaxFaults /\ used' = [used EXCEPT !.faults = @ + 1]

\* Mutant: the update is sent without the resourceVersion that was read.
WrittenUnlocked(c, pc, k) == [p \in Pods |-> [c[p] EXCEPT !.queued = @ \/ Leading(p)]]

\* A write of an object outdates the copies others hold (their resourceVersion), and the
\* watches of the bootstrap manager enqueue the Secret's key.
Written(c, pc, k) ==
  [p \in Pods |-> [c[p] EXCEPT !.queued = @ \/ Leading(p),
                               !.current = @ /\ ~(c[p].pc = pc /\ c[p].kind = k)]]
SecretWritten(c) == Written(c, "update", "validating")
ConfigurationWritten(c, k) == Written(c, "write", k)

Process(p) ==
  /\ disk' = [disk EXCEPT ![p] = None]          \* ensureDummyCert
  /\ ctl' = [ctl EXCEPT ![p] = IdleCtl]
  /\ lease' = lease \ {p}

Init ==
  /\ target = Legacy
  /\ conf = [k \in Kinds |-> [svc |-> Legacy, ca |-> None]]
  /\ secret = None /\ aged = FALSE
  /\ alive = {p \in Pods : ServiceOf[p] = Legacy}
  /\ disk = [p \in Pods |-> None] /\ due = {}
  /\ lease = {}
  /\ mgr = [p \in Pods |-> IF p \in alive THEN "contending" ELSE "down"]
  /\ ctl = [p \in Pods |-> IdleCtl]
  /\ used = [releases |-> 0, faults |-> 0]

-----------------------------------------------------------------------------
(* The release and its Deployment.  External: helm and Kubernetes. *)

HelmRelease(s) ==
  /\ s # target /\ used.releases < MaxReleases
  /\ target' = s
  /\ used' = [used EXCEPT !.releases = @ + 1]
  /\ UNCHANGED <<conf, secret, aged, alive, disk, due, lease, mgr, ctl>>

\* Helm applies one object after another, and its manifest has no caBundle.
HelmApply(k) ==
  /\ \/ conf[k].svc # target /\ UNCHANGED used
     \/ /\ conf[k].svc = target /\ used.releases < MaxReleases
        /\ used' = [used EXCEPT !.releases = @ + 1]
  /\ conf' = [conf EXCEPT ![k] = [svc |-> target, ca |-> None]]
  /\ ctl' = ConfigurationWritten(ctl, k)
  /\ UNCHANGED <<target, secret, aged, alive, disk, due, lease, mgr>>

StartPod(p) ==
  /\ ServiceOf[p] = target /\ p \notin alive
  /\ alive' = alive \cup {p}
  /\ due' = IF secret = None THEN due ELSE due \cup {p}
  /\ mgr' = [mgr EXCEPT ![p] = "contending"]
  /\ Process(p)
  /\ UNCHANGED <<target, conf, secret, aged, used>>

\* The rolling update removes a pod of another release once one of this release is ready.
StopPod(p) ==
  /\ ServiceOf[p] # target /\ p \in alive
  /\ \E q \in Pods : ServiceOf[q] = target /\ Ready(q)
  /\ alive' = alive \ {p}
  /\ due' = due \ {p}
  /\ mgr' = [mgr EXCEPT ![p] = "down"]
  /\ Process(p)
  /\ UNCHANGED <<target, conf, secret, aged, used>>

Restart(p) ==
  /\ p \in alive
  /\ due' = IF secret = None THEN due ELSE due \cup {p}
  /\ mgr' = [mgr EXCEPT ![p] = "contending"]
  /\ Process(p)
  /\ UNCHANGED <<target, conf, secret, aged, alive>>

Crash(p) == Restart(p) /\ Fault

\* A holder that cannot renew its lease loses it, and learns so later; its process
\* then exits (runWebhookBootstrap returns the manager's error).
LoseLease(p) ==
  /\ lease = {p} /\ Fault
  /\ lease' = {}
  /\ UNCHANGED <<target, conf, secret, aged, alive, disk, due, mgr, ctl>>

LeaseLost(p) == Leading(p) /\ lease # {p} /\ Restart(p) /\ UNCHANGED used

ComeToExpire ==
  /\ secret # None /\ ~aged /\ Fault
  /\ aged' = TRUE
  /\ UNCHANGED <<target, conf, secret, alive, disk, due, lease, mgr, ctl>>

-----------------------------------------------------------------------------
(* SecretCertWatcher, on every pod. *)

\* The informer may lag behind the API server; what it would write of an older Secret is
\* what this step writes before the Secret changes.
syncSecretToDisk(p) ==
  /\ p \in due
  /\ disk' = [disk EXCEPT ![p] = secret]
  /\ due' = due \ {p}
  /\ UNCHANGED <<target, conf, secret, aged, alive, lease, mgr, ctl, used>>

-----------------------------------------------------------------------------
(* runWebhookBootstrap: the manager that holds the lease. *)

\* The first lists of the new manager's watches enqueue the key; Start runs beside them.
Acquire(p) ==
  /\ mgr[p] = "contending" /\ lease = {}
  /\ lease' = {p}
  /\ mgr' = [mgr EXCEPT ![p] = "leading"]
  /\ ctl' = [ctl EXCEPT ![p] = [ctl[p] EXCEPT !.queued = TRUE, !.start = "get"]]
  /\ UNCHANGED <<target, conf, secret, aged, alive, disk, due, used>>

\* Mutant: the signal that is left in the channel is not drained.
StandAsideUndrained(p) ==
  /\ Leading(p) /\ ctl[p].relinquished
  /\ mgr' = [mgr EXCEPT ![p] = "aside"]
  /\ lease' = lease \ {p}
  /\ ctl' = [ctl EXCEPT ![p] = [IdleCtl EXCEPT !.superseded = ctl[p].superseded, !.relinquished = TRUE]]
  /\ UNCHANGED <<target, conf, secret, aged, alive, disk, due, used>>

StandAside(p) ==
  /\ Leading(p) /\ ctl[p].relinquished
  /\ mgr' = [mgr EXCEPT ![p] = "aside"]
  /\ lease' = lease \ {p}
  /\ ctl' = [ctl EXCEPT ![p] = [IdleCtl EXCEPT !.superseded = ctl[p].superseded]]
  /\ UNCHANGED <<target, conf, secret, aged, alive, disk, due, used>>

\* webhookBootstrapRecontendDelay is longer than a lease lives, so a pod that contends
\* meanwhile has won it.
Recontend(p) ==
  /\ mgr[p] = "aside"
  /\ lease # {} \/ \A q \in Pods : mgr[q] # "contending"
  /\ mgr' = [mgr EXCEPT ![p] = "contending"]
  /\ UNCHANGED <<target, conf, secret, aged, alive, disk, due, lease, ctl, used>>

\* Start: create the Secret if there is none, the disk first.
StartGet(p) ==
  /\ Leading(p) /\ ctl[p].start = "get"
  /\ IF secret # None
       THEN ctl' = [ctl EXCEPT ![p] = [ctl[p] EXCEPT !.start = "done"]] /\ UNCHANGED disk
       ELSE /\ ctl' = [ctl EXCEPT ![p] = [ctl[p] EXCEPT !.start = "create", !.created = generateCert(p)]]
            /\ disk' = [disk EXCEPT ![p] = generateCert(p)]
  /\ UNCHANGED <<target, conf, secret, aged, alive, due, lease, mgr, used>>

StartCreate(p) ==
  LET c == [ctl EXCEPT ![p] = [ctl[p] EXCEPT !.start = "done", !.created = None]]
  IN /\ Leading(p) /\ ctl[p].start = "create"
     /\ IF secret = None
          THEN secret' = ctl[p].created /\ aged' = FALSE /\ due' = alive /\ ctl' = SecretWritten(c)
          ELSE ctl' = c /\ UNCHANGED <<secret, aged, due>> \* AlreadyExists is ignored
     /\ UNCHANGED <<target, conf, alive, disk, lease, mgr, used>>

-----------------------------------------------------------------------------
(* WebhookController.Reconcile, one call of the API server at a time. *)

Requeued(c) == [c EXCEPT !.pc = "idle", !.kind = "validating", !.queued = TRUE,
                         !.cert = None, !.current = FALSE]
Finished(c) == [Requeued(c) EXCEPT !.queued = c.queued]

\* Read the Secret; CheckOrUpdateWebhookCertSecret writes a new certificate to the disk
\* before it updates the Secret.
ReconcileSecret(p) ==
  LET c == [ctl[p] EXCEPT !.queued = FALSE]
  IN /\ Leading(p) /\ ctl[p].pc = "idle" /\ ctl[p].queued
     /\ IF InSync(p) THEN UNCHANGED used ELSE Fault
     /\ \/ /\ secret = None                     \* IgnoreNotFound
           /\ ctl' = [ctl EXCEPT ![p] = c] /\ UNCHANGED disk
        \/ /\ secret # None /\ MustMint(p)
           /\ ctl' = [ctl EXCEPT ![p] = [c EXCEPT !.pc = "update", !.current = TRUE, !.cert = generateCert(p)]]
           /\ disk' = [disk EXCEPT ![p] = generateCert(p)]
        \/ /\ secret # None /\ ~MustMint(p)
           /\ ctl' = [ctl EXCEPT ![p] = [c EXCEPT !.pc = "list", !.cert = secret]]
           /\ UNCHANGED disk
     /\ UNCHANGED <<target, conf, secret, aged, alive, due, lease, mgr>>

\* The Update carries the resourceVersion that was read.
UpdateSecret(p) ==
  /\ Leading(p) /\ ctl[p].pc = "update"
  /\ \/ /\ ctl[p].current
        /\ secret' = ctl[p].cert /\ aged' = FALSE /\ due' = alive
        /\ ctl' = SecretWritten([ctl EXCEPT ![p] = [ctl[p] EXCEPT !.pc = "list", !.current = FALSE]])
        /\ UNCHANGED used
     \/ /\ \/ ~ctl[p].current /\ UNCHANGED used
           \/ ctl[p].current /\ Fault
        /\ ctl' = [ctl EXCEPT ![p] = Requeued(ctl[p])]
        /\ UNCHANGED <<secret, aged, due>>
  /\ UNCHANGED <<target, conf, alive, disk, lease, mgr>>

\* What a reconcile that is through with one kind of configuration does next.
AfterKind(c) == IF c.kind = "validating" THEN [c EXCEPT !.pc = "list", !.kind = "mutating", !.current = FALSE]
                ELSE [Finished(c) EXCEPT !.superseded = "no", !.daily = TRUE]

\* Mutant: a pod that owns no configuration retries for ever, its lease in hand.
handleNoOwnedAsError(p, c) == Requeued(c)

\* handleNoOwnedConfigurations.
handleNoOwnedConfigurations(p, c) ==
  CASE ~supersedingService(p)                  -> [Requeued(c) EXCEPT !.superseded = "no"]
    [] supersedingService(p) /\ c.superseded = "no"      -> [Requeued(c) EXCEPT !.superseded = "since"]
    [] supersedingService(p) /\ c.superseded = "since"   -> Requeued(c)
    [] supersedingService(p) /\ c.superseded = "elapsed" -> [Finished(c) EXCEPT !.relinquished = TRUE]

ListConfigurations(p) ==
  LET c == ctl[p]  k == c.kind
  IN /\ Leading(p) /\ c.pc = "list"
     /\ ctl' = [ctl EXCEPT ![p] =
          CASE ~dialsThisOperator(p, conf[k])                       -> handleNoOwnedConfigurations(p, c)
            [] dialsThisOperator(p, conf[k]) /\ conf[k].ca = c.cert -> AfterKind(c)
            [] dialsThisOperator(p, conf[k]) /\ conf[k].ca # c.cert -> [c EXCEPT !.pc = "write", !.current = TRUE]]
     /\ UNCHANGED <<target, conf, secret, aged, alive, disk, due, lease, mgr, used>>

WriteConfiguration(p) ==
  LET c == ctl[p]  k == c.kind
  IN /\ Leading(p) /\ c.pc = "write"
     /\ \/ /\ c.current
           /\ conf' = [conf EXCEPT ![k] = [conf[k] EXCEPT !.ca = c.cert]]
           /\ ctl' = ConfigurationWritten([ctl EXCEPT ![p] = AfterKind(c)], k)
           /\ UNCHANGED used
        \/ /\ \/ ~c.current /\ UNCHANGED used
              \/ c.current /\ Fault
           /\ ctl' = [ctl EXCEPT ![p] = Requeued(c)]
           /\ UNCHANGED conf
     /\ UNCHANGED <<target, secret, aged, alive, disk, due, lease, mgr>>

\* supersededGracePeriod passes.
Grace(p) ==
  /\ ctl[p].superseded = "since"
  /\ ctl' = [ctl EXCEPT ![p] = [ctl[p] EXCEPT !.superseded = "elapsed"]]
  /\ UNCHANGED <<target, conf, secret, aged, alive, disk, due, lease, mgr, used>>

\* The reconcile of 24 hours later; left out where it comes before the certificate ages,
\* so that nothing else is repaired only by it.
Daily(p) ==
  /\ Leading(p) /\ ctl[p].daily /\ aged
  /\ ctl' = [ctl EXCEPT ![p] = [ctl[p] EXCEPT !.daily = FALSE, !.queued = TRUE]]
  /\ UNCHANGED <<target, conf, secret, aged, alive, disk, due, lease, mgr, used>>

-----------------------------------------------------------------------------
Reconcile(p) == ReconcileSecret(p) \/ UpdateSecret(p) \/ ListConfigurations(p) \/ WriteConfiguration(p)
Bootstrap(p) == StandAside(p) \/ StartGet(p) \/ StartCreate(p) \/ LeaseLost(p)

Next ==
  \/ \E s \in Services : HelmRelease(s)
  \/ \E k \in Kinds : HelmApply(k)
  \/ ComeToExpire
  \/ \E p \in Pods :
       \/ StartPod(p) \/ StopPod(p) \/ Crash(p) \/ LoseLease(p)
       \/ syncSecretToDisk(p)
       \/ Acquire(p) \/ Recontend(p) \/ Bootstrap(p) \/ Reconcile(p) \/ Grace(p) \/ Daily(p)

Spec == Init /\ [][Next]_vars

\* Helm and the Deployment finish what they began; informers, managers and reconciles go
\* on; a pod that contends for a free lease is not passed over for ever; delays end.
FairSpec ==
  /\ Spec
  /\ \A k \in Kinds : WF_vars(conf[k].svc # target /\ HelmApply(k))
  /\ \A p \in Pods :
       /\ WF_vars(StartPod(p)) /\ WF_vars(StopPod(p))
       /\ WF_vars(syncSecretToDisk(p))
       /\ SF_vars(Acquire(p)) /\ SF_vars(Recontend(p)) /\ WF_vars(Bootstrap(p)) /\ WF_vars(Reconcile(p))
       /\ WF_vars(Grace(p)) /\ WF_vars(Daily(p))

-----------------------------------------------------------------------------
(* Properties. *)

ConfRecord == [svc : Services, ca : MaybeCert]
CtlRecord == [pc : {"idle", "update", "list", "write"}, kind : Kinds, queued : BOOLEAN, daily : BOOLEAN,
              cert : MaybeCert, current : BOOLEAN, superseded : {"no", "since", "elapsed"},
              relinquished : BOOLEAN, start : {"done", "get", "create"}, created : MaybeCert]

\* A stopped pod has no state, and between managers only the time it was superseded is kept.
Quiet(c) ==
  /\ c.pc = "idle" /\ c.kind = "validating" /\ ~c.queued /\ ~c.daily /\ c.cert = None /\ ~c.current
  /\ ~c.relinquished /\ c.start = "done" /\ c.created = None
PodOK(p) ==
  /\ p \notin alive => mgr[p] = "down" /\ ctl[p].superseded = "no" /\ disk[p] = None
  /\ ~Leading(p) => Quiet(ctl[p])
  /\ ctl[p].cert = None <=> ctl[p].pc = "idle"
  /\ ctl[p].created = None <=> ctl[p].start # "create"

\* Types; and only a pod with a leading manager holds the lease.
TypeOK ==
  /\ target \in Services
  /\ conf \in [Kinds -> ConfRecord]
  /\ secret \in MaybeCert /\ aged \in BOOLEAN
  /\ alive \subseteq Pods /\ due \subseteq alive
  /\ disk \in [Pods -> MaybeCert]
  /\ mgr \in [Pods -> {"down", "contending", "leading", "aside"}] /\ ctl \in [Pods -> CtlRecord]
  /\ lease = {} \/ \E p \in alive : lease = {p} /\ Leading(p)
  /\ \A p \in Pods : PodOK(p)
  /\ used \in [releases : 0..MaxReleases, faults : 0..MaxFaults]

\* A caBundle in a webhook configuration signs a certificate for the Service that
\* configuration dials, whatever release was applied between the list and the update of
\* the controller ("injecting it into a webhook that dials some other Service actively
\* breaks that Service's admission").
CASignsService == \A k \in Kinds : conf[k].ca # None => Covers(conf[k].ca, conf[k].svc)

\* Once releases, faults and renewals end, every configuration carries the authority of
\* the Secret's certificate, which covers the Service dialled and is on the disk of every
\* pod, and only pods of the release are left: nobody waits for a lease whose holder has
\* nothing to write (issue #469, docs/designs/webhook-bootstrap-lease.md).
Settled ==
  /\ alive = {p \in Pods : ServiceOf[p] = target}
  /\ \A p \in alive : Ready(p) /\ Covers(secret, ServiceOf[p])
  /\ ~aged
Converges == <>[]Settled
=============================================================================
