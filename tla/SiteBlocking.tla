---------------------------- MODULE SiteBlocking ----------------------------
(***************************************************************************)
(* How many replicas the server Deployment of a site has: its namespace    *)
(* may be blocked, its quality of service may change                       *)
(* (getDeploymentConfiguration), and both are applied to the Deployment    *)
(* only where the update workflow lets them (ensureDrupalDeployment,       *)
(* ensureUpdatedDeployment, rollBackCodeUpdate).                           *)
(*                                                                         *)
(* Here a reconciliation is one action, named for the step at which it     *)
(* ends: the caches are taken to be current, SiteUpdate has the rest.  The *)
(* site is installed and its database provisioned.                         *)
(***************************************************************************)
EXTENDS Integers

CONSTANTS
    Releases,  \* release identifiers
    UpdbFrom,  \* UpdbFrom[r]: the schemas from which release r has updates
    Faults     \* the faults that may happen

ASSUME BlockingAssumption ==
    /\ UpdbFrom \in [Releases -> SUBSET Releases]
    /\ Faults \subseteq {"slow",  \* a pod is pending after the grace period
                         "updb"}  \* the database update fails

\* blocked.webservices.cern.ch/blocked-timestamp and .../reason
BlockAnnotations == {"timestamp", "reason"}

QoSClasses == {"critical", "standard"}

ReplicaCounts == {0, 1, 3}

DrupalSite == [ver        : Releases,
               current    : Releases,
               failsafe   : Releases,
               ready      : BOOLEAN,
               codeFailed : BOOLEAN,
               dbFailed   : BOOLEAN,
               uip        : BOOLEAN,
               qos        : QoSClasses,
               expected   : ReplicaCounts]

Deployment == [release : Releases, replicas : ReplicaCounts]

VARIABLES
    ns,      \* the block annotations of the namespace
    cr,      \* the DrupalSite
    deploy,  \* the Deployment: annotation releaseID and replicas
    pod,     \* phase of the pods of each release
    schema   \* the release whose schema the database has

vars == <<ns, cr, deploy, pod, schema>>

TypeOK ==
    /\ ns \subseteq BlockAnnotations
    /\ cr \in DrupalSite
    /\ deploy \in Deployment
    /\ pod \in [Releases -> {"none", "pending", "late", "ready"}]
    /\ schema \in Releases

\* A site that serves a release, in a namespace that is not blocked.
Init ==
    /\ ns = {}
    /\ \E r \in Releases :
         /\ cr = [ver |-> r, current |-> r, failsafe |-> r, ready |-> TRUE,
                  codeFailed |-> FALSE, dbFailed |-> FALSE, uip |-> FALSE,
                  qos |-> "standard", expected |-> 1]
         /\ deploy = [release |-> r, replicas |-> 1]
         /\ pod = [s \in Releases |-> IF s = r THEN "ready" ELSE "none"]
         /\ schema = r

-----------------------------------------------------------------------------
(* What a reconciliation computes.                                         *)

HalfBlocked == ns # {} /\ ns # BlockAnnotations

ReplicasWithSpare ==           \* faulty: a spare replica
    IF ns = BlockAnnotations THEN 0 ELSE IF cr.qos = "critical" THEN 3 ELSE 2

Replicas == IF ns = BlockAnnotations THEN 0
            ELSE IF cr.qos = "critical" THEN 3 ELSE 1

Target == [release |-> cr.ver, replicas |-> Replicas]

SiteReady == \E r \in Releases : pod[r] = "ready"

BackAtFailsafe == cr.failsafe = cr.ver

ObservedCodeOnly ==            \* faulty: a failed database update stays
    [cr EXCEPT !.current = cr.ver,
               !.ready = SiteReady,
               !.codeFailed = cr.codeFailed /\ ~BackAtFailsafe]

Observed ==
    [cr EXCEPT !.current = cr.ver,
               !.ready = SiteReady,
               !.codeFailed = cr.codeFailed /\ ~BackAtFailsafe,
               !.dbFailed = cr.dbFailed /\ ~BackAtFailsafe]

codeUpdateNeeded ==
    /\ cr.ready /\ ~cr.codeFailed
    /\ deploy.release # cr.ver \/ cr.failsafe # cr.current

\* drush answers in a pod of the release of the specification only.
dbUpdateNeeded ==
    /\ cr.ready /\ ~cr.codeFailed
    /\ ~codeUpdateNeeded
    /\ pod[cr.ver] = "ready"
    /\ schema \in UpdbFrom[cr.ver]

Announced ==
    IF cr.codeFailed THEN [cr EXCEPT !.uip = FALSE]
    ELSE IF cr.ready THEN [cr EXCEPT !.uip = codeUpdateNeeded \/ dbUpdateNeeded]
    ELSE cr

StatusUpToDate == Observed = cr /\ Announced = cr

HeldByAnnotation == cr.uip \/ cr.dbFailed  \* faulty: not by a failed rollout

Held == cr.uip \/ cr.codeFailed \/ cr.dbFailed

AdoptedAnyway ==               \* faulty: after a failure
    IF cr.current # cr.failsafe THEN [cr EXCEPT !.failsafe = cr.ver] ELSE cr

Adopted == IF cr.current # cr.failsafe /\ ~cr.dbFailed /\ ~cr.codeFailed
           THEN [cr EXCEPT !.failsafe = cr.ver] ELSE cr

UpdatesCode == cr.uip /\ codeUpdateNeeded

UpdatesDB == cr.uip /\ dbUpdateNeeded /\ ~cr.dbFailed

-----------------------------------------------------------------------------
(* The reconciliation, by the place where it ends.  With one annotation    *)
(* out of two the configuration is refused and nothing else is done; the   *)
(* same while the pod of a new release is pending.                         *)

ObserveSite ==
    /\ Observed # cr
    /\ cr' = Observed
    /\ UNCHANGED <<ns, deploy, pod, schema>>

AnnounceUpdate ==
    /\ Observed = cr
    /\ Announced # cr
    /\ cr' = Announced
    /\ UNCHANGED <<ns, deploy, pod, schema>>

SetExpectedReplicas ==
    /\ StatusUpToDate
    /\ ~HalfBlocked
    /\ cr.expected # Replicas
    /\ cr' = [cr EXCEPT !.expected = Replicas]
    /\ UNCHANGED <<ns, deploy, pod, schema>>

Configured == StatusUpToDate /\ ~HalfBlocked /\ cr.expected = Replicas

\* No update is due: ensureDrupalDeployment, and the Failsafe.
EnsureDeployment ==
    /\ Configured
    /\ ~UpdatesCode /\ ~UpdatesDB
    /\ deploy' = IF Held THEN deploy ELSE Target
    /\ cr' = Adopted
    /\ UNCHANGED <<ns, pod, schema>>

UpdateDeployment ==
    /\ Configured
    /\ UpdatesCode
    /\ deploy # Target
    /\ deploy' = Target
    /\ UNCHANGED <<ns, cr, pod, schema>>

RollBack ==
    /\ Configured
    /\ UpdatesCode
    /\ deploy = Target
    /\ pod[cr.ver] = "late"
    /\ deploy' = [Target EXCEPT !.release = cr.failsafe]
    /\ cr' = [cr EXCEPT !.codeFailed = TRUE]
    /\ UNCHANGED <<ns, pod, schema>>

AdoptRelease ==
    /\ Configured
    /\ UpdatesCode
    /\ deploy = Target
    /\ pod[cr.ver] = "ready"
    /\ cr' = Adopted
    /\ UNCHANGED <<ns, deploy, pod, schema>>

UpdateDatabase ==
    /\ Configured
    /\ UpdatesDB
    /\ \/ schema' = cr.ver /\ UNCHANGED cr
       \/ /\ "updb" \in Faults
          /\ cr' = [cr EXCEPT !.dbFailed = TRUE]
          /\ schema' \in {schema, cr.ver}
    /\ UNCHANGED <<ns, deploy, pod>>

Reconcile ==
    \/ ObserveSite \/ AnnounceUpdate \/ SetExpectedReplicas
    \/ EnsureDeployment \/ UpdateDeployment \/ RollBack \/ AdoptRelease
    \/ UpdateDatabase

-----------------------------------------------------------------------------
(* The environment.                                                        *)

Edit(new) ==
    /\ new # cr
    /\ cr' = new
    /\ UNCHANGED <<ns, deploy, pod, schema>>

EditVersion(r) == Edit([cr EXCEPT !.ver = r])

EditQoS(q) == Edit([cr EXCEPT !.qos = q])

\* Blocking and unblocking, one annotation after the other or both at once.
AnnotateNamespace(annotations) ==
    /\ ns' = annotations
    /\ UNCHANGED <<cr, deploy, pod, schema>>

SetPod(r, phase) ==
    /\ pod' = [pod EXCEPT ![r] = phase]
    /\ UNCHANGED <<ns, cr, deploy, schema>>

PodCreated(r) ==
    /\ deploy.release = r
    /\ deploy.replicas > 0
    /\ pod[r] = "none"
    /\ SetPod(r, "pending")

PodLate(r) == "slow" \in Faults /\ pod[r] = "pending" /\ SetPod(r, "late")

PodReady(r) == pod[r] \in {"pending", "late"} /\ SetPod(r, "ready")

\* The pods of another release go, ready ones once the new ones are ready.
PodRemoved(r) ==
    /\ pod[r] # "none"
    /\ \/ deploy.replicas = 0
       \/ deploy.release # r /\ (pod[r] = "ready" => pod[deploy.release] = "ready")
    /\ SetPod(r, "none")

DeploymentController(r) == PodCreated(r) \/ PodReady(r) \/ PodRemoved(r)

Next ==
    \/ Reconcile
    \/ \E r \in Releases : EditVersion(r) \/ PodLate(r) \/ DeploymentController(r)
    \/ \E q \in QoSClasses : EditQoS(q)
    \/ \E annotations \in SUBSET BlockAnnotations : AnnotateNamespace(annotations)

Spec == Init /\ [][Next]_vars

\* Every site is reconciled again and again, by events and by the periodic
\* resynchronisation; the Deployment controller does its work.
FairSpec ==
    /\ Spec
    /\ WF_vars(Reconcile)
    /\ \A r \in Releases : WF_vars(DeploymentController(r))

-----------------------------------------------------------------------------
(* What holds.                                                             *)

NamespaceSettles == <>[][FALSE]_<<ns, cr.qos>> /\ <>[]~HalfBlocked

\* A site whose administrator stays at the Failsafe, with no update announced,
\* gets the replicas that its namespace and its quality of service ask for,
\* whatever updates were blocked, failed or given up before.
ReplicasFollowNamespace ==
    NamespaceSettles /\ <>[](BackAtFailsafe /\ ~cr.uip)
        => <>[](deploy = Target /\ cr.expected = Replicas)

\* A release that was rejected stays away from the users: while the condition
\* CodeUpdateFailed stands, the Deployment keeps the Failsafe, through edits of
\* the version, blocking, unblocking and changes of the quality of service
\* (rollBackCodeUpdate, and the guard of ensureResourceX, line 581).  The caches
\* are current here; with stale ones SiteUpdate!RollbackHolds fails.
RollbackStands == cr.codeFailed => deploy.release = cr.failsafe

\* The release status that the administrator of this site sees; the empty
\* string does not occur, since the site has adopted a release.
Contract == INSTANCE ReleaseContract
    WITH Empty <- "", want <- cr.ver, current <- cr.current,
         failsafe <- cr.failsafe, codeFailed <- cr.codeFailed,
         dbFailed <- cr.dbFailed

\* Blocking, quality of service and replicas never interfere with the release
\* contract of SiteUpdate: nothing is adopted or rejected that was not asked
\* for and observed, and no failure is forgotten before the site is back at its
\* Failsafe (Reconcile, lines 290-340 and 504-509).
FollowsContract == [][Contract!ContractNext]_(Contract!contractVars)
=============================================================================
