------------------------- MODULE SiteBlockingProofs -------------------------
(***************************************************************************)
(* What SiteBlocking guarantees for every set of releases and of database  *)
(* updates, slow pods and failing updates.                                 *)
(***************************************************************************)
EXTENDS SiteBlocking, TLAPS

USE BlockingAssumption

LEMMA ObservedType ==
  ASSUME TypeOK
  PROVE  /\ Observed \in DrupalSite /\ Announced \in DrupalSite /\ Adopted \in DrupalSite
         /\ [cr EXCEPT !.expected = Replicas] \in DrupalSite
         /\ [cr EXCEPT !.codeFailed = TRUE] \in DrupalSite
         /\ [cr EXCEPT !.dbFailed = TRUE] \in DrupalSite
         /\ Target \in Deployment
         /\ [Target EXCEPT !.release = cr.failsafe] \in Deployment
  <1>1. Replicas \in ReplicaCounts
    BY DEF Replicas, ReplicaCounts
  <1>2. Observed \in DrupalSite
    <2>1. SiteReady \in BOOLEAN /\ BackAtFailsafe \in BOOLEAN
      BY DEF SiteReady, BackAtFailsafe
    <2> HIDE DEF SiteReady, BackAtFailsafe
    <2> QED
      BY <2>1 DEF Observed, DrupalSite, TypeOK
  <1>3. Announced \in DrupalSite
    <2>1. (codeUpdateNeeded \/ dbUpdateNeeded) \in BOOLEAN
      OBVIOUS
    <2> QED
      BY <2>1 DEF Announced, DrupalSite, TypeOK
  <1>4. Adopted \in DrupalSite
    BY DEF Adopted, DrupalSite, TypeOK
  <1>5. /\ [cr EXCEPT !.expected = Replicas] \in DrupalSite
        /\ [cr EXCEPT !.codeFailed = TRUE] \in DrupalSite
        /\ [cr EXCEPT !.dbFailed = TRUE] \in DrupalSite
    BY <1>1 DEF DrupalSite, TypeOK
  <1>6. Target \in Deployment /\ [Target EXCEPT !.release = cr.failsafe] \in Deployment
    BY <1>1 DEF Target, Deployment, DrupalSite, TypeOK
  <1> QED
    BY <1>2, <1>3, <1>4, <1>5, <1>6

LEMMA TypeStep == TypeOK /\ [Next]_vars => TypeOK'
  <1> SUFFICES ASSUME TypeOK, [Next]_vars
               PROVE  TypeOK'
    OBVIOUS
  <1>1. ASSUME Reconcile PROVE TypeOK'
    <2>1. /\ cr' \in DrupalSite /\ deploy' \in Deployment /\ schema' \in Releases
      <3>1. CASE ObserveSite \/ AnnounceUpdate \/ SetExpectedReplicas
        BY <3>1, ObservedType DEF ObserveSite, AnnounceUpdate, SetExpectedReplicas, TypeOK
      <3>2. CASE EnsureDeployment \/ UpdateDeployment
        BY <3>2, ObservedType DEF EnsureDeployment, UpdateDeployment, TypeOK
      <3>3. CASE RollBack \/ AdoptRelease
        BY <3>3, ObservedType DEF RollBack, AdoptRelease, TypeOK
      <3>4. CASE UpdateDatabase
        BY <3>4, ObservedType DEF UpdateDatabase, TypeOK, DrupalSite
      <3> QED
        BY <1>1, <3>1, <3>2, <3>3, <3>4 DEF Reconcile
    <2>2. UNCHANGED <<ns, pod>>
      BY <1>1 DEF Reconcile, ObserveSite, AnnounceUpdate, SetExpectedReplicas,
                  EnsureDeployment, UpdateDeployment, RollBack, AdoptRelease, UpdateDatabase
    <2> QED
      BY <2>1, <2>2 DEF TypeOK
  <1>2. ASSUME NEW r \in Releases, EditVersion(r) PROVE TypeOK'
    BY <1>2 DEF EditVersion, Edit, TypeOK, DrupalSite
  <1>3. ASSUME NEW q \in QoSClasses, EditQoS(q) PROVE TypeOK'
    BY <1>3 DEF EditQoS, Edit, TypeOK, DrupalSite
  <1>4. ASSUME NEW r \in Releases, PodLate(r) \/ DeploymentController(r) PROVE TypeOK'
    BY <1>4 DEF PodLate, DeploymentController, PodCreated, PodReady, PodRemoved, SetPod, TypeOK
  <1>5. ASSUME NEW a \in SUBSET BlockAnnotations, AnnotateNamespace(a) PROVE TypeOK'
    BY <1>5 DEF AnnotateNamespace, TypeOK
  <1>6. CASE UNCHANGED vars
    BY <1>6 DEF vars, TypeOK
  <1> QED
    BY <1>1, <1>2, <1>3, <1>4, <1>5, <1>6 DEF Next

LEMMA InitType == Init => TypeOK
  <1> SUFFICES ASSUME Init PROVE TypeOK
    OBVIOUS
  <1>1. cr \in DrupalSite /\ deploy \in Deployment
    BY DEF Init, DrupalSite, Deployment, QoSClasses, ReplicaCounts
  <1>2. pod \in [Releases -> {"none", "pending", "late", "ready"}]
    BY DEF Init
  <1> QED
    BY <1>1, <1>2 DEF Init, TypeOK

\* The variables keep their types.
THEOREM TypeCorrect == Spec => []TypeOK
  BY InitType, TypeStep, PTL DEF Spec

-----------------------------------------------------------------------------
(* What a step does to the status, the release of the Deployment and the   *)
(* administrator's request, together.                                      *)

\* The fields that the contract is about.
SameRelease(c, d) ==
    /\ c.ver = d.ver /\ c.current = d.current /\ c.failsafe = d.failsafe
    /\ c.codeFailed = d.codeFailed /\ c.dbFailed = d.dbFailed

LEMMA ObservedFields ==
  ASSUME TypeOK
  PROVE  /\ Observed.ver = cr.ver /\ Observed.current = cr.ver
         /\ Observed.failsafe = cr.failsafe
         /\ Observed.codeFailed = (cr.codeFailed /\ cr.ver # cr.failsafe)
         /\ Observed.dbFailed = (cr.dbFailed /\ cr.ver # cr.failsafe)
  BY DEF Observed, BackAtFailsafe, TypeOK, DrupalSite

LEMMA AnnouncedFields ==
  ASSUME TypeOK
  PROVE  SameRelease(Announced, cr)
  <1>1. \A b \in BOOLEAN : SameRelease([cr EXCEPT !.uip = b], cr)
    BY DEF TypeOK, DrupalSite, SameRelease
  <1>2. (codeUpdateNeeded \/ dbUpdateNeeded) \in BOOLEAN
    OBVIOUS
  <1>3. SameRelease(cr, cr)
    BY DEF SameRelease
  <1> QED
    BY <1>1, <1>2, <1>3 DEF Announced

\* A site whose status is up to date has observed its request.
LEMMA UpToDateObserved ==
  ASSUME TypeOK, StatusUpToDate
  PROVE  cr.current = cr.ver
  BY ObservedFields DEF StatusUpToDate

LEMMA AdoptedFields ==
  ASSUME TypeOK
  PROVE  \/ Adopted = cr
         \/ /\ ~cr.codeFailed /\ ~cr.dbFailed
            /\ Adopted.ver = cr.ver /\ Adopted.current = cr.current
            /\ Adopted.codeFailed = cr.codeFailed
            /\ Adopted.dbFailed = cr.dbFailed /\ Adopted.failsafe = cr.ver
  BY DEF Adopted, TypeOK, DrupalSite

LEMMA SameReleaseStutters ==
  ASSUME SameRelease(cr', cr)
  PROVE  UNCHANGED Contract!contractVars
  BY DEF SameRelease, Contract!contractVars

ContractStep == Contract!ContractNext \/ UNCHANGED Contract!contractVars

LEMMA AdoptedRefines ==
  ASSUME TypeOK, StatusUpToDate, cr' = Adopted
  PROVE  ContractStep
  <1>1. CASE cr' = cr
    BY <1>1 DEF ContractStep, Contract!contractVars
  <1>2. CASE cr' # cr
    BY <1>2, AdoptedFields, UpToDateObserved
       DEF ContractStep, Contract!ContractNext, Contract!Adopt
  <1> QED
    BY <1>1, <1>2

\* Every reconciliation makes at most one step of the contract.
LEMMA ReconcileRefines ==
  ASSUME TypeOK, Reconcile
  PROVE  ContractStep
  <1> USE DEF Contract!ContractNext
  <1>1. CASE cr' = cr
    BY <1>1 DEF ContractStep, Contract!contractVars
  <1>2. CASE ObserveSite
    <2>1. /\ cr'.ver = cr.ver /\ cr'.current = cr.ver /\ cr'.failsafe = cr.failsafe
          /\ cr'.codeFailed = (cr.codeFailed /\ cr.ver # cr.failsafe)
          /\ cr'.dbFailed = (cr.dbFailed /\ cr.ver # cr.failsafe)
      BY <1>2, ObservedFields DEF ObserveSite
    <2> QED
      BY <2>1 DEF ContractStep, Contract!Observe
  <1>3. CASE AnnounceUpdate
    BY <1>3, AnnouncedFields, SameReleaseStutters DEF AnnounceUpdate, ContractStep
  <1>4. CASE SetExpectedReplicas
    <2>1. SameRelease(cr', cr)
      BY <1>4 DEF SetExpectedReplicas, SameRelease, TypeOK, DrupalSite
    <2> QED
      BY <2>1, SameReleaseStutters DEF ContractStep
  <1>5. CASE EnsureDeployment \/ AdoptRelease
    BY <1>5, AdoptedRefines DEF EnsureDeployment, AdoptRelease, Configured
  <1>6. CASE RollBack
    <2>1. cr.current = cr.ver /\ ~cr.codeFailed
      BY <1>6, UpToDateObserved
         DEF RollBack, Configured, UpdatesCode, codeUpdateNeeded
    <2>2. /\ cr'.ver = cr.ver /\ cr'.current = cr.current
          /\ cr'.failsafe = cr.failsafe /\ cr'.codeFailed = TRUE
          /\ cr'.dbFailed = cr.dbFailed
      BY <1>6 DEF RollBack, TypeOK, DrupalSite
    <2> QED
      BY <2>1, <2>2 DEF ContractStep, Contract!RejectCode
  <1>7. CASE UpdateDatabase /\ cr' = [cr EXCEPT !.dbFailed = TRUE]
    <2>1. cr.current = cr.ver /\ ~cr.codeFailed /\ ~cr.dbFailed
      BY <1>7, UpToDateObserved
         DEF UpdateDatabase, Configured, UpdatesDB, dbUpdateNeeded
    <2>2. /\ cr'.ver = cr.ver /\ cr'.current = cr.current
          /\ cr'.failsafe = cr.failsafe /\ cr'.codeFailed = cr.codeFailed
          /\ cr'.dbFailed = TRUE
      BY <1>7 DEF TypeOK, DrupalSite
    <2> QED
      BY <2>1, <2>2 DEF ContractStep, Contract!RejectDB
  <1> QED
    BY <1>1, <1>2, <1>3, <1>4, <1>5, <1>6, <1>7
       DEF Reconcile, UpdateDeployment, UpdateDatabase

LEMMA EnvironmentRefines ==
  ASSUME TypeOK, Next, ~Reconcile
  PROVE  ContractStep
  <1>1. ASSUME NEW r \in Releases, EditVersion(r)
        PROVE  ContractStep
    <2>1. /\ cr'.ver = r /\ cr'.current = cr.current
          /\ cr'.failsafe = cr.failsafe /\ cr'.codeFailed = cr.codeFailed
          /\ cr'.dbFailed = cr.dbFailed
      BY <1>1 DEF EditVersion, Edit, TypeOK, DrupalSite
    <2> QED
      BY <2>1 DEF ContractStep, Contract!ContractNext, Contract!Request
  <1>2. ASSUME NEW q \in QoSClasses, EditQoS(q)
        PROVE  ContractStep
    <2>1. SameRelease(cr', cr)
      BY <1>2 DEF EditQoS, Edit, SameRelease, TypeOK, DrupalSite
    <2> QED
      BY <2>1, SameReleaseStutters DEF ContractStep
  <1>3. CASE cr' = cr
    BY <1>3 DEF ContractStep, Contract!contractVars
  <1> QED
    BY <1>1, <1>2, <1>3
       DEF Next, PodLate, DeploymentController, PodCreated, PodReady, PodRemoved,
           SetPod, AnnotateNamespace

\* Whatever is blocked, unblocked or asked for beside an update, the release
\* status follows the contract that the detailed SiteUpdate implements.
THEOREM ContractFollowed == Spec => FollowsContract
  <1>1. TypeOK /\ [Next]_vars => [Contract!ContractNext]_(Contract!contractVars)
    <2> SUFFICES ASSUME TypeOK, [Next]_vars
                 PROVE  ContractStep
      BY DEF ContractStep
    <2>1. CASE UNCHANGED vars
      BY <2>1 DEF vars, ContractStep, Contract!contractVars
    <2> QED
      BY <2>1, ReconcileRefines, EnvironmentRefines
  <1> QED
    BY <1>1, TypeCorrect, PTL DEF Spec, FollowsContract

-----------------------------------------------------------------------------
(* A rolled back Deployment is left where it is.                           *)

LEMMA RollbackKept ==
  ASSUME TypeOK, RollbackStands, [Next]_vars
  PROVE  RollbackStands'
  <1> USE DEF RollbackStands
  <1>1. CASE ObserveSite
    BY <1>1, ObservedFields DEF ObserveSite
  <1>2. CASE AnnounceUpdate
    BY <1>2, AnnouncedFields DEF AnnounceUpdate, SameRelease
  <1>3. CASE SetExpectedReplicas
    BY <1>3 DEF SetExpectedReplicas, TypeOK, DrupalSite
  <1>4. CASE EnsureDeployment
    <2>1. CASE cr.codeFailed
      <3>1. deploy' = deploy /\ cr' = cr
        BY <1>4, <2>1, AdoptedFields DEF EnsureDeployment, Held
      <3> QED
        BY <3>1
    <2>2. CASE ~cr.codeFailed
      BY <1>4, <2>2, AdoptedFields DEF EnsureDeployment
    <2> QED
      BY <2>1, <2>2
  <1>5. CASE UpdateDeployment \/ AdoptRelease
    <2>1. ~cr.codeFailed
      BY <1>5 DEF UpdateDeployment, AdoptRelease, UpdatesCode, codeUpdateNeeded
    <2> QED
      BY <1>5, <2>1, AdoptedFields DEF UpdateDeployment, AdoptRelease
  <1>6. CASE RollBack
    <2>1. cr'.failsafe = cr.failsafe
      BY <1>6 DEF RollBack, TypeOK, DrupalSite
    <2>2. deploy'.release = cr.failsafe
      BY <1>6 DEF RollBack, Target
    <2> QED
      BY <2>1, <2>2
  <1>7. CASE UpdateDatabase
    BY <1>7 DEF UpdateDatabase, TypeOK, DrupalSite
  <1>8. CASE \E r \in Releases : EditVersion(r)
    BY <1>8 DEF EditVersion, Edit, TypeOK, DrupalSite
  <1>9. CASE \E q \in QoSClasses : EditQoS(q)
    BY <1>9 DEF EditQoS, Edit, TypeOK, DrupalSite
  <1>10. CASE UNCHANGED <<cr, deploy>>
    BY <1>10
  <1> QED
    BY <1>1, <1>2, <1>3, <1>4, <1>5, <1>6, <1>7, <1>8, <1>9, <1>10
       DEF Next, Reconcile, vars, PodLate, DeploymentController, PodCreated,
           PodReady, PodRemoved, SetPod, AnnotateNamespace

\* While a rejected release is not withdrawn, the Deployment serves the
\* Failsafe, as long as the operator's caches are current.
THEOREM RollbackStays == Spec => []RollbackStands
  <1>1. Init => RollbackStands
    BY DEF Init, RollbackStands
  <1> QED
    BY <1>1, RollbackKept, TypeCorrect, PTL DEF Spec

-----------------------------------------------------------------------------
(* The replicas, once they are those of the namespace.                     *)

\* A fixed point: the site is at its Failsafe, and the Deployment is what its
\* namespace and its quality of service ask for.
Scaled == BackAtFailsafe /\ deploy = Target /\ cr.expected = Replicas

LEMMA ScaledKept ==
  ASSUME TypeOK, Scaled, [Next]_vars, UNCHANGED <<ns, cr.qos, cr.ver>>
  PROVE  Scaled' /\ deploy' = deploy
  \* It is enough that a step leaves the Deployment and its target alone.
  <1>1. ASSUME deploy' = deploy, cr'.failsafe = cr.failsafe, cr'.expected = cr.expected
        PROVE  Scaled' /\ deploy' = deploy
    BY <1>1 DEF Scaled, BackAtFailsafe, Target, Replicas
  <1>2. Configured => ~UpdatesCode
    BY UpToDateObserved DEF Scaled, BackAtFailsafe, Target, Configured, UpdatesCode,
         codeUpdateNeeded
  <1>3. Configured => Adopted = cr
    BY UpToDateObserved DEF Scaled, BackAtFailsafe, Configured, Adopted
  <1>4. CASE ObserveSite
    BY <1>1, <1>4 DEF ObserveSite, Observed, TypeOK, DrupalSite
  <1>5. CASE AnnounceUpdate
    BY <1>1, <1>5 DEF AnnounceUpdate, Announced, TypeOK, DrupalSite
  <1>6. CASE SetExpectedReplicas
    BY <1>6 DEF SetExpectedReplicas, Scaled
  <1>7. CASE EnsureDeployment
    BY <1>1, <1>3, <1>7 DEF EnsureDeployment, Scaled
  <1>8. CASE UpdateDeployment \/ RollBack \/ AdoptRelease
    BY <1>2, <1>8 DEF UpdateDeployment, RollBack, AdoptRelease
  <1>9. CASE UpdateDatabase
    BY <1>1, <1>9 DEF UpdateDatabase, TypeOK, DrupalSite
  <1>10. CASE \E r \in Releases : EditVersion(r)
    BY <1>1, <1>10 DEF EditVersion, Edit, TypeOK, DrupalSite
  <1>11. CASE \E q \in QoSClasses : EditQoS(q)
    BY <1>1, <1>11 DEF EditQoS, Edit, TypeOK, DrupalSite
  <1>12. CASE UNCHANGED <<cr, deploy>>
    BY <1>1, <1>12
  <1> QED
    BY <1>4, <1>5, <1>6, <1>7, <1>8, <1>9, <1>10, <1>11, <1>12
       DEF Next, Reconcile, vars, PodLate, DeploymentController, PodCreated,
           PodReady, PodRemoved, SetPod, AnnotateNamespace

\* A site at its Failsafe that has the replicas its namespace asks for keeps
\* them: pods that are late or go, a failed or a late update of the database
\* and any number of reconciliations never scale or roll out its Deployment
\* again, until somebody edits the annotations, the quality of service or the
\* version (the safety half of ReplicasFollowNamespace).
THEOREM ReplicasStay ==
    Spec => [](BackAtFailsafe /\ deploy = Target /\ cr.expected = Replicas
                 => ([][UNCHANGED <<ns, cr.qos, cr.ver>>]_vars
                       => [][UNCHANGED deploy]_vars))
  <1>1. BackAtFailsafe /\ deploy = Target /\ cr.expected = Replicas => Scaled
    BY DEF Scaled
  <1>2. TypeOK /\ Scaled /\ [Next]_vars /\ [UNCHANGED <<ns, cr.qos, cr.ver>>]_vars
          => Scaled' /\ [UNCHANGED deploy]_vars
    <2> SUFFICES ASSUME TypeOK, Scaled, [Next]_vars,
                        [UNCHANGED <<ns, cr.qos, cr.ver>>]_vars
                 PROVE  Scaled' /\ deploy' = deploy
      OBVIOUS
    <2>1. UNCHANGED <<ns, cr.qos, cr.ver>>
      BY DEF vars
    <2> QED
      BY <2>1, ScaledKept
  <1> QED
    BY <1>1, <1>2, TypeCorrect, PTL DEF Spec
=============================================================================
