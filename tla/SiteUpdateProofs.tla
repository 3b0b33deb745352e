-------------------------- MODULE SiteUpdateProofs --------------------------
(***************************************************************************)
(* What SiteUpdate guarantees for every set of releases and every choice   *)
(* of faults.                                                              *)
(***************************************************************************)
EXTENDS SiteUpdate, TLAPS

USE DEF ReleaseIDs

\* The two halves of TypeOK: what a return from Reconcile assigns, and what
\* the cluster and the database hold.
CallTypeOK ==
    /\ cr \in DrupalSite
    /\ cr.ver \in Releases
    /\ cache \in DrupalSite
    /\ cache.ver \in Releases
    /\ drp \in DrupalSite
    /\ pc # "idle" => drp.ver \in Releases
    /\ pc \in Steps
    /\ synced \in BOOLEAN /\ queued \in BOOLEAN /\ fresh \in BOOLEAN
    /\ codeNeeded \in BOOLEAN /\ dbNeeded \in BOOLEAN /\ requeueFlag \in BOOLEAN

ClusterTypeOK ==
    /\ dbod \in BOOLEAN /\ installed \in BOOLEAN
    /\ deploy \in ReleaseIDs \cup {Absent}
    /\ pod \in [Releases -> PodPhases]
    /\ db \in Databases
    /\ backup \in Databases

LEMMA TypeHalves == TypeOK <=> CallTypeOK /\ ClusterTypeOK
  BY DEF TypeOK, CallTypeOK, ClusterTypeOK

LEMMA NewSiteType == \A r \in ReleaseIDs : NewSite(r) \in DrupalSite
  BY DEF NewSite, DrupalSite

LEMMA EndCallType ==
  ASSUME EndCall
  PROVE  /\ drp' \in DrupalSite
         /\ pc' = "idle" /\ pc' \in Steps
         /\ fresh' \in BOOLEAN /\ codeNeeded' \in BOOLEAN
         /\ dbNeeded' \in BOOLEAN /\ requeueFlag' \in BOOLEAN
  BY NewSiteType DEF EndCall, NoCopy, Steps

\* The four ways in which a reconciliation ends keep the types.
LEMMA StatusReturnType ==
  ASSUME CallTypeOK, NEW new \in DrupalSite, NEW event \in BOOLEAN,
         \/ UpdateStatusAndReturn(new, event)
         \/ TransientErrorAndReturn(new, event)
  PROVE  CallTypeOK'
  <1>1. EndCall /\ UNCHANGED cache
    BY DEF UpdateStatusAndReturn, TransientErrorAndReturn
  <1>2. queued' \in BOOLEAN
    BY DEF UpdateStatusAndReturn, TransientErrorAndReturn, CallTypeOK
  <1>3. WriteStatus(new) \/ UNCHANGED <<cr, synced>>
    BY DEF UpdateStatusAndReturn, TransientErrorAndReturn
  <1>4. cr' \in DrupalSite /\ cr'.ver \in Releases /\ synced' \in BOOLEAN
    BY <1>3 DEF CallTypeOK, WriteStatus, DrupalSite
  <1> QED
    BY <1>1, <1>2, <1>4, EndCallType DEF CallTypeOK

LEMMA ObjectReturnType ==
  ASSUME CallTypeOK, NEW new \in DrupalSite, new.ver \in Releases,
         UpdateObjectAndReturn(new)
  PROVE  CallTypeOK'
  <1>1. EndCall /\ UNCHANGED cache
    BY DEF UpdateObjectAndReturn
  <1>2. queued' \in BOOLEAN
    BY DEF UpdateObjectAndReturn, CallTypeOK
  <1>3. WriteObject(new) \/ UNCHANGED <<cr, synced>>
    BY DEF UpdateObjectAndReturn
  <1>4. cr' \in DrupalSite /\ cr'.ver \in Releases /\ synced' \in BOOLEAN
    BY <1>3 DEF CallTypeOK, WriteObject, DrupalSite
  <1> QED
    BY <1>1, <1>2, <1>4, EndCallType DEF CallTypeOK

LEMMA ReturnType ==
  ASSUME CallTypeOK, NEW requeue \in BOOLEAN, Return(requeue)
  PROVE  CallTypeOK'
  BY EndCallType DEF CallTypeOK, Return, apiVars

LEMMA GotoType ==
  ASSUME CallTypeOK, pc # "idle", NEW step \in Steps, Goto(step),
         codeNeeded' \in BOOLEAN, dbNeeded' \in BOOLEAN,
         requeueFlag' \in BOOLEAN
  PROVE  CallTypeOK'
  BY DEF CallTypeOK, Goto, apiVars

\* Every object that Reconcile computes from its copy is a DrupalSite.
LEMMA StatusTypes ==
  ASSUME CallTypeOK
  PROVE  /\ CodeFailedStatus \in DrupalSite
         /\ DBFailedStatus \in DrupalSite
         /\ DBUpdatedStatus \in DrupalSite
         /\ [drp EXCEPT !.ready = "Error"] \in DrupalSite
         /\ [drp EXCEPT !.failsafe = drp.ver] \in DrupalSite
         /\ [drp EXCEPT !.dbPending = "Unknown"] \in DrupalSite
         /\ [drp EXCEPT !.dbPending = PendingCondition] \in DrupalSite
         /\ \A b \in BOOLEAN : [drp EXCEPT !.uip = b] \in DrupalSite
  <1>1. CodeFailedStatus \in DrupalSite /\ DBFailedStatus \in DrupalSite
    BY DEF CallTypeOK, DrupalSite, CodeFailedStatus, DBFailedStatus
  <1>2. DBUpdatedStatus \in DrupalSite
    BY DEF CallTypeOK, DrupalSite, DBUpdatedStatus
  <1>3. PendingCondition \in {"none", "True", "Unknown"}
    BY DEF PendingCondition
  <1>4. \A p \in {"none", "True", "Unknown"} :
          [drp EXCEPT !.dbPending = p] \in DrupalSite
    BY DEF CallTypeOK, DrupalSite
  <1>5. [drp EXCEPT !.ready = "Error"] \in DrupalSite
    BY DEF CallTypeOK, DrupalSite
  <1>6. [drp EXCEPT !.failsafe = drp.ver] \in DrupalSite
    BY DEF CallTypeOK, DrupalSite
  <1>7. \A b \in BOOLEAN : [drp EXCEPT !.uip = b] \in DrupalSite
    BY DEF CallTypeOK, DrupalSite
  <1> QED
    BY <1>1, <1>2, <1>3, <1>4, <1>5, <1>6, <1>7

LEMMA ConditionsStatusType ==
  ASSUME CallTypeOK, NEW isInstalled \in BOOLEAN
  PROVE  ConditionsStatus(isInstalled) \in DrupalSite
  <1>1. ReadyCondition \in {"True", "False", "Error"}
    BY DEF ReadyCondition
  <1>2. drp.ver \in ReleaseIDs
    BY DEF CallTypeOK, DrupalSite
  <1>3. \A b, c \in BOOLEAN : 
          [drp EXCEPT !.current = drp.ver, !.ready = ReadyCondition,
                      !.init = isInstalled, !.codeFailed = b, !.dbFailed = c]
            \in DrupalSite
    BY <1>1, <1>2 DEF CallTypeOK, DrupalSite
  <1>4. /\ (drp.codeFailed /\ ~BackAtFailsafe(drp)) \in BOOLEAN
        /\ (drp.dbFailed /\ ~BackAtFailsafe(drp)) \in BOOLEAN
    OBVIOUS
  <1> QED
    BY <1>3, <1>4 DEF ConditionsStatus

\* Every step of Reconcile keeps the types.
LEMMA ReconcileCallType ==
  ASSUME CallTypeOK, ClusterTypeOK, Reconcile
  PROVE  CallTypeOK'
  <1>1. CASE Fetch
    BY <1>1 DEF Fetch, CallTypeOK, Steps, apiVars
  <1>2. CASE CheckConditions
    <2>1. PICK isInstalled \in InstalledAnswers :
            \/ UpdateStatusAndReturn(ConditionsStatus(isInstalled), FALSE)
            \/ /\ Goto("code")
               /\ UNCHANGED <<codeNeeded, dbNeeded, requeueFlag>>
      BY <1>2 DEF CheckConditions
    <2>2. isInstalled \in BOOLEAN
      BY DEF InstalledAnswers, ClusterTypeOK
    <2>3. CASE UpdateStatusAndReturn(ConditionsStatus(isInstalled), FALSE)
      BY <2>2, <2>3, ConditionsStatusType, StatusReturnType
    <2>4. CASE Goto("code") /\ UNCHANGED <<codeNeeded, dbNeeded, requeueFlag>>
      BY <1>2, <2>4, GotoType DEF CheckConditions, CallTypeOK, Steps
    <2> QED
      BY <2>1, <2>3, <2>4
  <1>3. CASE CheckCode
    <2>1. CASE UpdateObjectAndReturn([drp EXCEPT !.uip = FALSE])
      BY <1>3, <2>1, StatusTypes, ObjectReturnType
         DEF CheckCode, CallTypeOK, DrupalSite
    <2>2. CASE UpdateStatusAndReturn([drp EXCEPT !.dbPending = "Unknown"], FALSE)
      BY <2>2, StatusTypes, StatusReturnType
    <2>3. CASE /\ \E step \in {"annotate", "db", "ensure"} : Goto(step)
               /\ codeNeeded' \in BOOLEAN /\ requeueFlag' \in BOOLEAN
               /\ UNCHANGED dbNeeded
      BY <1>3, <2>3, GotoType DEF CheckCode, CallTypeOK, Steps
    <2> QED
      BY <1>3, <2>1, <2>2, <2>3
         DEF CheckCode, SettleFailedUpdate, codeUpdateNeeded, CallTypeOK
  <1>4. CASE CheckDB
    BY <1>4, GotoType DEF CheckDB, CallTypeOK, Steps
  <1>5. CASE AnnotateUpdate
    <2>1. UpdateNeeded \in BOOLEAN
      BY DEF UpdateNeeded, CallTypeOK
    <2>2. CASE UpdateObjectAndReturn([drp EXCEPT !.uip = UpdateNeeded])
      BY <1>5, <2>1, <2>2, StatusTypes, ObjectReturnType
         DEF AnnotateUpdate, CallTypeOK, DrupalSite
    <2>3. CASE UpdateStatusAndReturn(
                 [drp EXCEPT !.dbPending = PendingCondition], FALSE)
      BY <2>3, StatusTypes, StatusReturnType
    <2>4. CASE /\ Goto("ensure")
               /\ UNCHANGED <<codeNeeded, dbNeeded, requeueFlag>>
      BY <1>5, <2>4, GotoType DEF AnnotateUpdate, CallTypeOK, Steps
    <2> QED
      BY <1>5, <2>2, <2>3, <2>4 DEF AnnotateUpdate
  <1>6. CASE EnsureResources
    BY <1>6 DEF EnsureResources, CallTypeOK, Steps, apiVars
  <1>7. CASE EnsureResourcesFails
    <2>1. TransientErrorAndReturn([drp EXCEPT !.ready = "Error"],
                                  deploy' # deploy)
      BY <1>7 DEF EnsureResourcesFails
    <2> QED
      BY <2>1, StatusTypes, StatusReturnType
  <1>8. CASE CheckDBOD
    <2>1. CASE TransientErrorAndReturn([drp EXCEPT !.ready = "Error"], TRUE)
      BY <2>1, StatusTypes, StatusReturnType
    <2>2. CASE /\ Goto(UpdateStep)
               /\ UNCHANGED <<codeNeeded, dbNeeded, requeueFlag>>
      BY <1>8, <2>2, GotoType DEF CheckDBOD, CallTypeOK, Steps, UpdateStep
    <2> QED
      BY <1>8, <2>1, <2>2 DEF CheckDBOD
  <1>9. CASE UpdateDeployment
    <2>1. CASE Return(TRUE)
      BY <2>1, ReturnType
    <2>2. CASE /\ Goto("rollout")
               /\ UNCHANGED <<codeNeeded, dbNeeded, requeueFlag>>
      BY <1>9, <2>2, GotoType DEF UpdateDeployment, CallTypeOK, Steps
    <2> QED
      BY <1>9, <2>1, <2>2 DEF UpdateDeployment
  <1>10. CASE UpdateDeploymentFails
    BY <1>10, StatusReturnType DEF UpdateDeploymentFails, CallTypeOK
  <1>11. CASE CheckRollout
    <2>1. CASE TransientErrorAndReturn(drp, FALSE)
      BY <2>1, StatusReturnType DEF CallTypeOK
    <2>2. CASE /\ \E step \in {"rollback", "reload"} : Goto(step)
               /\ UNCHANGED <<codeNeeded, dbNeeded, requeueFlag>>
      BY <1>11, <2>2, GotoType DEF CheckRollout, CallTypeOK, Steps
    <2> QED
      BY <1>11, <2>1, <2>2 DEF CheckRollout
  <1>12. CASE RollBack \/ RollBackFails \/ RollBackAfterReload
    <2>1. \E event \in BOOLEAN :
            \/ UpdateStatusAndReturn(CodeFailedStatus, event)
            \/ TransientErrorAndReturn(CodeFailedStatus, event)
      BY <1>12 DEF RollBack, RollBackFails, RollBackAfterReload
    <2> QED
      BY <2>1, StatusTypes, StatusReturnType
  <1>13. CASE ReloadCache
    <2>1. CASE UpdateStatusAndReturn(drp, FALSE)
      BY <2>1, StatusReturnType DEF CallTypeOK
    <2>2. CASE /\ \E step \in {"finish", "reloadfailed"} : Goto(step)
               /\ UNCHANGED <<codeNeeded, dbNeeded, requeueFlag>>
      BY <1>13, <2>2, GotoType DEF ReloadCache, CallTypeOK, Steps
    <2> QED
      BY <1>13, <2>1, <2>2 DEF ReloadCache
  <1>14. CASE TakeBackup \/ RunUpdb \/ RunUpdbFails
    <2>1. CASE \/ UpdateStatusAndReturn(DBFailedStatus, FALSE)
               \/ UpdateStatusAndReturn(DBUpdatedStatus, FALSE)
      BY <2>1, StatusTypes, StatusReturnType
    <2>2. CASE /\ \E step \in {"updb", "finish"} : Goto(step)
               /\ UNCHANGED <<codeNeeded, dbNeeded, requeueFlag>>
      BY <1>14, <2>2, GotoType
         DEF TakeBackup, RunUpdb, RunUpdbFails, CallTypeOK, Steps
    <2> QED
      BY <1>14, <2>1, <2>2 DEF TakeBackup, RunUpdb, RunUpdbFails
  <1>15. CASE AdvanceFailsafe
    <2>1. CASE UpdateStatusAndReturn([drp EXCEPT !.failsafe = drp.ver], FALSE)
      BY <2>1, StatusTypes, StatusReturnType
    <2>2. CASE Return(requeueFlag)
      BY <2>2, ReturnType DEF CallTypeOK
    <2> QED
      BY <1>15, <2>1, <2>2 DEF AdvanceFailsafe
  <1> QED
    BY <1>1, <1>2, <1>3, <1>4, <1>5, <1>6, <1>7, <1>8, <1>9, <1>10, <1>11,
       <1>12, <1>13, <1>14, <1>15 DEF Reconcile

LEMMA ReconcileClusterType ==
  ASSUME CallTypeOK, ClusterTypeOK, Reconcile
  PROVE  ClusterTypeOK'
  <1> USE DEF kubeVars, dataVars
  <1>1. drp.ver \in ReleaseIDs /\ drp.failsafe \in ReleaseIDs
    BY DEF CallTypeOK, DrupalSite
  <1>2. /\ dbod' = dbod /\ installed' = installed /\ pod' = pod
        /\ deploy' \in {deploy, drp.ver, drp.failsafe}
        /\ backup' \in {backup, db}
        /\ db' \in {db, [schema |-> drp.ver, half |-> FALSE],
                     [db EXCEPT !.half = TRUE]}
    <2>1. CASE \/ Fetch \/ CheckConditions \/ CheckCode \/ CheckDB
               \/ AnnotateUpdate \/ CheckDBOD \/ UpdateDeploymentFails
               \/ CheckRollout \/ RollBackFails \/ ReloadCache
               \/ AdvanceFailsafe
      BY <2>1 DEF Fetch, CheckConditions, CheckCode, CheckDB, AnnotateUpdate,
                  CheckDBOD, UpdateDeploymentFails, CheckRollout,
                  RollBackFails, ReloadCache, AdvanceFailsafe
    <2>2. CASE \/ EnsureResources \/ EnsureResourcesFails
               \/ UpdateDeployment \/ RollBack \/ RollBackAfterReload
      BY <2>2 DEF EnsureResources, EnsureResourcesFails, EnsureDeployment,
                  UpdateDeployment, RollBack, RollBackAfterReload
    <2>3. CASE TakeBackup \/ RunUpdb \/ RunUpdbFails
      BY <2>3 DEF TakeBackup, RunUpdb, RunUpdbFails
    <2> QED
      BY <2>1, <2>2, <2>3 DEF Reconcile
  <1>3. db' \in Databases /\ backup' \in Databases
    <2>1. db \in Databases /\ backup \in Databases
      BY DEF ClusterTypeOK
    <2>2. [schema |-> drp.ver, half |-> FALSE] \in Databases
      BY <1>1 DEF Databases
    <2>3. [db EXCEPT !.half = TRUE] \in Databases
      BY <2>1 DEF Databases
    <2> QED
      BY <1>2, <2>1, <2>2, <2>3
  <1>4. deploy' \in ReleaseIDs \cup {Absent}
    BY <1>1, <1>2 DEF ClusterTypeOK
  <1> QED
    BY <1>2, <1>3, <1>4 DEF ClusterTypeOK

LEMMA EnvironmentType ==
  ASSUME CallTypeOK, ClusterTypeOK, Environment
  PROVE  CallTypeOK' /\ ClusterTypeOK'
  <1> USE DEF CallTypeOK, ClusterTypeOK, apiVars, callVars, kubeVars, dataVars
  <1>1. CASE InformerSync \/ Resync \/ DeploymentDeleted \/ DBODProvisioned
    BY <1>1 DEF InformerSync, Resync, DeploymentDeleted, DBODProvisioned
  <1>2. CASE Restart
    BY <1>2, EndCallType DEF Restart
  <1>3. ASSUME NEW r \in Releases, EditVersion(r)
        PROVE  CallTypeOK' /\ ClusterTypeOK'
    <2>1. [cr EXCEPT !.ver = r] \in DrupalSite
      BY DEF DrupalSite
    <2>2. [cr EXCEPT !.ver = r].ver = r
      BY DEF DrupalSite
    <2> QED
      BY <1>3, <2>1, <2>2 DEF EditVersion
  <1>4. ASSUME NEW r \in Releases, SiteInstalled(r)
        PROVE  CallTypeOK' /\ ClusterTypeOK'
    BY <1>4 DEF SiteInstalled, Databases
  <1>5. ASSUME NEW r \in Releases, PodStep(r)
        PROVE  CallTypeOK' /\ ClusterTypeOK'
    <2>1. \E phase \in PodPhases, event \in BOOLEAN : SetPod(r, phase, event)
      BY <1>5 DEF PodStep, PodPhases, PodCreated, PodLate, PodRuns, PodReady,
                  PodUnready, PodFails, PodRemoved
    <2> QED
      BY <2>1 DEF SetPod
  <1> QED
    BY <1>1, <1>2, <1>3, <1>4, <1>5 DEF Environment

\* Every variable keeps its type, whatever interleaves and whatever fails.
THEOREM TypeCorrect == Spec => []TypeOK
  <1>1. Init => TypeOK
    <2>1. \A r \in Releases : NewSite(r) \in DrupalSite /\ NewSite(r).ver = r
      BY NewSiteType DEF NewSite
    <2>2. NoCopy \in DrupalSite /\ NoDatabase \in Databases
      BY NewSiteType DEF NoCopy, NoDatabase, Databases
    <2> QED
      BY <2>1, <2>2 DEF Init, TypeOK, PodPhases, Steps
  <1>2. TypeOK /\ [Next]_vars => TypeOK'
    <2> SUFFICES ASSUME TypeOK, [Next]_vars
                 PROVE  TypeOK'
      OBVIOUS
    <2>1. CallTypeOK /\ ClusterTypeOK
      BY TypeHalves
    <2>2. CASE Reconcile
      BY <2>1, <2>2, ReconcileCallType, ReconcileClusterType
         DEF TypeOK, CallTypeOK, ClusterTypeOK
    <2>3. CASE Environment
      BY <2>1, <2>3, EnvironmentType DEF TypeOK, CallTypeOK, ClusterTypeOK
    <2>4. CASE UNCHANGED vars
      BY <2>4 DEF vars, apiVars, callVars, kubeVars, dataVars, TypeOK
    <2> QED
      BY <2>2, <2>3, <2>4 DEF Next
  <1> QED
    BY <1>1, <1>2, PTL DEF Spec

-----------------------------------------------------------------------------
(* What a step does to the object, the cache and the copy: it ends the     *)
(* reconciliation, having written the object or not, or it goes on with    *)
(* the same copy.                                                          *)

Returns ==
    /\ EndCall
    /\ cache' = cache
    /\ synced' => synced /\ cr' = cr

GoesOn ==
    /\ UNCHANGED <<cr, cache, synced, drp, fresh>>
    /\ pc \notin {"idle", "conditions"}
    /\ pc' \notin {"idle", "conditions", "code"}

LEMMA ReturnsReturn ==
  ASSUME NEW new, NEW event,
         \/ UpdateStatusAndReturn(new, event)
         \/ TransientErrorAndReturn(new, event)
         \/ UpdateObjectAndReturn(new)
         \/ Return(event)
  PROVE  Returns
  <1>1. EndCall /\ cache' = cache
    BY DEF UpdateStatusAndReturn, TransientErrorAndReturn,
           UpdateObjectAndReturn, Return, apiVars
  <1>2. WriteStatus(new) \/ WriteObject(new) \/ UNCHANGED <<cr, synced>>
    BY DEF UpdateStatusAndReturn, TransientErrorAndReturn,
           UpdateObjectAndReturn, Return, apiVars
  <1>3. synced' = (synced /\ cr' = cr) \/ UNCHANGED <<cr, synced>>
    BY <1>2 DEF WriteStatus, WriteObject
  <1>4. synced' => synced /\ cr' = cr
    BY <1>3
  <1> QED
    BY <1>1, <1>4 DEF Returns

\* Steps from "code" on either return or go on.
LEMMA LaterStepsShape ==
  ASSUME Reconcile, ~Fetch, ~CheckConditions
  PROVE  Returns \/ GoesOn
  <1> USE ReturnsReturn DEF Goto, GoesOn, apiVars
  <1>1. CASE CheckCode
    BY <1>1 DEF CheckCode, SettleFailedUpdate
  <1>2. CASE CheckDB
    BY <1>2 DEF CheckDB
  <1>3. CASE AnnotateUpdate
    BY <1>3 DEF AnnotateUpdate
  <1>4. CASE EnsureResources \/ EnsureResourcesFails
    BY <1>4 DEF EnsureResources, EnsureResourcesFails
  <1>5. CASE CheckDBOD
    BY <1>5 DEF CheckDBOD, UpdateStep
  <1>6. CASE UpdateDeployment \/ UpdateDeploymentFails
    BY <1>6 DEF UpdateDeployment, UpdateDeploymentFails
  <1>7. CASE CheckRollout
    BY <1>7 DEF CheckRollout
  <1>8. CASE RollBack \/ RollBackFails \/ RollBackAfterReload
    BY <1>8 DEF RollBack, RollBackFails, RollBackAfterReload
  <1>9. CASE ReloadCache
    BY <1>9 DEF ReloadCache
  <1>10. CASE TakeBackup \/ RunUpdb \/ RunUpdbFails
    BY <1>10 DEF TakeBackup, RunUpdb, RunUpdbFails
  <1>11. CASE AdvanceFailsafe
    BY <1>11 DEF AdvanceFailsafe
  <1> QED
    BY <1>1, <1>2, <1>3, <1>4, <1>5, <1>6, <1>7, <1>8, <1>9, <1>10, <1>11
       DEF Reconcile

\* The update steps are only reached with the conditions they need.
LEMMA UpdateStepsGuarded ==
  ASSUME CopyIsCurrent, Reconcile, GoesOn
  PROVE  /\ pc' \in {"deploy", "rollout", "rollback", "reload", "reloadfailed"}
              => ~drp.codeFailed
         /\ pc' \in {"backup", "updb"} => ~drp.codeFailed /\ ~drp.dbFailed
  <1> USE DEF CopyIsCurrent, GoesOn, Goto
  <1>1. CASE CheckDBOD
    <2>1. pc' = UpdateStep
      BY <1>1 DEF CheckDBOD, TransientErrorAndReturn, EndCall
    <2> QED
      BY <2>1 DEF UpdateStep, UpdatesCode, UpdatesDB
  <1>2. CASE UpdateDeployment \/ CheckRollout \/ ReloadCache \/ TakeBackup
    BY <1>2 DEF UpdateDeployment, CheckRollout, ReloadCache, TakeBackup, Return,
                EndCall, UpdateStatusAndReturn, TransientErrorAndReturn
  <1>3. CASE EndCall
    BY <1>3 DEF EndCall
  <1>4. CASE pc' \in {"db", "annotate", "ensure", "dbod", "finish"}
    BY <1>4
  <1> QED
    BY <1>1, <1>2, <1>3, <1>4
       DEF Reconcile, Fetch, CheckConditions, CheckCode, SettleFailedUpdate,
           CheckDB, AnnotateUpdate, EnsureResources, EnsureResourcesFails,
           UpdateDeploymentFails, RollBack, RollBackFails, RollBackAfterReload,
           RunUpdb, RunUpdbFails, AdvanceFailsafe, UpdateStatusAndReturn,
           UpdateObjectAndReturn, TransientErrorAndReturn, Return

LEMMA CopyStaysCurrent ==
  ASSUME TypeOK, CopyIsCurrent, [Next]_vars
  PROVE  CopyIsCurrent'
  <1>1. CASE Fetch
    BY <1>1 DEF Fetch, CopyIsCurrent, apiVars
  <1>2. CASE CheckConditions
    <2>1. PICK isInstalled \in InstalledAnswers :
            \/ UpdateStatusAndReturn(ConditionsStatus(isInstalled), FALSE)
            \/ ConditionsStatus(isInstalled) = drp /\ Goto("code")
      BY <1>2 DEF CheckConditions
    <2>2. CASE UpdateStatusAndReturn(ConditionsStatus(isInstalled), FALSE)
      BY <2>2, ReturnsReturn DEF Returns, EndCall, CopyIsCurrent
    <2>3. CASE ConditionsStatus(isInstalled) = drp /\ Goto("code")
      <3>1. ConditionsStatus(isInstalled).current = drp.ver
        BY DEF ConditionsStatus, TypeOK, DrupalSite
      <3> QED
        BY <3>1, <2>3, <1>2 DEF Goto, CheckConditions, CopyIsCurrent, apiVars
    <2> QED
      BY <2>1, <2>2, <2>3
  <1>3. CASE Reconcile /\ ~Fetch /\ ~CheckConditions
    <2>1. CASE Returns
      BY <2>1 DEF Returns, EndCall, CopyIsCurrent
    <2>2. CASE GoesOn
      BY <1>3, <2>2, UpdateStepsGuarded DEF GoesOn, CopyIsCurrent
    <2> QED
      BY <1>3, <2>1, <2>2, LaterStepsShape
  <1>4. CASE Environment
    <2> USE DEF CopyIsCurrent
    <2>1. CASE \E r \in Releases : EditVersion(r)
      BY <2>1 DEF EditVersion
    <2>2. CASE InformerSync
      BY <2>2 DEF InformerSync, callVars
    <2>3. CASE Restart
      BY <2>3 DEF Restart, EndCall
    <2>4. CASE UNCHANGED <<apiVars, callVars>>
      BY <2>4 DEF apiVars, callVars
    <2>5. \/ \E r \in Releases : EditVersion(r)
          \/ InformerSync \/ Restart
          \/ UNCHANGED <<apiVars, callVars>>
      BY <1>4 DEF Environment, Resync, DeploymentDeleted, DBODProvisioned,
                  SiteInstalled, PodStep, PodCreated, PodLate, PodRuns,
                  PodReady, PodUnready, PodFails, PodRemoved, SetPod
    <2> QED
      BY <2>1, <2>2, <2>3, <2>4, <2>5
  <1>5. CASE UNCHANGED vars
    BY <1>5 DEF vars, apiVars, callVars, CopyIsCurrent
  <1> QED
    BY <1>1, <1>2, <1>3, <1>4, <1>5 DEF Next

\* A copy counted as current is the stored object, at every step of every
\* reconciliation: the ground of all that follows.
THEOREM CopyCurrent == Spec => []CopyIsCurrent
  <1>1. Init => CopyIsCurrent
    BY DEF Init, CopyIsCurrent
  <1>2. TypeOK /\ CopyIsCurrent /\ [Next]_vars => CopyIsCurrent'
    BY CopyStaysCurrent
  <1> QED
    BY <1>1, <1>2, TypeCorrect, PTL DEF Spec

-----------------------------------------------------------------------------
(* No wake-up is lost.  While a reconciliation runs on an old copy, an     *)
(* event is in the queue or on its way; once the conditions are checked,   *)
(* the copy agrees with the cluster or the site is queued again.           *)

Settled(c) == c.codeFailed => ~c.uip /\ c.dbPending = "Unknown"

Watched ==
    /\ pc # "idle" /\ ~fresh => queued \/ ~synced
    /\ pc \notin {"idle", "conditions"} /\ fresh /\ ~queued
         => drp.ready = ReadyCondition
    /\ pc \in {"db", "annotate"} => ~drp.codeFailed
    /\ pc \notin {"idle", "conditions", "code", "db", "annotate"}
         => Settled(drp)
    /\ RestMeansUpToDate
    /\ RejectedUpdateSettles

LEMMA QueueKept ==
  ASSUME TypeOK, Reconcile, ~Fetch, queued
  PROVE  queued'
  BY DEF Reconcile, CheckConditions, CheckCode, SettleFailedUpdate, CheckDB,
         AnnotateUpdate, EnsureResources, EnsureResourcesFails, CheckDBOD,
         UpdateDeployment, UpdateDeploymentFails, CheckRollout, RollBack,
         RollBackFails, ReloadCache, RollBackAfterReload, TakeBackup, RunUpdb,
         RunUpdbFails, AdvanceFailsafe, UpdateStatusAndReturn,
         UpdateObjectAndReturn, TransientErrorAndReturn, Return, Goto

LEMMA DeploymentChangeQueues ==
  ASSUME TypeOK, Reconcile
  PROVE  /\ pod' = pod /\ dbod' = dbod
         /\ deploy' # deploy => queued'
  <1> USE DEF kubeVars
  <1>1. CASE UNCHANGED kubeVars
    BY <1>1
  <1>2. CASE EnsureResources \/ EnsureResourcesFails
    BY <1>2 DEF EnsureResources, EnsureResourcesFails, TransientErrorAndReturn
  <1>3. CASE UpdateDeployment
    BY <1>3 DEF UpdateDeployment, Return
  <1>4. CASE RollBack \/ RollBackAfterReload
    BY <1>4 DEF RollBack, RollBackAfterReload, UpdateStatusAndReturn
  <1>5. CASE TakeBackup \/ RunUpdb \/ RunUpdbFails
    BY <1>5 DEF TakeBackup, RunUpdb, RunUpdbFails
  <1> QED
    BY <1>1, <1>2, <1>3, <1>4, <1>5
       DEF Reconcile, Fetch, CheckConditions, CheckCode, CheckDB,
           AnnotateUpdate, CheckDBOD, UpdateDeploymentFails, CheckRollout,
           RollBackFails, ReloadCache, AdvanceFailsafe

\* What condition Ready depends on never changes without waking the operator.
LEMMA ReadyChangeQueues ==
  ASSUME TypeOK, Next, ReadyCondition' # ReadyCondition
  PROVE  queued'
  <1> USE DEF ReadyCondition, SiteReady
  <1>1. CASE Reconcile
    BY <1>1, DeploymentChangeQueues
  <1>2. CASE UNCHANGED <<deploy, pod, dbod>>
    BY <1>2
  <1>3. ASSUME NEW r \in Releases, PodStep(r)
        PROVE  queued'
    <2>1. pod \in [Releases -> PodPhases] /\ queued \in BOOLEAN
      BY DEF TypeOK
    <2>2. CASE PodLate(r) \/ PodRuns(r) \/ (PodFails(r) /\ pod[r] # "ready")
      <3>1. \A s \in Releases : pod'[s] = "ready" <=> pod[s] = "ready"
        BY <2>1, <2>2 DEF PodLate, PodRuns, PodFails, SetPod
      <3>2. UNCHANGED <<deploy, dbod>>
        BY <2>2 DEF PodLate, PodRuns, PodFails, SetPod
      <3> QED
        BY <3>1, <3>2
    <2>3. CASE \/ PodCreated(r) \/ PodReady(r) \/ PodUnready(r)
               \/ PodRemoved(r) \/ (PodFails(r) /\ pod[r] = "ready")
      BY <2>3 DEF PodCreated, PodReady, PodUnready, PodRemoved, PodFails, SetPod
    <2> QED
      BY <1>3, <2>2, <2>3 DEF PodStep
  <1>4. CASE DeploymentDeleted \/ DBODProvisioned
    BY <1>4 DEF DeploymentDeleted, DBODProvisioned
  <1> QED
    BY <1>1, <1>2, <1>3, <1>4
       DEF Next, Environment, InformerSync, Resync, Restart, EditVersion,
           SiteInstalled, kubeVars

\* A reconciliation that ends after the conditions were found in order.
LEMMA ReturnKeepsWatch ==
  ASSUME TypeOK, CopyIsCurrent, Watched, Reconcile, ~Fetch, Returns,
         pc \notin {"idle", "conditions", "code"}
  PROVE  Watched'
  <1>1. pc' = "idle"
    BY DEF Returns, EndCall
  <1>2. ASSUME AtRest'
        PROVE  /\ cr' = cr /\ cr = drp
               /\ cr.ready = ReadyCondition /\ ReadyCondition' = ReadyCondition
               /\ cr.current = cr.ver
               /\ Settled(cr)
    <2>1. ~queued /\ ~queued' /\ synced /\ cr' = cr
      BY <1>2, QueueKept DEF AtRest, Returns
    <2>2. fresh
      BY <2>1 DEF Watched
    <2>3. cr = drp /\ cr.current = cr.ver
      BY <2>2 DEF CopyIsCurrent
    <2>4. drp.ready = ReadyCondition
      BY <2>1, <2>2 DEF Watched
    <2>5. ReadyCondition' = ReadyCondition
      BY <2>1, ReadyChangeQueues DEF Next
    <2>6. Settled(drp)
      BY DEF Watched, Settled
    <2> QED
      BY <2>1, <2>3, <2>4, <2>5, <2>6
  <1>3. RestMeansUpToDate'
    BY <1>2 DEF RestMeansUpToDate, ReadyCondition
  <1>4. RejectedUpdateSettles'
    BY <1>2 DEF RejectedUpdateSettles, Settled
  <1> QED
    BY <1>1, <1>3, <1>4 DEF Watched

\* A reconciliation that ends because the status had to be written.
LEMMA ChangedStatusKeepsWatch ==
  ASSUME pc' = "idle", ~AtRest'
  PROVE  Watched'
  BY DEF Watched, RestMeansUpToDate, RejectedUpdateSettles

LEMMA GoingOnKeepsWatch ==
  ASSUME TypeOK, Watched, Reconcile, ~Fetch, ~CheckConditions, GoesOn
  PROVE  Watched'
  <1>1. /\ pc' \in {"db", "annotate"} => ~drp'.codeFailed
        /\ pc' \notin {"idle", "conditions", "code", "db", "annotate"}
             => Settled(drp')
    <2> USE DEF GoesOn, Goto, Watched, Settled
    <2>1. CASE CheckCode
      BY <2>1, ReturnsReturn
         DEF CheckCode, SettleFailedUpdate, ChecksUpdates, Returns, EndCall
    <2>2. CASE CheckDB
      BY <2>2 DEF CheckDB
    <2>3. CASE AnnotateUpdate
      BY <2>3, ReturnsReturn DEF AnnotateUpdate, Returns, EndCall
    <2>4. CASE /\ pc \notin {"idle", "conditions", "code", "db", "annotate"}
               /\ pc' \notin {"db", "annotate"}
      BY <2>4
    <2> QED
      BY <2>1, <2>2, <2>3, <2>4, ReturnsReturn
         DEF Reconcile, EnsureResources, EnsureResourcesFails, CheckDBOD,
             UpdateStep, UpdateDeployment, UpdateDeploymentFails, CheckRollout,
             RollBack, RollBackFails, ReloadCache, RollBackAfterReload,
             TakeBackup, RunUpdb, RunUpdbFails, AdvanceFailsafe, Returns, EndCall
  <1>2. fresh' => fresh /\ (~queued' => ~queued)
    BY QueueKept DEF GoesOn
  <1>3. pc' \notin {"idle", "conditions"} /\ fresh' /\ ~queued'
          => drp'.ready = ReadyCondition'
    BY <1>2, ReadyChangeQueues DEF GoesOn, Watched, Next
  <1>4. pc' # "idle" /\ ~fresh' => queued' \/ ~synced'
    BY QueueKept DEF GoesOn, Watched
  <1>5. ~AtRest'
    BY DEF GoesOn, AtRest
  <1> QED
    BY <1>1, <1>3, <1>4, <1>5
       DEF Watched, RestMeansUpToDate, RejectedUpdateSettles

LEMMA CheckConditionsKeepsWatch ==
  ASSUME TypeOK, CopyIsCurrent, Watched, CheckConditions
  PROVE  Watched'
  <1>1. PICK isInstalled \in InstalledAnswers :
          IF ConditionsStatus(isInstalled) # drp
          THEN UpdateStatusAndReturn(ConditionsStatus(isInstalled), FALSE)
          ELSE Goto("code")
    BY DEF CheckConditions
  <1> DEFINE new == ConditionsStatus(isInstalled)
  <1>2. isInstalled \in BOOLEAN
    BY DEF InstalledAnswers, TypeOK
  <1>3. new \in DrupalSite /\ new.ready = ReadyCondition
        /\ new.ver = drp.ver /\ new.uip = drp.uip
    <2>1. new \in DrupalSite
      BY <1>2, ConditionsStatusType, TypeHalves
    <2> QED
      BY <2>1 DEF ConditionsStatus, TypeOK, DrupalSite
  <1>4. CASE new # drp
    <2>1. UpdateStatusAndReturn(new, FALSE)
      BY <1>1, <1>4
    <2>2. pc' = "idle"
      BY <2>1 DEF UpdateStatusAndReturn, EndCall
    <2>3. CASE queued'
      BY <2>2, <2>3, ChangedStatusKeepsWatch DEF AtRest
    <2>4. CASE fresh /\ WriteStatus(new)
      <3>1. cr = drp
        BY <2>4 DEF CopyIsCurrent
      <3>2. cr' = new
        BY <1>3, <2>4, <3>1 DEF WriteStatus, DrupalSite
      <3>3. ~synced'
        BY <1>4, <2>4, <3>1, <3>2 DEF WriteStatus
      <3> QED
        BY <2>2, <3>3, ChangedStatusKeepsWatch DEF AtRest
    <2> QED
      BY <2>1, <2>3, <2>4 DEF UpdateStatusAndReturn, WriteAccepted
  <1>5. CASE new = drp
    <2>1. Goto("code")
      BY <1>1, <1>5
    <2>2. UNCHANGED <<deploy, pod, dbod>>
      BY DEF CheckConditions, kubeVars
    <2> QED
      BY <1>3, <1>5, <2>1, <2>2
         DEF Watched, Goto, CheckConditions, ReadyCondition, SiteReady, apiVars,
             RestMeansUpToDate, RejectedUpdateSettles, AtRest
  <1> QED
    BY <1>4, <1>5

\* A failed update that is not settled yet has its status or its annotation
\* written: the site is enqueued again.
LEMMA SettlingKeepsWatch ==
  ASSUME TypeOK, CopyIsCurrent, Watched, CheckCode, Returns
  PROVE  Watched'
  <1>1. pc' = "idle"
    BY DEF Returns, EndCall
  <1>2. drp \in DrupalSite /\ cr \in DrupalSite
    BY DEF TypeOK
  <1>3. ~AtRest'
    <2>1. CASE drp.uip /\ UpdateObjectAndReturn([drp EXCEPT !.uip = FALSE])
      <3>1. CASE fresh /\ WriteObject([drp EXCEPT !.uip = FALSE])
        <4>1. cr = drp
          BY <3>1 DEF CopyIsCurrent
        <4>2. cr'.uip = FALSE
          BY <1>2, <3>1 DEF WriteObject, DrupalSite
        <4> QED
          BY <2>1, <3>1, <4>1, <4>2 DEF WriteObject, AtRest
      <3> QED
        BY <2>1, <3>1 DEF UpdateObjectAndReturn, WriteAccepted, AtRest
    <2>2. CASE /\ drp.dbPending # "Unknown"
               /\ UpdateStatusAndReturn([drp EXCEPT !.dbPending = "Unknown"],
                                        FALSE)
      <3>1. CASE fresh /\ WriteStatus([drp EXCEPT !.dbPending = "Unknown"])
        <4>1. cr = drp
          BY <3>1 DEF CopyIsCurrent
        <4>2. cr'.dbPending = "Unknown"
          BY <1>2, <3>1 DEF WriteStatus, DrupalSite
        <4> QED
          BY <2>2, <3>1, <4>1, <4>2 DEF WriteStatus, AtRest
      <3> QED
        BY <2>2, <3>1 DEF UpdateStatusAndReturn, WriteAccepted, AtRest
    <2> QED
      BY <1>1, <2>1, <2>2 DEF CheckCode, SettleFailedUpdate, Goto
  <1> QED
    BY <1>1, <1>3, ChangedStatusKeepsWatch

LEMMA EnvironmentKeepsWatch ==
  ASSUME TypeOK, CopyIsCurrent, Watched, Environment
  PROVE  Watched'
  <1> USE DEF Watched, RestMeansUpToDate, RejectedUpdateSettles, AtRest
  <1>1. CASE \E r \in Releases : EditVersion(r)
    BY <1>1 DEF EditVersion, kubeVars
  <1>2. CASE InformerSync
    BY <1>2 DEF InformerSync, callVars
  <1>3. CASE Restart
    BY <1>3 DEF Restart, EndCall
  <1>4. CASE UNCHANGED <<apiVars, callVars>> /\ (queued => queued')
    <2>1. CASE queued'
      BY <1>4, <2>1 DEF apiVars, callVars
    <2>2. CASE ~queued'
      <3>1. ReadyCondition' = ReadyCondition
        BY <2>2, ReadyChangeQueues DEF Next
      <3>2. (SiteReady /\ dbod) <=> (SiteReady' /\ dbod')
        BY <3>1 DEF ReadyCondition
      <3> QED
        BY <1>4, <2>2, <3>1, <3>2 DEF apiVars, callVars
    <2> QED
      BY <2>1, <2>2
  <1>5. \/ \E r \in Releases : EditVersion(r)
        \/ InformerSync \/ Restart
        \/ UNCHANGED <<apiVars, callVars>> /\ (queued => queued')
    BY DEF Environment, Resync, DeploymentDeleted, DBODProvisioned,
           SiteInstalled, PodStep, PodCreated, PodLate, PodRuns, PodReady,
           PodUnready, PodFails, PodRemoved, SetPod
  <1> QED
    BY <1>1, <1>2, <1>3, <1>4, <1>5

LEMMA WatchKept ==
  ASSUME TypeOK, CopyIsCurrent, Watched, [Next]_vars
  PROVE  Watched'
  <1>1. CASE Fetch
    BY <1>1 DEF Fetch, Watched, RestMeansUpToDate, RejectedUpdateSettles, AtRest,
                apiVars
  <1>2. CASE CheckConditions
    BY <1>2, CheckConditionsKeepsWatch
  <1>3. CASE Reconcile /\ ~Fetch /\ ~CheckConditions
    <2>1. CASE GoesOn
      BY <1>3, <2>1, GoingOnKeepsWatch
    <2>2. CASE Returns /\ CheckCode
      BY <2>2, SettlingKeepsWatch
    <2>3. CASE Returns /\ ~CheckCode
      <3>1. pc \notin {"idle", "conditions", "code"}
        BY <1>3, <2>3
           DEF Reconcile, CheckDB, AnnotateUpdate, EnsureResources,
               EnsureResourcesFails, CheckDBOD, UpdateDeployment,
               UpdateDeploymentFails, CheckRollout, RollBack, RollBackFails,
               ReloadCache, RollBackAfterReload, TakeBackup, RunUpdb,
               RunUpdbFails, AdvanceFailsafe
      <3> QED
        BY <1>3, <2>3, <3>1, ReturnKeepsWatch
    <2> QED
      BY <1>3, <2>1, <2>2, <2>3, LaterStepsShape
  <1>4. CASE Environment
    BY <1>4, EnvironmentKeepsWatch
  <1>5. CASE UNCHANGED vars
    BY <1>5 DEF vars, apiVars, callVars, kubeVars, Watched, ReadyCondition,
                SiteReady, RestMeansUpToDate, RejectedUpdateSettles, AtRest
  <1> QED
    BY <1>1, <1>2, <1>3, <1>4, <1>5 DEF Next

\* The inductive invariant.
THEOREM WatchHolds == Spec => []Watched
  <1>1. Init => Watched
    BY DEF Init, Watched, RestMeansUpToDate, RejectedUpdateSettles, AtRest
  <1>2. TypeOK /\ CopyIsCurrent /\ Watched /\ [Next]_vars => Watched'
    BY WatchKept
  <1> QED
    BY <1>1, <1>2, TypeCorrect, CopyCurrent, PTL DEF Spec

\* When the operator has nothing left to do, the status names the release
\* asked for and Ready tells the truth, whatever failed before.
THEOREM StatusUpToDate == Spec => []RestMeansUpToDate
  <1>1. Watched => RestMeansUpToDate
    BY DEF Watched
  <1> QED
    BY <1>1, WatchHolds, PTL

\* A rejected update that has come to rest carries no annotation.
THEOREM RejectionSettles == Spec => []RejectedUpdateSettles
  <1>1. Watched => RejectedUpdateSettles
    BY DEF Watched
  <1> QED
    BY <1>1, WatchHolds, PTL

-----------------------------------------------------------------------------
(* Refinement.  A step changes at most the object's status, its            *)
(* specification or its metadata, and each write maps to one step of the   *)
(* contract or leaves the contract's variables alone.                      *)

ContractUnchanged == UNCHANGED Contract!contractVars

ContractStep == Contract!ContractNext \/ ContractUnchanged

SameRelease(new) ==
    /\ new.current = drp.current
    /\ new.failsafe = drp.failsafe
    /\ new.codeFailed = drp.codeFailed
    /\ new.dbFailed = drp.dbFailed

LEMMA UnchangedObject ==
  ASSUME cr' = cr
  PROVE  ContractUnchanged
  BY DEF ContractUnchanged, Contract!contractVars

\* What an accepted status update leaves in the API server.
LEMMA StatusWritten ==
  ASSUME TypeOK, CopyIsCurrent, NEW new \in DrupalSite, NEW event,
         \/ UpdateStatusAndReturn(new, event)
         \/ TransientErrorAndReturn(new, event)
  PROVE  \/ cr' = cr
         \/ /\ cr = drp /\ cr'.ver = cr.ver
            /\ cr'.current = new.current /\ cr'.failsafe = new.failsafe
            /\ cr'.codeFailed = new.codeFailed /\ cr'.dbFailed = new.dbFailed
  <1>1. cr' = cr \/ (fresh /\ WriteStatus(new))
    BY DEF UpdateStatusAndReturn, TransientErrorAndReturn, WriteAccepted
  <1>2. CASE fresh /\ WriteStatus(new)
    <2>1. cr = drp
      BY <1>2 DEF CopyIsCurrent
    <2>2. /\ cr'.ver = cr.ver
          /\ cr'.current = new.current /\ cr'.failsafe = new.failsafe
          /\ cr'.codeFailed = new.codeFailed /\ cr'.dbFailed = new.dbFailed
      BY <1>2 DEF WriteStatus, DrupalSite
    <2> QED
      BY <2>1, <2>2
  <1> QED
    BY <1>1, <1>2

LEMMA SameReleaseWritten ==
  ASSUME TypeOK, CopyIsCurrent, NEW new \in DrupalSite, NEW event,
         SameRelease(new),
         \/ UpdateStatusAndReturn(new, event)
         \/ TransientErrorAndReturn(new, event)
  PROVE  ContractUnchanged
  <1>1. CASE cr' = cr
    BY <1>1, UnchangedObject
  <1>2. CASE /\ cr = drp /\ cr'.ver = cr.ver
             /\ cr'.current = new.current /\ cr'.failsafe = new.failsafe
             /\ cr'.codeFailed = new.codeFailed /\ cr'.dbFailed = new.dbFailed
    BY <1>2 DEF SameRelease, ContractUnchanged, Contract!contractVars
  <1> QED
    BY <1>1, <1>2, StatusWritten

LEMMA ObjectWritten ==
  ASSUME TypeOK, CopyIsCurrent, NEW new \in DrupalSite, new.ver = drp.ver,
         UpdateObjectAndReturn(new)
  PROVE  ContractUnchanged /\ cr'.ver = cr.ver
  <1>1. CASE cr' = cr
    BY <1>1, UnchangedObject
  <1>2. CASE fresh /\ WriteObject(new)
    <2>1. cr = drp
      BY <1>2 DEF CopyIsCurrent
    <2>2. /\ cr'.ver = cr.ver /\ cr'.current = cr.current
          /\ cr'.failsafe = cr.failsafe /\ cr'.codeFailed = cr.codeFailed
          /\ cr'.dbFailed = cr.dbFailed
      BY <1>2, <2>1 DEF WriteObject, DrupalSite, TypeOK
    <2> QED
      BY <2>2 DEF ContractUnchanged, Contract!contractVars
  <1> QED
    BY <1>1, <1>2 DEF UpdateObjectAndReturn, WriteAccepted

\* The copies that Reconcile writes without touching the release status.
LEMMA SameReleaseCopies ==
  ASSUME TypeOK
  PROVE  /\ SameRelease(drp)
         /\ SameRelease([drp EXCEPT !.ready = "Error"])
         /\ SameRelease([drp EXCEPT !.dbPending = "Unknown"])
         /\ SameRelease([drp EXCEPT !.dbPending = PendingCondition])
         /\ \A b \in BOOLEAN : [drp EXCEPT !.uip = b].ver = drp.ver
  BY DEF SameRelease, TypeOK, DrupalSite

LEMMA ReconcileRefines ==
  ASSUME TypeOK, CopyIsCurrent, Reconcile
  PROVE  ContractStep /\ cr'.ver = cr.ver
  <1> USE DEF ContractStep
  <1>1. CallTypeOK
    BY TypeHalves
  <1>2. drp \in DrupalSite
    BY DEF TypeOK
  <1>3. CASE cr' = cr
    BY <1>3, UnchangedObject
  <1>4. ASSUME NEW new \in {drp, [drp EXCEPT !.ready = "Error"],
                            [drp EXCEPT !.dbPending = "Unknown"],
                            [drp EXCEPT !.dbPending = PendingCondition]},
               NEW event,
               \/ UpdateStatusAndReturn(new, event)
               \/ TransientErrorAndReturn(new, event)
        PROVE  ContractStep /\ cr'.ver = cr.ver
    <2>1. new \in DrupalSite /\ SameRelease(new)
      BY <1>1, <1>2, StatusTypes, SameReleaseCopies
    <2>2. ContractUnchanged
      BY <1>4, <2>1, SameReleaseWritten
    <2> QED
      BY <2>2 DEF ContractUnchanged, Contract!contractVars
  <1>5. CASE CheckConditions
    <2>1. PICK isInstalled \in InstalledAnswers :
            \/ UpdateStatusAndReturn(ConditionsStatus(isInstalled), FALSE)
            \/ Goto("code")
      BY <1>5 DEF CheckConditions
    <2>2. ConditionsStatus(isInstalled) \in DrupalSite
      BY <1>1, ConditionsStatusType DEF InstalledAnswers, TypeOK
    <2>3. CASE /\ cr = drp /\ cr'.ver = cr.ver
               /\ cr'.current = ConditionsStatus(isInstalled).current
               /\ cr'.failsafe = ConditionsStatus(isInstalled).failsafe
               /\ cr'.codeFailed = ConditionsStatus(isInstalled).codeFailed
               /\ cr'.dbFailed = ConditionsStatus(isInstalled).dbFailed
      <3>1. /\ cr'.current = cr.ver /\ cr'.failsafe = cr.failsafe
            /\ cr'.codeFailed = (cr.codeFailed /\ cr.ver # cr.failsafe)
            /\ cr'.dbFailed = (cr.dbFailed /\ cr.ver # cr.failsafe)
        BY <1>2, <2>3 DEF ConditionsStatus, BackAtFailsafe, DrupalSite
      <3> QED
        BY <2>3, <3>1 DEF Contract!ContractNext, Contract!Observe
    <2> QED
      BY <1>3, <2>1, <2>2, <2>3, StatusWritten DEF Goto, apiVars
  <1>6. CASE CheckCode
    <2>1. CASE UpdateObjectAndReturn([drp EXCEPT !.uip = FALSE])
      BY <1>1, <2>1, StatusTypes, SameReleaseCopies, ObjectWritten
    <2> QED
      BY <1>3, <1>4, <1>6, <2>1 DEF CheckCode, SettleFailedUpdate, Goto, apiVars
  <1>7. CASE AnnotateUpdate
    <2>1. UpdateNeeded \in BOOLEAN
      BY DEF UpdateNeeded, TypeOK
    <2>2. CASE UpdateObjectAndReturn([drp EXCEPT !.uip = UpdateNeeded])
      BY <1>1, <2>1, <2>2, StatusTypes, SameReleaseCopies, ObjectWritten
    <2> QED
      BY <1>3, <1>4, <1>7, <2>2 DEF AnnotateUpdate, Goto, apiVars
  <1>8. CASE EnsureResourcesFails \/ CheckDBOD
    BY <1>3, <1>4, <1>8 DEF EnsureResourcesFails, CheckDBOD, Goto, apiVars
  <1>9. CASE UpdateDeployment \/ UpdateDeploymentFails \/ CheckRollout
    BY <1>3, <1>4, <1>9
       DEF UpdateDeployment, UpdateDeploymentFails, CheckRollout, Return, Goto,
           apiVars
  <1>10. CASE ReloadCache
    BY <1>3, <1>4, <1>10 DEF ReloadCache, Goto, apiVars
  <1>11. CASE RollBack \/ RollBackFails \/ RollBackAfterReload
    <2>1. PICK event :
            \/ UpdateStatusAndReturn(CodeFailedStatus, event)
            \/ TransientErrorAndReturn(CodeFailedStatus, event)
      BY <1>11 DEF RollBack, RollBackFails, RollBackAfterReload
    <2>2. ~drp.codeFailed /\ drp.current = drp.ver
      BY <1>11 DEF CopyIsCurrent, RollBack, RollBackFails, RollBackAfterReload
    <2>3. /\ CodeFailedStatus.current = drp.current
          /\ CodeFailedStatus.failsafe = drp.failsafe
          /\ CodeFailedStatus.dbFailed = drp.dbFailed
          /\ CodeFailedStatus.codeFailed
          /\ CodeFailedStatus.codeFailed \in BOOLEAN
      BY <1>2 DEF CodeFailedStatus, DrupalSite
    <2>4. CASE /\ cr = drp /\ cr'.ver = cr.ver
               /\ cr'.current = CodeFailedStatus.current
               /\ cr'.failsafe = CodeFailedStatus.failsafe
               /\ cr'.codeFailed = CodeFailedStatus.codeFailed
               /\ cr'.dbFailed = CodeFailedStatus.dbFailed
      BY <2>2, <2>3, <2>4 DEF Contract!ContractNext, Contract!RejectCode
    <2> QED
      BY <1>1, <1>3, <2>1, <2>4, StatusTypes, StatusWritten
  <1>12. CASE TakeBackup \/ RunUpdbFails
    <2>1. CASE UpdateStatusAndReturn(DBFailedStatus, FALSE)
      <3>1. ~drp.codeFailed /\ ~drp.dbFailed /\ drp.current = drp.ver
        BY <1>12 DEF CopyIsCurrent, TakeBackup, RunUpdbFails
      <3>2. /\ DBFailedStatus.current = drp.current
            /\ DBFailedStatus.failsafe = drp.failsafe
            /\ DBFailedStatus.codeFailed = drp.codeFailed
            /\ DBFailedStatus.dbFailed = TRUE
        BY <1>2 DEF DBFailedStatus, DrupalSite
      <3>3. CASE /\ cr = drp /\ cr'.ver = cr.ver
                 /\ cr'.current = DBFailedStatus.current
                 /\ cr'.failsafe = DBFailedStatus.failsafe
                 /\ cr'.codeFailed = DBFailedStatus.codeFailed
                 /\ cr'.dbFailed = DBFailedStatus.dbFailed
        BY <3>1, <3>2, <3>3 DEF Contract!ContractNext, Contract!RejectDB
      <3> QED
        BY <1>1, <1>3, <2>1, <3>3, StatusTypes, StatusWritten
    <2> QED
      BY <1>3, <1>12, <2>1 DEF TakeBackup, RunUpdbFails, Goto, apiVars
  <1>13. CASE RunUpdb
    <2>1. CASE UpdateStatusAndReturn(DBUpdatedStatus, FALSE)
      <3>1. ~drp.dbFailed
        BY <1>13 DEF CopyIsCurrent, RunUpdb
      <3>2. drp.dbFailed = FALSE
        BY <1>2, <3>1 DEF DrupalSite
      <3>3. SameRelease(DBUpdatedStatus)
        BY <1>2, <3>2 DEF SameRelease, DBUpdatedStatus, DrupalSite
      <3>4. ContractUnchanged
        BY <1>1, <2>1, <3>3, StatusTypes, SameReleaseWritten
      <3> QED
        BY <3>4 DEF ContractUnchanged, Contract!contractVars
    <2> QED
      BY <1>3, <1>13, <2>1 DEF RunUpdb, Goto, apiVars
  <1>14. CASE AdvanceFailsafe
    <2> DEFINE new == [drp EXCEPT !.failsafe = drp.ver]
    <2>1. CASE AdvancesFailsafe(drp) /\ UpdateStatusAndReturn(new, FALSE)
      <3>1. /\ new.current = drp.current /\ new.failsafe = drp.ver
            /\ new.codeFailed = drp.codeFailed /\ new.dbFailed = drp.dbFailed
        BY <1>2 DEF DrupalSite
      <3>2. drp.current = drp.ver /\ ~drp.codeFailed /\ ~drp.dbFailed
        BY <1>14, <2>1 DEF AdvancesFailsafe, CopyIsCurrent, AdvanceFailsafe
      <3>3. CASE /\ cr = drp /\ cr'.ver = cr.ver
                 /\ cr'.current = new.current /\ cr'.failsafe = new.failsafe
                 /\ cr'.codeFailed = new.codeFailed
                 /\ cr'.dbFailed = new.dbFailed
        BY <3>1, <3>2, <3>3 DEF Contract!ContractNext, Contract!Adopt
      <3> QED
        BY <1>1, <1>3, <2>1, <3>3, StatusTypes, StatusWritten
    <2> QED
      BY <1>3, <1>14, <2>1 DEF AdvanceFailsafe, Return, apiVars
  <1>15. CASE Fetch \/ CheckDB \/ EnsureResources
    BY <1>3, <1>15 DEF Fetch, CheckDB, EnsureResources, Goto, apiVars
  <1> QED
    BY <1>5, <1>6, <1>7, <1>8, <1>9, <1>10, <1>11, <1>12, <1>13, <1>14, <1>15
       DEF Reconcile

LEMMA EnvironmentRefines ==
  ASSUME TypeOK, Environment
  PROVE  ContractStep /\ (cr' = cr \/ \E r \in Releases : EditVersion(r))
  <1>1. CASE cr' = cr
    BY <1>1, UnchangedObject DEF ContractStep
  <1>2. ASSUME NEW r \in Releases, EditVersion(r)
        PROVE  ContractStep
    <2>1. /\ cr'.ver = r /\ cr'.current = cr.current
          /\ cr'.failsafe = cr.failsafe /\ cr'.codeFailed = cr.codeFailed
          /\ cr'.dbFailed = cr.dbFailed
      BY <1>2 DEF EditVersion, TypeOK, DrupalSite
    <2> QED
      BY <2>1 DEF ContractStep, Contract!ContractNext, Contract!Request
  <1>3. cr' = cr \/ \E r \in Releases : EditVersion(r)
    BY DEF Environment, InformerSync, Resync, Restart, DeploymentDeleted,
           DBODProvisioned, SiteInstalled, PodStep, PodCreated, PodLate,
           PodRuns, PodReady, PodUnready, PodFails, PodRemoved, SetPod, apiVars
  <1> QED
    BY <1>1, <1>2, <1>3

\* The release status of a site follows the contract, whatever fails and
\* whatever interleaves with the reconciliations.
THEOREM ContractImplemented == Spec => ImplementsContract
  <1>1. Init => Contract!ContractInit
    <2>1. \A r \in Releases :
            /\ NewSite(r).ver = r /\ NewSite(r).current = Empty
            /\ NewSite(r).failsafe = Empty /\ NewSite(r).codeFailed = FALSE
            /\ NewSite(r).dbFailed = FALSE
      BY DEF NewSite
    <2> QED
      BY <2>1 DEF Init, Contract!ContractInit
  <1>2. TypeOK /\ CopyIsCurrent /\ [Next]_vars
          => [Contract!ContractNext]_(Contract!contractVars)
    <2> SUFFICES ASSUME TypeOK, CopyIsCurrent, [Next]_vars
                 PROVE  ContractStep
      BY DEF ContractStep, ContractUnchanged
    <2>1. CASE Next
      BY <2>1, ReconcileRefines, EnvironmentRefines DEF Next
    <2>2. CASE UNCHANGED vars
      BY <2>2, UnchangedObject DEF vars, apiVars, ContractStep
    <2> QED
      BY <2>1, <2>2
  <1> QED
    BY <1>1, <1>2, TypeCorrect, CopyCurrent, PTL
       DEF Spec, ImplementsContract, Contract!ContractSpec

\* No write of the operator ever replaces a version that it has not seen.
THEOREM EditsKept == Spec => OnlyAdministratorEdits
  <1>1. TypeOK /\ CopyIsCurrent /\ [Next]_vars
          => [cr'.ver # cr.ver => \E r \in Releases : EditVersion(r)]_vars
    BY ReconcileRefines, EnvironmentRefines DEF Next
  <1> QED
    BY <1>1, TypeCorrect, CopyCurrent, PTL DEF Spec, OnlyAdministratorEdits

=============================================================================
