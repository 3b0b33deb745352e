---------------------- MODULE SiteUpdateMigrationProofs ----------------------
(***************************************************************************)
(* What SiteUpdate guarantees about the database of a site, about what its *)
(* users are told and about what the operator leaves alone, for every set  *)
(* of releases and every choice of faults.                                 *)
(***************************************************************************)
EXTENDS SiteUpdateProofs

\* What a step after the check of the conditions writes: nothing, or its copy,
\* with another Failsafe only at the end of the reconciliation.
WrittenFromCopy ==
    \/ cr' = cr
    \/ /\ fresh
       /\ cr'.ver = drp.ver /\ cr'.current = drp.current /\ cr'.init = drp.init
       /\ cr'.ready \in {drp.ready, "Error"}
       /\ \/ cr'.failsafe = drp.failsafe
          \/ pc = "finish" /\ cr'.failsafe = drp.ver

LEMMA StatusFields ==
  ASSUME TypeOK, CopyIsCurrent, NEW new \in DrupalSite, NEW event,
         \/ UpdateStatusAndReturn(new, event)
         \/ TransientErrorAndReturn(new, event)
  PROVE  \/ cr' = cr
         \/ /\ fresh /\ cr = drp /\ cr'.ver = drp.ver
            /\ cr'.current = new.current /\ cr'.init = new.init
            /\ cr'.ready = new.ready /\ cr'.failsafe = new.failsafe
  <1>1. cr' = cr \/ (fresh /\ WriteStatus(new))
    BY DEF UpdateStatusAndReturn, TransientErrorAndReturn, WriteAccepted
  <1>2. CASE fresh /\ WriteStatus(new)
    <2>1. cr = drp
      BY <1>2 DEF CopyIsCurrent
    <2>2. cr' = [new EXCEPT !.ver = cr.ver, !.uip = cr.uip]
      BY <1>2 DEF WriteStatus
    <2> QED
      BY <1>2, <2>1, <2>2 DEF DrupalSite
  <1> QED
    BY <1>1, <1>2

LEMMA ObjectFields ==
  ASSUME TypeOK, CopyIsCurrent, NEW uip \in BOOLEAN,
         UpdateObjectAndReturn([drp EXCEPT !.uip = uip])
  PROVE  WrittenFromCopy
  <1>1. cr' = cr \/ (fresh /\ WriteObject([drp EXCEPT !.uip = uip]))
    BY DEF UpdateObjectAndReturn, WriteAccepted
  <1>2. CASE fresh /\ WriteObject([drp EXCEPT !.uip = uip])
    <2>1. cr = drp
      BY <1>2 DEF CopyIsCurrent
    <2>2. cr' = [cr EXCEPT !.ver = drp.ver, !.uip = uip]
      BY <1>2 DEF WriteObject, TypeOK, DrupalSite
    <2> QED
      BY <1>2, <2>1, <2>2 DEF TypeOK, DrupalSite, WrittenFromCopy
  <1> QED
    BY <1>1, <1>2 DEF WrittenFromCopy

\* The objects that the later steps write agree with the copy.
LEMMA SameFields ==
  ASSUME TypeOK, NEW new,
         \/ new \in {drp, CodeFailedStatus, DBFailedStatus, DBUpdatedStatus,
                     [drp EXCEPT !.ready = "Error"],
                     [drp EXCEPT !.dbPending = "Unknown"],
                     [drp EXCEPT !.dbPending = PendingCondition]}
  PROVE  /\ new \in DrupalSite
         /\ new.current = drp.current /\ new.init = drp.init
         /\ new.ready \in {drp.ready, "Error"} /\ new.failsafe = drp.failsafe
  <1>1. new \in DrupalSite
    BY StatusTypes, TypeHalves DEF CallTypeOK
  <1>2. drp \in DrupalSite
    BY DEF TypeOK
  <1> QED
    BY <1>1, <1>2
       DEF DrupalSite, CodeFailedStatus, DBFailedStatus, DBUpdatedStatus

LEMMA SameStatusWritten ==
  ASSUME TypeOK, CopyIsCurrent, NEW event, NEW new,
         new \in {drp, CodeFailedStatus, DBFailedStatus, DBUpdatedStatus,
                  [drp EXCEPT !.ready = "Error"],
                  [drp EXCEPT !.dbPending = "Unknown"],
                  [drp EXCEPT !.dbPending = PendingCondition]},
         \/ UpdateStatusAndReturn(new, event)
         \/ TransientErrorAndReturn(new, event)
  PROVE  WrittenFromCopy
  BY StatusFields, SameFields DEF WrittenFromCopy

LEMMA LaterStepsWrite ==
  ASSUME TypeOK, CopyIsCurrent, Reconcile, ~Fetch, ~CheckConditions
  PROVE  WrittenFromCopy
  <1> USE SameStatusWritten
  <1>1. CASE cr' = cr
    BY <1>1 DEF WrittenFromCopy
  <1>2. CASE CheckCode
    BY <1>1, <1>2, ObjectFields DEF CheckCode, SettleFailedUpdate, Goto, apiVars
  <1>3. CASE AnnotateUpdate
    <2>1. UpdateNeeded \in BOOLEAN
      BY DEF UpdateNeeded, TypeOK
    <2> QED
      BY <1>1, <1>3, <2>1, ObjectFields DEF AnnotateUpdate, Goto, apiVars
  <1>4. CASE EnsureResourcesFails \/ CheckDBOD
    BY <1>1, <1>4 DEF EnsureResourcesFails, CheckDBOD, Goto, apiVars
  <1>5. CASE UpdateDeploymentFails \/ CheckRollout
    BY <1>1, <1>5 DEF UpdateDeploymentFails, CheckRollout, Goto, apiVars
  <1>6. CASE RollBack \/ RollBackFails \/ RollBackAfterReload
    BY <1>6 DEF RollBack, RollBackFails, RollBackAfterReload
  <1>7. CASE ReloadCache
    BY <1>1, <1>7 DEF ReloadCache, Goto, apiVars
  <1>8. CASE TakeBackup \/ RunUpdb \/ RunUpdbFails
    BY <1>1, <1>8 DEF TakeBackup, RunUpdb, RunUpdbFails, Goto, apiVars
  <1>9. CASE AdvanceFailsafe
    <2> DEFINE new == [drp EXCEPT !.failsafe = drp.ver]
    <2>1. CASE UpdateStatusAndReturn(new, FALSE)
      <3>1. new \in DrupalSite /\ new.current = drp.current /\ new.init = drp.init
              /\ new.ready = drp.ready /\ new.failsafe = drp.ver
        BY DEF TypeOK, DrupalSite
      <3> HIDE DEF new
      <3> QED
        BY <1>9, <2>1, <3>1, StatusFields DEF AdvanceFailsafe, WrittenFromCopy
    <2> QED
      BY <1>1, <1>9, <2>1 DEF AdvanceFailsafe, Return, apiVars
  <1>10. CASE CheckDB \/ EnsureResources \/ UpdateDeployment
    BY <1>1, <1>10 DEF CheckDB, EnsureResources, UpdateDeployment, Return, Goto, apiVars
  <1> QED
    BY <1>2, <1>3, <1>4, <1>5, <1>6, <1>7, <1>8, <1>9, <1>10 DEF Reconcile

-----------------------------------------------------------------------------
(* A database update starts in an installed site and from a fresh backup.  *)

InstalledFirst ==
    /\ cr.init \/ cache.init \/ drp.init => installed
    /\ pc \in {"db", "annotate", "backup", "updb"} => drp.init
    /\ codeNeeded \/ dbNeeded => drp.init /\ pc \notin {"idle", "conditions"}
    /\ pc = "updb" => backup = db

LEMMA InstalledStays ==
  ASSUME [Next]_vars, installed
  PROVE  installed'
  BY DEF Next, Reconcile, Environment, vars, kubeVars,
         Fetch, CheckConditions, CheckCode, CheckDB, AnnotateUpdate,
         EnsureResources, EnsureResourcesFails, CheckDBOD, UpdateDeployment,
         UpdateDeploymentFails, CheckRollout, RollBack, RollBackFails,
         ReloadCache, RollBackAfterReload, TakeBackup, RunUpdb, RunUpdbFails,
         AdvanceFailsafe, InformerSync, Resync, Restart, DeploymentDeleted,
         DBODProvisioned, EditVersion, SiteInstalled, PodStep, PodCreated,
         PodLate, PodRuns, PodReady, PodUnready, PodFails, PodRemoved, SetPod

\* Where a step that goes on leads to, and what it has found out.
LEMMA NeedsChecks ==
  ASSUME InstalledFirst, Reconcile, GoesOn
  PROVE  /\ codeNeeded' \/ dbNeeded' => drp.init
         /\ pc' \in {"db", "annotate", "backup", "updb"} => drp.init
         /\ pc' = "updb" => backup' = db'
  <1> USE DEF Goto, GoesOn, InstalledFirst
  <1>1. CASE EndCall
    BY <1>1 DEF EndCall
  <1>2. CASE CheckCode
    BY <1>1, <1>2 DEF CheckCode, ChecksUpdates, SettleFailedUpdate,
                      UpdateStatusAndReturn, UpdateObjectAndReturn
  <1>3. CASE CheckDB
    BY <1>3 DEF CheckDB
  <1>4. CASE AnnotateUpdate \/ EnsureResources \/ EnsureResourcesFails
    BY <1>1, <1>4 DEF AnnotateUpdate, EnsureResources, EnsureResourcesFails,
                      UpdateStatusAndReturn, UpdateObjectAndReturn, TransientErrorAndReturn
  <1>5. CASE CheckDBOD
    BY <1>1, <1>5 DEF CheckDBOD, UpdateStep, UpdatesDB, TransientErrorAndReturn
  <1>6. CASE TakeBackup
    BY <1>1, <1>6 DEF TakeBackup, UpdateStatusAndReturn
  <1>7. CASE UpdateDeployment \/ CheckRollout \/ ReloadCache
    BY <1>1, <1>7 DEF UpdateDeployment, CheckRollout, ReloadCache, Return,
                      UpdateStatusAndReturn, TransientErrorAndReturn
  <1>8. CASE RunUpdb
    BY <1>1, <1>8 DEF RunUpdb, UpdateStatusAndReturn
  <1> QED
    BY <1>1, <1>2, <1>3, <1>4, <1>5, <1>6, <1>7, <1>8
       DEF Reconcile, Fetch, CheckConditions, UpdateDeploymentFails, RollBack,
           RollBackFails, RollBackAfterReload, RunUpdbFails, AdvanceFailsafe,
           UpdateStatusAndReturn, TransientErrorAndReturn, Return

LEMMA InstalledFirstKept ==
  ASSUME TypeOK, CopyIsCurrent, InstalledFirst, [Next]_vars
  PROVE  InstalledFirst'
  <1> USE InstalledStays
  <1>1. ~NoCopy.init
    BY DEF NoCopy, NewSite
  <1>2. CASE Fetch
    BY <1>2 DEF Fetch, InstalledFirst, apiVars
  <1>3. CASE CheckConditions
    <2>1. PICK isInstalled \in InstalledAnswers :
            \/ UpdateStatusAndReturn(ConditionsStatus(isInstalled), FALSE)
            \/ /\ ConditionsStatus(isInstalled) = drp
               /\ Goto("code") /\ UNCHANGED <<codeNeeded, dbNeeded, requeueFlag>>
      BY <1>3 DEF CheckConditions
    <2>2. isInstalled \in BOOLEAN /\ (isInstalled => installed)
      BY DEF InstalledAnswers, InstalledFirst, TypeOK
    <2>3. CASE UpdateStatusAndReturn(ConditionsStatus(isInstalled), FALSE)
      <3>1. /\ ConditionsStatus(isInstalled) \in DrupalSite
            /\ ConditionsStatus(isInstalled).init = isInstalled
        <4>1. ConditionsStatus(isInstalled) \in DrupalSite
          BY <2>2, ConditionsStatusType, TypeHalves
        <4>2. ConditionsStatus(isInstalled).init = isInstalled
          BY DEF ConditionsStatus, TypeOK, DrupalSite
        <4> QED
          BY <4>1, <4>2
      <3>2. cr'.init => cr.init \/ isInstalled
        BY <2>3, <3>1, StatusFields
      <3> QED
        BY <1>1, <2>2, <2>3, <3>2 DEF UpdateStatusAndReturn, EndCall, InstalledFirst
    <2>4. CASE /\ Goto("code") /\ UNCHANGED <<codeNeeded, dbNeeded, requeueFlag>>
      BY <1>3, <2>4 DEF CheckConditions, Goto, InstalledFirst, apiVars
    <2> QED
      BY <2>1, <2>3, <2>4
  <1>4. CASE Reconcile /\ ~Fetch /\ ~CheckConditions
    <2>1. cr'.init => cr.init \/ drp.init
      BY <1>4, LaterStepsWrite DEF WrittenFromCopy
    <2>2. CASE Returns
      BY <1>1, <2>1, <2>2 DEF Returns, EndCall, InstalledFirst
    <2>3. CASE GoesOn
      BY <1>4, <2>1, <2>3, NeedsChecks DEF GoesOn, InstalledFirst
    <2> QED
      BY <1>4, <2>2, <2>3, LaterStepsShape
  <1>5. CASE Environment
    <2>1. CASE \E r \in Releases : EditVersion(r)
      BY <2>1 DEF EditVersion, InstalledFirst, dataVars, TypeOK, DrupalSite
    <2>2. CASE InformerSync
      BY <2>2 DEF InformerSync, InstalledFirst, callVars, dataVars
    <2>3. CASE Restart
      BY <1>1, <2>3 DEF Restart, EndCall, InstalledFirst
    <2>4. CASE UNCHANGED <<apiVars, callVars, dataVars>>
      BY <2>4 DEF apiVars, callVars, dataVars, InstalledFirst
    <2>5. CASE \E r \in Releases : SiteInstalled(r)
      BY <2>5 DEF SiteInstalled, apiVars, callVars, InstalledFirst
    <2>6. \/ \E r \in Releases : EditVersion(r) \/ SiteInstalled(r)
          \/ InformerSync \/ Restart
          \/ UNCHANGED <<apiVars, callVars, dataVars>>
      BY <1>5 DEF Environment, Resync, DeploymentDeleted, DBODProvisioned,
                  PodStep, PodCreated, PodLate, PodRuns,
                  PodReady, PodUnready, PodFails, PodRemoved, SetPod
    <2> QED
      BY <2>1, <2>2, <2>3, <2>4, <2>5, <2>6
  <1>6. CASE UNCHANGED vars
    BY <1>6 DEF vars, apiVars, callVars, dataVars, InstalledFirst
  <1> QED
    BY <1>2, <1>3, <1>4, <1>5, <1>6 DEF Next

LEMMA InstalledFirstHolds == Spec => []InstalledFirst
  <1>1. Init => InstalledFirst
    BY DEF Init, InstalledFirst, NewSite, NoCopy
  <1> QED
    BY <1>1, InstalledFirstKept, TypeCorrect, CopyCurrent, PTL DEF Spec

\* Whatever fails or restarts, an update of the database of an installed site
\* starts from the database that the backup file holds.
THEOREM MigrationBackedUp == Spec => MigrationFollowsBackup
  <1>1. InstalledFirst /\ [Next]_vars => [installed /\ db' # db => backup = db]_vars
    <2> SUFFICES ASSUME InstalledFirst, Next, installed, db' # db
                 PROVE  backup = db
      OBVIOUS
    <2>1. pc = "updb"
      BY DEF Next, Reconcile, Environment, dataVars,
             Fetch, CheckConditions, CheckCode, CheckDB, AnnotateUpdate,
             EnsureResources, EnsureResourcesFails, CheckDBOD, UpdateDeployment,
             UpdateDeploymentFails, CheckRollout, RollBack, RollBackFails,
             ReloadCache, RollBackAfterReload, TakeBackup, RunUpdb, RunUpdbFails,
             AdvanceFailsafe, InformerSync, Resync, Restart, DeploymentDeleted,
             DBODProvisioned, EditVersion, SiteInstalled, PodStep, PodCreated,
             PodLate, PodRuns, PodReady, PodUnready, PodFails, PodRemoved, SetPod
    <2> QED
      BY <2>1 DEF InstalledFirst
  <1> QED
    BY <1>1, InstalledFirstHolds, PTL DEF Spec, MigrationFollowsBackup

-----------------------------------------------------------------------------
(* A Deployment that serves is only taken to another release in a call     *)
(* that works on an object with the annotation.                            *)

AnnouncedFirst ==
    /\ pc \in {"db", "annotate", "ensure"} /\ ChecksUpdates(drp) /\ ~codeNeeded
         => deploy \in {drp.ver, Absent}
    /\ pc = "ensure" /\ ChecksUpdates(drp) /\ ~drp.uip => ~codeNeeded
    /\ pc \in {"deploy", "rollout", "rollback", "reload", "reloadfailed"} => drp.uip

LEMMA AnnouncedFirstGoesOn ==
  ASSUME TypeOK, AnnouncedFirst, Reconcile, GoesOn
  PROVE  AnnouncedFirst'
  <1> USE DEF Goto, GoesOn, ChecksUpdates
  <1>1. CASE EndCall
    BY <1>1 DEF EndCall, AnnouncedFirst
  <1>2. CASE CheckCode
    <2>1. CASE ChecksUpdates(drp)
      BY <1>1, <1>2, <2>1
         DEF CheckCode, SettleFailedUpdate, UpdateStatusAndReturn,
             UpdateObjectAndReturn, codeUpdateNeeded, CodeDiffers,
             CodeDiffersByImage, AnnouncedFirst, kubeVars
    <2>2. CASE ~ChecksUpdates(drp)
      BY <1>1, <1>2, <2>2
         DEF CheckCode, SettleFailedUpdate, UpdateStatusAndReturn,
             UpdateObjectAndReturn, AnnouncedFirst
    <2> QED
      BY <2>1, <2>2
  <1>3. CASE CheckDB
    BY <1>3 DEF CheckDB, AnnouncedFirst, kubeVars
  <1>4. CASE AnnotateUpdate
    BY <1>1, <1>4 DEF AnnotateUpdate, UpdateNeeded, UpdateStatusAndReturn,
                      UpdateObjectAndReturn, AnnouncedFirst, kubeVars
  <1>5. CASE CheckDBOD
    BY <1>1, <1>5 DEF CheckDBOD, UpdateStep, UpdatesCode, UpdatesDB,
                      TransientErrorAndReturn, AnnouncedFirst
  <1>6. CASE UpdateDeployment \/ CheckRollout \/ ReloadCache
    BY <1>1, <1>6 DEF UpdateDeployment, CheckRollout, ReloadCache, Return,
                      UpdateStatusAndReturn, TransientErrorAndReturn, AnnouncedFirst
  <1>7. CASE EnsureResources \/ TakeBackup \/ RunUpdb
    BY <1>1, <1>7 DEF EnsureResources, TakeBackup, RunUpdb, UpdateStatusAndReturn,
                      AnnouncedFirst
  <1> QED
    BY <1>1, <1>2, <1>3, <1>4, <1>5, <1>6, <1>7
       DEF Reconcile, Fetch, CheckConditions, EnsureResourcesFails,
           UpdateDeploymentFails, RollBack, RollBackFails, RollBackAfterReload,
           RunUpdbFails, AdvanceFailsafe, UpdateStatusAndReturn,
           TransientErrorAndReturn, Return

LEMMA AnnouncedFirstKept ==
  ASSUME TypeOK, CopyIsCurrent, AnnouncedFirst, [Next]_vars
  PROVE  AnnouncedFirst'
  <1>1. CASE Fetch \/ EndCall
    BY <1>1 DEF Fetch, EndCall, AnnouncedFirst
  <1>2. CASE CheckConditions
    BY <1>2, <1>1 DEF CheckConditions, UpdateStatusAndReturn, Goto, AnnouncedFirst
  <1>3. CASE Reconcile /\ ~Fetch /\ ~CheckConditions
    BY <1>1, <1>3, LaterStepsShape, AnnouncedFirstGoesOn DEF Returns
  <1>4. CASE Environment
    <2> USE DEF AnnouncedFirst, callVars, ChecksUpdates
    <2>1. CASE \E r \in Releases : EditVersion(r)
      BY <2>1 DEF EditVersion, kubeVars
    <2>2. CASE Restart
      BY <1>1, <2>2 DEF Restart
    <2>3. CASE InformerSync \/ Resync \/ DeploymentDeleted \/ DBODProvisioned
      BY <2>3 DEF InformerSync, Resync, DeploymentDeleted, DBODProvisioned, kubeVars
    <2>4. CASE \E r \in Releases : SiteInstalled(r)
      BY <2>4 DEF SiteInstalled
    <2>5. CASE \E r \in Releases : PodStep(r)
      BY <2>5 DEF PodStep, PodCreated, PodLate, PodRuns, PodReady, PodUnready,
                  PodFails, PodRemoved, SetPod
    <2> QED
      BY <1>4, <2>1, <2>2, <2>3, <2>4, <2>5 DEF Environment
  <1>5. CASE UNCHANGED vars
    BY <1>5 DEF vars, callVars, kubeVars, AnnouncedFirst, ChecksUpdates
  <1> QED
    BY <1>2, <1>3, <1>4, <1>5, <1>1 DEF Next

LEMMA AnnouncedFirstHolds == Spec => []AnnouncedFirst
  <1>1. Init => AnnouncedFirst
    BY DEF Init, AnnouncedFirst
  <1> QED
    BY <1>1, AnnouncedFirstKept, TypeCorrect, CopyCurrent, PTL DEF Spec

\* A call that sees the site serving changes the release of its Deployment
\* only when its copy carries the annotation updateInProgress: the users of
\* the site are told before the update starts, and until the rollback.
THEOREM UpdateAnnounced == Spec => UpdateIsAnnounced
  <1>1. TypeOK /\ AnnouncedFirst /\ [Next]_vars
          => [deploy' # deploy /\ {deploy, deploy'} \subseteq Releases
                /\ drp.ready = "True" /\ drp.init => drp.uip]_vars
    <2> SUFFICES ASSUME TypeOK, AnnouncedFirst, Next, deploy' # deploy,
                        {deploy, deploy'} \subseteq Releases,
                        drp.ready = "True", drp.init
                 PROVE  drp.uip
      OBVIOUS
    <2>1. deploy # Absent /\ deploy' # Absent
      BY ReleasesAssumption
    <2>2. CASE EnsureResources \/ EnsureResourcesFails
      BY <2>1, <2>2 DEF EnsureResources, EnsureResourcesFails, EnsureDeployment,
                        DeploymentHeld, ChecksUpdates, AnnouncedFirst
    <2>3. CASE UpdateDeployment \/ RollBack \/ RollBackAfterReload
      BY <2>3 DEF UpdateDeployment, RollBack, RollBackAfterReload, AnnouncedFirst
    <2> QED
      BY <2>1, <2>2, <2>3 DEF Next, Reconcile, Environment, kubeVars,
             Fetch, CheckConditions, CheckCode, CheckDB, AnnotateUpdate, CheckDBOD,
             UpdateDeploymentFails, CheckRollout, RollBackFails, ReloadCache,
             TakeBackup, RunUpdb, RunUpdbFails, AdvanceFailsafe, InformerSync,
             Resync, Restart, DeploymentDeleted, DBODProvisioned, EditVersion,
             SiteInstalled, PodStep, PodCreated, PodLate, PodRuns, PodReady,
             PodUnready, PodFails, PodRemoved, SetPod
  <1> QED
    BY <1>1, TypeCorrect, AnnouncedFirstHolds, PTL DEF Spec, UpdateIsAnnounced

-----------------------------------------------------------------------------
(* A database is only migrated to the Failsafe, as long as nobody deletes  *)
(* the Deployment: without one, codeUpdateNeeded reports no difference.    *)

\* The Failsafe of a copy is behind the stored one by its own adoption only.
Lags(c) == c.failsafe = cr.failsafe \/ (c.current = c.ver /\ cr.failsafe = c.ver)

AdoptedFirst ==
    /\ cr.ready = "True" \/ cache.ready = "True" \/ drp.ready = "True"
         => deploy # Absent
    /\ Lags(cache) /\ (pc # "idle" => Lags(drp))
    /\ fresh => synced /\ cache = drp
    /\ pc \in {"db", "backup", "updb"} \/ dbNeeded
         => drp.failsafe \in {Empty, drp.current}

LEMMA DeploymentStays ==
  ASSUME TypeOK, [Next]_vars, "delete" \notin Faults, deploy # Absent
  PROVE  deploy' # Absent
  <1>1. deploy' # deploy => deploy' \in {drp.ver, drp.failsafe}
    BY DEF Next, Reconcile, Environment, vars, kubeVars, EnsureDeployment,
         Fetch, CheckConditions, CheckCode, CheckDB, AnnotateUpdate,
         EnsureResources, EnsureResourcesFails, CheckDBOD, UpdateDeployment,
         UpdateDeploymentFails, CheckRollout, RollBack, RollBackFails,
         ReloadCache, RollBackAfterReload, TakeBackup, RunUpdb, RunUpdbFails,
         AdvanceFailsafe, InformerSync, Resync, Restart, DeploymentDeleted,
         DBODProvisioned, EditVersion, SiteInstalled, PodStep, PodCreated,
         PodLate, PodRuns, PodReady, PodUnready, PodFails, PodRemoved, SetPod
  <1>2. drp.ver # Absent /\ drp.failsafe # Absent
    BY ReleasesAssumption DEF TypeOK, DrupalSite, ReleaseIDs
  <1> QED
    BY <1>1, <1>2

\* A step that goes on to the database has found the code up to date.
LEMMA CodeChecksFirst ==
  ASSUME AdoptedFirst, Reconcile, GoesOn
  PROVE  pc' \in {"db", "backup", "updb"} \/ dbNeeded'
           => drp.failsafe \in {Empty, drp.current}
  <1> USE DEF Goto, GoesOn, AdoptedFirst
  <1>1. CASE EndCall
    BY <1>1 DEF EndCall
  <1>2. CASE CheckCode
    BY <1>1, <1>2 DEF CheckCode, ChecksUpdates, SettleFailedUpdate,
                      UpdateStatusAndReturn, UpdateObjectAndReturn,
                      codeUpdateNeeded, CodeDiffers, CodeDiffersByFailsafe
  <1>3. CASE CheckDB
    BY <1>3 DEF CheckDB
  <1>4. CASE AnnotateUpdate \/ EnsureResources \/ EnsureResourcesFails
    BY <1>1, <1>4 DEF AnnotateUpdate, EnsureResources, EnsureResourcesFails,
                      UpdateStatusAndReturn, UpdateObjectAndReturn, TransientErrorAndReturn
  <1>5. CASE CheckDBOD
    BY <1>1, <1>5 DEF CheckDBOD, UpdateStep, UpdatesDB, TransientErrorAndReturn
  <1>6. CASE TakeBackup
    BY <1>1, <1>6 DEF TakeBackup, UpdateStatusAndReturn
  <1>7. CASE UpdateDeployment \/ CheckRollout \/ ReloadCache
    BY <1>1, <1>7 DEF UpdateDeployment, CheckRollout, ReloadCache, Return,
                      UpdateStatusAndReturn, TransientErrorAndReturn
  <1>8. CASE RunUpdb
    BY <1>1, <1>8 DEF RunUpdb, UpdateStatusAndReturn
  <1> QED
    BY <1>1, <1>2, <1>3, <1>4, <1>5, <1>6, <1>7, <1>8
       DEF Reconcile, Fetch, CheckConditions, UpdateDeploymentFails, RollBack,
           RollBackFails, RollBackAfterReload, RunUpdbFails, AdvanceFailsafe,
           UpdateStatusAndReturn, TransientErrorAndReturn, Return

\* What a return leaves of the induction hypothesis: only the object changes.
LEMMA ReturnKeepsAdoption ==
  ASSUME AdoptedFirst, Returns,
         cr'.ready = "True" => deploy' # Absent,
         deploy # Absent => deploy' # Absent,
         \/ cr'.failsafe = cr.failsafe
         \/ fresh /\ drp.current = drp.ver /\ cr'.failsafe = drp.ver
  PROVE  AdoptedFirst'
  <1>1. /\ pc' = "idle" /\ drp' = NoCopy /\ fresh' = FALSE /\ dbNeeded' = FALSE
        /\ cache' = cache
    BY DEF Returns, EndCall
  <1>2. NoCopy.ready # "True"
    BY DEF NoCopy, NewSite
  <1>3. Lags(cache)'
    BY <1>1 DEF Lags, AdoptedFirst
  <1> QED
    BY <1>1, <1>2, <1>3 DEF AdoptedFirst

LEMMA AdoptedFirstKept ==
  ASSUME TypeOK, CopyIsCurrent, InstalledFirst, AdoptedFirst, [Next]_vars,
         "delete" \notin Faults
  PROVE  AdoptedFirst'
  <1> USE DeploymentStays
  <1>1. CASE Fetch
    BY <1>1 DEF Fetch, AdoptedFirst, InstalledFirst, Lags, apiVars, TypeOK
  <1>2. CASE CheckConditions
    <2>1. PICK isInstalled \in InstalledAnswers :
            \/ UpdateStatusAndReturn(ConditionsStatus(isInstalled), FALSE)
            \/ Goto("code") /\ UNCHANGED <<codeNeeded, dbNeeded, requeueFlag>>
      BY <1>2 DEF CheckConditions
    <2>2. CASE UpdateStatusAndReturn(ConditionsStatus(isInstalled), FALSE)
      <3>1. ConditionsStatus(isInstalled) \in DrupalSite
        BY ConditionsStatusType, TypeHalves DEF InstalledAnswers, TypeOK
      <3>2. /\ ConditionsStatus(isInstalled).failsafe = drp.failsafe
            /\ ConditionsStatus(isInstalled).ready = ReadyCondition
        BY DEF ConditionsStatus, TypeOK, DrupalSite
      <3>3. /\ cr'.failsafe = cr.failsafe
            /\ cr'.ready = "True" => cr.ready = "True" \/ SiteReady
        BY <2>2, <3>1, <3>2, StatusFields DEF ReadyCondition
      <3>4. Returns
        BY <2>2, ReturnsReturn
      <3> QED
        BY <3>3, <3>4, ReturnKeepsAdoption DEF SiteReady, AdoptedFirst
    <2>3. CASE Goto("code") /\ UNCHANGED <<codeNeeded, dbNeeded, requeueFlag>>
      BY <1>2, <2>3 DEF CheckConditions, Goto, AdoptedFirst, Lags, apiVars
    <2> QED
      BY <2>1, <2>2, <2>3
  <1>3. CASE Reconcile /\ ~Fetch /\ ~CheckConditions
    <2>1. CASE Returns
      <3>1. WrittenFromCopy
        BY <1>3, LaterStepsWrite
      <3>2. cr'.ready = "True" => cr.ready = "True" \/ drp.ready = "True"
        BY <3>1 DEF WrittenFromCopy
      <3>3. \/ cr'.failsafe = cr.failsafe
            \/ fresh /\ drp.current = drp.ver /\ cr'.failsafe = drp.ver
        BY <3>1 DEF WrittenFromCopy, CopyIsCurrent
      <3> QED
        BY <2>1, <3>2, <3>3, ReturnKeepsAdoption DEF AdoptedFirst
    <2>2. CASE GoesOn
      <3>1. pc' \in {"db", "backup", "updb"} \/ dbNeeded'
              => drp.failsafe \in {Empty, drp.current}
        BY <1>3, <2>2, CodeChecksFirst
      <3> QED
        BY <2>2, <3>1 DEF GoesOn, AdoptedFirst, Lags
    <2> QED
      BY <1>3, <2>1, <2>2, LaterStepsShape
  <1>4. CASE Environment
    <2> USE DEF AdoptedFirst, Lags, callVars, apiVars
    <2>1. CASE \E r \in Releases : EditVersion(r)
      <3>1. cr'.failsafe = cr.failsafe /\ cr'.ready = cr.ready
        BY <2>1 DEF EditVersion, TypeOK, DrupalSite
      <3> QED
        BY <2>1, <3>1 DEF EditVersion
    <2>2. CASE InformerSync
      BY <2>2 DEF InformerSync
    <2>3. CASE Restart
      BY <2>3 DEF Restart, EndCall, NoCopy, NewSite
    <2>4. CASE UNCHANGED <<apiVars, callVars>>
      BY <2>4
    <2>5. \/ \E r \in Releases : EditVersion(r)
          \/ InformerSync \/ Restart
          \/ UNCHANGED <<apiVars, callVars>>
      BY <1>4 DEF Environment, Resync, DeploymentDeleted, DBODProvisioned,
                  SiteInstalled, PodStep, PodCreated, PodLate, PodRuns,
                  PodReady, PodUnready, PodFails, PodRemoved, SetPod
    <2> QED
      BY <2>1, <2>2, <2>3, <2>4, <2>5
  <1>5. CASE UNCHANGED vars
    BY <1>5 DEF vars, apiVars, callVars, AdoptedFirst, Lags
  <1> QED
    BY <1>1, <1>2, <1>3, <1>4, <1>5 DEF Next

\* While nobody deletes the Deployment, an update of the database that ends
\* leaves the schema of the Failsafe, or of the first release of the site:
\* never of a release whose rollout may still be rolled back.
THEOREM MigrationAdopted == "delete" \notin Faults /\ Spec => MigratesAdoptedRelease
  <1> SUFFICES ASSUME "delete" \notin Faults
               PROVE  Spec => MigratesAdoptedRelease
    OBVIOUS
  <1>1. Init => AdoptedFirst
    BY DEF Init, AdoptedFirst, Lags, NewSite, NoCopy
  <1>2. TypeOK /\ CopyIsCurrent /\ InstalledFirst /\ AdoptedFirst /\ [Next]_vars
          => AdoptedFirst'
    BY AdoptedFirstKept
  <1>3. TypeOK /\ CopyIsCurrent /\ AdoptedFirst /\ [Next]_vars
          => [installed /\ db' # db /\ ~db'.half
                => cr.failsafe \in {db'.schema, Empty}]_vars
    <2> SUFFICES ASSUME TypeOK, CopyIsCurrent, AdoptedFirst, Next,
                        installed, db' # db, ~db'.half
                 PROVE  cr.failsafe \in {db'.schema, Empty}
      OBVIOUS
    <2>1. RunUpdb \/ RunUpdbFails
      BY DEF Next, Reconcile, Environment, dataVars,
             Fetch, CheckConditions, CheckCode, CheckDB, AnnotateUpdate,
             EnsureResources, EnsureResourcesFails, CheckDBOD, UpdateDeployment,
             UpdateDeploymentFails, CheckRollout, RollBack, RollBackFails,
             ReloadCache, RollBackAfterReload, TakeBackup,
             AdvanceFailsafe, InformerSync, Resync, Restart, DeploymentDeleted,
             DBODProvisioned, EditVersion, SiteInstalled, PodStep, PodCreated,
             PodLate, PodRuns, PodReady, PodUnready, PodFails, PodRemoved, SetPod
    <2>2. CASE RunUpdbFails
      <3>1. pc = "updb" /\ db'.schema = drp.ver
        BY <2>2 DEF RunUpdbFails, TypeOK, Databases
      <3> QED
        BY <3>1 DEF AdoptedFirst, CopyIsCurrent, Lags
    <2>3. CASE RunUpdb
      <3>1. pc = "updb" /\ db'.schema = drp.ver
        BY <2>3 DEF RunUpdb
      <3> QED
        BY <3>1 DEF AdoptedFirst, CopyIsCurrent, Lags
    <2> QED
      BY <2>1, <2>2, <2>3
  <1> QED
    BY <1>1, <1>2, <1>3, TypeCorrect, CopyCurrent, InstalledFirstHolds, PTL
       DEF Spec, MigratesAdoptedRelease

-----------------------------------------------------------------------------
(* A serving site at rest carries the annotation updateInProgress exactly  *)
(* when an update is due, as long as no write to the API server fails.     *)

\* What a call has found out, whatever has happened since: only a call that
\* sees the site serving looks for updates, the steps of an update follow
\* from what it found, and past the annotation its copy says so.
NeedsFollowChecks ==
    /\ codeNeeded \/ dbNeeded \/ pc \in {"db", "annotate"} => ChecksUpdates(drp)
    /\ pc \in {"idle", "conditions"} => ~codeNeeded /\ ~dbNeeded
    /\ pc \in {"deploy", "rollout", "rollback", "reload", "reloadfailed"}
         => codeNeeded
    /\ pc \in {"backup", "updb"} => dbNeeded
    /\ pc \notin {"idle", "conditions", "code", "db", "annotate"}
         /\ ChecksUpdates(drp)
         => (drp.uip <=> UpdateNeeded) /\ drp.dbPending = PendingCondition

\* While no wake-up is due and the copy is current, what the call has found
\* out is still true; an answer it did not get makes it requeue at the end.
NeedsTrue ==
    fresh /\ ~queued /\ ChecksUpdates(drp) =>
      /\ pc \notin {"idle", "conditions", "code"}
           => (codeNeeded <=> codeUpdateNeeded(drp))
      /\ pc \notin {"idle", "conditions", "code", "db"}
           => requeueFlag \/ codeNeeded \/ (dbNeeded <=> HasUpdb(drp.ver))

LEMMA NeedsFollowGoingOn ==
  ASSUME TypeOK, NeedsFollowChecks, Reconcile, GoesOn
  PROVE  NeedsFollowChecks'
  <1> USE DEF Goto, GoesOn, ChecksUpdates, UpdateNeeded, PendingCondition
  <1>1. CASE EndCall
    BY <1>1 DEF EndCall
  <1>2. CASE CheckCode
    <2>1. CASE ChecksUpdates(drp)
      BY <1>1, <1>2, <2>1
         DEF CheckCode, SettleFailedUpdate, UpdateStatusAndReturn,
             UpdateObjectAndReturn, NeedsFollowChecks
    <2>2. CASE ~ChecksUpdates(drp)
      BY <1>1, <1>2, <2>2
         DEF CheckCode, SettleFailedUpdate, UpdateStatusAndReturn,
             UpdateObjectAndReturn, NeedsFollowChecks
    <2> QED
      BY <2>1, <2>2
  <1>3. CASE CheckDB
    BY <1>3 DEF CheckDB, NeedsFollowChecks
  <1>4. CASE AnnotateUpdate
    BY <1>1, <1>4 DEF AnnotateUpdate, UpdateStatusAndReturn,
                      UpdateObjectAndReturn, NeedsFollowChecks
  <1>5. CASE CheckDBOD
    BY <1>1, <1>5 DEF CheckDBOD, UpdateStep, UpdatesCode, UpdatesDB,
                      TransientErrorAndReturn, NeedsFollowChecks
  <1>6. CASE UpdateDeployment \/ CheckRollout \/ ReloadCache
    BY <1>1, <1>6 DEF UpdateDeployment, CheckRollout, ReloadCache, Return,
                      UpdateStatusAndReturn, TransientErrorAndReturn, NeedsFollowChecks
  <1>7. CASE EnsureResources \/ TakeBackup \/ RunUpdb
    BY <1>1, <1>7 DEF EnsureResources, TakeBackup, RunUpdb, UpdateStatusAndReturn,
                      NeedsFollowChecks
  <1> QED
    BY <1>1, <1>2, <1>3, <1>4, <1>5, <1>6, <1>7
       DEF Reconcile, Fetch, CheckConditions, EnsureResourcesFails,
           UpdateDeploymentFails, RollBack, RollBackFails, RollBackAfterReload,
           RunUpdbFails, AdvanceFailsafe, UpdateStatusAndReturn,
           TransientErrorAndReturn, Return

LEMMA NeedsFollowKept ==
  ASSUME TypeOK, NeedsFollowChecks, [Next]_vars
  PROVE  NeedsFollowChecks'
  <1>1. CASE EndCall
    BY <1>1 DEF EndCall, NeedsFollowChecks
  <1>2. CASE Fetch
    BY <1>2 DEF Fetch, NeedsFollowChecks
  <1>3. CASE CheckConditions
    BY <1>1, <1>3 DEF CheckConditions, UpdateStatusAndReturn, Goto, NeedsFollowChecks
  <1>4. CASE Reconcile /\ ~Fetch /\ ~CheckConditions
    BY <1>1, <1>4, LaterStepsShape, NeedsFollowGoingOn DEF Returns
  <1>5. CASE UNCHANGED callVars
    BY <1>5 DEF callVars, NeedsFollowChecks, ChecksUpdates, UpdateNeeded,
                PendingCondition
  <1>6. CASE \E r \in Releases : EditVersion(r)
    BY <1>6 DEF EditVersion, NeedsFollowChecks, ChecksUpdates, UpdateNeeded,
                PendingCondition
  <1> QED
    BY <1>1, <1>2, <1>3, <1>4, <1>5, <1>6
       DEF Next, Environment, vars, InformerSync, Resync, Restart,
           DeploymentDeleted, DBODProvisioned, SiteInstalled, PodStep,
           PodCreated, PodLate, PodRuns, PodReady, PodUnready, PodFails,
           PodRemoved, SetPod

LEMMA NeedsFollowHolds == Spec => []NeedsFollowChecks
  <1>1. Init => NeedsFollowChecks
    BY DEF Init, NeedsFollowChecks
  <1> QED
    BY <1>1, NeedsFollowKept, TypeCorrect, PTL DEF Spec

\* An attempt to write a status that differs from the copy leaves a wake-up.
LEMMA ChangedStatusWakes ==
  ASSUME TypeOK, CopyIsCurrent, NEW new \in DrupalSite, NEW event,
         new # drp, new.ver = drp.ver, new.uip = drp.uip,
         UpdateStatusAndReturn(new, event)
  PROVE  ~AtRest'
  <1>1. CASE fresh /\ WriteStatus(new)
    <2>1. cr = drp
      BY <1>1 DEF CopyIsCurrent
    <2>2. cr' = new
      BY <1>1, <2>1 DEF WriteStatus, DrupalSite
    <2> QED
      BY <1>1, <2>1, <2>2 DEF WriteStatus, AtRest
  <1> QED
    BY <1>1 DEF UpdateStatusAndReturn, WriteAccepted, AtRest

LEMMA ChangedAnnotationWakes ==
  ASSUME TypeOK, CopyIsCurrent, NEW b \in BOOLEAN, drp.uip # b,
         UpdateObjectAndReturn([drp EXCEPT !.uip = b])
  PROVE  ~AtRest'
  <1>1. CASE fresh /\ WriteObject([drp EXCEPT !.uip = b])
    <2>1. cr = drp
      BY <1>1 DEF CopyIsCurrent
    <2>2. cr'.uip = b
      BY <1>1 DEF WriteObject, TypeOK, DrupalSite
    <2> QED
      BY <1>1, <2>1, <2>2 DEF WriteObject, AtRest
  <1> QED
    BY <1>1 DEF UpdateObjectAndReturn, WriteAccepted, AtRest

\* The statuses of a failed or of a finished update differ from the copy.
LEMMA OutcomesDiffer ==
  ASSUME TypeOK, CopyIsCurrent, NeedsFollowChecks
  PROVE  /\ pc \in {"rollback", "reloadfailed"}
              => CodeFailedStatus # drp
         /\ pc \in {"backup", "updb"} => DBFailedStatus # drp
         /\ pc = "updb" => DBUpdatedStatus # drp
         /\ \A new \in {CodeFailedStatus, DBFailedStatus, DBUpdatedStatus} :
              new \in DrupalSite /\ new.ver = drp.ver /\ new.uip = drp.uip
  <1>1. drp \in DrupalSite
    BY DEF TypeOK
  <1>2. CodeFailedStatus.codeFailed /\ DBFailedStatus.dbFailed
          /\ DBUpdatedStatus.dbPending = "none"
    BY <1>1 DEF CodeFailedStatus, DBFailedStatus, DBUpdatedStatus, DrupalSite
  <1>3. pc = "updb" => drp.dbPending = "True"
    BY DEF NeedsFollowChecks, PendingCondition
  <1>4. \A new \in {CodeFailedStatus, DBFailedStatus, DBUpdatedStatus} :
          new \in DrupalSite
    BY StatusTypes, TypeHalves
  <1>5. \A new \in {CodeFailedStatus, DBFailedStatus, DBUpdatedStatus} :
          new.ver = drp.ver /\ new.uip = drp.uip
    BY <1>1 DEF CodeFailedStatus, DBFailedStatus, DBUpdatedStatus, DrupalSite
  <1> QED
    BY <1>2, <1>3, <1>4, <1>5 DEF CopyIsCurrent

\* Which returns leave no wake-up behind when no write to the API server
\* fails: the call found no update to look for, it waits for the new pods, or
\* it reached its end with nothing to write.
LEMMA QuietReturns ==
  ASSUME TypeOK, CopyIsCurrent, NeedsFollowChecks, "api" \notin Faults,
         Reconcile, ~Fetch, ~CheckConditions, Returns, AtRest', ~drp.codeFailed
  PROVE  \/ pc \in {"rollout", "reload"}
         \/ pc = "finish" /\ ~requeueFlag
  <1>1. CASE CheckCode \/ CheckDB \/ EnsureResources
    BY <1>1 DEF CheckCode, SettleFailedUpdate, CheckDB, EnsureResources, Goto,
                Returns, EndCall
  <1>2. CASE AnnotateUpdate
    <2> DEFINE new == [drp EXCEPT !.dbPending = PendingCondition]
    <2>1. UpdateNeeded \in BOOLEAN
      BY DEF UpdateNeeded, TypeOK
    <2>2. CASE drp.uip # UpdateNeeded
                 /\ UpdateObjectAndReturn([drp EXCEPT !.uip = UpdateNeeded])
      BY <2>1, <2>2, ChangedAnnotationWakes
    <2>3. CASE drp.dbPending # PendingCondition /\ UpdateStatusAndReturn(new, FALSE)
      <3>1. new \in DrupalSite
        BY StatusTypes, TypeHalves
      <3>2. new.dbPending = PendingCondition /\ new.ver = drp.ver /\ new.uip = drp.uip
        BY DEF TypeOK, DrupalSite
      <3> HIDE DEF new
      <3> QED
        BY <2>3, <3>1, <3>2, ChangedStatusWakes
    <2> QED
      BY <1>2, <2>2, <2>3 DEF AnnotateUpdate, Goto, Returns, EndCall
  <1>3. CASE CheckDBOD
    BY <1>3 DEF CheckDBOD, UpdateStep, Goto, Returns, EndCall,
                TransientErrorAndReturn, AtRest
  <1>4. CASE UpdateDeployment
    BY <1>4 DEF UpdateDeployment, Goto, Return, Returns, EndCall, AtRest
  <1>5. CASE CheckRollout \/ ReloadCache
    BY <1>5 DEF CheckRollout, ReloadCache
  <1>6. CASE RollBack \/ RollBackAfterReload
    <2>1. PICK event : UpdateStatusAndReturn(CodeFailedStatus, event)
      BY <1>6 DEF RollBack, RollBackAfterReload
    <2>2. pc \in {"rollback", "reloadfailed"}
      BY <1>6 DEF RollBack, RollBackAfterReload
    <2> QED
      BY <2>1, <2>2, OutcomesDiffer, ChangedStatusWakes
  <1>7. CASE TakeBackup \/ RunUpdb \/ RunUpdbFails
    <2>1. pc \in {"backup", "updb"}
      BY <1>7 DEF TakeBackup, RunUpdb, RunUpdbFails
    <2>2. \/ UpdateStatusAndReturn(DBFailedStatus, FALSE)
          \/ pc = "updb" /\ UpdateStatusAndReturn(DBUpdatedStatus, FALSE)
      BY <1>7 DEF TakeBackup, RunUpdb, RunUpdbFails, Goto, Returns, EndCall
    <2> QED
      BY <2>1, <2>2, OutcomesDiffer, ChangedStatusWakes
  <1>8. CASE AdvanceFailsafe
    <2> DEFINE new == [drp EXCEPT !.failsafe = drp.ver]
    <2>1. CASE AdvancesFailsafe(drp) /\ UpdateStatusAndReturn(new, FALSE)
      <3>1. new \in DrupalSite
        BY StatusTypes, TypeHalves
      <3>2. new.failsafe = drp.ver /\ new.ver = drp.ver /\ new.uip = drp.uip
        BY DEF TypeOK, DrupalSite
      <3>3. drp.ver # drp.failsafe
        BY <1>8, <2>1 DEF AdvancesFailsafe, AdvanceFailsafe, CopyIsCurrent
      <3> HIDE DEF new
      <3> QED
        BY <2>1, <3>1, <3>2, <3>3, ChangedStatusWakes
    <2>2. CASE Return(requeueFlag)
      BY <1>8, <2>2 DEF AdvanceFailsafe, Return, AtRest
    <2> QED
      BY <1>8, <2>1, <2>2 DEF AdvanceFailsafe
  <1> QED
    BY <1>1, <1>2, <1>3, <1>4, <1>5, <1>6, <1>7, <1>8
       DEF Reconcile, EnsureResourcesFails, UpdateDeploymentFails, RollBackFails

\* Only the update itself and the installation job write the database.
LEMMA DatabaseStays ==
  ASSUME Reconcile, pc # "updb"
  PROVE  db' = db
  BY DEF Reconcile, dataVars, Fetch, CheckConditions, CheckCode, CheckDB,
         AnnotateUpdate, EnsureResources, EnsureResourcesFails, CheckDBOD,
         UpdateDeployment, UpdateDeploymentFails, CheckRollout, RollBack,
         RollBackFails, ReloadCache, RollBackAfterReload, TakeBackup, RunUpdb,
         RunUpdbFails, AdvanceFailsafe

\* An update of the database that ends has its outcome written: the call
\* that made it does not go on.
LEMMA UpdateReturns ==
  ASSUME TypeOK, CopyIsCurrent, NeedsFollowChecks, Reconcile, GoesOn
  PROVE  db' = db
  <1>1. CASE RunUpdb
    <2>1. UpdateStatusAndReturn(DBUpdatedStatus, FALSE)
      BY <1>1, OutcomesDiffer DEF RunUpdb
    <2> QED
      BY <2>1 DEF UpdateStatusAndReturn, EndCall, GoesOn
  <1>2. CASE RunUpdbFails
    BY <1>2 DEF RunUpdbFails, UpdateStatusAndReturn, EndCall, GoesOn
  <1>3. CASE ~RunUpdb /\ ~RunUpdbFails
    BY <1>3
       DEF Reconcile, dataVars, Fetch, CheckConditions, CheckCode, CheckDB,
           AnnotateUpdate, EnsureResources, EnsureResourcesFails, CheckDBOD,
           UpdateDeployment, UpdateDeploymentFails, CheckRollout, RollBack,
           RollBackFails, ReloadCache, RollBackAfterReload, TakeBackup,
           AdvanceFailsafe
  <1> QED
    BY <1>1, <1>2, <1>3

LEMMA NeedsTrueGoingOn ==
  ASSUME TypeOK, CopyIsCurrent, NeedsFollowChecks, NeedsTrue, Reconcile, ~Fetch,
         GoesOn
  PROVE  NeedsTrue'
  <1> SUFFICES ASSUME fresh', ~queued', ChecksUpdates(drp)'
               PROVE  NeedsTrue'
    BY DEF NeedsTrue
  <1> USE DEF GoesOn, Goto
  <1>1. fresh /\ ~queued /\ drp' = drp /\ ChecksUpdates(drp) /\ ~drp.codeFailed
    BY QueueKept DEF ChecksUpdates
  <1>2. deploy' = deploy /\ db' = db
    BY <1>1, DeploymentChangeQueues, UpdateReturns
  <1>3. codeUpdateNeeded(drp)' = codeUpdateNeeded(drp)
          /\ HasUpdb(drp.ver)' = HasUpdb(drp.ver)
    BY <1>1, <1>2 DEF codeUpdateNeeded, CodeDiffers, CodeDiffersByImage,
                      CodeDiffersByFailsafe, HasUpdb
  <1>4. CASE CheckCode
    BY <1>1, <1>3, <1>4
       DEF CheckCode, SettleFailedUpdate, NeedsTrue, codeUpdateNeeded
  <1>5. CASE CheckDB
    BY <1>1, <1>3, <1>5 DEF CheckDB, UpdbAnswers, NeedsTrue
  <1>6. CASE EndCall
    BY <1>6 DEF EndCall
  <1>7. CASE /\ UNCHANGED <<codeNeeded, dbNeeded, requeueFlag>>
             /\ pc \notin {"idle", "conditions", "code", "db"}
    BY <1>1, <1>3, <1>7 DEF NeedsTrue
  <1> QED
    BY <1>4, <1>5, <1>6, <1>7
       DEF Reconcile, CheckConditions, AnnotateUpdate, EnsureResources,
           EnsureResourcesFails, CheckDBOD, UpdateDeployment,
           UpdateDeploymentFails, CheckRollout, RollBack, RollBackFails,
           ReloadCache, RollBackAfterReload, TakeBackup, RunUpdb, RunUpdbFails,
           AdvanceFailsafe, UpdateStatusAndReturn, UpdateObjectAndReturn,
           TransientErrorAndReturn, Return

\* What the environment does unnoticed: neither the object nor what an update
\* depends on changes.
LEMMA UnnoticedStep ==
  ASSUME TypeOK, Environment, ~queued'
  PROVE  /\ ~queued /\ UNCHANGED <<deploy, db>>
         /\ \/ UNCHANGED <<apiVars, callVars>>
            \/ ~fresh' /\ ~synced' /\ pc' = pc
  <1>1. CASE \E r \in Releases : EditVersion(r)
    BY <1>1 DEF EditVersion, kubeVars, dataVars
  <1>2. CASE \E r \in Releases : PodStep(r)
    <2>1. PICK r \in Releases : \E phase, event : SetPod(r, phase, event)
      BY <1>2 DEF PodStep, PodCreated, PodLate, PodRuns, PodReady, PodUnready,
                  PodFails, PodRemoved
    <2> QED
      BY <2>1 DEF SetPod, dataVars
  <1> QED
    BY <1>1, <1>2 DEF Environment, InformerSync, Resync, Restart,
                      DeploymentDeleted, DBODProvisioned, SiteInstalled

LEMMA NeedsTrueKept ==
  ASSUME TypeOK, CopyIsCurrent, NeedsFollowChecks, NeedsTrue, [Next]_vars
  PROVE  NeedsTrue'
  <1>1. CASE EndCall
    BY <1>1 DEF EndCall, NeedsTrue
  <1>2. CASE Fetch
    BY <1>2 DEF Fetch, NeedsTrue
  <1>3. CASE CheckConditions
    BY <1>1, <1>3 DEF CheckConditions, UpdateStatusAndReturn, Goto, NeedsTrue
  <1>4. CASE Reconcile /\ ~Fetch /\ ~CheckConditions
    BY <1>1, <1>4, LaterStepsShape, NeedsTrueGoingOn DEF Returns
  <1>5. CASE UNCHANGED <<callVars, deploy, db>> /\ ~queued
    BY <1>5 DEF callVars, NeedsTrue, ChecksUpdates, codeUpdateNeeded, CodeDiffers,
                CodeDiffersByImage, CodeDiffersByFailsafe, HasUpdb
  <1>6. CASE Environment
    <2>1. CASE queued'
      BY <2>1 DEF NeedsTrue
    <2>2. CASE ~queued' /\ ~fresh'
      BY <2>2 DEF NeedsTrue
    <2>3. CASE ~queued' /\ fresh'
      BY <1>5, <1>6, <2>3, UnnoticedStep
    <2> QED
      BY <2>1, <2>2, <2>3
  <1>7. CASE UNCHANGED vars
    <2>1. CASE queued'
      BY <2>1 DEF NeedsTrue
    <2>2. CASE ~queued'
      BY <1>5, <1>7, <2>2 DEF vars, kubeVars, dataVars
    <2> QED
      BY <2>1, <2>2
  <1> QED
    BY <1>2, <1>3, <1>4, <1>6, <1>7 DEF Next

LEMMA NeedsTrueHolds == Spec => []NeedsTrue
  <1>1. Init => NeedsTrue
    BY DEF Init, NeedsTrue
  <1> QED
    BY <1>1, NeedsTrueKept, TypeCorrect, CopyCurrent, NeedsFollowHolds, PTL
       DEF Spec

\* A reconciliation that leaves no wake-up behind has told the truth.
LEMMA QuietReturnAnnotated ==
  ASSUME TypeOK, CopyIsCurrent, Watched, NeedsFollowChecks, NeedsTrue,
         "api" \notin Faults, Reconcile, ~Fetch, ~CheckConditions, Returns,
         AtRest', ChecksUpdates(cr)'
  PROVE  (cr.uip <=> codeUpdateNeeded(cr) \/ HasUpdb(cr.ver))'
  <1>1. ~queued /\ ~queued' /\ synced /\ cr' = cr
    BY QueueKept DEF AtRest, Returns
  <1>2. pc # "idle"
    BY DEF Reconcile, CheckCode, CheckDB, AnnotateUpdate, EnsureResources,
           EnsureResourcesFails, CheckDBOD, UpdateDeployment,
           UpdateDeploymentFails, CheckRollout, RollBack, RollBackFails,
           ReloadCache, RollBackAfterReload, TakeBackup, RunUpdb, RunUpdbFails,
           AdvanceFailsafe
  <1>3. fresh /\ cr = drp
    BY <1>1, <1>2 DEF Watched, CopyIsCurrent
  <1>4. ChecksUpdates(drp) /\ ~drp.codeFailed
    BY <1>1, <1>3 DEF ChecksUpdates
  <1>5. \/ pc \in {"rollout", "reload"}
        \/ pc = "finish" /\ ~requeueFlag
    BY <1>4, QuietReturns
  <1>6. deploy' = deploy /\ db' = db
    BY <1>1, <1>5, DeploymentChangeQueues, DatabaseStays
  <1>7. /\ codeUpdateNeeded(cr)' <=> codeUpdateNeeded(drp)
        /\ HasUpdb(cr.ver)' <=> HasUpdb(drp.ver)
    BY <1>1, <1>3, <1>6 DEF codeUpdateNeeded, CodeDiffers, CodeDiffersByImage,
                            CodeDiffersByFailsafe, HasUpdb
  <1>8. drp.uip <=> codeUpdateNeeded(drp) \/ HasUpdb(drp.ver)
    <2>1. codeNeeded <=> codeUpdateNeeded(drp)
      BY <1>1, <1>3, <1>4, <1>5 DEF NeedsTrue
    <2>2. drp.uip <=> codeNeeded \/ dbNeeded
      BY <1>4, <1>5 DEF NeedsFollowChecks, UpdateNeeded
    <2>3. codeNeeded \/ (dbNeeded <=> HasUpdb(drp.ver))
      BY <1>1, <1>3, <1>4, <1>5 DEF NeedsTrue, NeedsFollowChecks
    <2> QED
      BY <2>1, <2>2, <2>3
  <1> QED
    BY <1>1, <1>3, <1>7, <1>8

\* Annotated sites stay annotated, or the operator is woken.
LEMMA AnnotatedKept ==
  ASSUME TypeOK, CopyIsCurrent, Watched, NeedsFollowChecks, NeedsTrue,
         "api" \notin Faults, RestMeansAnnotated, [Next]_vars
  PROVE  RestMeansAnnotated'
  <1> SUFFICES ASSUME AtRest', ChecksUpdates(cr)'
               PROVE  (cr.uip <=> codeUpdateNeeded(cr) \/ HasUpdb(cr.ver))'
    BY DEF RestMeansAnnotated
  <1>1. CASE Fetch
    BY <1>1 DEF Fetch, AtRest
  <1>2. CASE CheckConditions
    <2>1. PICK isInstalled \in InstalledAnswers :
            IF ConditionsStatus(isInstalled) # drp
            THEN UpdateStatusAndReturn(ConditionsStatus(isInstalled), FALSE)
            ELSE Goto("code")
      BY <1>2 DEF CheckConditions
    <2> DEFINE new == ConditionsStatus(isInstalled)
    <2>2. new \in DrupalSite
      BY ConditionsStatusType, TypeHalves DEF InstalledAnswers, TypeOK
    <2>3. new.ver = drp.ver /\ new.uip = drp.uip
      BY DEF ConditionsStatus, TypeOK, DrupalSite
    <2>4. new # drp /\ UpdateStatusAndReturn(new, FALSE)
      BY <2>1 DEF Goto, AtRest
    <2> HIDE DEF new
    <2> QED
      BY <2>2, <2>3, <2>4, ChangedStatusWakes
  <1>3. CASE Reconcile /\ ~Fetch /\ ~CheckConditions
    <2>1. Returns
      BY <1>3, LaterStepsShape DEF GoesOn, AtRest
    <2> QED
      BY <1>3, <2>1, QuietReturnAnnotated
  <1>4. CASE UNCHANGED <<apiVars, callVars, deploy, db>> /\ ~queued
    BY <1>4 DEF RestMeansAnnotated, AtRest, apiVars, callVars, ChecksUpdates,
                codeUpdateNeeded, CodeDiffers, CodeDiffersByImage,
                CodeDiffersByFailsafe, HasUpdb
  <1>5. CASE Environment
    BY <1>4, <1>5, UnnoticedStep DEF AtRest
  <1>6. CASE UNCHANGED vars
    BY <1>4, <1>6 DEF vars, kubeVars, dataVars, AtRest
  <1> QED
    BY <1>1, <1>2, <1>3, <1>5, <1>6 DEF Next

\* As long as no write to the API server fails, a serving site at rest carries
\* the annotation updateInProgress exactly when its code or its database is
\* behind.  The hypothesis is needed: handleTransientErr drops the outcome of
\* its status update, and with it the wake-up.
THEOREM AnnotationTellsTheTruth ==
    "api" \notin Faults /\ Spec => []RestMeansAnnotated
  <1> SUFFICES ASSUME "api" \notin Faults
               PROVE  Spec => []RestMeansAnnotated
    OBVIOUS
  <1>1. Init => RestMeansAnnotated
    BY DEF Init, RestMeansAnnotated, AtRest
  <1>2. TypeOK /\ CopyIsCurrent /\ Watched /\ NeedsFollowChecks /\ NeedsTrue
          /\ RestMeansAnnotated /\ [Next]_vars => RestMeansAnnotated'
    BY AnnotatedKept
  <1> QED
    BY <1>1, <1>2, TypeCorrect, CopyCurrent, WatchHolds, NeedsFollowHolds,
       NeedsTrueHolds, PTL DEF Spec

-----------------------------------------------------------------------------
(* What the operator leaves alone.  It reconciles a site again and again,  *)
(* at every event, resynchronisation and restart; a site that is up to     *)
(* date and a rejected update are both fixed points of that, whatever      *)
(* fails, until the administrator asks for another release or somebody     *)
(* deletes the Deployment.                                                 *)

Interference == DeploymentDeleted \/ \E r \in Releases : EditVersion(r)

Untouched == UNCHANGED <<deploy, db, backup, cr.failsafe>>

UpToDate(c) ==
    /\ c.ver = deploy /\ c.current = c.ver /\ c.failsafe = c.ver
    /\ c.init /\ ~c.codeFailed /\ ~c.dbFailed /\ ~c.uip

\* A fixed point: the object, the cache and the copy are up to date, and the
\* call has found nothing to do.
Served ==
    /\ UpToDate(cr) /\ UpToDate(cache) /\ (pc # "idle" => UpToDate(drp))
    /\ ~HasUpdb(deploy)
    /\ installed
    /\ ~codeNeeded /\ ~dbNeeded

\* Writing an up-to-date status leaves an up-to-date object.
LEMMA UpToDateWritten ==
  ASSUME TypeOK, CopyIsCurrent, Served, NEW new \in DrupalSite, NEW event,
         UpToDate(new), new.ver = drp.ver, deploy' = deploy,
         \/ UpdateStatusAndReturn(new, event)
         \/ TransientErrorAndReturn(new, event)
  PROVE  UpToDate(cr)' /\ UpToDate(cache)' /\ cr'.failsafe = cr.failsafe /\ EndCall
  <1>1. EndCall /\ cache' = cache
    BY DEF UpdateStatusAndReturn, TransientErrorAndReturn
  <1>2. cr' = cr \/ (fresh /\ WriteStatus(new))
    BY DEF UpdateStatusAndReturn, TransientErrorAndReturn, WriteAccepted
  <1>3. CASE fresh /\ WriteStatus(new)
    <2>1. cr = drp /\ cr \in DrupalSite
      BY <1>3 DEF CopyIsCurrent, TypeOK
    <2>2. cr' = [new EXCEPT !.ver = cr.ver, !.uip = cr.uip]
      BY <1>3 DEF WriteStatus
    <2>3. /\ cr'.ver = cr.ver /\ cr'.uip = cr.uip /\ cr'.current = new.current
          /\ cr'.failsafe = new.failsafe /\ cr'.init = new.init
          /\ cr'.codeFailed = new.codeFailed /\ cr'.dbFailed = new.dbFailed
      BY <2>1, <2>2 DEF DrupalSite
    <2> QED
      BY <1>1, <2>1, <2>3 DEF UpToDate, Served
  <1> QED
    BY <1>1, <1>2, <1>3 DEF UpToDate, Served

LEMMA ServedKeepsKind ==
  ASSUME TypeOK, NeedsFollowChecks, Served, Reconcile
  PROVE  /\ pc \notin {"deploy", "rollout", "rollback", "reload", "reloadfailed",
                       "backup", "updb"}
         /\ ~Fetch => UpToDate(drp)
  <1>1. pc = "idle" => Fetch
    BY DEF Reconcile, CheckConditions, CheckCode, CheckDB, AnnotateUpdate,
           EnsureResources, EnsureResourcesFails, CheckDBOD, UpdateDeployment,
           UpdateDeploymentFails, CheckRollout, RollBack, RollBackFails,
           ReloadCache, RollBackAfterReload, TakeBackup, RunUpdb, RunUpdbFails,
           AdvanceFailsafe
  <1> QED
    BY <1>1 DEF NeedsFollowChecks, Served

LEMMA ServedReconciled ==
  ASSUME TypeOK, CopyIsCurrent, NeedsFollowChecks, Served, Reconcile
  PROVE  Served' /\ Untouched
  <1> USE ServedKeepsKind
  <1>1. drp \in DrupalSite
    BY DEF TypeOK
  <1>2. CASE Fetch
    BY <1>2 DEF Fetch, Served, UpToDate, Untouched, apiVars, kubeVars, dataVars,
                HasUpdb
  \* A call that ends leaves the rest to the writing of the object.
  <1>3. ASSUME EndCall, UpToDate(cr)', UpToDate(cache)',
               UNCHANGED <<deploy, db, backup, installed>>,
               cr'.failsafe = cr.failsafe
        PROVE  Served' /\ Untouched
    BY <1>3 DEF EndCall, Served, Untouched, HasUpdb
  <1>4. ASSUME NEW new \in DrupalSite, NEW event, UpToDate(new), new.ver = drp.ver,
               UNCHANGED <<deploy, db, backup, installed>>,
               \/ UpdateStatusAndReturn(new, event)
               \/ TransientErrorAndReturn(new, event)
        PROVE  Served' /\ Untouched
    BY <1>3, <1>4, UpToDateWritten
  <1>5. ASSUME NEW step, Goto(step), ~codeNeeded', ~dbNeeded', UpToDate(drp),
               UNCHANGED <<deploy, db, backup, installed>>
        PROVE  Served' /\ Untouched
    BY <1>5 DEF Goto, apiVars, Served, UpToDate, Untouched, HasUpdb
  <1>6. CASE CheckConditions
    <2>1. PICK isInstalled \in InstalledAnswers :
            IF ConditionsStatus(isInstalled) # drp
            THEN UpdateStatusAndReturn(ConditionsStatus(isInstalled), FALSE)
            ELSE Goto("code") /\ UNCHANGED <<codeNeeded, dbNeeded, requeueFlag>>
      BY <1>6 DEF CheckConditions
    <2> DEFINE new == ConditionsStatus(isInstalled)
    <2>2. UpToDate(drp) /\ isInstalled = TRUE
      BY <1>6 DEF CheckConditions, Fetch, InstalledAnswers, UpToDate
    <2>3. new \in DrupalSite
      BY <2>2, ConditionsStatusType, TypeHalves
    <2>4. UpToDate(new) /\ new.ver = drp.ver
      BY <1>1, <2>2 DEF ConditionsStatus, DrupalSite, UpToDate
    <2>5. UNCHANGED <<deploy, db, backup, installed>>
      BY <1>6 DEF CheckConditions, kubeVars, dataVars
    <2> HIDE DEF new
    <2>6. CASE UpdateStatusAndReturn(new, FALSE)
      BY <1>4, <2>3, <2>4, <2>5, <2>6
    <2>7. CASE Goto("code") /\ UNCHANGED <<codeNeeded, dbNeeded, requeueFlag>>
      BY <1>5, <2>2, <2>5, <2>7 DEF Served
    <2> QED
      BY <2>1, <2>6, <2>7 DEF new
  <1>7. CASE CheckCode
    <2>1. UpToDate(drp) /\ UNCHANGED <<deploy, db, backup, installed>>
      BY <1>7 DEF CheckCode, Fetch, kubeVars, dataVars
    <2>2. ~codeUpdateNeeded(drp) /\ ~drp.codeFailed
      BY <2>1 DEF codeUpdateNeeded, CodeDiffers, CodeDiffersByImage,
                  CodeDiffersByFailsafe, UpToDate
    <2>3. CASE ChecksUpdates(drp)
      <3>1. PICK step : Goto(step) /\ ~codeNeeded' /\ dbNeeded' = dbNeeded
        BY <1>7, <2>2, <2>3 DEF CheckCode, SettleFailedUpdate
      <3> QED
        BY <1>5, <2>1, <3>1 DEF Served
    <2>4. CASE ~ChecksUpdates(drp)
      <3>1. Goto("ensure") /\ UNCHANGED <<codeNeeded, dbNeeded, requeueFlag>>
        BY <1>7, <2>2, <2>4 DEF CheckCode, SettleFailedUpdate
      <3> QED
        BY <1>5, <2>1, <3>1 DEF Served
    <2> QED
      BY <2>3, <2>4
  <1>8. CASE CheckDB
    <2>1. UpToDate(drp) /\ UNCHANGED <<deploy, db, backup, installed>>
      BY <1>8 DEF CheckDB, Fetch, kubeVars, dataVars
    <2>2. Goto("annotate") /\ ~codeNeeded' /\ ~dbNeeded'
      BY <1>8, <2>1 DEF CheckDB, UpdbAnswers, Served, UpToDate
    <2> QED
      BY <1>5, <2>1, <2>2
  <1>9. CASE AnnotateUpdate
    <2> DEFINE new == [drp EXCEPT !.dbPending = PendingCondition]
    <2>1. UpToDate(drp) /\ UNCHANGED <<deploy, db, backup, installed>>
      BY <1>9 DEF AnnotateUpdate, Fetch, kubeVars, dataVars
    <2>2. drp.uip = UpdateNeeded
      BY <1>1, <2>1 DEF UpToDate, UpdateNeeded, Served, DrupalSite, TypeOK
    <2>3. new \in DrupalSite
      BY StatusTypes, TypeHalves
    <2>4. UpToDate(new) /\ new.ver = drp.ver
      BY <1>1, <2>1 DEF DrupalSite, UpToDate
    <2>5. \/ UpdateStatusAndReturn(new, FALSE)
          \/ Goto("ensure") /\ UNCHANGED <<codeNeeded, dbNeeded, requeueFlag>>
      BY <1>9, <2>2 DEF AnnotateUpdate
    <2> HIDE DEF new
    <2>6. CASE UpdateStatusAndReturn(new, FALSE)
      BY <1>4, <2>1, <2>3, <2>4, <2>6
    <2>7. CASE Goto("ensure") /\ UNCHANGED <<codeNeeded, dbNeeded, requeueFlag>>
      BY <1>5, <2>1, <2>7 DEF Served
    <2> QED
      BY <2>5, <2>6, <2>7
  <1>10. CASE EnsureResources \/ EnsureResourcesFails
    <2> DEFINE new == [drp EXCEPT !.ready = "Error"]
    <2>1. UpToDate(drp)
      BY <1>10 DEF EnsureResources, EnsureResourcesFails, Fetch
    <2>2. UNCHANGED <<deploy, db, backup, installed>>
      BY <1>10, <2>1 DEF EnsureResources, EnsureResourcesFails, EnsureDeployment,
                         dataVars, UpToDate
    <2>3. CASE EnsureResources
      BY <2>1, <2>2, <2>3 DEF EnsureResources, Served, Untouched, UpToDate,
                              HasUpdb, apiVars
    <2>4. CASE EnsureResourcesFails
      <3>1. new \in DrupalSite
        BY StatusTypes, TypeHalves
      <3>2. UpToDate(new) /\ new.ver = drp.ver
        BY <1>1, <2>1 DEF DrupalSite, UpToDate
      <3>3. PICK event : TransientErrorAndReturn(new, event)
        BY <2>4 DEF EnsureResourcesFails
      <3> HIDE DEF new
      <3> QED
        BY <1>4, <2>2, <3>1, <3>2, <3>3
    <2> QED
      BY <1>10, <2>3, <2>4
  <1>11. CASE CheckDBOD
    <2> DEFINE new == [drp EXCEPT !.ready = "Error"]
    <2>1. UpToDate(drp) /\ UNCHANGED <<deploy, db, backup, installed>>
      BY <1>11 DEF CheckDBOD, Fetch, kubeVars, dataVars
    <2>2. new \in DrupalSite
      BY StatusTypes, TypeHalves
    <2>3. UpToDate(new) /\ new.ver = drp.ver
      BY <1>1, <2>1 DEF DrupalSite, UpToDate
    <2>4. \/ TransientErrorAndReturn(new, TRUE)
          \/ Goto(UpdateStep) /\ UNCHANGED <<codeNeeded, dbNeeded, requeueFlag>>
      BY <1>11 DEF CheckDBOD
    <2> HIDE DEF new
    <2>5. CASE TransientErrorAndReturn(new, TRUE)
      BY <1>4, <2>1, <2>2, <2>3, <2>5
    <2>6. CASE Goto(UpdateStep) /\ UNCHANGED <<codeNeeded, dbNeeded, requeueFlag>>
      BY <1>5, <2>1, <2>6 DEF Served
    <2> QED
      BY <2>4, <2>5, <2>6
  <1>12. CASE AdvanceFailsafe
    <2>1. UpToDate(drp) /\ UNCHANGED <<deploy, db, backup, installed>>
      BY <1>12 DEF AdvanceFailsafe, Fetch, kubeVars, dataVars
    <2>2. Return(requeueFlag)
      BY <1>12, <2>1 DEF AdvanceFailsafe, AdvancesFailsafe, UpToDate
    <2> QED
      BY <1>3, <2>1, <2>2 DEF Return, apiVars, Served, UpToDate
  <1> QED
    BY <1>2, <1>6, <1>7, <1>8, <1>9, <1>10, <1>11, <1>12
       DEF Reconcile, UpdateDeployment, UpdateDeploymentFails, CheckRollout,
           RollBack, RollBackFails, ReloadCache, RollBackAfterReload, TakeBackup,
           RunUpdb, RunUpdbFails

\* What else may happen to a site touches neither its Deployment nor, once it
\* is installed, its data.
LEMMA BystanderStep ==
  ASSUME TypeOK, Environment, ~Interference
  PROVE  /\ UNCHANGED <<cr, deploy, backup>>
         /\ installed => UNCHANGED <<db, installed>>
         /\ cache' \in {cr, cache}
         /\ UNCHANGED callVars \/ EndCall
  <1>1. CASE \E r \in Releases : PodStep(r)
    <2>1. PICK r \in Releases : \E phase, event : SetPod(r, phase, event)
      BY <1>1 DEF PodStep, PodCreated, PodLate, PodRuns, PodReady, PodUnready,
                  PodFails, PodRemoved
    <2> QED
      BY <2>1 DEF SetPod, dataVars, apiVars
  <1>2. CASE \E r \in Releases : SiteInstalled(r)
    BY <1>2 DEF SiteInstalled, apiVars
  <1> QED
    BY <1>1, <1>2 DEF Environment, Interference, InformerSync, Resync, Restart,
                      DBODProvisioned, apiVars, kubeVars, dataVars

\* Once at rest, a site whose Deployment, status and database are those of the
\* release asked for is left alone: whatever fails, restarts or resynchronises
\* afterwards, neither its Deployment, its database, its backup nor its
\* Failsafe is written again, until Interference.
THEOREM UpToDateLeftAlone ==
    Spec => [](AtRest /\ UpToDate(cr) /\ ~HasUpdb(cr.ver)
                 => ([][~Interference]_vars => [][Untouched]_vars))
  <1>1. InstalledFirst /\ CopyIsCurrent /\ NeedsFollowChecks
          /\ AtRest /\ UpToDate(cr) /\ ~HasUpdb(cr.ver) => Served
    BY DEF InstalledFirst, CopyIsCurrent, NeedsFollowChecks, AtRest, UpToDate,
           HasUpdb, Served
  <1>2. TypeOK /\ CopyIsCurrent /\ NeedsFollowChecks /\ Served
          /\ [Next]_vars /\ [~Interference]_vars => Served' /\ [Untouched]_vars
    <2> SUFFICES ASSUME TypeOK, CopyIsCurrent, NeedsFollowChecks, Served,
                        [Next]_vars, [~Interference]_vars
                 PROVE  Served' /\ Untouched
      OBVIOUS
    <2>1. CASE Reconcile
      BY <2>1, ServedReconciled
    <2>2. CASE Environment /\ ~Interference
      <3>1. /\ UNCHANGED <<cr, deploy, backup, db, installed>>
            /\ cache' \in {cr, cache}
            /\ UNCHANGED callVars \/ EndCall
        BY <2>2, BystanderStep DEF Served
      <3>2. UpToDate(cr)' /\ UpToDate(cache)' /\ ~HasUpdb(deploy)'
        BY <3>1 DEF Served, UpToDate, HasUpdb
      <3>3. /\ (pc # "idle" => UpToDate(drp))'
            /\ ~codeNeeded' /\ ~dbNeeded'
        BY <3>1 DEF Served, UpToDate, callVars, EndCall
      <3> QED
        BY <3>1, <3>2, <3>3 DEF Served, Untouched
    <2>3. CASE UNCHANGED vars
      BY <2>3 DEF vars, apiVars, callVars, kubeVars, dataVars, Served, UpToDate,
                  HasUpdb, Untouched
    <2> QED
      BY <2>1, <2>2, <2>3 DEF Next
  <1> QED
    BY <1>1, <1>2, TypeCorrect, CopyCurrent, InstalledFirstHolds,
       NeedsFollowHolds, PTL DEF Spec

\* The other fixed point: the rollout has failed, and the administrator has
\* not gone back to the Failsafe.
Rejected(c) == c.codeFailed /\ c.ver # c.failsafe

RejectionStands ==
    /\ Rejected(cr) /\ Rejected(cache) /\ (pc # "idle" => Rejected(drp))
    /\ deploy # Absent
    /\ installed

LEMMA RejectedWritten ==
  ASSUME TypeOK, CopyIsCurrent, RejectionStands, NEW new \in DrupalSite, NEW event,
         new.codeFailed, new.failsafe = drp.failsafe,
         \/ UpdateStatusAndReturn(new, event)
         \/ TransientErrorAndReturn(new, event)
  PROVE  Rejected(cr)' /\ Rejected(cache)' /\ cr'.failsafe = cr.failsafe /\ EndCall
  <1>1. EndCall /\ cache' = cache
    BY DEF UpdateStatusAndReturn, TransientErrorAndReturn
  <1>2. cr' = cr \/ (fresh /\ WriteStatus(new))
    BY DEF UpdateStatusAndReturn, TransientErrorAndReturn, WriteAccepted
  <1>3. CASE fresh /\ WriteStatus(new)
    <2>1. cr = drp /\ cr \in DrupalSite
      BY <1>3 DEF CopyIsCurrent, TypeOK
    <2>2. cr' = [new EXCEPT !.ver = cr.ver, !.uip = cr.uip]
      BY <1>3 DEF WriteStatus
    <2>3. /\ cr'.ver = cr.ver /\ cr'.failsafe = new.failsafe
          /\ cr'.codeFailed = new.codeFailed
      BY <2>1, <2>2 DEF DrupalSite
    <2> QED
      BY <1>1, <2>1, <2>3 DEF Rejected, RejectionStands
  <1> QED
    BY <1>1, <1>2, <1>3 DEF Rejected, RejectionStands

LEMMA RejectedReconciled ==
  ASSUME TypeOK, CopyIsCurrent, NeedsFollowChecks, RejectionStands, Reconcile
  PROVE  RejectionStands' /\ Untouched
  <1>1. drp \in DrupalSite
    BY DEF TypeOK
  <1>2. CASE Fetch
    BY <1>2 DEF Fetch, RejectionStands, Rejected, Untouched, apiVars, kubeVars,
                dataVars
  <1> SUFFICES ASSUME Rejected(drp)
               PROVE  RejectionStands' /\ Untouched
    BY <1>2 DEF RejectionStands, Reconcile, CheckConditions, CheckCode, CheckDB,
           AnnotateUpdate, EnsureResources, EnsureResourcesFails, CheckDBOD,
           UpdateDeployment, UpdateDeploymentFails, CheckRollout, RollBack,
           RollBackFails, ReloadCache, RollBackAfterReload, TakeBackup, RunUpdb,
           RunUpdbFails, AdvanceFailsafe
  \* No update step and no check for updates runs on a rejected copy.
  <1>3. pc \notin {"db", "annotate", "deploy", "rollout", "rollback", "reload",
                   "reloadfailed", "backup", "updb"}
    BY DEF CopyIsCurrent, NeedsFollowChecks, ChecksUpdates, Rejected
  <1>4. ASSUME EndCall, Rejected(cr)', Rejected(cache)',
               UNCHANGED <<deploy, db, backup, installed>>,
               cr'.failsafe = cr.failsafe
        PROVE  RejectionStands' /\ Untouched
    BY <1>4 DEF EndCall, RejectionStands, Untouched
  <1>5. ASSUME NEW new \in DrupalSite, NEW event, new.codeFailed,
               new.failsafe = drp.failsafe,
               UNCHANGED <<deploy, db, backup, installed>>,
               \/ UpdateStatusAndReturn(new, event)
               \/ TransientErrorAndReturn(new, event)
        PROVE  RejectionStands' /\ Untouched
    BY <1>4, <1>5, RejectedWritten
  <1>6. ASSUME NEW step, Goto(step), UNCHANGED <<deploy, db, backup, installed>>
        PROVE  RejectionStands' /\ Untouched
    BY <1>6 DEF Goto, apiVars, RejectionStands, Rejected, Untouched
  <1>7. CASE CheckConditions
    <2>1. PICK isInstalled \in InstalledAnswers :
            \/ UpdateStatusAndReturn(ConditionsStatus(isInstalled), FALSE)
            \/ Goto("code")
      BY <1>7 DEF CheckConditions
    <2> DEFINE new == ConditionsStatus(isInstalled)
    <2>2. new \in DrupalSite
      BY ConditionsStatusType, TypeHalves DEF InstalledAnswers, TypeOK
    <2>3. new.codeFailed /\ new.failsafe = drp.failsafe
      BY <1>1 DEF ConditionsStatus, DrupalSite, Rejected, BackAtFailsafe
    <2>4. UNCHANGED <<deploy, db, backup, installed>>
      BY <1>7 DEF CheckConditions, kubeVars, dataVars
    <2>5. CASE UpdateStatusAndReturn(new, FALSE)
      <3> HIDE DEF new
      <3> QED
        BY <1>5, <2>2, <2>3, <2>4, <2>5
    <2>6. CASE Goto("code")
      BY <1>6, <2>4, <2>6
    <2> QED
      BY <2>1, <2>5, <2>6
  <1>8. CASE CheckCode
    <2>1. UNCHANGED <<deploy, db, backup, installed>>
      BY <1>8 DEF CheckCode, kubeVars, dataVars
    <2>2. SettleFailedUpdate
      BY <1>8 DEF CheckCode, ChecksUpdates, Rejected
    <2>3. CASE UpdateObjectAndReturn([drp EXCEPT !.uip = FALSE])
      <3>1. EndCall /\ cache' = cache /\ cr' \in {cr, [cr EXCEPT !.ver = drp.ver, !.uip = FALSE]}
              /\ (cr' = cr \/ cr = drp)
        BY <1>1, <2>3 DEF UpdateObjectAndReturn, WriteObject, WriteAccepted,
                          CopyIsCurrent, DrupalSite
      <3>2. Rejected(cr)' /\ Rejected(cache)' /\ cr'.failsafe = cr.failsafe
        BY <1>1, <3>1 DEF DrupalSite, Rejected, RejectionStands
      <3> QED
        BY <1>4, <2>1, <3>1, <3>2
    <2>4. CASE UpdateStatusAndReturn([drp EXCEPT !.dbPending = "Unknown"], FALSE)
      <3> DEFINE new == [drp EXCEPT !.dbPending = "Unknown"]
      <3>1. new \in DrupalSite /\ new.codeFailed /\ new.failsafe = drp.failsafe
        BY <1>1 DEF DrupalSite, Rejected
      <3> HIDE DEF new
      <3> QED
        BY <1>5, <2>1, <2>4, <3>1 DEF new
    <2>5. CASE Goto("ensure")
      BY <1>6, <2>1, <2>5
    <2> QED
      BY <2>2, <2>3, <2>4, <2>5 DEF SettleFailedUpdate
  <1>9. CASE EnsureResources \/ EnsureResourcesFails
    <2> DEFINE new == [drp EXCEPT !.ready = "Error"]
    <2>1. UNCHANGED <<deploy, db, backup, installed>>
      BY <1>9 DEF EnsureResources, EnsureResourcesFails, EnsureDeployment,
                  DeploymentHeld, dataVars, Rejected, RejectionStands
    <2>2. CASE EnsureResources
      BY <2>1, <2>2 DEF EnsureResources, RejectionStands, Rejected, Untouched,
                        apiVars
    <2>3. CASE EnsureResourcesFails
      <3>1. new \in DrupalSite /\ new.codeFailed /\ new.failsafe = drp.failsafe
        BY <1>1 DEF DrupalSite, Rejected
      <3>2. PICK event : TransientErrorAndReturn(new, event)
        BY <2>3 DEF EnsureResourcesFails
      <3> HIDE DEF new
      <3> QED
        BY <1>5, <2>1, <3>1, <3>2
    <2> QED
      BY <1>9, <2>2, <2>3
  <1>10. CASE CheckDBOD
    <2> DEFINE new == [drp EXCEPT !.ready = "Error"]
    <2>1. UNCHANGED <<deploy, db, backup, installed>>
      BY <1>10 DEF CheckDBOD, kubeVars, dataVars
    <2>2. new \in DrupalSite /\ new.codeFailed /\ new.failsafe = drp.failsafe
      BY <1>1 DEF DrupalSite, Rejected
    <2>3. TransientErrorAndReturn(new, TRUE) \/ Goto(UpdateStep)
      BY <1>10 DEF CheckDBOD
    <2> HIDE DEF new
    <2>4. CASE TransientErrorAndReturn(new, TRUE)
      BY <1>5, <2>1, <2>2, <2>4
    <2>5. CASE Goto(UpdateStep)
      BY <1>6, <2>1, <2>5
    <2> QED
      BY <2>3, <2>4, <2>5
  <1>11. CASE AdvanceFailsafe
    <2>1. UNCHANGED <<deploy, db, backup, installed>>
      BY <1>11 DEF AdvanceFailsafe, kubeVars, dataVars
    <2>2. Return(requeueFlag)
      BY <1>11 DEF AdvanceFailsafe, AdvancesFailsafe, Rejected
    <2> QED
      BY <1>4, <2>1, <2>2 DEF Return, apiVars, RejectionStands, Rejected
  <1> QED
    BY <1>2, <1>3, <1>7, <1>8, <1>9, <1>10, <1>11
       DEF Reconcile, CheckDB, AnnotateUpdate, UpdateDeployment,
           UpdateDeploymentFails, CheckRollout, RollBack, RollBackFails,
           ReloadCache, RollBackAfterReload, TakeBackup, RunUpdb, RunUpdbFails

\* A rejected update of an installed site that has come to rest stays rejected:
\* the operator neither tries it again nor touches what serves, the database,
\* the backup or the Failsafe, until the administrator asks for another
\* release or somebody deletes the Deployment.
THEOREM RejectionIsFinal ==
    Spec => [](AtRest /\ Rejected(cr) /\ deploy # Absent /\ installed
                 => ([][~Interference]_vars
                       => [](cr.codeFailed) /\ [][Untouched]_vars))
  <1>1. CopyIsCurrent /\ AtRest /\ Rejected(cr) /\ deploy # Absent /\ installed
          => RejectionStands
    BY DEF CopyIsCurrent, AtRest, RejectionStands, Rejected
  <1>2. TypeOK /\ CopyIsCurrent /\ NeedsFollowChecks /\ RejectionStands
          /\ [Next]_vars /\ [~Interference]_vars
          => RejectionStands' /\ [Untouched]_vars
    <2> SUFFICES ASSUME TypeOK, CopyIsCurrent, NeedsFollowChecks, RejectionStands,
                        [Next]_vars, [~Interference]_vars
                 PROVE  RejectionStands' /\ Untouched
      OBVIOUS
    <2>1. CASE Reconcile
      BY <2>1, RejectedReconciled
    <2>2. CASE Environment /\ ~Interference
      <3>1. /\ UNCHANGED <<cr, deploy, backup, db, installed>>
            /\ cache' \in {cr, cache}
            /\ UNCHANGED callVars \/ EndCall
        BY <2>2, BystanderStep DEF RejectionStands
      <3>2. Rejected(cr)' /\ Rejected(cache)'
        BY <3>1 DEF RejectionStands, Rejected
      <3>3. (pc # "idle" => Rejected(drp))'
        BY <3>1 DEF RejectionStands, Rejected, callVars, EndCall
      <3> QED
        BY <3>1, <3>2, <3>3 DEF RejectionStands, Untouched
    <2>3. CASE UNCHANGED vars
      BY <2>3 DEF vars, apiVars, callVars, kubeVars, dataVars, RejectionStands,
                  Rejected, Untouched
    <2> QED
      BY <2>1, <2>2, <2>3 DEF Next
  <1>3. RejectionStands => cr.codeFailed
    BY DEF RejectionStands, Rejected
  <1> QED
    BY <1>1, <1>2, <1>3, TypeCorrect, CopyCurrent, NeedsFollowHolds, PTL DEF Spec
=============================================================================
