----------------------------- MODULE SiteUpdate -----------------------------
(***************************************************************************)
(* The update workflow of one DrupalSite: the part of Reconcile            *)
(* (controllers/drupalsite_controller.go) that follows spec.version, rolls *)
(* the server Deployment out or back, runs the database update and keeps   *)
(* status.releaseID and the conditions.                                    *)
(*                                                                         *)
(* A reconciliation is a sequence of steps (the program counter pc), each  *)
(* of them one call to the API server, the cluster or a pod, so that edits *)
(* of the administrator, the Deployment controller, the informer cache and *)
(* faults interleave with it.  A write of the DrupalSite carries the       *)
(* resourceVersion of the copy it was computed from: here the flag fresh,  *)
(* TRUE while the object has not been written since that copy was made.    *)
(***************************************************************************)
CONSTANTS
    Releases,   \* release identifiers: <version name>-<releaseSpec>
    Empty,      \* the empty string
    Absent,     \* "there is no Deployment"
    UpdbFrom,   \* UpdbFrom[r]: the schemas from which release r has updates
    Cloned,     \* TRUE: site made by a clone job or an easystart TaskRun
    Faults      \* the environment faults that may happen

FaultKinds == {"api",        \* a write to the API server fails
               "exec",       \* a command in a running pod fails
               "reload",     \* the cache reload prints on stdout
               "updb",       \* the database update fails
               "pod",        \* a pod fails
               "slow",       \* a pod is pending after the grace period
               "readiness",  \* a ready pod stops being ready
               "delete",     \* the Deployment is deleted
               "crash"}      \* the operator restarts

ASSUME ReleasesAssumption ==
    /\ Empty \notin Releases
    /\ Absent \notin Releases
    /\ Absent # Empty

ASSUME UpdbFromAssumption == UpdbFrom \in [Releases -> SUBSET Releases]

ASSUME SwitchesAssumption == Cloned \in BOOLEAN /\ Faults \subseteq FaultKinds

ReleaseIDs == Releases \cup {Empty}

-----------------------------------------------------------------------------
(* The DrupalSite object.  releaseID(d) is the field ver; ready = "Error"  *)
(* is condition Ready False with the reason of an error; dbPending is      *)
(* condition DBUpdatesPending; uip is annotation updateInProgress.         *)

DrupalSite == [ver       : ReleaseIDs,
               current   : ReleaseIDs,
               failsafe  : ReleaseIDs,
               ready     : {"True", "False", "Error"},
               init      : BOOLEAN,
               codeFailed: BOOLEAN,
               dbFailed  : BOOLEAN,
               dbPending : {"none", "True", "Unknown"},
               uip       : BOOLEAN]

NewSite(r) == [ver |-> r, current |-> Empty, failsafe |-> Empty,
               ready |-> "False", init |-> FALSE, codeFailed |-> FALSE,
               dbFailed |-> FALSE, dbPending |-> "none", uip |-> FALSE]

NoCopy == NewSite(Empty)

PodPhases == {"none", "pending", "late", "running", "ready", "failed"}

Steps == {"idle", "conditions", "code", "db", "annotate", "ensure", "dbod",
          "deploy", "rollout", "rollback", "reload", "reloadfailed",
          "backup", "updb", "finish"}

\* A database: the release whose schema it has, and whether an update of it
\* stopped half way.
Databases == [schema: ReleaseIDs, half: BOOLEAN]

VARIABLES
    cr,          \* the DrupalSite in the API server
    cache,       \* the DrupalSite in the operator's informer cache
    synced,      \* no write of cr is still on its way to the cache
    queued,      \* the site is in the work queue (or waits in its back-off)
    pc,          \* the step of the running reconciliation, or "idle"
    drp,         \* the copy of the object that the reconciliation works on
    fresh,       \* cr has not been written since that copy was made
    codeNeeded,  \* codeUpdateNeeded
    dbNeeded,    \* dbUpdateNeeded
    requeueFlag, \* a non-fatal error happened: requeue at the end
    deploy,      \* annotation releaseID of the Deployment's pod template
    pod,         \* phase of the pod of each release
    dbod,        \* the DBOD database instance is provisioned
    installed,   \* the site was installed, cloned or restored
    db,          \* the site's database
    backup       \* /drupal-data/db_backup_update_rollback.sql

apiVars == <<cr, cache, synced>>
callVars == <<pc, drp, fresh, codeNeeded, dbNeeded, requeueFlag>>
kubeVars == <<deploy, pod, dbod, installed>>
dataVars == <<db, backup>>
vars == <<apiVars, queued, callVars, kubeVars, dataVars>>

TypeOK ==
    /\ cr \in DrupalSite
    /\ cr.ver \in Releases
    /\ cache \in DrupalSite
    /\ cache.ver \in Releases
    /\ drp \in DrupalSite
    /\ pc # "idle" => drp.ver \in Releases
    /\ pc \in Steps
    /\ synced \in BOOLEAN /\ queued \in BOOLEAN /\ fresh \in BOOLEAN
    /\ codeNeeded \in BOOLEAN /\ dbNeeded \in BOOLEAN /\ requeueFlag \in BOOLEAN
    /\ dbod \in BOOLEAN /\ installed \in BOOLEAN
    /\ deploy \in ReleaseIDs \cup {Absent}
    /\ pod \in [Releases -> PodPhases]
    /\ db \in Databases
    /\ backup \in Databases

NoDatabase == [schema |-> Empty, half |-> FALSE]

Init ==
    /\ \E r \in Releases : cr = NewSite(r)
    /\ cache = cr /\ synced = TRUE /\ queued = TRUE
    /\ pc = "idle" /\ drp = NoCopy /\ fresh = FALSE
    /\ codeNeeded = FALSE /\ dbNeeded = FALSE /\ requeueFlag = FALSE
    /\ deploy = Absent
    /\ pod = [r \in Releases |-> "none"]
    /\ dbod = FALSE /\ installed = FALSE
    /\ db = NoDatabase /\ backup = NoDatabase

-----------------------------------------------------------------------------
(* What the reconciliation reads.                                          *)

SiteReady == deploy # Absent /\ \E r \in Releases : pod[r] = "ready"

\* A command reaches a pod of release r only if that pod is running; it may
\* still fail, in a pod whose containers have not all started or by a fault.
ExecRuns(r) == pod[r] \in {"running", "ready"}
ExecFails(r) == pod[r] # "ready" \/ "exec" \in Faults

\* isDrupalSiteInstalled or isCloneJobCompleted or isEasystartTaskRunCompleted:
\* the answers that the reconciliation may get.
InstalledAnswers ==
    IF drp.init THEN {TRUE}
    ELSE IF Cloned THEN {installed}
    ELSE {b \in BOOLEAN :
            IF b THEN installed /\ SiteReady /\ ExecRuns(drp.ver)
                 ELSE ~installed \/ ~SiteReady \/ ExecFails(drp.ver)}

HasUpdb(r) == db.half \/ db.schema \in UpdbFrom[r]

\* dbUpdateNeeded: an error, or whether drush lists database updates.
UpdbAnswers(r) ==
    {a \in {"error", "pending", "none"} :
        IF a = "error" THEN ExecFails(r)
                       ELSE ExecRuns(r) /\ (a = "pending" <=> HasUpdb(r))}

CodeDiffersByImage(c) == deploy # c.ver

CodeDiffersByFailsafe(c) == c.failsafe # Empty /\ c.failsafe # c.current

CodeDiffers(c) == CodeDiffersByImage(c) \/ CodeDiffersByFailsafe(c)

codeUpdateNeeded(c) == deploy # Absent /\ CodeDiffers(c)

\* The Deployment is left alone during an update and after a failed one.
DeploymentHeld(c) ==
    deploy # Absent /\ (c.uip \/ c.codeFailed \/ c.dbFailed)

ChecksUpdatesAnyway(c) == c.ready = "True" /\ c.init  \* faulty: after a failure

ChecksUpdates(c) == c.ready = "True" /\ c.init /\ ~c.codeFailed

-----------------------------------------------------------------------------
(* How a reconciliation ends.  event: an object the controller owns was    *)
(* changed in the same step, which puts the site in the queue.             *)

EndCall ==
    /\ pc' = "idle" /\ drp' = NoCopy /\ fresh' = FALSE
    /\ codeNeeded' = FALSE /\ dbNeeded' = FALSE /\ requeueFlag' = FALSE

\* Status().Update keeps the stored metadata and specification, Update keeps
\* the stored status; a write that changes nothing produces no event.
WriteStatus(new) ==
    /\ cr' = [new EXCEPT !.ver = cr.ver, !.uip = cr.uip]
    /\ synced' = (synced /\ cr' = cr)

WriteObject(new) ==
    /\ cr' = [cr EXCEPT !.ver = new.ver, !.uip = new.uip]
    /\ synced' = (synced /\ cr' = cr)

WriteAcceptedBlindly == TRUE  \* faulty: last writer wins

WriteAccepted == fresh

WriteRefused == ~fresh \/ "api" \in Faults

\* handleTransientErr: the outcome of the status update is dropped, and err,
\* the variable it returns, is nil at every call.
TransientErrorAndReturn(new, event) ==
    /\ EndCall
    /\ UNCHANGED cache
    /\ queued' = (queued \/ event)
    /\ \/ WriteAccepted /\ WriteStatus(new)
       \/ WriteRefused /\ UNCHANGED <<cr, synced>>

\* updateCRStatusOrFailReconcile and updateCRorFailReconcile: a conflict or
\* an error puts the site back in the queue.
UpdateStatusAndReturn(new, event) ==
    /\ EndCall
    /\ UNCHANGED cache
    /\ \/ WriteAccepted /\ WriteStatus(new) /\ queued' = (queued \/ event)
       \/ WriteRefused /\ queued' = TRUE /\ UNCHANGED <<cr, synced>>

UpdateObjectAndReturn(new) ==
    /\ EndCall
    /\ UNCHANGED cache
    /\ \/ WriteAccepted /\ WriteObject(new) /\ UNCHANGED queued
       \/ WriteRefused /\ queued' = TRUE /\ UNCHANGED <<cr, synced>>

Return(requeue) ==
    /\ EndCall
    /\ queued' = (queued \/ requeue)
    /\ UNCHANGED apiVars

Goto(step) ==
    /\ pc' = step
    /\ UNCHANGED <<apiVars, queued, drp, fresh>>

-----------------------------------------------------------------------------
(* The steps of Reconcile.                                                 *)

Fetch ==
    /\ pc = "idle"
    /\ queued
    /\ queued' = FALSE
    /\ pc' = "conditions"
    /\ drp' = cache
    /\ fresh' = synced
    /\ UNCHANGED <<apiVars, codeNeeded, dbNeeded, requeueFlag, kubeVars, dataVars>>

BackAtFailsafe(c) == c.failsafe = c.ver

ReadyConditionUnknown ==       \* faulty: a status that is neither True nor False
    IF SiteReady /\ dbod THEN "True" ELSE "Unknown"

ReadyCondition == IF SiteReady /\ dbod THEN "True" ELSE "False"

ConditionsStatus(isInstalled) ==
    [drp EXCEPT !.current = drp.ver,
                !.ready = ReadyCondition,
                !.init = isInstalled,
                !.codeFailed = drp.codeFailed /\ ~BackAtFailsafe(drp),
                !.dbFailed = drp.dbFailed /\ ~BackAtFailsafe(drp)]

CheckConditions ==
    /\ pc = "conditions"
    /\ UNCHANGED <<kubeVars, dataVars>>
    /\ \E isInstalled \in InstalledAnswers :
         IF ConditionsStatus(isInstalled) # drp
         THEN UpdateStatusAndReturn(ConditionsStatus(isInstalled), FALSE)
         ELSE Goto("code") /\ UNCHANGED <<codeNeeded, dbNeeded, requeueFlag>>

\* The condition CodeUpdateFailed is set: the annotation goes, and the
\* pending database updates become unknown.
SettleFailedUpdate ==
    /\ drp.codeFailed
    /\ IF drp.uip
       THEN UpdateObjectAndReturn([drp EXCEPT !.uip = FALSE])
       ELSE IF drp.dbPending # "Unknown"
       THEN UpdateStatusAndReturn([drp EXCEPT !.dbPending = "Unknown"], FALSE)
       ELSE Goto("ensure") /\ UNCHANGED <<codeNeeded, dbNeeded, requeueFlag>>

CheckCode ==
    /\ pc = "code"
    /\ UNCHANGED <<kubeVars, dataVars>>
    /\ \/ /\ ChecksUpdates(drp)
          /\ codeNeeded' = codeUpdateNeeded(drp)
          /\ requeueFlag' = (deploy = Absent)
          /\ Goto(IF codeNeeded' THEN "annotate" ELSE "db")
          /\ UNCHANGED dbNeeded
       \/ /\ ~ChecksUpdates(drp)
          /\ ~drp.codeFailed
          /\ Goto("ensure")
          /\ UNCHANGED <<codeNeeded, dbNeeded, requeueFlag>>
       \/ SettleFailedUpdate

CheckDB ==
    /\ pc = "db"
    /\ \E answer \in UpdbAnswers(drp.ver) :
         /\ dbNeeded' = (answer = "pending")
         /\ requeueFlag' = (requeueFlag \/ answer = "error")
    /\ Goto("annotate")
    /\ UNCHANGED <<codeNeeded, kubeVars, dataVars>>

UpdateNeededForCode == codeNeeded  \* faulty: no annotation for the database

UpdateNeeded == codeNeeded \/ dbNeeded

PendingCondition == IF dbNeeded THEN "True" ELSE "none"

AnnotateUpdate ==
    /\ pc = "annotate"
    /\ UNCHANGED <<kubeVars, dataVars>>
    /\ IF drp.uip # UpdateNeeded
       THEN UpdateObjectAndReturn([drp EXCEPT !.uip = UpdateNeeded])
       ELSE IF drp.dbPending # PendingCondition
       THEN UpdateStatusAndReturn([drp EXCEPT !.dbPending = PendingCondition], FALSE)
       ELSE Goto("ensure") /\ UNCHANGED <<codeNeeded, dbNeeded, requeueFlag>>

-----------------------------------------------------------------------------
\* ensureResources, of which only the server Deployment matters here: it is
\* created or moved to spec.version unless an update holds it.  Some other
\* resource may fail, whether or not the Deployment was written before it.
EnsureDeployment ==
    deploy' = IF dbod /\ ~DeploymentHeld(drp) THEN drp.ver ELSE deploy

EnsureResources ==
    /\ pc = "ensure"
    /\ EnsureDeployment
    /\ pc' = "dbod"
    /\ queued' = (queued \/ deploy' # deploy)
    /\ UNCHANGED <<apiVars, drp, fresh, codeNeeded, dbNeeded, requeueFlag,
                   pod, dbod, installed, dataVars>>

EnsureResourcesFails ==
    /\ pc = "ensure"
    /\ "api" \in Faults
    /\ EnsureDeployment \/ UNCHANGED deploy
    /\ TransientErrorAndReturn([drp EXCEPT !.ready = "Error"], deploy' # deploy)
    /\ UNCHANGED <<pod, dbod, installed, dataVars>>

UpdatesCode == drp.uip /\ codeNeeded /\ ~drp.codeFailed

UpdatesDBAgain == drp.uip /\ dbNeeded /\ ~drp.codeFailed  \* faulty: after a failure

UpdatesDB == drp.uip /\ dbNeeded /\ ~drp.dbFailed /\ ~drp.codeFailed

UpdateStepUnsaved ==           \* faulty: no backup
    IF UpdatesCode THEN "deploy" ELSE IF UpdatesDB THEN "updb" ELSE "finish"

UpdateStep == IF UpdatesCode THEN "deploy"
              ELSE IF UpdatesDB THEN "backup" ELSE "finish"

\* Here too the outcome of the status update is dropped.
CheckDBOD ==
    /\ pc = "dbod"
    /\ UNCHANGED <<kubeVars, dataVars>>
    /\ \/ /\ ~dbod
          /\ TransientErrorAndReturn([drp EXCEPT !.ready = "Error"], TRUE)
       \/ /\ dbod
          /\ Goto(UpdateStep)
          /\ UNCHANGED <<codeNeeded, dbNeeded, requeueFlag>>

-----------------------------------------------------------------------------
(* updateDrupalVersion.                                                    *)

UpdateDeployment ==
    /\ pc = "deploy"
    /\ UNCHANGED <<pod, dbod, installed, dataVars>>
    /\ \/ /\ deploy # drp.ver
          /\ deploy' = drp.ver
          /\ Return(TRUE)
       \/ /\ deploy = drp.ver
          /\ UNCHANGED deploy
          /\ Goto("rollout")
          /\ UNCHANGED <<codeNeeded, dbNeeded, requeueFlag>>

UpdateDeploymentFails ==
    /\ pc = "deploy"
    /\ deploy # drp.ver
    /\ "api" \in Faults
    /\ TransientErrorAndReturn(drp, FALSE)
    /\ UNCHANGED <<kubeVars, dataVars>>

RolloutWaits(phase) == phase \in {"none", "pending"}

RolloutFailed(phase) == phase \in {"late", "failed"}

\* didVersionRollOutSucceed
CheckRollout ==
    /\ pc = "rollout"
    /\ UNCHANGED <<kubeVars, dataVars>>
    /\ IF RolloutWaits(pod[drp.ver])
       THEN TransientErrorAndReturn(drp, FALSE)
       ELSE /\ Goto(IF RolloutFailed(pod[drp.ver]) THEN "rollback" ELSE "reload")
            /\ UNCHANGED <<codeNeeded, dbNeeded, requeueFlag>>

CodeFailedStatus == [drp EXCEPT !.codeFailed = TRUE]

\* rollBackCodeUpdate after a failed rollout.  When it fails, the condition
\* is still written, by handleTransientErr.
RollBack ==
    /\ pc = "rollback"
    /\ deploy' = drp.failsafe
    /\ UpdateStatusAndReturn(CodeFailedStatus, deploy' # deploy)
    /\ UNCHANGED <<pod, dbod, installed, dataVars>>

RollBackFails ==
    /\ pc = "rollback"
    /\ deploy # drp.failsafe
    /\ "api" \in Faults
    /\ TransientErrorAndReturn(CodeFailedStatus, FALSE)
    /\ UNCHANGED <<kubeVars, dataVars>>

\* The cache is reloaded in a pod of the new release; two failed attempts end
\* the reconciliation with a status update that changes nothing.
ReloadCache ==
    /\ pc = "reload"
    /\ UNCHANGED <<kubeVars, dataVars>>
    /\ \/ /\ ExecFails(drp.ver)
          /\ UpdateStatusAndReturn(drp, FALSE)
       \/ /\ ExecRuns(drp.ver)
          /\ \/ Goto("finish")
             \/ "reload" \in Faults /\ Goto("reloadfailed")
          /\ UNCHANGED <<codeNeeded, dbNeeded, requeueFlag>>

\* The reload printed an error: roll back, whatever comes of it.
RollBackAfterReload ==
    /\ pc = "reloadfailed"
    /\ \/ deploy' = drp.failsafe
       \/ "api" \in Faults /\ deploy # drp.failsafe /\ UNCHANGED deploy
    /\ UpdateStatusAndReturn(CodeFailedStatus, deploy' # deploy)
    /\ UNCHANGED <<pod, dbod, installed, dataVars>>

-----------------------------------------------------------------------------
(* updateDBSchema.                                                         *)

DBFailedStatus == [drp EXCEPT !.dbFailed = TRUE]

TakeBackup ==
    /\ pc = "backup"
    /\ UNCHANGED <<kubeVars, db>>
    /\ \/ /\ ExecFails(drp.ver)
          /\ UpdateStatusAndReturn(DBFailedStatus, FALSE)
          /\ UNCHANGED backup
       \/ /\ ExecRuns(drp.ver)
          /\ backup' = db
          /\ Goto("updb")
          /\ UNCHANGED <<codeNeeded, dbNeeded, requeueFlag>>

DBUpdatedStatus == [drp EXCEPT !.dbPending = "none", !.dbFailed = FALSE]

RunUpdb ==
    /\ pc = "updb"
    /\ ExecRuns(drp.ver)
    /\ db' = [schema |-> drp.ver, half |-> FALSE]
    /\ IF DBUpdatedStatus # drp
       THEN UpdateStatusAndReturn(DBUpdatedStatus, FALSE)
       ELSE Goto("finish") /\ UNCHANGED <<codeNeeded, dbNeeded, requeueFlag>>
    /\ UNCHANGED <<kubeVars, backup>>

\* The command fails before the update starts, or the update stops half way,
\* or it is done and the command reports an error all the same.  The backup is
\* not restored.
RunUpdbFails ==
    /\ pc = "updb"
    /\ \/ ExecFails(drp.ver) /\ UNCHANGED db
       \/ /\ "updb" \in Faults
          /\ ExecRuns(drp.ver)
          /\ db' \in {[db EXCEPT !.half = TRUE], [schema |-> drp.ver, half |-> FALSE]}
    /\ UpdateStatusAndReturn(DBFailedStatus, FALSE)
    /\ UNCHANGED <<kubeVars, backup>>

-----------------------------------------------------------------------------
\* The end of Reconcile: the Failsafe follows the release in use.
AdvancesFailsafeAnyway(c) == c.current # c.failsafe  \* faulty: after a failure

AdvancesFailsafeOnce(c) ==     \* faulty: at the first instantiation only
    c.failsafe = Empty /\ ~c.dbFailed /\ ~c.codeFailed

AdvancesFailsafe(c) ==
    c.current # c.failsafe /\ ~c.dbFailed /\ ~c.codeFailed

AdvanceFailsafe ==
    /\ pc = "finish"
    /\ IF AdvancesFailsafe(drp)
       THEN UpdateStatusAndReturn([drp EXCEPT !.failsafe = drp.ver], FALSE)
       ELSE Return(requeueFlag)
    /\ UNCHANGED <<kubeVars, dataVars>>

Reconcile ==
    \/ Fetch \/ CheckConditions \/ CheckCode \/ CheckDB \/ AnnotateUpdate
    \/ EnsureResources \/ EnsureResourcesFails \/ CheckDBOD
    \/ UpdateDeployment \/ UpdateDeploymentFails \/ CheckRollout
    \/ RollBack \/ RollBackFails \/ ReloadCache \/ RollBackAfterReload
    \/ TakeBackup \/ RunUpdb \/ RunUpdbFails \/ AdvanceFailsafe

-----------------------------------------------------------------------------
(* The environment.  What enqueues the site: changes of the DrupalSite     *)
(* (once they reach the cache), of the status of the Deployment, of the    *)
(* Database and of the Job; a phase of a pod alone does not.               *)

EditVersion(r) ==
    /\ r # cr.ver
    /\ cr' = [cr EXCEPT !.ver = r]
    /\ synced' = FALSE
    /\ fresh' = FALSE
    /\ UNCHANGED <<cache, queued, pc, drp, codeNeeded, dbNeeded, requeueFlag,
                   kubeVars, dataVars>>

InformerSync ==
    /\ ~synced
    /\ cache' = cr
    /\ synced' = TRUE
    /\ queued' = TRUE
    /\ UNCHANGED <<cr, callVars, kubeVars, dataVars>>

\* The periodic resynchronisation of the informers (10 hours by default).
Resync ==
    /\ ~queued
    /\ queued' = TRUE
    /\ UNCHANGED <<apiVars, callVars, kubeVars, dataVars>>

\* The operator restarts: it lists every object anew and enqueues the site.
Restart ==
    /\ "crash" \in Faults
    /\ EndCall
    /\ cache' = cr /\ synced' = TRUE /\ queued' = TRUE
    /\ UNCHANGED <<cr, kubeVars, dataVars>>

SetPod(r, phase, event) ==
    /\ pod' = [pod EXCEPT ![r] = phase]
    /\ queued' = (queued \/ event)
    /\ UNCHANGED <<apiVars, callVars, deploy, dbod, installed, dataVars>>

PodCreated(r) == deploy = r /\ pod[r] = "none" /\ SetPod(r, "pending", TRUE)

PodLate(r) ==
    "slow" \in Faults /\ pod[r] = "pending" /\ SetPod(r, "late", FALSE)

PodRuns(r) == pod[r] \in {"pending", "late"} /\ SetPod(r, "running", FALSE)

PodReady(r) == pod[r] = "running" /\ SetPod(r, "ready", TRUE)

PodUnready(r) ==
    "readiness" \in Faults /\ pod[r] = "ready" /\ SetPod(r, "running", TRUE)

PodFails(r) ==
    /\ "pod" \in Faults
    /\ pod[r] \in {"pending", "late", "running", "ready"}
    /\ SetPod(r, "failed", pod[r] = "ready")

\* A failed pod is replaced.  The pod of another release than the Deployment's
\* goes, a ready one only once the new pod is ready (RollingUpdate).
PodRemoved(r) ==
    /\ pod[r] # "none"
    /\ IF deploy = r THEN pod[r] = "failed"
       ELSE pod[r] = "ready" =>
              deploy = Absent \/ \E s \in Releases : deploy = s /\ pod[s] = "ready"
    /\ SetPod(r, "none", TRUE)

DeploymentDeleted ==
    /\ "delete" \in Faults
    /\ deploy # Absent
    /\ deploy' = Absent
    /\ queued' = TRUE
    /\ UNCHANGED <<apiVars, callVars, pod, dbod, installed, dataVars>>

DBODProvisioned ==
    /\ ~dbod
    /\ dbod' = TRUE
    /\ queued' = TRUE
    /\ UNCHANGED <<apiVars, callVars, deploy, pod, installed, dataVars>>

\* The job or TaskRun created with the Deployment ends.  A fresh installation
\* has the schema of the release; a copied database has any schema.
SiteInstalled(r) ==
    /\ ~installed
    /\ dbod
    /\ deploy \in Releases
    /\ Cloned \/ r = deploy
    /\ installed' = TRUE
    /\ db' = [schema |-> r, half |-> FALSE]
    /\ queued' = TRUE
    /\ UNCHANGED <<apiVars, callVars, deploy, pod, dbod, backup>>

PodStep(r) ==
    \/ PodCreated(r) \/ PodLate(r) \/ PodRuns(r) \/ PodReady(r)
    \/ PodUnready(r) \/ PodFails(r) \/ PodRemoved(r)

Environment ==
    \/ InformerSync \/ Resync \/ Restart
    \/ DeploymentDeleted \/ DBODProvisioned
    \/ \E r \in Releases : EditVersion(r) \/ SiteInstalled(r) \/ PodStep(r)

Next == Reconcile \/ Environment

Spec == Init /\ [][Next]_vars

-----------------------------------------------------------------------------
(* Fairness: the work queue hands the site out and the reconciliation goes *)
(* on; watches deliver; the Deployment controller, the DBOD operator and   *)
(* the installation job do their work.  No fault and no edit ever has to   *)
(* happen.                                                                 *)

DeploymentController(r) ==
    PodCreated(r) \/ PodRuns(r) \/ PodReady(r) \/ PodRemoved(r)

Fairness ==
    /\ WF_vars(Reconcile)
    /\ WF_vars(InformerSync)
    /\ WF_vars(Resync)
    /\ WF_vars(DBODProvisioned)
    /\ WF_vars(\E r \in Releases : SiteInstalled(r))
    /\ \A r \in Releases : WF_vars(DeploymentController(r))

-----------------------------------------------------------------------------
(* What holds.                                                             *)

\* The site's release status, as a reader of the object sees it.
Contract == INSTANCE ReleaseContract
    WITH want <- cr.ver, current <- cr.current, failsafe <- cr.failsafe,
         codeFailed <- cr.codeFailed, dbFailed <- cr.dbFailed

\* Whatever interleaves with the operator, the release status follows the
\* contract: only the release asked for and observed becomes the Failsafe,
\* never while a failure stands, and a failure is withdrawn only when the
\* administrator is back at the Failsafe (Reconcile, lines 290-340, 504-509).
ImplementsContract == Contract!ContractSpec

\* The operator never overwrites an edit of the version that it has not seen:
\* only the administrator changes spec.version (updateCRorFailReconcile and
\* its conflict).
OnlyAdministratorEdits ==
    [][cr'.ver # cr.ver => \E r \in Releases : EditVersion(r)]_vars

\* A copy counted as current is the stored object; a synced cache holds it
\* too; the steps that write the release status work on an observed release.
\* This is what makes the writes of Reconcile safe, and the induction go.
CopyIsCurrent ==
    /\ fresh => (cr = drp /\ pc # "idle")
    /\ synced => cache = cr
    /\ pc \notin {"idle", "conditions"} => drp.current = drp.ver
    /\ pc \in {"deploy", "rollout", "rollback", "reload", "reloadfailed"}
         => ~drp.codeFailed
    /\ pc \in {"backup", "updb"} => ~drp.codeFailed /\ ~drp.dbFailed

AtRest == pc = "idle" /\ ~queued /\ synced

\* No wake-up is lost: when nothing is left to do, the status names the
\* release asked for and condition Ready tells the truth about the
\* Deployment and the database, whatever failed before.
RestMeansUpToDate ==
    AtRest => /\ cr.current = cr.ver
              /\ cr.ready = "True" <=> SiteReady /\ dbod

\* Once a failed code update has come to rest its annotation is gone and the
\* pending database updates are unknown (Reconcile, lines 410-418;
\* docs/site-update-workflow.md, "Failed update").
RejectedUpdateSettles ==
    AtRest /\ cr.codeFailed => ~cr.uip /\ cr.dbPending = "Unknown"

\* Without API faults, a serving site at rest carries the annotation
\* updateInProgress exactly when its code or its database is behind.
RestMeansAnnotated ==
    AtRest /\ ChecksUpdates(cr) =>
        (cr.uip <=> codeUpdateNeeded(cr) \/ HasUpdb(cr.ver))

\* The database of an installed site is only migrated to a release that is
\* already the Failsafe: never for a release whose rollout may still be
\* rolled back (codeUpdateNeeded, line 708, and dbUpdateNeeded).
MigratesAdoptedRelease ==
    [][installed /\ db' # db /\ ~db'.half
         => cr.failsafe \in {db'.schema, Empty}]_vars

\* Every database update, whether it ends or stops half way, starts from the
\* database that the backup file holds (updateDBSchema).
MigrationFollowsBackup == [][installed /\ db' # db => backup = db]_vars

\* In a call that sees the site serving, a Deployment changes its release only
\* under the annotation that announces an update to the users, or to roll back.
UpdateIsAnnounced ==
    [][deploy' # deploy /\ {deploy, deploy'} \subseteq Releases
         /\ drp.ready = "True" /\ drp.init => drp.uip]_vars

-----------------------------------------------------------------------------
(* What the comments say, and the code does not do.                        *)

\* updateDrupalVersion: "the deployment is rolled back to the previous version
\* using the 'Failsafe' on the status and a 'CodeUpdateFailed' status is set".
RollbackHolds == AtRest /\ cr.codeFailed => deploy = cr.failsafe
=============================================================================
