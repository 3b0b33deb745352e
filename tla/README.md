# A verification of the drupalsite-operator

The drupalsite-operator is a Kubernetes operator that provisions Drupal sites
on OpenShift: a custom resource `DrupalSite` says which release a site is to
run, and the operator creates its Deployment, database, routes, jobs and
backups, and takes the site from one release to the next. This directory holds
TLA+ modules translated from its source, the configurations under which TLC
checks them, and theorems that TLAPS proves about them. Line numbers refer to
`src/controllers/drupalsite_controller.go` ("controller"),
`src/controllers/drupalsite_resources.go` ("resources") and
`src/controllers/reconciler_utils.go` ("utils").

## 1. The system

Everything the operator does happens in `Reconcile` (controller 199-514). It is
called with the name of a site by a pool of `ParallelThreadCount` workers; the
work queue never hands one site to two of them at a time. It reads from the
informer caches, which lag behind the API server, and writes to the API server,
which refuses an update computed from an older version of the object. There is
no memory between calls: everything is decided anew from what the caches say.
A call ends at its first write of the `DrupalSite`; the event of that write
starts the next one.

| component | state | operations | what makes it correct |
|---|---|---|---|
| Update workflow | `spec.version`, `status.releaseID.{current,failsafe}`, conditions `Ready`, `Initialized`, `CodeUpdateFailed`, `DBUpdatesFailed`, `DBUpdatesPending`, annotation `updateInProgress`, the release of the Deployment, the database and its backup file | the steps of `Reconcile`, `updateDrupalVersion`, `updateDBSchema`, `rollBackCodeUpdate` | only an observed release is adopted, and not while a failure stands; a failure stands until the administrator is back at the Failsafe; no wake-up is lost; a database is only migrated from a fresh backup and to the adopted release; an update is announced, and decided in the end |
| Object writes | resourceVersion of the object and of the copy | `updateCRorFailReconcile`, `updateCRStatusOrFailReconcile`, `handleTransientErr` | an edit is never lost, a refused write is tried again |
| Primary site | `DrupalProjectConfig.spec.primarySiteName`, `status.isPrimary` of every site of the project | `proclaimPrimarySiteIfExists`, `checkIfPrimaryDrupalsite`, `cleanupDrupalSite` | at rest exactly the named site says it is primary; the name is never one of a site that is gone; an administrator's choice is not overwritten |
| Site lifecycle | finalizer, defaults of the specification, validation, `admin-pause-reconcile`, deletion time stamp | `ensureSpecFinalizer`, `validateSpec`, `cleanupDrupalSite` | defaults are a fixed point; a paused site is left alone; what is not owned by the site is cleaned up before it goes |
| Deployment configuration | annotations of the namespace, quality of service, override, replicas | `expectedDeploymentReplicas`, `getDeploymentConfiguration`, `ensureDrupalDeployment` | the Deployment of a site at rest has the replicas that namespace and quality of service ask for |
| Ingress | `spec.siteUrl`, Routes, OidcReturnURIs | `ensureResourceX`, `ensureNoExtraRouteResource`, `ensureNoExtraOidcReturnUriResource`, `ensureNoRoute`, `ensureNoReturnURI` | at rest the routes and return URIs are those of the URLs |
| Configuration maps | four maps, four hashes in the pod template | `updateConfigMapFor...`, `ensureDeploymentConfigmapHash` | a change rolls out, and nothing else does |
| Backups | Velero schedule, Velero backups, `status.availableBackups` | `checkNewBackups`, schedule part of `ensureResources`, `ensureNoBackupSchedule` | the list is the completed backups; a schedule exists while the site wants one, and goes with it |
| Installation | install Job, clone Job, easystart TaskRun | part of `ensureResources`, `isDrupalSiteInstalled`, `isCloneJobCompleted`, `isEasystartTaskRunCompleted` | a site is Initialized only once one of them has ended |
| S2I builds | ImageStream, BuildConfig, trigger secret | part of `ensureResources` | created once, never read back |
| Supported versions | registry tags, `spec.blacklist`, `status.availableVersions` | the second controller | the latest release of every version that is not on the blacklist; the controller comes to rest |

They interact through the API server alone: the administrator and the
schedulers of the cluster write objects, and the watches of `SetupWithManager`
turn their events into calls of `Reconcile`. Phases of pods, the end of a job
inside a pod or a new schema of the database are not events: they are only seen
when something else wakes the site up.

The behaviours that are hard are the same everywhere: a call works on a copy
that is older than the object; the administrator edits between two steps of a
call; a write is refused and the rest of the work is already done; the call ends
without a retry; the process restarts between two steps. `PROJECT.json` lists
each with its line under "hazards".

## 2. Plan

| order | module | state |
|---|---|---|
| 1 | `SiteUpdate`, `ReleaseContract`: the update workflow and what it promises | done, proved |
| 2 | `SiteBlocking`: replicas, blocking and quality of service beside an update | done, proved |
| 3 | `PrimarySite`: several sites and the `DrupalProjectConfig`, with creation and deletion | done, proved |
| 4 | `SupportedVersions`: the second controller: registry, blacklist, status and its requeue; its algorithms (`parseRegistryTags`, `getLatestRelease`, `drupalVersionsEqual`) against reference definitions | done, proved |
| 5 | `SiteIngress`: routes and return URIs from `spec.siteUrl`, object by object, on late caches | done, proved |
| 6 | `SiteDeployment`: resources, override, priority, configuration maps and their hashes, with failures and deletion by others | done, proved |
| 7 | `SiteLifecycle`: finalizer, defaults, validation, pause and deletion, the Velero schedule and the list of backups | done, proved |

"Proved" means the types and the safety properties; liveness is checked by TLC
(section 5), its safety half is proved where it has one. What could follow: the
installation (which job is made for which site, and when `Initialized` becomes
true), and the images and triggers of the Deployment.

Each module stands for itself: the modules share the API server of the real
system and nothing else, and a composition of them would multiply their states
without a property that spans them. What one module takes from another it
states where it does so: an error of `ensureResources` is followed by another
call in `SiteDeployment` because of what `SiteIngress` shows of the condition
`Ready` (below, `Conditions`).

## 3. Modules

### `SiteUpdate`: the update workflow

The object in the API server is `cr`, the operator's cached copy `cache`, the
copy a call works on `drp`. A call is a sequence of steps, with the program
counter `pc`; each step is at most one read or write of something that others
change too:

| step | code |
|---|---|
| `Fetch` | controller 205-219 |
| `CheckConditions` | 289-339: Current, Ready, Initialized, and the failures forgotten at the Failsafe |
| `CheckCode`, `CheckDB`, `AnnotateUpdate`, `SettleFailedUpdate` | 367-418 |
| `EnsureResources`, `EnsureResourcesFails` | 439-442; resources 199-317, of which the server Deployment 572-596 |
| `CheckDBOD` | 456-463 |
| `UpdateDeployment`, `UpdateDeploymentFails`, `CheckRollout`, `RollBack`, `RollBackFails`, `ReloadCache`, `RollBackAfterReload` | `updateDrupalVersion` 767-824 and the branches of 473-488 |
| `TakeBackup`, `RunUpdb`, `RunUpdbFails` | `updateDBSchema` 832-854 |
| `AdvanceFailsafe` | 503-513 |

A condition is reduced to what the code tells apart: `Ready` is true, false, or
false with the reason of an error; the others are set or not, and
`DBUpdatesPending` may be unknown. A resourceVersion is the flag `fresh`: the
object has not been written since the copy was made. A write goes through when
`fresh` holds, and is refused otherwise; the status subresource keeps the stored
metadata and specification, the main resource keeps the stored status. Writes
that change nothing make no event. `handleTransientErr` drops the outcome of its
write and returns a nil error, as the code does.

The environment: the administrator (`EditVersion`), the informer
(`InformerSync`), its resynchronisation (`Resync`), restarts (`Restart`), the
Deployment controller and the pods, one per release (`PodStep`), the DBOD
operator, the installation jobs, and the deletion of the Deployment. Which
faults may happen is the constant `Faults`. The database is its schema and
whether an update of it stopped half way; `UpdbFrom` says which releases have
updates for which schema.

Left out: the annotation `admin-pause-reconcile`, the defaults, the validation
and the finalizer, which come before line 289 and end the call
(`SiteLifecycle`); the primary site and the backup list (341-365), which write
other parts of the status (`PrimarySite`, `SiteLifecycle`);
`getDeploymentConfiguration` (425-436) and `ensureDeploymentConfigmapHash`
(446-452), which change other parts of the Deployment (`SiteBlocking`,
`SiteDeployment`). Reads of the Deployment, the pods and the
Database are taken to be current.

### `SiteUpdateLiveness`

`SiteUpdate` with the variable `calm`, and the liveness property.

### `ReleaseContract`: what a site promises

Five actions on five variables: the administrator requests, the operator
observes, adopts, or rejects for its code or its database. `SiteUpdate`
implements it with `want <- cr.ver` and so on (`ImplementsContract`).

### `SiteBlocking`: replicas

A namespace with both block annotations has no replicas, one with only one of
them is refused, and the quality of service asks for one or three. The
module asks where the result is applied. A reconciliation is one action, named
for the place where it ends (`ObserveSite`, `AnnounceUpdate`,
`SetExpectedReplicas`, `EnsureDeployment`, `UpdateDeployment`, `RollBack`,
`AdoptRelease`, `UpdateDatabase`); the caches are current and the site is
installed, since `SiteUpdate` has the interleavings inside a call. `deploy` is
the release and the replicas of the Deployment, `cr.expected` is
`status.expectedDeploymentReplicas`. The environment edits version and
quality of service, sets the annotations one by one or together, and creates
and removes pods. Left out: the resource requests and `DrupalSiteConfigOverride`,
which are in `SiteDeployment`, and the autoscaler.

The release status of this module follows the same contract as that of
`SiteUpdate` (`Contract`, an instance of `ReleaseContract`): a second
implementation, in which the replicas and the namespace come on top.

### `PrimarySite`: which site of a project is the primary one

Any number of sites, one `DrupalProjectConfig` (`dpc`: the name it holds, or
`Absent`), a cache of each, and one running call per site (`call[s]`) on at most
`ParallelThreadCount` workers. A call copies the caches in `Fetch`; `fresh` and
`dpcFresh` say whether the site and the configuration have been written since.
The steps are `cleanupDrupalSite` (`CleanupConfig`, `RemoveFinalizer`),
`ensureSpecFinalizer` (`AddFinalizer`), `checkIfPrimaryDrupalsite`
(`CheckIfPrimary`), `proclaimPrimarySiteIfExists` (`Proclaim`) and the rest of
the call (`FinishCall`), which may write the status of its copy. The error of
`GetDrupalProjectConfig` lives in `err` until the `switch` of line 344 meets it
(`Panic`); the process then ends and a new one lists everything
(`ProcessStarts`, also used by `Restart`). Sites are created and deleted at any
time, and a name may be used again; an administrator names a site that is up, or
none.

### `SupportedVersions`: the second controller

`tags` is the registry, `objs` the SupportedDrupalVersions objects, `seen` their
cache, `timers` the requests that `RequeueAfter` will bring back. Lines are of
`supporteddrupalversions_controller.go`.

| step | code |
|---|---|
| `Fetch` | 71-92: the object with the expected name, or any if there is none of that name |
| `RegistryFails` | 94-98 |
| `KeepVersions` | 109-111 |
| `ChangeVersions` | 113, `updateVersions` 128-141 |
| `UpdateStatus`, `UpdateStatusFails`, `UpdateStatusAnswerLost` | 115-125: two attempts with the same copy |
| `Panic` | 208: the first group of an expression that does not match |

A tag is a version and the time in it. A time that cannot be parsed is the zero
time, since the error is ignored (209-210), and a tag that ends in `RELEASE` has
none (`Bare`). The order of a map is any order (`SetToSeqs`). The reference
definition for the algorithms is `Wanted`, the latest releases as they are read
off the registry, which uses none of the operators translated from the code.

### `SiteIngress`: the ways into a site

`objs` are the Routes and OidcReturnURIs in the API server, `seen` those in the
two caches, `late` the caches with events on their way. The loops of
`ensureResources` (resources 273-300) are values of `pc`; `todo` is what a loop
has yet to deal with, in any order that keeps the Route of a host before its
return URIs.

| step | code |
|---|---|
| `Fetch`, `CheckConditions` | controller 205-219, 289-339 |
| `EndLoop` | resources 273-290, with the lists of `ensureNoExtraRouteResource` and `ensureNoExtraOidcReturnUriResource` (599-694) |
| `Create`, `CreateRefused` | `ensureResourceX` 399-435 |
| `Remove`, `RemoveRefused` | `ensureNoRoute`, `ensureNoReturnURI` 696-729 |
| `FinishCall` | `handleTransientErr`, controller 237-250 |

The environment edits `spec.siteUrl`, deletes objects, and delivers events:
those of Routes start a reconciliation, those of OidcReturnURIs do not
(controller 121-170). Left out: restarts (a new process lists everything, which
is a resynchronisation with current caches), and a write of the status in
`handleTransientErr` that fails otherwise than by a conflict: nothing is then
left in the queue, and only the resynchronisation goes on.

### `SiteDeployment`: what the Deployment is made of

`wish` stands for the quality of service and the override, `maps` for the four
configuration maps, `deploy` for the Deployment; each has a cache that lags.

| step | code |
|---|---|
| `Fetch` | `getDeploymentConfiguration`, resources 2170-2227 |
| `EnsureMaps`, `EnsureMapsFails` | `ensureResourceX` 479-522, `updateConfigMapFor...` 1884-2006 |
| `EnsureDeployment` | `ensureDrupalDeployment` 572-596, `deploymentForDrupalSite` 903-1315 |
| `ReadMaps` | `getDeployConfigmap` 138-158 |
| `AnnotateDeployment` | `ensureDeploymentConfigmapHash` 160-192 |

`Enforced` is the part of `deploymentForDrupalSite` that every call applies to a
Deployment that exists: the resources, and a priority that is raised for a
critical site and never lowered (1289); nothing while the annotation `debug` is
set. The content of a map is a set of keys with their values, its text any order
of them, and a text stands for its hash. Left out: the release and the replicas
(`SiteUpdate`, `SiteBlocking`), images and their triggers, probes and commands,
and `containerExists`, which adds a container back that somebody removed; a
temporary error of `getDeploymentConfiguration` (controller 428-429), which reads
caches here, and they answer; and, as in `SiteIngress`, a write of the status in
`handleTransientErr` (237-250) that fails otherwise than by a conflict.

### `SiteLifecycle`: from creation to deletion

One site of one of four kinds (its own, a clone, one whose version has no
release, an invalid one), with the caches of the site, of its schedule and of
the backups.

| step | code |
|---|---|
| `Fetch` | controller 199-271: not found, deleted, paused, in this order |
| `CleanUp`, `RemoveFinalizer` | `cleanupDrupalSite` 590-610, `ensureNoBackupSchedule` (resources 731-746) |
| `EnsureSpec` | `ensureSpecFinalizer` 617-676, `validateSpec`, 273-287 |
| `CheckConditions`, `CheckBackups` | 289-339, 356-365 and `checkNewBackups` (resources 748-779) |
| `EnsureSchedule` | resources 302-312, 533-543 |
| `Panic` | `resource.MustParse` of no size, resources 1360 |

The names of the defaults matter less than where they live: `drp` has a default
that is not stored until the finalizer is (`Stored`). The environment pauses,
deletes and edits the site, changes or deletes the source of a clone, completes
and expires backups, and restarts the operator. Left out: the primary site in
`cleanupDrupalSite` (`PrimarySite`), the WebDAV password, and the extra
configuration repository that a clone takes from its source.

### The proofs

One module `...Proofs` for each of the modules, two for `SiteUpdate`; section 5.

## 4. Runs

Constants of `SiteUpdate` and `SiteBlocking`: two releases `r1` and `r2`, of
which `r2` has database updates for a site that ran `r1`. Two releases are enough
for every relation the code tests (asked, observed, deployed, Failsafe: equal or
not; empty or not). Constants of `PrimarySite`: two sites, which are enough for
one that is named, one that is not, and a second one that makes
`proclaimPrimarySiteIfExists` find more than one; two workers, so that both
sites can be in a call.

`SupportedVersions`: two versions, one with a release that cannot be read and
one with a tag that has no time at all, any subset of the four tags in the
registry, and a blacklist that is empty or not. This makes a version appear,
change its latest release, disappear and be put on the blacklist, and gives the
status two entries in two orders; one object is what the operator is installed
with, and several are covered by the proofs. `SiteIngress`: a site that is
renamed back and forth between two hosts, which takes every host through asked
for, surplus and asked for again while both caches are late. `SiteDeployment`: a
critical site and a standard one with an override of one container, one key in
each map, and edits of one map that change its value or add a second key.
`SiteLifecycle`: two backups, so that the list grows, shrinks and is exchanged.

The state spaces are finite as they are but for the changes from outside in
`SiteLifecycle`, which would be unbounded in nothing but their number: `MaxEdits`
allows three of them, restarts included. Three is what the longest case of
interest needs (delete in the middle of a call, restart, and one more change);
the proofs hold for any number.

| run | with | shows |
|---|---|---|
| `update_faults` | API, commands, cache reload, database update, slow pods, restarts | types, `CopyIsCurrent`, `RestMeansUpToDate`, `RejectedUpdateSettles`, the contract, edits kept, migrations, announcements |
| `update_pods` | a deleted Deployment, failing and unready pods, a cloned site | `RestMeansAnnotated` |
| `update_liveness` | cache reload, slow pods, restarts; fairness | `UpdatesAreDecided` |
| `blocking` | slow pods, failing database updates; fairness | types, `RollbackStands`, `ReplicasFollowNamespace`, the contract |
| `primary` | failing writes and reads, restarts; both sites symmetric | types, `CleanupIsDue`, `RestMeansStatusTrue`, `ChoiceIsKept` |
| `primary_liveness` | one worker, the default of `main.go`; no faults; fairness | `SoleSiteBecomesPrimary` |
| `versions` | registry, failing writes, lost answers, restarts; fairness | types, `PollGoesOn`, `ComparisonIsExact`, `BlacklistIsRespected`, `StatusFollowsRegistry`, `WritesCease` |
| `ingress` | refused routes and http return URIs, deleted routes; fairness | types, `RestMeansRouted`, `RoutesAfterInstallation`, `IngressFollows` |
| `deployment` | maps that cannot be created, deleted maps and Deployments; fairness | types, `RestMeansEnforced`, `RestMeansHashed`, `RolloutsCease` |
| `lifecycle` | all four kinds of sites, restarts; fairness | types, `FinalizerFirst`, `RestMeansListed`, `OrphansAreNotMade`, `DeletionCompletes`, `ScheduleFollows` |

`RestMeansAnnotated` is checked without failing writes: `handleTransientErr` ends
the call with nothing in the queue, also when its own write failed. The theorem
has the same hypothesis (`"api" \notin Faults`).
`RollbackStands` is what `claim_rollback` refutes for late caches; with current
ones, as `SiteBlocking` has them, it holds. `MigratesAdoptedRelease` is checked without deletion of the Deployment: without
a Deployment `codeUpdateNeeded` reports no difference, and a database may then
be migrated to a release that is not adopted.

The runs with "claim" in their name check a sentence of a comment that the code
does not keep; TLC finds a counterexample for each, and `PROJECT.json` quotes
the sentence under "findings":

| run | sentence | what happens |
|---|---|---|
| `claim_rollback` | controller 765-766 | a call on the cached object from before the rollback deploys the rejected release again and asks to be requeued (798-800, 486-487); the calls that follow leave the Deployment alone (resources 581) |
| `claim_settings` | resources 160-161 | the map of php-cli is read into the variable of the settings map (156), so that an edit of the settings changes no hash |

Other things that the models have, and no run states:

- Update: waiting for the pod of a new release leaves nothing in the queue (246:
  the error returned is nil), so that only an event or the resynchronisation
  goes on with the update. A site whose database update failed has the new
  release as its Failsafe already, since the code part of the update set it, so
  that the failure is forgotten at once (317) and the update tried again for
  ever; the second attempt overwrites the good backup with the half migrated
  database (836, against the comment in 831). The Failsafe before the database is
  the other order than the one of docs/site-update-workflow.md, which has under
  "Successful update", after the annotation and `DBUpdatesPending` are removed:
  "The status field `FailsafeDrupalVersion` will be updated with the new
  version set in the `DrupalVersion` field of the spec". A site that loses
  readiness after the edit adopts a release that does not run (374, 504).
- Blocking: a site blocked in the middle of an update is held at no replicas for
  ever, since its Deployment is left alone (resources 581; compare
  drupalsite_controller_test.go:318).
- Primary site: a sole site whose sibling has just gone becomes the primary one
  only at its next reconciliation, which nothing but the resynchronisation may
  start. A site deleted while the cached configuration does not name it yet stays
  the primary one (598, against the comment in 593). A failed read of the
  configuration ends the process (344, with the error of 224).
- Versions: with a blacklist the status is written in every call
  (supporteddrupalversions_controller.go:109), and each write that happens to
  change the order of the entries starts the next call.
- Ingress: the https return URI of a host that is not asked for any more is never
  deleted (resources 713), and the creation of a return URI that was refused waits
  for the resynchronisation (423).
- Deployment: a map of two keys is hashed in the order in which Go goes through
  it, so that equal maps roll the Deployment out for ever (utils 316). A map
  keeps the content it was created with when the file of the operator changes,
  whatever the comment in resources 1915 says of a new deployment. The priority
  of a site that is no longer critical stays.
- Lifecycle: a schedule that has not reached the cache when the site is cleaned up
  is not found and stays for good (resources 733, against the comment in 1793). A
  list of backups of the same length is not refreshed (controller 362);
  `backupListUpdateNeeded`, which would compare names, has no caller. A version without a
  release is reported as changed in every call, which writes nothing and ends
  there (668): the site never gets a resource. A clone whose source is gone is
  refused for good, and the condition Error, once set, is not removed. A clone
  whose source has no size yet gets none and ends the process (resources 1360).

Fairness of `SiteUpdate` (`LiveSpec`): weak fairness of a step of the call (the work queue
hands the site out and workers do not stop), of the informer's delivery, of the
resynchronisation (controller-runtime does it every ten hours, `main.go` sets no
other period), of the DBOD operator, of the installation and of the Deployment
controller. No fault and no edit is fair. `UpdatesAreDecided`
(`SiteUpdateLiveness`) says what happens once the administrator, the restarts
and the losses of readiness have come to a halt: a variable `calm`, which turns
true at any moment and never back, takes these actions out of the next-state
relation from then on. An assumption on the actions themselves ("from some time
on no `Restart`") would say less: a restart of an idle operator is the same step
as a resynchronisation.

Fairness of `SiteBlocking`: the reconciliation (every site is reconciled again
and again, by events and by the resynchronisation) and the Deployment
controller. `ReplicasFollowNamespace` supposes that the annotations and the
quality of service come to rest, not half blocked, with the administrator at the
Failsafe and no update announced: an update in the middle is excepted because
the Deployment is then left alone. Fairness of `PrimarySite`: the steps of each call, the
delivery of the watches, and the resynchronisation of each site, which
`SoleSiteBecomesPrimary` needs as just said. `primary_liveness` has one worker,
which is what makes the sites wait for each other.

Fairness of `SupportedVersions`: events are delivered and hours pass (weak), and a
step of a call that is possible again and again is taken (strong): the registry
does not refuse every request and the API server not every write. A restart or an
event could otherwise come before each of them for ever. `StatusFollowsRegistry`
supposes that tags and blacklists settle at a registry that can be parsed.
Fairness of `SiteIngress`, `SiteDeployment` and `SiteLifecycle`: weak fairness of
the running call, of each cache and, where events are not enough, of the
resynchronisation. `IngressFollows` and `RolloutsCease` suppose that edits,
refusals and deletions come to an end (`Settled`, `RequestsSettle`). In
`SiteLifecycle` they do by `MaxEdits`; `DeletionCompletes` supposes nothing.

## 5. Proofs

`SiteUpdateProofs` proves, for every set of releases, every `UpdbFrom` and every
set of faults:

- `TypeCorrect`: `Spec => []TypeOK`.
- `CopyCurrent`: `Spec => []CopyIsCurrent`. It is inductive with the types, and
  is what every other proof stands on: a write that is accepted was computed
  from the stored object, so that a step's guard on `drp` is a guard on `cr`.
- `WatchHolds`, `StatusUpToDate`, `RejectionSettles`: "no wake-up is lost" is not
  inductive. `Watched` strengthens it to running calls: when the status is not
  what the next call would make it, the site is queued, the cache still waits
  for an event, or the running call has yet to come to the step that writes or
  works on a copy that is not current, whose write will be refused. The lemmas
  `QueueKept` and `ReadyChangeQueues` say which steps put the site in the queue,
  and one lemma per kind of return carries `Watched` over it.
- `ContractImplemented`: the refinement, one case per step, with the lemmas
  `StatusWritten` and `ObjectWritten` for the two kinds of write.
- `EditsKept`: only `EditVersion` changes `spec.version`.

`SiteUpdateMigrationProofs` builds on these, with inductive
invariants of its own for each property:

- `MigrationBackedUp`: `InstalledFirst` says that the steps on the database work
  on a copy that is Initialized, that an Initialized site is installed, and that
  the backup is the database while `drush updb` is to run. An installed site
  therefore never has its database changed but from the backup.
- `UpdateAnnounced`: `AnnouncedFirst` says that between `CheckCode` and
  `EnsureResources` a call without a code update finds the release of its copy
  deployed, and that the steps of a code update have the annotation.
- `MigrationAdopted`, for a Deployment that nobody deletes (`"delete" \notin
  Faults`): `AdoptedFirst` says that a copy's Failsafe is the stored one, or that
  the stored one has since become the release the copy asks for. This is what an
  old copy may still be relied on for, and it makes the test of
  `codeUpdateNeeded` on the copy hold for the object.
- `AnnotationTellsTheTruth`, while no write fails (`"api" \notin Faults`):
  `NeedsFollowChecks` says where in a call its flags `codeNeeded` and `dbNeeded`
  may be set, and that past `AnnotateUpdate` the annotation of the copy is what
  they ask for; `NeedsTrue` that in a call on a current copy, with nothing in the
  queue, the flags are still true of the cluster, or the call will be repeated
  because an answer was missing. A call of that kind can only end quietly where
  the annotation was found to be right (`QuietReturnAnnotated`).

`PrimarySiteProofs` proves, for any finite number of sites, any number of
workers and every set of faults, from one inductive invariant: the types,
`CachesFollow` (a synced cache is the stored object) and, for each site,
`CopyFollows` (a fresh copy is the stored object), `WakesUp` (while a call works on
an old copy, an event is on its way or the site is queued), `CleansUp` (a site
that the cache or a call takes for deleted is not up) and `Watched` (a status
that is not true is queued, its event is on its way, or the running call has yet
to look at it):

- `TypeCorrect`, `CleanupDue`, `StatusTrue`, `ChoiceKept`: the four properties
  of run `primary`.

`SupportedVersionsProofs`, for every finite set of versions and tags and any
number of objects: the invariant `VersionsInv` adds to the types that what is
written has one entry for each version (`NiceCopies`), that a cache without
events is the object (`CacheFollows`), that the copy has the blacklist of the
object wherever its write is not refused (`FreshCopy`) and respects its own
(`CopyRespects`).

- `TypeCorrect`, `PollNeverStops`, `BlacklistRespected`.
- `ExactComparison`: a comparison of lengths, names and releases is the equality
  of sets. It needs `NiceCopies`, a count of the entries, and that the greatest
  of the releases is one of them, which follows from the well-foundedness of the
  proper subsets of a finite set.

`SiteIngressProofs`, for every set of hosts and URLs: `InstallInv` says that a
call that believes the site is installed is right, and that `Ready` has no error
when the loops begin (`Conditions`). The latter is the reason why the error
written at the end of a failed call is always a change, hence an event, hence
another call. `RouteInv` adds `RouteWork`: a route that is missing or surplus,
with nothing queued or on its way, belongs to a running call on the present
object that has yet to come to it or has failed.

- `TypeCorrect`, `NotReachableBefore`, `RoutesFollow`.

`SiteDeploymentProofs`, for maps of any content and all overrides: `RestInv` says
of each of the map, creation, enforcement and hash that what is not as it should
be has an event on its way or a call that has yet to come to it, or has failed
(`MapWork`, `CreationWork`, `EnforcementWork`, `HashWork`); the copies of a call
are current, or another call follows (`CopiesFollow`).

- `TypeCorrect`, `EnforcedAtRest`, `HashedAtRest`.

`SiteLifecycleProofs`, for any number of backups and edits: `LifeInv` says that a
fresh copy is the stored site but for the size of its disk (`CopyFollows`), that
a call on an old copy is not the last one (`WakesUp`), and that a site which a
cache or a call takes for one that is up with its finalizer is there and has it
(`Guarded`). `ListInv` adds that a list that is behind is about to be looked at
(`StillListing`).

- `TypeCorrect`, `FinalizerIsFirst`, `NoOrphans`, `ListFollows`.

`SiteBlockingProofs`, for every set of releases and every `UpdbFrom`:

- `TypeCorrect`, and `ContractFollowed`: every reconciliation and every edit is
  a step of the contract or none. A reconciliation that goes beyond the status
  has a status that is up to date, hence an observed release
  (`UpToDateObserved`), which is what `Adopt` and the rejections ask for.
- `RollbackStays`: `RollbackStands` is inductive with the types; the condition is
  only withdrawn where the version asked for is the Failsafe again.

### What the operator leaves alone

An operator that reconciles a site at every event, resynchronisation and restart
must do nothing to one that is as it should be. The theorems of this kind have
the form

    Spec => [](P => ([][~Interference]_vars => [][unchanged]_vars))

whenever the condition `P` holds, the part in question is not touched again,
until somebody from outside interferes. Nothing is assumed of the calls, the
caches, the pods, the faults or the restarts that come after `P`. Each is proved
by a fixed point: a predicate that `P` implies, by way of the invariant of the
module, and that every other step keeps.

| theorem | `P` | left alone | until | fixed point |
|---|---|---|---|---|
| `UpToDateLeftAlone` | at rest, up to date, no database updates due | Deployment, database, backup, Failsafe | version edited, Deployment deleted | `Served` |
| `RejectionIsFinal` | at rest with a rejected release | the same, and the failure stands | the same | `RejectionStands` |
| `NoFurtherRollout` | at rest, maps of at most one key | Deployment and maps | edits, deletions, a refused map | `InForce` |
| `StatusStaysTrue` | no write under way, the status lists what the registry and the blacklist ask for | the truth of the list | tags, blacklist or object changed | `StaysTruthful` |
| `NoFurtherWrite` | the same, idle, no blacklist | the object | the same | `Unwritten` |
| `RoutesStay` | at rest, initialized | the Routes | URLs edited, a Route deleted | `InPlace` |
| `ReplicasStay` | at the Failsafe, replicas as the namespace asks for | the Deployment | annotations, quality of service or version edited | `Scaled` |
| `ScheduleStays` | no call, schedule as wanted, caches current | the schedule | the wish changed, the site deleted | `InForce` |
| `PrimaryStays` | at rest, the primary site is up | the name, the status of every site that was up | anything an administrator does | `Standing` |

They are the safety halves of the liveness properties: `RolloutsCease` says that
the writes end, `NoFurtherRollout` that they do not begin again; in the same way
`NoFurtherWrite` and `WritesCease`, `StatusStaysTrue` and
`StatusFollowsRegistry`, `RoutesStay` and the Routes of `IngressFollows`,
`ReplicasStay` and `ReplicasFollowNamespace`, `ScheduleStays` and
`ScheduleFollows`. The hypotheses show what the code needs: `NoFurtherRollout`
is false for a map of two keys and `NoFurtherWrite` with a blacklist, both for
the order in which Go goes through a map; `UpToDateLeftAlone` supposes that no
database updates are due, since those are done under an announcement of their
own. That a site is left alone through any fault does not contradict what
section 4 says of lost wake-ups: a site that needs nothing loses nothing.

`DeletionIsFinal` (`SiteLifecycleProofs`) is the same for a deletion: from its
beginning the operator writes nothing to the site but the removal of the
finalizer, and it never writes one that is gone. It needs `GoesOnUp`, that a call
past its first step works on a copy without a deletion time stamp.

The assumptions are those of the modules: a value that stands for "there is none"
(release, Deployment, configuration, site, map, object) is not one of the things
it is the absence of; the sets of sites, backups, versions and tags, and the
maps, are finite. Model-checked only: the liveness properties, which are out of
reach of the provers that are used.

## 6. Not modelled

Which job installs a site, and its steps: `SiteUpdate` and `SiteIngress` only
have that the site becomes Initialized. Of the resource builders, what later
calls do not read back or enforce (data without control), and the images,
triggers and lost containers of the Deployment; the sizes of disks, which are
given or not (the code compares them as texts, controller 648). S2I builds
(created once, never read back), the transport of commands, metrics, manifests
and flags. Reads of backups and configuration maps do not fail in the models.
