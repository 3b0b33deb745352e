--------------------------- MODULE SiteLifecycle ----------------------------
(***************************************************************************)
(* A site from its creation to the end of its deletion, as Reconcile goes  *)
(* through it: deletion and finalizer (cleanupDrupalSite), the pause of    *)
(* the administrator, the defaults and the validation of the specification *)
(* (ensureSpecFinalizer, validateSpec), the list of backups in the status  *)
(* (checkNewBackups) and the schedule of backups, which the finalizer is   *)
(* there for (ensureResourceX, ensureNoBackupSchedule).  Updates, primary  *)
(* site, Deployment and ingress have modules of their own.                 *)
(*                                                                         *)
(* Reads go to informer caches and writes to the API server.  Sites and    *)
(* backups are watched, schedules are not.                                 *)
(***************************************************************************)
EXTENDS Naturals, FiniteSets

CONSTANTS
    Backups,   \* names of backups of the project
    Kinds,     \* the kinds of sites that are created, out of SiteKinds
    MaxEdits,  \* how many changes from outside there are
    NoSite,    \* "there is no such object"
    Faults     \* the faults that may happen

\* A site of its own, a clone of another site, a site with a version that has
\* no default release and none that is given, and an invalid specification.
SiteKinds == {"plain", "clone", "unreleased", "invalid"}

\* DiskSize is given, or saved with the finalizer; wanted is ScheduledBackups
\* or the status of a primary site; error is the condition Error; listed is
\* status.availableBackups.
DrupalSite == [kind : SiteKinds, disk : BOOLEAN, wanted : BOOLEAN,
               finalizer : BOOLEAN, paused : BOOLEAN, deleting : BOOLEAN,
               initialized : BOOLEAN, error : BOOLEAN, listed : SUBSET Backups]

ASSUME LifecycleAssumption ==
    /\ IsFiniteSet(Backups)
    /\ Kinds \subseteq SiteKinds
    /\ MaxEdits \in Nat
    /\ NoSite \notin DrupalSite
    /\ Faults \subseteq {"crash"}  \* the operator restarts

VARIABLES
    cr,           \* the site in the API server
    cache,        \* the same in the informer cache
    synced,       \* no write of it is on its way to the cache
    source,       \* the site that a clone is made from
    schedule,     \* the schedule exists
    seenSchedule, \* the same in the informer cache
    completed,    \* the completed backups
    seenBackups,  \* the same in the informer cache
    backupsLate,  \* they have events on their way to it
    queued,       \* the site is in the work queue
    pc,           \* next step of the running call
    drp,          \* its copy of the site
    fresh,        \* the site has not been written since
    edits         \* changes from outside so far

site == <<cr, cache, synced>>
velero == <<schedule, seenSchedule, completed, seenBackups, backupsLate>>
call == <<pc, drp, fresh>>
vars == <<site, source, velero, queued, call, edits>>

\* Every variable has its type, and a running call has a site.
TypeOK ==
    /\ cr \in DrupalSite \cup {NoSite} /\ cache \in DrupalSite \cup {NoSite}
    /\ synced \in BOOLEAN
    /\ source \in {"gone", "new", "there"}
    /\ schedule \in BOOLEAN /\ seenSchedule \in BOOLEAN
    /\ completed \subseteq Backups /\ seenBackups \subseteq Backups
    /\ backupsLate \in BOOLEAN /\ queued \in BOOLEAN
    /\ pc \in {"idle", "cleanup", "finalize", "spec", "conditions", "backups",
               "resources"}
    /\ drp \in DrupalSite \cup {NoSite} /\ (pc = "idle" <=> drp = NoSite)
    /\ fresh \in BOOLEAN
    /\ edits \in 0 .. MaxEdits

\* A site has just been created; the one it is cloned from may be as new.
Init ==
    /\ \E kind \in Kinds, disk \in BOOLEAN, wanted \in BOOLEAN :
         cr = [kind |-> kind, disk |-> disk, wanted |-> wanted,
               finalizer |-> FALSE, paused |-> FALSE, deleting |-> FALSE,
               initialized |-> FALSE, error |-> FALSE, listed |-> {}]
    /\ cache = cr /\ synced = TRUE
    /\ source \in {"new", "there"}
    /\ schedule = FALSE /\ seenSchedule = FALSE
    /\ completed = {} /\ seenBackups = {} /\ backupsLate = FALSE
    /\ queued = TRUE
    /\ pc = "idle" /\ drp = NoSite /\ fresh = FALSE
    /\ edits = 0

-----------------------------------------------------------------------------
(* The ways a call ends.                                                   *)

Return == pc' = "idle" /\ drp' = NoSite /\ fresh' = FALSE

ReturnNow == Return /\ UNCHANGED <<site, source, velero, queued, edits>>

ReturnRequeue == /\ Return /\ queued' = TRUE
                 /\ UNCHANGED <<site, source, velero, edits>>

Goto(step) ==
    /\ pc' = step
    /\ UNCHANGED <<site, source, velero, queued, fresh, edits>>

\* updateCRorFailReconcile and updateCRStatusOrFailReconcile: a write that
\* changes nothing makes no event, a conflict queues the site again.
WriteAndReturn(new) ==
    IF fresh
    THEN /\ cr' = new
         /\ synced' = (synced /\ new = cr)
         /\ Return
         /\ UNCHANGED <<cache, source, velero, queued, edits>>
    ELSE ReturnRequeue

-----------------------------------------------------------------------------
(* Reconcile, step by step.                                                *)

PausedFirst(d) ==              \* faulty: a paused site is not cleaned up
    IF d = NoSite \/ d.paused THEN "idle"
    ELSE IF ~d.deleting THEN "spec"
    ELSE IF d.finalizer THEN "cleanup" ELSE "idle"

NotFoundToo(d) ==              \* faulty: a site that is gone is not looked for
    IF d # NoSite /\ d.deleting THEN IF d.finalizer THEN "cleanup" ELSE "idle"
    ELSE IF d # NoSite /\ d.paused THEN "idle" ELSE "spec"

\* The deletion comes before the pause.
FirstStep(d) ==
    IF d = NoSite THEN "idle"
    ELSE IF d.deleting THEN IF d.finalizer THEN "cleanup" ELSE "idle"
    ELSE IF d.paused THEN "idle" ELSE "spec"

Fetch ==
    /\ pc = "idle" /\ queued
    /\ queued' = FALSE
    /\ pc' = FirstStep(cache)
    /\ drp' = IF pc' = "idle" THEN NoSite ELSE cache
    /\ fresh' = (pc' # "idle" /\ synced)
    /\ UNCHANGED <<site, source, velero, edits>>

\* The schedule has no owner: it stays when the site goes.
CreateSchedule ==
    /\ schedule' = TRUE
    /\ UNCHANGED <<seenSchedule, completed, seenBackups, backupsLate>>

RemoveSchedule ==
    /\ schedule' = FALSE
    /\ UNCHANGED <<seenSchedule, completed, seenBackups, backupsLate>>

\* ensureNoBackupSchedule looks for the schedule in the cache: one that is not
\* there is left, one that is there but gone is an error.
CleanUp ==
    /\ pc = "cleanup"
    /\ \/ ~seenSchedule /\ Goto("finalize") /\ UNCHANGED drp
       \/ /\ seenSchedule /\ schedule
          /\ RemoveSchedule
          /\ pc' = "finalize"
          /\ UNCHANGED <<site, source, queued, drp, fresh, edits>>
       \/ seenSchedule /\ ~schedule /\ ReturnRequeue

RemoveFinalizer == pc = "finalize" /\ WriteAndReturn(NoSite)

WithDefaultsInMemory(d) == d       \* faulty: the finalizer is not saved

\* A finalizer that is missing is saved, and the size of the disk with it.
WithFinalizer(d) ==
    IF d.finalizer THEN d
    ELSE [d EXCEPT !.finalizer = TRUE,
                   !.disk = @ \/ d.kind # "clone" \/ source = "there"]

\* A clone of a site that is gone is refused, and so is an invalid
\* specification.  A version without a release is "updated" in every call,
\* which then ends.
EnsureSpec ==
    /\ pc = "spec"
    /\ IF drp.kind = "clone" /\ source = "gone"
       THEN WriteAndReturn([drp EXCEPT !.error = TRUE])
       ELSE IF WithFinalizer(drp) # drp \/ drp.kind = "unreleased"
       THEN WriteAndReturn(WithFinalizer(drp))
       ELSE IF drp.kind = "invalid"
       THEN WriteAndReturn([drp EXCEPT !.error = TRUE])
       ELSE /\ Goto("conditions")
            /\ drp' = [drp EXCEPT !.disk = @ \/ drp.kind # "clone" \/ source = "there"]

\* The default of the size of the disk is in the copy only.
Stored(d) == [d EXCEPT !.disk = IF cr = NoSite THEN @ ELSE cr.disk]

\* Initialized becomes true some time after the creation.
CheckConditions ==
    /\ pc = "conditions"
    /\ \/ /\ ~drp.initialized
          /\ WriteAndReturn(Stored([drp EXCEPT !.initialized = TRUE]))
       \/ Goto("backups") /\ UNCHANGED drp

LongerList(d) == Cardinality(seenBackups) > Cardinality(d.listed)   \* faulty: only
                                                 \* a longer list is a new one

NewList(d) == Cardinality(seenBackups) # Cardinality(d.listed)

CheckBackups ==
    /\ pc = "backups"
    /\ IF NewList(drp) THEN WriteAndReturn(Stored([drp EXCEPT !.listed = seenBackups]))
                       ELSE Goto("resources") /\ UNCHANGED drp

WantedOnce(d) == d.initialized     \* faulty: a change of mind is not looked at

Wanted(d) == d.initialized /\ d.wanted

\* An error is written into Ready, and the event of that starts another call.
EnsureSchedule ==
    /\ pc = "resources" /\ drp.disk
    /\ \/ /\ Wanted(drp) = seenSchedule
          /\ ReturnNow
       \/ /\ Wanted(drp) # seenSchedule /\ seenSchedule # schedule
          /\ ReturnRequeue
       \/ /\ Wanted(drp) # seenSchedule /\ seenSchedule = schedule
          /\ IF Wanted(drp) THEN CreateSchedule ELSE RemoveSchedule
          /\ Return
          /\ UNCHANGED <<site, source, queued, edits>>

\* The process ends, and a new one lists what there is.
ProcessStarts ==
    /\ cache' = cr /\ synced' = TRUE
    /\ seenSchedule' = schedule
    /\ seenBackups' = completed /\ backupsLate' = FALSE
    /\ queued' = (cr # NoSite)
    /\ Return
    /\ UNCHANGED <<cr, source, schedule, completed>>

\* MustParse of no size at all: the clone of a site that has not got its own
\* default yet.
Panic == pc = "resources" /\ ~drp.disk /\ ProcessStarts /\ UNCHANGED edits

Reconcile ==
    \/ Fetch \/ CleanUp \/ RemoveFinalizer \/ EnsureSpec
    \/ CheckConditions \/ CheckBackups \/ EnsureSchedule \/ Panic

-----------------------------------------------------------------------------
(* The environment.                                                        *)

SyncSite ==
    /\ ~synced
    /\ cache' = cr /\ synced' = TRUE
    /\ queued' = TRUE
    /\ UNCHANGED <<cr, source, velero, call, edits>>

SyncSchedule ==
    /\ seenSchedule # schedule
    /\ seenSchedule' = schedule
    /\ UNCHANGED <<site, source, schedule, completed, seenBackups, backupsLate,
                   queued, call, edits>>

SyncBackups ==
    /\ backupsLate
    /\ seenBackups' = completed /\ backupsLate' = FALSE
    /\ queued' = TRUE
    /\ UNCHANGED <<site, source, schedule, seenSchedule, completed, call, edits>>

\* Every ten hours.
Resync ==
    /\ queued' = TRUE
    /\ UNCHANGED <<site, source, velero, call, edits>>

Edit == edits < MaxEdits /\ edits' = edits + 1

Restart == "crash" \in Faults /\ Edit /\ ProcessStarts

EditSite(new) ==
    /\ Edit
    /\ cr' = new /\ synced' = FALSE /\ fresh' = FALSE
    /\ UNCHANGED <<cache, source, velero, queued, pc, drp>>

Pause == cr # NoSite /\ EditSite([cr EXCEPT !.paused = ~@])

WantBackups == cr # NoSite /\ EditSite([cr EXCEPT !.wanted = ~@])

\* A site without a finalizer is gone at once.
Delete ==
    /\ cr # NoSite /\ ~cr.deleting
    /\ EditSite(IF cr.finalizer THEN [cr EXCEPT !.deleting = TRUE] ELSE NoSite)

\* The other site gets its default size, or is deleted.
ChangeSource(s) ==
    /\ Edit
    /\ source' = s
    /\ UNCHANGED <<site, velero, queued, call>>

BackupCompletesOrExpires(b) ==
    /\ Edit
    /\ completed' = IF b \in completed THEN completed \ {b} ELSE completed \cup {b}
    /\ backupsLate' = TRUE
    /\ UNCHANGED <<site, source, schedule, seenSchedule, seenBackups, queued, call>>

Next ==
    \/ Reconcile \/ Restart
    \/ SyncSite \/ SyncSchedule \/ SyncBackups \/ Resync
    \/ Pause \/ WantBackups \/ Delete
    \/ \E s \in {"gone", "there"} : ChangeSource(s)
    \/ \E b \in Backups : BackupCompletesOrExpires(b)

Spec == Init /\ [][Next]_vars

\* The workers do not stop, events are delivered and the resynchronisation
\* comes round.
FairSpec ==
    /\ Spec
    /\ WF_vars(Reconcile)
    /\ WF_vars(SyncSite) /\ WF_vars(SyncSchedule) /\ WF_vars(SyncBackups)
    /\ WF_vars(Resync)

-----------------------------------------------------------------------------
(* What the operator promises.                                             *)

\* A schedule of a site that is there is never without the finalizer that its
\* deletion waits for (ensureSpecFinalizer comes before ensureResources, and a
\* call ends where it has saved the finalizer).
FinalizerFirst == schedule /\ cr # NoSite => cr.finalizer

\* No schedule is made for a site that is gone, be it by a call that began
\* before, or read a cache that still has the site.
OrphansAreNotMade == [][cr = NoSite /\ schedule' => schedule]_vars

\* When the operator rests and has refused nothing, the status lists as many
\* backups as there are: no event of a backup is lost, be it during a call, a
\* pause or a restart.
RestMeansListed ==
    /\ pc = "idle" /\ ~queued /\ synced /\ ~backupsLate
    /\ cr # NoSite
    /\ ~cr.deleting /\ ~cr.paused /\ ~cr.error /\ cr.kind # "unreleased"
    => Cardinality(cr.listed) = Cardinality(completed)

\* A site that is deleted goes away: paused, invalid, refused or without a
\* release, and whether its schedule is in the cache, missing from it or gone
\* behind it (cleanupDrupalSite).
DeletionCompletes == (cr # NoSite /\ cr.deleting) ~> (cr = NoSite)

\* The site is one that the operator gets to the end of a call with.
Served ==
    /\ cr # NoSite
    /\ ~cr.deleting /\ ~cr.paused /\ cr.initialized
    /\ \/ cr.kind = "plain"
       \/ cr.kind = "clone" /\ source = "there"

\* In the end a schedule exists exactly if one is wanted, though no event of a
\* schedule wakes the operator and it reads the schedule from a cache.
ScheduleFollows ==
    <>[]Served => <>[](cr # NoSite /\ schedule = cr.wanted)
=============================================================================
