------------------------ MODULE SiteLifecycleProofs -------------------------
(***************************************************************************)
(* What SiteLifecycle guarantees for every set of backups and kinds of     *)
(* sites, any number of edits and with or without restarts.                *)
(***************************************************************************)
EXTENDS SiteLifecycle, TLAPS

USE LifecycleAssumption

\* The two ways a call ends that write the site.
LEMMA WriteType ==
  ASSUME TypeOK, NEW new \in DrupalSite \cup {NoSite}, WriteAndReturn(new)
  PROVE  TypeOK'
  <1>1. CASE fresh
    BY <1>1 DEF WriteAndReturn, TypeOK, Return, velero
  <1>2. CASE ~fresh
    BY <1>2 DEF WriteAndReturn, ReturnRequeue, TypeOK, Return, velero, site
  <1> QED
    BY <1>1, <1>2

\* What the steps write is a site.
LEMMA CopyType ==
  ASSUME TypeOK, NEW d \in DrupalSite
  PROVE  /\ \A b \in BOOLEAN : [d EXCEPT !.error = b] \in DrupalSite
         /\ \A b \in BOOLEAN : [d EXCEPT !.disk = b] \in DrupalSite
         /\ \A b \in BOOLEAN : [d EXCEPT !.initialized = b] \in DrupalSite
         /\ \A l \in SUBSET Backups : [d EXCEPT !.listed = l] \in DrupalSite
         /\ WithFinalizer(d) \in DrupalSite
         /\ Stored(d) \in DrupalSite
  <1>1. Stored(d) \in DrupalSite
    BY DEF TypeOK, Stored, DrupalSite
  <1>2. WithFinalizer(d) \in DrupalSite
    BY DEF TypeOK, WithFinalizer, DrupalSite
  <1> QED
    BY <1>1, <1>2 DEF TypeOK, DrupalSite

LEMMA RunningCopy ==
  ASSUME TypeOK, pc # "idle"
  PROVE  drp \in DrupalSite
  BY DEF TypeOK

LEMMA ProcessStartsType ==
  ASSUME TypeOK, ProcessStarts, edits' \in 0 .. MaxEdits
  PROVE  TypeOK'
  BY DEF TypeOK, ProcessStarts, Return

LEMMA EditSiteType ==
  ASSUME TypeOK, NEW new \in DrupalSite \cup {NoSite}, EditSite(new)
  PROVE  TypeOK'
  <1>1. edits' \in 0 .. MaxEdits
    BY DEF TypeOK, EditSite, Edit
  <1> QED
    BY <1>1 DEF TypeOK, EditSite, velero

LEMMA TypeStep == TypeOK /\ [Next]_vars => TypeOK'
  <1> SUFFICES ASSUME TypeOK, [Next]_vars
               PROVE  TypeOK'
    OBVIOUS
  <1>1. ASSUME Fetch PROVE TypeOK'
    BY <1>1 DEF Fetch, FirstStep, TypeOK, site, velero
  <1>2. ASSUME CleanUp PROVE TypeOK'
    BY <1>2, RunningCopy DEF CleanUp, Goto, ReturnRequeue, Return, RemoveSchedule, TypeOK, site, velero
  <1>3. ASSUME RemoveFinalizer PROVE TypeOK'
    BY <1>3, WriteType DEF RemoveFinalizer
  <1>4. ASSUME EnsureSpec PROVE TypeOK'
    <2> drp \in DrupalSite
      BY <1>4, RunningCopy DEF EnsureSpec
    <2>1. CASE \E new \in DrupalSite : WriteAndReturn(new)
      BY <2>1, WriteType
    <2>2. CASE \E b \in BOOLEAN : Goto("conditions") /\ drp' = [drp EXCEPT !.disk = b]
      <3> drp' \in DrupalSite /\ Goto("conditions")
        BY <2>2, CopyType
      <3> QED
        BY DEF Goto, TypeOK, site, velero
    <2> QED
      <3>2. [drp EXCEPT !.error = TRUE] \in DrupalSite /\ WithFinalizer(drp) \in DrupalSite
        BY CopyType
      <3> QED
        BY <1>4, <2>1, <2>2, <3>2, Zenon DEF EnsureSpec
  <1>5. ASSUME CheckConditions PROVE TypeOK'
    <2> drp \in DrupalSite
      BY <1>5, RunningCopy DEF CheckConditions
    <2>1. CASE WriteAndReturn(Stored([drp EXCEPT !.initialized = TRUE]))
      BY <2>1, WriteType, CopyType
    <2>2. CASE Goto("backups") /\ UNCHANGED drp
      BY <2>2 DEF Goto, TypeOK, site, velero
    <2> QED
      BY <1>5, <2>1, <2>2 DEF CheckConditions
  <1>6. ASSUME CheckBackups PROVE TypeOK'
    <2> drp \in DrupalSite
      BY <1>6, RunningCopy DEF CheckBackups
    <2>1. CASE WriteAndReturn(Stored([drp EXCEPT !.listed = seenBackups]))
      <3> [drp EXCEPT !.listed = seenBackups] \in DrupalSite
        BY CopyType DEF TypeOK
      <3> QED
        BY <2>1, WriteType, CopyType
    <2>2. CASE Goto("resources") /\ UNCHANGED drp
      BY <2>2 DEF Goto, TypeOK, site, velero
    <2> QED
      BY <1>6, <2>1, <2>2 DEF CheckBackups
  <1>7. ASSUME EnsureSchedule PROVE TypeOK'
    BY <1>7 DEF EnsureSchedule, CreateSchedule, RemoveSchedule, ReturnNow, ReturnRequeue,
                Return, TypeOK, site, velero
  <1>8. ASSUME Panic PROVE TypeOK'
    BY <1>8, ProcessStartsType DEF Panic, TypeOK
  <1>9. ASSUME Restart PROVE TypeOK'
    BY <1>9, ProcessStartsType DEF Restart, Edit, TypeOK
  <1>10. ASSUME Pause \/ WantBackups \/ Delete PROVE TypeOK'
    <2>1. PICK new \in DrupalSite \cup {NoSite} : EditSite(new)
      <3>1. ASSUME cr # NoSite
            PROVE  /\ [cr EXCEPT !.paused = ~@] \in DrupalSite
                   /\ [cr EXCEPT !.wanted = ~@] \in DrupalSite
                   /\ [cr EXCEPT !.deleting = TRUE] \in DrupalSite
        BY <3>1 DEF TypeOK, DrupalSite
      <3> QED
        BY <1>10, <3>1 DEF Pause, WantBackups, Delete
    <2> QED
      BY <2>1, EditSiteType
  <1>11. ASSUME SyncSite \/ SyncSchedule \/ SyncBackups \/ Resync PROVE TypeOK'
    <2>1. CASE SyncSite
      BY <2>1 DEF SyncSite, TypeOK, velero, call
    <2>2. CASE SyncSchedule
      BY <2>2 DEF SyncSchedule, TypeOK, site, call
    <2>3. CASE SyncBackups
      BY <2>3 DEF SyncBackups, TypeOK, site, call
    <2>4. CASE Resync
      BY <2>4 DEF Resync, TypeOK, site, velero, call
    <2> QED
      BY <1>11, <2>1, <2>2, <2>3, <2>4
  <1>12. ASSUME NEW s \in {"gone", "there"}, ChangeSource(s) PROVE TypeOK'
    BY <1>12 DEF ChangeSource, Edit, TypeOK, site, velero, call
  <1>13. ASSUME NEW b \in Backups, BackupCompletesOrExpires(b) PROVE TypeOK'
    BY <1>13 DEF BackupCompletesOrExpires, Edit, TypeOK, site, call
  <1>14. CASE UNCHANGED vars
    BY <1>14 DEF vars, site, velero, call, TypeOK
  <1> QED
    BY <1>1, <1>2, <1>3, <1>4, <1>5, <1>6, <1>7, <1>8, <1>9, <1>10, <1>11, <1>12,
       <1>13, <1>14 DEF Next, Reconcile

LEMMA InitType == Init => TypeOK
  <1> SUFFICES ASSUME Init PROVE TypeOK
    OBVIOUS
  <1>1. cr \in DrupalSite
    BY DEF Init, DrupalSite
  <1>2. 0 \in 0 .. MaxEdits
    OBVIOUS
  <1>3. /\ cache = cr /\ drp = NoSite /\ pc = "idle" /\ edits = 0
        /\ source \in {"gone", "new", "there"}
        /\ schedule \in BOOLEAN /\ seenSchedule \in BOOLEAN
        /\ completed = {} /\ seenBackups = {}
        /\ synced \in BOOLEAN /\ backupsLate \in BOOLEAN /\ queued \in BOOLEAN
        /\ fresh \in BOOLEAN
    BY DEF Init
  <1> QED
    BY <1>1, <1>2, <1>3 DEF TypeOK

\* The variables keep their types, and a running call has a copy of the site.
THEOREM TypeCorrect == Spec => []TypeOK
  BY InitType, TypeStep, PTL DEF Spec

-----------------------------------------------------------------------------
(* The finalizer.                                                          *)

\* The copy is the stored site, but for the size of the disk.
Same(d, c) ==
    /\ d.kind = c.kind /\ d.wanted = c.wanted /\ d.finalizer = c.finalizer
    /\ d.paused = c.paused /\ d.deleting = c.deleting
    /\ d.initialized = c.initialized /\ d.error = c.error /\ d.listed = c.listed

Saved == cr # NoSite /\ cr.finalizer

CacheFollows == synced => cache = cr

CopyFollows == fresh => synced /\ pc # "idle" /\ cr # NoSite /\ Same(drp, cr)

\* A call on an old copy is not the last one.
WakesUp == pc # "idle" /\ ~fresh => ~synced \/ queued

CleansUp == pc \in {"cleanup", "finalize"} => drp.deleting

\* A site that the cache or a call takes for one that is up, with its finalizer,
\* is there and has it.
Guarded ==
    /\ cache # NoSite /\ cache.finalizer /\ ~cache.deleting => Saved
    /\ pc \in {"spec", "conditions", "backups", "resources"} /\ drp.finalizer => Saved
    /\ pc \in {"conditions", "backups", "resources"} => drp.finalizer

LifeInv == /\ TypeOK /\ CacheFollows /\ CopyFollows /\ WakesUp /\ CleansUp /\ Guarded
           /\ FinalizerFirst

USE DEF Saved

\* What a call writes keeps the finalizer; only the last step of a deletion
\* takes the site away.
LEMMA WriteLife ==
  ASSUME LifeInv, pc # "idle",
         NEW new \in DrupalSite \cup {NoSite}, WriteAndReturn(new),
         new = NoSite => pc = "finalize",
         new # NoSite => (drp.finalizer => new.finalizer)
  PROVE  LifeInv'
  <1>1. TypeOK'
    BY WriteType DEF LifeInv
  <1>2. CASE fresh
    <2>1. /\ cr' = new /\ synced' = (synced /\ new = cr)
          /\ cache' = cache /\ schedule' = schedule /\ pc' = "idle" /\ fresh' = FALSE
      BY <1>2 DEF WriteAndReturn, Return, velero
    <2>2. cache = cr /\ synced /\ cr # NoSite /\ drp.finalizer = cr.finalizer
          /\ drp.deleting = cr.deleting
      BY <1>2 DEF LifeInv, CopyFollows, CacheFollows, Same
    <2>3. new = NoSite => cr.deleting
      BY <2>2 DEF LifeInv, CleansUp
    <2> QED
      BY <1>1, <2>1, <2>2, <2>3
      DEF LifeInv, CacheFollows, CopyFollows, WakesUp, CleansUp, Guarded, FinalizerFirst
  <1>3. CASE ~fresh
    BY <1>1, <1>3
    DEF WriteAndReturn, ReturnRequeue, Return, site, velero,
        LifeInv, CacheFollows, CopyFollows, WakesUp, CleansUp, Guarded, FinalizerFirst
  <1> QED
    BY <1>2, <1>3

\* A step to another step of the same call, whose copy gets a size at most.
LEMMA GotoLife ==
  ASSUME LifeInv, TypeOK', pc # "idle", NEW step, Goto(step), step # "idle",
         Same(drp', drp), schedule' = schedule,
         step \in {"cleanup", "finalize"} => drp.deleting,
         step \in {"spec", "conditions", "backups", "resources"} =>
            /\ pc \in {"spec", "conditions", "backups", "resources"}
            /\ drp.finalizer
  PROVE  LifeInv'
  BY DEF Goto, Same, site, velero,
         LifeInv, CacheFollows, CopyFollows, WakesUp, CleansUp, Guarded, FinalizerFirst

\* A change from outside never takes the finalizer away, and a site without one
\* may go at any time.
LEMMA EditLife ==
  ASSUME LifeInv, TypeOK', NEW new \in DrupalSite \cup {NoSite}, EditSite(new),
         cr # NoSite,
         IF cr.finalizer THEN new # NoSite /\ new.finalizer
                         ELSE new = NoSite \/ ~new.finalizer
  PROVE  LifeInv'
  BY DEF EditSite, velero,
         LifeInv, CacheFollows, CopyFollows, WakesUp, CleansUp, Guarded, FinalizerFirst

LEMMA RestartLife ==
  ASSUME LifeInv, TypeOK', ProcessStarts
  PROVE  LifeInv'
  BY DEF ProcessStarts, Return,
         LifeInv, CacheFollows, CopyFollows, WakesUp, CleansUp, Guarded, FinalizerFirst

LEMMA CopyKeepsFinalizer ==
  ASSUME TypeOK, pc # "idle"
  PROVE  /\ drp \in DrupalSite /\ drp # NoSite
         /\ WithFinalizer(drp) \in DrupalSite /\ WithFinalizer(drp).finalizer
         /\ WithFinalizer(drp) # drp => ~drp.finalizer
         /\ [drp EXCEPT !.error = TRUE] \in DrupalSite
         /\ [drp EXCEPT !.error = TRUE].finalizer = drp.finalizer
         /\ \A b \in BOOLEAN : Same([drp EXCEPT !.disk = b], drp)
  <1>1. drp \in DrupalSite
    BY DEF TypeOK
  <1>2. WithFinalizer(drp) \in DrupalSite /\ [drp EXCEPT !.error = TRUE] \in DrupalSite
    BY <1>1, CopyType
  <1>3. WithFinalizer(drp).finalizer
    BY <1>1 DEF WithFinalizer, DrupalSite
  <1>4. WithFinalizer(drp) # drp => ~drp.finalizer
    BY DEF WithFinalizer
  <1>5. [drp EXCEPT !.error = TRUE].finalizer = drp.finalizer
    BY <1>1 DEF DrupalSite
  <1>6. \A b \in BOOLEAN : Same([drp EXCEPT !.disk = b], drp)
    BY <1>1 DEF DrupalSite, Same
  <1> QED
    BY <1>1, <1>2, <1>3, <1>4, <1>5, <1>6

LEMMA LifeStep == LifeInv /\ [Next]_vars => LifeInv'
  <1> SUFFICES ASSUME LifeInv, [Next]_vars
               PROVE  LifeInv'
    OBVIOUS
  <1> TypeOK
    BY DEF LifeInv
  <1>t. TypeOK'
    BY TypeStep
  <1>1. ASSUME Fetch PROVE LifeInv'
    <2>1. /\ pc' = FirstStep(cache) /\ fresh' = (pc' # "idle" /\ synced)
          /\ drp' = IF pc' = "idle" THEN NoSite ELSE cache
          /\ cr' = cr /\ cache' = cache /\ synced' = synced /\ schedule' = schedule
      BY <1>1 DEF Fetch, site, velero
    <2>2. /\ pc' \in {"idle", "cleanup", "spec"}
          /\ pc' # "idle" => cache # NoSite
          /\ pc' = "cleanup" => cache.deleting
          /\ pc' = "spec" => ~cache.deleting
      BY <2>1 DEF FirstStep
    <2> QED
      BY <1>t, <2>1, <2>2
      DEF LifeInv, CacheFollows, CopyFollows, WakesUp, CleansUp, Guarded, FinalizerFirst, Same
  <1>2. ASSUME CleanUp PROVE LifeInv'
    <2>1. CASE ~seenSchedule /\ Goto("finalize") /\ UNCHANGED drp
      <3> schedule' = schedule /\ Same(drp', drp) /\ pc = "cleanup" /\ drp.deleting
        BY <1>2, <2>1 DEF Goto, velero, Same, CleanUp, LifeInv, CleansUp
      <3> QED
        BY <1>t, <2>1, GotoLife
    <2>2. CASE /\ seenSchedule /\ schedule /\ RemoveSchedule /\ pc' = "finalize"
               /\ UNCHANGED <<site, source, queued, drp, fresh, edits>>
      BY <1>2, <1>t, <2>2
      DEF CleanUp, RemoveSchedule, site,
          LifeInv, CacheFollows, CopyFollows, WakesUp, CleansUp, Guarded, FinalizerFirst, Same
    <2>3. CASE ReturnRequeue
      BY <1>t, <2>3
      DEF ReturnRequeue, Return, site, velero,
          LifeInv, CacheFollows, CopyFollows, WakesUp, CleansUp, Guarded, FinalizerFirst
    <2> QED
      BY <1>2, <2>1, <2>2, <2>3 DEF CleanUp
  <1>3. ASSUME RemoveFinalizer PROVE LifeInv'
    BY <1>3, WriteLife DEF RemoveFinalizer
  <1>4. ASSUME EnsureSpec PROVE LifeInv'
    <2> pc = "spec" /\ pc # "idle"
      BY <1>4 DEF EnsureSpec
    <2>1. CASE WriteAndReturn([drp EXCEPT !.error = TRUE])
      BY <2>1, WriteLife, CopyKeepsFinalizer
    <2>2. CASE WriteAndReturn(WithFinalizer(drp))
      BY <2>2, WriteLife, CopyKeepsFinalizer
    <2>3. CASE /\ WithFinalizer(drp) = drp /\ Goto("conditions")
               /\ \E b \in BOOLEAN : drp' = [drp EXCEPT !.disk = b]
      <3>1. drp.finalizer /\ Same(drp', drp)
        BY <2>3, CopyKeepsFinalizer
      <3>2. schedule' = schedule
        BY <2>3 DEF Goto, velero
      <3> QED
        BY <1>t, <2>3, <3>1, <3>2, GotoLife
    <2> QED
      BY <1>4, <2>1, <2>2, <2>3, Zenon DEF EnsureSpec
  <1>5. ASSUME CheckConditions PROVE LifeInv'
    <2> pc = "conditions" /\ pc # "idle" /\ drp.finalizer
      BY <1>5 DEF CheckConditions, LifeInv, Guarded
    <2>1. CASE WriteAndReturn(Stored([drp EXCEPT !.initialized = TRUE]))
      <3>1. [drp EXCEPT !.initialized = TRUE] \in DrupalSite
            /\ [drp EXCEPT !.initialized = TRUE].finalizer
        BY CopyKeepsFinalizer DEF DrupalSite
      <3>2. \A d \in DrupalSite : Stored(d).finalizer = d.finalizer
        BY DEF Stored, DrupalSite
      <3> QED
        BY <2>1, <3>1, <3>2, WriteLife, CopyType
    <2>2. CASE Goto("backups") /\ UNCHANGED drp
      <3> schedule' = schedule /\ Same(drp', drp)
        BY <2>2 DEF Goto, velero, Same
      <3> QED
        BY <1>t, <2>2, GotoLife
    <2> QED
      BY <1>5, <2>1, <2>2 DEF CheckConditions
  <1>6. ASSUME CheckBackups PROVE LifeInv'
    <2> pc = "backups" /\ pc # "idle" /\ drp.finalizer
      BY <1>6 DEF CheckBackups, LifeInv, Guarded
    <2>1. CASE WriteAndReturn(Stored([drp EXCEPT !.listed = seenBackups]))
      <3>1. [drp EXCEPT !.listed = seenBackups] \in DrupalSite
            /\ [drp EXCEPT !.listed = seenBackups].finalizer
        BY CopyKeepsFinalizer DEF DrupalSite, TypeOK
      <3>2. \A d \in DrupalSite : Stored(d).finalizer = d.finalizer
        BY DEF Stored, DrupalSite
      <3> QED
        BY <2>1, <3>1, <3>2, WriteLife, CopyType
    <2>2. CASE Goto("resources") /\ UNCHANGED drp
      <3> schedule' = schedule /\ Same(drp', drp)
        BY <2>2 DEF Goto, velero, Same
      <3> QED
        BY <1>t, <2>2, GotoLife
    <2> QED
      BY <1>6, <2>1, <2>2 DEF CheckBackups
  <1>7. ASSUME EnsureSchedule PROVE LifeInv'
    <2>1. Saved
      BY <1>7 DEF EnsureSchedule, LifeInv, Guarded
    <2>2. Return /\ cr' = cr /\ cache' = cache /\ synced' = synced
      BY <1>7 DEF EnsureSchedule, ReturnNow, ReturnRequeue, site
    <2> QED
      BY <1>t, <2>1, <2>2
      DEF Return, LifeInv, CacheFollows, CopyFollows, WakesUp, CleansUp, Guarded, FinalizerFirst
  <1>8. ASSUME Panic \/ Restart PROVE LifeInv'
    BY <1>8, <1>t, RestartLife DEF Panic, Restart
  <1>9. ASSUME Pause \/ WantBackups \/ Delete PROVE LifeInv'
    <2>1. cr # NoSite /\ cr \in DrupalSite
      BY <1>9 DEF Pause, WantBackups, Delete, TypeOK
    <2>2. /\ [cr EXCEPT !.paused = ~@] \in DrupalSite
          /\ [cr EXCEPT !.paused = ~@].finalizer = cr.finalizer
      BY <2>1 DEF DrupalSite
    <2>3. /\ [cr EXCEPT !.wanted = ~@] \in DrupalSite
          /\ [cr EXCEPT !.wanted = ~@].finalizer = cr.finalizer
      BY <2>1 DEF DrupalSite
    <2>4. /\ [cr EXCEPT !.deleting = TRUE] \in DrupalSite
          /\ [cr EXCEPT !.deleting = TRUE].finalizer = cr.finalizer
      BY <2>1 DEF DrupalSite
    <2>5. NoSite \notin DrupalSite
      BY LifecycleAssumption
    <2>6. CASE Pause
      BY <1>t, <2>1, <2>2, <2>5, <2>6, EditLife DEF Pause
    <2>7. CASE WantBackups
      BY <1>t, <2>1, <2>3, <2>5, <2>7, EditLife DEF WantBackups
    <2>8. CASE Delete
      BY <1>t, <2>1, <2>4, <2>5, <2>8, EditLife DEF Delete
    <2> QED
      BY <1>9, <2>6, <2>7, <2>8
  <1>10. ASSUME SyncSite PROVE LifeInv'
    BY <1>10, <1>t
    DEF SyncSite, velero, call,
        LifeInv, CacheFollows, CopyFollows, WakesUp, CleansUp, Guarded, FinalizerFirst, Same
  <1>11. ASSUME \/ SyncSchedule \/ SyncBackups \/ Resync
                \/ \E s \in {"gone", "there"} : ChangeSource(s)
                \/ \E b \in Backups : BackupCompletesOrExpires(b)
         PROVE LifeInv'
    <2>1. UNCHANGED <<cr, cache, synced, schedule, pc, drp, fresh>> /\ (queued => queued')
      BY <1>11 DEF SyncSchedule, SyncBackups, Resync, ChangeSource,
                   BackupCompletesOrExpires, site, velero, call
    <2> QED
      BY <1>t, <2>1
      DEF LifeInv, CacheFollows, CopyFollows, WakesUp, CleansUp, Guarded, FinalizerFirst, Same
  <1>12. CASE UNCHANGED vars
    BY <1>t, <1>12
    DEF vars, site, velero, call,
        LifeInv, CacheFollows, CopyFollows, WakesUp, CleansUp, Guarded, FinalizerFirst, Same
  <1> QED
    BY <1>1, <1>2, <1>3, <1>4, <1>5, <1>6, <1>7, <1>8, <1>9, <1>10, <1>11, <1>12
    DEF Next, Reconcile

LEMMA InitLife == Init => LifeInv
  <1> SUFFICES ASSUME Init PROVE LifeInv
    OBVIOUS
  <1>1. TypeOK
    BY InitType
  <1>2. /\ cache = cr /\ pc = "idle" /\ schedule = FALSE /\ fresh = FALSE
        /\ cr.finalizer = FALSE
    BY DEF Init
  <1> QED
    BY <1>1, <1>2
    DEF LifeInv, CacheFollows, CopyFollows, WakesUp, CleansUp, Guarded, FinalizerFirst

LEMMA LifeHolds == Spec => []LifeInv
  BY InitLife, LifeStep, PTL DEF Spec

\* A site that has a schedule has the finalizer that its deletion waits for.
THEOREM FinalizerIsFirst == Spec => []FinalizerFirst
  BY LifeHolds, PTL DEF LifeInv

\* No schedule is made for a site that is gone, however old the copy is that the
\* call works on.
THEOREM NoOrphans == Spec => OrphansAreNotMade
  <1>1. LifeInv /\ [Next]_vars => [cr = NoSite /\ schedule' => schedule]_vars
    <2> SUFFICES ASSUME LifeInv, Next, cr = NoSite, schedule'
                 PROVE  schedule
      BY Zenon
    <2>1. CASE EnsureSchedule
      BY <2>1 DEF EnsureSchedule, LifeInv, Guarded
    <2>2. CASE ~EnsureSchedule
      BY <2>2
      DEF Next, Reconcile, Fetch, CleanUp, RemoveFinalizer, EnsureSpec, CheckConditions,
          CheckBackups, Panic, Restart, ProcessStarts, WriteAndReturn, ReturnRequeue, Goto,
          RemoveSchedule, SyncSite, SyncSchedule, SyncBackups, Resync, Pause, WantBackups,
          Delete, EditSite, ChangeSource, BackupCompletesOrExpires, velero
    <2> QED
      BY <2>1, <2>2
  <1> QED
    BY <1>1, LifeHolds, PTL DEF Spec, OrphansAreNotMade
-----------------------------------------------------------------------------
(* The list of backups.                                                    *)

\* The list is not the one to come, and no error stands in its way.
Behind ==
    /\ cr # NoSite /\ ~cr.deleting /\ ~cr.paused /\ ~cr.error
    /\ cr.kind # "unreleased"
    /\ Cardinality(cr.listed) # Cardinality(completed)

BackupsSeen == ~backupsLate => seenBackups = completed

\* Somebody is about to look at the list again.
StillListing ==
    Behind /\ ~backupsLate /\ ~queued /\ synced
    => fresh /\ pc \in {"spec", "conditions", "backups"}

ListInv == LifeInv /\ BackupsSeen /\ StillListing

\* A write that is an event, or that leaves a site that is not behind.
LEMMA WriteList ==
  ASSUME ListInv, NEW new, WriteAndReturn(new),
         fresh /\ ~backupsLate =>
            \/ new # cr
            \/ ~(/\ new # NoSite /\ ~new.deleting /\ ~new.paused /\ ~new.error
                 /\ new.kind # "unreleased"
                 /\ Cardinality(new.listed) # Cardinality(completed))
  PROVE  BackupsSeen' /\ StillListing'
  <1>1. CASE fresh
    BY <1>1 DEF WriteAndReturn, Return, velero, ListInv, BackupsSeen, StillListing, Behind
  <1>2. CASE ~fresh
    BY <1>2 DEF WriteAndReturn, ReturnRequeue, Return, velero, site,
                ListInv, BackupsSeen, StillListing, Behind
  <1> QED
    BY <1>1, <1>2

\* A step within a call on the way to the list.
LEMMA GotoList ==
  ASSUME ListInv, NEW step, Goto(step),
         \/ step \in {"conditions", "backups"}
         \/ pc \notin {"spec", "conditions", "backups"}
         \/ fresh /\ ~backupsLate => ~Behind
  PROVE  BackupsSeen' /\ StillListing'
  BY DEF Goto, velero, site, ListInv, BackupsSeen, StillListing, Behind

LEMMA ListStep == ListInv /\ [Next]_vars => ListInv'
  <1> SUFFICES ASSUME ListInv, [Next]_vars
               PROVE  BackupsSeen' /\ StillListing'
    BY LifeStep DEF ListInv
  <1>l. LifeInv /\ TypeOK
    BY DEF ListInv, LifeInv
  <1>f. fresh => /\ cache = cr /\ synced /\ pc # "idle" /\ cr # NoSite
                 /\ Same(drp, cr)
    BY <1>l DEF LifeInv, CopyFollows, CacheFollows
  <1>1. ASSUME Fetch PROVE BackupsSeen' /\ StillListing'
    <2>1. synced => cache = cr
      BY <1>l DEF LifeInv, CacheFollows
    <2> QED
      BY <1>1, <2>1
      DEF Fetch, FirstStep, site, velero, ListInv, BackupsSeen, StillListing, Behind
  <1>2. ASSUME CleanUp PROVE BackupsSeen' /\ StillListing'
    BY <1>2 DEF CleanUp, Goto, RemoveSchedule, ReturnRequeue, Return, site, velero,
                ListInv, BackupsSeen, StillListing, Behind
  <1>3. ASSUME RemoveFinalizer PROVE BackupsSeen' /\ StillListing'
    BY <1>3, WriteList DEF RemoveFinalizer
  <1>4. ASSUME EnsureSpec PROVE BackupsSeen' /\ StillListing'
    <2>c. /\ pc = "spec" /\ drp \in DrupalSite
          /\ WithFinalizer(drp) # drp => ~drp.finalizer
          /\ WithFinalizer(drp).finalizer
      BY <1>4, <1>l, CopyKeepsFinalizer DEF EnsureSpec
    <2>1. CASE WriteAndReturn([drp EXCEPT !.error = TRUE])
      <3>1. [drp EXCEPT !.error = TRUE].error
        BY <2>c DEF DrupalSite
      <3> QED
        BY <2>1, <3>1, WriteList
    <2>2. CASE /\ WriteAndReturn(WithFinalizer(drp))
               /\ WithFinalizer(drp) # drp \/ drp.kind = "unreleased"
      <3>1. CASE WithFinalizer(drp) # drp
        <4>1. fresh => WithFinalizer(drp) # cr
          BY <1>f, <2>c, <3>1 DEF Same
        <4> QED
          BY <2>2, <4>1, WriteList
      <3>2. CASE WithFinalizer(drp) = drp /\ drp.kind = "unreleased"
        BY <2>2, <3>2, WriteList
      <3> QED
        BY <2>2, <3>1, <3>2
    <2>3. CASE Goto("conditions")
      BY <2>3, GotoList
    <2> QED
      BY <1>4, <2>1, <2>2, <2>3, Zenon DEF EnsureSpec
  <1>5. ASSUME CheckConditions PROVE BackupsSeen' /\ StillListing'
    <2>1. CASE /\ ~drp.initialized
               /\ WriteAndReturn(Stored([drp EXCEPT !.initialized = TRUE]))
      <3>1. drp \in DrupalSite
        BY <1>l, <1>5, CopyKeepsFinalizer DEF CheckConditions
      <3>2. Stored([drp EXCEPT !.initialized = TRUE]).initialized
        BY <3>1 DEF Stored, DrupalSite
      <3>3. fresh => ~cr.initialized
        BY <1>f, <2>1 DEF Same
      <3> QED
        BY <2>1, <3>2, <3>3, WriteList
    <2>2. CASE Goto("backups")
      BY <2>2, GotoList
    <2> QED
      BY <1>5, <2>1, <2>2 DEF CheckConditions
  <1>6. ASSUME CheckBackups PROVE BackupsSeen' /\ StillListing'
    <2>1. CASE WriteAndReturn(Stored([drp EXCEPT !.listed = seenBackups]))
      <3>1. drp \in DrupalSite
        BY <1>l, <1>6, CopyKeepsFinalizer DEF CheckBackups
      <3>2. Stored([drp EXCEPT !.listed = seenBackups]).listed = seenBackups
        BY <3>1 DEF Stored, DrupalSite
      <3>3. ~backupsLate => seenBackups = completed
        BY DEF ListInv, BackupsSeen
      <3> QED
        BY <2>1, <3>2, <3>3, WriteList
    <2>2. CASE ~NewList(drp) /\ Goto("resources")
      <3>1. fresh /\ ~backupsLate => Cardinality(cr.listed) = Cardinality(completed)
        BY <1>f, <2>2 DEF NewList, Same, ListInv, BackupsSeen
      <3> QED
        BY <2>2, <3>1, GotoList DEF Behind
    <2> QED
      BY <1>6, <2>1, <2>2, Zenon DEF CheckBackups
  <1>7. ASSUME EnsureSchedule PROVE BackupsSeen' /\ StillListing'
    BY <1>7 DEF EnsureSchedule, CreateSchedule, RemoveSchedule, ReturnNow, ReturnRequeue,
                Return, site, velero, ListInv, BackupsSeen, StillListing, Behind
  <1>8. ASSUME Panic \/ Restart PROVE BackupsSeen' /\ StillListing'
    BY <1>8 DEF Panic, Restart, ProcessStarts, BackupsSeen, StillListing, Behind
  <1>9. ASSUME Pause \/ WantBackups \/ Delete PROVE BackupsSeen' /\ StillListing'
    <2>1. synced' = FALSE /\ UNCHANGED velero
      BY <1>9 DEF Pause, WantBackups, Delete, EditSite
    <2> QED
      BY <2>1 DEF velero, ListInv, BackupsSeen, StillListing
  <1>10. ASSUME SyncSite \/ SyncBackups \/ Resync PROVE BackupsSeen' /\ StillListing'
    BY <1>10 DEF SyncSite, SyncBackups, Resync, velero, ListInv, BackupsSeen, StillListing
  <1>11. ASSUME SyncSchedule \/ \E s \in {"gone", "there"} : ChangeSource(s)
         PROVE  BackupsSeen' /\ StillListing'
    BY <1>11 DEF SyncSchedule, ChangeSource, site, velero, call,
                 ListInv, BackupsSeen, StillListing, Behind
  <1>12. ASSUME \E b \in Backups : BackupCompletesOrExpires(b)
         PROVE  BackupsSeen' /\ StillListing'
    BY <1>12 DEF BackupCompletesOrExpires, BackupsSeen, StillListing
  <1>13. CASE UNCHANGED vars
    BY <1>13 DEF vars, site, velero, call, ListInv, BackupsSeen, StillListing, Behind
  <1> QED
    BY <1>1, <1>2, <1>3, <1>4, <1>5, <1>6, <1>7, <1>8, <1>9, <1>10, <1>11, <1>12, <1>13
    DEF Next, Reconcile

\* When the operator rests and has refused nothing, the status lists as many
\* backups as there are, for every number of backups and of changes from outside.
THEOREM ListFollows == Spec => []RestMeansListed
  <1>1. Init => BackupsSeen /\ StillListing
    BY DEF Init, BackupsSeen, StillListing
  <1>2. ListInv => RestMeansListed
    BY DEF ListInv, StillListing, Behind, RestMeansListed
  <1> QED
    BY <1>1, <1>2, InitLife, ListStep, PTL DEF Spec, ListInv

-----------------------------------------------------------------------------
(* What is written to a site that goes.                                    *)

\* A call that goes on with the site took it for one that stays.
GoesOnUp == pc \in {"spec", "conditions", "backups", "resources"} => ~drp.deleting

LEMMA GoesOnUpKept ==
  ASSUME TypeOK, GoesOnUp, [Next]_vars
  PROVE  GoesOnUp'
  <1> USE DEF GoesOnUp
  <1>1. ASSUME pc' = "idle"
        PROVE  GoesOnUp'
    BY <1>1
  <1>2. CASE Fetch
    BY <1>2 DEF Fetch, FirstStep
  <1>3. ASSUME NEW new, WriteAndReturn(new)
        PROVE  GoesOnUp'
    BY <1>3 DEF WriteAndReturn, ReturnRequeue, Return
  <1>4. CASE CleanUp
    BY <1>4 DEF CleanUp, Goto, ReturnRequeue, Return
  <1>5. CASE RemoveFinalizer
    BY <1>3, <1>5 DEF RemoveFinalizer
  <1>6. CASE EnsureSpec
    <2>1. CASE /\ Goto("conditions")
               /\ drp' = [drp EXCEPT !.disk = @ \/ drp.kind # "clone" \/ source = "there"]
      BY <1>6, <2>1 DEF EnsureSpec, TypeOK, DrupalSite
    <2> QED
      BY <1>3, <1>6, <2>1 DEF EnsureSpec
  <1>7. CASE CheckConditions
    BY <1>3, <1>7 DEF CheckConditions, Goto
  <1>8. CASE CheckBackups
    BY <1>3, <1>8 DEF CheckBackups, Goto
  <1>9. CASE EnsureSchedule \/ Panic \/ Restart
    BY <1>9 DEF EnsureSchedule, Panic, Restart, ProcessStarts, ReturnNow,
         ReturnRequeue, Return
  <1>10. CASE UNCHANGED <<pc, drp>>
    BY <1>10
  <1> QED
    BY <1>2, <1>4, <1>5, <1>6, <1>7, <1>8, <1>9, <1>10
       DEF Next, Reconcile, SyncSite, SyncSchedule, SyncBackups, Resync, Pause,
           WantBackups, Delete, EditSite, ChangeSource, BackupCompletesOrExpires,
           call, vars

\* The deletion of a site cannot be taken back: what the operator writes to it
\* from then on, however old the copy of the running call is, is the removal of
\* its finalizer, and a site that is gone is not written again.
THEOREM DeletionIsFinal ==
    Spec => [][/\ cr = NoSite => cr' = NoSite
               /\ cr # NoSite /\ cr.deleting =>
                    cr' \in {cr, NoSite} \/ Pause \/ WantBackups]_vars
  <1> DEFINE Final == /\ cr = NoSite => cr' = NoSite
                      /\ cr # NoSite /\ cr.deleting =>
                           cr' \in {cr, NoSite} \/ Pause \/ WantBackups
  <1>1. LifeInv /\ GoesOnUp /\ [Next]_vars => [Final]_vars
    <2> SUFFICES ASSUME LifeInv, GoesOnUp, Next
                 PROVE  Final
      OBVIOUS
    <2>1. CASE cr' = cr
      BY <2>1
    <2>2. ASSUME NEW new, WriteAndReturn(new), pc # "idle", cr' # cr
          PROVE  /\ cr # NoSite /\ cr' = new
                 /\ pc \in {"spec", "conditions", "backups", "resources"} => ~cr.deleting
      BY <2>2 DEF WriteAndReturn, ReturnRequeue, site, LifeInv, CopyFollows, Same, GoesOnUp
    <2>3. CASE RemoveFinalizer
      BY <2>1, <2>2, <2>3 DEF RemoveFinalizer
    <2>4. CASE EnsureSpec
      BY <2>1, <2>2, <2>4 DEF EnsureSpec, Goto, site
    <2>5. CASE CheckConditions
      BY <2>1, <2>2, <2>5 DEF CheckConditions, Goto, site
    <2>6. CASE CheckBackups
      BY <2>1, <2>2, <2>6 DEF CheckBackups, Goto, site
    <2>7. CASE Pause \/ WantBackups \/ Delete
      BY <2>7 DEF Pause, WantBackups, Delete
    <2> QED
      BY <2>1, <2>3, <2>4, <2>5, <2>6, <2>7
         DEF Next, Reconcile, Fetch, CleanUp, EnsureSchedule, Panic, Restart,
             ProcessStarts, Goto, ReturnNow, ReturnRequeue, SyncSite, SyncSchedule,
             SyncBackups, Resync, ChangeSource, BackupCompletesOrExpires, site
  <1>2. Init => GoesOnUp
    BY DEF Init, GoesOnUp
  <1>3. TypeOK /\ GoesOnUp /\ [Next]_vars => GoesOnUp'
    BY GoesOnUpKept
  <1> QED
    BY <1>1, <1>2, <1>3, LifeHolds, TypeCorrect, PTL DEF Spec

-----------------------------------------------------------------------------
(* What the operator leaves alone: a schedule that is as it is wanted.     *)

Interference == WantBackups \/ Delete

\* The site stays, and has the schedule that it asks for.
Decided(c) == c # NoSite /\ ~c.deleting /\ c.initialized /\ c.wanted = schedule

\* A fixed point: the site, the caches and the running call agree.
InForce ==
    /\ seenSchedule = schedule
    /\ Decided(cr) /\ Decided(cache)
    /\ pc # "idle" => Decided(drp) /\ pc \notin {"cleanup", "finalize"}

\* The copies of a site that are written say the same of it.
LEMMA DecidedCopies ==
  ASSUME TypeOK, NEW d \in DrupalSite, Decided(d)
  PROVE  /\ Decided(WithFinalizer(d))
         /\ Decided([d EXCEPT !.error = TRUE])
         /\ Decided(Stored([d EXCEPT !.listed = seenBackups]))
  <1>1. ASSUME NEW e \in DrupalSite, e.deleting = d.deleting,
               e.initialized = d.initialized, e.wanted = d.wanted
        PROVE  Decided(e)
    BY <1>1, LifecycleAssumption DEF Decided
  <1>2. Decided([d EXCEPT !.error = TRUE])
    <2>1. [d EXCEPT !.error = TRUE] \in DrupalSite
      BY DEF DrupalSite
    <2> QED
      BY <1>1, <2>1 DEF DrupalSite
  <1>3. Decided(WithFinalizer(d))
    <2>1. WithFinalizer(d) \in DrupalSite
      BY CopyType
    <2>2. /\ WithFinalizer(d).deleting = d.deleting
          /\ WithFinalizer(d).initialized = d.initialized
          /\ WithFinalizer(d).wanted = d.wanted
      BY DEF WithFinalizer, DrupalSite
    <2> QED
      BY <1>1, <2>1, <2>2
  <1>4. Decided(Stored([d EXCEPT !.listed = seenBackups]))
    <2> DEFINE new == Stored([d EXCEPT !.listed = seenBackups])
    <2>1. new \in DrupalSite
      BY DEF Stored, TypeOK, DrupalSite
    <2>2. new.deleting = d.deleting /\ new.initialized = d.initialized
            /\ new.wanted = d.wanted
      BY DEF Stored, DrupalSite
    <2> QED
      BY <1>1, <2>1, <2>2
  <1> QED
    BY <1>2, <1>3, <1>4

LEMMA InForceKept ==
  ASSUME LifeInv, InForce, [Next]_vars, ~Interference
  PROVE  InForce' /\ UNCHANGED schedule
  <1> USE DEF LifeInv
  <1>d. pc # "idle" => drp \in DrupalSite
    BY DEF TypeOK
  \* A call ends, and may have written the site.
  <1>1. ASSUME NEW new \in DrupalSite, WriteAndReturn(new), Decided(new)
        PROVE  InForce' /\ UNCHANGED schedule
    <2>1. CASE fresh
      BY <1>1, <2>1 DEF WriteAndReturn, Return, velero, InForce, Decided
    <2>2. CASE ~fresh
      BY <1>1, <2>2 DEF WriteAndReturn, ReturnRequeue, Return, site, velero, InForce, Decided
    <2> QED
      BY <2>1, <2>2
  \* It goes on.
  <1>2. ASSUME NEW step, Goto(step), step \notin {"cleanup", "finalize"},
               Decided(drp')
        PROVE  InForce' /\ UNCHANGED schedule
    BY <1>2 DEF Goto, site, velero, InForce, Decided
  <1>3. CASE Fetch
    BY <1>3 DEF Fetch, FirstStep, site, velero, InForce, Decided
  <1>4. CASE CleanUp \/ RemoveFinalizer
    BY <1>4 DEF CleanUp, RemoveFinalizer, InForce
  <1>5. CASE EnsureSpec
    <2>0. pc = "spec" /\ drp \in DrupalSite /\ Decided(drp)
      BY <1>5, <1>d DEF EnsureSpec, InForce
    <2>1. WithFinalizer(drp) \in DrupalSite /\ [drp EXCEPT !.error = TRUE] \in DrupalSite
      BY <2>0, CopyKeepsFinalizer
    <2>2. CASE /\ Goto("conditions")
               /\ drp' = [drp EXCEPT !.disk = @ \/ drp.kind # "clone" \/ source = "there"]
      <3>1. drp' \in DrupalSite /\ drp'.deleting = drp.deleting
              /\ drp'.initialized = drp.initialized /\ drp'.wanted = drp.wanted
        BY <2>0, <2>2 DEF DrupalSite
      <3>2. schedule' = schedule
        BY <2>2 DEF Goto, velero
      <3>3. Decided(drp')
        BY <2>0, <3>1, <3>2, LifecycleAssumption DEF Decided
      <3> QED
        BY <1>2, <2>2, <3>3
    <2> QED
      BY <1>1, <1>5, <2>0, <2>1, <2>2, DecidedCopies DEF EnsureSpec
  <1>6. CASE CheckConditions
    BY <1>2, <1>6 DEF CheckConditions, InForce, Decided
  <1>7. CASE CheckBackups
    <2>0. pc = "backups" /\ drp \in DrupalSite /\ Decided(drp)
      BY <1>7, <1>d DEF CheckBackups, InForce
    <2>1. Stored([drp EXCEPT !.listed = seenBackups]) \in DrupalSite
      BY <2>0 DEF Stored, TypeOK, DrupalSite
    <2> QED
      BY <1>1, <1>2, <1>7, <2>0, <2>1, DecidedCopies DEF CheckBackups
  <1>8. CASE EnsureSchedule
    <2>1. Wanted(drp) = seenSchedule
      <3>1. /\ drp.initialized = TRUE /\ drp.wanted \in BOOLEAN
            /\ drp.wanted = seenSchedule
        BY <1>d, <1>8 DEF EnsureSchedule, InForce, Decided, DrupalSite
      <3> QED
        BY <3>1 DEF Wanted
    <2> QED
      BY <1>8, <2>1 DEF EnsureSchedule, ReturnNow, Return, site, velero, InForce, Decided
  <1>9. CASE Panic \/ Restart
    BY <1>9 DEF Panic, Restart, ProcessStarts, Return, InForce, Decided
  <1>10. CASE Pause
    <2>1. /\ cr' = [cr EXCEPT !.paused = ~cr.paused] /\ cr \in DrupalSite
          /\ UNCHANGED <<cache, velero, pc, drp>>
      BY <1>10 DEF Pause, EditSite, TypeOK
    <2>2. cr' \in DrupalSite /\ cr'.deleting = cr.deleting
            /\ cr'.initialized = cr.initialized /\ cr'.wanted = cr.wanted
      BY <2>1 DEF DrupalSite
    <2> QED
      BY <2>1, <2>2, LifecycleAssumption DEF velero, InForce, Decided
  <1>11. CASE SyncSite \/ SyncBackups \/ Resync \/ (\E s \in {"gone", "there"} : ChangeSource(s))
           \/ (\E b \in Backups : BackupCompletesOrExpires(b)) \/ UNCHANGED vars
    BY <1>11 DEF SyncSite, SyncBackups, Resync, ChangeSource,
         BackupCompletesOrExpires, vars, site, velero, call, InForce, Decided
  <1>12. CASE SyncSchedule
    BY <1>12 DEF SyncSchedule, InForce
  <1> QED
    BY <1>3, <1>4, <1>5, <1>6, <1>7, <1>8, <1>9, <1>10, <1>11, <1>12
       DEF Next, Reconcile, Interference

\* A site that stays and has the schedule it asks for keeps it: pauses,
\* restarts, backups that come and go, refused writes and any number of
\* reconciliations never take it away or make it anew, until the wish changes
\* or the site is deleted (the safety half of ScheduleFollows).
THEOREM ScheduleStays ==
    Spec => [](pc = "idle" /\ synced /\ seenSchedule = schedule /\ Decided(cr)
                 => ([][~Interference]_vars => [][UNCHANGED schedule]_vars))
  <1>1. LifeInv /\ pc = "idle" /\ synced /\ seenSchedule = schedule /\ Decided(cr)
          => InForce
    BY DEF LifeInv, CacheFollows, InForce
  <1>2. LifeInv /\ InForce /\ [Next]_vars /\ [~Interference]_vars
          => InForce' /\ [UNCHANGED schedule]_vars
    <2> SUFFICES ASSUME LifeInv, InForce, [Next]_vars, [~Interference]_vars
                 PROVE  InForce' /\ UNCHANGED schedule
      OBVIOUS
    <2>1. CASE UNCHANGED vars
      BY <2>1 DEF vars, site, velero, call, InForce, Decided
    <2> QED
      BY <2>1, InForceKept
  <1> QED
    BY <1>1, <1>2, LifeHolds, PTL DEF Spec
=============================================================================
