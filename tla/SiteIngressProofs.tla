------------------------- MODULE SiteIngressProofs --------------------------
(***************************************************************************)
(* What SiteIngress guarantees for every set of hosts and of values of     *)
(* spec.siteUrl, whatever is refused and deleted.                          *)
(***************************************************************************)
EXTENDS SiteIngress, TLAPS

USE IngressAssumption

-----------------------------------------------------------------------------
(* Types.                                                                  *)

LEMMA ReturnType ==
  ASSUME TypeOK, Return
  PROVE  pc' = "idle" /\ drp' \in DrupalSite /\ fresh' \in BOOLEAN
         /\ todo' \subseteq Objects /\ errs' \in BOOLEAN
  BY DEF TypeOK, Return

\* The steps of a loop keep the types, whatever they do to the objects.
LEMMA LoopType ==
  ASSUME TypeOK, NEW o \in Objects,
         UNCHANGED <<site, queued, pc, drp, fresh>>,
         todo' \subseteq todo, errs' \in BOOLEAN,
         objs' \subseteq Objects, seen' = seen, late' \subseteq Caches
  PROVE  TypeOK'
  BY DEF TypeOK, site

LEMMA PutOrDrop ==
  ASSUME TypeOK, NEW o \in Objects, Put(o) \/ Drop(o)
  PROVE  /\ objs' \subseteq Objects /\ seen' = seen /\ late' \subseteq Caches
         /\ objs' = objs \cup {o} \/ objs' = objs \ {o}
         /\ late \subseteq late' /\ (Kind(o) = "route" => "route" \in late')
         /\ Kind(o) # "route" => (\A h \in Hosts : Routed(h)' = Routed(h))
  <1>1. CacheOf(o) \in Caches /\ (Kind(o) = "route" => CacheOf(o) = "route")
    BY DEF CacheOf, Caches
  <1>2. Kind(o) # "route" => \A h \in Hosts : <<h, "route">> # o
    BY DEF Kind
  <1> QED
    BY <1>1, <1>2 DEF Put, Drop, TypeOK, Routed

LEMMA TargetType ==
  ASSUME NEW o \in Objects
  PROVE  /\ Target(o) \in Objects
         /\ Kind(o) = "route" => Target(o) = o
         /\ Kind(o) # "route" => Kind(Target(o)) # "route"
  BY DEF Target, Objects, Kinds, Kind, Host

\* What a step of a loop may do: deal with one object, or fail.
LoopStep(o) ==
    \/ Keep(o)
    \/ Fail(o)
    \/ \E t \in Objects : /\ Kind(t) = "route" <=> Kind(o) = "route"
                          /\ Put(t) \/ Drop(t)
                          /\ Done(o)

LEMMA LoopSteps ==
  ASSUME NEW o \in Objects,
         Create(o) \/ CreateRefused(o) \/ Remove(o) \/ RemoveRefused(o)
  PROVE  LoopStep(o)
  BY TargetType
  DEF Create, CreateRefused, Remove, RemoveRefused, FailToCreate, LoopStep

LEMMA LoopStepType ==
  ASSUME TypeOK, NEW o \in Objects, LoopStep(o)
  PROVE  TypeOK'
  <1>1. CASE Keep(o)
    BY <1>1, LoopType DEF Keep, Done, world, TypeOK
  <1>2. CASE Fail(o)
    BY <1>2 DEF Fail, site, world, TypeOK
  <1>3. ASSUME NEW t \in Objects, Put(t) \/ Drop(t), Done(o) PROVE TypeOK'
    BY <1>3, PutOrDrop, LoopType DEF Done, TypeOK
  <1> QED
    BY <1>1, <1>2, <1>3 DEF LoopStep

LEMMA ObservedType ==
  ASSUME TypeOK, NEW new \in Observed
  PROVE  /\ new \in DrupalSite /\ new.urls = drp.urls /\ new.failed = FALSE
         /\ drp.initialized => new.initialized
  <1>1. PICK i \in {drp.initialized, TRUE} :
           new = [drp EXCEPT !.failed = FALSE, !.initialized = i]
    BY DEF Observed
  <1>2. i \in BOOLEAN /\ (drp.initialized => i)
    BY <1>1 DEF TypeOK, DrupalSite
  <1>3. new = [urls |-> drp.urls, initialized |-> i, failed |-> FALSE]
    BY <1>1 DEF TypeOK, DrupalSite
  <1> QED
    BY <1>2, <1>3 DEF TypeOK, DrupalSite

LEMMA TypeStep == TypeOK /\ [Next]_vars => TypeOK'
  <1> SUFFICES ASSUME TypeOK, [Next]_vars
               PROVE  TypeOK'
    OBVIOUS
  <1>1. ASSUME Fetch PROVE TypeOK'
    BY <1>1 DEF Fetch, site, world, TypeOK
  <1>2. ASSUME CheckConditions PROVE TypeOK'
    <2>1. PICK new \in Observed :
             \/ (WriteStatus(new) \/ UNCHANGED site) /\ Return
             \/ /\ pc' = IF Installed THEN "routes" ELSE "cleared"
                /\ todo' = drp.urls \X (IF Installed THEN {"route"} ELSE {"route", "http"})
                /\ UNCHANGED <<site, drp, fresh, errs>>
      BY <1>2 DEF CheckConditions
    <2>2. UNCHANGED world /\ queued' \in BOOLEAN
      BY <1>2 DEF CheckConditions, TypeOK
    <2>3. drp.urls \X {"route"} \subseteq Objects /\ drp.urls \X {"route", "http"} \subseteq Objects
      BY DEF Objects, Kinds, TypeOK, DrupalSite
    <2>4. CASE (WriteStatus(new) \/ UNCHANGED site) /\ Return
      BY <2>2, <2>4, ReturnType, ObservedType DEF WriteStatus, site, world, TypeOK
    <2>5. CASE /\ pc' = IF Installed THEN "routes" ELSE "cleared"
               /\ todo' = drp.urls \X (IF Installed THEN {"route"} ELSE {"route", "http"})
               /\ UNCHANGED <<site, drp, fresh, errs>>
      BY <2>2, <2>3, <2>5 DEF site, world, TypeOK, Loops
    <2> QED
      BY <2>1, <2>4, <2>5
  <1>3. ASSUME FinishCall PROVE TypeOK'
    <2>1. [drp EXCEPT !.failed = TRUE] \in DrupalSite
      BY DEF TypeOK, DrupalSite
    <2> QED
      BY <1>3, <2>1, ReturnType DEF FinishCall, WriteStatus, site, world, TypeOK
  <1>4. ASSUME EndLoop PROVE TypeOK'
    <2>1. drp.urls \X {"http", "https"} \subseteq Objects
      BY DEF Objects, Kinds, TypeOK, DrupalSite
    <2>2. Extra({"route"}) \subseteq Objects /\ Extra({"http", "https"}) \subseteq Objects
      BY DEF Extra, TypeOK
    <2> QED
      BY <1>4, <2>1, <2>2 DEF EndLoop, site, world, TypeOK, Loops
  <1>5. ASSUME NEW o \in Objects,
               Create(o) \/ CreateRefused(o) \/ Remove(o) \/ RemoveRefused(o)
        PROVE  TypeOK'
    BY <1>5, LoopSteps, LoopStepType
  <1>6. ASSUME NEW o \in Objects, SomebodyDeletes(o) PROVE TypeOK'
    BY <1>6, PutOrDrop DEF SomebodyDeletes, site, call, TypeOK
  <1>7. ASSUME InformerSync \/ Resync PROVE TypeOK'
    BY <1>7 DEF InformerSync, Resync, site, world, call, TypeOK
  <1>8. ASSUME NEW c \in Caches, SeeObjects(c) PROVE TypeOK'
    BY <1>8 DEF SeeObjects, site, call, TypeOK
  <1>9. ASSUME NEW us \in SiteUrls, EditUrls(us) PROVE TypeOK'
    <2>1. [cr EXCEPT !.urls = us] \in DrupalSite
      BY DEF TypeOK, DrupalSite
    <2> QED
      BY <1>9, <2>1 DEF EditUrls, world, TypeOK
  <1>10. CASE UNCHANGED vars
    BY <1>10 DEF vars, site, world, call, TypeOK
  <1> QED
    BY <1>1, <1>2, <1>3, <1>4, <1>5, <1>6, <1>7, <1>8, <1>9, <1>10
    DEF Next, Reconcile, Meddling

LEMMA InitType == Init => TypeOK
  <1> SUFFICES ASSUME Init PROVE TypeOK
    OBVIOUS
  <1>1. cr \in DrupalSite
    BY DEF Init, DrupalSite
  <1> QED
    BY <1>1 DEF Init, TypeOK, Loops

\* The variables keep their types.
THEOREM TypeCorrect == Spec => []TypeOK
  BY InitType, TypeStep, PTL DEF Spec

-----------------------------------------------------------------------------
(* The installation.                                                       *)

CacheFollows == synced => cache = cr

CopyFollows == pc # "idle" /\ fresh => synced /\ drp = cr

\* A call on an old copy is not the last one.
WakesUp == pc # "idle" /\ ~fresh => ~synced \/ queued

\* Ready has no error after the conditions, and Initialized decides on the loops.
Conditions ==
    /\ pc \notin {"idle", "conditions"} => ~drp.failed
    /\ pc = "cleared" => ~drp.initialized
    /\ pc \in Loops \ {"cleared"} => drp.initialized

\* Who believes that the site is installed is right.
Believed == cache.initialized \/ drp.initialized => cr.initialized

InstallInv == /\ TypeOK /\ CacheFollows /\ CopyFollows /\ WakesUp /\ Conditions
              /\ Believed /\ RoutesAfterInstallation

\* What a call writes into the status does not take Initialized back.
LEMMA WriteInstalled ==
  ASSUME InstallInv, TypeOK', pc # "idle", NEW new \in DrupalSite, WriteStatus(new),
         drp.initialized => new.initialized, Return, UNCHANGED world
  PROVE  InstallInv'
  <1>1. cr' = new /\ synced' = (synced /\ new = cr) /\ cache' = cache /\ drp = cr
        /\ pc' = "idle" /\ drp' = cache /\ objs' = objs
    BY DEF WriteStatus, Return, world, InstallInv, CopyFollows
  <1> QED
    BY <1>1 DEF InstallInv, CacheFollows, CopyFollows, WakesUp, Conditions, Believed,
                RoutesAfterInstallation, Loops

LEMMA LoopStepInstalled ==
  ASSUME InstallInv, TypeOK', NEW o \in Objects, LoopStep(o),
         objs = {} => objs' = {} \/ cr.initialized
  PROVE  InstallInv'
  <1>1. UNCHANGED <<cr, cache, synced, queued, pc, drp, fresh>>
    BY DEF LoopStep, Keep, Fail, Done, site
  <1> QED
    BY <1>1 DEF InstallInv, CacheFollows, CopyFollows, WakesUp, Conditions, Believed,
                RoutesAfterInstallation

LEMMA InstallStep == InstallInv /\ [Next]_vars => InstallInv'
  <1> SUFFICES ASSUME InstallInv, [Next]_vars
               PROVE  InstallInv'
    OBVIOUS
  <1> TypeOK
    BY DEF InstallInv
  <1>t. TypeOK'
    BY TypeStep
  <1>1. ASSUME Fetch PROVE InstallInv'
    BY <1>1, <1>t
    DEF Fetch, site, world, InstallInv, CacheFollows, CopyFollows, WakesUp, Conditions,
        Believed, RoutesAfterInstallation, Loops
  <1>2. ASSUME CheckConditions PROVE InstallInv'
    <2> pc = "conditions" /\ UNCHANGED world
      BY <1>2 DEF CheckConditions
    <2>1. PICK new \in Observed :
             \/ WriteStatus(new) /\ Return
             \/ ~fresh /\ queued' = TRUE /\ UNCHANGED site /\ Return
             \/ /\ new = drp
                /\ pc' = IF Installed THEN "routes" ELSE "cleared"
                /\ UNCHANGED <<site, queued, drp, fresh, errs>>
      BY <1>2 DEF CheckConditions
    <2>2. CASE WriteStatus(new) /\ Return
      BY <1>t, <2>2, ObservedType, WriteInstalled
    <2>3. CASE queued' = TRUE /\ UNCHANGED site /\ Return
      BY <1>t, <2>3
      DEF Return, site, world, InstallInv, CacheFollows, CopyFollows, WakesUp, Conditions,
          Believed, RoutesAfterInstallation, Loops
    <2>4. CASE /\ new = drp
               /\ pc' = IF Installed THEN "routes" ELSE "cleared"
               /\ UNCHANGED <<site, queued, drp, fresh, errs>>
      <3>1. drp.failed = FALSE
        BY <2>4, ObservedType
      <3> QED
        BY <1>t, <2>4, <3>1
        DEF Installed, site, world, InstallInv, CacheFollows, CopyFollows, WakesUp,
            Conditions, Believed, RoutesAfterInstallation, Loops
    <2> QED
      BY <2>1, <2>2, <2>3, <2>4
  <1>3. ASSUME FinishCall PROVE InstallInv'
    <2> pc # "idle" /\ Return /\ UNCHANGED <<world, queued>>
      BY <1>3 DEF FinishCall
    <2>1. CASE WriteStatus([drp EXCEPT !.failed = TRUE])
      <3>1. [drp EXCEPT !.failed = TRUE] \in DrupalSite
            /\ [drp EXCEPT !.failed = TRUE].initialized = drp.initialized
        BY DEF TypeOK, DrupalSite
      <3> QED
        BY <1>t, <2>1, <3>1, WriteInstalled
    <2>2. CASE UNCHANGED site
      BY <1>t, <2>2
      DEF Return, site, world, InstallInv, CacheFollows, CopyFollows, WakesUp, Conditions,
          Believed, RoutesAfterInstallation, Loops
    <2> QED
      BY <1>3, <2>1, <2>2 DEF FinishCall
  <1>4. ASSUME EndLoop PROVE InstallInv'
    BY <1>4, <1>t
    DEF EndLoop, site, world, InstallInv, CacheFollows, CopyFollows, WakesUp, Conditions,
        Believed, RoutesAfterInstallation, Loops
  <1>5. ASSUME NEW o \in Objects,
               Create(o) \/ CreateRefused(o) \/ Remove(o) \/ RemoveRefused(o)
        PROVE  InstallInv'
    <2>1. CASE Create(o) \/ CreateRefused(o)
      <3>1. cr.initialized
        BY <2>1 DEF Create, CreateRefused, InstallInv, Conditions, Believed, Loops
      <3> QED
        BY <1>5, <1>t, <3>1, LoopSteps, LoopStepInstalled
    <2>2. CASE Remove(o) \/ RemoveRefused(o)
      <3>1. objs = {} => objs' = {}
        BY <2>2 DEF Remove, RemoveRefused, Keep, Fail, Drop, world
      <3> QED
        BY <1>5, <1>t, <3>1, LoopSteps, LoopStepInstalled
    <2> QED
      BY <1>5, <2>1, <2>2
  <1>6. ASSUME NEW o \in Objects, SomebodyDeletes(o) PROVE InstallInv'
    BY <1>6, <1>t
    DEF SomebodyDeletes, Drop, site, call, InstallInv, CacheFollows, CopyFollows, WakesUp,
        Conditions, Believed, RoutesAfterInstallation
  <1>7. ASSUME InformerSync \/ Resync PROVE InstallInv'
    BY <1>7, <1>t
    DEF InformerSync, Resync, site, world, call, InstallInv, CacheFollows, CopyFollows,
        WakesUp, Conditions, Believed, RoutesAfterInstallation, Loops
  <1>8. ASSUME NEW c \in Caches, SeeObjects(c) PROVE InstallInv'
    BY <1>8, <1>t
    DEF SeeObjects, site, call, InstallInv, CacheFollows, CopyFollows, WakesUp,
        Conditions, Believed, RoutesAfterInstallation
  <1>9. ASSUME NEW us \in SiteUrls, EditUrls(us) PROVE InstallInv'
    <2>1. [cr EXCEPT !.urls = us].initialized = cr.initialized
      BY DEF TypeOK, DrupalSite
    <2> QED
      BY <1>9, <1>t, <2>1
      DEF EditUrls, world, InstallInv, CacheFollows, CopyFollows, WakesUp,
          Conditions, Believed, RoutesAfterInstallation
  <1>10. CASE UNCHANGED vars
    BY <1>10, <1>t
    DEF vars, site, world, call, InstallInv, CacheFollows, CopyFollows, WakesUp,
        Conditions, Believed, RoutesAfterInstallation
  <1> QED
    BY <1>1, <1>2, <1>3, <1>4, <1>5, <1>6, <1>7, <1>8, <1>9, <1>10
    DEF Next, Reconcile, Meddling

LEMMA InitInstall == Init => InstallInv
  <1> SUFFICES ASSUME Init PROVE InstallInv
    OBVIOUS
  <1>1. cache = cr /\ drp = cr /\ pc = "idle" /\ objs = {}
    BY DEF Init
  <1> QED
    BY <1>1, InitType
    DEF InstallInv, CacheFollows, CopyFollows, WakesUp, Conditions, Believed,
        RoutesAfterInstallation, Loops

\* A site is not reachable before its installation is in its status, whatever a
\* late cache says.
THEOREM NotReachableBefore == Spec => []RoutesAfterInstallation
  <1>1. InstallInv => RoutesAfterInstallation
    BY DEF InstallInv
  <1> QED
    BY <1>1, InitInstall, InstallStep, PTL DEF Spec

-----------------------------------------------------------------------------
(* The Routes.                                                             *)

Missing(h) == h \in cr.urls /\ ~Routed(h)

Surplus(h) == h \notin cr.urls /\ Routed(h)

\* Nothing is on its way that would start another call.
Quiet == ~queued /\ synced /\ "route" \notin late /\ cr.initialized

RoutesSeen == "route" \notin late => \A h \in Hosts : <<h, "route">> \in seen <=> Routed(h)

\* The call that runs has yet to come to the route, or has failed.
ToCreate(h) ==
    \/ pc = "conditions"
    \/ pc \in Loops /\ errs
    \/ pc = "routes" /\ <<h, "route">> \in todo

ToRemove(h) ==
    \/ pc = "conditions"
    \/ pc \in Loops /\ errs
    \/ pc \in {"routes", "uris"}
    \/ pc = "extraRoutes" /\ <<h, "route">> \in todo

RouteWork ==
    Quiet => \A h \in Hosts : /\ Missing(h) => fresh /\ ToCreate(h)
                              /\ Surplus(h) => fresh /\ ToRemove(h)

RouteInv == InstallInv /\ RoutesSeen /\ RouteWork

\* A step of a loop that leaves the site alone.
LEMMA LoopStepRoutes ==
  ASSUME RouteInv, NEW o \in Objects, pc \in Loops, LoopStep(o),
         Keep(o) /\ ~errs /\ "route" \notin late =>
             /\ pc = "routes" => o \in seen
             /\ pc = "extraRoutes" /\ Kind(o) = "route" => o \notin seen
  PROVE  RoutesSeen' /\ RouteWork'
  <1> TypeOK
    BY DEF RouteInv, InstallInv
  <1>r. ASSUME NEW h \in Hosts PROVE <<h, "route">> \in Objects /\ Kind(<<h, "route">>) = "route"
    BY DEF Objects, Kinds, Kind
  <1>1. CASE Keep(o)
    <2>1. /\ todo' = todo \ {o}
          /\ UNCHANGED <<cr, synced, objs, seen, late, queued, pc, fresh, errs>>
      BY <1>1 DEF Keep, Done, site, world
    <2>2. ASSUME NEW h \in Hosts, Quiet, Missing(h), ~errs, pc = "routes"
          PROVE  <<h, "route">> # o
      BY <1>1, <2>2 DEF Quiet, Missing, RouteInv, RoutesSeen
    <2>3. ASSUME NEW h \in Hosts, Quiet, Surplus(h), ~errs, pc = "extraRoutes"
          PROVE  <<h, "route">> # o
      BY <1>1, <1>r, <2>3 DEF Quiet, Surplus, RouteInv, RoutesSeen
    <2> QED
      BY <2>1, <2>2, <2>3
      DEF Quiet, Missing, Surplus, Routed, ToCreate, ToRemove, RouteInv, RoutesSeen, RouteWork
  <1>2. CASE Fail(o)
    BY <1>2
    DEF Fail, site, world, Quiet, Missing, Surplus, Routed, ToCreate, ToRemove,
        RouteInv, RoutesSeen, RouteWork
  <1>3. ASSUME NEW t \in Objects, Put(t) \/ Drop(t), Done(o),
               Kind(t) = "route" <=> Kind(o) = "route"
        PROVE  RoutesSeen' /\ RouteWork'
    <2>1. /\ todo' = todo \ {o}
          /\ UNCHANGED <<cr, synced, queued, pc, fresh, errs>>
      BY <1>3 DEF Done, site
    <2>2. CASE Kind(t) = "route"
      <3>1. "route" \in late'
        BY <1>3, <2>2, PutOrDrop
      <3> QED
        BY <3>1 DEF Quiet, RoutesSeen, RouteWork
    <2>3. CASE Kind(t) # "route"
      <3>1. /\ \A h \in Hosts : Routed(h)' = Routed(h)
            /\ seen' = seen /\ late \subseteq late'
        BY <1>3, <2>3, PutOrDrop
      <3>2. RoutesSeen'
        BY <3>1 DEF RouteInv, RoutesSeen
      <3>3. \A h \in Hosts : <<h, "route">> # o
        BY <1>r, <1>3, <2>3
      <3> QED
        BY <3>1, <3>2, <3>3, <2>1
        DEF Quiet, Missing, Surplus, ToCreate, ToRemove, RouteInv, RouteWork
    <2> QED
      BY <2>2, <2>3
  <1> QED
    BY <1>1, <1>2, <1>3 DEF LoopStep

\* A write of the status is an event if it changes anything, and leaves the
\* Routes as they are; so does the end of a call on an old copy.
LEMMA WriteRoutes ==
  ASSUME RouteInv, NEW new, WriteStatus(new), new # drp, pc # "idle",
         UNCHANGED <<world, queued>>
  PROVE  RoutesSeen' /\ RouteWork'
  <1>1. ~synced' /\ UNCHANGED world
    BY DEF WriteStatus, RouteInv, InstallInv, CopyFollows
  <1> QED
    BY <1>1 DEF world, Routed, Quiet, RouteInv, RoutesSeen, RouteWork

LEMMA OldCopyRoutes ==
  ASSUME RouteInv, pc # "idle", ~fresh, UNCHANGED <<site, world>>,
         queued' = TRUE \/ UNCHANGED queued
  PROVE  RoutesSeen' /\ RouteWork'
  <1>1. ~synced' \/ queued'
    BY DEF site, RouteInv, InstallInv, WakesUp
  <1> QED
    BY <1>1 DEF world, Routed, Quiet, RouteInv, RoutesSeen, RouteWork

LEMMA RouteStep == RouteInv /\ [Next]_vars => RouteInv'
  <1> SUFFICES ASSUME RouteInv, [Next]_vars
               PROVE  RoutesSeen' /\ RouteWork'
    BY InstallStep DEF RouteInv
  <1> TypeOK
    BY DEF RouteInv, InstallInv
  <1>r. ASSUME NEW h \in Hosts PROVE <<h, "route">> \in Objects /\ Kind(<<h, "route">>) = "route"
                                     /\ Host(<<h, "route">>) = h
    BY DEF Objects, Kinds, Kind, Host
  <1>f. pc # "idle" /\ fresh => drp = cr
    BY DEF RouteInv, InstallInv, CopyFollows
  <1>1. ASSUME Fetch PROVE RoutesSeen' /\ RouteWork'
    <2>1. Quiet' => fresh' /\ pc' = "conditions"
      BY <1>1 DEF Fetch, site, Quiet
    <2> QED
      BY <1>1, <2>1
      DEF Fetch, world, Routed, ToCreate, ToRemove, RouteInv, RoutesSeen, RouteWork
  <1>2. ASSUME CheckConditions PROVE RoutesSeen' /\ RouteWork'
    <2> pc = "conditions" /\ UNCHANGED world
      BY <1>2 DEF CheckConditions
    <2>1. PICK new \in Observed :
             \/ new # drp /\ WriteStatus(new) /\ UNCHANGED queued
             \/ ~fresh /\ queued' = TRUE /\ UNCHANGED site
             \/ /\ pc' = IF Installed THEN "routes" ELSE "cleared"
                /\ todo' = drp.urls \X (IF Installed THEN {"route"} ELSE {"route", "http"})
                /\ UNCHANGED <<site, queued, drp, fresh, errs>>
      BY <1>2 DEF CheckConditions
    <2>2. CASE new # drp /\ WriteStatus(new) /\ UNCHANGED queued
      BY <2>2, WriteRoutes
    <2>3. CASE ~fresh /\ queued' = TRUE /\ UNCHANGED site
      BY <2>3, OldCopyRoutes
    <2>4. CASE /\ pc' = IF Installed THEN "routes" ELSE "cleared"
               /\ todo' = drp.urls \X (IF Installed THEN {"route"} ELSE {"route", "http"})
               /\ UNCHANGED <<site, queued, drp, fresh, errs>>
      <3>1. CASE fresh /\ cr.initialized
        <4>1. pc' = "routes" /\ todo' = cr.urls \X {"route"}
          BY <1>f, <2>4, <3>1 DEF Installed
        <4> QED
          BY <2>4, <4>1
          DEF site, world, Quiet, Missing, Surplus, Routed, ToCreate, ToRemove,
              RouteInv, RoutesSeen, RouteWork
      <3>2. CASE ~cr.initialized
        BY <2>4, <3>2 DEF site, world, Quiet, Routed, RouteInv, RoutesSeen, RouteWork
      <3>3. CASE ~fresh
        BY <2>4, <3>3, OldCopyRoutes
      <3> QED
        BY <3>1, <3>2, <3>3
    <2> QED
      BY <2>1, <2>2, <2>3, <2>4
  <1>3. ASSUME FinishCall PROVE RoutesSeen' /\ RouteWork'
    <2> pc \in {"cleared", "extraUris"} /\ todo = {} /\ pc # "idle" /\ UNCHANGED <<world, queued>>
      BY <1>3 DEF FinishCall
    <2>1. CASE WriteStatus([drp EXCEPT !.failed = TRUE])
      <3>1. [drp EXCEPT !.failed = TRUE] # drp
        BY DEF TypeOK, DrupalSite, RouteInv, InstallInv, Conditions
      <3> QED
        BY <2>1, <3>1, WriteRoutes
    <2>2. CASE ~errs /\ fresh /\ UNCHANGED site
      <3>1. pc = "cleared" => ~cr.initialized
        BY <1>f, <2>2 DEF RouteInv, InstallInv, Conditions
      <3>2. Quiet' => \A h \in Hosts : ~Missing(h) /\ ~Surplus(h)
        BY <2>2, <3>1
        DEF site, world, Quiet, ToCreate, ToRemove, RouteInv, RouteWork
      <3> QED
        BY <2>2, <3>2
        DEF site, world, Missing, Surplus, Routed, RouteInv, RoutesSeen, RouteWork
    <2>3. CASE ~fresh /\ UNCHANGED site
      BY <2>3, OldCopyRoutes
    <2> QED
      BY <1>3, <2>1, <2>2, <2>3 DEF FinishCall
  <1>4. ASSUME EndLoop PROVE RoutesSeen' /\ RouteWork'
    <2>1. UNCHANGED <<site, world, queued, fresh, errs>> /\ todo = {}
      BY <1>4 DEF EndLoop
    <2>2. RoutesSeen'
      BY <2>1 DEF world, Routed, RouteInv, RoutesSeen
    <2>3. CASE errs
      BY <1>4, <2>1, <2>2, <2>3
      DEF EndLoop, Loops, site, world, Quiet, Missing, Surplus, Routed, ToCreate, ToRemove,
          RouteInv, RouteWork
    <2>4. CASE ~errs /\ fresh
      <3>1. Quiet => \A h \in Hosts : ~Missing(h)
        BY <1>4, <2>1, <2>4 DEF EndLoop, ToCreate, RouteInv, RouteWork
      <3>2. CASE pc' = "uris" /\ pc = "routes"
        BY <2>1, <2>2, <3>1, <3>2
        DEF site, world, Quiet, Missing, Surplus, Routed, ToRemove, RouteInv, RouteWork
      <3>3. CASE pc' = "extraRoutes" /\ todo' = Extra({"route"})
        <4>1. \A h \in Hosts : Quiet /\ Surplus(h) => <<h, "route">> \in todo'
          BY <1>f, <1>r, <1>4, <2>4, <3>3
          DEF EndLoop, Extra, Quiet, Surplus, RouteInv, RoutesSeen
        <4> QED
          BY <2>1, <2>2, <2>4, <3>1, <3>3, <4>1
          DEF site, world, Quiet, Missing, Surplus, Routed, ToRemove, RouteWork
      <3>4. CASE pc' = "extraUris" /\ pc = "extraRoutes"
        <4>1. Quiet => \A h \in Hosts : ~Surplus(h)
          BY <2>1, <2>4, <3>4 DEF ToRemove, RouteInv, RouteWork
        <4> QED
          BY <2>1, <2>2, <3>1, <4>1
          DEF site, world, Quiet, Missing, Surplus, Routed, RouteWork
      <3> QED
        BY <1>4, <3>2, <3>3, <3>4 DEF EndLoop
    <2>5. CASE ~fresh
      BY <1>4, <2>1, <2>5, OldCopyRoutes DEF EndLoop
    <2> QED
      BY <2>3, <2>4, <2>5
  <1>5. ASSUME NEW o \in Objects,
               Create(o) \/ CreateRefused(o) \/ Remove(o) \/ RemoveRefused(o)
        PROVE  RoutesSeen' /\ RouteWork'
    <2>1. pc \in Loops
      BY <1>5 DEF Create, CreateRefused, Remove, RemoveRefused, Loops
    <2>2. ASSUME Keep(o), ~errs, "route" \notin late, pc = "routes" PROVE o \in seen
      BY <1>5, <2>2 DEF Create, CreateRefused, Remove, RemoveRefused, FailToCreate, Keep,
                        Fail, Put, Done, world
    <2>3. ASSUME Keep(o), ~errs, "route" \notin late, pc = "extraRoutes", Kind(o) = "route"
          PROVE  o \notin seen
      BY <1>5, <2>3, TargetType
      DEF Create, CreateRefused, Remove, RemoveRefused, Keep, Fail, Drop, Done, world
    <2> QED
      BY <1>5, <2>1, <2>2, <2>3, LoopSteps, LoopStepRoutes
  <1>6. ASSUME NEW o \in Objects, SomebodyDeletes(o) PROVE RoutesSeen' /\ RouteWork'
    <2>1. Drop(o) /\ UNCHANGED <<site, queued, call>>
      BY <1>6 DEF SomebodyDeletes
    <2>2. CASE Kind(o) = "route"
      BY <2>1, <2>2, PutOrDrop DEF Quiet, RoutesSeen, RouteWork
    <2>3. CASE Kind(o) # "route"
      BY <2>1, <2>3, PutOrDrop
      DEF site, call, Quiet, Missing, Surplus, ToCreate, ToRemove, RouteInv, RoutesSeen,
          RouteWork
    <2> QED
      BY <2>2, <2>3
  <1>7. ASSUME InformerSync \/ Resync PROVE RoutesSeen' /\ RouteWork'
    BY <1>7 DEF InformerSync, Resync, world, Quiet, Routed, RouteInv, RoutesSeen, RouteWork
  <1>8. ASSUME NEW c \in Caches, SeeObjects(c) PROVE RoutesSeen' /\ RouteWork'
    <2>1. CASE c = "route"
      <3>1. \A h \in Hosts : <<h, "route">> \in seen' <=> <<h, "route">> \in objs'
        BY <1>r, <1>8, <2>1 DEF SeeObjects, CacheOf
      <3> QED
        BY <1>8, <2>1, <3>1 DEF SeeObjects, Routed, Quiet, RoutesSeen, RouteWork
    <2>2. CASE c # "route"
      <3>1. \A h \in Hosts : <<h, "route">> \in seen' <=> <<h, "route">> \in seen
        BY <1>r, <1>8, <2>2 DEF SeeObjects, CacheOf
      <3> QED
        BY <1>8, <2>2, <3>1
        DEF SeeObjects, site, call, Quiet, Missing, Surplus, Routed, ToCreate, ToRemove,
            RouteInv, RoutesSeen, RouteWork
    <2> QED
      BY <2>1, <2>2
  <1>9. ASSUME NEW us \in SiteUrls, EditUrls(us) PROVE RoutesSeen' /\ RouteWork'
    BY <1>9 DEF EditUrls, world, Quiet, Routed, RouteInv, RoutesSeen, RouteWork
  <1>10. CASE UNCHANGED vars
    BY <1>10
    DEF vars, site, world, call, Quiet, Missing, Surplus, Routed, ToCreate, ToRemove,
        RouteInv, RoutesSeen, RouteWork
  <1> QED
    BY <1>1, <1>2, <1>3, <1>4, <1>5, <1>6, <1>7, <1>8, <1>9, <1>10
    DEF Next, Reconcile, Meddling

\* When the operator rests, the Routes are those of the URLs, although the
\* error of a failed write is lost and its outcome is not looked at: it is
\* written into Ready, which was without an error when the loops began, and the
\* event of that write starts the next call.
THEOREM RoutesFollow == Spec => []RestMeansRouted
  <1>1. Init => RoutesSeen /\ RouteWork
    BY DEF Init, RoutesSeen, RouteWork, Quiet, Routed
  <1>2. RouteInv => RestMeansRouted
    BY DEF RouteInv, RouteWork, RestMeansRouted, Quiet, Missing, Surplus, ToCreate,
           ToRemove, Loops
  <1> QED
    BY <1>1, <1>2, InitInstall, RouteStep, PTL DEF Spec, RouteInv

-----------------------------------------------------------------------------
(* What the operator leaves alone: the Routes of a site at rest, until its *)
(* owner edits the URLs or somebody deletes a Route.                       *)

Interference ==
    \/ \E us \in SiteUrls : EditUrls(us)
    \/ \E h \in Hosts : SomebodyDeletes(<<h, "route">>)

\* A fixed point: the Routes and what the caches say of them are those of the
\* URLs, and so are the intentions of the running call.
InPlace ==
    /\ cr.initialized /\ cache.initialized /\ cache.urls = cr.urls
    /\ pc # "idle" => drp.initialized /\ drp.urls = cr.urls
    /\ \A h \in Hosts : /\ Routed(h) <=> h \in cr.urls
                        /\ <<h, "route">> \in seen <=> h \in cr.urls
    /\ pc # "cleared"
    /\ pc = "routes" => todo \subseteq cr.urls \X {"route"}
    /\ pc = "uris" => todo \subseteq cr.urls \X {"http", "https"}
    /\ pc = "extraRoutes" => todo = {}
    /\ pc = "extraUris" => \A o \in todo : Kind(o) # "route"

RoutesUntouched == \A h \in Hosts : Routed(h)' <=> Routed(h)

\* A step of a loop on what is no Route, or on a Route that is as it should be.
LEMMA InPlaceLoops ==
  ASSUME TypeOK, InPlace, NEW o \in Objects,
         Create(o) \/ CreateRefused(o) \/ Remove(o) \/ RemoveRefused(o)
  PROVE  InPlace' /\ RoutesUntouched
  <1>1. pc \in {"routes", "uris", "extraRoutes", "extraUris"} /\ o \in todo
    BY DEF Create, CreateRefused, Remove, RemoveRefused, Turn, InPlace
  <1>2. LoopStep(o) /\ UNCHANGED <<site, queued, pc, drp, fresh>>
          /\ todo' \subseteq todo
    BY LoopSteps DEF LoopStep, Keep, Fail, Done
  <1>3. ASSUME Kind(o) = "route"
        PROVE  o \in seen /\ pc = "routes"
    BY <1>1, <1>3 DEF InPlace, Kind, TypeOK, DrupalSite
  <1>4. UNCHANGED world
          \/ \E t \in Objects : Kind(t) # "route" /\ (Put(t) \/ Drop(t))
    <2>1. CASE Kind(o) = "route"
      <3>1. Create(o) /\ Keep(o)
        BY <1>3, <2>1 DEF Create, CreateRefused, Remove, RemoveRefused
      <3> QED
        BY <3>1 DEF Keep
    <2>2. CASE Kind(o) # "route"
      BY <1>2, <2>2 DEF LoopStep, Keep, Fail
    <2> QED
      BY <2>1, <2>2
  <1>5. seen' = seen /\ RoutesUntouched
    BY <1>4, PutOrDrop DEF world, Routed, RoutesUntouched
  <1> QED
    BY <1>1, <1>2, <1>5 DEF InPlace, RoutesUntouched, site

LEMMA InPlaceKept ==
  ASSUME TypeOK, InPlace, [Next]_vars, [~Interference]_vars
  PROVE  InPlace' /\ RoutesUntouched
  <1>r. ASSUME NEW h \in Hosts
        PROVE  /\ <<h, "route">> \in Objects /\ Kind(<<h, "route">>) = "route"
               /\ Host(<<h, "route">>) = h
    BY DEF Objects, Kinds, Kind, Host
  <1>1. CASE Fetch
    BY <1>1 DEF Fetch, site, world, Routed, InPlace, RoutesUntouched
  \* The end of a call leaves the URLs and Initialized alone.
  <1>2. ASSUME Return, UNCHANGED world, cache' = cache, cr'.initialized,
               cr'.urls = cr.urls
        PROVE  InPlace' /\ RoutesUntouched
    BY <1>2 DEF Return, world, Routed, InPlace, RoutesUntouched
  <1>3. CASE CheckConditions
    <2> pc = "conditions" /\ UNCHANGED world
      BY <1>3 DEF CheckConditions
    <2>1. PICK new \in Observed :
             \/ WriteStatus(new) /\ Return
             \/ UNCHANGED site /\ Return
             \/ /\ pc' = IF Installed THEN "routes" ELSE "cleared"
                /\ todo' = drp.urls \X (IF Installed THEN {"route"} ELSE {"route", "http"})
                /\ UNCHANGED <<site, queued, drp, fresh, errs>>
      BY <1>3 DEF CheckConditions
    <2>2. new.urls = cr.urls /\ new.initialized
      BY ObservedType DEF InPlace
    <2>3. CASE WriteStatus(new) /\ Return
      BY <1>2, <2>2, <2>3 DEF WriteStatus
    <2>4. CASE UNCHANGED site /\ Return
      BY <1>2, <2>4 DEF site, InPlace
    <2>5. CASE /\ pc' = IF Installed THEN "routes" ELSE "cleared"
               /\ todo' = drp.urls \X (IF Installed THEN {"route"} ELSE {"route", "http"})
               /\ UNCHANGED <<site, queued, drp, fresh, errs>>
      <3>1. pc' = "routes" /\ todo' = cr.urls \X {"route"}
        BY <2>5 DEF Installed, InPlace
      <3> QED
        BY <2>5, <3>1 DEF site, world, Routed, InPlace, RoutesUntouched
    <2> QED
      BY <2>1, <2>3, <2>4, <2>5
  <1>4. CASE FinishCall
    <2>1. Return /\ UNCHANGED world /\ cache' = cache /\ pc = "extraUris"
            /\ cr' \in {cr, [drp EXCEPT !.failed = TRUE]}
      BY <1>4 DEF FinishCall, WriteStatus, site, InPlace
    <2>2. cr'.initialized /\ cr'.urls = cr.urls
      BY <2>1 DEF InPlace, TypeOK, DrupalSite
    <2> QED
      BY <1>2, <2>1, <2>2
  <1>5. CASE EndLoop
    <2>1. UNCHANGED <<site, world, queued, drp, fresh, errs>>
      BY <1>5 DEF EndLoop
    <2>2. CASE pc' = "uris" /\ todo' = drp.urls \X {"http", "https"} /\ pc = "routes"
      BY <2>1, <2>2 DEF site, world, Routed, InPlace, RoutesUntouched
    <2>3. CASE pc' = "extraRoutes" /\ todo' = Extra({"route"}) /\ pc = "uris"
      <3>1. Extra({"route"}) = {}
        <4> SUFFICES ASSUME NEW o \in Extra({"route"})
                     PROVE  FALSE
          OBVIOUS
        <4>1. o \in seen /\ Kind(o) = "route" /\ Host(o) \notin cr.urls /\ o \in Objects
          BY <2>3 DEF Extra, InPlace, TypeOK
        <4>2. PICK h \in Hosts, k \in Kinds : o = <<h, k>>
          BY <4>1 DEF Objects
        <4> QED
          BY <4>1, <4>2 DEF Kind, Host, InPlace
      <3> QED
        BY <2>1, <2>3, <3>1 DEF site, world, Routed, InPlace, RoutesUntouched
    <2>4. CASE pc' = "extraUris" /\ todo' = Extra({"http", "https"}) /\ pc = "extraRoutes"
      <3>1. \A o \in todo' : Kind(o) # "route"
        BY <2>4 DEF Extra
      <3> QED
        BY <2>1, <2>4, <3>1 DEF site, world, Routed, InPlace, RoutesUntouched
    <2> QED
      BY <1>5, <2>2, <2>3, <2>4 DEF EndLoop
  <1>6. ASSUME NEW o \in Objects,
               Create(o) \/ CreateRefused(o) \/ Remove(o) \/ RemoveRefused(o)
        PROVE  InPlace' /\ RoutesUntouched
    BY <1>6, InPlaceLoops
  <1>7. ASSUME NEW o \in Objects, SomebodyDeletes(o), ~Interference
        PROVE  InPlace' /\ RoutesUntouched
    <2>1. Kind(o) # "route"
      BY <1>7 DEF Interference, Objects, Kinds, Kind
    <2>2. seen' = seen /\ RoutesUntouched /\ UNCHANGED <<site, queued, call>>
      BY <1>7, <2>1, PutOrDrop DEF SomebodyDeletes, RoutesUntouched
    <2> QED
      BY <2>2 DEF site, call, InPlace, RoutesUntouched
  <1>8. CASE InformerSync \/ Resync
    BY <1>8 DEF InformerSync, Resync, site, world, call, Routed, InPlace, RoutesUntouched
  <1>9. ASSUME NEW c \in Caches, SeeObjects(c)
        PROVE  InPlace' /\ RoutesUntouched
    <2>1. \A h \in Hosts : \/ <<h, "route">> \in seen' <=> <<h, "route">> \in seen
                           \/ <<h, "route">> \in seen' <=> <<h, "route">> \in objs
      BY <1>r, <1>9 DEF SeeObjects, CacheOf
    <2>2. UNCHANGED <<site, objs, call>>
      BY <1>9 DEF SeeObjects
    <2> QED
      BY <2>1, <2>2 DEF site, call, Routed, InPlace, RoutesUntouched
  <1>10. CASE UNCHANGED vars
    BY <1>10 DEF vars, site, world, call, Routed, InPlace, RoutesUntouched
  <1>11. CASE ~Interference /\ Reconcile
    BY <1>1, <1>3, <1>4, <1>5, <1>6, <1>11 DEF Reconcile
  <1>12. CASE ~Interference /\ Meddling
    BY <1>6, <1>7, <1>12 DEF Meddling
  <1>13. CASE ~Interference /\ \E us \in SiteUrls : EditUrls(us)
    BY <1>13 DEF Interference
  <1>14. CASE ~Interference /\ Next
    BY <1>8, <1>9, <1>11, <1>12, <1>13, <1>14 DEF Next
  <1> QED
    BY <1>10, <1>14

\* When the operator rests, the Routes of an initialized site are there to
\* stay: whatever is refused, fails or is resynchronised afterwards, no Route
\* is created, deleted or created again, until Interference.
THEOREM RoutesStay ==
    Spec => [](pc = "idle" /\ ~queued /\ synced /\ "route" \notin late /\ cr.initialized
                 => ([][~Interference]_vars => [][RoutesUntouched]_vars))
  <1>1. RouteInv /\ RestMeansRouted
          /\ pc = "idle" /\ ~queued /\ synced /\ "route" \notin late /\ cr.initialized
          => InPlace
    BY DEF RouteInv, InstallInv, CacheFollows, RoutesSeen, RestMeansRouted, InPlace
  <1>2. TypeOK /\ InPlace /\ [Next]_vars /\ [~Interference]_vars
          => InPlace' /\ [RoutesUntouched]_vars
    BY InPlaceKept
  <1>3. Init => RouteInv
    BY InitInstall DEF Init, RouteInv, RoutesSeen, RouteWork, Quiet, Routed
  <1> QED
    BY <1>1, <1>2, <1>3, TypeCorrect, RoutesFollow, RouteStep, PTL DEF Spec
=============================================================================
