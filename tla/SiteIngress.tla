---------------------------- MODULE SiteIngress -----------------------------
(***************************************************************************)
(* The ways into a site: for every URL of spec.siteUrl a Route and two     *)
(* OidcReturnURIs, one for each protocol, once the site is initialized.    *)
(* ensureResources creates what is missing and then removes what the URLs  *)
(* do not ask for any more (ensureResourceX, ensureNoExtraRouteResource,   *)
(* ensureNoExtraOidcReturnUriResource, ensureNoRoute, ensureNoReturnURI).  *)
(*                                                                         *)
(* Every look at an object goes to the informer cache and every write to   *)
(* the API server.  Routes are watched, OidcReturnURIs are not.  The name  *)
(* of an object is a hash of its host: here it is the host.                *)
(***************************************************************************)

CONSTANTS
    Hosts,     \* the hosts that a site may ask for
    SiteUrls,  \* the values that its owner may give to spec.siteUrl
    Refusable, \* kinds of objects of which a write may be refused
    Deletable  \* kinds of objects that somebody may delete

Kinds == {"route", "http", "https"}

ASSUME IngressAssumption ==
    /\ SiteUrls \subseteq SUBSET Hosts
    /\ Refusable \subseteq Kinds /\ Deletable \subseteq Kinds

\* <<h, "route">> is the Route of host h; the others are its OidcReturnURIs.
Objects == Hosts \X Kinds

Host(o) == o[1]
Kind(o) == o[2]

\* There is a cache of the Routes and one of the OidcReturnURIs.
Caches == {"route", "uri"}

CacheOf(o) == IF Kind(o) = "route" THEN "route" ELSE "uri"

\* spec.siteUrl, the condition Initialized, and whether the condition Ready has
\* the error of a failed resource for its reason.
DrupalSite == [urls        : SUBSET Hosts,
               initialized : BOOLEAN,
               failed      : BOOLEAN]

VARIABLES
    cr,      \* the DrupalSite in the API server
    cache,   \* the same in the informer cache
    synced,  \* no write of it is on its way to the cache
    objs,    \* the Routes and OidcReturnURIs in the API server
    seen,    \* the same in the informer caches
    late,    \* the caches that have events on their way
    queued,  \* the site is in the work queue
    pc,      \* where the running call is
    drp,     \* its copy of the DrupalSite
    fresh,   \* the DrupalSite has not been written since
    todo,    \* the objects that the present loop has yet to deal with
    errs     \* one of the resources failed

site == <<cr, cache, synced>>
call == <<pc, drp, fresh, todo, errs>>
world == <<objs, seen, late>>
vars == <<site, world, queued, call>>

Loops == {"cleared", "routes", "uris", "extraRoutes", "extraUris"}

TypeOK ==
    /\ cr \in DrupalSite /\ cache \in DrupalSite /\ synced \in BOOLEAN
    /\ objs \subseteq Objects /\ seen \subseteq Objects /\ late \subseteq Caches
    /\ queued \in BOOLEAN
    /\ pc \in Loops \cup {"idle", "conditions"}
    /\ drp \in DrupalSite /\ fresh \in BOOLEAN
    /\ todo \subseteq Objects /\ errs \in BOOLEAN

\* A site that has been created and validated, and nothing else.
Init ==
    /\ \E us \in SiteUrls :
         cr = [urls |-> us, initialized |-> FALSE, failed |-> FALSE]
    /\ cache = cr /\ drp = cr
    /\ synced = TRUE /\ fresh = TRUE /\ queued = TRUE
    /\ objs = {} /\ seen = {} /\ late = {} /\ todo = {}
    /\ errs = FALSE /\ pc = "idle"

-----------------------------------------------------------------------------
(* The beginning and the end of a call.                                    *)

Return == /\ pc' = "idle"
          /\ drp' = cache /\ fresh' = TRUE
          /\ todo' = {} /\ errs' = FALSE

\* The status that is written keeps the specification that is stored.
WriteStatus(new) ==
    /\ fresh
    /\ cr' = new
    /\ synced' = (synced /\ new = cr)
    /\ UNCHANGED cache

Fetch ==
    /\ pc = "idle" /\ queued
    /\ queued' = FALSE
    /\ drp' = cache
    /\ fresh' = synced
    /\ pc' = "conditions"
    /\ UNCHANGED <<site, world, todo, errs>>

ErrorsStay ==                 \* faulty: an error is not looked at again
    {[drp EXCEPT !.initialized = i] : i \in {drp.initialized, TRUE}}

\* Ready is what the Deployment says, without an error; Initialized is found to
\* be true some time after the creation and is then not looked at again.
Observed == {[drp EXCEPT !.failed = FALSE, !.initialized = i] :
                i \in {drp.initialized, TRUE}}

EvenBeforeInstallation == TRUE   \* faulty: Initialized is not looked at

Installed == drp.initialized

\* A change of them is written and ends the call, and so does a conflict.
CheckConditions ==
    /\ pc = "conditions"
    /\ \E new \in Observed :
         \/ /\ new # drp
            /\ \/ WriteStatus(new) /\ UNCHANGED queued
               \/ ~fresh /\ queued' = TRUE /\ UNCHANGED site
            /\ Return
         \/ /\ new = drp
            /\ pc' = IF Installed THEN "routes" ELSE "cleared"
            /\ todo' = drp.urls \X (IF Installed THEN {"route"}
                                                ELSE {"route", "http"})
            /\ UNCHANGED <<site, queued, drp, fresh, errs>>
    /\ UNCHANGED world

\* handleTransientErr writes the error into Ready and drops the outcome: the
\* error it returns is nil, and the site is not queued again.
FinishCall ==
    /\ pc \in {"cleared", "extraUris"} /\ todo = {}
    /\ \/ errs /\ WriteStatus([drp EXCEPT !.failed = TRUE])
       \/ ~(errs /\ fresh) /\ UNCHANGED site
    /\ Return
    /\ UNCHANGED <<world, queued>>

-----------------------------------------------------------------------------
(* The loops of ensureResources.  A failure is noted and ends its loop.    *)

Extra(kinds) == {o \in seen : Kind(o) \in kinds /\ Host(o) \notin drp.urls}

\* Each loop begins with a look at the cache as it then is.
EndLoop ==
    /\ todo = {}
    /\ \/ /\ pc = "routes" /\ pc' = "uris"
          /\ todo' = drp.urls \X {"http", "https"}
       \/ /\ pc = "uris" /\ pc' = "extraRoutes"
          /\ todo' = Extra({"route"})
       \/ /\ pc = "extraRoutes" /\ pc' = "extraUris"
          /\ todo' = Extra({"http", "https"})
    /\ UNCHANGED <<site, world, queued, drp, fresh, errs>>

NamedAfterHost(o) ==          \* faulty: one name for all that a host has
    objs' = objs \cup {Host(o)} /\ late' = late \cup {CacheOf(o)} /\ UNCHANGED seen

\* A creation or a deletion is an event for the cache.
Put(o) == objs' = objs \cup {o} /\ late' = late \cup {CacheOf(o)} /\ UNCHANGED seen

Drop(o) == objs' = objs \ {o} /\ late' = late \cup {CacheOf(o)} /\ UNCHANGED seen

Done(o) ==
    /\ todo' = todo \ {o}
    /\ UNCHANGED <<site, queued, pc, drp, fresh, errs>>

Keep(o) == Done(o) /\ UNCHANGED world

Fail(o) ==
    /\ todo' = IF pc = "cleared" THEN todo \ {o} ELSE {}
    /\ errs' = TRUE
    /\ UNCHANGED <<site, world, queued, pc, drp, fresh>>

\* The failure to create an OidcReturnURI is only logged.
FailToCreate(o) == IF pc = "uris" THEN Keep(o) ELSE Fail(o)

\* For each host the Route comes before the URIs, and http before https.
Turn(o) == /\ o \in todo
           /\ \A t \in todo :
                /\ Kind(t) = "route" /\ Kind(o) # "route" => Host(t) # Host(o)
                /\ Kind(t) = "http" /\ Kind(o) = "https" => Host(t) # Host(o)

\* CreateOrUpdate: an object in the cache is as it should be.  One that is not
\* there is created, and there already if the cache is late.
Create(o) ==
    /\ pc \in {"routes", "uris"} /\ Turn(o)
    /\ \/ o \in seen /\ Keep(o)
       \/ o \notin seen /\ o \in objs /\ FailToCreate(o)
       \/ o \notin seen /\ o \notin objs /\ Put(o) /\ Done(o)

CreateRefused(o) ==
    /\ Kind(o) \in Refusable
    /\ pc \in {"routes", "uris"} /\ Turn(o)
    /\ o \notin seen /\ o \notin objs
    /\ FailToCreate(o)

OnlyRoutes(o) == <<Host(o), "route">>   \* faulty: the wrong kind of object

\* ensureNoReturnURI knows a host and one name, that of the http URI.
Target(o) == IF Kind(o) = "https" THEN <<Host(o), "http">> ELSE o

Remove(o) ==
    /\ pc \in {"cleared", "extraRoutes", "extraUris"} /\ Turn(o)
    /\ \/ Target(o) \notin seen /\ Keep(o)
       \/ Target(o) \in seen /\ Target(o) \notin objs /\ Fail(o)
       \/ Target(o) \in seen /\ Target(o) \in objs /\ Drop(Target(o)) /\ Done(o)

RemoveRefused(o) ==
    /\ Kind(o) \in Refusable
    /\ pc \in {"cleared", "extraRoutes", "extraUris"} /\ Turn(o)
    /\ Target(o) \in seen /\ Target(o) \in objs
    /\ Fail(o)

Reconcile ==
    \/ Fetch \/ CheckConditions \/ FinishCall \/ EndLoop
    \/ \E o \in Objects : Create(o) \/ Remove(o)

-----------------------------------------------------------------------------
(* The environment.                                                        *)

InformerSync ==
    /\ ~synced
    /\ cache' = cr
    /\ synced' = TRUE
    /\ queued' = TRUE
    /\ drp' = IF pc = "idle" THEN cr ELSE drp
    /\ UNCHANGED <<cr, world, pc, fresh, todo, errs>>

\* The events of a cache reach it, all at once, and start a reconciliation if
\* they are about Routes, which the operator watches.
SeeObjects(c) ==
    /\ c \in late
    /\ late' = late \ {c}
    /\ seen' = {o \in objs : CacheOf(o) = c} \cup {o \in seen : CacheOf(o) # c}
    /\ queued' = (queued \/ c = "route")
    /\ UNCHANGED <<site, objs, call>>

\* Every ten hours.
Resync ==
    /\ queued' = TRUE
    /\ UNCHANGED <<site, world, call>>

EditUrls(us) ==
    /\ us # cr.urls
    /\ cr' = [cr EXCEPT !.urls = us]
    /\ synced' = FALSE
    /\ fresh' = FALSE
    /\ UNCHANGED <<cache, world, queued, pc, drp, todo, errs>>

SomebodyDeletes(o) ==
    /\ Kind(o) \in Deletable
    /\ o \in objs
    /\ Drop(o)
    /\ UNCHANGED <<site, queued, call>>

Meddling ==
    \E o \in Objects : CreateRefused(o) \/ RemoveRefused(o) \/ SomebodyDeletes(o)

Next ==
    \/ Reconcile \/ Meddling
    \/ InformerSync \/ Resync
    \/ \E c \in Caches : SeeObjects(c)
    \/ \E us \in SiteUrls : EditUrls(us)

Spec == Init /\ [][Next]_vars

\* The workers do not stop, events are delivered and the resynchronisation
\* comes round.
FairSpec ==
    /\ Spec
    /\ WF_vars(Reconcile)
    /\ WF_vars(InformerSync)
    /\ WF_vars(Resync)
    /\ \A c \in Caches : WF_vars(SeeObjects(c))

-----------------------------------------------------------------------------
(* What holds.                                                             *)

Routed(h) == <<h, "route">> \in objs

\* When no call runs and none is due, the Routes of an initialized site are
\* those of its URLs: the change of an URL, a failure or somebody's deletion
\* has always left something in the queue or on its way to it, although the
\* error of a failed write is lost and its outcome is not looked at.
RestMeansRouted ==
    pc = "idle" /\ ~queued /\ synced /\ "route" \notin late /\ cr.initialized =>
        \A h \in Hosts : Routed(h) <=> h \in cr.urls

\* A site is not reachable before its installation is recorded in its status,
\* whatever a late cache says.
RoutesAfterInstallation == objs # {} => cr.initialized

RequestsSettle == <>[][FALSE]_(cr.urls) /\ <>[][~Meddling]_vars

\* Once the URLs settle and nobody meddles, the Routes and the http return URIs
\* come to be those of the URLs, and every URL has its https one.  The https
\* URI of a host that is not asked for any more is never deleted.
IngressFollows ==
    RequestsSettle /\ <>[]cr.initialized =>
        <>[](/\ {o \in objs : Kind(o) # "https"} = cr.urls \X {"route", "http"}
             /\ cr.urls \X {"https"} \subseteq objs)
=============================================================================
