------------------------- MODULE SupportedVersions --------------------------
(***************************************************************************)
(* The second controller of the operator: it polls the container registry  *)
(* for the tags of the site builder image and lists, in the status of the  *)
(* SupportedDrupalVersions object, the latest release of every version     *)
(* that is not on the blacklist of that object                             *)
(* (SupportedDrupalVersionsReconciler).                                    *)
(*                                                                         *)
(* One worker serves the requests.  It reads the objects from a cache that *)
(* lags behind, and its write is refused when the object has been written  *)
(* since.  A version's releases are the times in their tags.               *)
(***************************************************************************)
EXTENDS Integers, FiniteSets, FiniteSetsExt, SequencesExt

CONSTANTS
    Versions,   \* version names, "v9.3-1"
    Tags,       \* the tags that the registry may hold
    Blacklists, \* the blacklists that an administrator may set
    Objects,    \* names of SupportedDrupalVersions objects
    Main,       \* "supported-drupal-versions"
    NoVersion,  \* a tag that is not of the form v...-RELEASE...
    NoObject,   \* "there is no such object"
    Faults      \* the faults that may happen

\* A time that time.Parse refuses: the error is ignored, the time is zero.
Unparsable == 0

\* A tag that ends in RELEASE: there is no time to take out of it.
Bare == -1

Times == ({t.time : t \in Tags} \cup {Unparsable}) \ {Bare}

ASSUME TagsAssumption ==
    Tags \subseteq [version : Versions \cup {NoVersion}, time : Int]

ASSUME BlacklistsAssumption == Blacklists \subseteq SUBSET Versions

ASSUME FiniteAssumption == IsFiniteSet(Versions) /\ IsFiniteSet(Tags)

ASSUME VersionsFaultsAssumption ==
    Faults \subseteq {"registry",  \* the registry does not answer
                      "api",       \* a write fails
                      "lost",      \* a write goes through, its answer is lost
                      "crash"}     \* the operator restarts

DrupalVersion == [name : Versions, latest : Times]

\* The parts of a SupportedDrupalVersions: spec.blacklist, status.versions.
Object == [blacklist : SUBSET Versions, status : Seq(DrupalVersion)]

ASSUME NoObjectAssumption == NoObject \notin Object

Entries(status) == {status[i] : i \in DOMAIN status}

VARIABLES
    tags,     \* the tags in the registry
    objs,     \* the objects in the API server
    seen,     \* the same in the informer cache
    pending,  \* objects with an event on its way to the cache
    queue,    \* requests in the work queue
    timers,   \* requests that come back in an hour (RequeueAfter)
    pc,       \* next step of the running call
    req,      \* its request
    chosen,   \* the object it works on
    copy,     \* its copy of that object
    fresh     \* that object has not been written since

environment == <<tags, objs, seen, pending>>
call == <<pc, req, chosen, copy, fresh>>
vars == <<environment, queue, timers, call>>

TypeOK ==
    /\ tags \subseteq Tags
    /\ objs \in [Objects -> Object \cup {NoObject}]
    /\ seen \in [Objects -> Object \cup {NoObject}]
    /\ pending \subseteq Objects
    /\ queue \subseteq Objects
    /\ timers \subseteq Objects
    /\ pc \in {"idle", "tags", "update", "again"}
    /\ req \in Objects
    /\ chosen \in Objects
    /\ copy \in Object
    /\ fresh \in BOOLEAN

NewObject == [blacklist |-> {}, status |-> <<>>]

Init ==
    /\ tags = {}
    /\ objs = [o \in Objects |-> NoObject]
    /\ seen = objs
    /\ pending = {} /\ queue = {} /\ timers = {}
    /\ pc = "idle"
    /\ req \in Objects
    /\ chosen = req
    /\ copy = NewObject
    /\ fresh = FALSE

Exist(os) == {o \in Objects : os[o] # NoObject}

-----------------------------------------------------------------------------
(* What a call computes from the tags.                                     *)

\* The releases of each version that has any.
parseRegistryTags(ts) ==
    [v \in {t.version : t \in ts} \ {NoVersion} |->
        {t.time : t \in {u \in ts : u.version = v}}]

EarliestRelease(versions) ==   \* faulty: sorted the other way round
    [v \in DOMAIN versions |-> Min(versions[v])]

\* The first of the releases, the most recent one first.
getLatestRelease(versions) == [v \in DOMAIN versions |-> Max(versions[v])]

Latest == getLatestRelease(parseRegistryTags(tags))

Entry(latest, v) == [name |-> v, latest |-> latest[v]]

NamesAndReleasesEqual(status, latest) ==   \* faulty: the lengths may differ
    \A v \in DOMAIN latest : \E i \in DOMAIN status : status[i] = Entry(latest, v)

drupalVersionsEqual(status, latest) ==
    /\ Len(status) = Cardinality(DOMAIN latest)
    /\ \A v \in DOMAIN latest :
         /\ \E i \in DOMAIN status : status[i].name = v
         /\ \A i \in DOMAIN status :
              status[i].name = v => status[i].latest = latest[v]

\* Every order in which the map of the latest releases may be gone through.
updateVersions(object, latest) ==
    {[object EXCEPT !.status = s] : s \in
        SetToSeqs({Entry(latest, v) : v \in DOMAIN latest \ object.blacklist})}

NoPanic == FALSE               \* faulty: the tag itself is taken for a time

\* A regular expression has no match, and its first group is taken from it.
LatestReleasePanics == \E t \in tags : t.version # NoVersion /\ t.time = Bare

-----------------------------------------------------------------------------
(* Reconcile.                                                              *)

\* What the call had in its variables is gone.
Return ==
    /\ pc' = "idle"
    /\ copy' = NewObject
    /\ fresh' = FALSE
    /\ UNCHANGED <<req, chosen>>

RequeueAfterHour ==
    /\ Return
    /\ timers' = timers \cup {req}
    /\ UNCHANGED queue

Requeue ==
    /\ Return
    /\ queue' = queue \cup {req}
    /\ UNCHANGED timers

\* The object that has the expected name, if there are several.  Without any
\* the call ends with an error and the request is back in the queue: nothing
\* has changed.
Fetch(o) ==
    /\ pc = "idle"
    /\ o \in queue
    /\ queue' = queue \ {o}
    /\ req' = o
    /\ chosen' \in Exist(seen)
    /\ Main \in Exist(seen) => chosen' = Main
    /\ copy' = seen[chosen']
    /\ fresh' = (chosen' \notin pending)
    /\ pc' = "tags"
    /\ UNCHANGED <<environment, timers>>

UpToDateIfBlacklisted ==       \* faulty: the condition is inverted
    /\ drupalVersionsEqual(copy.status, Latest)
    /\ copy.blacklist # {}

UpToDate == /\ drupalVersionsEqual(copy.status, Latest)
            /\ copy.blacklist = {}

KeepVersionsForGood ==         \* faulty: RequeueAfter is forgotten
    /\ pc = "tags"
    /\ ~LatestReleasePanics
    /\ UpToDate
    /\ Return
    /\ UNCHANGED <<environment, queue, timers>>

KeepVersions ==
    /\ pc = "tags"
    /\ ~LatestReleasePanics
    /\ UpToDate
    /\ RequeueAfterHour
    /\ UNCHANGED environment

ChangeVersions ==
    /\ pc = "tags"
    /\ ~LatestReleasePanics
    /\ ~UpToDate
    /\ copy' \in updateVersions(copy, Latest)
    /\ pc' = "update"
    /\ UNCHANGED <<environment, queue, timers, req, chosen, fresh>>

RegistryFails ==
    /\ "registry" \in Faults
    /\ pc = "tags"
    /\ Requeue
    /\ UNCHANGED environment

WriteAnyway ==                 \* faulty: the resourceVersion is not compared
    /\ objs[chosen] # NoObject
    /\ objs' = [objs EXCEPT ![chosen].status = copy.status]
    /\ pending' = pending \cup {chosen}
    /\ UNCHANGED <<tags, seen>>

\* A write that changes nothing makes no event.
Write ==
    /\ fresh
    /\ objs' = [objs EXCEPT ![chosen] = copy]
    /\ pending' = IF objs' = objs THEN pending ELSE pending \cup {chosen}
    /\ UNCHANGED <<tags, seen>>

\* Both attempts write the same copy: a conflict is met twice.
UpdateStatus ==
    /\ pc \in {"update", "again"}
    /\ Write
    /\ RequeueAfterHour

\* After a second failure, a conflict or not, the request is queued again.
TryAgain(stillFresh) ==
    \/ /\ pc = "update"
       /\ pc' = "again"
       /\ fresh' = stillFresh
       /\ UNCHANGED <<queue, timers, req, chosen, copy>>
    \/ pc = "again" /\ Requeue

UpdateStatusFails ==
    /\ ~fresh \/ "api" \in Faults
    /\ TryAgain(fresh)
    /\ UNCHANGED environment

UpdateStatusAnswerLost ==
    /\ "lost" \in Faults
    /\ Write
    /\ TryAgain(objs' = objs)

\* The process ends with all it has in memory, and a new one lists the
\* objects that exist.
ProcessStarts ==
    /\ seen' = objs
    /\ queue' = Exist(objs)
    /\ pending' = {}
    /\ timers' = {}
    /\ Return
    /\ UNCHANGED <<tags, objs>>

Panic == pc = "tags" /\ LatestReleasePanics /\ ProcessStarts

Restart == "crash" \in Faults /\ ProcessStarts

Reconcile ==
    \/ \E o \in Objects : Fetch(o)
    \/ KeepVersions \/ ChangeVersions
    \/ UpdateStatus \/ UpdateStatusFails

-----------------------------------------------------------------------------
(* The environment.                                                        *)

InformerSync(o) ==
    /\ o \in pending
    /\ seen' = [seen EXCEPT ![o] = objs[o]]
    /\ pending' = pending \ {o}
    /\ queue' = queue \cup {o}
    /\ UNCHANGED <<tags, objs, timers, call>>

HourPasses(o) ==
    /\ o \in timers
    /\ timers' = timers \ {o}
    /\ queue' = queue \cup {o}
    /\ UNCHANGED <<environment, call>>

PushOrRemoveTag(t) ==
    /\ tags' = IF t \in tags THEN tags \ {t} ELSE tags \cup {t}
    /\ UNCHANGED <<objs, seen, pending, queue, timers, call>>

\* The administrator creates, edits or deletes an object.
WriteObject(o, object) ==
    /\ object # objs[o]
    /\ objs' = [objs EXCEPT ![o] = object]
    /\ pending' = pending \cup {o}
    /\ fresh' = (fresh /\ chosen # o)
    /\ UNCHANGED <<tags, seen, queue, timers, pc, req, chosen, copy>>

Create(o) == objs[o] = NoObject /\ WriteObject(o, NewObject)

Delete(o) == objs[o] # NoObject /\ WriteObject(o, NoObject)

EditBlacklist(o, blacklist) ==
    /\ objs[o] # NoObject
    /\ WriteObject(o, [objs[o] EXCEPT !.blacklist = blacklist])

Next ==
    \/ Reconcile
    \/ RegistryFails \/ UpdateStatusAnswerLost \/ Panic \/ Restart
    \/ \E o \in Objects :
         \/ InformerSync(o) \/ HourPasses(o)
         \/ Create(o) \/ Delete(o)
         \/ \E blacklist \in Blacklists : EditBlacklist(o, blacklist)
    \/ \E t \in Tags : PushOrRemoveTag(t)

Spec == Init /\ [][Next]_vars

\* A fault does not hit every attempt: a step that is possible again and again
\* is taken.  Requests are served in turn, events are delivered, hours pass.
FairSpec ==
    /\ Spec
    /\ \A o \in Objects : SF_vars(Fetch(o)) /\ WF_vars(InformerSync(o))
                          /\ WF_vars(HourPasses(o))
    /\ SF_vars(KeepVersions) /\ SF_vars(ChangeVersions)
    /\ SF_vars(UpdateStatus) /\ WF_vars(UpdateStatusFails)

-----------------------------------------------------------------------------
(* What holds.                                                             *)

\* Every object that exists has a request that is served now, is queued, is
\* about to be queued or comes back within the hour: the registry is polled
\* for ever, whatever fails (every return of Reconcile).
PollGoesOn ==
    \A o \in Exist(objs) :
        o \in pending \cup queue \cup timers \cup (IF pc = "idle" THEN {} ELSE {req})

\* The latest releases of the versions that are not on a blacklist, as they can
\* be read off the registry.
Wanted(blacklist) ==
    {[name |-> t.version, latest |-> t.time] : t \in
        {u \in tags : /\ u.version \notin blacklist \cup {NoVersion}
                      /\ \A w \in tags : w.version = u.version => w.time <= u.time}}

\* drupalVersionsEqual, which compares lengths, names and releases one by one,
\* says that the status is the set of the latest releases, for every status
\* that the controller has come to write.
ComparisonIsExact ==
    ~LatestReleasePanics =>
        \A o \in Exist(objs) :
            drupalVersionsEqual(objs[o].status, Latest) <=>
                Entries(objs[o].status) = Wanted({})

\* A version is never written into the status of an object that has it on its
\* blacklist at that moment, although the status was computed from an older
\* copy of the object.
BlacklistIsRespected ==
    [][\A o \in Exist(objs) :
         o \in Exist(objs') /\ objs'[o].status # objs[o].status =>
             \A e \in Entries(objs'[o].status) : e.name \notin objs[o].blacklist]_objs

Asked == [o \in Objects |->
             IF objs[o] = NoObject THEN NoObject ELSE objs[o].blacklist]

RequestsSettle == <>[][FALSE]_<<tags, Asked>>

\* The object that the controller works on, for a registry it can parse.
Served(o) ==
    /\ o \in Exist(objs)
    /\ o = Main \/ Exist(objs) = {o}
    /\ ~LatestReleasePanics

\* Once registry and objects settle, the status comes to list the latest
\* release of every version that is not on the blacklist, and nothing else.
StatusFollowsRegistry ==
    \A o \in Objects :
        RequestsSettle /\ <>[]Served(o)
            => <>[](/\ Served(o)
                    /\ Entries(objs[o].status) = Wanted(objs[o].blacklist))

\* Without a blacklist the controller then stops writing.  With one it writes
\* the status in every call, in the order in which a map happens to be gone
\* through, and every write that changes the order starts the next call.
WritesCease ==
    \A o \in Objects :
        RequestsSettle /\ <>[](Served(o) /\ objs[o].blacklist = {})
            => <>[][FALSE]_objs
=============================================================================
