---------------------------- MODULE PrimarySite -----------------------------
(***************************************************************************)
(* The primary site of a project: its DrupalProjectConfig names one of its *)
(* DrupalSites, and every site says in its status whether it is that one   *)
(* (checkIfPrimaryDrupalsite).  A site that finds itself alone puts its    *)
(* name there (proclaimPrimarySiteIfExists), a site that is deleted takes  *)
(* it away (cleanupDrupalSite).                                            *)
(*                                                                         *)
(* Several sites are reconciled at the same time; each call works on what  *)
(* the informer caches held when it began, and its writes are refused when *)
(* the object has been written since that copy was made.                   *)
(***************************************************************************)
EXTENDS Naturals, FiniteSets

CONSTANTS
    Sites,                \* the names of sites in the project
    Empty,                \* the empty string
    Absent,               \* "there is no DrupalProjectConfig"
    NoSite,               \* "there is no such DrupalSite"
    ParallelThreadCount,  \* reconciliations at a time
    Faults                \* the faults that may happen

ASSUME SitesAssumption ==
    /\ IsFiniteSet(Sites)
    /\ Empty \notin Sites /\ Absent \notin Sites /\ Empty # Absent

ASSUME ThreadsAssumption == ParallelThreadCount \in Nat \ {0}

ASSUME FaultsAssumption == 
    Faults \subseteq {"api",    \* a write fails
                      "list",   \* so does a read of the DrupalProjectConfig
                      "crash"}  \* the operator restarts

\* The parts of a DrupalSite that count here; primary is status.isPrimary.
DrupalSite == [finalizer : BOOLEAN, deleting : BOOLEAN, primary : BOOLEAN]

ASSUME NoSiteAssumption == NoSite \notin DrupalSite

PrimaryNames == Sites \cup {Empty}

NewSite == [finalizer |-> FALSE, deleting |-> FALSE, primary |-> FALSE]

Steps == {"idle", "cleanup", "unfinalize", "start", "proclaim", "rest"}

Calls == [step     : Steps,
          drp      : DrupalSite,
          fresh    : BOOLEAN,   \* the site has not been written since
          dpc      : PrimaryNames \cup {Absent},
          dpcFresh : BOOLEAN,   \* nor the DrupalProjectConfig
          err      : BOOLEAN,   \* reading the DrupalProjectConfig failed
          requeue  : BOOLEAN]

Idle == [step |-> "idle", drp |-> NewSite, fresh |-> FALSE,
         dpc |-> Absent, dpcFresh |-> FALSE, err |-> FALSE, requeue |-> FALSE]

VARIABLES
    site,        \* the DrupalSites in the API server
    siteCache,   \* the same in the informer cache
    siteSynced,  \* the sites no write of which is on its way to the cache
    dpc,         \* spec.primarySiteName of the DrupalProjectConfig, or Absent
    dpcCache,
    dpcSynced,
    queued,      \* the sites in the work queue
    call         \* the running reconciliation of each site

siteVars == <<site, siteCache, siteSynced>>
dpcVars == <<dpc, dpcCache, dpcSynced>>
vars == <<siteVars, dpcVars, queued, call>>

TypeOK ==
    /\ site \in [Sites -> DrupalSite \cup {NoSite}]
    /\ siteCache \in [Sites -> DrupalSite \cup {NoSite}]
    /\ siteSynced \subseteq Sites
    /\ dpc \in PrimaryNames \cup {Absent}
    /\ dpcCache \in PrimaryNames \cup {Absent}
    /\ dpcSynced \in BOOLEAN
    /\ queued \subseteq Sites
    /\ call \in [Sites -> Calls]

Init ==
    /\ site = [s \in Sites |-> NoSite]
    /\ siteCache = site
    /\ siteSynced = Sites
    /\ dpc = Absent /\ dpcCache = Absent /\ dpcSynced = TRUE
    /\ queued = {}
    /\ call = [s \in Sites |-> Idle]

-----------------------------------------------------------------------------
(* Writes.  A write of the DrupalProjectConfig makes the copies of all the *)
(* running calls stale, one of a site the copy of its own call.            *)

Stale(calls) == [t \in Sites |-> [calls[t] EXCEPT !.dpcFresh = FALSE]]

Written(s, object) ==
    /\ site' = [site EXCEPT ![s] = object]
    /\ siteSynced' = IF object = site[s] THEN siteSynced ELSE siteSynced \ {s}
    /\ UNCHANGED siteCache

ConfigWritten(name) ==
    /\ dpc' = name
    /\ dpcSynced' = FALSE
    /\ UNCHANGED dpcCache

ConfigAcceptedBlindly(s) == TRUE  \* faulty: last writer wins

ConfigAccepted(s) == call[s].dpcFresh

ConfigRefused(s) == ~call[s].dpcFresh \/ "api" \in Faults

ReturnPrimary(s, requeue) ==   \* faulty: the primary site is tried again
    /\ call' = [call EXCEPT ![s] = Idle]
    /\ queued' = IF requeue THEN queued \cup {call[s].dpc} ELSE queued

Return(s, requeue) ==
    /\ call' = [call EXCEPT ![s] = Idle]
    /\ queued' = IF requeue THEN queued \cup {s} ELSE queued

WriteBlindlyAndReturn(s, object) ==  \* faulty: last writer wins
    Written(s, object) /\ Return(s, FALSE)

\* updateCRorFailReconcile and updateCRStatusOrFailReconcile
WriteAndReturn(s, object) ==
    \/ /\ call[s].fresh
       /\ Written(s, object)
       /\ Return(s, FALSE)
    \/ /\ ~call[s].fresh \/ "api" \in Faults
       /\ Return(s, TRUE)
       /\ UNCHANGED siteVars

\* A new process lists everything and reconciles every site.
ProcessStarts ==
    /\ call' = [s \in Sites |-> Idle]
    /\ siteCache' = site /\ siteSynced' = Sites
    /\ dpcCache' = dpc /\ dpcSynced' = TRUE
    /\ queued' = {s \in Sites : site[s] # NoSite}
    /\ UNCHANGED <<site, dpc>>

-----------------------------------------------------------------------------
(* The reconciliation of site s.                                           *)

Running == {s \in Sites : call[s] # Idle}

Fetch(s) ==
    /\ s \in queued
    /\ call[s] = Idle
    /\ Cardinality(Running) < ParallelThreadCount
    /\ queued' = queued \ {s}
    /\ \/ siteCache[s] = NoSite /\ UNCHANGED call
       \/ /\ siteCache[s] # NoSite
          /\ \E err \in IF "list" \in Faults THEN BOOLEAN ELSE {FALSE} :
               call' = [call EXCEPT ![s] =
                 [step |-> IF siteCache[s].deleting THEN "cleanup" ELSE "start",
                  drp |-> siteCache[s], fresh |-> s \in siteSynced,
                  dpc |-> IF err THEN Absent ELSE dpcCache, dpcFresh |-> dpcSynced,
                  err |-> err, requeue |-> FALSE]]
    /\ UNCHANGED <<siteVars, dpcVars>>

\* cleanupDrupalSite, its first half: a site that is the primary one according
\* to the copy takes its name away.
CleanupConfig(s) ==
    /\ call[s].step = "cleanup"
    /\ \/ /\ call[s].dpc # s
          /\ call' = [call EXCEPT ![s].step = "unfinalize"]
          /\ UNCHANGED <<dpcVars, queued>>
       \/ /\ call[s].dpc = s
          /\ ConfigAccepted(s)
          /\ ConfigWritten(Empty)
          /\ call' = Stale([call EXCEPT ![s].step = "unfinalize"])
          /\ UNCHANGED queued
       \/ /\ call[s].dpc = s
          /\ ConfigRefused(s)
          /\ Return(s, TRUE)
          /\ UNCHANGED dpcVars
    /\ UNCHANGED siteVars

\* The second half: without its finalizer the site is gone.
RemoveFinalizer(s) ==
    /\ call[s].step = "unfinalize"
    /\ WriteAndReturn(s, NoSite)
    /\ UNCHANGED dpcVars

AddFinalizer(s) ==
    /\ call[s].step = "start"
    /\ ~call[s].drp.finalizer
    /\ WriteAndReturn(s, [call[s].drp EXCEPT !.finalizer = TRUE])
    /\ UNCHANGED dpcVars

IsPrimaryOnce(s) == call[s].drp.primary \/ call[s].dpc = s  \* faulty: never reset

IsPrimary(s) == call[s].dpc = s

CheckIfPrimary(s) ==
    /\ call[s].step = "start"
    /\ call[s].drp.finalizer
    /\ IF call[s].dpc # Absent /\ call[s].drp.primary # IsPrimary(s)
       THEN WriteAndReturn(s, [call[s].drp EXCEPT !.primary = IsPrimary(s)])
       ELSE /\ call' = [call EXCEPT ![s].step = "proclaim"]
            /\ UNCHANGED <<siteVars, queued>>
    /\ UNCHANGED dpcVars

ListedSites == {t \in Sites : siteCache[t] # NoSite}

ProclaimsEarly(s) ==           \* faulty: the site itself is not counted
    call[s].dpc = Empty /\ Cardinality(ListedSites) < 1

Proclaims(s) == call[s].dpc = Empty /\ Cardinality(ListedSites) <= 1

\* proclaimPrimarySiteIfExists; the copy of the site says that it is primary
\* from here on, also when the write of the configuration fails.
Proclaim(s) ==
    /\ call[s].step = "proclaim"
    /\ ~call[s].err
    /\ \/ /\ ~Proclaims(s)
          /\ call' = [call EXCEPT ![s].step = "rest"]
          /\ UNCHANGED dpcVars
       \/ /\ Proclaims(s)
          /\ ConfigAccepted(s)
          /\ ConfigWritten(s)
          /\ call' = Stale([call EXCEPT ![s].step = "rest", ![s].drp.primary = TRUE])
       \/ /\ Proclaims(s)
          /\ ConfigRefused(s)
          /\ call' = [call EXCEPT ![s].step = "rest", ![s].drp.primary = TRUE,
                                  ![s].requeue = TRUE]
          /\ UNCHANGED dpcVars
    /\ UNCHANGED <<siteVars, queued>>

\* The error of the first read is taken for one of proclaimPrimarySiteIfExists,
\* whose own error, nil, is dereferenced: the process ends, and is started anew.
Panic(s) ==
    /\ call[s].step = "proclaim"
    /\ call[s].err
    /\ ProcessStarts

\* The rest of Reconcile ends with a write of the status, or at its end.
FinishCall(s) ==
    /\ call[s].step = "rest"
    /\ \/ WriteAndReturn(s, call[s].drp)
       \/ Return(s, call[s].requeue) /\ UNCHANGED siteVars
    /\ UNCHANGED dpcVars

Reconcile(s) ==
    \/ Fetch(s) \/ CleanupConfig(s) \/ RemoveFinalizer(s) \/ AddFinalizer(s)
    \/ CheckIfPrimary(s) \/ Proclaim(s) \/ Panic(s) \/ FinishCall(s)

-----------------------------------------------------------------------------
(* The environment.                                                        *)

\* A watch delivers a site, and puts it in the queue.
SiteDelivered(s) ==
    /\ s \notin siteSynced
    /\ siteCache' = [siteCache EXCEPT ![s] = site[s]]
    /\ siteSynced' = siteSynced \cup {s}
    /\ queued' = queued \cup {s}
    /\ UNCHANGED <<site, dpcVars, call>>

\* A watch delivers the DrupalProjectConfig, and puts every site of the project
\* that the cache lists in the queue (fetchDrupalSitesInNamespace).
ConfigDelivered ==
    /\ ~dpcSynced
    /\ dpcCache' = dpc
    /\ dpcSynced' = TRUE
    /\ queued' = queued \cup ListedSites
    /\ UNCHANGED <<siteVars, dpc, call>>

Resync(s) ==
    /\ siteCache[s] # NoSite
    /\ s \notin queued
    /\ queued' = queued \cup {s}
    /\ UNCHANGED <<siteVars, dpcVars, call>>

Restart == "crash" \in Faults /\ ProcessStarts

EditSite(s, object) ==
    /\ Written(s, object)
    /\ call' = [call EXCEPT ![s].fresh = FALSE]
    /\ UNCHANGED <<dpcVars, queued>>

SiteCreated(s) == site[s] = NoSite /\ EditSite(s, NewSite)

SiteDeleted(s) ==
    /\ site[s] # NoSite
    /\ ~site[s].deleting
    /\ EditSite(s, IF site[s].finalizer
                   THEN [site[s] EXCEPT !.deleting = TRUE] ELSE NoSite)

\* Sites that are up: an administrator names no other.
Settled == {s \in Sites : site[s] # NoSite /\ site[s].finalizer /\ ~site[s].deleting}

EditConfig(name) ==
    /\ dpc # name
    /\ ConfigWritten(name)
    /\ call' = Stale(call)
    /\ UNCHANGED <<siteVars, queued>>

ConfigCreated == dpc = Absent /\ EditConfig(Empty)

PrimaryChosen(name) ==
    /\ dpc # Absent
    /\ name \in Settled \cup {Empty}
    /\ EditConfig(name)

Administrator ==
    \/ \E s \in Sites : SiteCreated(s) \/ SiteDeleted(s)
    \/ ConfigCreated
    \/ \E name \in PrimaryNames : PrimaryChosen(name)

Next ==
    \/ \E s \in Sites : Reconcile(s) \/ SiteDelivered(s) \/ Resync(s)
    \/ ConfigDelivered
    \/ Restart
    \/ Administrator

Spec == Init /\ [][Next]_vars

\* Workers take sites from the queue and go on, watches deliver, every site is
\* resynchronised now and then.
FairSpec ==
    /\ Spec
    /\ \A s \in Sites : WF_vars(Reconcile(s)) /\ WF_vars(SiteDelivered(s))
                        /\ WF_vars(Resync(s))
    /\ WF_vars(ConfigDelivered)

-----------------------------------------------------------------------------
(* What holds.                                                             *)

\* Sites are cleaned up only on their way out: a call that removes the name
\* and the finalizer never belongs to a site that is up, also when its name is
\* used again by a new site (Reconcile, lines 231-236).
CleanupIsDue ==
    \A s \in Sites :
        call[s].step \in {"cleanup", "unfinalize"} => s \notin Settled

AtRest ==
    /\ queued = {} /\ Running = {}
    /\ siteSynced = Sites /\ dpcSynced

\* At rest every site says truthfully whether it is the primary one, so that
\* never two sites say so (checkIfPrimaryDrupalsite and the watch of the
\* DrupalProjectConfig).
RestMeansStatusTrue ==
    AtRest /\ dpc # Absent =>
        \A s \in Settled : site[s].primary <=> dpc = s

\* The operator fills in the name only where there is none, and takes away
\* only the name of a site that is being deleted, or that was: the choice of
\* an administrator is never overwritten, however stale the caches are
\* (updateDrupalProjectConfigCR and its conflict).
ChoiceIsKept ==
    [][dpc' # dpc /\ dpc \in Sites =>
         \/ Administrator
         \/ dpc' = Empty /\ dpc \notin Settled]_vars

\* A site that stays alone in a project without a primary site becomes the
\* primary one (the periodic resynchronisation, when no event does it).
SoleSiteBecomesPrimary ==
    \A s \in Sites :
        <>[](dpc \in {Empty, s} /\ s \in Settled /\ \A t \in Sites \ {s} : site[t] = NoSite)
            => []<>(dpc = s)
=============================================================================
