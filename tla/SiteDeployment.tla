--------------------------- MODULE SiteDeployment ---------------------------
(***************************************************************************)
(* What the server Deployment of a site is made of.  The operator creates  *)
(* four config maps from its own files and leaves their content alone; it  *)
(* creates the Deployment that mounts them and enforces the resources of   *)
(* its containers (ensureResources, deploymentForDrupalSite); and it rolls *)
(* the pods out when the content of a map changes, by an annotation with a *)
(* hash of it (ensureDeploymentConfigmapHash).                             *)
(*                                                                         *)
(* The site keeps its release and its database is there: no update holds   *)
(* the Deployment (SiteUpdate, SiteBlocking).  What the template gets from *)
(* the name of the site alone is left out, and so are probes, commands and *)
(* spread constraints, which go with the resources.                        *)
(***************************************************************************)
EXTENDS FiniteSets, SequencesExt

CONSTANTS
    Files,    \* Files[m]: what the operator puts into map m, a set of keys
              \* with their values
    Edits,    \* Edits[m]: what somebody may put into map m
    Custom,   \* resources that are not the operator's
    Unset,    \* an override says nothing of a container
    Requests, \* what may be asked for, see Wish
    NoMap,    \* "there is no such map"
    NoHash,   \* "there is no such annotation"
    NoDeploy, \* "there is no Deployment"
    Faults    \* the faults that may happen

Containers == {"nginx", "php-fpm", "php-fpm-exporter", "webdav", "cron", "drupal-logs"}

Maps == {"php-fpm", "nginx", "settings", "php-cli"}

QoSClasses == {"critical", "test", "standard"}

\* spec.qosClass and the DrupalSiteConfigOverride, which says nothing of any
\* container if there is none.
Wish == [qos : QoSClasses, override : [Containers -> Custom \cup {Unset}]]

Data == UNION {{Files[m]} \cup Edits[m] : m \in Maps}

ASSUME DeploymentAssumption ==
    /\ \A data \in Data : IsFiniteSet(data)
    /\ Requests \subseteq Wish /\ Requests # {}
    /\ Unset \notin Custom
    /\ NoMap \notin Data
    /\ Faults \subseteq {"files",   \* a map cannot be read from its file or created
                         "delete"}  \* somebody deletes a map or the Deployment

-----------------------------------------------------------------------------
(* The templates.                                                          *)

reqLimDict(c, qos) ==
    <<c, IF c \in {"nginx", "php-fpm"} THEN qos ELSE "standard">>

Requirements == Custom \cup {reqLimDict(c, qos) : c \in Containers, qos \in QoSClasses}

WholeOverride(wish) == wish.override   \* faulty: it is not merged

Resources(wish) ==
    [c \in Containers |-> IF wish.override[c] # Unset THEN wish.override[c]
                          ELSE reqLimDict(c, wish.qos)]

\* The content of a map as one text, in the order in which the map happens to
\* be gone through.  The hash of a text stands for the text.
createKeyValuePairs(data) == SetToSeqs(data)

Hashes == UNION {createKeyValuePairs(data) : data \in Data \cup {{}}}

Deployment == [resources : [Containers -> Requirements],
               priority  : BOOLEAN,                  \* of a critical site
               debug     : BOOLEAN,                  \* annotation "debug"
               hash      : [Maps -> Hashes \cup {NoHash}]]

OnlyOnCreation(deploy, wish) == deploy   \* faulty: nothing is enforced

AnnotationsAnew(deploy, wish) ==       \* faulty: the creation of annotations
    [deploy EXCEPT !.resources = Resources(wish),   \* is enforced as well
                   !.hash = [m \in Maps |-> NoHash]]

\* The priority is raised with the quality of service and never lowered.
Enforced(deploy, wish) ==
    IF deploy.debug THEN deploy
    ELSE [deploy EXCEPT !.resources = Resources(wish),
                        !.priority = @ \/ wish.qos = "critical"]

deploymentForDrupalSite(wish) ==
    Enforced([resources |-> Resources(wish), priority |-> FALSE, debug |-> FALSE,
              hash |-> [m \in Maps |-> NoHash]], wish)

ReadCorrected(data, m) ==      \* faulty: settings is right, php-cli forgotten
    IF m = "php-cli" THEN {} ELSE data[m]

\* getDeployConfigmap reads the map of php-cli into the variable of settings,
\* and leaves that of php-cli empty.
Read(data, m) ==
    CASE m = "php-cli"  -> {}
      [] m = "settings" -> data["php-cli"]
      [] OTHER          -> data[m]

Annotations(php, nginx, settings, cli) ==
    [m \in Maps |-> CASE m = "php-fpm"  -> php
                      [] m = "nginx"    -> nginx
                      [] m = "settings" -> settings
                      [] m = "php-cli"  -> cli]

Annotated(deploy, data) ==
    {[deploy EXCEPT !.hash = Annotations(php, nginx, settings, cli)] :
        php \in createKeyValuePairs(Read(data, "php-fpm")),
        nginx \in createKeyValuePairs(Read(data, "nginx")),
        settings \in createKeyValuePairs(Read(data, "settings")),
        cli \in createKeyValuePairs(Read(data, "php-cli"))}

-----------------------------------------------------------------------------

ASSUME NoDeployAssumption == NoDeploy \notin Deployment

VARIABLES
    wish,       \* what is asked for, in the API server
    seenWish,   \* the same in the informer caches
    wishLate,   \* it has events on their way to them
    maps,       \* the config maps in the API server
    seenMaps,   \* the same in the informer cache
    mapsLate,   \* they have events on their way to it
    deploy,     \* the Deployment in the API server
    deployLate, \* it has events on their way to the informer cache
    queued,     \* the site is in the work queue
    pc,         \* next step of the running call
    copy,       \* its copy of what is asked for
    data,       \* its copy of the config maps
    errs        \* one of the resources failed

asked == <<wish, seenWish, wishLate>>
configMaps == <<maps, seenMaps, mapsLate>>
deployment == <<deploy, deployLate>>
call == <<pc, copy, data, errs>>
vars == <<asked, configMaps, deployment, queued, call>>

TypeOK ==
    /\ wish \in Wish /\ seenWish \in Wish /\ wishLate \in BOOLEAN
    /\ maps \in [Maps -> Data \cup {NoMap}]
    /\ seenMaps \in [Maps -> Data \cup {NoMap}] /\ mapsLate \in BOOLEAN
    /\ deploy \in Deployment \cup {NoDeploy} /\ deployLate \in BOOLEAN
    /\ queued \in BOOLEAN
    /\ pc \in {"idle", "maps", "deploy", "hashes", "annotate"}
    /\ copy \in Wish
    /\ data \in [Maps -> Data \cup {NoMap}]
    /\ errs \in BOOLEAN

\* A new site.
Init ==
    /\ wish \in Requests
    /\ seenWish = wish /\ wishLate = FALSE /\ copy = wish
    /\ maps = [m \in Maps |-> NoMap]
    /\ seenMaps = maps /\ mapsLate = FALSE /\ data = maps
    /\ deploy = NoDeploy /\ deployLate = FALSE
    /\ queued = TRUE
    /\ pc = "idle"
    /\ errs = FALSE

Return == /\ pc' = "idle"
          /\ copy' = seenWish
          /\ data' = [m \in Maps |-> NoMap]
          /\ errs' = FALSE

Goto(step) == pc' = step /\ UNCHANGED copy

-----------------------------------------------------------------------------
(* A reconciliation, from getDeploymentConfiguration on.                   *)

Fetch ==
    /\ pc = "idle" /\ queued
    /\ queued' = FALSE
    /\ pc' = "maps"
    /\ copy' = seenWish
    /\ UNCHANGED <<asked, configMaps, deployment, data, errs>>

\* A map that exists keeps its content.  One that is missing in the cache is
\* created, and exists already if the cache is late.
EnsureMaps(failed) ==
    LET missing == {m \in Maps : seenMaps[m] = NoMap} \ failed
        created == {m \in missing : maps[m] = NoMap}
    IN  /\ pc = "maps"
        /\ maps' = [m \in Maps |-> IF m \in created THEN Files[m] ELSE maps[m]]
        /\ mapsLate' = (mapsLate \/ created # {})
        /\ errs' = (failed # {} \/ created # missing)
        /\ Goto("deploy")
        /\ UNCHANGED <<asked, seenMaps, deployment, queued, data>>

WriteDeployment(new) ==
    /\ deploy' = new
    /\ deployLate' = (deployLate \/ new # deploy)

\* The copy in a cache that is late is refused, unless it happens to be as it
\* should be.
LateDeployment == deployLate /\ UNCHANGED deployment

ResourcesEnsured ==
    IF errs THEN Return /\ queued' = TRUE
            ELSE Goto("hashes") /\ UNCHANGED <<queued, data, errs>>

\* An error becomes the reason of Ready, and the event of that write starts
\* the next call.
EnsureDeployment ==
    /\ pc = "deploy"
    /\ \/ /\ ~deployLate
          /\ WriteDeployment(IF deploy = NoDeploy THEN deploymentForDrupalSite(copy)
                                                  ELSE Enforced(deploy, copy))
          /\ ResourcesEnsured
       \/ LateDeployment /\ ResourcesEnsured
       \/ LateDeployment /\ Return /\ queued' = TRUE
    /\ UNCHANGED <<asked, configMaps>>

\* Nothing is done when one of the five is not in the cache.
ReadMaps ==
    /\ pc = "hashes"
    /\ \/ /\ deploy # NoDeploy \/ deployLate
          /\ \A m \in Maps : seenMaps[m] # NoMap
          /\ data' = seenMaps
          /\ Goto("annotate") /\ UNCHANGED errs
       \/ /\ \/ deploy = NoDeploy \/ deployLate
             \/ \E m \in Maps : seenMaps[m] = NoMap
          /\ Return
    /\ UNCHANGED <<asked, configMaps, deployment, queued>>

\* A conflict returns Requeue.  A Deployment that is gone is an error.
AnnotateDeployment ==
    /\ pc = "annotate"
    /\ \/ /\ ~deployLate /\ deploy # NoDeploy
          /\ \E new \in Annotated(deploy, data) : WriteDeployment(new)
          /\ UNCHANGED queued
       \/ ~deployLate /\ deploy = NoDeploy /\ queued' = TRUE /\ UNCHANGED deployment
       \/ LateDeployment /\ queued' \in {queued, TRUE}
    /\ Return
    /\ UNCHANGED <<asked, configMaps>>

Reconcile == Fetch \/ EnsureMaps({}) \/ EnsureDeployment \/ ReadMaps \/ AnnotateDeployment

-----------------------------------------------------------------------------
(* The environment.  The events of all three caches start a reconciliation. *)

SyncWish ==
    /\ wishLate
    /\ seenWish' = wish /\ wishLate' = FALSE
    /\ queued' = TRUE
    /\ copy' = IF pc = "idle" THEN wish ELSE copy
    /\ UNCHANGED <<wish, configMaps, deployment, pc, data, errs>>

SyncMaps ==
    /\ mapsLate
    /\ seenMaps' = maps /\ mapsLate' = FALSE
    /\ queued' = TRUE
    /\ UNCHANGED <<asked, maps, deployment, call>>

SyncDeployment ==
    /\ deployLate
    /\ deployLate' = FALSE
    /\ queued' = TRUE
    /\ UNCHANGED <<asked, configMaps, deploy, call>>

AskFor(w) ==
    /\ w # wish
    /\ wish' = w /\ wishLate' = TRUE
    /\ UNCHANGED <<seenWish, configMaps, deployment, queued, call>>

WriteMap(m, content) ==
    /\ maps[m] # NoMap /\ maps[m] # content
    /\ maps' = [maps EXCEPT ![m] = content] /\ mapsLate' = TRUE
    /\ UNCHANGED <<asked, seenMaps, deployment, queued, call>>

EditMap(m) == \E content \in Edits[m] : WriteMap(m, content)

DeleteMap(m) == "delete" \in Faults /\ Edits[m] # {} /\ WriteMap(m, NoMap)

DeleteDeployment ==
    /\ "delete" \in Faults
    /\ deploy # NoDeploy
    /\ WriteDeployment(NoDeploy)
    /\ UNCHANGED <<asked, configMaps, queued, call>>

\* An administrator sets or removes the annotation.
Debug ==
    /\ deploy # NoDeploy
    /\ WriteDeployment([deploy EXCEPT !.debug = ~@])
    /\ UNCHANGED <<asked, configMaps, queued, call>>

EnsureMapsFails ==
    /\ "files" \in Faults
    /\ \E m \in Maps : EnsureMaps({m})

Meddling ==
    \/ EnsureMapsFails \/ DeleteDeployment \/ Debug
    \/ \E m \in Maps : EditMap(m) \/ DeleteMap(m)
    \/ \E w \in Requests : AskFor(w)

Next == Reconcile \/ Meddling \/ SyncWish \/ SyncMaps \/ SyncDeployment

Spec == Init /\ [][Next]_vars

\* The workers do not stop and events are delivered.
FairSpec ==
    /\ Spec
    /\ WF_vars(Reconcile)
    /\ WF_vars(SyncWish) /\ WF_vars(SyncMaps) /\ WF_vars(SyncDeployment)

-----------------------------------------------------------------------------
(* What holds.                                                             *)

AtRest == pc = "idle" /\ ~queued /\ ~wishLate /\ ~mapsLate /\ ~deployLate

\* When no call runs and none is due, the Deployment is there, and it has the
\* resources of the present quality of service and override and at least its
\* priority, unless it is being debugged: no edit is missed, whatever was
\* written, refused or deleted while calls were running.
RestMeansEnforced ==
    AtRest =>
        /\ deploy # NoDeploy
        /\ ~deploy.debug =>
              /\ deploy.resources = Resources(wish)
              /\ wish.qos = "critical" => deploy.priority

\* The template then carries a text of each of the three maps whose content
\* the operator hashes, which is what rolls the pods out after an edit.
RestMeansHashed ==
    AtRest =>
        \A m \in Maps \ {"settings"} :
            /\ maps[m] # NoMap
            /\ \E n \in Maps : deploy.hash[n] \in createKeyValuePairs(maps[m])

\* A comment on ensureDeploymentConfigmapHash: "If the content of the
\* configmaps changes, this will ensure that the deployemnt rolls out."
SettingsRollOut ==
    AtRest => \E n \in Maps : deploy.hash[n] \in createKeyValuePairs(maps["settings"])

Settled == <>[][~Meddling]_vars

\* Once nobody meddles, the Deployment is no longer written, if every map has
\* one key: no two steps of a call undo each other's work, and hashing is
\* stable.  A map of two keys rolls the Deployment out for ever.
RolloutsCease ==
    Settled /\ <>[](\A m \in Maps : maps[m] # NoMap => Cardinality(maps[m]) <= 1)
        => <>[][FALSE]_deploy
=============================================================================
