------------------------ MODULE SiteDeploymentProofs ------------------------
(***************************************************************************)
(* What SiteDeployment guarantees for every content of the config maps,    *)
(* all overrides and whatever is edited, deleted or fails.                 *)
(***************************************************************************)
EXTENDS SiteDeployment, FiniteSetTheorems, TLAPS

USE DeploymentAssumption, NoDeployAssumption

\* A step of the call but the last has its copy of what is asked for, and one
\* of all four maps when it annotates.
MapsRead == pc = "annotate" => \A m \in Maps : data[m] # NoMap

DeploymentType == TypeOK /\ MapsRead

-----------------------------------------------------------------------------
(* Types.                                                                  *)

LEMMA ResourcesType ==
  ASSUME NEW w \in Wish
  PROVE  Resources(w) \in [Containers -> Requirements]
  <1> SUFFICES ASSUME NEW c \in Containers
               PROVE  IF w.override[c] # Unset THEN w.override[c] \in Requirements
                      ELSE reqLimDict(c, w.qos) \in Requirements
    BY DEF Resources
  <1>1. w.override[c] \in Custom \cup {Unset} /\ w.qos \in QoSClasses
    BY DEF Wish
  <1> QED
    BY <1>1 DEF Requirements

LEMMA EnforcedType ==
  ASSUME NEW d \in Deployment, NEW w \in Wish
  PROVE  /\ Enforced(d, w) \in Deployment
         /\ Enforced(d, w).hash = d.hash /\ Enforced(d, w).debug = d.debug
         /\ ~d.debug => /\ Enforced(d, w).resources = Resources(w)
                        /\ w.qos = "critical" => Enforced(d, w).priority
  BY ResourcesType DEF Enforced, Deployment

LEMMA NewDeploymentType ==
  ASSUME NEW w \in Wish
  PROVE  deploymentForDrupalSite(w) \in Deployment
  <1> DEFINE d == [resources |-> Resources(w), priority |-> FALSE, debug |-> FALSE,
                   hash |-> [m \in Maps |-> NoHash]]
  <1>1. d \in Deployment
    BY ResourcesType DEF Deployment
  <1> QED
    BY <1>1, EnforcedType DEF deploymentForDrupalSite

\* What is read of the maps are contents, and their texts are hashed.
LEMMA AnnotatedType ==
  ASSUME NEW d \in Deployment, NEW ms \in [Maps -> Data], NEW new \in Annotated(d, ms)
  PROVE  /\ new \in Deployment
         /\ new.resources = d.resources /\ new.priority = d.priority /\ new.debug = d.debug
         /\ new.hash["php-fpm"] \in createKeyValuePairs(ms["php-fpm"])
         /\ new.hash["nginx"] \in createKeyValuePairs(ms["nginx"])
         /\ new.hash["settings"] \in createKeyValuePairs(ms["php-cli"])
         /\ new.hash["php-cli"] \in createKeyValuePairs({})
  <1>1. PICK php \in createKeyValuePairs(Read(ms, "php-fpm")),
             nginx \in createKeyValuePairs(Read(ms, "nginx")),
             settings \in createKeyValuePairs(Read(ms, "settings")),
             cli \in createKeyValuePairs(Read(ms, "php-cli")) :
          new = [d EXCEPT !.hash = Annotations(php, nginx, settings, cli)]
    BY DEF Annotated
  <1> DEFINE hash == Annotations(php, nginx, settings, cli)
  <1>2. /\ Read(ms, "php-fpm") = ms["php-fpm"] /\ Read(ms, "nginx") = ms["nginx"]
        /\ Read(ms, "settings") = ms["php-cli"] /\ Read(ms, "php-cli") = {}
    BY DEF Read
  <1>3. php \in Hashes /\ nginx \in Hashes /\ settings \in Hashes /\ cli \in Hashes
    <2>1. \A x \in Data \cup {{}} : createKeyValuePairs(x) \subseteq Hashes
      BY DEF Hashes
    <2>2. ms["php-fpm"] \in Data /\ ms["nginx"] \in Data /\ ms["php-cli"] \in Data
      BY DEF Maps
    <2> QED
      BY <1>1, <1>2, <2>1, <2>2
  <1>4. /\ hash["php-fpm"] = php /\ hash["nginx"] = nginx /\ hash["settings"] = settings
        /\ hash["php-cli"] = cli
    BY DEF Annotations, Maps
  <1>5. hash \in [Maps -> Hashes \cup {NoHash}]
    BY <1>3, <1>4 DEF Annotations, Maps
  <1>6. new = [d EXCEPT !.hash = hash]
    BY <1>1
  <1> HIDE DEF hash
  <1>7. /\ new \in Deployment /\ new.hash = hash
        /\ new.resources = d.resources /\ new.priority = d.priority /\ new.debug = d.debug
    BY <1>5, <1>6 DEF Deployment
  <1> QED
    BY <1>1, <1>2, <1>4, <1>7

LEMMA ReturnType ==
  ASSUME DeploymentType, Return
  PROVE  /\ pc' = "idle" /\ copy' \in Wish /\ errs' \in BOOLEAN
         /\ data' \in [Maps -> Data \cup {NoMap}]
  BY DEF Return, DeploymentType, TypeOK

LEMMA ContentType ==
  /\ \A m \in Maps : Files[m] \in Data /\ Edits[m] \subseteq Data
  /\ NoMap \notin Data
  BY DEF Data

LEMMA EnsureMapsType ==
  ASSUME DeploymentType, NEW failed \in SUBSET Maps, EnsureMaps(failed)
  PROVE  DeploymentType'
  <1>1. /\ maps' \in [Maps -> Data \cup {NoMap}] /\ mapsLate' \in BOOLEAN /\ errs' \in BOOLEAN
    BY ContentType DEF EnsureMaps, DeploymentType, TypeOK
  <1> QED
    BY <1>1 DEF EnsureMaps, Goto, asked, deployment, DeploymentType, TypeOK, MapsRead

LEMMA WriteDeploymentType ==
  ASSUME DeploymentType, NEW new \in Deployment \cup {NoDeploy}, WriteDeployment(new)
  PROVE  deploy' \in Deployment \cup {NoDeploy} /\ deployLate' \in BOOLEAN
  BY DEF WriteDeployment, DeploymentType, TypeOK

LEMMA TypeStep == DeploymentType /\ [Next]_vars => DeploymentType'
  <1> SUFFICES ASSUME DeploymentType, [Next]_vars
               PROVE  DeploymentType'
    OBVIOUS
  <1>1. ASSUME Fetch PROVE DeploymentType'
    BY <1>1 DEF Fetch, asked, configMaps, deployment, DeploymentType, TypeOK, MapsRead
  <1>2. ASSUME EnsureMaps({}) \/ EnsureMapsFails PROVE DeploymentType'
    BY <1>2, EnsureMapsType DEF EnsureMapsFails
  <1>3. ASSUME EnsureDeployment PROVE DeploymentType'
    <2> UNCHANGED <<asked, configMaps>>
      BY <1>3 DEF EnsureDeployment
    <2>1. deploy' \in Deployment \cup {NoDeploy} /\ deployLate' \in BOOLEAN
      <3>1. IF deploy = NoDeploy THEN deploymentForDrupalSite(copy) \in Deployment
                                 ELSE Enforced(deploy, copy) \in Deployment
        BY NewDeploymentType, EnforcedType DEF DeploymentType, TypeOK
      <3>2. CASE LateDeployment
        BY <3>2 DEF LateDeployment, deployment, DeploymentType, TypeOK
      <3>3. CASE WriteDeployment(IF deploy = NoDeploy THEN deploymentForDrupalSite(copy)
                                                      ELSE Enforced(deploy, copy))
        BY <3>1, <3>3, WriteDeploymentType
      <3> QED
        BY <1>3, <3>2, <3>3 DEF EnsureDeployment
    <2>2. CASE Return /\ queued' = TRUE
      BY <2>1, <2>2, ReturnType DEF asked, configMaps, DeploymentType, TypeOK, MapsRead
    <2>3. CASE Goto("hashes") /\ UNCHANGED <<queued, data, errs>>
      BY <2>1, <2>3 DEF Goto, asked, configMaps, DeploymentType, TypeOK, MapsRead
    <2> QED
      BY <1>3, <2>2, <2>3 DEF EnsureDeployment, ResourcesEnsured
  <1>4. ASSUME ReadMaps PROVE DeploymentType'
    <2> UNCHANGED <<asked, configMaps, deployment, queued>>
      BY <1>4 DEF ReadMaps
    <2>1. CASE /\ \A m \in Maps : seenMaps[m] # NoMap
               /\ data' = seenMaps /\ Goto("annotate") /\ UNCHANGED errs
      BY <2>1 DEF Goto, asked, configMaps, deployment, DeploymentType, TypeOK, MapsRead
    <2>2. CASE Return
      BY <2>2, ReturnType DEF asked, configMaps, deployment, DeploymentType, TypeOK, MapsRead
    <2> QED
      BY <1>4, <2>1, <2>2 DEF ReadMaps
  <1>5. ASSUME AnnotateDeployment PROVE DeploymentType'
    <2> /\ UNCHANGED <<asked, configMaps>> /\ Return
        /\ queued' \in BOOLEAN /\ pc = "annotate"
      BY <1>5 DEF AnnotateDeployment, DeploymentType, TypeOK
    <2>1. deploy' \in Deployment \cup {NoDeploy} /\ deployLate' \in BOOLEAN
      <3>1. CASE UNCHANGED deployment
        BY <3>1 DEF deployment, DeploymentType, TypeOK
      <3>2. CASE deploy # NoDeploy /\ \E new \in Annotated(deploy, data) : WriteDeployment(new)
        <4>1. PICK new \in Annotated(deploy, data) : WriteDeployment(new)
          BY <3>2
        <4>2. data \in [Maps -> Data] /\ deploy \in Deployment
          BY <3>2 DEF DeploymentType, TypeOK, MapsRead
        <4> QED
          BY <4>1, <4>2, AnnotatedType, WriteDeploymentType
      <3> QED
        BY <1>5, <3>1, <3>2 DEF AnnotateDeployment, LateDeployment
    <2> QED
      BY <2>1, ReturnType DEF asked, configMaps, DeploymentType, TypeOK, MapsRead
  <1>6. ASSUME SyncWish \/ SyncMaps \/ SyncDeployment PROVE DeploymentType'
    <2>1. CASE SyncWish
      BY <2>1 DEF SyncWish, configMaps, deployment, DeploymentType, TypeOK, MapsRead
    <2>2. CASE SyncMaps
      BY <2>2 DEF SyncMaps, asked, deployment, call, DeploymentType, TypeOK, MapsRead
    <2>3. CASE SyncDeployment
      BY <2>3 DEF SyncDeployment, asked, configMaps, call, DeploymentType, TypeOK, MapsRead
    <2> QED
      BY <1>6, <2>1, <2>2, <2>3
  <1>7. ASSUME NEW m \in Maps, EditMap(m) \/ DeleteMap(m) PROVE DeploymentType'
    <2>1. PICK content \in Data \cup {NoMap} : WriteMap(m, content)
      BY <1>7, ContentType DEF EditMap, DeleteMap
    <2> QED
      BY <2>1 DEF WriteMap, asked, deployment, call, DeploymentType, TypeOK, MapsRead
  <1>8. ASSUME NEW w \in Requests, AskFor(w) PROVE DeploymentType'
    BY <1>8 DEF AskFor, configMaps, deployment, call, DeploymentType, TypeOK, MapsRead
  <1>9. ASSUME DeleteDeployment \/ Debug PROVE DeploymentType'
    <2>1. deploy \in Deployment => [deploy EXCEPT !.debug = ~@] \in Deployment
      BY DEF Deployment
    <2>2. deploy' \in Deployment \cup {NoDeploy} /\ deployLate' \in BOOLEAN
      BY <1>9, <2>1, WriteDeploymentType DEF DeleteDeployment, Debug, DeploymentType, TypeOK
    <2>3. UNCHANGED <<asked, configMaps, queued, call>>
      BY <1>9 DEF DeleteDeployment, Debug
    <2> QED
      BY <2>2, <2>3 DEF asked, configMaps, call, DeploymentType, TypeOK, MapsRead
  <1>10. CASE UNCHANGED vars
    BY <1>10
    DEF vars, asked, configMaps, deployment, call, DeploymentType, TypeOK, MapsRead
  <1> QED
    BY <1>1, <1>2, <1>3, <1>4, <1>5, <1>6, <1>7, <1>8, <1>9, <1>10
    DEF Next, Reconcile, Meddling

LEMMA InitType == Init => DeploymentType
  BY DEF Init, DeploymentType, TypeOK, MapsRead

\* The variables keep their types.
THEOREM TypeCorrect == Spec => []TypeOK
  BY InitType, TypeStep, PTL DEF Spec, DeploymentType

-----------------------------------------------------------------------------
(* The operator at rest.                                                   *)

CachesFollow == /\ ~wishLate => seenWish = wish
                /\ ~mapsLate => seenMaps = maps

\* What a call has read is current, or another call follows.
CopiesFollow == /\ pc # "idle" /\ ~queued => copy = seenWish
                /\ pc = "annotate" /\ ~queued /\ ~mapsLate => data = maps

AsAsked ==
    ~deploy.debug => /\ deploy.resources = Resources(wish)
                     /\ wish.qos = "critical" => deploy.priority

Hashed ==
    /\ deploy.hash["php-fpm"] \in createKeyValuePairs(maps["php-fpm"])
    /\ deploy.hash["nginx"] \in createKeyValuePairs(maps["nginx"])
    /\ deploy.hash["settings"] \in createKeyValuePairs(maps["php-cli"])
    /\ deploy.hash["php-cli"] \in createKeyValuePairs({})

\* What is not as it should be has an event on its way, or a call that has yet
\* to come to it, or that has failed and ends with another one.
MapWork ==
    ~queued /\ ~mapsLate /\ (\E m \in Maps : maps[m] = NoMap) =>
        \/ pc = "maps"
        \/ pc = "deploy" /\ errs

CreationWork == ~queued /\ ~deployLate /\ deploy = NoDeploy => pc \in {"maps", "deploy"}

EnforcementWork ==
    ~queued /\ ~deployLate /\ ~wishLate /\ deploy # NoDeploy /\ ~AsAsked =>
        pc \in {"maps", "deploy"}

HashWork ==
    ~queued /\ ~deployLate /\ ~mapsLate /\ deploy # NoDeploy /\ ~Hashed => pc # "idle"

RestInv == /\ DeploymentType /\ CachesFollow /\ CopiesFollow /\ MapWork
           /\ CreationWork /\ EnforcementWork /\ HashWork

\* A step that leaves another call queued, or on its way to be.
LEMMA QueuedRest ==
  ASSUME RestInv, DeploymentType', queued' = TRUE, CachesFollow'
  PROVE  RestInv'
  BY DEF RestInv, CopiesFollow, MapWork, CreationWork, EnforcementWork, HashWork

\* A step of the environment between calls and caches.
LEMMA LateDeploymentRest ==
  ASSUME RestInv, DeploymentType', deployLate' = TRUE, UNCHANGED <<asked, configMaps, queued, call>>
  PROVE  RestInv'
  BY DEF asked, configMaps, call, RestInv, CachesFollow, CopiesFollow, MapWork,
         CreationWork, EnforcementWork, HashWork

\* What the step that writes the Deployment leaves: an event, or a Deployment
\* that was already as it should be.
LEMMA DeploymentWritten ==
  ASSUME RestInv, NEW new \in Deployment, WriteDeployment(new)
  PROVE  /\ deploy' = new /\ deploy' # NoDeploy
         /\ ~deployLate' => ~deployLate /\ deploy' = deploy
  BY DEF WriteDeployment

LEMMA EnsureDeploymentRest ==
  ASSUME RestInv, DeploymentType', EnsureDeployment
  PROVE  RestInv'
  <1> UNCHANGED <<asked, configMaps>> /\ pc = "deploy" /\ DeploymentType
    BY DEF EnsureDeployment, RestInv
  <1>1. CachesFollow'
    BY DEF asked, configMaps, RestInv, CachesFollow
  <1>2. CASE queued' = TRUE
    BY <1>1, <1>2, QueuedRest
  <1>3. CASE ~errs /\ Goto("hashes") /\ UNCHANGED <<queued, data, errs>>
    <2>1. /\ pc' = "hashes" /\ copy' = copy /\ data' = data /\ errs' = errs
          /\ queued' = queued /\ maps' = maps /\ mapsLate' = mapsLate
          /\ wish' = wish /\ wishLate' = wishLate /\ seenWish' = seenWish
      BY <1>3 DEF Goto, asked, configMaps
    <2>2. ~deployLate' =>
             /\ deploy' = deploy /\ deploy # NoDeploy
             /\ ~queued /\ ~wishLate => AsAsked
      <3>1. CASE LateDeployment
        BY <3>1 DEF LateDeployment, deployment
      <3>2. CASE WriteDeployment(IF deploy = NoDeploy THEN deploymentForDrupalSite(copy)
                                                      ELSE Enforced(deploy, copy))
        <4>1. CASE deploy = NoDeploy
          BY <3>2, <4>1, NewDeploymentType, DeploymentWritten DEF DeploymentType, TypeOK
        <4>2. CASE deploy # NoDeploy
          <5>1. /\ deploy \in Deployment /\ copy \in Wish
                /\ WriteDeployment(Enforced(deploy, copy))
            BY <3>2, <4>2 DEF DeploymentType, TypeOK
          <5>2. ~deployLate' => deploy' = deploy /\ deploy = Enforced(deploy, copy)
            BY <5>1, EnforcedType, DeploymentWritten
          <5>3. ~queued /\ ~wishLate => copy = wish
            BY DEF RestInv, CachesFollow, CopiesFollow
          <5>4. deploy = Enforced(deploy, copy) /\ copy = wish => AsAsked
            BY <5>1, EnforcedType DEF AsAsked
          <5> QED
            BY <4>2, <5>2, <5>3, <5>4
        <4> QED
          BY <4>1, <4>2
      <3> QED
        BY <3>1, <3>2 DEF EnsureDeployment
    <2>3. CopiesFollow' /\ MapWork'
      BY <1>3, <2>1 DEF RestInv, CopiesFollow, MapWork
    <2>4. CreationWork' /\ EnforcementWork' /\ HashWork'
      BY <2>1, <2>2 DEF RestInv, CreationWork, EnforcementWork, HashWork, AsAsked
    <2> QED
      BY <1>1, <2>3, <2>4 DEF RestInv
  <1> QED
    BY <1>2, <1>3 DEF EnsureDeployment, ResourcesEnsured

LEMMA AnnotateDeploymentRest ==
  ASSUME RestInv, DeploymentType', AnnotateDeployment
  PROVE  RestInv'
  <1> UNCHANGED <<asked, configMaps>> /\ Return /\ pc = "annotate" /\ DeploymentType
    BY DEF AnnotateDeployment, RestInv
  <1>1. CachesFollow'
    BY DEF asked, configMaps, RestInv, CachesFollow
  <1>2. CASE queued' = TRUE
    BY <1>1, <1>2, QueuedRest
  <1>3. CASE UNCHANGED queued
    <2>1. /\ pc' = "idle" /\ queued' = queued /\ maps' = maps /\ mapsLate' = mapsLate
          /\ wish' = wish /\ wishLate' = wishLate
      BY <1>3 DEF Return, asked, configMaps
    <2>2. CASE LateDeployment
      <3>1. deployLate'
        BY <2>2 DEF LateDeployment, deployment
      <3> QED
        BY <1>1, <2>1, <3>1
        DEF RestInv, CopiesFollow, MapWork, CreationWork, EnforcementWork, HashWork
    <2>3. CASE deploy # NoDeploy /\ \E new \in Annotated(deploy, data) : WriteDeployment(new)
      <3>1. PICK new \in Annotated(deploy, data) : WriteDeployment(new)
        BY <2>3
      <3>2. data \in [Maps -> Data] /\ deploy \in Deployment
        BY <2>3 DEF DeploymentType, TypeOK, MapsRead
      <3>3. ~deployLate' => ~deployLate /\ deploy' = deploy /\ deploy = new
        BY <3>1, <3>2, AnnotatedType, DeploymentWritten
      <3>4. ~queued /\ ~mapsLate => data = maps
        BY DEF RestInv, CopiesFollow
      <3>5. deploy = new /\ data = maps => Hashed
        BY <3>1, <3>2, AnnotatedType DEF Hashed
      <3>6. MapWork' /\ CopiesFollow'
        BY <2>1 DEF RestInv, CopiesFollow, MapWork
      <3>7. CreationWork' /\ EnforcementWork'
        BY <2>1, <2>3, <3>3 DEF RestInv, CreationWork, EnforcementWork, AsAsked
      <3>8. HashWork'
        BY <2>1, <3>3, <3>4, <3>5 DEF HashWork, Hashed
      <3> QED
        BY <1>1, <3>6, <3>7, <3>8 DEF RestInv
    <2> QED
      BY <1>3, <2>2, <2>3, <1>2 DEF AnnotateDeployment
  <1> QED
    BY <1>2, <1>3 DEF AnnotateDeployment

LEMMA EnsureMapsRest ==
  ASSUME RestInv, DeploymentType', NEW failed \in SUBSET Maps, EnsureMaps(failed)
  PROVE  RestInv'
  <1>1. /\ pc = "maps" /\ pc' = "deploy" /\ copy' = copy
        /\ UNCHANGED <<wish, seenWish, wishLate, seenMaps, deploy, deployLate, queued, data>>
    BY DEF EnsureMaps, Goto, asked, deployment
  <1>2. ASSUME ~mapsLate'
        PROVE  ~mapsLate /\ maps' = maps
               /\ \A m \in Maps : maps[m] = NoMap => m \in failed \/ errs'
    <2>1. ~mapsLate /\ \A m \in Maps : m \in failed \/ seenMaps[m] # NoMap \/ maps[m] # NoMap
      BY <1>2 DEF EnsureMaps
    <2>2. seenMaps = maps
      BY <2>1 DEF RestInv, CachesFollow
    <2>3. maps' = [m \in Maps |-> maps[m]] /\ maps = [m \in Maps |-> maps[m]]
      BY <1>2, <2>1, <2>2 DEF EnsureMaps, RestInv, DeploymentType, TypeOK
    <2> QED
      BY <2>1, <2>2, <2>3
  <1>3. failed # {} => errs'
    BY DEF EnsureMaps
  <1>4. CachesFollow' /\ CopiesFollow'
    BY <1>1, <1>2 DEF RestInv, CachesFollow, CopiesFollow
  <1>5. MapWork'
    BY <1>1, <1>2, <1>3 DEF MapWork
  <1>6. CreationWork' /\ EnforcementWork' /\ HashWork'
    BY <1>1 DEF RestInv, CreationWork, EnforcementWork, HashWork, AsAsked
  <1> QED
    BY <1>4, <1>5, <1>6 DEF RestInv

LEMMA ReadMapsRest ==
  ASSUME RestInv, DeploymentType', ReadMaps
  PROVE  RestInv'
  <1>1. /\ pc = "hashes"
        /\ UNCHANGED <<wish, seenWish, wishLate, maps, seenMaps, mapsLate, deploy,
                       deployLate, queued>>
    BY DEF ReadMaps, asked, configMaps, deployment
  <1>2. CachesFollow'
    BY <1>1 DEF RestInv, CachesFollow
  <1>3. CASE data' = seenMaps /\ Goto("annotate") /\ UNCHANGED errs
    BY <1>1, <1>2, <1>3
    DEF Goto, RestInv, CachesFollow, CopiesFollow, MapWork, CreationWork, EnforcementWork,
        HashWork, AsAsked, Hashed
  <1>4. CASE /\ deploy = NoDeploy \/ deployLate \/ \E m \in Maps : seenMaps[m] = NoMap
             /\ Return
    <2>1. pc' = "idle"
      BY <1>4 DEF Return
    <2>2. queued \/ deployLate \/ mapsLate
      BY <1>1, <1>4 DEF RestInv, CachesFollow, MapWork, CreationWork
    <2> QED
      BY <1>1, <1>2, <2>1, <2>2
      DEF RestInv, CopiesFollow, MapWork, CreationWork, EnforcementWork, HashWork, AsAsked
  <1> QED
    BY <1>3, <1>4 DEF ReadMaps

LEMMA RestStep == RestInv /\ [Next]_vars => RestInv'
  <1> SUFFICES ASSUME RestInv, [Next]_vars
               PROVE  RestInv'
    OBVIOUS
  <1>t. DeploymentType'
    BY TypeStep DEF RestInv
  <1>1. ASSUME Fetch PROVE RestInv'
    <2>1. /\ pc' = "maps" /\ copy' = seenWish
          /\ UNCHANGED <<wish, seenWish, wishLate, maps, seenMaps, mapsLate, deploy, deployLate>>
      BY <1>1 DEF Fetch, asked, configMaps, deployment
    <2> QED
      BY <1>t, <2>1
      DEF RestInv, CachesFollow, CopiesFollow, MapWork, CreationWork, EnforcementWork, HashWork
  <1>2. ASSUME EnsureMaps({}) \/ EnsureMapsFails PROVE RestInv'
    BY <1>2, <1>t, EnsureMapsRest DEF EnsureMapsFails
  <1>3. ASSUME EnsureDeployment \/ ReadMaps \/ AnnotateDeployment PROVE RestInv'
    BY <1>3, <1>t, EnsureDeploymentRest, ReadMapsRest, AnnotateDeploymentRest
  <1>4. ASSUME SyncWish \/ SyncMaps \/ SyncDeployment PROVE RestInv'
    <2>1. CachesFollow' /\ queued' = TRUE
      BY <1>4 DEF SyncWish, SyncMaps, SyncDeployment, asked, configMaps, RestInv, CachesFollow
    <2> QED
      BY <1>t, <2>1, QueuedRest
  <1>5. ASSUME NEW m \in Maps, EditMap(m) \/ DeleteMap(m) PROVE RestInv'
    <2>1. mapsLate' = TRUE /\ UNCHANGED <<asked, seenMaps, deployment, queued, call>>
      BY <1>5 DEF EditMap, DeleteMap, WriteMap
    <2> QED
      BY <1>t, <2>1
      DEF asked, deployment, call, RestInv, CachesFollow, CopiesFollow, MapWork,
          CreationWork, EnforcementWork, HashWork, AsAsked
  <1>6. ASSUME NEW w \in Requests, AskFor(w) PROVE RestInv'
    <2>1. wishLate' = TRUE /\ UNCHANGED <<seenWish, configMaps, deployment, queued, call>>
      BY <1>6 DEF AskFor
    <2> QED
      BY <1>t, <2>1
      DEF configMaps, deployment, call, RestInv, CachesFollow, CopiesFollow, MapWork,
          CreationWork, EnforcementWork, HashWork, Hashed
  <1>7. ASSUME DeleteDeployment \/ Debug PROVE RestInv'
    <2>1. deploy' # deploy
      <3>1. CASE DeleteDeployment
        BY <3>1 DEF DeleteDeployment, WriteDeployment
      <3>2. CASE Debug
        <4>1. deploy \in Deployment
          BY <3>2 DEF Debug, RestInv, DeploymentType, TypeOK
        <4>2. [deploy EXCEPT !.debug = ~@] # deploy
          BY <4>1 DEF Deployment
        <4> QED
          BY <3>2, <4>2 DEF Debug, WriteDeployment
      <3> QED
        BY <1>7, <3>1, <3>2
    <2>2. deployLate' = TRUE /\ UNCHANGED <<asked, configMaps, queued, call>>
      BY <1>7, <2>1 DEF DeleteDeployment, Debug, WriteDeployment
    <2> QED
      BY <1>t, <2>2, LateDeploymentRest
  <1>8. CASE UNCHANGED vars
    BY <1>8, <1>t
    DEF vars, asked, configMaps, deployment, call, RestInv, CachesFollow, CopiesFollow,
        MapWork, CreationWork, EnforcementWork, HashWork, AsAsked, Hashed
  <1> QED
    BY <1>1, <1>2, <1>3, <1>4, <1>5, <1>6, <1>7, <1>8 DEF Next, Reconcile, Meddling

LEMMA RestHolds == Spec => []RestInv
  <1>1. Init => RestInv
    BY InitType
    DEF Init, RestInv, CachesFollow, CopiesFollow, MapWork, CreationWork, EnforcementWork,
        HashWork
  <1> QED
    BY <1>1, RestStep, PTL DEF Spec

\* At rest the Deployment has the resources that are asked for, whatever was
\* written, refused or deleted while calls were running.
THEOREM EnforcedAtRest == Spec => []RestMeansEnforced
  <1>1. RestInv => RestMeansEnforced
    BY DEF RestInv, CreationWork, EnforcementWork, AsAsked, RestMeansEnforced, AtRest
  <1> QED
    BY <1>1, RestHolds, PTL

\* At rest all maps are there, and the template carries the hashes of the three
\* that the operator reads: those of php-cli under the name of the settings.
THEOREM HashedAtRest == Spec => []RestMeansHashed
  <1>1. ASSUME RestInv, AtRest, NEW m \in Maps \ {"settings"}
        PROVE  /\ maps[m] # NoMap
               /\ \E n \in Maps : deploy.hash[n] \in createKeyValuePairs(maps[m])
    <2>1. maps[m] # NoMap
      BY <1>1 DEF AtRest, RestInv, MapWork
    <2>2. Hashed
      BY <1>1 DEF AtRest, RestInv, CreationWork, HashWork
    <2> QED
      BY <2>1, <2>2 DEF Hashed, Maps
  <1>2. RestInv => RestMeansHashed
    BY <1>1 DEF RestMeansHashed
  <1> QED
    BY <1>2, RestHolds, PTL

-----------------------------------------------------------------------------
(* The operator leaves a Deployment alone that is as it should be.  The    *)
(* steps of a call do not undo each other's work, and hashing is stable    *)
(* as long as there is one way to write each map down.                     *)

OneText(contents) == \A s, t \in createKeyValuePairs(contents) : s = t

LEMMA EmptyText == OneText({})
  <1>1. Cardinality({}) = 0
    BY FS_EmptySet
  <1> SUFFICES ASSUME NEW s \in createKeyValuePairs({}), NEW t \in createKeyValuePairs({})
               PROVE  s = t
    BY DEF OneText
  <1>2. s \in [1 .. 0 -> {}] /\ t \in [1 .. 0 -> {}]
    BY <1>1 DEF createKeyValuePairs, SetToSeqs
  <1> QED
    BY <1>2

\* A map of one key has one text, whatever the order of its keys.
LEMMA OneKeyOneText ==
  ASSUME NEW contents, IsFiniteSet(contents), Cardinality(contents) <= 1
  PROVE  OneText(contents)
  <1>1. Cardinality(contents) \in Nat
    BY FS_CardinalityType
  <1>2. CASE Cardinality(contents) = 0
    <2>1. contents = {}
      BY <1>2, FS_EmptySet
    <2> QED
      BY <2>1, EmptyText
  <1>3. CASE Cardinality(contents) = 1
    <2>1. PICK key : contents = {key}
      BY <1>3, FS_Singleton
    <2> SUFFICES ASSUME NEW s \in createKeyValuePairs(contents),
                        NEW t \in createKeyValuePairs(contents)
                 PROVE  s = t
      BY DEF OneText
    <2>2. s \in [1 .. 1 -> {key}] /\ t \in [1 .. 1 -> {key}]
      BY <1>3, <2>1 DEF createKeyValuePairs, SetToSeqs
    <2>3. \A i \in 1 .. 1 : s[i] = t[i]
      BY <2>2
    <2> QED
      BY <2>2, <2>3
  <1> QED
    BY <1>1, <1>2, <1>3

\* A fixed point: everything is there and as it should be, the caches are up
\* to date, and the call has no reason to doubt it.
InForce ==
    /\ ~wishLate /\ seenWish = wish /\ (pc # "idle" => copy = wish)
    /\ ~mapsLate /\ seenMaps = maps /\ (pc = "annotate" => data = maps)
    /\ ~deployLate /\ (pc \notin {"idle", "maps"} => ~errs)
    /\ deploy # NoDeploy /\ AsAsked /\ Hashed
    /\ \A m \in Maps : maps[m] # NoMap /\ OneText(maps[m])

LEMMA EnforcedAgain ==
  ASSUME NEW d \in Deployment, NEW w \in Wish,
         ~d.debug => /\ d.resources = Resources(w)
                     /\ w.qos = "critical" => d.priority
  PROVE  Enforced(d, w) = d
  <1>1. CASE d.debug
    BY <1>1 DEF Enforced
  <1>2. CASE ~d.debug
    <2> DEFINE priority == d.priority \/ w.qos = "critical"
    <2>1. d.priority \in BOOLEAN /\ (priority <=> d.priority)
      BY <1>2 DEF Deployment
    <2>2. priority = d.priority
      BY <2>1
    <2>3. Enforced(d, w) = [d EXCEPT !.resources = d.resources, !.priority = priority]
      BY <1>2 DEF Enforced
    <2> HIDE DEF priority
    <2> QED
      BY <2>2, <2>3 DEF Deployment
  <1> QED
    BY <1>1, <1>2

LEMMA AnnotatedAgain ==
  ASSUME DeploymentType, InForce, NEW new \in Annotated(deploy, maps)
  PROVE  new = deploy
  <1>1. deploy \in Deployment /\ maps \in [Maps -> Data]
    BY DEF DeploymentType, TypeOK, InForce
  <1>2. PICK php \in createKeyValuePairs(Read(maps, "php-fpm")),
             nginx \in createKeyValuePairs(Read(maps, "nginx")),
             settings \in createKeyValuePairs(Read(maps, "settings")),
             cli \in createKeyValuePairs(Read(maps, "php-cli")) :
          new = [deploy EXCEPT !.hash = Annotations(php, nginx, settings, cli)]
    BY DEF Annotated
  <1>3. /\ Read(maps, "php-fpm") = maps["php-fpm"] /\ Read(maps, "nginx") = maps["nginx"]
        /\ Read(maps, "settings") = maps["php-cli"] /\ Read(maps, "php-cli") = {}
    BY DEF Read
  <1>4. /\ OneText(maps["php-fpm"]) /\ OneText(maps["nginx"]) /\ OneText(maps["php-cli"])
        /\ OneText({})
    BY EmptyText DEF InForce, Maps
  <1>5. /\ php = deploy.hash["php-fpm"] /\ nginx = deploy.hash["nginx"]
        /\ settings = deploy.hash["settings"] /\ cli = deploy.hash["php-cli"]
    BY <1>2, <1>3, <1>4 DEF InForce, Hashed, OneText
  <1>6. deploy.hash \in [Maps -> Hashes \cup {NoHash}]
    BY <1>1 DEF Deployment
  <1>7. Annotations(php, nginx, settings, cli) = deploy.hash
    <2>1. \A m \in Maps : Annotations(php, nginx, settings, cli)[m] = deploy.hash[m]
      BY <1>5 DEF Annotations, Maps
    <2>2. Annotations(php, nginx, settings, cli) \in [Maps -> Hashes \cup {NoHash}]
      BY <1>5, <1>6 DEF Annotations, Maps
    <2> QED
      BY <1>6, <2>1, <2>2
  <1> QED
    BY <1>1, <1>2, <1>7 DEF Deployment

LEMMA InForceKept ==
  ASSUME DeploymentType, InForce, [Next]_vars, [~Meddling]_vars
  PROVE  InForce' /\ UNCHANGED <<deploy, maps>>
  <1>1. deploy \in Deployment /\ wish \in Wish /\ maps \in [Maps -> Data \cup {NoMap}]
    BY DEF DeploymentType, TypeOK, InForce
  \* What is enough: nothing but the call goes on.
  <1>2. ASSUME UNCHANGED <<wish, seenWish, wishLate, maps, seenMaps, mapsLate,
                           deploy, deployLate>>,
               (pc # "idle" => copy = wish)', (pc = "annotate" => data = maps)',
               (pc \notin {"idle", "maps"} => ~errs)'
        PROVE  InForce' /\ UNCHANGED <<deploy, maps>>
    BY <1>2 DEF InForce, AsAsked, Hashed
  <1>3. CASE Fetch
    BY <1>2, <1>3 DEF Fetch, asked, configMaps, deployment, InForce
  <1>4. CASE EnsureMaps({})
    <2> DEFINE missing == {m \in Maps : seenMaps[m] = NoMap} \ {}
               created == {m \in missing : maps[m] = NoMap}
    <2>1. missing = {} /\ created = {}
      BY DEF InForce
    <2>2. /\ maps' = [m \in Maps |-> IF m \in created THEN Files[m] ELSE maps[m]]
          /\ mapsLate' = (mapsLate \/ created # {})
          /\ errs' = ({} # {} \/ created # missing)
      BY <1>4 DEF EnsureMaps
    <2>3. mapsLate' = mapsLate /\ ~errs'
      BY <2>1, <2>2 DEF DeploymentType, TypeOK
    <2>4. maps' = maps
      BY <1>1, <2>1, <2>2
    <2>5. /\ pc = "maps" /\ pc' = "deploy" /\ copy' = copy
          /\ UNCHANGED <<wish, seenWish, wishLate, seenMaps, deploy, deployLate>>
      BY <1>4 DEF EnsureMaps, Goto, asked, deployment
    <2> QED
      BY <1>2, <2>3, <2>4, <2>5 DEF InForce
  <1>5. CASE EnsureDeployment
    <2>1. pc = "deploy" /\ WriteDeployment(Enforced(deploy, wish)) /\ ResourcesEnsured
      BY <1>5 DEF EnsureDeployment, LateDeployment, InForce
    <2>2. Enforced(deploy, wish) = deploy
      BY <1>1, EnforcedAgain DEF InForce, AsAsked
    <2>3. deploy' = deploy /\ deployLate' = deployLate
      BY <2>1, <2>2 DEF WriteDeployment, InForce, DeploymentType, TypeOK
    <2>4. pc' = "hashes" /\ UNCHANGED <<copy, errs>> /\ UNCHANGED <<asked, configMaps>>
      BY <1>5, <2>1 DEF EnsureDeployment, ResourcesEnsured, Goto, InForce
    <2> QED
      BY <1>2, <2>1, <2>3, <2>4 DEF InForce, asked, configMaps
  <1>6. CASE ReadMaps
    <2>1. UNCHANGED <<asked, configMaps, deployment>>
      BY <1>6 DEF ReadMaps
    <2>2. CASE data' = seenMaps /\ Goto("annotate") /\ UNCHANGED errs
      BY <1>2, <1>6, <2>1, <2>2
         DEF ReadMaps, Goto, InForce, asked, configMaps, deployment
    <2>3. CASE Return
      BY <1>2, <2>1, <2>3 DEF Return, asked, configMaps, deployment
    <2> QED
      BY <1>6, <2>2, <2>3 DEF ReadMaps
  <1>7. CASE AnnotateDeployment
    <2>1. pc = "annotate" /\ Return /\ UNCHANGED <<asked, configMaps>>
      BY <1>7 DEF AnnotateDeployment
    <2>2. \E new \in Annotated(deploy, maps) : WriteDeployment(new)
      BY <1>7 DEF AnnotateDeployment, LateDeployment, InForce
    <2>3. deploy' = deploy /\ deployLate' = deployLate
      BY <2>2, AnnotatedAgain DEF WriteDeployment, InForce, DeploymentType, TypeOK
    <2> QED
      BY <1>2, <2>1, <2>3 DEF Return, asked, configMaps
  <1>8. CASE SyncWish \/ SyncMaps \/ SyncDeployment
    BY <1>8 DEF SyncWish, SyncMaps, SyncDeployment, InForce
  <1>9. CASE UNCHANGED vars
    BY <1>2, <1>9 DEF vars, asked, configMaps, deployment, call, InForce
  <1> QED
    BY <1>3, <1>4, <1>5, <1>6, <1>7, <1>8, <1>9 DEF Next, Reconcile

\* Once the operator has come to rest and every map has at most one key, it
\* writes neither the Deployment nor a map again, however often it reconciles
\* the site, until somebody meddles: RolloutsCease from the first rest on.
THEOREM NoFurtherRollout ==
    Spec => [](AtRest /\ (\A m \in Maps : Cardinality(maps[m]) <= 1)
                 => ([][~Meddling]_vars => [][UNCHANGED <<deploy, maps>>]_vars))
  <1>1. RestInv /\ AtRest /\ (\A m \in Maps : Cardinality(maps[m]) <= 1) => InForce
    <2> SUFFICES ASSUME RestInv, AtRest, \A m \in Maps : Cardinality(maps[m]) <= 1
                 PROVE  InForce
      OBVIOUS
    <2>1. \A m \in Maps : maps[m] # NoMap
      BY DEF AtRest, RestInv, MapWork
    <2>2. \A m \in Maps : maps[m] \in Data
      BY <2>1 DEF RestInv, DeploymentType, TypeOK
    <2>3. \A m \in Maps : OneText(maps[m])
      BY <2>2, OneKeyOneText
    <2>4. deploy # NoDeploy /\ AsAsked /\ Hashed
      BY DEF AtRest, RestInv, CreationWork, EnforcementWork, HashWork
    <2> QED
      BY <2>1, <2>3, <2>4 DEF InForce, AtRest, RestInv, CachesFollow
  <1> QED
    BY <1>1, InForceKept, RestHolds, PTL DEF Spec, RestInv
=============================================================================
