------------------------- MODULE PrimarySiteProofs --------------------------
(***************************************************************************)
(* What PrimarySite guarantees for any number of sites and workers and     *)
(* every choice of faults.                                                 *)
(***************************************************************************)
EXTENDS PrimarySite, TLAPS

-----------------------------------------------------------------------------
(* Types.                                                                  *)

LEMMA IdleType == Idle \in Calls /\ NewSite \in DrupalSite
  BY DEF Idle, NewSite, Calls, DrupalSite, Steps

LEMMA WrittenType ==
  ASSUME TypeOK, NEW s \in Sites, NEW object \in DrupalSite \cup {NoSite},
         Written(s, object)
  PROVE  /\ site' \in [Sites -> DrupalSite \cup {NoSite}]
         /\ siteCache' \in [Sites -> DrupalSite \cup {NoSite}]
         /\ siteSynced' \subseteq Sites
  BY DEF Written, TypeOK

LEMMA ReturnType ==
  ASSUME TypeOK, NEW s \in Sites, NEW requeue \in BOOLEAN, Return(s, requeue)
  PROVE  call' \in [Sites -> Calls] /\ queued' \subseteq Sites
  BY IdleType DEF Return, TypeOK

LEMMA WriteAndReturnType ==
  ASSUME TypeOK, NEW s \in Sites, NEW object \in DrupalSite \cup {NoSite},
         WriteAndReturn(s, object), UNCHANGED dpcVars
  PROVE  TypeOK'
  <1>1. CASE Written(s, object) /\ Return(s, FALSE)
    BY <1>1, WrittenType, ReturnType DEF TypeOK, dpcVars
  <1>2. CASE Return(s, TRUE) /\ UNCHANGED siteVars
    BY <1>2, ReturnType DEF TypeOK, dpcVars, siteVars
  <1> QED
    BY <1>1, <1>2 DEF WriteAndReturn

LEMMA StaleType ==
  ASSUME NEW calls \in [Sites -> Calls]
  PROVE  Stale(calls) \in [Sites -> Calls]
  BY DEF Stale, Calls

LEMMA ConfigWrittenType ==
  ASSUME TypeOK, NEW name \in PrimaryNames, ConfigWritten(name)
  PROVE  /\ dpc' \in PrimaryNames \cup {Absent}
         /\ dpcCache' \in PrimaryNames \cup {Absent}
         /\ dpcSynced' \in BOOLEAN
  BY DEF ConfigWritten, TypeOK

\* A copy with its flag primary or finalizer set is a DrupalSite.
LEMMA CopyType ==
  ASSUME TypeOK, NEW s \in Sites
  PROVE  /\ call[s].drp \in DrupalSite
         /\ \A b \in BOOLEAN : [call[s].drp EXCEPT !.primary = b] \in DrupalSite
         /\ [call[s].drp EXCEPT !.finalizer = TRUE] \in DrupalSite
         /\ \A step \in Steps : [call EXCEPT ![s].step = step] \in [Sites -> Calls]
         /\ \A step \in Steps : [call EXCEPT ![s].step = step, ![s].drp.primary = TRUE]
              \in [Sites -> Calls]
         /\ \A step \in Steps : [call EXCEPT ![s].step = step, ![s].drp.primary = TRUE,
                                             ![s].requeue = TRUE] \in [Sites -> Calls]
         /\ [call EXCEPT ![s].fresh = FALSE] \in [Sites -> Calls]
  <1>1. call[s] \in Calls /\ call[s].drp \in DrupalSite
    BY DEF TypeOK, Calls
  <1>2. \A b \in BOOLEAN : [call[s].drp EXCEPT !.primary = b] \in DrupalSite
    BY <1>1 DEF DrupalSite
  <1>3. [call[s].drp EXCEPT !.finalizer = TRUE] \in DrupalSite
    BY <1>1 DEF DrupalSite
  <1>4. \A c \in Calls : [call EXCEPT ![s] = c] \in [Sites -> Calls]
    BY DEF TypeOK
  <1>5. \A step \in Steps : [call[s] EXCEPT !.step = step] \in Calls
    BY <1>1 DEF Calls
  <1>6. \A step \in Steps :
          [call[s] EXCEPT !.step = step, !.drp.primary = TRUE] \in Calls
    BY <1>1, <1>2 DEF Calls
  <1>7. \A step \in Steps :
          [call[s] EXCEPT !.step = step, !.drp.primary = TRUE, !.requeue = TRUE] \in Calls
    BY <1>1, <1>2 DEF Calls
  <1>8. [call[s] EXCEPT !.fresh = FALSE] \in Calls
    BY <1>1 DEF Calls
  <1>9. call = [t \in Sites |-> call[t]] /\ s \in DOMAIN call
    BY DEF TypeOK
  <1>10. \A step \in Steps : [call EXCEPT ![s].step = step] \in [Sites -> Calls]
    BY <1>4, <1>5, <1>9
  <1>11. \A step \in Steps : [call EXCEPT ![s].step = step, ![s].drp.primary = TRUE]
           \in [Sites -> Calls]
    BY <1>4, <1>6, <1>9
  <1>12. \A step \in Steps : [call EXCEPT ![s].step = step, ![s].drp.primary = TRUE,
                                          ![s].requeue = TRUE] \in [Sites -> Calls]
    BY <1>4, <1>7, <1>9
  <1> QED
    BY <1>1, <1>2, <1>3, <1>4, <1>8, <1>10, <1>11, <1>12

LEMMA ProcessStartsType ==
  ASSUME TypeOK, ProcessStarts
  PROVE  TypeOK'
  BY IdleType DEF ProcessStarts, TypeOK

LEMMA ReconcileType ==
  ASSUME TypeOK, NEW s \in Sites, Reconcile(s)
  PROVE  TypeOK'
  <1>1. CASE Fetch(s)
    <2>1. PICK err \in BOOLEAN :
            \/ UNCHANGED call
            \/ /\ siteCache[s] # NoSite
               /\ call' = [call EXCEPT ![s] =
                   [step |-> IF siteCache[s].deleting THEN "cleanup" ELSE "start",
                    drp |-> siteCache[s], fresh |-> s \in siteSynced,
                    dpc |-> IF err THEN Absent ELSE dpcCache, dpcFresh |-> dpcSynced,
                    err |-> err, requeue |-> FALSE]]
      BY <1>1 DEF Fetch
    <2>2. call' \in [Sites -> Calls]
      <3>1. CASE UNCHANGED call
        BY <3>1 DEF TypeOK
      <3>2. CASE siteCache[s] # NoSite /\ ~ UNCHANGED call
        <4> DEFINE new == [step |-> IF siteCache[s].deleting THEN "cleanup" ELSE "start",
                           drp |-> siteCache[s], fresh |-> s \in siteSynced,
                           dpc |-> IF err THEN Absent ELSE dpcCache, dpcFresh |-> dpcSynced,
                           err |-> err, requeue |-> FALSE]
        <4>1. new \in Calls
          BY <3>2 DEF TypeOK, Calls, Steps
        <4>2. call' = [call EXCEPT ![s] = new]
          BY <2>1, <3>2
        <4> HIDE DEF new
        <4> QED
          BY <4>1, <4>2 DEF TypeOK
      <3> QED
        BY <2>1, <3>1, <3>2
    <2> QED
      BY <1>1, <2>2 DEF Fetch, TypeOK, siteVars, dpcVars
  <1>2. CASE CleanupConfig(s)
    <2> Empty \in PrimaryNames /\ "unfinalize" \in Steps
      BY DEF PrimaryNames, Steps
    <2>1. CASE call' = [call EXCEPT ![s].step = "unfinalize"] /\ UNCHANGED <<dpcVars, queued>>
      BY <1>2, <2>1, CopyType DEF CleanupConfig, TypeOK, siteVars, dpcVars
    <2>2. CASE ConfigWritten(Empty) /\ call' = Stale([call EXCEPT ![s].step = "unfinalize"])
               /\ UNCHANGED queued
      BY <1>2, <2>2, CopyType, StaleType, ConfigWrittenType
         DEF CleanupConfig, TypeOK, siteVars
    <2>3. CASE Return(s, TRUE) /\ UNCHANGED dpcVars
      BY <1>2, <2>3, ReturnType DEF CleanupConfig, TypeOK, siteVars, dpcVars
    <2> QED
      BY <1>2, <2>1, <2>2, <2>3 DEF CleanupConfig
  <1>3. CASE RemoveFinalizer(s)
    BY <1>3, WriteAndReturnType DEF RemoveFinalizer
  <1>4. CASE AddFinalizer(s)
    BY <1>4, WriteAndReturnType, CopyType DEF AddFinalizer
  <1>5. CASE CheckIfPrimary(s)
    <2>1. CASE WriteAndReturn(s, [call[s].drp EXCEPT !.primary = IsPrimary(s)])
      <3>1. IsPrimary(s) \in BOOLEAN
        BY DEF IsPrimary
      <3> QED
        BY <1>5, <2>1, <3>1, WriteAndReturnType, CopyType DEF CheckIfPrimary
    <2>2. CASE call' = [call EXCEPT ![s].step = "proclaim"] /\ UNCHANGED <<siteVars, queued>>
      BY <1>5, <2>2, CopyType DEF CheckIfPrimary, TypeOK, siteVars, dpcVars, Steps
    <2> QED
      BY <1>5, <2>1, <2>2 DEF CheckIfPrimary
  <1>6. CASE Proclaim(s)
    <2> s \in PrimaryNames /\ "rest" \in Steps
      BY DEF PrimaryNames, Steps
    <2>1. CASE UNCHANGED dpcVars /\ call' \in [Sites -> Calls]
      BY <1>6, <2>1 DEF Proclaim, TypeOK, siteVars, dpcVars
    <2>2. CASE /\ ConfigWritten(s)
               /\ call' = Stale([call EXCEPT ![s].step = "rest", ![s].drp.primary = TRUE])
      BY <1>6, <2>2, CopyType, StaleType, ConfigWrittenType DEF Proclaim, TypeOK, siteVars
    <2>3. \/ call' = [call EXCEPT ![s].step = "rest"]
          \/ call' = [call EXCEPT ![s].step = "rest", ![s].drp.primary = TRUE,
                                  ![s].requeue = TRUE]
          \/ ConfigWritten(s) /\ call' = Stale([call EXCEPT ![s].step = "rest",
                                                             ![s].drp.primary = TRUE])
      BY <1>6, Zenon DEF Proclaim
    <2>4. ConfigWritten(s) \/ UNCHANGED dpcVars
      BY <1>6 DEF Proclaim
    <2>5. \/ call' \in [Sites -> Calls]
          \/ ConfigWritten(s) /\ call' = Stale([call EXCEPT ![s].step = "rest",
                                                             ![s].drp.primary = TRUE])
      <3>1. [call EXCEPT ![s].step = "rest"] \in [Sites -> Calls]
        BY CopyType
      <3>2. [call EXCEPT ![s].step = "rest", ![s].drp.primary = TRUE, ![s].requeue = TRUE]
              \in [Sites -> Calls]
        BY CopyType
      <3> QED
        BY <2>3, <3>1, <3>2, Zenon
    <2>6. CASE ConfigWritten(s) /\ call' \in [Sites -> Calls]
      BY <1>6, <2>6, ConfigWrittenType DEF Proclaim, TypeOK, siteVars
    <2> QED
      BY <2>1, <2>2, <2>4, <2>5, <2>6
  <1>7. CASE Panic(s)
    BY <1>7, ProcessStartsType DEF Panic
  <1>8. CASE FinishCall(s)
    <2>1. CASE WriteAndReturn(s, call[s].drp)
      BY <1>8, <2>1, WriteAndReturnType, CopyType DEF FinishCall
    <2>2. CASE Return(s, call[s].requeue) /\ UNCHANGED siteVars
      <3>1. call[s].requeue \in BOOLEAN
        BY DEF TypeOK, Calls
      <3> QED
        BY <1>8, <2>2, <3>1, ReturnType DEF FinishCall, TypeOK, siteVars, dpcVars
    <2> QED
      BY <1>8, <2>1, <2>2 DEF FinishCall
  <1> QED
    BY <1>1, <1>2, <1>3, <1>4, <1>5, <1>6, <1>7, <1>8 DEF Reconcile

LEMMA EnvironmentType ==
  ASSUME TypeOK,
         \/ \E s \in Sites : SiteDelivered(s) \/ Resync(s)
         \/ ConfigDelivered \/ Restart \/ Administrator
  PROVE  TypeOK'
  <1>1. CASE \E s \in Sites : SiteDelivered(s) \/ Resync(s)
    BY <1>1 DEF SiteDelivered, Resync, TypeOK, siteVars, dpcVars
  <1>2. CASE ConfigDelivered
    BY <1>2 DEF ConfigDelivered, ListedSites, TypeOK, siteVars
  <1>3. CASE Restart
    BY <1>3, ProcessStartsType DEF Restart
  <1>4. ASSUME NEW s \in Sites, NEW object \in DrupalSite \cup {NoSite},
               EditSite(s, object)
        PROVE  TypeOK'
    BY <1>4, WrittenType, CopyType DEF EditSite, TypeOK, dpcVars
  <1>5. ASSUME NEW name \in PrimaryNames, EditConfig(name)
        PROVE  TypeOK'
    <2>1. call' \in [Sites -> Calls]
      BY <1>5, StaleType DEF EditConfig, TypeOK
    <2> QED
      BY <1>5, <2>1, ConfigWrittenType DEF EditConfig, TypeOK, siteVars
  <1>6. CASE \E s \in Sites : SiteCreated(s)
    BY <1>4, <1>6, IdleType DEF SiteCreated
  <1>7. ASSUME NEW s \in Sites, SiteDeleted(s)
        PROVE  TypeOK'
    <2>1. [site[s] EXCEPT !.deleting = TRUE] \in DrupalSite
      BY <1>7 DEF SiteDeleted, TypeOK, DrupalSite
    <2> QED
      BY <1>4, <1>7, <2>1 DEF SiteDeleted
  <1>8. CASE ConfigCreated \/ \E name \in PrimaryNames : PrimaryChosen(name)
    BY <1>5, <1>8 DEF ConfigCreated, PrimaryChosen, PrimaryNames
  <1> QED
    BY <1>1, <1>2, <1>3, <1>6, <1>7, <1>8 DEF Administrator

\* All variables keep their types, for every set of sites.
THEOREM TypeCorrect == Spec => []TypeOK
  <1>1. Init => TypeOK
    BY IdleType DEF Init, TypeOK
  <1>2. TypeOK /\ [Next]_vars => TypeOK'
    <2>1. CASE UNCHANGED vars
      BY <2>1 DEF vars, siteVars, dpcVars, TypeOK
    <2> QED
      BY <2>1, ReconcileType, EnvironmentType DEF Next
  <1> QED
    BY <1>1, <1>2, PTL DEF Spec

-----------------------------------------------------------------------------
(* The invariant.  ChoiceIsKept and CleanupIsDue rest on what a copy that  *)
(* is still current says of the stored object; RestMeansStatusTrue on the  *)
(* fact that a site whose status is wrong is about to be looked at.        *)

CachesFollow ==
    /\ \A s \in Sites : s \in siteSynced => siteCache[s] = site[s]
    /\ dpcSynced => dpcCache = dpc

\* The copies of a call are the stored objects, as long as nobody wrote them.
CopyFollows(s) ==
    /\ call[s].step = "idle" => ~call[s].fresh /\ ~call[s].err
    /\ call[s].fresh =>
         /\ s \in siteSynced
         /\ call[s].step \in {"start", "proclaim", "rest"} =>
              site[s] # NoSite /\ ~site[s].deleting
         /\ call[s].step = "start" => call[s].drp = site[s]
    /\ call[s].dpcFresh => dpcSynced /\ (call[s].err \/ call[s].dpc = dpc)
    /\ call[s].err => call[s].dpc = Absent /\ call[s].step # "rest"

\* A call on old copies is followed by another one.
WakesUp(s) ==
    call[s].step # "idle" =>
      /\ ~call[s].fresh => s \in queued \/ s \notin siteSynced
      /\ ~call[s].dpcFresh =>
           s \in queued \/ ~dpcSynced \/ siteCache[s] = NoSite

CleansUp(s) ==
    /\ siteCache[s] # NoSite /\ siteCache[s].deleting => s \notin Settled
    /\ call[s].step \in {"cleanup", "unfinalize"} => s \notin Settled

Truthful(s) ==
    dpc # Absent /\ s \in Settled => (site[s].primary <=> dpc = s)

Awaited(s) == Truthful(s) \/ s \in queued \/ s \notin siteSynced \/ ~dpcSynced

Watched(s) ==
    \/ Awaited(s)
    \/ call[s].step = "start"
    \/ call[s].step = "proclaim" /\ call[s].err

SiteInv(s) == CopyFollows(s) /\ WakesUp(s) /\ CleansUp(s) /\ Watched(s)

Inv == TypeOK /\ CachesFollow /\ \A s \in Sites : SiteInv(s)

\* What a step does to a site that it is not about: at most the copy of the
\* DrupalProjectConfig becomes old, together with the cache.
Undisturbed(t) ==
    /\ site'[t] = site[t] /\ siteCache'[t] = siteCache[t]
    /\ t \in siteSynced' <=> t \in siteSynced
    /\ t \in queued => t \in queued'
    /\ \/ dpc' = dpc /\ dpcSynced' = dpcSynced /\ call'[t] = call[t]
       \/ /\ ~dpcSynced'
          /\ ~call'[t].dpcFresh
          /\ call'[t].step = call[t].step /\ call'[t].drp = call[t].drp
          /\ call'[t].fresh = call[t].fresh /\ call'[t].dpc = call[t].dpc
          /\ call'[t].err = call[t].err

LEMMA UndisturbedInv ==
  ASSUME NEW t \in Sites, SiteInv(t), Undisturbed(t)
  PROVE  SiteInv(t)'
  <1>1. t \in Settled' <=> t \in Settled
    BY DEF Undisturbed, Settled
  <1>2. CopyFollows(t)'
    BY DEF SiteInv, CopyFollows, Undisturbed
  <1>3. WakesUp(t)'
    BY DEF SiteInv, WakesUp, Undisturbed
  <1>4. CleansUp(t)'
    BY <1>1 DEF SiteInv, CleansUp, Undisturbed
  <1>5. Watched(t)'
    BY <1>1 DEF SiteInv, Watched, Awaited, Truthful, Undisturbed
  <1> QED
    BY <1>2, <1>3, <1>4, <1>5 DEF SiteInv

\* A call that ends with a write of its site.
LEMMA WriteAndReturnInv ==
  ASSUME Inv, NEW s \in Sites, NEW object, WriteAndReturn(s, object),
         UNCHANGED dpcVars,
         object = NoSite \/ call[s].step \in {"start", "proclaim", "rest"},
         call[s].fresh /\ object = site[s] => Awaited(s)
  PROVE  \A t \in Sites : SiteInv(t)'
  <1> USE DEF Inv
  <1>1. ASSUME NEW t \in Sites, t # s
        PROVE  SiteInv(t)'
    <2>1. Undisturbed(t)
      BY <1>1 DEF WriteAndReturn, Written, Return, Undisturbed, dpcVars, siteVars, TypeOK
    <2> QED
      BY <2>1, UndisturbedInv
  <1>2. call'[s] = Idle /\ call'[s].step = "idle" /\ ~call'[s].fresh
          /\ ~call'[s].err /\ ~call'[s].dpcFresh
    <2>1. call' = [call EXCEPT ![s] = Idle]
      BY DEF WriteAndReturn, Return
    <2> QED
      BY <2>1 DEF Idle, TypeOK
  <1> SUFFICES SiteInv(s)'
    BY <1>1
  <1>3. CASE /\ call[s].fresh /\ Written(s, object) /\ Return(s, FALSE)
    <2>1. site'[s] = object /\ UNCHANGED siteCache
      BY <1>3 DEF Written, TypeOK
    <2>2. CASE object = site[s]
      <3>1. siteSynced' = siteSynced /\ queued' = queued /\ site'[s] = site[s]
        BY <1>3, <2>1, <2>2 DEF Written, Return
      <3>2. s \in Settled' <=> s \in Settled
        BY <3>1 DEF Settled
      <3>3. Awaited(s)'
        BY <1>3, <2>2, <3>1, <3>2 DEF Awaited, Truthful, dpcVars
      <3> QED
        BY <1>2, <2>1, <3>2, <3>3 DEF SiteInv, CopyFollows, WakesUp, CleansUp, Watched
    <2>3. CASE object # site[s]
      <3>1. s \notin siteSynced'
        BY <1>3, <2>3 DEF Written
      <3>2. siteCache[s] # NoSite /\ siteCache[s].deleting => s \notin Settled'
        BY <1>3, <2>1 DEF SiteInv, CopyFollows, CachesFollow, Settled
      <3> QED
        BY <1>2, <2>1, <3>1, <3>2
           DEF SiteInv, CopyFollows, WakesUp, CleansUp, Watched, Awaited
    <2> QED
      BY <2>2, <2>3
  <1>4. CASE Return(s, TRUE) /\ UNCHANGED siteVars
    <2>1. s \in queued' /\ (s \in Settled' <=> s \in Settled)
      BY <1>4 DEF Return, Settled, siteVars
    <2> QED
      BY <1>2, <1>4, <2>1
         DEF SiteInv, CopyFollows, WakesUp, CleansUp, Watched, Awaited, siteVars
  <1> QED
    BY <1>3, <1>4 DEF WriteAndReturn

\* A call that ends without a write: it is tried again, or nothing is awaited.
LEMMA ReturnInv ==
  ASSUME Inv, NEW s \in Sites, NEW requeue \in BOOLEAN, Return(s, requeue),
         UNCHANGED <<siteVars, dpcVars>>,
         requeue \/ Awaited(s)
  PROVE  \A t \in Sites : SiteInv(t)'
  <1> USE DEF Inv
  <1>1. ASSUME NEW t \in Sites, t # s
        PROVE  SiteInv(t)'
    <2>1. Undisturbed(t)
      BY <1>1 DEF Return, Undisturbed, dpcVars, siteVars, TypeOK
    <2> QED
      BY <2>1, UndisturbedInv
  <1>2. call'[s] = Idle /\ call'[s].step = "idle" /\ ~call'[s].fresh
          /\ ~call'[s].err /\ ~call'[s].dpcFresh
    BY DEF Return, Idle, TypeOK
  <1>3. s \in Settled' <=> s \in Settled
    BY DEF Settled, siteVars
  <1>4. Awaited(s)'
    BY <1>3 DEF Return, Awaited, Truthful, siteVars, dpcVars
  <1>5. SiteInv(s)'
    BY <1>2, <1>3, <1>4 DEF SiteInv, CopyFollows, CleansUp, WakesUp, Watched, siteVars
  <1> QED
    BY <1>1, <1>5

\* A call that goes on to its next step.
LEMMA NextStepInv ==
  ASSUME Inv, NEW s \in Sites, NEW step \in Steps,
         call' = [call EXCEPT ![s].step = step],
         UNCHANGED siteVars, UNCHANGED dpcVars, UNCHANGED queued,
         \/ step = "unfinalize" /\ call[s].step = "cleanup"
         \/ step = "proclaim" /\ call[s].step = "start" /\ (Awaited(s) \/ call[s].err)
         \/ /\ step = "rest" /\ call[s].step = "proclaim"
            /\ Awaited(s) /\ ~call[s].err
  PROVE  \A t \in Sites : SiteInv(t)'
  <1> USE DEF Inv
  <1>1. ASSUME NEW t \in Sites, t # s
        PROVE  SiteInv(t)'
    <2>1. Undisturbed(t)
      BY <1>1 DEF Undisturbed, dpcVars, siteVars, TypeOK
    <2> QED
      BY <2>1, UndisturbedInv
  <1>2. /\ call'[s].step = step /\ call'[s].drp = call[s].drp
        /\ call'[s].fresh = call[s].fresh /\ call'[s].dpc = call[s].dpc
        /\ call'[s].dpcFresh = call[s].dpcFresh /\ call'[s].err = call[s].err
    BY DEF TypeOK, Calls
  <1>3. s \in Settled' <=> s \in Settled
    BY DEF Settled, siteVars
  <1>4. Awaited(s) => Awaited(s)'
    BY <1>3 DEF Awaited, Truthful, siteVars, dpcVars
  <1>5. CopyFollows(s)' /\ WakesUp(s)'
    BY <1>2 DEF SiteInv, CopyFollows, WakesUp, siteVars, dpcVars
  <1>6. CleansUp(s)'
    BY <1>2, <1>3 DEF SiteInv, CleansUp, siteVars
  <1>7. Watched(s)'
    BY <1>2, <1>3, <1>4 DEF SiteInv, Watched, CleansUp, Awaited, Truthful, Steps
  <1>8. SiteInv(s)'
    BY <1>5, <1>6, <1>7 DEF SiteInv
  <1> QED
    BY <1>1, <1>8

\* A step of the call of s that writes the DrupalProjectConfig.
LEMMA ConfigStepInv ==
  ASSUME Inv, NEW s \in Sites, NEW name, NEW calls \in [Sites -> Calls],
         ConfigWritten(name), call' = Stale(calls),
         \A t \in Sites \ {s} : calls[t] = call[t],
         calls[s].fresh = call[s].fresh,
         calls[s].dpc = call[s].dpc, calls[s].err = call[s].err,
         UNCHANGED <<siteVars, queued>>,
         \/ call[s].step = "cleanup" /\ calls[s].step = "unfinalize"
         \/ call[s].step = "proclaim" /\ calls[s].step = "rest" /\ ~call[s].err
  PROVE  \A t \in Sites : SiteInv(t)'
  <1> USE DEF Inv
  <1>1. ASSUME NEW t \in Sites
        PROVE  /\ ~call'[t].dpcFresh /\ call'[t].step = calls[t].step
               /\ call'[t].drp = calls[t].drp /\ call'[t].fresh = calls[t].fresh
               /\ call'[t].dpc = calls[t].dpc /\ call'[t].err = calls[t].err
    BY DEF Stale, Calls
  <1>2. ~dpcSynced'
    BY DEF ConfigWritten
  <1>3. ASSUME NEW t \in Sites, t # s
        PROVE  SiteInv(t)'
    <2>1. calls[t] = call[t]
      BY <1>3
    <2>2. Undisturbed(t)
      BY <1>1, <1>2, <2>1 DEF Undisturbed, siteVars
    <2> QED
      BY <2>2, UndisturbedInv
  <1>4. s \in Settled' <=> s \in Settled
    BY DEF Settled, siteVars
  <1>5. SiteInv(s)'
    BY <1>1, <1>2, <1>4
       DEF SiteInv, CopyFollows, WakesUp, CleansUp, Watched, Awaited, siteVars
  <1> QED
    BY <1>3, <1>5

LEMMA FetchInv ==
  ASSUME Inv, NEW s \in Sites, Fetch(s)
  PROVE  \A t \in Sites : SiteInv(t)'
  <1> USE DEF Inv
  <1>1. ASSUME NEW t \in Sites, t # s
        PROVE  SiteInv(t)'
    <2>1. call'[t] = call[t]
      BY <1>1 DEF Fetch, TypeOK
    <2>2. Undisturbed(t)
      BY <1>1, <2>1 DEF Fetch, Undisturbed, siteVars, dpcVars
    <2> QED
      BY <2>2, UndisturbedInv
  <1>2. s \in Settled' <=> s \in Settled
    BY DEF Fetch, Settled, siteVars
  <1>3. s \in siteSynced /\ siteCache[s] = NoSite => s \notin Settled
    BY DEF CachesFollow, Settled
  <1>4. CASE siteCache[s] = NoSite /\ UNCHANGED call
    <2>1. call'[s].step = "idle"
      BY <1>4 DEF Fetch, Idle
    <2>2. Awaited(s)'
      BY <1>2, <1>3, <1>4 DEF Fetch, Awaited, Truthful, siteVars, dpcVars
    <2>3. SiteInv(s)'
      BY <1>2, <1>4, <2>1, <2>2
         DEF Fetch, SiteInv, CopyFollows, WakesUp, CleansUp, Watched, siteVars, dpcVars
    <2> QED
      BY <1>1, <2>3
  <1>5. CASE ~(siteCache[s] = NoSite /\ UNCHANGED call)
    <2>1. PICK err \in BOOLEAN :
            call' = [call EXCEPT ![s] =
              [step |-> IF siteCache[s].deleting THEN "cleanup" ELSE "start",
               drp |-> siteCache[s], fresh |-> s \in siteSynced,
               dpc |-> IF err THEN Absent ELSE dpcCache, dpcFresh |-> dpcSynced,
               err |-> err, requeue |-> FALSE]]
      BY <1>5 DEF Fetch
    <2>2. siteCache[s] # NoSite
      BY <1>5 DEF Fetch
    <2>3. /\ call'[s].step = IF siteCache[s].deleting THEN "cleanup" ELSE "start"
          /\ call'[s].drp = siteCache[s] /\ call'[s].fresh = (s \in siteSynced)
          /\ call'[s].dpc = (IF err THEN Absent ELSE dpcCache)
          /\ call'[s].dpcFresh = dpcSynced /\ call'[s].err = err
      BY <2>1 DEF TypeOK
    <2>4. siteCache[s].deleting \in BOOLEAN
      BY <2>2 DEF TypeOK, DrupalSite
    <2>5. CopyFollows(s)'
      BY <2>2, <2>3, <2>4 DEF CachesFollow, CopyFollows, Fetch, siteVars, dpcVars
    <2>6. WakesUp(s)'
      BY <2>2, <2>3 DEF WakesUp, Fetch, siteVars, dpcVars
    <2>7. CleansUp(s)'
      BY <1>2, <2>2, <2>3, <2>4 DEF SiteInv, CleansUp, Fetch, siteVars
    <2>8. Watched(s)'
      BY <1>2, <2>2, <2>3, <2>4
         DEF SiteInv, CleansUp, Watched, Awaited, Truthful, Fetch, siteVars, dpcVars
    <2> QED
      BY <1>1, <2>5, <2>6, <2>7, <2>8 DEF SiteInv
  <1> QED
    BY <1>4, <1>5

LEMMA ProcessStartsInv ==
  ASSUME Inv, ProcessStarts
  PROVE  \A t \in Sites : SiteInv(t)'
  <1> SUFFICES ASSUME NEW t \in Sites
               PROVE  SiteInv(t)'
    OBVIOUS
  <1>1. call'[t].step = "idle" /\ ~call'[t].fresh /\ ~call'[t].dpcFresh /\ ~call'[t].err
    BY DEF ProcessStarts, Idle
  <1>2. t \in Settled' <=> t \in Settled
    BY DEF ProcessStarts, Settled
  <1>3. t \in Settled => t \in queued'
    BY DEF ProcessStarts, Settled
  <1>4. siteCache'[t] # NoSite /\ siteCache'[t].deleting => t \notin Settled
    BY DEF ProcessStarts, Settled
  <1> QED
    BY <1>1, <1>2, <1>3, <1>4
       DEF SiteInv, CopyFollows, WakesUp, CleansUp, Watched, Awaited, Truthful

\* A copy that is not current is followed by another call.
LEMMA OldCopyAwaited ==
  ASSUME Inv, NEW s \in Sites, call[s].step # "idle",
         ~call[s].fresh \/ ~call[s].dpcFresh
  PROVE  Awaited(s)
  <1>1. CASE ~call[s].fresh
    BY <1>1 DEF Inv, SiteInv, WakesUp, Awaited
  <1>2. CASE ~call[s].dpcFresh
    <2>1. CASE siteCache[s] = NoSite /\ s \in siteSynced
      BY <2>1 DEF Inv, CachesFollow, Settled, Awaited, Truthful
    <2> QED
      BY <1>2, <2>1 DEF Inv, SiteInv, WakesUp, Awaited
  <1> QED
    BY <1>1, <1>2

LEMMA CleanupConfigInv ==
  ASSUME Inv, NEW s \in Sites, CleanupConfig(s)
  PROVE  \A t \in Sites : SiteInv(t)'
  <1> USE DEF Inv
  <1> "unfinalize" \in Steps /\ call[s].step = "cleanup"
    BY DEF Steps, CleanupConfig
  <1> DEFINE next == [call EXCEPT ![s].step = "unfinalize"]
  <1>1. CASE call' = next /\ UNCHANGED <<dpcVars, queued>>
    BY <1>1, NextStepInv DEF CleanupConfig
  <1>2. CASE ConfigWritten(Empty) /\ call' = Stale(next) /\ UNCHANGED queued
    <2>1. next \in [Sites -> Calls]
      BY CopyType
    <2>2. /\ \A t \in Sites \ {s} : next[t] = call[t]
          /\ next[s].fresh = call[s].fresh /\ next[s].dpc = call[s].dpc
          /\ next[s].err = call[s].err /\ next[s].step = "unfinalize"
      BY DEF TypeOK, Calls
    <2>3. UNCHANGED siteVars
      BY DEF CleanupConfig
    <2> HIDE DEF next
    <2> QED
      BY <1>2, <2>1, <2>2, <2>3, ConfigStepInv
  <1>3. CASE Return(s, TRUE) /\ UNCHANGED dpcVars
    BY <1>3, ReturnInv DEF CleanupConfig
  <1> QED
    BY <1>1, <1>2, <1>3, Zenon DEF CleanupConfig

LEMMA CheckIfPrimaryInv ==
  ASSUME Inv, NEW s \in Sites, CheckIfPrimary(s)
  PROVE  \A t \in Sites : SiteInv(t)'
  <1> USE DEF Inv
  <1> DEFINE new == [call[s].drp EXCEPT !.primary = IsPrimary(s)]
  <1>1. CASE /\ call[s].dpc # Absent /\ call[s].drp.primary # IsPrimary(s)
             /\ WriteAndReturn(s, new)
    <2>1. new # call[s].drp
      <3>1. new.primary = IsPrimary(s)
        BY CopyType DEF DrupalSite
      <3> QED
        BY <1>1, <3>1
    <2>2. call[s].fresh => new # site[s]
      BY <2>1 DEF SiteInv, CopyFollows, CheckIfPrimary
    <2> HIDE DEF new
    <2> QED
      BY <1>1, <2>2, WriteAndReturnInv DEF CheckIfPrimary
  <1>2. CASE /\ call[s].dpc = Absent \/ call[s].drp.primary = IsPrimary(s)
             /\ call' = [call EXCEPT ![s].step = "proclaim"]
             /\ UNCHANGED <<siteVars, queued>>
    <2>1. Awaited(s) \/ call[s].err
      <3>1. CASE call[s].fresh /\ call[s].dpcFresh /\ ~call[s].err
        <4>1. call[s].drp = site[s] /\ call[s].dpc = dpc
          BY <3>1 DEF CheckIfPrimary, SiteInv, CopyFollows
        <4> QED
          BY <1>2, <4>1 DEF Awaited, Truthful, IsPrimary
      <3> QED
        BY <3>1, OldCopyAwaited DEF CheckIfPrimary
    <2>2. "proclaim" \in Steps /\ call[s].step = "start" /\ UNCHANGED dpcVars
      BY DEF Steps, CheckIfPrimary
    <2> QED
      BY <1>2, <2>1, <2>2, NextStepInv
  <1> QED
    BY <1>1, <1>2, Zenon DEF CheckIfPrimary

LEMMA ProclaimInv ==
  ASSUME Inv, NEW s \in Sites, Proclaim(s)
  PROVE  \A t \in Sites : SiteInv(t)'
  <1> USE DEF Inv
  <1> "rest" \in Steps /\ call[s].step = "proclaim" /\ ~call[s].err
    BY DEF Steps, Proclaim
  <1> DEFINE proclaimed == [call EXCEPT ![s].step = "rest", ![s].drp.primary = TRUE]
             refused == [call EXCEPT ![s].step = "rest", ![s].drp.primary = TRUE,
                                     ![s].requeue = TRUE]
  <1>1. UNCHANGED <<siteVars, queued>> /\ Awaited(s)
    BY DEF Proclaim, SiteInv, Watched
  <1>2. CASE call' = [call EXCEPT ![s].step = "rest"] /\ UNCHANGED dpcVars
    BY <1>1, <1>2, NextStepInv
  <1>3. CASE ConfigWritten(s) /\ call' = Stale(proclaimed)
    <2>1. proclaimed \in [Sites -> Calls]
      BY CopyType
    <2>2. /\ \A t \in Sites \ {s} : proclaimed[t] = call[t]
          /\ proclaimed[s].fresh = call[s].fresh /\ proclaimed[s].dpc = call[s].dpc
          /\ proclaimed[s].err = call[s].err /\ proclaimed[s].step = "rest"
      BY DEF TypeOK, Calls
    <2> HIDE DEF proclaimed
    <2> QED
      BY <1>1, <1>3, <2>1, <2>2, ConfigStepInv
  <1>4. CASE call' = refused /\ UNCHANGED dpcVars
    <2>1. /\ call'[s].step = "rest"
          /\ call'[s].fresh = call[s].fresh /\ call'[s].dpc = call[s].dpc
          /\ call'[s].dpcFresh = call[s].dpcFresh /\ call'[s].err = call[s].err
      BY <1>4 DEF TypeOK, Calls
    <2>2. ASSUME NEW t \in Sites, t # s
          PROVE  SiteInv(t)'
      <3>1. Undisturbed(t)
        BY <1>1, <1>4, <2>2 DEF Undisturbed, TypeOK, siteVars, dpcVars
      <3> QED
        BY <3>1, UndisturbedInv
    <2>3. (s \in Settled' <=> s \in Settled) /\ Awaited(s)'
      BY <1>1, <1>4 DEF Settled, Awaited, Truthful, siteVars, dpcVars
    <2>4. SiteInv(s)'
      BY <1>1, <1>4, <2>1, <2>3
         DEF SiteInv, CopyFollows, WakesUp, CleansUp, Watched, siteVars, dpcVars
    <2> QED
      BY <2>2, <2>4
  <1> QED
    BY <1>2, <1>3, <1>4, Zenon DEF Proclaim

LEMMA ReconcileInv ==
  ASSUME Inv, NEW s \in Sites, Reconcile(s)
  PROVE  \A t \in Sites : SiteInv(t)'
  <1> USE DEF Inv
  <1>1. CASE RemoveFinalizer(s)
    <2>1. call[s].fresh => site[s] # NoSite \/ Awaited(s)
      BY DEF Awaited, Truthful, Settled
    <2> QED
      BY <1>1, <2>1, WriteAndReturnInv DEF RemoveFinalizer
  <1>2. CASE AddFinalizer(s)
    <2> DEFINE new == [call[s].drp EXCEPT !.finalizer = TRUE]
    <2>1. new.finalizer
      BY CopyType DEF DrupalSite
    <2>2. call[s].fresh => new # site[s]
      BY <1>2, <2>1 DEF AddFinalizer, SiteInv, CopyFollows
    <2>3. WriteAndReturn(s, new) /\ UNCHANGED dpcVars /\ call[s].step = "start"
      BY <1>2 DEF AddFinalizer
    <2> HIDE DEF new
    <2> QED
      BY <2>2, <2>3, WriteAndReturnInv
  <1>3. CASE FinishCall(s)
    <2>1. Awaited(s)
      BY <1>3 DEF FinishCall, SiteInv, Watched
    <2>2. CASE WriteAndReturn(s, call[s].drp)
      BY <1>3, <2>1, <2>2, WriteAndReturnInv DEF FinishCall
    <2>3. CASE Return(s, call[s].requeue) /\ UNCHANGED siteVars
      <3>1. call[s].requeue \in BOOLEAN
        BY DEF TypeOK, Calls
      <3> QED
        BY <1>3, <2>1, <2>3, <3>1, ReturnInv DEF FinishCall
    <2> QED
      BY <1>3, <2>2, <2>3 DEF FinishCall
  <1> QED
    BY <1>1, <1>2, <1>3, FetchInv, CleanupConfigInv, CheckIfPrimaryInv, ProclaimInv,
       ProcessStartsInv DEF Reconcile, Panic

LEMMA DeliveredInv ==
  ASSUME Inv,
         ConfigDelivered \/ \E s \in Sites : SiteDelivered(s) \/ Resync(s)
  PROVE  \A t \in Sites : SiteInv(t)'
  <1> USE DEF Inv
  <1>1. ASSUME NEW s \in Sites, SiteDelivered(s), NEW t \in Sites
        PROVE  SiteInv(t)'
    <2>1. CASE t # s
      <3>1. Undisturbed(t)
        BY <1>1, <2>1 DEF SiteDelivered, Undisturbed, dpcVars, TypeOK
      <3> QED
        BY <3>1, UndisturbedInv
    <2>2. CASE t = s
      <3>1. t \in Settled' <=> t \in Settled
        BY <1>1 DEF SiteDelivered, Settled
      <3>2. t \in queued' /\ t \in siteSynced' /\ siteCache'[t] = site[t]
        BY <1>1, <2>2 DEF SiteDelivered, TypeOK
      <3>3. siteCache'[t] # NoSite /\ siteCache'[t].deleting => t \notin Settled
        BY <3>2 DEF Settled
      <3> QED
        BY <1>1, <2>2, <3>1, <3>2, <3>3
           DEF SiteDelivered, SiteInv, CopyFollows, WakesUp, CleansUp, Watched, Awaited,
               dpcVars
    <2> QED
      BY <2>1, <2>2
  <1>2. ASSUME NEW s \in Sites, Resync(s), NEW t \in Sites
        PROVE  SiteInv(t)'
    <2>1. Undisturbed(t)
      BY <1>2 DEF Resync, Undisturbed, siteVars, dpcVars
    <2> QED
      BY <2>1, UndisturbedInv
  <1>3. ASSUME ConfigDelivered, NEW t \in Sites
        PROVE  SiteInv(t)'
    <2>1. t \in Settled' <=> t \in Settled
      BY <1>3 DEF ConfigDelivered, Settled, siteVars
    <2>2. t \in queued' \/ siteCache[t] = NoSite
      BY <1>3 DEF ConfigDelivered, ListedSites
    <2>3. t \in siteSynced /\ siteCache[t] = NoSite => t \notin Settled
      BY DEF CachesFollow, Settled
    <2> QED
      BY <1>3, <2>1, <2>2, <2>3
         DEF ConfigDelivered, SiteInv, CopyFollows, WakesUp, CleansUp, Watched, Awaited,
             Truthful, siteVars
  <1> QED
    BY <1>1, <1>2, <1>3

LEMMA EditSiteInv ==
  ASSUME Inv, NEW s \in Sites, NEW object, EditSite(s, object), object # site[s],
         object = NoSite \/ ~object.finalizer \/ object.deleting
  PROVE  \A t \in Sites : SiteInv(t)'
  <1> USE DEF Inv
  <1>1. ASSUME NEW t \in Sites, t # s
        PROVE  SiteInv(t)'
    <2>1. Undisturbed(t)
      BY <1>1 DEF EditSite, Written, Undisturbed, dpcVars, TypeOK
    <2> QED
      BY <2>1, UndisturbedInv
  <1>2. /\ ~call'[s].fresh /\ call'[s].step = call[s].step
        /\ call'[s].dpc = call[s].dpc /\ call'[s].err = call[s].err
        /\ call'[s].dpcFresh = call[s].dpcFresh
    BY DEF EditSite, TypeOK, Calls
  <1>3. s \notin siteSynced' /\ s \notin Settled' /\ UNCHANGED siteCache
    BY DEF EditSite, Written, Settled, TypeOK
  <1>4. SiteInv(s)'
    BY <1>2, <1>3
       DEF EditSite, SiteInv, CopyFollows, WakesUp, CleansUp, Watched, Awaited, dpcVars
  <1> QED
    BY <1>1, <1>4

LEMMA EditConfigInv ==
  ASSUME Inv, NEW name, EditConfig(name)
  PROVE  \A t \in Sites : SiteInv(t)'
  <1> SUFFICES ASSUME NEW t \in Sites
               PROVE  SiteInv(t)'
    OBVIOUS
  <1>1. /\ ~call'[t].dpcFresh /\ call'[t].step = call[t].step
        /\ call'[t].drp = call[t].drp /\ call'[t].fresh = call[t].fresh
        /\ call'[t].dpc = call[t].dpc /\ call'[t].err = call[t].err
    BY DEF EditConfig, Stale, Inv, TypeOK, Calls
  <1>2. Undisturbed(t)
    BY <1>1 DEF EditConfig, ConfigWritten, Undisturbed, siteVars
  <1> QED
    BY <1>2, UndisturbedInv DEF Inv

LEMMA AdministratorInv ==
  ASSUME Inv, Administrator
  PROVE  \A t \in Sites : SiteInv(t)'
  <1>1. ASSUME NEW s \in Sites, SiteCreated(s)
        PROVE  \A t \in Sites : SiteInv(t)'
    <2>1. NewSite # site[s] /\ ~NewSite.finalizer
      BY <1>1, IdleType, NoSiteAssumption DEF SiteCreated, NewSite
    <2> QED
      BY <1>1, <2>1, EditSiteInv DEF SiteCreated
  <1>2. ASSUME NEW s \in Sites, SiteDeleted(s)
        PROVE  \A t \in Sites : SiteInv(t)'
    <2> DEFINE deleting == [site[s] EXCEPT !.deleting = TRUE]
    <2>1. deleting.deleting /\ deleting # site[s]
      BY <1>2 DEF SiteDeleted, Inv, TypeOK, DrupalSite
    <2> HIDE DEF deleting
    <2>2. site[s] # NoSite /\ (EditSite(s, deleting) \/ EditSite(s, NoSite))
      BY <1>2 DEF SiteDeleted, deleting
    <2> QED
      BY <2>1, <2>2, EditSiteInv
  <1> QED
    BY <1>1, <1>2, EditConfigInv DEF Administrator, ConfigCreated, PrimaryChosen

LEMMA CachesFollowKept ==
  ASSUME TypeOK, CachesFollow, [Next]_vars
  PROVE  CachesFollow'
  <1> DEFINE SitesFollow == \A s \in Sites : s \in siteSynced => siteCache[s] = site[s]
             ConfigFollows == dpcSynced => dpcCache = dpc
  <1>1. ASSUME NEW s \in Sites, NEW object, Written(s, object)
        PROVE  SitesFollow'
    BY <1>1 DEF Written, TypeOK, CachesFollow
  <1>2. ASSUME NEW name, ConfigWritten(name)
        PROVE  ConfigFollows'
    BY <1>2 DEF ConfigWritten
  <1>3. UNCHANGED siteVars => SitesFollow'
    BY DEF siteVars, CachesFollow
  <1>4. UNCHANGED dpcVars => ConfigFollows'
    BY DEF dpcVars, CachesFollow
  <1>5. ProcessStarts => SitesFollow' /\ ConfigFollows'
    BY DEF ProcessStarts
  <1>6. ASSUME NEW s \in Sites, NEW object, WriteAndReturn(s, object)
        PROVE  SitesFollow'
    BY <1>1, <1>3, <1>6 DEF WriteAndReturn
  <1>7. ASSUME NEW s \in Sites, SiteDelivered(s)
        PROVE  SitesFollow' /\ ConfigFollows'
    BY <1>4, <1>7 DEF SiteDelivered, TypeOK, CachesFollow
  <1>8. ConfigDelivered => SitesFollow' /\ ConfigFollows'
    BY <1>3 DEF ConfigDelivered
  <1> HIDE DEF SitesFollow, ConfigFollows
  <1>9. ASSUME NEW s \in Sites, Reconcile(s)
        PROVE  SitesFollow' /\ ConfigFollows'
    <2>1. CASE Fetch(s) \/ Panic(s)
      BY <1>3, <1>4, <1>5, <2>1 DEF Fetch, Panic
    <2>2. CASE CleanupConfig(s)
      BY <1>2, <1>3, <1>4, <2>2 DEF CleanupConfig
    <2>3. CASE RemoveFinalizer(s) \/ AddFinalizer(s)
      BY <1>4, <1>6, <2>3 DEF RemoveFinalizer, AddFinalizer
    <2>4. CASE CheckIfPrimary(s)
      BY <1>3, <1>4, <1>6, <2>4 DEF CheckIfPrimary
    <2>5. CASE Proclaim(s)
      BY <1>2, <1>3, <1>4, <2>5 DEF Proclaim
    <2>6. CASE FinishCall(s)
      BY <1>3, <1>4, <1>6, <2>6 DEF FinishCall
    <2> QED
      BY <1>9, <2>1, <2>2, <2>3, <2>4, <2>5, <2>6 DEF Reconcile
  <1>10. Administrator => SitesFollow' /\ ConfigFollows'
    BY <1>1, <1>2, <1>3, <1>4
       DEF Administrator, SiteCreated, SiteDeleted, ConfigCreated, PrimaryChosen,
           EditSite, EditConfig
  <1>11. UNCHANGED vars => SitesFollow' /\ ConfigFollows'
    BY <1>3, <1>4 DEF vars
  <1>12. ASSUME NEW s \in Sites, Resync(s)
         PROVE  SitesFollow' /\ ConfigFollows'
    BY <1>3, <1>4, <1>12 DEF Resync
  <1>13. Restart => SitesFollow' /\ ConfigFollows'
    BY <1>5 DEF Restart
  <1>14. SitesFollow' /\ ConfigFollows'
    BY <1>7, <1>8, <1>9, <1>10, <1>11, <1>12, <1>13, Zenon DEF Next
  <1> QED
    BY <1>14 DEF CachesFollow, SitesFollow, ConfigFollows

\* Inv is inductive.
LEMMA Invariance == Spec => []Inv
  <1>1. Init => Inv
    BY IdleType DEF Init, Inv, TypeOK, CachesFollow, SiteInv, CopyFollows, WakesUp,
                    CleansUp, Watched, Awaited, Truthful, Settled, Idle
  <1>2. Inv /\ [Next]_vars => Inv'
    <2> SUFFICES ASSUME Inv, [Next]_vars
                 PROVE  Inv'
      OBVIOUS
    <2>1. TypeOK'
      <3>1. CASE UNCHANGED vars
        BY <3>1 DEF Inv, vars, siteVars, dpcVars, TypeOK
      <3> QED
        BY <3>1, ReconcileType, EnvironmentType DEF Next, Inv
    <2>2. CachesFollow'
      BY CachesFollowKept DEF Inv
    <2>3. \A t \in Sites : SiteInv(t)'
      <3>1. CASE UNCHANGED vars
        <4>1. \A t \in Sites : Undisturbed(t)
          BY <3>1 DEF vars, siteVars, dpcVars, Undisturbed
        <4> QED
          BY <4>1, UndisturbedInv DEF Inv
      <3>2. CASE Restart
        BY <3>2, ProcessStartsInv DEF Restart
      <3> QED
        BY <3>1, <3>2, ReconcileInv, DeliveredInv, AdministratorInv DEF Next
    <2> QED
      BY <2>1, <2>2, <2>3 DEF Inv
  <1> QED
    BY <1>1, <1>2, PTL DEF Spec

-----------------------------------------------------------------------------
(* The theorems.                                                           *)

\* A call that cleans a site up never belongs to a site that is up.
THEOREM CleanupDue == Spec => []CleanupIsDue
  <1>1. Inv => CleanupIsDue
    BY DEF Inv, SiteInv, CleansUp, CleanupIsDue
  <1> QED
    BY <1>1, Invariance, PTL

\* At rest every site that is up tells the truth about being the primary one.
THEOREM StatusTrue == Spec => []RestMeansStatusTrue
  <1>1. Inv => RestMeansStatusTrue
    <2> SUFFICES ASSUME Inv, AtRest, dpc # Absent, NEW s \in Settled
                 PROVE  site[s].primary <=> dpc = s
      BY DEF RestMeansStatusTrue
    <2>1. s \in Sites
      BY DEF Settled
    <2>2. call[s] = Idle
      BY <2>1 DEF AtRest, Running
    <2>3. Awaited(s)
      BY <2>1, <2>2 DEF Inv, SiteInv, Watched, Idle
    <2> QED
      BY <2>1, <2>3 DEF AtRest, Awaited, Truthful
  <1> QED
    BY <1>1, Invariance, PTL

\* The operator fills in an empty name and takes away one of a site that goes;
\* it never overwrites a choice.
THEOREM ChoiceKept == Spec => ChoiceIsKept
  <1>1. Inv /\ [Next]_vars =>
          [dpc' # dpc /\ dpc \in Sites =>
             Administrator \/ (dpc' = Empty /\ dpc \notin Settled)]_vars
    <2> SUFFICES ASSUME Inv, Next, dpc' # dpc, dpc \in Sites, ~Administrator
                 PROVE  dpc' = Empty /\ dpc \notin Settled
      BY DEF Inv
    <2>1. ~UNCHANGED dpcVars
      BY DEF dpcVars
    <2>2. PICK s \in Sites : CleanupConfig(s) \/ Proclaim(s)
      BY <2>1 DEF Next, Reconcile, Fetch, RemoveFinalizer, AddFinalizer, CheckIfPrimary,
           Panic, FinishCall, SiteDelivered, Resync, ConfigDelivered, Restart, ProcessStarts
    <2>3. CASE CleanupConfig(s)
      <3>1. call[s].dpc = s /\ call[s].dpcFresh /\ dpc' = Empty
        BY <2>1, <2>3 DEF CleanupConfig, ConfigAccepted, ConfigWritten
      <3>2. dpc = s
        BY <3>1, SitesAssumption DEF Inv, SiteInv, CopyFollows
      <3> QED
        BY <2>3, <3>1, <3>2 DEF Inv, SiteInv, CleansUp, CleanupConfig
    <2>4. CASE Proclaim(s)
      <3>1. call[s].dpc = Empty /\ call[s].dpcFresh /\ ~call[s].err
        BY <2>1, <2>4 DEF Proclaim, Proclaims, ConfigAccepted
      <3> QED
        BY <3>1, SitesAssumption DEF Inv, SiteInv, CopyFollows
    <2> QED
      BY <2>2, <2>3, <2>4
  <1> QED
    BY <1>1, Invariance, PTL DEF Spec, ChoiceIsKept

-----------------------------------------------------------------------------
(* What the operator leaves alone: the primary site of a project, and what *)
(* the sites that are up say of it.                                        *)

\* Site t is up and says truthfully whether it is p; so do its copies.
Stands(t, p) ==
    /\ t \in Settled
    /\ siteCache[t] = site[t]
    /\ site[t].primary <=> t = p
    /\ call[t].step \in {"idle", "start", "proclaim", "rest"}
    /\ call[t].step # "idle" => call[t].drp = site[t]

\* A fixed point: no call has read another name than that of p.
Standing(p, s) ==
    /\ dpc = p /\ dpcCache = p
    /\ \A t \in Sites : call[t].dpc \in {p, Absent}
    /\ Stands(p, p) /\ Stands(s, p)

\* A step about another site leaves a site that stands alone.
LEMMA OthersStand ==
  ASSUME NEW t \in Sites, NEW p, Stands(t, p),
         site'[t] = site[t], siteCache'[t] = siteCache[t],
         call'[t].step = call[t].step, call'[t].drp = call[t].drp
  PROVE  Stands(t, p)'
  BY DEF Stands, Settled

\* The end of a call, with or without a write.
LEMMA EndStands ==
  ASSUME TypeOK, NEW s \in Sites, NEW object, WriteAndReturn(s, object),
         NEW t \in Sites, NEW p, Stands(t, p), t = s => object = site[s]
  PROVE  Stands(t, p)' /\ site'[t] = site[t]
  <1>1. site'[t] = site[t] /\ siteCache' = siteCache
    BY DEF WriteAndReturn, Written, siteVars, TypeOK
  <1>2. call'[t] = IF t = s THEN Idle ELSE call[t]
    BY DEF WriteAndReturn, Return, TypeOK
  <1>3. Idle.step = "idle"
    BY DEF Idle
  <1> QED
    BY <1>1, <1>2, <1>3 DEF Stands, Settled

LEMMA StandingReconciled ==
  ASSUME TypeOK, NEW p \in Sites, NEW s \in Sites, Standing(p, s),
         NEW r \in Sites, Reconcile(r)
  PROVE  Standing(p, s)' /\ UNCHANGED <<dpc, site[p], site[s]>>
  <1> DEFINE U == {p, s}
             Kept == UNCHANGED <<dpc, dpcCache>> /\ \A t \in Sites : call'[t].dpc \in {p, Absent}
             Left == \A t \in U : Stands(t, p)' /\ site'[t] = site[t]
  <1>0. dpc = p /\ dpcCache = p /\ \A t \in Sites : call[t].dpc \in {p, Absent}
    BY DEF Standing
  <1>u. \A t \in U : t \in Sites /\ Stands(t, p)
    BY DEF Standing
  <1>q. SUFFICES Kept /\ Left
    BY <1>0 DEF Standing
  <1> HIDE DEF U
  <1>i. Idle.dpc = Absent /\ Idle.step = "idle"
    BY DEF Idle
  <1>c. ASSUME NEW t \in U
        PROVE  /\ site[t] # NoSite /\ site[t].finalizer /\ ~site[t].deleting
               /\ siteCache[t] = site[t] /\ site[t].primary \in BOOLEAN
               /\ call[t].step # "idle" => call[t].drp = site[t]
               /\ call[t].step \notin {"cleanup", "unfinalize"}
    BY <1>u DEF Stands, Settled, TypeOK, DrupalSite
  \* A call that ends with a write: the site is not one of the two, or the
  \* same is written.
  <1>1. ASSUME NEW object, WriteAndReturn(r, object), UNCHANGED dpcVars,
               r \in U => object = site[r]
        PROVE  Kept /\ Left
    <2>1. Left
      BY <1>u, <1>1, EndStands
    <2>2. \A t \in Sites : call'[t].dpc \in {p, Absent}
      BY <1>0, <1>i, <1>1 DEF WriteAndReturn, Return, TypeOK
    <2> QED
      BY <1>1, <2>1, <2>2 DEF dpcVars
  \* A call that goes on with the same copies.
  <1>2. ASSUME NEW step, call' = [call EXCEPT ![r].step = step],
               UNCHANGED <<siteVars, dpcVars>>,
               r \in U => call[r].step # "idle"
                           /\ step \in {"start", "proclaim", "rest"}
        PROVE  Kept /\ Left
    <2>1. \A t \in Sites : /\ call'[t].dpc = call[t].dpc /\ call'[t].drp = call[t].drp
                           /\ call'[t].step = IF t = r THEN step ELSE call[t].step
      BY <1>2 DEF TypeOK, Calls
    <2>2. Left
      BY <1>u, <1>2, <2>1 DEF Stands, Settled, siteVars
    <2> QED
      BY <1>0, <1>2, <2>1, <2>2 DEF dpcVars
  <1>3. CASE Fetch(r)
    <2>1. UNCHANGED <<siteVars, dpcVars>>
      BY <1>3 DEF Fetch
    <2>2. CASE siteCache[r] = NoSite /\ UNCHANGED call
      BY <1>0, <1>u, <2>1, <2>2 DEF Stands, Settled, siteVars, dpcVars
    <2>3. CASE siteCache[r] # NoSite
      <3>1. PICK err \in BOOLEAN :
              call' = [call EXCEPT ![r] =
                [step |-> IF siteCache[r].deleting THEN "cleanup" ELSE "start",
                 drp |-> siteCache[r], fresh |-> r \in siteSynced,
                 dpc |-> IF err THEN Absent ELSE dpcCache, dpcFresh |-> dpcSynced,
                 err |-> err, requeue |-> FALSE]]
        BY <1>3, <2>3 DEF Fetch
      <3>2. \A t \in Sites : t # r => call'[t] = call[t]
        BY <3>1 DEF TypeOK
      <3>3. /\ call'[r].step = IF siteCache[r].deleting THEN "cleanup" ELSE "start"
            /\ call'[r].drp = siteCache[r] /\ call'[r].dpc \in {dpcCache, Absent}
        BY <3>1 DEF TypeOK
      <3>4. Left
        BY <1>c, <1>u, <2>1, <3>2, <3>3 DEF Stands, Settled, siteVars
      <3> QED
        BY <1>0, <2>1, <3>2, <3>3, <3>4 DEF dpcVars
    <2> QED
      BY <1>3, <2>2, <2>3 DEF Fetch
  <1>4. CASE CleanupConfig(r)
    <2>1. r \notin U /\ call[r].step = "cleanup"
      BY <1>4, <1>c DEF CleanupConfig
    <2>2. call[r].dpc # r
      BY <1>0, <2>1, SitesAssumption DEF U
    <2>3. call' = [call EXCEPT ![r].step = "unfinalize"] /\ UNCHANGED <<siteVars, dpcVars>>
      BY <1>4, <2>2 DEF CleanupConfig
    <2> QED
      BY <1>2, <2>1, <2>3
  <1>5. CASE RemoveFinalizer(r)
    BY <1>1, <1>5, <1>c DEF RemoveFinalizer
  <1>6. CASE AddFinalizer(r)
    <2>1. r \notin U
      BY <1>6, <1>c DEF AddFinalizer
    <2> QED
      BY <1>1, <1>6, <2>1 DEF AddFinalizer
  <1>7. CASE CheckIfPrimary(r)
    <2>1. CASE call[r].dpc # Absent /\ call[r].drp.primary # IsPrimary(r)
      <3>1. r \notin U
        BY <1>7, <1>0, <1>c, <1>u, <2>1 DEF CheckIfPrimary, IsPrimary, Stands
      <3> QED
        BY <1>1, <1>7, <2>1, <3>1 DEF CheckIfPrimary
    <2>2. CASE ~(call[r].dpc # Absent /\ call[r].drp.primary # IsPrimary(r))
      BY <1>2, <1>7, <2>2 DEF CheckIfPrimary
    <2> QED
      BY <2>1, <2>2
  <1>8. CASE Proclaim(r)
    <2>1. ~Proclaims(r)
      BY <1>0, SitesAssumption DEF Proclaims
    <2>2. call' = [call EXCEPT ![r].step = "rest"] /\ UNCHANGED <<siteVars, dpcVars>>
      BY <1>8, <2>1 DEF Proclaim
    <2> QED
      BY <1>2, <1>8, <2>2 DEF Proclaim
  <1>9. CASE Panic(r)
    BY <1>0, <1>u, <1>i, <1>9 DEF Panic, ProcessStarts, Stands, Settled
  <1>10. CASE FinishCall(r)
    <2>1. CASE WriteAndReturn(r, call[r].drp)
      BY <1>1, <1>10, <1>c, <2>1 DEF FinishCall
    <2>2. CASE Return(r, call[r].requeue) /\ UNCHANGED siteVars
      <3>1. \A t \in Sites : call'[t] = IF t = r THEN Idle ELSE call[t]
        BY <2>2 DEF Return, TypeOK
      <3> QED
        BY <1>0, <1>u, <1>i, <1>10, <2>2, <3>1 DEF FinishCall, Stands, Settled, siteVars, dpcVars
    <2> QED
      BY <1>10, <2>1, <2>2 DEF FinishCall
  <1> QED
    BY <1>3, <1>4, <1>5, <1>6, <1>7, <1>8, <1>9, <1>10 DEF Reconcile

LEMMA StandingKept ==
  ASSUME TypeOK, NEW p \in Sites, NEW s \in Sites, Standing(p, s),
         [Next]_vars, ~Administrator
  PROVE  Standing(p, s)' /\ UNCHANGED <<dpc, site[p], site[s]>>
  <1>1. CASE UNCHANGED vars
    BY <1>1 DEF vars, siteVars, dpcVars, Standing, Stands, Settled
  <1>2. ASSUME NEW r \in Sites, SiteDelivered(r)
        PROVE  Standing(p, s)' /\ UNCHANGED <<dpc, site[p], site[s]>>
    <2>1. \A t \in {p, s} : siteCache'[t] = site[t]
      BY <1>2 DEF SiteDelivered, Standing, Stands, TypeOK
    <2> QED
      BY <1>2, <2>1 DEF SiteDelivered, Standing, Stands, Settled, dpcVars
  <1>3. CASE ConfigDelivered \/ \E r \in Sites : Resync(r)
    BY <1>3 DEF ConfigDelivered, Resync, siteVars, dpcVars, Standing, Stands, Settled
  <1>4. CASE Restart
    <2>1. \A t \in Sites : call'[t].step = "idle" /\ call'[t].dpc = Absent
      BY <1>4 DEF Restart, ProcessStarts, Idle
    <2> QED
      BY <1>4, <2>1 DEF Restart, ProcessStarts, Standing, Stands, Settled
  <1> QED
    BY <1>1, <1>2, <1>3, <1>4, StandingReconciled DEF Next

\* When the operator rests, the primary site of the project is one that is up,
\* and until an administrator does something, it stays the primary one:
\* whatever writes and reads fail, whichever calls are interrupted, the name in
\* the configuration, this site and every other one that is up are not written
\* with something else again.
THEOREM PrimaryStays ==
  ASSUME NEW CONSTANT p \in Sites, NEW CONSTANT s \in Sites
  PROVE  Spec => [](AtRest /\ dpc = p /\ p \in Settled /\ s \in Settled
                      => ([][~Administrator]_vars
                            => [][UNCHANGED <<dpc, site[p], site[s]>>]_vars))
  <1>1. Inv /\ AtRest /\ dpc = p /\ p \in Settled /\ s \in Settled => Standing(p, s)
    <2> SUFFICES ASSUME Inv, AtRest, dpc = p, p \in Settled, s \in Settled
                 PROVE  Standing(p, s)
      OBVIOUS
    <2>1. \A t \in Sites : call[t] = Idle /\ siteCache[t] = site[t]
      BY DEF Inv, AtRest, Running, CachesFollow
    <2>2. dpcCache = p
      BY DEF Inv, AtRest, CachesFollow
    <2>3. \A t \in {p, s} : site[t].primary <=> t = p
      <3> SUFFICES ASSUME NEW t \in {p, s}
                   PROVE  site[t].primary <=> t = p
        OBVIOUS
      <3>1. Awaited(t)
        BY <2>1 DEF Inv, SiteInv, Watched, Idle
      <3> QED
        BY <3>1, SitesAssumption DEF AtRest, Awaited, Truthful
    <2> QED
      BY <2>1, <2>2, <2>3 DEF Standing, Stands, Idle
  <1>2. Inv /\ Standing(p, s) /\ [Next]_vars /\ [~Administrator]_vars
          => Standing(p, s)' /\ [UNCHANGED <<dpc, site[p], site[s]>>]_vars
    <2> SUFFICES ASSUME Inv, Standing(p, s), [Next]_vars, [~Administrator]_vars
                 PROVE  Standing(p, s)' /\ UNCHANGED <<dpc, site[p], site[s]>>
      OBVIOUS
    <2>1. CASE UNCHANGED vars
      BY <2>1 DEF vars, siteVars, dpcVars, Standing, Stands, Settled
    <2> QED
      BY <2>1, StandingKept DEF Inv
  <1> QED
    BY <1>1, <1>2, Invariance, PTL DEF Spec
=============================================================================
