------------------------- MODULE SiteUpdateLiveness -------------------------
(***************************************************************************)
(* That updates come to an end.  The variable calm becomes true when the   *)
(* administrator stays with the release asked for, the operator does not   *)
(* restart any more and pods that are ready stay ready: then, with weak    *)
(* fairness, the update under way has to be decided.  The faults that an   *)
(* update answers for itself (a slow pod, a cache reload that prints an    *)
(* error) go on.                                                           *)
(***************************************************************************)
EXTENDS SiteUpdate

VARIABLE calm

\* The environment without edits, restarts and losses of readiness.
CalmEnvironment ==
    \/ InformerSync \/ Resync \/ DeploymentDeleted \/ DBODProvisioned
    \/ \E r \in Releases :
         SiteInstalled(r) \/ DeploymentController(r) \/ PodLate(r) \/ PodFails(r)

CalmNext ==
    \/ ~calm /\ Next /\ UNCHANGED calm
    \/ ~calm /\ calm' = TRUE /\ UNCHANGED vars
    \/ calm /\ (Reconcile \/ CalmEnvironment) /\ UNCHANGED calm

LiveSpec ==
    /\ Init /\ calm = FALSE
    /\ [][CalmNext]_<<vars, calm>>
    /\ Fairness

Completed(r) ==
    /\ cr.current = r /\ cr.failsafe = r /\ deploy = r /\ pod[r] = "ready"
    /\ cr.ready = "True" /\ ~cr.uip /\ cr.dbPending = "none" /\ ~HasUpdb(r)

\* Once things are calm the update ends: the release asked for serves and is
\* adopted, with its database migrated and the annotation gone, or a failure
\* condition stands for good (Reconcile, updateDrupalVersion, updateDBSchema).
UpdatesAreDecided ==
    <>calm => <>[](Completed(cr.ver) \/ cr.codeFailed \/ cr.dbFailed)
=============================================================================
