-------------------------- MODULE ReleaseContract --------------------------
(***************************************************************************)
(* What a DrupalSite promises about its releases, with the operator, the   *)
(* API server, the pods and the caches left out.  The site administrator   *)
(* asks for releases; the operator observes what is asked, adopts a        *)
(* release as the Failsafe, or rejects it with a failure condition that    *)
(* stands until the administrator goes back to the Failsafe.               *)
(***************************************************************************)
CONSTANTS
    Releases,   \* the release identifiers an administrator may ask for
    Empty       \* the empty string: a release identifier not set yet

VARIABLES
    want,       \* spec.version, the release asked for
    current,    \* status.releaseID.current
    failsafe,   \* status.releaseID.failsafe
    codeFailed, \* condition CodeUpdateFailed
    dbFailed    \* condition DBUpdatesFailed

contractVars == <<want, current, failsafe, codeFailed, dbFailed>>

ContractInit ==
    /\ want \in Releases
    /\ current = Empty
    /\ failsafe = Empty
    /\ codeFailed = FALSE
    /\ dbFailed = FALSE

\* The administrator edits the specification, at any time.
Request(r) ==
    /\ want' = r
    /\ UNCHANGED <<current, failsafe, codeFailed, dbFailed>>

\* The request is taken into account.  Going back to the Failsafe is what
\* clears the failure conditions.
Observe ==
    /\ current' = want
    /\ codeFailed' = (codeFailed /\ want # failsafe)
    /\ dbFailed' = (dbFailed /\ want # failsafe)
    /\ UNCHANGED <<want, failsafe>>

\* Only the release asked for and observed becomes the Failsafe, and never
\* while a failure stands.
Adopt ==
    /\ current = want
    /\ ~codeFailed
    /\ ~dbFailed
    /\ failsafe' = want
    /\ UNCHANGED <<want, current, codeFailed, dbFailed>>

RejectCode ==
    /\ current = want
    /\ ~codeFailed
    /\ codeFailed' = TRUE
    /\ UNCHANGED <<want, current, failsafe, dbFailed>>

RejectDB ==
    /\ current = want
    /\ ~codeFailed
    /\ ~dbFailed
    /\ dbFailed' = TRUE
    /\ UNCHANGED <<want, current, failsafe, codeFailed>>

ContractNext ==
    \/ \E r \in Releases : Request(r)
    \/ Observe
    \/ Adopt
    \/ RejectCode
    \/ RejectDB

ContractSpec == ContractInit /\ [][ContractNext]_contractVars
============================================================================
