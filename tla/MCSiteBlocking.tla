--------------------------- MODULE MCSiteBlocking ---------------------------
(* Values of the constants of SiteBlocking for model checking.             *)
EXTENDS SiteBlocking

CONSTANTS r1, r2

\* Release r2 has database updates for a site that runs r1.
MCUpdbFrom == [r \in Releases |-> IF r = r2 THEN {r1} ELSE {}]
=============================================================================
