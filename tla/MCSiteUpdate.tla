---------------------------- MODULE MCSiteUpdate ----------------------------
(* Values of the constants of SiteUpdate for model checking.               *)
EXTENDS SiteUpdate

CONSTANTS r1, r2, r3

\* Release r2 has database updates for a site that runs r1; r3 has for r2.
MCUpdbFrom == [r \in Releases |-> IF r = r2 THEN {r1}
                                  ELSE IF r = r3 THEN {r2} ELSE {}]
=============================================================================
