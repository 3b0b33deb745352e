------------------------ MODULE MCSupportedVersions -------------------------
(* Values of the constants of SupportedVersions for model checking.        *)
EXTENDS SupportedVersions

CONSTANTS v1, v2

\* A version with a release that cannot be read, a version that has one tag
\* without a readable time and one without any.
MCTags == {[version |-> v1, time |-> 1],
           [version |-> v1, time |-> Unparsable],
           [version |-> v2, time |-> 2],
           [version |-> v2, time |-> Bare]}

MCBlacklists == {{}, {v1}}
=============================================================================
