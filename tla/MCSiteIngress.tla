--------------------------- MODULE MCSiteIngress ----------------------------
(* Values of the constants of SiteIngress for model checking.              *)
EXTENDS SiteIngress

CONSTANTS h1, h2

\* A site that is renamed, back and forth.
MCSiteUrls == {{h1}, {h2}}
=============================================================================
