--------------------------- MODULE MCPrimarySite ----------------------------
(* Values of the constants of PrimarySite for model checking.              *)
EXTENDS PrimarySite, TLC

CONSTANTS a, b

\* The names of sites are interchangeable.
SiteSymmetry == Permutations(Sites)
=============================================================================
