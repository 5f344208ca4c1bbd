---------------------------- MODULE MCRuleCatalog ----------------------------
(* Small catalogues for TLC.                                               *)
EXTENDS RuleCatalog

CONSTANTS r1, r2, a1, a2, low, high

NoFaults == {}
=============================================================================
