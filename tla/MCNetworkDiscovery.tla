------------------------ MODULE MCNetworkDiscovery ------------------------
(* A small target for TLC.                                                 *)
EXTENDS NetworkDiscovery

CONSTANTS s1, s2

(* Two profiles that overlap in one port.                                  *)
Overlap == (s1 :> {1, 2}) @@ (s2 :> {2})
=============================================================================
