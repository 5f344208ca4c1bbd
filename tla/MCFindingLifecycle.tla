------------------------ MODULE MCFindingLifecycle ------------------------
(* Instances of FindingLifecycle for TLC.                                  *)
EXTENDS FindingLifecycle, TLC

CONSTANTS f1, f2, a1, a2, d1, d2

OneAsset == [f \in Finding |-> a1]
AssetEach == [f \in Finding |-> IF f = f1 THEN a1 ELSE a2]
DetectorEach == [f \in Finding |-> IF f = f1 THEN d1 ELSE d2]

AllActive == {Detector}

NoFaults == {}
AllFaults == FaultKinds
LostWork == {"persist", "crash"}
ScanSymmetry == Permutations(Scan)
===========================================================================
