--------------------------- MODULE MCAlertPipeline ---------------------------
(* Small pipelines for TLC.                                                *)
EXTENDS AlertPipeline, TLC

CONSTANTS r1, a1, a2, high, m1, m2, e1, e2, p1, p2, low

OneRule == [m \in Match |-> r1]
FirstVersion == [m \in Match |-> 1]
VersionEach == [m \in Match |-> IF m = m1 THEN 1 ELSE 2]
TwoTimes == {1, 2}
OneTime == {1}
NoFaults == {}
CatalogFaults == {"insert", "sync", "link", "crash"}
Authors == Permutations(Author)
AllFaults == {"match", "evidence", "status", "alert", "check", "link", "crash"}
Evaluators == Permutations(Evaluator)
=============================================================================
