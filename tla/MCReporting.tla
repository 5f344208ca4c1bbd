---------------------------- MODULE MCReporting ----------------------------
(* Instance of Casework and Reporting for TLC. *)
EXTENDS Reporting
F(id, e, c, first, last, h) == [id |-> id, asset |-> "a1", endpoint |-> e, category |-> c,
                                first |-> first, last |-> last, open |-> TRUE, history |-> h]
MCFindings == <<F("f1", "e1", "authentication", 2, 4, <<"resolved">>),
                F("f2", NoOne, "authentication", 3, 3, <<>>)>>
MCAssets == <<[id |-> "a1", ip |-> "ip1", first |-> 1]>>
MCEndpoints == <<[id |-> "e1", first |-> 1]>>
MCTechnologies == <<[id |-> "t1", asset |-> "a1"]>>
MCInitialEvidence == {<<NoOne, NoOne>>, <<"f1", "a1">>}
Symmetry == Permutations(Processes)
MCSubjects == {<<"investigation", 1>>, <<"investigation", 2>>, <<"asset", "a1">>, <<"executive", NoOne>>}
=============================================================================
