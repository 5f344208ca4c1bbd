------------------------ MODULE MCCorrelationStore ------------------------
(* Instance of CorrelationStore for TLC. *)
EXTENDS CorrelationStore

Base == [asset |-> None, ip |-> None, indicator |-> None, category |-> None, rule |-> None,
         rcat |-> None, severity |-> NoSeverity, verdict |-> None, conf |-> "low"]
With(f) == [k \in DOMAIN f \cup DOMAIN Base |-> IF k \in DOMAIN f THEN f[k] ELSE Base[k]]

\* Three findings, each near in time only to the next; an address in the intelligence.
Finding1 == With([id |-> 1, type |-> "finding", asset |-> "a1", category |-> "exposure", severity |-> 3, at |-> 0])
Finding2 == With([id |-> 2, type |-> "finding", asset |-> "a2", severity |-> 1, at |-> 2])
Finding3 == With([id |-> 3, type |-> "finding", asset |-> "a3", severity |-> 1, at |-> 4])
Asset4   == With([id |-> 4, type |-> "asset", asset |-> "a4", ip |-> "ip4", at |-> 7])
Record5  == With([id |-> 5, type |-> "intelligence_record", indicator |-> "ip4", verdict |-> "benign",
                  conf |-> "high", at |-> 11])

MCCatalog == <<Finding1, Finding2, Finding3, Asset4, Record5>>
Symmetry == Permutations(Evaluators) \cup Permutations(Analysts)

\* Everything, and a window that ends after the findings.
MCWindows == {<<0, 12>>, <<0, 5>>}
ASSUME WindowsAgree
=============================================================================
