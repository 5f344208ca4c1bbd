--------------------------- MODULE MCIntelligence ---------------------------
(* Small instances of Intelligence for TLC.                                *)
EXTENDS Intelligence

A(id, named, host, url) == [id |-> id, target |-> "t1", named |-> named, host |-> host, url |-> url,
                            facing |-> FALSE, api |-> named, sensitive |-> FALSE]
\* A host known by name, and an asset nothing can be asked about.
TwoAssets == <<A("a1", TRUE, "h1", None), A("a2", FALSE, None, None)>>
Same == [i \in {"h1", "u1"} |-> i]
OneFinding == [f \in {"f1"} |-> "a1"]
Investigations == [v \in {"v1", "v2"} |->
                     IF v = "v1" THEN {<<"asset", "a2">>, <<"finding", "f1">>} ELSE {<<"asset", "a2">>}]
\* What an earlier command stored for the first asset.
EarlierScore == {[entity |-> <<"asset", "a1">>, at |-> 0, job |-> 0, score |-> 30, severity |-> "medium",
                  confidence |-> "medium", factors |-> {"finding_severity"}]}
Versions == [t \in {"", "1.18", "1.18.0", "next"} |->
               CASE t = "1.18" -> <<1, 18>> [] t = "1.18.0" -> <<1, 18, 0>> [] OTHER -> <<>>]
Web(v) == [product |-> "web", version |-> v, sure |-> 2]
SomeTechnologies == {<<Web("1.18.0")>>, <<>>}
CatalogEntry(op, v) == [id |-> "cve1", product |-> "web", constraints |-> <<Constraint(op, v)>>]
OldTechs == [a \in {"a1", "a2"} |-> IF a = "a1" THEN <<Web("1.18.0")>> ELSE <<>>]
SomeConstraints == {CatalogEntry("<=", "1.18.0")}
OldCatalog == [v \in {"cve1", "cve2"} |->
                  [product |-> "web", constraints |-> <<Constraint(IF v = "cve1" THEN ">" ELSE "<=", "1.18.0")>>]]
SomeJobs == <<{<<"asset", "a1">>},
              {<<"asset", "a1">>, <<"finding", "f1">>, <<"project", "t1">>, <<"enrich", "t1", "h1">>,
               <<"refresh", "t1", "h1">>, <<"lookup", "t1", "h1">>,
               <<"investigation", "v1">>, <<"investigation", "v2">>}>>
Symmetry == Permutations(Commands)
=============================================================================
