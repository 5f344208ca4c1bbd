-------------------------- MODULE CorrelationGraph --------------------------
(* The correlation engine without its database: strategies link            *)
(* observations, the edges make a graph, its connected components become   *)
(* correlations, and each is scored and given an attack chain.             *)
(* internal/correlation and internal/correlation/strategies.               *)
(*                                                                         *)
(* An observation is a record whose integer id stands for its type:uuid    *)
(* key; None is the absent asset, address or category.                     *)
EXTENDS Lists, FiniteSets, SequencesExt

CONSTANTS None,
          TemporalWindow, MaxNodes, MaxEdges, MaxCandidates, \* the effective configuration
          DisabledStrategies                                 \* correlation.strategies set to false

Rank == [low |-> 0, medium |-> 1, high |-> 2]
Severities == <<"informational", "low", "medium", "high", "critical">>
NoSeverity == -1

-----------------------------------------------------------------------------
(* Strategies: each maps the observations, in order, to a sequence of edges. *)

Pairs(s) == FlattenSeq([i \in 1..Len(s) |-> [k \in 1..(Len(s) - i) |-> <<s[i], s[i + k]>>]])

\* Sorted by time; where times are equal, in the order they came.
ByTime(s) ==
    LET Place(k) == Cardinality({j \in DOMAIN s : s[j].at < s[k].at \/ (s[j].at = s[k].at /\ j <= k)})
    IN [i \in DOMAIN s |-> s[CHOOSE k \in DOMAIN s : Place(k) = i]]

Links(pairs, related, rel, prov, conf, strategy) ==
    LET chosen == Picked(pairs, {k \in DOMAIN pairs : pairs[k] \in related})
    IN [i \in DOMAIN chosen |->
          [src |-> chosen[i][1].id, dst |-> chosen[i][2].id, rel |-> rel,
           prov |-> prov, conf |-> conf, strategy |-> strategy]]

AssetEdges(obs) ==
    LET pairs == Pairs(obs)
    IN Links(pairs, {p \in ToSet(pairs) : p[1].asset # None /\ p[1].asset = p[2].asset},
             "observed_on", "observed", "high", "asset")

DetectionEdges(obs) ==
    LET matches == {i \in DOMAIN obs : obs[i].type = "detection_match" /\ obs[i].asset # None}
        pairs == Pairs(ByTime(Picked(obs, matches)))
    IN Links(pairs, {p \in ToSet(pairs) : p[1].asset = p[2].asset /\ p[1].rule # p[2].rule},
             "followed_by", "inferred", "medium", "detection")

IdentityEdges(obs) ==
    LET pairs == Pairs(Picked(obs, {i \in DOMAIN obs : obs[i].category = "authentication" /\ obs[i].asset # None}))
    IN Links(pairs, {p \in ToSet(pairs) : p[1].asset = p[2].asset},
             "associated_with", "inferred", "low", "identity")

\* One edge per record and matching observation; the record's confidence is the edge's.
IntelligenceEdges(obs) ==
    LET Matching(rec) == Picked(obs, {i \in DOMAIN obs : /\ obs[i].type # "intelligence_record" /\ obs[i].ip # None
                                                         /\ rec.indicator # None /\ rec.indicator = obs[i].ip})
        Of(rec) == [i \in DOMAIN Matching(rec) |->
                      [src |-> Matching(rec)[i].id, dst |-> rec.id, rel |-> "enriched_by",
                       prov |-> "observed", conf |-> rec.conf, strategy |-> "intelligence"]]
        records == Picked(obs, {i \in DOMAIN obs : obs[i].type = "intelligence_record"})
    IN FlattenSeq([i \in DOMAIN records |-> Of(records[i])])

NetworkEdges(obs) ==
    LET pairs == Pairs(obs)
    IN Links(pairs, {p \in ToSet(pairs) : p[1].ip # None /\ p[1].ip = p[2].ip /\ p[1].asset # p[2].asset},
             "associated_with", "inferred", "low", "network")

TemporalEdges(obs) ==
    LET pairs == Pairs(ByTime(obs))
    IN Links(pairs, {p \in ToSet(pairs) : p[2].at - p[1].at <= TemporalWindow},
             "followed_by", "inferred", "low", "temporal")

\* StrategyRegistry.Active lists the strategies by id.
Active == <<"asset", "detection", "identity", "intelligence", "network", "temporal">>

EdgesOf(strategy, obs) ==
    IF strategy \in DisabledStrategies THEN <<>>
    ELSE CASE strategy = "asset"        -> AssetEdges(obs)
           [] strategy = "detection"    -> DetectionEdges(obs)
           [] strategy = "identity"     -> IdentityEdges(obs)
           [] strategy = "intelligence" -> IntelligenceEdges(obs)
           [] strategy = "network"      -> NetworkEdges(obs)
           [] OTHER                     -> TemporalEdges(obs)

EdgeKey(e) == <<e.src, e.dst, e.rel, e.strategy>>

\* The first edge of every key.
DedupEdges(edges) ==
    Picked(edges, {i \in DOMAIN edges : \A k \in 1..(i - 1) : EdgeKey(edges[k]) # EdgeKey(edges[i])})

\* Only the strategies see the truncated observations; BuildGraph gets them all.
Correlate(obs) ==
    LET input == SubSeq(obs, 1, IF Len(obs) < MaxCandidates THEN Len(obs) ELSE MaxCandidates)
    IN DedupEdges(FlattenSeq([i \in DOMAIN Active |-> EdgesOf(Active[i], input)]))

-----------------------------------------------------------------------------
(* The graph and its components.                                           *)

EmptyGraph == [nodes |-> {}, edges |-> <<>>]

\* addNode for both ends: at the node limit the later end stays out, and the
\* edge with it, while the earlier end remains a node.
AddEdge(g, e) ==
    LET Grow(nodes, n) == IF Cardinality(nodes) < MaxNodes THEN nodes \cup {n} ELSE nodes
        nodes == Grow(Grow(g.nodes, e.src), e.dst)
    IN IF Len(g.edges) >= MaxEdges THEN g
       ELSE IF {e.src, e.dst} \subseteq nodes THEN [nodes |-> nodes, edges |-> Append(g.edges, e)]
       ELSE [g EXCEPT !.nodes = nodes]

BuildGraph(edges) ==
    LET after[n \in 0..Len(edges)] == IF n = 0 THEN EmptyGraph ELSE AddEdge(after[n - 1], edges[n])
    IN after[Len(edges)]

\* The union-find forest as the map from every node to its root.
Union_Shallow(root, e) == [root EXCEPT ![e.src] = root[e.dst]]
Union(root, e) ==
    [n \in DOMAIN root |-> IF root[n] = root[e.src] THEN root[e.dst] ELSE root[n]]

Roots(g) ==
    LET after[n \in 0..Len(g.edges)] ==
          IF n = 0 THEN [m \in g.nodes |-> m] ELSE Union(after[n - 1], g.edges[n])
    IN after[Len(g.edges)]

ConnectedComponents(g) ==
    LET root  == Roots(g)
        Of(r) == LET members == {n \in g.nodes : root[n] = r}
                 IN [nodes |-> members,
                     edges |-> Picked(g.edges, {i \in DOMAIN g.edges : g.edges[i].src \in members})]
    IN {Of(root[n]) : n \in g.nodes}

\* Reference: the nodes every set contains that holds n and what its members are linked to,
\* edges taken in both directions.
Closed(g, S) == \A i \in DOMAIN g.edges : g.edges[i].src \in S <=> g.edges[i].dst \in S
Reachable(g, n) == {m \in g.nodes : \A S \in SUBSET g.nodes : n \in S /\ Closed(g, S) => m \in S}

-----------------------------------------------------------------------------
(* Scoring and severity of a component; byId gives its nodes' observations. *)

Capped(n, cap) == IF n > cap THEN cap ELSE n
SumOf(s) ==
    LET upTo[n \in 0..Len(s)] == IF n = 0 THEN 0 ELSE upTo[n - 1] + s[n]
    IN upTo[Len(s)]

MaxSeverity(c, byId) ==
    LET ranks == {byId[n].severity : n \in c.nodes}
    IN CHOOSE r \in ranks : \A other \in ranks : other <= r

Points == [low |-> 5, medium |-> 10, high |-> 18]

Score(c, byId) ==
    LET verdicts == {byId[n].verdict : n \in c.nodes}
        worst    == MaxSeverity(c, byId)
    IN Capped((IF Cardinality(c.nodes) > 1 THEN 15 ELSE 0)
              + Capped(SumOf([i \in DOMAIN c.edges |-> Points[c.edges[i].conf]]), 40)
              + Capped(8 * Cardinality({byId[n].type : n \in c.nodes}), 24)
              + (IF worst = NoSeverity THEN 0 ELSE Capped(6 * worst, 24))
              + (IF "malicious" \in verdicts THEN 12
                 ELSE IF "suspicious" \in verdicts THEN 6 ELSE 0), 100)

ConfidenceForScore(score) ==
    IF score >= 75 THEN "high" ELSE IF score >= 45 THEN "medium" ELSE "low"

DeriveSeverity(c, byId, confidence) ==
    LET worst == MaxSeverity(c, byId)
    IN IF worst = NoSeverity THEN "informational"
       ELSE IF worst > 0 /\ confidence = "low" THEN Severities[worst]
       ELSE Severities[worst + 1]

\* The identity of a component: its references and the bucket of the earliest.
Fingerprint(c, byId) ==
    LET earliest == CHOOSE t \in {byId[n].at : n \in c.nodes} : \A n \in c.nodes : t <= byId[n].at
    IN <<c.nodes, earliest \div TemporalWindow>>

IsTrigger(c, n) ==
    \E i \in DOMAIN c.edges : n \in {c.edges[i].src, c.edges[i].dst} /\ c.edges[i].prov = "observed"

-----------------------------------------------------------------------------
(* Attack chains. A category is one of the words the code looks for.       *)

KeywordStage(rcat) ==
    CASE rcat = None          -> None
      [] rcat = "privilege"   -> "privilege_change"
      [] rcat = "persistence" -> "persistence_signal"
      [] rcat = "discovery"   -> "discovery_signal"
      [] rcat = "data"        -> "data_access"
      [] rcat = "impact"      -> "impact_signal"
      [] OTHER                -> "execution"

ClassifyStage(o) ==
    IF o.category = "authentication" THEN "authentication"
    ELSE IF o.type = "intelligence_record" /\ o.verdict \in {"malicious", "suspicious"} THEN "network_activity"
    ELSE IF o.type = "asset" THEN "initial_activity"
    ELSE IF o.type = "endpoint" \/ o.category \in {"exposure", "information_disclosure"} THEN "discovery_signal"
    ELSE IF o.type = "detection_match" THEN KeywordStage(o.rcat)
    ELSE None

BestRank(c, n) ==
    LET ranks == {Rank[c.edges[i].conf] : i \in {j \in DOMAIN c.edges : n \in {c.edges[j].src, c.edges[j].dst}}}
    IN CHOOSE r \in ranks \cup {0} : \A other \in ranks : other <= r

\* A stage starts with no confidence and takes one only when it ranks above 0:
\* a stage held together by low edges keeps the empty string, here None.
StageConfidence(c, members) ==
    LET best == {BestRank(c, n) : n \in members}
    IN IF 2 \in best THEN "high" ELSE IF 1 \in best THEN "medium" ELSE None

BuildChain(c, byId) ==
    LET Stage(n)   == ClassifyStage(byId[n])
        Members(s) == {n \in c.nodes : Stage(n) = s}
        First(s)   == CHOOSE t \in {byId[n].at : n \in Members(s)} : \A n \in Members(s) : t <= byId[n].at
        \* the stages in the order of their first node's key, then by time
        firsts == {n \in c.nodes : Stage(n) # None /\ \A m \in Members(Stage(n)) : n <= m}
        order  == SetToSortSeq(firsts, <)
        drafts == [i \in DOMAIN order |->
                     LET s == Stage(order[i]) IN
                     [stage |-> s, at |-> First(s), evidence |-> Members(s),
                      conf |-> StageConfidence(c, Members(s))]]
    IN ByTime(drafts)

ChainConfidence(stages) ==
    LET Weight(s) == Cardinality(s.evidence)
        total == SumOf([i \in DOMAIN stages |-> Weight(stages[i])])
        ranks == SumOf([i \in DOMAIN stages |->
                          (IF stages[i].conf = None THEN 0 ELSE Rank[stages[i].conf]) * Weight(stages[i])])
    IN IF total = 0 THEN "low"
       ELSE LET avg == (2 * ranks + total) \div (2 * total)
            IN CASE avg = 2 -> "high" [] avg = 1 -> "medium" [] OTHER -> "low"
=============================================================================
