---------------------------- MODULE FindingLinks ----------------------------
(* The correlation engine of investigations: eight rules that look at the  *)
(* findings attached to an investigation and say which of them belong      *)
(* together, and how strongly.                                             *)
(* internal/investigation and internal/investigation/correlation.          *)
EXTENDS Lists, SequencesExt

CONSTANTS NoOne,          \* the nil id, the empty string, a row that is not there
          LinkWindow,     \* Config.TemporalWindow, not positive: the default
          LinkThreshold,  \* Config.Threshold, not positive: the default
          LinkRulesOff    \* rule ids the configuration disables

\* Scores are points; DefaultTemporalWindow is five minutes, five units here.
DefaultThreshold == 60
EffectiveThreshold == IF LinkThreshold <= 0 THEN DefaultThreshold ELSE LinkThreshold
EffectiveTemporalWindow == IF LinkWindow <= 0 THEN 5 ELSE LinkWindow

\* What the rules see of a finding, an asset, an endpoint and a technology.
\* A time of 0 is the zero time.
FindingObservation(f) ==
    /\ {"id", "asset", "endpoint", "category", "first", "last"} \subseteq DOMAIN f
    /\ f.first \in Nat /\ f.last \in Nat
AssetObservation(a) == {"id", "ip", "first"} \subseteq DOMAIN a /\ a.first \in Nat
EndpointObservation(e) == {"id", "first"} \subseteq DOMAIN e /\ e.first \in Nat
TechnologyObservation(t) == {"id", "asset"} \subseteq DOMAIN t

AssetOf(in, id) == Picked(in.assets, {n \in DOMAIN in.assets : in.assets[n].id = id})
EndpointOf(in, id) == Picked(in.endpoints, {n \in DOMAIN in.endpoints : in.endpoints[n].id = id})

ConfidenceForScore(score) ==
    IF score >= 90 THEN "very_high" ELSE IF score >= 70 THEN "high" ELSE IF score >= 50 THEN "medium"
    ELSE IF score >= 25 THEN "low" ELSE "very_low"

-----------------------------------------------------------------------------
(* Helpers of the rules.                                                   *)

NewRelationship(a, b, type, score, rule) ==
    [source |-> a.id, targetType |-> "finding", target |-> b.id, type |-> type,
     score |-> score, rule |-> rule]
NewEntityRelationship(f, targetType, target, type, score, rule) ==
    [source |-> f.id, targetType |-> targetType, target |-> target, type |-> type,
     score |-> score, rule |-> rule]
\* Key: two relationships with one key are the same edge.
RelationshipKey(r) == <<r.source, r.targetType, r.target, r.type, r.rule>>

WithinWindow(t1, t2) ==
    /\ t1 # 0 /\ t2 # 0
    /\ LET gap == IF t1 > t2 THEN t1 - t2 ELSE t2 - t1 IN gap <= EffectiveTemporalWindow

\* The unordered pairs, the earlier one of the listing first.
ForEachFindingPair(fs) ==
    FlattenSeq([i \in DOMAIN fs |-> [k \in 1..(Len(fs) - i) |-> <<fs[i], fs[i + k]>>]])

PairRule(in, Holds(_, _), type, score, rule) ==
    LET pairs == ForEachFindingPair(in.findings)
        ps == Picked(pairs, {n \in DOMAIN pairs : Holds(pairs[n][1], pairs[n][2])})
    IN [i \in DOMAIN ps |-> NewRelationship(ps[i][1], ps[i][2], type, score, rule)]

-----------------------------------------------------------------------------
(* The rules.                                                              *)

SameAssetRule(in) ==
    LET Holds(a, b) == a.asset = b.asset /\ a.asset # NoOne
    IN PairRule(in, Holds, "same_asset", 30, "same_asset_findings")

SameEndpointRule(in) ==
    LET Holds(a, b) == a.endpoint # NoOne /\ a.endpoint = b.endpoint
    IN PairRule(in, Holds, "same_endpoint", 30, "same_endpoint_findings")

TemporalProximityRule(in) ==
    LET Holds(a, b) == WithinWindow(a.first, b.first)
    IN PairRule(in, Holds, "temporal_proximity", 20, "temporal_proximity")

SameServiceRule(in) ==
    LET Ip(x) == LET as == AssetOf(in, x.asset) IN IF as = <<>> THEN NoOne ELSE as[1].ip
        Holds(a, b) == a.asset # b.asset /\ Ip(a) # NoOne /\ Ip(a) = Ip(b)
    IN PairRule(in, Holds, "same_service", 15, "same_service")

AuthenticationColocationRule(in) ==
    LET Holds(a, b) == /\ a.asset = b.asset
                       /\ a.category = "authentication" /\ b.category = "authentication"
    IN PairRule(in, Holds, "authentication_colocation", 15, "authentication_colocation")

TechnologyRule(in) ==
    FlattenSeq([i \in DOMAIN in.findings |->
        LET f  == in.findings[i]
            ts == Picked(in.technologies, {n \in DOMAIN in.technologies :
                            in.technologies[n].asset = f.asset /\ in.technologies[n].id # NoOne})
        IN [k \in DOMAIN ts |-> NewEntityRelationship(f, "technology", ts[k].id, "same_technology",
                                                     10, "technology_correlation")]])

ChangeBasedRule(in) ==
    LET Changed(f) == LET es == EndpointOf(in, f.endpoint)
                      IN f.endpoint # NoOne /\ es # <<>> /\ WithinWindow(es[1].first, f.first)
        fs == Picked(in.findings, {n \in DOMAIN in.findings : Changed(in.findings[n])})
    IN [i \in DOMAIN fs |-> NewEntityRelationship(fs[i], "endpoint", fs[i].endpoint, "change_based",
                                                  25, "endpoint_change_with_finding")]

NewAssetWithFindingRule(in) ==
    LET OnNewAsset(f) == LET as == AssetOf(in, f.asset) IN as # <<>> /\ WithinWindow(as[1].first, f.first)
        fs == Picked(in.findings, {n \in DOMAIN in.findings : OnNewAsset(in.findings[n])})
    IN [i \in DOMAIN fs |-> NewEntityRelationship(fs[i], "asset", fs[i].asset,
                                                  "new_asset_with_finding", 20, "new_asset_with_finding")]

-----------------------------------------------------------------------------
(* Registry and engine.                                                    *)

\* RegisterAll, in the order Active returns the rules: by id.
RegisterAll == <<"authentication_colocation", "endpoint_change_with_finding", "new_asset_with_finding",
                 "same_asset_findings", "same_endpoint_findings", "same_service",
                 "technology_correlation", "temporal_proximity">>
RuleEnabled(id) == id \notin LinkRulesOff
Active == Picked(RegisterAll, {n \in DOMAIN RegisterAll : RuleEnabled(RegisterAll[n])})

EvaluateRule(id, in) ==
    CASE id = "authentication_colocation"    -> AuthenticationColocationRule(in)
      [] id = "endpoint_change_with_finding" -> ChangeBasedRule(in)
      [] id = "new_asset_with_finding"       -> NewAssetWithFindingRule(in)
      [] id = "same_asset_findings"          -> SameAssetRule(in)
      [] id = "same_endpoint_findings"       -> SameEndpointRule(in)
      [] id = "same_service"                 -> SameServiceRule(in)
      [] id = "technology_correlation"       -> TechnologyRule(in)
      [] id = "temporal_proximity"           -> TemporalProximityRule(in)

\* The first of the relationships with one key is kept.
MergeRelationships(rs) ==
    Picked(rs, {i \in DOMAIN rs : \A k \in 1..(i - 1) : RelationshipKey(rs[k]) # RelationshipKey(rs[i])})

Relate(in) == MergeRelationships(FlattenSeq([i \in DOMAIN Active |-> EvaluateRule(Active[i], in)]))
=============================================================================
