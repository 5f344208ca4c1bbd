---------------------------- MODULE RiskScoring ----------------------------
(* The risk model: named factors with fixed points, their clamped sum and   *)
(* its severity and confidence.                                             *)
(* internal/intelligence/risk, domain/intelligence/risk.go, and the weights *)
(* the commands build from the configuration.                               *)
EXTENDS Integers, Sequences, FiniteSets, FiniteSetsExt, Functions

DefaultWeights ==
    [critical |-> 40, high |-> 30, medium |-> 18, low |-> 8, informational |-> 2, sure |-> 4,
     facing |-> 20, service |-> 2, serviceMax |-> 10, sensitive |-> 5, api |-> 5,
     confirmed |-> 20, probable |-> 10, malicious |-> 15, suspicious |-> 7,
     critCritical |-> 15, critHigh |-> 10, critNormal |-> 0, critLow |-> -5, recent |-> 10,
     match |-> 10, matchEach |-> 2, matchMax |-> 10, corr |-> 8, corrEach |-> 2, corrMax |-> 8]

\* The commands copy the configured weights one by one. The configuration has none for
\* detection matches and correlations, so these stay zero.
CommandWeights ==
    [w \in DOMAIN DefaultWeights |->
        IF w \in {"match", "matchEach", "matchMax", "corr", "corrEach", "corrMax"} THEN 0 ELSE DefaultWeights[w]]

\* NewScorer: only an all-zero table is replaced by the defaults.
ScorerWeights(w) == IF \A x \in DOMAIN w : w[x] = 0 THEN DefaultWeights ELSE w

Capped(points, most) == IF most > 0 /\ points > most THEN most ELSE points
RepeatedPoints(n, first, each, most) == first + Capped((n - 1) * each, most)

\* A factor's points, by name; a factor that adds none is not listed.
PointsOf(input, w) ==
    [finding_severity   |-> IF input.severity = "none" THEN 0 ELSE w[input.severity],
     finding_confidence |-> IF input.sure THEN w.sure ELSE 0,
     internet_exposure  |-> IF input.facing THEN w.facing ELSE 0,
     open_services      |-> Capped(input.services * w.service, w.serviceMax),
     sensitive_endpoints |-> IF input.sensitive > 0 THEN w.sensitive ELSE 0,
     exposed_api        |-> IF input.api THEN w.api ELSE 0,
     vulnerability_match |-> CASE input.vulnerability = "confirmed" -> w.confirmed
                               [] input.vulnerability = "probable" -> w.probable
                               [] OTHER -> 0,
     threat_intelligence |-> CASE input.verdict = "malicious" -> w.malicious
                               [] input.verdict = "suspicious" -> w.suspicious
                               [] OTHER -> 0,
     asset_criticality  |-> CASE input.criticality = "critical" -> w.critCritical
                              [] input.criticality = "high" -> w.critHigh
                              [] input.criticality = "low" -> w.critLow
                              [] OTHER -> w.critNormal,
     recent_change      |-> IF input.recent THEN w.recent ELSE 0,
     detection_match    |-> IF input.matches = 0 THEN 0
                            ELSE RepeatedPoints(input.matches, w.match, w.matchEach, w.matchMax),
     correlation        |-> IF input.correlations = 0 THEN 0
                            ELSE RepeatedPoints(input.correlations, w.corr, w.corrEach, w.corrMax)]

Total(points) ==
    points.finding_severity + points.finding_confidence + points.internet_exposure + points.open_services
    + points.sensitive_endpoints + points.exposed_api + points.vulnerability_match
    + points.threat_intelligence + points.asset_criticality + points.recent_change
    + points.detection_match + points.correlation

Clamp_Mistake(v, lo, hi) == IF v > hi THEN hi ELSE v
Clamp(v, lo, hi) == IF v < lo THEN lo ELSE IF v > hi THEN hi ELSE v

SeverityForScore(score) ==
    IF score >= 75 THEN "critical" ELSE IF score >= 50 THEN "high" ELSE IF score >= 25 THEN "medium" ELSE "low"

\* How many kinds of evidence fed the score.
ConfidenceFor(input) ==
    LET signals == Cardinality({s \in {"f", "v", "i", "m", "c"} :
                      \/ s = "f" /\ input.severity # "none"
                      \/ s = "v" /\ input.vulnerability # "none"
                      \/ s = "i" /\ input.verdict \notin {"", "unknown"}
                      \/ s = "m" /\ input.matches > 0
                      \/ s = "c" /\ input.correlations > 0})
    IN CASE signals >= 2 -> "high" [] signals = 1 -> "medium" [] OTHER -> "low"

Calculate(input, weights) ==
    LET points == PointsOf(input, ScorerWeights(weights))
        score == Clamp(Total(points), 0, 100)
    IN [score |-> score, severity |-> SeverityForScore(score), confidence |-> ConfidenceFor(input),
        factors |-> {f \in DOMAIN points : points[f] # 0}]
=============================================================================
