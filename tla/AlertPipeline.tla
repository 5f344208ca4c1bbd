---------------------------- MODULE AlertPipeline ----------------------------
(***************************************************************************)
(* From rules to alerts: Service.Evaluate, the suppressions, the analysts' *)
(* alert operations and PromoteToInvestigation of internal/service/rule,   *)
(* over the tables detection_matches, detection_evidence, alerts,          *)
(* suppressions and investigations, with the rules of RuleCatalog.         *)
(*                                                                         *)
(* Evaluations, promotions and analysts are CLI processes; one action is   *)
(* one SQL statement.  A match is a fingerprint: it belongs to one rule    *)
(* and version.  An event is represented by the time it was observed.      *)
(***************************************************************************)
EXTENDS RuleCatalog, Sequences

CONSTANTS
    Match,            \* fingerprints
    RuleOf,           \* the rule of a fingerprint
    VersionOf,        \* and the version number that went into it
    Time,             \* the times at which events are observed
    Evaluator,        \* rule evaluations
    Promoter,         \* promotions of an alert
    MaxSuppressions,  \* bound: suppressions ever created
    MaxOps            \* bound: analyst operations

ASSUME PipelineAssumption ==
    /\ RuleOf \in [Match -> Rule]
    /\ VersionOf \in [Match -> 1..MaxVersion]
    /\ Time \subseteq Nat \ {0} /\ IsFiniteSet(Time)
    /\ MaxSuppressions \in Nat
    /\ MaxOps \in Nat
    /\ NONE \notin Match \cup Nat

VARIABLES
    matches,         \* detection_matches and their detection_evidence
    alerts,          \* alerts, one per match
    suppressions,    \* suppressions, never deleted
    investigations,  \* the matches investigations were created for
    eval,            \* the local state of every evaluation
    promo,           \* the local state of every promotion
    silencing,       \* alerts whose suppression is recorded, status not yet set
    ops,             \* analyst operations so far
    born             \* history: the status a match was inserted with

pipelineVars == <<matches, alerts, suppressions, investigations, eval, promo, silencing, ops, born>>
vars == <<catalogVars, pipelineVars>>

MatchRow == [status: {Absent, "open", "suppressed"}, last: Time \cup {0}, evidence: SUBSET Time]
AlertStatus == {"open", "acknowledged", "investigating", "resolved", "suppressed"}
AlertRow == [status: AlertStatus \cup {Absent}, last: Time \cup {0}, investigation: Nat]
Suppression == [scope: {"rule", "match", "alert"}, on: Rule \cup Match, active: BOOLEAN]

EvalPC == {"idle", "version", "events", "ruleCheck", "match", "evidence", "matchCheck",
           "suppress", "alert", "done", "returned", "crashed"}
Eval == [pc: EvalPC, rule: Rule \cup {NONE},
         found: [Match -> SUBSET Time],   \* the engine's matches and their events
         queue: SUBSET Match, cur: Match \cup {NONE}, pending: SUBSET Time,
         ruleSuppressed: BOOLEAN,
         created: BOOLEAN,                  \* what the upsert returned
         saved: [status: {Absent, "open", "suppressed"}, last: Time \cup {0}],
         ruleSeen: Nat, matchSeen: Nat,      \* suppressions there were at the two checks
         blind: BOOLEAN,                     \* history: one of these checks failed
         lost: SUBSET Match]                 \* history: one of their statements failed
Promo == [pc: {"idle", "create", "link", "done"}, match: Match \cup {NONE}, investigation: Nat]

NoRow == [status |-> Absent, last |-> 0, evidence |-> {}]
NoneSaved == [status |-> Absent, last |-> 0]
IdleEval == [pc |-> "idle", rule |-> NONE, found |-> [m \in Match |-> {}], queue |-> {},
             cur |-> NONE, pending |-> {}, ruleSuppressed |-> FALSE, created |-> FALSE,
             saved |-> NoneSaved, ruleSeen |-> 0, matchSeen |-> 0,
             blind |-> FALSE, lost |-> {}]
NoAlert == [status |-> Absent, last |-> 0, investigation |-> 0]

(* What earlier evaluations may have left: an alert may be missing where   *)
(* its upsert failed or the match was suppressed.                          *)
EarlierMatch(row) ==
    \/ row = NoRow
    \/ row.status # Absent /\ row.last # 0 /\ row.evidence = {row.last}

Init ==
    /\ CatalogInit
    /\ matches \in [Match -> {row \in MatchRow : EarlierMatch(row)}]
    /\ \A m \in Match : matches[m] # NoRow =>
          \E v \in VersionsOf(RuleOf[m]) : v.number = VersionOf[m]
    /\ alerts \in [Match -> {[status |-> s, last |-> t, investigation |-> 0] :
                               s \in {Absent, "open", "resolved"}, t \in Time \cup {0}}]
    /\ \A m \in Match :
          \/ alerts[m] = NoAlert
          \/ alerts[m].status # Absent /\ matches[m].status = "open"
             /\ alerts[m].last = matches[m].last
    /\ suppressions = <<>>
    /\ investigations = <<>>
    /\ eval = [e \in Evaluator |-> IdleEval]
    /\ promo = [p \in Promoter |-> [pc |-> "idle", match |-> NONE, investigation |-> 0]]
    /\ silencing = {}
    /\ ops = 0
    /\ born = [m \in Match |-> matches[m].status]

-----------------------------------------------------------------------------
(* Statements of internal/repository/rule.                                 *)

Later(x, y) == Max({x, y})

(* INSERT ... ON CONFLICT (fingerprint): a known match only widens.        *)
UpsertedMatch(row, status, times) ==
    IF row.status = Absent
    THEN [status |-> status, last |-> Max(times), evidence |-> {}]
    ELSE [row EXCEPT !.last = Later(@, Max(times))]

(* INSERT ... ON CONFLICT (detection_match_id).                            *)
UpsertedAlert(row, last) ==
    IF row.status = Absent THEN [NoAlert EXCEPT !.status = "open", !.last = last]
    ELSE [row EXCEPT !.last = Later(@, last)]

ActiveFor_AnyAlert(scope, id) ==
    {i \in DOMAIN suppressions : suppressions[i].scope = "alert" /\ suppressions[i].active}

(* The suppressions neither removed nor expired.                           *)
ActiveFor(scope, id) ==
    {i \in DOMAIN suppressions : /\ suppressions[i].scope = scope
                                 /\ suppressions[i].on = id
                                 /\ suppressions[i].active}

-----------------------------------------------------------------------------
(* Service.Evaluate.                                                       *)

Local(e, state) ==
    /\ eval' = [eval EXCEPT ![e] = state]
    /\ UNCHANGED <<catalogVars, matches, alerts, suppressions, investigations,
                   promo, silencing, ops, born>>

(* The evaluation ends without having written anything.                    *)
Returned == [IdleEval EXCEPT !.pc = "returned"]

(* GetRuleByID and the status check.                                       *)
LoadRule(e, r) ==
    /\ eval[e].pc = "idle"
    /\ rules[r].status # Absent
    /\ Local(e, IF Active(rules[r].status) THEN [IdleEval EXCEPT !.pc = "version", !.rule = r]
                ELSE Returned)

(* GetLatestEnabled, the engine, and the return of a dry run.  The engine  *)
(* may find any match of that version, with any of its events.             *)
RunEngine(e) ==
    /\ eval[e].pc = "version"
    /\ LET r == eval[e].rule IN
       IF EnabledOf(r) = {} THEN Local(e, Returned)
       ELSE \E dryRun \in BOOLEAN, found \in [Match -> SUBSET Time] :
              LET some == {m \in Match : found[m] # {}} IN
              /\ \A m \in some : RuleOf[m] = r /\ VersionOf[m] = Latest(EnabledOf(r)).number
              /\ dryRun => some = {}
              /\ Local(e, IF dryRun THEN Returned
                          ELSE [eval[e] EXCEPT !.found = found, !.queue = some,
                                               !.pc = "ruleCheck"])

(* hasActiveSuppression(ScopeRule): once for the whole evaluation; an      *)
(* error is logged and counts as "not suppressed".                         *)
CheckRule(e) ==
    /\ eval[e].pc = "ruleCheck"
    /\ \E failed \in BOOLEAN :
          /\ failed => "check" \in Faults
          /\ Local(e, [eval[e] EXCEPT !.pc = "match", !.ruleSeen = Len(suppressions), !.blind = failed,
                         !.ruleSuppressed = ~failed /\ ActiveFor("rule", eval[e].rule) # {}])

UpsertMatch(e) ==
    /\ eval[e].pc = "match"
    /\ \E m \in eval[e].queue :
          LET status  == IF eval[e].ruleSuppressed THEN "suppressed" ELSE "open"
              created == matches[m].status = Absent
              saved   == UpsertedMatch(matches[m], status, eval[e].found[m])
          IN /\ matches' = [matches EXCEPT ![m] = saved]
             /\ born' = IF created THEN [born EXCEPT ![m] = status] ELSE born
             /\ eval' = [eval EXCEPT ![e] =
                  [@ EXCEPT !.pc = "evidence", !.queue = eval[e].queue \ {m}, !.cur = m,
                            !.pending = eval[e].found[m], !.created = created,
                            !.saved = [status |-> saved.status, last |-> saved.last]]]
    /\ UNCHANGED <<catalogVars, alerts, suppressions, investigations, promo, silencing, ops>>

(* It fails: logged, the next match.                                       *)
UpsertMatchFails(e) ==
    /\ eval[e].pc = "match"
    /\ "match" \in Faults
    /\ \E m \in eval[e].queue : Local(e, [eval[e] EXCEPT !.queue = @ \ {m}, !.lost = @ \cup {m}])

(* One INSERT per event, each best effort.                                 *)
AttachEvidence(e) ==
    /\ eval[e].pc = "evidence"
    /\ \E t \in eval[e].pending :
          \/ /\ matches' = [matches EXCEPT ![eval[e].cur].evidence = @ \cup {t}]
             /\ eval' = [eval EXCEPT ![e].pending = @ \ {t}]
          \/ /\ "evidence" \in Faults
             /\ eval' = [eval EXCEPT ![e].pending = @ \ {t}, ![e].lost = @ \cup {eval[e].cur}]
             /\ UNCHANGED matches
    /\ UNCHANGED <<catalogVars, alerts, suppressions, investigations, promo, silencing, ops, born>>

(* Every event of the current match has been attached, or has failed to.   *)
Attached(e) == eval[e].pending = {}

Settles_KnownMatch(e) == ~eval[e].created \/ eval[e].ruleSuppressed

Settles_RuleOnly(e) == eval[e].ruleSuppressed

(* No alert for a match that is not open any more, nor under a suppressed  *)
(* rule.                                                                   *)
Settles(e) ==
    \/ ~eval[e].created /\ eval[e].saved.status # "open"
    \/ eval[e].ruleSuppressed

NextMatch(state) == [state EXCEPT !.pc = "match", !.cur = NONE, !.created = FALSE,
                                  !.saved = NoneSaved, !.matchSeen = 0]

SkipAlert(e) ==
    /\ eval[e].pc = "evidence"
    /\ Attached(e)
    /\ Settles(e)
    /\ Local(e, NextMatch(eval[e]))

(* hasActiveSuppression(ScopeMatch); an error counts as "not suppressed".  *)
CheckMatch(e) ==
    /\ eval[e].pc = "evidence"
    /\ Attached(e)
    /\ ~Settles(e)
    /\ \E failed \in BOOLEAN :
          /\ failed => "check" \in Faults
          /\ Local(e, [eval[e] EXCEPT !.matchSeen = Len(suppressions), !.blind = @ \/ failed,
                         !.pc = IF ~failed /\ ActiveFor("match", eval[e].cur) # {}
                                THEN "suppress" ELSE "alert"])

(* UpdateMatchStatus(suppressed), best effort.                             *)
SuppressMatch(e) ==
    /\ eval[e].pc = "suppress"
    /\ \/ matches' = [matches EXCEPT ![eval[e].cur].status = "suppressed"]
       \/ "status" \in Faults /\ UNCHANGED matches
    /\ eval' = [eval EXCEPT ![e] = NextMatch(@)]
    /\ UNCHANGED <<catalogVars, alerts, suppressions, investigations, promo, silencing, ops, born>>

UpsertAlert(e) ==
    /\ eval[e].pc = "alert"
    /\ \/ /\ alerts' = [alerts EXCEPT ![eval[e].cur] = UpsertedAlert(@, eval[e].saved.last)]
          /\ eval' = [eval EXCEPT ![e] = NextMatch(@)]
       \/ /\ "alert" \in Faults
          /\ eval' = [eval EXCEPT ![e] = NextMatch([@ EXCEPT !.lost = eval[e].lost \cup {eval[e].cur}])]
          /\ UNCHANGED alerts
    /\ UNCHANGED <<catalogVars, matches, suppressions, investigations, promo, silencing, ops, born>>

FinishEvaluation(e) ==
    /\ eval[e].pc = "match"
    /\ eval[e].queue = {}
    /\ Local(e, [IdleEval EXCEPT !.pc = "done", !.found = eval[e].found, !.lost = eval[e].lost])

EvaluationCrash(e) ==
    /\ "crash" \in Faults
    /\ eval[e].pc \notin {"idle", "done", "returned", "crashed"}
    /\ Local(e, [IdleEval EXCEPT !.pc = "crashed", !.lost = eval[e].lost])

EvaluatorStep(e) ==
    \/ \E r \in Rule : LoadRule(e, r)
    \/ RunEngine(e) \/ CheckRule(e) \/ UpsertMatch(e) \/ UpsertMatchFails(e)
    \/ AttachEvidence(e) \/ SkipAlert(e) \/ CheckMatch(e) \/ SuppressMatch(e)
    \/ UpsertAlert(e) \/ FinishEvaluation(e) \/ EvaluationCrash(e)

-----------------------------------------------------------------------------
(* Analysts.                                                               *)

Analyst == ops < MaxOps /\ ops' = ops + 1

(* CreateSuppression, for a rule or a match that exists.                   *)
Suppress(scope, id) ==
    /\ Analyst
    /\ Len(suppressions) < MaxSuppressions
    /\ suppressions' = Append(suppressions, [scope |-> scope, on |-> id, active |-> TRUE])
    /\ UNCHANGED <<catalogVars, matches, alerts, investigations, eval, promo, silencing, born>>

(* RemoveSuppression, or expires_at passing: the row stays.                *)
LiftSuppression(i) ==
    /\ suppressions[i].active
    /\ suppressions' = [suppressions EXCEPT ![i].active = FALSE]
    /\ UNCHANGED <<catalogVars, matches, alerts, investigations, eval, promo, silencing, ops, born>>

(* AcknowledgeAlert, ResolveAlert: from any status.                        *)
UpdateAlertStatus(m, status) ==
    /\ Analyst
    /\ alerts[m].status # Absent
    /\ alerts' = [alerts EXCEPT ![m].status = status]
    /\ UNCHANGED <<catalogVars, matches, suppressions, investigations, eval, promo, silencing, born>>

(* SuppressAlert: a suppression row, then the alert's status.              *)
SuppressAlert(m) ==
    /\ Analyst
    /\ Len(suppressions) < MaxSuppressions
    /\ alerts[m].status # Absent
    /\ suppressions' = Append(suppressions, [scope |-> "alert", on |-> m, active |-> TRUE])
    /\ silencing' = silencing \cup {m}
    /\ UNCHANGED <<catalogVars, matches, alerts, investigations, eval, promo, born>>

SilenceAlert(m) ==
    /\ silencing' = silencing \ {m}
    /\ \/ alerts' = [alerts EXCEPT ![m].status = "suppressed"]
       \/ "status" \in Faults /\ UNCHANGED alerts
    /\ UNCHANGED <<catalogVars, matches, suppressions, investigations, eval, promo, ops, born>>

AnalystStep ==
    \/ \E r \in Rule : rules[r].status # Absent /\ Suppress("rule", r)
    \/ \E m \in Match : matches[m].status # Absent /\ Suppress("match", m)
    \/ \E i \in DOMAIN suppressions : LiftSuppression(i)
    \/ \E m \in Match, status \in {"acknowledged", "resolved"} : UpdateAlertStatus(m, status)
    \/ \E m \in Match : SuppressAlert(m)
    \/ \E m \in silencing : SilenceAlert(m)

-----------------------------------------------------------------------------
(* PromoteToInvestigation.                                                 *)

(* The alert has no investigation yet.                                     *)
Promotable(m) == alerts[m].status # Absent /\ alerts[m].investigation = 0

ReadAlert(p, m) ==
    /\ promo[p].pc = "idle"
    /\ Promotable(m)
    /\ promo' = [promo EXCEPT ![p].pc = "create", ![p].match = m]
    /\ UNCHANGED <<catalogVars, matches, alerts, suppressions, investigations, eval,
                   silencing, ops, born>>

(* The investigation; the evidence and timeline rows that follow it stay   *)
(* within it.                                                              *)
CreateInvestigation(p) ==
    /\ promo[p].pc = "create"
    /\ investigations' = Append(investigations, promo[p].match)
    /\ promo' = [promo EXCEPT ![p].pc = "link", ![p].investigation = Len(investigations')]
    /\ UNCHANGED <<catalogVars, matches, alerts, suppressions, eval, silencing, ops, born>>

(* SetInvestigation: link and status in one UPDATE, best effort.           *)
LinkAlert(p) ==
    /\ promo[p].pc = "link"
    /\ \/ alerts' = [alerts EXCEPT ![promo[p].match].investigation = promo[p].investigation,
                                   ![promo[p].match].status = "investigating"]
       \/ "link" \in Faults /\ UNCHANGED alerts
    /\ promo' = [promo EXCEPT ![p].pc = "done"]
    /\ UNCHANGED <<catalogVars, matches, suppressions, investigations, eval, silencing, ops, born>>

PromoterStep(p) ==
    \/ \E m \in Match : ReadAlert(p, m)
    \/ CreateInvestigation(p) \/ LinkAlert(p)

Next ==
    \/ CatalogNext /\ UNCHANGED pipelineVars
    \/ \E e \in Evaluator : EvaluatorStep(e)
    \/ AnalystStep
    \/ \E p \in Promoter : PromoterStep(p)

Spec == Init /\ [][Next]_vars

-----------------------------------------------------------------------------
(* The pipeline's rows and processes stay within their types.              *)
TypeOK ==
    /\ CatalogTypeOK
    /\ matches \in [Match -> MatchRow]
    /\ alerts \in [Match -> AlertRow]
    /\ suppressions \in Seq(Suppression) /\ Len(suppressions) <= MaxSuppressions
    /\ investigations \in Seq(Match)
    /\ eval \in [Evaluator -> Eval]
    /\ promo \in [Promoter -> Promo]
    /\ silencing \subseteq Match
    /\ ops \in 0..MaxOps
    /\ born \in [Match -> {Absent, "open", "suppressed"}]

(* A match first seen under a suppressed rule never gets an alert, even    *)
(* when another evaluation that saw no suppression reports it too.         *)
SuppressedBirthsStaySilent ==
    \A m \in Match : born[m] = "suppressed" => alerts[m].status = Absent

(* An alert never shows a later observation than its match: both widen     *)
(* separately, from evaluations over ranges in any order.                  *)
AlertNotAhead ==
    \A m \in Match : alerts[m].last <= matches[m].last

(* No evaluation undoes a decision: a suppressed match stays suppressed,   *)
(* and the status of an alert moves only by an analyst or a promotion.     *)
DecisionsKept ==
    [][\A m \in Match :
          /\ matches[m].status = "suppressed" => matches'[m].status = "suppressed"
          /\ alerts[m].status # Absent /\ alerts'[m].status # alerts[m].status =>
                ops' # ops \/ silencing' # silencing \/ promo' # promo]_vars

(* A new alert under an active suppression of its match or rule: only if   *)
(* the suppression came after the check the evaluation made, or a check    *)
(* failed.                                                                 *)
OnlyLateSuppressionMissed ==
    [][\A m \in Match, e \in Evaluator :
          alerts[m].status = Absent /\ alerts'[m].status # Absent /\ eval'[e] # eval[e] /\ ~eval[e].blind =>
             \A i \in DOMAIN suppressions :
                LET s == suppressions[i] IN
                /\ s.active /\ s.scope = "rule" /\ s.on = RuleOf[m] => i > eval[e].ruleSeen
                /\ s.active /\ s.scope = "match" /\ s.on = m => i > eval[e].matchSeen]_vars

(* A completed evaluation that met no suppression leaves an alert, up to   *)
(* date, for every open match it found and lost no statement of, whatever  *)
(* earlier and overlapping evaluations failed to do.                       *)
CaughtUp ==
    \A e \in Evaluator :
        /\ eval[e].pc = "done"
        /\ suppressions = <<>>
        => \A m \in Match \ eval[e].lost :
              eval[e].found[m] # {} /\ matches[m].status = "open" =>
              alerts[m].status # Absent /\ alerts[m].last >= Max(eval[e].found[m])

(* The (rule, version) a match names is in the catalogue, whatever authors *)
(* and toggles did since the evaluation read it.                           *)
MatchesTraceable ==
    \A m \in Match : matches[m].status # Absent =>
        \E v \in versions : v.rule = RuleOf[m] /\ v.number = VersionOf[m]
=============================================================================
