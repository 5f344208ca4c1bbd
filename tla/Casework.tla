------------------------------ MODULE Casework ------------------------------
(* Investigations: rows under optimistic concurrency, the evidence attached *)
(* to them with the observed window it widens, the timeline that records    *)
(* what happened, relationships, hypotheses, notes and suggested clusters.  *)
(* No operation is a transaction: a command is a sequence of statements,    *)
(* todo[p], and other commands run between any two of them.                 *)
(* internal/service/investigation, its repository, its domain and the CLI.  *)
EXTENDS FindingLinks

CONSTANTS Processes,
          FindingTable,      \* sequence of findings: what the rules see of one, and open, history
          AssetTable, EndpointTable, TechnologyTable,
          Actors,            \* analysts; NoOne is the empty actor
          InitialEvidence,   \* <<finding, asset>> a creation may be given, NoOne for none
          MaxInvestigations, MaxClusters, MaxOperations, MaxFailures  \* bounds of the model

IdsOf(table) == {table[i].id : i \in DOMAIN table}

\* Listings are sequences, ids are unique across tables (they are UUIDs), and the value
\* that stands for none is not a type of event.
ASSUME CaseworkAssumption ==
    /\ IsFiniteSet(Processes)
    /\ \A table \in {FindingTable, AssetTable, EndpointTable, TechnologyTable} : table \in Seq(ToSet(table))
    /\ IdsOf(AssetTable) \cap IdsOf(EndpointTable) = {}
    /\ InitialEvidence \subseteq (IdsOf(FindingTable) \cup {NoOne}) \X (IdsOf(AssetTable) \cup {NoOne})
    /\ NoOne \notin {"incident_closed", "investigation_reopened"}
    /\ \A i \in DOMAIN FindingTable : /\ FindingObservation(FindingTable[i])
                                     /\ {"open", "history"} \subseteq DOMAIN FindingTable[i]
                                     /\ FindingTable[i].history \in Seq(STRING)
    /\ \A i \in DOMAIN AssetTable : AssetObservation(AssetTable[i])
    /\ \A i \in DOMAIN EndpointTable : EndpointObservation(EndpointTable[i])
    /\ \A i \in DOMAIN TechnologyTable : TechnologyObservation(TechnologyTable[i])

VARIABLES inv,         \* investigations: the row with id i is inv[i]
          evidence,    \* evidence[i]: references in the order they were inserted
          timeline,    \* timeline[i]: bag of <<event type, subject>>
          links,       \* links[i]: RelationshipKey -> [status, score]
          hypotheses, notes, clusters,
          todo,        \* the statements a process has still to run
          started, failures,
          lost         \* history: investigations some statement of whose was lost
caseVars == <<inv, evidence, timeline, links, hypotheses, notes, clusters, todo, started, failures, lost>>

-----------------------------------------------------------------------------
(* The domain's vocabularies and the rows a Validate accepts.              *)

Statuses == {"new", "open", "investigating", "contained", "resolved", "closed"}
Terminal(status) == status = "closed"
Priorities == {"low", "normal", "high", "urgent"}
Severities == {"informational", "low", "medium", "high", "critical"}
Confidences == {"", "very_low", "low", "medium", "high", "very_high"}
EntityTypes == {"finding", "asset", "endpoint", "technology", "scan", "timeline_event", "investigation",
                "detection_match", "alert", "correlation", "attack_chain"}
RelationTypes == {"", "related", "correlated", "suspected", "confirmed"}
RelationshipTypes == {"same_asset", "same_endpoint", "same_detector", "temporal_proximity",
                      "same_technology", "same_service", "change_based", "new_asset_with_finding",
                      "authentication_colocation"}
RelationshipStatuses == {"candidate", "confirmed"}
HypothesisStatuses == {"proposed", "investigating", "supported", "unsupported", "confirmed", "rejected"}
ClusterStatuses == {"suggested", "accepted", "rejected"}
EventTypes ==
    {"finding_created", "finding_resolved", "finding_reopened", "analyst_note", "incident_closed",
     "investigation_created", "severity_changed", "priority_changed", "assignment_changed",
     "status_changed", "finding_attached", "evidence_attached", "hypothesis_created",
     "hypothesis_updated", "relationship_created", "investigation_reopened"}

ValidInvestigation(r) ==
    /\ r.status \in Statuses /\ r.priority \in Priorities \cup {""}
    /\ r.severity \in Severities \cup {""} /\ r.confidence \in Confidences
    /\ r.by # NoOne
ValidEvidence(e) ==
    /\ e.type \in EntityTypes /\ e.relation \in RelationTypes
    /\ e.type = "finding" \/ e.relation = ""
    /\ e.by # NoOne
ValidEvent(e) == e[1] \in EventTypes
ValidRelationship(r, status) ==
    /\ r.targetType \in EntityTypes /\ r.target # NoOne
    /\ r.type \in RelationshipTypes /\ status \in RelationshipStatuses
    /\ ConfidenceForScore(r.score) \in Confidences
ValidHypothesis(h) == h.status \in HypothesisStatuses /\ h.by # NoOne
ValidHypothesisEvidence(e) == e.type \in EntityTypes /\ e.description # ""
ValidNote(n) == n.author # NoOne
ValidCluster(c) == c.status \in ClusterStatuses
ValidClusterItem(x) == x.type \in EntityTypes

-----------------------------------------------------------------------------
(* What the code reads of the inventory, constant here.                    *)

ById(table, id) == table[CHOOSE i \in DOMAIN table : table[i].id = id]

\* observedAtFor
ObservedAt(type, id) ==
    CASE type = "finding" -> ById(FindingTable, id).first
      [] type = "asset" -> ById(AssetTable, id).first
      [] type = "endpoint" -> ById(EndpointTable, id).first

-----------------------------------------------------------------------------
(* The statements the service's operations come down to. Every operator    *)
(* below yields the statements a process still has to run, in order.       *)

RecordEvent(i, type, subject) ==
    IF ValidEvent(<<type, subject>>) THEN <<[do |-> "event", inv |-> i, event |-> <<type, subject>>]>> ELSE <<>>

WidenObservedWindow(i, observed) ==
    IF observed = 0 THEN <<>> ELSE <<[do |-> "widen", inv |-> i, observed |-> observed]>>

\* The finding's own history projected on the timeline.
MaterializeFindingHistory(i, f) ==
    LET MapFindingEvent(type) == CASE type = "resolved" -> RecordEvent(i, "finding_resolved", f.id)
                                   [] type = "reopened" -> RecordEvent(i, "finding_reopened", f.id)
                                   [] OTHER -> <<>>
    IN RecordEvent(i, "finding_created", f.id)
       \o FlattenSeq([n \in DOMAIN f.history |-> MapFindingEvent(f.history[n])])

AttachFinding(i, id, relation, by) ==
    LET ref == [type |-> "finding", id |-> id, relation |-> relation,
                observed |-> ById(FindingTable, id).first, by |-> by]
    IN IF ValidEvidence(ref) THEN <<[do |-> "attach", inv |-> i, ref |-> ref]>> ELSE <<>>

AttachEvidence(i, type, id, by) ==
    LET ref == [type |-> type, id |-> id, relation |-> "", observed |-> ObservedAt(type, id), by |-> by]
    IN IF ValidEvidence(ref) THEN <<[do |-> "attach", inv |-> i, ref |-> ref]>> ELSE <<>>

\* What follows a reference that was really inserted.
AfterAttach(i, ref) ==
    IF ref.type = "finding"
    THEN LET f == ById(FindingTable, ref.id)
         IN WidenObservedWindow(i, f.first) \o WidenObservedWindow(i, f.last)
            \o RecordEvent(i, "finding_attached", f.id) \o MaterializeFindingHistory(i, f)
    ELSE WidenObservedWindow(i, ref.observed) \o RecordEvent(i, "evidence_attached", ref.id)

\* Update: the fields of input that are set replace the current ones.
Merged(input, current) == [field \in DOMAIN current |->
                             IF field \in DOMAIN input THEN input[field] ELSE current[field]]

\* One event per field that was asked for and differs from the row that was read.
UpdateEvents(i, input, current) ==
    LET Changed(field, type) ==
          IF field \in DOMAIN input /\ input[field] # current[field]
          THEN RecordEvent(i, type, <<current[field], input[field]>>) ELSE <<>>
    IN Changed("severity", "severity_changed") \o Changed("priority", "priority_changed")
       \o Changed("assigned", "assignment_changed") \o Changed("status", "status_changed")

PersistRelationship(i, r) ==
    LET status == IF r.score >= EffectiveThreshold THEN "confirmed" ELSE "candidate"
    IN IF ValidRelationship(r, status)
       THEN <<[do |-> "relate", inv |-> i, key |-> RelationshipKey(r),
               link |-> [status |-> status, score |-> r.score]]>>
       ELSE <<>>

\* ListFindings: the findings among the evidence, in the order they were attached.
ListFindings(i) ==
    LET refs == Picked(evidence[i], {n \in DOMAIN evidence[i] : evidence[i][n].type = "finding"})
    IN [n \in DOMAIN refs |-> ById(FindingTable, refs[n].id)]

CorrelateInput(i) ==
    LET fs == ListFindings(i)
        Seen(id, field) == \E n \in DOMAIN fs : fs[n][field] = id
    IN [findings     |-> fs,
        assets       |-> Picked(AssetTable, {n \in DOMAIN AssetTable : Seen(AssetTable[n].id, "asset")}),
        endpoints    |-> Picked(EndpointTable, {n \in DOMAIN EndpointTable : Seen(EndpointTable[n].id, "endpoint")}),
        technologies |-> Picked(TechnologyTable, {n \in DOMAIN TechnologyTable : Seen(TechnologyTable[n].asset, "asset")})]

\* SuggestClusters: one cluster for each asset with two or more open findings.
SuggestClusters ==
    LET OpenOn(a) == Picked(FindingTable, {n \in DOMAIN FindingTable :
                                            FindingTable[n].open /\ FindingTable[n].asset = a.id})
        busy == Picked(AssetTable, {n \in DOMAIN AssetTable : Len(OpenOn(AssetTable[n])) >= 2})
    IN [n \in DOMAIN busy |->
          [do |-> "cluster", items |-> [k \in DOMAIN OpenOn(busy[n]) |-> OpenOn(busy[n])[k].id]]]

\* AcceptCluster attaches what the listing of the cluster's items returned, then
\* sets the cluster's status.
AfterItems_Mistake(i, c, items, by) ==
    <<[do |-> "clusterStatus", cluster |-> c, status |-> "accepted", inv |-> i, items |-> items, by |-> by]>>
    \o FlattenSeq([n \in DOMAIN items |-> AttachFinding(i, items[n], "correlated", by)])
AfterItems(i, c, items, by) ==
    FlattenSeq([n \in DOMAIN items |-> AttachFinding(i, items[n], "correlated", by)])
    \o <<[do |-> "clusterStatus", cluster |-> c, status |-> "accepted", inv |-> i, items |-> items, by |-> by]>>

\* A listing that fails is logged, and no items are attached.
ItemsJob(i, c, by) ==
    <<[do |-> "items", inv |-> i, cluster |-> c, by |-> by, otherwise |-> AfterItems(i, c, <<>>, by)]>>

-----------------------------------------------------------------------------
(* The commands: a command checks its flags, reads what it must and leaves *)
(* its statements to run.                                                  *)

NewInvestigation(by, severity, confidence) ==
    [status |-> "new", priority |-> "", severity |-> severity, confidence |-> confidence, by |-> by,
     assigned |-> NoOne, version |-> 1, first |-> 0, last |-> 0, closed |-> FALSE]

\* Someone has opened a first investigation.
CaseInit ==
    /\ inv \in {<<NewInvestigation(by, "medium", "")>> : by \in Actors \ {NoOne}}
    /\ evidence = << <<>> >>
    /\ timeline = <<SetToBag({<<"investigation_created", 1>>})>>
    /\ links = << <<>> >>
    /\ hypotheses = <<>> /\ notes = <<>> /\ clusters = <<>>
    /\ todo = [p \in Processes |-> <<>>]
    /\ started = 0 /\ failures = 0 /\ lost = {}

stored == <<inv, evidence, timeline, links, hypotheses, notes, clusters>>

Idle(p) == todo[p] = <<>> /\ started < MaxOperations
Begin(p, statements) ==
    /\ statements # <<>>
    /\ started' = started + 1
    /\ todo' = [todo EXCEPT ![p] = statements]
    /\ UNCHANGED <<stored, failures, lost>>

\* investigate create, with an initial finding or asset or without.
Create(p) ==
    \E by \in Actors, given \in InitialEvidence :
       LET row == NewInvestigation(by, "medium", "")
       IN /\ ValidInvestigation(row) /\ Len(inv) < MaxInvestigations
          /\ Begin(p, <<[do |-> "create", row |-> row, finding |-> given[1],
                         asset |-> given[2], cluster |-> 0]>>)

\* investigate attach: exactly one of a finding, an asset, an endpoint.
Attach(p) ==
    \E i \in DOMAIN inv, by \in Actors \ {NoOne} :
       \/ \E f \in IdsOf(FindingTable) : Begin(p, AttachFinding(i, f, "related", by))
       \/ \E a \in IdsOf(AssetTable) : Begin(p, AttachEvidence(i, "asset", a, by))
       \/ \E e \in IdsOf(EndpointTable) : Begin(p, AttachEvidence(i, "endpoint", e, by))

\* The version read here is the one the update will insist on; event is NoOne
\* where nothing but the changed fields is recorded.
Change(p, i, input, event, reopens) ==
    Begin(p, <<[do |-> "current", inv |-> i, input |-> input, expected |-> inv[i].version,
                event |-> event, reopens |-> reopens]>>)

Close(p)  == \E i \in DOMAIN inv : Change(p, i, [status |-> "closed"], "incident_closed", FALSE)
Reopen(p) == \E i \in DOMAIN inv : Change(p, i, [status |-> "open"], "investigation_reopened", TRUE)
\* Service.Update with another field.
Edit(p)   == \E i \in DOMAIN inv : Change(p, i, [severity |-> "high"], NoOne, FALSE)

AddNote(p) ==
    \E i \in DOMAIN inv, by \in Actors :
       LET n == [inv |-> i, author |-> by, approved |-> NoOne]
       IN ValidNote(n) /\ Begin(p, <<[do |-> "note", inv |-> i, row |-> n]>>)
ApproveNote(p) ==
    \E n \in DOMAIN notes, by \in Actors \ {NoOne} :
       Begin(p, <<[do |-> "approveNote", note |-> n, by |-> by]>>)

CreateHypothesis(p) ==
    \E i \in DOMAIN inv, by \in Actors :
       LET h == [inv |-> i, status |-> "proposed", confidence |-> "", by |-> by, support |-> 0]
       IN ValidHypothesis(h) /\ Begin(p, <<[do |-> "hypothesis", inv |-> i, row |-> h]>>)
UpdateHypothesisStatus(p) ==
    \E h \in DOMAIN hypotheses :
       Begin(p, <<[do |-> "hypothesisStatus", hypothesis |-> h, status |-> "supported", confidence |-> "high"]>>)
AddHypothesisEvidence(p) ==
    \E h \in DOMAIN hypotheses :
       /\ ValidHypothesisEvidence([type |-> "finding", description |-> "cited"])
       /\ Begin(p, <<[do |-> "support", hypothesis |-> h]>>)

\* investigate correlate reads everything, runs the engine, persists edge by edge.
Correlate(p) ==
    \E i \in DOMAIN inv :
       LET rs == Relate(CorrelateInput(i))
       IN Begin(p, FlattenSeq([n \in DOMAIN rs |-> PersistRelationship(i, rs[n])]))

Suggest(p) ==
    /\ Len(clusters) + Len(SuggestClusters) <= MaxClusters
    /\ Begin(p, SuggestClusters)

\* Nobody asks for the actor here: only the table's constraint does.
Accept(p) ==
    \E c \in DOMAIN clusters, by \in Actors :
       /\ clusters[c].status = "suggested" /\ Len(inv) < MaxInvestigations
       /\ Begin(p, <<[do |-> "create", row |-> NewInvestigation(by, "", "low"), finding |-> NoOne, asset |-> NoOne,
                         cluster |-> c]>>)

Reject(p) ==
    \E c \in DOMAIN clusters :
       Begin(p, <<[do |-> "clusterStatus", cluster |-> c, status |-> "rejected", inv |-> 0, items |-> <<>>]>>)

-----------------------------------------------------------------------------
(* The statements.                                                         *)

\* p runs its next statement, of the given kind; then is what it now has to do first.
Ready(p, do) == todo[p] # <<>> /\ Head(todo[p]).do = do
Continue(p, then) == /\ todo' = [todo EXCEPT ![p] = then \o Tail(@)]
                     /\ UNCHANGED <<started, failures, lost>>

InsertInvestigation(p) ==
    /\ Ready(p, "create") /\ Len(inv) < MaxInvestigations
    /\ LET job == Head(todo[p])
           i   == Len(inv) + 1
       IN IF job.row.by = NoOne                  \* investigations_created_by_not_blank
          THEN Continue(p, <<>>) /\ UNCHANGED stored
          ELSE /\ inv' = Append(inv, job.row)
               /\ evidence' = Append(evidence, <<>>)
               /\ timeline' = Append(timeline, EmptyBag)
               /\ links' = Append(links, <<>>)
               /\ UNCHANGED <<hypotheses, notes, clusters>>
               /\ Continue(p, RecordEvent(i, "investigation_created", i)
                     \o (IF job.cluster # 0 THEN ItemsJob(i, job.cluster, job.row.by) ELSE <<>>)
                     \o (IF job.finding # NoOne THEN AttachFinding(i, job.finding, "related", job.row.by) ELSE <<>>)
                     \o (IF job.asset # NoOne THEN AttachEvidence(i, "asset", job.asset, job.row.by) ELSE <<>>))

\* ON CONFLICT (investigation_id, source_type, source_id) DO NOTHING.
Inserted_Mistake(i, ref) == TRUE
Inserted(i, ref) == \A n \in DOMAIN evidence[i] : evidence[i][n].type # ref.type \/ evidence[i][n].id # ref.id

InsertEvidence(p) ==
    /\ Ready(p, "attach")
    /\ LET job == Head(todo[p])
       IN IF Inserted(job.inv, job.ref)
          THEN /\ evidence' = [evidence EXCEPT ![job.inv] = Append(@, job.ref)]
               /\ Continue(p, AfterAttach(job.inv, job.ref))
          ELSE UNCHANGED evidence /\ Continue(p, <<>>)
    /\ UNCHANGED <<inv, timeline, links, hypotheses, notes, clusters>>

\* LEAST and GREATEST, whatever the version.
Widened(row, observed) ==
    [row EXCEPT !.first = IF @ = 0 \/ observed < @ THEN observed ELSE @,
                !.last  = IF observed > @ THEN observed ELSE @]

UpdateFirstLastObserved(p) ==
    /\ Ready(p, "widen")
    /\ LET job == Head(todo[p])
       IN inv' = [inv EXCEPT ![job.inv] = Widened(@, job.observed)]
    /\ Continue(p, <<>>)
    /\ UNCHANGED <<evidence, timeline, links, hypotheses, notes, clusters>>

AppendEvent(p) ==
    /\ Ready(p, "event")
    /\ timeline' = [timeline EXCEPT ![Head(todo[p]).inv] = @ (+) SetToBag({Head(todo[p]).event})]
    /\ Continue(p, <<>>)
    /\ UNCHANGED <<inv, evidence, links, hypotheses, notes, clusters>>

RefusesReopen_Mistake(job, row) == FALSE
RefusesReopen(job, row) == job.reopens /\ ~Terminal(row.status)

\* Reopen's own read insists on a closed investigation; Update's read follows it, and
\* the row that is validated and written is the second one.
ReadCurrent(p) ==
    /\ Ready(p, "current")
    /\ LET job == Head(todo[p])
           row == inv[job.inv]
       IN IF RefusesReopen(job, row) THEN Continue(p, <<>>)
          ELSE IF job.reopens THEN Continue(p, <<[job EXCEPT !.reopens = FALSE]>>)
          ELSE LET next == Merged(job.input, row)
               IN Continue(p, IF ValidInvestigation(next)
                              THEN <<[do |-> "update", inv |-> job.inv, row |-> next, current |-> row,
                                      input |-> job.input, expected |-> job.expected, event |-> job.event]>>
                              ELSE <<>>)
    /\ UNCHANGED stored

\* UPDATE ... WHERE version = expected: every column but the observed window.
Updated_StaleWindow(row, next) == [next EXCEPT !.version = row.version + 1, !.closed = next.status = "closed"]
Updated(row, next) == [next EXCEPT !.version = row.version + 1, !.closed = next.status = "closed",
                                   !.first = row.first, !.last = row.last]
VersionMatches_Mistake(row, expected) == TRUE
VersionMatches(row, expected) == row.version = expected

UpdateInvestigation(p) ==
    /\ Ready(p, "update")
    /\ LET job == Head(todo[p])
       IN IF VersionMatches(inv[job.inv], job.expected)
          THEN /\ inv' = [inv EXCEPT ![job.inv] = Updated(@, job.row)]
               /\ Continue(p, UpdateEvents(job.inv, job.input, job.current)
                              \o IF job.event = NoOne THEN <<>> ELSE RecordEvent(job.inv, job.event, job.inv))
          ELSE UNCHANGED inv /\ Continue(p, <<>>)
    /\ UNCHANGED <<evidence, timeline, links, hypotheses, notes, clusters>>

InsertNote(p) ==
    /\ Ready(p, "note")
    /\ notes' = Append(notes, Head(todo[p]).row)
    /\ Continue(p, RecordEvent(Head(todo[p]).inv, "analyst_note", Len(notes) + 1))
    /\ UNCHANGED <<inv, evidence, timeline, links, hypotheses, clusters>>

SetNoteApproved(p) ==
    /\ Ready(p, "approveNote")
    /\ notes' = [notes EXCEPT ![Head(todo[p]).note].approved = Head(todo[p]).by]
    /\ Continue(p, <<>>)
    /\ UNCHANGED <<inv, evidence, timeline, links, hypotheses, clusters>>

InsertHypothesis(p) ==
    /\ Ready(p, "hypothesis")
    /\ hypotheses' = Append(hypotheses, Head(todo[p]).row)
    /\ Continue(p, RecordEvent(Head(todo[p]).inv, "hypothesis_created", Len(hypotheses) + 1))
    /\ UNCHANGED <<inv, evidence, timeline, links, notes, clusters>>

SetHypothesisStatus(p) ==
    /\ Ready(p, "hypothesisStatus")
    /\ LET job == Head(todo[p])
       IN /\ hypotheses' = [hypotheses EXCEPT ![job.hypothesis] =
                              [@ EXCEPT !.status = job.status, !.confidence = job.confidence]]
          /\ Continue(p, RecordEvent(hypotheses[job.hypothesis].inv, "hypothesis_updated", job.hypothesis))
    /\ UNCHANGED <<inv, evidence, timeline, links, notes, clusters>>

InsertHypothesisEvidence(p) ==
    /\ Ready(p, "support")
    /\ hypotheses' = [hypotheses EXCEPT ![Head(todo[p]).hypothesis].support = @ + 1]
    /\ Continue(p, <<>>)
    /\ UNCHANGED <<inv, evidence, timeline, links, notes, clusters>>

\* The event is recorded for an edge that is new and confirmed at once.
UpsertRelationship(p) ==
    /\ Ready(p, "relate")
    /\ LET job == Head(todo[p])
       IN /\ links' = [links EXCEPT ![job.inv] =
                         [k \in DOMAIN @ \cup {job.key} |-> IF k = job.key THEN job.link ELSE @[k]]]
          /\ Continue(p, IF job.key \notin DOMAIN links[job.inv] /\ job.link.status = "confirmed"
                         THEN RecordEvent(job.inv, "relationship_created", job.key) ELSE <<>>)
    /\ UNCHANGED <<inv, evidence, timeline, hypotheses, notes, clusters>>

InsertCluster(p) ==
    /\ Ready(p, "cluster") /\ Len(clusters) < MaxClusters
    /\ LET c == [status |-> "suggested", items |-> <<>>, inv |-> 0]
           items == Head(todo[p]).items
       IN /\ ValidCluster(c)
          /\ clusters' = Append(clusters, c)
          /\ Continue(p, [n \in DOMAIN items |-> [do |-> "clusterItem", cluster |-> Len(clusters) + 1, item |-> items[n]]])
    /\ UNCHANGED <<inv, evidence, timeline, links, hypotheses, notes>>

AddClusterItem(p) ==
    /\ Ready(p, "clusterItem")
    /\ LET job == Head(todo[p])
       IN clusters' = [clusters EXCEPT ![job.cluster].items =
                         IF \E n \in DOMAIN @ : @[n] = job.item THEN @ ELSE Append(@, job.item)]
    /\ Continue(p, <<>>)
    /\ UNCHANGED <<inv, evidence, timeline, links, hypotheses, notes>>

ListClusterItems(p) ==
    /\ Ready(p, "items")
    /\ LET job == Head(todo[p]) IN Continue(p, AfterItems(job.inv, job.cluster, clusters[job.cluster].items, job.by))
    /\ UNCHANGED stored

UpdateClusterStatus(p) ==
    /\ Ready(p, "clusterStatus")
    /\ LET job == Head(todo[p])
       IN clusters' = [clusters EXCEPT ![job.cluster] = [@ EXCEPT !.status = job.status, !.inv = job.inv]]
    /\ Continue(p, <<>>)
    /\ UNCHANGED <<inv, evidence, timeline, links, hypotheses, notes>>

Touched(job) == IF "inv" \in DOMAIN job THEN {job.inv} ELSE {}

\* A statement that fails is logged and skipped, or ends the command: nothing is left
\* behind it in that case. A job that goes on otherwise says how.
OnFailure(job) == IF "otherwise" \in DOMAIN job THEN job.otherwise ELSE <<>>

StatementFails(p) ==
    /\ todo[p] # <<>> /\ failures < MaxFailures
    /\ todo' = [todo EXCEPT ![p] = OnFailure(Head(@)) \o Tail(@)]
    /\ lost' = lost \cup Touched(Head(todo[p]))
    /\ failures' = failures + 1
    /\ UNCHANGED <<stored, started>>

\* The command is killed between two statements.
Killed(p) ==
    /\ todo[p] # <<>> /\ failures < MaxFailures
    /\ todo' = [todo EXCEPT ![p] = <<>>]
    /\ lost' = lost \cup UNION {Touched(todo[p][n]) : n \in DOMAIN todo[p]}
    /\ failures' = failures + 1
    /\ UNCHANGED <<stored, started>>

CaseCommand(p) ==
    \/ Create(p) \/ Attach(p) \/ Close(p) \/ Reopen(p) \/ Edit(p) \/ AddNote(p) \/ ApproveNote(p)
    \/ CreateHypothesis(p) \/ UpdateHypothesisStatus(p) \/ AddHypothesisEvidence(p)
    \/ Correlate(p) \/ Suggest(p) \/ Accept(p) \/ Reject(p)
CaseStatement(p) ==
    \/ InsertInvestigation(p) \/ InsertEvidence(p) \/ UpdateFirstLastObserved(p) \/ AppendEvent(p)
    \/ ReadCurrent(p) \/ UpdateInvestigation(p) \/ InsertNote(p) \/ SetNoteApproved(p)
    \/ InsertHypothesis(p) \/ SetHypothesisStatus(p) \/ InsertHypothesisEvidence(p)
    \/ UpsertRelationship(p) \/ InsertCluster(p) \/ AddClusterItem(p) \/ ListClusterItems(p)
    \/ UpdateClusterStatus(p) \/ StatementFails(p) \/ Killed(p)

-----------------------------------------------------------------------------
(* What an investigation promises, once nothing more is under way for it   *)
(* and as long as no statement of its commands was lost.                   *)

\* The rows are ones the domain accepts and the tables' constraints admit.
CaseTypeOK ==
    /\ Len(evidence) = Len(inv) /\ Len(timeline) = Len(inv) /\ Len(links) = Len(inv)
    /\ \A i \in DOMAIN inv : /\ ValidInvestigation(inv[i]) /\ inv[i].version \in Nat
                             /\ inv[i].closed = Terminal(inv[i].status)
                             /\ \A n \in DOMAIN evidence[i] : ValidEvidence(evidence[i][n])
                             /\ \A e \in DOMAIN timeline[i] : ValidEvent(e)
    /\ \A n \in DOMAIN notes : ValidNote(notes[n]) /\ notes[n].inv \in DOMAIN inv
    /\ \A h \in DOMAIN hypotheses : ValidHypothesis(hypotheses[h]) /\ hypotheses[h].inv \in DOMAIN inv
    /\ \A c \in DOMAIN clusters : ValidCluster(clusters[c]) /\ clusters[c].inv \in 0..Len(inv)
    /\ started \in 0..MaxOperations /\ failures \in 0..MaxFailures /\ lost \subseteq 0..MaxInvestigations

Settled(i) == i \notin lost /\ \A p \in Processes : \A n \in DOMAIN todo[p] : i \notin Touched(todo[p][n])
Times(i, e) == IF e \in DOMAIN timeline[i] THEN timeline[i][e] ELSE 0

\* The recorded status changes lead from new to the investigation's status: every status
\* is entered as often as it is left, but for the first and the last. Two commands that
\* read one version cannot both record a change.
StatusTrailBalanced ==
    \A i \in DOMAIN inv : Settled(i) =>
       \A s \in Statuses :
          LET Changes    == {e \in DOMAIN timeline[i] : e[1] = "status_changed"}
              Count(es)  == Cardinality(UNION {{<<e, n>> : n \in 1..timeline[i][e]} : e \in es})
              Entered    == Count({e \in Changes : e[2][2] = s})
              Left       == Count({e \in Changes : e[2][1] = s})
              One(b)     == IF b THEN 1 ELSE 0
          IN Entered - Left = One(inv[i].status = s) - One(s = "new")

\* The observed window reaches from the earliest to the latest observation of the attached
\* evidence, though updates of the same row read it before it was widened and write after.
WindowCoversEvidence ==
    \A i \in DOMAIN inv : Settled(i) =>
       LET Seen(e) == {e.observed} \cup (IF e.type = "finding" THEN {ById(FindingTable, e.id).last} ELSE {})
           at == (UNION {Seen(evidence[i][n]) : n \in DOMAIN evidence[i]}) \ {0}
       IN IF at = {} THEN inv[i].first = 0 /\ inv[i].last = 0
          ELSE /\ inv[i].first \in at /\ \A t \in at : inv[i].first <= t
               /\ inv[i].last \in at /\ \A t \in at : t <= inv[i].last

\* Attaching the same thing twice, at once or later, is recorded once on the timeline, with
\* the finding's own history once.
OneEventPerFact ==
    \A i \in DOMAIN inv :
       /\ \A f \in IdsOf(FindingTable) :
             Times(i, <<"finding_attached", f>>) <= 1 /\ Times(i, <<"finding_created", f>>) <= 1
       /\ \A k \in DOMAIN links[i] : Times(i, <<"relationship_created", k>>) <= 1
       /\ Settled(i) => \A n \in DOMAIN evidence[i] :
             LET e == evidence[i][n]
             IN Times(i, <<IF e.type = "finding" THEN "finding_attached" ELSE "evidence_attached", e.id>>) = 1

\* A reopening is recorded exactly when the investigation went from closed to open: the
\* three reads of the row cannot disagree about a row that is then written.
ReopensAreReal ==
    \A i \in DOMAIN inv : Settled(i) =>
       Times(i, <<"investigation_reopened", i>>) = Times(i, <<"status_changed", <<"closed", "open">>>>)

\* When a cluster is about to be marked accepted, its investigation holds every item the
\* listing returned.
AcceptedHoldsItems ==
    \A p \in Processes :
       Ready(p, "clusterStatus") =>
          LET job == Head(todo[p])
          IN job.inv \notin lost => \A n \in DOMAIN job.items :
                \E m \in DOMAIN evidence[job.inv] : evidence[job.inv][m].id = job.items[n]
=============================================================================
