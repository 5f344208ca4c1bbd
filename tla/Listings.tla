------------------------------ MODULE Listings ------------------------------
(***************************************************************************)
(* The List operations of every repository, and the services and commands  *)
(* that read through them.  A listing is either a keyset listing, which    *)
(* orders by (created_at, id) and hands back the position of its last row  *)
(* as a cursor, or one of the exceptions: numeric offsets, a latest-n      *)
(* query, or a query without a limit.  No listing runs in a transaction,   *)
(* so rows are inserted and changed between two pages of one reading.      *)
(*                                                                         *)
(* A row is an id, the value of the column its listing orders by, and the  *)
(* clauses of the request it does not satisfy.  Only the listing being     *)
(* read is kept: what a table holds when a request begins is arbitrary.    *)
(***************************************************************************)
EXTENDS Integers, Sequences, FiniteSets, SequencesExt

CONSTANTS DefaultLimit, MaxLimit,  \* of the pagination package
          Readings,                \* the readings considered, by name
          MaxRows, MaxKey,         \* rows of one listing, values of its order column
          MaxChanges, MaxFailures  \* inserts and updates, failing queries

ASSUME LimitsAssumption == /\ DefaultLimit \in Nat \ {0} /\ MaxLimit \in Nat \ {0}
                           /\ DefaultLimit <= MaxLimit

(* What Params.ResolveLimit makes of the limit a caller asks for. *)
ResolveLimit(limit) == IF limit <= 0 THEN DefaultLimit
                       ELSE IF limit > MaxLimit THEN MaxLimit ELSE limit

-----------------------------------------------------------------------------
(* The listings: the clauses a request always has and those it may have,   *)
(* the column they order by, and how they are paged.                       *)

Keyset(required, optional) ==
  [required |-> required, optional |-> optional, order |-> "created_at", paging |-> "keyset"]
Offsets(required, order) ==
  [required |-> required, optional |-> {}, order |-> order, paging |-> "offset"]
Whole(required, order) ==
  [required |-> required, optional |-> {}, order |-> order, paging |-> "whole"]

TargetList == Keyset({}, {"type", "authorization_status"})
AssetList == Keyset({}, {"target", "organization", "type", "hostname", "ip", "status", "source",
                         "provider", "model", "first_seen", "last_seen"})
AssetEvidence == Keyset({"asset"}, {"source"})
EndpointsByAsset == Keyset({"asset"}, {"status", "classification", "scan", "confidence"})
EndpointParameters == Whole({"endpoint"}, "name")
EndpointEvidence == Keyset({"endpoint"}, {})
FingerprintList == Keyset({}, {"asset", "target", "category", "technology", "status", "confidence",
                               "scan", "first_seen", "last_seen"})
FingerprintEvidence == Keyset({"fingerprint"}, {})
FindingList == Keyset({}, {"target", "asset", "endpoint", "category", "severity", "status",
                           "detector", "confidence", "scan"})
FindingEvidence == Keyset({"finding"}, {})
FindingEvents == Keyset({"finding"}, {})
FindingEventsByScan == Whole({"target", "scan"}, "created_at")
RuleList == Keyset({}, {"target", "status", "rule_type", "category"})
RuleVersionList == Whole({"rule"}, "version")
MatchList == Keyset({}, {"target", "rule", "status"})
MatchEvidence == Whole({"match"}, "observed_at")
AlertList == Keyset({}, {"target", "status"})
SuppressionList == Keyset({}, {"target", "scope", "scope_id", "active"})
ActiveSuppressions == Whole({"scope", "scope_id", "active"}, "created_at")
CorrelationList == Keyset({}, {"target", "status", "severity", "confidence"})
NodeList == Whole({"correlation"}, "timestamp")
EdgeList == Whole({"correlation"}, "created_at")
ChainList == Keyset({}, {})
StageList == Whole({"chain"}, "order")
RecordList == Keyset({}, {"target", "indicator_type", "indicator_value", "provider"})
RecordsByIndicator == Whole({"target", "indicator_type", "indicator_value"}, "created_at")
VulnerabilityRecordList == Keyset({}, {"affected_product"})
VulnerabilityMatchList == Keyset({}, {"target", "asset", "finding"})
RiskHistory == Offsets({"entity"}, "calculated_at")
EnrichmentEventList == Keyset({}, {"target", "indicator_type", "indicator_value"})
SessionList == Keyset({}, {"target", "investigation", "user"})
RequestList == Keyset({}, {"target", "investigation", "session"})
ToolCallList == Keyset({}, {"target", "session", "tool"})
MessageList == [Whole({"session"}, "created_at") EXCEPT !.paging = "latest"]
ReportList == Keyset({}, {"target", "report_type", "subject", "status"})
PackageList == Keyset({}, {"target"})
PackageItems == Whole({"package"}, "timestamp")
ControlEvidenceList == Keyset({}, {"target", "control"})
DistinctControls == Whole({"target"}, "control_id")
InvestigationList == Keyset({}, {"target", "status", "severity", "priority", "assigned_to"})
EvidenceList == Keyset({"investigation"}, {"source_type"})
TimelineList == Offsets({"investigation"}, "timestamp")
TimelineNewestFirst == Offsets({"investigation"}, "timestamp DESC")
RelationshipList == Keyset({"investigation"}, {"status"})
HypothesisList == Whole({"investigation"}, "created_at")
HypothesisEvidence == Whole({"hypothesis"}, "created_at")
NoteList == Whole({"investigation"}, "created_at")
ClusterList == Keyset({}, {"target", "status"})
ClusterItems == Whole({"cluster"}, "created_at")

-----------------------------------------------------------------------------
(* A reading is a sequence of requests.  `keeps` are the conditions the    *)
(* caller applies to the items it has received, `follows` says that it     *)
(* asks again with the cursor it was given until there is none, `skips`    *)
(* that it goes on without the items when the query fails, `each` that it  *)
(* makes the request for every item the previous one gave it.              *)

Request(list, where, limit) ==
  [list |-> list, where |-> where, limit |-> limit, keeps |-> {},
   follows |-> FALSE, skips |-> FALSE, each |-> FALSE]
OnePage(list, where) == Request(list, where, MaxLimit)
Unlimited(list, where) == Request(list, where, 0)      \* the caller gives no limit
Followed(list, where) == [OnePage(list, where) EXCEPT !.follows = TRUE]
Keeping(request, keeps) == [request EXCEPT !.keeps = keeps]
Skipping(request) == [request EXCEPT !.skips = TRUE]
ForEach(request) == [request EXCEPT !.each = TRUE]

(* The readers that follow the cursor. *)
BuildObservations ==
  << Keeping(Followed(FindingList, {"target"}), {"window"}),
     Followed(AssetList, {"target"}),          \* all of them are kept for their endpoints
     ForEach(Keeping(Followed(EndpointsByAsset, {"asset"}), {"window"})),
     Followed(FingerprintList, {"target"}),
     Keeping(Followed(RecordList, {"target"}), {"window"}),
     Keeping(Followed(MatchList, {"target"}), {"window"}),
     ForEach(Skipping(Unlimited(MatchEvidence, {"match"}))),
     Keeping(Followed(AlertList, {"target"}), {"window"}) >>
BuildEvents ==
  << Keeping(Followed(FindingList, {"target"}), {"window"}),
     Followed(AssetList, {"target"}),
     Keeping(Followed(FingerprintList, {"target"}), {"window"}),
     Keeping(Followed(RecordList, {"target"}), {"window"}),
     ForEach(Keeping(Followed(EndpointsByAsset, {"asset"}), {"window"})) >>
SuggestClusters == << Followed(FindingList, {"target", "status"}) >>
AnalyzeTarget == << Followed(AssetList, {"target"}) >>
LoadServiceObservations == << Keeping(Followed(AssetList, {"target"}), {"type"}) >>
AnalyzeAssets == << Keeping(Followed(AssetList, {"target"}), {"type"}) >>
LoadEndpoints == << Followed(EndpointsByAsset, {"asset"}),
                    ForEach(Unlimited(EndpointParameters, {"endpoint"})) >>
PreviousEndpoints == << Keeping(Followed(AssetList, {"target"}), {"type"}),
                        ForEach(Followed(EndpointsByAsset, {"asset"})),
                        ForEach(Unlimited(EndpointParameters, {"endpoint"})) >>
KnownHTTPBases == << Keeping(Followed(AssetList, {"target"}), {"type", "url"}) >>

(* The readers that take one page. *)
InvestigationFindings == OnePage(EvidenceList, {"investigation", "source_type"})
Summarize ==
  << OnePage(EvidenceList, {"investigation"}), InvestigationFindings,
     OnePage(TimelineList, {"investigation"}), OnePage(RelationshipList, {"investigation"}),
     Unlimited(HypothesisList, {"investigation"}) >>
BuildExportBundle ==
  Summarize \o
  << InvestigationFindings, OnePage(EvidenceList, {"investigation"}),
     OnePage(TimelineList, {"investigation"}), OnePage(RelationshipList, {"investigation"}),
     Unlimited(HypothesisList, {"investigation"}), Unlimited(NoteList, {"investigation"}) >>
BuildInvestigationReport ==
  << Skipping(OnePage(EvidenceList, {"investigation"})),
     Skipping(OnePage(TimelineList, {"investigation"})) >>
BuildAssetReport == << Skipping(OnePage(FindingList, {"target", "asset"})) >>
BuildCorrelationReport == << Skipping(Unlimited(NodeList, {"correlation"})),
                             Skipping(Unlimited(StageList, {"chain"})) >>
BuildAuditReport == << OnePage(InvestigationList, {"target"}),
                       ForEach(Skipping(OnePage(TimelineList, {"investigation"}))) >>
ControlDashboard == << Unlimited(DistinctControls, {"target"}),
                       ForEach(OnePage(ControlEvidenceList, {"target", "control"})) >>
BuildInvestigationContext ==
  << Skipping(OnePage(EvidenceList, {"investigation"})),
     Skipping(OnePage(TimelineList, {"investigation"})),
     Skipping(Unlimited(NoteList, {"investigation"})) >>
GetCorrelation == << Skipping(Unlimited(NodeList, {"correlation"})),
                     Skipping(Unlimited(EdgeList, {"correlation"})),
                     Skipping(Unlimited(StageList, {"chain"})) >>
GetTimeline == << Request(TimelineList, {"investigation"}, 1) >>
GetFindings == << Request(FindingList, {"target"}, 1) >>
GetAssets == << Request(AssetList, {"target"}, 1) >>
GetIntelligence == << Request(RecordList, {"target"}, 1) >>
BuildAssetRiskInput ==
  << Skipping(OnePage(MatchList, {"target", "status"})),
     Skipping(OnePage(CorrelationList, {"target", "status"})),
     Keeping(Skipping(OnePage(FindingList, {"asset"})), {"open"}),
     Skipping(OnePage(EndpointsByAsset, {"asset"})) >>
AttachedAssets == << Keeping(OnePage(EvidenceList, {"investigation"}), {"asset or finding"}) >>
DatasetForIndicator ==
  << Skipping(Request(AssetList, {"target", "hostname"}, 1)),
     ForEach(Skipping(OnePage(FingerprintList, {"asset"}))),
     Keeping(Skipping(OnePage(FindingList, {"asset"})), {"open"}) >>
CurrentFingerprints == << OnePage(FingerprintList, {"asset", "status"}) >>
BuildObservation == << Keeping(OnePage(AssetList, {"target", "hostname"}), {"sibling"}),
                       OnePage(EndpointsByAsset, {"asset"}) >>
LoadFingerprints == << OnePage(FingerprintList, {"asset", "status"}) >>
AssetTechnologies == << Skipping(OnePage(FingerprintList, {"asset", "status"})) >>
MaterializeFindingHistory == << OnePage(FindingEvents, {"finding"}) >>
DiffScan == << Unlimited(FindingEventsByScan, {"target", "scan"}) >>
ExportCorrelation == << Unlimited(NodeList, {"correlation"}), Unlimited(EdgeList, {"correlation"}),
                        Skipping(Unlimited(StageList, {"chain"})) >>
SuppressionsInForce == << Unlimited(ActiveSuppressions, {"scope", "scope_id", "active"}) >>
StoredIntelligence == << Unlimited(RecordsByIndicator, {"target", "indicator_type", "indicator_value"}) >>
VulnerabilityRecordsFor == << OnePage(VulnerabilityRecordList, {"affected_product"}) >>
ExportPackage == << Unlimited(PackageItems, {"package"}) >>
AcceptedItems == << Unlimited(ClusterItems, {"cluster"}) >>
(* Offered by a service or a repository, with any page; no command calls them. *)
Uncalled ==
  << OnePage(AssetEvidence, {"asset"}), OnePage(EndpointEvidence, {"endpoint"}),
     OnePage(FingerprintEvidence, {"fingerprint"}), OnePage(SuppressionList, {"target", "active"}),
     OnePage(PackageList, {"target"}), OnePage(VulnerabilityMatchList, {"target", "asset"}),
     OnePage(EnrichmentEventList, {"target"}), OnePage(RequestList, {"session"}),
     OnePage(ToolCallList, {"session"}), Unlimited(HypothesisEvidence, {"hypothesis"}) >>

(* The commands that print a listing. *)
TargetListCommand == << Unlimited(TargetList, {"type"}) >>
AssetListCommand == << Unlimited(AssetList, {"target"}) >>
FindingListCommand ==
  << Unlimited(FindingList, {"target", "severity", "category", "status", "detector"}) >>
FindingShowCommand == << Unlimited(FindingEvidence, {"finding"}), Unlimited(FindingEvents, {"finding"}) >>
RuleListCommand == << OnePage(RuleList, {"status", "target"}) >>
RuleShowCommand == << Unlimited(RuleVersionList, {"rule"}) >>
AlertListCommand == << OnePage(AlertList, {"status"}) >>
CorrelationListCommand == << OnePage(CorrelationList, {"status", "target"}) >>
ChainListCommand == << OnePage(ChainList, {}) >>
InvestigationListCommand == << OnePage(InvestigationList, {"target", "status", "severity"}) >>
TimelineCommand == << OnePage(TimelineList, {"investigation"}) >>
TimelineNewestCommand == << OnePage(TimelineNewestFirst, {"investigation"}) >>
ClusterListCommand == << OnePage(ClusterList, {"target", "status"}) >>
ReportListCommand == << OnePage(ReportList, {"report_type", "status", "target"}) >>
ControlEvidenceCommand == << OnePage(ControlEvidenceList, {"target", "control"}) >>
SessionListCommand == << OnePage(SessionList, {}) >>
SessionMessagesCommand == << Unlimited(MessageList, {"session"}) >>
RiskHistoryCommand == << OnePage(RiskHistory, {"entity"}) >>
EnrichProjectCommand == << Request(AssetList, {"target"}, 1) >>

Requests ==
  [BuildObservations |-> BuildObservations, BuildEvents |-> BuildEvents,
   SuggestClusters |-> SuggestClusters, AnalyzeTarget |-> AnalyzeTarget,
   LoadServiceObservations |-> LoadServiceObservations, AnalyzeAssets |-> AnalyzeAssets,
   LoadEndpoints |-> LoadEndpoints, PreviousEndpoints |-> PreviousEndpoints,
   KnownHTTPBases |-> KnownHTTPBases, Summarize |-> Summarize,
   BuildExportBundle |-> BuildExportBundle, BuildInvestigationReport |-> BuildInvestigationReport,
   BuildAssetReport |-> BuildAssetReport, BuildCorrelationReport |-> BuildCorrelationReport,
   BuildAuditReport |-> BuildAuditReport, ControlDashboard |-> ControlDashboard,
   BuildInvestigationContext |-> BuildInvestigationContext, GetCorrelation |-> GetCorrelation,
   GetTimeline |-> GetTimeline, GetFindings |-> GetFindings, GetAssets |-> GetAssets,
   GetIntelligence |-> GetIntelligence, BuildAssetRiskInput |-> BuildAssetRiskInput,
   AttachedAssets |-> AttachedAssets, DatasetForIndicator |-> DatasetForIndicator,
   CurrentFingerprints |-> CurrentFingerprints, BuildObservation |-> BuildObservation,
   LoadFingerprints |-> LoadFingerprints, AssetTechnologies |-> AssetTechnologies,
   MaterializeFindingHistory |-> MaterializeFindingHistory, DiffScan |-> DiffScan,
   ExportCorrelation |-> ExportCorrelation, SuppressionsInForce |-> SuppressionsInForce,
   StoredIntelligence |-> StoredIntelligence, VulnerabilityRecordsFor |-> VulnerabilityRecordsFor,
   ExportPackage |-> ExportPackage, AcceptedItems |-> AcceptedItems, Uncalled |-> Uncalled,
   TargetListCommand |-> TargetListCommand, AssetListCommand |-> AssetListCommand,
   FindingListCommand |-> FindingListCommand, FindingShowCommand |-> FindingShowCommand,
   RuleListCommand |-> RuleListCommand, RuleShowCommand |-> RuleShowCommand,
   AlertListCommand |-> AlertListCommand, CorrelationListCommand |-> CorrelationListCommand,
   ChainListCommand |-> ChainListCommand, InvestigationListCommand |-> InvestigationListCommand,
   TimelineCommand |-> TimelineCommand, TimelineNewestCommand |-> TimelineNewestCommand,
   ClusterListCommand |-> ClusterListCommand,
   ReportListCommand |-> ReportListCommand, ControlEvidenceCommand |-> ControlEvidenceCommand,
   SessionListCommand |-> SessionListCommand, SessionMessagesCommand |-> SessionMessagesCommand,
   RiskHistoryCommand |-> RiskHistoryCommand, EnrichProjectCommand |-> EnrichProjectCommand]

(* Every request names clauses its listing has; only a keyset or an offset *)
(* listing hands out a cursor to follow.                                   *)
ASSUME RequestsAssumption ==
  /\ Readings \subseteq DOMAIN Requests
  /\ \A name \in DOMAIN Requests : \A i \in DOMAIN Requests[name] :
       LET request == Requests[name][i]
       IN /\ request.list.required \subseteq request.where
          /\ request.where \subseteq request.list.required \cup request.list.optional
          /\ request.follows => request.list.paging \in {"keyset", "offset"}

-----------------------------------------------------------------------------
VARIABLES reading,   \* the reading under way
          at,        \* the request it has reached
          phase,     \* "begin" a request, "page" through it, "ended", "failed"
          rows,      \* id -> row, of the listing being read
          cursor,    \* where the next page starts: a row position, an offset, or Start
          items,     \* the ids the caller keeps, in the order received
          changes, failures,
          steady,    \* history: ids wanted ever since the request began
          matched    \* history: ids wanted at some moment of it

vars == <<reading, at, phase, rows, cursor, items, changes, failures, steady, matched>>

Ids == 1..MaxRows
Keys == 1..MaxKey
Absent == [key |-> 0, fails |-> {}]
Start == [key |-> 0, id |-> 0]

Req == Requests[reading][at]
(* A row of this listing: it may fail one of the clauses or conditions of the request. *)
RowsOf(request) ==
  {Absent} \cup [key: Keys, fails: {{}} \cup {{clause} : clause \in request.where \cup request.keeps}]
Matches(row, request) == row # Absent /\ row.fails \cap request.where = {}
Matching(table, request) == {id \in Ids : Matches(table[id], request)}
Keeps(row, request) == row.fails \cap request.keeps = {}
(* What the caller is after. *)
Wanted(table, request) == {id \in Matching(table, request) : Keeps(table[id], request)}

(* The order of the result: newest first for the risk history and the     *)
(* latest messages, the oldest first for everything else.                 *)
NewestFirst(list) == list.paging = "latest" \/ list.order \in {"calculated_at", "timestamp DESC"}
Before(table, a, b) == table[a].key < table[b].key \/ (table[a].key = table[b].key /\ a < b)
Sorted(table, ids, list) ==
  SetToSortSeq(ids, LAMBDA a, b : IF NewestFirst(list) THEN Before(table, b, a) ELSE Before(table, a, b))

(* (created_at, id) > ($cursor.created_at, $cursor.id) *)
AfterCursor_Mistake(row, id, c) == row.key > c.key
AfterCursor(row, id, c) == row.key > c.key \/ (row.key = c.key /\ id > c.id)

Prefix(s, n) == SubSeq(s, 1, IF Len(s) < n THEN Len(s) ELSE n)

(* One query: at most limit + 1 rows, of which the page keeps `limit`.    *)
(* NextCursor is set only when the extra row was there.                   *)
KeysetPage(table, request, c) ==
  LET limit == ResolveLimit(request.limit)
      found == Sorted(table, {id \in Matching(table, request) : AfterCursor(table[id], id, c)},
                      request.list)
      page == Prefix(found, limit)
  IN [items |-> page,
      next |-> IF Len(found) > limit THEN [key |-> table[Last(page)].key, id |-> Last(page)] ELSE Start]
(* The offset is kept in `key`; a cursor of Start is the first page. *)
OffsetPage(table, request, c) ==
  LET limit == ResolveLimit(request.limit)
      found == Sorted(table, Matching(table, request), request.list)
      rest == SubSeq(found, c.key + 1, Len(found))
  IN [items |-> Prefix(rest, limit),
      next |-> IF Len(rest) > limit THEN [key |-> c.key + limit, id |-> 0] ELSE Start]
LatestPage(table, request) ==
  [items |-> Reverse(Prefix(Sorted(table, Matching(table, request), request.list),
                            ResolveLimit(request.limit))),
   next |-> Start]
WholeTable(table, request) ==
  [items |-> Sorted(table, Matching(table, request), request.list), next |-> Start]

Page(table, request, c) ==
  CASE request.list.paging = "keyset" -> KeysetPage(table, request, c)
    [] request.list.paging = "offset" -> OffsetPage(table, request, c)
    [] request.list.paging = "latest" -> LatestPage(table, request)
    [] request.list.paging = "whole" -> WholeTable(table, request)

-----------------------------------------------------------------------------
NoRows == [id \in Ids |-> Absent]

Init == /\ reading \in Readings /\ at = 1 /\ phase = "begin"
        /\ rows = NoRows /\ cursor = Start /\ items = <<>>
        /\ changes = 0 /\ failures = 0 /\ steady = {} /\ matched = {}

(* The request is sent: its listing holds whatever it holds. *)
BeginRequest ==
  /\ phase = "begin"
  /\ rows' \in [Ids -> RowsOf(Req)]
  /\ phase' = "page" /\ cursor' = Start /\ items' = <<>>
  /\ steady' = Wanted(rows', Req) /\ matched' = steady'
  /\ UNCHANGED <<reading, at, changes, failures>>

FetchPage ==
  /\ phase = "page"
  /\ LET page == Page(rows, Req, cursor)
         done == ~Req.follows \/ page.next = Start
     IN /\ items' = items \o SelectSeq(page.items, LAMBDA id : Keeps(rows[id], Req))
        /\ cursor' = IF done THEN Start ELSE page.next
        /\ phase' = IF done THEN "ended" ELSE "page"
  /\ UNCHANGED <<reading, at, rows, changes, failures, steady, matched>>

(* The query fails: the reading is given up, or goes on with nothing. *)
FetchFails ==
  /\ phase = "page" /\ failures < MaxFailures
  /\ failures' = failures + 1
  /\ phase' = IF Req.skips THEN "ended" ELSE "failed"
  /\ items' = <<>> /\ cursor' = Start
  /\ rows' = NoRows /\ steady' = {} /\ matched' = {}
  /\ UNCHANGED <<reading, at, changes>>

(* The next request: those made for each item may not be made at all. *)
NextRequest ==
  /\ phase = "ended"
  /\ \E next \in (at + 1)..Len(Requests[reading]) :
       /\ \A i \in (at + 1)..(next - 1) : Requests[reading][i].each
       /\ at' = next
  /\ phase' = "begin"
  /\ rows' = NoRows /\ items' = <<>> /\ steady' = {} /\ matched' = {}
  /\ UNCHANGED <<reading, cursor, changes, failures>>

(* Another command inserts a row or changes one between two pages.  The    *)
(* order column is set once: created_at is the time the inserting          *)
(* transaction began, which may lie before rows already committed.         *)
WriteRow(id, row) ==
  /\ phase = "page" /\ cursor # Start /\ changes < MaxChanges
  /\ row # Absent /\ row # rows[id]
  /\ rows[id] # Absent => row.key = rows[id].key
  /\ rows' = [rows EXCEPT ![id] = row]
  /\ changes' = changes + 1
  /\ steady' = steady \cap Wanted(rows', Req)
  /\ matched' = matched \cup Wanted(rows', Req)
  /\ UNCHANGED <<reading, at, phase, cursor, items, failures>>

Next == \/ BeginRequest \/ FetchPage \/ FetchFails \/ NextRequest
        \/ \E id \in Ids : \E row \in RowsOf(Req) : WriteRow(id, row)

Spec == Init /\ [][Next]_vars

-----------------------------------------------------------------------------
(* A reading that follows its cursor to the end keeps every row that was   *)
(* wanted all along exactly once, whatever is written between the pages    *)
(* and however many rows share a created_at, and none that never was: the  *)
(* loops of buildObservations, buildEvents, SuggestClusters and            *)
(* previousEndpoints.                                                      *)
FollowedIsExact ==
  phase = "ended" /\ Req.follows =>
    /\ IsInjective(items)
    /\ steady \subseteq Range(items)
    /\ Range(items) \subseteq matched
=============================================================================
