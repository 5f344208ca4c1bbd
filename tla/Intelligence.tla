---------------------------- MODULE Intelligence ----------------------------
(* Enrichment: providers asked through a cache about an asset's indicators, *)
(* the records kept of their answers, the matches of its technologies with  *)
(* the vulnerability catalogue, and the history of risk scores. A command   *)
(* is a list of statements still to run; one action runs one SQL statement  *)
(* or waits for one provider. A command that is killed is one that takes no *)
(* further step.                                                            *)
(* internal/service/intelligence, internal/intelligence, its repository and *)
(* domain, the intel and risk commands.                                     *)
EXTENDS RiskScoring, VulnerabilityMatching, Lists, Bags

CONSTANTS None,
          Commands,          \* operating system processes, each running one command at a time
          AssetTable,        \* [id, target, named, host, url, facing, api, sensitive] in order of creation
          Canonical,         \* indicator as stored on the asset -> normalised
          FindingAsset,      \* finding -> asset
          EvidenceOf,        \* investigation -> attached <<type, id>>
          ProvidersOff,      \* disabled in the configuration
          External,          \* whether external providers may be asked
          Weights,
          ReputationTTL, RecentWindow,
          Technologies,      \* what fingerprinting may observe: sequences of [product, version, sure]
          InitialTechs, InitialCatalog, InitialScores,
          Constraints,       \* what a catalogue entry may say
          Jobs,              \* the commands that may be given, by how many are still to come
          FeedAnswers,       \* verdicts of the feed, None while it cannot be reached
          Levels,            \* criticalities an analyst may set
          MaxTime, MaxJobs,
          MaxDisturbances    \* bounds of the model; a failure, a change elsewhere and a tick each count as one

VARIABLES clock,
          world,      \* what other components store and the feed answers
          records,    \* <<target, provider, indicator, verdict, confidence>> -> [first, last, expires, at, data]
          cache,      \* <<provider, indicator>> -> [records, expires]
          catalog,    \* identifier -> [product, constraints]
          matches,    \* <<asset, identifier, version>> -> status
          scores,     \* [entity, at, score, severity, confidence, factors]; at: its calculation's place in time
          events,     \* enrichment events, a bag for each kind
          run,        \* the command each process is in
          left,       \* jobs and disturbances left to the model, and how many scores of an entity are stamped
          past        \* history: matches as first stored, announcements that failed, observations saved
vars == <<clock, world, records, cache, catalog, matches, scores, events, run, left, past>>

Assets == {AssetTable[n].id : n \in DOMAIN AssetTable}
AssetOf(a) == CHOOSE x \in ToSet(AssetTable) : x.id = a
\* A table with one row more, or another one for this key.
Put(table, key, row) == [k \in DOMAIN table \union {key} |-> IF k = key THEN row ELSE table[k]]
ProviderOrder == <<"certificate", "dns", "local", "technology", "threat_feed">>

\* Providers asked, in order of identifier: enabled, and external ones only where allowed.
Plan == Picked(ProviderOrder, {n \in DOMAIN ProviderOrder : ProviderOrder[n] \notin ProvidersOff
                                                         /\ (ProviderOrder[n] = "threat_feed" => External)})

Rank(verdict) == CASE verdict = "benign" -> 0 [] verdict = "suspicious" -> 2
                   [] verdict = "malicious" -> 3 [] OTHER -> 1

Verdicts == {"benign", "unknown", "suspicious", "malicious"}
Criticalities == {"low", "normal", "high", "critical"}

\* What an investigation scores is what the worst of its assets scored for the same command.
Supported(rows) ==
    \A r \in rows : r.entity[1] = "investigation" =>
       LET own == {q.score : q \in {q \in rows : q.entity[1] = "asset" /\ q.job = r.job}}
       IN r.score \in own /\ \A x \in own : x <= r.score
ValidScore(r) ==
    /\ r.entity[1] \in {"asset", "finding", "investigation"}
    /\ r.score \in 0..100
    /\ r.severity \in {"low", "medium", "high", "critical"} /\ r.confidence \in {"low", "medium", "high"}

\* Ids are unique, references name what exists, and what an indicator normalises to is one again.
ASSUME IdentityAssumption ==
    /\ AssetTable \in Seq(ToSet(AssetTable))
    /\ \A m, n \in DOMAIN AssetTable : AssetTable[m].id = AssetTable[n].id => m = n
    /\ \A x \in ToSet(AssetTable) : {x.host, x.url} \subseteq DOMAIN Canonical \cup {None}
    /\ \A i \in DOMAIN Canonical : Canonical[i] # None /\ Canonical[i] \in DOMAIN Canonical
    /\ FindingAsset \in [DOMAIN FindingAsset -> Assets]
    /\ \A v \in DOMAIN EvidenceOf :
          /\ IsFiniteSet(EvidenceOf[v])
          /\ \A e \in EvidenceOf[v] : e[2] \in IF e[1] = "asset" THEN Assets ELSE DOMAIN FindingAsset
    /\ MaxJobs \in Nat
    /\ \A n \in 1..MaxJobs : \A job \in Jobs[n] :
          /\ job[1] \in {"lookup", "enrich", "refresh"} => job[3] \in DOMAIN Canonical
          /\ job[1] = "asset" => job[2] \in Assets
          /\ job[1] = "finding" => job[2] \in DOMAIN FindingAsset
          /\ job[1] = "investigation" => job[2] \in DOMAIN EvidenceOf
\* What the tables hold at first, and what comes from outside, is what their types allow; jobs
\* are numbered from 1, what was stored before has a lower number and an earlier time.
ASSUME ContentAssumption ==
    /\ Weights \in [DOMAIN DefaultWeights -> Int]
    /\ InitialTechs = [a \in Assets |-> InitialTechs[a]]
    /\ \A ts \in Technologies \cup {InitialTechs[a] : a \in Assets} :
          ts \in Seq(ToSet(ts)) /\ \A n \in DOMAIN ts : ts[n].sure \in 0..3
    /\ InitialCatalog = [v \in DOMAIN InitialCatalog |-> InitialCatalog[v]] /\ IsFiniteSet(DOMAIN InitialCatalog)
    /\ \A v \in DOMAIN InitialCatalog : InitialCatalog[v].product # ""
    /\ \A v \in Constraints : v.product # ""
    /\ FeedAnswers \subseteq Verdicts \cup {None} /\ Levels \subseteq Criticalities
    /\ \A r \in InitialScores : ValidScore(r) /\ r.at \in Int /\ r.at <= 0 /\ r.job \in Int /\ r.job <= 0
    /\ Supported(InitialScores)

-----------------------------------------------------------------------------
(* Records and their aggregate.                                            *)

Never == -1
Record(p, i, verdict, confidence, data) ==
    [provider |-> p, ind |-> i, verdict |-> verdict, confidence |-> confidence, data |-> data,
     first |-> Never, last |-> Never, expires |-> Never, at |-> clock]
Fresh(r) == r.expires = Never \/ clock < r.expires
FreshRecords(rs) == Picked(rs, {n \in DOMAIN rs : Fresh(rs[n])})

RecordKey(r) == <<r.provider, r.ind, r.verdict, r.confidence>>
\* Of the records that share a key, the one retrieved last; the first of several.
DedupRecords(rs) ==
    LET Beats(j, k) == RecordKey(rs[j]) = RecordKey(rs[k])
                       /\ (rs[j].at > rs[k].at \/ (rs[j].at = rs[k].at /\ j < k))
    IN Picked(rs, {k \in DOMAIN rs : \A j \in DOMAIN rs : ~Beats(j, k)})

\* The known verdict most records report, the less severe of several; all weigh the same,
\* since the commands give no weights.
Aggregate(rs) ==
    LET Votes(v) == Cardinality({k \in DOMAIN rs : rs[k].verdict = v})
        order == <<"benign", "suspicious", "malicious">>
        best == {n \in 1..3 : Votes(order[n]) > 0 /\ \A m \in 1..3 : Votes(order[m]) <= Votes(order[n])}
    IN IF best = {} THEN "unknown" ELSE order[Min(best)]

\* How sure the aggregate is: agreement and a high average, capped by the surest record.
AggregateConfidence(rs) ==
    LET ranks == [k \in DOMAIN rs |-> rs[k].confidence]
        conflict == \E k \in DOMAIN rs : rs[k].verdict \notin {"unknown", Aggregate(rs)}
        support == \E k \in DOMAIN rs : rs[k].verdict = Aggregate(rs)
        points == 2 + (IF SumFunction(ranks) \div Len(rs) >= 3 THEN 1 ELSE 0)
                    + (IF support /\ ~conflict THEN 1 ELSE 0)
    IN IF rs = <<>> THEN 0 ELSE Min({3, points, Max(Range(ranks))})

-----------------------------------------------------------------------------
(* What is known of an asset without asking anybody.                       *)

HostKey(a) == AssetOf(a).host
IndicatorsOf(a) == (IF HostKey(a) = None THEN <<>> ELSE <<HostKey(a)>>)
                   \o (IF AssetOf(a).url = None THEN <<>> ELSE <<AssetOf(a).url>>)
EmptyDataset == [host |-> None, url |-> None, last |-> Never, techs |-> <<>>, cert |-> Never, dns |-> FALSE]

\* The asset's row, its fingerprints and its open findings, keyed by the host as stored.
LocalDataset(a, failing) ==
    IF HostKey(a) = None THEN EmptyDataset
    ELSE [host |-> HostKey(a), url |-> AssetOf(a).url, last |-> world.last[a],
          techs |-> IF failing THEN <<>> ELSE world.techs[a],
          cert |-> IF AssetOf(a).named THEN Never ELSE world.cert[a], dns |-> AssetOf(a).named]

\* The first asset of the target known under the indicator as the analyst wrote it.
DatasetFor(target, i, failing) ==
    LET found == {n \in DOMAIN AssetTable : AssetTable[n].target = target /\ AssetTable[n].host = i}
    IN IF found = {} THEN EmptyDataset ELSE LocalDataset(AssetTable[Min(found)].id, failing)

\* What the local providers answer: the indicator is normalised, the dataset is keyed by what
\* is stored. Only a certificate expires.
Here(i, ds) == ds.host # None /\ i = ds.host
CertificateAnswer(i, ds) ==
    IF Here(i, ds) /\ ds.cert # Never THEN <<[Record("certificate", i, "unknown", 3, "cert") EXCEPT !.expires = ds.cert]>>
    ELSE <<>>
DNSAnswer(i, ds) == IF Here(i, ds) /\ ds.dns THEN <<Record("dns", i, "unknown", 3, "dns")>> ELSE <<>>
HistoryAnswer(i, ds) ==
    IF Here(i, ds) \/ (ds.url # None /\ i = ds.url)
    THEN <<[Record("local", i, "unknown", 3, "local") EXCEPT !.first = 0, !.last = ds.last]>> ELSE <<>>
TechnologyAnswer(i, ds) ==
    IF Here(i, ds) THEN [n \in DOMAIN ds.techs |-> Record("technology", i, "unknown", ds.techs[n].sure, ds.techs[n].product)]
    ELSE <<>>
LocalAnswer(p, i, ds) ==
    CASE p = "certificate" -> CertificateAnswer(i, ds) [] p = "dns" -> DNSAnswer(i, ds)
      [] p = "local" -> HistoryAnswer(i, ds) [] OTHER -> TechnologyAnswer(i, ds)

-----------------------------------------------------------------------------
(* Commands as statements.                                                 *)

LookupSteps(target, i) ==
    <<[do |-> "show", target |-> target, ind |-> Canonical[i]]>>
    \o [n \in DOMAIN Plan |-> [do |-> "provider", prov |-> Plan[n], ind |-> Canonical[i]]]
    \o <<[do |-> "save", n |-> 1, target |-> target, ind |-> Canonical[i]]>>
ScoreSteps(a, entity) == <<[do |-> "input", asset |-> a, entity |-> entity],
                           [do |-> "previous", entity |-> entity], [do |-> "create", entity |-> entity]>>
EnrichSteps(a) == <<[do |-> "dataset", asset |-> a]>>
\* What follows once the asset and what is known of it have been read.
AssetSteps(a, ds) ==
    FlattenSeq([n \in DOMAIN IndicatorsOf(a) |-> LookupSteps(AssetOf(a).target, IndicatorsOf(a)[n])])
    \o [n \in DOMAIN ds.techs |-> [do |-> "catalog", asset |-> a, tech |-> ds.techs[n]]]
    \o ScoreSteps(a, <<"asset", a>>)

Idle == [todo |-> <<>>, job |-> 0, ds |-> EmptyDataset, before |-> "", got |-> <<>>, best |-> "",
         statuses |-> {}, score |-> <<>>, prev |-> Never, at |-> 0, taken |-> {}]
Next1(c) == Head(run[c].todo)
Rest(c) == Tail(run[c].todo)
Doing(c, what) == run[c].todo # <<>> /\ Next1(c).do = what
\* The command goes on with these statements, and this in memory; a finished one is idle.
Go(c, memory, todo) == run' = [run EXCEPT ![c] = IF todo = <<>> THEN Idle ELSE [memory EXCEPT !.todo = todo]]
SkipTo(todo, what) ==
    LET found == {n \in DOMAIN todo : todo[n].do \in what}
    IN IF found = {} THEN <<>> ELSE SubSeq(todo, Min(found), Len(todo))
\* An asset that cannot be enriched ends the command, or gives way to the next asset.
NextAsset(todo) == SkipTo(todo, {"dataset", "investigation"})
Spend == left.spare > 0 /\ left' = [left EXCEPT !.spare = @ - 1]

\* Enrich, Refresh, EnrichFinding and EnrichInvestigation as statements. An investigation's
\* assets are those attached and those of the findings attached, in any order; none at all
\* is refused.
KnownSteps(target, i) == <<[do |-> "known", target |-> target, ind |-> i]>>
RefreshSteps(target, i) ==
    LET active == Picked(ProviderOrder, {n \in DOMAIN ProviderOrder : ProviderOrder[n] \notin ProvidersOff})
    IN [n \in DOMAIN active |-> [do |-> "invalidate", prov |-> active[n], ind |-> Canonical[i]]]
       \o KnownSteps(target, Canonical[i])
FindingSteps(f) == EnrichSteps(FindingAsset[f]) \o ScoreSteps(FindingAsset[f], <<"finding", f>>)
AssetsOf(v) == {IF e[1] = "asset" THEN e[2] ELSE FindingAsset[e[2]] : e \in EvidenceOf[v]}
InvestigationSteps(v) ==
    {FlattenSeq([n \in DOMAIN order |-> EnrichSteps(order[n])]) \o <<[do |-> "investigation", inv |-> v]>>
        : order \in SetToSeqs(AssetsOf(v))}

tables == <<records, cache, catalog, matches, scores, events>>
inMemory == <<clock, world, tables, past>>

Given == Jobs[left.jobs]
Start(c, todo) ==
    /\ run' = [run EXCEPT ![c] = [Idle EXCEPT !.todo = todo, !.job = left.jobs]]
    /\ left' = [left EXCEPT !.jobs = @ - 1]
    /\ UNCHANGED inMemory
Free(c, command) == run[c].todo = <<>> /\ left.jobs > 0 /\ \E job \in Given : job[1] = command

\* intel lookup, enrich, refresh and enrich-project; risk asset, finding and investigation.
LookupCommand(c) ==
    /\ Free(c, "lookup")
    /\ \E job \in Given : job[1] = "lookup" /\ Start(c, <<Head(LookupSteps(job[2], job[3]))>>)
EnrichCommand(c) ==
    /\ Free(c, "enrich")
    /\ \E job \in Given : job[1] = "enrich" /\ Start(c, KnownSteps(job[2], job[3]))
RefreshCommand(c) ==
    /\ Free(c, "refresh")
    /\ \E job \in Given : job[1] = "refresh" /\ Start(c, RefreshSteps(job[2], job[3]))
EnrichProjectCommand(c) ==
    /\ Free(c, "project")
    /\ \E job \in Given :
          /\ job[1] = "project"
          /\ LET found == Picked(AssetTable, {n \in DOMAIN AssetTable : AssetTable[n].target = job[2]})
             IN Start(c, FlattenSeq([n \in DOMAIN found |-> EnrichSteps(found[n].id)]))
RiskAssetCommand(c) ==
    /\ Free(c, "asset")
    /\ \E job \in Given : job[1] = "asset" /\ Start(c, EnrichSteps(job[2]))
RiskFindingCommand(c) ==
    /\ Free(c, "finding")
    /\ \E job \in Given : job[1] = "finding" /\ Start(c, FindingSteps(job[2]))
RiskInvestigationCommand(c) ==
    /\ Free(c, "investigation")
    /\ \E job \in Given : /\ job[1] = "investigation" /\ AssetsOf(job[2]) # {}
                          /\ \E todo \in InvestigationSteps(job[2]) : Start(c, todo)

\* The asset, its fingerprints and findings: a failed listing leaves its part empty.
ReadAsset(c) ==
    /\ Doing(c, "dataset")
    /\ LET a == Next1(c).asset
           whole == LocalDataset(a, FALSE)
       IN \/ \E ds \in {whole, LocalDataset(a, TRUE)} :
                /\ Go(c, [run[c] EXCEPT !.ds = ds, !.best = "", !.statuses = {}], AssetSteps(a, ds) \o Rest(c))
                /\ IF ds = whole THEN UNCHANGED left ELSE Spend
          \/ Spend /\ Go(c, run[c], NextAsset(Rest(c)))
    /\ UNCHANGED inMemory

ReadKnown(c) ==
    /\ Doing(c, "known")
    /\ LET s == Next1(c)
           known == DatasetFor(s.target, s.ind, FALSE)
       IN \E ds \in {known, EmptyDataset} :
             /\ Go(c, [run[c] EXCEPT !.ds = ds], LookupSteps(s.target, s.ind) \o Rest(c))
             /\ IF ds = known THEN UNCHANGED left ELSE Spend
    /\ UNCHANGED inMemory

\* Show: the aggregate of what is stored. Its failure is not looked at and gives none.
StoredRecords(target, i) ==
    SetToSeq({[provider |-> k[2], ind |-> i, verdict |-> k[4], confidence |-> k[5], data |-> records[k].data,
               first |-> records[k].first, last |-> records[k].last,
               expires |-> records[k].expires, at |-> records[k].at]
                 : k \in {k \in DOMAIN records : k[1] = target /\ k[3] = i}})
ShowStored(c) ==
    /\ Doing(c, "show")
    /\ \/ /\ UNCHANGED left
          /\ Go(c, [run[c] EXCEPT !.got = <<>>,
                        !.before = Aggregate(FreshRecords(StoredRecords(Next1(c).target, Next1(c).ind)))], Rest(c))
       \/ Spend /\ Go(c, [run[c] EXCEPT !.got = <<>>, !.before = ""], Rest(c))
    /\ UNCHANGED inMemory

Collect(c, rs) == [run[c] EXCEPT !.got = DedupRecords(@ \o rs)]

\* An entry, the table with one more or one less; a ttl of zero would never expire.
Entry(p, i) == IF <<p, i>> \in DOMAIN cache THEN cache[<<p, i>>] ELSE [records |-> <<>>, expires |-> Never]
WithEntry(p, i, rs) == Put(cache, <<p, i>>, [records |-> rs, expires |-> clock + ReputationTTL])
WithoutEntry(p, i) == [k \in DOMAIN cache \ {<<p, i>>} |-> cache[k]]

\* A provider of what is known locally answers at once, from memory. An entry counts where it
\* has not expired and still has fresh records.
Cached(p, i) == IF clock <= Entry(p, i).expires THEN FreshRecords(Entry(p, i).records) ELSE <<>>
AskCache(c) ==
    /\ Doing(c, "provider")
    /\ LET s == Next1(c)
           miss == IF s.prov = "threat_feed" THEN [s EXCEPT !.do = "ask"]
                   ELSE [do |-> "cache", prov |-> s.prov, ind |-> s.ind, recs |-> LocalAnswer(s.prov, s.ind, run[c].ds)]
           hit == Cached(s.prov, s.ind)
       IN \/ hit # <<>> /\ Go(c, Collect(c, hit), Rest(c)) /\ UNCHANGED left
          \/ /\ Go(c, run[c], <<miss>> \o Rest(c))
             /\ IF hit = <<>> THEN UNCHANGED left ELSE Spend
    /\ UNCHANGED inMemory

\* The external provider: an answer is cached next, a failure passed over.
ProviderAnswers(c) ==
    /\ Doing(c, "ask") /\ world.feed # None
    /\ LET s == Next1(c)
       IN Go(c, run[c], <<[do |-> "cache", prov |-> s.prov, ind |-> s.ind,
                           recs |-> <<Record(s.prov, s.ind, world.feed, 3, "feed")>>]>> \o Rest(c))
    /\ UNCHANGED <<inMemory, left>>
ProviderFails(c) ==
    /\ Doing(c, "ask") /\ world.feed = None
    /\ Go(c, run[c], Rest(c))
    /\ UNCHANGED <<inMemory, left>>

\* A failed write keeps the answer.
WriteCache(c) ==
    /\ Doing(c, "cache")
    /\ LET s == Next1(c)
       IN /\ Go(c, Collect(c, s.recs), Rest(c))
          /\ \/ cache' = WithEntry(s.prov, s.ind, s.recs) /\ UNCHANGED left
             \/ Spend /\ UNCHANGED cache
    /\ UNCHANGED <<clock, world, records, catalog, matches, scores, events, past>>

Invalidate(c) ==
    /\ Doing(c, "invalidate")
    /\ \/ cache' = WithoutEntry(Next1(c).prov, Next1(c).ind) /\ UNCHANGED left
       \/ Spend /\ <<Next1(c).prov, Next1(c).ind>> \in DOMAIN cache /\ UNCHANGED cache
    /\ Go(c, run[c], Rest(c))
    /\ UNCHANGED <<clock, world, records, catalog, matches, scores, events, past>>

-----------------------------------------------------------------------------
(* Records and events.                                                     *)

\* UpsertRecord: the window only widens, the rest is what was saved last.
Earlier(a, b) == IF a = Never THEN b ELSE IF b = Never THEN a ELSE Min({a, b})
Later_Mistake(a, b) == IF b = Never THEN a ELSE b
Later(a, b) == Max({a, b})
RowKey(target, r) == <<target, r.provider, r.ind, r.verdict, r.confidence>>
Saved(target, r) ==
    LET k == RowKey(target, r)
        old == IF k \in DOMAIN records THEN records[k] ELSE [first |-> Never, last |-> Never]
    IN Put(records, k, [first |-> Earlier(old.first, r.first), last |-> Later(old.last, r.last),
                          expires |-> r.expires, at |-> r.at, data |-> r.data])
SaveRecord(c) ==
    /\ Doing(c, "save") /\ Next1(c).n <= Len(run[c].got)
    /\ LET s == Next1(c)
           r == run[c].got[s.n]
       IN /\ Go(c, run[c], <<[s EXCEPT !.n = @ + 1]>> \o Rest(c))
          /\ \/ /\ records' = Saved(s.target, r)
                /\ past' = IF r.last = Never THEN past
                           ELSE [past EXCEPT !.saved = @ \union {<<RowKey(s.target, r), r.last>>}]
                /\ UNCHANGED left
             \/ Spend /\ UNCHANGED <<records, past>>
    /\ UNCHANGED <<clock, world, cache, catalog, matches, scores, events>>

RecordEvent(kind, e) == events' = [events EXCEPT ![kind] = @ (+) SetToBag({e})]
\* emitVerdictChangeEvents, and what a caller keeps of the report: the worst verdict so far.
EmitVerdictChange(c) ==
    /\ Doing(c, "save") /\ Next1(c).n > Len(run[c].got)
    /\ LET fresh == FreshRecords(run[c].got)
           after == Aggregate(fresh)
           before == run[c].before
           type == IF after = "malicious" THEN "new_malicious_reputation" ELSE "verdict_changed"
       IN /\ Go(c, [run[c] EXCEPT !.best = IF Rank(after) > Rank(@) THEN after ELSE @,
                                  !.got = <<>>, !.before = ""], Rest(c))
          /\ IF before \in {"", after} THEN UNCHANGED <<events, left>>
             ELSE \/ RecordEvent("verdict", [type |-> type, ind |-> Next1(c).ind, previous |-> before, new |-> after,
                                           confidence |-> AggregateConfidence(fresh)])
                     /\ UNCHANGED left
                  \/ Spend /\ UNCHANGED events
    /\ UNCHANGED <<clock, world, records, cache, catalog, matches, scores, past>>

-----------------------------------------------------------------------------
(* Vulnerability matches.                                                  *)

EntriesFor(product) == {v \in DOMAIN catalog : catalog[v].product = product}
\* The entries for the technology's product; a failure ends the matching of the asset.
ListCatalog(c) ==
    /\ Doing(c, "catalog")
    /\ LET s == Next1(c)
           entries == SetToSeq(EntriesFor(s.tech.product))
           step(v) == [do |-> "match", key |-> <<s.asset, v, s.tech.version>>,
                       status |-> EvaluateEntry(s.tech.version, catalog[v].constraints)]
       IN \/ /\ UNCHANGED left
             /\ Go(c, run[c], [n \in DOMAIN entries |-> step(entries[n])] \o Rest(c))
          \/ Spend /\ Go(c, run[c], SkipTo(Rest(c), {"input"}))
    /\ UNCHANGED inMemory

WithMatch(key, status) == Put(matches, key, status)
\* UpsertVulnerabilityMatch tells an insert from an update; only an insert is announced.
Announced == {"confirmed", "probable"}
ToAnnounce_Mistake(key, status) == status \in Announced
ToAnnounce(key, status) == key \notin DOMAIN matches /\ status \in Announced
UpsertMatch(c) ==
    /\ Doing(c, "match")
    /\ LET s == Next1(c)
           kept == [run[c] EXCEPT !.statuses = @ \union {s.status}]
       IN \/ /\ matches' = WithMatch(s.key, s.status)
             /\ past' = [past EXCEPT !.born = IF s.key \in DOMAIN matches THEN @ ELSE Put(@, s.key, s.status)]
             /\ Go(c, kept, (IF ToAnnounce(s.key, s.status) THEN <<[s EXCEPT !.do = "announce"]>> ELSE <<>>) \o Rest(c))
             /\ UNCHANGED left
          \/ Spend /\ Go(c, run[c], Rest(c)) /\ UNCHANGED <<matches, past>>
    /\ UNCHANGED <<clock, world, records, cache, catalog, scores, events>>

RecordMatchEvent(c) ==
    /\ Doing(c, "announce")
    /\ Go(c, run[c], Rest(c))
    /\ \/ /\ RecordEvent("match", [key |-> Next1(c).key, new |-> Next1(c).status])
          /\ UNCHANGED <<left, past>>
       \/ Spend /\ past' = [past EXCEPT !.lost = @ \union {Next1(c).key}] /\ UNCHANGED events
    /\ UNCHANGED <<clock, world, records, cache, catalog, matches, scores>>

-----------------------------------------------------------------------------
(* Risk.                                                                   *)

WorstVulnerability(statuses) ==
    IF "confirmed" \in statuses THEN "confirmed" ELSE IF "probable" \in statuses THEN "probable" ELSE "none"
SeverityRank == [none |-> 1, informational |-> 2, low |-> 3, medium |-> 4, high |-> 5, critical |-> 6]
WorstSeverity(ss) == CHOOSE s \in ss \union {"none"} : \A x \in ss : SeverityRank[x] <= SeverityRank[s]

\* buildAssetRiskInput, without the tables whose listing failed. The reads are of separate
\* tables and the score adds their points, so they are one step. A finding's own score
\* takes that finding's severity.
OpenOf(a) == {f \in DOMAIN FindingAsset : FindingAsset[f] = a /\ f \in world.open}
RiskInput(a, entity, statuses, best, failing) ==
    [severity |-> IF entity[1] = "finding" THEN world.severity[entity[2]]
                  ELSE IF "findings" \in failing THEN "none"
                  ELSE WorstSeverity({world.severity[f] : f \in OpenOf(a)}),
     sure |-> FALSE, facing |-> AssetOf(a).facing \/ AssetOf(a).url # None, services |-> 0,
     sensitive |-> IF AssetOf(a).sensitive /\ "endpoints" \notin failing THEN 1 ELSE 0,
     api |-> AssetOf(a).api /\ "endpoints" \notin failing,
     vulnerability |-> WorstVulnerability(statuses), verdict |-> best,
     criticality |-> IF "criticality" \in failing THEN "normal" ELSE world.criticality[a],
     recent |-> clock - world.last[a] < RecentWindow,
     matches |-> IF "matches" \in failing THEN 0 ELSE world.matches,
     correlations |-> IF "correlations" \in failing THEN 0 ELSE world.correlations]
ReadRiskInput(c) ==
    /\ Doing(c, "input")
    /\ \E failing \in {{}, {"findings"}, {"endpoints"}, {"criticality"}, {"matches"}, {"correlations"}} :
          LET s == Next1(c)
              input == RiskInput(s.asset, s.entity, run[c].statuses, run[c].best, failing)
          IN /\ Go(c, [run[c] EXCEPT !.score = Calculate(input, Weights)], Rest(c))
             /\ IF failing = {} THEN UNCHANGED left
                ELSE Spend /\ input # RiskInput(s.asset, s.entity, run[c].statuses, run[c].best, {})
    /\ UNCHANGED inMemory

\* The newest score of the entity, and the time stamp the new one will carry.
RowsOf(entity) == {r \in scores : r.entity = entity}
Latest(entity) ==
    IF RowsOf(entity) = {} THEN Never
    ELSE (CHOOSE r \in RowsOf(entity) : \A q \in RowsOf(entity) : q.at <= r.at).score
StampOf(entity) == 1 + (IF entity \in DOMAIN left.stamps THEN left.stamps[entity] ELSE 0)
ReadPrevious(c) ==
    /\ Doing(c, "previous")
    /\ LET entity == Next1(c).entity
           stamped == [left EXCEPT !.stamps = Put(@, entity, StampOf(entity))]
       IN \E prev \in {Latest(entity), Never} :
             /\ Go(c, [run[c] EXCEPT !.prev = prev, !.at = StampOf(entity)], Rest(c))
             /\ IF prev = Latest(entity) THEN left' = stamped
                ELSE left.spare > 0 /\ left' = [stamped EXCEPT !.spare = @ - 1]
    /\ UNCHANGED inMemory

Rose_Mistake(prev, score) == score > prev
Rose(prev, score) == prev # Never /\ score > prev
ScoreRow(entity, at, job, x) ==
    [entity |-> entity, at |-> at, job |-> job, score |-> x.score, severity |-> x.severity,
     confidence |-> x.confidence, factors |-> x.factors]
\* persistRiskScore: every score is a row of its own. A score that cannot be stored fails the asset.
CreateScore(c) ==
    /\ Doing(c, "create")
    /\ LET entity == Next1(c).entity
           row == ScoreRow(entity, run[c].at, run[c].job, run[c].score)
           taken == [run[c] EXCEPT !.taken = IF entity[1] = "asset" THEN @ \union {run[c].score} ELSE @]
       IN \/ /\ scores' = scores \union {row}
             /\ Go(c, taken, (IF Rose(run[c].prev, row.score) THEN <<[Next1(c) EXCEPT !.do = "rise"]>> ELSE <<>>)
                              \o Rest(c))
             /\ UNCHANGED left
          \/ Spend /\ Go(c, run[c], NextAsset(Rest(c))) /\ UNCHANGED scores
    /\ UNCHANGED <<clock, world, records, cache, catalog, matches, events, past>>

RecordRise(c) ==
    /\ Doing(c, "rise")
    /\ Go(c, run[c], Rest(c))
    /\ \/ RecordEvent("rise", [entity |-> Next1(c).entity, previous |-> run[c].prev, new |-> run[c].score.score])
          /\ UNCHANGED left
       \/ Spend /\ UNCHANGED events
    /\ UNCHANGED <<clock, world, records, cache, catalog, matches, scores, past>>

\* EnrichInvestigation: the highest of its assets' scores, any of equals; with none the severity is blank
\* and the table refuses the row. It announces no rise.
Highest_Mistake(taken) == taken
Highest(taken) == {x \in taken : \A y \in taken : y.score <= x.score}
ScoreInvestigation(c) ==
    /\ Doing(c, "investigation")
    /\ LET entity == <<"investigation", Next1(c).inv>>
       IN \/ \E best \in Highest(run[c].taken) :
                /\ scores' = scores \union {ScoreRow(entity, StampOf(entity), run[c].job, best)}
                /\ left' = [left EXCEPT !.stamps = Put(@, entity, StampOf(entity))]
          \/ run[c].taken = {} /\ UNCHANGED <<scores, left>>
          \/ run[c].taken # {} /\ Spend /\ UNCHANGED scores
    /\ Go(c, run[c], Rest(c))
    /\ UNCHANGED <<clock, world, records, cache, catalog, matches, events, past>>

-----------------------------------------------------------------------------
(* The rest of the system.                                                 *)

Change(w) == /\ left.spare > 0 /\ world' = w /\ w # world
             /\ left' = [left EXCEPT !.spare = @ - 1]
             /\ UNCHANGED <<clock, tables, run, past>>

FeedChanges == \E v \in FeedAnswers : Change([world EXCEPT !.feed = v])
AssetObserved == \E a \in Assets : Change([world EXCEPT !.last[a] = clock])
TechnologyObserved == \E a \in Assets, ts \in Technologies : Change([world EXCEPT !.techs[a] = ts])
FindingChanges ==
    \E f \in DOMAIN FindingAsset :
       \/ Change([world EXCEPT !.open = IF f \in @ THEN @ \ {f} ELSE @ \union {f}])
       \/ Change([world EXCEPT !.severity[f] = "critical"])
MatchOpened == Change([world EXCEPT !.matches = @ + 1])
CorrelationOpened == Change([world EXCEPT !.correlations = @ + 1])
\* risk criticality set: level and analyst are required.
SetCriticality == \E a \in Assets, level \in Levels : Change([world EXCEPT !.criticality[a] = level])

WithVulnerability(v) == Put(catalog, v.id, [product |-> v.product, constraints |-> v.constraints])
\* The catalogue is filled from outside: nothing in the commands writes it.
ImportVulnerability ==
    /\ left.spare > 0
    /\ \E v \in Constraints : catalog' = WithVulnerability(v)
    /\ catalog' # catalog
    /\ left' = [left EXCEPT !.spare = @ - 1]
    /\ UNCHANGED <<clock, world, records, cache, matches, scores, events, run, past>>

Tick == clock < MaxTime /\ Spend /\ clock' = clock + 1 /\ UNCHANGED <<world, tables, run, past>>

Init ==
    /\ clock = 1
    /\ world = [feed |-> "malicious", last |-> [a \in Assets |-> 0], techs |-> InitialTechs,
                cert |-> [a \in Assets |-> 1], open |-> DOMAIN FindingAsset,
                severity |-> [f \in DOMAIN FindingAsset |-> "high"], matches |-> 0, correlations |-> 0,
                criticality |-> [a \in Assets |-> "normal"]]
    /\ records = <<>> /\ cache = <<>> /\ catalog = InitialCatalog /\ matches = <<>> /\ scores = InitialScores
    /\ events = [kind \in {"verdict", "match", "rise"} |-> EmptyBag]
    /\ run = [c \in Commands |-> Idle]
    /\ left = [jobs |-> MaxJobs, spare |-> MaxDisturbances, stamps |-> <<>>]
    /\ past = [born |-> <<>>, lost |-> {}, saved |-> {}]

Next ==
    \/ \E c \in Commands :
          \/ LookupCommand(c) \/ EnrichCommand(c) \/ RefreshCommand(c) \/ EnrichProjectCommand(c)
          \/ RiskAssetCommand(c) \/ RiskFindingCommand(c) \/ RiskInvestigationCommand(c) \/ ReadAsset(c) \/ ReadKnown(c) \/ ShowStored(c) \/ AskCache(c)
          \/ ProviderAnswers(c) \/ ProviderFails(c) \/ WriteCache(c) \/ Invalidate(c) \/ SaveRecord(c)
          \/ EmitVerdictChange(c) \/ ListCatalog(c) \/ UpsertMatch(c) \/ RecordMatchEvent(c)
          \/ ReadRiskInput(c) \/ ReadPrevious(c) \/ CreateScore(c) \/ RecordRise(c) \/ ScoreInvestigation(c)
    \/ FeedChanges \/ AssetObserved \/ TechnologyObserved \/ FindingChanges \/ MatchOpened
    \/ CorrelationOpened \/ SetCriticality \/ ImportVulnerability \/ Tick

Spec == Init /\ [][Next]_vars

-----------------------------------------------------------------------------
(* What the domain types call valid. Of these only the criticality is checked before a row is  *)
(* written.                                                                                   *)

ValidRecord(k) == k[2] \in ToSet(ProviderOrder) /\ k[3] # None /\ k[4] \in Verdicts /\ k[5] \in 0..3
                  /\ records[k].at # Never
ValidVulnerability(v) == catalog[v].product # ""
ValidMatch(status) == status \in MatchStatuses
ValidVerdictEvent(e) == e.type \in {"new_malicious_reputation", "verdict_changed"} /\ e.new \in Verdicts

-----------------------------------------------------------------------------
(* Properties.                                                             *)

\* Every row stored is one its domain type calls valid, although the repository is handed
\* records, matches, scores and events nobody validated.
RowsValid ==
    /\ \A k \in DOMAIN records : ValidRecord(k)
    /\ \A v \in DOMAIN catalog : ValidVulnerability(v)
    /\ \A key \in DOMAIN matches : ValidMatch(matches[key])
    /\ \A r \in scores : ValidScore(r)
    /\ \A e \in DOMAIN events.verdict : ValidVerdictEvent(e)
    /\ \A a \in Assets : world.criticality[a] \in Criticalities

\* A match with a vulnerability is announced by exactly one event, and only where it was
\* confirmed or probable when it was first stored: however many commands enrich the asset at
\* once, whatever later evaluations make of the match, and however often it is stored
\* again. Only an event that failed to be written, or is about to be, is missing.
MatchAnnouncedOnce ==
    \A key \in DOMAIN matches :
       LET told == {e \in DOMAIN events.match : e.key = key}
           pending == {c \in Commands : Doing(c, "announce") /\ Next1(c).key = key}
       IN /\ \A e \in told : events.match[e] = 1
          /\ Cardinality(told) + Cardinality(pending)
               = IF past.born[key] \in Announced /\ key \notin past.lost THEN 1 ELSE 0

\* The time a record was last seen is the latest that any command saved for it, also when a
\* command that read the asset earlier saves after one that read it later.
LastSeenKept ==
    \A x \in past.saved : records[x[1]].last >= x[2]

\* An event that says a risk rose names two stored scores of the entity, the earlier one lower.
RisesTraceable ==
    \A e \in DOMAIN events.rise :
       \E q, r \in RowsOf(e.entity) :
          q.score = e.previous /\ r.score = e.new /\ q.at < r.at /\ e.previous < e.new

\* An investigation never scores higher than an asset it holds was found to score by the
\* same command, and never lower than another.
InvestigationSupported == Supported(scores)
=============================================================================
