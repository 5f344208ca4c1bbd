# AI-Surface: specifications, model checking and proofs

AI-Surface is a command line platform that discovers what an organisation
exposes (network, DNS, HTTP, endpoints), fingerprints it, detects findings and
rule matches, enriches them, and helps analysts investigate and report. This
directory specifies its stateful core in TLA+, checks it with TLC on small
instances and proves the central properties with TLAPS for all instances.

## 1. How the system runs, and what that means for the models

Every command is a short-lived process (`cmd/cli`). There is no server, no job
queue and no lock between processes; they meet in PostgreSQL only, at its
default isolation (READ COMMITTED). Most repository methods are a single
statement, often an `INSERT ... ON CONFLICT DO UPDATE`; a few places use
`database.WithTx`. Failures of single statements are very often logged and
skipped ("best effort"). Inside one process, goroutines appear in the scanners
and the crawler.

The models therefore share one convention: **an actor is a process, an action
is one SQL statement, or a transaction whose statements lock what they go on to write,
and whatever a process remembers between
two statements is part of its local state.** A crash ends a process between two
statements. A statement that fails does nothing; the action `XFails` (or a
disjunct guarded by a member of the constant `Faults`) models what the code
then goes on to do.

## 2. Inventory

| Component (package) | State | Operations | Interacts with | What is hard | What makes it correct |
|---|---|---|---|---|---|
| Findings (`service/detection`, `detection`, `repository/finding`) | `findings`, `finding_events`, evidence | a detection run (upsert, status transition, resolve missing, events), `UpdateStatus`, `OverrideSeverity`, `Diff` | reads assets, endpoints, fingerprints; read by rules, investigations, risk, analytics | overlapping runs and analysts, best-effort statements, crashes | decisions stick, a run's result is what it detected, events tell the truth, severity and stamps stay consistent |
| Rules (`service/rule`, `repository/rule`) | `rules`, `rule_versions` | create rule/version, enable/disable/deprecate, toggle version, import/export | evaluated by the alert pipeline | version numbers under concurrency, severity synced separately | versions unique, gapless and immutable; the rule shows what is evaluated |
| Alert pipeline (`service/rule`) | `detection_matches`, `detection_evidence`, `alerts`, `suppressions` | evaluate, acknowledge/resolve/suppress, suppress rule/match, promote | rules, findings and observations as events; creates investigations | suppression checked, then used; overlapping evaluations; best effort | silenced stays silent, decisions kept, nothing forgotten, one investigation per alert |
| Rule engine (`ruleengine`) | none | compile, evaluate, fingerprint | pipeline | windows, grouping, sequence automaton | each operator equals its definition; fingerprints collapse re-evaluations |
| Detectors (`detection/detectors`) | none | evaluate evidence | findings | - | pure predicates |
| Migrator (`migrate`, `cmd/migrate`) | `schema_migrations` and the schema | up | everything | two migrators, crash between migrations | each migration once, in order, prefix only |
| Scanners (`discovery/network`, `http`, `dns`) | result slots, semaphore, limiter, counters | scan | targets' scope; results to discovery services | cancellation, goroutine pools, counters | every job accounted for, bounded concurrency, scans end |
| Crawler (`discovery/endpoint`) | visited set, frontier, budgets, accumulator | crawl, merge observations | HTTP client, endpoint repository | concurrent fetches against budgets | budgets hold, no page twice, merging keeps the best |
| Discovery services (`discovery/service`) | none of their own | gate on authorization, scan, persist | targets, assets, endpoints | authorization read once per scan; partial persistence | nothing unauthorised is scanned |
| Targets (`service/target`) | `targets` | create, authorize, revoke, expire | discovery | expiry | authorization implies its window |
| Assets, endpoints (`service/asset`, `repository/{asset,endpoint}`) | `assets`, `asset_evidence`, `endpoints` | merging upsert, status, retire | everything downstream | out-of-order observations | first/last observed widen, retired stays retired |
| Fingerprints (`fingerprint`, `service/fingerprint`) | snapshots, technologies, changes | analyze | assets, rules | previous snapshot read outside the transaction | changes reflect consecutive snapshots |
| Correlation (`correlation`, `service/correlation`) | `correlations`, nodes, edges, chains, stages | evaluate, confirm/dismiss, merge, split, attach | findings, alerts, investigations | re-evaluation against merges | every node in one place, evidence preserved |
| Investigations (`investigation`, `service/investigation`) | `investigations`, evidence, timeline, clusters, notes, hypotheses | create, update (optimistic), close/reopen, attach, suggest/accept/reject clusters | findings, alerts, correlations, reports | optimistic versions with unversioned writers, double accept | no lost update, closed stamps consistent |
| Reporting (`reporting`, `service/reporting`) | `reports`, controls, evidence packages | generate, review, approve, export | investigations, findings | version numbers, check-then-act approval | approved is final, versions unique |
| AI assistant (`ai`, `service/ai`) | sessions, messages, tasks, limiter, retry | chat, run task, approve tool call | everything, read-only | windows, in-flight counts, retries | limits hold, every task audited |
| Threat intelligence (`intelligence`, `service/intelligence`) | cache, `intelligence_*` | lookup, enrich, score risk | findings, assets | cache expiry, provider failures | no stale answer beyond its TTL, conflicts resolved deterministically |
| Analytics (`analytics`) | TTL cache | queries | all tables | stale cache | - |
| Listings (`repository/*`, `repository/pagination`, the commands and services that page) | none: cursors live in the reader | List queries, one page or followed to the end | every table | rows inserted and changed between pages, equal timestamps | a followed listing misses nothing and repeats nothing |
| Shell: CLI, worker, config, logging, errors, database, redis, HTTP client | configuration | - | - | - | not modelled: no protocol of its own |

`PROJECT.json` lists every component with its sources, what is modelled of it,
and every hazard of the code at its line with the properties that cover it.

## 3. The modules

| Module | Models | Composition |
|---|---|---|
| `FindingPolicy` | what the finding lifecycle promises, without runs, statements or events | abstract specification |
| `FindingLifecycle` | detection runs and analysts over `findings` and `finding_events` | implements `FindingPolicy` (as `Policy`, with `status` mapped to the status column) when commands do not overlap |
| `RuleCatalog` | rules, versions and their authors | |
| `AlertPipeline` | evaluations, analysts and promotions over matches, alerts and suppressions | extends `RuleCatalog`; `Next` interleaves both |
| `AssetStore` | assets and asset evidence | |
| `NetworkDiscovery` | a target, discovery runs and the goroutines of their scans | extends `AssetStore`; the only writer of its rows besides operators |
| `EndpointCrawler` | one crawl with its goroutines | |
| `Lists` | `Picked`: a loop over a list that keeps some of it | operators only |
| `CorrelationGraph` | the correlation engine: strategies, graph, components, score, chain | operators only, with `Lists` |
| `CorrelationStore` | evaluations, merges, splits and attachments over the correlation tables | extends `CorrelationGraph`, whose components it stores |
| `FindingLinks` | the eight relationship rules of an investigation | operators only, with `Lists` |
| `Casework` | investigations, evidence, timeline, relationships, hypotheses, notes, clusters | extends `FindingLinks`, whose relationships it stores |
| `Reporting` | reports, packages, control evidence | extends `Casework`; `Next` interleaves both |
| `Listings` | every List query and every reader of one | |
| `RiskScoring`, `VulnerabilityMatching` | the risk model; versions against constraints | operators only |
| `Intelligence` | enrichment, lookups, matches and scores as commands | extends both, with `Lists` |
| `Assistant` | tasks, chats and sessions under one limiter | |
| `MC*` | small instances for TLC | |
| `FindingLifecycle_proofs` | theorems about findings, and that they implement `FindingPolicy` | extends `FindingLifecycle` |
| `AlertPipeline_proofs` | theorems about the catalogue and the pipeline | extends `AlertPipeline` |
| `NetworkDiscovery_proofs` | theorems about the store and discovery | extends `NetworkDiscovery` |
| `EndpointCrawler_proofs` | theorems about a crawl | extends `EndpointCrawler` |
| `CorrelationStore_proofs` | theorems about the correlation engine and its store | extends `CorrelationStore` |
| `Reporting_proofs` | theorems about investigations and reports | extends `Reporting` |
| `Assistant_proofs` | theorems about the assistant | extends `Assistant` |
| `Intelligence_proofs` | theorems about enrichment and risk scores | extends `Intelligence` |

A definition `X_Y` that stands right before `X` is `X` with the mistake `Y`
(a guard dropped, a check forgotten, an order swapped). It is used by nothing;
replacing `X` by it has to make one of the properties fail, which shows that
the property notices that mistake in the code.

History variables never appear in a guard. They record what a property needs
to remember: `decision` and `changes` (FindingLifecycle), `born` and the fields
marked history of `eval` (AlertPipeline), `seen`, `granted`, `lost`
(AssetStore, NetworkDiscovery), `contributed`, `auxiliary`, `sent`, `requests`
(EndpointCrawler), `stored`, `moved`, `raced` (CorrelationStore), `lost`
(Casework), `steady`, `matched` (Listings), `past` (Intelligence, Assistant).

### FindingLifecycle

A row of `rows` is a row of `findings` under its identity key (target, asset,
endpoint, detector); `events` is `finding_events`; `run[s]` is what the process
of scan `s` remembers: the assets it has still to visit (`todo`), the reports it
has still to persist (`queue`), the ids it keeps for `ResolveMissing` (`kept`),
and, between two statements about a finding, the status the upsert returned
(`prev`) and the one it is about to write (`to`).

| Action | Code |
|---|---|
| `Start`, `SkipAsset`, `Evaluate`, `NextAsset`, `Finish` | `Service.Run`: active detectors, the page loop over detectable assets, a failed read or detector skipped |
| `Persist`, `PersistFails` | `persistFinding`: `Upsert` with its evidence in one transaction |
| `Transition`, `TransitionFails`, `RecordTransition` | `UpdateStatus` with the status computed from what the upsert returned, and its event, both best effort |
| `ResolveMissing`, `ResolveMissingFails`, `RecordResolved` | the bulk `UPDATE ... RETURNING` and one event per returned row |
| `UpdateStatus`, `OverrideSeverity`, `RecordOverride` | the analyst commands |
| `Crash` | the process ends between two statements |

The detectors are any function of the evidence: a run may report any subset of
the findings of its active detectors, with any severity.

### RuleCatalog and AlertPipeline

`CreateRule`/`NewVersion`, `TakeNumber`, `InsertVersion`/`InsertFails` and
`SyncSeverity` are the statements of `createVersion`. `TakeNumber` separates the
subselect from the `INSERT` because under READ COMMITTED two inserts may
compute the same number; the unique index is `Clash`. In the pipeline, a match
is a fingerprint; the engine may find any set of matches of the version it was
given, with any of their events. An evaluation's actions are the statements of
`Service.Evaluate` in their order: `LoadRule`, `RunEngine` (with
`GetLatestEnabled`), `CheckRule`, then per match `UpsertMatch`, `AttachEvidence`,
`SkipAlert` or `CheckMatch`, `SuppressMatch` or `UpsertAlert`. Promotion is
`ReadAlert`, `CreateInvestigation`, `LinkAlert`. A suppression is lifted by
removal or by its expiry; both make it inactive.

### AssetStore and NetworkDiscovery

A job is a host:port pair and, at the same time, the identity of the PORT asset
it may become. `run[r]` is the process (its context, semaphore, limiter tick and
the results still to persist), `worker[r][j]` the goroutine of job `j`. `Acquire`,
`CheckContext`, `TakeTick` and the two `Connect` actions are the points where a
goroutine may block; `AbandonQueued` and `AbandonSlot` are its early returns.
`Join` is `wg.Wait`. `PersistPort` is `RecordObservation`, one transaction for the
merging upsert and the evidence. `UpdateAuthorizationStatus` and `SetAssetStatus`
are the operators' commands. `clock` advances when an observation is made, so
observations of overlapping runs are ordered by it and not by their commits.

### EndpointCrawler

`FetchRobots`, `FetchSitemap` and `FetchApiDoc` are the auxiliary sources, in the
order `Scan` takes them (`main.pc` and `main.queue` are the loop);
`StartLevel`, `Dispatch` and `JoinLevel` are the loop over depths; `Acquire`,
`Abandon`, `RecordUnfetched`, `StartFetch`, `Fetched` and `FetchFails` are what the
goroutine of a candidate does between blocking points, each with everything it
does under the crawler's lock. What the documents contain is the constant
`Content`. The accumulator `acc` merges results by (method, templated URL): `Add` is
its insertion, `Admits` its limit, `MergeInto` what it makes of two observations, and
`AddAll` the loop over a document's operations. `sent` counts all requests.

### CorrelationGraph and CorrelationStore

`CorrelationGraph` is `internal/correlation` without its database: the six
strategies, `Correlate` with its truncation and deduplication, the bounded graph,
`ConnectedComponents` as the union-find the code runs, score, severity,
fingerprint, and the attack chain. The loops over observations and edges are recursive
functions, like `Picked`. `CorrelationStore` evaluates a window
(`Evaluate`) and writes one component at a time: `PersistComponent`,
`PersistNode`, `PersistEdge`, `PersistChain`, `PersistStage`,
`FinishEvaluation`, each the upsert it is in the repository; `SavedNode` is the
row the upsert returned, whose id the edges then use. `Merge` and `Split` are
transactions at READ COMMITTED, statement by statement: `BeginMerge` names the survivor,
`ListNodes` takes the next source and its nodes as they are committed by then,
`BeginSplit` names nodes and the row to create, `MoveNodes` is the update of the nodes,
`MoveEdges` finds the edges that touch them and updates those, and `Commit` or
`Rollback` ends it. `tx[a]` holds what the transaction has moved; it reaches the tables
with the commit, as nobody else sees it before. What others see of an open transaction
is its locks (`Locked`, `KeyLocked`, `LockedEdges`, `EdgeLocked`): a second update of a
row, an insert under a key of the unique index that the transaction takes or gives up,
and an edge whose end is moving all wait. These locks are PostgreSQL's, not the code's.
`Confirm` and `Dismiss` are single updates, and an attachment is `ReadForAttachment`,
`CreateInvestigation`, `SetInvestigation`. A failing statement ends the evaluation where
it stands.

### FindingLinks, Casework and Reporting

`FindingLinks` is the rule engine of investigations (`Relate`, with one operator
per rule). `Casework` models every investigation command as the list `todo[p]` of
the statements it has still to run: a command action (`Create`, `Attach`, `Close`,
`Reopen`, `Edit`, `Correlate`, `Suggest`, `Accept`, `Reject`, notes and hypotheses)
computes the list from what it reads, a statement action (`ReadCurrent`,
`UpdateInvestigation`, `InsertEvidence`, `UpdateFirstLastObserved`, `AppendEvent`,
`UpsertRelationship`, ...) runs its head, and may prepend more. Nothing is a
transaction, so any other command runs in between. `UpdateInvestigation` is the
optimistic update (`VersionMatches`); the observed window is widened by a statement
that does not look at the version. `OnFailure` is what a command still does after
a failing statement, `Killed` the end of its process. `Picked`, in `Lists`, is the
loop that goes through a list and keeps some of it, as a recursive function, so that it
can be reasoned about; `Widened` is what `LEAST` and `GREATEST` make of a row.
`CaseworkAssumption` says of the constants that listings are sequences, that ids are
unique across tables, and that an observation has the fields the rules read.
`Reporting` adds `Generate` (evidence, latest version, insert), `Approve`, `MarkReviewed`, packages and control
evidence to the same processes.

### Listings

A listing is its clauses, its order and its paging (`Keyset`, `Offsets`, `Whole`); a
reading is the sequence of requests a service or command makes, with what it does
with the rows (`OnePage`, `Unlimited`, `Followed`, `Keeping`, `Skipping`,
`ForEach`). `Requests` names every reading in the code. `BeginRequest` takes any table
contents, `FetchPage` is one query, `WriteRow` an insert or update between two
pages, `FetchFails` an error. `ResolveLimit`, `AfterCursor` and the sort are the
pagination package.

### RiskScoring, VulnerabilityMatching and Intelligence

The first two are the pure functions: `Calculate` with `CommandWeights`, and
`EvaluateEntry` of a technology against a catalogue entry. `Intelligence` makes
each command a list of steps: a lookup asks the cache (`AskCache`), then each
provider of the plan (`ProviderAnswers`, `ProviderFails`), and stores (`WriteCache`,
`SaveRecord`, `EmitVerdictChange`); enrichment adds the catalogue (`ListCatalog`,
`UpsertMatch`, `RecordMatchEvent`) and the score (`ReadRiskInput`, `ReadPrevious`,
`CreateScore`, `RecordRise`). The world changes meanwhile: the feed, the
observed technologies, findings, matches, criticality, the catalogue. `Put` is an upsert of a row,
`ScoreRow` the row made of a calculated score. `IdentityAssumption` and
`ContentAssumption` say of the constants that ids are unique and references name what
exists, and that what is stored at first and what comes from outside have their types.

### Assistant

A task reads the parts of its context (`ReadPart`; `PartFails` goes on without), bounds them
(`Truncate`), is admitted or refused by the limiter (`Admit`, `Refuse`), asks the
provider up to `MaxRetries` more times (`ProviderAnswers`, `ProviderFails`,
`BackOff`), validates the answer (`ValidateOutput`) and
writes its audit (`CreateRequest`, `CreateResponse`, `RecordAnalysis`) before it
releases its slot. A chat opens the session, stores the question (`Ask`) before
the task and the answer (`Reply`) after; sessions can be cleared or deleted
meanwhile. `given` is a group of commands started together, `left` how many
statements may fail and ticks pass. What the limiter remembers is the set of admissions
it has not yet dropped, and `messages` the set of rows: the code counts them, and
never depends on the order they lie in.

The text of an answer is the set of citations in it. A fact `quotes` the citations that
stand in its summary: of a note its content, and so of a saved draft the citations of the
answer it was (`SaveNote`), of a row its title. A task's own rendering (`Rendered`, `Cited`)
repeats the summaries, so it carries what they quote, and nothing validates it where
`ValidateOutput` falls back on it. `ValidateCitations` goes over a provider's text once, as the code
does: in `around` are the citations that are spelled only when one inside them is
removed. `FairSpec` is `Spec` with the commands' fairness.

## 4. What TLC checks

All runs together take twelve to fifteen minutes with two workers. `CHECK_DEADLOCK FALSE`
is set in every configuration, because every process modelled ends: when all
have, and the bounds on commands are used up, the system has really stopped.

| Run | States | Shows |
|---|---|---|
| `finding_races` | 317,442 | Two overlapping runs over one finding, an analyst, and every fault. Without an override the effective severity is the detector's latest; an event `finding_resolved` is never written for a change its scan did not make; a run never resolves what it detected and stored; the only step that ends a suppression without the analyst is the stale reopening; every run comes to an end |
| `finding_serial` | 4,368,743 | Two runs one after the other, two findings on two assets with two detectors, lost upserts and crashes. Without overlap the lifecycle implements `FindingPolicy`, and after a run an open finding of a visited asset is one it detected |
| `finding_race_sticky` (violation) | | The same decision does not stick under overlap: section 7 |
| `alert_races` | 1,009,424 | Two overlapping evaluations of one match, a suppression, one analyst command, and every fault. A match born under a suppressed rule gets no alert from an evaluation that saw no suppression; an alert appears under an active suppression only if that came after the check, or the check failed; and a completed evaluation makes up for what earlier ones failed to do |
| `rule_versions` | 1,509,402 | Two authors, an evaluation and a promotion. Versions stay unique and gapless, and a match can be traced to a version in the catalogue |
| `discovery_runs` | 65,532 | Two runs that overlap in one port, one slot each, one of them rate limited, with cancellation, crashes, lost transactions, revocation and retirement. A joined scan has a result for every job; every open port is stored unless its own transaction failed; windows are exact whatever the order of commits; every run ends |
| `crawl_site` | 15,469 | A site with cyclic pages and sitemaps, two URLs behind one template, a form, an API document and a foreign host; two fetches at a time; failing requests, error answers and cancellation. Link crawling keeps to the page budget; the endpoints are what all contributions add up to, in every order; a crawl within its budgets misses nothing; it ends |
| `correlation_races` | 1,049,689 | Two evaluations, each of a window with two components or of one that ends before the second, and two analysts with a transaction each: one evaluation after the other with two acts or a failing statement anywhere between, or both at once with one. The components are exactly the connected parts of the graph; a correlation that was written without an error and not restructured holds exactly its component, however many evaluations wrote it; after any merges and splits every edge is in the correlation of one of its nodes and a merged row is empty, unless something wrote into it since, or added a node while the merge emptied it, or a merge that was itself overtaken filled it |
| `casework_races` | 565,009 | Two commands at a time, three in all, on up to two investigations, with one lost statement or killed command. Recorded status changes lead from `new` to the row's status; the observed window is exactly that of the evidence, though rows are written back from stale reads; attaching twice is recorded once; a reopening is recorded exactly when it happened; an accepted cluster's investigation holds its items; report versions are 1, 2, 3... |
| `readings` | 129,285 | Every reading in the code over three rows with two time values, two writes and one failing query. What a followed cursor delivers is exact: all that was there throughout, once, and nothing that never was |
| `intelligence` | 214,775 | Two commands, one of them any command of the component, over two assets, a finding and two investigations. Stored rows are valid; a match is announced once; last-seen times never move back; a recorded rise names two stored scores; an investigation scores what its worst asset does |
| `assistant` | 70,843 | Fifteen groups of commands that share a service. What a response cites is of the evidence of its own request or stands in the text of that evidence, a saved draft among it, or came out around a removed citation and has low confidence; an answer has its question and its audit, unless a statement of the audit failed or the session was cleared; the limits hold in every window and the slots are counted; every command ends |

**Bounds, and why they are enough.** Every interference in this code is between
two statements of one process and a statement of another, on one row: two
processes, one row they share and one act of an analyst (`MaxTriage`, `MaxOps`,
`MaxEdits` = 1) reach every such pair, and most initial states are any table an
earlier history may have left, so that no prefix of commands has to be replayed.
`finding_serial` needs a second finding and asset because `OpenMeansDetected` is
about the assets a run visits and skips. `MaxVersion` = 3 lets both authors
collide and one of them insert again. `MaxTime` = 3 gives three observations of
two assets by two runs, so that one can be committed after a later one.
`MaxConcurrency` = 1 makes every goroutine of a scan compete; the crawler has 2,
so that fetches overlap. The site of `MCEndpointCrawler` has nine documents in
scope for `MaxPages` = 7 and more endpoints than `MaxEndpoints` = 7, so that some
behaviours run into each limit, while those with failures and error answers stay
within both (the case `CrawlComplete` is about). `MCCorrelationStore` has a
component of three observations of which two are linked only through the third,
so that a split leaves edges across, and `MaxRows` = 3 leaves room for a split of
either. Its two windows share that component: both evaluations may write it from
different observations, and `WindowsAgree`, the hypothesis of `StoredExactly`, is
asserted of them. `MaxSources` = 2 lets a merge name two sources, its survivor, or one
of them twice; an evaluation that starts while another runs is one of the two
disturbances (`MaxDisturbances`). In `MCReporting` three operations (`MaxOperations`) are the most that can
matter at once, one that both others race with; the two findings share an endpoint and
a time window, so that rules agree and disagree about them. In `readings`, pages
of one row (`DefaultLimit`) and of two (`MaxLimit`), three rows and two time
values put a tie on every page boundary. In `intelligence` one disturbance
(a failing statement, a change of the world or a tick) meets two commands; the
catalogue has an entry that applies and one that does not. In `assistant` the
limits are 2 and 3 commands compete; groups and the disturbances each gets are
listed in `MCAssistant`, chosen so that every kind of command meets a failing
statement and commands that share a session, a note or the limiter overlap. The
proofs of section 5 hold without these bounds.

**Symmetry.** `Evaluators`, `Authors`, `Processes`, the commands of `intelligence` and the
runs of `finding_serial` are interchangeable: no configuration tells them apart. No run
with a liveness property uses symmetry.

**Fairness.** `FairSpec` of findings: every started run keeps taking steps
(`WF` on its own statements, failing ones included); nothing forces it to start
or keeps it from crashing. Of discovery: the main goroutine, the ticker and
every job goroutine are scheduled weakly fairly, which is what the Go runtime
and the connection timeout give; a goroutine that waits for the semaphore needs
no strong fairness as slots are only released to those waiting. Of the
crawler: the main goroutine and each fetch. Of the assistant: each command,
because a statement is answered, and the provider's client and the request have
deadlines; that time passes is not assumed, so a refused task ends by being
refused. Starting a run, cancelling, administering targets and triaging are never
forced.

**Left out of the standing runs.** These are properties too. Proved, though no run
lists them: `AlertNotAhead`, `DecisionsKept` and `TypeOK` of `AlertPipeline`,
`EvidenceBacked`, `SlotsAccounted`, `InventoryAuthorized`, `CancelStopsDials` and
`TypeOK` of discovery, `FetchedOnce` and `TypeOK` of `EndpointCrawler`,
`VersionsImmutable` of `RuleCatalog`, `DecisionsKept` of `CorrelationStore`, `ResolvedStamp`, `OverrideSurvivesScans` and
`TypeOK` of `FindingLifecycle`. Neither proved nor listed, but they hold when added
to the configuration in parentheses: `ReopenedEventBacked` (finding_serial),
`ObservedMeansAnswered` (crawl_site), `PackagesHoldOnlyCited` and `TypeOK` (casework_races). They follow more closely from
single guards than those of the table.

## 5. What is proved

Eight modules hold theorems, each about the specification of one component and for
every value of its constants: any number of processes, rows, rules, jobs, pages and
users, any limits, and any choice of what may fail. What is assumed of the constants
is in the named assumptions of the models, which every run evaluates; they say that
constants have their types, that names do not collide, and what the database's
primary keys give (ids are unique). Hypotheses beyond those are in the statements
and named below.

All safety theorems have the same shape. The property is not inductive as it stands,
because what a step writes depends on something read some steps before. The
inductive invariant adds what a process may rely on at each of its program points;
one lemma per action shows that the action keeps it; the theorem is the last step.

### Findings: `FindingLifecycle_proofs`

Under `LifecycleAssumption`. `Serial` is the hypothesis that the models' `Quiet`
guard turns into "no command starts while another one is running"; `LosesNoAsset`
says that reads, `ResolveMissing` and status updates are not among the statements
that fail.

| Theorem | States | Argument |
|---|---|---|
| `TypeCorrect` | `[]TypeOK` | `TypeOK` is not inductive: what `Transition` writes depends on what the run remembers. `TypeInv` adds `RunMemory`: between the upsert and its event a run holds a finding and the status `resolved` |
| `StampCorrect`, `SeverityCorrect` | the stamp and the severity of rows | `RowWrites`: a step leaves a row, or upserts it, sets its status, resolves it or overrides it; each of the four preserves the relation |
| `OverrideKept` | a run never changes an overridden severity | by `RowWrites`; `AbsentPlain` says a row that does not exist is not overridden |
| `UnsuppressedOnlyByStaleReopen` | the race of section 7 is the only one | the one write of a run that can meet a suppressed row and leave it unsuppressed is `Transition`; by `OnlyResolvedMoves`, only if the upsert had returned `resolved` |
| `ResolvedEventsTrue` | events tell the truth | `BackedInv`: what a run has still to report as resolved (`gone`) is among the changes it made, and changes only grow |
| `ImplementsPolicy` | `Serial` ⇒ `Spec => LifecyclePolicy` | `SerialInv`: at most one run is active, so what it read is still true when it acts. Every step then maps to `Detect`, `Miss`, `Decide` or a stutter |
| `DecisionsStick` | `Serial` ⇒ `[]StickyDecision` | from the refinement's cases |
| `DetectedStaysOpen` | `[]DetectedNeverResolved`, with overlapping runs | `AccountInv`: of what a run reported for its current asset, everything is still queued or among the ids it keeps, so `ResolveMissing` cannot name it |
| `OpenIsDetected` | `LosesNoAsset` ⇒ `[]OpenMeansDetected` | the same account, asset by asset: what is behind the run is settled, and nothing but the run itself has moved a row since it started |

### Catalogue and alert pipeline: `AlertPipeline_proofs`

Under `CatalogAssumption` and `PipelineAssumption`. `CatalogInv` adds to
`VersionsNumbered` that a number names one version (`NumberNamesVersion`), that the
number an author has taken is at most one above those there are (`NumberTaken`), that
an author at work is at a rule (`AuthorKnowsRule`), and finiteness. `PipelineInv` adds to it a relation of every
match to its alert (`MatchAndAlert`), what an evaluation relies on at each of its
steps (`EvalInv`), and that links and silencings are of alerts that exist (`AlertsNamed`).

| Theorem | States | Argument |
|---|---|---|
| `CatalogNumbered` | `CatalogSpec => []VersionsNumbered` | between an author's two statements the rule only gains versions, so what is inserted is the next number or clashes with the unique index |
| `DefinitionsImmutable` | `CatalogSpec => VersionsImmutable` | by action |
| `PipelineInvariant`, `PipelineTypeCorrect` | `[]PipelineInv`, `[]TypeOK` | one lemma per step of an evaluation |
| `PipelineUsesCatalog` | `Spec => CatalogSpec` | every step of the pipeline is a step of the catalogue or leaves its variables alone |
| `PipelineNumbered` | `VersionsNumbered` while evaluations run | the two above |
| `MatchesTraced` | `MatchesTraceable` | a version read is published, and stays |
| `SilentBirths` | `SuppressedBirthsStaySilent` | `EvalInv` says that the row an evaluation is about to alert on is not one that was inserted suppressed |
| `EvaluationsCatchUp` | `CaughtUp` | what an evaluation found is still queued, lost, or shown by an alert |
| `LateSuppressionsOnly`, `AlertsFollowMatches`, `DecisionsStay` | action properties and `AlertNotAhead` | from `PipelineInv` |

### Discovery: `NetworkDiscovery_proofs`

Under `StoreAssumption` and `DiscoveryAssumption`. `DiscoveryInv` is `TypeOK` and
`StoreInv` (an asset's window and its evidence answer for what was committed),
`WriterInv` (who wrote was admitted), and for every run `SlotInv` (the semaphore
counts its holders), `PoolInv` (how far goroutines can be at each stage),
`PersistInv` (every open port is pending, lost with its own transaction, or stored)
and `GrantInv`.

| Theorem | States |
|---|---|
| `DiscoveryInvariant`, `DiscoveryTypeCorrect` | `[]DiscoveryInv`, `[]TypeOK` |
| `WindowsExact`, `AssetsHaveEvidence` | `WindowExact`, `EvidenceBacked`: minimum and maximum do not depend on the order of commits |
| `PoolBounded` | `SlotsAccounted`, hence never more goroutines than the limit |
| `EveryJobAnswered` | `ScanAccountsForEveryJob` |
| `NoOpenPortDropped` | `OpenPortsRecorded` |
| `OnlyAuthorizedWrite`, `NoDialAfterCancel` | `InventoryAuthorized`, `CancelStopsDials` |

### Endpoint crawler: `EndpointCrawler_proofs`

Under `CrawlerAssumption`, for any site. `CrawlInv` says that the slots taken are the
goroutines at work (`SlotsCounted`), that the accumulator is the sum of what was
handed to `Add` (`Merged`), that what was sent is within what was counted
(`BudgetInv`), how often each URL was sent at each point of its goroutine
(`FetchInv`), which depths the two frontiers hold (`DepthInv`), and that everything
found above the deepest level is scheduled (`CompleteInv`).

| Theorem | States | Argument |
|---|---|---|
| `CrawlInvariant`, `TypeCorrect` | `[]CrawlInv`, `[]TypeOK` | the dispatcher and the goroutines write disjoint parts of what each relies on |
| `LinksKeepBudget` | `LinksWithinBudget` | a page is counted in the same critical section that compares with the budget |
| `EndpointsAddUp` | `EndpointsMerged` | merging is a union, so the order of arrival does not show; `AddAll` step by step |
| `NeverFetchedTwice` | `FetchedOnce` | only the process's main thread writes `visited`, and looks before it does |
| `CrawlsComplete` | `CrawlComplete` | `CompleteInv` at the end, where no frontier and no goroutine is left |

### Assistant: `Assistant_proofs`

Under `LimitsPositive`, `CommandsGiven`, `SessionsAreNew` and `RowsHaveTargets`.
`AssistantInv` is made of `LimiterInv` (the limiter of each service remembers at
least what its window still covers, so that what it counts is what counts) and
`AuditInv` (`CommandInv`: what a command relies on at each step; `FreshInv`: a
session not yet created has no chat).

| Theorem | States |
|---|---|
| `AssistantInvariant` | `[]AssistantInv` |
| `AnswersStayGrounded` | `AnswersGrounded`: a rendering carries what the evidence is or quotes (`FallbackRenders`), and what comes out around a removed citation comes with the removal that makes the confidence low (`AnswerGrounded`, for any answer of a provider) |
| `AnswersTraceable` | `AnswersAudited` |
| `LimitsAlwaysHold` | `LimitsHold`, for any window: what the limiter drops is older than every window that can still be open |

### Correlations: `CorrelationStore_proofs`

Under `CorrelationBounds` and `CatalogShape`: any observations, any windows, any limits
on observations, nodes and edges, any number of evaluations and attachments. The first
half is about the engine: what `Correlate` emits is between observations of the window,
and `Union`, `Roots` and `ConnectedComponents` compute with roots of nodes what
reachability says. `Joins` is the invariant of that loop: after the first edges, the two
ends of each have one root, and nodes of one root are in the same sets closed under those
edges. After the last edge, one root means one component.

The second half is about the tables. `IInv` says that rows, nodes and edges refer to
what exists, that a correlation nobody merged or split (`moved`) holds only nodes and
edges of its component (`NodesUnmoved`, `EdgesUnmoved`), that a merged one was touched
(`MergedMoved`), and `GraphsHoldTogether`. `TxInv` is about open transactions: `TxOK` says
that what one has collected can be moved, that it has seen every edge of the nodes whose
edges it looked for (`EdgesSeen`: they are locked, so none is added), and that it has
listed every node of its sources unless one was added since (`SourcesListed`); `Apart`
says that two transactions move different nodes. `WorkOK` adds what an evaluation relies on
between two statements: the row it was given is that of its component's fingerprint, the
node ids it keeps are of nodes it saved, and, while no statement failed and the row was not
restructured, those nodes and the edges up to its position are in the tables. `StoredIn`
is what remains of this when it completes. The bridge is `Kept`, what no step of anyone
takes away: rows, fingerprints, the references nodes stand for, and everything in a
correlation that was not restructured. Each action is shown to keep `TablesOK` and
`Kept`; that the others' work survives a step then follows once, from `Kept`.

| Theorem | States | Argument |
|---|---|---|
| `StoreInvariant`, `RowsAndReferencesValid` | `[]IInv`, `[]TypeOK` | one lemma per action; a merge reassigns a node only where its reference is not there yet |
| `ComponentsAreExact` | `ComponentsExact` | the first half |
| `GraphsStayTogether` | `GraphsHoldTogether` | `EdgesSeen`: no edge of a moved node is left behind; `SourcesListed`: no node of a source is, unless the source is in `raced`; `raced` also has the survivor of a merge that is overtaken |
| `StoredExactly` | `WindowsAgree` ⇒ `[]EvaluatedStored` | at least the component by `StoredIn`, at most by `NodesUnmoved` and `EdgesUnmoved` |
| `DecisionsSurvive` | `DecisionsKept` | of an evaluation's statements only the upsert writes a row, and it copies these columns |

`WindowsAgree` says that a component that two windows share has the same edges in both.
Without it the theorem is false: the row is found by its nodes (`ComputeFingerprint`
hashes references only), so where `MaxEdges` cuts the edges of one window, the
evaluation of another adds edges to a row the first has completed.

### Investigations and reports: `Reporting_proofs`

Under `CaseworkAssumption` and the assumptions of `FindingLinks`. Statements of a
command are separate, so no property of the rows alone is inductive: between two
statements the timeline lacks an event, or the window an observation. The idea of
`CaseInv` is to count what is recorded **and** what is owed: `Total(i, E)` is the
number of events of `E` on the timeline of `i` and of processes that have such an
event still to write. A statement that moves something from "owed" to "recorded"
leaves `Total` alone, and the balances of `FactInv` (each fact once), `TrailInv`
(changes of status lead from new to the row's status), `WindowInv` (an observation
is covered, or a widening that covers it is under way) and `AcceptInv` (an item is
held, or to be attached before the cluster is marked) are preserved statement by
statement. `SingleInv` and `AloneInv` say that a process owes an event once and that
an update is all its command does. Reports are numbered as versions of rules are:
`NumberInv` says that the versions of one identity are 1, 2, 3... in the order of the
rows, and `JobOk` that a number read is at most one above them.

| Theorem | States |
|---|---|
| `CaseworkInvariant` | `[](CaseInv /\ NumberInv)` |
| `TrailsBalance` | `StatusTrailBalanced` |
| `WindowsCoverEvidence` | `WindowCoversEvidence` |
| `FactsRecordedOnce` | `OneEventPerFact` |
| `ReopeningsReal` | `ReopensAreReal` |
| `AcceptedClustersHeld` | `AcceptedHoldsItems` |
| `VersionsWithoutGaps` | `ReportsNumbered` |

### Threat intelligence: `Intelligence_proofs`

Under `IdentityAssumption` and `ContentAssumption`: any assets, findings, investigations,
technologies, catalogue, weights and providers switched on, any number of commands, jobs,
failures and changes elsewhere. A command is a list of statements, so the first thing to
know is what such a list may hold: `TodoOK` says what each statement carries and which may
follow which (`Follows`: a score is calculated, compared and stored by neighbours, an
investigation is scored at the end), and the lemmas on lists show that joining,
flattening, skipping and taking the rest keep it. `IInv` has four parts.

- `Data`: what is stored and what the rest of the system holds has its type, and a record
  was last seen no earlier than anything saved for it.
- `Scoring`: `CmdOK` says what a command relies on. `Ready`: the score it is about to compare
  is calculated; the earlier one is stored and older than the stamp it took; the rise it
  announces is between two stored scores. `Earned`: the scores it has taken are
  exactly those of the assets stored under its number, which no other running command has
  (`OwnJobs`) and no future one will get (`ScoresOK`).
- `EventsOK`: `RisesTraceable` and valid verdict events.
- `TellsOK`: a match first stored as one to announce is told by one event, or waited
  for by one command, or lost - exactly one of the three; of other matches there is none.

`NotDisturbed` is why the others' work survives a step: scores are only added, under
another number, and stamps only grow.

| Theorem | States | Argument |
|---|---|---|
| `EnrichmentInvariant` | `[]IInv` | one lemma per action |
| `RowsStayValid` | `[]RowsValid` | scores are clamped, verdicts and statuses come from the operators that compute them; entries of the catalogue, which nothing in the commands writes, are valid by assumption |
| `AnnouncedOnce` | `[]MatchAnnouncedOnce` | whether an upsert inserted is decided by the statement itself, so only one command ever waits for a match |
| `LatestSightingKept` | `[]LastSeenKept` | `GREATEST` in the upsert |
| `RisesAreTraceable` | `[]RisesTraceable` | a score read before is older than the stamp taken with it, whatever was stored since |
| `InvestigationsSupported` | `[]InvestigationSupported` | `Earned`, at the command's last statement |

### What stays with the model checker

The induction theorems of the library take an operator as a parameter, which the
installed provers cannot instantiate. Where a lemma needs induction over naturals,
a finite set or a list, it is done by hand: suppose the statement fails, take the
least counterexample (`WFMin` for `<` on the naturals), and look at the one below
it. That is how the recursive functions `Picked`, `AddAll` and `Union`, and the paths of
a graph, are reasoned about.

Liveness (`RunsEnd` of findings and of discovery, `CrawlEnds`, `TasksEnd`) rests on
fairness and ENABLED, which are out of the prover's reach. One more property of a run
has no theorem and is checked for the instance of section 4 only: `FollowedIsExact` of
`Listings`, where a page is cut from the sorted table, which is computed by recursion.

## 6. Plan

The stateful core is modelled, and the safety of eight components is proved. What is
left to prove: `ObservedMeansAnswered` of the crawler, `PackagesHoldOnlyCited` of reports, and
the readers of `Listings`.

A model of the migrator (overlapping `Up`, a crash between two migrations; the
abstract specification: a prefix of the migrations is applied, each once) and the
rule engine as operators against a reference definition are what would extend the
models.

## 7. Disagreements between code and documentation

`finding_race_sticky` exhibits one; `PROJECT.json` quotes the lines: the status a
run writes was computed from a row read in an earlier transaction; an analyst's
suppression in between is overwritten by `reopened`.
`UnsuppressedOnlyByStaleReopen` proves that nothing else ends one.

The others were met while modelling and have no run of their own.

*Findings.* A new finding leaves no `finding_opened` event (`persist.go:260`), so
`Diff` has no NEW entry, which `repository/finding/repository.go:117-119` promises. A
failed upsert drops the id from `currentIDs`, so the same run resolves the finding it
just detected (`persist.go:44`). Two overlapping runs both record `finding_reopened`
for one reopening. `UpdateStatus` writes no audit event although
`docs/architecture/finding-detection.md:198-202` says changes are recorded.

*Rules and alerts.* Disabling a version changes the logic that is evaluated and leaves
the rule's severity (`service/rule/service.go:245`). Two promotions of one alert
create two investigations, of which one is attached (`alerts.go:77`). Two authors'
severity syncs are ordered by nothing. An evaluation goes on adding matches after its
rule was disabled. No code path sets a match acknowledged or resolved. `Evaluate`
never consults a suppression whose scope is an alert. An alert observation loses its
asset when its match is outside the window of a correlation.

*Assets and crawler.* The metadata of an asset is that of the run committed last, the
window that of the latest observation (`repository/asset/postgres.go:286` against
`discovery.go:199-201`). `repository/asset/repository.go:58` says optional fields fill
in where the row has none; the statement lets the new value win. A cancelled
`RunNetwork` reports success and has stored nothing. The evidence of a port includes
the duration of the connection, so the fingerprint hardly ever repeats. The auxiliary
sources spend the page budget without looking at it (`endpoint/sources.go:36` against
`crawler.go:99-101`). `PagesFetched` counts goroutines that gave up over the budget.
`Truncated` is never incremented. A templated endpoint can be observed and carry an
error (`result.go:109-113` says otherwise). API documents fetched as pages put their
GET operations into the frontier (`fetch.go:166-169` says never).

*Correlation.* A stage whose edges are all low gets an empty confidence, fails
`Validate` and is skipped, so its evidence is missing from the chain
(`correlation/chain.go:144`). Stages are inserted again by every re-evaluation. The
identity strategy reads `Category`, but matches only carry `RuleCategory`. The comment
of `Merge` (`lifecycle.go:89-94`) says absorbed evidence is preserved unmodified; nodes
and edges move to the survivor. A re-evaluation fills the merged row again. The same
comment says the transaction keeps a partial merge from being visible; at READ COMMITTED a
node that an evaluation commits between `ListNodes` (`lifecycle.go:112`) and the
commit stays in the absorbed correlation, and with it the edges between nodes added so
late. A merge into a correlation that another merge is emptying leaves its nodes in a
merged row too. These are the exceptions that `GraphsHoldTogether` names (`raced`). Two
attachments of one correlation create two investigations. Merges can form a cycle.

*Investigations.* The link rules score at most 30 and the default threshold is 60, so
nothing is ever confirmed by default. A candidate relationship confirmed later gets no
`relationship_created` event. Accepting a cluster twice creates two investigations;
rejecting it afterwards clears `accepted_investigation_id`. A failing listing of the
items still marks the cluster accepted, with no evidence. Accepting without an actor
fails only at the database constraint. `Close` on a closed investigation records
`incident_closed` again; `Update` can reopen one silently. A finding's history event
has source type `investigation` with the finding's id.

*Reports.* `Approve` is check-then-act, so a second approver replaces the first
(`reporting/lifecycle.go:35`, whose comment calls an approval a one-time event), and a
concurrent `MarkReviewed` un-approves. The control dashboard judges freshness from one
page of the oldest items (`controls.go:59`). The subject of a target-wide report is
ignored according to `GenerateRequest`, but stored and versioned separately. A report
says "No evidence" when reading the evidence failed (`sections.go:59`). Packages skip
item types they do not know, such as endpoints; `CreateItems` is no transaction.

*Listings.* The comment of `Cursor` (`pagination.go`) says every List orders by
(created_at, id); `ListTimeline` and `ListRiskHistory` do not. Timeline pages by
`OFFSET` skip or repeat rows when older events are materialised between pages. The
asset, target and finding list commands print the first 50 rows only. `risk asset
--history` "lists every score ever calculated"
(`docs/architecture/threat-intelligence.md:228`); it lists one page.

*Intelligence.* The commands' weights leave those of matches and correlations zero, so
they add no points (`cmd/cli/commands/intel.go:132`). A verdict-changed event is also
written for a first observation, which the comment at `service.go:219-222` excludes;
stored records that disagree never expire, so it recurs. The cache key has no target,
so one target's local records can answer another's lookup. `expiration` and
`retrieved_at` can move backwards. Two technologies of equal confidence become one
record. A version is ambiguous also when the observed one is more precise than the
constraint; "1.18" against ">=1.18.1" is no match. Datasets are keyed by the host as
it is written and looked up by the normalised one. `Refresh` may be answered by what another command
cached in between, or by the old cache when invalidating failed. `EnrichInvestigation`
with every asset failing is refused by the database. A match that rises from none to
confirmed gets no event. No command writes the vulnerability catalogue.

*Assistant.* `docs/architecture/ai-assistant.md:71-74` says `Truncated` records every
cut; the target context reads the oldest `MaxFactsPerType` rows of each list
(`service/ai/context.go:179`), drops the newest and is not marked truncated. A failing
read of evidence is not marked either. `session new --investigation` without
`--target` always fails, though its help says the flag is enough. `ApproveNote`
approves human notes and overwrites earlier approvals. Failed tasks leave no row
(`migrations/000013_create_ai.sql:5` says every operation can be reconstructed), and a
chat that failed leaves its question without an answer. An answer that was replaced
for its attribution can still have high confidence. `docs/ai/safety.md:90-95` says that a
fabricated reference is always removed and that the deterministic rendering is a
citation-safe fallback. Neither is so. `ValidateCitations` replaces in one pass
(`citations.go:28`), so removing the inner token of `[finding:[x:y]z]` leaves another
citation. The fallback repeats the summaries of facts (`structured.go:71`), and
`validation.go:36-41` and `51-54` return it unchecked, so a citation quoted in a note, a
saved draft or a title is audited among the response's citations though its row is not
in the evidence; a draft saved before the context was cut differently is enough.
`mock.go:56` says that its narration "always validates cleanly"; it repeats the same
summaries, and an investigation that is not always among the facts (`prompt.go:55`), so
it can lose citations and with them its confidence.
`AnswersGrounded` states what does hold. The limiter lives in the process,
so it never limits across commands. A saved draft returns as an "Analyst note" in
later contexts.

## 8. Not modelled

- The **migrator**: overlapping `Up` runs and crashes between migrations; its hazard is
  listed without a property.
- The **rule engine** (windows, grouping, sequences) and the **detectors**: pure
  functions of their input. The pipelines admit every set of matches and reports
  they could make, which is more than they do.
- The **HTTP and DNS scanners**: the pool, semaphore and limiter that
  `NetworkDiscovery` models, around other network I/O. The services that persist
  their results and the endpoint table are represented by their listings only.
- **Fingerprint analysis** and the **parsers** of the crawler: text matching; any
  technologies, any links.
- **Analytics**: SQL aggregates read through a cache that lives as long as one command.
- The tool **executor** of the assistant, which no command calls; provider health counters, which
  nothing decides on.
- The CLI's argument parsing and printing, the worker, configuration, logging, error
  types, database and Redis wiring, the HTTP client: no protocol of their own.

Within the modelled components: titles, descriptions, references and other payload
of rows; the wording of prompts, explanations and report sections; redaction; the
dry run of a detection, which writes nothing; creation and validation of targets;
`UpdateMetadata`, import and export of rules.
