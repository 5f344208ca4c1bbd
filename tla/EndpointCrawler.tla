--------------------------- MODULE EndpointCrawler ---------------------------
(***************************************************************************)
(* One crawl: Crawler.Scan of internal/discovery/endpoint.  The documents  *)
(* of the auxiliary sources are read first, one after the other; then the  *)
(* frontiers, one depth at a time, by a pool of goroutines that share the  *)
(* budgets, the visited set and the accumulator.                           *)
(*                                                                         *)
(* A URL is absolute and normalized; what a document holds is the constant *)
(* Content.  The rate limiter only delays: a goroutine it holds back is    *)
(* one that has not taken its next step.                                   *)
(***************************************************************************)
EXTENDS Naturals, Sequences, FiniteSets, SequencesExt

CONSTANTS
    Url,             \* normalized URLs
    Scope,           \* those the scope validator allows
    Template,        \* the identity a URL has once dynamic segments are templated
    Content,         \* the links and the child sitemaps of the document at a URL
    Seeds,           \* the seed URLs, a sequence
    Robots,          \* /robots.txt of every seeded host, a sequence
    Sitemaps,        \* /sitemap.xml of every seeded host
    ApiDocs,         \* the well-known paths of API documents on every host
    MaxDepth, MaxPages, MaxEndpoints, MaxConcurrency,
    MaxSitemaps, MaxSitemapURLs,
    Faults           \* "fail": a GET fails; "status": not 200; "cancel": Ctrl+C

(* A source that is not enabled is an empty sequence.                      *)

Source == {"seed", "robots", "sitemap", "html", "openapi"}
Link == [url: Url, method: {"GET", "POST"}, source: Source, documented: BOOLEAN]

ASSUME CrawlerAssumption ==
    /\ IsFiniteSet(Url)
    /\ Scope \subseteq Url
    /\ Template \in [Url -> Url]
    /\ \A u \in Url : Content[u].links \in Seq(Link) /\ Content[u].sitemaps \in Seq(Url)
    /\ {Seeds, Robots, Sitemaps, ApiDocs} \subseteq Seq(Url)
    /\ {MaxDepth, MaxPages, MaxEndpoints, MaxConcurrency, MaxSitemaps, MaxSitemapURLs} \subseteq Nat
    /\ Faults \subseteq {"fail", "status", "cancel"}

VARIABLES
    main,          \* the goroutine that runs Scan
    frontier,      \* the candidates of this depth not yet dispatched
    nextFrontier,  \* the candidates of the next depth
    visited,       \* visitedSet: methods and URLs dispatched
    acc,           \* accumulator: the result of every identity
    pagesFetched,  \* Summary.PagesFetched
    task,          \* the goroutine of every method and URL dispatched
    sem,           \* elements in the semaphore's channel
    cancelled,     \* ctx is done
    requests,      \* history: the GETs sent for every URL
    sent,          \* history: all of them
    auxiliary,     \* history: how many of them before the first frontier
    contributed    \* history: what was handed to the accumulator

vars == <<main, frontier, nextFrontier, visited, acc, pagesFetched, task, sem,
          cancelled, requests, sent, auxiliary, contributed>>

Candidate == [url: Url, method: {"GET", "POST"}, source: Source, documented: BOOLEAN,
              depth: 0..(MaxDepth + 1)]
Key == {"GET", "POST"} \X Url
Result == [sources: SUBSET Source, documented: BOOLEAN, observed: BOOLEAN, failed: BOOLEAN]
TaskPC == {"queued", "slotted", "fetching", "answered", "finished"}

AtLeastOne(n) == IF n > 1 THEN n ELSE 1
PageBudget == AtLeastOne(MaxPages)

TypeOK ==
    /\ main \in [pc: {"robots", "sitemaps", "docs", "level", "dispatch", "done"},
                 queue: Seq(Url), sitemaps: Seq(Url),
                 fetched: Nat, urls: Nat, depth: 0..(MaxDepth + 1)]
    /\ frontier \in Seq(Candidate) /\ nextFrontier \in Seq(Candidate)
    /\ visited \subseteq Key
    /\ DOMAIN acc \subseteq Key /\ \A k \in DOMAIN acc : acc[k] \in Result
    /\ pagesFetched \in Nat
    /\ DOMAIN task \subseteq visited
    /\ \A k \in DOMAIN task : task[k] \in [pc: TaskPC, cand: Candidate]
    /\ sem \in 0..AtLeastOne(MaxConcurrency)
    /\ cancelled \in BOOLEAN
    /\ requests \in [Url -> Nat] /\ sent \in Nat /\ auxiliary \in Nat
    /\ contributed \subseteq [key: Key, result: Result]

Init ==
    /\ main = [pc |-> "robots", queue |-> Robots, sitemaps |-> <<>>,
               fetched |-> 0, urls |-> 0, depth |-> 0]
    /\ frontier = [i \in DOMAIN Seeds |-> [url |-> Seeds[i], method |-> "GET", source |-> "seed",
                                           documented |-> FALSE, depth |-> 0]]
    /\ nextFrontier = <<>>
    /\ visited = {}
    /\ acc = [k \in {} |-> {}]
    /\ pagesFetched = 0
    /\ task = [k \in {} |-> {}]
    /\ sem = 0
    /\ cancelled = FALSE
    /\ requests = [u \in Url |-> 0]
    /\ sent = 0
    /\ auxiliary = 0
    /\ contributed = {}
-----------------------------------------------------------------------------
(* The accumulator.                                                        *)

Full == Cardinality(DOMAIN acc) >= AtLeastOne(MaxEndpoints)

MergeInto_LastObserved(existing, add) ==
    [sources |-> existing.sources \cup add.sources,
     documented |-> existing.documented \/ add.documented,
     observed |-> add.observed,
     failed |-> existing.failed \/ add.failed]

MergeInto(existing, add) ==
    [sources |-> existing.sources \cup add.sources,
     documented |-> existing.documented \/ add.documented,
     observed |-> existing.observed \/ add.observed,
     failed |-> existing.failed \/ add.failed]

(* A key that is not there yet needs room.                                 *)
Admits(table) == Cardinality(DOMAIN table) < AtLeastOne(MaxEndpoints)

Add(table, c) ==
    IF c.key \in DOMAIN table THEN [table EXCEPT ![c.key] = MergeInto(@, c.result)]
    ELSE IF Admits(table) THEN [k \in DOMAIN table \cup {c.key} |->
                                  IF k = c.key THEN c.result ELSE table[k]]
    ELSE table

(* One call after the other.                                               *)
AddAll(table, cs) ==
    LET after[n \in 0..Len(cs)] == IF n = 0 THEN table ELSE Add(after[n - 1], cs[n])
    IN after[Len(cs)]

Contribute(cs) ==
    /\ acc' = AddAll(acc, cs)
    /\ contributed' = contributed \cup ToSet(cs)

Document(url, source, documented) ==
    [key |-> <<"GET", url>>,
     result |-> [sources |-> {source}, documented |-> documented, observed |-> TRUE, failed |-> FALSE]]

UnfetchedResult(cand) ==
    [key |-> <<cand.method, Template[cand.url]>>,
     result |-> [sources |-> {cand.source}, documented |-> cand.documented,
                 observed |-> FALSE, failed |-> FALSE]]

FetchedResult(cand) ==
    [key |-> <<"GET", Template[cand.url]>>,
     result |-> [sources |-> {cand.source}, documented |-> cand.documented,
                 observed |-> TRUE, failed |-> FALSE]]

ErrorResult(cand) ==
    [key |-> <<"GET", Template[cand.url]>>,
     result |-> [sources |-> {cand.source}, documented |-> cand.documented,
                 observed |-> FALSE, failed |-> TRUE]]
-----------------------------------------------------------------------------
(* The auxiliary sources.                                                  *)

(* normalizeAndCheckScope.                                                 *)
AllowedURL(u) == u \in Scope

(* The marking half of SeenAndMark.                                        *)
Mark(key) == visited \cup {key}

(* The document in front of the queue is worth a GET.                      *)
Fresh(u) == AllowedURL(u) /\ <<"GET", u>> \notin visited

Answer == {"ok"} \cup (Faults \ {"cancel"})

(* The links of a document, as candidates of the given depth.              *)
Candidates(links, depth) ==
    [i \in DOMAIN links |->
        [url |-> links[i].url, method |-> links[i].method, source |-> links[i].source,
         documented |-> links[i].documented, depth |-> depth]]

(* The links the scope validator lets through, in their order.             *)
Allowed(links) ==
    LET upTo[n \in 0..Len(links)] ==
          IF n = 0 THEN <<>>
          ELSE IF AllowedURL(links[n].url) THEN Append(upTo[n - 1], links[n]) ELSE upTo[n - 1]
    IN upTo[Len(links)]

FirstOf(s, n) == SubSeq(s, 1, IF n < Len(s) THEN n ELSE Len(s))
Room(used, limit) == IF used < limit THEN limit - used ELSE 0

(* Get, with what it does to the counters.                                 *)
Get(u) ==
    /\ requests' = [requests EXCEPT ![u] = @ + 1]
    /\ sent' = sent + 1
    /\ auxiliary' = auxiliary + 1
    /\ pagesFetched' = pagesFetched + 1
    /\ visited' = Mark(<<"GET", u>>)

AuxUnchanged == UNCHANGED <<nextFrontier, task, sem, cancelled>>

(* Out of scope or seen: the next one.                                     *)
SkipDocument ==
    /\ main.pc \in {"robots", "sitemaps", "docs"} /\ main.queue # <<>>
    /\ main.pc = "sitemaps" => main.fetched < AtLeastOne(MaxSitemaps)
    /\ ~cancelled
    /\ ~Fresh(Head(main.queue))
    /\ main' = [main EXCEPT !.queue = Tail(@)]
    /\ UNCHANGED <<frontier, nextFrontier, visited, acc, pagesFetched, task, sem,
                   cancelled, requests, sent, auxiliary, contributed>>

(* processRobots: its paths join the frontier of depth 0.                  *)
FetchRobots(answer) ==
    /\ main.pc = "robots" /\ main.queue # <<>> /\ ~cancelled
    /\ LET u == Head(main.queue) IN
       /\ Fresh(u) /\ Get(u)
       /\ Contribute(IF answer = "fail" THEN <<>> ELSE <<Document(u, "robots", FALSE)>>)
       /\ IF answer = "ok"
          THEN /\ main' = [main EXCEPT !.queue = Tail(@), !.sitemaps = @ \o Content[u].sitemaps]
               /\ frontier' = frontier \o Candidates(Content[u].links, 0)
          ELSE /\ main' = [main EXCEPT !.queue = Tail(@)]
               /\ UNCHANGED frontier
    /\ AuxUnchanged

(* processSitemaps: the sitemaps robots.txt names, the standard ones, and  *)
(* their children while there is room for them.                            *)
FetchSitemap(answer) ==
    /\ main.pc = "sitemaps" /\ main.queue # <<>> /\ ~cancelled
    /\ main.fetched < AtLeastOne(MaxSitemaps)
    /\ LET u == Head(main.queue)
           rest == Tail(main.queue)
           children == FirstOf(Content[u].sitemaps, Room(main.fetched + 1 + Len(rest), MaxSitemaps))
           links == FirstOf(Content[u].links, Room(main.urls, AtLeastOne(MaxSitemapURLs)))
       IN /\ Fresh(u) /\ Get(u)
          /\ IF answer = "ok"
             THEN /\ main' = [main EXCEPT !.queue = rest \o children, !.fetched = @ + 1,
                                          !.urls = @ + Len(links)]
                  /\ frontier' = frontier \o Candidates(links, 0)
                  /\ Contribute(<<Document(u, "sitemap", FALSE)>>)
             ELSE /\ main' = [main EXCEPT !.queue = rest, !.fetched = @ + 1]
                  /\ UNCHANGED <<frontier, acc, contributed>>
    /\ AuxUnchanged

(* processWellKnownAPIDocs: the operations are recorded, never fetched.    *)
FetchApiDoc(answer) ==
    /\ main.pc = "docs" /\ main.queue # <<>> /\ ~cancelled
    /\ LET u == Head(main.queue)
           operations == Candidates(Allowed(Content[u].links), 0)
       IN /\ Fresh(u) /\ Get(u)
          /\ IF answer = "ok" /\ Content[u].links # <<>>
             THEN Contribute(<<Document(u, "openapi", TRUE)>>
                             \o [i \in DOMAIN operations |-> UnfetchedResult(operations[i])])
             ELSE UNCHANGED <<acc, contributed>>
    /\ main' = [main EXCEPT !.queue = Tail(@)]
    /\ UNCHANGED frontier
    /\ AuxUnchanged

(* From one source to the next, and to the first frontier; a context that  *)
(* is done leaves every one of them at once.                               *)
NextSource ==
    /\ \/ main.pc \in {"robots", "docs"} /\ main.queue = <<>>
       \/ main.pc = "sitemaps" /\ (main.queue = <<>> \/ main.fetched >= AtLeastOne(MaxSitemaps))
       \/ main.pc \in {"robots", "sitemaps", "docs"} /\ cancelled
    /\ main' = CASE main.pc = "robots" ->
                      [main EXCEPT !.pc = "sitemaps", !.queue = main.sitemaps \o Sitemaps]
                 [] main.pc = "sitemaps" -> [main EXCEPT !.pc = "docs", !.queue = ApiDocs]
                 [] OTHER -> [main EXCEPT !.pc = "level"]
    /\ UNCHANGED <<frontier, nextFrontier, visited, acc, pagesFetched, task, sem,
                   cancelled, requests, sent, auxiliary, contributed>>
-----------------------------------------------------------------------------
(* The frontiers.                                                          *)

OverBudget == pagesFetched >= PageBudget

(* The head of the loop over the depths, and what ends it.                 *)
StartLevel ==
    /\ main.pc = "level"
    /\ main' = [main EXCEPT !.pc =
          IF main.depth > MaxDepth \/ frontier = <<>> \/ cancelled \/ OverBudget \/ Full
          THEN "done" ELSE "dispatch"]
    /\ UNCHANGED <<frontier, nextFrontier, visited, acc, pagesFetched, task, sem,
                   cancelled, requests, sent, auxiliary, contributed>>

Dispatch ==
    /\ main.pc = "dispatch" /\ frontier # <<>>
    /\ ~OverBudget /\ ~Full
    /\ LET cand == Head(frontier)
           key == <<cand.method, cand.url>>
       IN IF AllowedURL(cand.url) /\ key \notin visited
          THEN /\ visited' = Mark(key)
               /\ task' = [k \in DOMAIN task \cup {key} |->
                             IF k = key THEN [pc |-> "queued", cand |-> cand] ELSE task[k]]
          ELSE UNCHANGED <<visited, task>>
    /\ frontier' = Tail(frontier)
    /\ UNCHANGED <<main, nextFrontier, acc, pagesFetched, sem, cancelled, requests,
                   sent, auxiliary, contributed>>

(* wg.Wait, at the end of the frontier or of a budget.                     *)
JoinLevel ==
    /\ main.pc = "dispatch"
    /\ frontier = <<>> \/ OverBudget \/ Full
    /\ \A k \in DOMAIN task : task[k].pc \in {"answered", "finished"}
    /\ main' = [main EXCEPT !.pc = "level", !.depth = @ + 1]
    /\ frontier' = nextFrontier
    /\ nextFrontier' = <<>>
    /\ UNCHANGED <<visited, acc, pagesFetched, task, sem, cancelled, requests,
                   sent, auxiliary, contributed>>

Moves(k, pc) == task' = [task EXCEPT ![k].pc = pc]

Released_Kept(k) == sem

(* The deferred <-sem.                                                     *)
Released(k) == sem - 1

HasSlot == sem < AtLeastOne(MaxConcurrency)

(* case sem <- struct{}{}.  Under a context that is done, who wins the     *)
(* slot returns at the check that follows: Abandon.                        *)
Acquire(k) ==
    /\ task[k].pc = "queued"
    /\ HasSlot
    /\ ~cancelled
    /\ sem' = sem + 1
    /\ Moves(k, "slotted")
    /\ UNCHANGED <<main, frontier, nextFrontier, visited, acc, pagesFetched, cancelled,
                   requests, sent, auxiliary, contributed>>

(* ctx is done before the slot, or before or in front of the limiter.      *)
Abandon(k) ==
    /\ task[k].pc \in {"queued", "slotted"} /\ cancelled
    /\ sem' = IF task[k].pc = "slotted" THEN Released(k) ELSE sem
    /\ Moves(k, "finished")
    /\ UNCHANGED <<main, frontier, nextFrontier, visited, acc, pagesFetched, cancelled,
                   requests, sent, auxiliary, contributed>>

(* A form is recorded, never submitted.                                    *)
RecordUnfetched(k) ==
    /\ task[k].pc = "slotted" /\ task[k].cand.method # "GET"
    /\ Contribute(<<UnfetchedResult(task[k].cand)>>)
    /\ sem' = Released(k)
    /\ Moves(k, "finished")
    /\ UNCHANGED <<main, frontier, nextFrontier, visited, pagesFetched, cancelled,
                   requests, sent, auxiliary>>

TakesPage_Unchecked == TRUE

(* PagesFetched++ and the second look at the budget, under one lock.       *)
TakesPage == pagesFetched + 1 <= PageBudget

StartFetch(k) ==
    /\ task[k].pc = "slotted" /\ task[k].cand.method = "GET"
    /\ pagesFetched' = pagesFetched + 1
    /\ IF TakesPage
       THEN /\ requests' = [requests EXCEPT ![task[k].cand.url] = @ + 1]
            /\ sent' = sent + 1
            /\ Moves(k, "fetching")
            /\ UNCHANGED sem
       ELSE /\ sem' = Released(k)
            /\ Moves(k, "finished")
            /\ UNCHANGED <<requests, sent>>
    /\ UNCHANGED <<main, frontier, nextFrontier, visited, acc, cancelled, auxiliary, contributed>>

Deeper_OneLess(cand) == cand.depth + 1 < MaxDepth

(* The links of a page are followed while its depth is below the limit.    *)
Deeper(cand) == cand.depth < MaxDepth

(* fetchAndParse answered, whatever the status.                            *)
Fetched(k) ==
    /\ task[k].pc = "fetching"
    /\ LET cand == task[k].cand IN
       /\ Contribute(<<FetchedResult(cand)>>)
       /\ nextFrontier' = IF Deeper(cand)
                          THEN nextFrontier \o Candidates(Content[cand.url].links, cand.depth + 1)
                          ELSE nextFrontier
    /\ sem' = Released(k)
    /\ Moves(k, "answered")
    /\ UNCHANGED <<main, frontier, visited, pagesFetched, cancelled, requests, sent, auxiliary>>

FetchFails(k) ==
    /\ task[k].pc = "fetching"
    /\ cancelled \/ "fail" \in Faults
    /\ Contribute(<<ErrorResult(task[k].cand)>>)
    /\ sem' = Released(k)
    /\ Moves(k, "finished")
    /\ UNCHANGED <<main, frontier, nextFrontier, visited, pagesFetched, cancelled,
                   requests, sent, auxiliary>>

Cancel ==
    /\ "cancel" \in Faults /\ ~cancelled /\ main.pc # "done"
    /\ cancelled' = TRUE
    /\ UNCHANGED <<main, frontier, nextFrontier, visited, acc, pagesFetched, task, sem,
                   requests, sent, auxiliary, contributed>>
-----------------------------------------------------------------------------
MainStep ==
    \/ SkipDocument
    \/ \E answer \in Answer : FetchRobots(answer) \/ FetchSitemap(answer) \/ FetchApiDoc(answer)
    \/ NextSource
    \/ StartLevel \/ Dispatch \/ JoinLevel

TaskStep(k) ==
    \/ Acquire(k) \/ Abandon(k) \/ RecordUnfetched(k)
    \/ StartFetch(k) \/ Fetched(k) \/ FetchFails(k)

Next ==
    \/ MainStep
    \/ \E k \in DOMAIN task : TaskStep(k)
    \/ Cancel

Spec == Init /\ [][Next]_vars

(* The goroutines are scheduled and a GET ends within the client's timeout.*)
FairSpec == Spec /\ WF_vars(MainStep)
                 /\ \A k \in Key : WF_vars(k \in DOMAIN task /\ TaskStep(k))
-----------------------------------------------------------------------------
(* No URL is fetched twice, by whatever sources and links it is found:     *)
(* sources, pages and cyclic links share one visited set.                  *)
FetchedOnce == \A u \in Url : requests[u] <= 1

(* Following links never takes the crawl over its page budget, with many   *)
(* fetches in flight (crawler.go:132-134), unless the auxiliary sources    *)
(* have used it up before.                                                 *)
LinksWithinBudget == sent > auxiliary => sent <= PageBudget

(* The endpoints never exceed their budget, and each is what all it was    *)
(* ever handed adds up to, whatever the order.                             *)
EndpointsMerged ==
    /\ Cardinality(DOMAIN acc) <= AtLeastOne(MaxEndpoints)
    /\ \A k \in DOMAIN acc :
          LET mine == {c.result : c \in {d \in contributed : d.key = k}} IN
          /\ acc[k].sources = UNION {r.sources : r \in mine}
          /\ acc[k].documented = \E r \in mine : r.documented
          /\ acc[k].observed = \E r \in mine : r.observed
          /\ acc[k].failed = \E r \in mine : r.failed

(* An endpoint counts as observed only if one of the URLs it stands for    *)
(* answered: neither a form, nor a documented operation, nor a request     *)
(* that failed makes it so.                                                *)
ObservedMeansAnswered == \A k \in DOMAIN acc : acc[k].observed =>
    /\ k[1] = "GET"
    /\ \/ \E u \in Url : Template[u] = k[2] /\ <<"GET", u>> \in DOMAIN task
                         /\ task[<<"GET", u>>].pc = "answered"
       \/ requests[k[2]] > 0 /\ <<"GET", k[2]>> \notin DOMAIN task

(* A crawl that was not cancelled and ended within both budgets has missed *)
(* nothing: every seed in scope was dispatched, and of every page above    *)
(* the deepest level that answered, every link in scope.                   *)
CrawlComplete ==
    (main.pc = "done" /\ ~cancelled /\ ~OverBudget /\ ~Full) =>
        /\ \A u \in ToSet(Seeds) \cap Scope : <<"GET", u>> \in visited
        /\ \A k \in DOMAIN task :
              task[k].pc = "answered" /\ task[k].cand.depth < MaxDepth =>
              \A l \in ToSet(Content[k[2]].links) : l.url \in Scope =>
                  /\ <<l.method, l.url>> \in visited
                  /\ l.method = "POST" => <<"POST", Template[l.url]>> \in DOMAIN acc
                  /\ l.method = "GET" => requests[l.url] = 1

(* The crawl ends, with sitemaps and pages that refer to each other.       *)
CrawlEnds == <>(main.pc = "done")
=============================================================================
