------------------------ MODULE EndpointCrawler_proofs ------------------------
(* The budgets, the merging and the completeness of a crawl, for any site,  *)
(* any limits and any number of fetches at a time: proofs of                *)
(* EndpointCrawler's invariants.                                            *)
EXTENDS EndpointCrawler, FiniteSetTheorems, SequenceTheorems, WellFoundedInduction,
        NaturalsInduction, TLAPS

-----------------------------------------------------------------------------
(* The inductive invariant.                                                *)

Auxiliary == {"robots", "sitemaps", "docs"}
Contribution == [key: Key, result: Result]
Table == UNION {[D -> Result] : D \in SUBSET Key}

(* The slots taken are those of the goroutines between Acquire and their   *)
(* return.                                                                 *)
Slotted == {k \in DOMAIN task : task[k].pc \in {"slotted", "fetching"}}
SlotsCounted ==
    /\ IsFiniteSet(Slotted) /\ sem = Cardinality(Slotted)
    /\ sem <= AtLeastOne(MaxConcurrency)

ShapeInv ==
    /\ main \in [pc: Auxiliary \cup {"level", "dispatch", "done"},
                 queue: Seq(Url), sitemaps: Seq(Url),
                 fetched: Nat, urls: Nat, depth: 0..(MaxDepth + 1)]
    /\ frontier \in Seq(Candidate) /\ nextFrontier \in Seq(Candidate)
    /\ visited \subseteq Key
    /\ acc \in Table
    /\ pagesFetched \in Nat
    /\ task = [k \in DOMAIN task |-> task[k]]
    /\ DOMAIN task \subseteq visited
    /\ \A k \in DOMAIN task : task[k] \in [pc: TaskPC, cand: Candidate]
    /\ cancelled \in BOOLEAN
    /\ requests \in [Url -> Nat] /\ sent \in Nat /\ auxiliary \in Nat
    /\ contributed \subseteq Contribution

(* An endpoint is what was contributed for it, and what was contributed    *)
(* and is not there found the table full: it is full for ever.             *)
Mine(k, cs) == {c.result : c \in {d \in cs : d.key = k}}
Merges(r, mine) ==
    /\ r.sources = UNION {m.sources : m \in mine}
    /\ r.documented = \E m \in mine : m.documented
    /\ r.observed = \E m \in mine : m.observed
    /\ r.failed = \E m \in mine : m.failed
Merged(table, cs) ==
    /\ IsFiniteSet(DOMAIN table)
    /\ Cardinality(DOMAIN table) <= AtLeastOne(MaxEndpoints)
    /\ \A k \in DOMAIN table : Merges(table[k], Mine(k, cs))
    /\ \A c \in cs : c.key \in DOMAIN table \/ ~Admits(table)

BudgetInv ==
    /\ main.pc \in Auxiliary => sent = auxiliary
    /\ sent <= pagesFetched
    /\ LinksWithinBudget

(* What was sent for a URL, by how far its goroutine is.                   *)
TaskInv(k) ==
    LET t == task[k] IN
    /\ k = <<t.cand.method, t.cand.url>>
    /\ t.pc \notin {"answered", "finished"} => main.pc = "dispatch" /\ t.cand.depth = main.depth
    /\ k[1] = "GET" =>
          /\ t.pc \in {"queued", "slotted"} => requests[k[2]] = 0
          /\ t.pc \in {"fetching", "answered"} => requests[k[2]] = 1
          /\ t.pc = "finished" => \/ requests[k[2]] = 1
                                  \/ requests[k[2]] = 0 /\ (cancelled \/ OverBudget)
    /\ k[1] = "POST" =>
          /\ t.pc \in {"queued", "slotted", "finished"}
          /\ t.pc = "finished" => cancelled \/ \E c \in contributed : c.key = <<"POST", Template[k[2]]>>
FetchInv ==
    /\ \A k \in DOMAIN task : TaskInv(k)
    /\ \A k \in visited \ DOMAIN task : k[1] = "GET" /\ requests[k[2]] = 1
    /\ \A u \in Url : <<"GET", u>> \notin visited => requests[u] = 0

DepthInv ==
    /\ main.pc \in Auxiliary => DOMAIN task = {} /\ main.depth = 0
    /\ main.pc # "dispatch" => nextFrontier = <<>>
    /\ main.pc = "dispatch" => main.depth <= MaxDepth
    /\ \A i \in DOMAIN frontier : frontier[i].depth = main.depth /\ main.depth <= MaxDepth
    /\ \A i \in DOMAIN nextFrontier : nextFrontier[i].depth = main.depth + 1 /\ main.depth < MaxDepth
    /\ main.pc = "done" => main.depth > MaxDepth \/ frontier = <<>> \/ cancelled \/ OverBudget \/ Full

(* While there is budget, what was found is dispatched or will be.         *)
Waits(key, cands) == \E i \in DOMAIN cands : key = <<cands[i].method, cands[i].url>>
Scheduled(key) == key \in visited \/ Waits(key, frontier) \/ Waits(key, nextFrontier)
FoundScheduled ==
    /\ \A u \in ToSet(Seeds) \cap Scope : Scheduled(<<"GET", u>>)
    /\ \A k \in DOMAIN task :
          task[k].pc = "answered" /\ task[k].cand.depth < MaxDepth =>
          \A l \in ToSet(Content[k[2]].links) : l.url \in Scope => Scheduled(<<l.method, l.url>>)
CompleteInv == ~OverBudget /\ ~Full => FoundScheduled

CrawlInv ==
    /\ ShapeInv /\ SlotsCounted
    /\ Merged(acc, contributed)
    /\ BudgetInv /\ FetchInv /\ DepthInv /\ CompleteInv
-----------------------------------------------------------------------------
(* The accumulator.                                                        *)

LEMMA AtLeastOneType ==
    ASSUME NEW n \in Nat
    PROVE  AtLeastOne(n) \in Nat /\ AtLeastOne(n) >= 1
BY DEF AtLeastOne

(* A table with one more key, or one entry replaced.                       *)
LEMMA TableStep ==
    ASSUME NEW t \in Table, NEW k \in Key, NEW r \in Result
    PROVE  /\ t \in [DOMAIN t -> Result] /\ DOMAIN t \subseteq Key
           /\ [t EXCEPT ![k] = r] \in Table
           /\ [j \in DOMAIN t \cup {k} |-> IF j = k THEN r ELSE t[j]] \in Table
<1>1. PICK D \in SUBSET Key : t \in [D -> Result]
  BY DEF Table
<1>2. DOMAIN t = D
  BY <1>1
<1>3. [t EXCEPT ![k] = r] \in [D -> Result]
  BY <1>1
<1>4. [j \in D \cup {k} |-> IF j = k THEN r ELSE t[j]] \in [D \cup {k} -> Result]
  BY <1>1
<1>5. D \cup {k} \in SUBSET Key
  OBVIOUS
<1> QED
  BY <1>1, <1>2, <1>3, <1>4, <1>5 DEF Table

LEMMA MergeIntoType ==
    ASSUME NEW r \in Result, NEW s \in Result
    PROVE  MergeInto(r, s) \in Result
BY DEF MergeInto, Result

(* What a result adds up to, with one more contribution.                   *)
LEMMA MergesOneMore ==
    ASSUME NEW r \in Result, NEW s \in Result, NEW mine \in SUBSET Result, Merges(r, mine)
    PROVE  Merges(MergeInto(r, s), mine \cup {s})
<1> DEFINE m == MergeInto(r, s)
<1>1. m.sources = UNION {x.sources : x \in mine \cup {s}}
  BY DEF MergeInto, Merges
<1>2. m.documented = \E x \in mine \cup {s} : x.documented
  <2>1. m.documented = (r.documented \/ s.documented)
    BY DEF MergeInto
  <2>2. r.documented = \E x \in mine : x.documented
    BY DEF Merges
  <2> QED
    BY <2>1, <2>2, Zenon
<1>3. m.observed = \E x \in mine \cup {s} : x.observed
  <2>1. m.observed = (r.observed \/ s.observed)
    BY DEF MergeInto
  <2>2. r.observed = \E x \in mine : x.observed
    BY DEF Merges
  <2> QED
    BY <2>1, <2>2, Zenon
<1>4. m.failed = \E x \in mine \cup {s} : x.failed
  <2>1. m.failed = (r.failed \/ s.failed)
    BY DEF MergeInto
  <2>2. r.failed = \E x \in mine : x.failed
    BY DEF Merges
  <2> QED
    BY <2>1, <2>2, Zenon
<1> QED
  BY <1>1, <1>2, <1>3, <1>4 DEF Merges

LEMMA MergesAlone ==
    ASSUME NEW s \in Result
    PROVE  Merges(s, {s})
<1>1. /\ s.sources \in SUBSET Source /\ s.documented \in BOOLEAN
      /\ s.observed \in BOOLEAN /\ s.failed \in BOOLEAN
  BY DEF Result
<1>2. s.sources = UNION {x.sources : x \in {s}}
  OBVIOUS
<1>3. s.documented = \E x \in {s} : x.documented
  BY <1>1, Zenon
<1>4. s.observed = \E x \in {s} : x.observed
  BY <1>1, Zenon
<1>5. s.failed = \E x \in {s} : x.failed
  BY <1>1, Zenon
<1> QED
  BY <1>2, <1>3, <1>4, <1>5 DEF Merges

(* One contribution: merged into its endpoint, or the endpoint is new and  *)
(* had none before, or the table is full.                                  *)
LEMMA AddMerged ==
    ASSUME NEW t \in Table, NEW cs \in SUBSET Contribution, NEW c \in Contribution,
           Merged(t, cs)
    PROVE  /\ Add(t, c) \in Table
           /\ Merged(Add(t, c), cs \cup {c})
           /\ DOMAIN t \subseteq DOMAIN Add(t, c)
<1>1. c.key \in Key /\ c.result \in Result
  BY DEF Contribution
<1>2. t \in [DOMAIN t -> Result] /\ DOMAIN t \subseteq Key
  BY <1>1, TableStep
<1>3. \A k \in Key : Mine(k, cs) \in SUBSET Result
  BY DEF Mine, Contribution
<1>4. \A k : k # c.key => Mine(k, cs \cup {c}) = Mine(k, cs)
  BY DEF Mine
<1>5. Mine(c.key, cs \cup {c}) = Mine(c.key, cs) \cup {c.result}
  BY DEF Mine
<1>6. CASE c.key \in DOMAIN t
  <2> DEFINE r == MergeInto(t[c.key], c.result)
             u == [t EXCEPT ![c.key] = r]
  <2>1. Add(t, c) = u
    BY <1>6 DEF Add
  <2>2. r \in Result
    BY <1>1, <1>2, <1>6, MergeIntoType
  <2>3. u \in Table /\ DOMAIN u = DOMAIN t
    BY <1>1, <2>2, TableStep
  <2>4. \A k \in DOMAIN t : Merges(u[k], Mine(k, cs \cup {c}))
    <3> SUFFICES ASSUME NEW k \in DOMAIN t PROVE Merges(u[k], Mine(k, cs \cup {c}))
      OBVIOUS
    <3>1. Merges(t[k], Mine(k, cs))
      BY DEF Merged
    <3>2. CASE k = c.key
      <4>1. u[k] = r /\ t[k] \in Result
        BY <1>2, <1>6, <3>2
      <4>2. Merges(r, Mine(k, cs) \cup {c.result})
        BY <1>1, <1>3, <3>1, <3>2, <4>1, MergesOneMore
      <4> QED
        BY <1>5, <3>2, <4>1, <4>2
    <3>3. CASE k # c.key
      <4>1. u[k] = t[k]
        BY <1>2, <3>3
      <4> QED
        BY <1>4, <3>1, <3>3, <4>1
    <3> QED
      BY <3>2, <3>3
  <2>5. \A d \in cs \cup {c} : d.key \in DOMAIN u \/ ~Admits(u)
    BY <1>6, <2>3 DEF Merged, Admits
  <2>6. IsFiniteSet(DOMAIN u) /\ Cardinality(DOMAIN u) <= AtLeastOne(MaxEndpoints)
    BY <2>3 DEF Merged
  <2>7. Merged(u, cs \cup {c})
    BY <2>3, <2>4, <2>5, <2>6 DEF Merged
  <2> QED
    BY <2>1, <2>3, <2>7
<1>7. CASE c.key \notin DOMAIN t /\ Admits(t)
  <2> DEFINE u == [k \in DOMAIN t \cup {c.key} |-> IF k = c.key THEN c.result ELSE t[k]]
  <2>1. Add(t, c) = u
    BY <1>7 DEF Add
  <2>2. u \in Table
    BY <1>1, TableStep
  <2>3. DOMAIN u = DOMAIN t \cup {c.key}
    OBVIOUS
  <2>4. Mine(c.key, cs) = {}
    BY <1>7 DEF Merged, Mine
  <2>5. Merges(c.result, Mine(c.key, cs \cup {c}))
    <3>1. Mine(c.key, cs \cup {c}) = {c.result}
      BY <1>5, <2>4
    <3> QED
      BY <1>1, <3>1, MergesAlone
  <2>6. \A k \in DOMAIN u : Merges(u[k], Mine(k, cs \cup {c}))
    BY <1>4, <1>7, <2>5 DEF Merged
  <2>7. IsFiniteSet(DOMAIN u) /\ Cardinality(DOMAIN u) = Cardinality(DOMAIN t) + 1
    <3>1. IsFiniteSet(DOMAIN t)
      BY DEF Merged
    <3> QED
      BY <1>7, <2>3, <3>1, FS_AddElement
  <2>8. Cardinality(DOMAIN u) <= AtLeastOne(MaxEndpoints)
    <3>1. Cardinality(DOMAIN t) \in Nat
      BY FS_CardinalityType DEF Merged
    <3>2. AtLeastOne(MaxEndpoints) \in Nat
      BY CrawlerAssumption, AtLeastOneType
    <3>3. Cardinality(DOMAIN t) < AtLeastOne(MaxEndpoints)
      BY <1>7 DEF Admits
    <3> QED
      BY <2>7, <3>1, <3>2, <3>3
  <2>9. \A d \in cs \cup {c} : d.key \in DOMAIN u \/ ~Admits(u)
    BY <1>7 DEF Merged
  <2>10. Merged(u, cs \cup {c})
    BY <2>6, <2>7, <2>8, <2>9 DEF Merged
  <2> QED
    BY <2>1, <2>2, <2>3, <2>10
<1>8. CASE c.key \notin DOMAIN t /\ ~Admits(t)
  <2>1. Add(t, c) = t
    BY <1>8 DEF Add
  <2>2. Merged(t, cs \cup {c})
    BY <1>4, <1>8 DEF Merged
  <2> QED
    BY <2>1, <2>2
<1> QED
  BY <1>6, <1>7, <1>8

-----------------------------------------------------------------------------
(* Recursive functions.                                                    *)

(* f runs through the steps one by one, from b.                            *)
Steps(S, N) == [1..N -> [S -> S]]
Solves(f, S, N, b, step) ==
    /\ f \in [0..N -> S]
    /\ f[0] = b /\ \A n \in 1..N : f[n] = step[n][f[n - 1]]

(* A recursion along 1..N has a solution: otherwise take the least length  *)
(* for which there is none, and extend the solution one shorter.           *)
LEMMA Recursion ==
    ASSUME NEW S, NEW N \in Nat, NEW b \in S, NEW step \in Steps(S, N)
    PROVE  \E f : Solves(f, S, N, b, step)
<1> DEFINE Some(m) == \E f : Solves(f, S, m, b, step)
           T == {m \in 0..N : ~Some(m)}
<1>1. SUFFICES ASSUME T # {} PROVE FALSE
  <2> HIDE DEF Some
  <2>1. N \in 0..N
    OBVIOUS
  <2>2. Some(N)
    BY <2>1
  <2> QED
    BY <2>2 DEF Some
<1>2. T \subseteq 0..N /\ 0..N \subseteq Nat
  <2> HIDE DEF Some
  <2> QED
    OBVIOUS
<1>3. PICK m \in T : \A k \in T : ~ (<<k, m>> \in OpToRel(<, Nat))
  BY <1>1, <1>2, NatLessThanWellFounded, WFMin
<1>4. \A k \in T : ~ (k < m)
  BY <1>2, <1>3 DEF OpToRel
<1>5. m \in 0..N /\ ~Some(m)
  OBVIOUS
<1>6. CASE m = 0
  <2> DEFINE f == [n \in 0..0 |-> b]
  <2>1. Solves(f, S, m, b, step)
    BY <1>6 DEF Solves
  <2> QED
    BY <1>5, <2>1
<1>7. CASE m # 0
  <2>1. m - 1 \in 0..N /\ m - 1 < m
    BY <1>5, <1>7
  <2>2. m - 1 \notin T
    BY <1>4, <2>1
  <2>3. PICK f : Solves(f, S, m - 1, b, step)
    BY <2>1, <2>2
  <2> DEFINE g == [n \in 0..m |-> IF n = m THEN step[m][f[m - 1]] ELSE f[n]]
  <2>4. m \in 1..N /\ m - 1 \in 0..(m - 1)
    BY <1>5, <1>7
  <2>5. step[m][f[m - 1]] \in S
    BY <2>3, <2>4 DEF Solves, Steps
  <2>6. \A n \in 0..m : n # m => n \in 0..(m - 1)
    BY <2>4
  <2>7. g \in [0..m -> S]
    BY <2>3, <2>5, <2>6 DEF Solves
  <2>8. g[0] = b
    BY <1>7, <2>3, <2>4 DEF Solves
  <2>9. \A n \in 1..m : g[n] = step[n][g[n - 1]]
    <3> SUFFICES ASSUME NEW n \in 1..m PROVE g[n] = step[n][g[n - 1]]
      OBVIOUS
    <3>1. n - 1 \in 0..m /\ n \in 0..m /\ n - 1 # m
      BY <2>4
    <3>2. g[n - 1] = f[n - 1]
      BY <3>1
    <3>3. CASE n = m
      BY <3>1, <3>2, <3>3
    <3>4. CASE n # m
      <4>1. n \in 1..(m - 1)
        BY <2>4, <3>4
      <4>2. f[n] = step[n][f[n - 1]]
        BY <2>3, <4>1 DEF Solves
      <4> QED
        BY <3>1, <3>2, <3>4, <4>2
    <3> QED
      BY <3>3, <3>4
  <2>10. Solves(g, S, m, b, step)
    BY <2>7, <2>8, <2>9 DEF Solves
  <2> QED
    BY <1>5, <2>10
<1> QED
  BY <1>6, <1>7

(* The tables on the way.                                                  *)
LEMMA AddAllSteps ==
    ASSUME NEW t \in Table, NEW cs \in Seq(Contribution),
           \A u \in Table : \A c \in Contribution : Add(u, c) \in Table
    PROVE  \E f \in [0..Len(cs) -> Table] :
              /\ f[0] = t
              /\ \A n \in 1..Len(cs) : f[n] = Add(f[n - 1], cs[n])
              /\ AddAll(t, cs) = f[Len(cs)]
<1> DEFINE N == Len(cs)
           step == [n \in 1..N |-> [u \in Table |-> Add(u, cs[n])]]
           Body(g) == [n \in 0..N |-> IF n = 0 THEN t ELSE Add(g[n - 1], cs[n])]
<1>1. N \in Nat /\ \A n \in 1..N : cs[n] \in Contribution
  BY LenProperties, ElementOfSeq
<1>2. step \in Steps(Table, N)
  BY <1>1 DEF Steps
<1>3. PICK f : Solves(f, Table, N, t, step)
  <2>1. \A M \in Nat : \A st \in Steps(Table, M) : \E f : Solves(f, Table, M, t, st)
    BY Recursion
  <2> HIDE DEF N, step
  <2> QED
    BY <1>1, <1>2, <2>1
<1>4. f \in [0..N -> Table] /\ f[0] = t /\ \A n \in 1..N : f[n] = Add(f[n - 1], cs[n])
  <2>1. f \in [0..N -> Table] /\ f[0] = t
    BY <1>3 DEF Solves
  <2> SUFFICES ASSUME NEW n \in 1..N PROVE f[n] = Add(f[n - 1], cs[n])
    BY <2>1
  <2>2. n - 1 \in 0..N
    BY <1>1
  <2>3. f[n - 1] \in Table
    BY <2>1, <2>2
  <2> QED
    BY <1>3, <2>3 DEF Solves
<1>5. f = Body(f)
  BY <1>1, <1>4
<1>6. PICK h : h = (CHOOSE g : g = Body(g))
  OBVIOUS
<1>7. h = Body(h)
  BY <1>5, <1>6
<1>8. AddAll(t, cs) = h[N]
  BY <1>6 DEF AddAll
<1>9. \A n \in 0..N : h[n] = f[n]
  <2> DEFINE T == {n \in 0..N : h[n] # f[n]}
  <2>1. SUFFICES ASSUME T # {} PROVE FALSE
    OBVIOUS
  <2>2. T \subseteq Nat
    BY <1>1
  <2>3. PICK n \in T : \A k \in T : ~ (<<k, n>> \in OpToRel(<, Nat))
    BY <2>1, <2>2, NatLessThanWellFounded, WFMin
  <2>4. \A k \in T : ~ (k < n)
    BY <2>2, <2>3 DEF OpToRel
  <2>5. n \in 0..N /\ h[n] # f[n]
    OBVIOUS
  <2>6. h[n] = IF n = 0 THEN t ELSE Add(h[n - 1], cs[n])
    BY <1>7, <2>5
  <2>7. n # 0
    BY <1>4, <2>5, <2>6
  <2>8. n - 1 \in 0..N /\ n - 1 < n /\ n \in 1..N
    BY <1>1, <2>5, <2>7
  <2>9. h[n - 1] = f[n - 1]
    BY <2>4, <2>8
  <2> QED
    BY <1>4, <2>5, <2>6, <2>7, <2>8, <2>9
<1> QED
  BY <1>1, <1>4, <1>8, <1>9

(* The table after all of them: by the least n after which it is not the   *)
(* table of the first n contributions.                                     *)
LEMMA AddAllMerged ==
    ASSUME NEW t \in Table, NEW cs \in SUBSET Contribution, NEW new \in Seq(Contribution),
           Merged(t, cs)
    PROVE  /\ AddAll(t, new) \in Table
           /\ Merged(AddAll(t, new), cs \cup ToSet(new))
           /\ DOMAIN t \subseteq DOMAIN AddAll(t, new)
           /\ ToSet(new) \subseteq Contribution
<1>1. \A u \in Table : \A c \in Contribution : Add(u, c) \in Table
  <2> SUFFICES ASSUME NEW u \in Table, NEW c \in Contribution PROVE Add(u, c) \in Table
    OBVIOUS
  <2>1. c.key \in Key /\ c.result \in Result
    BY DEF Contribution
  <2>2. c.key \in DOMAIN u => u[c.key] \in Result
    BY <2>1, TableStep
  <2>3. c.key \in DOMAIN u => MergeInto(u[c.key], c.result) \in Result
    BY <2>1, <2>2, MergeIntoType
  <2>4. c.key \in DOMAIN u => [u EXCEPT ![c.key] = MergeInto(u[c.key], c.result)] \in Table
    BY <2>1, <2>3, TableStep
  <2>5. [k \in DOMAIN u \cup {c.key} |-> IF k = c.key THEN c.result ELSE u[k]] \in Table
    BY <2>1, TableStep
  <2> QED
    BY <2>4, <2>5 DEF Add
<1> DEFINE N == Len(new)
<1>2. PICK f \in [0..N -> Table] :
         /\ f[0] = t
         /\ \A n \in 1..N : f[n] = Add(f[n - 1], new[n])
         /\ AddAll(t, new) = f[N]
  BY <1>1, AddAllSteps
<1>3. N \in Nat /\ (\A n \in 1..N : new[n] \in Contribution) /\ DOMAIN new = 1..N
  BY LenProperties, ElementOfSeq
<1> DEFINE First(n) == cs \cup {new[i] : i \in 1..n}
           Good(n) == Merged(f[n], First(n)) /\ DOMAIN t \subseteq DOMAIN f[n]
           T == {n \in 0..N : ~Good(n)}
<1>4. ASSUME T # {} PROVE FALSE
  <2>1. T \subseteq Nat
    <3> HIDE DEF Good
    <3> QED
      BY <1>3
  <2>2. PICK n \in T : \A k \in T : ~ (<<k, n>> \in OpToRel(<, Nat))
    BY <1>4, <2>1, NatLessThanWellFounded, WFMin
  <2>3. \A k \in T : ~ (k < n)
    BY <2>1, <2>2 DEF OpToRel
  <2>4. n \in 0..N /\ ~Good(n)
    OBVIOUS
  <2>5. CASE n = 0
    <3>1. First(0) = cs
      OBVIOUS
    <3> QED
      BY <1>2, <2>4, <2>5, <3>1
  <2>6. CASE n # 0
    <3>1. n - 1 \in 0..N /\ n - 1 < n /\ n \in 1..N
      BY <1>3, <2>4, <2>6
    <3>2. Good(n - 1)
      <4> HIDE DEF Good
      <4> QED
        BY <2>3, <3>1
    <3>3. PICK u \in Table : u = f[n - 1]
      BY <1>2, <3>1
    <3>4. PICK c \in Contribution : c = new[n]
      BY <1>3, <3>1
    <3>5. PICK ds \in SUBSET Contribution : ds = First(n - 1)
      <4>1. \A i \in 1..(n - 1) : i \in 1..N
        BY <1>3, <3>1
      <4> QED
        BY <1>3, <4>1
    <3>6. Merged(u, ds) /\ DOMAIN t \subseteq DOMAIN u
      BY <3>2, <3>3, <3>5
    <3>7. Merged(Add(u, c), ds \cup {c}) /\ DOMAIN u \subseteq DOMAIN Add(u, c)
      BY <3>6, AddMerged
    <3>8. First(n) = ds \cup {c}
      <4>1. 1..n = 1..(n - 1) \cup {n}
        BY <3>1
      <4> QED
        BY <3>4, <3>5, <4>1
    <3>9. f[n] = Add(u, c)
      BY <1>2, <3>1, <3>3, <3>4
    <3> QED
      BY <2>4, <3>6, <3>7, <3>8, <3>9
  <2> QED
    BY <2>5, <2>6
<1>5. Good(N)
  <2> HIDE DEF Good
  <2>1. N \in 0..N
    BY <1>3
  <2> QED
    BY <1>4, <2>1
<1>6. First(N) = cs \cup ToSet(new)
  BY <1>3 DEF ToSet
<1>7. f[N] \in Table
  BY <1>2, <1>3
<1>8. ToSet(new) \subseteq Contribution
  BY <1>3 DEF ToSet
<1> QED
  BY <1>2, <1>5, <1>6, <1>7, <1>8

(* The links that are let through are links of the page.                   *)
LEMMA AllowedType ==
    ASSUME NEW links \in Seq(Link)
    PROVE  Allowed(links) \in Seq(Link)
<1> DEFINE N == Len(links)
           Next1(prev, n) == IF AllowedURL(links[n].url) THEN Append(prev, links[n]) ELSE prev
           step == [n \in 1..N |-> [s \in Seq(Link) |-> Next1(s, n)]]
           Body(g) == [n \in 0..N |-> IF n = 0 THEN <<>> ELSE Next1(g[n - 1], n)]
<1>1. N \in Nat /\ \A n \in 1..N : links[n] \in Link
  BY LenProperties, ElementOfSeq
<1>2. \A n \in 1..N : \A s \in Seq(Link) : Next1(s, n) \in Seq(Link)
  BY <1>1, AppendProperties
<1>3. step \in Steps(Seq(Link), N)
  <2> HIDE DEF Next1
  <2> QED
    BY <1>2 DEF Steps
<1>4. <<>> \in Seq(Link)
  OBVIOUS
<1>5. PICK f : Solves(f, Seq(Link), N, <<>>, step)
  <2>1. \A M \in Nat : \A st \in Steps(Seq(Link), M) : \E f : Solves(f, Seq(Link), M, <<>>, st)
    BY <1>4, Recursion
  <2> HIDE DEF N, step
  <2> QED
    BY <1>1, <1>3, <2>1
<1>6. f \in [0..N -> Seq(Link)] /\ f[0] = <<>> /\ \A n \in 1..N : f[n] = Next1(f[n - 1], n)
  <2>1. f \in [0..N -> Seq(Link)] /\ f[0] = <<>>
    BY <1>5 DEF Solves
  <2> HIDE DEF Next1
  <2> SUFFICES ASSUME NEW n \in 1..N PROVE f[n] = Next1(f[n - 1], n)
    BY <2>1
  <2>2. n - 1 \in 0..N
    BY <1>1
  <2>3. f[n - 1] \in Seq(Link)
    BY <2>1, <2>2
  <2> QED
    BY <1>5, <2>3 DEF Solves
<1>7. f = Body(f)
  <2> HIDE DEF Next1
  <2> QED
    BY <1>1, <1>6
<1>8. PICK h : h = (CHOOSE g : g = Body(g))
  OBVIOUS
<1>9. h = Body(h)
  BY <1>7, <1>8
<1>10. Allowed(links) = h[N]
  BY <1>8 DEF Allowed
<1>11. \A n \in 0..N : h[n] \in Seq(Link)
  <2> DEFINE T == {n \in 0..N : h[n] \notin Seq(Link)}
  <2>1. SUFFICES ASSUME T # {} PROVE FALSE
    OBVIOUS
  <2>2. T \subseteq Nat
    BY <1>1
  <2>3. PICK n \in T : \A k \in T : ~ (<<k, n>> \in OpToRel(<, Nat))
    BY <2>1, <2>2, NatLessThanWellFounded, WFMin
  <2>4. \A k \in T : ~ (k < n)
    BY <2>2, <2>3 DEF OpToRel
  <2>5. n \in 0..N /\ h[n] \notin Seq(Link)
    OBVIOUS
  <2> HIDE DEF Next1
  <2>6. h[n] = IF n = 0 THEN <<>> ELSE Next1(h[n - 1], n)
    BY <1>9, <2>5
  <2>7. n # 0
    BY <1>4, <2>5, <2>6
  <2>8. n - 1 \in 0..N /\ n - 1 < n /\ n \in 1..N
    BY <1>1, <2>5, <2>7
  <2>9. h[n - 1] \in Seq(Link)
    BY <2>4, <2>8
  <2> QED
    BY <1>2, <2>5, <2>6, <2>7, <2>8, <2>9
<1> QED
  BY <1>1, <1>10, <1>11

-----------------------------------------------------------------------------
(* Frames: what several steps have in common.                              *)

LEMMA ConstantTypes ==
    /\ PageBudget \in Nat /\ PageBudget >= 1
    /\ AtLeastOne(MaxEndpoints) \in Nat
    /\ AtLeastOne(MaxConcurrency) \in Nat
    /\ MaxDepth \in Nat /\ MaxSitemaps \in Nat
    /\ Seeds \in Seq(Url) /\ Robots \in Seq(Url) /\ Sitemaps \in Seq(Url) /\ ApiDocs \in Seq(Url)
    /\ Template \in [Url -> Url] /\ Scope \subseteq Url
    /\ \A u \in Url : Content[u].links \in Seq(Link) /\ Content[u].sitemaps \in Seq(Url)
BY CrawlerAssumption, AtLeastOneType DEF PageBudget

(* A table that was full stays full.                                       *)
LEMMA FullStays ==
    ASSUME IsFiniteSet(DOMAIN acc'), DOMAIN acc \subseteq DOMAIN acc', Full
    PROVE  Full'
<1>1. IsFiniteSet(DOMAIN acc) /\ Cardinality(DOMAIN acc) <= Cardinality(DOMAIN acc')
  BY FS_Subset
<1>2. Cardinality(DOMAIN acc) \in Nat /\ Cardinality(DOMAIN acc') \in Nat
  BY <1>1, FS_CardinalityType
<1>3. AtLeastOne(MaxEndpoints) \in Nat
  BY ConstantTypes
<1> QED
  BY <1>1, <1>2, <1>3 DEF Full

LEMMA ContributeStep ==
    ASSUME CrawlInv, NEW new \in Seq(Contribution), Contribute(new)
    PROVE  /\ acc' \in Table
           /\ Merged(acc', contributed')
           /\ contributed' \subseteq Contribution
           /\ contributed \subseteq contributed'
           /\ ToSet(new) \subseteq contributed'
           /\ Full => Full'
<1>1. acc \in Table /\ contributed \in SUBSET Contribution /\ Merged(acc, contributed)
  BY DEF CrawlInv, ShapeInv
<1>2. acc' = AddAll(acc, new) /\ contributed' = contributed \cup ToSet(new)
  BY DEF Contribute
<1>3. /\ AddAll(acc, new) \in Table
      /\ Merged(AddAll(acc, new), contributed \cup ToSet(new))
      /\ DOMAIN acc \subseteq DOMAIN AddAll(acc, new)
      /\ ToSet(new) \subseteq Contribution
  BY <1>1, AddAllMerged
<1>4. /\ acc' \in Table /\ Merged(acc', contributed')
      /\ DOMAIN acc \subseteq DOMAIN acc'
  BY <1>2, <1>3
<1>5. IsFiniteSet(DOMAIN acc')
  BY <1>4 DEF Merged
<1>6. Full => Full'
  BY <1>4, <1>5, FullStays
<1> QED
  BY <1>1, <1>2, <1>3, <1>4, <1>6

(* Nothing contributed.                                                    *)
LEMMA NoContribution ==
    ASSUME CrawlInv, UNCHANGED <<acc, contributed>>
    PROVE  /\ acc' \in Table
           /\ Merged(acc', contributed')
           /\ contributed' \subseteq Contribution
           /\ contributed \subseteq contributed'
           /\ Full => Full'
BY DEF CrawlInv, ShapeInv, Full

LEMMA ContributionTypes ==
    /\ \A u \in Url, s \in Source, d \in BOOLEAN : Document(u, s, d) \in Contribution
    /\ \A c \in Candidate :
          /\ UnfetchedResult(c) \in Contribution
          /\ FetchedResult(c) \in Contribution
          /\ ErrorResult(c) \in Contribution
<1>1. Template \in [Url -> Url]
  BY ConstantTypes
<1>2. \A u \in Url, s \in Source, d \in BOOLEAN : Document(u, s, d) \in Contribution
  BY DEF Document, Contribution, Key, Result
<1>3. ASSUME NEW c \in Candidate
      PROVE  /\ UnfetchedResult(c) \in Contribution
             /\ FetchedResult(c) \in Contribution
             /\ ErrorResult(c) \in Contribution
  <2>1. c.url \in Url /\ c.method \in {"GET", "POST"} /\ c.source \in Source /\ c.documented \in BOOLEAN
    BY DEF Candidate
  <2>2. Template[c.url] \in Url
    BY <1>1, <2>1
  <2> QED
    BY <2>1, <2>2 DEF UnfetchedResult, FetchedResult, ErrorResult, Contribution, Key, Result
<1> QED
  BY <1>2, <1>3

LEMMA Singleton ==
    /\ <<>> \in Seq(Contribution)
    /\ \A c \in Contribution : <<c>> \in Seq(Contribution) /\ ToSet(<<c>>) = {c}
BY DEF ToSet

LEMMA CandidatesType ==
    ASSUME NEW links \in Seq(Link), NEW d \in 0..(MaxDepth + 1)
    PROVE  /\ Candidates(links, d) \in Seq(Candidate)
           /\ Len(Candidates(links, d)) = Len(links)
           /\ \A i \in 1..Len(links) :
                 /\ Candidates(links, d)[i].depth = d
                 /\ Candidates(links, d)[i].method = links[i].method
                 /\ Candidates(links, d)[i].url = links[i].url
<1>1. DOMAIN links = 1..Len(links) /\ Len(links) \in Nat
  BY LenProperties
<1>2. \A i \in 1..Len(links) : links[i] \in Link
  BY ElementOfSeq
<1> DEFINE row(i) == [url |-> links[i].url, method |-> links[i].method, source |-> links[i].source,
                      documented |-> links[i].documented, depth |-> d]
<1>3. \A i \in 1..Len(links) : row(i) \in Candidate
  BY <1>2 DEF Link, Candidate
<1>4. Candidates(links, d) = [i \in 1..Len(links) |-> row(i)]
  BY <1>1 DEF Candidates
<1>5. [i \in 1..Len(links) |-> row(i)] \in Seq(Candidate)
  <2> HIDE DEF row
  <2> QED
    BY <1>1, <1>3
<1>6. Len([i \in 1..Len(links) |-> row(i)]) = Len(links)
  BY <1>1
<1> QED
  BY <1>4, <1>5, <1>6

(* More candidates at the end of a frontier.                               *)
LEMMA MoreCandidates ==
    ASSUME NEW s \in Seq(Candidate), NEW links \in Seq(Link), NEW d \in 0..(MaxDepth + 1)
    PROVE  LET t == s \o Candidates(links, d) IN
           /\ t \in Seq(Candidate)
           /\ \A i \in DOMAIN t : t[i].depth = d \/ \E j \in DOMAIN s : t[i] = s[j]
           /\ \A key : Waits(key, s) => Waits(key, t)
           /\ \A l \in ToSet(links) : Waits(<<l.method, l.url>>, t)
<1> DEFINE c == Candidates(links, d)
           t == s \o c
<1>1. /\ c \in Seq(Candidate) /\ Len(c) = Len(links)
      /\ \A i \in 1..Len(links) : c[i].depth = d /\ c[i].method = links[i].method /\ c[i].url = links[i].url
  BY CandidatesType
<1>2. /\ Len(s) \in Nat /\ DOMAIN s = 1..Len(s)
      /\ Len(links) \in Nat /\ DOMAIN links = 1..Len(links)
  BY LenProperties
<1> HIDE DEF c
<1>3. /\ t \in Seq(Candidate) /\ Len(t) = Len(s) + Len(c)
      /\ \A i \in 1..(Len(s) + Len(c)) : t[i] = IF i <= Len(s) THEN s[i] ELSE c[i - Len(s)]
  <2>1. c \in Seq(Candidate)
    BY <1>1
  <2>2. s \o c \in Seq(Candidate) /\ Len(s \o c) = Len(s) + Len(c)
    BY <2>1
  <2>3. \A i \in 1..(Len(s) + Len(c)) : (s \o c)[i] = IF i <= Len(s) THEN s[i] ELSE c[i - Len(s)]
    BY <2>1, ConcatProperties
  <2> QED
    BY <2>2, <2>3
<1>4. DOMAIN t = 1..(Len(s) + Len(links))
  BY <1>1, <1>3, LenProperties
<1> HIDE DEF t
<1>5. ASSUME NEW i \in DOMAIN t
      PROVE  t[i].depth = d \/ \E j \in DOMAIN s : t[i] = s[j]
  <2>1. CASE i <= Len(s)
    <3>1. i \in DOMAIN s /\ t[i] = s[i]
      BY <1>1, <1>2, <1>3, <1>4, <2>1
    <3> QED
      BY <3>1
  <2>2. CASE ~(i <= Len(s))
    <3>1. i - Len(s) \in 1..Len(links) /\ t[i] = c[i - Len(s)]
      BY <1>1, <1>2, <1>3, <1>4, <2>2
    <3> QED
      BY <1>1, <3>1
  <2> QED
    BY <2>1, <2>2
<1>6. ASSUME NEW key, Waits(key, s)
      PROVE  Waits(key, t)
  <2>1. PICK i \in DOMAIN s : key = <<s[i].method, s[i].url>>
    BY <1>6 DEF Waits
  <2>2. i \in DOMAIN t /\ t[i] = s[i]
    BY <1>1, <1>2, <1>3, <1>4
  <2> QED
    BY <2>1, <2>2 DEF Waits
<1>7. ASSUME NEW l \in ToSet(links)
      PROVE  Waits(<<l.method, l.url>>, t)
  <2>1. PICK i \in 1..Len(links) : l = links[i]
    BY <1>2 DEF ToSet
  <2> DEFINE n == Len(s) + i
  <2>2. n \in 1..(Len(s) + Len(links)) /\ ~(n <= Len(s)) /\ n - Len(s) = i
    BY <1>2
  <2> HIDE DEF n
  <2>3. n \in DOMAIN t /\ t[n] = c[i]
    BY <1>1, <1>3, <1>4, <2>2
  <2> QED
    BY <1>1, <2>1, <2>3 DEF Waits
<1> QED
  BY <1>3, <1>5, <1>6, <1>7 DEF t, c

(* One candidate less.                                                     *)
LEMMA FewerCandidates ==
    ASSUME NEW s \in Seq(Candidate), s # <<>>
    PROVE  /\ Head(s) \in Candidate /\ Tail(s) \in Seq(Candidate)
           /\ \E i \in DOMAIN s : Head(s) = s[i]
           /\ \A i \in DOMAIN Tail(s) : \E j \in DOMAIN s : Tail(s)[i] = s[j]
           /\ \A key : Waits(key, s) => key = <<Head(s).method, Head(s).url>> \/ Waits(key, Tail(s))
<1>1. /\ Head(s) \in Candidate /\ Tail(s) \in Seq(Candidate)
      /\ Len(Tail(s)) = Len(s) - 1
      /\ \A i \in 1..Len(Tail(s)) : Tail(s)[i] = s[i + 1]
  BY HeadTailProperties
<1>2. Len(s) \in Nat /\ DOMAIN s = 1..Len(s) /\ Len(s) > 0 /\ Head(s) = s[1]
  BY LenProperties, EmptySeq
<1>3. DOMAIN Tail(s) = 1..(Len(s) - 1)
  BY <1>1, LenProperties
<1>4. ASSUME NEW i \in DOMAIN Tail(s)
      PROVE  \E j \in DOMAIN s : Tail(s)[i] = s[j]
  <2>1. i + 1 \in DOMAIN s /\ Tail(s)[i] = s[i + 1]
    BY <1>1, <1>2, <1>3
  <2> QED
    BY <2>1
<1>5. ASSUME NEW key, Waits(key, s), key # <<Head(s).method, Head(s).url>>
      PROVE  Waits(key, Tail(s))
  <2>1. PICK i \in DOMAIN s : key = <<s[i].method, s[i].url>>
    BY <1>5 DEF Waits
  <2>2. i # 1
    BY <1>2, <1>5, <2>1
  <2>3. i - 1 \in DOMAIN Tail(s) /\ Tail(s)[i - 1] = s[i]
    BY <1>1, <1>2, <1>3, <2>2
  <2> QED
    BY <2>1, <2>3 DEF Waits
<1>6. 1 \in DOMAIN s
  BY <1>2
<1> QED
  BY <1>1, <1>2, <1>4, <1>5, <1>6

(* Counters that only grow.                                                *)
LEMMA BudgetStays ==
    ASSUME pagesFetched \in Nat, pagesFetched' \in Nat, pagesFetched <= pagesFetched', OverBudget
    PROVE  OverBudget'
BY ConstantTypes DEF OverBudget, PageBudget

(* What a goroutine relies on survives what the others do.                 *)
LEMMA FetchFrame ==
    ASSUME CrawlInv,
           UNCHANGED <<visited, task, requests>>, contributed \subseteq contributed',
           OverBudget => OverBudget', cancelled => cancelled',
           \/ main'.pc = main.pc /\ main'.depth = main.depth
           \/ \A k \in DOMAIN task : task[k].pc \in {"answered", "finished"}
    PROVE  FetchInv'
<1>1. \A k \in DOMAIN task : TaskInv(k)
  BY DEF CrawlInv, FetchInv
<1>2. ASSUME NEW k \in DOMAIN task
      PROVE  TaskInv(k)'
  <2>1. TaskInv(k)
    BY <1>1
  <2>2. task'[k].pc \notin {"answered", "finished"} => main'.pc = "dispatch" /\ task'[k].cand.depth = main'.depth
    BY <2>1 DEF TaskInv
  <2>3. k = <<task'[k].cand.method, task'[k].cand.url>>
    BY <2>1 DEF TaskInv
  <2>4. k[1] = "GET" =>
          /\ task'[k].pc \in {"queued", "slotted"} => requests'[k[2]] = 0
          /\ task'[k].pc \in {"fetching", "answered"} => requests'[k[2]] = 1
          /\ task'[k].pc = "finished" => \/ requests'[k[2]] = 1
                                         \/ requests'[k[2]] = 0 /\ (cancelled' \/ OverBudget')
    BY <2>1 DEF TaskInv
  <2>5. k[1] = "POST" =>
          /\ task'[k].pc \in {"queued", "slotted", "finished"}
          /\ task'[k].pc = "finished" => cancelled' \/ \E c \in contributed' : c.key = <<"POST", Template[k[2]]>>
    BY <2>1 DEF TaskInv
  <2> QED
    BY <2>2, <2>3, <2>4, <2>5 DEF TaskInv
<1>3. /\ \A k \in visited' \ DOMAIN task' : k[1] = "GET" /\ requests'[k[2]] = 1
      /\ \A u \in Url : <<"GET", u>> \notin visited' => requests'[u] = 0
  BY DEF CrawlInv, FetchInv
<1> QED
  BY <1>2, <1>3 DEF FetchInv

(* What was found stays scheduled.                                         *)
LEMMA CompleteFrame ==
    ASSUME CrawlInv,
           OverBudget => OverBudget', Full => Full',
           ~OverBudget' /\ ~Full' => \A key : key[2] \in Scope /\ Scheduled(key) => Scheduled(key)',
           \A k \in DOMAIN task' : task'[k].pc = "answered" =>
                k \in DOMAIN task /\ task[k].pc = "answered" /\ task'[k].cand = task[k].cand
    PROVE  CompleteInv'
<1> SUFFICES ASSUME ~OverBudget', ~Full' PROVE FoundScheduled'
  BY DEF CompleteInv
<1>1. FoundScheduled
  BY DEF CrawlInv, CompleteInv
<1>2. \A u \in ToSet(Seeds) \cap Scope : Scheduled(<<"GET", u>>)'
  BY <1>1 DEF FoundScheduled
<1>3. ASSUME NEW k \in DOMAIN task', task'[k].pc = "answered" /\ task'[k].cand.depth < MaxDepth,
             NEW l \in ToSet(Content[k[2]].links), l.url \in Scope
      PROVE  Scheduled(<<l.method, l.url>>)'
  <2>1. k \in DOMAIN task /\ task[k].pc = "answered" /\ task[k].cand.depth < MaxDepth
    BY <1>3
  <2>2. Scheduled(<<l.method, l.url>>)
    BY <1>1, <1>3, <2>1 DEF FoundScheduled
  <2> DEFINE key == <<l.method, l.url>>
  <2>3. key[2] = l.url
    OBVIOUS
  <2> HIDE DEF key
  <2>4. Scheduled(key)
    BY <2>2 DEF key
  <2>5. Scheduled(key)'
    BY <1>3, <2>3, <2>4
  <2> QED
    BY <2>5 DEF key
<1> QED
  BY <1>2, <1>3 DEF FoundScheduled

LEMMA ScheduledStays ==
    ASSUME visited \subseteq visited',
           \A key : key[2] \in Scope /\ Waits(key, frontier) =>
              key \in visited' \/ Waits(key, frontier') \/ Waits(key, nextFrontier'),
           \A key : Waits(key, nextFrontier) => Waits(key, frontier') \/ Waits(key, nextFrontier')
    PROVE  \A key : key[2] \in Scope /\ Scheduled(key) => Scheduled(key)'
<1> SUFFICES ASSUME NEW key, key[2] \in Scope, Scheduled(key)
             PROVE  key \in visited' \/ Waits(key, frontier') \/ Waits(key, nextFrontier')
  BY DEF Scheduled, Waits
<1> QED
  BY DEF Scheduled

LEMMA SlotsKept ==
    ASSUME CrawlInv, UNCHANGED <<task, sem>>
    PROVE  SlotsCounted'
BY DEF CrawlInv, SlotsCounted, Slotted

(* The GET of an auxiliary source.                                         *)
LEMMA GetStep ==
    ASSUME CrawlInv, NEW u \in Url, main.pc \in Auxiliary, main'.pc \in Auxiliary,
           Fresh(u), Get(u), UNCHANGED <<task, cancelled>>
    PROVE  /\ visited' \subseteq Key /\ visited \subseteq visited' /\ DOMAIN task' \subseteq visited'
           /\ requests' \in [Url -> Nat] /\ sent' \in Nat /\ auxiliary' \in Nat
           /\ pagesFetched' \in Nat /\ pagesFetched <= pagesFetched'
           /\ DOMAIN task' = {}
           /\ FetchInv' /\ BudgetInv' /\ (OverBudget => OverBudget')
<1>1. DOMAIN task = {} /\ task' = task
  BY DEF CrawlInv, DepthInv
<1>2. /\ pagesFetched \in Nat /\ sent \in Nat /\ auxiliary \in Nat /\ requests \in [Url -> Nat]
      /\ visited \subseteq Key
  BY DEF CrawlInv, ShapeInv
<1>3. /\ visited' = visited \cup {<<"GET", u>>} /\ <<"GET", u>> \notin visited
      /\ requests' = [requests EXCEPT ![u] = @ + 1]
      /\ sent' = sent + 1 /\ auxiliary' = auxiliary + 1 /\ pagesFetched' = pagesFetched + 1
  BY DEF Get, Mark, Fresh
<1>4. requests[u] = 0
  BY <1>3 DEF CrawlInv, FetchInv
<1>5. /\ visited' \subseteq Key /\ visited \subseteq visited' /\ DOMAIN task' \subseteq visited'
      /\ requests' \in [Url -> Nat] /\ sent' \in Nat /\ auxiliary' \in Nat
      /\ pagesFetched' \in Nat /\ pagesFetched <= pagesFetched' /\ DOMAIN task' = {}
  BY <1>1, <1>2, <1>3 DEF Key
<1>6. FetchInv'
  <2>1. \A k \in visited : k[1] = "GET" /\ requests[k[2]] = 1
    BY <1>1 DEF CrawlInv, FetchInv
  <2>2. requests'[u] = 1 /\ \A v \in Url : v # u => requests'[v] = requests[v]
    BY <1>2, <1>3, <1>4
  <2>3. ASSUME NEW k \in visited' \ DOMAIN task'
        PROVE  k[1] = "GET" /\ requests'[k[2]] = 1
    <3>1. CASE k = <<"GET", u>>
      BY <2>2, <3>1
    <3>2. CASE k # <<"GET", u>>
      <4>1. k \in visited /\ k[1] = "GET" /\ requests[k[2]] = 1
        BY <1>3, <2>1, <3>2
      <4>2. k[2] \in Url /\ k = <<"GET", k[2]>>
        BY <1>2, <4>1 DEF Key
      <4>3. k[2] # u
        BY <3>2, <4>2
      <4> QED
        BY <2>2, <4>1, <4>2, <4>3
    <3> QED
      BY <3>1, <3>2
  <2>4. \A v \in Url : <<"GET", v>> \notin visited' => requests'[v] = 0
    <3> SUFFICES ASSUME NEW v \in Url, <<"GET", v>> \notin visited' PROVE requests'[v] = 0
      OBVIOUS
    <3>1. v # u /\ <<"GET", v>> \notin visited
      BY <1>3
    <3> QED
      BY <2>2, <3>1 DEF CrawlInv, FetchInv
  <2>5. \A k \in DOMAIN task' : TaskInv(k)'
    BY <1>5
  <2> QED
    BY <2>3, <2>4, <2>5 DEF FetchInv
<1>7. BudgetInv'
  <2>1. sent = auxiliary /\ sent <= pagesFetched
    BY DEF CrawlInv, BudgetInv
  <2>2. sent' = auxiliary' /\ sent' <= pagesFetched'
    BY <1>2, <1>3, <2>1
  <2>3. ~(sent' > auxiliary')
    BY <1>5, <2>2
  <2> QED
    BY <2>2, <2>3 DEF BudgetInv, LinksWithinBudget
<1>8. OverBudget => OverBudget'
  BY <1>2, <1>5, BudgetStays
<1> QED
  BY <1>5, <1>6, <1>7, <1>8

(* Counters as they were.                                                  *)
LEMMA BudgetKept ==
    ASSUME CrawlInv, UNCHANGED <<sent, auxiliary, pagesFetched>>,
           main'.pc \in Auxiliary => main.pc \in Auxiliary
    PROVE  BudgetInv' /\ (OverBudget => OverBudget')
<1>1. BudgetInv
  BY DEF CrawlInv
<1>2. LinksWithinBudget'
  BY <1>1 DEF BudgetInv, LinksWithinBudget, PageBudget
<1> QED
  BY <1>1, <1>2 DEF BudgetInv, OverBudget, PageBudget

-----------------------------------------------------------------------------
(* The steps of the main goroutine.                                        *)

MainType == [pc: Auxiliary \cup {"level", "dispatch", "done"},
             queue: Seq(Url), sitemaps: Seq(Url),
             fetched: Nat, urls: Nat, depth: 0..(MaxDepth + 1)]

(* A source takes its next document or leaves its queue, and the frontier  *)
(* keeps what it has.                                                      *)
LEMMA AuxiliaryStep ==
    ASSUME CrawlInv, main.pc \in Auxiliary, main' \in MainType, main'.depth = main.depth,
           main'.pc \in Auxiliary \cup {"level"},
           UNCHANGED <<nextFrontier, task, sem, cancelled>>,
           frontier' \in Seq(Candidate),
           \A i \in DOMAIN frontier' : frontier'[i].depth = 0 \/ \E j \in DOMAIN frontier : frontier'[i] = frontier[j],
           \A key : Waits(key, frontier) => Waits(key, frontier'),
           visited' \subseteq Key, visited \subseteq visited', DOMAIN task' \subseteq visited',
           requests' \in [Url -> Nat], sent' \in Nat, auxiliary' \in Nat, pagesFetched' \in Nat,
           FetchInv', BudgetInv', OverBudget => OverBudget',
           acc' \in Table, Merged(acc', contributed'), contributed' \subseteq Contribution,
           Full => Full'
    PROVE  CrawlInv'
<1>1. ShapeInv /\ DepthInv
  BY DEF CrawlInv
<1>2. DOMAIN task = {} /\ main.depth = 0 /\ nextFrontier = <<>>
  BY <1>1 DEF DepthInv, Auxiliary
<1>3. ShapeInv'
  BY <1>1, <1>2 DEF ShapeInv, MainType
<1>4. SlotsCounted'
  BY SlotsKept
<1>5. Merged(acc, contributed)'
  BY DEF Merged, Merges, Mine, Admits
<1>6. DepthInv'
  <2>1. main'.pc # "dispatch" /\ main'.pc # "done" /\ DOMAIN task' = {} /\ main'.depth = 0 /\ nextFrontier' = <<>>
    BY <1>2 DEF Auxiliary
  <2>2. MaxDepth \in Nat
    BY ConstantTypes
  <2>3. \A i \in DOMAIN frontier' : frontier'[i].depth = main'.depth /\ main'.depth <= MaxDepth
    BY <1>1, <1>2, <2>1, <2>2 DEF DepthInv
  <2>4. \A i \in DOMAIN nextFrontier' :
           nextFrontier'[i].depth = main'.depth + 1 /\ main'.depth < MaxDepth
    BY <2>1
  <2> QED
    BY <2>1, <2>3, <2>4 DEF DepthInv
<1>7. \A key : key[2] \in Scope /\ Scheduled(key) => Scheduled(key)'
  BY ScheduledStays
<1>8. CompleteInv'
  <2>1. \A k \in DOMAIN task' : task'[k].pc = "answered" =>
           k \in DOMAIN task /\ task[k].pc = "answered" /\ task'[k].cand = task[k].cand
    BY <1>2
  <2> QED
    BY <1>7, <2>1, CompleteFrame
<1> QED
  BY <1>3, <1>4, <1>5, <1>6, <1>8 DEF CrawlInv

LEMMA QueueType ==
    ASSUME CrawlInv
    PROVE  /\ main \in MainType /\ main.queue \in Seq(Url) /\ main.sitemaps \in Seq(Url)
           /\ main.fetched \in Nat /\ main.urls \in Nat /\ main.depth \in 0..(MaxDepth + 1)
           /\ frontier \in Seq(Candidate) /\ nextFrontier \in Seq(Candidate)
           /\ main.queue # <<>> => Head(main.queue) \in Url /\ Tail(main.queue) \in Seq(Url)
BY HeadTailProperties DEF CrawlInv, ShapeInv, MainType

LEMMA SkipDocumentKeeps ==
    ASSUME CrawlInv, SkipDocument
    PROVE  CrawlInv'
<1>1. main.pc \in Auxiliary /\ main.queue # <<>> /\ main' = [main EXCEPT !.queue = Tail(@)]
  BY DEF SkipDocument, Auxiliary
<1>2. main' \in MainType /\ main'.pc = main.pc /\ main'.depth = main.depth
  BY <1>1, QueueType DEF MainType
<1>3. UNCHANGED <<frontier, nextFrontier, visited, acc, pagesFetched, task, sem,
                  cancelled, requests, sent, auxiliary, contributed>>
  BY DEF SkipDocument
<1>4. FetchInv'
  <2>1. OverBudget => OverBudget'
    BY <1>3 DEF OverBudget, PageBudget
  <2> QED
    BY <1>2, <1>3, <2>1, FetchFrame
<1>5. BudgetInv' /\ (OverBudget => OverBudget')
  BY <1>1, <1>2, <1>3, BudgetKept
<1>6. /\ acc' \in Table /\ Merged(acc', contributed') /\ contributed' \subseteq Contribution
      /\ Full => Full'
  BY <1>3, NoContribution
<1>7. /\ visited' \subseteq Key /\ visited \subseteq visited' /\ DOMAIN task' \subseteq visited'
      /\ requests' \in [Url -> Nat] /\ sent' \in Nat /\ auxiliary' \in Nat /\ pagesFetched' \in Nat
      /\ frontier' \in Seq(Candidate)
  BY <1>3 DEF CrawlInv, ShapeInv
<1> QED
  BY <1>1, <1>2, <1>3, <1>4, <1>5, <1>6, <1>7, AuxiliaryStep

LEMMA NextSourceKeeps ==
    ASSUME CrawlInv, NextSource
    PROVE  CrawlInv'
<1>1. main.pc \in Auxiliary
  BY DEF NextSource, Auxiliary
<1>2. Sitemaps \in Seq(Url) /\ ApiDocs \in Seq(Url) /\ main.sitemaps \o Sitemaps \in Seq(Url)
  BY ConstantTypes, QueueType
<1>3. /\ main' \in MainType /\ main'.depth = main.depth
      /\ main'.pc \in Auxiliary \cup {"level"}
  <2>1. CASE main.pc = "robots"
    <3>1. main' = [main EXCEPT !.pc = "sitemaps", !.queue = main.sitemaps \o Sitemaps]
      BY <2>1 DEF NextSource
    <3> QED
      BY <1>2, <3>1, QueueType DEF MainType, Auxiliary
  <2>2. CASE main.pc = "sitemaps"
    <3>1. main' = [main EXCEPT !.pc = "docs", !.queue = ApiDocs]
      BY <2>2 DEF NextSource
    <3> QED
      BY <1>2, <3>1, QueueType DEF MainType, Auxiliary
  <2>3. CASE main.pc = "docs"
    <3>1. main' = [main EXCEPT !.pc = "level"]
      BY <2>3 DEF NextSource
    <3> QED
      BY <3>1, QueueType DEF MainType, Auxiliary
  <2> QED
    BY <1>1, <2>1, <2>2, <2>3 DEF Auxiliary
<1>4. UNCHANGED <<frontier, nextFrontier, visited, acc, pagesFetched, task, sem,
                  cancelled, requests, sent, auxiliary, contributed>>
  BY DEF NextSource
<1>5. BudgetInv' /\ (OverBudget => OverBudget')
  BY <1>1, <1>4, BudgetKept
<1>6. FetchInv'
  <2>1. DOMAIN task = {}
    BY <1>1 DEF CrawlInv, DepthInv
  <2> QED
    BY <1>4, <1>5, <2>1, FetchFrame
<1>7. /\ acc' \in Table /\ Merged(acc', contributed') /\ contributed' \subseteq Contribution
      /\ Full => Full'
  BY <1>4, NoContribution
<1>8. /\ visited' \subseteq Key /\ visited \subseteq visited' /\ DOMAIN task' \subseteq visited'
      /\ requests' \in [Url -> Nat] /\ sent' \in Nat /\ auxiliary' \in Nat /\ pagesFetched' \in Nat
      /\ frontier' \in Seq(Candidate)
  BY <1>4 DEF CrawlInv, ShapeInv
<1> QED
  BY <1>1, <1>3, <1>4, <1>5, <1>6, <1>7, <1>8, AuxiliaryStep

LEMMA MainQueued ==
    ASSUME main \in MainType, NEW q \in Seq(Url), NEW n \in Nat
    PROVE  LET m == [main EXCEPT !.queue = q, !.fetched = @ + 1, !.urls = @ + n]
               f == [main EXCEPT !.queue = q, !.fetched = @ + 1]
           IN /\ m \in MainType /\ m.pc = main.pc /\ m.depth = main.depth
              /\ f \in MainType /\ f.pc = main.pc /\ f.depth = main.depth
<1>1. PICK x, y : x = main.fetched + 1 /\ y = main.urls + n
  OBVIOUS
<1>2. x \in Nat /\ y \in Nat
  BY <1>1 DEF MainType
<1>3. /\ [main EXCEPT !.queue = q, !.fetched = @ + 1, !.urls = @ + n]
           = [main EXCEPT !.queue = q, !.fetched = x, !.urls = y]
      /\ [main EXCEPT !.queue = q, !.fetched = @ + 1] = [main EXCEPT !.queue = q, !.fetched = x]
  BY <1>1 DEF MainType
<1> DEFINE m == [main EXCEPT !.queue = q, !.fetched = x, !.urls = y]
           f == [main EXCEPT !.queue = q, !.fetched = x]
<1>4. m \in MainType /\ m.pc = main.pc /\ m.depth = main.depth
  BY <1>2 DEF MainType
<1>5. f \in MainType /\ f.pc = main.pc /\ f.depth = main.depth
  BY <1>2 DEF MainType
<1> QED
  BY <1>3, <1>4, <1>5

LEMMA FirstOfType ==
    ASSUME NEW S, NEW s \in Seq(S), NEW n \in Nat
    PROVE  FirstOf(s, n) \in Seq(S)
<1> DEFINE m == IF n < Len(s) THEN n ELSE Len(s)
<1>1. Len(s) \in Nat /\ m \in Nat /\ m <= Len(s)
  BY LenProperties
<1> HIDE DEF m
<1>2. \A i \in 1..m : s[i] \in S
  BY <1>1, ElementOfSeq
<1>3. SubSeq(s, 1, m) \in Seq(S)
  BY <1>1, <1>2, SubSeqProperties
<1> QED
  BY <1>3 DEF FirstOf, m

LEMMA FetchRobotsKeeps ==
    ASSUME CrawlInv, NEW answer \in Answer, FetchRobots(answer)
    PROVE  CrawlInv'
<1> DEFINE u == Head(main.queue)
<1>1. /\ main.pc = "robots" /\ main.queue # <<>>
      /\ Fresh(u) /\ Get(u)
      /\ UNCHANGED <<nextFrontier, task, sem, cancelled>>
  BY DEF FetchRobots, AuxUnchanged
<1>2. u \in Url /\ Tail(main.queue) \in Seq(Url)
  BY <1>1, QueueType
<1>3. Content[u].links \in Seq(Link) /\ Content[u].sitemaps \in Seq(Url)
  BY <1>2, ConstantTypes
<1>4. /\ main' \in MainType /\ main'.pc = main.pc /\ main'.depth = main.depth
  <2>1. CASE answer = "ok"
    <3>1. main' = [main EXCEPT !.queue = Tail(@), !.sitemaps = @ \o Content[u].sitemaps]
      BY <2>1 DEF FetchRobots
    <3>2. main.sitemaps \o Content[u].sitemaps \in Seq(Url)
      BY <1>3, QueueType
    <3> QED
      BY <1>2, <3>1, <3>2, QueueType DEF MainType
  <2>2. CASE answer # "ok"
    <3>1. main' = [main EXCEPT !.queue = Tail(@)]
      BY <2>2 DEF FetchRobots
    <3> QED
      BY <1>2, <3>1, QueueType DEF MainType
  <2> QED
    BY <2>1, <2>2
<1>5. /\ frontier' \in Seq(Candidate)
      /\ \A i \in DOMAIN frontier' : frontier'[i].depth = 0 \/ \E j \in DOMAIN frontier : frontier'[i] = frontier[j]
      /\ \A key : Waits(key, frontier) => Waits(key, frontier')
  <2>1. CASE answer = "ok"
    <3>1. frontier' = frontier \o Candidates(Content[u].links, 0)
      BY <2>1 DEF FetchRobots
    <3>2. frontier \in Seq(Candidate) /\ 0 \in 0..(MaxDepth + 1)
      BY QueueType, ConstantTypes
    <3> QED
      BY <1>3, <3>1, <3>2, MoreCandidates
  <2>2. CASE answer # "ok"
    BY <2>2, QueueType DEF FetchRobots
  <2> QED
    BY <2>1, <2>2
<1> DEFINE new == IF answer = "fail" THEN <<>> ELSE <<Document(u, "robots", FALSE)>>
<1>6. new \in Seq(Contribution)
  <2>1. PICK d : d = Document(u, "robots", FALSE)
    OBVIOUS
  <2>2. d \in Contribution
    BY <1>2, <2>1, ContributionTypes DEF Source
  <2> HIDE DEF u
  <2> QED
    BY <2>1, <2>2, Singleton
<1>7. Contribute(new)
  BY DEF FetchRobots
<1>8. /\ acc' \in Table /\ Merged(acc', contributed') /\ contributed' \subseteq Contribution
      /\ Full => Full'
  <2> HIDE DEF new
  <2> QED
    BY <1>6, <1>7, ContributeStep
<1>9. main.pc \in Auxiliary /\ main'.pc \in Auxiliary
  BY <1>1, <1>4 DEF Auxiliary
<1>10. /\ visited' \subseteq Key /\ visited \subseteq visited' /\ DOMAIN task' \subseteq visited'
       /\ requests' \in [Url -> Nat] /\ sent' \in Nat /\ auxiliary' \in Nat
       /\ pagesFetched' \in Nat /\ FetchInv' /\ BudgetInv' /\ (OverBudget => OverBudget')
  BY <1>1, <1>2, <1>9, GetStep
<1> HIDE DEF u, new
<1> QED
  BY <1>1, <1>4, <1>5, <1>8, <1>9, <1>10, AuxiliaryStep

LEMMA FetchSitemapKeeps ==
    ASSUME CrawlInv, NEW answer \in Answer, FetchSitemap(answer)
    PROVE  CrawlInv'
<1> DEFINE u == Head(main.queue)
           rest == Tail(main.queue)
           children == FirstOf(Content[u].sitemaps, Room(main.fetched + 1 + Len(rest), MaxSitemaps))
           links == FirstOf(Content[u].links, Room(main.urls, AtLeastOne(MaxSitemapURLs)))
<1>1. /\ main.pc = "sitemaps" /\ main.queue # <<>>
      /\ Fresh(u) /\ Get(u)
      /\ UNCHANGED <<nextFrontier, task, sem, cancelled>>
  BY DEF FetchSitemap, AuxUnchanged
<1>2. u \in Url /\ rest \in Seq(Url)
  BY <1>1, QueueType
<1>3. Content[u].links \in Seq(Link) /\ Content[u].sitemaps \in Seq(Url)
  BY <1>2, ConstantTypes
<1>4. Room(main.fetched + 1 + Len(rest), MaxSitemaps) \in Nat
      /\ Room(main.urls, AtLeastOne(MaxSitemapURLs)) \in Nat
  <2>1. main.fetched \in Nat /\ main.urls \in Nat /\ Len(rest) \in Nat
    BY <1>2, QueueType
  <2>2. MaxSitemaps \in Nat /\ AtLeastOne(MaxSitemapURLs) \in Nat
    BY CrawlerAssumption, AtLeastOneType
  <2> HIDE DEF rest
  <2> QED
    BY <2>1, <2>2 DEF Room
<1>5. children \in Seq(Url)
  <2>1. PICK s : s = Content[u].sitemaps
    OBVIOUS
  <2>2. PICK n \in Nat : n = Room(main.fetched + 1 + Len(rest), MaxSitemaps)
    BY <1>4
  <2>3. s \in Seq(Url)
    BY <1>3, <2>1
  <2>4. FirstOf(s, n) \in Seq(Url)
    BY <2>2, <2>3, FirstOfType
  <2> QED
    BY <2>1, <2>2, <2>4
<1>6. links \in Seq(Link)
  <2>1. PICK s : s = Content[u].links
    OBVIOUS
  <2>2. PICK n \in Nat : n = Room(main.urls, AtLeastOne(MaxSitemapURLs))
    BY <1>4
  <2>3. s \in Seq(Link)
    BY <1>3, <2>1
  <2>4. FirstOf(s, n) \in Seq(Link)
    BY <2>2, <2>3, FirstOfType
  <2> QED
    BY <2>1, <2>2, <2>4
<1>7. /\ answer = "ok" => /\ main' = [main EXCEPT !.queue = rest \o children, !.fetched = @ + 1,
                                                 !.urls = @ + Len(links)]
                          /\ frontier' = frontier \o Candidates(links, 0)
                          /\ Contribute(<<Document(u, "sitemap", FALSE)>>)
      /\ answer # "ok" => /\ main' = [main EXCEPT !.queue = rest, !.fetched = @ + 1]
                          /\ UNCHANGED <<frontier, acc, contributed>>
  BY DEF FetchSitemap
<1> HIDE DEF u, rest, children, links
<1>8. /\ main' \in MainType /\ main'.pc = main.pc /\ main'.depth = main.depth
  <2>1. CASE answer = "ok"
    <3>1. PICK q : q = rest \o children
      OBVIOUS
    <3>2. PICK n : n = Len(links)
      OBVIOUS
    <3>3. q \in Seq(Url)
      BY <1>2, <1>5, <3>1
    <3>4. n \in Nat
      BY <1>6, <3>2
    <3>5. main' = [main EXCEPT !.queue = q, !.fetched = @ + 1, !.urls = @ + n]
      BY <1>7, <2>1, <3>1, <3>2
    <3> QED
      BY <3>3, <3>4, <3>5, QueueType, MainQueued
  <2>2. CASE answer # "ok"
    <3>1. main' = [main EXCEPT !.queue = rest, !.fetched = @ + 1]
      BY <1>7, <2>2
    <3> QED
      BY <1>2, <3>1, QueueType, MainQueued
  <2> QED
    BY <2>1, <2>2
<1>9. /\ frontier' \in Seq(Candidate)
      /\ \A i \in DOMAIN frontier' : frontier'[i].depth = 0 \/ \E j \in DOMAIN frontier : frontier'[i] = frontier[j]
      /\ \A key : Waits(key, frontier) => Waits(key, frontier')
  <2>1. CASE answer = "ok"
    <3>1. frontier \in Seq(Candidate) /\ 0 \in 0..(MaxDepth + 1)
      BY QueueType, ConstantTypes
    <3>2. frontier' = frontier \o Candidates(links, 0)
      BY <1>7, <2>1
    <3> QED
      BY <1>6, <3>1, <3>2, MoreCandidates
  <2>2. CASE answer # "ok"
    BY <1>7, <2>2, QueueType
  <2> QED
    BY <2>1, <2>2
<1>10. /\ acc' \in Table /\ Merged(acc', contributed') /\ contributed' \subseteq Contribution
       /\ Full => Full'
  <2>1. CASE answer = "ok"
    <3>1. PICK d : d = Document(u, "sitemap", FALSE)
      OBVIOUS
    <3>2. d \in Contribution
      BY <1>2, <3>1, ContributionTypes DEF Source
    <3>3. <<d>> \in Seq(Contribution) /\ Contribute(<<d>>)
      BY <1>7, <2>1, <3>1, <3>2, Singleton
    <3> QED
      BY <3>3, ContributeStep
  <2>2. CASE answer # "ok"
    BY <1>7, <2>2, NoContribution
  <2> QED
    BY <2>1, <2>2
<1>11. main.pc \in Auxiliary /\ main'.pc \in Auxiliary
  BY <1>1, <1>8 DEF Auxiliary
<1>12. /\ visited' \subseteq Key /\ visited \subseteq visited' /\ DOMAIN task' \subseteq visited'
       /\ requests' \in [Url -> Nat] /\ sent' \in Nat /\ auxiliary' \in Nat
       /\ pagesFetched' \in Nat /\ FetchInv' /\ BudgetInv' /\ (OverBudget => OverBudget')
  BY <1>1, <1>2, <1>11, GetStep
<1> QED
  BY <1>1, <1>8, <1>9, <1>10, <1>11, <1>12, AuxiliaryStep

LEMMA FetchApiDocKeeps ==
    ASSUME CrawlInv, NEW answer \in Answer, FetchApiDoc(answer)
    PROVE  CrawlInv'
<1> DEFINE u == Head(main.queue)
           operations == Candidates(Allowed(Content[u].links), 0)
           records == [i \in DOMAIN operations |-> UnfetchedResult(operations[i])]
           new == <<Document(u, "openapi", TRUE)>> \o records
<1>1. /\ main.pc = "docs" /\ main.queue # <<>>
      /\ Fresh(u) /\ Get(u)
      /\ main' = [main EXCEPT !.queue = Tail(@)]
      /\ UNCHANGED <<frontier, nextFrontier, task, sem, cancelled>>
  BY DEF FetchApiDoc, AuxUnchanged
<1>2. u \in Url /\ Tail(main.queue) \in Seq(Url)
  BY <1>1, QueueType
<1>3. Content[u].links \in Seq(Link)
  BY <1>2, ConstantTypes
<1>4. operations \in Seq(Candidate)
  <2>1. PICK ls : ls = Allowed(Content[u].links)
    OBVIOUS
  <2>2. ls \in Seq(Link)
    BY <1>3, <2>1, AllowedType
  <2>3. 0 \in 0..(MaxDepth + 1)
    BY ConstantTypes
  <2>4. Candidates(ls, 0) \in Seq(Candidate)
    BY <2>2, <2>3, CandidatesType
  <2> QED
    BY <2>1, <2>4
<1>5. \/ Contribute(new)
      \/ UNCHANGED <<acc, contributed>>
  BY DEF FetchApiDoc
<1> HIDE DEF operations
<1>6. records \in Seq(Contribution)
  <2>1. DOMAIN operations = 1..Len(operations) /\ Len(operations) \in Nat
    BY <1>4, LenProperties
  <2>2. \A i \in 1..Len(operations) : operations[i] \in Candidate
    BY <1>4, ElementOfSeq
  <2>3. \A i \in 1..Len(operations) : UnfetchedResult(operations[i]) \in Contribution
    BY <2>2, ContributionTypes
  <2> QED
    BY <2>1, <2>3
<1> HIDE DEF records
<1>7. new \in Seq(Contribution)
  <2>1. PICK d : d = Document(u, "openapi", TRUE)
    OBVIOUS
  <2>2. d \in Contribution
    BY <1>2, <2>1, ContributionTypes DEF Source
  <2>3. <<d>> \in Seq(Contribution)
    BY <2>2, Singleton
  <2>4. <<d>> \o records \in Seq(Contribution)
    BY <1>6, <2>3, ConcatProperties
  <2> QED
    BY <2>1, <2>4
<1>8. /\ acc' \in Table /\ Merged(acc', contributed') /\ contributed' \subseteq Contribution
      /\ Full => Full'
  <2> HIDE DEF new
  <2> QED
    BY <1>5, <1>7, ContributeStep, NoContribution
<1> HIDE DEF u, new
<1>9. main' \in MainType /\ main'.pc = main.pc /\ main'.depth = main.depth
  BY <1>1, <1>2, QueueType DEF MainType
<1>10. main.pc \in Auxiliary /\ main'.pc \in Auxiliary
  BY <1>1, <1>9 DEF Auxiliary
<1>11. /\ visited' \subseteq Key /\ visited \subseteq visited' /\ DOMAIN task' \subseteq visited'
       /\ requests' \in [Url -> Nat] /\ sent' \in Nat /\ auxiliary' \in Nat
       /\ pagesFetched' \in Nat /\ FetchInv' /\ BudgetInv' /\ (OverBudget => OverBudget')
  BY <1>1, <1>2, <1>10, GetStep
<1>12. frontier' \in Seq(Candidate)
  BY <1>1, QueueType
<1> QED
  BY <1>1, <1>8, <1>9, <1>10, <1>11, <1>12, AuxiliaryStep

LEMMA StartLevelKeeps ==
    ASSUME CrawlInv, StartLevel
    PROVE  CrawlInv'
<1>1. main.pc = "level" /\ main'.pc \in {"done", "dispatch"}
      /\ main' \in MainType /\ main'.depth = main.depth
  <2>1. PICK pc \in {"done", "dispatch"} : main' = [main EXCEPT !.pc = pc]
    BY DEF StartLevel
  <2> QED
    BY <2>1, QueueType DEF MainType, StartLevel
<1>2. UNCHANGED <<frontier, nextFrontier, visited, acc, pagesFetched, task, sem,
                  cancelled, requests, sent, auxiliary, contributed>>
  BY DEF StartLevel
<1>3. /\ main'.pc = "done" => main.depth > MaxDepth \/ frontier = <<>> \/ cancelled \/ OverBudget \/ Full
      /\ main'.pc = "dispatch" => ~(main.depth > MaxDepth)
  <2>1. CASE main.depth > MaxDepth \/ frontier = <<>> \/ cancelled \/ OverBudget \/ Full
    <3>1. main'.pc = "done"
      BY <2>1, QueueType DEF StartLevel, MainType
    <3> QED
      BY <2>1, <3>1
  <2>2. CASE ~(main.depth > MaxDepth \/ frontier = <<>> \/ cancelled \/ OverBudget \/ Full)
    <3>1. main'.pc = "dispatch"
      BY <2>2, QueueType DEF StartLevel, MainType
    <3> QED
      BY <2>2, <3>1
  <2> QED
    BY <2>1, <2>2
<1>4. ShapeInv'
  BY <1>1, <1>2 DEF CrawlInv, ShapeInv, MainType
<1>5. SlotsCounted' /\ BudgetInv' /\ (OverBudget => OverBudget')
  BY <1>1, <1>2, SlotsKept, BudgetKept DEF Auxiliary
<1>6. Merged(acc, contributed)' /\ (Full => Full')
  BY <1>2 DEF CrawlInv, Merged, Merges, Mine, Admits, Full
<1>7. \A k \in DOMAIN task : task[k].pc \in {"answered", "finished"}
  BY <1>1 DEF CrawlInv, FetchInv, TaskInv
<1>8. FetchInv'
  BY <1>2, <1>5, <1>7, FetchFrame
<1>9. DepthInv'
  <2>1. DepthInv /\ main.depth \in 0..(MaxDepth + 1) /\ MaxDepth \in Nat
    BY QueueType, ConstantTypes DEF CrawlInv
  <2>2. nextFrontier = <<>>
    BY <1>1, <2>1 DEF DepthInv
  <2>3. main'.pc = "done" => main'.depth > MaxDepth \/ frontier' = <<>> \/ cancelled' \/ OverBudget' \/ Full'
    BY <1>1, <1>2, <1>3, <1>5, <1>6
  <2>4. main'.pc = "dispatch" => main'.depth <= MaxDepth
    BY <1>1, <1>3, <2>1
  <2>5. \A i \in DOMAIN frontier' : frontier'[i].depth = main'.depth /\ main'.depth <= MaxDepth
    BY <1>1, <1>2, <2>1 DEF DepthInv
  <2>6. \A i \in DOMAIN nextFrontier' : nextFrontier'[i].depth = main'.depth + 1 /\ main'.depth < MaxDepth
    BY <1>2, <2>2
  <2> QED
    BY <1>1, <1>2, <2>2, <2>3, <2>4, <2>5, <2>6 DEF DepthInv, Auxiliary
<1>10. CompleteInv'
  <2>1. \A key : key[2] \in Scope /\ Scheduled(key) => Scheduled(key)'
    BY <1>2, ScheduledStays
  <2> QED
    BY <1>2, <1>5, <1>6, <2>1, CompleteFrame
<1> QED
  BY <1>4, <1>5, <1>6, <1>8, <1>9, <1>10 DEF CrawlInv

LEMMA JoinLevelKeeps ==
    ASSUME CrawlInv, JoinLevel
    PROVE  CrawlInv'
<1>0. DepthInv /\ main.depth \in 0..(MaxDepth + 1) /\ MaxDepth \in Nat
  BY QueueType, ConstantTypes DEF CrawlInv
<1>1. /\ main.pc = "dispatch" /\ main'.pc = "level" /\ main' \in MainType /\ main'.depth = main.depth + 1
  <2>1. main.depth <= MaxDepth
    BY <1>0 DEF JoinLevel, DepthInv
  <2>2. PICK d : d = main.depth + 1
    OBVIOUS
  <2>3. d \in 0..(MaxDepth + 1)
    BY <1>0, <2>1, <2>2
  <2>4. main.pc = "dispatch" /\ main' = [main EXCEPT !.pc = "level", !.depth = d]
    BY <2>2, QueueType DEF JoinLevel, MainType
  <2> QED
    BY <2>2, <2>3, <2>4, QueueType DEF MainType
<1>2. UNCHANGED <<visited, acc, pagesFetched, task, sem, cancelled, requests, sent, auxiliary, contributed>>
  BY DEF JoinLevel
<1>3. /\ frontier' = nextFrontier /\ nextFrontier' = <<>>
      /\ frontier = <<>> \/ OverBudget \/ Full
      /\ \A k \in DOMAIN task : task[k].pc \in {"answered", "finished"}
  BY DEF JoinLevel
<1>4. ShapeInv'
  BY <1>1, <1>2, <1>3 DEF CrawlInv, ShapeInv, MainType
<1>5. SlotsCounted' /\ BudgetInv' /\ (OverBudget => OverBudget')
  BY <1>1, <1>2, SlotsKept, BudgetKept DEF Auxiliary
<1>6. Merged(acc, contributed)' /\ (Full => Full')
  BY <1>2 DEF CrawlInv, Merged, Merges, Mine, Admits, Full
<1>7. FetchInv'
  BY <1>2, <1>3, <1>5, FetchFrame
<1>8. DepthInv'
  <2>1. \A i \in DOMAIN frontier' : frontier'[i].depth = main'.depth /\ main'.depth <= MaxDepth
    BY <1>0, <1>1, <1>3 DEF DepthInv
  <2> QED
    BY <1>1, <1>3, <2>1 DEF DepthInv, Auxiliary
<1>9. CompleteInv'
  <2>1. ASSUME ~OverBudget', ~Full'
        PROVE  \A key : key[2] \in Scope /\ Scheduled(key) => Scheduled(key)'
    <3>1. frontier = <<>>
      BY <1>3, <1>5, <1>6, <2>1
    <3>2. \A key : ~Waits(key, frontier)
      BY <3>1 DEF Waits
    <3> QED
      BY <1>2, <1>3, <3>2, ScheduledStays
  <2> QED
    BY <1>2, <1>5, <1>6, <2>1, CompleteFrame
<1> QED
  BY <1>4, <1>5, <1>6, <1>7, <1>8, <1>9 DEF CrawlInv

LEMMA DispatchKeeps ==
    ASSUME CrawlInv, Dispatch
    PROVE  CrawlInv'
<1>1. /\ main.pc = "dispatch" /\ frontier # <<>> /\ frontier' = Tail(frontier)
      /\ UNCHANGED <<main, nextFrontier, acc, pagesFetched, sem, cancelled, requests,
                     sent, auxiliary, contributed>>
  BY DEF Dispatch
<1>2. PICK cand \in Candidate :
         /\ cand = Head(frontier) /\ cand.depth = main.depth
         /\ Tail(frontier) \in Seq(Candidate)
         /\ \A i \in DOMAIN Tail(frontier) : \E j \in DOMAIN frontier : Tail(frontier)[i] = frontier[j]
         /\ \A key : Waits(key, frontier) => key = <<cand.method, cand.url>> \/ Waits(key, Tail(frontier))
  <2>1. frontier \in Seq(Candidate)
    BY QueueType
  <2>2. Head(frontier).depth = main.depth
    BY <1>1, <2>1, FewerCandidates DEF CrawlInv, DepthInv
  <2> QED
    BY <1>1, <2>1, <2>2, FewerCandidates
<1> DEFINE key == <<cand.method, cand.url>>
<1>3. key \in Key /\ cand.method \in {"GET", "POST"} /\ cand.url \in Url /\ key[1] = cand.method /\ key[2] = cand.url
  BY DEF Key, Candidate
<1>4. \/ /\ AllowedURL(cand.url) /\ key \notin visited /\ visited' = visited \cup {key}
         /\ task' = [k \in DOMAIN task \cup {key} |->
                       IF k = key THEN [pc |-> "queued", cand |-> cand] ELSE task[k]]
      \/ (AllowedURL(cand.url) => key \in visited) /\ UNCHANGED <<visited, task>>
  BY <1>2 DEF Dispatch, Mark
<1>5. visited \subseteq visited' /\ (AllowedURL(cand.url) => key \in visited')
  BY <1>4
<1>6. OverBudget => OverBudget'
  BY <1>1 DEF OverBudget, PageBudget
<1>7. Merged(acc, contributed)' /\ (Full => Full')
  BY <1>1 DEF CrawlInv, Merged, Merges, Mine, Admits, Full
<1>8. BudgetInv'
  BY <1>1, BudgetKept
<1>9. DepthInv'
  <2>1. DepthInv
    BY DEF CrawlInv
  <2>2. \A i \in DOMAIN frontier' : frontier'[i].depth = main'.depth /\ main'.depth <= MaxDepth
    BY <1>1, <1>2, <2>1 DEF DepthInv
  <2>3. \A i \in DOMAIN nextFrontier' : nextFrontier'[i].depth = main'.depth + 1 /\ main'.depth < MaxDepth
    BY <1>1, <2>1 DEF DepthInv
  <2> QED
    BY <1>1, <2>1, <2>2, <2>3 DEF DepthInv, Auxiliary
<1>10. \A k : k[2] \in Scope /\ Scheduled(k) => Scheduled(k)'
  <2>1. ASSUME NEW k, k[2] \in Scope, Waits(k, frontier)
        PROVE  k \in visited' \/ Waits(k, frontier') \/ Waits(k, nextFrontier')
    <3>1. CASE k = key
      BY <1>3, <1>5, <2>1, <3>1 DEF AllowedURL
    <3>2. CASE k # key
      BY <1>1, <1>2, <2>1, <3>2
    <3> QED
      BY <3>1, <3>2
  <2> QED
    BY <1>1, <1>5, <2>1, ScheduledStays
<1>11. CASE UNCHANGED <<visited, task>>
  <2>1. ShapeInv'
    BY <1>1, <1>2, <1>11 DEF CrawlInv, ShapeInv
  <2>2. SlotsCounted'
    BY <1>1, <1>11, SlotsKept
  <2>3. FetchInv'
    BY <1>1, <1>6, <1>11, FetchFrame
  <2>4. CompleteInv'
    BY <1>6, <1>7, <1>10, <1>11, CompleteFrame
  <2> QED
    BY <1>7, <1>8, <1>9, <2>1, <2>2, <2>3, <2>4 DEF CrawlInv
<1>12. CASE /\ AllowedURL(cand.url) /\ key \notin visited /\ visited' = visited \cup {key}
            /\ task' = [k \in DOMAIN task \cup {key} |->
                          IF k = key THEN [pc |-> "queued", cand |-> cand] ELSE task[k]]
  <2> HIDE DEF key
  <2>1. /\ DOMAIN task' = DOMAIN task \cup {key} /\ key \notin DOMAIN task
        /\ task'[key] = [pc |-> "queued", cand |-> cand]
        /\ \A k \in DOMAIN task : task'[k] = task[k]
        /\ task' = [k \in DOMAIN task' |-> task'[k]]
    BY <1>12 DEF CrawlInv, ShapeInv
  <2>2. ShapeInv'
    <3>1. \A k \in DOMAIN task' : task'[k] \in [pc: TaskPC, cand: Candidate]
      BY <2>1 DEF CrawlInv, ShapeInv, TaskPC
    <3> QED
      BY <1>1, <1>2, <1>3, <1>12, <2>1, <3>1 DEF CrawlInv, ShapeInv
  <2>3. SlotsCounted'
    <3>1. Slotted' = Slotted
      BY <2>1 DEF Slotted
    <3> QED
      BY <1>1, <3>1 DEF CrawlInv, SlotsCounted
  <2>4. FetchInv'
    <3>1. ASSUME NEW k \in DOMAIN task
          PROVE  TaskInv(k)'
      <4>1. TaskInv(k) /\ task'[k] = task[k]
        BY <2>1 DEF CrawlInv, FetchInv
      <4> QED
        BY <1>1, <4>1 DEF TaskInv, OverBudget, PageBudget
    <3>2. TaskInv(key)'
      <4>1. key[1] = "GET" => requests[key[2]] = 0
        <5>1. key = <<key[1], key[2]>>
          BY DEF key
        <5> QED
          BY <1>3, <1>12, <5>1 DEF CrawlInv, FetchInv
      <4>2. task'[key].pc = "queued" /\ task'[key].cand = cand
        BY <2>1
      <4> QED
        BY <1>1, <1>2, <4>1, <4>2 DEF TaskInv, key
    <3>3. \A k \in visited' \ DOMAIN task' : k[1] = "GET" /\ requests'[k[2]] = 1
      BY <1>1, <1>12, <2>1 DEF CrawlInv, FetchInv
    <3>4. \A u \in Url : <<"GET", u>> \notin visited' => requests'[u] = 0
      BY <1>1, <1>12 DEF CrawlInv, FetchInv
    <3> QED
      BY <2>1, <3>1, <3>2, <3>3, <3>4 DEF FetchInv
  <2>5. CompleteInv'
    <3>1. \A k \in DOMAIN task' : task'[k].pc = "answered" =>
             k \in DOMAIN task /\ task[k].pc = "answered" /\ task'[k].cand = task[k].cand
      BY <2>1
    <3> QED
      BY <1>6, <1>7, <1>10, <3>1, CompleteFrame
  <2> QED
    BY <1>7, <1>8, <1>9, <2>2, <2>3, <2>4, <2>5 DEF CrawlInv
<1> QED
  BY <1>4, <1>11, <1>12
-----------------------------------------------------------------------------
(* The steps of the goroutines.                                            *)

LEMMA MoveStep ==
    ASSUME CrawlInv, NEW k \in DOMAIN task, NEW pc \in TaskPC, Moves(k, pc)
    PROVE  /\ DOMAIN task' = DOMAIN task
           /\ task' = [j \in DOMAIN task' |-> task'[j]]
           /\ \A j \in DOMAIN task' : task'[j] \in [pc: TaskPC, cand: Candidate]
           /\ task'[k].pc = pc /\ task'[k].cand = task[k].cand
           /\ \A j \in DOMAIN task : j # k => task'[j] = task[j]
<1>1. /\ task = [j \in DOMAIN task |-> task[j]]
      /\ \A j \in DOMAIN task : task[j] \in [pc: TaskPC, cand: Candidate]
  BY DEF CrawlInv, ShapeInv
<1>2. task' = [task EXCEPT ![k].pc = pc]
  BY DEF Moves
<1>3. PICK r : r = [task[k] EXCEPT !.pc = pc]
  OBVIOUS
<1>4. task' = [task EXCEPT ![k] = r]
  BY <1>2, <1>3
<1>5. r \in [pc: TaskPC, cand: Candidate] /\ r.pc = pc /\ r.cand = task[k].cand
  BY <1>1, <1>3
<1> QED
  BY <1>1, <1>4, <1>5

(* The slots before and after one goroutine's step.                        *)
LEMMA SlotsStep ==
    ASSUME CrawlInv, NEW k \in DOMAIN task, NEW pc \in TaskPC, Moves(k, pc),
           \/ /\ task[k].pc = "queued" /\ pc = "slotted"
              /\ HasSlot /\ sem' = sem + 1
           \/ /\ task[k].pc \in {"slotted", "fetching"} /\ pc \in {"answered", "finished"}
              /\ sem' = sem - 1
           \/ /\ task[k].pc = "slotted" /\ pc = "fetching"
              /\ sem' = sem
           \/ /\ task[k].pc = "queued" /\ pc = "finished"
              /\ sem' = sem
    PROVE  SlotsCounted'
<1>1. /\ DOMAIN task' = DOMAIN task /\ task'[k].pc = pc
      /\ \A j \in DOMAIN task : j # k => task'[j] = task[j]
  BY MoveStep
<1>2. PICK S : S = Slotted
  OBVIOUS
<1>3. /\ IsFiniteSet(S) /\ sem = Cardinality(S) /\ Cardinality(S) \in Nat
      /\ sem <= AtLeastOne(MaxConcurrency)
  BY <1>2, FS_CardinalityType DEF CrawlInv, SlotsCounted
<1>4. AtLeastOne(MaxConcurrency) \in Nat
  BY ConstantTypes
<1>5. CASE task[k].pc = "queued" /\ pc = "slotted" /\ HasSlot /\ sem' = sem + 1
  <2>1. Slotted' = S \cup {k} /\ k \notin S
    BY <1>1, <1>2, <1>5 DEF Slotted
  <2>2. IsFiniteSet(S \cup {k}) /\ Cardinality(S \cup {k}) = Cardinality(S) + 1
    BY <1>3, <2>1, FS_AddElement
  <2>3. sem' <= AtLeastOne(MaxConcurrency)
    BY <1>3, <1>4, <1>5 DEF HasSlot
  <2> QED
    BY <1>3, <1>5, <2>1, <2>2, <2>3 DEF SlotsCounted
<1>6. CASE task[k].pc \in {"slotted", "fetching"} /\ pc \in {"answered", "finished"} /\ sem' = sem - 1
  <2>1. Slotted' = S \ {k} /\ k \in S
    BY <1>1, <1>2, <1>6 DEF Slotted
  <2>2. IsFiniteSet(S \ {k}) /\ Cardinality(S \ {k}) = Cardinality(S) - 1
    BY <1>3, <2>1, FS_RemoveElement
  <2>3. sem' <= AtLeastOne(MaxConcurrency)
    BY <1>3, <1>4, <1>6
  <2> QED
    BY <1>3, <1>6, <2>1, <2>2, <2>3 DEF SlotsCounted
<1>7. CASE task[k].pc = "slotted" /\ pc = "fetching" /\ sem' = sem
  <2>1. Slotted' = S
    BY <1>1, <1>2, <1>7 DEF Slotted
  <2> QED
    BY <1>3, <1>7, <2>1 DEF SlotsCounted
<1>8. CASE task[k].pc = "queued" /\ pc = "finished" /\ sem' = sem
  <2>1. Slotted' = S
    BY <1>1, <1>2, <1>8 DEF Slotted
  <2> QED
    BY <1>3, <1>8, <2>1 DEF SlotsCounted
<1> QED
  BY <1>5, <1>6, <1>7, <1>8

(* One goroutine's step, as far as the others and the main one see it.     *)
LEMMA TaskFrame ==
    ASSUME CrawlInv, NEW k \in DOMAIN task, NEW pc \in TaskPC, Moves(k, pc),
           task[k].pc \notin {"answered", "finished"},
           SlotsCounted', BudgetInv', TaskInv(k)', CompleteInv',
           UNCHANGED <<main, frontier, visited, cancelled, auxiliary>>,
           nextFrontier' \in Seq(Candidate),
           \A i \in DOMAIN nextFrontier' : nextFrontier'[i].depth = main.depth + 1 /\ main.depth < MaxDepth,
           requests' \in [Url -> Nat], sent' \in Nat, pagesFetched' \in Nat,
           \A u \in Url : <<"GET", u>> # k => requests'[u] = requests[u],
           acc' \in Table, Merged(acc', contributed'), contributed' \subseteq Contribution,
           contributed \subseteq contributed', OverBudget => OverBudget'
    PROVE  CrawlInv'
<1>1. /\ DOMAIN task' = DOMAIN task
      /\ task' = [j \in DOMAIN task' |-> task'[j]]
      /\ \A j \in DOMAIN task' : task'[j] \in [pc: TaskPC, cand: Candidate]
      /\ \A j \in DOMAIN task : j # k => task'[j] = task[j]
  BY MoveStep
<1>2. ShapeInv'
  BY <1>1 DEF CrawlInv, ShapeInv
<1>3. Merged(acc, contributed)'
  BY DEF Merged, Merges, Mine, Admits
<1>4. main.pc = "dispatch"
  BY DEF CrawlInv, FetchInv, TaskInv
<1>5. DepthInv'
  <2>1. DepthInv
    BY DEF CrawlInv
  <2> QED
    BY <1>1, <1>4, <2>1 DEF DepthInv, Auxiliary
<1>6. FetchInv'
  <2>1. visited \subseteq Key /\ DOMAIN task \subseteq visited
    BY DEF CrawlInv, ShapeInv
  <2>2. ASSUME NEW j \in DOMAIN task', j # k
        PROVE  TaskInv(j)'
    <3>1. TaskInv(j) /\ task'[j] = task[j]
      BY <1>1, <2>2 DEF CrawlInv, FetchInv
    <3>2. j[2] \in Url /\ j = <<j[1], j[2]>>
      BY <1>1, <2>1 DEF Key
    <3>3. j[1] = "GET" => requests'[j[2]] = requests[j[2]]
      BY <2>2, <3>2
    <3>4. task'[j].pc \notin {"answered", "finished"} => main'.pc = "dispatch" /\ task'[j].cand.depth = main'.depth
      BY <3>1 DEF TaskInv
    <3>5. j = <<task'[j].cand.method, task'[j].cand.url>>
      BY <3>1 DEF TaskInv
    <3>6. j[1] = "GET" =>
            /\ task'[j].pc \in {"queued", "slotted"} => requests'[j[2]] = 0
            /\ task'[j].pc \in {"fetching", "answered"} => requests'[j[2]] = 1
            /\ task'[j].pc = "finished" => \/ requests'[j[2]] = 1
                                           \/ requests'[j[2]] = 0 /\ (cancelled' \/ OverBudget')
      BY <3>1, <3>3 DEF TaskInv
    <3>7. j[1] = "POST" =>
            /\ task'[j].pc \in {"queued", "slotted", "finished"}
            /\ task'[j].pc = "finished" => cancelled' \/ \E c \in contributed' : c.key = <<"POST", Template[j[2]]>>
      BY <3>1 DEF TaskInv
    <3> QED
      BY <3>4, <3>5, <3>6, <3>7 DEF TaskInv
  <2>3. ASSUME NEW j \in visited' \ DOMAIN task'
        PROVE  j[1] = "GET" /\ requests'[j[2]] = 1
    <3>1. j[1] = "GET" /\ requests[j[2]] = 1
      BY <1>1 DEF CrawlInv, FetchInv
    <3>2. j[2] \in Url /\ j = <<"GET", j[2]>> /\ j # k
      BY <1>1, <2>1, <3>1 DEF Key
    <3> QED
      BY <3>1, <3>2
  <2>4. \A u \in Url : <<"GET", u>> \notin visited' => requests'[u] = 0
    BY <2>1 DEF CrawlInv, FetchInv
  <2> QED
    BY <2>2, <2>3, <2>4 DEF FetchInv
<1> QED
  BY <1>2, <1>3, <1>5, <1>6 DEF CrawlInv

(* A candidate's key is its method and its URL.                            *)
LEMMA TaskFacts ==
    ASSUME CrawlInv, NEW k \in DOMAIN task
    PROVE  /\ TaskInv(k) /\ task[k].cand \in Candidate /\ task[k].pc \in TaskPC
           /\ k \in visited /\ k = <<k[1], k[2]>> /\ k[1] \in {"GET", "POST"} /\ k[2] \in Url
           /\ task[k].cand.method = k[1] /\ task[k].cand.url = k[2]
           /\ <<"GET", task[k].cand.url>> # k => task[k].cand.method # "GET"
<1>1. TaskInv(k) /\ task[k].cand \in Candidate /\ task[k].pc \in TaskPC /\ k \in visited /\ visited \subseteq Key
  BY DEF CrawlInv, FetchInv, ShapeInv
<1>2. k = <<task[k].cand.method, task[k].cand.url>>
  BY <1>1 DEF TaskInv
<1>3. k[1] \in {"GET", "POST"} /\ k[2] \in Url /\ k = <<k[1], k[2]>>
  BY <1>1 DEF Key
<1>4. task[k].cand.method = k[1] /\ task[k].cand.url = k[2]
  BY <1>2
<1> QED
  BY <1>1, <1>3, <1>4

LEMMA AcquireKeeps ==
    ASSUME CrawlInv, NEW k \in DOMAIN task, Acquire(k)
    PROVE  CrawlInv'
<1>1. /\ task[k].pc = "queued" /\ HasSlot /\ sem' = sem + 1 /\ Moves(k, "slotted")
      /\ UNCHANGED <<main, frontier, nextFrontier, visited, acc, pagesFetched, cancelled,
                     requests, sent, auxiliary, contributed>>
  BY DEF Acquire
<1>2. "slotted" \in TaskPC
  BY DEF TaskPC
<1>3. SlotsCounted'
  BY <1>1, <1>2, SlotsStep
<1>4. BudgetInv' /\ (OverBudget => OverBudget')
  BY <1>1, BudgetKept
<1>5. acc' \in Table /\ Merged(acc', contributed') /\ contributed' \subseteq Contribution
      /\ contributed \subseteq contributed' /\ (Full => Full')
  BY <1>1, NoContribution
<1>6. /\ DOMAIN task' = DOMAIN task /\ task'[k].pc = "slotted" /\ task'[k].cand = task[k].cand
      /\ \A j \in DOMAIN task : j # k => task'[j] = task[j]
  BY <1>1, <1>2, MoveStep
<1>7. TaskInv(k)'
  BY <1>1, <1>6, TaskFacts DEF TaskInv
<1>8. CompleteInv'
  <2>1. \A key : key[2] \in Scope /\ Scheduled(key) => Scheduled(key)'
    BY <1>1, ScheduledStays
  <2>2. \A j \in DOMAIN task' : task'[j].pc = "answered" =>
           j \in DOMAIN task /\ task[j].pc = "answered" /\ task'[j].cand = task[j].cand
    BY <1>6
  <2> QED
    BY <1>4, <1>5, <2>1, <2>2, CompleteFrame
<1>9. ShapeInv /\ DepthInv /\ main.pc = "dispatch"
  BY <1>1, TaskFacts DEF CrawlInv, TaskInv
<1> QED
  BY <1>1, <1>2, <1>3, <1>4, <1>5, <1>7, <1>8, <1>9, TaskFrame DEF ShapeInv, DepthInv

LEMMA AbandonKeeps ==
    ASSUME CrawlInv, NEW k \in DOMAIN task, Abandon(k)
    PROVE  CrawlInv'
<1>1. /\ task[k].pc \in {"queued", "slotted"} /\ cancelled /\ Moves(k, "finished")
      /\ sem' = IF task[k].pc = "slotted" THEN sem - 1 ELSE sem
      /\ UNCHANGED <<main, frontier, nextFrontier, visited, acc, pagesFetched, cancelled,
                     requests, sent, auxiliary, contributed>>
  BY DEF Abandon, Released
<1>2. "finished" \in TaskPC
  BY DEF TaskPC
<1>3. SlotsCounted'
  BY <1>1, <1>2, SlotsStep
<1>4. BudgetInv' /\ (OverBudget => OverBudget')
  BY <1>1, BudgetKept
<1>5. acc' \in Table /\ Merged(acc', contributed') /\ contributed' \subseteq Contribution
      /\ contributed \subseteq contributed' /\ (Full => Full')
  BY <1>1, NoContribution
<1>6. /\ DOMAIN task' = DOMAIN task /\ task'[k].pc = "finished" /\ task'[k].cand = task[k].cand
      /\ \A j \in DOMAIN task : j # k => task'[j] = task[j]
  BY <1>1, <1>2, MoveStep
<1>7. TaskInv(k)'
  BY <1>1, <1>6, TaskFacts DEF TaskInv
<1>8. CompleteInv'
  <2>1. \A key : key[2] \in Scope /\ Scheduled(key) => Scheduled(key)'
    BY <1>1, ScheduledStays
  <2>2. \A j \in DOMAIN task' : task'[j].pc = "answered" =>
           j \in DOMAIN task /\ task[j].pc = "answered" /\ task'[j].cand = task[j].cand
    BY <1>6
  <2> QED
    BY <1>4, <1>5, <2>1, <2>2, CompleteFrame
<1>9. ShapeInv /\ DepthInv /\ main.pc = "dispatch"
  BY <1>1, TaskFacts DEF CrawlInv, TaskInv
<1> QED
  BY <1>1, <1>2, <1>3, <1>4, <1>5, <1>7, <1>8, <1>9, TaskFrame DEF ShapeInv, DepthInv

LEMMA RecordUnfetchedKeeps ==
    ASSUME CrawlInv, NEW k \in DOMAIN task, RecordUnfetched(k)
    PROVE  CrawlInv'
<1>1. /\ task[k].pc = "slotted" /\ task[k].cand.method # "GET" /\ Moves(k, "finished")
      /\ Contribute(<<UnfetchedResult(task[k].cand)>>) /\ sem' = sem - 1
      /\ UNCHANGED <<main, frontier, nextFrontier, visited, pagesFetched, cancelled,
                     requests, sent, auxiliary>>
  BY DEF RecordUnfetched, Released
<1>2. "finished" \in TaskPC
  BY DEF TaskPC
<1>3. SlotsCounted'
  BY <1>1, <1>2, SlotsStep
<1>4. BudgetInv' /\ (OverBudget => OverBudget')
  BY <1>1, BudgetKept
<1>5. PICK c \in Contribution : c = UnfetchedResult(task[k].cand)
  BY TaskFacts, ContributionTypes
<1>6. /\ acc' \in Table /\ Merged(acc', contributed') /\ contributed' \subseteq Contribution
      /\ contributed \subseteq contributed' /\ c \in contributed' /\ (Full => Full')
  <2>1. <<c>> \in Seq(Contribution) /\ ToSet(<<c>>) = {c} /\ Contribute(<<c>>)
    BY <1>1, <1>5, Singleton
  <2> QED
    BY <2>1, ContributeStep
<1>7. /\ DOMAIN task' = DOMAIN task /\ task'[k].pc = "finished" /\ task'[k].cand = task[k].cand
      /\ \A j \in DOMAIN task : j # k => task'[j] = task[j]
  BY <1>1, <1>2, MoveStep
<1>8. TaskInv(k)'
  <2>1. k[1] = "POST" /\ c.key = <<"POST", Template[k[2]]>>
    BY <1>1, <1>5, TaskFacts DEF UnfetchedResult
  <2> QED
    BY <1>1, <1>6, <1>7, <2>1, TaskFacts DEF TaskInv
<1>9. CompleteInv'
  <2>1. \A key : key[2] \in Scope /\ Scheduled(key) => Scheduled(key)'
    BY <1>1, ScheduledStays
  <2>2. \A j \in DOMAIN task' : task'[j].pc = "answered" =>
           j \in DOMAIN task /\ task[j].pc = "answered" /\ task'[j].cand = task[j].cand
    BY <1>7
  <2> QED
    BY <1>4, <1>6, <2>1, <2>2, CompleteFrame
<1>10. ShapeInv /\ DepthInv /\ main.pc = "dispatch"
  BY <1>1, TaskFacts DEF CrawlInv, TaskInv
<1> QED
  BY <1>1, <1>2, <1>3, <1>4, <1>6, <1>8, <1>9, <1>10, TaskFrame DEF ShapeInv, DepthInv

LEMMA StartFetchKeeps ==
    ASSUME CrawlInv, NEW k \in DOMAIN task, StartFetch(k)
    PROVE  CrawlInv'
<1>1. /\ task[k].pc = "slotted" /\ task[k].cand.method = "GET"
      /\ pagesFetched' = pagesFetched + 1
      /\ UNCHANGED <<main, frontier, nextFrontier, visited, acc, cancelled, auxiliary, contributed>>
  BY DEF StartFetch
<1>2. PICK u \in Url : u = task[k].cand.url
  BY TaskFacts
<1>3. k = <<"GET", u>> /\ k[1] = "GET" /\ k[2] = u
  BY <1>1, <1>2, TaskFacts
<1>4. /\ requests \in [Url -> Nat] /\ sent \in Nat /\ auxiliary \in Nat /\ pagesFetched \in Nat
      /\ sent <= pagesFetched /\ PageBudget \in Nat
      /\ main.pc = "dispatch" /\ requests[u] = 0
      /\ ShapeInv /\ DepthInv
  BY <1>1, <1>3, TaskFacts, ConstantTypes DEF CrawlInv, ShapeInv, BudgetInv, TaskInv
<1>5. pagesFetched' \in Nat /\ (OverBudget => OverBudget')
  BY <1>1, <1>4, BudgetStays
<1>6. acc' \in Table /\ Merged(acc', contributed') /\ contributed' \subseteq Contribution
      /\ contributed \subseteq contributed' /\ (Full => Full')
  BY <1>1, NoContribution
<1>7. PICK pc \in {"fetching", "finished"} :
        /\ Moves(k, pc)
        /\ pc = "fetching" => /\ TakesPage /\ requests' = [requests EXCEPT ![u] = @ + 1]
                              /\ sent' = sent + 1 /\ sem' = sem
        /\ pc = "finished" => /\ ~TakesPage /\ requests' = requests /\ sent' = sent /\ sem' = sem - 1
  BY <1>2 DEF StartFetch, Released
<1>8. pc \in TaskPC
  BY DEF TaskPC
<1>9. SlotsCounted'
  <2>1. \/ pc = "fetching" /\ sem' = sem
        \/ pc \in {"answered", "finished"} /\ sem' = sem - 1
    BY <1>7
  <2> QED
    BY <1>1, <1>7, <1>8, <2>1, SlotsStep
<1>10. /\ DOMAIN task' = DOMAIN task /\ task'[k].pc = pc /\ task'[k].cand = task[k].cand
       /\ \A j \in DOMAIN task : j # k => task'[j] = task[j]
  BY <1>7, <1>8, MoveStep
<1>11. /\ requests' \in [Url -> Nat] /\ sent' \in Nat
       /\ \A v \in Url : <<"GET", v>> # k => requests'[v] = requests[v]
       /\ pc = "fetching" => requests'[u] = 1
       /\ pc = "finished" => requests'[u] = 0 /\ OverBudget'
  <2>1. CASE pc = "fetching"
    BY <1>3, <1>4, <1>7, <2>1
  <2>2. CASE pc = "finished"
    <3>1. OverBudget'
      BY <1>1, <1>4, <1>7, <2>2 DEF TakesPage, OverBudget, PageBudget
    <3> QED
      BY <1>4, <1>7, <2>2, <3>1
  <2> QED
    BY <2>1, <2>2
<1>12. BudgetInv'
  <2>1. main'.pc \notin Auxiliary
    BY <1>1, <1>4 DEF Auxiliary
  <2>2. sent' <= pagesFetched'
    BY <1>1, <1>4, <1>7
  <2>3. LinksWithinBudget'
    <3>1. CASE pc = "fetching"
      BY <1>4, <1>7, <3>1 DEF LinksWithinBudget, TakesPage, PageBudget
    <3>2. CASE pc = "finished"
      BY <1>1, <1>7, <3>2 DEF CrawlInv, BudgetInv, LinksWithinBudget, PageBudget
    <3> QED
      BY <3>1, <3>2
  <2> QED
    BY <2>1, <2>2, <2>3 DEF BudgetInv
<1>13. TaskInv(k)'
  <2>1. k = <<task[k].cand.method, task[k].cand.url>> /\ task[k].cand.depth = main.depth
    BY <1>1, TaskFacts DEF TaskInv
  <2> QED
    BY <1>1, <1>3, <1>4, <1>10, <1>11, <2>1 DEF TaskInv
<1>14. CompleteInv'
  <2>1. \A key : key[2] \in Scope /\ Scheduled(key) => Scheduled(key)'
    BY <1>1, ScheduledStays
  <2>2. \A j \in DOMAIN task' : task'[j].pc = "answered" =>
           j \in DOMAIN task /\ task[j].pc = "answered" /\ task'[j].cand = task[j].cand
    BY <1>10
  <2> QED
    BY <1>5, <1>6, <2>1, <2>2, CompleteFrame
<1> QED
  BY <1>1, <1>4, <1>5, <1>6, <1>7, <1>8, <1>9, <1>11, <1>12, <1>13, <1>14, TaskFrame
  DEF ShapeInv, DepthInv

LEMMA FetchFailsKeeps ==
    ASSUME CrawlInv, NEW k \in DOMAIN task, FetchFails(k)
    PROVE  CrawlInv'
<1>1. /\ task[k].pc = "fetching" /\ Moves(k, "finished")
      /\ Contribute(<<ErrorResult(task[k].cand)>>) /\ sem' = sem - 1
      /\ UNCHANGED <<main, frontier, nextFrontier, visited, pagesFetched, cancelled,
                     requests, sent, auxiliary>>
  BY DEF FetchFails, Released
<1>2. "finished" \in TaskPC
  BY DEF TaskPC
<1>3. SlotsCounted'
  BY <1>1, <1>2, SlotsStep
<1>4. BudgetInv' /\ (OverBudget => OverBudget')
  BY <1>1, BudgetKept
<1>5. PICK c \in Contribution : c = ErrorResult(task[k].cand)
  BY TaskFacts, ContributionTypes
<1>6. /\ acc' \in Table /\ Merged(acc', contributed') /\ contributed' \subseteq Contribution
      /\ contributed \subseteq contributed' /\ (Full => Full')
  <2>1. <<c>> \in Seq(Contribution) /\ Contribute(<<c>>)
    BY <1>1, <1>5, Singleton
  <2> QED
    BY <2>1, ContributeStep
<1>7. /\ DOMAIN task' = DOMAIN task /\ task'[k].pc = "finished" /\ task'[k].cand = task[k].cand
      /\ \A j \in DOMAIN task : j # k => task'[j] = task[j]
  BY <1>1, <1>2, MoveStep
<1>8. TaskInv(k)'
  <2>1. k[1] = "GET" /\ requests[k[2]] = 1
    BY <1>1, TaskFacts DEF TaskInv
  <2> QED
    BY <1>1, <1>7, <2>1, TaskFacts DEF TaskInv
<1>9. CompleteInv'
  <2>1. \A key : key[2] \in Scope /\ Scheduled(key) => Scheduled(key)'
    BY <1>1, ScheduledStays
  <2>2. \A j \in DOMAIN task' : task'[j].pc = "answered" =>
           j \in DOMAIN task /\ task[j].pc = "answered" /\ task'[j].cand = task[j].cand
    BY <1>7
  <2> QED
    BY <1>4, <1>6, <2>1, <2>2, CompleteFrame
<1>10. ShapeInv /\ DepthInv /\ main.pc = "dispatch"
  BY <1>1, TaskFacts DEF CrawlInv, TaskInv
<1> QED
  BY <1>1, <1>2, <1>3, <1>4, <1>6, <1>8, <1>9, <1>10, TaskFrame DEF ShapeInv, DepthInv

(* The links of the page that answered join the next frontier.             *)
LEMMA FetchedKeeps ==
    ASSUME CrawlInv, NEW k \in DOMAIN task, Fetched(k)
    PROVE  CrawlInv'
<1> DEFINE cand == task[k].cand
           links == Content[cand.url].links
<1>1. /\ task[k].pc = "fetching" /\ Moves(k, "answered")
      /\ Contribute(<<FetchedResult(cand)>>) /\ sem' = sem - 1
      /\ nextFrontier' = IF cand.depth < MaxDepth
                         THEN nextFrontier \o Candidates(links, cand.depth + 1) ELSE nextFrontier
      /\ UNCHANGED <<main, frontier, visited, pagesFetched, cancelled, requests, sent, auxiliary>>
  BY DEF Fetched, Released, Deeper
<1>2. "answered" \in TaskPC
  BY DEF TaskPC
<1>3. SlotsCounted'
  BY <1>1, <1>2, SlotsStep
<1>4. BudgetInv' /\ (OverBudget => OverBudget')
  BY <1>1, BudgetKept
<1>5. PICK c \in Contribution : c = FetchedResult(cand)
  BY TaskFacts, ContributionTypes
<1>6. /\ acc' \in Table /\ Merged(acc', contributed') /\ contributed' \subseteq Contribution
      /\ contributed \subseteq contributed' /\ (Full => Full')
  <2>1. <<c>> \in Seq(Contribution) /\ Contribute(<<c>>)
    BY <1>1, <1>5, Singleton
  <2> QED
    BY <2>1, ContributeStep
<1>7. /\ DOMAIN task' = DOMAIN task /\ task'[k].pc = "answered" /\ task'[k].cand = cand
      /\ \A j \in DOMAIN task : j # k => task'[j] = task[j]
  BY <1>1, <1>2, MoveStep
<1>8. /\ main.pc = "dispatch" /\ cand.depth = main.depth /\ main.depth \in 0..(MaxDepth + 1)
      /\ cand.url \in Url /\ k[2] = cand.url /\ links \in Seq(Link) /\ MaxDepth \in Nat
      /\ nextFrontier \in Seq(Candidate)
      /\ \A i \in DOMAIN nextFrontier : nextFrontier[i].depth = main.depth + 1 /\ main.depth < MaxDepth
  BY <1>1, TaskFacts, QueueType, ConstantTypes DEF CrawlInv, TaskInv, DepthInv
<1>9. TaskInv(k)'
  <2>1. k[1] = "GET" /\ requests[k[2]] = 1
    BY <1>1, TaskFacts DEF TaskInv
  <2> QED
    BY <1>1, <1>7, <2>1, TaskFacts DEF TaskInv
<1>10. /\ nextFrontier' \in Seq(Candidate)
       /\ \A i \in DOMAIN nextFrontier' : nextFrontier'[i].depth = main.depth + 1 /\ main.depth < MaxDepth
       /\ \A key : Waits(key, nextFrontier) => Waits(key, nextFrontier')
       /\ cand.depth < MaxDepth => \A l \in ToSet(links) : Waits(<<l.method, l.url>>, nextFrontier')
  <2>1. CASE cand.depth < MaxDepth
    <3>1. PICK d \in 0..(MaxDepth + 1) : d = cand.depth + 1
      BY <1>8, <2>1
    <3>2. PICK ls \in Seq(Link) : ls = links
      BY <1>8
    <3>3. nextFrontier' = nextFrontier \o Candidates(ls, d)
      BY <1>1, <2>1, <3>1, <3>2
    <3> HIDE DEF cand, links
    <3>4. /\ nextFrontier' \in Seq(Candidate)
          /\ \A i \in DOMAIN nextFrontier' :
                nextFrontier'[i].depth = d \/ \E j \in DOMAIN nextFrontier : nextFrontier'[i] = nextFrontier[j]
          /\ \A key : Waits(key, nextFrontier) => Waits(key, nextFrontier')
          /\ \A l \in ToSet(ls) : Waits(<<l.method, l.url>>, nextFrontier')
      BY <1>8, <3>3, MoreCandidates
    <3> QED
      BY <1>8, <2>1, <3>1, <3>2, <3>4
  <2>2. CASE ~ (cand.depth < MaxDepth)
    BY <1>1, <1>8, <2>2
  <2> QED
    BY <2>1, <2>2
<1>11. CompleteInv'
  <2>1. \A key : key[2] \in Scope /\ Scheduled(key) => Scheduled(key)'
    BY <1>1, <1>10, ScheduledStays
  <2> SUFFICES ASSUME ~OverBudget', ~Full' PROVE FoundScheduled'
    BY DEF CompleteInv
  <2>2. FoundScheduled
    BY <1>4, <1>6 DEF CrawlInv, CompleteInv
  <2>3. \A u \in ToSet(Seeds) \cap Scope : Scheduled(<<"GET", u>>)'
    BY <2>1, <2>2 DEF FoundScheduled
  <2>4. ASSUME NEW j \in DOMAIN task', task'[j].pc = "answered", task'[j].cand.depth < MaxDepth,
               NEW l \in ToSet(Content[j[2]].links), l.url \in Scope
        PROVE  Scheduled(<<l.method, l.url>>)'
    <3>1. CASE j = k
      BY <1>7, <1>8, <1>10, <2>4, <3>1 DEF Scheduled
    <3>2. CASE j # k
      <4>1. Scheduled(<<l.method, l.url>>)
        BY <1>7, <2>2, <2>4, <3>2 DEF FoundScheduled
      <4> QED
        BY <2>1, <2>4, <4>1
    <3> QED
      BY <3>1, <3>2
  <2> QED
    BY <2>3, <2>4 DEF FoundScheduled
<1>12. ShapeInv
  BY DEF CrawlInv
<1>13. /\ requests' \in [Url -> Nat] /\ sent' \in Nat /\ pagesFetched' \in Nat
       /\ requests' = requests
  BY <1>1, <1>12 DEF ShapeInv
<1> HIDE DEF cand, links
<1> QED
  BY <1>1, <1>2, <1>3, <1>4, <1>6, <1>9, <1>10, <1>11, <1>13, TaskFrame

LEMMA CancelKeeps ==
    ASSUME CrawlInv, Cancel
    PROVE  CrawlInv'
<1>1. /\ cancelled' = TRUE
      /\ UNCHANGED <<main, frontier, nextFrontier, visited, acc, pagesFetched, task, sem,
                     requests, sent, auxiliary, contributed>>
  BY DEF Cancel
<1>2. ShapeInv'
  BY <1>1 DEF CrawlInv, ShapeInv
<1>3. SlotsCounted'
  BY <1>1, SlotsKept
<1>4. BudgetInv' /\ (OverBudget => OverBudget')
  BY <1>1, BudgetKept
<1>5. Merged(acc', contributed') /\ contributed \subseteq contributed' /\ (Full => Full')
  BY <1>1, NoContribution
<1>6. FetchInv'
  BY <1>1, <1>4, <1>5, FetchFrame
<1>7. DepthInv'
  BY <1>1, <1>4, <1>5 DEF CrawlInv, DepthInv
<1>8. CompleteInv'
  <2>1. \A key : key[2] \in Scope /\ Scheduled(key) => Scheduled(key)'
    BY <1>1, ScheduledStays
  <2> QED
    BY <1>1, <1>4, <1>5, <2>1, CompleteFrame
<1>9. Merged(acc, contributed)'
  BY <1>5 DEF Merged, Merges, Mine, Admits
<1> QED
  BY <1>2, <1>3, <1>4, <1>6, <1>7, <1>8, <1>9 DEF CrawlInv

LEMMA StutterKeeps ==
    ASSUME CrawlInv, UNCHANGED vars
    PROVE  CrawlInv'
<1>1. UNCHANGED <<main, frontier, nextFrontier, visited, acc, pagesFetched, task, sem,
                  cancelled, requests, sent, auxiliary, contributed>>
  BY DEF vars
<1>2. ShapeInv' /\ SlotsCounted'
  BY <1>1 DEF CrawlInv, ShapeInv, SlotsCounted, Slotted
<1>3. BudgetInv' /\ (OverBudget => OverBudget')
  BY <1>1, BudgetKept
<1>4. Merged(acc', contributed') /\ contributed \subseteq contributed' /\ (Full => Full')
  BY <1>1, NoContribution
<1>5. FetchInv'
  BY <1>1, <1>3, <1>4, FetchFrame
<1>6. DepthInv'
  BY <1>1, <1>3, <1>4 DEF CrawlInv, DepthInv
<1>7. CompleteInv'
  <2>1. \A key : key[2] \in Scope /\ Scheduled(key) => Scheduled(key)'
    BY <1>1, ScheduledStays
  <2> QED
    BY <1>1, <1>3, <1>4, <2>1, CompleteFrame
<1>8. Merged(acc, contributed)'
  BY <1>4 DEF Merged, Merges, Mine, Admits
<1> QED
  BY <1>2, <1>3, <1>5, <1>6, <1>7, <1>8 DEF CrawlInv

-----------------------------------------------------------------------------
(* The invariant.                                                          *)

LEMMA InitHolds ==
    ASSUME Init
    PROVE  CrawlInv
<1>1. Seeds \in Seq(Url) /\ Robots \in Seq(Url) /\ MaxDepth \in Nat /\ PageBudget >= 1 /\ PageBudget \in Nat
  BY ConstantTypes
<1>2. \A i \in DOMAIN Seeds : Seeds[i] \in Url
  BY <1>1, ElementOfSeq, LenProperties
<1>3. /\ frontier \in Seq(Candidate)
      /\ DOMAIN frontier = DOMAIN Seeds
      /\ \A i \in DOMAIN Seeds : /\ frontier[i].depth = 0 /\ frontier[i].method = "GET"
                                 /\ frontier[i].url = Seeds[i]
  <2> DEFINE C(i) == [url |-> Seeds[i], method |-> "GET", source |-> "seed",
                      documented |-> FALSE, depth |-> 0]
  <2>1. frontier = [i \in 1..Len(Seeds) |-> C(i)] /\ Len(Seeds) \in Nat /\ DOMAIN Seeds = 1..Len(Seeds)
    BY <1>1, LenProperties DEF Init
  <2>2. \A i \in 1..Len(Seeds) : C(i) \in Candidate
    BY <1>1, <1>2, <2>1 DEF Candidate, Source
  <2>3. frontier \in [1..Len(Seeds) -> Candidate]
    BY <2>1, <2>2
  <2> QED
    BY <2>1, <2>3
<1>4. /\ DOMAIN acc = {} /\ DOMAIN task = {} /\ contributed = {}
      /\ IsFiniteSet({}) /\ Cardinality({}) = 0
  BY FS_EmptySet DEF Init
<1>5. acc \in Table /\ task = [k \in DOMAIN task |-> task[k]]
  <2>1. acc \in [{} -> Result] /\ {} \in SUBSET Key
    BY DEF Init
  <2> QED
    BY <2>1 DEF Table, Init
<1>6. ShapeInv
  <2>1. main \in [pc: Auxiliary \cup {"level", "dispatch", "done"},
                   queue: Seq(Url), sitemaps: Seq(Url),
                   fetched: Nat, urls: Nat, depth: 0..(MaxDepth + 1)]
    BY <1>1 DEF Init, Auxiliary
  <2>2. /\ nextFrontier \in Seq(Candidate) /\ visited \subseteq Key
        /\ pagesFetched \in Nat /\ DOMAIN task \subseteq visited /\ cancelled \in BOOLEAN
        /\ sent \in Nat /\ auxiliary \in Nat /\ contributed \subseteq Contribution
    <3>1. nextFrontier = <<>> /\ <<>> \in Seq(Candidate) /\ visited = {}
      BY EmptySeq DEF Init
    <3> QED
      BY <1>4, <3>1 DEF Init
  <2>3. \A k \in DOMAIN task : task[k] \in [pc: TaskPC, cand: Candidate]
    BY <1>4
  <2>4. requests \in [Url -> Nat]
    BY DEF Init
  <2> QED
    BY <1>3, <1>5, <2>1, <2>2, <2>3, <2>4 DEF ShapeInv
<1>7. SlotsCounted
  <2>1. Slotted = {}
    BY <1>4 DEF Slotted
  <2>2. AtLeastOne(MaxConcurrency) \in Nat /\ sem = 0
    BY ConstantTypes DEF Init
  <2> QED
    BY <1>4, <2>1, <2>2 DEF SlotsCounted
<1>8. Merged(acc, contributed)
  BY <1>4, ConstantTypes DEF Merged
<1>9. BudgetInv
  BY <1>1 DEF Init, BudgetInv, LinksWithinBudget
<1>10. FetchInv
  BY <1>4 DEF Init, FetchInv
<1>11. DepthInv
  BY <1>1, <1>3, <1>4 DEF Init, DepthInv
<1>12. CompleteInv
  <2>1. ASSUME NEW u \in ToSet(Seeds) \cap Scope
        PROVE  Scheduled(<<"GET", u>>)
    <3>1. PICK i \in DOMAIN Seeds : Seeds[i] = u
      BY <2>1 DEF ToSet
    <3> QED
      BY <1>3, <3>1 DEF Scheduled, Waits
  <2> QED
    BY <1>4, <2>1 DEF CompleteInv, FoundScheduled
<1> QED
  BY <1>6, <1>7, <1>8, <1>9, <1>10, <1>11, <1>12 DEF CrawlInv

LEMMA NextKeeps ==
    ASSUME CrawlInv, [Next]_vars
    PROVE  CrawlInv'
<1>1. CASE MainStep
  BY <1>1, SkipDocumentKeeps, FetchRobotsKeeps, FetchSitemapKeeps, FetchApiDocKeeps,
     NextSourceKeeps, StartLevelKeeps, DispatchKeeps, JoinLevelKeeps DEF MainStep
<1>2. ASSUME NEW k \in DOMAIN task, TaskStep(k)
      PROVE  CrawlInv'
  BY <1>2, AcquireKeeps, AbandonKeeps, RecordUnfetchedKeeps, StartFetchKeeps, FetchedKeeps,
     FetchFailsKeeps DEF TaskStep
<1>3. CASE Cancel
  BY <1>3, CancelKeeps
<1>4. CASE UNCHANGED vars
  BY <1>4, StutterKeeps
<1> QED
  BY <1>1, <1>2, <1>3, <1>4 DEF Next

(* The inductive invariant holds in every state of every crawl.            *)
THEOREM CrawlInvariant == Spec => []CrawlInv
<1>1. Init => CrawlInv
  BY InitHolds
<1>2. CrawlInv /\ [Next]_vars => CrawlInv'
  BY NextKeeps
<1> QED
  BY <1>1, <1>2, PTL DEF Spec
-----------------------------------------------------------------------------
(* What the invariant is for.                                              *)

(* The state of a crawl keeps its types; in particular no more goroutines  *)
(* than the semaphore has room for are between Acquire and their return.   *)
THEOREM TypeCorrect == Spec => []TypeOK
<1>1. CrawlInv => TypeOK
  <2> SUFFICES ASSUME CrawlInv PROVE TypeOK
    OBVIOUS
  <2>1. ShapeInv /\ SlotsCounted /\ AtLeastOne(MaxConcurrency) \in Nat
    BY ConstantTypes DEF CrawlInv
  <2>2. DOMAIN acc \subseteq Key /\ \A k \in DOMAIN acc : acc[k] \in Result
    BY <2>1 DEF ShapeInv, Table
  <2>3. sem \in 0..AtLeastOne(MaxConcurrency)
    BY <2>1, FS_CardinalityType DEF SlotsCounted
  <2> QED
    BY <2>1, <2>2, <2>3 DEF ShapeInv, TypeOK, Contribution, Auxiliary
<1> QED
  BY <1>1, CrawlInvariant, PTL

(* Whatever the site and however many fetches are in flight, the crawl     *)
(* that follows links sends at most MaxPages requests: the counter and the *)
(* comparison of StartFetch are one step, under s.mu.                      *)
THEOREM LinksKeepBudget == Spec => []LinksWithinBudget
<1>1. CrawlInv => LinksWithinBudget
  BY DEF CrawlInv, BudgetInv
<1> QED
  BY <1>1, CrawlInvariant, PTL

(* The accumulator never holds more endpoints than its limit, and each is  *)
(* the sum of everything that was handed to Add for it, in whatever order  *)
(* the goroutines did so.                                                  *)
THEOREM EndpointsAddUp == Spec => []EndpointsMerged
<1>1. CrawlInv => EndpointsMerged
  BY DEF CrawlInv, Merged, Merges, Mine, EndpointsMerged
<1> QED
  BY <1>1, CrawlInvariant, PTL

(* No URL is sent a second GET by one crawl, by whichever of its sources,  *)
(* forms and links it is found: they all share the visited set.            *)
THEOREM NeverFetchedTwice == Spec => []FetchedOnce
<1>1. CrawlInv => FetchedOnce
  <2> SUFFICES ASSUME CrawlInv, NEW u \in Url PROVE requests[u] <= 1
    BY DEF FetchedOnce
  <2>1. CASE <<"GET", u>> \notin visited
    BY <2>1 DEF CrawlInv, FetchInv
  <2>2. CASE <<"GET", u>> \in visited \ DOMAIN task
    BY <2>2 DEF CrawlInv, FetchInv
  <2>3. CASE <<"GET", u>> \in DOMAIN task
    BY <2>3, TaskFacts DEF TaskInv, TaskPC
  <2> QED
    BY <2>1, <2>2, <2>3
<1> QED
  BY <1>1, CrawlInvariant, PTL

(* A crawl that ended of itself, within both budgets, has dispatched every *)
(* seed in scope and, of every page above the deepest level, every link in *)
(* scope; every one it found with GET was sent exactly once, and every     *)
(* form is recorded.                                                       *)
THEOREM CrawlsComplete == Spec => []CrawlComplete
<1>1. CrawlInv => CrawlComplete
  <2> SUFFICES ASSUME CrawlInv, main.pc = "done", ~cancelled, ~OverBudget, ~Full
               PROVE  /\ \A u \in ToSet(Seeds) \cap Scope : <<"GET", u>> \in visited
                      /\ \A k \in DOMAIN task :
                            task[k].pc = "answered" /\ task[k].cand.depth < MaxDepth =>
                            \A l \in ToSet(Content[k[2]].links) : l.url \in Scope =>
                               /\ <<l.method, l.url>> \in visited
                               /\ l.method = "POST" => <<"POST", Template[l.url]>> \in DOMAIN acc
                               /\ l.method = "GET" => requests[l.url] = 1
    BY DEF CrawlComplete
  <2>1. frontier = <<>> /\ nextFrontier = <<>>
    <3>1. nextFrontier = <<>> /\ (main.depth > MaxDepth \/ frontier = <<>>)
      BY DEF CrawlInv, DepthInv
    <3>2. ASSUME frontier # <<>>
          PROVE  FALSE
      <4>1. PICK i \in DOMAIN frontier : Head(frontier) = frontier[i]
        BY <3>2, QueueType, FewerCandidates
      <4>2. main.depth <= MaxDepth
        BY <4>1 DEF CrawlInv, DepthInv
      <4> QED
        BY <3>1, <3>2, <4>2, QueueType, ConstantTypes
    <3> QED
      BY <3>1, <3>2
  <2>2. \A key : Scheduled(key) => key \in visited
    BY <2>1 DEF Scheduled, Waits
  <2>3. FoundScheduled
    BY DEF CrawlInv, CompleteInv
  <2>4. \A u \in ToSet(Seeds) \cap Scope : <<"GET", u>> \in visited
    BY <2>2, <2>3 DEF FoundScheduled
  <2>5. ASSUME NEW k \in DOMAIN task, task[k].pc = "answered", task[k].cand.depth < MaxDepth,
               NEW l \in ToSet(Content[k[2]].links), l.url \in Scope
        PROVE  /\ <<l.method, l.url>> \in visited
               /\ l.method = "POST" => <<"POST", Template[l.url]>> \in DOMAIN acc
               /\ l.method = "GET" => requests[l.url] = 1
    <3>1. PICK key : key = <<l.method, l.url>>
      OBVIOUS
    <3>2. key \in visited /\ key[1] = l.method /\ key[2] = l.url
      BY <2>2, <2>3, <2>5, <3>1 DEF FoundScheduled
    <3>3. CASE key \in DOMAIN task
      <4>1. TaskInv(key) /\ task[key].pc \in TaskPC
        BY <3>3, TaskFacts
      <4>2. task[key].pc \in {"answered", "finished"}
        BY <4>1 DEF TaskInv
      <4>3. l.method = "GET" => requests[l.url] = 1
        BY <3>2, <4>1, <4>2 DEF TaskInv
      <4>4. ASSUME l.method = "POST" PROVE <<"POST", Template[l.url]>> \in DOMAIN acc
        <5>1. PICK c \in contributed : c.key = <<"POST", Template[l.url]>>
          BY <3>2, <4>1, <4>2, <4>4 DEF TaskInv
        <5>2. Admits(acc)
          <6>1. Cardinality(DOMAIN acc) \in Nat /\ AtLeastOne(MaxEndpoints) \in Nat
            BY ConstantTypes, FS_CardinalityType DEF CrawlInv, Merged
          <6> QED
            BY <6>1 DEF Full, Admits
        <5> QED
          BY <5>1, <5>2 DEF CrawlInv, Merged
      <4> QED
        BY <3>1, <3>2, <4>3, <4>4
    <3>4. CASE key \notin DOMAIN task
      BY <3>1, <3>2, <3>4 DEF CrawlInv, FetchInv
    <3> QED
      BY <3>3, <3>4
  <2> QED
    BY <2>4, <2>5
<1> QED
  BY <1>1, CrawlInvariant, PTL
=============================================================================
