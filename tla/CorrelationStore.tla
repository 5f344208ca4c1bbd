-------------------------- MODULE CorrelationStore --------------------------
(* Correlations in the database: evaluations that write a component one    *)
(* statement at a time, and analysts who confirm, dismiss, merge, split    *)
(* and attach to investigations while they do. A merge or a split is a     *)
(* transaction, READ COMMITTED: each of its statements sees what is        *)
(* committed by then and its own writes, which nobody else sees before it  *)
(* commits.                                                                *)
(* internal/service/correlation, internal/repository/correlation and the   *)
(* correlation commands of cmd/cli/commands.                               *)
EXTENDS CorrelationGraph

CONSTANTS Evaluators, Attachers,  \* processes: correlation evaluate, correlation investigate
          Analysts,               \* processes: correlation merge, correlation split
          Catalog,                \* the observations that can be recorded, a sequence in listing order
          Windows,                \* the ranges an evaluation may be asked for: [from, to)
          MaxRows,                \* bound: rows of correlations
          MaxDisturbances,        \* bound: analysts' acts, overlapping evaluations and failing statements together
          MaxSources,             \* bound: correlations a merge names
          SplitSizes              \* how many nodes a split names

ASSUME CorrelationBounds ==
    /\ {MaxRows, MaxDisturbances, MaxSources} \subseteq Nat /\ SplitSizes \subseteq Nat \ {0}
    /\ TemporalWindow \in Nat \ {0} /\ {MaxNodes, MaxEdges, MaxCandidates} \subseteq Nat

VARIABLES corr, node,    \* tables, a row's id is its index
          edge,          \* correlation_edges: a set, the unique index is the identity
          chain, stages, \* attack_chains by correlation; how often each stage row was inserted
          investigation, \* investigations created from correlations
          ev, att, tx,   \* local state of evaluations, attachments and transactions
          disturbed,
          stored, moved, raced \* history: what evaluations completed; who was restructured, who was written into since

vars == <<corr, node, edge, chain, stages, investigation, ev, att, tx, disturbed,
          stored, moved, raced>>
tables == <<corr, node, edge, chain, stages>>
history == <<stored, moved, raced>>

Statuses == {"open", "investigating", "confirmed", "resolved", "dismissed"}
Roles == {"trigger", "supporting"}
ById == [n \in {Catalog[i].id : i \in DOMAIN Catalog} |->
           CHOOSE o \in {Catalog[i] : i \in DOMAIN Catalog} : o.id = n]

-----------------------------------------------------------------------------
(* What the listings turn into observations: the fields each type carries.  *)
(* Listing pages are one read; the ids a match or an alert is resolved      *)
(* through are the asset of its observation.                                *)

FindingShape(o) == o.ip = None /\ o.rule = None /\ o.indicator = None
AssetShape(o) == o.asset # None /\ o.category = None /\ o.severity = NoSeverity
EndpointShape(o) == o.asset # None /\ o.category = None /\ o.severity = NoSeverity
IntelligenceShape(o) == o.asset = None /\ o.ip = None /\ o.severity = NoSeverity
\* A match carries its rule's category apart from the category of a finding.
MatchShape(o) == o.rule # None /\ o.category = None /\ o.ip = None
AlertShape(o) == o.rule = None /\ o.category = None /\ o.ip = None

ASSUME CatalogShape ==
    /\ Catalog \in Seq(ToSet(Catalog))
    /\ \A i, j \in DOMAIN Catalog : Catalog[i].id = Catalog[j].id => i = j
    /\ \A i \in DOMAIN Catalog :
        LET o == Catalog[i] IN
        /\ o.id \in Nat /\ o.at \in Nat /\ o.severity \in (-1)..4 /\ o.conf \in DOMAIN Rank
        /\ \/ o.type = "finding" /\ FindingShape(o)
           \/ o.type = "asset" /\ AssetShape(o)
           \/ o.type = "endpoint" /\ EndpointShape(o)
           \/ o.type = "intelligence_record" /\ IntelligenceShape(o)
           \/ o.type = "detection_match" /\ MatchShape(o)
           \/ o.type = "alert" /\ AlertShape(o)

EvPC == {"idle", "component", "nodes", "edges", "chain", "stages", "done"}
\* The window, the components left and the current one by their nodes, the row, the
\* nodes left and the node ids known so far, the position in the later phases,
\* whether nothing failed.
EmptyEv == [pc |-> "idle", window |-> <<>>, todo |-> {}, nodes |-> {}, id |-> 0, left |-> {},
            ids |-> <<>>, at |-> 1, clean |-> TRUE]
AttPC == {"idle", "read", "created", "done"}

\* A merge or a split: where its nodes go, the row a split creates (to is 0 then), the
\* sources so far, the nodes about to move, and what moved. What it writes is in the tables
\* with its commit.
TxPC == {"none", "open", "nodes", "edges"}
NoTx == [pc |-> "none", to |-> 0, row |-> <<>>, from |-> <<>>, nodes |-> {}, moving |-> {},
         edges |-> {}]

Init ==
    /\ corr = <<>> /\ node = <<>> /\ edge = {} /\ chain = {} /\ stages = EmptyBag
    /\ investigation = <<>>
    /\ ev = [e \in Evaluators |-> EmptyEv]
    /\ att = [a \in Attachers |-> [pc |-> "idle", id |-> 0, refs |-> {}, inv |-> 0]]
    /\ tx = [a \in Analysts |-> NoTx]
    /\ disturbed = 0
    /\ stored = {} /\ moved = {} /\ raced = {}

-----------------------------------------------------------------------------
(* Statements.                                                             *)

\* Bounds: MaxDisturbances acts of analysts and evaluations that begin while another runs,
\* and a failing statement is the last of them.
Disturb == disturbed < MaxDisturbances /\ disturbed' = disturbed + 1
Fails == disturbed < MaxDisturbances /\ disturbed' = MaxDisturbances

NodesOf(c) == {i \in DOMAIN node : node[i].corr = c}
EdgesTouching_Inner(ids) == {x \in edge : x.src \in ids /\ x.dst \in ids}
EdgesTouching(ids) == {x \in edge : x.src \in ids \/ x.dst \in ids}

Latest(a, b) == IF a > b THEN a ELSE b

Matching(table, fp) == {i \in DOMAIN table : table[i].fingerprint = fp}
IdOf(table, fp) == CHOOSE i \in DOMAIN table : table[i].fingerprint = fp

\* ON CONFLICT (fingerprint): what analysts decided, and the first severity, stay.
UpsertCorrelation(table, row) ==
    IF Matching(table, row.fingerprint) = {} THEN Append(table, row)
    ELSE LET i == IdOf(table, row.fingerprint)
         IN [table EXCEPT ![i].last = Latest(table[i].last, row.last), ![i].score = row.score]

CreateNode_Plain(c, ref, role) == Append(node, [corr |-> c, ref |-> ref, role |-> role])
CreateNode(c, ref, role) ==
    IF \E i \in NodesOf(c) : node[i].ref = ref THEN node
    ELSE Append(node, [corr |-> c, ref |-> ref, role |-> role])

\* The id RETURNING gives, of the new row or of the one the conflict found.
SavedNode_InsertedOnly(table, c, ref) ==
    IF Len(table) > Len(node) THEN Len(table) ELSE 0
SavedNode(table, c, ref) == CHOOSE i \in DOMAIN table : table[i].corr = c /\ table[i].ref = ref

\* UPDATE ... SET correlation_id: refused by the index when the correlation
\* already has a node for one of the references.
CanReassign(ids, c) ==
    LET after == [i \in DOMAIN node |-> IF i \in ids THEN [node[i] EXCEPT !.corr = c] ELSE node[i]]
    IN \A i, j \in DOMAIN node : i # j => <<after[i].corr, after[i].ref>> # <<after[j].corr, after[j].ref>>
ReassignNodes(ids, c) ==
    [i \in DOMAIN node |-> IF i \in ids THEN [node[i] EXCEPT !.corr = c] ELSE node[i]]

EdgeId(x) == <<x.src, x.dst, x.rel, x.strategy>>
Named(ids) == {x \in edge : EdgeId(x) \in ids}
CanReassignEdges(xs, c) ==
    Cardinality({[x EXCEPT !.corr = c] : x \in xs} \cup (edge \ xs)) = Cardinality(edge)
ReassignEdges(xs, c) == {[x EXCEPT !.corr = c] : x \in xs} \cup (edge \ xs)

\* Whoever needs a row that a transaction updated, or a key of the unique index that it
\* takes or gives up, waits for its end. A node that changes its correlation changes a key:
\* a new edge, whose foreign keys lock its ends, waits for it too.
Locked(others) == UNION {tx[b].moving : b \in others}
LockedEdges(others) == UNION {tx[b].edges : b \in others}
KeyLocked(others, c, ref) ==
    \E b \in others : \E i \in tx[b].moving : node[i].ref = ref /\ c \in {node[i].corr, tx[b].to} \ {0}
EdgeLocked(x) ==
    IF x \in edge THEN EdgeId(x) \in LockedEdges(Analysts) ELSE {x.src, x.dst} \cap Locked(Analysts) # {}

-----------------------------------------------------------------------------
(* Evaluation.                                                             *)

ValidCorrelation(c) ==
    /\ c.status \in Statuses /\ c.score \in 0..100
    /\ c.severity \in {Severities[i] : i \in DOMAIN Severities} /\ c.confidence \in DOMAIN Rank
    /\ {c.mergedInto, c.splitFrom} \subseteq 0..Len(corr)
ValidNode(n) == n.corr \in DOMAIN corr /\ n.ref \in DOMAIN ById /\ n.role \in Roles
ValidEdge(x) == x.corr \in DOMAIN corr /\ {x.src, x.dst} \subseteq DOMAIN node /\ x.src # x.dst
ValidStage(s) == s.conf \in DOMAIN Rank /\ s.evidence # {}

NewCorrelation(comp) ==
    LET score == Score(comp, ById)
        conf  == ConfidenceForScore(score)
        times == {ById[n].at : n \in comp.nodes}
    IN [fingerprint |-> Fingerprint(comp, ById), status |-> "open", score |-> score,
        confidence |-> conf, severity |-> DeriveSeverity(comp, ById, conf),
        last |-> CHOOSE t \in times : \A u \in times : u <= t,
        inv |-> 0, mergedInto |-> 0, mergedFrom |-> <<>>, splitFrom |-> 0]

BuildObservations(window) ==
    Picked(Catalog, {i \in DOMAIN Catalog : window[1] <= Catalog[i].at /\ Catalog[i].at < window[2]})

\* What an evaluation of a window finds, and the chain of each component.
Components == [w \in Windows |-> ConnectedComponents(BuildGraph(Correlate(BuildObservations(w))))]
AllComponents == UNION {Components[w] : w \in Windows}
Chains == [c \in AllComponents |-> BuildChain(c, ById)]

Rows == [c \in AllComponents |-> NewCorrelation(c)]

\* newCorrelationEvaluateCommand and Service.Evaluate up to the components;
\* a dry run ends here and is not an action: it changes nothing.
Evaluate(e) ==
    /\ ev[e].pc = "idle"
    /\ IF \A f \in Evaluators : ev[f].pc \in {"idle", "done"} THEN UNCHANGED disturbed ELSE Disturb
    /\ \E w \in Windows :
         ev' = [ev EXCEPT ![e].pc = "component", ![e].window = w,
                          ![e].todo = {c.nodes : c \in Components[w]}]
    /\ UNCHANGED <<tables, investigation, att, tx, history>>

\* The components come in the order of their smallest key.
First(sets) == CHOOSE c \in sets : \A d \in sets : \E n \in c : \A m \in d : n <= m

ComponentOf(w, nodes) == CHOOSE c \in Components[w] : c.nodes = nodes
Component(e) == ComponentOf(ev[e].window, ev[e].nodes)

\* Inside a component whose row has the id: no node saved so far, nothing failed.
NoneSaved(nodes) == [n \in nodes |-> 0]
Entered(e, nodes, id) ==
    [ev[e] EXCEPT !.pc = "nodes", !.todo = @ \ {nodes}, !.nodes = nodes, !.id = id, !.left = nodes,
                  !.ids = NoneSaved(nodes), !.at = 1, !.clean = TRUE]

PersistComponent(e) ==
    /\ ev[e].pc = "component" /\ ev[e].todo # {}
    /\ LET nodes == First(ev[e].todo)
           row   == Rows[ComponentOf(ev[e].window, nodes)]
           table == UpsertCorrelation(corr, row)
       IN \/ /\ corr' = table
             /\ ev' = [ev EXCEPT ![e] = Entered(e, nodes, IdOf(table, row.fingerprint))]
             /\ UNCHANGED disturbed
          \/ /\ Fails
             /\ ev' = [ev EXCEPT ![e].todo = @ \ {nodes}]
             /\ UNCHANGED corr
    /\ UNCHANGED <<node, edge, chain, stages, investigation, att, tx, history>>

\* The correlations that open merges take the nodes from.
Sources(a) == ToSet(tx[a].from) \ {tx[a].to}
Emptying == UNION {Sources(a) : a \in Analysts}

\* Evaluations whose component's row was merged or split write into it all the same.
Writes(e, restructured) == raced' = IF ev[e].id \in restructured THEN raced \cup {ev[e].id} ELSE raced

\* The local state after one more item of a phase: the next one, or the next phase.
Advance(e, size, pc) ==
    IF ev[e].at = size THEN [ev[e] EXCEPT !.pc = pc, !.at = 1] ELSE [ev[e] EXCEPT !.at = @ + 1]

\* A component has no edge where its only node lost the other end to the node limit.
AfterNodes(e) == IF Component(e).edges = <<>> THEN "chain" ELSE "edges"
PastNode(e, n) ==
    [ev[e] EXCEPT !.left = @ \ {n}, !.pc = IF ev[e].left = {n} THEN AfterNodes(e) ELSE @]

PersistNode(e) ==
    /\ ev[e].pc = "nodes"
    /\ LET n     == CHOOSE n \in ev[e].left : \A m \in ev[e].left : n <= m
           role  == IF IsTrigger(Component(e), n) THEN "trigger" ELSE "supporting"
           table == CreateNode(ev[e].id, n, role)
           next  == PastNode(e, n)
       IN \/ /\ ~KeyLocked(Analysts, ev[e].id, n)
             /\ node' = table /\ Writes(e, moved \cup Emptying) /\ UNCHANGED disturbed
             /\ ev' = [ev EXCEPT ![e] = [next EXCEPT !.ids[n] = SavedNode(table, ev[e].id, n)]]
          \/ /\ Fails /\ UNCHANGED <<node, raced>>
             /\ ev' = [ev EXCEPT ![e] = [next EXCEPT !.clean = FALSE]]
    /\ UNCHANGED <<corr, edge, chain, stages, investigation, att, tx, stored, moved>>

\* An edge with an end whose node failed is skipped.
PersistEdge(e) ==
    /\ ev[e].pc = "edges"
    /\ LET x   == Component(e).edges[ev[e].at]
           src == ev[e].ids[x.src]
           dst == ev[e].ids[x.dst]
           missing == 0 \in {src, dst}
           next == Advance(e, Len(Component(e).edges), "chain")
           row == [corr |-> ev[e].id, src |-> src, dst |-> dst, rel |-> x.rel, strategy |-> x.strategy]
       IN \/ /\ ~missing /\ ~EdgeLocked(row)
             /\ edge' = edge \cup {row} /\ Writes(e, moved) /\ UNCHANGED disturbed
             /\ ev' = [ev EXCEPT ![e] = next]
          \/ /\ missing
             /\ ev' = [ev EXCEPT ![e] = next] /\ UNCHANGED <<edge, raced, disturbed>>
          \/ /\ ~missing /\ Fails
             /\ ev' = [ev EXCEPT ![e] = [next EXCEPT !.clean = FALSE]]
             /\ UNCHANGED <<edge, raced>>
    /\ UNCHANGED <<corr, node, chain, stages, investigation, att, tx, stored, moved>>

Drafts(e) == Chains[Component(e)]
Completed(e) ==
    IF ev[e].clean THEN stored \cup {[id |-> ev[e].id, window |-> ev[e].window, nodes |-> ev[e].nodes]}
    ELSE stored

\* CreateChain upserts by correlation.
PersistChain(e) ==
    /\ ev[e].pc = "chain"
    /\ \/ /\ chain' = IF Drafts(e) = <<>> THEN chain
                      ELSE {c \in chain : c.corr # ev[e].id}
                             \cup {[corr |-> ev[e].id, confidence |-> ChainConfidence(Drafts(e)),
                                    severity |-> corr[ev[e].id].severity]}
          /\ ev' = [ev EXCEPT ![e].pc = IF Drafts(e) = <<>> THEN "component" ELSE "stages"]
          /\ stored' = IF Drafts(e) = <<>> THEN Completed(e) ELSE stored
          /\ UNCHANGED disturbed
       \/ /\ Drafts(e) # <<>> /\ Fails
          /\ ev' = [ev EXCEPT ![e].pc = "component"]
          /\ UNCHANGED <<chain, stored>>
    /\ UNCHANGED <<corr, node, edge, stages, investigation, att, tx, moved, raced>>

\* The rows are a bag: a plain INSERT, so an evaluation repeated adds them again.
PersistStage(e) ==
    /\ ev[e].pc = "stages"
    /\ LET s    == Drafts(e)[ev[e].at]
           row  == [corr |-> ev[e].id, stage |-> s.stage, conf |-> s.conf]
           next == Advance(e, Len(Drafts(e)), "component")
           after == IF next.pc = "component" THEN Completed(e) ELSE stored
       IN \/ /\ ValidStage(s)
             /\ stages' = stages (+) SetToBag({row})
             /\ ev' = [ev EXCEPT ![e] = next] /\ stored' = after /\ UNCHANGED disturbed
          \/ /\ ~ValidStage(s)   \* logged and skipped
             /\ ev' = [ev EXCEPT ![e] = next] /\ stored' = after /\ UNCHANGED <<stages, disturbed>>
          \/ /\ ValidStage(s) /\ Fails
             /\ ev' = [ev EXCEPT ![e] = [next EXCEPT !.clean = FALSE]]
             /\ UNCHANGED <<stages, stored>>
    /\ UNCHANGED <<corr, node, edge, chain, investigation, att, tx, moved, raced>>

FinishEvaluation(e) ==
    /\ ev[e].pc = "component" /\ ev[e].todo = {}
    /\ ev' = [ev EXCEPT ![e] = [EmptyEv EXCEPT !.pc = "done"]]
    /\ UNCHANGED <<tables, investigation, att, tx, disturbed, history>>

-----------------------------------------------------------------------------
(* Analysts.                                                               *)

\* An unconditional UPDATE.
SetStatus(c, s) ==
    /\ Disturb
    /\ corr' = [corr EXCEPT ![c].status = s]
    /\ UNCHANGED <<node, edge, chain, stages, investigation, ev, att, tx, history>>

\* Whatever the status was: neither statement looks at it.
Confirm == \E c \in DOMAIN corr : corr[c].status # "confirmed" /\ SetStatus(c, "confirmed")
Dismiss == \E c \in DOMAIN corr : corr[c].status # "dismissed" /\ SetStatus(c, "dismissed")

\* Merge: the survivor is an argument, and so are the sources, one of which is taken when
\* its turn comes.
BeginMerge(a) ==
    /\ tx[a].pc = "none" /\ Disturb
    /\ \E survivor \in DOMAIN corr : tx' = [tx EXCEPT ![a] = [NoTx EXCEPT !.pc = "open", !.to = survivor]]
    /\ UNCHANGED <<tables, investigation, ev, att, history>>

\* The survivor among the sources is skipped; without nodes the updates that follow do nothing.
ListNodes(a) ==
    /\ tx[a].pc = "open" /\ tx[a].row = <<>> /\ Len(tx[a].from) < MaxSources
    /\ \E source \in DOMAIN corr :
         LET listed == IF source = tx[a].to THEN {} ELSE NodesOf(source) \ tx[a].moving
         IN tx' = [tx EXCEPT ![a].from = Append(@, source), ![a].nodes = listed,
                             ![a].pc = IF listed = {} THEN "open" ELSE "nodes"]
    /\ UNCHANGED <<tables, investigation, ev, att, disturbed, history>>

\* Split: the nodes are those named, whichever correlation holds them; the row is a copy of
\* the original's, of which the transaction knows the id already.
SplitRow(original) ==
    [corr[original] EXCEPT !.status = "open", !.inv = 0, !.mergedInto = 0, !.mergedFrom = <<>>,
                           !.splitFrom = original]

BeginSplit(a) ==
    /\ tx[a].pc = "none" /\ Disturb /\ Len(corr) < MaxRows
    /\ \E original \in DOMAIN corr, ids \in SUBSET DOMAIN node :
         /\ Cardinality(ids) \in SplitSizes
         /\ tx' = [tx EXCEPT ![a] = [NoTx EXCEPT !.pc = "nodes", !.row = <<SplitRow(original)>>, !.nodes = ids]]
    /\ UNCHANGED <<tables, investigation, ev, att, history>>

MoveNodes(a) ==
    /\ tx[a].pc = "nodes"
    /\ LET others == Analysts \ {a}
       IN /\ tx[a].nodes \cap Locked(others) = {}
          /\ \A i \in tx[a].nodes : ~KeyLocked(others, tx[a].to, node[i].ref)
    /\ CanReassign(tx[a].moving \cup tx[a].nodes, tx[a].to)
    /\ tx' = [tx EXCEPT ![a].moving = @ \cup tx[a].nodes, ![a].pc = "edges"]
    /\ UNCHANGED <<tables, investigation, ev, att, disturbed, history>>

\* EdgesTouching and ReassignEdges: the edges to nodes that stay behind move along. Between
\* the two the list cannot change, the nodes it was asked for being locked.
MoveEdges(a) ==
    LET found == {EdgeId(x) : x \in EdgesTouching(tx[a].nodes)} IN
    /\ tx[a].pc = "edges"
    /\ found \cap LockedEdges(Analysts \ {a}) = {}
    /\ CanReassignEdges(Named(tx[a].edges \cup found), tx[a].to)
    /\ tx' = [tx EXCEPT ![a].edges = @ \cup found, ![a].nodes = {}, ![a].pc = "open"]
    /\ UNCHANGED <<tables, investigation, ev, att, disturbed, history>>

\* MarkMergedInto and AppendMergedFrom touch columns that only merges write and that no
\* statement before the commit reads.
Marked(a) ==
    [c \in DOMAIN corr |->
       IF c \in Sources(a) THEN [corr[c] EXCEPT !.mergedInto = tx[a].to]
       ELSE IF c = tx[a].to THEN [corr[c] EXCEPT !.mergedFrom = @ \o tx[a].from] ELSE corr[c]]
SplitOff(row) == Append(corr, [row EXCEPT !.fingerprint = <<"split", @, Len(corr) + 1>>])

\* A merge into a correlation that was merged itself, or is being, leaves it nodes.
Overtaken(a) == \E c \in DOMAIN corr : c = tx[a].to /\ (corr[c].mergedInto # 0 \/ c \in Emptying)

Commit(a) ==
    LET r     == tx[a]
        id    == IF r.row = <<>> THEN r.to ELSE Len(corr) + 1
        edges == Named(r.edges)
    IN /\ r.pc = "open"
       /\ \/ r.from # <<>> /\ corr' = Marked(a)
          \/ r.row # <<>> /\ Len(corr) < MaxRows /\ corr' = SplitOff(r.row[1])
       /\ node' = ReassignNodes(r.moving, id) /\ edge' = ReassignEdges(edges, id)
       /\ moved' = moved \cup Sources(a) \cup {node[i].corr : i \in r.moving} \cup {x.corr : x \in edges} \cup {id}
       /\ raced' = IF Overtaken(a) THEN raced \cup {id} ELSE raced
       /\ tx' = [tx EXCEPT ![a] = NoTx]
       /\ UNCHANGED <<chain, stages, investigation, ev, att, disturbed, stored>>

\* An error at any statement, a unique index that refuses or a deadlock that is broken.
Rollback(a) ==
    /\ tx[a].pc # "none"
    /\ tx' = [tx EXCEPT ![a] = NoTx]
    /\ UNCHANGED <<tables, investigation, ev, att, disturbed, history>>

Merge(a) == BeginMerge(a) \/ ListNodes(a)
Split(a) == BeginSplit(a)
Restructure(a) == MoveNodes(a) \/ MoveEdges(a) \/ Commit(a) \/ Rollback(a)

\* AttachToInvestigation: the check and the nodes, the investigation with its
\* evidence, and last the correlation's own row.
ReadForAttachment(a) ==
    /\ att[a].pc = "idle" /\ Disturb
    /\ \E c \in DOMAIN corr :
         /\ corr[c].inv = 0
         /\ att' = [att EXCEPT ![a] = [pc |-> "read", id |-> c, inv |-> 0,
                                       refs |-> {node[i].ref : i \in NodesOf(c)}]]
    /\ UNCHANGED <<tables, investigation, ev, tx, history>>

Attachable(ref) == ById[ref].type # "intelligence_record"

CreateInvestigation(a) ==
    /\ att[a].pc = "read"
    /\ investigation' = Append(investigation,
                          [of |-> att[a].id, evidence |-> {r \in att[a].refs : Attachable(r)},
                           chain |-> \E c \in chain : c.corr = att[a].id])
    /\ att' = [att EXCEPT ![a].pc = "created", ![a].inv = Len(investigation) + 1]
    /\ UNCHANGED <<tables, ev, tx, disturbed, history>>

\* Best effort: the error is logged and the investigation stays.
SetInvestigation(a) ==
    /\ att[a].pc = "created"
    /\ att' = [att EXCEPT ![a].pc = "done"]
    /\ \/ /\ corr' = [corr EXCEPT ![att[a].id].inv = att[a].inv, ![att[a].id].status = "investigating"]
          /\ UNCHANGED disturbed
       \/ Fails /\ UNCHANGED corr
    /\ UNCHANGED <<node, edge, chain, stages, investigation, ev, tx, history>>

EvaluatorStep(e) ==
    \/ PersistComponent(e) \/ PersistNode(e) \/ PersistEdge(e)
    \/ PersistChain(e) \/ PersistStage(e) \/ FinishEvaluation(e)

Next ==
    \/ \E e \in Evaluators : Evaluate(e) \/ EvaluatorStep(e)
    \/ \E a \in Attachers : ReadForAttachment(a) \/ CreateInvestigation(a) \/ SetInvestigation(a)
    \/ Confirm \/ Dismiss
    \/ \E a \in Analysts : Merge(a) \/ Split(a) \/ Restructure(a)

\* A started evaluation runs on; nobody has to start one or to act on a correlation.
Spec == Init /\ [][Next]_vars /\ \A e \in Evaluators : WF_vars(EvaluatorStep(e))

-----------------------------------------------------------------------------
(* Type invariant: rows, statuses and references are what the schema says. *)
TypeOK ==
    /\ \A i \in DOMAIN corr : ValidCorrelation(corr[i])
    /\ \A i \in DOMAIN node : ValidNode(node[i])
    /\ \A i, j \in DOMAIN node : i # j => <<node[i].corr, node[i].ref>> # <<node[j].corr, node[j].ref>>
    /\ \A x \in edge : ValidEdge(x)
    /\ \A e \in Evaluators : ev[e].pc \in EvPC
    /\ \A a \in Attachers : att[a].pc \in AttPC
    /\ \A a \in Analysts : tx[a].pc \in TxPC

\* What the union-find of ConnectedComponents returns for a window is what reachability
\* says: each is connected by its own edges, and no edge of one touches another.
Exact ==
    [w \in Windows |-> \A c \in Components[w] :
        /\ \A n \in c.nodes : Reachable(c, n) = c.nodes
        /\ \A i \in DOMAIN c.edges : {c.edges[i].src, c.edges[i].dst} \subseteq c.nodes
        /\ \A d \in Components[w] : c # d => c.nodes \cap d.nodes = {}]

(* The components an evaluation is about to store are the connected parts of  *)
(* its window's graph, whatever the limits cut (ConnectedComponents).         *)
ComponentsExact ==
    \A e \in Evaluators : ev[e].pc = "component" => Exact[ev[e].window]

\* What tells the edges of a component apart; and no limit cuts the edges of a component
\* in one window and leaves them in another.
KeysOf(c) == {EdgeKey(c.edges[i]) : i \in DOMAIN c.edges}
WindowsAgree ==
    \A v, w \in Windows : \A c \in Components[v], d \in Components[w] :
        c.nodes = d.nodes => KeysOf(c) = KeysOf(d)

(* A correlation that an evaluation wrote without an error and that nobody  *)
(* merged or split holds exactly its component: every reference once and    *)
(* every edge between their nodes, however many evaluations wrote it, at    *)
(* the same time or one after the other (the upserts of persistComponent).  *)
EvaluatedStored ==
    \A s \in stored : s.id \notin moved =>
        /\ {node[i].ref : i \in NodesOf(s.id)} = s.nodes
        /\ Cardinality(NodesOf(s.id)) = Cardinality(s.nodes)
        /\ {<<node[x.src].ref, node[x.dst].ref, x.rel, x.strategy>> : x \in {y \in edge : y.corr = s.id}}
             = KeysOf(ComponentOf(s.window, s.nodes))

(* Merging and splitting, one after the other or at the same time, keep the *)
(* graph together: an edge is always in the correlation of one of its two   *)
(* nodes, and a merged correlation keeps neither node nor edge. What can    *)
(* leave something behind is an evaluation that writes into a correlation   *)
(* restructured before, or that adds a node to one after a merge listed its *)
(* nodes; or a merge into one that is merged itself, before or meanwhile.   *)
GraphsHoldTogether ==
    /\ \A x \in edge : x.corr \notin raced => x.corr \in {node[x.src].corr, node[x.dst].corr}
    /\ \A c \in DOMAIN corr : corr[c].mergedInto # 0 /\ c \notin raced =>
         NodesOf(c) = {} /\ \A x \in edge : x.corr # c

(* An evaluation never touches what an analyst decided about a correlation  *)
(* it finds again: status, investigation and merge marks survive the upsert.*)
DecisionsKept ==
    [][ev' # ev => \A c \in DOMAIN corr :
         /\ corr'[c].status = corr[c].status /\ corr'[c].inv = corr[c].inv
         /\ corr'[c].mergedInto = corr[c].mergedInto]_vars
=============================================================================
