----------------------------- MODULE Assistant -----------------------------
(* The investigation assistant: a task reads its evidence, bounds it, asks  *)
(* a provider under a limiter, keeps of the answer what the evidence covers *)
(* and audits it; a chat stores the question before and the answer after.   *)
(* One action is one SQL statement, one call of the limiter or one attempt  *)
(* at the provider. Callers of one service share its limiter.               *)
(* internal/service/ai, internal/ai, internal/repository/ai, the ai commands.*)
EXTENDS Integers, SequencesExt, FiniteSetsExt

CONSTANTS None,
          Commands,      \* command -> [kind, on, target, session, user, service, provider, save]
          SessionTable,  \* session -> [target, inv, user]
          Stored,        \* row a task is about -> part of its evidence -> the facts, as listed
          TargetOf,      \* row a task is about -> target
          Events, Notes, \* timeline and notes of investigations at the start
          Registered,    \* providers
          PerUser, PerTarget, MaxConcurrent, Window,   \* limiter
          MaxFactsPerType, MaxTotalFacts, PageSize, MaxRetries,
          Stranger,      \* a citation of nothing that is stored
          Emerging,      \* one that is spelled only around another: "[type:[other]id]"
          Scenarios,     \* [commands, disturbances]: the commands given together and how much goes wrong
          Start, MaxTime                    \* bounds of the model; a failing statement and a tick are disturbances

ASSUME LimitsPositive == /\ {PerUser, PerTarget, MaxConcurrent, Window} \subseteq Nat \ {0}
                         /\ {MaxFactsPerType, MaxTotalFacts, PageSize} \subseteq Nat \ {0}
                         /\ MaxRetries \in Nat /\ Start \in Nat
ASSUME CommandsGiven == \A together \in Scenarios : together.commands \in Seq(DOMAIN Commands)
\* A new session has an identity of its own.
ASSUME SessionsAreNew == \A together \in Scenarios : \A i, j \in DOMAIN together.commands :
    LET one == Commands[together.commands[i]]
        two == Commands[together.commands[j]]
    IN  one.kind = "new" /\ two.kind = "new" /\ one.session = two.session => i = j

VARIABLES clock, left, given,
          limiter,     \* service -> [inFlight, byUser, byTarget]: what it allowed, and when
          sessions, messages, requests, responses, timeline, notes,
          task,        \* command -> where it is and what it holds
          past         \* history: admissions, answers whose audit failed, questions cleared
vars == <<clock, left, given, limiter, sessions, messages, requests, responses, timeline, notes, task, past>>
store == <<sessions, messages, requests, responses, timeline, notes>>

-----------------------------------------------------------------------------
(* Evidence and answers.                                                   *)

\* Fact types by name: the order Truncate visits them in.
Alphabetical == <<"alert", "asset", "attack_chain", "correlation", "detection", "edge", "event",
                  "finding", "intelligence", "investigation", "note", "stage">>
NameRank(type) == CHOOSE n \in DOMAIN Alphabetical : Alphabetical[n] = type

\* Stable descending sort by time of the types' groups, one after another.
Newer(facts, i, j) ==
    \/ facts[i].at > facts[j].at
    \/ facts[i].at = facts[j].at /\ NameRank(facts[i].type) < NameRank(facts[j].type)
    \/ facts[i].at = facts[j].at /\ facts[i].type = facts[j].type /\ i < j
Newest(facts, of, n) == {i \in of : Cardinality({j \in of : Newer(facts, j, i)}) < n}

Truncate(facts) ==
    LET group(t) == {i \in DOMAIN facts : facts[i].type = t}
        perType  == UNION {Newest(facts, group(t), MaxFactsPerType) : t \in ToSet(Alphabetical)}
        kept     == Newest(facts, perType, MaxTotalFacts)
    IN  [facts |-> {facts[i] : i \in kept}, cut |-> kept # DOMAIN facts]

OfType(facts, type) == {f \in facts : f.type = type}

\* A citation names a fact; the text of a fact may quote citations of anything: of a note
\* its content, saved answers among them, of a row its title.
Citation(f)        == [type |-> f.type, id |-> f.id]
CitationSet(facts) == {Citation(f) : f \in facts}
Quoted(facts)      == UNION {f.quotes : f \in facts}
Rendered(facts)    == CitationSet(facts) \cup Quoted(facts)

\* The citations a task's own rendering of the evidence carries: it repeats the text of facts.
CitedBySummary(kind, facts) == IF kind \in {"gaps", "questions"} THEN {} ELSE Rendered(facts)
CitedByExplanation(kind, facts) ==
    LET about == CASE kind = "alert" -> "alert" [] kind = "detection" -> "detection"
                   [] kind = "correlation" -> "correlation" [] kind = "chain" -> "stage"
                   [] OTHER -> "intelligence"
    IN  Rendered(IF kind = "intelligence" \/ OfType(facts, about) = {} THEN OfType(facts, about) ELSE facts)
Cited(kind, facts) ==
    IF kind \in {"alert", "detection", "correlation", "chain", "intelligence"}
    THEN CitedByExplanation(kind, facts) ELSE CitedBySummary(kind, facts)

\* What a provider may send back: a narration of the evidence, its text repeated with what that
\* quotes, and citations of what is not there, alone, within another or with an attribution.
RawAnswers(facts) ==
    LET told  == [cites |-> CitationSet(facts), around |-> {}, attributes |-> FALSE, blank |-> FALSE]
        stray == [told EXCEPT !.cites = {Stranger}]
    IN  {told, [told EXCEPT !.cites = Rendered(facts)],
         [told EXCEPT !.cites = @ \cup {Stranger}, !.around = {[inner |-> Stranger, outer |-> Emerging]}],
         [stray EXCEPT !.blank = TRUE], [stray EXCEPT !.attributes = TRUE]}

\* ValidateCitations goes over the text once: what it removes may leave another citation behind.
ValidateCitations(raw, valid) ==
    LET removed == raw.cites \ valid
    IN  [cites |-> (raw.cites \cap valid) \cup {n.outer : n \in {m \in raw.around : m.inner \in removed}},
         removed |-> removed]

\* The text goes out as it came, its fabricated citations only counted.
ValidateOutput_Mistake(raw, valid, fallback) ==
    IF raw.attributes THEN [cites |-> fallback, removed |-> {}]
    ELSE [cites |-> raw.cites, removed |-> raw.cites \ valid]

\* An attribution discards the narration; citations outside the evidence are removed from it;
\* a narration with nothing left gives way to the task's own rendering, which nothing checks.
ValidateOutput(raw, valid, fallback) ==
    LET cleaned == ValidateCitations(raw, valid)
    IN  IF raw.attributes THEN [cites |-> fallback, removed |-> {}]
        ELSE [cites   |-> IF raw.blank /\ cleaned.cites = {} THEN fallback ELSE cleaned.cites,
              removed |-> cleaned.removed]

DeriveConfidence(facts, cut, removed) ==
    IF facts = {} \/ removed # {} THEN "low"
    ELSE IF ~cut /\ Cardinality(facts) >= 4 THEN "high"
    ELSE "medium"

\* What Assistant.Run makes of the evidence and the provider's content.
Answer(kind, facts, cut, raw) ==
    LET outcome == ValidateOutput(raw, CitationSet(facts), Cited(kind, facts))
    IN  [cites |-> outcome.cites, confidence |-> DeriveConfidence(facts, cut, outcome.removed)]

-----------------------------------------------------------------------------
(* Commands and what they are about.                                       *)

Of(c) == Commands[given[c]]

InvestigationKinds == {"summary", "report", "gaps", "questions", "timeline"}

\* The request of a command: a chat takes it from its session.
ChatRequest(s) == [kind |-> "chat", on |-> IF SessionTable[s].inv = None THEN SessionTable[s].target ELSE SessionTable[s].inv,
                   inv |-> SessionTable[s].inv, target |-> SessionTable[s].target,
                   user |-> SessionTable[s].user, session |-> s]
RequestTable == [x \in DOMAIN Commands |->
    LET cmd == Commands[x]
    IN  IF cmd.kind = "chat" THEN ChatRequest(cmd.session)
        ELSE [kind |-> cmd.kind, on |-> cmd.on, user |-> cmd.user, target |-> cmd.target, session |-> None,
              inv  |-> IF cmd.kind \in InvestigationKinds /\ "evidence" \in DOMAIN Stored[cmd.on]
                       THEN cmd.on ELSE None]]
TaskRequest(c) == RequestTable[given[c]]

\* What a task is about belongs to a target.
ASSUME RowsHaveTargets == \A x \in DOMAIN Commands :
    Commands[x].kind \notin {"new", "clear", "delete", "approve"} => RequestTable[x].on \in DOMAIN TargetOf

\* The reads a context is built from, in order.
InvestigationContext == <<"anchor", "evidence", "timeline", "notes">>
AlertContext         == <<"anchor", "match">>
DetectionContext     == <<"anchor">>
CorrelationContext   == <<"anchor", "nodes", "edges", "chain">>
TargetContext        == <<"findings", "assets", "intelligence">>
ContextOf(req) ==
    CASE req.kind = "alert" -> AlertContext
      [] req.kind = "detection" -> DetectionContext
      [] req.kind \in {"correlation", "chain"} -> CorrelationContext
      [] req.inv # None -> InvestigationContext
      [] OTHER -> TargetContext

Numbered(rows, type, inv) ==
    LET fact(n) == [type |-> type, id |-> n, at |-> rows[n].at, quotes |-> rows[n].quotes]
        ofInv   == SelectSeq([n \in DOMAIN rows |-> n], LAMBDA n : rows[n].inv = inv)
    IN  [n \in DOMAIN ofInv |-> fact(ofInv[n])]

\* A listing starts at its oldest row and ends with its page.
FirstOf(rows, n) == IF Len(rows) <= n THEN rows ELSE SubSeq(rows, 1, n)
Listed(req, part) ==
    CASE part = "timeline" -> FirstOf(Numbered(timeline, "event", req.inv), PageSize)
      [] part = "notes"    -> Numbered(notes, "note", req.inv)
      [] part = "evidence" -> FirstOf(Stored[req.on].evidence, PageSize)
      [] part \in ToSet(TargetContext) -> FirstOf(Stored[req.on][part], MaxFactsPerType)
      [] OTHER -> Stored[req.on][part]

\* What remains of a part when a statement fails: of attached evidence any of the rows may fail
\* to be resolved, of a chain the stages, of the others the listing itself.
Remains(part, rows) ==
    CASE part = "evidence" -> {RemoveAt(rows, n) : n \in DOMAIN rows} \cup {<<>>}
      [] part = "chain"    -> {<<>>, FirstOf(rows, 1)}
      [] OTHER             -> {<<>>}

-----------------------------------------------------------------------------
(* Where a command is.                                                     *)

Idle == [pc |-> "done", facts |-> <<>>, parts |-> <<>>, evidence |-> {}, cut |-> FALSE,
         target |-> None, attempt |-> 0, answer |-> None]
FirstStep(c) == CASE Of(c).kind = "chat" -> "open" 
                  [] Of(c).kind \in {"new", "clear", "delete", "approve"} -> Of(c).kind
                  [] OTHER -> "read"
Begin(c) == [Idle EXCEPT !.pc = FirstStep(c),
                         !.parts = IF FirstStep(c) = "read" THEN ContextOf(TaskRequest(c)) ELSE <<>>]

Quiet == [inFlight |-> 0, byUser |-> [u \in {RequestTable[x].user : x \in DOMAIN Commands} |-> {}],
          byTarget |-> [t \in {TargetOf[x] : x \in DOMAIN TargetOf} |-> {}]]

Init ==
    /\ clock = Start
    /\ limiter = [s \in {Commands[x].service : x \in DOMAIN Commands} |-> Quiet]
    /\ sessions = DOMAIN SessionTable \ {Commands[x].session : x \in {y \in DOMAIN Commands : Commands[y].kind = "new"}}
    /\ messages = {} /\ requests = {} /\ responses = {}
    /\ timeline = Events /\ notes = Notes
    /\ \E together \in Scenarios : given = together.commands /\ left = together.disturbances
    /\ task = [c \in DOMAIN given |-> Begin(c)]
    /\ past = [admitted |-> {}, unaudited |-> {}, cleared |-> {}]

At(c, step)  == task[c].pc = step
Goes(c, step) == task' = [task EXCEPT ![c].pc = step]
Ends(c)      == task' = [task EXCEPT ![c] = Idle]
Disturbance  == left > 0 /\ left' = left - 1

-----------------------------------------------------------------------------
(* Sessions.                                                               *)

\* An INSERT of a message, the latest row of its table, fails when its session is gone. The
\* session is touched right after; nothing reads the time that leaves.
Said(s, role, c) ==
    messages \cup {[n |-> Max({m.n : m \in messages} \cup {0}) + 1, session |-> s, role |-> role, by |-> c]}

NewSession(c) ==
    /\ At(c, "new") /\ Ends(c)
    /\ sessions' = sessions \cup (IF SessionTable[Of(c).session].target = None \/ Of(c).user = None THEN {}
                                  ELSE {Of(c).session})
    /\ UNCHANGED <<given, clock, left, limiter, messages, requests, responses, timeline, notes, past>>

OpenChat(c) ==
    /\ At(c, "open")
    /\ IF Of(c).session \in sessions THEN Goes(c, "ask") ELSE Ends(c)
    /\ UNCHANGED <<given, clock, left, limiter, store, past>>

Ask(c) ==
    /\ At(c, "ask")
    /\ IF Of(c).session \in sessions
       THEN /\ messages' = Said(Of(c).session, "user", c)
            /\ task' = [task EXCEPT ![c].pc = "read", ![c].parts = ContextOf(TaskRequest(c))]
       ELSE Ends(c) /\ UNCHANGED messages
    /\ UNCHANGED <<given, clock, left, limiter, sessions, requests, responses, timeline, notes, past>>

\* The answer is stored once the task has been audited and its slot given back.
Reply(c) ==
    /\ At(c, "reply") /\ Ends(c)
    /\ messages' = IF Of(c).session \in sessions THEN Said(Of(c).session, "assistant", c) ELSE messages
    /\ UNCHANGED <<given, clock, left, limiter, sessions, requests, responses, timeline, notes, past>>

\* The statement that stores or loads for the chat fails: the command ends with its error.
ChatFails(c) ==
    /\ task[c].pc \in {"open", "ask", "reply"}
    /\ Disturbance /\ Ends(c)
    /\ UNCHANGED <<given, clock, limiter, store, past>>

ClearSession(c) ==
    /\ At(c, "clear") /\ Ends(c)
    /\ messages' = {m \in messages : m.session # Of(c).session}
    /\ past' = [past EXCEPT !.cleared = @ \cup {m.by : m \in messages \ messages'}]
    /\ UNCHANGED <<given, clock, left, limiter, sessions, requests, responses, timeline, notes>>

\* Deleting a session takes its messages along and leaves its requests without it.
DeleteSession(c) ==
    LET s == Of(c).session
    IN  /\ At(c, "delete") /\ Ends(c)
        /\ sessions' = sessions \ {s}
        /\ messages' = {m \in messages : m.session # s}
        /\ requests' = {IF r.session = s THEN [r EXCEPT !.session = None] ELSE r : r \in requests}
        /\ UNCHANGED <<given, clock, left, limiter, responses, timeline, notes, past>>

-----------------------------------------------------------------------------
(* A task.                                                                 *)

Reading(c) == At(c, "read") /\ task[c].parts # <<>>

ReadPart(c) ==
    /\ Reading(c)
    /\ task' = [task EXCEPT ![c].facts = @ \o Listed(TaskRequest(c), Head(task[c].parts)), ![c].parts = Tail(@)]
    /\ UNCHANGED <<given, clock, left, limiter, store, past>>

\* Without its anchor there is no context; any other part is left out silently.
PartFails(c) ==
    /\ Reading(c) /\ Disturbance
    /\ IF Head(task[c].parts) = "anchor" THEN Ends(c)
       ELSE \E rows \in {Listed(TaskRequest(c), Head(task[c].parts))} :
            \E rest \in Remains(Head(task[c].parts), rows) :
                task' = [task EXCEPT ![c].facts = @ \o rest, ![c].parts = Tail(@)]
    /\ UNCHANGED <<given, clock, limiter, store, past>>

\* resolveOrCheckTarget: a request without a target takes the evidence's.
Target(req) == IF req.target = None THEN TargetOf[req.on] ELSE req.target
Acceptable(req) == Target(req) = TargetOf[req.on] /\ req.user # None

\* A limiter that drops what it has seen in earlier ticks.
Prune_Mistake(allowed) == {a \in allowed : a.at > clock - 1}
Prune(allowed) == {a \in allowed : a.at > clock - Window}

Pruned(l, user, target) == [l EXCEPT !.byUser[user] = Prune(@), !.byTarget[target] = Prune(@)]
Allowed(l, user, target) ==
    /\ l.inFlight < MaxConcurrent
    /\ Cardinality(l.byUser[user]) < PerUser
    /\ Cardinality(l.byTarget[target]) < PerTarget
Counted(l, user, target, c) ==
    [l EXCEPT !.byUser[user] = @ \cup {[by |-> c, at |-> clock]},
              !.byTarget[target] = @ \cup {[by |-> c, at |-> clock]}, !.inFlight = @ + 1]

\* The context is bounded, the target checked, the limiter asked.
Admit(c) ==
    LET req == TaskRequest(c)
        t   == Target(req)
        s   == Of(c).service
        l   == Pruned(limiter[s], req.user, t)
        ctx == Truncate(task[c].facts)
    IN  /\ At(c, "read") /\ task[c].parts = <<>>
        /\ Acceptable(req) /\ Allowed(l, req.user, t)
        /\ limiter' = [limiter EXCEPT ![s] = Counted(l, req.user, t, c)]
        /\ past' = [past EXCEPT !.admitted = @ \cup {[by |-> c, at |-> clock]}]
        /\ task' = [task EXCEPT ![c].pc = IF Of(c).provider \in Registered THEN "attempt" ELSE "release",
                                ![c].facts = <<>>, ![c].evidence = ctx.facts, ![c].cut = ctx.cut, ![c].target = t]
        /\ UNCHANGED <<given, clock, left, store>>

Refuse(c) ==
    LET req == TaskRequest(c)
        t   == Target(req)
        s   == Of(c).service
        l   == Pruned(limiter[s], req.user, t)
    IN  /\ At(c, "read") /\ task[c].parts = <<>> /\ Ends(c)
        /\ IF Acceptable(req) THEN ~Allowed(l, req.user, t) /\ limiter' = [limiter EXCEPT ![s] = l]
                              ELSE UNCHANGED limiter
        /\ UNCHANGED <<given, clock, left, store, past>>

\* A provider answers, fails, or is given up on when the request's deadline passes.
ProviderAnswers(c) ==
    /\ At(c, "attempt")
    /\ \E raw \in RawAnswers(task[c].evidence) :
           task' = [task EXCEPT ![c].pc = "request",
                                ![c].answer = Answer(TaskRequest(c).kind, task[c].evidence, task[c].cut, raw)]
    /\ UNCHANGED <<given, clock, left, limiter, store, past>>

\* A failed attempt starts the count again.
NextAttempt_Mistake(n) == 0
NextAttempt(n) == n + 1

ProviderFails(c) ==
    /\ At(c, "attempt")
    /\ \E expired \in BOOLEAN :
           IF expired \/ NextAttempt(task[c].attempt) > MaxRetries THEN Goes(c, "release")
           ELSE task' = [task EXCEPT ![c].pc = "backoff", ![c].attempt = NextAttempt(@)]
    /\ UNCHANGED <<given, clock, left, limiter, store, past>>

BackOff(c) ==
    /\ At(c, "backoff")
    /\ \E expired \in BOOLEAN : Goes(c, IF expired THEN "release" ELSE "attempt")
    /\ UNCHANGED <<given, clock, left, limiter, store, past>>

-----------------------------------------------------------------------------
(* The audit of a task.                                                    *)

\* A response is stored only for tasks about an investigation.
AfterRequest_Mistake(c) == IF TaskRequest(c).inv # None THEN "response" ELSE "release"
AfterRequest(c) == "response"
CreateRequest(c) ==
    LET req == TaskRequest(c)
        row == [by |-> c, kind |-> req.kind, target |-> task[c].target, inv |-> req.inv,
                session |-> req.session, evidence |-> task[c].evidence]
    IN  /\ At(c, "request")
        /\ IF req.session \in sessions \cup {None}
           THEN requests' = requests \cup {row} /\ Goes(c, AfterRequest(c))
           ELSE Goes(c, "release") /\ UNCHANGED requests
        /\ UNCHANGED <<given, clock, left, limiter, sessions, messages, responses, timeline, notes, past>>

RequestFails(c) ==
    /\ At(c, "request") /\ Disturbance /\ Goes(c, "release")
    /\ past' = [past EXCEPT !.unaudited = @ \cup {c}]
    /\ UNCHANGED <<given, clock, limiter, store>>

AfterResponse(c) == IF TaskRequest(c).inv # None THEN "event" ELSE "release"
CreateResponse(c) ==
    /\ At(c, "response") /\ Goes(c, AfterResponse(c))
    /\ responses' = responses \cup
           {[by |-> c, cites |-> task[c].answer.cites, confidence |-> task[c].answer.confidence]}
    /\ UNCHANGED <<given, clock, left, limiter, sessions, messages, requests, timeline, notes, past>>

ResponseFails(c) ==
    /\ At(c, "response") /\ Disturbance /\ Goes(c, AfterResponse(c))
    /\ past' = [past EXCEPT !.unaudited = @ \cup {c}]
    /\ UNCHANGED <<given, clock, limiter, store>>

Recorded(inv, kind, c) == Append(timeline, [inv |-> inv, kind |-> kind, by |-> c, at |-> clock, quotes |-> {}])
RecordAnalysis(c) ==
    /\ At(c, "event") /\ Goes(c, "release")
    /\ timeline' = Recorded(TaskRequest(c).inv, "ai_analysis_generated", c)
    /\ UNCHANGED <<given, clock, left, limiter, sessions, messages, requests, responses, notes, past>>

AfterRelease(c) ==
    IF task[c].answer = None THEN "done"
    ELSE IF Of(c).kind = "chat" THEN "reply"
    ELSE IF Of(c).save THEN "note"
    ELSE "done"
Release(c) ==
    LET s == Of(c).service
    IN  /\ At(c, "release")
        /\ limiter' = [limiter EXCEPT ![s].inFlight = IF @ > 0 THEN @ - 1 ELSE @]
        /\ IF AfterRelease(c) = "done" THEN Ends(c) ELSE Goes(c, AfterRelease(c))
        /\ UNCHANGED <<given, clock, left, store, past>>

-----------------------------------------------------------------------------
(* Notes.                                                                  *)

\* A draft is the answer word for word, its citations with it.
SaveNote(c) ==
    /\ At(c, "note") /\ Goes(c, "announce")
    /\ notes' = Append(notes, [inv |-> Of(c).on, at |-> clock, ai |-> TRUE, by |-> c, approved |-> None,
                               quotes |-> task[c].answer.cites])
    /\ UNCHANGED <<given, clock, left, limiter, sessions, messages, requests, responses, timeline, past>>

\* Any note can be approved, and again.
ApproveNote(c) ==
    /\ At(c, "approve")
    /\ IF Of(c).on \in DOMAIN notes
       THEN notes' = [notes EXCEPT ![Of(c).on].approved = Of(c).user] /\ Goes(c, "announce")
       ELSE Ends(c) /\ UNCHANGED notes
    /\ UNCHANGED <<given, clock, left, limiter, sessions, messages, requests, responses, timeline, past>>

AnnounceNote(c) ==
    /\ At(c, "announce") /\ Ends(c)
    /\ timeline' = IF Of(c).kind = "approve"
                   THEN Recorded(notes[Of(c).on].inv, "ai_note_approved", c)
                   ELSE Recorded(Of(c).on, "ai_note_created", c)
    /\ UNCHANGED <<given, clock, left, limiter, sessions, messages, requests, responses, notes, past>>

\* The statements of notes and timeline may fail: a timeline entry is left out, a note ends the command.
NoteFails(c) ==
    /\ task[c].pc \in {"note", "approve", "event", "announce", "new", "clear", "delete"}
    /\ Disturbance
    /\ IF At(c, "event") THEN Goes(c, "release") ELSE Ends(c)
    /\ UNCHANGED <<given, clock, limiter, store, past>>

-----------------------------------------------------------------------------
Step(c) ==
    \/ NewSession(c) \/ OpenChat(c) \/ Ask(c) \/ Reply(c) \/ ChatFails(c) \/ ClearSession(c) \/ DeleteSession(c)
    \/ ReadPart(c) \/ PartFails(c) \/ Admit(c) \/ Refuse(c) \/ ProviderAnswers(c) \/ ProviderFails(c) \/ BackOff(c)
    \/ CreateRequest(c) \/ RequestFails(c) \/ CreateResponse(c) \/ ResponseFails(c) \/ RecordAnalysis(c) \/ Release(c)
    \/ SaveNote(c) \/ ApproveNote(c) \/ AnnounceNote(c) \/ NoteFails(c)

Tick == clock < MaxTime /\ Disturbance /\ clock' = clock + 1 /\ UNCHANGED <<limiter, store, task, given, past>>

Next == Tick \/ \E c \in DOMAIN given : Step(c)

Spec == Init /\ [][Next]_vars

\* A command runs on until it ends: statements are answered, a provider's client and
\* the request both have a deadline.
Slots == UNION {DOMAIN together.commands : together \in Scenarios}
FairSpec == Spec /\ \A c \in Slots : WF_vars(c \in DOMAIN given /\ Step(c))

-----------------------------------------------------------------------------
(* Properties.                                                             *)

\* A citation of an answer is of the evidence or stands in its text; the one exception is a
\* citation that came out around a removed one, and then the confidence is low.
Grounded(answer, facts) ==
    answer.cites \subseteq Rendered(facts) \cup (IF answer.confidence = "low" THEN {Emerging} ELSE {})

\* Whatever a provider sent, and whatever drafts and notes quote, an audited response is grounded
\* in the evidence its own audited request was built from, and that request is filed under the
\* target of the row it is about.
AnswersGrounded ==
    \A a \in responses : \E r \in requests :
        /\ r.by = a.by
        /\ Grounded(a, r.evidence)
        /\ r.target = TargetOf[TaskRequest(r.by).on]

\* An answer in a session comes after its question, unless that was cleared meanwhile, and
\* can be traced to its audited request and response, unless a statement of the audit failed.
AnswersAudited ==
    \A m \in messages : m.role = "assistant" =>
        /\ \/ m.by \in past.cleared
           \/ \E q \in messages : q.role = "user" /\ q.by = m.by /\ q.n < m.n
        /\ \/ m.by \in past.unaudited
           \/ \E a \in responses : a.by = m.by

\* The tasks of a service between its limiter's leave and their release.
Holding(s) == {c \in DOMAIN given : /\ Of(c).service = s
                                    /\ task[c].pc \in {"attempt", "backoff", "request", "response", "event", "release"}}

\* However tasks of one service overlap, no window of time admits more of a user's or a target's
\* tasks than its limit, and the tasks in flight are exactly those that hold a slot.
LimitsHold ==
    /\ \A s \in DOMAIN limiter :
           /\ limiter[s].inFlight <= MaxConcurrent
           /\ limiter[s].inFlight = Cardinality(Holding(s))
    /\ \A a \in past.admitted :
           LET window == {b \in past.admitted : /\ Of(b.by).service = Of(a.by).service
                                               /\ b.at \in (a.at - Window + 1)..a.at}
           IN  /\ Cardinality({b \in window : TaskRequest(b.by).user = TaskRequest(a.by).user}) <= PerUser
               /\ Cardinality({b \in window : Target(TaskRequest(b.by)) = Target(TaskRequest(a.by))}) <= PerTarget

\* Every command ends, whatever its provider does.
TasksEnd == <>(\A c \in DOMAIN given : task[c].pc = "done")
=============================================================================
