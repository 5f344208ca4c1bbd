------------------------- MODULE Assistant_proofs -------------------------
(* The limits, the grounding and the audit of the assistant, for any        *)
(* commands given together and any limits: proofs of Assistant's invariants.*)
EXTENDS Assistant, FiniteSetTheorems, WellFoundedInduction, NaturalsInduction, TLAPS

-----------------------------------------------------------------------------
(* The inductive invariant.                                                *)

Services == {Commands[x].service : x \in DOMAIN Commands}
Users    == {RequestTable[x].user : x \in DOMAIN Commands}
Targets  == {TargetOf[x] : x \in DOMAIN TargetOf}
Entry    == [by: Nat, at: Nat]
Limiter  == [inFlight: Nat, byUser: [Users -> SUBSET Entry], byTarget: [Targets -> SUBSET Entry]]

Managing == {"new", "clear", "delete", "approve"}
Slotted  == {"attempt", "backoff", "request", "response", "event", "release"}

IsTask(t) ==
    t = [pc |-> t.pc, facts |-> t.facts, parts |-> t.parts, evidence |-> t.evidence,
         cut |-> t.cut, target |-> t.target, attempt |-> t.attempt, answer |-> t.answer]
IsAnswer(a) == a = [cites |-> a.cites, confidence |-> a.confidence]
IsRequest(r) ==
    r = [by |-> r.by, kind |-> r.kind, target |-> r.target, inv |-> r.inv,
         session |-> r.session, evidence |-> r.evidence]

(* What a variable looks like; facts, citations and notes are left open.   *)
ShapeInv ==
    /\ clock \in Nat
    /\ given \in Seq(DOMAIN Commands)
    /\ \A i, j \in DOMAIN given :
          Of(i).kind = "new" /\ Of(j).kind = "new" /\ Of(i).session = Of(j).session => i = j
    /\ task = [c \in DOMAIN given |-> task[c]]
    /\ \A c \in DOMAIN given : IsTask(task[c])
    /\ limiter \in [Services -> Limiter]
    /\ \A r \in requests : IsRequest(r)
    /\ IsFiniteSet(messages)
    /\ \A m \in messages : /\ m.n \in Nat /\ m.by \in DOMAIN given
                           /\ m.session = Of(m.by).session
    /\ past = [admitted |-> past.admitted, unaudited |-> past.unaudited, cleared |-> past.cleared]

(* The limiter remembers all that its window still covers.                 *)
AdmittedFor(s) == {b \in past.admitted : Of(b.by).service = s}
Remembers(s, l) ==
    /\ \A u \in Users :
          /\ IsFiniteSet(l.byUser[u])
          /\ {b \in AdmittedFor(s) : TaskRequest(b.by).user = u /\ b.at > clock - Window} \subseteq l.byUser[u]
    /\ \A t \in Targets :
          /\ IsFiniteSet(l.byTarget[t])
          /\ {b \in AdmittedFor(s) : Target(TaskRequest(b.by)) = t /\ b.at > clock - Window} \subseteq l.byTarget[t]
Remembered ==
    /\ IsFiniteSet(past.admitted)
    /\ \A b \in past.admitted : b \in Entry /\ b.by \in DOMAIN given /\ b.at <= clock
    /\ \A s \in Services : Remembers(s, limiter[s])

LimiterInv == Remembered /\ LimitsHold

Chats(c) == Of(c).kind = "chat"
Gone(c)  == Of(c).session \notin sessions

Requested(c, t) == \E r \in requests : r.by = c /\ r.evidence = t.evidence /\ r.target = t.target
QuestionStands(c) ==
    \/ c \in past.cleared
    \/ Gone(c)
    \/ \E q \in messages : q.role = "user" /\ q.by = c
Audited(c) ==
    \/ c \in past.unaudited
    \/ Gone(c)
    \/ \E a \in responses : a.by = c

(* What a command relies on at each of its steps.                          *)
CommandInv(c, t) ==
    /\ t.pc \in {"read"} \cup Slotted => Of(c).kind \notin Managing
    /\ t.pc \in {"open", "ask", "reply"} => Chats(c)
    /\ t.pc = "new" => Of(c).kind = "new"
    /\ t.pc \in {"open", "ask", "read", "attempt", "backoff"} => t.answer = None
    /\ t.pc \in {"attempt", "backoff", "request", "response"} => t.target = TargetOf[TaskRequest(c).on]
    /\ t.pc \in {"request", "response"} => IsAnswer(t.answer) /\ Grounded(t.answer, t.evidence)
    /\ t.pc = "response" => Requested(c, t)
    /\ Chats(c) /\ t.pc \in {"read", "reply"} \cup Slotted => QuestionStands(c)
    /\ Chats(c) /\ t.pc \in {"event", "release", "reply"} /\ t.answer # None => Audited(c)
    /\ t.pc = "reply" => t.answer # None

(* A session that is still to be created has no chat under way.            *)
FreshInv == \A c \in DOMAIN given : task[c].pc = "new" =>
    /\ Gone(c)
    /\ \A d \in DOMAIN given : Chats(d) /\ Of(d).session = Of(c).session =>
          task[d].pc \in {"open", "done"}

AuditInv ==
    /\ \A c \in DOMAIN given : CommandInv(c, task[c])
    /\ FreshInv
    /\ AnswersGrounded
    /\ AnswersAudited

AssistantInv == ShapeInv /\ LimiterInv /\ AuditInv
-----------------------------------------------------------------------------
(* The number of a new row.                                                *)

(* A finite set of naturals has a greatest element: otherwise take one of  *)
(* the smallest sets that have none, and remove an element.                *)
LEMMA GreatestExists ==
    ASSUME NEW S \in SUBSET Nat, IsFiniteSet(S), S # {}
    PROVE  \E m \in S : \A x \in S : x <= m
<1> DEFINE Greatest(U) == \E m \in U : \A x \in U : x <= m
           Bad(n) == \E U \in SUBSET Nat :
                        IsFiniteSet(U) /\ U # {} /\ Cardinality(U) = n /\ ~Greatest(U)
           T == {n \in Nat : Bad(n)}
<1>1. SUFFICES ASSUME T # {} PROVE FALSE
  BY FS_CardinalityType
<1>2. T \subseteq Nat
  OBVIOUS
<1>3. PICK n \in T : \A k \in T : ~ (<<k, n>> \in OpToRel(<, Nat))
  BY <1>1, <1>2, NatLessThanWellFounded, WFMin
<1>4. \A k \in T : ~ (k < n)
  BY <1>2, <1>3 DEF OpToRel
<1>5. PICK U \in SUBSET Nat : IsFiniteSet(U) /\ U # {} /\ Cardinality(U) = n /\ ~Greatest(U)
  OBVIOUS
<1>6. PICK x \in U : TRUE
  BY <1>5
<1> DEFINE V == U \ {x}
<1>7. IsFiniteSet(V) /\ Cardinality(V) = n - 1 /\ Cardinality(V) \in Nat /\ V \in SUBSET Nat
  BY <1>5, FS_RemoveElement, FS_CardinalityType
<1>8. CASE V = {}
  <2>1. \A y \in U : y <= x
    BY <1>8
  <2> QED
    BY <1>5, <1>6, <2>1
<1>9. CASE V # {}
  <2>1. ~Bad(n - 1)
    BY <1>4, <1>7
  <2>2. PICK m \in V : \A y \in V : y <= m
    BY <1>7, <1>9, <2>1
  <2>3. \A y \in U : y <= (IF x <= m THEN m ELSE x)
    BY <1>6, <2>2
  <2> QED
    BY <1>5, <1>6, <2>2, <2>3
<1> QED
  BY <1>8, <1>9

(* Max(S) is that element.                                                 *)
LEMMA MaxIsGreatest ==
    ASSUME NEW S \in SUBSET Nat, NEW m \in S, \A x \in S : x <= m
    PROVE  Max(S) = m
<1>1. m \in S /\ \A y \in S : m >= y
  OBVIOUS
<1>2. Max(S) \in S /\ \A y \in S : Max(S) >= y
  BY <1>1, Zenon DEF Max
<1>3. m \in Nat /\ Max(S) \in Nat /\ Max(S) >= m /\ m >= Max(S)
  BY <1>1, <1>2
<1> QED
  BY <1>3

LEMMA MaxProperty ==
    ASSUME NEW S \in SUBSET Nat, IsFiniteSet(S), S # {}
    PROVE  Max(S) \in S /\ \A x \in S : x <= Max(S)
<1>1. PICK m \in S : \A x \in S : x <= m
  BY GreatestExists
<1> QED
  BY <1>1, MaxIsGreatest

LEMMA NewRowIsLatest ==
    ASSUME IsFiniteSet(messages), \A m \in messages : m.n \in Nat
    PROVE  LET latest == Max({m.n : m \in messages} \cup {0}) + 1
           IN  latest \in Nat /\ \A m \in messages : m.n < latest
<1> DEFINE N == {m.n : m \in messages}
           S == N \cup {0}
<1>1. IsFiniteSet(N)
  <2>1. PICK f : f = [m \in messages |-> m.n]
    OBVIOUS
  <2>2. f \in [messages -> N] /\ \A k \in N : \E m \in messages : f[m] = k
    BY <2>1
  <2>3. f \in Surjection(messages, N)
    BY <2>2 DEF Surjection
  <2> QED
    BY <2>3, FS_Surjection
<1>2. IsFiniteSet(S) /\ S \in SUBSET Nat /\ S # {}
  <2>1. N \in SUBSET Nat
    OBVIOUS
  <2> HIDE DEF N
  <2> QED
    BY <1>1, <2>1, FS_AddElement
<1>3. \A m \in messages : m.n \in S /\ m.n \in Nat
  OBVIOUS
<1> HIDE DEF S
<1>4. Max(S) \in Nat /\ \A x \in S : x <= Max(S)
  BY <1>2, MaxProperty
<1>5. PICK k : k = Max(S)
  OBVIOUS
<1>6. k + 1 \in Nat /\ \A m \in messages : m.n < k + 1
  BY <1>3, <1>4, <1>5
<1> QED
  BY <1>5, <1>6 DEF S
-----------------------------------------------------------------------------
(* Tasks.                                                                  *)

LEMMA IdleTask ==
    IsTask(Idle) /\ Idle.pc = "done" /\ \A c : CommandInv(c, Idle) /\ CommandInv(c, Idle)'
<1>1. IsTask(Idle) /\ Idle.pc = "done"
  BY DEF IsTask, Idle
<1> QED
  BY <1>1 DEF CommandInv, Slotted

LEMMA TaskChanges ==
    ASSUME ShapeInv, NEW c \in DOMAIN given, NEW t, task' = [task EXCEPT ![c] = t]
    PROVE  /\ task'[c] = t
           /\ \A d \in DOMAIN given \ {c} : task'[d] = task[d]
           /\ task' = [d \in DOMAIN given |-> task'[d]]
<1>1. task = [d \in DOMAIN given |-> task[d]]
  BY DEF ShapeInv
<1>2. DOMAIN task = DOMAIN given
  BY <1>1
<1>3. task' = [d \in DOMAIN given |-> IF d = c THEN t ELSE task[d]]
  BY <1>1, <1>2
<1> QED
  BY <1>3

LEMMA GoesTask ==
    ASSUME ShapeInv, NEW c \in DOMAIN given, NEW p, Goes(c, p)
    PROVE  \E t : /\ task' = [task EXCEPT ![c] = t] /\ IsTask(t) /\ t.pc = p
                  /\ t.evidence = task[c].evidence /\ t.target = task[c].target
                  /\ t.answer = task[c].answer
<1>1. PICK old : old = task[c]
  OBVIOUS
<1>2. PICK t : t = [old EXCEPT !.pc = p]
  OBVIOUS
<1>3. IsTask(old)
  BY <1>1 DEF ShapeInv
<1>4. /\ IsTask(t) /\ t.pc = p /\ t.evidence = old.evidence /\ t.target = old.target
      /\ t.answer = old.answer
  BY <1>2, <1>3 DEF IsTask
<1>5. task' = [task EXCEPT ![c] = t]
  BY <1>1, <1>2 DEF Goes
<1> QED
  BY <1>1, <1>4, <1>5

LEMMA GivenKept ==
    ASSUME given' = given
    PROVE  \A c : /\ Of(c)' = Of(c) /\ TaskRequest(c)' = TaskRequest(c)
                  /\ Chats(c)' <=> Chats(c)
BY DEF Of, TaskRequest, Chats

LEMMA StoreSame ==
    ASSUME UNCHANGED <<given, sessions, messages, requests, responses, past>>, NEW c, NEW t
    PROVE  CommandInv(c, t)' <=> CommandInv(c, t)
BY DEF CommandInv, Chats, Of, TaskRequest, Requested, QuestionStands, Audited, Gone

(* What one command does to the parts of the store the others rely on.     *)
LEMMA CommandsKeep ==
    ASSUME ShapeInv, AuditInv, NEW c \in DOMAIN given, given' = given,
           NEW t, task' = [task EXCEPT ![c] = t], CommandInv(c, t)', t.pc # "new",
           Chats(c) /\ t.pc \notin {"open", "done"} =>
               task[c].pc \notin {"open", "done"} \/ ~Gone(c),
           \A r \in requests : \E q \in requests' :
               q.by = r.by /\ q.evidence = r.evidence /\ q.target = r.target,
           responses \subseteq responses', past.unaudited \subseteq past'.unaudited,
           \A d \in DOMAIN given \ {c} : Chats(d) /\ task[d].pc \notin {"open", "done"} =>
               (QuestionStands(d) => QuestionStands(d)') /\ (Gone(d) => Gone(d)'),
           \A d \in DOMAIN given \ {c} : task[d].pc = "new" => Gone(d)'
    PROVE  /\ \A d \in DOMAIN given : CommandInv(d, task[d])'
           /\ FreshInv'
<1>1. /\ task'[c] = t
      /\ \A d \in DOMAIN given \ {c} : task'[d] = task[d]
  BY TaskChanges
<1>2. \A d : /\ Of(d)' = Of(d) /\ TaskRequest(d)' = TaskRequest(d) /\ Chats(d)' <=> Chats(d)
  BY GivenKept
<1>3. ASSUME NEW d \in DOMAIN given \ {c} PROVE CommandInv(d, task[d])'
  <2>1. CommandInv(d, task[d])
    BY DEF AuditInv
  <2>2. PICK u : u = task[d]
    OBVIOUS
  <2>3. task'[d] = u
    BY <1>1, <2>2
  <2>4. Requested(d, u) => Requested(d, u)'
    BY DEF Requested
  <2>5. Chats(d) /\ u.pc \notin {"open", "done"} => (Audited(d) => Audited(d)')
    BY <2>2 DEF Audited
  <2>6. CommandInv(d, u)'
    BY <1>2, <2>1, <2>2, <2>4, <2>5 DEF CommandInv, Slotted, Chats, Of, TaskRequest
  <2> QED
    BY <2>3, <2>6
<1>4. CommandInv(c, task[c])'
  BY <1>1
<1>5. FreshInv'
  <2> SUFFICES ASSUME NEW d \in DOMAIN given, task'[d].pc = "new"
               PROVE  /\ Gone(d)'
                      /\ \A e \in DOMAIN given : Chats(e) /\ Of(e).session = Of(d).session =>
                            task'[e].pc \in {"open", "done"}
    BY DEF FreshInv, Chats, Of
  <2>1. d # c /\ task[d].pc = "new"
    BY <1>1
  <2>2. /\ Gone(d)
        /\ \A e \in DOMAIN given : Chats(e) /\ Of(e).session = Of(d).session =>
              task[e].pc \in {"open", "done"}
    BY <2>1 DEF AuditInv, FreshInv
  <2>3. ASSUME NEW e \in DOMAIN given, Chats(e), Of(e).session = Of(d).session
        PROVE  task'[e].pc \in {"open", "done"}
    <3>1. CASE e # c
      BY <1>1, <2>2, <2>3, <3>1
    <3>2. CASE e = c
      <4>1. Gone(c)
        BY <2>2, <2>3, <3>2 DEF Gone
      <4>2. task[c].pc \in {"open", "done"}
        BY <2>2, <2>3, <3>2
      <4> QED
        BY <1>1, <2>3, <3>2, <4>1, <4>2
    <3> QED
      BY <3>1, <3>2
  <2> QED
    BY <2>1, <2>3
<1> QED
  BY <1>3, <1>4, <1>5

LEMMA GroundedKeeps ==
    ASSUME AnswersGrounded, given' = given, responses' = responses,
           \A r \in requests : \E q \in requests' :
               q.by = r.by /\ q.evidence = r.evidence /\ q.target = r.target
    PROVE  AnswersGrounded'
<1> SUFFICES ASSUME NEW a \in responses
             PROVE  \E q \in requests' : /\ q.by = a.by /\ Grounded(a, q.evidence)
                                         /\ q.target = TargetOf[TaskRequest(q.by).on]
  BY GivenKept DEF AnswersGrounded
<1>1. PICK r \in requests : /\ r.by = a.by /\ Grounded(a, r.evidence)
                           /\ r.target = TargetOf[TaskRequest(r.by).on]
  BY DEF AnswersGrounded
<1> QED
  BY <1>1

(* The limiter of a step that neither asks it nor gives a slot back.       *)
LEMMA LimiterKeeps ==
    ASSUME ShapeInv, LimiterInv, NEW c \in DOMAIN given, given' = given, clock' = clock,
           limiter' = limiter, past'.admitted = past.admitted,
           NEW t, task' = [task EXCEPT ![c] = t],
           t.pc \in Slotted <=> task[c].pc \in Slotted
    PROVE  LimiterInv'
<1>1. /\ task'[c] = t
      /\ \A d \in DOMAIN given \ {c} : task'[d] = task[d]
  BY TaskChanges
<1>2. \A d : /\ Of(d)' = Of(d) /\ TaskRequest(d)' = TaskRequest(d)
  BY GivenKept
<1>3. ASSUME NEW s PROVE Holding(s)' = Holding(s)
  BY <1>1, <1>2 DEF Holding, Slotted
<1>4. ASSUME NEW s PROVE AdmittedFor(s)' = AdmittedFor(s)
  BY <1>2 DEF AdmittedFor
<1>5. Remembered'
  BY <1>2, <1>4 DEF LimiterInv, Remembered, Remembers
<1>6. LimitsHold'
  BY <1>2, <1>3 DEF LimiterInv, LimitsHold
<1> QED
  BY <1>5, <1>6 DEF LimiterInv

(* A step that leaves limiter and store alone, but for what the audit of   *)
(* its command may have missed.                                            *)
LEMMA QuietStep ==
    ASSUME AssistantInv, NEW c \in DOMAIN given, NEW t, IsTask(t),
           task' = [task EXCEPT ![c] = t], CommandInv(c, t)', t.pc # "new",
           t.pc \in Slotted <=> task[c].pc \in Slotted,
           Chats(c) /\ t.pc \notin {"open", "done"} =>
               task[c].pc \notin {"open", "done"} \/ ~Gone(c),
           UNCHANGED <<given, clock, limiter, sessions, messages, requests, responses>>,
           past' = past \/ past' = [past EXCEPT !.unaudited = @ \cup {c}]
    PROVE  AssistantInv'
<1>1. ShapeInv /\ LimiterInv /\ AuditInv
  BY DEF AssistantInv
<1>2. past = [admitted |-> past.admitted, unaudited |-> past.unaudited, cleared |-> past.cleared]
  BY <1>1 DEF ShapeInv
<1>3. /\ past' = [admitted |-> past'.admitted, unaudited |-> past'.unaudited, cleared |-> past'.cleared]
      /\ past'.admitted = past.admitted /\ past'.cleared = past.cleared
      /\ past.unaudited \subseteq past'.unaudited
  <2>1. CASE past' = past
    BY <1>2, <2>1
  <2>2. CASE past' = [past EXCEPT !.unaudited = @ \cup {c}]
    <3>1. PICK old : old = past
      OBVIOUS
    <3>2. PICK u : u = old.unaudited \cup {c}
      OBVIOUS
    <3>3. past' = [old EXCEPT !.unaudited = u]
      BY <2>2, <3>1, <3>2
    <3> QED
      BY <1>2, <3>1, <3>2, <3>3
  <2> QED
    BY <2>1, <2>2
<1>4. /\ task'[c] = t
      /\ \A d \in DOMAIN given \ {c} : task'[d] = task[d]
      /\ task' = [d \in DOMAIN given |-> task'[d]]
  BY <1>1, TaskChanges
<1>5. ShapeInv'
  <2>1. \A d \in DOMAIN given : IsTask(task'[d])
    BY <1>1, <1>4 DEF ShapeInv
  <2> QED
    BY <1>1, <1>3, <1>4, <2>1 DEF ShapeInv, Of
<1>6. LimiterInv'
  BY <1>1, <1>3, LimiterKeeps
<1>7. /\ \A d \in DOMAIN given : CommandInv(d, task[d])'
      /\ FreshInv'
  <2>1. \A d \in DOMAIN given : /\ QuestionStands(d) => QuestionStands(d)'
                                /\ Gone(d) => Gone(d)'
    BY <1>3 DEF QuestionStands, Gone, Of
  <2>2. \A d \in DOMAIN given : task[d].pc = "new" => Gone(d)'
    BY <1>1, <2>1 DEF AuditInv, FreshInv
  <2>3. \A r \in requests : \E q \in requests' :
            q.by = r.by /\ q.evidence = r.evidence /\ q.target = r.target
    OBVIOUS
  <2>4. responses \subseteq responses'
    OBVIOUS
  <2> QED
    BY <1>1, <1>3, <2>1, <2>2, <2>3, <2>4, CommandsKeep
<1>8. AnswersGrounded'
  <2>1. \A r \in requests : \E q \in requests' :
            q.by = r.by /\ q.evidence = r.evidence /\ q.target = r.target
    OBVIOUS
  <2> QED
    BY <1>1, <2>1, GroundedKeeps DEF AuditInv
<1>9. AnswersAudited'
  BY <1>1, <1>3 DEF AuditInv, AnswersAudited
<1> QED
  BY <1>5, <1>6, <1>7, <1>8, <1>9 DEF AssistantInv, AuditInv
-----------------------------------------------------------------------------
(* Steps that only move their command on.                                  *)

LEMMA EndsQuietly ==
    ASSUME AssistantInv, NEW c \in DOMAIN given, Ends(c), task[c].pc \notin Slotted,
           UNCHANGED <<given, clock, limiter, sessions, messages, requests, responses, past>>
    PROVE  AssistantInv'
<1>1. task' = [task EXCEPT ![c] = Idle] /\ Idle.pc \notin Slotted
  BY IdleTask DEF Ends, Slotted
<1>2. CommandInv(c, Idle)'
  BY IdleTask, StoreSame
<1> QED
  BY <1>1, <1>2, IdleTask, QuietStep

LEMMA GoesQuietly ==
    ASSUME AssistantInv, NEW c \in DOMAIN given, NEW p, Goes(c, p), p # "new",
           p \in Slotted <=> task[c].pc \in Slotted,
           Chats(c) /\ p \notin {"open", "done"} => task[c].pc \notin {"open", "done"} \/ ~Gone(c),
           \A t : /\ t.pc = p /\ t.evidence = task[c].evidence /\ t.target = task[c].target
                  /\ t.answer = task[c].answer /\ CommandInv(c, task[c])
                 => CommandInv(c, t),
           UNCHANGED <<given, clock, limiter, sessions, messages, requests, responses, past>>
    PROVE  AssistantInv'
<1>1. ShapeInv /\ CommandInv(c, task[c])
  BY DEF AssistantInv, AuditInv
<1>2. PICK t : /\ task' = [task EXCEPT ![c] = t] /\ IsTask(t) /\ t.pc = p
               /\ t.evidence = task[c].evidence /\ t.target = task[c].target
               /\ t.answer = task[c].answer
  BY <1>1, GoesTask
<1>3. CommandInv(c, t)'
  BY <1>1, <1>2, StoreSame
<1> QED
  BY <1>2, <1>3, QuietStep

LEMMA OpenChatPreserves ==
    ASSUME AssistantInv, NEW c \in DOMAIN given, OpenChat(c)
    PROVE  AssistantInv'
<1>1. UNCHANGED <<given, clock, limiter, sessions, messages, requests, responses, past>>
  BY DEF OpenChat, store
<1>2. task[c].pc = "open" /\ task[c].pc \notin Slotted
  BY DEF OpenChat, At, Slotted
<1>3. CASE Ends(c)
  BY <1>1, <1>2, <1>3, EndsQuietly
<1>4. CASE Goes(c, "ask") /\ Of(c).session \in sessions
  <2>1. \A t : /\ t.pc = "ask" /\ t.answer = task[c].answer /\ CommandInv(c, task[c])
              => CommandInv(c, t)
    BY <1>2 DEF CommandInv, Slotted
  <2>2. "ask" \notin Slotted /\ ~Gone(c)
    BY <1>4 DEF Slotted, Gone
  <2> QED
    BY <1>1, <1>2, <1>4, <2>1, <2>2, GoesQuietly
<1> QED
  BY <1>3, <1>4 DEF OpenChat

LEMMA ChatFailsPreserves ==
    ASSUME AssistantInv, NEW c \in DOMAIN given, ChatFails(c)
    PROVE  AssistantInv'
<1>1. UNCHANGED <<given, clock, limiter, sessions, messages, requests, responses, past>>
  BY DEF ChatFails, store
<1>2. task[c].pc \notin Slotted /\ Ends(c)
  BY DEF ChatFails, Slotted
<1> QED
  BY <1>1, <1>2, EndsQuietly

(* What a task has read is no part of any claim.                           *)
LEMMA ReadingPreserves ==
    ASSUME AssistantInv, NEW c \in DOMAIN given, ReadPart(c) \/ PartFails(c)
    PROVE  AssistantInv'
<1>1. UNCHANGED <<given, clock, limiter, sessions, messages, requests, responses, past>>
  BY DEF ReadPart, PartFails, store
<1>2. task[c].pc = "read" /\ task[c].pc \notin Slotted
  BY DEF ReadPart, PartFails, Reading, At, Slotted
<1>3. CASE Ends(c)
  BY <1>1, <1>2, <1>3, EndsQuietly
<1>4. CASE \E facts, parts : task' = [task EXCEPT ![c] = [task[c] EXCEPT !.facts = facts, !.parts = parts]]
  <2>1. PICK facts, parts : task' = [task EXCEPT ![c] = [task[c] EXCEPT !.facts = facts, !.parts = parts]]
    BY <1>4
  <2>2. PICK old : old = task[c]
    OBVIOUS
  <2>3. PICK t : t = [old EXCEPT !.facts = facts, !.parts = parts]
    OBVIOUS
  <2>4. IsTask(old) /\ CommandInv(c, old)
    BY <2>2 DEF AssistantInv, ShapeInv, AuditInv
  <2>5. IsTask(t) /\ t.pc = "read" /\ t.answer = old.answer
    BY <1>2, <2>2, <2>3, <2>4 DEF IsTask
  <2>6. CommandInv(c, t)
    BY <1>2, <2>2, <2>4, <2>5 DEF CommandInv, Slotted
  <2>7. CommandInv(c, t)'
    BY <1>1, <2>6, StoreSame
  <2>8. task' = [task EXCEPT ![c] = t]
    BY <2>1, <2>2, <2>3
  <2> QED
    BY <1>1, <1>2, <2>5, <2>7, <2>8, QuietStep
<1>5. PICK old : old = task[c]
  OBVIOUS
<1>6. IsTask(old) /\ task = [d \in DOMAIN given |-> task[d]]
  BY <1>5 DEF AssistantInv, ShapeInv
<1>7. CASE ReadPart(c)
  <2>1. PICK facts : facts = task[c].facts \o Listed(TaskRequest(c), Head(task[c].parts))
    OBVIOUS
  <2>2. PICK parts : parts = Tail(task[c].parts)
    OBVIOUS
  <2>3. task' = [task EXCEPT ![c] = [old EXCEPT !.facts = facts, !.parts = parts]]
    BY <1>5, <1>6, <1>7, <2>1, <2>2 DEF ReadPart, IsTask
  <2> QED
    BY <1>4, <1>5, <2>3
<1>8. CASE PartFails(c) /\ ~Ends(c)
  <2>1. PICK rest : task' = [task EXCEPT ![c].facts = @ \o rest, ![c].parts = Tail(@)]
    BY <1>8 DEF PartFails
  <2>2. PICK facts : facts = task[c].facts \o rest
    OBVIOUS
  <2>3. PICK parts : parts = Tail(task[c].parts)
    OBVIOUS
  <2>4. task' = [task EXCEPT ![c] = [old EXCEPT !.facts = facts, !.parts = parts]]
    BY <1>5, <1>6, <2>1, <2>2, <2>3 DEF IsTask
  <2> QED
    BY <1>4, <1>5, <2>4
<1> QED
  BY <1>3, <1>7, <1>8

(* A task's own rendering carries only what the evidence is or quotes.     *)
LEMMA FallbackRenders ==
    ASSUME NEW kind, NEW facts
    PROVE  Cited(kind, facts) \subseteq Rendered(facts)
<1>1. ASSUME NEW some, some \subseteq facts
      PROVE  Rendered(some) \subseteq Rendered(facts)
  BY <1>1 DEF Rendered, CitationSet, Quoted
<1>2. \A type : OfType(facts, type) \subseteq facts
  BY DEF OfType
<1>3. CitedByExplanation(kind, facts) \subseteq Rendered(facts)
  <2>1. PICK about : about = CASE kind = "alert" -> "alert" [] kind = "detection" -> "detection"
                               [] kind = "correlation" -> "correlation" [] kind = "chain" -> "stage"
                               [] OTHER -> "intelligence"
    OBVIOUS
  <2>2. PICK some : some = IF kind = "intelligence" \/ OfType(facts, about) = {}
                           THEN OfType(facts, about) ELSE facts
    OBVIOUS
  <2>3. some \subseteq facts
    BY <1>2, <2>2
  <2>4. CitedByExplanation(kind, facts) = Rendered(some)
    BY <2>1, <2>2 DEF CitedByExplanation
  <2> QED
    BY <1>1, <2>3, <2>4
<1> QED
  BY <1>3 DEF Cited, CitedBySummary

(* A provider spells nothing but Emerging around another citation.         *)
LEMMA OnlyEmerges ==
    ASSUME NEW facts, NEW raw \in RawAnswers(facts)
    PROVE  \A n \in raw.around : n.outer = Emerging
<1>1. PICK told : told = [cites |-> CitationSet(facts), around |-> {}, attributes |-> FALSE, blank |-> FALSE]
  OBVIOUS
<1>2. PICK stray : stray = [told EXCEPT !.cites = {Stranger}]
  OBVIOUS
<1>3. PICK within : within = {[inner |-> Stranger, outer |-> Emerging]}
  OBVIOUS
<1>4. raw \in {told, [told EXCEPT !.cites = Rendered(facts)],
               [told EXCEPT !.cites = @ \cup {Stranger}, !.around = within],
               [stray EXCEPT !.blank = TRUE], [stray EXCEPT !.attributes = TRUE]}
  BY <1>1, <1>2, <1>3 DEF RawAnswers
<1>5. stray = [cites |-> {Stranger}, around |-> {}, attributes |-> FALSE, blank |-> FALSE]
  BY <1>1, <1>2
<1>6. raw.around = {} \/ raw.around = within
  <2>1. \A one \in {told, [told EXCEPT !.cites = Rendered(facts)]} : one.around = {}
    BY <1>1
  <2>2. [told EXCEPT !.cites = @ \cup {Stranger}, !.around = within].around = within
    <3>1. PICK mixed : mixed = [told EXCEPT !.cites = @ \cup {Stranger}]
      OBVIOUS
    <3>2. mixed = [cites |-> mixed.cites, around |-> {}, attributes |-> FALSE, blank |-> FALSE]
      BY <1>1, <3>1
    <3>3. [mixed EXCEPT !.around = within].around = within
      BY <3>2
    <3> QED
      BY <3>1, <3>3
  <2>3. \A one \in {[stray EXCEPT !.blank = TRUE], [stray EXCEPT !.attributes = TRUE]} : one.around = {}
    BY <1>5
  <2> QED
    BY <1>4, <2>1, <2>2, <2>3
<1>7. \A n \in within : n.outer = Emerging
  BY <1>3
<1> QED
  BY <1>6, <1>7

(* Whatever an answer cites, validation leaves it what the evidence is or  *)
(* quotes, and what came out around a removed citation; any removal makes  *)
(* the confidence low.                                                     *)
LEMMA AnswerGrounded ==
    ASSUME NEW kind, NEW facts, NEW cut, NEW raw, \A n \in raw.around : n.outer = Emerging
    PROVE  LET answer == Answer(kind, facts, cut, raw)
           IN  IsAnswer(answer) /\ Grounded(answer, facts)
<1>1. PICK fallback : fallback = Cited(kind, facts)
  OBVIOUS
<1>2. fallback \subseteq Rendered(facts)
  BY <1>1, FallbackRenders
<1>3. PICK cleaned : cleaned = ValidateCitations(raw, CitationSet(facts))
  OBVIOUS
<1>4. PICK outcome : outcome = ValidateOutput(raw, CitationSet(facts), fallback)
  OBVIOUS
<1>5. /\ cleaned.cites \subseteq Rendered(facts) \cup {Emerging}
      /\ cleaned.removed = {} => cleaned.cites \subseteq Rendered(facts)
  BY <1>3 DEF ValidateCitations, Rendered
<1>6. /\ outcome.cites \subseteq Rendered(facts) \cup {Emerging}
      /\ outcome.removed = {} => outcome.cites \subseteq Rendered(facts)
  <2>1. CASE raw.attributes
    <3>1. outcome = [cites |-> fallback, removed |-> {}]
      BY <1>4, <2>1 DEF ValidateOutput
    <3> QED
      BY <1>2, <3>1
  <2>2. CASE ~raw.attributes
    <3>1. outcome = [cites   |-> IF raw.blank /\ cleaned.cites = {} THEN fallback ELSE cleaned.cites,
                     removed |-> cleaned.removed]
      BY <1>3, <1>4, <2>2 DEF ValidateOutput
    <3> QED
      BY <1>2, <1>5, <3>1
  <2> QED
    BY <2>1, <2>2
<1>7. PICK answer : answer = Answer(kind, facts, cut, raw)
  OBVIOUS
<1>8. answer = [cites |-> outcome.cites, confidence |-> DeriveConfidence(facts, cut, outcome.removed)]
  BY <1>1, <1>4, <1>7 DEF Answer
<1>9. outcome.removed # {} => answer.confidence = "low"
  BY <1>8 DEF DeriveConfidence
<1>10. IsAnswer(answer) /\ Grounded(answer, facts)
  BY <1>6, <1>8, <1>9 DEF IsAnswer, Grounded
<1> QED
  BY <1>7, <1>10

LEMMA ProviderAnswersPreserves ==
    ASSUME AssistantInv, NEW c \in DOMAIN given, ProviderAnswers(c)
    PROVE  AssistantInv'
<1>1. UNCHANGED <<given, clock, limiter, sessions, messages, requests, responses, past>>
  BY DEF ProviderAnswers, store
<1>2. PICK raw \in RawAnswers(task[c].evidence) : task' = [task EXCEPT ![c].pc = "request",
          ![c].answer = Answer(TaskRequest(c).kind, task[c].evidence, task[c].cut, raw)]
  BY DEF ProviderAnswers
<1>3. PICK answer : answer = Answer(TaskRequest(c).kind, task[c].evidence, task[c].cut, raw)
  OBVIOUS
<1>4. IsAnswer(answer) /\ Grounded(answer, task[c].evidence)
  BY <1>2, <1>3, OnlyEmerges, AnswerGrounded
<1>5. PICK old : old = task[c]
  OBVIOUS
<1>6. /\ IsTask(old) /\ task = [d \in DOMAIN given |-> task[d]]
      /\ CommandInv(c, old) /\ old.pc = "attempt"
  BY <1>5 DEF AssistantInv, ShapeInv, AuditInv, ProviderAnswers, At
<1>7. PICK t : t = [old EXCEPT !.pc = "request", !.answer = answer]
  OBVIOUS
<1>8. task' = [task EXCEPT ![c] = t]
  BY <1>2, <1>3, <1>5, <1>6, <1>7 DEF IsTask
<1>9. /\ IsTask(t) /\ t.pc = "request" /\ t.answer = answer
      /\ t.evidence = old.evidence /\ t.target = old.target
  BY <1>6, <1>7 DEF IsTask
<1>10. CommandInv(c, t)
  BY <1>4, <1>5, <1>6, <1>9 DEF CommandInv, Slotted
<1>11. CommandInv(c, t)'
  BY <1>1, <1>10, StoreSame
<1>12. /\ t.pc \in Slotted /\ task[c].pc \in Slotted
       /\ task[c].pc \notin {"open", "done"} /\ t.pc # "new"
  BY <1>5, <1>6, <1>9 DEF Slotted
<1> QED
  BY <1>1, <1>8, <1>9, <1>11, <1>12, QuietStep

(* A retry, its pause, and giving up.                                      *)
LEMMA AttemptPreserves ==
    ASSUME AssistantInv, NEW c \in DOMAIN given, ProviderFails(c) \/ BackOff(c)
    PROVE  AssistantInv'
<1>1. UNCHANGED <<given, clock, limiter, sessions, messages, requests, responses, past>>
  BY DEF ProviderFails, BackOff, store
<1>2. PICK old : old = task[c]
  OBVIOUS
<1>3. /\ IsTask(old) /\ task = [d \in DOMAIN given |-> task[d]]
      /\ CommandInv(c, old) /\ old.pc \in {"attempt", "backoff"}
  BY <1>2 DEF AssistantInv, ShapeInv, AuditInv, ProviderFails, BackOff, At
<1>4. ASSUME NEW t, IsTask(t), t.pc \in {"attempt", "backoff", "release"}, t.answer = old.answer,
             t.evidence = old.evidence, t.target = old.target, task' = [task EXCEPT ![c] = t]
      PROVE  AssistantInv'
  <2>1. CommandInv(c, t)
    BY <1>3, <1>4 DEF CommandInv, Slotted
  <2>2. CommandInv(c, t)'
    BY <1>1, <2>1, StoreSame
  <2>3. /\ t.pc \in Slotted /\ task[c].pc \in Slotted
        /\ task[c].pc \notin {"open", "done"} /\ t.pc # "new"
    BY <1>2, <1>3, <1>4 DEF Slotted
  <2> QED
    BY <1>1, <1>4, <2>2, <2>3, QuietStep
<1>5. ASSUME NEW p \in {"attempt", "release"}, Goes(c, p) PROVE AssistantInv'
  <2>1. PICK t : t = [old EXCEPT !.pc = p]
    OBVIOUS
  <2>2. task' = [task EXCEPT ![c] = t]
    BY <1>2, <1>5, <2>1 DEF Goes
  <2>3. /\ IsTask(t) /\ t.pc = p /\ t.answer = old.answer
        /\ t.evidence = old.evidence /\ t.target = old.target
    BY <1>3, <2>1 DEF IsTask
  <2> QED
    BY <1>4, <2>2, <2>3
<1>6. ASSUME task' = [task EXCEPT ![c].pc = "backoff", ![c].attempt = NextAttempt(@)]
      PROVE  AssistantInv'
  <2>1. PICK n : n = NextAttempt(task[c].attempt)
    OBVIOUS
  <2>2. PICK t : t = [old EXCEPT !.pc = "backoff", !.attempt = n]
    OBVIOUS
  <2>3. task' = [task EXCEPT ![c] = t]
    BY <1>2, <1>3, <1>6, <2>1, <2>2 DEF IsTask
  <2>4. /\ IsTask(t) /\ t.pc = "backoff" /\ t.answer = old.answer
        /\ t.evidence = old.evidence /\ t.target = old.target
    BY <1>3, <2>2 DEF IsTask
  <2> QED
    BY <1>4, <2>3, <2>4
<1> QED
  BY <1>5, <1>6 DEF ProviderFails, BackOff

(* A statement of the audit fails and the history says so.                 *)
LEMMA AuditFailsPreserves ==
    ASSUME AssistantInv, NEW c \in DOMAIN given, RequestFails(c) \/ ResponseFails(c)
    PROVE  AssistantInv'
<1>1. /\ UNCHANGED <<given, clock, limiter, sessions, messages, requests, responses>>
      /\ past' = [past EXCEPT !.unaudited = @ \cup {c}]
  BY DEF RequestFails, ResponseFails, store
<1>2. PICK p \in {"release", "event"} : Goes(c, p)
  BY DEF RequestFails, ResponseFails, AfterResponse
<1>3. ShapeInv /\ CommandInv(c, task[c]) /\ task[c].pc \in {"request", "response"}
  BY DEF AssistantInv, AuditInv, RequestFails, ResponseFails, At
<1>4. PICK t : /\ task' = [task EXCEPT ![c] = t] /\ IsTask(t) /\ t.pc = p
  BY <1>2, <1>3, GoesTask
<1>5. c \in past'.unaudited /\ past'.cleared = past.cleared
  <2>1. past = [admitted |-> past.admitted, unaudited |-> past.unaudited, cleared |-> past.cleared]
    BY <1>3 DEF ShapeInv
  <2>2. PICK old : old = past
    OBVIOUS
  <2>3. PICK u : u = old.unaudited \cup {c}
    OBVIOUS
  <2>4. past' = [old EXCEPT !.unaudited = u]
    BY <1>1, <2>2, <2>3
  <2> QED
    BY <2>1, <2>2, <2>3, <2>4
<1>6. Audited(c)' /\ (QuestionStands(c) => QuestionStands(c)')
  BY <1>1, <1>5 DEF Audited, QuestionStands, Gone, Of
<1>7. CommandInv(c, t)'
  BY <1>1, <1>2, <1>3, <1>4, <1>6 DEF CommandInv, Slotted, Chats, Of
<1>8. /\ t.pc \in Slotted /\ task[c].pc \in Slotted
      /\ task[c].pc \notin {"open", "done"} /\ t.pc # "new"
  BY <1>2, <1>3, <1>4 DEF Slotted
<1> QED
  BY <1>1, <1>4, <1>7, <1>8, QuietStep

(* Timeline and notes are no part of the claims.                           *)
LEMMA NotesPreserve ==
    ASSUME AssistantInv, NEW c \in DOMAIN given,
           RecordAnalysis(c) \/ SaveNote(c) \/ ApproveNote(c) \/ AnnounceNote(c) \/ NoteFails(c)
    PROVE  AssistantInv'
<1>1. UNCHANGED <<given, clock, limiter, sessions, messages, requests, responses, past>>
  BY DEF RecordAnalysis, SaveNote, ApproveNote, AnnounceNote, NoteFails, store
<1>2. CASE task[c].pc = "event" /\ Goes(c, "release")
  <2>1. \A t : /\ t.pc = "release" /\ t.answer = task[c].answer /\ CommandInv(c, task[c])
              => CommandInv(c, t)
    BY <1>2 DEF CommandInv, Slotted
  <2>2. "release" \in Slotted /\ task[c].pc \in Slotted
    BY <1>2 DEF Slotted
  <2> QED
    BY <1>1, <1>2, <2>1, <2>2, GoesQuietly
<1>3. CASE task[c].pc \in {"note", "approve"} /\ Goes(c, "announce")
  <2>1. \A t : t.pc = "announce" => CommandInv(c, t)
    BY DEF CommandInv, Slotted
  <2>2. "announce" \notin Slotted /\ task[c].pc \notin Slotted /\ task[c].pc \notin {"open", "done"}
    BY <1>3 DEF Slotted
  <2> QED
    BY <1>1, <1>3, <2>1, <2>2, GoesQuietly
<1>4. CASE task[c].pc \in {"note", "approve", "announce", "new", "clear", "delete"} /\ Ends(c)
  <2>1. task[c].pc \notin Slotted
    BY <1>4 DEF Slotted
  <2> QED
    BY <1>1, <1>4, <2>1, EndsQuietly
<1> QED
  BY <1>2, <1>3, <1>4 DEF RecordAnalysis, SaveNote, ApproveNote, AnnounceNote, NoteFails, At
-----------------------------------------------------------------------------
(* Steps that change the store.                                            *)

LEMMA StoreStep ==
    ASSUME AssistantInv, NEW c \in DOMAIN given, NEW t, IsTask(t),
           task' = [task EXCEPT ![c] = t], CommandInv(c, t)', t.pc # "new",
           t.pc \in Slotted <=> task[c].pc \in Slotted,
           Chats(c) /\ t.pc \notin {"open", "done"} =>
               task[c].pc \notin {"open", "done"} \/ ~Gone(c),
           UNCHANGED <<given, clock, limiter>>,
           past' = [admitted |-> past.admitted, unaudited |-> past.unaudited, cleared |-> past'.cleared],
           IsFiniteSet(messages'),
           \A m \in messages' : m.n \in Nat /\ m.by \in DOMAIN given /\ m.session = Of(m.by).session,
           \A r \in requests' : IsRequest(r),
           \A r \in requests : \E q \in requests' :
               q.by = r.by /\ q.evidence = r.evidence /\ q.target = r.target,
           responses \subseteq responses',
           \A d \in DOMAIN given \ {c} : Chats(d) /\ task[d].pc \notin {"open", "done"} =>
               (QuestionStands(d) => QuestionStands(d)') /\ (Gone(d) => Gone(d)'),
           \A d \in DOMAIN given \ {c} : task[d].pc = "new" => Gone(d)',
           AnswersGrounded', AnswersAudited'
    PROVE  AssistantInv'
<1>1. ShapeInv /\ LimiterInv /\ AuditInv
  BY DEF AssistantInv
<1>2. /\ past' = [admitted |-> past'.admitted, unaudited |-> past'.unaudited, cleared |-> past'.cleared]
      /\ past'.admitted = past.admitted /\ past.unaudited \subseteq past'.unaudited
  OBVIOUS
<1>3. /\ task'[c] = t
      /\ \A d \in DOMAIN given \ {c} : task'[d] = task[d]
      /\ task' = [d \in DOMAIN given |-> task'[d]]
  BY <1>1, TaskChanges
<1>4. ShapeInv'
  <2>1. \A d \in DOMAIN given : IsTask(task'[d])
    BY <1>1, <1>3 DEF ShapeInv
  <2> QED
    BY <1>1, <1>2, <1>3, <2>1 DEF ShapeInv, Of
<1>5. LimiterInv'
  BY <1>1, <1>2, LimiterKeeps
<1>6. /\ \A d \in DOMAIN given : CommandInv(d, task[d])'
      /\ FreshInv'
  BY <1>1, <1>2, CommandsKeep
<1> QED
  BY <1>4, <1>5, <1>6 DEF AssistantInv, AuditInv

(* Of the store all but the sessions, or the messages, stays.              *)
LEMMA PastShape == ShapeInv =>
    past = [admitted |-> past.admitted, unaudited |-> past.unaudited, cleared |-> past.cleared]
BY DEF ShapeInv

LEMMA NewSessionPreserves ==
    ASSUME AssistantInv, NEW c \in DOMAIN given, NewSession(c)
    PROVE  AssistantInv'
<1>1. ShapeInv /\ AuditInv /\ CommandInv(c, task[c])
  BY DEF AssistantInv, AuditInv
<1>2. /\ UNCHANGED <<given, clock, limiter, messages, requests, responses, past>>
      /\ task[c].pc = "new" /\ task' = [task EXCEPT ![c] = Idle]
      /\ sessions' \subseteq sessions \cup {Of(c).session}
  BY DEF NewSession, At, Ends
<1>3. /\ Of(c).kind = "new" /\ Gone(c)
      /\ \A d \in DOMAIN given : Chats(d) /\ Of(d).session = Of(c).session =>
            task[d].pc \in {"open", "done"}
  BY <1>1, <1>2 DEF CommandInv, AuditInv, FreshInv
<1>4. ASSUME NEW d \in DOMAIN given, Chats(d), task[d].pc \notin {"open", "done"}
      PROVE  (QuestionStands(d) => QuestionStands(d)') /\ (Gone(d) => Gone(d)')
  <2>1. Of(d).session # Of(c).session
    BY <1>3, <1>4
  <2> QED
    BY <1>2, <2>1 DEF QuestionStands, Gone, Of
<1>5. ASSUME NEW d \in DOMAIN given \ {c}, task[d].pc = "new" PROVE Gone(d)'
  <2>1. Gone(d) /\ Of(d).kind = "new"
    BY <1>1, <1>5 DEF AuditInv, FreshInv, CommandInv
  <2>2. Of(d).session # Of(c).session
    BY <1>1, <1>3, <2>1 DEF ShapeInv
  <2> QED
    BY <1>2, <2>1, <2>2 DEF Gone, Of
<1>6. AnswersGrounded' /\ AnswersAudited'
  BY <1>1, <1>2 DEF AuditInv, AnswersGrounded, AnswersAudited, TaskRequest
<1>7. /\ IsTask(Idle) /\ CommandInv(c, Idle)' /\ Idle.pc = "done"
      /\ Idle.pc \notin Slotted /\ task[c].pc \notin Slotted
  BY <1>2, IdleTask DEF Slotted
<1>8. /\ IsFiniteSet(messages')
      /\ \A m \in messages' : m.n \in Nat /\ m.by \in DOMAIN given /\ m.session = Of(m.by).session
      /\ \A r \in requests' : IsRequest(r)
      /\ \A r \in requests : \E q \in requests' :
             q.by = r.by /\ q.evidence = r.evidence /\ q.target = r.target
      /\ responses \subseteq responses'
  BY <1>1, <1>2 DEF ShapeInv
<1>9. past' = [admitted |-> past.admitted, unaudited |-> past.unaudited, cleared |-> past'.cleared]
  BY <1>1, <1>2, PastShape
<1> QED
  BY <1>2, <1>4, <1>5, <1>6, <1>7, <1>8, <1>9, StoreStep

(* The latest row of the messages is that of a command of its session.     *)
LEMMA SaidRow ==
    ASSUME ShapeInv, NEW c \in DOMAIN given, NEW role, given' = given,
           messages' = Said(Of(c).session, role, c)
    PROVE  \E row : /\ messages' = messages \cup {row}
                    /\ row.n \in Nat /\ row.session = Of(c).session
                    /\ row.role = role /\ row.by = c
                    /\ \A m \in messages : m.n < row.n
                    /\ IsFiniteSet(messages')
                    /\ \A m \in messages' : /\ m.n \in Nat /\ m.by \in DOMAIN given
                                             /\ m.session = Of(m.by).session
<1>1. PICK n : n = Max({m.n : m \in messages} \cup {0}) + 1
  OBVIOUS
<1>2. n \in Nat /\ \A m \in messages : m.n < n
  BY <1>1, NewRowIsLatest DEF ShapeInv
<1>3. PICK row : row = [n |-> n, session |-> Of(c).session, role |-> role, by |-> c]
  OBVIOUS
<1>4. messages' = messages \cup {row}
  BY <1>1, <1>3 DEF Said
<1>5. row.n = n /\ row.session = Of(c).session /\ row.role = role /\ row.by = c
  BY <1>3
<1>6. IsFiniteSet(messages')
  <2>1. IsFiniteSet(messages)
    BY DEF ShapeInv
  <2> QED
    BY <1>4, <2>1, FS_AddElement
<1>7. \A m \in messages' : m.n \in Nat /\ m.by \in DOMAIN given /\ m.session = Of(m.by).session
  BY <1>2, <1>4, <1>5 DEF ShapeInv
<1> QED
  BY <1>2, <1>4, <1>5, <1>6, <1>7

LEMMA AskPreserves ==
    ASSUME AssistantInv, NEW c \in DOMAIN given, Ask(c)
    PROVE  AssistantInv'
<1>1. ShapeInv /\ AuditInv /\ CommandInv(c, task[c])
  BY DEF AssistantInv, AuditInv
<1>2. /\ UNCHANGED <<given, clock, limiter, sessions, requests, responses, past>>
      /\ task[c].pc = "ask" /\ task[c].pc \notin Slotted
  BY DEF Ask, At, Slotted
<1>3. CASE Of(c).session \notin sessions
  BY <1>2, <1>3, EndsQuietly DEF Ask
<1>4. CASE Of(c).session \in sessions
  <2>1. PICK row : /\ messages' = messages \cup {row} /\ row.n \in Nat
                   /\ row.role = "user" /\ row.by = c
                   /\ IsFiniteSet(messages')
                   /\ \A m \in messages' : /\ m.n \in Nat /\ m.by \in DOMAIN given
                                            /\ m.session = Of(m.by).session
    BY <1>1, <1>2, <1>4, SaidRow DEF Ask
  <2>2. PICK old : old = task[c]
    OBVIOUS
  <2>3. /\ IsTask(old) /\ task = [d \in DOMAIN given |-> task[d]]
    BY <1>1, <2>2 DEF ShapeInv
  <2>4. PICK parts : parts = ContextOf(TaskRequest(c))
    OBVIOUS
  <2>5. PICK t : t = [old EXCEPT !.pc = "read", !.parts = parts]
    OBVIOUS
  <2>6. task' = [task EXCEPT ![c] = t]
    BY <1>4, <2>2, <2>3, <2>4, <2>5 DEF Ask, IsTask
  <2>7. IsTask(t) /\ t.pc = "read" /\ t.answer = old.answer
    BY <2>3, <2>5 DEF IsTask
  <2>8. QuestionStands(c)'
    BY <2>1 DEF QuestionStands
  <2>9. CommandInv(c, t)'
    BY <1>1, <1>2, <2>2, <2>7, <2>8 DEF CommandInv, Slotted, Chats, Of, Managing
  <2>10. \A d : (QuestionStands(d) => QuestionStands(d)') /\ (Gone(d) => Gone(d)')
    BY <1>2, <2>1 DEF QuestionStands, Gone, Of
  <2>11. \A d \in DOMAIN given : task[d].pc = "new" => Gone(d)'
    BY <1>1, <2>10 DEF AuditInv, FreshInv
  <2>12. AnswersGrounded'
    BY <1>1, <1>2 DEF AuditInv, AnswersGrounded, TaskRequest
  <2>13. AnswersAudited'
    BY <1>1, <1>2, <2>1 DEF AuditInv, AnswersAudited
  <2>14. t.pc \notin Slotted /\ task[c].pc \notin {"open", "done"} /\ t.pc # "new"
    BY <1>2, <2>7 DEF Slotted
  <2>15. /\ \A r \in requests' : IsRequest(r)
         /\ \A r \in requests : \E q \in requests' :
                q.by = r.by /\ q.evidence = r.evidence /\ q.target = r.target
         /\ responses \subseteq responses'
    BY <1>1, <1>2 DEF ShapeInv
  <2>16. past' = [admitted |-> past.admitted, unaudited |-> past.unaudited, cleared |-> past'.cleared]
    BY <1>1, <1>2, PastShape
  <2> QED
    BY <1>2, <2>1, <2>6, <2>7, <2>9, <2>10, <2>11, <2>12, <2>13, <2>14, <2>15, <2>16, StoreStep
<1> QED
  BY <1>3, <1>4

LEMMA ReplyPreserves ==
    ASSUME AssistantInv, NEW c \in DOMAIN given, Reply(c)
    PROVE  AssistantInv'
<1>1. ShapeInv /\ AuditInv /\ CommandInv(c, task[c])
  BY DEF AssistantInv, AuditInv
<1>2. /\ UNCHANGED <<given, clock, limiter, sessions, requests, responses, past>>
      /\ task[c].pc = "reply" /\ task[c].pc \notin Slotted /\ Ends(c)
  BY DEF Reply, At, Slotted
<1>3. CASE Of(c).session \notin sessions
  BY <1>2, <1>3, EndsQuietly DEF Reply
<1>4. CASE Of(c).session \in sessions
  <2>1. PICK row : /\ messages' = messages \cup {row} /\ row.n \in Nat
                   /\ row.role = "assistant" /\ row.by = c
                   /\ \A m \in messages : m.n < row.n
                   /\ IsFiniteSet(messages')
                   /\ \A m \in messages' : /\ m.n \in Nat /\ m.by \in DOMAIN given
                                            /\ m.session = Of(m.by).session
    <3>1. messages' = Said(Of(c).session, "assistant", c) /\ given' = given
      BY <1>2, <1>4 DEF Reply
    <3> QED
      BY <1>1, <3>1, SaidRow
  <2>2. task' = [task EXCEPT ![c] = Idle]
    BY <1>2 DEF Ends
  <2>3. /\ IsTask(Idle) /\ CommandInv(c, Idle)' /\ Idle.pc = "done" /\ Idle.pc \notin Slotted
    BY IdleTask DEF Slotted
  <2>4. \A d : (QuestionStands(d) => QuestionStands(d)') /\ (Gone(d) => Gone(d)')
    BY <1>2, <2>1 DEF QuestionStands, Gone, Of
  <2>5. \A d \in DOMAIN given : task[d].pc = "new" => Gone(d)'
    BY <1>1, <2>4 DEF AuditInv, FreshInv
  <2>6. AnswersGrounded'
    BY <1>1, <1>2 DEF AuditInv, AnswersGrounded, TaskRequest
  <2>7. /\ c \in past.cleared \/ \E q \in messages : q.role = "user" /\ q.by = c
        /\ c \in past.unaudited \/ \E a \in responses : a.by = c
    <3>1. Chats(c) /\ task[c].answer # None
      BY <1>1, <1>2 DEF CommandInv
    <3>2. QuestionStands(c) /\ Audited(c)
      BY <1>1, <1>2, <3>1 DEF CommandInv
    <3> QED
      BY <1>4, <3>2 DEF QuestionStands, Audited, Gone
  <2>8. AnswersAudited'
    <3> SUFFICES ASSUME NEW m \in messages', m.role = "assistant"
                 PROVE  /\ \/ m.by \in past.cleared
                           \/ \E q \in messages' : q.role = "user" /\ q.by = m.by /\ q.n < m.n
                        /\ \/ m.by \in past.unaudited
                           \/ \E a \in responses : a.by = m.by
      BY <1>2 DEF AnswersAudited
    <3>1. CASE m \in messages
      BY <1>1, <2>1, <3>1 DEF AuditInv, AnswersAudited
    <3>2. CASE m = row
      BY <2>1, <2>7, <3>2
    <3> QED
      BY <2>1, <3>1, <3>2
  <2>9. /\ \A r \in requests' : IsRequest(r)
        /\ \A r \in requests : \E q \in requests' :
               q.by = r.by /\ q.evidence = r.evidence /\ q.target = r.target
        /\ responses \subseteq responses'
    BY <1>1, <1>2 DEF ShapeInv
  <2>10. past' = [admitted |-> past.admitted, unaudited |-> past.unaudited, cleared |-> past'.cleared]
    BY <1>1, <1>2, PastShape
  <2> QED
    BY <1>2, <2>1, <2>2, <2>3, <2>4, <2>5, <2>6, <2>8, <2>9, <2>10, StoreStep
<1> QED
  BY <1>3, <1>4

LEMMA ClearSessionPreserves ==
    ASSUME AssistantInv, NEW c \in DOMAIN given, ClearSession(c)
    PROVE  AssistantInv'
<1>1. ShapeInv /\ AuditInv /\ past = [admitted |-> past.admitted, unaudited |-> past.unaudited, cleared |-> past.cleared]
  BY PastShape DEF AssistantInv
<1>2. /\ UNCHANGED <<given, clock, limiter, sessions, requests, responses>>
      /\ task[c].pc = "clear" /\ task[c].pc \notin Slotted /\ task' = [task EXCEPT ![c] = Idle]
      /\ messages' = {m \in messages : m.session # Of(c).session}
  BY DEF ClearSession, At, Slotted, Ends
<1>3. PICK by : by = past.cleared \cup {m.by : m \in messages \ messages'}
  OBVIOUS
<1>4. past' = [admitted |-> past.admitted, unaudited |-> past.unaudited, cleared |-> by]
  <2>1. PICK old : old = past
    OBVIOUS
  <2>2. past' = [old EXCEPT !.cleared = by]
    BY <1>3, <2>1 DEF ClearSession
  <2>3. old = [admitted |-> old.admitted, unaudited |-> old.unaudited, cleared |-> old.cleared]
    BY <1>1, <2>1
  <2>4. [old EXCEPT !.cleared = by] = [admitted |-> old.admitted, unaudited |-> old.unaudited, cleared |-> by]
    BY <2>3
  <2> QED
    BY <2>1, <2>2, <2>4
<1>5. past'.cleared = by /\ past'.unaudited = past.unaudited
  BY <1>4
<1>6. /\ past.cleared \subseteq past'.cleared
      /\ \A m \in messages : m \in messages' \/ m.by \in past'.cleared
  BY <1>3, <1>5
<1>7. /\ IsTask(Idle) /\ CommandInv(c, Idle)' /\ Idle.pc = "done" /\ Idle.pc \notin Slotted
  BY IdleTask DEF Slotted
<1>8. \A d : (QuestionStands(d) => QuestionStands(d)') /\ (Gone(d) => Gone(d)')
  BY <1>2, <1>6 DEF QuestionStands, Gone, Of
<1>9. \A d \in DOMAIN given : task[d].pc = "new" => Gone(d)'
  BY <1>1, <1>8 DEF AuditInv, FreshInv
<1>10. AnswersGrounded'
  BY <1>1, <1>2 DEF AuditInv, AnswersGrounded, TaskRequest
<1>11. AnswersAudited'
  BY <1>1, <1>2, <1>5, <1>6 DEF AuditInv, AnswersAudited
<1>12. /\ IsFiniteSet(messages')
       /\ \A m \in messages' : m.n \in Nat /\ m.by \in DOMAIN given /\ m.session = Of(m.by).session
  <2>1. IsFiniteSet(messages) /\ messages' \subseteq messages
    BY <1>1, <1>2 DEF ShapeInv
  <2> QED
    BY <1>1, <2>1, FS_Subset DEF ShapeInv
<1>13. /\ \A r \in requests' : IsRequest(r)
       /\ \A r \in requests : \E q \in requests' :
              q.by = r.by /\ q.evidence = r.evidence /\ q.target = r.target
       /\ responses \subseteq responses'
  BY <1>1, <1>2 DEF ShapeInv
<1>14. past' = [admitted |-> past.admitted, unaudited |-> past.unaudited, cleared |-> past'.cleared]
  BY <1>4, <1>5
<1> QED
  BY <1>2, <1>7, <1>8, <1>9, <1>10, <1>11, <1>12, <1>13, <1>14, StoreStep

LEMMA DeleteSessionPreserves ==
    ASSUME AssistantInv, NEW c \in DOMAIN given, DeleteSession(c)
    PROVE  AssistantInv'
<1>1. ShapeInv /\ AuditInv
  BY DEF AssistantInv
<1>2. PICK s : s = Of(c).session
  OBVIOUS
<1>3. /\ UNCHANGED <<given, clock, limiter, responses, past>>
      /\ task[c].pc = "delete" /\ task[c].pc \notin Slotted /\ task' = [task EXCEPT ![c] = Idle]
      /\ sessions' = sessions \ {s}
      /\ messages' = {m \in messages : m.session # s}
      /\ requests' = {IF r.session = s THEN [r EXCEPT !.session = None] ELSE r : r \in requests}
  BY <1>2 DEF DeleteSession, At, Slotted, Ends
<1>4. /\ IsTask(Idle) /\ CommandInv(c, Idle)' /\ Idle.pc = "done" /\ Idle.pc \notin Slotted
  BY IdleTask DEF Slotted
<1>5. ASSUME NEW r \in requests
      PROVE  LET q == IF r.session = s THEN [r EXCEPT !.session = None] ELSE r
             IN  IsRequest(q) /\ q.by = r.by /\ q.evidence = r.evidence /\ q.target = r.target
  <2>1. IsRequest(r)
    BY <1>1 DEF ShapeInv
  <2> QED
    BY <2>1 DEF IsRequest
<1>6. \A r \in requests' : IsRequest(r)
  BY <1>3, <1>5
<1>7. \A r \in requests : \E q \in requests' :
          q.by = r.by /\ q.evidence = r.evidence /\ q.target = r.target
  BY <1>3, <1>5
<1>8. \A m \in messages : m.session = Of(m.by).session
  BY <1>1 DEF ShapeInv
<1>9. \A d : Gone(d) => Gone(d)'
  BY <1>3 DEF Gone, Of
<1>10. ASSUME NEW d, QuestionStands(d) PROVE QuestionStands(d)'
  <2>1. CASE d \in past.cleared \/ Gone(d)
    BY <1>3, <1>9, <2>1 DEF QuestionStands
  <2>2. CASE \E q \in messages : q.role = "user" /\ q.by = d
    <3>1. PICK q \in messages : q.role = "user" /\ q.by = d
      BY <2>2
    <3>2. CASE q.session = s
      BY <1>3, <1>8, <3>1, <3>2 DEF QuestionStands, Gone, Of
    <3>3. CASE q.session # s
      BY <1>3, <3>1, <3>3 DEF QuestionStands
    <3> QED
      BY <3>2, <3>3
  <2> QED
    BY <1>10, <2>1, <2>2 DEF QuestionStands
<1>11. \A d \in DOMAIN given : task[d].pc = "new" => Gone(d)'
  BY <1>1, <1>9 DEF AuditInv, FreshInv
<1>12. AnswersGrounded'
  BY <1>1, <1>3, <1>7, GroundedKeeps DEF AuditInv
<1>13. AnswersAudited'
  <2> SUFFICES ASSUME NEW m \in messages', m.role = "assistant"
               PROVE  /\ \/ m.by \in past.cleared
                         \/ \E q \in messages' : q.role = "user" /\ q.by = m.by /\ q.n < m.n
                      /\ \/ m.by \in past.unaudited
                         \/ \E a \in responses : a.by = m.by
    BY <1>3 DEF AnswersAudited
  <2>1. m \in messages /\ m.session # s
    BY <1>3
  <2>2. \A q \in messages : q.by = m.by => q \in messages'
    BY <1>3, <1>8, <2>1
  <2> QED
    BY <1>1, <2>1, <2>2 DEF AuditInv, AnswersAudited
<1>14. /\ IsFiniteSet(messages')
       /\ \A m \in messages' : m.n \in Nat /\ m.by \in DOMAIN given /\ m.session = Of(m.by).session
  <2>1. IsFiniteSet(messages) /\ messages' \subseteq messages
    BY <1>1, <1>3 DEF ShapeInv
  <2> QED
    BY <1>1, <2>1, FS_Subset DEF ShapeInv
<1>15. past' = [admitted |-> past.admitted, unaudited |-> past.unaudited, cleared |-> past'.cleared]
  BY <1>1, <1>3, PastShape
<1>16. responses \subseteq responses'
  BY <1>3
<1> QED
  BY <1>3, <1>4, <1>6, <1>7, <1>9, <1>10, <1>11, <1>12, <1>13, <1>14, <1>15, <1>16, StoreStep

(* The part of the two statements of the audit that is alike.              *)
LEMMA AuditStep ==
    ASSUME AssistantInv, NEW c \in DOMAIN given, NEW t, IsTask(t), task' = [task EXCEPT ![c] = t],
           task[c].pc \in Slotted, t.pc \in Slotted, CommandInv(c, t)',
           UNCHANGED <<given, clock, limiter, sessions, messages, past>>,
           requests \subseteq requests', \A r \in requests' : IsRequest(r),
           responses \subseteq responses', AnswersGrounded'
    PROVE  AssistantInv'
<1>1. ShapeInv /\ AuditInv
  BY DEF AssistantInv
<1>2. t.pc # "new" /\ task[c].pc \notin {"open", "done"}
  BY DEF Slotted
<1>3. \A d : (QuestionStands(d) => QuestionStands(d)') /\ (Gone(d) => Gone(d)')
  BY DEF QuestionStands, Gone, Of
<1>4. \A d \in DOMAIN given : task[d].pc = "new" => Gone(d)'
  BY <1>1, <1>3 DEF AuditInv, FreshInv
<1>5. \A r \in requests : \E q \in requests' :
          q.by = r.by /\ q.evidence = r.evidence /\ q.target = r.target
  OBVIOUS
<1>6. AnswersAudited'
  BY <1>1 DEF AuditInv, AnswersAudited
<1>7. past' = [admitted |-> past.admitted, unaudited |-> past.unaudited, cleared |-> past'.cleared]
  BY <1>1, PastShape
<1>8. /\ IsFiniteSet(messages')
      /\ \A m \in messages' : m.n \in Nat /\ m.by \in DOMAIN given /\ m.session = Of(m.by).session
  BY <1>1 DEF ShapeInv
<1> QED
  BY <1>2, <1>3, <1>4, <1>5, <1>6, <1>7, <1>8, StoreStep

LEMMA ChatOfSession ==
    ASSUME ShapeInv, NEW c \in DOMAIN given, Chats(c)
    PROVE  TaskRequest(c).session = Of(c).session
<1>1. given[c] \in DOMAIN Commands
  BY DEF ShapeInv
<1> QED
  BY <1>1 DEF Chats, Of, TaskRequest, RequestTable, ChatRequest

LEMMA CreateRequestPreserves ==
    ASSUME AssistantInv, NEW c \in DOMAIN given, CreateRequest(c)
    PROVE  AssistantInv'
<1>1. ShapeInv /\ AuditInv /\ CommandInv(c, task[c])
  BY DEF AssistantInv, AuditInv
<1>2. /\ UNCHANGED <<given, clock, limiter, sessions, messages, responses, past>>
      /\ task[c].pc = "request" /\ task[c].pc \in Slotted
  BY DEF CreateRequest, At, Slotted
<1>3. CASE TaskRequest(c).session \in sessions \cup {None}
  <2>1. PICK row : row = [by |-> c, kind |-> TaskRequest(c).kind, target |-> task[c].target,
                          inv |-> TaskRequest(c).inv, session |-> TaskRequest(c).session,
                          evidence |-> task[c].evidence]
    OBVIOUS
  <2>2. IsRequest(row) /\ row.by = c /\ row.target = task[c].target /\ row.evidence = task[c].evidence
    BY <2>1 DEF IsRequest
  <2>3. requests' = requests \cup {row} /\ Goes(c, "response")
    BY <1>3, <2>1 DEF CreateRequest, AfterRequest
  <2>4. PICK t : /\ task' = [task EXCEPT ![c] = t] /\ IsTask(t) /\ t.pc = "response"
                 /\ t.evidence = task[c].evidence /\ t.target = task[c].target
                 /\ t.answer = task[c].answer
    BY <1>1, <2>3, GoesTask
  <2>5. Requested(c, t)' /\ (QuestionStands(c) => QuestionStands(c)')
    BY <1>2, <2>2, <2>3, <2>4 DEF Requested, QuestionStands, Gone, Of
  <2>6. CommandInv(c, t)'
    BY <1>1, <1>2, <2>4, <2>5 DEF CommandInv, Slotted, Chats, Of, TaskRequest
  <2>7. AnswersGrounded'
    BY <1>1, <1>2, <2>3 DEF AuditInv, AnswersGrounded, TaskRequest
  <2>8. \A r \in requests' : IsRequest(r)
    BY <1>1, <2>2, <2>3 DEF ShapeInv
  <2>9. t.pc \in Slotted
    BY <2>4 DEF Slotted
  <2>10. requests \subseteq requests' /\ responses \subseteq responses'
    BY <1>2, <2>3
  <2> QED
    BY <1>2, <2>4, <2>6, <2>7, <2>8, <2>9, <2>10, AuditStep
<1>4. CASE TaskRequest(c).session \notin sessions \cup {None}
  <2>1. Goes(c, "release") /\ requests' = requests
    BY <1>4 DEF CreateRequest
  <2>2. Chats(c) => Audited(c)
    BY <1>1, <1>4, ChatOfSession DEF Audited, Gone
  <2>3. PICK t : /\ task' = [task EXCEPT ![c] = t] /\ IsTask(t) /\ t.pc = "release"
    BY <1>1, <2>1, GoesTask
  <2>4. CommandInv(c, t)
    BY <1>1, <1>2, <2>2, <2>3 DEF CommandInv, Slotted
  <2>5. CommandInv(c, t)'
    BY <1>2, <2>1, <2>4, StoreSame
  <2>6. AnswersGrounded'
    BY <1>1, <1>2, <2>1 DEF AuditInv, AnswersGrounded, TaskRequest
  <2>7. \A r \in requests' : IsRequest(r)
    BY <1>1, <2>1 DEF ShapeInv
  <2>8. t.pc \in Slotted
    BY <2>3 DEF Slotted
  <2> QED
    BY <1>2, <2>1, <2>3, <2>5, <2>6, <2>7, <2>8, AuditStep
<1> QED
  BY <1>3, <1>4

LEMMA CreateResponsePreserves ==
    ASSUME AssistantInv, NEW c \in DOMAIN given, CreateResponse(c)
    PROVE  AssistantInv'
<1>1. ShapeInv /\ AuditInv /\ CommandInv(c, task[c])
  BY DEF AssistantInv, AuditInv
<1>2. /\ UNCHANGED <<given, clock, limiter, sessions, messages, requests, past>>
      /\ task[c].pc = "response" /\ task[c].pc \in Slotted
  BY DEF CreateResponse, At, Slotted
<1>3. PICK p \in {"event", "release"} : Goes(c, p)
  BY DEF CreateResponse, AfterResponse
<1>4. PICK answer : answer = task[c].answer
  OBVIOUS
<1>5. IsAnswer(answer) /\ Grounded(answer, task[c].evidence) /\ Requested(c, task[c])
      /\ task[c].target = TargetOf[TaskRequest(c).on]
  BY <1>1, <1>2, <1>4 DEF CommandInv
<1>6. PICK row : row = [by |-> c, cites |-> answer.cites, confidence |-> answer.confidence]
  OBVIOUS
<1>7. row.by = c /\ (Grounded(answer, task[c].evidence) => Grounded(row, task[c].evidence))
  BY <1>6 DEF Grounded
<1>8. responses' = responses \cup {row}
  BY <1>4, <1>6 DEF CreateResponse
<1>9. PICK t : /\ task' = [task EXCEPT ![c] = t] /\ IsTask(t) /\ t.pc = p
  BY <1>1, <1>3, GoesTask
<1>10. Audited(c)' /\ (QuestionStands(c) => QuestionStands(c)')
  BY <1>2, <1>7, <1>8 DEF Audited, QuestionStands, Gone, Of
<1>11. CommandInv(c, t)'
  BY <1>1, <1>2, <1>3, <1>9, <1>10 DEF CommandInv, Slotted, Chats, Of
<1>12. AnswersGrounded'
  <2> SUFFICES ASSUME NEW a \in responses'
               PROVE  \E q \in requests : /\ q.by = a.by /\ Grounded(a, q.evidence)
                                          /\ q.target = TargetOf[TaskRequest(q.by).on]
    BY <1>2 DEF AnswersGrounded, TaskRequest
  <2>1. CASE a \in responses
    BY <1>1, <2>1 DEF AuditInv, AnswersGrounded
  <2>2. CASE a = row
    BY <1>5, <1>7, <2>2 DEF Requested
  <2> QED
    BY <1>8, <2>1, <2>2
<1>13. \A r \in requests' : IsRequest(r)
  BY <1>1, <1>2 DEF ShapeInv
<1>14. t.pc \in Slotted /\ requests \subseteq requests' /\ responses \subseteq responses'
  BY <1>2, <1>3, <1>8, <1>9 DEF Slotted
<1> QED
  BY <1>2, <1>9, <1>11, <1>12, <1>13, <1>14, AuditStep
-----------------------------------------------------------------------------
(* The limiter.                                                            *)

LEMMA HoldingIsFinite ==
    ASSUME ShapeInv, NEW s
    PROVE  IsFiniteSet(Holding(s)) /\ Cardinality(Holding(s)) \in Nat
<1>1. Len(given) \in Nat /\ DOMAIN given = 1..Len(given)
  BY DEF ShapeInv
<1>2. IsFiniteSet(1..Len(given))
  BY <1>1, FS_Interval
<1>3. Holding(s) \subseteq 1..Len(given)
  BY <1>1 DEF Holding
<1>4. IsFiniteSet(Holding(s))
  BY <1>2, <1>3, FS_Subset
<1> QED
  BY <1>4, FS_CardinalityType

(* What the limiter allows in a window: what it remembers and one more.    *)
LEMMA OneMore ==
    ASSUME NEW P, IsFiniteSet(P), NEW limit \in Nat, Cardinality(P) < limit,
           NEW new, NEW A, A \subseteq P \cup {new}
    PROVE  Cardinality(A) <= limit
<1>1. IsFiniteSet(P \cup {new}) /\ Cardinality(P \cup {new}) <= limit /\ Cardinality(P \cup {new}) \in Nat
  <2>1. Cardinality(P) \in Nat
    BY FS_CardinalityType
  <2>2. /\ IsFiniteSet(P \cup {new})
        /\ Cardinality(P \cup {new}) = IF new \in P THEN Cardinality(P) ELSE Cardinality(P) + 1
    BY FS_AddElement
  <2> QED
    BY <2>1, <2>2
<1>2. IsFiniteSet(A) /\ Cardinality(A) <= Cardinality(P \cup {new})
  BY <1>1, FS_Subset
<1>3. Cardinality(A) \in Nat
  BY <1>2, FS_CardinalityType
<1> QED
  BY <1>1, <1>2, <1>3

SlotsExact == \A s \in Services :
    limiter[s].inFlight <= MaxConcurrent /\ limiter[s].inFlight = Cardinality(Holding(s))
InWindow(a)   == {b \in past.admitted : /\ Of(b.by).service = Of(a.by).service
                                       /\ b.at \in (a.at - Window + 1)..a.at}
SameUser(a)   == {b \in InWindow(a) : TaskRequest(b.by).user = TaskRequest(a.by).user}
SameTarget(a) == {b \in InWindow(a) : Target(TaskRequest(b.by)) = Target(TaskRequest(a.by))}
WindowsWithin == \A a \in past.admitted :
    Cardinality(SameUser(a)) <= PerUser /\ Cardinality(SameTarget(a)) <= PerTarget

LEMMA LimitsAre ==
    ASSUME ShapeInv
    PROVE  LimitsHold <=> SlotsExact /\ WindowsWithin
<1>1. DOMAIN limiter = Services
  BY DEF ShapeInv
<1> QED
  BY <1>1 DEF LimitsHold, SlotsExact, WindowsWithin, InWindow, SameUser, SameTarget

(* A step of a command that changes the limiter of its service only.       *)
LEMMA ServiceChanges ==
    ASSUME ShapeInv, ShapeInv', LimiterInv, NEW c \in DOMAIN given, given' = given, clock' = clock,
           NEW s, s = Of(c).service, NEW l \in Limiter, limiter' = [limiter EXCEPT ![s] = l],
           NEW t, task' = [task EXCEPT ![c] = t],
           l.inFlight <= MaxConcurrent, l.inFlight = Cardinality(Holding(s)'),
           Remembers(s, l)',
           IsFiniteSet(past'.admitted),
           \A b \in past'.admitted : b \in Entry /\ b.by \in DOMAIN given /\ b.at <= clock,
           \A r \in Services \ {s} : AdmittedFor(r)' = AdmittedFor(r),
           WindowsWithin'
    PROVE  LimiterInv'
<1>1. /\ task'[c] = t
      /\ \A d \in DOMAIN given \ {c} : task'[d] = task[d]
  BY TaskChanges
<1>2. \A d : /\ Of(d)' = Of(d) /\ TaskRequest(d)' = TaskRequest(d)
  BY GivenKept
<1>3. given[c] \in DOMAIN Commands /\ s \in Services
  BY DEF ShapeInv, Of, Services
<1>4. /\ limiter'[s] = l
      /\ \A r \in Services \ {s} : limiter'[r] = limiter[r]
  BY <1>3 DEF ShapeInv
<1>5. ASSUME NEW r \in Services \ {s} PROVE Holding(r)' = Holding(r)
  BY <1>1, <1>2 DEF Holding
<1>6. SlotsExact /\ WindowsWithin /\ Remembered
  BY LimitsAre DEF LimiterInv
<1>7. SlotsExact'
  BY <1>3, <1>4, <1>5, <1>6 DEF SlotsExact
<1>8. ASSUME NEW r \in Services \ {s} PROVE Remembers(r, limiter[r])'
  <2>1. Remembers(r, limiter[r])
    BY <1>6 DEF Remembered
  <2>2. AdmittedFor(r)' = AdmittedFor(r)
    OBVIOUS
  <2> QED
    BY <1>2, <1>4, <2>1, <2>2 DEF Remembers
<1>9. Remembers(s, limiter[s])'
  BY <1>2, <1>4 DEF Remembers
<1>10. Remembered'
  <2>1. \A r \in Services : Remembers(r, limiter[r])'
    BY <1>8, <1>9
  <2> QED
    BY <2>1 DEF Remembered
<1>11. LimitsHold'
  <2>1. DOMAIN limiter' = Services
    BY DEF ShapeInv
  <2> QED
    BY <1>7, <2>1 DEF LimitsHold, SlotsExact, WindowsWithin, InWindow, SameUser, SameTarget
<1> QED
  BY <1>10, <1>11 DEF LimiterInv

(* What holds of the commands after a step that leaves their store alone,  *)
(* whatever it does to the limiter.                                        *)
LEMMA AuditKeeps ==
    ASSUME AssistantInv, NEW c \in DOMAIN given, NEW t, IsTask(t),
           task' = [task EXCEPT ![c] = t], CommandInv(c, t)', t.pc # "new",
           task[c].pc \notin {"open", "done"},
           UNCHANGED <<given, clock, sessions, messages, requests, responses>>,
           past' = [admitted |-> past'.admitted, unaudited |-> past.unaudited, cleared |-> past.cleared],
           limiter' \in [Services -> Limiter]
    PROVE  ShapeInv' /\ AuditInv'
<1>1. ShapeInv /\ AuditInv
  BY DEF AssistantInv
<1>2. past'.unaudited = past.unaudited /\ past'.cleared = past.cleared
  OBVIOUS
<1>3. /\ task'[c] = t
      /\ \A d \in DOMAIN given \ {c} : task'[d] = task[d]
      /\ task' = [d \in DOMAIN given |-> task'[d]]
  BY <1>1, TaskChanges
<1>4. ShapeInv'
  <2>1. \A d \in DOMAIN given : IsTask(task'[d])
    BY <1>1, <1>3 DEF ShapeInv
  <2>2. past' = [admitted |-> past'.admitted, unaudited |-> past'.unaudited, cleared |-> past'.cleared]
    BY <1>2
  <2> QED
    BY <1>1, <1>3, <2>1, <2>2 DEF ShapeInv, Of
<1>5. \A d \in DOMAIN given : (QuestionStands(d) => QuestionStands(d)') /\ (Gone(d) => Gone(d)')
  BY <1>2 DEF QuestionStands, Gone, Of
<1>6. \A d \in DOMAIN given \ {c} : task[d].pc = "new" => Gone(d)'
  BY <1>1, <1>5 DEF AuditInv, FreshInv
<1>7. \A r \in requests : \E q \in requests' :
          q.by = r.by /\ q.evidence = r.evidence /\ q.target = r.target
  OBVIOUS
<1>8. responses \subseteq responses' /\ past.unaudited \subseteq past'.unaudited
  BY <1>2
<1>9. (\A d \in DOMAIN given : CommandInv(d, task[d])') /\ FreshInv'
  BY <1>1, <1>5, <1>6, <1>7, <1>8, CommandsKeep
<1>10. AnswersGrounded'
  BY <1>1, <1>7, GroundedKeeps DEF AuditInv
<1>11. AnswersAudited'
  BY <1>1, <1>2 DEF AuditInv, AnswersAudited
<1> QED
  BY <1>4, <1>9, <1>10, <1>11 DEF AuditInv

LEMMA ReleasePreserves ==
    ASSUME AssistantInv, NEW c \in DOMAIN given, Release(c)
    PROVE  AssistantInv'
<1>1. ShapeInv /\ LimiterInv /\ AuditInv /\ CommandInv(c, task[c])
  BY DEF AssistantInv, AuditInv
<1>2. /\ UNCHANGED <<given, clock, sessions, messages, requests, responses, past>>
      /\ task[c].pc = "release" /\ task[c].pc \in Slotted
  BY DEF Release, At, Slotted, store
<1>3. PICK s : s = Of(c).service
  OBVIOUS
<1>4. given[c] \in DOMAIN Commands /\ s \in Services
  BY <1>1, <1>3 DEF ShapeInv, Of, Services
<1>5. /\ SlotsExact /\ WindowsWithin /\ Remembered
      /\ limiter[s].inFlight = Cardinality(Holding(s)) /\ limiter[s].inFlight <= MaxConcurrent
  BY <1>1, <1>4, LimitsAre DEF LimiterInv, SlotsExact
<1>6. c \in Holding(s)
  BY <1>2, <1>3 DEF Holding, Slotted
<1>7. PICK old : old = limiter[s]
  OBVIOUS
<1>8. old \in Limiter
  BY <1>1, <1>4, <1>7 DEF ShapeInv
<1>9. /\ Cardinality(Holding(s) \ {c}) = old.inFlight - 1
      /\ Cardinality(Holding(s) \ {c}) \in Nat /\ old.inFlight \in Nat
  <2>1. IsFiniteSet(Holding(s)) /\ Cardinality(Holding(s)) \in Nat
    BY <1>1, HoldingIsFinite
  <2>2. IsFiniteSet(Holding(s) \ {c}) /\ Cardinality(Holding(s) \ {c}) = Cardinality(Holding(s)) - 1
    BY <1>6, <2>1, FS_RemoveElement
  <2> QED
    BY <1>5, <1>7, <2>1, <2>2, FS_CardinalityType
<1>10. PICK l : l = [old EXCEPT !.inFlight = old.inFlight - 1]
  OBVIOUS
<1>11. /\ l \in Limiter /\ l.inFlight = old.inFlight - 1
       /\ l.byUser = old.byUser /\ l.byTarget = old.byTarget
  BY <1>8, <1>9, <1>10 DEF Limiter
<1>12. limiter' = [limiter EXCEPT ![s] = l]
  <2>1. old.inFlight > 0
    BY <1>9
  <2>2. limiter' = [limiter EXCEPT ![s].inFlight = IF @ > 0 THEN @ - 1 ELSE @]
    BY <1>3 DEF Release
  <2> QED
    BY <1>7, <1>10, <2>1, <2>2
<1>13. PICK t : /\ task' = [task EXCEPT ![c] = t] /\ IsTask(t)
                /\ t.pc \in {"done", "reply", "note"} /\ CommandInv(c, t)
  <2>1. CASE AfterRelease(c) = "done"
    BY <1>2, <2>1, IdleTask DEF Release, Ends
  <2>2. CASE AfterRelease(c) \in {"reply", "note"}
    <3>1. Goes(c, AfterRelease(c))
      BY <2>2 DEF Release
    <3>2. PICK t : /\ task' = [task EXCEPT ![c] = t] /\ IsTask(t) /\ t.pc = AfterRelease(c)
                   /\ t.evidence = task[c].evidence /\ t.target = task[c].target
                   /\ t.answer = task[c].answer
      BY <1>1, <3>1, GoesTask
    <3>3. task[c].answer # None /\ (t.pc = "reply" => Chats(c))
      BY <2>2, <3>2 DEF AfterRelease, Chats
    <3>4. CommandInv(c, t)
      BY <1>1, <1>2, <2>2, <3>2, <3>3 DEF CommandInv, Slotted
    <3> QED
      BY <2>2, <3>2, <3>4
  <2> QED
    BY <2>1, <2>2 DEF AfterRelease
<1>14. CommandInv(c, t)'
  BY <1>2, <1>13, StoreSame
<1>15. /\ task'[c] = t
       /\ \A d \in DOMAIN given \ {c} : task'[d] = task[d]
  BY <1>1, <1>13, TaskChanges
<1>16. \A d : /\ Of(d)' = Of(d) /\ TaskRequest(d)' = TaskRequest(d)
  BY <1>2, GivenKept
<1>17. Holding(s)' = Holding(s) \ {c}
  BY <1>2, <1>13, <1>15, <1>16 DEF Holding
<1>18. limiter' \in [Services -> Limiter]
  BY <1>1, <1>4, <1>11, <1>12 DEF ShapeInv
<1>19. ShapeInv' /\ AuditInv'
  <2>1. t.pc # "new" /\ task[c].pc \notin {"open", "done"}
    BY <1>2, <1>13
  <2>2. past' = [admitted |-> past'.admitted, unaudited |-> past.unaudited, cleared |-> past.cleared]
    BY <1>1, <1>2, PastShape
  <2> QED
    BY <1>2, <1>13, <1>14, <1>18, <2>1, <2>2, AuditKeeps
<1>20. \A r : AdmittedFor(r)' = AdmittedFor(r)
  BY <1>2, <1>16 DEF AdmittedFor
<1>21. Remembers(s, l)'
  <2>1. Remembers(s, old)
    BY <1>4, <1>5, <1>7 DEF Remembered
  <2> QED
    BY <1>2, <1>11, <1>16, <1>20, <2>1 DEF Remembers
<1>22. WindowsWithin'
  BY <1>2, <1>5, <1>16 DEF WindowsWithin, SameUser, SameTarget, InWindow
<1>23. LimiterInv'
  <2>1. l.inFlight <= MaxConcurrent /\ l.inFlight = Cardinality(Holding(s)')
    BY <1>5, <1>7, <1>9, <1>11, <1>17, LimitsPositive
  <2>2. /\ IsFiniteSet(past'.admitted)
        /\ \A b \in past'.admitted : b \in Entry /\ b.by \in DOMAIN given /\ b.at <= clock
    BY <1>2, <1>5 DEF Remembered
  <2> QED
    BY <1>1, <1>2, <1>3, <1>11, <1>12, <1>13, <1>19, <1>20, <1>21, <1>22, <2>1, <2>2, ServiceChanges
<1> QED
  BY <1>19, <1>23 DEF AssistantInv

(* A task at the limiter: its service, its user and its target are known.  *)
LEMMA AtLimiter ==
    ASSUME ShapeInv, NEW c \in DOMAIN given, CommandInv(c, task[c]), task[c].pc = "read",
           Acceptable(TaskRequest(c))
    PROVE  /\ Of(c).service \in Services
           /\ TaskRequest(c).user \in Users
           /\ Target(TaskRequest(c)) \in Targets
           /\ Target(TaskRequest(c)) = TargetOf[TaskRequest(c).on]
<1>1. given[c] \in DOMAIN Commands
  BY DEF ShapeInv
<1>2. Commands[given[c]].kind \notin {"new", "clear", "delete", "approve"}
  BY DEF CommandInv, Managing, Of
<1>3. TaskRequest(c).on \in DOMAIN TargetOf
  BY <1>1, <1>2, RowsHaveTargets DEF TaskRequest
<1>4. Of(c).service \in Services /\ TaskRequest(c).user \in Users
  BY <1>1 DEF Of, Services, TaskRequest, Users
<1>5. Target(TaskRequest(c)) = TargetOf[TaskRequest(c).on]
  BY DEF Acceptable
<1> QED
  BY <1>3, <1>4, <1>5 DEF Targets

(* What pruning leaves, and that it forgets nothing the window covers.     *)
LEMMA PruneKeeps ==
    ASSUME NEW s \in Services, NEW l \in Limiter, Remembers(s, l), NEW u \in Users, NEW t \in Targets,
           NEW k, k = Pruned(l, u, t)
    PROVE  /\ k \in Limiter /\ Remembers(s, k) /\ k.inFlight = l.inFlight
           /\ k.byUser = [l.byUser EXCEPT ![u] = Prune(l.byUser[u])]
           /\ k.byTarget = [l.byTarget EXCEPT ![t] = Prune(l.byTarget[t])]
<1>1. PICK m : m = [l EXCEPT !.byUser = [l.byUser EXCEPT ![u] = Prune(l.byUser[u])]]
  OBVIOUS
<1>3. /\ Prune(l.byUser[u]) \subseteq l.byUser[u]
      /\ Prune(l.byTarget[t]) \subseteq l.byTarget[t]
  BY DEF Prune
<1>4. /\ l.byUser \in [Users -> SUBSET Entry] /\ l.byTarget \in [Targets -> SUBSET Entry]
      /\ l.inFlight \in Nat
      /\ l = [inFlight |-> l.inFlight, byUser |-> l.byUser, byTarget |-> l.byTarget]
  BY DEF Limiter
<1>5. /\ [l.byUser EXCEPT ![u] = Prune(l.byUser[u])] \in [Users -> SUBSET Entry]
      /\ [l.byTarget EXCEPT ![t] = Prune(l.byTarget[t])] \in [Targets -> SUBSET Entry]
  BY <1>3, <1>4
<1>2. k = [m EXCEPT !.byTarget = [l.byTarget EXCEPT ![t] = Prune(l.byTarget[t])]]
  BY <1>1, <1>4 DEF Pruned
<1>6. /\ k.inFlight = l.inFlight
      /\ k.byUser = [l.byUser EXCEPT ![u] = Prune(l.byUser[u])]
      /\ k.byTarget = [l.byTarget EXCEPT ![t] = Prune(l.byTarget[t])]
      /\ k = [inFlight |-> k.inFlight, byUser |-> k.byUser, byTarget |-> k.byTarget]
  BY <1>1, <1>2, <1>4
<1>7. k \in Limiter
  BY <1>4, <1>5, <1>6 DEF Limiter
<1>9. Remembers(s, k)
  <2>1. ASSUME NEW v \in Users
        PROVE  /\ IsFiniteSet(k.byUser[v])
               /\ {b \in AdmittedFor(s) : TaskRequest(b.by).user = v /\ b.at > clock - Window} \subseteq k.byUser[v]
    <3>1. /\ IsFiniteSet(l.byUser[v])
          /\ {b \in AdmittedFor(s) : TaskRequest(b.by).user = v /\ b.at > clock - Window} \subseteq l.byUser[v]
      BY DEF Remembers
    <3>2. CASE v # u
      BY <1>4, <1>6, <3>1, <3>2
    <3>3. CASE v = u
      <4>1. k.byUser[v] = Prune(l.byUser[v])
        BY <1>4, <1>6, <3>3
      <4>2. IsFiniteSet(Prune(l.byUser[v]))
        BY <1>3, <3>1, <3>3, FS_Subset
      <4> QED
        BY <3>1, <4>1, <4>2 DEF Prune
    <3> QED
      BY <3>2, <3>3
  <2>2. ASSUME NEW v \in Targets
        PROVE  /\ IsFiniteSet(k.byTarget[v])
               /\ {b \in AdmittedFor(s) : Target(TaskRequest(b.by)) = v /\ b.at > clock - Window} \subseteq k.byTarget[v]
    <3>1. /\ IsFiniteSet(l.byTarget[v])
          /\ {b \in AdmittedFor(s) : Target(TaskRequest(b.by)) = v /\ b.at > clock - Window} \subseteq l.byTarget[v]
      BY DEF Remembers
    <3>2. CASE v # t
      BY <1>4, <1>6, <3>1, <3>2
    <3>3. CASE v = t
      <4>1. k.byTarget[v] = Prune(l.byTarget[v])
        BY <1>4, <1>6, <3>3
      <4>2. IsFiniteSet(Prune(l.byTarget[v]))
        BY <1>3, <3>1, <3>3, FS_Subset
      <4> QED
        BY <3>1, <4>1, <4>2 DEF Prune
    <3> QED
      BY <3>2, <3>3
  <2> QED
    BY <2>1, <2>2 DEF Remembers
<1> QED
  BY <1>6, <1>7, <1>9

LEMMA RefusePreserves ==
    ASSUME AssistantInv, NEW c \in DOMAIN given, Refuse(c)
    PROVE  AssistantInv'
<1>1. ShapeInv /\ LimiterInv /\ AuditInv /\ CommandInv(c, task[c])
  BY DEF AssistantInv, AuditInv
<1>2. /\ UNCHANGED <<given, clock, sessions, messages, requests, responses, past>>
      /\ task[c].pc = "read" /\ task[c].pc \notin Slotted /\ Ends(c)
  BY DEF Refuse, At, Slotted, store
<1>3. CASE limiter' = limiter
  BY <1>2, <1>3, EndsQuietly
<1>4. CASE /\ Acceptable(TaskRequest(c))
           /\ limiter' = [limiter EXCEPT ![Of(c).service] =
                             Pruned(limiter[Of(c).service], TaskRequest(c).user, Target(TaskRequest(c)))]
  <2>1. PICK s : s = Of(c).service
    OBVIOUS
  <2>2. PICK l : l = Pruned(limiter[s], TaskRequest(c).user, Target(TaskRequest(c)))
    OBVIOUS
  <2>3. /\ s \in Services /\ TaskRequest(c).user \in Users
        /\ Target(TaskRequest(c)) \in Targets
    BY <1>1, <1>2, <1>4, <2>1, AtLimiter
  <2>4. /\ SlotsExact /\ WindowsWithin /\ Remembered /\ Remembers(s, limiter[s])
        /\ limiter[s].inFlight = Cardinality(Holding(s)) /\ limiter[s].inFlight <= MaxConcurrent
        /\ limiter[s] \in Limiter
    BY <1>1, <2>3, LimitsAre DEF LimiterInv, SlotsExact, Remembered, ShapeInv
  <2>5. l \in Limiter /\ Remembers(s, l) /\ l.inFlight = limiter[s].inFlight
    <3>1. PICK old \in Limiter, u \in Users, v \in Targets :
              old = limiter[s] /\ u = TaskRequest(c).user /\ v = Target(TaskRequest(c))
      BY <2>3, <2>4
    <3>2. Remembers(s, old) /\ l = Pruned(old, u, v)
      BY <2>2, <2>4, <3>1
    <3>3. l \in Limiter /\ Remembers(s, l) /\ l.inFlight = old.inFlight
      <4>1. s \in Services /\ Remembers(s, old) /\ l = Pruned(old, u, v)
        BY <2>3, <3>2
      <4>2. l \in Limiter
        BY <4>1, PruneKeeps
      <4>3. Remembers(s, l)
        BY <4>1, PruneKeeps
      <4>4. l.inFlight = old.inFlight
        BY <4>1 DEF Pruned, Limiter
      <4> QED
        BY <4>2, <4>3, <4>4
    <3> QED
      BY <3>1, <3>3
  <2>6. limiter' = [limiter EXCEPT ![s] = l]
    BY <1>4, <2>1, <2>2
  <2>7. limiter' \in [Services -> Limiter]
    BY <1>1, <2>3, <2>5, <2>6 DEF ShapeInv
  <2>8. task' = [task EXCEPT ![c] = Idle] /\ IsTask(Idle) /\ CommandInv(c, Idle)' /\ Idle.pc = "done"
    BY <1>2, IdleTask DEF Ends
  <2>9. ShapeInv' /\ AuditInv'
    <3>1. Idle.pc # "new" /\ task[c].pc \notin {"open", "done"}
      BY <1>2, <2>8
    <3>2. past' = [admitted |-> past'.admitted, unaudited |-> past.unaudited, cleared |-> past.cleared]
      BY <1>1, <1>2, PastShape
    <3> QED
      BY <1>2, <2>7, <2>8, <3>1, <3>2, AuditKeeps
  <2>10. /\ task'[c] = Idle
         /\ \A d \in DOMAIN given \ {c} : task'[d] = task[d]
    BY <1>1, <2>8, TaskChanges
  <2>11. \A d : /\ Of(d)' = Of(d) /\ TaskRequest(d)' = TaskRequest(d)
    BY <1>2, GivenKept
  <2>12. Holding(s)' = Holding(s)
    BY <1>2, <2>8, <2>10, <2>11 DEF Holding, Slotted
  <2>13. \A r : AdmittedFor(r)' = AdmittedFor(r)
    BY <1>2, <2>11 DEF AdmittedFor
  <2>14. Remembers(s, l)'
    BY <1>2, <2>5, <2>11, <2>13 DEF Remembers
  <2>15. WindowsWithin'
    BY <1>2, <2>4, <2>11 DEF WindowsWithin, SameUser, SameTarget, InWindow
  <2>16. l.inFlight <= MaxConcurrent /\ l.inFlight = Cardinality(Holding(s)')
    BY <2>4, <2>5, <2>12
  <2>17. /\ IsFiniteSet(past'.admitted)
         /\ \A b \in past'.admitted : b \in Entry /\ b.by \in DOMAIN given /\ b.at <= clock
    BY <1>2, <2>4 DEF Remembered
  <2>18. LimiterInv'
    BY <1>1, <1>2, <2>1, <2>5, <2>6, <2>8, <2>9, <2>13, <2>14, <2>15, <2>16, <2>17, ServiceChanges
  <2> QED
    BY <2>9, <2>18 DEF AssistantInv
<1> QED
  BY <1>3, <1>4 DEF Refuse

(* The same of what is counted: the new admission joins the remembered.    *)
LEMMA CountKeeps ==
    ASSUME NEW c \in DOMAIN given, ShapeInv, NEW s, s = Of(c).service, Remembered,
           NEW u \in Users, u = TaskRequest(c).user,
           NEW t \in Targets, t = Target(TaskRequest(c)),
           NEW k \in Limiter, Remembers(s, k), NEW l, l = Counted(k, u, t, c),
           NEW new, new = [by |-> c, at |-> clock],
           past'.admitted = past.admitted \cup {new}, given' = given, clock' = clock
    PROVE  /\ l \in Limiter /\ Remembers(s, l)'
<1>1. \A d : /\ Of(d)' = Of(d) /\ TaskRequest(d)' = TaskRequest(d)
  BY GivenKept
<1>2. /\ k.byUser \in [Users -> SUBSET Entry] /\ k.byTarget \in [Targets -> SUBSET Entry]
      /\ k.inFlight \in Nat
      /\ k = [inFlight |-> k.inFlight, byUser |-> k.byUser, byTarget |-> k.byTarget]
  BY DEF Limiter
<1>3. new \in Entry /\ new.by = c /\ new.at = clock
  BY DEF ShapeInv, Entry
<1>4. PICK users : users = [k.byUser EXCEPT ![u] = k.byUser[u] \cup {new}]
  OBVIOUS
<1>5. PICK targets : targets = [k.byTarget EXCEPT ![t] = k.byTarget[t] \cup {new}]
  OBVIOUS
<1>6. users \in [Users -> SUBSET Entry] /\ targets \in [Targets -> SUBSET Entry]
  BY <1>2, <1>3, <1>4, <1>5
<1>7. l = [inFlight |-> k.inFlight + 1, byUser |-> users, byTarget |-> targets]
  <2>1. PICK m : m = [k EXCEPT !.byUser = users]
    OBVIOUS
  <2>2. PICK n : n = [m EXCEPT !.byTarget = targets]
    OBVIOUS
  <2>3. l = [n EXCEPT !.inFlight = k.inFlight + 1]
    BY <1>2, <1>4, <1>5, <2>1, <2>2 DEF Counted
  <2> QED
    BY <1>2, <2>1, <2>2, <2>3
<1>8. l \in Limiter
  BY <1>2, <1>6, <1>7 DEF Limiter
<1>9. AdmittedFor(s)' \subseteq AdmittedFor(s) \cup {new}
  BY <1>1 DEF AdmittedFor
<1>10. Remembers(s, l)'
  <2>1. ASSUME NEW v \in Users
        PROVE  /\ IsFiniteSet(l.byUser[v])
               /\ {b \in AdmittedFor(s)' : TaskRequest(b.by).user = v /\ b.at > clock - Window} \subseteq l.byUser[v]
    <3>1. /\ IsFiniteSet(k.byUser[v])
          /\ {b \in AdmittedFor(s) : TaskRequest(b.by).user = v /\ b.at > clock - Window} \subseteq k.byUser[v]
      BY DEF Remembers
    <3>2. CASE v # u
      BY <1>2, <1>3, <1>4, <1>7, <1>9, <3>1, <3>2
    <3>3. CASE v = u
      <4>1. l.byUser[v] = k.byUser[v] \cup {new}
        BY <1>2, <1>4, <1>7, <3>3
      <4>2. IsFiniteSet(l.byUser[v])
        <5>1. PICK S : S = k.byUser[v]
          OBVIOUS
        <5>2. IsFiniteSet(S)
          BY <3>1, <5>1
        <5>3. IsFiniteSet(S \cup {new})
          BY <5>2, FS_AddElement
        <5> QED
          BY <4>1, <5>1, <5>3
      <4>3. ASSUME NEW b \in AdmittedFor(s)', TaskRequest(b.by).user = v, b.at > clock - Window
            PROVE  b \in l.byUser[v]
        BY <1>9, <3>1, <4>1, <4>3
      <4> QED
        BY <4>2, <4>3
    <3> QED
      BY <3>2, <3>3
  <2>2. ASSUME NEW v \in Targets
        PROVE  /\ IsFiniteSet(l.byTarget[v])
               /\ {b \in AdmittedFor(s)' : Target(TaskRequest(b.by)) = v /\ b.at > clock - Window} \subseteq l.byTarget[v]
    <3>1. /\ IsFiniteSet(k.byTarget[v])
          /\ {b \in AdmittedFor(s) : Target(TaskRequest(b.by)) = v /\ b.at > clock - Window} \subseteq k.byTarget[v]
      BY DEF Remembers
    <3>2. CASE v # t
      BY <1>2, <1>3, <1>5, <1>7, <1>9, <3>1, <3>2
    <3>3. CASE v = t
      <4>1. l.byTarget[v] = k.byTarget[v] \cup {new}
        BY <1>2, <1>5, <1>7, <3>3
      <4>2. IsFiniteSet(l.byTarget[v])
        <5>1. PICK S : S = k.byTarget[v]
          OBVIOUS
        <5>2. IsFiniteSet(S)
          BY <3>1, <5>1
        <5>3. IsFiniteSet(S \cup {new})
          BY <5>2, FS_AddElement
        <5> QED
          BY <4>1, <5>1, <5>3
      <4>3. ASSUME NEW b \in AdmittedFor(s)', Target(TaskRequest(b.by)) = v, b.at > clock - Window
            PROVE  b \in l.byTarget[v]
        BY <1>9, <3>1, <4>1, <4>3
      <4> QED
        BY <4>2, <4>3
    <3> QED
      BY <3>2, <3>3
  <2> QED
    BY <1>1, <2>1, <2>2 DEF Remembers
<1> QED
  BY <1>8, <1>10

(* No window gets over its limit by an admission the limiter allows.       *)
LEMMA WindowsStay ==
    ASSUME ShapeInv, Remembered, WindowsWithin, NEW c \in DOMAIN given,
           NEW s \in Services, s = Of(c).service,
           NEW u \in Users, u = TaskRequest(c).user,
           NEW t \in Targets, t = Target(TaskRequest(c)),
           Cardinality(Prune(limiter[s].byUser[u])) < PerUser,
           Cardinality(Prune(limiter[s].byTarget[t])) < PerTarget,
           NEW new, new = [by |-> c, at |-> clock],
           past'.admitted = past.admitted \cup {new}, given' = given, clock' = clock
    PROVE  WindowsWithin'
<1>1. \A d : /\ Of(d)' = Of(d) /\ TaskRequest(d)' = TaskRequest(d)
  BY GivenKept
<1>2. /\ clock \in Nat /\ Window \in Nat \ {0} /\ PerUser \in Nat /\ PerTarget \in Nat
      /\ new.by = c /\ new.at = clock
  BY LimitsPositive DEF ShapeInv
<1>3. \A b \in past'.admitted : b.at \in Nat /\ b.at <= clock
  BY <1>2 DEF Remembered, Entry
<1>4. Remembers(s, limiter[s])
  BY DEF Remembered
<1>5. ASSUME NEW a \in past'.admitted PROVE Cardinality(SameUser(a)') <= PerUser
  <2>1. CASE new \notin SameUser(a)'
    <3>1. a \in past.admitted
      BY <1>2, <2>1 DEF SameUser, InWindow
    <3>2. SameUser(a)' = SameUser(a)
      BY <1>1, <2>1 DEF SameUser, InWindow
    <3> QED
      BY <3>1, <3>2 DEF WindowsWithin
  <2>2. CASE new \in SameUser(a)'
    <3>1. Of(a.by).service = s /\ TaskRequest(a.by).user = u /\ a.at = clock
      BY <1>1, <1>2, <1>3, <2>2 DEF SameUser, InWindow
    <3>2. SameUser(a)' \subseteq
              {b \in AdmittedFor(s) : TaskRequest(b.by).user = u /\ b.at > clock - Window} \cup {new}
      BY <1>1, <1>2, <1>3, <3>1 DEF SameUser, InWindow, AdmittedFor
    <3>3. SameUser(a)' \subseteq Prune(limiter[s].byUser[u]) \cup {new}
      BY <1>4, <3>2 DEF Remembers, Prune
    <3>4. IsFiniteSet(Prune(limiter[s].byUser[u]))
      <4>1. IsFiniteSet(limiter[s].byUser[u])
        BY <1>4 DEF Remembers
      <4> QED
        BY <4>1, FS_Subset DEF Prune
    <3>5. PICK P, A : P = Prune(limiter[s].byUser[u]) /\ A = SameUser(a)'
      OBVIOUS
    <3>6. IsFiniteSet(P) /\ Cardinality(P) < PerUser /\ A \subseteq P \cup {new}
      BY <3>3, <3>4, <3>5
    <3>7. Cardinality(A) <= PerUser
      BY <1>2, <3>6, OneMore
    <3> QED
      BY <3>5, <3>7
  <2> QED
    BY <2>1, <2>2
<1>6. ASSUME NEW a \in past'.admitted PROVE Cardinality(SameTarget(a)') <= PerTarget
  <2>1. CASE new \notin SameTarget(a)'
    <3>1. a \in past.admitted
      BY <1>2, <2>1 DEF SameTarget, InWindow
    <3>2. SameTarget(a)' = SameTarget(a)
      BY <1>1, <2>1 DEF SameTarget, InWindow
    <3> QED
      BY <3>1, <3>2 DEF WindowsWithin
  <2>2. CASE new \in SameTarget(a)'
    <3>1. Of(a.by).service = s /\ Target(TaskRequest(a.by)) = t /\ a.at = clock
      BY <1>1, <1>2, <1>3, <2>2 DEF SameTarget, InWindow
    <3>2. SameTarget(a)' \subseteq
              {b \in AdmittedFor(s) : Target(TaskRequest(b.by)) = t /\ b.at > clock - Window} \cup {new}
      BY <1>1, <1>2, <1>3, <3>1 DEF SameTarget, InWindow, AdmittedFor
    <3>3. SameTarget(a)' \subseteq Prune(limiter[s].byTarget[t]) \cup {new}
      BY <1>4, <3>2 DEF Remembers, Prune
    <3>4. IsFiniteSet(Prune(limiter[s].byTarget[t]))
      <4>1. IsFiniteSet(limiter[s].byTarget[t])
        BY <1>4 DEF Remembers
      <4> QED
        BY <4>1, FS_Subset DEF Prune
    <3>5. PICK P, A : P = Prune(limiter[s].byTarget[t]) /\ A = SameTarget(a)'
      OBVIOUS
    <3>6. IsFiniteSet(P) /\ Cardinality(P) < PerTarget /\ A \subseteq P \cup {new}
      BY <3>3, <3>4, <3>5
    <3>7. Cardinality(A) <= PerTarget
      BY <1>2, <3>6, OneMore
    <3> QED
      BY <3>5, <3>7
  <2> QED
    BY <2>1, <2>2
<1> QED
  BY <1>5, <1>6 DEF WindowsWithin

LEMMA AdmitPreserves ==
    ASSUME AssistantInv, NEW c \in DOMAIN given, Admit(c)
    PROVE  AssistantInv'
<1>1. ShapeInv /\ LimiterInv /\ AuditInv /\ CommandInv(c, task[c]) /\ IsTask(task[c])
  BY DEF AssistantInv, AuditInv, ShapeInv
<1>2. /\ UNCHANGED <<given, clock, sessions, messages, requests, responses>>
      /\ task[c].pc = "read" /\ task[c].pc \notin Slotted /\ Acceptable(TaskRequest(c))
  BY DEF Admit, At, Slotted, store
<1>3. PICK s : s = Of(c).service
  OBVIOUS
<1>4. PICK u : u = TaskRequest(c).user
  OBVIOUS
<1>5. PICK v : v = Target(TaskRequest(c))
  OBVIOUS
<1>6. s \in Services /\ u \in Users /\ v \in Targets /\ v = TargetOf[TaskRequest(c).on]
  BY <1>1, <1>2, <1>3, <1>4, <1>5, AtLimiter
<1>7. PICK old : old = limiter[s]
  OBVIOUS
<1>8. /\ SlotsExact /\ WindowsWithin /\ Remembered /\ Remembers(s, old)
      /\ old.inFlight = Cardinality(Holding(s)) /\ old \in Limiter
  BY <1>1, <1>6, <1>7, LimitsAre DEF LimiterInv, SlotsExact, Remembered, ShapeInv
<1>9. PICK k : k = Pruned(old, u, v)
  OBVIOUS
<1>10. k \in Limiter /\ Remembers(s, k)
  BY <1>6, <1>8, <1>9, PruneKeeps
<1>11. /\ k.inFlight = old.inFlight
       /\ k.byUser[u] = Prune(old.byUser[u]) /\ k.byTarget[v] = Prune(old.byTarget[v])
  BY <1>6, <1>8, <1>9 DEF Pruned, Limiter
<1>12. PICK l : l = Counted(k, u, v, c)
  OBVIOUS
<1>13. PICK new : new = [by |-> c, at |-> clock]
  OBVIOUS
<1>14. /\ limiter' = [limiter EXCEPT ![s] = l]
       /\ past' = [past EXCEPT !.admitted = @ \cup {new}]
       /\ Allowed(k, u, v)
  BY <1>3, <1>4, <1>5, <1>7, <1>9, <1>12, <1>13 DEF Admit
<1>15. past' = [admitted |-> past.admitted \cup {new}, unaudited |-> past.unaudited, cleared |-> past.cleared]
  <2>1. PICK before : before = past
    OBVIOUS
  <2>2. PICK adm : adm = before.admitted \cup {new}
    OBVIOUS
  <2>3. past' = [before EXCEPT !.admitted = adm]
    BY <1>14, <2>1, <2>2
  <2> QED
    BY <1>1, <2>1, <2>2, <2>3, PastShape
<1>16. past'.admitted = past.admitted \cup {new}
  BY <1>15
<1>17. l \in Limiter /\ Remembers(s, l)' /\ l.inFlight = k.inFlight + 1
  <2>1. l \in Limiter /\ Remembers(s, l)'
    BY <1>1, <1>2, <1>3, <1>4, <1>5, <1>6, <1>8, <1>10, <1>12, <1>13, <1>16, CountKeeps
  <2>2. l.inFlight = k.inFlight + 1
    BY <1>10, <1>12 DEF Counted, Limiter
  <2> QED
    BY <2>1, <2>2
<1>18. WindowsWithin'
  <2>1. /\ Cardinality(Prune(limiter[s].byUser[u])) < PerUser
        /\ Cardinality(Prune(limiter[s].byTarget[v])) < PerTarget
    BY <1>7, <1>11, <1>14 DEF Allowed
  <2> QED
    BY <1>1, <1>2, <1>3, <1>4, <1>5, <1>6, <1>8, <1>13, <1>16, <2>1, WindowsStay
<1>19. PICK t : /\ task' = [task EXCEPT ![c] = t] /\ IsTask(t) /\ t.pc \in {"attempt", "release"}
                /\ t.target = v /\ t.answer = task[c].answer
  <2>1. PICK was : was = task[c]
    OBVIOUS
  <2>2. PICK ctx : ctx = Truncate(was.facts)
    OBVIOUS
  <2>3. PICK step \in {"attempt", "release"} :
            step = IF Of(c).provider \in Registered THEN "attempt" ELSE "release"
    OBVIOUS
  <2>4. PICK t : t = [was EXCEPT !.pc = step, !.facts = <<>>, !.evidence = ctx.facts, !.cut = ctx.cut, !.target = v]
    OBVIOUS
  <2>5. task' = [task EXCEPT ![c] = t]
    BY <1>5, <2>1, <2>2, <2>3, <2>4 DEF Admit
  <2>6. IsTask(was)
    BY <1>1, <2>1
  <2>7. IsTask(t) /\ t.pc = step /\ t.target = v /\ t.answer = was.answer
    BY <2>4, <2>6 DEF IsTask
  <2> QED
    BY <2>1, <2>3, <2>5, <2>7
<1>20. \A d : /\ Of(d)' = Of(d) /\ TaskRequest(d)' = TaskRequest(d)
  BY <1>2, GivenKept
<1>21. CommandInv(c, t)'
  <2>1. QuestionStands(c) => QuestionStands(c)'
    BY <1>2, <1>15, <1>20 DEF QuestionStands, Gone
  <2> QED
    BY <1>1, <1>2, <1>6, <1>19, <1>20, <2>1 DEF CommandInv, Slotted, Chats, Of, TaskRequest
<1>22. limiter' \in [Services -> Limiter]
  BY <1>1, <1>6, <1>14, <1>17 DEF ShapeInv
<1>23. ShapeInv' /\ AuditInv'
  <2>1. t.pc # "new" /\ task[c].pc \notin {"open", "done"}
    BY <1>2, <1>19
  <2>2. past' = [admitted |-> past'.admitted, unaudited |-> past.unaudited, cleared |-> past.cleared]
    BY <1>15
  <2> QED
    BY <1>2, <1>19, <1>21, <1>22, <2>1, <2>2, AuditKeeps
<1>24. /\ task'[c] = t
       /\ \A d \in DOMAIN given \ {c} : task'[d] = task[d]
  BY <1>1, <1>19, TaskChanges
<1>25. Holding(s)' = Holding(s) \cup {c} /\ c \notin Holding(s)
  BY <1>2, <1>3, <1>19, <1>20, <1>24 DEF Holding, Slotted
<1>26. l.inFlight = Cardinality(Holding(s)') /\ l.inFlight <= MaxConcurrent
  <2>1. PICK H : H = Holding(s)
    OBVIOUS
  <2>2. IsFiniteSet(H) /\ Cardinality(H) \in Nat /\ c \notin H
    BY <1>1, <1>25, <2>1, HoldingIsFinite
  <2>3. Cardinality(H \cup {c}) = Cardinality(H) + 1
    BY <2>2, FS_AddElement
  <2>4. k.inFlight < MaxConcurrent /\ MaxConcurrent \in Nat
    BY <1>14, LimitsPositive DEF Allowed
  <2> QED
    BY <1>8, <1>11, <1>17, <1>25, <2>1, <2>2, <2>3, <2>4
<1>27. \A r \in Services \ {s} : AdmittedFor(r)' = AdmittedFor(r)
  BY <1>3, <1>13, <1>16, <1>20 DEF AdmittedFor
<1>28. /\ IsFiniteSet(past'.admitted)
       /\ \A b \in past'.admitted : b \in Entry /\ b.by \in DOMAIN given /\ b.at <= clock
  <2>1. PICK A : A = past.admitted
    OBVIOUS
  <2>2. IsFiniteSet(A)
    BY <1>8, <2>1 DEF Remembered
  <2>3. IsFiniteSet(A \cup {new})
    BY <2>2, FS_AddElement
  <2>4. new \in Entry /\ new.by \in DOMAIN given /\ new.at <= clock
    BY <1>1, <1>13 DEF ShapeInv, Entry
  <2> QED
    BY <1>8, <1>16, <2>1, <2>3, <2>4 DEF Remembered
<1>29. LimiterInv'
  BY <1>1, <1>2, <1>3, <1>14, <1>17, <1>18, <1>19, <1>23, <1>26, <1>27, <1>28, ServiceChanges
<1> QED
  BY <1>23, <1>29 DEF AssistantInv
-----------------------------------------------------------------------------
(* The whole.                                                              *)

LEMMA TickPreserves ==
    ASSUME AssistantInv, Tick
    PROVE  AssistantInv'
<1>1. /\ ShapeInv /\ LimiterInv /\ AuditInv /\ clock' = clock + 1
      /\ UNCHANGED <<given, limiter, sessions, messages, requests, responses, task, past>>
  BY DEF AssistantInv, Tick, store
<1>2. \A d : /\ Of(d)' = Of(d) /\ TaskRequest(d)' = TaskRequest(d) /\ (Chats(d)' <=> Chats(d))
  BY <1>1, GivenKept
<1>3. ShapeInv'
  BY <1>1 DEF ShapeInv, Of
<1>4. Remembered'
  <2>1. \A s : AdmittedFor(s)' = AdmittedFor(s)
    BY <1>1, <1>2 DEF AdmittedFor
  <2>2. /\ \A b \in past.admitted : b \in Entry /\ b.at \in Nat
        /\ clock \in Nat /\ Window \in Nat
    BY <1>1, LimitsPositive DEF LimiterInv, Remembered, Entry, ShapeInv
  <2>3. \A s : \A b \in AdmittedFor(s) : b.at \in Nat
    BY <2>2 DEF AdmittedFor
  <2>4. ASSUME NEW s \in Services PROVE Remembers(s, limiter[s])'
    <3>1. Remembers(s, limiter[s])
      BY <1>1 DEF LimiterInv, Remembered
    <3>2. \A b \in AdmittedFor(s) : b.at > clock + 1 - Window => b.at > clock - Window
      BY <2>2, <2>3
    <3>5. AdmittedFor(s)' = AdmittedFor(s)
      BY <1>1 DEF AdmittedFor, Of
    <3>3. ASSUME NEW u \in Users
          PROVE  /\ IsFiniteSet(limiter[s].byUser[u])
                 /\ {b \in AdmittedFor(s)' : TaskRequest(b.by).user = u /\ b.at > clock' - Window}
                       \subseteq limiter[s].byUser[u]
      <4>1. /\ IsFiniteSet(limiter[s].byUser[u])
            /\ {b \in AdmittedFor(s) : TaskRequest(b.by).user = u /\ b.at > clock - Window} \subseteq limiter[s].byUser[u]
        BY <3>1 DEF Remembers
      <4>2. ASSUME NEW b \in AdmittedFor(s)', TaskRequest(b.by).user = u, b.at > clock' - Window
            PROVE  b \in limiter[s].byUser[u]
        <5>1. b \in AdmittedFor(s)
          BY <3>5, <4>2
        <5>2. b.at > clock + 1 - Window
          BY <1>1, <2>2, <2>3, <4>2, <5>1
        <5>3. b.at > clock - Window
          BY <3>2, <5>1, <5>2
        <5>4. b \in {a \in AdmittedFor(s) : TaskRequest(a.by).user = u /\ a.at > clock - Window}
          BY <4>2, <5>1, <5>3
        <5> QED
          BY <4>1, <5>4
      <4> QED
        BY <4>1, <4>2
    <3>4. ASSUME NEW t \in Targets
          PROVE  /\ IsFiniteSet(limiter[s].byTarget[t])
                 /\ {b \in AdmittedFor(s)' : Target(TaskRequest(b.by)) = t /\ b.at > clock' - Window}
                       \subseteq limiter[s].byTarget[t]
      <4>1. /\ IsFiniteSet(limiter[s].byTarget[t])
            /\ {b \in AdmittedFor(s) : Target(TaskRequest(b.by)) = t /\ b.at > clock - Window} \subseteq limiter[s].byTarget[t]
        BY <3>1 DEF Remembers
      <4>2. ASSUME NEW b \in AdmittedFor(s)', Target(TaskRequest(b.by)) = t, b.at > clock' - Window
            PROVE  b \in limiter[s].byTarget[t]
        <5>1. b \in AdmittedFor(s)
          BY <3>5, <4>2
        <5>2. b.at > clock + 1 - Window
          BY <1>1, <2>2, <2>3, <4>2, <5>1
        <5>3. b.at > clock - Window
          BY <3>2, <5>1, <5>2
        <5>4. b \in {a \in AdmittedFor(s) : Target(TaskRequest(a.by)) = t /\ a.at > clock - Window}
          BY <4>2, <5>1, <5>3
        <5> QED
          BY <4>1, <5>4
      <4> QED
        BY <4>1, <4>2
    <3> QED
      BY <1>1, <1>2, <3>3, <3>4 DEF Remembers
  <2> QED
    BY <1>1, <2>2, <2>4 DEF LimiterInv, Remembered
<1>5. LimitsHold'
  BY <1>1, <1>2 DEF LimiterInv, LimitsHold, Holding
<1>6. AuditInv'
  <2>1. \A c \in DOMAIN given : CommandInv(c, task[c])'
    <3> SUFFICES ASSUME NEW c \in DOMAIN given PROVE CommandInv(c, task[c])'
      BY <1>1
    <3>1. PICK t : t = task[c]
      OBVIOUS
    <3>2. CommandInv(c, t)
      BY <1>1, <3>1 DEF AuditInv
    <3>3. CommandInv(c, t)'
      BY <1>1, <3>2, StoreSame
    <3> QED
      BY <1>1, <3>1, <3>3
  <2>2. FreshInv'
    BY <1>1, <1>2 DEF AuditInv, FreshInv, Gone
  <2>3. AnswersGrounded' /\ AnswersAudited'
    BY <1>1, <1>2 DEF AuditInv, AnswersGrounded, AnswersAudited
  <2> QED
    BY <1>1, <2>1, <2>2, <2>3 DEF AuditInv
<1> QED
  BY <1>3, <1>4, <1>5, <1>6 DEF AssistantInv, LimiterInv

LEMMA StepPreserves ==
    ASSUME AssistantInv, NEW c \in DOMAIN given, Step(c)
    PROVE  AssistantInv'
<1>1. CASE NewSession(c)
  BY <1>1, NewSessionPreserves
<1>2. CASE OpenChat(c) \/ Ask(c) \/ Reply(c) \/ ChatFails(c)
  BY <1>2, OpenChatPreserves, AskPreserves, ReplyPreserves, ChatFailsPreserves
<1>3. CASE ClearSession(c) \/ DeleteSession(c)
  BY <1>3, ClearSessionPreserves, DeleteSessionPreserves
<1>4. CASE ReadPart(c) \/ PartFails(c)
  BY <1>4, ReadingPreserves
<1>5. CASE Admit(c) \/ Refuse(c) \/ Release(c)
  BY <1>5, AdmitPreserves, RefusePreserves, ReleasePreserves
<1>6. CASE ProviderAnswers(c) \/ ProviderFails(c) \/ BackOff(c)
  BY <1>6, ProviderAnswersPreserves, AttemptPreserves
<1>7. CASE CreateRequest(c) \/ RequestFails(c) \/ CreateResponse(c) \/ ResponseFails(c)
  BY <1>7, CreateRequestPreserves, AuditFailsPreserves, CreateResponsePreserves
<1>8. CASE RecordAnalysis(c) \/ SaveNote(c) \/ ApproveNote(c) \/ AnnounceNote(c) \/ NoteFails(c)
  BY <1>8, NotesPreserve
<1> QED
  BY <1>1, <1>2, <1>3, <1>4, <1>5, <1>6, <1>7, <1>8 DEF Step

LEMMA StutterKeeps ==
    ASSUME AssistantInv, UNCHANGED vars
    PROVE  AssistantInv'
<1>1. /\ UNCHANGED <<clock, given, limiter, sessions, messages, requests, responses, task, past>>
      /\ ShapeInv /\ LimiterInv /\ AuditInv
  BY DEF vars, AssistantInv
<1>2. ShapeInv'
  BY <1>1 DEF ShapeInv, Of
<1>3. LimiterInv'
  BY <1>1 DEF LimiterInv, Remembered, Remembers, AdmittedFor, LimitsHold, Holding, Of, TaskRequest
<1>4. AuditInv'
  BY <1>1 DEF AuditInv, CommandInv, FreshInv, Chats, Gone, QuestionStands, Audited, Requested, Of,
              TaskRequest, AnswersGrounded, AnswersAudited
<1> QED
  BY <1>2, <1>3, <1>4 DEF AssistantInv

LEMMA InitEstablishes ==
    ASSUME Init
    PROVE  AssistantInv
<1>1. PICK together \in Scenarios : given = together.commands
  BY DEF Init
<1>2. /\ given \in Seq(DOMAIN Commands)
      /\ \A i, j \in DOMAIN given :
            Of(i).kind = "new" /\ Of(j).kind = "new" /\ Of(i).session = Of(j).session => i = j
  BY <1>1, CommandsGiven, SessionsAreNew DEF Of
<1>3. \A c \in DOMAIN given : given[c] \in DOMAIN Commands
  BY <1>2
<1>4. /\ task = [c \in DOMAIN given |-> Begin(c)] /\ clock = Start /\ Start \in Nat
      /\ past = [admitted |-> {}, unaudited |-> {}, cleared |-> {}]
      /\ messages = {} /\ requests = {} /\ responses = {}
      /\ limiter = [s \in Services |-> Quiet]
  BY LimitsPositive DEF Init, Services
<1>5. \A c \in DOMAIN given : /\ IsTask(Begin(c)) /\ Begin(c).pc = FirstStep(c)
                              /\ Begin(c).answer = None
  <2> SUFFICES ASSUME NEW c \in DOMAIN given
               PROVE  IsTask(Begin(c)) /\ Begin(c).pc = FirstStep(c) /\ Begin(c).answer = None
    OBVIOUS
  <2>1. PICK p : p = FirstStep(c)
    OBVIOUS
  <2>2. PICK q : q = IF FirstStep(c) = "read" THEN ContextOf(TaskRequest(c)) ELSE <<>>
    OBVIOUS
  <2>3. Begin(c) = [Idle EXCEPT !.pc = p, !.parts = q]
    BY <2>1, <2>2 DEF Begin
  <2> QED
    BY <2>1, <2>3 DEF Idle, IsTask
<1>6. \A c \in DOMAIN given : task[c] = Begin(c)
  BY <1>4
<1>7. Quiet \in Limiter /\ Quiet.inFlight = 0
  BY DEF Quiet, Limiter, Users, Targets
<1>8. ShapeInv
  <2>1. \A c \in DOMAIN given : IsTask(task[c])
    BY <1>5, <1>6
  <2>2. task = [c \in DOMAIN given |-> task[c]]
    BY <1>4
  <2>3. limiter \in [Services -> Limiter]
    BY <1>4, <1>7
  <2>4. IsFiniteSet(messages)
    BY <1>4, FS_EmptySet
  <2> QED
    BY <1>2, <1>4, <2>1, <2>2, <2>3, <2>4 DEF ShapeInv
<1>9. \A c \in DOMAIN given :
          /\ FirstStep(c) \in {"open", "new", "clear", "delete", "approve", "read"}
          /\ FirstStep(c) = "open" <=> Chats(c)
          /\ FirstStep(c) = "new" => Of(c).kind = "new"
          /\ FirstStep(c) = "read" => Of(c).kind \notin Managing
  BY DEF FirstStep, Chats, Managing
<1>10. LimiterInv
  <2>1. \A s : AdmittedFor(s) = {}
    BY <1>4 DEF AdmittedFor
  <2>2. Remembered
    <3>1. IsFiniteSet({})
      BY FS_EmptySet
    <3>2. \A s \in Services : Remembers(s, limiter[s])
      <4>1. /\ \A u \in Users : Quiet.byUser[u] = {}
            /\ \A t \in Targets : Quiet.byTarget[t] = {}
        BY DEF Quiet, Users, Targets
      <4> QED
        BY <1>4, <2>1, <3>1, <4>1 DEF Remembers
    <3> QED
      BY <1>4, <3>1, <3>2 DEF Remembered
  <2>3. SlotsExact
    <3>1. \A s : Holding(s) = {}
      BY <1>5, <1>6, <1>9 DEF Holding
    <3>2. Cardinality({}) = 0
      BY FS_EmptySet
    <3> QED
      BY <1>4, <1>7, <3>1, <3>2, LimitsPositive DEF SlotsExact
  <2>4. WindowsWithin
    BY <1>4 DEF WindowsWithin
  <2> QED
    BY <1>8, <2>2, <2>3, <2>4, LimitsAre DEF LimiterInv
<1>11. AuditInv
  <2>1. \A c \in DOMAIN given : CommandInv(c, task[c])
    <3> SUFFICES ASSUME NEW c \in DOMAIN given PROVE CommandInv(c, task[c])
      OBVIOUS
    <3>1. PICK t : t = task[c]
      OBVIOUS
    <3>2. t.pc = FirstStep(c) /\ t.answer = None
      BY <1>5, <1>6, <3>1
    <3>3. CommandInv(c, t)
      BY <1>9, <3>2 DEF CommandInv, Slotted
    <3> QED
      BY <3>1, <3>3
  <2>2. FreshInv
    <3> SUFFICES ASSUME NEW c \in DOMAIN given, task[c].pc = "new"
                 PROVE  /\ Gone(c)
                        /\ \A d \in DOMAIN given : Chats(d) /\ Of(d).session = Of(c).session =>
                              task[d].pc \in {"open", "done"}
      BY DEF FreshInv
    <3>1. Of(c).kind = "new"
      BY <1>5, <1>6, <1>9
    <3>2. Gone(c)
      BY <1>3, <3>1 DEF Gone, Init, Of
    <3> QED
      BY <1>5, <1>6, <1>9, <3>2
  <2>3. AnswersGrounded /\ AnswersAudited
    BY <1>4 DEF AnswersGrounded, AnswersAudited
  <2> QED
    BY <2>1, <2>2, <2>3 DEF AuditInv
<1> QED
  BY <1>8, <1>10, <1>11 DEF AssistantInv

(* However the commands given together interleave, fail and are given up   *)
(* on: the limiter remembers what its window covers and its slots are the  *)
(* tasks that hold one, and each command stands where its session, its     *)
(* evidence and its audit allow (assistant.go, tasks.go, sessions.go).     *)
THEOREM AssistantInvariant == Spec => []AssistantInv
<1>1. Init => AssistantInv
  BY InitEstablishes
<1>2. AssistantInv /\ [Next]_vars => AssistantInv'
  <2> SUFFICES ASSUME AssistantInv, [Next]_vars PROVE AssistantInv'
    OBVIOUS
  <2>1. CASE Tick
    BY <2>1, TickPreserves
  <2>2. ASSUME NEW c \in DOMAIN given, Step(c) PROVE AssistantInv'
    BY <2>2, StepPreserves
  <2>3. CASE UNCHANGED vars
    BY <2>3, StutterKeeps
  <2> QED
    BY <2>1, <2>2, <2>3 DEF Next
<1> QED
  BY <1>1, <1>2, PTL DEF Spec

(* Whatever the provider sent and whatever notes and titles quote, what a  *)
(* response in the audit cites is of the evidence of its own request or    *)
(* stands in its text, or it came out around a removed citation and the    *)
(* response has low confidence (validation.go, citations.go, structured.go).*)
THEOREM AnswersStayGrounded == Spec => []AnswersGrounded
<1>1. AssistantInv => AnswersGrounded
  BY DEF AssistantInv, AuditInv
<1> QED
  BY <1>1, AssistantInvariant, PTL

(* An answer stored in a session follows its question and has its audit,   *)
(* but for questions cleared and audits that failed (sessions.go).         *)
THEOREM AnswersTraceable == Spec => []AnswersAudited
<1>1. AssistantInv => AnswersAudited
  BY DEF AssistantInv, AuditInv
<1> QED
  BY <1>1, AssistantInvariant, PTL

(* No window lets more of a user's or a target's tasks through than its    *)
(* limit, and no slot is lost or given twice (ratelimit.go).               *)
THEOREM LimitsAlwaysHold == Spec => []LimitsHold
<1>1. AssistantInv => LimitsHold
  BY DEF AssistantInv, LimiterInv
<1> QED
  BY <1>1, AssistantInvariant, PTL
=============================================================================
