---------------------- MODULE FindingLifecycle_proofs ----------------------
(* Theorems about FindingLifecycle for every set of findings, assets,      *)
(* detectors, runs and severities: what its tables satisfy whatever        *)
(* overlaps; that commands that do not overlap implement FindingPolicy, so *)
(* that a suppression stays in force until an analyst changes it; and that *)
(* a run that loses no transaction never resolves what it reported.        *)
EXTENDS FindingLifecycle, TLAPS

-----------------------------------------------------------------------------
(* Type correctness.                                                       *)

LEMMA NextStatusType ==
    \A st \in Status, detected \in BOOLEAN : NextStatus(st, detected) \in Status
BY DEF NextStatus, Status, OpenStatus, Suppressed, Absent

LEMMA EventTypeForType == \A change : EventTypeFor(change) \in EventType
BY DEF EventTypeFor, EventType

LEMMA UpsertedType ==
    \A row \in Row, severity \in Severity :
        Upserted(row, severity) \in Row /\ Upserted(row, severity).status \in Status
BY DEF Row, Upserted, Status, OpenStatus, Absent

LEMMA WithStatusType ==
    \A row \in Row, status \in Status, reason \in BOOLEAN : WithStatus(row, status, reason) \in Row
BY DEF Row, WithStatus

LEMMA ResolvedType == \A row \in Row : Resolved(row) \in Row
BY DEF Row, Resolved, Status

LEMMA WithOverrideType ==
    \A row \in Row, severity \in Severity \cup {NONE} : WithOverride(row, severity) \in Row
BY DEF Row, WithOverride

LEMMA ChangedByType ==
    ASSUME NEW who \in Scan \cup {Analyst}, NEW f \in Finding, NEW to \in Status,
           rows[f] \in Row
    PROVE  ChangedBy(who, f, to) \subseteq Change
BY DEF ChangedBy, Change, Row

LEMMA IdleRunType == IdleRun \in Run
BY DEF IdleRun, Run, PC

LEMMA InitType == Init => TypeOK
<1> SUFFICES ASSUME Init PROVE TypeOK
  OBVIOUS
<1>1. run \in [Scan -> Run]
  BY IdleRunType DEF Init
<1>2. decision \in [Finding -> Status \cup {NONE}]
  BY DEF Init, Suppressed, Status
<1> QED
  BY <1>1, <1>2, LifecycleAssumption DEF Init, TypeOK

LEMMA StartType ==
    ASSUME TypeOK, NEW s \in Scan, Start(s) PROVE TypeOK'
<1>1. run[s] \in Run
  BY DEF TypeOK
<1>2. PICK active \in Selections :
         run' = [run EXCEPT ![s].pc = "assets", ![s].active = active, ![s].todo = Asset]
  BY DEF Start
<1>3. run'[s] \in Run
  BY <1>1, <1>2, LifecycleAssumption DEF TypeOK, Run, PC
<1> QED
  BY <1>2, <1>3 DEF TypeOK, Start

LEMMA EvaluateType ==
    ASSUME TypeOK, NEW s \in Scan, Evaluate(s) PROVE TypeOK'
<1>1. run[s] \in Run
  BY DEF TypeOK
<1>2. PICK a \in run[s].todo : \E ran \in SUBSET run[s].active :
         \E found \in SUBSET {f \in FindingsOf(a) : DetectorOf[f] \in ran} :
            run' = [run EXCEPT ![s] =
                      [@ EXCEPT !.pc = "persist", !.todo = Remaining(s, a), !.asset = a,
                                !.found = run[s].found \cup found, !.queue = found,
                                !.kept = {}]]
  BY DEF Evaluate
<1>3. PICK found \in SUBSET FindingsOf(a) :
         run' = [run EXCEPT ![s] =
                   [@ EXCEPT !.pc = "persist", !.todo = Remaining(s, a), !.asset = a,
                             !.found = run[s].found \cup found, !.queue = found,
                             !.kept = {}]]
  BY <1>2
<1>4. a \in Asset /\ found \subseteq Finding /\ Remaining(s, a) \subseteq Asset
  BY <1>1 DEF Run, FindingsOf, Remaining
<1>5. run' \in [Scan -> Run]
  BY <1>1, <1>3, <1>4 DEF TypeOK, Run, PC
<1> QED
  BY <1>5 DEF TypeOK, Evaluate

LEMMA PersistType ==
    ASSUME TypeOK, NEW s \in Scan, Persist(s) PROVE TypeOK'
<1>1. run[s] \in Run /\ run[s].queue \subseteq Finding
  BY DEF TypeOK, Run
<1>2. PICK f \in run[s].queue, severity \in Severity :
         LET row      == Upserted(rows[f], severity)
             created  == rows[f].status = Absent
             settled  == NextStatus(row.status, TRUE) = row.status
         IN /\ rows' = [rows EXCEPT ![f] = row]
            /\ changes' = changes \cup ChangedBy(s, f, row.status)
            /\ run' = [run EXCEPT ![s] =
                 [@ EXCEPT !.queue = run[s].queue \ {f}, !.kept = run[s].kept \cup {f},
                           !.fresh = IF created THEN run[s].fresh \cup {f} ELSE run[s].fresh,
                           !.pc   = IF settled THEN "persist" ELSE "transition",
                           !.cur  = IF settled THEN NONE ELSE f,
                           !.prev = IF settled THEN NONE ELSE row.status]]
  BY DEF Persist
<1> DEFINE row == Upserted(rows[f], severity)
           created == rows[f].status = Absent
           settled == NextStatus(row.status, TRUE) = row.status
<1>3. f \in Finding /\ rows[f] \in Row
  BY <1>1 DEF TypeOK
<1>4. row \in Row /\ row.status \in Status
  BY <1>3, UpsertedType
<1>5. ChangedBy(s, f, row.status) \subseteq Change
  BY <1>3, <1>4, ChangedByType
<1>6. run' \in [Scan -> Run]
  <2> DEFINE fresh == IF created THEN run[s].fresh \cup {f} ELSE run[s].fresh
             pc    == IF settled THEN "persist" ELSE "transition"
             cur   == IF settled THEN NONE ELSE f
             prev  == IF settled THEN NONE ELSE row.status
  <2>1. run' = [run EXCEPT ![s] =
                 [@ EXCEPT !.queue = run[s].queue \ {f}, !.kept = run[s].kept \cup {f},
                           !.fresh = fresh, !.pc = pc, !.cur = cur, !.prev = prev]]
    BY <1>2
  <2>2. /\ fresh \subseteq Finding
        /\ pc \in PC
        /\ cur \in Finding \cup {NONE}
        /\ prev \in Status \cup {NONE}
    <3> HIDE DEF row, created, settled
    <3> QED
      BY <1>1, <1>3, <1>4 DEF Run, PC
  <2>3. run[s].queue \ {f} \subseteq Finding /\ run[s].kept \cup {f} \subseteq Finding
    BY <1>1, <1>3 DEF Run
  <2> HIDE DEF fresh, pc, cur, prev
  <2> QED
    BY <2>1, <2>2, <2>3, <1>1 DEF TypeOK, Run
<1>7. rows' \in [Finding -> Row]
  BY <1>2, <1>3, <1>4 DEF TypeOK
<1>8. changes' \subseteq Change
  BY <1>2, <1>5 DEF TypeOK
<1> QED
  BY <1>6, <1>7, <1>8 DEF TypeOK, Persist

LEMMA TransitionType ==
    ASSUME TypeOK, NEW s \in Scan, run[s].cur \in Finding, run[s].prev \in Status, Transition(s)
    PROVE  TypeOK'
<1> DEFINE f  == run[s].cur
           to == NextStatus(run[s].prev, TRUE)
<1>1. to \in Status
  BY NextStatusType
<1>2. rows[f] \in Row /\ WithStatus(rows[f], to, FALSE) \in Row
  BY <1>1, WithStatusType DEF TypeOK
<1>3. ChangedBy(s, f, to) \subseteq Change
  BY <1>1, <1>2, ChangedByType
<1>4. run' \in [Scan -> Run]
  <2>0. run[s] \in Run
    BY DEF TypeOK
  <2> HIDE DEF to
  <2>1. run' = [run EXCEPT ![s].pc = "reopenedEvent", ![s].to = to]
    BY DEF Transition, to
  <2> QED
    BY <2>0, <2>1, <1>1 DEF TypeOK, Run, PC
<1>5. rows' \in [Finding -> Row]
  BY <1>2 DEF Transition, TypeOK
<1>6. changes' \subseteq Change
  BY <1>3 DEF Transition, TypeOK
<1> QED
  BY <1>4, <1>5, <1>6 DEF TypeOK, Transition

LEMMA RecordTransitionType ==
    ASSUME TypeOK, NEW s \in Scan, run[s].cur \in Finding, run[s].to \in Status, RecordTransition(s)
    PROVE  TypeOK'
<1>1. run[s] \in Run
  BY DEF TypeOK
<1>2. run' \in [Scan -> Run]
  BY <1>1 DEF TypeOK, RecordTransition, Run, PC
<1>3. [finding |-> run[s].cur, scan |-> s,
       type |-> EventTypeFor(ClassifyChange(run[s].prev, TRUE, FALSE)),
       from |-> run[s].prev, to |-> run[s].to] \in Event
  BY <1>1, EventTypeForType DEF Event, Run
<1>4. events' \subseteq Event
  BY <1>3 DEF TypeOK, RecordTransition
<1> QED
  BY <1>2, <1>4 DEF TypeOK, RecordTransition

LEMMA ResolveMissingType ==
    ASSUME TypeOK, NEW s \in Scan, ResolveMissing(s) PROVE TypeOK'
<1> DEFINE missing == Missing(run[s].asset, run[s].kept)
<1>1. missing \subseteq Finding
  BY DEF Missing, FindingsOf
<1>2. rows' \in [Finding -> Row]
  BY ResolvedType DEF ResolveMissing, TypeOK
<1>3. \A f \in missing : ChangedBy(s, f, "resolved") \subseteq Change
  BY <1>1, ChangedByType DEF TypeOK, Status
<1>4. changes' \subseteq Change
  <2> HIDE DEF missing
  <2>1. changes' = changes \cup UNION {ChangedBy(s, f, "resolved") : f \in missing}
    BY DEF ResolveMissing, missing
  <2> QED
    BY <2>1, <1>3 DEF TypeOK
<1>5. run' \in [Scan -> Run]
  <2>0. run[s] \in Run
    BY DEF TypeOK
  <2> HIDE DEF missing
  <2>1. run' = [run EXCEPT ![s].pc = "resolvedEvents", ![s].gone = missing]
    BY DEF ResolveMissing, missing
  <2> QED
    BY <2>0, <2>1, <1>1 DEF TypeOK, Run, PC
<1> QED
  BY <1>2, <1>4, <1>5 DEF TypeOK, ResolveMissing

LEMMA RecordResolvedType ==
    ASSUME TypeOK, NEW s \in Scan, RecordResolved(s) PROVE TypeOK'
<1>1. PICK f \in run[s].gone :
         /\ run' = [run EXCEPT ![s].gone = @ \ {f}]
         /\ \/ events' = events \cup {[finding |-> f, scan |-> s, type |-> "finding_resolved",
                                       from |-> NONE, to |-> "resolved"]}
            \/ UNCHANGED events
  BY DEF RecordResolved
<1>2. f \in Finding
  BY DEF TypeOK, Run
<1>3. run' \in [Scan -> Run]
  BY <1>1 DEF TypeOK, Run
<1>4. events' \subseteq Event
  BY <1>1, <1>2 DEF TypeOK, Event, EventType, Status
<1> QED
  BY <1>3, <1>4 DEF TypeOK, RecordResolved

(* The remaining steps of a run only move its program counter or shrink    *)
(* its queues.                                                             *)
LEMMA OtherRunStepType ==
    ASSUME TypeOK, NEW s \in Scan,
           \/ SkipAsset(s) \/ Finish(s) \/ PersistFails(s) \/ TransitionFails(s)
           \/ ResolveMissingFails(s) \/ NextAsset(s) \/ Crash(s)
    PROVE  TypeOK'
<1>1. run[s] \in Run
  BY DEF TypeOK
<1>2. UNCHANGED <<rows, events, pending, triage, decision, changes>>
  BY DEF SkipAsset, Finish, PersistFails, TransitionFails, ResolveMissingFails, NextAsset, Crash
<1>3. run' \in [Scan -> Run]
  <2>1. CASE SkipAsset(s)
    <3>1. PICK a : run' = [run EXCEPT ![s].todo = Remaining(s, a)]
      BY <2>1 DEF SkipAsset
    <3>2. Remaining(s, a) \subseteq Asset
      BY <1>1 DEF Remaining, Run
    <3>3. PICK todo : todo \subseteq Asset /\ run' = [run EXCEPT ![s].todo = todo]
      BY <3>1, <3>2
    <3> QED
      BY <3>3, <1>1 DEF TypeOK, Run
  <2>2. CASE Finish(s)
    BY <2>2, <1>1 DEF Finish, TypeOK, Run, PC
  <2>3. CASE PersistFails(s)
    <3>1. PICK queue, found :
             /\ queue \subseteq Finding /\ found \subseteq Finding
             /\ run' = [run EXCEPT ![s].queue = queue, ![s].found = found]
      <4>1. PICK f : run' = [run EXCEPT ![s].queue = run[s].queue \ {f},
                                        ![s].found = run[s].found \ {f}]
        BY <2>3, <1>1 DEF PersistFails
      <4> QED
        BY <4>1, <1>1 DEF Run
    <3> QED
      BY <3>1, <1>1 DEF TypeOK, Run, PC
  <2>4. CASE TransitionFails(s)
    BY <2>4, <1>1 DEF TransitionFails, TypeOK, Run, PC
  <2>5. CASE ResolveMissingFails(s)
    BY <2>5, <1>1 DEF ResolveMissingFails, TypeOK, Run, PC
  <2>6. CASE NextAsset(s)
    BY <2>6, <1>1 DEF NextAsset, TypeOK, Run, PC
  <2>7. CASE Crash(s)
    BY <2>7, <1>1 DEF Crash, TypeOK, Run, PC
  <2> QED
    BY <2>1, <2>2, <2>3, <2>4, <2>5, <2>6, <2>7
<1> QED
  BY <1>2, <1>3 DEF TypeOK

LEMMA UpdateStatusType ==
    ASSUME TypeOK, NEW f \in Finding, NEW status \in Status, NEW reason \in BOOLEAN,
           UpdateStatus(f, status, reason)
    PROVE  TypeOK'
<1>1. WithStatus(rows[f], status, reason) \in Row
  BY WithStatusType DEF TypeOK
<1>2. ChangedBy(Analyst, f, status) \subseteq Change
  BY ChangedByType DEF TypeOK
<1>3. triage + 1 \in 0..MaxTriage
  BY LifecycleAssumption DEF TypeOK, UpdateStatus
<1> QED
  BY <1>1, <1>2, <1>3 DEF TypeOK, UpdateStatus

LEMMA OverrideSeverityType ==
    ASSUME TypeOK, NEW f \in Finding, NEW severity \in Severity \cup {NONE}, NEW reason \in BOOLEAN,
           OverrideSeverity(f, severity, reason)
    PROVE  TypeOK'
<1>1. WithOverride(rows[f], severity) \in Row
  BY WithOverrideType DEF TypeOK
<1>2. rows[f].status \in Status
  BY DEF TypeOK, Row, OverrideSeverity
<1>3. triage + 1 \in 0..MaxTriage
  BY LifecycleAssumption DEF TypeOK, OverrideSeverity
<1>4. [finding |-> f, scan |-> NONE, type |-> "finding_severity_overridden",
       from |-> NONE, to |-> rows[f].status] \in Event
  BY <1>2 DEF Event, EventType
<1>5. pending' \subseteq Event
  BY <1>4 DEF TypeOK, OverrideSeverity
<1> QED
  BY <1>1, <1>3, <1>5 DEF TypeOK, OverrideSeverity

LEMMA RecordOverrideType ==
    ASSUME TypeOK, NEW e \in pending, RecordOverride(e) PROVE TypeOK'
BY DEF TypeOK, RecordOverride

-----------------------------------------------------------------------------
(* What a run remembers between its statements.                            *)

(* While a transition is outstanding the run holds the finding it upserted *)
(* and the resolved status it read: resolved is the only status NextStatus *)
(* moves for a detected finding.                                           *)
RunMemory ==
    \A s \in Scan :
        /\ run[s].pc \in {"transition", "reopenedEvent"} =>
              run[s].cur \in Finding /\ run[s].prev = "resolved"
        /\ run[s].pc = "reopenedEvent" => run[s].to \in Status

TypeInv == TypeOK /\ RunMemory

LEMMA OnlyResolvedMoves ==
    \A st \in Status : NextStatus(st, TRUE) # st => st = "resolved"
BY DEF NextStatus, Status, OpenStatus, Suppressed, Absent

LEMMA ReopenedIsNext == NextStatus("resolved", TRUE) = "reopened"
BY DEF NextStatus, Absent, OpenStatus, Suppressed

LEMMA MemoryInit == Init => RunMemory
BY DEF Init, IdleRun, RunMemory

(* A step of run s leaves the memory of every other run alone.             *)
LEMMA MemoryOfOthers ==
    ASSUME TypeInv, NEW s \in Scan, Start(s) \/ RunStep(s) \/ Crash(s)
    PROVE  \A t \in Scan \ {s} : run'[t] = run[t]
<1>1. run \in [Scan -> Run]
  BY DEF TypeInv, TypeOK
<1>2. CASE Start(s)
  BY <1>1, <1>2 DEF Start
<1>3. CASE SkipAsset(s) \/ Evaluate(s) \/ Finish(s)
  BY <1>1, <1>3 DEF SkipAsset, Evaluate, Finish
<1>4. CASE Persist(s)
  BY <1>1, <1>4 DEF Persist
<1>5. CASE PersistFails(s) \/ TransitionFails(s) \/ RecordTransition(s)
  BY <1>1, <1>5 DEF PersistFails, TransitionFails, RecordTransition
<1>6. CASE Transition(s)
  BY <1>1, <1>6 DEF Transition
<1>7. CASE ResolveMissing(s)
  BY <1>1, <1>7 DEF ResolveMissing
<1>8. CASE ResolveMissingFails(s) \/ RecordResolved(s) \/ NextAsset(s) \/ Crash(s)
  BY <1>1, <1>8 DEF ResolveMissingFails, RecordResolved, NextAsset, Crash
<1> QED
  BY <1>2, <1>3, <1>4, <1>5, <1>6, <1>7, <1>8 DEF RunStep

(* Persist is the only step that enters "transition", and it enters it     *)
(* with the finding and the resolved status the upsert returned.           *)
LEMMA PersistMemory ==
    ASSUME TypeOK, NEW s \in Scan, Persist(s)
    PROVE  \/ run'[s].pc = "persist"
           \/ run'[s].pc = "transition" /\ run'[s].cur \in Finding /\ run'[s].prev = "resolved"
<1>1. run[s] \in Run /\ run[s].queue \subseteq Finding
  BY DEF TypeOK, Run
<1>2. PICK f \in run[s].queue, severity \in Severity :
         LET row      == Upserted(rows[f], severity)
             created  == rows[f].status = Absent
             settled  == NextStatus(row.status, TRUE) = row.status
         IN run' = [run EXCEPT ![s] =
                 [@ EXCEPT !.queue = run[s].queue \ {f}, !.kept = run[s].kept \cup {f},
                           !.fresh = IF created THEN run[s].fresh \cup {f} ELSE run[s].fresh,
                           !.pc   = IF settled THEN "persist" ELSE "transition",
                           !.cur  = IF settled THEN NONE ELSE f,
                           !.prev = IF settled THEN NONE ELSE row.status]]
  BY DEF Persist
<1> DEFINE row == Upserted(rows[f], severity)
           settled == NextStatus(row.status, TRUE) = row.status
<1>3. row.status \in Status
  BY <1>1, UpsertedType DEF TypeOK
<1>4. settled \/ row.status = "resolved"
  BY <1>3, OnlyResolvedMoves
<1>5. /\ run'[s].pc = IF settled THEN "persist" ELSE "transition"
      /\ run'[s].cur = IF settled THEN NONE ELSE f
      /\ run'[s].prev = IF settled THEN NONE ELSE row.status
  <2> HIDE DEF row
  <2> QED
    BY <1>1, <1>2 DEF TypeOK, Run, row
<1> HIDE DEF settled, row
<1> QED
  BY <1>1, <1>4, <1>5

LEMMA MemoryStep ==
    ASSUME TypeInv, NEW s \in Scan, Start(s) \/ RunStep(s) \/ Crash(s)
    PROVE  RunMemory'
<1>1. run \in [Scan -> Run] /\ run[s] \in Run
  BY DEF TypeInv, TypeOK
<1>2. SUFFICES /\ run'[s].pc \in {"transition", "reopenedEvent"} =>
                    run'[s].cur \in Finding /\ run'[s].prev = "resolved"
               /\ run'[s].pc = "reopenedEvent" => run'[s].to \in Status
  BY MemoryOfOthers DEF TypeInv, RunMemory
<1>3. CASE Start(s)
  <2>1. PICK active \in Selections :
           run' = [run EXCEPT ![s].pc = "assets", ![s].active = active, ![s].todo = Asset]
    BY <1>3 DEF Start
  <2>2. run'[s].pc = "assets"
    BY <1>1, <2>1 DEF Run
  <2> QED
    BY <2>2
<1>4. CASE SkipAsset(s)
  BY <1>1, <1>4 DEF SkipAsset
<1>5. CASE Evaluate(s)
  BY <1>1, <1>5 DEF Evaluate, Run
<1>6. CASE Finish(s) \/ ResolveMissingFails(s) \/ NextAsset(s) \/ Crash(s) \/ ResolveMissing(s)
  BY <1>1, <1>6 DEF Finish, ResolveMissingFails, NextAsset, Crash, ResolveMissing, Run
<1>7. CASE Persist(s)
  BY <1>7, PersistMemory DEF TypeInv
<1>8. CASE PersistFails(s)
  BY <1>1, <1>8 DEF PersistFails, Run
<1>9. CASE Transition(s)
  <2> DEFINE to == NextStatus(run[s].prev, TRUE)
  <2>1. to \in Status /\ run[s].prev = "resolved" /\ run[s].cur \in Finding
    BY <1>9, ReopenedIsNext DEF TypeInv, RunMemory, Transition, Status, OpenStatus
  <2>2. run' = [run EXCEPT ![s].pc = "reopenedEvent", ![s].to = to]
    BY <1>9 DEF Transition
  <2> HIDE DEF to
  <2> QED
    BY <1>1, <2>1, <2>2 DEF Run
<1>10. CASE TransitionFails(s)
  <2>1. run[s].prev = "resolved" /\ run[s].cur \in Finding
    BY <1>10 DEF TypeInv, RunMemory, TransitionFails
  <2> QED
    BY <1>1, <1>10, <2>1 DEF TransitionFails, Run, Status
<1>11. CASE RecordTransition(s)
  BY <1>1, <1>11 DEF RecordTransition, Run
<1>12. CASE RecordResolved(s)
  BY <1>1, <1>12 DEF RecordResolved, Run
<1> QED
  BY <1>3, <1>4, <1>5, <1>6, <1>7, <1>8, <1>9, <1>10, <1>11, <1>12 DEF RunStep

LEMMA TypeStep ==
    ASSUME TypeInv, NEW s \in Scan, Start(s) \/ RunStep(s) \/ Crash(s)
    PROVE  TypeOK'
<1> USE DEF TypeInv
<1>1. CASE Start(s)
  BY <1>1, StartType
<1>2. CASE Evaluate(s)
  BY <1>2, EvaluateType
<1>3. CASE Persist(s)
  BY <1>3, PersistType
<1>4. CASE Transition(s)
  <2>1. run[s].cur \in Finding /\ run[s].prev \in Status
    BY <1>4 DEF RunMemory, Transition, Status
  <2> QED
    BY <1>4, <2>1, TransitionType
<1>5. CASE RecordTransition(s)
  <2>1. run[s].cur \in Finding /\ run[s].to \in Status
    BY <1>5 DEF RunMemory, RecordTransition
  <2> QED
    BY <1>5, <2>1, RecordTransitionType
<1>6. CASE ResolveMissing(s)
  BY <1>6, ResolveMissingType
<1>7. CASE RecordResolved(s)
  BY <1>7, RecordResolvedType
<1>8. CASE \/ SkipAsset(s) \/ Finish(s) \/ PersistFails(s) \/ TransitionFails(s)
           \/ ResolveMissingFails(s) \/ NextAsset(s) \/ Crash(s)
  BY <1>8, OtherRunStepType
<1> QED
  BY <1>1, <1>2, <1>3, <1>4, <1>5, <1>6, <1>7, <1>8 DEF RunStep

LEMMA AnalystTypeStep == ASSUME TypeInv, AnalystStep PROVE TypeInv'
<1>1. CASE \E f \in Finding, status \in Status, reason \in BOOLEAN : UpdateStatus(f, status, reason)
  <2>1. PICK f \in Finding, status \in Status, reason \in BOOLEAN : UpdateStatus(f, status, reason)
    BY <1>1
  <2>2. TypeOK'
    BY <2>1, UpdateStatusType DEF TypeInv
  <2> QED
    BY <2>1, <2>2 DEF TypeInv, RunMemory, UpdateStatus
<1>2. CASE \E f \in Finding, severity \in Severity \cup {NONE}, reason \in BOOLEAN :
              OverrideSeverity(f, severity, reason)
  <2>1. PICK f \in Finding, severity \in Severity \cup {NONE}, reason \in BOOLEAN :
              OverrideSeverity(f, severity, reason)
    BY <1>2
  <2>2. TypeOK'
    BY <2>1, OverrideSeverityType DEF TypeInv
  <2> QED
    BY <2>1, <2>2 DEF TypeInv, RunMemory, OverrideSeverity
<1>3. CASE \E e \in pending : RecordOverride(e)
  <2>1. PICK e \in pending : RecordOverride(e)
    BY <1>3
  <2>2. TypeOK'
    BY <2>1, RecordOverrideType DEF TypeInv
  <2> QED
    BY <2>1, <2>2 DEF TypeInv, RunMemory, RecordOverride
<1> QED
  BY <1>1, <1>2, <1>3 DEF AnalystStep

LEMMA TypeInvStep == TypeInv /\ [Next]_vars => TypeInv'
<1> SUFFICES ASSUME TypeInv, [Next]_vars PROVE TypeInv'
  OBVIOUS
<1>1. CASE \E s \in Scan : Start(s) \/ RunStep(s) \/ Crash(s)
  BY <1>1, TypeStep, MemoryStep DEF TypeInv
<1>2. CASE AnalystStep
  BY <1>2, AnalystTypeStep
<1>3. CASE UNCHANGED vars
  BY <1>3 DEF vars, TypeInv, TypeOK, RunMemory
<1> QED
  BY <1>1, <1>2, <1>3 DEF Next

LEMMA TypeInvariant == Spec => []TypeInv
<1>1. Init => TypeInv
  BY InitType, MemoryInit DEF TypeInv
<1> QED
  BY <1>1, TypeInvStep, PTL DEF Spec

(* Rows, events and run states keep to the values the schema admits, in    *)
(* every interleaving of any number of runs and analysts.                  *)
THEOREM TypeCorrect == Spec => []TypeOK
<1>1. TypeInv => TypeOK
  BY DEF TypeInv
<1> QED
  BY <1>1, TypeInvariant, PTL

-----------------------------------------------------------------------------
(* The writes a row can suffer.                                            *)

ScanWrite(f) ==
    /\ UNCHANGED <<triage, decision>>
    /\ \/ \E severity \in Severity : rows'[f] = Upserted(rows[f], severity)
       \/ /\ \E s \in Scan : run[s].pc = "transition" /\ run[s].cur = f /\ run[s].prev = "resolved"
          /\ \E reason \in BOOLEAN : rows'[f] = WithStatus(rows[f], "reopened", reason)
       \/ /\ rows[f].status \in OpenStatus
          /\ rows'[f] = Resolved(rows[f])

AnalystWrite(f) ==
    /\ triage' = triage + 1
    /\ rows[f].status # Absent
    /\ \/ \E status \in Status, reason \in BOOLEAN :
             /\ rows'[f] = WithStatus(rows[f], status, reason)
             /\ decision'[f] = status
       \/ \E severity \in Severity \cup {NONE} :
             /\ rows'[f] = WithOverride(rows[f], severity)
             /\ decision'[f] = decision[f]

NoWrite(f) == rows'[f] = rows[f] /\ decision'[f] = decision[f]

LEMMA RunWrites ==
    ASSUME TypeInv, NEW s \in Scan, Start(s) \/ RunStep(s) \/ Crash(s), NEW f \in Finding
    PROVE  NoWrite(f) \/ ScanWrite(f)
<1> USE DEF TypeInv
<1>1. CASE Persist(s)
  <2>1. PICK g \in run[s].queue, severity \in Severity :
           rows' = [rows EXCEPT ![g] = Upserted(rows[g], severity)]
    BY <1>1 DEF Persist
  <2>2. CASE f = g
    BY <1>1, <2>1, <2>2 DEF ScanWrite, Persist, TypeOK
  <2>3. CASE f # g
    BY <1>1, <2>1, <2>3 DEF NoWrite, Persist, TypeOK
  <2> QED
    BY <2>2, <2>3
<1>2. CASE Transition(s)
  <2>1. run[s].pc = "transition" /\ run[s].prev = "resolved" /\ run[s].cur \in Finding
    BY <1>2 DEF Transition, RunMemory
  <2>2. rows' = [rows EXCEPT ![run[s].cur] = WithStatus(rows[run[s].cur], "reopened", FALSE)]
    BY <1>2, <2>1, ReopenedIsNext DEF Transition
  <2>3. CASE f = run[s].cur
    BY <1>2, <2>1, <2>2, <2>3 DEF ScanWrite, Transition, TypeOK
  <2>4. CASE f # run[s].cur
    BY <1>2, <2>2, <2>4 DEF NoWrite, Transition, TypeOK
  <2> QED
    BY <2>3, <2>4
<1>3. CASE ResolveMissing(s)
  <2> DEFINE missing == Missing(run[s].asset, run[s].kept)
  <2>1. /\ rows' = [g \in Finding |-> IF g \in missing THEN Resolved(rows[g]) ELSE rows[g]]
        /\ UNCHANGED <<triage, decision>>
    BY <1>3 DEF ResolveMissing
  <2>2. f \in missing => rows[f].status \in OpenStatus
    BY DEF Missing
  <2> HIDE DEF missing
  <2> QED
    BY <2>1, <2>2 DEF NoWrite, ScanWrite
<1>4. CASE UNCHANGED <<rows, decision>>
  BY <1>4 DEF NoWrite
<1> QED
  BY <1>1, <1>2, <1>3, <1>4
  DEF RunStep, Start, Crash, SkipAsset, Evaluate, Finish, PersistFails, TransitionFails,
      RecordTransition, ResolveMissingFails, RecordResolved, NextAsset

LEMMA AnalystWrites ==
    ASSUME TypeInv, AnalystStep, NEW f \in Finding
    PROVE  NoWrite(f) \/ AnalystWrite(f)
<1> USE DEF TypeInv, TypeOK
<1>1. CASE \E g \in Finding, status \in Status, reason \in BOOLEAN : UpdateStatus(g, status, reason)
  <2>1. PICK g \in Finding, status \in Status, reason \in BOOLEAN : UpdateStatus(g, status, reason)
    BY <1>1
  <2> QED
    BY <2>1 DEF UpdateStatus, NoWrite, AnalystWrite
<1>2. CASE \E g \in Finding, severity \in Severity \cup {NONE}, reason \in BOOLEAN :
              OverrideSeverity(g, severity, reason)
  <2>1. PICK g \in Finding, severity \in Severity \cup {NONE}, reason \in BOOLEAN :
              OverrideSeverity(g, severity, reason)
    BY <1>2
  <2> QED
    BY <2>1 DEF OverrideSeverity, NoWrite, AnalystWrite
<1>3. CASE \E e \in pending : RecordOverride(e)
  BY <1>3 DEF RecordOverride, NoWrite
<1> QED
  BY <1>1, <1>2, <1>3 DEF AnalystStep

(* Every step writes a row in one of these ways or not at all.             *)
LEMMA RowWrites ==
    ASSUME TypeInv, [Next]_vars, NEW f \in Finding
    PROVE  NoWrite(f) \/ ScanWrite(f) \/ AnalystWrite(f)
<1>1. CASE UNCHANGED vars
  BY <1>1 DEF vars, NoWrite
<1> QED
  BY <1>1, RunWrites, AnalystWrites DEF Next

LEMMA UpsertedRow ==
    \A row \in Row, severity \in Severity :
        /\ row.status # Absent => /\ Upserted(row, severity).status = row.status
                                  /\ Upserted(row, severity).resolvedAt = row.resolvedAt
                                  /\ Upserted(row, severity).overridden = row.overridden
        /\ row.status = Absent => /\ Upserted(row, severity).status = "open"
                                  /\ ~Upserted(row, severity).resolvedAt
                                  /\ ~Upserted(row, severity).overridden
        /\ Upserted(row, severity).detectorSeverity = severity
        /\ Upserted(row, severity).severity =
             IF row.status # Absent /\ row.overridden THEN row.severity ELSE severity
BY DEF Upserted, Row

LEMMA StatusRow ==
    \A row \in Row, status \in Status, reason \in BOOLEAN :
        /\ WithStatus(row, status, reason).status = status
        /\ WithStatus(row, status, reason).resolvedAt <=> (status = "resolved")
        /\ WithStatus(row, status, reason).severity = row.severity
        /\ WithStatus(row, status, reason).detectorSeverity = row.detectorSeverity
        /\ WithStatus(row, status, reason).overridden = row.overridden
BY DEF WithStatus, Row

LEMMA ResolvedRow ==
    \A row \in Row :
        /\ Resolved(row).status = "resolved"
        /\ Resolved(row).resolvedAt
        /\ Resolved(row).severity = row.severity
        /\ Resolved(row).detectorSeverity = row.detectorSeverity
        /\ Resolved(row).overridden = row.overridden
BY DEF Resolved, Row

LEMMA OverrideRow ==
    \A row \in Row, severity \in Severity \cup {NONE} :
        /\ WithOverride(row, severity).status = row.status
        /\ WithOverride(row, severity).resolvedAt = row.resolvedAt
        /\ WithOverride(row, severity).detectorSeverity = row.detectorSeverity
        /\ WithOverride(row, severity).overridden <=> (severity # NONE)
        /\ severity = NONE => WithOverride(row, severity).severity = row.detectorSeverity
BY DEF WithOverride, Row

-----------------------------------------------------------------------------
(* The invariants of a row.                                                *)

(* resolved_at is set exactly on resolved findings.                        *)
THEOREM StampCorrect == Spec => []ResolvedStamp
<1>1. Init => ResolvedStamp
  BY DEF Init, ResolvedStamp, EarlierRow
<1>2. TypeInv /\ ResolvedStamp /\ [Next]_vars => ResolvedStamp'
  <2> SUFFICES ASSUME TypeInv, ResolvedStamp, [Next]_vars, NEW f \in Finding
               PROVE  rows'[f].resolvedAt <=> rows'[f].status = "resolved"
    BY DEF ResolvedStamp
  <2>1. rows[f] \in Row /\ (rows[f].resolvedAt <=> rows[f].status = "resolved")
    BY DEF TypeInv, TypeOK, ResolvedStamp
  <2>2. CASE NoWrite(f)
    BY <2>1, <2>2 DEF NoWrite
  <2>3. CASE ScanWrite(f)
    <3>1. CASE \E severity \in Severity : rows'[f] = Upserted(rows[f], severity)
      BY <2>1, <3>1, UpsertedRow
    <3>2. CASE \E reason \in BOOLEAN : rows'[f] = WithStatus(rows[f], "reopened", reason)
      BY <2>1, <3>2, StatusRow DEF Status, OpenStatus
    <3>3. CASE rows'[f] = Resolved(rows[f])
      BY <2>1, <3>3, ResolvedRow
    <3> QED
      BY <2>3, <3>1, <3>2, <3>3 DEF ScanWrite
  <2>4. CASE AnalystWrite(f)
    <3>1. CASE \E status \in Status, reason \in BOOLEAN : rows'[f] = WithStatus(rows[f], status, reason)
      BY <2>1, <3>1, StatusRow
    <3>2. CASE \E severity \in Severity \cup {NONE} : rows'[f] = WithOverride(rows[f], severity)
      BY <2>1, <3>2, OverrideRow
    <3> QED
      BY <2>4, <3>1, <3>2 DEF AnalystWrite
  <2> QED
    BY <2>2, <2>3, <2>4, RowWrites
<1> QED
  BY <1>1, <1>2, TypeInvariant, PTL DEF Spec

(* Without an override the effective severity is the detector's latest.    *)
THEOREM SeverityCorrect == Spec => []SeverityTracksDetector
<1>1. Init => SeverityTracksDetector
  BY DEF Init, SeverityTracksDetector, EarlierRow
<1>2. TypeInv /\ SeverityTracksDetector /\ [Next]_vars => SeverityTracksDetector'
  <2> SUFFICES ASSUME TypeInv, SeverityTracksDetector, [Next]_vars, NEW f \in Finding
               PROVE  rows'[f].overridden \/ rows'[f].severity = rows'[f].detectorSeverity
    BY DEF SeverityTracksDetector
  <2>1. rows[f] \in Row /\ (rows[f].overridden \/ rows[f].severity = rows[f].detectorSeverity)
    BY DEF TypeInv, TypeOK, SeverityTracksDetector
  <2>2. CASE NoWrite(f)
    BY <2>1, <2>2 DEF NoWrite
  <2>3. CASE ScanWrite(f)
    <3>1. CASE \E severity \in Severity : rows'[f] = Upserted(rows[f], severity)
      BY <2>1, <3>1, UpsertedRow
    <3>2. CASE \E reason \in BOOLEAN : rows'[f] = WithStatus(rows[f], "reopened", reason)
      BY <2>1, <3>2, StatusRow DEF Status, OpenStatus
    <3>3. CASE rows'[f] = Resolved(rows[f])
      BY <2>1, <3>3, ResolvedRow
    <3> QED
      BY <2>3, <3>1, <3>2, <3>3 DEF ScanWrite
  <2>4. CASE AnalystWrite(f)
    <3>1. CASE \E status \in Status, reason \in BOOLEAN : rows'[f] = WithStatus(rows[f], status, reason)
      BY <2>1, <3>1, StatusRow
    <3>2. CASE \E severity \in Severity \cup {NONE} : rows'[f] = WithOverride(rows[f], severity)
      BY <2>1, <3>2, OverrideRow
    <3> QED
      BY <2>4, <3>1, <3>2 DEF AnalystWrite
  <2> QED
    BY <2>2, <2>3, <2>4, RowWrites
<1> QED
  BY <1>1, <1>2, TypeInvariant, PTL DEF Spec

(* An absent row carries no override that an insert could lose.            *)
AbsentPlain == \A f \in Finding : rows[f].status = Absent => ~rows[f].overridden

LEMMA AbsentPlainInvariant == Spec => []AbsentPlain
<1>1. Init => AbsentPlain
  BY DEF Init, AbsentPlain, EarlierRow
<1>2. TypeInv /\ AbsentPlain /\ [Next]_vars => AbsentPlain'
  <2> SUFFICES ASSUME TypeInv, AbsentPlain, [Next]_vars, NEW f \in Finding
               PROVE  rows'[f].status = Absent => ~rows'[f].overridden
    BY DEF AbsentPlain
  <2>1. rows[f] \in Row /\ (rows[f].status = Absent => ~rows[f].overridden)
    BY DEF TypeInv, TypeOK, AbsentPlain
  <2>2. CASE NoWrite(f)
    BY <2>1, <2>2 DEF NoWrite
  <2>3. CASE ScanWrite(f)
    <3>1. CASE \E severity \in Severity : rows'[f] = Upserted(rows[f], severity)
      BY <2>1, <3>1, UpsertedRow DEF Absent
    <3>2. CASE \E reason \in BOOLEAN : rows'[f] = WithStatus(rows[f], "reopened", reason)
      BY <2>1, <3>2, StatusRow DEF Status, OpenStatus, Absent
    <3>3. CASE rows'[f] = Resolved(rows[f])
      BY <2>1, <3>3, ResolvedRow DEF Absent
    <3> QED
      BY <2>3, <3>1, <3>2, <3>3 DEF ScanWrite
  <2>4. CASE AnalystWrite(f)
    <3>1. CASE \E status \in Status, reason \in BOOLEAN : rows'[f] = WithStatus(rows[f], status, reason)
      BY <2>1, <3>1, StatusRow DEF Status, OpenStatus, Suppressed, Absent
    <3>2. CASE \E severity \in Severity \cup {NONE} : rows'[f] = WithOverride(rows[f], severity)
      BY <2>1, <2>4, <3>2, OverrideRow DEF AnalystWrite
    <3> QED
      BY <2>4, <3>1, <3>2 DEF AnalystWrite
  <2> QED
    BY <2>2, <2>3, <2>4, RowWrites
<1> QED
  BY <1>1, <1>2, TypeInvariant, PTL DEF Spec

(* No scan, however interleaved, changes a severity an analyst overrode.   *)
THEOREM OverrideKept == Spec => OverrideSurvivesScans
<1>1. TypeInv /\ AbsentPlain /\ [Next]_vars =>
        [\A f \in Finding : rows[f].overridden /\ triage' = triage =>
            rows'[f].overridden /\ rows'[f].severity = rows[f].severity]_vars
  <2> SUFFICES ASSUME TypeInv, AbsentPlain, [Next]_vars, NEW f \in Finding,
                      rows[f].overridden, triage' = triage
               PROVE  rows'[f].overridden /\ rows'[f].severity = rows[f].severity
    OBVIOUS
  <2>1. rows[f] \in Row /\ rows[f].status # Absent
    BY DEF TypeInv, TypeOK, AbsentPlain
  <2>2. CASE NoWrite(f)
    BY <2>2 DEF NoWrite
  <2>3. CASE ScanWrite(f)
    <3>1. CASE \E severity \in Severity : rows'[f] = Upserted(rows[f], severity)
      BY <2>1, <3>1, UpsertedRow
    <3>2. CASE \E reason \in BOOLEAN : rows'[f] = WithStatus(rows[f], "reopened", reason)
      BY <2>1, <3>2, StatusRow DEF Status, OpenStatus
    <3>3. CASE rows'[f] = Resolved(rows[f])
      BY <2>1, <3>3, ResolvedRow
    <3> QED
      BY <2>3, <3>1, <3>2, <3>3 DEF ScanWrite
  <2>4. ~AnalystWrite(f)
    BY LifecycleAssumption DEF AnalystWrite, TypeInv, TypeOK
  <2> QED
    BY <2>2, <2>3, <2>4, RowWrites
<1> QED
  BY <1>1, TypeInvariant, AbsentPlainInvariant, PTL DEF Spec, OverrideSurvivesScans

(* A suppression is undone by an analyst or by the reopening of a run that *)
(* had read the row while it was resolved; by nothing else.                *)
THEOREM UnsuppressedOnlyByStaleReopen == Spec => OnlyStaleReopenUnsuppresses
<1>1. TypeInv /\ [Next]_vars =>
        [\A f \in Finding :
          rows[f].status \in Suppressed /\ rows'[f].status # rows[f].status =>
             \/ triage' # triage
             \/ \E s \in Scan : run[s].pc = "transition" /\ run[s].cur = f
                                /\ run[s].prev = "resolved" /\ rows'[f].status = "reopened"]_vars
  <2> SUFFICES ASSUME TypeInv, [Next]_vars, NEW f \in Finding, triage' = triage,
                      rows[f].status \in Suppressed, rows'[f].status # rows[f].status
               PROVE  \E s \in Scan : run[s].pc = "transition" /\ run[s].cur = f
                                /\ run[s].prev = "resolved" /\ rows'[f].status = "reopened"
    OBVIOUS
  <2>1. rows[f] \in Row /\ rows[f].status # Absent /\ rows[f].status \notin OpenStatus
    BY DEF TypeInv, TypeOK, Suppressed, Absent, OpenStatus
  <2>2. ~NoWrite(f)
    BY DEF NoWrite
  <2>3. ~AnalystWrite(f)
    BY LifecycleAssumption DEF AnalystWrite, TypeInv, TypeOK
  <2>4. ~(\E severity \in Severity : rows'[f] = Upserted(rows[f], severity))
    BY <2>1, UpsertedRow
  <2>5. PICK s \in Scan, reason \in BOOLEAN :
           /\ run[s].pc = "transition" /\ run[s].cur = f /\ run[s].prev = "resolved"
           /\ rows'[f] = WithStatus(rows[f], "reopened", reason)
    BY <2>1, <2>2, <2>3, <2>4, RowWrites DEF ScanWrite
  <2>6. rows'[f].status = "reopened"
    BY <2>1, <2>5, StatusRow DEF Status, OpenStatus
  <2> QED
    BY <2>5, <2>6
<1> QED
  BY <1>1, TypeInvariant, PTL DEF Spec, OnlyStaleReopenUnsuppresses

-----------------------------------------------------------------------------
(* What a resolved event rests on.                                         *)

(* Whoever is about to record a resolution has made it.                    *)
GoneResolved ==
    \A s \in Scan : run[s].pc = "resolvedEvents" =>
        \A f \in run[s].gone : \E c \in changes :
            c.by = s /\ c.finding = f /\ c.to = "resolved"

PendingOverrides == \A e \in pending : e.type # "finding_resolved"

BackedInv == ResolvedEventBacked /\ GoneResolved /\ PendingOverrides

LEMMA TransitionEventType ==
    EventTypeFor(ClassifyChange("resolved", TRUE, FALSE)) = "finding_reopened"
<1>1. ClassifyChange("resolved", TRUE, FALSE) = "reopened"
  BY DEF ClassifyChange, OpenStatus, Suppressed, Absent
<1>2. EventTypeFor("reopened") = "finding_reopened"
  BY DEF EventTypeFor
<1> QED
  BY <1>1, <1>2

(* The audit of changes only grows.                                        *)
LEMMA ChangesGrow == ASSUME [Next]_vars PROVE changes \subseteq changes'
<1>1. CASE \E s \in Scan : Start(s) \/ RunStep(s) \/ Crash(s)
  <2>1. PICK s \in Scan : Start(s) \/ RunStep(s) \/ Crash(s)
    BY <1>1
  <2>2. CASE Persist(s)
    BY <2>2 DEF Persist
  <2>3. CASE Transition(s)
    BY <2>3 DEF Transition
  <2>4. CASE ResolveMissing(s)
    BY <2>4 DEF ResolveMissing
  <2>5. CASE UNCHANGED changes
    BY <2>5
  <2> QED
    BY <2>1, <2>2, <2>3, <2>4, <2>5
    DEF RunStep, Start, Crash, SkipAsset, Evaluate, Finish, PersistFails, TransitionFails,
        RecordTransition, ResolveMissingFails, RecordResolved, NextAsset
<1>2. CASE AnalystStep
  <2>1. CASE \E f \in Finding, status \in Status, reason \in BOOLEAN : UpdateStatus(f, status, reason)
    BY <2>1 DEF UpdateStatus
  <2>2. CASE \E f \in Finding, severity \in Severity \cup {NONE}, reason \in BOOLEAN :
              OverrideSeverity(f, severity, reason)
    BY <2>2 DEF OverrideSeverity
  <2>3. CASE \E e \in pending : RecordOverride(e)
    BY <2>3 DEF RecordOverride
  <2> QED
    BY <1>2, <2>1, <2>2, <2>3 DEF AnalystStep
<1>3. CASE UNCHANGED vars
  BY <1>3 DEF vars
<1> QED
  BY <1>1, <1>2, <1>3 DEF Next

(* The events a step adds: a run's own, of one of two kinds, or a pending  *)
(* override.                                                               *)
LEMMA EventsAdded ==
    ASSUME TypeInv, [Next]_vars, NEW e \in events' \ events
    PROVE  \/ \E s \in Scan : e.scan = s /\ e.type = "finding_reopened"
           \/ \E s \in Scan : /\ run[s].pc = "resolvedEvents"
                              /\ e.scan = s /\ e.finding \in run[s].gone
           \/ e \in pending
<1>1. CASE \E s \in Scan : Start(s) \/ RunStep(s) \/ Crash(s)
  <2>1. PICK s \in Scan : Start(s) \/ RunStep(s) \/ Crash(s)
    BY <1>1
  <2>2. CASE RecordTransition(s)
    <3>1. run[s].prev = "resolved"
      BY <2>2 DEF RecordTransition, TypeInv, RunMemory
    <3>2. e = [finding |-> run[s].cur, scan |-> s, type |-> "finding_reopened",
               from |-> run[s].prev, to |-> run[s].to]
      BY <2>2, <3>1, TransitionEventType DEF RecordTransition
    <3> QED
      BY <3>2
  <2>3. CASE RecordResolved(s)
    <3>1. PICK f \in run[s].gone :
             e = [finding |-> f, scan |-> s, type |-> "finding_resolved",
                  from |-> NONE, to |-> "resolved"]
      BY <2>3 DEF RecordResolved
    <3> QED
      BY <2>3, <3>1 DEF RecordResolved
  <2>4. CASE UNCHANGED events
    BY <2>4
  <2> QED
    BY <2>1, <2>2, <2>3, <2>4
    DEF RunStep, Start, Crash, SkipAsset, Evaluate, Finish, Persist, PersistFails, Transition,
        TransitionFails, ResolveMissing, ResolveMissingFails, NextAsset
<1>2. CASE AnalystStep
  BY <1>2 DEF AnalystStep, UpdateStatus, OverrideSeverity, RecordOverride
<1>3. CASE UNCHANGED vars
  BY <1>3 DEF vars
<1> QED
  BY <1>1, <1>2, <1>3 DEF Next

LEMMA BackedStep == TypeInv /\ BackedInv /\ [Next]_vars => BackedInv'
<1> SUFFICES ASSUME TypeInv, BackedInv, [Next]_vars PROVE BackedInv'
  OBVIOUS
<1>1. changes \subseteq changes'
  BY ChangesGrow
<1>2. ResolvedEventBacked'
  <2> SUFFICES ASSUME NEW e \in events', e.type = "finding_resolved"
               PROVE  \E c \in changes : c.by = e.scan /\ c.finding = e.finding /\ c.to = "resolved"
    BY <1>1 DEF ResolvedEventBacked
  <2>1. CASE e \in events
    BY <2>1 DEF BackedInv, ResolvedEventBacked
  <2>2. CASE e \notin events
    BY <2>2, EventsAdded DEF BackedInv, GoneResolved, PendingOverrides
  <2> QED
    BY <2>1, <2>2
<1>3. PendingOverrides'
  <2>1. CASE AnalystStep
    BY <2>1 DEF AnalystStep, UpdateStatus, OverrideSeverity, RecordOverride, BackedInv, PendingOverrides
  <2>2. CASE UNCHANGED pending
    BY <2>2 DEF BackedInv, PendingOverrides
  <2> QED
    BY <2>1, <2>2
    DEF Next, RunStep, Start, SkipAsset, Evaluate, Finish, Persist, PersistFails,
        Transition, TransitionFails, RecordTransition, ResolveMissing, ResolveMissingFails,
        RecordResolved, NextAsset, Crash, vars
<1>4. GoneResolved'
  <2>1. CASE \E s \in Scan : Start(s) \/ RunStep(s) \/ Crash(s)
    <3>1. PICK s \in Scan : Start(s) \/ RunStep(s) \/ Crash(s)
      BY <2>1
    <3>2. run \in [Scan -> Run] /\ run[s] \in Run
      BY DEF TypeInv, TypeOK
    <3>3. SUFFICES ASSUME run'[s].pc = "resolvedEvents", NEW f \in run'[s].gone
                   PROVE  \E c \in changes' : c.by = s /\ c.finding = f /\ c.to = "resolved"
      BY <3>1, <1>1, MemoryOfOthers DEF BackedInv, GoneResolved
    <3>4. CASE ResolveMissing(s)
      <4> DEFINE missing == Missing(run[s].asset, run[s].kept)
      <4>1. /\ changes' = changes \cup UNION {ChangedBy(s, g, "resolved") : g \in missing}
            /\ run' = [run EXCEPT ![s].pc = "resolvedEvents", ![s].gone = missing]
        BY <3>4 DEF ResolveMissing
      <4>2. f \in missing /\ rows[f].status # "resolved"
        BY <4>1, <3>2 DEF Run, Missing, OpenStatus
      <4>3. [by |-> s, finding |-> f, from |-> rows[f].status, to |-> "resolved"]
              \in ChangedBy(s, f, "resolved")
        BY <4>2 DEF ChangedBy
      <4> HIDE DEF missing
      <4> QED
        BY <4>1, <4>2, <4>3
    <3>5. CASE RecordResolved(s)
      <4>1. run[s].pc = "resolvedEvents" /\ f \in run[s].gone
        BY <3>2, <3>5 DEF RecordResolved, Run
      <4> QED
        BY <4>1, <1>1 DEF BackedInv, GoneResolved
    <3>6. CASE Persist(s)
      BY <3>3, <3>6, PersistMemory DEF TypeInv
    <3>7. CASE Start(s)
      <4>1. PICK active \in Selections :
           run' = [run EXCEPT ![s].pc = "assets", ![s].active = active, ![s].todo = Asset]
        BY <3>7 DEF Start
      <4>2. run'[s].pc = "assets"
        BY <3>2, <4>1 DEF Run
      <4> QED
        BY <3>3, <4>2
    <3>8. CASE SkipAsset(s)
      BY <3>2, <3>3, <3>8 DEF SkipAsset, Run
    <3>9. CASE Evaluate(s)
      BY <3>2, <3>3, <3>9 DEF Evaluate, Run
    <3>10. CASE Finish(s)
      BY <3>2, <3>3, <3>10 DEF Finish, Run
    <3>11. CASE PersistFails(s)
      BY <3>2, <3>3, <3>11 DEF PersistFails, Run
    <3>12. CASE RecordTransition(s)
      BY <3>2, <3>3, <3>12 DEF RecordTransition, Run
    <3>13. CASE Transition(s)
      BY <3>2, <3>3, <3>13 DEF Transition, Run
    <3>14. CASE TransitionFails(s)
      BY <3>2, <3>3, <3>14 DEF TransitionFails, Run
    <3>15. CASE ResolveMissingFails(s)
      BY <3>2, <3>3, <3>15 DEF ResolveMissingFails, Run
    <3>16. CASE NextAsset(s)
      BY <3>2, <3>3, <3>16 DEF NextAsset, Run
    <3>17. CASE Crash(s)
      BY <3>2, <3>3, <3>17 DEF Crash, Run
    <3> QED
      BY <3>1, <3>4, <3>5, <3>6, <3>7, <3>8, <3>9, <3>10, <3>11, <3>12, <3>13, <3>14, <3>15, <3>16, <3>17
      DEF RunStep
  <2>2. CASE UNCHANGED run
    BY <2>2, <1>1 DEF BackedInv, GoneResolved
  <2> QED
    BY <2>1, <2>2 DEF Next, AnalystStep, UpdateStatus, OverrideSeverity, RecordOverride, vars
<1> QED
  BY <1>2, <1>3, <1>4 DEF BackedInv

(* A finding_resolved event of a run tells the truth.                      *)
THEOREM ResolvedEventsTrue == Spec => []ResolvedEventBacked
<1>1. Init => BackedInv
  BY DEF Init, IdleRun, BackedInv, ResolvedEventBacked, GoneResolved, PendingOverrides
<1>2. BackedInv => ResolvedEventBacked
  BY DEF BackedInv
<1> QED
  BY <1>1, <1>2, BackedStep, TypeInvariant, PTL DEF Spec

-----------------------------------------------------------------------------
(* One command at a time.                                                  *)

OneRun == \A s, t \in Scan : Running(s) /\ Running(t) => s = t

(* What the run read is still so when it acts on it.                       *)
ReadStillTrue == \A s \in Scan : run[s].pc = "transition" => rows[run[s].cur].status = "resolved"

SerialInv == OneRun /\ ReadStillTrue

LEMMA RunStepRuns ==
    ASSUME NEW s \in Scan, RunStep(s) \/ Crash(s) PROVE Running(s)
BY DEF RunStep, Running, SkipAsset, Evaluate, Finish, Persist, PersistFails, Transition,
       TransitionFails, RecordTransition, ResolveMissing, ResolveMissingFails, RecordResolved,
       NextAsset, Crash

LEMMA OneRunStep ==
    ASSUME Serial, TypeInv, OneRun, NEW s \in Scan, Start(s) \/ RunStep(s) \/ Crash(s)
    PROVE  \A t \in Scan \ {s} : ~Running(t) /\ ~Running(t)'
<1>1. \A t \in Scan \ {s} : ~Running(t)
  BY RunStepRuns DEF OneRun, Start, Quiet
<1> QED
  BY <1>1, MemoryOfOthers DEF Running

(* The only way into "transition" is an upsert that found the row resolved. *)
LEMMA ReadIsTrue ==
    ASSUME TypeInv, NEW s \in Scan, Start(s) \/ RunStep(s) \/ Crash(s), run'[s].pc = "transition"
    PROVE  rows'[run'[s].cur].status = "resolved"
<1>1. run \in [Scan -> Run] /\ run[s] \in Run
  BY DEF TypeInv, TypeOK
<1>2. CASE Persist(s)
  <2>1. PICK f \in run[s].queue, severity \in Severity :
         LET row      == Upserted(rows[f], severity)
             created  == rows[f].status = Absent
             settled  == NextStatus(row.status, TRUE) = row.status
         IN /\ rows' = [rows EXCEPT ![f] = row]
            /\ run' = [run EXCEPT ![s] =
                 [@ EXCEPT !.queue = run[s].queue \ {f}, !.kept = run[s].kept \cup {f},
                           !.fresh = IF created THEN run[s].fresh \cup {f} ELSE run[s].fresh,
                           !.pc   = IF settled THEN "persist" ELSE "transition",
                           !.cur  = IF settled THEN NONE ELSE f,
                           !.prev = IF settled THEN NONE ELSE row.status]]
    BY <1>2 DEF Persist
  <2> DEFINE row == Upserted(rows[f], severity)
             settled == NextStatus(row.status, TRUE) = row.status
  <2>2. f \in Finding
    BY <1>1 DEF Run
  <2>3. /\ run'[s].pc = IF settled THEN "persist" ELSE "transition"
        /\ run'[s].cur = IF settled THEN NONE ELSE f
        /\ run'[s].prev = IF settled THEN NONE ELSE row.status
        /\ rows'[f] = row
    <3> HIDE DEF row
    <3> QED
      BY <1>1, <2>1, <2>2 DEF TypeInv, TypeOK, Run, row
  <2>4. run'[s].prev = "resolved"
    BY <1>2, PersistMemory DEF TypeInv
  <2>5. ~settled
    <3> HIDE DEF settled, row
    <3> QED
      BY <2>3
  <2>6. run'[s].cur = f /\ row.status = "resolved"
    <3> HIDE DEF settled, row
    <3> QED
      BY <2>3, <2>4, <2>5
  <2> QED
    BY <2>3, <2>6
<1>3. ~Start(s)
  <2> SUFFICES ASSUME Start(s) PROVE FALSE
    OBVIOUS
  <2>1. PICK active \in Selections :
           run' = [run EXCEPT ![s].pc = "assets", ![s].active = active, ![s].todo = Asset]
    BY DEF Start
  <2>2. run'[s].pc = "assets"
    BY <1>1, <2>1 DEF Run
  <2> QED
    BY <2>2
<1>4. ~SkipAsset(s)
  BY <1>1 DEF SkipAsset, Run
<1>5. Evaluate(s) => run'[s].pc = "persist"
  BY <1>1 DEF Evaluate, Run
<1>6. ~Finish(s)
  BY <1>1 DEF Finish, Run
<1>7. ~PersistFails(s)
  BY <1>1 DEF PersistFails, Run
<1>8. RecordTransition(s) => run'[s].pc = "persist"
  BY <1>1 DEF RecordTransition, Run
<1>9. ~RecordResolved(s)
  BY <1>1 DEF RecordResolved, Run
<1>10. Transition(s) => run'[s].pc = "reopenedEvent"
  BY <1>1 DEF Transition, Run
<1>11. ~TransitionFails(s)
  BY <1>1 DEF TransitionFails, Run
<1>12. ~ResolveMissing(s)
  BY <1>1 DEF ResolveMissing, Run
<1>13. ~ResolveMissingFails(s)
  BY <1>1 DEF ResolveMissingFails, Run
<1>14. ~NextAsset(s)
  BY <1>1 DEF NextAsset, Run
<1>15. ~Crash(s)
  BY <1>1 DEF Crash, Run
<1> QED
  BY <1>2, <1>3, <1>4, <1>5, <1>6, <1>7, <1>8, <1>9, <1>10, <1>11, <1>12, <1>13, <1>14, <1>15
  DEF RunStep

LEMMA SerialStep == ASSUME Serial, TypeInv, SerialInv, [Next]_vars PROVE SerialInv'
<1>1. CASE \E s \in Scan : Start(s) \/ RunStep(s) \/ Crash(s)
  <2>1. PICK s \in Scan : Start(s) \/ RunStep(s) \/ Crash(s)
    BY <1>1
  <2>2. \A t \in Scan \ {s} : ~Running(t) /\ ~Running(t)'
    BY <2>1, OneRunStep DEF SerialInv
  <2>3. \A t \in Scan : run'[t].pc = "transition" => Running(t)'
    BY DEF Running
  <2> QED
    BY <2>1, <2>2, <2>3, ReadIsTrue DEF SerialInv, OneRun, ReadStillTrue
<1>2. CASE AnalystStep
  <2>1. run' = run
    BY <1>2 DEF AnalystStep, UpdateStatus, OverrideSeverity, RecordOverride
  <2>2. rows' = rows \/ \A t \in Scan : ~Running(t)
    BY <1>2 DEF AnalystStep, UpdateStatus, OverrideSeverity, RecordOverride, Quiet
  <2>3. \A t \in Scan : run[t].pc = "transition" => Running(t)
    BY DEF Running
  <2> QED
    BY <2>1, <2>2, <2>3 DEF SerialInv, OneRun, ReadStillTrue, Running
<1>3. CASE UNCHANGED vars
  BY <1>3 DEF vars, SerialInv, OneRun, ReadStillTrue, Running
<1> QED
  BY <1>1, <1>2, <1>3 DEF Next

LEMMA SerialInvariant == ASSUME Serial PROVE Spec => []SerialInv
<1>1. Init => SerialInv
  BY DEF Init, IdleRun, SerialInv, OneRun, ReadStillTrue, Running
<1>2. TypeInv /\ SerialInv /\ [Next]_vars => SerialInv'
  BY SerialStep
<1> QED
  BY <1>1, <1>2, TypeInvariant, PTL DEF Spec

-----------------------------------------------------------------------------
(* The steps of the policy.                                                *)

StatusBar == [f \in Finding |-> rows[f].status]

LEMMA RunRefines ==
    ASSUME Serial, TypeInv, SerialInv, NEW s \in Scan, Start(s) \/ RunStep(s) \/ Crash(s)
    PROVE  Policy!Next \/ UNCHANGED <<StatusBar, decision>>
<1> DEFINE Stutter == UNCHANGED <<StatusBar, decision>>
<1>1. CASE Persist(s)
  <2>1. PICK f \in run[s].queue, severity \in Severity :
           rows' = [rows EXCEPT ![f] = Upserted(rows[f], severity)]
    BY <1>1 DEF Persist
  <2>2. f \in Finding /\ rows[f] \in Row /\ decision' = decision
    BY <1>1 DEF TypeInv, TypeOK, Run, Persist
  <2>3. CASE rows[f].status = Absent
    <3>1. rows'[f].status = "open"
      BY <2>1, <2>2, <2>3, UpsertedRow DEF TypeInv, TypeOK
    <3>2. StatusBar' = [StatusBar EXCEPT ![f] = "open"]
      BY <2>1, <2>2, <3>1 DEF StatusBar, TypeInv, TypeOK
    <3>3. Policy!Detect(f)
      BY <2>2, <2>3, <3>2 DEF Policy!Detect, StatusBar, Absent
    <3> QED
      BY <2>2, <3>3 DEF Policy!Next
  <2>4. CASE rows[f].status # Absent
    <3>1. rows'[f].status = rows[f].status
      BY <2>1, <2>2, <2>4, UpsertedRow DEF TypeInv, TypeOK
    <3>2. StatusBar' = StatusBar
      BY <2>1, <2>2, <3>1 DEF StatusBar, TypeInv, TypeOK
    <3> QED
      BY <2>2, <3>2
  <2> QED
    BY <2>3, <2>4
<1>2. CASE Transition(s)
  <2>0. PICK f \in Finding : f = run[s].cur
    BY <1>2 DEF Transition, TypeInv, RunMemory
  <2>1. f \in Finding /\ rows[f] \in Row /\ rows[f].status = "resolved" /\ decision' = decision
    BY <1>2, <2>0 DEF Transition, TypeInv, TypeOK, SerialInv, ReadStillTrue
  <2>2. run[s].prev = "resolved"
    BY <1>2 DEF Transition, TypeInv, RunMemory
  <2>3. rows' = [rows EXCEPT ![f] = WithStatus(rows[f], "reopened", FALSE)]
    BY <1>2, <2>0, <2>2, ReopenedIsNext DEF Transition
  <2>4. WithStatus(rows[f], "reopened", FALSE).status = "reopened"
    BY <2>1 DEF WithStatus, Row
  <2>5. StatusBar' = [StatusBar EXCEPT ![f] = "reopened"]
    BY <2>1, <2>3, <2>4 DEF StatusBar, TypeInv, TypeOK
  <2>6. Policy!Detect(f)
    BY <2>1, <2>5 DEF Policy!Detect, StatusBar
  <2> QED
    BY <2>1, <2>6 DEF Policy!Next
<1>3. CASE ResolveMissing(s)
  <2>0. PICK gone \in SUBSET Finding : gone = Missing(run[s].asset, run[s].kept)
    BY DEF Missing, FindingsOf
  <2>1. /\ rows' = [f \in Finding |-> IF f \in gone THEN Resolved(rows[f]) ELSE rows[f]]
        /\ decision' = decision
    BY <1>3, <2>0 DEF ResolveMissing
  <2>2. gone \subseteq {f \in Finding : StatusBar[f] \in OpenStatus}
    BY <2>0 DEF Missing, FindingsOf, StatusBar
  <2>3. \A f \in Finding : Resolved(rows[f]).status = "resolved"
    BY ResolvedRow DEF TypeInv, TypeOK
  <2>4. StatusBar' = [f \in Finding |-> IF f \in gone THEN "resolved" ELSE StatusBar[f]]
    BY <2>1, <2>3 DEF StatusBar
  <2>5. Policy!Miss(gone)
    BY <2>1, <2>2, <2>4 DEF Policy!Miss, Policy!OpenStates, OpenStatus, StatusBar
  <2> QED
    BY <2>5 DEF Policy!Next
<1>4. CASE UNCHANGED <<rows, decision>>
  BY <1>4 DEF StatusBar
<1> QED
  BY <1>1, <1>2, <1>3, <1>4
  DEF RunStep, Start, Crash, SkipAsset, Evaluate, Finish, PersistFails, TransitionFails,
      RecordTransition, ResolveMissingFails, RecordResolved, NextAsset

LEMMA AnalystRefines ==
    ASSUME TypeInv, AnalystStep PROVE Policy!Next \/ UNCHANGED <<StatusBar, decision>>
<1>1. CASE \E f \in Finding, status \in Status, reason \in BOOLEAN : UpdateStatus(f, status, reason)
  <2>1. PICK f \in Finding, status \in Status, reason \in BOOLEAN : UpdateStatus(f, status, reason)
    BY <1>1
  <2>2. rows[f] \in Row /\ WithStatus(rows[f], status, reason).status = status
    BY StatusRow DEF TypeInv, TypeOK
  <2>3. StatusBar' = [StatusBar EXCEPT ![f] = status]
    BY <2>1, <2>2 DEF StatusBar, UpdateStatus, TypeInv, TypeOK
  <2>4. Policy!Decide(f, status)
    BY <2>1, <2>3 DEF Policy!Decide, UpdateStatus, StatusBar, Absent
  <2>5. status \in Policy!States
    BY DEF Policy!States, Policy!OpenStates, Policy!DecidedStates, Status, OpenStatus, Suppressed
  <2> QED
    BY <2>4, <2>5 DEF Policy!Next
<1>2. CASE \E f \in Finding, severity \in Severity \cup {NONE}, reason \in BOOLEAN :
              OverrideSeverity(f, severity, reason)
  <2>1. PICK f \in Finding, severity \in Severity \cup {NONE}, reason \in BOOLEAN :
              OverrideSeverity(f, severity, reason)
    BY <1>2
  <2>2. rows' = [rows EXCEPT ![f] = WithOverride(@, severity)] /\ decision' = decision
    BY <2>1 DEF OverrideSeverity
  <2>3. WithOverride(rows[f], severity).status = rows[f].status
    BY OverrideRow DEF TypeInv, TypeOK
  <2> QED
    BY <2>2, <2>3 DEF StatusBar, TypeInv, TypeOK
<1>3. CASE \E e \in pending : RecordOverride(e)
  BY <1>3 DEF RecordOverride, StatusBar
<1> QED
  BY <1>1, <1>2, <1>3 DEF AnalystStep

(* As long as commands do not overlap, runs (crashes, lost events and      *)
(* failed statements included) and analysts together behave as the policy  *)
(* says: only detection opens and reopens, only open findings are          *)
(* resolved, and only analysts decide and undo decisions.                  *)
THEOREM ImplementsPolicy == ASSUME Serial PROVE Spec => LifecyclePolicy
<1>1. Init => Policy!Init
  <2> SUFFICES ASSUME Init PROVE Policy!Init
    OBVIOUS
  <2>a. \A f \in Finding : rows[f] \in Row
    BY InitType DEF TypeOK
  <2>b. \A f \in Finding : StatusBar[f] = rows[f].status
    BY DEF StatusBar
  <2>c. Policy!DecidedStates = Suppressed
    BY DEF Policy!DecidedStates, Suppressed
  <2>2. StatusBar \in [Finding -> Policy!States \cup {"absent"}]
    BY <2>a DEF StatusBar, Row, Policy!States, Policy!OpenStates, Policy!DecidedStates,
           Status, OpenStatus, Suppressed, Absent
  <2>3. decision = [f \in Finding |->
                      IF StatusBar[f] \in Policy!DecidedStates THEN StatusBar[f] ELSE NONE]
    BY <2>b, <2>c DEF Init
  <2> QED
    BY <2>2, <2>3 DEF Policy!Init, StatusBar
<1>2. TypeInv /\ SerialInv /\ [Next]_vars => [Policy!Next]_<<StatusBar, decision>>
  <2> SUFFICES ASSUME TypeInv, SerialInv, [Next]_vars
               PROVE  Policy!Next \/ UNCHANGED <<StatusBar, decision>>
    OBVIOUS
  <2>1. CASE UNCHANGED vars
    BY <2>1 DEF vars, StatusBar
  <2> QED
    BY <2>1, RunRefines, AnalystRefines DEF Next
<1> QED
  BY <1>1, <1>2, TypeInvariant, SerialInvariant, PTL DEF Spec, LifecyclePolicy, Policy!Spec, StatusBar

(* A suppression is in force until an analyst changes it.                  *)
THEOREM DecisionsStick == ASSUME Serial PROVE Spec => []StickyDecision
<1>1. Init => StickyDecision
  <2> SUFFICES ASSUME Init, NEW f \in Finding, decision[f] \in Suppressed
               PROVE  rows[f].status = decision[f]
    BY DEF StickyDecision
  <2>1. NONE \notin Suppressed
    BY LifecycleAssumption DEF Status
  <2> QED
    BY <2>1 DEF Init
<1>2. TypeInv /\ SerialInv /\ StickyDecision /\ [Next]_vars => StickyDecision'
  <2> SUFFICES ASSUME TypeInv, SerialInv, StickyDecision, [Next]_vars, NEW f \in Finding,
                      decision'[f] \in Suppressed
               PROVE  rows'[f].status = decision'[f]
    BY DEF StickyDecision
  <2>1. rows[f] \in Row /\ (decision[f] \in Suppressed => rows[f].status = decision[f])
    BY DEF TypeInv, TypeOK, StickyDecision
  <2>2. CASE NoWrite(f)
    BY <2>1, <2>2 DEF NoWrite
  <2>3. CASE ScanWrite(f)
    <3>1. rows[f].status \in Suppressed /\ decision' = decision /\ rows[f].status = decision[f]
      BY <2>1, <2>3 DEF ScanWrite
    <3>2. rows[f].status # Absent /\ rows[f].status \notin OpenStatus /\ rows[f].status # "resolved"
      BY <3>1 DEF Suppressed, Absent, OpenStatus
    <3>3. ~(\E s \in Scan : run[s].pc = "transition" /\ run[s].cur = f)
      BY <3>2 DEF SerialInv, ReadStillTrue
    <3>4. PICK severity \in Severity : rows'[f] = Upserted(rows[f], severity)
      BY <2>3, <3>2, <3>3 DEF ScanWrite
    <3>5. rows'[f].status = rows[f].status
      BY <2>1, <3>2, <3>4, UpsertedRow
    <3> QED
      BY <3>1, <3>5
  <2>4. CASE AnalystWrite(f)
    <3>1. CASE \E status \in Status, reason \in BOOLEAN :
                  rows'[f] = WithStatus(rows[f], status, reason) /\ decision'[f] = status
      BY <2>1, <3>1, StatusRow
    <3>2. CASE \E severity \in Severity \cup {NONE} :
                  rows'[f] = WithOverride(rows[f], severity) /\ decision'[f] = decision[f]
      BY <2>1, <3>2, OverrideRow
    <3> QED
      BY <2>4, <3>1, <3>2 DEF AnalystWrite
  <2> QED
    BY <2>2, <2>3, <2>4, RowWrites
<1> QED
  BY <1>1, <1>2, TypeInvariant, SerialInvariant, PTL DEF Spec

-----------------------------------------------------------------------------
(* A run and the findings it reported.                                     *)

(* A run's findings and resolutions belong to assets it has already taken; *)
(* while it works on an asset everything it reported there is queued or    *)
(* kept, so that ResolveMissing spares it.                                 *)
Accounted(s) ==
    /\ run[s].pc = "idle" => run[s].found = {} /\ \A c \in changes : c.by # s
    /\ \A f \in run[s].found : AssetOf[f] \notin run[s].todo
    /\ run[s].pc \in {"persist", "transition", "reopenedEvent"} =>
          /\ run[s].asset \notin run[s].todo
          /\ \A f \in run[s].found :
                AssetOf[f] = run[s].asset => f \in run[s].queue \cup run[s].kept
    /\ \A c \in changes : c.by = s /\ c.to = "resolved" =>
          AssetOf[c.finding] \notin run[s].todo /\ c.finding \notin run[s].found

AccountInv == \A s \in Scan : Accounted(s)

(* Who adds what to the changes.                                           *)
LEMMA RunChanges ==
    ASSUME TypeInv, NEW s \in Scan, Start(s) \/ RunStep(s) \/ Crash(s),
           NEW c \in changes' \ changes
    PROVE  /\ c.by = s
           /\ run[s].pc # "idle"
           /\ c.to = "resolved" =>
                ResolveMissing(s) /\ c.finding \in Missing(run[s].asset, run[s].kept)
<1>1. CASE Persist(s)
  <2>1. PICK f \in run[s].queue, severity \in Severity :
           changes' = changes \cup ChangedBy(s, f, Upserted(rows[f], severity).status)
    BY <1>1 DEF Persist
  <2>2. rows[f] \in Row
    BY DEF TypeInv, TypeOK, Run
  <2>3. c \in ChangedBy(s, f, Upserted(rows[f], severity).status)
    BY <2>1
  <2>4. /\ c.by = s /\ c.to = Upserted(rows[f], severity).status
        /\ rows[f].status # Upserted(rows[f], severity).status
    BY <2>3 DEF ChangedBy
  <2>5. c.to = "open"
    BY <2>2, <2>4, UpsertedRow
  <2> QED
    BY <1>1, <2>4, <2>5 DEF Persist
<1>2. CASE Transition(s)
  <2>1. run[s].prev = "resolved"
    BY <1>2 DEF Transition, TypeInv, RunMemory
  <2>2. c \in ChangedBy(s, run[s].cur, "reopened")
    BY <1>2, <2>1, ReopenedIsNext DEF Transition
  <2>3. c.by = s /\ c.to = "reopened"
    BY <2>2 DEF ChangedBy
  <2> QED
    BY <1>2, <2>3 DEF Transition
<1>3. CASE ResolveMissing(s)
  <2>1. PICK f \in Missing(run[s].asset, run[s].kept) : c \in ChangedBy(s, f, "resolved")
    BY <1>3 DEF ResolveMissing
  <2>2. c.by = s /\ c.finding = f
    BY <2>1 DEF ChangedBy
  <2> QED
    BY <1>3, <2>1, <2>2 DEF ResolveMissing
<1>4. CASE UNCHANGED changes
  BY <1>4
<1> QED
  BY <1>1, <1>2, <1>3, <1>4
  DEF RunStep, Start, Crash, SkipAsset, Evaluate, Finish, PersistFails, TransitionFails,
      RecordTransition, ResolveMissingFails, RecordResolved, NextAsset

LEMMA AnalystChanges ==
    ASSUME AnalystStep, NEW c \in changes' \ changes PROVE c.by = Analyst
<1>1. CASE \E f \in Finding, status \in Status, reason \in BOOLEAN : UpdateStatus(f, status, reason)
  <2>1. PICK f \in Finding, status \in Status : changes' = changes \cup ChangedBy(Analyst, f, status)
    BY <1>1 DEF UpdateStatus
  <2> QED
    BY <2>1 DEF ChangedBy
<1>2. CASE UNCHANGED changes
  BY <1>2
<1> QED
  BY <1>1, <1>2 DEF AnalystStep, OverrideSeverity, RecordOverride

LEMMA AccountOfOthers ==
    ASSUME TypeInv, AccountInv, NEW s \in Scan, Start(s) \/ RunStep(s) \/ Crash(s),
           NEW t \in Scan \ {s}
    PROVE  Accounted(t)'
<1>1. run'[t] = run[t]
  BY MemoryOfOthers
<1>2. \A c \in changes' : c.by = t => c \in changes
  BY RunChanges
<1> QED
  BY <1>1, <1>2 DEF AccountInv, Accounted

LEMMA AccountOfSelf ==
    ASSUME TypeInv, AccountInv,
           NEW s \in Scan, Start(s) \/ RunStep(s) \/ Crash(s)
    PROVE  Accounted(s)'
<1>1. run \in [Scan -> Run] /\ run[s] \in Run /\ Accounted(s)
  BY DEF TypeInv, TypeOK, AccountInv
<1>2. CASE ResolveMissing(s)
  <2>1. PICK missing : /\ missing = Missing(run[s].asset, run[s].kept)
                       /\ run' = [run EXCEPT ![s].pc = "resolvedEvents", ![s].gone = missing]
    BY <1>2 DEF ResolveMissing
  <2>2. /\ run'[s].pc = "resolvedEvents"
        /\ run'[s].todo = run[s].todo
        /\ run'[s].found = run[s].found
    BY <1>1, <2>1 DEF Run
  <2>3. run[s].queue = {} /\ run[s].pc = "persist"
    BY <1>2 DEF ResolveMissing
  <2>4. \A f \in missing : AssetOf[f] = run[s].asset /\ f \notin run[s].kept
    BY <2>1 DEF Missing, FindingsOf
  <2>5. \A f \in missing : AssetOf[f] \notin run[s].todo /\ f \notin run[s].found
    BY <1>1, <2>3, <2>4 DEF Accounted
  <2>6. \A c \in changes' : c.by = s /\ c.to = "resolved" =>
           AssetOf[c.finding] \notin run[s].todo /\ c.finding \notin run[s].found
    BY <1>1, <2>1, <2>5, RunChanges DEF Accounted
  <2> QED
    BY <1>1, <2>2, <2>6 DEF Accounted
<1>3. CASE ~ResolveMissing(s)
  <2>1. \A c \in changes' : c.by = s /\ c.to = "resolved" => c \in changes
    BY <1>3, RunChanges
  <2>2. CASE Start(s)
    <3>1. PICK active \in Selections :
             run' = [run EXCEPT ![s].pc = "assets", ![s].active = active, ![s].todo = Asset]
      BY <2>2 DEF Start
    <3>2. run'[s].pc = "assets" /\ run'[s].found = run[s].found
      BY <1>1, <3>1 DEF Run
    <3>3. run[s].pc = "idle" /\ changes' = changes
      BY <2>2 DEF Start
    <3> QED
      BY <1>1, <3>2, <3>3 DEF Accounted
  <2>3. CASE SkipAsset(s)
    <3>1. PICK a \in run[s].todo : run' = [run EXCEPT ![s].todo = run[s].todo \ {a}]
      BY <2>3 DEF SkipAsset, Remaining
    <3>2. /\ run'[s].pc = run[s].pc /\ run'[s].found = run[s].found
          /\ run'[s].todo = run[s].todo \ {a}
      BY <1>1, <3>1 DEF Run
    <3>3. run[s].pc = "assets"
      BY <2>3 DEF SkipAsset
    <3> QED
      BY <1>1, <2>1, <3>2, <3>3 DEF Accounted
  <2>4. CASE Evaluate(s)
    <3>1. PICK a \in run[s].todo : \E ran \in SUBSET run[s].active :
             \E found \in SUBSET {f \in FindingsOf(a) : DetectorOf[f] \in ran} :
               run' = [run EXCEPT ![s] =
                      [@ EXCEPT !.pc = "persist", !.todo = Remaining(s, a), !.asset = a,
                                !.found = run[s].found \cup found, !.queue = found,
                                !.kept = {}]]
      BY <2>4 DEF Evaluate
    <3>2. PICK found \in SUBSET FindingsOf(a) :
             run' = [run EXCEPT ![s] =
                   [@ EXCEPT !.pc = "persist", !.todo = Remaining(s, a), !.asset = a,
                             !.found = run[s].found \cup found, !.queue = found,
                             !.kept = {}]]
      BY <3>1
    <3>3. /\ run'[s].pc = "persist" /\ run'[s].todo = run[s].todo \ {a}
          /\ run'[s].asset = a /\ run'[s].found = run[s].found \cup found
          /\ run'[s].queue = found
      BY <1>1, <3>2 DEF Run, Remaining
    <3>4. \A f \in found : AssetOf[f] = a
      BY DEF FindingsOf
    <3>5. \A f \in run[s].found : AssetOf[f] # a
      BY <1>1, <3>1 DEF Accounted
    <3>6. \A c \in changes' : c.by = s /\ c.to = "resolved" =>
             AssetOf[c.finding] # a /\ AssetOf[c.finding] \notin run[s].todo
                                    /\ c.finding \notin run[s].found
      BY <1>1, <2>1, <3>1 DEF Accounted
    <3> QED
      BY <1>1, <3>3, <3>4, <3>5, <3>6 DEF Accounted
  <2>5. CASE Persist(s)
    <3>1. PICK f \in run[s].queue, severity \in Severity :
         LET row      == Upserted(rows[f], severity)
             created  == rows[f].status = Absent
             settled  == NextStatus(row.status, TRUE) = row.status
         IN run' = [run EXCEPT ![s] =
                 [@ EXCEPT !.queue = run[s].queue \ {f}, !.kept = run[s].kept \cup {f},
                           !.fresh = IF created THEN run[s].fresh \cup {f} ELSE run[s].fresh,
                           !.pc   = IF settled THEN "persist" ELSE "transition",
                           !.cur  = IF settled THEN NONE ELSE f,
                           !.prev = IF settled THEN NONE ELSE row.status]]
      BY <2>5 DEF Persist
    <3>2. PICK fresh, pc, cur, prev :
             run' = [run EXCEPT ![s] =
                 [@ EXCEPT !.queue = run[s].queue \ {f}, !.kept = run[s].kept \cup {f},
                           !.fresh = fresh, !.pc = pc, !.cur = cur, !.prev = prev]]
      BY <3>1
    <3>3. /\ run'[s].todo = run[s].todo /\ run'[s].found = run[s].found
          /\ run'[s].asset = run[s].asset
          /\ run'[s].queue = run[s].queue \ {f} /\ run'[s].kept = run[s].kept \cup {f}
      BY <1>1, <3>2 DEF Run
    <3>4. run[s].pc = "persist"
      BY <2>5 DEF Persist
    <3>5. run'[s].pc # "idle"
      BY <2>5, PersistMemory DEF TypeInv
    <3> QED
      BY <1>1, <2>1, <3>3, <3>4, <3>5 DEF Accounted
  <2>6. CASE Transition(s) \/ TransitionFails(s)
    <3>1. PICK to : run' = [run EXCEPT ![s].pc = "reopenedEvent", ![s].to = to]
      BY <2>6 DEF Transition, TransitionFails
    <3>2. /\ run'[s].pc = "reopenedEvent"
          /\ run'[s].todo = run[s].todo /\ run'[s].found = run[s].found
          /\ run'[s].asset = run[s].asset
          /\ run'[s].queue = run[s].queue /\ run'[s].kept = run[s].kept
      BY <1>1, <3>1 DEF Run
    <3>3. run[s].pc = "transition"
      BY <2>6 DEF Transition, TransitionFails
    <3> QED
      BY <1>1, <2>1, <3>2, <3>3 DEF Accounted
  <2>7. CASE RecordTransition(s)
    <3>1. /\ run'[s].pc = "persist" /\ run[s].pc = "reopenedEvent"
          /\ run'[s].todo = run[s].todo /\ run'[s].found = run[s].found
          /\ run'[s].asset = run[s].asset
          /\ run'[s].queue = run[s].queue /\ run'[s].kept = run[s].kept
      BY <1>1, <2>7 DEF RecordTransition, Run
    <3> QED
      BY <1>1, <2>1, <3>1 DEF Accounted
  <2>8. CASE Finish(s) \/ ResolveMissingFails(s) \/ NextAsset(s) \/ Crash(s)
    <3>1. PICK pc, asset : /\ pc \in {"done", "assets", "crashed"}
                           /\ run' = [run EXCEPT ![s].pc = pc, ![s].asset = asset]
                              \/ run' = [run EXCEPT ![s].pc = pc]
      BY <2>8 DEF Finish, ResolveMissingFails, NextAsset, Crash
    <3>2. /\ run'[s].pc = pc
          /\ run'[s].todo = run[s].todo /\ run'[s].found = run[s].found
      BY <1>1, <3>1 DEF Run
    <3> QED
      BY <1>1, <2>1, <3>1, <3>2 DEF Accounted
  <2>9. CASE RecordResolved(s)
    <3>1. PICK gone : run' = [run EXCEPT ![s].gone = gone]
      BY <2>9 DEF RecordResolved
    <3>2. /\ run'[s].pc = run[s].pc
          /\ run'[s].todo = run[s].todo /\ run'[s].found = run[s].found
      BY <1>1, <3>1 DEF Run
    <3>3. run[s].pc = "resolvedEvents"
      BY <2>9 DEF RecordResolved
    <3> QED
      BY <1>1, <2>1, <3>2, <3>3 DEF Accounted
  <2>10. CASE PersistFails(s)
    <3>1. PICK f \in run[s].queue :
             run' = [run EXCEPT ![s].queue = run[s].queue \ {f}, ![s].found = run[s].found \ {f}]
      BY <1>1, <2>10 DEF PersistFails
    <3>2. /\ run'[s].pc = run[s].pc /\ run'[s].todo = run[s].todo
          /\ run'[s].asset = run[s].asset /\ run'[s].kept = run[s].kept
          /\ run'[s].found = run[s].found \ {f} /\ run'[s].queue = run[s].queue \ {f}
      BY <1>1, <3>1 DEF Run
    <3>3. run[s].pc = "persist"
      BY <2>10 DEF PersistFails
    <3> QED
      BY <1>1, <2>1, <3>2, <3>3 DEF Accounted
  <2> QED
    BY <1>3, <2>2, <2>3, <2>4, <2>5, <2>6, <2>7, <2>8, <2>9, <2>10 DEF RunStep
<1> QED
  BY <1>2, <1>3

(* The account of every run is an invariant.                               *)
LEMMA AccountInvariant == Spec => []AccountInv
<1>1. Init => AccountInv
  BY DEF Init, IdleRun, AccountInv, Accounted
<1>2. TypeInv /\ AccountInv /\ [Next]_vars => AccountInv'
  <2> SUFFICES ASSUME TypeInv, AccountInv, [Next]_vars PROVE AccountInv'
    OBVIOUS
  <2>1. CASE \E s \in Scan : Start(s) \/ RunStep(s) \/ Crash(s)
    BY <2>1, AccountOfOthers, AccountOfSelf DEF AccountInv
  <2>2. CASE AnalystStep
    <3>1. run' = run
      BY <2>2 DEF AnalystStep, UpdateStatus, OverrideSeverity, RecordOverride
    <3>2. \A s \in Scan : \A c \in changes' : c.by = s => c \in changes
      BY <2>2, AnalystChanges, LifecycleAssumption
    <3> QED
      BY <3>1, <3>2 DEF AccountInv, Accounted
  <2>3. CASE UNCHANGED vars
    BY <2>3 DEF vars, AccountInv, Accounted
  <2> QED
    BY <2>1, <2>2, <2>3 DEF Next
<1> QED
  BY <1>1, <1>2, TypeInvariant, PTL DEF Spec

(* Under every fault, however many runs and analysts share the table, no   *)
(* run resolves a finding its own detectors reported and it could store.   *)
THEOREM DetectedStaysOpen == Spec => []DetectedNeverResolved
<1>1. AccountInv => DetectedNeverResolved
  BY DEF AccountInv, Accounted, DetectedNeverResolved
<1> QED
  BY <1>1, AccountInvariant, PTL

-----------------------------------------------------------------------------
(* A run that nobody interferes with.                                      *)

(* The assets it has not finished.                                         *)
Unfinished(s) ==
    run[s].todo \cup (IF run[s].pc \in {"persist", "transition", "reopenedEvent"} THEN {run[s].asset} ELSE {})

SettledRow(s, f) ==
    rows[f].status \notin Suppressed => (rows[f].status \in OpenStatus <=> f \in run[s].found)

(* Findings of the assets behind it are as it reported them; of the asset  *)
(* in hand what it kept is open, but for the one it is about to reopen.    *)
Alone(s) ==
    /\ run[s].pc = "done" => run[s].todo = {}
    /\ run[s].pc \in {"assets", "resolvedEvents", "done", "persist", "transition", "reopenedEvent"} =>
          \A f \in Finding : AssetOf[f] \notin Unfinished(s) => SettledRow(s, f)
    /\ run[s].pc \in {"persist", "transition", "reopenedEvent"} =>
          /\ run[s].asset \notin run[s].todo
          /\ run[s].queue \cup run[s].kept \subseteq run[s].found \cap FindingsOf(run[s].asset)
          /\ run[s].queue \cap run[s].kept = {}
          /\ \A f \in run[s].found \cap FindingsOf(run[s].asset) : f \in run[s].queue \cup run[s].kept
          /\ \A f \in run[s].kept :
                \/ rows[f].status \in OpenStatus \cup Suppressed
                \/ run[s].pc = "transition" /\ run[s].cur = f
    /\ run[s].pc = "transition" => run[s].cur \in run[s].kept

Undisturbed(s) == triage = 0 /\ \A t \in Scan \ {s} : run[t].pc = "idle"
AloneInv == \A s \in Scan : Undisturbed(s) => Alone(s)

(* No fault makes a run lose an asset or a reopening and still end.        *)
LosesNoAsset == Faults \cap {"read", "resolve", "status"} = {}

(* The steps of the run itself that change no row.                         *)
LEMMA AloneReads ==
    ASSUME TypeInv, AccountInv, LosesNoAsset, NEW s \in Scan, Alone(s),
           Start(s) \/ Evaluate(s) \/ Finish(s) \/ PersistFails(s) \/ RecordTransition(s)
           \/ RecordResolved(s) \/ NextAsset(s) \/ Crash(s)
    PROVE  Alone(s)'
<1>1. run \in [Scan -> Run] /\ run[s] \in Run /\ AssetOf \in [Finding -> Asset] /\ Accounted(s)
  BY LifecycleAssumption DEF TypeInv, TypeOK, AccountInv
<1>2. CASE Start(s)
  <2>1. PICK active \in Selections :
           run' = [run EXCEPT ![s].pc = "assets", ![s].active = active, ![s].todo = Asset]
    BY <1>2 DEF Start
  <2>2. run'[s].pc = "assets" /\ run'[s].todo = Asset
    BY <1>1, <2>1 DEF Run
  <2>3. \A f \in Finding : AssetOf[f] \in Unfinished(s)'
    BY <1>1, <2>2 DEF Unfinished
  <2> QED
    BY <2>2, <2>3 DEF Alone
<1>3. CASE Evaluate(s)
  <2>1. PICK a \in run[s].todo : \E ran \in SUBSET run[s].active :
           \E found \in SUBSET {f \in FindingsOf(a) : DetectorOf[f] \in ran} :
             run' = [run EXCEPT ![s] =
                    [@ EXCEPT !.pc = "persist", !.todo = Remaining(s, a), !.asset = a,
                              !.found = run[s].found \cup found, !.queue = found,
                              !.kept = {}]]
    BY <1>3 DEF Evaluate
  <2>2. PICK found \in SUBSET FindingsOf(a) :
           run' = [run EXCEPT ![s] =
                 [@ EXCEPT !.pc = "persist", !.todo = Remaining(s, a), !.asset = a,
                           !.found = run[s].found \cup found, !.queue = found,
                           !.kept = {}]]
    BY <2>1
  <2>3. /\ run'[s].pc = "persist" /\ run'[s].todo = run[s].todo \ {a}
        /\ run'[s].asset = a /\ run'[s].found = run[s].found \cup found
        /\ run'[s].queue = found /\ run'[s].kept = {}
    BY <1>1, <2>2 DEF Run, Remaining
  <2>4. \A f \in found : AssetOf[f] = a
    BY DEF FindingsOf
  <2>5. \A f \in run[s].found : AssetOf[f] # a
    BY <1>1, <2>1 DEF Accounted
  <2>6. run[s].pc = "assets" /\ rows' = rows
    BY <1>3 DEF Evaluate
  <2>7. ASSUME NEW f \in Finding, AssetOf[f] \notin Unfinished(s)'
        PROVE  SettledRow(s, f)'
    <3>1. AssetOf[f] \notin Unfinished(s) /\ f \notin found
      BY <2>3, <2>4, <2>6, <2>7 DEF Unfinished
    <3>2. SettledRow(s, f)
      BY <2>6, <3>1 DEF Alone
    <3> QED
      BY <2>3, <2>6, <3>1, <3>2 DEF SettledRow
  <2>8. \A f \in run'[s].found \cap FindingsOf(a) : f \in found
    BY <2>3, <2>5 DEF FindingsOf
  <2> QED
    BY <2>3, <2>4, <2>7, <2>8 DEF Alone, FindingsOf
<1>4. CASE Finish(s) \/ NextAsset(s) \/ Crash(s)
  <2>1. PICK pc, asset : /\ run' = [run EXCEPT ![s].pc = pc, ![s].asset = asset]
                            \/ run' = [run EXCEPT ![s].pc = pc]
                         /\ \/ pc = "done" /\ run[s].pc = "assets" /\ run[s].todo = {}
                            \/ pc = "assets" /\ run[s].pc = "resolvedEvents"
                            \/ pc = "crashed"
    BY <1>4 DEF Finish, NextAsset, Crash
  <2>2. run'[s].pc = pc /\ run'[s].todo = run[s].todo /\ run'[s].found = run[s].found
    BY <1>1, <2>1 DEF Run
  <2>3. rows' = rows
    BY <1>4 DEF Finish, NextAsset, Crash
  <2>4. pc # "crashed" => Unfinished(s)' = Unfinished(s)
    BY <2>1, <2>2 DEF Unfinished
  <2> QED
    BY <2>1, <2>2, <2>3, <2>4 DEF Alone, SettledRow
<1>5. CASE PersistFails(s)
  <2>1. PICK f \in run[s].queue :
           run' = [run EXCEPT ![s].queue = run[s].queue \ {f}, ![s].found = run[s].found \ {f}]
    BY <1>1, <1>5 DEF PersistFails
  <2>2. /\ run'[s].pc = run[s].pc /\ run'[s].todo = run[s].todo
        /\ run'[s].asset = run[s].asset /\ run'[s].kept = run[s].kept
        /\ run'[s].found = run[s].found \ {f} /\ run'[s].queue = run[s].queue \ {f}
    BY <1>1, <2>1 DEF Run
  <2>3. run[s].pc = "persist" /\ rows' = rows
    BY <1>5 DEF PersistFails
  <2>4. f \notin run[s].kept /\ AssetOf[f] = run[s].asset /\ Unfinished(s)' = Unfinished(s)
    BY <2>2, <2>3 DEF Alone, FindingsOf, Unfinished
  <2>5. ASSUME NEW g \in Finding, AssetOf[g] \notin Unfinished(s)'
        PROVE  SettledRow(s, g)'
    <3>1. SettledRow(s, g) /\ g # f
      BY <2>3, <2>4, <2>5 DEF Alone, Unfinished
    <3> QED
      BY <2>2, <2>3, <3>1 DEF SettledRow
  <2> QED
    BY <2>2, <2>3, <2>4, <2>5 DEF Alone
<1>6. CASE RecordTransition(s)
  <2>1. /\ run'[s].pc = "persist" /\ run[s].pc = "reopenedEvent" /\ rows' = rows
        /\ run'[s].todo = run[s].todo /\ run'[s].found = run[s].found
        /\ run'[s].asset = run[s].asset
        /\ run'[s].queue = run[s].queue /\ run'[s].kept = run[s].kept
    BY <1>1, <1>6 DEF RecordTransition, Run
  <2> QED
    BY <2>1 DEF Alone, Unfinished, SettledRow
<1>7. CASE RecordResolved(s)
  <2>1. PICK gone : run' = [run EXCEPT ![s].gone = gone]
    BY <1>7 DEF RecordResolved
  <2>2. /\ run'[s].pc = run[s].pc /\ run'[s].todo = run[s].todo /\ run'[s].found = run[s].found
        /\ run[s].pc = "resolvedEvents" /\ rows' = rows
    BY <1>1, <1>7, <2>1 DEF Run, RecordResolved
  <2> QED
    BY <2>2 DEF Alone, Unfinished, SettledRow
<1> QED
  BY <1>2, <1>3, <1>4, <1>5, <1>6, <1>7

LEMMA OpenAfterUpsert ==
    ASSUME NEW st \in Status
    PROVE  /\ NextStatus(st, TRUE) = st => st \in OpenStatus \cup Suppressed
           /\ "reopened" \in OpenStatus
BY DEF NextStatus, Status, OpenStatus, Suppressed, Absent

LEMMA AlonePersists ==
    ASSUME TypeInv, NEW s \in Scan, Alone(s), Persist(s)
    PROVE  Alone(s)'
<1>1. run \in [Scan -> Run] /\ run[s] \in Run /\ rows \in [Finding -> Row]
  BY DEF TypeInv, TypeOK
<1>2. PICK f \in run[s].queue, severity \in Severity :
         LET row      == Upserted(rows[f], severity)
             created  == rows[f].status = Absent
             settled  == NextStatus(row.status, TRUE) = row.status
         IN /\ rows' = [rows EXCEPT ![f] = row]
            /\ run' = [run EXCEPT ![s] =
                 [@ EXCEPT !.queue = run[s].queue \ {f}, !.kept = run[s].kept \cup {f},
                           !.fresh = IF created THEN run[s].fresh \cup {f} ELSE run[s].fresh,
                           !.pc   = IF settled THEN "persist" ELSE "transition",
                           !.cur  = IF settled THEN NONE ELSE f,
                           !.prev = IF settled THEN NONE ELSE row.status]]
  BY DEF Persist
<1>3. PICK row : row = Upserted(rows[f], severity)
  OBVIOUS
<1>4. PICK fresh, pc, cur, prev :
         /\ run' = [run EXCEPT ![s] =
                 [@ EXCEPT !.queue = run[s].queue \ {f}, !.kept = run[s].kept \cup {f},
                           !.fresh = fresh, !.pc = pc, !.cur = cur, !.prev = prev]]
         /\ \/ pc = "persist" /\ NextStatus(row.status, TRUE) = row.status
            \/ pc = "transition" /\ cur = f
  BY <1>2, <1>3
<1>5. rows' = [rows EXCEPT ![f] = row] /\ f \in Finding
  BY <1>1, <1>2, <1>3 DEF Run
<1>6. /\ run'[s].todo = run[s].todo /\ run'[s].found = run[s].found
      /\ run'[s].asset = run[s].asset /\ run'[s].pc = pc /\ run'[s].cur = cur
      /\ run'[s].queue = run[s].queue \ {f} /\ run'[s].kept = run[s].kept \cup {f}
  BY <1>1, <1>4 DEF Run
<1>7. run[s].pc = "persist"
  BY DEF Persist
<1>8. f \in run[s].found /\ AssetOf[f] = run[s].asset
  BY <1>7 DEF Alone, FindingsOf
<1>9. row.status \in Status
  BY <1>1, <1>3, <1>5, UpsertedType
<1>10. ASSUME NEW g \in Finding, AssetOf[g] \notin Unfinished(s)'
       PROVE  SettledRow(s, g)'
  <2>1. Unfinished(s)' = Unfinished(s) /\ run[s].asset \in Unfinished(s)
    BY <1>4, <1>6, <1>7 DEF Unfinished
  <2>2. SettledRow(s, g) /\ g # f
    BY <1>7, <1>8, <1>10, <2>1 DEF Alone
  <2>3. rows'[g] = rows[g]
    BY <1>1, <1>5, <2>2
  <2> QED
    BY <1>6, <2>2, <2>3 DEF SettledRow
<1>11. ASSUME NEW g \in run'[s].kept
       PROVE  \/ rows'[g].status \in OpenStatus \cup Suppressed
              \/ run'[s].pc = "transition" /\ run'[s].cur = g
  <2>1. CASE g = f
    <3>1. rows'[g] = row
      BY <1>1, <1>5, <2>1
    <3> QED
      BY <1>4, <1>6, <1>9, <2>1, <3>1, OpenAfterUpsert
  <2>2. CASE g # f
    <3>1. g \in run[s].kept /\ rows'[g] = rows[g]
      BY <1>1, <1>5, <1>6, <1>11, <2>2 DEF Run
    <3> QED
      BY <1>7, <3>1 DEF Alone
  <2> QED
    BY <2>1, <2>2
<1>12. /\ run'[s].asset \notin run'[s].todo
       /\ run'[s].queue \cup run'[s].kept \subseteq run'[s].found \cap FindingsOf(run'[s].asset)
       /\ run'[s].queue \cap run'[s].kept = {}
       /\ \A g \in run'[s].found \cap FindingsOf(run'[s].asset) : g \in run'[s].queue \cup run'[s].kept
  BY <1>6, <1>7, <1>8 DEF Alone
<1>13. run'[s].pc \in {"persist", "transition"} /\ (run'[s].pc = "transition" => run'[s].cur \in run'[s].kept)
  BY <1>4, <1>6
<1> HIDE DEF FindingsOf
<1> QED
  BY <1>10, <1>11, <1>12, <1>13 DEF Alone

LEMMA AloneReopens ==
    ASSUME TypeInv, NEW s \in Scan, Alone(s), Transition(s)
    PROVE  Alone(s)'
<1>1. run \in [Scan -> Run] /\ run[s] \in Run /\ rows \in [Finding -> Row]
  BY DEF TypeInv, TypeOK
<1>2. run[s].pc = "transition" /\ run[s].prev = "resolved"
  BY DEF Transition, TypeInv, RunMemory
<1>3. PICK f \in run[s].kept : f = run[s].cur
  BY <1>2 DEF Alone
<1>4. f \in Finding /\ AssetOf[f] = run[s].asset
  BY <1>1, <1>2 DEF Alone, FindingsOf, Run
<1>5. PICK row : row = WithStatus(rows[f], "reopened", FALSE)
  OBVIOUS
<1>6. rows' = [rows EXCEPT ![f] = row] /\ row.status = "reopened"
  BY <1>1, <1>2, <1>3, <1>4, <1>5, ReopenedIsNext DEF Transition, WithStatus, Row
<1>7. PICK to : run' = [run EXCEPT ![s].pc = "reopenedEvent", ![s].to = to]
  BY DEF Transition
<1>8. /\ run'[s].pc = "reopenedEvent" /\ run'[s].todo = run[s].todo /\ run'[s].found = run[s].found
      /\ run'[s].asset = run[s].asset
      /\ run'[s].queue = run[s].queue /\ run'[s].kept = run[s].kept
  BY <1>1, <1>7 DEF Run
<1>9. ASSUME NEW g \in Finding, AssetOf[g] \notin Unfinished(s)'
      PROVE  SettledRow(s, g)'
  <2>1. Unfinished(s)' = Unfinished(s) /\ run[s].asset \in Unfinished(s)
    BY <1>2, <1>8 DEF Unfinished
  <2>2. SettledRow(s, g) /\ g # f
    BY <1>2, <1>4, <1>9, <2>1 DEF Alone
  <2>3. rows'[g] = rows[g]
    BY <1>1, <1>6, <2>2
  <2> QED
    BY <1>8, <2>2, <2>3 DEF SettledRow
<1>10. ASSUME NEW g \in run'[s].kept
       PROVE  rows'[g].status \in OpenStatus \cup Suppressed
  <2>1. CASE g = f
    BY <1>1, <1>4, <1>6, <2>1 DEF OpenStatus
  <2>2. CASE g # f
    <3>1. g \in run[s].kept /\ rows'[g] = rows[g]
      BY <1>1, <1>6, <1>8, <1>10, <2>2 DEF Run
    <3> QED
      BY <1>2, <1>3, <2>2, <3>1 DEF Alone
  <2> QED
    BY <2>1, <2>2
<1> QED
  BY <1>2, <1>8, <1>9, <1>10 DEF Alone, FindingsOf

LEMMA AloneResolves ==
    ASSUME TypeInv, NEW s \in Scan, Alone(s), ResolveMissing(s)
    PROVE  Alone(s)'
<1>1. run \in [Scan -> Run] /\ run[s] \in Run /\ rows \in [Finding -> Row]
  BY DEF TypeInv, TypeOK
<1>2. PICK missing :
         /\ missing = Missing(run[s].asset, run[s].kept)
         /\ rows' = [f \in Finding |-> IF f \in missing THEN Resolved(rows[f]) ELSE rows[f]]
         /\ run' = [run EXCEPT ![s].pc = "resolvedEvents", ![s].gone = missing]
  BY DEF ResolveMissing
<1>3. run[s].pc = "persist" /\ run[s].queue = {}
  BY DEF ResolveMissing
<1>4. /\ run'[s].pc = "resolvedEvents" /\ run'[s].todo = run[s].todo /\ run'[s].found = run[s].found
  BY <1>1, <1>2 DEF Run
<1>5. ASSUME NEW f \in Finding, AssetOf[f] \notin Unfinished(s)'
      PROVE  SettledRow(s, f)'
  <2>1. CASE AssetOf[f] # run[s].asset
    <3>1. AssetOf[f] \notin Unfinished(s) /\ f \notin missing
      BY <1>2, <1>4, <1>5, <2>1 DEF Unfinished, Missing, FindingsOf
    <3>2. SettledRow(s, f)
      BY <1>3, <3>1 DEF Alone
    <3> QED
      BY <1>2, <1>4, <3>1, <3>2 DEF SettledRow
  <2>2. CASE AssetOf[f] = run[s].asset
    <3>1. f \in run[s].found <=> f \in run[s].kept
      BY <1>3, <2>2 DEF Alone, FindingsOf
    <3>2. f \in run[s].kept => rows[f].status \in OpenStatus \cup Suppressed
      BY <1>3 DEF Alone
    <3>3. f \in missing <=> f \notin run[s].kept /\ rows[f].status \in OpenStatus
      BY <1>2, <2>2 DEF Missing, FindingsOf
    <3>4. CASE f \in missing
      <4>1. rows'[f].status = "resolved"
        BY <1>1, <1>2, <3>4, ResolvedRow
      <4> QED
        BY <1>4, <3>1, <3>3, <3>4, <4>1 DEF SettledRow, OpenStatus
    <3>5. CASE f \notin missing
      <4>1. rows'[f] = rows[f]
        BY <1>2, <3>5
      <4> QED
        BY <1>4, <3>1, <3>2, <3>3, <3>5, <4>1 DEF SettledRow
    <3> QED
      BY <3>4, <3>5
  <2> QED
    BY <2>1, <2>2
<1> QED
  BY <1>4, <1>5 DEF Alone

(* A command that takes a step has begun.                                  *)
LEMMA MoverBegan ==
    ASSUME TypeInv, NEW t \in Scan, Start(t) \/ RunStep(t) \/ Crash(t)
    PROVE  run'[t].pc # "idle" /\ triage' = triage
<1>1. run \in [Scan -> Run] /\ run[t] \in Run
  BY DEF TypeInv, TypeOK
<1>2. CASE Start(t)
  BY <1>1, <1>2 DEF Start, Run
<1>3. CASE Evaluate(t)
  BY <1>1, <1>3 DEF Evaluate, Run
<1>4. CASE Persist(t)
  BY <1>4, PersistMemory DEF TypeInv, Persist
<1>5. CASE SkipAsset(t) \/ Finish(t)
  BY <1>1, <1>5 DEF SkipAsset, Finish, Run
<1>11. CASE PersistFails(t)
  <2>1. PICK q, g : run' = [run EXCEPT ![t].queue = q, ![t].found = g]
    BY <1>11 DEF PersistFails
  <2>2. run'[t].pc = run[t].pc
    BY <1>1, <2>1 DEF Run
  <2> QED
    BY <1>11, <2>2 DEF PersistFails
<1>6. CASE Transition(t)
  BY <1>1, <1>6 DEF Transition, Run
<1>7. CASE ResolveMissing(t)
  BY <1>1, <1>7 DEF ResolveMissing, Run
<1>8. CASE TransitionFails(t) \/ ResolveMissingFails(t)
  <2>1. PICK pc, r : /\ pc \in {"reopenedEvent", "assets"}
                     /\ \/ run' = [run EXCEPT ![t].pc = pc, ![t].to = r]
                        \/ run' = [run EXCEPT ![t].pc = pc, ![t].asset = r]
    BY <1>8 DEF TransitionFails, ResolveMissingFails
  <2>2. triage' = triage
    BY <1>8 DEF TransitionFails, ResolveMissingFails
  <2> QED
    BY <1>1, <2>1, <2>2 DEF Run
<1>10. CASE RecordTransition(t)
  BY <1>1, <1>10 DEF RecordTransition, Run
<1>9. CASE RecordResolved(t) \/ NextAsset(t) \/ Crash(t)
  BY <1>1, <1>9 DEF RecordResolved, NextAsset, Crash, Run
<1> QED
  BY <1>2, <1>3, <1>4, <1>5, <1>6, <1>7, <1>8, <1>9, <1>10, <1>11 DEF RunStep

(* After a run that nobody interfered with, the open findings are those it *)
(* reported and could store, whatever the table held before, whichever     *)
(* detectors or upserts failed; only an asset whose evidence could not be  *)
(* read, a ResolveMissing or a reopening that failed may spoil that.       *)
THEOREM OpenIsDetected == ASSUME LosesNoAsset PROVE Spec => []OpenMeansDetected
<1>1. Init => AloneInv
  BY DEF Init, IdleRun, AloneInv, Alone
<1>2. TypeInv /\ AccountInv /\ AloneInv /\ [Next]_vars => AloneInv'
  <2> SUFFICES ASSUME TypeInv, AccountInv, AloneInv, [Next]_vars, NEW s \in Scan, Undisturbed(s)'
               PROVE  Alone(s)'
    BY DEF AloneInv
  <2>1. CASE \E t \in Scan : Start(t) \/ RunStep(t) \/ Crash(t)
    <3>1. PICK t \in Scan : Start(t) \/ RunStep(t) \/ Crash(t)
      BY <2>1
    <3>2. t = s
      BY <3>1, MoverBegan DEF Undisturbed
    <3>3. Alone(s)
      BY <3>1, <3>2, MoverBegan, MemoryOfOthers DEF Undisturbed, AloneInv
    <3>4. ~SkipAsset(s) /\ ~TransitionFails(s) /\ ~ResolveMissingFails(s)
      BY LosesNoAsset DEF LosesNoAsset, SkipAsset, TransitionFails, ResolveMissingFails
    <3> QED
      BY LosesNoAsset, <3>1, <3>2, <3>3, <3>4, AloneReads, AlonePersists, AloneReopens, AloneResolves DEF RunStep
  <2>2. CASE AnalystStep
    <3>1. triage' # 0 \/ UNCHANGED <<rows, run, triage>>
      BY <2>2 DEF AnalystStep, UpdateStatus, OverrideSeverity, RecordOverride, TypeInv, TypeOK
    <3>2. UNCHANGED <<rows, run, triage>>
      BY <3>1 DEF Undisturbed
    <3> QED
      BY <3>2 DEF AloneInv, Undisturbed, Alone, Unfinished, SettledRow
  <2>3. CASE UNCHANGED vars
    BY <2>3 DEF vars, AloneInv, Undisturbed, Alone, Unfinished, SettledRow
  <2> QED
    BY <2>1, <2>2, <2>3 DEF Next
<1>3. AloneInv => OpenMeansDetected
  <2> SUFFICES ASSUME AloneInv, NEW s \in Scan, run[s].pc = "done", Undisturbed(s), NEW f \in Finding
               PROVE  SettledRow(s, f)
    BY DEF OpenMeansDetected, Undisturbed, SettledRow
  <2>1. AssetOf[f] \notin Unfinished(s)
    BY DEF AloneInv, Alone, Unfinished
  <2> QED
    BY <2>1 DEF AloneInv, Alone
<1>4. Spec => []AccountInv
  BY AccountInvariant
<1> QED
  BY <1>1, <1>2, <1>3, <1>4, TypeInvariant, PTL DEF Spec
=============================================================================
