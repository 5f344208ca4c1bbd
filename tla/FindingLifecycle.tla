-------------------------- MODULE FindingLifecycle --------------------------
(***************************************************************************)
(* The findings subsystem: detection runs (internal/service/detection) and *)
(* analysts (Service.UpdateStatus, Service.OverrideSeverity) sharing the   *)
(* tables `findings` and `finding_events`.  Every run is a CLI process of  *)
(* its own; nothing orders runs and analysts except PostgreSQL, which      *)
(* makes each statement (and the transaction around an upsert) atomic.     *)
(* One action is one statement or transaction, so everything a run does    *)
(* between two statements may interleave with every other actor.           *)
(*                                                                         *)
(* A definition named X_Y, before X, is X with the mistake Y: the check of *)
(* the properties substitutes it for X and expects a counterexample.       *)
(***************************************************************************)
EXTENDS Naturals, FiniteSets

CONSTANTS
    Finding,     \* identity keys: (target, asset, endpoint?, detector)
    Asset,       \* the detectable assets of the target
    AssetOf,     \* the asset a finding belongs to
    Detector,
    DetectorOf,  \* the detector a finding comes from
    Scan,        \* detection runs, named by their scan id
    Severity,
    Selections,  \* detector sets a run may have active (mode, registry, config)
    Faults,      \* the failures this instance admits
    MaxTriage,   \* bound: analyst operations in a behaviour
    Serial,      \* TRUE: operators never overlap two commands
    NONE

FaultKinds == {"read", "detector", "persist", "status", "event", "resolve", "crash"}

-----------------------------------------------------------------------------
(* The vocabulary of internal/domain/finding and internal/detection.       *)

Absent == "absent"  \* no row with this identity key
OpenStatus == {"open", "reopened"}
Suppressed == {"accepted_risk", "false_positive"}
Status == OpenStatus \cup Suppressed \cup {"resolved"}

Analyst == "analyst"

ASSUME LifecycleAssumption ==
    /\ AssetOf \in [Finding -> Asset]
    /\ DetectorOf \in [Finding -> Detector]
    /\ Selections \subseteq SUBSET Detector
    /\ Faults \subseteq FaultKinds
    /\ MaxTriage \in Nat
    /\ Serial \in BOOLEAN
    /\ Severity # {}
    /\ Analyst \notin Scan
    /\ NONE \notin Finding \cup Scan \cup Severity \cup Asset \cup Status

EventType == {"finding_opened", "finding_updated", "finding_resolved",
              "finding_reopened", "finding_severity_overridden"}

NextStatus_NotSticky(previous, detected) ==
    CASE previous = "resolved" -> IF detected THEN "reopened" ELSE "resolved"
      [] OTHER -> IF detected THEN "open" ELSE "resolved"

NextStatus_NeverReopened(previous, detected) ==
    CASE previous \in OpenStatus -> IF detected THEN previous ELSE "resolved"
      [] previous = Absent -> "open"
      [] OTHER -> previous

(* detection.NextStatus: the status an identity takes once a run has or    *)
(* has not detected it again.                                              *)
NextStatus(previous, detected) ==
    CASE previous = Absent -> "open"
      [] previous = "resolved" -> IF detected THEN "reopened" ELSE "resolved"
      [] previous \in OpenStatus -> IF detected THEN previous ELSE "resolved"
      [] previous \in Suppressed -> previous

(* detection.ClassifyChange: the name of that change; NONE when nothing is *)
(* worth recording.                                                        *)
ClassifyChange(previous, detected, created) ==
    CASE previous = Absent -> IF detected THEN "new" ELSE NONE
      [] previous = "resolved" -> IF detected THEN "reopened" ELSE NONE
      [] previous \in OpenStatus -> IF ~detected THEN "resolved"
                                    ELSE IF created THEN "new" ELSE "persisting"
      [] previous \in Suppressed -> NONE

(* eventTypeFor (persist.go).                                              *)
EventTypeFor(change) ==
    CASE change = "new" -> "finding_opened"
      [] change = "reopened" -> "finding_reopened"
      [] change = "resolved" -> "finding_resolved"
      [] OTHER -> "finding_updated"

-----------------------------------------------------------------------------
VARIABLES
    rows,      \* the findings table
    events,    \* the finding_events table
    run,       \* the local state of every detection run
    pending,   \* severity overrides whose audit event is not yet written
    triage,    \* analyst operations so far
    decision,  \* history: the last status an analyst set
    changes    \* history: the status changes actually made, and by whom

vars == <<rows, events, run, pending, triage, decision, changes>>

Row == [status: Status \cup {Absent},
        reason: BOOLEAN,          \* suppression_reason is not blank
        resolvedAt: BOOLEAN,      \* resolved_at is not NULL
        severity: Severity, detectorSeverity: Severity, overridden: BOOLEAN]

Event == [finding: Finding, scan: Scan \cup {NONE}, type: EventType,
          from: Status \cup {NONE}, to: Status]

Change == [by: Scan \cup {Analyst}, finding: Finding, from: Status \cup {Absent}, to: Status]

PC == {"idle", "assets", "persist", "transition", "reopenedEvent",
       "resolvedEvents", "done", "crashed"}

Run == [pc: PC, active: SUBSET Detector, todo: SUBSET Asset, asset: Asset \cup {NONE},
        found: SUBSET Finding,     \* history: reported, and not given up
        queue: SUBSET Finding,     \* reported, not yet persisted
        kept: SUBSET Finding,      \* currentIDs: persisted, for this asset
        fresh: SUBSET Finding,     \* created by this run (ChangeNew)
        gone: SUBSET Finding,      \* resolved, event not yet recorded
        cur: Finding \cup {NONE}, prev: Status \cup {NONE}, to: Status \cup {NONE}]

IdleRun == [pc |-> "idle", active |-> {}, todo |-> {}, asset |-> NONE,
            found |-> {}, queue |-> {}, kept |-> {},
            fresh |-> {}, gone |-> {}, cur |-> NONE, prev |-> NONE, to |-> NONE]

FindingsOf(a) == {f \in Finding : AssetOf[f] = a}
Running(s) == run[s].pc \notin {"idle", "done", "crashed"}
Quiet == ~Serial \/ \A s \in Scan : ~Running(s)

(* A table an earlier history may have left: any status, with the stamps   *)
(* and the severity that belong to it.                                     *)
EarlierRow(row) ==
    /\ row.resolvedAt = (row.status = "resolved")
    /\ row.reason = (row.status \in Suppressed)
    /\ row.severity = row.detectorSeverity
    /\ ~row.overridden

Init ==
    /\ rows \in [Finding -> {row \in Row : EarlierRow(row)}]
    /\ events = {}
    /\ run = [s \in Scan |-> IdleRun]
    /\ pending = {}
    /\ triage = 0
    /\ decision = [f \in Finding |->
                     IF rows[f].status \in Suppressed THEN rows[f].status ELSE NONE]
    /\ changes = {}

-----------------------------------------------------------------------------
(* Statements of internal/repository/finding.                              *)

Upserted_KeepsSeverity(row, severity) ==
    IF row.status = Absent
    THEN [status |-> "open", reason |-> FALSE, resolvedAt |-> FALSE,
          severity |-> severity, detectorSeverity |-> severity, overridden |-> FALSE]
    ELSE [row EXCEPT !.detectorSeverity = severity]

(* INSERT ... ON CONFLICT (identity_key) DO UPDATE: status, reason and     *)
(* resolved_at of an existing row stay; an active override keeps severity. *)
Upserted(row, severity) ==
    IF row.status = Absent
    THEN [status |-> "open", reason |-> FALSE, resolvedAt |-> FALSE,
          severity |-> severity, detectorSeverity |-> severity, overridden |-> FALSE]
    ELSE [row EXCEPT !.detectorSeverity = severity,
                     !.severity = IF row.overridden THEN row.severity ELSE severity]

(* UPDATE findings SET status, suppression_reason, resolved_at WHERE id:   *)
(* whatever the status is by now.                                          *)
WithStatus(row, status, reason) ==
    [row EXCEPT !.status = status, !.reason = reason, !.resolvedAt = (status = "resolved")]

Missing_AnyStatus(a, kept) == FindingsOf(a) \ kept

Missing_Redetected(a, kept) == {f \in FindingsOf(a) : rows[f].status \in OpenStatus}

(* The rows ResolveMissing's WHERE clause selects.                         *)
Missing(a, kept) ==
    {f \in FindingsOf(a) \ kept : rows[f].status \in OpenStatus}

(* UPDATE findings SET status = 'resolved', resolved_at = now().           *)
Resolved(row) == [row EXCEPT !.status = "resolved", !.resolvedAt = TRUE]

(* UPDATE findings SET severity = COALESCE($2, detector_severity), ...     *)
WithOverride(row, severity) ==
    [row EXCEPT !.severity = IF severity = NONE THEN row.detectorSeverity ELSE severity,
                !.overridden = severity # NONE]

ChangedBy(who, f, to) ==
    IF rows[f].status = to THEN {}
    ELSE {[by |-> who, finding |-> f, from |-> rows[f].status, to |-> to]}

-----------------------------------------------------------------------------
(* A detection run: Service.Run, analyzeAsset, persistFinding.             *)

(* Run's loop over the target's assets begins, under some selection of     *)
(* detectors (registry.Active(mode) and Config.DetectorEnabled).           *)
Start(s) ==
    /\ run[s].pc = "idle"
    /\ Quiet
    /\ \E active \in Selections :
          run' = [run EXCEPT ![s].pc = "assets", ![s].active = active, ![s].todo = Asset]
    /\ UNCHANGED <<rows, events, pending, triage, decision, changes>>

Remaining_SamePage(s, a) == run[s].todo

(* The assets still to come once a has been taken from the page.           *)
Remaining(s, a) == run[s].todo \ {a}

(* buildInput cannot read the asset's evidence: Run logs it and goes on.   *)
SkipAsset(s) ==
    /\ "read" \in Faults
    /\ run[s].pc = "assets"
    /\ \E a \in run[s].todo : run' = [run EXCEPT ![s].todo = Remaining(s, a)]
    /\ UNCHANGED <<rows, events, pending, triage, decision, changes>>

(* analyzeAsset reads the asset's evidence and calls Engine.Evaluate; a    *)
(* detector that fails contributes an error and no findings.               *)
Evaluate(s) ==
    /\ run[s].pc = "assets"
    /\ \E a \in run[s].todo, ran \in SUBSET run[s].active :
          /\ "detector" \notin Faults => ran = run[s].active
          /\ \E found \in SUBSET {f \in FindingsOf(a) : DetectorOf[f] \in ran} :
                run' = [run EXCEPT ![s] =
                          [@ EXCEPT !.pc = "persist", !.todo = Remaining(s, a), !.asset = a,
                                    !.found = run[s].found \cup found, !.queue = found,
                                    !.kept = {}]]
    /\ UNCHANGED <<rows, events, pending, triage, decision, changes>>

(* Every asset has been analyzed.                                          *)
Finish(s) ==
    /\ run[s].pc = "assets"
    /\ run[s].todo = {}
    /\ run' = [run EXCEPT ![s].pc = "done", ![s].asset = NONE]
    /\ UNCHANGED <<rows, events, pending, triage, decision, changes>>

(* persistFinding's transaction: upsert and evidence, all or nothing.  The *)
(* status it returns is kept in the run and decides what follows.          *)
Persist(s) ==
    /\ run[s].pc = "persist"
    /\ \E f \in run[s].queue, severity \in Severity :
          LET row      == Upserted(rows[f], severity)
              created  == rows[f].status = Absent
              settled  == NextStatus(row.status, TRUE) = row.status
          IN /\ rows' = [rows EXCEPT ![f] = row]
             /\ changes' = changes \cup ChangedBy(s, f, row.status)
             /\ run' = [run EXCEPT ![s] =
                  [@ EXCEPT !.queue = run[s].queue \ {f}, !.kept = run[s].kept \cup {f},
                            !.fresh = IF created THEN run[s].fresh \cup {f} ELSE run[s].fresh,
                            !.pc   = IF settled THEN "persist" ELSE "transition",
                            !.cur  = IF settled THEN NONE ELSE f,
                            !.prev = IF settled THEN NONE ELSE row.status]]
    /\ UNCHANGED <<events, pending, triage, decision>>

(* The transaction fails: logged, and the finding is left out of currentIDs. *)
PersistFails(s) ==
    /\ "persist" \in Faults
    /\ run[s].pc = "persist"
    /\ \E f \in run[s].queue :
          run' = [run EXCEPT ![s].queue = @ \ {f}, ![s].found = @ \ {f}]
    /\ UNCHANGED <<rows, events, pending, triage, decision, changes>>

(* UpdateStatus(id, NextStatus(previous, true), ""): outside the           *)
(* transaction, without looking at the row's status again.                 *)
Transition(s) ==
    /\ run[s].pc = "transition"
    /\ LET f  == run[s].cur
           to == NextStatus(run[s].prev, TRUE)
       IN /\ rows' = [rows EXCEPT ![f] = WithStatus(@, to, FALSE)]
          /\ changes' = changes \cup ChangedBy(s, f, to)
          /\ run' = [run EXCEPT ![s].pc = "reopenedEvent", ![s].to = to]
    /\ UNCHANGED <<events, pending, triage, decision>>

(* It fails: logged, and the event below is recorded all the same.         *)
TransitionFails(s) ==
    /\ "status" \in Faults
    /\ run[s].pc = "transition"
    /\ run' = [run EXCEPT ![s].pc = "reopenedEvent", ![s].to = run[s].prev]
    /\ UNCHANGED <<rows, events, pending, triage, decision, changes>>

(* recordEvent after the transition; best effort.                          *)
RecordTransition(s) ==
    /\ run[s].pc = "reopenedEvent"
    /\ LET e == [finding |-> run[s].cur, scan |-> s,
                 type |-> EventTypeFor(ClassifyChange(run[s].prev, TRUE, FALSE)),
                 from |-> run[s].prev, to |-> run[s].to]
       IN \/ events' = events \cup {e}
          \/ "event" \in Faults /\ UNCHANGED events
    /\ run' = [run EXCEPT ![s] = [@ EXCEPT !.pc = "persist", !.cur = NONE,
                                            !.prev = NONE, !.to = NONE]]
    /\ UNCHANGED <<rows, pending, triage, decision, changes>>

(* Every reported finding has been handled: ResolveMissing, one UPDATE.    *)
ResolveMissing(s) ==
    /\ run[s].pc = "persist"
    /\ run[s].queue = {}
    /\ LET missing == Missing(run[s].asset, run[s].kept)
       IN /\ rows' = [f \in Finding |-> IF f \in missing THEN Resolved(rows[f]) ELSE rows[f]]
          /\ changes' = changes \cup UNION {ChangedBy(s, f, "resolved") : f \in missing}
          /\ run' = [run EXCEPT ![s].pc = "resolvedEvents", ![s].gone = missing]
    /\ UNCHANGED <<events, pending, triage, decision>>

(* It fails: analyzeAsset returns the error, Run logs it and goes on with  *)
(* the next asset.                                                         *)
ResolveMissingFails(s) ==
    /\ "resolve" \in Faults
    /\ run[s].pc = "persist"
    /\ run[s].queue = {}
    /\ run' = [run EXCEPT ![s].pc = "assets", ![s].asset = NONE]
    /\ UNCHANGED <<rows, events, pending, triage, decision, changes>>

(* recordEvent(finding_resolved) for every row ResolveMissing returned.    *)
RecordResolved(s) ==
    /\ run[s].pc = "resolvedEvents"
    /\ \E f \in run[s].gone :
          /\ run' = [run EXCEPT ![s].gone = @ \ {f}]
          /\ LET e == [finding |-> f, scan |-> s, type |-> "finding_resolved",
                       from |-> NONE, to |-> "resolved"]
             IN \/ events' = events \cup {e}
                \/ "event" \in Faults /\ UNCHANGED events
    /\ UNCHANGED <<rows, pending, triage, decision, changes>>

NextAsset(s) ==
    /\ run[s].pc = "resolvedEvents"
    /\ run[s].gone = {}
    /\ run' = [run EXCEPT ![s].pc = "assets", ![s].asset = NONE]
    /\ UNCHANGED <<rows, events, pending, triage, decision, changes>>

(* The process dies: what it had written stays, the rest never happens.    *)
Crash(s) ==
    /\ "crash" \in Faults
    /\ Running(s)
    /\ run' = [run EXCEPT ![s].pc = "crashed"]
    /\ UNCHANGED <<rows, events, pending, triage, decision, changes>>

-----------------------------------------------------------------------------
(* Analysts.                                                               *)

(* Service.UpdateStatus: any status, unconditionally; the table's CHECK    *)
(* refuses a suppression without a reason.  No event is written.           *)
UpdateStatus(f, status, reason) ==
    /\ triage < MaxTriage
    /\ Quiet
    /\ rows[f].status # Absent
    /\ status \in Suppressed => reason
    /\ rows' = [rows EXCEPT ![f] = WithStatus(@, status, reason)]
    /\ changes' = changes \cup ChangedBy(Analyst, f, status)
    /\ decision' = [decision EXCEPT ![f] = status]
    /\ triage' = triage + 1
    /\ UNCHANGED <<events, run, pending>>

(* Service.OverrideSeverity: severity NONE clears the override.  The event *)
(* follows in a second statement, and only when a reason was given.        *)
OverrideSeverity(f, severity, reason) ==
    /\ triage < MaxTriage
    /\ Quiet
    /\ rows[f].status # Absent
    /\ rows' = [rows EXCEPT ![f] = WithOverride(@, severity)]
    /\ pending' = IF reason
                  THEN pending \cup {[finding |-> f, scan |-> NONE,
                          type |-> "finding_severity_overridden",
                          from |-> NONE, to |-> rows[f].status]}
                  ELSE pending
    /\ triage' = triage + 1
    /\ UNCHANGED <<events, run, decision, changes>>

RecordOverride(e) ==
    /\ pending' = pending \ {e}
    /\ \/ events' = events \cup {e}
       \/ "event" \in Faults /\ UNCHANGED events
    /\ UNCHANGED <<rows, run, triage, decision, changes>>

-----------------------------------------------------------------------------
RunStep(s) ==
    \/ SkipAsset(s) \/ Evaluate(s) \/ Finish(s)
    \/ Persist(s) \/ PersistFails(s)
    \/ Transition(s) \/ TransitionFails(s) \/ RecordTransition(s)
    \/ ResolveMissing(s) \/ ResolveMissingFails(s) \/ RecordResolved(s) \/ NextAsset(s)

AnalystStep ==
    \/ \E f \in Finding, status \in Status, reason \in BOOLEAN : UpdateStatus(f, status, reason)
    \/ \E f \in Finding, severity \in Severity \cup {NONE}, reason \in BOOLEAN :
          OverrideSeverity(f, severity, reason)
    \/ \E e \in pending : RecordOverride(e)

Next ==
    \/ \E s \in Scan : Start(s) \/ RunStep(s) \/ Crash(s)
    \/ AnalystStep

Spec == Init /\ [][Next]_vars

(* A started run is an ordinary loop in a live process: it keeps taking    *)
(* steps unless it crashes.  Nobody has to start a run or triage anything. *)
FairSpec == Spec /\ \A s \in Scan : WF_vars(RunStep(s))

-----------------------------------------------------------------------------
(* What a reader of the tables relies on.                                  *)

(* Rows, events and run states stay within the values their columns and    *)
(* types admit (the CHECK constraints of migration 000008).                *)
TypeOK ==
    /\ rows \in [Finding -> Row]
    /\ events \subseteq Event
    /\ run \in [Scan -> Run]
    /\ pending \subseteq Event
    /\ triage \in 0..MaxTriage
    /\ decision \in [Finding -> Status \cup {NONE}]
    /\ changes \subseteq Change

(* resolved_at is set exactly on resolved findings, whichever of the three *)
(* writers (upsert, status update, ResolveMissing) touched the row last.   *)
ResolvedStamp ==
    \A f \in Finding : rows[f].resolvedAt <=> rows[f].status = "resolved"

(* Unless an override is active the effective severity is the detector's   *)
(* latest, however upserts and overrides interleave.                       *)
SeverityTracksDetector ==
    \A f \in Finding : rows[f].overridden \/ rows[f].severity = rows[f].detectorSeverity

(* A finding_resolved event of a run tells the truth: that run did resolve *)
(* that finding, also when several runs and analysts race for the row.     *)
ResolvedEventBacked ==
    \A e \in events : e.type = "finding_resolved" =>
        \E c \in changes : c.by = e.scan /\ c.finding = e.finding /\ c.to = "resolved"

(* A finding_reopened event of a run names a reopening that run made.      *)
ReopenedEventBacked ==
    \A e \in events : e.type = "finding_reopened" =>
        [by |-> e.scan, finding |-> e.finding, from |-> "resolved", to |-> "reopened"] \in changes

(* A run never resolves a finding its own detectors have just reported,    *)
(* whatever other runs and analysts do to the row in between; the only     *)
(* ones it may lose are those whose upsert failed.                         *)
DetectedNeverResolved ==
    \A c \in changes : c.to = "resolved" /\ c.by \in Scan => c.finding \notin run[c.by].found

(* After a run that nobody interfered with, the open findings are those it *)
(* reported and could store, less the suppressed ones: nothing stale stays *)
(* open, nothing reported stays resolved.                                  *)
OpenMeansDetected ==
    \A s \in Scan :
        /\ run[s].pc = "done"
        /\ triage = 0
        /\ \A t \in Scan \ {s} : run[t].pc = "idle"
        => \A f \in Finding : rows[f].status \notin Suppressed =>
              (rows[f].status \in OpenStatus <=> f \in run[s].found)

(* A suppression an analyst decided stays in force until an analyst        *)
(* changes it: no detection run undoes it.                                 *)
StickyDecision ==
    \A f \in Finding : decision[f] \in Suppressed => rows[f].status = decision[f]

(* A step that takes a finding out of suppression is an analyst's, or the  *)
(* late reopening of a run that read the row before it was suppressed.     *)
OnlyStaleReopenUnsuppresses ==
    [][\A f \in Finding :
          rows[f].status \in Suppressed /\ rows'[f].status # rows[f].status =>
             \/ triage' # triage
             \/ \E s \in Scan : run[s].pc = "transition" /\ run[s].cur = f
                                /\ run[s].prev = "resolved" /\ rows'[f].status = "reopened"]_vars

(* An active override changes only by an analyst's hand: no upsert of any  *)
(* run, however often repeated, touches the severity it set.               *)
OverrideSurvivesScans ==
    [][\A f \in Finding : rows[f].overridden /\ triage' = triage =>
          rows'[f].overridden /\ rows'[f].severity = rows[f].severity]_vars

(* Every run that starts ends, by finishing its assets or by crashing.     *)
RunsEnd == \A s \in Scan : Running(s) ~> ~Running(s)

(* What the detected and the suppressed finding go through, without runs.  *)
Policy == INSTANCE FindingPolicy WITH status <- [f \in Finding |-> rows[f].status]

(* As long as commands do not overlap, runs and analysts together behave   *)
(* as the lifecycle rules say.                                             *)
LifecyclePolicy == Policy!Spec
=============================================================================
