---------------------- MODULE NetworkDiscovery_proofs ----------------------
(***************************************************************************)
(* What holds of network discovery and of the inventory it writes, for     *)
(* every set of runs, hosts and ports and every size of the pool: the      *)
(* proofs of the invariants of NetworkDiscovery and AssetStore.            *)
(***************************************************************************)
EXTENDS NetworkDiscovery, FiniteSetTheorems, WellFoundedInduction, NaturalsInduction, TLAPS

(* What a step of a run may rely on, one part for each thing it hands on.  *)

(* The window and the evidence of an asset answer for what was committed.  *)
StoreInv ==
    /\ WindowExact
    /\ EvidenceBacked
    /\ \A a \in Asset : seen[a] # {} => Known(a)

SlotInv(r) == run[r].sem = Cardinality(Holding(r))

(* Which goroutines there are, and how far they can be, at each stage of a *)
(* run; a goroutine has written its slot exactly when it has returned.     *)
PoolInv(r) ==
    /\ run[r].pc \in {"idle", "refused", "admitted", "crashed"} =>
          \A j \in Job : worker[r][j] = "none"
    /\ run[r].pc \in {"persisting", "done"} =>
          \A j \in JobsOf[r] : worker[r][j] = "finished"
    /\ \A j \in Job : worker[r][j] # "none" => j \in JobsOf[r]
    /\ \A j \in Job : (worker[r][j] = "finished") <=> (results[r][j] # Unset)

Stored(r, j) ==
    /\ [at |-> results[r][j].at, by |-> r] \in seen[j]
    /\ results[r][j].data \in evidence[j]

(* Every open port of a joined pool is still to be persisted, or lost with *)
(* its own transaction, or in the inventory.                               *)
PersistInv(r) ==
    /\ run[r].pc # "persisting" => run[r].pending = {}
    /\ \A j \in run[r].pending : results[r][j].state = "open"
    /\ run[r].pc \in {"persisting", "done"} => \A j \in Job :
          results[r][j].state = "open" => j \in run[r].pending \cup lost[r] \/ Stored(r, j)

GrantInv(r) ==
    /\ run[r].pc = "idle" => granted[r] = None
    /\ run[r].pc \in {"admitted", "scanning", "persisting", "done"} =>
          granted[r] = "AUTHORIZED"

RunInv(r) == SlotInv(r) /\ PoolInv(r) /\ PersistInv(r) /\ GrantInv(r)

(* Who wrote to the inventory was admitted, and has not been idle since.   *)
WriterInv == \A a \in Asset : Known(a) =>
    /\ run[assets[a].metadata].pc # "idle"
    /\ granted[assets[a].metadata] = "AUTHORIZED"

DiscoveryInv ==
    /\ TypeOK
    /\ StoreInv
    /\ WriterInv
    /\ \A r \in Run : RunInv(r)
-----------------------------------------------------------------------------
(* The store.                                                              *)

USE StoreAssumption, DiscoveryAssumption

LEMMA RowIsKnown == NoAsset \notin Row
BY DEF NoAsset, Row

LEMMA UpsertResult ==
    ASSUME NEW row \in Row \cup {NoAsset}, NEW o \in Observation
    PROVE  /\ Upsert(row, o) \in Row
           /\ Upsert(row, o).metadata = o.by
           /\ row = NoAsset => /\ Upsert(row, o).first = o.at
                               /\ Upsert(row, o).last = o.at
           /\ row # NoAsset =>
                 /\ Upsert(row, o).first = IF o.at < row.first THEN o.at ELSE row.first
                 /\ Upsert(row, o).last = IF o.at > row.last THEN o.at ELSE row.last
<1>1. o.at \in 1..MaxTime /\ o.by \in Run
  BY DEF Observation
<1>2. CASE row = NoAsset
  BY <1>1, <1>2 DEF Upsert, Row, AssetStatus
<1>3. CASE row # NoAsset
  <2>1. row \in Row
    BY <1>3
  <2> QED
    BY <1>1, <1>3, <2>1 DEF Upsert, Row
<1> QED
  BY <1>2, <1>3

(* What one transaction does to the inventory.                             *)
LEMMA ObservationStored ==
    ASSUME StoreTypeOK, StoreInv, NEW a \in Asset, NEW o \in Observation,
           RecordObservation(a, o)
    PROVE  /\ StoreTypeOK' /\ StoreInv'
           /\ \A b \in Asset : seen[b] \subseteq seen'[b] /\ evidence[b] \subseteq evidence'[b]
           /\ [at |-> o.at, by |-> o.by] \in seen'[a] /\ o.data \in evidence'[a]
           /\ assets'[a].metadata = o.by
           /\ \A b \in Asset \ {a} : assets'[b] = assets[b]
<1>1. o.at \in 1..MaxTime /\ o.by \in Run /\ o.data \in Data
  BY DEF Observation
<1>2. PICK row : row = assets[a]
  OBVIOUS
<1>3. row \in Row \cup {NoAsset}
  BY <1>2 DEF StoreTypeOK
<1>4. PICK new : new = Upsert(row, o)
  OBVIOUS
<1>5. /\ new \in Row /\ new # NoAsset
      /\ new.metadata = o.by
      /\ row = NoAsset => new.first = o.at /\ new.last = o.at
      /\ row # NoAsset =>
            /\ new.first = IF o.at < row.first THEN o.at ELSE row.first
            /\ new.last = IF o.at > row.last THEN o.at ELSE row.last
  BY <1>3, <1>4, UpsertResult, RowIsKnown
<1>6. assets' = [assets EXCEPT ![a] = new]
  BY <1>2, <1>4 DEF RecordObservation
<1>7. assets'[a] = new /\ \A b \in Asset \ {a} : assets'[b] = assets[b]
  BY <1>6 DEF StoreTypeOK
<1>8. PICK mark : mark = [at |-> o.at, by |-> o.by]
  OBVIOUS
<1>9. mark \in [at: 1..MaxTime, by: Run] /\ mark.at = o.at
  BY <1>1, <1>8
<1>10. seen' = [seen EXCEPT ![a] = @ \cup {mark}]
  BY <1>8 DEF RecordObservation
<1>11. /\ seen'[a] = seen[a] \cup {mark}
       /\ \A b \in Asset \ {a} : seen'[b] = seen[b]
  BY <1>10 DEF StoreTypeOK
<1>12. /\ evidence'[a] = evidence[a] \cup {o.data}
       /\ \A b \in Asset \ {a} : evidence'[b] = evidence[b]
  BY DEF RecordObservation, CreateEvidence, StoreTypeOK
<1>13. StoreTypeOK'
  <2>1. assets' \in [Asset -> Row \cup {NoAsset}]
    BY <1>5, <1>6 DEF StoreTypeOK
  <2>2. evidence' \in [Asset -> SUBSET Data]
    BY <1>1 DEF RecordObservation, CreateEvidence, StoreTypeOK
  <2>3. seen' \in [Asset -> SUBSET [at: 1..MaxTime, by: Run]]
    BY <1>9, <1>10 DEF StoreTypeOK
  <2> QED
    BY <2>1, <2>2, <2>3 DEF StoreTypeOK
<1>14. WindowExact'
  <2> SUFFICES ASSUME NEW b \in Asset, assets'[b] # NoAsset
               PROVE  /\ \E p \in seen'[b] : assets'[b].first = p.at
                      /\ \E p \in seen'[b] : assets'[b].last = p.at
                      /\ \A p \in seen'[b] : assets'[b].first <= p.at /\ p.at <= assets'[b].last
    BY DEF WindowExact, Known
  <2>1. CASE b # a
    BY <1>7, <1>11, <2>1 DEF StoreInv, WindowExact, Known
  <2>2. CASE b = a /\ row = NoAsset
    <3>1. seen'[a] = {mark}
      BY <1>2, <1>11, <2>2 DEF StoreInv, Known
    <3> QED
      BY <1>1, <1>5, <1>7, <1>9, <2>2, <3>1
  <2>3. CASE b = a /\ row # NoAsset
    <3>1. /\ \E p \in seen[a] : row.first = p.at
          /\ \E p \in seen[a] : row.last = p.at
          /\ \A p \in seen[a] : row.first <= p.at /\ p.at <= row.last
      BY <1>2, <2>3 DEF StoreInv, WindowExact, Known
    <3>2. row.first \in 1..MaxTime /\ row.last \in 1..MaxTime
      BY <1>3, <2>3 DEF Row
    <3>3. \A p \in seen[a] : p.at \in 1..MaxTime
      BY DEF StoreTypeOK
    <3>4. \E p \in seen'[a] : new.first = p.at
      BY <1>5, <1>9, <1>11, <2>3, <3>1
    <3>5. \E p \in seen'[a] : new.last = p.at
      BY <1>5, <1>9, <1>11, <2>3, <3>1
    <3>6. ASSUME NEW p \in seen'[a] PROVE new.first <= p.at /\ p.at <= new.last
      <4>1. CASE p = mark
        BY <1>1, <1>5, <1>9, <2>3, <3>2, <4>1
      <4>2. CASE p \in seen[a]
        <5>1. row.first <= p.at /\ p.at <= row.last /\ p.at \in 1..MaxTime
          BY <3>1, <3>3, <4>2
        <5> QED
          BY <1>1, <1>5, <2>3, <3>2, <5>1
      <4> QED
        BY <1>11, <4>1, <4>2
    <3> QED
      BY <1>7, <2>3, <3>4, <3>5, <3>6
  <2> QED
    BY <2>1, <2>2, <2>3
<1>15. EvidenceBacked'
  <2> SUFFICES ASSUME NEW b \in Asset
               PROVE  assets'[b] # NoAsset <=> evidence'[b] # {}
    BY DEF EvidenceBacked, Known
  <2>1. CASE b # a
    BY <1>7, <1>12, <2>1 DEF StoreInv, EvidenceBacked, Known
  <2>2. CASE b = a
    BY <1>5, <1>7, <1>12, <2>2
  <2> QED
    BY <2>1, <2>2
<1>16. \A b \in Asset : seen'[b] # {} => assets'[b] # NoAsset
  BY <1>5, <1>7, <1>11 DEF StoreInv, Known
<1> QED
  BY <1>5, <1>7, <1>8, <1>11, <1>12, <1>13, <1>14, <1>15, <1>16 DEF StoreInv, Known

(* An operator's status leaves the window, the evidence and the writer.    *)
LEMMA StatusKept ==
    ASSUME StoreTypeOK, StoreInv, NEW a \in Asset, NEW status \in Lifecycle,
           UpdateStatus(a, status)
    PROVE  /\ StoreTypeOK' /\ StoreInv'
           /\ \A b \in Asset : /\ Known(b)' <=> Known(b)
                               /\ assets'[b].metadata = assets[b].metadata
<1>1. PICK row : row = assets[a]
  OBVIOUS
<1>2. row \in Row
  BY <1>1 DEF UpdateStatus, Known, StoreTypeOK
<1>3. PICK new : new = [row EXCEPT !.status = status]
  OBVIOUS
<1>4. /\ new \in Row /\ new.first = row.first /\ new.last = row.last
      /\ new.metadata = row.metadata
  BY <1>2, <1>3 DEF Row
<1>5. assets' = [assets EXCEPT ![a] = new]
  BY <1>1, <1>3 DEF UpdateStatus
<1>6. /\ assets'[a] = new /\ new # NoAsset /\ row # NoAsset
      /\ \A b \in Asset \ {a} : assets'[b] = assets[b]
      /\ evidence' = evidence /\ seen' = seen
  BY <1>2, <1>4, <1>5, RowIsKnown DEF StoreTypeOK, UpdateStatus
<1>7. \A b \in Asset : /\ assets'[b] # NoAsset <=> assets[b] # NoAsset
                        /\ assets'[b].first = assets[b].first
                        /\ assets'[b].last = assets[b].last
                        /\ assets'[b].metadata = assets[b].metadata
  BY <1>1, <1>4, <1>6
<1>8. StoreTypeOK'
  BY <1>4, <1>5, <1>6 DEF StoreTypeOK
<1>9. WindowExact'
  BY <1>6, <1>7 DEF StoreInv, WindowExact, Known
<1>10. EvidenceBacked'
  BY <1>6, <1>7 DEF StoreInv, EvidenceBacked, Known
<1> QED
  BY <1>6, <1>7, <1>8, <1>9, <1>10 DEF StoreInv, Known
-----------------------------------------------------------------------------
(* Steps in general.                                                       *)

LEMMA ResultShapes ==
    /\ \A x \in Result : x.state = "open" => x \in Open
    /\ \A x \in Open : x \in Result /\ x # Unset
    /\ Unset \in Result /\ Unset.state # "open"
    /\ \A state \in {"closed", "error"} : /\ [state |-> state] \in Result
                                        /\ [state |-> state] # Unset
<1>1. Unset.state = "unset"
  BY DEF Unset
<1>2. \A x \in Open : x.state = "open"
  BY DEF Open
<1>3. \A state \in {"closed", "error"} : [state |-> state].state = state
  OBVIOUS
<1> QED
  BY <1>1, <1>2, <1>3 DEF Result

(* A run's part of the invariant is its own but for the inventory, which   *)
(* only gains observations.                                                *)
LEMMA OtherRunKeeps ==
    ASSUME NEW q \in Run, RunInv(q), run' \in [Run -> RunState],
           run[q].pending \subseteq Job,
           run'[q] = run[q], worker'[q] = worker[q], results'[q] = results[q],
           lost'[q] = lost[q], granted'[q] = granted[q],
           \A b \in Asset : seen[b] \subseteq seen'[b] /\ evidence[b] \subseteq evidence'[b]
    PROVE  RunInv(q)'
<1>1. SlotInv(q)'
  BY DEF RunInv, SlotInv, Holding
<1>2. PoolInv(q)'
  BY DEF RunInv, PoolInv
<1>3. GrantInv(q)'
  BY DEF RunInv, GrantInv
<1>4. ASSUME NEW j \in Job, Stored(q, j) PROVE Stored(q, j)'
  BY <1>4 DEF Stored, Job
<1>5. PersistInv(q)'
  BY <1>4 DEF RunInv, PersistInv
<1> QED
  BY <1>1, <1>2, <1>3, <1>5 DEF RunInv

OthersKeep(r) == \A q \in Run \ {r} :
    /\ run'[q] = run[q] /\ worker'[q] = worker[q] /\ results'[q] = results[q]
    /\ lost'[q] = lost[q] /\ granted'[q] = granted[q]

(* A step of a run that leaves the inventory alone.                        *)
LEMMA RunStep ==
    ASSUME DiscoveryInv, NEW r \in Run, TypeOK', UNCHANGED storeVars, OthersKeep(r),
           run'[r].pc = "idle" => run[r].pc = "idle",
           run[r].pc # "idle" => granted'[r] = granted[r],
           RunInv(r)'
    PROVE  DiscoveryInv'
<1>1. assets' = assets /\ evidence' = evidence /\ seen' = seen
  BY DEF storeVars
<1>2. StoreInv'
  BY <1>1 DEF DiscoveryInv, StoreInv, WindowExact, EvidenceBacked, Known
<1>3. ASSUME NEW a \in Asset, Known(a)'
      PROVE  /\ run'[assets[a].metadata].pc # "idle"
             /\ granted'[assets[a].metadata] = "AUTHORIZED"
  <2>1. assets[a] # NoAsset /\ assets[a].metadata \in Run
    BY <1>1, <1>3 DEF Known, DiscoveryInv, TypeOK, StoreTypeOK, Row
  <2>2. PICK q \in Run : q = assets[a].metadata
    BY <2>1
  <2>3. run[q].pc # "idle" /\ granted[q] = "AUTHORIZED"
    BY <2>1, <2>2 DEF DiscoveryInv, WriterInv, Known
  <2>4. run'[q].pc # "idle" /\ granted'[q] = "AUTHORIZED"
    BY <2>3 DEF OthersKeep
  <2> QED
    BY <2>2, <2>4
<1>4. WriterInv'
  BY <1>1, <1>3 DEF WriterInv
<1>5. ASSUME NEW q \in Run PROVE RunInv(q)'
  <2>1. CASE q = r
    BY <2>1
  <2>2. CASE q # r
    <3>1. RunInv(q) /\ run[q].pending \subseteq Job
      BY DEF DiscoveryInv, TypeOK, RunState
    <3> QED
      BY <1>1, <2>2, <3>1, OtherRunKeeps DEF OthersKeep, TypeOK
  <2> QED
    BY <2>1, <2>2
<1> QED
  BY <1>2, <1>4, <1>5 DEF DiscoveryInv
-----------------------------------------------------------------------------
(* Slots.                                                                  *)

LEMMA HoldingFinite == \A r \in Run : IsFiniteSet(Holding(r)) /\ IsFiniteSet(Holding(r)')
BY FS_Subset DEF Holding, Job

LEMMA SlotTaken ==
    ASSUME TypeOK, NEW r \in Run, SlotInv(r), NEW j \in Job, worker[r][j] = "queued",
           worker' = [worker EXCEPT ![r][j] = "slotted"]
    PROVE  Cardinality(Holding(r)') = run[r].sem + 1
<1>1. worker \in [Run -> [Job -> WorkerPC]]
  BY DEF TypeOK
<1>2. Holding(r)' = Holding(r) \cup {j} /\ j \notin Holding(r)
  BY <1>1 DEF Holding
<1>3. Cardinality(Holding(r) \cup {j}) = Cardinality(Holding(r)) + 1
  BY <1>2, HoldingFinite, FS_AddElement
<1> QED
  BY <1>2, <1>3 DEF SlotInv

LEMMA SlotReturned ==
    ASSUME TypeOK, NEW r \in Run, SlotInv(r), NEW j \in Job,
           worker[r][j] \in {"slotted", "pacing", "dialing"},
           worker' = [worker EXCEPT ![r][j] = "finished"]
    PROVE  /\ Cardinality(Holding(r)') = run[r].sem - 1
           /\ run[r].sem - 1 \in 0..MaxConcurrency
<1>1. worker \in [Run -> [Job -> WorkerPC]]
  BY DEF TypeOK
<1>2. Holding(r)' = Holding(r) \ {j} /\ j \in Holding(r)
  BY <1>1 DEF Holding
<1>3. Cardinality(Holding(r)') = Cardinality(Holding(r)) - 1
  BY <1>2, HoldingFinite, FS_RemoveElement
<1>4. Cardinality(Holding(r)) \in Nat /\ Cardinality(Holding(r)') \in Nat
  BY HoldingFinite, FS_CardinalityType
<1>5. run[r].sem \in 0..MaxConcurrency
  BY DEF TypeOK, RunState
<1> QED
  BY <1>3, <1>4, <1>5 DEF SlotInv

(* A goroutine that returns, from the queue or with a slot to give back.   *)
LEMMA GoroutineReturns ==
    ASSUME DiscoveryInv, NEW r \in Run, NEW j \in Job, run[r].pc = "scanning",
           worker[r][j] \in {"queued", "slotted", "pacing", "dialing"},
           NEW x \in Result, x # Unset, Finish(r, j, x),
           NEW s \in RunState, run' = [run EXCEPT ![r] = s],
           s.pc = "scanning", s.pending = run[r].pending,
           s.sem = IF worker[r][j] = "queued" THEN run[r].sem ELSE run[r].sem - 1,
           clock' \in 0..MaxTime,
           UNCHANGED <<storeVars, authorization, lost, granted>>
    PROVE  DiscoveryInv'
<1>1. TypeOK /\ RunInv(r)
  BY DEF DiscoveryInv
<1>2. /\ worker' = [worker EXCEPT ![r][j] = "finished"]
      /\ results' = [results EXCEPT ![r][j] = x]
  BY DEF Finish
<1>3. /\ run'[r] = s
      /\ worker'[r] = [worker[r] EXCEPT ![j] = "finished"]
      /\ results'[r] = [results[r] EXCEPT ![j] = x]
  BY <1>1, <1>2 DEF TypeOK
<1>4. OthersKeep(r)
  BY <1>1, <1>2 DEF OthersKeep, TypeOK
<1>5. TypeOK'
  <2>1. /\ worker' \in [Run -> [Job -> WorkerPC]]
        /\ results' \in [Run -> [Job -> Result]]
    BY <1>1, <1>2 DEF TypeOK, WorkerPC
  <2>2. run' \in [Run -> RunState]
    BY <1>1 DEF TypeOK
  <2> QED
    BY <1>1, <2>1, <2>2 DEF TypeOK, StoreTypeOK, storeVars
<1>6. SlotInv(r)'
  <2>1. CASE worker[r][j] = "queued"
    <3>1. Holding(r)' = Holding(r)
      BY <1>1, <1>3, <2>1 DEF Holding, TypeOK
    <3> QED
      BY <1>1, <1>3, <2>1, <3>1 DEF RunInv, SlotInv
  <2>2. CASE worker[r][j] # "queued"
    <3>1. Cardinality(Holding(r)') = run[r].sem - 1
      BY <1>1, <1>2, <2>2, SlotReturned DEF RunInv
    <3> QED
      BY <1>3, <2>2, <3>1 DEF SlotInv
  <2> QED
    BY <2>1, <2>2
<1>7. PoolInv(r)'
  BY <1>1, <1>3 DEF RunInv, PoolInv, TypeOK
<1>8. PersistInv(r)'
  BY <1>1, <1>3 DEF RunInv, PersistInv
<1>9. GrantInv(r)'
  BY <1>1, <1>3 DEF RunInv, GrantInv
<1>10. UNCHANGED storeVars /\ granted' = granted /\ run'[r].pc # "idle"
  BY <1>3
<1> QED
  BY <1>4, <1>5, <1>6, <1>7, <1>8, <1>9, <1>10, RunStep DEF RunInv

(* A goroutine that goes on.                                               *)
LEMMA GoroutineGoesOn ==
    ASSUME DiscoveryInv, NEW r \in Run, NEW j \in Job, run[r].pc = "scanning",
           worker[r][j] \in {"queued", "slotted", "pacing"},
           NEW w \in {"slotted", "pacing", "dialing"},
           worker' = [worker EXCEPT ![r][j] = w], w = "slotted" <=> worker[r][j] = "queued",
           NEW s \in RunState, run' = [run EXCEPT ![r] = s],
           s.pc = "scanning", s.pending = run[r].pending,
           s.sem = IF worker[r][j] = "queued" THEN run[r].sem + 1 ELSE run[r].sem,
           UNCHANGED <<storeVars, authorization, results, clock, lost, granted>>
    PROVE  DiscoveryInv'
<1>1. TypeOK /\ RunInv(r)
  BY DEF DiscoveryInv
<1>2. /\ run'[r] = s /\ results' = results
      /\ worker'[r] = [worker[r] EXCEPT ![j] = w]
  BY <1>1 DEF TypeOK
<1>3. OthersKeep(r)
  BY <1>1 DEF OthersKeep, TypeOK
<1>4. TypeOK'
  <2>1. worker' \in [Run -> [Job -> WorkerPC]]
    BY <1>1 DEF TypeOK, WorkerPC
  <2>2. run' \in [Run -> RunState]
    BY <1>1 DEF TypeOK
  <2> QED
    BY <1>1, <2>1, <2>2 DEF TypeOK, StoreTypeOK, storeVars
<1>5. SlotInv(r)'
  <2>1. CASE worker[r][j] = "queued"
    <3>1. Cardinality(Holding(r)') = run[r].sem + 1
      BY <1>1, <2>1, SlotTaken DEF RunInv
    <3> QED
      BY <1>2, <2>1, <3>1 DEF SlotInv
  <2>2. CASE worker[r][j] # "queued"
    <3>1. Holding(r)' = Holding(r)
      BY <1>1, <1>2, <2>2 DEF Holding, TypeOK
    <3> QED
      BY <1>1, <1>2, <2>2, <3>1 DEF RunInv, SlotInv
  <2> QED
    BY <2>1, <2>2
<1>6. PoolInv(r)'
  BY <1>1, <1>2 DEF RunInv, PoolInv, TypeOK
<1>7. PersistInv(r)'
  BY <1>1, <1>2 DEF RunInv, PersistInv
<1>8. GrantInv(r)'
  BY <1>1, <1>2 DEF RunInv, GrantInv
<1>9. UNCHANGED storeVars /\ granted' = granted /\ run'[r].pc # "idle"
  BY <1>2
<1> QED
  BY <1>3, <1>4, <1>5, <1>6, <1>7, <1>8, <1>9, RunStep DEF RunInv
-----------------------------------------------------------------------------
(* The goroutines.                                                         *)

LEMMA WorkerStepPreserves ==
    ASSUME DiscoveryInv, NEW r \in Run, NEW j \in Job, WorkerStep(r, j)
    PROVE  DiscoveryInv'
<1>1. TypeOK /\ RunInv(r) /\ run[r] \in RunState /\ clock \in 0..MaxTime
  BY DEF DiscoveryInv, TypeOK
<1>2. Cancelled \in Result /\ Cancelled # Unset
  BY ResultShapes DEF Cancelled
<1>3. ASSUME worker[r][j] \in {"slotted", "pacing", "dialing"}
      PROVE  run[r].sem - 1 \in 0..MaxConcurrency
  <2>1. j \in Holding(r)
    BY <1>3 DEF Holding
  <2>2. Cardinality(Holding(r)) \in Nat /\ Cardinality(Holding(r)) # 0
    BY <2>1, HoldingFinite, FS_CardinalityType, FS_EmptySet
  <2> QED
    BY <1>1, <2>2 DEF RunInv, SlotInv, RunState
<1>4. CASE Acquire(r, j)
  <2>1. PICK s : s = [run[r] EXCEPT !.sem = run[r].sem + 1]
    OBVIOUS
  <2>2. /\ s \in RunState /\ s.pc = "scanning" /\ s.pending = run[r].pending
        /\ s.sem = run[r].sem + 1
    BY <1>1, <1>4, <2>1 DEF Acquire, HasSlot, RunState
  <2>3. run' = [run EXCEPT ![r] = s]
    BY <1>4, <2>1 DEF Acquire
  <2> QED
    BY <1>4, <2>2, <2>3, GoroutineGoesOn DEF Acquire
<1>5. CASE AbandonQueued(r, j)
  <2>1. run' = [run EXCEPT ![r] = run[r]]
    BY <1>1, <1>5 DEF AbandonQueued, DiscoveryInv, TypeOK
  <2> QED
    BY <1>1, <1>2, <1>5, <2>1, GoroutineReturns DEF AbandonQueued
<1>6. CASE CheckContext(r, j)
  <2>1. run' = [run EXCEPT ![r] = run[r]]
    BY <1>1, <1>6 DEF CheckContext, DiscoveryInv, TypeOK
  <2>2. PICK w : w = IF r \in Limited THEN "pacing" ELSE "dialing"
    OBVIOUS
  <2>3. worker' = [worker EXCEPT ![r][j] = w] /\ w \in {"pacing", "dialing"}
    BY <1>6, <2>2 DEF CheckContext
  <2> QED
    BY <1>1, <1>6, <2>1, <2>3, GoroutineGoesOn DEF CheckContext
<1>7. ASSUME worker[r][j] \in {"slotted", "pacing", "dialing"}, run[r].pc = "scanning"
      PROVE  LET s == [run[r] EXCEPT !.sem = run[r].sem - 1]
             IN  /\ s \in RunState /\ s.pc = "scanning"
                 /\ s.pending = run[r].pending /\ s.sem = run[r].sem - 1
  BY <1>1, <1>3, <1>7 DEF RunState
<1>8. CASE AbandonSlot(r, j)
  <2>1. PICK s : s = [run[r] EXCEPT !.sem = run[r].sem - 1]
    OBVIOUS
  <2>2. s \in RunState /\ s.pc = "scanning" /\ s.pending = run[r].pending /\ s.sem = run[r].sem - 1
    BY <1>7, <1>8, <2>1 DEF AbandonSlot
  <2>3. run' = [run EXCEPT ![r] = s]
    BY <1>8, <2>1 DEF AbandonSlot, Released
  <2> QED
    BY <1>1, <1>2, <1>8, <2>2, <2>3, GoroutineReturns DEF AbandonSlot
<1>9. CASE TakeTick(r, j)
  <2>1. CASE run[r].cancelled
    <3>1. PICK s : s = [run[r] EXCEPT !.tick = FALSE, !.sem = run[r].sem - 1]
      OBVIOUS
    <3>2. /\ s \in RunState /\ s.pc = "scanning" /\ s.pending = run[r].pending
          /\ s.sem = run[r].sem - 1
      BY <1>1, <1>3, <1>9, <3>1 DEF TakeTick, RunState
    <3>3. run' = [run EXCEPT ![r] = s]
      BY <1>1, <1>9, <2>1, <3>1 DEF TakeTick, Released, DiscoveryInv, TypeOK
    <3> QED
      BY <1>1, <1>2, <1>9, <2>1, <3>2, <3>3, GoroutineReturns DEF TakeTick
  <2>2. CASE ~run[r].cancelled
    <3>1. PICK s : s = [run[r] EXCEPT !.tick = FALSE]
      OBVIOUS
    <3>2. /\ s \in RunState /\ s.pc = "scanning" /\ s.pending = run[r].pending
          /\ s.sem = run[r].sem
      BY <1>1, <1>9, <3>1 DEF TakeTick, RunState
    <3>3. run' = [run EXCEPT ![r] = s]
      BY <1>9, <2>2, <3>1 DEF TakeTick
    <3> QED
      BY <1>9, <2>2, <3>2, <3>3, GoroutineGoesOn DEF TakeTick
  <2> QED
    BY <2>1, <2>2
<1>10. CASE \E data \in Data : ConnectOpen(r, j, data)
  <2>1. PICK data \in Data : ConnectOpen(r, j, data)
    BY <1>10
  <2>2. PICK x : x = [state |-> "open", at |-> clock + 1, data |-> data]
    OBVIOUS
  <2>3. clock + 1 \in 1..MaxTime
    BY <1>1, <2>1 DEF ConnectOpen
  <2>4. x \in Open
    BY <2>2, <2>3 DEF Open
  <2>5. x \in Result /\ x # Unset /\ Finish(r, j, x)
    BY <2>1, <2>2, <2>4, ResultShapes DEF ConnectOpen
  <2>6. PICK s : s = [run[r] EXCEPT !.sem = run[r].sem - 1]
    OBVIOUS
  <2>7. s \in RunState /\ s.pc = "scanning" /\ s.pending = run[r].pending /\ s.sem = run[r].sem - 1
    BY <1>7, <2>1, <2>6 DEF ConnectOpen
  <2>8. run' = [run EXCEPT ![r] = s]
    BY <2>1, <2>6 DEF ConnectOpen, Released
  <2>9. clock' \in 0..MaxTime
    BY <2>1, <2>3 DEF ConnectOpen
  <2> QED
    BY <2>1, <2>5, <2>7, <2>8, <2>9, GoroutineReturns DEF ConnectOpen
<1>11. CASE \E state \in {"closed", "error"} : ConnectFails(r, j, state)
  <2>1. PICK state \in {"closed", "error"} : ConnectFails(r, j, state)
    BY <1>11
  <2>2. PICK x : x = [state |-> state]
    OBVIOUS
  <2>3. x \in Result /\ x # Unset /\ Finish(r, j, x)
    BY <2>1, <2>2, ResultShapes DEF ConnectFails
  <2>4. PICK s : s = [run[r] EXCEPT !.sem = run[r].sem - 1]
    OBVIOUS
  <2>5. s \in RunState /\ s.pc = "scanning" /\ s.pending = run[r].pending /\ s.sem = run[r].sem - 1
    BY <1>7, <2>1, <2>4 DEF ConnectFails
  <2>6. run' = [run EXCEPT ![r] = s]
    BY <2>1, <2>4 DEF ConnectFails, Released
  <2> QED
    BY <1>1, <2>1, <2>3, <2>5, <2>6, GoroutineReturns DEF ConnectFails
<1> QED
  BY <1>4, <1>5, <1>6, <1>8, <1>9, <1>10, <1>11 DEF WorkerStep
-----------------------------------------------------------------------------
(* The run.                                                                *)

(* The fields of a run change and its pool, its slots and what it lost do  *)
(* not.                                                                    *)
LEMMA RunMoves ==
    ASSUME DiscoveryInv, NEW r \in Run, NEW s \in RunState, run' = [run EXCEPT ![r] = s],
           s.sem = run[r].sem, s.pc = "idle" => run[r].pc = "idle",
           UNCHANGED <<storeVars, authorization, worker, results, clock>>,
           lost' \in [Run -> SUBSET Job], granted' \in [Run -> Authorization \cup {None}],
           run[r].pc # "idle" => granted'[r] = granted[r],
           \A q \in Run \ {r} : lost'[q] = lost[q] /\ granted'[q] = granted[q],
           PoolInv(r)', PersistInv(r)', GrantInv(r)'
    PROVE  DiscoveryInv'
<1>1. TypeOK /\ RunInv(r)
  BY DEF DiscoveryInv
<1>2. run'[r] = s /\ \A q \in Run \ {r} : run'[q] = run[q]
  BY <1>1 DEF TypeOK
<1>3. OthersKeep(r)
  BY <1>2 DEF OthersKeep
<1>4. TypeOK'
  <2>1. run' \in [Run -> RunState]
    BY <1>1 DEF TypeOK
  <2> QED
    BY <1>1, <2>1 DEF TypeOK, StoreTypeOK, storeVars
<1>5. SlotInv(r)'
  BY <1>1, <1>2 DEF RunInv, SlotInv, Holding
<1> QED
  BY <1>2, <1>3, <1>4, <1>5, RunStep DEF RunInv

LEMMA LoadPreserves ==
    ASSUME DiscoveryInv, NEW r \in Run, Load(r)
    PROVE  DiscoveryInv'
<1>1. TypeOK /\ RunInv(r) /\ run[r] \in RunState
  BY DEF DiscoveryInv, TypeOK
<1>2. PICK s : s = [run[r] EXCEPT !.pc = IF IsAuthorized THEN "admitted" ELSE "refused"]
  OBVIOUS
<1>3. /\ s \in RunState /\ s.sem = run[r].sem /\ s.pending = run[r].pending
      /\ s.pc = IF IsAuthorized THEN "admitted" ELSE "refused"
  BY <1>1, <1>2 DEF RunState, RunPC
<1>4. run' = [run EXCEPT ![r] = s] /\ run[r].pc = "idle"
  BY <1>2 DEF Load
<1>5. /\ run'[r] = s /\ granted'[r] = authorization
      /\ granted' \in [Run -> Authorization \cup {None}]
      /\ \A q \in Run \ {r} : granted'[q] = granted[q]
  BY <1>1, <1>4 DEF Load, TypeOK
<1>6. PoolInv(r)'
  BY <1>1, <1>3, <1>4, <1>5 DEF RunInv, PoolInv, Load, poolVars
<1>7. PersistInv(r)'
  BY <1>1, <1>3, <1>4, <1>5 DEF RunInv, PersistInv
<1>8. GrantInv(r)'
  BY <1>3, <1>5 DEF GrantInv, IsAuthorized
<1> QED
  BY <1>1, <1>3, <1>4, <1>5, <1>6, <1>7, <1>8, RunMoves DEF Load, poolVars, TypeOK

LEMMA StartPreserves ==
    ASSUME DiscoveryInv, NEW r \in Run, Start(r)
    PROVE  DiscoveryInv'
<1>1. TypeOK /\ RunInv(r) /\ run[r] \in RunState
  BY DEF DiscoveryInv, TypeOK
<1>2. PICK s : s = [run[r] EXCEPT !.pc = "scanning"]
  OBVIOUS
<1>3. s \in RunState /\ s.sem = run[r].sem /\ s.pending = run[r].pending /\ s.pc = "scanning"
  BY <1>1, <1>2 DEF RunState, RunPC
<1>4. PICK w : w = [j \in Job |-> IF j \in JobsOf[r] THEN "queued" ELSE "none"]
  OBVIOUS
<1>5. w \in [Job -> WorkerPC] /\ \A j \in Job : w[j] = IF j \in JobsOf[r] THEN "queued" ELSE "none"
  BY <1>4 DEF WorkerPC
<1>6. /\ run' = [run EXCEPT ![r] = s] /\ run[r].pc = "admitted"
      /\ worker' = [worker EXCEPT ![r] = w]
      /\ UNCHANGED <<storeVars, authorization, results, clock, lost, granted>>
  BY <1>2, <1>4 DEF Start
<1>7. run'[r] = s /\ worker'[r] = w
  BY <1>1, <1>6 DEF TypeOK
<1>8. OthersKeep(r)
  BY <1>1, <1>6 DEF OthersKeep, TypeOK
<1>9. TypeOK'
  <2>1. run' \in [Run -> RunState] /\ worker' \in [Run -> [Job -> WorkerPC]]
    BY <1>1, <1>3, <1>5, <1>6 DEF TypeOK
  <2> QED
    BY <1>1, <1>6, <2>1 DEF TypeOK, StoreTypeOK, storeVars
<1>10. \A j \in Job : worker[r][j] = "none" /\ results[r][j] = Unset
  BY <1>1, <1>6 DEF RunInv, PoolInv
<1>11. SlotInv(r)'
  <2>1. Holding(r) = {} /\ Holding(r)' = {}
    BY <1>5, <1>7, <1>10 DEF Holding
  <2> QED
    BY <1>1, <1>3, <1>7, <2>1 DEF RunInv, SlotInv
<1>12. PoolInv(r)'
  BY <1>3, <1>5, <1>6, <1>7, <1>10 DEF PoolInv
<1>13. PersistInv(r)'
  BY <1>1, <1>3, <1>6, <1>7 DEF RunInv, PersistInv
<1>14. GrantInv(r)'
  BY <1>1, <1>3, <1>6, <1>7 DEF RunInv, GrantInv
<1> QED
  BY <1>3, <1>6, <1>7, <1>8, <1>9, <1>11, <1>12, <1>13, <1>14, RunStep DEF RunInv

LEMMA JoinPreserves ==
    ASSUME DiscoveryInv, NEW r \in Run, Join(r)
    PROVE  DiscoveryInv'
<1>1. TypeOK /\ RunInv(r) /\ run[r] \in RunState
  BY DEF DiscoveryInv, TypeOK
<1>2. PICK open : open = {j \in JobsOf[r] : results[r][j].state = "open"}
  OBVIOUS
<1>3. PICK s : s = [run[r] EXCEPT !.pc = "persisting", !.pending = open]
  OBVIOUS
<1>4. /\ s \in RunState /\ s.sem = run[r].sem /\ s.pending = open /\ s.pc = "persisting"
  BY <1>1, <1>2, <1>3 DEF RunState, RunPC, Job
<1>5. run' = [run EXCEPT ![r] = s] /\ run[r].pc = "scanning"
  BY <1>1, <1>2, <1>3 DEF Join, TypeOK
<1>6. run'[r] = s /\ UNCHANGED <<storeVars, authorization, worker, results, clock, lost, granted>>
  BY <1>1, <1>5 DEF Join, poolVars, TypeOK
<1>7. PoolInv(r)'
  BY <1>1, <1>4, <1>5, <1>6 DEF RunInv, PoolInv, Join
<1>8. ASSUME NEW j \in Job, results[r][j].state = "open" PROVE j \in open
  <2>1. results[r][j] # Unset
    BY <1>8, ResultShapes
  <2>2. j \in JobsOf[r]
    BY <1>1, <2>1 DEF RunInv, PoolInv
  <2> QED
    BY <1>2, <1>8, <2>2
<1>9. PersistInv(r)'
  BY <1>2, <1>4, <1>6, <1>8 DEF PersistInv
<1>10. GrantInv(r)'
  BY <1>1, <1>4, <1>5, <1>6 DEF RunInv, GrantInv
<1> QED
  BY <1>1, <1>4, <1>5, <1>6, <1>7, <1>9, <1>10, RunMoves DEF TypeOK

LEMMA NextPendingExists ==
    ASSUME NEW r \in Run, run[r].pending \subseteq Job, run[r].pending # {}
    PROVE  NextPending(r) \in run[r].pending
<1>1. run[r].pending \subseteq Nat
  BY DEF Job
<1>2. PICK j \in run[r].pending : \A k \in run[r].pending : ~ (<<k, j>> \in OpToRel(<, Nat))
  BY <1>1, NatLessThanWellFounded, WFMin
<1>3. \A k \in run[r].pending : ~ (k < j)
  BY <1>1, <1>2 DEF OpToRel
<1>4. \A k \in run[r].pending : j <= k
  BY <1>1, <1>3
<1> QED
  BY <1>4 DEF NextPending

LEMMA PersistPortPreserves ==
    ASSUME DiscoveryInv, NEW r \in Run, PersistPort(r)
    PROVE  DiscoveryInv'
<1>1. TypeOK /\ RunInv(r) /\ run[r] \in RunState /\ StoreInv /\ StoreTypeOK
  BY DEF DiscoveryInv, TypeOK
<1>2. PICK j : j = NextPending(r)
  OBVIOUS
<1>3. j \in run[r].pending /\ j \in Job
  BY <1>1, <1>2, NextPendingExists DEF PersistPort, RunState
<1>4. PICK o : o = [at |-> results[r][j].at, by |-> r, data |-> results[r][j].data]
  OBVIOUS
<1>5. results[r][j] \in Open
  BY <1>1, <1>3, ResultShapes DEF RunInv, PersistInv, TypeOK
<1>6. /\ o \in Observation /\ o.by = r
      /\ o.at = results[r][j].at /\ o.data = results[r][j].data
  BY <1>4, <1>5 DEF Observation, Open
<1>7. RecordObservation(j, o)
  BY <1>2, <1>4 DEF PersistPort
<1>8. /\ StoreTypeOK' /\ StoreInv'
      /\ \A b \in Asset : seen[b] \subseteq seen'[b] /\ evidence[b] \subseteq evidence'[b]
      /\ [at |-> o.at, by |-> o.by] \in seen'[j] /\ o.data \in evidence'[j]
      /\ assets'[j].metadata = r
      /\ \A b \in Asset \ {j} : assets'[b] = assets[b]
  BY <1>1, <1>3, <1>6, <1>7, ObservationStored DEF Job
<1>9. PICK s : s = [run[r] EXCEPT !.pending = run[r].pending \ {j}]
  OBVIOUS
<1>10. /\ s \in RunState /\ s.sem = run[r].sem /\ s.pc = run[r].pc
       /\ s.pending = run[r].pending \ {j}
  BY <1>1, <1>9 DEF RunState
<1>11. /\ run' = [run EXCEPT ![r] = s] /\ run[r].pc = "persisting"
       /\ UNCHANGED <<authorization, worker, results, clock, lost, granted>>
  BY <1>2, <1>9 DEF PersistPort, poolVars
<1>12. run'[r] = s /\ \A q \in Run \ {r} : run'[q] = run[q]
  BY <1>1, <1>11 DEF TypeOK
<1>13. TypeOK'
  <2>1. run' \in [Run -> RunState]
    BY <1>1, <1>10, <1>11 DEF TypeOK
  <2> QED
    BY <1>1, <1>8, <1>11, <2>1 DEF TypeOK
<1>14. SlotInv(r)'
  BY <1>1, <1>10, <1>11, <1>12 DEF RunInv, SlotInv, Holding
<1>15. PoolInv(r)'
  BY <1>1, <1>10, <1>11, <1>12 DEF RunInv, PoolInv
<1>16. ASSUME NEW i \in Job, results[r][i].state = "open"
       PROVE  i \in (run[r].pending \ {j}) \cup lost[r] \/ Stored(r, i)'
  <2>1. CASE i = j
    BY <1>6, <1>8, <1>11, <2>1 DEF Stored
  <2>2. CASE i # j /\ Stored(r, i)
    BY <1>8, <1>11, <2>2 DEF Stored, Job
  <2>3. CASE i # j /\ i \in run[r].pending \cup lost[r]
    BY <2>3
  <2> QED
    BY <1>1, <1>11, <1>16, <2>1, <2>2, <2>3 DEF RunInv, PersistInv
<1>17. PersistInv(r)'
  BY <1>1, <1>10, <1>11, <1>12, <1>16 DEF RunInv, PersistInv
<1>18. GrantInv(r)'
  BY <1>1, <1>10, <1>11, <1>12 DEF RunInv, GrantInv
<1>19. ASSUME NEW q \in Run PROVE RunInv(q)'
  <2>1. CASE q = r
    BY <1>14, <1>15, <1>17, <1>18, <2>1 DEF RunInv
  <2>2. CASE q # r
    <3>1. RunInv(q) /\ run[q].pending \subseteq Job
      BY DEF DiscoveryInv, TypeOK, RunState
    <3> QED
      BY <1>8, <1>11, <1>12, <1>13, <2>2, <3>1, OtherRunKeeps DEF TypeOK
  <2> QED
    BY <2>1, <2>2
<1>20. WriterInv'
  <2> SUFFICES ASSUME NEW a \in Asset, assets'[a] # NoAsset
               PROVE  /\ run'[assets'[a].metadata].pc # "idle"
                      /\ granted'[assets'[a].metadata] = "AUTHORIZED"
    BY DEF WriterInv, Known
  <2>1. CASE a = j
    BY <1>1, <1>8, <1>10, <1>11, <1>12, <2>1 DEF RunInv, GrantInv
  <2>2. CASE a # j
    <3>1. PICK q : q = assets[a].metadata
      OBVIOUS
    <3>2. assets'[a] = assets[a] /\ q \in Run
      BY <1>1, <1>8, <2>2, <3>1 DEF StoreTypeOK, Row
    <3>3. run[q].pc # "idle" /\ granted[q] = "AUTHORIZED"
      BY <3>1, <3>2 DEF DiscoveryInv, WriterInv, Known
    <3>4. run'[q].pc = run[q].pc
      BY <1>10, <1>12, <3>2
    <3> QED
      BY <1>11, <3>1, <3>2, <3>3, <3>4
  <2> QED
    BY <2>1, <2>2
<1> QED
  BY <1>8, <1>13, <1>19, <1>20 DEF DiscoveryInv

LEMMA PersistFailsPreserves ==
    ASSUME DiscoveryInv, NEW r \in Run, PersistFails(r)
    PROVE  DiscoveryInv'
<1>1. TypeOK /\ RunInv(r) /\ run[r] \in RunState
  BY DEF DiscoveryInv, TypeOK
<1>2. PICK j : j = NextPending(r)
  OBVIOUS
<1>3. j \in run[r].pending /\ j \in Job
  BY <1>1, <1>2, NextPendingExists DEF PersistFails, RunState
<1>4. PICK s : s = [run[r] EXCEPT !.pending = run[r].pending \ {j}]
  OBVIOUS
<1>5. /\ s \in RunState /\ s.sem = run[r].sem /\ s.pc = run[r].pc
      /\ s.pending = run[r].pending \ {j}
  BY <1>1, <1>4 DEF RunState
<1>6. /\ run' = [run EXCEPT ![r] = s] /\ run[r].pc = "persisting"
      /\ lost' = [lost EXCEPT ![r] = @ \cup {j}]
      /\ UNCHANGED <<storeVars, authorization, worker, results, clock, granted>>
  BY <1>2, <1>4 DEF PersistFails, AfterFailure, poolVars
<1>7. /\ run'[r] = s /\ lost'[r] = lost[r] \cup {j}
      /\ lost' \in [Run -> SUBSET Job]
      /\ \A q \in Run \ {r} : lost'[q] = lost[q]
  BY <1>1, <1>3, <1>6 DEF TypeOK
<1>8. PoolInv(r)'
  BY <1>1, <1>5, <1>6, <1>7 DEF RunInv, PoolInv
<1>9. PersistInv(r)'
  BY <1>1, <1>5, <1>6, <1>7 DEF RunInv, PersistInv, Stored, storeVars
<1>10. GrantInv(r)'
  BY <1>1, <1>5, <1>6, <1>7 DEF RunInv, GrantInv
<1> QED
  BY <1>1, <1>5, <1>6, <1>7, <1>8, <1>9, <1>10, RunMoves DEF TypeOK

(* Only the stage, the context or the ticker of a run changes.             *)
LEMMA RunOnly ==
    ASSUME DiscoveryInv, NEW r \in Run, NEW s \in RunState, run' = [run EXCEPT ![r] = s],
           s.sem = run[r].sem, s.pending = run[r].pending,
           \/ s.pc = run[r].pc
           \/ run[r].pc = "persisting" /\ run[r].pending = {} /\ s.pc = "done",
           UNCHANGED <<storeVars, authorization, poolVars, lost, granted>>
    PROVE  DiscoveryInv'
<1>1. TypeOK /\ RunInv(r) /\ run'[r] = s
  BY DEF DiscoveryInv, TypeOK
<1>2. UNCHANGED <<storeVars, authorization, worker, results, clock, lost, granted>>
  BY DEF poolVars
<1>3. PoolInv(r)'
  BY <1>1, <1>2 DEF RunInv, PoolInv
<1>4. PersistInv(r)'
  BY <1>1, <1>2 DEF RunInv, PersistInv, Stored, storeVars
<1>5. GrantInv(r)'
  BY <1>1, <1>2 DEF RunInv, GrantInv
<1> QED
  BY <1>1, <1>2, <1>3, <1>4, <1>5, RunMoves DEF TypeOK

LEMMA ReturnPreserves ==
    ASSUME DiscoveryInv, NEW r \in Run, Return(r)
    PROVE  DiscoveryInv'
<1>1. run[r] \in RunState
  BY DEF DiscoveryInv, TypeOK
<1>2. PICK s : s = [run[r] EXCEPT !.pc = "done"]
  OBVIOUS
<1>3. s \in RunState /\ s.sem = run[r].sem /\ s.pending = run[r].pending /\ s.pc = "done"
  BY <1>1, <1>2 DEF RunState, RunPC
<1> QED
  BY <1>2, <1>3, RunOnly DEF Return

LEMMA TickPreserves ==
    ASSUME DiscoveryInv, NEW r \in Run, Tick(r)
    PROVE  DiscoveryInv'
<1>1. run[r] \in RunState
  BY DEF DiscoveryInv, TypeOK
<1>2. PICK s : s = [run[r] EXCEPT !.tick = TRUE]
  OBVIOUS
<1>3. s \in RunState /\ s.sem = run[r].sem /\ s.pending = run[r].pending /\ s.pc = run[r].pc
  BY <1>1, <1>2 DEF RunState
<1> QED
  BY <1>2, <1>3, RunOnly DEF Tick

LEMMA CancelPreserves ==
    ASSUME DiscoveryInv, NEW r \in Run, Cancel(r)
    PROVE  DiscoveryInv'
<1>1. run[r] \in RunState
  BY DEF DiscoveryInv, TypeOK
<1>2. PICK s : s = [run[r] EXCEPT !.cancelled = TRUE]
  OBVIOUS
<1>3. s \in RunState /\ s.sem = run[r].sem /\ s.pending = run[r].pending /\ s.pc = run[r].pc
  BY <1>1, <1>2 DEF RunState
<1> QED
  BY <1>2, <1>3, RunOnly DEF Cancel

LEMMA CrashPreserves ==
    ASSUME DiscoveryInv, NEW r \in Run, Crash(r)
    PROVE  DiscoveryInv'
<1>1. TypeOK /\ RunInv(r)
  BY DEF DiscoveryInv
<1>2. PICK s : s = [IdleRun EXCEPT !.pc = "crashed"]
  OBVIOUS
<1>3. s \in RunState /\ s.sem = 0 /\ s.pending = {} /\ s.pc = "crashed"
  <2>1. IdleRun \in RunState /\ IdleRun.sem = 0 /\ IdleRun.pending = {}
    BY DEF IdleRun, RunState, RunPC
  <2> QED
    BY <1>2, <2>1 DEF RunState, RunPC
<1>4. PICK w : w = [j \in Job |-> "none"]
  OBVIOUS
<1>5. PICK x : x = [j \in Job |-> Unset]
  OBVIOUS
<1>6. /\ run' = [run EXCEPT ![r] = s] /\ run[r].pc # "idle"
      /\ worker' = [worker EXCEPT ![r] = w] /\ results' = [results EXCEPT ![r] = x]
      /\ lost' = [lost EXCEPT ![r] = {}]
      /\ UNCHANGED <<storeVars, authorization, clock, granted>>
  BY <1>2, <1>4, <1>5 DEF Crash, Live
<1>7. run'[r] = s /\ worker'[r] = w /\ results'[r] = x /\ lost'[r] = {}
  BY <1>1, <1>6 DEF TypeOK
<1>8. OthersKeep(r)
  BY <1>1, <1>6 DEF OthersKeep, TypeOK
<1>9. /\ w \in [Job -> WorkerPC] /\ \A j \in Job : w[j] = "none"
      /\ x \in [Job -> Result] /\ \A j \in Job : x[j] = Unset
  BY <1>4, <1>5, ResultShapes DEF WorkerPC
<1>10. TypeOK'
  <2>1. /\ run' \in [Run -> RunState] /\ worker' \in [Run -> [Job -> WorkerPC]]
        /\ results' \in [Run -> [Job -> Result]] /\ lost' \in [Run -> SUBSET Job]
    BY <1>1, <1>3, <1>6, <1>9 DEF TypeOK
  <2> QED
    BY <1>1, <1>6, <2>1 DEF TypeOK, StoreTypeOK, storeVars
<1>11. SlotInv(r)'
  <2>1. Holding(r)' = {}
    BY <1>7, <1>9 DEF Holding
  <2> QED
    BY <1>3, <1>7, <2>1, FS_EmptySet DEF SlotInv
<1>12. PoolInv(r)' /\ PersistInv(r)' /\ GrantInv(r)'
  BY <1>3, <1>7, <1>9 DEF PoolInv, PersistInv, GrantInv
<1> QED
  BY <1>3, <1>6, <1>7, <1>8, <1>10, <1>11, <1>12, RunStep DEF RunInv
-----------------------------------------------------------------------------
(* The world, and the invariant.                                           *)

LEMMA SetAssetStatusPreserves ==
    ASSUME DiscoveryInv, NEW a \in Asset, NEW status \in Lifecycle, SetAssetStatus(a, status)
    PROVE  DiscoveryInv'
<1>1. UNCHANGED <<authorization, run, worker, results, clock, lost, granted>>
  BY DEF SetAssetStatus, poolVars
<1>2. /\ StoreTypeOK' /\ StoreInv'
      /\ \A b \in Asset : /\ Known(b)' <=> Known(b)
                          /\ assets'[b].metadata = assets[b].metadata
  BY StatusKept DEF SetAssetStatus, DiscoveryInv, TypeOK
<1>3. TypeOK'
  BY <1>1, <1>2 DEF DiscoveryInv, TypeOK
<1>4. WriterInv'
  BY <1>1, <1>2 DEF DiscoveryInv, WriterInv
<1>5. seen' = seen /\ evidence' = evidence
  BY DEF SetAssetStatus, UpdateStatus
<1>6. ASSUME NEW q \in Run PROVE RunInv(q)'
  <2>1. RunInv(q) /\ run[q].pending \subseteq Job
    BY DEF DiscoveryInv, TypeOK, RunState
  <2> QED
    BY <1>1, <1>3, <1>5, <2>1, OtherRunKeeps DEF TypeOK
<1> QED
  BY <1>2, <1>3, <1>4, <1>6 DEF DiscoveryInv

LEMMA NothingElseChanges ==
    ASSUME DiscoveryInv, authorization' \in Authorization,
           UNCHANGED <<storeVars, run, poolVars, lost, granted>>
    PROVE  DiscoveryInv'
<1>1. UNCHANGED <<assets, evidence, seen, run, worker, results, clock, lost, granted>>
  BY DEF storeVars, poolVars
<1>2. TypeOK'
  BY <1>1 DEF DiscoveryInv, TypeOK, StoreTypeOK
<1>3. StoreInv' /\ WriterInv'
  BY <1>1 DEF DiscoveryInv, StoreInv, WindowExact, EvidenceBacked, Known, WriterInv
<1>4. ASSUME NEW q \in Run PROVE RunInv(q)'
  <2>1. RunInv(q) /\ run[q].pending \subseteq Job
    BY DEF DiscoveryInv, TypeOK, RunState
  <2> QED
    BY <1>1, <1>2, <2>1, OtherRunKeeps DEF TypeOK
<1> QED
  BY <1>2, <1>3, <1>4 DEF DiscoveryInv

(* The inductive invariant holds in every state of every discovery.        *)
THEOREM DiscoveryInvariant == Spec => []DiscoveryInv
<1>1. Init => DiscoveryInv
  <2> SUFFICES ASSUME Init PROVE DiscoveryInv
    OBVIOUS
  <2> USE DEF Init, StoreInit
  <2>1. IdleRun \in RunState
    BY DEF IdleRun, RunState, RunPC
  <2>2. TypeOK
    BY <2>1, ResultShapes DEF TypeOK, StoreTypeOK, Authorization, WorkerPC
  <2>3. StoreInv /\ WriterInv
    BY DEF StoreInv, WindowExact, EvidenceBacked, Known, WriterInv
  <2>4. ASSUME NEW r \in Run PROVE RunInv(r)
    <3>1. Holding(r) = {}
      BY DEF Holding
    <3>2. SlotInv(r)
      BY <3>1, FS_EmptySet DEF SlotInv, IdleRun
    <3>3. PoolInv(r) /\ PersistInv(r) /\ GrantInv(r)
      BY DEF PoolInv, PersistInv, GrantInv, IdleRun
    <3> QED
      BY <3>2, <3>3 DEF RunInv
  <2> QED
    BY <2>2, <2>3, <2>4 DEF DiscoveryInv
<1>2. DiscoveryInv /\ [Next]_vars => DiscoveryInv'
  <2> SUFFICES ASSUME DiscoveryInv, [Next]_vars PROVE DiscoveryInv'
    OBVIOUS
  <2>1. ASSUME NEW r \in Run, Load(r) PROVE DiscoveryInv'
    BY <2>1, LoadPreserves
  <2>2. ASSUME NEW r \in Run, MainStep(r) PROVE DiscoveryInv'
    BY <2>2, StartPreserves, JoinPreserves, PersistPortPreserves, PersistFailsPreserves,
       ReturnPreserves DEF MainStep
  <2>3. ASSUME NEW r \in Run, NEW j \in Job, WorkerStep(r, j) PROVE DiscoveryInv'
    BY <2>3, WorkerStepPreserves
  <2>4. ASSUME NEW r \in Run, Tick(r) \/ Cancel(r) \/ Crash(r) PROVE DiscoveryInv'
    BY <2>4, TickPreserves, CancelPreserves, CrashPreserves
  <2>5. ASSUME NEW status \in Decisions, UpdateAuthorizationStatus(status) PROVE DiscoveryInv'
    BY <2>5, NothingElseChanges DEF UpdateAuthorizationStatus
  <2>6. ASSUME NEW a \in Asset, NEW status \in Lifecycle, SetAssetStatus(a, status)
        PROVE  DiscoveryInv'
    BY <2>6, SetAssetStatusPreserves
  <2>7. CASE UNCHANGED vars
    <3>1. /\ UNCHANGED <<storeVars, run, poolVars, lost, granted>>
          /\ authorization' = authorization
      BY <2>7 DEF vars
    <3> QED
      BY <3>1, NothingElseChanges DEF DiscoveryInv, TypeOK
  <2> QED
    BY <2>1, <2>2, <2>3, <2>4, <2>5, <2>6, <2>7 DEF Next
<1> QED
  BY <1>1, <1>2, PTL DEF Spec

(* Every variable keeps its type.                                          *)
THEOREM DiscoveryTypeCorrect == Spec => []TypeOK
<1>1. DiscoveryInv => TypeOK
  BY DEF DiscoveryInv
<1> QED
  BY <1>1, DiscoveryInvariant, PTL

(* Overlapping runs may commit in any order: the window of an asset is the *)
(* earliest and the latest of what was committed for it.                   *)
THEOREM WindowsExact == Spec => []WindowExact
<1>1. DiscoveryInv => WindowExact
  BY DEF DiscoveryInv, StoreInv
<1> QED
  BY <1>1, DiscoveryInvariant, PTL

(* An asset is in the inventory exactly when evidence for it is.           *)
THEOREM AssetsHaveEvidence == Spec => []EvidenceBacked
<1>1. DiscoveryInv => EvidenceBacked
  BY DEF DiscoveryInv, StoreInv
<1> QED
  BY <1>1, DiscoveryInvariant, PTL

(* No path of a goroutine keeps its slot, whatever is cancelled or fails   *)
(* and whatever the size of the pool, and no more than it dial at once.    *)
THEOREM PoolBounded == Spec => []SlotsAccounted
<1>1. DiscoveryInv => SlotsAccounted
  BY DEF DiscoveryInv, RunInv, SlotInv, SlotsAccounted, TypeOK, RunState
<1> QED
  BY <1>1, DiscoveryInvariant, PTL

(* A joined pool has a result for every job and every slot back.           *)
THEOREM EveryJobAnswered == Spec => []ScanAccountsForEveryJob
<1>1. ASSUME DiscoveryInv, NEW r \in Run, run[r].pc \in {"persisting", "done"}
      PROVE  /\ \A j \in JobsOf[r] : results[r][j] # Unset
             /\ run[r].sem = 0
  <2>1. RunInv(r) /\ JobsOf[r] \subseteq Job
    BY <1>1 DEF DiscoveryInv, Job
  <2>2. \A j \in JobsOf[r] : worker[r][j] = "finished"
    BY <1>1, <2>1 DEF RunInv, PoolInv
  <2>3. \A j \in JobsOf[r] : results[r][j] # Unset
    BY <2>1, <2>2 DEF RunInv, PoolInv
  <2>4. Holding(r) = {}
    BY <2>1, <2>2 DEF RunInv, PoolInv, Holding
  <2> QED
    BY <2>1, <2>3, <2>4, FS_EmptySet DEF RunInv, SlotInv
<1>2. DiscoveryInv => ScanAccountsForEveryJob
  BY <1>1 DEF ScanAccountsForEveryJob
<1> QED
  BY <1>2, DiscoveryInvariant, PTL

(* A run that returned lost no open port but those whose own transaction   *)
(* failed: the others are in the inventory, within their asset's window,   *)
(* with their evidence.                                                    *)
THEOREM NoOpenPortDropped == Spec => []OpenPortsRecorded
<1>1. ASSUME DiscoveryInv, NEW r \in Run, NEW j \in Job, run[r].pc = "done",
             results[r][j].state = "open", j \notin lost[r]
      PROVE  /\ results[r][j].at \in assets[j].first..assets[j].last
             /\ results[r][j].data \in evidence[j]
  <2>1. TypeOK /\ StoreInv /\ RunInv(r)
    BY <1>1 DEF DiscoveryInv
  <2>2. Stored(r, j)
    BY <1>1, <2>1 DEF RunInv, PersistInv
  <2>3. results[r][j] \in Open
    BY <1>1, <2>1, ResultShapes DEF TypeOK
  <2>4. results[r][j].at \in 1..MaxTime
    BY <2>3 DEF Open
  <2>5. Known(j) /\ assets[j] \in Row
    BY <2>1, <2>2 DEF Stored, StoreInv, Job, TypeOK, StoreTypeOK, Known
  <2>6. assets[j].first \in 1..MaxTime /\ assets[j].last \in 1..MaxTime
    BY <2>5 DEF Row
  <2>7. assets[j].first <= results[r][j].at /\ results[r][j].at <= assets[j].last
    <3>1. PICK o : o = [at |-> results[r][j].at, by |-> r]
      OBVIOUS
    <3>2. o \in seen[j] /\ o.at = results[r][j].at
      BY <2>2, <3>1 DEF Stored
    <3> QED
      BY <2>1, <2>5, <3>2 DEF StoreInv, WindowExact, Job
  <2> QED
    BY <2>2, <2>4, <2>6, <2>7 DEF Stored
<1>2. DiscoveryInv => OpenPortsRecorded
  BY <1>1 DEF OpenPortsRecorded
<1> QED
  BY <1>2, DiscoveryInvariant, PTL

(* The last writer of an asset had found the target AUTHORIZED.            *)
THEOREM OnlyAuthorizedWrite == Spec => []InventoryAuthorized
<1>1. DiscoveryInv => InventoryAuthorized
  BY DEF DiscoveryInv, WriterInv, InventoryAuthorized
<1> QED
  BY <1>1, DiscoveryInvariant, PTL

(* Once its context is done a run starts no further connection.            *)
THEOREM NoDialAfterCancel == Spec => CancelStopsDials
<1>1. ASSUME DiscoveryInv, [Next]_vars, NEW r \in Run, NEW j \in Job,
             run[r].cancelled, worker[r][j] # "dialing"
      PROVE  worker'[r][j] # "dialing"
  <2>1. worker \in [Run -> [Job -> WorkerPC]]
    BY <1>1 DEF DiscoveryInv, TypeOK
  <2>2. CASE worker' = worker
    BY <1>1, <2>2
  <2>3. ASSUME NEW q \in Run, NEW i \in Job, WorkerStep(q, i)
        PROVE  worker'[r][j] # "dialing"
    <3>1. CASE \E w \in WorkerPC \ {"dialing"} : worker' = [worker EXCEPT ![q][i] = w]
      BY <1>1, <2>1, <3>1
    <3>2. CASE worker' = [worker EXCEPT ![q][i] = "dialing"] /\ ~run[q].cancelled
      BY <1>1, <2>1, <3>2
    <3> QED
      BY <2>3, <3>1, <3>2 DEF WorkerStep, Acquire, AbandonQueued, CheckContext, Proceeds,
         AbandonSlot, TakeTick, ConnectOpen, ConnectFails, Finish, WorkerPC
  <2>4. ASSUME NEW q \in Run, Start(q) \/ Crash(q)
        PROVE  worker'[r][j] # "dialing"
    <3>1. PICK w \in [Job -> {"queued", "none"}] : worker' = [worker EXCEPT ![q] = w]
      BY <2>4 DEF Start, Crash
    <3> QED
      BY <1>1, <2>1, <3>1
  <2> QED
    BY <1>1, <2>2, <2>3, <2>4 DEF Next, MainStep, Load, Join, PersistPort, PersistFails,
       Return, Tick, Cancel, UpdateAuthorizationStatus, SetAssetStatus, poolVars, vars
<1>2. DiscoveryInv /\ [Next]_vars =>
          [\A r \in Run, j \in Job :
              run[r].cancelled /\ worker[r][j] # "dialing" => worker'[r][j] # "dialing"]_vars
  BY <1>1
<1> QED
  BY <1>2, DiscoveryInvariant, PTL DEF Spec, CancelStopsDials
=============================================================================
