----------------------------- MODULE AssetStore -----------------------------
(***************************************************************************)
(* The tables assets and asset_evidence behind internal/service/asset and  *)
(* internal/repository/asset.  An asset is its identity key within one     *)
(* target; an observation says when, by which run and with which data it   *)
(* was seen.  Discovery modules extend this one.                           *)
(***************************************************************************)
EXTENDS Naturals, FiniteSets

CONSTANTS
    Asset,      \* identity keys
    Run,        \* discovery runs, the scan_id an observation carries
    Data,       \* fingerprints of evidence data
    Lifecycle,  \* the statuses operators set
    MaxTime,    \* bound: the clock of ObservedAt
    None

AssetStatus == {"DISCOVERED", "ACTIVE", "INACTIVE", "UNKNOWN", "RETIRED"}

ASSUME StoreAssumption ==
    /\ IsFiniteSet(Asset)
    /\ MaxTime \in Nat
    /\ Lifecycle \subseteq AssetStatus
    /\ None \notin Run

VARIABLES
    assets,    \* the row of an identity key, if there is one
    evidence,  \* asset_evidence: the fingerprints recorded for it
    seen       \* history: the observations committed for it

storeVars == <<assets, evidence, seen>>

Observation == [at: 1..MaxTime, by: Run, data: Data]

NoAsset == [first |-> 0, last |-> 0, status |-> None, metadata |-> None]
Row == [first: 1..MaxTime, last: 1..MaxTime, status: AssetStatus, metadata: Run]

StoreTypeOK ==
    /\ assets \in [Asset -> Row \cup {NoAsset}]
    /\ evidence \in [Asset -> SUBSET Data]
    /\ seen \in [Asset -> SUBSET [at: 1..MaxTime, by: Run]]

StoreInit ==
    /\ assets = [a \in Asset |-> NoAsset]
    /\ evidence = [a \in Asset |-> {}]
    /\ seen = [a \in Asset |-> {}]

Known(a) == assets[a] # NoAsset

Upsert_KeepsFirst(row, o) ==
    IF row = NoAsset
    THEN [first |-> o.at, last |-> o.at, status |-> "DISCOVERED", metadata |-> o.by]
    ELSE [row EXCEPT !.last = IF o.at > row.last THEN o.at ELSE row.last, !.metadata = o.by]

(* INSERT ... ON CONFLICT (target_id, identity_key) DO UPDATE: LEAST and   *)
(* GREATEST over the window, the new keys win in the metadata, the status  *)
(* is left alone.                                                          *)
Upsert(row, o) ==
    IF row = NoAsset
    THEN [first |-> o.at, last |-> o.at, status |-> "DISCOVERED", metadata |-> o.by]
    ELSE [row EXCEPT !.first = IF o.at < row.first THEN o.at ELSE row.first,
                     !.last = IF o.at > row.last THEN o.at ELSE row.last,
                     !.metadata = o.by]

(* ON CONFLICT (asset_id, source, evidence_type, fingerprint) DO NOTHING.  *)
CreateEvidence(rows, o) == rows \cup {o.data}

(* RecordObservation: both statements in one transaction.                  *)
RecordObservation(a, o) ==
    /\ assets' = [assets EXCEPT ![a] = Upsert(@, o)]
    /\ evidence' = [evidence EXCEPT ![a] = CreateEvidence(@, o)]
    /\ seen' = [seen EXCEPT ![a] = @ \cup {[at |-> o.at, by |-> o.by]}]

(* UpdateStatus and Retire, for operators.                                 *)
UpdateStatus(a, status) ==
    /\ Known(a)
    /\ assets' = [assets EXCEPT ![a].status = status]
    /\ UNCHANGED <<evidence, seen>>

(* Whatever the order in which overlapping runs commit what they saw, the  *)
(* window of an asset runs from the earliest to the latest of it.          *)
WindowExact == \A a \in Asset : Known(a) =>
    /\ \E o \in seen[a] : assets[a].first = o.at
    /\ \E o \in seen[a] : assets[a].last = o.at
    /\ \A o \in seen[a] : assets[a].first <= o.at /\ o.at <= assets[a].last

(* An asset is stored exactly when evidence for it is: RecordObservation   *)
(* writes both or neither.                                                 *)
EvidenceBacked == \A a \in Asset : Known(a) <=> evidence[a] # {}
=============================================================================
