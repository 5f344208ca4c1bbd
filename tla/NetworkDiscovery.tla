-------------------------- MODULE NetworkDiscovery --------------------------
(***************************************************************************)
(* TCP discovery of one target: RunNetwork of internal/discovery/service   *)
(* (authorize, expand, scan, persist), the worker pool of Scanner.Scan in  *)
(* internal/discovery/network and the target's authorization status.       *)
(*                                                                         *)
(* Runs are CLI processes.  A job is one host:port pair of buildJobs, all  *)
(* in scope (RunNetwork filters the expanded hosts with the checker the    *)
(* pool uses again), and the identity of the PORT asset it may find; jobs  *)
(* are numbered in the order of the results.  The pool starts a goroutine  *)
(* per job; an action is what a goroutine does between two points where it *)
(* can block or see another one.                                           *)
(***************************************************************************)
EXTENDS AssetStore, TLC

CONSTANTS
    JobsOf,          \* the jobs of a run: the hosts by the ports of its profile
    MaxConcurrency,  \* capacity of the semaphore channel
    Decisions,       \* the authorization statuses operators set
    Limited,         \* the runs with a rate limiter (RequestsPerSecond > 0)
    Faults           \* "persist": a transaction fails; "crash"; "cancel": Ctrl+C

Job == Asset
Authorization == {"UNVERIFIED", "AUTHORIZED", "EXPIRED", "REVOKED"}

ASSUME DiscoveryAssumption ==
    /\ Asset \subseteq Nat
    /\ JobsOf \in [Run -> SUBSET Asset]
    /\ MaxConcurrency \in Nat \ {0}
    /\ Decisions \subseteq Authorization
    /\ Limited \subseteq Run
    /\ Faults \subseteq {"persist", "crash", "cancel"}

VARIABLES
    authorization,  \* targets.authorization_status
    run,            \* the local state of every run
    worker,         \* the goroutine of every job
    results,        \* the slice the goroutines fill in, one slot each
    clock,          \* the last time handed out
    lost,           \* history: the results whose transaction failed
    granted         \* history: the authorization when a run read the target

poolVars == <<worker, results, clock>>
vars == <<storeVars, authorization, run, poolVars, lost, granted>>

RunPC == {"idle", "refused", "admitted", "scanning", "persisting", "done", "crashed"}
RunState == [pc: RunPC,
             cancelled: BOOLEAN,            \* ctx is done
             sem: 0..MaxConcurrency,        \* elements in the channel
             tick: BOOLEAN,                 \* the ticker's channel holds a tick
             pending: SUBSET Job]           \* open results not yet persisted
WorkerPC == {"none", "queued", "slotted", "pacing", "dialing", "finished"}
Unset == [state |-> "unset"]
Open == [state: {"open"}, at: 1..MaxTime, data: Data]
Result == {Unset, [state |-> "closed"], [state |-> "error"]} \cup Open

IdleRun == [pc |-> "idle", cancelled |-> FALSE, sem |-> 0, tick |-> FALSE, pending |-> {}]

TypeOK ==
    /\ StoreTypeOK
    /\ authorization \in Authorization
    /\ run \in [Run -> RunState]
    /\ worker \in [Run -> [Job -> WorkerPC]]
    /\ results \in [Run -> [Job -> Result]]
    /\ clock \in 0..MaxTime
    /\ lost \in [Run -> SUBSET Job]
    /\ granted \in [Run -> Authorization \cup {None}]

Init ==
    /\ StoreInit
    /\ authorization = "UNVERIFIED"
    /\ run = [r \in Run |-> IdleRun]
    /\ worker = [r \in Run |-> [j \in Job |-> "none"]]
    /\ results = [r \in Run |-> [j \in Job |-> Unset]]
    /\ clock = 0
    /\ lost = [r \in Run |-> {}]
    /\ granted = [r \in Run |-> None]

Holding(r) == {j \in Job : worker[r][j] \in {"slotted", "pacing", "dialing"}}
-----------------------------------------------------------------------------
(* The run.                                                                *)

(* Target.IsAuthorized, of the row as it is read.                          *)
IsAuthorized == authorization = "AUTHORIZED"

(* GetByValue, then IsAuthorized on the row it returned.                   *)
Load(r) ==
    /\ run[r].pc = "idle"
    /\ run' = [run EXCEPT ![r].pc = IF IsAuthorized THEN "admitted" ELSE "refused"]
    /\ granted' = [granted EXCEPT ![r] = authorization]
    /\ UNCHANGED <<storeVars, authorization, poolVars, lost>>

(* Scan starts its goroutines.                                             *)
Start(r) ==
    /\ run[r].pc = "admitted"
    /\ run' = [run EXCEPT ![r].pc = "scanning"]
    /\ worker' = [worker EXCEPT ![r] = [j \in Job |-> IF j \in JobsOf[r] THEN "queued" ELSE "none"]]
    /\ UNCHANGED <<storeVars, authorization, results, clock, lost, granted>>

(* wg.Wait returns; what is left to do is what Succeeded selects.          *)
Join(r) ==
    /\ run[r].pc = "scanning"
    /\ \A j \in JobsOf[r] : worker[r][j] = "finished"
    /\ run' = [run EXCEPT ![r].pc = "persisting",
                          ![r].pending = {j \in JobsOf[r] : results[r][j].state = "open"}]
    /\ UNCHANGED <<storeVars, authorization, poolVars, lost, granted>>

NextPending(r) == CHOOSE j \in run[r].pending : \A k \in run[r].pending : j <= k

PersistPort(r) ==
    /\ run[r].pc = "persisting" /\ run[r].pending # {}
    /\ ~run[r].cancelled
    /\ LET j == NextPending(r)
           result == results[r][j]
       IN /\ RecordObservation(j, [at |-> result.at, by |-> r, data |-> result.data])
          /\ run' = [run EXCEPT ![r].pending = @ \ {j}]
    /\ UNCHANGED <<authorization, poolVars, lost, granted>>

AfterFailure_Aborts(r) == {}

(* A failure is logged and the loop goes on with the next result.          *)
AfterFailure(r) == run[r].pending \ {NextPending(r)}

(* The transaction fails, always so under a context that is done.          *)
PersistFails(r) ==
    /\ run[r].pc = "persisting" /\ run[r].pending # {}
    /\ run[r].cancelled \/ "persist" \in Faults
    /\ run' = [run EXCEPT ![r].pending = AfterFailure(r)]
    /\ lost' = [lost EXCEPT ![r] = @ \cup {NextPending(r)}]
    /\ UNCHANGED <<storeVars, authorization, poolVars, granted>>

Return(r) ==
    /\ run[r].pc = "persisting" /\ run[r].pending = {}
    /\ run' = [run EXCEPT ![r].pc = "done"]
    /\ UNCHANGED <<storeVars, authorization, poolVars, lost, granted>>
-----------------------------------------------------------------------------
(* The goroutine of a job.                                                 *)

(* results[i] = ...; return, with the deferred <-sem and wg.Done.          *)
Finish(r, j, result) ==
    /\ results' = [results EXCEPT ![r][j] = result]
    /\ worker' = [worker EXCEPT ![r][j] = "finished"]

Cancelled_Unwritten == Unset

(* cancelledResult: an error of its own for every job that was not tried.  *)
Cancelled == [state |-> "error"]

HasSlot(r) == run[r].sem < MaxConcurrency

Released_Leak(r) == run[r].sem

(* The deferred <-sem.                                                     *)
Released(r) == run[r].sem - 1

(* if ctx.Err() != nil, checked again by who holds a slot.                 *)
Proceeds(r) == ~run[r].cancelled

(* case sem <- struct{}{}                                                  *)
Acquire(r, j) ==
    /\ run[r].pc = "scanning" /\ worker[r][j] = "queued"
    /\ HasSlot(r)
    /\ run' = [run EXCEPT ![r].sem = @ + 1]
    /\ worker' = [worker EXCEPT ![r][j] = "slotted"]
    /\ UNCHANGED <<storeVars, authorization, results, clock, lost, granted>>

(* case <-ctx.Done(), before it holds a slot                               *)
AbandonQueued(r, j) ==
    /\ run[r].pc = "scanning" /\ worker[r][j] = "queued"
    /\ run[r].cancelled
    /\ Finish(r, j, Cancelled)
    /\ UNCHANGED <<storeVars, authorization, run, clock, lost, granted>>

(* On to the limiter, where there is one.                                  *)
CheckContext(r, j) ==
    /\ run[r].pc = "scanning" /\ worker[r][j] = "slotted"
    /\ Proceeds(r)
    /\ worker' = [worker EXCEPT ![r][j] = IF r \in Limited THEN "pacing" ELSE "dialing"]
    /\ UNCHANGED <<storeVars, authorization, run, results, clock, lost, granted>>

(* The ctx.Err() return, or case <-ctx.Done() in front of the limiter.     *)
AbandonSlot(r, j) ==
    /\ run[r].pc = "scanning" /\ worker[r][j] \in {"slotted", "pacing"}
    /\ run[r].cancelled
    /\ Finish(r, j, Cancelled)
    /\ run' = [run EXCEPT ![r].sem = Released(r)]
    /\ UNCHANGED <<storeVars, authorization, clock, lost, granted>>

(* case <-limiter.C: select may take it under a context that is done, when *)
(* the dial that follows is refused at once.                               *)
TakeTick(r, j) ==
    /\ run[r].pc = "scanning" /\ worker[r][j] = "pacing" /\ run[r].tick
    /\ IF run[r].cancelled
       THEN /\ Finish(r, j, Cancelled)
            /\ run' = [run EXCEPT ![r].tick = FALSE, ![r].sem = Released(r)]
       ELSE /\ worker' = [worker EXCEPT ![r][j] = "dialing"]
            /\ run' = [run EXCEPT ![r].tick = FALSE]
            /\ UNCHANGED results
    /\ UNCHANGED <<storeVars, authorization, clock, lost, granted>>

(* connect: within ConnectTimeout the port is open, or it is not, or the   *)
(* dial fails.                                                             *)
ConnectOpen(r, j, data) ==
    /\ run[r].pc = "scanning" /\ worker[r][j] = "dialing"
    /\ clock < MaxTime
    /\ clock' = clock + 1
    /\ Finish(r, j, [state |-> "open", at |-> clock + 1, data |-> data])
    /\ run' = [run EXCEPT ![r].sem = Released(r)]
    /\ UNCHANGED <<storeVars, authorization, lost, granted>>

ConnectFails(r, j, state) ==
    /\ run[r].pc = "scanning" /\ worker[r][j] = "dialing"
    /\ Finish(r, j, [state |-> state])
    /\ run' = [run EXCEPT ![r].sem = Released(r)]
    /\ UNCHANGED <<storeVars, authorization, clock, lost, granted>>

(* The ticker's channel holds one tick and drops the others.               *)
Tick(r) ==
    /\ r \in Limited /\ run[r].pc = "scanning" /\ ~run[r].tick
    /\ run' = [run EXCEPT ![r].tick = TRUE]
    /\ UNCHANGED <<storeVars, authorization, poolVars, lost, granted>>
-----------------------------------------------------------------------------
(* The world around the runs.                                              *)

(* UpdateAuthorizationStatus.                                              *)
UpdateAuthorizationStatus(status) ==
    /\ authorization' = status
    /\ UNCHANGED <<storeVars, run, poolVars, lost, granted>>

SetAssetStatus(a, status) ==
    /\ UpdateStatus(a, status)
    /\ UNCHANGED <<authorization, run, poolVars, lost, granted>>

Live(r) == run[r].pc \in {"admitted", "scanning", "persisting"}

Cancel(r) ==
    /\ "cancel" \in Faults /\ Live(r) /\ ~run[r].cancelled
    /\ run' = [run EXCEPT ![r].cancelled = TRUE]
    /\ UNCHANGED <<storeVars, authorization, poolVars, lost, granted>>

Crash(r) ==
    /\ "crash" \in Faults /\ Live(r)
    /\ run' = [run EXCEPT ![r] = [IdleRun EXCEPT !.pc = "crashed"]]
    /\ worker' = [worker EXCEPT ![r] = [j \in Job |-> "none"]]
    /\ results' = [results EXCEPT ![r] = [j \in Job |-> Unset]]
    /\ lost' = [lost EXCEPT ![r] = {}]
    /\ UNCHANGED <<storeVars, authorization, clock, granted>>
-----------------------------------------------------------------------------
WorkerStep(r, j) ==
    \/ Acquire(r, j)
    \/ AbandonQueued(r, j)
    \/ CheckContext(r, j)
    \/ AbandonSlot(r, j)
    \/ TakeTick(r, j)
    \/ \E data \in Data : ConnectOpen(r, j, data)
    \/ \E state \in {"closed", "error"} : ConnectFails(r, j, state)

MainStep(r) ==
    \/ Start(r)
    \/ Join(r)
    \/ PersistPort(r)
    \/ PersistFails(r)
    \/ Return(r)

Next ==
    \/ \E r \in Run :
          \/ Load(r)
          \/ MainStep(r)
          \/ \E j \in Job : WorkerStep(r, j)
          \/ Tick(r)
          \/ Cancel(r)
          \/ Crash(r)
    \/ \E status \in Decisions : UpdateAuthorizationStatus(status)
    \/ \E a \in Asset, status \in Lifecycle : SetAssetStatus(a, status)

Spec == Init /\ [][Next]_vars

(* A run that was admitted and lives goes on: its goroutines are scheduled,*)
(* its ticker ticks, a dial ends within its timeout.  Nobody has to start  *)
(* a run, to cancel it, or to administer targets and assets.               *)
Fairness == \A r \in Run :
    /\ WF_vars(MainStep(r))
    /\ WF_vars(Tick(r))
    /\ \A j \in Job : WF_vars(WorkerStep(r, j))

FairSpec == Spec /\ Fairness
-----------------------------------------------------------------------------
(* The semaphore counts the goroutines between their acquire and their     *)
(* return: no path keeps a slot, and no more than the limit dial at once.  *)
SlotsAccounted == \A r \in Run :
    /\ run[r].sem = Cardinality(Holding(r))
    /\ run[r].sem <= MaxConcurrency

(* When the pool is joined every job has a result, cancelled ones included,*)
(* and every slot is back (scanner.go:78-82).                              *)
ScanAccountsForEveryJob == \A r \in Run : run[r].pc \in {"persisting", "done"} =>
    /\ \A j \in JobsOf[r] : results[r][j] # Unset
    /\ run[r].sem = 0

(* A run that returned has stored every open port it saw, in the window of *)
(* its asset and with evidence, but for those whose own transaction failed:*)
(* one failure does not take the others with it (network.go:135-144).      *)
OpenPortsRecorded == \A r \in Run, j \in Job :
    run[r].pc = "done" /\ results[r][j].state = "open" =>
        \/ j \in lost[r]
        \/ /\ results[r][j].at \in assets[j].first..assets[j].last
           /\ results[r][j].data \in evidence[j]

(* Whatever is in the inventory was last written by a run that found the   *)
(* target AUTHORIZED, whatever became of the authorization since.          *)
InventoryAuthorized == \A a \in Asset :
    Known(a) => granted[assets[a].metadata] = "AUTHORIZED"

(* Once its context is done a run starts no further connection             *)
(* (scanner.go:78-79), not even for a goroutine that holds a slot or wins  *)
(* the limiter's select.                                                   *)
CancelStopsDials == [][\A r \in Run, j \in Job :
    run[r].cancelled /\ worker[r][j] # "dialing" => worker'[r][j] # "dialing"]_vars

(* No run hangs, neither on the semaphore or the limiter, nor cancelled in *)
(* the middle of either.                                                   *)
RunsEnd == \A r \in Run : Live(r) ~> ~Live(r)
=============================================================================
