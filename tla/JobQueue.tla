------------------------------ MODULE JobQueue ------------------------------
(***************************************************************************)
(* The database-backed job queue of the server: the `jobs` rows, the       *)
(* entity row (build, snapshot or reconciliation) each job drives, the     *)
(* workers that run run_pending_jobs, and the API requests that enqueue    *)
(* and cancel jobs.  Sources: server/jobs.py, server/handlers.py and the   *)
(* create/cancel endpoints under server/api.                               *)
(*                                                                         *)
(* The variables hold COMMITTED rows (PostgreSQL, READ COMMITTED).  What a *)
(* transaction has flushed and not committed is invisible to the others    *)
(* except for the row lock it holds, rowLock.  In particular the RUNNING   *)
(* status and the handler's entity writes are flushed in the transaction   *)
(* that later writes the terminal status, so no other session ever reads   *)
(* them: they show here only as pc = "running" and a held row lock.        *)
(***************************************************************************)
EXTENDS Naturals

CONSTANTS
  Jobs,             \* job rows, numbered in created_at order
  Workers,          \* processes or background tasks inside run_pending_jobs
  NoWorker,         \* "nobody holds this row lock"
  JobTypes,         \* the job types requests may enqueue
  MAX_ATTEMPTS,     \* jobs.MAX_ATTEMPTS
  SeededArtifacts,  \* which reconciliation inputs exist from earlier jobs
  MaxCrashes,       \* bound: worker deaths
  MaxOverruns       \* bound: leases that lapse while their worker still lives

ASSUME JobsAssumption     == Jobs \subseteq Nat \ {0}
ASSUME WorkersAssumption  == NoWorker \notin Workers
ASSUME TypesAssumption    == JobTypes \subseteq {"scan", "build", "snapshot", "reconcile", "other"}
ASSUME AttemptsAssumption == MAX_ATTEMPTS \in Nat \ {0}
ASSUME BoundsAssumption   == /\ MaxCrashes \in Nat
                             /\ MaxOverruns \in Nat
                             /\ SeededArtifacts \subseteq {"manifest", "snapshot"}

VARIABLES
  \* columns of the job row
  jobType, status, attempt_count, cancel_requested, lease,
  \* the related Build, InventorySnapshot or Reconciliation row's own state
  entity,
  \* the worker whose open transaction has updated the job row
  rowLock,
  \* per worker: place in run_pending_jobs, job id, the row as last loaded
  \* into its session, and how the handler ended
  pc, held, seen, outcome,
  \* per job: the entity state a :cancel request loaded before it waits for
  \* the job row ("none": no request in flight)
  cancelSeen,
  \* bookkeeping of the two bounds
  crashes, overruns

rowVars    == <<jobType, status, attempt_count, cancel_requested, lease, entity>>
workerVars == <<pc, held, seen, outcome>>
boundVars  == <<crashes, overruns>>
vars == <<jobType, status, attempt_count, cancel_requested, lease, entity,
          rowLock, pc, held, seen, outcome, cancelSeen, crashes, overruns>>

-----------------------------------------------------------------------------
(* Values *)

NoJob == 0

Terminal == {"completed", "failed", "cancelled"}

JobStatus == {"absent", "queued", "leased", "running"} \cup Terminal

\* lease_owner / lease_expires_at: both NULL, in the future, or in the past
LeaseState == {"none", "live", "expired"}

EntityState == {"none", "pending", "completed", "incomplete", "cancelled"}

\* The job types make_handlers registers
HandledTypes == {"scan", "build", "snapshot", "reconcile"}

\* The job types that drive an entity row with a state of its own
EntityTypes == {"build", "snapshot", "reconcile"}

\* A worker that is inside a handler has the job row's lock
InHandler == {"running", "checked"}

WorkerPc == {"idle", "leased", "loaded", "running", "checked", "rolledback", "reloaded"}

Outcome == {"none", "cancelled", "permanent", "transient"}

SeenRow == [status : JobStatus, lease : LeaseState, attempts : Nat]

NoRow == [status |-> "absent", lease |-> "none", attempts |-> 0]

-----------------------------------------------------------------------------
(* Session helpers *)

\* session.get(Job, id): the columns the worker's session now remembers
LoadRow(j) == [status |-> status[j], lease |-> lease[j], attempts |-> attempt_count[j]]

\* The ORM emits only the columns whose new value differs from the loaded one
Put(column, j, loaded, new) ==
  IF loaded = new THEN column ELSE [column EXCEPT ![j] = new]

\* No other transaction has updated row j and not ended yet
Unlocked(j) == rowLock[j] = NoWorker

\* A worker holds job j when it leased it and has not recorded the outcome
Holders(j) == {w \in Workers : held[w] = j}

\* The worker drops its session: idle, nothing loaded
Release(w) ==
  /\ pc'      = [pc EXCEPT ![w] = "idle"]
  /\ held'    = [held EXCEPT ![w] = NoJob]
  /\ seen'    = [seen EXCEPT ![w] = NoRow]
  /\ outcome' = [outcome EXCEPT ![w] = "none"]

\* Work transaction over (committed or rolled back): its row lock is gone
Unlock(w) == rowLock' = [j \in Jobs |-> IF rowLock[j] = w THEN NoWorker ELSE rowLock[j]]

-----------------------------------------------------------------------------
(* Requests that enqueue *)

enqueue_job(j, t) ==
  /\ status[j] = "absent"
  /\ t \in JobTypes
  /\ jobType' = [jobType EXCEPT ![j] = t]
  /\ status'  = [status EXCEPT ![j] = "queued"]
  /\ entity'  = [entity EXCEPT ![j] = IF t \in EntityTypes THEN "pending" ELSE "none"]
  /\ UNCHANGED <<attempt_count, cancel_requested, lease, rowLock, cancelSeen>>
  /\ UNCHANGED workerVars
  /\ UNCHANGED boundVars

scan_source_collection(j) == enqueue_job(j, "scan")

create_build(j) == enqueue_job(j, "build")

create_snapshot(j) == enqueue_job(j, "snapshot")

\* A finished build left a manifest, a finished snapshot left its artifact
InputsExist ==
  /\ \/ "manifest" \in SeededArtifacts
     \/ \E k \in Jobs : jobType[k] = "build" /\ entity[k] = "completed"
  /\ \/ "snapshot" \in SeededArtifacts
     \/ \E k \in Jobs : jobType[k] = "snapshot" /\ entity[k] \in {"completed", "incomplete"}

\* 404 without a manifest, 409 while no snapshot has an artifact
create_reconciliation(j) ==
  /\ InputsExist
  /\ enqueue_job(j, "reconcile")

\* A row whose type this worker's registry does not know
EnqueueUnknown(j) == enqueue_job(j, "other")

-----------------------------------------------------------------------------
(* Requests that cancel *)

\* The endpoint loads the entity row, without a lock, before the job row
LoadEntityForCancel(j) ==
  /\ jobType[j] \in EntityTypes
  /\ status[j] # "absent"
  /\ cancelSeen[j] = "none"
  /\ cancelSeen' = [cancelSeen EXCEPT ![j] = entity[j]]
  /\ UNCHANGED rowVars
  /\ UNCHANGED rowLock
  /\ UNCHANGED workerVars
  /\ UNCHANGED boundVars

\* Mutant: the terminal test is dropped
request_cancel_terminal(j) ==
  \/ /\ status[j] \in {"queued"} \cup Terminal
     /\ status' = [status EXCEPT ![j] = "cancelled"]
     /\ entity' = IF cancelSeen[j] = "pending" THEN [entity EXCEPT ![j] = "cancelled"] ELSE entity
     /\ UNCHANGED cancel_requested
  \/ /\ status[j] \in {"leased", "running"}
     /\ cancel_requested' = [cancel_requested EXCEPT ![j] = TRUE]
     /\ UNCHANGED <<status, entity>>

\* Mutant: the entity of a job cancelled while queued is left pending
request_cancel_job_only(j) ==
  \/ /\ status[j] = "queued"
     /\ status' = [status EXCEPT ![j] = "cancelled"]
     /\ UNCHANGED <<entity, cancel_requested>>
  \/ /\ status[j] \in {"leased", "running"}
     /\ cancel_requested' = [cancel_requested EXCEPT ![j] = TRUE]
     /\ UNCHANGED <<status, entity>>
  \/ /\ status[j] \in Terminal
     /\ UNCHANGED <<status, entity, cancel_requested>>

\* request_cancel on the locked row: cancelled, requested or not cancellable
request_cancel(j) ==
  \/ /\ status[j] = "queued"
     /\ status' = [status EXCEPT ![j] = "cancelled"]
     /\ entity' = IF cancelSeen[j] = "pending" THEN [entity EXCEPT ![j] = "cancelled"] ELSE entity
     /\ UNCHANGED cancel_requested
  \/ /\ status[j] \in {"leased", "running"}
     /\ cancel_requested' = [cancel_requested EXCEPT ![j] = TRUE]
     /\ UNCHANGED <<status, entity>>
  \/ /\ status[j] \in Terminal
     /\ UNCHANGED <<status, entity, cancel_requested>>

\* _cancel_entity_job: SELECT ... FOR UPDATE waits for the row lock
CancelEntityJob(j) ==
  /\ cancelSeen[j] # "none"
  /\ Unlocked(j)
  /\ request_cancel(j)
  /\ cancelSeen' = [cancelSeen EXCEPT ![j] = "none"]
  /\ UNCHANGED <<jobType, attempt_count, lease, rowLock>>
  /\ UNCHANGED workerVars
  /\ UNCHANGED boundVars

cancel_build(j) == jobType[j] = "build" /\ CancelEntityJob(j)

cancel_snapshot(j) == jobType[j] = "snapshot" /\ CancelEntityJob(j)

cancel_reconciliation(j) == jobType[j] = "reconcile" /\ CancelEntityJob(j)

-----------------------------------------------------------------------------
(* The worker: run_pending_jobs *)

\* Mutant: the lease's expiry is not compared with the clock
Leasable_any_lease(j) == status[j] \in {"queued", "leased", "running"}

\* Mutant: the jobs of dead workers are never picked up again
Leasable_queued_only(j) == status[j] = "queued"

Leasable(j) ==
  \/ status[j] = "queued"
  \/ status[j] \in {"leased", "running"} /\ lease[j] = "expired"

\* SELECT ... ORDER BY created_at LIMIT 1 FOR UPDATE SKIP LOCKED, then commit
lease_next_job(w) ==
  /\ pc[w] = "idle"
  /\ \E j \in Jobs :
       /\ Leasable(j) /\ Unlocked(j)
       /\ \A k \in Jobs : Leasable(k) /\ Unlocked(k) => j <= k
       /\ status' = [status EXCEPT ![j] = "leased"]
       /\ lease'  = [lease EXCEPT ![j] = "live"]
       /\ attempt_count' = [attempt_count EXCEPT ![j] = @ + 1]
       /\ held'   = [held EXCEPT ![w] = j]
  /\ pc' = [pc EXCEPT ![w] = "leased"]
  /\ UNCHANGED <<jobType, cancel_requested, entity, rowLock, seen, outcome, cancelSeen>>
  /\ UNCHANGED boundVars

\* work_session.get(Job, job_id), in a new session and without a lock
LoadLeased(w) ==
  /\ pc[w] = "leased"
  /\ pc'   = [pc EXCEPT ![w] = "loaded"]
  /\ seen' = [seen EXCEPT ![w] = LoadRow(held[w])]
  /\ UNCHANGED rowVars
  /\ UNCHANGED <<rowLock, held, outcome, cancelSeen>>
  /\ UNCHANGED boundVars

\* Mutant: RUNNING is not flushed before the handler is called
StartHandler_unflushed(w) ==
  /\ pc[w] = "loaded"
  /\ jobType[held[w]] \in HandledTypes
  /\ pc'   = [pc EXCEPT ![w] = "running"]
  /\ seen' = [seen EXCEPT ![w].status = "running"]
  /\ UNCHANGED rowVars
  /\ UNCHANGED <<rowLock, held, outcome, cancelSeen>>
  /\ UNCHANGED boundVars

\* status = RUNNING is flushed: the row lock is taken, nothing is committed
StartHandler(w) ==
  LET j == held[w] IN
  /\ pc[w] = "loaded"
  /\ jobType[j] \in HandledTypes
  /\ Unlocked(j)
  /\ rowLock' = [rowLock EXCEPT ![j] = w]
  /\ pc'   = [pc EXCEPT ![w] = "running"]
  /\ seen' = [seen EXCEPT ![w].status = "running"]
  /\ UNCHANGED rowVars
  /\ UNCHANGED <<held, outcome, cancelSeen>>
  /\ UNCHANGED boundVars

\* _finish: terminal status, lease columns cleared
Finish(w, s) ==
  /\ status' = Put(status, held[w], seen[w].status, s)
  /\ lease'  = Put(lease, held[w], seen[w].lease, "none")

\* handlers.get(job_type) is None
FailUnhandled(w) ==
  /\ pc[w] = "loaded"
  /\ jobType[held[w]] \notin HandledTypes
  /\ Unlocked(held[w])
  /\ Finish(w, "failed")
  /\ Release(w)
  /\ UNCHANGED <<jobType, attempt_count, cancel_requested, entity, rowLock, cancelSeen>>
  /\ UNCHANGED boundVars

\* Mutant: the transaction is left open when the handler fails
RollBack_forgotten(w, o) ==
  /\ pc'      = [pc EXCEPT ![w] = "rolledback"]
  /\ outcome' = [outcome EXCEPT ![w] = o]
  /\ UNCHANGED rowVars
  /\ UNCHANGED <<rowLock, held, seen, cancelSeen>>
  /\ UNCHANGED boundVars

\* The handler's exception reaches run_pending_jobs, which rolls back first
RollBack(w, o) ==
  /\ pc'      = [pc EXCEPT ![w] = "rolledback"]
  /\ outcome' = [outcome EXCEPT ![w] = o]
  /\ Unlock(w)
  /\ UNCHANGED rowVars
  /\ UNCHANGED <<held, seen, cancelSeen>>
  /\ UNCHANGED boundVars

\* Mutant: the session's own stale copy of the flag is tested
check_cancellation_stale(w) ==
  /\ pc[w] = "running"
  /\ jobType[held[w]] \in EntityTypes
  /\ pc' = [pc EXCEPT ![w] = "checked"]
  /\ UNCHANGED rowVars
  /\ UNCHANGED <<rowLock, held, seen, outcome, cancelSeen>>
  /\ UNCHANGED boundVars

\* check_cancellation re-reads the flag and returns; scans never call it
check_cancellation(w) ==
  /\ pc[w] = "running"
  /\ jobType[held[w]] \in EntityTypes
  /\ ~cancel_requested[held[w]]
  /\ pc' = [pc EXCEPT ![w] = "checked"]
  /\ UNCHANGED rowVars
  /\ UNCHANGED <<rowLock, held, seen, outcome, cancelSeen>>
  /\ UNCHANGED boundVars

\* check_cancellation raises JobCancelledError (a snapshot checks repeatedly)
HandlerCancelled(w) ==
  /\ \/ pc[w] = "running" /\ jobType[held[w]] \in EntityTypes
     \/ pc[w] = "checked" /\ jobType[held[w]] = "snapshot"
  /\ cancel_requested[held[w]]
  /\ RollBack(w, "cancelled")

\* PermanentJobError, or any other exception
HandlerRaises(w) ==
  /\ pc[w] \in InHandler
  /\ \E o \in {"permanent", "transient"} : RollBack(w, o)

\* What the handler leaves in its entity row when it returns
EntityAfter(t, old) ==
  CASE t = "snapshot"             -> {"completed", "incomplete"}
    [] t \in {"build", "reconcile"} -> {"completed"}
    [] OTHER                      -> {old}

\* A snapshot of a target without points returns without any check
ReturnsUnchecked(t) == t \in {"scan", "snapshot"}

\* The handler returns: _finish(COMPLETED), one commit with its own writes
HandlerReturns(w) ==
  LET j == held[w] IN
  /\ \/ pc[w] = "checked"
     \/ pc[w] = "running" /\ ReturnsUnchecked(jobType[j])
  /\ Finish(w, "completed")
  /\ \E e \in EntityAfter(jobType[j], entity[j]) : entity' = [entity EXCEPT ![j] = e]
  /\ Unlock(w)
  /\ Release(w)
  /\ UNCHANGED <<jobType, attempt_count, cancel_requested, cancelSeen>>
  /\ UNCHANGED boundVars

\* After the rollback the row is fetched again, again without a lock
ReloadJob(w) ==
  /\ pc[w] = "rolledback"
  /\ pc'   = [pc EXCEPT ![w] = "reloaded"]
  /\ seen' = [seen EXCEPT ![w] = LoadRow(held[w])]
  /\ UNCHANGED rowVars
  /\ UNCHANGED <<rowLock, held, outcome, cancelSeen>>
  /\ UNCHANGED boundVars

\* Mutant: no finalizer is registered for the job's type
FinalizeCancelled_unregistered(j) == entity' = entity

\* The cancel finalizers: PENDING (or RUNNING) entities become CANCELLED
FinalizeCancelled(j) ==
  entity' = IF jobType[j] \in EntityTypes /\ entity[j] = "pending"
            THEN [entity EXCEPT ![j] = "cancelled"] ELSE entity

\* The JobCancelledError branch: CANCELLED and the finalizer, one commit
RecordCancelled(w) ==
  /\ pc[w] = "reloaded" /\ outcome[w] = "cancelled"
  /\ Unlocked(held[w])
  /\ Finish(w, "cancelled")
  /\ FinalizeCancelled(held[w])
  /\ Release(w)
  /\ UNCHANGED <<jobType, attempt_count, cancel_requested, rowLock, cancelSeen>>
  /\ UNCHANGED boundVars

\* Mutant: one attempt too many
Retries_off_by_one(w) == outcome[w] = "transient" /\ seen[w].attempts <= MAX_ATTEMPTS

\* Whether a failure goes back to the queue
Retries(w) == outcome[w] = "transient" /\ seen[w].attempts < MAX_ATTEMPTS

\* _fail_in_fresh_row: QUEUED again under the budget, FAILED otherwise
fail_in_fresh_row(w) ==
  /\ pc[w] = "reloaded" /\ outcome[w] \in {"permanent", "transient"}
  /\ Unlocked(held[w])
  /\ Finish(w, IF Retries(w) THEN "queued" ELSE "failed")
  /\ Release(w)
  /\ UNCHANGED <<jobType, attempt_count, cancel_requested, entity, rowLock, cancelSeen>>
  /\ UNCHANGED boundVars

-----------------------------------------------------------------------------
(* The environment *)

\* The worker process dies; the database rolls its transaction back
Crash(w) ==
  /\ pc[w] # "idle"
  /\ crashes < MaxCrashes
  /\ crashes' = crashes + 1
  /\ Unlock(w)
  /\ Release(w)
  /\ UNCHANGED rowVars
  /\ UNCHANGED <<cancelSeen, overruns>>

\* lease_expires_at passes and no worker is left to renew or finish
OrphanLeaseExpires(j) ==
  /\ lease[j] = "live"
  /\ Holders(j) = {}
  /\ lease' = [lease EXCEPT ![j] = "expired"]
  /\ UNCHANGED <<jobType, status, attempt_count, cancel_requested, entity, rowLock, cancelSeen>>
  /\ UNCHANGED workerVars
  /\ UNCHANGED boundVars

\* lease_expires_at passes while the worker is still busy: no lease is renewed
BusyLeaseExpires(j) ==
  /\ lease[j] = "live"
  /\ Holders(j) # {}
  /\ overruns < MaxOverruns
  /\ overruns' = overruns + 1
  /\ lease' = [lease EXCEPT ![j] = "expired"]
  /\ UNCHANGED <<jobType, status, attempt_count, cancel_requested, entity, rowLock, cancelSeen, crashes>>
  /\ UNCHANGED workerVars

-----------------------------------------------------------------------------
Init ==
  /\ jobType = [j \in Jobs |-> "none"]
  /\ status  = [j \in Jobs |-> "absent"]
  /\ attempt_count = [j \in Jobs |-> 0]
  /\ cancel_requested = [j \in Jobs |-> FALSE]
  /\ lease   = [j \in Jobs |-> "none"]
  /\ entity  = [j \in Jobs |-> "none"]
  /\ rowLock = [j \in Jobs |-> NoWorker]
  /\ pc      = [w \in Workers |-> "idle"]
  /\ held    = [w \in Workers |-> NoJob]
  /\ seen    = [w \in Workers |-> NoRow]
  /\ outcome = [w \in Workers |-> "none"]
  /\ cancelSeen = [j \in Jobs |-> "none"]
  /\ crashes = 0
  /\ overruns = 0

Enqueue(j) ==
  \/ scan_source_collection(j)
  \/ create_build(j)
  \/ create_snapshot(j)
  \/ create_reconciliation(j)
  \/ EnqueueUnknown(j)

AnswerCancel(j) == cancel_build(j) \/ cancel_snapshot(j) \/ cancel_reconciliation(j)

run_pending_jobs(w) ==
  \/ lease_next_job(w)
  \/ LoadLeased(w)
  \/ FailUnhandled(w)
  \/ StartHandler(w)
  \/ check_cancellation(w)
  \/ HandlerCancelled(w)
  \/ HandlerRaises(w)
  \/ HandlerReturns(w)
  \/ ReloadJob(w)
  \/ RecordCancelled(w)
  \/ fail_in_fresh_row(w)

JobStep(j) ==
  \/ Enqueue(j)
  \/ LoadEntityForCancel(j)
  \/ AnswerCancel(j)
  \/ OrphanLeaseExpires(j)
  \/ BusyLeaseExpires(j)

Next ==
  \/ \E j \in Jobs : JobStep(j)
  \/ \E w \in Workers : run_pending_jobs(w) \/ Crash(w)

Spec == Init /\ [][Next]_vars

(***************************************************************************)
(* Fairness: a dedicated worker polls for ever (server_cmd.worker), so a   *)
(* worker step that stays possible is taken; the clock moves, so a lease   *)
(* nobody works on expires; a :cancel request that can go on goes on.      *)
(* Nothing makes clients enqueue or cancel, handlers fail or workers die.  *)
(***************************************************************************)
FairSpec ==
  /\ Spec
  /\ \A w \in Workers : WF_vars(run_pending_jobs(w))
  /\ \A j \in Jobs : WF_vars(OrphanLeaseExpires(j)) /\ WF_vars(AnswerCancel(j))

-----------------------------------------------------------------------------
(* Refinement: queued, leased and running are all "open" to a client *)

Phase(j) == IF status[j] \in {"queued", "leased", "running"} THEN "open" ELSE status[j]

Contract == INSTANCE JobContract WITH
  type <- jobType, phase <- [j \in Jobs |-> Phase(j)], result <- entity

-----------------------------------------------------------------------------
(* Properties *)

\* Every column and every worker's local state has its declared type.
TypeOK ==
  /\ jobType \in [Jobs -> JobTypes \cup {"none"}]
  /\ status \in [Jobs -> JobStatus]
  /\ attempt_count \in [Jobs -> Nat]
  /\ cancel_requested \in [Jobs -> BOOLEAN]
  /\ lease \in [Jobs -> LeaseState]
  /\ entity \in [Jobs -> EntityState]
  /\ rowLock \in [Jobs -> Workers \cup {NoWorker}]
  /\ pc \in [Workers -> WorkerPc]
  /\ held \in [Workers -> Jobs \cup {NoJob}]
  /\ seen \in [Workers -> SeenRow]
  /\ outcome \in [Workers -> Outcome]
  /\ cancelSeen \in [Jobs -> EntityState]
  /\ crashes \in 0..MaxCrashes
  /\ overruns \in 0..MaxOverruns

\* jobs.py: "two workers can never lease the same row": at any time at most
\* one worker is between leasing a job and recording its outcome.
AtMostOneHolder ==
  \A w1, w2 \in Workers : held[w1] = held[w2] /\ held[w1] # NoJob => w1 = w2

\* Two handler transactions never work on the same job at the same time,
\* however leases lapse: run_pending_jobs flushes RUNNING, and so locks the
\* row, before it calls the handler.
HandlersSerialized ==
  \A w1, w2 \in Workers :
    pc[w1] \in InHandler /\ pc[w2] \in InHandler /\ held[w1] = held[w2] => w1 = w2

\* Once a :cancel has set cancel_requested on a build or reconciliation job,
\* that job never ends COMPLETED: the flag cannot be set behind a handler
\* that already passed its check_cancellation.
FlaggedJobNeverCompletes ==
  \A j \in Jobs :
    cancel_requested[j] /\ jobType[j] \in {"build", "reconcile"} => status[j] # "completed"

\* A job row and the entity row it drives tell the same story at every
\* commit: completed together, cancelled together, and an entity is back in
\* its pre-run state while its job waits, runs or has failed.
EntityAgreesWithJob ==
  \A j \in Jobs :
    jobType[j] \in EntityTypes =>
      /\ status[j] = "completed" <=> entity[j] \in {"completed", "incomplete"}
      /\ status[j] = "cancelled" <=> entity[j] = "cancelled"

\* A job that reached a terminal status keeps it: no late worker puts it back
\* to work or rewrites its outcome.
TerminalIsFinal ==
  [][\A j \in Jobs : status[j] \in Terminal => status'[j] = status[j]]_vars

\* Retries are bounded: beyond MAX_ATTEMPTS a job is attempted again only
\* because a worker died or overran its lease, once for each.
AttemptsAccountedFor ==
  \A j \in Jobs : attempt_count[j] <= MAX_ATTEMPTS + crashes + overruns

\* Every enqueued job reaches a terminal status and stays in one: crashed
\* workers, lapsed leases, retries and cancels leave no job behind.
EveryJobSettles ==
  \A j \in Jobs : status[j] # "absent" ~> [](status[j] \in Terminal)

\* As long as no lease lapses under a live worker, the queue implements the
\* contract its clients rely on, the promise that a job settles included:
\* one outcome per job, committed together with its entity's state.
ImplementsContract == Contract!Spec

\* Every :cancel request is answered: the row lock it waits for is released
\* however the handler ends.
EveryCancelAnswered ==
  \A j \in Jobs : cancelSeen[j] # "none" ~> cancelSeen[j] = "none"

=============================================================================
