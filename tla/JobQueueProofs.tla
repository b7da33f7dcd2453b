--------------------------- MODULE JobQueueProofs ---------------------------
(***************************************************************************)
(* Theorems about JobQueue, for any number of jobs, workers and crashes,   *)
(* and any attempt budget.  Part 1 holds however leases lapse; part 2 is   *)
(* for timely workers, MaxOverruns = 0: no lease lapses under a live one.  *)
(***************************************************************************)
EXTENDS JobQueue, TLAPS

-----------------------------------------------------------------------------
(* The inductive invariants *)

\* A worker is busy exactly while it holds a job
BusyIffHolding == \A w \in Workers : (pc[w] = "idle") <=> (held[w] = NoJob)

\* A held job was enqueued
HeldEnqueued == \A w \in Workers : held[w] # NoJob => status[held[w]] # "absent"

TypeInv == TypeOK /\ BusyIffHolding /\ HeldEnqueued

\* A handler's transaction has updated its job row and still is open
HandlerOwnsLock == \A w \in Workers : pc[w] \in InHandler => rowLock[held[w]] = w

\* The types whose handler calls check_cancellation exactly once
CheckedOnce == {"build", "reconcile"}

\* Behind its check_cancellation a handler works on an unflagged job
CheckedUnflagged ==
  \A w \in Workers :
    pc[w] = "checked" /\ jobType[held[w]] \in CheckedOnce => ~cancel_requested[held[w]]

FlagInv == CheckedUnflagged /\ FlaggedJobNeverCompletes

-----------------------------------------------------------------------------
(* Part 1: invariants of every execution *)

USE JobsAssumption, WorkersAssumption, TypesAssumption, AttemptsAssumption, BoundsAssumption

\* The kinds of step a proof about Next has to look at.
LEMMA NextCases ==
  ASSUME Next
  PROVE  \/ \E j \in Jobs, t \in JobTypes : enqueue_job(j, t)
         \/ \E j \in Jobs : \/ LoadEntityForCancel(j)
                            \/ CancelEntityJob(j)
                            \/ OrphanLeaseExpires(j)
                            \/ BusyLeaseExpires(j)
         \/ \E w \in Workers : run_pending_jobs(w) \/ Crash(w)
<1>1. ASSUME NEW j \in Jobs, Enqueue(j) PROVE \E t \in JobTypes : enqueue_job(j, t)
  BY <1>1 DEF Enqueue, scan_source_collection, create_build, create_snapshot,
              create_reconciliation, EnqueueUnknown, enqueue_job
<1>2. ASSUME NEW j \in Jobs, AnswerCancel(j) PROVE CancelEntityJob(j)
  BY <1>2 DEF AnswerCancel, cancel_build, cancel_snapshot, cancel_reconciliation
<1> QED
  BY <1>1, <1>2 DEF Next, JobStep

\* TypeOK and what it needs hold initially.
LEMMA TypeInvInit == Init => TypeInv
  BY DEF Init, TypeInv, TypeOK, BusyIffHolding, HeldEnqueued, JobStatus, Terminal, LeaseState, EntityState,
         WorkerPc, Outcome, SeenRow, NoRow, NoJob

\* What a session loads is a well-formed row.
LEMMA LoadRowType ==
  ASSUME TypeOK, NEW j \in Jobs
  PROVE  LoadRow(j) \in SeenRow
<1>1. status[j] \in JobStatus /\ lease[j] \in LeaseState /\ attempt_count[j] \in Nat
  BY DEF TypeOK
<1> QED
  BY <1>1 DEF LoadRow, SeenRow

\* Every step keeps the types, and a worker busy exactly while it holds a job.
LEMMA TypeInvNext == TypeInv /\ [Next]_vars => TypeInv'
<1> SUFFICES ASSUME TypeInv, [Next]_vars PROVE TypeInv'
  OBVIOUS
<1> USE DEF TypeInv, TypeOK, BusyIffHolding, HeldEnqueued, JobStatus, Terminal, LeaseState, EntityState,
            WorkerPc, Outcome, SeenRow, NoRow, NoJob, rowVars, workerVars, boundVars
<1>1. CASE UNCHANGED vars
  BY <1>1 DEF vars
<1>2. ASSUME NEW j \in Jobs, NEW t \in JobTypes, enqueue_job(j, t) PROVE TypeInv'
  BY <1>2 DEF enqueue_job, EntityTypes
<1>3. ASSUME NEW j \in Jobs, LoadEntityForCancel(j) PROVE TypeInv'
  BY <1>3 DEF LoadEntityForCancel
<1>4. ASSUME NEW j \in Jobs, CancelEntityJob(j) PROVE TypeInv'
  <2>1. CASE status[j] = "queued"
    <3>1. /\ status' = [status EXCEPT ![j] = "cancelled"]
          /\ entity' \in [Jobs -> EntityState]
          /\ cancelSeen' = [cancelSeen EXCEPT ![j] = "none"]
          /\ UNCHANGED <<jobType, cancel_requested, attempt_count, lease, rowLock>>
          /\ UNCHANGED <<pc, held, seen, outcome, crashes, overruns>>
      BY <1>4, <2>1 DEF CancelEntityJob, request_cancel
    <3> QED
      BY <3>1
  <2>2. CASE status[j] \in {"leased", "running"}
    <3>1. /\ cancel_requested' = [cancel_requested EXCEPT ![j] = TRUE]
          /\ cancelSeen' = [cancelSeen EXCEPT ![j] = "none"]
          /\ UNCHANGED <<jobType, status, attempt_count, lease, entity, rowLock>>
          /\ UNCHANGED <<pc, held, seen, outcome, crashes, overruns>>
      BY <1>4, <2>2 DEF CancelEntityJob, request_cancel
    <3>2. cancel_requested' \in [Jobs -> BOOLEAN]
      BY <3>1, Zenon
    <3> QED
      BY <3>1, <3>2
  <2>3. CASE status[j] \in Terminal
    BY <1>4, <2>3 DEF CancelEntityJob, request_cancel
  <2> QED
    BY <1>4, <2>1, <2>2, <2>3 DEF CancelEntityJob, request_cancel
<1>5. ASSUME NEW j \in Jobs, OrphanLeaseExpires(j) \/ BusyLeaseExpires(j) PROVE TypeInv'
  BY <1>5 DEF OrphanLeaseExpires, BusyLeaseExpires
<1>6. ASSUME NEW w \in Workers, Crash(w) PROVE TypeInv'
  BY <1>6 DEF Crash, Release, Unlock
<1>7. ASSUME NEW w \in Workers, run_pending_jobs(w) PROVE TypeInv'
  <2>a. pc[w] # "idle" => held[w] \in Jobs
    OBVIOUS
  <2>b. held[w] \in Jobs => LoadRow(held[w]) \in SeenRow
    BY LoadRowType
  <2>1. CASE lease_next_job(w)
    <3>1. PICK j \in Jobs :
            /\ Leasable(j)
            /\ status' = [status EXCEPT ![j] = "leased"]
            /\ lease'  = [lease EXCEPT ![j] = "live"]
            /\ attempt_count' = [attempt_count EXCEPT ![j] = @ + 1]
            /\ held'   = [held EXCEPT ![w] = j]
      BY <2>1 DEF lease_next_job
    <3>2. /\ pc' = [pc EXCEPT ![w] = "leased"]
          /\ UNCHANGED <<jobType, cancel_requested, entity, rowLock, seen, outcome, cancelSeen>>
          /\ UNCHANGED <<crashes, overruns>>
      BY <2>1 DEF lease_next_job
    <3>3. j # NoJob
      OBVIOUS
    <3> QED
      BY <3>1, <3>2, <3>3
  <2>2. CASE LoadLeased(w)
    <3>1. seen' = [seen EXCEPT ![w] = LoadRow(held[w])] /\ LoadRow(held[w]) \in SeenRow
      BY <2>a, <2>b, <2>2 DEF LoadLeased
    <3>2. seen' \in [Workers -> SeenRow]
      BY <3>1
    <3> QED
      BY <2>2, <3>2 DEF LoadLeased
  <2>3. CASE FailUnhandled(w)
    BY <2>3 DEF FailUnhandled, Finish, Put, Release
  <2>4. CASE StartHandler(w)
    BY <2>4 DEF StartHandler
  <2>5. CASE check_cancellation(w)
    BY <2>5 DEF check_cancellation
  <2>6. CASE HandlerCancelled(w)
    BY <2>6 DEF HandlerCancelled, RollBack, Unlock
  <2>7. CASE HandlerRaises(w)
    BY <2>7 DEF HandlerRaises, RollBack, Unlock, InHandler
  <2>8. CASE HandlerReturns(w)
    <3>0. EntityAfter(jobType[held[w]], entity[held[w]]) \subseteq EntityState
      BY <2>a, <2>8 DEF HandlerReturns, EntityAfter
    <3>1. PICK e \in EntityState : entity' = [entity EXCEPT ![held[w]] = e]
      BY <2>8, <3>0 DEF HandlerReturns
    <3>2. entity' \in [Jobs -> EntityState]
      BY <3>1
    <3>3. /\ status' \in [Jobs -> JobStatus]
          /\ lease' \in [Jobs -> LeaseState]
      BY <2>8 DEF HandlerReturns, Finish, Put
    <3>4. rowLock' \in [Jobs -> Workers \cup {NoWorker}]
      BY <2>8 DEF HandlerReturns, Unlock
    <3>5. HeldEnqueued'
      BY <2>8 DEF HandlerReturns, Finish, Put, Release
    <3> QED
      BY <2>8, <3>2, <3>3, <3>4, <3>5 DEF HandlerReturns, Release
  <2>9. CASE ReloadJob(w)
    <3>1. seen' = [seen EXCEPT ![w] = LoadRow(held[w])] /\ LoadRow(held[w]) \in SeenRow
      BY <2>a, <2>b, <2>9 DEF ReloadJob
    <3>2. seen' \in [Workers -> SeenRow]
      BY <3>1
    <3> QED
      BY <2>9, <3>2 DEF ReloadJob
  <2>10. CASE RecordCancelled(w)
    BY <2>10 DEF RecordCancelled, Finish, Put, Release, FinalizeCancelled
  <2>11. CASE fail_in_fresh_row(w)
    BY <2>11 DEF fail_in_fresh_row, Finish, Put, Release, Retries
  <2> QED
    BY <1>7, <2>1, <2>2, <2>3, <2>4, <2>5, <2>6, <2>7, <2>8, <2>9, <2>10, <2>11 DEF run_pending_jobs
<1> QED
  BY <1>1, <1>2, <1>3, <1>4, <1>5, <1>6, <1>7, NextCases

\* TypeInv always holds, for any number of jobs and workers
LEMMA TypeInvariant == Spec => []TypeInv
  BY TypeInvInit, TypeInvNext, PTL DEF Spec

\* Every column and every worker's local state keeps its type.
THEOREM TypeCorrect == Spec => []TypeOK
  BY TypeInvariant, PTL DEF TypeInv

\* Every step keeps the row lock with the handler that took it.
LEMMA LockNext == TypeInv /\ HandlerOwnsLock /\ [Next]_vars => HandlerOwnsLock'
<1> SUFFICES ASSUME TypeInv, HandlerOwnsLock, [Next]_vars PROVE HandlerOwnsLock'
  OBVIOUS
<1> USE DEF TypeInv, TypeOK, BusyIffHolding, HandlerOwnsLock, InHandler, NoJob,
            rowVars, workerVars, boundVars
<1>1. CASE UNCHANGED vars
  BY <1>1 DEF vars
<1>2. ASSUME NEW j \in Jobs, NEW t \in JobTypes, enqueue_job(j, t) PROVE HandlerOwnsLock'
  BY <1>2 DEF enqueue_job
<1>3. ASSUME NEW j \in Jobs,
             LoadEntityForCancel(j) \/ CancelEntityJob(j) \/ OrphanLeaseExpires(j) \/ BusyLeaseExpires(j)
      PROVE  HandlerOwnsLock'
  BY <1>3 DEF LoadEntityForCancel, CancelEntityJob, OrphanLeaseExpires, BusyLeaseExpires
<1>4. ASSUME NEW w \in Workers, Crash(w) PROVE HandlerOwnsLock'
  BY <1>4 DEF Crash, Release, Unlock
<1>5. ASSUME NEW w \in Workers, run_pending_jobs(w) PROVE HandlerOwnsLock'
  <2>1. CASE lease_next_job(w)
    BY <2>1 DEF lease_next_job
  <2>2. CASE LoadLeased(w) \/ ReloadJob(w)
    BY <2>2 DEF LoadLeased, ReloadJob
  <2>3. CASE FailUnhandled(w) \/ RecordCancelled(w) \/ fail_in_fresh_row(w)
    BY <2>3 DEF FailUnhandled, RecordCancelled, fail_in_fresh_row, Release
  <2>4. CASE StartHandler(w)
    BY <2>4 DEF StartHandler, Unlocked
  <2>5. CASE check_cancellation(w)
    BY <2>5 DEF check_cancellation
  <2>6. CASE HandlerCancelled(w) \/ HandlerRaises(w)
    <3>1. /\ pc' = [pc EXCEPT ![w] = "rolledback"]
          /\ held' = held
          /\ Unlock(w)
      BY <2>6 DEF HandlerCancelled, HandlerRaises, RollBack
    <3> QED
      BY <3>1 DEF Unlock
  <2>7. CASE HandlerReturns(w)
    BY <2>7 DEF HandlerReturns, Release, Unlock
  <2> QED
    BY <1>5, <2>1, <2>2, <2>3, <2>4, <2>5, <2>6, <2>7 DEF run_pending_jobs
<1> QED
  BY <1>1, <1>2, <1>3, <1>4, <1>5, NextCases

\* Whoever is in a handler owns the row's lock, always
LEMMA LockInvariant == Spec => []HandlerOwnsLock
<1>1. Init => HandlerOwnsLock
  BY DEF Init, HandlerOwnsLock, InHandler
<1> QED
  BY <1>1, TypeInvariant, LockNext, PTL DEF Spec

\* Two handlers never run on one job at the same time, however many leases
\* lapse: the row lock run_pending_jobs takes before the handler excludes it.
THEOREM HandlersAreSerialized == Spec => []HandlersSerialized
<1>1. TypeInv /\ HandlerOwnsLock => HandlersSerialized
  BY DEF TypeInv, TypeOK, HandlerOwnsLock, HandlersSerialized
<1> QED
  BY <1>1, TypeInvariant, LockInvariant, PTL

\* Every step keeps a job behind its check, and a completed job, unflagged.
LEMMA FlagNext == TypeInv /\ HandlerOwnsLock /\ FlagInv /\ [Next]_vars => FlagInv'
<1> SUFFICES ASSUME TypeInv, HandlerOwnsLock, FlagInv, [Next]_vars PROVE FlagInv'
  OBVIOUS
<1> USE DEF TypeInv, TypeOK, BusyIffHolding, HeldEnqueued, HandlerOwnsLock, InHandler, NoJob,
            FlagInv, CheckedUnflagged, CheckedOnce, FlaggedJobNeverCompletes,
            rowVars, workerVars, boundVars
<1>1. CASE UNCHANGED vars
  BY <1>1 DEF vars
<1>2. ASSUME NEW j \in Jobs, NEW t \in JobTypes, enqueue_job(j, t) PROVE FlagInv'
  BY <1>2 DEF enqueue_job
<1>3. ASSUME NEW j \in Jobs, LoadEntityForCancel(j) \/ OrphanLeaseExpires(j) \/ BusyLeaseExpires(j)
      PROVE  FlagInv'
  BY <1>3 DEF LoadEntityForCancel, OrphanLeaseExpires, BusyLeaseExpires
<1>4. ASSUME NEW j \in Jobs, CancelEntityJob(j) PROVE FlagInv'
  \* A worker behind its check holds the row lock, and this step needs it free
  <2>1. \A w \in Workers : pc[w] = "checked" => held[w] # j
    BY <1>4 DEF CancelEntityJob, Unlocked
  <2>2. CheckedUnflagged'
    <3>1. \A k \in Jobs : k # j => cancel_requested'[k] = cancel_requested[k]
      BY <1>4 DEF CancelEntityJob, request_cancel
    <3>2. UNCHANGED <<jobType, pc, held>>
      BY <1>4 DEF CancelEntityJob
    <3> QED
      BY <2>1, <3>1, <3>2
  <2>3. FlaggedJobNeverCompletes'
    BY <1>4 DEF CancelEntityJob, request_cancel, Terminal
  <2> QED
    BY <2>2, <2>3
<1>5. ASSUME NEW w \in Workers, Crash(w) PROVE FlagInv'
  BY <1>5 DEF Crash, Release
<1>6. ASSUME NEW w \in Workers, run_pending_jobs(w) PROVE FlagInv'
  <2>1. CASE lease_next_job(w)
    BY <2>1 DEF lease_next_job
  <2>2. CASE LoadLeased(w) \/ ReloadJob(w) \/ StartHandler(w)
    BY <2>2 DEF LoadLeased, ReloadJob, StartHandler
  <2>3. CASE FailUnhandled(w) \/ RecordCancelled(w) \/ fail_in_fresh_row(w)
    <3>1. PICK s \in {"queued", "failed", "cancelled"} : Finish(w, s) /\ Release(w)
      BY <2>3 DEF FailUnhandled, RecordCancelled, fail_in_fresh_row
    <3>2. UNCHANGED <<jobType, cancel_requested>>
      BY <2>3 DEF FailUnhandled, RecordCancelled, fail_in_fresh_row
    <3> QED
      BY <3>1, <3>2 DEF Finish, Put, Release
  <2>4. CASE check_cancellation(w)
    BY <2>4 DEF check_cancellation
  <2>5. CASE HandlerCancelled(w) \/ HandlerRaises(w)
    BY <2>5 DEF HandlerCancelled, HandlerRaises, RollBack
  <2>6. CASE HandlerReturns(w)
    \* Only a checked build or reconciliation returns: the flag is not set
    <3>1. jobType[held[w]] \in CheckedOnce => ~cancel_requested[held[w]]
      BY <2>6 DEF HandlerReturns, ReturnsUnchecked
    <3>2. \A j \in Jobs : j # held[w] => status'[j] = status[j]
      BY <2>6 DEF HandlerReturns, Finish, Put
    <3>3. UNCHANGED <<jobType, cancel_requested>> /\ pc' = [pc EXCEPT ![w] = "idle"]
          /\ held' = [held EXCEPT ![w] = NoJob]
      BY <2>6 DEF HandlerReturns, Release
    <3> QED
      BY <3>1, <3>2, <3>3
  <2> QED
    BY <1>6, <2>1, <2>2, <2>3, <2>4, <2>5, <2>6 DEF run_pending_jobs
<1> QED
  BY <1>1, <1>2, <1>3, <1>4, <1>5, <1>6, NextCases

\* A build or reconciliation job whose cancel flag was set never completes,
\* whatever the interleaving of cancels, retries, crashes and lapsed leases.
THEOREM FlaggedNeverCompletes == Spec => []FlaggedJobNeverCompletes
<1>1. Init => FlagInv
  BY DEF Init, FlagInv, CheckedUnflagged, FlaggedJobNeverCompletes
<1>2. FlagInv => FlaggedJobNeverCompletes
  BY DEF FlagInv
<1> QED
  BY <1>1, <1>2, TypeInvariant, LockInvariant, FlagNext, PTL DEF Spec

-----------------------------------------------------------------------------
(* Part 2: timely workers *)

Timely == MaxOverruns = 0

\* A job is held by one worker, its row says so, and its lease is live
HeldLeased ==
  \A w \in Workers : held[w] # NoJob => status[held[w]] = "leased" /\ lease[held[w]] = "live"

\* What a worker's session remembers of the row is what makes _finish write
SessionFresh ==
  \A w \in Workers :
    /\ pc[w] \in {"loaded", "reloaded"} => seen[w].status = "leased"
    /\ pc[w] \in InHandler => seen[w].status = "running"

LeaseInv == AtMostOneHolder /\ HeldLeased /\ SessionFresh

\* Every step of a timely execution keeps leases exclusive.
LEMMA LeaseNext == Timely /\ TypeInv /\ LeaseInv /\ [Next]_vars => LeaseInv'
<1> SUFFICES ASSUME Timely, TypeInv, LeaseInv, [Next]_vars PROVE LeaseInv'
  OBVIOUS
<1> USE DEF TypeInv, TypeOK, BusyIffHolding, HeldEnqueued, NoJob, InHandler,
            LeaseInv, AtMostOneHolder, HeldLeased, SessionFresh, rowVars, workerVars, boundVars
<1>1. CASE UNCHANGED vars
  BY <1>1 DEF vars
<1>2. ASSUME NEW j \in Jobs, NEW t \in JobTypes, enqueue_job(j, t) PROVE LeaseInv'
  BY <1>2 DEF enqueue_job
<1>3. ASSUME NEW j \in Jobs, LoadEntityForCancel(j) PROVE LeaseInv'
  BY <1>3 DEF LoadEntityForCancel
<1>4. ASSUME NEW j \in Jobs, CancelEntityJob(j) PROVE LeaseInv'
  <2>1. UNCHANGED <<lease, pc, held, seen>>
    BY <1>4 DEF CancelEntityJob
  <2>2. \A k \in Jobs : status[k] = "leased" => status'[k] = "leased"
    BY <1>4 DEF CancelEntityJob, request_cancel
  <2>3. HeldLeased'
    <3> SUFFICES ASSUME NEW w \in Workers, held[w] # NoJob
                 PROVE  status'[held[w]] = "leased" /\ lease[held[w]] = "live"
      BY <2>1
    <3>1. held[w] \in Jobs /\ status[held[w]] = "leased" /\ lease[held[w]] = "live"
      OBVIOUS
    <3> QED
      BY <2>2, <3>1
  <2>4. AtMostOneHolder' /\ SessionFresh'
    BY <2>1
  <2> QED
    BY <2>3, <2>4
<1>5. ASSUME NEW j \in Jobs, OrphanLeaseExpires(j) PROVE LeaseInv'
  BY <1>5 DEF OrphanLeaseExpires, Holders
<1>6. ASSUME NEW j \in Jobs, BusyLeaseExpires(j) PROVE LeaseInv'
  BY <1>6 DEF BusyLeaseExpires, Timely
<1>7. ASSUME NEW w \in Workers, Crash(w) PROVE LeaseInv'
  BY <1>7 DEF Crash, Release
<1>8. ASSUME NEW w \in Workers, run_pending_jobs(w) PROVE LeaseInv'
  <2>a. pc[w] # "idle" => held[w] \in Jobs
    OBVIOUS
  <2>1. CASE lease_next_job(w)
    <3>1. PICK j \in Jobs :
            /\ Leasable(j)
            /\ status' = [status EXCEPT ![j] = "leased"]
            /\ lease'  = [lease EXCEPT ![j] = "live"]
            /\ held'   = [held EXCEPT ![w] = j]
      BY <2>1 DEF lease_next_job
    <3>2. pc' = [pc EXCEPT ![w] = "leased"] /\ seen' = seen
      BY <2>1 DEF lease_next_job
    \* A queued job and one with an expired lease have no holder
    <3>3. \A v \in Workers : held[v] # j
      BY <3>1 DEF Leasable
    <3> QED
      BY <3>1, <3>2, <3>3
  <2>2. CASE LoadLeased(w) \/ ReloadJob(w)
    <3>1. \E p \in {"loaded", "reloaded"} : pc' = [pc EXCEPT ![w] = p]
      BY <2>2 DEF LoadLeased, ReloadJob
    <3>2. seen' = [seen EXCEPT ![w] = LoadRow(held[w])]
      BY <2>2 DEF LoadLeased, ReloadJob
    <3>3. LoadRow(held[w]).status = "leased"
      BY <2>2, <2>a DEF LoadLeased, ReloadJob, LoadRow
    <3>4. UNCHANGED <<status, lease, held>>
      BY <2>2 DEF LoadLeased, ReloadJob
    <3> QED
      BY <3>1, <3>2, <3>3, <3>4
  <2>3. CASE FailUnhandled(w) \/ RecordCancelled(w) \/ fail_in_fresh_row(w)
    <3>1. PICK s \in JobStatus : Finish(w, s)
      BY <2>3 DEF FailUnhandled, RecordCancelled, fail_in_fresh_row, JobStatus, Terminal
    <3>2. Release(w) /\ held[w] \in Jobs
      BY <2>3 DEF FailUnhandled, RecordCancelled, fail_in_fresh_row
    <3> QED
      BY <3>1, <3>2 DEF Finish, Put, Release
  <2>4. CASE StartHandler(w)
    BY <2>4 DEF StartHandler, SeenRow
  <2>5. CASE check_cancellation(w)
    BY <2>5 DEF check_cancellation
  <2>6. CASE HandlerCancelled(w) \/ HandlerRaises(w)
    <3>1. /\ pc' = [pc EXCEPT ![w] = "rolledback"]
          /\ UNCHANGED <<status, lease, held, seen>>
      BY <2>6 DEF HandlerCancelled, HandlerRaises, RollBack
    <3> QED
      BY <3>1
  <2>7. CASE HandlerReturns(w)
    <3>1. Finish(w, "completed") /\ Release(w) /\ held[w] \in Jobs
      BY <2>7 DEF HandlerReturns
    <3> QED
      BY <3>1 DEF Finish, Put, Release
  <2> QED
    BY <1>8, <2>1, <2>2, <2>3, <2>4, <2>5, <2>6, <2>7 DEF run_pending_jobs
<1> QED
  BY <1>1, <1>2, <1>3, <1>4, <1>5, <1>6, <1>7, <1>8, NextCases

\* The lease facts always hold when no lease lapses under a live worker
LEMMA LeaseInvariant ==
  ASSUME Timely
  PROVE  Spec => []LeaseInv
<1>1. Init => LeaseInv
  BY DEF Init, LeaseInv, AtMostOneHolder, HeldLeased, SessionFresh, InHandler, NoJob
<1>2. TypeInv /\ LeaseInv /\ [Next]_vars => LeaseInv'
  BY LeaseNext
<1> QED
  BY <1>1, <1>2, TypeInvariant, PTL DEF Spec

\* jobs.py's promise that two workers never lease the same row, for workers
\* that finish within their lease, whatever crashes, retries and cancels do.
THEOREM OneHolder ==
  ASSUME Timely
  PROVE  Spec => []AtMostOneHolder
  BY LeaseInvariant, PTL DEF LeaseInv

-----------------------------------------------------------------------------
(* What a step of a timely execution does to the columns a client sees *)

\* The entity state that goes with each job status
EntityInv ==
  \A j \in Jobs :
    /\ jobType[j] \in EntityTypes =>
         /\ status[j] \in {"queued", "leased"} \cup Terminal
         /\ status[j] \in {"queued", "leased", "failed"} => entity[j] = "pending"
         /\ status[j] = "completed" => entity[j] \in {"completed", "incomplete"}
         /\ status[j] = "cancelled" => entity[j] = "cancelled"
    /\ jobType[j] \notin EntityTypes => entity[j] = "none"

\* A :cancel request in flight on an open job read a pending entity
CancelInv ==
  \A j \in Jobs :
    cancelSeen[j] # "none" =>
      /\ jobType[j] \in EntityTypes
      /\ status[j] \notin Terminal => cancelSeen[j] = "pending"

VisibleInv == EntityInv /\ CancelInv

\* At most one request leaves its waiting place
CancelAnswered(j) == cancelSeen' = cancelSeen \/ cancelSeen' = [cancelSeen EXCEPT ![j] = "none"]

\* A job appears
Appears(j) ==
  \E t \in JobTypes :
    /\ status[j] = "absent" /\ status' = [status EXCEPT ![j] = "queued"]
    /\ jobType' = [jobType EXCEPT ![j] = t]
    /\ entity' = [entity EXCEPT ![j] = IF t \in EntityTypes THEN "pending" ELSE "none"]
    /\ cancelSeen' = cancelSeen

\* An open job moves between queued and leased
Moves(j) ==
  \E s \in {"queued", "leased"} :
    /\ status[j] \in {"queued", "leased", "running"} /\ status' = [status EXCEPT ![j] = s]
    /\ UNCHANGED <<jobType, entity, cancelSeen>>

\* An open job and its entity settle together
Settles(j) ==
  \E s \in Terminal : \E e \in Contract!ResultOf(jobType[j], s) :
    /\ status[j] \in {"queued", "leased"} /\ status' = [status EXCEPT ![j] = s]
    /\ entity' = [entity EXCEPT ![j] = e]
    /\ jobType' = jobType
    /\ CancelAnswered(j)

\* Only the waiting cancel requests change
Quiet ==
  /\ UNCHANGED <<jobType, status, entity>>
  /\ \/ cancelSeen' = cancelSeen
     \/ \E j \in Jobs : CancelAnswered(j)
     \/ \E j \in Jobs : /\ jobType[j] \in EntityTypes
                        /\ cancelSeen' = [cancelSeen EXCEPT ![j] = entity[j]]

\* _finish by the one holder writes the status it was called with.
LEMMA FinishWrites ==
  ASSUME TypeInv, LeaseInv, NEW w \in Workers, pc[w] \in {"loaded", "reloaded"} \cup InHandler,
         NEW s \in {"queued"} \cup Terminal, Finish(w, s)
  PROVE  /\ held[w] \in Jobs
         /\ status[held[w]] = "leased"
         /\ status' = [status EXCEPT ![held[w]] = s]
<1>1. held[w] \in Jobs /\ status[held[w]] = "leased"
  BY DEF TypeInv, TypeOK, BusyIffHolding, LeaseInv, HeldLeased, InHandler, NoJob
<1>2. seen[w].status # s
  BY DEF LeaseInv, SessionFresh, Terminal
<1> QED
  BY <1>1, <1>2 DEF Finish, Put

\* Every step of a timely execution is one of the four kinds above.
LEMMA VisibleStep ==
  ASSUME Timely, TypeInv, LeaseInv, VisibleInv, [Next]_vars
  PROVE  Quiet \/ \E j \in Jobs : Appears(j) \/ Moves(j) \/ Settles(j)
<1> USE DEF rowVars, workerVars, boundVars
<1>1. CASE UNCHANGED vars
  BY <1>1 DEF vars, Quiet
<1>2. ASSUME NEW j \in Jobs, NEW t \in JobTypes, enqueue_job(j, t) PROVE Appears(j)
  BY <1>2 DEF enqueue_job, Appears
<1>3. ASSUME NEW j \in Jobs, LoadEntityForCancel(j) PROVE Quiet
  BY <1>3 DEF LoadEntityForCancel, Quiet
<1>4. ASSUME NEW j \in Jobs, CancelEntityJob(j) PROVE Settles(j) \/ Quiet
  <2>1. CASE status[j] = "queued"
    <3>1. cancelSeen[j] = "pending" /\ jobType[j] \in EntityTypes
      BY <1>4, <2>1 DEF CancelEntityJob, VisibleInv, CancelInv, Terminal
    <3>2. /\ status' = [status EXCEPT ![j] = "cancelled"]
          /\ entity' = [entity EXCEPT ![j] = "cancelled"]
          /\ jobType' = jobType
          /\ CancelAnswered(j)
      BY <1>4, <2>1, <3>1 DEF CancelEntityJob, request_cancel, CancelAnswered, Terminal
    <3>3. "cancelled" \in Contract!ResultOf(jobType[j], "cancelled")
      BY <3>1 DEF Contract!ResultOf, Contract!EntityTypes, EntityTypes
    <3> QED
      BY <2>1, <3>2, <3>3 DEF Settles, Terminal
  <2>2. CASE status[j] # "queued"
    BY <1>4, <2>2 DEF CancelEntityJob, request_cancel, Quiet, CancelAnswered
  <2> QED
    BY <2>1, <2>2
<1>5. ASSUME NEW j \in Jobs, OrphanLeaseExpires(j) \/ BusyLeaseExpires(j) PROVE Quiet
  BY <1>5 DEF OrphanLeaseExpires, BusyLeaseExpires, Quiet
<1>6. ASSUME NEW w \in Workers, Crash(w) PROVE Quiet
  BY <1>6 DEF Crash, Quiet
<1>7. ASSUME NEW w \in Workers, run_pending_jobs(w)
      PROVE  Quiet \/ \E j \in Jobs : Moves(j) \/ Settles(j)
  <2>1. CASE lease_next_job(w)
    BY <2>1 DEF lease_next_job, Leasable, Moves
  <2>2. CASE LoadLeased(w) \/ ReloadJob(w) \/ StartHandler(w) \/ check_cancellation(w)
    BY <2>2 DEF LoadLeased, ReloadJob, StartHandler, check_cancellation, Quiet
  <2>3. CASE HandlerCancelled(w) \/ HandlerRaises(w)
    BY <2>3 DEF HandlerCancelled, HandlerRaises, RollBack, Quiet
  <2>4. CASE FailUnhandled(w) \/ (fail_in_fresh_row(w) /\ ~Retries(w))
    <3>1. Finish(w, "failed") /\ UNCHANGED <<jobType, entity, cancelSeen>>
      BY <2>4 DEF FailUnhandled, fail_in_fresh_row
    <3>2. /\ held[w] \in Jobs
          /\ status[held[w]] = "leased"
          /\ status' = [status EXCEPT ![held[w]] = "failed"]
      BY <2>4, <3>1, FinishWrites DEF FailUnhandled, fail_in_fresh_row, Terminal
    <3>3. entity[held[w]] \in Contract!ResultOf(jobType[held[w]], "failed")
      BY <3>2 DEF VisibleInv, EntityInv, Contract!ResultOf, Contract!EntityTypes, EntityTypes
    <3>4. entity' = [entity EXCEPT ![held[w]] = entity[held[w]]]
      BY <3>1 DEF TypeInv, TypeOK
    <3> QED
      BY <3>1, <3>2, <3>3, <3>4 DEF Settles, CancelAnswered, Terminal
  <2>5. CASE fail_in_fresh_row(w) /\ Retries(w)
    <3>1. Finish(w, "queued") /\ UNCHANGED <<jobType, entity, cancelSeen>>
      BY <2>5 DEF fail_in_fresh_row
    <3>2. /\ held[w] \in Jobs
          /\ status[held[w]] = "leased"
          /\ status' = [status EXCEPT ![held[w]] = "queued"]
      BY <2>5, <3>1, FinishWrites DEF fail_in_fresh_row
    <3> QED
      BY <3>1, <3>2 DEF Moves
  <2>6. CASE RecordCancelled(w)
    <3>1. Finish(w, "cancelled") /\ FinalizeCancelled(held[w]) /\ UNCHANGED <<jobType, cancelSeen>>
      BY <2>6 DEF RecordCancelled
    <3>2. /\ held[w] \in Jobs
          /\ status[held[w]] = "leased"
          /\ status' = [status EXCEPT ![held[w]] = "cancelled"]
      BY <2>6, <3>1, FinishWrites DEF RecordCancelled, Terminal
    <3>3. CASE jobType[held[w]] \in EntityTypes
      <4>1. entity' = [entity EXCEPT ![held[w]] = "cancelled"]
        BY <3>1, <3>2, <3>3 DEF FinalizeCancelled, VisibleInv, EntityInv
      <4>2. "cancelled" \in Contract!ResultOf(jobType[held[w]], "cancelled")
        BY <3>3 DEF Contract!ResultOf, Contract!EntityTypes, EntityTypes
      <4> QED
        BY <3>1, <3>2, <4>1, <4>2 DEF Settles, CancelAnswered, Terminal
    <3>4. CASE jobType[held[w]] \notin EntityTypes
      <4>0. entity' = entity /\ entity[held[w]] = "none"
        BY <3>1, <3>2, <3>4 DEF FinalizeCancelled, VisibleInv, EntityInv
      <4>1. entity' = [entity EXCEPT ![held[w]] = "none"]
        BY <3>2, <4>0 DEF TypeInv, TypeOK
      <4>2. "none" \in Contract!ResultOf(jobType[held[w]], "cancelled")
        BY <3>4 DEF Contract!ResultOf, Contract!EntityTypes, EntityTypes
      <4> QED
        BY <3>1, <3>2, <4>1, <4>2 DEF Settles, CancelAnswered, Terminal
    <3> QED
      BY <3>3, <3>4
  <2>7. CASE HandlerReturns(w)
    <3>1. Finish(w, "completed") /\ UNCHANGED <<jobType, cancelSeen>>
      BY <2>7 DEF HandlerReturns
    <3>2. /\ held[w] \in Jobs
          /\ status[held[w]] = "leased"
          /\ status' = [status EXCEPT ![held[w]] = "completed"]
      BY <2>7, <3>1, FinishWrites DEF HandlerReturns, InHandler, Terminal
    <3>3. PICK e \in EntityAfter(jobType[held[w]], entity[held[w]]) :
            entity' = [entity EXCEPT ![held[w]] = e]
      BY <2>7 DEF HandlerReturns
    <3>4. e \in Contract!ResultOf(jobType[held[w]], "completed")
      <4>1. CASE jobType[held[w]] \in EntityTypes
        BY <3>3, <4>1 DEF EntityAfter, Contract!ResultOf, Contract!EntityTypes, EntityTypes
      <4>2. CASE jobType[held[w]] \notin EntityTypes
        <5>1. entity[held[w]] = "none"
          BY <3>2, <4>2 DEF VisibleInv, EntityInv
        <5> QED
          BY <3>3, <4>2, <5>1 DEF EntityAfter, Contract!ResultOf, Contract!EntityTypes, EntityTypes
      <4> QED
        BY <4>1, <4>2
    <3> QED
      BY <3>1, <3>2, <3>3, <3>4 DEF Settles, CancelAnswered, Terminal
  <2> QED
    BY <1>7, <2>1, <2>2, <2>3, <2>4, <2>5, <2>6, <2>7 DEF run_pending_jobs
<1> QED
  BY <1>1, <1>2, <1>3, <1>4, <1>5, <1>6, <1>7, NextCases

\* The four kinds of step keep entity, job and waiting cancels in agreement.
LEMMA VisibleNext ==
  ASSUME Timely, TypeInv, LeaseInv, VisibleInv, [Next]_vars
  PROVE  VisibleInv'
<1> USE DEF TypeInv, TypeOK, VisibleInv, EntityInv, CancelInv, Terminal
<1>1. CASE Quiet
  BY <1>1 DEF Quiet, CancelAnswered
<1>2. ASSUME NEW j \in Jobs, Appears(j) PROVE VisibleInv'
  BY <1>2 DEF Appears, EntityTypes
<1>3. ASSUME NEW j \in Jobs, Moves(j) PROVE VisibleInv'
  BY <1>3 DEF Moves, EntityTypes
<1>4. ASSUME NEW j \in Jobs, Settles(j) PROVE VisibleInv'
  <2>1. PICK s \in Terminal : \E e \in Contract!ResultOf(jobType[j], s) :
          /\ status' = [status EXCEPT ![j] = s]
          /\ entity' = [entity EXCEPT ![j] = e]
          /\ jobType' = jobType
          /\ CancelAnswered(j)
    BY <1>4 DEF Settles
  <2>2. EntityInv'
    BY <2>1 DEF Contract!ResultOf, Contract!EntityTypes, EntityTypes
  <2>3. CancelInv'
    BY <2>1 DEF CancelAnswered
  <2> QED
    BY <2>2, <2>3
<1> QED
  BY <1>1, <1>2, <1>3, <1>4, VisibleStep

\* What a client sees of job and entity always agrees, without lapsed leases
LEMMA VisibleInvariant ==
  ASSUME Timely
  PROVE  Spec => []VisibleInv
<1>1. Init => VisibleInv
  BY DEF Init, VisibleInv, EntityInv, CancelInv, EntityTypes
<1>2. TypeInv /\ LeaseInv /\ VisibleInv /\ [Next]_vars => VisibleInv'
  BY VisibleNext
<1> QED
  BY <1>1, <1>2, TypeInvariant, LeaseInvariant, PTL DEF Spec

\* A job row and the entity row it drives agree at every commit of a timely
\* execution: completed together, cancelled together.
THEOREM EntityAgrees ==
  ASSUME Timely
  PROVE  Spec => []EntityAgreesWithJob
<1>1. VisibleInv => EntityAgreesWithJob
  BY DEF VisibleInv, EntityInv, EntityAgreesWithJob, Terminal
<1> QED
  BY <1>1, VisibleInvariant, PTL

\* No step of a timely execution rewrites the outcome of a finished job.
THEOREM OutcomeIsFinal ==
  ASSUME Timely
  PROVE  Spec => TerminalIsFinal
<1>1. ASSUME TypeInv, LeaseInv, VisibleInv, [Next]_vars
      PROVE  [\A j \in Jobs : status[j] \in Terminal => status'[j] = status[j]]_vars
  BY <1>1, VisibleStep DEF Quiet, Appears, Moves, Settles, Terminal, TypeInv, TypeOK
<1>2. TypeInv /\ LeaseInv /\ VisibleInv /\ [Next]_vars
        => [\A j \in Jobs : status[j] \in Terminal => status'[j] = status[j]]_vars
  BY <1>1
<1> QED
  BY <1>2, TypeInvariant, LeaseInvariant, VisibleInvariant, PTL DEF Spec, TerminalIsFinal

\* The queue implements the safety part of JobContract: seen through Phase,
\* each of its steps is a submission, a settlement or nothing.
THEOREM Refinement ==
  ASSUME Timely
  PROVE  Spec => Contract!SafeSpec
<1>1. Init => Contract!Init
  BY DEF Init, Contract!Init, Phase
<1>2. ASSUME TypeInv, LeaseInv, VisibleInv, [Next]_vars
      PROVE  [Contract!Next]_(Contract!vars)
  <2> DEFINE phase == [j \in Jobs |-> Phase(j)]
  <2>1. CASE Quiet
    BY <2>1 DEF Quiet, Contract!vars, Phase
  <2>2. ASSUME NEW j \in Jobs, Appears(j) PROVE Contract!Submit(j)
    <3>1. phase[j] = "absent" /\ phase' = [phase EXCEPT ![j] = "open"]
      BY <1>2, <2>2 DEF Appears, Phase, TypeInv, TypeOK
    <3> QED
      BY <2>2, <3>1 DEF Appears, Contract!Submit, Contract!EntityTypes, EntityTypes
  <2>3. ASSUME NEW j \in Jobs, Moves(j) PROVE UNCHANGED Contract!vars
    <3>1. phase' = phase
      BY <1>2, <2>3 DEF Moves, Phase, TypeInv, TypeOK
    <3> QED
      BY <2>3, <3>1 DEF Moves, Contract!vars
  <2>4. ASSUME NEW j \in Jobs, Settles(j) PROVE Contract!Settle(j)
    <3>1. PICK s \in Terminal : \E e \in Contract!ResultOf(jobType[j], s) :
            /\ status[j] \in {"queued", "leased"} /\ status' = [status EXCEPT ![j] = s]
            /\ entity' = [entity EXCEPT ![j] = e]
            /\ jobType' = jobType
      BY <2>4 DEF Settles
    <3>2. phase[j] = "open" /\ phase' = [phase EXCEPT ![j] = s]
      BY <1>2, <3>1 DEF Phase, TypeInv, TypeOK, Terminal
    <3> QED
      BY <3>1, <3>2 DEF Contract!Settle, Terminal
  <2> QED
    BY <1>2, <2>1, <2>2, <2>3, <2>4, VisibleStep DEF Contract!Next
<1>3. TypeInv /\ LeaseInv /\ VisibleInv /\ [Next]_vars => [Contract!Next]_(Contract!vars)
  BY <1>2
<1> QED
  BY <1>1, <1>3, TypeInvariant, LeaseInvariant, VisibleInvariant, PTL DEF Spec, Contract!SafeSpec

-----------------------------------------------------------------------------
(* The attempt budget *)

\* A job nobody holds has an attempt left, or a crash to blame for the next
AttemptInv ==
  /\ \A j \in Jobs :
       /\ attempt_count[j] <= MAX_ATTEMPTS + crashes
       /\ status[j] # "running"
       /\ status[j] = "absent" => attempt_count[j] = 0
       /\ status[j] = "queued" => attempt_count[j] < MAX_ATTEMPTS
       /\ status[j] = "leased" /\ (\A w \in Workers : held[w] # j)
            => attempt_count[j] < MAX_ATTEMPTS + crashes
  /\ \A w \in Workers : pc[w] = "reloaded" => seen[w].attempts = attempt_count[held[w]]

\* A worker's last step on a job records an outcome and frees the worker.
LEMMA AttemptFinish ==
  ASSUME TypeInv, LeaseInv, AttemptInv, NEW w \in Workers, held[w] \in Jobs,
         NEW s \in {"queued"} \cup Terminal,
         status' = [status EXCEPT ![held[w]] = s],
         s = "queued" => attempt_count[held[w]] < MAX_ATTEMPTS,
         Release(w), UNCHANGED <<attempt_count, crashes>>
  PROVE  AttemptInv'
BY DEF TypeInv, TypeOK, LeaseInv, AtMostOneHolder, AttemptInv, Release, Terminal, NoJob

\* Every step of a timely execution keeps the account of attempts.
LEMMA AttemptNext ==
  ASSUME Timely, TypeInv, LeaseInv, AttemptInv, [Next]_vars
  PROVE  AttemptInv'
<1> USE DEF rowVars, workerVars, boundVars
<1>1. CASE UNCHANGED vars
  BY <1>1 DEF vars, AttemptInv
<1>2. ASSUME NEW j \in Jobs, NEW t \in JobTypes, enqueue_job(j, t) PROVE AttemptInv'
  BY <1>2 DEF enqueue_job, AttemptInv, TypeInv, TypeOK
<1>3. ASSUME NEW j \in Jobs, LoadEntityForCancel(j) \/ OrphanLeaseExpires(j) \/ BusyLeaseExpires(j)
      PROVE  AttemptInv'
  BY <1>3 DEF LoadEntityForCancel, OrphanLeaseExpires, BusyLeaseExpires, AttemptInv
<1>4. ASSUME NEW j \in Jobs, CancelEntityJob(j) PROVE AttemptInv'
  <2>1. UNCHANGED <<attempt_count, crashes, pc, held, seen>>
    BY <1>4 DEF CancelEntityJob
  <2>2. status' = status \/ status' = [status EXCEPT ![j] = "cancelled"]
    BY <1>4 DEF CancelEntityJob, request_cancel
  <2> QED
    BY <2>1, <2>2 DEF AttemptInv, TypeInv, TypeOK
<1>5. ASSUME NEW w \in Workers, Crash(w) PROVE AttemptInv'
  BY <1>5 DEF Crash, Release, AttemptInv, TypeInv, TypeOK, NoJob
<1>6. ASSUME NEW w \in Workers, run_pending_jobs(w) PROVE AttemptInv'
  <2>a. pc[w] # "idle" => held[w] \in Jobs
    BY DEF TypeInv, TypeOK, BusyIffHolding, NoJob
  <2>1. CASE lease_next_job(w)
    <3>1. PICK j \in Jobs :
            /\ Leasable(j)
            /\ status' = [status EXCEPT ![j] = "leased"]
            /\ attempt_count' = [attempt_count EXCEPT ![j] = @ + 1]
            /\ held'   = [held EXCEPT ![w] = j]
      BY <2>1 DEF lease_next_job
    <3>2. pc[w] = "idle" /\ pc' = [pc EXCEPT ![w] = "leased"] /\ UNCHANGED <<seen, crashes>>
      BY <2>1 DEF lease_next_job
    <3>3. \A v \in Workers : held[v] # j
      BY <3>1 DEF Leasable, LeaseInv, HeldLeased, TypeInv, TypeOK, NoJob
    <3>4. attempt_count[j] < MAX_ATTEMPTS + crashes
      BY <3>1, <3>3 DEF Leasable, AttemptInv, TypeInv, TypeOK
    <3>5. held[w] = NoJob
      BY <3>2 DEF TypeInv, BusyIffHolding
    <3> QED
      BY <3>1, <3>2, <3>3, <3>4, <3>5 DEF AttemptInv, TypeInv, TypeOK, NoJob
  <2>2. CASE LoadLeased(w) \/ StartHandler(w) \/ check_cancellation(w)
    BY <2>2 DEF LoadLeased, StartHandler, check_cancellation, AttemptInv, TypeInv, TypeOK
  <2>3. CASE HandlerCancelled(w) \/ HandlerRaises(w)
    <3>1. /\ pc' = [pc EXCEPT ![w] = "rolledback"]
          /\ UNCHANGED <<status, attempt_count, held, seen, crashes>>
      BY <2>3 DEF HandlerCancelled, HandlerRaises, RollBack
    <3> QED
      BY <3>1 DEF AttemptInv, TypeInv, TypeOK
  <2>4. CASE ReloadJob(w)
    BY <2>4 DEF ReloadJob, LoadRow, AttemptInv, TypeInv, TypeOK
  <2>5. CASE FailUnhandled(w) \/ RecordCancelled(w) \/ HandlerReturns(w)
    <3>1. PICK s \in Terminal : Finish(w, s)
      BY <2>5 DEF FailUnhandled, RecordCancelled, HandlerReturns, Terminal
    <3>2. Release(w) /\ UNCHANGED <<attempt_count, crashes>>
      BY <2>5 DEF FailUnhandled, RecordCancelled, HandlerReturns
    <3>3. held[w] \in Jobs /\ status' = [status EXCEPT ![held[w]] = s]
      BY <2>5, <3>1, FinishWrites DEF FailUnhandled, RecordCancelled, HandlerReturns, InHandler
    <3> QED
      BY <3>1, <3>2, <3>3, AttemptFinish DEF Terminal
  <2>6. CASE fail_in_fresh_row(w)
    <3> DEFINE s == IF Retries(w) THEN "queued" ELSE "failed"
    <3>1. Finish(w, s) /\ Release(w) /\ UNCHANGED <<attempt_count, crashes>>
      BY <2>6 DEF fail_in_fresh_row
    <3>2. s \in {"queued"} \cup Terminal
      BY DEF Terminal
    <3>3. held[w] \in Jobs /\ status' = [status EXCEPT ![held[w]] = s]
      BY <2>6, <3>1, <3>2, FinishWrites DEF fail_in_fresh_row
    <3>4. s = "queued" => attempt_count[held[w]] < MAX_ATTEMPTS
      BY <2>6 DEF fail_in_fresh_row, Retries, AttemptInv
    <3> QED
      BY <3>1, <3>2, <3>3, <3>4, AttemptFinish
  <2> QED
    BY <1>6, <2>1, <2>2, <2>3, <2>4, <2>5, <2>6 DEF run_pending_jobs
<1> QED
  BY <1>1, <1>2, <1>3, <1>4, <1>5, <1>6, NextCases

\* Retries are bounded in every timely execution: each attempt beyond the
\* budget is paid for by the death of a worker.
THEOREM AttemptsBounded ==
  ASSUME Timely
  PROVE  Spec => []AttemptsAccountedFor
<1>1. Init => AttemptInv
  BY DEF Init, AttemptInv
<1>2. TypeInv /\ LeaseInv /\ AttemptInv /\ [Next]_vars => AttemptInv'
  BY AttemptNext
<1>3. TypeInv /\ AttemptInv => AttemptsAccountedFor
  <2> SUFFICES ASSUME TypeInv, AttemptInv, NEW j \in Jobs
               PROVE  attempt_count[j] <= MAX_ATTEMPTS + crashes + overruns
    BY DEF AttemptsAccountedFor
  <2>1. attempt_count[j] \in Nat /\ crashes \in Nat /\ overruns \in Nat
    BY DEF TypeInv, TypeOK
  <2>2. attempt_count[j] <= MAX_ATTEMPTS + crashes
    BY DEF AttemptInv
  <2> QED
    BY <2>1, <2>2
<1> QED
  BY <1>1, <1>2, <1>3, TypeInvariant, LeaseInvariant, PTL DEF Spec

=============================================================================
