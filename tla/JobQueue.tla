------------------------------ MODULE JobQueue ------------------------------
(***************************************************************************)
(* The Postgres job queue: the rows of the table `jobs`, the workers that  *)
(* claim, run, heartbeat, checkpoint, finalize and reap them               *)
(* (apps/worker/src/queue.rs, runner.rs, context.rs) and the API requests  *)
(* that enqueue, cancel and retry them (apps/api/src/modules/jobs).        *)
(*                                                                         *)
(* One SQL statement, or one transaction whose first statement locks the   *)
(* row, is one action: Postgres makes it atomic.  What a worker or a       *)
(* request remembers between two statements is state of its own.           *)
(*                                                                         *)
(* Time is abstract.  due[j] is run_at <= now(), fresh[j] is heartbeat_at  *)
(* within STALE_AFTER_SECS.  A lease may expire under a worker that is     *)
(* still running the job: a paused process, a lost database connection.    *)
(***************************************************************************)
EXTENDS Integers, FiniteSets

CONSTANTS
    Jobs,           \* ids of the rows `jobs` may ever hold
    Workers,        \* worker ids (WORKER_ID, one process each)
    Requests,       \* cancel requests the API serves at the same time
    None,           \* SQL NULL, and "no job" of an idle worker
    KeyOf,          \* concurrency_key of each job, None if it has none
    ChainKey,       \* "catalog.movies": the one key whose jobs are continued
    MaxAttempts,    \* jobs.max_attempts (the column's default, 3)
    MaxBatches,     \* bound: checkpoints a handler saves
    MaxShutdowns    \* bound: SIGTERMs the workers receive

ASSUME ConstantsAssumption ==
    /\ None \notin Jobs \cup Workers
    /\ MaxAttempts \in Nat \ {0}
    /\ MaxBatches \in Nat
    /\ MaxShutdowns \in Nat

VARIABLES
    \* the table `jobs`
    status, attempts, lockedBy, fresh, due, cancelRequested, checkpoint,
    \* each worker process: where run_job is, the job it runs, the position its
    \* handler last saved, its JobFlags, its CancellationToken, its result
    pc, active, position, cancelFlag, lockLost, shutdown, outcome,
    \* each cancel request: where CancelJobHandler.handle is, and its job
    cancelPc, cancelJob,
    \* history: workers whose job was taken from them during the present run
    stolen,
    \* SIGTERMs so far
    shutdowns

rows == <<status, attempts, lockedBy, fresh, due, cancelRequested, checkpoint>>
workers == <<pc, active, position, cancelFlag, lockLost, shutdown, outcome>>
requests == <<cancelPc, cancelJob>>
vars == <<rows, workers, requests, stolen, shutdowns>>

-----------------------------------------------------------------------------
(* Rows *)

\* status in ('queued', 'running'): the predicate of the partial unique index
ActiveStatuses == {"queued", "running"}
RetryableStatuses == {"failed", "cancelled"}
TerminalStatuses == {"succeeded"} \cup RetryableStatuses
Statuses == {"absent"} \cup ActiveStatuses \cup TerminalStatuses

\* mutant of KeyFree: the index covers queued jobs only
KeyFreeOfQueued(j) ==
    KeyOf[j] = None \/ \A k \in Jobs \ {j} : KeyOf[k] = KeyOf[j] => status[k] # "queued"

\* jobs_active_concurrency_key_idx lets j become active
KeyFree(j) ==
    KeyOf[j] = None \/ \A k \in Jobs \ {j} :
        KeyOf[k] = KeyOf[j] => status[k] \notin ActiveStatuses

\* mutant of Held: the guard forgets the worker
HeldByAnyone(j, w) == status[j] = "running"

\* HELD_BY_ME
Held(j, w) == lockedBy[j] = w /\ status[j] = "running"

Busy(w) == pc[w] \in {"running", "returned"}

Init ==
    /\ status = [j \in Jobs |-> "absent"]
    /\ attempts = [j \in Jobs |-> 0]
    /\ lockedBy = [j \in Jobs |-> None]
    /\ fresh = [j \in Jobs |-> FALSE]
    /\ due = [j \in Jobs |-> FALSE]
    /\ cancelRequested = [j \in Jobs |-> FALSE]
    /\ checkpoint = [j \in Jobs |-> 0]
    /\ pc = [w \in Workers |-> "down"]
    /\ active = [w \in Workers |-> None]
    /\ position = [w \in Workers |-> 0]
    /\ cancelFlag = [w \in Workers |-> FALSE]
    /\ lockLost = [w \in Workers |-> FALSE]
    /\ shutdown = [w \in Workers |-> FALSE]
    /\ outcome = [w \in Workers |-> "none"]
    /\ cancelPc = [r \in Requests |-> "idle"]
    /\ cancelJob = [r \in Requests |-> None]
    /\ stolen = {}
    /\ shutdowns = 0

-----------------------------------------------------------------------------
(* The API *)

\* JobsRepository.enqueue: INSERT ... ON CONFLICT DO NOTHING
Enqueue(j) ==
    /\ status[j] = "absent" /\ KeyFree(j)
    /\ status' = [status EXCEPT ![j] = "queued"]
    /\ due' = [due EXCEPT ![j] = TRUE]
    /\ UNCHANGED <<attempts, lockedBy, fresh, cancelRequested, checkpoint,
                   workers, requests, stolen, shutdowns>>

\* mutant of Retry: attempts are not reset
RetryKeepingAttempts(j) ==
    /\ status[j] \in RetryableStatuses /\ KeyFree(j)
    /\ status' = [status EXCEPT ![j] = "queued"]
    /\ cancelRequested' = [cancelRequested EXCEPT ![j] = FALSE]
    /\ due' = [due EXCEPT ![j] = TRUE]
    /\ lockedBy' = [lockedBy EXCEPT ![j] = None]
    /\ fresh' = [fresh EXCEPT ![j] = FALSE]
    /\ UNCHANGED <<attempts, checkpoint, workers, requests, stolen, shutdowns>>

\* RetryJobHandler.handle: the reads before requeue only refuse earlier
Retry(j) ==
    /\ status[j] \in RetryableStatuses /\ KeyFree(j)
    /\ status' = [status EXCEPT ![j] = "queued"]
    /\ attempts' = [attempts EXCEPT ![j] = 0]
    /\ cancelRequested' = [cancelRequested EXCEPT ![j] = FALSE]
    /\ due' = [due EXCEPT ![j] = TRUE]
    /\ lockedBy' = [lockedBy EXCEPT ![j] = None]
    /\ fresh' = [fresh EXCEPT ![j] = FALSE]
    /\ UNCHANGED <<checkpoint, workers, requests, stolen, shutdowns>>

\* where the status read by findById sends the request; a finished job is
\* refused at once
FindById(r, j) ==
    /\ cancelPc[r] = "idle" /\ status[j] # "absent"
    /\ cancelPc' = [cancelPc EXCEPT ![r] =
           CASE status[j] = "queued"  -> "cancelQueued"
             [] status[j] = "running" -> "requestCancel"
             [] OTHER                 -> "refused"]
    /\ cancelJob' = [cancelJob EXCEPT ![r] = j]
    /\ UNCHANGED <<rows, workers, stolen, shutdowns>>

\* JobsRepository.cancelQueued; a job claimed meanwhile falls through
CancelQueued(r) ==
    LET j == cancelJob[r] IN
    /\ cancelPc[r] = "cancelQueued"
    /\ \/ /\ status[j] = "queued"
          /\ status' = [status EXCEPT ![j] = "cancelled"]
          /\ lockedBy' = [lockedBy EXCEPT ![j] = None]
          /\ cancelPc' = [cancelPc EXCEPT ![r] = "accepted"]
       \/ /\ status[j] # "queued"
          /\ cancelPc' = [cancelPc EXCEPT ![r] = "requestCancel"]
          /\ UNCHANGED <<status, lockedBy>>
    /\ UNCHANGED <<attempts, fresh, due, cancelRequested, checkpoint,
                   workers, cancelJob, stolen, shutdowns>>

\* JobsRepository.requestCancel; not running any more: err_job_invalid_state
RequestCancel(r) ==
    LET j == cancelJob[r] IN
    /\ cancelPc[r] = "requestCancel"
    /\ \/ /\ status[j] = "running"
          /\ cancelRequested' = [cancelRequested EXCEPT ![j] = TRUE]
          /\ cancelPc' = [cancelPc EXCEPT ![r] = "accepted"]
       \/ /\ status[j] # "running"
          /\ cancelPc' = [cancelPc EXCEPT ![r] = "refused"]
          /\ UNCHANGED cancelRequested
    /\ UNCHANGED <<status, attempts, lockedBy, fresh, due, checkpoint,
                   workers, cancelJob, stolen, shutdowns>>

\* the answer leaves; the slot serves another request
Respond(r) ==
    /\ cancelPc[r] \in {"accepted", "refused"}
    /\ cancelPc' = [cancelPc EXCEPT ![r] = "idle"]
    /\ cancelJob' = [cancelJob EXCEPT ![r] = None]
    /\ UNCHANGED <<rows, workers, stolen, shutdowns>>

-----------------------------------------------------------------------------
(* Time *)

\* the clock passes run_at
BecomesDue(j) ==
    /\ status[j] = "queued" /\ ~due[j]
    /\ due' = [due EXCEPT ![j] = TRUE]
    /\ UNCHANGED <<status, attempts, lockedBy, fresh, cancelRequested,
                   checkpoint, workers, requests, stolen, shutdowns>>

\* STALE_AFTER_SECS pass without a heartbeat
LeaseExpires(j) ==
    /\ status[j] = "running" /\ fresh[j]
    /\ fresh' = [fresh EXCEPT ![j] = FALSE]
    /\ UNCHANGED <<status, attempts, lockedBy, due, cancelRequested,
                   checkpoint, workers, requests, stolen, shutdowns>>

-----------------------------------------------------------------------------
(* Workers: claim, run, checkpoint, finalize *)

\* Runner::run, up to the claim loop
Start(w) ==
    /\ pc[w] = "down"
    /\ pc' = [pc EXCEPT ![w] = "idle"]
    /\ shutdown' = [shutdown EXCEPT ![w] = FALSE]
    /\ UNCHANGED <<rows, active, position, cancelFlag, lockLost, outcome,
                   requests, stolen, shutdowns>>

\* the UPDATE of queue::claim
ClaimRow(w, j) ==
    /\ pc[w] = "idle" /\ ~shutdown[w]
    /\ status[j] = "queued" /\ due[j]
    /\ status' = [status EXCEPT ![j] = "running"]
    /\ lockedBy' = [lockedBy EXCEPT ![j] = w]
    /\ fresh' = [fresh EXCEPT ![j] = TRUE]
    /\ attempts' = [attempts EXCEPT ![j] = @ + 1]
    /\ UNCHANGED <<due, cancelRequested, checkpoint, requests, shutdowns>>

\* claim_loop gets the row: run_job builds the JobContext and spawns the handler
Claim(w, j) ==
    /\ ClaimRow(w, j)
    /\ pc' = [pc EXCEPT ![w] = "running"]
    /\ active' = [active EXCEPT ![w] = j]
    /\ position' = [position EXCEPT ![w] = checkpoint[j]]
    /\ cancelFlag' = [cancelFlag EXCEPT ![w] = cancelRequested[j]]
    /\ lockLost' = [lockLost EXCEPT ![w] = FALSE]
    /\ UNCHANGED <<shutdown, outcome, stolen>>

\* the claim commits but its reply is lost: nobody runs the job
ClaimReplyLost(w, j) == ClaimRow(w, j) /\ UNCHANGED <<workers, stolen>>

\* mutant of ApplyHeld: an expired lease counts as a lost one
ApplyHeldUnexpired(w) ==
    LET j == active[w] IN
    IF Held(j, w) /\ fresh[j]
    THEN /\ cancelFlag' = [cancelFlag EXCEPT ![w] = @ \/ cancelRequested[j]]
         /\ UNCHANGED <<fresh, lockLost>>
    ELSE /\ lockLost' = [lockLost EXCEPT ![w] = TRUE]
         /\ UNCHANGED <<fresh, cancelFlag>>

\* JobFlags::apply on the row returned, or not, by a guarded UPDATE
ApplyHeld(w) ==
    LET j == active[w] IN
    IF Held(j, w)
    THEN /\ fresh' = [fresh EXCEPT ![j] = TRUE]
         /\ cancelFlag' = [cancelFlag EXCEPT ![w] = @ \/ cancelRequested[j]]
         /\ UNCHANGED lockLost
    ELSE /\ lockLost' = [lockLost EXCEPT ![w] = TRUE]
         /\ UNCHANGED <<fresh, cancelFlag>>

\* the heartbeat task, until the job is finalized
Heartbeat(w) ==
    /\ Busy(w)
    /\ ApplyHeld(w)
    /\ UNCHANGED <<status, attempts, lockedBy, due, cancelRequested, checkpoint,
                   pc, active, position, shutdown, outcome,
                   requests, stolen, shutdowns>>

\* mutant of SaveCheckpoint: the UPDATE goes by the id alone
SaveCheckpointUnguarded(w, c) ==
    /\ pc[w] = "running"
    /\ checkpoint' = [checkpoint EXCEPT ![active[w]] = c]
    /\ position' = [position EXCEPT ![w] = c]
    /\ UNCHANGED <<status, attempts, lockedBy, fresh, due, cancelRequested, pc, active,
                   cancelFlag, lockLost, shutdown, outcome, requests, stolen, shutdowns>>

\* JobContext::save_checkpoint and progress with the next position c of the
\* handler; LockLost makes the handler return its error
SaveCheckpoint(w, c) ==
    /\ pc[w] = "running"
    /\ ApplyHeld(w)
    /\ IF Held(active[w], w)
       THEN /\ checkpoint' = [checkpoint EXCEPT ![active[w]] = c]
            /\ position' = [position EXCEPT ![w] = c]
            /\ UNCHANGED <<pc, outcome>>
       ELSE /\ pc' = [pc EXCEPT ![w] = "returned"]
            /\ outcome' = [outcome EXCEPT ![w] = "failed"]
            /\ UNCHANGED <<checkpoint, position>>
    /\ UNCHANGED <<status, attempts, lockedBy, due, cancelRequested,
                   active, shutdown, requests, stolen, shutdowns>>

\* a batch is done, or progress is written without one
Batch(w) ==
    \E c \in {position[w], position[w] + 1} \cap 0..MaxBatches : SaveCheckpoint(w, c)

\* a cancelled handler clears its checkpoint before it returns
ClearCheckpoint(w) == cancelFlag[w] /\ SaveCheckpoint(w, 0)

\* JobContext::should_stop
ShouldStop(w) == shutdown[w] \/ cancelFlag[w] \/ lockLost[w]

\* what a handler may return now; "failed" is also an error, a panic or a lost
\* database connection
Results(w) ==
    {"completed", "failed", "permanent"}
        \cup (IF KeyOf[active[w]] = ChainKey THEN {"continuation"} ELSE {})
        \cup (IF ShouldStop(w) THEN {"interrupted"} ELSE {})

HandlerReturns(w) ==
    /\ pc[w] = "running"
    /\ \E o \in Results(w) : outcome' = [outcome EXCEPT ![w] = o]
    /\ pc' = [pc EXCEPT ![w] = "returned"]
    /\ UNCHANGED <<rows, active, position, cancelFlag, lockLost, shutdown,
                   requests, stolen, shutdowns>>

\* SHUTDOWN_DEADLINE after the SIGTERM: the handler is aborted
Deadline(w) ==
    /\ pc[w] = "running" /\ shutdown[w]
    /\ outcome' = [outcome EXCEPT ![w] = "aborted"]
    /\ pc' = [pc EXCEPT ![w] = "returned"]
    /\ UNCHANGED <<rows, active, position, cancelFlag, lockLost, shutdown,
                   requests, stolen, shutdowns>>

\* run_job is over, however it ended
RunEnds(w, next) ==
    /\ pc' = [pc EXCEPT ![w] = next]
    /\ active' = [active EXCEPT ![w] = None]
    /\ position' = [position EXCEPT ![w] = 0]
    /\ cancelFlag' = [cancelFlag EXCEPT ![w] = FALSE]
    /\ lockLost' = [lockLost EXCEPT ![w] = FALSE]
    /\ outcome' = [outcome EXCEPT ![w] = "none"]
    /\ stolen' = stolen \ {w}

\* mark_succeeded
Completed(j) ==
    /\ status' = [status EXCEPT ![j] = "succeeded"]
    /\ checkpoint' = [checkpoint EXCEPT ![j] = 0]
    /\ cancelRequested' = [cancelRequested EXCEPT ![j] = FALSE]
    /\ UNCHANGED <<attempts, lockedBy, due>>

\* mutant of Continued: a pending cancellation is not looked at
ContinuedAnyway(j) ==
    /\ checkpoint' = [checkpoint EXCEPT ![j] = 0]
    /\ \E s \in Jobs :
          /\ status[s] = "absent" /\ KeyOf[s] = KeyOf[j]
          /\ status' = [status EXCEPT ![j] = "succeeded", ![s] = "queued"]
          /\ due' = [due EXCEPT ![s] = FALSE]
    /\ UNCHANGED <<attempts, lockedBy, cancelRequested>>

\* mark_succeeded_with_continuation: cancel_requested is read by the UPDATE
\* itself; the successor is inserted by the same transaction
Continued(j) ==
    /\ checkpoint' = [checkpoint EXCEPT ![j] = 0]
    /\ \/ /\ cancelRequested[j]
          /\ status' = [status EXCEPT ![j] = "cancelled"]
          /\ UNCHANGED due
       \/ /\ ~cancelRequested[j]
          /\ \E s \in Jobs :
                /\ status[s] = "absent" /\ KeyOf[s] = KeyOf[j]
                /\ status' = [status EXCEPT ![j] = "succeeded", ![s] = "queued"]
                /\ due' = [due EXCEPT ![s] = FALSE]
    /\ UNCHANGED <<attempts, lockedBy, cancelRequested>>

\* mark_cancelled
Cancelled(j) ==
    /\ status' = [status EXCEPT ![j] = "cancelled"]
    /\ UNCHANGED <<attempts, lockedBy, due, cancelRequested, checkpoint>>

\* mutant of RequeuedForShutdown: the requeued job starts with a clean slate
RequeuedAfresh(j) ==
    /\ status' = [status EXCEPT ![j] = "queued"]
    /\ lockedBy' = [lockedBy EXCEPT ![j] = None]
    /\ attempts' = [attempts EXCEPT ![j] = IF @ > 0 THEN @ - 1 ELSE 0]
    /\ cancelRequested' = [cancelRequested EXCEPT ![j] = FALSE]
    /\ UNCHANGED <<due, checkpoint>>

\* requeue_for_shutdown
RequeuedForShutdown(j) ==
    /\ status' = [status EXCEPT ![j] = "queued"]
    /\ lockedBy' = [lockedBy EXCEPT ![j] = None]
    /\ attempts' = [attempts EXCEPT ![j] = IF @ > 0 THEN @ - 1 ELSE 0]
    /\ UNCHANGED <<due, cancelRequested, checkpoint>>

\* mutant of Failed: one retry too many
FailedOffByOne(j, permanent) ==
    /\ IF ~permanent /\ attempts[j] <= MaxAttempts
       THEN /\ status' = [status EXCEPT ![j] = "queued"]
            /\ due' = [due EXCEPT ![j] = FALSE]
            /\ lockedBy' = [lockedBy EXCEPT ![j] = None]
       ELSE /\ status' = [status EXCEPT ![j] = "failed"]
            /\ UNCHANGED <<due, lockedBy>>
    /\ UNCHANGED <<attempts, cancelRequested, checkpoint>>

\* mark_failed; the retry is due after retry_delay
Failed(j, permanent) ==
    /\ IF ~permanent /\ attempts[j] < MaxAttempts
       THEN /\ status' = [status EXCEPT ![j] = "queued"]
            /\ due' = [due EXCEPT ![j] = FALSE]
            /\ lockedBy' = [lockedBy EXCEPT ![j] = None]
       ELSE /\ status' = [status EXCEPT ![j] = "failed"]
            /\ UNCHANGED <<due, lockedBy>>
    /\ UNCHANGED <<attempts, cancelRequested, checkpoint>>

\* mutant of Transition: every interruption is taken for a cancellation
TransitionCancelling(w) ==
    LET j == active[w] IN
    \/ outcome[w] = "completed" /\ Completed(j)
    \/ outcome[w] \in {"interrupted", "aborted"} /\ Cancelled(j)
    \/ outcome[w] \in {"failed", "permanent"} /\ Failed(j, outcome[w] = "permanent")

\* mutant of Transition: an error is requeued like an interruption
TransitionRefunding(w) ==
    LET j == active[w] IN
    \/ outcome[w] = "completed" /\ Completed(j)
    \/ outcome[w] \in {"interrupted", "aborted", "failed"} /\ RequeuedForShutdown(j)
    \/ outcome[w] = "permanent" /\ Failed(j, TRUE)

\* the transition Runner::finalize chooses for the result of w
Transition(w) ==
    LET j == active[w] IN
    \/ outcome[w] = "completed" /\ Completed(j)
    \/ outcome[w] = "continuation" /\ Continued(j)
    \/ outcome[w] = "interrupted" /\ cancelFlag[w] /\ Cancelled(j)
    \/ outcome[w] = "interrupted" /\ ~cancelFlag[w] /\ RequeuedForShutdown(j)
    \/ outcome[w] = "aborted" /\ RequeuedForShutdown(j)
    \/ outcome[w] = "failed" /\ Failed(j, FALSE)
    \/ outcome[w] = "permanent" /\ Failed(j, TRUE)

\* mutant of Finalize: the transition goes by the id alone
FinalizeUnguarded(w) ==
    /\ pc[w] = "returned"
    /\ Transition(w) /\ UNCHANGED fresh
    /\ RunEnds(w, "idle")
    /\ UNCHANGED <<shutdown, requests, shutdowns>>

\* the end of run_job: with the lock known to be lost nothing is written, and
\* the guard of the transition leaves alone a row w does not hold
Finalize(w) ==
    /\ pc[w] = "returned"
    /\ IF ~lockLost[w] /\ Held(active[w], w)
       THEN Transition(w) /\ UNCHANGED fresh
       ELSE UNCHANGED rows
    /\ RunEnds(w, "idle")
    /\ UNCHANGED <<shutdown, requests, shutdowns>>

\* the transaction fails: the row stays running until the reaper takes it
FinalizeFails(w) ==
    /\ pc[w] = "returned" /\ ~lockLost[w]
    /\ RunEnds(w, "idle")
    /\ UNCHANGED <<rows, shutdown, requests, shutdowns>>

-----------------------------------------------------------------------------
(* Workers: the reaper, shutdown, crash *)

Stale(j) == status[j] = "running" /\ ~fresh[j]

\* mutant of ReapStale: a lost attempt does not count
ReapStaleRefunding(w) ==
    /\ pc[w] # "down" /\ ~shutdown[w]
    /\ \E j \in Jobs : Stale(j)
    /\ status' = [j \in Jobs |-> IF Stale(j) THEN "queued" ELSE status[j]]
    /\ attempts' = [j \in Jobs |-> IF Stale(j) THEN attempts[j] - 1 ELSE attempts[j]]
    /\ lockedBy' = [j \in Jobs |-> IF Stale(j) THEN None ELSE lockedBy[j]]
    /\ stolen' = stolen \cup {v \in Workers : active[v] \in Jobs /\ Stale(active[v])}
    /\ UNCHANGED <<fresh, due, cancelRequested, checkpoint, workers, requests, shutdowns>>

\* mutant of ReapStale: the limit of attempts is not looked at
ReapStaleRequeueing(w) ==
    /\ pc[w] # "down" /\ ~shutdown[w]
    /\ \E j \in Jobs : Stale(j)
    /\ status' = [j \in Jobs |-> IF Stale(j) THEN "queued" ELSE status[j]]
    /\ lockedBy' = [j \in Jobs |-> IF Stale(j) THEN None ELSE lockedBy[j]]
    /\ stolen' = stolen \cup {v \in Workers : active[v] \in Jobs /\ Stale(active[v])}
    /\ UNCHANGED <<attempts, fresh, due, cancelRequested, checkpoint,
                   workers, requests, shutdowns>>

\* queue::reap_stale, one UPDATE run by the maintenance task of worker w
ReapStale(w) ==
    /\ pc[w] # "down" /\ ~shutdown[w]
    /\ \E j \in Jobs : Stale(j)
    /\ status' = [j \in Jobs |->
           IF ~Stale(j) THEN status[j]
           ELSE IF attempts[j] < MaxAttempts THEN "queued" ELSE "failed"]
    /\ lockedBy' = [j \in Jobs |-> IF Stale(j) THEN None ELSE lockedBy[j]]
    /\ stolen' = stolen \cup {v \in Workers : active[v] \in Jobs /\ Stale(active[v])}
    /\ UNCHANGED <<attempts, fresh, due, cancelRequested, checkpoint,
                   workers, requests, shutdowns>>

\* SIGTERM
Shutdown(w) ==
    /\ pc[w] # "down" /\ ~shutdown[w]
    /\ shutdowns < MaxShutdowns
    /\ shutdown' = [shutdown EXCEPT ![w] = TRUE]
    /\ shutdowns' = shutdowns + 1
    /\ UNCHANGED <<rows, pc, active, position, cancelFlag, lockLost, outcome,
                   requests, stolen>>

\* the claim loop ends, with no job
Stop(w) ==
    /\ pc[w] = "idle" /\ shutdown[w]
    /\ RunEnds(w, "down")
    /\ UNCHANGED <<rows, shutdown, requests, shutdowns>>

\* the process dies at any point
Crash(w) ==
    /\ pc[w] # "down"
    /\ RunEnds(w, "down")
    /\ UNCHANGED <<rows, shutdown, requests, shutdowns>>

-----------------------------------------------------------------------------

Api ==
    \/ \E j \in Jobs : Enqueue(j) \/ Retry(j)
    \/ \E r \in Requests :
         \/ \E j \in Jobs : FindById(r, j)
         \/ CancelQueued(r) \/ RequestCancel(r) \/ Respond(r)

Clock == \E j \in Jobs : BecomesDue(j) \/ LeaseExpires(j)

\* what the run of a job does: its handler, its heartbeat and its end
Run(w) ==
    \/ Heartbeat(w) \/ Batch(w) \/ ClearCheckpoint(w)
    \/ HandlerReturns(w) \/ Deadline(w)
    \/ Finalize(w) \/ FinalizeFails(w)

Process(w) ==
    \/ Start(w) \/ Shutdown(w) \/ Stop(w) \/ Crash(w) \/ ReapStale(w)
    \/ \E j \in Jobs : Claim(w, j) \/ ClaimReplyLost(w, j)

Next == Api \/ Clock \/ \E w \in Workers : Run(w) \/ Process(w)

Spec == Init /\ [][Next]_vars

-----------------------------------------------------------------------------
(* Fairness.  Docker restarts the container (restart: unless-stopped); every
   handler returns in the end; the claim loop and the maintenance ticker come
   round while a worker is up, however often it crashes; clocks advance.
   Users, signals, crashes and lost replies are under no obligation. *)

\* no run is left that could heartbeat job j
Orphan(j) == status[j] = "running" /\ \A w \in Workers : active[w] # j

Fairness ==
    /\ \A w \in Workers :
         /\ WF_vars(Start(w))
         /\ WF_vars(HandlerReturns(w))
         /\ WF_vars(Finalize(w) \/ FinalizeFails(w))
         /\ WF_vars(Stop(w))
         /\ SF_vars(ReapStale(w))
         /\ SF_vars(\E j \in Jobs : Claim(w, j) \/ ClaimReplyLost(w, j))
    /\ \A j \in Jobs :
         /\ WF_vars(BecomesDue(j))
         /\ WF_vars(Orphan(j) /\ LeaseExpires(j))

FairSpec == Spec /\ Fairness

-----------------------------------------------------------------------------
(* Properties *)

\* Types of the variables; JobQueue's one type invariant.
TypeOK ==
    /\ status \in [Jobs -> Statuses]
    /\ attempts \in [Jobs -> 0..MaxAttempts]
    /\ lockedBy \in [Jobs -> Workers \cup {None}]
    /\ fresh \in [Jobs -> BOOLEAN]
    /\ due \in [Jobs -> BOOLEAN]
    /\ cancelRequested \in [Jobs -> BOOLEAN]
    /\ checkpoint \in [Jobs -> 0..MaxBatches]
    /\ pc \in [Workers -> {"down", "idle", "running", "returned"}]
    /\ active \in [Workers -> Jobs \cup {None}]
    /\ position \in [Workers -> 0..MaxBatches]
    /\ cancelFlag \in [Workers -> BOOLEAN]
    /\ lockLost \in [Workers -> BOOLEAN]
    /\ shutdown \in [Workers -> BOOLEAN]
    /\ outcome \in [Workers -> {"none", "completed", "continuation", "failed",
                                "permanent", "interrupted", "aborted"}]
    /\ cancelPc \in [Requests -> {"idle", "cancelQueued", "requestCancel",
                                  "accepted", "refused"}]
    /\ cancelJob \in [Requests -> Jobs \cup {None}]
    /\ stolen \in SUBSET Workers
    /\ shutdowns \in 0..MaxShutdowns

\* A claimable job always has an attempt left and no lock, and a running one
\* has used between 1 and max_attempts: so claim can never exceed the limit,
\* although five statements move a job back to queued.
AttemptsWithinLimit ==
    \A j \in Jobs :
        /\ status[j] = "queued" => attempts[j] < MaxAttempts /\ lockedBy[j] = None
        /\ status[j] = "running" => attempts[j] \in 1..MaxAttempts /\ lockedBy[j] \in Workers

\* HELD_BY_ME compares only the worker id and the status, no fencing token:
\* still it holds exactly for the run that claimed the job and has not been
\* reaped since, never for a run whose job came back to the same worker.
LeaseIsFenced ==
    \A w \in Workers : Busy(w) => (Held(active[w], w) <=> w \notin stolen)

\* While a run holds its job the stored checkpoint is what this run saved last
\* (or resumed from): no lost run, reaper or API call rewinds or advances it.
CheckpointIsHolders ==
    \A w \in Workers :
        Busy(w) /\ w \notin stolen => checkpoint[active[w]] = position[w]

\* JobFlags never lie about a run that holds its job: it is not told that its
\* lock is lost, and it only stops for a cancel its row does request.
FlagsAreTrue ==
    \A w \in Workers :
        Busy(w) /\ w \notin stolen =>
            ~lockLost[w] /\ (cancelFlag[w] => cancelRequested[active[w]])

\* "at most one active job per key" (docs/jobs-worker.md:30), through retries
\* and continuations as well as enqueues.
OneActiveJobPerKey ==
    \A j, k \in Jobs :
        j # k /\ KeyOf[j] # None /\ KeyOf[j] = KeyOf[k] =>
            ~(status[j] \in ActiveStatuses /\ status[k] \in ActiveStatuses)

\* A run whose job was taken away changes no row any more, whatever its
\* handler, its heartbeat and its finalization still do.
LostRunIsHarmless == [][\A w \in stolen : Run(w) => UNCHANGED rows]_vars

\* A running job becomes cancelled only if its cancellation was requested.
CancelledOnlyOnRequest ==
    [][\A j \in Jobs : status[j] = "running" /\ status'[j] = "cancelled"
                         => cancelRequested[j]]_vars

\* A cancel request on a running job survives reaps, failures and restarts: it
\* goes away only with success or with the retry of a finished job.
CancelIsSticky ==
    [][\A j \in Jobs : cancelRequested[j] /\ ~cancelRequested'[j]
                         => status'[j] = "succeeded" \/ status[j] \in RetryableStatuses]_vars

\* Only a deploy gives an attempt back: attempts falls in the run of a worker
\* that was told to shut down, or when a finished job is retried.
RefundOnlyOnShutdown ==
    [][\A j \in Jobs : attempts'[j] < attempts[j]
           => \/ status[j] \in RetryableStatuses
              \/ lockedBy[j] \in Workers /\ shutdown[lockedBy[j]]]_vars

\* A batch whose cancellation was requested before it commits has no successor
\* (a job that appears in the same step as another one ends is a successor).
NoSuccessorAfterCancel ==
    [][\A j, s \in Jobs :
           /\ status[j] = "running" /\ cancelRequested[j] /\ status'[j] # "running"
           /\ status[s] = "absent"
           => status'[s] = "absent"]_vars

\* Every job that is queued or running ends, whatever crashes, lost replies and
\* failed transactions happen, once SIGTERMs stop coming.
EveryJobEnds ==
    \A j \in Jobs : status[j] \in ActiveStatuses ~> status[j] \in TerminalStatuses

-----------------------------------------------------------------------------
(* The abstract specification the queue implements *)

PhaseOf(s) ==
    CASE s = "absent"            -> "none"
      [] s = "queued"            -> "waiting"
      [] s = "running"           -> "leased"
      [] s = "succeeded"         -> "done"
      [] s \in RetryableStatuses -> "stopped"

HolderOf(j) == IF status[j] = "running" THEN lockedBy[j] ELSE None

Lease == INSTANCE JobLease WITH
    Budget <- MaxAttempts,
    phase <- [j \in Jobs |-> PhaseOf(status[j])],
    holder <- [j \in Jobs |-> HolderOf(j)],
    spent <- attempts

\* The queue implements the lease discipline of JobLease.
ImplementsLease == Lease!LeaseSpec

=============================================================================
