--------------------------- MODULE JobQueueProofs ---------------------------
(***************************************************************************)
(* The properties of JobQueue for every set of jobs, workers and requests, *)
(* every assignment of concurrency keys and every limit of attempts.       *)
(***************************************************************************)
EXTENDS JobQueue, TLAPS

\* What the invariants need of the worker processes: a worker has a job exactly
\* while run_job runs, and only such a worker can lose its job.
RunsHaveJobs ==
    \A w \in Workers : /\ Busy(w) <=> active[w] \in Jobs
                       /\ w \in stolen => Busy(w)

\* A row that was never inserted has the defaults of its columns.
AbsentRowsAreFresh ==
    \A j \in Jobs : status[j] = "absent" => attempts[j] = 0 /\ lockedBy[j] = None

\* A handler that was interrupted or aborted had a reason that still stands, and
\* a process that is down has no result left over.
StopsForAReason ==
    \A w \in Workers :
        /\ outcome[w] = "interrupted" => ShouldStop(w)
        /\ outcome[w] = "aborted" => shutdown[w]
        /\ ~Busy(w) => outcome[w] = "none"

\* A cancel request that has read its job remembers it.
RequestsHaveJobs == \A r \in Requests : cancelPc[r] # "idle" => cancelJob[r] \in Jobs

\* The inductive invariant.
IInv ==
    /\ TypeOK
    /\ RunsHaveJobs
    /\ AbsentRowsAreFresh
    /\ AttemptsWithinLimit
    /\ LeaseIsFenced
    /\ CheckpointIsHolders
    /\ FlagsAreTrue
    /\ OneActiveJobPerKey
    /\ StopsForAReason
    /\ RequestsHaveJobs

-----------------------------------------------------------------------------
(* Every step keeps the types.  Only claim raises attempts, of a queued job. *)

\* Every step keeps the types.
LEMMA TypeStep ==
    ASSUME TypeOK, RunsHaveJobs, AttemptsWithinLimit, [Next]_vars
    PROVE  TypeOK'
<1> USE ConstantsAssumption DEF TypeOK, rows, workers, requests,
        Statuses, ActiveStatuses, RetryableStatuses, TerminalStatuses
<1>1. CASE UNCHANGED vars
  BY <1>1 DEF vars
<1>2. ASSUME NEW j \in Jobs, Enqueue(j)  PROVE TypeOK'
  BY <1>2 DEF Enqueue
<1>3. ASSUME NEW j \in Jobs, Retry(j)  PROVE TypeOK'
  BY <1>3 DEF Retry
<1>4. ASSUME NEW r \in Requests, NEW j \in Jobs, FindById(r, j)  PROVE TypeOK'
  BY <1>4 DEF FindById
<1>5. ASSUME NEW r \in Requests, CancelQueued(r)  PROVE TypeOK'
  BY <1>5 DEF CancelQueued
<1>6. ASSUME NEW r \in Requests, RequestCancel(r)  PROVE TypeOK'
  BY <1>6 DEF RequestCancel
<1>7. ASSUME NEW r \in Requests, Respond(r)  PROVE TypeOK'
  BY <1>7 DEF Respond
<1>8. ASSUME NEW j \in Jobs, BecomesDue(j)  PROVE TypeOK'
  BY <1>8 DEF BecomesDue
<1>9. ASSUME NEW j \in Jobs, LeaseExpires(j)  PROVE TypeOK'
  BY <1>9 DEF LeaseExpires
<1>10. ASSUME NEW w \in Workers, Start(w)  PROVE TypeOK'
  BY <1>10 DEF Start
<1>11. ASSUME NEW w \in Workers, Shutdown(w)  PROVE TypeOK'
  BY <1>11 DEF Shutdown
<1>12. ASSUME NEW w \in Workers, Stop(w)  PROVE TypeOK'
  BY <1>12 DEF Stop, RunEnds
<1>13. ASSUME NEW w \in Workers, Crash(w)  PROVE TypeOK'
  BY <1>13 DEF Crash, RunEnds
<1>14. ASSUME NEW w \in Workers, NEW j \in Jobs, ClaimRow(w, j)
       PROVE /\ status' \in [Jobs -> Statuses]
             /\ attempts' \in [Jobs -> 0..MaxAttempts]
             /\ lockedBy' \in [Jobs -> Workers \cup {None}]
             /\ fresh' \in [Jobs -> BOOLEAN]
  BY <1>14 DEF ClaimRow, AttemptsWithinLimit
<1>15. ASSUME NEW w \in Workers, NEW j \in Jobs, Claim(w, j)  PROVE TypeOK'
  BY <1>14, <1>15 DEF Claim, ClaimRow
<1>16. ASSUME NEW w \in Workers, NEW j \in Jobs, ClaimReplyLost(w, j)  PROVE TypeOK'
  BY <1>14, <1>16 DEF ClaimReplyLost, ClaimRow
<1>17. ASSUME NEW w \in Workers, ApplyHeld(w)
       PROVE /\ fresh' \in [Jobs -> BOOLEAN]
             /\ cancelFlag' \in [Workers -> BOOLEAN]
             /\ lockLost' \in [Workers -> BOOLEAN]
  BY <1>17 DEF ApplyHeld
<1>18. ASSUME NEW w \in Workers, Heartbeat(w)  PROVE TypeOK'
  BY <1>17, <1>18 DEF Heartbeat
<1>19. ASSUME NEW w \in Workers, NEW c \in 0..MaxBatches, SaveCheckpoint(w, c)
       PROVE TypeOK'
  BY <1>17, <1>19 DEF SaveCheckpoint
<1>20. ASSUME NEW w \in Workers, HandlerReturns(w)  PROVE TypeOK'
  BY <1>20 DEF HandlerReturns, Results
<1>21. ASSUME NEW w \in Workers, Deadline(w)  PROVE TypeOK'
  BY <1>21 DEF Deadline
<1>22. ASSUME NEW w \in Workers, active[w] \in Jobs, Transition(w), UNCHANGED fresh
       PROVE /\ status' \in [Jobs -> Statuses]
             /\ attempts' \in [Jobs -> 0..MaxAttempts]
             /\ lockedBy' \in [Jobs -> Workers \cup {None}]
             /\ due' \in [Jobs -> BOOLEAN]
             /\ cancelRequested' \in [Jobs -> BOOLEAN]
             /\ checkpoint' \in [Jobs -> 0..MaxBatches]
  <2> DEFINE a == active[w]
  <2>0. a \in Jobs  BY <1>22
  <2> HIDE DEF a
  <2>1. CASE Completed(a)  BY <2>0, <2>1 DEF Completed
  <2>2. CASE Continued(a)
    <3>1. CASE cancelRequested[a]
      BY <2>0, <2>2, <3>1 DEF Continued
    <3>2. CASE ~cancelRequested[a]
      <4>1. PICK s \in Jobs :
              /\ status' = [status EXCEPT ![a] = "succeeded", ![s] = "queued"]
              /\ due' = [due EXCEPT ![s] = FALSE]
        BY <2>2, <3>2 DEF Continued
      <4> QED
        BY <2>0, <2>2, <4>1 DEF Continued
    <3> QED
      BY <3>1, <3>2
  <2>3. CASE Cancelled(a)  BY <2>0, <2>3 DEF Cancelled
  <2>4. CASE RequeuedForShutdown(a)  BY <2>0, <2>4 DEF RequeuedForShutdown
  <2>5. ASSUME NEW p \in BOOLEAN, Failed(a, p)
        PROVE /\ status' \in [Jobs -> Statuses] /\ due' \in [Jobs -> BOOLEAN]
              /\ lockedBy' \in [Jobs -> Workers \cup {None}]
              /\ UNCHANGED <<attempts, cancelRequested, checkpoint>>
    BY <2>0, <2>5 DEF Failed
  <2> QED
    BY <1>22, <2>1, <2>2, <2>3, <2>4, <2>5 DEF Transition, a
<1>23. ASSUME NEW w \in Workers, Finalize(w)  PROVE TypeOK'
  <2>1. active[w] \in Jobs
    BY <1>23 DEF Finalize, RunsHaveJobs, Busy
  <2> QED
    BY <1>22, <1>23, <2>1 DEF Finalize, RunEnds
<1>24. ASSUME NEW w \in Workers, FinalizeFails(w)  PROVE TypeOK'
  BY <1>24 DEF FinalizeFails, RunEnds
<1>25. ASSUME NEW w \in Workers, ReapStale(w)  PROVE TypeOK'
  BY <1>25 DEF ReapStale
<1> HIDE DEF TypeOK
<1> QED
  BY <1>1, <1>2, <1>3, <1>4, <1>5, <1>6, <1>7, <1>8, <1>9, <1>10, <1>11, <1>12,
     <1>13, <1>15, <1>16, <1>18, <1>19, <1>20, <1>21, <1>23, <1>24, <1>25
     DEF Next, Api, Clock, Run, Process, Batch, ClearCheckpoint

-----------------------------------------------------------------------------
(* Every step keeps the correspondence of runs and jobs. *)

\* A worker takes a job with its claim and gives it up when its run ends.
LEMMA RunsHaveJobsStep ==
    ASSUME TypeOK, RunsHaveJobs, [Next]_vars
    PROVE  RunsHaveJobs'
<1> USE ConstantsAssumption DEF TypeOK, RunsHaveJobs, Busy, workers
<1>1. CASE UNCHANGED <<pc, active, stolen>>
  BY <1>1
<1>2. ASSUME NEW w \in Workers, Start(w)  PROVE RunsHaveJobs'
  BY <1>2 DEF Start
<1>3. ASSUME NEW w \in Workers, NEW j \in Jobs, Claim(w, j)  PROVE RunsHaveJobs'
  BY <1>3 DEF Claim, ClaimRow
<1>4. ASSUME NEW w \in Workers, NEW c \in 0..MaxBatches, SaveCheckpoint(w, c)
      PROVE RunsHaveJobs'
  BY <1>4 DEF SaveCheckpoint
<1>5. ASSUME NEW w \in Workers, HandlerReturns(w) \/ Deadline(w)  PROVE RunsHaveJobs'
  BY <1>5 DEF HandlerReturns, Deadline
<1>6. ASSUME NEW w \in Workers, NEW next \in {"idle", "down"}, RunEnds(w, next)
      PROVE RunsHaveJobs'
  BY <1>6 DEF RunEnds
<1>7. ASSUME NEW w \in Workers, ReapStale(w)  PROVE RunsHaveJobs'
  BY <1>7 DEF ReapStale
<1>8. ASSUME NEW j \in Jobs,
             Enqueue(j) \/ Retry(j) \/ BecomesDue(j) \/ LeaseExpires(j)
      PROVE UNCHANGED <<pc, active, stolen>>
  BY <1>8 DEF Enqueue, Retry, BecomesDue, LeaseExpires
<1>9. ASSUME NEW r \in Requests,
             \/ \E j \in Jobs : FindById(r, j)
             \/ CancelQueued(r) \/ RequestCancel(r) \/ Respond(r)
      PROVE UNCHANGED <<pc, active, stolen>>
  BY <1>9 DEF FindById, CancelQueued, RequestCancel, Respond
<1>10. ASSUME NEW w \in Workers,
              \/ Heartbeat(w) \/ Shutdown(w)
              \/ \E j \in Jobs : ClaimReplyLost(w, j)
       PROVE UNCHANGED <<pc, active, stolen>>
  BY <1>10 DEF Heartbeat, Shutdown, ClaimReplyLost
<1>11. ASSUME NEW w \in Workers,
              Finalize(w) \/ FinalizeFails(w) \/ Stop(w) \/ Crash(w)
       PROVE \E next \in {"idle", "down"} : RunEnds(w, next)
  BY <1>11 DEF Finalize, FinalizeFails, Stop, Crash
<1>12. CASE UNCHANGED vars
  BY <1>1, <1>12 DEF vars
<1> QED
  BY <1>1, <1>2, <1>3, <1>4, <1>5, <1>6, <1>7, <1>8, <1>9, <1>10, <1>11, <1>12
     DEF Next, Api, Clock, Run, Process, Batch, ClearCheckpoint

-----------------------------------------------------------------------------
(* Every step keeps the limit of attempts.  The five statements that make a
   job queued either find it below the limit or lower its attempts. *)

\* Whatever queues a job leaves it an attempt and takes its lock away.
LEMMA AttemptsStep ==
    ASSUME TypeOK, RunsHaveJobs, AbsentRowsAreFresh, AttemptsWithinLimit, [Next]_vars
    PROVE  AbsentRowsAreFresh' /\ AttemptsWithinLimit'
<1> USE ConstantsAssumption
    DEF TypeOK, AbsentRowsAreFresh, AttemptsWithinLimit, rows, workers, requests,
        Statuses, ActiveStatuses, RetryableStatuses, TerminalStatuses
<1> DEFINE Goal == AbsentRowsAreFresh' /\ AttemptsWithinLimit'
<1>1. CASE UNCHANGED <<status, attempts, lockedBy>>
  BY <1>1
<1>2. ASSUME NEW j \in Jobs, Enqueue(j)  PROVE Goal
  BY <1>2 DEF Enqueue
<1>3. ASSUME NEW j \in Jobs, Retry(j)  PROVE Goal
  BY <1>3 DEF Retry
<1>4. ASSUME NEW r \in Requests, CancelQueued(r)  PROVE Goal
  BY <1>4 DEF CancelQueued
<1>5. ASSUME NEW w \in Workers, NEW j \in Jobs, ClaimRow(w, j)  PROVE Goal
  BY <1>5 DEF ClaimRow
<1>6. ASSUME NEW w \in Workers, ReapStale(w)  PROVE Goal
  BY <1>6 DEF ReapStale, Stale
<1>7. ASSUME NEW w \in Workers, Finalize(w)  PROVE Goal
  <2> DEFINE a == active[w]
  <2>1. a \in Jobs
    BY <1>7 DEF Finalize, RunsHaveJobs, Busy
  <2> HIDE DEF a
  <2>2. ASSUME status[a] = "running", Completed(a)  PROVE Goal
    BY <2>1, <2>2 DEF Completed
  <2>3. ASSUME status[a] = "running", Continued(a)  PROVE Goal
    <3>1. CASE cancelRequested[a]
      BY <2>1, <2>3, <3>1 DEF Continued
    <3>2. CASE ~cancelRequested[a]
      <4>1. PICK s \in Jobs :
              /\ status[s] = "absent"
              /\ status' = [status EXCEPT ![a] = "succeeded", ![s] = "queued"]
        BY <2>3, <3>2 DEF Continued
      <4> QED
        BY <2>1, <2>3, <4>1 DEF Continued
    <3> QED
      BY <3>1, <3>2
  <2>4. ASSUME status[a] = "running", Cancelled(a)  PROVE Goal
    BY <2>1, <2>4 DEF Cancelled
  <2>5. ASSUME status[a] = "running", RequeuedForShutdown(a)  PROVE Goal
    BY <2>1, <2>5 DEF RequeuedForShutdown
  <2>6. ASSUME status[a] = "running", NEW p \in BOOLEAN, Failed(a, p)  PROVE Goal
    BY <2>1, <2>6 DEF Failed
  <2>7. ASSUME Held(a, w), Transition(w)  PROVE Goal
    <3>1. status[a] = "running"
      BY <2>7 DEF Held
    <3> QED
      BY <2>7, <3>1, <2>2, <2>3, <2>4, <2>5, <2>6 DEF Transition, a
  <2> QED
    BY <1>1, <1>7, <2>7 DEF Finalize, a
<1>8. ASSUME NEW j \in Jobs, BecomesDue(j) \/ LeaseExpires(j)
      PROVE UNCHANGED <<status, attempts, lockedBy>>
  BY <1>8 DEF BecomesDue, LeaseExpires
<1>9. ASSUME NEW r \in Requests,
             (\E j \in Jobs : FindById(r, j)) \/ RequestCancel(r) \/ Respond(r)
      PROVE UNCHANGED <<status, attempts, lockedBy>>
  BY <1>9 DEF FindById, RequestCancel, Respond
<1>10. ASSUME NEW w \in Workers,
              \/ Start(w) \/ Shutdown(w) \/ Stop(w) \/ Crash(w)
              \/ FinalizeFails(w) \/ Heartbeat(w) \/ HandlerReturns(w) \/ Deadline(w)
              \/ \E c \in 0..MaxBatches : SaveCheckpoint(w, c)
       PROVE UNCHANGED <<status, attempts, lockedBy>>
  BY <1>10 DEF Start, Shutdown, Stop, Crash, FinalizeFails, Heartbeat,
               HandlerReturns, Deadline, SaveCheckpoint
<1>11. CASE UNCHANGED vars
  BY <1>1, <1>11 DEF vars
<1> HIDE DEF Goal
<1> QED
  BY <1>1, <1>2, <1>3, <1>4, <1>5, <1>6, <1>7, <1>8, <1>9, <1>10, <1>11
     DEF Next, Api, Clock, Run, Process, Batch, ClearCheckpoint, Claim,
         ClaimReplyLost, Goal

-----------------------------------------------------------------------------
(* The lease. *)

\* A transition ends the run's job and touches no other running job: the only
\* other row it may write is the one it inserts.
LEMMA TransitionIsLocal ==
    ASSUME TypeOK, NEW w \in Workers, active[w] \in Jobs, Transition(w)
    PROVE  /\ status'[active[w]] # "running"
           /\ \A j \in Jobs \ {active[w]} :
                /\ status'[j] = status[j] \/ (status[j] = "absent" /\ status'[j] = "queued")
                /\ lockedBy'[j] = lockedBy[j]
                /\ checkpoint'[j] = checkpoint[j]
                /\ cancelRequested'[j] = cancelRequested[j]
<1> USE DEF TypeOK
<1> DEFINE a == active[w]
<1>0. a \in Jobs
  OBVIOUS
<1> DEFINE Goal ==
      /\ status'[a] # "running"
      /\ \A j \in Jobs \ {a} :
           /\ status'[j] = status[j] \/ (status[j] = "absent" /\ status'[j] = "queued")
           /\ lockedBy'[j] = lockedBy[j]
           /\ checkpoint'[j] = checkpoint[j]
           /\ cancelRequested'[j] = cancelRequested[j]
<1> HIDE DEF a
<1>1. ASSUME Completed(a)  PROVE Goal
  BY <1>0, <1>1 DEF Completed
<1>2. ASSUME Continued(a)  PROVE Goal
  <2>1. CASE cancelRequested[a]
    BY <1>0, <1>2, <2>1 DEF Continued
  <2>2. CASE ~cancelRequested[a]
    <3>1. PICK s \in Jobs :
            /\ status[s] = "absent"
            /\ status' = [status EXCEPT ![a] = "succeeded", ![s] = "queued"]
      BY <1>2, <2>2 DEF Continued
    <3>2. status'[a] # "running"
      BY <1>0, <3>1
    <3>3. ASSUME NEW j \in Jobs \ {a}
          PROVE status'[j] = status[j] \/ (status[j] = "absent" /\ status'[j] = "queued")
      BY <1>0, <3>1, <3>3
    <3> QED
      BY <1>0, <1>2, <2>2, <3>2, <3>3 DEF Continued
  <2> QED
    BY <2>1, <2>2
<1>3. ASSUME Cancelled(a)  PROVE Goal
  BY <1>0, <1>3 DEF Cancelled
<1>4. ASSUME RequeuedForShutdown(a)  PROVE Goal
  BY <1>0, <1>4 DEF RequeuedForShutdown
<1>5. ASSUME NEW p \in BOOLEAN, Failed(a, p)  PROVE Goal
  BY <1>0, <1>5 DEF Failed
<1> HIDE DEF Goal
<1>6. Goal
  BY <1>1, <1>2, <1>3, <1>4, <1>5 DEF Transition, a, Goal
<1> QED
  BY <1>6 DEF Goal, a

\* A claim and a reap move the row and the set of stolen runs together.
LEMMA LeaseStep ==
    ASSUME TypeOK, RunsHaveJobs, AttemptsWithinLimit, LeaseIsFenced, [Next]_vars
    PROVE  LeaseIsFenced'
<1> USE ConstantsAssumption DEF TypeOK, LeaseIsFenced, RunsHaveJobs, Busy, Held,
        rows, workers, requests
<1>1. CASE UNCHANGED <<pc, active, stolen, status, lockedBy>>
  BY <1>1
<1>2. ASSUME NEW w \in Workers, Start(w)  PROVE LeaseIsFenced'
  BY <1>2 DEF Start
<1>3. ASSUME NEW j \in Jobs, Enqueue(j)  PROVE LeaseIsFenced'
  BY <1>3 DEF Enqueue
<1>4. ASSUME NEW j \in Jobs, Retry(j)  PROVE LeaseIsFenced'
  BY <1>4 DEF Retry, RetryableStatuses
<1>5. ASSUME NEW r \in Requests, CancelQueued(r)  PROVE LeaseIsFenced'
  BY <1>5 DEF CancelQueued
<1>6. ASSUME NEW w \in Workers, NEW j \in Jobs, Claim(w, j)  PROVE LeaseIsFenced'
  BY <1>6 DEF Claim, ClaimRow
<1>7. ASSUME NEW w \in Workers, NEW j \in Jobs, ClaimReplyLost(w, j)
      PROVE LeaseIsFenced'
  BY <1>7 DEF ClaimReplyLost, ClaimRow
<1>8. ASSUME NEW w \in Workers, NEW c \in 0..MaxBatches, SaveCheckpoint(w, c)
      PROVE LeaseIsFenced'
  BY <1>8 DEF SaveCheckpoint
<1>9. ASSUME NEW w \in Workers, HandlerReturns(w) \/ Deadline(w)
      PROVE LeaseIsFenced'
  BY <1>9 DEF HandlerReturns, Deadline
<1>10. ASSUME NEW w \in Workers, NEW next \in {"idle", "down"}, RunEnds(w, next),
              UNCHANGED rows
       PROVE LeaseIsFenced'
  BY <1>10 DEF RunEnds
<1>11. ASSUME NEW w \in Workers, Finalize(w), Held(active[w], w), Transition(w)
       PROVE LeaseIsFenced'
  <2>1. active[w] \in Jobs
    BY <1>11 DEF Finalize
  <2>2. ASSUME NEW v \in Workers, Busy(v)'
        PROVE (Held(active[v], v) <=> v \notin stolen)'
    <3>1. v # w /\ Busy(v) /\ active'[v] = active[v] /\ (v \in stolen' <=> v \in stolen)
      BY <1>11, <2>2 DEF Finalize, RunEnds
    <3>2. active[v] \in Jobs
      BY <3>1
    <3>3. CASE active[v] = active[w]
      <4>1. ~Held(active[v], v) /\ ~Held(active[v], v)'
        BY <1>11, <2>1, <3>1, <3>3, TransitionIsLocal
      <4> QED
        BY <3>1, <4>1
    <3>4. CASE active[v] # active[w]
      <4>1. Held(active[v], v)' <=> Held(active[v], v)
        BY <1>11, <2>1, <3>1, <3>2, <3>4, TransitionIsLocal
      <4> QED
        BY <3>1, <4>1
    <3> QED
      BY <3>3, <3>4
  <2> QED
    BY <2>2
<1>12. ASSUME NEW w \in Workers, ReapStale(w)  PROVE LeaseIsFenced'
  BY <1>12 DEF ReapStale, Stale
<1>13. ASSUME NEW j \in Jobs, BecomesDue(j) \/ LeaseExpires(j)
       PROVE UNCHANGED <<pc, active, stolen, status, lockedBy>>
  BY <1>13 DEF BecomesDue, LeaseExpires
<1>14. ASSUME NEW r \in Requests,
              (\E j \in Jobs : FindById(r, j)) \/ RequestCancel(r) \/ Respond(r)
       PROVE UNCHANGED <<pc, active, stolen, status, lockedBy>>
  BY <1>14 DEF FindById, RequestCancel, Respond
<1>15. ASSUME NEW w \in Workers, Heartbeat(w) \/ Shutdown(w)
       PROVE UNCHANGED <<pc, active, stolen, status, lockedBy>>
  BY <1>15 DEF Heartbeat, Shutdown
<1>16. ASSUME NEW w \in Workers, FinalizeFails(w) \/ Stop(w) \/ Crash(w)
       PROVE UNCHANGED rows /\ \E next \in {"idle", "down"} : RunEnds(w, next)
  BY <1>16 DEF FinalizeFails, Stop, Crash
<1>17. ASSUME NEW w \in Workers, Finalize(w)
       PROVE \/ Held(active[w], w) /\ Transition(w)
             \/ UNCHANGED rows /\ RunEnds(w, "idle")
  BY <1>17 DEF Finalize
<1>18. CASE UNCHANGED vars
  BY <1>1, <1>18 DEF vars
<1> QED
  BY <1>1, <1>2, <1>3, <1>4, <1>5, <1>6, <1>7, <1>8, <1>9, <1>10, <1>11, <1>12,
     <1>13, <1>14, <1>15, <1>16, <1>17, <1>18
     DEF Next, Api, Clock, Run, Process, Batch, ClearCheckpoint

-----------------------------------------------------------------------------
(* What follows from the lease: nobody but the holder writes the checkpoint,
   and the flags of a holder agree with its row. *)

\* Two runs of one job cannot both hold it.
LEMMA OneHolder ==
    ASSUME LeaseIsFenced, NEW v \in Workers, NEW w \in Workers, v # w,
           Busy(v), Busy(w), active[v] = active[w], Held(active[w], w)
    PROVE  v \in stolen
BY DEF LeaseIsFenced, Held

\* The checkpoint of a held job changes with the position of its run only.
LEMMA CheckpointStep ==
    ASSUME TypeOK, RunsHaveJobs, LeaseIsFenced, CheckpointIsHolders, [Next]_vars
    PROVE  CheckpointIsHolders'
<1> USE ConstantsAssumption DEF TypeOK, CheckpointIsHolders, RunsHaveJobs, Busy, rows, workers, requests
<1>1. CASE UNCHANGED <<pc, active, stolen, checkpoint, position>>
  BY <1>1
<1>2. ASSUME NEW w \in Workers, Start(w)  PROVE CheckpointIsHolders'
  BY <1>2 DEF Start
<1>3. ASSUME NEW w \in Workers, NEW j \in Jobs, Claim(w, j)
      PROVE CheckpointIsHolders'
  BY <1>3 DEF Claim, ClaimRow
<1>4. ASSUME NEW w \in Workers, NEW c \in 0..MaxBatches, SaveCheckpoint(w, c)
      PROVE CheckpointIsHolders'
  <2>1. CASE Held(active[w], w)
    <3>1. active[w] \in Jobs
      BY <1>4 DEF SaveCheckpoint
    <3>2. ASSUME NEW v \in Workers \ {w}, Busy(v), active[v] = active[w]
          PROVE v \in stolen
      BY <1>4, <2>1, <3>2, OneHolder DEF SaveCheckpoint
    <3> QED
      BY <1>4, <2>1, <3>1, <3>2 DEF SaveCheckpoint
  <2>2. CASE ~Held(active[w], w)
    BY <1>4, <2>2 DEF SaveCheckpoint
  <2> QED
    BY <2>1, <2>2
<1>5. ASSUME NEW w \in Workers, HandlerReturns(w) \/ Deadline(w)
      PROVE CheckpointIsHolders'
  BY <1>5 DEF HandlerReturns, Deadline
<1>6. ASSUME NEW w \in Workers, NEW next \in {"idle", "down"}, RunEnds(w, next),
             UNCHANGED rows
      PROVE CheckpointIsHolders'
  BY <1>6 DEF RunEnds
<1>7. ASSUME NEW w \in Workers, Finalize(w), Held(active[w], w), Transition(w)
      PROVE CheckpointIsHolders'
  <2>1. active[w] \in Jobs
    BY <1>7 DEF Finalize
  <2>2. ASSUME NEW v \in Workers, Busy(v)', v \notin stolen'
        PROVE (checkpoint[active[v]] = position[v])'
    <3>1. /\ v # w /\ Busy(v) /\ v \notin stolen
          /\ active'[v] = active[v] /\ position'[v] = position[v]
      BY <1>7, <2>2 DEF Finalize, RunEnds
    <3>2. active[v] # active[w]
      BY <1>7, <3>1, OneHolder DEF Finalize
    <3> QED
      BY <1>7, <2>1, <3>1, <3>2, TransitionIsLocal
  <2> QED
    BY <2>2
<1>8. ASSUME NEW w \in Workers, ReapStale(w)  PROVE CheckpointIsHolders'
  BY <1>8 DEF ReapStale
<1>9. ASSUME NEW j \in Jobs,
             Enqueue(j) \/ Retry(j) \/ BecomesDue(j) \/ LeaseExpires(j)
      PROVE UNCHANGED <<pc, active, stolen, checkpoint, position>>
  BY <1>9 DEF Enqueue, Retry, BecomesDue, LeaseExpires
<1>10. ASSUME NEW r \in Requests,
              \/ \E j \in Jobs : FindById(r, j)
              \/ CancelQueued(r) \/ RequestCancel(r) \/ Respond(r)
       PROVE UNCHANGED <<pc, active, stolen, checkpoint, position>>
  BY <1>10 DEF FindById, CancelQueued, RequestCancel, Respond
<1>11. ASSUME NEW w \in Workers,
              \/ Heartbeat(w) \/ Shutdown(w)
              \/ \E j \in Jobs : ClaimReplyLost(w, j)
       PROVE UNCHANGED <<pc, active, stolen, checkpoint, position>>
  BY <1>11 DEF Heartbeat, Shutdown, ClaimReplyLost, ClaimRow
<1>12. ASSUME NEW w \in Workers, FinalizeFails(w) \/ Stop(w) \/ Crash(w)
       PROVE UNCHANGED rows /\ \E next \in {"idle", "down"} : RunEnds(w, next)
  BY <1>12 DEF FinalizeFails, Stop, Crash
<1>13. ASSUME NEW w \in Workers, Finalize(w)
       PROVE \/ Held(active[w], w) /\ Transition(w)
             \/ UNCHANGED rows /\ RunEnds(w, "idle")
  BY <1>13 DEF Finalize
<1>14. CASE UNCHANGED vars
  BY <1>1, <1>14 DEF vars
<1> QED
  BY <1>1, <1>2, <1>3, <1>4, <1>5, <1>6, <1>7, <1>8, <1>9, <1>10, <1>11, <1>12,
     <1>13, <1>14
     DEF Next, Api, Clock, Run, Process, Batch, ClearCheckpoint

\* The flags of a run that holds its job are set only while its row backs them.
LEMMA FlagsStep ==
    ASSUME TypeOK, RunsHaveJobs, LeaseIsFenced, FlagsAreTrue, [Next]_vars
    PROVE  FlagsAreTrue'
<1> USE ConstantsAssumption DEF TypeOK, FlagsAreTrue, RunsHaveJobs, Busy, rows, workers, requests
<1> DEFINE FlagVars == <<pc, active, stolen, cancelRequested, cancelFlag, lockLost>>
<1>1. CASE UNCHANGED FlagVars
  BY <1>1
<1>2. ASSUME NEW w \in Workers, Start(w)  PROVE FlagsAreTrue'
  BY <1>2 DEF Start
<1>3. ASSUME NEW w \in Workers, NEW j \in Jobs, Claim(w, j)  PROVE FlagsAreTrue'
  BY <1>3 DEF Claim, ClaimRow
<1>4. ASSUME NEW w \in Workers, Busy(w), ApplyHeld(w), pc'[w] \in {"running", "returned"},
             \A v \in Workers \ {w} : pc'[v] = pc[v],
             UNCHANGED <<active, stolen, cancelRequested>>
      PROVE FlagsAreTrue'
  BY <1>4 DEF ApplyHeld, LeaseIsFenced
<1>5. ASSUME NEW w \in Workers,
             \/ Heartbeat(w) \/ \E c \in 0..MaxBatches : SaveCheckpoint(w, c)
      PROVE FlagsAreTrue'
  <2>1. /\ ApplyHeld(w) /\ Busy(w) /\ pc'[w] \in {"running", "returned"}
        /\ \A v \in Workers \ {w} : pc'[v] = pc[v]
        /\ UNCHANGED <<active, stolen, cancelRequested>>
    BY <1>5 DEF Heartbeat, SaveCheckpoint
  <2> QED
    BY <1>4, <2>1
<1>6. ASSUME NEW w \in Workers, HandlerReturns(w) \/ Deadline(w)
      PROVE FlagsAreTrue'
  BY <1>6 DEF HandlerReturns, Deadline
<1>7. ASSUME NEW w \in Workers, NEW next \in {"idle", "down"}, RunEnds(w, next),
             UNCHANGED rows
      PROVE FlagsAreTrue'
  BY <1>7 DEF RunEnds
<1>8. ASSUME NEW w \in Workers, Finalize(w), Held(active[w], w), Transition(w)
      PROVE FlagsAreTrue'
  <2>1. active[w] \in Jobs
    BY <1>8 DEF Finalize
  <2>2. ASSUME NEW v \in Workers, Busy(v)', v \notin stolen'
        PROVE (~lockLost[v] /\ (cancelFlag[v] => cancelRequested[active[v]]))'
    <3>1. /\ v # w /\ Busy(v) /\ v \notin stolen /\ active'[v] = active[v]
          /\ lockLost'[v] = lockLost[v] /\ cancelFlag'[v] = cancelFlag[v]
      BY <1>8, <2>2 DEF Finalize, RunEnds
    <3>2. active[v] # active[w]
      BY <1>8, <3>1, OneHolder DEF Finalize
    <3>3. cancelRequested'[active[v]] = cancelRequested[active[v]]
      BY <1>8, <2>1, <3>1, <3>2, TransitionIsLocal
    <3> QED
      BY <3>1, <3>3
  <2> QED
    BY <2>2
<1>9. ASSUME NEW w \in Workers, ReapStale(w)  PROVE FlagsAreTrue'
  BY <1>9 DEF ReapStale
<1>10. ASSUME NEW j \in Jobs, Retry(j)  PROVE FlagsAreTrue'
  <2>1. \A w \in Workers : Busy(w) /\ active[w] = j => w \in stolen
    BY <1>10 DEF Retry, RetryableStatuses, LeaseIsFenced, Held
  <2> QED
    BY <1>10, <2>1 DEF Retry
<1>11. ASSUME NEW r \in Requests, RequestCancel(r)  PROVE FlagsAreTrue'
  BY <1>11 DEF RequestCancel
<1>12. ASSUME NEW j \in Jobs, Enqueue(j) \/ BecomesDue(j) \/ LeaseExpires(j)
      PROVE UNCHANGED FlagVars
  BY <1>12 DEF Enqueue, BecomesDue, LeaseExpires
<1>13. ASSUME NEW r \in Requests,
              (\E j \in Jobs : FindById(r, j)) \/ CancelQueued(r) \/ Respond(r)
       PROVE UNCHANGED FlagVars
  BY <1>13 DEF FindById, CancelQueued, Respond
<1>14. ASSUME NEW w \in Workers, Shutdown(w) \/ \E j \in Jobs : ClaimReplyLost(w, j)
       PROVE UNCHANGED FlagVars
  BY <1>14 DEF Shutdown, ClaimReplyLost, ClaimRow
<1>15. ASSUME NEW w \in Workers, FinalizeFails(w) \/ Stop(w) \/ Crash(w)
       PROVE UNCHANGED rows /\ \E next \in {"idle", "down"} : RunEnds(w, next)
  BY <1>15 DEF FinalizeFails, Stop, Crash
<1>16. ASSUME NEW w \in Workers, Finalize(w)
       PROVE \/ Held(active[w], w) /\ Transition(w)
             \/ UNCHANGED rows /\ RunEnds(w, "idle")
  BY <1>16 DEF Finalize
<1>17. CASE UNCHANGED vars
  BY <1>1, <1>17 DEF vars
<1> HIDE DEF FlagVars
<1> QED
  BY <1>1, <1>2, <1>3, <1>5, <1>6, <1>7, <1>8, <1>9, <1>10, <1>11, <1>12,
     <1>13, <1>14, <1>15, <1>16, <1>17
     DEF Next, Api, Clock, Run, Process, Batch, ClearCheckpoint

-----------------------------------------------------------------------------
(* Concurrency keys. *)

\* A step after which no further job is active keeps the keys apart.
LEMMA NoNewActiveJob ==
    ASSUME OneActiveJobPerKey,
           \A j \in Jobs : status'[j] \in ActiveStatuses => status[j] \in ActiveStatuses
    PROVE  OneActiveJobPerKey'
BY DEF OneActiveJobPerKey

\* The end of a run keeps the keys apart: a successor takes the key its
\* predecessor gives up.
LEMMA TransitionKeepsKeys ==
    ASSUME TypeOK, OneActiveJobPerKey, NEW w \in Workers, active[w] \in Jobs,
           Held(active[w], w), Transition(w)
    PROVE  OneActiveJobPerKey'
<1> USE DEF TypeOK, ActiveStatuses
<1> DEFINE a == active[w]
<1>0. a \in Jobs /\ status[a] = "running"
  BY DEF Held
<1> HIDE DEF a
<1>1. ASSUME Completed(a)  PROVE OneActiveJobPerKey'
  BY <1>0, <1>1, NoNewActiveJob DEF Completed
<1>2. ASSUME Continued(a), cancelRequested[a]  PROVE OneActiveJobPerKey'
  BY <1>0, <1>2, NoNewActiveJob DEF Continued
<1>3. ASSUME Continued(a), ~cancelRequested[a]  PROVE OneActiveJobPerKey'
  <2>1. PICK s \in Jobs :
          /\ status[s] = "absent" /\ KeyOf[s] = KeyOf[a]
          /\ status' = [status EXCEPT ![a] = "succeeded", ![s] = "queued"]
    BY <1>3 DEF Continued
  <2>2. \A j \in Jobs \ {s} : status'[j] \in ActiveStatuses => j # a /\ status[j] \in ActiveStatuses
    BY <1>0, <2>1
  <2>3. \A j \in Jobs \ {a} : 
          status[j] \in ActiveStatuses => KeyOf[a] = None \/ KeyOf[j] # KeyOf[a]
    BY <1>0 DEF OneActiveJobPerKey
  <2> QED
    BY <2>1, <2>2, <2>3 DEF OneActiveJobPerKey
<1>4. ASSUME Cancelled(a)  PROVE OneActiveJobPerKey'
  BY <1>0, <1>4, NoNewActiveJob DEF Cancelled
<1>5. ASSUME RequeuedForShutdown(a)  PROVE OneActiveJobPerKey'
  BY <1>0, <1>5, NoNewActiveJob DEF RequeuedForShutdown
<1>6. ASSUME NEW p \in BOOLEAN, Failed(a, p)  PROVE OneActiveJobPerKey'
  BY <1>0, <1>6, NoNewActiveJob DEF Failed
<1> QED
  BY <1>1, <1>2, <1>3, <1>4, <1>5, <1>6 DEF Transition, a

\* Every step keeps the keys apart: enqueue and retry check the unique index,
\* and no other statement but the insertion of a successor activates a job.
LEMMA KeyStep ==
    ASSUME TypeOK, RunsHaveJobs, OneActiveJobPerKey, [Next]_vars
    PROVE  OneActiveJobPerKey'
<1> USE ConstantsAssumption DEF TypeOK, RunsHaveJobs, Busy, ActiveStatuses,
        rows, workers, requests
<1>1. CASE UNCHANGED status
  BY <1>1, NoNewActiveJob
<1>2. ASSUME NEW j \in Jobs, Enqueue(j) \/ Retry(j)  PROVE OneActiveJobPerKey'
  <2>1. KeyFree(j) /\ status' = [status EXCEPT ![j] = "queued"]
    BY <1>2 DEF Enqueue, Retry
  <2> QED
    BY <2>1 DEF KeyFree, OneActiveJobPerKey
<1>3. ASSUME NEW w \in Workers, NEW j \in Jobs, ClaimRow(w, j)
      PROVE OneActiveJobPerKey'
  BY <1>3, NoNewActiveJob DEF ClaimRow
<1>4. ASSUME NEW w \in Workers, ReapStale(w)  PROVE OneActiveJobPerKey'
  BY <1>4, NoNewActiveJob DEF ReapStale, Stale
<1>5. ASSUME NEW r \in Requests, CancelQueued(r)  PROVE OneActiveJobPerKey'
  BY <1>5, NoNewActiveJob DEF CancelQueued
<1>6. ASSUME NEW w \in Workers, Finalize(w)  PROVE OneActiveJobPerKey'
  <2>1. active[w] \in Jobs
    BY <1>6 DEF Finalize
  <2> QED
    BY <1>1, <1>6, <2>1, TransitionKeepsKeys DEF Finalize
<1>7. ASSUME NEW j \in Jobs, BecomesDue(j) \/ LeaseExpires(j)
      PROVE UNCHANGED status
  BY <1>7 DEF BecomesDue, LeaseExpires
<1>8. ASSUME NEW r \in Requests,
             (\E j \in Jobs : FindById(r, j)) \/ RequestCancel(r) \/ Respond(r)
      PROVE UNCHANGED status
  BY <1>8 DEF FindById, RequestCancel, Respond
<1>9. ASSUME NEW w \in Workers,
             \/ Start(w) \/ Shutdown(w) \/ Stop(w) \/ Crash(w)
             \/ FinalizeFails(w) \/ Heartbeat(w) \/ HandlerReturns(w) \/ Deadline(w)
             \/ \E c \in 0..MaxBatches : SaveCheckpoint(w, c)
      PROVE UNCHANGED status
  BY <1>9 DEF Start, Shutdown, Stop, Crash, FinalizeFails, Heartbeat,
              HandlerReturns, Deadline, SaveCheckpoint
<1>10. CASE UNCHANGED vars
  BY <1>1, <1>10 DEF vars
<1> QED
  BY <1>1, <1>2, <1>3, <1>4, <1>5, <1>6, <1>7, <1>8, <1>9, <1>10
     DEF Next, Api, Clock, Run, Process, Batch, ClearCheckpoint, Claim,
         ClaimReplyLost

-----------------------------------------------------------------------------
(* Reasons to stop. *)

\* Every step keeps the reasons: flags and the shutdown signal only rise while a
\* run lasts.
LEMMA ReasonStep ==
    ASSUME TypeOK, StopsForAReason, [Next]_vars
    PROVE  StopsForAReason'
<1> USE ConstantsAssumption DEF TypeOK, StopsForAReason, ShouldStop, Busy, workers
<1> DEFINE ReasonVars == <<pc, outcome, cancelFlag, lockLost, shutdown>>
<1>1. CASE UNCHANGED ReasonVars
  BY <1>1
<1>2. ASSUME NEW w \in Workers, Start(w)  PROVE StopsForAReason'
  BY <1>2 DEF Start
<1>3. ASSUME NEW w \in Workers, NEW j \in Jobs, Claim(w, j)  PROVE StopsForAReason'
  BY <1>3 DEF Claim, ClaimRow
<1>4. ASSUME NEW w \in Workers, Heartbeat(w)  PROVE StopsForAReason'
  BY <1>4 DEF Heartbeat, ApplyHeld
<1>5. ASSUME NEW w \in Workers, NEW c \in 0..MaxBatches, SaveCheckpoint(w, c)
      PROVE StopsForAReason'
  BY <1>5 DEF SaveCheckpoint, ApplyHeld
<1>6. ASSUME NEW w \in Workers, HandlerReturns(w)  PROVE StopsForAReason'
  BY <1>6 DEF HandlerReturns, Results
<1>7. ASSUME NEW w \in Workers, Deadline(w)  PROVE StopsForAReason'
  BY <1>7 DEF Deadline
<1>8. ASSUME NEW w \in Workers, NEW next \in {"idle", "down"}, RunEnds(w, next),
             UNCHANGED shutdown
      PROVE StopsForAReason'
  BY <1>8 DEF RunEnds
<1>9. ASSUME NEW w \in Workers, Shutdown(w)  PROVE StopsForAReason'
  BY <1>9 DEF Shutdown
<1>10. ASSUME NEW j \in Jobs,
              Enqueue(j) \/ Retry(j) \/ BecomesDue(j) \/ LeaseExpires(j)
       PROVE UNCHANGED ReasonVars
  BY <1>10 DEF Enqueue, Retry, BecomesDue, LeaseExpires
<1>11. ASSUME NEW r \in Requests,
              \/ \E j \in Jobs : FindById(r, j)
              \/ CancelQueued(r) \/ RequestCancel(r) \/ Respond(r)
       PROVE UNCHANGED ReasonVars
  BY <1>11 DEF FindById, CancelQueued, RequestCancel, Respond
<1>12. ASSUME NEW w \in Workers,
              ReapStale(w) \/ \E j \in Jobs : ClaimReplyLost(w, j)
       PROVE UNCHANGED ReasonVars
  BY <1>12 DEF ReapStale, ClaimReplyLost
<1>13. ASSUME NEW w \in Workers,
              Finalize(w) \/ FinalizeFails(w) \/ Stop(w) \/ Crash(w)
       PROVE UNCHANGED shutdown /\ \E next \in {"idle", "down"} : RunEnds(w, next)
  BY <1>13 DEF Finalize, FinalizeFails, Stop, Crash
<1>14. CASE UNCHANGED vars
  BY <1>1, <1>14 DEF vars
<1> HIDE DEF ReasonVars
<1> QED
  BY <1>1, <1>2, <1>3, <1>4, <1>5, <1>6, <1>7, <1>8, <1>9, <1>10, <1>11, <1>12,
     <1>13, <1>14
     DEF Next, Api, Clock, Run, Process, Batch, ClearCheckpoint

-----------------------------------------------------------------------------
(* Requests. *)

\* Every step keeps the correspondence of cancel requests and jobs.
LEMMA RequestsStep ==
    ASSUME TypeOK, RequestsHaveJobs, [Next]_vars
    PROVE  RequestsHaveJobs'
<1> USE DEF TypeOK, RequestsHaveJobs, requests
<1>1. CASE UNCHANGED requests
  BY <1>1
<1>2. ASSUME NEW r \in Requests, NEW j \in Jobs, FindById(r, j)  PROVE RequestsHaveJobs'
  BY <1>2 DEF FindById
<1>3. ASSUME NEW r \in Requests, CancelQueued(r) \/ RequestCancel(r) \/ Respond(r)
      PROVE RequestsHaveJobs'
  BY <1>3 DEF CancelQueued, RequestCancel, Respond
<1>4. ASSUME NEW j \in Jobs,
             Enqueue(j) \/ Retry(j) \/ BecomesDue(j) \/ LeaseExpires(j)
      PROVE UNCHANGED requests
  BY <1>4 DEF Enqueue, Retry, BecomesDue, LeaseExpires
<1>5. ASSUME NEW w \in Workers, Run(w)  PROVE UNCHANGED requests
  BY <1>5 DEF Run, Heartbeat, Batch, ClearCheckpoint, SaveCheckpoint,
              HandlerReturns, Deadline, Finalize, FinalizeFails
<1>6. ASSUME NEW w \in Workers, Process(w)  PROVE UNCHANGED requests
  BY <1>6 DEF Process, Start, Shutdown, Stop, Crash, ReapStale, Claim,
              ClaimReplyLost, ClaimRow
<1>7. CASE UNCHANGED vars
  BY <1>1, <1>7 DEF vars
<1> QED
  BY <1>1, <1>2, <1>3, <1>4, <1>5, <1>6, <1>7 DEF Next, Api, Clock

-----------------------------------------------------------------------------
(* The invariants of the queue. *)

\* The empty table and the stopped workers satisfy the inductive invariant.
LEMMA InitHolds == Init => IInv
BY ConstantsAssumption
   DEF Init, IInv, TypeOK, RunsHaveJobs, AbsentRowsAreFresh, AttemptsWithinLimit,
       LeaseIsFenced, CheckpointIsHolders, FlagsAreTrue, OneActiveJobPerKey, StopsForAReason,
       RequestsHaveJobs, Busy, Statuses, ActiveStatuses

\* Every step keeps the inductive invariant.
LEMMA InductiveStep == IInv /\ [Next]_vars => IInv'
BY TypeStep, RunsHaveJobsStep, AttemptsStep, LeaseStep, CheckpointStep, FlagsStep,
   KeyStep, ReasonStep, RequestsStep
   DEF IInv

\* The inductive invariant holds in every reachable state of the queue.
THEOREM Inductive == Spec => []IInv
BY InitHolds, InductiveStep, PTL DEF Spec

\* The rows, the workers and the requests always have their types; attempts
\* never exceeds max_attempts.
THEOREM TypeCorrect == Spec => []TypeOK
<1>1. IInv => TypeOK
  BY DEF IInv
<1> QED
  BY <1>1, Inductive, PTL

\* A claimable job always has an attempt left and no lock, however it came back
\* to the queue: retried, requeued by a deploy, failed or reaped.
THEOREM AttemptsAreBounded == Spec => []AttemptsWithinLimit
<1>1. IInv => AttemptsWithinLimit
  BY DEF IInv
<1> QED
  BY <1>1, Inductive, PTL

\* HELD_BY_ME needs no fencing token: it holds exactly for the run that claimed
\* the job and was not reaped since.
THEOREM LeaseFences == Spec => []LeaseIsFenced
<1>1. IInv => LeaseIsFenced
  BY DEF IInv
<1> QED
  BY <1>1, Inductive, PTL

\* The checkpoint of a held job is what its holder saved last.
THEOREM CheckpointBelongsToHolder == Spec => []CheckpointIsHolders
<1>1. IInv => CheckpointIsHolders
  BY DEF IInv
<1> QED
  BY <1>1, Inductive, PTL

\* The flags of a run that holds its job agree with its row.
THEOREM FlagsAgree == Spec => []FlagsAreTrue
<1>1. IInv => FlagsAreTrue
  BY DEF IInv
<1> QED
  BY <1>1, Inductive, PTL

\* At most one queued or running job has a given concurrency key.
THEOREM KeysAreExclusive == Spec => []OneActiveJobPerKey
<1>1. IInv => OneActiveJobPerKey
  BY DEF IInv
<1> QED
  BY <1>1, Inductive, PTL

-----------------------------------------------------------------------------
(* What a step may never do. *)

\* Whatever a run does after its job was taken away changes no row.
THEOREM LostRunChangesNothing == Spec => LostRunIsHarmless
<1>1. ASSUME IInv, NEW w \in stolen, Run(w)  PROVE UNCHANGED rows
  <2>1. w \in Workers /\ Busy(w) /\ ~Held(active[w], w)
    BY <1>1 DEF IInv, TypeOK, RunsHaveJobs, LeaseIsFenced
  <2>2. CASE Heartbeat(w)
    BY <2>1, <2>2 DEF Heartbeat, ApplyHeld, rows
  <2>3. ASSUME NEW c, SaveCheckpoint(w, c)  PROVE UNCHANGED rows
    BY <2>1, <2>3 DEF SaveCheckpoint, ApplyHeld, rows
  <2>4. CASE HandlerReturns(w) \/ Deadline(w)
    BY <2>4 DEF HandlerReturns, Deadline
  <2>5. CASE Finalize(w) \/ FinalizeFails(w)
    BY <2>1, <2>5 DEF Finalize, FinalizeFails
  <2> QED
    BY <1>1, <2>2, <2>3, <2>4, <2>5 DEF Run, Batch, ClearCheckpoint
<1>2. IInv /\ [Next]_vars => [\A w \in stolen : Run(w) => UNCHANGED rows]_vars
  BY <1>1
<1> QED
  BY <1>2, Inductive, PTL DEF Spec, LostRunIsHarmless

\* What a run that holds its job may do to the row of that job when it ends.
LEMMA HolderEnds ==
    ASSUME IInv, NEW w \in Workers, Busy(w), ~lockLost[w], Held(active[w], w), Transition(w)
    PROVE  /\ status'[active[w]] = "cancelled" => cancelRequested[active[w]]
           /\ cancelRequested[active[w]] /\ ~cancelRequested'[active[w]]
                 => status'[active[w]] = "succeeded"
           /\ attempts'[active[w]] < attempts[active[w]] => shutdown[w]
           /\ \A j \in Jobs \ {active[w]} : attempts'[j] = attempts[j]
<1> DEFINE a == active[w]
<1>0. /\ a \in Jobs /\ Held(a, w)
      /\ cancelFlag[w] => cancelRequested[a]
      /\ outcome[w] = "interrupted" /\ ~cancelFlag[w] => shutdown[w]
      /\ outcome[w] = "aborted" => shutdown[w]
  BY DEF IInv, RunsHaveJobs, LeaseIsFenced, FlagsAreTrue, StopsForAReason, ShouldStop
<1> DEFINE Goal ==
      /\ status'[a] = "cancelled" => cancelRequested[a]
      /\ cancelRequested[a] /\ ~cancelRequested'[a] => status'[a] = "succeeded"
      /\ attempts'[a] < attempts[a] => shutdown[w]
      /\ \A j \in Jobs \ {a} : attempts'[j] = attempts[j]
<1> HIDE DEF a
<1>t. TypeOK /\ attempts \in [Jobs -> 0..MaxAttempts] /\ attempts[a] \in Nat
  BY <1>0, ConstantsAssumption DEF IInv, TypeOK
<1> USE <1>t DEF TypeOK
<1>1. ASSUME Completed(a)  PROVE Goal
  BY <1>0, <1>1 DEF Completed
<1>2. ASSUME Continued(a)  PROVE Goal
  <2>1. CASE cancelRequested[a]
    BY <1>0, <1>2, <2>1 DEF Continued
  <2>2. CASE ~cancelRequested[a]
    <3>1. PICK s \in Jobs :
            status' = [status EXCEPT ![a] = "succeeded", ![s] = "queued"]
      BY <1>2, <2>2 DEF Continued
    <3> QED
      BY <1>0, <1>2, <2>2, <3>1 DEF Continued
  <2> QED
    BY <2>1, <2>2
<1>3. ASSUME Cancelled(a), cancelFlag[w]  PROVE Goal
  BY <1>0, <1>3 DEF Cancelled
<1>4. ASSUME RequeuedForShutdown(a), shutdown[w]  PROVE Goal
  BY <1>0, <1>4 DEF RequeuedForShutdown
<1>5. ASSUME NEW p \in BOOLEAN, Failed(a, p)  PROVE Goal
  BY <1>0, <1>5 DEF Failed
<1> HIDE DEF Goal, TypeOK
<1>6. Goal
  BY <1>0, <1>1, <1>2, <1>3, <1>4, <1>5 DEF Transition, a
<1> QED
  BY <1>6 DEF Goal, a

\* What any step may do to the row of a job: only its holder or the API ends a
\* cancellation, and only its holder or the API lowers its attempts.
LEMMA RowStep ==
    ASSUME IInv, [Next]_vars, NEW j \in Jobs
    PROVE  /\ status[j] = "running" /\ status'[j] = "cancelled" => cancelRequested[j]
           /\ cancelRequested[j] /\ ~cancelRequested'[j]
                 => status'[j] = "succeeded" \/ status[j] \in RetryableStatuses
           /\ attempts'[j] < attempts[j]
                 => \/ status[j] \in RetryableStatuses
                    \/ lockedBy[j] \in Workers /\ shutdown[lockedBy[j]]
<1> DEFINE Goal ==
      /\ status[j] = "running" /\ status'[j] = "cancelled" => cancelRequested[j]
      /\ cancelRequested[j] /\ ~cancelRequested'[j]
            => status'[j] = "succeeded" \/ status[j] \in RetryableStatuses
      /\ attempts'[j] < attempts[j]
            => \/ status[j] \in RetryableStatuses
               \/ lockedBy[j] \in Workers /\ shutdown[lockedBy[j]]
<1>t. TypeOK /\ \A k \in Jobs : attempts[k] \in Nat
  BY ConstantsAssumption DEF IInv, TypeOK
<1> USE <1>t DEF TypeOK
<1>1. ASSUME UNCHANGED <<status, attempts, cancelRequested>>  PROVE Goal
  BY <1>1
<1>2. ASSUME NEW k \in Jobs, Enqueue(k)  PROVE Goal
  BY <1>2 DEF Enqueue
<1>3. ASSUME NEW k \in Jobs, Retry(k)  PROVE Goal
  BY <1>3 DEF Retry
<1>4. ASSUME NEW r \in Requests, CancelQueued(r)  PROVE Goal
  BY <1>4 DEF CancelQueued
<1>5. ASSUME NEW r \in Requests, RequestCancel(r)  PROVE Goal
  BY <1>5 DEF RequestCancel
<1>6. ASSUME NEW w \in Workers, NEW k \in Jobs, ClaimRow(w, k)  PROVE Goal
  BY <1>6 DEF ClaimRow
<1>7. ASSUME NEW w \in Workers, ReapStale(w)  PROVE Goal
  BY <1>7 DEF ReapStale, Stale
<1>8. ASSUME NEW w \in Workers, Finalize(w), ~lockLost[w], Held(active[w], w),
             Transition(w)
      PROVE Goal
  <2>1. Busy(w) /\ active[w] \in Jobs
    BY <1>8 DEF Finalize, Busy, IInv, RunsHaveJobs
  <2>2. CASE j = active[w]
    BY <1>8, <2>1, <2>2, HolderEnds DEF Held
  <2>3. CASE j # active[w]
    <3>1. /\ cancelRequested'[j] = cancelRequested[j]
          /\ attempts'[j] = attempts[j]
      BY <1>8, <2>1, <2>3, TransitionIsLocal, HolderEnds
    <3>2. status'[j] = status[j] \/ (status[j] = "absent" /\ status'[j] = "queued")
      BY <1>8, <2>1, <2>3, TransitionIsLocal
    <3> QED
      BY <3>1, <3>2
  <2> QED
    BY <2>2, <2>3
<1>9. ASSUME NEW w \in Workers, Finalize(w)
      PROVE \/ UNCHANGED <<status, attempts, cancelRequested>>
            \/ ~lockLost[w] /\ Held(active[w], w) /\ Transition(w)
  BY <1>9 DEF Finalize, rows
<1>10. ASSUME NEW k \in Jobs, BecomesDue(k) \/ LeaseExpires(k)
       PROVE UNCHANGED <<status, attempts, cancelRequested>>
  BY <1>10 DEF BecomesDue, LeaseExpires
<1>11. ASSUME NEW r \in Requests, (\E k \in Jobs : FindById(r, k)) \/ Respond(r)
       PROVE UNCHANGED <<status, attempts, cancelRequested>>
  BY <1>11 DEF FindById, Respond, rows
<1>12. ASSUME NEW w \in Workers,
              \/ Start(w) \/ Shutdown(w) \/ Stop(w) \/ Crash(w)
              \/ FinalizeFails(w) \/ Heartbeat(w) \/ HandlerReturns(w) \/ Deadline(w)
              \/ \E c \in 0..MaxBatches : SaveCheckpoint(w, c)
       PROVE UNCHANGED <<status, attempts, cancelRequested>>
  BY <1>12 DEF Start, Shutdown, Stop, Crash, FinalizeFails, Heartbeat,
               HandlerReturns, Deadline, SaveCheckpoint, rows
<1>13. CASE UNCHANGED vars
  BY <1>1, <1>13 DEF vars, rows
<1> HIDE DEF Goal, TypeOK
<1>14. ASSUME Api  PROVE Goal
  BY <1>1, <1>2, <1>3, <1>4, <1>5, <1>11, <1>14 DEF Api
<1>15. ASSUME Clock  PROVE Goal
  BY <1>1, <1>10, <1>15 DEF Clock
<1>16. ASSUME NEW w \in Workers, Run(w)  PROVE Goal
  BY <1>1, <1>8, <1>9, <1>12, <1>16, ConstantsAssumption
     DEF Run, Batch, ClearCheckpoint
<1>17. ASSUME NEW w \in Workers, Process(w)  PROVE Goal
  BY <1>1, <1>6, <1>7, <1>12, <1>17 DEF Process, Claim, ClaimReplyLost
<1> QED
  BY <1>13, <1>14, <1>15, <1>16, <1>17 DEF Next, Goal

\* No run ends as cancelled unless its cancellation was requested.
THEOREM CancelledOnlyWhenAsked == Spec => CancelledOnlyOnRequest
<1>1. IInv /\ [Next]_vars =>
        [\A j \in Jobs : status[j] = "running" /\ status'[j] = "cancelled"
                           => cancelRequested[j]]_vars
  BY RowStep
<1> QED
  BY <1>1, Inductive, PTL DEF Spec, CancelledOnlyOnRequest

\* A requested cancellation is not forgotten by reaps, failures and restarts.
THEOREM CancelSurvives == Spec => CancelIsSticky
<1>1. IInv /\ [Next]_vars =>
        [\A j \in Jobs : cancelRequested[j] /\ ~cancelRequested'[j]
             => status'[j] = "succeeded" \/ status[j] \in RetryableStatuses]_vars
  BY RowStep
<1> QED
  BY <1>1, Inductive, PTL DEF Spec, CancelIsSticky

\* Attempts are given back only by the run of a worker that is shut down.
THEOREM RefundsAreForDeploys == Spec => RefundOnlyOnShutdown
<1>1. IInv /\ [Next]_vars =>
        [\A j \in Jobs : attempts'[j] < attempts[j]
             => \/ status[j] \in RetryableStatuses
                \/ lockedBy[j] \in Workers /\ shutdown[lockedBy[j]]]_vars
  BY RowStep
<1> QED
  BY <1>1, Inductive, PTL DEF Spec, RefundOnlyOnShutdown

\* A run whose job has a pending cancellation inserts no row when it ends.
LEMMA CancelledInsertsNothing ==
    ASSUME TypeOK, NEW w \in Workers, active[w] \in Jobs, status[active[w]] = "running",
           cancelRequested[active[w]], Transition(w)
    PROVE  \A s \in Jobs : status[s] = "absent" => status'[s] = "absent"
<1> DEFINE a == active[w]
<1>0. a \in Jobs /\ status[a] = "running" /\ cancelRequested[a]
  OBVIOUS
<1> DEFINE Goal == \A s \in Jobs : status[s] = "absent" => status'[s] = "absent"
<1> HIDE DEF a
<1>1. Completed(a) => Goal
  BY <1>0 DEF Completed, TypeOK
<1>2. Continued(a) => Goal
  BY <1>0 DEF Continued, TypeOK
<1>3. Cancelled(a) => Goal
  BY <1>0 DEF Cancelled, TypeOK
<1>4. RequeuedForShutdown(a) => Goal
  BY <1>0 DEF RequeuedForShutdown, TypeOK
<1>5. \A p \in BOOLEAN : Failed(a, p) => Goal
  BY <1>0 DEF Failed, TypeOK
<1> HIDE DEF Goal
<1>6. Goal
  BY <1>1, <1>2, <1>3, <1>4, <1>5 DEF Transition, a
<1> QED
  BY <1>6 DEF Goal

\* A step that ends a running job is the reaper's or its own run's.
LEMMA CancelledEndsAlone ==
    ASSUME IInv, [Next]_vars, NEW j \in Jobs, NEW s \in Jobs,
           status[j] = "running", cancelRequested[j], status'[j] # "running",
           status[s] = "absent"
    PROVE  status'[s] = "absent"
<1>t. TypeOK
  BY DEF IInv
<1> USE <1>t DEF TypeOK
<1>1. ASSUME UNCHANGED status  PROVE FALSE
  BY <1>1
<1>2. ASSUME NEW k \in Jobs, Enqueue(k) \/ Retry(k)  PROVE FALSE
  BY <1>2 DEF Enqueue, Retry, RetryableStatuses
<1>3. ASSUME NEW r \in Requests, CancelQueued(r)  PROVE FALSE
  BY <1>3 DEF CancelQueued
<1>4. ASSUME NEW w \in Workers, NEW k \in Jobs, ClaimRow(w, k)  PROVE FALSE
  BY <1>4 DEF ClaimRow
<1>5. ASSUME NEW w \in Workers, ReapStale(w)  PROVE status'[s] = "absent"
  BY <1>5 DEF ReapStale, Stale
<1>6. ASSUME NEW w \in Workers, Finalize(w)  PROVE status'[s] = "absent"
  <2>1. Held(active[w], w) /\ Transition(w)
    BY <1>1, <1>6 DEF Finalize, rows
  <2>2. active[w] \in Jobs
    BY <1>6 DEF Finalize, Busy, IInv, RunsHaveJobs
  <2>3. j = active[w]
    BY <2>1, <2>2, TransitionIsLocal
  <2> QED
    BY <2>1, <2>2, <2>3, CancelledInsertsNothing
<1>7. ASSUME NEW w \in Workers,
             \/ Start(w) \/ Shutdown(w) \/ Stop(w) \/ Crash(w)
             \/ FinalizeFails(w) \/ Heartbeat(w) \/ HandlerReturns(w) \/ Deadline(w)
             \/ \E c \in 0..MaxBatches : SaveCheckpoint(w, c)
      PROVE UNCHANGED status
  BY <1>7 DEF Start, Shutdown, Stop, Crash, FinalizeFails, Heartbeat,
              HandlerReturns, Deadline, SaveCheckpoint, rows
<1>8. CASE UNCHANGED vars
  BY <1>1, <1>8 DEF vars, rows
<1>9. ASSUME Api  PROVE FALSE
  BY <1>1, <1>2, <1>3, <1>9 DEF Api, FindById, RequestCancel, Respond, rows
<1>10. ASSUME Clock  PROVE FALSE
  BY <1>1, <1>10 DEF Clock, BecomesDue, LeaseExpires
<1> HIDE DEF TypeOK
<1>11. ASSUME NEW w \in Workers, Run(w)  PROVE status'[s] = "absent"
  BY <1>1, <1>6, <1>7, <1>11, ConstantsAssumption DEF Run, Batch, ClearCheckpoint
<1>12. ASSUME NEW w \in Workers, Process(w)  PROVE status'[s] = "absent"
  BY <1>1, <1>4, <1>5, <1>7, <1>12 DEF Process, Claim, ClaimReplyLost
<1> QED
  BY <1>8, <1>9, <1>10, <1>11, <1>12 DEF Next

\* A batch of a chain whose cancellation was requested before it commits has no
\* successor, whoever ends it.
THEOREM CancelledHasNoSuccessor == Spec => NoSuccessorAfterCancel
<1>1. IInv /\ [Next]_vars =>
        [\A j, s \in Jobs :
           /\ status[j] = "running" /\ cancelRequested[j] /\ status'[j] # "running"
           /\ status[s] = "absent"
           => status'[s] = "absent"]_vars
  BY CancelledEndsAlone
<1> QED
  BY <1>1, Inductive, PTL DEF Spec, NoSuccessorAfterCancel

-----------------------------------------------------------------------------
(* The refinement of JobLease: every step of the queue is a step of JobLease, *)
(* or changes no phase, holder or budget.                                     *)

\* what JobLease sees of the rows
Phases == [j \in Jobs |-> PhaseOf(status[j])]
Holders == [j \in Jobs |-> HolderOf(j)]

\* The phases of the statuses.
LEMMA PhaseTable ==
    /\ PhaseOf("absent") = "none"
    /\ PhaseOf("queued") = "waiting"
    /\ PhaseOf("running") = "leased"
    /\ PhaseOf("succeeded") = "done"
    /\ PhaseOf("failed") = "stopped"
    /\ PhaseOf("cancelled") = "stopped"
BY DEF PhaseOf, RetryableStatuses

\* A step that writes the row of one job changes the phase and the holder of
\* that job only.
LEMMA OneRow ==
    ASSUME NEW j \in Jobs,
           \A k \in Jobs \ {j} : status'[k] = status[k] /\ lockedBy'[k] = lockedBy[k]
    PROVE  /\ Phases' = [Phases EXCEPT ![j] = PhaseOf(status'[j])]
           /\ Holders' = [Holders EXCEPT ![j] = HolderOf(j)']
BY DEF Phases, Holders, HolderOf

\* The empty table is JobLease's initial state.
LEMMA InitMaps == Init => Lease!LeaseInit
<1> SUFFICES ASSUME Init  PROVE Lease!LeaseInit
  OBVIOUS
<1>1. \A j \in Jobs : PhaseOf(status[j]) = "none" /\ HolderOf(j) = None
  BY PhaseTable DEF Init, HolderOf
<1> QED
  BY <1>1 DEF Init, Lease!LeaseInit

\* JobLease's step on the mapped state.
Maps == Lease!LeaseNext \/ UNCHANGED <<Phases, Holders, attempts>>

\* A step that writes neither status, lock nor attempts is invisible.
LEMMA Invisible ==
    ASSUME UNCHANGED <<status, lockedBy, attempts>>
    PROVE  Maps
BY DEF Maps, Phases, Holders, HolderOf

\* Submit, Resubmit and Withdraw: what the API does to a row.
LEMMA ApiMaps ==
    ASSUME IInv, Api
    PROVE  Maps
<1>t. TypeOK
  BY DEF IInv
<1> USE <1>t DEF TypeOK
<1>1. ASSUME NEW j \in Jobs, Enqueue(j)  PROVE Lease!Submit(j)
  <2>1. Phases' = [Phases EXCEPT ![j] = "waiting"] /\ UNCHANGED <<Holders, attempts>>
    BY <1>1, PhaseTable, OneRow DEF Enqueue, Phases, Holders, HolderOf
  <2> QED
    BY <1>1, <2>1, PhaseTable DEF Enqueue, Lease!Submit, Phases, Holders
<1>2. ASSUME NEW j \in Jobs, Retry(j)  PROVE Lease!Resubmit(j)
  <2>1. Phases' = [Phases EXCEPT ![j] = "waiting"]
    BY <1>2, PhaseTable, OneRow DEF Retry
  <2>2. UNCHANGED Holders
    BY <1>2 DEF Retry, RetryableStatuses, Holders, HolderOf
  <2>3. PhaseOf(status[j]) = "stopped"
    BY <1>2, PhaseTable DEF Retry, RetryableStatuses
  <2> QED
    BY <1>2, <2>1, <2>2, <2>3 DEF Retry, Lease!Resubmit, Phases, Holders
<1>3. ASSUME NEW r \in Requests, CancelQueued(r), status[cancelJob[r]] = "queued"
      PROVE \E j \in Jobs : Lease!Withdraw(j)
  <2> DEFINE j == cancelJob[r]
  <2>1. j \in Jobs
    BY <1>3 DEF CancelQueued, IInv, RequestsHaveJobs
  <2>2. Phases' = [Phases EXCEPT ![j] = "stopped"]
    BY <1>3, <2>1, PhaseTable, OneRow DEF CancelQueued
  <2>3. UNCHANGED <<Holders, attempts>>
    BY <1>3, <2>1 DEF CancelQueued, Holders, HolderOf
  <2>4. Lease!Withdraw(j)
    BY <1>3, <2>1, <2>2, <2>3, PhaseTable DEF Lease!Withdraw, Phases, Holders
  <2> QED
    BY <2>1, <2>4
<1>4. ASSUME NEW r \in Requests, CancelQueued(r), status[cancelJob[r]] # "queued"
      PROVE UNCHANGED <<status, lockedBy, attempts>>
  BY <1>4 DEF CancelQueued
<1>5. ASSUME NEW r \in Requests,
             (\E j \in Jobs : FindById(r, j)) \/ RequestCancel(r) \/ Respond(r)
      PROVE UNCHANGED <<status, lockedBy, attempts>>
  BY <1>5 DEF FindById, RequestCancel, Respond, rows
<1> QED
  BY <1>1, <1>2, <1>3, <1>4, <1>5, Invisible DEF Api, Maps, Lease!LeaseNext

\* Grant and Revoke: a claim leases a waiting job that has a try left, and the
\* reaper revokes the leases of the stale jobs.
LEMMA ProcessMaps ==
    ASSUME IInv, NEW w \in Workers, Process(w)
    PROVE  Maps
<1>t. TypeOK
  BY DEF IInv
<1> USE <1>t DEF TypeOK
<1>1. ASSUME NEW j \in Jobs, ClaimRow(w, j)  PROVE Lease!Grant(j, w)
  <2>1. Phases' = [Phases EXCEPT ![j] = "leased"]
    BY <1>1, PhaseTable, OneRow DEF ClaimRow
  <2>2. Holders' = [Holders EXCEPT ![j] = w]
    BY <1>1, OneRow DEF ClaimRow, HolderOf
  <2>3. PhaseOf(status[j]) = "waiting" /\ attempts[j] < MaxAttempts
    BY <1>1, PhaseTable DEF ClaimRow, IInv, AttemptsWithinLimit
  <2> QED
    BY <1>1, <2>1, <2>2, <2>3 DEF ClaimRow, Lease!Grant, Phases, Holders
<1>2. ASSUME ReapStale(w)  PROVE Lease!Revoke({j \in Jobs : Stale(j)})
  <2> DEFINE S == {j \in Jobs : Stale(j)}
  <2>1. \A j \in S : PhaseOf(status[j]) = "leased"
    BY PhaseTable DEF Stale
  <2>2. Phases' = [j \in Jobs |->
           IF j \notin S THEN PhaseOf(status[j])
           ELSE IF attempts[j] < MaxAttempts THEN "waiting" ELSE "stopped"]
    BY <1>2, PhaseTable DEF ReapStale, Phases
  <2>3. Holders' = [j \in Jobs |-> IF j \in S THEN None ELSE HolderOf(j)]
    BY <1>2 DEF ReapStale, Holders, HolderOf, Stale
  <2> QED
    BY <1>2, <2>1, <2>2, <2>3 DEF ReapStale, Lease!Revoke, Phases, Holders
<1>3. ASSUME Start(w) \/ Shutdown(w) \/ Stop(w) \/ Crash(w)
      PROVE UNCHANGED <<status, lockedBy, attempts>>
  BY <1>3 DEF Start, Shutdown, Stop, Crash, rows
<1>4. \A S \in SUBSET Jobs : Lease!Revoke(S) => Maps
  BY DEF Maps, Lease!LeaseNext
<1>5. \A j \in Jobs : Lease!Grant(j, w) => Maps
  BY DEF Maps, Lease!LeaseNext
<1>6. {j \in Jobs : Stale(j)} \in SUBSET Jobs
  OBVIOUS
<1> QED
  BY <1>1, <1>2, <1>3, <1>4, <1>5, <1>6, Invisible
     DEF Process, Claim, ClaimReplyLost

\* Return and Continue: what a run does to the row it holds when it ends.
LEMMA TransitionMaps ==
    ASSUME IInv, NEW w \in Workers, Held(active[w], w), active[w] \in Jobs,
           Transition(w)
    PROVE  Maps
<1> DEFINE j == active[w]
<1>0. /\ j \in Jobs /\ status[j] = "running" /\ lockedBy[j] = w
      /\ attempts \in [Jobs -> Int] /\ attempts[j] \in 1..MaxAttempts
  BY ConstantsAssumption DEF Held, IInv, TypeOK, AttemptsWithinLimit
<1>t. TypeOK
  BY DEF IInv
<1> HIDE DEF j
<1> USE <1>0, <1>t, ConstantsAssumption DEF TypeOK
<1>a. Phases[j] = "leased" /\ Holders[j] = w
  BY PhaseTable DEF Phases, Holders, HolderOf
<1>b. ASSUME NEW to \in {"waiting", "done", "stopped"}, NEW refund \in {0, 1},
             to = "waiting" => attempts[j] - refund < MaxAttempts,
             to # "waiting" => refund = 0,
             Phases' = [Phases EXCEPT ![j] = to],
             Holders' = [Holders EXCEPT ![j] = None],
             attempts' = [attempts EXCEPT ![j] = @ - refund]
      PROVE Maps
  <2>1. Lease!Return(j, w, to, refund)
    BY <1>a, <1>b DEF Lease!Return, Phases, Holders
  <2> QED
    BY <2>1 DEF Maps, Lease!LeaseNext
<1>c. ASSUME attempts' = attempts  PROVE attempts' = [attempts EXCEPT ![j] = @ - 0]
  BY <1>c
<1>1. ASSUME Completed(j)  PROVE Maps
  <2>1. Phases' = [Phases EXCEPT ![j] = "done"] /\ Holders' = [Holders EXCEPT ![j] = None]
    BY <1>1, PhaseTable, OneRow DEF Completed, HolderOf
  <2> QED
    BY <1>1, <1>b, <1>c, <2>1 DEF Completed
<1>2. ASSUME Cancelled(j)  PROVE Maps
  <2>1. Phases' = [Phases EXCEPT ![j] = "stopped"] /\ Holders' = [Holders EXCEPT ![j] = None]
    BY <1>2, PhaseTable, OneRow DEF Cancelled, HolderOf
  <2> QED
    BY <1>2, <1>b, <1>c, <2>1 DEF Cancelled
<1>3. ASSUME RequeuedForShutdown(j)  PROVE Maps
  <2>1. Phases' = [Phases EXCEPT ![j] = "waiting"] /\ Holders' = [Holders EXCEPT ![j] = None]
    BY <1>3, PhaseTable, OneRow DEF RequeuedForShutdown, HolderOf
  <2>2. attempts[j] > 0
    OBVIOUS
  <2>3. attempts' = [attempts EXCEPT ![j] = @ - 1]
    BY <1>3, <2>2 DEF RequeuedForShutdown
  <2> QED
    BY <1>b, <2>1, <2>3
<1>4. ASSUME NEW p \in BOOLEAN, Failed(j, p)  PROVE Maps
  <2>1. CASE ~p /\ attempts[j] < MaxAttempts
    <3>1. Phases' = [Phases EXCEPT ![j] = "waiting"] /\ Holders' = [Holders EXCEPT ![j] = None]
      BY <1>4, <2>1, PhaseTable, OneRow DEF Failed, HolderOf
    <3> QED
      BY <1>4, <1>b, <1>c, <2>1, <3>1 DEF Failed
  <2>2. CASE ~(~p /\ attempts[j] < MaxAttempts)
    <3>1. Phases' = [Phases EXCEPT ![j] = "stopped"] /\ Holders' = [Holders EXCEPT ![j] = None]
      BY <1>4, <2>2, PhaseTable, OneRow DEF Failed, HolderOf
    <3> QED
      BY <1>4, <1>b, <1>c, <3>1 DEF Failed
  <2> QED
    BY <2>1, <2>2
<1>5. ASSUME Continued(j), cancelRequested[j]  PROVE Maps
  <2>1. Phases' = [Phases EXCEPT ![j] = "stopped"] /\ Holders' = [Holders EXCEPT ![j] = None]
    BY <1>5, PhaseTable, OneRow DEF Continued, HolderOf
  <2> QED
    BY <1>5, <1>b, <1>c, <2>1 DEF Continued
<1>6. ASSUME Continued(j), ~cancelRequested[j]  PROVE Maps
  <2>1. PICK s \in Jobs :
          /\ status[s] = "absent"
          /\ status' = [status EXCEPT ![j] = "succeeded", ![s] = "queued"]
    BY <1>6 DEF Continued
  <2>2. UNCHANGED <<attempts, lockedBy>> /\ s # j
    BY <1>6, <2>1 DEF Continued
  <2>3. \A k \in Jobs : status'[k] = IF k = s THEN "queued"
                                    ELSE IF k = j THEN "succeeded" ELSE status[k]
    BY <2>1, <2>2
  <2>4. Phases' = [Phases EXCEPT ![j] = "done", ![s] = "waiting"]
    BY <2>3, <2>2, PhaseTable DEF Phases
  <2>5. Holders' = [Holders EXCEPT ![j] = None]
    BY <2>1, <2>2, <2>3 DEF Holders, HolderOf
  <2>6. Lease!Continue(j, w, s)
    BY <1>a, <2>1, <2>2, <2>4, <2>5, PhaseTable DEF Lease!Continue, Phases, Holders
  <2> QED
    BY <2>6 DEF Maps, Lease!LeaseNext
<1> QED
  BY <1>1, <1>2, <1>3, <1>4, <1>5, <1>6 DEF Transition, j

\* Every step of the queue is a step of JobLease, or invisible.
LEMMA StepMaps == IInv /\ [Next]_vars => Maps
<1> SUFFICES ASSUME IInv, [Next]_vars  PROVE Maps
  OBVIOUS
<1>1. CASE Clock
  BY <1>1, Invisible DEF Clock, BecomesDue, LeaseExpires
<1>2. ASSUME NEW w \in Workers, Finalize(w)  PROVE Maps
  <2>1. active[w] \in Jobs
    BY <1>2 DEF Finalize, IInv, RunsHaveJobs, Busy
  <2> QED
    BY <1>2, <2>1, TransitionMaps, Invisible DEF Finalize, rows
<1>3. ASSUME NEW w \in Workers, Run(w), ~Finalize(w)
      PROVE UNCHANGED <<status, lockedBy, attempts>>
  BY <1>3 DEF Run, Heartbeat, Batch, ClearCheckpoint, SaveCheckpoint,
              HandlerReturns, Deadline, FinalizeFails, rows
<1>4. CASE UNCHANGED vars
  BY <1>4, Invisible DEF vars, rows
<1> QED
  BY <1>1, <1>2, <1>3, <1>4, ApiMaps, ProcessMaps, Invisible DEF Next

\* The queue implements JobLease: whatever the requests, the crashes and the
\* expired leases do, a job waits, is leased to one worker at a time within its
\* budget of tries, and is done or stopped.
THEOREM QueueImplementsLease == Spec => ImplementsLease
<1>1. Maps => [Lease!LeaseNext]_(Lease!leaseVars)
  BY DEF Maps, Lease!leaseVars, Phases, Holders
<1> QED
  BY <1>1, InitMaps, StepMaps, Inductive, PTL
     DEF Spec, ImplementsLease, Lease!LeaseSpec

=============================================================================
