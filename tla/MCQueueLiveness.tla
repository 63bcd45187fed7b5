-------------------------- MODULE MCQueueLiveness --------------------------
(* What must happen in the job queue and in its scheduler: a behaviour is one *)
(* of the queue, while no definition is enabled, or one of the scheduler,      *)
(* while no job is enqueued by hand.  Their state spaces add up.               *)
EXTENDS JobQueue, Scheduler

CONSTANTS j1, w1, w2, movies

VARIABLE part

\* every job is a movie batch
MovieKeys == [j \in Jobs |-> movies]

\* each definition has a key of its own
MCKeyOf == [d \in ScRows |-> IF d = 1 THEN "search.index" ELSE "catalog"]

ScBudget(edits, runs, fails, lags) ==
  [edits |-> edits, runs |-> runs, fails |-> fails, lags |-> lags]
MCScBudgets == {ScBudget(0, 1, 1, 0), ScBudget(1, 1, 0, 0)}

MCInit ==
  /\ part \in {"queue", "scheduler"}
  /\ Init /\ ScInit
  /\ part = "queue" => scLeft = ScBudget(0, 1, 1, 0)
  /\ \A d \in ScRows : scRow[d].enabled <=> part = "scheduler"

MCNext ==
  \/ part = "queue" /\ Next /\ UNCHANGED <<part, scVars>>
  \/ part = "scheduler" /\ ScNext /\ UNCHANGED <<part, vars>>

\* Where no definition is enabled, nothing of the scheduler owes a step.
MCSpec ==
  /\ MCInit /\ [][MCNext]_<<part, vars, scVars>>
  /\ part = "queue" => Fairness
  /\ ScFairness
=============================================================================
