----------------------------- MODULE MCJobQueue -----------------------------
(* JobQueue on small instances.  A behaviour is one of two instances, chosen  *)
(* at the start: one job and two workers that may take it from each other, or  *)
(* two jobs of the continued key and one worker.  The state spaces add up.     *)
EXTENDS JobQueue, TLC

CONSTANTS j1, j2, w1, w2, movies

\* the jobs, the workers and the number of saved batches of the instance
VARIABLE instance

\* every job is a movie batch
MovieKeys == [j \in Jobs |-> movies]

WorkerSymmetry == Permutations(Workers)

Instances ==
    {[jobs |-> {j1}, workers |-> Workers, batches |-> MaxBatches]} \cup
    {[jobs |-> Jobs, workers |-> {w}, batches |-> 0] : w \in Workers}

MCInit == Init /\ instance \in Instances

\* What is not of the instance stays absent, down and unsaved.
MCNext ==
    /\ Next /\ UNCHANGED instance
    /\ \A j \in Jobs \ instance.jobs : status'[j] = "absent"
    /\ \A w \in Workers \ instance.workers : pc'[w] = "down"
    /\ \A w \in Workers : position'[w] <= instance.batches

MCSpec == MCInit /\ [][MCNext]_<<vars, instance>>

=============================================================================
