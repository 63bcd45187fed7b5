----------------------------- MODULE MCReindex -----------------------------
(* Reindex on small instances: the constants the .cfg files give it. *)
EXTENDS Reindex, TLC

CONSTANTS j1, j2, w1, w2

\* the first and the last key
Ends == {1, NRows}

LastOnly == {NRows}

JobSymmetry == Permutations(Jobs)

\* The same reduction where a liveness property rules out a SYMMETRY: the jobs
\* are alike, and j1 is the one that is enqueued first.  Rows come and go while
\* it is the only one.
EnqueueSecond == row[j1].status # "absent" /\ changes = 0 /\ Enqueue(j2)
ChangeAlone(c, r) == row[j2].status = "absent" /\ Change(c, r)

OrderedNext ==
    \/ Enqueue(j1) \/ EnqueueSecond
    \/ \E j \in Jobs :
          Retry(j) \/ Cancel(j) \/ LeaseLost(j) \/ \E w \in Workers : Claim(w, j)
    \/ \E c \in Collections, r \in Rows : ChangeAlone(c, r) \/ IndexRow(c, r)
    \/ \E w \in Workers : Run(w) \/ Heartbeat(w) \/ Fail(w)

OrderedSpec == Init /\ [][OrderedNext]_vars /\ \A w \in Workers : WF_vars(Run(w))

=============================================================================
