------------------------------ MODULE JobLease ------------------------------
(***************************************************************************)
(* What the queue promises of a job, without rows, heartbeats or requests: *)
(* a job waits, is leased to one worker at a time, and is done or stopped. *)
(* A lease costs one of Budget tries; it ends by its holder's decision or  *)
(* by being revoked.  Done is final; a stopped job may be resubmitted.     *)
(***************************************************************************)
EXTENDS Integers

CONSTANTS Jobs, Workers, None, Budget

VARIABLES
    phase,    \* "none", "waiting", "leased", "done" or "stopped"
    holder,   \* the worker a leased job is leased to
    spent     \* tries used since the job was last submitted

leaseVars == <<phase, holder, spent>>

LeaseInit ==
    /\ phase = [j \in Jobs |-> "none"]
    /\ holder = [j \in Jobs |-> None]
    /\ spent = [j \in Jobs |-> 0]

\* a job is submitted
Submit(j) ==
    /\ phase[j] = "none"
    /\ phase' = [phase EXCEPT ![j] = "waiting"]
    /\ UNCHANGED <<holder, spent>>

\* a waiting job is leased to w for one more try
Grant(j, w) ==
    /\ phase[j] = "waiting" /\ spent[j] < Budget
    /\ phase' = [phase EXCEPT ![j] = "leased"]
    /\ holder' = [holder EXCEPT ![j] = w]
    /\ spent' = [spent EXCEPT ![j] = @ + 1]

\* the holder ends its lease: the job is done, stopped, or waits for its next
\* try, with this one refunded or not; refund is 0 or 1
Return(j, w, to, refund) ==
    /\ phase[j] = "leased" /\ holder[j] = w
    /\ to = "waiting" => spent[j] - refund < Budget
    /\ to # "waiting" => refund = 0
    /\ phase' = [phase EXCEPT ![j] = to]
    /\ holder' = [holder EXCEPT ![j] = None]
    /\ spent' = [spent EXCEPT ![j] = @ - refund]

\* the holder ends its job as done and submits the next job s with it
Continue(j, w, s) ==
    /\ phase[j] = "leased" /\ holder[j] = w /\ phase[s] = "none"
    /\ phase' = [phase EXCEPT ![j] = "done", ![s] = "waiting"]
    /\ holder' = [holder EXCEPT ![j] = None]
    /\ UNCHANGED spent

\* the leases of the jobs S are revoked; a job without tries left is stopped
Revoke(S) ==
    /\ \A j \in S : phase[j] = "leased"
    /\ phase' = [j \in Jobs |->
           IF j \notin S THEN phase[j]
           ELSE IF spent[j] < Budget THEN "waiting" ELSE "stopped"]
    /\ holder' = [j \in Jobs |-> IF j \in S THEN None ELSE holder[j]]
    /\ UNCHANGED spent

\* a waiting job is withdrawn
Withdraw(j) ==
    /\ phase[j] = "waiting"
    /\ phase' = [phase EXCEPT ![j] = "stopped"]
    /\ UNCHANGED <<holder, spent>>

\* a stopped job gets a new budget
Resubmit(j) ==
    /\ phase[j] = "stopped"
    /\ phase' = [phase EXCEPT ![j] = "waiting"]
    /\ spent' = [spent EXCEPT ![j] = 0]
    /\ UNCHANGED holder

LeaseNext ==
    \/ \E S \in SUBSET Jobs : Revoke(S)
    \/ \E j \in Jobs : Submit(j) \/ Withdraw(j) \/ Resubmit(j)
    \/ \E j \in Jobs, w \in Workers :
         \/ Grant(j, w)
         \/ \E to \in {"waiting", "done", "stopped"}, refund \in {0, 1} :
               Return(j, w, to, refund)
         \/ \E s \in Jobs : Continue(j, w, s)

LeaseSpec == LeaseInit /\ [][LeaseNext]_leaseVars

=============================================================================
