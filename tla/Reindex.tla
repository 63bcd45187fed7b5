------------------------------- MODULE Reindex -------------------------------
(***************************************************************************)
(* The full search reindex, job type search.reindex                        *)
(* (apps/worker/src/jobs/search/full.rs): every run builds new physical    *)
(* collections, loads them batch by batch with a checkpoint after each,    *)
(* points every alias at them and deletes the previous ones.               *)
(*                                                                         *)
(* One call to Typesense, to the row source or to the queue is one action; *)
(* a run can fail, be killed or lose its job between any two of them, and  *)
(* the job is then resumed from the checkpoint it saved last.  What the    *)
(* queue guarantees is taken from JobQueue: a run writes its row only      *)
(* while it holds it (LeaseIsFenced), and one job of the key search.index  *)
(* is active at a time (OneActiveJobPerKey).                               *)
(*                                                                         *)
(* A document is the key of its source row.  The API's search writer       *)
(* writes to the alias only.                                               *)
(***************************************************************************)
EXTENDS Integers, FiniteSets

CONSTANTS
    Jobs,          \* reindex jobs
    Workers,       \* worker processes, each with at most one run
    None,          \* null
    Real,          \* the collection that bears the alias's name (legacy set-up)
    NCollections,  \* COLLECTIONS.len(): 7
    NRows,         \* primary keys of each source are 1..NRows
    Stable,        \* keys of rows that always exist and never change
    BatchSize,     \* BATCH_SIZE
    MaxSuffix,     \* bound: fresh runs; the run suffix is a timestamp
    MaxRetries,    \* bound: retries of failed or cancelled jobs
    MaxChanges     \* bound: rows the API creates or deletes

ASSUME ConstantsAssumption ==
    /\ NCollections \in Nat \ {0} /\ NRows \in Nat
    /\ BatchSize \in Nat \ {0}
    /\ MaxSuffix \in Nat /\ MaxRetries \in Nat /\ MaxChanges \in Nat
    /\ Stable \subseteq 1..NRows
    /\ None \notin Jobs \cup Workers \cup Int \cup {Real} /\ Real \notin Int

VARIABLES
    \* the rows of the jobs: [status, cancel, checkpoint, owner]
    row,
    \* Typesense: what each name resolves to, the collections, their documents
    alias, existing, docs,
    \* the source tables, and committed changes the API has not indexed yet
    db, pending,
    \* each run: [pc, job, cp, cancel, page, todo, targets, next, stage], where
    \* cp is its FullCheckpoint, cancel its flag, page the batch it fetched,
    \* todo the collections to create or delete, targets the alias targets it
    \* read, next the next name of its loop over them, stage its call of
    \* delete_stale
    run,
    \* counters
    clock, retries, changes

search == <<alias, existing, docs>>
source == <<db, pending>>
bounds == <<clock, retries, changes>>
vars == <<row, search, source, run, bounds>>

-----------------------------------------------------------------------------

Collections == 1..NCollections
Rows == 1..NRows
Suffixes == 1..MaxSuffix
Physical == Collections \X (Suffixes \cup {Real})

ActiveStatuses == {"queued", "running"}

\* physical collection of collection c in the run of worker w
PhysicalName(w, c) == <<c, run[w].cp.suffix>>

Own(w) == {PhysicalName(w, c) : c \in Collections}

\* the collection the run is indexing
Current(w) == run[w].cp.index

First(S) == CHOOSE p \in S : \A q \in S : p[1] <= q[1]

\* HELD_BY_ME, by the theorem LeaseFences
Held(w) == run[w].pc # "idle" /\ row[run[w].job].owner = w

Idle == [pc |-> "idle", job |-> None, cp |-> None, cancel |-> FALSE, page |-> {},
         todo |-> {}, targets |-> {}, next |-> 1, stage |-> None]

Init ==
    /\ row = [j \in Jobs |->
           [status |-> "absent", cancel |-> FALSE, checkpoint |-> None, owner |-> None]]
    /\ alias = [c \in Collections |-> Real]
    /\ existing = Collections \X {Real}
    /\ docs = [p \in Physical |-> IF p[2] = Real THEN Stable ELSE {}]
    /\ db = [c \in Collections |-> Stable]
    /\ pending = {}
    /\ run = [w \in Workers |-> Idle]
    /\ clock = 0 /\ retries = 0 /\ changes = 0

-----------------------------------------------------------------------------
(* The queue and the API *)

\* no other job of the key search.index is active
KeyFree(j) == \A k \in Jobs \ {j} : row[k].status \notin ActiveStatuses

Enqueue(j) ==
    /\ row[j].status = "absent" /\ KeyFree(j)
    /\ row' = [row EXCEPT ![j].status = "queued"]
    /\ UNCHANGED <<search, source, run, bounds>>

\* the checkpoint is kept
Retry(j) ==
    /\ row[j].status \in {"failed", "cancelled"} /\ KeyFree(j)
    /\ retries < MaxRetries
    /\ retries' = retries + 1
    /\ row' = [row EXCEPT ![j].status = "queued", ![j].cancel = FALSE]
    /\ UNCHANGED <<search, source, run, clock, changes>>

Cancel(j) ==
    /\ \/ /\ row[j].status = "queued"
          /\ row' = [row EXCEPT ![j].status = "cancelled"]
       \/ /\ row[j].status = "running"
          /\ row' = [row EXCEPT ![j].cancel = TRUE]
    /\ UNCHANGED <<search, source, run, bounds>>

\* the reaper takes the job from a run that goes on
LeaseLost(j) ==
    /\ row[j].status = "running"
    /\ row' = [row EXCEPT ![j].status = "queued", ![j].owner = None]
    /\ UNCHANGED <<search, source, run, bounds>>

\* a request creates or deletes a row and commits
Change(c, r) ==
    /\ r \notin Stable /\ changes < MaxChanges
    /\ changes' = changes + 1
    /\ db' = [db EXCEPT ![c] = IF r \in @ THEN @ \ {r} ELSE @ \cup {r}]
    /\ pending' = pending \cup {<<c, r>>}
    /\ UNCHANGED <<row, search, run, clock, retries>>

\* then indexes it through the name c; an error is only reported
IndexRow(c, r) ==
    LET p == <<c, alias[c]>> IN
    /\ <<c, r>> \in pending
    /\ pending' = pending \ {<<c, r>>}
    /\ docs' = IF p \notin existing THEN docs
               ELSE [docs EXCEPT ![p] = IF r \in db[c] THEN @ \cup {r} ELSE @ \ {r}]
    /\ UNCHANGED <<row, alias, existing, db, run, bounds>>

-----------------------------------------------------------------------------
(* Calls a run makes *)

\* from one point of the code to the next
Goto(w, from, to) ==
    /\ run[w].pc = from
    /\ run' = [run EXCEPT ![w].pc = to]

\* JobIo::progress: fails unless the job is held, and reads its cancel flag
Progress(w, from, to) ==
    /\ run[w].pc = from /\ Held(w)
    /\ run' = [run EXCEPT ![w].pc = to, ![w].cancel = @ \/ row[run[w].job].cancel]

\* JobIo::checkpoint: the same, and saves c, which the run goes on from
Checkpoint(w, from, to, c) ==
    /\ run[w].pc = from /\ Held(w)
    /\ run' = [run EXCEPT ![w].pc = to, ![w].cancel = @ \/ row[run[w].job].cancel,
                          ![w].cp = c]
    /\ row' = [row EXCEPT ![run[w].job].checkpoint = c]

\* SearchBackend::delete_collection on the first one of the list
DeleteFirst(w) ==
    LET p == First(run[w].todo) IN
    /\ run[w].todo # {}
    /\ existing' = existing \ {p}
    /\ docs' = [docs EXCEPT ![p] = {}]
    /\ run' = [run EXCEPT ![w].todo = @ \ {p}]
    /\ UNCHANGED <<row, alias, source, bounds>>

-----------------------------------------------------------------------------
(* Preparing *)

Claim(w, j) ==
    /\ run[w].pc = "idle" /\ row[j].status = "queued"
    /\ row' = [row EXCEPT ![j].status = "running", ![j].owner = w]
    /\ run' = [run EXCEPT ![w].pc = "start", ![w].job = j, ![w].cp = row[j].checkpoint,
                          ![w].cancel = row[j].cancel]
    /\ UNCHANGED <<search, source, bounds>>

\* should_stop before anything else: Interrupted, without a cleanup
StopAtStart(w) ==
    /\ run[w].cancel
    /\ Goto(w, "start", "interrupted")
    /\ UNCHANGED <<row, search, source, bounds>>

\* a fresh run picks its suffix and cleans up first
BeginFresh(w) ==
    /\ run[w].pc = "start" /\ ~run[w].cancel /\ run[w].cp = None /\ Held(w)
    /\ clock < MaxSuffix
    /\ clock' = clock + 1
    /\ run' = [run EXCEPT ![w].pc = "aliases", ![w].stage = "fresh",
                          ![w].targets = {}, ![w].next = 1,
                          ![w].cancel = row[run[w].job].cancel,
                          ![w].cp = [suffix |-> clock + 1, index |-> 1, last |-> 0]]
    /\ UNCHANGED <<row, search, source, retries, changes>>

BeginResumed(w) ==
    /\ ~run[w].cancel /\ run[w].cp # None
    /\ Progress(w, "start", "list")
    /\ UNCHANGED <<row, search, source, bounds>>

\* delete_stale: reads what the aliases point to, one after the other,
ReadTarget(w) ==
    LET c == run[w].next IN
    /\ run[w].pc = "aliases" /\ c <= NCollections
    /\ run' = [run EXCEPT ![w].next = @ + 1,
           ![w].targets = IF alias[c] \in Suffixes THEN @ \cup {<<c, alias[c]>>} ELSE @]
    /\ UNCHANGED <<row, search, source, bounds>>

\* of the collections a cancelled run looks at its own only,
OfRun(w, p) == run[w].stage = "cancel" => p \in Own(w)

\* mutant of ListStale: alias targets are not spared
ListStaleAll(w) ==
    /\ run[w].pc = "aliases" /\ run[w].next > NCollections
    /\ run' = [run EXCEPT ![w].pc = "delete", ![w].next = 1,
           ![w].todo = {p \in existing : p[2] \in Suffixes /\ OfRun(w, p)}]
    /\ UNCHANGED <<row, search, source, bounds>>

\* lists those no alias points to
ListStale(w) ==
    /\ run[w].pc = "aliases" /\ run[w].next > NCollections
    /\ run' = [run EXCEPT ![w].pc = "delete", ![w].next = 1,
           ![w].todo = {p \in existing : /\ p[2] \in Suffixes /\ p \notin run[w].targets
                                         /\ OfRun(w, p)}]
    /\ UNCHANGED <<row, search, source, bounds>>

\* and deletes the others one by one,
DeleteStale(w) == run[w].pc = "delete" /\ DeleteFirst(w)

\* after which the run goes on
StaleDeleted(w) ==
    /\ run[w].todo = {}
    /\ Goto(w, "delete", CASE run[w].stage = "fresh"  -> "list"
                           [] run[w].stage = "cancel" -> "clear"
                           [] run[w].stage = "final"  -> "finish")
    /\ UNCHANGED <<row, search, source, bounds>>

\* which collections of the run are missing
ListMissing(w) ==
    /\ run[w].pc = "list"
    /\ run' = [run EXCEPT ![w].pc = "create", ![w].todo = Own(w) \ existing]
    /\ UNCHANGED <<row, search, source, bounds>>

\* by its checkpoint the run has put documents into collection c
WasLoaded(w, c) ==
    \/ c < run[w].cp.index
    \/ c = run[w].cp.index /\ run[w].cp.last # 0

\* the checkpoint goes back to the start of a collection that was loaded
Rewound(w, c) ==
    IF WasLoaded(w, c) THEN [run[w].cp EXCEPT !.index = c, !.last = 0] ELSE run[w].cp

\* mutant of Create: the checkpoint goes back too far
CreateBefore(w) ==
    LET p == First(run[w].todo) IN
    /\ run[w].pc = "create" /\ run[w].todo # {}
    /\ existing' = existing \cup {p}
    /\ run' = [run EXCEPT ![w].todo = @ \ {p},
           ![w].cp = IF WasLoaded(w, p[1]) THEN [@ EXCEPT !.index = p[1] - 1, !.last = 0] ELSE @]
    /\ UNCHANGED <<row, alias, docs, source, bounds>>

\* creates the next missing one; one that had been loaded is loaded again
Create(w) ==
    LET p == First(run[w].todo) IN
    /\ run[w].pc = "create" /\ run[w].todo # {}
    /\ existing' = existing \cup {p}
    /\ run' = [run EXCEPT ![w].todo = @ \ {p}, ![w].cp = Rewound(w, p[1])]
    /\ UNCHANGED <<row, alias, docs, source, bounds>>

\* counts the rows and saves the first checkpoint
Created(w) ==
    /\ run[w].todo = {}
    /\ Checkpoint(w, "create", "loop", run[w].cp)
    /\ UNCHANGED <<search, source, bounds>>

-----------------------------------------------------------------------------
(* Indexing *)

\* a stop check between batches: a cancelled run cleans up first
Interrupted(w) ==
    /\ run[w].cancel
    /\ run[w].pc = "batch" \/ (run[w].pc = "loop" /\ Current(w) <= NCollections)
    /\ run' = [run EXCEPT ![w].pc = "aliases", ![w].stage = "cancel",
                          ![w].targets = {}, ![w].next = 1]
    /\ UNCHANGED <<row, search, source, bounds>>

\* the next batch, the next collection, or the swap
Continue(w) ==
    /\ \/ Goto(w, "batch", "fetch") /\ ~run[w].cancel
       \/ Goto(w, "loop", "fetch") /\ ~run[w].cancel /\ Current(w) <= NCollections
       \/ Goto(w, "loop", "swap") /\ Current(w) > NCollections
    /\ UNCHANGED <<row, search, source, bounds>>

\* the rows after last_id, and the first BatchSize of them
After(w) == {r \in db[Current(w)] : r > run[w].cp.last}
FirstPage(S) == {r \in S : Cardinality({q \in S : q <= r}) <= BatchSize}

\* SourceData::docs_page
Fetch(w) ==
    /\ run[w].pc = "fetch"
    /\ run' = [run EXCEPT ![w].pc = IF After(w) = {} THEN "advance" ELSE "import",
                          ![w].page = FirstPage(After(w))]
    /\ UNCHANGED <<row, search, source, bounds>>

\* mutant of Import: rejected documents are only logged
ImportLossy(w) ==
    LET p == PhysicalName(w, Current(w)) IN
    /\ Goto(w, "import", "save")
    /\ p \in existing
    /\ \E rejected \in SUBSET run[w].page :
          docs' = [docs EXCEPT ![p] = @ \cup (run[w].page \ rejected)]
    /\ UNCHANGED <<row, alias, existing, source, bounds>>

\* import_batch; it fails when the collection is gone
Import(w) ==
    LET p == PhysicalName(w, Current(w)) IN
    /\ Goto(w, "import", "save")
    /\ p \in existing
    /\ docs' = [docs EXCEPT ![p] = @ \cup run[w].page]
    /\ UNCHANGED <<row, alias, existing, source, bounds>>

\* a short page is the last one
AfterBatch(w) == IF Cardinality(run[w].page) < BatchSize THEN "advance" ELSE "batch"
LastId(S) == CHOOSE r \in S : \A q \in S : q <= r

\* mutant of SaveBatch: last_id is not moved
SaveBatchInPlace(w) ==
    /\ Checkpoint(w, "save", AfterBatch(w), run[w].cp)
    /\ UNCHANGED <<search, source, bounds>>

\* mutant of SaveBatch: last_id is that of the table
SaveBatchOfTable(w) ==
    /\ Checkpoint(w, "save", AfterBatch(w),
                  [run[w].cp EXCEPT !.last = LastId(After(w) \cup run[w].page)])
    /\ UNCHANGED <<search, source, bounds>>

\* the checkpoint after every batch
SaveBatch(w) ==
    /\ Checkpoint(w, "save", AfterBatch(w), [run[w].cp EXCEPT !.last = LastId(run[w].page)])
    /\ UNCHANGED <<search, source, bounds>>

\* mutant of Advance: last_id of the previous collection is kept
AdvanceKeepingLast(w) ==
    /\ Checkpoint(w, "advance", "loop", [run[w].cp EXCEPT !.index = @ + 1])
    /\ UNCHANGED <<search, source, bounds>>

\* the collection is loaded
Advance(w) ==
    /\ Checkpoint(w, "advance", "loop", [run[w].cp EXCEPT !.index = @ + 1, !.last = 0])
    /\ UNCHANGED <<search, source, bounds>>

-----------------------------------------------------------------------------
(* Swapping *)

BeginSwap(w) ==
    /\ Progress(w, "swap", "look")
    /\ UNCHANGED <<row, search, source, bounds>>

\* get_alias: what the next alias points to is deleted later
GetAlias(w) ==
    LET c == run[w].next IN
    /\ run[w].pc = "look" /\ c <= NCollections
    /\ run' = [run EXCEPT
           ![w].pc = IF alias[c] = Real THEN "drop" ELSE "point",
           ![w].todo = IF alias[c] \in Suffixes \ {run[w].cp.suffix}
                       THEN @ \cup {<<c, alias[c]>>} ELSE @]
    /\ UNCHANGED <<row, search, source, bounds>>

\* a real collection of that name makes way
DropReal(w) ==
    LET c == run[w].next IN
    /\ Goto(w, "drop", "point")
    /\ alias' = [alias EXCEPT ![c] = None]
    /\ existing' = existing \ {<<c, Real>>}
    /\ docs' = [docs EXCEPT ![<<c, Real>>] = {}]
    /\ UNCHANGED <<row, source, bounds>>

\* upsert_alias
Point(w) ==
    /\ run[w].pc = "point"
    /\ alias' = [alias EXCEPT ![run[w].next] = run[w].cp.suffix]
    /\ run' = [run EXCEPT ![w].pc = "look", ![w].next = @ + 1]
    /\ UNCHANGED <<row, existing, docs, source, bounds>>

Swapped(w) ==
    /\ run[w].next > NCollections
    /\ Progress(w, "look", "previous")
    /\ UNCHANGED <<row, search, source, bounds>>

\* the previous collections go,
DeletePrevious(w) == run[w].pc = "previous" /\ DeleteFirst(w)

\* mutant of PreviousDeleted: the second delete_stale is left out
PreviousDeletedOnly(w) ==
    /\ run[w].todo = {}
    /\ Goto(w, "previous", "finish")
    /\ UNCHANGED <<row, search, source, bounds>>

\* and then what earlier runs left behind
PreviousDeleted(w) ==
    /\ run[w].pc = "previous" /\ run[w].todo = {}
    /\ run' = [run EXCEPT ![w].pc = "aliases", ![w].stage = "final",
                          ![w].targets = {}, ![w].next = 1]
    /\ UNCHANGED <<row, search, source, bounds>>

Finish(w) ==
    /\ Progress(w, "finish", "completed")
    /\ UNCHANGED <<row, search, source, bounds>>

-----------------------------------------------------------------------------
(* Ends of a run *)

\* a cancelled run has cleaned up and clears its checkpoint
ClearCheckpoint(w) ==
    /\ Checkpoint(w, "clear", "interrupted", None)
    /\ UNCHANGED <<search, source, bounds>>

\* the row leaves status running with the fields of new, and the run is over
Release(w, new) ==
    /\ Held(w)
    /\ row' = [row EXCEPT ![run[w].job] = new]
    /\ run' = [run EXCEPT ![w] = Idle]
    /\ UNCHANGED <<search, source, bounds>>

Released(w, s) == [row[run[w].job] EXCEPT !.status = s, !.owner = None]

\* Worker::finalize of a completed and of a cancelled run
Succeed(w) ==
    /\ run[w].pc = "completed"
    /\ Release(w, [Released(w, "succeeded") EXCEPT !.checkpoint = None, !.cancel = FALSE])

BecomeCancelled(w) == run[w].pc = "interrupted" /\ Release(w, Released(w, "cancelled"))

\* an error, a crash, or a shutdown at a stop check: the job waits for its next
\* attempt, or has no attempt left
Fail(w) == \E s \in {"queued", "failed"} : Release(w, Released(w, s))

\* a run that lost its job dies, or learns it from its next update
LockLost(w) ==
    /\ run[w].pc # "idle" /\ ~Held(w)
    /\ run' = [run EXCEPT ![w] = Idle]
    /\ UNCHANGED <<row, search, source, bounds>>

\* the heartbeat task
Heartbeat(w) ==
    /\ Progress(w, run[w].pc, run[w].pc)
    /\ UNCHANGED <<row, search, source, bounds>>

-----------------------------------------------------------------------------

Prepare(w) ==
    \/ StopAtStart(w) \/ BeginFresh(w) \/ BeginResumed(w)
    \/ ReadTarget(w) \/ ListStale(w) \/ DeleteStale(w) \/ StaleDeleted(w)
    \/ ListMissing(w) \/ Create(w) \/ Created(w)

Load(w) ==
    \/ Interrupted(w) \/ Continue(w) \/ Fetch(w) \/ Import(w)
    \/ SaveBatch(w) \/ Advance(w)

Swap(w) ==
    \/ BeginSwap(w) \/ GetAlias(w) \/ DropReal(w) \/ Point(w) \/ Swapped(w)
    \/ DeletePrevious(w) \/ PreviousDeleted(w) \/ Finish(w)

End(w) == ClearCheckpoint(w) \/ Succeed(w) \/ BecomeCancelled(w) \/ LockLost(w)

Run(w) == Prepare(w) \/ Load(w) \/ Swap(w) \/ End(w)

Queue == \E j \in Jobs :
    Enqueue(j) \/ Retry(j) \/ Cancel(j) \/ LeaseLost(j) \/ \E w \in Workers : Claim(w, j)

Api == \E c \in Collections, r \in Rows : Change(c, r) \/ IndexRow(c, r)

Next ==
    \/ Queue \/ Api
    \/ \E w \in Workers : Run(w) \/ Heartbeat(w) \/ Fail(w)

Spec == Init /\ [][Next]_vars

(* Fairness: the process runs, its calls return and a run that lost its job
   hears of it; failures, users and the reaper are under no obligation. *)
FairSpec == Spec /\ \A w \in Workers : WF_vars(Run(w))

-----------------------------------------------------------------------------
(* Properties *)

Statuses == {"absent", "queued", "running", "succeeded", "failed", "cancelled"}

Points == {"idle", "start", "aliases", "delete", "list", "create", "loop",
           "batch", "fetch", "import", "save", "advance", "swap", "look", "drop", "point",
           "previous", "finish", "clear", "interrupted", "completed"}

Stages == {"fresh", "cancel", "final", None}

Positions == 1..(NCollections + 1)

Checkpoints == [suffix : Suffixes, index : Positions, last : 0..NRows]

JobRows == [status : Statuses, cancel : BOOLEAN, checkpoint : Checkpoints \cup {None},
            owner : Workers \cup {None}]

Runs == [pc : Points, job : Jobs \cup {None}, cp : Checkpoints \cup {None}, cancel : BOOLEAN,
         page : SUBSET Rows, todo : SUBSET Physical, targets : SUBSET Physical,
         next : Positions, stage : Stages]

\* Types of the variables; Reindex's one type invariant.
TypeOK ==
    /\ row \in [Jobs -> JobRows]
    /\ alias \in [Collections -> Suffixes \cup {Real, None}]
    /\ existing \subseteq Physical
    /\ docs \in [Physical -> SUBSET Rows]
    /\ db \in [Collections -> SUBSET Rows]
    /\ pending \subseteq Collections \X Rows
    /\ run \in [Workers -> Runs]
    /\ clock \in 0..MaxSuffix /\ retries \in 0..MaxRetries /\ changes \in 0..MaxChanges

\* Every row that never changed is a document of the collection.
Loaded(p) == p \in existing /\ Stable \subseteq docs[p]

\* No name is left pointing at a deleted collection, whatever failed, cancelled,
\* lost and retried runs delete.
AliasesResolve ==
    \A c \in Collections : alias[c] # None => <<c, alias[c]>> \in existing

\* "never to a half-filled collection" (docs/jobs-worker.md:84): what search
\* serves contains every unchanging row, through failures and resumes.
ServedIsLoaded ==
    \A c \in Collections : alias[c] # None => Loaded(<<c, alias[c]>>)

\* A saved checkpoint promises nothing that is not there: the collections before
\* its index are loaded, and the one at its index up to last_id.
ResumeSkipsNothing ==
    \A j \in Jobs : LET cp == row[j].checkpoint IN
        row[j].status \in ActiveStatuses /\ cp # None /\ ~row[j].cancel =>
            \A c \in Collections :
                /\ c < cp.index => Loaded(<<c, cp.suffix>>)
                /\ c = cp.index => {r \in Stable : r <= cp.last} \subseteq docs[<<c, cp.suffix>>]

\* "Only after every collection is fully loaded, point all aliases"
\* (docs/jobs-worker.md:84): no name changes before the run that changes it has
\* loaded all its own collections, whatever earlier runs left complete.
SwapIsLast ==
    [][\A c \in Collections : alias'[c] # alias[c] =>
          \E w \in Workers : /\ run[w].cp \in Checkpoints /\ run[w].next = c
                             /\ alias'[c] \in {None, run[w].cp.suffix}
                             /\ \A d \in Collections : Loaded(PhysicalName(w, d))]_vars

\* A job that succeeds leaves exactly one collection behind every name, also
\* when earlier runs left half-built ones or stopped half-way through the swap.
SuccessLeavesNoGarbage ==
    [][\A j \in Jobs : row[j].status # "succeeded" /\ row'[j].status = "succeeded" =>
          existing = {<<c, alias[c]>> : c \in Collections}]_vars

\* Every run that gets going ends: the loops over pages, collections and
\* deletions terminate, and a run that lost its job does not linger.
RunsEnd ==
    \A w \in Workers : run[w].pc \notin {"idle", "start"} ~> run[w].pc = "idle"

\* "Cancel deletes this run's half-built collections and clears the checkpoint
\* (a retry starts over)" (docs/jobs-worker.md:87).
CancelStartsOver ==
    \A j \in Jobs : row[j].status = "cancelled" => row[j].checkpoint = None

\* "Index all documents into the new physical collections" (docs/jobs-worker.md:83):
\* a row that search serves and that still exists is served after the swap.
SwapKeepsDocuments ==
    [][\A c \in Collections : alias[c] # None /\ alias'[c] # alias[c] /\ alias'[c] # None =>
          docs[<<c, alias[c]>>] \cap db[c] \subseteq docs[<<c, alias'[c]>>]]_vars

=============================================================================
