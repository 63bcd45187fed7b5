---------------------------- MODULE ReindexProofs -----------------------------
(***************************************************************************)
(* The types of Reindex hold for every set of jobs and workers, every      *)
(* number of collections and rows, every batch size and every bound.  With *)
(* one worker no name is ever left without a collection, and a job that    *)
(* succeeds leaves one collection behind every name.  ReindexLoadProofs    *)
(* goes on from here.                                                      *)
(***************************************************************************)
EXTENDS Reindex, FiniteSetTheorems, WellFoundedInduction, TLAPS

\* What the types of a run's fields do not say: where they have a value, and how
\* far its counters are.
InRange(r) ==
    /\ r.pc # "idle" => r.job \in Jobs
    /\ r.pc \notin {"idle", "start", "interrupted"} => r.cp \in Checkpoints
    /\ r.pc \in {"batch", "fetch", "import", "save", "advance"} => r.cp.index <= NCollections
    /\ r.pc \in {"import", "save"} => r.page # {}
    /\ r.pc \in {"drop", "point"} => r.next <= NCollections
    /\ r.pc \in {"aliases", "delete"} => r.stage \in {"fresh", "cancel", "final"}

RunsAreInRange == \A w \in Workers : InRange(run[w])

TypeInv == TypeOK /\ RunsAreInRange

-----------------------------------------------------------------------------
(* First, last, and pages *)

\* A set of numbers has a least one.
LEMMA LeastExists ==
    ASSUME NEW S \in SUBSET Nat, S # {}
    PROVE  \E x \in S : \A y \in S : x <= y
<1>1. PICK x \in S : \A y \in S : ~ (<<y, x>> \in OpToRel(<, Nat))
  BY NatLessThanWellFounded, WFMin
<1>2. \A y \in S : ~(y < x)
  BY <1>1 DEF OpToRel
<1> QED
  BY <1>2

\* A bounded one has a greatest.
LEMMA GreatestExists ==
    ASSUME NEW n \in Nat, NEW S \in SUBSET (0..n), S # {}
    PROVE  \E x \in S : \A y \in S : y <= x
<1> DEFINE T == {n - s : s \in S}
<1>1. \A s \in S : n - s \in Nat
  OBVIOUS
<1>2. PICK t \in T : \A u \in T : t <= u
  <2>1. T \in SUBSET Nat
    BY <1>1
  <2>2. T # {}
    OBVIOUS
  <2> QED
    BY <2>1, <2>2, LeastExists
<1>3. PICK x \in S : t = n - x
  BY <1>2
<1>4. \A y \in S : n - x <= n - y
  BY <1>2, <1>3
<1> QED
  BY <1>4

\* The first of a list of collections is one of them.
LEMMA FirstIsMember ==
    ASSUME NEW S \in SUBSET Physical, S # {}
    PROVE  First(S) \in S
<1> DEFINE T == {p[1] : p \in S}
<1>1. T \in SUBSET Nat /\ T # {}
  BY ConstantsAssumption DEF Physical, Collections
<1>2. PICK t \in T : \A u \in T : t <= u
  BY <1>1, LeastExists
<1>3. \E p \in S : \A q \in S : p[1] <= q[1]
  BY <1>2
<1> QED
  BY <1>3 DEF First

\* The last row of a page is one of it.
LEMMA LastIdIsMember ==
    ASSUME NEW S \in SUBSET Rows, S # {}
    PROVE  LastId(S) \in S /\ \A q \in S : q <= LastId(S)
<1>1. S \in SUBSET (0..NRows) /\ NRows \in Nat
  BY ConstantsAssumption DEF Rows
<1>2. \E x \in S : \A y \in S : y <= x
  BY <1>1, GreatestExists
<1> QED
  BY <1>2 DEF LastId

\* A page of some rows has one of them.
LEMMA PageIsNotEmpty ==
    ASSUME NEW S \in SUBSET Rows, S # {}
    PROVE  FirstPage(S) # {}
<1>1. PICK x \in S : \A y \in S : x <= y
  BY LeastExists, ConstantsAssumption DEF Rows
<1>2. {q \in S : q <= x} = {x}
  <2>1. \A q \in S : q <= x <=> q = x
    BY <1>1, ConstantsAssumption DEF Rows
  <2> QED
    BY <2>1
<1>3. Cardinality({q \in S : q <= x}) = 1
  BY <1>2, FS_Singleton
<1> QED
  BY <1>3, ConstantsAssumption DEF FirstPage

-----------------------------------------------------------------------------
(* Types *)

\* An update of a field of a run's state is one.
LEMMA RunFields ==
    ASSUME NEW r \in Runs
    PROVE  /\ \A x \in Points : [r EXCEPT !.pc = x] \in Runs
           /\ \A x \in Jobs : [r EXCEPT !.job = x] \in Runs
           /\ \A x \in Checkpoints \cup {None} : [r EXCEPT !.cp = x] \in Runs
           /\ \A x \in BOOLEAN : [r EXCEPT !.cancel = x] \in Runs
           /\ \A x \in SUBSET Rows : [r EXCEPT !.page = x] \in Runs
           /\ \A x \in SUBSET Physical : [r EXCEPT !.todo = x] \in Runs
           /\ \A x \in SUBSET Physical : [r EXCEPT !.targets = x] \in Runs
           /\ \A x \in Positions : [r EXCEPT !.next = x] \in Runs
           /\ \A x \in Stages : [r EXCEPT !.stage = x] \in Runs
  BY DEF Runs

\* One may start to clean up, and may have listed what is to go.
LEMMA CleanupFields ==
    ASSUME NEW r \in Runs
    PROVE  /\ \A x \in Stages :
                [r EXCEPT !.pc = "aliases", !.stage = x, !.targets = {}, !.next = 1] \in Runs
           /\ \A x \in SUBSET Physical :
                [r EXCEPT !.pc = "delete", !.next = 1, !.todo = x] \in Runs
<1>1. 1 \in Positions /\ "aliases" \in Points /\ "delete" \in Points
  BY ConstantsAssumption DEF Positions, Points
<1> QED
  BY <1>1 DEF Runs

\* The same of a row.
LEMMA RowFields ==
    ASSUME NEW r \in JobRows
    PROVE  /\ \A x \in Statuses : [r EXCEPT !.status = x] \in JobRows
           /\ \A x \in BOOLEAN : [r EXCEPT !.cancel = x] \in JobRows
           /\ \A x \in Checkpoints \cup {None} : [r EXCEPT !.checkpoint = x] \in JobRows
           /\ \A x \in Workers \cup {None} : [r EXCEPT !.owner = x] \in JobRows
  BY DEF JobRows

\* What a run has is what its type says.
LEMMA RunTypes ==
    ASSUME TypeOK, NEW w \in Workers
    PROVE  /\ run[w] \in Runs
           /\ run[w].cancel \in BOOLEAN
           /\ run[w].cp \in Checkpoints \cup {None}
           /\ run[w].page \in SUBSET Rows
           /\ run[w].todo \in SUBSET Physical
           /\ run[w].targets \in SUBSET Physical
           /\ run[w].next \in Positions
           /\ run[w].pc \in Points
           /\ \A j \in Jobs : /\ row[j] \in JobRows
                              /\ row[j].cancel \in BOOLEAN
                              /\ row[j].checkpoint \in Checkpoints \cup {None}
           /\ run[w].job \in Jobs => (run[w].cancel \/ row[run[w].job].cancel) \in BOOLEAN
<1>1. run[w] \in Runs /\ \A j \in Jobs : row[j] \in JobRows
  BY DEF TypeOK
<1>2. run[w].cancel \in BOOLEAN
  BY <1>1 DEF Runs
<1>3. \A j \in Jobs : row[j].cancel \in BOOLEAN
  BY <1>1 DEF JobRows
<1>4. run[w].job \in Jobs => (run[w].cancel \/ row[run[w].job].cancel) \in BOOLEAN
  OBVIOUS
<1> QED
  BY <1>1, <1>2, <1>3, <1>4 DEF Runs, JobRows

\* A run that moves on keeps its types.
LEMMA GotoTypes ==
    ASSUME TypeOK, NEW w \in Workers, NEW from, NEW to \in Points, Goto(w, from, to)
    PROVE  run' \in [Workers -> Runs]
<1>1. [run[w] EXCEPT !.pc = to] \in Runs
  BY RunTypes, RunFields
<1> QED
  BY <1>1 DEF Goto, TypeOK

\* So does one that reports its progress,
LEMMA ProgressTypes ==
    ASSUME TypeOK, RunsAreInRange, NEW w \in Workers, NEW from \in Points, from # "idle",
           NEW to \in Points, Progress(w, from, to)
    PROVE  run' \in [Workers -> Runs]
<1>1. run[w].job \in Jobs
  BY DEF Progress, RunsAreInRange, InRange
<1>2. [run[w] EXCEPT !.pc = to, !.cancel = @ \/ row[run[w].job].cancel] \in Runs
  BY <1>1, RunTypes, RunFields
<1> QED
  BY <1>2 DEF Progress, TypeOK

\* and one that saves a checkpoint, with the row it saves it to.
LEMMA CheckpointTypes ==
    ASSUME TypeOK, RunsAreInRange, NEW w \in Workers, NEW from \in Points, from # "idle",
           NEW to \in Points, NEW c \in Checkpoints \cup {None}, Checkpoint(w, from, to, c)
    PROVE  run' \in [Workers -> Runs] /\ row' \in [Jobs -> JobRows]
<1>1. run[w].job \in Jobs
  BY DEF Checkpoint, RunsAreInRange, InRange
<1>2. [run[w] EXCEPT !.pc = to, !.cancel = @ \/ row[run[w].job].cancel, !.cp = c] \in Runs
  BY <1>1, RunTypes, RunFields
<1>3. [row[run[w].job] EXCEPT !.checkpoint = c] \in JobRows
  BY <1>1, RunTypes, RowFields
<1> QED
  BY <1>1, <1>2, <1>3 DEF Checkpoint, TypeOK

\* A run that has a batch to import, or a collection done, is in range.
LEMMA FetchedInRange ==
    ASSUME NEW r, r.job \in Jobs, r.cp \in Checkpoints, r.cp.index <= NCollections,
           r.pc = "advance" \/ (r.pc = "import" /\ r.page # {})
    PROVE  InRange(r)
  BY DEF InRange

\* The checkpoint of the next collection is one.
LEMMA AdvancedTypes ==
    ASSUME NEW c \in Checkpoints, c.index + 1 \in Positions
    PROVE  [c EXCEPT !.index = @ + 1, !.last = 0] \in Checkpoints
<1>1. 0 \in 0..NRows
  BY ConstantsAssumption
<1> QED
  BY <1>1 DEF Checkpoints

\* A rewound checkpoint is one.
LEMMA RewoundTypes ==
    ASSUME NEW w \in Workers, run[w].cp \in Checkpoints, NEW c \in Positions
    PROVE  Rewound(w, c) \in Checkpoints
<1>1. 0 \in 0..NRows
  BY ConstantsAssumption
<1>2. [run[w].cp EXCEPT !.index = c, !.last = 0] \in Checkpoints
  BY <1>1 DEF Checkpoints
<1> QED
  BY <1>2 DEF Rewound

\* Every step keeps the types of the rows and of Typesense.
LEMMA TypeStep ==
    ASSUME TypeInv, [Next]_vars
    PROVE  TypeInv'
<1> USE ConstantsAssumption DEF TypeInv, TypeOK, RunsAreInRange, InRange, search, source, bounds
<1>0. /\ \A w \in Workers : run[w] \in Runs
      /\ \A j \in Jobs : row[j] \in JobRows
  OBVIOUS
<1>1. ASSUME NEW j \in Jobs, Enqueue(j) PROVE TypeInv'
  <2>1. [row[j] EXCEPT !.status = "queued"] \in JobRows
    BY <1>0, RunTypes, RowFields DEF Statuses
  <2>2. row' \in [Jobs -> JobRows]
    BY <1>1, <2>1 DEF Enqueue
  <2> QED
    BY <1>1, <2>2 DEF Enqueue
<1>2. ASSUME NEW j \in Jobs, Retry(j) PROVE TypeInv'
  <2>1. [row[j] EXCEPT !.status = "queued", !.cancel = FALSE] \in JobRows
    BY <1>0, RunTypes, RowFields DEF Statuses
  <2>2. row' \in [Jobs -> JobRows]
    BY <1>2, <2>1 DEF Retry
  <2> QED
    BY <1>2, <2>2 DEF Retry
<1>3. ASSUME NEW j \in Jobs, Cancel(j) PROVE TypeInv'
  <2>1. [row[j] EXCEPT !.status = "cancelled"] \in JobRows
    BY <1>0, RowFields DEF Statuses
  <2>2. [row[j] EXCEPT !.cancel = TRUE] \in JobRows
    BY <1>0, RowFields
  <2>3. \/ row' = [row EXCEPT ![j] = [row[j] EXCEPT !.status = "cancelled"]]
        \/ row' = [row EXCEPT ![j] = [row[j] EXCEPT !.cancel = TRUE]]
    BY <1>3 DEF Cancel
  <2>4. row' \in [Jobs -> JobRows]
    <3>1. CASE row' = [row EXCEPT ![j] = [row[j] EXCEPT !.status = "cancelled"]]
      BY <2>1, <3>1
    <3>2. CASE row' = [row EXCEPT ![j] = [row[j] EXCEPT !.cancel = TRUE]]
      BY <2>2, <3>2
    <3> QED
      BY <2>3, <3>1, <3>2
  <2> QED
    BY <1>3, <2>4, <2>1, <2>2, <2>3 DEF Cancel
<1>4. ASSUME NEW j \in Jobs, LeaseLost(j) PROVE TypeInv'
  <2>1. [row[j] EXCEPT !.status = "queued", !.owner = None] \in JobRows
    BY <1>0, RunTypes, RowFields DEF Statuses
  <2>2. row' \in [Jobs -> JobRows]
    BY <1>4, <2>1 DEF LeaseLost
  <2> QED
    BY <1>4, <2>2 DEF LeaseLost
<1>5. ASSUME NEW c \in Collections, NEW r \in Rows, Change(c, r) PROVE TypeInv'
  BY <1>5 DEF Change
<1>6. ASSUME NEW c \in Collections, NEW r \in Rows, IndexRow(c, r) PROVE TypeInv'
  BY <1>6 DEF IndexRow
<1>7. ASSUME NEW w \in Workers, NEW j \in Jobs, Claim(w, j) PROVE TypeInv'
  <2>1. [row[j] EXCEPT !.status = "running", !.owner = w] \in JobRows
    BY <1>0, RunTypes, RowFields DEF Statuses
  <2>2. row' \in [Jobs -> JobRows]
    BY <1>7, <2>1 DEF Claim
  <2>3. [run[w] EXCEPT !.pc = "start", !.job = j, !.cp = row[j].checkpoint,
                       !.cancel = row[j].cancel] \in Runs
    BY <1>0, RunTypes, RunFields DEF Points, Stages
  <2>4. run' \in [Workers -> Runs]
    BY <1>7, <2>3 DEF Claim
  <2>5. RunsAreInRange'
    BY <1>0, <1>7 DEF Claim, Runs
  <2> QED
    BY <1>7, <2>2, <2>4, <2>5 DEF Claim
<1>8. ASSUME NEW w \in Workers, StopAtStart(w) PROVE TypeInv'
  <2>1. run' \in [Workers -> Runs]
    BY <1>8, GotoTypes DEF StopAtStart, Points
  <2>2. RunsAreInRange'
    BY <1>0, <1>8 DEF StopAtStart, Goto, Runs
  <2> QED
    BY <1>8, <2>1, <2>2 DEF StopAtStart, Goto
<1>9. ASSUME NEW w \in Workers, BeginFresh(w) PROVE TypeInv'
  <2>1. run[w].job \in Jobs
    BY <1>9 DEF BeginFresh
  <2>2. [suffix |-> clock + 1, index |-> 1, last |-> 0] \in Checkpoints
    BY <1>9 DEF BeginFresh, Checkpoints, Suffixes, Positions
  <2>3. clock' \in 0..MaxSuffix
    BY <1>9 DEF BeginFresh
  <2>4. [run[w] EXCEPT !.pc = "aliases", !.stage = "fresh", !.targets = {}, !.next = 1,
                       !.cancel = row[run[w].job].cancel,
                       !.cp = [suffix |-> clock + 1, index |-> 1, last |-> 0]] \in Runs
    <3> DEFINE begun == [run[w] EXCEPT !.pc = "aliases", !.stage = "fresh", !.targets = {},
                                       !.next = 1]
    <3>1. begun \in Runs
      BY <1>0, CleanupFields DEF Stages
    <3>2. [begun EXCEPT !.cancel = row[run[w].job].cancel] \in Runs
      BY <1>0, <3>1, <2>1, RunTypes, RunFields
    <3>3. [[begun EXCEPT !.cancel = row[run[w].job].cancel] EXCEPT
              !.cp = [suffix |-> clock + 1, index |-> 1, last |-> 0]] \in Runs
      BY <3>2, <2>2, RunFields
    <3> QED
      BY <3>3
  <2>5. run' \in [Workers -> Runs]
    BY <1>9, <2>4, <2>1, <2>2, <2>3 DEF BeginFresh
  <2>6. RunsAreInRange'
    <3>1. /\ run'[w].pc = "aliases" /\ run'[w].stage = "fresh" /\ run'[w].job = run[w].job
          /\ run'[w].cp = [suffix |-> clock + 1, index |-> 1, last |-> 0]
      BY <1>0, <1>9 DEF BeginFresh, Runs
    <3>2. \A v \in Workers \ {w} : run'[v] = run[v]
      BY <1>9 DEF BeginFresh
    <3> QED
      BY <3>1, <3>2, <2>1, <2>2
  <2> QED
    BY <1>9, <2>5, <2>6, <2>1, <2>2, <2>3 DEF BeginFresh
<1>10. ASSUME NEW w \in Workers, BeginResumed(w) PROVE TypeInv'
  <2>1. run[w].cp \in Checkpoints
    BY <1>10, RunTypes DEF BeginResumed
  <2>2. run' \in [Workers -> Runs]
    BY <1>10, ProgressTypes DEF BeginResumed, Points
  <2>3. RunsAreInRange'
    BY <1>0, <1>10, <2>1 DEF BeginResumed, Progress, Runs
  <2> QED
    BY <1>10, <2>2, <2>3, <2>1 DEF BeginResumed, Progress
<1>11. ASSUME NEW w \in Workers, ReadTarget(w) PROVE TypeInv'
  <2>1. run[w].next \in Collections /\ run[w].next + 1 \in Positions
    BY <1>0, <1>11, RunTypes DEF ReadTarget, Positions, Collections
  <2>2. (IF alias[run[w].next] \in Suffixes
         THEN run[w].targets \cup {<<run[w].next, alias[run[w].next]>>}
         ELSE run[w].targets) \in SUBSET Physical
    BY <1>0, RunTypes, <2>1 DEF Physical
  <2>3. [run[w] EXCEPT !.next = @ + 1,
           !.targets = IF alias[run[w].next] \in Suffixes
                       THEN @ \cup {<<run[w].next, alias[run[w].next]>>} ELSE @] \in Runs
    BY <1>0, RunTypes, RunFields, <2>1, <2>2
  <2>4. run' \in [Workers -> Runs]
    BY <1>11, <2>3 DEF ReadTarget
  <2>5. RunsAreInRange'
    BY <1>0, <1>11, <2>1 DEF ReadTarget, Runs
  <2> QED
    BY <1>11, <2>4, <2>5 DEF ReadTarget
<1>12. ASSUME NEW w \in Workers, ListStale(w) PROVE TypeInv'
  <2>1. [run[w] EXCEPT !.pc = "delete", !.next = 1, !.todo =
           {p \in existing : /\ p[2] \in Suffixes /\ p \notin run[w].targets
                             /\ OfRun(w, p)}] \in Runs
    BY <1>0, CleanupFields
  <2>2. run' \in [Workers -> Runs]
    BY <1>12, <2>1 DEF ListStale
  <2>3. RunsAreInRange'
    BY <1>0, <1>12 DEF ListStale, Runs
  <2> QED
    BY <1>12, <2>2, <2>3 DEF ListStale
<1>13. ASSUME NEW w \in Workers, DeleteFirst(w), run[w].pc \in {"delete", "previous"} PROVE TypeInv'
  <2>1. [run[w] EXCEPT !.todo = @ \ {First(run[w].todo)}] \in Runs
    BY <1>0, RunTypes, RunFields DEF Points, Stages
  <2>2. run' \in [Workers -> Runs]
    BY <1>13, <2>1 DEF DeleteFirst
  <2>3. RunsAreInRange'
    BY <1>0, <1>13 DEF DeleteFirst, Runs
  <2> QED
    BY <1>13, <2>2, <2>3 DEF DeleteFirst
<1>14. ASSUME NEW w \in Workers, StaleDeleted(w) PROVE TypeInv'
  <2>1. (CASE run[w].stage = "fresh"  -> "list"
             [] run[w].stage = "cancel" -> "clear"
             [] run[w].stage = "final"  -> "finish") \in {"list", "clear", "finish"} \cap Points
    BY <1>14 DEF StaleDeleted, Goto, Points
  <2>2. run' \in [Workers -> Runs]
    BY <1>14, <2>1, GotoTypes DEF StaleDeleted
  <2>3. RunsAreInRange'
    BY <1>0, <1>14, <2>1 DEF StaleDeleted, Goto, Runs
  <2> QED
    BY <1>14, <2>2, <2>3, <2>1 DEF StaleDeleted, Goto
<1>15. ASSUME NEW w \in Workers, ListMissing(w) PROVE TypeInv'
  <2>1. run[w].cp.suffix \in Suffixes
    BY <1>15 DEF ListMissing, Checkpoints
  <2>2. Own(w) \in SUBSET Physical
    BY <2>1 DEF Own, PhysicalName, Physical
  <2>3. [run[w] EXCEPT !.pc = "create", !.todo = Own(w) \ existing] \in Runs
    BY <1>0, RunTypes, RunFields, <2>1, <2>2 DEF Points, Stages
  <2>4. run' \in [Workers -> Runs]
    BY <1>15, <2>3, <2>1, <2>2 DEF ListMissing
  <2>5. RunsAreInRange'
    BY <1>0, <1>15, <2>1, <2>2 DEF ListMissing, Runs
  <2> QED
    BY <1>15, <2>4, <2>5, <2>1, <2>2 DEF ListMissing
<1>16. ASSUME NEW w \in Workers, Create(w) PROVE TypeInv'
  <2>1. First(run[w].todo) \in Physical
    BY <1>16, RunTypes, FirstIsMember DEF Create
  <2>2. First(run[w].todo)[1] \in Positions
    BY <2>1 DEF Physical, Collections, Positions
  <2>3. run[w].cp \in Checkpoints
    BY <1>16 DEF Create
  <2>4. Rewound(w, First(run[w].todo)[1]) \in Checkpoints
    BY <2>2, <2>3, RewoundTypes
  <2>5. [run[w] EXCEPT !.todo = @ \ {First(run[w].todo)},
                       !.cp = Rewound(w, First(run[w].todo)[1])] \in Runs
    BY <1>0, RunTypes, RunFields, <2>1, <2>2, <2>3, <2>4 DEF Points, Stages
  <2>6. run' \in [Workers -> Runs]
    BY <1>16, <2>5, <2>1, <2>2, <2>3, <2>4 DEF Create
  <2>7. RunsAreInRange'
    BY <1>0, <1>16, <2>1, <2>2, <2>3, <2>4 DEF Create, Runs
  <2> QED
    BY <1>16, <2>6, <2>7, <2>1, <2>2, <2>3, <2>4 DEF Create
<1>17. ASSUME NEW w \in Workers, Created(w) PROVE TypeInv'
  <2>1. run[w].cp \in Checkpoints
    BY <1>17 DEF Created, Checkpoint
  <2>2. row' \in [Jobs -> JobRows]
    BY <1>17, <2>1, CheckpointTypes DEF Created, Points
  <2>3. run' \in [Workers -> Runs]
    BY <1>17, <2>1, CheckpointTypes DEF Created, Points
  <2>4. RunsAreInRange'
    <3>1. run'[w].pc = "loop" /\ run'[w].job = run[w].job /\ run'[w].cp = run[w].cp
      BY <1>0, <1>17 DEF Created, Checkpoint, Runs
    <3>2. run[w].pc = "create" /\ \A v \in Workers \ {w} : run'[v] = run[v]
      BY <1>17 DEF Created, Checkpoint
    <3> QED
      BY <3>1, <3>2, <2>1
  <2> QED
    BY <1>17, <2>2, <2>3, <2>4, <2>1 DEF Created, Checkpoint
<1>18. ASSUME NEW w \in Workers, Interrupted(w) PROVE TypeInv'
  <2>1. [run[w] EXCEPT !.pc = "aliases", !.stage = "cancel", !.targets = {}, !.next = 1] \in Runs
    BY <1>0, CleanupFields DEF Stages
  <2>2. run' \in [Workers -> Runs]
    BY <1>18, <2>1 DEF Interrupted
  <2>3. RunsAreInRange'
    BY <1>0, <1>18 DEF Interrupted, Runs
  <2> QED
    BY <1>18, <2>2, <2>3 DEF Interrupted
<1>19. ASSUME NEW w \in Workers, Continue(w) PROVE TypeInv'
  <2>1. run' \in [Workers -> Runs]
    BY <1>19, GotoTypes DEF Continue, Points
  <2>2. RunsAreInRange'
    BY <1>0, <1>19 DEF Continue, Goto, Current, Checkpoints, Positions, Runs
  <2> QED
    BY <1>19, <2>1, <2>2 DEF Continue, Goto, Current, Checkpoints, Positions
<1>20. ASSUME NEW w \in Workers, Fetch(w) PROVE TypeInv'
  <2>1. run[w].cp \in Checkpoints /\ Current(w) \in Collections
    <3>1. run[w].pc = "fetch" /\ InRange(run[w])
      BY <1>20 DEF Fetch
    <3>2. run[w].cp \in Checkpoints /\ run[w].cp.index <= NCollections
      BY <3>1
    <3>3. run[w].cp.index \in Positions
      BY <3>2 DEF Checkpoints
    <3> QED
      BY <3>2, <3>3 DEF Current, Positions, Collections
  <2>2. After(w) \in SUBSET Rows
    BY <2>1 DEF After
  <2>3. FirstPage(After(w)) \in SUBSET Rows
    BY <2>2 DEF FirstPage
  <2>4. After(w) # {} => FirstPage(After(w)) # {}
    BY <2>2, PageIsNotEmpty
  <2>5. [run[w] EXCEPT !.pc = IF After(w) = {} THEN "advance" ELSE "import",
                       !.page = FirstPage(After(w))] \in Runs
    BY <1>0, RunTypes, RunFields, <2>1, <2>2, <2>3, <2>4 DEF Points, Stages
  <2>6. run' \in [Workers -> Runs]
    BY <1>20, <2>5, <2>1, <2>2, <2>3, <2>4 DEF Fetch, Current
  <2>7. /\ run'[w].job \in Jobs
        /\ run'[w].cp \in Checkpoints /\ run'[w].cp.index <= NCollections
        /\ run'[w].pc = "advance" \/ (run'[w].pc = "import" /\ run'[w].page # {})
    BY <1>0, <1>20, <2>1, <2>2, <2>3, <2>4 DEF Fetch, Current, Runs
  <2>8. \A v \in Workers \ {w} : run'[v] = run[v]
    BY <1>20 DEF Fetch, Current
  <2>9. RunsAreInRange'
    <3> SUFFICES ASSUME NEW v \in Workers PROVE InRange(run'[v])
      OBVIOUS
    <3>1. CASE v = w
      <4> HIDE DEF InRange
      <4>1. InRange(run'[w])
        BY <2>7, FetchedInRange
      <4> QED
        BY <3>1, <4>1
    <3>2. CASE v # w
      BY <2>8, <3>2
    <3> QED
      BY <3>1, <3>2
  <2> QED
    BY <1>20, <2>6, <2>9, <2>1, <2>2, <2>3, <2>4 DEF Fetch, Current
<1>21. ASSUME NEW w \in Workers, Import(w) PROVE TypeInv'
  <2>1. run[w].page \in SUBSET Rows
    BY RunTypes
  <2>2. run' \in [Workers -> Runs]
    BY <1>21, GotoTypes DEF Import, Points
  <2>3. RunsAreInRange'
    BY <1>0, <1>21, <2>1 DEF Import, Goto, Runs
  <2> QED
    BY <1>21, <2>2, <2>3, <2>1 DEF Import, Goto
<1>22. ASSUME NEW w \in Workers, SaveBatch(w) PROVE TypeInv'
  <2> DEFINE c == [run[w].cp EXCEPT !.last = LastId(run[w].page)]
  <2>1. AfterBatch(w) \in Points /\ AfterBatch(w) \in {"advance", "batch"}
    BY DEF AfterBatch, Points
  <2>2. c \in Checkpoints
    BY <1>22, RunTypes, LastIdIsMember DEF SaveBatch, Checkpoint, Checkpoints, Rows
  <2>3. c.index = run[w].cp.index
    BY <1>22 DEF SaveBatch, Checkpoint, Checkpoints
  <2>4. Checkpoint(w, "save", AfterBatch(w), c) /\ UNCHANGED <<search, source, bounds>>
    BY <1>22 DEF SaveBatch
  <2> HIDE DEF c
  <2>5. run' \in [Workers -> Runs] /\ row' \in [Jobs -> JobRows]
    BY <2>1, <2>2, <2>4, CheckpointTypes DEF Points
  <2>6. RunsAreInRange'
    <3>1. run'[w].pc = AfterBatch(w) /\ run'[w].job = run[w].job /\ run'[w].cp = c
      BY <1>0, <2>4 DEF Checkpoint, Runs
    <3>2. run[w].pc = "save" /\ \A v \in Workers \ {w} : run'[v] = run[v]
      BY <2>4 DEF Checkpoint
    <3> QED
      BY <3>1, <3>2, <2>1, <2>2, <2>3
  <2> QED
    BY <2>4, <2>5, <2>6
<1>23. ASSUME NEW w \in Workers, Advance(w) PROVE TypeInv'
  <2> DEFINE c == [run[w].cp EXCEPT !.index = @ + 1, !.last = 0]
  <2>1. run[w].cp \in Checkpoints /\ run[w].cp.index <= NCollections
    BY <1>23 DEF Advance, Checkpoint
  <2>2. run[w].cp.index + 1 \in Positions
    BY <2>1 DEF Checkpoints, Positions
  <2>3. c \in Checkpoints
    BY <2>1, <2>2, AdvancedTypes
  <2>4. Checkpoint(w, "advance", "loop", c) /\ UNCHANGED <<search, source, bounds>>
    BY <1>23 DEF Advance
  <2> HIDE DEF c
  <2>5. run' \in [Workers -> Runs] /\ row' \in [Jobs -> JobRows]
    BY <2>3, <2>4, CheckpointTypes DEF Points
  <2>6. RunsAreInRange'
    <3>1. run'[w].pc = "loop" /\ run'[w].job = run[w].job /\ run'[w].cp = c
      BY <1>0, <2>4 DEF Checkpoint, Runs
    <3>2. run[w].pc = "advance" /\ \A v \in Workers \ {w} : run'[v] = run[v]
      BY <2>4 DEF Checkpoint
    <3> QED
      BY <3>1, <3>2, <2>3
  <2> QED
    BY <2>4, <2>5, <2>6
<1>24. ASSUME NEW w \in Workers, BeginSwap(w) PROVE TypeInv'
  <2>1. run' \in [Workers -> Runs]
    BY <1>24, ProgressTypes DEF BeginSwap, Points
  <2>2. RunsAreInRange'
    BY <1>0, <1>24 DEF BeginSwap, Progress, Runs
  <2> QED
    BY <1>24, <2>1, <2>2 DEF BeginSwap, Progress
<1>25. ASSUME NEW w \in Workers, GetAlias(w) PROVE TypeInv'
  <2>1. run[w].next \in Collections
    BY <1>25, RunTypes DEF GetAlias, Positions, Collections
  <2>2. alias[run[w].next] \in Suffixes => <<run[w].next, alias[run[w].next]>> \in Physical
    BY <2>1 DEF Physical
  <2>3. \A x \in {"drop", "point"} : [run[w] EXCEPT !.pc = x] \in Runs
    BY RunTypes, RunFields DEF Points
  <2>4. [run[w] EXCEPT
           !.pc = IF alias[run[w].next] = Real THEN "drop" ELSE "point",
           !.todo = IF alias[run[w].next] \in Suffixes \ {run[w].cp.suffix}
                    THEN @ \cup {<<run[w].next, alias[run[w].next]>>} ELSE @] \in Runs
    BY <2>2, <2>3, RunTypes, RunFields
  <2>5. run' \in [Workers -> Runs]
    BY <1>25, <2>4 DEF GetAlias
  <2>6. /\ run'[w].pc \in {"drop", "point"} /\ run'[w].job \in Jobs
        /\ run'[w].cp \in Checkpoints /\ run'[w].next <= NCollections
    BY <1>0, <1>25, <2>1, <2>2, <2>3, <2>4 DEF GetAlias, Runs
  <2>7. \A v \in Workers \ {w} : run'[v] = run[v]
    BY <1>25 DEF GetAlias
  <2>8. RunsAreInRange'
    <3> SUFFICES ASSUME NEW v \in Workers PROVE InRange(run'[v])
      OBVIOUS
    <3>1. CASE v = w
      <4> HIDE DEF InRange
      <4>1. InRange(run'[w])
        BY <2>6 DEF InRange
      <4> QED
        BY <3>1, <4>1
    <3>2. CASE v # w
      BY <2>7, <3>2
    <3> QED
      BY <3>1, <3>2
  <2> QED
    BY <1>25, <2>5, <2>8, <2>1, <2>2, <2>3, <2>4 DEF GetAlias
<1>26. ASSUME NEW w \in Workers, DropReal(w) PROVE TypeInv'
  <2>1. run[w].next \in Collections
    BY <1>26, RunTypes DEF DropReal, Goto, Positions, Collections
  <2>2. run' \in [Workers -> Runs]
    BY <1>26, GotoTypes DEF DropReal, Points
  <2>3. RunsAreInRange'
    BY <1>0, <1>26, <2>1 DEF DropReal, Goto, Runs
  <2> QED
    BY <1>26, <2>2, <2>3, <2>1 DEF DropReal, Goto
<1>27. ASSUME NEW w \in Workers, Point(w) PROVE TypeInv'
  <2>1. run[w].cp.suffix \in Suffixes
    BY <1>27 DEF Point, Checkpoints
  <2>2. run[w].next + 1 \in Positions
    BY <1>27, RunTypes DEF Point, Positions
  <2>3. [run[w] EXCEPT !.pc = "look", !.next = @ + 1] \in Runs
    BY <1>0, RunTypes, RunFields, <2>1, <2>2 DEF Points, Stages
  <2>4. run' \in [Workers -> Runs]
    BY <1>27, <2>3, <2>1, <2>2 DEF Point
  <2>5. RunsAreInRange'
    BY <1>0, <1>27, <2>1, <2>2 DEF Point, Runs
  <2> QED
    BY <1>27, <2>4, <2>5, <2>1, <2>2 DEF Point
<1>28. ASSUME NEW w \in Workers, Swapped(w) PROVE TypeInv'
  <2>1. run' \in [Workers -> Runs]
    BY <1>28, ProgressTypes DEF Swapped, Points
  <2>2. RunsAreInRange'
    BY <1>0, <1>28 DEF Swapped, Progress, Runs
  <2> QED
    BY <1>28, <2>1, <2>2 DEF Swapped, Progress
<1>29. ASSUME NEW w \in Workers, PreviousDeleted(w) PROVE TypeInv'
  <2>1. [run[w] EXCEPT !.pc = "aliases", !.stage = "final", !.targets = {}, !.next = 1] \in Runs
    BY <1>0, CleanupFields DEF Stages
  <2>2. run' \in [Workers -> Runs]
    BY <1>29, <2>1 DEF PreviousDeleted
  <2>3. RunsAreInRange'
    BY <1>0, <1>29 DEF PreviousDeleted, Runs
  <2> QED
    BY <1>29, <2>2, <2>3 DEF PreviousDeleted
<1>30. ASSUME NEW w \in Workers, Finish(w) PROVE TypeInv'
  <2>1. run' \in [Workers -> Runs]
    BY <1>30, ProgressTypes DEF Finish, Points
  <2>2. RunsAreInRange'
    BY <1>0, <1>30 DEF Finish, Progress, Runs
  <2> QED
    BY <1>30, <2>1, <2>2 DEF Finish, Progress
<1>31. ASSUME NEW w \in Workers, ClearCheckpoint(w) PROVE TypeInv'
  <2>1. row' \in [Jobs -> JobRows]
    BY <1>31, CheckpointTypes DEF ClearCheckpoint, Points
  <2>2. run' \in [Workers -> Runs]
    BY <1>31, CheckpointTypes DEF ClearCheckpoint, Points
  <2>3. RunsAreInRange'
    BY <1>0, <1>31 DEF ClearCheckpoint, Checkpoint, Runs
  <2> QED
    BY <1>31, <2>1, <2>2, <2>3 DEF ClearCheckpoint, Checkpoint
<1>32. ASSUME NEW w \in Workers, NEW new \in JobRows, run[w].pc # "idle", Release(w, new) PROVE TypeInv'
  <2>1. Idle \in Runs
    BY DEF Idle, Runs, Points, Stages, Positions
  <2>2. row' \in [Jobs -> JobRows]
    BY <1>32 DEF Release
  <2>3. run' \in [Workers -> Runs]
    BY <1>32, <2>1 DEF Release
  <2>4. RunsAreInRange'
    BY <1>0, <1>32, <2>1 DEF Release, Idle, Runs
  <2> QED
    BY <1>32, <2>2, <2>3, <2>4, <2>1 DEF Release, Idle
<1>33. ASSUME NEW w \in Workers, LockLost(w) PROVE TypeInv'
  <2>1. Idle \in Runs
    BY DEF Idle, Runs, Points, Stages, Positions
  <2>2. run' \in [Workers -> Runs]
    BY <1>33, <2>1 DEF LockLost
  <2>3. RunsAreInRange'
    BY <1>0, <1>33, <2>1 DEF LockLost, Idle, Runs
  <2> QED
    BY <1>33, <2>2, <2>3, <2>1 DEF LockLost, Idle
<1>34. ASSUME NEW w \in Workers, Heartbeat(w) PROVE TypeInv'
  <2>1. run[w].job \in Jobs
    BY <1>34 DEF Heartbeat, Progress, Held
  <2>2. run' \in [Workers -> Runs]
    BY <1>34, RunTypes, ProgressTypes DEF Heartbeat, Progress, Held
  <2>3. RunsAreInRange'
    BY <1>0, <1>34, <2>1 DEF Heartbeat, Progress, Held, Runs
  <2> QED
    BY <1>34, <2>2, <2>3, <2>1 DEF Heartbeat, Progress, Held
<1>35. ASSUME NEW w \in Workers, Succeed(w) \/ BecomeCancelled(w) \/ Fail(w) PROVE TypeInv'
  <2>1. PICK new : Release(w, new) /\ new \in JobRows
    <3>1. run[w].pc # "idle" => row[run[w].job] \in JobRows
      BY <1>0
    <3>2. \A s \in Statuses : run[w].pc # "idle" => Released(w, s) \in JobRows
      BY <3>1, RowFields DEF Released
    <3>3. run[w].pc # "idle" =>
            [Released(w, "succeeded") EXCEPT !.checkpoint = None, !.cancel = FALSE] \in JobRows
      BY <3>2, RowFields DEF Statuses
    <3>4. CASE Succeed(w)
      BY <3>3, <3>4 DEF Succeed
    <3>5. CASE BecomeCancelled(w)
      BY <3>2, <3>5 DEF BecomeCancelled, Statuses
    <3>6. CASE Fail(w)
      BY <3>2, <3>6 DEF Fail, Release, Held, Statuses
    <3> QED
      BY <1>35, <3>4, <3>5, <3>6
  <2>2. run[w].pc # "idle"
    BY <2>1 DEF Release, Held
  <2> QED
    BY <1>32, <2>1, <2>2
<1>36. CASE UNCHANGED vars
  BY <1>36 DEF vars
<1> HIDE DEF TypeInv
<1>37. CASE Queue
  BY <1>1, <1>2, <1>3, <1>4, <1>7, <1>37 DEF Queue
<1>38. CASE Api
  BY <1>5, <1>6, <1>38 DEF Api
<1>39. ASSUME NEW w \in Workers, Prepare(w) PROVE TypeInv'
  BY <1>8, <1>9, <1>10, <1>11, <1>12, <1>13, <1>14, <1>15, <1>16, <1>17, <1>39
     DEF Prepare, DeleteStale
<1>40. ASSUME NEW w \in Workers, Load(w) PROVE TypeInv'
  BY <1>18, <1>19, <1>20, <1>21, <1>22, <1>23, <1>40 DEF Load
<1>41. ASSUME NEW w \in Workers, Swap(w) PROVE TypeInv'
  BY <1>13, <1>24, <1>25, <1>26, <1>27, <1>28, <1>29, <1>30, <1>41 DEF Swap, DeletePrevious
<1>42. ASSUME NEW w \in Workers, End(w) PROVE TypeInv'
  BY <1>31, <1>33, <1>35, <1>42 DEF End
<1> QED
  BY <1>34, <1>35, <1>36, <1>37, <1>38, <1>39, <1>40, <1>41, <1>42 DEF Next, Run

\* Nothing has run.
LEMMA TypeInit ==
    ASSUME Init
    PROVE  TypeInv
<1>1. Idle \in Runs
  BY ConstantsAssumption DEF Idle, Runs, Points, Stages, Positions
<1>2. TypeOK
  <2>1. Stable \in SUBSET Rows /\ Collections \X {Real} \in SUBSET Physical
    BY ConstantsAssumption DEF Rows, Physical
  <2>2. [status |-> "absent", cancel |-> FALSE, checkpoint |-> None, owner |-> None] \in JobRows
    BY DEF JobRows, Statuses
  <2> QED
    BY <1>1, <2>1, <2>2, ConstantsAssumption DEF TypeOK, Init
<1>3. RunsAreInRange
  BY DEF RunsAreInRange, InRange, Init, Idle
<1> QED
  BY <1>2, <1>3 DEF TypeInv

\* Every step of Spec keeps the types, whatever fails, is cancelled or retried.
THEOREM TypesHold == Spec => []TypeInv
<1>1. Init => TypeInv
  BY TypeInit
<1>2. TypeInv /\ [Next]_vars => TypeInv'
  BY TypeStep
<1> QED
  BY <1>1, <1>2, PTL DEF Spec

\* The one type invariant the runs check.
THEOREM TypeCorrect == Spec => []TypeOK
<1>1. TypeInv => TypeOK
  BY DEF TypeInv
<1> QED
  BY <1>1, TypesHold, PTL

-----------------------------------------------------------------------------
(* The names: one worker *)

\* The worker is a single replica (docs/jobs-worker.md:176).
OneWorker == \A v, w \in Workers : v = w

\* The phases of a run: deleting stale collections, loading, and swapping.
Cleaning == {"aliases", "delete"}
Loading == {"loop", "batch", "fetch", "import", "save", "advance", "swap"}
Swapping == {"look", "drop", "point"}

\* Before the swap, and after it.
BeforeSwap(r) ==
    \/ r.pc \in Loading \cup {"idle", "start", "list", "create"}
    \/ r.pc \in Cleaning /\ r.stage = "fresh"
AfterSwap(r) ==
    \/ r.pc \in {"previous", "finish", "completed"}
    \/ r.pc \in Cleaning /\ r.stage = "final"

\* A run r has the collections it relies on among those that exist,
HasCollections(r, exist) ==
    /\ r.pc = "create" => \A p \in r.todo : p[2] = r.cp.suffix
    /\ \A c \in Collections :
         /\ r.pc = "create" => <<c, r.cp.suffix>> \in exist \cup r.todo
         /\ r.pc \in Loading \cup Swapping \/ AfterSwap(r) => <<c, r.cp.suffix>> \in exist

\* deletes none that a name points to,
SparesTargets(r, names) == \A c \in Collections :
    /\ r.pc = "aliases" /\ c < r.next /\ names[c] \in Suffixes => <<c, names[c]>> \in r.targets
    /\ r.pc = "delete" => <<c, names[c]>> \notin r.todo

\* none of its own while it swaps,
SparesItsOwn(r) ==
    /\ r.pc \in Loading => r.todo = {}
    /\ r.pc \in Swapping \cup {"previous"} => \A p \in r.todo : p[2] # r.cp.suffix

\* points the names one after the other,
PointsInOrder(r, names) ==
    /\ BeforeSwap(r) /\ r.pc # "aliases" => r.next = 1
    /\ r.pc = "point" => names[r.next] # Real
    /\ \A c \in Collections :
         /\ r.pc \in Swapping /\ c < r.next => names[c] = r.cp.suffix
         /\ AfterSwap(r) => names[c] = r.cp.suffix

\* and, the second time it cleans up, leaves its own only.
LeavesItsOwn(r, exist) ==
    /\ r.pc = "aliases" /\ r.stage = "final" => \A p \in r.targets : p[2] = r.cp.suffix
    /\ r.pc = "delete" /\ r.stage = "final" => \A p \in exist \ r.todo : p[2] = r.cp.suffix
    /\ r.pc \in {"finish", "completed"} => \A p \in exist : p[2] = r.cp.suffix

RunInv(r, names, exist) ==
    /\ HasCollections(r, exist) /\ SparesTargets(r, names) /\ SparesItsOwn(r)
    /\ PointsInOrder(r, names) /\ LeavesItsOwn(r, exist)

\* A collection that bears an alias's name is what the name resolves to.
RealIsNamed == \A c \in Collections : <<c, Real>> \in existing => alias[c] = Real

\* The inductive invariant.
AliasInv ==
    /\ TypeInv
    /\ \A w \in Workers : RunInv(run[w], alias, existing)
    /\ RealIsNamed
    /\ AliasesResolve

-----------------------------------------------------------------------------

\* Every step keeps it.
LEMMA AliasStep ==
    ASSUME OneWorker, AliasInv, [Next]_vars
    PROVE  AliasInv'
<1> USE ConstantsAssumption DEF OneWorker, AliasInv, RealIsNamed, AliasesResolve,
        search, source, bounds
<1> DEFINE Kept == /\ \A w \in Workers : RunInv(run'[w], alias', existing')
                   /\ RealIsNamed'
                   /\ AliasesResolve'
<1>0. /\ \A w \in Workers : run[w] \in Runs
      /\ run \in [Workers -> Runs]
      /\ TypeInv'
      /\ alias \in [Collections -> Suffixes \cup {Real, None}]
      /\ existing \in SUBSET Physical
  BY TypeStep DEF TypeInv, TypeOK
<1>a. /\ \A p \in Physical : /\ p = <<p[1], p[2]>>
                              /\ p[1] \in Collections /\ p[2] \in Suffixes \cup {Real}
      /\ Real \notin Suffixes /\ None \notin Suffixes /\ None # Real
  BY DEF Physical, Suffixes
<1>b. \A w \in Workers : run[w].next \in Positions /\ InRange(run[w])
  BY RunTypes DEF TypeInv, RunsAreInRange
<1>c. /\ \A w \in Workers : run[w].next \in Int /\ 1 <= run[w].next
      /\ \A c \in Collections : c \in Int /\ 1 <= c /\ c <= NCollections
  BY <1>b DEF Positions, Collections
<1>d. \A w \in Workers : run[w].pc \notin {"idle", "start", "interrupted"} =>
                           run[w].cp \in Checkpoints /\ run[w].cp.suffix \in Suffixes
  BY <1>b DEF InRange, Checkpoints
<1>1. ASSUME NEW w \in Workers, StopAtStart(w) PROVE Kept
  <2>1. /\ run'[w].pc = "interrupted"
        /\ run'[w].cp = run[w].cp /\ run'[w].todo = run[w].todo
        /\ run'[w].targets = run[w].targets /\ run'[w].next = run[w].next
        /\ run'[w].stage = run[w].stage
    BY <1>0, <1>1 DEF StopAtStart, Goto, Runs
  <2>2. RunInv(run'[w], alias', existing')
    BY <1>0, <1>1, <2>1 DEF StopAtStart, Goto, RunInv, HasCollections, SparesTargets,
       SparesItsOwn, PointsInOrder, LeavesItsOwn, BeforeSwap, AfterSwap, Loading, Swapping,
       Cleaning
  <2>3. RealIsNamed' /\ AliasesResolve'
    BY <1>1 DEF StopAtStart, Goto
  <2> QED
    BY <2>2, <2>3
<1>2. ASSUME NEW w \in Workers, BeginFresh(w) PROVE Kept
  <2>1. /\ run'[w].pc = "aliases"
        /\ run'[w].stage = "fresh"
        /\ run'[w].todo = run[w].todo /\ run'[w].targets = {} /\ run'[w].next = 1
    BY <1>0, <1>2 DEF BeginFresh, Runs
  <2>2. RunInv(run'[w], alias', existing')
    <3>1. RunInv(run[w], alias, existing) /\ run[w].pc = "start"
      BY <1>2 DEF BeginFresh
    <3>2. alias' = alias /\ existing' = existing
      BY <1>2 DEF BeginFresh
    <3>3. SparesTargets(run'[w], alias')
      BY <1>c, <2>1, <3>2 DEF SparesTargets
    <3>4. HasCollections(run'[w], existing') /\ SparesItsOwn(run'[w])
      BY <2>1 DEF HasCollections, SparesItsOwn, AfterSwap, Loading, Swapping, Cleaning
    <3>5. PointsInOrder(run'[w], alias') /\ LeavesItsOwn(run'[w], existing')
      BY <2>1 DEF PointsInOrder, LeavesItsOwn, AfterSwap, Swapping, Cleaning
    <3> QED
      BY <3>3, <3>4, <3>5 DEF RunInv
  <2>3. RealIsNamed' /\ AliasesResolve'
    BY <1>2 DEF BeginFresh
  <2> QED
    BY <2>2, <2>3
<1>3. ASSUME NEW w \in Workers, BeginResumed(w) PROVE Kept
  <2>1. /\ run'[w].pc = "list"
        /\ run'[w].cp = run[w].cp /\ run'[w].todo = run[w].todo
        /\ run'[w].targets = run[w].targets /\ run'[w].next = run[w].next
        /\ run'[w].stage = run[w].stage
    BY <1>0, <1>3 DEF BeginResumed, Progress, Runs
  <2>2. RunInv(run'[w], alias', existing')
    BY <1>0, <1>3, <2>1 DEF BeginResumed, Progress, RunInv, HasCollections, SparesTargets,
       SparesItsOwn, PointsInOrder, LeavesItsOwn, BeforeSwap, AfterSwap, Loading, Swapping,
       Cleaning
  <2>3. RealIsNamed' /\ AliasesResolve'
    BY <1>3 DEF BeginResumed, Progress
  <2> QED
    BY <2>2, <2>3
<1>4. ASSUME NEW w \in Workers, ReadTarget(w) PROVE Kept
  <2>1. /\ run[w].pc = "aliases" /\ run'[w].pc = "aliases"
        /\ run'[w].targets = (IF alias[run[w].next] \in Suffixes
                              THEN run[w].targets \cup {<<run[w].next, alias[run[w].next]>>}
                              ELSE run[w].targets)
        /\ run'[w].next = run[w].next + 1 /\ run[w].next \in Collections
        /\ run'[w].cp = run[w].cp /\ run'[w].todo = run[w].todo
        /\ run'[w].stage = run[w].stage
    BY <1>0, <1>c, <1>4 DEF ReadTarget, Runs, Collections
  <2>2. alias' = alias /\ existing' = existing
    BY <1>4 DEF ReadTarget
  <2>3. RunInv(run[w], alias, existing)
    OBVIOUS
  <2>4. SparesTargets(run'[w], alias')
    <3>1. \A c \in Collections : c < run'[w].next => c < run[w].next \/ c = run[w].next
      BY <1>c, <2>1
    <3> QED
      BY <2>1, <2>2, <2>3, <3>1 DEF RunInv, SparesTargets
  <2>5. LeavesItsOwn(run'[w], existing')
    BY <2>1, <2>2, <2>3 DEF RunInv, LeavesItsOwn, PointsInOrder, AfterSwap, Cleaning
  <2>6. HasCollections(run'[w], existing') /\ SparesItsOwn(run'[w]) /\ PointsInOrder(run'[w], alias')
    BY <2>1, <2>2, <2>3 DEF RunInv, HasCollections, SparesItsOwn, PointsInOrder, BeforeSwap,
       AfterSwap, Loading, Swapping, Cleaning
  <2>7. RealIsNamed' /\ AliasesResolve'
    BY <2>2
  <2> QED
    BY <2>4, <2>5, <2>6, <2>7 DEF RunInv
<1>5. ASSUME NEW w \in Workers, ListStale(w) PROVE Kept
  <2>1. run[w].stage = "final" => run[w].cp.suffix \in Suffixes
    BY <1>5, <1>b DEF ListStale, InRange, Checkpoints
  <2>2. \A p \in existing : p \in run'[w].todo <=>
           /\ p[2] \in Suffixes /\ p \notin run[w].targets
           /\ run[w].stage = "cancel" => p \in Own(w)
    BY <1>0, <1>5 DEF ListStale, OfRun, Runs
  <2>3. /\ run'[w].pc = "delete"
        /\ run'[w].todo \subseteq existing
        /\ run'[w].cp = run[w].cp /\ run'[w].targets = run[w].targets
        /\ run'[w].next = 1 /\ run'[w].stage = run[w].stage
        /\ \A c \in Collections : c < run[w].next
    BY <1>0, <1>b, <1>c, <1>5, <2>1, <2>2 DEF ListStale, Runs, Positions
  <2>4. RunInv(run'[w], alias', existing')
    <3>1. HasCollections(run'[w], existing')
      BY <1>0, <1>5, <2>3, <2>1, <2>2 DEF ListStale, RunInv, HasCollections, AfterSwap,
         Loading, Swapping, Cleaning
    <3>2. SparesTargets(run'[w], alias')
      BY <1>0, <1>5, <2>3, <2>1, <2>2 DEF ListStale, RunInv, SparesTargets
    <3>3. SparesItsOwn(run'[w])
      BY <1>0, <1>5, <2>3, <2>1, <2>2 DEF ListStale, RunInv, SparesItsOwn, Loading, Swapping
    <3>4. PointsInOrder(run'[w], alias')
      BY <1>0, <1>5, <2>3, <2>1, <2>2 DEF ListStale, RunInv, PointsInOrder, BeforeSwap,
         AfterSwap, Loading, Swapping, Cleaning
    <3>5. LeavesItsOwn(run'[w], existing')
      BY <1>0, <1>5, <2>3, <2>1, <2>2, <1>a, <2>2 DEF ListStale, RunInv, LeavesItsOwn,
         PointsInOrder, AfterSwap, Cleaning
    <3> QED
      BY <3>1, <3>2, <3>3, <3>4, <3>5 DEF RunInv
  <2>5. RealIsNamed' /\ AliasesResolve'
    BY <1>5 DEF ListStale
  <2> QED
    BY <2>4, <2>5
<1>6. ASSUME NEW w \in Workers, DeleteFirst(w), run[w].pc = "delete" PROVE Kept
  <2>1. existing' = existing \ {First(run[w].todo)}
    BY <1>6 DEF DeleteFirst
  <2>2. alias' = alias
    BY <1>6 DEF DeleteFirst
  <2>3. First(run[w].todo) \in run[w].todo
    BY <1>0, <1>6, FirstIsMember DEF DeleteFirst, Runs
  <2>4. /\ run'[w].todo = run[w].todo \ {First(run[w].todo)}
        /\ run'[w].pc = run[w].pc /\ run'[w].cp = run[w].cp
        /\ run'[w].targets = run[w].targets /\ run'[w].next = run[w].next
        /\ run'[w].stage = run[w].stage
    BY <1>0, <1>6, <2>1, <2>2, <2>3 DEF DeleteFirst, Runs
  <2>5. RunInv(run'[w], alias', existing')
    <3>1. HasCollections(run'[w], existing')
      BY <1>0, <1>6, <2>4, <2>1, <2>2, <2>3, <1>a DEF DeleteFirst, RunInv, HasCollections,
         SparesTargets, SparesItsOwn, PointsInOrder, LeavesItsOwn, BeforeSwap, AfterSwap,
         Loading, Swapping, Cleaning
    <3>2. SparesTargets(run'[w], alias')
      BY <1>0, <1>6, <2>4, <2>1, <2>2, <2>3, <1>a DEF DeleteFirst, RunInv, SparesTargets
    <3>3. SparesItsOwn(run'[w])
      BY <1>0, <1>6, <2>4, <2>1, <2>2, <2>3 DEF DeleteFirst, RunInv, SparesItsOwn, Loading,
         Swapping
    <3>4. PointsInOrder(run'[w], alias')
      BY <1>0, <1>6, <2>4, <2>1, <2>2, <2>3 DEF DeleteFirst, RunInv, PointsInOrder,
         BeforeSwap, AfterSwap, Loading, Swapping, Cleaning
    <3>5. LeavesItsOwn(run'[w], existing')
      BY <1>0, <1>6, <2>4, <2>1, <2>2, <2>3 DEF DeleteFirst, RunInv, LeavesItsOwn
    <3> QED
      BY <3>1, <3>2, <3>3, <3>4, <3>5 DEF RunInv
  <2>6. RealIsNamed' /\ AliasesResolve'
    BY <1>0, <1>a, <1>6, <2>1, <2>2, <2>3 DEF RunInv, HasCollections, SparesTargets,
       SparesItsOwn, PointsInOrder, LeavesItsOwn, BeforeSwap, AfterSwap, Loading, Swapping,
       Cleaning
  <2> QED
    BY <2>5, <2>6
<1>7. ASSUME NEW w \in Workers, DeleteFirst(w), run[w].pc = "previous" PROVE Kept
  <2>1. existing' = existing \ {First(run[w].todo)}
    BY <1>7 DEF DeleteFirst
  <2>2. alias' = alias
    BY <1>7 DEF DeleteFirst
  <2>3. First(run[w].todo) \in run[w].todo
    BY <1>0, <1>7, FirstIsMember DEF DeleteFirst, Runs
  <2>4. /\ run'[w].todo = run[w].todo \ {First(run[w].todo)}
        /\ run'[w].pc = run[w].pc /\ run'[w].cp = run[w].cp
        /\ run'[w].targets = run[w].targets /\ run'[w].next = run[w].next
        /\ run'[w].stage = run[w].stage
    BY <1>0, <1>7, <2>1, <2>2, <2>3 DEF DeleteFirst, Runs
  <2>5. RunInv(run'[w], alias', existing')
    <3>1. HasCollections(run'[w], existing')
      BY <1>0, <1>7, <2>4, <2>1, <2>2, <2>3, <1>a DEF DeleteFirst, RunInv, HasCollections,
         SparesItsOwn, AfterSwap, Loading, Swapping, Cleaning
    <3>2. SparesTargets(run'[w], alias')
      BY <1>0, <1>7, <2>4, <2>1, <2>2, <2>3, <1>a DEF DeleteFirst, RunInv, SparesTargets
    <3>3. SparesItsOwn(run'[w])
      BY <1>0, <1>7, <2>4, <2>1, <2>2, <2>3 DEF DeleteFirst, RunInv, SparesItsOwn, Loading,
         Swapping
    <3>4. PointsInOrder(run'[w], alias')
      BY <1>0, <1>7, <2>4, <2>1, <2>2, <2>3 DEF DeleteFirst, RunInv, PointsInOrder,
         BeforeSwap, AfterSwap, Loading, Swapping, Cleaning
    <3>5. LeavesItsOwn(run'[w], existing')
      BY <1>0, <1>7, <2>4, <2>1, <2>2, <2>3 DEF DeleteFirst, RunInv, LeavesItsOwn
    <3> QED
      BY <3>1, <3>2, <3>3, <3>4, <3>5 DEF RunInv
  <2>6. RealIsNamed' /\ AliasesResolve'
    BY <1>0, <1>a, <1>7, <2>1, <2>2, <2>3 DEF RunInv, HasCollections, SparesTargets,
       SparesItsOwn, PointsInOrder, LeavesItsOwn, BeforeSwap, AfterSwap, Loading, Swapping,
       Cleaning
  <2> QED
    BY <2>5, <2>6
<1>8. ASSUME NEW w \in Workers, StaleDeleted(w) PROVE Kept
  <2>1. run[w].stage \in {"fresh", "cancel", "final"}
    BY <1>8 DEF StaleDeleted, Goto, TypeInv, RunsAreInRange, InRange
  <2>2. /\ run'[w].pc = (CASE run[w].stage = "fresh"  -> "list"
                         [] run[w].stage = "cancel" -> "clear"
                         [] run[w].stage = "final"  -> "finish")
        /\ run'[w].cp = run[w].cp /\ run'[w].todo = run[w].todo
        /\ run'[w].targets = run[w].targets /\ run'[w].next = run[w].next
        /\ run'[w].stage = run[w].stage
    BY <1>0, <1>8, <2>1 DEF StaleDeleted, Goto, Runs
  <2>3. RunInv(run'[w], alias', existing')
    <3>1. HasCollections(run'[w], existing')
      BY <1>0, <1>8, <2>2, <2>1 DEF StaleDeleted, Goto, RunInv, HasCollections, AfterSwap,
         Loading, Swapping, Cleaning
    <3>2. SparesTargets(run'[w], alias')
      BY <1>0, <1>8, <2>2, <2>1 DEF StaleDeleted, Goto, RunInv, SparesTargets
    <3>3. SparesItsOwn(run'[w])
      BY <1>0, <1>8, <2>2, <2>1 DEF StaleDeleted, Goto, RunInv, SparesItsOwn, Loading, Swapping
    <3>4. PointsInOrder(run'[w], alias')
      BY <1>0, <1>8, <2>2, <2>1 DEF StaleDeleted, Goto, RunInv, PointsInOrder, BeforeSwap,
         AfterSwap, Loading, Swapping, Cleaning
    <3>5. LeavesItsOwn(run'[w], existing')
      BY <1>0, <1>8, <2>2, <2>1 DEF StaleDeleted, Goto, RunInv, LeavesItsOwn
    <3> QED
      BY <3>1, <3>2, <3>3, <3>4, <3>5 DEF RunInv
  <2>4. RealIsNamed' /\ AliasesResolve'
    BY <1>8 DEF StaleDeleted, Goto
  <2> QED
    BY <2>3, <2>4
<1>9. ASSUME NEW w \in Workers, ListMissing(w) PROVE Kept
  <2>1. /\ run'[w].pc = "create"
        /\ run'[w].todo = Own(w) \ existing
        /\ run'[w].cp = run[w].cp /\ run'[w].targets = run[w].targets
        /\ run'[w].next = run[w].next /\ run'[w].stage = run[w].stage
    BY <1>0, <1>9 DEF ListMissing, Own, PhysicalName, Runs
  <2>2. RunInv(run'[w], alias', existing')
    BY <1>0, <1>9, <2>1 DEF ListMissing, Own, PhysicalName, RunInv, HasCollections,
       SparesTargets, SparesItsOwn, PointsInOrder, LeavesItsOwn, BeforeSwap, AfterSwap,
       Loading, Swapping, Cleaning
  <2>3. RealIsNamed' /\ AliasesResolve'
    BY <1>9 DEF ListMissing, Own, PhysicalName
  <2> QED
    BY <2>2, <2>3
<1>10. ASSUME NEW w \in Workers, Create(w) PROVE Kept
  <2>1. run[w].cp \in Checkpoints
    BY <1>10 DEF Create, TypeInv, RunsAreInRange, InRange
  <2>2. Rewound(w, First(run[w].todo)[1]).suffix = run[w].cp.suffix
    BY <2>1 DEF Rewound, Checkpoints
  <2>3. existing' = existing \cup {First(run[w].todo)} /\ alias' = alias
    BY <1>10 DEF Create
  <2>4. run[w].pc = "create" /\ First(run[w].todo) \in run[w].todo
    BY <1>0, <1>10, FirstIsMember DEF Create, Runs
  <2>5. /\ run'[w].cp.suffix = run[w].cp.suffix
        /\ run'[w].todo = run[w].todo \ {First(run[w].todo)}
        /\ run'[w].pc = run[w].pc /\ run'[w].targets = run[w].targets
        /\ run'[w].next = run[w].next /\ run'[w].stage = run[w].stage
    BY <1>0, <1>10, <2>1, <2>2, <2>3, <2>4 DEF Create, Runs
  <2>6. RunInv(run'[w], alias', existing')
    BY <1>0, <1>10, <2>5, <2>1, <2>2, <2>3, <2>4 DEF Create, RunInv, HasCollections,
       SparesTargets, SparesItsOwn, PointsInOrder, LeavesItsOwn, BeforeSwap, AfterSwap,
       Loading, Swapping, Cleaning
  <2>7. RealIsNamed' /\ AliasesResolve'
    BY <1>0, <1>a, <1>d, <1>10, <2>3, <2>4, <2>5 DEF HasCollections, RunInv
  <2> QED
    BY <2>6, <2>7
<1>11. ASSUME NEW w \in Workers, Created(w) PROVE Kept
  <2>1. run[w].pc = "create" /\ run[w].todo = {} /\ existing' = existing
    BY <1>11 DEF Created, Checkpoint
  <2>2. HasCollections(run[w], existing)
    BY DEF RunInv
  <2>3. /\ run'[w].pc = "loop"
        /\ run'[w].cp = run[w].cp /\ run'[w].todo = run[w].todo
        /\ run'[w].targets = run[w].targets /\ run'[w].next = run[w].next
        /\ run'[w].stage = run[w].stage
    BY <1>0, <1>11, <2>1, <2>2 DEF Created, Checkpoint, Runs
  <2>4. RunInv(run'[w], alias', existing')
    <3>1. HasCollections(run'[w], existing')
      BY <2>1, <2>2, <2>3 DEF HasCollections, AfterSwap, Loading, Swapping, Cleaning
    <3>2. SparesTargets(run'[w], alias')
      BY <1>0, <1>11, <2>3, <2>1, <2>2 DEF Created, Checkpoint, RunInv, SparesTargets
    <3>3. SparesItsOwn(run'[w])
      BY <1>0, <1>11, <2>3, <2>1, <2>2 DEF Created, Checkpoint, RunInv, SparesItsOwn, Loading,
         Swapping
    <3>4. PointsInOrder(run'[w], alias')
      BY <1>0, <1>11, <2>3, <2>1, <2>2 DEF Created, Checkpoint, RunInv, PointsInOrder,
         BeforeSwap, AfterSwap, Loading, Swapping, Cleaning
    <3>5. LeavesItsOwn(run'[w], existing')
      BY <1>0, <1>11, <2>3, <2>1, <2>2 DEF Created, Checkpoint, RunInv, LeavesItsOwn
    <3> QED
      BY <3>1, <3>2, <3>3, <3>4, <3>5 DEF RunInv
  <2>5. RealIsNamed' /\ AliasesResolve'
    BY <1>11 DEF Created, Checkpoint
  <2> QED
    BY <2>4, <2>5
<1>12. ASSUME NEW w \in Workers, Interrupted(w) PROVE Kept
  <2>1. /\ run'[w].pc = "aliases"
        /\ run'[w].stage = "cancel"
        /\ run'[w].cp = run[w].cp /\ run'[w].todo = run[w].todo
        /\ run'[w].targets = {} /\ run'[w].next = 1
    BY <1>0, <1>12 DEF Interrupted, Runs
  <2>2. RunInv(run'[w], alias', existing')
    BY <1>0, <1>c, <1>12, <2>1 DEF Interrupted, RunInv, HasCollections, SparesTargets, SparesItsOwn,
       PointsInOrder, LeavesItsOwn, BeforeSwap, AfterSwap, Loading, Swapping, Cleaning
  <2>3. RealIsNamed' /\ AliasesResolve'
    BY <1>12 DEF Interrupted
  <2> QED
    BY <2>2, <2>3
<1>13. ASSUME NEW w \in Workers, Continue(w) PROVE Kept
  <2>1. /\ run'[w].pc \in {"fetch", "swap"}
        /\ run'[w].cp = run[w].cp /\ run'[w].todo = run[w].todo
        /\ run'[w].targets = run[w].targets /\ run'[w].next = run[w].next
        /\ run'[w].stage = run[w].stage
    BY <1>0, <1>13 DEF Continue, Goto, Runs
  <2>2. RunInv(run'[w], alias', existing')
    BY <1>0, <1>13, <2>1 DEF Continue, Goto, RunInv, HasCollections, SparesTargets,
       SparesItsOwn, PointsInOrder, LeavesItsOwn, BeforeSwap, AfterSwap, Loading, Swapping,
       Cleaning
  <2>3. RealIsNamed' /\ AliasesResolve'
    BY <1>13 DEF Continue, Goto
  <2> QED
    BY <2>2, <2>3
<1>14. ASSUME NEW w \in Workers, Fetch(w) PROVE Kept
  <2>1. /\ run'[w].pc \in {"advance", "import"}
        /\ run'[w].cp = run[w].cp /\ run'[w].todo = run[w].todo
        /\ run'[w].targets = run[w].targets /\ run'[w].next = run[w].next
        /\ run'[w].stage = run[w].stage
    BY <1>0, <1>14 DEF Fetch, Runs
  <2>2. RunInv(run'[w], alias', existing')
    BY <1>0, <1>14, <2>1 DEF Fetch, RunInv, HasCollections, SparesTargets, SparesItsOwn,
       PointsInOrder, LeavesItsOwn, BeforeSwap, AfterSwap, Loading, Swapping, Cleaning
  <2>3. RealIsNamed' /\ AliasesResolve'
    BY <1>14 DEF Fetch
  <2> QED
    BY <2>2, <2>3
<1>15. ASSUME NEW w \in Workers, Import(w) PROVE Kept
  <2>1. /\ run'[w].pc = "save"
        /\ run'[w].cp = run[w].cp /\ run'[w].todo = run[w].todo
        /\ run'[w].targets = run[w].targets /\ run'[w].next = run[w].next
        /\ run'[w].stage = run[w].stage
    BY <1>0, <1>15 DEF Import, Goto, Runs
  <2>2. RunInv(run'[w], alias', existing')
    BY <1>0, <1>15, <2>1 DEF Import, Goto, RunInv, HasCollections, SparesTargets,
       SparesItsOwn, PointsInOrder, LeavesItsOwn, BeforeSwap, AfterSwap, Loading, Swapping,
       Cleaning
  <2>3. RealIsNamed' /\ AliasesResolve'
    BY <1>15 DEF Import, Goto
  <2> QED
    BY <2>2, <2>3
<1>16. ASSUME NEW w \in Workers, SaveBatch(w) PROVE Kept
  <2>1. run[w].pc = "save" /\ existing' = existing
    BY <1>16 DEF SaveBatch, Checkpoint
  <2>2. HasCollections(run[w], existing)
    BY DEF RunInv
  <2>3. [run[w].cp EXCEPT !.last = LastId(run[w].page)].suffix = run[w].cp.suffix
    BY <1>16 DEF SaveBatch, Checkpoint, TypeInv, RunsAreInRange, InRange, Checkpoints
  <2>4. /\ run'[w].pc \in {"advance", "batch"}
        /\ run'[w].cp.suffix = run[w].cp.suffix
        /\ run'[w].todo = run[w].todo /\ run'[w].targets = run[w].targets
        /\ run'[w].next = run[w].next /\ run'[w].stage = run[w].stage
    BY <1>0, <1>16, <2>1, <2>2, <2>3 DEF SaveBatch, Checkpoint, AfterBatch, Runs
  <2>5. RunInv(run'[w], alias', existing')
    <3>1. HasCollections(run'[w], existing')
      BY <2>1, <2>2, <2>4 DEF HasCollections, AfterSwap, Loading, Swapping, Cleaning
    <3>2. SparesTargets(run'[w], alias')
      BY <1>0, <1>16, <2>4, <2>1, <2>2, <2>3 DEF SaveBatch, Checkpoint, AfterBatch, RunInv,
         SparesTargets
    <3>3. SparesItsOwn(run'[w])
      BY <1>0, <1>16, <2>4, <2>1, <2>2, <2>3 DEF SaveBatch, Checkpoint, AfterBatch, RunInv,
         SparesItsOwn, Loading, Swapping
    <3>4. PointsInOrder(run'[w], alias')
      BY <1>0, <1>16, <2>4, <2>1, <2>2, <2>3 DEF SaveBatch, Checkpoint, AfterBatch, RunInv,
         PointsInOrder, BeforeSwap, AfterSwap, Loading, Swapping, Cleaning
    <3>5. LeavesItsOwn(run'[w], existing')
      BY <1>0, <1>16, <2>4, <2>1, <2>2, <2>3 DEF SaveBatch, Checkpoint, AfterBatch, RunInv,
         LeavesItsOwn
    <3> QED
      BY <3>1, <3>2, <3>3, <3>4, <3>5 DEF RunInv
  <2>6. RealIsNamed' /\ AliasesResolve'
    BY <1>16 DEF SaveBatch, Checkpoint, AfterBatch
  <2> QED
    BY <2>5, <2>6
<1>17. ASSUME NEW w \in Workers, Advance(w) PROVE Kept
  <2>1. run[w].pc = "advance" /\ existing' = existing
    BY <1>17 DEF Advance, Checkpoint
  <2>2. HasCollections(run[w], existing)
    BY DEF RunInv
  <2>3. [run[w].cp EXCEPT !.index = @ + 1, !.last = 0].suffix = run[w].cp.suffix
    BY <1>17 DEF Advance, Checkpoint, TypeInv, RunsAreInRange, InRange, Checkpoints
  <2>4. /\ run'[w].pc = "loop"
        /\ run'[w].cp.suffix = run[w].cp.suffix
        /\ run'[w].todo = run[w].todo /\ run'[w].targets = run[w].targets
        /\ run'[w].next = run[w].next /\ run'[w].stage = run[w].stage
    BY <1>0, <1>17, <2>1, <2>2, <2>3 DEF Advance, Checkpoint, Runs
  <2>5. RunInv(run'[w], alias', existing')
    <3>1. HasCollections(run'[w], existing')
      BY <2>1, <2>2, <2>4 DEF HasCollections, AfterSwap, Loading, Swapping, Cleaning
    <3>2. SparesTargets(run'[w], alias')
      BY <1>0, <1>17, <2>4, <2>1, <2>2, <2>3 DEF Advance, Checkpoint, RunInv, SparesTargets
    <3>3. SparesItsOwn(run'[w])
      BY <1>0, <1>17, <2>4, <2>1, <2>2, <2>3 DEF Advance, Checkpoint, RunInv, SparesItsOwn,
         Loading, Swapping
    <3>4. PointsInOrder(run'[w], alias')
      BY <1>0, <1>17, <2>4, <2>1, <2>2, <2>3 DEF Advance, Checkpoint, RunInv, PointsInOrder,
         BeforeSwap, AfterSwap, Loading, Swapping, Cleaning
    <3>5. LeavesItsOwn(run'[w], existing')
      BY <1>0, <1>17, <2>4, <2>1, <2>2, <2>3 DEF Advance, Checkpoint, RunInv, LeavesItsOwn
    <3> QED
      BY <3>1, <3>2, <3>3, <3>4, <3>5 DEF RunInv
  <2>6. RealIsNamed' /\ AliasesResolve'
    BY <1>17 DEF Advance, Checkpoint
  <2> QED
    BY <2>5, <2>6
<1>18. ASSUME NEW w \in Workers, BeginSwap(w) PROVE Kept
  <2>1. run[w].next = 1
    BY <1>18 DEF BeginSwap, Progress, RunInv, HasCollections, SparesTargets, SparesItsOwn,
       PointsInOrder, LeavesItsOwn, BeforeSwap, AfterSwap, Loading, Swapping, Cleaning
  <2>2. /\ run'[w].pc = "look"
        /\ run'[w].cp = run[w].cp /\ run'[w].todo = run[w].todo
        /\ run'[w].targets = run[w].targets /\ run'[w].next = run[w].next
        /\ run'[w].stage = run[w].stage
    BY <1>0, <1>18, <2>1 DEF BeginSwap, Progress, Runs
  <2>3. RunInv(run'[w], alias', existing')
    <3>1. HasCollections(run'[w], existing')
      BY <1>0, <1>18, <2>2, <2>1 DEF BeginSwap, Progress, RunInv, HasCollections, AfterSwap,
         Loading, Swapping
    <3>2. SparesTargets(run'[w], alias')
      BY <1>0, <1>18, <2>2, <2>1 DEF BeginSwap, Progress, RunInv, SparesTargets
    <3>3. SparesItsOwn(run'[w])
      BY <1>0, <1>18, <2>2, <2>1 DEF BeginSwap, Progress, RunInv, SparesItsOwn, Loading,
         Swapping
    <3>4. PointsInOrder(run'[w], alias')
      BY <1>0, <1>18, <2>2, <2>1, <1>c DEF BeginSwap, Progress, RunInv, PointsInOrder,
         BeforeSwap, AfterSwap, Loading, Swapping, Cleaning
    <3>5. LeavesItsOwn(run'[w], existing')
      BY <1>0, <1>18, <2>2, <2>1 DEF BeginSwap, Progress, RunInv, LeavesItsOwn
    <3> QED
      BY <3>1, <3>2, <3>3, <3>4, <3>5 DEF RunInv
  <2>4. RealIsNamed' /\ AliasesResolve'
    BY <1>18 DEF BeginSwap, Progress
  <2> QED
    BY <2>3, <2>4
<1>19. ASSUME NEW w \in Workers, GetAlias(w) PROVE Kept
  <2>1. /\ run'[w].pc = (IF alias[run[w].next] = Real THEN "drop" ELSE "point")
        /\ run'[w].todo = (IF alias[run[w].next] \in Suffixes \ {run[w].cp.suffix}
                         THEN run[w].todo \cup {<<run[w].next, alias[run[w].next]>>} ELSE run[w].todo)
        /\ run'[w].cp = run[w].cp /\ run'[w].targets = run[w].targets
        /\ run'[w].next = run[w].next /\ run'[w].stage = run[w].stage
    BY <1>0, <1>19 DEF GetAlias, Runs
  <2>2. RunInv(run'[w], alias', existing')
    <3>1. HasCollections(run'[w], existing')
      <4>1. run[w].pc = "look" /\ run'[w].pc \in {"drop", "point"} /\ existing' = existing
        BY <1>19, <2>1 DEF GetAlias
      <4>2. HasCollections(run[w], existing)
        BY DEF RunInv
      <4> QED
        BY <2>1, <4>1, <4>2 DEF HasCollections, AfterSwap, Swapping, Cleaning
    <3>2. SparesTargets(run'[w], alias')
      BY <1>0, <1>19, <2>1 DEF GetAlias, RunInv, SparesTargets
    <3>3. SparesItsOwn(run'[w])
      <4>1. run[w].pc = "look" /\ run'[w].pc \in {"drop", "point"}
        BY <1>19, <2>1 DEF GetAlias
      <4>2. \A p \in run[w].todo : p[2] # run[w].cp.suffix
        BY <4>1 DEF RunInv, SparesItsOwn, Swapping
      <4>3. \A p \in run'[w].todo : p[2] # run'[w].cp.suffix
        BY <2>1, <4>2
      <4> QED
        BY <4>1, <4>3 DEF SparesItsOwn, Loading
    <3>4. PointsInOrder(run'[w], alias')
      <4>1. run[w].pc = "look" /\ run'[w].pc \in {"drop", "point"} /\ alias' = alias
        BY <1>19, <2>1 DEF GetAlias
      <4>2. PointsInOrder(run[w], alias)
        BY DEF RunInv
      <4>3. run'[w].pc = "point" => alias[run'[w].next] # Real
        BY <2>1
      <4>4. \A c \in Collections : c < run[w].next => alias[c] = run[w].cp.suffix
        BY <4>1, <4>2 DEF PointsInOrder, Swapping
      <4>5. ~BeforeSwap(run'[w]) /\ ~AfterSwap(run'[w])
        BY <4>1 DEF BeforeSwap, AfterSwap, Loading, Cleaning
      <4> QED
        BY <2>1, <4>1, <4>3, <4>4, <4>5 DEF PointsInOrder
    <3>5. LeavesItsOwn(run'[w], existing')
      BY <1>0, <1>19, <2>1 DEF GetAlias, RunInv, LeavesItsOwn
    <3> QED
      BY <3>1, <3>2, <3>3, <3>4, <3>5 DEF RunInv
  <2>3. RealIsNamed' /\ AliasesResolve'
    BY <1>19 DEF GetAlias
  <2> QED
    BY <2>2, <2>3
<1>20. ASSUME NEW w \in Workers, DropReal(w) PROVE Kept
  <2>1. run[w].next \in Collections
    BY <1>20, <1>b DEF DropReal, Goto, InRange, Positions, Collections
  <2>2. alias' = [alias EXCEPT ![run[w].next] = None]
    BY <1>20 DEF DropReal
  <2>3. existing' = existing \ {<<run[w].next, Real>>}
    BY <1>20 DEF DropReal
  <2>4. /\ run'[w].pc = "point"
        /\ run'[w].cp = run[w].cp /\ run'[w].todo = run[w].todo
        /\ run'[w].targets = run[w].targets /\ run'[w].next = run[w].next
        /\ run'[w].stage = run[w].stage
    BY <1>0, <1>20, <2>1, <2>2, <2>3 DEF DropReal, Goto, Runs
  <2>5. RunInv(run'[w], alias', existing')
    <3>1. HasCollections(run'[w], existing')
      BY <1>0, <1>20, <2>4, <2>1, <2>2, <2>3, <1>a, <1>d DEF DropReal, Goto, RunInv,
         HasCollections, AfterSwap, Loading, Swapping
    <3>2. SparesTargets(run'[w], alias')
      BY <1>0, <1>20, <2>4, <2>1, <2>2, <2>3 DEF DropReal, Goto, RunInv, SparesTargets
    <3>3. SparesItsOwn(run'[w])
      BY <1>0, <1>20, <2>4, <2>1, <2>2, <2>3 DEF DropReal, Goto, RunInv, SparesItsOwn,
         Loading, Swapping
    <3>4. PointsInOrder(run'[w], alias')
      BY <1>0, <1>20, <2>4, <2>1, <2>2, <2>3, <1>a, <1>c DEF DropReal, Goto, RunInv,
         PointsInOrder, BeforeSwap, AfterSwap, Loading, Swapping, Cleaning
    <3>5. LeavesItsOwn(run'[w], existing')
      BY <1>0, <1>20, <2>4, <2>1, <2>2, <2>3 DEF DropReal, Goto, RunInv, LeavesItsOwn
    <3> QED
      BY <3>1, <3>2, <3>3, <3>4, <3>5 DEF RunInv
  <2>6. RealIsNamed' /\ AliasesResolve'
    BY <1>0, <1>a, <1>20, <2>1, <2>2, <2>3
  <2> QED
    BY <2>5, <2>6
<1>21. ASSUME NEW w \in Workers, Point(w) PROVE Kept
  <2>1. run[w].next \in Collections
    BY <1>21, <1>0 DEF Point, TypeInv, RunsAreInRange, InRange, Runs, Positions, Collections
  <2>2. alias' = [alias EXCEPT ![run[w].next] = run[w].cp.suffix]
    BY <1>21 DEF Point
  <2>3. /\ run'[w].pc = "look"
        /\ run'[w].next = run[w].next + 1
        /\ run'[w].cp = run[w].cp /\ run'[w].todo = run[w].todo
        /\ run'[w].targets = run[w].targets /\ run'[w].stage = run[w].stage
    BY <1>0, <1>21, <2>1, <2>2 DEF Point, Runs
  <2>4. RunInv(run'[w], alias', existing')
    <3>1. HasCollections(run'[w], existing')
      BY <1>0, <1>21, <2>3, <2>1, <2>2 DEF Point, RunInv, HasCollections, AfterSwap, Loading,
         Swapping
    <3>2. SparesTargets(run'[w], alias')
      BY <1>0, <1>21, <2>3, <2>1, <2>2 DEF Point, RunInv, SparesTargets
    <3>3. SparesItsOwn(run'[w])
      BY <1>0, <1>21, <2>3, <2>1, <2>2 DEF Point, RunInv, SparesItsOwn, Loading, Swapping
    <3>4. PointsInOrder(run'[w], alias')
      BY <1>0, <1>21, <2>3, <2>1, <2>2, <1>c DEF Point, RunInv, PointsInOrder, BeforeSwap,
         AfterSwap, Loading, Swapping, Cleaning
    <3>5. LeavesItsOwn(run'[w], existing')
      BY <1>0, <1>21, <2>3, <2>1, <2>2 DEF Point, RunInv, LeavesItsOwn
    <3> QED
      BY <3>1, <3>2, <3>3, <3>4, <3>5 DEF RunInv
  <2>5. RealIsNamed' /\ AliasesResolve'
    BY <1>0, <1>a, <1>b, <1>21, <2>1, <2>2 DEF Point, RunInv, HasCollections, SparesTargets,
       SparesItsOwn, PointsInOrder, LeavesItsOwn, BeforeSwap, AfterSwap, Loading, Swapping,
       Cleaning
  <2> QED
    BY <2>4, <2>5
<1>22. ASSUME NEW w \in Workers, Swapped(w) PROVE Kept
  <2>1. /\ run'[w].pc = "previous"
        /\ run'[w].cp = run[w].cp /\ run'[w].todo = run[w].todo
        /\ run'[w].targets = run[w].targets /\ run'[w].next = run[w].next
        /\ run'[w].stage = run[w].stage
    BY <1>0, <1>22 DEF Swapped, Progress, Runs
  <2>2. RunInv(run'[w], alias', existing')
    <3>1. HasCollections(run'[w], existing')
      BY <1>0, <1>22, <2>1 DEF Swapped, Progress, RunInv, HasCollections, AfterSwap, Loading,
         Swapping
    <3>2. SparesTargets(run'[w], alias')
      BY <1>0, <1>22, <2>1 DEF Swapped, Progress, RunInv, SparesTargets
    <3>3. SparesItsOwn(run'[w])
      BY <1>0, <1>22, <2>1 DEF Swapped, Progress, RunInv, SparesItsOwn, Loading, Swapping
    <3>4. PointsInOrder(run'[w], alias')
      BY <1>0, <1>22, <2>1, <1>c DEF Swapped, Progress, RunInv, PointsInOrder, BeforeSwap,
         AfterSwap, Loading, Swapping, Cleaning
    <3>5. LeavesItsOwn(run'[w], existing')
      BY <1>0, <1>22, <2>1 DEF Swapped, Progress, RunInv, LeavesItsOwn
    <3> QED
      BY <3>1, <3>2, <3>3, <3>4, <3>5 DEF RunInv
  <2>3. RealIsNamed' /\ AliasesResolve'
    BY <1>22 DEF Swapped, Progress
  <2> QED
    BY <2>2, <2>3
<1>23. ASSUME NEW w \in Workers, PreviousDeleted(w) PROVE Kept
  <2>1. /\ run'[w].pc = "aliases"
        /\ run'[w].stage = "final"
        /\ run'[w].cp = run[w].cp /\ run'[w].todo = run[w].todo
        /\ run'[w].targets = {} /\ run'[w].next = 1
    BY <1>0, <1>23 DEF PreviousDeleted, Runs
  <2>2. RunInv(run'[w], alias', existing')
    BY <1>0, <1>c, <1>23, <2>1 DEF PreviousDeleted, RunInv, HasCollections, SparesTargets,
       SparesItsOwn, PointsInOrder, LeavesItsOwn, BeforeSwap, AfterSwap, Loading, Swapping,
       Cleaning
  <2>3. RealIsNamed' /\ AliasesResolve'
    BY <1>23 DEF PreviousDeleted
  <2> QED
    BY <2>2, <2>3
<1>24. ASSUME NEW w \in Workers, Finish(w) PROVE Kept
  <2>1. /\ run'[w].pc = "completed"
        /\ run'[w].cp = run[w].cp /\ run'[w].todo = run[w].todo
        /\ run'[w].targets = run[w].targets /\ run'[w].next = run[w].next
        /\ run'[w].stage = run[w].stage
    BY <1>0, <1>24 DEF Finish, Progress, Runs
  <2>2. RunInv(run'[w], alias', existing')
    BY <1>0, <1>24, <2>1 DEF Finish, Progress, RunInv, HasCollections, SparesTargets,
       SparesItsOwn, PointsInOrder, LeavesItsOwn, BeforeSwap, AfterSwap, Loading, Swapping,
       Cleaning
  <2>3. RealIsNamed' /\ AliasesResolve'
    BY <1>24 DEF Finish, Progress
  <2> QED
    BY <2>2, <2>3
<1>25. ASSUME NEW w \in Workers, ClearCheckpoint(w) PROVE Kept
  <2>1. /\ run'[w].pc = "interrupted"
        /\ run'[w].todo = run[w].todo /\ run'[w].targets = run[w].targets
        /\ run'[w].next = run[w].next /\ run'[w].stage = run[w].stage
    BY <1>0, <1>25 DEF ClearCheckpoint, Checkpoint, Runs
  <2>2. RunInv(run'[w], alias', existing')
    BY <1>0, <1>25, <2>1 DEF ClearCheckpoint, Checkpoint, RunInv, HasCollections,
       SparesTargets, SparesItsOwn, PointsInOrder, LeavesItsOwn, BeforeSwap, AfterSwap,
       Loading, Swapping, Cleaning
  <2>3. RealIsNamed' /\ AliasesResolve'
    BY <1>25 DEF ClearCheckpoint, Checkpoint
  <2> QED
    BY <2>2, <2>3
<1>26. ASSUME NEW w \in Workers, run' = [run EXCEPT ![w] = Idle], UNCHANGED search PROVE Kept
  <2>1. /\ run'[w].pc = "idle"
        /\ run'[w].next = 1
        /\ run'[w].todo = {}
    BY <1>0, <1>26 DEF Idle, Runs
  <2>2. RunInv(run'[w], alias', existing')
    BY <1>0, <1>26, <2>1 DEF Idle, RunInv, HasCollections, SparesTargets, SparesItsOwn,
       PointsInOrder, LeavesItsOwn, BeforeSwap, AfterSwap, Loading, Swapping, Cleaning
  <2>3. RealIsNamed' /\ AliasesResolve'
    BY <1>26 DEF Idle
  <2> QED
    BY <2>2, <2>3
<1>27. ASSUME NEW w \in Workers, Heartbeat(w) PROVE Kept
  <2>1. /\ run'[w].pc = run[w].pc
        /\ run'[w].cp = run[w].cp /\ run'[w].todo = run[w].todo
        /\ run'[w].targets = run[w].targets /\ run'[w].next = run[w].next
        /\ run'[w].stage = run[w].stage
    BY <1>0, <1>27 DEF Heartbeat, Progress, Runs
  <2>2. RunInv(run'[w], alias', existing')
    BY <1>0, <1>27, <2>1 DEF Heartbeat, Progress, RunInv, HasCollections, SparesTargets,
       SparesItsOwn, PointsInOrder, LeavesItsOwn, BeforeSwap, AfterSwap, Loading, Swapping,
       Cleaning
  <2>3. RealIsNamed' /\ AliasesResolve'
    BY <1>27 DEF Heartbeat, Progress
  <2> QED
    BY <2>2, <2>3
<1>28. ASSUME NEW w \in Workers, NEW j \in Jobs, Claim(w, j) PROVE Kept
  <2>1. /\ run'[w].pc = "start"
        /\ run'[w].todo = run[w].todo /\ run'[w].targets = run[w].targets
        /\ run'[w].next = run[w].next /\ run'[w].stage = run[w].stage
    BY <1>0, <1>28 DEF Claim, Runs
  <2>2. RunInv(run'[w], alias', existing')
    BY <1>0, <1>28, <2>1 DEF Claim, RunInv, HasCollections, SparesTargets, SparesItsOwn,
       PointsInOrder, LeavesItsOwn, BeforeSwap, AfterSwap, Loading, Swapping, Cleaning
  <2>3. RealIsNamed' /\ AliasesResolve'
    BY <1>28 DEF Claim
  <2> QED
    BY <2>2, <2>3
<1>29. ASSUME UNCHANGED <<run, alias, existing>> PROVE Kept
  <2>1. \A w \in Workers : RunInv(run'[w], alias', existing')
    BY <1>29
  <2>2. RealIsNamed' /\ AliasesResolve'
    BY <1>29
  <2> QED
    BY <2>1, <2>2
<1> HIDE DEF Kept, OneWorker, AliasInv, RealIsNamed, AliasesResolve
<1>30. ASSUME Queue PROVE Kept
  <2>1. \A j \in Jobs : Enqueue(j) \/ Retry(j) \/ Cancel(j) \/ LeaseLost(j) =>
                        UNCHANGED <<run, alias, existing>>
    BY DEF Enqueue, Retry, Cancel, LeaseLost
  <2> QED
    BY <1>28, <1>29, <1>30, <2>1 DEF Queue
<1>31. ASSUME Api PROVE Kept
  BY <1>29, <1>31 DEF Api, Change, IndexRow
<1>32. ASSUME NEW w \in Workers, Prepare(w) PROVE Kept
  BY <1>1, <1>2, <1>3, <1>4, <1>5, <1>6, <1>8, <1>9, <1>10, <1>11, <1>32
     DEF Prepare, DeleteStale
<1>33. ASSUME NEW w \in Workers, Load(w) PROVE Kept
  BY <1>12, <1>13, <1>14, <1>15, <1>16, <1>17, <1>33 DEF Load
<1>34. ASSUME NEW w \in Workers, Swap(w) PROVE Kept
  BY <1>7, <1>18, <1>19, <1>20, <1>21, <1>22, <1>23, <1>24, <1>34 DEF Swap, DeletePrevious
<1>35. ASSUME NEW w \in Workers, End(w) \/ Fail(w) PROVE Kept
  BY <1>25, <1>26, <1>35 DEF End, Fail, Succeed, BecomeCancelled, LockLost, Release
<1>36. ASSUME UNCHANGED vars PROVE Kept
  BY <1>29, <1>36 DEF vars
<1>37. Kept
  BY <1>27, <1>30, <1>31, <1>32, <1>33, <1>34, <1>35, <1>36 DEF Next, Run
<1> QED
  BY <1>0, <1>37 DEF Kept, AliasInv

\* At the start every name resolves to a collection that bears it.
LEMMA AliasInit ==
    ASSUME Init
    PROVE  AliasInv
<1>1. \A w \in Workers : RunInv(Idle, alias, existing)
  BY DEF Idle, RunInv, HasCollections, SparesTargets, SparesItsOwn, PointsInOrder,
         LeavesItsOwn, BeforeSwap, AfterSwap, Loading, Swapping, Cleaning
<1>2. RealIsNamed /\ AliasesResolve
  BY DEF Init, RealIsNamed, AliasesResolve
<1> QED
  BY <1>1, <1>2, TypeInit DEF AliasInv, Init

\* The invariant holds.
THEOREM AliasInvHolds ==
    ASSUME OneWorker
    PROVE  Spec => []AliasInv
<1>1. Init => AliasInv
  BY AliasInit
<1>2. AliasInv /\ [Next]_vars => AliasInv'
  BY AliasStep
<1> QED
  BY <1>1, <1>2, PTL DEF Spec

\* With one worker no name points at a deleted collection, whatever failed,
\* cancelled, lost and retried runs delete, and wherever they stop.
THEOREM NamesResolve ==
    ASSUME OneWorker
    PROVE  Spec => []AliasesResolve
<1>1. AliasInv => AliasesResolve
  BY DEF AliasInv
<1> QED
  BY <1>1, AliasInvHolds, PTL

-----------------------------------------------------------------------------
(* Success *)

\* Only Worker::finalize of a completed run makes a job succeed.
LEMMA OnlySucceedSucceeds ==
    ASSUME TypeInv, [Next]_vars, NEW j \in Jobs,
           row[j].status # "succeeded", row'[j].status = "succeeded"
    PROVE  \E w \in Workers : Succeed(w)
<1>1. row \in [Jobs -> JobRows]
  BY DEF TypeInv, TypeOK
<1>2. row' # row
  OBVIOUS
<1>3. \A w \in Workers : \A from, to, c : ~Checkpoint(w, from, to, c)
  <2> SUFFICES ASSUME NEW w \in Workers, NEW from, NEW to, NEW c, Checkpoint(w, from, to, c)
               PROVE  FALSE
    OBVIOUS
  <2>1. row' = [row EXCEPT ![run[w].job] = [row[run[w].job] EXCEPT !.checkpoint = c]]
    BY DEF Checkpoint
  <2>2. [row[j] EXCEPT !.checkpoint = c].status = row[j].status
    BY <1>1 DEF JobRows
  <2> QED
    BY <1>1, <2>1, <2>2
<1>4. ~ \E w \in Workers : \E s \in {"cancelled", "queued", "failed"} : Release(w, Released(w, s))
  BY <1>1 DEF Release, Released, JobRows
<1>5. ~ \E k \in Jobs : Enqueue(k) \/ Retry(k) \/ Cancel(k) \/ LeaseLost(k)
  <2> SUFFICES ASSUME NEW k \in Jobs, Enqueue(k) \/ Retry(k) \/ Cancel(k) \/ LeaseLost(k)
               PROVE  FALSE
    OBVIOUS
  <2>1. row[j] \in JobRows
    BY <1>1
  <2>2. CASE Enqueue(k)
    BY <1>1, <2>1, <2>2 DEF Enqueue, JobRows
  <2>3. CASE Retry(k)
    BY <1>1, <2>1, <2>3 DEF Retry, JobRows
  <2>4. CASE Cancel(k)
    BY <1>1, <2>1, <2>4 DEF Cancel, JobRows
  <2>5. CASE LeaseLost(k)
    BY <1>1, <2>1, <2>5 DEF LeaseLost, JobRows
  <2> QED
    BY <2>2, <2>3, <2>4, <2>5
<1>6. ~ \E k \in Jobs, w \in Workers : Claim(w, k)
  BY <1>1 DEF Claim, JobRows
<1>7. ~Queue /\ ~Api
  BY <1>2, <1>5, <1>6 DEF Queue, Api, Change, IndexRow
<1>8. \A w \in Workers : ~Prepare(w)
  BY <1>2, <1>3 DEF Prepare, StopAtStart, BeginFresh, BeginResumed, ReadTarget, ListStale,
     DeleteStale, DeleteFirst, StaleDeleted, ListMissing, Create, Created
<1>9. \A w \in Workers : ~Load(w)
  BY <1>2, <1>3 DEF Load, Interrupted, Continue, Fetch, Import, SaveBatch, Advance
<1>10. \A w \in Workers : ~Swap(w)
  BY <1>2 DEF Swap, BeginSwap, GetAlias, DropReal, Point, Swapped, DeletePrevious, DeleteFirst,
     PreviousDeleted, Finish
<1>11. \A w \in Workers : End(w) => Succeed(w)
  BY <1>2, <1>3, <1>4 DEF End, ClearCheckpoint, BecomeCancelled, LockLost
<1>12. \A w \in Workers : ~Heartbeat(w) /\ ~Fail(w)
  BY <1>2, <1>4 DEF Heartbeat, Fail
<1> QED
  BY <1>2, <1>7, <1>8, <1>9, <1>10, <1>11, <1>12 DEF Next, Run, vars

\* With one worker a job that succeeds leaves one collection behind every name,
\* also when earlier runs left half-built ones or stopped half-way in the swap.
THEOREM SuccessIsClean ==
    ASSUME OneWorker
    PROVE  Spec => SuccessLeavesNoGarbage
<1>1. ASSUME AliasInv, [Next]_vars, NEW j \in Jobs,
             row[j].status # "succeeded", row'[j].status = "succeeded"
      PROVE  existing = {<<c, alias[c]>> : c \in Collections}
  <2>1. PICK w \in Workers : run[w].pc = "completed"
    BY <1>1, OnlySucceedSucceeds DEF AliasInv, Succeed
  <2>2. RunInv(run[w], alias, existing)
    BY <1>1 DEF AliasInv
  <2>3. \A c \in Collections : alias[c] = run[w].cp.suffix
    BY <2>1, <2>2 DEF RunInv, PointsInOrder, AfterSwap
  <2>4. \A c \in Collections : <<c, run[w].cp.suffix>> \in existing
    BY <2>1, <2>2 DEF RunInv, HasCollections, AfterSwap
  <2>5. \A p \in existing : p[2] = run[w].cp.suffix
    BY <2>1, <2>2 DEF RunInv, LeavesItsOwn
  <2>6. \A p \in existing : p[1] \in Collections /\ p = <<p[1], p[2]>>
    BY <1>1 DEF AliasInv, TypeInv, TypeOK, Physical
  <2> QED
    BY <2>3, <2>4, <2>5, <2>6
<1>2. AliasInv /\ [Next]_vars =>
        [\A j \in Jobs : row[j].status # "succeeded" /\ row'[j].status = "succeeded" =>
            existing = {<<c, alias[c]>> : c \in Collections}]_vars
  BY <1>1
<1> QED
  BY <1>2, AliasInvHolds, PTL DEF Spec, SuccessLeavesNoGarbage
=============================================================================
