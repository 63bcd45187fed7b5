-------------------------- MODULE ReindexLoadProofs ---------------------------
(***************************************************************************)
(* One worker and no retries: search never serves a collection that is not *)
(* fully loaded, a checkpoint never skips a row, and no name changes       *)
(* before all collections are loaded, whatever the number of jobs,         *)
(* collections and rows and the size of a batch.  (A retry can break them: *)
(* a failed or cancelled job keeps its checkpoint while a later job drops  *)
(* its collections.)                                                       *)
(***************************************************************************)
EXTENDS ReindexProofs

NoRetries == MaxRetries = 0

\* Every unchanging row is among the documents of p.
HasStable(exist, contents, p) == p \in exist /\ Stable \subseteq contents[p]

\* What checkpoint cp promises.
Good(cp, exist, contents) == \A c \in Collections :
    /\ c < cp.index => HasStable(exist, contents, <<c, cp.suffix>>)
    /\ c = cp.index /\ cp.last # 0 =>
         /\ <<c, cp.suffix>> \in exist
         /\ {q \in Stable : q <= cp.last} \subseteq contents[<<c, cp.suffix>>]

\* Unchanging rows are never deleted.
StableRowsStay == \A c \in Collections : Stable \subseteq db[c]

Active(r) == r.status \in ActiveStatuses

\* At most one job is active, and only a running one has an owner.
RowsAreOrderly ==
    /\ \A j \in Jobs : row[j].status = "absent" => row[j].checkpoint = None
    /\ \A j \in Jobs : row[j].owner # None => row[j].status = "running"
    /\ \A j, k \in Jobs : Active(row[j]) /\ Active(row[k]) => j = k

\* The checkpoint of a job that will resume from it is good.
RowsAreLoaded == \A j \in Jobs :
    Active(row[j]) /\ row[j].checkpoint # None /\ ~row[j].cancel =>
        Good(row[j].checkpoint, existing, docs)

\* A run deletes nothing that an active job will resume from: the checkpoint of
\* another active job is empty, that of its own job is cancelled when the run is,
\* is empty while a fresh run cleans up, and names the collections of the run.
RunMatchesRows(r, rows) == r.pc # "idle" =>
    /\ rows[r.job].status # "absent"
    /\ \A k \in Jobs \ {r.job} : Active(rows[k]) => rows[k].checkpoint = None
    /\ Active(rows[r.job]) /\ r.cancel => rows[r.job].cancel
    /\ r.pc = "start" => r.cp = rows[r.job].checkpoint
    /\ r.pc \notin {"start", "interrupted"} /\ Active(rows[r.job])
         /\ rows[r.job].checkpoint # None =>
           /\ rows[r.job].checkpoint.suffix = r.cp.suffix
           /\ ~(r.pc \in Cleaning /\ r.stage = "fresh")
    /\ r.pc \in Cleaning /\ r.stage = "cancel" => r.cancel

\* What a run has behind it is loaded; the swap starts behind the last collection.
RunIsLoaded(r, exist, contents) ==
    /\ r.pc = "start" /\ ~r.cancel /\ r.cp # None => Good(r.cp, exist, contents)
    /\ r.pc \in Loading \cup Swapping \cup {"list", "create"} => Good(r.cp, exist, contents)
    /\ r.pc \in Swapping \cup {"swap"} => r.cp.index > NCollections
    /\ r.pc \in Cleaning /\ r.stage = "fresh" => r.cp.index = 1 /\ r.cp.last = 0

\* The unchanging rows a run has seen when it has imported page: a short page is
\* the last one.
Covered(page) ==
    IF Cardinality(page) < BatchSize THEN Stable ELSE {q \in Stable : q <= LastId(page)}

\* No unchanging row falls between two pages.
PageIsWhole(r, contents) ==
    /\ r.pc = "import" => Covered(r.page) \subseteq {q \in Stable : q <= r.cp.last} \cup r.page
    /\ r.pc = "save" => Covered(r.page) \subseteq contents[<<r.cp.index, r.cp.suffix>>]
    /\ r.pc = "advance" => Stable \subseteq contents[<<r.cp.index, r.cp.suffix>>]

LoadRun(r) ==
    RunMatchesRows(r, row) /\ RunIsLoaded(r, existing, docs) /\ PageIsWhole(r, docs)

\* The inductive invariant.
LoadInv ==
    /\ AliasInv
    /\ StableRowsStay /\ RowsAreOrderly /\ RowsAreLoaded
    /\ \A w \in Workers : LoadRun(run[w])
    /\ ServedIsLoaded

-----------------------------------------------------------------------------
(* Pages *)

\* There are finitely many rows.
LEMMA RowsAreFinite ==
    ASSUME NEW S \in SUBSET Rows
    PROVE  IsFiniteSet(S) /\ \A y \in S : y \in Nat /\ y # 0
<1>1. IsFiniteSet(Rows)
  BY FS_Interval, ConstantsAssumption DEF Rows
<1>2. \A y \in Rows : y \in Nat /\ y # 0
  BY ConstantsAssumption DEF Rows
<1> QED
  BY <1>1, <1>2, FS_Subset

\* A page has every row up to any of its own,
LEMMA PageHasNoGap ==
    ASSUME NEW S \in SUBSET Rows, NEW q \in FirstPage(S), NEW r \in S, r <= q
    PROVE  r \in FirstPage(S)
<1> DEFINE Upto(x) == {y \in S : y <= x}
<1>1. IsFiniteSet(S)
  BY RowsAreFinite
<1>2. IsFiniteSet(Upto(q)) /\ Upto(r) \subseteq Upto(q)
  <2>1. \A y \in S : y \in Int
    BY DEF Rows
  <2>2. q \in S
    BY DEF FirstPage
  <2> QED
    BY <1>1, <2>1, <2>2, FS_Subset
<1>3. Cardinality(Upto(r)) <= Cardinality(Upto(q)) /\ Cardinality(Upto(r)) \in Nat
      /\ Cardinality(Upto(q)) \in Nat
  BY <1>2, FS_Subset, FS_CardinalityType
<1>4. Cardinality(Upto(q)) <= BatchSize
  BY DEF FirstPage
<1>5. Cardinality(Upto(r)) <= BatchSize
  BY <1>3, <1>4, ConstantsAssumption
<1> QED
  BY <1>5 DEF FirstPage

\* and a short page has all of them.
LEMMA ShortPageIsAll ==
    ASSUME NEW S \in SUBSET Rows, Cardinality(FirstPage(S)) < BatchSize
    PROVE  FirstPage(S) = S
<1> DEFINE Upto(x) == {y \in S : y <= x}
           Rest == S \ FirstPage(S)
<1>1. IsFiniteSet(S) /\ IsFiniteSet(FirstPage(S))
  BY RowsAreFinite DEF FirstPage
<1>2. SUFFICES ASSUME Rest # {} PROVE FALSE
  BY DEF FirstPage
<1>3. PICK x \in Rest : \A y \in Rest : x <= y
  <2>1. Rest \in SUBSET Nat
    BY RowsAreFinite
  <2> QED
    BY <1>2, <2>1, LeastExists
<1>4. Upto(x) \ {x} \subseteq FirstPage(S)
  <2>1. \A y \in S : y \in Nat
    BY RowsAreFinite
  <2>2. \A y \in S : y <= x /\ y # x => ~(x <= y)
    BY <1>3, <2>1
  <2> QED
    BY <1>3, <2>2
<1>5. IsFiniteSet(Upto(x)) /\ x \in Upto(x)
  BY <1>1, <1>3, FS_Subset DEF Rows
<1>6. /\ Cardinality(Upto(x) \ {x}) = Cardinality(Upto(x)) - 1
      /\ Cardinality(Upto(x)) \in Nat
  BY <1>5, FS_RemoveElement, FS_CardinalityType
<1>7. Cardinality(Upto(x) \ {x}) <= Cardinality(FirstPage(S))
      /\ Cardinality(FirstPage(S)) \in Nat
  BY <1>1, <1>4, FS_Subset, FS_CardinalityType
<1>8. ~(Cardinality(Upto(x)) <= BatchSize)
  BY <1>3 DEF FirstPage
<1> QED
  BY <1>6, <1>7, <1>8, ConstantsAssumption

\* The page after last covers the unchanging rows that were not covered before.
LEMMA PageCovers ==
    ASSUME NEW T \in SUBSET Rows, Stable \subseteq T, NEW last \in 0..NRows,
           NEW S, S = {q \in T : q > last}, S # {}
    PROVE  Covered(FirstPage(S)) \subseteq {q \in Stable : q <= last} \cup FirstPage(S)
<1>1. S \in SUBSET Rows
  OBVIOUS
<1>2. \A q \in Stable : q <= last \/ q \in S
  BY ConstantsAssumption DEF Rows
<1>3. CASE Cardinality(FirstPage(S)) < BatchSize
  BY <1>1, <1>2, <1>3, ShortPageIsAll DEF Covered
<1>4. CASE ~(Cardinality(FirstPage(S)) < BatchSize)
  <2>1. FirstPage(S) # {} /\ FirstPage(S) \in SUBSET Rows
    BY <1>1, PageIsNotEmpty DEF FirstPage
  <2>2. LastId(FirstPage(S)) \in FirstPage(S)
    BY <2>1, LastIdIsMember
  <2> QED
    BY <1>1, <1>2, <1>4, <2>2, PageHasNoGap DEF Covered
<1> QED
  BY <1>3, <1>4

-----------------------------------------------------------------------------
(* Promises *)

\* What is loaded stays so while its collections keep their unchanging rows.
LEMMA GoodStays ==
    ASSUME NEW cp, NEW e, NEW d, NEW e2, NEW d2, Good(cp, e, d),
           \A c \in Collections : <<c, cp.suffix>> \in e =>
              /\ <<c, cp.suffix>> \in e2
              /\ d[<<c, cp.suffix>>] \cap Stable \subseteq d2[<<c, cp.suffix>>]
    PROVE  Good(cp, e2, d2)
  BY DEF Good, HasStable

-----------------------------------------------------------------------------
(* Steps *)

\* What reporting progress does to a run,
LEMMA ProgressEffect ==
    ASSUME TypeInv, NEW w \in Workers, NEW from, from # "idle", NEW to, Progress(w, from, to)
    PROVE  /\ run[w].pc = from /\ run'[w].pc = to
           /\ run'[w].job = run[w].job /\ run'[w].cp = run[w].cp
           /\ run'[w].page = run[w].page /\ run'[w].stage = run[w].stage
           /\ run[w].cancel => run'[w].cancel
           /\ run'[w].cancel => run[w].cancel \/ row[run[w].job].cancel
<1>1. run[w] \in Runs /\ run \in [Workers -> Runs]
  BY DEF TypeInv, TypeOK
<1>2. run[w].job \in Jobs /\ run[w].pc = from
  BY DEF Progress, TypeInv, RunsAreInRange, InRange
<1>3. run'[w].cancel = (run[w].cancel \/ row[run[w].job].cancel)
  BY <1>1 DEF Progress, Runs
<1> QED
  BY <1>1, <1>2, <1>3 DEF Progress, Runs

\* and what saving checkpoint c does to the run and to the rows.
CheckpointSaved(w, from, to, c) ==
    /\ run[w].pc = from /\ run'[w].pc = to
    /\ run[w].job \in Jobs /\ row[run[w].job].owner = w
    /\ run'[w].job = run[w].job /\ run'[w].cp = c
    /\ run'[w].page = run[w].page /\ run'[w].stage = run[w].stage
    /\ run[w].cancel => run'[w].cancel
    /\ run'[w].cancel => run[w].cancel \/ row[run[w].job].cancel
    /\ row'[run[w].job].checkpoint = c
    /\ row'[run[w].job].status = row[run[w].job].status
    /\ row'[run[w].job].cancel = row[run[w].job].cancel
    /\ row'[run[w].job].owner = row[run[w].job].owner
    /\ \A k \in Jobs \ {run[w].job} : row'[k] = row[k]

\* Saving a checkpoint does that.
LEMMA CheckpointEffect ==
    ASSUME TypeInv, NEW w \in Workers, NEW from, from # "idle", NEW to, NEW c,
           Checkpoint(w, from, to, c)
    PROVE  CheckpointSaved(w, from, to, c)
<1>1. run[w] \in Runs /\ run \in [Workers -> Runs] /\ row \in [Jobs -> JobRows]
  BY DEF TypeInv, TypeOK
<1>2. run[w].job \in Jobs /\ run[w].pc = from /\ row[run[w].job].owner = w
  BY DEF Checkpoint, Held, TypeInv, RunsAreInRange, InRange
<1>3. run'[w].cancel = (run[w].cancel \/ row[run[w].job].cancel)
  BY <1>1 DEF Checkpoint, Runs
<1>4. /\ run'[w].pc = to /\ run'[w].job = run[w].job /\ run'[w].cp = c
      /\ run'[w].page = run[w].page /\ run'[w].stage = run[w].stage
  BY <1>1 DEF Checkpoint, Runs
<1>5. row[run[w].job] \in JobRows
      /\ row' = [row EXCEPT ![run[w].job] = [row[run[w].job] EXCEPT !.checkpoint = c]]
  BY <1>1, <1>2 DEF Checkpoint
<1>6. /\ row'[run[w].job].checkpoint = c
      /\ row'[run[w].job].status = row[run[w].job].status
      /\ row'[run[w].job].cancel = row[run[w].job].cancel
      /\ row'[run[w].job].owner = row[run[w].job].owner
  BY <1>1, <1>2, <1>5 DEF JobRows
<1>7. \A k \in Jobs \ {run[w].job} : row'[k] = row[k]
  BY <1>1, <1>5
<1> QED
  BY <1>2, <1>3, <1>4, <1>6, <1>7 DEF CheckpointSaved

\* With one worker, the invariant is what one run needs of it.
LEMMA LoadParts ==
    ASSUME OneWorker, NEW w \in Workers, AliasInv', StableRowsStay', RowsAreOrderly',
           RowsAreLoaded', RunMatchesRows(run'[w], row'),
           RunIsLoaded(run'[w], existing', docs'), PageIsWhole(run'[w], docs'), ServedIsLoaded'
    PROVE  LoadInv'
<1>1. \A v \in Workers : v = w
  BY DEF OneWorker
<1>2. \A v \in Workers : LoadRun(run[v])'
  BY <1>1 DEF LoadRun
<1> QED
  BY <1>2 DEF LoadInv

\* A step of a run that leaves the rows, the tables and Typesense alone.
LEMMA QuietStep ==
    ASSUME OneWorker, LoadInv, AliasInv', NEW w \in Workers,
           UNCHANGED <<row, alias, existing, docs, db>>,
           RunMatchesRows(run'[w], row), RunIsLoaded(run'[w], existing, docs),
           PageIsWhole(run'[w], docs)
    PROVE  LoadInv'
<1>1. StableRowsStay' /\ RowsAreOrderly' /\ RowsAreLoaded' /\ ServedIsLoaded'
  BY DEF LoadInv, StableRowsStay, RowsAreOrderly, RowsAreLoaded, ServedIsLoaded, Loaded
<1>2. /\ RunMatchesRows(run'[w], row') /\ RunIsLoaded(run'[w], existing', docs')
      /\ PageIsWhole(run'[w], docs')
  OBVIOUS
<1> QED
  BY <1>1, <1>2, LoadParts

\* A step that saves checkpoint c.
LEMMA CheckpointStep ==
    ASSUME OneWorker, LoadInv, AliasInv', NEW w \in Workers,
           NEW from, from \notin {"idle", "start", "interrupted"},
           NEW to, to \notin Cleaning \cup {"idle", "start"},
           NEW c, c # None => Good(c, existing, docs),
           Checkpoint(w, from, to, c), UNCHANGED <<alias, existing, docs, db>>,
           RunIsLoaded(run'[w], existing, docs), PageIsWhole(run'[w], docs)
    PROVE  LoadInv'
<1>1. /\ run[w].pc = from /\ run'[w].pc = to
      /\ run[w].job \in Jobs
      /\ run'[w].job = run[w].job /\ run'[w].cp = c
      /\ run'[w].cancel => run[w].cancel \/ row[run[w].job].cancel
      /\ row'[run[w].job].checkpoint = c
      /\ row'[run[w].job].status = row[run[w].job].status
      /\ row'[run[w].job].cancel = row[run[w].job].cancel
      /\ row'[run[w].job].owner = row[run[w].job].owner
      /\ \A k \in Jobs \ {run[w].job} : row'[k] = row[k]
  <2>1. TypeInv /\ from # "idle"
    BY DEF LoadInv, AliasInv
  <2> HIDE DEF LoadInv
  <2>2. CheckpointSaved(w, from, to, c)
    BY <2>1, CheckpointEffect
  <2> QED
    BY <2>2 DEF CheckpointSaved
<1>2. RunMatchesRows(run[w], row)
  BY DEF LoadInv, LoadRun
<1>3. StableRowsStay' /\ ServedIsLoaded'
  BY DEF LoadInv, StableRowsStay, ServedIsLoaded, Loaded
<1>4. RowsAreOrderly'
  <2>1. row[run[w].job].status # "absent"
    BY <1>1, <1>2 DEF RunMatchesRows
  <2>2. \A k \in Jobs : /\ row'[k].status = row[k].status /\ row'[k].owner = row[k].owner
                        /\ k # run[w].job => row'[k].checkpoint = row[k].checkpoint
    BY <1>1
  <2> QED
    BY <2>1, <2>2 DEF LoadInv, RowsAreOrderly, Active
<1>5. RowsAreLoaded'
  BY <1>1 DEF LoadInv, RowsAreLoaded, Active
<1>6. RunMatchesRows(run'[w], row')
  BY <1>1, <1>2 DEF RunMatchesRows, Active
<1>7. RunIsLoaded(run'[w], existing', docs') /\ PageIsWhole(run'[w], docs')
  OBVIOUS
<1> QED
  BY <1>3, <1>4, <1>5, <1>6, <1>7, LoadParts

\* A step that ends a run and releases its job.
LEMMA ReleaseStep ==
    ASSUME OneWorker, LoadInv, AliasInv', NEW w \in Workers, NEW new, Release(w, new),
           new.status \notin {"absent", "running"}, new.owner = None,
           Active(new) => /\ new.checkpoint = row[run[w].job].checkpoint
                          /\ row[run[w].job].cancel => new.cancel
    PROVE  LoadInv'
<1>1. /\ row \in [Jobs -> JobRows] /\ run \in [Workers -> Runs]
      /\ run[w].job \in Jobs /\ row[run[w].job].owner = w
  BY DEF LoadInv, AliasInv, TypeInv, TypeOK, RunsAreInRange, InRange, Release, Held
<1>2. /\ row'[run[w].job] = new
      /\ \A k \in Jobs \ {run[w].job} : row'[k] = row[k]
      /\ run'[w] = Idle
      /\ UNCHANGED <<alias, existing, docs, db>>
  BY <1>1 DEF Release, search, source, bounds
<1>3. StableRowsStay' /\ ServedIsLoaded'
  BY <1>2 DEF LoadInv, StableRowsStay, ServedIsLoaded, Loaded
<1>4. Active(row[run[w].job])
  BY <1>1, ConstantsAssumption DEF LoadInv, RowsAreOrderly, Active, ActiveStatuses
<1>5. RowsAreOrderly'
  <2>1. \A k \in Jobs : Active(row'[k]) => Active(row[k])
    BY <1>2, <1>4
  <2> QED
    BY <1>2, <2>1 DEF LoadInv, RowsAreOrderly
<1>6. RowsAreLoaded'
  BY <1>2, <1>4 DEF LoadInv, RowsAreLoaded
<1>7. /\ RunMatchesRows(run'[w], row') /\ RunIsLoaded(run'[w], existing', docs')
      /\ PageIsWhole(run'[w], docs')
  BY <1>2 DEF RunMatchesRows, RunIsLoaded, PageIsWhole, Idle, Cleaning, Loading, Swapping
<1> QED
  BY <1>3, <1>5, <1>6, <1>7, LoadParts

\* What is loaded stays so while collections and unchanging rows are only added.
LEMMA GrowStep ==
    ASSUME LoadInv, existing \subseteq existing', UNCHANGED <<row, alias>>,
           \A p \in Physical : docs[p] \cap Stable \subseteq docs'[p]
    PROVE  /\ RowsAreLoaded' /\ RowsAreOrderly' /\ ServedIsLoaded'
           /\ \A cp : Good(cp, existing, docs) => Good(cp, existing', docs')
           /\ \A r : RunIsLoaded(r, existing, docs) => RunIsLoaded(r, existing', docs')
<1>1. existing \in SUBSET Physical
  BY DEF LoadInv, AliasInv, TypeInv, TypeOK
<1>2. ASSUME NEW cp, Good(cp, existing, docs)
      PROVE  Good(cp, existing', docs')
  <2>1. \A c \in Collections : <<c, cp.suffix>> \in existing =>
           /\ <<c, cp.suffix>> \in existing'
           /\ docs[<<c, cp.suffix>>] \cap Stable \subseteq docs'[<<c, cp.suffix>>]
    BY <1>1
  <2> QED
    BY <1>2, <2>1, GoodStays
<1>3. RowsAreLoaded'
  BY <1>2 DEF LoadInv, RowsAreLoaded
<1>4. RowsAreOrderly'
  BY DEF LoadInv, RowsAreOrderly
<1>5. ServedIsLoaded'
  BY <1>1 DEF LoadInv, ServedIsLoaded, Loaded
<1>6. \A r : RunIsLoaded(r, existing, docs) => RunIsLoaded(r, existing', docs')
  BY <1>2 DEF RunIsLoaded
<1> QED
  BY <1>2, <1>3, <1>4, <1>5, <1>6


\* A step that changes rows only.
LEMMA RowsStep ==
    ASSUME LoadInv, AliasInv', UNCHANGED <<run, alias, existing, docs, db>>,
           RowsAreOrderly', RowsAreLoaded', \A w \in Workers : RunMatchesRows(run[w], row')
    PROVE  LoadInv'
<1>1. StableRowsStay' /\ ServedIsLoaded'
  BY DEF LoadInv, StableRowsStay, ServedIsLoaded, Loaded
<1>2. \A w \in Workers : LoadRun(run[w])'
  BY DEF LoadInv, LoadRun
<1> QED
  BY <1>1, <1>2 DEF LoadInv

\* A step that deletes collection p, to which no name points and from which no
\* active job will resume.
LEMMA ShrinkStep ==
    ASSUME LoadInv, NEW p, existing' = existing \ {p}, docs' = [docs EXCEPT ![p] = {}],
           row' = row, db' = db,
           \A c \in Collections : alias'[c] # None =>
               alias'[c] = alias[c] /\ <<c, alias[c]>> # p,
           \A j \in Jobs : Active(row[j]) /\ row[j].checkpoint # None /\ ~row[j].cancel =>
               row[j].checkpoint.suffix # p[2]
    PROVE  /\ StableRowsStay' /\ RowsAreLoaded' /\ RowsAreOrderly' /\ ServedIsLoaded'
           /\ \A cp : cp.suffix # p[2] /\ Good(cp, existing, docs) => Good(cp, existing', docs')
<1>1. existing \in SUBSET Physical /\ docs \in [Physical -> SUBSET Rows]
  BY DEF LoadInv, AliasInv, TypeInv, TypeOK
<1>2. ASSUME NEW cp, cp.suffix # p[2], Good(cp, existing, docs)
      PROVE  Good(cp, existing', docs')
  <2>1. \A c \in Collections : <<c, cp.suffix>> \in existing =>
           /\ <<c, cp.suffix>> \in existing'
           /\ docs[<<c, cp.suffix>>] \cap Stable \subseteq docs'[<<c, cp.suffix>>]
    <3> SUFFICES ASSUME NEW c \in Collections, <<c, cp.suffix>> \in existing
                 PROVE  /\ <<c, cp.suffix>> \in existing'
                        /\ docs[<<c, cp.suffix>>] \cap Stable \subseteq docs'[<<c, cp.suffix>>]
      OBVIOUS
    <3>1. <<c, cp.suffix>> # p
      BY <1>2
    <3> QED
      BY <1>1, <3>1
  <2> QED
    BY <1>2, <2>1, GoodStays
<1>3. RowsAreLoaded'
  BY <1>2 DEF LoadInv, RowsAreLoaded
<1>4. RowsAreOrderly' /\ StableRowsStay'
  BY DEF LoadInv, RowsAreOrderly, StableRowsStay
<1>5. ServedIsLoaded'
  BY <1>1 DEF LoadInv, ServedIsLoaded, Loaded
<1> QED
  BY <1>2, <1>3, <1>4, <1>5

\* Every step keeps the invariant.
LEMMA LoadStep ==
    ASSUME OneWorker, NoRetries, LoadInv, [Next]_vars
    PROVE  LoadInv'
<1>1. AliasInv /\ AliasInv' /\ TypeInv /\ TypeInv'
  BY AliasStep DEF LoadInv, AliasInv
<1>2. /\ \A w \in Workers : run[w] \in Runs /\ InRange(run[w])
      /\ run \in [Workers -> Runs]
      /\ row \in [Jobs -> JobRows]
  BY <1>1 DEF TypeInv, TypeOK, RunsAreInRange
<1>3. \A w \in Workers : /\ RunMatchesRows(run[w], row) /\ RunIsLoaded(run[w], existing, docs)
                         /\ PageIsWhole(run[w], docs)
  BY DEF LoadInv, LoadRun
<1> USE DEF search, source, bounds
<1>4. ASSUME NEW w \in Workers, StopAtStart(w) PROVE LoadInv'
  <2>1. /\ run'[w].pc = "interrupted"
        /\ run'[w].job = run[w].job /\ run'[w].cp = run[w].cp
        /\ run'[w].cancel = run[w].cancel /\ run'[w].page = run[w].page
        /\ run'[w].stage = run[w].stage
    BY <1>2, <1>4 DEF StopAtStart, Goto, Runs
  <2>2. UNCHANGED <<row, alias, existing, docs, db>>
    BY <1>4 DEF StopAtStart
  <2>3. RunMatchesRows(run'[w], row)
    BY <1>2, <1>3, <1>4, <2>1 DEF StopAtStart, Goto, RunMatchesRows, Cleaning
  <2>4. RunIsLoaded(run'[w], existing, docs)
    BY <1>2, <1>3, <1>4, <2>1 DEF StopAtStart, Goto, RunIsLoaded, Loading, Swapping, Cleaning
  <2>5. PageIsWhole(run'[w], docs)
    BY <1>2, <1>3, <1>4, <2>1 DEF StopAtStart, Goto, PageIsWhole
  <2> QED
    BY <1>1, <2>2, <2>3, <2>4, <2>5, QuietStep
<1>5. ASSUME NEW w \in Workers, BeginFresh(w) PROVE LoadInv'
  <2>1. /\ run'[w].pc = "aliases"
        /\ run'[w].stage = "fresh"
        /\ run'[w].cancel = row[run[w].job].cancel
        /\ run'[w].cp.index = 1 /\ run'[w].cp.last = 0
        /\ run'[w].job = run[w].job /\ run'[w].page = run[w].page
    <3>1. run[w] \in Runs
      BY <1>2
    <3>2. run'[w] = [run[w] EXCEPT !.pc = "aliases", !.stage = "fresh",
                                   !.targets = {}, !.next = 1,
                                   !.cancel = row[run[w].job].cancel,
                                   !.cp = [suffix |-> clock + 1, index |-> 1, last |-> 0]]
      BY <1>2, <1>5 DEF BeginFresh
    <3> QED
      BY <3>1, <3>2 DEF Runs
  <2>2. UNCHANGED <<row, alias, existing, docs, db>>
    BY <1>5 DEF BeginFresh
  <2>3. RunMatchesRows(run'[w], row)
    <3>1. run[w].pc = "start" /\ run[w].cp = None
      BY <1>5 DEF BeginFresh
    <3>2. RunMatchesRows(run[w], row)
      BY <1>3
    <3>3. /\ row[run[w].job].checkpoint = None
          /\ row[run[w].job].status # "absent"
          /\ \A k \in Jobs \ {run[w].job} : Active(row[k]) => row[k].checkpoint = None
      BY <3>1, <3>2 DEF RunMatchesRows
    <3> QED
      BY <2>1, <3>3 DEF RunMatchesRows
  <2>4. RunIsLoaded(run'[w], existing, docs)
    BY <1>2, <1>3, <1>5, <2>1 DEF BeginFresh, RunIsLoaded, Loading, Swapping, Cleaning
  <2>5. PageIsWhole(run'[w], docs)
    BY <1>2, <1>3, <1>5, <2>1 DEF BeginFresh, PageIsWhole
  <2> QED
    BY <1>1, <2>2, <2>3, <2>4, <2>5, QuietStep
<1>6. ASSUME NEW w \in Workers, BeginResumed(w) PROVE LoadInv'
  <2>1. /\ run'[w].pc = "list"
        /\ run'[w].job = run[w].job /\ run'[w].cp = run[w].cp
        /\ run'[w].page = run[w].page /\ run'[w].stage = run[w].stage
        /\ run[w].cancel => run'[w].cancel
        /\ run'[w].cancel => run[w].cancel \/ row[run[w].job].cancel
    BY <1>1, <1>6, ProgressEffect DEF BeginResumed
  <2>2. UNCHANGED <<row, alias, existing, docs, db>>
    BY <1>6 DEF BeginResumed
  <2>3. RunMatchesRows(run'[w], row)
    BY <1>2, <1>3, <1>6, <2>1 DEF BeginResumed, Progress, RunMatchesRows, Cleaning
  <2>4. RunIsLoaded(run'[w], existing, docs)
    BY <1>2, <1>3, <1>6, <2>1 DEF BeginResumed, Progress, RunIsLoaded, Loading, Swapping,
       Cleaning
  <2>5. PageIsWhole(run'[w], docs)
    BY <1>2, <1>3, <1>6, <2>1 DEF BeginResumed, Progress, PageIsWhole
  <2> QED
    BY <1>1, <2>2, <2>3, <2>4, <2>5, QuietStep
<1>7. ASSUME NEW w \in Workers, ReadTarget(w) PROVE LoadInv'
  <2>1. /\ run'[w].pc = "aliases"
        /\ run'[w].job = run[w].job /\ run'[w].cp = run[w].cp
        /\ run'[w].cancel = run[w].cancel /\ run'[w].page = run[w].page
        /\ run'[w].stage = run[w].stage
    BY <1>2, <1>7 DEF ReadTarget, Runs
  <2>2. UNCHANGED <<row, alias, existing, docs, db>>
    BY <1>7 DEF ReadTarget
  <2>3. RunMatchesRows(run'[w], row)
    BY <1>2, <1>3, <1>7, <2>1 DEF ReadTarget, RunMatchesRows, Cleaning
  <2>4. RunIsLoaded(run'[w], existing, docs)
    BY <1>2, <1>3, <1>7, <2>1 DEF ReadTarget, RunIsLoaded, Loading, Swapping, Cleaning
  <2>5. PageIsWhole(run'[w], docs)
    BY <1>2, <1>3, <1>7, <2>1 DEF ReadTarget, PageIsWhole
  <2> QED
    BY <1>1, <2>2, <2>3, <2>4, <2>5, QuietStep
<1>8. ASSUME NEW w \in Workers, ListStale(w) PROVE LoadInv'
  <2>1. /\ run'[w].pc = "delete"
        /\ run'[w].job = run[w].job /\ run'[w].cp = run[w].cp
        /\ run'[w].cancel = run[w].cancel /\ run'[w].page = run[w].page
        /\ run'[w].stage = run[w].stage
    BY <1>2, <1>8 DEF ListStale, Runs
  <2>2. UNCHANGED <<row, alias, existing, docs, db>>
    BY <1>8 DEF ListStale
  <2>3. RunMatchesRows(run'[w], row)
    BY <1>2, <1>3, <1>8, <2>1 DEF ListStale, RunMatchesRows, Cleaning
  <2>4. RunIsLoaded(run'[w], existing, docs)
    BY <1>2, <1>3, <1>8, <2>1 DEF ListStale, RunIsLoaded, Loading, Swapping, Cleaning
  <2>5. PageIsWhole(run'[w], docs)
    BY <1>2, <1>3, <1>8, <2>1 DEF ListStale, PageIsWhole
  <2> QED
    BY <1>1, <2>2, <2>3, <2>4, <2>5, QuietStep
<1>9. ASSUME NEW w \in Workers, StaleDeleted(w) PROVE LoadInv'
  <2>1. run[w].pc = "delete" /\ run[w].stage \in {"fresh", "cancel", "final"}
    BY <1>2, <1>9 DEF StaleDeleted, Goto, InRange
  <2>2. run[w].stage = "fresh" => Good(run[w].cp, existing, docs)
    BY <1>3, <2>1 DEF RunIsLoaded, Cleaning, Good, Collections
  <2>3. /\ run'[w].pc = (CASE run[w].stage = "fresh"  -> "list"
                         [] run[w].stage = "cancel" -> "clear"
                         [] run[w].stage = "final"  -> "finish")
        /\ run'[w].job = run[w].job /\ run'[w].cp = run[w].cp
        /\ run'[w].cancel = run[w].cancel /\ run'[w].page = run[w].page
        /\ run'[w].stage = run[w].stage
    BY <1>2, <1>9, <2>1, <2>2 DEF StaleDeleted, Goto, Runs
  <2>4. UNCHANGED <<row, alias, existing, docs, db>>
    BY <1>9 DEF StaleDeleted
  <2>5. RunMatchesRows(run'[w], row)
    BY <1>2, <1>3, <1>9, <2>3, <2>1, <2>2 DEF StaleDeleted, Goto, RunMatchesRows, Cleaning
  <2>6. RunIsLoaded(run'[w], existing, docs)
    BY <1>2, <1>3, <1>9, <2>3, <2>1, <2>2 DEF StaleDeleted, Goto, RunIsLoaded, Loading,
       Swapping, Cleaning
  <2>7. PageIsWhole(run'[w], docs)
    BY <1>2, <1>3, <1>9, <2>3, <2>1, <2>2 DEF StaleDeleted, Goto, PageIsWhole
  <2> QED
    BY <1>1, <2>4, <2>5, <2>6, <2>7, QuietStep
<1>10. ASSUME NEW w \in Workers, ListMissing(w) PROVE LoadInv'
  <2>1. /\ run'[w].pc = "create"
        /\ run'[w].job = run[w].job /\ run'[w].cp = run[w].cp
        /\ run'[w].cancel = run[w].cancel /\ run'[w].page = run[w].page
        /\ run'[w].stage = run[w].stage
    BY <1>2, <1>10 DEF ListMissing, Runs
  <2>2. UNCHANGED <<row, alias, existing, docs, db>>
    BY <1>10 DEF ListMissing
  <2>3. RunMatchesRows(run'[w], row)
    BY <1>2, <1>3, <1>10, <2>1 DEF ListMissing, RunMatchesRows, Cleaning
  <2>4. RunIsLoaded(run'[w], existing, docs)
    BY <1>2, <1>3, <1>10, <2>1 DEF ListMissing, RunIsLoaded, Loading, Swapping, Cleaning
  <2>5. PageIsWhole(run'[w], docs)
    BY <1>2, <1>3, <1>10, <2>1 DEF ListMissing, PageIsWhole
  <2> QED
    BY <1>1, <2>2, <2>3, <2>4, <2>5, QuietStep
<1>11. ASSUME NEW w \in Workers, Interrupted(w) PROVE LoadInv'
  <2>1. /\ run'[w].pc = "aliases"
        /\ run'[w].stage = "cancel"
        /\ run'[w].job = run[w].job /\ run'[w].cp = run[w].cp
        /\ run'[w].cancel = run[w].cancel /\ run'[w].page = run[w].page
    BY <1>2, <1>11 DEF Interrupted, Runs
  <2>2. UNCHANGED <<row, alias, existing, docs, db>>
    BY <1>11 DEF Interrupted
  <2>3. RunMatchesRows(run'[w], row)
    BY <1>2, <1>3, <1>11, <2>1 DEF Interrupted, RunMatchesRows, Cleaning
  <2>4. RunIsLoaded(run'[w], existing, docs)
    BY <1>2, <1>3, <1>11, <2>1 DEF Interrupted, RunIsLoaded, Loading, Swapping, Cleaning
  <2>5. PageIsWhole(run'[w], docs)
    BY <1>2, <1>3, <1>11, <2>1 DEF Interrupted, PageIsWhole
  <2> QED
    BY <1>1, <2>2, <2>3, <2>4, <2>5, QuietStep
<1>12. ASSUME NEW w \in Workers, Continue(w) PROVE LoadInv'
  <2>1. run'[w].pc = "swap" => run[w].cp.index > NCollections
    BY <1>2, <1>12 DEF Continue, Goto, Current, Runs
  <2>2. run[w].pc \in {"loop", "batch"}
    BY <1>12 DEF Continue, Goto
  <2>3. /\ run'[w].pc \in {"fetch", "swap"}
        /\ run'[w].job = run[w].job /\ run'[w].cp = run[w].cp
        /\ run'[w].cancel = run[w].cancel /\ run'[w].page = run[w].page
        /\ run'[w].stage = run[w].stage
    BY <1>2, <1>12, <2>1, <2>2 DEF Continue, Goto, Runs
  <2>4. UNCHANGED <<row, alias, existing, docs, db>>
    BY <1>12 DEF Continue
  <2>5. RunMatchesRows(run'[w], row)
    BY <1>2, <1>3, <1>12, <2>3, <2>1, <2>2 DEF Continue, Goto, RunMatchesRows, Cleaning
  <2>6. RunIsLoaded(run'[w], existing, docs)
    BY <1>2, <1>3, <1>12, <2>3, <2>1, <2>2 DEF Continue, Goto, RunIsLoaded, Loading, Swapping,
       Cleaning
  <2>7. PageIsWhole(run'[w], docs)
    BY <1>2, <1>3, <1>12, <2>3, <2>1, <2>2 DEF Continue, Goto, PageIsWhole
  <2> QED
    BY <1>1, <2>4, <2>5, <2>6, <2>7, QuietStep
<1>13. ASSUME NEW w \in Workers, Fetch(w) PROVE LoadInv'
  <2>1. /\ run[w].pc = "fetch" /\ run[w].cp \in Checkpoints
        /\ Current(w) \in Collections /\ run[w].cp.last \in 0..NRows
    BY <1>2, <1>13 DEF Fetch, InRange, Current, Checkpoints, Positions, Collections
  <2>2. db[Current(w)] \in SUBSET Rows /\ Stable \subseteq db[Current(w)]
    BY <1>1, <2>1 DEF LoadInv, StableRowsStay, TypeInv, TypeOK
  <2>3. run'[w].pc = "import" => After(w) # {} /\ run'[w].page = FirstPage(After(w))
    BY <1>2, <1>13 DEF Fetch, Runs
  <2>4. run'[w].pc = "advance" => After(w) = {}
    BY <1>2, <1>13 DEF Fetch, Runs
  <2>5. After(w) # {} => Covered(FirstPage(After(w))) \subseteq
                            {q \in Stable : q <= run[w].cp.last} \cup FirstPage(After(w))
    BY <2>1, <2>2, PageCovers DEF After
  <2>6. After(w) = {} => Stable \subseteq docs[<<run[w].cp.index, run[w].cp.suffix>>]
    <3> SUFFICES ASSUME After(w) = {}, NEW q \in Stable
                 PROVE  q \in docs[<<run[w].cp.index, run[w].cp.suffix>>]
      OBVIOUS
    <3>1. q \in Rows /\ q \in Nat /\ q # 0
      BY <2>2, RowsAreFinite
    <3>2. q <= run[w].cp.last
      BY <2>1, <2>2, <3>1 DEF After
    <3>3. run[w].cp.last # 0
      BY <3>1, <3>2
    <3>4. Good(run[w].cp, existing, docs)
      BY <1>3, <2>1 DEF RunIsLoaded, Loading
    <3> QED
      BY <2>1, <3>2, <3>3, <3>4 DEF Good, Current
  <2>7. /\ run'[w].pc \in {"import", "advance"}
        /\ run'[w].job = run[w].job /\ run'[w].cp = run[w].cp
        /\ run'[w].cancel = run[w].cancel /\ run'[w].stage = run[w].stage
    BY <1>2, <1>13, <2>1, <2>2, <2>3, <2>4, <2>5, <2>6 DEF Fetch, Runs
  <2>8. UNCHANGED <<row, alias, existing, docs, db>>
    BY <1>13 DEF Fetch
  <2>9. RunMatchesRows(run'[w], row)
    BY <1>2, <1>3, <1>13, <2>7, <2>1, <2>2, <2>3, <2>4, <2>5, <2>6 DEF Fetch, RunMatchesRows,
       Cleaning
  <2>10. RunIsLoaded(run'[w], existing, docs)
    BY <1>2, <1>3, <1>13, <2>7, <2>1, <2>2, <2>3, <2>4, <2>5, <2>6 DEF Fetch, RunIsLoaded,
       Loading, Swapping, Cleaning
  <2>11. PageIsWhole(run'[w], docs)
    BY <1>2, <1>3, <1>13, <2>7, <2>1, <2>2, <2>3, <2>4, <2>5, <2>6 DEF Fetch, PageIsWhole
  <2> QED
    BY <1>1, <2>8, <2>9, <2>10, <2>11, QuietStep
<1>14. ASSUME NEW w \in Workers, BeginSwap(w) PROVE LoadInv'
  <2>1. /\ run'[w].pc = "look"
        /\ run'[w].job = run[w].job /\ run'[w].cp = run[w].cp
        /\ run'[w].page = run[w].page /\ run'[w].stage = run[w].stage
        /\ run[w].cancel => run'[w].cancel
        /\ run'[w].cancel => run[w].cancel \/ row[run[w].job].cancel
    BY <1>1, <1>14, ProgressEffect DEF BeginSwap
  <2>2. UNCHANGED <<row, alias, existing, docs, db>>
    BY <1>14 DEF BeginSwap
  <2>3. RunMatchesRows(run'[w], row)
    BY <1>2, <1>3, <1>14, <2>1 DEF BeginSwap, Progress, RunMatchesRows, Cleaning
  <2>4. RunIsLoaded(run'[w], existing, docs)
    BY <1>2, <1>3, <1>14, <2>1 DEF BeginSwap, Progress, RunIsLoaded, Loading, Swapping, Cleaning
  <2>5. PageIsWhole(run'[w], docs)
    BY <1>2, <1>3, <1>14, <2>1 DEF BeginSwap, Progress, PageIsWhole
  <2> QED
    BY <1>1, <2>2, <2>3, <2>4, <2>5, QuietStep
<1>15. ASSUME NEW w \in Workers, GetAlias(w) PROVE LoadInv'
  <2>1. /\ run'[w].pc \in {"drop", "point"}
        /\ run'[w].job = run[w].job /\ run'[w].cp = run[w].cp
        /\ run'[w].cancel = run[w].cancel /\ run'[w].page = run[w].page
        /\ run'[w].stage = run[w].stage
    BY <1>2, <1>15 DEF GetAlias, Runs
  <2>2. UNCHANGED <<row, alias, existing, docs, db>>
    BY <1>15 DEF GetAlias
  <2>3. RunMatchesRows(run'[w], row)
    BY <1>2, <1>3, <1>15, <2>1 DEF GetAlias, RunMatchesRows, Cleaning
  <2>4. RunIsLoaded(run'[w], existing, docs)
    BY <1>2, <1>3, <1>15, <2>1 DEF GetAlias, RunIsLoaded, Loading, Swapping, Cleaning
  <2>5. PageIsWhole(run'[w], docs)
    BY <1>2, <1>3, <1>15, <2>1 DEF GetAlias, PageIsWhole
  <2> QED
    BY <1>1, <2>2, <2>3, <2>4, <2>5, QuietStep
<1>16. ASSUME NEW w \in Workers, Swapped(w) PROVE LoadInv'
  <2>1. /\ run'[w].pc = "previous"
        /\ run'[w].job = run[w].job /\ run'[w].cp = run[w].cp
        /\ run'[w].page = run[w].page /\ run'[w].stage = run[w].stage
        /\ run[w].cancel => run'[w].cancel
        /\ run'[w].cancel => run[w].cancel \/ row[run[w].job].cancel
    BY <1>1, <1>16, ProgressEffect DEF Swapped
  <2>2. UNCHANGED <<row, alias, existing, docs, db>>
    BY <1>16 DEF Swapped
  <2>3. RunMatchesRows(run'[w], row)
    BY <1>2, <1>3, <1>16, <2>1 DEF Swapped, Progress, RunMatchesRows, Cleaning
  <2>4. RunIsLoaded(run'[w], existing, docs)
    BY <1>2, <1>3, <1>16, <2>1 DEF Swapped, Progress, RunIsLoaded, Loading, Swapping, Cleaning
  <2>5. PageIsWhole(run'[w], docs)
    BY <1>2, <1>3, <1>16, <2>1 DEF Swapped, Progress, PageIsWhole
  <2> QED
    BY <1>1, <2>2, <2>3, <2>4, <2>5, QuietStep
<1>17. ASSUME NEW w \in Workers, PreviousDeleted(w) PROVE LoadInv'
  <2>1. /\ run'[w].pc = "aliases"
        /\ run'[w].stage = "final"
        /\ run'[w].job = run[w].job /\ run'[w].cp = run[w].cp
        /\ run'[w].cancel = run[w].cancel /\ run'[w].page = run[w].page
    BY <1>2, <1>17 DEF PreviousDeleted, Runs
  <2>2. UNCHANGED <<row, alias, existing, docs, db>>
    BY <1>17 DEF PreviousDeleted
  <2>3. RunMatchesRows(run'[w], row)
    BY <1>2, <1>3, <1>17, <2>1 DEF PreviousDeleted, RunMatchesRows, Cleaning
  <2>4. RunIsLoaded(run'[w], existing, docs)
    BY <1>2, <1>3, <1>17, <2>1 DEF PreviousDeleted, RunIsLoaded, Loading, Swapping, Cleaning
  <2>5. PageIsWhole(run'[w], docs)
    BY <1>2, <1>3, <1>17, <2>1 DEF PreviousDeleted, PageIsWhole
  <2> QED
    BY <1>1, <2>2, <2>3, <2>4, <2>5, QuietStep
<1>18. ASSUME NEW w \in Workers, Finish(w) PROVE LoadInv'
  <2>1. /\ run'[w].pc = "completed"
        /\ run'[w].job = run[w].job /\ run'[w].cp = run[w].cp
        /\ run'[w].page = run[w].page /\ run'[w].stage = run[w].stage
        /\ run[w].cancel => run'[w].cancel
        /\ run'[w].cancel => run[w].cancel \/ row[run[w].job].cancel
    BY <1>1, <1>18, ProgressEffect DEF Finish
  <2>2. UNCHANGED <<row, alias, existing, docs, db>>
    BY <1>18 DEF Finish
  <2>3. RunMatchesRows(run'[w], row)
    BY <1>2, <1>3, <1>18, <2>1 DEF Finish, Progress, RunMatchesRows, Cleaning
  <2>4. RunIsLoaded(run'[w], existing, docs)
    BY <1>2, <1>3, <1>18, <2>1 DEF Finish, Progress, RunIsLoaded, Loading, Swapping, Cleaning
  <2>5. PageIsWhole(run'[w], docs)
    BY <1>2, <1>3, <1>18, <2>1 DEF Finish, Progress, PageIsWhole
  <2> QED
    BY <1>1, <2>2, <2>3, <2>4, <2>5, QuietStep
<1>19. ASSUME NEW w \in Workers, LockLost(w) PROVE LoadInv'
  <2>1. /\ run'[w].pc = "idle"
    BY <1>2, <1>19 DEF LockLost, Idle, Runs
  <2>2. UNCHANGED <<row, alias, existing, docs, db>>
    BY <1>19 DEF LockLost
  <2>3. RunMatchesRows(run'[w], row)
    BY <1>2, <1>3, <1>19, <2>1 DEF LockLost, Idle, RunMatchesRows, Cleaning
  <2>4. RunIsLoaded(run'[w], existing, docs)
    BY <1>2, <1>3, <1>19, <2>1 DEF LockLost, Idle, RunIsLoaded, Loading, Swapping, Cleaning
  <2>5. PageIsWhole(run'[w], docs)
    BY <1>2, <1>3, <1>19, <2>1 DEF LockLost, Idle, PageIsWhole
  <2> QED
    BY <1>1, <2>2, <2>3, <2>4, <2>5, QuietStep
<1>20. ASSUME NEW w \in Workers, Heartbeat(w) PROVE LoadInv'
  <2>1. run[w].pc # "idle"
    BY <1>20 DEF Heartbeat, Progress, Held
  <2>2. /\ run'[w].pc = run[w].pc
        /\ run'[w].job = run[w].job /\ run'[w].cp = run[w].cp
        /\ run'[w].page = run[w].page /\ run'[w].stage = run[w].stage
        /\ run[w].cancel => run'[w].cancel
        /\ run'[w].cancel => run[w].cancel \/ row[run[w].job].cancel
    BY <1>1, <1>20, <2>1, ProgressEffect DEF Heartbeat
  <2>3. UNCHANGED <<row, alias, existing, docs, db>>
    BY <1>20 DEF Heartbeat
  <2>4. RunMatchesRows(run'[w], row)
    BY <1>2, <1>3, <1>20, <2>2, <2>1 DEF Heartbeat, Progress, RunMatchesRows, Cleaning
  <2>5. RunIsLoaded(run'[w], existing, docs)
    BY <1>2, <1>3, <1>20, <2>2, <2>1 DEF Heartbeat, Progress, RunIsLoaded, Loading, Swapping,
       Cleaning
  <2>6. PageIsWhole(run'[w], docs)
    BY <1>2, <1>3, <1>20, <2>2, <2>1 DEF Heartbeat, Progress, PageIsWhole
  <2> QED
    BY <1>1, <2>3, <2>4, <2>5, <2>6, QuietStep
<1>21. ASSUME NEW w \in Workers, Created(w) PROVE LoadInv'
  <2> PICK c : c = run[w].cp
    OBVIOUS
  <2>1. Checkpoint(w, "create", "loop", c) /\ UNCHANGED <<alias, existing, docs, db>>
    BY <1>21 DEF Created, Checkpoint
  <2>2. CheckpointSaved(w, "create", "loop", c)
    BY <1>1, <2>1, CheckpointEffect
  <2>3. Good(c, existing, docs)
    BY <1>3, <2>1 DEF RunIsLoaded, Checkpoint
  <2>4. RunIsLoaded(run'[w], existing, docs) /\ PageIsWhole(run'[w], docs)
    BY <2>2, <2>3 DEF CheckpointSaved, RunIsLoaded, PageIsWhole, Loading, Swapping, Cleaning
  <2> QED
    BY <1>1, <2>1, <2>3, <2>4, CheckpointStep DEF Cleaning
<1>22. ASSUME NEW w \in Workers, SaveBatch(w) PROVE LoadInv'
  <2> PICK c : c = [run[w].cp EXCEPT !.last = LastId(run[w].page)]
    OBVIOUS
  <2> DEFINE p == <<run[w].cp.index, run[w].cp.suffix>>
  <2>1. /\ Checkpoint(w, "save", AfterBatch(w), c) /\ UNCHANGED <<alias, existing, docs, db>>
        /\ AfterBatch(w) \in {"advance", "batch"} /\ run[w].pc = "save"
    BY <1>22 DEF SaveBatch, AfterBatch, Checkpoint
  <2>2. /\ run[w].cp \in Checkpoints /\ run[w].cp.index \in Collections
    BY <1>2, <2>1 DEF InRange, Checkpoints, Positions, Collections
  <2>3. c.index = run[w].cp.index /\ c.suffix = run[w].cp.suffix /\ c.last = LastId(run[w].page)
    BY <2>2 DEF Checkpoints
  <2>4. run'[w].pc = AfterBatch(w) /\ run'[w].cp = c /\ run'[w].page = run[w].page
    <3>1. PICK to : to = AfterBatch(w)
      OBVIOUS
    <3>2. Checkpoint(w, "save", to, c)
      BY <2>1, <3>1 DEF Checkpoint
    <3>3. CheckpointSaved(w, "save", to, c)
      BY <1>1, <3>2, CheckpointEffect
    <3> QED
      BY <3>1, <3>3 DEF CheckpointSaved
  <2>5. Covered(run[w].page) \subseteq docs[p]
    BY <1>3, <2>1 DEF PageIsWhole
  <2>6. {q \in Stable : q <= LastId(run[w].page)} \subseteq docs[p]
    BY <2>5 DEF Covered
  <2>7. p \in existing
    BY <2>1, <2>2 DEF LoadInv, AliasInv, RunInv, HasCollections, Loading
  <2>8. Good(c, existing, docs)
    <3>1. Good(run[w].cp, existing, docs)
      BY <1>3, <2>1 DEF RunIsLoaded, Loading
    <3> QED
      BY <2>3, <2>6, <2>7, <3>1 DEF Good
  <2>9. RunIsLoaded(run'[w], existing, docs)
    BY <2>1, <2>4, <2>8 DEF RunIsLoaded, Loading, Swapping, Cleaning
  <2>10. PageIsWhole(run'[w], docs)
    BY <2>1, <2>3, <2>4, <2>5 DEF PageIsWhole, Covered, AfterBatch
  <2>11. AfterBatch(w) \notin Cleaning \cup {"idle", "start"}
    BY <2>1 DEF Cleaning
  <2> QED
    BY <1>1, <2>1, <2>8, <2>9, <2>10, <2>11, CheckpointStep
<1>23. ASSUME NEW w \in Workers, Advance(w) PROVE LoadInv'
  <2> PICK c : c = [run[w].cp EXCEPT !.index = @ + 1, !.last = 0]
    OBVIOUS
  <2> DEFINE p == <<run[w].cp.index, run[w].cp.suffix>>
  <2>1. /\ Checkpoint(w, "advance", "loop", c) /\ UNCHANGED <<alias, existing, docs, db>>
        /\ run[w].pc = "advance"
    BY <1>23 DEF Advance, Checkpoint
  <2>2. /\ run[w].cp \in Checkpoints /\ run[w].cp.index \in Collections
    BY <1>2, <2>1 DEF InRange, Checkpoints, Positions, Collections
  <2>3. c.index = run[w].cp.index + 1 /\ c.suffix = run[w].cp.suffix /\ c.last = 0
    BY <2>2 DEF Checkpoints
  <2>4. run'[w].pc = "loop" /\ run'[w].cp = c
    <3>1. CheckpointSaved(w, "advance", "loop", c)
      BY <1>1, <2>1, CheckpointEffect
    <3> QED
      BY <3>1 DEF CheckpointSaved
  <2>5. Stable \subseteq docs[p]
    BY <1>3, <2>1 DEF PageIsWhole
  <2>6. p \in existing
    BY <2>1, <2>2 DEF LoadInv, AliasInv, RunInv, HasCollections, Loading
  <2>7. Good(c, existing, docs)
    <3>1. Good(run[w].cp, existing, docs)
      BY <1>3, <2>1 DEF RunIsLoaded, Loading
    <3>2. \A d \in Collections : d < c.index => d < run[w].cp.index \/ d = run[w].cp.index
      BY <2>2, <2>3 DEF Collections
    <3> QED
      BY <2>3, <2>5, <2>6, <3>1, <3>2 DEF Good, HasStable
  <2>8. RunIsLoaded(run'[w], existing, docs) /\ PageIsWhole(run'[w], docs)
    BY <2>4, <2>7 DEF RunIsLoaded, PageIsWhole, Loading, Swapping, Cleaning
  <2> QED
    BY <1>1, <2>1, <2>7, <2>8, CheckpointStep DEF Cleaning
<1>24. ASSUME NEW w \in Workers, ClearCheckpoint(w) PROVE LoadInv'
  <2>1. /\ Checkpoint(w, "clear", "interrupted", None)
        /\ UNCHANGED <<alias, existing, docs, db>>
    BY <1>24 DEF ClearCheckpoint
  <2>2. run'[w].pc = "interrupted"
    <3>1. CheckpointSaved(w, "clear", "interrupted", None)
      BY <1>1, <2>1, CheckpointEffect
    <3> QED
      BY <3>1 DEF CheckpointSaved
  <2>3. RunIsLoaded(run'[w], existing, docs) /\ PageIsWhole(run'[w], docs)
    BY <2>2 DEF RunIsLoaded, PageIsWhole, Loading, Swapping, Cleaning
  <2> QED
    BY <1>1, <2>1, <2>3, CheckpointStep DEF Cleaning
<1>25. ASSUME NEW w \in Workers, Succeed(w) \/ BecomeCancelled(w) \/ Fail(w) PROVE LoadInv'
  <2>1. run[w].pc # "idle" => row[run[w].job] \in JobRows
    BY <1>2 DEF InRange
  <2>2. PICK new : /\ Release(w, new) /\ new.status \notin {"absent", "running"}
                   /\ new.owner = None
                   /\ Active(new) => /\ new.checkpoint = row[run[w].job].checkpoint
                                     /\ row[run[w].job].cancel => new.cancel
    <3> DEFINE old == row[run[w].job]
    <3>1. \A s : old \in JobRows =>
            /\ [old EXCEPT !.status = s, !.owner = None].status = s
            /\ [old EXCEPT !.status = s, !.owner = None].owner = None
            /\ [old EXCEPT !.status = s, !.owner = None].checkpoint = old.checkpoint
            /\ [old EXCEPT !.status = s, !.owner = None].cancel = old.cancel
      BY DEF JobRows
    <3>2. old \in JobRows =>
            /\ [[old EXCEPT !.status = "succeeded", !.owner = None]
                    EXCEPT !.checkpoint = None, !.cancel = FALSE].status = "succeeded"
            /\ [[old EXCEPT !.status = "succeeded", !.owner = None]
                    EXCEPT !.checkpoint = None, !.cancel = FALSE].owner = None
      BY DEF JobRows
    <3>3. CASE Succeed(w)
      <4>1. Release(w, [Released(w, "succeeded") EXCEPT !.checkpoint = None, !.cancel = FALSE])
        BY <3>3 DEF Succeed
      <4>2. old \in JobRows
        BY <2>1, <3>3 DEF Succeed
      <4> QED
        BY <3>2, <4>1, <4>2 DEF Released, Active, ActiveStatuses
    <3>4. CASE BecomeCancelled(w)
      <4>1. Release(w, Released(w, "cancelled"))
        BY <3>4 DEF BecomeCancelled
      <4>2. old \in JobRows
        BY <2>1, <3>4 DEF BecomeCancelled
      <4> QED
        BY <3>1, <4>1, <4>2 DEF Released, Active, ActiveStatuses
    <3>5. CASE Fail(w)
      <4>1. PICK s \in {"queued", "failed"} : Release(w, Released(w, s))
        BY <3>5 DEF Fail
      <4>2. old \in JobRows
        BY <2>1, <4>1 DEF Release, Held
      <4> QED
        BY <3>1, <4>1, <4>2 DEF Released, Active, ActiveStatuses
    <3> QED
      BY <1>25, <3>3, <3>4, <3>5
  <2> QED
    BY <1>1, <2>2, ReleaseStep
<1>26. ASSUME NEW j \in Jobs, Enqueue(j) PROVE LoadInv'
  <2>1. /\ row[j].status = "absent" /\ KeyFree(j)
        /\ UNCHANGED <<run, alias, existing, docs, db>>
    BY <1>26 DEF Enqueue
  <2>2. row[j] \in JobRows /\ row' = [row EXCEPT ![j] = [row[j] EXCEPT !.status = "queued"]]
    BY <1>2, <1>26 DEF Enqueue
  <2>3. /\ row'[j].status = "queued" /\ row'[j].owner = row[j].owner
        /\ row'[j].checkpoint = row[j].checkpoint
        /\ \A k \in Jobs \ {j} : row'[k] = row[k]
    BY <1>2, <2>2 DEF JobRows
  <2>4. row[j].checkpoint = None /\ row[j].owner = None
    BY <2>1 DEF LoadInv, RowsAreOrderly
  <2>5. \A k \in Jobs \ {j} : ~Active(row[k])
    BY <2>1 DEF KeyFree, Active
  <2>6. RowsAreOrderly'
    BY <2>3, <2>4, <2>5 DEF LoadInv, RowsAreOrderly
  <2>7. RowsAreLoaded'
    BY <2>1, <2>3, <2>4 DEF LoadInv, RowsAreLoaded
  <2>8. \A w \in Workers : RunMatchesRows(run[w], row')
    BY <1>2, <1>3, <2>1, <2>3, <2>4 DEF RunMatchesRows, InRange
  <2> QED
    BY <1>1, <2>1, <2>6, <2>7, <2>8, RowsStep
<1>27. ASSUME NEW j \in Jobs, Cancel(j) PROVE LoadInv'
  <2>1. UNCHANGED <<run, alias, existing, docs, db>>
    BY <1>27 DEF Cancel
  <2>2. /\ row[j].status # "absent" /\ row'[j].status # "absent"
        /\ row'[j].checkpoint = row[j].checkpoint /\ row'[j].owner = row[j].owner
        /\ Active(row'[j]) => Active(row[j]) /\ row'[j].cancel = TRUE
        /\ row'[j].owner # None => row'[j].status = "running"
        /\ \A k \in Jobs \ {j} : row'[k] = row[k]
    <3>1. row[j] \in JobRows
      BY <1>2
    <3>2. CASE row[j].status = "queued" /\ row' = [row EXCEPT ![j].status = "cancelled"]
      <4>1. row[j].owner = None
        BY <3>2 DEF LoadInv, RowsAreOrderly
      <4>2. row' = [row EXCEPT ![j] = [row[j] EXCEPT !.status = "cancelled"]]
        BY <3>2
      <4> QED
        BY <1>2, <3>1, <3>2, <4>1, <4>2 DEF JobRows, Active, ActiveStatuses
    <3>3. CASE row[j].status = "running" /\ row' = [row EXCEPT ![j].cancel = TRUE]
      <4>1. row' = [row EXCEPT ![j] = [row[j] EXCEPT !.cancel = TRUE]]
        BY <3>3
      <4> QED
        BY <1>2, <3>1, <3>3, <4>1 DEF JobRows, Active, ActiveStatuses
    <3> QED
      BY <1>27, <3>2, <3>3 DEF Cancel
  <2>3. RowsAreOrderly'
    BY <2>2 DEF LoadInv, RowsAreOrderly
  <2>4. RowsAreLoaded'
    BY <2>1, <2>2 DEF LoadInv, RowsAreLoaded
  <2>5. \A w \in Workers : RunMatchesRows(run[w], row')
    BY <1>2, <1>3, <2>1, <2>2 DEF RunMatchesRows, InRange
  <2> QED
    BY <1>1, <2>1, <2>3, <2>4, <2>5, RowsStep
<1>28. ASSUME NEW j \in Jobs, LeaseLost(j) PROVE LoadInv'
  <2>1. row[j].status = "running" /\ UNCHANGED <<run, alias, existing, docs, db>>
    BY <1>28 DEF LeaseLost
  <2>2. /\ row[j] \in JobRows
        /\ row' = [row EXCEPT ![j] = [row[j] EXCEPT !.status = "queued", !.owner = None]]
    BY <1>2, <1>28 DEF LeaseLost
  <2>3. /\ row'[j].status = "queued" /\ row'[j].owner = None
        /\ row'[j].checkpoint = row[j].checkpoint /\ row'[j].cancel = row[j].cancel
        /\ \A k \in Jobs \ {j} : row'[k] = row[k]
    BY <1>2, <2>2 DEF JobRows
  <2>4. Active(row[j])
    BY <2>1 DEF Active, ActiveStatuses
  <2>5. RowsAreOrderly'
    BY <2>3, <2>4 DEF LoadInv, RowsAreOrderly
  <2>6. RowsAreLoaded'
    BY <2>1, <2>3, <2>4 DEF LoadInv, RowsAreLoaded
  <2>7. \A w \in Workers : RunMatchesRows(run[w], row')
    BY <1>2, <1>3, <2>1, <2>3, <2>4 DEF RunMatchesRows, InRange
  <2> QED
    BY <1>1, <2>1, <2>5, <2>6, <2>7, RowsStep
<1>29. ASSUME NEW w \in Workers, NEW j \in Jobs, Claim(w, j) PROVE LoadInv'
  <2>1. /\ row[j].status = "queued" /\ UNCHANGED <<alias, existing, docs, db>>
        /\ run'[w].pc = "start" /\ run'[w].job = j /\ run'[w].cp = row[j].checkpoint
        /\ run'[w].cancel = row[j].cancel
    BY <1>2, <1>29 DEF Claim, Runs
  <2>2. /\ row[j] \in JobRows
        /\ row' = [row EXCEPT ![j] = [row[j] EXCEPT !.status = "running", !.owner = w]]
    BY <1>2, <1>29 DEF Claim
  <2>3. /\ row'[j].status = "running"
        /\ row'[j].checkpoint = row[j].checkpoint /\ row'[j].cancel = row[j].cancel
        /\ \A k \in Jobs \ {j} : row'[k] = row[k]
    BY <1>2, <2>2 DEF JobRows
  <2>4. Active(row[j]) /\ \A k \in Jobs \ {j} : ~Active(row[k])
    BY <2>1 DEF LoadInv, RowsAreOrderly, Active, ActiveStatuses
  <2>5. RowsAreOrderly'
    BY <2>3, <2>4 DEF LoadInv, RowsAreOrderly
  <2>6. RowsAreLoaded'
    BY <2>1, <2>3, <2>4 DEF LoadInv, RowsAreLoaded
  <2>7. RunMatchesRows(run'[w], row')
    BY <2>1, <2>3, <2>4 DEF RunMatchesRows, Cleaning
  <2>8. RunIsLoaded(run'[w], existing', docs')
    BY <2>1, <2>4 DEF LoadInv, RowsAreLoaded, RunIsLoaded, Loading, Swapping, Cleaning
  <2>9. PageIsWhole(run'[w], docs')
    BY <2>1 DEF PageIsWhole
  <2>10. StableRowsStay' /\ ServedIsLoaded'
    BY <2>1 DEF LoadInv, StableRowsStay, ServedIsLoaded, Loaded
  <2> QED
    BY <1>1, <2>5, <2>6, <2>7, <2>8, <2>9, <2>10, LoadParts
<1>30. ASSUME NEW c \in Collections, NEW r \in Rows, Change(c, r) PROVE LoadInv'
  <2>1. UNCHANGED <<row, alias, existing, docs, run>>
    BY <1>30 DEF Change
  <2>2. r \notin Stable /\ db' = [db EXCEPT ![c] = IF r \in db[c] THEN db[c] \ {r} ELSE db[c] \cup {r}]
    BY <1>30 DEF Change
  <2>3. StableRowsStay'
    BY <1>1, <2>2 DEF LoadInv, StableRowsStay, TypeInv, TypeOK
  <2>4. RowsAreOrderly' /\ RowsAreLoaded' /\ ServedIsLoaded' /\ \A w \in Workers : LoadRun(run[w])'
    BY <2>1 DEF LoadInv, RowsAreOrderly, RowsAreLoaded, ServedIsLoaded, Loaded, LoadRun
  <2> QED
    BY <1>1, <2>3, <2>4 DEF LoadInv
<1>31. ASSUME NEW c \in Collections, NEW r \in Rows, IndexRow(c, r) PROVE LoadInv'
  <2> DEFINE p == <<c, alias[c]>>
  <2>1. UNCHANGED <<row, alias, existing, db, run>>
    BY <1>31 DEF IndexRow
  <2>2. docs' = IF p \notin existing THEN docs
                ELSE [docs EXCEPT ![p] = IF r \in db[c] THEN @ \cup {r} ELSE @ \ {r}]
    BY <1>31 DEF IndexRow
  <2>3. \A q \in Physical : docs[q] \cap Stable \subseteq docs'[q]
    <3>1. Stable \subseteq db[c]
      BY DEF LoadInv, StableRowsStay
    <3>2. docs \in [Physical -> SUBSET Rows]
      BY <1>1 DEF TypeInv, TypeOK
    <3> HIDE DEF p
    <3> QED
      BY <2>2, <3>1, <3>2
  <2>4. StableRowsStay'
    BY <2>1 DEF LoadInv, StableRowsStay
  <2>5. /\ RowsAreLoaded' /\ RowsAreOrderly' /\ ServedIsLoaded'
        /\ \A x : RunIsLoaded(x, existing, docs) => RunIsLoaded(x, existing', docs')
    BY <2>1, <2>3, GrowStep
  <2>6. \A w \in Workers : PageIsWhole(run[w], docs')
    <3> SUFFICES ASSUME NEW w \in Workers, run[w].pc \in {"save", "advance"}
                 PROVE  docs[<<run[w].cp.index, run[w].cp.suffix>>] \cap Stable
                          \subseteq docs'[<<run[w].cp.index, run[w].cp.suffix>>]
      <4>1. \A x : Covered(x) \subseteq Stable
        BY DEF Covered
      <4> QED
        BY <1>3, <4>1 DEF PageIsWhole
    <3>1. run[w].cp \in Checkpoints /\ run[w].cp.index <= NCollections
      BY <1>2 DEF InRange
    <3>2. <<run[w].cp.index, run[w].cp.suffix>> \in Physical
      BY <3>1 DEF Checkpoints, Positions, Physical, Collections
    <3> QED
      BY <2>3, <3>2
  <2>7. \A w \in Workers : LoadRun(run[w])'
    BY <1>3, <2>1, <2>5, <2>6 DEF LoadRun
  <2> QED
    BY <1>1, <2>4, <2>5, <2>7 DEF LoadInv
<1>32. ASSUME NEW w \in Workers, Create(w) PROVE LoadInv'
  <2> DEFINE p == First(run[w].todo)
  <2>1. /\ run[w].pc = "create" /\ existing' = existing \cup {p}
        /\ UNCHANGED <<row, alias, docs, db>>
    BY <1>32 DEF Create
  <2>2. run[w].cp \in Checkpoints
    BY <1>2, <2>1 DEF InRange
  <2>3. p[1] \in Collections
    <3>1. run[w].todo \in SUBSET Physical /\ run[w].todo # {}
      BY <1>2, <1>32 DEF Create, Runs
    <3> QED
      BY <3>1, FirstIsMember DEF Physical
  <2>4. /\ run'[w].pc = "create" /\ run'[w].job = run[w].job /\ run'[w].cp = Rewound(w, p[1])
        /\ run'[w].cancel = run[w].cancel /\ run'[w].stage = run[w].stage
    BY <1>2, <1>32, <2>1 DEF Create, Runs
  <2> HIDE DEF p
  <2>5. Rewound(w, p[1]).suffix = run[w].cp.suffix
    BY <2>2 DEF Rewound, Checkpoints
  <2>6. \A d \in Collections : d < Rewound(w, p[1]).index => d < run[w].cp.index
    BY <2>2, <2>3 DEF Rewound, WasLoaded, Checkpoints, Positions, Collections
  <2>7. Rewound(w, p[1]) = run[w].cp \/ Rewound(w, p[1]).last = 0
    BY <2>2 DEF Rewound, Checkpoints
  <2>8. Good(Rewound(w, p[1]), existing, docs)
    <3>1. Good(run[w].cp, existing, docs)
      BY <1>3, <2>1 DEF RunIsLoaded
    <3> QED
      BY <2>5, <2>6, <2>7, <3>1 DEF Good
  <2>9. /\ RowsAreLoaded' /\ RowsAreOrderly' /\ ServedIsLoaded'
        /\ \A cp : Good(cp, existing, docs) => Good(cp, existing', docs')
    BY <2>1, GrowStep
  <2>10. StableRowsStay'
    BY <2>1 DEF LoadInv, StableRowsStay
  <2>11. RunMatchesRows(run'[w], row)
    BY <1>3, <2>1, <2>4, <2>5 DEF RunMatchesRows, Cleaning
  <2>12. RunIsLoaded(run'[w], existing', docs')
    BY <2>4, <2>8, <2>9 DEF RunIsLoaded, Loading, Swapping, Cleaning
  <2>13. PageIsWhole(run'[w], docs')
    BY <2>4 DEF PageIsWhole
  <2>14. RunMatchesRows(run'[w], row')
    BY <2>1, <2>11
  <2> QED
    BY <1>1, <2>9, <2>10, <2>12, <2>13, <2>14, LoadParts
<1>33. ASSUME NEW w \in Workers, Import(w) PROVE LoadInv'
  <2> DEFINE p == <<run[w].cp.index, run[w].cp.suffix>>
  <2>1. /\ run[w].pc = "import" /\ docs' = [docs EXCEPT ![p] = @ \cup run[w].page]
        /\ UNCHANGED <<row, alias, existing, db>> /\ p \in existing
    BY <1>33 DEF Import, Goto, PhysicalName, Current
  <2>2. /\ run'[w].pc = "save" /\ run'[w].job = run[w].job /\ run'[w].cp = run[w].cp
        /\ run'[w].cancel = run[w].cancel /\ run'[w].stage = run[w].stage
        /\ run'[w].page = run[w].page
    BY <1>2, <1>33 DEF Import, Goto, Runs
  <2>3. docs \in [Physical -> SUBSET Rows] /\ p \in Physical
    BY <1>1, <2>1 DEF TypeInv, TypeOK
  <2>4. run[w].cp \in Checkpoints /\ run[w].cp.index \in Collections
    BY <1>2, <2>1 DEF InRange, Checkpoints, Positions, Collections
  <2>5. Good(run[w].cp, existing, docs)
    BY <1>3, <2>1 DEF RunIsLoaded, Loading
  <2>6. {q \in Stable : q <= run[w].cp.last} \subseteq docs[p]
    <3>1. CASE run[w].cp.last # 0
      BY <2>4, <2>5, <3>1 DEF Good
    <3>2. CASE run[w].cp.last = 0
      <4>1. \A q \in Stable : q \in Nat /\ q # 0
        BY ConstantsAssumption
      <4> QED
        BY <3>2, <4>1
    <3> QED
      BY <3>1, <3>2
  <2>7. Covered(run[w].page) \subseteq docs'[p]
    <3>1. Covered(run[w].page) \subseteq {q \in Stable : q <= run[w].cp.last} \cup run[w].page
      BY <1>3, <2>1 DEF PageIsWhole
    <3>2. docs'[p] = docs[p] \cup run[w].page
      BY <2>1, <2>3
    <3> QED
      BY <2>6, <3>1, <3>2
  <2>8. \A q \in Physical : docs[q] \cap Stable \subseteq docs'[q]
    BY <2>1, <2>3
  <2>9. /\ RowsAreLoaded' /\ RowsAreOrderly' /\ ServedIsLoaded'
        /\ \A cp : Good(cp, existing, docs) => Good(cp, existing', docs')
    BY <2>1, <2>8, GrowStep
  <2>10. StableRowsStay'
    BY <2>1 DEF LoadInv, StableRowsStay
  <2>11. RunMatchesRows(run'[w], row')
    <3>1. RunMatchesRows(run'[w], row)
      BY <1>3, <2>1, <2>2 DEF RunMatchesRows, Cleaning
    <3> QED
      BY <2>1, <3>1
  <2>12. RunIsLoaded(run'[w], existing', docs')
    BY <2>2, <2>5, <2>9 DEF RunIsLoaded, Loading, Swapping, Cleaning
  <2>13. PageIsWhole(run'[w], docs')
    BY <2>2, <2>7 DEF PageIsWhole
  <2> QED
    BY <1>1, <2>9, <2>10, <2>11, <2>12, <2>13, LoadParts
<1>34. ASSUME NEW w \in Workers, Point(w) PROVE LoadInv'
  <2>1. /\ run[w].pc = "point" /\ UNCHANGED <<row, existing, docs, db>>
        /\ alias' = [alias EXCEPT ![run[w].next] = run[w].cp.suffix]
    BY <1>34 DEF Point
  <2>2. /\ run'[w].pc = "look" /\ run'[w].job = run[w].job /\ run'[w].cp = run[w].cp
        /\ run'[w].cancel = run[w].cancel /\ run'[w].stage = run[w].stage
    BY <1>2, <1>34 DEF Point, Runs
  <2>3. Good(run[w].cp, existing, docs) /\ run[w].cp.index > NCollections
    BY <1>3, <2>1 DEF RunIsLoaded, Swapping
  <2>4. \A c \in Collections : Loaded(<<c, run[w].cp.suffix>>)
    <3>1. \A c \in Collections : c < run[w].cp.index
      <4>1. run[w].cp.index \in Int
        BY <1>2, <2>1 DEF InRange, Checkpoints, Positions
      <4> QED
        BY <2>3, <4>1, ConstantsAssumption DEF Collections
    <3> QED
      BY <2>3, <3>1 DEF Good, HasStable, Loaded
  <2>5. ServedIsLoaded'
    <3> SUFFICES ASSUME NEW c \in Collections, alias'[c] # None
                 PROVE  Loaded(<<c, alias'[c]>>)
      BY <2>1 DEF ServedIsLoaded, Loaded
    <3>1. CASE alias'[c] = run[w].cp.suffix
      BY <2>4, <3>1
    <3>2. CASE alias'[c] = alias[c]
      BY <3>2 DEF LoadInv, ServedIsLoaded
    <3>3. alias \in [Collections -> Suffixes \cup {Real, None}]
      BY <1>1 DEF TypeInv, TypeOK
    <3> QED
      BY <2>1, <3>1, <3>2, <3>3
  <2>6. StableRowsStay' /\ RowsAreOrderly' /\ RowsAreLoaded'
    BY <2>1 DEF LoadInv, StableRowsStay, RowsAreOrderly, RowsAreLoaded
  <2>7. RunMatchesRows(run'[w], row)
    BY <1>3, <2>1, <2>2 DEF RunMatchesRows, Cleaning
  <2>8. RunIsLoaded(run'[w], existing, docs) /\ PageIsWhole(run'[w], docs)
    BY <2>2, <2>3 DEF RunIsLoaded, PageIsWhole, Loading, Swapping, Cleaning
  <2>9. /\ RunMatchesRows(run'[w], row') /\ RunIsLoaded(run'[w], existing', docs')
        /\ PageIsWhole(run'[w], docs')
    BY <2>1, <2>7, <2>8
  <2> QED
    BY <1>1, <2>5, <2>6, <2>9, LoadParts
<1>35. ASSUME NEW w \in Workers, DropReal(w) PROVE LoadInv'
  <2> DEFINE p == <<run[w].next, Real>>
  <2>1. /\ run[w].pc = "drop" /\ existing' = existing \ {p} /\ docs' = [docs EXCEPT ![p] = {}]
        /\ UNCHANGED <<row, db>> /\ alias' = [alias EXCEPT ![run[w].next] = None]
    BY <1>35 DEF DropReal, Goto
  <2>2. /\ run'[w].pc = "point" /\ run'[w].job = run[w].job /\ run'[w].cp = run[w].cp
        /\ run'[w].cancel = run[w].cancel /\ run'[w].stage = run[w].stage
    BY <1>2, <1>35 DEF DropReal, Goto, Runs
  <2>3. \A c \in Collections : alias'[c] # None => alias'[c] = alias[c] /\ <<c, alias[c]>> # p
    <3>1. alias \in [Collections -> Suffixes \cup {Real, None}]
      BY <1>1 DEF TypeInv, TypeOK
    <3> QED
      BY <2>1, <3>1
  <2>4. \A cp \in Checkpoints : cp.suffix # p[2]
    BY ConstantsAssumption DEF Checkpoints, Suffixes
  <2>5. \A j \in Jobs : row[j].checkpoint # None => row[j].checkpoint \in Checkpoints
    BY <1>2 DEF JobRows
  <2>6. run[w].cp \in Checkpoints
    BY <1>2, <2>1 DEF InRange
  <2> HIDE DEF p
  <2>7. \A j \in Jobs : Active(row[j]) /\ row[j].checkpoint # None /\ ~row[j].cancel =>
                          row[j].checkpoint.suffix # p[2]
    BY <2>4, <2>5
  <2>8. /\ StableRowsStay' /\ RowsAreLoaded' /\ RowsAreOrderly' /\ ServedIsLoaded'
        /\ \A cp : cp.suffix # p[2] /\ Good(cp, existing, docs) => Good(cp, existing', docs')
    BY <2>1, <2>3, <2>7, ShrinkStep
  <2>9. Good(run[w].cp, existing', docs') /\ run[w].cp.index > NCollections
    BY <1>3, <2>1, <2>4, <2>6, <2>8 DEF RunIsLoaded, Swapping
  <2>10. RunMatchesRows(run'[w], row')
    <3>1. RunMatchesRows(run'[w], row)
      BY <1>3, <2>1, <2>2 DEF RunMatchesRows, Cleaning
    <3> QED
      BY <2>1, <3>1
  <2>11. RunIsLoaded(run'[w], existing', docs') /\ PageIsWhole(run'[w], docs')
    BY <2>2, <2>9 DEF RunIsLoaded, PageIsWhole, Loading, Swapping, Cleaning
  <2> QED
    BY <1>1, <2>8, <2>10, <2>11, LoadParts
<1>36. ASSUME NEW w \in Workers, DeleteFirst(w), run[w].pc \in {"delete", "previous"}
      PROVE  LoadInv'
  <2> DEFINE p == First(run[w].todo)
  <2>1. /\ existing' = existing \ {p} /\ docs' = [docs EXCEPT ![p] = {}]
        /\ UNCHANGED <<row, alias, db>>
    BY <1>36 DEF DeleteFirst
  <2>2. p \in run[w].todo /\ p \in Physical
    <3>1. run[w].todo \in SUBSET Physical /\ run[w].todo # {}
      BY <1>2, <1>36 DEF DeleteFirst, Runs
    <3> QED
      BY <3>1, FirstIsMember
  <2>3. /\ run'[w].pc = run[w].pc /\ run'[w].job = run[w].job /\ run'[w].cp = run[w].cp
        /\ run'[w].cancel = run[w].cancel /\ run'[w].stage = run[w].stage
    BY <1>2, <1>36 DEF DeleteFirst, Runs
  <2>4. RunInv(run[w], alias, existing)
    BY <1>1 DEF AliasInv
  <2> HIDE DEF p
  <2>5. p = <<p[1], p[2]>> /\ p[1] \in Collections
    BY <2>2 DEF Physical
  <2>6. \A c \in Collections : <<c, alias[c]>> # p
    <3>1. CASE run[w].pc = "delete"
      BY <2>2, <2>4, <3>1 DEF RunInv, SparesTargets
    <3>2. CASE run[w].pc = "previous"
      <4>1. \A c \in Collections : alias[c] = run[w].cp.suffix
        BY <2>4, <3>2 DEF RunInv, PointsInOrder, AfterSwap
      <4>2. p[2] # run[w].cp.suffix
        BY <2>2, <2>4, <3>2 DEF RunInv, SparesItsOwn
      <4> QED
        BY <4>1, <4>2
    <3> QED
      BY <1>36, <3>1, <3>2
  <2>7. ASSUME NEW j \in Jobs, Active(row[j]), row[j].checkpoint # None, ~row[j].cancel
        PROVE  row[j].checkpoint.suffix # p[2]
    <3>1. RunMatchesRows(run[w], row)
      BY <1>3
    <3>2. j = run[w].job
      BY <1>36, <2>7, <3>1 DEF RunMatchesRows
    <3>3. row[j].checkpoint.suffix = run[w].cp.suffix
      BY <1>36, <2>7, <3>1, <3>2 DEF RunMatchesRows
    <3>4. AfterSwap(run[w])
      <4>1. CASE run[w].pc = "previous"
        BY <4>1 DEF AfterSwap
      <4>2. CASE run[w].pc = "delete"
        <5>1. run[w].stage \in {"fresh", "cancel", "final"}
          BY <1>2, <4>2 DEF InRange
        <5>2. run[w].stage # "fresh"
          BY <2>7, <3>1, <3>2, <4>2 DEF RunMatchesRows, Cleaning
        <5>3. run[w].stage # "cancel"
          BY <2>7, <3>1, <3>2, <4>2 DEF RunMatchesRows, Cleaning
        <5> QED
          BY <4>2, <5>1, <5>2, <5>3 DEF AfterSwap, Cleaning
      <4> QED
        BY <1>36, <4>1, <4>2
    <3>5. \A c \in Collections : alias[c] = run[w].cp.suffix
      BY <2>4, <3>4 DEF RunInv, PointsInOrder
    <3> QED
      BY <2>5, <2>6, <3>3, <3>5
  <2>8. StableRowsStay' /\ RowsAreLoaded' /\ RowsAreOrderly' /\ ServedIsLoaded'
    BY <2>1, <2>6, <2>7, ShrinkStep
  <2>9. RunMatchesRows(run'[w], row')
    <3>1. RunMatchesRows(run'[w], row)
      BY <1>3, <1>36, <2>3 DEF RunMatchesRows
    <3> QED
      BY <2>1, <3>1
  <2>10. RunIsLoaded(run'[w], existing', docs')
    BY <1>3, <1>36, <2>3 DEF RunIsLoaded, Loading, Swapping
  <2>11. PageIsWhole(run'[w], docs')
    BY <1>36, <2>3 DEF PageIsWhole
  <2> QED
    BY <1>1, <2>8, <2>9, <2>10, <2>11, LoadParts
<1>37. ASSUME UNCHANGED vars PROVE LoadInv'
  <2>1. UNCHANGED <<row, run, alias, existing, docs, db>>
    BY <1>37 DEF vars
  <2>2. /\ StableRowsStay' /\ RowsAreOrderly' /\ RowsAreLoaded' /\ ServedIsLoaded'
        /\ \A w \in Workers : LoadRun(run[w])'
    BY <2>1 DEF LoadInv, StableRowsStay, RowsAreOrderly, RowsAreLoaded, ServedIsLoaded, Loaded,
       LoadRun
  <2> QED
    BY <1>1, <2>2 DEF LoadInv
<1> HIDE DEF search, source, bounds
<1>38. \A j \in Jobs : ~Retry(j)
  BY <1>1 DEF Retry, NoRetries, TypeInv, TypeOK
<1>39. ASSUME Queue PROVE LoadInv'
  BY <1>26, <1>27, <1>28, <1>29, <1>38, <1>39 DEF Queue
<1>40. ASSUME Api PROVE LoadInv'
  BY <1>30, <1>31, <1>40 DEF Api
<1>41. ASSUME NEW w \in Workers, Prepare(w) PROVE LoadInv'
  BY <1>4, <1>5, <1>6, <1>7, <1>8, <1>9, <1>10, <1>21, <1>32, <1>36, <1>41
     DEF Prepare, DeleteStale
<1>42. ASSUME NEW w \in Workers, Load(w) PROVE LoadInv'
  BY <1>11, <1>12, <1>13, <1>22, <1>23, <1>33, <1>42 DEF Load
<1>43. ASSUME NEW w \in Workers, Swap(w) PROVE LoadInv'
  BY <1>14, <1>15, <1>16, <1>17, <1>18, <1>34, <1>35, <1>36, <1>43 DEF Swap, DeletePrevious
<1>44. ASSUME NEW w \in Workers, End(w) \/ Heartbeat(w) \/ Fail(w) PROVE LoadInv'
  BY <1>19, <1>20, <1>24, <1>25, <1>44 DEF End
<1> QED
  BY <1>37, <1>39, <1>40, <1>41, <1>42, <1>43, <1>44 DEF Next, Run

\* At the start the collection behind every name is loaded and no job exists.
LEMMA LoadInit ==
    ASSUME Init
    PROVE  LoadInv
<1>1. AliasInv /\ TypeInv
  BY AliasInit DEF AliasInv
<1>2. StableRowsStay
  BY DEF Init, StableRowsStay
<1>3. \A j \in Jobs : row[j].status = "absent" /\ row[j].checkpoint = None /\ row[j].owner = None
  BY DEF Init
<1>4. RowsAreOrderly /\ RowsAreLoaded
  BY <1>3 DEF RowsAreOrderly, RowsAreLoaded, Active, ActiveStatuses
<1>5. \A w \in Workers : LoadRun(run[w])
  BY DEF Init, Idle, LoadRun, RunMatchesRows, RunIsLoaded, PageIsWhole, Loading, Swapping,
         Cleaning
<1>6. ServedIsLoaded
  BY DEF Init, ServedIsLoaded, Loaded, Physical
<1> QED
  BY <1>1, <1>2, <1>4, <1>5, <1>6 DEF LoadInv

\* The invariant holds.
THEOREM LoadInvHolds ==
    ASSUME OneWorker, NoRetries
    PROVE  Spec => []LoadInv
<1>1. Init => LoadInv
  BY LoadInit
<1>2. LoadInv /\ [Next]_vars => LoadInv'
  BY LoadStep
<1> QED
  BY <1>1, <1>2, PTL DEF Spec

-----------------------------------------------------------------------------
(* Theorems *)

\* What search serves has every unchanging row at all times: through failures,
\* crashes, lost leases and cancels, and while the swap is half-way.
THEOREM ServesLoaded ==
    ASSUME OneWorker, NoRetries
    PROVE  Spec => []ServedIsLoaded
<1>1. LoadInv => ServedIsLoaded
  BY DEF LoadInv
<1> QED
  BY <1>1, LoadInvHolds, PTL

\* A job resumes behind what is loaded: no unchanging row is skipped.
THEOREM CheckpointsAreTrue ==
    ASSUME OneWorker, NoRetries
    PROVE  Spec => []ResumeSkipsNothing
<1>1. LoadInv => ResumeSkipsNothing
  <2> SUFFICES ASSUME LoadInv, NEW j \in Jobs, Active(row[j]), row[j].checkpoint # None,
                      ~row[j].cancel, NEW c \in Collections
               PROVE  LET cp == row[j].checkpoint IN
                        /\ c < cp.index => Loaded(<<c, cp.suffix>>)
                        /\ c = cp.index =>
                             {r \in Stable : r <= cp.last} \subseteq docs[<<c, cp.suffix>>]
    BY DEF ResumeSkipsNothing, Active
  <2>1. PICK cp : cp = row[j].checkpoint
    OBVIOUS
  <2>2. Good(cp, existing, docs)
    BY <2>1 DEF LoadInv, RowsAreLoaded
  <2>3. \A r \in Stable : r \in Nat /\ r # 0
    BY ConstantsAssumption
  <2>4. c < cp.index => Loaded(<<c, cp.suffix>>)
    BY <2>2 DEF Good, HasStable, Loaded
  <2>5. c = cp.index => {r \in Stable : r <= cp.last} \subseteq docs[<<c, cp.suffix>>]
    BY <2>2, <2>3 DEF Good
  <2> QED
    BY <2>1, <2>4, <2>5
<1> QED
  BY <1>1, LoadInvHolds, PTL

\* No name changes before the run that changes it has loaded all its own
\* collections; that earlier runs left complete ones does not count.
THEOREM SwapComesLast ==
    ASSUME OneWorker, NoRetries
    PROVE  Spec => SwapIsLast
<1> DEFINE Swaps(w, c) ==
             /\ run[w].cp \in Checkpoints /\ run[w].next = c
             /\ alias'[c] \in {None, run[w].cp.suffix}
             /\ \A d \in Collections : Loaded(PhysicalName(w, d))
<1>1. ASSUME LoadInv, [Next]_vars, NEW c \in Collections, alias'[c] # alias[c]
      PROVE  \E w \in Workers : Swaps(w, c)
  <2>1. PICK w \in Workers : DropReal(w) \/ Point(w)
    <3>1. ~Queue /\ ~Api
      BY <1>1 DEF Queue, Api, Enqueue, Retry, Cancel, LeaseLost, Claim, Change, IndexRow, search
    <3>2. \A w \in Workers : ~Prepare(w) /\ ~Load(w)
      BY <1>1 DEF Prepare, StopAtStart, BeginFresh, BeginResumed, ReadTarget, ListStale,
         DeleteStale, DeleteFirst, StaleDeleted, ListMissing, Create, Created, Load,
         Interrupted,
         Continue, Fetch, Import, SaveBatch, Advance, search
    <3>3. \A w \in Workers : ~End(w) /\ ~Heartbeat(w) /\ ~Fail(w)
      BY <1>1 DEF End, ClearCheckpoint, Succeed, BecomeCancelled, LockLost, Release, Heartbeat,
         Fail, search
    <3>4. \A w \in Workers : Swap(w) => DropReal(w) \/ Point(w)
      BY <1>1 DEF Swap, BeginSwap, GetAlias, Swapped, DeletePrevious, DeleteFirst,
         PreviousDeleted, Finish, search
    <3> QED
      BY <1>1, <3>1, <3>2, <3>3, <3>4 DEF Next, Run, vars, search
  <2>2. run[w].pc \in Swapping
    BY <2>1 DEF DropReal, Point, Goto, Swapping
  <2>3. Good(run[w].cp, existing, docs) /\ run[w].cp.index > NCollections
    BY <1>1, <2>2 DEF LoadInv, LoadRun, RunIsLoaded
  <2>4. run[w].cp \in Checkpoints
    BY <1>1, <2>2 DEF LoadInv, AliasInv, TypeInv, RunsAreInRange, InRange, Swapping
  <2>5. \A d \in Collections : d < run[w].cp.index
    BY <2>3, <2>4, ConstantsAssumption DEF Checkpoints, Positions, Collections
  <2>6. \A d \in Collections : Loaded(PhysicalName(w, d))
    BY <2>3, <2>5 DEF Good, HasStable, Loaded, PhysicalName
  <2>7. run[w].next = c /\ alias'[c] \in {None, run[w].cp.suffix}
    <3>1. alias \in [Collections -> Suffixes \cup {Real, None}]
      BY <1>1 DEF LoadInv, AliasInv, TypeInv, TypeOK
    <3>2. PICK x \in {None, run[w].cp.suffix} : alias' = [alias EXCEPT ![run[w].next] = x]
      BY <2>1 DEF DropReal, Point
    <3> QED
      BY <1>1, <3>1, <3>2
  <2> QED
    BY <2>4, <2>6, <2>7
<1>2. LoadInv /\ [Next]_vars =>
        [\A c \in Collections : alias'[c] # alias[c] => \E w \in Workers : Swaps(w, c)]_vars
  BY <1>1
<1> QED
  BY <1>2, LoadInvHolds, PTL DEF Spec, SwapIsLast
=============================================================================
