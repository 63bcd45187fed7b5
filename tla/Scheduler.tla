----------------------------- MODULE Scheduler -----------------------------
(***************************************************************************)
(* The registered jobs: the scheduler's tick (scheduler.rs), run by every    *)
(* worker process, against the dashboard's edits of a definition and its     *)
(* "run now" (jobs.repository.ts).  Each is a transaction; the locks it      *)
(* holds on definitions and on concurrency keys are explicit.  A cron        *)
(* expression is its period: it occurs at the multiples of a number.         *)
(***************************************************************************)
EXTENDS Integers, FiniteSets

CONSTANTS ScRows,      \* definitions, as numbers: a tick goes through them in order
          ScKeyOf,     \* the concurrency key of a definition's job type
          ScWorkers, ScUsers,
          ScCrons,     \* periods an editor may set (0: no cron)
          ScLags,      \* how far a worker's clock may be behind the database's
          ScMaxTime,   \* bound on the clock
          ScBudgets    \* bounds: how many edits, runs, failures and clocks that lag

ASSUME SchedulerAssumption ==
  /\ ScRows \subseteq Nat /\ IsFiniteSet(ScRows) /\ ScRows # {}
  /\ ScKeyOf \in [ScRows -> STRING]
  /\ ScCrons \subseteq Nat /\ ScLags \subseteq Nat /\ 0 \in ScLags
  /\ "free" \notin ScWorkers \union ScUsers /\ ScWorkers \cap ScUsers = {}
  /\ ScMaxTime \in Nat
  /\ ScBudgets \subseteq [edits : Nat, runs : Nat, fails : Nat, lags : Nat]

VARIABLES
  scNow,      \* the database's clock
  scRow,      \* recurring_jobs: enabled, cron, next_run_at (0: null)
  scActive,   \* keys with a committed queued or running job
  scRowLock,  \* the tick that locked a definition
  scKeyLock,  \* the transaction with an uncommitted job of a key
  scTick,     \* per worker: definitions still to do, the clock it read, and what
              \* it is to commit: next runs (0: none), definitions and keys it fired
  scUser,     \* per user: the request under way
  scLast,     \* the latest occurrence a definition was enqueued for
  scTwice,    \* definitions enqueued again for an occurrence that was done
  scLagged,   \* definitions whose next run a clock that lags computed
  scLeft      \* what is left of the bounds, chosen at the start

scVars == <<scNow, scRow, scActive, scRowLock, scKeyLock, scTick, scUser,
            scLast, scTwice, scLagged, scLeft>>

ScKeys == {ScKeyOf[d] : d \in ScRows}
NoTick ==
  [todo |-> {}, clock |-> 0, next |-> [d \in ScRows |-> 0], fired |-> {}, keys |-> {}]
NoRequest == [pc |-> "idle"]

ScInit ==
  /\ scNow = 1
  /\ \E enabled \in [ScRows -> BOOLEAN] :       \* cron is seeded as every 2nd moment
       scRow = [d \in ScRows |-> [enabled |-> enabled[d], cron |-> 2, next |-> 0]]
  /\ scActive = {}
  /\ scRowLock = [d \in ScRows |-> "free"]
  /\ scKeyLock = [k \in ScKeys |-> "free"]
  /\ scTick = [w \in ScWorkers |-> NoTick]
  /\ scUser = [u \in ScUsers |-> NoRequest]
  /\ scLast = [d \in ScRows |-> 0]
  /\ scTwice = {} /\ scLagged = {}
  /\ scLeft \in ScBudgets

----------------------------------------------------------------------------
(* The tick *)

\* The mutant of NextAfter: an occurrence at the time itself counts as next.
NextAtOrAfter(cron, time) == ((time + cron - 1) \div cron) * cron

\* The first occurrence strictly after a time.
NextAfter(cron, time) == (time \div cron + 1) * cron

Due(d) ==
  /\ scRow[d].enabled /\ scRow[d].cron # 0
  /\ scRow[d].next <= scNow            \* null is 0

Lockable(d) == scRowLock[d] = "free"

\* FOR UPDATE SKIP LOCKED: the due definitions no other tick holds.
\* The worker's own clock is read once, for all of them.
TickLock(w) ==
  LET due == {d \in ScRows : Due(d) /\ Lockable(d)} IN
  /\ scTick[w] = NoTick /\ due # {}
  /\ \E lag \in ScLags :
       /\ lag <= scNow /\ (lag > 0 => scLeft.lags > 0)
       /\ scTick' = [scTick EXCEPT ![w] =
            [NoTick EXCEPT !.todo = due, !.clock = scNow - lag]]
       /\ scLagged' = IF lag > 0 THEN scLagged \union due ELSE scLagged
       /\ scLeft' = IF lag > 0 THEN [scLeft EXCEPT !.lags = @ - 1] ELSE scLeft
  /\ scRowLock' = [d \in ScRows |-> IF d \in due THEN w ELSE scRowLock[d]]
  /\ UNCHANGED <<scNow, scRow, scActive, scKeyLock, scUser, scLast, scTwice>>

First(rows) == CHOOSE d \in rows : \A e \in rows : d <= e

\* One definition after the other: only its next run is computed if it had none; else a job is
\* inserted unless its key is active, and the next run is moved.  The insert
\* waits for a transaction that has an uncommitted job of the key.
TickRow(w) ==
  LET t == scTick[w]
      d == First(t.todo)
      k == ScKeyOf[d]
      next == NextAfter(scRow[d].cron, t.clock)
      enqueue == scRow[d].next # 0 /\ k \notin scActive /\ k \notin t.keys
  IN /\ t.todo # {}
     /\ scRow[d].next # 0 => scKeyLock[k] \in {"free", w}
     /\ scTick' = [scTick EXCEPT ![w] =
          [t EXCEPT !.todo = @ \ {d}, !.next[d] = next,
                    !.fired = IF enqueue THEN @ \union {d} ELSE @,
                    !.keys = IF enqueue THEN @ \union {k} ELSE @]]
     /\ scKeyLock' = IF enqueue THEN [scKeyLock EXCEPT ![k] = w] ELSE scKeyLock
     /\ UNCHANGED <<scNow, scRow, scActive, scRowLock, scUser, scLast, scTwice, scLagged, scLeft>>

Unlocked(p) == /\ scRowLock' = [d \in ScRows |-> IF scRowLock[d] = p THEN "free" ELSE scRowLock[d]]
               /\ scKeyLock' = [k \in ScKeys |-> IF scKeyLock[k] = p THEN "free" ELSE scKeyLock[k]]

TickCommit(w) ==
  LET t == scTick[w]
  IN /\ t # NoTick /\ t.todo = {}
     /\ scRow' = [d \in ScRows |->
          IF t.next[d] # 0 THEN [scRow[d] EXCEPT !.next = t.next[d]] ELSE scRow[d]]
     /\ scActive' = scActive \union t.keys
     /\ scLast' = [d \in ScRows |-> IF d \in t.fired THEN scRow[d].next ELSE scLast[d]]
     /\ scTwice' = scTwice \union {d \in t.fired : scRow[d].next <= scLast[d]}
     /\ Unlocked(w)
     /\ scTick' = [scTick EXCEPT ![w] = NoTick]
     /\ UNCHANGED <<scNow, scUser, scLagged, scLeft>>

\* A worker that dies or loses its connection, or the commit that fails.
TickFail(w) ==
  /\ scTick[w] # NoTick /\ scLeft.fails > 0
  /\ Unlocked(w)
  /\ scTick' = [scTick EXCEPT ![w] = NoTick]
  /\ scLeft' = [scLeft EXCEPT !.fails = @ - 1]
  /\ UNCHANGED <<scNow, scRow, scActive, scUser, scLast, scTwice, scLagged>>

----------------------------------------------------------------------------
(* The dashboard.  "Run now" inserts the job first; linking it to the        *)
(* definition (and the foreign key's check) waits for a tick that holds it.  *)

RunInsert(u, d) ==
  LET k == ScKeyOf[d] IN
  /\ scUser[u].pc = "idle" /\ scLeft.runs > 0
  /\ scKeyLock[k] = "free" /\ k \notin scActive      \* else 409
  /\ scKeyLock' = [scKeyLock EXCEPT ![k] = u]
  /\ scUser' = [scUser EXCEPT ![u] = [pc |-> "link", id |-> d]]
  /\ scLeft' = [scLeft EXCEPT !.runs = @ - 1]
  /\ UNCHANGED <<scNow, scRow, scActive, scRowLock, scTick, scLast, scTwice, scLagged>>

RunCommit(u) ==
  LET d == scUser[u].id IN
  /\ scUser[u].pc = "link" /\ scRowLock[d] = "free"
  /\ scActive' = scActive \union {ScKeyOf[d]}
  /\ Unlocked(u)
  /\ scUser' = [scUser EXCEPT ![u] = NoRequest]
  /\ UNCHANGED <<scNow, scRow, scTick, scLast, scTwice, scLagged, scLeft>>

\* The handler compares the cron with a row it read before its update; an
\* unchanged expression keeps the computed next run, a new one clears it.
UpdateRead(u, d, cron, enabled) ==
  /\ scUser[u].pc = "idle" /\ scLeft.edits > 0
  /\ scUser' = [scUser EXCEPT ![u] =
       [pc |-> "update", id |-> d, enabled |-> enabled, cron |-> cron, changed |-> cron # scRow[d].cron]]
  /\ scLeft' = [scLeft EXCEPT !.edits = @ - 1]
  /\ UNCHANGED <<scNow, scRow, scActive, scRowLock, scKeyLock, scTick, scLast, scTwice, scLagged>>

\* The mutant of Updated: the next run of the old cron stays.
UpdatedKeepsNext(row, q) ==
  IF q.changed THEN [row EXCEPT !.enabled = q.enabled, !.cron = q.cron]
  ELSE [row EXCEPT !.enabled = q.enabled]

Updated(row, q) ==
  IF q.changed THEN [row EXCEPT !.enabled = q.enabled, !.cron = q.cron, !.next = 0]
  ELSE [row EXCEPT !.enabled = q.enabled]

UpdateWrite(u) ==
  LET q == scUser[u] IN
  /\ q.pc = "update" /\ scRowLock[q.id] = "free"
  /\ scRow' = [scRow EXCEPT ![q.id] = Updated(@, q)]
  /\ scUser' = [scUser EXCEPT ![u] = NoRequest]
  /\ UNCHANGED <<scNow, scActive, scRowLock, scKeyLock, scTick, scLast, scTwice, scLagged, scLeft>>

----------------------------------------------------------------------------
(* The database ends a circle of waits by failing one of its transactions:  *)
(* a "run now" that has its key waits for the definition, the tick that has *)
(* the definition waits for the key.                                        *)
WaitsForKey(w) ==
  IF scTick[w].todo = {} \/ scRow[First(scTick[w].todo)].next = 0 THEN {}
  ELSE {scKeyLock[ScKeyOf[First(scTick[w].todo)]]} \ {"free", w}

WaitsForRow(u) ==
  IF scUser[u].pc = "link" THEN {scRowLock[scUser[u].id]} \ {"free"} ELSE {}

WaitsOf(p) == IF p \in ScWorkers THEN WaitsForKey(p) ELSE WaitsForRow(p)

\* The mutant of Circle: nothing detects the circle.
CircleUndetected(p, q) == FALSE

Circle(p, q) == q \in WaitsOf(p) /\ p \in WaitsOf(q)

BreakTick(w) ==
  /\ \E q \in ScUsers \union ScWorkers : Circle(w, q)
  /\ Unlocked(w)
  /\ scTick' = [scTick EXCEPT ![w] = NoTick]
  /\ UNCHANGED <<scNow, scRow, scActive, scUser, scLast, scTwice, scLagged, scLeft>>

BreakRun(u) ==
  /\ \E w \in ScWorkers : Circle(u, w)
  /\ Unlocked(u)
  /\ scUser' = [scUser EXCEPT ![u] = NoRequest]
  /\ UNCHANGED <<scNow, scRow, scActive, scTick, scLast, scTwice, scLagged, scLeft>>

\* The job of a key ends (JobQueue).
JobEnds(k) ==
  /\ k \in scActive
  /\ scActive' = scActive \ {k}
  /\ UNCHANGED <<scNow, scRow, scRowLock, scKeyLock, scTick, scUser, scLast, scTwice, scLagged, scLeft>>

Advance ==
  /\ scNow < ScMaxTime
  /\ scNow' = scNow + 1
  /\ UNCHANGED <<scRow, scActive, scRowLock, scKeyLock, scTick, scUser, scLast, scTwice, scLagged, scLeft>>

ScNext ==
  \/ \E w \in ScWorkers : TickLock(w) \/ TickRow(w) \/ TickCommit(w) \/ TickFail(w) \/ BreakTick(w)
  \/ \E u \in ScUsers : RunCommit(u) \/ UpdateWrite(u) \/ BreakRun(u)
  \/ \E u \in ScUsers, d \in ScRows : RunInsert(u, d)
  \/ \E u \in ScUsers, d \in ScRows, cron \in ScCrons, enabled \in BOOLEAN : UpdateRead(u, d, cron, enabled)
  \/ \E k \in ScKeys : JobEnds(k)
  \/ Advance

\* What goes on by itself: a worker ticks every 30 s and its transaction, like
\* a request's, runs to its end unless it waits; the database ends a circle.
\* Time, the users, failures and the end of jobs owe nothing.
ScTicks == \E w \in ScWorkers : TickLock(w)
ScServes(w) == TickRow(w) \/ TickCommit(w) \/ BreakTick(w)
\* A request that waits for a definition has it when the tick lets go of it,
\* before the tick of 30 s later: hence the strong fairness.
ScAnswers(u) == RunCommit(u) \/ UpdateWrite(u)

ScFairness ==
  /\ WF_scVars(ScTicks)
  /\ \A w \in ScWorkers : WF_scVars(ScServes(w))
  /\ \A u \in ScUsers : SF_scVars(ScAnswers(u))

ScSpec == ScInit /\ [][ScNext]_scVars /\ ScFairness
----------------------------------------------------------------------------
(* Properties *)

\* Whatever ticks, edits and "run now" overlap, and a commit that fails is
\* tried again, an occurrence is enqueued once: a definition is enqueued again
\* for one that was done only where a worker's clock lags the database's, since
\* the next run is computed by one clock and compared with the other
\* (scheduler.rs:66 and 74).
ScOncePerOccurrence == scTwice \subseteq scLagged

\* The next run a definition shows is an occurrence of the cron it shows, also
\* when an edit decides from a row that was read before a tick or another edit
\* (recurring-update.handler.ts:36, jobs.repository.ts:225).
ScNextIsOfCron ==
  \A d \in ScRows : scRow[d].next # 0 =>
    scRow[d].cron # 0 /\ scRow[d].next % scRow[d].cron = 0

\* A due definition is handled, whoever holds it or its key: workers that die in
\* a tick, ticks that skip it, a "run now" that waits for the tick that waits
\* for it.  Only a clock that lags may leave it due.
ScDueIsHandled ==
  \A d \in ScRows : (Due(d) /\ d \notin scLagged) ~> (~Due(d) \/ d \in scLagged)
=============================================================================
