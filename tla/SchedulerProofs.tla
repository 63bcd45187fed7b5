--------------------------- MODULE SchedulerProofs ---------------------------
(***************************************************************************)
(* Proofs about Scheduler, for every set of definitions, workers and users,  *)
(* every lag of a worker's clock and every bound.                            *)
(***************************************************************************)
EXTENDS Scheduler, FiniteSetTheorems, WellFoundedInduction, TLAPS

Definitions == [enabled : BOOLEAN, cron : Nat, next : Nat]
Ticks == [todo : SUBSET ScRows, clock : Nat, next : [ScRows -> Nat], fired : SUBSET ScRows,
          keys : SUBSET ScKeys]
Requests ==
  {NoRequest} \union [pc : {"link"}, id : ScRows]
    \union [pc : {"update"}, id : ScRows, enabled : BOOLEAN, cron : Nat, changed : BOOLEAN]

ScTypeOK ==
  /\ scNow \in Nat \ {0}
  /\ scRow \in [ScRows -> Definitions]
  /\ scActive \subseteq ScKeys
  /\ scRowLock \in [ScRows -> ScWorkers \union {"free"}]
  /\ scKeyLock \in [ScKeys -> ScWorkers \union ScUsers \union {"free"}]
  /\ scTick \in [ScWorkers -> Ticks]
  /\ scUser \in [ScUsers -> Requests]
  /\ scLast \in [ScRows -> Nat]
  /\ scTwice \subseteq ScRows /\ scLagged \subseteq ScRows

\* The definitions a tick t has taken and not let go of.
Taken(t, d) == d \in t.todo \/ t.next[d] # 0

\* A tick holds the definitions it goes through, which have a cron and were due.
TickHolds(w, t) ==
  \A d \in ScRows : Taken(t, d) =>
    /\ scRowLock[d] = w
    /\ scRow[d].cron # 0 /\ scRow[d].next <= scNow
    /\ d \notin scLagged => scRow[d].next <= t.clock /\ scLast[d] <= t.clock

\* What it is to commit is an occurrence of the cron, after its clock; it fires
\* what had a next run.
TickComputes(t) ==
  /\ \A d \in ScRows : t.next[d] # 0 =>
       t.next[d] % scRow[d].cron = 0 /\ (d \notin scLagged => t.clock < t.next[d])
  /\ \A d \in t.fired : t.next[d] # 0 /\ scRow[d].next # 0

TicksAreSound == \A w \in ScWorkers : TickHolds(w, scTick[w]) /\ TickComputes(scTick[w])

\* An occurrence that was enqueued lies in the past, and before the next run.
LastIsPast ==
  \A d \in ScRows :
    /\ scLast[d] <= scNow
    /\ d \notin scLagged /\ scRow[d].next # 0 => scLast[d] < scRow[d].next

ScInv == ScTypeOK /\ TicksAreSound /\ LastIsPast /\ ScNextIsOfCron /\ ScOncePerOccurrence

-----------------------------------------------------------------------------
(* Numbers *)

\* The next occurrence of a cron is one, and strictly later.
LEMMA NextAfterIsOccurrence ==
  ASSUME NEW cron \in Nat \ {0}, NEW time \in Nat
  PROVE  /\ NextAfter(cron, time) \in Nat \ {0}
         /\ NextAfter(cron, time) > time
         /\ NextAfter(cron, time) % cron = 0
<1>1. NextAfter(cron, time) \in Nat /\ NextAfter(cron, time) > time
  BY DEF NextAfter
<1>2. NextAfter(cron, time) % cron = 0
  BY DEF NextAfter
<1> QED
  BY <1>1, <1>2

\* Definitions are gone through in order: there is a first one.
LEMMA FirstIsMember ==
  ASSUME NEW rows \in SUBSET ScRows, rows # {}
  PROVE  First(rows) \in rows
<1>1. rows \subseteq Nat
  BY SchedulerAssumption
<1>2. PICK d \in rows : \A e \in rows : ~(<<e, d>> \in OpToRel(<, Nat))
  BY <1>1, NatLessThanWellFounded, WFMin
<1>3. \A e \in rows : ~(e < d)
  BY <1>1, <1>2 DEF OpToRel
<1>4. \A e \in rows : d <= e
  BY <1>1, <1>3
<1> QED
  BY <1>4 DEF First

-----------------------------------------------------------------------------
(* Ticks that do not move *)

\* A tick that stays is sound as long as nobody touches what it holds.
LEMMA TickStays ==
  ASSUME NEW w \in ScWorkers, NEW t \in Ticks, TickHolds(w, t), TickComputes(t),
         scNow \in Nat, scNow' \in Nat, scNow <= scNow', scRow \in [ScRows -> Definitions],
         scLagged \subseteq scLagged',
         \A d \in ScRows : Taken(t, d) =>
           /\ scRowLock'[d] = scRowLock[d]
           /\ scRow'[d] = scRow[d] /\ scLast'[d] = scLast[d]
  PROVE  TickHolds(w, t)' /\ TickComputes(t)'
<1>1. TickHolds(w, t)'
  BY DEF TickHolds, Taken, Definitions
<1>2. TickComputes(t)'
  BY DEF TickComputes, Taken, Ticks
<1> QED
  BY <1>1, <1>2

\* What a tick holds no other tick holds, and nobody who needs it free.
LEMMA HoldersDiffer ==
  ASSUME ScInv, NEW v \in ScWorkers, NEW d \in ScRows, Taken(scTick[v], d)
  PROVE  scRowLock[d] = v /\ v # "free"
  BY SchedulerAssumption DEF ScInv, TicksAreSound, TickHolds

\* No tick and no definition changes: the requests of users, and time.
LEMMA QuietStep ==
  ASSUME ScInv, ScTypeOK', UNCHANGED <<scRow, scRowLock, scTick, scLast, scTwice, scLagged>>,
         scNow <= scNow'
  PROVE  ScInv'
<1> USE DEF ScInv, ScTypeOK
<1>1. ASSUME NEW v \in ScWorkers PROVE TickHolds(v, scTick[v])' /\ TickComputes(scTick[v])'
  <2>1. TickHolds(v, scTick[v]) /\ TickComputes(scTick[v]) /\ scTick[v] \in Ticks
    BY DEF TicksAreSound
  <2> QED
    BY <2>1 DEF TickHolds, TickComputes, Taken, Ticks, Definitions
<1>2. LastIsPast' /\ ScNextIsOfCron' /\ ScOncePerOccurrence'
  BY DEF LastIsPast, ScNextIsOfCron, ScOncePerOccurrence
<1> QED
  BY <1>1, <1>2 DEF TicksAreSound

\* A transaction that ends frees locks only.
LEMMA UnlockedTypes ==
  ASSUME ScTypeOK, NEW p, Unlocked(p)
  PROVE  /\ scRowLock' \in [ScRows -> ScWorkers \union {"free"}]
         /\ scKeyLock' \in [ScKeys -> ScWorkers \union ScUsers \union {"free"}]
         /\ \A d \in ScRows : scRowLock[d] # p => scRowLock'[d] = scRowLock[d]
  BY DEF ScTypeOK, Unlocked

-----------------------------------------------------------------------------
(* Steps *)

\* No definition is taken at the start.
LEMMA InvAtStart == ScInit => ScInv
<1> SUFFICES ASSUME ScInit PROVE ScInv
  OBVIOUS
<1> USE DEF ScInit
<1>1. ScTypeOK
  BY DEF ScTypeOK, Definitions, Ticks, NoTick, Requests
<1>2. TicksAreSound
  BY DEF TicksAreSound, TickHolds, TickComputes, Taken, NoTick
<1>3. LastIsPast /\ ScNextIsOfCron /\ ScOncePerOccurrence
  BY DEF LastIsPast, ScNextIsOfCron, ScOncePerOccurrence
<1> QED
  BY <1>1, <1>2, <1>3 DEF ScInv

\* A tick takes due definitions that are free, and no occurrence of theirs that
\* was enqueued is later than its clock, unless that lags.
LEMMA TickLockKeeps ==
  ASSUME ScInv, NEW w \in ScWorkers, TickLock(w) PROVE ScInv'
<1> DEFINE due == {d \in ScRows : Due(d) /\ Lockable(d)}
<1>1. PICK lag \in ScLags :
        /\ lag <= scNow
        /\ scTick' = [scTick EXCEPT ![w] = [NoTick EXCEPT !.todo = due, !.clock = scNow - lag]]
        /\ scLagged' = IF lag > 0 THEN scLagged \union due ELSE scLagged
  BY DEF TickLock
<1>2. /\ scRowLock' = [d \in ScRows |-> IF d \in due THEN w ELSE scRowLock[d]]
      /\ UNCHANGED <<scNow, scRow, scActive, scKeyLock, scUser, scLast, scTwice>>
  BY DEF TickLock
<1>3. lag \in Nat /\ scNow \in Nat /\ scNow - lag \in Nat
  BY <1>1, SchedulerAssumption DEF ScInv, ScTypeOK
<1>4. ScTypeOK'
  BY <1>1, <1>2, <1>3 DEF ScInv, ScTypeOK, NoTick, Ticks
<1>5. /\ scTick'[w].todo = due /\ scTick'[w].clock = scNow - lag
      /\ scTick'[w].next = [d \in ScRows |-> 0] /\ scTick'[w].fired = {}
  BY <1>1 DEF ScInv, ScTypeOK, NoTick
<1>6. TickHolds(w, scTick[w])' /\ TickComputes(scTick[w])'
  <2>1. \A d \in ScRows : Taken(scTick[w], d)' => d \in due
    BY <1>5 DEF Taken
  <2>2. ASSUME NEW d \in due
        PROVE  /\ scRowLock'[d] = w /\ scRow'[d].cron # 0 /\ scRow'[d].next <= scNow'
               /\ d \notin scLagged' =>
                    scRow'[d].next <= scTick'[w].clock /\ scLast'[d] <= scTick'[w].clock
    BY <1>1, <1>2, <1>3, <1>5, SchedulerAssumption DEF Due, ScInv, LastIsPast, ScTypeOK
  <2>3. TickComputes(scTick[w])'
    BY <1>5 DEF TickComputes
  <2> QED
    BY <2>1, <2>2, <2>3 DEF TickHolds
<1>7. ASSUME NEW v \in ScWorkers, v # w PROVE TickHolds(v, scTick[v])' /\ TickComputes(scTick[v])'
  <2>1. scTick'[v] = scTick[v] /\ scTick[v] \in Ticks
    BY <1>1, <1>7 DEF ScInv, ScTypeOK
  <2>2. \A d \in ScRows : Taken(scTick[v], d) => scRowLock'[d] = scRowLock[d]
    BY <1>2, HoldersDiffer DEF Lockable
  <2>3. scLagged \subseteq scLagged'
    BY <1>1
  <2>4. TickHolds(v, scTick[v]) /\ TickComputes(scTick[v])
    BY DEF ScInv, TicksAreSound
  <2> QED
    BY <1>2, <1>3, <2>1, <2>2, <2>3, <2>4, TickStays DEF ScInv, ScTypeOK
<1>8. LastIsPast' /\ ScNextIsOfCron' /\ ScOncePerOccurrence'
  BY <1>1, <1>2 DEF ScInv, LastIsPast, ScNextIsOfCron, ScOncePerOccurrence
<1> QED
  BY <1>4, <1>6, <1>7, <1>8 DEF ScInv, TicksAreSound

\* A definition without a next run gets one; another is enqueued unless its key
\* is active.
LEMMA TickRowKeeps ==
  ASSUME ScInv, NEW w \in ScWorkers, TickRow(w) PROVE ScInv'
<1> DEFINE t == scTick[w]
           d == First(t.todo)
           k == ScKeyOf[d]
           next == NextAfter(scRow[d].cron, t.clock)
           enqueue == scRow[d].next # 0 /\ k \notin scActive /\ k \notin t.keys
           fired == IF enqueue THEN t.fired \union {d} ELSE t.fired
           keys == IF enqueue THEN t.keys \union {k} ELSE t.keys
           new == [t EXCEPT !.todo = @ \ {d}, !.next[d] = next,
                            !.fired = IF enqueue THEN @ \union {d} ELSE @,
                            !.keys = IF enqueue THEN @ \union {k} ELSE @]
<1>1. /\ scTick' = [scTick EXCEPT ![w] = new]
      /\ scKeyLock' = IF enqueue THEN [scKeyLock EXCEPT ![k] = w] ELSE scKeyLock
      /\ UNCHANGED <<scNow, scRow, scActive, scRowLock, scUser, scLast, scTwice, scLagged>>
  BY DEF TickRow
<1>2. t \in Ticks /\ TickHolds(w, t) /\ TickComputes(t)
  BY DEF ScInv, ScTypeOK, TicksAreSound
<1>3. d \in t.todo /\ d \in ScRows
  BY <1>2, FirstIsMember DEF TickRow, Ticks
<1>4. scRow[d].cron \in Nat \ {0} /\ t.clock \in Nat
  BY <1>2, <1>3 DEF TickHolds, Taken, Ticks, ScInv, ScTypeOK, Definitions
<1>5. next \in Nat \ {0} /\ next > t.clock /\ next % scRow[d].cron = 0
  BY <1>4, NextAfterIsOccurrence
<1>6. /\ scTick'[w] = new
      /\ \A v \in ScWorkers \ {w} : scTick'[v] = scTick[v]
  BY <1>1 DEF ScInv, ScTypeOK
<1>7. k \in ScKeys /\ fired \subseteq ScRows /\ keys \subseteq ScKeys
  BY <1>2, <1>3 DEF ScKeys, Ticks
<1> HIDE DEF next, enqueue
<1>a. /\ new \in Ticks
      /\ new.todo = t.todo \ {d} /\ new.next = [t.next EXCEPT ![d] = next]
      /\ new.fired = fired /\ new.clock = t.clock
  <2> DEFINE made == [t EXCEPT !.todo = @ \ {d}, !.next[d] = next, !.fired = fired, !.keys = keys]
  <2>1. made = new
    BY <1>2 DEF Ticks
  <2> HIDE DEF fired, keys
  <2>2. /\ made \in Ticks
        /\ made.todo = t.todo \ {d} /\ made.next = [t.next EXCEPT ![d] = next]
        /\ made.fired = fired /\ made.clock = t.clock
    BY <1>2, <1>3, <1>5, <1>7 DEF Ticks
  <2> QED
    BY <2>1, <2>2
<1> HIDE DEF new, fired, keys
<1>8. ScTypeOK'
  <2>1. scTick' \in [ScWorkers -> Ticks]
    BY <1>1, <1>a DEF ScInv, ScTypeOK
  <2>2. scKeyLock' \in [ScKeys -> ScWorkers \union ScUsers \union {"free"}]
    BY <1>1, <1>7 DEF ScInv, ScTypeOK
  <2> QED
    BY <1>1, <2>1, <2>2 DEF ScInv, ScTypeOK
<1>9. TickHolds(w, scTick[w])' /\ TickComputes(scTick[w])'
  <2>1. \A e \in ScRows : new.next[e] = IF e = d THEN next ELSE t.next[e]
    BY <1>2, <1>a DEF Ticks
  <2>2. \A e \in ScRows : Taken(new, e) => Taken(t, e)
    BY <1>3, <1>a, <2>1 DEF Taken
  <2>3. TickHolds(w, scTick[w])'
    BY <1>1, <1>2, <1>6, <1>a, <2>2 DEF TickHolds
  <2>4. \A e \in new.fired : e \in t.fired \/ (e = d /\ scRow[d].next # 0)
    BY <1>a DEF fired, enqueue
  <2>5. TickComputes(scTick[w])'
    BY <1>1, <1>2, <1>3, <1>5, <1>6, <1>a, <2>1, <2>4 DEF TickComputes, Ticks
  <2> QED
    BY <2>3, <2>5
<1>10. ASSUME NEW v \in ScWorkers, v # w PROVE TickHolds(v, scTick[v])' /\ TickComputes(scTick[v])'
  <2>1. scTick'[v] = scTick[v] /\ TickHolds(v, scTick[v]) /\ TickComputes(scTick[v])
    BY <1>6, <1>10 DEF ScInv, TicksAreSound
  <2> QED
    BY <1>1, <2>1 DEF TickHolds, TickComputes, Taken
<1>11. LastIsPast' /\ ScNextIsOfCron' /\ ScOncePerOccurrence'
  BY <1>1 DEF ScInv, LastIsPast, ScNextIsOfCron, ScOncePerOccurrence
<1> QED
  BY <1>8, <1>9, <1>10, <1>11 DEF ScInv, TicksAreSound

\* A commit moves the next runs of what the tick holds, past what it fired.
LEMMA TickCommitKeeps ==
  ASSUME ScInv, NEW w \in ScWorkers, TickCommit(w) PROVE ScInv'
<1> DEFINE t == scTick[w]
<1>1. /\ scRow' = [d \in ScRows |->
           IF t.next[d] # 0 THEN [scRow[d] EXCEPT !.next = t.next[d]] ELSE scRow[d]]
      /\ scActive' = scActive \union t.keys
      /\ scLast' = [d \in ScRows |-> IF d \in t.fired THEN scRow[d].next ELSE scLast[d]]
      /\ scTwice' = scTwice \union {d \in t.fired : scRow[d].next <= scLast[d]}
      /\ Unlocked(w)
      /\ scTick' = [scTick EXCEPT ![w] = NoTick]
      /\ UNCHANGED <<scNow, scUser, scLagged>>
  BY DEF TickCommit
<1>2. t \in Ticks /\ TickHolds(w, t) /\ TickComputes(t)
  BY DEF ScInv, ScTypeOK, TicksAreSound
<1>3. \A d \in ScRows : scRow[d] \in Definitions /\ scLast[d] \in Nat /\ t.next[d] \in Nat
  BY <1>2 DEF ScInv, ScTypeOK, Ticks
<1>4. /\ \A d \in ScRows : /\ scRow'[d] \in Definitions /\ scRow'[d].cron = scRow[d].cron
                           /\ scRow'[d].next = IF t.next[d] # 0 THEN t.next[d] ELSE scRow[d].next
      /\ \A d \in ScRows : scLast'[d] \in Nat
  BY <1>1, <1>3 DEF Definitions
<1>5. ScTypeOK'
  <2>1. t.fired \subseteq ScRows /\ t.keys \subseteq ScKeys /\ NoTick \in Ticks
    BY <1>2 DEF Ticks, NoTick
  <2>2. scTick' \in [ScWorkers -> Ticks] /\ scRow' \in [ScRows -> Definitions]
        /\ scLast' \in [ScRows -> Nat]
    BY <1>1, <1>4, <2>1 DEF ScInv, ScTypeOK
  <2>3. scTwice' \subseteq ScRows /\ scActive' \subseteq ScKeys
    BY <1>1, <2>1 DEF ScInv, ScTypeOK
  <2> QED
    BY <1>1, <2>2, <2>3, UnlockedTypes DEF ScInv, ScTypeOK
<1>6. TickHolds(w, scTick[w])' /\ TickComputes(scTick[w])'
  BY <1>1 DEF TickHolds, TickComputes, Taken, NoTick, ScInv, ScTypeOK
<1>7. ASSUME NEW v \in ScWorkers, v # w PROVE TickHolds(v, scTick[v])' /\ TickComputes(scTick[v])'
  <2>1. /\ scTick'[v] = scTick[v] /\ scTick[v] \in Ticks
        /\ TickHolds(v, scTick[v]) /\ TickComputes(scTick[v])
    BY <1>1, <1>7 DEF ScInv, ScTypeOK, TicksAreSound
  <2>2. ASSUME NEW d \in ScRows, Taken(scTick[v], d)
        PROVE  scRowLock'[d] = scRowLock[d] /\ scRow'[d] = scRow[d] /\ scLast'[d] = scLast[d]
    <3>1. scRowLock[d] = v /\ t.next[d] = 0 /\ d \notin t.fired
      BY <1>2, <1>7, <2>2, HoldersDiffer DEF Taken, TickComputes
    <3> QED
      BY <1>1, <1>7, <3>1, UnlockedTypes DEF ScInv
  <2> QED
    BY <1>1, <2>1, <2>2, TickStays DEF ScInv, ScTypeOK
<1>8. LastIsPast'
  <2> SUFFICES ASSUME NEW d \in ScRows
               PROVE  /\ scLast'[d] <= scNow
                      /\ d \notin scLagged /\ scRow'[d].next # 0 => scLast'[d] < scRow'[d].next
    BY <1>1 DEF LastIsPast
  <2>1. /\ scLast[d] <= scNow
        /\ d \notin scLagged /\ scRow[d].next # 0 => scLast[d] < scRow[d].next
    BY DEF ScInv, LastIsPast
  <2>2. CASE t.next[d] = 0
    <3>1. scLast'[d] = scLast[d] /\ scRow'[d].next = scRow[d].next
      BY <1>1, <1>2, <1>4, <2>2 DEF TickComputes
    <3> QED
      BY <2>1, <3>1
  <2>3. CASE t.next[d] # 0
    <3>1. /\ scRow[d].next <= scNow /\ scRow'[d].next = t.next[d]
          /\ d \notin scLagged => /\ scRow[d].next <= t.clock /\ scLast[d] <= t.clock
                                  /\ t.clock < t.next[d]
      BY <1>2, <1>4, <2>3 DEF TickHolds, TickComputes, Taken
    <3>2. scLast'[d] \in {scRow[d].next, scLast[d]}
      BY <1>1
    <3>3. scNow \in Nat /\ t.clock \in Nat /\ scRow[d].next \in Nat
      BY <1>2, <1>3 DEF ScInv, ScTypeOK, Ticks, Definitions
    <3> QED
      BY <1>3, <2>1, <3>1, <3>2, <3>3
  <2> QED
    BY <2>2, <2>3
<1>9. ScNextIsOfCron'
  <2> SUFFICES ASSUME NEW d \in ScRows, scRow'[d].next # 0
               PROVE  scRow'[d].cron # 0 /\ scRow'[d].next % scRow'[d].cron = 0
    BY DEF ScNextIsOfCron
  <2>1. CASE t.next[d] = 0
    BY <1>4, <2>1 DEF ScInv, ScNextIsOfCron
  <2>2. CASE t.next[d] # 0
    BY <1>2, <1>4, <2>2 DEF TickHolds, TickComputes, Taken
  <2> QED
    BY <2>1, <2>2
<1>10. ScOncePerOccurrence'
  <2>1. ASSUME NEW d \in t.fired, scRow[d].next <= scLast[d] PROVE d \in scLagged
    <3>1. d \in ScRows /\ scRow[d].next # 0 /\ scRow[d].next \in Nat /\ scLast[d] \in Nat
      BY <1>2, <1>3 DEF Ticks, TickComputes, Definitions
    <3> QED
      BY <2>1, <3>1 DEF ScInv, LastIsPast
  <2> QED
    BY <1>1, <2>1 DEF ScInv, ScOncePerOccurrence
<1> QED
  BY <1>5, <1>6, <1>7, <1>8, <1>9, <1>10 DEF ScInv, TicksAreSound

\* A tick that fails, or that the database fails, leaves everything as it was.
LEMMA TickEndsKeeps ==
  ASSUME ScInv, NEW w \in ScWorkers, TickFail(w) \/ BreakTick(w) PROVE ScInv'
<1>1. /\ Unlocked(w) /\ scTick' = [scTick EXCEPT ![w] = NoTick]
      /\ UNCHANGED <<scNow, scRow, scActive, scUser, scLast, scTwice, scLagged>>
  BY DEF TickFail, BreakTick
<1>2. ScTypeOK'
  <2>1. NoTick \in Ticks
    BY DEF NoTick, Ticks
  <2> QED
    BY <1>1, <2>1, UnlockedTypes DEF ScInv, ScTypeOK
<1>3. TickHolds(w, scTick[w])' /\ TickComputes(scTick[w])'
  BY <1>1 DEF TickHolds, TickComputes, Taken, NoTick, ScInv, ScTypeOK
<1>4. ASSUME NEW v \in ScWorkers, v # w PROVE TickHolds(v, scTick[v])' /\ TickComputes(scTick[v])'
  <2>1. /\ scTick'[v] = scTick[v] /\ scTick[v] \in Ticks
        /\ TickHolds(v, scTick[v]) /\ TickComputes(scTick[v])
    BY <1>1, <1>4 DEF ScInv, ScTypeOK, TicksAreSound
  <2>2. \A d \in ScRows : Taken(scTick[v], d) => scRowLock'[d] = scRowLock[d]
    BY <1>1, <1>4, HoldersDiffer, UnlockedTypes DEF ScInv
  <2> QED
    BY <1>1, <2>1, <2>2, TickStays DEF ScInv, ScTypeOK
<1>5. LastIsPast' /\ ScNextIsOfCron' /\ ScOncePerOccurrence'
  BY <1>1 DEF ScInv, LastIsPast, ScNextIsOfCron, ScOncePerOccurrence
<1> QED
  BY <1>2, <1>3, <1>4, <1>5 DEF ScInv, TicksAreSound

\* An edit waits for the definition; what it changes of the cron clears the next
\* run, whatever row it had decided by.
LEMMA UpdateWriteKeeps ==
  ASSUME ScInv, NEW u \in ScUsers, UpdateWrite(u) PROVE ScInv'
<1> DEFINE q == scUser[u]
<1>1. /\ q.pc = "update" /\ scRowLock[q.id] = "free"
      /\ scRow' = [scRow EXCEPT ![q.id] = Updated(scRow[q.id], q)]
      /\ scUser' = [scUser EXCEPT ![u] = NoRequest]
      /\ UNCHANGED <<scNow, scActive, scRowLock, scKeyLock, scTick, scLast, scTwice, scLagged>>
  BY DEF UpdateWrite
<1>2. q \in [pc : {"update"}, id : ScRows, enabled : BOOLEAN, cron : Nat, changed : BOOLEAN]
  BY <1>1 DEF ScInv, ScTypeOK, Requests, NoRequest
<1>3. /\ scRow'[q.id] \in Definitions
      /\ scRow'[q.id].next \in {0, scRow[q.id].next}
      /\ scRow'[q.id].next # 0 => scRow'[q.id].cron = scRow[q.id].cron
      /\ \A d \in ScRows \ {q.id} : scRow'[d] = scRow[d]
  BY <1>1, <1>2 DEF Updated, ScInv, ScTypeOK, Definitions
<1>4. ScTypeOK'
  BY <1>1, <1>2, <1>3 DEF ScInv, ScTypeOK, Requests
<1>5. ASSUME NEW v \in ScWorkers PROVE TickHolds(v, scTick[v])' /\ TickComputes(scTick[v])'
  <2>1. /\ scTick'[v] = scTick[v] /\ scTick[v] \in Ticks
        /\ TickHolds(v, scTick[v]) /\ TickComputes(scTick[v])
    BY <1>1 DEF ScInv, ScTypeOK, TicksAreSound
  <2>2. \A d \in ScRows : Taken(scTick[v], d) => scRow'[d] = scRow[d]
    BY <1>1, <1>3, HoldersDiffer
  <2> QED
    BY <1>1, <2>1, <2>2, TickStays DEF ScInv, ScTypeOK
<1>6. LastIsPast'
  BY <1>1, <1>3 DEF ScInv, LastIsPast
<1>7. ScNextIsOfCron' /\ ScOncePerOccurrence'
  BY <1>1, <1>3 DEF ScInv, ScNextIsOfCron, ScOncePerOccurrence
<1> QED
  BY <1>4, <1>5, <1>6, <1>7 DEF ScInv, TicksAreSound

\* The rest moves no definition and no tick.
LEMMA OthersKeep ==
  ASSUME ScInv,
         \/ \E u \in ScUsers : RunCommit(u) \/ BreakRun(u)
         \/ \E u \in ScUsers, d \in ScRows : RunInsert(u, d)
         \/ \E u \in ScUsers, d \in ScRows, cron \in ScCrons, enabled \in BOOLEAN :
              UpdateRead(u, d, cron, enabled)
         \/ \E k \in ScKeys : JobEnds(k)
         \/ Advance
  PROVE  ScInv'
<1> USE DEF ScInv, ScTypeOK
<1>1. ASSUME NEW u \in ScUsers, RunCommit(u) \/ BreakRun(u) PROVE ScInv'
  <2>1. u \notin ScWorkers /\ u # "free"
    BY SchedulerAssumption
  <2>2. Unlocked(u) /\ UNCHANGED <<scNow, scRow, scTick, scLast, scTwice, scLagged>>
    BY <1>1 DEF RunCommit, BreakRun
  <2>3. scRowLock' = scRowLock
    BY <2>1, <2>2 DEF Unlocked
  <2>4. scActive' \subseteq ScKeys
    BY <1>1 DEF RunCommit, BreakRun, ScKeys, Requests, NoRequest
  <2>5. scUser' \in [ScUsers -> Requests]
    BY <1>1 DEF RunCommit, BreakRun, Requests
  <2> QED
    BY <2>2, <2>3, <2>4, <2>5, UnlockedTypes, QuietStep
<1>2. ASSUME NEW u \in ScUsers, NEW d \in ScRows, RunInsert(u, d) PROVE ScInv'
  <2>1. [pc |-> "link", id |-> d] \in Requests
    BY DEF Requests
  <2>2. ScKeyOf[d] \in ScKeys
    BY DEF ScKeys
  <2> QED
    BY <1>2, <2>1, <2>2, QuietStep DEF RunInsert
<1>3. ASSUME NEW u \in ScUsers, NEW d \in ScRows, NEW cron \in ScCrons, NEW enabled \in BOOLEAN,
             UpdateRead(u, d, cron, enabled)
      PROVE  ScInv'
  <2>1. [pc |-> "update", id |-> d, enabled |-> enabled, cron |-> cron,
         changed |-> cron # scRow[d].cron] \in Requests
    BY SchedulerAssumption DEF Requests
  <2> QED
    BY <1>3, <2>1, QuietStep DEF UpdateRead
<1>4. ASSUME NEW k \in ScKeys, JobEnds(k) PROVE ScInv'
  BY <1>4, QuietStep DEF JobEnds
<1>5. ASSUME Advance PROVE ScInv'
  BY <1>5, QuietStep DEF Advance
<1> QED
  BY <1>1, <1>2, <1>3, <1>4, <1>5

-----------------------------------------------------------------------------
\* The inductive invariant of the scheduler: a tick holds what it goes through,
\* which nobody edits meanwhile, so the next runs it commits lie after everything
\* enqueued so far (scheduler.rs:45-110).
THEOREM SchedulerInductive == ScSpec => []ScInv
<1>1. ASSUME ScInv, [ScNext]_scVars PROVE ScInv'
  <2>1. CASE UNCHANGED scVars
    BY <1>1, <2>1, QuietStep DEF scVars, ScInv, ScTypeOK
  <2>2. CASE ScNext
    BY <1>1, <2>2, TickLockKeeps, TickRowKeeps, TickCommitKeeps, TickEndsKeeps, UpdateWriteKeeps,
       OthersKeep
       DEF ScNext
  <2> QED
    BY <1>1, <2>1, <2>2
<1> QED
  BY InvAtStart, <1>1, PTL DEF ScSpec

\* An occurrence is enqueued once, whatever ticks, edits and failures overlap,
\* unless a worker's clock lagged (scheduler.rs:66 and 74).
THEOREM OccurrencesRunOnce == ScSpec => []ScOncePerOccurrence
<1>1. ScInv => ScOncePerOccurrence
  BY DEF ScInv
<1> QED
  BY <1>1, SchedulerInductive, PTL

\* A next run is an occurrence of the cron next to it
\* (recurring-update.handler.ts:36, jobs.repository.ts:225).
THEOREM NextRunsAreOfCrons == ScSpec => []ScNextIsOfCron
<1>1. ScInv => ScNextIsOfCron
  BY DEF ScInv
<1> QED
  BY <1>1, SchedulerInductive, PTL
=============================================================================
