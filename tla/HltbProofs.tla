----------------------------- MODULE HltbProofs -----------------------------
(***************************************************************************)
(* Proofs about HltbPermit and HltbMapping.                                  *)
(*                                                                           *)
(* The permit: for every set of requests, every length of the lease, the     *)
(* timeout and the pause, and without the bound on the clock.                *)
(*                                                                           *)
(* The mapping: for every set of games, ids, requests and answers, every     *)
(* sequence of updates a refresh may match, and every budget.                *)
(***************************************************************************)
EXTENDS HltbMapping, HltbPermit, FiniteSetTheorems, WellFoundedInduction, TLAPS

(* The permit *)

States == {"new", "waiting", "permitted", "calling", "answered", "released", "over", "dead"}

PmTypeOK ==
  /\ pmNow \in Nat
  /\ pmOwner \in PmOwners \union {"free"}
  /\ pmUntil \in Nat /\ pmNext \in Nat /\ pmCooldown \in Nat
  /\ pmPc \in [PmOwners -> States]
  /\ pmGot \in [PmOwners -> Int]
  /\ pmBegan \in [PmOwners -> Nat]
  /\ pmRetry \in [PmOwners -> Nat]

\* A permit in use is the row's lease, or its lease has run out.
LeaseOrLate ==
  \A o \in PmOwners : pmPc[o] \in {"permitted", "calling", "answered"} =>
    \/ pmOwner = o /\ pmUntil = pmGot[o] + PmLease
    \/ pmNow >= pmGot[o] + PmLease

\* A call is not older than its timeout.
CallsAreTimed ==
  \A o \in PmOwners : pmPc[o] = "calling" => pmNow <= pmBegan[o] + PmTimeout

\* The row's pause covers every permit that was given.
PauseCovers == \A o \in PmOwners : pmGot[o] + PmSpacing <= pmNext

\* The row's cooldown covers every answer that was recorded.
CooldownCovers ==
  \A o \in PmOwners :
    /\ pmPc[o] = "new" => pmRetry[o] = 0
    /\ pmPc[o] \in {"released", "over"} => pmRetry[o] <= pmCooldown \/ pmRetry[o] <= pmNow

PmInv == PmTypeOK /\ LeaseOrLate /\ CallsAreTimed /\ PauseCovers /\ CooldownCovers

Step(o) ==
  \/ Acquire(o) \/ Refused(o) \/ Begin(o) \/ ReleasePermit(o) \/ Dies(o)
  \/ \E wait \in PmCooldowns : Answer(o, wait) \/ Defer(o, wait)

----------------------------------------------------------------------------
\* The invariant holds at the start: nobody has a permit.
LEMMA InvAtStart == PmInit => PmInv
  BY PermitAssumption
     DEF PmInit, PmInv, PmTypeOK, LeaseOrLate, CallsAreTimed, PauseCovers, CooldownCovers, States

\* A step is one of a request, or time passing.
LEMMA StepsAreOfRequests == PmNext <=> (\E o \in PmOwners : Step(o)) \/ PmTick
  BY DEF PmNext, Step

\* A permit is given when the lease before has ended, and moves the pause.
LEMMA AcquireKeeps ==
  ASSUME PmInv, NEW o \in PmOwners, Acquire(o) PROVE PmInv'
<1> USE PermitAssumption DEF PmInv, PmTypeOK, States, Acquire, Becomes
<1>1. PmTypeOK'
  OBVIOUS
<1>2. LeaseOrLate'
  <2>1. \A p \in PmOwners : pmPc[p] \in {"permitted", "calling", "answered"} =>
          pmNow >= pmGot[p] + PmLease
    BY DEF LeaseOrLate, Available
  <2> QED BY <2>1 DEF LeaseOrLate
<1>3. CallsAreTimed'
  BY DEF CallsAreTimed
<1>4. PauseCovers'
  BY DEF PauseCovers, Available
<1>5. CooldownCovers'
  BY DEF CooldownCovers
<1> QED BY <1>1, <1>2, <1>3, <1>4, <1>5

\* A refusal that ends a request has nothing left to wait for.
LEMMA RefusedKeeps ==
  ASSUME PmInv, NEW o \in PmOwners, Refused(o) PROVE PmInv'
<1> USE PermitAssumption DEF PmInv, PmTypeOK, States, Refused, Becomes
<1>1. RetryAt \in Nat
  BY DEF RetryAt, Latest
<1>2. /\ PmTypeOK'
      /\ pmRow' = pmRow /\ pmNow' = pmNow /\ pmGot' = pmGot /\ pmBegan' = pmBegan
      /\ pmPc'[o] \in {"waiting", "over"}
      /\ \A p \in PmOwners \ {o} : pmPc'[p] = pmPc[p] /\ pmRetry'[p] = pmRetry[p]
  BY <1>1 DEF pmRow
<1>3. pmPc'[o] = "over" => pmRetry'[o] <= pmNow
  BY DEF Asks, CooldownCovers
<1> QED BY <1>2, <1>3 DEF LeaseOrLate, CallsAreTimed, PauseCovers, CooldownCovers, pmRow

\* The begin of a call, an answer and a death leave the row alone.
LEMMA CallKeeps ==
  ASSUME PmInv, NEW o \in PmOwners,
         Begin(o) \/ Dies(o) \/ \E wait \in PmCooldowns : Answer(o, wait)
  PROVE PmInv'
  BY PermitAssumption
     DEF PmInv, PmTypeOK, States, Begin, Dies, Answer, Becomes, pmRow,
         LeaseOrLate, CallsAreTimed, PauseCovers, CooldownCovers

\* A release ends the request's own lease at most, and extends the cooldown.
LEMMA ReleaseKeeps ==
  ASSUME PmInv, NEW o \in PmOwners,
         ReleasePermit(o) \/ \E wait \in PmCooldowns : Defer(o, wait)
  PROVE PmInv'
<1> USE PermitAssumption DEF PmInv, PmTypeOK, States, ReleasePermit, Defer, Becomes
<1>1. /\ PmTypeOK'
      /\ pmCooldown' >= pmCooldown /\ pmCooldown' >= pmRetry'[o]
  BY DEF Returns, Extended, Latest
<1>2. /\ pmNow' = pmNow /\ pmNext' = pmNext /\ pmGot' = pmGot /\ pmBegan' = pmBegan
      /\ pmPc'[o] \in {"released", "over"}
      /\ \A p \in PmOwners \ {o} : pmPc'[p] = pmPc[p] /\ pmRetry'[p] = pmRetry[p]
  OBVIOUS
<1>3. pmOwner # o => pmOwner' = pmOwner /\ pmUntil' = pmUntil
  BY DEF Returns
<1>4. LeaseOrLate'
  BY <1>2, <1>3 DEF LeaseOrLate
<1>5. CallsAreTimed' /\ PauseCovers'
  BY <1>2 DEF CallsAreTimed, PauseCovers
<1>6. CooldownCovers'
  BY <1>1, <1>2 DEF CooldownCovers
<1> QED BY <1>1, <1>4, <1>5, <1>6

\* Time does not pass over the timeout of a call.
LEMMA TickKeeps == ASSUME PmInv, PmTick PROVE PmInv'
  BY PermitAssumption
     DEF PmInv, PmTypeOK, LeaseOrLate, CallsAreTimed, PauseCovers, CooldownCovers, PmTick, pmRow

----------------------------------------------------------------------------
\* The inductive invariant of the permit: a permit in use is the lease of the row
\* or has outlived it, and the row's pause and cooldown cover what they must.
THEOREM PermitInductive == PmSpec => []PmInv
<1>1. ASSUME PmInv, [PmNext]_pmVars PROVE PmInv'
  <2>1. CASE UNCHANGED pmVars
    BY <1>1, <2>1
       DEF pmVars, pmRow, PmInv, PmTypeOK, LeaseOrLate, CallsAreTimed, PauseCovers, CooldownCovers
  <2>2. CASE PmNext
    BY <1>1, <2>2, StepsAreOfRequests, AcquireKeeps, RefusedKeeps, CallKeeps, ReleaseKeeps, TickKeeps
       DEF Step
  <2> QED BY <1>1, <2>1, <2>2
<1> QED BY InvAtStart, <1>1, PTL DEF PmSpec

\* Two calls at once: one of them began so late that its lease could run out
\* (hltb.repository.ts:101-109).
THEOREM PermitIsExclusive == PmSpec => []PmExclusive
<1>1. PmInv => PmExclusive
  <2> SUFFICES ASSUME PmInv, NEW o \in PmOwners, NEW p \in PmOwners, o # p,
                      pmPc[o] = "calling", pmPc[p] = "calling"
               PROVE  \E q \in {o, p} : pmBegan[q] - pmGot[q] >= PmLease - PmTimeout
    BY DEF PmExclusive
  <2> USE PermitAssumption DEF PmInv, PmTypeOK
  <2>1. PICK q \in {o, p} : pmNow >= pmGot[q] + PmLease
    BY DEF LeaseOrLate
  <2>2. pmNow <= pmBegan[q] + PmTimeout
    BY DEF CallsAreTimed
  <2> QED BY <2>1, <2>2
<1> QED BY <1>1, PermitInductive, PTL

\* A permit is given after every pause and every recorded cooldown
\* (hltb.repository.ts:91-96 and 107).
THEOREM PermitIsPolite == PmSpec => PmPolite
<1>1. ASSUME PmInv, PmNext, NEW o \in PmOwners, NEW p \in PmOwners,
             pmPc[o] # "permitted", pmPc'[o] = "permitted"
      PROVE  /\ pmNow >= pmGot[p] + PmSpacing
             /\ pmPc[p] \in {"released", "over"} => pmNow >= pmRetry[p]
  <2> USE <1>1, PermitAssumption DEF PmInv, PmTypeOK
  <2>1. PICK q \in PmOwners : Step(q)
    BY StepsAreOfRequests DEF PmTick
  <2>2. Acquire(q)
    BY <2>1 DEF Step, Becomes, Refused, Begin, ReleasePermit, Dies, Answer, Defer
  <2> QED BY <2>2 DEF Acquire, Available, PauseCovers, CooldownCovers
<1>2. PmInv /\ [PmNext]_pmVars =>
        [\A o, p \in PmOwners : pmPc[o] # "permitted" /\ pmPc'[o] = "permitted" =>
           /\ pmNow >= pmGot[p] + PmSpacing
           /\ pmPc[p] \in {"released", "over"} => pmNow >= pmRetry[p]]_pmVars
  BY <1>1
<1> QED BY <1>2, PermitInductive, PTL DEF PmSpec, PmPolite

-----------------------------------------------------------------------------
(* The mapping: its inductive invariant *)

Snapshots == [edits : Nat, hours : Nat, applied : Nat]
Applying == {"lockId", "readGame", "lockRow", "write"}
Syncing == {"read", "import", "clear"}

HlTypeOK ==
  /\ hlRow \in [HlGames -> Snapshots] /\ hlDoc \in [HlGames -> Snapshots]
  /\ hlMap \in [HlGames -> [id : Nat, manual : BOOLEAN, counts : Nat]]
  /\ hlBg.pc \in {"idle", "lock"} /\ {"pc", "updates", "runs"} \subseteq DOMAIN hlBg
  /\ hlBg.updates \in Seq(HlGames \X HlIds)
  /\ hlRegressed \subseteq HlGames
  /\ \A s \in hlShown : s.game \in HlGames /\ s.ids \subseteq HlIds

\* The version a receipt owes to the search is the latest apply's.
ReceiptsAreSound ==
  /\ DOMAIN hlReceipt = HlGames
  /\ \A g \in HlGames :
       /\ {"rid", "version", "ids", "live", "pending", "sync"} \subseteq DOMAIN hlReceipt[g]
       /\ hlReceipt[g].ids \subseteq HlIds
       /\ hlReceipt[g].sync = hlRow[g].applied

\* A request that applies: somebody was shown what it is to write.
ApplyIsSound(q) ==
  /\ {"pc", "game", "rid", "version", "id", "seen"} \subseteq DOMAIN q
  /\ q.game \in HlGames /\ q.id \in HlIds
  /\ \E s \in hlShown : s.game = q.game /\ s.version = q.version /\ q.id \in s.ids

\* A request that brings a saved version to the search document.
SyncIsSound(q) ==
  /\ {"pc", "game", "sync"} \subseteq DOMAIN q
  /\ q.game \in HlGames /\ q.sync \in Nat /\ q.sync <= hlRow[q.game].applied

\* What it read is as new as the version, and as any version whose flag is cleared.
ImportIsSound(q) ==
  /\ q.row \in Snapshots /\ q.sync <= q.row.applied
  /\ ~hlReceipt[q.game].pending => hlReceipt[q.game].sync <= q.row.applied

RequestIsSound(q) ==
  \/ q.pc = "idle"
  \/ q.pc = "save" /\ q.game \in HlGames /\ q.ids \subseteq HlIds
  \/ q.pc \in Applying /\ ApplyIsSound(q)
  \/ q.pc \in {"search", "read"} /\ SyncIsSound(q)
  \/ q.pc = "import" /\ SyncIsSound(q) /\ ImportIsSound(q)
  \/ /\ q.pc = "clear" /\ SyncIsSound(q)
     /\ q.game \in hlRegressed \/ q.sync <= hlDoc[q.game].applied
  \/ q.pc = "editRead" /\ q.game \in HlGames
  \/ q.pc = "editIndex" /\ q.game \in HlGames /\ q.row \in Snapshots

RequestsAreSound == DOMAIN hlReq = HlReqs /\ \A r \in HlReqs : RequestIsSound(hlReq[r])

\* The bindings: no id twice, counts of the bound id, and a manual one is one.
BindingsAreSound(map) ==
  \A g \in HlGames :
    /\ map[g].counts \in {0, map[g].id}
    /\ map[g].id # 0 => \A o \in HlGames \ {g} : map[o].id # map[g].id
    /\ map[g].manual => map[g].id # 0

\* The locks a request in state q may hold.
HeldBy(q, l) ==
  \/ q.pc \in {"readGame", "lockRow", "write"} /\ l = <<"id", q.id>>
  \/ q.pc = "write" /\ l = <<"row", q.game>>
  \/ q.pc \in Syncing /\ l = <<"search", q.game>>

LocksAreHeld ==
  /\ hlLock \in [Locks -> HlReqs \union {"bg", "free"}]
  /\ \A r \in HlReqs, l \in Locks : hlLock[l] = r => HeldBy(hlReq[r], l)
  /\ \A r \in HlReqs : hlReq[r].pc \in Syncing => hlLock[<<"search", hlReq[r].game>>] = r

\* The refresh takes every id before any row.
RefreshIsOrdered ==
  \A l \in Held("bg") : /\ hlBg.pc = "lock"
                        /\ l \in BgIds \/ (l \in ScoredRows /\ BgIds \subseteq Held("bg"))

HlInv ==
  /\ HlTypeOK /\ ReceiptsAreSound /\ RequestsAreSound /\ BindingsAreSound(hlMap)
  /\ LocksAreHeld /\ RefreshIsOrdered /\ HlSyncedMeansIndexed

-----------------------------------------------------------------------------
(* Nobody waits in a circle *)

LEMMA LeastExists ==
  ASSUME NEW S \in SUBSET Nat, S # {}
  PROVE  \E n \in S : \A m \in S : n <= m
<1>1. PICK n \in S : \A m \in S : ~(<<m, n>> \in OpToRel(<, Nat))
  BY NatLessThanWellFounded, WFMin
<1>2. \A m \in S : ~(m < n)
  BY <1>1 DEF OpToRel
<1> QED
  BY <1>2

\* Of numbered locks there is a lowest.
LEMMA LowestIsMember ==
  ASSUME NEW locks \in SUBSET Locks, locks # {}
  PROVE  Lowest(locks) \in locks
<1>1. \A l \in Locks : l[2] \in Nat
  BY HltbAssumption DEF Locks
<1>2. PICK n \in {l[2] : l \in locks} : \A m \in {l[2] : l \in locks} : n <= m
  <2>1. {l[2] : l \in locks} \in SUBSET Nat /\ {l[2] : l \in locks} # {}
    BY <1>1
  <2> QED
    BY <2>1, LeastExists
<1>3. PICK l \in locks : l[2] = n
  OBVIOUS
<1>4. \A m \in locks : l[2] <= m[2]
  BY <1>2, <1>3
<1> QED
  BY <1>4 DEF Lowest

LEMMA UpdatesAreTyped ==
  ASSUME HlTypeOK
  PROVE  /\ \A u \in ToSet(hlBg.updates) : u \in HlGames \X HlIds
         /\ BgIds \subseteq Locks /\ BgRows \subseteq ScoredRows /\ ScoredRows \subseteq Locks
<1>1. \A u \in ToSet(hlBg.updates) : u \in HlGames \X HlIds
  BY DEF HlTypeOK, ToSet
<1> QED
  BY <1>1 DEF BgIds, BgRows, ScoredRows, Locks

\* What the refresh asks for: an id while it misses one, then rows.
LEMMA RefreshWants ==
  ASSUME HlTypeOK
  PROVE  \A l \in BgWanted :
           /\ l \in Locks \ Held("bg")
           /\ l \in BgIds \/ (l \in ScoredRows /\ BgIds \subseteq Held("bg"))
<1>1. BgIds \subseteq Locks /\ BgRows \subseteq ScoredRows /\ ScoredRows \subseteq Locks
  BY UpdatesAreTyped
<1>2. BgIds \ Held("bg") # {} => Lowest(BgIds \ Held("bg")) \in BgIds \ Held("bg")
  BY <1>1, LowestIsMember
<1>3. BgRows \ Held("bg") # {} => Lowest(BgRows \ Held("bg")) \in BgRows \ Held("bg")
  BY <1>1, LowestIsMember
<1> QED
  BY <1>1, <1>2, <1>3 DEF BgWanted

\* Who holds a lock does not wait, but for the holder of an id: that is the
\* refresh, or a request that waits for its row.
LEMMA HoldersOfRows ==
  ASSUME HlInv, NEW p \in HlReqs, NEW l \in Locks, hlLock[l] = p, l[1] \in {"row", "search"}
  PROVE  WaitsFor(p) = {}
<1>1. HeldBy(hlReq[p], l)
  BY DEF HlInv, LocksAreHeld
<1>2. hlReq[p].pc \in {"write"} \union Syncing
  BY <1>1 DEF HeldBy
<1> QED
  BY <1>2, HltbAssumption DEF WaitsFor, Syncing

LEMMA HoldersOfIds ==
  ASSUME HlInv, NEW p \in HlReqs, NEW l \in Locks, hlLock[l] = p, l[1] = "id"
  PROVE  hlReq[p].pc \in {"readGame", "lockRow", "write"}
<1>1. HeldBy(hlReq[p], l)
  BY DEF HlInv, LocksAreHeld
<1> QED
  BY <1>1 DEF HeldBy

\* The refresh waits for holders of rows once it has its ids.
LEMMA RefreshWaits ==
  ASSUME HlInv, NEW p \in WaitsFor("bg")
  PROVE  /\ hlBg.pc = "lock" /\ p \in HlReqs
         /\ \/ WaitsFor(p) = {}
            \/ ~(BgIds \subseteq Held("bg")) /\ hlReq[p].pc = "lockRow"
<1>1. PICK l \in BgWanted : hlBg.pc = "lock" /\ p = hlLock[l] /\ p # "free"
  BY DEF WaitsFor
<1>2. l \in Locks \ Held("bg") /\ (l \in BgIds \/ (l \in ScoredRows /\ BgIds \subseteq Held("bg")))
  BY RefreshWants DEF HlInv
<1>3. p \in HlReqs
  BY <1>1, <1>2 DEF HlInv, LocksAreHeld, Held
<1>4. CASE l \in BgIds
  <2>1. l[1] = "id" /\ ~(BgIds \subseteq Held("bg"))
    BY <1>2, <1>4 DEF BgIds
  <2>2. hlReq[p].pc \in {"readGame", "lockRow", "write"}
    BY <1>1, <1>2, <1>3, <2>1, HoldersOfIds
  <2>3. hlReq[p].pc # "lockRow" => WaitsFor(p) = {}
    BY <1>3, <2>2, HltbAssumption DEF WaitsFor
  <2> QED
    BY <1>1, <1>3, <2>1, <2>2, <2>3
<1>5. CASE l \in ScoredRows
  <2>1. l[1] = "row"
    BY <1>5 DEF ScoredRows
  <2> QED
    BY <1>1, <1>2, <1>3, <2>1, HoldersOfRows
<1> QED
  BY <1>2, <1>4, <1>5

\* A request waits for one holder: that of the lock it wants.
LEMMA RequestWaits ==
  ASSUME HlInv, NEW q \in HlReqs, NEW p \in WaitsFor(q)
  PROVE  /\ p \in HlReqs \union {"bg"}
         /\ \/ hlReq[q].pc = "lockId" /\ (p # "bg" => hlReq[p].pc # "lockId")
            \/ hlReq[q].pc = "lockRow" /\ (p = "bg" => BgIds \subseteq Held("bg"))
                                       /\ (p # "bg" => WaitsFor(p) = {})
            \/ hlReq[q].pc = "search" /\ p # "bg" /\ WaitsFor(p) = {}
<1> DEFINE l == Wanted(hlReq[q])
<1>1. q # "bg"
  BY HltbAssumption
<1>2. hlReq[q].pc \in {"lockId", "lockRow", "search"} /\ p = hlLock[l] /\ p # "free"
  BY <1>1 DEF WaitsFor
<1>3. RequestIsSound(hlReq[q])
  BY DEF HlInv, RequestsAreSound
<1>4. CASE hlReq[q].pc = "lockId"
  <2>1. l = <<"id", hlReq[q].id>> /\ l \in Locks /\ l[1] = "id"
    BY <1>3, <1>4 DEF RequestIsSound, ApplyIsSound, Applying, Wanted, Locks
  <2>2. p \in HlReqs \union {"bg"}
    BY <1>2, <2>1 DEF HlInv, LocksAreHeld
  <2> QED
    BY <1>2, <1>4, <2>1, <2>2, HoldersOfIds
<1>5. CASE hlReq[q].pc = "lockRow"
  <2>1. l = <<"row", hlReq[q].game>> /\ l \in Locks /\ l[1] = "row"
    BY <1>3, <1>5 DEF RequestIsSound, ApplyIsSound, Applying, Wanted, Locks
  <2>2. p \in HlReqs \union {"bg"}
    BY <1>2, <2>1 DEF HlInv, LocksAreHeld
  <2>3. p = "bg" => BgIds \subseteq Held("bg")
    BY <1>2, <2>1 DEF HlInv, RefreshIsOrdered, Held, BgIds
  <2> QED
    BY <1>2, <1>5, <2>1, <2>2, <2>3, HoldersOfRows
<1>6. CASE hlReq[q].pc = "search"
  <2>1. l = <<"search", hlReq[q].game>> /\ l \in Locks /\ l[1] = "search"
    BY <1>3, <1>6 DEF RequestIsSound, SyncIsSound, Applying, Wanted, Locks
  <2>2. p \in HlReqs \union {"bg"}
    BY <1>2, <2>1 DEF HlInv, LocksAreHeld
  <2>3. p # "bg"
    BY <1>2, <2>1 DEF HlInv, RefreshIsOrdered, Held, BgIds, ScoredRows
  <2> QED
    BY <1>2, <1>6, <2>1, <2>2, <2>3, HoldersOfRows
<1> QED
  BY <1>2, <1>4, <1>5, <1>6

\* Rows and searches are waited for only until their holder is done; who waits
\* for an id waits for somebody who does not wait for ids.
LEMMA NoCircle ==
  ASSUME HlInv
  PROVE  HlNoLockCycle
<1> SUFFICES ASSUME NEW waiting \in SUBSET (HlReqs \union {"bg"}), waiting # {},
                    \A p \in waiting : WaitsFor(p) \cap waiting # {}
             PROVE  FALSE
  BY DEF HlNoLockCycle
<1>1. ASSUME "bg" \in waiting, BgIds \subseteq Held("bg")
      PROVE  FALSE
  <2>1. PICK p \in waiting : p \in WaitsFor("bg")
    BY <1>1
  <2>2. WaitsFor(p) = {}
    BY <1>1, <2>1, RefreshWaits
  <2> QED
    BY <2>1, <2>2
<1>2. ASSUME NEW q \in waiting, q \in HlReqs
      PROVE  hlReq[q].pc = "lockId"
  <2>1. PICK p \in waiting : p \in WaitsFor(q)
    OBVIOUS
  <2>2. WaitsFor(p) # {}
    OBVIOUS
  <2> QED
    BY <1>1, <1>2, <2>1, <2>2, RequestWaits
<1>3. ASSUME "bg" \in waiting
      PROVE  FALSE
  <2>1. PICK p \in waiting : p \in WaitsFor("bg")
    BY <1>3
  <2>2. WaitsFor(p) # {}
    OBVIOUS
  <2>3. p \in HlReqs /\ hlReq[p].pc = "lockRow"
    BY <2>1, <2>2, RefreshWaits
  <2> QED
    BY <1>2, <2>3
<1>4. PICK q \in waiting : q \in HlReqs
  BY <1>3
<1>5. PICK p \in waiting : p \in WaitsFor(q)
  OBVIOUS
<1>6. p \in HlReqs /\ p # "bg"
  BY <1>3
<1>7. hlReq[p].pc # "lockId" \/ WaitsFor(p) = {}
  BY <1>4, <1>5, <1>6, RequestWaits
<1> QED
  BY <1>2, <1>5, <1>6, <1>7

-----------------------------------------------------------------------------
(* The requests that do not move *)

\* Applied versions, what was shown and what was overwritten only grow.
Grows ==
  /\ hlShown \subseteq hlShown' /\ hlRegressed \subseteq hlRegressed'
  /\ \A g \in HlGames : /\ hlRow[g].applied \in Nat /\ hlRow'[g].applied \in Nat
                        /\ hlRow[g].applied <= hlRow'[g].applied

\* What a request in the middle of a search update relies on.
Undisturbed(q) ==
  /\ q.pc = "import" /\ ~hlReceipt'[q.game].pending =>
       ~hlReceipt[q.game].pending /\ hlReceipt'[q.game].sync = hlReceipt[q.game].sync
  /\ q.pc = "clear" => \/ q.game \in hlRegressed'
                       \/ \A n \in Nat : n <= hlDoc[q.game].applied => n <= hlDoc'[q.game].applied

LEMMA RequestStays ==
  ASSUME Grows, NEW q, RequestIsSound(q), Undisturbed(q)
  PROVE  RequestIsSound(q)'
<1>1. ApplyIsSound(q) => ApplyIsSound(q)'
  BY DEF ApplyIsSound, Grows
<1>2. SyncIsSound(q) => SyncIsSound(q)'
  BY DEF SyncIsSound, Grows
<1>3. q.pc = "import" /\ ImportIsSound(q) => ImportIsSound(q)'
  BY DEF ImportIsSound, Undisturbed
<1>4. q.pc = "clear" /\ SyncIsSound(q)
        /\ (q.game \in hlRegressed \/ q.sync <= hlDoc[q.game].applied)
        => (q.game \in hlRegressed' \/ q.sync <= hlDoc'[q.game].applied)
  BY DEF Undisturbed, Grows, SyncIsSound
<1> QED
  BY <1>1, <1>2, <1>3, <1>4 DEF RequestIsSound, Applying

\* A step of request r.
LEMMA OthersStay ==
  ASSUME HlInv, Grows, NEW r \in HlReqs, DOMAIN hlReq' = HlReqs,
         \A s \in HlReqs \ {r} : hlReq'[s] = hlReq[s] /\ Undisturbed(hlReq[s]),
         RequestIsSound(hlReq[r])'
  PROVE  RequestsAreSound'
<1>1. ASSUME NEW s \in HlReqs \ {r}
      PROVE  RequestIsSound(hlReq[s])'
  <2>1. PICK q : q = hlReq[s]
    OBVIOUS
  <2>2. RequestIsSound(q) /\ Undisturbed(q)
    BY <2>1 DEF HlInv, RequestsAreSound
  <2>3. RequestIsSound(q)'
    BY <2>2, RequestStays
  <2>4. hlReq'[s] = q
    BY <2>1
  <2> QED
    BY <2>3, <2>4 DEF RequestIsSound, ApplyIsSound, SyncIsSound, ImportIsSound
<1> QED
  BY <1>1 DEF RequestsAreSound

LEMMA AllStay ==
  ASSUME HlInv, Grows, hlReq' = hlReq, \A s \in HlReqs : Undisturbed(hlReq[s])
  PROVE  RequestsAreSound'
<1>1. ASSUME NEW s \in HlReqs
      PROVE  RequestIsSound(hlReq[s])'
  <2>1. PICK q : q = hlReq[s]
    OBVIOUS
  <2>2. RequestIsSound(q) /\ Undisturbed(q)
    BY <2>1 DEF HlInv, RequestsAreSound
  <2>3. RequestIsSound(q)'
    BY <2>2, RequestStays
  <2> QED
    BY <2>1, <2>3 DEF RequestIsSound, ApplyIsSound, SyncIsSound, ImportIsSound
<1> QED
  BY <1>1 DEF HlInv, RequestsAreSound

\* The games whose rows a step leaves alone.
LEMMA RowsGrow ==
  ASSUME HlTypeOK, hlShown \subseteq hlShown', hlRegressed \subseteq hlRegressed', hlRow' = hlRow
  PROVE  Grows
BY DEF Grows, HlTypeOK, Snapshots

\* Locks: a request that moves keeps what it may hold.
LEMMA LocksStay ==
  ASSUME HlInv, hlLock' = hlLock, NEW r \in HlReqs, DOMAIN hlReq' = HlReqs,
         \A s \in HlReqs \ {r} : hlReq'[s] = hlReq[s],
         \A l \in Locks : HeldBy(hlReq[r], l) => HeldBy(hlReq'[r], l),
         hlReq'[r].pc \in Syncing => hlReq[r].pc \in Syncing /\ hlReq'[r].game = hlReq[r].game
  PROVE  LocksAreHeld'
<1> USE DEF HlInv, LocksAreHeld
<1>1. ASSUME NEW s \in HlReqs, NEW l \in Locks, hlLock'[l] = s
      PROVE  HeldBy(hlReq'[s], l)
  BY <1>1
<1>2. ASSUME NEW s \in HlReqs, hlReq'[s].pc \in Syncing
      PROVE  hlLock'[<<"search", hlReq'[s].game>>] = s
  BY <1>2
<1>3. \A q, l : HeldBy(q, l)' <=> HeldBy(q, l)
  BY DEF HeldBy
<1> QED
  BY <1>1, <1>2, <1>3 DEF HeldBy

LEMMA RefreshStays ==
  ASSUME HlInv, hlBg' = hlBg, \A l \in Locks : hlLock'[l] = "bg" <=> hlLock[l] = "bg"
  PROVE  RefreshIsOrdered'
<1>1. Held("bg")' = Held("bg") /\ BgIds' = BgIds /\ BgRows' = BgRows
  BY DEF Held, BgIds, BgRows
<1> QED
  BY <1>1 DEF HlInv, RefreshIsOrdered

\* A step of a request that writes no table, takes no lock and releases none.
LEMMA QuietStep ==
  ASSUME HlInv, UNCHANGED <<hlRow, hlMap, hlBg, hlLock, hlDoc, hlRegressed>>,
         ReceiptsAreSound', \A g \in HlGames : hlReceipt'[g].pending = hlReceipt[g].pending,
         hlShown \subseteq hlShown',
         \A s \in hlShown' : s.game \in HlGames /\ s.ids \subseteq HlIds,
         NEW r \in HlReqs, DOMAIN hlReq' = HlReqs,
         \A s \in HlReqs \ {r} : hlReq'[s] = hlReq[s],
         RequestIsSound(hlReq[r])',
         \A l \in Locks : HeldBy(hlReq[r], l) => HeldBy(hlReq'[r], l),
         hlReq'[r].pc \in Syncing => hlReq[r].pc \in Syncing /\ hlReq'[r].game = hlReq[r].game
  PROVE  HlInv'
<1>1. HlTypeOK'
  BY DEF HlInv, HlTypeOK
<1>2. BindingsAreSound(hlMap)'
  BY DEF HlInv, BindingsAreSound
<1>3. \A g \in HlGames : hlReceipt'[g].sync = hlReceipt[g].sync
  BY DEF HlInv, ReceiptsAreSound
<1>4. RequestsAreSound'
  <2>1. Grows
    BY RowsGrow DEF HlInv
  <2>2. \A s \in HlReqs \ {r} : Undisturbed(hlReq[s])
    <3>1. \A s \in HlReqs : hlReq[s].pc \in Syncing => hlReq[s].game \in HlGames
      BY DEF HlInv, RequestsAreSound, RequestIsSound, SyncIsSound, Syncing, Applying
    <3> QED
      BY <1>3, <3>1 DEF Undisturbed, Syncing
  <2> QED
    BY <2>1, <2>2, OthersStay
<1>5. LocksAreHeld'
  BY LocksStay
<1>6. RefreshIsOrdered'
  BY RefreshStays
<1>7. HlSyncedMeansIndexed'
  BY <1>3 DEF HlInv, HlSyncedMeansIndexed
<1> QED
  BY <1>1, <1>2, <1>4, <1>5, <1>6, <1>7 DEF HlInv

-----------------------------------------------------------------------------
(* The steps of a request *)

\* What a request becomes, and that nobody else moves.
LEMMA RequestMoves ==
  ASSUME HlInv, NEW r \in HlReqs, NEW state, hlReq' = [hlReq EXCEPT ![r] = state]
  PROVE  /\ hlReq'[r] = state /\ DOMAIN hlReq' = HlReqs
         /\ \A s \in HlReqs \ {r} : hlReq'[s] = hlReq[s]
BY DEF HlInv, RequestsAreSound

LEMMA LookupStartKeeps ==
  ASSUME HlInv, NEW r \in HlReqs, NEW g \in HlGames, LookupStart(r, g)
  PROVE  HlInv'
<1>1. hlReq[r].pc = "idle"
      /\ UNCHANGED <<hlRow, hlMap, hlReceipt, hlBg, hlLock, hlDoc, hlRegressed, hlBudget>>
  BY DEF LookupStart
<1>2. ReceiptsAreSound' /\ \A h \in HlGames : hlReceipt[h].ids \subseteq HlIds
  BY <1>1 DEF HlInv, ReceiptsAreSound
<1>3. \A l \in Locks : ~HeldBy(hlReq[r], l)
  BY <1>1 DEF HeldBy, Syncing
<1>4. CASE /\ hlShown' = hlShown \union {Result([pc |-> "save", game |-> g, version |-> GameVersion(g)],
                                                hlReceipt[g])}
           /\ hlReq' = hlReq
  <2>1. \A s \in hlShown' : s.game \in HlGames /\ s.ids \subseteq HlIds
    BY <1>2, <1>4 DEF HlInv, HlTypeOK, Result
  <2>2. RequestIsSound(hlReq[r])'
    BY <1>1, <1>4 DEF RequestIsSound
  <2> QED
    BY <1>1, <1>2, <1>4, <2>1, <2>2, QuietStep DEF HlInv, RequestsAreSound
<1>5. ASSUME NEW ids \in HlAnswers \union {hlReceipt[g].ids},
             hlReq' = [hlReq EXCEPT ![r] =
               [pc |-> "save", game |-> g, version |-> GameVersion(g), ids |-> ids]],
             hlShown' = hlShown
      PROVE  HlInv'
  <2>1. PICK state :
          state = [pc |-> "save", game |-> g, version |-> GameVersion(g), ids |-> ids]
    OBVIOUS
  <2>2. hlReq'[r] = state /\ DOMAIN hlReq' = HlReqs /\ \A s \in HlReqs \ {r} : hlReq'[s] = hlReq[s]
    BY <1>5, <2>1, RequestMoves
  <2>3. ids \subseteq HlIds
    BY <1>2, HltbAssumption
  <2>4. RequestIsSound(hlReq[r])' /\ hlReq'[r].pc \notin Syncing
    BY <2>1, <2>2, <2>3 DEF RequestIsSound, Syncing
  <2>5. \A s \in hlShown' : s.game \in HlGames /\ s.ids \subseteq HlIds
    BY <1>5 DEF HlInv, HlTypeOK
  <2> QED
    BY <1>1, <1>2, <1>3, <1>5, <2>2, <2>4, <2>5, QuietStep
<1> QED
  BY <1>4, <1>5 DEF LookupStart, Become

LEMMA LookupSaveKeeps ==
  ASSUME HlInv, NEW r \in HlReqs, LookupSave(r)
  PROVE  HlInv'
<1>1. PICK q : q = hlReq[r]
  OBVIOUS
<1>2. q.pc = "save" /\ q.game \in HlGames /\ q.ids \subseteq HlIds
  BY <1>1 DEF LookupSave, HlInv, RequestsAreSound, RequestIsSound, Applying
<1>3. /\ hlReceipt' = [hlReceipt EXCEPT ![q.game] = Saved(hlReceipt[q.game], q)]
      /\ hlShown' = hlShown \union {Result(q, Saved(hlReceipt[q.game], q))}
      /\ hlReq' = [hlReq EXCEPT ![r] = Idle]
      /\ UNCHANGED <<hlRow, hlMap, hlBg, hlLock, hlDoc, hlRegressed>>
  BY <1>1 DEF LookupSave, Become
<1>4. hlReq'[r] = Idle /\ DOMAIN hlReq' = HlReqs /\ \A s \in HlReqs \ {r} : hlReq'[s] = hlReq[s]
  BY <1>3, RequestMoves
<1>5. PICK old : old = hlReceipt[q.game]
  OBVIOUS
<1>6. /\ {"rid", "version", "ids", "live", "pending", "sync"} \subseteq DOMAIN old
      /\ DOMAIN hlReceipt = HlGames /\ old.sync = hlRow[q.game].applied
  BY <1>2, <1>5 DEF HlInv, ReceiptsAreSound
<1>7. PICK new : new = Saved(old, q)
  OBVIOUS
<1>8. /\ {"rid", "version", "ids", "live", "pending", "sync"} \subseteq DOMAIN new
      /\ new.ids = q.ids /\ new.sync = old.sync /\ new.pending = old.pending
  BY <1>6, <1>7 DEF Saved
<1>9. /\ hlReceipt'[q.game] = new /\ DOMAIN hlReceipt' = HlGames
      /\ \A g \in HlGames \ {q.game} : hlReceipt'[g] = hlReceipt[g]
  BY <1>2, <1>3, <1>5, <1>6, <1>7
<1>10. ReceiptsAreSound' /\ \A g \in HlGames : hlReceipt'[g].pending = hlReceipt[g].pending
  BY <1>2, <1>3, <1>5, <1>6, <1>8, <1>9 DEF HlInv, ReceiptsAreSound
<1>11. \A s \in hlShown' : s.game \in HlGames /\ s.ids \subseteq HlIds
  BY <1>2, <1>3, <1>5, <1>7, <1>8 DEF HlInv, HlTypeOK, Result
<1>12. RequestIsSound(hlReq[r])' /\ hlReq'[r].pc \notin Syncing
  BY <1>4 DEF RequestIsSound, Idle, Syncing
<1>13. \A l \in Locks : ~HeldBy(hlReq[r], l)
  BY <1>1, <1>2 DEF HeldBy, Syncing
<1> QED
  BY <1>3, <1>4, <1>10, <1>11, <1>12, <1>13, QuietStep

LEMMA ApplyStartKeeps ==
  ASSUME HlInv, NEW r \in HlReqs, NEW s \in hlShown, NEW id \in s.ids, NEW replace,
         ApplyStart(r, s, id, replace)
  PROVE  HlInv'
<1>1. PICK q : q = [pc |-> "lockId", game |-> s.game, rid |-> s.rid, version |-> s.version,
                    id |-> id, replace |-> replace, seen |-> hlMap[s.game].id]
  OBVIOUS
<1>2. /\ hlReq[r].pc = "idle" /\ hlReq' = [hlReq EXCEPT ![r] = q]
      /\ UNCHANGED <<hlRow, hlMap, hlReceipt, hlShown, hlBg, hlLock, hlDoc, hlRegressed>>
  BY <1>1 DEF ApplyStart, Become
<1>3. hlReq'[r] = q /\ DOMAIN hlReq' = HlReqs /\ \A o \in HlReqs \ {r} : hlReq'[o] = hlReq[o]
  BY <1>2, RequestMoves
<1>4. s.game \in HlGames /\ id \in HlIds
  BY DEF HlInv, HlTypeOK
<1>5. RequestIsSound(hlReq[r])' /\ hlReq'[r].pc \notin Syncing
  <2>1. q.pc = "lockId" /\ q.game = s.game /\ q.version = s.version /\ q.id = id
        /\ {"pc", "game", "rid", "version", "id", "seen"} \subseteq DOMAIN q
    BY <1>1
  <2>2. ApplyIsSound(q)'
    BY <1>2, <1>4, <2>1 DEF ApplyIsSound
  <2> QED
    BY <1>3, <2>1, <2>2 DEF RequestIsSound, ApplyIsSound, Applying, Syncing
<1>6. \A l \in Locks : ~HeldBy(hlReq[r], l)
  BY <1>2 DEF HeldBy, Syncing
<1>7. ReceiptsAreSound' /\ \A o \in hlShown' : o.game \in HlGames /\ o.ids \subseteq HlIds
  BY <1>2 DEF HlInv, ReceiptsAreSound, HlTypeOK
<1> QED
  BY <1>2, <1>3, <1>5, <1>6, <1>7, QuietStep

LEMMA RetrySyncKeeps ==
  ASSUME HlInv, NEW r \in HlReqs, NEW g \in HlGames, RetrySync(r, g)
  PROVE  HlInv'
<1>1. PICK q : q = [pc |-> "search", game |-> g, sync |-> hlReceipt[g].sync]
  OBVIOUS
<1>2. /\ hlReq[r].pc = "idle" /\ hlReq' = [hlReq EXCEPT ![r] = q]
      /\ UNCHANGED <<hlRow, hlMap, hlReceipt, hlShown, hlBg, hlLock, hlDoc, hlRegressed>>
  BY <1>1 DEF RetrySync, Become
<1>3. hlReq'[r] = q /\ DOMAIN hlReq' = HlReqs /\ \A o \in HlReqs \ {r} : hlReq'[o] = hlReq[o]
  BY <1>2, RequestMoves
<1>4. q.sync = hlRow[g].applied /\ hlRow[g].applied \in Nat
  BY <1>1 DEF HlInv, ReceiptsAreSound, HlTypeOK, Snapshots
<1>5. RequestIsSound(hlReq[r])' /\ hlReq'[r].pc \notin Syncing
  BY <1>1, <1>2, <1>3, <1>4 DEF RequestIsSound, SyncIsSound, Syncing
<1>6. \A l \in Locks : ~HeldBy(hlReq[r], l)
  BY <1>2 DEF HeldBy, Syncing
<1>7. ReceiptsAreSound' /\ \A o \in hlShown' : o.game \in HlGames /\ o.ids \subseteq HlIds
  BY <1>2 DEF HlInv, ReceiptsAreSound, HlTypeOK
<1> QED
  BY <1>2, <1>3, <1>5, <1>6, <1>7, QuietStep

\* The row is read under the lock: it is as new as what is owed.
LEMMA SearchReadKeeps ==
  ASSUME HlInv, NEW r \in HlReqs, SearchRead(r)
  PROVE  HlInv'
<1>1. PICK q : q = hlReq[r]
  OBVIOUS
<1>2. q.pc = "read" /\ SyncIsSound(q)
  BY <1>1 DEF SearchRead, HlInv, RequestsAreSound, RequestIsSound, Applying
<1>3. PICK p : p = [pc |-> "import", game |-> q.game, sync |-> q.sync, row |-> hlRow[q.game]]
  OBVIOUS
<1>4. /\ hlReq' = [hlReq EXCEPT ![r] = p]
      /\ UNCHANGED <<hlRow, hlMap, hlReceipt, hlShown, hlBg, hlLock, hlDoc, hlRegressed>>
  BY <1>1, <1>3 DEF SearchRead, Become
<1>5. hlReq'[r] = p /\ DOMAIN hlReq' = HlReqs /\ \A o \in HlReqs \ {r} : hlReq'[o] = hlReq[o]
  BY <1>4, RequestMoves
<1>6. p.row = hlRow[q.game] /\ p.row \in Snapshots /\ p.row.applied \in Nat
      /\ hlReceipt[q.game].sync = p.row.applied
  BY <1>2, <1>3 DEF SyncIsSound, HlInv, HlTypeOK, ReceiptsAreSound, Snapshots
<1>7. p.pc = "import" /\ p.game = q.game /\ p.sync = q.sync /\ {"pc", "game", "sync"} \subseteq DOMAIN p
  BY <1>3
<1>8. SyncIsSound(p) /\ ImportIsSound(p)
  BY <1>2, <1>6, <1>7 DEF SyncIsSound, ImportIsSound
<1>9. RequestIsSound(hlReq[r])'
  BY <1>4, <1>5, <1>7, <1>8 DEF RequestIsSound, SyncIsSound, ImportIsSound
<1>10. ReceiptsAreSound' /\ \A o \in hlShown' : o.game \in HlGames /\ o.ids \subseteq HlIds
  BY <1>4 DEF HlInv, ReceiptsAreSound, HlTypeOK
<1>11. /\ \A l \in Locks : HeldBy(hlReq[r], l) => HeldBy(hlReq'[r], l)
       /\ hlReq'[r].pc \in Syncing => hlReq[r].pc \in Syncing /\ hlReq'[r].game = hlReq[r].game
  BY <1>1, <1>2, <1>5, <1>7 DEF HeldBy, Syncing
<1> QED
  BY <1>4, <1>5, <1>9, <1>10, <1>11, QuietStep

LEMMA EditReadKeeps ==
  ASSUME HlInv, NEW r \in HlReqs, EditRead(r)
  PROVE  HlInv'
<1>1. PICK q : q = hlReq[r]
  OBVIOUS
<1>2. q.pc = "editRead" /\ q.game \in HlGames
  BY <1>1 DEF EditRead, HlInv, RequestsAreSound, RequestIsSound, Applying
<1>3. PICK p : p = [pc |-> "editIndex", game |-> q.game, row |-> hlRow[q.game]]
  OBVIOUS
<1>4. /\ hlReq' = [hlReq EXCEPT ![r] = p]
      /\ UNCHANGED <<hlRow, hlMap, hlReceipt, hlShown, hlBg, hlLock, hlDoc, hlRegressed>>
  BY <1>1, <1>3 DEF EditRead, Become
<1>5. hlReq'[r] = p /\ DOMAIN hlReq' = HlReqs /\ \A o \in HlReqs \ {r} : hlReq'[o] = hlReq[o]
  BY <1>4, RequestMoves
<1>6. p.row \in Snapshots /\ p.pc = "editIndex" /\ p.game = q.game
  BY <1>2, <1>3 DEF HlInv, HlTypeOK
<1>7. RequestIsSound(hlReq[r])' /\ hlReq'[r].pc \notin Syncing
  BY <1>2, <1>5, <1>6 DEF RequestIsSound, Syncing
<1>8. \A l \in Locks : ~HeldBy(hlReq[r], l)
  BY <1>1, <1>2 DEF HeldBy, Syncing
<1>9. ReceiptsAreSound' /\ \A o \in hlShown' : o.game \in HlGames /\ o.ids \subseteq HlIds
  BY <1>4 DEF HlInv, ReceiptsAreSound, HlTypeOK
<1> QED
  BY <1>4, <1>5, <1>7, <1>8, <1>9, QuietStep

\* The game is read: what the request sees of its binding is the table's.
LEMMA ReadGameReads ==
  ASSUME HlInv, NEW r \in HlReqs, ApplyReadGame(r)
  PROVE  LET q == hlReq[r]
             p == hlReq'[r]
         IN /\ q.pc = "readGame" /\ ApplyIsSound(q)
            /\ DOMAIN p = DOMAIN q /\ p.pc = "lockRow" /\ p.seen = hlMap[q.game].id
            /\ p.game = q.game /\ p.rid = q.rid /\ p.version = q.version /\ p.id = q.id
            /\ DOMAIN hlReq' = HlReqs /\ \A s \in HlReqs \ {r} : hlReq'[s] = hlReq[s]
            /\ UNCHANGED <<hlRow, hlMap, hlReceipt, hlShown, hlBg, hlLock, hlDoc, hlRegressed>>
<1>1. PICK q : q = hlReq[r]
  OBVIOUS
<1>2. q.pc = "readGame" /\ ApplyIsSound(q)
  BY <1>1 DEF ApplyReadGame, HlInv, RequestsAreSound, RequestIsSound, Applying
<1>3. PICK p : p = [q EXCEPT !.pc = "lockRow", !.seen = hlMap[q.game].id]
  OBVIOUS
<1>4. /\ hlReq' = [hlReq EXCEPT ![r] = p]
      /\ UNCHANGED <<hlRow, hlMap, hlReceipt, hlShown, hlBg, hlLock, hlDoc, hlRegressed>>
  BY <1>1, <1>3 DEF ApplyReadGame
<1>5. hlReq'[r] = p /\ DOMAIN hlReq' = HlReqs /\ \A s \in HlReqs \ {r} : hlReq'[s] = hlReq[s]
  BY <1>4, RequestMoves
<1>6. /\ DOMAIN p = DOMAIN q /\ p.pc = "lockRow" /\ p.seen = hlMap[q.game].id
      /\ p.game = q.game /\ p.rid = q.rid /\ p.version = q.version /\ p.id = q.id
  BY <1>2, <1>3 DEF ApplyIsSound
<1> QED
  BY <1>1, <1>2, <1>4, <1>5, <1>6

LEMMA ApplyReadGameKeeps ==
  ASSUME HlInv, NEW r \in HlReqs, ApplyReadGame(r)
  PROVE  HlInv'
<1>1. PICK q, p : q = hlReq[r] /\ p = hlReq'[r]
  OBVIOUS
<1>2. /\ q.pc = "readGame" /\ ApplyIsSound(q)
      /\ DOMAIN p = DOMAIN q /\ p.pc = "lockRow"
      /\ p.game = q.game /\ p.version = q.version /\ p.id = q.id
      /\ DOMAIN hlReq' = HlReqs /\ \A s \in HlReqs \ {r} : hlReq'[s] = hlReq[s]
      /\ UNCHANGED <<hlRow, hlMap, hlReceipt, hlShown, hlBg, hlLock, hlDoc, hlRegressed>>
  BY <1>1, ReadGameReads
<1>3. ApplyIsSound(p)'
  BY <1>2 DEF ApplyIsSound
<1>4. RequestIsSound(hlReq[r])' /\ p.pc \notin Syncing
  BY <1>1, <1>2, <1>3 DEF RequestIsSound, ApplyIsSound, Applying, Syncing
<1>5. \A l \in Locks : HeldBy(hlReq[r], l) => HeldBy(hlReq'[r], l)
  BY <1>1, <1>2 DEF HeldBy, Syncing
<1>6. ReceiptsAreSound' /\ \A o \in hlShown' : o.game \in HlGames /\ o.ids \subseteq HlIds
  BY <1>2 DEF HlInv, ReceiptsAreSound, HlTypeOK
<1> QED
  BY <1>1, <1>2, <1>4, <1>5, <1>6, QuietStep

\* A lock is taken that was free.
LEMMA TakeKeeps ==
  ASSUME HlInv, NEW r \in HlReqs, NEW next, Take(r, next),
         \/ hlReq[r].pc = "lockId" /\ next = "readGame"
         \/ hlReq[r].pc = "lockRow" /\ next = "write"
         \/ hlReq[r].pc = "search" /\ next = "read"
  PROVE  HlInv'
<1>1. PICK q : q = hlReq[r]
  OBVIOUS
<1>2. PICK p : p = [q EXCEPT !.pc = next]
  OBVIOUS
<1>3. RequestIsSound(q)
  BY <1>1 DEF HlInv, RequestsAreSound
<1>4. {"pc", "game"} \subseteq DOMAIN q /\ q.game \in HlGames
      /\ (q.pc = "search" => SyncIsSound(q)) /\ (q.pc # "search" => ApplyIsSound(q))
  BY <1>1, <1>3 DEF RequestIsSound, ApplyIsSound, SyncIsSound, Applying
<1>5. p.pc = next /\ DOMAIN p = DOMAIN q /\ p.game = q.game
  BY <1>2, <1>4
<1>6. PICK l : l = Wanted(q)
  OBVIOUS
<1>7. /\ Free(l) /\ hlLock' = [hlLock EXCEPT ![l] = r]
      /\ hlReq' = [hlReq EXCEPT ![r] = p]
      /\ UNCHANGED <<hlRow, hlMap, hlReceipt, hlShown, hlBg, hlDoc, hlRegressed>>
  BY <1>1, <1>2, <1>6 DEF Take
<1>8. hlReq'[r] = p /\ DOMAIN hlReq' = HlReqs /\ \A s \in HlReqs \ {r} : hlReq'[s] = hlReq[s]
  BY <1>7, RequestMoves
<1>9. /\ q.pc = "lockId" => l = <<"id", q.id>> /\ q.id \in HlIds
      /\ q.pc = "lockRow" => l = <<"row", q.game>>
      /\ q.pc = "search" => l = <<"search", q.game>>
  <2>1. q.pc = "lockId" => l = <<"id", q.id>>
    BY <1>6 DEF Wanted
  <2>2. q.pc = "lockRow" => l = <<"row", q.game>>
    BY <1>6 DEF Wanted
  <2>3. q.pc = "search" => l = <<"search", q.game>>
    BY <1>6 DEF Wanted
  <2> QED
    BY <1>4, <2>1, <2>2, <2>3 DEF ApplyIsSound
<1>10. l \in Locks /\ hlLock[l] = "free"
  BY <1>1, <1>4, <1>7, <1>9 DEF Locks, Free
<1>11. HlTypeOK' /\ ReceiptsAreSound' /\ BindingsAreSound(hlMap)' /\ HlSyncedMeansIndexed'
  BY <1>7 DEF HlInv, HlTypeOK, ReceiptsAreSound, BindingsAreSound, HlSyncedMeansIndexed
<1>12. RequestsAreSound'
  <2>1. Grows
    BY <1>7, RowsGrow DEF HlInv
  <2>2. \A s \in HlReqs : Undisturbed(hlReq[s])
    BY <1>7 DEF Undisturbed
  <2>3. q.pc = "search" => SyncIsSound(p)
    BY <1>2, <1>4, <1>5 DEF SyncIsSound
  <2>4. q.pc # "search" => ApplyIsSound(p)
    <3>1. q.pc # "search" => p.id = q.id /\ p.version = q.version
      BY <1>2, <1>4 DEF ApplyIsSound
    <3> QED
      BY <1>4, <1>5, <3>1 DEF ApplyIsSound
  <2>5. RequestIsSound(p)
    BY <1>1, <1>5, <2>3, <2>4 DEF RequestIsSound, Applying
  <2>6. RequestIsSound(p)'
    BY <1>1, <1>5, <1>7, <2>1, <2>5, RequestStays DEF Undisturbed
  <2>7. RequestIsSound(hlReq[r])'
    BY <1>8, <2>6 DEF RequestIsSound, ApplyIsSound, SyncIsSound, ImportIsSound
  <2> QED
    BY <1>8, <2>1, <2>2, <2>7, OthersStay
<1>13. /\ hlLock' \in [Locks -> HlReqs \union {"bg", "free"}]
       /\ hlLock'[l] = r /\ \A m \in Locks \ {l} : hlLock'[m] = hlLock[m]
  BY <1>7, <1>10 DEF HlInv, LocksAreHeld
<1>14. r # "free" /\ r # "bg"
  BY HltbAssumption
<1>15. HeldBy(p, l)
  <2>1. q.pc = "lockId" => p.id = q.id
    BY <1>2, <1>4 DEF ApplyIsSound
  <2> QED
    BY <1>1, <1>5, <1>9, <2>1 DEF HeldBy, Syncing
<1>16. \A m \in Locks : HeldBy(q, m) => HeldBy(p, m)
  <2>1. q.pc = "lockRow" => p.id = q.id
    BY <1>2, <1>4 DEF ApplyIsSound
  <2> QED
    BY <1>1, <1>5, <2>1 DEF HeldBy, Syncing
<1>17. LocksAreHeld'
  <2>1. ASSUME NEW s \in HlReqs, NEW m \in Locks, hlLock'[m] = s
        PROVE  HeldBy(hlReq'[s], m)
    <3>1. CASE m = l
      BY <1>8, <1>13, <1>15, <2>1, <3>1
    <3>2. CASE m # l
      <4>1. HeldBy(hlReq[s], m)
        BY <1>13, <2>1, <3>2 DEF HlInv, LocksAreHeld
      <4> QED
        BY <1>1, <1>8, <1>16, <4>1
    <3> QED
      BY <3>1, <3>2
  <2>2. ASSUME NEW s \in HlReqs, hlReq'[s].pc \in Syncing
        PROVE  hlLock'[<<"search", hlReq'[s].game>>] = s
    <3>1. CASE s = r
      BY <1>1, <1>5, <1>8, <1>9, <1>13, <2>2, <3>1 DEF Syncing
    <3>2. CASE s # r
      <4>1. hlReq'[s] = hlReq[s] /\ hlLock[<<"search", hlReq[s].game>>] = s
        BY <1>8, <2>2, <3>2 DEF HlInv, LocksAreHeld
      <4>2. <<"search", hlReq[s].game>> \in Locks
        BY <1>8, <2>2, <3>2
           DEF HlInv, RequestsAreSound, RequestIsSound, SyncIsSound, Syncing, Applying, Locks
      <4> QED
        BY <1>10, <1>13, <1>14, <4>1, <4>2, HltbAssumption
    <3> QED
      BY <3>1, <3>2
  <2> QED
    BY <1>13, <2>1, <2>2 DEF LocksAreHeld, HeldBy
<1>18. RefreshIsOrdered'
  BY <1>7, <1>10, <1>13, <1>14, RefreshStays
<1> QED
  BY <1>11, <1>12, <1>17, <1>18 DEF HlInv

\* What a process lets go of.
LEMMA Released ==
  ASSUME LocksAreHeld, NEW p \in HlReqs \union {"bg"}, hlLock' = Release(p)
  PROVE  /\ hlLock' \in [Locks -> HlReqs \union {"bg", "free"}]
         /\ \A l \in Locks : hlLock'[l] = IF hlLock[l] = p THEN "free" ELSE hlLock[l]
         /\ \A l \in Locks : \A s : s \notin {p, "free"} => (hlLock'[l] = s <=> hlLock[l] = s)
         /\ \A l \in Locks : hlLock'[l] # p
<1>1. p # "free"
  BY HltbAssumption
<1> QED
  BY <1>1 DEF LocksAreHeld, Release

\* A request that ends, or goes on without a lock.
LEMMA ReleaseKeepsLocks ==
  ASSUME HlInv, NEW r \in HlReqs, hlLock' = Release(r), DOMAIN hlReq' = HlReqs,
         \A s \in HlReqs \ {r} : hlReq'[s] = hlReq[s], hlReq'[r].pc \notin Syncing,
         hlBg' = hlBg
  PROVE  LocksAreHeld' /\ RefreshIsOrdered'
<1>1. /\ hlLock' \in [Locks -> HlReqs \union {"bg", "free"}]
      /\ \A l \in Locks : \A s : s \notin {r, "free"} => (hlLock'[l] = s <=> hlLock[l] = s)
      /\ \A l \in Locks : hlLock'[l] # r
  BY Released DEF HlInv
<1>2. r # "free" /\ r # "bg" /\ "free" \notin HlReqs
  BY HltbAssumption
<1>3. ASSUME NEW s \in HlReqs, NEW l \in Locks, hlLock'[l] = s
      PROVE  HeldBy(hlReq'[s], l)
  BY <1>1, <1>2, <1>3 DEF HlInv, LocksAreHeld
<1>4. ASSUME NEW s \in HlReqs, hlReq'[s].pc \in Syncing
      PROVE  hlLock'[<<"search", hlReq'[s].game>>] = s
  <2>1. s # r /\ hlReq'[s] = hlReq[s] /\ hlLock[<<"search", hlReq[s].game>>] = s
    BY <1>4 DEF HlInv, LocksAreHeld
  <2>2. <<"search", hlReq[s].game>> \in Locks
    BY <1>4, <2>1
       DEF HlInv, RequestsAreSound, RequestIsSound, SyncIsSound, Syncing, Applying, Locks
  <2> QED
    BY <1>1, <1>2, <2>1, <2>2
<1>5. LocksAreHeld'
  BY <1>1, <1>3, <1>4 DEF LocksAreHeld, HeldBy
<1>6. RefreshIsOrdered'
  BY <1>1, <1>2, RefreshStays
<1> QED
  BY <1>5, <1>6

LEMMA GiveUpKeeps ==
  ASSUME HlInv, NEW r \in HlReqs, GiveUp(r)
  PROVE  HlInv'
<1>1. /\ hlLock' = Release(r) /\ hlReq' = [hlReq EXCEPT ![r] = Idle]
      /\ UNCHANGED <<hlRow, hlMap, hlReceipt, hlShown, hlBg, hlDoc, hlRegressed>>
  BY DEF GiveUp, Become
<1>2. hlReq'[r] = Idle /\ DOMAIN hlReq' = HlReqs /\ \A s \in HlReqs \ {r} : hlReq'[s] = hlReq[s]
  BY <1>1, RequestMoves
<1>3. HlTypeOK' /\ ReceiptsAreSound' /\ BindingsAreSound(hlMap)' /\ HlSyncedMeansIndexed'
  BY <1>1 DEF HlInv, HlTypeOK, ReceiptsAreSound, BindingsAreSound, HlSyncedMeansIndexed
<1>4. Grows /\ \A s \in HlReqs : Undisturbed(hlReq[s])
  BY <1>1, RowsGrow DEF HlInv, Undisturbed
<1>5. RequestIsSound(hlReq[r])' /\ hlReq'[r].pc \notin Syncing
  BY <1>2 DEF RequestIsSound, Idle, Syncing
<1>6. RequestsAreSound'
  BY <1>2, <1>4, <1>5, OthersStay
<1>7. LocksAreHeld' /\ RefreshIsOrdered'
  BY <1>1, <1>2, <1>5, ReleaseKeepsLocks
<1> QED
  BY <1>3, <1>6, <1>7 DEF HlInv

-----------------------------------------------------------------------------
(* The tables of the refresh *)

Bindings == [id : Nat, manual : BOOLEAN, counts : Nat]

\* The tables during the transaction: it binds only what had no binding.
TablesAreSound(t) ==
  /\ t.map \in [HlGames -> Bindings] /\ t.row \in [HlGames -> Snapshots]
  /\ BindingsAreSound(t.map)
  /\ \A g \in HlGames : /\ t.row[g].applied = hlRow[g].applied
                        /\ t.map[g].manual = hlMap[g].manual
                        /\ hlMap[g].id # 0 => t.map[g].id = hlMap[g].id

LEMMA SupplementKeeps ==
  ASSUME NEW t, TablesAreSound(t), NEW u \in HlGames \X HlIds
  PROVE  TablesAreSound(Supplement(t, u))
<1> DEFINE g == u[1]
           id == u[2]
<1>1. g \in HlGames /\ id \in HlIds /\ id \in Nat \ {0}
  BY HltbAssumption
<1>2. CASE ~AcceptBackgroundMapping(t.map, g, id)
  BY <1>2 DEF Supplement
<1>3. CASE AcceptBackgroundMapping(t.map, g, id)
  <2>1. PICK map : map = [t.map EXCEPT ![g].id = id, ![g].counts = id]
    OBVIOUS
  <2>2. PICK row : row = [t.row EXCEPT ![g].hours = IF @ = 0 /\ id \in HlTimed THEN id ELSE @]
    OBVIOUS
  <2>3. Supplement(t, u).map = map /\ Supplement(t, u).row = row
    BY <1>3, <2>1, <2>2 DEF Supplement
  <2>4. t.map[g].id \in {0, id} /\ \A o \in HlGames \ {g} : t.map[o].id # id
    BY <1>3 DEF AcceptBackgroundMapping
  <2>5. /\ map \in [HlGames -> Bindings]
        /\ map[g].id = id /\ map[g].counts = id /\ map[g].manual = t.map[g].manual
        /\ \A o \in HlGames \ {g} : map[o] = t.map[o]
    BY <1>1, <2>1 DEF TablesAreSound, Bindings
  <2>6. /\ row \in [HlGames -> Snapshots]
        /\ \A o \in HlGames : row[o].applied = t.row[o].applied
    BY <1>1, <2>2 DEF TablesAreSound, Snapshots
  <2>7. BindingsAreSound(map)
    BY <1>1, <2>4, <2>5 DEF TablesAreSound, BindingsAreSound
  <2>8. \A o \in HlGames : /\ map[o].manual = hlMap[o].manual
                          /\ hlMap[o].id # 0 => map[o].id = hlMap[o].id
    BY <1>1, <2>4, <2>5 DEF TablesAreSound
  <2> QED
    BY <2>3, <2>5, <2>6, <2>7, <2>8 DEF TablesAreSound
<1> QED
  BY <1>2, <1>3

\* The updates of a transaction, one after the other: f is what the first n leave.
Follows(f, n) ==
  f = [k \in 0..n |-> IF k = 0 THEN [map |-> hlMap, row |-> hlRow]
                      ELSE Supplement(f[k - 1], hlBg.updates[k])]

\* There is such a sequence of tables for every number of updates: the least
\* number without one would have a predecessor with one, which goes on.
LEMMA TablesExist ==
  ASSUME NEW n \in Nat
  PROVE  \E f : Follows(f, n)
<1> SUFFICES ASSUME ~\E f : Follows(f, n) PROVE FALSE
  OBVIOUS
<1> DEFINE Missing == {k \in Nat : ~\E f : Follows(f, k)}
<1>1. Missing \in SUBSET Nat /\ Missing # {}
  OBVIOUS
<1>2. PICK m \in Missing : \A k \in Missing : m <= k
  BY <1>1, LeastExists
<1>3. m # 0
  <2>1. Follows([k \in 0..0 |-> [map |-> hlMap, row |-> hlRow]], 0)
    BY DEF Follows
  <2> QED
    BY <2>1
<1>4. m - 1 \in Nat /\ m - 1 \notin Missing
  BY <1>2, <1>3
<1>5. PICK f : Follows(f, m - 1)
  BY <1>4
<1>6. PICK h : h = [k \in 0..m |-> IF k < m THEN f[k]
                                   ELSE Supplement(f[m - 1], hlBg.updates[m])]
  OBVIOUS
<1>7. ASSUME NEW k \in 0..m
      PROVE  h[k] = IF k = 0 THEN [map |-> hlMap, row |-> hlRow]
                    ELSE Supplement(h[k - 1], hlBg.updates[k])
  <2>1. CASE k = 0
    BY <1>3, <1>4, <1>5, <1>6, <2>1 DEF Follows
  <2>2. CASE k # 0 /\ k < m
    <3>1. k \in 0..(m - 1) /\ k - 1 \in 0..m /\ k - 1 < m
      BY <1>4, <2>2
    <3>2. f[k] = Supplement(f[k - 1], hlBg.updates[k])
      BY <1>5, <2>2, <3>1 DEF Follows
    <3>3. h[k] = f[k] /\ h[k - 1] = f[k - 1]
      BY <1>6, <2>2, <3>1
    <3> QED
      BY <2>2, <3>2, <3>3
  <2>3. CASE k = m
    <3>1. m - 1 \in 0..m /\ m - 1 < m /\ ~(m < m)
      BY <1>4
    <3>2. h[m] = Supplement(f[m - 1], hlBg.updates[m]) /\ h[m - 1] = f[m - 1]
      BY <1>6, <3>1
    <3> QED
      BY <1>3, <2>3, <3>2
  <2> QED
    BY <2>1, <2>2, <2>3
<1>8. h = [k \in 0..m |-> h[k]]
  BY <1>6
<1>9. Follows(h, m)
  BY <1>7, <1>8 DEF Follows
<1> QED
  BY <1>2, <1>9

LEMMA SupplementedFollows ==
  ASSUME Len(hlBg.updates) \in Nat
  PROVE  Follows(Supplemented, Len(hlBg.updates))
<1>1. \E f : Follows(f, Len(hlBg.updates))
  BY TablesExist
<1> QED
  BY <1>1 DEF Supplemented, Follows

\* After every update the tables are sound.
LEMMA SupplementedIsSound ==
  ASSUME HlInv
  PROVE  TablesAreSound(Supplemented[Len(hlBg.updates)])
<1>1. Len(hlBg.updates) \in Nat /\ \A i \in 1..Len(hlBg.updates) : hlBg.updates[i] \in HlGames \X HlIds
  BY DEF HlInv, HlTypeOK
<1>2. PICK n \in Nat : n = Len(hlBg.updates)
  BY <1>1
<1>3. PICK f : f = Supplemented
  OBVIOUS
<1>4. Follows(f, n)
  BY <1>1, <1>2, <1>3, SupplementedFollows
<1> DEFINE Unsound == {k \in 0..n : ~TablesAreSound(f[k])}
<1>5. ASSUME Unsound # {}
      PROVE  FALSE
  <2>0. Unsound \in SUBSET Nat
    OBVIOUS
  <2>1. PICK m \in Unsound : \A k \in Unsound : m <= k
    <3> HIDE DEF Unsound
    <3> QED
      BY <1>5, <2>0, LeastExists
  <2>2. f[0] = [map |-> hlMap, row |-> hlRow]
    BY <1>4 DEF Follows
  <2>3. TablesAreSound([map |-> hlMap, row |-> hlRow])
    BY DEF HlInv, HlTypeOK, TablesAreSound, Bindings
  <2>4. m # 0
    BY <2>2, <2>3
  <2>5. m - 1 \in 0..n /\ TablesAreSound(f[m - 1])
    BY <2>1, <2>4
  <2>6. f[m] = Supplement(f[m - 1], hlBg.updates[m])
    BY <1>4, <2>4 DEF Follows
  <2>7. hlBg.updates[m] \in HlGames \X HlIds
    BY <1>1, <1>2, <2>4
  <2>8. PICK t, u : t = f[m - 1] /\ u = hlBg.updates[m]
    OBVIOUS
  <2> QED
    BY <2>5, <2>6, <2>7, <2>8, SupplementKeeps
<1> QED
  BY <1>2, <1>3, <1>5

-----------------------------------------------------------------------------
(* The steps that write *)

\* What the transaction of request r writes, from the state its locks protect.
Writes(r, q, new, hours) ==
  /\ hours \in Nat
  /\ q = hlReq[r] /\ q.pc = "write" /\ ApplyIsSound(q) /\ AssertReceipt(q)
  /\ ~OwnedByOther(q.game, q.id)
  /\ new = [pc |-> "search", game |-> q.game, sync |-> hlRow[q.game].applied + 1]
  /\ hlMap' = [hlMap EXCEPT ![q.game] =
                 [id |-> q.id, manual |-> TRUE, counts |-> Engagement(@, q.id)]]
  /\ hlRow' = [hlRow EXCEPT ![q.game].hours = hours, ![q.game].applied = new.sync]
  /\ hlReceipt' = [hlReceipt EXCEPT ![q.game] = SearchOwed(@, new.sync)]
  /\ hlLock' = Release(r)
  /\ hlReq' = [hlReq EXCEPT ![r] = new]
  /\ UNCHANGED <<hlShown, hlBg, hlDoc, hlRegressed>>

LEMMA ApplyWrites ==
  ASSUME HlInv, NEW r \in HlReqs, ApplyCommit(r)
  PROVE  \E q, new, hours : Writes(r, q, new, hours)
<1>1. PICK q : q = hlReq[r]
  OBVIOUS
<1>2. PICK new : new = [pc |-> "search", game |-> q.game, sync |-> hlRow[q.game].applied + 1]
  OBVIOUS
<1>3. q.pc = "write" /\ ApplyIsSound(q)
  BY <1>1 DEF ApplyCommit, HlInv, RequestsAreSound, RequestIsSound, Applying
<1>4. new.sync = hlRow[q.game].applied + 1
  BY <1>2
<1>5. PICK overwrite \in BOOLEAN :
        hlRow' = [hlRow EXCEPT ![q.game].hours = MergeHours(@, q.id, overwrite),
                               ![q.game].applied = new.sync]
  BY <1>1, <1>4 DEF ApplyCommit
<1>6. PICK hours : hours = MergeHours(hlRow[q.game].hours, q.id, overwrite)
  OBVIOUS
<1>7. hours \in Nat
  BY <1>3, <1>6, HltbAssumption DEF MergeHours, ApplyIsSound, HlInv, HlTypeOK, Snapshots
<1>8. hlRow' = [hlRow EXCEPT ![q.game].hours = hours, ![q.game].applied = new.sync]
  BY <1>5, <1>6
<1>9. /\ AssertReceipt(q) /\ ~OwnedByOther(q.game, q.id)
      /\ hlMap' = [hlMap EXCEPT ![q.game] =
                     [id |-> q.id, manual |-> TRUE, counts |-> Engagement(@, q.id)]]
      /\ hlReceipt' = [hlReceipt EXCEPT ![q.game] = SearchOwed(@, new.sync)]
      /\ hlLock' = Release(r)
      /\ hlReq' = [hlReq EXCEPT ![r] = new]
      /\ UNCHANGED <<hlShown, hlBg, hlDoc, hlRegressed>>
  BY <1>1, <1>2, <1>4 DEF ApplyCommit, ReceiptStillHolds, Become
<1> QED
  BY <1>1, <1>2, <1>3, <1>7, <1>8, <1>9 DEF Writes

LEMMA ApplyCommitKeeps ==
  ASSUME HlInv, NEW r \in HlReqs, ApplyCommit(r)
  PROVE  HlInv'
<1>1. PICK q, new, hours : Writes(r, q, new, hours)
  BY ApplyWrites
<1>2. PICK g, version : g = q.game /\ version = hlRow[g].applied + 1
  OBVIOUS
<1>3. g \in HlGames /\ q.id \in HlIds /\ q.id \in Nat \ {0} /\ version \in Nat
  BY <1>1, <1>2, HltbAssumption DEF Writes, ApplyIsSound, HlInv, HlTypeOK, Snapshots
<1>4. new.pc = "search" /\ new.game = g /\ new.sync = version
      /\ {"pc", "game", "sync"} \subseteq DOMAIN new
  BY <1>1, <1>2 DEF Writes
<1>5. /\ hlRow' \in [HlGames -> Snapshots] /\ hlRow'[g].applied = version
      /\ \A h \in HlGames \ {g} : hlRow'[h] = hlRow[h]
  BY <1>1, <1>2, <1>3, <1>4 DEF Writes, HlInv, HlTypeOK, Snapshots
<1>6. PICK counts : counts = Engagement(hlMap[g], q.id)
  OBVIOUS
<1>7. counts \in {0, q.id}
  BY <1>3, <1>6 DEF Engagement, HlInv, BindingsAreSound
<1>8. PICK binding : binding = [id |-> q.id, manual |-> TRUE, counts |-> counts]
  OBVIOUS
<1>9. /\ binding \in [id : Nat, manual : BOOLEAN, counts : Nat]
       /\ binding.id = q.id /\ binding.manual /\ binding.counts = counts
  BY <1>3, <1>7, <1>8
<1>10. hlMap' = [hlMap EXCEPT ![g] = binding]
  BY <1>1, <1>2, <1>6, <1>8 DEF Writes
<1>11. /\ hlMap'[g] = binding /\ DOMAIN hlMap' = HlGames
       /\ \A h \in HlGames \ {g} : hlMap'[h] = hlMap[h]
       /\ hlMap' \in [HlGames -> [id : Nat, manual : BOOLEAN, counts : Nat]]
  BY <1>3, <1>9, <1>10 DEF HlInv, HlTypeOK
<1>12. HlTypeOK'
  BY <1>1, <1>5, <1>11 DEF Writes, HlInv, HlTypeOK
<1>13. PICK old, receipt : old = hlReceipt[g] /\ receipt = SearchOwed(old, version)
  OBVIOUS
<1>14. /\ {"rid", "version", "ids", "live", "pending", "sync"} \subseteq DOMAIN receipt
       /\ receipt.ids = old.ids /\ old.ids \subseteq HlIds
       /\ receipt.sync = version /\ receipt.pending
  BY <1>3, <1>13 DEF SearchOwed, HlInv, ReceiptsAreSound
<1>15. /\ DOMAIN hlReceipt' = HlGames /\ hlReceipt'[g] = receipt
       /\ \A h \in HlGames \ {g} : hlReceipt'[h] = hlReceipt[h]
  BY <1>1, <1>2, <1>3, <1>4, <1>13 DEF Writes, HlInv, ReceiptsAreSound
<1>16. ReceiptsAreSound'
  BY <1>5, <1>14, <1>15 DEF HlInv, ReceiptsAreSound
<1>17. BindingsAreSound(hlMap)'
  <2>1. \A o \in HlGames \ {g} : hlMap[o].id # q.id
    BY <1>1, <1>2 DEF Writes, OwnedByOther
  <2>2. hlMap'[g].id = q.id /\ hlMap'[g].manual /\ hlMap'[g].counts = counts
    BY <1>9, <1>11
  <2>3. ASSUME NEW h \in HlGames \ {g}
        PROVE  /\ hlMap'[h].counts \in {0, hlMap'[h].id}
               /\ hlMap'[h].id # 0 => \A o \in HlGames \ {h} : hlMap'[o].id # hlMap'[h].id
               /\ hlMap'[h].manual => hlMap'[h].id # 0
    BY <1>11, <2>1, <2>2 DEF HlInv, BindingsAreSound
  <2>4. \A o \in HlGames \ {g} : hlMap'[o].id # hlMap'[g].id
    BY <1>11, <2>1, <2>2
  <2> QED
    BY <1>3, <1>7, <2>2, <2>3, <2>4 DEF BindingsAreSound
<1>18. hlReq'[r] = new /\ DOMAIN hlReq' = HlReqs /\ \A s \in HlReqs \ {r} : hlReq'[s] = hlReq[s]
  BY <1>1, RequestMoves DEF Writes
<1>19. Grows
  <2>1. \A h \in HlGames : hlRow[h].applied \in Nat /\ hlRow'[h].applied \in Nat
    BY <1>5 DEF HlInv, HlTypeOK, Snapshots
  <2>2. hlRow[g].applied <= hlRow'[g].applied
    BY <1>2, <1>3, <1>5, <2>1
  <2> QED
    BY <1>1, <1>5, <2>1, <2>2 DEF Writes, Grows
<1>20. RequestsAreSound'
  <2>1. \A s \in HlReqs \ {r} : Undisturbed(hlReq[s])
    <3>1. \A s \in HlReqs : hlReq[s].pc = "import" => hlReq[s].game \in HlGames
      BY DEF HlInv, RequestsAreSound, RequestIsSound, SyncIsSound, Applying
    <3> QED
      BY <1>1, <1>14, <1>15, <3>1 DEF Writes, Undisturbed
  <2>2. RequestIsSound(hlReq[r])'
    BY <1>3, <1>4, <1>5, <1>18 DEF RequestIsSound, SyncIsSound
  <2> QED
    BY <1>18, <1>19, <2>1, <2>2, OthersStay
<1>21. LocksAreHeld' /\ RefreshIsOrdered'
  BY <1>1, <1>4, <1>18, ReleaseKeepsLocks DEF Writes, Syncing
<1>22. HlSyncedMeansIndexed'
  BY <1>1, <1>14, <1>15 DEF Writes, HlInv, HlSyncedMeansIndexed
<1> QED
  BY <1>12, <1>16, <1>17, <1>20, <1>21, <1>22 DEF HlInv

\* A search update holds its game's lock: no other one is between its read and
\* its end.
LEMMA OneSyncPerGame ==
  ASSUME HlInv, NEW r \in HlReqs, NEW s \in HlReqs \ {r},
         hlReq[r].pc \in Syncing, hlReq[s].pc \in Syncing
  PROVE  hlReq[s].game # hlReq[r].game
BY DEF HlInv, LocksAreHeld

LEMMA SearchImportKeeps ==
  ASSUME HlInv, NEW r \in HlReqs, SearchImport(r)
  PROVE  HlInv'
<1>1. PICK q : q = hlReq[r]
  OBVIOUS
<1>2. q.pc = "import" /\ SyncIsSound(q) /\ ImportIsSound(q)
  BY <1>1 DEF SearchImport, HlInv, RequestsAreSound, RequestIsSound, Applying
<1>3. PICK p : p = [pc |-> "clear", game |-> q.game, sync |-> q.sync]
  OBVIOUS
<1>4. /\ hlDoc' = [hlDoc EXCEPT ![q.game] = q.row] /\ hlReq' = [hlReq EXCEPT ![r] = p]
      /\ UNCHANGED <<hlRow, hlMap, hlReceipt, hlShown, hlBg, hlLock, hlRegressed>>
  BY <1>1, <1>3 DEF SearchImport, Become
<1>5. hlReq'[r] = p /\ DOMAIN hlReq' = HlReqs /\ \A s \in HlReqs \ {r} : hlReq'[s] = hlReq[s]
  BY <1>4, RequestMoves
<1>6. /\ q.game \in HlGames /\ q.sync \in Nat /\ q.row \in Snapshots /\ q.sync <= q.row.applied
      /\ ~hlReceipt[q.game].pending => hlReceipt[q.game].sync <= q.row.applied
  BY <1>2 DEF SyncIsSound, ImportIsSound
<1>7. /\ hlDoc' \in [HlGames -> Snapshots] /\ hlDoc'[q.game] = q.row
      /\ \A g \in HlGames \ {q.game} : hlDoc'[g] = hlDoc[g]
  BY <1>4, <1>6 DEF HlInv, HlTypeOK
<1>8. HlTypeOK' /\ ReceiptsAreSound' /\ BindingsAreSound(hlMap)'
  BY <1>4, <1>7 DEF HlInv, HlTypeOK, ReceiptsAreSound, BindingsAreSound
<1>9. HlSyncedMeansIndexed'
  <2>1. hlReceipt[q.game].sync \in Nat /\ q.row.applied \in Nat
    BY <1>6 DEF HlInv, ReceiptsAreSound, HlTypeOK, Snapshots
  <2> QED
    BY <1>4, <1>6, <1>7, <2>1 DEF HlInv, HlSyncedMeansIndexed
<1>10. p.pc = "clear" /\ p.game = q.game /\ p.sync = q.sync /\ {"pc", "game", "sync"} \subseteq DOMAIN p
  BY <1>3
<1>11. RequestsAreSound'
  <2>1. Grows
    BY <1>4, RowsGrow DEF HlInv
  <2>2. \A s \in HlReqs \ {r} : Undisturbed(hlReq[s])
    <3>1. ASSUME NEW s \in HlReqs \ {r}, hlReq[s].pc = "clear"
          PROVE  hlDoc'[hlReq[s].game] = hlDoc[hlReq[s].game]
      <4>1. hlReq[s].game # q.game
        BY <1>1, <1>2, <3>1, OneSyncPerGame DEF Syncing
      <4>2. hlReq[s].game \in HlGames
        BY <3>1 DEF HlInv, RequestsAreSound, RequestIsSound, SyncIsSound, Applying
      <4> QED
        BY <1>7, <4>1, <4>2
    <3> QED
      BY <1>4, <3>1 DEF Undisturbed
  <2>3. SyncIsSound(p)'
    BY <1>2, <1>4, <1>10 DEF SyncIsSound
  <2>4. RequestIsSound(hlReq[r])'
    BY <1>5, <1>6, <1>7, <1>10, <2>3 DEF RequestIsSound, SyncIsSound
  <2> QED
    BY <1>5, <2>1, <2>2, <2>4, OthersStay
<1>12. LocksAreHeld'
  <2>1. \A l \in Locks : HeldBy(hlReq[r], l) => HeldBy(hlReq'[r], l)
    BY <1>1, <1>2, <1>5, <1>10 DEF HeldBy, Syncing
  <2>2. hlReq[r].pc \in Syncing /\ hlReq'[r].game = hlReq[r].game
    BY <1>1, <1>2, <1>5, <1>10 DEF Syncing
  <2> QED
    BY <1>4, <1>5, <2>1, <2>2, LocksStay
<1>13. RefreshIsOrdered'
  BY <1>4, RefreshStays
<1> QED
  BY <1>8, <1>9, <1>11, <1>12, <1>13 DEF HlInv

LEMMA SearchClearKeeps ==
  ASSUME HlInv, NEW r \in HlReqs, SearchClear(r)
  PROVE  HlInv'
<1>1. PICK q : q = hlReq[r]
  OBVIOUS
<1>2. /\ q.pc = "clear" /\ SyncIsSound(q)
      /\ q.game \in hlRegressed \/ q.sync <= hlDoc[q.game].applied
  BY <1>1 DEF SearchClear, HlInv, RequestsAreSound, RequestIsSound, Applying
<1>3. q.game \in HlGames /\ q.sync \in Nat
  BY <1>2 DEF SyncIsSound
<1>4. PICK old, receipt : old = hlReceipt[q.game] /\ receipt = Cleared(old, q.sync)
  OBVIOUS
<1>5. /\ {"rid", "version", "ids", "live", "pending", "sync"} \subseteq DOMAIN receipt
      /\ receipt.ids = old.ids /\ receipt.sync = old.sync
      /\ (receipt.pending <=> old.pending) \/ old.sync = q.sync
  BY <1>3, <1>4 DEF Cleared, HlInv, ReceiptsAreSound
<1>6. /\ hlReceipt' = [hlReceipt EXCEPT ![q.game] = receipt]
      /\ hlLock' = Release(r) /\ hlReq' = [hlReq EXCEPT ![r] = Idle]
      /\ UNCHANGED <<hlRow, hlMap, hlShown, hlBg, hlDoc, hlRegressed>>
  BY <1>1, <1>4 DEF SearchClear, Become
<1>7. /\ DOMAIN hlReceipt' = HlGames /\ hlReceipt'[q.game] = receipt
      /\ \A h \in HlGames \ {q.game} : hlReceipt'[h] = hlReceipt[h]
  BY <1>3, <1>6 DEF HlInv, ReceiptsAreSound
<1>8. hlReq'[r] = Idle /\ DOMAIN hlReq' = HlReqs /\ \A s \in HlReqs \ {r} : hlReq'[s] = hlReq[s]
  BY <1>6, RequestMoves
<1>9. HlTypeOK' /\ BindingsAreSound(hlMap)'
  BY <1>6 DEF HlInv, HlTypeOK, BindingsAreSound
<1>10. ReceiptsAreSound'
  BY <1>3, <1>4, <1>5, <1>6, <1>7 DEF HlInv, ReceiptsAreSound
<1>11. HlSyncedMeansIndexed'
  <2>1. ASSUME q.game \notin hlRegressed, receipt.sync # 0, ~receipt.pending
        PROVE  hlDoc[q.game].applied >= receipt.sync
    <3>1. hlDoc[q.game].applied \in Nat
      BY <1>3 DEF HlInv, HlTypeOK, Snapshots
    <3>2. CASE old.sync = q.sync
      BY <1>2, <1>3, <1>5, <2>1, <3>1, <3>2
    <3>3. CASE receipt.pending <=> old.pending
      BY <1>3, <1>4, <1>5, <2>1, <3>3 DEF HlInv, HlSyncedMeansIndexed
    <3> QED
      BY <1>5, <3>2, <3>3
  <2> QED
    BY <1>6, <1>7, <2>1 DEF HlInv, HlSyncedMeansIndexed
<1>12. RequestsAreSound'
  <2>1. Grows
    BY <1>6, RowsGrow DEF HlInv
  <2>2. \A s \in HlReqs \ {r} : Undisturbed(hlReq[s])
    <3>1. ASSUME NEW s \in HlReqs \ {r}, hlReq[s].pc = "import"
          PROVE  hlReceipt'[hlReq[s].game] = hlReceipt[hlReq[s].game]
      <4>1. hlReq[s].game # q.game
        BY <1>1, <1>2, <3>1, OneSyncPerGame DEF Syncing
      <4>2. hlReq[s].game \in HlGames
        BY <3>1 DEF HlInv, RequestsAreSound, RequestIsSound, SyncIsSound, Applying
      <4> QED
        BY <1>7, <4>1, <4>2
    <3> QED
      BY <1>6, <3>1 DEF Undisturbed
  <2>3. RequestIsSound(hlReq[r])'
    BY <1>8 DEF RequestIsSound, Idle
  <2> QED
    BY <1>8, <2>1, <2>2, <2>3, OthersStay
<1>13. LocksAreHeld' /\ RefreshIsOrdered'
  BY <1>6, <1>8, ReleaseKeepsLocks DEF Idle, Syncing
<1> QED
  BY <1>9, <1>10, <1>11, <1>12, <1>13 DEF HlInv

LEMMA EditSaveKeeps ==
  ASSUME HlInv, NEW r \in HlReqs, NEW g \in HlGames, EditSave(r, g)
  PROVE  HlInv'
<1>1. PICK p : p = [pc |-> "editRead", game |-> g]
  OBVIOUS
<1>2. /\ hlReq[r].pc = "idle" /\ (hlRow' = hlRow \/ hlRow' = [hlRow EXCEPT ![g].edits = @ + 1])
      /\ hlReq' = [hlReq EXCEPT ![r] = p]
      /\ UNCHANGED <<hlMap, hlReceipt, hlShown, hlBg, hlLock, hlDoc, hlRegressed>>
  BY <1>1 DEF EditSave, Become
<1>3. hlReq'[r] = p /\ DOMAIN hlReq' = HlReqs /\ \A s \in HlReqs \ {r} : hlReq'[s] = hlReq[s]
  BY <1>2, RequestMoves
<1>4. hlRow' \in [HlGames -> Snapshots] /\ \A h \in HlGames : hlRow'[h].applied = hlRow[h].applied
  <2>1. PICK old : old = hlRow[g]
    OBVIOUS
  <2>2. PICK row : row = [old EXCEPT !.edits = @ + 1]
    OBVIOUS
  <2>3. old \in Snapshots
    BY <2>1 DEF HlInv, HlTypeOK
  <2>4. row \in Snapshots /\ row.applied = old.applied
    BY <2>2, <2>3 DEF Snapshots
  <2>5. hlRow' = hlRow \/ hlRow' = [hlRow EXCEPT ![g] = row]
    BY <1>2, <2>1, <2>2
  <2> QED
    BY <2>1, <2>4, <2>5 DEF HlInv, HlTypeOK
<1>5. /\ HlTypeOK' /\ ReceiptsAreSound' /\ BindingsAreSound(hlMap)' /\ HlSyncedMeansIndexed'
  BY <1>2, <1>4 DEF HlInv, HlTypeOK, ReceiptsAreSound, BindingsAreSound, HlSyncedMeansIndexed
<1>6. Grows /\ \A s \in HlReqs : Undisturbed(hlReq[s])
  <2>1. \A h \in HlGames : hlRow[h].applied \in Nat
    BY DEF HlInv, HlTypeOK, Snapshots
  <2> QED
    BY <1>2, <1>4, <2>1 DEF Grows, Undisturbed
<1>7. RequestIsSound(hlReq[r])' /\ hlReq'[r].pc \notin Syncing
  BY <1>1, <1>3 DEF RequestIsSound, Syncing
<1>8. RequestsAreSound'
  BY <1>3, <1>6, <1>7, OthersStay
<1>9. LocksAreHeld'
  BY <1>2, <1>3, <1>7, LocksStay DEF HeldBy, Syncing
<1>10. RefreshIsOrdered'
  BY <1>2, RefreshStays
<1> QED
  BY <1>5, <1>8, <1>9, <1>10 DEF HlInv

\* An index call that makes the document older is remembered.
LEMMA EditIndexKeeps ==
  ASSUME HlInv, NEW r \in HlReqs, EditIndex(r)
  PROVE  HlInv'
<1>1. PICK q : q = hlReq[r]
  OBVIOUS
<1>2. q.pc = "editIndex" /\ q.game \in HlGames /\ q.row \in Snapshots
  BY <1>1 DEF EditIndex, HlInv, RequestsAreSound, RequestIsSound, Applying
<1>3. /\ hlDoc' = [hlDoc EXCEPT ![q.game] = q.row] /\ hlReq' = [hlReq EXCEPT ![r] = Idle]
      /\ hlRegressed' = IF q.row.applied < hlDoc[q.game].applied
                        THEN hlRegressed \union {q.game} ELSE hlRegressed
      /\ UNCHANGED <<hlRow, hlMap, hlReceipt, hlShown, hlBg, hlLock>>
  BY <1>1 DEF EditIndex, Become
<1>4. hlReq'[r] = Idle /\ DOMAIN hlReq' = HlReqs /\ \A s \in HlReqs \ {r} : hlReq'[s] = hlReq[s]
  BY <1>3, RequestMoves
<1>5. /\ hlDoc' \in [HlGames -> Snapshots] /\ hlDoc'[q.game] = q.row
      /\ \A g \in HlGames \ {q.game} : hlDoc'[g] = hlDoc[g]
  BY <1>2, <1>3 DEF HlInv, HlTypeOK
<1>6. HlTypeOK' /\ ReceiptsAreSound' /\ BindingsAreSound(hlMap)'
  BY <1>2, <1>3, <1>5 DEF HlInv, HlTypeOK, ReceiptsAreSound, BindingsAreSound
<1>7. hlDoc[q.game].applied \in Nat /\ q.row.applied \in Nat
  BY <1>2 DEF HlInv, HlTypeOK, Snapshots
<1>8. /\ hlRegressed \subseteq hlRegressed'
      /\ q.game \in hlRegressed' \/ hlDoc[q.game].applied <= q.row.applied
  BY <1>3, <1>7
<1>9. HlSyncedMeansIndexed'
  <2>1. \A g \in HlGames : hlReceipt[g].sync \in Nat
    BY DEF HlInv, ReceiptsAreSound, HlTypeOK, Snapshots
  <2> QED
    BY <1>3, <1>5, <1>7, <1>8, <2>1 DEF HlInv, HlSyncedMeansIndexed
<1>10. RequestsAreSound'
  <2>1. Grows
    BY <1>3, <1>8, RowsGrow DEF HlInv
  <2>2. \A s \in HlReqs : Undisturbed(hlReq[s])
    <3>1. \A s \in HlReqs : hlReq[s].pc = "clear" => hlReq[s].game \in HlGames
      BY DEF HlInv, RequestsAreSound, RequestIsSound, SyncIsSound, Applying
    <3> QED
      BY <1>3, <1>5, <1>7, <1>8, <3>1 DEF Undisturbed
  <2>3. RequestIsSound(hlReq[r])'
    BY <1>4 DEF RequestIsSound, Idle
  <2> QED
    BY <1>4, <2>1, <2>2, <2>3, OthersStay
<1>11. LocksAreHeld'
  BY <1>1, <1>2, <1>3, <1>4, LocksStay DEF HeldBy, Syncing, Idle
<1>12. RefreshIsOrdered'
  BY <1>3, RefreshStays
<1> QED
  BY <1>6, <1>9, <1>10, <1>11, <1>12 DEF HlInv

-----------------------------------------------------------------------------
(* Steps of nobody's, and the refresh *)

LEMMA ExpireKeeps ==
  ASSUME HlInv, NEW g \in HlGames, Expire(g)
  PROVE  HlInv'
<1>1. /\ hlReceipt' = [hlReceipt EXCEPT ![g].live = FALSE]
      /\ UNCHANGED <<hlRow, hlMap, hlShown, hlReq, hlBg, hlLock, hlDoc, hlRegressed>>
  BY DEF Expire
<1>2. PICK old : old = hlReceipt[g]
  OBVIOUS
<1>3. PICK receipt : receipt = [old EXCEPT !.live = FALSE]
  OBVIOUS
<1>4. /\ {"rid", "version", "ids", "live", "pending", "sync"} \subseteq DOMAIN old
      /\ DOMAIN hlReceipt = HlGames
  BY <1>2 DEF HlInv, ReceiptsAreSound
<1>5. /\ DOMAIN receipt = DOMAIN old /\ receipt.ids = old.ids
      /\ receipt.pending = old.pending /\ receipt.sync = old.sync
  BY <1>3, <1>4
<1>6. hlReceipt' = [hlReceipt EXCEPT ![g] = receipt]
  BY <1>1, <1>2, <1>3
<1>7. DOMAIN hlReceipt' = HlGames
      /\ \A h \in HlGames : /\ DOMAIN hlReceipt'[h] = DOMAIN hlReceipt[h]
                            /\ hlReceipt'[h].ids = hlReceipt[h].ids
                            /\ hlReceipt'[h].pending = hlReceipt[h].pending
                            /\ hlReceipt'[h].sync = hlReceipt[h].sync
  BY <1>2, <1>4, <1>5, <1>6
<1>8. ReceiptsAreSound'
  BY <1>1, <1>7 DEF HlInv, ReceiptsAreSound
<1>9. HlTypeOK' /\ BindingsAreSound(hlMap)' /\ LocksAreHeld'
  BY <1>1 DEF HlInv, HlTypeOK, BindingsAreSound, LocksAreHeld, HeldBy
<1>10. RequestsAreSound'
  <2>1. Grows
    BY <1>1, RowsGrow DEF HlInv
  <2>2. \A s \in HlReqs : hlReq[s].pc = "import" => hlReq[s].game \in HlGames
    BY DEF HlInv, RequestsAreSound, RequestIsSound, SyncIsSound, Applying
  <2>3. \A s \in HlReqs : Undisturbed(hlReq[s])
    BY <1>1, <1>7, <2>2 DEF Undisturbed
  <2> QED
    BY <1>1, <2>1, <2>3, AllStay
<1>11. RefreshIsOrdered'
  BY <1>1, RefreshStays
<1>12. HlSyncedMeansIndexed'
  BY <1>1, <1>7 DEF HlInv, HlSyncedMeansIndexed
<1> QED
  BY <1>8, <1>9, <1>10, <1>11, <1>12 DEF HlInv

\* A refresh that is idle holds no lock.
LEMMA BgStartKeeps ==
  ASSUME HlInv, NEW updates \in HlMatches, BgStart(updates)
  PROVE  HlInv'
<1>1. PICK bg : bg = [pc |-> "lock", updates |-> updates, runs |-> hlBg.runs + 1]
  OBVIOUS
<1>2. /\ hlBg.pc = "idle" /\ hlBg' = bg
      /\ UNCHANGED <<hlRow, hlMap, hlReceipt, hlShown, hlReq, hlLock, hlDoc, hlRegressed>>
  BY <1>1 DEF BgStart
<1>3. bg.pc = "lock" /\ {"pc", "updates", "runs"} \subseteq DOMAIN bg
      /\ bg.updates \in Seq(HlGames \X HlIds)
  BY <1>1, HltbAssumption
<1>4. HlTypeOK'
  BY <1>2, <1>3 DEF HlInv, HlTypeOK
<1>5. /\ ReceiptsAreSound' /\ BindingsAreSound(hlMap)' /\ HlSyncedMeansIndexed' /\ LocksAreHeld'
  BY <1>2 DEF HlInv, ReceiptsAreSound, BindingsAreSound, HlSyncedMeansIndexed, LocksAreHeld, HeldBy
<1>6. RequestsAreSound'
  <2>1. Grows /\ \A s \in HlReqs : Undisturbed(hlReq[s])
    BY <1>2, RowsGrow DEF HlInv, Undisturbed
  <2> QED
    BY <1>2, <2>1, AllStay
<1>7. RefreshIsOrdered'
  <2>1. Held("bg") = {}
    BY <1>2 DEF HlInv, RefreshIsOrdered
  <2>2. Held("bg")' = {}
    BY <1>2, <2>1 DEF Held
  <2> QED
    BY <2>2 DEF RefreshIsOrdered
<1> QED
  BY <1>4, <1>5, <1>6, <1>7 DEF HlInv

\* It takes a row only when it holds every id.
LEMMA BgLockKeeps ==
  ASSUME HlInv, BgLock
  PROVE  HlInv'
<1>1. PICK l \in BgWanted :
        /\ hlBg.pc = "lock" /\ Free(l) /\ hlLock' = [hlLock EXCEPT ![l] = "bg"]
        /\ UNCHANGED <<hlRow, hlMap, hlReceipt, hlShown, hlReq, hlBg, hlDoc, hlRegressed>>
  BY DEF BgLock
<1>2. l \in Locks /\ hlLock[l] = "free"
      /\ (l \in BgIds \/ (l \in ScoredRows /\ BgIds \subseteq Held("bg")))
  BY <1>1, RefreshWants DEF HlInv, Free
<1>3. /\ HlTypeOK' /\ ReceiptsAreSound' /\ BindingsAreSound(hlMap)' /\ HlSyncedMeansIndexed'
  BY <1>1 DEF HlInv, HlTypeOK, ReceiptsAreSound, BindingsAreSound, HlSyncedMeansIndexed
<1>4. RequestsAreSound'
  <2>1. Grows /\ \A s \in HlReqs : Undisturbed(hlReq[s])
    BY <1>1, RowsGrow DEF HlInv, Undisturbed
  <2> QED
    BY <1>1, <2>1, AllStay
<1>5. /\ hlLock' \in [Locks -> HlReqs \union {"bg", "free"}]
      /\ hlLock'[l] = "bg" /\ \A m \in Locks \ {l} : hlLock'[m] = hlLock[m]
  BY <1>1, <1>2 DEF HlInv, LocksAreHeld
<1>6. LocksAreHeld'
  <2>1. ASSUME NEW s \in HlReqs, NEW m \in Locks, hlLock'[m] = s
        PROVE  HeldBy(hlReq'[s], m)
    <3>1. m # l
      BY <1>5, <2>1, HltbAssumption
    <3> QED
      BY <1>1, <1>5, <2>1, <3>1 DEF HlInv, LocksAreHeld
  <2>2. ASSUME NEW s \in HlReqs, hlReq'[s].pc \in Syncing
        PROVE  hlLock'[<<"search", hlReq'[s].game>>] = s
    <3>1. hlLock[<<"search", hlReq[s].game>>] = s
      BY <1>1, <2>2 DEF HlInv, LocksAreHeld
    <3>2. <<"search", hlReq[s].game>> \in Locks
      BY <1>1, <2>2
         DEF HlInv, RequestsAreSound, RequestIsSound, SyncIsSound, Syncing, Applying, Locks
    <3> QED
      BY <1>1, <1>2, <1>5, <3>1, <3>2, HltbAssumption
  <2> QED
    BY <1>5, <2>1, <2>2 DEF LocksAreHeld, HeldBy
<1>7. RefreshIsOrdered'
  <2>1. Held("bg")' = Held("bg") \union {l}
    BY <1>2, <1>5 DEF Held
  <2>2. BgIds' = BgIds /\ BgRows' = BgRows
    BY <1>1 DEF BgIds, BgRows
  <2>3. ASSUME NEW m \in Held("bg")'
        PROVE  m \in BgIds \/ (m \in ScoredRows /\ BgIds \subseteq Held("bg")')
    BY <1>2, <2>1 DEF HlInv, RefreshIsOrdered
  <2> QED
    BY <1>1, <2>2, <2>3 DEF RefreshIsOrdered
<1> QED
  BY <1>3, <1>4, <1>6, <1>7 DEF HlInv

\* The refresh ends: nobody else's locks change.
LEMMA RefreshReleases ==
  ASSUME HlInv, hlLock' = Release("bg"), hlReq' = hlReq
  PROVE  LocksAreHeld' /\ RefreshIsOrdered'
<1>1. /\ hlLock' \in [Locks -> HlReqs \union {"bg", "free"}]
      /\ \A l \in Locks : \A s : s \notin {"bg", "free"} => (hlLock'[l] = s <=> hlLock[l] = s)
      /\ \A l \in Locks : hlLock'[l] # "bg"
  BY Released DEF HlInv
<1>2. LocksAreHeld'
  <2>1. ASSUME NEW s \in HlReqs, NEW l \in Locks, hlLock'[l] = s
        PROVE  HeldBy(hlReq'[s], l)
    BY <1>1, <2>1, HltbAssumption DEF HlInv, LocksAreHeld
  <2>2. ASSUME NEW s \in HlReqs, hlReq'[s].pc \in Syncing
        PROVE  hlLock'[<<"search", hlReq'[s].game>>] = s
    <3>1. hlLock[<<"search", hlReq[s].game>>] = s
      BY <2>2 DEF HlInv, LocksAreHeld
    <3>2. <<"search", hlReq[s].game>> \in Locks
      BY <2>2 DEF HlInv, RequestsAreSound, RequestIsSound, SyncIsSound, Syncing, Applying, Locks
    <3> QED
      BY <1>1, <3>1, <3>2, HltbAssumption
  <2> QED
    BY <1>1, <2>1, <2>2 DEF LocksAreHeld, HeldBy
<1>3. RefreshIsOrdered'
  BY <1>1 DEF RefreshIsOrdered, Held
<1> QED
  BY <1>2, <1>3

\* What the refresh writes.
LEMMA RefreshWrites ==
  ASSUME HlInv, BgCommit
  PROVE  \E t : TablesAreSound(t) /\ hlMap' = t.map /\ hlRow' = t.row
BY SupplementedIsSound DEF BgCommit

LEMMA BgCommitKeeps ==
  ASSUME HlInv, BgCommit
  PROVE  HlInv'
<1>1. PICK t : TablesAreSound(t) /\ hlMap' = t.map /\ hlRow' = t.row
  BY RefreshWrites
<1>2. PICK bg : bg = [hlBg EXCEPT !.pc = "idle", !.updates = <<>>]
  OBVIOUS
<1>3. /\ hlLock' = Release("bg") /\ hlBg' = bg
      /\ UNCHANGED <<hlReceipt, hlShown, hlReq, hlDoc, hlRegressed>>
  BY <1>2 DEF BgCommit
<1>4. bg.pc = "idle" /\ {"pc", "updates", "runs"} \subseteq DOMAIN bg /\ bg.updates = <<>>
  BY <1>2 DEF HlInv, HlTypeOK
<1>5. /\ hlMap' \in [HlGames -> Bindings] /\ hlRow' \in [HlGames -> Snapshots]
      /\ BindingsAreSound(hlMap')
      /\ \A g \in HlGames : hlRow'[g].applied = hlRow[g].applied
  BY <1>1 DEF TablesAreSound
<1>6. HlTypeOK'
  <2>1. <<>> \in Seq(HlGames \X HlIds)
    OBVIOUS
  <2> QED
    BY <1>3, <1>4, <1>5, <2>1 DEF HlInv, HlTypeOK, Bindings
<1>7. ReceiptsAreSound' /\ BindingsAreSound(hlMap)' /\ HlSyncedMeansIndexed'
  BY <1>3, <1>5 DEF HlInv, ReceiptsAreSound, BindingsAreSound, HlSyncedMeansIndexed
<1>8. RequestsAreSound'
  <2>1. \A g \in HlGames : hlRow[g].applied \in Nat
    BY DEF HlInv, HlTypeOK, Snapshots
  <2>2. Grows /\ \A s \in HlReqs : Undisturbed(hlReq[s])
    BY <1>3, <1>5, <2>1 DEF Grows, Undisturbed
  <2> QED
    BY <1>3, <2>2, AllStay
<1>9. LocksAreHeld' /\ RefreshIsOrdered'
  BY <1>3, RefreshReleases
<1> QED
  BY <1>6, <1>7, <1>8, <1>9 DEF HlInv

\* Rolled back, it has let go of its locks.
LEMMA BgGiveUpKeeps ==
  ASSUME HlInv, BgGiveUp
  PROVE  HlInv'
<1>1. PICK bg : bg = [hlBg EXCEPT !.pc = "idle", !.updates = <<>>]
  OBVIOUS
<1>2. /\ hlLock' = Release("bg") /\ hlBg' = bg
      /\ UNCHANGED <<hlRow, hlMap, hlReceipt, hlShown, hlReq, hlDoc, hlRegressed>>
  BY <1>1 DEF BgGiveUp
<1>3. bg.pc = "idle" /\ {"pc", "updates", "runs"} \subseteq DOMAIN bg /\ bg.updates = <<>>
  BY <1>1 DEF HlInv, HlTypeOK
<1>4. HlTypeOK'
  <2>1. <<>> \in Seq(HlGames \X HlIds)
    OBVIOUS
  <2> QED
    BY <1>2, <1>3, <2>1 DEF HlInv, HlTypeOK
<1>5. ReceiptsAreSound' /\ BindingsAreSound(hlMap)' /\ HlSyncedMeansIndexed'
  BY <1>2 DEF HlInv, ReceiptsAreSound, BindingsAreSound, HlSyncedMeansIndexed
<1>6. RequestsAreSound'
  <2>1. Grows /\ \A s \in HlReqs : Undisturbed(hlReq[s])
    BY <1>2, RowsGrow DEF HlInv, Undisturbed
  <2> QED
    BY <1>2, <2>1, AllStay
<1>7. LocksAreHeld' /\ RefreshIsOrdered'
  BY <1>2, RefreshReleases
<1> QED
  BY <1>4, <1>5, <1>6, <1>7 DEF HlInv

-----------------------------------------------------------------------------
(* The invariant and what follows *)

LEMMA StutterKeeps ==
  ASSUME HlInv, UNCHANGED hlVars
  PROVE  HlInv'
BY DEF hlVars, HlInv, HlTypeOK, ReceiptsAreSound, RequestsAreSound, RequestIsSound, ApplyIsSound,
       SyncIsSound, ImportIsSound, BindingsAreSound, LocksAreHeld, HeldBy, RefreshIsOrdered,
       BgIds, Held, HlSyncedMeansIndexed

LEMMA HlInitInv == HlInit => HlInv
<1> SUFFICES ASSUME HlInit PROVE HlInv
  OBVIOUS
<1>1. HlTypeOK
  <2>1. <<>> \in Seq(HlGames \X HlIds)
    OBVIOUS
  <2>2. StartRows \subseteq Snapshots
    <3>1. {0} \union HlTimed \subseteq Nat
      BY HltbAssumption
    <3> QED
      BY <3>1 DEF StartRows, Snapshots
  <2>3. hlRow \in [HlGames -> Snapshots]
    BY <2>2 DEF HlInit
  <2> QED
    BY <2>1, <2>3 DEF HlInit, HlTypeOK
<1>2. ReceiptsAreSound /\ HlSyncedMeansIndexed
  BY DEF HlInit, ReceiptsAreSound, HlSyncedMeansIndexed, StartRows
<1>3. RequestsAreSound
  BY DEF HlInit, RequestsAreSound, RequestIsSound, Idle
<1>4. BindingsAreSound(hlMap)
  BY DEF HlInit, BindingsAreSound
<1>5. LocksAreHeld
  BY HltbAssumption DEF HlInit, LocksAreHeld, Idle, Syncing
<1>6. RefreshIsOrdered
  BY DEF HlInit, RefreshIsOrdered, Held
<1> QED
  BY <1>1, <1>2, <1>3, <1>4, <1>5, <1>6 DEF HlInv

LEMMA HlStepKeeps ==
  ASSUME HlInv, NEW r \in HlReqs, HlStep(r)
  PROVE  HlInv'
<1>1. CASE \E g \in HlGames : LookupStart(r, g) \/ RetrySync(r, g) \/ EditSave(r, g)
  BY <1>1, LookupStartKeeps, RetrySyncKeeps, EditSaveKeeps
<1>2. CASE LookupSave(r)
  BY <1>2, LookupSaveKeeps
<1>3. CASE \E s \in hlShown, replace \in BOOLEAN : \E id \in s.ids : ApplyStart(r, s, id, replace)
  BY <1>3, ApplyStartKeeps
<1>4. CASE ApplyLockId(r) \/ ApplyReadGame(r) \/ ApplyLockRow(r) \/ SearchLock(r)
  BY <1>4, TakeKeeps, ApplyReadGameKeeps DEF ApplyLockId, ApplyLockRow, SearchLock
<1>5. CASE ApplyCommit(r)
  BY <1>5, ApplyCommitKeeps
<1>6. CASE GiveUp(r)
  BY <1>6, GiveUpKeeps
<1>7. CASE SearchRead(r) \/ SearchImport(r) \/ SearchClear(r)
  BY <1>7, SearchReadKeeps, SearchImportKeeps, SearchClearKeeps
<1>8. CASE EditRead(r) \/ EditIndex(r)
  BY <1>8, EditReadKeeps, EditIndexKeeps
<1> QED
  BY <1>1, <1>2, <1>3, <1>4, <1>5, <1>6, <1>7, <1>8 DEF HlStep

LEMMA HlNextKeeps ==
  ASSUME HlInv, [HlNext]_hlVars
  PROVE  HlInv'
BY HlStepKeeps, ExpireKeeps, BgStartKeeps, BgLockKeeps, BgCommitKeeps, BgGiveUpKeeps,
   StutterKeeps
   DEF HlNext

\* The inductive invariant of the lookup, the apply and the refresh
\* (hltb.service.ts, hltb.repository.ts, games.repository.ts:503-541).
THEOREM MappingInductive == HlSpec => []HlInv
<1>1. HlInv /\ [HlNext]_hlVars => HlInv'
  BY HlNextKeeps
<1> QED
  BY HlInitInv, <1>1, PTL DEF HlSpec

\* A cleared pending flag is the truth about the document, unless an ordinary
\* index call overwrote it (hltb.service.ts:76-84, hltb.repository.ts:73-84).
THEOREM SyncedMeansIndexed == HlSpec => []HlSyncedMeansIndexed
<1>1. HlInv => HlSyncedMeansIndexed
  BY DEF HlInv
<1> QED
  BY MappingInductive, <1>1, PTL

\* No set of requests, with the refresh or without it, waits for its own members
\* (games.repository.ts:517-523).
THEOREM NoLockCycle == HlSpec => []HlNoLockCycle
BY MappingInductive, NoCircle, PTL

\* Only an apply moves the applied version.
LEMMA OnlyAppliesCount ==
  ASSUME HlInv, [HlNext]_hlVars, NEW g \in HlGames, hlRow'[g].applied # hlRow[g].applied
  PROVE  \E r \in HlReqs : ApplyCommit(r)
<1> SUFFICES ASSUME ~\E r \in HlReqs : ApplyCommit(r) PROVE FALSE
  OBVIOUS
<1>1. hlRow[g] \in Snapshots /\ DOMAIN hlRow = HlGames
  BY DEF HlInv, HlTypeOK
<1>2. ~UNCHANGED hlRow
  OBVIOUS
<1>3. ASSUME NEW r \in HlReqs, NEW h \in HlGames, EditSave(r, h)
      PROVE  FALSE
  <2>1. hlRow' = [hlRow EXCEPT ![h].edits = @ + 1]
    BY <1>2, <1>3 DEF EditSave
  <2>2. hlRow'[g].applied = hlRow[g].applied
    BY <1>1, <2>1 DEF HlInv, HlTypeOK, Snapshots
  <2> QED
    BY <2>2
<1>4. ~BgCommit
  BY RefreshWrites DEF TablesAreSound
<1> QED
  BY <1>2, <1>3, <1>4
     DEF HlNext, HlStep, hlVars, LookupStart, RetrySync, LookupSave, ApplyStart, ApplyLockId,
         ApplyReadGame, ApplyLockRow, Take, GiveUp, SearchLock, SearchRead, SearchImport, SearchClear, EditRead,
         EditIndex, Expire, BgStart, BgLock, BgGiveUp

-----------------------------------------------------------------------------
(* What an apply saw of the binding *)

Known(rid) == rid \in Nat /\ rid <= Lookups

\* The binding an apply read is the table's, or the refresh made one since, or
\* the receipt it would need has been used, has expired or was replaced.
SeenStands(q) ==
  q.pc \in {"lockRow", "write"} =>
    \/ q.seen = hlMap[q.game].id
    \/ q.seen = 0 /\ ~hlMap[q.game].manual
    \/ ~(hlReceipt[q.game].live /\ hlReceipt[q.game].rid = q.rid)

ReviewInv ==
  /\ IsFiniteSet(hlShown)
  /\ \A s \in hlShown : Known(s.rid)
  /\ \A g \in HlGames : Known(hlReceipt[g].rid)
  /\ \A r \in HlReqs : hlReq[r].pc \in Applying => Known(hlReq[r].rid) /\ SeenStands(hlReq[r])

LEMMA LookupsGrow ==
  ASSUME ReviewInv, IsFiniteSet(hlShown'), hlShown \subseteq hlShown'
  PROVE  /\ Lookups \in Nat /\ Lookups' \in Nat /\ Lookups <= Lookups'
         /\ \A rid : Known(rid) => Known(rid)'
<1>1. Lookups \in Nat /\ Lookups' \in Nat
  BY FS_CardinalityType DEF ReviewInv, Lookups
<1>2. Lookups <= Lookups'
  BY FS_Subset DEF Lookups
<1> QED
  BY <1>1, <1>2 DEF Known

\* A receipt that is live with a known id was so before; a binding changes under
\* a dead receipt, or it is made where there was none, and not by hand.
LEMMA ReviewStays ==
  ASSUME HlInv, ReviewInv, DOMAIN hlReq' = HlReqs,
         IsFiniteSet(hlShown'), hlShown \subseteq hlShown',
         \A s \in hlShown' : Known(s.rid)',
         \A g \in HlGames :
           /\ Known(hlReceipt[g].rid)'
           /\ hlReceipt'[g].live /\ hlReceipt'[g].rid <= Lookups =>
                hlReceipt[g].live /\ hlReceipt[g].rid = hlReceipt'[g].rid
           /\ hlReceipt'[g].live =>
                /\ hlMap'[g].manual = hlMap[g].manual
                /\ hlMap[g].id # 0 => hlMap'[g].id = hlMap[g].id,
         \A r \in HlReqs : hlReq'[r].pc \in Applying =>
           hlReq'[r] = hlReq[r] \/ (Known(hlReq'[r].rid) /\ SeenStands(hlReq[r])')
  PROVE  ReviewInv'
<1>1. \A rid : Known(rid) => Known(rid)'
  BY LookupsGrow
<1>2. ASSUME NEW r \in HlReqs, hlReq'[r].pc \in Applying
      PROVE  Known(hlReq[r].rid)' /\ SeenStands(hlReq[r])'
  <2>1. CASE hlReq'[r] # hlReq[r]
    <3>1. Known(hlReq'[r].rid) /\ SeenStands(hlReq[r])'
      BY <1>2, <2>1
    <3>2. PICK rid : rid = hlReq'[r].rid
      OBVIOUS
    <3>3. Known(rid)'
      BY <1>1, <3>1, <3>2
    <3> QED
      BY <3>1, <3>2, <3>3 DEF Known
  <2>2. CASE hlReq'[r] = hlReq[r]
    <3>1. PICK q : q = hlReq[r]
      OBVIOUS
    <3>2. q.game \in HlGames /\ Known(q.rid) /\ SeenStands(q)
      BY <1>2, <2>2, <3>1
         DEF ReviewInv, HlInv, RequestsAreSound, RequestIsSound, ApplyIsSound, Applying
    <3>3. Known(q.rid)'
      BY <1>1, <3>2
    <3>4. hlReceipt'[q.game].live /\ hlReceipt'[q.game].rid = q.rid =>
            hlReceipt[q.game].live /\ hlReceipt[q.game].rid = q.rid
      BY <3>2 DEF Known
    <3>5. hlMap[q.game].manual => hlMap[q.game].id # 0
      BY <3>2 DEF HlInv, BindingsAreSound
    <3>6. hlReceipt'[q.game].live =>
            /\ hlMap'[q.game].manual = hlMap[q.game].manual
            /\ hlMap[q.game].id # 0 => hlMap'[q.game].id = hlMap[q.game].id
      BY <3>2
    <3>7. q.pc \in {"lockRow", "write"} =>
            \/ q.seen = hlMap'[q.game].id
            \/ q.seen = 0 /\ ~hlMap'[q.game].manual
            \/ ~(hlReceipt'[q.game].live /\ hlReceipt'[q.game].rid = q.rid)
      <4>1. CASE q.seen = 0 /\ ~hlMap[q.game].manual
        BY <3>6, <4>1
      <4>2. CASE q.seen = hlMap[q.game].id /\ hlMap[q.game].id # 0
        BY <3>6, <4>2
      <4>3. CASE q.seen = hlMap[q.game].id /\ hlMap[q.game].id = 0
        BY <3>5, <3>6, <4>3
      <4>4. CASE ~(hlReceipt[q.game].live /\ hlReceipt[q.game].rid = q.rid)
        BY <3>4, <4>4
      <4> QED
        BY <3>2, <4>1, <4>2, <4>3, <4>4 DEF SeenStands
    <3> QED
      BY <2>2, <3>1, <3>3, <3>7 DEF Known, SeenStands
  <2> QED
    BY <2>1, <2>2
<1> QED
  BY <1>2 DEF ReviewInv, Known

\* A step that shows nothing new, with what it may do to receipts and bindings.
LEMMA ReviewStaysUnshown ==
  ASSUME HlInv, ReviewInv, DOMAIN hlReq' = HlReqs, hlShown' = hlShown,
         \A g \in HlGames : /\ hlReceipt'[g].rid = hlReceipt[g].rid
                            /\ hlReceipt'[g].live => hlReceipt[g].live,
         \A g \in HlGames : hlReceipt'[g].live =>
           /\ hlMap'[g].manual = hlMap[g].manual
           /\ hlMap[g].id # 0 => hlMap'[g].id = hlMap[g].id,
         \A r \in HlReqs : hlReq'[r].pc \in Applying =>
           hlReq'[r] = hlReq[r] \/ (Known(hlReq'[r].rid) /\ SeenStands(hlReq[r])')
  PROVE  ReviewInv'
<1>1. \A rid : Known(rid)' <=> Known(rid)
  BY DEF Known, Lookups
<1>2. IsFiniteSet(hlShown') /\ hlShown \subseteq hlShown'
  BY DEF ReviewInv
<1>3. \A s \in hlShown' : Known(s.rid)'
  BY DEF ReviewInv, Known, Lookups
<1>4. ASSUME NEW g \in HlGames
      PROVE  Known(hlReceipt[g].rid)'
  BY DEF ReviewInv, Known, Lookups
<1> QED
  BY <1>2, <1>3, <1>4, ReviewStays

ReceiptsLast ==
  \A g \in HlGames : /\ hlReceipt'[g].rid = hlReceipt[g].rid
                     /\ hlReceipt'[g].live => hlReceipt[g].live

BindingsLast ==
  \A g \in HlGames : hlReceipt'[g].live =>
    /\ hlMap'[g].manual = hlMap[g].manual
    /\ hlMap[g].id # 0 => hlMap'[g].id = hlMap[g].id

AppliesLast == \A r \in HlReqs : hlReq'[r].pc \in Applying => hlReq'[r] = hlReq[r]

\* No apply begins or moves.
LEMMA ReviewLasts ==
  ASSUME HlInv, ReviewInv, DOMAIN hlReq' = HlReqs, hlShown' = hlShown,
         ReceiptsLast, BindingsLast, AppliesLast
  PROVE  ReviewInv'
BY ReviewStaysUnshown DEF ReceiptsLast, BindingsLast, AppliesLast

\* A step of request r that leaves receipts, results and bindings alone, after
\* which it is not in the middle of an apply.
LEMMA ReviewUntouched ==
  ASSUME HlInv, ReviewInv, UNCHANGED <<hlMap, hlReceipt, hlShown>>, DOMAIN hlReq' = HlReqs,
         \A r \in HlReqs : hlReq'[r].pc \in Applying => hlReq'[r] = hlReq[r]
  PROVE  ReviewInv'
BY ReviewLasts DEF ReceiptsLast, BindingsLast, AppliesLast

LEMMA LookupStartReviews ==
  ASSUME HlInv, ReviewInv, NEW r \in HlReqs, NEW g \in HlGames, LookupStart(r, g)
  PROVE  ReviewInv'
<1>1. UNCHANGED <<hlMap, hlReceipt>>
  BY DEF LookupStart
<1>2. CASE /\ hlShown' = hlShown \union {Result([pc |-> "save", game |-> g, version |-> GameVersion(g)],
                                                hlReceipt[g])}
           /\ hlReq' = hlReq
  <2>1. PICK x : x = Result([pc |-> "save", game |-> g, version |-> GameVersion(g)], hlReceipt[g])
    OBVIOUS
  <2>2. x.rid = hlReceipt[g].rid /\ Known(x.rid)
    BY <2>1 DEF Result, ReviewInv
  <2>3. hlShown' = hlShown \union {x} /\ IsFiniteSet(hlShown')
    BY <1>2, <2>1, FS_AddElement DEF ReviewInv
  <2>4. \A rid : Known(rid) => Known(rid)'
    BY <2>3, LookupsGrow
  <2>5. ASSUME NEW s \in hlShown' PROVE Known(s.rid)'
    <3>1. PICK rid : rid = s.rid
      OBVIOUS
    <3>2. Known(rid)
      BY <2>2, <2>3, <3>1 DEF ReviewInv
    <3>3. Known(rid)'
      BY <2>4, <3>2
    <3> QED
      BY <3>1, <3>3 DEF Known
  <2>6. ASSUME NEW h \in HlGames PROVE Known(hlReceipt[h].rid)'
    <3>1. PICK rid : rid = hlReceipt[h].rid
      OBVIOUS
    <3>2. Known(rid)'
      BY <2>4, <3>1 DEF ReviewInv
    <3> QED
      BY <1>1, <3>1, <3>2 DEF Known
  <2> QED
    BY <1>1, <1>2, <2>3, <2>5, <2>6, ReviewStays DEF HlInv, RequestsAreSound
<1>3. ASSUME NEW ids, hlShown' = hlShown,
             hlReq' = [hlReq EXCEPT ![r] =
               [pc |-> "save", game |-> g, version |-> GameVersion(g), ids |-> ids]]
      PROVE  ReviewInv'
  <2>1. PICK state :
          state = [pc |-> "save", game |-> g, version |-> GameVersion(g), ids |-> ids]
    OBVIOUS
  <2>2. hlReq'[r] = state /\ DOMAIN hlReq' = HlReqs /\ \A s \in HlReqs \ {r} : hlReq'[s] = hlReq[s]
    BY <1>3, <2>1, RequestMoves
  <2>3. state.pc \notin Applying
    BY <2>1 DEF Applying
  <2> QED
    BY <1>1, <1>3, <2>2, <2>3, ReviewUntouched
<1> QED
  BY <1>2, <1>3 DEF LookupStart, Become

\* A saved receipt has an id nobody has seen.
LEMMA LookupSaveReviews ==
  ASSUME HlInv, ReviewInv, NEW r \in HlReqs, LookupSave(r)
  PROVE  ReviewInv'
<1>1. PICK q : q = hlReq[r]
  OBVIOUS
<1>2. q.pc = "save" /\ q.game \in HlGames
  BY <1>1 DEF LookupSave, HlInv, RequestsAreSound, RequestIsSound, Applying
<1>3. PICK old, new : old = hlReceipt[q.game] /\ new = Saved(old, q)
  OBVIOUS
<1>4. new.rid = Lookups + 1 /\ DOMAIN hlReceipt = HlGames
  BY <1>2, <1>3 DEF Saved, HlInv, ReceiptsAreSound
<1>5. PICK x : x = Result(q, new)
  OBVIOUS
<1>6. x.rid = Lookups + 1
  BY <1>4, <1>5 DEF Result
<1>7. /\ hlReceipt' = [hlReceipt EXCEPT ![q.game] = new]
      /\ hlShown' = hlShown \union {x}
      /\ hlReq' = [hlReq EXCEPT ![r] = Idle]
      /\ hlMap' = hlMap
  BY <1>1, <1>3, <1>5 DEF LookupSave, Become
<1>8. hlReq'[r] = Idle /\ DOMAIN hlReq' = HlReqs /\ \A s \in HlReqs \ {r} : hlReq'[s] = hlReq[s]
  BY <1>7, RequestMoves
<1>9. Lookups \in Nat
  BY FS_CardinalityType DEF ReviewInv, Lookups
<1>10. x \notin hlShown
  BY <1>6, <1>9 DEF ReviewInv, Known
<1>11. IsFiniteSet(hlShown') /\ Lookups' = Lookups + 1
  BY <1>7, <1>10, FS_AddElement DEF ReviewInv, Lookups
<1>12. \A rid : Known(rid) \/ rid = Lookups + 1 => Known(rid)'
  BY <1>9, <1>11 DEF Known
<1>13. ASSUME NEW s \in hlShown' PROVE Known(s.rid)'
  <2>1. PICK rid : rid = s.rid
    OBVIOUS
  <2>2. Known(rid) \/ rid = Lookups + 1
    BY <1>6, <1>7, <2>1 DEF ReviewInv
  <2>3. Known(rid)'
    BY <1>12, <2>2
  <2> QED
    BY <2>1, <2>3 DEF Known
<1>14. /\ hlReceipt'[q.game] = new
       /\ \A g \in HlGames \ {q.game} : hlReceipt'[g] = hlReceipt[g]
  BY <1>2, <1>4, <1>7
<1>15. ASSUME NEW g \in HlGames PROVE Known(hlReceipt[g].rid)'
  <2>1. PICK rid : rid = hlReceipt'[g].rid
    OBVIOUS
  <2>2. Known(rid) \/ rid = Lookups + 1
    BY <1>4, <1>14, <2>1 DEF ReviewInv
  <2>3. Known(rid)'
    BY <1>12, <2>2
  <2> QED
    BY <2>1, <2>3 DEF Known
<1>16. ASSUME NEW g \in HlGames, hlReceipt'[g].live, hlReceipt'[g].rid <= Lookups
       PROVE  hlReceipt[g].live /\ hlReceipt[g].rid = hlReceipt'[g].rid
  <2>1. g # q.game
    BY <1>4, <1>9, <1>14, <1>16
  <2> QED
    BY <1>14, <1>16, <2>1
<1>17. hlReq'[r].pc \notin Applying
  BY <1>8 DEF Idle, Applying
<1> QED
  BY <1>7, <1>8, <1>11, <1>13, <1>15, <1>16, <1>17, ReviewStays

LEMMA ApplyStartReviews ==
  ASSUME HlInv, ReviewInv, NEW r \in HlReqs, NEW s \in hlShown, NEW id \in s.ids, NEW replace,
         ApplyStart(r, s, id, replace)
  PROVE  ReviewInv'
<1>1. PICK q : q = [pc |-> "lockId", game |-> s.game, rid |-> s.rid, version |-> s.version,
                    id |-> id, replace |-> replace, seen |-> hlMap[s.game].id]
  OBVIOUS
<1>2. hlReq' = [hlReq EXCEPT ![r] = q] /\ UNCHANGED <<hlMap, hlReceipt, hlShown>>
  BY <1>1 DEF ApplyStart, Become
<1>3. hlReq'[r] = q /\ DOMAIN hlReq' = HlReqs /\ \A o \in HlReqs \ {r} : hlReq'[o] = hlReq[o]
  BY <1>2, RequestMoves
<1>4. q.pc = "lockId" /\ q.rid = s.rid
  BY <1>1
<1>5. Known(hlReq'[r].rid) /\ SeenStands(hlReq[r])'
  BY <1>3, <1>4 DEF ReviewInv, SeenStands
<1> QED
  BY <1>2, <1>3, <1>5, ReviewStaysUnshown

\* The one step that reads the binding.
LEMMA ApplyReadGameReviews ==
  ASSUME HlInv, ReviewInv, NEW r \in HlReqs, ApplyReadGame(r)
  PROVE  ReviewInv'
<1>1. PICK q, p : q = hlReq[r] /\ p = hlReq'[r]
  OBVIOUS
<1>2. /\ q.pc = "readGame" /\ p.game = q.game /\ p.rid = q.rid /\ p.seen = hlMap[q.game].id
      /\ DOMAIN hlReq' = HlReqs /\ \A s \in HlReqs \ {r} : hlReq'[s] = hlReq[s]
      /\ UNCHANGED <<hlMap, hlReceipt, hlShown>>
  BY <1>1, ReadGameReads
<1>3. Known(hlReq'[r].rid) /\ SeenStands(hlReq[r])'
  BY <1>1, <1>2 DEF ReviewInv, SeenStands, Applying
<1> QED
  BY <1>2, <1>3, ReviewStaysUnshown

LEMMA ApplyLockReviews ==
  ASSUME HlInv, ReviewInv, NEW r \in HlReqs, ApplyLockId(r) \/ ApplyLockRow(r) \/ SearchLock(r)
  PROVE  ReviewInv'
<1>1. PICK q : q = hlReq[r]
  OBVIOUS
<1>2. PICK next : /\ Take(r, next)
                  /\ \/ q.pc = "lockId" /\ next = "readGame"
                     \/ q.pc = "lockRow" /\ next = "write"
                     \/ q.pc = "search" /\ next = "read"
  BY <1>1 DEF ApplyLockId, ApplyLockRow, SearchLock
<1>3. PICK p : p = [q EXCEPT !.pc = next]
  OBVIOUS
<1>4. hlReq' = [hlReq EXCEPT ![r] = p] /\ UNCHANGED <<hlMap, hlReceipt, hlShown>>
  BY <1>1, <1>2, <1>3 DEF Take
<1>5. hlReq'[r] = p /\ DOMAIN hlReq' = HlReqs /\ \A s \in HlReqs \ {r} : hlReq'[s] = hlReq[s]
  BY <1>4, RequestMoves
<1>6. CASE q.pc = "search"
  <2>1. {"pc"} \subseteq DOMAIN q
    BY <1>1, <1>6 DEF HlInv, RequestsAreSound, RequestIsSound, SyncIsSound, Applying
  <2>2. p.pc \notin Applying
    BY <1>2, <1>3, <1>6, <2>1 DEF Applying
  <2> QED
    BY <1>4, <1>5, <2>2, ReviewUntouched
<1>7. CASE q.pc \in {"lockId", "lockRow"}
  <2>1. ApplyIsSound(q)
    BY <1>1, <1>7 DEF HlInv, RequestsAreSound, RequestIsSound, Applying
  <2>2. p.pc = next /\ p.game = q.game /\ p.rid = q.rid /\ p.seen = q.seen
    BY <1>3, <2>1 DEF ApplyIsSound
  <2>3. Known(q.rid) /\ SeenStands(q)
    BY <1>1, <1>7 DEF ReviewInv, Applying
  <2>4. Known(hlReq'[r].rid) /\ SeenStands(hlReq[r])'
    BY <1>2, <1>4, <1>5, <1>7, <2>2, <2>3 DEF SeenStands
  <2> QED
    BY <1>4, <1>5, <2>4, ReviewStaysUnshown
<1> QED
  BY <1>2, <1>6, <1>7

\* The apply uses its receipt up.
LEMMA ApplyCommitReviews ==
  ASSUME HlInv, ReviewInv, NEW r \in HlReqs, ApplyCommit(r)
  PROVE  ReviewInv'
<1>1. PICK q, new, hours : Writes(r, q, new, hours)
  BY ApplyWrites
<1>2. PICK g : g = q.game
  OBVIOUS
<1>3. g \in HlGames
  BY <1>1, <1>2 DEF Writes, ApplyIsSound
<1>4. hlReq'[r] = new /\ DOMAIN hlReq' = HlReqs /\ \A s \in HlReqs \ {r} : hlReq'[s] = hlReq[s]
  BY <1>1, RequestMoves DEF Writes
<1>5. new.pc \notin Applying /\ hlShown' = hlShown
  BY <1>1 DEF Writes, Applying
<1>6. PICK old, receipt : old = hlReceipt[g] /\ receipt = SearchOwed(old, new.sync)
  OBVIOUS
<1>7. receipt.rid = old.rid /\ ~receipt.live
  BY <1>3, <1>6 DEF SearchOwed, HlInv, ReceiptsAreSound
<1>8. /\ hlReceipt'[g] = receipt
      /\ \A h \in HlGames \ {g} : hlReceipt'[h] = hlReceipt[h] /\ hlMap'[h] = hlMap[h]
  BY <1>1, <1>2, <1>3, <1>6 DEF Writes, HlInv, ReceiptsAreSound, HlTypeOK
<1>9. ReceiptsLast
  BY <1>6, <1>7, <1>8 DEF ReceiptsLast
<1>10. BindingsLast
  BY <1>7, <1>8 DEF BindingsLast
<1>11. AppliesLast
  BY <1>4, <1>5 DEF AppliesLast
<1> QED
  BY <1>4, <1>5, <1>9, <1>10, <1>11, ReviewLasts

\* A receipt that expires, or whose flag is cleared, keeps its id.
LEMMA ReceiptStepReviews ==
  ASSUME HlInv, ReviewInv,
         (\E g \in HlGames : Expire(g)) \/ (\E r \in HlReqs : SearchClear(r))
  PROVE  ReviewInv'
<1>1. CASE \E g \in HlGames : Expire(g)
  <2>1. PICK g \in HlGames : hlReceipt' = [hlReceipt EXCEPT ![g].live = FALSE]
    BY <1>1 DEF Expire
  <2>2. UNCHANGED <<hlMap, hlShown, hlReq>>
    BY <1>1 DEF Expire
  <2>3. ReceiptsLast
    BY <2>1 DEF HlInv, ReceiptsAreSound, ReceiptsLast
  <2>4. DOMAIN hlReq' = HlReqs /\ BindingsLast /\ AppliesLast
    BY <2>2 DEF HlInv, RequestsAreSound, BindingsLast, AppliesLast
  <2> QED
    BY <2>2, <2>3, <2>4, ReviewLasts
<1>2. ASSUME NEW r \in HlReqs, SearchClear(r)
      PROVE  ReviewInv'
  <2>1. PICK q : q = hlReq[r]
    OBVIOUS
  <2>2. q.game \in HlGames
    BY <1>2, <2>1
       DEF SearchClear, HlInv, RequestsAreSound, RequestIsSound, SyncIsSound, Applying
  <2>3. PICK old, receipt : old = hlReceipt[q.game] /\ receipt = Cleared(old, q.sync)
    OBVIOUS
  <2>4. receipt.rid = old.rid /\ receipt.live = old.live
    BY <2>2, <2>3 DEF Cleared, HlInv, ReceiptsAreSound
  <2>5. /\ hlReceipt' = [hlReceipt EXCEPT ![q.game] = receipt]
        /\ hlReq' = [hlReq EXCEPT ![r] = Idle] /\ UNCHANGED <<hlMap, hlShown>>
    BY <1>2, <2>1, <2>3 DEF SearchClear, Become
  <2>6. hlReq'[r] = Idle /\ DOMAIN hlReq' = HlReqs /\ \A s \in HlReqs \ {r} : hlReq'[s] = hlReq[s]
    BY <2>5, RequestMoves
  <2>7. AppliesLast
    BY <2>6 DEF Idle, Applying, AppliesLast
  <2>8. ReceiptsLast
    BY <2>2, <2>3, <2>4, <2>5 DEF HlInv, ReceiptsAreSound, ReceiptsLast
  <2>9. BindingsLast
    BY <2>5 DEF BindingsLast
  <2> QED
    BY <2>5, <2>6, <2>7, <2>8, <2>9, ReviewLasts
<1> QED
  BY <1>1, <1>2

\* The refresh binds what had no binding, and nothing by hand.
LEMMA BgCommitReviews ==
  ASSUME HlInv, ReviewInv, BgCommit
  PROVE  ReviewInv'
<1>1. BindingsLast
  BY RefreshWrites DEF TablesAreSound, BindingsLast
<1>2. UNCHANGED <<hlReceipt, hlShown, hlReq>>
  BY DEF BgCommit
<1>3. DOMAIN hlReq' = HlReqs /\ ReceiptsLast /\ AppliesLast
  BY <1>2 DEF HlInv, RequestsAreSound, ReceiptsLast, AppliesLast
<1> QED
  BY <1>1, <1>2, <1>3, ReviewLasts

\* The other steps of a request end an apply, or have none.
LEMMA OtherStepReviews ==
  ASSUME HlInv, ReviewInv, NEW r \in HlReqs,
         \/ \E g \in HlGames : RetrySync(r, g) \/ EditSave(r, g)
         \/ GiveUp(r) \/ SearchRead(r) \/ SearchImport(r) \/ EditRead(r) \/ EditIndex(r)
  PROVE  ReviewInv'
<1>1. UNCHANGED <<hlMap, hlReceipt, hlShown>>
  BY DEF RetrySync, EditSave, GiveUp, SearchRead, SearchImport, EditRead, EditIndex
<1>2. \E state : hlReq' = [hlReq EXCEPT ![r] = state] /\ state.pc \notin Applying
  <2>1. CASE \E g \in HlGames : RetrySync(r, g) \/ EditSave(r, g)
    BY <2>1 DEF RetrySync, EditSave, Become, Applying
  <2>2. CASE GiveUp(r) \/ EditIndex(r)
    BY <2>2 DEF GiveUp, EditIndex, Become, Idle, Applying
  <2>3. CASE SearchRead(r) \/ SearchImport(r) \/ EditRead(r)
    BY <2>3 DEF SearchRead, SearchImport, EditRead, Become, Applying
  <2> QED
    BY <2>1, <2>2, <2>3
<1>3. PICK state : hlReq' = [hlReq EXCEPT ![r] = state] /\ state.pc \notin Applying
  BY <1>2
<1>4. hlReq'[r] = state /\ DOMAIN hlReq' = HlReqs /\ \A s \in HlReqs \ {r} : hlReq'[s] = hlReq[s]
  BY <1>3, RequestMoves
<1> QED
  BY <1>1, <1>3, <1>4, ReviewUntouched

LEMMA ReviewKept ==
  ASSUME HlInv, ReviewInv, [HlNext]_hlVars
  PROVE  ReviewInv'
<1>1. ASSUME UNCHANGED <<hlMap, hlReceipt, hlShown, hlReq>>
      PROVE  ReviewInv'
  BY <1>1, ReviewUntouched DEF HlInv, RequestsAreSound
<1>2. CASE BgLock \/ BgGiveUp \/ (\E updates \in HlMatches : BgStart(updates)) \/ UNCHANGED hlVars
  BY <1>1, <1>2 DEF BgLock, BgGiveUp, BgStart, hlVars
<1>3. ASSUME NEW r \in HlReqs, HlStep(r)
      PROVE  ReviewInv'
  <2>1. ASSUME NEW g \in HlGames, LookupStart(r, g)
        PROVE  ReviewInv'
    BY <2>1, LookupStartReviews
  <2>2. ASSUME NEW s \in hlShown, NEW replace \in BOOLEAN, NEW id \in s.ids,
               ApplyStart(r, s, id, replace)
        PROVE  ReviewInv'
    BY <2>2, ApplyStartReviews
  <2>3. CASE LookupSave(r) \/ ApplyReadGame(r) \/ ApplyCommit(r) \/ SearchClear(r)
    BY <2>3, LookupSaveReviews, ApplyReadGameReviews, ApplyCommitReviews, ReceiptStepReviews
  <2>4. CASE ApplyLockId(r) \/ ApplyLockRow(r) \/ SearchLock(r)
    BY <2>4, ApplyLockReviews
  <2> QED
    BY <1>3, <2>1, <2>2, <2>3, <2>4, OtherStepReviews DEF HlStep
<1> QED
  BY <1>2, <1>3, ReceiptStepReviews, BgCommitReviews DEF HlNext

LEMMA ReviewAtStart == HlInit => ReviewInv
<1> SUFFICES ASSUME HlInit PROVE ReviewInv
  OBVIOUS
<1>1. IsFiniteSet(hlShown) /\ Lookups = 0
  BY FS_EmptySet DEF HlInit, Lookups
<1> QED
  BY <1>1 DEF HlInit, ReviewInv, Known, Idle, Applying

\* What is written is what was reviewed, with the binding that was shown or one
\* the refresh has made where none was (hltb.repository.ts:20-21 and 42-46).
THEOREM AppliedIsReviewed == HlSpec => HlAppliedIsReviewed
<1>1. ASSUME HlInv, ReviewInv, [HlNext]_hlVars, NEW g \in HlGames,
             hlRow'[g].applied # hlRow[g].applied
      PROVE  \E s \in hlShown :
               /\ s.game = g /\ hlMap'[g].id \in s.ids
               /\ \/ s.version = GameVersion(g)
                  \/ s.version = VersionWith(g, 0) /\ ~hlMap[g].manual
  <2>1. PICK r \in HlReqs : ApplyCommit(r)
    BY <1>1, OnlyAppliesCount
  <2>2. PICK q, new, hours : Writes(r, q, new, hours)
    BY <1>1, <2>1, ApplyWrites
  <2>3. q.game = g
    BY <1>1, <2>2 DEF Writes, HlInv, HlTypeOK
  <2>4. /\ hlMap'[g].id = q.id /\ q.version = VersionWith(g, q.seen)
        /\ hlReceipt[g].live /\ hlReceipt[g].rid = q.rid
    BY <1>1, <2>2, <2>3 DEF Writes, AssertReceipt, HlInv, HlTypeOK
  <2>5. q.seen = hlMap[g].id \/ (q.seen = 0 /\ ~hlMap[g].manual)
    BY <1>1, <2>2, <2>3, <2>4 DEF Writes, ReviewInv, SeenStands, Applying
  <2>6. q.version = GameVersion(g) \/ (q.version = VersionWith(g, 0) /\ ~hlMap[g].manual)
    BY <2>4, <2>5 DEF GameVersion
  <2> QED
    BY <2>2, <2>3, <2>4, <2>6 DEF Writes, ApplyIsSound
<1>2. HlInv /\ ReviewInv /\ [HlNext]_hlVars =>
        [\A g \in HlGames : hlRow'[g].applied # hlRow[g].applied =>
           \E s \in hlShown :
             /\ s.game = g /\ hlMap'[g].id \in s.ids
             /\ \/ s.version = GameVersion(g)
                \/ s.version = VersionWith(g, 0) /\ ~hlMap[g].manual]_hlVars
  BY <1>1
<1>3. HlInv /\ ReviewInv /\ [HlNext]_hlVars => ReviewInv'
  BY ReviewKept
<1>4. HlSpec => []ReviewInv
  BY MappingInductive, ReviewAtStart, <1>3, PTL DEF HlSpec
<1> QED
  BY MappingInductive, <1>4, <1>2, PTL DEF HlSpec, HlAppliedIsReviewed

\* A binding by hand is one, and only an apply changes a binding that is one.
LEMMA ManualStays ==
  ASSUME HlInv, [HlNext]_hlVars, NEW g \in HlGames,
         hlMap[g].manual, hlMap'[g].id # hlMap[g].id
  PROVE  hlRow'[g].applied > hlRow[g].applied
<1>1. ~UNCHANGED hlMap
  OBVIOUS
<1>2. ~BgCommit
  BY RefreshWrites DEF TablesAreSound, HlInv, BindingsAreSound
<1>3. PICK r \in HlReqs : ApplyCommit(r)
  BY <1>1, <1>2
     DEF HlNext, HlStep, hlVars, LookupStart, RetrySync, LookupSave, ApplyStart, ApplyLockId,
         ApplyReadGame, ApplyLockRow, Take, GiveUp, SearchLock, SearchRead, SearchImport, SearchClear, EditSave,
         EditRead, EditIndex, Expire, BgStart, BgLock, BgGiveUp
<1>4. PICK q, new, hours : Writes(r, q, new, hours)
  BY <1>3, ApplyWrites
<1>5. q.game = g
  BY <1>4 DEF Writes, HlInv, HlTypeOK
<1>6. hlRow'[g].applied = hlRow[g].applied + 1 /\ hlRow[g].applied \in Nat
  BY <1>4, <1>5 DEF Writes, HlInv, HlTypeOK, Snapshots
<1> QED
  BY <1>6

\* Bindings stay sound whatever administrators and the refresh do at once
\* (games.repository.ts:517-533, hltb.repository.ts:53-58).
THEOREM BindingsStaySound == HlSpec => HlBindingsAreSound
<1>1. ASSUME HlInv, [HlNext]_hlVars
      PROVE  \A g \in HlGames :
               /\ hlMap'[g].counts \in {0, hlMap'[g].id}
               /\ hlMap'[g].id # 0 => \A o \in HlGames \ {g} : hlMap'[o].id # hlMap'[g].id
               /\ (hlMap[g].manual /\ hlMap'[g].id # hlMap[g].id)
                    => hlRow'[g].applied > hlRow[g].applied
  <2>1. BindingsAreSound(hlMap)'
    BY <1>1, HlNextKeeps DEF HlInv
  <2> QED
    BY <1>1, <2>1, ManualStays DEF BindingsAreSound
<1>2. HlInv /\ [HlNext]_hlVars =>
        [\A g \in HlGames :
               /\ hlMap'[g].counts \in {0, hlMap'[g].id}
               /\ hlMap'[g].id # 0 => \A o \in HlGames \ {g} : hlMap'[o].id # hlMap'[g].id
               /\ (hlMap[g].manual /\ hlMap'[g].id # hlMap[g].id)
                    => hlRow'[g].applied > hlRow[g].applied]_hlVars
  BY <1>1
<1> QED
  BY MappingInductive, <1>2, PTL DEF HlSpec, HlBindingsAreSound

=============================================================================
