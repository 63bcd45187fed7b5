---------------------------- MODULE HltbMapping ----------------------------
(***************************************************************************)
(* The HowLongToBeat lookup of a game (hltb.service.ts, hltb.repository.ts): *)
(* a lookup leaves a receipt, an apply binds the game to one of its          *)
(* candidates and owes a search update, and the popularity refresh           *)
(* (games.repository.ts) supplements bindings in the background.  Row locks  *)
(* and advisory locks are explicit, time is not: a receipt expires and a     *)
(* wait on a lock times out at any moment.  Transactions are READ COMMITTED: *)
(* a statement sees what was committed when it began, and of what it waited  *)
(* to lock, the newest version.                                              *)
(***************************************************************************)
EXTENDS Integers, FiniteSets, SequencesExt

CONSTANTS HlGames,       \* games, as numbers: locks are taken in their order
          HlIds,         \* HLTB ids, as numbers
          HlTimed,       \* the ids the provider has hours for
          HlReqs,        \* concurrent requests of administrators
          HlAnswers,     \* the sets of ids the provider answers a search with
          HlMatches,     \* the updates a refresh may match: sequences of <<game, id>>
          HlBudgets      \* bounds: how many lookups, applies, edits and refreshes

ASSUME HltbAssumption ==
  /\ HlGames \subseteq Nat \ {0} /\ HlIds \subseteq Nat \ {0}
  /\ IsFiniteSet(HlGames) /\ IsFiniteSet(HlIds)
  /\ HlTimed \subseteq HlIds
  /\ "bg" \notin HlReqs /\ "free" \notin HlReqs
  /\ HlAnswers \subseteq SUBSET HlIds /\ HlMatches \subseteq Seq(HlGames \X HlIds)
  /\ HlBudgets \subseteq [lookups : Nat, applies : Nat, edits : Nat, refreshes : Nat]

VARIABLES
  hlRow,      \* games: the columns a version covers, and the last apply in them
  hlMap,      \* game_hltb_popularity: hltb id (0: no row), source, whose counts
  hlReceipt,  \* game_hltb_lookups, one per game (rid 0: no row)
  hlShown,    \* the lookup results administrators have before them
  hlReq,      \* the requests' own state
  hlBg,       \* the popularity refresh
  hlLock,     \* who holds which lock
  hlDoc,      \* the search document: which snapshot of the row it was made of
  hlRegressed,\* games whose document an ordinary index call made older
  hlBudget    \* the bounds of this behaviour, chosen at the start

hlVars == <<hlRow, hlMap, hlReceipt, hlShown, hlReq, hlBg, hlLock, hlDoc, hlRegressed,
            hlBudget>>

Idle == [pc |-> "idle"]
Locks == ({"id"} \X HlIds) \union ({"row", "search"} \X HlGames)
Held(p) == {l \in Locks : hlLock[l] = p}
Free(l) == hlLock[l] = "free"
Release(p) == [l \in Locks |-> IF hlLock[l] = p THEN "free" ELSE hlLock[l]]

\* The rows at the start: some hours are known already.
StartRows == [edits : {0}, hours : {0} \union HlTimed, applied : {0}]

HlInit ==
  /\ hlRow \in [HlGames -> StartRows]
  /\ hlMap = [g \in HlGames |-> [id |-> 0, manual |-> FALSE, counts |-> 0]]
  /\ hlReceipt = [g \in HlGames |-> [rid |-> 0, version |-> <<>>, ids |-> {},
                                     live |-> FALSE, pending |-> FALSE, sync |-> 0]]
  /\ hlShown = {}
  /\ hlReq = [r \in HlReqs |-> Idle]
  /\ hlBg = [pc |-> "idle", updates |-> <<>>, runs |-> 0]
  /\ hlLock = [l \in Locks |-> "free"]
  /\ hlDoc = hlRow
  /\ hlRegressed = {}
  /\ hlBudget \in HlBudgets

----------------------------------------------------------------------------
(* Lookup: the game and its receipt are read, the provider is asked and the  *)
(* receipt is saved.                                                         *)

\* What an administrator reviewed: the hash covers the title, the binding and
\* the saved hours (here the hours are the id they came from).
VersionWith(g, bound) == <<hlRow[g].edits, bound, hlRow[g].hours>>
GameVersion(g) == VersionWith(g, hlMap[g].id)

Lookups == Cardinality(hlShown)
Become(r, state) == hlReq' = [hlReq EXCEPT ![r] = state]

Result(q, receipt) ==
  [game |-> q.game, rid |-> receipt.rid, version |-> receipt.version, ids |-> receipt.ids]

\* The game and its receipt are read.  A live receipt of this version answers;
\* if the game changed it is renewed with its candidates, and unless it is live
\* for this query (or a refresh is asked for) the provider answers.  The two
\* reads are one step: a receipt read later than the game leads to the same saves.
LookupStart(r, g) ==
  LET previous == hlReceipt[g]
      q == [pc |-> "save", game |-> g, version |-> GameVersion(g)]
  IN /\ hlReq[r].pc = "idle" /\ Lookups < hlBudget.lookups
     /\ \/ /\ previous.live /\ previous.version = q.version
           /\ hlShown' = hlShown \union {Result(q, previous)}
           /\ UNCHANGED hlReq
        \/ /\ \E ids \in HlAnswers \union (IF previous.live THEN {previous.ids} ELSE {}) :
                 Become(r, [pc |-> "save", game |-> g, version |-> q.version, ids |-> ids])
           /\ UNCHANGED hlShown
     /\ UNCHANGED <<hlRow, hlMap, hlReceipt, hlBg, hlLock, hlDoc, hlRegressed, hlBudget>>

\* The upsert leaves pendingSearchSync and syncVersion of the stored row alone.
Saved(old, q) ==
  [old EXCEPT !.rid = Lookups + 1, !.version = q.version, !.ids = q.ids, !.live = TRUE]

\* The apply transaction holds the receipt's row only in its last step.
LookupSave(r) ==
  LET q == hlReq[r]
      new == Saved(hlReceipt[q.game], q)
  IN /\ q.pc = "save"
     /\ hlReceipt' = [hlReceipt EXCEPT ![q.game] = new]
     /\ hlShown' = hlShown \union {Result(q, new)}
     /\ Become(r, Idle)
     /\ UNCHANGED <<hlRow, hlMap, hlBg, hlLock, hlDoc, hlRegressed, hlBudget>>

Expire(g) ==
  /\ hlReceipt[g].live
  /\ hlReceipt' = [hlReceipt EXCEPT ![g].live = FALSE]
  /\ UNCHANGED <<hlRow, hlMap, hlShown, hlReq, hlBg, hlLock, hlDoc, hlRegressed, hlBudget>>

----------------------------------------------------------------------------
(* Apply: checked against the receipt before the provider is asked again,   *)
(* and once more in the transaction that writes.                            *)

\* What is read of the game is its row as it is and the binding q saw.
AssertReceipt(q) ==
  LET receipt == hlReceipt[q.game] IN
  /\ receipt.live /\ receipt.rid = q.rid /\ receipt.ids # {}
  /\ receipt.version = q.version /\ VersionWith(q.game, q.seen) = q.version
  /\ q.id \in receipt.ids
  /\ q.seen \in {0, q.id} \/ q.replace

Applies == Cardinality({a \in HlGames \X (1..hlBudget.applies) : a[2] <= hlRow[a[1]].applied})

ApplyStart(r, s, id, replace) ==
  LET q == [pc |-> "lockId", game |-> s.game, rid |-> s.rid, version |-> s.version,
            id |-> id, replace |-> replace, seen |-> hlMap[s.game].id]
  IN /\ hlReq[r].pc = "idle" /\ Applies < hlBudget.applies
     /\ AssertReceipt(q)
     /\ Become(r, q)
     /\ UNCHANGED <<hlRow, hlMap, hlReceipt, hlShown, hlBg, hlLock, hlDoc, hlRegressed, hlBudget>>

\* The lock a request or the refresh asks for next.
Wanted(q) ==
  CASE q.pc = "lockId"  -> <<"id", q.id>>
    [] q.pc = "lockRow" -> <<"row", q.game>>
    [] q.pc = "search"  -> <<"search", q.game>>

Take(r, next) ==
  /\ Free(Wanted(hlReq[r]))
  /\ hlLock' = [hlLock EXCEPT ![Wanted(hlReq[r])] = r]
  /\ hlReq' = [hlReq EXCEPT ![r].pc = next]
  /\ UNCHANGED <<hlRow, hlMap, hlReceipt, hlShown, hlBg, hlDoc, hlRegressed, hlBudget>>

ApplyLockId(r) == hlReq[r].pc = "lockId" /\ Take(r, "readGame")

\* readGame(.., lock) is one SELECT of the game and, by a LEFT JOIN, its binding,
\* FOR UPDATE OF games: the binding is that of the moment it begins, and only the
\* game is read anew if it has to wait for the row.
ApplyReadGame(r) ==
  /\ hlReq[r].pc = "readGame"
  /\ hlReq' = [hlReq EXCEPT ![r].pc = "lockRow", ![r].seen = hlMap[hlReq[r].game].id]
  /\ UNCHANGED <<hlRow, hlMap, hlReceipt, hlShown, hlBg, hlLock, hlDoc, hlRegressed, hlBudget>>

ApplyLockRow(r) == hlReq[r].pc = "lockRow" /\ Take(r, "write")

OwnedByOther(g, id) == \E o \in HlGames \ {g} : hlMap[o].id = id

\* The mutant of ReceiptStillHolds: only the receipt's id is compared again.
ReceiptIdHolds(q) == hlReceipt[q.game].rid = q.rid

\* The checks the transaction repeats under its locks.
ReceiptStillHolds(q) == AssertReceipt(q)

\* A known duration is replaced only if the administrator named it, and by one.
MergeHours(current, id, overwrite) ==
  IF id \in HlTimed /\ (current = 0 \/ overwrite) THEN id ELSE current

Engagement(m, id) == IF m.id = id THEN m.counts ELSE 0

SearchOwed(receipt, version) ==
  [receipt EXCEPT !.pending = TRUE, !.sync = version, !.live = FALSE]

ApplyCommit(r) ==
  LET q == hlReq[r]
      g == q.game
      version == hlRow[g].applied + 1
  IN /\ q.pc = "write" /\ Applies < hlBudget.applies
     /\ ReceiptStillHolds(q) /\ ~OwnedByOther(g, q.id)
     /\ hlMap' = [hlMap EXCEPT ![g] = [id |-> q.id, manual |-> TRUE, counts |-> Engagement(@, q.id)]]
     /\ \E overwrite \in BOOLEAN :
          hlRow' = [hlRow EXCEPT ![g].hours = MergeHours(@, q.id, overwrite), ![g].applied = version]
     /\ hlReceipt' = [hlReceipt EXCEPT ![g] = SearchOwed(@, version)]
     /\ hlLock' = Release(r)
     /\ Become(r, [pc |-> "search", game |-> g, sync |-> version])
     /\ UNCHANGED <<hlShown, hlBg, hlDoc, hlRegressed, hlBudget>>

\* Provider down or candidate changed, a lock that timed out, a check that
\* fails, a crash: the transaction, if any, is rolled back.  What is left of a
\* failed or crashed search update is the pending flag.
GiveUp(r) ==
  /\ hlReq[r].pc \in {"lockId", "readGame", "lockRow", "write", "search", "read", "import", "clear"}
  /\ hlLock' = Release(r)
  /\ Become(r, Idle)
  /\ UNCHANGED <<hlRow, hlMap, hlReceipt, hlShown, hlBg, hlDoc, hlRegressed, hlBudget>>

----------------------------------------------------------------------------
(* The search update of a saved version, serialized by a lock per game.     *)

RetrySync(r, g) ==
  /\ hlReq[r].pc = "idle" /\ hlReceipt[g].pending /\ hlReceipt[g].sync # 0
  /\ Become(r, [pc |-> "search", game |-> g, sync |-> hlReceipt[g].sync])
  /\ UNCHANGED <<hlRow, hlMap, hlReceipt, hlShown, hlBg, hlLock, hlDoc, hlRegressed, hlBudget>>

SearchLock(r) == hlReq[r].pc = "search" /\ Take(r, "read")

SearchRead(r) ==
  LET q == hlReq[r] IN
  /\ q.pc = "read"
  /\ Become(r, [pc |-> "import", game |-> q.game, sync |-> q.sync, row |-> hlRow[q.game]])
  /\ UNCHANGED <<hlRow, hlMap, hlReceipt, hlShown, hlBg, hlLock, hlDoc, hlRegressed, hlBudget>>

\* The mutant of SearchImport: without throwOnError a failed import is not heard of.
SearchImportQuiet(r) ==
  LET q == hlReq[r] IN
  /\ q.pc = "import"
  /\ hlDoc' \in {hlDoc, [hlDoc EXCEPT ![q.game] = q.row]}
  /\ Become(r, [pc |-> "clear", game |-> q.game, sync |-> q.sync])
  /\ UNCHANGED <<hlRow, hlMap, hlReceipt, hlShown, hlBg, hlLock, hlRegressed, hlBudget>>

SearchImport(r) ==
  LET q == hlReq[r] IN
  /\ q.pc = "import"
  /\ hlDoc' = [hlDoc EXCEPT ![q.game] = q.row]
  /\ Become(r, [pc |-> "clear", game |-> q.game, sync |-> q.sync])
  /\ UNCHANGED <<hlRow, hlMap, hlReceipt, hlShown, hlBg, hlLock, hlRegressed, hlBudget>>

Cleared(receipt, version) ==
  IF receipt.sync = version THEN [receipt EXCEPT !.pending = FALSE] ELSE receipt

SearchClear(r) ==
  LET q == hlReq[r] IN
  /\ q.pc = "clear"
  /\ hlReceipt' = [hlReceipt EXCEPT ![q.game] = Cleared(@, q.sync)]
  /\ hlLock' = Release(r)
  /\ Become(r, Idle)
  /\ UNCHANGED <<hlRow, hlMap, hlShown, hlBg, hlDoc, hlRegressed, hlBudget>>

----------------------------------------------------------------------------
(* An ordinary edit of the game (games.service.ts): it waits for the row    *)
(* lock, and its index call reads and upserts without the search lock.      *)

Edits == Cardinality({a \in HlGames \X (1..hlBudget.edits) : a[2] <= hlRow[a[1]].edits})

\* It may change what a version covers.
EditSave(r, g) ==
  /\ hlReq[r].pc = "idle" /\ Edits < hlBudget.edits /\ Free(<<"row", g>>)
  /\ \/ UNCHANGED hlRow
     \/ hlRow' = [hlRow EXCEPT ![g].edits = @ + 1]
  /\ Become(r, [pc |-> "editRead", game |-> g])
  /\ UNCHANGED <<hlMap, hlReceipt, hlShown, hlBg, hlLock, hlDoc, hlRegressed, hlBudget>>

EditRead(r) ==
  LET q == hlReq[r] IN
  /\ q.pc = "editRead"
  /\ Become(r, [pc |-> "editIndex", game |-> q.game, row |-> hlRow[q.game]])
  /\ UNCHANGED <<hlRow, hlMap, hlReceipt, hlShown, hlBg, hlLock, hlDoc, hlRegressed, hlBudget>>

EditIndex(r) ==
  LET q == hlReq[r]
      older == q.row.applied < hlDoc[q.game].applied
  IN /\ q.pc = "editIndex"
     /\ hlDoc' = [hlDoc EXCEPT ![q.game] = q.row]
     /\ hlRegressed' = IF older THEN hlRegressed \union {q.game} ELSE hlRegressed
     /\ Become(r, Idle)
     /\ UNCHANGED <<hlRow, hlMap, hlReceipt, hlShown, hlBg, hlLock, hlBudget>>

----------------------------------------------------------------------------
(* The popularity refresh: the ids' locks in order, then the rows' locks in *)
(* order, then every matched update, and the scores of all games, for which  *)
(* it needs the other rows too.  One transaction.                            *)

BgStart(updates) ==
  /\ hlBg.pc = "idle" /\ hlBg.runs < hlBudget.refreshes
  /\ hlBg' = [pc |-> "lock", updates |-> updates, runs |-> hlBg.runs + 1]
  /\ UNCHANGED <<hlRow, hlMap, hlReceipt, hlShown, hlReq, hlLock, hlDoc, hlRegressed, hlBudget>>

BgIds  == {<<"id", u[2]>> : u \in ToSet(hlBg.updates)}
BgRows == {<<"row", u[1]>> : u \in ToSet(hlBg.updates)}
ScoredRows == {"row"} \X HlGames

Lowest(locks) == CHOOSE l \in locks : \A m \in locks : l[2] <= m[2]

\* The mutant of BgWanted: each update's id and row are locked together.
BgWantedPerUpdate ==
  LET ids == BgIds \ Held("bg")
      due == {<<"row", u[1]>> : u \in {v \in ToSet(hlBg.updates) : <<"id", v[2]>> \in Held("bg")}}
      rows == due \ Held("bg")
  IN IF rows # {} THEN {Lowest(rows)} ELSE IF ids # {} THEN {Lowest(ids)}
     ELSE ScoredRows \ Held("bg")

\* The scores' UPDATE locks the rows it still needs in no particular order.
BgWanted ==
  LET ids == BgIds \ Held("bg")
      rows == BgRows \ Held("bg")
  IN IF ids # {} THEN {Lowest(ids)} ELSE IF rows # {} THEN {Lowest(rows)}
     ELSE ScoredRows \ Held("bg")

BgLock ==
  /\ hlBg.pc = "lock"
  /\ \E l \in BgWanted : Free(l) /\ hlLock' = [hlLock EXCEPT ![l] = "bg"]
  /\ UNCHANGED <<hlRow, hlMap, hlReceipt, hlShown, hlReq, hlBg, hlDoc, hlRegressed, hlBudget>>

\* The mutant of AcceptBackgroundMapping: the owner of the id is not looked up.
AcceptWithoutOwner(map, g, id) == map[g].id \in {0, id}

AcceptBackgroundMapping(map, g, id) ==
  /\ map[g].id \in {0, id}
  /\ \A o \in HlGames \ {g} : map[o].id # id

\* An accepted candidate refreshes the counts and fills hours that are unknown,
\* if it has any.
Supplement(tables, u) ==
  LET g == u[1]
      id == u[2]
  IN IF ~AcceptBackgroundMapping(tables.map, g, id) THEN tables
     ELSE [map |-> [tables.map EXCEPT ![g].id = id, ![g].counts = id],
           row |-> [tables.row EXCEPT ![g].hours = IF @ = 0 /\ id \in HlTimed THEN id ELSE @]]

\* The tables as the transaction sees them after its first n updates.
Supplemented[n \in 0..Len(hlBg.updates)] ==
  IF n = 0 THEN [map |-> hlMap, row |-> hlRow]
  ELSE Supplement(Supplemented[n - 1], hlBg.updates[n])

BgCommit ==
  /\ hlBg.pc = "lock" /\ BgWanted = {}
  /\ hlMap' = Supplemented[Len(hlBg.updates)].map
  /\ hlRow' = Supplemented[Len(hlBg.updates)].row
  /\ hlLock' = Release("bg")
  /\ hlBg' = [hlBg EXCEPT !.pc = "idle", !.updates = <<>>]
  /\ UNCHANGED <<hlReceipt, hlShown, hlReq, hlDoc, hlRegressed, hlBudget>>

\* An error, or a crash: the transaction is rolled back.
BgGiveUp ==
  /\ hlBg.pc = "lock"
  /\ hlLock' = Release("bg")
  /\ hlBg' = [hlBg EXCEPT !.pc = "idle", !.updates = <<>>]
  /\ UNCHANGED <<hlRow, hlMap, hlReceipt, hlShown, hlReq, hlDoc, hlRegressed, hlBudget>>

----------------------------------------------------------------------------
HlStep(r) ==
  \/ \E g \in HlGames : LookupStart(r, g) \/ RetrySync(r, g) \/ EditSave(r, g)
  \/ LookupSave(r)
  \/ \E s \in hlShown, replace \in BOOLEAN :
       \E id \in s.ids : ApplyStart(r, s, id, replace)
  \/ ApplyLockId(r) \/ ApplyReadGame(r) \/ ApplyLockRow(r) \/ ApplyCommit(r) \/ GiveUp(r)
  \/ SearchLock(r) \/ SearchRead(r) \/ SearchImport(r) \/ SearchClear(r)
  \/ EditRead(r) \/ EditIndex(r)

HlNext ==
  \/ \E r \in HlReqs : HlStep(r)
  \/ \E g \in HlGames : Expire(g)
  \/ \E updates \in HlMatches : BgStart(updates)
  \/ BgLock \/ BgCommit \/ BgGiveUp

HlSpec == HlInit /\ [][HlNext]_hlVars
----------------------------------------------------------------------------
(* Properties *)

\* What an apply writes is what somebody reviewed: the id is among the candidates
\* that were shown, with the title and the hours the game still has.  So is the
\* binding, but for one case: none was shown, and the refresh has made one since.
\* A binding made by hand is never replaced unseen (hltb.repository.ts:42-46).
HlAppliedIsReviewed ==
  [][\A g \in HlGames : hlRow'[g].applied # hlRow[g].applied =>
       \E s \in hlShown :
         /\ s.game = g /\ hlMap'[g].id \in s.ids
         /\ \/ s.version = GameVersion(g)
            \/ s.version = VersionWith(g, 0) /\ ~hlMap[g].manual]_hlVars

\* "Replacing an existing ID additionally requires --replace-mapping"
\* (docs/hltb-lookup.md:21).
HlReplacingIsAsked ==
  [][\A g \in HlGames :
       (hlRow'[g].applied # hlRow[g].applied /\ hlMap[g].id \notin {0, hlMap'[g].id}) =>
         \E r \in HlReqs : hlReq[r].pc = "write" /\ hlReq[r].game = g /\ hlReq[r].replace]_hlVars

\* An id belongs to one game, and the counts stored with a binding are those of
\* the bound id, whatever the refresh and the administrators do at once; a
\* binding made by hand is changed only by hand
\* (games.repository.ts:517-533, hltb.repository.ts:53-58).
HlBindingsAreSound ==
  [][\A g \in HlGames :
       /\ hlMap'[g].counts \in {0, hlMap'[g].id}
       /\ hlMap'[g].id # 0 => \A o \in HlGames \ {g} : hlMap'[o].id # hlMap'[g].id
       /\ (hlMap[g].manual /\ hlMap'[g].id # hlMap[g].id) => hlRow'[g].applied > hlRow[g].applied
    ]_hlVars

\* A cleared pending flag means the document was made of the saved version or of
\* a later one, unless an ordinary edit's index call put an older row over it
\* (hltb.service.ts:76-84, hltb.repository.ts:73-84).
HlSyncedMeansIndexed ==
  \A g \in HlGames \ hlRegressed :
    (hlReceipt[g].sync # 0 /\ ~hlReceipt[g].pending) => hlDoc[g].applied >= hlReceipt[g].sync

\* Nobody waits in a circle for ids and rows (games.repository.ts:517-523: the
\* refresh takes every id before any row, as an apply does, and the other rows
\* of the scores last, 545-558).
WaitsFor(p) ==
  IF p = "bg" THEN IF hlBg.pc = "lock" THEN {hlLock[l] : l \in BgWanted} \ {"free"} ELSE {}
  ELSE IF hlReq[p].pc \in {"lockId", "lockRow", "search"}
       THEN {hlLock[Wanted(hlReq[p])]} \ {"free"} ELSE {}

HlNoLockCycle ==
  \A waiting \in (SUBSET (HlReqs \union {"bg"})) \ {{}} :
    \E p \in waiting : WaitsFor(p) \cap waiting = {}
=============================================================================
