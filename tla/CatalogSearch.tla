--------------------------- MODULE CatalogSearch ---------------------------
(***************************************************************************)
(* The catalog in Postgres and the search documents of its games: every      *)
(* change is committed, then published on the in-process bus, whose          *)
(* subscriber reads the row again and upserts a document                     *)
(* (typesense-search-writer.ts).  Requests overlap, calls to Typesense fail, *)
(* a process dies in between, and the worker's search.sync (sync.rs) fills   *)
(* in documents that are missing.                                            *)
(***************************************************************************)
EXTENDS Integers, FiniteSets

CONSTANTS CsGames, CsLookups, CsReqs,
          CsBatch,       \* documents in a batch of the sync
          CsBudgets      \* bounds: how many changes of each kind, failures and syncs

ASSUME CatalogAssumption ==
  /\ CsGames \subseteq Nat /\ IsFiniteSet(CsGames) /\ CsBatch \in Nat \ {0}
  /\ CsBudgets \subseteq [edits : Nat, deletes : Nat, links : Nat, renames : Nat, drops : Nat,
                          imports : Nat, syncs : Nat, fails : Nat]

VARIABLES
  csGame,     \* games: the version of a row, 0: no row
  csLinks,    \* the lookups (developers, genres, ...) of a game
  csName,     \* lookups: the version of a name, 0: no row
  csStamp,    \* counts the commits that change what a game's document should be
  csDoc,      \* the documents, with the stamp of the row they were made of
  csBest,     \* the greatest stamp a document was ever written with
  csLost,     \* games with a change that no index call will bring to their document
  csOver,     \* games whose document was overwritten with an older row
  csReq,      \* requests in progress
  csSync,     \* the sync job
  csLeft      \* what is left of the bounds, chosen at the start

csVars == <<csGame, csLinks, csName, csStamp, csDoc, csBest, csLost, csOver, csReq, csSync, csLeft>>
rows == <<csGame, csLinks, csName, csStamp>>
documents == <<csDoc, csBest, csOver>>

NoRow == [game |-> 0, names |-> {}]
NoWork == [pc |-> "idle"]
NoSync == [pc |-> "idle"]

\* toGameDoc: the names of the lookups are part of a game's document.
GameDoc(g) ==
  IF csGame[g] = 0 THEN NoRow
  ELSE [game |-> csGame[g], names |-> {<<l, csName[l]>> : l \in csLinks[g]}]

Document(g) == [doc |-> GameDoc(g), stamp |-> csStamp[g]]

\* Calls that write are described by what they write: documents of games.
Upsert(g) == [h \in {g} |-> Document(g)]
Removal(g, stamp) == [h \in {g} |-> [doc |-> NoRow, stamp |-> stamp]]

CsInit ==
  /\ csGame = [g \in CsGames |-> 1]
  /\ csLinks = [g \in CsGames |-> {}]
  /\ csName = [l \in CsLookups |-> 1]
  /\ csStamp = [g \in CsGames |-> 1]
  /\ csLost \in SUBSET CsGames      \* games whose first call failed
  /\ csBest = [g \in CsGames |-> IF g \in csLost THEN 0 ELSE 1]
  /\ csDoc = [g \in CsGames |-> IF g \in csLost THEN [doc |-> NoRow, stamp |-> 0] ELSE Document(g)]
  /\ csOver = {}
  /\ csReq = [r \in CsReqs |-> NoWork]
  /\ csSync = NoSync
  /\ csLeft \in CsBudgets

----------------------------------------------------------------------------
(* The changes: a commit, and what is then to be done for the search *)

Spend(kind) == csLeft[kind] > 0 /\ csLeft' = [csLeft EXCEPT ![kind] = @ - 1]
Starts(r, work) == csReq[r] = NoWork /\ csReq' = [csReq EXCEPT ![r] = work]
Changes(games) == csStamp' = [g \in CsGames |-> IF g \in games THEN csStamp[g] + 1 ELSE csStamp[g]]
Linked(l) == {g \in CsGames : l \in csLinks[g]}

\* The games to index one after the other, in no particular order.
Indexing(games) == IF games = {} THEN NoWork ELSE [pc |-> "read", todo |-> games]

\* An edit, or the creation of a game that is not there.
SaveGame(r, g) ==
  /\ Spend("edits") /\ Starts(r, Indexing({g}))
  /\ csGame' = [csGame EXCEPT ![g] = @ + 1]
  /\ Changes({g})
  /\ UNCHANGED <<csLinks, csName, documents, csLost, csSync>>

DeleteGame(r, g) ==
  /\ csGame[g] # 0
  /\ Spend("deletes") /\ Starts(r, [pc |-> "remove", todo |-> {}, docs |-> Removal(g, csStamp[g] + 1)])
  /\ csGame' = [csGame EXCEPT ![g] = 0] /\ csLinks' = [csLinks EXCEPT ![g] = {}]
  /\ Changes({g})
  /\ UNCHANGED <<csName, documents, csLost, csSync>>

LinkGame(r, g, l) ==
  /\ csGame[g] # 0 /\ csName[l] # 0
  /\ Spend("links") /\ Starts(r, Indexing({g}))
  /\ \/ csLinks' = [csLinks EXCEPT ![g] = @ \union {l}]
     \/ csLinks' = [csLinks EXCEPT ![g] = @ \ {l}]
  /\ Changes({g})
  /\ UNCHANGED <<csGame, csName, documents, csLost, csSync>>

RenameLookup(r, l) ==
  /\ csName[l] # 0
  /\ Spend("renames") /\ Starts(r, [pc |-> "cascade", lookup |-> l])
  /\ csName' = [csName EXCEPT ![l] = @ + 1]
  /\ Changes(Linked(l))
  /\ UNCHANGED <<csGame, csLinks, documents, csLost, csSync>>

\* The links go with the row; only the lookup's own document is removed, the
\* games' documents keep its name.
DeleteLookup(r, l) ==
  /\ csName[l] # 0 /\ csReq[r] = NoWork
  /\ Spend("drops")
  /\ csName' = [csName EXCEPT ![l] = 0]
  /\ csLinks' = [g \in CsGames |-> csLinks[g] \ {l}]
  /\ Changes(Linked(l))
  /\ csLost' = csLost \union Linked(l)
  /\ UNCHANGED <<csGame, documents, csReq, csSync>>

\* A page of an import or of a popularity refresh: its games are written in one
\* transaction and indexed as a batch.
ImportPage(r) ==
  /\ Spend("imports") /\ Starts(r, [pc |-> "load", todo |-> CsGames])
  /\ csGame' = [g \in CsGames |-> csGame[g] + 1]
  /\ Changes(CsGames)
  /\ UNCHANGED <<csLinks, csName, documents, csLost, csSync>>

----------------------------------------------------------------------------
(* The writer's calls *)

\* Documents are written, or removed: an older row may come over a newer one.
\* What was rejected is lost.
Written(docs, rejected) ==
  LET games == DOMAIN docs IN
  /\ csDoc' = [g \in CsGames |-> IF g \in games THEN docs[g] ELSE csDoc[g]]
  /\ csBest' = [g \in CsGames |->
       IF g \in games /\ docs[g].stamp > csBest[g] THEN docs[g].stamp ELSE csBest[g]]
  /\ csOver' = (csOver \ games) \union {g \in games : docs[g].stamp < csBest[g]}
  /\ csLost' = (csLost \ {g \in games : docs[g].stamp = csStamp[g]}) \union rejected

Without(docs, rejected) == [g \in DOMAIN docs \ rejected |-> docs[g]]

\* The mutant of Related: the games are looked up in the index.
RelatedInIndex(l) == {g \in CsGames : \E n \in csDoc[g].doc.names : n[1] = l}

\* findGameIdsByRelation
Related(l) == Linked(l)

\* indexDeveloper, ...: the games of a lookup that is still there
Cascade(r) ==
  LET q == csReq[r] IN
  /\ q.pc = "cascade"
  /\ csReq' = [csReq EXCEPT ![r] =
       IF csName[q.lookup] = 0 THEN NoWork ELSE Indexing(Related(q.lookup))]
  /\ UNCHANGED <<rows, documents, csLost, csSync, csLeft>>

\* indexGame: the row as it is now; its document is removed if it is gone.
ReadGame(r) ==
  LET q == csReq[r] IN
  /\ q.pc = "read"
  /\ \E g \in q.todo :
       csReq' = [csReq EXCEPT ![r] =
         IF csGame[g] = 0
         THEN [pc |-> "remove", todo |-> q.todo \ {g}, docs |-> Removal(g, csStamp[g])]
         ELSE [pc |-> "upsert", todo |-> q.todo \ {g}, docs |-> Upsert(g)]]
  /\ UNCHANGED <<rows, documents, csLost, csSync, csLeft>>

\* bulkIndex: the rows that are there; those that are gone are left alone.
LoadPage(r) ==
  LET q == csReq[r]
      present == {g \in q.todo : csGame[g] # 0}
  IN /\ q.pc = "load"
     /\ csReq' = [csReq EXCEPT ![r] =
          [pc |-> "import", todo |-> {}, docs |-> [g \in present |-> Document(g)]]]
     /\ UNCHANGED <<rows, documents, csLost, csSync, csLeft>>

\* The call is answered, and the next game follows.
Writes(r, call) ==
  LET q == csReq[r] IN
  /\ q.pc = call
  /\ Written(q.docs, {})
  /\ csReq' = [csReq EXCEPT ![r] = Indexing(q.todo)]
  /\ UNCHANGED <<rows, csSync, csLeft>>

UpsertGame(r) == Writes(r, "upsert")
RemoveGame(r) == Writes(r, "remove")
ImportGames(r) == Writes(r, "import")

\* The games whose documents depend on a request.
Owed(q) ==
  CASE q.pc \in {"read", "load"} -> q.todo
    [] q.pc \in {"upsert", "remove", "import"} -> q.todo \union DOMAIN q.docs
    [] q.pc = "cascade" -> Linked(q.lookup)
    [] OTHER -> {}

\* A read or Typesense fails, or it rejects some of the documents: that is
\* reported, and the next game follows.
CallFails(r) ==
  LET q == csReq[r]
      Continues(work) == csReq' = [csReq EXCEPT ![r] = work]
      Loses(games) == csLost' = csLost \union games /\ UNCHANGED documents
  IN /\ q # NoWork /\ Spend("fails")
     /\ \/ q.pc = "read" /\ \E g \in q.todo : Loses({g}) /\ Continues(Indexing(q.todo \ {g}))
        \/ /\ q.pc \in {"upsert", "remove", "import"} /\ Continues(Indexing(q.todo))
           /\ \E rejected \in (SUBSET DOMAIN q.docs) \ {{}} :
                Written(Without(q.docs, rejected), rejected)
        \/ q.pc \in {"cascade", "load"} /\ Loses(Owed(q)) /\ Continues(NoWork)
     /\ UNCHANGED <<rows, csSync>>

\* The process dies after a commit: events are not stored.
ApiDies(r) ==
  LET q == csReq[r] IN
  /\ q # NoWork /\ Spend("fails")
  /\ csLost' = csLost \union Owed(q)
  /\ csReq' = [csReq EXCEPT ![r] = NoWork]
  /\ UNCHANGED <<rows, documents, csSync>>

----------------------------------------------------------------------------
(* search.sync of the games' collection: the ids of the documents, the ids   *)
(* of the rows, and batches of those without a document.  A run that is      *)
(* stopped or fails starts over with a new difference.                       *)

SyncExport ==
  /\ csSync.pc = "idle" /\ Spend("syncs")
  /\ csSync' = [pc |-> "diff", indexed |-> {g \in CsGames : csDoc[g].doc # NoRow}]
  /\ UNCHANGED <<rows, documents, csLost, csReq>>

SyncDiff ==
  LET missing == {g \in CsGames : csGame[g] # 0} \ csSync.indexed IN
  /\ csSync.pc = "diff"
  /\ csSync' = [pc |-> "docs", found |-> [g \in missing |-> csStamp[g]],
                missing |-> missing]
  /\ UNCHANGED <<rows, documents, csLost, csReq, csLeft>>

\* The missing ids are gone through in order, in chunks.
FirstBatch(missing) == {g \in missing : Cardinality({h \in missing : h < g}) < CsBatch}
Batches(missing) == missing \ FirstBatch(missing)

\* docs_by_ids: rows deleted since count as handled.
SyncDocs ==
  LET present == {g \in FirstBatch(csSync.missing) : csGame[g] # 0} IN
  /\ csSync.pc = "docs" /\ csSync.missing # {}
  /\ csSync' = [pc |-> "import", found |-> csSync.found, missing |-> csSync.missing,
                docs |-> [g \in present |-> Document(g)]]
  /\ UNCHANGED <<rows, documents, csLost, csReq, csLeft>>

\* The mutant of AfterImport: documents that were rejected are not looked at.
AfterAnyImport(rejected) == [pc |-> "docs", found |-> csSync.found, missing |-> Batches(csSync.missing)]

\* Any document that is rejected fails the job.
AfterImport(rejected) ==
  IF rejected # {} THEN NoSync
  ELSE [pc |-> "docs", found |-> csSync.found, missing |-> Batches(csSync.missing)]

SyncImport ==
  /\ csSync.pc = "import"
  /\ \E rejected \in SUBSET DOMAIN csSync.docs :
       /\ rejected # {} => csLeft.fails > 0
       /\ csLeft' = IF rejected # {} THEN [csLeft EXCEPT !.fails = @ - 1] ELSE csLeft
       /\ Written(Without(csSync.docs, rejected), {})
       /\ csSync' = AfterImport(rejected)
  /\ UNCHANGED <<rows, csReq>>

SyncDone ==
  /\ csSync.pc = "docs" /\ csSync.missing = {}
  /\ csSync' = NoSync
  /\ UNCHANGED <<rows, documents, csLost, csReq, csLeft>>

\* stopped, failed, or its worker died
SyncStops ==
  /\ csSync # NoSync /\ Spend("fails")
  /\ csSync' = NoSync
  /\ UNCHANGED <<rows, documents, csLost, csReq>>

CsNext ==
  \/ \E r \in CsReqs, g \in CsGames : SaveGame(r, g) \/ DeleteGame(r, g)
  \/ \E r \in CsReqs, l \in CsLookups : RenameLookup(r, l) \/ DeleteLookup(r, l)
  \/ \E r \in CsReqs, g \in CsGames, l \in CsLookups : LinkGame(r, g, l)
  \/ \E r \in CsReqs : \/ ImportPage(r) \/ Cascade(r) \/ ReadGame(r) \/ UpsertGame(r) \/ RemoveGame(r)
                       \/ LoadPage(r) \/ ImportGames(r) \/ CallFails(r) \/ ApiDies(r)
  \/ SyncExport \/ SyncDiff \/ SyncDocs \/ SyncImport \/ SyncDone \/ SyncStops

CsSpec == CsInit /\ [][CsNext]_csVars
----------------------------------------------------------------------------
(* Properties *)

AtRest == csSync = NoSync /\ \A r \in CsReqs : csReq[r] = NoWork

\* When nothing is in progress, a game's document is what its row and the names
\* of its lookups say, whoever changed which of them at once, unless the call
\* that owed the change failed or died, a lookup of it was deleted, or a call
\* that read earlier wrote later (typesense-search-writer.ts:78-90, 208-229).
CsSettled ==
  AtRest => \A g \in CsGames \ (csLost \union csOver) : csDoc[g].doc = GameDoc(g)

\* A sync that completes leaves no row without a document that its difference
\* found to have none and that nobody changed since, whatever it was stopped by
\* or had rejected before, unless an older removal came over the document
\* (sync.rs:106-193, mod.rs:40).
CsSyncFills ==
  [][csSync.pc = "docs" /\ csSync' = NoSync /\ csLeft' = csLeft =>
       \A g \in DOMAIN csSync.found \ csOver :
         csStamp[g] = csSync.found[g] => csDoc[g].doc # NoRow]_csVars
=============================================================================
