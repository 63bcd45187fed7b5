------------------------- MODULE CatalogSearchProofs -------------------------
(***************************************************************************)
(* Proofs about CatalogSearch, for every catalog, every number of requests,  *)
(* every size of a batch and every bound.                                    *)
(***************************************************************************)
EXTENDS CatalogSearch, TLAPS

Bounds == [edits : Nat, deletes : Nat, links : Nat, renames : Nat, drops : Nat,
           imports : Nat, syncs : Nat, fails : Nat]

Calls == {"upsert", "remove", "import"}

\* A document d of game g is of a commit, and right if that is the latest.
Made(g, d) ==
  /\ d.stamp \in Nat /\ d.stamp <= csStamp[g]
  /\ d.stamp = csStamp[g] => d.doc = GameDoc(g)

AllMade(docs) == DOMAIN docs \subseteq CsGames /\ \A g \in DOMAIN docs : Made(g, docs[g])

CsTypeOK ==
  /\ csGame \in [CsGames -> Nat]
  /\ csLinks \in [CsGames -> SUBSET CsLookups]
  /\ csName \in [CsLookups -> Nat]
  /\ csStamp \in [CsGames -> Nat] /\ csBest \in [CsGames -> Nat]
  /\ csLost \subseteq CsGames /\ csOver \subseteq CsGames
  /\ csLeft \in Bounds

\* A lookup that is gone has no games.
LinksAreLive == \A g \in CsGames : \A l \in csLinks[g] : csName[l] # 0

RequestIsSound(q) ==
  \/ q = NoWork
  \/ q.pc \in {"read", "load"} /\ q.todo \subseteq CsGames
  \/ q.pc \in Calls /\ q.todo \subseteq CsGames /\ AllMade(q.docs)
  \/ q.pc = "cascade" /\ q.lookup \in CsLookups

RequestsAreSound == DOMAIN csReq = CsReqs /\ \A r \in CsReqs : RequestIsSound(csReq[r])

\* A document is the newest ever written, unless an older row came over it.
DocsAreSound ==
  \A g \in CsGames :
    /\ Made(g, csDoc[g])
    /\ csDoc[g].stamp <= csBest[g] /\ csBest[g] <= csStamp[g]
    /\ g \notin csOver => csDoc[g].stamp = csBest[g]

\* Request q will write the latest row of g, if none of its calls fails.
Brings(q, g) ==
  \/ q.pc = "read" /\ g \in q.todo
  \/ q.pc = "load" /\ g \in q.todo /\ csGame[g] # 0
  \/ q.pc \in Calls /\ (g \in q.todo \/ (g \in DOMAIN q.docs /\ q.docs[g].stamp = csStamp[g]))
  \/ q.pc = "cascade" /\ g \in Linked(q.lookup)

\* The latest row of a game was written or is being brought, unless a call lost it.
NothingForgotten ==
  \A g \in CsGames \ csLost :
    csBest[g] = csStamp[g] \/ \E r \in CsReqs : Brings(csReq[r], g)

\* What the difference of a sync found to be missing and nobody changed since is
\* there, and is written once it is done with.
FoundIsSound(s) ==
  /\ DOMAIN s.found \subseteq CsGames /\ s.missing \subseteq CsGames
  /\ \A g \in DOMAIN s.found :
       /\ s.found[g] \in Nat /\ s.found[g] <= csStamp[g]
       /\ csStamp[g] = s.found[g] =>
            csGame[g] # 0 /\ (g \notin s.missing => csBest[g] = csStamp[g])

BatchIsSound(s) ==
  /\ AllMade(s.docs)
  /\ \A g \in DOMAIN s.found : g \in FirstBatch(s.missing) /\ csStamp[g] = s.found[g] =>
       g \in DOMAIN s.docs /\ s.docs[g].stamp = csStamp[g]

SyncIsSound ==
  \/ csSync = NoSync
  \/ csSync.pc = "diff"
  \/ csSync.pc = "docs" /\ FoundIsSound(csSync)
  \/ csSync.pc = "import" /\ FoundIsSound(csSync) /\ BatchIsSound(csSync)

CsInv ==
  CsTypeOK /\ LinksAreLive /\ RequestsAreSound /\ DocsAreSound /\ NothingForgotten /\ SyncIsSound

-----------------------------------------------------------------------------
(* Commits *)

\* A commit that changes the rows of some games changes nothing of the others.
Spares(games) ==
  \A g \in CsGames \ games :
    /\ csGame'[g] = csGame[g] /\ csLinks'[g] = csLinks[g]
    /\ \A l \in csLinks[g] : csName'[l] = csName[l]

\* What a document should be follows from the rows of its game.
LEMMA DocStays ==
  ASSUME NEW g \in CsGames, csGame'[g] = csGame[g], csLinks'[g] = csLinks[g],
         \A l \in csLinks[g] : csName'[l] = csName[l]
  PROVE  GameDoc(g)' = GameDoc(g)
<1>1. {<<l, csName[l]>> : l \in csLinks[g]}' = {<<l, csName[l]>> : l \in csLinks[g]}
  OBVIOUS
<1> QED
  BY <1>1 DEF GameDoc

\* Documents read before a commit are as they were made, with an older stamp if
\* it changed their game.
LEMMA CommitKeepsMade ==
  ASSUME CsTypeOK, NEW games \in SUBSET CsGames, Changes(games), Spares(games),
         NEW g \in CsGames, NEW d, Made(g, d)
  PROVE  Made(g, d)'
<1>1. CASE g \in games
  <2>1. csStamp'[g] = csStamp[g] + 1 /\ csStamp[g] \in Nat
    BY <1>1 DEF Changes, CsTypeOK
  <2> QED
    BY <2>1 DEF Made
<1>2. CASE g \notin games
  <2>1. csStamp'[g] = csStamp[g]
    BY <1>2 DEF Changes
  <2>2. GameDoc(g)' = GameDoc(g)
    BY <1>2, DocStays DEF Spares
  <2> QED
    BY <2>1, <2>2 DEF Made
<1> QED
  BY <1>1, <1>2

LEMMA CommitKeepsRequests ==
  ASSUME CsTypeOK, NEW games \in SUBSET CsGames, Changes(games), Spares(games),
         NEW q, RequestIsSound(q)
  PROVE  RequestIsSound(q)'
<1>1. ASSUME AllMade(q.docs)
      PROVE  AllMade(q.docs)'
  BY <1>1, CommitKeepsMade DEF AllMade
<1> QED
  BY <1>1 DEF RequestIsSound

LEMMA CommitKeepsDocs ==
  ASSUME CsInv, NEW games \in SUBSET CsGames, Changes(games), Spares(games),
         UNCHANGED documents
  PROVE  DocsAreSound'
<1> SUFFICES ASSUME NEW g \in CsGames
             PROVE  /\ Made(g, csDoc[g])'
                    /\ csDoc'[g].stamp <= csBest'[g] /\ csBest'[g] <= csStamp'[g]
                    /\ g \notin csOver' => csDoc'[g].stamp = csBest'[g]
  BY DEF DocsAreSound
<1>1. csDoc' = csDoc /\ csBest' = csBest /\ csOver' = csOver
  BY DEF documents
<1>2. Made(g, csDoc[g]) /\ csDoc[g].stamp <= csBest[g] /\ csBest[g] <= csStamp[g]
      /\ (g \notin csOver => csDoc[g].stamp = csBest[g])
  BY DEF CsInv, DocsAreSound
<1>3. Made(g, csDoc[g])'
  <2>1. PICK d : d = csDoc[g]
    OBVIOUS
  <2>2. Made(g, d)'
    BY <1>2, <2>1, CommitKeepsMade DEF CsInv
  <2> QED
    BY <1>1, <2>1, <2>2 DEF Made
<1>4. csStamp[g] \in Nat /\ csBest[g] \in Nat /\ csStamp'[g] \in {csStamp[g], csStamp[g] + 1}
  BY DEF CsInv, CsTypeOK, Changes
<1> QED
  BY <1>1, <1>2, <1>3, <1>4

LEMMA CommitKeepsSync ==
  ASSUME CsInv, NEW games \in SUBSET CsGames, Changes(games), Spares(games),
         UNCHANGED <<documents, csSync>>
  PROVE  SyncIsSound'
<1>1. csSync' = csSync /\ csBest' = csBest
  BY DEF documents
<1>2. PICK s : s = csSync
  OBVIOUS
<1>3. ASSUME NEW g \in CsGames, csStamp'[g] # csStamp[g] + 1
      PROVE  csStamp'[g] = csStamp[g] /\ csGame'[g] = csGame[g]
  BY <1>3 DEF Changes, Spares
<1>4. ASSUME NEW g \in CsGames
      PROVE  csStamp[g] \in Nat /\ csStamp'[g] \in {csStamp[g], csStamp[g] + 1}
  BY <1>4 DEF CsInv, CsTypeOK, Changes
<1>5. ASSUME FoundIsSound(s)
      PROVE  FoundIsSound(s)'
  <2> SUFFICES ASSUME NEW g \in DOMAIN s.found
               PROVE  /\ s.found[g] \in Nat /\ s.found[g] <= csStamp'[g]
                      /\ csStamp'[g] = s.found[g] =>
                           csGame'[g] # 0 /\ (g \notin s.missing => csBest'[g] = csStamp'[g])
    BY <1>5 DEF FoundIsSound
  <2>1. g \in CsGames /\ s.found[g] \in Nat /\ s.found[g] <= csStamp[g]
        /\ (csStamp[g] = s.found[g] =>
              csGame[g] # 0 /\ (g \notin s.missing => csBest[g] = csStamp[g]))
    BY <1>5 DEF FoundIsSound
  <2> QED
    BY <1>1, <1>3, <1>4, <2>1
<1>6. ASSUME FoundIsSound(s), BatchIsSound(s)
      PROVE  BatchIsSound(s)'
  <2>1. AllMade(s.docs)'
    BY <1>6, CommitKeepsMade DEF AllMade, BatchIsSound, CsInv
  <2>2. ASSUME NEW g \in DOMAIN s.found, g \in FirstBatch(s.missing), csStamp'[g] = s.found[g]
        PROVE  g \in DOMAIN s.docs /\ s.docs[g].stamp = csStamp'[g]
    <3>1. g \in CsGames /\ s.found[g] \in Nat /\ s.found[g] <= csStamp[g]
      BY <1>6 DEF FoundIsSound
    <3>2. csStamp'[g] = csStamp[g]
      BY <1>4, <2>2, <3>1
    <3> QED
      BY <1>6, <2>2, <3>2 DEF BatchIsSound
  <2> QED
    BY <2>1, <2>2 DEF BatchIsSound, FirstBatch
<1>7. SyncIsSound => \/ s = NoSync
                     \/ s.pc = "diff"
                     \/ s.pc = "docs" /\ FoundIsSound(s)
                     \/ s.pc = "import" /\ FoundIsSound(s) /\ BatchIsSound(s)
  BY <1>2 DEF SyncIsSound
<1>8. \/ s = NoSync
      \/ s.pc = "diff"
      \/ s.pc = "docs" /\ FoundIsSound(s)'
      \/ s.pc = "import" /\ FoundIsSound(s)' /\ BatchIsSound(s)'
  BY <1>5, <1>6, <1>7 DEF CsInv
<1>9. s = csSync'
  BY <1>1, <1>2
<1> QED
  BY <1>8, <1>9 DEF SyncIsSound, FoundIsSound, BatchIsSound, AllMade, Made, FirstBatch, GameDoc

\* A request brings what it brought, unless the game was changed again.
LEMMA CommitKeepsBringing ==
  ASSUME NEW games \in SUBSET CsGames, Changes(games), Spares(games),
         NEW g \in CsGames \ games, NEW q, Brings(q, g)
  PROVE  Brings(q, g)'
<1>1. csStamp'[g] = csStamp[g] /\ csGame'[g] = csGame[g] /\ csLinks'[g] = csLinks[g]
  BY DEF Changes, Spares
<1> QED
  BY <1>1 DEF Brings, Linked

\* Nothing is forgotten if a request brings what a commit changed, or it is lost.
LEMMA CommitForgetsNothing ==
  ASSUME CsInv, NEW games \in SUBSET CsGames, Changes(games), Spares(games),
         UNCHANGED documents, csLost \subseteq csLost',
         \A r \in CsReqs : csReq[r] # NoWork => csReq'[r] = csReq[r],
         \A g \in games \ csLost' : \E r \in CsReqs : Brings(csReq[r], g)'
  PROVE  NothingForgotten'
<1> SUFFICES ASSUME NEW g \in CsGames \ csLost'
             PROVE  csBest'[g] = csStamp'[g] \/ \E r \in CsReqs : Brings(csReq[r], g)'
  BY DEF NothingForgotten
<1>1. CASE g \in games
  BY <1>1
<1>2. CASE g \notin games
  <2>1. csStamp'[g] = csStamp[g] /\ csBest' = csBest
    BY <1>2 DEF Changes, documents
  <2>2. csBest[g] = csStamp[g] \/ \E r \in CsReqs : Brings(csReq[r], g)
    BY DEF CsInv, NothingForgotten
  <2>3. ASSUME NEW r \in CsReqs, Brings(csReq[r], g)
        PROVE  Brings(csReq[r], g)'
    <3>1. PICK q : q = csReq[r]
      OBVIOUS
    <3>2. csReq[r] # NoWork
      BY <2>3 DEF Brings, NoWork, Calls
    <3>3. Brings(q, g)'
      BY <1>2, <2>3, <3>1, CommitKeepsBringing
    <3> QED
      BY <3>1, <3>2, <3>3 DEF Brings, Linked
  <2> QED
    BY <2>1, <2>2, <2>3
<1> QED
  BY <1>1, <1>2

\* A commit, with the request that made it and what it has to do next.
LEMMA CommitKeepsInv ==
  ASSUME CsInv, CsTypeOK', LinksAreLive',
         NEW games \in SUBSET CsGames, Changes(games), Spares(games),
         UNCHANGED <<documents, csSync>>, csLost \subseteq csLost',
         NEW r \in CsReqs, csReq[r] = NoWork, DOMAIN csReq' = CsReqs,
         \A s \in CsReqs \ {r} : csReq'[s] = csReq[s],
         RequestIsSound(csReq[r])',
         \A g \in games \ csLost' : Brings(csReq[r], g)'
  PROVE  CsInv'
<1>1. DocsAreSound'
  BY CommitKeepsDocs
<1>2. SyncIsSound'
  BY CommitKeepsSync
<1>3. NothingForgotten'
  BY CommitForgetsNothing
<1>4. ASSUME NEW s \in CsReqs
      PROVE  RequestIsSound(csReq[s])'
  <2>1. CASE s = r
    BY <2>1
  <2>2. CASE s # r
    <3>1. PICK q : q = csReq[s]
      OBVIOUS
    <3>2. RequestIsSound(q)
      BY <3>1 DEF CsInv, RequestsAreSound
    <3>3. RequestIsSound(q)'
      BY <3>2, CommitKeepsRequests DEF CsInv
    <3>4. q = csReq'[s]
      BY <2>2, <3>1
    <3> QED
      BY <3>3, <3>4 DEF RequestIsSound, AllMade, Made, GameDoc
  <2> QED
    BY <2>1, <2>2
<1>5. RequestsAreSound'
  BY <1>4 DEF RequestsAreSound
<1> QED
  BY <1>1, <1>2, <1>3, <1>5 DEF CsInv

-----------------------------------------------------------------------------
(* Steps that commit nothing *)

LEMMA RowsStay ==
  ASSUME UNCHANGED rows
  PROVE  /\ \A g \in CsGames : GameDoc(g)' = GameDoc(g) /\ Document(g)' = Document(g)
         /\ \A g \in CsGames : \A d : Made(g, d)' <=> Made(g, d)
         /\ \A docs : AllMade(docs)' <=> AllMade(docs)
         /\ \A q : RequestIsSound(q)' <=> RequestIsSound(q)
         /\ \A q, g : Brings(q, g)' <=> Brings(q, g)
         /\ \A s : BatchIsSound(s)' <=> BatchIsSound(s)
<1>1. csGame' = csGame /\ csLinks' = csLinks /\ csName' = csName /\ csStamp' = csStamp
  BY DEF rows
<1>2. \A g \in CsGames : GameDoc(g)' = GameDoc(g) /\ Document(g)' = Document(g)
  BY <1>1 DEF GameDoc, Document
<1>3. \A g \in CsGames : \A d : Made(g, d)' <=> Made(g, d)
  BY <1>1, <1>2 DEF Made
<1>4. \A docs : AllMade(docs)' <=> AllMade(docs)
  BY <1>3 DEF AllMade
<1>5. \A q : RequestIsSound(q)' <=> RequestIsSound(q)
  BY <1>4 DEF RequestIsSound
<1>6. \A q, g : Brings(q, g)' <=> Brings(q, g)
  BY <1>1 DEF Brings, Linked
<1>7. \A s : BatchIsSound(s)' <=> BatchIsSound(s)
  BY <1>1, <1>4 DEF BatchIsSound, FirstBatch
<1> QED
  BY <1>2, <1>3, <1>4, <1>5, <1>6, <1>7

\* The document of a row as it is now.
LEMMA DocumentIsMade ==
  ASSUME CsTypeOK, NEW g \in CsGames
  PROVE  Made(g, Document(g)) /\ Document(g).stamp = csStamp[g]
BY DEF CsTypeOK, Made, Document

\* A call that writes documents, of whatever age.
LEMMA WriteKeepsDocs ==
  ASSUME CsInv, UNCHANGED rows, NEW docs, AllMade(docs), NEW rejected \in SUBSET CsGames,
         Written(docs, rejected)
  PROVE  /\ DocsAreSound'
         /\ \A g \in CsGames : csBest'[g] \in Nat
         /\ \A g \in CsGames : csBest[g] = csStamp[g] => csBest'[g] = csStamp[g]
         /\ \A g \in DOMAIN docs : docs[g].stamp = csStamp[g] => csBest'[g] = csStamp[g]
         /\ \A g \in CsGames \ csLost' :
              /\ g \notin rejected
              /\ g \in csLost => g \in DOMAIN docs /\ docs[g].stamp = csStamp[g]
<1>1. csStamp' = csStamp
  BY DEF rows
<1>2. ASSUME NEW g \in CsGames
      PROVE  /\ csStamp[g] \in Nat /\ csBest[g] \in Nat /\ csBest[g] <= csStamp[g]
             /\ csDoc[g].stamp \in Nat /\ csDoc[g].stamp <= csBest[g]
             /\ g \notin csOver => csDoc[g].stamp = csBest[g]
             /\ Made(g, csDoc[g])
  BY DEF CsInv, CsTypeOK, DocsAreSound, Made
<1>3. ASSUME NEW g \in DOMAIN docs
      PROVE  g \in CsGames /\ docs[g].stamp \in Nat /\ docs[g].stamp <= csStamp[g] /\ Made(g, docs[g])
  BY DEF AllMade, Made
<1>4. ASSUME NEW g \in CsGames
      PROVE  /\ csDoc'[g] = IF g \in DOMAIN docs THEN docs[g] ELSE csDoc[g]
             /\ csBest'[g] = IF g \in DOMAIN docs /\ docs[g].stamp > csBest[g]
                             THEN docs[g].stamp ELSE csBest[g]
             /\ g \notin csOver' =>
                  (g \notin DOMAIN docs => g \notin csOver)
                  /\ (g \in DOMAIN docs => ~(docs[g].stamp < csBest[g]))
  BY DEF Written
<1>5. ASSUME NEW g \in CsGames
      PROVE  /\ Made(g, csDoc[g])'
             /\ csDoc'[g].stamp <= csBest'[g] /\ csBest'[g] <= csStamp'[g]
             /\ g \notin csOver' => csDoc'[g].stamp = csBest'[g]
  <2>1. PICK d : d = csDoc'[g]
    OBVIOUS
  <2>2. Made(g, d)
    BY <1>2, <1>3, <1>4, <2>1
  <2>3. Made(g, d)'
    BY <2>2, RowsStay
  <2>4. Made(g, csDoc[g])'
    BY <2>1, <2>3 DEF Made
  <2>5. CASE g \in DOMAIN docs
    BY <1>1, <1>2, <1>3, <1>4, <2>4, <2>5
  <2>6. CASE g \notin DOMAIN docs
    BY <1>1, <1>2, <1>4, <2>4, <2>6
  <2> QED
    BY <2>5, <2>6
<1>6. DocsAreSound'
  BY <1>5 DEF DocsAreSound
<1>7. \A g \in CsGames : csBest'[g] \in Nat /\ (csBest[g] = csStamp[g] => csBest'[g] = csStamp[g])
  BY <1>2, <1>3, <1>4
<1>8. \A g \in DOMAIN docs : docs[g].stamp = csStamp[g] => csBest'[g] = csStamp[g]
  BY <1>2, <1>3, <1>4
<1>9. \A g \in CsGames \ csLost' :
        /\ g \notin rejected
        /\ g \in csLost => g \in DOMAIN docs /\ docs[g].stamp = csStamp[g]
  BY DEF Written
<1> QED
  BY <1>6, <1>7, <1>8, <1>9

\* A sync that does not move stays sound while others write.
LEMMA SyncStays ==
  ASSUME CsInv, UNCHANGED <<rows, csSync>>,
         \A g \in CsGames : csBest[g] = csStamp[g] => csBest'[g] = csStamp[g]
  PROVE  SyncIsSound'
<1>1. csStamp' = csStamp /\ csGame' = csGame /\ csSync' = csSync
  BY DEF rows
<1>2. FoundIsSound(csSync) => FoundIsSound(csSync)'
  BY <1>1 DEF FoundIsSound
<1>3. PICK s : s = csSync
  OBVIOUS
<1>4. BatchIsSound(s)' <=> BatchIsSound(s)
  BY RowsStay
<1>5. BatchIsSound(csSync) => BatchIsSound(csSync)'
  BY <1>1, <1>3, <1>4 DEF BatchIsSound, AllMade, Made, GameDoc, FirstBatch
<1> QED
  BY <1>1, <1>2, <1>5 DEF CsInv, SyncIsSound

\* A request moves on: it still brings what it brought, or brought it.
LEMMA RequestKeepsInv ==
  ASSUME CsInv, CsTypeOK', UNCHANGED rows, DocsAreSound', SyncIsSound',
         \A g \in CsGames : csBest[g] = csStamp[g] => csBest'[g] = csStamp[g],
         NEW r \in CsReqs, DOMAIN csReq' = CsReqs,
         \A s \in CsReqs \ {r} : csReq'[s] = csReq[s],
         RequestIsSound(csReq'[r]),
         \A g \in CsGames \ csLost' :
           \/ csBest'[g] = csStamp[g]
           \/ g \notin csLost /\ (Brings(csReq[r], g) => Brings(csReq'[r], g))
  PROVE  CsInv'
<1>1. csStamp' = csStamp /\ csGame' = csGame /\ csLinks' = csLinks /\ csName' = csName
  BY DEF rows
<1>2. RequestsAreSound'
  <2>1. ASSUME NEW s \in CsReqs
        PROVE  RequestIsSound(csReq[s])'
    <3>1. PICK q : q = csReq'[s]
      OBVIOUS
    <3>2. RequestIsSound(q)
      BY <3>1 DEF CsInv, RequestsAreSound
    <3>3. RequestIsSound(q)'
      BY <3>2, RowsStay
    <3> QED
      BY <3>1, <3>3 DEF RequestIsSound, AllMade, Made, GameDoc
  <2> QED
    BY <2>1 DEF RequestsAreSound
<1>3. NothingForgotten'
  <2> SUFFICES ASSUME NEW g \in CsGames \ csLost', csBest'[g] # csStamp[g]
               PROVE  \E s \in CsReqs : Brings(csReq[s], g)'
    BY <1>1 DEF NothingForgotten
  <2>1. g \notin csLost /\ csBest[g] # csStamp[g]
    OBVIOUS
  <2>2. PICK s \in CsReqs : Brings(csReq[s], g)
    BY <2>1 DEF CsInv, NothingForgotten
  <2>3. Brings(csReq'[s], g)
    BY <2>2
  <2>4. Brings(csReq[s], g)'
    BY <1>1, <2>3 DEF Brings, Linked
  <2> QED
    BY <2>4
<1>4. LinksAreLive'
  BY <1>1 DEF CsInv, LinksAreLive
<1> QED
  BY <1>2, <1>3, <1>4 DEF CsInv

\* It reads, or is given up: no document is written.
LEMMA QuietRequest ==
  ASSUME CsInv, CsTypeOK', UNCHANGED <<rows, documents, csSync>>, csLost \subseteq csLost',
         NEW r \in CsReqs, DOMAIN csReq' = CsReqs,
         \A s \in CsReqs \ {r} : csReq'[s] = csReq[s],
         RequestIsSound(csReq'[r]),
         \A g \in CsGames \ csLost' : Brings(csReq[r], g) => Brings(csReq'[r], g)
  PROVE  CsInv'
<1>1. csDoc' = csDoc /\ csBest' = csBest /\ csOver' = csOver /\ csStamp' = csStamp
  BY DEF documents, rows
<1>2. DocsAreSound'
  BY <1>1, RowsStay DEF CsInv, DocsAreSound, Made
<1>3. SyncIsSound'
  BY <1>1, SyncStays
<1> QED
  BY <1>1, <1>2, <1>3, RequestKeepsInv

\* The documents of a request that were read before are written, but those rejected.
LEMMA WrittenRequest ==
  ASSUME CsInv, CsTypeOK', UNCHANGED <<rows, csSync>>,
         NEW r \in CsReqs, csReq[r].pc \in Calls,
         NEW rejected \in SUBSET DOMAIN csReq[r].docs,
         Written(Without(csReq[r].docs, rejected), rejected),
         csReq' = [csReq EXCEPT ![r] = Indexing(csReq[r].todo)]
  PROVE  CsInv'
<1>1. PICK q : q = csReq[r]
  OBVIOUS
<1>2. DOMAIN csReq = CsReqs /\ q.todo \subseteq CsGames /\ AllMade(q.docs)
  BY <1>1 DEF CsInv, RequestsAreSound, RequestIsSound, NoWork, Calls
<1>3. PICK docs : docs = Without(q.docs, rejected)
  OBVIOUS
<1>4. DOMAIN docs = DOMAIN q.docs \ rejected /\ \A g \in DOMAIN docs : docs[g] = q.docs[g]
  BY <1>3 DEF Without
<1>5. AllMade(docs) /\ rejected \in SUBSET CsGames
  BY <1>1, <1>2, <1>4 DEF AllMade
<1>6. Written(docs, rejected)
  BY <1>1, <1>3
<1>7. /\ DocsAreSound'
      /\ \A g \in CsGames : csBest[g] = csStamp[g] => csBest'[g] = csStamp[g]
      /\ \A g \in DOMAIN docs : docs[g].stamp = csStamp[g] => csBest'[g] = csStamp[g]
      /\ \A g \in CsGames \ csLost' :
           /\ g \notin rejected
           /\ g \in csLost => g \in DOMAIN docs /\ docs[g].stamp = csStamp[g]
  BY <1>5, <1>6, WriteKeepsDocs
<1>8. SyncIsSound'
  BY <1>7, SyncStays
<1>9. DOMAIN csReq' = CsReqs /\ csReq'[r] = Indexing(q.todo)
      /\ \A s \in CsReqs \ {r} : csReq'[s] = csReq[s]
  BY <1>1, <1>2
<1>10. RequestIsSound(csReq'[r])
  BY <1>2, <1>9 DEF RequestIsSound, Indexing
<1>11. ASSUME NEW g \in CsGames \ csLost', csBest'[g] # csStamp[g]
       PROVE  g \notin csLost /\ (Brings(csReq[r], g) => Brings(csReq'[r], g))
  <2>1. g \notin csLost /\ ~(g \in DOMAIN q.docs /\ q.docs[g].stamp = csStamp[g])
    BY <1>4, <1>7, <1>11
  <2>2. Brings(csReq[r], g) => g \in q.todo
    BY <1>1, <2>1 DEF Brings, Calls
  <2>3. g \in q.todo => Brings(csReq'[r], g)
    BY <1>9 DEF Brings, Indexing
  <2> QED
    BY <2>1, <2>2, <2>3
<1> QED
  BY <1>7, <1>8, <1>9, <1>10, <1>11, RequestKeepsInv

-----------------------------------------------------------------------------
(* Every step *)

LEMMA SpendKeepsBounds ==
  ASSUME csLeft \in Bounds,
         NEW kind \in {"edits", "deletes", "links", "renames", "drops", "imports", "syncs", "fails"},
         Spend(kind)
  PROVE  csLeft' \in Bounds
<1>1. csLeft' = [csLeft EXCEPT ![kind] = @ - 1] /\ csLeft[kind] > 0
  BY DEF Spend
<1>2. csLeft[kind] \in Nat
  BY DEF Bounds
<1>3. csLeft[kind] - 1 \in Nat
  BY <1>1, <1>2
<1> QED
  BY <1>1, <1>3 DEF Bounds

\* What a request that starts is: nobody else's changes.
LEMMA StartsOnly ==
  ASSUME RequestsAreSound, NEW r \in CsReqs, NEW work, Starts(r, work)
  PROVE  /\ csReq[r] = NoWork /\ csReq'[r] = work /\ DOMAIN csReq' = CsReqs
         /\ \A s \in CsReqs \ {r} : csReq'[s] = csReq[s]
BY DEF RequestsAreSound, Starts

\* A game that is to be indexed by itself is brought.
LEMMA IndexingBrings ==
  ASSUME NEW r \in CsReqs, NEW g \in CsGames, csReq'[r] = Indexing({g})
  PROVE  RequestIsSound(csReq[r])' /\ Brings(csReq[r], g)'
BY DEF RequestIsSound, Brings, Indexing

LEMMA SaveKeepsInv ==
  ASSUME CsInv, NEW r \in CsReqs, NEW g \in CsGames, SaveGame(r, g)
  PROVE  CsInv'
<1> DEFINE games == {g}
<1> USE DEF CsInv
<1>1. /\ csGame' = [csGame EXCEPT ![g] = @ + 1] /\ csLinks' = csLinks /\ csName' = csName
      /\ Changes(games) /\ csLost' = csLost /\ UNCHANGED <<documents, csSync>>
      /\ Spend("edits") /\ Starts(r, Indexing({g}))
  BY DEF SaveGame
<1>2. csLeft' \in Bounds
  BY <1>1, SpendKeepsBounds DEF CsTypeOK
<1>3. CsTypeOK'
  BY <1>1, <1>2 DEF CsTypeOK, Changes, documents
<1>4. LinksAreLive'
  BY <1>1 DEF LinksAreLive
<1>5. Spares(games)
  BY <1>1 DEF Spares, CsTypeOK
<1>6. PICK work : work = Indexing({g})
  OBVIOUS
<1>7. /\ csReq[r] = NoWork /\ csReq'[r] = Indexing({g}) /\ DOMAIN csReq' = CsReqs
      /\ \A s \in CsReqs \ {r} : csReq'[s] = csReq[s]
  BY <1>1, <1>6, StartsOnly
<1>8. RequestIsSound(csReq[r])' /\ Brings(csReq[r], g)'
  BY <1>7, IndexingBrings
<1> QED
  BY <1>1, <1>3, <1>4, <1>5, <1>7, <1>8, CommitKeepsInv

LEMMA DeleteKeepsInv ==
  ASSUME CsInv, NEW r \in CsReqs, NEW g \in CsGames, DeleteGame(r, g)
  PROVE  CsInv'
<1> DEFINE games == {g}
           removal == [pc |-> "remove", todo |-> {}, docs |-> Removal(g, csStamp[g] + 1)]
<1> USE DEF CsInv
<1>1. /\ csGame' = [csGame EXCEPT ![g] = 0] /\ csLinks' = [csLinks EXCEPT ![g] = {}]
      /\ csName' = csName
      /\ Changes(games) /\ csLost' = csLost /\ UNCHANGED <<documents, csSync>>
      /\ Spend("deletes") /\ Starts(r, removal)
  BY DEF DeleteGame
<1>2. csLeft' \in Bounds
  BY <1>1, SpendKeepsBounds DEF CsTypeOK
<1>3. CsTypeOK'
  BY <1>1, <1>2 DEF CsTypeOK, Changes, documents
<1>4. LinksAreLive'
  BY <1>1 DEF LinksAreLive, CsTypeOK
<1>5. Spares(games)
  BY <1>1 DEF Spares, CsTypeOK
<1>6. PICK work : work = removal
  OBVIOUS
<1>7. /\ csReq[r] = NoWork /\ csReq'[r] = work /\ DOMAIN csReq' = CsReqs
      /\ \A s \in CsReqs \ {r} : csReq'[s] = csReq[s]
  BY <1>1, <1>6, StartsOnly
<1>8. csStamp'[g] = csStamp[g] + 1 /\ csStamp[g] + 1 \in Nat /\ GameDoc(g)' = NoRow
  BY <1>1 DEF Changes, CsTypeOK, GameDoc
<1>9. /\ work.pc = "remove" /\ work.todo = {} /\ DOMAIN work.docs = {g}
      /\ work.docs[g].stamp = csStamp'[g] /\ work.docs[g].doc = NoRow
  BY <1>6, <1>8 DEF Removal
<1>10. RequestIsSound(csReq[r])'
  BY <1>7, <1>8, <1>9 DEF RequestIsSound, AllMade, Made, Calls
<1>11. Brings(csReq[r], g)'
  BY <1>7, <1>9 DEF Brings, Calls
<1> QED
  BY <1>1, <1>3, <1>4, <1>5, <1>7, <1>10, <1>11, CommitKeepsInv

LEMMA LinkKeepsInv ==
  ASSUME CsInv, NEW r \in CsReqs, NEW g \in CsGames, NEW l \in CsLookups, LinkGame(r, g, l)
  PROVE  CsInv'
<1> DEFINE games == {g}
<1> USE DEF CsInv
<1>1. /\ csGame' = csGame /\ csName' = csName /\ csName[l] # 0
      /\ \/ csLinks' = [csLinks EXCEPT ![g] = @ \union {l}]
         \/ csLinks' = [csLinks EXCEPT ![g] = @ \ {l}]
      /\ Changes(games) /\ csLost' = csLost /\ UNCHANGED <<documents, csSync>>
      /\ Spend("links") /\ Starts(r, Indexing({g}))
  BY DEF LinkGame
<1>2. csLeft' \in Bounds
  BY <1>1, SpendKeepsBounds DEF CsTypeOK
<1>3. CsTypeOK'
  BY <1>1, <1>2 DEF CsTypeOK, Changes, documents
<1>4. LinksAreLive'
  BY <1>1 DEF LinksAreLive, CsTypeOK
<1>5. Spares(games)
  BY <1>1 DEF Spares, CsTypeOK
<1>6. PICK work : work = Indexing({g})
  OBVIOUS
<1>7. /\ csReq[r] = NoWork /\ csReq'[r] = Indexing({g}) /\ DOMAIN csReq' = CsReqs
      /\ \A s \in CsReqs \ {r} : csReq'[s] = csReq[s]
  BY <1>1, <1>6, StartsOnly
<1>8. RequestIsSound(csReq[r])' /\ Brings(csReq[r], g)'
  BY <1>7, IndexingBrings
<1> QED
  BY <1>1, <1>3, <1>4, <1>5, <1>7, <1>8, CommitKeepsInv

LEMMA RenameKeepsInv ==
  ASSUME CsInv, NEW r \in CsReqs, NEW l \in CsLookups, RenameLookup(r, l)
  PROVE  CsInv'
<1> DEFINE games == Linked(l)
           cascade == [pc |-> "cascade", lookup |-> l]
<1> USE DEF CsInv
<1>1. /\ csGame' = csGame /\ csLinks' = csLinks /\ csName' = [csName EXCEPT ![l] = @ + 1]
      /\ Changes(games) /\ csLost' = csLost /\ UNCHANGED <<documents, csSync>>
      /\ Spend("renames") /\ Starts(r, cascade)
  BY DEF RenameLookup
<1>2. csLeft' \in Bounds
  BY <1>1, SpendKeepsBounds DEF CsTypeOK
<1>3. CsTypeOK'
  BY <1>1, <1>2 DEF CsTypeOK, Changes, documents
<1>4. LinksAreLive'
  BY <1>1 DEF LinksAreLive, CsTypeOK
<1>5. Spares(games)
  BY <1>1 DEF Spares, CsTypeOK, Linked
<1>6. PICK work : work = cascade
  OBVIOUS
<1>7. /\ csReq[r] = NoWork /\ csReq'[r] = cascade /\ DOMAIN csReq' = CsReqs
      /\ \A s \in CsReqs \ {r} : csReq'[s] = csReq[s]
  BY <1>1, <1>6, StartsOnly
<1>8. RequestIsSound(csReq[r])'
  BY <1>7 DEF RequestIsSound
<1>9. \A g \in games : Brings(csReq[r], g)'
  BY <1>1, <1>7 DEF Brings, Linked
<1>10. PICK changed \in SUBSET CsGames : changed = games
  BY DEF Linked
<1> QED
  BY <1>1, <1>3, <1>4, <1>5, <1>7, <1>8, <1>9, <1>10, CommitKeepsInv

LEMMA DropKeepsInv ==
  ASSUME CsInv, NEW r \in CsReqs, NEW l \in CsLookups, DeleteLookup(r, l)
  PROVE  CsInv'
<1> DEFINE games == Linked(l)
<1> USE DEF CsInv
<1>1. /\ csGame' = csGame /\ csLinks' = [g \in CsGames |-> csLinks[g] \ {l}]
      /\ csName' = [csName EXCEPT ![l] = 0]
      /\ Changes(games) /\ csLost' = csLost \union games /\ UNCHANGED <<documents, csSync>>
      /\ Spend("drops") /\ csReq[r] = NoWork /\ csReq' = csReq
  BY DEF DeleteLookup
<1>2. csLeft' \in Bounds
  BY <1>1, SpendKeepsBounds DEF CsTypeOK
<1>3. CsTypeOK'
  BY <1>1, <1>2 DEF CsTypeOK, Changes, documents, Linked
<1>4. LinksAreLive'
  BY <1>1 DEF LinksAreLive, CsTypeOK
<1>5. Spares(games)
  BY <1>1 DEF Spares, CsTypeOK, Linked
<1>6. PICK changed \in SUBSET CsGames : changed = games
  BY DEF Linked
<1>7. DOMAIN csReq' = CsReqs /\ RequestIsSound(csReq[r])'
  BY <1>1 DEF RequestsAreSound, RequestIsSound
<1>8. \A g \in changed \ csLost' : Brings(csReq[r], g)'
  BY <1>1, <1>6
<1> QED
  BY <1>1, <1>3, <1>4, <1>5, <1>6, <1>7, <1>8, CommitKeepsInv

LEMMA ImportKeepsInv ==
  ASSUME CsInv, NEW r \in CsReqs, ImportPage(r)
  PROVE  CsInv'
<1> DEFINE page == [pc |-> "load", todo |-> CsGames]
<1> USE DEF CsInv
<1>1. /\ csGame' = [g \in CsGames |-> csGame[g] + 1] /\ csLinks' = csLinks /\ csName' = csName
      /\ Changes(CsGames) /\ csLost' = csLost /\ UNCHANGED <<documents, csSync>>
      /\ Spend("imports") /\ Starts(r, page)
  BY DEF ImportPage
<1>2. csLeft' \in Bounds
  BY <1>1, SpendKeepsBounds DEF CsTypeOK
<1>3. CsTypeOK'
  BY <1>1, <1>2 DEF CsTypeOK, Changes, documents
<1>4. LinksAreLive'
  BY <1>1 DEF LinksAreLive, CsTypeOK
<1>5. Spares(CsGames)
  BY DEF Spares
<1>6. PICK work : work = page
  OBVIOUS
<1>7. /\ csReq[r] = NoWork /\ csReq'[r] = page /\ DOMAIN csReq' = CsReqs
      /\ \A s \in CsReqs \ {r} : csReq'[s] = csReq[s]
  BY <1>1, <1>6, StartsOnly
<1>8. RequestIsSound(csReq[r])'
  BY <1>7 DEF RequestIsSound
<1>9. \A g \in CsGames : csGame'[g] # 0
  BY <1>1 DEF CsTypeOK
<1>10. \A g \in CsGames : Brings(csReq[r], g)'
  BY <1>7, <1>9 DEF Brings
<1> QED
  BY <1>1, <1>3, <1>4, <1>5, <1>7, <1>8, <1>10, CommitKeepsInv

\* What every step of a request that commits nothing leaves alone.
LEMMA TypesStay ==
  ASSUME CsTypeOK, UNCHANGED rows, csBest' \in [CsGames -> Nat], csLost' \subseteq CsGames,
         csOver' \subseteq CsGames, csLeft' \in Bounds
  PROVE  CsTypeOK'
BY DEF CsTypeOK, rows

LEMMA CascadeKeepsInv ==
  ASSUME CsInv, NEW r \in CsReqs, Cascade(r)
  PROVE  CsInv'
<1> USE DEF CsInv
<1>1. PICK q : q = csReq[r]
  OBVIOUS
<1>2. DOMAIN csReq = CsReqs /\ q.pc = "cascade" /\ q.lookup \in CsLookups
  BY <1>1 DEF Cascade, RequestsAreSound, RequestIsSound, NoWork, Calls
<1>3. PICK work : work = IF csName[q.lookup] = 0 THEN NoWork ELSE Indexing(Related(q.lookup))
  OBVIOUS
<1>4. /\ csReq' = [csReq EXCEPT ![r] = work]
      /\ UNCHANGED <<rows, documents, csSync>> /\ csLost' = csLost /\ csLeft' = csLeft
  BY <1>1, <1>3 DEF Cascade
<1>5. CsTypeOK'
  BY <1>4, TypesStay DEF CsTypeOK, documents
<1>6. csReq'[r] = work /\ DOMAIN csReq' = CsReqs /\ \A s \in CsReqs \ {r} : csReq'[s] = csReq[s]
  BY <1>2, <1>4
<1>7. RequestIsSound(work)
  BY <1>3 DEF RequestIsSound, Indexing, Related, Linked
<1>8. ASSUME NEW g \in CsGames, Brings(q, g)
      PROVE  Brings(work, g)
  <2>1. g \in Linked(q.lookup)
    BY <1>2, <1>8 DEF Brings, Calls
  <2>2. csName[q.lookup] # 0
    BY <1>2, <2>1 DEF LinksAreLive, Linked
  <2>3. work = [pc |-> "read", todo |-> Linked(q.lookup)]
    BY <1>3, <2>1, <2>2 DEF Indexing, Related
  <2> QED
    BY <2>1, <2>3 DEF Brings
<1> QED
  BY <1>1, <1>4, <1>5, <1>6, <1>7, <1>8, QuietRequest

LEMMA ReadKeepsInv ==
  ASSUME CsInv, NEW r \in CsReqs, ReadGame(r)
  PROVE  CsInv'
<1> USE DEF CsInv
<1>1. PICK q : q = csReq[r]
  OBVIOUS
<1>2. DOMAIN csReq = CsReqs /\ q.pc = "read" /\ q.todo \subseteq CsGames
  BY <1>1 DEF ReadGame, RequestsAreSound, RequestIsSound, NoWork, Calls
<1>3. PICK g \in q.todo :
        csReq' = [csReq EXCEPT ![r] =
          IF csGame[g] = 0
          THEN [pc |-> "remove", todo |-> q.todo \ {g}, docs |-> Removal(g, csStamp[g])]
          ELSE [pc |-> "upsert", todo |-> q.todo \ {g}, docs |-> Upsert(g)]]
  BY <1>1 DEF ReadGame
<1>4. PICK work : work = IF csGame[g] = 0
          THEN [pc |-> "remove", todo |-> q.todo \ {g}, docs |-> Removal(g, csStamp[g])]
          ELSE [pc |-> "upsert", todo |-> q.todo \ {g}, docs |-> Upsert(g)]
  OBVIOUS
<1>5. /\ csReq' = [csReq EXCEPT ![r] = work]
      /\ UNCHANGED <<rows, documents, csSync>> /\ csLost' = csLost /\ csLeft' = csLeft
  BY <1>3, <1>4 DEF ReadGame
<1>6. CsTypeOK'
  BY <1>5, TypesStay DEF CsTypeOK, documents
<1>7. csReq'[r] = work /\ DOMAIN csReq' = CsReqs /\ \A s \in CsReqs \ {r} : csReq'[s] = csReq[s]
  BY <1>2, <1>5
<1>8. /\ work.pc \in Calls /\ work.todo = q.todo \ {g} /\ DOMAIN work.docs = {g}
      /\ work.docs[g].stamp = csStamp[g] /\ work.docs[g].doc = GameDoc(g)
  <2>1. CASE csGame[g] = 0
    BY <1>4, <2>1 DEF Calls, Removal, GameDoc
  <2>2. CASE csGame[g] # 0
    BY <1>4, <2>2 DEF Calls, Upsert, Document
  <2> QED
    BY <2>1, <2>2
<1>9. RequestIsSound(work)
  BY <1>2, <1>8 DEF RequestIsSound, AllMade, Made, CsTypeOK
<1>10. \A h \in CsGames : Brings(q, h) => Brings(work, h)
  BY <1>2, <1>8 DEF Brings, Calls
<1> QED
  BY <1>1, <1>5, <1>6, <1>7, <1>9, <1>10, QuietRequest

LEMMA LoadKeepsInv ==
  ASSUME CsInv, NEW r \in CsReqs, LoadPage(r)
  PROVE  CsInv'
<1> USE DEF CsInv
<1>1. PICK q : q = csReq[r]
  OBVIOUS
<1>2. DOMAIN csReq = CsReqs /\ q.pc = "load" /\ q.todo \subseteq CsGames
  BY <1>1 DEF LoadPage, RequestsAreSound, RequestIsSound, NoWork, Calls
<1>3. PICK present \in SUBSET CsGames : present = {g \in q.todo : csGame[g] # 0}
  BY <1>2
<1>4. PICK work : work = [pc |-> "import", todo |-> {}, docs |-> [g \in present |-> Document(g)]]
  OBVIOUS
<1>5. /\ csReq' = [csReq EXCEPT ![r] = work]
      /\ UNCHANGED <<rows, documents, csSync>> /\ csLost' = csLost /\ csLeft' = csLeft
  BY <1>1, <1>3, <1>4 DEF LoadPage
<1>6. CsTypeOK'
  BY <1>5, TypesStay DEF CsTypeOK, documents
<1>7. csReq'[r] = work /\ DOMAIN csReq' = CsReqs /\ \A s \in CsReqs \ {r} : csReq'[s] = csReq[s]
  BY <1>2, <1>5
<1>8. /\ work.pc \in Calls /\ work.todo = {} /\ DOMAIN work.docs = present
      /\ \A g \in present : Made(g, work.docs[g]) /\ work.docs[g].stamp = csStamp[g]
  BY <1>4, DocumentIsMade DEF Calls
<1>9. RequestIsSound(work)
  BY <1>8 DEF RequestIsSound, AllMade
<1>10. \A h \in CsGames : Brings(q, h) => Brings(work, h)
  BY <1>2, <1>3, <1>8 DEF Brings, Calls
<1> QED
  BY <1>1, <1>5, <1>6, <1>7, <1>9, <1>10, QuietRequest

\* What is written keeps the types.
LEMMA WrittenTypes ==
  ASSUME CsInv, UNCHANGED rows, NEW docs, AllMade(docs), NEW rejected \in SUBSET CsGames,
         Written(docs, rejected), csLeft' \in Bounds
  PROVE  CsTypeOK'
<1>1. \A g \in DOMAIN docs : docs[g].stamp \in Nat
  BY DEF AllMade, Made
<1>2. csBest' \in [CsGames -> Nat]
  BY <1>1 DEF Written, CsInv, CsTypeOK
<1>3. csLost' \subseteq CsGames /\ csOver' \subseteq CsGames
  BY DEF Written, CsInv, CsTypeOK, AllMade
<1> QED
  BY <1>2, <1>3, TypesStay DEF CsInv

\* A call that is answered, whatever it did not accept.
LEMMA AnswerKeepsInv ==
  ASSUME CsInv, UNCHANGED <<rows, csSync>>, NEW r \in CsReqs, csReq[r].pc \in Calls,
         NEW rejected \in SUBSET DOMAIN csReq[r].docs,
         Written(Without(csReq[r].docs, rejected), rejected),
         csReq' = [csReq EXCEPT ![r] = Indexing(csReq[r].todo)],
         csLeft' \in Bounds
  PROVE  CsInv'
<1>1. AllMade(csReq[r].docs)
  BY DEF CsInv, RequestsAreSound, RequestIsSound, NoWork, Calls
<1>2. PICK docs : docs = Without(csReq[r].docs, rejected)
  OBVIOUS
<1>3. AllMade(docs) /\ rejected \in SUBSET CsGames
  BY <1>1, <1>2 DEF AllMade, Without
<1>4. CsTypeOK'
  BY <1>2, <1>3, WrittenTypes
<1> QED
  BY <1>4, WrittenRequest

LEMMA WritesKeepsInv ==
  ASSUME CsInv, NEW r \in CsReqs, NEW call \in Calls, Writes(r, call)
  PROVE  CsInv'
<1>1. /\ csReq[r].pc \in Calls /\ UNCHANGED <<rows, csSync>> /\ csLeft' = csLeft
      /\ csReq' = [csReq EXCEPT ![r] = Indexing(csReq[r].todo)]
      /\ Written(csReq[r].docs, {})
  BY DEF Writes
<1>2. PICK docs : docs = csReq[r].docs
  OBVIOUS
<1>3. DOMAIN Without(docs, {}) = DOMAIN docs /\ \A g \in DOMAIN docs : Without(docs, {})[g] = docs[g]
  BY DEF Without
<1>4. Written(Without(docs, {}), {})
  BY <1>1, <1>2, <1>3 DEF Written
<1>5. csLeft' \in Bounds
  BY <1>1 DEF CsInv, CsTypeOK
<1> QED
  BY <1>1, <1>2, <1>4, <1>5, AnswerKeepsInv

\* A request that is given up: what it owed is lost.
LEMMA GiveUpKeepsInv ==
  ASSUME CsInv, NEW r \in CsReqs, Spend("fails"),
         UNCHANGED <<rows, documents, csSync>>,
         csLost' = csLost \union Owed(csReq[r]),
         csReq' = [csReq EXCEPT ![r] = NoWork]
  PROVE  CsInv'
<1> USE DEF CsInv
<1>1. PICK q : q = csReq[r]
  OBVIOUS
<1>2. RequestIsSound(q) /\ DOMAIN csReq = CsReqs
  BY <1>1 DEF RequestsAreSound
<1>3. Owed(q) \subseteq CsGames
  <2>1. CASE q.pc \in {"read", "load"}
    BY <1>2, <2>1 DEF Owed, RequestIsSound, Calls, NoWork
  <2>2. CASE q.pc \in Calls
    BY <1>2, <2>2 DEF Owed, RequestIsSound, AllMade, Calls, NoWork
  <2>3. CASE q.pc = "cascade"
    BY <1>2, <2>3 DEF Owed, Linked
  <2>4. CASE q.pc \notin {"read", "load", "cascade"} \union Calls
    BY <2>4 DEF Owed, Calls
  <2> QED
    BY <2>1, <2>2, <2>3, <2>4
<1>4. csLeft' \in Bounds
  BY SpendKeepsBounds DEF CsTypeOK
<1>5. CsTypeOK'
  BY <1>1, <1>3, <1>4, TypesStay DEF CsTypeOK, documents
<1>6. csReq'[r] = NoWork /\ DOMAIN csReq' = CsReqs /\ \A s \in CsReqs \ {r} : csReq'[s] = csReq[s]
  BY <1>2
<1>7. RequestIsSound(NoWork)
  BY DEF RequestIsSound
<1>8. \A g \in CsGames : Brings(q, g) => g \in Owed(q)
  BY DEF Brings, Owed, Calls
<1> QED
  BY <1>1, <1>5, <1>6, <1>7, <1>8, QuietRequest

LEMMA FailKeepsInv ==
  ASSUME CsInv, NEW r \in CsReqs, CallFails(r)
  PROVE  CsInv'
<1> USE DEF CsInv
<1>1. PICK q : q = csReq[r]
  OBVIOUS
<1>2. q # NoWork /\ Spend("fails") /\ UNCHANGED <<rows, csSync>> /\ csLeft' \in Bounds
  BY <1>1, SpendKeepsBounds DEF CallFails, CsTypeOK
<1>3. ASSUME q.pc = "read", NEW g \in q.todo,
             csLost' = csLost \union {g}, UNCHANGED documents,
             csReq' = [csReq EXCEPT ![r] = Indexing(q.todo \ {g})]
      PROVE  CsInv'
  <2>1. q.todo \subseteq CsGames /\ DOMAIN csReq = CsReqs
    BY <1>1, <1>3 DEF RequestsAreSound, RequestIsSound, NoWork, Calls
  <2>2. CsTypeOK'
    BY <1>2, <1>3, <2>1, TypesStay DEF CsTypeOK, documents
  <2>3. /\ csReq'[r] = Indexing(q.todo \ {g}) /\ DOMAIN csReq' = CsReqs
        /\ \A s \in CsReqs \ {r} : csReq'[s] = csReq[s]
    BY <1>3, <2>1
  <2>4. RequestIsSound(csReq'[r])
    BY <2>1, <2>3 DEF RequestIsSound, Indexing
  <2>5. \A h \in CsGames \ csLost' : Brings(q, h) => Brings(csReq'[r], h)
    BY <1>3, <2>3 DEF Brings, Calls, Indexing
  <2> QED
    BY <1>1, <1>2, <1>3, <2>2, <2>3, <2>4, <2>5, QuietRequest
<1>4. ASSUME q.pc \in Calls, csReq' = [csReq EXCEPT ![r] = Indexing(q.todo)],
             NEW rejected \in SUBSET DOMAIN q.docs,
             Written(Without(q.docs, rejected), rejected)
      PROVE  CsInv'
  BY <1>1, <1>2, <1>4, AnswerKeepsInv
<1>5. ASSUME csLost' = csLost \union Owed(q), UNCHANGED documents,
             csReq' = [csReq EXCEPT ![r] = NoWork]
      PROVE  CsInv'
  BY <1>1, <1>2, <1>5, GiveUpKeepsInv
<1> QED
  BY <1>1, <1>3, <1>4, <1>5 DEF CallFails, Calls

\* The sync moves, and writes nothing.
LEMMA QuietSync ==
  ASSUME CsInv, UNCHANGED <<rows, documents, csLost, csReq>>, csLeft' \in Bounds, SyncIsSound'
  PROVE  CsInv'
<1>1. csDoc' = csDoc /\ csBest' = csBest /\ csOver' = csOver /\ csStamp' = csStamp
  BY DEF documents, rows
<1>2. CsTypeOK'
  BY <1>1, TypesStay DEF CsInv, CsTypeOK
<1>3. DocsAreSound'
  BY <1>1, RowsStay DEF CsInv, DocsAreSound, Made
<1>4. LinksAreLive'
  BY DEF CsInv, LinksAreLive, rows
<1>5. RequestsAreSound'
  <2>1. ASSUME NEW r \in CsReqs
        PROVE  RequestIsSound(csReq[r])'
    <3>1. PICK q : q = csReq[r]
      OBVIOUS
    <3>2. RequestIsSound(q)'
      BY <3>1, RowsStay DEF CsInv, RequestsAreSound
    <3> QED
      BY <3>1, <3>2 DEF RequestIsSound, AllMade, Made, GameDoc
  <2> QED
    BY <2>1 DEF CsInv, RequestsAreSound
<1>6. NothingForgotten'
  <2>1. csLinks' = csLinks /\ csGame' = csGame
    BY DEF rows
  <2> QED
    BY <1>1, <2>1 DEF CsInv, NothingForgotten, Brings, Linked
<1> QED
  BY <1>2, <1>3, <1>4, <1>5, <1>6 DEF CsInv

LEMMA SyncExportKeepsInv ==
  ASSUME CsInv, SyncExport
  PROVE  CsInv'
<1>1. csLeft' \in Bounds
  BY SpendKeepsBounds DEF SyncExport, CsInv, CsTypeOK
<1>2. SyncIsSound'
  BY DEF SyncExport, SyncIsSound
<1> QED
  BY <1>1, <1>2, QuietSync DEF SyncExport

LEMMA SyncDiffKeepsInv ==
  ASSUME CsInv, SyncDiff
  PROVE  CsInv'
<1>1. PICK missing \in SUBSET CsGames :
        /\ missing = {g \in CsGames : csGame[g] # 0} \ csSync.indexed
        /\ csSync' = [pc |-> "docs", found |-> [g \in missing |-> csStamp[g]], missing |-> missing]
  BY DEF SyncDiff
<1>2. csStamp' = csStamp /\ csGame' = csGame
  BY DEF SyncDiff, rows
<1>3. FoundIsSound(csSync)'
  BY <1>1, <1>2 DEF FoundIsSound, CsInv, CsTypeOK
<1>4. SyncIsSound'
  BY <1>1, <1>3 DEF SyncIsSound
<1>5. csLeft' \in Bounds
  BY DEF SyncDiff, CsInv, CsTypeOK
<1> QED
  BY <1>4, <1>5, QuietSync DEF SyncDiff

LEMMA SyncDocsKeepsInv ==
  ASSUME CsInv, SyncDocs
  PROVE  CsInv'
<1>1. PICK s : s = csSync
  OBVIOUS
<1>2. s.pc = "docs" /\ FoundIsSound(s)
  BY <1>1 DEF SyncDocs, CsInv, SyncIsSound, NoSync
<1>3. PICK present \in SUBSET CsGames : present = {g \in FirstBatch(s.missing) : csGame[g] # 0}
  BY <1>2 DEF FoundIsSound, FirstBatch
<1>4. PICK t : t = [pc |-> "import", found |-> s.found, missing |-> s.missing,
                    docs |-> [g \in present |-> Document(g)]]
  OBVIOUS
<1>5. csSync' = t /\ UNCHANGED <<rows, documents, csLost, csReq>> /\ csLeft' = csLeft
  BY <1>1, <1>3, <1>4 DEF SyncDocs
<1>6. csStamp' = csStamp /\ csGame' = csGame /\ csBest' = csBest
  BY <1>5 DEF rows, documents
<1>7. FoundIsSound(t)'
  BY <1>2, <1>4, <1>6 DEF FoundIsSound
<1>8. DOMAIN t.docs = present /\ \A g \in present : Made(g, t.docs[g]) /\ t.docs[g].stamp = csStamp[g]
  BY <1>4, DocumentIsMade DEF CsInv
<1>9. BatchIsSound(t)
  <2>1. ASSUME NEW g \in DOMAIN s.found, g \in FirstBatch(s.missing), csStamp[g] = s.found[g]
        PROVE  g \in present
    BY <1>2, <1>3, <2>1 DEF FoundIsSound
  <2> QED
    BY <1>4, <1>8, <2>1 DEF BatchIsSound, AllMade
<1>10. BatchIsSound(t)'
  BY <1>5, <1>9, RowsStay
<1>11. SyncIsSound'
  BY <1>4, <1>5, <1>7, <1>10
     DEF SyncIsSound, FoundIsSound, BatchIsSound, AllMade, Made, GameDoc, FirstBatch
<1>12. csLeft' \in Bounds
  BY <1>5 DEF CsInv, CsTypeOK
<1> QED
  BY <1>5, <1>11, <1>12, QuietSync

\* A batch is written, but what was rejected.  Only an import that had nothing
\* rejected takes the batch off what is missing.
LEMMA SyncImportKeepsInv ==
  ASSUME CsInv, SyncImport
  PROVE  CsInv'
<1> USE DEF CsInv
<1>1. PICK s : s = csSync
  OBVIOUS
<1>2. s.pc = "import" /\ FoundIsSound(s) /\ BatchIsSound(s)
  BY <1>1 DEF SyncImport, SyncIsSound, NoSync
<1>3. PICK rejected \in SUBSET DOMAIN s.docs :
        /\ rejected # {} => csLeft.fails > 0
        /\ csLeft' = IF rejected # {} THEN [csLeft EXCEPT !.fails = @ - 1] ELSE csLeft
        /\ Written(Without(s.docs, rejected), {})
        /\ csSync' = AfterImport(rejected)
  BY <1>1 DEF SyncImport
<1>4. UNCHANGED rows /\ csReq' = csReq /\ csStamp' = csStamp /\ csGame' = csGame
  BY DEF SyncImport, rows
<1>5. PICK docs : docs = Without(s.docs, rejected)
  OBVIOUS
<1>6. AllMade(docs) /\ DOMAIN docs = DOMAIN s.docs \ rejected /\ \A g \in DOMAIN docs : docs[g] = s.docs[g]
  BY <1>2, <1>5 DEF Without, BatchIsSound, AllMade
<1>7. /\ DocsAreSound'
      /\ \A g \in CsGames : csBest[g] = csStamp[g] => csBest'[g] = csStamp[g]
      /\ \A g \in DOMAIN docs : docs[g].stamp = csStamp[g] => csBest'[g] = csStamp[g]
      /\ \A g \in CsGames \ csLost' : g \in csLost => g \in DOMAIN docs /\ docs[g].stamp = csStamp[g]
  BY <1>3, <1>4, <1>5, <1>6, WriteKeepsDocs
<1>8. csLeft' \in Bounds
  <2>1. csLeft \in Bounds
    BY DEF CsTypeOK
  <2>2. ASSUME rejected # {}
        PROVE  csLeft.fails - 1 \in Nat
    BY <1>3, <2>1, <2>2 DEF Bounds
  <2> QED
    BY <1>3, <2>1, <2>2 DEF Bounds
<1>9. CsTypeOK'
  BY <1>3, <1>4, <1>5, <1>6, <1>8, WrittenTypes
<1>10. SyncIsSound'
  <2>1. CASE rejected # {}
    BY <1>3, <2>1 DEF AfterImport, SyncIsSound
  <2>2. CASE rejected = {}
    <3>1. PICK t : t = [pc |-> "docs", found |-> s.found, missing |-> Batches(s.missing)]
      OBVIOUS
    <3>2. csSync' = t
      BY <1>1, <1>3, <2>2, <3>1 DEF AfterImport
    <3>3. ASSUME NEW g \in DOMAIN t.found, csStamp[g] = t.found[g], g \notin t.missing
          PROVE  csBest'[g] = csStamp[g]
      <4>1. CASE g \in FirstBatch(s.missing)
        BY <1>2, <1>6, <1>7, <2>2, <3>1, <3>3, <4>1 DEF BatchIsSound
      <4>2. CASE g \notin s.missing
        BY <1>2, <1>7, <3>1, <3>3, <4>2 DEF FoundIsSound
      <4> QED
        BY <3>1, <3>3, <4>1, <4>2 DEF Batches
    <3>4. FoundIsSound(t)'
      BY <1>2, <1>4, <3>1, <3>3 DEF FoundIsSound, Batches
    <3> QED
      BY <3>1, <3>2, <3>4 DEF SyncIsSound, FoundIsSound
  <2> QED
    BY <2>1, <2>2
<1>11. LinksAreLive'
  BY <1>4 DEF LinksAreLive, rows
<1>12. RequestsAreSound'
  <2>1. ASSUME NEW r \in CsReqs
        PROVE  RequestIsSound(csReq[r])'
    <3>1. PICK q : q = csReq[r]
      OBVIOUS
    <3>2. RequestIsSound(q)'
      BY <1>4, <3>1, RowsStay DEF RequestsAreSound
    <3> QED
      BY <1>4, <3>1, <3>2 DEF RequestIsSound, AllMade, Made, GameDoc
  <2> QED
    BY <1>4, <2>1 DEF RequestsAreSound
<1>13. NothingForgotten'
  <2>1. ASSUME NEW g \in CsGames \ csLost', csBest'[g] # csStamp[g]
        PROVE  \E r \in CsReqs : Brings(csReq[r], g)
    BY <1>7, <2>1 DEF NothingForgotten
  <2> QED
    BY <1>4, <2>1 DEF NothingForgotten, Brings, Linked, rows
<1> QED
  BY <1>7, <1>9, <1>10, <1>11, <1>12, <1>13

LEMMA SyncEndsKeepsInv ==
  ASSUME CsInv, SyncDone \/ SyncStops
  PROVE  CsInv'
<1>1. csSync' = NoSync /\ UNCHANGED <<rows, documents, csLost, csReq>>
  BY DEF SyncDone, SyncStops
<1>2. csLeft' \in Bounds
  BY SpendKeepsBounds DEF SyncDone, SyncStops, CsInv, CsTypeOK
<1>3. SyncIsSound'
  BY <1>1 DEF SyncIsSound
<1> QED
  BY <1>1, <1>2, <1>3, QuietSync

LEMMA CatalogInit == CsInit => CsInv
<1> SUFFICES ASSUME CsInit PROVE CsInv
  OBVIOUS
<1>1. CsTypeOK
  BY CatalogAssumption DEF CsInit, CsTypeOK, Bounds
<1>2. LinksAreLive
  BY DEF CsInit, LinksAreLive
<1>3. RequestsAreSound
  BY DEF CsInit, RequestsAreSound, RequestIsSound
<1>4. DocsAreSound
  <2>1. ASSUME NEW g \in CsGames, g \in csLost
        PROVE  csDoc[g].stamp = 0 /\ csBest[g] = 0 /\ csStamp[g] = 1
    BY <2>1 DEF CsInit
  <2>2. ASSUME NEW g \in CsGames, g \notin csLost
        PROVE  csDoc[g] = Document(g) /\ csBest[g] = 1 /\ csStamp[g] = 1
    BY <2>2 DEF CsInit
  <2>3. ASSUME NEW g \in CsGames
        PROVE  /\ Made(g, csDoc[g])
               /\ csDoc[g].stamp <= csBest[g] /\ csBest[g] <= csStamp[g]
               /\ g \notin csOver => csDoc[g].stamp = csBest[g]
    <3>1. CASE g \in csLost
      BY <2>1, <3>1 DEF Made
    <3>2. CASE g \notin csLost
      <4>1. csDoc[g] = Document(g) /\ csBest[g] = 1 /\ csStamp[g] = 1
        BY <2>2, <3>2
      <4>2. Made(g, Document(g)) /\ Document(g).stamp = csStamp[g]
        BY <1>1, DocumentIsMade
      <4> QED
        BY <4>1, <4>2
    <3> QED
      BY <3>1, <3>2
  <2> QED
    BY <2>3 DEF DocsAreSound
<1>5. NothingForgotten
  BY DEF CsInit, NothingForgotten
<1>6. SyncIsSound
  BY DEF CsInit, SyncIsSound
<1> QED
  BY <1>1, <1>2, <1>3, <1>4, <1>5, <1>6 DEF CsInv

\* No step changes anything.
LEMMA CatalogStutters ==
  ASSUME CsInv, UNCHANGED csVars
  PROVE  CsInv'
<1>1. UNCHANGED <<rows, documents, csLost, csReq>> /\ csSync' = csSync /\ csLeft' \in Bounds
  BY DEF csVars, rows, documents, CsInv, CsTypeOK
<1>2. SyncIsSound'
  BY <1>1, SyncStays DEF documents
<1> QED
  BY <1>1, <1>2, QuietSync

LEMMA CatalogNext == CsInv /\ [CsNext]_csVars => CsInv'
<1> SUFFICES ASSUME CsInv, [CsNext]_csVars PROVE CsInv'
  OBVIOUS
<1>1. CASE \E r \in CsReqs, g \in CsGames : SaveGame(r, g) \/ DeleteGame(r, g)
  BY <1>1, SaveKeepsInv, DeleteKeepsInv
<1>2. CASE \E r \in CsReqs, l \in CsLookups : RenameLookup(r, l) \/ DeleteLookup(r, l)
  BY <1>2, RenameKeepsInv, DropKeepsInv
<1>3. CASE \E r \in CsReqs, g \in CsGames, l \in CsLookups : LinkGame(r, g, l)
  BY <1>3, LinkKeepsInv
<1>4. ASSUME NEW r \in CsReqs, ImportPage(r) \/ Cascade(r) \/ ReadGame(r) \/ LoadPage(r)
      PROVE  CsInv'
  BY <1>4, ImportKeepsInv, CascadeKeepsInv, ReadKeepsInv, LoadKeepsInv
<1>5. ASSUME NEW r \in CsReqs, UpsertGame(r) \/ RemoveGame(r) \/ ImportGames(r)
      PROVE  CsInv'
  BY <1>5, WritesKeepsInv DEF UpsertGame, RemoveGame, ImportGames, Calls
<1>6. ASSUME NEW r \in CsReqs, CallFails(r) \/ ApiDies(r)
      PROVE  CsInv'
  BY <1>6, FailKeepsInv, GiveUpKeepsInv DEF ApiDies
<1>7. CASE SyncExport \/ SyncDiff \/ SyncDocs \/ SyncImport \/ SyncDone \/ SyncStops
  BY <1>7, SyncExportKeepsInv, SyncDiffKeepsInv, SyncDocsKeepsInv, SyncImportKeepsInv,
     SyncEndsKeepsInv
<1>8. CASE UNCHANGED csVars
  BY <1>8, CatalogStutters
<1> QED
  BY <1>1, <1>2, <1>3, <1>4, <1>5, <1>6, <1>7, <1>8 DEF CsNext

-----------------------------------------------------------------------------
(* Theorems *)

\* In every state of every run: documents are of commits, and right if of the
\* latest; and the latest row of a game was written, is still to be written by a
\* request under way, or was lost by a call that failed or died.
THEOREM CatalogInductive == CsSpec => []CsInv
<1> QED
  BY CatalogInit, CatalogNext, PTL DEF CsSpec

\* When nothing is in progress the documents agree with the rows and the names
\* of their lookups, but for what a failure lost or an older read overwrote
\* (typesense-search-writer.ts:78-90, 208-229).
THEOREM DocumentsSettle == CsSpec => []CsSettled
<1>1. CsInv => CsSettled
  <2> SUFFICES ASSUME CsInv, AtRest, NEW g \in CsGames \ (csLost \union csOver)
               PROVE  csDoc[g].doc = GameDoc(g)
    BY DEF CsSettled
  <2>1. \A r \in CsReqs : ~Brings(csReq[r], g)
    BY DEF AtRest, Brings, NoWork, Calls
  <2>2. csBest[g] = csStamp[g]
    BY <2>1 DEF CsInv, NothingForgotten
  <2>3. csDoc[g].stamp = csStamp[g] /\ Made(g, csDoc[g])
    BY <2>2 DEF CsInv, DocsAreSound
  <2> QED
    BY <2>3 DEF Made
<1> QED
  BY <1>1, CatalogInductive, PTL

\* A sync that completes has filled in what its difference found to be missing,
\* unless the row changed since or an older removal came over the document
\* (sync.rs:106-193, mod.rs:40).
THEOREM SyncFillsGaps == CsSpec => CsSyncFills
<1> DEFINE Fills ==
      csSync.pc = "docs" /\ csSync' = NoSync /\ csLeft' = csLeft =>
        \A g \in DOMAIN csSync.found \ csOver :
          csStamp[g] = csSync.found[g] => csDoc[g].doc # NoRow
<1>1. CsInv /\ [CsNext]_csVars => [Fills]_csVars
  <2> SUFFICES ASSUME CsInv, CsNext, csSync.pc = "docs", csSync' = NoSync, csLeft' = csLeft,
                      NEW g \in DOMAIN csSync.found, g \notin csOver,
                      csStamp[g] = csSync.found[g]
               PROVE  csDoc[g].doc # NoRow
    OBVIOUS
  <2>1. csSync' # csSync
    BY DEF NoSync
  <2>2. SyncDone \/ SyncStops
    <3>1. ~\E r \in CsReqs, h \in CsGames : SaveGame(r, h) \/ DeleteGame(r, h)
      BY <2>1 DEF SaveGame, DeleteGame
    <3>2. ~\E r \in CsReqs, l \in CsLookups : RenameLookup(r, l) \/ DeleteLookup(r, l)
      BY <2>1 DEF RenameLookup, DeleteLookup
    <3>3. ~\E r \in CsReqs, h \in CsGames, l \in CsLookups : LinkGame(r, h, l)
      BY <2>1 DEF LinkGame
    <3>4. ~\E r \in CsReqs : \/ ImportPage(r) \/ Cascade(r) \/ ReadGame(r) \/ LoadPage(r)
                             \/ UpsertGame(r) \/ RemoveGame(r) \/ ImportGames(r)
      BY <2>1 DEF ImportPage, Cascade, ReadGame, LoadPage, UpsertGame, RemoveGame, ImportGames, Writes
    <3>5. ~\E r \in CsReqs : CallFails(r) \/ ApiDies(r)
      BY <2>1 DEF CallFails, ApiDies
    <3>6. ~(SyncExport \/ SyncDiff \/ SyncDocs \/ SyncImport)
      BY DEF SyncExport, SyncDiff, SyncDocs, SyncImport, NoSync
    <3> QED
      BY <3>1, <3>2, <3>3, <3>4, <3>5, <3>6 DEF CsNext
  <2>3. ~SyncStops
    <3>1. csLeft.fails \in Nat /\ csLeft \in Bounds
      BY DEF CsInv, CsTypeOK, Bounds
    <3>2. SyncStops => csLeft'.fails = csLeft.fails - 1
      BY <3>1 DEF SyncStops, Spend, Bounds
    <3> QED
      BY <3>1, <3>2
  <2>4. csSync.missing = {}
    BY <2>2, <2>3 DEF SyncDone
  <2>5. FoundIsSound(csSync)
    BY DEF CsInv, SyncIsSound, NoSync
  <2>6. g \in CsGames /\ csGame[g] # 0 /\ csBest[g] = csStamp[g]
    BY <2>4, <2>5 DEF FoundIsSound
  <2>7. csDoc[g].doc = GameDoc(g)
    BY <2>6 DEF CsInv, DocsAreSound, Made
  <2> QED
    BY <2>6, <2>7 DEF GameDoc, NoRow
<1> QED
  BY <1>1, CatalogInductive, PTL DEF CsSpec, CsSyncFills
=============================================================================
