----------------------------- MODULE MCServices -----------------------------
(* The components that share no state, each on a small instance, in one run: *)
(* a behaviour is one of one component, chosen at the start, and the others   *)
(* stay as they begin.  The state space is the sum of theirs, not the product. *)
EXTENDS MCHltb, HltbPermit, Scheduler, EventsListener, CatalogSearch

VARIABLE part

Parts == {"mapping", "permit", "scheduler", "listener", "search"}

\* Scheduler: each definition has a key of its own.
MCKeyOf == [d \in ScRows |-> IF d = 1 THEN "search.index" ELSE "catalog"]
ScBudget(edits, runs, fails, lags) ==
  [edits |-> edits, runs |-> runs, fails |-> fails, lags |-> lags]
MCScBudgets == {ScBudget(2, 0, 0, 0), ScBudget(1, 0, 1, 0), ScBudget(0, 1, 1, 0),
                ScBudget(1, 1, 0, 0), ScBudget(0, 0, 0, 1)}

\* CatalogSearch
CsBudget(edits, deletes, links, renames, drops, imports, syncs, fails) ==
  [edits |-> edits, deletes |-> deletes, links |-> links, renames |-> renames,
   drops |-> drops, imports |-> imports, syncs |-> syncs, fails |-> fails]
MCCsBudgets == {CsBudget(2, 1, 0, 0, 0, 0, 1, 1), CsBudget(0, 1, 0, 0, 0, 1, 2, 1),
                CsBudget(0, 0, 2, 1, 1, 0, 0, 1), CsBudget(1, 0, 2, 2, 0, 0, 0, 0),
                CsBudget(1, 0, 1, 1, 0, 1, 0, 0)}

\* Which request acts does not matter (CsReqs is the same set).
RequestSymmetry == Permutations(HlReqs)

\* A component that is not chosen begins in one state.
Fixed ==
  /\ part # "mapping" => hlBudget = CHOOSE b \in HlBudgets : TRUE
  /\ \A g \in HlGames : hlRow[g].hours # 0 => g = 1 /\ part = "mapping" /\ hlBudget.refreshes > 0
  /\ \A d \in ScRows : scRow[d].enabled
  /\ part # "scheduler" => scLeft = CHOOSE b \in ScBudgets : TRUE
  /\ part # "search" => csLost = {} /\ csLeft = CHOOSE b \in CsBudgets : TRUE

Init ==
  /\ part \in Parts
  /\ HlInit /\ PmInit /\ ScInit /\ EvInit /\ CsInit
  /\ Fixed

Next ==
  \/ part = "mapping"   /\ HlNext /\ UNCHANGED <<part, pmVars, scVars, evVars, csVars>>
  \/ part = "permit"    /\ PmNext /\ UNCHANGED <<part, hlVars, scVars, evVars, csVars>>
  \/ part = "scheduler" /\ ScNext /\ UNCHANGED <<part, hlVars, pmVars, evVars, csVars>>
  \/ part = "listener"  /\ EvNext /\ UNCHANGED <<part, hlVars, pmVars, scVars, csVars>>
  \/ part = "search"    /\ CsNext /\ UNCHANGED <<part, hlVars, pmVars, scVars, evVars>>

Spec == Init /\ [][Next]_<<part, hlVars, pmVars, scVars, evVars, csVars>>
=============================================================================
