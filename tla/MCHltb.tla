------------------------------- MODULE MCHltb -------------------------------
(* HltbMapping on small instances: the constants the .cfg files give it.      *)
EXTENDS HltbMapping

\* One update, or two of one refresh bound straight or crossed.
MCMatches == {<<<<1, 2>>>>, <<<<1, 1>>, <<2, 2>>>>, <<<<1, 2>>, <<2, 1>>>>}

\* Several lookups and applies, or one of each with an edit or a refresh.
HlBudget(lookups, applies, edits, refreshes) ==
  [lookups |-> lookups, applies |-> applies, edits |-> edits, refreshes |-> refreshes]
MCHlBudgets == {HlBudget(2, 2, 0, 0), HlBudget(1, 1, 1, 0), HlBudget(1, 1, 0, 1)}
OneRefresh == {HlBudget(1, 1, 0, 1)}
=============================================================================
