SPECIFICATION HlSpec
CONSTANTS
    HlGames = {1, 2}
    HlIds = {1, 2}
    HlTimed = {1}
    HlReqs = {r1}
    HlAnswers = {{1, 2}}
    HlMatches <- MCMatches
    HlBudgets <- OneRefresh
CHECK_DEADLOCK FALSE
PROPERTIES
    HlReplacingIsAsked
