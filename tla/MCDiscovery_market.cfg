SPECIFICATION Spec
CONSTANTS
  alice = alice
  bob = bob
  Missing = Missing
  Items <- MCItems
  Wants <- MCWants
  Owner <- MCOwner
  Wanter <- MCWanter
  Categories <- MCCategories
  Conditions <- MCConditions
  MaxTitle = 3 MaxDescription = 3
  MaxKeywords = 2
  MaxKeyword = 2
  Listings <- MCListings
  Requests <- MCRequests
  Queries <- MCQueries
INVARIANTS SearchIsLiteral KeywordsArePlainWords RowsAreNormal EverySwapOnce
PROPERTY SuggestionsFit
