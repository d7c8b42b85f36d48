CONSTANTS
  Keywords <- MCKeywords
  Pairs <- MCPairs
  IdentifierChars <- MCIdentifierChars
  MaxToken = 2
  Programs <- MCPrograms
  Main <- MCMain
  MaxLine = 10
  Passes = 3
SPECIFICATION Spec
INVARIANT TokensOfTheText
CHECK_DEADLOCK FALSE
