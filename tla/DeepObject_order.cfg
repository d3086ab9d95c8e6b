CONSTANTS
  NotANumber = NotANumber
  Texts <- MCTexts
  Number <- MCNumber
  Rank <- MCRank
  Queries <- MCQueries
SPECIFICATION Spec
INVARIANT ArraysAreInOrder
CHECK_DEADLOCK FALSE
