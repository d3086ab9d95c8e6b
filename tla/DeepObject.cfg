CONSTANTS
  NotANumber = NotANumber
  Texts <- MCTexts
  Number <- MCNumber
  Rank <- MCRank
  Queries <- MCQueries
SPECIFICATION Spec
INVARIANTS
  TypeOK
  TreeHoldsTheQuery
  RejectedOnlyIfMixed
  MixedIsRejected
  PlainQueriesSettle
CHECK_DEADLOCK FALSE
