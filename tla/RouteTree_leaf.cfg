SPECIFICATION Spec
CONSTANTS
  GET = GET
  POST = POST
  Documents <- MCTwiceDocuments
  Requests <- MCRequests
  Methods <- MCMethods
  Accepts <- MCAccepts
  Undecodable <- MCUndecodable
CHECK_DEADLOCK FALSE
INVARIANT PatternIsOfTheLeaf
