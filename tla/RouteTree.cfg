SPECIFICATION Spec
CONSTANTS
  GET = GET
  POST = POST
  Documents <- MCDocuments
  Requests <- MCRequests
  Methods <- MCMethods
  Accepts <- MCAccepts
  Undecodable <- MCUndecodable
CHECK_DEADLOCK FALSE
INVARIANTS
  TypeOK
  RoutedToMostSpecific
  NoSharedLeaf
PROPERTIES
  InsertionKeepsRoutes
