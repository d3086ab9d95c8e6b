CONSTANTS
  Size <- MCSize
  Matching <- MCMatching
  WellFormed <- MCWellFormed
  AsBoolean <- MCAsBoolean
  AsInteger <- MCAsInteger
  AsNumber <- MCAsNumber
  AsDocument <- MCAsDocument
  Requests <- MCRequests
  Orders <- MCOrders
  DocumentSchemas <- MCDocumentSchemas
  Height <- MCHeight
  PlainValues <- MCPlainValues
  Canonical <- MCCanonical
  ConvertedToV3 <- Convert
  PanicsConverting <- ConversionPanics
  Validated <- MCValidated
  Met <- MCMet
  Flattened <- MCFlattened
  ItemDecoded <- MCItemDecoded
  BranchDecoded <- MCBranchDecoded
  NodeBelow <- MCNodeBelow
  ArbitraryBelow <- MCArbitraryBelow
  NodeDecodedBelow <- MCNodeDecodedBelow
  NodeObjectOf <- MCNodeObjectOf
  SubSchemasBelow <- MCSubSchemasBelow
SPECIFICATION Spec
INVARIANTS
  TypeOK
  AcceptedIsValid
  RequiredIsPresent
  NothingIsLost
  RoundTrip
  CrashesOnlyOnExclusiveMinimum
  PathsAreKept
  DeclaredParametersApply
  CredentialsAreAskedFor
  SwaggerIsKept
CHECK_DEADLOCK FALSE
