SPECIFICATION Spec
CONSTANTS
  UpstreamStatuses <- MCUpstreamStatuses
  MappedStatuses <- MCMappedStatuses
CHECK_DEADLOCK FALSE
INVARIANTS
  TypeOK
  UpstreamBodyClosed
  NeverSilent
  ChecksPrecedeTheResponse
  SuccessIsTheUpstreamResponse
  TracedBodyIsNotMixed
