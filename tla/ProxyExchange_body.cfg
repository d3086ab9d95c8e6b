SPECIFICATION Spec
CONSTANTS
  UpstreamStatuses <- MCUpstreamStatuses
  MappedStatuses <- MCMappedStatuses
CHECK_DEADLOCK FALSE
INVARIANT AcceptedBodyIsProxied
