--------------------------- MODULE MCProxyExchange ---------------------------
(* One status of each class that is treated differently: success, other     *)
(* (redirect), error; and one status GraphQL errors are mapped to.          *)
EXTENDS ProxyExchange

MCUpstreamStatuses == {200, 304, 404}
MCMappedStatuses == {422}
=============================================================================
