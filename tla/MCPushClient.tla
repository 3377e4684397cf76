---------------------------- MODULE MCPushClient ----------------------------
(* A small instance of PushClient for TLC. *)
EXTENDS PushClient

CONSTANTS r1, r0

Size(halves, unit) == [halves |-> halves, unit |-> unit]

Default ==
  [auth |-> "basic", authFields |-> TRUE, required |-> TRUE,
   maxSize |-> Size(2, 100), maxUncompressed |-> Size(2, 500), maxEntries |-> 10,
   cache |-> "off", mode |-> "file", redisURL |-> FALSE, pgURL |-> FALSE]

\* All stores and caches, with and without what they need, and the default with
\* a missing setting or with a size at the edge.
SomeConfigs ==
  [ auth : {"basic", "oidc", "none"}, authFields : {TRUE}, required : {TRUE},
    maxSize : {Size(2, 100)}, maxUncompressed : {Size(2, 500)}, maxEntries : {10},
    cache : {"off", "redis", "memory"}, mode : {"file", "redis", "postgres", "etcd"},
    redisURL : BOOLEAN, pgURL : BOOLEAN ]
  \union
  { [Default EXCEPT !.authFields = FALSE],
    [Default EXCEPT !.required = FALSE],
    [Default EXCEPT !.maxEntries = 0],
    [Default EXCEPT !.maxSize = Size(1, 1)],
    [Default EXCEPT !.maxSize = Size(-2, 100)],
    [Default EXCEPT !.maxSize = Size(-2, 1001)],
    [Default EXCEPT !.maxSize = Size(1998, 1)],
    [Default EXCEPT !.maxSize = Size(2000, 1)],
    [Default EXCEPT !.maxUncompressed = Size(1, 0)] }
=============================================================================
