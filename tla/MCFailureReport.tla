-------------------------- MODULE MCFailureReport --------------------------
(* FailureReport on two instances that share one connection, and on one     *)
(* instance with a pool larger than the resource; step bytes that select    *)
(* either instance and, in turn, each of the four rules.                    *)
EXTENDS FailureReport

Pooled(minInstances, maxInstances, poolCapacity) ==
  [Pattern |-> PatternFinitePooledResource, MinInstances |-> minInstances,
   MaxInstances |-> maxInstances, ResourceCapacity |-> 1, PoolCapacity |-> poolCapacity,
   AcquireTime |-> 1]

MCRoleMaps == {Pooled(1, 1, 2), Pooled(1, 2, 1), Pooled(2, 1, 1)}

MCPrefixBytes == {<<0, 0>>, <<1, 3>>, <<2, 1>>, <<3, 0>>}
MCStepBytes == {<<0, 0>>, <<0, 1>>, <<1, 3>>, <<3, 2>>}
=============================================================================
