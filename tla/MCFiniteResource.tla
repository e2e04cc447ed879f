-------------------------- MODULE MCFiniteResource --------------------------
(* FiniteResource on small role maps: capacities the run can and cannot     *)
(* exhaust, a minimum one above the maximum and one two above it.           *)
EXTENDS FiniteResource

Direct(min, max, capacity) ==
  [Pattern |-> PatternFiniteResource, MinInstances |-> min, MaxInstances |-> max,
   ResourceCapacity |-> capacity, PoolCapacity |-> 0, AcquireTime |-> 0]

MCRoleMaps ==
  {Direct(0, 3, 1), Direct(1, 2, 3), Direct(2, 2, 5), Direct(1, 3, 8),
   Direct(1, 2, 9), Direct(2, 1, 1), Direct(3, 1, 2)}
=============================================================================
