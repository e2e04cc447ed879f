--------------------------- MODULE MCFinitePooled ---------------------------
(* FinitePooled on small role maps: exhaustible and not, a minimum equal to *)
(* the maximum, one above it (no count to draw) and two above it.           *)
EXTENDS FinitePooled, FiniteSetsExt

Pooled(min, max, capacity, poolCapacity) ==
  [Pattern |-> PatternFinitePooledResource, MinInstances |-> min,
   MaxInstances |-> max, ResourceCapacity |-> capacity,
   PoolCapacity |-> poolCapacity, AcquireTime |-> 1]

MCRoleMaps ==
  {Pooled(0, 2, 1, 1), Pooled(1, 2, 2, 2), Pooled(2, 2, 4, 2),
   Pooled(1, 2, 3, 1), Pooled(2, 1, 1, 1), Pooled(3, 1, 2, 1)}

(* Total is the sum of the counters. *)
ASSUME TotalIsTheSum ==
  \A n \in 0 .. 3 : \A f \in [0 .. n-1 -> 0 .. 2] :
    Total(f, n, 2) = MapThenSumSet(LAMBDA i : f[i], 0 .. n-1)
=============================================================================
