-------------------------- MODULE SimulatorProofs --------------------------
(***************************************************************************)
(* What the proofs of both machines rest on: what the sums of Counting do  *)
(* when one counter moves by one, the largest value they reach, and what   *)
(* the draws of a simulation return.                                       *)
(***************************************************************************)
EXTENDS Simulator, Counting, FiniteSetTheorems, TLAPS

(* The whole board of n columns of height c has n * c cells. *)
LEMMA BoardSize ==
  ASSUME NEW n \in Nat, NEW c \in Nat
  PROVE  /\ IsFiniteSet((0 .. n-1) \X (1 .. c))
         /\ Cardinality((0 .. n-1) \X (1 .. c)) = n * c
  <1>1. IsFiniteSet(0 .. n-1) /\ Cardinality(0 .. n-1) = n
    BY FS_Interval
  <1>2. IsFiniteSet(1 .. c) /\ Cardinality(1 .. c) = c
    BY FS_Interval
  <1>. DEFINE S == 0 .. n-1
              T == 1 .. c
  <1>3. IsFiniteSet(S \X T) /\ Cardinality(S \X T) = Cardinality(S) * Cardinality(T)
    <2>. HIDE DEF S, T
    <2>. QED  BY <1>1, <1>2, FS_Product DEF S, T
  <1>. QED  BY <1>1, <1>2, <1>3

(* A sum is a number between zero and the size of the board, and a board   *)
(* of more columns bounds it too.                                          *)
LEMMA TotalBound ==
  ASSUME NEW n \in Nat, NEW c \in Nat, NEW f, NEW m \in Nat, n <= m
  PROVE  /\ IsFiniteSet(Units(f, n, c))
         /\ Total(f, n, c) \in Nat
         /\ Total(f, n, c) <= m * c
  <1>1. Units(f, n, c) \in SUBSET ((0 .. m-1) \X (1 .. c))
    BY DEF Units
  <1>2. /\ IsFiniteSet(Units(f, n, c))
        /\ Cardinality(Units(f, n, c)) <= Cardinality((0 .. m-1) \X (1 .. c))
    BY <1>1, BoardSize, FS_Subset
  <1>3. Cardinality((0 .. m-1) \X (1 .. c)) = m * c
    BY BoardSize
  <1>4. Cardinality(Units(f, n, c)) \in Nat
    BY <1>2, FS_CardinalityType
  <1>. QED  BY <1>2, <1>3, <1>4 DEF Total

(* The sum of counters that are all zero is zero. *)
LEMMA TotalZero ==
  ASSUME NEW n \in Nat, NEW c \in Nat
  PROVE  Total([i \in 0 .. n-1 |-> 0], n, c) = 0
  <1>1. Units([i \in 0 .. n-1 |-> 0], n, c) = {}
    BY DEF Units
  <1>. QED  BY <1>1, FS_EmptySet DEF Total

(* One more on a counter below the height of the board is one more in the  *)
(* sum.                                                                    *)
LEMMA TotalUp ==
  ASSUME NEW n \in Nat, NEW c \in Nat,
         NEW f \in [0 .. n-1 -> Nat], NEW i \in 0 .. n-1, f[i] < c
  PROVE  Total(With(f, i, f[i] + 1), n, c) = Total(f, n, c) + 1
  <1>. DEFINE g == With(f, i, f[i] + 1)
              cell == <<i, f[i] + 1>>
  <1>1. cell \notin Units(f, n, c)
    BY DEF Units
  <1>2. Units(g, n, c) = Units(f, n, c) \cup {cell}
    <2>1. ASSUME NEW x \in 0 .. n-1, NEW k \in 1 .. c
          PROVE  k <= g[x] <=> (k <= f[x] \/ <<x, k>> = cell)
      <3>1. CASE x = i
        BY <3>1 DEF With
      <3>2. CASE x # i
        BY <3>2 DEF With
      <3>. QED  BY <3>1, <3>2
    <2>2. cell \in (0 .. n-1) \X (1 .. c)
      OBVIOUS
    <2>. QED  BY <2>1, <2>2 DEF Units
  <1>3. IsFiniteSet(Units(f, n, c))
    BY TotalBound
  <1>. QED  BY <1>1, <1>2, <1>3, FS_AddElement DEF Total

(* One less on a positive counter is one less in the sum. *)
LEMMA TotalDown ==
  ASSUME NEW n \in Nat, NEW c \in Nat,
         NEW f \in [0 .. n-1 -> Nat], NEW i \in 0 .. n-1, 0 < f[i], f[i] <= c
  PROVE  Total(With(f, i, f[i] - 1), n, c) = Total(f, n, c) - 1
  <1>. DEFINE g == With(f, i, f[i] - 1)
  <1>1. g \in [0 .. n-1 -> Nat] /\ g[i] = f[i] - 1 /\ g[i] < c
    BY DEF With
  <1>2. With(g, i, g[i] + 1) = f
    <2>1. ASSUME NEW x \in 0 .. n-1
          PROVE  With(g, i, g[i] + 1)[x] = f[x]
      BY <1>1 DEF With
    <2>2. With(g, i, g[i] + 1) \in [0 .. n-1 -> Nat]
      BY <1>1 DEF With
    <2>. QED  BY <2>1, <2>2
  <1>3. Total(f, n, c) = Total(g, n, c) + 1
    <2>. HIDE DEF g
    <2>. QED  BY <1>1, <1>2, TotalUp
  <1>4. Total(g, n, c) \in Nat
    <2>1. n <= n
      OBVIOUS
    <2>. HIDE DEF g
    <2>. QED  BY <2>1, TotalBound
  <1>. QED  BY <1>3, <1>4

-----------------------------------------------------------------------------
(* The numbers of a role map are numbers, and the required ones positive.  *)
LEMMA RoleNumbers ==
  ASSUME NEW r \in RoleMaps
  PROVE  /\ r.MinInstances \in Int
         /\ r.MaxInstances \in Nat \ {0}
         /\ r.ResourceCapacity \in Nat \ {0}
         /\ r.PoolCapacity \in Int
         /\ r.Pattern = PatternFinitePooledResource => r.PoolCapacity \in Nat \ {0}
         /\ EffectiveMinInstances(r) \in Nat \ {0}
         /\ Spread(r) \in Int
  <1>1. /\ r.MinInstances \in Int /\ r.MaxInstances \in Int
        /\ r.ResourceCapacity \in Int /\ r.PoolCapacity \in Int
        /\ Missing(r) = {}
    BY RoleMapsAssumption DEF Valid
  <1>2. ~(r.MaxInstances <= 0) /\ ~(r.ResourceCapacity <= 0)
    BY <1>1, "MaxInstances" \notin Missing(r), "ResourceCapacity" \notin Missing(r)
       DEF Missing
  <1>3. r.Pattern = PatternFinitePooledResource => ~(r.PoolCapacity <= 0)
    BY <1>1, "PoolCapacity" \notin Missing(r) DEF Missing
  <1>4. EffectiveMinInstances(r) \in Nat \ {0}
    BY <1>1 DEF EffectiveMinInstances
  <1>5. Spread(r) \in Int
    BY <1>1, <1>4 DEF Spread
  <1>. QED  BY <1>1, <1>2, <1>3, <1>4, <1>5

(* A remainder is between zero and the divisor. *)
LEMMA Remainder ==
  ASSUME NEW b \in Nat, NEW d \in Nat \ {0}
  PROVE  b % d \in 0 .. d-1
  OBVIOUS

(* Whatever the byte, at least one instance is drawn, and with bounds in   *)
(* order no more than the maximum.                                         *)
LEMMA DrawnCount ==
  ASSUME NEW r \in RoleMaps, Spread(r) # 0, NEW b \in Byte
  PROVE  /\ InstanceCount(r, b) \in Nat \ {0}
         /\ EffectiveMinInstances(r) <= r.MaxInstances =>
              InstanceCount(r, b) <= r.MaxInstances
  <1>. DEFINE width == IF Spread(r) < 0 THEN -Spread(r) ELSE Spread(r)
  <1>1. b \in Nat
    BY ByteValuesAssumption DEF Byte
  <1>2. width \in Nat \ {0}
    BY RoleNumbers
  <1>3. b % width \in 0 .. width-1
    BY <1>1, <1>2, Remainder
  <1>4. InstanceCount(r, b) = (b % width) + EffectiveMinInstances(r)
    BY DEF InstanceCount
  <1>5. EffectiveMinInstances(r) <= r.MaxInstances =>
          width = r.MaxInstances - EffectiveMinInstances(r) + 1
    BY RoleNumbers DEF Spread
  <1>. HIDE DEF width
  <1>. QED  BY <1>2, <1>3, <1>4, <1>5, RoleNumbers
=============================================================================
