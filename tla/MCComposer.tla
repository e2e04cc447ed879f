----------------------------- MODULE MCComposer -----------------------------
(* Composer on the bindings of the two standard templates, on custom ones   *)
(* with a second binding for a role, and on models of two or three          *)
(* relationships and two downstreams.                                       *)
EXTENDS Composer

Binding(variable, scope, prop, value) ==
  [Variable |-> variable, Scope |-> scope, Prop |-> prop,
   Resolved |-> value # -1, Value |-> value]

(* -1 stands for a null property, -2 for a negative number.                 *)
Common(v, w) ==
  {Binding("min_instances", "upstream", "min_instances", v),
   Binding("instances", "upstream", "max_instances", w),
   Binding("operation_cost", "edge", "operation_ms", 5),
   Binding("downstream_capacity", "downstream", "max_connections", v)}

DirectBindings(v, w) ==
  Common(v, w) \cup
  {Binding("upstream_rate", "upstream", "max_connections", 7),
   Binding("downstream_instances", "downstream", "max_instances", 2)}

PooledBindings(v, w) ==
  Common(v, w) \cup
  {Binding("max_pool_size", "edge", "max_pool_size", w),
   Binding("conn_establish_ms", "downstream", "conn_establish_ms", v)}

(* A second binding for the instances and for the pool.                     *)
Second(v) ==
  {Binding("shards", "upstream", "max_instances", v),
   Binding("pool", "upstream", "max_pool_size", v)}

Relationship(downstream, pattern, resolve) ==
  [Downstream |-> downstream, Pattern |-> pattern, Resolve |-> resolve]

OneRelationship ==
  UNION {{<<Relationship("db", PatternFiniteResource, DirectBindings(v, w))>>,
          <<Relationship("db", PatternFinitePooledResource, PooledBindings(v, w))>>} :
           v \in {-1, 0, 2}, w \in {-2, -1, 0, 3}}
  \cup {<<Relationship("db", PatternFinitePooledResource, PooledBindings(2, w) \cup Second(u))>> :
           u \in {-1, 0, 3}, w \in {0, 1, 3}}

(* What the two patterns need and no more.                                  *)
Limits ==
  {Binding("instances", "upstream", "max_instances", 2),
   Binding("downstream_capacity", "downstream", "max_connections", 1)}

Direct(downstream) == Relationship(downstream, PatternFiniteResource, Limits)
Pooled(downstream) ==
  Relationship(downstream, PatternFinitePooledResource,
    Limits \cup {Binding("max_pool_size", "edge", "max_pool_size", 1),
                 Binding("conn_establish_ms", "downstream", "conn_establish_ms", 1)})
Incomplete(downstream) == Relationship(downstream, PatternFinitePooledResource, Limits)
Unpatterned == Relationship("db", "none", Limits)
Unlisted == Relationship("db", "unlisted", Limits)
Custom == Relationship("queue", "backoff", Limits)

MCModels ==
  {<<Direct("db"), Pooled("db")>>, <<Direct("db"), Pooled("queue")>>,
   <<Direct("db"), Incomplete("db"), Direct("db")>>,
   <<Unpatterned, Pooled("db"), Custom>>, <<Unlisted, Custom>>,
   <<Incomplete("db")>>, << >>} \cup OneRelationship

(* Two services, each within its limit, of one database. *)
OneDatabase == {<<Pooled("db"), Pooled("db")>>}
=============================================================================
