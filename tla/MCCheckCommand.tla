--------------------------- MODULE MCCheckCommand ---------------------------
(* CheckCommand on models of two components, on files that do not parse and *)
(* on the expressions of up to two operators a side.                        *)
EXTENDS TextualChecks

N(n) == Value(n, 1)

NodeDef(name, source, props) == [Name |-> name, Source |-> source, Properties |-> props]
RelDef(name, source, resolve, checks) ==
  [Name |-> name, Source |-> source, Resolve |-> resolve, Checks |-> checks]
CheckDef(name, expression) == [Name |-> name, Expression |-> expression]
Binding(scope, property) == [Scope |-> scope, Property |-> property]
Of(k, body) == [Kind |-> k, Body |-> body]

Component(name, type, props) == [Name |-> name, Type |-> type, Properties |-> props]
Edge(source, target, props) ==
  [Source |-> source, Target |-> target, Operation |-> "read", Properties |-> props]
Uses(template, upstream, downstream) ==
  [Template |-> template, Upstream |-> upstream, Downstream |-> downstream]
ModelOf(components, edges, relationships, unknowns) ==
  [Complete |-> TRUE, Components |-> components, Edges |-> edges,
   Relationships |-> relationships, KnownUnknowns |-> unknowns]

Invoke(name, mcp, f, defs) ==
  [Command |-> name, Tool |-> mcp, File |-> f, Path |-> defs]

-----------------------------------------------------------------------------
(* Definitions like those of the binary, of a team and of a model file. *)

Server == NodeDef("server", "embedded", [conns |-> Null, instances |-> N(1)])
Store == NodeDef("store", "embedded", [conns |-> Null])
TeamServer == NodeDef("server", "team.yaml", [conns |-> N(3), instances |-> Null])
OtherServer == NodeDef("server", "other.yaml", [conns |-> N(1)])
TeamStore == NodeDef("store", "team.yaml", [conns |-> Null, instances |-> N(1)])
InlineStore == NodeDef("store", "none", [conns |-> N(2)])

Rate == Binary("*", Ident("conns"), Ident("instances"))

Chain == RelDef("chain", "embedded",
  [conns |-> Binding("upstream", "conns"), instances |-> Binding("upstream", "instances"),
   cost |-> Binding("edge", "cost"), capacity |-> Binding("downstream", "conns")],
  <<CheckDef("limit", Binary("<=", Rate, Ident("capacity"))),
    CheckDef("cost", Binary("<", Binary("/", Ident("cost"), Ident("conns")), Number(3)))>>)

(* What Validate complains about, and an expression that is none. *)
Odd == RelDef("odd", "none",
  [x |-> Binding("malformed", "none"), y |-> Binding("sideways", "conns"),
   z |-> Binding("downstream", "instances")],
  <<CheckDef("null", Binary("<", Ident("x"), FuncCall("min", <<Ident("y"), Ident("z")>>))),
    CheckDef("max", Binary(">=", FuncCall("max", <<Ident("z"), Number(1)>>), Number(2)))>>)
Wrong == RelDef("wrong", "none", [x |-> Binding("upstream", "conns")],
  <<CheckDef("text", NoNode)>>)

MCEmbedded == [node |-> <<Server, Store>>, relationship |-> <<Chain>>]
NoDefinitions == [node |-> << >>, relationship |-> << >>]
Team == [node |-> <<TeamServer, TeamStore, OtherServer>>, relationship |-> << >>]
PathDefinitions == {NoDefinitions, Team}

-----------------------------------------------------------------------------
(* Models. *)

Upstreams ==
  {Component("web", type, props) : type \in {"server", "cache"},
     props \in {<< >>, [conns |-> N(2)], [conns |-> Null, instances |-> N(2)],
                [conns |-> N(0)], [conns |-> Text], [conns |-> Other]}}
Downstreams == {Component("db", "store", props) : props \in {<< >>, [conns |-> N(1)]}}

EdgeLists ==
  {<< >>, <<Edge("web", "db", [cost |-> N(9)]), Edge("web", "db", << >>)>>,
   <<Edge("web", "db", << >>), Edge("db", "web", [cost |-> N(9)])>>}

RelationshipLists ==
  {<<Uses("chain", "web", "db"), Uses("odd", "web", "db")>>,
   <<Uses("lost", "web", "db"), Uses("chain", "web", "none"), Uses("odd", "web", "db")>>,
   <<Uses("chain", "db", "web"), Uses("wrong", "web", "db"), Uses("chain", "web", "db")>>}

Authors == {[ID |-> <<"author">>, Component |-> "none", Edge |-> <<"web", "db">>]}

TwoParts ==
  {ModelOf(<<up, down>>, edges, uses, IF edges = << >> THEN {} ELSE Authors) :
     up \in Upstreams, down \in Downstreams, edges \in EdgeLists, uses \in RelationshipLists}

(* A file with and one without a definition of its own for "store". *)
Files ==
  {<<Of("relationship", Odd), Of("model", m), Of("relationship", Wrong)>> : m \in TwoParts}
  \cup {<<Of("node", InlineStore), Of("node", Store), Of("relationship", Odd), Of("none", m)>> :
          m \in {n \in TwoParts : n.Relationships[1].Template = "chain"}}

Sound == CHOOSE m \in TwoParts : m.Edges # << >>

Refused ==
  {<< >>, <<Of("broken", << >>)>>, <<Of("model", Sound), Of("model", Sound)>>}
  \cup {<<Of("model", m)>> :
          m \in {[Sound EXCEPT !.Complete = FALSE], [Sound EXCEPT !.Components = << >>],
                 [Sound EXCEPT !.Components[2].Name = "web"],
                 [Sound EXCEPT !.Edges[1].Target = "cdn"],
                 [Sound EXCEPT !.Edges[1].Operation = "append"],
                 [Sound EXCEPT !.Edges[1].Properties = [pool_size |-> N(1)]],
                 [Sound EXCEPT !.Relationships[1].Upstream = "cdn"]}}

-----------------------------------------------------------------------------
(* Expressions, as the checks of one relationship of a component with      *)
(* itself that has some of its numbers.                                    *)

Leaves == {Ident("a"), Ident("b"), Number(2)}

Over(left, right) ==
  {Binary(op, l, r) : op \in {"+", "-", "*", "/"}, l \in left, r \in right}
  \cup {Unary(l) : l \in left}
  \cup {FuncCall(name, <<l, r>>) : name \in {"max", "min"}, l \in left, r \in right}

Simple == Over(Leaves, {Ident("b")}) \cup {Binary("<", Ident("a"), Ident("b"))}

(* Every operator and function between two operands; division last. *)
Between(l, r) ==
  <<Binary("+", l, r), Binary("-", l, r), Binary("*", l, r), FuncCall("max", <<l, r>>),
    FuncCall("min", <<l, r>>), Unary(l), Binary("/", l, r)>>

Rights == <<Ident("a"), Number(2)>>

Ops == <<"<=", ">=", "<", ">">>

(* Each left side compared with each right side, the operators by turns.   *)
Compared(lefts, rights) ==
  LET Side1(k) == lefts[(k - 1) \div Len(rights) + 1]
      Side2(k) == rights[((k - 1) % Len(rights)) + 1]
  IN  [k \in 1 .. Len(lefts) * Len(rights) |->
         CheckDef(ToString(k), Binary(Ops[(k % 4) + 1], Side1(k), Side2(k)))]

CheckLists ==
  {Compared(Between(s, leaf), Rights) : s \in Simple, leaf \in Leaves}
  \cup {Compared(Between(leaf, s), Rights) : s \in Simple, leaf \in Leaves}
  \cup {Compared(Between(leaf, Ident("b")), <<s>>) : s \in Simple, leaf \in Leaves}

MCNumbers == {-1, 0, 3}

Known == {[p \in names |-> N(f[p])] : names \in {{}, {"a"}, {"b"}}, f \in [{"a", "b"} -> MCNumbers]}
  \cup {[p \in {"a", "b"} |-> N(f[p])] : f \in [{"a", "b"} -> MCNumbers]}

Calculator == NodeDef("calculator", "none", [a |-> Null, b |-> Null])
Asks(checks) == RelDef("asks", "none",
  [a |-> Binding("upstream", "a"), b |-> Binding("downstream", "b")], checks)

Calculations ==
  {<<Of("node", Calculator), Of("relationship", Asks(checks)),
     Of("model", ModelOf(<<Component("it", "calculator", known)>>, << >>,
                         <<Uses("asks", "it", "it")>>, {}))>> :
     checks \in CheckLists, known \in Known}

MCInvocations ==
  {Invoke("check", FALSE, f, NoDefinitions) : f \in Refused \cup Calculations}
  \cup {Invoke("check", FALSE, f, defs) : f \in Files, defs \in PathDefinitions}
  \cup {Invoke("visualize", TRUE, f, defs) : f \in Files, defs \in PathDefinitions}
  \cup {Invoke("visualize", FALSE, f, Team) : f \in Refused \cup {<<Of("model", Sound)>>}}
  \cup {Invoke("validate", FALSE, <<Of("model", Sound)>>, Team)}

-----------------------------------------------------------------------------
(* The names of the template capacity_chain of the binary: the name of one *)
(* variable is part of another's.                                          *)
MCSpelling == [downstream_instances |-> <<"downstream_", "instances">>]

Capacity == RelDef("capacity_chain", "embedded",
  [instances |-> Binding("upstream", "instances"),
   downstream_instances |-> Binding("downstream", "instances")],
  <<CheckDef("throughput",
      Binary("<=", Ident("instances"),
             FuncCall("max", <<Ident("downstream_instances"), Number(1)>>)))>>)

EmbeddedChain == [node |-> <<Server>>, relationship |-> <<Capacity>>]

Clusters ==
  {Invoke("check", FALSE, <<Of("model",
     ModelOf(<<Component("web", "server", [instances |-> N(up)]),
               Component("db", "server", [instances |-> N(down)])>>, << >>,
             <<Uses("capacity_chain", "web", "db")>>, {}))>>, NoDefinitions) :
     up \in 1 .. 3, down \in 1 .. 3}

-----------------------------------------------------------------------------
(* What Registry and Validator are given. *)

MCModels == {Model(c.File) : c \in {i \in MCInvocations : Parses(i.File)}}

MCDefinitions ==
  {Server, Store, TeamServer, OtherServer, TeamStore, InlineStore,
   Chain, Odd, Wrong, Calculator, Capacity}
  \cup {Asks(checks) : checks \in CheckLists}
=============================================================================
