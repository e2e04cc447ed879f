-------------------------- MODULE MCDefinitionCache --------------------------
(* DefinitionCache with a process that runs every command but status, and   *)
(* with one that asks for the status.                                       *)
EXTENDS DefinitionCache

Content(nodes, rels) == [Parses |-> TRUE, Defs |-> [node |-> nodes, relationship |-> rels]]

MCContents == {Content(<<"db">>, <<"uses">>), Content(<<"db">>, << >>), NoContent}

OneFile == <<"shared">>
TwoFiles == <<"shared", "team">>

BothOrders == {<<"shared", "team">>, <<"team", "shared">>}
Shared == {<<"shared">>}

(* One process writes, the other asks for the status. *)
WriterAndReader ==
  [p \in Procs |-> IF p = "cli" THEN CommandNames \ {"status"} ELSE {"status"}]
TwoWriters == [p \in Procs |-> {"refresh"}]
RefreshAndStatus == [p \in Procs |-> {"refresh", "status"}]
=============================================================================
