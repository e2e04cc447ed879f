---------------------------- MODULE ModelParser ----------------------------
(***************************************************************************)
(* Parse of internal/model/parser.go: which files are read as a model, and *)
(* what of them is the model and what an inline definition.                *)
(*                                                                         *)
(* A file is a sequence of documents.  The Kind of one is its YAML field   *)
(* "kind", or "broken" when the decoder or remarshal fails on it.  Of a    *)
(* model, Complete stands for the presence of the required fields; a name  *)
(* that is left empty is "none".                                           *)
(***************************************************************************)
EXTENDS Naturals, Sequences

Operations == {"read", "write", "read_write"}

(* "Assume this is the model document": any kind the loop does not know. *)
IsModel(document) == document.Kind \notin {"node", "relationship", "broken"}
ModelDocuments(file) == SelectSeq(file, IsModel)

Inline(file, kind) ==
  LET OfKind(document) == document.Kind = kind
      documents == SelectSeq(file, OfKind)
  IN  [n \in DOMAIN documents |-> documents[n].Body]

ComponentNames(model) == {model.Components[i].Name : i \in DOMAIN model.Components}

ValidModel(model) ==
  /\ model.Complete
  /\ model.Components # << >>
  /\ \A i, j \in DOMAIN model.Components :
       model.Components[i].Name = model.Components[j].Name => i = j
  /\ \A i \in DOMAIN model.Edges :
       /\ {model.Edges[i].Source, model.Edges[i].Target} \subseteq ComponentNames(model)
       /\ model.Edges[i].Operation \in Operations
       /\ "pool_size" \notin DOMAIN model.Edges[i].Properties
  /\ \A i \in DOMAIN model.Relationships :
       {model.Relationships[i].Upstream, model.Relationships[i].Downstream} \ {"none"}
         \subseteq ComponentNames(model)

Parses(file) ==
  /\ \A n \in DOMAIN file : file[n].Kind # "broken"
  /\ Len(ModelDocuments(file)) = 1
  /\ ValidModel(ModelDocuments(file)[1].Body)

Model(file) == ModelDocuments(file)[1].Body
=============================================================================
