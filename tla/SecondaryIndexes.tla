-------------------------- MODULE SecondaryIndexes --------------------------
(***************************************************************************)
(* LabelIndex and PropertyIndex.                                           *)
(*                                                                         *)
(* LabelIndex maps a label to a Vec of node ids that insert() pushes onto  *)
(* without looking, so an id may occur twice; it is a count per label and  *)
(* id.  PropertyIndex keeps, per field, sub-indexes by type and value; what *)
(* its users outside a query depend on is which fields have been indexed   *)
(* at all (query() answers None for the others, and the caller then scans) *)
(* and which ids are entered under a field.                                *)
(***************************************************************************)
EXTENDS WalStorage

CONSTANT IndexedFields  \* the fields should_index_field() accepts

ASSUME IndexAssumption == IndexedFields \subseteq Fields

LabelIndex == [Labels -> [NodeIds -> Nat]]

EmptyLabelIndex == [l \in Labels |-> [id \in NodeIds |-> 0]]

LabelInsert(index, id, label) == [index EXCEPT ![label][id] = @ + 1]

\* Mutant of LabelRemove: one occurrence goes, and there is taken to be one.
LabelRemoveOne(index, id, label) == [index EXCEPT ![label][id] = @ - 1]

\* retain(|stored| stored != id): every occurrence goes.
LabelRemove(index, id, label) == [index EXCEPT ![label][id] = 0]

PropertyIndex == [known : SUBSET Fields, entries : [Fields -> SUBSET NodeIds]]

EmptyPropertyIndex == [known |-> {}, entries |-> [f \in Fields |-> {}]]

PropertyInsert(index, id, fields) ==
    [known   |-> index.known \cup fields,
     entries |-> [f \in Fields |-> IF f \in fields THEN index.entries[f] \cup {id}
                                   ELSE index.entries[f]]]

\* A field stays known when its last entry goes.
PropertyRemove(index, id, fields) ==
    [known   |-> index.known,
     entries |-> [f \in Fields |-> IF f \in fields \cap index.known
                                   THEN index.entries[f] \ {id}
                                   ELSE index.entries[f]]]

\* The filter insert_node and open_with_config apply (All, OnlyFields, None).
Indexable(node) == node.fields \cap IndexedFields

\* What open_with_config builds from the live nodes.
LabelIndexOf(d) ==
    [l \in Labels |-> [id \in NodeIds |->
        IF d.nodes[id] # Absent /\ d.nodes[id].label = l THEN 1 ELSE 0]]

\* Mutant of PropertyIndexOf: opening does not ask the configuration.
PropertyIndexOfAll(d) ==
    [known   |-> UNION {d.nodes[id].fields : id \in LiveNodes(d)},
     entries |-> [f \in Fields |-> {id \in LiveNodes(d) : f \in d.nodes[id].fields}]]

PropertyIndexOf(d) ==
    [known   |-> UNION {Indexable(d.nodes[id]) : id \in LiveNodes(d)},
     entries |-> [f \in Fields |->
                    {id \in LiveNodes(d) : f \in Indexable(d.nodes[id])}]]
=============================================================================
