---------------------------- MODULE PropertyIndex ----------------------------
(***************************************************************************)
(* PropertyIndex in full: for each field, one BTreeMap per type from a     *)
(* value to the ids of the nodes that have it.  The maps of one field are  *)
(* one function here, whose keys carry their type; an index is a function  *)
(* from the fields it has seen.                                            *)
(***************************************************************************)
EXTENDS PropertyFilter, SequencesExt

NoFields == [f \in {} |-> {}]

\* OrderedF64 puts NaN below every number.
Rank(value) == IF value.type = "Float" /\ value.v = NaN THEN -NaN ELSE value.v

Without(ids, id) == Among(ids, ToSet(ids) \ {id})

bucket_insert(map, key, id) ==
    [k \in DOMAIN map \cup {key} |->
        IF k # key THEN map[k] ELSE IF k \in DOMAIN map THEN Append(map[k], id) ELSE <<id>>]

\* Mutant of bucket_remove: the key is looked for with ==, which no NaN is.
bucket_remove_equal(map, key, id) ==
    LET left == [k \in DOMAIN map |-> IF SameValue(k, key) THEN Without(map[k], id) ELSE map[k]]
    IN  [k \in {k \in DOMAIN left : left[k] # <<>>} |-> left[k]]

\* An empty bucket goes.
bucket_remove(map, key, id) ==
    LET left == [k \in DOMAIN map |-> IF k = key THEN Without(map[k], id) ELSE map[k]]
    IN  [k \in {k \in DOMAIN left : left[k] # <<>>} |-> left[k]]

insert_node(index, id, props) ==
    [f \in DOMAIN index \cup DOMAIN props |->
        LET map == IF f \in DOMAIN index THEN index[f] ELSE [k \in {} |-> <<>>]
        IN  IF f \in DOMAIN props THEN bucket_insert(map, props[f], id) ELSE map]

\* The field itself stays, with whatever is left.
remove_node(index, id, props) ==
    [f \in DOMAIN index |-> IF f \in DOMAIN props
                            THEN bucket_remove(index[f], props[f], id) ELSE index[f]]

\* Which keys of its type range_query_btree takes: by their order, except
\* that `!=` is the derived inequality.
InRange(op, k, key) ==
    IF op = "!=" THEN ~SameValue(k, key) ELSE compare_ord(op, Rank(k), Rank(key))

Ascending(keys) ==
    CHOOSE order \in SetToSeqs(keys) :
        \A i, j \in DOMAIN order : i < j => Rank(order[i]) =< Rank(order[j])

\* The buckets of these keys, one after the other.
Listed(map, keys) ==
    LET ids[i \in 0 .. Len(keys)] == IF i = 0 THEN <<>> ELSE ids[i - 1] \o map[keys[i]]
    IN  ids

range_query(map, op, key) ==
    LET keys == Ascending({k \in DOMAIN map : k.type = key.type /\ InRange(op, k, key)})
    IN  Listed(map, keys)[Len(keys)]

\* FieldIndex::query.  Nothing is unequal to null, or beyond it.
query(map, op, value) ==
    IF value.type = "Null" /\ op # "=" THEN <<>> ELSE range_query(map, op, value)
=============================================================================
