---------------------------- MODULE MCLayeredDb ----------------------------
(* Instances of LayeredDb for TLC. *)
EXTENDS LayeredDbClaims

\* One kind of node, carrying one field.
OneNodeKind == {[label |-> "City", fields |-> {"name"}]}

\* Two labels; one node kind carries a field that the other does not.
TwoNodeKinds == {[label |-> "City", fields |-> {"name", "pop"}],
                 [label |-> "Person", fields |-> {"name"}]}
=============================================================================
