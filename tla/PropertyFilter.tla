--------------------------- MODULE PropertyFilter ---------------------------
(***************************************************************************)
(* Values, comparison operators and filters, as the query IR defines them. *)
(*                                                                         *)
(* A value is its variant and a number: the integer, a text's place in     *)
(* their order, 0 or 1 for a boolean.  A float is counted in halves of     *)
(* f64::EPSILON, so that two distinct floats may be too close to differ;   *)
(* an integer cast to one is a multiple of One.                            *)
(***************************************************************************)
EXTENDS Integers, Sequences

EPSILON == 2
One == 4
NaN == 1000
Infinity == 999

Value == [type : {"Null", "Boolean", "Integer", "Float", "Text"}, v : Int]

ComparisonOp == {"=", "!=", "<", "<=", ">", ">="}

NoLabel == "none"   \* label: None

\* PartialEq of Value: a NaN differs from itself.
SameValue(a, b) == a = b /\ ~(a.type = "Float" /\ a.v = NaN)

compare_ord(op, lhs, rhs) ==
    \/ op = "="  /\ lhs = rhs
    \/ op = "!=" /\ lhs # rhs
    \/ op = "<"  /\ lhs < rhs
    \/ op = "<=" /\ lhs =< rhs
    \/ op = ">"  /\ lhs > rhs
    \/ op = ">=" /\ lhs >= rhs

Distance(a, b) == IF a < b THEN b - a ELSE a - b

\* lhs - rhs is NaN, and no comparison with it holds.
NoDistance(lhs, rhs) == NaN \in {lhs, rhs} \/ (lhs = Infinity /\ rhs = Infinity)

compare_f64(op, lhs, rhs) ==
    \/ op = "="  /\ ~NoDistance(lhs, rhs) /\ Distance(lhs, rhs) < EPSILON
    \/ op = "!=" /\ ~NoDistance(lhs, rhs) /\ Distance(lhs, rhs) >= EPSILON
    \/ op \notin {"=", "!="} /\ NaN \notin {lhs, rhs} /\ compare_ord(op, lhs, rhs)

\* `as f64`
AsFloat(value) == IF value.type = "Integer" THEN value.v * One ELSE value.v

compare_values(op, lhs, rhs) ==
    LET types == {lhs.type, rhs.type}
    IN \/ /\ types \in {{"Text"}, {"Integer"}, {"Boolean"}}
          /\ compare_ord(op, lhs.v, rhs.v)
       \/ /\ types \in {{"Float"}, {"Integer", "Float"}}
          /\ compare_f64(op, AsFloat(lhs), AsFloat(rhs))
       \/ op = "=" /\ types = {"Null"}

matches_properties(cond, props) ==
    /\ cond.key \in DOMAIN props
    /\ compare_values(cond.op, props[cond.key], cond.value)

NodeFilter == [label : STRING, property_conditions :
                 Seq([key : STRING, op : ComparisonOp, value : Value])]

node_matches(filter, node) ==
    /\ filter.label \in {NoLabel, node.label}
    /\ \A i \in DOMAIN filter.property_conditions :
            matches_properties(filter.property_conditions[i], node.properties)

\* weight_condition is a sequence of at most one [op, value].
edge_matches(filter, edge) ==
    /\ filter.label \in {NoLabel, edge.label}
    /\ \A i \in DOMAIN filter.weight_condition :
            compare_f64(filter.weight_condition[i].op, edge.weight,
                        filter.weight_condition[i].value)
    /\ \A i \in DOMAIN filter.property_conditions :
            matches_properties(filter.property_conditions[i], edge.properties)

\* filter() and retain(): the elements of s that are in a set, in their order,
\* and how far they have been collected.
Sifted(s, set) ==
    LET kept[i \in 0 .. Len(s)] ==
            IF i = 0 THEN <<>>
            ELSE IF s[i] \in set THEN Append(kept[i - 1], s[i]) ELSE kept[i - 1]
    IN  kept
Among(s, set) == Sifted(s, set)[Len(s)]
=============================================================================
