---------------------------- MODULE MCSchemaDraft ----------------------------
(***************************************************************************)
(* Instances of SchemaDraft for TLC: one editor over two fields, two       *)
(* editors over one field, and both kinds with a failing localStorage.     *)
(***************************************************************************)
EXTENDS SchemaDraft, TLC

CONSTANTS f, g, a

Field(n) == [name |-> n, content |-> [p \in Props |-> a]]

MCScopes ==
    {[initial |-> <<Field(f), Field(g)>>, open |-> 1, changes |-> 3, failing |-> FALSE],
     [initial |-> <<Field(f)>>, open |-> 2, changes |-> 3, failing |-> FALSE],
     [initial |-> <<Field(f)>>, open |-> 1, changes |-> 3, failing |-> TRUE]}

MCSymmetry == Permutations(Sessions) \union Permutations(TypedElsewhere)
=============================================================================
