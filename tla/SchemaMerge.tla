---------------------------- MODULE SchemaMerge ----------------------------
(***************************************************************************)
(* The three-way merge of lib/schema-merge.ts. A schema is a sequence of   *)
(* fields with distinct names; a field has a value for every property the  *)
(* merge compares (the canonical snapshot of the code: `name` identifies   *)
(* the field and `hash` is left out).                                      *)
(*                                                                         *)
(* A dispute is identified by its address AND by the values at stake       *)
(* (conflictId), so an answer given to one dispute is no answer to another *)
(* one that happens to be at the same address.                             *)
(***************************************************************************)
EXTENDS Naturals, Sequences, FiniteSets

CONSTANTS Names, Props, Values, Absent

LOCAL SX == INSTANCE SequencesExt

Contents == [Props -> Values]
Sides == {"local", "remote"}

NameOrder(schema) == [i \in DOMAIN schema |-> schema[i].name]
NamesOf(schema) == SX!ToSet(NameOrder(schema))

\* The content of each field, by name.
FieldMap(schema) ==
    [n \in Names |-> IF n \in NamesOf(schema)
                     THEN schema[CHOOSE i \in DOMAIN schema : schema[i].name = n].content
                     ELSE Absent]

(***************************************************************************)
(* Fields                                                                  *)
(***************************************************************************)

AddAdd(n, l, r) == <<"field", n, "add-add", l, r>>
DeleteEdit(n, r) == <<"field", n, "delete-edit", r>>
EditDelete(n, l) == <<"field", n, "edit-delete", l>>
\* Mutant: the address of a dispute is its identity.
MutantDisputeByAddress(n, p, l, r) == <<"property", n, p>>
PropertyDispute(n, p, l, r) == <<"property", n, p, l[p], r[p]>>
OrderDispute(l, r) == <<"order", l, r>>

\* The properties both sides changed, and not to the same value.
Collisions(b, l, r) == {p \in Props : /\ l[p] # r[p]
                                      /\ l[p] # b[p]
                                      /\ r[p] # b[p]}

\* The collisions of one field; the content in the base, here and there.
FieldDisputes(n, b, l, r) ==
    IF l = r \/ l = b \/ r = b THEN {}
    ELSE CASE b = Absent -> {AddAdd(n, l, r)}
           [] l = Absent -> {DeleteEdit(n, r)}
           [] r = Absent -> {EditDelete(n, l)}
           [] OTHER -> {PropertyDispute(n, p, l, r) : p \in Collisions(b, l, r)}

Answer(d, answers) == IF d \in DOMAIN answers THEN answers[d] ELSE "none"

\* An unanswered collision shows the remote side.
MergedField(n, b, l, r, answers) ==
    IF b # Absent /\ l # Absent /\ r # Absent
    THEN [p \in Props |->
            IF /\ l[p] # b[p]
               /\ \/ r[p] = b[p]
                  \/ Answer(PropertyDispute(n, p, l, r), answers) = "local"
            THEN l[p] ELSE r[p]]
    ELSE IF /\ l # b
            /\ \/ r = b
               \/ \E d \in FieldDisputes(n, b, l, r) : Answer(d, answers) = "local"
         THEN l ELSE r

(***************************************************************************)
(* Order: the pairwise precedences of the three sides, then a topological  *)
(* order of the merged names.                                              *)
(***************************************************************************)

Index(order, n) == IF n \in SX!ToSet(order)
                   THEN CHOOSE i \in DOMAIN order : order[i] = n
                   ELSE Len(order) + 1
Has(order, x, y) == {x, y} \subseteq SX!ToSet(order)
Before(order, x, y) == Has(order, x, y) /\ Index(order, x) < Index(order, y)

\* How two sides agree on a pair: "before", "after", "free" or "conflict".
Relation(order, x, y) == CASE Before(order, x, y) -> "before"
                           [] Before(order, y, x) -> "after"
                           [] OTHER -> "free"
SelectRelation(b, l, r) ==
    IF l = r \/ r = "free" THEN l
    ELSE IF l = "free" \/ (l = b /\ b # "free") THEN r
    ELSE IF r = b /\ b # "free" THEN l
    ELSE "conflict"

Selected(b, l, r, x, y) ==
    SelectRelation(Relation(b, x, y), Relation(l, x, y), Relation(r, x, y))

\* Each name is emitted once every name before it was; among those that are
\* ready the one that comes first remotely, then locally, then in the base.
Rank(b, l, r, n) == <<Index(r, n), Index(l, n), Index(b, n)>>
Earlier(u, v) == \E i \in 1..3 : u[i] < v[i] /\ \A j \in 1..(i - 1) : u[j] = v[j]

Topological(b, l, r, names) ==
    LET ready(left) == {n \in left : \A m \in left : Selected(b, l, r, m, n) # "before"}
        first(set) == CHOOSE n \in set : \A m \in set \ {n} :
                          Earlier(Rank(b, l, r, n), Rank(b, l, r, m))
        emit[left \in SUBSET names] ==
            IF ready(left) = {} THEN << >>
            ELSE <<first(ready(left))>> \o emit[left \ {first(ready(left))}]
    IN  emit[names]

OrderCollides(b, l, r, names) ==
    \/ \E x, y \in names : x # y /\ Selected(b, l, r, x, y) = "conflict"
    \/ Len(Topological(b, l, r, names)) # Cardinality(names)

\* The names in the order of one side, then those only the other side has.
CompleteOrder(primary, secondary, names) ==
    LET known == SelectSeq(primary, LAMBDA n : n \in names)
    IN  known \o SelectSeq(secondary,
                           LAMBDA n : n \in names /\ n \notin SX!ToSet(known))

(***************************************************************************)
(* mergeSchemas: the merged fields and the disputes they rest on.          *)
(***************************************************************************)

MergedContent(base, local, remote, answers) ==
    [n \in Names |-> MergedField(n, FieldMap(base)[n], FieldMap(local)[n],
                                 FieldMap(remote)[n], answers)]
MergedNames(base, local, remote, answers) ==
    {n \in Names : MergedContent(base, local, remote, answers)[n] # Absent}

OrderDisputes(base, local, remote, answers) ==
    LET names == MergedNames(base, local, remote, answers)
        b == NameOrder(base)  l == NameOrder(local)  r == NameOrder(remote)
    IN  IF OrderCollides(b, l, r, names)
        THEN {OrderDispute(CompleteOrder(l, r, names), CompleteOrder(r, l, names))}
        ELSE {}

Disputes(base, local, remote, answers) ==
    OrderDisputes(base, local, remote, answers)
        \union UNION {FieldDisputes(n, FieldMap(base)[n], FieldMap(local)[n],
                                    FieldMap(remote)[n]) : n \in Names}

Unanswered(base, local, remote, answers) ==
    {d \in Disputes(base, local, remote, answers) : Answer(d, answers) = "none"}

\* resolutionsFromMerge: the answers to disputes the merge still has.
AnswersOf(base, local, remote, answers) ==
    [d \in Disputes(base, local, remote, answers) \intersect DOMAIN answers |-> answers[d]]

MergedFields(base, local, remote, answers) ==
    LET content == MergedContent(base, local, remote, answers)
        names == MergedNames(base, local, remote, answers)
        b == NameOrder(base)  l == NameOrder(local)  r == NameOrder(remote)
        d == OrderDisputes(base, local, remote, answers)
        order == CASE d = {} -> Topological(b, l, r, names)
                   [] \E x \in d : Answer(x, answers) = "local"
                        -> CompleteOrder(l, r, names)
                   [] OTHER -> CompleteOrder(r, l, names)
    IN  [i \in DOMAIN order |-> [name |-> order[i], content |-> content[order[i]]]]
=============================================================================
