---------------------------- MODULE MCSaveResponse ----------------------------
(* Values of the constants of SaveResponse that a .cfg cannot write. *)
EXTENDS SaveResponse

CONSTANTS f1, f2, s1, s2

Wide == {"a", "b"}
Narrow == {"b"}
Definitions2 == {Wide, Narrow}
Removals == {Null, Narrow}
Changes == {Wide, Narrow}

\* The second field is shown by the answer "a" to the first.
Conditional == [f \in {f1, f2} |-> IF f = f2 THEN f1 ELSE Null]
Independent == [f \in {f1, f2} |-> Null]

Both == [f \in {f1, f2} |-> Wide]
OnlyFirst == [f \in {f1, f2} |-> IF f = f1 THEN Wide ELSE Null]

Legacy == [answers |-> [f \in {f1} |-> "a"], stamps |-> <<>>,
           partial |-> FALSE, version |-> 0]
Coded == [answers |-> [f \in {f1, f2} |-> "a"],
          stamps |-> [f \in {f1, f2} |-> 1], partial |-> FALSE, version |-> 1]

NoResponse == {Null}
CodedBefore == {Coded}
AnyResponse == {Null, Legacy, Coded}

=============================================================================
