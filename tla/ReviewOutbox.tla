---------------------------- MODULE ReviewOutbox ----------------------------
(***************************************************************************)
(* What the reconciliation outbox of a document promises, whatever the     *)
(* rows, locks and workers behind it: work that comes to be owed is        *)
(* announced in the same step, and the announcement is withdrawn only when *)
(* nothing is owed any more.                                               *)
(***************************************************************************)
CONSTANT Fields     \* what work can be owed on

VARIABLES
  pending,          \* the work is announced
  owed              \* the fields it is owed on

vars == <<pending, owed>>

Init == pending = FALSE /\ owed = {}

\* A change of the sources may make any work owed, and announces it.
Change == pending' = TRUE /\ owed' \in SUBSET Fields

\* Work is done, or is no longer due.
Repay == pending' = pending /\ owed' \in SUBSET owed

\* The announcement is withdrawn.
Settle == pending /\ pending' = FALSE /\ owed' = {}

Next == Change \/ Repay \/ Settle

\* The announcement is always withdrawn eventually.
Spec == Init /\ [][Next]_vars /\ WF_vars(Settle)

\* Nothing is owed behind the back of the outbox.
NothingOwedUnannounced == ~pending => owed = {}
=============================================================================
