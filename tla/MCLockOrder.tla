------------------------------ MODULE MCLockOrder ------------------------------
(* Values of the constants of LockOrder that a .cfg cannot write. *)
EXTENDS LockOrder, TLC

CONSTANTS d1, d2, c1, c2, m1, t1, t2, t3

AllKinds ==
  {"save update", "save insert", "publish", "reconcile", "enqueue project",
   "submit auto", "submit final", "assign arbitration", "withdraw permission",
   "remove member", "record equivalences", "remove equivalence", "lottery",
   "start round", "assign comparison", "backfill", "exclude document",
   "decide exclusion"}

\* Three at a time, without those with most branches.
Chained == AllKinds \ {"save update", "reconcile", "submit auto", "start round"}

SaveAndRound == {"save update", "start round"}

\* The sessions are only told apart by their transactions.
AnySession == Permutations(Sessions)

=============================================================================
