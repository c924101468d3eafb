---------------------------- MODULE MCArbitration ----------------------------
(* Values of the constants of Arbitration that a .cfg cannot write. *)
EXTENDS Arbitration

CONSTANTS h1, h2, u1, f1, f2, s1, s2

\* One field of each coder.
OwnerOfEach == [f \in {f1, f2} |-> IF f = f1 THEN h1 ELSE h2]

Scope(members, choices, operations) ==
  [members |-> members, choices |-> choices, operations |-> operations]

\* Contests, verdicts and permissions, with a member who coded nothing.
Queue == Scope({h1, h2, u1}, {"humano", "llm"}, {"contest", "final", "permit"})

\* Cycles deleted and renewed meanwhile.
Renewals == Scope({h1, h2}, {"llm"}, {"contest", "final", "permit", "revise", "reconcile"})

Sweeps == Scope({h1, h2, u1}, {"humano", "llm"}, {"contest", "revise"})
Permissions == Scope({h1, h2, u1}, {"humano", "llm"}, {"contest", "permit"})

ArbitrationScopes == {Queue, Renewals}
GapScopes == {Sweeps, Permissions}

=============================================================================
