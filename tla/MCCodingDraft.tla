---------------------------- MODULE MCCodingDraft ----------------------------
(***************************************************************************)
(* Instances of CodingDraft for TLC.  One user, a tab loaded again after a *)
(* crash or a departure, two tabs, Explore, and a storage at its limits.   *)
(***************************************************************************)
EXTENDS CodingDraft

CONSTANTS d1, d2

Scope(assigned, places, values, most) ==
  [assigned |-> assigned, places |-> places, values |-> values, edits |-> most,
   together |-> FALSE, lossy |-> FALSE, full |-> FALSE, ages |-> FALSE, ceiling |-> 2,
   newer |-> {}]

Queue == Scope({d1, d2}, {d1, d2}, {1, 2}, 4)
Both == [Scope({d1}, {d1, None}, {0, 1}, 3) EXCEPT !.together = TRUE]
Crowded == [Both EXCEPT !.full = TRUE]
Explore == Scope({}, {d1, d2, None}, {0, 1, 2}, 3)
Limits == [Scope({d1, d2}, {d1, d2}, {1, 2}, 3)
             EXCEPT !.full = TRUE, !.ages = TRUE, !.ceiling = 1, !.newer = {d2}]

Lossy == [Queue EXCEPT !.places = {d1}, !.values = {0, 1}, !.edits = 3, !.lossy = TRUE]
LossyExplore == [Explore EXCEPT !.places = {d1, None}, !.lossy = TRUE]

MCScopes == {Queue, Both, Crowded, Explore, Limits, Lossy, LossyExplore}
=============================================================================
