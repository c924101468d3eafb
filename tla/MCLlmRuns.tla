------------------------------- MODULE MCLlmRuns -------------------------------
(***************************************************************************)
(* Small instances of LlmRuns.                                             *)
(***************************************************************************)
EXTENDS LlmRuns, TLC

CONSTANTS c1, c2, h1, h2, d1, d2, j1, j2

MCHashOf == (c1 :> h1) @@ (c2 :> h2)

\* One run of two documents, with two failures anywhere.
Failing ==
  [jobs |-> {j1}, documents |-> {d1, d2}, modes |-> {"all"},
   rounds |-> 1, revisions |-> 0, faults |-> 2]

\* One run while the round ends, with one failure.
Ending ==
  [jobs |-> {j1}, documents |-> {d1, d2}, modes |-> {"all"},
   rounds |-> 2, revisions |-> 0, faults |-> 1]

\* One run while the schema changes.
Editing ==
  [jobs |-> {j1}, documents |-> {d1}, modes |-> {"random_sample"},
   rounds |-> 1, revisions |-> 2, faults |-> 0]

\* Two runs of the same document while the round ends, with one failure.
Repeating ==
  [jobs |-> {j1, j2}, documents |-> {d1}, modes |-> {"pending"},
   rounds |-> 2, revisions |-> 0, faults |-> 1]

RunScopes == {Failing, Ending, Editing, Repeating}
HashScopes == {Editing}
RepeatScopes == {Repeating}
===============================================================================
