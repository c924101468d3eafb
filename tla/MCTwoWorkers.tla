---------------------------- MODULE MCTwoWorkers ----------------------------
(***************************************************************************)
(* Two workers over one coder, and one worker over two coders, whose modes *)
(* change: the situations of one instance of AutoReview.                   *)
(***************************************************************************)
EXTENDS MCAutoReview

CONSTANTS w1, w2

\* One coder in automatic mode; cycles are read before their archive.
OneCoder ==
  /\ human[2] = Null /\ mode
  /\ \A w \in Workers : "history" \in view[w].seen => "reviews" \in view[w].seen

\* One worker; a second coder saves once, over one publication.
OneWorker ==
  /\ pc[w1] = "idle" /\ view[w1] = NothingRead
  /\ human[2] = Null \/ (publishes <= 1 /\ Version(2) <= 1)

Situations == OneCoder \/ OneWorker
=============================================================================
