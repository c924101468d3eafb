---------------------------- MODULE MCAutoReview ----------------------------
(***************************************************************************)
(* Instances of AutoReview for TLC: the values a .cfg cannot write.        *)
(***************************************************************************)
EXTENDS AutoReview

CONSTANTS f1, f2

OneSchema == {Fields}
TwoSchemas == {Fields, {f1}}
AutoMode == {TRUE}
AnyMode == BOOLEAN

\* The queries of a worker answer in every order.
AnyOrder == [q \in Queries |-> {}]

\* They answer as issued, the coders and the LLM in either order.
AsIssued ==
  [q \in Queries |-> CASE q \in {"humans", "llm"} -> {"project"}
                       [] q = "pairs" -> {"humans", "llm"}
                       [] q = "history" -> {"reviews"}
                       [] OTHER -> {}]

\* As issued, and the two tables of past and present cycles in either order.
EitherTable == [AsIssued EXCEPT !["history"] = {}]
===========================================================================
