---------------------------- MODULE MCComparison ----------------------------
\* Instances of Comparison for TLC: each scope is one situation of a document,
\* the calls that may meet in it, and how many of them.
EXTENDS Comparison, TLC

CONSTANTS c1, c2, r1, r2, f1, f2, a, b

Nothing == [m \in Members |-> Null]
NoRow == [m \in Members |-> "none"]
NoVerdict == [m \in Members |-> [f \in Fields |-> Null]]
Answer(x, y) == f1 :> x @@ f2 :> y
Rows(m, status) == [NoRow EXCEPT ![m] = status]

\* Nobody coded yet.
Blank == [mode |-> "compare_humans", minimum |-> 2, includesLlm |-> FALSE,
          coders |-> {c1, c2}, coordinators |-> {}, can |-> {r1},
          coding |-> Nothing, llm |-> Null, codings |-> NoRow, comparisons |-> NoRow,
          completed |-> [m \in Members |-> 0], verdicts |-> NoVerdict, kinds |-> {"plain"},
          inputs |-> {Answer(a, a), Answer(b, a), Answer(a, Empty)},
          operations |-> {}, calls |-> 3, sessions |-> 2, rounds |-> 1]

\* Two coders disagree on f1.
Divided == [Blank EXCEPT !.coding = [Nothing EXCEPT ![c1] = Answer(a, a), ![c2] = Answer(b, a)]]

\* First codings and permissions, three at a time: who is left without reviewer?
Backlog == [Blank EXCEPT !.coders = {c2, r1}, !.can = {r1, r2}, !.operations = {"code", "permit"}, !.calls = 4,
              !.coding = [Nothing EXCEPT ![c1] = Answer(a, a)],
              !.codings = Rows(c2, "pendente")]

\* One reviewer settles two coders and the LLM, alone.
Settling == [Divided EXCEPT !.llm = Answer(b, b), !.mode = "compare_llm", !.minimum = 1,
               !.comparisons = Rows(r1, "pendente"), !.kinds = {"plain", "ambiguous"},
               !.operations = {"verdict", "equivalent", "unmark"}, !.calls = 4, !.sessions = 1]

\* Both reviewers had concluded when c2 changed an answer.
Reopening == [Divided EXCEPT !.can = {r1, r2}, !.completed = [Blank.completed EXCEPT ![r1] = 1, ![r2] = 2],
                !.comparisons = [Rows(r1, "concluido") EXCEPT ![r2] = "concluido"],
                !.operations = {"verdict", "equivalent", "unmark"}, !.sessions = 1]

\* Draws of both kinds in two rounds, one call at a time.
Drawing == [Divided EXCEPT !.minimum = 1, !.coders = {c1, r1}, !.coding[c2] = Null,
              !.operations = {"draw", "round", "code", "draft", "verdict", "permit"},
              !.sessions = 1, !.rounds = 2]

\* A coordinator moves the reviewer about while coders and reviewer work.
Moving == [Divided EXCEPT !.coders = {r1, c1}, !.coding[c1] = Null,
             !.codings = [Rows(r1, "pendente") EXCEPT ![c1] = "pendente"],
             !.comparisons = Rows(r2, "pendente"),
             !.operations = {"cycle", "clear", "code", "draft", "reviewed", "permit", "draw"}]

\* Everything else that happens to the document meets a review and a new round.
Moves == [Divided EXCEPT !.comparisons = Rows(r1, "pendente"), !.includesLlm = TRUE,
            !.operations = {"publish", "schema", "replace", "scope", "verdict", "round"},
            !.rounds = 2]

MCScopes == {Backlog, Settling, Reopening, Drawing, Moving, Moves}

\* A verdict closes the document, then a permission changes.
Settled ==
  [Divided EXCEPT !.comparisons = Rows(r1, "pendente"), !.can = {r1, r2},
     !.operations = {"verdict", "permit"}, !.calls = 4, !.sessions = 1]

\* A row is read for the cycle while its holder works.
Cycled ==
  [Blank EXCEPT !.codings = Rows(c1, "pendente"), !.operations = {"cycle", "code"}, !.calls = 2]

\* Two verdicts on a field, one of them ambiguous.
Commented ==
  [Divided EXCEPT !.comparisons = Rows(r1, "pendente"), !.coordinators = {r2},
     !.kinds = {"plain", "ambiguous"}, !.operations = {"verdict"}]

\* A coordinator who reviews nothing declares two answers equivalent.
Aside ==
  [Divided EXCEPT !.comparisons = Rows(r1, "pendente"), !.coordinators = {r2},
     !.operations = {"equivalent"}, !.sessions = 1]

GapScopes == {Settled, Cycled, Commented, Aside}
=============================================================================
