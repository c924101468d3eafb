------------------------------ MODULE Comparison ------------------------------
(***************************************************************************)
(* Comparison of the responses to one document: the saves that create      *)
(* divergences, the automation that draws a reviewer, the verdicts and     *)
(* equivalences that settle the fields, the status of the reviewer's       *)
(* assignment, and the operations of a coordinator on all of it.           *)
(*                                                                         *)
(* A server action is a call: a sequence of database transactions with     *)
(* other calls in between.  A transaction is one step.  What a call read   *)
(* earlier travels in its record; what it writes is checked by the         *)
(* triggers and indexes of the database at the moment of the write.        *)
(***************************************************************************)
EXTENDS Integers, FiniteSets, Sequences, SequencesExt

CONSTANTS
  Members,   \* rows of project_members
  Fields,    \* fields the comparison looks at
  Answers,   \* answers to a field, already normalised
  Empty,     \* an unanswered field
  Llm,       \* the respondent of the LLM response
  Null,      \* SQL NULL, or no row
  Sessions,  \* concurrent server actions
  Scopes     \* the instances a behaviour may be of

\* The statuses of an assignment, and the answers of a response.
Types == {"codificacao", "comparacao"}
Open == {"pendente", "em_andamento"}
Statuses == Open \cup {"none", "concluido"}
Codings == [Fields -> Answers \cup {Empty}]

\* Operations with which a member becomes a reviewer only by the automation.
Automatic == {"code", "draft", "edit", "permit", "verdict", "clear", "publish"}

\* A scope bounds an instance: mode, minimum and includesLlm are the settings
\* of the project; coders may save, coordinators manage, can compares at first;
\* coding, llm, codings, comparisons, completed and verdicts are the rows it
\* starts from; operations are the calls it makes, at most calls of them, on at
\* most sessions at a time; inputs are the responses saved, kinds the verdicts
\* and rounds the last round.  The triggers let no coder hold an open comparison;
\* one not started is held by who may compare, unless a coordinator assigns it.
ASSUME ComparisonAssumption ==
  /\ IsFiniteSet(Members) /\ Empty \notin Answers /\ Llm \notin Members /\ Null \notin Members
  /\ \A x \in Scopes :
       /\ x.mode \in {"none", "compare_humans", "compare_llm"}
       /\ x.coders \cup x.coordinators \cup x.can \subseteq Members
       /\ x.minimum \in Nat /\ x.includesLlm \in BOOLEAN
       /\ x.inputs \subseteq Codings
       /\ x.coding \in [Members -> Codings \cup {Null}] /\ x.llm \in Codings \cup {Null}
       /\ {x.codings, x.comparisons} \subseteq [Members -> Statuses]
       /\ x.completed \in [Members -> Nat]
       /\ "plain" \in x.kinds /\ Null \notin x.kinds
       /\ x.verdicts \in [Members -> [Fields -> x.kinds \cup {Null}]]
       /\ x.calls \in Nat /\ x.rounds \in Nat \ {0} /\ x.sessions \in Nat
       /\ \A m \in Members : /\ x.comparisons[m] \in Open => x.coding[m] = Null
                             /\ x.comparisons[m] = "concluido" <=> x.completed[m] # 0
       /\ x.operations \subseteq Automatic =>
            \A m \in Members : x.comparisons[m] = "pendente" => m \in x.can

VARIABLES
  scope,     \* the instance: bounds and settings
  round,     \* projects.current_round_id
  inScope,   \* neither excluded nor pending exclusion
  can,       \* members with can_compare
  coding,    \* the latest human response of each member, or Null
  llm,       \* the latest LLM response, or Null
  behind,    \* respondents whose response is below the version floor
  work,      \* assignments: status of (type, member, round), "none" if no row
  completed, \* completed_at of each comparison, or 0
  verdicts,  \* reviews: verdict of each member on each field, or Null
  noted,     \* fields with an ambiguity comment
  pairs,     \* response_equivalences
  calls,     \* what each session is doing
  begun      \* calls made so far

vars == <<scope, round, inScope, can, coding, llm, behind, work, completed,
          verdicts, noted, pairs, calls, begun>>
rows == <<work, completed>>
responses == <<coding, llm, behind>>
reviews == <<verdicts, noted, pairs>>
settings == <<round, inScope, can>>

-----------------------------------------------------------------------------
\* Responses and divergence.

Respondents == Members \cup {Llm}
Response(r) == IF r = Llm THEN llm ELSE coding[r]
Complete(a) == a # Null /\ \A f \in Fields : a[f] # Empty
Coders == {m \in Members : coding[m] # Null}

\* responseQualifiesForVersion: the floor is the current major.
Qualified == {r \in Respondents : Response(r) # Null /\ r \notin behind}

\* Same normalised answer, or an equivalence between the two responses.
Agree(f, a, b) ==
  \/ Response(a)[f] = Response(b)[f]
  \/ \E p \in pairs : p.field = f /\ p.ends = {a, b}

\* computeDivergentFieldNames: the answers of the group do not form one class
\* of the closure of Agree.
DivergentFields(group) ==
  {f \in Fields : \E part \in (SUBSET group) \ {{}, group} :
                    \A a \in part, b \in group \ part : ~Agree(f, a, b)}

\* analyzeComparison: complete qualifying humans, with the LLM when it counts.
Compared ==
  {m \in Qualified \ {Llm} : Complete(coding[m])} \cup
  IF scope.mode = "compare_llm" \/ scope.includesLlm
  THEN Qualified \cap {Llm} ELSE {}

EnoughHumans ==
  Cardinality(Compared \ {Llm}) >=
    IF scope.mode = "compare_humans" THEN scope.minimum ELSE 1

NeedsReviewer ==
  /\ EnoughHumans
  /\ scope.mode = "compare_llm" => Llm \in Compared
  /\ Cardinality(Compared) >= 2
  /\ DivergentFields(Compared) # {}

-----------------------------------------------------------------------------
\* Assignments.

Rounds == 1..scope.rounds

RowsOf(t, m) == {r \in Rounds : work[<<t, m, r>>] # "none"}
Reviewers == {m \in Members : RowsOf("comparacao", m) # {}}
ActiveComparisons ==
  {x \in Members \X Rounds : work[<<"comparacao", x[1], x[2]>>] \in Open}

\* enforce_comparison_assignment_actor, and one active comparison per round.
Refused(t, m, r, next) ==
  /\ t = "comparacao" /\ next \in Open
  /\ \/ coding[m] # Null
     \/ \E x \in ActiveComparisons \ {<<m, r>>} : x[2] = r

Now == Max(Range(completed)) + 1

\* A status is written with its completed_at.
Set(t, m, r, next) ==
  /\ work' = [work EXCEPT ![<<t, m, r>>] = next]
  /\ completed' = IF t # "comparacao" THEN completed
                  ELSE [completed EXCEPT ![<<m, r>>] = IF next = "concluido" THEN Now ELSE 0]

\* The deletion of rows.
Drop(gone) ==
  /\ work' = [x \in DOMAIN work |-> IF x \in gone THEN "none" ELSE work[x]]
  /\ completed' = [x \in DOMAIN completed |->
                    IF <<"comparacao", x[1], x[2]>> \in gone THEN 0 ELSE completed[x]]

-----------------------------------------------------------------------------
\* Calls.

Idle == [op |-> "idle", at |-> "", who |-> Null, round |-> 0, field |-> Null,
         seen |-> "", flag |-> FALSE, count |-> 0, pool |-> {}, todo |-> <<>>]

Begin(s, op) ==
  /\ op \in scope.operations /\ calls[s] = Idle /\ begun < scope.calls
  /\ Cardinality({t \in Sessions : calls[t] # Idle}) < scope.sessions
  /\ begun' = begun + 1 /\ UNCHANGED scope

Go(s, call) == calls' = [calls EXCEPT ![s] = call]
At(s, stage) == calls[s].at = stage /\ UNCHANGED <<scope, begun>>

\* The first stage of createAutoComparisonIfDiverges and of the backlog scan,
\* for a project in a comparison mode.
Automation == IF scope.mode = "none" THEN Idle
              ELSE [Idle EXCEPT !.op = "automation", !.at = "analyse"]

\* syncCompareAssignment for each user in turn.
SyncOf(users) == IF users = <<>> THEN Idle
                 ELSE [Idle EXCEPT !.op = "sync", !.at = "row", !.todo = users]

-----------------------------------------------------------------------------
\* saveResponse and the automation it starts.

\* A first complete coding, a change of one, or an incomplete one.
SaveKind(m, a) == IF ~Complete(a) THEN "draft"
                  ELSE IF Complete(coding[m]) THEN "edit" ELSE "code"

\* Mutant: no trigger on responses.
NeverRefused(m) == FALSE

\* enforce_comparison_response_actor.
SaveRefused(m) == \E x \in ActiveComparisons : x[1] = m

\* The response, with the equivalences its changed answers supersede.
Save(s, m, a) ==
  /\ Begin(s, SaveKind(m, a))
  /\ m \in scope.coders /\ a # coding[m] /\ ~SaveRefused(m)
  /\ coding' = [coding EXCEPT ![m] = a]
  /\ behind' = behind \ {m}
  /\ pairs' = {p \in pairs : m \in p.ends => coding[m][p.field] = a[p.field]}
  /\ Go(s, [Idle EXCEPT !.op = "save", !.at = "status", !.who = m, !.round = round,
                        !.seen = SaveKind(m, a)])
  /\ UNCHANGED <<settings, llm, rows, verdicts, noted>>

\* syncCodingAssignmentStatus: only a first complete coding starts the automation.
SetCodingStatus(s) ==
  LET call == calls[s]
      row == work[<<"codificacao", call.who, call.round>>]
      next == IF row = "none" THEN row
              ELSE IF call.seen # "draft" THEN "concluido"
              ELSE IF row = "concluido" THEN row ELSE "em_andamento"
  IN  /\ At(s, "status")
      /\ Set("codificacao", call.who, call.round, next)
      /\ Go(s, IF call.seen = "code" THEN Automation ELSE Idle)
      /\ UNCHANGED <<settings, responses, reviews>>

\* Mutant: the automation counts the members who coded as eligible reviewers.
ForgetCoders == {}

\* The coders known to the analysis.
KnownCoders == Coders

Analyse(s) ==
  /\ At(s, "analyse")
  /\ Go(s, IF inScope /\ ActiveComparisons = {} /\ NeedsReviewer
           THEN [calls[s] EXCEPT !.at = "choose", !.pool = KnownCoders] ELSE Idle)
  /\ UNCHANGED <<settings, responses, rows, reviews>>

\* loadEligibleReviewerIds; the order by open load is left open.
Eligible(coders) == can \ (coders \cup Reviewers)

ChooseReviewer(s) ==
  /\ At(s, "choose")
  /\ \/ Eligible(calls[s].pool) = {} /\ Go(s, Idle)
     \/ \E u \in Eligible(calls[s].pool) :
          Go(s, [calls[s] EXCEPT !.at = "assign", !.who = u])
  /\ UNCHANGED <<settings, responses, rows, reviews>>

\* What assign_comparison_if_eligible tests again under its locks.
StillEligible(u) == u \in can /\ coding[u] = Null /\ ActiveComparisons = {}

AssignReviewer(s) ==
  LET u == calls[s].who IN
  /\ At(s, "assign")
  /\ IF StillEligible(u) /\ work[<<"comparacao", u, round>>] = "none"
     THEN Set("comparacao", u, round, "pendente") ELSE UNCHANGED rows
  /\ Go(s, Idle)
  /\ UNCHANGED <<settings, responses, reviews>>

-----------------------------------------------------------------------------
\* Verdicts, equivalences and the status of the reviewer's assignment.

\* submitVerdict: the review first, then the ambiguity comment, then the sync.
SubmitVerdict(s, m, f, kind) ==
  /\ Begin(s, "verdict")
  /\ m \in Reviewers \cup scope.coordinators
  /\ f \in DivergentFields(Qualified) \/ verdicts[m][f] # Null
  /\ verdicts' = [verdicts EXCEPT ![m][f] = kind]
  /\ Go(s, [Idle EXCEPT !.op = "verdict", !.at = "comment", !.who = m,
                        !.field = f, !.seen = kind])
  /\ UNCHANGED <<settings, responses, rows, noted, pairs>>

\* What the comment needs, as read: an insertion, a deletion, or nothing.
ReadComment(s) ==
  LET call == calls[s]
      stale == IF call.seen = "ambiguous" THEN call.field \notin noted
               ELSE \A m \in Members : verdicts[m][call.field] # "ambiguous"
  IN  /\ At(s, "comment")
      /\ Go(s, IF stale THEN [call EXCEPT !.at = "note"] ELSE SyncOf(<<call.who>>))
      /\ UNCHANGED <<settings, responses, rows, reviews>>

WriteComment(s) ==
  LET call == calls[s] IN
  /\ At(s, "note")
  /\ noted' = IF call.seen = "ambiguous" THEN noted \cup {call.field}
              ELSE noted \ {call.field}
  /\ Go(s, SyncOf(<<call.who>>))
  /\ UNCHANGED <<settings, responses, rows, verdicts, pairs>>

\* confirmEquivalentVerdict: the pairs of the selected responses that are new.
ConfirmEquivalent(s, m, f, group) ==
  /\ Begin(s, "equivalent")
  /\ m \in Reviewers \cup scope.coordinators
  /\ group \subseteq Qualified /\ Cardinality(group) >= 2
  /\ f \in DivergentFields(Qualified)
  /\ pairs' = pairs \cup
       {[field |-> f, ends |-> e, owner |-> m] :
          e \in {{a, b} : a, b \in group} \
               ({{a} : a \in group} \cup {p.ends : p \in {q \in pairs : q.field = f}})}
  /\ Go(s, [Idle EXCEPT !.op = "equivalent", !.at = "gabarito", !.who = m, !.field = f])
  /\ UNCHANGED <<settings, responses, rows, verdicts, noted>>

ConfirmVerdict(s) ==
  LET call == calls[s] IN
  /\ At(s, "gabarito")
  /\ verdicts' = [verdicts EXCEPT ![call.who][call.field] = "plain"]
  /\ Go(s, SyncOf(<<call.who>>))
  /\ UNCHANGED <<settings, responses, rows, noted, pairs>>

\* remove_response_equivalence: the pair, with the verdicts of the caller and
\* of its owner; then every reviewer is synchronised.
UnmarkPair(s, m, p) ==
  /\ Begin(s, "unmark")
  /\ p \in pairs /\ m \in {p.owner} \cup scope.coordinators
  /\ pairs' = pairs \ {p}
  /\ verdicts' = [u \in Members |-> IF u \in {m, p.owner}
                    THEN [verdicts[u] EXCEPT ![p.field] = Null] ELSE verdicts[u]]
  /\ Go(s, [Idle EXCEPT !.op = "unmark", !.at = "list"])
  /\ UNCHANGED <<settings, responses, rows, noted>>

ToUsers(list) == [i \in DOMAIN list |-> list[i][1]]

\* sortByReopenPriority: active rows first, then the most recently concluded.
ReopensBefore(x, y) ==
  \/ x \in ActiveComparisons
  \/ y \notin ActiveComparisons /\ completed[x] >= completed[y]

\* Every reviewer once, in the order of the first of his rows.
ListReviewers(s) ==
  /\ At(s, "list")
  /\ \E users \in SetToSeqs(Reviewers) :
       /\ \A i, j \in DOMAIN users : i < j =>
            \E q \in RowsOf("comparacao", users[i]) : \A r \in RowsOf("comparacao", users[j]) :
              ReopensBefore(<<users[i], q>>, <<users[j], r>>)
       /\ Go(s, SyncOf(users))
  /\ UNCHANGED <<settings, responses, rows, reviews>>

NextUser(s) == SyncOf(Tail(calls[s].todo))

\* The row of the user: maybeSingle reads no row when there are several.
ReadRow(s) ==
  LET u == Head(calls[s].todo)
      mine == RowsOf("comparacao", u)
  IN  /\ At(s, "row")
      /\ \/ Cardinality(mine) # 1 /\ Go(s, NextUser(s))
         \/ \E r \in mine : mine = {r} /\
              Go(s, [calls[s] EXCEPT !.at = "data", !.who = u, !.round = r,
                                     !.seen = work[<<"comparacao", u, r>>]])
      /\ UNCHANGED <<settings, responses, rows, reviews>>

\* Mutant: an open field is taken for settled once there is some verdict.
ResolveEarly(divergent, reviewed) ==
  IF divergent = {} \/ reviewed # {} THEN "concluido" ELSE "pendente"

\* resolveCompareStatus.
ResolveStatus(divergent, reviewed) ==
  IF divergent \subseteq reviewed THEN "concluido"
  ELSE IF reviewed = {} THEN "pendente" ELSE "em_andamento"

Reviewed(u) == {f \in Fields : verdicts[u][f] # Null}

ReadData(s) ==
  LET call == calls[s]
      next == ResolveStatus(DivergentFields(Qualified), Reviewed(call.who))
  IN  /\ At(s, "data")
      /\ Go(s, IF Cardinality(Qualified) < 2 \/ next = call.seen THEN NextUser(s)
               ELSE [call EXCEPT !.at = "write", !.seen = next])
      /\ UNCHANGED <<settings, responses, rows, reviews>>

\* A refused write leaves the status, whichever rule refuses it.
WriteStatus(s) ==
  LET call == calls[s] IN
  /\ At(s, "write")
  /\ IF \/ work[<<"comparacao", call.who, call.round>>] = "none"
        \/ Refused("comparacao", call.who, call.round, call.seen)
     THEN UNCHANGED rows ELSE Set("comparacao", call.who, call.round, call.seen)
  /\ Go(s, NextUser(s))
  /\ UNCHANGED <<settings, responses, reviews>>

\* markCompareDocReviewed: every round of the reviewer, for a document without
\* divergences.
MarkReviewed(s, m) ==
  LET mine == {<<m, r>> : r \in RowsOf("comparacao", m)} IN
  /\ Begin(s, "reviewed")
  /\ mine # {} /\ DivergentFields(Qualified) = {}
  /\ work' = [x \in DOMAIN work |->
       IF x[1] = "comparacao" /\ <<x[2], x[3]>> \in mine THEN "concluido" ELSE work[x]]
  /\ completed' = [x \in DOMAIN completed |-> IF x \in mine THEN Now ELSE completed[x]]
  /\ UNCHANGED <<settings, responses, reviews, calls>>

-----------------------------------------------------------------------------
\* Operations of a coordinator.

\* Mutant: a member who loses the permission keeps his pending comparison.
NothingReleased(u, enabled) == {}

\* set_member_comparison_permission deletes what was not started.
Released(u, enabled) ==
  IF enabled THEN {}
  ELSE {<<"comparacao", u, r>> : r \in {n \in Rounds : work[<<"comparacao", u, n>>] = "pendente"}}

\* setCanCompare, then retryPendingComparisons.
Permit(s, u, enabled) ==
  /\ Begin(s, "permit")
  /\ enabled # (u \in can)
  /\ can' = IF enabled THEN can \cup {u} ELSE can \ {u}
  /\ Drop(Released(u, enabled))
  /\ Go(s, Automation)
  /\ UNCHANGED <<round, inScope, responses, reviews>>

\* Status with which a coding assignment is born.
InitialStatus(m) == IF coding[m] = Null THEN "pendente"
                    ELSE IF Complete(coding[m]) THEN "concluido" ELSE "em_andamento"

\* cycleAssignment: empty, coding, comparison, empty.  It goes on if no row
\* of the pair was started when they were read.
ReadCycle(s, m) ==
  LET held == {t \in Types : work[<<t, m, round>>] # "none"} IN
  /\ Begin(s, "cycle")
  /\ \A t \in held : work[<<t, m, round>>] = "pendente"
  /\ Go(s, [Idle EXCEPT !.op = "cycle", !.who = m, !.round = round, !.pool = held,
              !.at = IF held = {} THEN "derive"
                     ELSE IF held = {"codificacao"} THEN "promote" ELSE "remove"])
  /\ UNCHANGED <<settings, responses, rows, reviews>>

DeriveStatus(s) ==
  /\ At(s, "derive")
  /\ Go(s, [calls[s] EXCEPT !.at = "insert", !.seen = InitialStatus(calls[s].who)])
  /\ UNCHANGED <<settings, responses, rows, reviews>>

InsertCoding(s) ==
  LET m == calls[s].who IN
  /\ At(s, "insert")
  /\ IF work[<<"codificacao", m, round>>] = "none"
     THEN Set("codificacao", m, round, calls[s].seen) ELSE UNCHANGED rows
  /\ Go(s, Idle)
  /\ UNCHANGED <<settings, responses, reviews>>

\* The row keeps its status and its completed_at, the time of the coding; no condition
\* on it is tested again.
Promote(s) ==
  LET m == calls[s].who
      r == calls[s].round
      status == work[<<"codificacao", m, r>>]
  IN  /\ At(s, "promote")
      /\ IF \/ status = "none" \/ work[<<"comparacao", m, r>>] # "none"
            \/ Refused("comparacao", m, r, status)
         THEN UNCHANGED rows
         ELSE /\ work' = [work EXCEPT ![<<"codificacao", m, r>>] = "none",
                                      ![<<"comparacao", m, r>>] = status]
              /\ \E time \in 1..Now :
                   completed' = [completed EXCEPT ![<<m, r>>] =
                                   IF status = "concluido" THEN time ELSE 0]
      /\ Go(s, Idle)
      /\ UNCHANGED <<settings, responses, reviews>>

RemoveRows(s) ==
  /\ At(s, "remove")
  /\ Drop({<<t, calls[s].who, calls[s].round>> : t \in calls[s].pool})
  /\ Go(s, Idle)
  /\ UNCHANGED <<settings, responses, reviews>>

PendingNow(t) == {x \in DOMAIN work : x[1] = t /\ x[3] = round /\ work[x] = "pendente"}

ClearPending(s, t) ==
  /\ Begin(s, "clear")
  /\ Drop(PendingNow(t))
  /\ UNCHANGED <<settings, responses, reviews, calls>>

-----------------------------------------------------------------------------
\* The draw, as far as one document sees it: computeLottery reads and draws,
\* apply_lottery_assignments writes all of it or nothing.

\* Members whose assignment of the type stays: all of the round, or those
\* started when the pending ones are replaced.
Preserved(t, replace) ==
  {m \in Members : work[<<t, m, round>>] \notin {"none"} \cup IF replace THEN {"pendente"} ELSE {}}

Vetoed(t) == IF t = "comparacao" THEN Coders ELSE {}

\* For a comparison a concluded row holds no vacancy.
Occupying(t, replace) ==
  {m \in Preserved(t, replace) : t = "comparacao" => work[<<t, m, round>>] # "concluido"}

\* filterComparisonEligible.
EnoughToDraw ==
  IF scope.mode = "compare_llm" THEN Coders # {} /\ llm # Null
  ELSE Cardinality(Coders) >= IF scope.minimum > 1 THEN scope.minimum ELSE 1

OpenWork == Cardinality({x \in DOMAIN work : x[3] = round /\ work[x] \in Open})

\* The participants are any members, so the drawn are any that fit: fresh is
\* the draw that starts a round, of codings only.
Draw(s, t, drawn, replace, fresh) ==
  LET kept == IF fresh THEN {} ELSE Preserved(t, replace) \cup Vetoed(t)
      vacancies == IF t = "comparacao" THEN 1 - Cardinality(Occupying(t, replace))
                   ELSE IF fresh THEN 2 ELSE 2 - Cardinality(Occupying(t, replace))
  IN  /\ Begin(s, IF fresh THEN "round" ELSE "draw")
      /\ inScope
      /\ t = "comparacao" => EnoughToDraw
      /\ fresh => t = "codificacao" /\ round < scope.rounds
      /\ drawn \cap kept = {} /\ Cardinality(drawn) \in 1..vacancies
      /\ Go(s, [Idle EXCEPT
           !.op = IF fresh THEN "round" ELSE "draw", !.at = "apply", !.round = round,
           !.field = t, !.flag = replace, !.count = OpenWork,
           !.todo = SetToSeq({<<m, IF t = "comparacao" \/ fresh THEN "pendente"
                                   ELSE InitialStatus(m)>> : m \in drawn})])
      /\ UNCHANGED <<settings, responses, rows, reviews>>

\* The table once the pending rows of the type are replaced, if they are.
Cleared(call) ==
  [x \in DOMAIN work |->
    IF call.op = "draw" /\ call.flag /\ x \in PendingNow(call.field) THEN "none" ELSE work[x]]

\* Every row of the plan is inserted, or nothing is.
Applies(call) ==
  /\ call.round = round /\ inScope
  /\ call.op = "round" => call.count = OpenWork
  /\ call.op = "draw" =>
       \A u \in ToSet(ToUsers(call.todo)) :
         /\ Cleared(call)[<<call.field, u, round>>] = "none"
         /\ call.field = "comparacao" =>
              /\ coding[u] = Null
              /\ \A m \in Members : Cleared(call)[<<"comparacao", m, round>>] \notin Open

Apply(s) ==
  LET call == calls[s]
      target == IF call.op = "round" THEN round + 1 ELSE round
      born(m) == CHOOSE i \in DOMAIN call.todo : call.todo[i][1] = m
  IN  /\ At(s, "apply")
      /\ IF ~Applies(call) THEN UNCHANGED <<round, responses, rows, pairs>>
         ELSE /\ round' = target
              /\ work' = [x \in DOMAIN work |->
                   IF /\ x[1] = call.field /\ x[3] = target
                      /\ x[2] \in ToSet(ToUsers(call.todo))
                   THEN call.todo[born(x[2])][2] ELSE Cleared(call)[x]]
              /\ IF call.op = "round"
                 THEN /\ coding' = [m \in Members |-> Null]
                      /\ llm' = Null /\ behind' = {} /\ pairs' = {}
                 ELSE UNCHANGED <<responses, pairs>>
              /\ UNCHANGED completed
      /\ Go(s, Idle)
      /\ UNCHANGED <<inScope, can, verdicts, noted>>

-----------------------------------------------------------------------------
\* What happens to the document from outside the comparison.

\* A new latest LLM response: its equivalences fall with the old one.
PublishLlm(s, a) ==
  /\ Begin(s, "publish")
  /\ Complete(a)
  /\ llm' = a /\ behind' = behind \ {Llm}
  /\ pairs' = {p \in pairs : Llm \notin p.ends}
  /\ UNCHANGED <<settings, coding, rows, verdicts, noted, calls>>

\* A structural change of the schema moves the version floor.
RaiseFloor(s) ==
  /\ Begin(s, "schema")
  /\ behind' = {r \in Respondents : Response(r) # Null}
  /\ UNCHANGED <<settings, coding, llm, rows, reviews, calls>>

\* replace_and_add_documents: the work starts again, concluded comparisons stay.
ReplaceDocument(s) ==
  /\ Begin(s, "replace")
  /\ coding' = [m \in Members |-> Null] /\ llm' = Null /\ behind' = {}
  /\ verdicts' = [m \in Members |-> [f \in Fields |-> Null]]
  /\ pairs' = {}
  /\ work' = [x \in DOMAIN work |->
       IF work[x] = "none" \/ (x[1] = "comparacao" /\ work[x] = "concluido")
       THEN work[x] ELSE "pendente"]
  /\ UNCHANGED <<settings, completed, noted, calls>>

\* A request to exclude the document, or its refusal.
ToggleScope(s) ==
  /\ Begin(s, "scope")
  /\ inScope' = ~inScope
  /\ UNCHANGED <<round, can, responses, rows, reviews, calls>>

-----------------------------------------------------------------------------

Init ==
  /\ scope \in Scopes
  /\ round = 1 /\ inScope = TRUE /\ begun = 0
  /\ can = scope.can /\ coding = scope.coding /\ llm = scope.llm
  /\ behind = {}
  /\ completed = [x \in Members \X Rounds |-> IF x[2] # 1 THEN 0 ELSE scope.completed[x[1]]]
  /\ work = [x \in Types \X Members \X Rounds |->
       IF x[3] # 1 THEN "none"
       ELSE IF x[1] = "codificacao" THEN scope.codings[x[2]] ELSE scope.comparisons[x[2]]]
  /\ verdicts = scope.verdicts
  /\ noted = {} /\ pairs = {}
  /\ calls = [s \in Sessions |-> Idle]

Start(s) ==
  \/ \E m \in Members, a \in scope.inputs : Save(s, m, a)
  \/ \E m \in Members, f \in Fields :
       \/ \E kind \in scope.kinds : SubmitVerdict(s, m, f, kind)
       \/ \E group \in SUBSET Respondents : ConfirmEquivalent(s, m, f, group)
  \/ \E m \in Members : \E p \in pairs : UnmarkPair(s, m, p)
  \/ \E m \in Members : MarkReviewed(s, m) \/ ReadCycle(s, m)
  \/ \E m \in Members, enabled \in BOOLEAN : Permit(s, m, enabled)
  \/ \E t \in Types : ClearPending(s, t)
  \/ \E t \in Types, drawn \in SUBSET Members, replace, fresh \in BOOLEAN :
       Draw(s, t, drawn, replace, fresh)
  \/ \E a \in scope.inputs : PublishLlm(s, a)
  \/ RaiseFloor(s) \/ ReplaceDocument(s) \/ ToggleScope(s)

Continue(s) ==
  \/ SetCodingStatus(s) \/ Analyse(s) \/ ChooseReviewer(s) \/ AssignReviewer(s)
  \/ ReadComment(s) \/ WriteComment(s) \/ ConfirmVerdict(s)
  \/ ListReviewers(s) \/ ReadRow(s) \/ ReadData(s) \/ WriteStatus(s)
  \/ DeriveStatus(s) \/ InsertCoding(s) \/ Promote(s) \/ RemoveRows(s) \/ Apply(s)

Next == \E s \in Sessions : Start(s) \/ Continue(s)

Spec == Init /\ [][Next]_vars

-----------------------------------------------------------------------------
\* Properties.

Quiet == \A s \in Sessions : calls[s] = Idle
Only(operations) == scope.operations \subseteq operations

\* Every variable keeps its type.
TypeOK ==
  /\ scope \in Scopes /\ round \in Rounds /\ inScope \in BOOLEAN /\ can \subseteq Members
  /\ coding \in [Members -> Codings \cup {Null}] /\ llm \in Codings \cup {Null}
  /\ behind \subseteq Respondents
  /\ work \in [Types \X Members \X Rounds -> Statuses]
  /\ verdicts \in [Members -> [Fields -> scope.kinds \cup {Null}]]
  /\ noted \subseteq Fields
  /\ pairs \subseteq [field : Fields, ends : SUBSET Respondents, owner : Members]
  /\ begun \in Nat

\* A comparison has a completed_at if and only if it is concluded.
ConcludedHaveATime ==
  \A x \in Members \X Rounds :
    work[<<"comparacao", x[1], x[2]>>] = "concluido" <=> completed[x] # 0

\* Whoever holds an open comparison of the document did not code it, whatever
\* saves, draws, promotions and reopenings ran at once (20260716160100).
ReviewerIsNotCoder == \A x \in ActiveComparisons : coding[x[1]] = Null

\* Operations after which nobody looks for a reviewer, by design.
Unattended == {"edit", "draft", "publish", "unmark", "cycle", "clear", "round",
               "schema", "replace", "scope"}

\* When no call runs, a divergent document without any comparison has no
\* eligible member: first complete codings and changes of permission leave no
\* document forgotten, in whatever order they commit and read (setCanCompare,
\* createAutoComparisonIfDiverges).
BacklogHasACause ==
  /\ Quiet /\ scope.mode # "none" /\ scope.operations \cap Unattended = {}
  /\ NeedsReviewer /\ Reviewers = {}
  => Eligible(Coders) = {}

\* A comparison nobody started is held by a member who may compare: a
\* concurrent loss of the permission takes it back, or keeps it from being
\* assigned (auto-comparison.ts, set_member_comparison_permission).
PendingReviewersMayCompare ==
  Only(Automatic) =>
    \A x \in ActiveComparisons :
      work[<<"comparacao", x[1], x[2]>>] = "pendente" => x[1] \in can

\* The status of a reviewer's assignment says what is left.
StatusFollows(u) ==
  LET left == DivergentFields(Qualified) \ Reviewed(u)
      status == work[<<"comparacao", u, round>>]
  IN  /\ status = "concluido" <=> left = {}
      /\ status = "em_andamento" <=> left # {} /\ Reviewed(u) # {}

\* After verdicts, equivalences and their removal, one at a time, the status of
\* the only reviewer says what is left: resolving the visible divergences
\* always closes the opinion, and a divergence that comes back reopens it
\* (compare-sync.ts).
VerdictsDecideStatus ==
  /\ Only({"verdict", "equivalent", "unmark"}) /\ scope.sessions = 1 /\ Quiet /\ begun > 0
  => \A u \in Members : Reviewers = {u} => StatusFollows(u)

\* Of the concluded comparisons of a round that a removed equivalence opens
\* again, the most recent one is reopened (sortByReopenPriority).
RecentReopensFirst ==
  [][\A x, y \in Members \X Rounds :
       /\ Only({"verdict", "equivalent", "unmark"}) /\ scope.sessions = 1
       /\ work[<<"comparacao", x[1], x[2]>>] = "concluido"
       /\ work'[<<"comparacao", x[1], x[2]>>] \in Open
       /\ x[2] = y[2] /\ completed[x] < completed[y]
       => DivergentFields(Qualified) \subseteq Reviewed(y[1])]_vars

\* A document whose divergences one reviewer settled in the round is not given
\* to a second one (lottery-utils.ts: a comparison is a single tie-break).
OneTieBreak ==
  [][\A u, m \in Members :
       /\ work[<<"comparacao", u, round>>] = "concluido"
       /\ DivergentFields(Qualified) \subseteq Reviewed(u)
       /\ work[<<"comparacao", m, round>>] = "none"
       => work'[<<"comparacao", m, round>>] \notin Open]_vars

\* Work that was started is not taken away: only pending assignments are
\* changed or removed (cycleAssignment).
StartedWorkStays ==
  [][\A x \in DOMAIN work : work[x] \in {"em_andamento", "concluido"} => work'[x] # "none"]_vars

\* A field has an ambiguity comment if and only if some review calls it
\* ambiguous (submitVerdict).
CommentsFollowVerdicts ==
  Quiet => noted = {f \in Fields : \E m \in Members : verdicts[m][f] = "ambiguous"}

\* A complete coding of the round has no open coding assignment (#521).
CompleteCodingsAreConcluded ==
  Quiet => \A m \in Members :
    Complete(coding[m]) => work[<<"codificacao", m, round>>] \in {"none", "concluido"}

=============================================================================
