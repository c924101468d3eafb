---------------------------- MODULE ComparisonProofs ----------------------------
(***************************************************************************)
(* Theorems about Comparison, for every value of its constants.            *)
(*                                                                         *)
(* The database keeps a coder from holding an open comparison, whatever    *)
(* the calls read before they write.  A document that needs a reviewer is  *)
(* not forgotten because some call still has to analyse it with all of its *)
(* coders, or has done so since the last of them coded.  The status of the *)
(* only reviewer is the one that his verdicts call for, or some call still *)
(* has to look at him.  A comparison has a completed_at if and only if it  *)
(* is concluded.                                                           *)
(***************************************************************************)
EXTENDS Comparison, FiniteSetTheorems, WellFoundedInduction, TLAPS

\* The comparison of m in round r.
Row(m, r) == <<"comparacao", m, r>>

\* The properties, row by row.
NotCoder ==
  \A m \in Members, r \in Rounds : work[Row(m, r)] \in Open => coding[m] = Null
MayCompare ==
  Only(Automatic) =>
    \A m \in Members, r \in Rounds : work[Row(m, r)] = "pendente" => m \in can

\* Members with some verdict.
Judges == {m \in Members : Reviewed(m) # {}}

\* A call has the columns of Idle.
Columns == {"op", "at", "who", "round", "field", "seen", "flag", "count", "pool", "todo"}
IsCall(c) == DOMAIN c = Columns

\* The rows a draw inserts.
IsPlan(plan) ==
  \A i \in DOMAIN plan :
    plan[i][1] \in Members /\ plan[i][2] \in Statuses \ {"none"}

\* What a call that is at a stage has read, in a scope x whose judges include J.
\* With the automation alone, a call synchronises one judge.
CallFits(c, x, J) ==
  /\ IsCall(c)
  /\ c.at \in {"status", "promote"} => c.who \in Members /\ c.round \in 1..x.rounds
  /\ c.at \in {"assign", "derive", "comment", "note", "gabarito"} => c.who \in Members
  /\ c.at \in {"comment", "note", "gabarito"} => c.field \in Fields
  /\ c.at \in {"derive", "insert", "promote", "remove"} => "cycle" \in x.operations
  /\ c.at \in {"insert", "write"} => c.seen \in Statuses \ {"none"}
  /\ c.at = "list" => "unmark" \in x.operations
  /\ c.at = "gabarito" => "equivalent" \in x.operations
  /\ c.at = "apply" =>
       /\ c.op \in {"draw", "round"} \cap x.operations /\ IsPlan(c.todo)
       /\ c.op = "round" => c.round + 1 \in 1..x.rounds
       /\ ToSet(ToUsers(c.todo)) \cap Members # {}
       /\ c.field = "comparacao" =>
            c.op = "draw" /\ \A i \in DOMAIN c.todo : c.todo[i][2] = "pendente"
  /\ x.operations \subseteq Automatic =>
       /\ c.at \in {"comment", "note", "data"} => c.who \in J
       /\ c.at = "row" => \E u \in J : c.todo = <<u>>
       /\ c.at = "data" => c.todo = <<c.who>>
       /\ c.at = "write" => c.seen # "pendente" /\ \E u \in J : c.todo = <<u>>

CallsFit ==
  /\ calls = [s \in Sessions |-> calls[s]]
  /\ \A s \in Sessions : CallFits(calls[s], scope, Judges)

\* Nothing excludes the document where nothing is unattended.
StaysInScope == scope.operations \cap Unattended = {} => inScope

IInv == TypeOK /\ CallsFit /\ NotCoder /\ MayCompare /\ StaysInScope

-----------------------------------------------------------------------------
\* Rows, calls and steps in general.

\* The properties are those of the module.
LEMMA ByRow ==
  /\ NotCoder => ReviewerIsNotCoder
  /\ MayCompare => PendingReviewersMayCompare
BY DEF NotCoder, MayCompare, Row, ReviewerIsNotCoder, PendingReviewersMayCompare,
       ActiveComparisons, Open

\* A call with more judges.
LEMMA FitsMore ==
  ASSUME NEW c, NEW x, NEW J, NEW K, CallFits(c, x, J),
         J \subseteq K \/ ~(x.operations \subseteq Automatic)
  PROVE  CallFits(c, x, K)
BY DEF CallFits

\* An idle call.
LEMMA IdleFits ==
  ASSUME NEW x, NEW J
  PROVE  IsCall(Idle) /\ Idle.at = "" /\ CallFits(Idle, x, J)
BY DEF Idle, IsCall, Columns, CallFits

\* A step of a session, with the call c after it.
LEMMA Step ==
  ASSUME IInv, NEW s \in Sessions, NEW c, calls' = [calls EXCEPT ![s] = c],
         CallFits(c, scope, Judges'), scope' = scope,
         Judges \subseteq Judges' \/ ~Only(Automatic),
         TypeOK', NotCoder', MayCompare', StaysInScope'
  PROVE  IInv'
<1>1. ASSUME NEW t \in Sessions PROVE CallFits(calls'[t], scope, Judges')
  <2>1. CASE t = s
    <3>1. calls'[s] = c  BY DEF IInv, CallsFit
    <3> QED  BY <2>1, <3>1
  <2>2. CASE t # s
    <3>1. CallFits(calls[t], scope, Judges)  BY DEF IInv, CallsFit
    <3>2. calls'[t] = calls[t]  BY <2>2 DEF IInv, CallsFit
    <3> QED  BY <3>1, <3>2, FitsMore DEF Only
  <2> QED  BY <2>1, <2>2
<1>2. calls' = [t \in Sessions |-> calls'[t]]
  <2>1. calls = [t \in Sessions |-> calls[t]]  BY DEF IInv, CallsFit
  <2> QED  BY <2>1
<1>3. CallsFit'  BY <1>1, <1>2 DEF CallsFit
<1> QED  BY <1>3 DEF IInv

\* What a session's call is.
LEMMA CallIs ==
  ASSUME IInv, NEW s \in Sessions
  PROVE  /\ CallFits(calls[s], scope, Judges)
         /\ calls = [calls EXCEPT ![s] = calls[s]]
BY DEF IInv, CallsFit

\* A step that changes nothing but the call.
LEMMA ThinkStep ==
  ASSUME IInv, NEW s \in Sessions, NEW c, Go(s, c), CallFits(c, scope, Judges),
         UNCHANGED <<scope, settings, responses, rows, reviews>>, begun' \in Nat
  PROVE  IInv'
<1>1. Judges' = Judges  BY DEF reviews, Judges, Reviewed
<1>2. TypeOK'
  BY DEF IInv, TypeOK, settings, responses, rows, reviews, Rounds, Respondents
<1>3. NotCoder' /\ MayCompare' /\ StaysInScope'
  BY DEF IInv, NotCoder, MayCompare, StaysInScope, settings, responses, rows, Rounds, Only
<1> QED  BY <1>1, <1>2, <1>3, Step DEF Go

\* A step that changes the assignments: who gets an open comparison did not code,
\* and who gets a new one may compare.
LEMMA RowStep ==
  ASSUME IInv, NEW s \in Sessions, NEW c, Go(s, c), CallFits(c, scope, Judges),
         UNCHANGED <<scope, settings, responses, reviews>>, begun' \in Nat,
         work' \in [Types \X Members \X Rounds -> Statuses],
         \A m \in Members, r \in Rounds :
           work'[Row(m, r)] \in Open => coding[m] = Null \/ work[Row(m, r)] \in Open,
         Only(Automatic) =>
           \A m \in Members, r \in Rounds :
             work'[Row(m, r)] = "pendente" => m \in can \/ work[Row(m, r)] = "pendente"
  PROVE  IInv'
<1>1. Judges' = Judges  BY DEF reviews, Judges, Reviewed
<1>2. TypeOK'
  BY DEF IInv, TypeOK, settings, responses, reviews, Rounds, Respondents
<1>3. NotCoder'  BY DEF IInv, NotCoder, responses, Rounds
<1>4. MayCompare'  BY DEF IInv, MayCompare, settings, Rounds, Only
<1>5. StaysInScope'  BY DEF IInv, StaysInScope, settings
<1> QED  BY <1>1, <1>2, <1>3, <1>4, <1>5, Step DEF Go

\* A step that changes the reviews: with the automation alone, no judge is lost.
LEMMA ReviewStep ==
  ASSUME IInv, NEW s \in Sessions, NEW c, Go(s, c), CallFits(c, scope, Judges'),
         UNCHANGED <<scope, settings, responses, rows>>, begun' \in Nat,
         verdicts' \in [Members -> [Fields -> scope.kinds \cup {Null}]],
         noted' \subseteq Fields,
         pairs' \subseteq [field : Fields, ends : SUBSET Respondents, owner : Members],
         Judges \subseteq Judges' \/ ~Only(Automatic)
  PROVE  IInv'
<1>1. TypeOK'
  BY DEF IInv, TypeOK, settings, responses, rows, Rounds, Respondents
<1>2. NotCoder' /\ MayCompare' /\ StaysInScope'
  BY DEF IInv, NotCoder, MayCompare, StaysInScope, settings, responses, rows, Rounds, Only
<1> QED  BY <1>1, <1>2, Step DEF Go

-----------------------------------------------------------------------------
\* Saves and the automation.

\* A save: its coder holds no open comparison, and its row is still to be written.
LEMMA SaveStep ==
  ASSUME IInv, NEW s \in Sessions, NEW m \in Members, NEW a \in scope.inputs, Save(s, m, a)
  PROVE  IInv'
<1> DEFINE c == [Idle EXCEPT !.op = "save", !.at = "status", !.who = m, !.round = round,
                             !.seen = SaveKind(m, a)]
<1>1. /\ Go(s, c) /\ scope' = scope /\ begun' \in Nat /\ ~SaveRefused(m)
      /\ coding' = [coding EXCEPT ![m] = a]
      /\ behind' = behind \ {m} /\ pairs' \subseteq pairs
      /\ UNCHANGED <<settings, llm, rows, verdicts, noted>>
  BY DEF Save, Begin, IInv, TypeOK
<1>2. round \in Rounds /\ a \in Codings
  BY ComparisonAssumption DEF IInv, TypeOK
<1>3. CallFits(c, scope, Judges')
  <2>1. IsCall(c) /\ c.at = "status" /\ c.who = m /\ c.round = round
    BY IdleFits DEF IsCall, Columns
  <2> HIDE DEF c
  <2> QED  BY <1>2, <2>1 DEF CallFits, Rounds
<1>4. Judges' = Judges  BY <1>1 DEF Judges, Reviewed
<1>5. TypeOK'
  BY <1>1, <1>2 DEF IInv, TypeOK, settings, rows, Rounds, Respondents
<1>6. NotCoder'
  <2>1. \A r \in Rounds : work[Row(m, r)] \notin Open
    <3>1. \A r \in Rounds : <<m, r>> \in Members \X Rounds /\ <<m, r>>[1] = m /\ <<m, r>>[2] = r
      OBVIOUS
    <3> QED  BY <1>1, <3>1 DEF SaveRefused, ActiveComparisons, Row
  <2> QED  BY <1>1, <2>1 DEF IInv, TypeOK, NotCoder, rows, Rounds
<1>7. MayCompare' /\ StaysInScope'
  BY <1>1 DEF IInv, MayCompare, StaysInScope, settings, rows, Rounds, Only
<1> HIDE DEF c
<1> QED  BY <1>1, <1>3, <1>4, <1>5, <1>6, <1>7, Step DEF Go

\* The automation is a call.
LEMMA AutomationFits ==
  ASSUME NEW x, NEW J
  PROVE  CallFits(Automation, x, J)
BY IdleFits DEF Automation, IsCall, Columns, CallFits

\* A comparison changes its status, and only that row.
LEMMA SetComparison ==
  ASSUME IInv, NEW m, NEW r, NEW next \in Statuses, Set("comparacao", m, r, next)
  PROVE  /\ work' \in [Types \X Members \X Rounds -> Statuses]
         /\ \A u \in Members, q \in Rounds :
              \/ work'[Row(u, q)] = work[Row(u, q)]
              \/ u = m /\ q = r /\ work'[Row(u, q)] = next
<1>1. work \in [Types \X Members \X Rounds -> Statuses]  BY DEF IInv, TypeOK
<1>2. work' = [work EXCEPT ![Row(m, r)] = next]  BY DEF Set, Row
<1>3. \A u \in Members, q \in Rounds : Row(u, q) \in Types \X Members \X Rounds
  BY DEF Row, Types
<1>4. \A u \in Members, q \in Rounds : Row(u, q) = Row(m, r) <=> u = m /\ q = r
  BY DEF Row
<1> QED  BY <1>1, <1>2, <1>3, <1>4

\* A coding changes its status, and no comparison does.
LEMMA SetCoding ==
  ASSUME IInv, NEW m, NEW r, NEW next \in Statuses, Set("codificacao", m, r, next)
  PROVE  /\ work' \in [Types \X Members \X Rounds -> Statuses]
         /\ \A u \in Members, q \in Rounds : work'[Row(u, q)] = work[Row(u, q)]
<1>1. work \in [Types \X Members \X Rounds -> Statuses]  BY DEF IInv, TypeOK
<1>2. work' = [work EXCEPT ![<<"codificacao", m, r>>] = next]  BY DEF Set
<1>3. \A u \in Members, q \in Rounds :
        Row(u, q) \in Types \X Members \X Rounds /\ Row(u, q) # <<"codificacao", m, r>>
  BY DEF Row, Types
<1> QED  BY <1>1, <1>2, <1>3

\* The status of a coding.
LEMMA SetCodingStatusStep ==
  ASSUME IInv, NEW s \in Sessions, SetCodingStatus(s)
  PROVE  IInv'
<1> DEFINE c == calls[s]
           row == work[<<"codificacao", c.who, c.round>>]
           next == IF row = "none" THEN row
                   ELSE IF c.seen # "draft" THEN "concluido"
                   ELSE IF row = "concluido" THEN row ELSE "em_andamento"
           d == IF c.seen = "code" THEN Automation ELSE Idle
<1>1. /\ c.at = "status" /\ Set("codificacao", c.who, c.round, next) /\ Go(s, d)
      /\ UNCHANGED <<scope, begun, settings, responses, reviews>>
  BY DEF SetCodingStatus, At
<1>2. CallFits(c, scope, Judges)  BY CallIs
<1>3. row \in Statuses
  <2>1. <<"codificacao", c.who, c.round>> \in Types \X Members \X Rounds
    BY <1>1, <1>2 DEF CallFits, Types, Rounds
  <2> QED  BY <2>1 DEF IInv, TypeOK
<1>4. next \in Statuses  BY <1>3 DEF Statuses, Open
<1>5. CallFits(d, scope, Judges)  BY AutomationFits, IdleFits
<1>6. begun' \in Nat  BY <1>1 DEF IInv, TypeOK
<1> HIDE DEF c, row, next, d
<1>7. /\ work' \in [Types \X Members \X Rounds -> Statuses]
      /\ \A u \in Members, q \in Rounds : work'[Row(u, q)] = work[Row(u, q)]
  BY <1>1, <1>4, SetCoding
<1> QED  BY <1>1, <1>5, <1>6, <1>7, RowStep

\* The document is analysed.
LEMMA AnalyseStep ==
  ASSUME IInv, NEW s \in Sessions, Analyse(s)
  PROVE  IInv'
<1> DEFINE c == [calls[s] EXCEPT !.at = "choose", !.pool = KnownCoders]
<1>1. /\ Go(s, c) \/ Go(s, Idle)
      /\ UNCHANGED <<scope, begun, settings, responses, rows, reviews>>
  BY DEF Analyse, At
<1>2. CallFits(calls[s], scope, Judges)  BY CallIs
<1>3. IsCall(c) /\ c.at = "choose"  BY <1>2 DEF CallFits, IsCall, Columns
<1> HIDE DEF c
<1>4. CallFits(c, scope, Judges)  BY <1>3 DEF CallFits
<1>5. begun' \in Nat  BY <1>1 DEF IInv, TypeOK
<1> QED  BY <1>1, <1>4, <1>5, IdleFits, ThinkStep

\* A reviewer is chosen.
LEMMA ChooseReviewerStep ==
  ASSUME IInv, NEW s \in Sessions, ChooseReviewer(s)
  PROVE  IInv'
<1>1. UNCHANGED <<scope, begun, settings, responses, rows, reviews>>
  BY DEF ChooseReviewer, At
<1>2. CallFits(calls[s], scope, Judges)  BY CallIs
<1>3. begun' \in Nat  BY <1>1 DEF IInv, TypeOK
<1>4. CASE Go(s, Idle)  BY <1>1, <1>3, <1>4, IdleFits, ThinkStep
<1>5. ASSUME NEW u \in Eligible(calls[s].pool),
             Go(s, [calls[s] EXCEPT !.at = "assign", !.who = u])
      PROVE  IInv'
  <2> DEFINE c == [calls[s] EXCEPT !.at = "assign", !.who = u]
  <2>1. IsCall(c) /\ c.at = "assign" /\ c.who = u  BY <1>2 DEF CallFits, IsCall, Columns
  <2>2. u \in Members  BY DEF Eligible, IInv, TypeOK
  <2> HIDE DEF c
  <2>3. CallFits(c, scope, Judges)  BY <2>1, <2>2 DEF CallFits
  <2> QED  BY <1>1, <1>3, <1>5, <2>3, ThinkStep DEF c
<1> QED  BY <1>4, <1>5 DEF ChooseReviewer

\* The reviewer is assigned if the locks still find the member free and allowed.
LEMMA AssignReviewerStep ==
  ASSUME IInv, NEW s \in Sessions, AssignReviewer(s)
  PROVE  IInv'
<1> DEFINE u == calls[s].who
<1>1. Go(s, Idle) /\ UNCHANGED <<scope, begun, settings, responses, reviews>>
  BY DEF AssignReviewer, At
<1>2. begun' \in Nat  BY <1>1 DEF IInv, TypeOK
<1>3. CASE UNCHANGED rows  BY <1>1, <1>2, <1>3, IdleFits, ThinkStep
<1>4. CASE StillEligible(u) /\ Set("comparacao", u, round, "pendente")
  <2>1. "pendente" \in Statuses  BY DEF Statuses, Open
  <2> HIDE DEF u
  <2>2. /\ work' \in [Types \X Members \X Rounds -> Statuses]
        /\ \A m \in Members, q \in Rounds :
             \/ work'[Row(m, q)] = work[Row(m, q)]
             \/ m = u /\ q = round /\ work'[Row(m, q)] = "pendente"
    BY <1>4, <2>1, SetComparison
  <2>3. u \in can /\ coding[u] = Null  BY <1>4 DEF StillEligible
  <2> QED  BY <1>1, <1>2, <2>2, <2>3, IdleFits, RowStep
<1> QED  BY <1>3, <1>4 DEF AssignReviewer

-----------------------------------------------------------------------------
\* Verdicts, equivalences and the status of the reviewer's assignment.

\* Who may synchronise: a judge when only the automation makes reviewers.
LEMMA SyncFits ==
  ASSUME NEW users, NEW x, NEW J,
         x.operations \subseteq Automatic =>
           users = <<>> \/ \E u \in J : users = <<u>>
  PROVE  CallFits(SyncOf(users), x, J)
<1>1. CASE users = <<>>  BY <1>1, IdleFits DEF SyncOf
<1>2. CASE users # <<>>
  <2> DEFINE c == [Idle EXCEPT !.op = "sync", !.at = "row", !.todo = users]
  <2>1. IsCall(c) /\ c.at = "row" /\ c.todo = users  BY IdleFits DEF IsCall, Columns
  <2>2. SyncOf(users) = c  BY <1>2 DEF SyncOf
  <2> HIDE DEF c
  <2> QED  BY <1>2, <2>1, <2>2 DEF CallFits
<1> QED  BY <1>1, <1>2

\* The users that are left: none when only the automation makes reviewers.
LEMMA NextFits ==
  ASSUME IInv, NEW s \in Sessions, calls[s].at \in {"row", "data", "write"}
  PROVE  CallFits(NextUser(s), scope, Judges)
<1>1. CallFits(calls[s], scope, Judges)  BY CallIs
<1>2. ASSUME Only(Automatic)
      PROVE  Tail(calls[s].todo) = <<>>
  <2>1. \E u : calls[s].todo = <<u>>  BY <1>1, <1>2 DEF CallFits, Only
  <2>2. \A u : Tail(<<u>>) = <<>>  OBVIOUS
  <2> QED  BY <2>1, <2>2
<1> QED  BY <1>2, SyncFits DEF NextUser, Only

\* A verdict makes its member a judge.
LEMMA SubmitVerdictStep ==
  ASSUME IInv, NEW s \in Sessions, NEW m \in Members, NEW f \in Fields,
         NEW kind \in scope.kinds, SubmitVerdict(s, m, f, kind)
  PROVE  IInv'
<1> DEFINE c == [Idle EXCEPT !.op = "verdict", !.at = "comment", !.who = m,
                             !.field = f, !.seen = kind]
<1>1. /\ Go(s, c) /\ scope' = scope /\ begun' \in Nat
      /\ verdicts' = [verdicts EXCEPT ![m][f] = kind]
      /\ UNCHANGED <<settings, responses, rows, noted, pairs>>
  BY DEF SubmitVerdict, Begin, IInv, TypeOK
<1>2. /\ verdicts \in [Members -> [Fields -> scope.kinds \cup {Null}]]
      /\ noted \subseteq Fields
      /\ pairs \subseteq [field : Fields, ends : SUBSET Respondents, owner : Members]
  BY DEF IInv, TypeOK
<1>3. kind # Null  BY ComparisonAssumption DEF IInv, TypeOK
<1>4. verdicts' \in [Members -> [Fields -> scope.kinds \cup {Null}]]  BY <1>1, <1>2
<1>5. Judges \subseteq Judges' /\ m \in Judges'
  <2>1. ASSUME NEW u \in Members, NEW g \in Fields, verdicts[u][g] # Null
        PROVE  verdicts'[u][g] # Null
    BY <1>1, <1>2, <1>3, <2>1
  <2>2. verdicts'[m][f] # Null  BY <1>1, <1>2, <1>3
  <2> QED  BY <2>1, <2>2 DEF Judges, Reviewed
<1>6. IsCall(c) /\ c.at = "comment" /\ c.who = m /\ c.field = f
  BY IdleFits DEF IsCall, Columns
<1> HIDE DEF c
<1>7. CallFits(c, scope, Judges')  BY <1>5, <1>6 DEF CallFits
<1>8. /\ UNCHANGED <<scope, settings, responses, rows>> /\ noted' \subseteq Fields
      /\ pairs' \subseteq [field : Fields, ends : SUBSET Respondents, owner : Members]
  BY <1>1, <1>2
<1> QED  BY <1>1, <1>4, <1>5, <1>7, <1>8, ReviewStep

\* The comment is read.
LEMMA ReadCommentStep ==
  ASSUME IInv, NEW s \in Sessions, ReadComment(s)
  PROVE  IInv'
<1> DEFINE c == [calls[s] EXCEPT !.at = "note"]
           d == SyncOf(<<calls[s].who>>)
<1>1. /\ calls[s].at = "comment"
      /\ Go(s, c) \/ Go(s, d)
      /\ UNCHANGED <<scope, begun, settings, responses, rows, reviews>>
  BY DEF ReadComment, At
<1>2. CallFits(calls[s], scope, Judges) /\ calls[s].at = "comment"
  BY CallIs DEF ReadComment, At
<1>3. /\ IsCall(c) /\ c.at = "note" /\ c.who = calls[s].who /\ c.field = calls[s].field
  BY <1>2 DEF CallFits, IsCall, Columns
<1>4. CallFits(d, scope, Judges)  BY <1>2, SyncFits DEF CallFits
<1> HIDE DEF c, d
<1>5. CallFits(c, scope, Judges)  BY <1>2, <1>3 DEF CallFits
<1>6. begun' \in Nat  BY <1>1 DEF IInv, TypeOK
<1> QED  BY <1>1, <1>4, <1>5, <1>6, ThinkStep

\* The comment is written.
LEMMA WriteCommentStep ==
  ASSUME IInv, NEW s \in Sessions, WriteComment(s)
  PROVE  IInv'
<1> DEFINE d == SyncOf(<<calls[s].who>>)
<1>1. /\ calls[s].at = "note" /\ Go(s, d)
      /\ noted' \subseteq noted \cup {calls[s].field}
      /\ UNCHANGED <<scope, begun, settings, responses, rows, verdicts, pairs>>
  BY DEF WriteComment, At
<1>2. CallFits(calls[s], scope, Judges)  BY CallIs
<1>3. CallFits(d, scope, Judges)  BY <1>1, <1>2, SyncFits DEF CallFits
<1>4. calls[s].field \in Fields  BY <1>1, <1>2 DEF CallFits
<1>5. /\ noted' \subseteq Fields /\ begun' \in Nat
      /\ verdicts' \in [Members -> [Fields -> scope.kinds \cup {Null}]]
      /\ pairs' \subseteq [field : Fields, ends : SUBSET Respondents, owner : Members]
  BY <1>1, <1>4 DEF IInv, TypeOK
<1>6. Judges' = Judges  BY <1>1 DEF Judges, Reviewed
<1> HIDE DEF d
<1>7. UNCHANGED <<scope, settings, responses, rows>>  BY <1>1
<1> QED  BY <1>1, <1>3, <1>5, <1>6, <1>7, ReviewStep

\* Responses are declared equivalent.
LEMMA ConfirmEquivalentStep ==
  ASSUME IInv, NEW s \in Sessions, NEW m \in Members, NEW f \in Fields,
         NEW group \in SUBSET Respondents, ConfirmEquivalent(s, m, f, group)
  PROVE  IInv'
<1> DEFINE c == [Idle EXCEPT !.op = "equivalent", !.at = "gabarito", !.who = m, !.field = f]
           new == {[field |-> f, ends |-> e, owner |-> m] :
                     e \in {{a, b} : a, b \in group} \
                          ({{a} : a \in group} \cup
                           {p.ends : p \in {q \in pairs : q.field = f}})}
<1>1. /\ Go(s, c) /\ scope' = scope /\ begun' \in Nat /\ pairs' = pairs \cup new
      /\ UNCHANGED <<settings, responses, rows, verdicts, noted>>
      /\ "equivalent" \in scope.operations
  BY DEF ConfirmEquivalent, Begin, IInv, TypeOK
<1>2. new \subseteq [field : Fields, ends : SUBSET Respondents, owner : Members]
  OBVIOUS
<1>3. IsCall(c) /\ c.at = "gabarito" /\ c.who = m /\ c.field = f
  BY IdleFits DEF IsCall, Columns
<1> HIDE DEF c, new
<1>4. CallFits(c, scope, Judges)  BY <1>1, <1>3 DEF CallFits
<1>5. /\ noted' \subseteq Fields
      /\ verdicts' \in [Members -> [Fields -> scope.kinds \cup {Null}]]
      /\ pairs' \subseteq [field : Fields, ends : SUBSET Respondents, owner : Members]
  BY <1>1, <1>2 DEF IInv, TypeOK
<1>6. Judges' = Judges  BY <1>1 DEF Judges, Reviewed
<1>7. UNCHANGED <<scope, settings, responses, rows>>  BY <1>1
<1> QED  BY <1>1, <1>4, <1>5, <1>6, <1>7, ReviewStep

\* The verdict of an equivalence, which is not an operation of the automation.
LEMMA ConfirmVerdictStep ==
  ASSUME IInv, NEW s \in Sessions, ConfirmVerdict(s)
  PROVE  IInv'
<1> DEFINE d == SyncOf(<<calls[s].who>>)
<1>1. /\ calls[s].at = "gabarito" /\ Go(s, d)
      /\ verdicts' = [verdicts EXCEPT ![calls[s].who][calls[s].field] = "plain"]
      /\ UNCHANGED <<scope, begun, settings, responses, rows, noted, pairs>>
  BY DEF ConfirmVerdict, At
<1>2. CallFits(calls[s], scope, Judges)  BY CallIs
<1>3. /\ calls[s].who \in Members /\ calls[s].field \in Fields
      /\ "equivalent" \in scope.operations
  BY <1>1, <1>2 DEF CallFits
<1>4. ~Only(Automatic)  BY <1>3 DEF Only, Automatic
<1>5. CallFits(d, scope, Judges')  BY <1>4, SyncFits DEF Only
<1>6. "plain" \in scope.kinds  BY ComparisonAssumption DEF IInv, TypeOK
<1>7. /\ verdicts' \in [Members -> [Fields -> scope.kinds \cup {Null}]]
  BY <1>1, <1>3, <1>6 DEF IInv, TypeOK
<1>8. /\ noted' \subseteq Fields /\ begun' \in Nat
      /\ pairs' \subseteq [field : Fields, ends : SUBSET Respondents, owner : Members]
  BY <1>1 DEF IInv, TypeOK
<1> HIDE DEF d
<1>9. UNCHANGED <<scope, settings, responses, rows>>  BY <1>1
<1> QED  BY <1>1, <1>4, <1>5, <1>7, <1>8, <1>9, ReviewStep

\* An equivalence is removed, which is not an operation of the automation.
LEMMA UnmarkPairStep ==
  ASSUME IInv, NEW s \in Sessions, NEW m \in Members, NEW p \in pairs, UnmarkPair(s, m, p)
  PROVE  IInv'
<1> DEFINE c == [Idle EXCEPT !.op = "unmark", !.at = "list"]
<1>1. /\ Go(s, c) /\ scope' = scope /\ begun' \in Nat /\ pairs' = pairs \ {p}
      /\ verdicts' = [u \in Members |-> IF u \in {m, p.owner}
                        THEN [verdicts[u] EXCEPT ![p.field] = Null] ELSE verdicts[u]]
      /\ UNCHANGED <<settings, responses, rows, noted>>
      /\ "unmark" \in scope.operations
  BY DEF UnmarkPair, Begin, IInv, TypeOK
<1>2. ~Only(Automatic)  BY <1>1 DEF Only, Automatic
<1>3. IsCall(c) /\ c.at = "list"  BY IdleFits DEF IsCall, Columns
<1> HIDE DEF c
<1>4. CallFits(c, scope, Judges')  BY <1>1, <1>2, <1>3 DEF CallFits, Only
<1>5. verdicts' \in [Members -> [Fields -> scope.kinds \cup {Null}]]
  <2>1. verdicts \in [Members -> [Fields -> scope.kinds \cup {Null}]]  BY DEF IInv, TypeOK
  <2>2. \A u \in Members : [verdicts[u] EXCEPT ![p.field] = Null]
                              \in [Fields -> scope.kinds \cup {Null}]
    BY <2>1
  <2> QED  BY <1>1, <2>1, <2>2
<1>6. /\ noted' \subseteq Fields
      /\ pairs' \subseteq [field : Fields, ends : SUBSET Respondents, owner : Members]
  BY <1>1 DEF IInv, TypeOK
<1>7. UNCHANGED <<scope, settings, responses, rows>>  BY <1>1
<1> QED  BY <1>1, <1>2, <1>4, <1>5, <1>6, <1>7, ReviewStep

\* The reviewers are listed.
LEMMA ListReviewersStep ==
  ASSUME IInv, NEW s \in Sessions, ListReviewers(s)
  PROVE  IInv'
<1>1. /\ calls[s].at = "list"
      /\ UNCHANGED <<scope, begun, settings, responses, rows, reviews>>
  BY DEF ListReviewers, At
<1>2. PICK users : Go(s, SyncOf(users))  BY DEF ListReviewers
<1>3. CallFits(calls[s], scope, Judges)  BY CallIs
<1>4. ~Only(Automatic)  BY <1>1, <1>3 DEF CallFits, Only, Automatic
<1>5. CallFits(SyncOf(users), scope, Judges)  BY <1>4, SyncFits DEF Only
<1>6. begun' \in Nat  BY <1>1 DEF IInv, TypeOK
<1> QED  BY <1>1, <1>2, <1>5, <1>6, ThinkStep

\* The row of the user is read.
LEMMA ReadRowStep ==
  ASSUME IInv, NEW s \in Sessions, ReadRow(s)
  PROVE  IInv'
<1> DEFINE u == Head(calls[s].todo)
<1>1. /\ calls[s].at = "row" /\ CallFits(calls[s], scope, Judges)
      /\ UNCHANGED <<scope, begun, settings, responses, rows, reviews>>
  BY CallIs DEF ReadRow, At
<1>2. begun' \in Nat  BY <1>1 DEF IInv, TypeOK
<1>3. CASE Go(s, NextUser(s))
  <2>1. CallFits(NextUser(s), scope, Judges)  BY <1>1, NextFits
  <2> QED  BY <1>1, <1>2, <1>3, <2>1, ThinkStep
<1>4. ASSUME NEW r, Go(s, [calls[s] EXCEPT !.at = "data", !.who = u, !.round = r,
                                           !.seen = work[<<"comparacao", u, r>>]])
      PROVE  IInv'
  <2> DEFINE c == [calls[s] EXCEPT !.at = "data", !.who = u, !.round = r,
                                   !.seen = work[<<"comparacao", u, r>>]]
  <2>1. IsCall(c) /\ c.at = "data" /\ c.who = u /\ c.todo = calls[s].todo
    BY <1>1 DEF CallFits, IsCall, Columns
  <2>2. ASSUME Only(Automatic)
        PROVE  u \in Judges /\ calls[s].todo = <<u>>
    <3>1. PICK v \in Judges : calls[s].todo = <<v>>  BY <1>1, <2>2 DEF CallFits, Only
    <3>2. Head(<<v>>) = v  OBVIOUS
    <3> QED  BY <3>1, <3>2
  <2> HIDE DEF c, u
  <2>3. CallFits(c, scope, Judges)  BY <2>1, <2>2 DEF CallFits, Only
  <2> QED  BY <1>1, <1>2, <1>4, <2>3, ThinkStep DEF c
<1> QED  BY <1>3, <1>4 DEF ReadRow

\* The reviews are read: with the automation alone, the user has some verdict.
LEMMA ReadDataStep ==
  ASSUME IInv, NEW s \in Sessions, ReadData(s)
  PROVE  IInv'
<1> DEFINE next == ResolveStatus(DivergentFields(Qualified), Reviewed(calls[s].who))
           c == [calls[s] EXCEPT !.at = "write", !.seen = next]
<1>1. /\ calls[s].at = "data" /\ CallFits(calls[s], scope, Judges)
      /\ UNCHANGED <<scope, begun, settings, responses, rows, reviews>>
      /\ Go(s, c) \/ Go(s, NextUser(s))
  BY CallIs DEF ReadData, At
<1>2. begun' \in Nat  BY <1>1 DEF IInv, TypeOK
<1>3. CASE Go(s, NextUser(s))
  <2>1. CallFits(NextUser(s), scope, Judges)  BY <1>1, NextFits
  <2> QED  BY <1>1, <1>2, <1>3, <2>1, ThinkStep
<1>4. CASE Go(s, c)
  <2>1. IsCall(c) /\ c.at = "write" /\ c.seen = next /\ c.todo = calls[s].todo
    BY <1>1 DEF CallFits, IsCall, Columns
  <2>2. next \in Statuses \ {"none"}  BY DEF ResolveStatus, Statuses, Open
  <2>3. ASSUME Only(Automatic)
        PROVE  next # "pendente" /\ \E u \in Judges : calls[s].todo = <<u>>
    <3>1. calls[s].who \in Judges /\ calls[s].todo = <<calls[s].who>>
      BY <1>1, <2>3 DEF CallFits, Only
    <3>2. Reviewed(calls[s].who) # {}  BY <3>1 DEF Judges
    <3> QED  BY <3>1, <3>2 DEF ResolveStatus
  <2> HIDE DEF c, next
  <2>4. CallFits(c, scope, Judges)  BY <2>1, <2>2, <2>3 DEF CallFits, Only
  <2> QED  BY <1>1, <1>2, <1>4, <2>4, ThinkStep
<1> QED  BY <1>1, <1>3, <1>4

\* The status is written, unless the trigger refuses it.
LEMMA WriteStatusStep ==
  ASSUME IInv, NEW s \in Sessions, WriteStatus(s)
  PROVE  IInv'
<1> DEFINE c == calls[s]
<1>1. /\ c.at = "write" /\ CallFits(c, scope, Judges) /\ Go(s, NextUser(s))
      /\ UNCHANGED <<scope, begun, settings, responses, reviews>>
  BY CallIs DEF WriteStatus, At
<1>2. begun' \in Nat  BY <1>1 DEF IInv, TypeOK
<1>3. CallFits(NextUser(s), scope, Judges)  BY <1>1, NextFits
<1>4. CASE UNCHANGED rows  BY <1>1, <1>2, <1>3, <1>4, ThinkStep
<1>5. CASE /\ ~Refused("comparacao", c.who, c.round, c.seen)
           /\ Set("comparacao", c.who, c.round, c.seen)
  <2>1. c.seen \in Statuses /\ (Only(Automatic) => c.seen # "pendente")
    BY <1>1 DEF CallFits, Only
  <2> HIDE DEF c
  <2>2. /\ work' \in [Types \X Members \X Rounds -> Statuses]
        /\ \A m \in Members, q \in Rounds :
             \/ work'[Row(m, q)] = work[Row(m, q)]
             \/ m = c.who /\ q = c.round /\ work'[Row(m, q)] = c.seen
    BY <1>5, <2>1, SetComparison
  <2>3. c.seen \in Open => coding[c.who] = Null  BY <1>5 DEF Refused
  <2> QED  BY <1>1, <1>2, <1>3, <2>1, <2>2, <2>3, RowStep
<1> QED  BY <1>4, <1>5 DEF WriteStatus

-----------------------------------------------------------------------------
\* Operations of a coordinator.

\* Rows are deleted.
LEMMA DropRows ==
  ASSUME IInv, NEW gone, Drop(gone)
  PROVE  /\ work' \in [Types \X Members \X Rounds -> Statuses]
         /\ \A m \in Members, r \in Rounds :
              /\ Row(m, r) \in gone => work'[Row(m, r)] = "none"
              /\ work'[Row(m, r)] \in {work[Row(m, r)], "none"}
<1>1. work \in [Types \X Members \X Rounds -> Statuses]  BY DEF IInv, TypeOK
<1>2. work' = [x \in Types \X Members \X Rounds |-> IF x \in gone THEN "none" ELSE work[x]]
  BY <1>1 DEF Drop
<1>3. \A m \in Members, r \in Rounds : Row(m, r) \in Types \X Members \X Rounds
  BY DEF Row, Types
<1>4. "none" \in Statuses  BY DEF Statuses
<1> QED  BY <1>1, <1>2, <1>3, <1>4

\* A step that concludes or deletes comparisons.
LEMMA FewerRowsStep ==
  ASSUME IInv, NEW s \in Sessions, NEW c, Go(s, c), CallFits(c, scope, Judges),
         UNCHANGED <<scope, settings, responses, reviews>>, begun' \in Nat,
         work' \in [Types \X Members \X Rounds -> Statuses],
         \A m \in Members, r \in Rounds :
           work'[Row(m, r)] \in {work[Row(m, r)], "none", "concluido"}
  PROVE  IInv'
<1>1. "none" \notin Open /\ "concluido" \notin Open  BY DEF Open
<1>2. \A m \in Members, r \in Rounds :
        /\ work'[Row(m, r)] \in Open => work[Row(m, r)] \in Open
        /\ work'[Row(m, r)] = "pendente" => work[Row(m, r)] = "pendente"
  BY <1>1
<1> QED  BY <1>2, RowStep

\* The comparisons of a reviewer are concluded.
LEMMA MarkReviewedStep ==
  ASSUME IInv, NEW s \in Sessions, NEW m \in Members, MarkReviewed(s, m)
  PROVE  IInv'
<1> DEFINE mine == {<<m, r>> : r \in RowsOf("comparacao", m)}
<1>1. /\ scope' = scope /\ begun' \in Nat /\ calls' = calls
      /\ UNCHANGED <<settings, responses, reviews>>
  BY DEF MarkReviewed, Begin, IInv, TypeOK
<1>2. work \in [Types \X Members \X Rounds -> Statuses]  BY DEF IInv, TypeOK
<1>3. work' = [x \in Types \X Members \X Rounds |->
         IF x[1] = "comparacao" /\ <<x[2], x[3]>> \in mine THEN "concluido" ELSE work[x]]
  BY <1>2 DEF MarkReviewed
<1> HIDE DEF mine
<1>4. /\ work' \in [Types \X Members \X Rounds -> Statuses]
      /\ \A u \in Members, r \in Rounds :
           work'[Row(u, r)] \in {work[Row(u, r)], "none", "concluido"}
  <2>1. \A u \in Members, r \in Rounds : Row(u, r) \in Types \X Members \X Rounds
    BY DEF Row, Types
  <2>2. "concluido" \in Statuses  BY DEF Statuses
  <2> QED  BY <1>2, <1>3, <2>1, <2>2
<1>5. CallFits(calls[s], scope, Judges) /\ Go(s, calls[s])
  BY <1>1, CallIs DEF Go
<1> QED  BY <1>1, <1>4, <1>5, FewerRowsStep

\* A permission changes, and the comparisons that were not started go with it.
LEMMA PermitStep ==
  ASSUME IInv, NEW s \in Sessions, NEW u \in Members, NEW enabled \in BOOLEAN,
         Permit(s, u, enabled)
  PROVE  IInv'
<1>1. /\ Go(s, Automation) /\ scope' = scope /\ begun' \in Nat
      /\ can' = IF enabled THEN can \cup {u} ELSE can \ {u}
      /\ Drop(Released(u, enabled))
      /\ UNCHANGED <<round, inScope, responses, reviews>>
  BY DEF Permit, Begin, IInv, TypeOK
<1>2. /\ work' \in [Types \X Members \X Rounds -> Statuses]
      /\ \A m \in Members, r \in Rounds :
           /\ Row(m, r) \in Released(u, enabled) => work'[Row(m, r)] = "none"
           /\ work'[Row(m, r)] \in {work[Row(m, r)], "none"}
  BY <1>1, DropRows
<1>3. Judges' = Judges  BY <1>1 DEF reviews, Judges, Reviewed
<1>4. TypeOK'
  BY <1>1, <1>2 DEF IInv, TypeOK, responses, reviews, Rounds, Respondents
<1>5. NotCoder'
  BY <1>1, <1>2 DEF IInv, NotCoder, responses, Rounds, Open
<1>6. MayCompare'
  <2>1. ASSUME Only(Automatic), NEW m \in Members, NEW r \in Rounds,
               work'[Row(m, r)] = "pendente"
        PROVE  m \in can'
    <3>1. work[Row(m, r)] = "pendente" /\ m \in can
      BY <1>2, <2>1 DEF IInv, MayCompare
    <3>2. CASE enabled  BY <1>1, <3>1, <3>2
    <3>3. CASE ~enabled
      <4>1. m = u => Row(m, r) \in Released(u, enabled)
        BY <3>1, <3>3 DEF Released, Row
      <4> QED  BY <1>1, <1>2, <2>1, <3>1, <3>3, <4>1
    <3> QED  BY <3>2, <3>3
  <2> QED  BY <1>1, <2>1 DEF MayCompare, Only, Rounds
<1>7. StaysInScope'  BY <1>1 DEF IInv, StaysInScope
<1>8. CallFits(Automation, scope, Judges')  BY AutomationFits
<1> QED  BY <1>1, <1>3, <1>4, <1>5, <1>6, <1>7, <1>8, Step DEF Go

\* The cycle of an assignment is read.
LEMMA ReadCycleStep ==
  ASSUME IInv, NEW s \in Sessions, NEW m \in Members, ReadCycle(s, m)
  PROVE  IInv'
<1> DEFINE held == {t \in Types : work[<<t, m, round>>] # "none"}
           stage == IF held = {} THEN "derive"
                    ELSE IF held = {"codificacao"} THEN "promote" ELSE "remove"
           c == [Idle EXCEPT !.op = "cycle", !.who = m, !.round = round, !.pool = held,
                             !.at = stage]
<1>1. /\ Go(s, c) /\ begun' \in Nat /\ "cycle" \in scope.operations
      /\ UNCHANGED <<scope, settings, responses, rows, reviews>>
  BY DEF ReadCycle, Begin, IInv, TypeOK
<1>2. IsCall(c) /\ c.at = stage /\ c.who = m /\ c.round = round
  BY IdleFits DEF IsCall, Columns
<1>3. stage \in {"derive", "promote", "remove"}  OBVIOUS
<1>4. round \in 1..scope.rounds  BY DEF IInv, TypeOK, Rounds
<1> HIDE DEF c, stage
<1>5. CallFits(c, scope, Judges)  BY <1>1, <1>2, <1>3, <1>4 DEF CallFits
<1> QED  BY <1>1, <1>5, ThinkStep

\* The status of the new coding is derived.
LEMMA DeriveStatusStep ==
  ASSUME IInv, NEW s \in Sessions, DeriveStatus(s)
  PROVE  IInv'
<1> DEFINE c == [calls[s] EXCEPT !.at = "insert", !.seen = InitialStatus(calls[s].who)]
<1>1. /\ calls[s].at = "derive" /\ CallFits(calls[s], scope, Judges) /\ Go(s, c)
      /\ UNCHANGED <<scope, begun, settings, responses, rows, reviews>>
  BY CallIs DEF DeriveStatus, At
<1>2. IsCall(c) /\ c.at = "insert" /\ c.seen = InitialStatus(calls[s].who)
  BY <1>1 DEF CallFits, IsCall, Columns
<1>3. InitialStatus(calls[s].who) \in Statuses \ {"none"}
  BY DEF InitialStatus, Statuses, Open
<1>4. begun' \in Nat  BY <1>1 DEF IInv, TypeOK
<1> HIDE DEF c
<1>5. CallFits(c, scope, Judges)  BY <1>1, <1>2, <1>3 DEF CallFits
<1> QED  BY <1>1, <1>4, <1>5, ThinkStep

\* The coding is inserted.
LEMMA InsertCodingStep ==
  ASSUME IInv, NEW s \in Sessions, InsertCoding(s)
  PROVE  IInv'
<1>1. /\ calls[s].at = "insert" /\ CallFits(calls[s], scope, Judges) /\ Go(s, Idle)
      /\ UNCHANGED <<scope, begun, settings, responses, reviews>>
  BY CallIs DEF InsertCoding, At
<1>2. begun' \in Nat  BY <1>1 DEF IInv, TypeOK
<1>3. CASE UNCHANGED rows  BY <1>1, <1>2, <1>3, IdleFits, ThinkStep
<1>4. CASE Set("codificacao", calls[s].who, round, calls[s].seen)
  <2>1. calls[s].seen \in Statuses  BY <1>1 DEF CallFits
  <2>2. /\ work' \in [Types \X Members \X Rounds -> Statuses]
        /\ \A u \in Members, q \in Rounds : work'[Row(u, q)] = work[Row(u, q)]
    BY <1>4, <2>1, SetCoding
  <2> QED  BY <1>1, <1>2, <2>2, IdleFits, RowStep
<1> QED  BY <1>3, <1>4 DEF InsertCoding

\* A coding becomes a comparison, unless the trigger refuses it.
LEMMA PromoteStep ==
  ASSUME IInv, NEW s \in Sessions, Promote(s)
  PROVE  IInv'
<1> DEFINE m == calls[s].who
           r == calls[s].round
           status == work[<<"codificacao", m, r>>]
<1>1. /\ calls[s].at = "promote" /\ CallFits(calls[s], scope, Judges) /\ Go(s, Idle)
      /\ UNCHANGED <<scope, begun, settings, responses, reviews>>
  BY CallIs DEF Promote, At
<1>2. begun' \in Nat  BY <1>1 DEF IInv, TypeOK
<1>3. CASE UNCHANGED rows  BY <1>1, <1>2, <1>3, IdleFits, ThinkStep
<1>4. CASE /\ ~Refused("comparacao", m, r, status)
           /\ work' = [work EXCEPT ![<<"codificacao", m, r>>] = "none",
                                   ![<<"comparacao", m, r>>] = status]
  <2>1. m \in Members /\ r \in Rounds /\ ~Only(Automatic)
    BY <1>1 DEF CallFits, Rounds, Only, Automatic
  <2>2. work \in [Types \X Members \X Rounds -> Statuses]  BY DEF IInv, TypeOK
  <2>3. /\ <<"codificacao", m, r>> \in Types \X Members \X Rounds
        /\ \A u \in Members, q \in Rounds :
             /\ Row(u, q) \in Types \X Members \X Rounds
             /\ Row(u, q) # <<"codificacao", m, r>>
             /\ Row(u, q) = Row(m, r) <=> u = m /\ q = r
    BY <2>1 DEF Row, Types
  <2>4. status \in Statuses /\ "none" \in Statuses  BY <2>2, <2>3 DEF Statuses
  <2>5. status \in Open => coding[m] = Null  BY <1>4 DEF Refused
  <2>6. work' = [work EXCEPT ![<<"codificacao", m, r>>] = "none", ![Row(m, r)] = status]
    BY <1>4 DEF Row
  <2> HIDE DEF m, r, status
  <2>7. work' \in [Types \X Members \X Rounds -> Statuses]
    BY <2>2, <2>4, <2>6
  <2>8. \A u \in Members, q \in Rounds :
          \/ work'[Row(u, q)] = work[Row(u, q)]
          \/ u = m /\ q = r /\ work'[Row(u, q)] = status
    BY <2>2, <2>3, <2>6
  <2> QED  BY <1>1, <1>2, <2>1, <2>5, <2>7, <2>8, IdleFits, RowStep
<1> QED  BY <1>3, <1>4 DEF Promote

\* The rows of the cycle are removed.
LEMMA RemoveRowsStep ==
  ASSUME IInv, NEW s \in Sessions, RemoveRows(s)
  PROVE  IInv'
<1>1. /\ Go(s, Idle) /\ UNCHANGED <<scope, begun, settings, responses, reviews>>
      /\ \E gone : Drop(gone)
  BY DEF RemoveRows, At
<1>2. begun' \in Nat  BY <1>1 DEF IInv, TypeOK
<1>3. /\ work' \in [Types \X Members \X Rounds -> Statuses]
      /\ \A m \in Members, r \in Rounds :
           work'[Row(m, r)] \in {work[Row(m, r)], "none", "concluido"}
  BY <1>1, DropRows
<1> QED  BY <1>1, <1>2, <1>3, IdleFits, FewerRowsStep

\* The pending rows of a type are deleted.
LEMMA ClearPendingStep ==
  ASSUME IInv, NEW s \in Sessions, NEW t \in Types, ClearPending(s, t)
  PROVE  IInv'
<1>1. /\ scope' = scope /\ begun' \in Nat /\ calls' = calls
      /\ UNCHANGED <<settings, responses, reviews>> /\ \E gone : Drop(gone)
  BY DEF ClearPending, Begin, IInv, TypeOK
<1>2. CallFits(calls[s], scope, Judges) /\ Go(s, calls[s])
  BY <1>1, CallIs DEF Go
<1>3. /\ work' \in [Types \X Members \X Rounds -> Statuses]
      /\ \A m \in Members, r \in Rounds :
           work'[Row(m, r)] \in {work[Row(m, r)], "none", "concluido"}
  BY <1>1, DropRows
<1> QED  BY <1>1, <1>2, <1>3, FewerRowsStep

-----------------------------------------------------------------------------
\* The draw.

\* The sequence of a finite set has its elements.
LEMMA SequenceOf ==
  ASSUME NEW S, IsFiniteSet(S)
  PROVE  SetToSeq(S) \in [1..Cardinality(S) -> S]
<1>1. ExistsBijection(1..Cardinality(S), S)  BY FS_CardinalityType
<1>2. \E f \in [1..Cardinality(S) -> S] : IsInjective(f)
  BY <1>1 DEF ExistsBijection, Bijection, Injection
<1> QED  BY <1>2 DEF SetToSeq

\* The plan of a draw.
LEMMA PlanOf ==
  ASSUME NEW drawn \in SUBSET Members, NEW born \in [Members -> Statuses \ {"none"}]
  PROVE  LET plan == SetToSeq({<<m, born[m]>> : m \in drawn})
         IN  /\ IsPlan(plan) /\ (drawn # {} => ToSet(ToUsers(plan)) \cap Members # {})
             /\ \A status : (\A m \in drawn : born[m] = status) =>
                  \A i \in DOMAIN plan : plan[i][2] = status
<1> DEFINE P == {<<m, born[m]>> : m \in drawn}
           f == [m \in drawn |-> <<m, born[m]>>]
<1>1. IsFiniteSet(drawn)  BY ComparisonAssumption, FS_Subset
<1>2. f \in Surjection(drawn, P)  BY DEF Surjection
<1>3. IsFiniteSet(P)
  <2> HIDE DEF f, P
  <2> QED  BY <1>1, <1>2, FS_Surjection
<1>4. \A p \in P : p[1] \in Members /\ p[2] \in Statuses \ {"none"}
  BY DEF Statuses, Open
<1>9. ASSUME NEW status, \A m \in drawn : born[m] = status
      PROVE  \A p \in P : p[2] = status
  BY <1>9
<1> HIDE DEF P
<1>5. SetToSeq(P) \in [1..Cardinality(P) -> P]  BY <1>3, SequenceOf
<1>6. \A i \in DOMAIN SetToSeq(P) : SetToSeq(P)[i] \in P  BY <1>5
<1>7. IsPlan(SetToSeq(P))  BY <1>4, <1>6 DEF IsPlan
<1>8. ASSUME drawn # {}
      PROVE  ToSet(ToUsers(SetToSeq(P))) \cap Members # {}
  <2>1. P # {}  BY <1>8 DEF P
  <2>2. 1 \in 1..Cardinality(P)
    <3>1. Cardinality(P) \in Nat /\ Cardinality(P) # 0
      BY <1>3, <2>1, FS_CardinalityType, FS_EmptySet
    <3> QED  BY <3>1
  <2>3. 1 \in DOMAIN SetToSeq(P) /\ SetToSeq(P)[1] \in P  BY <1>5, <2>2
  <2>4. SetToSeq(P)[1][1] \in ToSet(ToUsers(SetToSeq(P)))
    BY <2>3 DEF ToSet, ToUsers
  <2> QED  BY <1>4, <2>3, <2>4
<1>10. ASSUME NEW status, \A m \in drawn : born[m] = status
       PROVE  \A i \in DOMAIN SetToSeq(P) : SetToSeq(P)[i][2] = status
  BY <1>6, <1>9, <1>10
<1> QED  BY <1>7, <1>8, <1>10 DEF P

\* A draw is computed; the draw of a round leaves a round to go to.
LEMMA DrawStep ==
  ASSUME IInv, NEW s \in Sessions, NEW t \in Types, NEW drawn \in SUBSET Members,
         NEW replace \in BOOLEAN, NEW fresh \in BOOLEAN, Draw(s, t, drawn, replace, fresh)
  PROVE  IInv'
<1> DEFINE name == IF fresh THEN "round" ELSE "draw"
           first == t = "comparacao" \/ fresh
           plan == SetToSeq({<<m, IF first THEN "pendente" ELSE InitialStatus(m)>> : m \in drawn})
           c == [Idle EXCEPT !.op = name, !.at = "apply", !.round = round, !.field = t,
                             !.flag = replace, !.count = OpenWork, !.todo = plan]
<1>1. /\ Go(s, c) /\ begun' \in Nat /\ name \in scope.operations
      /\ fresh => round < scope.rounds
      /\ UNCHANGED <<scope, settings, responses, rows, reviews>>
  BY DEF Draw, Begin, IInv, TypeOK
<1>2. /\ IsPlan(plan) /\ ToSet(ToUsers(plan)) \cap Members # {}
      /\ t = "comparacao" => \A i \in DOMAIN plan : plan[i][2] = "pendente"
  <2> DEFINE born == [m \in Members |-> IF first THEN "pendente" ELSE InitialStatus(m)]
  <2>1. born \in [Members -> Statuses \ {"none"}]
    BY DEF InitialStatus, Statuses, Open
  <2>2. {<<m, born[m]>> : m \in drawn}
         = {<<m, IF first THEN "pendente" ELSE InitialStatus(m)>> : m \in drawn}
    OBVIOUS
  <2>3. drawn # {}
    <3>1. Cardinality(drawn) >= 1  BY DEF Draw
    <3> QED  BY <3>1, FS_EmptySet
  <2>5. t = "comparacao" => \A m \in drawn : born[m] = "pendente"  OBVIOUS
  <2> HIDE DEF born
  <2>4. LET p == SetToSeq({<<m, born[m]>> : m \in drawn})
        IN  /\ IsPlan(p) /\ (drawn # {} => ToSet(ToUsers(p)) \cap Members # {})
            /\ (\A m \in drawn : born[m] = "pendente") =>
                 \A i \in DOMAIN p : p[i][2] = "pendente"
    BY <2>1, PlanOf
  <2> QED  BY <2>2, <2>3, <2>4, <2>5
<1>3. /\ IsCall(c) /\ c.at = "apply" /\ c.op = name /\ c.round = round /\ c.todo = plan
      /\ c.field = t
  BY IdleFits DEF IsCall, Columns
<1>4. fresh => round + 1 \in 1..scope.rounds
  <2>1. scope.rounds \in Nat /\ round \in 1..scope.rounds
    BY ComparisonAssumption DEF IInv, TypeOK, Rounds
  <2> QED  BY <1>1, <2>1
<1>5. /\ name \in {"draw", "round"} /\ (name = "round" => fresh)
      /\ t = "comparacao" => name = "draw"
  BY DEF Draw
<1>6. ~Only(Automatic)  BY <1>1, <1>5 DEF Only, Automatic
<1> HIDE DEF c, plan, name
<1>7. CallFits(c, scope, Judges)
  BY <1>1, <1>2, <1>3, <1>4, <1>5 DEF CallFits
<1> QED  BY <1>1, <1>7, ThinkStep

\* The plan is inserted under the rules of the round, or nothing is.
LEMMA ApplyStep ==
  ASSUME IInv, NEW s \in Sessions, Apply(s)
  PROVE  IInv'
<1> DEFINE c == calls[s]
           target == IF c.op = "round" THEN round + 1 ELSE round
           users == ToSet(ToUsers(c.todo))
           born(m) == CHOOSE i \in DOMAIN c.todo : c.todo[i][1] = m
<1>1. /\ c.at = "apply" /\ CallFits(c, scope, Judges) /\ Go(s, Idle)
      /\ UNCHANGED <<scope, begun, inScope, can, verdicts, noted>>
  BY CallIs DEF Apply, At
<1>2. begun' \in Nat  BY <1>1 DEF IInv, TypeOK
<1>3. /\ c.op \in {"draw", "round"} /\ IsPlan(c.todo) /\ ~Only(Automatic)
      /\ c.op = "round" => c.round + 1 \in 1..scope.rounds
  BY <1>1 DEF CallFits, Only, Automatic
<1>4. CASE UNCHANGED <<round, responses, rows, pairs>>
  <2>1. UNCHANGED <<scope, settings, responses, rows, reviews>>
    BY <1>1, <1>4 DEF settings, reviews
  <2> QED  BY <1>1, <1>2, <2>1, IdleFits, ThinkStep
<1>5. CASE /\ Applies(c) /\ round' = target
           /\ work' = [x \in DOMAIN work |->
                IF x[1] = c.field /\ x[3] = target /\ x[2] \in users
                THEN c.todo[born(x[2])][2] ELSE Cleared(c)[x]]
           /\ IF c.op = "round"
              THEN coding' = [m \in Members |-> Null] /\ llm' = Null /\ behind' = {} /\ pairs' = {}
              ELSE UNCHANGED <<responses, pairs>>
  <2>1. work \in [Types \X Members \X Rounds -> Statuses]  BY DEF IInv, TypeOK
  <2>2. \A m \in users : c.todo[born(m)][2] \in Statuses \ {"none"}
    <3>1. \A m \in users : \E i \in DOMAIN c.todo : c.todo[i][1] = m
      BY DEF ToSet, ToUsers
    <3>2. \A m \in users : born(m) \in DOMAIN c.todo  BY <3>1
    <3> QED  BY <1>3, <3>2 DEF IsPlan
  <2>3. \A x \in Types \X Members \X Rounds :
          Cleared(c)[x] \in Statuses /\ Cleared(c)[x] \in {work[x], "none"}
    BY <2>1 DEF Cleared, Statuses
  <2>4. round' \in Rounds
    <3>1. round \in Rounds /\ c.round = round  BY <1>5 DEF IInv, TypeOK, Applies
    <3> QED  BY <1>3, <1>5, <3>1 DEF Rounds
  <2>5. work' \in [Types \X Members \X Rounds -> Statuses]
    <3> HIDE DEF born, users, target
    <3> QED  BY <1>5, <2>1, <2>2, <2>3
  <2>6. /\ coding' \in [Members -> Codings \cup {Null}] /\ llm' \in Codings \cup {Null}
        /\ behind' \subseteq Respondents
        /\ pairs' \subseteq [field : Fields, ends : SUBSET Respondents, owner : Members]
    BY <1>5 DEF IInv, TypeOK, responses
  <2>7. TypeOK'
    BY <1>1, <1>2, <2>4, <2>5, <2>6 DEF IInv, TypeOK, Rounds, Respondents
  <2>8. NotCoder'
    <3>1. ASSUME NEW m \in Members, NEW r \in Rounds, work'[Row(m, r)] \in Open
          PROVE  coding'[m] = Null
      <4>1. CASE c.op = "round"  BY <1>5, <4>1
      <4>2. CASE c.op # "round"
        <5>1. coding' = coding /\ c.op = "draw" /\ target = round
          BY <1>3, <1>5, <4>2 DEF responses
        <5>2. Row(m, r) \in Types \X Members \X Rounds
          BY DEF Row, Types
        <5>3. CASE c.field = "comparacao" /\ m \in users
          BY <1>5, <5>1, <5>3 DEF Applies
        <5>4. CASE ~(c.field = "comparacao" /\ m \in users)
          <6>1. work'[Row(m, r)] = Cleared(c)[Row(m, r)]
            <7> HIDE DEF c, users, born
            <7> QED  BY <1>5, <2>1, <5>2, <5>4 DEF Row
          <6>2. work[Row(m, r)] \in Open
            BY <2>3, <3>1, <5>2, <6>1 DEF Open
          <6> QED  BY <5>1, <6>2 DEF IInv, NotCoder
        <5> QED  BY <5>3, <5>4
      <4> QED  BY <4>1, <4>2
    <3> QED  BY <1>1, <3>1 DEF NotCoder, Rounds
  <2>9. MayCompare' /\ StaysInScope'
    BY <1>1, <1>3 DEF IInv, MayCompare, StaysInScope, Only
  <2>10. Judges' = Judges  BY <1>1 DEF Judges, Reviewed
  <2> QED  BY <1>1, <2>7, <2>8, <2>9, <2>10, IdleFits, Step DEF Go
<1> QED  BY <1>4, <1>5 DEF Apply

-----------------------------------------------------------------------------
\* What happens to the document from outside.

\* An LLM response is published.
LEMMA PublishLlmStep ==
  ASSUME IInv, NEW s \in Sessions, NEW a \in scope.inputs, PublishLlm(s, a)
  PROVE  IInv'
<1>1. /\ scope' = scope /\ begun' \in Nat /\ calls' = calls
      /\ llm' = a /\ behind' \subseteq behind /\ pairs' \subseteq pairs
      /\ UNCHANGED <<settings, coding, rows, verdicts, noted>>
  BY DEF PublishLlm, Begin, IInv, TypeOK
<1>2. CallFits(calls[s], scope, Judges) /\ calls' = [calls EXCEPT ![s] = calls[s]]
  BY <1>1, CallIs
<1>3. a \in Codings  BY ComparisonAssumption DEF IInv, TypeOK
<1>4. TypeOK'
  BY <1>1, <1>3 DEF IInv, TypeOK, settings, rows, Rounds, Respondents
<1>5. NotCoder' /\ MayCompare' /\ StaysInScope' /\ Judges' = Judges
  BY <1>1 DEF IInv, NotCoder, MayCompare, StaysInScope, settings, rows, Rounds, Only,
              Judges, Reviewed
<1> QED  BY <1>1, <1>2, <1>4, <1>5, Step

\* The version floor moves.
LEMMA RaiseFloorStep ==
  ASSUME IInv, NEW s \in Sessions, RaiseFloor(s)
  PROVE  IInv'
<1>1. /\ scope' = scope /\ begun' \in Nat /\ calls' = calls
      /\ behind' \subseteq Respondents
      /\ UNCHANGED <<settings, coding, llm, rows, reviews>>
  BY DEF RaiseFloor, Begin, IInv, TypeOK
<1>2. CallFits(calls[s], scope, Judges) /\ calls' = [calls EXCEPT ![s] = calls[s]]
  BY <1>1, CallIs
<1>3. TypeOK'
  BY <1>1 DEF IInv, TypeOK, settings, rows, reviews, Rounds, Respondents
<1>4. NotCoder' /\ MayCompare' /\ StaysInScope' /\ Judges' = Judges
  BY <1>1 DEF IInv, NotCoder, MayCompare, StaysInScope, settings, rows, reviews, Rounds,
              Only, Judges, Reviewed
<1> QED  BY <1>1, <1>2, <1>3, <1>4, Step

\* The document is replaced.
LEMMA ReplaceDocumentStep ==
  ASSUME IInv, NEW s \in Sessions, ReplaceDocument(s)
  PROVE  IInv'
<1>1. /\ scope' = scope /\ begun' \in Nat /\ calls' = calls
      /\ "replace" \in scope.operations
      /\ coding' = [m \in Members |-> Null] /\ llm' = Null /\ behind' = {}
      /\ verdicts' = [m \in Members |-> [f \in Fields |-> Null]] /\ pairs' = {}
      /\ UNCHANGED <<settings, noted>>
  BY DEF ReplaceDocument, Begin, IInv, TypeOK
<1>2. CallFits(calls[s], scope, Judges) /\ calls' = [calls EXCEPT ![s] = calls[s]]
  BY <1>1, CallIs
<1>3. ~Only(Automatic)  BY <1>1 DEF Only, Automatic
<1>4. work' \in [Types \X Members \X Rounds -> Statuses]
  <2>1. work \in [Types \X Members \X Rounds -> Statuses]  BY DEF IInv, TypeOK
  <2>2. work' = [x \in Types \X Members \X Rounds |->
           IF work[x] = "none" \/ (x[1] = "comparacao" /\ work[x] = "concluido")
           THEN work[x] ELSE "pendente"]
    BY <2>1 DEF ReplaceDocument
  <2> QED  BY <2>1, <2>2 DEF Statuses, Open
<1>5. TypeOK'
  BY <1>1, <1>4 DEF IInv, TypeOK, settings, Rounds, Respondents
<1>6. NotCoder' /\ MayCompare' /\ StaysInScope'
  BY <1>1, <1>3 DEF IInv, NotCoder, MayCompare, StaysInScope, settings, Rounds, Only
<1>7. CallFits(calls[s], scope, Judges')  BY <1>2, <1>3, FitsMore DEF Only
<1> QED  BY <1>1, <1>2, <1>3, <1>5, <1>6, <1>7, Step

\* The document is excluded, or comes back.
LEMMA ToggleScopeStep ==
  ASSUME IInv, NEW s \in Sessions, ToggleScope(s)
  PROVE  IInv'
<1>1. /\ scope' = scope /\ begun' \in Nat /\ calls' = calls
      /\ "scope" \in scope.operations /\ inScope' \in BOOLEAN
      /\ UNCHANGED <<round, can, responses, rows, reviews>>
  BY DEF ToggleScope, Begin, IInv, TypeOK
<1>2. CallFits(calls[s], scope, Judges) /\ calls' = [calls EXCEPT ![s] = calls[s]]
  BY <1>1, CallIs
<1>3. TypeOK'
  BY <1>1 DEF IInv, TypeOK, responses, rows, reviews, Rounds, Respondents
<1>4. NotCoder' /\ MayCompare' /\ Judges' = Judges
  BY <1>1 DEF IInv, NotCoder, MayCompare, responses, rows, reviews, Rounds, Only,
              Judges, Reviewed
<1>5. StaysInScope'  BY <1>1 DEF StaysInScope, Unattended
<1> QED  BY <1>1, <1>2, <1>3, <1>4, <1>5, Step

-----------------------------------------------------------------------------
\* The theorems.

\* At first no call runs, and the scope keeps its rows.
LEMMA InitInv == Init => IInv
<1> SUFFICES ASSUME Init PROVE IInv
  OBVIOUS
<1>1. scope \in Scopes /\ 1 \in Rounds
  BY ComparisonAssumption DEF Init, Rounds
<1>2. work = [x \in Types \X Members \X Rounds |->
         IF x[3] # 1 THEN "none"
         ELSE IF x[1] = "codificacao" THEN scope.codings[x[2]] ELSE scope.comparisons[x[2]]]
  BY DEF Init
<1>3. scope.codings \in [Members -> Statuses] /\ scope.comparisons \in [Members -> Statuses]
  BY <1>1, ComparisonAssumption
<1>4. work \in [Types \X Members \X Rounds -> Statuses]
  BY <1>2, <1>3 DEF Statuses
<1>5. \A m \in Members, r \in Rounds :
        work[Row(m, r)] = IF r # 1 THEN "none" ELSE scope.comparisons[m]
  <2>1. \A m \in Members, r \in Rounds : Row(m, r) \in Types \X Members \X Rounds
    BY DEF Row, Types
  <2> QED  BY <1>2, <2>1 DEF Row
<1>6. TypeOK
  <2>1. /\ scope.can \subseteq Members
        /\ scope.coding \in [Members -> Codings \cup {Null}]
        /\ scope.llm \in Codings \cup {Null}
        /\ scope.verdicts \in [Members -> [Fields -> scope.kinds \cup {Null}]]
    BY <1>1, ComparisonAssumption
  <2> QED  BY <1>1, <1>4, <2>1 DEF Init, TypeOK
<1>7. CallsFit  BY IdleFits DEF Init, CallsFit
<1>8. NotCoder
  <2>1. \A m \in Members : scope.comparisons[m] \in Open => scope.coding[m] = Null
    BY <1>1, ComparisonAssumption
  <2>2. coding = scope.coding /\ "none" \notin Open  BY DEF Init, Open
  <2> QED  BY <1>5, <2>1, <2>2 DEF NotCoder
<1>9. MayCompare
  <2>1. Only(Automatic) => \A m \in Members : scope.comparisons[m] = "pendente" => m \in scope.can
    BY <1>1, ComparisonAssumption DEF Only
  <2>2. can = scope.can  BY DEF Init
  <2>3. SUFFICES ASSUME Only(Automatic), NEW m \in Members, NEW r \in Rounds,
                        work[Row(m, r)] = "pendente"
                 PROVE  m \in can
    BY DEF MayCompare
  <2>4. scope.comparisons[m] = "pendente"
    <3>1. work[Row(m, r)] = IF r # 1 THEN "none" ELSE scope.comparisons[m]  BY <1>5
    <3> QED  BY <3>1, <2>3
  <2> QED  BY <2>1, <2>2, <2>3, <2>4
<1>10. StaysInScope  BY DEF Init, StaysInScope
<1> QED  BY <1>6, <1>7, <1>8, <1>9, <1>10 DEF IInv

\* Every step of every call keeps the invariant.
LEMMA NextInv == IInv /\ [Next]_vars => IInv'
<1> SUFFICES ASSUME IInv, [Next]_vars PROVE IInv'
  OBVIOUS
<1>1. CASE UNCHANGED vars
  <2>1. Judges' = Judges  BY <1>1 DEF vars, Judges, Reviewed
  <2> QED
    BY <1>1, <2>1 DEF vars, IInv, TypeOK, CallsFit, NotCoder, MayCompare, StaysInScope,
                     Rounds, Respondents, Only, rows, responses, reviews, settings
<1>2. ASSUME NEW s \in Sessions, Start(s)  PROVE IInv'
  BY <1>2, SaveStep, SubmitVerdictStep, ConfirmEquivalentStep, UnmarkPairStep,
     MarkReviewedStep, ReadCycleStep, PermitStep, ClearPendingStep, DrawStep,
     PublishLlmStep, RaiseFloorStep, ReplaceDocumentStep, ToggleScopeStep DEF Start
<1>3. ASSUME NEW s \in Sessions, Continue(s)  PROVE IInv'
  BY <1>3, SetCodingStatusStep, AnalyseStep, ChooseReviewerStep, AssignReviewerStep,
     ReadCommentStep, WriteCommentStep, ConfirmVerdictStep, ListReviewersStep,
     ReadRowStep, ReadDataStep, WriteStatusStep, DeriveStatusStep, InsertCodingStep,
     PromoteStep, RemoveRowsStep, ApplyStep DEF Continue
<1> QED  BY <1>1, <1>2, <1>3 DEF Next

\* The invariant of every behaviour.
THEOREM Invariance == Spec => []IInv
BY InitInv, NextInv, PTL DEF Spec

\* Every variable keeps its type.
THEOREM TypeCorrect == Spec => []TypeOK
<1>1. IInv => TypeOK  BY DEF IInv
<1> QED  BY <1>1, Invariance, PTL

\* Whoever holds an open comparison of the document did not code it, whatever
\* ran at once: saves, draws, promotions and reopenings.
THEOREM CodersDoNotReview == Spec => []ReviewerIsNotCoder
<1>1. IInv => ReviewerIsNotCoder  BY ByRow DEF IInv
<1> QED  BY <1>1, Invariance, PTL

\* With the automation alone, a comparison nobody started is held by a member who
\* may compare.
THEOREM PendingMayCompare == Spec => []PendingReviewersMayCompare
<1>1. IInv => PendingReviewersMayCompare  BY ByRow DEF IInv
<1> QED  BY <1>1, Invariance, PTL

-----------------------------------------------------------------------------
\* No document is forgotten.

\* A divergent document without any comparison, which some member could take.
Backlog ==
  /\ scope.mode # "none" /\ scope.operations \cap Unattended = {}
  /\ NeedsReviewer /\ Reviewers = {} /\ Eligible(Coders) # {}

\* A call that gives such a document a reviewer, if nothing changes before: one
\* that is still to analyse it, or has done so with all the coders there are.
Useful(c, coders, allowed) ==
  \/ c.at = "status" /\ c.seen = "code"
  \/ c.at = "analyse"
  \/ c.at = "choose" /\ c.pool = coders
  \/ c.at = "assign" /\ c.who \in allowed \ coders

Attended == Backlog => \E s \in Sessions : Useful(calls[s], Coders, can)

\* The property is what is left when no call runs.
LEMMA AttendedHasACause == Attended => BacklogHasACause
<1> SUFFICES ASSUME Attended, Quiet, Backlog PROVE FALSE
  BY DEF BacklogHasACause, Backlog
<1>1. PICK s \in Sessions : Useful(calls[s], Coders, can)  BY DEF Attended
<1>2. calls[s] = Idle  BY DEF Quiet
<1> QED  BY <1>1, <1>2, IdleFits DEF Useful

\* Equivalences only take divergences away.
LEMMA NeedsLess ==
  ASSUME UNCHANGED <<scope, responses>>, pairs \subseteq pairs', NeedsReviewer'
  PROVE  NeedsReviewer
<1>1. UNCHANGED <<scope, coding, llm, behind>>  BY DEF responses
<1>2. \A r : Response(r)' = Response(r)  BY <1>1 DEF Response
<1>3. Qualified' = Qualified  BY <1>1 DEF Qualified, Response, Respondents
<1>4. Compared' = Compared  BY <1>1, <1>3 DEF Compared, Complete
<1>5. EnoughHumans' = EnoughHumans  BY <1>1, <1>4 DEF EnoughHumans
<1>6. ASSUME NEW f, NEW a, NEW b, Agree(f, a, b)
      PROVE  Agree(f, a, b)'
  BY <1>1, <1>6 DEF Agree, Response
<1>7. DivergentFields(Compared)' \subseteq DivergentFields(Compared)
  BY <1>4, <1>6 DEF DivergentFields
<1> QED  BY <1>1, <1>4, <1>5, <1>7 DEF NeedsReviewer

\* The reviewers are those of the rows.
LEMMA SameReviewers ==
  ASSUME scope' = scope, \A m \in Members, r \in Rounds : work'[Row(m, r)] = work[Row(m, r)]
  PROVE  Reviewers' = Reviewers
BY DEF Reviewers, RowsOf, Rounds, Row

\* A step that leaves the responses and the comparisons, after which the call of
\* its session is useful if it was.
LEMMA StaysAttended ==
  ASSUME IInv, Attended, Backlog', NEW s \in Sessions, NEW c, Go(s, c),
         UNCHANGED <<scope, can, responses>>, pairs \subseteq pairs',
         \A m \in Members, r \in Rounds : work'[Row(m, r)] = work[Row(m, r)],
         Backlog /\ Useful(calls[s], Coders, can) => Useful(c, Coders, can)
  PROVE  Attended'
<1>1. Coders' = Coders  BY DEF Coders, responses
<1>2. Reviewers' = Reviewers  BY SameReviewers
<1>3. NeedsReviewer  BY NeedsLess DEF Backlog
<1>4. Backlog  BY <1>1, <1>2, <1>3 DEF Backlog, Eligible
<1>5. PICK t \in Sessions : Useful(calls[t], Coders, can)  BY <1>4 DEF Attended
<1>6. calls'[t] = IF t = s THEN c ELSE calls[t]  BY DEF Go, IInv, CallsFit
<1>7. Useful(calls'[t], Coders, can)  BY <1>4, <1>5, <1>6
<1> QED  BY <1>1, <1>7 DEF Attended

\* A call that starts was idle; one that is elsewhere is no use either.
LEMMA NotUseful ==
  ASSUME IInv, Attended, Backlog', NEW s \in Sessions, NEW c, Go(s, c),
         UNCHANGED <<scope, can, responses>>, pairs \subseteq pairs',
         \A m \in Members, r \in Rounds : work'[Row(m, r)] = work[Row(m, r)],
         calls[s].at \notin {"status", "analyse", "choose", "assign"}
  PROVE  Attended'
<1>1. ~Useful(calls[s], Coders, can)  BY DEF Useful
<1> QED  BY <1>1, StaysAttended

\* Some member has a comparison.
LEMMA HasReviewer ==
  ASSUME NEW m \in Members, NEW r \in Rounds, work[Row(m, r)] # "none"
  PROVE  Reviewers # {}
BY DEF Reviewers, RowsOf, Row

\* The first stages of the automation: status, analyse, choose, assign.
LEMMA AutomationAttends ==
  ASSUME IInv, Attended, Backlog', NEW s \in Sessions,
         SetCodingStatus(s) \/ Analyse(s) \/ ChooseReviewer(s) \/ AssignReviewer(s)
  PROVE  Attended'
<1>1. CASE SetCodingStatus(s)
  <2> DEFINE c == IF calls[s].seen = "code" THEN Automation ELSE Idle
             d == calls[s]
             row == work[<<"codificacao", d.who, d.round>>]
             next == IF row = "none" THEN row
                     ELSE IF d.seen # "draft" THEN "concluido"
                     ELSE IF row = "concluido" THEN row ELSE "em_andamento"
  <2>1. /\ Go(s, c) /\ d.at = "status" /\ Set("codificacao", d.who, d.round, next)
        /\ UNCHANGED <<scope, settings, responses, reviews>>
    BY <1>1 DEF SetCodingStatus, At
  <2>2. CallFits(d, scope, Judges)  BY CallIs
  <2>3. row \in Statuses
    <3>1. <<"codificacao", d.who, d.round>> \in Types \X Members \X Rounds
      BY <2>1, <2>2 DEF CallFits, Types, Rounds
    <3> QED  BY <3>1 DEF IInv, TypeOK
  <2>4. next \in Statuses  BY <2>3 DEF Statuses, Open
  <2>5. \A m \in Members, r \in Rounds : work'[Row(m, r)] = work[Row(m, r)]
    <3> HIDE DEF d, next
    <3> QED  BY <2>1, <2>4, SetCoding
  <2>6. Useful(d, Coders, can) => Useful(c, Coders, can)
    <3>1. scope.mode # "none"  BY <2>1 DEF Backlog
    <3>2. Automation.at = "analyse"  BY <3>1, IdleFits DEF Automation, IsCall, Columns
    <3> QED  BY <2>1, <3>2 DEF Useful
  <2> HIDE DEF c
  <2>7. UNCHANGED <<scope, can, responses>> /\ pairs \subseteq pairs'
    BY <2>1 DEF settings, reviews
  <2> QED  BY <2>1, <2>5, <2>6, <2>7, StaysAttended
<1>2. CASE ~SetCodingStatus(s) /\ ~AssignReviewer(s)
  <2>1. /\ UNCHANGED <<scope, can, responses>> /\ pairs \subseteq pairs'
        /\ \A m \in Members, r \in Rounds : work'[Row(m, r)] = work[Row(m, r)]
    BY <1>2 DEF Analyse, ChooseReviewer, At, settings, reviews, rows
  <2>2. CallFits(calls[s], scope, Judges)  BY CallIs
  <2>3. CASE Analyse(s)
    <3> DEFINE c == [calls[s] EXCEPT !.at = "choose", !.pool = KnownCoders]
               d == IF inScope /\ ActiveComparisons = {} /\ NeedsReviewer THEN c ELSE Idle
    <3>1. Go(s, d)  BY <2>3 DEF Analyse
    <3>2. c.at = "choose" /\ c.pool = Coders
      BY <2>2 DEF CallFits, IsCall, Columns, KnownCoders
    <3>3. Backlog => d = c
      <4>1. Backlog => inScope  BY DEF IInv, StaysInScope, Backlog
      <4>2. Reviewers = {} => ActiveComparisons = {}
        <5>1. ASSUME NEW x \in ActiveComparisons PROVE Reviewers # {}
          <6>1. x[1] \in Members /\ x[2] \in Rounds /\ work[Row(x[1], x[2])] # "none"
            BY DEF ActiveComparisons, Row, Open
          <6> QED  BY <6>1, HasReviewer
        <5> QED  BY <5>1
      <4> QED  BY <4>1, <4>2 DEF Backlog
    <3> HIDE DEF c, d
    <3>4. Backlog => Useful(d, Coders, can)  BY <3>2, <3>3 DEF Useful
    <3> QED  BY <2>1, <3>1, <3>4, StaysAttended
  <2>4. CASE ChooseReviewer(s)
    <3>1. calls[s].at = "choose"  BY <2>4 DEF ChooseReviewer, At
    <3>2. CASE Eligible(calls[s].pool) = {} /\ Go(s, Idle)
      <4>1. Backlog => ~Useful(calls[s], Coders, can)  BY <3>1, <3>2 DEF Backlog, Useful
      <4> QED  BY <2>1, <3>2, <4>1, StaysAttended
    <3>3. ASSUME NEW u \in Eligible(calls[s].pool),
                 Go(s, [calls[s] EXCEPT !.at = "assign", !.who = u])
          PROVE  Attended'
      <4> DEFINE c == [calls[s] EXCEPT !.at = "assign", !.who = u]
      <4>1. c.at = "assign" /\ c.who = u  BY <2>2 DEF CallFits, IsCall, Columns
      <4> HIDE DEF c
      <4>2. Useful(calls[s], Coders, can) => Useful(c, Coders, can)
        BY <3>1, <3>3, <4>1 DEF Useful, Eligible
      <4> QED  BY <2>1, <3>3, <4>2, StaysAttended DEF c
    <3> QED  BY <2>4, <3>2, <3>3 DEF ChooseReviewer
  <2> QED  BY <1>2, <2>3, <2>4
<1>3. CASE AssignReviewer(s)
  <2> DEFINE u == calls[s].who
  <2>1. /\ calls[s].at = "assign" /\ Go(s, Idle) /\ CallFits(calls[s], scope, Judges)
        /\ UNCHANGED <<scope, can, responses>> /\ pairs \subseteq pairs'
    BY <1>3, CallIs DEF AssignReviewer, At, settings, reviews
  <2>2. u \in Members /\ round \in Rounds  BY <2>1 DEF CallFits, IInv, TypeOK
  <2>3. CASE Set("comparacao", u, round, "pendente")
    <3>1. Row(u, round) \in Types \X Members \X Rounds  BY <2>2 DEF Row, Types
    <3>2. work' = [work EXCEPT ![Row(u, round)] = "pendente"]  BY <2>3 DEF Set, Row
    <3> HIDE DEF u
    <3>3. work'[Row(u, round)] = "pendente"  BY <3>1, <3>2 DEF IInv, TypeOK
    <3>4. Reviewers' # {}  BY <2>1, <2>2, <3>3 DEF Reviewers, RowsOf, Row, Rounds
    <3> QED  BY <3>4 DEF Backlog
  <2>4. CASE UNCHANGED rows /\ ~(StillEligible(u) /\ work[<<"comparacao", u, round>>] = "none")
    <3>1. Backlog => ~Useful(calls[s], Coders, can)
      <4> SUFFICES ASSUME Backlog, Useful(calls[s], Coders, can) PROVE FALSE
        OBVIOUS
      <4>1. u \in can /\ coding[u] = Null  BY <2>1, <2>2 DEF Useful, Coders
      <4>2. work[Row(u, round)] = "none"  BY <2>2, HasReviewer DEF Backlog
      <4>3. ActiveComparisons = {}
        <5>1. ASSUME NEW x \in ActiveComparisons PROVE FALSE
          <6>1. x[1] \in Members /\ x[2] \in Rounds /\ work[Row(x[1], x[2])] # "none"
            BY DEF ActiveComparisons, Row, Open
          <6> QED  BY <6>1, HasReviewer DEF Backlog
        <5> QED  BY <5>1
      <4> QED  BY <2>4, <4>1, <4>2, <4>3 DEF StillEligible, Row
    <3>2. \A m \in Members, r \in Rounds : work'[Row(m, r)] = work[Row(m, r)]
      BY <2>4 DEF rows
    <3> QED  BY <2>1, <3>1, <3>2, StaysAttended
  <2> QED  BY <1>3, <2>3, <2>4 DEF AssignReviewer
<1> QED  BY <1>1, <1>2, <1>3

\* A first complete coding and a change of permission bring a call of their own.
LEMMA OriginAttends ==
  ASSUME IInv, Backlog', NEW s \in Sessions,
         \/ \E m \in Members, a \in scope.inputs : Save(s, m, a)
         \/ \E m \in Members, enabled \in BOOLEAN : Permit(s, m, enabled)
  PROVE  Attended'
<1>1. calls = [t \in Sessions |-> calls[t]]  BY DEF IInv, CallsFit
<1>2. CASE \E m \in Members, a \in scope.inputs : Save(s, m, a)
  <2>1. PICK m \in Members, a \in scope.inputs : Save(s, m, a)  BY <1>2
  <2> DEFINE c == [Idle EXCEPT !.op = "save", !.at = "status", !.who = m, !.round = round,
                               !.seen = SaveKind(m, a)]
  <2>2. Go(s, c) /\ SaveKind(m, a) \in scope.operations /\ scope' = scope
    BY <2>1 DEF Save, Begin
  <2>3. SaveKind(m, a) = "code"
    <3>1. SaveKind(m, a) \in {"code", "draft", "edit"}  BY DEF SaveKind
    <3>2. SaveKind(m, a) \notin Unattended  BY <2>2 DEF Backlog
    <3> QED  BY <3>1, <3>2 DEF Unattended
  <2>4. c.at = "status" /\ c.seen = SaveKind(m, a)  BY IdleFits DEF IsCall, Columns
  <2> HIDE DEF c
  <2>5. calls'[s] = c  BY <1>1, <2>2 DEF Go
  <2>6. Useful(calls'[s], Coders', can')  BY <2>3, <2>4, <2>5 DEF Useful
  <2> QED  BY <2>6 DEF Attended
<1>3. CASE \E m \in Members, enabled \in BOOLEAN : Permit(s, m, enabled)
  <2>1. Go(s, Automation) /\ scope' = scope  BY <1>3 DEF Permit, Begin
  <2>2. scope.mode # "none"  BY <2>1 DEF Backlog
  <2>3. Automation.at = "analyse"  BY <2>2, IdleFits DEF Automation, IsCall, Columns
  <2>4. calls'[s] = Automation  BY <1>1, <2>1 DEF Go
  <2>5. Useful(calls'[s], Coders', can')  BY <2>3, <2>4 DEF Useful
  <2> QED  BY <2>5 DEF Attended
<1> QED  BY <1>2, <1>3

\* Verdicts, equivalences and draws give nobody a reason to look for a reviewer.
LEMMA StartAttends ==
  ASSUME IInv, Attended, Backlog', NEW s \in Sessions, Start(s)
  PROVE  Attended'
<1>1. scope' = scope /\ scope.operations \cap Unattended = {}
  <2>1. \A m, a : Save(s, m, a) => scope' = scope  BY DEF Save, Begin
  <2>2. \A m, f, kind : SubmitVerdict(s, m, f, kind) => scope' = scope
    BY DEF SubmitVerdict, Begin
  <2>3. \A m, f, group : ConfirmEquivalent(s, m, f, group) => scope' = scope
    BY DEF ConfirmEquivalent, Begin
  <2>4. \A m, p : UnmarkPair(s, m, p) => scope' = scope  BY DEF UnmarkPair, Begin
  <2>5. \A m : MarkReviewed(s, m) \/ ReadCycle(s, m) => scope' = scope
    BY DEF MarkReviewed, ReadCycle, Begin
  <2>6. \A m, enabled : Permit(s, m, enabled) => scope' = scope  BY DEF Permit, Begin
  <2>7. \A t : ClearPending(s, t) => scope' = scope  BY DEF ClearPending, Begin
  <2>8. \A t, drawn, replace, fresh : Draw(s, t, drawn, replace, fresh) => scope' = scope
    BY DEF Draw, Begin
  <2>9. \A a : PublishLlm(s, a) => scope' = scope  BY DEF PublishLlm, Begin
  <2>10. RaiseFloor(s) \/ ReplaceDocument(s) \/ ToggleScope(s) => scope' = scope
    BY DEF RaiseFloor, ReplaceDocument, ToggleScope, Begin
  <2>11. scope' = scope
    BY <2>1, <2>2, <2>3, <2>4, <2>5, <2>6, <2>7, <2>8, <2>9, <2>10 DEF Start
  <2> QED  BY <2>11 DEF Backlog
<1>2. CASE \/ \E m \in Members, a \in scope.inputs : Save(s, m, a)
           \/ \E m \in Members, enabled \in BOOLEAN : Permit(s, m, enabled)
  BY <1>2, OriginAttends
<1>3. ASSUME NEW c, Go(s, c), calls[s] = Idle,
             UNCHANGED <<can, responses, rows>>, pairs \subseteq pairs'
      PROVE  Attended'
  <2>1. \A m \in Members, r \in Rounds : work'[Row(m, r)] = work[Row(m, r)]
    BY <1>3 DEF rows
  <2>2. calls[s].at \notin {"status", "analyse", "choose", "assign"}  BY <1>3, IdleFits
  <2> QED  BY <1>1, <1>3, <2>1, <2>2, NotUseful
<1>4. ASSUME NEW m \in Members, NEW f \in Fields, NEW kind \in scope.kinds,
             SubmitVerdict(s, m, f, kind)
      PROVE  Attended'
  BY <1>3, <1>4 DEF SubmitVerdict, Begin, settings
<1>5. ASSUME NEW m \in Members, NEW f \in Fields, NEW group \in SUBSET Respondents,
             ConfirmEquivalent(s, m, f, group)
      PROVE  Attended'
  BY <1>3, <1>5 DEF ConfirmEquivalent, Begin, settings
<1>6. ASSUME NEW t \in Types, NEW drawn \in SUBSET Members, NEW replace \in BOOLEAN,
             NEW fresh \in BOOLEAN, Draw(s, t, drawn, replace, fresh)
      PROVE  Attended'
  BY <1>3, <1>6 DEF Draw, Begin, settings, reviews
<1>7. ASSUME NEW m \in Members, MarkReviewed(s, m)
      PROVE  Attended'
  <2> DEFINE mine == {<<m, r>> : r \in RowsOf("comparacao", m)}
  <2>1. PICK r \in Rounds : r \in RowsOf("comparacao", m)
    BY <1>7 DEF MarkReviewed, RowsOf
  <2>2. <<m, r>> \in mine /\ Row(m, r) \in Types \X Members \X Rounds
    BY <2>1 DEF Row, Types
  <2>3. work \in [Types \X Members \X Rounds -> Statuses]  BY DEF IInv, TypeOK
  <2>4. work' = [x \in DOMAIN work |->
           IF x[1] = "comparacao" /\ <<x[2], x[3]>> \in mine THEN "concluido" ELSE work[x]]
    BY <1>7 DEF MarkReviewed
  <2> HIDE DEF mine
  <2>5. work'[Row(m, r)] = "concluido"  BY <2>2, <2>3, <2>4 DEF Row
  <2>6. Reviewers' # {}  BY <1>1, <2>1, <2>5 DEF Reviewers, RowsOf, Row, Rounds
  <2> QED  BY <2>6 DEF Backlog
<1>8. /\ ~\E m \in Members : \E p \in pairs : UnmarkPair(s, m, p)
      /\ ~\E m \in Members : ReadCycle(s, m)
      /\ ~\E t \in Types : ClearPending(s, t)
      /\ ~\E a \in scope.inputs : PublishLlm(s, a)
      /\ ~RaiseFloor(s) /\ ~ReplaceDocument(s) /\ ~ToggleScope(s)
  BY <1>1 DEF UnmarkPair, ReadCycle, ClearPending, PublishLlm, RaiseFloor,
              ReplaceDocument, ToggleScope, Begin, Unattended
<1> QED  BY <1>2, <1>4, <1>5, <1>6, <1>7, <1>8 DEF Start

\* A draw of a comparison leaves a reviewer; one of codings leaves the comparisons.
LEMMA ApplyAttends ==
  ASSUME IInv, Attended, Backlog', NEW s \in Sessions, Apply(s)
  PROVE  Attended'
<1> DEFINE c == calls[s]
           users == ToSet(ToUsers(c.todo))
           born(m) == CHOOSE i \in DOMAIN c.todo : c.todo[i][1] = m
<1>1. /\ c.at = "apply" /\ CallFits(c, scope, Judges) /\ Go(s, Idle)
      /\ UNCHANGED <<scope, can>>
  BY CallIs DEF Apply, At
<1>2. c.op = "draw" /\ IsPlan(c.todo) /\ users \cap Members # {}
  <2>1. /\ c.op \in {"draw", "round"} \cap scope.operations
        /\ scope.operations \cap Unattended = {}
    BY <1>1 DEF CallFits, Backlog
  <2>2. "round" \in Unattended  BY DEF Unattended
  <2>3. c.op = "draw"  BY <2>1, <2>2
  <2> QED  BY <1>1, <2>3 DEF CallFits
<1>3. CASE UNCHANGED <<round, responses, rows, pairs>>
  <2>1. \A m \in Members, r \in Rounds : work'[Row(m, r)] = work[Row(m, r)]
    BY <1>3 DEF rows
  <2> HIDE DEF users
  <2> QED  BY <1>1, <1>3, <2>1, NotUseful
<1>4. CASE /\ Applies(c) /\ UNCHANGED <<responses, pairs>>
           /\ work' = [x \in DOMAIN work |->
                IF x[1] = c.field /\ x[3] = round /\ x[2] \in users
                THEN c.todo[born(x[2])][2] ELSE Cleared(c)[x]]
  <2>1. work \in [Types \X Members \X Rounds -> Statuses] /\ round \in Rounds
    BY DEF IInv, TypeOK
  <2>2. CASE c.field = "comparacao"
    <3>1. PICK m \in users \cap Members : TRUE  BY <1>2
    <3>2. Row(m, round) \in Types \X Members \X Rounds
      BY <2>1 DEF Row, Types
    <3>3. c.todo[born(m)][2] # "none"
      <4>1. \E i \in DOMAIN c.todo : c.todo[i][1] = m  BY <3>1 DEF ToSet, ToUsers
      <4>2. born(m) \in DOMAIN c.todo  BY <4>1
      <4> QED  BY <1>2, <4>2 DEF IsPlan
    <3>4. work'[Row(m, round)] = c.todo[born(m)][2]
      <4> HIDE DEF users, born
      <4> QED  BY <1>4, <2>1, <2>2, <3>1, <3>2 DEF Row
    <3>5. Reviewers' # {}
      <4> HIDE DEF born, c
      <4> QED  BY <1>1, <2>1, <3>1, <3>3, <3>4 DEF Reviewers, RowsOf, Row, Rounds
    <3> QED  BY <3>5 DEF Backlog
  <2>3. CASE c.field # "comparacao"
    <3>1. ASSUME NEW m \in Members, NEW r \in Rounds
          PROVE  work'[Row(m, r)] = work[Row(m, r)]
      <4>1. Row(m, r) \in Types \X Members \X Rounds  BY DEF Row, Types
      <4>2. Row(m, r) \notin PendingNow(c.field)
        BY <2>3 DEF PendingNow, Row
      <4>3. Cleared(c)[Row(m, r)] = work[Row(m, r)]
        BY <2>1, <4>1, <4>2 DEF Cleared
      <4> HIDE DEF c, users, born
      <4> QED  BY <1>4, <2>1, <2>3, <4>1, <4>3 DEF Row
    <3> HIDE DEF users, born
    <3> QED  BY <1>1, <1>4, <3>1, NotUseful
  <2> QED  BY <2>2, <2>3
<1> QED  BY <1>2, <1>3, <1>4 DEF Apply

\* The other steps of a call.
LEMMA ContinueAttends ==
  ASSUME IInv, Attended, Backlog', NEW s \in Sessions, Continue(s)
  PROVE  Attended'
<1>1. CASE SetCodingStatus(s) \/ Analyse(s) \/ ChooseReviewer(s) \/ AssignReviewer(s)
  BY <1>1, AutomationAttends
<1>2. CASE Apply(s)  BY <1>2, ApplyAttends
<1>3. ASSUME NEW c, Go(s, c), UNCHANGED <<scope, can, responses, rows, pairs>>,
             calls[s].at \notin {"status", "analyse", "choose", "assign"}
      PROVE  Attended'
  <2>1. \A m \in Members, r \in Rounds : work'[Row(m, r)] = work[Row(m, r)]
    BY <1>3 DEF rows
  <2> QED  BY <1>3, <2>1, NotUseful
<1>4. CASE ReadComment(s)
  BY <1>3, <1>4 DEF ReadComment, At, settings, reviews
<1>5. CASE WriteComment(s)
  BY <1>3, <1>5 DEF WriteComment, At, settings
<1>6. CASE ConfirmVerdict(s)
  BY <1>3, <1>6 DEF ConfirmVerdict, At, settings
<1>7. CASE ListReviewers(s)
  BY <1>3, <1>7 DEF ListReviewers, At, settings, reviews
<1>8. CASE ReadRow(s)
  BY <1>3, <1>8 DEF ReadRow, At, settings, reviews
<1>9. CASE ReadData(s)
  BY <1>3, <1>9 DEF ReadData, At, settings, reviews
<1>10. CASE WriteStatus(s)
  <2> DEFINE c == calls[s]
  <2>1. /\ c.at = "write" /\ Go(s, NextUser(s)) /\ CallFits(c, scope, Judges)
        /\ UNCHANGED <<scope, settings, responses, reviews>>
    BY <1>10, CallIs DEF WriteStatus, At
  <2>2. CASE UNCHANGED rows  BY <1>3, <2>1, <2>2 DEF settings, reviews
  <2>3. CASE /\ work[Row(c.who, c.round)] # "none"
             /\ work' = [work EXCEPT ![Row(c.who, c.round)] = c.seen]
    <3>1. c.seen # "none"  BY <2>1 DEF CallFits
    <3>2. CASE Row(c.who, c.round) \in DOMAIN work
      <4>1. c.who \in Members /\ c.round \in Rounds
        BY <3>2 DEF IInv, TypeOK, Row
      <4> HIDE DEF c
      <4>2. work'[Row(c.who, c.round)] # "none"  BY <2>3, <3>1, <3>2 DEF IInv, TypeOK
      <4>3. Reviewers' # {}  BY <2>1, <4>1, <4>2 DEF Reviewers, RowsOf, Row, Rounds
      <4> QED  BY <4>3 DEF Backlog
    <3>3. CASE Row(c.who, c.round) \notin DOMAIN work
      <4>1. work' = work  BY <2>3, <3>3 DEF IInv, TypeOK
      <4>2. \A m \in Members, r \in Rounds : work'[Row(m, r)] = work[Row(m, r)]
        BY <4>1
      <4>3. /\ UNCHANGED <<scope, can, responses>> /\ pairs \subseteq pairs'
            /\ calls[s].at \notin {"status", "analyse", "choose", "assign"}
        BY <2>1 DEF settings, reviews
      <4> QED  BY <2>1, <4>2, <4>3, NotUseful
    <3> QED  BY <3>2, <3>3
  <2> QED  BY <1>10, <2>2, <2>3 DEF WriteStatus, Set, Row
<1>11. CASE DeriveStatus(s) \/ InsertCoding(s) \/ Promote(s) \/ RemoveRows(s)
  <2>1. /\ calls[s].at \in {"derive", "insert", "promote", "remove"} /\ scope' = scope
        /\ CallFits(calls[s], scope, Judges)
    BY <1>11, CallIs DEF DeriveStatus, InsertCoding, Promote, RemoveRows, At
  <2>2. "cycle" \in scope.operations  BY <2>1 DEF CallFits
  <2>3. "cycle" \notin scope.operations  BY <2>1 DEF Backlog, Unattended
  <2> QED  BY <2>2, <2>3
<1> QED  BY <1>1, <1>2, <1>4, <1>5, <1>6, <1>7, <1>8, <1>9, <1>10, <1>11 DEF Continue

\* Every step leaves the document attended.
LEMMA NextAttends == IInv /\ Attended /\ [Next]_vars => Attended'
<1> SUFFICES ASSUME IInv, Attended, [Next]_vars, Backlog' PROVE Attended'
  BY DEF Attended
<1>1. CASE UNCHANGED vars
  <2>1. UNCHANGED <<scope, can, coding, llm, behind, pairs, work, calls>>  BY <1>1 DEF vars
  <2>2. Coders' = Coders /\ NeedsReviewer
    <3>1. UNCHANGED <<scope, responses>>  BY <2>1 DEF responses
    <3> QED  BY <2>1, <3>1, NeedsLess DEF Coders, Backlog
  <2>3. Reviewers' = Reviewers  BY <2>1, SameReviewers
  <2>4. Backlog  BY <2>1, <2>2, <2>3 DEF Backlog, Eligible
  <2> QED  BY <2>1, <2>2, <2>4 DEF Attended
<1>2. CASE Next  BY <1>2, StartAttends, ContinueAttends DEF Next
<1> QED  BY <1>1, <1>2

\* If no divergent document was forgotten at first, none ever is: when no call runs,
\* one without any comparison has no eligible member, in whatever order the first
\* complete codings, the changes of permission and the draws commit and read.
THEOREM NoDocumentForgotten == Spec /\ BacklogHasACause => []BacklogHasACause
<1>1. Init /\ BacklogHasACause => Attended
  BY DEF Init, BacklogHasACause, Quiet, Attended, Backlog
<1>2. Attended => BacklogHasACause  BY AttendedHasACause
<1>3. IInv /\ Attended /\ [Next]_vars => Attended'  BY NextAttends
<1> QED  BY <1>1, <1>2, <1>3, Invariance, PTL DEF Spec

-----------------------------------------------------------------------------
\* The status of the only reviewer follows the verdicts.

\* Only verdicts, equivalences and their removal, one at a time.
OneAtATime == Only({"verdict", "equivalent", "unmark"}) /\ scope.sessions = 1

\* The status of the reviewer in the round, and the one that says what is left.
Status(u) == work[Row(u, round)]
Due(u) == ResolveStatus(DivergentFields(Qualified), Reviewed(u))

\* The stages of such calls.
VerdictStages == {"comment", "note", "gabarito", "list", "row", "data", "write"}
IsVerdictCall(c) == c = Idle \/ c.at \in VerdictStages

\* What such a call has read, with u the only reviewer, in the round r, with the
\* status before it and the one that is due.
Serves(c, u, r, status, due) ==
  /\ c.at = "gabarito" => c.who = u
  /\ c.at = "row" => \E m \in Members : c.todo = <<m>>
  /\ c.at \in {"data", "write"} => c.who = u /\ c.round = r /\ c.todo = <<u>>
  /\ c.at = "data" => c.seen = status
  /\ c.at = "write" => c.seen = due

\* The call still has to look at u.
Pursues(c, u) ==
  \/ c.at \in {"comment", "note", "gabarito", "data", "write"} /\ c.who = u
  \/ c.at = "list"
  \/ c.at = "row" /\ c.todo = <<u>>

\* Nobody but u declares answers equivalent.
OnlyPairer(u) == "equivalent" \in scope.operations => scope.coordinators \subseteq {u}

\* The status of u is the one that is due, or a call still has to look at u.
Tracked(u) ==
  /\ coding[u] = Null /\ OnlyPairer(u)
  /\ \A r \in Rounds : work[Row(u, r)] # "none" => r = round
  /\ Cardinality(Qualified) < 2 => Status(u) = Due(u)
  /\ \A s \in Sessions : Serves(calls[s], u, round, Status(u), Due(u))
  /\ Status(u) = Due(u) \/ \E s \in Sessions : Pursues(calls[s], u)

OneCall == \A s, t \in Sessions : calls[s] # Idle /\ calls[t] # Idle => s = t

Followed ==
  OneAtATime =>
    /\ OneCall
    /\ \A s \in Sessions : IsVerdictCall(calls[s])
    /\ \A u \in Members : Reviewers = {u} => Tracked(u)

\* The document as the calls find it: the only reviewer did not code it, has the
\* status that his verdicts say, and is the only one to declare equivalences.
FollowedAtFirst ==
  \A u \in Members : Reviewers = {u} =>
    StatusFollows(u) /\ coding[u] = Null /\ OnlyPairer(u)

\* Fewer than two responses have no two parts.
LEMMA NoParts ==
  ASSUME NEW S \in SUBSET Respondents, Cardinality(S) < 2
  PROVE  \A part \in SUBSET S : part = {} \/ part = S
<1> SUFFICES ASSUME NEW part \in SUBSET S, part # {}, part # S PROVE FALSE
  OBVIOUS
<1>1. PICK a \in part, b \in S : a # b
  <2>1. PICK a : a \in part  OBVIOUS
  <2>2. PICK b \in S : b \notin part  OBVIOUS
  <2> QED  BY <2>1, <2>2
<1>2. IsFiniteSet(S)
  <2>1. IsFiniteSet(Members \cup {Llm})
    BY ComparisonAssumption, FS_Singleton, FS_Union
  <2> QED  BY <2>1, FS_Subset DEF Respondents
<1>3. {a, b} \subseteq S /\ Cardinality({a, b}) = 2
  <2>1. IsFiniteSet({b}) /\ Cardinality({b}) = 1  BY FS_Singleton
  <2>2. {a, b} = {b} \cup {a} /\ a \notin {b}  BY <1>1
  <2>3. Cardinality({b} \cup {a}) = Cardinality({b}) + 1  BY <2>1, <2>2, FS_AddElement
  <2> QED  BY <1>1, <2>1, <2>2, <2>3
<1>4. Cardinality({a, b}) <= Cardinality(S)  BY <1>2, <1>3, FS_Subset
<1>5. Cardinality(S) \in Nat  BY <1>2, FS_CardinalityType
<1> QED  BY <1>3, <1>4, <1>5

\* The status that is due is the one the property asks for.
LEMMA DueFollows ==
  ASSUME NEW u, Status(u) \in Statuses \ {"none"}
  PROVE  StatusFollows(u) <=> Status(u) = Due(u)
<1> DEFINE D == DivergentFields(Qualified)
           R == Reviewed(u)
           st == Status(u)
<1>1. st \in {"pendente", "em_andamento", "concluido"}  BY DEF Statuses, Open
<1>2. StatusFollows(u) <=> /\ st = "concluido" <=> D \ R = {}
                           /\ st = "em_andamento" <=> D \ R # {} /\ R # {}
  BY DEF StatusFollows, Status, Row
<1>3. Due(u) = IF D \subseteq R THEN "concluido"
               ELSE IF R = {} THEN "pendente" ELSE "em_andamento"
  BY DEF Due, ResolveStatus
<1>4. D \subseteq R <=> D \ R = {}  OBVIOUS
<1> HIDE DEF D, R, st
<1> QED  BY <1>1, <1>2, <1>3, <1>4 DEF st

\* The row of the only reviewer is the one of the round.
LEMMA RowOfReviewer ==
  ASSUME IInv, NEW u \in Members, Reviewers = {u},
         \A r \in Rounds : work[Row(u, r)] # "none" => r = round
  PROVE  /\ RowsOf("comparacao", u) = {round}
         /\ Status(u) \in Statuses \ {"none"}
<1>1. PICK r \in Rounds : work[Row(u, r)] # "none"  BY DEF Reviewers, RowsOf, Row
<1>2. r = round  BY <1>1
<1>3. RowsOf("comparacao", u) = {round}  BY <1>1, <1>2 DEF RowsOf, Row
<1>4. work[Row(u, round)] \in Statuses
  BY <1>1, <1>2 DEF IInv, TypeOK, Row, Types
<1> QED  BY <1>1, <1>2, <1>3, <1>4 DEF Status

\* An idle call pursues nobody and has read nothing.
LEMMA IdleServes ==
  ASSUME NEW u
  PROVE  /\ IsVerdictCall(Idle) /\ ~Pursues(Idle, u)
         /\ \A r, status, due : Serves(Idle, u, r, status, due)
<1> DEFINE c == Idle
<1>1. c.at \notin VerdictStages
  BY DEF Idle, VerdictStages
<1> HIDE DEF c
<1>2. \A stage \in VerdictStages : c.at # stage  BY <1>1
<1>3. ~Pursues(c, u) /\ \A r, status, due : Serves(c, u, r, status, due)
  BY <1>2 DEF Pursues, Serves, VerdictStages
<1> QED  BY <1>3 DEF c, IsVerdictCall

\* The synchronisation of nobody, or of one user.
LEMMA SyncIs ==
  ASSUME NEW users
  PROVE  /\ IsVerdictCall(SyncOf(users)) /\ SyncOf(<<>>) = Idle
         /\ users # <<>> => SyncOf(users).at = "row" /\ SyncOf(users).todo = users
<1>1. CASE users = <<>>  BY <1>1, IdleServes DEF SyncOf
<1>2. CASE users # <<>>
  <2> DEFINE c == [Idle EXCEPT !.op = "sync", !.at = "row", !.todo = users]
  <2>1. c.at = "row" /\ c.todo = users  BY IdleFits DEF IsCall, Columns
  <2>2. SyncOf(users) = c  BY <1>2 DEF SyncOf
  <2> HIDE DEF c
  <2> QED  BY <1>2, <2>1, <2>2 DEF IsVerdictCall, VerdictStages, SyncOf
<1> QED  BY <1>1, <1>2

LEMMA SyncServes ==
  ASSUME NEW m \in Members, NEW u, NEW r, NEW status, NEW due
  PROVE  /\ Serves(SyncOf(<<m>>), u, r, status, due)
         /\ m = u => Pursues(SyncOf(<<m>>), u)
<1>1. SyncOf(<<m>>).at = "row" /\ SyncOf(<<m>>).todo = <<m>>  BY SyncIs
<1> QED  BY <1>1 DEF Serves, Pursues

\* What the call of a step leaves to show, with the status and the one due after it.
LEMMA FollowStep ==
  ASSUME IInv, OneAtATime, Followed, NEW s \in Sessions, NEW c, Go(s, c), IsVerdictCall(c),
         \A t \in Sessions : t # s => calls[t] = Idle,
         UNCHANGED <<scope, round, coding, llm, behind>>,
         \A m \in Members, r \in Rounds :
           work'[Row(m, r)] = "none" <=> work[Row(m, r)] = "none",
         \A u \in Members : Reviewers = {u} /\ Tracked(u) =>
           /\ Status(u)' \in {Status(u), Due(u)'}
           /\ Serves(c, u, round, Status(u)', Due(u)')
           /\ Status(u)' = Due(u)' \/ Pursues(c, u)
  PROVE  Followed'
<1>1. ASSUME NEW t \in Sessions PROVE calls'[t] = IF t = s THEN c ELSE Idle
  BY DEF Go, IInv, CallsFit
<1>2. OneCall'  BY <1>1 DEF OneCall
<1>3. \A t \in Sessions : IsVerdictCall(calls'[t])  BY <1>1, IdleServes
<1>4. Reviewers' = Reviewers  BY DEF Reviewers, RowsOf, Rounds, Row
<1>5. ASSUME NEW u \in Members, Reviewers = {u}
      PROVE  Tracked(u)'
  <2>1. Tracked(u)  BY <1>5 DEF Followed
  <2>2. /\ Status(u)' \in {Status(u), Due(u)'}
        /\ Serves(c, u, round, Status(u)', Due(u)')
        /\ Status(u)' = Due(u)' \/ Pursues(c, u)
    BY <1>5, <2>1
  <2>3. (coding[u] = Null /\ OnlyPairer(u))'  BY <2>1 DEF Tracked, OnlyPairer
  <2>4. (\A r \in Rounds : work[Row(u, r)] # "none" => r = round)'
    BY <2>1 DEF Tracked, Rounds
  <2>5. (Cardinality(Qualified) < 2 => Status(u) = Due(u))'
    <3>1. Qualified' = Qualified  BY DEF Qualified, Response, Respondents
    <3>2. ASSUME Cardinality(Qualified) < 2
          PROVE  Due(u) = "concluido" /\ Due(u)' = "concluido"
      <4>1. \A part \in SUBSET Qualified : part = {} \/ part = Qualified
        BY <3>2, NoParts DEF Qualified
      <4>2. DivergentFields(Qualified) = {}  BY <4>1 DEF DivergentFields
      <4>3. DivergentFields(Qualified)' = {}  BY <3>1, <4>1 DEF DivergentFields
      <4>4. /\ DivergentFields(Qualified) \subseteq Reviewed(u)
            /\ DivergentFields(Qualified)' \subseteq Reviewed(u)'
        BY <4>2, <4>3
      <4> QED  BY <4>4 DEF Due, ResolveStatus
    <3> QED  BY <2>1, <2>2, <3>1, <3>2 DEF Tracked
  <2>6. \A t \in Sessions : Serves(calls'[t], u, round', Status(u)', Due(u)')
    BY <1>1, <2>2, IdleServes
  <2>7. (Status(u) = Due(u))' \/ \E t \in Sessions : Pursues(calls'[t], u)
    BY <1>1, <2>2
  <2> QED  BY <2>3, <2>4, <2>5, <2>6, <2>7 DEF Tracked
<1> QED  BY <1>2, <1>3, <1>4, <1>5 DEF Followed

\* A call that begins is alone, and the status is the one that is due.
LEMMA BeginAlone ==
  ASSUME OneAtATime, Followed, NEW s \in Sessions, NEW op, Begin(s, op)
  PROVE  /\ op \in {"verdict", "equivalent", "unmark"} /\ scope' = scope
         /\ \A t \in Sessions : calls[t] = Idle
         /\ \A u \in Members : Reviewers = {u} => Tracked(u) /\ Status(u) = Due(u)
<1>1. ASSUME NEW t \in Sessions, calls[t] # Idle PROVE FALSE
  <2>1. {x \in Sessions : calls[x] # Idle} = {t}  BY <1>1 DEF Followed, OneCall
  <2>2. Cardinality({t}) = 1  BY FS_Singleton
  <2> QED  BY <2>1, <2>2 DEF Begin, OneAtATime
<1>2. ASSUME NEW u \in Members, Reviewers = {u}
      PROVE  Tracked(u) /\ Status(u) = Due(u)
  BY <1>1, <1>2, IdleServes DEF Followed, Tracked
<1> QED  BY <1>1, <1>2 DEF Begin, OneAtATime, Only

\* A call that goes on is alone; the status is the one that is due, or it still
\* has to look at the reviewer.
LEMMA StageAlone ==
  ASSUME OneAtATime, Followed, NEW s \in Sessions, NEW stage, At(s, stage), stage # Idle.at
  PROVE  /\ calls[s].at = stage /\ stage \in VerdictStages /\ scope' = scope
         /\ \A t \in Sessions : t # s => calls[t] = Idle
         /\ \A u \in Members : Reviewers = {u} =>
              /\ Tracked(u) /\ Serves(calls[s], u, round, Status(u), Due(u))
              /\ Status(u) = Due(u) \/ Pursues(calls[s], u)
<1>1. calls[s].at = stage /\ scope' = scope  BY DEF At
<1>2. calls[s] # Idle  BY <1>1, IdleFits
<1>3. \A t \in Sessions : t # s => calls[t] = Idle  BY <1>2 DEF Followed, OneCall
<1>4. stage \in VerdictStages  BY <1>1 DEF Followed, IsVerdictCall
<1>5. ASSUME NEW u \in Members, Reviewers = {u}
      PROVE  /\ Tracked(u) /\ Serves(calls[s], u, round, Status(u), Due(u))
             /\ Status(u) = Due(u) \/ Pursues(calls[s], u)
  BY <1>3, <1>5, IdleServes DEF Followed, Tracked
<1> QED  BY <1>1, <1>3, <1>4, <1>5

\* A step that leaves the rows, the responses, the equivalences and what u decided.
LEMMA SameDue ==
  ASSUME UNCHANGED <<scope, round, coding, llm, behind, pairs>>,
         NEW u, Reviewed(u)' = Reviewed(u)
  PROVE  Due(u)' = Due(u)
<1>1. Qualified' = Qualified  BY DEF Qualified, Response, Respondents
<1>2. ASSUME NEW f, NEW a, NEW b
      PROVE  Agree(f, a, b)' <=> Agree(f, a, b)
  BY DEF Agree, Response
<1>3. DivergentFields(Qualified)' \subseteq DivergentFields(Qualified)
  BY <1>1, <1>2 DEF DivergentFields
<1>4. DivergentFields(Qualified) \subseteq DivergentFields(Qualified)'
  BY <1>1, <1>2 DEF DivergentFields
<1> QED  BY <1>3, <1>4 DEF Due

\* A verdict is submitted: the call looks at whoever gave it.
LEMMA SubmitVerdictFollows ==
  ASSUME IInv, OneAtATime, Followed, NEW s \in Sessions, NEW m \in Members,
         NEW f \in Fields, NEW kind \in scope.kinds, SubmitVerdict(s, m, f, kind)
  PROVE  Followed'
<1> DEFINE c == [Idle EXCEPT !.op = "verdict", !.at = "comment", !.who = m,
                             !.field = f, !.seen = kind]
<1>1. /\ Begin(s, "verdict") /\ Go(s, c)
      /\ verdicts' = [verdicts EXCEPT ![m][f] = kind]
      /\ UNCHANGED <<settings, responses, rows, noted, pairs>>
  BY DEF SubmitVerdict
<1>2. c.at = "comment" /\ c.who = m  BY IdleFits DEF IsCall, Columns
<1>3. UNCHANGED <<round, coding, llm, behind, work, pairs>>
  BY <1>1 DEF settings, responses, rows
<1>4. /\ scope' = scope /\ \A t \in Sessions : calls[t] = Idle
      /\ \A u \in Members : Reviewers = {u} => Tracked(u) /\ Status(u) = Due(u)
  BY <1>1, BeginAlone
<1> HIDE DEF c
<1>5. ASSUME NEW u \in Members, Reviewers = {u}
      PROVE  /\ Status(u)' = Status(u) /\ Serves(c, u, round, Status(u)', Due(u)')
             /\ Status(u)' = Due(u)' \/ Pursues(c, u)
  <2>1. Status(u)' = Status(u)  BY <1>3 DEF Status
  <2>2. Serves(c, u, round, Status(u)', Due(u)')  BY <1>2 DEF Serves
  <2>3. CASE m = u  BY <1>2, <2>1, <2>2, <2>3 DEF Pursues
  <2>4. CASE m # u
    <3>1. verdicts'[u] = verdicts[u]  BY <1>1, <2>4 DEF IInv, TypeOK
    <3>2. Due(u)' = Due(u)  BY <1>3, <1>4, <3>1, SameDue DEF Reviewed
    <3> QED  BY <1>4, <1>5, <2>1, <2>2, <3>2
  <2> QED  BY <2>3, <2>4
<1>6. IsVerdictCall(c)  BY <1>2 DEF IsVerdictCall, VerdictStages
<1> QED  BY <1>1, <1>3, <1>4, <1>5, <1>6, FollowStep

\* The selected responses become equivalent: the only reviewer does it.
LEMMA ConfirmEquivalentFollows ==
  ASSUME IInv, OneAtATime, Followed, NEW s \in Sessions, NEW m \in Members,
         NEW f \in Fields, NEW group, ConfirmEquivalent(s, m, f, group)
  PROVE  Followed'
<1> DEFINE c == [Idle EXCEPT !.op = "equivalent", !.at = "gabarito", !.who = m, !.field = f]
<1>1. /\ Begin(s, "equivalent") /\ Go(s, c) /\ m \in Reviewers \cup scope.coordinators
      /\ UNCHANGED <<settings, responses, rows, verdicts, noted>>
  BY DEF ConfirmEquivalent
<1>2. c.at = "gabarito" /\ c.who = m  BY IdleFits DEF IsCall, Columns
<1>3. UNCHANGED <<round, coding, llm, behind, work>>
  BY <1>1 DEF settings, responses, rows
<1>4. /\ scope' = scope /\ \A t \in Sessions : calls[t] = Idle
      /\ \A u \in Members : Reviewers = {u} => Tracked(u)
  BY <1>1, BeginAlone
<1> HIDE DEF c
<1>5. ASSUME NEW u \in Members, Reviewers = {u}
      PROVE  /\ Status(u)' = Status(u) /\ Serves(c, u, round, Status(u)', Due(u)')
             /\ Pursues(c, u)
  <2>1. Status(u)' = Status(u)  BY <1>3 DEF Status
  <2>2. m = u  BY <1>1, <1>4, <1>5 DEF Tracked, OnlyPairer, Begin
  <2> QED  BY <1>2, <2>1, <2>2 DEF Serves, Pursues
<1>6. IsVerdictCall(c)  BY <1>2 DEF IsVerdictCall, VerdictStages
<1> QED  BY <1>1, <1>3, <1>4, <1>5, <1>6, FollowStep

\* A pair is removed: every reviewer will be looked at.
LEMMA UnmarkPairFollows ==
  ASSUME IInv, OneAtATime, Followed, NEW s \in Sessions, NEW m \in Members,
         NEW p, UnmarkPair(s, m, p)
  PROVE  Followed'
<1> DEFINE c == [Idle EXCEPT !.op = "unmark", !.at = "list"]
<1>1. /\ Begin(s, "unmark") /\ Go(s, c)
      /\ UNCHANGED <<settings, responses, rows, noted>>
  BY DEF UnmarkPair
<1>2. c.at = "list"  BY IdleFits DEF IsCall, Columns
<1>3. UNCHANGED <<round, coding, llm, behind, work>>
  BY <1>1 DEF settings, responses, rows
<1>4. scope' = scope /\ \A t \in Sessions : calls[t] = Idle
  BY <1>1, BeginAlone
<1> HIDE DEF c
<1>5. ASSUME NEW u \in Members, Reviewers = {u}
      PROVE  /\ Status(u)' = Status(u) /\ Serves(c, u, round, Status(u)', Due(u)')
             /\ Pursues(c, u)
  BY <1>2, <1>3 DEF Status, Serves, Pursues
<1>6. IsVerdictCall(c)  BY <1>2 DEF IsVerdictCall, VerdictStages
<1> QED  BY <1>1, <1>3, <1>4, <1>5, <1>6, FollowStep

\* A step that changes no row, no answer and nobody's verdicts, after which the
\* call looks at the reviewer if it did before.
LEMMA ThinkFollows ==
  ASSUME IInv, OneAtATime, Followed, NEW s \in Sessions, NEW c, Go(s, c), IsVerdictCall(c),
         NEW stage, At(s, stage), stage # Idle.at,
         UNCHANGED <<round, coding, llm, behind, work, verdicts, pairs>>,
         \A u \in Members :
           /\ Reviewers = {u} /\ Tracked(u)
           /\ Serves(calls[s], u, round, Status(u), Due(u))
           => /\ Serves(c, u, round, Status(u), Due(u))
              /\ Pursues(calls[s], u) => Status(u) = Due(u) \/ Pursues(c, u)
  PROVE  Followed'
<1>1. /\ scope' = scope /\ \A t \in Sessions : t # s => calls[t] = Idle
      /\ \A u \in Members : Reviewers = {u} =>
           /\ Tracked(u) /\ Serves(calls[s], u, round, Status(u), Due(u))
           /\ Status(u) = Due(u) \/ Pursues(calls[s], u)
  BY StageAlone
<1>2. \A u : Status(u)' = Status(u)  BY DEF Status
<1>3. \A u : Due(u)' = Due(u)
  <2>1. \A u : Reviewed(u)' = Reviewed(u)  BY DEF Reviewed
  <2> QED  BY <1>1, <2>1, SameDue
<1> QED  BY <1>1, <1>2, <1>3, FollowStep

\* The comment of a verdict is read.
LEMMA ReadCommentFollows ==
  ASSUME IInv, OneAtATime, Followed, NEW s \in Sessions, ReadComment(s)
  PROVE  Followed'
<1> DEFINE d == calls[s]
           note == [d EXCEPT !.at = "note"]
<1>1. /\ At(s, "comment")
      /\ Go(s, note) \/ Go(s, SyncOf(<<d.who>>))
      /\ UNCHANGED <<settings, responses, rows, reviews>>
  BY DEF ReadComment
<1>2. UNCHANGED <<round, coding, llm, behind, work, verdicts, pairs>>
  BY <1>1 DEF settings, responses, rows, reviews
<1>3. d.at = "comment" /\ IsCall(d) /\ d.who \in Members
  <2>1. d.at = "comment"  BY <1>1 DEF At
  <2>2. CallFits(d, scope, Judges)  BY CallIs
  <2> QED  BY <2>1, <2>2 DEF CallFits
<1>4. "comment" # Idle.at  BY DEF Idle
<1>5. note.at = "note" /\ note.who = d.who  BY <1>3 DEF IsCall, Columns
<1> HIDE DEF d, note
<1>6. CASE Go(s, note)
  <2>1. IsVerdictCall(note)  BY <1>5 DEF IsVerdictCall, VerdictStages
  <2>2. ASSUME NEW u \in Members
        PROVE  /\ Serves(note, u, round, Status(u), Due(u))
               /\ Pursues(d, u) => Pursues(note, u)
    BY <1>3, <1>5 DEF Serves, Pursues
  <2> QED  BY <1>1, <1>2, <1>4, <1>6, <2>1, <2>2, ThinkFollows DEF d
<1>7. CASE Go(s, SyncOf(<<d.who>>))
  <2>1. IsVerdictCall(SyncOf(<<d.who>>))  BY SyncIs
  <2>2. ASSUME NEW u \in Members
        PROVE  /\ Serves(SyncOf(<<d.who>>), u, round, Status(u), Due(u))
               /\ Pursues(d, u) => Pursues(SyncOf(<<d.who>>), u)
    BY <1>3, SyncServes DEF Pursues
  <2> QED  BY <1>1, <1>2, <1>4, <1>7, <2>1, <2>2, ThinkFollows DEF d
<1> QED  BY <1>1, <1>6, <1>7

\* The comment is written.
LEMMA WriteCommentFollows ==
  ASSUME IInv, OneAtATime, Followed, NEW s \in Sessions, WriteComment(s)
  PROVE  Followed'
<1> DEFINE c == SyncOf(<<calls[s].who>>)
<1>1. /\ At(s, "note") /\ Go(s, c)
      /\ UNCHANGED <<settings, responses, rows, verdicts, pairs>>
  BY DEF WriteComment
<1>2. UNCHANGED <<round, coding, llm, behind, work, verdicts, pairs>>
  BY <1>1 DEF settings, responses, rows
<1>3. "note" # Idle.at /\ IsVerdictCall(c) /\ calls[s].who \in Members
  BY <1>1, CallIs, SyncIs DEF Idle, At, CallFits
<1>4. ASSUME NEW u \in Members
      PROVE  /\ Serves(c, u, round, Status(u), Due(u))
             /\ Pursues(calls[s], u) => Pursues(c, u)
  BY <1>1, <1>3, SyncServes DEF Pursues, At
<1> HIDE DEF c
<1> QED  BY <1>1, <1>2, <1>3, <1>4, ThinkFollows

\* The verdict of an equivalence is written, by the only reviewer.
LEMMA ConfirmVerdictFollows ==
  ASSUME IInv, OneAtATime, Followed, NEW s \in Sessions, ConfirmVerdict(s)
  PROVE  Followed'
<1> DEFINE d == calls[s]
           c == SyncOf(<<d.who>>)
<1>1. /\ At(s, "gabarito") /\ Go(s, c) /\ d.at = "gabarito"
      /\ UNCHANGED <<settings, responses, rows, noted, pairs>>
  BY DEF ConfirmVerdict, At
<1>2. UNCHANGED <<round, coding, llm, behind, work>>
  BY <1>1 DEF settings, responses, rows
<1>3. "gabarito" # Idle.at /\ IsVerdictCall(c)  BY SyncIs DEF Idle
<1>4. /\ scope' = scope /\ \A t \in Sessions : t # s => calls[t] = Idle
      /\ \A u \in Members : Reviewers = {u} => Serves(d, u, round, Status(u), Due(u))
  BY <1>1, <1>3, StageAlone
<1>5. ASSUME NEW u \in Members, Reviewers = {u}
      PROVE  /\ Status(u)' = Status(u) /\ Serves(c, u, round, Status(u)', Due(u)')
             /\ Pursues(c, u)
  <2>1. Status(u)' = Status(u)  BY <1>2 DEF Status
  <2>2. d.who = u  BY <1>1, <1>4, <1>5 DEF Serves
  <2> QED  BY <2>1, <2>2, SyncServes
<1> HIDE DEF c, d
<1> QED  BY <1>1, <1>2, <1>3, <1>4, <1>5, FollowStep

\* The sequences of a single member.
LEMMA OneUser ==
  ASSUME NEW u, NEW users \in SetToSeqs({u})
  PROVE  users = <<u>>
<1>1. Cardinality({u}) = 1  BY FS_Singleton
<1>2. users \in [1..1 -> {u}]  BY <1>1 DEF SetToSeqs
<1>3. users = [i \in 1..1 |-> u] /\ <<u>> = [i \in 1..1 |-> u]
  BY <1>2
<1> QED  BY <1>3

\* The reviewers are listed.
LEMMA ListReviewersFollows ==
  ASSUME IInv, OneAtATime, Followed, NEW s \in Sessions, ListReviewers(s)
  PROVE  Followed'
<1>1. PICK users \in SetToSeqs(Reviewers) : Go(s, SyncOf(users))  BY DEF ListReviewers
<1> DEFINE c == SyncOf(users)
<1>2. At(s, "list") /\ UNCHANGED <<settings, responses, rows, reviews>>
  BY DEF ListReviewers
<1>3. UNCHANGED <<round, coding, llm, behind, work, verdicts, pairs>>
  BY <1>2 DEF settings, responses, rows, reviews
<1>4. "list" # Idle.at /\ IsVerdictCall(c)  BY SyncIs DEF Idle
<1>5. ASSUME NEW u \in Members, Reviewers = {u}
      PROVE  Serves(c, u, round, Status(u), Due(u)) /\ Pursues(c, u)
  <2>1. users = <<u>>  BY <1>1, <1>5, OneUser
  <2> QED  BY <2>1, SyncServes
<1> HIDE DEF c
<1> QED  BY <1>1, <1>2, <1>3, <1>4, <1>5, ThinkFollows DEF c

\* The users that are left after a single one.
LEMMA NobodyLeft ==
  ASSUME NEW s, NEW m, calls[s].todo = <<m>>
  PROVE  Head(calls[s].todo) = m /\ NextUser(s) = Idle
<1>1. Head(<<m>>) = m /\ Tail(<<m>>) = <<>>  OBVIOUS
<1> QED  BY <1>1, SyncIs DEF NextUser

\* The row of the user is read; the reviewer has one, and others have none.
LEMMA ReadRowFollows ==
  ASSUME IInv, OneAtATime, Followed, NEW s \in Sessions, ReadRow(s)
  PROVE  Followed'
<1> DEFINE d == calls[s]
           v == Head(d.todo)
           mine == RowsOf("comparacao", v)
           data(r) == [d EXCEPT !.at = "data", !.who = v, !.round = r,
                                !.seen = work[<<"comparacao", v, r>>]]
<1>1. /\ At(s, "row") /\ UNCHANGED <<settings, responses, rows, reviews>>
      /\ \/ Cardinality(mine) # 1 /\ Go(s, NextUser(s))
         \/ \E r \in mine : mine = {r} /\ Go(s, data(r))
  BY DEF ReadRow
<1>2. UNCHANGED <<round, coding, llm, behind, work, verdicts, pairs>>
  BY <1>1 DEF settings, responses, rows, reviews
<1>3. "row" # Idle.at /\ d.at = "row" /\ IsCall(d)
  BY <1>1, CallIs DEF Idle, At, CallFits
<1>4. ASSUME NEW u \in Members, Reviewers = {u}, Tracked(u),
             Serves(d, u, round, Status(u), Due(u))
      PROVE  /\ d.todo = <<v>> /\ NextUser(s) = Idle
             /\ mine = IF v = u THEN {round} ELSE {}
             /\ Pursues(d, u) => v = u
  <2>1. PICK m \in Members : d.todo = <<m>>  BY <1>3, <1>4 DEF Serves
  <2>2. v = m /\ NextUser(s) = Idle  BY <2>1, NobodyLeft
  <2>3. v = u => mine = {round}  BY <1>4, RowOfReviewer DEF Tracked
  <2>4. v # u => mine = {}  BY <1>4, <2>2 DEF Reviewers
  <2>5. Pursues(d, u) => m = u
    <3>1. Pursues(d, u) => <<m>> = <<u>>  BY <1>3, <2>1 DEF Pursues
    <3>2. <<m>>[1] = m /\ <<u>>[1] = u  OBVIOUS
    <3> QED  BY <3>1, <3>2
  <2> QED  BY <2>1, <2>2, <2>3, <2>4, <2>5
<1>5. CASE Cardinality(mine) # 1 /\ Go(s, NextUser(s))
  <2>1. ASSUME NEW u \in Members, Reviewers = {u}, Tracked(u),
               Serves(d, u, round, Status(u), Due(u))
        PROVE  Serves(NextUser(s), u, round, Status(u), Due(u)) /\ ~Pursues(d, u)
    <3>1. Cardinality({round}) = 1  BY FS_Singleton
    <3> QED  BY <1>4, <1>5, <2>1, <3>1, IdleServes
  <2>2. IsVerdictCall(NextUser(s))  BY SyncIs DEF NextUser
  <2> HIDE DEF d, v, mine
  <2> QED  BY <1>1, <1>2, <1>3, <1>5, <2>1, <2>2, ThinkFollows DEF d
<1>6. ASSUME NEW r \in mine, Go(s, data(r))
      PROVE  Followed'
  <2> DEFINE c == data(r)
  <2>1. /\ c.at = "data" /\ c.who = v /\ c.round = r /\ c.todo = d.todo
        /\ c.seen = work[Row(v, r)]
    BY <1>3 DEF IsCall, Columns, Row
  <2>2. IsVerdictCall(c)  BY <2>1 DEF IsVerdictCall, VerdictStages
  <2>3. ASSUME NEW u \in Members, Reviewers = {u}, Tracked(u),
               Serves(d, u, round, Status(u), Due(u))
        PROVE  Serves(c, u, round, Status(u), Due(u)) /\ Pursues(c, u)
    <3>1. v = u /\ r = round /\ d.todo = <<v>>  BY <1>4, <1>6, <2>3
    <3> HIDE DEF c, v, d
    <3> QED  BY <2>1, <3>1 DEF Serves, Pursues, Status
  <2> HIDE DEF c, d, v, mine
  <2> QED  BY <1>1, <1>2, <1>3, <1>6, <2>2, <2>3, ThinkFollows DEF c, d
<1> QED  BY <1>1, <1>5, <1>6

\* The verdicts are read: the status is the one that is due, or is to be written.
LEMMA ReadDataFollows ==
  ASSUME IInv, OneAtATime, Followed, NEW s \in Sessions, ReadData(s)
  PROVE  Followed'
<1> DEFINE d == calls[s]
           next == ResolveStatus(DivergentFields(Qualified), Reviewed(d.who))
           write == [d EXCEPT !.at = "write", !.seen = next]
           settled == Cardinality(Qualified) < 2 \/ next = d.seen
<1>1. /\ At(s, "data") /\ UNCHANGED <<settings, responses, rows, reviews>>
      /\ Go(s, IF settled THEN NextUser(s) ELSE write)
  BY DEF ReadData
<1>2. UNCHANGED <<round, coding, llm, behind, work, verdicts, pairs>>
  BY <1>1 DEF settings, responses, rows, reviews
<1>3. "data" # Idle.at /\ d.at = "data" /\ IsCall(d)
  BY <1>1, CallIs DEF Idle, At, CallFits
<1>4. ASSUME NEW u \in Members, Reviewers = {u}, Tracked(u),
             Serves(d, u, round, Status(u), Due(u))
      PROVE  /\ d.who = u /\ d.round = round /\ d.todo = <<u>> /\ NextUser(s) = Idle
             /\ next = Due(u) /\ d.seen = Status(u)
             /\ settled => Status(u) = Due(u)
  <2>1. /\ d.who = u /\ d.round = round /\ d.todo = <<u>> /\ d.seen = Status(u)
        /\ Cardinality(Qualified) < 2 => Status(u) = Due(u)
    BY <1>3, <1>4 DEF Serves, Tracked
  <2>2. NextUser(s) = Idle  BY <2>1, NobodyLeft
  <2>3. next = Due(u)  BY <2>1 DEF Due
  <2> HIDE DEF d, next
  <2> QED  BY <2>1, <2>2, <2>3
<1>5. CASE settled
  <2>1. ASSUME NEW u \in Members, Reviewers = {u}, Tracked(u),
               Serves(d, u, round, Status(u), Due(u))
        PROVE  Serves(NextUser(s), u, round, Status(u), Due(u)) /\ Status(u) = Due(u)
    BY <1>4, <1>5, <2>1, IdleServes
  <2>2. IsVerdictCall(NextUser(s)) /\ Go(s, NextUser(s))
    BY <1>1, <1>5, SyncIs DEF NextUser
  <2> HIDE DEF d, next, settled
  <2> QED  BY <1>1, <1>2, <1>3, <2>1, <2>2, ThinkFollows DEF d
<1>6. CASE ~settled
  <2>1. write.at = "write" /\ write.seen = next
    BY <1>3 DEF IsCall, Columns
  <2>2. write.who = d.who /\ write.round = d.round /\ write.todo = d.todo
    BY <1>3 DEF IsCall, Columns
  <2>3. IsVerdictCall(write)  BY <2>1 DEF IsVerdictCall, VerdictStages
  <2>4. Go(s, write)  BY <1>1, <1>6
  <2> HIDE DEF d, next, write, settled
  <2>5. ASSUME NEW u \in Members, Reviewers = {u}, Tracked(u),
               Serves(d, u, round, Status(u), Due(u))
        PROVE  Serves(write, u, round, Status(u), Due(u)) /\ Pursues(write, u)
    BY <1>4, <2>1, <2>2, <2>5 DEF Serves, Pursues
  <2> QED  BY <1>1, <1>2, <1>3, <2>3, <2>4, <2>5, ThinkFollows DEF d
<1> QED  BY <1>5, <1>6

\* The status is written: no rule refuses it to a reviewer who is alone and did not code.
LEMMA WriteStatusFollows ==
  ASSUME IInv, OneAtATime, Followed, NEW s \in Sessions, WriteStatus(s)
  PROVE  Followed'
<1> DEFINE d == calls[s]
           refused == \/ work[Row(d.who, d.round)] = "none"
                      \/ Refused("comparacao", d.who, d.round, d.seen)
<1>1. /\ At(s, "write") /\ UNCHANGED <<settings, responses, reviews>>
      /\ Go(s, NextUser(s))
      /\ IF refused THEN UNCHANGED rows ELSE Set("comparacao", d.who, d.round, d.seen)
  BY DEF WriteStatus, Row
<1>2. UNCHANGED <<round, coding, llm, behind, verdicts, pairs>>
  BY <1>1 DEF settings, responses, reviews
<1>3. "write" # Idle.at /\ d.at = "write" /\ d.seen \in Statuses \ {"none"}
  BY <1>1, CallIs DEF Idle, At, CallFits
<1>4. /\ scope' = scope /\ \A t \in Sessions : t # s => calls[t] = Idle
      /\ \A u \in Members : Reviewers = {u} =>
           Tracked(u) /\ Serves(d, u, round, Status(u), Due(u))
  BY <1>1, <1>3, StageAlone
<1>5. ~refused => \A m \in Members, q \in Rounds :
        work'[Row(m, q)] = IF m = d.who /\ q = d.round THEN d.seen ELSE work[Row(m, q)]
  <2>1. ASSUME NEW m \in Members, NEW q \in Rounds
        PROVE  Row(m, q) \in Types \X Members \X Rounds
    BY DEF Row, Types
  <2>2. ASSUME NEW m \in Members, NEW q \in Rounds
        PROVE  Row(m, q) = Row(d.who, d.round) <=> m = d.who /\ q = d.round
    BY DEF Row
  <2>3. ~refused => work' = [work EXCEPT ![Row(d.who, d.round)] = d.seen]
    BY <1>1 DEF Set, Row
  <2>4. work \in [Types \X Members \X Rounds -> Statuses]  BY DEF IInv, TypeOK
  <2> HIDE DEF d, refused
  <2> QED  BY <2>1, <2>2, <2>3, <2>4
<1>6. refused => \A m, q : work'[Row(m, q)] = work[Row(m, q)]
  BY <1>1 DEF rows
<1>7. ~refused => work[Row(d.who, d.round)] # "none"
  OBVIOUS
<1>8. IsVerdictCall(NextUser(s))  BY SyncIs DEF NextUser
<1>9. ASSUME NEW u \in Members, Reviewers = {u}
      PROVE  /\ Status(u)' = Due(u)'
             /\ Serves(NextUser(s), u, round, Status(u)', Due(u)')
  <2>1. /\ Tracked(u) /\ d.who = u /\ d.round = round /\ d.todo = <<u>> /\ d.seen = Due(u)
    BY <1>3, <1>4, <1>9 DEF Serves
  <2>2. NextUser(s) = Idle  BY <2>1, NobodyLeft
  <2>3. Due(u)' = Due(u)
    <3>1. Reviewed(u)' = Reviewed(u)  BY <1>2 DEF Reviewed
    <3> QED  BY <1>2, <1>4, <3>1, SameDue
  <2>4. ~refused
    <3>1. RowsOf("comparacao", u) = {round} /\ work[Row(u, round)] # "none"
      BY <1>9, <2>1, RowOfReviewer DEF Tracked, Status
    <3>2. ASSUME NEW x \in ActiveComparisons PROVE x = <<u, round>>
      <4>1. PICK m \in Members, q \in Rounds : x = <<m, q>> /\ work[Row(m, q)] \in Open
        BY DEF ActiveComparisons, Row
      <4>2. m = u  BY <1>9, <4>1 DEF Reviewers, RowsOf, Row, Open
      <4>3. q = round  BY <3>1, <4>1, <4>2 DEF RowsOf, Row, Open
      <4> QED  BY <4>1, <4>2, <4>3
    <3>3. coding[u] = Null  BY <2>1 DEF Tracked
    <3> QED  BY <2>1, <3>1, <3>2, <3>3 DEF Refused
  <2>5. round \in Rounds /\ round' = round  BY <1>2 DEF IInv, TypeOK
  <2>6. Status(u)' = Due(u)
    <3>1. work'[Row(u, round)] = d.seen  BY <1>5, <2>1, <2>4, <2>5
    <3> QED  BY <2>1, <2>5, <3>1 DEF Status, Row
  <2> HIDE DEF d, refused
  <2> QED  BY <2>2, <2>3, <2>6, IdleServes
<1>10. \A m \in Members, q \in Rounds :
         work'[Row(m, q)] = "none" <=> work[Row(m, q)] = "none"
  BY <1>3, <1>5, <1>6, <1>7
<1> HIDE DEF d, refused
<1> QED  BY <1>1, <1>2, <1>4, <1>8, <1>9, <1>10, FollowStep

\* At first nothing runs, and the status is the one that is due.
LEMMA InitFollowed == Init /\ IInv /\ FollowedAtFirst => Followed
<1> SUFFICES ASSUME Init, IInv, FollowedAtFirst, OneAtATime
             PROVE  /\ OneCall
                    /\ \A s \in Sessions : IsVerdictCall(calls[s])
                    /\ \A u \in Members : Reviewers = {u} => Tracked(u)
  BY DEF Followed
<1>1. \A s \in Sessions : calls[s] = Idle  BY DEF Init
<1>2. ASSUME NEW u \in Members, Reviewers = {u}
      PROVE  Tracked(u)
  <2>1. \A r \in Rounds : work[Row(u, r)] # "none" => r = round
    <3>1. \A r \in Rounds : Row(u, r) \in Types \X Members \X Rounds  BY DEF Row, Types
    <3>2. round = 1 /\ work = [x \in Types \X Members \X Rounds |->
             IF x[3] # 1 THEN "none"
             ELSE IF x[1] = "codificacao" THEN scope.codings[x[2]]
             ELSE scope.comparisons[x[2]]]
      BY DEF Init
    <3> QED  BY <3>1, <3>2 DEF Row
  <2>2. Status(u) = Due(u)
    <3>1. Status(u) \in Statuses \ {"none"}  BY <1>2, <2>1, RowOfReviewer
    <3> QED  BY <1>2, <3>1, DueFollows DEF FollowedAtFirst
  <2>3. coding[u] = Null /\ OnlyPairer(u)  BY <1>2 DEF FollowedAtFirst
  <2> QED  BY <1>1, <2>1, <2>2, <2>3, IdleServes DEF Tracked
<1> QED  BY <1>1, <1>2, IdleServes DEF OneCall

\* No step changes the scope.
LEMMA ScopeStays ==
  ASSUME NEW s \in Sessions, Start(s) \/ Continue(s)
  PROVE  scope' = scope
<1>1. CASE Start(s)
  <2>1. ASSUME NEW op, Begin(s, op) PROVE scope' = scope  BY <2>1 DEF Begin
  <2>2. ASSUME NEW m \in Members, NEW a \in scope.inputs, Save(s, m, a) PROVE scope' = scope
    BY <2>1, <2>2 DEF Save
  <2>3. ASSUME NEW m \in Members, NEW f \in Fields, NEW kind, SubmitVerdict(s, m, f, kind)
        PROVE  scope' = scope
    BY <2>1, <2>3 DEF SubmitVerdict
  <2>4. ASSUME NEW m \in Members, NEW f \in Fields, NEW group,
               ConfirmEquivalent(s, m, f, group)
        PROVE  scope' = scope
    BY <2>1, <2>4 DEF ConfirmEquivalent
  <2>5. ASSUME NEW m \in Members, NEW p, UnmarkPair(s, m, p) PROVE scope' = scope
    BY <2>1, <2>5 DEF UnmarkPair
  <2>6. ASSUME NEW m \in Members, MarkReviewed(s, m) \/ ReadCycle(s, m) PROVE scope' = scope
    BY <2>1, <2>6 DEF MarkReviewed, ReadCycle
  <2>7. ASSUME NEW m \in Members, NEW enabled, Permit(s, m, enabled) PROVE scope' = scope
    BY <2>1, <2>7 DEF Permit
  <2>8. ASSUME NEW t \in Types, ClearPending(s, t) PROVE scope' = scope
    BY <2>1, <2>8 DEF ClearPending
  <2>9. ASSUME NEW t, NEW drawn, NEW replace, NEW fresh, Draw(s, t, drawn, replace, fresh)
        PROVE  scope' = scope
    BY <2>1, <2>9 DEF Draw
  <2>10. ASSUME NEW a, PublishLlm(s, a) PROVE scope' = scope
    BY <2>1, <2>10 DEF PublishLlm
  <2>11. ASSUME RaiseFloor(s) \/ ReplaceDocument(s) \/ ToggleScope(s) PROVE scope' = scope
    BY <2>1, <2>11 DEF RaiseFloor, ReplaceDocument, ToggleScope
  <2> QED
    BY <1>1, <2>2, <2>3, <2>4, <2>5, <2>6, <2>7, <2>8, <2>9, <2>10, <2>11 DEF Start
<1>2. CASE Continue(s)
  <2>1. \E stage : At(s, stage)
    BY <1>2 DEF Continue, SetCodingStatus, Analyse, ChooseReviewer, AssignReviewer,
                ReadComment, WriteComment, ConfirmVerdict, ListReviewers, ReadRow, ReadData,
                WriteStatus, DeriveStatus, InsertCoding, Promote, RemoveRows, Apply
  <2> QED  BY <2>1 DEF At
<1> QED  BY <1>1, <1>2

\* Of the calls that begin, these are the ones that the scope lets through.
LEMMA StartFollows ==
  ASSUME IInv, OneAtATime, Followed, NEW s \in Sessions, Start(s)
  PROVE  Followed'
<1>1. ASSUME NEW op, Begin(s, op) PROVE op \in {"verdict", "equivalent", "unmark"}
  BY <1>1, BeginAlone
<1>2. ASSUME NEW m \in Members, NEW a \in scope.inputs, Save(s, m, a) PROVE FALSE
  BY <1>1, <1>2 DEF Save, SaveKind
<1>3. ASSUME NEW m \in Members, MarkReviewed(s, m) \/ ReadCycle(s, m) PROVE FALSE
  BY <1>1, <1>3 DEF MarkReviewed, ReadCycle
<1>4. ASSUME NEW m \in Members, NEW enabled \in BOOLEAN, Permit(s, m, enabled) PROVE FALSE
  BY <1>1, <1>4 DEF Permit
<1>5. ASSUME NEW t \in Types, ClearPending(s, t) PROVE FALSE
  BY <1>1, <1>5 DEF ClearPending
<1>6. ASSUME NEW t \in Types, NEW drawn \in SUBSET Members, NEW replace \in BOOLEAN,
             NEW fresh \in BOOLEAN, Draw(s, t, drawn, replace, fresh)
      PROVE  FALSE
  BY <1>1, <1>6 DEF Draw
<1>7. ASSUME NEW a \in scope.inputs, PublishLlm(s, a) PROVE FALSE
  BY <1>1, <1>7 DEF PublishLlm
<1>8. ASSUME RaiseFloor(s) \/ ReplaceDocument(s) \/ ToggleScope(s) PROVE FALSE
  BY <1>1, <1>8 DEF RaiseFloor, ReplaceDocument, ToggleScope
<1> QED
  BY <1>2, <1>3, <1>4, <1>5, <1>6, <1>7, <1>8, SubmitVerdictFollows,
     ConfirmEquivalentFollows, UnmarkPairFollows DEF Start

\* Of the calls that go on, only the verdicts are at a stage.
LEMMA ContinueFollows ==
  ASSUME IInv, OneAtATime, Followed, NEW s \in Sessions, Continue(s)
  PROVE  Followed'
<1>1. ASSUME NEW stage, At(s, stage), stage # Idle.at PROVE stage \in VerdictStages
  BY <1>1, StageAlone
<1>2. /\ "status" # Idle.at /\ "analyse" # Idle.at /\ "choose" # Idle.at
      /\ "assign" # Idle.at /\ "derive" # Idle.at /\ "insert" # Idle.at
      /\ "promote" # Idle.at /\ "remove" # Idle.at /\ "apply" # Idle.at
  BY DEF Idle
<1>3. \A stage \in {"status", "analyse", "choose", "assign", "derive", "insert", "promote",
                    "remove", "apply"} : ~At(s, stage)
  BY <1>1, <1>2 DEF VerdictStages
<1>4. /\ ~SetCodingStatus(s) /\ ~Analyse(s) /\ ~ChooseReviewer(s) /\ ~AssignReviewer(s)
      /\ ~DeriveStatus(s) /\ ~InsertCoding(s) /\ ~Promote(s) /\ ~RemoveRows(s) /\ ~Apply(s)
  BY <1>3 DEF SetCodingStatus, Analyse, ChooseReviewer, AssignReviewer, DeriveStatus,
              InsertCoding, Promote, RemoveRows, Apply
<1> QED
  BY <1>4, ReadCommentFollows, WriteCommentFollows, ConfirmVerdictFollows,
     ListReviewersFollows, ReadRowFollows, ReadDataFollows, WriteStatusFollows DEF Continue

\* Every step of every call keeps the reviewer tracked.
LEMMA NextFollows == IInv /\ Followed /\ [Next]_vars => Followed'
<1> SUFFICES ASSUME IInv, Followed, [Next]_vars PROVE Followed'
  OBVIOUS
<1>1. CASE UNCHANGED vars
  <2>1. /\ UNCHANGED <<scope, round, coding, llm, behind, work, verdicts, pairs, calls>>
    BY <1>1 DEF vars
  <2>2. \A u : Status(u)' = Status(u) /\ Reviewed(u)' = Reviewed(u)
    BY <2>1 DEF Status, Reviewed
  <2>3. \A u : Due(u)' = Due(u)  BY <2>1, <2>2, SameDue
  <2>4. Qualified' = Qualified /\ Reviewers' = Reviewers /\ OneCall' = OneCall
    BY <2>1 DEF Qualified, Response, Respondents, Reviewers, RowsOf, Rounds, OneCall
  <2>5. ASSUME NEW u, Tracked(u) PROVE Tracked(u)'
    BY <2>1, <2>2, <2>3, <2>4, <2>5 DEF Tracked, OnlyPairer, Rounds
  <2> QED  BY <2>1, <2>4, <2>5 DEF Followed, OneAtATime, Only
<1>2. CASE Next
  <2>1. PICK s \in Sessions : Start(s) \/ Continue(s)  BY <1>2 DEF Next
  <2>2. scope' = scope  BY <2>1, ScopeStays
  <2>3. CASE OneAtATime  BY <2>1, <2>3, StartFollows, ContinueFollows
  <2>4. CASE ~OneAtATime  BY <2>2, <2>4 DEF Followed, OneAtATime, Only
  <2> QED  BY <2>3, <2>4
<1> QED  BY <1>1, <1>2

\* When no call runs, the status is the one that is due.
LEMMA FollowedDecides == IInv /\ Followed => VerdictsDecideStatus
<1> SUFFICES ASSUME IInv, Followed, OneAtATime, Quiet, NEW u \in Members, Reviewers = {u}
             PROVE  StatusFollows(u)
  BY DEF VerdictsDecideStatus, OneAtATime
<1>1. Tracked(u)  BY DEF Followed
<1>2. Status(u) = Due(u)  BY <1>1, IdleServes DEF Tracked, Quiet
<1>3. Status(u) \in Statuses \ {"none"}  BY <1>1, RowOfReviewer DEF Tracked
<1> QED  BY <1>2, <1>3, DueFollows

\* After verdicts, equivalences and their removal, one at a time, the status of the
\* only reviewer says what is left of the divergences, for any answers and fields: a
\* write lost to the trigger, a listing that misses the reviewer or a status that was
\* read before the verdict would leave it behind.
THEOREM StatusFollowsVerdicts == Spec /\ FollowedAtFirst => []VerdictsDecideStatus
<1>1. Init /\ IInv /\ FollowedAtFirst => Followed  BY InitFollowed
<1>2. IInv /\ Followed /\ [Next]_vars => Followed'  BY NextFollows
<1>3. IInv /\ Followed => VerdictsDecideStatus  BY FollowedDecides
<1> QED  BY <1>1, <1>2, <1>3, Invariance, PTL DEF Spec

-----------------------------------------------------------------------------
\* A comparison has a completed_at when it is concluded.

Timed == completed \in [Members \X Rounds -> Nat] /\ ConcludedHaveATime

\* A finite set of naturals has the maximum that Max names: there is no least
\* number of elements with which it could have none.
LEMMA MaxOfFinite ==
  ASSUME NEW S \in SUBSET Nat, IsFiniteSet(S), S # {}
  PROVE  Max(S) \in S
<1> DEFINE Unbounded(T) == /\ T \in SUBSET Nat /\ IsFiniteSet(T) /\ T # {}
                           /\ \A x \in T : \E y \in T : y > x
           Sizes == {n \in Nat : \E T : Unbounded(T) /\ Cardinality(T) = n}
<1>1. ASSUME NEW T, Unbounded(T)
      PROVE  Cardinality(T) \in Sizes /\ \E n \in Sizes : n < Cardinality(T)
  <2>1. PICK x \in T : TRUE  BY <1>1
  <2> DEFINE U == T \ {x}
  <2>2. IsFiniteSet(U) /\ Cardinality(U) = Cardinality(T) - 1
    BY <1>1, <2>1, FS_RemoveElement
  <2>3. U # {}
    <3>1. PICK y \in T : y > x  BY <1>1, <2>1
    <3> QED  BY <1>1, <2>1, <3>1
  <2>4. ASSUME NEW z \in U PROVE \E y \in U : y > z
    <3>1. PICK y \in T : y > z  BY <1>1
    <3>2. PICK w \in T : w > x  BY <1>1, <2>1
    <3>3. CASE y # x  BY <3>1, <3>3
    <3>4. CASE y = x
      <4>1. w > z /\ w # x  BY <1>1, <2>1, <3>1, <3>2, <3>4
      <4> QED  BY <4>1
    <3> QED  BY <3>3, <3>4
  <2>5. Unbounded(U)  BY <1>1, <2>2, <2>3, <2>4
  <2>6. Cardinality(T) \in Nat /\ Cardinality(U) \in Nat
    BY <1>1, <2>2, FS_CardinalityType
  <2> HIDE DEF U, Unbounded
  <2> QED  BY <1>1, <2>2, <2>5, <2>6
<1>2. Sizes = {}
  <2>1. SUFFICES ASSUME Sizes # {} PROVE FALSE
    OBVIOUS
  <2>2. PICK n \in Sizes : \A k \in Sizes : ~(<<k, n>> \in OpToRel(<, Nat))
    <3>1. Sizes \subseteq Nat  OBVIOUS
    <3> HIDE DEF Sizes
    <3> QED  BY <2>1, <3>1, NatLessThanWellFounded, WFMin
  <2>3. PICK T : Unbounded(T) /\ Cardinality(T) = n  BY <2>2
  <2>4. PICK k \in Sizes : k < n  BY <1>1, <2>3
  <2>5. <<k, n>> \in OpToRel(<, Nat)  BY <2>2, <2>4 DEF OpToRel
  <2> QED  BY <2>2, <2>5
<1>3. ~Unbounded(S)
  <2> HIDE DEF Unbounded, Sizes
  <2> QED  BY <1>1, <1>2
<1>4. \E x \in S : \A y \in S : x >= y  BY <1>3
<1> QED  BY <1>4 DEF Max

\* The time of a write.
LEMMA NowIsATime ==
  ASSUME scope \in Scopes, completed \in [Members \X Rounds -> Nat], Members # {}
  PROVE  Now \in Nat \ {0}
<1>1. IsFiniteSet(Members \X Rounds) /\ Members \X Rounds # {}
  <2>1. scope.rounds \in Nat \ {0}  BY ComparisonAssumption
  <2>2. IsFiniteSet(1..scope.rounds)
    <3>1. scope.rounds \in Int  BY <2>1
    <3> QED  BY <3>1, FS_Interval
  <2>3. IsFiniteSet(Rounds) /\ 1 \in Rounds  BY <2>1, <2>2 DEF Rounds
  <2>4. IsFiniteSet(Members)  BY ComparisonAssumption
  <2>5. IsFiniteSet(Members \X Rounds)  BY <2>3, <2>4, FS_Product
  <2>6. PICK m \in Members : TRUE  OBVIOUS
  <2>7. <<m, 1>> \in Members \X Rounds  BY <2>3
  <2> QED  BY <2>5, <2>7
<1>2. Range(completed) \in SUBSET Nat /\ Range(completed) # {}
  BY <1>1 DEF Range
<1>3. IsFiniteSet(Range(completed))
  <2>1. completed \in Surjection(Members \X Rounds, Range(completed))
    BY DEF Surjection, Range
  <2> QED  BY <1>1, <2>1, FS_Surjection
<1>4. Max(Range(completed)) \in Nat  BY <1>2, <1>3, MaxOfFinite
<1> QED  BY <1>4 DEF Now

\* A step that leaves each comparison as it was, or writes its status with its time.
LEMMA TimedRows ==
  ASSUME Timed, scope' = scope, completed' \in [Members \X Rounds -> Nat],
         \A m \in Members, r \in Rounds :
           \/ /\ work'[Row(m, r)] = work[Row(m, r)]
              /\ completed'[<<m, r>>] = completed[<<m, r>>]
           \/ work'[Row(m, r)] = "concluido" <=> completed'[<<m, r>>] # 0
  PROVE  Timed'
<1>1. \A m \in Members, r \in Rounds :
        work'[Row(m, r)] = "concluido" <=> completed'[<<m, r>>] # 0
  <2>1. \A m \in Members, r \in Rounds :
          work[Row(m, r)] = "concluido" <=> completed[<<m, r>>] # 0
    <3>1. ASSUME NEW m \in Members, NEW r \in Rounds
          PROVE  work[Row(m, r)] = "concluido" <=> completed[<<m, r>>] # 0
      <4>1. <<m, r>> \in Members \X Rounds /\ <<m, r>>[1] = m /\ <<m, r>>[2] = r
        OBVIOUS
      <4> QED  BY <4>1 DEF Timed, ConcludedHaveATime, Row
    <3> QED  BY <3>1
  <2> QED  BY <2>1
<1>2. ConcludedHaveATime'
  <2>1. ASSUME NEW x \in Members \X Rounds
        PROVE  work'[<<"comparacao", x[1], x[2]>>] = "concluido" <=> completed'[x] # 0
    <3>1. x = <<x[1], x[2]>> /\ x[1] \in Members /\ x[2] \in Rounds  OBVIOUS
    <3> QED  BY <1>1, <3>1 DEF Row
  <2> QED  BY <2>1 DEF ConcludedHaveATime, Rounds
<1> QED  BY <1>2 DEF Timed, Rounds

\* A step that touches no row.
LEMMA SameTimes ==
  ASSUME Timed, scope' = scope, UNCHANGED rows
  PROVE  Timed'
BY DEF Timed, ConcludedHaveATime, rows, Rounds

\* The status of a comparison, or of a coding, is written.
LEMMA SetTimed ==
  ASSUME IInv, Timed, scope' = scope, NEW t \in Types, NEW m, NEW r,
         NEW next \in Statuses, Set(t, m, r, next)
  PROVE  Timed'
<1>0. completed \in [Members \X Rounds -> Nat]  BY DEF Timed
<1>1. CASE t = "codificacao"
  <2>1. completed' = completed  BY <1>1 DEF Set
  <2>2. \A u \in Members, q \in Rounds : work'[Row(u, q)] = work[Row(u, q)]
    BY <1>1, SetCoding
  <2> QED  BY <1>0, <2>1, <2>2, TimedRows
<1>2. CASE t = "comparacao"
  <2> DEFINE T == IF next = "concluido" THEN Now ELSE 0
  <2>1. completed' = [completed EXCEPT ![<<m, r>>] = T]
    BY <1>2 DEF Set
  <2>2. Members # {} => T \in Nat /\ (T # 0 <=> next = "concluido")
    BY <1>0, NowIsATime DEF IInv, TypeOK
  <2>3. work \in [Types \X Members \X Rounds -> Statuses]  BY DEF IInv, TypeOK
  <2>4. work' = [work EXCEPT ![Row(m, r)] = next]  BY <1>2 DEF Set, Row
  <2> HIDE DEF T
  <2>5. completed' \in [Members \X Rounds -> Nat]  BY <1>0, <2>1, <2>2
  <2>6. ASSUME NEW u \in Members, NEW q \in Rounds
        PROVE  \/ /\ work'[Row(u, q)] = work[Row(u, q)]
                  /\ completed'[<<u, q>>] = completed[<<u, q>>]
               \/ work'[Row(u, q)] = "concluido" <=> completed'[<<u, q>>] # 0
    <3>1. Row(u, q) \in Types \X Members \X Rounds  BY DEF Row, Types
    <3>2. CASE <<u, q>> = <<m, r>>
      <4>1. Row(u, q) = Row(m, r)  BY <3>2 DEF Row
      <4>2. work'[Row(u, q)] = next  BY <2>3, <2>4, <3>1, <4>1
      <4>3. completed'[<<u, q>>] = T  BY <1>0, <2>1, <3>2
      <4> QED  BY <2>2, <4>2, <4>3
    <3>3. CASE <<u, q>> # <<m, r>>
      <4>1. Row(u, q) # Row(m, r)  BY <3>3 DEF Row
      <4> QED  BY <1>0, <2>1, <2>3, <2>4, <3>1, <3>3, <4>1
    <3> QED  BY <3>2, <3>3
  <2> QED  BY <2>5, <2>6, TimedRows
<1> QED  BY <1>1, <1>2 DEF Types

\* Comparisons that were not concluded are deleted, or concluded ones with their time.
LEMMA DropTimed ==
  ASSUME IInv, Timed, scope' = scope, NEW gone, Drop(gone)
  PROVE  Timed'
<1>1. work \in [Types \X Members \X Rounds -> Statuses]  BY DEF IInv, TypeOK
<1>2. completed \in [Members \X Rounds -> Nat]  BY DEF Timed
<1>3. work' = [x \in Types \X Members \X Rounds |-> IF x \in gone THEN "none" ELSE work[x]]
  BY <1>1 DEF Drop
<1>4. completed' = [x \in Members \X Rounds |->
                     IF Row(x[1], x[2]) \in gone THEN 0 ELSE completed[x]]
  BY <1>2 DEF Drop, Row
<1>5. ASSUME NEW m \in Members, NEW r \in Rounds
      PROVE  /\ work'[Row(m, r)] = IF Row(m, r) \in gone THEN "none" ELSE work[Row(m, r)]
             /\ completed'[<<m, r>>] = IF Row(m, r) \in gone THEN 0 ELSE completed[<<m, r>>]
  <2>1. Row(m, r) \in Types \X Members \X Rounds  BY DEF Row, Types
  <2>2. <<m, r>> \in Members \X Rounds /\ <<m, r>>[1] = m /\ <<m, r>>[2] = r  OBVIOUS
  <2>3. work'[Row(m, r)] = IF Row(m, r) \in gone THEN "none" ELSE work[Row(m, r)]
    BY <1>3, <2>1
  <2>4. completed'[<<m, r>>] = IF Row(m, r) \in gone THEN 0 ELSE completed[<<m, r>>]
    BY <1>4, <2>2
  <2> QED  BY <2>3, <2>4
<1>6. completed' \in [Members \X Rounds -> Nat]  BY <1>2, <1>4
<1> QED  BY <1>5, <1>6, TimedRows

\* The comparisons of a reviewer are concluded, now.
LEMMA MarkReviewedTimed ==
  ASSUME IInv, Timed, NEW s \in Sessions, NEW u \in Members, MarkReviewed(s, u)
  PROVE  Timed'
<1> DEFINE mine == {<<u, r>> : r \in RowsOf("comparacao", u)}
<1>1. scope' = scope  BY DEF MarkReviewed, Begin
<1>2. work \in [Types \X Members \X Rounds -> Statuses]  BY DEF IInv, TypeOK
<1>3. completed \in [Members \X Rounds -> Nat] /\ Now \in Nat \ {0}
  BY NowIsATime DEF Timed, IInv, TypeOK
<1>4. work' = [x \in Types \X Members \X Rounds |->
         IF x[1] = "comparacao" /\ <<x[2], x[3]>> \in mine THEN "concluido" ELSE work[x]]
  BY <1>2 DEF MarkReviewed
<1>5. completed' = [x \in Members \X Rounds |-> IF x \in mine THEN Now ELSE completed[x]]
  BY <1>3 DEF MarkReviewed
<1> HIDE DEF mine
<1>6. ASSUME NEW m \in Members, NEW r \in Rounds
      PROVE  /\ work'[Row(m, r)] =
                  IF <<m, r>> \in mine THEN "concluido" ELSE work[Row(m, r)]
             /\ completed'[<<m, r>>] =
                  IF <<m, r>> \in mine THEN Now ELSE completed[<<m, r>>]
  <2>1. /\ Row(m, r) \in Types \X Members \X Rounds /\ Row(m, r)[1] = "comparacao"
        /\ Row(m, r)[2] = m /\ Row(m, r)[3] = r
    BY DEF Row, Types
  <2> QED  BY <1>4, <1>5, <2>1
<1>7. completed' \in [Members \X Rounds -> Nat]  BY <1>3, <1>5
<1> HIDE DEF mine
<1> QED  BY <1>1, <1>3, <1>6, <1>7, TimedRows

\* A coding becomes a comparison, with the time of the coding.
LEMMA PromoteTimed ==
  ASSUME IInv, Timed, NEW s \in Sessions, Promote(s)
  PROVE  Timed'
<1> DEFINE m == calls[s].who
           r == calls[s].round
           status == work[<<"codificacao", m, r>>]
<1>1. scope' = scope  BY DEF Promote, At
<1>2. CASE UNCHANGED rows  BY <1>1, <1>2, SameTimes
<1>3. ASSUME NEW time \in 1..Now,
             work' = [work EXCEPT ![<<"codificacao", m, r>>] = "none",
                                  ![<<"comparacao", m, r>>] = status],
             completed' = [completed EXCEPT ![<<m, r>>] =
                             IF status = "concluido" THEN time ELSE 0]
      PROVE  Timed'
  <2>1. m \in Members /\ r \in Rounds
    BY CallIs DEF CallFits, Rounds, Promote, At
  <2>2. work \in [Types \X Members \X Rounds -> Statuses]  BY DEF IInv, TypeOK
  <2>3. completed \in [Members \X Rounds -> Nat]  BY DEF Timed
  <2>4. time \in Nat \ {0}
    <3>1. Now \in Nat  BY <2>1, <2>3, NowIsATime DEF IInv, TypeOK
    <3> QED  BY <3>1
  <2>5. /\ <<"codificacao", m, r>> \in Types \X Members \X Rounds
        /\ \A u \in Members, q \in Rounds :
             /\ Row(u, q) \in Types \X Members \X Rounds
             /\ Row(u, q) # <<"codificacao", m, r>>
             /\ Row(u, q) = Row(m, r) <=> u = m /\ q = r
    BY <2>1 DEF Row, Types
  <2>6. work' = [work EXCEPT ![<<"codificacao", m, r>>] = "none", ![Row(m, r)] = status]
    BY <1>3 DEF Row
  <2>7. completed' = [completed EXCEPT
          ![<<m, r>>] = IF status = "concluido" THEN time ELSE 0]
    BY <1>3
  <2> HIDE DEF m, r, status
  <2>8. ASSUME NEW u \in Members, NEW q \in Rounds
        PROVE  \/ /\ work'[Row(u, q)] = work[Row(u, q)]
                  /\ completed'[<<u, q>>] = completed[<<u, q>>]
               \/ work'[Row(u, q)] = "concluido" <=> completed'[<<u, q>>] # 0
    <3>1. CASE u = m /\ q = r
      <4>1. work'[Row(u, q)] = status  BY <2>2, <2>5, <2>6, <3>1
      <4>2. completed'[<<u, q>>] = IF status = "concluido" THEN time ELSE 0
        BY <2>3, <2>7, <3>1
      <4> QED  BY <2>4, <4>1, <4>2
    <3>2. CASE ~(u = m /\ q = r)
      <4>1. work'[Row(u, q)] = work[Row(u, q)]  BY <2>2, <2>5, <2>6, <3>2
      <4>2. completed'[<<u, q>>] = completed[<<u, q>>]  BY <2>3, <2>7, <3>2
      <4> QED  BY <4>1, <4>2
    <3> QED  BY <3>1, <3>2
  <2>9. completed' \in [Members \X Rounds -> Nat]  BY <2>3, <2>4, <2>7
  <2> QED  BY <1>1, <2>8, <2>9, TimedRows
<1> QED  BY <1>2, <1>3 DEF Promote

\* A draw writes comparisons as pending, where there were none.
LEMMA ApplyTimed ==
  ASSUME IInv, Timed, NEW s \in Sessions, Apply(s)
  PROVE  Timed'
<1> DEFINE c == calls[s]
           users == ToSet(ToUsers(c.todo))
           born(m) == CHOOSE i \in DOMAIN c.todo : c.todo[i][1] = m
<1>1. c.at = "apply" /\ CallFits(c, scope, Judges) /\ scope' = scope
  BY CallIs DEF Apply, At
<1>2. CASE UNCHANGED rows  BY <1>1, <1>2, SameTimes
<1>3. ASSUME NEW target, Applies(c), c.op = "round" \/ target = round,
             work' = [x \in DOMAIN work |->
               IF x[1] = c.field /\ x[3] = target /\ x[2] \in users
               THEN c.todo[born(x[2])][2] ELSE Cleared(c)[x]],
             completed' = completed
      PROVE  Timed'
  <2>1. work \in [Types \X Members \X Rounds -> Statuses]  BY DEF IInv, TypeOK
  <2>2. completed' \in [Members \X Rounds -> Nat]  BY <1>3 DEF Timed
  <2>3. c.field = "comparacao" =>
          /\ target = round /\ c.op = "draw"
          /\ \A m \in users : c.todo[born(m)][2] = "pendente"
    <3>1. \A m \in users : \E i \in DOMAIN c.todo : c.todo[i][1] = m
      BY DEF ToSet, ToUsers
    <3>2. \A m \in users : born(m) \in DOMAIN c.todo  BY <3>1
    <3>3. c.field = "comparacao" =>
            c.op = "draw" /\ \A i \in DOMAIN c.todo : c.todo[i][2] = "pendente"
      BY <1>1 DEF CallFits
    <3> HIDE DEF c, users, born
    <3> QED  BY <1>3, <3>2, <3>3
  <2>4. ASSUME NEW m \in Members, NEW r \in Rounds
        PROVE  \/ /\ work'[Row(m, r)] = work[Row(m, r)]
                  /\ completed'[<<m, r>>] = completed[<<m, r>>]
               \/ work'[Row(m, r)] = "concluido" <=> completed'[<<m, r>>] # 0
    <3>1. /\ Row(m, r) \in Types \X Members \X Rounds /\ Row(m, r)[1] = "comparacao"
          /\ Row(m, r)[2] = m /\ Row(m, r)[3] = r
      BY DEF Row, Types
    <3>2. work[Row(m, r)] = "concluido" <=> completed[<<m, r>>] # 0
      <4>1. <<m, r>> \in Members \X Rounds /\ <<m, r>>[1] = m /\ <<m, r>>[2] = r
        OBVIOUS
      <4> QED  BY <4>1 DEF Timed, ConcludedHaveATime, Row
    <3>3. Cleared(c)[Row(m, r)] =
            IF c.op = "draw" /\ c.flag /\ Row(m, r) \in PendingNow(c.field)
            THEN "none" ELSE work[Row(m, r)]
      BY <2>1, <3>1 DEF Cleared
    <3>4. Row(m, r) \in PendingNow(c.field) => work[Row(m, r)] = "pendente"
      BY DEF PendingNow
    <3>5. work'[Row(m, r)] = IF "comparacao" = c.field /\ r = target /\ m \in users
                             THEN c.todo[born(m)][2] ELSE Cleared(c)[Row(m, r)]
      <4> HIDE DEF c, users, born
      <4> QED  BY <1>3, <2>1, <3>1
    <3>6. CASE "comparacao" = c.field /\ r = target /\ m \in users
      <4>1. Cleared(c)[Row(m, r)] = "none"
        BY <1>3, <2>3, <3>6 DEF Applies, Row
      <4>2. work[Row(m, r)] # "concluido" /\ work'[Row(m, r)] = "pendente"
        BY <2>3, <3>3, <3>4, <3>5, <3>6, <4>1
      <4> QED  BY <1>3, <3>2, <4>2
    <3>7. CASE ~("comparacao" = c.field /\ r = target /\ m \in users)
      <4>1. work'[Row(m, r)] = Cleared(c)[Row(m, r)]  BY <3>5, <3>7
      <4> HIDE DEF c
      <4> QED  BY <1>3, <3>2, <3>3, <3>4, <4>1
    <3> QED  BY <3>6, <3>7
  <2> QED  BY <1>1, <2>2, <2>4, TimedRows
<1>4. CASE Applies(c)
  <2> DEFINE target == IF c.op = "round" THEN round + 1 ELSE round
  <2>1. /\ work' = [x \in DOMAIN work |->
             IF x[1] = c.field /\ x[3] = target /\ x[2] \in users
             THEN c.todo[born(x[2])][2] ELSE Cleared(c)[x]]
        /\ completed' = completed
    BY <1>4 DEF Apply
  <2>2. c.op = "round" \/ target = round  OBVIOUS
  <2> HIDE DEF target, c, users, born
  <2> QED  BY <1>3, <1>4, <2>1, <2>2
<1>5. CASE ~Applies(c)  BY <1>2, <1>5 DEF Apply
<1> QED  BY <1>4, <1>5

\* The document is replaced: concluded comparisons stay as they were.
LEMMA ReplaceDocumentTimed ==
  ASSUME IInv, Timed, NEW s \in Sessions, ReplaceDocument(s)
  PROVE  Timed'
<1>1. scope' = scope /\ completed' = completed  BY DEF ReplaceDocument, Begin
<1>2. completed \in [Members \X Rounds -> Nat]  BY DEF Timed
<1>3. work' = [x \in Types \X Members \X Rounds |->
         IF work[x] = "none" \/ (x[1] = "comparacao" /\ work[x] = "concluido")
         THEN work[x] ELSE "pendente"]
  BY DEF ReplaceDocument, IInv, TypeOK
<1>4. ASSUME NEW m \in Members, NEW r \in Rounds
      PROVE  work'[Row(m, r)] = "concluido" <=> completed'[<<m, r>>] # 0
  <2>1. Row(m, r) \in Types \X Members \X Rounds /\ Row(m, r)[1] = "comparacao"
    BY DEF Row, Types
  <2>2. work[Row(m, r)] = "concluido" <=> completed[<<m, r>>] # 0
    <3>1. <<m, r>> \in Members \X Rounds /\ <<m, r>>[1] = m /\ <<m, r>>[2] = r
      OBVIOUS
    <3> QED  BY <3>1 DEF Timed, ConcludedHaveATime, Row
  <2>3. work'[Row(m, r)] = "concluido" <=> work[Row(m, r)] = "concluido"
    BY <1>3, <2>1
  <2> QED  BY <1>1, <2>2, <2>3
<1> QED  BY <1>1, <1>2, <1>4, TimedRows

\* The steps that write a status with Set.
LEMMA WritesTimed ==
  ASSUME IInv, Timed, NEW s \in Sessions,
         SetCodingStatus(s) \/ AssignReviewer(s) \/ WriteStatus(s) \/ InsertCoding(s)
  PROVE  Timed'
<1>1. CallFits(calls[s], scope, Judges)  BY CallIs
<1>2. {"codificacao", "comparacao"} \subseteq Types
      /\ {"none", "pendente", "em_andamento", "concluido"} \subseteq Statuses
  BY DEF Types, Statuses, Open
<1>3. CASE SetCodingStatus(s)
  <2> DEFINE row == work[<<"codificacao", calls[s].who, calls[s].round>>]
             next == IF row = "none" THEN row
                     ELSE IF calls[s].seen # "draft" THEN "concluido"
                     ELSE IF row = "concluido" THEN row ELSE "em_andamento"
  <2>1. scope' = scope /\ Set("codificacao", calls[s].who, calls[s].round, next)
    BY <1>3 DEF SetCodingStatus, At
  <2>2. next \in Statuses  BY <1>2
  <2> HIDE DEF next
  <2> QED  BY <1>2, <2>1, <2>2, SetTimed
<1>4. CASE AssignReviewer(s)
  <2>1. /\ scope' = scope
        /\ Set("comparacao", calls[s].who, round, "pendente") \/ UNCHANGED rows
    BY <1>4 DEF AssignReviewer, At
  <2> QED  BY <1>2, <2>1, SetTimed, SameTimes
<1>5. CASE WriteStatus(s)
  <2>1. /\ scope' = scope /\ calls[s].at = "write"
        /\ \/ Set("comparacao", calls[s].who, calls[s].round, calls[s].seen)
           \/ UNCHANGED rows
    BY <1>5 DEF WriteStatus, At
  <2>2. calls[s].seen \in Statuses  BY <1>1, <2>1 DEF CallFits
  <2> QED  BY <1>2, <2>1, <2>2, SetTimed, SameTimes
<1>6. CASE InsertCoding(s)
  <2>1. /\ scope' = scope /\ calls[s].at = "insert"
        /\ \/ Set("codificacao", calls[s].who, round, calls[s].seen)
           \/ UNCHANGED rows
    BY <1>6 DEF InsertCoding, At
  <2>2. calls[s].seen \in Statuses  BY <1>1, <2>1 DEF CallFits
  <2> QED  BY <1>2, <2>1, <2>2, SetTimed, SameTimes
<1> QED  BY <1>3, <1>4, <1>5, <1>6

\* The steps that delete rows.
LEMMA DropsTimed ==
  ASSUME IInv, Timed, NEW s \in Sessions,
         \/ \E u \in Members, enabled \in BOOLEAN : Permit(s, u, enabled)
         \/ \E t \in Types : ClearPending(s, t)
         \/ RemoveRows(s)
  PROVE  Timed'
<1>1. \E gone : Drop(gone)  BY DEF Permit, ClearPending, RemoveRows
<1>2. (Start(s) \/ Continue(s)) => scope' = scope  BY ScopeStays
<1>3. Start(s) \/ Continue(s)  BY DEF Start, Continue
<1> QED  BY <1>1, <1>2, <1>3, DropTimed

\* Every step keeps the times.
LEMMA NextTimed == IInv /\ Timed /\ [Next]_vars => Timed'
<1> SUFFICES ASSUME IInv, Timed, [Next]_vars PROVE Timed'
  OBVIOUS
<1>1. CASE UNCHANGED vars
  <2>1. scope' = scope /\ UNCHANGED rows  BY <1>1 DEF vars, rows
  <2> QED  BY <2>1, SameTimes
<1>2. ASSUME NEW s \in Sessions, Start(s) PROVE Timed'
  <2>1. scope' = scope  BY <1>2, ScopeStays
  <2>2. UNCHANGED rows => Timed'  BY <2>1, SameTimes
  <2>3. CASE \E m \in Members, a \in scope.inputs : Save(s, m, a)
    BY <2>2, <2>3 DEF Save
  <2>4. CASE \E m \in Members, f \in Fields :
               \/ \E kind \in scope.kinds : SubmitVerdict(s, m, f, kind)
               \/ \E group \in SUBSET Respondents : ConfirmEquivalent(s, m, f, group)
    <3>1. ASSUME NEW m, NEW f, NEW kind, SubmitVerdict(s, m, f, kind) PROVE UNCHANGED rows
      BY <3>1 DEF SubmitVerdict
    <3>2. ASSUME NEW m, NEW f, NEW group, ConfirmEquivalent(s, m, f, group)
          PROVE  UNCHANGED rows
      BY <3>2 DEF ConfirmEquivalent
    <3> QED  BY <2>2, <2>4, <3>1, <3>2
  <2>5. CASE \E m \in Members : \E p \in pairs : UnmarkPair(s, m, p)
    BY <2>2, <2>5 DEF UnmarkPair
  <2>6. CASE \E m \in Members : MarkReviewed(s, m) \/ ReadCycle(s, m)
    BY <2>2, <2>6, MarkReviewedTimed DEF ReadCycle
  <2>7. CASE \/ \E m \in Members, enabled \in BOOLEAN : Permit(s, m, enabled)
             \/ \E t \in Types : ClearPending(s, t)
    BY <2>7, DropsTimed
  <2>8. CASE \E t \in Types, drawn \in SUBSET Members, replace, fresh \in BOOLEAN :
               Draw(s, t, drawn, replace, fresh)
    BY <2>2, <2>8 DEF Draw
  <2>9. CASE (\E a \in scope.inputs : PublishLlm(s, a)) \/ RaiseFloor(s) \/ ToggleScope(s)
    BY <2>2, <2>9 DEF PublishLlm, RaiseFloor, ToggleScope
  <2>10. CASE ReplaceDocument(s)  BY <2>10, ReplaceDocumentTimed
  <2> QED
    BY <1>2, <2>3, <2>4, <2>5, <2>6, <2>7, <2>8, <2>9, <2>10 DEF Start
<1>3. ASSUME NEW s \in Sessions, Continue(s) PROVE Timed'
  <2>1. scope' = scope  BY <1>3, ScopeStays
  <2>2. UNCHANGED rows => Timed'  BY <2>1, SameTimes
  <2>3. CASE \/ Analyse(s) \/ ChooseReviewer(s) \/ ReadComment(s) \/ WriteComment(s)
             \/ ConfirmVerdict(s) \/ ListReviewers(s) \/ ReadRow(s) \/ ReadData(s)
             \/ DeriveStatus(s)
    BY <2>2, <2>3 DEF Analyse, ChooseReviewer, ReadComment, WriteComment, ConfirmVerdict,
                      ListReviewers, ReadRow, ReadData, DeriveStatus
  <2> QED
    BY <1>3, <2>3, WritesTimed, DropsTimed, PromoteTimed, ApplyTimed DEF Continue
<1> QED  BY <1>2, <1>3, <1>1 DEF Next

\* At first the rows have the times of the scope.
LEMMA InitTimed == Init /\ IInv => Timed
<1> SUFFICES ASSUME Init, IInv PROVE Timed
  OBVIOUS
<1>1. /\ scope.completed \in [Members -> Nat]
      /\ \A m \in Members : scope.comparisons[m] = "concluido" <=> scope.completed[m] # 0
  BY ComparisonAssumption DEF IInv, TypeOK
<1>2. completed = [x \in Members \X Rounds |->
                     IF x[2] # 1 THEN 0 ELSE scope.completed[x[1]]]
  BY DEF Init
<1>3. completed \in [Members \X Rounds -> Nat]  BY <1>1, <1>2
<1>4. ASSUME NEW x \in Members \X Rounds
      PROVE  work[<<"comparacao", x[1], x[2]>>] = "concluido" <=> completed[x] # 0
  <2>1. <<"comparacao", x[1], x[2]>> \in Types \X Members \X Rounds /\ x[1] \in Members
    BY DEF Types
  <2>2. work[<<"comparacao", x[1], x[2]>>]
          = IF x[2] # 1 THEN "none" ELSE scope.comparisons[x[1]]
    BY <2>1 DEF Init
  <2> QED  BY <1>1, <1>2, <2>1, <2>2
<1> QED  BY <1>3, <1>4 DEF Timed, ConcludedHaveATime

\* A comparison has a completed_at if and only if it is concluded, whatever deletes,
\* promotes, draws or reopens it: the order in which concluded comparisons are reopened
\* always compares times that exist.
THEOREM ConcludedAreTimed == Spec => []ConcludedHaveATime
<1>1. Timed => ConcludedHaveATime  BY DEF Timed
<1> QED  BY <1>1, InitTimed, NextTimed, Invariance, PTL DEF Spec

=============================================================================
