--------------------------- MODULE AutoReviewProofs ---------------------------
(***************************************************************************)
(* Theorems about AutoReview, for every value of its constants: however    *)
(* many coders, fields, answers, workers, saves and publications there are *)
(* and in whatever order a worker's queries answer.                        *)
(*                                                                         *)
(* The inductive invariant is IInv: the type invariant, the safety         *)
(* properties, and a bound on the cycle numbers, without which the maximum *)
(* that numbers a new cycle need not exist.                                *)
(***************************************************************************)
EXTENDS AutoReview, WellFoundedInduction, TLAPS

\* The cycle numbers of the document have an upper bound.
CyclesBounded == \E n \in Nat : \A e \in reviews \cup history : e.cycle <= n

\* The inductive invariant.
IInv ==
  /\ TypeOK
  /\ CyclesBounded
  /\ SnapshotsCurrent
  /\ RequestIsCurrent
  /\ OneReviewerPerField
  /\ CyclesNumberedApart

-----------------------------------------------------------------------------
\* Least and greatest elements.

\* A nonempty set of naturals has the minimum that Min names.
LEMMA MinIsLeast ==
  ASSUME NEW S \in SUBSET Nat, S # {}
  PROVE  Min(S) \in S /\ \A y \in S : Min(S) <= y
<1>1. \E x \in S : \A y \in S : ~(<<y, x>> \in OpToRel(<, Nat))
  BY NatLessThanWellFounded, WFMin
<1>2. \A x, y \in Nat : y < x => <<y, x>> \in OpToRel(<, Nat)
  BY DEF OpToRel
<1>3. \E x \in S : \A y \in S : x <= y
  <2>1. PICK x \in S : \A y \in S : ~(<<y, x>> \in OpToRel(<, Nat))
    BY <1>1
  <2>2. ASSUME NEW y \in S PROVE x <= y
    <3>1. ~(y < x)  BY <1>2, <2>1
    <3> QED  BY <3>1
  <2> QED  BY <2>2
<1> QED  BY <1>3 DEF Min

\* A nonempty set of naturals with an upper bound has the maximum Max names.
LEMMA MaxIsGreatest ==
  ASSUME NEW S \in SUBSET Nat, S # {}, NEW n \in Nat, \A y \in S : y <= n
  PROVE  Max(S) \in S /\ \A y \in S : Max(S) >= y
<1> DEFINE T == {k \in Nat : \E y \in S : k = n - y}
<1>1. T \in SUBSET Nat /\ T # {}
  <2>1. PICK y \in S : TRUE  OBVIOUS
  <2>2. n - y \in T  BY <2>1
  <2> QED  BY <2>2
<1>2. Min(T) \in T /\ \A k \in T : Min(T) <= k
  BY <1>1, MinIsLeast
<1>3. PICK x \in S : Min(T) = n - x
  BY <1>2
<1>4. ASSUME NEW y \in S PROVE x >= y
  <2>1. n - y \in T  BY <1>4
  <2>2. n - x <= n - y  BY <2>1, <1>2, <1>3
  <2> QED  BY <2>2
<1> HIDE DEF T
<1>5. \E z \in S : \A y \in S : z >= y  BY <1>4
<1> QED  BY <1>5 DEF Max

\* The number of a new cycle is above those of its field's archived cycles, and
\* at most one above any bound of them.
LEMMA NextCycleIsNext ==
  ASSUME NEW past \in SUBSET Review, NEW f, NEW n \in Nat,
         \A e \in past : e.cycle <= n
  PROVE  /\ NextCycle(past, f) \in Nat
         /\ NextCycle(past, f) <= n + 1
         /\ \A e \in past : e.field = f => e.cycle < NextCycle(past, f)
<1> DEFINE archived == {e.cycle : e \in {x \in past : x.field = f}}
<1>1. archived \in SUBSET Nat /\ \A c \in archived : c <= n
  BY DEF Review
<1>2. \A e \in past : e.field = f => e.cycle \in archived
  OBVIOUS
<1>3. NextCycle(past, f) = IF archived = {} THEN 1 ELSE Max(archived) + 1
  BY DEF NextCycle
<1>4. archived # {} => Max(archived) \in archived /\ \A c \in archived : Max(archived) >= c
  BY <1>1, MaxIsGreatest
<1> HIDE DEF archived
<1>5. CASE archived = {}
  BY <1>2, <1>3, <1>5
<1>6. CASE archived # {}
  <2>1. Max(archived) \in Nat /\ Max(archived) <= n
    BY <1>1, <1>4, <1>6
  <2>2. NextCycle(past, f) = Max(archived) + 1
    BY <1>3, <1>6
  <2>3. ASSUME NEW e \in past, e.field = f PROVE e.cycle < NextCycle(past, f)
    <3>1. e.cycle \in archived  BY <1>2, <2>3
    <3>2. e.cycle \in Nat /\ e.cycle <= Max(archived)  BY <3>1, <1>1, <1>4, <1>6
    <3> QED  BY <3>2, <2>1, <2>2
  <2> QED  BY <2>1, <2>2, <2>3
<1> QED  BY <1>5, <1>6

-----------------------------------------------------------------------------
\* What reconcile_auto_review_cycles closes, renews and opens.

\* An accepted call has both rows of each of its coders at hand.
LEMMA ReconcileRows ==
  ASSUME TypeOK, NEW w \in Workers, Reconcile(w)
  PROVE  /\ llm \in LlmRow
         /\ Group(w) \subseteq Humans
         /\ \A h \in Group(w) : human[h] \in HumanRow
<1>1. Group(w) # {} /\ \A h \in Group(w) : llm # Null /\ human[h] # Null
  BY DEF Reconcile, Accepts
<1>2. Group(w) \subseteq Humans
  BY DataAssumption DEF Group
<1> QED  BY <1>1, <1>2 DEF TypeOK

\* A coder of the group diverges only on fields of the schema.
LEMMA DivergentFieldsAreFields ==
  ASSUME TypeOK, NEW w \in Workers, NEW h
  PROVE  Divergent(w, h) \in SUBSET Fields
<1>1. view[w].schema \in SUBSET Fields  BY DEF TypeOK, View
<1> QED  BY <1>1 DEF Divergent, DivergentFields

\* A new review is a well-formed row and its snapshots are the current answers.
LEMMA NewReviewType ==
  ASSUME NEW past \in SUBSET Review, NEW f \in Fields, NEW h \in Humans,
         NEW n \in Nat, \A e \in past : e.cycle <= n,
         llm \in LlmRow, human[h] \in HumanRow
  PROVE  /\ NewReview(f, h, past) \in Review
         /\ NewReview(f, h, past).cycle = NextCycle(past, f)
<1>1. NextCycle(past, f) \in Nat  BY NextCycleIsNext
<1>2. human[h].answers[f] \in Values /\ llm.answers[f] \in Values /\ llm.id \in Nat
  BY DEF HumanRow, LlmRow, AnswerMap
<1> QED  BY <1>1, <1>2 DEF NewReview, Review

\* A renewed cycle replaces a closed one, one cycle further.
LEMMA RenewedCycles ==
  ASSUME TypeOK, CyclesBounded, NEW w \in Workers, Reconcile(w), NEW s \in Renewed(w)
  PROVE  /\ s \in Review
         /\ s.llm = llm.id /\ s.llmAnswer = llm.answers[s.field]
         /\ s.humanAnswer = human[s.human].answers[s.field]
         /\ s.human \in Group(w) /\ s.field \in Divergent(w, s.human)
         /\ \E r \in Closed(w) : /\ s.field = r.field /\ s.human = r.human
                                 /\ s.cycle = r.cycle + 1
<1>1. PICK r \in Closed(w) :
        /\ r.field \in Divergent(w, r.human)
        /\ s = [NewReview(r.field, r.human, history) EXCEPT !.cycle = r.cycle + 1]
  BY DEF Renewed
<1>2. r \in Review /\ r.human \in Group(w)
  BY DEF Closed, TypeOK
<1>3. r.field \in Fields /\ r.human \in Humans /\ r.cycle \in Nat
  BY <1>2 DEF Review
<1>4. PICK n \in Nat : \A e \in history : e.cycle <= n
  BY DEF CyclesBounded
<1>5. NewReview(r.field, r.human, history) \in Review
  BY <1>2, <1>3, <1>4, ReconcileRows, NewReviewType DEF TypeOK
<1>6. s \in Review /\ s.cycle = r.cycle + 1
  BY <1>1, <1>3, <1>5 DEF Review
<1>7. /\ s.field = r.field /\ s.human = r.human
      /\ s.llm = llm.id /\ s.llmAnswer = llm.answers[r.field]
      /\ s.humanAnswer = human[r.human].answers[r.field]
  BY <1>1 DEF NewReview
<1> QED  BY <1>1, <1>2, <1>6, <1>7

\* An opened cycle belongs to the least candidate of its field and is numbered
\* after all the closed ones; a field opens one at most.
LEMMA OpenedCycles ==
  ASSUME TypeOK, CyclesBounded, NEW w \in Workers, Reconcile(w)
  PROVE  /\ \A s \in Opened(w) :
              /\ s \in Review
              /\ s.llm = llm.id /\ s.llmAnswer = llm.answers[s.field]
              /\ s.humanAnswer = human[s.human].answers[s.field]
              /\ s.human \in Candidates(w, s.field)
              /\ s.cycle = NextCycle(history \cup Closed(w), s.field)
         /\ \A s, t \in Opened(w) : s.field = t.field => s = t
<1> DEFINE past == history \cup Closed(w)
           row(f) == NewReview(f, Min(Candidates(w, f)), past)
<1>1. past \in SUBSET Review  BY DEF Closed, TypeOK
<1>2. PICK n \in Nat : \A e \in past : e.cycle <= n
  BY DEF CyclesBounded, Closed
<1>3. ASSUME NEW f \in Fields, Candidates(w, f) # {}
      PROVE  /\ Min(Candidates(w, f)) \in Candidates(w, f)
             /\ Min(Candidates(w, f)) \in Group(w)
  <2>1. Candidates(w, f) \subseteq Group(w)  BY DEF Candidates
  <2>2. Candidates(w, f) \in SUBSET Nat
    BY <2>1, ReconcileRows, DataAssumption
  <2> QED  BY <1>3, <2>1, <2>2, MinIsLeast
<1>4. ASSUME NEW s \in Opened(w)
      PROVE  s.field \in Fields /\ s = row(s.field) /\ Candidates(w, s.field) # {}
  <2>1. PICK f \in Fields : Candidates(w, f) # {} /\ s = row(f)
    BY DEF Opened
  <2>2. s.field = f  BY <2>1 DEF NewReview
  <2> QED  BY <2>1, <2>2
<1>5. ASSUME NEW s \in Opened(w)
      PROVE  /\ s \in Review
             /\ s.llm = llm.id /\ s.llmAnswer = llm.answers[s.field]
             /\ s.humanAnswer = human[s.human].answers[s.field]
             /\ s.human \in Candidates(w, s.field)
             /\ s.cycle = NextCycle(past, s.field)
  <2> DEFINE h == Min(Candidates(w, s.field))
  <2>1. h \in Group(w) /\ h \in Candidates(w, s.field)
    BY <1>3, <1>4
  <2>2. llm \in LlmRow /\ human[h] \in HumanRow /\ h \in Humans
    BY <2>1, ReconcileRows
  <2>3. s = NewReview(s.field, h, past) /\ s.field \in Fields  BY <1>4
  <2> HIDE DEF h, past
  <2>4. s \in Review /\ s.cycle = NextCycle(past, s.field)
    BY <1>1, <1>2, <2>2, <2>3, NewReviewType
  <2>5. /\ s.human = h /\ s.llm = llm.id /\ s.llmAnswer = llm.answers[s.field]
        /\ s.humanAnswer = human[h].answers[s.field]
    BY <2>3 DEF NewReview
  <2> QED  BY <2>1, <2>4, <2>5
<1>6. \A s, t \in Opened(w) : s.field = t.field => s = t
  BY <1>4
<1> QED  BY <1>5, <1>6

-----------------------------------------------------------------------------
\* Type correctness, one lemma for each group of actions.

\* The initial state has the right shape.
LEMMA InitType == Init => TypeOK
<1> SUFFICES ASSUME Init PROVE TypeOK  OBVIOUS
<1>1. NothingRead \in View
  BY DEF NothingRead, View
<1> QED  BY <1>1, DataAssumption DEF Init, TypeOK

\* The outbox keeps its shape when a generation is enqueued.
LEMMA EnqueueType ==
  ASSUME TypeOK, NEW l \in Nat, Enqueue(l)
  PROVE  request' \in Request /\ stamp' \in Nat
BY DEF Enqueue, TypeOK, Request

\* A saved response is a well-formed row.
LEMMA SavedRowType ==
  ASSUME TypeOK, NEW h \in Humans, NEW a \in AnswerMap
  PROVE  SavedRow(h, a) \in HumanRow
<1>1. human[h] # Null => human[h] \in HumanRow
  BY DEF TypeOK
<1>2. CodedAfter(h, a) \in SUBSET Fields
  BY <1>1 DEF CodedAfter, TypeOK, HumanRow
<1>3. Version(h) \in Nat
  BY <1>1 DEF Version, HumanRow
<1>4. IsCodingComplete(schema, a, CodedAfter(h, a)) \in BOOLEAN
  BY DEF IsCodingComplete
<1> QED  BY <1>2, <1>3, <1>4 DEF SavedRow, HumanRow

\* saveResponse.
LEMMA SaveType ==
  ASSUME TypeOK, NEW h \in Humans, SaveResponse(h)
  PROVE  TypeOK'
<1>1. PICK a \in Submissions(h), noted \in BOOLEAN :
        /\ human' = [human EXCEPT ![h] = SavedRow(h, a)]
        /\ Archive(OutdatedReviews(h, a, noted))
        /\ equivs' = equivs \ OutdatedPairs(h, a, noted)
        /\ IF ~SavedRow(h, a).partial /\ llm # Null /\ UnderAutoReview
           THEN Enqueue(llm.id) ELSE UNCHANGED queue
  BY DEF SaveResponse
<1>2. human' \in [Humans -> HumanRow \cup {Null}]
  <2>1. a \in AnswerMap  BY DEF Submissions
  <2> QED  BY <1>1, <2>1, SavedRowType DEF TypeOK
<1>3. reviews' \in SUBSET Review /\ history' \in SUBSET Review
  BY <1>1 DEF Archive, OutdatedReviews, TypeOK
<1>4. request' \in Request \cup {Null} /\ stamp' \in Nat
  <2>1. CASE ~SavedRow(h, a).partial /\ llm # Null /\ UnderAutoReview
    <3>1. llm.id \in Nat  BY <2>1 DEF TypeOK, LlmRow
    <3> QED  BY <1>1, <2>1, <3>1, EnqueueType
  <2>2. CASE ~(~SavedRow(h, a).partial /\ llm # Null /\ UnderAutoReview)
    BY <1>1, <2>2 DEF queue, TypeOK
  <2> QED  BY <2>1, <2>2
<1>5. equivs' \in SUBSET Pair
  BY <1>1 DEF OutdatedPairs, TypeOK
<1>6. UNCHANGED <<project, llm, marking, workers, counters, faults>>
  BY DEF SaveResponse
<1> QED
  BY <1>2, <1>3, <1>4, <1>5, <1>6 DEF TypeOK, project, workers, counters

\* publish_latest_llm_response.
LEMMA PublishType ==
  ASSUME TypeOK, PublishLlm
  PROVE  TypeOK'
<1>1. publishes' = publishes + 1 /\ publishes' \in Nat
  BY DEF PublishLlm, TypeOK
<1>2. reviews' \in SUBSET Review /\ history' \in SUBSET Review
  BY DEF PublishLlm, Archive, DemotedReviews, TypeOK
<1>3. equivs' \in SUBSET Pair
  BY DEF PublishLlm, DemotedPairs, TypeOK
<1>4. /\ llm' \in LlmRow \cup {Null}
      /\ request' \in Request \cup {Null} /\ stamp' \in Nat
  <2>1. CASE \E a \in {b \in AnswerMap : \A f \in Fields : b[f] = Blank <=> f \notin schema} :
               /\ llm' = [id |-> publishes + 1, answers |-> a, coded |-> schema]
               /\ Enqueue(publishes + 1)
    <3>1. llm' \in LlmRow
      BY <1>1, <2>1 DEF LlmRow, TypeOK
    <3> QED  BY <1>1, <2>1, <3>1, EnqueueType
  <2>2. CASE llm' = Null /\ Withdraw
    BY <2>2 DEF Withdraw, TypeOK
  <2> QED  BY <2>1, <2>2 DEF PublishLlm
<1>5. UNCHANGED <<project, human, marking, workers, pairs, faults>>
  BY DEF PublishLlm
<1> QED
  BY <1>1, <1>2, <1>3, <1>4, <1>5 DEF TypeOK, project, workers

\* A pair recorded between two rows that exist is well formed.
LEMMA NewPairType ==
  ASSUME TypeOK, NEW f \in Fields, NEW h \in Humans, llm # Null, human[h] # Null
  PROVE  NewPair(f, h) \in Pair
<1>1. llm \in LlmRow /\ human[h] \in HumanRow /\ pairs + 1 \in Nat
  BY DEF TypeOK
<1>2. human[h].answers[f] \in Values /\ llm.answers[f] \in Values /\ llm.id \in Nat
  BY <1>1 DEF HumanRow, LlmRow, AnswerMap
<1> QED  BY <1>1, <1>2 DEF NewPair, Pair

\* The equivalences and the verdicts.
LEMMA EquivalencesType ==
  ASSUME TypeOK, SnapshotsCurrent, Equivalences
  PROVE  TypeOK'
<1>1. ASSUME NEW h \in Humans, NEW f \in Fields, BeginMarkEquivalent(h, f)
      PROVE  TypeOK'
  <2>1. NewPair(f, h) \in Pair
    BY <1>1, NewPairType DEF BeginMarkEquivalent
  <2>2. marking' \in [new : Pair, drop : SUBSET Pair] /\ pairs' \in Nat
    BY <1>1, <2>1 DEF BeginMarkEquivalent, TypeOK
  <2> QED
    BY <1>1, <2>2 DEF BeginMarkEquivalent, TypeOK, project, cycles, queue, workers
<1>2. CASE CommitMarkEquivalent
  <2>1. marking \in [new : Pair, drop : SUBSET Pair]
    BY <1>2 DEF CommitMarkEquivalent, TypeOK
  <2>2. equivs' \in SUBSET Pair /\ marking' = Null
    BY <1>2, <2>1 DEF CommitMarkEquivalent, InsertPair, TypeOK
  <2> QED
    BY <1>2, <2>2 DEF CommitMarkEquivalent, TypeOK, project, cycles, queue, workers, counters
<1>3. CASE UnmarkEquivalent
  BY <1>3 DEF UnmarkEquivalent, TypeOK, project, cycles, queue, workers, counters
<1>4. ASSUME NEW r \in reviews, NEW v \in Verdicts, SubmitVerdict(r, v)
      PROVE  TypeOK'
  <2>1. r \in Review  BY DEF TypeOK
  <2>2. [r EXCEPT !.verdict = v] \in Review  BY <2>1 DEF Review
  <2>3. reviews' \in SUBSET Review
    BY <1>4, <2>2 DEF SubmitVerdict, TypeOK
  <2>4. equivs' \in SUBSET Pair /\ pairs' \in Nat
    <3>1. CASE v = "equivalente"
      <4>1. r.field \in Fields /\ r.human \in Humans  BY <2>1 DEF Review
      <4>2. llm # Null /\ human[r.human] # Null  BY DEF SnapshotsCurrent
      <4>3. NewPair(r.field, r.human) \in Pair  BY <4>1, <4>2, NewPairType
      <4> QED  BY <1>4, <3>1, <4>3 DEF SubmitVerdict, InsertPair, TypeOK
    <3>2. CASE v # "equivalente"
      BY <1>4, <3>2 DEF SubmitVerdict, TypeOK
    <3> QED  BY <3>1, <3>2
  <2> QED
    BY <1>4, <2>3, <2>4 DEF SubmitVerdict, TypeOK, project, queue, workers
<1> QED  BY <1>1, <1>2, <1>3, <1>4 DEF Equivalences

\* A query of a worker leaves a well-formed view.
LEMMA ReadsType ==
  ASSUME TypeOK, NEW w \in Workers, NEW stage, NEW query \in Queries,
         NEW v \in View, Reads(w, stage, query, v)
  PROVE  TypeOK'
<1>1. [v EXCEPT !.seen = @ \cup {query}] \in View
  BY DEF View
<1>2. view' \in [Workers -> View]
  BY <1>1 DEF Reads, TypeOK
<1> QED
  BY <1>2 DEF Reads, TypeOK, project, rows, cycles, queue, counters

\* The coders of well-formed reviews are coders.
LEMMA ReviewersType ==
  ASSUME NEW rs \in SUBSET Review, NEW v \in View
  PROVE  [v EXCEPT !.dependents = @ \cup {r.human : r \in rs}] \in View
BY DEF View, Review

\* The queries of a worker.
LEMMA ReadType ==
  ASSUME TypeOK, NEW w \in Workers, Read(w)
  PROVE  TypeOK'
<1>1. view[w] \in View  BY DEF TypeOK
<1>2. CASE ReadProject(w)
  <2>1. [view[w] EXCEPT !.schema = schema] \in View  BY <1>1 DEF View, TypeOK
  <2> QED  BY <1>2, <2>1, ReadsType DEF ReadProject, Queries
<1>3. CASE ReadHumans(w)
  <2> DEFINE hs == [h \in Humans |-> IF human[h] # Null /\ ~human[h].partial
                                     THEN human[h] ELSE Null]
  <2>1. hs \in [Humans -> HumanRow \cup {Null}]  BY DEF TypeOK
  <2>2. [view[w] EXCEPT !.humans = hs] \in View  BY <1>1, <2>1 DEF View
  <2> QED  BY <1>3, <2>2, ReadsType DEF ReadHumans, Queries
<1>4. CASE ReadLlm(w)
  <2> DEFINE l == IF llm # Null /\ llm.id = taken[w].llm THEN llm ELSE Null
  <2>1. l \in LlmRow \cup {Null}  BY DEF TypeOK
  <2>2. [view[w] EXCEPT !.llm = l] \in View  BY <1>1, <2>1 DEF View
  <2> QED  BY <1>4, <2>2, ReadsType DEF ReadLlm, Queries
<1>5. CASE ReadPairs(w)
  <2>1. [view[w] EXCEPT !.pairs = equivs] \in View  BY <1>1 DEF View, TypeOK
  <2> QED  BY <1>5, <2>1, ReadsType DEF ReadPairs, Queries
<1>6. CASE ReadReviewers(w)
  <2>1. [view[w] EXCEPT !.dependents = @ \cup {r.human : r \in reviews}] \in View
    BY <1>1, ReviewersType DEF TypeOK
  <2> QED  BY <1>6, <2>1, ReadsType DEF ReadReviewers, Queries
<1>7. CASE ReadPastReviewers(w)
  <2>1. [view[w] EXCEPT !.dependents = @ \cup {r.human : r \in history}] \in View
    BY <1>1, ReviewersType DEF TypeOK
  <2> QED  BY <1>7, <2>1, ReadsType DEF ReadPastReviewers, Queries
<1>8. CASE InputsRead(w)
  BY <1>8 DEF InputsRead, Goto, TypeOK, project, rows, cycles, queue, counters
<1>9. CASE ReviewersRead(w)
  BY <1>9 DEF ReviewersRead, Goto, TypeOK, project, rows, cycles, queue, counters
<1> QED
  BY <1>2, <1>3, <1>4, <1>5, <1>6, <1>7, <1>8, <1>9 DEF Read

\* reconcile_auto_review_cycles.
LEMMA ReconcileType ==
  ASSUME TypeOK, CyclesBounded, NEW w \in Workers, Reconcile(w)
  PROVE  TypeOK'
<1>1. Closed(w) \in SUBSET Review  BY DEF Closed, TypeOK
<1>2. reviews' \in SUBSET Review
  <2>1. Kept(w) \in SUBSET Review  BY RenewedCycles DEF Kept, TypeOK
  <2>2. Opened(w) \in SUBSET Review  BY OpenedCycles
  <2> QED  BY <2>1, <2>2 DEF Reconcile
<1>3. history' \in SUBSET Review  BY <1>1 DEF Reconcile, TypeOK
<1>4. equivs' \in SUBSET Pair  BY DEF Reconcile, TypeOK
<1>5. pc' \in [Workers -> {"idle", "reading", "selecting", "calling", "acking", "failing"}]
  BY DEF Reconcile, Goto, TypeOK
<1> QED
  BY <1>2, <1>3, <1>4, <1>5 DEF Reconcile, TypeOK, project, queue, counters

\* The other steps of a worker.
LEMMA WorkerType ==
  ASSUME TypeOK, CyclesBounded, NEW w \in Workers,
         Drain(w) \/ QueryFails(w) \/ Crash(w)
  PROVE  TypeOK'
<1>1. NothingRead \in View  BY DEF NothingRead, View
<1>2. ASSUME Leave(w)
      PROVE  /\ pc' \in [Workers -> {"idle", "reading", "selecting", "calling", "acking", "failing"}]
             /\ taken' \in [Workers -> Request \cup {Null}]
             /\ view' \in [Workers -> View]
  BY <1>1, <1>2 DEF Leave, Goto, TypeOK
<1>3. CASE Fetch(w)
  BY <1>3 DEF Fetch, Goto, TypeOK, project, rows, cycles, queue, counters
<1>4. CASE Read(w)
  BY <1>4, ReadType
<1>5. CASE Reconcile(w)
  BY <1>5, ReconcileType
<1>6. CASE Reject(w)
  BY <1>6 DEF Reject, Goto, TypeOK, project, rows, cycles, queue, counters
<1>7. CASE SkipCall(w)
  BY <1>7 DEF SkipCall, Goto, TypeOK, project, rows, cycles, queue, counters
<1>8. CASE Acknowledge(w)
  BY <1>2, <1>8 DEF Acknowledge, TypeOK, project, rows, cycles, counters
<1>9. CASE RecordFailure(w)
  <2>1. request' \in Request \cup {Null}
    BY <1>9 DEF RecordFailure, TypeOK, Request
  <2> QED
    BY <1>2, <1>9, <2>1 DEF RecordFailure, TypeOK, project, rows, cycles, counters
<1>10. CASE QueryFails(w)
  BY <1>10 DEF QueryFails, Goto, TypeOK, project, rows, cycles, queue, counters
<1>11. CASE Crash(w)
  BY <1>2, <1>11 DEF Crash, TypeOK, project, rows, cycles, queue, counters
<1> QED
  BY <1>3, <1>4, <1>5, <1>6, <1>7, <1>8, <1>9, <1>10, <1>11 DEF Drain

\* Every step keeps the shape of every variable.
LEMMA NextType ==
  ASSUME IInv, [Next]_vars
  PROVE  TypeOK'
<1>1. TypeOK /\ CyclesBounded /\ SnapshotsCurrent  BY DEF IInv
<1>2. ASSUME NEW h \in Humans, SaveResponse(h) PROVE TypeOK'
  BY <1>1, <1>2, SaveType
<1>3. CASE PublishLlm
  BY <1>1, <1>3, PublishType
<1>4. CASE Equivalences
  BY <1>1, <1>4, EquivalencesType
<1>5. CASE PublishSchema
  BY <1>1, <1>5, DataAssumption
     DEF PublishSchema, TypeOK, rows, cycles, queue, workers, counters
<1>6. CASE SetMode
  BY <1>1, <1>6, DataAssumption
     DEF SetMode, TypeOK, rows, cycles, queue, workers, counters
<1>7. CASE Regenerate
  <2>1. llm.id \in Nat  BY <1>1, <1>7 DEF Regenerate, TypeOK, LlmRow
  <2>2. request' \in Request /\ stamp' \in Nat
    BY <1>1, <1>7, <2>1, EnqueueType DEF Regenerate
  <2> QED
    BY <1>1, <1>7, <2>2 DEF Regenerate, TypeOK, project, rows, cycles, workers, counters
<1>8. CASE BecomeDue
  <2>1. request' \in Request  BY <1>1, <1>8 DEF BecomeDue, TypeOK, Request
  <2> QED
    BY <1>1, <1>8, <2>1 DEF BecomeDue, TypeOK, project, rows, cycles, workers, counters
<1>9. ASSUME NEW w \in Workers, Drain(w) \/ QueryFails(w) \/ Crash(w) PROVE TypeOK'
  BY <1>1, <1>9, WorkerType
<1>10. CASE UNCHANGED vars
  BY <1>1, <1>10 DEF TypeOK, vars
<1> QED
  BY <1>2, <1>3, <1>4, <1>5, <1>6, <1>7, <1>8, <1>9, <1>10 DEF Next

-----------------------------------------------------------------------------
\* The cycles of a document: one open cycle and one reviewer for each field,
\* numbered apart.

CyclesInOrder == CyclesBounded /\ OneReviewerPerField /\ CyclesNumberedApart

\* Archiving cycles keeps the order.
LEMMA ArchiveKeepsOrder ==
  ASSUME TypeOK, CyclesInOrder, NEW gone \in SUBSET reviews, Archive(gone)
  PROVE  CyclesInOrder'
<1>1. reviews' = reviews \ gone /\ history' = history \cup gone
  BY DEF Archive
<1>2. CyclesBounded'
  BY <1>1 DEF CyclesInOrder, CyclesBounded
<1>3. OneReviewerPerField'
  BY <1>1 DEF CyclesInOrder, OneReviewerPerField
<1>4. CyclesNumberedApart'
  <2>1. ASSUME NEW r \in reviews', NEW e \in history', r.field = e.field
        PROVE  r.cycle > e.cycle
    BY <1>1, <2>1 DEF CyclesInOrder, OneReviewerPerField, CyclesNumberedApart
  <2>2. ASSUME NEW d \in history, NEW e \in gone, d.field = e.field
        PROVE  d.cycle # e.cycle
    <3>1. e \in reviews /\ e.cycle \in Nat /\ d.cycle \in Nat
      BY DEF TypeOK, Review
    <3>2. e.cycle > d.cycle
      BY <2>2, <3>1 DEF CyclesInOrder, CyclesNumberedApart
    <3> QED  BY <3>1, <3>2
  <2>3. ASSUME NEW d \in history', NEW e \in history',
               d.field = e.field, d.cycle = e.cycle
        PROVE  d = e
    BY <1>1, <2>2, <2>3 DEF CyclesInOrder, OneReviewerPerField, CyclesNumberedApart
  <2> QED  BY <2>1, <2>3 DEF CyclesNumberedApart
<1> QED  BY <1>2, <1>3, <1>4 DEF CyclesInOrder

\* A verdict keeps the order: it changes neither the field, nor the reviewer, nor
\* the number of a cycle.
LEMMA VerdictKeepsOrder ==
  ASSUME TypeOK, CyclesInOrder, NEW r \in reviews, NEW v, SubmitVerdict(r, v)
  PROVE  CyclesInOrder'
<1> DEFINE new == [r EXCEPT !.verdict = v]
<1>1. reviews' = (reviews \ {r}) \cup {new} /\ history' = history
  BY DEF SubmitVerdict
<1>2. new.field = r.field /\ new.human = r.human /\ new.cycle = r.cycle
  BY DEF TypeOK, Review
<1> HIDE DEF new
<1>3. \A s \in reviews' : \E o \in reviews :
        s.field = o.field /\ s.human = o.human /\ s.cycle = o.cycle
  BY <1>1, <1>2
<1>4. CyclesBounded'
  BY <1>1, <1>3 DEF CyclesInOrder, CyclesBounded
<1>5. OneReviewerPerField'
  <2>1. \A s, t \in reviews' : s.field = t.field => s = t
    BY <1>1, <1>2 DEF CyclesInOrder, OneReviewerPerField
  <2>2. \A s, t \in reviews' \cup history' : s.field = t.field => s.human = t.human
    BY <1>1, <1>3 DEF CyclesInOrder, OneReviewerPerField
  <2> QED  BY <2>1, <2>2 DEF OneReviewerPerField
<1>6. CyclesNumberedApart'
  BY <1>1, <1>3 DEF CyclesInOrder, CyclesNumberedApart
<1> QED  BY <1>4, <1>5, <1>6 DEF CyclesInOrder

\* Where the cycles after reconcile_auto_review_cycles come from.
LEMMA ReconciledCycles ==
  ASSUME TypeOK, CyclesInOrder, NEW w \in Workers, Reconcile(w), NEW s \in reviews'
  PROVE  \/ s \in reviews \ Closed(w)
         \/ /\ s \in Renewed(w)
            /\ \E r \in Closed(w) : /\ s.field = r.field /\ s.human = r.human
                                    /\ s.cycle = r.cycle + 1
         \/ /\ s \in Opened(w)
            /\ \A r \in Kept(w) : r.field # s.field
            /\ \A e \in history \cup Closed(w) : e.field = s.field => e.human = s.human
            /\ s.cycle = NextCycle(history \cup Closed(w), s.field)
<1>1. s \in Kept(w) \/ s \in Opened(w)  BY DEF Reconcile
<1>2. CASE s \in reviews \ Closed(w)  BY <1>2
<1>3. CASE s \in Renewed(w)
  BY <1>3, RenewedCycles DEF CyclesInOrder
<1>4. CASE s \in Opened(w)
  <2>1. s.human \in Candidates(w, s.field) /\ s.cycle = NextCycle(history \cup Closed(w), s.field)
    BY <1>4, OpenedCycles DEF CyclesInOrder
  <2>2. /\ \A r \in Kept(w) : r.field # s.field
        /\ \A e \in history \cup Closed(w) : e.field = s.field => e.human = s.human
    BY <2>1 DEF Candidates
  <2> QED  BY <1>4, <2>1, <2>2
<1> QED  BY <1>1, <1>2, <1>3, <1>4 DEF Kept

\* reconcile_auto_review_cycles keeps the order.
LEMMA ReconcileKeepsOrder ==
  ASSUME TypeOK, CyclesInOrder, NEW w \in Workers, Reconcile(w)
  PROVE  CyclesInOrder'
<1> DEFINE past == history \cup Closed(w)
<1>1. /\ Closed(w) \subseteq reviews
      /\ history' = past
      /\ reviews' = Kept(w) \cup Opened(w)
      /\ past \in SUBSET Review /\ reviews \in SUBSET Review
  BY DEF Closed, Reconcile, TypeOK
<1>2. PICK n \in Nat : \A e \in reviews \cup history : e.cycle <= n
  BY DEF CyclesInOrder, CyclesBounded
<1>3. \A e \in past : e.cycle \in Nat /\ e.cycle <= n
  BY <1>1, <1>2 DEF Review
<1>4. \A f : /\ NextCycle(past, f) \in Nat /\ NextCycle(past, f) <= n + 1
             /\ \A e \in past : e.field = f => e.cycle < NextCycle(past, f)
  BY <1>1, <1>3, NextCycleIsNext
<1>5. CyclesBounded'
  <2>1. ASSUME NEW s \in reviews' PROVE s.cycle <= n + 1
    <3>1. CASE s \in reviews \ Closed(w)
      <4>1. s.cycle \in Nat /\ s.cycle <= n  BY <1>1, <1>2, <3>1 DEF Review
      <4> QED  BY <4>1
    <3>2. CASE \E r \in Closed(w) : s.cycle = r.cycle + 1
      BY <1>3, <3>2
    <3>3. CASE s.cycle = NextCycle(past, s.field)
      BY <1>4, <3>3
    <3> QED  BY <3>1, <3>2, <3>3, ReconciledCycles
  <2>2. \A e \in history' : e.cycle <= n + 1  BY <1>1, <1>3
  <2>3. n + 1 \in Nat  OBVIOUS
  <2> QED  BY <2>1, <2>2, <2>3 DEF CyclesBounded
<1>6. ASSUME NEW s \in Kept(w)
      PROVE  \E r \in reviews : /\ s.field = r.field /\ s.human = r.human
                                /\ (s = r /\ r \notin Closed(w))
                                   \/ (s \in Renewed(w) /\ r \in Closed(w) /\ s.cycle = r.cycle + 1)
  <2>1. CASE s \in reviews \ Closed(w)  BY <2>1
  <2>2. CASE s \in Renewed(w)
    BY <1>1, <2>2, RenewedCycles DEF CyclesInOrder
  <2> QED  BY <1>6, <2>1, <2>2 DEF Kept
<1>7. \A r, t \in reviews : r.field = t.field => r = t
  BY DEF CyclesInOrder, OneReviewerPerField
<1>8. ASSUME NEW s \in Renewed(w), NEW t \in Renewed(w), s.field = t.field
      PROVE  s = t
  <2>1. PICK r \in Closed(w) :
          s = [NewReview(r.field, r.human, history) EXCEPT !.cycle = r.cycle + 1]
    BY DEF Renewed
  <2>2. PICK q \in Closed(w) :
          t = [NewReview(q.field, q.human, history) EXCEPT !.cycle = q.cycle + 1]
    BY DEF Renewed
  <2>3. s.field = r.field /\ t.field = q.field
    BY <2>1, <2>2 DEF NewReview
  <2>4. r = q  BY <1>1, <1>7, <1>8, <2>3
  <2> QED  BY <2>1, <2>2, <2>4
<1>9. OneReviewerPerField'
  <2>1. ASSUME NEW s \in reviews', NEW t \in reviews', s.field = t.field PROVE s = t
    <3>1. CASE s \in Kept(w) /\ t \in Kept(w)
      BY <1>6, <1>7, <1>8, <2>1, <3>1
    <3>2. CASE s \in Opened(w) /\ t \in Opened(w)
      BY <2>1, <3>2, OpenedCycles DEF CyclesInOrder
    <3>3. ASSUME NEW a \in Kept(w), NEW b \in Opened(w) PROVE a.field # b.field
      <4>1. b.human \in Candidates(w, b.field)  BY OpenedCycles DEF CyclesInOrder
      <4> QED  BY <4>1 DEF Candidates
    <3> QED  BY <1>1, <2>1, <3>1, <3>2, <3>3
  <2>2. ASSUME NEW s \in reviews', NEW e \in past, s.field = e.field PROVE s.human = e.human
    <3>1. CASE s \in Kept(w)
      BY <1>1, <1>6, <2>2, <3>1 DEF CyclesInOrder, OneReviewerPerField
    <3>2. CASE s \in Opened(w)
      <4>1. s.human \in Candidates(w, s.field)  BY <3>2, OpenedCycles DEF CyclesInOrder
      <4> QED  BY <2>2, <4>1 DEF Candidates
    <3> QED  BY <1>1, <3>1, <3>2
  <2>3. \A d, e \in past : d.field = e.field => d.human = e.human
    BY <1>1 DEF CyclesInOrder, OneReviewerPerField
  <2> QED  BY <1>1, <2>1, <2>2, <2>3 DEF OneReviewerPerField
<1>10. CyclesNumberedApart'
  <2>1. ASSUME NEW s \in reviews', NEW e \in past, s.field = e.field
        PROVE  s.cycle > e.cycle
    <3>1. CASE s \in Kept(w)
      <4>1. PICK r \in reviews :
              /\ s.field = r.field
              /\ (s = r /\ r \notin Closed(w))
                 \/ (r \in Closed(w) /\ s.cycle = r.cycle + 1)
        BY <1>6, <3>1
      <4>2. r.cycle \in Nat /\ e.cycle \in Nat  BY <1>1, <1>3 DEF Review
      <4>3. CASE e \in history
        <5>1. r.cycle > e.cycle
          BY <2>1, <4>1, <4>3 DEF CyclesInOrder, CyclesNumberedApart
        <5> QED  BY <4>1, <4>2, <5>1
      <4>4. CASE e \in Closed(w)
        <5>1. r = e  BY <1>1, <1>7, <2>1, <4>1, <4>4
        <5> QED  BY <4>1, <4>2, <4>4, <5>1
      <4> QED  BY <4>3, <4>4
    <3>2. CASE s \in Opened(w)
      <4>1. s.cycle = NextCycle(past, s.field)  BY <3>2, OpenedCycles DEF CyclesInOrder
      <4>2. e.cycle < NextCycle(past, s.field) /\ e.cycle \in Nat
        BY <1>3, <1>4, <2>1
      <4> QED  BY <1>4, <4>1, <4>2
    <3> QED  BY <1>1, <3>1, <3>2
  <2>2. ASSUME NEW d \in history, NEW e \in Closed(w), d.field = e.field
        PROVE  d.cycle # e.cycle
    <3>1. e.cycle > d.cycle /\ e.cycle \in Nat /\ d.cycle \in Nat
      BY <1>1, <1>3, <2>2 DEF CyclesInOrder, CyclesNumberedApart
    <3> QED  BY <3>1
  <2>3. ASSUME NEW d \in past, NEW e \in past, d.field = e.field, d.cycle = e.cycle
        PROVE  d = e
    BY <1>1, <1>7, <2>2, <2>3 DEF CyclesInOrder, CyclesNumberedApart
  <2> QED  BY <1>1, <2>1, <2>3 DEF CyclesNumberedApart
<1> QED  BY <1>5, <1>9, <1>10 DEF CyclesInOrder

-----------------------------------------------------------------------------
\* The snapshots of the open cycles are current.

\* A save archives every cycle of its coder whose answer it changes.
LEMMA SaveKeepsSnapshots ==
  ASSUME TypeOK, SnapshotsCurrent, NEW h \in Humans, SaveResponse(h)
  PROVE  SnapshotsCurrent'
<1>1. PICK a \in AnswerMap, noted \in BOOLEAN :
        /\ human' = [human EXCEPT ![h] = SavedRow(h, a)]
        /\ Archive(OutdatedReviews(h, a, noted))
  BY DEF SaveResponse, Submissions
<1>2. llm' = llm /\ reviews' = reviews \ OutdatedReviews(h, a, noted)
  BY <1>1 DEF SaveResponse, Archive
<1>3. SavedRow(h, a) # Null /\ SavedRow(h, a).answers = a
  BY SavedRowType, NullAssumption DEF SavedRow
<1>4. ASSUME NEW r \in reviews'
      PROVE  human'[r.human] # Null /\ r.humanAnswer = human'[r.human].answers[r.field]
  <2>1. /\ human[r.human] # Null /\ r.humanAnswer = human[r.human].answers[r.field]
        /\ r.human \in Humans
    BY <1>2 DEF SnapshotsCurrent, TypeOK, Review
  <2>2. CASE r.human # h
    BY <1>1, <2>1, <2>2 DEF TypeOK
  <2>3. CASE r.human = h
    <3>1. human'[h] = SavedRow(h, a)  BY <1>1 DEF TypeOK
    <3>2. r.humanAnswer = a[r.field]
      <4>1. CASE TriggerFires(h, a, noted)
        BY <1>2, <2>3, <4>1 DEF OutdatedReviews
      <4>2. CASE ~TriggerFires(h, a, noted)
        <5>1. human[h].answers = a  BY <2>1, <2>3, <4>2 DEF TriggerFires
        <5> QED  BY <2>1, <2>3, <5>1
      <4> QED  BY <4>1, <4>2
    <3> QED  BY <1>3, <2>3, <3>1, <3>2
  <2> QED  BY <2>2, <2>3
<1> QED  BY <1>2, <1>4 DEF SnapshotsCurrent

\* reconcile_auto_review_cycles renews and opens cycles on the current rows.
LEMMA ReconcileKeepsSnapshots ==
  ASSUME TypeOK, CyclesInOrder, SnapshotsCurrent, NEW w \in Workers, Reconcile(w)
  PROVE  SnapshotsCurrent'
<1>1. UNCHANGED <<human, llm>> /\ reviews' = Kept(w) \cup Opened(w)
  BY DEF Reconcile
<1>2. llm # Null /\ \A h \in Group(w) : human[h] # Null
  BY DEF Reconcile, Accepts
<1>3. ASSUME NEW r \in reviews'
      PROVE  /\ r.llm = llm.id /\ r.llmAnswer = llm.answers[r.field]
             /\ human[r.human] # Null /\ r.humanAnswer = human[r.human].answers[r.field]
  <2>1. CASE r \in reviews
    BY <2>1 DEF SnapshotsCurrent
  <2>2. CASE r \in Renewed(w)
    BY <1>2, <2>2, RenewedCycles DEF CyclesInOrder
  <2>3. CASE r \in Opened(w)
    <3>1. r.human \in Group(w)
      BY <2>3, OpenedCycles DEF CyclesInOrder, Candidates
    <3> QED  BY <1>2, <2>3, <3>1, OpenedCycles DEF CyclesInOrder
  <2> QED  BY <1>1, <2>1, <2>2, <2>3 DEF Kept
<1> QED  BY <1>1, <1>2, <1>3 DEF SnapshotsCurrent

\* A verdict changes no snapshot.
LEMMA VerdictKeepsSnapshots ==
  ASSUME TypeOK, SnapshotsCurrent, NEW r \in reviews, NEW v, SubmitVerdict(r, v)
  PROVE  SnapshotsCurrent'
<1> DEFINE new == [r EXCEPT !.verdict = v]
<1>1. reviews' = (reviews \ {r}) \cup {new} /\ UNCHANGED <<human, llm>>
  BY DEF SubmitVerdict, rows
<1>2. /\ new.field = r.field /\ new.human = r.human /\ new.llm = r.llm
      /\ new.humanAnswer = r.humanAnswer /\ new.llmAnswer = r.llmAnswer
  BY DEF TypeOK, Review
<1> DEFINE Current(x) ==
      /\ llm # Null /\ x.llm = llm.id /\ x.llmAnswer = llm.answers[x.field]
      /\ human[x.human] # Null /\ x.humanAnswer = human[x.human].answers[x.field]
<1>3. \A x \in reviews : Current(x)
  BY DEF SnapshotsCurrent
<1>4. Current(new)
  BY <1>2, <1>3
<1> HIDE DEF new
<1>5. \A x \in reviews' : Current(x)
  BY <1>1, <1>3, <1>4
<1> QED  BY <1>1, <1>5 DEF SnapshotsCurrent

-----------------------------------------------------------------------------
\* The invariant.

\* The initial state satisfies the invariant: there are no rows.
LEMMA InitInv == Init => IInv
<1> SUFFICES ASSUME Init PROVE IInv  OBVIOUS
<1>1. CyclesBounded  BY DEF Init, CyclesBounded
<1>2. SnapshotsCurrent /\ OneReviewerPerField /\ CyclesNumberedApart /\ RequestIsCurrent
  BY DEF Init, SnapshotsCurrent, OneReviewerPerField, CyclesNumberedApart, RequestIsCurrent
<1> QED  BY <1>1, <1>2, InitType DEF IInv

\* A step that touches neither the responses nor the cycles keeps their relation.
LEMMA UnchangedRows ==
  ASSUME CyclesInOrder, SnapshotsCurrent, UNCHANGED <<human, llm, reviews, history>>
  PROVE  CyclesInOrder' /\ SnapshotsCurrent'
BY DEF CyclesInOrder, CyclesBounded, OneReviewerPerField, CyclesNumberedApart,
       SnapshotsCurrent

\* The steps of the workers, the coordinator and the clock that change neither
\* the responses nor the cycles.
LEMMA QuietSteps ==
  ASSUME \/ \E h \in Humans, f \in Fields : BeginMarkEquivalent(h, f)
         \/ CommitMarkEquivalent \/ UnmarkEquivalent
         \/ PublishSchema \/ SetMode \/ Regenerate \/ BecomeDue
         \/ \E w \in Workers :
              \/ Fetch(w) \/ Read(w) \/ Reject(w) \/ SkipCall(w)
              \/ Acknowledge(w) \/ RecordFailure(w) \/ QueryFails(w) \/ Crash(w)
         \/ UNCHANGED vars
  PROVE  UNCHANGED <<human, llm, reviews, history>>
<1>1. ASSUME NEW w \in Workers, Read(w) PROVE UNCHANGED <<human, llm, reviews, history>>
  BY <1>1 DEF Read, ReadProject, ReadHumans, ReadLlm, ReadPairs, InputsRead,
              ReadReviewers, ReadPastReviewers, ReviewersRead, Reads, rows, cycles
<1>2. ASSUME NEW w \in Workers,
             \/ Fetch(w) \/ Reject(w) \/ SkipCall(w)
             \/ Acknowledge(w) \/ RecordFailure(w) \/ QueryFails(w) \/ Crash(w)
      PROVE  UNCHANGED <<human, llm, reviews, history>>
  BY <1>2 DEF Fetch, Reject, SkipCall, Acknowledge, RecordFailure, QueryFails, Crash,
              rows, cycles
<1> QED
  BY <1>1, <1>2 DEF BeginMarkEquivalent, CommitMarkEquivalent, UnmarkEquivalent,
                    PublishSchema, SetMode, Regenerate, BecomeDue, rows, cycles, vars

\* Every step keeps the cycles in order and their snapshots current.
LEMMA NextCycles ==
  ASSUME IInv, [Next]_vars
  PROVE  CyclesInOrder' /\ SnapshotsCurrent'
<1>1. TypeOK /\ CyclesInOrder /\ SnapshotsCurrent  BY DEF IInv, CyclesInOrder
<1>2. ASSUME NEW h \in Humans, SaveResponse(h)
      PROVE  CyclesInOrder' /\ SnapshotsCurrent'
  <2>1. \E gone \in SUBSET reviews : Archive(gone)
    BY <1>2 DEF SaveResponse, OutdatedReviews
  <2> QED  BY <1>1, <1>2, <2>1, ArchiveKeepsOrder, SaveKeepsSnapshots
<1>3. ASSUME PublishLlm
      PROVE  CyclesInOrder' /\ SnapshotsCurrent'
  <2>1. DemotedReviews \in SUBSET reviews /\ Archive(DemotedReviews)
    BY <1>3 DEF PublishLlm, DemotedReviews
  <2>2. reviews' = {}
    BY <1>1, <2>1 DEF Archive, DemotedReviews, SnapshotsCurrent
  <2> QED  BY <1>1, <2>1, <2>2, ArchiveKeepsOrder DEF SnapshotsCurrent
<1>4. ASSUME NEW r \in reviews, NEW v \in Verdicts, SubmitVerdict(r, v)
      PROVE  CyclesInOrder' /\ SnapshotsCurrent'
  BY <1>1, <1>4, VerdictKeepsOrder, VerdictKeepsSnapshots
<1>5. ASSUME NEW w \in Workers, Reconcile(w)
      PROVE  CyclesInOrder' /\ SnapshotsCurrent'
  BY <1>1, <1>5, ReconcileKeepsOrder, ReconcileKeepsSnapshots
<1>6. ASSUME UNCHANGED <<human, llm, reviews, history>>
      PROVE  CyclesInOrder' /\ SnapshotsCurrent'
  BY <1>1, <1>6, UnchangedRows
<1> QED
  BY <1>2, <1>3, <1>4, <1>5, <1>6, QuietSteps DEF Next, Equivalences, Drain

\* Every step keeps the request, if there is one, on the current generation.
LEMMA NextRequest ==
  ASSUME IInv, [Next]_vars
  PROVE  RequestIsCurrent'
<1>1. TypeOK /\ RequestIsCurrent  BY DEF IInv
<1>2. ASSUME NEW h \in Humans, SaveResponse(h) PROVE RequestIsCurrent'
  BY <1>1, <1>2 DEF SaveResponse, Enqueue, queue, RequestIsCurrent
<1>3. ASSUME PublishLlm PROVE RequestIsCurrent'
  <2>1. CASE \E a \in AnswerMap :
               /\ llm' = [id |-> publishes + 1, answers |-> a, coded |-> schema]
               /\ Enqueue(publishes + 1)
    <3>1. llm' \in LlmRow  BY <1>1, <2>1 DEF LlmRow, TypeOK
    <3>2. llm'.id = publishes + 1 /\ request'.llm = publishes + 1
      BY <2>1 DEF Enqueue
    <3> QED  BY <3>1, <3>2, NullAssumption DEF RequestIsCurrent
  <2>2. CASE Withdraw
    BY <2>2 DEF Withdraw, RequestIsCurrent
  <2> QED  BY <1>3, <2>1, <2>2 DEF PublishLlm
<1>4. ASSUME Regenerate PROVE RequestIsCurrent'
  BY <1>4 DEF Regenerate, Enqueue, rows, RequestIsCurrent
<1>5. ASSUME llm' = llm, request' # Null => request # Null /\ request'.llm = request.llm
      PROVE  RequestIsCurrent'
  BY <1>1, <1>5 DEF RequestIsCurrent
<1>6. ASSUME BecomeDue PROVE RequestIsCurrent'
  <2>1. llm' = llm /\ request # Null /\ request' = [request EXCEPT !.due = TRUE]
    BY <1>6 DEF BecomeDue, rows
  <2>2. request'.llm = request.llm  BY <1>1, <2>1 DEF TypeOK, Request
  <2> QED  BY <1>5, <2>1, <2>2
<1>7. ASSUME NEW w \in Workers, Drain(w) \/ QueryFails(w) \/ Crash(w)
      PROVE  RequestIsCurrent'
  <2>1. CASE Read(w)
    <3>1. llm' = llm /\ request' = request
      BY <2>1 DEF Read, ReadProject, ReadHumans, ReadLlm, ReadPairs, InputsRead,
                  ReadReviewers, ReadPastReviewers, ReviewersRead, Reads, rows, queue
    <3> QED  BY <1>5, <3>1
  <2>2. CASE RecordFailure(w)
    <3>1. /\ llm' = llm
          /\ request' = request \/ (request # Null /\ request' = [request EXCEPT !.due = FALSE])
      BY <2>2 DEF RecordFailure, rows
    <3>2. request # Null => [request EXCEPT !.due = FALSE].llm = request.llm
      BY <1>1 DEF TypeOK, Request
    <3> QED  BY <1>5, <3>1, <3>2
  <2>3. CASE \/ Fetch(w) \/ Reconcile(w) \/ Reject(w) \/ SkipCall(w) \/ Acknowledge(w)
             \/ QueryFails(w) \/ Crash(w)
    <3>1. llm' = llm /\ (request' = request \/ request' = Null)
      BY <2>3 DEF Fetch, Reconcile, Reject, SkipCall, Acknowledge, QueryFails, Crash,
                  rows, queue
    <3> QED  BY <1>5, <3>1
  <2> QED  BY <1>7, <2>1, <2>2, <2>3 DEF Drain
<1>8. ASSUME Equivalences \/ PublishSchema \/ SetMode \/ UNCHANGED vars
      PROVE  RequestIsCurrent'
  <2>1. llm' = llm /\ request' = request
    BY <1>8 DEF Equivalences, BeginMarkEquivalent, CommitMarkEquivalent, UnmarkEquivalent,
                SubmitVerdict, PublishSchema, SetMode, rows, queue, vars
  <2> QED  BY <1>5, <2>1
<1> QED  BY <1>2, <1>3, <1>4, <1>6, <1>7, <1>8 DEF Next

\* The invariant is inductive.
LEMMA NextInv == IInv /\ [Next]_vars => IInv'
<1> SUFFICES ASSUME IInv, [Next]_vars PROVE IInv'  OBVIOUS
<1> QED  BY NextType, NextCycles, NextRequest DEF IInv, CyclesInOrder

\* The invariant holds in every reachable state.
THEOREM Invariance == Spec => []IInv
<1>1. Init => IInv  BY InitInv
<1>2. IInv /\ [Next]_vars => IInv'  BY NextInv
<1> QED  BY <1>1, <1>2, PTL DEF Spec

-----------------------------------------------------------------------------
\* What follows from it.

\* Every variable keeps its shape, whatever the values of the constants.
THEOREM TypeCorrect == Spec => []TypeOK
<1>1. IInv => TypeOK  BY DEF IInv
<1> QED  BY <1>1, Invariance, PTL

\* The snapshots a reviewer is asked to judge are always the current answers of
\* the coder and of the LLM, for any number of coders, workers and fields.
THEOREM SnapshotsAreCurrent == Spec => []SnapshotsCurrent
<1>1. IInv => SnapshotsCurrent  BY DEF IInv
<1> QED  BY <1>1, Invariance, PTL

\* The request of a document always names its current complete LLM generation.
THEOREM RequestsAreCurrent == Spec => []RequestIsCurrent
<1>1. IInv => RequestIsCurrent  BY DEF IInv
<1> QED  BY <1>1, Invariance, PTL

\* A field has one open cycle at most, and one reviewer for ever, however many
\* workers reconcile however many coders.
THEOREM OneReviewer == Spec => []OneReviewerPerField
<1>1. IInv => OneReviewerPerField  BY DEF IInv
<1> QED  BY <1>1, Invariance, PTL

\* The cycles of a field never share a number.
THEOREM CyclesAreNumberedApart == Spec => []CyclesNumberedApart
<1>1. IInv => CyclesNumberedApart  BY DEF IInv
<1> QED  BY <1>1, Invariance, PTL

-----------------------------------------------------------------------------
\* No recorded verdict is lost, by any step of anybody.
THEOREM VerdictsAreKept == Spec => VerdictsKept
<1> DEFINE Kept1 == /\ history \subseteq history'
                    /\ \A r \in reviews : r.verdict # Null => r \in reviews' \cup history'
<1>1. ASSUME IInv, [Next]_vars PROVE Kept1
  <2>1. ASSUME NEW gone, Archive(gone) PROVE Kept1
    BY <2>1 DEF Archive
  <2>2. ASSUME NEW h \in Humans, SaveResponse(h) PROVE Kept1
    BY <2>1, <2>2 DEF SaveResponse
  <2>3. ASSUME PublishLlm PROVE Kept1
    BY <2>1, <2>3 DEF PublishLlm
  <2>4. ASSUME NEW r \in reviews, NEW v \in Verdicts, SubmitVerdict(r, v) PROVE Kept1
    <3>1. /\ reviews' = (reviews \ {r}) \cup {[r EXCEPT !.verdict = v]}
          /\ history' = history /\ r.verdict \in {Null, v}
      BY <2>4 DEF SubmitVerdict
    <3>2. r.verdict = v => [r EXCEPT !.verdict = v] = r
      BY <1>1 DEF IInv, TypeOK, Review
    <3> QED  BY <3>1, <3>2
  <2>5. ASSUME NEW w \in Workers, Reconcile(w) PROVE Kept1
    BY <2>5 DEF Reconcile, Kept
  <2>6. ASSUME UNCHANGED <<human, llm, reviews, history>> PROVE Kept1
    BY <2>6
  <2> QED
    BY <1>1, <2>2, <2>3, <2>4, <2>5, <2>6, QuietSteps DEF Next, Equivalences, Drain
<1>2. IInv /\ [Next]_vars => [Kept1]_vars  BY <1>1
<1> QED  BY <1>2, Invariance, PTL DEF Spec, VerdictsKept

-----------------------------------------------------------------------------
\* What a worker has read, and what has become of it.

\* A response a worker has read is still there; it is an older version of it, or
\* the same row.
HumansSeen ==
  \A w \in Workers, h \in Humans :
    view[w].humans[h] # Null =>
      /\ human[h] # Null
      /\ view[w].humans[h].version <= human[h].version
      /\ view[w].humans[h].version = human[h].version => view[w].humans[h] = human[h]

\* An LLM response a worker has read is of an earlier generation, or is current.
LlmSeen ==
  /\ llm # Null => llm.id <= publishes
  /\ \A w \in Workers : view[w].llm # Null =>
       /\ view[w].llm.id <= publishes
       /\ llm # Null /\ view[w].llm.id = llm.id => view[w].llm = llm

\* A worker that is about to call the function has an LLM response at hand.
LlmAtHand == \A w \in Workers : pc[w] \in {"selecting", "calling"} => view[w].llm # Null

\* The equivalences that are recorded, being recorded, or in a worker's hands.
KnownPairs ==
  equivs \cup {p \in Pair : marking # Null /\ p = marking.new}
    \cup UNION {view[w].pairs : w \in Workers}

\* No two of them share an id.
PairsNumberedApart ==
  /\ \A p \in KnownPairs : p.id <= pairs
  /\ \A p, q \in KnownPairs : p.id = q.id => p = q

ViewInv == HumansSeen /\ LlmSeen /\ LlmAtHand /\ PairsNumberedApart

\* A step that changes a worker's view changes no row, and what it puts in the
\* view is what is there.
LEMMA ViewStep ==
  ASSUME TypeOK, [Next]_vars
  PROVE  \/ view' = view
         \/ /\ UNCHANGED <<human, llm, equivs, marking, publishes, pairs>>
            /\ \A x \in Workers :
                 /\ \A h \in Humans : view'[x].humans[h] \in {view[x].humans[h], human[h], Null}
                 /\ view'[x].llm \in {view[x].llm, llm, Null}
                 /\ view'[x].pairs \in {view[x].pairs, equivs, {}}
<1> DEFINE Now == UNCHANGED <<human, llm, equivs, marking, publishes, pairs>>
           Fresh(x) ==
             /\ \A h \in Humans : view'[x].humans[h] \in {view[x].humans[h], human[h], Null}
             /\ view'[x].llm \in {view[x].llm, llm, Null}
             /\ view'[x].pairs \in {view[x].pairs, equivs, {}}
<1>0. \A x \in Workers : view[x] \in View  BY DEF TypeOK
<1>1. ASSUME NEW w \in Workers, Leave(w) PROVE \A x \in Workers : Fresh(x)
  BY <1>0, <1>1 DEF Leave, NothingRead, TypeOK
<1>2. ASSUME NEW w \in Workers, NEW stage, NEW query, NEW v \in View,
             Reads(w, stage, query, v),
             /\ \A h \in Humans : v.humans[h] \in {view[w].humans[h], human[h], Null}
             /\ v.llm \in {view[w].llm, llm, Null}
             /\ v.pairs \in {view[w].pairs, equivs, {}}
      PROVE  Now /\ \A x \in Workers : Fresh(x)
  <2>1. view' = [view EXCEPT ![w] = [v EXCEPT !.seen = @ \cup {query}]]
    BY <1>2 DEF Reads
  <2>2. view'[w].humans = v.humans /\ view'[w].llm = v.llm /\ view'[w].pairs = v.pairs
    BY <2>1 DEF TypeOK, View
  <2>3. \A x \in Workers : x # w => view'[x] = view[x]
    BY <2>1 DEF TypeOK
  <2>4. Now  BY <1>2 DEF Reads, rows, counters
  <2> QED  BY <1>2, <2>2, <2>3, <2>4
<1>3. ASSUME NEW w \in Workers, Read(w)
      PROVE  view' = view \/ (Now /\ \A x \in Workers : Fresh(x))
  <2>1. CASE ReadProject(w)
    <3> DEFINE v == [view[w] EXCEPT !.schema = schema]
    <3>1. v \in View /\ v.humans = view[w].humans /\ v.llm = view[w].llm /\ v.pairs = view[w].pairs
      BY <1>0 DEF View, TypeOK
    <3> HIDE DEF v
    <3>2. Reads(w, "reading", "project", v)  BY <2>1 DEF ReadProject, v
    <3> QED  BY <1>2, <3>1, <3>2
  <2>2. CASE ReadHumans(w)
    <3> DEFINE hs == [h \in Humans |-> IF human[h] # Null /\ ~human[h].partial
                                       THEN human[h] ELSE Null]
               v == [view[w] EXCEPT !.humans = hs]
    <3>1. hs \in [Humans -> HumanRow \cup {Null}]  BY DEF TypeOK
    <3>2. v \in View /\ v.humans = hs /\ v.llm = view[w].llm /\ v.pairs = view[w].pairs
      BY <1>0, <3>1 DEF View
    <3>3. \A h \in Humans : hs[h] \in {human[h], Null}  OBVIOUS
    <3>4. Reads(w, "reading", "humans", v)  BY <2>2 DEF ReadHumans
    <3> HIDE DEF v, hs
    <3> QED  BY <1>2, <3>2, <3>3, <3>4
  <2>3. CASE ReadLlm(w)
    <3> DEFINE l == IF llm # Null /\ llm.id = taken[w].llm THEN llm ELSE Null
               v == [view[w] EXCEPT !.llm = l]
    <3>1. l \in LlmRow \cup {Null} /\ l \in {llm, Null}  BY DEF TypeOK
    <3>2. v \in View /\ v.humans = view[w].humans /\ v.llm = l /\ v.pairs = view[w].pairs
      BY <1>0, <3>1 DEF View
    <3>3. Reads(w, "reading", "llm", v)  BY <2>3 DEF ReadLlm
    <3> HIDE DEF v, l
    <3> QED  BY <1>2, <3>1, <3>2, <3>3
  <2>4. CASE ReadPairs(w)
    <3> DEFINE v == [view[w] EXCEPT !.pairs = equivs]
    <3>1. v \in View /\ v.humans = view[w].humans /\ v.llm = view[w].llm /\ v.pairs = equivs
      BY <1>0 DEF View, TypeOK
    <3>2. Reads(w, "reading", "pairs", v)  BY <2>4 DEF ReadPairs
    <3> HIDE DEF v
    <3> QED  BY <1>2, <3>1, <3>2
  <2>5. CASE ReadReviewers(w)
    <3> DEFINE v == [view[w] EXCEPT !.dependents = @ \cup {r.human : r \in reviews}]
    <3>1. v \in View  BY <1>0, ReviewersType DEF TypeOK
    <3>2. v.humans = view[w].humans /\ v.llm = view[w].llm /\ v.pairs = view[w].pairs
      BY <1>0 DEF View
    <3>3. Reads(w, "selecting", "reviews", v)  BY <2>5 DEF ReadReviewers
    <3> HIDE DEF v
    <3> QED  BY <1>2, <3>1, <3>2, <3>3
  <2>6. CASE ReadPastReviewers(w)
    <3> DEFINE v == [view[w] EXCEPT !.dependents = @ \cup {r.human : r \in history}]
    <3>1. v \in View  BY <1>0, ReviewersType DEF TypeOK
    <3>2. v.humans = view[w].humans /\ v.llm = view[w].llm /\ v.pairs = view[w].pairs
      BY <1>0 DEF View
    <3>3. Reads(w, "selecting", "history", v)  BY <2>6 DEF ReadPastReviewers
    <3> HIDE DEF v
    <3> QED  BY <1>2, <3>1, <3>2, <3>3
  <2>7. CASE InputsRead(w) \/ ReviewersRead(w)
    BY <2>7 DEF InputsRead, ReviewersRead
  <2> QED  BY <1>3, <2>1, <2>2, <2>3, <2>4, <2>5, <2>6, <2>7 DEF Read
<1>4. ASSUME NEW w \in Workers, Acknowledge(w) \/ RecordFailure(w) \/ Crash(w)
      PROVE  Now /\ \A x \in Workers : Fresh(x)
  BY <1>1, <1>4 DEF Acknowledge, RecordFailure, Crash, rows, counters
<1>5. ASSUME NEW w \in Workers, Fetch(w) \/ Reconcile(w) \/ Reject(w) \/ SkipCall(w) \/ QueryFails(w)
      PROVE  view' = view
  BY <1>5 DEF Fetch, Reconcile, Reject, SkipCall, QueryFails
<1>6. ASSUME \/ \E h \in Humans : SaveResponse(h)
             \/ PublishLlm \/ Equivalences
             \/ PublishSchema \/ SetMode \/ Regenerate \/ BecomeDue \/ UNCHANGED vars
      PROVE  view' = view
  BY <1>6 DEF SaveResponse, PublishLlm, Equivalences, BeginMarkEquivalent,
              CommitMarkEquivalent, UnmarkEquivalent, SubmitVerdict, PublishSchema,
              SetMode, Regenerate, BecomeDue, workers, vars
<1> HIDE DEF Now, Fresh
<1>7. view' = view \/ (Now /\ \A x \in Workers : Fresh(x))
  BY <1>3, <1>4, <1>5, <1>6 DEF Next, Drain
<1> QED  BY <1>7 DEF Now, Fresh

\* Initially nothing has been read.
LEMMA InitViews == Init => ViewInv
<1> SUFFICES ASSUME Init PROVE ViewInv  OBVIOUS
<1>1. HumansSeen /\ LlmSeen /\ LlmAtHand
  BY DEF Init, HumansSeen, LlmSeen, LlmAtHand, NothingRead
<1>2. KnownPairs = {}
  BY DEF Init, KnownPairs, NothingRead
<1> QED  BY <1>1, <1>2 DEF ViewInv, PairsNumberedApart

\* Only a save changes a response, and it makes its version grow.
LEMMA HumanStep ==
  ASSUME TypeOK, [Next]_vars
  PROVE  \/ human' = human
         \/ /\ view' = view
            /\ \E h \in Humans :
                 /\ \A x \in Humans : x # h => human'[x] = human[x]
                 /\ human'[h] # Null
                 /\ human[h] # Null => human'[h].version = human[h].version + 1
<1>1. ASSUME NEW h \in Humans, SaveResponse(h)
      PROVE  /\ view' = view
             /\ \A x \in Humans : x # h => human'[x] = human[x]
             /\ human'[h] # Null
             /\ human[h] # Null => human'[h].version = human[h].version + 1
  <2>1. PICK a \in AnswerMap : human' = [human EXCEPT ![h] = SavedRow(h, a)]
    BY <1>1 DEF SaveResponse, Submissions
  <2>2. SavedRow(h, a) # Null  BY SavedRowType, NullAssumption
  <2>3. human[h] # Null => SavedRow(h, a).version = human[h].version + 1
    BY DEF SavedRow, Version
  <2> QED  BY <1>1, <2>1, <2>2, <2>3 DEF SaveResponse, workers, TypeOK
<1>2. ASSUME PublishLlm \/ Equivalences \/ PublishSchema \/ SetMode \/ Regenerate
             \/ BecomeDue \/ UNCHANGED vars
      PROVE  human' = human
  BY <1>2 DEF PublishLlm, Equivalences, BeginMarkEquivalent, CommitMarkEquivalent,
              UnmarkEquivalent, SubmitVerdict, PublishSchema, SetMode, Regenerate,
              BecomeDue, rows, vars
<1>3. ASSUME NEW w \in Workers, Drain(w) \/ QueryFails(w) \/ Crash(w)
      PROVE  human' = human
  BY <1>3, QuietSteps DEF Drain, Reconcile
<1> QED  BY <1>1, <1>2, <1>3 DEF Next

\* What has been read of a response keeps its relation to the row.
LEMMA NextHumansSeen ==
  ASSUME TypeOK, TypeOK', HumansSeen, [Next]_vars
  PROVE  HumansSeen'
<1> SUFFICES ASSUME NEW w \in Workers, NEW h \in Humans, view'[w].humans[h] # Null
             PROVE  /\ human'[h] # Null
                    /\ view'[w].humans[h].version <= human'[h].version
                    /\ view'[w].humans[h].version = human'[h].version
                         => view'[w].humans[h] = human'[h]
  BY DEF HumansSeen
<1>1. \A x \in Humans : human[x] # Null => human[x].version \in Nat
  BY DEF TypeOK, HumanRow
<1>2. CASE view' = view
  <2>1. /\ human[h] # Null
        /\ view[w].humans[h].version <= human[h].version
        /\ view[w].humans[h].version = human[h].version => view[w].humans[h] = human[h]
    BY <1>2 DEF HumansSeen
  <2>2. view[w].humans[h].version \in Nat
    BY <1>2 DEF TypeOK, View, HumanRow
  <2> QED  BY <1>1, <1>2, <2>1, <2>2, HumanStep
<1>3. CASE /\ UNCHANGED human
           /\ view'[w].humans[h] \in {view[w].humans[h], human[h], Null}
  BY <1>1, <1>3 DEF HumansSeen
<1> QED  BY <1>2, <1>3, ViewStep

\* Only a publication changes the LLM response, and it numbers it apart.
LEMMA LlmStep ==
  ASSUME TypeOK, [Next]_vars
  PROVE  \/ llm' = llm /\ publishes' = publishes
         \/ /\ view' = view /\ publishes' = publishes + 1
            /\ llm' = Null \/ llm'.id = publishes + 1
<1>1. ASSUME PublishLlm
      PROVE  /\ view' = view /\ publishes' = publishes + 1
             /\ llm' = Null \/ llm'.id = publishes + 1
  BY <1>1 DEF PublishLlm, workers
<1>2. ASSUME \/ \E h \in Humans : SaveResponse(h)
             \/ Equivalences \/ PublishSchema \/ SetMode \/ Regenerate
             \/ BecomeDue \/ UNCHANGED vars
      PROVE  llm' = llm /\ publishes' = publishes
  BY <1>2 DEF SaveResponse, Equivalences, BeginMarkEquivalent, CommitMarkEquivalent,
              UnmarkEquivalent, SubmitVerdict, PublishSchema, SetMode, Regenerate,
              BecomeDue, rows, counters, vars
<1>3. ASSUME NEW w \in Workers, Drain(w) \/ QueryFails(w) \/ Crash(w)
      PROVE  llm' = llm /\ publishes' = publishes
  BY <1>3 DEF Drain, Fetch, Read, ReadProject, ReadHumans, ReadLlm, ReadPairs, InputsRead,
              ReadReviewers, ReadPastReviewers, ReviewersRead, Reads, Reconcile, Reject,
              SkipCall, Acknowledge, RecordFailure, QueryFails, Crash, rows, counters
<1> QED  BY <1>1, <1>2, <1>3 DEF Next

\* What has been read of the LLM keeps its relation to the current generation.
LEMMA NextLlmSeen ==
  ASSUME TypeOK, TypeOK', LlmSeen, [Next]_vars
  PROVE  LlmSeen'
<1>1. /\ publishes \in Nat /\ (llm # Null => llm.id \in Nat)
      /\ \A w \in Workers : view[w].llm # Null => view[w].llm.id \in Nat
  BY DEF TypeOK, View, LlmRow
<1>2. CASE view' = view
  BY <1>1, <1>2, LlmStep DEF LlmSeen
<1>3. CASE /\ UNCHANGED <<llm, publishes>>
           /\ \A w \in Workers : view'[w].llm \in {view[w].llm, llm, Null}
  BY <1>3 DEF LlmSeen
<1> QED  BY <1>2, <1>3, ViewStep

\* A worker reads the LLM response before it decides to call the function.
LEMMA NextLlmAtHand ==
  ASSUME TypeOK, LlmAtHand, [Next]_vars
  PROVE  LlmAtHand'
<1>1. ASSUME NEW w \in Workers, Leave(w) PROVE LlmAtHand'
  BY <1>1 DEF Leave, Goto, LlmAtHand, TypeOK
<1>2. ASSUME NEW w \in Workers, NEW next, Goto(w, next), view' = view,
             next \in {"selecting", "calling"} => view[w].llm # Null
      PROVE  LlmAtHand'
  BY <1>2 DEF Goto, LlmAtHand, TypeOK
<1>3. ASSUME UNCHANGED <<pc, view>> PROVE LlmAtHand'
  BY <1>3 DEF LlmAtHand
<1>4. ASSUME NEW w \in Workers, Read(w) PROVE LlmAtHand'
  <2>1. CASE ReadProject(w) \/ ReadHumans(w) \/ ReadLlm(w) \/ ReadPairs(w)
    <3>1. pc[w] = "reading" /\ pc' = pc /\ \A x \in Workers : x # w => view'[x] = view[x]
      BY <2>1 DEF ReadProject, ReadHumans, ReadLlm, ReadPairs, Reads, TypeOK
    <3> QED  BY <3>1 DEF LlmAtHand
  <2>2. CASE ReadReviewers(w) \/ ReadPastReviewers(w)
    <3>1. pc' = pc /\ view'[w].llm = view[w].llm
          /\ \A x \in Workers : x # w => view'[x] = view[x]
      BY <2>2 DEF ReadReviewers, ReadPastReviewers, Reads, TypeOK, View
    <3> QED  BY <3>1 DEF LlmAtHand
  <2>3. CASE InputsRead(w)
    BY <1>2, <2>3 DEF InputsRead
  <2>4. CASE ReviewersRead(w)
    <3>1. view[w].llm # Null  BY <2>4 DEF ReviewersRead, LlmAtHand
    <3> QED  BY <1>2, <2>4, <3>1 DEF ReviewersRead
  <2> QED  BY <1>4, <2>1, <2>2, <2>3, <2>4 DEF Read
<1>5. ASSUME NEW w \in Workers,
             Fetch(w) \/ Reconcile(w) \/ Reject(w) \/ SkipCall(w) \/ QueryFails(w)
      PROVE  LlmAtHand'
  BY <1>2, <1>5 DEF Fetch, Reconcile, Reject, SkipCall, QueryFails
<1>6. ASSUME NEW w \in Workers, Acknowledge(w) \/ RecordFailure(w) \/ Crash(w)
      PROVE  LlmAtHand'
  BY <1>1, <1>6 DEF Acknowledge, RecordFailure, Crash
<1>7. ASSUME \/ \E h \in Humans : SaveResponse(h)
             \/ PublishLlm \/ Equivalences
             \/ PublishSchema \/ SetMode \/ Regenerate \/ BecomeDue \/ UNCHANGED vars
      PROVE  LlmAtHand'
  BY <1>3, <1>7 DEF SaveResponse, PublishLlm, Equivalences, BeginMarkEquivalent,
                    CommitMarkEquivalent, UnmarkEquivalent, SubmitVerdict, PublishSchema,
                    SetMode, Regenerate, BecomeDue, workers, vars
<1> QED  BY <1>4, <1>5, <1>6, <1>7 DEF Next, Drain

\* A step makes at most one pair known, and numbers it apart.
LEMMA PairStep ==
  ASSUME TypeOK, SnapshotsCurrent, [Next]_vars
  PROVE  \/ KnownPairs' \subseteq KnownPairs /\ pairs' = pairs
         \/ /\ pairs' = pairs + 1
            /\ \E new : KnownPairs' \subseteq KnownPairs \cup {new} /\ new.id = pairs + 1
<1>1. ASSUME view' = view, marking' = marking, equivs' \subseteq equivs
      PROVE  KnownPairs' \subseteq KnownPairs
  BY <1>1 DEF KnownPairs
<1>2. ASSUME NEW h \in Humans, SaveResponse(h)
      PROVE  KnownPairs' \subseteq KnownPairs /\ pairs' = pairs
  <2>1. view' = view /\ marking' = marking /\ pairs' = pairs
    BY <1>2 DEF SaveResponse, workers, counters
  <2>2. equivs' \subseteq equivs  BY <1>2 DEF SaveResponse
  <2> QED  BY <1>1, <2>1, <2>2
<1>3. ASSUME PublishLlm
      PROVE  KnownPairs' \subseteq KnownPairs /\ pairs' = pairs
  <2>1. view' = view /\ marking' = marking /\ pairs' = pairs /\ equivs' \subseteq equivs
    BY <1>3 DEF PublishLlm, workers
  <2> QED  BY <1>1, <2>1
<1>4. ASSUME NEW h \in Humans, NEW f \in Fields, BeginMarkEquivalent(h, f)
      PROVE  /\ pairs' = pairs + 1
             /\ \E new : KnownPairs' \subseteq KnownPairs \cup {new} /\ new.id = pairs + 1
  <2>1. /\ pairs' = pairs + 1 /\ marking'.new = NewPair(f, h)
        /\ equivs' = equivs /\ view' = view
    BY <1>4 DEF BeginMarkEquivalent, workers
  <2>2. NewPair(f, h).id = pairs + 1  BY DEF NewPair
  <2>3. KnownPairs' \subseteq KnownPairs \cup {NewPair(f, h)}
    BY <2>1 DEF KnownPairs
  <2> QED  BY <2>1, <2>2, <2>3
<1>5. ASSUME CommitMarkEquivalent
      PROVE  KnownPairs' \subseteq KnownPairs /\ pairs' = pairs
  <2>1. /\ marking # Null /\ marking.new \in Pair
        /\ equivs' \subseteq equivs \cup {marking.new}
        /\ marking' = Null /\ view' = view /\ pairs' = pairs
    BY <1>5 DEF CommitMarkEquivalent, InsertPair, TypeOK, workers, counters
  <2> QED  BY <2>1 DEF KnownPairs
<1>6. ASSUME UnmarkEquivalent
      PROVE  KnownPairs' \subseteq KnownPairs /\ pairs' = pairs
  <2>1. view' = view /\ marking' = marking /\ pairs' = pairs /\ equivs' \subseteq equivs
    BY <1>6 DEF UnmarkEquivalent, workers, counters
  <2> QED  BY <1>1, <2>1
<1>7. ASSUME NEW r \in reviews, NEW v \in Verdicts, SubmitVerdict(r, v)
      PROVE  \/ KnownPairs' \subseteq KnownPairs /\ pairs' = pairs
             \/ /\ pairs' = pairs + 1
                /\ \E new : KnownPairs' \subseteq KnownPairs \cup {new} /\ new.id = pairs + 1
  <2>1. view' = view /\ marking' = marking
    BY <1>7 DEF SubmitVerdict, workers
  <2>2. CASE v # "equivalente"
    BY <1>1, <1>7, <2>1, <2>2 DEF SubmitVerdict
  <2>3. CASE v = "equivalente"
    <3>1. pairs' = pairs + 1 /\ equivs' \subseteq equivs \cup {NewPair(r.field, r.human)}
      BY <1>7, <2>3 DEF SubmitVerdict, InsertPair
    <3>2. NewPair(r.field, r.human).id = pairs + 1  BY DEF NewPair
    <3>3. KnownPairs' \subseteq KnownPairs \cup {NewPair(r.field, r.human)}
      BY <2>1, <3>1 DEF KnownPairs
    <3> QED  BY <3>1, <3>2, <3>3
  <2> QED  BY <2>2, <2>3
<1>8. ASSUME PublishSchema \/ SetMode \/ Regenerate \/ BecomeDue \/ UNCHANGED vars
      PROVE  KnownPairs' \subseteq KnownPairs /\ pairs' = pairs
  <2>1. view' = view /\ marking' = marking /\ pairs' = pairs /\ equivs' \subseteq equivs
    BY <1>8 DEF PublishSchema, SetMode, Regenerate, BecomeDue, rows, workers, counters, vars
  <2> QED  BY <1>1, <2>1
<1>9. ASSUME NEW w \in Workers, Drain(w) \/ QueryFails(w) \/ Crash(w)
      PROVE  KnownPairs' \subseteq KnownPairs /\ pairs' = pairs
  <2>1. pairs' = pairs /\ marking' = marking /\ equivs' \subseteq equivs
    BY <1>9 DEF Drain, Fetch, Read, ReadProject, ReadHumans, ReadLlm, ReadPairs, InputsRead,
                ReadReviewers, ReadPastReviewers, ReviewersRead, Reads, Reconcile, Reject,
                SkipCall, Acknowledge, RecordFailure, QueryFails, Crash, rows, counters
  <2>2. \A x \in Workers : view'[x].pairs \in {view[x].pairs, equivs, {}}
    BY ViewStep
  <2>3. CASE view' = view
    BY <1>1, <2>1, <2>3
  <2>4. CASE view' # view
    <3>1. equivs' = equivs  BY <2>4, ViewStep
    <3> QED  BY <2>1, <2>2, <3>1 DEF KnownPairs
  <2> QED  BY <2>1, <2>3, <2>4
<1> QED
  BY <1>2, <1>3, <1>4, <1>5, <1>6, <1>7, <1>8, <1>9 DEF Next, Equivalences

\* The known pairs keep distinct ids.
LEMMA NextPairs ==
  ASSUME TypeOK, SnapshotsCurrent, PairsNumberedApart, [Next]_vars
  PROVE  PairsNumberedApart'
<1>1. pairs \in Nat /\ \A p \in KnownPairs : p.id \in Nat
  BY DEF TypeOK, KnownPairs, View, Pair
<1>2. CASE KnownPairs' \subseteq KnownPairs /\ pairs' = pairs
  BY <1>2 DEF PairsNumberedApart
<1>3. CASE /\ pairs' = pairs + 1
           /\ \E new : KnownPairs' \subseteq KnownPairs \cup {new} /\ new.id = pairs + 1
  <2>1. PICK new : KnownPairs' \subseteq KnownPairs \cup {new} /\ new.id = pairs + 1
    BY <1>3
  <2>2. \A p \in KnownPairs : p.id <= pairs' /\ p.id # new.id
    BY <1>1, <1>3, <2>1 DEF PairsNumberedApart
  <2>3. new.id <= pairs'  BY <1>1, <1>3, <2>1
  <2> QED  BY <2>1, <2>2, <2>3 DEF PairsNumberedApart
<1> QED  BY <1>2, <1>3, PairStep

\* What the workers hold stays in order.
LEMMA NextViews == IInv /\ ViewInv /\ [Next]_vars => ViewInv'
<1> SUFFICES ASSUME IInv, ViewInv, [Next]_vars PROVE ViewInv'  OBVIOUS
<1>1. TypeOK /\ TypeOK' /\ SnapshotsCurrent  BY NextType DEF IInv
<1> QED
  BY <1>1, NextHumansSeen, NextLlmSeen, NextLlmAtHand, NextPairs DEF ViewInv

\* It is in order in every reachable state.
THEOREM ViewInvariance == Spec => []ViewInv
<1>1. Init => ViewInv  BY InitViews
<1>2. IInv /\ ViewInv /\ [Next]_vars => ViewInv'  BY NextViews
<1> QED  BY <1>1, <1>2, Invariance, PTL DEF Spec

-----------------------------------------------------------------------------
\* An accepted call sees the database as it is.

\* The divergences the worker computed are the divergences of this moment.
LEMMA AcceptedDivergences ==
  ASSUME TypeOK, ViewInv, NEW w \in Workers, Reconcile(w), NEW h \in Group(w)
  PROVE  Divergent(w, h) = DivergentFields(schema, h, human[h], llm, equivs)
<1> DEFINE seen == view[w].pairs
<1>1. Accepts(w, h) /\ pc[w] = "calling" /\ h \in Humans
  BY DataAssumption DEF Reconcile, Group
<1>2. human[h] = view[w].humans[h]
  BY <1>1 DEF Accepts, Group, ViewInv, HumansSeen
<1>3. llm = view[w].llm /\ schema = view[w].schema
  BY <1>1 DEF Accepts, ViewInv, LlmSeen, LlmAtHand
<1>4. seen \subseteq KnownPairs /\ equivs \subseteq KnownPairs
  BY DEF KnownPairs
<1>5. CurrentPairIds(w, h) = ExpectedPairIds(w, h)
  BY <1>1 DEF Accepts
<1>6. ASSUME NEW f \in schema
      PROVE  (\E p \in seen : IsCurrentPair(p, f, h, human[h], llm))
               <=> (\E p \in equivs : IsCurrentPair(p, f, h, human[h], llm))
  <2>1. ASSUME NEW p \in seen, IsCurrentPair(p, f, h, human[h], llm)
        PROVE  p \in equivs
    <3>1. p.id \in ExpectedPairIds(w, h)
      BY <1>3, <2>1 DEF ExpectedPairIds, IsCurrentPair
    <3>2. PICK q \in equivs : q.id = p.id
      BY <1>5, <3>1 DEF CurrentPairIds
    <3> QED  BY <1>4, <3>2 DEF ViewInv, PairsNumberedApart
  <2>2. ASSUME NEW p \in equivs, IsCurrentPair(p, f, h, human[h], llm)
        PROVE  p \in seen
    <3>1. p.id \in CurrentPairIds(w, h)
      BY <1>3, <1>6, <2>2 DEF CurrentPairIds, IsCurrentPair
    <3>2. PICK q \in seen : q.id = p.id
      BY <1>5, <3>1 DEF ExpectedPairIds
    <3> QED  BY <1>4, <3>2 DEF ViewInv, PairsNumberedApart
  <2> QED  BY <2>1, <2>2
<1>7. ASSUME NEW f \in schema
      PROVE  Diverges(f, h, human[h], llm, seen) <=> Diverges(f, h, human[h], llm, equivs)
  BY <1>6 DEF Diverges
<1> QED  BY <1>2, <1>3, <1>7 DEF Divergent, DivergentFields

\* No cycle is ever opened, or renewed, where its coder and the LLM agree: the
\* versions the worker sends make its reading as good as a lock.
THEOREM OnlyDisagreementsAreOpened == Spec => OpensOnlyDisagreements
<1> DEFINE New(r) == \A s \in reviews : s.field = r.field => s.cycle # r.cycle
           Real == \A r \in reviews' : New(r) => Disagrees(r.human, r.field)
<1>1. ASSUME IInv, ViewInv, [Next]_vars PROVE Real
  <2>1. TypeOK /\ CyclesBounded  BY <1>1 DEF IInv
  <2>2. ASSUME reviews' \subseteq reviews PROVE Real
    BY <2>2
  <2>3. ASSUME NEW h \in Humans, SaveResponse(h) PROVE Real
    BY <2>2, <2>3 DEF SaveResponse, Archive
  <2>4. ASSUME PublishLlm PROVE Real
    BY <2>2, <2>4 DEF PublishLlm, Archive
  <2>5. ASSUME NEW r \in reviews, NEW v \in Verdicts, SubmitVerdict(r, v) PROVE Real
    <3>1. reviews' = (reviews \ {r}) \cup {[r EXCEPT !.verdict = v]}
      BY <2>5 DEF SubmitVerdict
    <3>2. [r EXCEPT !.verdict = v].field = r.field /\ [r EXCEPT !.verdict = v].cycle = r.cycle
      BY <2>1 DEF TypeOK, Review
    <3> QED  BY <3>1, <3>2
  <2>6. ASSUME NEW w \in Workers, Reconcile(w) PROVE Real
    <3>1. ASSUME NEW s \in Renewed(w) \cup Opened(w)
          PROVE  s.human \in Group(w) /\ s.field \in Divergent(w, s.human)
      <4>1. CASE s \in Renewed(w)
        BY <2>1, <2>6, <4>1, RenewedCycles
      <4>2. CASE s \in Opened(w)
        BY <2>1, <2>6, <4>2, OpenedCycles DEF Candidates
      <4> QED  BY <3>1, <4>1, <4>2
    <3>2. \A s \in Renewed(w) \cup Opened(w) : Disagrees(s.human, s.field)
      BY <1>1, <2>1, <2>6, <3>1, AcceptedDivergences DEF Disagrees
    <3>3. reviews' \subseteq reviews \cup Renewed(w) \cup Opened(w)
      BY <2>6 DEF Reconcile, Kept
    <3> QED  BY <3>2, <3>3
  <2>7. ASSUME UNCHANGED <<human, llm, reviews, history>> PROVE Real
    BY <2>2, <2>7
  <2> HIDE DEF Real
  <2> QED
    BY <1>1, <2>3, <2>4, <2>5, <2>6, <2>7, QuietSteps DEF Next, Equivalences, Drain
<1>2. IInv /\ ViewInv /\ [Next]_vars => [Real]_vars  BY <1>1
<1> QED  BY <1>2, Invariance, ViewInvariance, PTL DEF Spec, OpensOnlyDisagreements

-----------------------------------------------------------------------------
(***************************************************************************)
(* No false consensus, the promise to those who have reviewed the          *)
(* document, and the outbox as an implementation of ReviewOutbox, for any  *)
(* number of coders, fields, workers and saves and in whatever order a     *)
(* worker's queries answer.                                                *)
(*                                                                         *)
(* They hold while the schema stays as it is and nobody removes an         *)
(* equivalence: those changes enqueue nothing.                             *)
(*                                                                         *)
(* The inductive invariant is Promise: what is at stake is announced by a  *)
(* request that no worker is about to acknowledge, and a worker that may   *)
(* still acknowledge it has seen, or is yet to see, whom it is about.      *)
(***************************************************************************)

\* The coordinator changes nothing: a schema or a mode is all there is.
FixedSchema == \A s, t \in Schemas : s = t
FixedMode == \A m, n \in Modes : m = n
QuietProject == FixedSchema /\ ~UndoPairs

\* The document is always under auto-review.
Always == \A m \in Modes : m

-----------------------------------------------------------------------------
\* What is at stake.

Past == {e.human : e \in history}
Dependents == {r.human : r \in reviews \cup history}

\* A coder whose cycles the queue answers for.
Promised(h) == h \in Dependents \/ Always

\* Coder h is owed a cycle on f.
Owes(h, f) ==
  /\ llm # Null /\ f \in schema /\ OpenCycles(f) = {}
  /\ Compared(h) /\ Disagrees(h, f)
  /\ \A e \in history : e.field = f => e.human = h

\* The decision that is being recorded drops an equivalence that still counts.
Dropped(h) ==
  /\ llm # Null /\ marking # Null
  /\ Compared(h)
  /\ \E p \in marking.drop : IsCurrentPair(p, p.field, h, human[h], llm)

AtStake(h) == Promised(h) /\ (Dropped(h) \/ \E f \in Fields : Owes(h, f))

-----------------------------------------------------------------------------
\* The inductive invariant.

\* The settings are among those the coordinator publishes.
Settings == schema \in Schemas /\ mode \in Modes

\* Without a request nothing is at stake.
QueueInv ==
  /\ request # Null => request.at <= stamp /\ (Always => request.allow)
  /\ request = Null => \A h \in Humans : ~AtStake(h)

\* Where a worker is tells what it has read.
StageInv(w) ==
  /\ pc[w] = "idle" => view[w].seen = {} /\ view[w].dependents = {}
  /\ pc[w] # "idle" => taken[w] # Null /\ taken[w].at <= stamp /\ (Always => taken[w].allow)
  /\ pc[w] \in {"selecting", "calling"} => "humans" \in view[w].seen
  /\ pc[w] = "calling" => taken[w].allow \/ {"reviews", "history"} \subseteq view[w].seen

\* The worker has the coder's response, if it has read the responses.
HumanKnown(w, h) == "humans" \in view[w].seen => view[w].humans[h] = human[h]

\* The worker knows the coder for a reviewer, or is going to find it in the table
\* it has not read yet.
ReviewerKnown(w, h) ==
  \/ taken[w].allow \/ h \in view[w].dependents
  \/ /\ "reviews" \in view[w].seen => h \in Past
     /\ "history" \in view[w].seen => h \notin Past

\* A worker whose request is still the one it read has missed nothing.
WorkerInv(w) ==
  IsTaken(w) =>
    /\ pc[w] = "reading" /\ "llm" \in view[w].seen => view[w].llm # Null
    /\ pc[w] \in {"reading", "selecting", "calling"} =>
         \A h \in Humans : AtStake(h) => HumanKnown(w, h) /\ ReviewerKnown(w, h)
    /\ pc[w] = "acking" => \A h \in Humans : ~AtStake(h)

Promise ==
  /\ Settings /\ QueueInv
  /\ \A w \in Workers : StageInv(w) /\ (pc[w] # "idle" => WorkerInv(w))

-----------------------------------------------------------------------------
\* Steps by which nothing new comes to be at stake.

\* What stays at stake was so already, for the same answers, and its coder has
\* not moved to the archive.
NothingNew ==
  /\ Past \subseteq Past'
  /\ \A h \in Humans : AtStake(h)' =>
       AtStake(h) /\ human'[h] = human[h] /\ (h \in Past' => h \in Past)

\* More equivalences that count leave fewer divergences.
LEMMA DivergencesShrink ==
  ASSUME NEW fields, NEW h, NEW row, NEW l, NEW ps, NEW qs,
         \A p \in ps : IsCurrentPair(p, p.field, h, row, l) => p \in qs
  PROVE  DivergentFields(fields, h, row, l, qs) \subseteq DivergentFields(fields, h, row, l, ps)
<1>1. ASSUME NEW f, NEW p \in ps, IsCurrentPair(p, f, h, row, l) PROVE p \in qs
  BY <1>1 DEF IsCurrentPair
<1>2. ASSUME NEW f, Diverges(f, h, row, l, qs) PROVE Diverges(f, h, row, l, ps)
  BY <1>1, <1>2 DEF Diverges
<1> QED  BY <1>2 DEF DivergentFields

\* Coder h comes to be owed nothing new if its answers stay, what blocks a field
\* goes on blocking it, and only a decision being recorded drops an equivalence.
LEMMA StakeShrinks ==
  ASSUME NEW h \in Humans,
         schema' = schema, llm' = llm, human'[h] = human[h],
         Promised(h)' => Promised(h),
         Dropped(h)' => Dropped(h),
         \A f \in Fields :
           OpenCycles(f)' = {} /\ (\A e \in history' : e.field = f => e.human = h)
             => OpenCycles(f) = {} /\ (\A e \in history : e.field = f => e.human = h),
         Compared(h) => \A p \in equivs :
           IsCurrentPair(p, p.field, h, human[h], llm) => p \in equivs' \/ Dropped(h)
  PROVE  AtStake(h)' => AtStake(h)
<1>1. Compared(h)' <=> Compared(h)  BY DEF Compared
<1>2. ASSUME NEW f \in Fields, Owes(h, f)', ~Dropped(h) PROVE Owes(h, f)
  <2>1. Compared(h)  BY <1>1, <1>2 DEF Owes
  <2>2. f \in DivergentFields(schema', h, human'[h], llm', equivs')
    BY <1>2 DEF Owes, Disagrees
  <2>3. f \in DivergentFields(schema, h, human[h], llm, equivs')
    BY <2>2
  <2>4. \A p \in equivs : IsCurrentPair(p, p.field, h, human[h], llm) => p \in equivs'
    BY <2>1, <1>2
  <2>5. f \in DivergentFields(schema, h, human[h], llm, equivs)
    BY <2>3, <2>4, DivergencesShrink
  <2>6. llm # Null /\ f \in schema  BY <1>2 DEF Owes
  <2>7. OpenCycles(f)' = {} /\ \A e \in history' : e.field = f => e.human = h
    BY <1>2 DEF Owes
  <2> QED  BY <2>1, <2>5, <2>6, <2>7 DEF Owes, Disagrees
<1> QED  BY <1>2 DEF AtStake

\* Where the rows stay, or only equivalences are added, nothing is new.
LEMMA QuietRows ==
  ASSUME UNCHANGED <<schema, human, llm, marking, reviews, history>>, equivs \subseteq equivs'
  PROVE  NothingNew
<1>1. Past' = Past /\ Dependents' = Dependents  BY DEF Past, Dependents
<1>2. ASSUME NEW h \in Humans PROVE AtStake(h)' => AtStake(h)
  <2>1. Promised(h)' => Promised(h)  BY <1>1 DEF Promised
  <2>2. Dropped(h)' => Dropped(h)  BY DEF Dropped, Compared, IsCurrentPair
  <2>3. \A f \in Fields : OpenCycles(f)' = OpenCycles(f)  BY DEF OpenCycles
  <2> QED  BY <2>1, <2>2, <2>3, StakeShrinks
<1> QED  BY <1>1, <1>2 DEF NothingNew

\* record_response_equivalences, to its snapshots: what it is going to drop counts
\* for nothing at that moment.
LEMMA BeginIsQuiet ==
  ASSUME NEW h0 \in Humans, NEW f0 \in Fields, BeginMarkEquivalent(h0, f0)
  PROVE  NothingNew
<1>1. UNCHANGED <<schema, human, llm, equivs, reviews, history>>
  BY DEF BeginMarkEquivalent, project, cycles
<1>2. Past' = Past /\ Dependents' = Dependents  BY <1>1 DEF Past, Dependents
<1>3. \A p \in marking'.drop : HumanStale(p) \/ LlmStale(p)
  BY DEF BeginMarkEquivalent
<1>4. ASSUME NEW h \in Humans PROVE AtStake(h)' => AtStake(h)
  <2>1. Promised(h)' => Promised(h)  BY <1>2 DEF Promised
  <2>2. ~Dropped(h)'
    <3>1. ASSUME NEW p \in marking'.drop, IsCurrentPair(p, p.field, h, human[h], llm)
          PROVE  FALSE
      BY <1>3, <3>1 DEF IsCurrentPair, HumanStale, LlmStale
    <3> QED  BY <1>1, <3>1 DEF Dropped
  <2>3. \A f \in Fields : OpenCycles(f)' = OpenCycles(f)  BY <1>1 DEF OpenCycles
  <2> QED  BY <1>1, <2>1, <2>2, <2>3, StakeShrinks
<1> QED  BY <1>1, <1>2, <1>4 DEF NothingNew

\* Its commit: what it drops was at stake already.
LEMMA CommitIsQuiet ==
  ASSUME CommitMarkEquivalent
  PROVE  NothingNew
<1>1. UNCHANGED <<schema, human, llm, reviews, history>> /\ marking' = Null /\ marking # Null
  BY DEF CommitMarkEquivalent, project, cycles
<1>2. Past' = Past /\ Dependents' = Dependents  BY <1>1 DEF Past, Dependents
<1>3. equivs \ marking.drop \subseteq equivs'
  BY DEF CommitMarkEquivalent, InsertPair
<1>4. ASSUME NEW h \in Humans PROVE AtStake(h)' => AtStake(h)
  <2>1. Promised(h)' => Promised(h)  BY <1>2 DEF Promised
  <2>2. ~Dropped(h)'  BY <1>1 DEF Dropped
  <2>3. \A f \in Fields : OpenCycles(f)' = OpenCycles(f)  BY <1>1 DEF OpenCycles
  <2>4. CASE llm = Null
    BY <1>1, <2>2, <2>4 DEF AtStake, Owes
  <2>5. CASE llm # Null
    <3>1. Compared(h) => \A p \in equivs :
            IsCurrentPair(p, p.field, h, human[h], llm) => p \in equivs' \/ Dropped(h)
      BY <1>1, <1>3, <2>5 DEF Dropped
    <3> QED  BY <1>1, <2>1, <2>2, <2>3, <3>1, StakeShrinks
  <2> QED  BY <2>4, <2>5
<1> QED  BY <1>1, <1>2, <1>4 DEF NothingNew

\* submit_auto_review_verdicts: a verdict changes neither whose a cycle is nor
\* what it is about.
LEMMA VerdictIsQuiet ==
  ASSUME TypeOK, NEW r \in reviews, NEW v \in Verdicts, SubmitVerdict(r, v)
  PROVE  NothingNew
<1> DEFINE s == [r EXCEPT !.verdict = v]
<1>1. /\ UNCHANGED <<schema, human, llm, marking, history>>
      /\ reviews' = (reviews \ {r}) \cup {s}
  BY DEF SubmitVerdict, project
<1>2. equivs \subseteq equivs'  BY DEF SubmitVerdict, InsertPair
<1>3. s.human = r.human /\ s.field = r.field  BY DEF TypeOK, Review
<1> HIDE DEF s
<1>4. Past' = Past  BY <1>1 DEF Past
<1>5. Dependents' = Dependents  BY <1>1, <1>3 DEF Dependents
<1>6. ASSUME NEW h \in Humans PROVE AtStake(h)' => AtStake(h)
  <2>1. Promised(h)' => Promised(h)  BY <1>5 DEF Promised
  <2>2. Dropped(h)' => Dropped(h)  BY <1>1 DEF Dropped, Compared, IsCurrentPair
  <2>3. \A f \in Fields : OpenCycles(f)' = {} => OpenCycles(f) = {}
    BY <1>1, <1>3 DEF OpenCycles
  <2> QED  BY <1>1, <1>2, <2>1, <2>2, <2>3, StakeShrinks
<1> QED  BY <1>1, <1>4, <1>6 DEF NothingNew

-----------------------------------------------------------------------------
\* Steps that write the outbox.

\* The document is enqueued.
Announced ==
  /\ request' # Null /\ request'.at = stamp + 1 /\ stamp' = stamp + 1
  /\ request'.allow = mode
  /\ UNCHANGED workers

\* The request is withdrawn with the generation it names.
Withdrawn == request' = Null /\ llm' = Null /\ stamp' = stamp /\ UNCHANGED workers

\* Both producers announce.
LEMMA EnqueueAnnounces ==
  ASSUME TypeOK, NEW l \in Nat, Enqueue(l), UNCHANGED workers
  PROVE  Announced
<1>1. request' \in Request  BY EnqueueType
<1> QED  BY <1>1, NullAssumption DEF Enqueue, Announced

\* saveResponse: either it announces what it changes, or the coder it is about
\* has nothing at stake; the others are not concerned.
LEMMA SaveAnnounces ==
  ASSUME TypeOK, SnapshotsCurrent, Settings, NEW h0 \in Humans, SaveResponse(h0)
  PROVE  Announced \/ (NothingNew /\ UNCHANGED <<llm, request, stamp>> /\ UNCHANGED workers)
<1>1. PICK a \in Submissions(h0), noted \in BOOLEAN :
        /\ human' = [human EXCEPT ![h0] = SavedRow(h0, a)]
        /\ Archive(OutdatedReviews(h0, a, noted))
        /\ equivs' = equivs \ OutdatedPairs(h0, a, noted)
        /\ IF ~SavedRow(h0, a).partial /\ llm # Null /\ UnderAutoReview
           THEN Enqueue(llm.id) ELSE UNCHANGED queue
  BY DEF SaveResponse
<1>2. UNCHANGED <<schema, llm, marking>> /\ UNCHANGED workers
  BY DEF SaveResponse, project
<1>3. CASE ~SavedRow(h0, a).partial /\ llm # Null /\ UnderAutoReview
  <2>1. llm.id \in Nat  BY <1>3 DEF TypeOK, LlmRow
  <2> QED  BY <1>1, <1>2, <1>3, <2>1, EnqueueAnnounces
<1>4. CASE ~(~SavedRow(h0, a).partial /\ llm # Null /\ UnderAutoReview)
  <2> DEFINE gone == OutdatedReviews(h0, a, noted)
  <2>1. gone \subseteq reviews /\ \A r \in gone : r.human = h0
    BY DEF OutdatedReviews
  <2>2. reviews' = reviews \ gone /\ history' = history \cup gone
    BY <1>1 DEF Archive
  <2>3. UNCHANGED <<request, stamp>>  BY <1>1, <1>4 DEF queue
  <2> HIDE DEF gone
  <2>4. Dependents' = Dependents  BY <2>1, <2>2 DEF Dependents
  <2>5. Past \subseteq Past' /\ Past' \subseteq Past \cup {h0}
    BY <2>1, <2>2 DEF Past
  <2>6. ~AtStake(h0)'
    <3>1. human'[h0] = SavedRow(h0, a)  BY <1>1 DEF TypeOK
    <3>2. CASE SavedRow(h0, a).partial
      BY <3>1, <3>2 DEF AtStake, Owes, Dropped, Compared
    <3>3. CASE llm = Null
      BY <1>2, <3>3 DEF AtStake, Owes, Dropped
    <3>4. CASE ~UnderAutoReview
      <4>1. ~mode /\ Dependents = {}  BY <3>4 DEF UnderAutoReview, Dependents
      <4>2. ~Always  BY <4>1 DEF Always, Settings
      <4> QED  BY <2>4, <4>1, <4>2 DEF AtStake, Promised
    <3> QED  BY <1>4, <3>2, <3>3, <3>4
  <2>7. ASSUME NEW h \in Humans, h # h0
        PROVE  AtStake(h)' => AtStake(h) /\ human'[h] = human[h] /\ (h \in Past' => h \in Past)
    <3>1. human'[h] = human[h]  BY <1>1, <2>7 DEF TypeOK
    <3>2. Promised(h)' => Promised(h)  BY <2>4 DEF Promised
    <3>3. Dropped(h)' => Dropped(h)
      BY <1>2, <3>1 DEF Dropped, Compared, IsCurrentPair
    <3>4. ASSUME NEW f \in Fields, OpenCycles(f)' = {},
                 \A e \in history' : e.field = f => e.human = h
          PROVE  OpenCycles(f) = {} /\ \A e \in history : e.field = f => e.human = h
      BY <2>1, <2>2, <2>7, <3>4 DEF OpenCycles
    <3>5. \A p \in equivs : IsCurrentPair(p, p.field, h, human[h], llm) => p \in equivs'
      BY <1>1, <2>7 DEF OutdatedPairs, IsCurrentPair
    <3> QED  BY <1>2, <2>5, <2>7, <3>1, <3>2, <3>3, <3>4, <3>5, StakeShrinks
  <2> QED  BY <1>2, <2>3, <2>5, <2>6, <2>7 DEF NothingNew
<1> QED  BY <1>3, <1>4

\* publish_latest_llm_response: the new generation is announced, or there is none.
LEMMA PublishAnnounces ==
  ASSUME TypeOK, PublishLlm
  PROVE  Announced \/ Withdrawn
<1>1. UNCHANGED workers /\ publishes + 1 \in Nat
  BY DEF PublishLlm, TypeOK
<1>2. CASE Enqueue(publishes + 1)
  BY <1>1, <1>2, EnqueueAnnounces
<1>3. CASE llm' = Null /\ Withdraw
  BY <1>1, <1>3 DEF Withdraw, Withdrawn
<1> QED  BY <1>2, <1>3 DEF PublishLlm

-----------------------------------------------------------------------------
\* reconcile_auto_review_cycles.

\* A coder of an accepted call has nothing at stake after it.
LEMMA ReconcileSettles ==
  ASSUME IInv, ViewInv, NEW w \in Workers, Reconcile(w), NEW h \in Group(w)
  PROVE  ~AtStake(h)'
<1>1. UNCHANGED <<schema, human, llm, marking>> /\ marking = Null
  BY DEF Reconcile, project, DocumentFree
<1>2. TypeOK /\ CyclesBounded /\ h \in Humans
  BY DataAssumption DEF IInv, Group
<1>3. ~Dropped(h)'  BY <1>1 DEF Dropped
<1>4. ASSUME NEW f \in Fields, Owes(h, f)' PROVE FALSE
  <2>1. f \in DivergentFields(schema', h, human'[h], llm', equivs')
    BY <1>4 DEF Owes, Disagrees
  <2>2. f \in DivergentFields(schema, h, human[h], llm, equivs')
    BY <1>1, <2>1
  <2>3. ASSUME NEW p \in equivs, IsCurrentPair(p, p.field, h, human[h], llm)
        PROVE  p \in equivs'
    BY <2>3 DEF Reconcile, IsCurrentPair, HumanStale, LlmStale
  <2>4. f \in DivergentFields(schema, h, human[h], llm, equivs)
    BY <2>2, <2>3, DivergencesShrink
  <2>5. f \in Divergent(w, h)
    BY <1>2, <2>4, AcceptedDivergences
  <2>6. \A r \in Kept(w) \cup Opened(w) : r.field # f
    BY <1>4 DEF Owes, OpenCycles, Reconcile
  <2>7. \A e \in history \cup Closed(w) : e.field = f => e.human = h
    BY <1>4 DEF Owes, Reconcile
  <2>8. h \in Candidates(w, f)  BY <2>5, <2>6, <2>7 DEF Candidates
  <2>9. NewReview(f, Min(Candidates(w, f)), history \cup Closed(w)) \in Opened(w)
    BY <2>8 DEF Opened
  <2> QED  BY <2>6, <2>9 DEF NewReview
<1> QED  BY <1>3, <1>4 DEF AtStake

\* Nobody else comes to have anything at stake.
LEMMA ReconcileIsQuiet ==
  ASSUME IInv, ViewInv, NEW w \in Workers, Reconcile(w)
  PROVE  NothingNew
<1>1. UNCHANGED <<schema, human, llm, marking>> /\ marking = Null
  BY DEF Reconcile, project, DocumentFree
<1>2. /\ reviews' = (reviews \ Closed(w)) \cup Renewed(w) \cup Opened(w)
      /\ history' = history \cup Closed(w)
  BY DEF Reconcile, Kept
<1>3. Closed(w) \subseteq reviews /\ \A r \in Closed(w) : r.human \in Group(w)
  BY DEF Closed
<1>4. \A r \in Renewed(w) \cup Opened(w) : r.human \in Group(w)
  BY RenewedCycles, OpenedCycles DEF IInv, Candidates
<1>5. Past \subseteq Past' /\ Past' \subseteq Past \cup Group(w)
  BY <1>2, <1>3 DEF Past
<1>6. Dependents' \subseteq Dependents \cup Group(w)
  BY <1>2, <1>3, <1>4 DEF Dependents
<1>7. ASSUME NEW h \in Humans, h \notin Group(w)
      PROVE  AtStake(h)' => AtStake(h)
  <2>1. Promised(h)' => Promised(h)  BY <1>6, <1>7 DEF Promised
  <2>2. ~Dropped(h)'  BY <1>1 DEF Dropped
  <2>3. ASSUME NEW f \in Fields, OpenCycles(f)' = {},
               \A e \in history' : e.field = f => e.human = h
        PROVE  OpenCycles(f) = {} /\ \A e \in history : e.field = f => e.human = h
    BY <1>2, <1>3, <1>7, <2>3 DEF OpenCycles
  <2>4. ASSUME NEW p \in equivs, IsCurrentPair(p, p.field, h, human[h], llm)
        PROVE  p \in equivs'
    BY <2>4 DEF Reconcile, IsCurrentPair, HumanStale, LlmStale
  <2> QED  BY <1>1, <2>1, <2>2, <2>3, <2>4, StakeShrinks
<1> QED  BY <1>1, <1>5, <1>7, ReconcileSettles DEF NothingNew

-----------------------------------------------------------------------------
\* Every step announces what it puts at stake, or puts nothing at stake.

\* The request stays, or a worker acknowledges it.
Quiet ==
  /\ NothingNew /\ stamp' = stamp
  /\ request' # Null => /\ request # Null
                        /\ request'.llm = request.llm /\ request'.at = request.at
                        /\ request'.allow = request.allow
  /\ request' = Null => request = Null \/ \E w \in Workers : pc[w] = "acking" /\ IsTaken(w)

\* A step that leaves the outbox alone and makes nothing new is quiet.
LEMMA QuietQueue ==
  ASSUME NothingNew, UNCHANGED <<request, stamp>>
  PROVE  Quiet
BY DEF Quiet

\* Each step of the coders, the LLM, the coordinator and the workers.
LEMMA StepKind ==
  ASSUME IInv, ViewInv, Settings, QuietProject, [Next]_vars
  PROVE  Settings' /\ (Announced \/ Withdrawn \/ Quiet)
<1>1. TypeOK /\ SnapshotsCurrent  BY DEF IInv
<1>2. ASSUME UNCHANGED <<schema, human, llm, marking, reviews, history>>, equivs' = equivs
      PROVE  NothingNew
  BY <1>2, QuietRows
<1>3. ASSUME NEW h \in Humans, SaveResponse(h)
      PROVE  Settings' /\ (Announced \/ Withdrawn \/ Quiet)
  <2>1. Settings'  BY <1>3 DEF SaveResponse, project, Settings
  <2> QED  BY <1>1, <1>3, <2>1, SaveAnnounces, QuietQueue
<1>4. ASSUME PublishLlm
      PROVE  Settings' /\ (Announced \/ Withdrawn \/ Quiet)
  <2>1. Settings'  BY <1>4 DEF PublishLlm, project, Settings
  <2> QED  BY <1>1, <1>4, <2>1, PublishAnnounces
<1>5. ASSUME Equivalences
      PROVE  Settings' /\ (Announced \/ Withdrawn \/ Quiet)
  <2>1. UNCHANGED <<request, stamp>> /\ Settings'
    BY <1>5 DEF Equivalences, BeginMarkEquivalent, CommitMarkEquivalent, UnmarkEquivalent,
                SubmitVerdict, project, queue, Settings
  <2>2. ~UnmarkEquivalent  BY DEF UnmarkEquivalent, QuietProject
  <2>3. NothingNew
    BY <1>1, <1>5, <2>2, BeginIsQuiet, CommitIsQuiet, VerdictIsQuiet DEF Equivalences
  <2> QED  BY <2>1, <2>3, QuietQueue
<1>6. ~PublishSchema
  BY DEF PublishSchema, QuietProject, FixedSchema, Settings
<1>7. ASSUME SetMode
      PROVE  Settings' /\ (Announced \/ Withdrawn \/ Quiet)
  <2>1. UNCHANGED <<schema, human, llm, marking, reviews, history, equivs, request, stamp>>
    BY <1>7 DEF SetMode, rows, cycles, queue
  <2>2. Settings'  BY <1>7, <2>1 DEF SetMode, Settings
  <2> QED  BY <1>2, <2>1, <2>2, QuietQueue
<1>8. ASSUME Regenerate
      PROVE  Settings' /\ (Announced \/ Withdrawn \/ Quiet)
  <2>1. llm.id \in Nat  BY <1>1, <1>8 DEF Regenerate, TypeOK, LlmRow
  <2>2. Settings'  BY <1>8 DEF Regenerate, project, Settings
  <2> QED  BY <1>1, <1>8, <2>1, <2>2, EnqueueAnnounces DEF Regenerate
<1>9. ASSUME BecomeDue
      PROVE  Settings' /\ (Announced \/ Withdrawn \/ Quiet)
  <2>1. UNCHANGED <<schema, mode, human, llm, marking, reviews, history, equivs, stamp>>
    BY <1>9 DEF BecomeDue, project, rows, cycles
  <2>2. request \in Request /\ request' = [request EXCEPT !.due = TRUE]
    BY <1>1, <1>9 DEF BecomeDue, TypeOK
  <2>3. /\ request' \in Request /\ request'.llm = request.llm /\ request'.at = request.at
        /\ request'.allow = request.allow
    BY <2>2 DEF Request
  <2>4. request' # Null /\ request # Null  BY <2>2, <2>3, NullAssumption
  <2> QED  BY <1>2, <2>1, <2>3, <2>4 DEF Quiet, Settings
<1>10. ASSUME NEW w \in Workers, Read(w) \/ Fetch(w) \/ Reject(w) \/ SkipCall(w)
                                  \/ QueryFails(w) \/ Crash(w)
       PROVE  Settings' /\ (Announced \/ Withdrawn \/ Quiet)
  <2>1. UNCHANGED <<schema, mode, human, llm, marking, reviews, history, equivs, request, stamp>>
    BY <1>10 DEF Read, ReadProject, ReadHumans, ReadLlm, ReadPairs, InputsRead, ReadReviewers,
                 ReadPastReviewers, ReviewersRead, Reads, Fetch, Reject, SkipCall,
                 QueryFails, Crash, project, rows, cycles, queue
  <2> QED  BY <1>2, <2>1, QuietQueue DEF Settings
<1>11. ASSUME NEW w \in Workers, Reconcile(w)
       PROVE  Settings' /\ (Announced \/ Withdrawn \/ Quiet)
  <2>1. UNCHANGED <<request, stamp>> /\ Settings'
    BY <1>11 DEF Reconcile, project, queue, Settings
  <2> QED  BY <1>11, <2>1, ReconcileIsQuiet, QuietQueue
<1>12. ASSUME NEW w \in Workers, Acknowledge(w)
       PROVE  Settings' /\ (Announced \/ Withdrawn \/ Quiet)
  <2>1. UNCHANGED <<schema, mode, human, llm, marking, reviews, history, equivs, stamp>>
    BY <1>12 DEF Acknowledge, project, rows, cycles
  <2>2. pc[w] = "acking" /\ request' = IF IsTaken(w) THEN Null ELSE request
    BY <1>12 DEF Acknowledge
  <2> QED  BY <1>2, <2>1, <2>2 DEF Quiet, Settings
<1>13. ASSUME NEW w \in Workers, RecordFailure(w)
       PROVE  Settings' /\ (Announced \/ Withdrawn \/ Quiet)
  <2>1. UNCHANGED <<schema, mode, human, llm, marking, reviews, history, equivs, stamp>>
    BY <1>13 DEF RecordFailure, project, rows, cycles
  <2>2. request' = request \/ (request # Null /\ request' = [request EXCEPT !.due = FALSE])
    BY <1>13 DEF RecordFailure
  <2>3. request \in Request => LET r == [request EXCEPT !.due = FALSE]
                               IN  /\ r \in Request /\ r.llm = request.llm
                                   /\ r.at = request.at /\ r.allow = request.allow
    BY DEF Request
  <2>4. request # Null => request \in Request  BY <1>1 DEF TypeOK
  <2>5. NothingNew  BY <1>2, <2>1
  <2>6. /\ request' # Null => /\ request # Null
                              /\ request'.llm = request.llm /\ request'.at = request.at
                              /\ request'.allow = request.allow
        /\ request' = Null => request = Null
    BY <2>2, <2>3, <2>4, NullAssumption
  <2> QED  BY <2>1, <2>5, <2>6 DEF Quiet, Settings
<1>14. ASSUME UNCHANGED vars
       PROVE  Settings' /\ (Announced \/ Withdrawn \/ Quiet)
  BY <1>2, <1>14, QuietQueue DEF vars, Settings
<1> QED
  BY <1>3, <1>4, <1>5, <1>6, <1>7, <1>8, <1>9, <1>10, <1>11, <1>12, <1>13, <1>14
  DEF Next, Drain

-----------------------------------------------------------------------------
\* What the workers know.

\* A request a worker holds is still in the queue only if nothing was announced.
LEMMA StillTaken ==
  ASSUME TypeOK, NEW w \in Workers, pc[w] # "idle", StageInv(w), taken'[w] = taken[w],
         Announced \/ Withdrawn \/ Quiet, IsTaken(w)'
  PROVE  IsTaken(w) /\ Quiet
<1>1. request' # Null /\ request'.llm = taken[w].llm /\ request'.at = taken[w].at
  BY DEF IsTaken
<1>2. taken[w].at \in Nat /\ stamp \in Nat /\ taken[w].at <= stamp
  BY DEF StageInv, TypeOK, Request
<1>3. ~Announced  BY <1>1, <1>2 DEF Announced
<1>4. Quiet  BY <1>1, <1>3 DEF Withdrawn
<1> QED  BY <1>1, <1>4 DEF Quiet, IsTaken

\* The stamps only grow.
LEMMA StampGrows ==
  ASSUME TypeOK, Announced \/ Withdrawn \/ Quiet
  PROVE  \A n \in Nat : n <= stamp => n <= stamp'
BY DEF TypeOK, Announced, Withdrawn, Quiet

\* What a worker knows of a coder it goes on knowing while it rests.
LEMMA KnowledgeStays ==
  ASSUME NothingNew, NEW w \in Workers, NEW h \in Humans, AtStake(h)',
         AtStake(h) => HumanKnown(w, h) /\ ReviewerKnown(w, h),
         view'[w] = view[w], taken'[w] = taken[w]
  PROVE  HumanKnown(w, h)' /\ ReviewerKnown(w, h)'
BY DEF NothingNew, HumanKnown, ReviewerKnown

\* A worker that does not move.
LEMMA Rests ==
  ASSUME TypeOK, NEW w \in Workers, StageInv(w), pc[w] # "idle" => WorkerInv(w),
         Announced \/ Withdrawn \/ Quiet,
         pc'[w] = pc[w], taken'[w] = taken[w], view'[w] = view[w]
  PROVE  StageInv(w)' /\ (pc'[w] # "idle" => WorkerInv(w)')
<1>1. pc[w] # "idle" => taken[w].at \in Nat
  BY DEF StageInv, TypeOK, Request
<1>2. StageInv(w)'  BY <1>1, StampGrows DEF StageInv
<1>3. ASSUME pc[w] # "idle", IsTaken(w)'
      PROVE  /\ pc'[w] = "reading" /\ "llm" \in view'[w].seen => view'[w].llm # Null
             /\ pc'[w] \in {"reading", "selecting", "calling"} =>
                  \A h \in Humans : AtStake(h)' => HumanKnown(w, h)' /\ ReviewerKnown(w, h)'
             /\ pc'[w] = "acking" => \A h \in Humans : ~AtStake(h)'
  <2>1. IsTaken(w) /\ Quiet  BY <1>3, StillTaken
  <2>2. WorkerInv(w) /\ NothingNew  BY <1>3, <2>1 DEF Quiet
  <2>3. pc[w] = "reading" /\ "llm" \in view[w].seen => view[w].llm # Null
    BY <2>1, <2>2 DEF WorkerInv
  <2>4. pc[w] = "acking" => \A h \in Humans : ~AtStake(h)'
    BY <2>1, <2>2 DEF WorkerInv, NothingNew
  <2>5. ASSUME pc[w] \in {"reading", "selecting", "calling"}, NEW h \in Humans, AtStake(h)'
        PROVE  HumanKnown(w, h)' /\ ReviewerKnown(w, h)'
    BY <2>1, <2>2, <2>5, KnowledgeStays DEF WorkerInv
  <2> QED  BY <2>3, <2>4, <2>5
<1> QED  BY <1>2, <1>3 DEF WorkerInv

\* fetchDueRequests: a worker starts with nothing read.
LEMMA FetchKeepsUp ==
  ASSUME TypeOK, QueueInv, NEW w \in Workers, StageInv(w), Fetch(w)
  PROVE  StageInv(w)' /\ WorkerInv(w)'
<1>1. /\ pc'[w] = "reading" /\ taken'[w] = request /\ view' = view
      /\ request # Null /\ stamp' = stamp
      /\ view[w].seen = {}
  BY DEF Fetch, Goto, queue, StageInv, TypeOK
<1>2. StageInv(w)'  BY <1>1 DEF StageInv, QueueInv
<1>3. \A h \in Humans : HumanKnown(w, h)' /\ ReviewerKnown(w, h)'
  BY <1>1 DEF HumanKnown, ReviewerKnown
<1> QED  BY <1>1, <1>2, <1>3 DEF WorkerInv

\* What a query does to a worker and to the others.
Learnt(w, query, v) ==
  /\ pc' = pc /\ taken' = taken
  /\ view'[w].seen = view[w].seen \cup {query}
  /\ view'[w].humans = v.humans /\ view'[w].llm = v.llm
  /\ view'[w].dependents = v.dependents
  /\ \A x \in Workers : x # w => view'[x] = view[x]
  /\ UNCHANGED <<human, llm, reviews, history, request, stamp>>

\* It learns the query's answer.
LEMMA ReadsFacts ==
  ASSUME TypeOK, NEW w \in Workers, NEW stage, NEW query, NEW v \in View,
         Reads(w, stage, query, v), v.seen = view[w].seen
  PROVE  Learnt(w, query, v)
<1>1. view' = [view EXCEPT ![w] = [v EXCEPT !.seen = @ \cup {query}]]
  BY DEF Reads
<1>2. view'[w] = [v EXCEPT !.seen = @ \cup {query}]  BY <1>1 DEF TypeOK
<1>3. /\ view'[w].seen = view[w].seen \cup {query}
      /\ view'[w].humans = v.humans /\ view'[w].llm = v.llm
      /\ view'[w].dependents = v.dependents
  BY <1>2 DEF View
<1> QED  BY <1>1, <1>3 DEF Learnt, Reads, TypeOK, rows, cycles, queue

\* A query keeps a worker up to date if its answer does.
LEMMA ReadKeepsUp ==
  ASSUME TypeOK, Quiet, NEW w \in Workers, StageInv(w), WorkerInv(w),
         NEW stage \in {"reading", "selecting"}, NEW query, NEW v \in View,
         Reads(w, stage, query, v), v.seen = view[w].seen,
         IsTaken(w) => /\ stage = "reading" /\ "llm" \in view'[w].seen => v.llm # Null
                       /\ \A h \in Humans : AtStake(h) =>
                            /\ HumanKnown(w, h) /\ ReviewerKnown(w, h)
                              => HumanKnown(w, h)' /\ ReviewerKnown(w, h)'
  PROVE  StageInv(w)' /\ WorkerInv(w)'
<1>1. /\ pc[w] = stage /\ pc' = pc /\ taken' = taken
      /\ view'[w].seen = view[w].seen \cup {query} /\ view'[w].llm = v.llm
      /\ UNCHANGED <<human, request, stamp>>
  <2>1. Learnt(w, query, v)  BY ReadsFacts
  <2> QED  BY <2>1 DEF Learnt, Reads
<1>2. StageInv(w)'  BY <1>1 DEF StageInv
<1>3. IsTaken(w)' => IsTaken(w)  BY <1>1 DEF IsTaken
<1>4. \A h \in Humans : AtStake(h)' => AtStake(h)  BY DEF Quiet, NothingNew
<1>5. ASSUME IsTaken(w)
      PROVE  /\ pc'[w] = "reading" /\ "llm" \in view'[w].seen => view'[w].llm # Null
             /\ \A h \in Humans : AtStake(h)' => HumanKnown(w, h)' /\ ReviewerKnown(w, h)'
  BY <1>1, <1>4, <1>5 DEF WorkerInv
<1> QED  BY <1>1, <1>2, <1>3, <1>5 DEF WorkerInv

\* The four queries of readReconciliationInputs, and the two of
\* eligibleHumanResponses.
LEMMA NextReads ==
  ASSUME IInv, Quiet, NEW w \in Workers, StageInv(w), pc[w] # "idle" => WorkerInv(w),
         \/ ReadProject(w) \/ ReadHumans(w) \/ ReadLlm(w) \/ ReadPairs(w)
         \/ ReadReviewers(w) \/ ReadPastReviewers(w)
  PROVE  StageInv(w)' /\ WorkerInv(w)'
<1>0. TypeOK /\ RequestIsCurrent /\ view[w] \in View  BY DEF IInv, TypeOK
<1>1. WorkerInv(w)
  BY DEF ReadProject, ReadHumans, ReadLlm, ReadPairs, ReadReviewers, ReadPastReviewers, Reads
<1>3. CASE ReadProject(w)
  <2> DEFINE v == [view[w] EXCEPT !.schema = schema]
  <2>1. /\ v \in View /\ v.seen = view[w].seen /\ v.humans = view[w].humans
        /\ v.llm = view[w].llm /\ v.dependents = view[w].dependents
    BY <1>0 DEF View, TypeOK
  <2>2. Reads(w, "reading", "project", v)  BY <1>3 DEF ReadProject
  <2> HIDE DEF v
  <2>3. /\ pc[w] = "reading" /\ taken' = taken
        /\ view'[w].seen = view[w].seen \cup {"project"} /\ view'[w].humans = view[w].humans
        /\ view'[w].dependents = view[w].dependents
        /\ UNCHANGED <<human, history>>
    <3>1. Learnt(w, "project", v)  BY <1>0, <2>1, <2>2, ReadsFacts
    <3> QED  BY <3>1, <2>1, <2>2 DEF Learnt, Reads
  <2>4. IsTaken(w) /\ "llm" \in view'[w].seen => v.llm # Null
    BY <1>1, <2>1, <2>3 DEF WorkerInv
  <2>5. \A h \in Humans : HumanKnown(w, h) /\ ReviewerKnown(w, h)
                            => HumanKnown(w, h)' /\ ReviewerKnown(w, h)'
    BY <2>3 DEF HumanKnown, ReviewerKnown, Past
  <2> QED  BY <1>0, <1>1, <2>1, <2>2, <2>4, <2>5, ReadKeepsUp
<1>4. CASE ReadHumans(w)
  <2> DEFINE hs == [h \in Humans |-> IF human[h] # Null /\ ~human[h].partial
                                     THEN human[h] ELSE Null]
             v == [view[w] EXCEPT !.humans = hs]
  <2>1. hs \in [Humans -> HumanRow \cup {Null}]  BY <1>0 DEF TypeOK
  <2>2. \A h \in Humans : Compared(h) => hs[h] = human[h]  BY DEF Compared
  <2>3. /\ v \in View /\ v.seen = view[w].seen /\ v.humans = hs
        /\ v.llm = view[w].llm /\ v.dependents = view[w].dependents
    BY <1>0, <2>1 DEF View
  <2>4. Reads(w, "reading", "humans", v)  BY <1>4 DEF ReadHumans
  <2> HIDE DEF v, hs
  <2>5. /\ pc[w] = "reading" /\ taken' = taken
        /\ view'[w].seen = view[w].seen \cup {"humans"} /\ view'[w].humans = hs
        /\ view'[w].dependents = view[w].dependents
        /\ UNCHANGED <<human, history>>
    <3>1. Learnt(w, "humans", v)  BY <1>0, <2>3, <2>4, ReadsFacts
    <3> QED  BY <3>1, <2>3, <2>4 DEF Learnt, Reads
  <2>6. IsTaken(w) /\ "llm" \in view'[w].seen => v.llm # Null
    BY <1>1, <2>3, <2>5 DEF WorkerInv
  <2>7. ASSUME NEW h \in Humans, AtStake(h), HumanKnown(w, h), ReviewerKnown(w, h)
        PROVE  HumanKnown(w, h)' /\ ReviewerKnown(w, h)'
    <3>1. Compared(h)  BY <2>7 DEF AtStake, Owes, Dropped
    <3>2. HumanKnown(w, h)'  BY <2>2, <2>5, <3>1 DEF HumanKnown
    <3> QED  BY <2>5, <2>7, <3>2 DEF ReviewerKnown, Past
  <2> QED  BY <1>0, <1>1, <2>3, <2>4, <2>6, <2>7, ReadKeepsUp
<1>5. CASE ReadLlm(w)
  <2> DEFINE l == IF llm # Null /\ llm.id = taken[w].llm THEN llm ELSE Null
             v == [view[w] EXCEPT !.llm = l]
  <2>1. l \in LlmRow \cup {Null}  BY <1>0 DEF TypeOK
  <2>2. IsTaken(w) => l # Null  BY <1>0 DEF IsTaken, RequestIsCurrent
  <2>3. /\ v \in View /\ v.seen = view[w].seen /\ v.humans = view[w].humans
        /\ v.llm = l /\ v.dependents = view[w].dependents
    BY <1>0, <2>1 DEF View
  <2>4. Reads(w, "reading", "llm", v)  BY <1>5 DEF ReadLlm
  <2> HIDE DEF v, l
  <2>5. /\ taken' = taken
        /\ view'[w].seen = view[w].seen \cup {"llm"} /\ view'[w].humans = view[w].humans
        /\ view'[w].dependents = view[w].dependents
        /\ UNCHANGED <<human, history>>
    <3>1. Learnt(w, "llm", v)  BY <1>0, <2>3, <2>4, ReadsFacts
    <3> QED  BY <3>1, <2>3, <2>4 DEF Learnt, Reads
  <2>6. \A h \in Humans : HumanKnown(w, h) /\ ReviewerKnown(w, h)
                            => HumanKnown(w, h)' /\ ReviewerKnown(w, h)'
    BY <2>5 DEF HumanKnown, ReviewerKnown, Past
  <2> QED  BY <1>0, <1>1, <2>2, <2>3, <2>4, <2>6, ReadKeepsUp
<1>6. CASE ReadPairs(w)
  <2> DEFINE v == [view[w] EXCEPT !.pairs = equivs]
  <2>1. /\ v \in View /\ v.seen = view[w].seen /\ v.humans = view[w].humans
        /\ v.llm = view[w].llm /\ v.dependents = view[w].dependents
    BY <1>0 DEF View, TypeOK
  <2>2. Reads(w, "reading", "pairs", v)  BY <1>6 DEF ReadPairs
  <2> HIDE DEF v
  <2>3. /\ pc[w] = "reading" /\ taken' = taken
        /\ view'[w].seen = view[w].seen \cup {"pairs"} /\ view'[w].humans = view[w].humans
        /\ view'[w].dependents = view[w].dependents
        /\ UNCHANGED <<human, history>>
    <3>1. Learnt(w, "pairs", v)  BY <1>0, <2>1, <2>2, ReadsFacts
    <3> QED  BY <3>1, <2>1, <2>2 DEF Learnt, Reads
  <2>4. IsTaken(w) /\ "llm" \in view'[w].seen => v.llm # Null
    BY <1>1, <2>1, <2>3 DEF WorkerInv
  <2>5. \A h \in Humans : HumanKnown(w, h) /\ ReviewerKnown(w, h)
                            => HumanKnown(w, h)' /\ ReviewerKnown(w, h)'
    BY <2>3 DEF HumanKnown, ReviewerKnown, Past
  <2> QED  BY <1>0, <1>1, <2>1, <2>2, <2>4, <2>5, ReadKeepsUp
<1>7. CASE ReadReviewers(w)
  <2> DEFINE v == [view[w] EXCEPT !.dependents = @ \cup {r.human : r \in reviews}]
  <2>1. v \in View  BY <1>0, ReviewersType DEF TypeOK
  <2>2. /\ v.seen = view[w].seen /\ v.humans = view[w].humans /\ v.llm = view[w].llm
        /\ v.dependents = view[w].dependents \cup {r.human : r \in reviews}
    BY <1>0 DEF View
  <2>3. Reads(w, "selecting", "reviews", v)  BY <1>7 DEF ReadReviewers
  <2> HIDE DEF v
  <2>4. /\ taken' = taken
        /\ view'[w].seen = view[w].seen \cup {"reviews"} /\ view'[w].humans = view[w].humans
        /\ view'[w].dependents = view[w].dependents \cup {r.human : r \in reviews}
        /\ UNCHANGED <<human, history>>
    <3>1. Learnt(w, "reviews", v)  BY <1>0, <2>1, <2>2, <2>3, ReadsFacts
    <3> QED  BY <3>1, <2>1, <2>2, <2>3 DEF Learnt, Reads
  <2>5. pc[w] = "selecting"  BY <1>7 DEF ReadReviewers, Reads
  <2>6. ASSUME NEW h \in Humans, AtStake(h), HumanKnown(w, h), ReviewerKnown(w, h)
        PROVE  HumanKnown(w, h)' /\ ReviewerKnown(w, h)'
    <3>1. h \in Dependents \/ taken[w].allow
      BY <2>5, <2>6 DEF AtStake, Promised, StageInv
    <3>2. h \in {r.human : r \in reviews} \/ h \in Past \/ taken[w].allow
      BY <3>1 DEF Dependents, Past
    <3>3. ReviewerKnown(w, h)'
      BY <2>4, <2>6, <3>2 DEF ReviewerKnown, Past
    <3> QED  BY <2>4, <2>6, <3>3 DEF HumanKnown
  <2> QED  BY <1>0, <1>1, <2>1, <2>2, <2>3, <2>6, ReadKeepsUp
<1>8. CASE ReadPastReviewers(w)
  <2> DEFINE v == [view[w] EXCEPT !.dependents = @ \cup {r.human : r \in history}]
  <2>1. v \in View  BY <1>0, ReviewersType DEF TypeOK
  <2>2. /\ v.seen = view[w].seen /\ v.humans = view[w].humans /\ v.llm = view[w].llm
        /\ v.dependents = view[w].dependents \cup Past
    BY <1>0 DEF View, Past
  <2>3. Reads(w, "selecting", "history", v)  BY <1>8 DEF ReadPastReviewers
  <2> HIDE DEF v
  <2>4. /\ taken' = taken
        /\ view'[w].seen = view[w].seen \cup {"history"} /\ view'[w].humans = view[w].humans
        /\ view'[w].dependents = view[w].dependents \cup Past
        /\ UNCHANGED <<human, history>>
    <3>1. Learnt(w, "history", v)  BY <1>0, <2>1, <2>2, <2>3, ReadsFacts
    <3> QED  BY <3>1, <2>1, <2>2, <2>3 DEF Learnt, Reads
  <2>5. \A h \in Humans : HumanKnown(w, h) /\ ReviewerKnown(w, h)
                            => HumanKnown(w, h)' /\ ReviewerKnown(w, h)'
    BY <2>4 DEF HumanKnown, ReviewerKnown, Past
  <2> QED  BY <1>0, <1>1, <2>1, <2>2, <2>3, <2>5, ReadKeepsUp
<1> QED  BY <1>3, <1>4, <1>5, <1>6, <1>7, <1>8

\* A coder at stake is in the group of a worker that is about to call the function
\* and whose request is still in the queue.
LEMMA GroupIsComplete ==
  ASSUME NEW w \in Workers, pc[w] = "calling", StageInv(w), WorkerInv(w), IsTaken(w),
         NEW h \in Humans, AtStake(h)
  PROVE  h \in Group(w)
<1>1. HumanKnown(w, h) /\ ReviewerKnown(w, h)  BY DEF WorkerInv
<1>2. h \in Members /\ human[h] # Null
  BY DEF AtStake, Owes, Dropped, Compared
<1>3. view[w].humans[h] # Null  BY <1>1, <1>2 DEF HumanKnown, StageInv
<1>4. taken[w].allow \/ h \in view[w].dependents
  BY <1>1 DEF ReviewerKnown, StageInv
<1> QED  BY <1>2, <1>3, <1>4 DEF Group

\* The inputs have been read.
LEMMA InputsReadKeepsUp ==
  ASSUME TypeOK, Quiet, NEW w \in Workers, StageInv(w), WorkerInv(w), InputsRead(w)
  PROVE  StageInv(w)' /\ WorkerInv(w)'
<1>1. /\ pc[w] = "reading" /\ {"humans", "llm"} \subseteq view[w].seen
      /\ pc'[w] = IF view[w].llm = Null THEN "acking"
                  ELSE IF taken[w].allow THEN "calling" ELSE "selecting"
      /\ UNCHANGED <<taken, view, request, stamp>>
  BY DEF InputsRead, Goto, queue, TypeOK
<1>2. StageInv(w)'  BY <1>1 DEF StageInv
<1>3. IsTaken(w)' <=> IsTaken(w)  BY <1>1 DEF IsTaken
<1>4. ASSUME IsTaken(w)
      PROVE  /\ pc'[w] # "acking" /\ pc'[w] # "reading"
             /\ \A h \in Humans : AtStake(h)' => HumanKnown(w, h)' /\ ReviewerKnown(w, h)'
  <2>1. /\ view[w].llm # Null
        /\ \A h \in Humans : AtStake(h) => HumanKnown(w, h) /\ ReviewerKnown(w, h)
    BY <1>1, <1>4 DEF WorkerInv
  <2>2. \A h \in Humans : AtStake(h)' => HumanKnown(w, h)' /\ ReviewerKnown(w, h)'
    BY <1>1, <2>1, KnowledgeStays DEF Quiet
  <2> QED  BY <1>1, <2>1, <2>2
<1> QED  BY <1>2, <1>3, <1>4 DEF WorkerInv

\* So have the reviewers.
LEMMA ReviewersReadKeepsUp ==
  ASSUME TypeOK, Quiet, NEW w \in Workers, StageInv(w), WorkerInv(w), ReviewersRead(w)
  PROVE  StageInv(w)' /\ WorkerInv(w)'
<1>1. /\ pc[w] = "selecting" /\ {"reviews", "history"} \subseteq view[w].seen
      /\ pc'[w] = "calling"
      /\ UNCHANGED <<taken, view, request, stamp>>
  BY DEF ReviewersRead, Goto, queue, TypeOK
<1>2. StageInv(w)'  BY <1>1 DEF StageInv
<1>3. IsTaken(w)' <=> IsTaken(w)  BY <1>1 DEF IsTaken
<1>4. ASSUME IsTaken(w), NEW h \in Humans, AtStake(h)'
      PROVE  HumanKnown(w, h)' /\ ReviewerKnown(w, h)'
  <2>1. AtStake(h) => HumanKnown(w, h) /\ ReviewerKnown(w, h)
    BY <1>1, <1>4 DEF WorkerInv
  <2> QED  BY <1>1, <1>4, <2>1, KnowledgeStays DEF Quiet
<1> QED  BY <1>1, <1>2, <1>3, <1>4 DEF WorkerInv

\* The call is made, or there is nobody to make it for: nothing is at stake when
\* the worker goes on to acknowledge the request.
LEMMA CallKeepsUp ==
  ASSUME IInv, ViewInv, Quiet, NEW w \in Workers, StageInv(w), WorkerInv(w),
         Reconcile(w) \/ SkipCall(w)
  PROVE  StageInv(w)' /\ WorkerInv(w)'
<1>1. /\ pc[w] = "calling" /\ pc'[w] = "acking"
      /\ UNCHANGED <<taken, view, request, stamp>>
  BY DEF Reconcile, SkipCall, Goto, queue, IInv, TypeOK
<1>2. StageInv(w)'  BY <1>1 DEF StageInv
<1>3. IsTaken(w)' <=> IsTaken(w)  BY <1>1 DEF IsTaken
<1>4. ASSUME IsTaken(w), NEW h \in Humans, AtStake(h)' PROVE FALSE
  <2>1. AtStake(h)  BY <1>4 DEF Quiet, NothingNew
  <2>2. h \in Group(w)  BY <1>1, <1>4, <2>1, GroupIsComplete
  <2>3. CASE Reconcile(w)  BY <1>4, <2>2, <2>3, ReconcileSettles
  <2>4. CASE SkipCall(w)  BY <2>2, <2>4 DEF SkipCall
  <2> QED  BY <2>3, <2>4
<1> QED  BY <1>1, <1>2, <1>3, <1>4 DEF WorkerInv

\* A worker that fails, or leaves, claims nothing.
LEMMA LeavingKeepsUp ==
  ASSUME TypeOK, NEW w \in Workers, StageInv(w),
         \/ Reject(w) \/ QueryFails(w) \/ Acknowledge(w) \/ RecordFailure(w) \/ Crash(w)
  PROVE  StageInv(w)' /\ (pc'[w] # "idle" => WorkerInv(w)')
<1>1. CASE Reject(w) \/ QueryFails(w)
  <2>1. /\ pc[w] # "idle" /\ pc'[w] = "failing"
        /\ UNCHANGED <<taken, view, stamp>>
    BY <1>1 DEF Reject, QueryFails, Goto, queue, TypeOK
  <2> QED  BY <2>1 DEF StageInv, WorkerInv
<1>2. CASE Acknowledge(w) \/ RecordFailure(w) \/ Crash(w)
  <2>1. pc'[w] = "idle" /\ view'[w] = NothingRead
    BY <1>2 DEF Acknowledge, RecordFailure, Crash, Leave, Goto, TypeOK
  <2> QED  BY <2>1 DEF StageInv, NothingRead
<1> QED  BY <1>1, <1>2

\* A step of a worker is no step of another.
LEMMA OthersRest ==
  ASSUME TypeOK, NEW w \in Workers, Drain(w) \/ QueryFails(w) \/ Crash(w),
         NEW x \in Workers, x # w
  PROVE  pc'[x] = pc[x] /\ taken'[x] = taken[x] /\ view'[x] = view[x]
<1>1. CASE Read(w)
  BY <1>1 DEF Read, ReadProject, ReadHumans, ReadLlm, ReadPairs, InputsRead, ReadReviewers,
              ReadPastReviewers, ReviewersRead, Reads, Goto, TypeOK
<1>2. CASE Fetch(w) \/ Reconcile(w) \/ Reject(w) \/ SkipCall(w) \/ QueryFails(w)
  BY <1>2 DEF Fetch, Reconcile, Reject, SkipCall, QueryFails, Goto, TypeOK
<1>3. CASE Acknowledge(w) \/ RecordFailure(w) \/ Crash(w)
  BY <1>3 DEF Acknowledge, RecordFailure, Crash, Leave, Goto, TypeOK
<1> QED  BY <1>1, <1>2, <1>3 DEF Drain

\* A step of the coders, the LLM or the coordinator is no step of a worker.
LEMMA WorkersRest ==
  ASSUME \/ \E h \in Humans : SaveResponse(h)
         \/ PublishLlm \/ Equivalences \/ PublishSchema \/ SetMode \/ Regenerate
         \/ BecomeDue \/ UNCHANGED vars
  PROVE  UNCHANGED <<pc, taken, view>>
BY DEF SaveResponse, PublishLlm, Equivalences, BeginMarkEquivalent, CommitMarkEquivalent,
       UnmarkEquivalent, SubmitVerdict, PublishSchema, SetMode, Regenerate, BecomeDue,
       workers, vars

-----------------------------------------------------------------------------
\* The invariant is inductive.

\* At first no coder has coded and there is no worker.
LEMMA InitPromise == Init => Promise
<1> SUFFICES ASSUME Init PROVE Promise  OBVIOUS
<1>1. Settings  BY DEF Init, Settings
<1>2. \A h \in Humans : ~AtStake(h)  BY DEF Init, AtStake, Owes, Dropped
<1>3. QueueInv  BY <1>2 DEF Init, QueueInv
<1>4. \A w \in Workers : StageInv(w) /\ pc[w] = "idle"
  BY DEF Init, StageInv, NothingRead
<1> QED  BY <1>1, <1>3, <1>4 DEF Promise

\* The queue.
LEMMA NextQueue ==
  ASSUME TypeOK, Promise, Announced \/ Withdrawn \/ Quiet
  PROVE  QueueInv'
<1>1. stamp \in Nat /\ (request # Null => request.at \in Nat)
  BY DEF TypeOK, Request
<1>2. CASE Announced
  <2>1. Always => mode  BY DEF Promise, Settings, Always
  <2> QED  BY <1>1, <1>2, <2>1 DEF Announced, QueueInv
<1>3. CASE Withdrawn
  BY <1>3 DEF Withdrawn, QueueInv, AtStake, Owes, Dropped
<1>4. CASE Quiet
  <2>1. request' # Null => request'.at <= stamp' /\ (Always => request'.allow)
    BY <1>4 DEF Quiet, Promise, QueueInv
  <2>2. ASSUME request' = Null, NEW h \in Humans, AtStake(h)' PROVE FALSE
    <3>1. AtStake(h)  BY <1>4, <2>2 DEF Quiet, NothingNew
    <3>2. PICK w \in Workers : pc[w] = "acking" /\ IsTaken(w)
      BY <1>4, <2>2, <3>1 DEF Quiet, Promise, QueueInv
    <3> QED  BY <3>1, <3>2 DEF Promise, WorkerInv
  <2> QED  BY <2>1, <2>2 DEF QueueInv
<1> QED  BY <1>2, <1>3, <1>4

\* Every step keeps the promise.
LEMMA NextPromise ==
  ASSUME QuietProject, IInv, ViewInv, Promise, [Next]_vars
  PROVE  Promise'
<1>1. TypeOK  BY DEF IInv
<1>2. Settings' /\ (Announced \/ Withdrawn \/ Quiet)
  BY StepKind DEF Promise
<1>3. QueueInv'  BY <1>1, <1>2, NextQueue
<1>4. ASSUME NEW x \in Workers, pc'[x] = pc[x], taken'[x] = taken[x], view'[x] = view[x]
      PROVE  StageInv(x)' /\ (pc'[x] # "idle" => WorkerInv(x)')
  BY <1>1, <1>2, <1>4, Rests DEF Promise
<1>5. ASSUME NEW w \in Workers, Drain(w) \/ QueryFails(w) \/ Crash(w)
      PROVE  StageInv(w)' /\ (pc'[w] # "idle" => WorkerInv(w)')
  <2>1. StageInv(w) /\ (pc[w] # "idle" => WorkerInv(w)) /\ QueueInv
    BY DEF Promise
  <2>2. CASE Fetch(w)
    BY <1>1, <2>1, <2>2, FetchKeepsUp
  <2>3. CASE Reject(w) \/ QueryFails(w) \/ Acknowledge(w) \/ RecordFailure(w) \/ Crash(w)
    BY <1>1, <2>1, <2>3, LeavingKeepsUp
  <2>4. CASE Read(w) \/ Reconcile(w) \/ SkipCall(w)
    <3>1. pc[w] # "idle" /\ UNCHANGED <<request, stamp>>
      BY <2>4 DEF Read, ReadProject, ReadHumans, ReadLlm, ReadPairs, InputsRead, ReadReviewers,
                  ReadPastReviewers, ReviewersRead, Reads, Reconcile, SkipCall, queue
    <3>2. Quiet
      <4>1. CASE Reconcile(w)  BY <3>1, <4>1, ReconcileIsQuiet, QuietQueue
      <4>2. CASE Read(w) \/ SkipCall(w)
        <5>1. UNCHANGED <<schema, human, llm, marking, reviews, history, equivs>>
          BY <4>2 DEF Read, ReadProject, ReadHumans, ReadLlm, ReadPairs, InputsRead,
                      ReadReviewers, ReadPastReviewers, ReviewersRead, Reads, SkipCall,
                      project, rows, cycles
        <5> QED  BY <3>1, <5>1, QuietRows, QuietQueue
      <4> QED  BY <2>4, <4>1, <4>2
    <3>3. CASE Read(w)
      BY <1>1, <2>1, <3>1, <3>2, <3>3, NextReads, InputsReadKeepsUp, ReviewersReadKeepsUp
      DEF Read
    <3>4. CASE Reconcile(w) \/ SkipCall(w)
      BY <2>1, <3>1, <3>2, <3>4, CallKeepsUp
    <3> QED  BY <2>4, <3>3, <3>4
  <2> QED  BY <1>5, <2>2, <2>3, <2>4 DEF Drain
<1>6. ASSUME NEW x \in Workers
      PROVE  StageInv(x)' /\ (pc'[x] # "idle" => WorkerInv(x)')
  <2>1. CASE UNCHANGED <<pc, taken, view>>
    BY <1>4, <2>1
  <2>2. CASE \E w \in Workers : Drain(w) \/ QueryFails(w) \/ Crash(w)
    BY <1>1, <1>4, <1>5, <2>2, OthersRest
  <2> QED  BY <2>1, <2>2, WorkersRest DEF Next
<1> QED  BY <1>2, <1>3, <1>6 DEF Promise

\* In every reachable state, what is at stake is announced, and a worker that may
\* withdraw the announcement has missed nothing of it.
THEOREM PromiseInvariance ==
  ASSUME QuietProject
  PROVE  Spec => []Promise
<1>1. Init => Promise  BY InitPromise
<1>2. IInv /\ ViewInv /\ Promise /\ [Next]_vars => Promise'  BY NextPromise
<1> QED  BY <1>1, <1>2, Invariance, ViewInvariance, PTL DEF Spec

-----------------------------------------------------------------------------
\* What follows from it.

\* A field that final_answers calls a consensus is not waiting for a worker.
LEMMA ConsensusHasNoRequest ==
  ASSUME RequestIsCurrent, NEW f, Provenance(f) = "consenso"
  PROVE  request = Null
BY DEF RequestIsCurrent, Provenance

\* No false consensus: while the schema and the mode stay as they are, no field is
\* called a consensus where a cycle is owed, for any number of coders, fields and
\* workers and any interleaving of saves, publications and equivalences.
THEOREM NoConsensusIsFalse ==
  ASSUME QuietProject, FixedMode
  PROVE  Spec => []NoFalseConsensus
<1>1. ASSUME IInv, Promise PROVE NoFalseConsensus
  <2>1. SUFFICES ASSUME llm # Null, NEW f \in schema, Provenance(f) = "consenso", f \in Owed
                 PROVE  FALSE
    BY DEF NoFalseConsensus
  <2>2. request = Null  BY <1>1, <2>1, ConsensusHasNoRequest DEF IInv
  <2>3. f \in Fields  BY <1>1, <2>1 DEF IInv, TypeOK
  <2>4. PICK h \in Humans : Owes(h, f)  BY <2>1 DEF Owed, Owes
  <2>5. Always  BY <1>1, <2>1, FixedMode DEF Owed, Promise, Settings, FixedMode, Always
  <2>6. AtStake(h)  BY <2>3, <2>4, <2>5 DEF AtStake, Promised
  <2> QED  BY <1>1, <2>2, <2>6 DEF Promise, QueueInv
<1> QED  BY <1>1, Invariance, PromiseInvariance, PTL

\* The promise to the reviewers outlives the mode: however often the coordinator
\* leaves it and returns to it, and in whatever order a worker reads the open and
\* the closed cycles, none of them is owed a cycle behind a consensus.
THEOREM ReviewersKeepCycles ==
  ASSUME QuietProject
  PROVE  Spec => []ReviewersKeepTheirCycles
<1>1. ASSUME IInv, Promise PROVE ReviewersKeepTheirCycles
  <2>1. SUFFICES ASSUME llm # Null, NEW f \in schema, Provenance(f) = "consenso",
                        NEW h \in {r.human : r \in reviews \cup history},
                        Compared(h), Disagrees(h, f),
                        \A e \in history : e.field = f => e.human = h
                 PROVE  FALSE
    BY DEF ReviewersKeepTheirCycles
  <2>2. request = Null  BY <1>1, <2>1, ConsensusHasNoRequest DEF IInv
  <2>3. OpenCycles(f) = {}  BY <2>1, <2>2 DEF Provenance
  <2>4. f \in Fields /\ h \in Humans  BY <1>1, <2>1 DEF IInv, TypeOK, Review
  <2>5. AtStake(h)  BY <2>1, <2>3, <2>4 DEF AtStake, Promised, Dependents, Owes
  <2> QED  BY <1>1, <2>2, <2>4, <2>5 DEF Promise, QueueInv
<1> QED  BY <1>1, Invariance, PromiseInvariance, PTL

\* The document implements the outbox: it starts as one, and each of its steps
\* changes what is owed and announces it, repays some of it, or withdraws the
\* announcement when nothing is owed.  (That it is withdrawn again and again needs
\* fairness.)
THEOREM ImplementsOutboxSteps ==
  ASSUME QuietProject, FixedMode
  PROVE  Spec => Outbox!Init /\ [][Outbox!Next]_(Outbox!vars)
<1>1. ASSUME Init PROVE Outbox!Init
  BY <1>1 DEF Init, Outbox!Init, Owed
<1>2. ASSUME IInv, Promise, request = Null PROVE Owed = {}
  <2>1. SUFFICES ASSUME NEW f \in Owed PROVE FALSE  OBVIOUS
  <2>2. f \in Fields /\ llm # Null  BY <1>2 DEF IInv, TypeOK, Owed
  <2>3. PICK h \in Humans : Owes(h, f)  BY DEF Owed, Owes
  <2>4. Always  BY <1>2, <2>1, FixedMode DEF Owed, Promise, Settings, FixedMode, Always
  <2>5. AtStake(h)  BY <2>2, <2>3, <2>4 DEF AtStake, Promised
  <2> QED  BY <1>2, <2>5 DEF Promise, QueueInv
<1>3. ASSUME IInv, IInv', Promise, Promise', [Next]_vars
      PROVE  [Outbox!Next]_(Outbox!vars)
  <2>1. Owed' \in SUBSET Fields  BY <1>3 DEF IInv, TypeOK, Owed
  <2>2. CASE request' # Null
    BY <2>1, <2>2 DEF Outbox!Next, Outbox!Change
  <2>3. CASE request' = Null
    <3>1. Owed' = {}
      <4>1. ASSUME IInv', Promise', (request = Null)' PROVE (Owed = {})'
        BY <1>2, <4>1, PTL
      <4> QED  BY <1>3, <2>3, <4>1
    <3> QED  BY <2>3, <3>1 DEF Outbox!Next, Outbox!Settle, Outbox!Repay
  <2> QED  BY <2>2, <2>3
<1>4. IInv /\ IInv' /\ Promise /\ Promise' /\ [Next]_vars => [Outbox!Next]_(Outbox!vars)
  BY <1>3
<1> QED  BY <1>1, <1>4, Invariance, PromiseInvariance, PTL DEF Spec

\* In the abstract outbox, where nothing is announced nothing is owed.
THEOREM AnnouncesAll ==
  Outbox!Init /\ [][Outbox!Next]_(Outbox!vars) => []Outbox!NothingOwedUnannounced
<1> DEFINE Told == Outbox!NothingOwedUnannounced
           Step == [Outbox!Next]_(Outbox!vars)
<1>1. Outbox!Init => Told
  BY DEF Outbox!Init, Outbox!NothingOwedUnannounced
<1>2. Told /\ Step => Told'
  BY DEF Outbox!NothingOwedUnannounced, Outbox!Next, Outbox!Change, Outbox!Repay,
         Outbox!Settle, Outbox!vars
<1> QED  BY <1>1, <1>2, PTL

\* So it is in the document: where no request is queued, final_answers may publish.
THEOREM DocumentAnnounces ==
  ASSUME QuietProject, FixedMode
  PROVE  Spec => []Outbox!NothingOwedUnannounced
BY ImplementsOutboxSteps, AnnouncesAll, PTL

-----------------------------------------------------------------------------
\* A refusal has a cause.

\* Nothing is recorded about a field that is not in the schema.
InSchema ==
  /\ Settings
  /\ \A p \in equivs : p.field \in schema
  /\ marking # Null => marking.new.field \in schema
  /\ \A r \in reviews : r.field \in schema

\* reconcile_auto_review_cycles opens cycles only on fields of the schema.
LEMMA ReconcileInSchema ==
  ASSUME TypeOK, CyclesBounded, InSchema, NEW w \in Workers, Reconcile(w)
  PROVE  \A r \in reviews' : r.field \in schema
<1>1. \A r \in Closed(w) : r.field \in schema  BY DEF Closed, InSchema
<1>2. \A r \in Renewed(w) : r.field \in schema  BY <1>1, RenewedCycles
<1>3. ASSUME NEW r \in Opened(w) PROVE r.field \in schema
  <2>1. r.human \in Group(w) /\ r.field \in Divergent(w, r.human)
    BY OpenedCycles DEF Candidates
  <2>2. schema = view[w].schema  BY <2>1 DEF Reconcile, Accepts
  <2> QED  BY <2>1, <2>2 DEF Divergent, DivergentFields
<1>4. reviews' \subseteq reviews \cup Renewed(w) \cup Opened(w)
  BY DEF Reconcile, Kept
<1> QED  BY <1>2, <1>3, <1>4 DEF InSchema

\* While the schema stays, so does that.
LEMMA NextInSchema ==
  ASSUME FixedSchema, IInv, InSchema, [Next]_vars
  PROVE  InSchema'
<1>1. TypeOK /\ CyclesBounded  BY DEF IInv
<1>2. ~PublishSchema  BY DEF PublishSchema, FixedSchema, InSchema, Settings
<1>3. ASSUME UNCHANGED schema, mode' = mode \/ mode' \in Modes,
             \A p \in equivs' : p.field \in schema,
             marking' # Null => marking'.new.field \in schema,
             \A r \in reviews' : r.field \in schema
      PROVE  InSchema'
  BY <1>3 DEF InSchema, Settings
<1>4. ASSUME NEW h \in Humans, SaveResponse(h) PROVE InSchema'
  BY <1>3, <1>4 DEF SaveResponse, Archive, InSchema, project
<1>5. ASSUME PublishLlm PROVE InSchema'
  BY <1>3, <1>5 DEF PublishLlm, Archive, InSchema, project
<1>6. ASSUME NEW h \in Humans, NEW f \in Fields, BeginMarkEquivalent(h, f) PROVE InSchema'
  <2>1. NewPair(f, h).field = f  BY DEF NewPair
  <2> QED  BY <1>3, <1>6, <2>1 DEF BeginMarkEquivalent, InSchema, project, cycles
<1>7. ASSUME CommitMarkEquivalent PROVE InSchema'
  BY <1>3, <1>7 DEF CommitMarkEquivalent, InsertPair, InSchema, project, cycles
<1>8. ASSUME UnmarkEquivalent PROVE InSchema'
  BY <1>3, <1>8 DEF UnmarkEquivalent, InSchema, project, cycles
<1>9. ASSUME NEW r \in reviews, NEW v \in Verdicts, SubmitVerdict(r, v) PROVE InSchema'
  <2>1. [r EXCEPT !.verdict = v].field = r.field  BY <1>1 DEF TypeOK, Review
  <2>2. NewPair(r.field, r.human).field = r.field  BY DEF NewPair
  <2>3. r.field \in schema  BY DEF InSchema
  <2>4. \A s \in reviews' : s.field \in schema
    BY <1>9, <2>1, <2>3 DEF SubmitVerdict, InSchema
  <2>5. \A p \in equivs' : p.field \in schema
    BY <1>9, <2>2, <2>3 DEF SubmitVerdict, InsertPair, InSchema
  <2> QED  BY <1>3, <1>9, <2>4, <2>5 DEF SubmitVerdict, InSchema, project
<1>10. ASSUME NEW w \in Workers, Reconcile(w) PROVE InSchema'
  BY <1>1, <1>3, <1>10, ReconcileInSchema DEF Reconcile, InSchema, project
<1>11. ASSUME UNCHANGED <<schema, equivs, marking, reviews>>, mode' = mode \/ mode' \in Modes
       PROVE  InSchema'
  BY <1>3, <1>11 DEF InSchema
<1>12. ASSUME SetMode \/ Regenerate \/ BecomeDue \/ UNCHANGED vars PROVE InSchema'
  BY <1>11, <1>12 DEF SetMode, Regenerate, BecomeDue, project, rows, cycles, vars
<1>13. ASSUME NEW w \in Workers,
              \/ Fetch(w) \/ Read(w) \/ Reject(w) \/ SkipCall(w) \/ Acknowledge(w)
              \/ RecordFailure(w) \/ QueryFails(w) \/ Crash(w)
       PROVE  InSchema'
  <2>1. UNCHANGED <<schema, mode, equivs, marking, reviews>>
    BY <1>13 DEF Fetch, Read, ReadProject, ReadHumans, ReadLlm, ReadPairs, InputsRead,
                 ReadReviewers, ReadPastReviewers, ReviewersRead, Reads, Reject, SkipCall,
                 Acknowledge, RecordFailure, QueryFails, Crash, project, rows, cycles
  <2> QED  BY <1>11, <2>1
<1> QED
  BY <1>2, <1>4, <1>5, <1>6, <1>7, <1>8, <1>9, <1>10, <1>12, <1>13
  DEF Next, Equivalences, Drain

\* While the schema stays, a call is refused only because something the worker had
\* read has changed since, so that no refusal repeats for ever by itself.
THEOREM RefusalsHaveACause ==
  ASSUME FixedSchema
  PROVE  Spec => RejectsOnlyChanges
<1> DEFINE Caused == \A w \in Workers : ~Refused(w)
<1>1. ASSUME IInv, ViewInv, InSchema PROVE Caused
  <2>1. SUFFICES ASSUME NEW w \in Workers, Reject(w), InputsCurrent(w) PROVE FALSE
    BY DEF Refused
  <2>2. PICK h \in Group(w) : ~Accepts(w, h) /\ pc[w] = "calling"
    BY <2>1 DEF Reject
  <2>3. llm # Null /\ llm = view[w].llm /\ schema = view[w].schema /\ equivs = view[w].pairs
    BY <1>1, <2>1, <2>2 DEF InputsCurrent, ViewInv, LlmAtHand
  <2>4. human[h] # Null /\ human[h] = view[w].humans[h]
    BY <2>1 DEF InputsCurrent, Group
  <2>5. CurrentPairIds(w, h) = ExpectedPairIds(w, h)
    BY <1>1, <2>3 DEF CurrentPairIds, ExpectedPairIds, InSchema
  <2> QED  BY <2>2, <2>3, <2>4, <2>5 DEF Accepts
<1>2. Init => InSchema  BY DEF Init, InSchema, Settings
<1>3. IInv /\ InSchema /\ [Next]_vars => InSchema'  BY NextInSchema
<1>4. IInv /\ ViewInv /\ InSchema => Caused  BY <1>1
<1> HIDE DEF Caused
<1>5. IInv /\ ViewInv /\ InSchema => [Caused]_vars  BY <1>4
<1>6. Spec => [][Caused]_vars
  BY <1>2, <1>3, <1>5, Invariance, ViewInvariance, PTL DEF Spec
<1> QED  BY <1>6 DEF RejectsOnlyChanges, Caused
=============================================================================
