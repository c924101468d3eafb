------------------------------ MODULE AutoReview ------------------------------
(***************************************************************************)
(* Auto-review of one document: the responses of its human coders and the  *)
(* current LLM response, the field_reviews cycles opened where they        *)
(* diverge, the append-only history of closed cycles, the one-row-per-     *)
(* document outbox of reconciliation requests, and the workers that drain  *)
(* it.                                                                     *)
(*                                                                         *)
(* One action is one database transaction or one query of a worker.  The   *)
(* transactions are serialised by the rows they lock (the response rows,   *)
(* the document row, the per-document advisory lock), which is why each is *)
(* a single step; a worker's queries are separate transactions and are     *)
(* separate steps.  record_response_equivalences is two steps, because its *)
(* insert locks no response row against a concurrent save.                 *)
(***************************************************************************)
EXTENDS Integers, FiniteSets, FiniteSetsExt

CONSTANTS
  Humans,      \* human coders, numbered in the order of their response ids
  Members,     \* the coders that are (still) rows of project_members
  Fields,      \* names of schema fields
  Required,    \* the fields a complete human coding must answer
  Answers,     \* answer values, up to the normalisation that compares them
  Blank,       \* a key that is absent from the answers
  Schemas,     \* the schemas the coordinator publishes (pydantic_fields)
  Modes,       \* values of automation_mode = 'auto_review_llm'
  Verdicts,    \* self-review verdicts used in this instance
  UndoPairs,   \* whether reviewers remove equivalences in this instance
  Workers,     \* processes running drainAutoReviewReconciliationRequests
  Before,      \* bound: queries known to answer before a query; {} is any order
  Null,        \* SQL NULL, or no row
  MaxSaves,    \* bound: saves of each human response
  MaxPublish,  \* bound: LLM publications
  MaxPairs,    \* bound: equivalences recorded
  MaxStamp,    \* bound: a repair enqueues only below this many enqueues
  MaxFaults    \* bound: failed queries and worker crashes

ASSUME DataAssumption ==
  /\ Humans \subseteq Nat
  /\ Members \subseteq Humans
  /\ Required \subseteq Fields
  /\ Schemas \subseteq SUBSET Fields /\ Schemas # {}
  /\ Modes \subseteq BOOLEAN /\ Modes # {}
  /\ UndoPairs \in BOOLEAN

ASSUME VerdictAssumption ==
  Verdicts \subseteq {"admite_erro", "contesta_llm", "equivalente", "ambiguo"}

ASSUME BoundAssumption ==
  /\ MaxSaves \in Nat /\ MaxPublish \in Nat /\ MaxPairs \in Nat
  /\ MaxStamp \in Nat /\ MaxFaults \in Nat

Queries == {"project", "humans", "llm", "pairs", "reviews", "history"}

ASSUME QueryAssumption == Before \in [Queries -> SUBSET Queries]

VARIABLES
  schema,      \* projects.pydantic_fields; its pydantic_hash is its value
  mode,        \* projects.automation_mode = 'auto_review_llm'
  human,       \* the latest response row of each coder, or Null
  llm,         \* the latest complete LLM response row, or Null
  equivs,      \* rows of response_equivalences between a human and an LLM row
  marking,     \* the open record_response_equivalences transaction, or Null
  reviews,     \* rows of field_reviews
  history,     \* rows of field_review_cycle_history_entries
  request,     \* the row of auto_review_reconciliation_requests, or Null
  pc,          \* where each worker is
  taken,       \* the request row each worker read
  view,        \* what each worker's queries returned
  publishes,   \* LLM publications so far: the next response id
  pairs,       \* equivalences recorded so far: the next equivalence id
  stamp,       \* enqueues so far: the source of distinct requested_at
  faults       \* failed queries and crashes so far

rows == <<human, llm, equivs, marking>>
cycles == <<reviews, history>>
queue == <<request, stamp>>
project == <<schema, mode>>
workers == <<pc, taken, view>>
counters == <<publishes, pairs>>
vars == <<schema, mode, human, llm, equivs, marking, reviews, history,
          request, pc, taken, view, publishes, pairs, stamp, faults>>

-----------------------------------------------------------------------------
\* Rows.

Values == Answers \cup {Blank}
AnswerMap == [Fields -> Values]

\* coded is the key set of answer_field_hashes, version the updated_at column.
HumanRow ==
  [answers : AnswerMap, coded : SUBSET Fields, partial : BOOLEAN, version : Nat]

LlmRow == [id : Nat, answers : AnswerMap, coded : SUBSET Fields]

Pair == [id : Nat, field : Fields, human : Humans, llm : Nat,
         humanAnswer : Values, llmAnswer : Values]

Review == [field : Fields, human : Humans, llm : Nat, cycle : Nat,
           humanAnswer : Values, llmAnswer : Values,
           verdict : Verdicts \cup {Null}]

Request == [llm : Nat, at : Nat, allow : BOOLEAN, due : BOOLEAN]

ASSUME NullAssumption ==
  Null \notin HumanRow /\ Null \notin LlmRow /\ Null \notin Request

\* What a worker has read so far, and which of its queries have answered.
View == [seen : SUBSET Queries, schema : SUBSET Fields,
         humans : [Humans -> HumanRow \cup {Null}], llm : LlmRow \cup {Null},
         pairs : SUBSET Pair, dependents : SUBSET Humans]

NothingRead == [seen |-> {}, schema |-> {}, humans |-> [h \in Humans |-> Null],
                llm |-> Null, pairs |-> {}, dependents |-> {}]

-----------------------------------------------------------------------------
\* Pure rules shared by the saves, the workers and the database functions.

\* Every required field that existed when the response was coded is answered.
IsCodingComplete(fields, answers, coded) ==
  \A f \in Required \cap fields \cap coded : answers[f] # Blank

\* An equivalence counts only while both of its snapshots are still current.
IsCurrentPair(p, f, h, row, l) ==
  /\ p.field = f /\ p.human = h /\ p.llm = l.id
  /\ p.humanAnswer = row.answers[f] /\ p.llmAnswer = l.answers[f]

\* Coder h's row and the LLM row l answer f differently and nobody declared
\* the two answers equivalent.
Diverges(f, h, row, l, ps) ==
  /\ f \in row.coded \cap l.coded
  /\ row.answers[f] # l.answers[f]
  /\ \A p \in ps : ~IsCurrentPair(p, f, h, row, l)

DivergentFields(fields, h, row, l, ps) ==
  IF IsCodingComplete(fields, row.answers, row.coded)
  THEN {f \in fields : Diverges(f, h, row, l, ps)}
  ELSE {}

\* Mutant: the history is not consulted.
FirstCycle(past, f) == 1

\* cycle_no of a new review: one above every archived cycle of its field.
NextCycle(past, f) ==
  LET archived == {e.cycle : e \in {x \in past : x.field = f}}
  IN  IF archived = {} THEN 1 ELSE Max(archived) + 1

\* A row inserted in field_reviews takes its snapshots from the two responses.
NewReview(f, h, past) ==
  [field |-> f, human |-> h, llm |-> llm.id, cycle |-> NextCycle(past, f),
   humanAnswer |-> human[h].answers[f], llmAnswer |-> llm.answers[f],
   verdict |-> Null]

\* A row inserted in response_equivalences takes its snapshots likewise.
NewPair(f, h) ==
  [id |-> pairs + 1, field |-> f, human |-> h, llm |-> llm.id,
   humanAnswer |-> human[h].answers[f], llmAnswer |-> llm.answers[f]]

SamePair(p, q) == p.field = q.field /\ p.human = q.human /\ p.llm = q.llm

\* INSERT ... ON CONFLICT DO NOTHING on the pair's unique key.
InsertPair(ps, new) ==
  IF \E p \in ps : SamePair(p, new) THEN ps ELSE ps \cup {new}

-----------------------------------------------------------------------------
\* The outbox.

\* Mutant: the producer of before 20260811130000, which did not look for the LLM.
EnqueueWithoutLlm(l) ==
  /\ request' = [llm |-> Null, at |-> stamp + 1, allow |-> mode, due |-> TRUE]
  /\ stamp' = stamp + 1

\* Both producers write the whole row: ON CONFLICT (document_id) DO UPDATE.
Enqueue(l) ==
  /\ request' = [llm |-> l, at |-> stamp + 1, allow |-> mode, due |-> TRUE]
  /\ stamp' = stamp + 1

\* Mutant: only the mode of today counts.
OnlyByMode == mode

\* The document is under auto-review now, or was when a cycle was opened.
UnderAutoReview == mode \/ reviews # {} \/ history # {}

\* Mutant: rows are deleted without the trigger that archives them.
DeleteOnly(gone) ==
  /\ reviews' = reviews \ gone
  /\ UNCHANGED history

\* DELETE on field_reviews, with its archiving trigger.
Archive(gone) ==
  /\ reviews' = reviews \ gone
  /\ history' = history \cup gone

-----------------------------------------------------------------------------
\* Responses.

\* The answers a submitted form persists: fields that left the schema keep
\* their raw stored value, the others take what the form shows.
Submissions(h) ==
  {a \in AnswerMap : \A f \in Fields \ schema :
     a[f] = IF human[h] = Null THEN Blank ELSE human[h].answers[f]}

\* The key set of the provenance map is inherited; a field enters it when it is
\* answered.  A first coding was made against all of today's schema.
CodedAfter(h, a) ==
  (IF human[h] = Null THEN schema ELSE human[h].coded)
    \cup {f \in Fields : a[f] # Blank}

Version(h) == IF human[h] = Null THEN 0 ELSE human[h].version

SavedRow(h, a) ==
  [answers |-> a,
   coded   |-> CodedAfter(h, a),
   partial |-> ~IsCodingComplete(schema, a, CodedAfter(h, a)),
   version |-> Version(h) + 1]

\* The archiving trigger fires on an UPDATE that changes answers or notes.
TriggerFires(h, a, noted) == human[h] # Null /\ (noted \/ human[h].answers # a)

\* Mutant: the trigger archives only what has no verdict yet.
OutdatedOpenReviews(h, a, noted) ==
  {r \in reviews : /\ TriggerFires(h, a, noted) /\ r.verdict = Null
                   /\ r.human = h /\ r.humanAnswer # a[r.field]}

\* Cycles and equivalences whose snapshot of h's answer is no longer current.
OutdatedReviews(h, a, noted) ==
  {r \in reviews : /\ TriggerFires(h, a, noted)
                   /\ r.human = h /\ r.humanAnswer # a[r.field]}
OutdatedPairs(h, a, noted) ==
  {p \in equivs : /\ TriggerFires(h, a, noted)
                  /\ p.human = h /\ p.humanAnswer # a[p.field]}

\* saveResponse, with the two triggers of its UPDATE or INSERT: the outdated
\* cycles and equivalences are archived, and a complete coding of a document
\* that has an LLM response and is under auto-review enqueues the document.
SaveResponse(h) ==
  /\ Version(h) < MaxSaves
  /\ \E a \in Submissions(h), noted \in BOOLEAN :
       /\ human' = [human EXCEPT ![h] = SavedRow(h, a)]
       /\ Archive(OutdatedReviews(h, a, noted))
       /\ equivs' = equivs \ OutdatedPairs(h, a, noted)
       /\ IF ~SavedRow(h, a).partial /\ llm # Null /\ UnderAutoReview
          THEN Enqueue(llm.id)
          ELSE UNCHANGED queue
  /\ UNCHANGED <<project, llm, marking, workers, counters, faults>>

\* Mutant: a partial publication leaves the request of the old generation.
LeaveRequest == UNCHANGED queue

Withdraw == request' = Null /\ UNCHANGED stamp

\* Mutant: the cycles of the demoted generation stay.
NoDemotedReviews == {}

\* Everything that hangs on the generation being replaced.
DemotedReviews == {r \in reviews : llm # Null /\ r.llm = llm.id}
DemotedPairs == {p \in equivs : llm # Null /\ p.llm = llm.id}

\* publish_latest_llm_response: the request is dropped, the current generation
\* demoted with what hangs on it, and the new row becomes the latest, and is
\* enqueued, only if it is complete.
PublishLlm ==
  /\ publishes < MaxPublish
  /\ publishes' = publishes + 1
  /\ Archive(DemotedReviews)
  /\ equivs' = equivs \ DemotedPairs
  /\ \/ \E a \in {b \in AnswerMap : \A f \in Fields : b[f] = Blank <=> f \notin schema} :
          /\ llm' = [id |-> publishes + 1, answers |-> a, coded |-> schema]
          /\ Enqueue(publishes + 1)
     \/ llm' = Null /\ Withdraw
  /\ UNCHANGED <<project, human, marking, workers, pairs, faults>>

-----------------------------------------------------------------------------
\* Equivalences.  The advisory lock of the document is held from the first
\* statement of record_response_equivalences to its commit.

DocumentFree == marking = Null

HumanStale(p) == p.humanAnswer # human[p.human].answers[p.field]
LlmStale(p) == llm # Null /\ p.llm = llm.id /\ p.llmAnswer # llm.answers[p.field]

\* record_response_equivalences, up to the snapshots of its insert: a previous
\* decision on the same two rows is replaced if its snapshots are outdated.
BeginMarkEquivalent(h, f) ==
  /\ DocumentFree
  /\ llm # Null /\ human[h] # Null /\ f \in schema
  /\ pairs < MaxPairs
  /\ pairs' = pairs + 1
  /\ marking' = [new |-> NewPair(f, h),
                 drop |-> {p \in equivs : SamePair(p, NewPair(f, h))
                                        /\ (HumanStale(p) \/ LlmStale(p))}]
  /\ UNCHANGED <<project, human, llm, equivs, cycles, queue, workers,
                 publishes, faults>>

\* Its commit.  A save that committed in between has not seen the new pair.
CommitMarkEquivalent ==
  /\ marking # Null
  /\ equivs' = InsertPair(equivs \ marking.drop, marking.new)
  /\ marking' = Null
  /\ UNCHANGED <<project, human, llm, cycles, queue, workers, counters, faults>>

\* remove_response_equivalence.  Nothing is enqueued.
UnmarkEquivalent ==
  /\ UndoPairs /\ DocumentFree
  /\ \E p \in equivs : equivs' = equivs \ {p}
  /\ UNCHANGED <<project, human, llm, marking, cycles, queue, workers,
                 counters, faults>>

\* submit_auto_review_verdicts, for one row of its argument.  A verdict already
\* given may only be repeated, which records a missing equivalence again.
SubmitVerdict(r, v) ==
  /\ DocumentFree
  /\ r \in reviews /\ r.verdict \in {Null, v}
  /\ reviews' = (reviews \ {r}) \cup {[r EXCEPT !.verdict = v]}
  /\ IF v = "equivalente"
     THEN /\ pairs < MaxPairs
          /\ pairs' = pairs + 1
          /\ equivs' = InsertPair(equivs, NewPair(r.field, r.human))
     ELSE UNCHANGED <<equivs, pairs>>
  /\ UNCHANGED <<project, human, llm, marking, history, queue, workers,
                 publishes, faults>>

-----------------------------------------------------------------------------
\* The coordinator.

\* commit_project_schema: the responses and the queue are left alone.
PublishSchema ==
  /\ \E s \in Schemas : s # schema /\ schema' = s
  /\ UNCHANGED <<mode, rows, cycles, queue, workers, counters, faults>>

\* updateProject on automation_mode: nothing is enqueued.
SetMode ==
  /\ \E m \in Modes : m # mode /\ mode' = m
  /\ UNCHANGED <<schema, rows, cycles, queue, workers, counters, faults>>

\* enqueue_auto_review_reconciliation_for_project, the repair.
Regenerate ==
  /\ stamp < MaxStamp
  /\ llm # Null /\ UnderAutoReview
  /\ \E h \in Humans : human[h] # Null /\ ~human[h].partial
  /\ Enqueue(llm.id)
  /\ UNCHANGED <<project, rows, cycles, workers, counters, faults>>

-----------------------------------------------------------------------------
\* The workers.  Each query is a step: what it returns may be out of date by
\* the time it is used.

Goto(w, next) == pc' = [pc EXCEPT ![w] = next]

\* fetchDueRequests.
Fetch(w) ==
  /\ pc[w] = "idle"
  /\ request # Null /\ request.due
  /\ taken' = [taken EXCEPT ![w] = request]
  /\ Goto(w, "reading")
  /\ UNCHANGED <<project, rows, cycles, queue, view, counters, faults>>

Reads(w, stage, query, v) ==
  /\ pc[w] = stage /\ query \notin view[w].seen
  /\ Before[query] \subseteq view[w].seen
  /\ view' = [view EXCEPT ![w] = [v EXCEPT !.seen = @ \cup {query}]]
  /\ UNCHANGED <<project, rows, cycles, queue, pc, taken, counters, faults>>

\* readReconciliationInputs: four queries issued together.
ReadProject(w) == Reads(w, "reading", "project", [view[w] EXCEPT !.schema = schema])

ReadHumans(w) ==
  Reads(w, "reading", "humans",
        [view[w] EXCEPT !.humans =
           [h \in Humans |-> IF human[h] # Null /\ ~human[h].partial
                             THEN human[h] ELSE Null]])

ReadLlm(w) ==
  Reads(w, "reading", "llm",
        [view[w] EXCEPT !.llm = IF llm # Null /\ llm.id = taken[w].llm
                                THEN llm ELSE Null])

ReadPairs(w) == Reads(w, "reading", "pairs", [view[w] EXCEPT !.pairs = equivs])

\* The requested generation is obsolete, or the divergences can be computed at
\* once, or only the coders that already have cycles are to be reconciled.
InputsRead(w) ==
  /\ pc[w] = "reading" /\ {"project", "humans", "llm", "pairs"} \subseteq view[w].seen
  /\ Goto(w, IF view[w].llm = Null THEN "acking"
             ELSE IF taken[w].allow THEN "calling" ELSE "selecting")
  /\ UNCHANGED <<project, rows, cycles, queue, taken, view, counters, faults>>

\* eligibleHumanResponses: two more queries issued together.
ReadReviewers(w) ==
  Reads(w, "selecting", "reviews",
        [view[w] EXCEPT !.dependents = @ \cup {r.human : r \in reviews}])

ReadPastReviewers(w) ==
  Reads(w, "selecting", "history",
        [view[w] EXCEPT !.dependents = @ \cup {r.human : r \in history}])

ReviewersRead(w) ==
  /\ pc[w] = "selecting" /\ {"reviews", "history"} \subseteq view[w].seen
  /\ Goto(w, "calling")
  /\ UNCHANGED <<project, rows, cycles, queue, taken, view, counters, faults>>

\* The coders the call is about, and where each diverges, as the worker saw it.
Group(w) ==
  {h \in Members : view[w].humans[h] # Null /\ (taken[w].allow \/ h \in view[w].dependents)}

Divergent(w, h) ==
  DivergentFields(view[w].schema, h, view[w].humans[h], view[w].llm, view[w].pairs)

\* Mutant: the worker sends only the equivalences that still count.
CurrentlyExpectedPairIds(w, h) ==
  {p.id : p \in {q \in view[w].pairs :
     IsCurrentPair(q, q.field, h, view[w].humans[h], view[w].llm)}}

\* expected_equivalence_ids is sent for the pair whatever its field, and the
\* function compares it with the current ids of the fields it was sent.
ExpectedPairIds(w, h) ==
  {p.id : p \in {q \in view[w].pairs : q.human = h /\ q.llm = view[w].llm.id}}

CurrentPairIds(w, h) ==
  {p.id : p \in {q \in equivs : /\ q.human = h /\ q.llm = view[w].llm.id
                                /\ q.field \in view[w].schema}}

\* Mutant: the versions of the rows are not compared.
AcceptsAnyVersion(w, h) ==
  /\ llm # Null /\ llm.id = view[w].llm.id
  /\ human[h] # Null
  /\ schema = view[w].schema
  /\ CurrentPairIds(w, h) = ExpectedPairIds(w, h)

\* The function accepts a coder's group: both rows are still the latest, and
\* the versions, the schema and the equivalences are the ones that were read.
Accepts(w, h) ==
  /\ llm # Null /\ llm.id = view[w].llm.id
  /\ human[h] # Null /\ human[h].version = view[w].humans[h].version
  /\ schema = view[w].schema
  /\ CurrentPairIds(w, h) = ExpectedPairIds(w, h)

OutOfDate(r) ==
  \/ r.llm # llm.id
  \/ r.humanAnswer # human[r.human].answers[r.field]
  \/ r.llmAnswer # llm.answers[r.field]

\* Cycles of the group that end: their field no longer diverges, or they are
\* about other values; the latter are renewed in place, one cycle further.
Closed(w) ==
  {r \in reviews : /\ r.human \in Group(w)
                   /\ r.field \notin Divergent(w, r.human) \/ OutOfDate(r)}

Renewed(w) ==
  {[NewReview(r.field, r.human, history) EXCEPT !.cycle = r.cycle + 1] :
     r \in {x \in Closed(w) : x.field \in Divergent(w, x.human)}}

Kept(w) == (reviews \ Closed(w)) \cup Renewed(w)

\* Mutant: the history is not consulted for the first reviewer.
AnyCandidates(w, f) ==
  {h \in Group(w) : f \in Divergent(w, h) /\ \A r \in Kept(w) : r.field # f}

\* A divergent field without a cycle goes to the first coder of the group that
\* diverges on it, and only if nobody else ever reviewed it.
Candidates(w, f) ==
  {h \in Group(w) : /\ f \in Divergent(w, h)
                    /\ \A r \in Kept(w) : r.field # f
                    /\ \A e \in history \cup Closed(w) : e.field = f => e.human = h}

Opened(w) ==
  {NewReview(f, Min(Candidates(w, f)), history \cup Closed(w)) :
     f \in {g \in Fields : Candidates(w, g) # {}}}

\* reconcile_auto_review_cycles.
Reconcile(w) ==
  /\ pc[w] = "calling" /\ Group(w) # {} /\ DocumentFree
  /\ \A h \in Group(w) : Accepts(w, h)
  /\ reviews' = Kept(w) \cup Opened(w)
  /\ history' = history \cup Closed(w)
  /\ equivs' = {p \in equivs : ~(\/ (p.human \in Group(w) /\ HumanStale(p))
                                  \/ LlmStale(p))}
  /\ Goto(w, "acking")
  /\ UNCHANGED <<project, human, llm, marking, queue, taken, view, counters, faults>>

\* It raises "inputs changed; retry required", or that a row is not current.
Reject(w) ==
  /\ pc[w] = "calling" /\ DocumentFree
  /\ \E h \in Group(w) : ~Accepts(w, h)
  /\ Goto(w, "failing")
  /\ UNCHANGED <<project, rows, cycles, queue, taken, view, counters, faults>>

\* No coder to reconcile: the function is not called.
SkipCall(w) ==
  /\ pc[w] = "calling" /\ Group(w) = {}
  /\ Goto(w, "acking")
  /\ UNCHANGED <<project, rows, cycles, queue, taken, view, counters, faults>>

Leave(w) ==
  /\ Goto(w, "idle")
  /\ taken' = [taken EXCEPT ![w] = Null]
  /\ view' = [view EXCEPT ![w] = NothingRead]

\* Mutant: the ACK matches the generation alone.
IsOfGeneration(w) == request # Null /\ request.llm = taken[w].llm

\* acknowledge: only the very row that was read is deleted.
IsTaken(w) ==
  request # Null /\ request.llm = taken[w].llm /\ request.at = taken[w].at

Acknowledge(w) ==
  /\ pc[w] = "acking"
  /\ request' = IF IsTaken(w) THEN Null ELSE request
  /\ Leave(w)
  /\ UNCHANGED <<project, rows, cycles, stamp, counters, faults>>

\* record_auto_review_reconciliation_failure: any request of the generation is
\* postponed.
RecordFailure(w) ==
  /\ pc[w] = "failing"
  /\ request' = IF request # Null /\ request.llm = taken[w].llm
                THEN [request EXCEPT !.due = FALSE] ELSE request
  /\ Leave(w)
  /\ UNCHANGED <<project, rows, cycles, stamp, counters, faults>>

\* A query or the call of the function fails and leaves nothing behind.
QueryFails(w) ==
  /\ pc[w] \in {"reading", "selecting", "calling", "acking"}
  /\ faults < MaxFaults /\ faults' = faults + 1
  /\ Goto(w, "failing")
  /\ UNCHANGED <<project, rows, cycles, queue, taken, view, counters>>

\* The process dies, or its answer is lost after the database has committed.
Crash(w) ==
  /\ pc[w] # "idle"
  /\ faults < MaxFaults /\ faults' = faults + 1
  /\ Leave(w)
  /\ UNCHANGED <<project, rows, cycles, queue, counters>>

\* Mutant: a failed request is terminal.
NeverDue == FALSE /\ UNCHANGED vars

\* next_attempt_at passes.
BecomeDue ==
  /\ request # Null /\ ~request.due
  /\ request' = [request EXCEPT !.due = TRUE]
  /\ UNCHANGED <<project, rows, cycles, stamp, workers, counters, faults>>

-----------------------------------------------------------------------------
Init ==
  /\ schema \in Schemas
  /\ mode \in Modes
  /\ human = [h \in Humans |-> Null]
  /\ llm = Null
  /\ equivs = {} /\ marking = Null
  /\ reviews = {} /\ history = {}
  /\ request = Null
  /\ pc = [w \in Workers |-> "idle"]
  /\ taken = [w \in Workers |-> Null]
  /\ view = [w \in Workers |-> NothingRead]
  /\ publishes = 0 /\ pairs = 0 /\ stamp = 0 /\ faults = 0

Read(w) ==
  \/ ReadProject(w) \/ ReadHumans(w) \/ ReadLlm(w) \/ ReadPairs(w)
  \/ InputsRead(w)
  \/ ReadReviewers(w) \/ ReadPastReviewers(w)
  \/ ReviewersRead(w)

Drain(w) ==
  \/ Fetch(w) \/ Read(w)
  \/ Reconcile(w) \/ Reject(w) \/ SkipCall(w)
  \/ Acknowledge(w) \/ RecordFailure(w)

Equivalences ==
  \/ \E h \in Humans, f \in Fields : BeginMarkEquivalent(h, f)
  \/ CommitMarkEquivalent
  \/ UnmarkEquivalent
  \/ \E r \in reviews, v \in Verdicts : SubmitVerdict(r, v)

Next ==
  \/ \E h \in Humans : SaveResponse(h)
  \/ PublishLlm
  \/ Equivalences
  \/ PublishSchema \/ SetMode \/ Regenerate
  \/ BecomeDue
  \/ \E w \in Workers : Drain(w) \/ QueryFails(w) \/ Crash(w)

\* The wake-up loop runs every worker again and again, the backoff elapses, and
\* an open transaction commits.
Fairness ==
  /\ \A w \in Workers : WF_vars(Drain(w))
  /\ WF_vars(BecomeDue)
  /\ WF_vars(CommitMarkEquivalent)

Spec == Init /\ [][Next]_vars
FairSpec == Spec /\ Fairness

-----------------------------------------------------------------------------
\* Properties.

\* Every variable keeps its shape.
TypeOK ==
  /\ schema \in SUBSET Fields /\ mode \in BOOLEAN
  /\ human \in [Humans -> HumanRow \cup {Null}]
  /\ llm \in LlmRow \cup {Null}
  /\ equivs \in SUBSET Pair
  /\ marking \in [new : Pair, drop : SUBSET Pair] \cup {Null}
  /\ reviews \in SUBSET Review /\ history \in SUBSET Review
  /\ request \in Request \cup {Null}
  /\ pc \in [Workers -> {"idle", "reading", "selecting", "calling", "acking", "failing"}]
  /\ taken \in [Workers -> Request \cup {Null}]
  /\ view \in [Workers -> View]
  /\ publishes \in Nat /\ pairs \in Nat /\ stamp \in Nat /\ faults \in Nat

\* The view final_answers, as far as self-review decides it: the provenance of
\* field f, and the answer it publishes.
OpenCycles(f) == {r \in reviews : r.field = f}

Provenance(f) ==
  IF request # Null /\ request.llm = llm.id THEN "aguarda_reconciliacao"
  ELSE IF OpenCycles(f) = {} THEN "consenso"
  ELSE LET v == (CHOOSE r \in OpenCycles(f) : TRUE).verdict
       IN  CASE v = Null -> "aguarda_auto_revisao"
             [] v = "admite_erro" -> "auto_corrigido"
             [] v = "equivalente" -> "equivalente"
             [] v = "ambiguo" -> "ambiguo"
             [] OTHER -> "aguarda_arbitragem"

FinalAnswer(f) ==
  LET p == Provenance(f)
      r == CHOOSE x \in OpenCycles(f) : TRUE
  IN  CASE p = "consenso" -> llm.answers[f]
        [] p = "auto_corrigido" -> r.llmAnswer
        [] p = "equivalente" -> r.humanAnswer
        [] OTHER -> Null

\* A member whose complete coding is compared with the LLM response.
Compared(h) == h \in Members /\ human[h] # Null /\ ~human[h].partial

Disagrees(h, f) == f \in DivergentFields(schema, h, human[h], llm, equivs)

\* Fields the document owes a cycle: a compared coder disagrees with the LLM,
\* no cycle is open, and nobody else was the field's first reviewer.
Owed ==
  {f \in schema :
     /\ mode /\ llm # Null /\ OpenCycles(f) = {}
     /\ \E h \in Humans : /\ Compared(h) /\ Disagrees(h, f)
                          /\ \A e \in history : e.field = f => e.human = h}

\* No false consensus.  A field final_answers calls a consensus is not owed a
\* cycle: no interleaving of saves, publications, equivalences and workers loses
\* the work of opening it.  (The two filters of the ACK, the mutex on the
\* document row, the versions sent to reconcile_auto_review_cycles.)
NoFalseConsensus ==
  llm # Null => \A f \in schema : Provenance(f) = "consenso" => f \notin Owed

\* Leaving the mode opens no cycles for new reviewers, and keeps the promise to
\* those who have reviewed the document: where final_answers says consensus none
\* of them is owed a cycle, although their cycles may be moving to the history
\* while a worker reads the two tables, and the mode may change at any time.
\* (allow_new_cycles, and the two tables eligibleHumanResponses reads.)
ReviewersKeepTheirCycles ==
  llm # Null => \A f \in schema : Provenance(f) = "consenso" =>
    ~ \E h \in {r.human : r \in reviews \cup history} :
        /\ Compared(h) /\ Disagrees(h, f)
        /\ \A e \in history : e.field = f => e.human = h

\* A cycle is always about the values that are current: whatever a worker read
\* and however long ago, the snapshots a reviewer is asked to judge are today's
\* answer of the coder and of the LLM.  (reconcile_auto_review_cycles and the
\* archiving trigger.)
SnapshotsCurrent ==
  \A r \in reviews :
    /\ llm # Null /\ r.llm = llm.id /\ r.llmAnswer = llm.answers[r.field]
    /\ human[r.human] # Null /\ r.humanAnswer = human[r.human].answers[r.field]

\* A cycle is opened only where the coder and the LLM disagree at that moment,
\* although the worker computed the divergences from rows it read earlier.
\* (The versions reconcile_auto_review_cycles compares: a cycle opened on stale
\* answers would make its coder the field's first reviewer for good.)
OpensOnlyDisagreements ==
  [][\A r \in reviews' :
       (\A s \in reviews : s.field = r.field => s.cycle # r.cycle)
         => Disagrees(r.human, r.field)]_vars

\* A field of a document has one cycle open at most, and only its first
\* reviewer ever gets one, even with two workers reconciling different coders.
OneReviewerPerField ==
  /\ \A r, s \in reviews : r.field = s.field => r = s
  /\ \A r, s \in reviews \cup history : r.field = s.field => r.human = s.human

\* The cycles of a field are numbered apart, the open one above all the archived
\* ones: UNIQUE (document_id, field_name, cycle_no) can never reject an archive.
CyclesNumberedApart ==
  /\ \A r \in reviews, e \in history : r.field = e.field => r.cycle > e.cycle
  /\ \A d, e \in history : d.field = e.field /\ d.cycle = e.cycle => d = e

\* No recorded verdict is lost: a cycle that has one stays open with it or is
\* archived with it, and the archive only grows.
VerdictsKept ==
  [][/\ history \subseteq history'
     /\ \A r \in reviews : r.verdict # Null => r \in reviews' \cup history']_vars

\* The outbox names the current complete generation: what the trigger
\* validate_auto_review_reconciliation_request demands when a row is written
\* still holds at every later moment.
RequestIsCurrent == request # Null => llm # Null /\ request.llm = llm.id

\* A worker's inputs are what the database still holds.
InputsCurrent(w) ==
  /\ llm = view[w].llm /\ schema = view[w].schema /\ equivs = view[w].pairs
  /\ \A h \in Group(w) : human[h] = view[w].humans[h]

Refused(w) == Reject(w) /\ InputsCurrent(w)

\* The function refuses a worker only if something it had read has changed
\* since: a refusal is never permanent, a retry can always succeed.
\* (auto-review-reconciler.ts, the expected_* inputs.)
RejectsOnlyChanges == [][\A w \in Workers : ~Refused(w)]_vars

\* A request does not stay in the queue for ever: once the coders, the LLM and
\* the coordinator stop, the workers empty it.
QueueDrains == []<>(request = Null)

\* What the outbox promises (module ReviewOutbox), with the request as its flag
\* and the owed fields as its debt.
Outbox == INSTANCE ReviewOutbox WITH pending <- request # Null, owed <- Owed

\* Every step of the coders, the LLM and the workers is one the abstract outbox
\* allows, and the outbox is settled again and again.
ImplementsOutbox == Outbox!Spec

-----------------------------------------------------------------------------
\* What documents of the repository say and the code does not do.

\* "consenso: sem field_review (humano = LLM ou nao codificou)": where the view
\* says so, every compared coder agrees with the LLM.
ConsensusIsAgreement ==
  llm # Null => \A f \in schema : Provenance(f) = "consenso" =>
                  \A h \in Humans : Compared(h) => ~Disagrees(h, f)

\* "equivalente: humano e LLM equivalentes, gabarito = humano": while the two
\* answers a coder called equivalent are the current ones, and no other cycle
\* of the field followed, no other answer is published.
EquivalentPublishesHuman ==
  \A r \in reviews \cup history :
    /\ r.verdict = "equivalente" /\ r.field \in schema
    /\ \A s \in reviews \cup history : s.field = r.field => s.cycle <= r.cycle
    /\ llm # Null /\ llm.id = r.llm /\ human[r.human].answers[r.field] = r.humanAnswer
    => FinalAnswer(r.field) \in {Null, r.humanAnswer}

\* "Consensus (or an incomplete coding) closes the active cycle": when the queue
\* is empty and the workers rest, no open cycle belongs to an incomplete coding.
IncompleteCodingClosesCycle ==
  request = Null /\ (\A w \in Workers : pc[w] = "idle") =>
    \A r \in reviews : ~human[r.human].partial

\* "o que ainda falha é falha de verdade e merece retry": a call is refused only
\* if something the worker had read has changed, so that a retry can succeed.
RefusalsAreTransient == [][~\E w \in Workers : Refused(w)]_vars
=============================================================================
