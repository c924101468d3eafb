# Verification of GUIAnaliseSistematica in TLA+

The repository is a web application for the systematic analysis of documents.
Researchers code a document by answering the fields of a project's schema, an
LLM codes the same document, and the application finds the fields on which they
diverge, has the researcher review his own answer (auto-review), has a third
person arbitrate what he contests, and publishes for every field a final answer
together with where it comes from (its *provenance*). The front end (Next.js,
`src/frontend`) keeps its state in PostgreSQL behind PostgREST; much of the
logic is in SQL functions and triggers (`src/frontend/supabase/migrations`). A
Python service (`src/backend`) runs the LLM and wakes the front end's workers.

Paths below are relative to `src/`; `M` stands for `frontend/supabase/migrations`.

## 1. Inventory

| Component | State it keeps | Operations | What makes it correct |
|---|---|---|---|
| **Auto-review cycles and reconciliation outbox** (`frontend/src/lib/auto-review-reconciler.ts`, `M/20260717120000…`, `M/20260811130000…`) | `field_reviews` (one open cycle per document and field), `field_review_cycle_history_entries` (append-only), `auto_review_reconciliation_requests` (one row per document) | producers: the trigger on `responses`, the coordinator's repair; consumers: `drainAutoReviewReconciliationRequests`; `reconcile_auto_review_cycles`, ACK, failure record | no document is called a consensus while a cycle is owed; cycles are about current values; verdicts are never lost; the queue drains |
| **Human responses** (`actions/responses.ts`, `lib/response-snapshot.ts`) | the latest `responses` row of each coder, its per-field provenance | `saveResponse`: read, merge, UPDATE or INSERT, retry on a unique conflict | no saved answer is lost; one latest row; a save never lands in a closed round |
| **LLM responses and runs** (`backend/services/llm_runner.py`, `llm_rate_limiter.py`, `publish_latest_llm_response`) | the latest LLM row, `llm_runs`, a token bucket | publish, heartbeat, cancel, retry, rate limit | one latest generation; what hangs on the replaced one is archived |
| **Equivalences** (`actions/equivalences.ts`, `record_response_equivalences`, `remove_response_equivalence`) | `response_equivalences` with snapshots of both answers | mark, unmark | a pair counts only while both answers are the ones it was declared on |
| **Self-review and arbitration** (`actions/field-reviews.ts`, `M/20260724110000…`, `M/20260724100100…`) | verdicts and arbitrator of a cycle, `assignments` | submit self, blind and final verdicts, assign or retry an arbitrator, revoke `can_arbitrate` | nobody arbitrates his own contest; a pending contest has an open assignment (#582); verdicts are final |
| **Comparison** (`actions/reviews.ts`, `lib/compare-sync.ts`) | `reviews`, `assignments` of type comparison | verdict, equivalence, sync | an assignment is closed iff the document has nothing left to compare |
| **Schema revisions** (`actions/schema.ts`, `commit_project_schema`) | `projects.pydantic_fields`, hash, revision | optimistic commit, three-way merge | no lost update |
| **Assignments, lottery, rounds** (`actions/assignments.ts`, `M/20260731120000…`) | `assignments`, `rounds` | replace lottery, open/close round | work in progress survives a new draw |
| **Members and identity** (`actions/members.ts`, `lib/clerk-sync.ts`, the Clerk webhook, `M/20260716155000…`) | `profiles`, `clerk_user_mapping`, `project_members`, `member_email_links` | apply a snapshot, revoke, add, link, unify, correct, remove, permission | a ready account acts only through e-mails it has verified; access never goes back; every account settles |
| **Documents, export, comments, suggestions, statistics** | their tables | single statements and read-only queries | — |
| **Pydantic compiler, condition evaluator** | none | sequential transformations | — |
| **Coding page and its drafts** (`components/coding/`, `lib/coding-draft-storage.ts`) | the sessions of a user's tabs, one slot of `localStorage` per document, the forms | type, debounce, open, resume, discard, send, leave, collect garbage | an unsent edit survives a crash; a tab never blocks itself out of its slot; the warning on leaving names what is on disk |
| **Rest of the user interface** | page state | — | — |

### How the parts interact

* `saveResponse` and `publish_latest_llm_response` write `responses`. Two
  triggers run in the same transaction: one archives the cycles and
  equivalences whose snapshots are outdated, one enqueues the document.
* A *worker* (any process that calls `drainAutoReviewReconciliationRequests`,
  after the wake-up of the Python service every 30 s, or from the repair) reads
  due requests, reads its inputs in several queries, computes the divergences in
  TypeScript, calls `reconcile_auto_review_cycles` with the versions it read,
  and deletes the request it had taken.
* Reviewers write verdicts in cycles; the verdict `equivalente` also writes an
  equivalence; `contesta_llm` opens an arbitration.
* The view `final_answers` reads all of it, and withholds the answer while a
  request of the current LLM generation is in the outbox.

### What is hard

* The worker holds no lock between its reads and its call: it is safe only
  because the function compares versions, and the ACK compares the request.
* The inputs are read in parallel, in separate transactions.
* Several workers may process one document; a worker may die anywhere.
* Three mutexes of different kinds (the document row, an advisory lock per
  document, the response rows) are taken by different operations, in different
  orders.
* The answers change under open reviews; whatever was decided on old answers has
  to be archived, and never silently re-applied.
* Some changes of the divergence (undoing an equivalence, a new schema, a change
  of mode) enqueue nothing.

`PROJECT.json` lists each hazard at its line, with the properties that cover it.

## 2. The modules

| Module | Models |
|---|---|
| `AutoReview` | one document: saves, LLM publications, equivalences, self-review verdicts, schema and mode changes, the outbox, the workers query by query |
| `ReviewOutbox` | what the outbox promises, in four actions: debts are announced when they arise, and the announcement is withdrawn only when nothing is owed |
| `Arbitration` | the contested fields of one document: the choice of an arbitrator, blind and final verdicts, the queue of each arbitrator, permissions, deletions of cycles |
| `SaveResponse` | the saves of one coder's response from several tabs, request by request, while schemas and rounds change |
| `Comparison` | the comparison of several coders' responses to one document, call by call |
| `SchemaMerge` | the three-way merge of a schema: pure operators over sequences of fields |
| `SchemaDraft` | the schema editors of one browser, their stored draft, and the commits of others; uses `SchemaMerge` |
| `LlmRuns` | the executions of the LLM over a project: routes, background task, row, page, machines |
| `Identity` | accounts at Clerk, webhooks, snapshots applied in two phases, invitations, aliases and unification in one project |
| `CodingDraft` | the coding page in the tabs of one user: forms, sessions of local drafts, the slots of `localStorage` they share |
| `LockOrder` | the locks of 18 kinds of database transaction, in the order their statements and triggers take them |
| `AutoReviewProofs`, `ArbitrationProofs`, `IdentityProofs`, `LlmRunsProofs`, `SaveResponseProofs`, `ComparisonProofs`, `SchemaDraftProofs`, `CodingDraftProofs` | theorems |
| `MC…` | values of constants that a `.cfg` cannot write |

The modules overlap where the components meet: a save is an action of
`AutoReview` (what it archives and enqueues), of `SaveResponse` (its requests),
of `Comparison` (the automation it starts) and of `LockOrder` (its locks), each
with the rest abstracted. Several modules have a `scope` (a record chosen by
`Init` among `Scopes`): it names the operations and the bounds of one small instance, so
that one run explores several situations that would be too large together.

### AutoReview

State. `human[h]` is the latest `responses` row of coder `h` (answers, the key
set of `answer_field_hashes`, `is_partial`, `updated_at`); `llm` is the latest
complete LLM row; `equivs`, `reviews`, `history` and `request` are the rows of
their tables; `schema` and `mode` are the project's columns. `marking` is an
open transaction of `record_response_equivalences`. `pc`, `taken` and `view` are
where a worker is, the request it took and what its queries have returned.

Granularity. One action is one transaction, or one query of a worker. A save, a
publication, a verdict, a reconciliation is one step because its rows are locked
(the response row, the document row `FOR UPDATE`, the advisory lock) from
before the first thing it reads to its commit. A worker's queries are separate steps. `record_response_equivalences` is two
steps, because it reads the answers it snapshots without locking them, and holds
the advisory lock in between (`DocumentFree` guards whoever else takes it).

| Action | Code |
|---|---|
| `SaveResponse` | `saveResponse` → `runSaveAttempt`, with the archiving trigger (`M/20260717120000:566`) and the enqueue trigger (`M/20260811130000:74`) |
| `PublishLlm` | `publish_latest_llm_response` (complete or partial) with the same triggers |
| `BeginMarkEquivalent`, `CommitMarkEquivalent` | `record_response_equivalences` up to its insert's snapshots; its commit |
| `UnmarkEquivalent` | `remove_response_equivalence` |
| `SubmitVerdict` | `submit_auto_review_verdicts`, one row of its argument |
| `PublishSchema`, `SetMode`, `Regenerate` | `commit_project_schema`, `updateProject`, `enqueue_auto_review_reconciliation_for_project` |
| `Fetch`, `Read…`, `InputsRead`, `ReviewersRead` | `fetchDueRequests`, the queries of `readReconciliationInputs` and `eligibleHumanResponses` |
| `Reconcile`, `Reject`, `SkipCall` | `reconcile_auto_review_cycles` committing, raising, not called |
| `Acknowledge`, `RecordFailure`, `BecomeDue` | the ACK, `record_auto_review_reconciliation_failure`, `next_attempt_at` passing |
| `QueryFails`, `Crash` | a query or call fails; the process dies or loses an answer |

Abstractions. An answer is a member of `Answers` or `Blank` (absent key), up to
the normalisation that compares answers; multi-select sets, conditional
visibility, `target`, and the sentinel of legacy hashes are not represented.
`pydantic_hash` is the value of `schema`. `updated_at`, which the client's clock
writes in milliseconds, is a counter per coder: two saves of one coder in the
same millisecond are not represented. `requested_at`, a transaction's start time
in microseconds, is a counter: two enqueues of a document in the same
microsecond are not represented. The LLM answers every field of the schema it
runs with. A coder is one identity (no aliases), `Members` is constant. The
reading and the writing of one save are one step. Other documents, rounds,
arbitration, assignments, comments and justifications are absent. The renewal of
a cycle in place (`Renewed`) is modelled as the function writes it, although the
archiving trigger normally removes such a cycle first. The groups of one call
are reconciled at once instead of in a loop: they touch the cycles of different
reviewers, and the one place where they compete, who opens the cycle of a
field, is given to the first of them in the loop's order (`Min`).

Properties.

* `NoFalseConsensus` — if `final_answers` says "consenso", no compared coder
  disagrees with the LLM on the field without a cycle he is entitled to. This is
  what the outbox exists for; it fails if the ACK compares the generation alone.
* `SnapshotsCurrent` — an open cycle shows the current answers.
* `OpensOnlyDisagreements` — a cycle is opened only on a disagreement that holds
  in that very step.
* `OneReviewerPerField`, `CyclesNumberedApart`, `VerdictsKept` — who reviews a
  field, the numbering of cycles, and what may become of a verdict.
* `ReviewersKeepTheirCycles` — the same whatever the mode does, for the coders
  who have already reviewed the document.
* `RequestIsCurrent` — what `validate_auto_review_reconciliation_request` checks
  on insertion holds at every later moment.
* `RejectsOnlyChanges` — with a fixed schema, a refusal means that something
  the worker read has changed.
* `QueueDrains`, `ImplementsOutbox` — the queue empties again and again; every
  step is a step of `ReviewOutbox`, with `Owed` as the debt.

### Arbitration

State: the rows of `field_reviews` and of the arbitration `assignments`,
`can_arbitrate`, and for each session its open transaction: the step it is at,
its uncommitted writes, its advisory locks. A transaction is cut wherever
another commit may fall between what a statement decides on and what it writes
(READ COMMITTED re-reads a row it waited for, but not what a subquery saw).

| Action | Code |
|---|---|
| `Contest`, `PickArbitrator`, `AssignTask` | `submit_auto_review_verdicts`: rows decided under the document's lock, candidates locked and tested again, the queue entry |
| `SetPermission`, `CommitPermission`, `ReadContests`, `ChooseArbitrator`, `AssignCycles` | `setCanArbitrate`: `set_member_arbitration_permission`, then `retryPendingArbitrations` with one `assign_arbitration_cycles_if_eligible` per self reviewer |
| `SubmitBlind` | `submitBlindVerdicts`, one independent UPDATE per field |
| `SubmitFinal`, `DecideClose`, `CloseTask` | `submit_final_review_verdicts` |
| `Revise`, `Reconcile`, `DecideSweep`, `Sweep` | the archiving trigger and the reconciliation, with the DELETE of assignments nothing justifies |

The order of candidates by open load is left open; comments are absent.
`ContestsAreInQueue` is stated for scopes where nothing deletes cycles, because
the final DELETE of a deletion decides on its snapshot under locks that do not stop
`assign_arbitration_cycles_if_eligible` (`arbitration_gaps.cfg`). The other
properties hold with deletions: `PhasesInOrder`, `ArbitratorsAreEligible`,
`VerdictsStand`.

### SaveResponse

State: the coder's row of each round, the versions of the schema, the coding
assignment, and in each tab the form it shows and the requests of its save.
`Save` is the sequence of `saveResponse`: the round, the row and project reads, the
snapshot (`response-snapshot.ts`, with its provenance per field), the UPDATE by
key, the INSERT that meets the unique index, one second attempt, then
`syncCodingAssignmentStatus` with its read and its write. `PublishSchema`
removes a field or narrows its options, `StartRound` archives the row. The stamp of
a field stands for its hash. `AnswersHaveProvenance` (every stored answer has a
stamp or is legacy), `ClosedRoundsAreFrozen`.

### Comparison

State: the coders' responses with the version behind which they are, the LLM's,
equivalences with their owner, verdicts per reviewer and field, ambiguity
comments, `assignments` by type, member and round, the order in which comparisons
were concluded, `can_compare`, the round, and one server action per session.

| Action | Code |
|---|---|
| `Save`, `SetCodingStatus`, `Analyse`, `ChooseReviewer`, `AssignReviewer` | a save and `runCodingAutomation`: status of the coding, context, choice, `assign_comparison_if_eligible` |
| `SubmitVerdict`, `ReadComment`, `WriteComment` | `submitVerdict` |
| `ConfirmEquivalent`, `ConfirmVerdict`, `UnmarkPair` | `confirmEquivalentVerdict`, `remove_response_equivalence` |
| `ListReviewers`, `ReadRow`, `ReadData`, `WriteStatus` | `syncCompareAssignmentsForDocument` |
| `MarkReviewed`, `Permit`, `ClearPending` | `markCompareDocReviewed`, `setCanCompare` with the backlog, removal of pending work |
| `ReadCycle`, `DeriveStatus`, `InsertCoding`, `Promote`, `RemoveRows` | `cycleAssignment` |
| `Draw`, `Apply` | a lottery, computed on a reading and applied as one batch |
| `PublishLlm`, `RaiseFloor`, `ReplaceDocument`, `ToggleScope` | a publication, a new version floor, a round, a document leaving or entering the scope |

The triggers `enforce_comparison_assignment_actor` and
`enforce_comparison_response_actor` and the unique index of open comparisons are
tested at each write (`Refused`, `SaveRefused`, `Set`). Abstractions: row ids
(`cycleAssignment` removes by key), the read and write of
`keepCodingAssignmentInProgress` are one step, the context of the automation is one
reading, the order by open load is open, the drawn members are any subset, other
assignment types do not enter the cycle, conditional and multi-option fields, a sync that fails
(its errors are logged), the filters of the comparing pages.

Each property names the operations after which it is promised: nobody looks for a
reviewer after a second save, a draft, an unmarked pair or a schema change
(`Unattended`), by design.

### SchemaMerge and SchemaDraft

`Merge` is `mergeSchemas`: fields, properties and order, each with its disputes; an
answer belongs to a dispute with the values at stake. A session is what
`useSchemaDraft` keeps for one mounted editor (`clean`, `dirty`, `conflict`, with
baseline, fields, token and `blocked`); `slot` is the `localStorage` key the tabs of a
browser share; `call` is a server action in flight, which the database accepts only
if it names the current revision. `Mount`, `Edit`, `Persist` (the debounce),
`Render` (a server render, possibly older), `Resolve`, `Apply`, `Discard`,
`Unmount`, `Crash`, `StartSave`, `StartPublish`, `Commit`, `Fail` (before or after the
commit: the answer is lost), `Reply`, `CommitElsewhere`, `StorageChanges`.

The disputed order is the one among the fields the merge keeps: `AnswersFollowTheDispute` compares two remotes on the pairs both have,
because a remote may move a field that the local side deleted without a new dispute.

A snapshot is its revision number. Loading the context and the compare-and-set of a
commit are one step. Renders do not arrive while a call of the same page is in
flight, which the router of Next.js guarantees (external; without it
`LocalEditsSurvive` fails). Storage fails on writes only.

### LlmRuns

State: the machine the proxy serves from (`serving`), `_jobs` of each machine
(`memory`), the local variables of each `run_llm` (`task`), the status of its row
(`row`), whether its heartbeat is older than ten minutes (`silent`), round, code and
hash of the project, the latest response of each document, the documents each job
published, and `useLlmRunProgress` of each page.

`run_llm` awaits only the wake-up of the reconciler; `Synchronous` are the places
between which it keeps the event loop of the machine, and every request (`Dispatch`,
`Cleanup`, `Poll`) waits for `LoopIsFree`. A run that lives goes without heartbeats
for ten minutes during a batch, when their writes fail (177-178, swallowed; `Heartbeat`
may or may not renew), are throttled to one in two seconds (1617-1620), or, before its
first step and at the await of line 1847, while a second run keeps the loop: `Age` is enabled at every stage. The
clean-up of silent runs may therefore mark a live run, on the same machine too (section
3, `llm_gaps`). What the loop does prevent there is that it falls upon a run between its
first publication and its last: `NoRunIsMarkedHalfway`.

| Action | Code |
|---|---|
| `ReadProject`, `SelectDocuments`, `Canary`, `Batch`, `SaveRow`, `RefuseRow`, `SaveTimesOut`, `Wake`, `WriteHash`, `Judge`, `Except`, `CallFails` | `run_llm` up to each remote call |
| `Dispatch` | `handleRun` and the route `/run`, its answer possibly lost |
| `Mount`, `Cleanup`, `CleanupFails`, `Resume` | the effect that resumes a run, `mark_stale_runs_as_error`, `getRunningLlmJob` |
| `Poll`, `PollFails` | the polling, `get_job_status` |
| `Age`, `Kill`, `Deploy`, `CommitSchema`, `NewRound` | ten minutes, a killed machine, a bluegreen deploy, `commit_project_schema`, `start_project_round` |

The run of chosen fields (`run_llm_fields`) ignores its fields and calls `run_llm`:
it is the same task. Authorisation, the rate limiter, the division of a refused schema
and the counters are absent; `max_responses` and explicit documents are instances of
a sample.

### CodingDraft

State: `slot`, the envelope of each document in `localStorage`; `server`, the user's latest response
to each document; and for each tab its session (`docs`, `timers`, `opened`), the document on the
screen, what the server delivered, the form, what was resumed (`browseRestored`), the unsent
documents (`dirty`), the banner (`offer`) and the send in flight. The functions of
`coding-draft-storage.ts` are operators on a session (`Persist`, `DropSlot`, `SeedBaseline`, …); a handler,
a timer or the effects of one render are one step.

| Action | Code |
|---|---|
| `Load`, `Select`, `Fetched`, `Refresh` | the page is opened; the document on the screen changes, with the opening effect and the recording effect; the fetch of Explore answers; new props |
| `Type`, `TimerFires` | `handleAnswer`, `handleNotesChange`, `recordDraft`; the debounce of 300 ms ends |
| `Restore`, `Discard` | the two buttons of the banner |
| `Submit`, `Commit`, `Confirmed`, `Refused` | the send, its write (external), its answer with the new render, a refusal or a lost answer |
| `Hide`, `Leave`, `Crash` | `visibilitychange`; leaving by the warning or `pagehide`; the browser dies |
| `Fill`, `Expire` | `setItem` succeeds, only once the emergency collection freed something, or not even then (`Rooms`); thirty days pass (external) |

Abstractions. A snapshot of answers and notes is one value, so two edits of different fields are
one change after another. A document is of the queue (Assigned) or of Explore throughout; one that
leaves the queue after its send stays in the model, as it does when an answer is missing. The
token of an envelope is the number of the edit, and stands for its time; `flushAll` writes in
any one order of the documents. A slot that cannot be read is absent, one of a newer build is `Newer`.
The storage answers every read. Impersonation and former rounds, where drafts are disabled, the fetch
that fails and the change of the schema under an open form are absent.

Properties. `NoOrphans`: the envelope a tab wrote last is the one it expects, whatever sends,
openings and other tabs do, so that it can replace and delete it. `UnsentIsKept`: once its debounce
is over, an unsent edit is on disk, also of documents that are no longer shown; it is stated while one
tab is open, the storage has room and no answer is lost. `LeavingIsTruthful`: when the warning says the
edits stay in this browser, what is there is the last edit of every document, with two exceptions which
the property names and `draft_gaps` reproduces as `WarningIsTruthful`: a full storage refused that edit and an older
envelope which the tab may write over remains (`OlderIsKept`), or another tab has the slot (`OthersIsKept`). It has no other premise:
it holds of every tab, with lost answers and in a storage at its limits.

### LockOrder

A transaction is the list of its lock requests (advisory keys, rows, unique keys,
with PostgreSQL's modes), one list per branch. Two or three run at once, and a state
where some wait for each other is a deadlock. `DeadlocksAreKnown`: the only pairs of kinds
that can deadlock are those of `MayDeadlock`, which PostgreSQL breaks by aborting one.
`ProjectBeforeDocument` (`lock_triples.cfg`) says that publications, saves, lotteries and rounds
never do over the project and its documents. What is not in the table cannot deadlock: two first
saves, or two operations on arbitrators, only wait. `lock_triples.cfg` also checks
`DeadlocksAreKnown` with three transactions.

### Identity

State: the successive snapshots of each account at Clerk (the last one is current), the webhooks Svix
still has to deliver, `profiles`, `clerk_user_mapping` (identity, whether it is ready, the version
of its snapshot, whether it is deleted), `project_members` and `member_email_links` of one project, and
the server actions and deliveries in flight. `refused` records who met a `ClerkIdentityConflictError`.

Every database function of this part takes the advisory lock `canonical-project-identity` first,
so each is one step; the reads from Clerk, the calls and the write of the metadata are steps of their
own, and tasks interleave between them.

| Action | Code |
|---|---|
| `SignUp`, `VerifyEmail`, `RemoveEmail`, `DeleteAccount` | Clerk (external): the account changes and a webhook is sent; a verified e-mail has one owner |
| `Deliver`, `CompleteAccess` | the webhook route, `completeAccess` |
| `Reload`, `ReadMapping`, `Claim`, `CreateUser` | `clerk.users.getUser`, `readSupabaseUserMapping`, `claim_clerk_supabase_identity`, `createUser` with `handle_new_user` |
| `BeginSnapshot`, `CompleteSnapshot`, `PublishUid` | the two phases of `applyClerkAccessSnapshot`, `persistSupabaseUidInClerkMetadata` |
| `Revoke`, `Unlink` | `begin_clerk_user_revocation`, `complete_clerk_user_revocation` |
| `AddMember`, `LinkMemberEmail`, `UnifyMembers`, `CorrectEmail` | what the coordinator's action reads and refuses at first |
| `Lookup` | the search for the verified owner, which is then reconciled like above |
| `DecideAdd`, `DecideLink`, `DecideUnify`, `WriteMember`, `WriteLink`, `WriteUnification`, `WriteEmail` | what it decides with the owner, and the function that writes with an identity proof |
| `RemoveMember`, `UnlinkMemberEmail` | one statement each |
| `Fail` | a call fails, its answer is lost, or the process dies |

Abstractions. `updatedAt` is a counter of the account's changes. The reads of one coordinator's
function are one step. An e-mail's link has no id. Svix makes one attempt at a time per webhook. A
name, a role and the activation date's value are absent. `unify_project_members` moves the links
and the membership; the work of the source and the conflicts that forbid moving it
are absent. A second attempt that fails ends a task, and the webhook will be delivered again.

Properties. `ReadyMeansApplied`: a ready account acts as a member only by e-mails its applied snapshot
has verified, whoever wrote the link; this is what the proof of ownership asked at each
write is for. `AccessNeverGoesBack`: versions never decrease, a deleted mapping is never ready
again. `GrantsNeverRaise`: links that contradict each other are left unresolved instead of being granted
against a trigger, which would make Svix repeat the same failure.
`DeletedAccountsAreCut`: also when `user.deleted` was handled before the mapping existed.
`AccountsSettle`: in the end every account is usable with its last snapshot, or its conflict was
reported. The last two assume that only webhooks fail: a coordinator's action or a page that
dies after it applied an old snapshot, and before the write at Clerk whose webhook would correct
it, leaves the account with that snapshot until its next change.

## 3. Runs

| Run | Bounds | Shows |
|---|---|---|
| `drains` | 1 coder, 2 saves, 2 publications, 1 equivalence, 1 fault, queries in any order, `FairSpec` | `NoFalseConsensus`, `TypeOK`, `RequestIsCurrent`, `RejectsOnlyChanges`, `QueueDrains`, `ImplementsOutbox` |
| `two_workers` | 2 saves, 2 publications, the two tables of cycles read in either order: 2 workers over 1 coder, or 1 worker over 2 coders with the mode switched at any time | `CyclesNumberedApart`, `OneReviewerPerField`, `ReviewersKeepTheirCycles` |
| `schemas` | 2 fields, the second leaves and returns, equivalences undone | `SnapshotsCurrent`, `VerdictsKept`, `OpensOnlyDisagreements` |
| `arbitration` | 2 coders and their fields, 2 sessions, 1 permission change; in one scope 3 members, both verdicts and no deletion, in the other deletions and 2 cycles per field | `ContestsAreInQueue`, `PhasesInOrder`, `ArbitratorsAreEligible`, `VerdictsStand` |
| `two_tabs` | 2 tabs, 2 saves, 2 fields (the second conditional), 2 versions, 2 rounds | `AnswersHaveProvenance`, `ClosedRoundsAreFrozen` |
| `comparison` | 6 scopes of at most 3 members, 2 fields, 2 sessions | `ReviewerIsNotCoder`, `BacklogHasACause`, `PendingReviewersMayCompare`, `VerdictsDecideStatus` |
| `schema_drafts` | 3 scopes: 2 fields, 1 editor and 3 changes; 1 field, 2 editors and 3 changes; 1 field, 1 editor, 3 changes and a failing storage | `DirtyDiffersFromBaseline`, `LocalEditsSurvive`, `OnlyEditsAreSubmitted`, `OwnWritesNeverBlock`, `AnswersFollowTheDispute` |
| `llm_runs` | 4 scopes: 1 run of 2 documents with 2 faults; with a round; with 2 revisions; 2 runs of 1 document with a round and 1 fault | `CompletedRunsPublishedAll`, `LatestBelongsToRound`, `NoRunIsMarkedHalfway`, `RunsEnd` |
| `lock_pairs` | 2 transactions of any of 18 kinds, 2 documents, 2 coders, 1 arbitrator | `DeadlocksAreKnown` |
| `coding_drafts` | 2 tabs, 7 scopes: a queue of 2 documents with 4 edits; a document of the queue in 2 tabs at once, also with a storage that fills up; 2 documents of Explore; a storage of one slot that fills up, ages and holds the draft of a newer build; a queue, and Explore, where the answers of sends may be lost | `NoOrphans`, `UnsentIsKept`, `LeavingIsTruthful` |
| `identity` | 6 scopes of 1 or 2 accounts, 2 tasks, at most 3 changes at Clerk, 2 calls and 1 fault: an account alone with a failing webhook; an e-mail passed from one account to another; adding, linking, unifying; correcting, removing and unlinking | `ReadyMeansApplied`, `GrantsNeverRaise`, `DeletedAccountsAreCut`, `AccessNeverGoesBack`, `AccountsSettle` |
| `stale_hash` | violation | `HashFollowsCode` |

`CHECK_DEADLOCK FALSE` is set where the system stops: the document of `AutoReview`
when saves and publications are used up and the queue is empty, `Comparison` when
its calls are made, `Identity` when every webhook is answered and the bounds are used up, `LlmRuns` when its runs have ended and its pages rest, `CodingDraft` when its tabs are gone, `LockOrder`
in the very states it looks for.

Why the bounds are enough. An answer that changes under an open cycle and changes back
is covered by the LLM's rerun, which archives and reopens the cycle; two publications
replace a generation while a worker holds the other; one fault hits every stage
because it may strike anywhere; two workers, tabs, sessions, runs or editors are the
least that race. `MaxStamp` only limits the repair, which would otherwise enqueue without end.
`Before` is `AnyOrder` where the order of a worker's queries is the question, and `AsIssued`
elsewhere. Values come in twos, except those of `schema_drafts`: with two typed here and two
typed elsewhere, no coincidence hides a lost edit. The scopes of `comparison` differ in the
rows they start from: no response, one reviewer at work, two concluded reviewers, a draw over two rounds.
The edits of `coding_drafts` allow one before a send or a departure, one meanwhile and one after; its scopes separate the two modes
of the page, which share a session but not a form. A run stops publishing after `MaxConsecutiveFailures` rows, two instead of five, so that
two documents meet both the stop and the single refusal.

Fairness. `drains`: `WF(Drain(w))`, the wake-up loop of
`backend/services/auto_review_reconciliation.py:109` calls the worker every 30 s for ever;
`WF(BecomeDue)`, `next_attempt_at` is a time, and passes (the backoff is capped at an hour);
`WF(CommitMarkEquivalent)`, an open transaction ends. `llm_runs`: `WF(TaskStep(j))`, a live
task goes on (the provider's calls have time-outs); `WF(Age(j))`, ten minutes pass;
`WF(Mount(p))`, `SF(Cleanup(p))` and `WF(Resume(p))`, a coordinator opens the page again
and again and the clean-up is answered when the loop is free often enough. Nothing else ends
an abandoned run: while nobody opens the page it stays 'running', and a page that
already follows it polls its row without cleaning it up. `identity`: `WF(Proceeds(t))`, a running
request goes on; `WF` of the delivery of each webhook, which Svix repeats until it is answered
with 2xx. Saves, publications, verdicts,
dispatches and faults are not fair.

### What the violations show

`stale_hash`: a run writes at its end the hash of the code it read at its start. A
schema committed in between is left with the hash of the former code, which the
reconciler compares (`expected_project_pydantic_hash`) and `compare-version.ts` reads.

Other divergences between the code and what it says of itself are reproduced by the
configurations below, which are not part of the runs above (`tlc -config X.cfg MC….tla` shows the
counterexample; of several properties in one file, the others are seen once the first is commented out):

| Configuration | Property | What happens |
|---|---|---|
| `removed_field` (`MCAutoReview`) | `RefusalsAreTransient` | `directEquivalenceIds` sends the ids of a pair for every field, the function compares those of the fields in the schema: once a field with an equivalence leaves, every call is refused |
| `incomplete_coding` | `IncompleteCodingClosesCycle` | a test of the outbox says an incomplete coding closes the active cycle; nothing enqueues or reads incomplete codings |
| `equivalent_verdict` | `EquivalentPublishesHuman` | the pair that the verdict records closes its own cycle, and the view publishes the LLM answer |
| `undone_pair` | `ConsensusIsAgreement` | undoing an equivalence makes coder and LLM diverge without a request, and the view says "consenso" |
| `arbitration_gaps` (`MCArbitration`) | `QueueIsComplete` | the sweep after a deletion removes the assignment of an arbitrator who is being given a contest |
| | `NoContestForgotten` | a contest finds nobody while a member is being enabled, whose retry read the contests before it |
| `blind_overwrite` (`MCSaveResponse`) | `DropsOnlyWhatItRead` | the UPDATE goes to the row of the key, with a snapshot computed from what was read: an answer of another tab in between is lost |
| `stale_provenance`, `unseen_answer`, `demoted_assignment` | `VersionIsStamped`, `DropsOnlyWhatWasShown`, `ConcludedStays` | a stored version nobody stamped; an answer the form could not show is erased; a late sync reopens a concluded coding |
| `comparison_gaps` (`MCComparison`) | `OneTieBreak` | once a reviewer decided every divergent field, the document has no open comparison, and the next change of anybody's `can_compare` assigns it to a second reviewer; `lottery-utils.ts:130` says there is one tie-break per document |
| | `VerdictsDecideStatus` | here a coordinator who reviews nothing declares two answers equivalent: only he is synchronised (`equivalences.ts:112`), so the status of the reviewer stays behind, though `compare-sync.ts:104` says that equivalences are shared and that syncing only the caller leaves peers stale |
| | `StartedWorkStays` and `CompleteCodingsAreConcluded`, `CommentsFollowVerdicts` | `cycleAssignment` removes work started after its reading; a coding assigned during its first save stays pending; two verdicts of one field leave no comment, or one too many |
| `llm_gaps` (`MCLlmRuns`) | `AbandonedRunsAreDead`, `OneActiveRun` | a silent live run is marked, and later completes: across a deploy, when its heartbeats were refused, or while it waits for the loop that a second run keeps; a lost answer of `/run` lets the page start a second run |
| `split_links` (`MCIdentity`) | `UnificationsPass` | `unify_project_members` moves the links of the source in one UPDATE, and the trigger refuses it row by row when two of them resolve to one account; the preview announced no conflict |
| `late_snapshot` | `OwnersAreResolved` | an old snapshot of the former owner, applied late, takes the link from the new owner, whose webhooks are all answered: the link stays unresolved (3 minutes) |
| `draft_gaps` (`MCCodingDraft`) | `DraftsAreStored` | a draft that equals the content the page has is redundant, and reopening the document deletes its envelope; when the answer of the next send is lost, that draft is neither stored nor on the server |
| | `OnlyOthersBlock` | the answer of a send is lost; on reload the redundant envelope is deleted, but its token remains the one the tab expects, and every later write of that document is refused as if another tab held the slot |
| | `OffersAreOfTheActive`, `CleanFormsShowTheServer` | while a second document of Explore is fetched, the banner is still about the first, and its buttons act on the second; a document resumed, sent and opened again shows the resumed draft instead of what was sent |
| | `WarningIsTruthful` | `hasStoredDraft` asks whether the slot has an envelope, not whose or which: after the quota refused the last edit over an older envelope, or with another tab's in the slot, the page says the edits are kept and the last one is not. `coding-draft-storage.ts:104-110` and `UnsavedWorkDialog.tsx:12-18` say that a full quota is a case in which it does not promise it |
| | `DeletesOnlyItsOwn` | an edit undone in a tab that never wrote deletes the envelope of another tab: without a token of its own, `dropSlot` takes the one it finds |

Three more configurations pass: `no_false_consensus` (the property with two workers, a fault
and contests; `MCAutoReview`), `recent_reopens` (`RecentReopensFirst`, which concluded comparison a removed
equivalence opens again) and `lock_triples`.

## 4. Proofs

`AutoReviewProofs` proves, for every value of the constants that satisfies the
assumptions named in `AutoReview` (`DataAssumption`, `VerdictAssumption`,
`BoundAssumption`, `QueryAssumption`, `NullAssumption`), thus for any number of coders, fields, answers,
schemas and workers and any bounds:

* `Invariance`: the inductive invariant `IInv` — `TypeOK`, `SnapshotsCurrent`,
  `RequestIsCurrent`, `OneReviewerPerField`, `CyclesNumberedApart`, and
  `CyclesBounded`. The last one is the strengthening: the cycle numbers
  ever used have an upper bound, without which the maximum in `NextCycle` need not
  exist and numbering cannot be shown to go up. The five named invariants follow
  (`TypeCorrect`, `SnapshotsAreCurrent`, `RequestsAreCurrent`, `OneReviewer`,
  `CyclesAreNumberedApart`).
* `VerdictsAreKept`: `VerdictsKept`, by cases on what each action does to
  `reviews` and `history`.
* `ViewInvariance` and `OnlyDisagreementsAreOpened`: a worker holds no lock, so
  the argument is about versions. `ViewInv` says that if a row a worker has read
  still has the version (or id) it had, it still has the answers it had: versions
  grow with every save, generation and equivalence ids are never reused. When
  `reconcile_auto_review_cycles` accepts, all versions are equal, hence the
  divergences the worker computed are the current ones.

Its second half goes on from there to what the outbox is for. Its theorems about the document, but for `RefusalsHaveACause`, assume `QuietProject`: one
schema, and no equivalence removed, because those two changes enqueue nothing and the property is false
with them (section 3). A coder has something *at stake* (`AtStake`) if a cycle is owed to
it, or the transaction of `record_response_equivalences` that is open is about to drop an equivalence
that counts again, and the queue answers for it: it has reviewed the document, or the mode is always on.

* `PromiseInvariance`: the inductive invariant `Promise`. `QueueInv`: without a request
  nobody has anything at stake. `StageInv`: what a worker has read, by its stage. `WorkerInv`: if the request a worker
  holds is still the one in the queue, then for every coder with something at stake the worker
  has the current answers or has not asked for them, and takes the coder for a reviewer, or the cycle
  that makes him one is in the table the worker has not read yet; and when it is about to acknowledge, nobody has
  anything at stake. The induction rests on a dichotomy: every step either writes a request with a new
  stamp (`Announced`), which no worker holds, or withdraws it together with the generation (`Withdrawn`), or puts nothing new at
  stake (`NothingNew`). TLC checked `Promise` on the instances of `drains` (with
  the verdict "equivalente" and two equivalences) and `two_workers` before it was proved.
* `NoConsensusIsFalse`: `NoFalseConsensus`, with a mode that does not change besides (`FixedMode`; switching it on
  enqueues nothing). `ReviewersKeepCycles`: `ReviewersKeepTheirCycles`, whatever becomes of
  the mode and in whatever order the two tables are read.
* `ImplementsOutboxSteps`: the safety part of `ImplementsOutbox`. It follows from the invariant: a step after which there is
  a request is `Change`; after any other nothing is owed, so it is `Settle` or `Repay`.
* `AnnouncesAll`: in the abstract outbox nothing is owed that is not announced; `DocumentAnnounces` carries it to the
  document through the refinement: without a request no cycle is owed.
* `RefusalsHaveACause`: `RejectsOnlyChanges`, for one schema, equivalences removed or not. What is recorded is about fields of
  the schema (`InSchema`); without that the ids a worker expects and those the function finds differ for ever
  (section 3).

The next five modules prove one inductive invariant each, `IInv`, for any members, fields,
documents, sessions, tabs, machines, and any set of scopes that satisfies the assumptions of the
module. Its conjuncts that no run lists were checked by TLC on the scopes of the run before they were
proved; `TypeOK` gives every variable its type, the records of the running calls included.

* `ArbitrationProofs` (`QueuesComplete`, `ArbitratorsEligible`, `PhasesOrdered`, `VerdictsAreKept`).
  None of the properties is inductive: a session decides under locks what it commits later. `SessionsOK` says of
  each session what it is about to commit and which locks it holds for it; `Exclusive`, that two sessions hold no lock and no row
  together, which is why a step of one keeps what is said of the others; `RowsInPhase`, that the committed cycles are in phase. The
  queue of a member is complete because whoever adds a case to it and whoever closes it hold the same lock.
* `IdentityProofs` (`ReadyIsApplied`, `GrantsPass`, `AccessIsMonotone`, `DeletionsCut`). `TasksOK` says which published snapshot of
  which account each task works with, and that a coordinator's action that has a proof has it for the
  account it found; `MappedOnce` and `MappedAreRegistered`, that an identity has one account and a profile;
  `ReadyIsGranted`, that what is ready was granted by a published snapshot. `Terminal`, the constraints on the
  links, is a conjunct, and makes the grant of a snapshot pass.
  `DeletionsCut` rests on a second invariant, `CutInv`, checked by TLC on the scopes of the run and on larger ones. The case that needs
  it is a deletion whose webhook is handled while a task, which read the account before, has not mapped it yet. From
  that moment `CutsOK` says that nothing was ever published of the account and that somebody pursues it: a webhook that waits for its delivery, or
  a task that reads it again, publishes, or can still be superseded once. Each of them finds the account deleted and revokes it, and
  `NoNewAlias` says that no step gives a revoked account an alias. As in the property, only webhooks may fail.
* `LlmRunsProofs` (`CompletedIsPublished`, `LatestIsOfTheRound`, `MarkedRunsAreNotHalfway`). `TasksOK` says, at each stage of a run,
  where its documents are: published, still to be published, or failed. `CompletedOK`
  says that whatever calls a run completed — its row, the memory of a machine, a page — does so after
  the run ended with all its documents published. `MarkedRunsAreNotHalfway` assumes nothing about heartbeats: a clean-up is answered
  when no run of the serving machine is at a `Synchronous` place, and by `TasksOK` a live run elsewhere (started, or at the await after
  the batch) has published nothing yet or has nothing left to publish.
* `SaveResponseProofs` (`ProvenanceIsKept`, `ClosedRoundsStayFrozen`). The stamps that a save computes from what it read cover
  the answers it writes, whatever was read; `BasesExist`, that the response it read still exists.
* `ComparisonProofs` (`CodersDoNotReview`, `PendingMayCompare`, `NoDocumentForgotten`, `StatusFollowsVerdicts`, `ConcludedAreTimed`). `CallsFit` says what each call has read by
  its stage: a synchronisation that could make a comparison pending again is never one of a member with a verdict. The two triggers
  do the rest: they test again what a call read before. `NoDocumentForgotten` assumes that `BacklogHasACause` holds at first and is about who will look at the document:
  while one needs a reviewer, has none and somebody could be one, there is a call that is still to
  analyse it, or has done so with all the coders there are, or is about to assign a member who may
  compare and did not code (`Attended`). A first complete coding and a change of permission start such a call,
  every stage of it hands on to the next, and no other operation of these scopes creates the need.
  `StatusFollowsVerdicts` has a second invariant, `Followed`, checked by TLC on four scopes before it was proved: the status of
  the only reviewer is the one that his verdicts call for, or the running call still has to look at him (`Pursues`), and what that
  call read of him still holds (`Serves`), as calls run one at a time. Its premise `FollowedAtFirst` is about the rows a scope starts
  from, and each part is needed: the status is right at first; the reviewer did not code (the trigger would refuse to reopen his
  comparison); nobody else declares equivalences (section 3). `ConcludedAreTimed` (`ConcludedHaveATime`, which no run lists;
  TLC checked it on the scopes of `comparison`) says what the order of reopening relies on: a
  comparison has a `completed_at` if and only if it is concluded. `Now`, the maximum of the times, is shown to exist by a
  least counterexample (`MaxOfFinite`).

`SchemaDraftProofs` has an invariant of its own kind, `SInv`, for any editors, schemas and scopes: every revision
that an editor, the stored draft or an answer of the server names exists, and revisions do not change
(`CommitKeeps`); a dirty editor and a stored draft differ from their base; the editor on the screen that changed the slot last
knows its token. The proof is about the transitions of the hook first: `Yields` says what each of them may do to an editor
and the slot, and composes (`YieldsTwice`), as a render persists before it merges. An editor that has left the screen is excluded: it flushed its draft,
but the state that the answer of its call finds is the one before.

* `DraftsDiffer` and `WritersAreOwners`: `DirtyDiffersFromBaseline` and `OwnWritesNeverBlock`. Neither depends on fresh
  tokens, or on what the merge returns.
* `AnswersFollowTheField`: `AnswersFollowTheDispute` for disputes about fields, from two facts: an editor in conflict
  waits for no answer of the server (`NoCallInConflict`), so only a render moves its remote; and a dispute about a field names the remote
  content at stake (`StakeIsShown`).
* `LocalChangesAreMerged` and `RemoteChangesAreMerged`: of one field, for any three contents and any answers, the merge has every
  change of a side unless a dispute about the field was answered for the other side, or, of a local change, was not answered. TLC's
  `LocalEditsSurvive` says more (whole schemas, their order, several steps), on small schemas.

`CodingDraftProofs` proves the three properties of `CodingDraft` for any finite set of documents and any tabs, scopes,
edits and collections of garbage. None of them is inductive, and one is about a tab that is alone. The invariant `IInv` says of every open
tab that it is `Fit` for what `localStorage` and the server hold:

* of each document (`DocOK`): `Mine`, the envelope that this tab wrote, or any envelope of an opened document while it is alone, has
  the token it expects, whatever room there is; `Fresh`, the page has the server's content, but for a send whose answer is on its way; `Shown`, a
  form of Assigned that was edited shows the draft; `Drafted`, of an envelope the tab may write over (`Own`): it holds the draft, or the write is
  due, or the storage may be full, and an edited document has a draft; and, alone with room, a draft that is neither stored nor due is
  blocked or on the server already.
* of the page: `Paged`, nothing is opened, offered or sent before the first opening; `OnScreen`, the document on the screen is open
  once it is loaded. `OnScreen` fails between the two halves of a transition, so the lemmas are about `Settled`, which is `Fit` without it.

The functions of a session (`DropSlot`, `Persist`, `OpenDocument`, ...) are lemmas on sessions, and a step of a tab is a session
that is `Stepped` from the tab's own; `OthersFit` says that another tab loses nothing, because a session only removes envelopes or replaces them by
its own (`Yields`), and what is said of a tab alone is not said of two. `FlushAll` is a fold over the documents whose writes are due, in an order nobody chose:
`OneFold` and `FoldExists` show that a fold over a finite set exists and is one, `FlushInduction` that what one flush keeps all keep. They argue
by a smallest set that is a counterexample, since subsets of a finite set are well-founded, where induction would need an operator as parameter.

* `KeepsItsOwn`: `NoOrphans`, with lost answers and full storages.
* `KeepsUnsent`: `UnsentIsKept`. The attempt to prove it without the premise that no answer is lost failed for a good reason,
  which TLC then found (`DraftsAreStored`, section 3).
* `WarnsTruly`: `LeavingIsTruthful` with its two exceptions, from what `flushAll` leaves (`Flushed`): with room, a pending write is refused only by an
  envelope of another tab (`FlushHolds`); without, the slot keeps what `Mine` and `Drafted` say of it.

What the assumptions ask of a scope is what the database guarantees of the rows it starts from (a coder
holds no open comparison; a stored response has provenance; no account has published an identity before one is mapped), that its values have types, and that
`Null` and `None` are none of them. Two bounds of `Identity` are a guard of the model and not of the code: `MaxVersion`, and `Room(e)`,
by which a profile is created only while an unused user is left.

The prover and TLC read `SUBSET S \ T` differently, as `SUBSET (S \ T)` and `(SUBSET S) \ T`: such prefix operators are parenthesised
throughout, so that what is proved is what is checked.

Only model-checked: of `ImplementsOutbox`, that the outbox is settled again and again; `DeadlocksAreKnown`, a search over
lists of locks; `RecentReopensFirst`, whose invariant would be about the synchronisations of several reviewers in a row; of `SchemaDraft`,
`LocalEditsSurvive`, `OnlyEditsAreSubmitted` and what `AnswersFollowTheDispute` says of the order of the fields, since the merged
fields are listed by recursion (`Topological`) and by `SelectSeq`, and what those return needs induction; and `QueueDrains`, `RunsEnd` and
`AccountsSettle`, whose fairness the prover cannot handle.

## 5. Not modelled

The rate limiter of the LLM (one RPC under a row lock); the backfill, the history and the
suggestions of schemas; the balance of a lottery between members, its previews and the bulk
operations; roles, row-level security, the work that a unification moves and a person in several
projects; documents beyond their
exclusion and scope; exports, statistics, comments other than the automatic ones; the compiler of
schemas and the evaluator of conditions, which are sequential functions; rendering. The models do not use the text of anything: prompts, messages, names. The
share of the implementation behind the modules is small because much of the
repository is pages, forms, exports, maintenance scripts and tests of single statements.

## 6. Plan

1. The lists of names in `SchemaMerge` as functions that say where a name goes, without `SelectSeq`, so that
   `AnswersFollowTheDispute` can be proved of the order too.
2. A module for the lottery over several documents.
