------------------------------- MODULE LockOrder -------------------------------
(***************************************************************************)
(* The locks that the transactions of the database take, in the order in   *)
(* which their statements and triggers take them.                          *)
(*                                                                         *)
(* A transaction is the list of its requests, one list for each branch     *)
(* whose locks differ.  A lock is an advisory key, or a row, or the rows   *)
(* that one statement takes together.  The modes and their conflicts are   *)
(* PostgreSQL's: an UPDATE that changes no key column takes noKeyUpdate, a *)
(* DELETE takes update, a foreign key takes keyShare on the row it refers  *)
(* to, and an advisory key is exclusive.                                   *)
(***************************************************************************)
EXTENDS Naturals, Sequences, SequencesExt

CONSTANTS
  Documents, Coders, Arbitrators,
  Sessions,  \* transactions that run at the same time
  Kinds      \* the kinds of transaction they run

VARIABLES
  transaction,  \* the kind and the requests of each session's transaction
  next,         \* the position of the request it makes next
  held          \* its locks, with their modes

vars == <<transaction, next, held>>

-----------------------------------------------------------------------------
\* Locks.

Project == <<"projects">>
Document(d) == <<"documents", d>>
Human(d, c) == <<"responses", d, c>>
Llm(d) == <<"responses", d>>
LatestHuman(d, c) == <<"responses_one_latest_human_per_document", d, c>>
Reviews(d, c) == <<"field_reviews", d, c>>
Equivalences(d, c) == <<"response_equivalences", d, c>>
SelfReview(d, c) == <<"assignments auto_revisao", d, c>>
Arbitration(d, m) == <<"assignments arbitragem", d, m>>
Member(m) == <<"project_members", m>>
Outbox(d) == <<"auto_review_reconciliation_requests", d>>
Comments(d) == <<"project_comments", d>>

\* The keys of pg_advisory_xact_lock, lock_arbitration_assignment and
\* lock_comparison_document.
DocumentKey(d) == <<"key document", d>>
ArbitrationKey(d, m) == <<"key arbitration", d, m>>
ComparisonKey(d) == <<"key comparison", d>>
Keys == {DocumentKey(d) : d \in Documents} \cup {ComparisonKey(d) : d \in Documents}
          \cup {ArbitrationKey(d, m) : d \in Documents, m \in Arbitrators}

\* The modes held by others that stop a request.
Stops ==
  [keyShare |-> {"update"},
   share |-> {"noKeyUpdate", "update"},
   noKeyUpdate |-> {"share", "noKeyUpdate", "update"},
   update |-> {"keyShare", "share", "noKeyUpdate", "update"}]

Takes(mode, lock) == [lock |-> lock, mode |-> mode]

\* One request for each element, in a fixed order.
Each(S, request(_)) ==
  LET s == SetToSeq(S) IN [i \in DOMAIN s |-> request(s[i])]
InTurn(S, requests(_)) ==
  LET s == SetToSeq(S) IN FlattenSeq([i \in DOMAIN s |-> requests(s[i])])

If(condition, requests) == IF condition THEN requests ELSE <<>>

\* The foreign keys to the project and the document.
Refers(d) == <<Takes("keyShare", Project), Takes("keyShare", Document(d))>>

-----------------------------------------------------------------------------
\* Saves and their triggers, in the alphabetical order PostgreSQL fires them.

\* The archive of the reviews and pairs of the responses of some coders: each
\* row deleted goes to the history, which refers to the document.
Archive(d, cs) ==
  Each(cs, LAMBDA c : Takes("update", Reviews(d, c)))
    \o Each(cs, LAMBDA c : Takes("update", Equivalences(d, c)))
    \o Refers(d)

\* archive_review_dependencies_on_response_change: the conclusions and the
\* deletions of tasks follow, whoever they belong to.
ArchiveDependencies(d, cs, archives) ==
  If(archives, Archive(d, cs))
    \o Each(Coders, LAMBDA c : Takes("noKeyUpdate", SelfReview(d, c)))
    \o Each(Arbitrators, LAMBDA m : Takes("update", Arbitration(d, m)))

\* enqueue_auto_review_reconciliation of a complete human response.
Enqueue(d) ==
  <<Takes("update", Document(d)), Takes("noKeyUpdate", Outbox(d)), Takes("keyShare", Llm(d))>>

\* The UPDATE of persistResponseRow: the row, then BEFORE and AFTER triggers.
SaveUpdate(d, c) ==
  {<<Takes("noKeyUpdate", Human(d, c)), Takes("share", Project)>>
     \o ArchiveDependencies(d, {c}, archives) \o If(complete, Enqueue(d)) :
     archives, complete \in BOOLEAN}

\* Mutant: nothing serializes the INSERTs of two coders.
SaveInsertWithoutKey(d, c) ==
  {<<Takes("share", Project), Takes("update", LatestHuman(d, c))>>
     \o Refers(d) \o If(complete, Enqueue(d)) : complete \in BOOLEAN}

\* Its INSERT: the triggers, the unique index, the foreign keys.
SaveInsert(d, c) ==
  {<<Takes("update", ComparisonKey(d)), Takes("share", Project),
     Takes("update", LatestHuman(d, c))>> \o Refers(d) \o If(complete, Enqueue(d)) :
     complete \in BOOLEAN}

-----------------------------------------------------------------------------
\* Publication and reconciliation.

Publish(d) ==
  {<<Takes("share", Project), Takes("update", Document(d)),
     Takes("update", Outbox(d)), Takes("noKeyUpdate", Llm(d))>>
     \o ArchiveDependencies(d, Coders, archives) : archives \in BOOLEAN}

\* reconcile_auto_review_cycles, one group after another.
ReconcileGroup(d, c, changes) ==
  <<Takes("update", Human(d, c)), Takes("update", Llm(d)),
    Takes("update", DocumentKey(d)), Takes("share", Equivalences(d, c))>>
    \o If(changes, Archive(d, {c}))
    \o <<Takes("noKeyUpdate", SelfReview(d, c))>>
    \o Each(Arbitrators, LAMBDA m : Takes("update", Arbitration(d, m)))

Reconcile(d) ==
  {InTurn(Coders, LAMBDA c : ReconcileGroup(d, c, c \in changed)) :
     changed \in SUBSET Coders}

EnqueueForProject ==
  {Each(Documents, LAMBDA d : Takes("update", Document(d)))
     \o InTurn(Documents, LAMBDA d : <<Takes("noKeyUpdate", Outbox(d)),
          Takes("keyShare", Project), Takes("keyShare", Llm(d))>>)}

-----------------------------------------------------------------------------
\* Verdicts, equivalences and arbitration.

\* submit_auto_review_verdicts, by verdict: admite_erro, ambiguo (a comment),
\* equivalente (a pair) and contesta_llm (an arbitrator and a task).
SubmitAuto(d, c) ==
  LET paths(m) ==
        {<<>>, Refers(d),
         Refers(d) \o <<Takes("keyShare", Human(d, c)), Takes("keyShare", Llm(d))>>,
         <<Takes("update", Member(m)), Takes("noKeyUpdate", Arbitration(d, m))>> \o Refers(d)}
  IN  UNION {{<<Takes("update", DocumentKey(d)), Takes("update", Reviews(d, c))>>
                \o path \o <<Takes("noKeyUpdate", SelfReview(d, c))>> :
                path \in paths(m)} : m \in Arbitrators}

\* submit_final_review_verdicts: a verdict for the LLM adds a comment.
SubmitFinal(d, m) ==
  {<<Takes("update", DocumentKey(d)), Takes("update", ArbitrationKey(d, m))>>
     \o Each(Coders, LAMBDA c : Takes("update", Reviews(d, c)))
     \o If(comments, Refers(d)) \o <<Takes("noKeyUpdate", Arbitration(d, m))>> :
     comments \in BOOLEAN}

\* Mutant: it also takes the key of the document, as the submissions do.
AssignUnderBothKeys(d, m) ==
  {<<Takes("update", Member(m)), Takes("update", ArbitrationKey(d, m)),
     Takes("update", DocumentKey(d))>>}

\* assign_arbitration_cycles_if_eligible.
AssignArbitration(d, m) ==
  {<<Takes("update", Member(m)), Takes("update", ArbitrationKey(d, m))>>
     \o Each(Coders, LAMBDA c : Takes("noKeyUpdate", Reviews(d, c)))
     \o <<Takes("noKeyUpdate", Arbitration(d, m))>> \o Refers(d)}

\* set_member_arbitration_permission, disabling.
WithdrawPermission(m) ==
  {<<Takes("noKeyUpdate", Member(m))>>
     \o InTurn(Documents, LAMBDA d :
          Each(Coders, LAMBDA c : Takes("noKeyUpdate", Reviews(d, c))))
     \o Each(Documents, LAMBDA d : Takes("update", Arbitration(d, m)))}

\* remove_project_member and release_pending_assignments_on_member_delete.
RemoveMember(m) ==
  {<<Takes("update", Member(m))>>
     \o Each(Documents, LAMBDA d : Takes("update", Arbitration(d, m)))}

\* record_response_equivalences; a pair of an old answer is archived first.
RecordEquivalences(d, c) ==
  {<<Takes("update", DocumentKey(d)), Takes("update", Equivalences(d, c))>> \o Refers(d)
     \o <<Takes("keyShare", Human(d, c)), Takes("keyShare", Llm(d))>>}

RemoveEquivalence(d, c) ==
  {<<Takes("update", DocumentKey(d)), Takes("update", Equivalences(d, c))>> \o Refers(d)}

-----------------------------------------------------------------------------
\* Assignment of work, rounds and scope.

\* apply_lottery_assignments: a lottery of comparisons fires the trigger that
\* takes the key of each document; one of codings may start a round, whose
\* UPDATE of the responses fires the archive.
LotteryLocks == <<Takes("update", Project)>>
                  \o Each(Documents, LAMBDA d : Takes("update", Document(d)))

LotteryComparison ==
  {LotteryLocks \o Each(Documents, LAMBDA d : Takes("update", ComparisonKey(d)))}

StartRound ==
  {LotteryLocks
     \o InTurn(Documents, LAMBDA d :
          Each(Coders, LAMBDA c : Takes("noKeyUpdate", Human(d, c)))
            \o <<Takes("noKeyUpdate", Llm(d))>>)
     \o InTurn(Documents, LAMBDA d : ArchiveDependencies(d, Coders, TRUE))}

\* assign_comparison_if_eligible.
AssignComparison(d, m) ==
  {<<Takes("update", Member(m)), Takes("update", ComparisonKey(d))>> \o Refers(d)}

\* apply_schema_backfill writes the versions of the responses.
Backfill ==
  {<<Takes("update", Project)>>
     \o InTurn(Documents, LAMBDA d :
          Each(Coders, LAMBDA c : Takes("noKeyUpdate", Human(d, c)))
            \o <<Takes("noKeyUpdate", Llm(d))>>)}

\* An UPDATE of excluded_at, and resolve_exclusion_requests_on_exclude.
ExcludeDocument(d) ==
  {<<Takes("noKeyUpdate", Document(d)), Takes("noKeyUpdate", Comments(d))>>}

\* A decision on a request, and maintain_exclusion_pending.
DecideExclusion(d) ==
  {<<Takes("noKeyUpdate", Comments(d)), Takes("noKeyUpdate", Document(d))>>}

-----------------------------------------------------------------------------

Programs(k) ==
  LET ofDocument(P(_)) == UNION {P(d) : d \in Documents}
      ofCoder(P(_, _)) == UNION {P(d, c) : d \in Documents, c \in Coders}
      ofArbitrator(P(_, _)) == UNION {P(d, m) : d \in Documents, m \in Arbitrators}
      ofMember(P(_)) == UNION {P(m) : m \in Arbitrators}
  IN  CASE k = "save update" -> ofCoder(SaveUpdate)
        [] k = "save insert" -> ofCoder(SaveInsert)
        [] k = "publish" -> ofDocument(Publish)
        [] k = "reconcile" -> ofDocument(Reconcile)
        [] k = "enqueue project" -> EnqueueForProject
        [] k = "submit auto" -> ofCoder(SubmitAuto)
        [] k = "submit final" -> ofArbitrator(SubmitFinal)
        [] k = "assign arbitration" -> ofArbitrator(AssignArbitration)
        [] k = "withdraw permission" -> ofMember(WithdrawPermission)
        [] k = "remove member" -> ofMember(RemoveMember)
        [] k = "record equivalences" -> ofCoder(RecordEquivalences)
        [] k = "remove equivalence" -> ofCoder(RemoveEquivalence)
        [] k = "lottery" -> LotteryComparison
        [] k = "start round" -> StartRound
        [] k = "assign comparison" -> ofArbitrator(AssignComparison)
        [] k = "backfill" -> Backfill
        [] k = "exclude document" -> ofDocument(ExcludeDocument)
        [] k = "decide exclusion" -> ofDocument(DecideExclusion)

Transactions ==
  UNION {{[kind |-> k, requests |-> p] : p \in Programs(k)} : k \in Kinds}

Init ==
  /\ transaction \in [Sessions -> Transactions]
  /\ next = [s \in Sessions |-> 1]
  /\ held = [s \in Sessions |-> {}]

Running(s) == next[s] <= Len(transaction[s].requests)
Request(s) == transaction[s].requests[next[s]]

\* The sessions whose locks stop the request of a session.
Blockers(s) ==
  IF ~Running(s) THEN {}
  ELSE {t \in Sessions \ {s} :
          \E l \in held[t] : l.lock = Request(s).lock /\ l.mode \in Stops[Request(s).mode]}

Acquire(s) ==
  /\ Running(s) /\ Blockers(s) = {}
  /\ held' = [held EXCEPT ![s] = @ \cup {Request(s)}]
  /\ next' = [next EXCEPT ![s] = @ + 1]
  /\ UNCHANGED transaction

\* Mutant: the advisory keys belong to the connection, not to the transaction.
EndKeepsKeys(s) ==
  /\ held[s] # {}
  /\ held' = [held EXCEPT ![s] = {l \in @ : l.lock \in Keys}]
  /\ next' = [next EXCEPT ![s] = Len(transaction[s].requests) + 1]
  /\ UNCHANGED transaction

\* Commit, an early return or an exception.
End(s) ==
  /\ held[s] # {}
  /\ held' = [held EXCEPT ![s] = {}]
  /\ next' = [next EXCEPT ![s] = Len(transaction[s].requests) + 1]
  /\ UNCHANGED transaction

Next == \E s \in Sessions : Acquire(s) \/ End(s)

Spec == Init /\ [][Next]_vars

-----------------------------------------------------------------------------
\* Properties.

\* Every session of a cycle waits for another one of it.
IsCycle(D) == D # {} /\ \A s \in D : Blockers(s) \cap D # {}

NoCycle(kinds, locks) ==
  \A D \in SUBSET {s \in Sessions : transaction[s].kind \in kinds} :
    IsCycle(D) => \E s \in D : Request(s).lock \notin locks

\* Two transactions that wait for each other, by kind.
MayDeadlock ==
  LET with(k, kinds) == {{k, l} : l \in kinds} IN
  UNION {
    with("save update", {"save update", "save insert", "publish", "reconcile",
                         "submit auto", "submit final", "start round", "backfill"}),
    with("save insert", {"reconcile", "lottery"}),
    with("reconcile", {"publish", "enqueue project", "submit auto", "record equivalences",
                       "assign arbitration", "withdraw permission", "start round", "backfill"}),
    with("submit auto", {"publish", "assign arbitration", "withdraw permission", "start round"}),
    with("publish", {"submit final", "assign arbitration",
                     "record equivalences", "remove equivalence"}),
    with("start round", {"submit final", "assign arbitration", "enqueue project",
                         "record equivalences", "remove equivalence"}),
    with("lottery", {"assign comparison", "enqueue project"}),
    with("exclude document", {"decide exclusion"})}

\* The type invariant: a transaction holds what it has taken, until it ends and
\* holds nothing (every key of the code is of pg_advisory_xact_lock).
TypeOK ==
  \A s \in Sessions :
    LET requests == transaction[s].requests IN
    /\ transaction[s].kind \in Kinds
    /\ next[s] \in 1..(Len(requests) + 1)
    /\ held[s] \in {{}, {requests[i] : i \in 1..(next[s] - 1)}}

\* No two transactions wait for each other but those of the table, and no cycle
\* of more transactions has none of them.
DeadlocksAreKnown ==
  \A D \in SUBSET Sessions :
    IsCycle(D) => \E s, t \in D : s # t /\ {transaction[s].kind, transaction[t].kind} \in MayDeadlock

\* The final submission is the only one that takes two advisory keys, the
\* document's first, so that no wait cycle is possible between the keys of the
\* submissions, the assignments and the comparisons (20260724110000:228).
AdvisoryKeysAreOrdered == NoCycle(Kinds, Keys)

\* Publication, lottery, round and saves take the project before the document
\* (20260731120000:306).
ProjectBeforeDocument ==
  NoCycle({"publish", "save insert", "lottery", "start round"},
          {Project} \cup {Document(d) : d \in Documents})
=============================================================================
