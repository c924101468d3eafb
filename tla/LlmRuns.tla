-------------------------------- MODULE LlmRuns --------------------------------
(***************************************************************************)
(* The executions of the LLM over the documents of one project: the routes *)
(* that start, report and clean up a run, the background task that runs it *)
(* and the page that follows it.                                           *)
(*                                                                         *)
(* run_llm is a coroutine whose only await is the wake-up of the           *)
(* reconciler: every other call it makes is synchronous.  From its first   *)
(* query to that await, and from there to its end, it keeps the event loop *)
(* of its machine, and a request is served only while the loop is free.    *)
(* The state of a job in memory dies with the machine; the row of llm_runs *)
(* and the published responses do not.                                     *)
(***************************************************************************)
EXTENDS Naturals, FiniteSets

CONSTANTS
  Jobs, Documents, Codes, Machines, Pages,
  HashOf,                     \* the truncated sha256 of a code
  MaxConsecutiveFailures,     \* _MAX_CONSECUTIVE_PUBLISH_FAILURES
  MaxTickFailures,            \* MAX_TICK_FAILURES
  Scopes,                     \* the instances to check, see scope
  None

ASSUME LlmRunsAssumption ==
  /\ Machines # {} /\ Codes # {}
  /\ \A c1, c2 \in Codes : HashOf[c1] = HashOf[c2] => c1 = c2
  /\ {MaxConsecutiveFailures, MaxTickFailures} \subseteq Nat \ {0}
  /\ \A s \in Scopes :
       /\ s.jobs \subseteq Jobs /\ s.documents \subseteq Documents
       /\ s.modes \subseteq {"all", "pending", "random_sample"}
       /\ s.rounds \in Nat \ {0} /\ {s.revisions, s.faults} \subseteq Nat

Statuses == {"running", "completed", "error"}

\* The columns of projects that a run reads, and the response that is the latest.
Project == [round : Nat \ {0}, code : Codes, hash : {HashOf[c] : c \in Codes}]
Latest == [job : Jobs, round : Nat \ {0}]

ASSUME NoneAssumption ==
  None \notin Statuses \cup Jobs \cup Machines \cup Project \cup Latest

VARIABLES
  scope,      \* jobs, documents and modes, and bounds on rounds, revisions, faults
  serving,    \* the machine the proxy sends requests to
  memory,     \* _jobs of each machine: the status of each job
  task,       \* the background task of each job
  row,        \* its row of llm_runs: the status, None before the insert
  silent,     \* heartbeat_at of the row is older than ten minutes
  project,    \* the current round, pydantic_code and pydantic_hash
  latest,     \* the response of the LLM with is_latest, by document
  published,  \* documents with a response of each job
  page,       \* useLlmRunProgress in each open page
  revisions, faults

vars == <<scope, serving, memory, task, row, silent, project, latest, published, 
          page, revisions, faults>>

-----------------------------------------------------------------------------
\* The task of a job.

\* What run_llm has in its local variables.  on is the machine, held what it
\* read of the project, documents the selection, todo the rows still to publish.
NewTask(m, mode) ==
  [at |-> "start", on |-> m, mode |-> mode, held |-> None, documents |-> {},
   todo |-> {}, partial |-> {}, failed |-> {}, streak |-> 0]

NoTask == [NewTask(None, None) EXCEPT !.at = "none"]

\* Mutant: the rows are published in a thread.
SavesInAThread == {"select", "canary", "batch", "judge", "except"}

\* The steps between which run_llm awaits nothing.
Synchronous == {"select", "canary", "batch", "save", "judge", "except"}
Over == {"none", "done", "dead"}

LoopIsFree(m) == \A j \in Jobs : task[j].on = m => task[j].at \notin Synchronous

\* j runs its next step from place: it keeps the loop, or gets it.
Runs(j, place) ==
  /\ task[j].at = place
  /\ place \notin Synchronous => LoopIsFree(task[j].on)

Goes(j, place) == task' = [task EXCEPT ![j].at = place]

SetsMemory(j, status) == memory' = [memory EXCEPT ![task[j].on][j] = status]

\* _persist_run_progress renews the heartbeat.  It may not: a failure is only
\* logged, and two heartbeats are at least two seconds apart.
Heartbeat(j) == silent' \in {silent, [silent EXCEPT ![j] = FALSE]}

\* A remote call fails, or a machine does.
Faulty == faults < scope.faults /\ faults' = faults + 1

\* The last update of the row, whose failure is only logged.
Finishes(j, status) ==
  \/ row' = [row EXCEPT ![j] = status] /\ UNCHANGED faults
  \/ Faulty /\ UNCHANGED row

\* _filter_docs.
Selections(mode) ==
  CASE mode = "all" -> {scope.documents}
    [] mode = "pending" -> {{d \in scope.documents : latest[d] = None}}
    [] mode = "random_sample" -> (SUBSET scope.documents) \ {{}}

\* run_failure_threshold is 0.3 unless llm_kwargs says otherwise.
Compromised(j) ==
  /\ task[j].partial # {}
  /\ 10 * Cardinality(task[j].partial) >= 3 * Cardinality(task[j].documents)

PublishFailed(j) == task[j].failed # {}

-----------------------------------------------------------------------------
\* run_llm.

ReadProject(j) ==
  /\ Runs(j, "start")
  /\ task' = [task EXCEPT ![j].at = "select", ![j].held = project]
  /\ UNCHANGED <<scope, serving, memory, row, silent, project, latest, published, page,
                 revisions, faults>>

\* Selects the documents and writes the snapshot of the run.  A run with no
\* document is complete.
SelectDocuments(j) ==
  /\ Runs(j, "select")
  /\ \E docs \in Selections(task[j].mode) :
       /\ task' = [task EXCEPT ![j].documents = docs,
                               ![j].at = IF docs = {} THEN "done" ELSE "canary"]
       /\ IF docs = {}
          THEN SetsMemory(j, "completed") /\ Finishes(j, "completed")
          ELSE UNCHANGED <<memory, row, faults>>
  /\ UNCHANGED <<scope, serving, silent, project, latest, published, page, revisions>>

\* The first document alone.  Its error is that document's, or the provider
\* refuses every division of the schema and the run is over, nothing published
\* and no heartbeat tried.
Canary(j) ==
  /\ Runs(j, "canary")
  /\ \E d \in task[j].documents, outcome \in {"complete", "partial", "refused"} :
       /\ task' = [task EXCEPT
                  ![j].at = IF outcome = "refused" THEN "except" ELSE "batch",
                  ![j].todo = IF outcome = "refused" THEN {} ELSE {d},
                  ![j].partial = IF outcome = "partial" THEN {d} ELSE {}]
       /\ IF outcome = "refused" THEN UNCHANGED silent ELSE Heartbeat(j)
  /\ UNCHANGED <<scope, serving, memory, row, project, latest, published, page, revisions,
                 faults>>

\* The other documents, the provider's errors in the rows of the result.
Batch(j) ==
  /\ Runs(j, "batch")
  /\ \E bad \in SUBSET (task[j].documents \ task[j].todo) :
       task' = [task EXCEPT ![j].at = "save", ![j].todo = task[j].documents,
                            ![j].partial = @ \cup bad]
  /\ Heartbeat(j)
  /\ UNCHANGED <<scope, serving, memory, row, project, latest, published, page, revisions,
                 faults>>

\* Mutant: the round is not compared.
AnyRound(j) == TRUE

\* publish_latest_llm_response reads the round under a lock.
RoundIsCurrent(j) == project.round = task[j].held.round

\* publish_latest_llm_response demotes the latest response of the document,
\* whatever its round, and inserts the new one: latest unless it is partial.
Publish(j, d) ==
  /\ latest' = [latest EXCEPT ![d] =
       IF d \in task[j].partial THEN None
       ELSE [job |-> j, round |-> task[j].held.round]]
  /\ published' = [published EXCEPT ![j] = @ \cup {d}]

\* One row of _process_and_save_rows.
SaveRow(j) ==
  /\ Runs(j, "save")
  /\ \E d \in task[j].todo :
       IF RoundIsCurrent(j)
       THEN /\ Publish(j, d)
            /\ task' = [task EXCEPT ![j].todo = @ \ {d}, ![j].streak = 0]
       ELSE Goes(j, "except") /\ UNCHANGED <<latest, published>>
  /\ Heartbeat(j)
  /\ UNCHANGED <<scope, serving, memory, row, project, page, revisions, faults>>

\* The database refuses the row: the run goes on, up to a number in a row.
RefuseRow(j) ==
  /\ Runs(j, "save")
  /\ RoundIsCurrent(j)
  /\ Faulty
  /\ \E d \in task[j].todo :
       task' = [task EXCEPT
                  ![j].todo = @ \ {d}, ![j].failed = @ \cup {d},
                  ![j].streak = @ + 1,
                  ![j].at = IF task[j].streak + 1 >= MaxConsecutiveFailures
                            THEN "except" ELSE @]
  /\ Heartbeat(j)
  /\ UNCHANGED <<scope, serving, memory, row, project, latest, published, page, revisions>>

\* The call times out: the row may be written, the run is over.  The heartbeat
\* of a row precedes its call.
SaveTimesOut(j) ==
  /\ Runs(j, "save")
  /\ Faulty
  /\ \E d \in task[j].todo :
       \/ RoundIsCurrent(j) /\ Publish(j, d)
       \/ UNCHANGED <<latest, published>>
  /\ Goes(j, "except")
  /\ Heartbeat(j)
  /\ UNCHANGED <<scope, serving, memory, row, project, page, revisions>>

\* await wake_auto_review_reconciliation(): the loop is free.
Wake(j) ==
  /\ Runs(j, "save")
  /\ task[j].todo = {}
  /\ Goes(j, "wake")
  /\ UNCHANGED <<scope, serving, memory, row, silent, project, latest, published, page,
                 revisions, faults>>

\* The hash of the code that the run read, whatever the code is now.
HashAtTheEnd(j) == HashOf[task[j].held.code]

WriteHash(j) ==
  /\ Runs(j, "wake")
  /\ Goes(j, "judge")
  /\ project' = [project EXCEPT !.hash = HashAtTheEnd(j)]
  /\ UNCHANGED <<scope, serving, memory, row, silent, latest, published, page, revisions,
                 faults>>

\* Mutant: the failures to publish are only logged.
OnlyCompromised(j) == Compromised(j)

\* _raise_if_publish_failed and _raise_if_run_compromised.
Rejected(j) == PublishFailed(j) \/ Compromised(j)

Judge(j) ==
  /\ Runs(j, "judge")
  /\ IF Rejected(j)
     THEN Goes(j, "except") /\ UNCHANGED <<memory, row, faults>>
     ELSE /\ Goes(j, "done")
          /\ SetsMemory(j, "completed")
          /\ Finishes(j, "completed")
  /\ UNCHANGED <<scope, serving, silent, project, latest, published, page, revisions>>

\* The except of run_llm.
Except(j) ==
  /\ Runs(j, "except")
  /\ Goes(j, "done")
  /\ SetsMemory(j, "error")
  /\ Finishes(j, "error")
  /\ UNCHANGED <<scope, serving, silent, project, latest, published, page, revisions>>

\* Any other remote call of the try fails, in the batch after some heartbeats.
CallFails(j) ==
  /\ \E place \in {"start", "select", "canary", "batch", "wake"} : Runs(j, place)
  /\ Faulty
  /\ Goes(j, "except")
  /\ IF task[j].at = "batch" THEN Heartbeat(j) ELSE UNCHANGED silent
  /\ UNCHANGED <<scope, serving, memory, row, project, latest, published, page, revisions>>

TaskStep(j) ==
  \/ ReadProject(j) \/ SelectDocuments(j) \/ Canary(j) \/ Batch(j) \/ SaveRow(j)
  \/ RefuseRow(j) \/ SaveTimesOut(j) \/ Wake(j) \/ WriteHash(j) \/ Judge(j)
  \/ Except(j) \/ CallFails(j)

-----------------------------------------------------------------------------
\* The page.

Closed == [status |-> "idle", job |-> None, failures |-> 0, resume |-> "none"]

Starts(p, j) == [page[p] EXCEPT !.status = "running", !.job = j, !.failures = 0]

\* The uuid of the next run.
Unused == {j \in scope.jobs : row[j] = None}
Fresh == CHOOSE j \in Unused : TRUE

\* RunCard and the route /run.  The row precedes the answer and the task: when
\* the answer is lost the run goes on unseen.
Dispatch(p, j) ==
  /\ page[p].status # "running"
  /\ j \in Unused /\ j = Fresh
  /\ LoopIsFree(serving)
  /\ \E mode \in scope.modes : task' = [task EXCEPT ![j] = NewTask(serving, mode)]
  /\ memory' = [memory EXCEPT ![serving][j] = "running"]
  /\ row' = [row EXCEPT ![j] = "running"]
  /\ \/ page' = [page EXCEPT ![p] = Starts(p, j)] /\ UNCHANGED faults
     \/ Faulty /\ UNCHANGED page
  /\ UNCHANGED <<scope, serving, silent, project, latest, published, revisions>>

\* The page is opened or loaded again, and resumes what runs.
Mount(p) ==
  /\ page[p].resume = "none"
  /\ page' = [page EXCEPT ![p] = [Closed EXCEPT !.resume = "cleanup"]]
  /\ UNCHANGED <<scope, serving, memory, task, row, silent, project, latest, published,
                 revisions, faults>>

\* Mutant: the heartbeat must be both null and old.
NeverAbandoned(j) == FALSE

\* mark_stale_runs_as_error.
Abandoned(j) == row[j] = "running" /\ silent[j]

\* cleanupStaleLlmRuns and the route /cleanup-stale; its failure is ignored.
Cleanup(p) ==
  /\ page[p].resume = "cleanup"
  /\ LoopIsFree(serving)
  /\ row' = [j \in Jobs |-> IF Abandoned(j) THEN "error" ELSE row[j]]
  /\ page' = [page EXCEPT ![p].resume = "query"]
  /\ UNCHANGED <<scope, serving, memory, task, silent, project, latest, published,
                 revisions, faults>>

CleanupFails(p) ==
  /\ page[p].resume = "cleanup"
  /\ Faulty
  /\ page' = [page EXCEPT ![p].resume = "query"]
  /\ UNCHANGED <<scope, serving, memory, task, row, silent, project, latest, published,
                 revisions>>

\* getRunningLlmJob reads one of the runs with a recent heartbeat.
Resume(p) ==
  /\ page[p].resume = "query"
  /\ LET alive == {j \in Jobs : row[j] = "running" /\ ~silent[j]}
     IN \/ /\ alive = {}
           /\ page' = [page EXCEPT ![p].resume = "none"]
        \/ \E j \in alive :
             page' = [page EXCEPT ![p] = [Starts(p, j) EXCEPT !.resume = "none"]]
  /\ UNCHANGED <<scope, serving, memory, task, row, silent, project, latest, published,
                 revisions, faults>>

\* get_job_status: the memory of the machine that answers, or else the row.
Reported(j) == IF memory[serving][j] # None THEN memory[serving][j] ELSE row[j]

Poll(p) ==
  /\ page[p].status = "running"
  /\ LoopIsFree(serving)
  /\ page' = [page EXCEPT ![p].status = Reported(page[p].job), ![p].failures = 0]
  /\ UNCHANGED <<scope, serving, memory, task, row, silent, project, latest, published,
                 revisions, faults>>

\* The request fails, or the query of the row does ("Job not found").
PollFails(p) ==
  /\ page[p].status = "running"
  /\ Faulty
  /\ \/ page' = [page EXCEPT ![p].failures = @ + 1,
                   ![p].status = IF page[p].failures + 1 >= MaxTickFailures
                                 THEN "error" ELSE @]
     \/ /\ LoopIsFree(serving) /\ memory[serving][page[p].job] = None
        /\ page' = [page EXCEPT ![p].status = "error", ![p].failures = 0]
  /\ UNCHANGED <<scope, serving, memory, task, row, silent, project, latest, published,
                 revisions>>

-----------------------------------------------------------------------------
\* Around the run.

\* Ten minutes pass since the last heartbeat of a run: a call to a slow provider
\* is longer, its heartbeats fail, another run keeps the loop that it awaits, or
\* nobody renews it.
Age(j) ==
  /\ row[j] # None /\ ~silent[j]
  /\ silent' = [silent EXCEPT ![j] = TRUE]
  /\ UNCHANGED <<scope, serving, memory, task, row, project, latest, published, page,
                 revisions, faults>>

\* A machine is killed, and started again if it serves: the tasks and the memory
\* are gone.
Kill(m) ==
  /\ Faulty
  /\ \E j \in Jobs : task[j].on = m
  /\ memory' = [memory EXCEPT ![m] = [j \in Jobs |-> None]]
  /\ task' = [j \in Jobs |->
       IF task[j].on = m
       THEN [task[j] EXCEPT !.on = None,
                            !.at = IF @ \in Over THEN @ ELSE "dead"]
       ELSE task[j]]
  /\ UNCHANGED <<scope, serving, row, silent, project, latest, published, page, revisions>>

\* A bluegreen deploy: requests go to a new machine while the old one finishes.
Deploy(m) ==
  /\ Faulty
  /\ \A j \in Jobs : task[j].on # m
  /\ m # serving
  /\ serving' = m
  /\ UNCHANGED <<scope, memory, task, row, silent, project, latest, published, page,
                 revisions>>

\* commit_project_schema writes the code with its hash.
CommitSchema(code) ==
  /\ revisions < scope.revisions
  /\ code # project.code
  /\ project' = [project EXCEPT !.code = code, !.hash = HashOf[code]]
  /\ revisions' = revisions + 1
  /\ UNCHANGED <<scope, serving, memory, task, row, silent, latest, published, page, faults>>

\* start_project_round: the responses of the round stop being the latest.
NewRound ==
  /\ project.round < scope.rounds
  /\ project' = [project EXCEPT !.round = @ + 1]
  /\ latest' = [d \in Documents |->
       IF latest[d] # None /\ latest[d].round = project.round THEN None
       ELSE latest[d]]
  /\ UNCHANGED <<scope, serving, memory, task, row, silent, published, page, revisions,
                 faults>>

-----------------------------------------------------------------------------

Init ==
  /\ scope \in Scopes
  /\ serving = CHOOSE m \in Machines : TRUE
  /\ memory = [m \in Machines |-> [j \in Jobs |-> None]]
  /\ task = [j \in Jobs |-> NoTask]
  /\ row = [j \in Jobs |-> None]
  /\ silent = [j \in Jobs |-> FALSE]
  /\ LET c == CHOOSE c \in Codes : TRUE
     IN project = [round |-> 1, code |-> c, hash |-> HashOf[c]]
  /\ latest = [d \in Documents |-> None]
  /\ published = [j \in Jobs |-> {}]
  /\ page = [p \in Pages |-> Closed]
  /\ revisions = 0 /\ faults = 0

Next ==
  \/ \E j \in Jobs : TaskStep(j) \/ Age(j)
  \/ \E p \in Pages : \/ \E j \in Jobs : Dispatch(p, j)
                      \/ Mount(p) \/ Cleanup(p) \/ CleanupFails(p) \/ Resume(p)
                      \/ Poll(p) \/ PollFails(p)
  \/ \E m \in Machines : Kill(m) \/ Deploy(m)
  \/ \E c \in Codes : CommitSchema(c)
  \/ NewRound

\* A live task goes on, time passes, and a coordinator opens the page again and
\* again, whose requests are then served when the loop is free often enough.
Fairness ==
  /\ \A j \in Jobs : WF_vars(TaskStep(j)) /\ WF_vars(Age(j))
  /\ \A p \in Pages : WF_vars(Mount(p)) /\ SF_vars(Cleanup(p)) /\ WF_vars(Resume(p))

Spec == Init /\ [][Next]_vars /\ Fairness

-----------------------------------------------------------------------------
\* Properties.

Task ==
  [at : Synchronous \cup Over \cup {"start", "wake"}, on : Machines \cup {None},
   mode : {"all", "pending", "random_sample", None}, held : Project \cup {None},
   documents : SUBSET Documents, todo : SUBSET Documents, partial : SUBSET Documents,
   failed : SUBSET Documents, streak : Nat]
Page ==
  [status : Statuses \cup {"idle"}, job : Jobs \cup {None}, failures : Nat,
   resume : {"none", "cleanup", "query"}]

\* Every variable keeps its type, and a job without a row has no task.
TypeOK ==
  /\ scope \in Scopes /\ serving \in Machines
  /\ memory \in [Machines -> [Jobs -> Statuses \cup {None}]]
  /\ task \in [Jobs -> Task]
  /\ row \in [Jobs -> Statuses \cup {None}]
  /\ silent \in [Jobs -> BOOLEAN]
  /\ project \in Project /\ project.round <= scope.rounds
  /\ latest \in [Documents -> Latest \cup {None}]
  /\ published \in [Jobs -> SUBSET Documents]
  /\ page \in [Pages -> Page]
  /\ revisions \in Nat /\ faults \in Nat
  /\ \A j \in Jobs : row[j] = None <=> task[j].at = "none"

\* What is reported as completed has a response for every document it selected:
\* in the row, in the memory of a machine and on a page, whatever rows the
\* database refused and whichever machine answered.
CompletedRunsPublishedAll ==
  \A j \in Jobs :
    \/ row[j] = "completed"
    \/ \E m \in Machines : memory[m][j] = "completed"
    \/ \E p \in Pages : page[p].job = j /\ page[p].status = "completed"
    => published[j] = task[j].documents

\* The latest response of a document is of the current round, with runs that
\* started before the round and two runs that publish at the same time.
LatestBelongsToRound ==
  \A d \in Documents : latest[d] # None => latest[d].round = project.round

\* Every run ends: if its task dies or its last update fails, a page that is
\* opened again finds it without a heartbeat and marks it.
RunsEnd == \A j \in Jobs : row[j] = "running" ~> row[j] # "running"

\* The clean-up may mark a run that is alive and out of heartbeats, but on the
\* machine that serves it finds the run before its first publication or after its
\* last: the loop that answers it is the one the run keeps in between.  Only a run
\* left on the old machine of a deploy is called dead with documents still to come.
NoRunIsMarkedHalfway ==
  [][\A j \in Jobs :
       /\ row[j] = "running" /\ row'[j] = "error"
       /\ task[j].at \notin Over /\ task'[j] = task[j] /\ task[j].on = serving
       => published[j] = {} \/ task[j].todo = {}]_vars

\* "pydantic_hash é derivado do código e de nada mais" (commit_project_schema).
HashFollowsCode == project.hash = HashOf[project.code]

\* "10 minutos sem heartbeat = morta" (mark_stale_runs_as_error).
AbandonedRunsAreDead ==
  [][\A j \in Jobs :
       /\ row[j] = "running" /\ row'[j] = "error" /\ task'[j] = task[j]
       => task[j].at \in Over]_vars

\* "máximo uma run ativa por projeto" (getRunningLlmJob).
OneActiveRun ==
  \A j1, j2 \in Jobs :
    task[j1].at \notin Over /\ task[j2].at \notin Over => j1 = j2
===============================================================================
