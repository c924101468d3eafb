----------------------------- MODULE LlmRunsProofs -----------------------------
(***************************************************************************)
(* Theorems about LlmRuns, for every value of its constants.               *)
(*                                                                         *)
(* A run may only be called complete at its end, and by then a document it *)
(* selected has been published, is still to be published, or has failed.   *)
(***************************************************************************)
EXTENDS LlmRuns, TLAPS

\* j has been reported as completed, in the row, by a machine or on a page.
Reports(j) ==
  \/ row[j] = "completed"
  \/ \E m \in Machines : memory[m][j] = "completed"
  \/ \E p \in Pages : page[p].job = j /\ page[p].status = "completed"

\* The places before the first publication, and those where documents are accounted for.
Before == {"none", "start", "select", "canary", "batch"}
Saving == {"save", "wake", "judge"}

\* What a task c that has published docs keeps to.
Accounts(c, docs) ==
  /\ c.at \notin Over => c.on \in Machines
  /\ c.at \in {"select", "canary", "batch"} \cup Saving => c.held \in Project
  /\ c.todo \subseteq c.documents /\ docs \subseteq c.documents
  /\ c.at \in {"start", "select"} => c.mode \in {"all", "pending", "random_sample"}
  /\ c.at \in {"none", "start", "select"} => c.todo = {}
  /\ c.at \in Before => docs = {}
  /\ c.at \in Saving => c.documents \subseteq docs \cup c.todo \cup c.failed
  /\ c.at \in {"wake", "judge"} => c.todo = {}

TasksOK == \A j \in Jobs : Accounts(task[j], published[j])

CompletedOK ==
  \A j \in Jobs : Reports(j) => task[j].at = "done" /\ published[j] = task[j].documents

\* A page follows a run that has a row.
PagesOK ==
  \A p \in Pages : page[p].status # "idle" => page[p].job \in Jobs /\ row[page[p].job] # None

IInv == TypeOK /\ TasksOK /\ CompletedOK /\ PagesOK /\ LatestBelongsToRound

-----------------------------------------------------------------------------
\* The steps of a task.

\* What a task is, and where it runs.
LEMMA RunningTask ==
  ASSUME IInv, NEW j \in Jobs
  PROVE  /\ task[j] \in Task /\ Accounts(task[j], published[j])
         /\ task[j].at # "done" => ~Reports(j)
BY DEF IInv, TypeOK, TasksOK, CompletedOK

\* A heartbeat, renewed or not.
LEMMA HeartbeatType ==
  ASSUME IInv, NEW j \in Jobs, Heartbeat(j) \/ UNCHANGED silent
  PROVE  silent' \in [Jobs -> BOOLEAN]
BY DEF Heartbeat, IInv, TypeOK

\* A step that reports nothing.
LEMMA QuietStep ==
  ASSUME IInv, NEW j \in Jobs, NEW c \in Task, NEW docs \in SUBSET Documents,
         task[j].at \notin Over, task' = [task EXCEPT ![j] = c], c.at \notin {"none", "done"},
         published' = [published EXCEPT ![j] = docs], Accounts(c, docs),
         silent' \in [Jobs -> BOOLEAN],
         UNCHANGED <<scope, serving, memory, row, page, revisions>>, faults' \in Nat,
         project' \in Project, project'.round <= scope.rounds,
         latest' \in [Documents -> Latest \cup {None}], LatestBelongsToRound'
  PROVE  IInv'
<1>1. /\ \A k \in Jobs : task'[k] = IF k = j THEN c ELSE task[k]
      /\ \A k \in Jobs : published'[k] = IF k = j THEN docs ELSE published[k]
  BY DEF IInv, TypeOK
<1>2. task' \in [Jobs -> Task] /\ published' \in [Jobs -> SUBSET Documents]
  BY DEF IInv, TypeOK
<1>3. \A k \in Jobs : row[k] = None <=> task'[k].at = "none"
  BY <1>1 DEF IInv, TypeOK, Over
<1>4. TypeOK'  BY <1>2, <1>3 DEF IInv, TypeOK
<1>5. TasksOK'
  <2> SUFFICES ASSUME NEW k \in Jobs PROVE Accounts(task'[k], published'[k])
    BY DEF TasksOK, Accounts
  <2> QED  BY <1>1 DEF IInv, TasksOK
<1>6. CompletedOK'
  <2> SUFFICES ASSUME NEW k \in Jobs, Reports(k)
               PROVE  task'[k].at = "done" /\ published'[k] = task'[k].documents
    BY DEF CompletedOK, Reports
  <2>1. task[k].at = "done" /\ published[k] = task[k].documents  BY DEF IInv, CompletedOK
  <2>2. k # j  BY <2>1 DEF Over
  <2> QED  BY <1>1, <2>1, <2>2
<1>7. PagesOK'  BY DEF IInv, PagesOK
<1> QED  BY <1>4, <1>5, <1>6, <1>7 DEF IInv

\* A quiet step that publishes nothing and leaves the project alone.
LEMMA LocalStep ==
  ASSUME IInv, NEW j \in Jobs, NEW c \in Task,
         task[j].at \notin Over, task' = [task EXCEPT ![j] = c], c.at \notin {"none", "done"},
         Accounts(c, published[j]),
         silent' \in [Jobs -> BOOLEAN],
         UNCHANGED <<scope, serving, memory, row, page, revisions, project, latest, published>>,
         faults' \in Nat
  PROVE  IInv'
<1>1. published' = [published EXCEPT ![j] = published[j]] /\ published[j] \in SUBSET Documents
  BY DEF IInv, TypeOK
<1>2. /\ project' \in Project /\ project'.round <= scope.rounds
      /\ latest' \in [Documents -> Latest \cup {None}] /\ LatestBelongsToRound'
  BY DEF IInv, TypeOK, LatestBelongsToRound
<1> QED  BY <1>1, <1>2, QuietStep

\* The step that ends a run with a report.
LEMMA FinishStep ==
  ASSUME IInv, NEW j \in Jobs, NEW c \in Task, NEW status \in {"completed", "error"},
         task[j].at \notin Over, task' = [task EXCEPT ![j] = c], c.at = "done",
         c.todo \subseteq c.documents, published[j] \subseteq c.documents,
         status = "completed" => published[j] = c.documents,
         SetsMemory(j, status), Finishes(j, status),
         UNCHANGED <<scope, serving, silent, project, latest, published, page, revisions>>
  PROVE  IInv'
<1>1. task[j].on \in Machines  BY RunningTask DEF Accounts
<1> DEFINE m == task[j].on
           mine == [memory[m] EXCEPT ![j] = status]
<1>2. memory' = [memory EXCEPT ![m] = mine] /\ mine \in [Jobs -> Statuses \cup {None}]
  BY <1>1 DEF SetsMemory, IInv, TypeOK, Statuses
<1>3. /\ faults' \in Nat
      /\ \A k \in Jobs : k # j => row'[k] = row[k]
      /\ row'[j] = row[j] \/ row'[j] = status
      /\ row' \in [Jobs -> Statuses \cup {None}]
  BY DEF Finishes, Faulty, IInv, TypeOK, Statuses
<1>4. \A n \in Machines, k \in Jobs : k # j => memory'[n][k] = memory[n][k]
  BY <1>1 DEF SetsMemory, IInv, TypeOK
<1>5. \A n \in Machines : memory'[n][j] \in {memory[n][j], status}
  BY <1>1 DEF SetsMemory, IInv, TypeOK
<1> HIDE DEF mine, m
<1>6. \A k \in Jobs : task'[k] = IF k = j THEN c ELSE task[k]
  BY DEF IInv, TypeOK
<1>7. row[j] # None /\ row'[j] # None
  <2>1. row[j] # None  BY DEF IInv, TypeOK, Over
  <2> QED  BY <1>3, <2>1, NoneAssumption DEF Statuses
<1>8. TypeOK'
  <2>1. memory' \in [Machines -> [Jobs -> Statuses \cup {None}]] /\ task' \in [Jobs -> Task]
    BY <1>2 DEF IInv, TypeOK
  <2>2. \A k \in Jobs : row'[k] = None <=> task'[k].at = "none"
    BY <1>3, <1>6, <1>7 DEF IInv, TypeOK
  <2> QED  BY <1>3, <2>1, <2>2 DEF IInv, TypeOK
<1>9. TasksOK'
  <2> SUFFICES ASSUME NEW k \in Jobs PROVE Accounts(task'[k], published[k])
    BY DEF TasksOK, Accounts
  <2>1. CASE k = j  BY <1>6, <2>1 DEF Accounts, Over, Before, Saving
  <2>2. CASE k # j  BY <1>6, <2>2 DEF IInv, TasksOK
  <2> QED  BY <2>1, <2>2
<1>10. CompletedOK'
  <2> SUFFICES ASSUME NEW k \in Jobs, Reports(k)'
               PROVE  task'[k].at = "done" /\ published[k] = task'[k].documents
    BY DEF CompletedOK
  <2>1. CASE k = j
    <3>1. ~Reports(j)  BY RunningTask DEF Over
    <3>2. status = "completed"  BY <1>3, <1>5, <2>1, <3>1 DEF Reports
    <3> QED  BY <1>6, <2>1, <3>2
  <2>2. CASE k # j
    <3>1. Reports(k)  BY <1>3, <1>4, <2>2 DEF Reports
    <3> QED  BY <1>6, <2>2, <3>1 DEF IInv, CompletedOK
  <2> QED  BY <2>1, <2>2
<1>11. PagesOK'
  BY <1>3, <1>7 DEF IInv, PagesOK
<1>12. LatestBelongsToRound'  BY DEF IInv, LatestBelongsToRound
<1> QED  BY <1>8, <1>9, <1>10, <1>11, <1>12 DEF IInv

\* The run reads the project.
LEMMA ReadProjectStep ==
  ASSUME IInv, NEW j \in Jobs, ReadProject(j)
  PROVE  IInv'
<1> DEFINE c == [task[j] EXCEPT !.at = "select", !.held = project]
<1>1. task[j] \in Task /\ task[j].at = "start" /\ Accounts(task[j], published[j])
  BY RunningTask DEF ReadProject, Runs
<1>2. project \in Project  BY DEF IInv, TypeOK
<1>3. /\ c \in Task /\ c.at = "select" /\ c.held = project /\ c.on = task[j].on
      /\ c.documents = task[j].documents /\ c.todo = task[j].todo /\ c.failed = task[j].failed
      /\ c.mode = task[j].mode
  <2>1. c \in Task  BY <1>1, <1>2 DEF Task, Synchronous
  <2>2. c.at = "select" /\ c.held = project /\ c.on = task[j].on  BY <1>1 DEF Task
  <2>3. /\ c.documents = task[j].documents /\ c.todo = task[j].todo /\ c.failed = task[j].failed
        /\ c.mode = task[j].mode
    BY <1>1 DEF Task
  <2> QED  BY <2>1, <2>2, <2>3
<1>4. /\ task' = [task EXCEPT ![j] = c]
      /\ UNCHANGED <<scope, serving, memory, row, silent, page, revisions, project, latest,
                     published, faults>>
  BY DEF ReadProject
<1> HIDE DEF c
<1>5. Accounts(c, published[j])  BY <1>1, <1>2, <1>3 DEF Accounts, Over, Before, Saving
<1>6. faults' \in Nat /\ silent' \in [Jobs -> BOOLEAN]  BY <1>4 DEF IInv, TypeOK
<1> QED  BY <1>1, <1>2, <1>3, <1>4, <1>5, <1>6, LocalStep DEF Over

\* The documents are selected.
LEMMA SelectDocumentsStep ==
  ASSUME IInv, NEW j \in Jobs, SelectDocuments(j)
  PROVE  IInv'
<1>1. task[j] \in Task /\ task[j].at = "select" /\ Accounts(task[j], published[j])
  BY RunningTask DEF SelectDocuments, Runs
<1>2. PICK docs \in Selections(task[j].mode) :
        /\ task' = [task EXCEPT ![j].documents = docs,
                                ![j].at = IF docs = {} THEN "done" ELSE "canary"]
        /\ IF docs = {}
           THEN SetsMemory(j, "completed") /\ Finishes(j, "completed")
           ELSE UNCHANGED <<memory, row, faults>>
  BY DEF SelectDocuments
<1>3. docs \in SUBSET Documents
  <2>1. scope.documents \subseteq Documents  BY LlmRunsAssumption DEF IInv, TypeOK
  <2>2. task[j].mode = "all" => Selections(task[j].mode) = {scope.documents}
    BY DEF Selections
  <2>3. task[j].mode = "pending" =>
          Selections(task[j].mode) = {{d \in scope.documents : latest[d] = None}}
    BY DEF Selections
  <2>4. task[j].mode = "random_sample" =>
          Selections(task[j].mode) = (SUBSET scope.documents) \ {{}}
    BY DEF Selections
  <2>5. task[j].mode \in {"all", "pending", "random_sample"}
    BY <1>1 DEF Accounts
  <2> QED  BY <2>1, <2>2, <2>3, <2>4, <2>5
<1> DEFINE c == [task[j] EXCEPT !.documents = docs,
                                !.at = IF docs = {} THEN "done" ELSE "canary"]
<1>4. /\ c \in Task /\ c.at = IF docs = {} THEN "done" ELSE "canary"
      /\ c.documents = docs /\ c.held = task[j].held /\ c.on = task[j].on
      /\ c.todo = task[j].todo /\ c.failed = task[j].failed
  BY <1>1, <1>3 DEF Task, Over, Synchronous
<1>5. /\ task' = [task EXCEPT ![j] = c]
      /\ UNCHANGED <<scope, serving, silent, project, latest, published, page, revisions>>
  BY <1>2 DEF SelectDocuments
<1> HIDE DEF c
<1>6. published[j] = {} /\ c.todo = {}  BY <1>1, <1>4 DEF Accounts, Before
<1>7. CASE docs = {}
  BY <1>1, <1>2, <1>4, <1>5, <1>6, <1>7, FinishStep DEF Over
<1>8. CASE docs # {}
  <2>1. Accounts(c, published[j])
    BY <1>1, <1>4, <1>6, <1>8 DEF Accounts, Over, Before, Saving
  <2>2. faults' \in Nat /\ silent' \in [Jobs -> BOOLEAN] /\ UNCHANGED <<memory, row>>
    BY <1>2, <1>5, <1>8 DEF IInv, TypeOK
  <2> QED  BY <1>1, <1>4, <1>5, <1>8, <2>1, <2>2, LocalStep DEF Over
<1> QED  BY <1>7, <1>8

\* The first document.
LEMMA CanaryStep ==
  ASSUME IInv, NEW j \in Jobs, Canary(j)
  PROVE  IInv'
<1>1. task[j] \in Task /\ task[j].at = "canary" /\ Accounts(task[j], published[j])
  BY RunningTask DEF Canary, Runs
<1>2. PICK d \in task[j].documents : \E outcome \in {"complete", "partial", "refused"} :
        task' = [task EXCEPT
                  ![j].at = IF outcome = "refused" THEN "except" ELSE "batch",
                  ![j].todo = IF outcome = "refused" THEN {} ELSE {d},
                  ![j].partial = IF outcome = "partial" THEN {d} ELSE {}]
  BY DEF Canary
<1>3. PICK outcome \in {"complete", "partial", "refused"} :
        task' = [task EXCEPT
                  ![j].at = IF outcome = "refused" THEN "except" ELSE "batch",
                  ![j].todo = IF outcome = "refused" THEN {} ELSE {d},
                  ![j].partial = IF outcome = "partial" THEN {d} ELSE {}]
  BY <1>2
<1> DEFINE place == IF outcome = "refused" THEN "except" ELSE "batch"
           todo == IF outcome = "refused" THEN {} ELSE {d}
           partial == IF outcome = "partial" THEN {d} ELSE {}
           c == [task[j] EXCEPT !.at = place, !.todo = todo, !.partial = partial]
<1>4. d \in Documents /\ d \in task[j].documents  BY <1>1 DEF Task
<1>5. /\ place \in {"except", "batch"} /\ todo \subseteq task[j].documents
      /\ todo \subseteq Documents /\ partial \subseteq Documents
  BY <1>4
<1>6. /\ task' = [task EXCEPT ![j] = c]
      /\ UNCHANGED <<scope, serving, memory, row, page, revisions, project, latest, published,
                     faults>>
  BY <1>3 DEF Canary
<1> HIDE DEF place, todo, partial
<1>7. /\ c \in Task /\ c.at = place /\ c.todo = todo /\ c.on = task[j].on
      /\ c.held = task[j].held /\ c.documents = task[j].documents /\ c.failed = task[j].failed
  BY <1>1, <1>5 DEF Task, Over, Synchronous
<1> HIDE DEF c
<1>8. Accounts(c, published[j])
  BY <1>1, <1>5, <1>7 DEF Accounts, Over, Before, Saving
<1>9. faults' \in Nat  BY <1>6 DEF IInv, TypeOK
<1>10. silent' \in [Jobs -> BOOLEAN]  BY HeartbeatType DEF Canary
<1> QED  BY <1>1, <1>5, <1>6, <1>7, <1>8, <1>9, <1>10, LocalStep DEF Over

\* The other documents.
LEMMA BatchStep ==
  ASSUME IInv, NEW j \in Jobs, Batch(j)
  PROVE  IInv'
<1>1. task[j] \in Task /\ task[j].at = "batch" /\ Accounts(task[j], published[j])
  BY RunningTask DEF Batch, Runs
<1>2. PICK bad \in SUBSET (task[j].documents \ task[j].todo) :
        task' = [task EXCEPT ![j].at = "save", ![j].todo = task[j].documents,
                             ![j].partial = @ \cup bad]
  BY DEF Batch
<1> DEFINE c == [task[j] EXCEPT !.at = "save", !.todo = task[j].documents, !.partial = @ \cup bad]
<1>3. /\ task' = [task EXCEPT ![j] = c]
      /\ UNCHANGED <<scope, serving, memory, row, page, revisions, project, latest, published,
                     faults>>
  BY <1>2 DEF Batch, Heartbeat
<1>4. /\ c \in Task /\ c.at = "save" /\ c.todo = task[j].documents /\ c.on = task[j].on
      /\ c.held = task[j].held /\ c.documents = task[j].documents /\ c.failed = task[j].failed
  BY <1>1 DEF Task, Over, Synchronous
<1> HIDE DEF c
<1>5. Accounts(c, published[j])
  BY <1>1, <1>4 DEF Accounts, Over, Before, Saving
<1>6. faults' \in Nat /\ silent' \in [Jobs -> BOOLEAN]
  BY <1>3, HeartbeatType DEF Batch, IInv, TypeOK
<1> QED  BY <1>1, <1>3, <1>4, <1>5, <1>6, LocalStep DEF Over
\* What is published is of the current round.
LEMMA PublishLatest ==
  ASSUME IInv, NEW j \in Jobs, NEW d \in Documents, task[j].held \in Project,
         RoundIsCurrent(j), Publish(j, d), project' = project
  PROVE  /\ latest' \in [Documents -> Latest \cup {None}] /\ LatestBelongsToRound'
         /\ published' = [published EXCEPT ![j] = published[j] \cup {d}]
         /\ published[j] \cup {d} \in SUBSET Documents
<1> DEFINE new == IF d \in task[j].partial THEN None
                  ELSE [job |-> j, round |-> task[j].held.round]
<1>1. new \in Latest \cup {None} /\ (new # None => new.round = project.round)
  <2>1. task[j].held.round \in Nat \ {0}  BY DEF Project
  <2>2. task[j].held.round = project.round  BY DEF RoundIsCurrent
  <2> QED  BY <2>1, <2>2 DEF Latest
<1>2. latest' = [latest EXCEPT ![d] = new]  BY DEF Publish
<1> HIDE DEF new
<1>3. latest' \in [Documents -> Latest \cup {None}]  BY <1>1, <1>2 DEF IInv, TypeOK
<1>4. LatestBelongsToRound'
  BY <1>1, <1>2 DEF IInv, TypeOK, LatestBelongsToRound
<1>5. published[j] \cup {d} \in SUBSET Documents  BY DEF IInv, TypeOK
<1> QED  BY <1>3, <1>4, <1>5 DEF Publish

\* A row is published, or the round has changed.
LEMMA SaveRowStep ==
  ASSUME IInv, NEW j \in Jobs, SaveRow(j)
  PROVE  IInv'
<1>1. task[j] \in Task /\ task[j].at = "save" /\ Accounts(task[j], published[j])
  BY RunningTask DEF SaveRow, Runs
<1>2. PICK d \in task[j].todo :
        IF RoundIsCurrent(j)
        THEN /\ Publish(j, d)
             /\ task' = [task EXCEPT ![j].todo = @ \ {d}, ![j].streak = 0]
        ELSE Goes(j, "except") /\ UNCHANGED <<latest, published>>
  BY DEF SaveRow
<1>3. /\ silent' \in [Jobs -> BOOLEAN]
      /\ UNCHANGED <<scope, serving, memory, row, project, page, revisions, faults>>
  BY HeartbeatType DEF SaveRow
<1>4. /\ d \in Documents /\ d \in task[j].documents /\ task[j].held \in Project
      /\ faults' \in Nat
  BY <1>1, <1>3 DEF Task, Accounts, Saving, IInv, TypeOK
<1>5. project' \in Project /\ project'.round <= scope.rounds
  BY <1>3 DEF IInv, TypeOK
<1>6. CASE RoundIsCurrent(j)
  <2> DEFINE c == [task[j] EXCEPT !.todo = @ \ {d}, !.streak = 0]
  <2>1. c \in Task /\ c.at = "save" /\ c.todo = task[j].todo \ {d} /\ c.on = task[j].on
    BY <1>1 DEF Task
  <2>2. /\ c.held = task[j].held /\ c.documents = task[j].documents
        /\ c.failed = task[j].failed
    BY <1>1 DEF Task
  <2>3. task' = [task EXCEPT ![j] = c] /\ Publish(j, d)  BY <1>2, <1>6
  <2> HIDE DEF c
  <2>4. Accounts(c, published[j] \cup {d})
    BY <1>1, <1>4, <2>1, <2>2 DEF Accounts, Over, Before, Saving
  <2>5. /\ latest' \in [Documents -> Latest \cup {None}] /\ LatestBelongsToRound'
        /\ published' = [published EXCEPT ![j] = published[j] \cup {d}]
        /\ published[j] \cup {d} \in SUBSET Documents
    BY <1>3, <1>4, <1>6, <2>3, PublishLatest
  <2> QED  BY <1>1, <1>3, <1>4, <1>5, <2>1, <2>3, <2>4, <2>5, QuietStep DEF Over
<1>7. CASE ~RoundIsCurrent(j)
  <2> DEFINE c == [task[j] EXCEPT !.at = "except"]
  <2>1. c \in Task /\ c.at = "except" /\ c.todo = task[j].todo /\ c.on = task[j].on
    BY <1>1 DEF Task, Synchronous
  <2>2. /\ c.documents = task[j].documents /\ c.failed = task[j].failed
    BY <1>1 DEF Task
  <2>3. task' = [task EXCEPT ![j] = c] /\ UNCHANGED <<latest, published>>
    BY <1>2, <1>7 DEF Goes
  <2> HIDE DEF c
  <2>4. Accounts(c, published[j])
    BY <1>1, <2>1, <2>2 DEF Accounts, Over, Before, Saving
  <2> QED  BY <1>1, <1>3, <1>4, <2>1, <2>3, <2>4, LocalStep DEF Over
<1> QED  BY <1>6, <1>7
\* An exception leaves the task where its except runs.
LEMMA RaiseStep ==
  ASSUME IInv, NEW j \in Jobs, task[j].at \notin Over, Goes(j, "except"),
         UNCHANGED <<scope, serving, memory, row, page, revisions, project>>,
         faults' \in Nat, silent' \in [Jobs -> BOOLEAN],
         \/ UNCHANGED <<latest, published>>
         \/ /\ task[j].held \in Project /\ RoundIsCurrent(j)
            /\ \E d \in task[j].documents : Publish(j, d)
  PROVE  IInv'
<1>1. task[j] \in Task /\ Accounts(task[j], published[j])  BY RunningTask
<1> DEFINE c == [task[j] EXCEPT !.at = "except"]
<1>2. c \in Task /\ c.at = "except" /\ c.todo = task[j].todo /\ c.on = task[j].on
  BY <1>1 DEF Task, Synchronous
<1>3. c.documents = task[j].documents /\ c.failed = task[j].failed  BY <1>1 DEF Task
<1>4. task' = [task EXCEPT ![j] = c]  BY DEF Goes
<1> HIDE DEF c
<1>5. project' \in Project /\ project'.round <= scope.rounds  BY DEF IInv, TypeOK
<1>6. CASE UNCHANGED <<latest, published>>
  <2>1. Accounts(c, published[j])
    BY <1>1, <1>2, <1>3 DEF Accounts, Over, Before, Saving
  <2> QED  BY <1>2, <1>4, <1>6, <2>1, LocalStep
<1>7. CASE /\ task[j].held \in Project /\ RoundIsCurrent(j)
           /\ \E d \in task[j].documents : Publish(j, d)
  <2>1. PICK d \in task[j].documents : Publish(j, d)  BY <1>7
  <2>2. d \in Documents  BY <1>1 DEF Task
  <2>3. /\ latest' \in [Documents -> Latest \cup {None}] /\ LatestBelongsToRound'
        /\ published' = [published EXCEPT ![j] = published[j] \cup {d}]
        /\ published[j] \cup {d} \in SUBSET Documents
    BY <1>7, <2>1, <2>2, PublishLatest
  <2>4. Accounts(c, published[j] \cup {d})
    BY <1>1, <1>2, <1>3, <2>1 DEF Accounts, Over, Before, Saving
  <2> QED  BY <1>2, <1>4, <1>5, <2>3, <2>4, QuietStep
<1> QED  BY <1>6, <1>7

\* The database refuses a row.
LEMMA RefuseRowStep ==
  ASSUME IInv, NEW j \in Jobs, RefuseRow(j)
  PROVE  IInv'
<1>1. task[j] \in Task /\ task[j].at = "save" /\ Accounts(task[j], published[j])
  BY RunningTask DEF RefuseRow, Runs
<1>2. PICK d \in task[j].todo :
        task' = [task EXCEPT
                  ![j].todo = @ \ {d}, ![j].failed = @ \cup {d},
                  ![j].streak = @ + 1,
                  ![j].at = IF task[j].streak + 1 >= MaxConsecutiveFailures
                            THEN "except" ELSE @]
  BY DEF RefuseRow
<1> DEFINE place == IF task[j].streak + 1 >= MaxConsecutiveFailures THEN "except" ELSE "save"
           c == [task[j] EXCEPT !.todo = @ \ {d}, !.failed = @ \cup {d},
                                !.streak = @ + 1, !.at = place]
<1>3. /\ silent' \in [Jobs -> BOOLEAN] /\ faults' \in Nat
      /\ UNCHANGED <<scope, serving, memory, row, project, latest, published, page, revisions>>
  BY HeartbeatType DEF RefuseRow, Faulty, IInv, TypeOK
<1>4. place \in {"except", "save"} /\ d \in Documents  BY <1>1 DEF Task
<1>5. task' = [task EXCEPT ![j] = c]  BY <1>1, <1>2
<1> HIDE DEF place
<1>6. c \in Task
  <2>1. /\ task[j].todo \ {d} \in SUBSET Documents /\ task[j].streak + 1 \in Nat
        /\ task[j].failed \cup {d} \in SUBSET Documents
    BY <1>1, <1>4 DEF Task
  <2>2. place \in Synchronous  BY <1>4 DEF Synchronous
  <2> QED  BY <1>1, <2>1, <2>2 DEF Task
<1>7. /\ c.at = place /\ c.todo = task[j].todo \ {d} /\ c.on = task[j].on
      /\ c.failed = task[j].failed \cup {d}
  BY <1>1 DEF Task
<1>8. c.held = task[j].held /\ c.documents = task[j].documents  BY <1>1 DEF Task
<1> HIDE DEF c
<1>9. Accounts(c, published[j])
  BY <1>1, <1>4, <1>7, <1>8 DEF Accounts, Over, Before, Saving
<1> QED  BY <1>1, <1>3, <1>4, <1>5, <1>6, <1>7, <1>9, LocalStep DEF Over

\* The call that publishes times out.
LEMMA SaveTimesOutStep ==
  ASSUME IInv, NEW j \in Jobs, SaveTimesOut(j)
  PROVE  IInv'
<1>1. task[j] \in Task /\ task[j].at = "save" /\ Accounts(task[j], published[j])
  BY RunningTask DEF SaveTimesOut, Runs
<1>2. /\ Goes(j, "except") /\ faults' \in Nat /\ silent' \in [Jobs -> BOOLEAN]
      /\ UNCHANGED <<scope, serving, memory, row, project, page, revisions>>
  BY HeartbeatType DEF SaveTimesOut, Faulty, IInv, TypeOK
<1>3. task[j].held \in Project /\ task[j].todo \subseteq task[j].documents
  BY <1>1 DEF Accounts, Saving
<1>4. \/ UNCHANGED <<latest, published>>
      \/ RoundIsCurrent(j) /\ \E d \in task[j].documents : Publish(j, d)
  BY <1>3 DEF SaveTimesOut
<1> QED  BY <1>1, <1>2, <1>3, <1>4, RaiseStep DEF Over

\* Any other call fails.
LEMMA CallFailsStep ==
  ASSUME IInv, NEW j \in Jobs, CallFails(j)
  PROVE  IInv'
<1>1. task[j].at \notin Over  BY DEF CallFails, Runs, Over
<1>2. /\ Goes(j, "except") /\ faults' \in Nat /\ silent' \in [Jobs -> BOOLEAN]
      /\ UNCHANGED <<scope, serving, memory, row, project, page, revisions, latest, published>>
  BY HeartbeatType DEF CallFails, Faulty, IInv, TypeOK
<1> QED  BY <1>1, <1>2, RaiseStep

\* The run wakes the reconciler.
LEMMA WakeStep ==
  ASSUME IInv, NEW j \in Jobs, Wake(j)
  PROVE  IInv'
<1>1. task[j] \in Task /\ task[j].at = "save" /\ Accounts(task[j], published[j])
  BY RunningTask DEF Wake, Runs
<1> DEFINE c == [task[j] EXCEPT !.at = "wake"]
<1>2. c \in Task /\ c.at = "wake" /\ c.todo = task[j].todo /\ c.on = task[j].on
  BY <1>1 DEF Task
<1>3. c.held = task[j].held /\ c.documents = task[j].documents /\ c.failed = task[j].failed
  BY <1>1 DEF Task
<1>4. /\ task' = [task EXCEPT ![j] = c] /\ task[j].todo = {}
      /\ UNCHANGED <<scope, serving, memory, row, silent, project, latest, published, page,
                     revisions, faults>>
  BY DEF Wake, Goes
<1> HIDE DEF c
<1>5. Accounts(c, published[j])
  BY <1>1, <1>2, <1>3, <1>4 DEF Accounts, Over, Before, Saving
<1>6. faults' \in Nat /\ silent' \in [Jobs -> BOOLEAN]  BY <1>4 DEF IInv, TypeOK
<1> QED  BY <1>1, <1>2, <1>4, <1>5, <1>6, LocalStep DEF Over

\* The hash of the code the run read is written.
LEMMA WriteHashStep ==
  ASSUME IInv, NEW j \in Jobs, WriteHash(j)
  PROVE  IInv'
<1>1. task[j] \in Task /\ task[j].at = "wake" /\ Accounts(task[j], published[j])
  BY RunningTask DEF WriteHash, Runs
<1> DEFINE c == [task[j] EXCEPT !.at = "judge"]
<1>2. c \in Task /\ c.at = "judge" /\ c.todo = task[j].todo /\ c.on = task[j].on
  BY <1>1 DEF Task, Synchronous
<1>3. c.held = task[j].held /\ c.documents = task[j].documents /\ c.failed = task[j].failed
  BY <1>1 DEF Task
<1>4. /\ task' = [task EXCEPT ![j] = c]
      /\ project' = [project EXCEPT !.hash = HashAtTheEnd(j)]
      /\ UNCHANGED <<scope, serving, memory, row, silent, latest, published, page,
                     revisions, faults>>
  BY DEF WriteHash, Goes
<1> HIDE DEF c
<1>5. Accounts(c, published[j])
  BY <1>1, <1>2, <1>3 DEF Accounts, Over, Before, Saving
<1>6. faults' \in Nat /\ silent' \in [Jobs -> BOOLEAN]  BY <1>4 DEF IInv, TypeOK
<1>7. project' \in Project /\ project'.round = project.round
  <2>1. task[j].held.code \in Codes  BY <1>1 DEF Accounts, Saving, Project
  <2>2. project \in Project  BY DEF IInv, TypeOK
  <2> QED  BY <1>4, <2>1, <2>2 DEF Project, HashAtTheEnd
<1>8. /\ project'.round <= scope.rounds /\ LatestBelongsToRound'
      /\ latest' \in [Documents -> Latest \cup {None}]
  BY <1>4, <1>7 DEF IInv, TypeOK, LatestBelongsToRound
<1>9. published' = [published EXCEPT ![j] = published[j]] /\ published[j] \in SUBSET Documents
  BY <1>4 DEF IInv, TypeOK
<1> QED  BY <1>1, <1>2, <1>4, <1>5, <1>6, <1>7, <1>8, <1>9, QuietStep DEF Over

\* The run is complete when nothing failed: what it selected is published.
LEMMA JudgeStep ==
  ASSUME IInv, NEW j \in Jobs, Judge(j)
  PROVE  IInv'
<1>1. task[j] \in Task /\ task[j].at = "judge" /\ Accounts(task[j], published[j])
  BY RunningTask DEF Judge, Runs
<1>2. UNCHANGED <<scope, serving, silent, project, latest, published, page, revisions>>
  BY DEF Judge
<1>3. CASE Rejected(j)
  <2>1. Goes(j, "except") /\ UNCHANGED <<memory, row, faults>>  BY <1>3 DEF Judge
  <2>2. faults' \in Nat /\ silent' \in [Jobs -> BOOLEAN]  BY <1>2, <2>1 DEF IInv, TypeOK
  <2> QED  BY <1>1, <1>2, <2>1, <2>2, RaiseStep DEF Over
<1>4. CASE ~Rejected(j)
  <2> DEFINE c == [task[j] EXCEPT !.at = "done"]
  <2>1. c \in Task /\ c.at = "done" /\ c.todo = task[j].todo /\ c.documents = task[j].documents
    BY <1>1 DEF Task, Over
  <2>2. /\ task' = [task EXCEPT ![j] = c] /\ SetsMemory(j, "completed")
        /\ Finishes(j, "completed")
    BY <1>4 DEF Judge, Goes
  <2> HIDE DEF c
  <2>3. published[j] = c.documents /\ c.todo \subseteq c.documents
    BY <1>1, <1>4, <2>1 DEF Accounts, Saving, Rejected, PublishFailed
  <2> QED  BY <1>1, <1>2, <2>1, <2>2, <2>3, FinishStep DEF Over
<1> QED  BY <1>3, <1>4

\* The except of run_llm reports an error.
LEMMA ExceptStep ==
  ASSUME IInv, NEW j \in Jobs, Except(j)
  PROVE  IInv'
<1>1. task[j] \in Task /\ task[j].at = "except" /\ Accounts(task[j], published[j])
  BY RunningTask DEF Except, Runs
<1> DEFINE c == [task[j] EXCEPT !.at = "done"]
<1>2. c \in Task /\ c.at = "done" /\ c.todo = task[j].todo /\ c.documents = task[j].documents
  BY <1>1 DEF Task, Over
<1>3. /\ task' = [task EXCEPT ![j] = c] /\ SetsMemory(j, "error") /\ Finishes(j, "error")
      /\ UNCHANGED <<scope, serving, silent, project, latest, published, page, revisions>>
  BY DEF Except, Goes
<1> HIDE DEF c
<1>4. c.todo \subseteq c.documents /\ published[j] \subseteq c.documents
  BY <1>1, <1>2 DEF Accounts
<1> QED  BY <1>1, <1>2, <1>3, <1>4, FinishStep DEF Over

\* A step of a task preserves the invariant.
LEMMA TaskStepOK ==
  ASSUME IInv, NEW j \in Jobs, TaskStep(j)
  PROVE  IInv'
BY ReadProjectStep, SelectDocumentsStep, CanaryStep, BatchStep, SaveRowStep, RefuseRowStep,
   SaveTimesOutStep, WakeStep, WriteHashStep, JudgeStep, ExceptStep, CallFailsStep
   DEF TaskStep
-----------------------------------------------------------------------------
\* The steps of the pages, and around a run.

\* A page changes: it follows a run that has a row, and reports what is reported.
LEMMA PageStep ==
  ASSUME IInv, NEW p \in Pages, NEW v \in Page, page' = [page EXCEPT ![p] = v],
         v.status # "idle" => v.job \in Jobs /\ row[v.job] # None,
         v.status = "completed" => Reports(v.job),
         UNCHANGED <<scope, serving, memory, task, row, silent, project, latest, published,
                     revisions>>,
         faults' \in Nat
  PROVE  IInv'
<1>1. \A q \in Pages : page'[q] = IF q = p THEN v ELSE page[q]  BY DEF IInv, TypeOK
<1>2. TypeOK'  BY DEF IInv, TypeOK
<1>3. TasksOK'  BY DEF IInv, TasksOK, Accounts
<1>4. CompletedOK'
  <2> SUFFICES ASSUME NEW j \in Jobs, Reports(j)'
               PROVE  task[j].at = "done" /\ published[j] = task[j].documents
    BY DEF CompletedOK
  <2>1. Reports(j)  BY <1>1 DEF Reports
  <2> QED  BY <2>1 DEF IInv, CompletedOK
<1>5. PagesOK'  BY <1>1 DEF IInv, PagesOK
<1>6. LatestBelongsToRound'  BY DEF IInv, LatestBelongsToRound
<1> QED  BY <1>2, <1>3, <1>4, <1>5, <1>6 DEF IInv

\* The page is loaded.
LEMMA MountStep ==
  ASSUME IInv, NEW p \in Pages, Mount(p)
  PROVE  IInv'
<1> DEFINE v == [Closed EXCEPT !.resume = "cleanup"]
<1>1. v \in Page /\ v.status = "idle"  BY DEF Closed, Page
<1>2. page' = [page EXCEPT ![p] = v] /\ faults' \in Nat
  BY DEF Mount, IInv, TypeOK
<1>3. UNCHANGED <<scope, serving, memory, task, row, silent, project, latest, published,
                  revisions>>
  BY DEF Mount
<1> HIDE DEF v
<1> QED  BY <1>1, <1>2, <1>3, PageStep

\* The call to clean up fails.
LEMMA CleanupFailsStep ==
  ASSUME IInv, NEW p \in Pages, CleanupFails(p)
  PROVE  IInv'
<1> DEFINE v == [page[p] EXCEPT !.resume = "query"]
<1>1. page[p] \in Page  BY DEF IInv, TypeOK
<1>2. v \in Page /\ v.status = page[p].status /\ v.job = page[p].job  BY <1>1 DEF Page
<1>3. page' = [page EXCEPT ![p] = v] /\ faults' \in Nat
  BY DEF CleanupFails, Faulty, IInv, TypeOK
<1>4. UNCHANGED <<scope, serving, memory, task, row, silent, project, latest, published,
                  revisions>>
  BY DEF CleanupFails
<1> HIDE DEF v
<1>5. v.status # "idle" => v.job \in Jobs /\ row[v.job] # None
  BY <1>2 DEF IInv, PagesOK
<1>6. v.status = "completed" => Reports(v.job)
  BY <1>2 DEF Reports
<1> QED  BY <1>2, <1>3, <1>4, <1>5, <1>6, PageStep

\* The page follows a run that has a heartbeat, or none.
LEMMA ResumeStep ==
  ASSUME IInv, NEW p \in Pages, Resume(p)
  PROVE  IInv'
<1>1. page[p] \in Page  BY DEF IInv, TypeOK
<1>2. /\ faults' \in Nat
      /\ UNCHANGED <<scope, serving, memory, task, row, silent, project, latest, published,
                     revisions>>
  BY DEF Resume, IInv, TypeOK
<1>3. CASE page' = [page EXCEPT ![p].resume = "none"]
  <2> DEFINE v == [page[p] EXCEPT !.resume = "none"]
  <2>1. v \in Page /\ v.status = page[p].status /\ v.job = page[p].job  BY <1>1 DEF Page
  <2>2. page' = [page EXCEPT ![p] = v]  BY <1>3
  <2> HIDE DEF v
  <2>3. v.status # "idle" => v.job \in Jobs /\ row[v.job] # None
    BY <2>1 DEF IInv, PagesOK
  <2>4. v.status = "completed" => Reports(v.job)
    BY <2>1 DEF Reports
  <2> QED  BY <1>2, <2>1, <2>2, <2>3, <2>4, PageStep
<1>4. ASSUME NEW j \in Jobs, row[j] = "running",
             page' = [page EXCEPT ![p] = [Starts(p, j) EXCEPT !.resume = "none"]]
      PROVE  IInv'
  <2> DEFINE v == [Starts(p, j) EXCEPT !.resume = "none"]
  <2>1. v \in Page /\ v.status = "running" /\ v.job = j
    BY <1>1 DEF Page, Starts, Statuses
  <2>2. page' = [page EXCEPT ![p] = v]  BY <1>4
  <2> HIDE DEF v
  <2>3. row[j] # None  BY <1>4, NoneAssumption DEF Statuses
  <2> QED  BY <1>2, <2>1, <2>2, <2>3, PageStep
<1> QED  BY <1>3, <1>4 DEF Resume

\* The page receives what is reported of its run.
LEMMA PollStep ==
  ASSUME IInv, NEW p \in Pages, Poll(p)
  PROVE  IInv'
<1>1. page[p] \in Page /\ page[p].job \in Jobs /\ row[page[p].job] # None
  BY DEF Poll, IInv, TypeOK, PagesOK
<1> DEFINE job == page[p].job
           status == Reported(job)
           v == [page[p] EXCEPT !.status = status, !.failures = 0]
<1>2. status \in Statuses /\ (status = "completed" => Reports(job))
  <2>1. row[job] \in Statuses /\ memory[serving][job] \in Statuses \cup {None}
        /\ serving \in Machines
    BY <1>1 DEF IInv, TypeOK
  <2>2. CASE memory[serving][job] # None
    <3>1. status = memory[serving][job]  BY <2>2 DEF Reported
    <3> QED  BY <2>1, <2>2, <3>1 DEF Reports
  <2>3. CASE memory[serving][job] = None
    <3>1. status = row[job]  BY <2>3 DEF Reported
    <3> QED  BY <2>1, <3>1 DEF Reports
  <2> QED  BY <2>2, <2>3
<1>3. /\ page' = [page EXCEPT ![p] = v] /\ faults' \in Nat
      /\ UNCHANGED <<scope, serving, memory, task, row, silent, project, latest, published,
                     revisions>>
  BY DEF Poll, IInv, TypeOK
<1> HIDE DEF status
<1>4. v \in Page /\ v.status = status /\ v.job = job  BY <1>1, <1>2 DEF Page
<1> HIDE DEF v
<1> QED  BY <1>1, <1>2, <1>3, <1>4, PageStep

\* The page gives up after too many failures, or is told that there is no such job.
LEMMA PollFailsStep ==
  ASSUME IInv, NEW p \in Pages, PollFails(p)
  PROVE  IInv'
<1>1. /\ page[p] \in Page /\ page[p].job \in Jobs /\ row[page[p].job] # None
      /\ page[p].status = "running"
  BY DEF PollFails, IInv, TypeOK, PagesOK
<1>2. /\ faults' \in Nat
      /\ UNCHANGED <<scope, serving, memory, task, row, silent, project, latest, published,
                     revisions>>
  BY DEF PollFails, Faulty, IInv, TypeOK
<1>3. ASSUME NEW status \in {"running", "error"}, NEW n \in Nat,
             page' = [page EXCEPT ![p].failures = n, ![p].status = status]
      PROVE  IInv'
  <2> DEFINE v == [page[p] EXCEPT !.failures = n, !.status = status]
  <2>1. v \in Page /\ v.status = status /\ v.job = page[p].job  BY <1>1 DEF Page, Statuses
  <2>2. page' = [page EXCEPT ![p] = v]  BY <1>3
  <2> HIDE DEF v
  <2> QED  BY <1>1, <1>2, <2>1, <2>2, PageStep
<1>4. CASE page' = [page EXCEPT ![p].failures = @ + 1,
                      ![p].status = IF page[p].failures + 1 >= MaxTickFailures
                                    THEN "error" ELSE @]
  <2> DEFINE n == page[p].failures + 1
             status == IF n >= MaxTickFailures THEN "error" ELSE "running"
  <2>1. n \in Nat /\ status \in {"running", "error"}  BY <1>1 DEF Page
  <2>2. page' = [page EXCEPT ![p].failures = n, ![p].status = status]  BY <1>1, <1>4
  <2> QED  BY <1>3, <2>1, <2>2
<1>5. CASE page' = [page EXCEPT ![p].status = "error", ![p].failures = 0]
  <2>1. page' = [page EXCEPT ![p].failures = 0, ![p].status = "error"]  BY <1>5
  <2> QED  BY <1>3, <2>1
<1> QED  BY <1>4, <1>5 DEF PollFails
\* Marking runs as failed reports none of them as completed.
LEMMA CleanupStep ==
  ASSUME IInv, NEW p \in Pages, Cleanup(p)
  PROVE  IInv'
<1>1. /\ \A j \in Jobs : row'[j] = IF Abandoned(j) THEN "error" ELSE row[j]
      /\ row' \in [Jobs -> Statuses \cup {None}]
  BY DEF Cleanup, IInv, TypeOK, Statuses
<1>2. /\ \A j \in Jobs : row'[j] = "completed" => row[j] = "completed"
      /\ \A j \in Jobs : row'[j] = None <=> row[j] = None
  BY <1>1, NoneAssumption DEF Abandoned, Statuses
<1>3. /\ page' = [page EXCEPT ![p].resume = "query"] /\ page[p] \in Page
      /\ UNCHANGED <<scope, serving, memory, task, silent, project, latest, published,
                     revisions, faults>>
  BY DEF Cleanup, IInv, TypeOK
<1>4. /\ page' \in [Pages -> Page]
      /\ \A q \in Pages : page'[q].status = page[q].status /\ page'[q].job = page[q].job
  BY <1>3 DEF IInv, TypeOK, Page
<1>5. TypeOK'  BY <1>1, <1>2, <1>3, <1>4 DEF IInv, TypeOK
<1>6. TasksOK'  BY <1>3 DEF IInv, TasksOK, Accounts
<1>7. CompletedOK'
  <2> SUFFICES ASSUME NEW j \in Jobs, Reports(j)'
               PROVE  task[j].at = "done" /\ published[j] = task[j].documents
    BY <1>3 DEF CompletedOK
  <2>1. Reports(j)  BY <1>2, <1>3, <1>4 DEF Reports
  <2> QED  BY <2>1 DEF IInv, CompletedOK
<1>8. PagesOK'  BY <1>2, <1>4 DEF IInv, PagesOK
<1>9. LatestBelongsToRound'  BY <1>3 DEF IInv, LatestBelongsToRound
<1> QED  BY <1>5, <1>6, <1>7, <1>8, <1>9 DEF IInv

\* A run starts, seen by the page or not.
LEMMA DispatchStep ==
  ASSUME IInv, NEW p \in Pages, NEW j \in Jobs, Dispatch(p, j)
  PROVE  IInv'
<1>1. /\ row[j] = None /\ task[j].at = "none" /\ Accounts(task[j], published[j])
      /\ ~Reports(j)
  BY RunningTask DEF Dispatch, Unused, IInv, TypeOK
<1>2. serving \in Machines /\ page[p] \in Page /\ scope \in Scopes  BY DEF IInv, TypeOK
<1>3. PICK mode \in scope.modes : task' = [task EXCEPT ![j] = NewTask(serving, mode)]
  BY DEF Dispatch
<1>4. mode \in {"all", "pending", "random_sample"}  BY <1>2, LlmRunsAssumption
<1> DEFINE c == NewTask(serving, mode)
           mine == [memory[serving] EXCEPT ![j] = "running"]
<1>5. /\ c \in Task /\ c.at = "start" /\ c.on = serving /\ c.mode = mode
      /\ c.documents = {} /\ c.todo = {}
  BY <1>2, <1>4 DEF NewTask, Task
<1>6. mine \in [Jobs -> Statuses \cup {None}]  BY <1>2 DEF IInv, TypeOK, Statuses
<1>7. /\ task' = [task EXCEPT ![j] = c] /\ memory' = [memory EXCEPT ![serving] = mine]
      /\ row' = [row EXCEPT ![j] = "running"]
      /\ UNCHANGED <<scope, serving, silent, project, latest, published, revisions>>
  BY <1>3 DEF Dispatch
<1>8. /\ faults' \in Nat
      /\ page' = [page EXCEPT ![p] = Starts(p, j)] \/ page' = page
  BY DEF Dispatch, Faulty, IInv, TypeOK
<1>9. /\ \A k \in Jobs : k # j => row'[k] = row[k] /\ task'[k] = task[k]
      /\ row'[j] = "running" /\ task'[j] = c
      /\ row' \in [Jobs -> Statuses \cup {None}] /\ task' \in [Jobs -> Task]
  <2> HIDE DEF c, mine
  <2> QED  BY <1>5, <1>7 DEF IInv, TypeOK, Statuses
<1>10. /\ \A n \in Machines, k \in Jobs : k # j => memory'[n][k] = memory[n][k]
       /\ \A n \in Machines : memory'[n][j] \in {memory[n][j], "running"}
  BY <1>2, <1>7 DEF IInv, TypeOK
<1>11. memory' \in [Machines -> [Jobs -> Statuses \cup {None}]]
  <2> HIDE DEF mine
  <2> QED  BY <1>2, <1>6, <1>7 DEF IInv, TypeOK
<1>12. /\ page' \in [Pages -> Page]
       /\ \A q \in Pages : page'[q] = page[q] \/ (page'[q].status = "running" /\ page'[q].job = j)
  <2> DEFINE v == Starts(p, j)
  <2>1. v \in Page /\ v.status = "running" /\ v.job = j  BY <1>2 DEF Starts, Page, Statuses
  <2> HIDE DEF v
  <2>2. CASE page' = [page EXCEPT ![p] = v]  BY <2>1, <2>2 DEF IInv, TypeOK
  <2>3. CASE page' = page  BY <2>3 DEF IInv, TypeOK
  <2> QED  BY <1>8, <2>2, <2>3 DEF v
<1> HIDE DEF c, mine
<1>13. row'[j] # None  BY <1>9, NoneAssumption DEF Statuses
<1>14. TypeOK'
  <2>1. \A k \in Jobs : row'[k] = None <=> task'[k].at = "none"
    BY <1>5, <1>9, <1>13 DEF IInv, TypeOK
  <2> QED  BY <1>7, <1>8, <1>9, <1>11, <1>12, <2>1 DEF IInv, TypeOK
<1>15. TasksOK'
  <2> SUFFICES ASSUME NEW k \in Jobs PROVE Accounts(task'[k], published[k])
    BY <1>7 DEF TasksOK, Accounts
  <2>1. CASE k = j
    <3>1. published[j] = {}  BY <1>1 DEF Accounts, Before
    <3> QED  BY <1>2, <1>4, <1>5, <1>9, <2>1, <3>1 DEF Accounts, Over, Before, Saving
  <2>2. CASE k # j  BY <1>9, <2>2 DEF IInv, TasksOK
  <2> QED  BY <2>1, <2>2
<1>16. CompletedOK'
  <2> SUFFICES ASSUME NEW k \in Jobs, Reports(k)'
               PROVE  task'[k].at = "done" /\ published[k] = task'[k].documents
    BY <1>7 DEF CompletedOK
  <2>1. Reports(k)  BY <1>9, <1>10, <1>12 DEF Reports
  <2>2. k # j  BY <1>1, <2>1
  <2> QED  BY <1>9, <2>1, <2>2 DEF IInv, CompletedOK
<1>17. PagesOK'  BY <1>9, <1>12, <1>13 DEF IInv, PagesOK
<1>18. LatestBelongsToRound'  BY <1>7 DEF IInv, LatestBelongsToRound
<1> QED  BY <1>14, <1>15, <1>16, <1>17, <1>18 DEF IInv

\* A run goes ten minutes without a heartbeat.
LEMMA AgeStep ==
  ASSUME IInv, NEW j \in Jobs, Age(j)
  PROVE  IInv'
<1>1. /\ silent' = [silent EXCEPT ![j] = TRUE] /\ row[j] # None
      /\ UNCHANGED <<scope, serving, memory, task, row, project, latest, published, page,
                     revisions, faults>>
  BY DEF Age
<1>2. TypeOK'  BY <1>1 DEF IInv, TypeOK
<1>3. TasksOK'  BY <1>1 DEF IInv, TasksOK, Accounts
<1>4. CompletedOK'  BY <1>1 DEF IInv, CompletedOK, Reports
<1>5. PagesOK'  BY <1>1 DEF IInv, PagesOK
<1>6. LatestBelongsToRound'  BY <1>1 DEF IInv, LatestBelongsToRound
<1> QED  BY <1>2, <1>3, <1>4, <1>5, <1>6 DEF IInv

\* A machine dies with its tasks and its memory.
LEMMA KillStep ==
  ASSUME IInv, NEW m \in Machines, Kill(m)
  PROVE  IInv'
<1>1. /\ faults' \in Nat
      /\ UNCHANGED <<scope, serving, row, silent, project, latest, published, page, revisions>>
      /\ memory' = [memory EXCEPT ![m] = [j \in Jobs |-> None]]
  <2>1. Faulty  BY DEF Kill
  <2>2. faults' \in Nat  BY <2>1 DEF Faulty, IInv, TypeOK
  <2> QED  BY <2>2 DEF Kill
<1>2. \A j \in Jobs :
        \/ task'[j] = task[j] /\ (task[j].on = m => FALSE)
        \/ task'[j] = [task[j] EXCEPT !.on = None,
                                      !.at = IF @ \in Over THEN @ ELSE "dead"]
  BY DEF Kill
<1>3. \A j \in Jobs :
        /\ task'[j] \in Task
        /\ task'[j].at = task[j].at \/ (task[j].at \notin Over /\ task'[j].at = "dead")
        /\ task'[j].documents = task[j].documents /\ task'[j].todo = task[j].todo
        /\ task'[j].at \notin Over => task'[j] = task[j]
  <2> SUFFICES ASSUME NEW j \in Jobs
               PROVE  /\ task'[j] \in Task
                      /\ \/ task'[j].at = task[j].at
                         \/ task[j].at \notin Over /\ task'[j].at = "dead"
                      /\ task'[j].documents = task[j].documents
                      /\ task'[j].todo = task[j].todo
                      /\ task'[j].at \notin Over => task'[j] = task[j]
    OBVIOUS
  <2>1. task[j] \in Task  BY DEF IInv, TypeOK
  <2>2. CASE task'[j] = task[j]  BY <2>1, <2>2
  <2>3. CASE task'[j] = [task[j] EXCEPT !.on = None,
                                        !.at = IF @ \in Over THEN @ ELSE "dead"]
    <3>1. task'[j] \in Task  BY <2>1, <2>3 DEF Task, Over
    <3>2. task'[j].at = IF task[j].at \in Over THEN task[j].at ELSE "dead"
      BY <2>1, <2>3 DEF Task
    <3>3. task'[j].documents = task[j].documents /\ task'[j].todo = task[j].todo
      BY <2>1, <2>3 DEF Task
    <3> QED  BY <3>1, <3>2, <3>3 DEF Over
  <2> QED  BY <1>2, <2>2, <2>3
<1>4. TypeOK'
  <2>1. \A j \in Jobs : row[j] = None <=> task'[j].at = "none"
    BY <1>3 DEF IInv, TypeOK, Over
  <2>2. memory' \in [Machines -> [Jobs -> Statuses \cup {None}]]
    BY <1>1 DEF IInv, TypeOK
  <2>3. task' \in [Jobs -> Task]
    <3>1. task' = [j \in Jobs |-> task'[j]]  BY DEF Kill
    <3> QED  BY <1>3, <3>1
  <2> QED  BY <1>1, <2>1, <2>2, <2>3 DEF IInv, TypeOK
<1>5. TasksOK'
  <2> SUFFICES ASSUME NEW j \in Jobs PROVE Accounts(task'[j], published[j])
    BY <1>1 DEF TasksOK, Accounts
  <2>1. Accounts(task[j], published[j])  BY DEF IInv, TasksOK
  <2>2. CASE task'[j].at \notin Over  BY <1>3, <2>1, <2>2
  <2>3. CASE task'[j].at \in Over
    BY <1>3, <2>1, <2>3 DEF Accounts, Over, Before, Saving
  <2> QED  BY <2>2, <2>3
<1>6. CompletedOK'
  <2> SUFFICES ASSUME NEW j \in Jobs, Reports(j)'
               PROVE  task'[j].at = "done" /\ published[j] = task'[j].documents
    BY <1>1 DEF CompletedOK
  <2>1. \A n \in Machines : memory'[n][j] = "completed" => memory[n][j] = "completed"
    BY <1>1, NoneAssumption DEF IInv, TypeOK, Statuses
  <2>2. Reports(j)  BY <1>1, <2>1 DEF Reports
  <2>3. task[j].at = "done" /\ published[j] = task[j].documents
    BY <2>2 DEF IInv, CompletedOK
  <2> QED  BY <1>3, <2>3 DEF Over
<1>7. PagesOK'  BY <1>1 DEF IInv, PagesOK
<1>8. LatestBelongsToRound'  BY <1>1 DEF IInv, LatestBelongsToRound
<1> QED  BY <1>4, <1>5, <1>6, <1>7, <1>8 DEF IInv

\* Requests go to another machine, or the schema or the round of the project changes.
LEMMA ProjectStep ==
  ASSUME IInv,
         UNCHANGED <<scope, memory, task, row, silent, published, page>>,
         serving' \in Machines, revisions' \in Nat, faults' \in Nat,
         project' \in Project, project'.round <= scope.rounds,
         latest' \in [Documents -> Latest \cup {None}], LatestBelongsToRound'
  PROVE  IInv'
<1>1. TypeOK'  BY DEF IInv, TypeOK
<1>2. TasksOK'  BY DEF IInv, TasksOK, Accounts
<1>3. CompletedOK'  BY DEF IInv, CompletedOK, Reports
<1>4. PagesOK'  BY DEF IInv, PagesOK
<1> QED  BY <1>1, <1>2, <1>3, <1>4 DEF IInv

\* A deploy.
LEMMA DeployStep ==
  ASSUME IInv, NEW m \in Machines, Deploy(m)
  PROVE  IInv'
<1>1. /\ serving' \in Machines /\ revisions' \in Nat /\ faults' \in Nat
      /\ UNCHANGED <<scope, memory, task, row, silent, project, latest, published, page>>
  BY DEF Deploy, Faulty, IInv, TypeOK
<1>2. /\ project' \in Project /\ project'.round <= scope.rounds
      /\ latest' \in [Documents -> Latest \cup {None}] /\ LatestBelongsToRound'
  BY <1>1 DEF IInv, TypeOK, LatestBelongsToRound
<1> QED  BY <1>1, <1>2, ProjectStep

\* A schema is committed.
LEMMA CommitSchemaStep ==
  ASSUME IInv, NEW code \in Codes, CommitSchema(code)
  PROVE  IInv'
<1>1. /\ serving' \in Machines /\ revisions' \in Nat /\ faults' \in Nat
      /\ UNCHANGED <<scope, memory, task, row, silent, latest, published, page>>
  BY DEF CommitSchema, IInv, TypeOK
<1>2. project' \in Project /\ project'.round = project.round
  BY DEF CommitSchema, IInv, TypeOK, Project
<1>3. /\ project'.round <= scope.rounds
      /\ latest' \in [Documents -> Latest \cup {None}] /\ LatestBelongsToRound'
  BY <1>1, <1>2 DEF IInv, TypeOK, LatestBelongsToRound
<1> QED  BY <1>1, <1>2, <1>3, ProjectStep

\* A round starts: no response of the old one stays the latest.
LEMMA NewRoundStep ==
  ASSUME IInv, NewRound
  PROVE  IInv'
<1>1. /\ serving' \in Machines /\ revisions' \in Nat /\ faults' \in Nat
      /\ UNCHANGED <<scope, memory, task, row, silent, published, page>>
  BY DEF NewRound, IInv, TypeOK
<1>2. project \in Project /\ project.round < scope.rounds /\ scope.rounds \in Nat
  BY LlmRunsAssumption DEF NewRound, IInv, TypeOK
<1>3. project' \in Project /\ project'.round <= scope.rounds
  <2>1. project.round + 1 \in Nat \ {0} /\ project.round + 1 <= scope.rounds
    BY <1>2 DEF Project
  <2>2. project' = [project EXCEPT !.round = @ + 1]  BY DEF NewRound
  <2> QED  BY <1>2, <2>1, <2>2 DEF Project
<1>4. \A d \in Documents : latest'[d] = None
  BY DEF NewRound, IInv, LatestBelongsToRound
<1>5. latest' \in [Documents -> Latest \cup {None}] /\ LatestBelongsToRound'
  <2>1. latest' = [d \in Documents |-> latest'[d]]  BY DEF NewRound
  <2> QED  BY <1>4, <2>1 DEF LatestBelongsToRound
<1> QED  BY <1>1, <1>3, <1>5, ProjectStep

-----------------------------------------------------------------------------
\* Theorems.

\* Before anything runs.
LEMMA InitOK == Init => IInv
<1> SUFFICES ASSUME Init PROVE IInv
  OBVIOUS
<1>1. /\ serving \in Machines /\ scope \in Scopes /\ scope.rounds \in Nat \ {0}
      /\ memory \in [Machines -> [Jobs -> Statuses \cup {None}]]
      /\ row \in [Jobs -> Statuses \cup {None}] /\ silent \in [Jobs -> BOOLEAN]
      /\ latest \in [Documents -> Latest \cup {None}]
      /\ published \in [Jobs -> SUBSET Documents] /\ revisions \in Nat /\ faults \in Nat
  BY LlmRunsAssumption DEF Init
<1>2. project \in Project /\ project.round = 1
  <2> DEFINE c == CHOOSE c \in Codes : TRUE
  <2>1. c \in Codes  BY LlmRunsAssumption
  <2>2. project = [round |-> 1, code |-> c, hash |-> HashOf[c]]  BY DEF Init
  <2> HIDE DEF c
  <2> QED  BY <2>1, <2>2 DEF Project
<1>3. NoTask \in Task /\ NoTask.at = "none" /\ NoTask.todo = {} /\ NoTask.documents = {}
  BY DEF NoTask, NewTask, Task, Over
<1>4. /\ task \in [Jobs -> Task]
      /\ \A j \in Jobs : task[j] = NoTask /\ row[j] = None /\ published[j] = {}
  BY <1>3 DEF Init
<1>5. page \in [Pages -> Page] /\ \A p \in Pages : page[p].status = "idle"
  BY DEF Init, Closed, Page
<1>6. TypeOK  BY <1>1, <1>2, <1>3, <1>4, <1>5 DEF TypeOK
<1>7. TasksOK  BY <1>3, <1>4 DEF TasksOK, Accounts, Over, Before, Saving
<1>8. CompletedOK
  <2>1. \A j \in Jobs : ~Reports(j)
    BY <1>4, <1>5, NoneAssumption DEF Init, Reports, Statuses
  <2> QED  BY <2>1 DEF CompletedOK
<1>9. PagesOK  BY <1>5 DEF PagesOK
<1>10. LatestBelongsToRound  BY DEF Init, LatestBelongsToRound
<1> QED  BY <1>6, <1>7, <1>8, <1>9, <1>10 DEF IInv

\* A stuttering step.
LEMMA StutterOK ==
  ASSUME IInv, UNCHANGED vars
  PROVE  IInv'
BY DEF IInv, vars, TypeOK, TasksOK, Accounts, CompletedOK, Reports, PagesOK,
       LatestBelongsToRound

\* Every step.
LEMMA NextOK == IInv /\ [Next]_vars => IInv'
<1> SUFFICES ASSUME IInv, [Next]_vars PROVE IInv'
  OBVIOUS
<1> QED
  BY TaskStepOK, AgeStep, DispatchStep, MountStep, CleanupStep, CleanupFailsStep, ResumeStep,
     PollStep, PollFailsStep, KillStep, DeployStep, CommitSchemaStep, NewRoundStep, StutterOK
     DEF Next

\* The inductive invariant.
THEOREM Invariance == Spec => []IInv
BY InitOK, NextOK, PTL DEF Spec

\* Every variable keeps its type.
THEOREM TypeCorrect == Spec => []TypeOK
BY Invariance, PTL DEF IInv

\* What is reported as completed published every document it selected.
THEOREM CompletedIsPublished == Spec => []CompletedRunsPublishedAll
<1>1. IInv => CompletedRunsPublishedAll
  BY DEF IInv, CompletedOK, CompletedRunsPublishedAll, Reports
<1> QED  BY <1>1, Invariance, PTL

\* The latest response of a document is of the current round.
THEOREM LatestIsOfTheRound == Spec => []LatestBelongsToRound
BY Invariance, PTL DEF IInv

\* A task writes no row but its own, and that one at its end.
LEMMA RowOfATask ==
  ASSUME IInv, NEW k \in Jobs, TaskStep(k), row' # row
  PROVE  /\ task'[k].at = "done" /\ task[k].at # "done"
         /\ \A i \in Jobs \ {k} : row'[i] = row[i]
<1>1. task[k] \in Task /\ task \in [Jobs -> Task]  BY DEF IInv, TypeOK
<1>2. SelectDocuments(k) \/ Judge(k) \/ Except(k)
  BY DEF TaskStep, ReadProject, Canary, Batch, SaveRow, RefuseRow, SaveTimesOut, Wake,
         WriteHash, CallFails
<1>3. ASSUME NEW status, Finishes(k, status) PROVE \A i \in Jobs \ {k} : row'[i] = row[i]
  BY <1>3 DEF Finishes, IInv, TypeOK
<1>4. CASE SelectDocuments(k)
  <2>1. PICK docs \in Selections(task[k].mode) :
          /\ task' = [task EXCEPT ![k].documents = docs,
                                  ![k].at = IF docs = {} THEN "done" ELSE "canary"]
          /\ IF docs = {} THEN Finishes(k, "completed") ELSE row' = row
    BY <1>4 DEF SelectDocuments
  <2>2. docs = {}  BY <2>1
  <2>3. task' = [task EXCEPT ![k].documents = docs, ![k].at = "done"]  BY <2>1, <2>2
  <2>4. task'[k].at = "done"  BY <1>1, <2>3 DEF Task
  <2> QED  BY <1>3, <1>4, <2>1, <2>2, <2>4 DEF SelectDocuments, Runs
<1>5. CASE Judge(k)
  BY <1>1, <1>3, <1>5 DEF Judge, Runs, Goes, Task
<1>6. CASE Except(k)
  BY <1>1, <1>3, <1>6 DEF Except, Runs, Goes, Task
<1> QED  BY <1>2, <1>4, <1>5, <1>6

\* The clean-up that one machine serves finds no run of its own half-way: the loop is
\* free, so that run has published nothing yet or has nothing left to publish.
THEOREM MarkedRunsAreNotHalfway == Spec => NoRunIsMarkedHalfway
<1> DEFINE A == \A j \in Jobs :
                  /\ row[j] = "running" /\ row'[j] = "error"
                  /\ task[j].at \notin Over /\ task'[j] = task[j] /\ task[j].on = serving
                  => published[j] = {} \/ task[j].todo = {}
<1>1. IInv /\ [Next]_vars => A
  <2> SUFFICES ASSUME IInv, [Next]_vars, NEW j \in Jobs,
                      row[j] = "running", row'[j] = "error",
                      task[j].at \notin Over, task'[j] = task[j], task[j].on = serving
               PROVE  published[j] = {} \/ task[j].todo = {}
    OBVIOUS
  <2>1. task[j] \in Task /\ Accounts(task[j], published[j])  BY RunningTask
  <2>2. ASSUME NEW p \in Pages, Cleanup(p) PROVE published[j] = {} \/ task[j].todo = {}
    <3>1. task[j].at \notin Synchronous  BY <2>2 DEF Cleanup, LoopIsFree
    <3>2. task[j].at \in {"start", "wake"}  BY <2>1, <3>1 DEF Task
    <3> QED  BY <2>1, <3>2 DEF Accounts, Before
  <2>3. ASSUME NEW k \in Jobs, TaskStep(k) PROVE FALSE
    <3>1. row'[j] # row[j]  OBVIOUS
    <3>2. task'[k].at = "done" /\ task[k].at # "done" /\ \A i \in Jobs \ {k} : row'[i] = row[i]
      BY <2>3, <3>1, RowOfATask
    <3> QED  BY <3>1, <3>2
  <2>4. ASSUME NEW p \in Pages, NEW k \in Jobs, Dispatch(p, k) PROVE FALSE
    <3>1. row[k] = None /\ row' = [row EXCEPT ![k] = "running"]
      BY <2>4 DEF Dispatch, Unused
    <3> QED  BY <3>1 DEF IInv, TypeOK
  <2>5. row' # row  OBVIOUS
  <2> QED
    BY <2>2, <2>3, <2>4, <2>5
       DEF Next, Age, Mount, CleanupFails, Resume, Poll, PollFails, Kill, Deploy, CommitSchema,
           NewRound, vars
<1>2. Spec => [][A]_vars  BY <1>1, Invariance, PTL DEF Spec
<1> QED  BY <1>2 DEF NoRunIsMarkedHalfway

=============================================================================
