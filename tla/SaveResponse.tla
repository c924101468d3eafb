----------------------------- MODULE SaveResponse -----------------------------
(***************************************************************************)
(* The saves of one coder's response to one document (saveResponse), from  *)
(* several tabs, while the coordinator publishes schemas and starts rounds.*)
(*                                                                         *)
(* A save is not a transaction: it reads the current response and the      *)
(* project in two queries, computes what to write, updates the row of its  *)
(* key or, if there is none, inserts it, and then moves the assignment,    *)
(* each in a request of its own.  The stamp of a field abstracts its hash: *)
(* the version of the schema whose definition was hashed, 0 for unknown.   *)
(***************************************************************************)
EXTENDS Integers, Sequences, Functions

CONSTANTS
  Fields,       \* fields any version of the schema may have
  Required,     \* the ones a human must answer when they are visible
  Values,       \* answers
  Definitions,  \* definitions of a field: option sets, among Values
  Trigger,      \* the field whose answer shows each field, or Null
  Showing,      \* the answer that shows the fields it triggers
  Revisions,    \* definitions, or Null, a publication may give a field
  Schema,       \* the first version: a definition, or Null, of each field
  Responses,    \* responses the coder may have had before
  Sessions,     \* tabs
  Null,
  MaxVersions,  \* bound: versions of the schema
  MaxRounds,    \* bound: rounds
  MaxSaves      \* bound: saves

ASSUME SaveResponseAssumption ==
  /\ Required \subseteq Fields
  /\ \A d \in Definitions : d \subseteq Values
  /\ Trigger \in [Fields -> Fields \cup {Null}]
  /\ Revisions \subseteq Definitions \cup {Null}
  /\ Schema \in [Fields -> Definitions \cup {Null}]
  /\ Null \notin Fields \cup Definitions
  /\ {MaxVersions, MaxRounds} \subseteq Nat \ {0} /\ MaxSaves \in Nat

\* <<>> is the empty map.
Maps(S, T) == UNION {[D -> T] : D \in SUBSET S}

Row == [answers : Maps(Fields, Values), stamps : Maps(Fields, 0..MaxVersions),
        partial : BOOLEAN, version : 0..MaxVersions]

HasProvenance(row) == row.stamps = <<>> \/ DOMAIN row.answers \subseteq DOMAIN row.stamps

\* The responses of before were saved, or migrated with the empty map.
ASSUME ResponsesAssumption ==
  /\ Null \notin Row \cup 0..MaxVersions
  /\ \A response \in Responses \ {Null} : response \in Row /\ HasProvenance(response)

VARIABLES
  schemas,  \* published versions; the last one is the project's
  round,    \* projects.current_round_id
  rows,     \* per round, the coder's response, or Null
  status,   \* per round, the coder's assignment of type 'codificacao'
  saves,    \* saves so far
  tab       \* what each tab shows and does

vars == <<schemas, round, rows, status, saves, tab>>

Version == Len(schemas)
Rounds == 1..MaxRounds

-----------------------------------------------------------------------------
\* Visibility, completeness and projection of answers (conditional.ts,
\* coding-completeness.ts, sanitizeStoredAnswers).

FieldsOf(v) == {f \in Fields : schemas[v][f] # Null}

\* isFieldVisible: the condition of a field looks at one answer.
IsFieldVisible(v, f, a) ==
  \/ schemas[v][f] = Null \/ Trigger[f] = Null
  \/ Trigger[f] \in DOMAIN a /\ a[Trigger[f]] = Showing

\* A field shown by a hidden one is hidden.
DropHidden(v, a) ==
  LET shown[f \in Fields] ==
        /\ IsFieldVisible(v, f, a)
        /\ schemas[v][f] = Null \/ Trigger[f] = Null \/ shown[Trigger[f]]
  IN  Restrict(a, {f \in DOMAIN a : shown[f]})

Sanitized(v, a) ==
  IF FieldsOf(v) = {} THEN a
  ELSE DropHidden(v, Restrict(a, {f \in DOMAIN a \cap FieldsOf(v) :
                                    a[f] \in schemas[v][f]}))

ExistedWhenCoded(stamps, f) == stamps = <<>> \/ f \in DOMAIN stamps

MissingRequired(v, a, stamps) ==
  {f \in Required \cap FieldsOf(v) :
     IsFieldVisible(v, f, a) /\ ExistedWhenCoded(stamps, f) /\ f \notin DOMAIN a}

IsCodingComplete(v, a) == MissingRequired(v, a, <<>>) = {}

-----------------------------------------------------------------------------
\* buildPersistedResponseSnapshot: what a save writes, from the schema and the
\* response it read and the answers of the form.

Stored(base) == IF base = Null THEN <<>> ELSE base.answers

Changed(v, base, submitted) ==
  LET presented == IF FieldsOf(v) = {} THEN <<>> ELSE Sanitized(v, Stored(base))
      same(f) == /\ f \in DOMAIN presented \cap DOMAIN submitted
                 /\ presented[f] = submitted[f]
  IN  {f \in DOMAIN presented \cup DOMAIN submitted : ~same(f)}

\* Conditional fields that a changed trigger hid; a field that was hidden
\* before, for another reason, keeps its raw answer.
HiddenByChange(v, stored, a, changed) ==
  LET drop[f \in Fields] ==
        /\ schemas[v][f] # Null /\ Trigger[f] # Null
        /\ Trigger[f] \in changed \/ drop[Trigger[f]]
        /\ IsFieldVisible(v, f, stored)
        /\ drop[Trigger[f]] \/ ~IsFieldVisible(v, f, a)
  IN  {f \in Fields : drop[f]}

PersistedAnswers(v, base, submitted) ==
  LET stored == Stored(base)
      changed == Changed(v, base, submitted)
      kept == DOMAIN stored \ changed
      merged == [f \in kept \cup (changed \cap DOMAIN submitted) |->
                   IF f \in changed THEN submitted[f] ELSE stored[f]]
  IN  Restrict(merged, DOMAIN merged \ HiddenByChange(v, stored, merged, changed))

\* Mutant: an answer preserved from a removed field gets no key.
NoFallback(stamps, a) == stamps

WithFallback(stamps, a) ==
  [f \in DOMAIN stamps \cup DOMAIN a |-> IF f \in DOMAIN stamps THEN stamps[f] ELSE 0]

StampAll(v, a) == WithFallback([f \in FieldsOf(v) |-> v], a)

\* null and {}: what fields existed when it was coded is unknown.
IsLegacy(base) == base.stamps = <<>>

ReconciledStamps(v, base, a, changed) ==
  LET revised == changed \cap DOMAIN a
      stamp(f) == IF f \notin revised THEN base.stamps[f]
                  ELSE IF f \in FieldsOf(v) THEN v ELSE 0
  IN  IF base = Null \/ (IsLegacy(base) /\ IsCodingComplete(v, a))
      THEN StampAll(v, a)
      ELSE IF IsLegacy(base) THEN <<>>
      ELSE WithFallback([f \in DOMAIN base.stamps \cup revised |-> stamp(f)], a)

\* Mutant: only a revision promotes the version columns.
OnlyRevisions(v, base, a, changed) == base # Null /\ changed \cap DOMAIN a # {}

StampsCurrentSchema(v, base, a, changed) ==
  \/ base = Null
  \/ IsLegacy(base) /\ IsCodingComplete(v, a)
  \/ ~IsLegacy(base) /\ changed \cap DOMAIN a # {}

\* The columns the save writes; without a stamp of the current schema the
\* version columns are left out of the UPDATE (Null).
Payload(v, base, form) ==
  LET submitted == DropHidden(v, form)
      changed == Changed(v, base, submitted)
      a == PersistedAnswers(v, base, submitted)
      stamps == ReconciledStamps(v, base, a, changed)
  IN  [answers |-> a, stamps |-> stamps,
       partial |-> MissingRequired(v, a, stamps) # {},
       version |-> IF StampsCurrentSchema(v, base, a, changed) THEN v ELSE Null]

-----------------------------------------------------------------------------

Closed == [at |-> "closed", round |-> 0, shown |-> <<>>, form |-> <<>>,
           got |-> {}, base |-> Null, version |-> 0, attempt |-> 0]

\* The page renders the form from the stored response.
Open(s) ==
  LET shown == Sanitized(Version, Stored(rows[round])) IN
  /\ tab[s].at = "closed"
  /\ tab' = [tab EXCEPT ![s] = [Closed EXCEPT !.at = "open", !.round = round,
                                  !.shown = shown, !.version = Version]]
  /\ UNCHANGED <<schemas, round, rows, status, saves>>

\* The coder submits the form: an answer among the options, or none, of each
\* field of the schema the page was rendered with.
Submit(s) ==
  LET v == tab[s].version IN
  /\ tab[s].at = "open" /\ saves < MaxSaves
  /\ saves' = saves + 1
  /\ \E form \in Maps(FieldsOf(v), Values) :
       /\ \A f \in DOMAIN form : form[f] \in schemas[v][f]
       /\ DropHidden(v, form) = form
       /\ tab' = [tab EXCEPT ![s].at = "read", ![s].form = form, ![s].attempt = 1]
  /\ UNCHANGED <<schemas, round, rows, status>>

\* The coder leaves the page without saving.
Leave(s) ==
  /\ tab[s].at = "open"
  /\ tab' = [tab EXCEPT ![s] = Closed]
  /\ UNCHANGED <<schemas, round, rows, status, saves>>

Quit(s) == tab' = [tab EXCEPT ![s] = Closed]

\* fetchSaveContext: two of its queries, in either order.
ReadResponse(s) ==
  /\ tab[s].at = "read" /\ "response" \notin tab[s].got
  /\ tab' = [tab EXCEPT ![s].got = @ \cup {"response"},
                        ![s].base = IF tab[s].round = round
                                    THEN rows[tab[s].round] ELSE Null]
  /\ UNCHANGED <<schemas, round, rows, status, saves>>

ReadProject(s) ==
  /\ tab[s].at = "read" /\ "project" \notin tab[s].got
  /\ IF tab[s].round # round THEN Quit(s)
     ELSE tab' = [tab EXCEPT ![s].got = @ \cup {"project"}, ![s].version = Version]
  /\ UNCHANGED <<schemas, round, rows, status, saves>>

\* persistResponseRow: the UPDATE by key, which counts the rows it matched;
\* the responses of a closed round are not latest.
Update(s) ==
  LET r == tab[s].round
      new == Payload(tab[s].version, tab[s].base, tab[s].form)
  IN  /\ tab[s].at = "read" /\ tab[s].got = {"response", "project"}
      /\ IF r = round /\ rows[r] # Null
         THEN /\ rows' = [rows EXCEPT ![r] = [new EXCEPT !.version =
                            IF new.version = Null THEN rows[r].version ELSE new.version]]
              /\ tab' = [tab EXCEPT ![s].at = "sync"]
         ELSE /\ tab' = [tab EXCEPT ![s].at = "insert"]
              /\ UNCHANGED rows
      /\ UNCHANGED <<schemas, round, status, saves>>

\* Mutant: the trigger does not compare the round of an INSERT.
AnyRound(r) == TRUE

\* enforce_current_response_round_write, which serializes with the start of a
\* round by a lock of the project.
IsCurrentRound(r) == r = round

\* The second attempt reads again.
Retry(t) == [t EXCEPT !.attempt = 2, !.at = "read", !.got = {}]

\* The INSERT, which the unique index of latest responses may refuse.
Insert(s) ==
  LET r == tab[s].round
      new == Payload(tab[s].version, tab[s].base, tab[s].form)
  IN  /\ tab[s].at = "insert"
      /\ \/ /\ ~IsCurrentRound(r)
            /\ Quit(s) /\ UNCHANGED rows
         \/ /\ IsCurrentRound(r) /\ rows[r] # Null
            /\ tab' = [tab EXCEPT ![s] = IF tab[s].attempt = 1 THEN Retry(tab[s])
                                         ELSE [tab[s] EXCEPT !.at = "refused"]]
            /\ UNCHANGED rows
         \/ /\ IsCurrentRound(r) /\ rows[r] = Null
            /\ rows' = [rows EXCEPT ![r] = new]
            /\ tab' = [tab EXCEPT ![s].at = "sync"]
      /\ UNCHANGED <<schemas, round, status, saves>>

\* syncCodingAssignmentStatus, on the submitted answers and the schema read.
SyncComplete(s) ==
  LET t == tab[s] IN
  /\ t.at = "sync"
  /\ FieldsOf(t.version) = {} \/ IsCodingComplete(t.version, DropHidden(t.version, t.form))
  /\ status' = IF FieldsOf(t.version) = {} \/ status[t.round] = "none" THEN status
               ELSE [status EXCEPT ![t.round] = "concluido"]
  /\ Quit(s)
  /\ UNCHANGED <<schemas, round, rows, saves>>

\* keepCodingAssignmentInProgress: it reads the status, then writes it.
SyncIncomplete(s) ==
  LET t == tab[s] IN
  /\ t.at = "sync" /\ FieldsOf(t.version) # {}
  /\ ~IsCodingComplete(t.version, DropHidden(t.version, t.form))
  /\ IF status[t.round] \in {"none", "concluido"} THEN Quit(s)
     ELSE tab' = [tab EXCEPT ![s].at = "keep"]
  /\ UNCHANGED <<schemas, round, rows, status, saves>>

KeepInProgress(s) ==
  /\ tab[s].at = "keep"
  /\ status' = IF status[tab[s].round] = "none" THEN status
               ELSE [status EXCEPT ![tab[s].round] = "em_andamento"]
  /\ Quit(s)
  /\ UNCHANGED <<schemas, round, rows, saves>>

\* A query fails, or the server action dies: what it wrote stays.
Fail(s) ==
  /\ tab[s].at \in {"read", "insert", "sync", "keep"}
  /\ Quit(s)
  /\ UNCHANGED <<schemas, round, rows, status, saves>>

\* The coordinator publishes a schema that differs in one field.
PublishSchema(f, d) ==
  /\ Version < MaxVersions /\ schemas[Version][f] # d
  /\ schemas' = Append(schemas, [schemas[Version] EXCEPT ![f] = d])
  /\ UNCHANGED <<round, rows, status, saves, tab>>

\* start_project_round, and the lottery that assigns the document again.
StartRound ==
  /\ round < MaxRounds
  /\ round' = round + 1
  /\ status' = [status EXCEPT ![round + 1] = "pendente"]
  /\ UNCHANGED <<schemas, rows, saves, tab>>

-----------------------------------------------------------------------------

Init ==
  /\ schemas = <<Schema>>
  /\ round = 1
  /\ \E response \in Responses :
       rows = [r \in Rounds |-> IF r = 1 THEN response ELSE Null]
  /\ status = [r \in Rounds |-> IF r = 1 THEN "pendente" ELSE "none"]
  /\ saves = 0
  /\ tab = [s \in Sessions |-> Closed]

Save(s) ==
  \/ Open(s) \/ Leave(s) \/ Submit(s)
  \/ ReadResponse(s) \/ ReadProject(s)
  \/ Update(s) \/ Insert(s)
  \/ SyncComplete(s) \/ SyncIncomplete(s) \/ KeepInProgress(s)
  \/ Fail(s)

Next ==
  \/ \E s \in Sessions : Save(s)
  \/ \E f \in Fields, d \in Revisions : PublishSchema(f, d)
  \/ StartRound

Spec == Init /\ [][Next]_vars

-----------------------------------------------------------------------------
\* Properties.

\* What a tab holds: the response and the version it read, and where the save is.
Tab == [at : {"closed", "open", "read", "insert", "sync", "refused", "keep"},
        round : 0..MaxRounds, shown : Maps(Fields, Values), form : Maps(Fields, Values),
        got : SUBSET {"response", "project"}, base : Row \cup {Null},
        version : 0..MaxVersions, attempt : 0..2]

\* Every variable keeps its type: what a save writes is a row, from whatever
\* response and version it read.
TypeOK ==
  /\ schemas \in Seq([Fields -> Definitions \cup {Null}]) /\ Version \in 1..MaxVersions
  /\ round \in Rounds
  /\ rows \in [Rounds -> Row \cup {Null}]
  /\ status \in [Rounds -> {"none", "pendente", "em_andamento", "concluido"}]
  /\ saves \in Nat
  /\ tab \in [Sessions -> Tab]
  /\ \A s \in Sessions : tab[s].at # "closed" =>
       tab[s].version \in 1..Version /\ tab[s].round \in 1..round

\* Every stored answer has a key among the stamps, or the whole map is unknown:
\* a key is the proof that the field existed (withAnswerProvenanceFallback).
AnswersHaveProvenance == \A r \in Rounds : rows[r] # Null => HasProvenance(rows[r])

\* Nothing of a response of a closed round changes, and none appears, whatever
\* save was under way when the round closed (20260820170000).
ClosedRoundsAreFrozen ==
  [][\A r \in Rounds : r < round => rows'[r] = rows[r]]_vars

\* The version columns and the stamps agree: a response of a version has a
\* field stamped by it (resolveSchemaProvenance).
VersionIsStamped ==
  \A r \in Rounds :
    rows[r] # Null /\ rows[r].stamps # <<>> =>
      \E f \in DOMAIN rows[r].stamps : rows[r].stamps[f] = rows[r].version

\* A save drops no answer of a response it has not read (runSaveAttempt).
Saving(s) == tab[s].at \in {"read", "insert"} /\ tab'[s].at = "sync"
Lost(r) == IF rows[r] = Null THEN {}
           ELSE {f \in DOMAIN rows[r].answers : f \notin DOMAIN rows'[r].answers}

DropsOnlyWhatItRead ==
  [][\A s \in Sessions : Saving(s) => Lost(tab[s].round) \subseteq DOMAIN Stored(tab[s].base)]_vars

\* A save drops only answers its form presented, or whose trigger it changed:
\* the raw value stays until the coder changes what was presented
\* (sanitizeStoredAnswers).
DropsOnlyWhatWasShown ==
  [][\A s \in Sessions : Saving(s) =>
       \A f \in Lost(tab[s].round) :
         f \in DOMAIN tab[s].shown \/ Trigger[f] \in DOMAIN tab[s].shown]_vars

\* A concluded assignment is never moved back by a save (coding-sync).
ConcludedStays ==
  [][\A r \in Rounds : status[r] = "concluido" => status'[r] = "concluido"]_vars

=============================================================================
