---------------------------- MODULE SchemaDraft ----------------------------
(***************************************************************************)
(* The schema editor of one coordinator: the sessions of                   *)
(* hooks/useSchemaDraft.ts (one per mounted editor, several tabs of one    *)
(* browser), the localStorage slot they share, and the schema of the       *)
(* project, which only a commit that names the current revision changes    *)
(* (actions/schema.ts and the revision gate of the database).              *)
(*                                                                         *)
(* A snapshot is its revision number: `history[r + 1]` is the schema of    *)
(* revision r, and a revision never changes.                               *)
(***************************************************************************)
EXTENDS SchemaMerge

CONSTANTS
    Sessions,        \* editor sessions, in tabs of the same browser
    Typed,           \* the values the coordinator gives to properties
    TypedElsewhere,  \* the values the others give
    Scopes           \* the bounds a behaviour is explored under, see `scope`

\* initial: the schema of revision 0, whose names are the ones a field may
\* have; open: editors open at once; changes: edits and revisions together;
\* failing: whether a write to localStorage may throw.
ASSUME ScopesAreBounds ==
    \A x \in Scopes : /\ DOMAIN x = {"initial", "open", "changes", "failing"}
                      /\ x.open \in Nat /\ x.changes \in Nat /\ x.failing \in BOOLEAN

VARIABLES
    history,      \* the schemas of the revisions committed so far
    session,      \* [Sessions -> the state of the hook]
    mounted,      \* the sessions whose editor is on the screen
    slot,         \* the envelope stored under the user and the project
    slotBy,       \* the session that changed the slot last
    call,         \* [Sessions -> the server action under way]
    storageFull,  \* whether writes to localStorage throw
    edits,        \* edits made so far (bound)
    scope         \* the bounds of this behaviour

vars == <<history, session, mounted, slot, slotBy, call, storageFull, edits, scope>>

Nobody == "nobody"
NoToken == 0
NoDraft == [token |-> NoToken]
Idle == [stage |-> "idle"]
Closed == [kind |-> "closed"]

Current == Len(history) - 1
Snapshot(rev) == history[rev + 1]

(***************************************************************************)
(* The state of the hook. A session and the slot change together, so the   *)
(* transitions of the hook are functions of a record with both.            *)
(***************************************************************************)

Clean(rev) == [kind |-> "clean", base |-> rev, fields |-> Snapshot(rev),
               token |-> NoToken, stored |-> NoToken, blocked |-> FALSE]
Dirty(base, fields, token, stored, blocked) ==
    [kind |-> "dirty", base |-> base, fields |-> fields,
     token |-> token, stored |-> stored, blocked |-> blocked]
Conflict(draft, remote, answers, stored, blocked) ==
    [kind |-> "conflict", base |-> draft.base, fields |-> draft.fields,
     token |-> draft.token, remote |-> remote, answers |-> answers,
     stored |-> stored, blocked |-> blocked]

Envelope(token, base, fields) == [token |-> token, base |-> base, fields |-> fields]

\* The fields on the screen and the revision they are compared with.
StateFields(s) ==
    IF s.kind = "conflict"
    THEN MergedFields(Snapshot(s.base), s.fields, Snapshot(s.remote), s.answers)
    ELSE s.fields
Baseline(s) == IF s.kind = "conflict" THEN s.remote ELSE s.base

DisputesOf(s) == Disputes(Snapshot(s.base), s.fields, Snapshot(s.remote), s.answers)
Open(s) == s.kind # "closed"

\* makeId: an identifier no draft in memory or in storage has.
TokensInUse == {slot.token} \union {session[t].token : t \in {u \in Sessions : Open(session[u])}}
                   \union {session[t].stored : t \in {u \in Sessions : Open(session[u])}}
FreshToken == CHOOSE k \in 1..(3 * Cardinality(Sessions) + 2) :
                  /\ k \notin TokensInUse
                  /\ \A j \in 1..(k - 1) : j \in TokensInUse

Here(t) == [me |-> t, tab |-> session[t], slot |-> slot, by |-> slotBy]

\* writeDraftIfTokenMatches and dirtyAfterWrite: a compare-and-swap on the
\* token this session stored last.
AfterWrite(h, base, fields, token) ==
    LET mine == h.slot.token = h.tab.stored
    IN  CASE mine /\ ~storageFull ->
               [h EXCEPT !.tab = Dirty(base, fields, token, token, FALSE),
                         !.slot = Envelope(token, base, fields), !.by = h.me]
          [] mine /\ storageFull ->
               [h EXCEPT !.tab = Dirty(base, fields, token, h.tab.stored, FALSE)]
          [] OTHER ->
               [h EXCEPT !.tab = Dirty(base, fields, token, NoToken, TRUE)]

\* deleteDraftIfTokenMatches and cleanState.
AfterDelete(h, rev) ==
    IF h.tab.stored # NoToken /\ h.slot.token = h.tab.stored
    THEN [h EXCEPT !.tab = Clean(rev), !.slot = NoDraft, !.by = h.me]
    ELSE [h EXCEPT !.tab = Clean(rev)]

\* persistDirtyState: the debounce, the flush of a hidden or unloaded page.
Persisted(h) ==
    IF h.tab.kind = "dirty" /\ h.tab.stored # h.tab.token
    THEN AfterWrite(h, h.tab.base, h.tab.fields, h.tab.token)
    ELSE h

\* Mutant: a merge that brings nothing local still becomes a draft.
MutantMergeAlwaysDrafts(h, rev, merged) == AfterWrite(h, rev, merged, FreshToken)

\* The merge closed without a question: adopt it over the new revision.
AfterMerge(h, rev, merged) ==
    IF merged = Snapshot(rev) THEN AfterDelete(h, rev)
    ELSE AfterWrite(h, rev, merged, FreshToken)

NoAnswers == [d \in {} |-> "none"]

\* initialState: a stored draft is recovered, rebased or dropped; a render
\* behind the draft's own base is no authority over it.
AfterMount(h, rev) ==
    LET draft == h.slot
        owned == [h EXCEPT !.tab = Dirty(draft.base, draft.fields, draft.token, draft.token, FALSE)]
        base == Snapshot(draft.base)
        remote == Snapshot(rev)
        merged == MergedFields(base, draft.fields, remote, NoAnswers)
    IN  CASE draft = NoDraft -> [h EXCEPT !.tab = Clean(rev)]
          [] draft # NoDraft /\ draft.base > rev -> owned
          [] draft # NoDraft /\ draft.base = rev ->
               IF draft.fields = remote THEN AfterDelete(owned, rev) ELSE owned
          [] draft # NoDraft /\ draft.base < rev ->
               IF Unanswered(base, draft.fields, remote, NoAnswers) # {}
               THEN [h EXCEPT !.tab = Conflict(draft, rev, NoAnswers, draft.token, FALSE)]
               ELSE AfterMerge(owned, rev, merged)

\* stateAfterFieldsChange: nothing is editable while a conflict is open.
AfterFieldsChange(h, fields) ==
    IF fields = Snapshot(h.tab.base) THEN AfterDelete(h, h.tab.base)
    ELSE [h EXCEPT !.tab = Dirty(h.tab.base, fields, FreshToken, h.tab.stored, h.tab.blocked)]

\* Mutants of stateAfterSave: the editor is clean whatever was typed during
\* the save; the slot is compared with the token of the draft on the screen.
MutantSaveCleans(h, rev) == AfterDelete(h, rev)
MutantSaveByDraftToken(h, rev) ==
    LET k == [h EXCEPT !.tab.stored = h.tab.token]
        fields == StateFields(h.tab)
    IN  IF fields = Snapshot(rev) THEN AfterDelete(k, rev)
        ELSE AfterWrite(k, rev, fields, FreshToken)

\* stateAfterSave: what was typed during the save stays as a draft over the
\* saved revision.
AfterSave(h, rev) ==
    LET fields == StateFields(h.tab)
    IN  IF fields = Snapshot(rev) THEN AfterDelete(h, rev)
        ELSE AfterWrite(h, rev, fields, FreshToken)

\* Mutant: the schema a refused save returns is taken for a saved one.
MutantConflictAsSaved(h, rev) == AfterSave(h, rev)

\* stateAfterRemoteChange: rebase, or ask.
AfterRemoteChange(h, rev) ==
    LET answers == IF h.tab.kind = "conflict"
                   THEN AnswersOf(Snapshot(h.tab.base), h.tab.fields,
                                  Snapshot(h.tab.remote), h.tab.answers)
                   ELSE NoAnswers
        base == Snapshot(h.tab.base)
        draft == IF h.tab.kind = "clean"
                 THEN Envelope(FreshToken, h.tab.base, h.tab.fields)
                 ELSE Envelope(h.tab.token, h.tab.base, h.tab.fields)
        remote == Snapshot(rev)
        kept == AnswersOf(base, draft.fields, remote, answers)
        stillMine == h.slot.token = h.tab.stored
    IN  IF rev <= Baseline(h.tab) THEN h
        ELSE IF Unanswered(base, draft.fields, remote, answers) = {}
        THEN AfterMerge(h, rev, MergedFields(base, draft.fields, remote, answers))
        ELSE [h EXCEPT !.tab =
                 Conflict(draft, rev, kept,
                          IF stillMine THEN h.tab.stored ELSE NoToken,
                          h.slot # NoDraft /\ ~stillMine)]

\* stateAfterConflictResolution
AfterResolution(h, d, side) ==
    LET base == Snapshot(h.tab.base)
        remote == Snapshot(h.tab.remote)
        answers == [x \in DOMAIN h.tab.answers \union {d} |->
                        IF x = d THEN side ELSE h.tab.answers[x]]
    IN  [h EXCEPT !.tab.answers = AnswersOf(base, h.tab.fields, remote, answers)]

\* stateAfterResolvedDraftApplication and stateAfterConflictDiscard
AfterApplication(h) == AfterMerge(h, h.tab.remote, StateFields(h.tab))
AfterDiscard(h) == AfterDelete(h, h.tab.remote)

Becomes(t, h) ==
    /\ session' = [session EXCEPT ![t] = h.tab]
    /\ slot' = h.slot
    /\ slotBy' = h.by

(***************************************************************************)
(* The editor                                                              *)
(***************************************************************************)

\* The edits of a schema, with the values somebody gives to properties.
SetProperty(schema, values) ==
    {[schema EXCEPT ![i].content[p] = v] : i \in DOMAIN schema, p \in Props, v \in values}
Removal(schema) == {SelectSeq(schema, LAMBDA f : f.name # n) : n \in NamesOf(schema)}
Addition(schema, values) ==
    {Append(schema, [name |-> n, content |-> [p \in Props |-> v]]) :
        n \in NamesOf(scope.initial) \ NamesOf(schema), v \in values}
Swap(schema) == {[schema EXCEPT ![i] = schema[i + 1], ![i + 1] = schema[i]] : i \in 1..(Len(schema) - 1)}
EditsOf(schema, values) ==
    (SetProperty(schema, values) \union Removal(schema) \union Addition(schema, values)
        \union Swap(schema)) \ {schema}

Mount(t) ==
    /\ ~Open(session[t])
    /\ call[t] = Idle
    /\ Cardinality({u \in Sessions : Open(session[u]) \/ call[u] # Idle}) < scope.open
    /\ \E rev \in 0..Current : Becomes(t, AfterMount(Here(t), rev))
    /\ mounted' = mounted \union {t}
    /\ UNCHANGED <<history, call, storageFull, edits, scope>>

Edit(t) ==
    /\ t \in mounted
    /\ session[t].kind # "conflict"
    /\ edits + Current < scope.changes
    /\ \E fields \in EditsOf(session[t].fields, Typed) :
          Becomes(t, AfterFieldsChange(Here(t), fields))
    /\ edits' = edits + 1
    /\ UNCHANGED <<history, mounted, call, storageFull, scope>>

Persist(t) ==
    /\ t \in mounted
    /\ session[t].kind = "dirty"
    /\ session[t].stored # session[t].token
    /\ Becomes(t, Persisted(Here(t)))
    /\ UNCHANGED <<history, mounted, call, storageFull, edits, scope>>

\* The page re-renders with a newer schema. The router queues a refresh
\* behind a server action, so none arrives during a call of the session.
Render(t) ==
    /\ t \in mounted
    /\ call[t] = Idle
    /\ \E rev \in (Baseline(session[t]) + 1)..Current :
          Becomes(t, AfterRemoteChange(Persisted(Here(t)), rev))
    /\ UNCHANGED <<history, mounted, call, storageFull, edits, scope>>

Resolve(t) ==
    /\ t \in mounted
    /\ session[t].kind = "conflict"
    /\ \E d \in DisputesOf(session[t]), side \in Sides :
          Becomes(t, AfterResolution(Here(t), d, side))
    /\ UNCHANGED <<history, mounted, call, storageFull, edits, scope>>

Apply(t) ==
    /\ t \in mounted
    /\ session[t].kind = "conflict"
    /\ DisputesOf(session[t]) \subseteq DOMAIN session[t].answers
    /\ Becomes(t, AfterApplication(Here(t)))
    /\ UNCHANGED <<history, mounted, call, storageFull, edits, scope>>

Discard(t) ==
    /\ t \in mounted
    /\ session[t].kind = "conflict"
    /\ Becomes(t, AfterDiscard(Here(t)))
    /\ UNCHANGED <<history, mounted, call, storageFull, edits, scope>>

\* The editor leaves the screen: the draft is flushed, but the state the
\* answer of a pending call will find is the one before the flush.
Unmount(t) ==
    /\ t \in mounted
    /\ mounted' = mounted \ {t}
    /\ LET h == Persisted(Here(t))
       IN  /\ slot' = h.slot
           /\ slotBy' = h.by
    /\ session' = [session EXCEPT ![t] = IF call[t] = Idle THEN Closed ELSE @]
    /\ UNCHANGED <<history, call, storageFull, edits, scope>>

\* The tab dies without a flush; the server goes on with its call.
Crash(t) ==
    /\ Open(session[t])
    /\ mounted' = mounted \ {t}
    /\ session' = [session EXCEPT ![t] = Closed]
    /\ UNCHANGED <<history, slot, slotBy, call, storageFull, edits, scope>>

StorageChanges ==
    /\ scope.failing
    /\ storageFull' = ~storageFull
    /\ UNCHANGED <<history, session, mounted, slot, slotBy, call, edits, scope>>

(***************************************************************************)
(* The server                                                              *)
(***************************************************************************)

Request(op, base, fields) == [stage |-> "sent", op |-> op, base |-> base, fields |-> fields]
Answered(c, status, rev) == [stage |-> "answered", fields |-> c.fields, status |-> status, rev |-> rev]

\* handleSave: persists the draft and submits what is on the screen.
StartSave(t) ==
    /\ t \in mounted
    /\ call[t] = Idle
    /\ session[t].kind = "dirty"
    /\ LET h == Persisted(Here(t))
       IN  /\ Becomes(t, h)
           /\ call' = [call EXCEPT ![t] = Request("save", h.tab.base, h.tab.fields)]
    /\ UNCHANGED <<history, mounted, storageFull, edits, scope>>

\* handlePublishMajor: only over an unedited schema.
StartPublish(t) ==
    /\ t \in mounted
    /\ call[t] = Idle
    /\ session[t].kind = "clean"
    /\ call' = [call EXCEPT ![t] = Request("publish", session[t].base, session[t].fields)]
    /\ UNCHANGED <<history, session, mounted, slot, slotBy, storageFull, edits, scope>>

\* schema_revision_gate under the lock of the row, and commit_project_schema
\* with the revision trigger: a commit is one revision.
RevisionGate(base) == base = Current
Committed(schema) == Append(history, schema)

\* loadSchemaSaveContext compares the revision once to plan the change, and
\* the gate compares it again: a conflict the first reading reports is one
\* the second would. Publishing changes the version, not the fields.
Commit(t) ==
    /\ call[t].stage = "sent"
    /\ IF ~RevisionGate(call[t].base)
       THEN /\ call' = [call EXCEPT ![t] = Answered(@, "conflict", Current)]
            /\ UNCHANGED history
       ELSE /\ edits + Current < scope.changes
            /\ history' = Committed(IF call[t].op = "save" THEN call[t].fields
                                   ELSE Snapshot(Current))
            /\ call' = [call EXCEPT ![t] = Answered(@, "saved", Current + 1)]
    /\ UNCHANGED <<session, mounted, slot, slotBy, storageFull, edits, scope>>

\* The action fails before its commit, or its answer is lost after it: the
\* session learns the same.
Fail(t) ==
    /\ call[t] # Idle
    /\ call' = [call EXCEPT ![t] = Answered(@, "error", 0)]
    /\ call[t] # call'[t]
    /\ UNCHANGED <<history, session, mounted, slot, slotBy, storageFull, edits, scope>>

\* The continuation of the call runs even after the editor left the screen.
Reply(t) ==
    /\ call[t].stage = "answered"
    /\ call' = [call EXCEPT ![t] = Idle]
    /\ IF Open(session[t])
       THEN LET h == CASE call[t].status = "saved" -> AfterSave(Here(t), call[t].rev)
                       [] call[t].status = "conflict" ->
                            AfterRemoteChange(Persisted(Here(t)), call[t].rev)
                       [] call[t].status = "error" -> Here(t)
            IN  Becomes(t, IF t \in mounted THEN h ELSE [h EXCEPT !.tab = Closed])
       ELSE UNCHANGED <<session, slot, slotBy>>
    /\ UNCHANGED <<history, mounted, storageFull, edits, scope>>

\* Another coordinator, an approved suggestion, a toggled LLM field or a
\* published version: they go through the same gate.
CommitElsewhere ==
    /\ edits + Current < scope.changes
    /\ \E schema \in EditsOf(Snapshot(Current), TypedElsewhere) \union {Snapshot(Current)} :
          history' = Committed(schema)
    /\ UNCHANGED <<session, mounted, slot, slotBy, call, storageFull, edits, scope>>

Init ==
    /\ scope \in Scopes
    /\ history = <<scope.initial>>
    /\ session = [t \in Sessions |-> Closed]
    /\ mounted = {}
    /\ slot = NoDraft
    /\ slotBy = Nobody
    /\ call = [t \in Sessions |-> Idle]
    /\ storageFull = FALSE
    /\ edits = 0

Next ==
    \/ \E t \in Sessions :
          \/ Mount(t) \/ Edit(t) \/ Persist(t) \/ Render(t)
          \/ Resolve(t) \/ Apply(t) \/ Discard(t) \/ Unmount(t) \/ Crash(t)
          \/ StartSave(t) \/ StartPublish(t) \/ Commit(t)
          \/ Fail(t) \/ Reply(t)
    \/ StorageChanges
    \/ CommitElsewhere

Spec == Init /\ [][Next]_vars

(***************************************************************************)
(* Properties                                                              *)
(***************************************************************************)

\* What a session would submit before any question is answered, over what.
Work(s) == [base |-> Snapshot(s.base), fields |-> s.fields]
\* Where the work of a session comes from: itself, or the stored draft.
WorkBefore(t) == IF Open(session[t]) THEN Work(session[t])
                 ELSE IF slot # NoDraft THEN Work(slot)
                 ELSE Work([base |-> 0, fields |-> Snapshot(0)])

Content(schema, n) == FieldMap(schema)[n]
Changed(w, n) == Content(w.fields, n) # Content(w.base, n)
\* The properties of a field a piece of work changed in place.
ChangedProps(w, n) ==
    {p \in Props : /\ Content(w.fields, n) # Absent /\ Content(w.base, n) # Absent
                   /\ Content(w.fields, n)[p] # Content(w.base, n)[p]}
\* Every change of w is in v.
Carries(v, w, n) ==
    /\ Content(v.fields, n) = Absent <=> Content(w.fields, n) = Absent
    /\ Content(w.base, n) = Absent => Content(v.fields, n) = Content(w.fields, n)
    /\ \A p \in ChangedProps(w, n) : Content(v.fields, n)[p] = Content(w.fields, n)[p]
CarriesOrder(v, w) ==
    \A x, y \in Names :
        /\ Before(NameOrder(w.fields), x, y)
        /\ Before(NameOrder(w.base), y, x)
        /\ Has(NameOrder(v.fields), x, y)
        => Before(NameOrder(v.fields), x, y)

\* The coordinator gave up the local side of a dispute about the field, or
\* about the order.
GivenUp(t, address) ==
    /\ session[t].kind = "conflict"
    /\ \E d \in DOMAIN session[t].answers : d[1] \in address \/ d[2] \in address
    /\ \E d \in DOMAIN session[t].answers : session[t].answers[d] = "remote"

Typing(t) == edits' # edits
Discarding(t) == session[t].kind = "conflict" /\ Discard(t)

\* Nothing the coordinator did in the editor disappears unless they undo it,
\* drop the draft or answer "remote": not when a draft is recovered or
\* rebased, not when a save answers after more typing, not when the remote
\* schema moves under an open conflict.
LocalEditsSurvive ==
    [][\A t \in Sessions :
        (Open(session'[t]) /\ ~Typing(t) /\ ~Discarding(t) /\ session'[t] # session[t]) =>
            LET w == WorkBefore(t)  v == Work(session[t])'
            IN  /\ \A n \in Names : Changed(w, n) => GivenUp(t, {n}) \/ Carries(v, w, n)
                /\ GivenUp(t, {"order"}) \/ CarriesOrder(v, w)]_vars

\* What a session is about to submit over its baseline was changed by the
\* coordinator: a step that is not an edit never turns a difference between
\* two revisions into a local change, which the next save would write over
\* the work of somebody else.
OnlyEditsAreSubmitted ==
    [][\A t \in Sessions :
        (Open(session'[t]) /\ ~Typing(t) /\ session'[t] # session[t]) =>
            LET w == WorkBefore(t)  v == Work(session[t])'
                typedMeanwhile(n) == /\ call[t].stage = "answered"
                                     /\ Content(call[t].fields, n) # Content(w.fields, n)
            IN  \A n \in Names :
                  /\ Changed(v, n) => Changed(w, n) \/ typedMeanwhile(n)
                  /\ ChangedProps(v, n) \subseteq
                        IF typedMeanwhile(n) \/ Content(w.base, n) = Absent
                        THEN Props ELSE ChangedProps(w, n)]_vars

\* "Another tab owns the draft" is never said of a slot this session changed
\* itself: its own writes and deletions leave it the owner.
OwnWritesNeverBlock ==
    [][\A t \in Sessions :
        (/\ Open(session[t]) /\ Open(session'[t])
         /\ session'[t].blocked /\ ~session[t].blocked) => slotBy # t]_vars

\* Two remote schemas agree on what a dispute is about. The order is disputed
\* among the fields the merge keeps, and a remote has not all of them.
SameOrder(x, y, old, new) ==
    Has(old, x, y) /\ Has(new, x, y) => (Before(old, x, y) <=> Before(new, x, y))
SameStake(d, old, new) ==
    CASE d[1] = "property" -> Content(old, d[2])[d[3]] = Content(new, d[2])[d[3]]
      [] d[1] = "field" -> Content(old, d[2]) = Content(new, d[2])
      [] OTHER -> \A x, y \in Names :
                      Has(d[2], x, y) => SameOrder(x, y, NameOrder(old), NameOrder(new))

\* An answer is given to a dispute the coordinator saw, with the values they
\* saw: a remote schema that moves under an open conflict neither answers a
\* new dispute nor closes the conflict with one unseen.
AnswersFollowTheDispute ==
    [][\A t \in Sessions :
        (/\ Open(session[t]) /\ session[t].kind = "conflict"
         /\ Open(session'[t]) /\ Baseline(session'[t]) # session[t].remote) =>
            LET rev == Baseline(session'[t])
                answers == session[t].answers
                seen(d) == /\ d \in DOMAIN answers
                           /\ SameStake(d, Snapshot(session[t].remote), Snapshot(rev))
            IN  IF session'[t].kind = "conflict"
                THEN \A d \in DOMAIN session'[t].answers :
                         seen(d) /\ answers[d] = session'[t].answers[d]
                ELSE \A d \in DisputesOf([session[t] EXCEPT !.remote = rev]) : seen(d)]_vars

\* A draft differs from the schema it was made over, in memory and in
\* storage: the editor calls a session dirty without comparing.
DirtyDiffersFromBaseline ==
    /\ \A t \in Sessions : (Open(session[t]) /\ session[t].kind = "dirty") =>
          session[t].fields # Snapshot(session[t].base)
    /\ slot # NoDraft => slot.fields # Snapshot(slot.base)
=============================================================================
