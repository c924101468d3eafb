----------------------------- MODULE CodingDraft -----------------------------
(***************************************************************************)
(* The local copies of unsent codings: one user's tabs on the coding page  *)
(* of a project, and the slots of localStorage they share, one per         *)
(* document.  A slot is written by compare-and-swap on the token of the    *)
(* envelope a tab believes to be there.                                    *)
(*                                                                         *)
(* A tab runs one handler, timer or effect at a time: each is a step.  A   *)
(* snapshot of answers and notes is one value; 0 is the empty one.  The    *)
(* session's functions are operators on a session: the slots, and one tab. *)
(***************************************************************************)
EXTENDS Integers, FiniteSets, FiniteSetsExt

CONSTANTS
  Tabs,     \* tabs of the browser; each is loaded at most once
  Docs,     \* documents of the project
  None,     \* nothing: null, or a key that is absent
  Newer,    \* an envelope of a format only a newer build can read
  Scopes    \* the instances to check, see scope

VARIABLES
  scope,    \* assigned documents, values, what may happen, and bounds
  server,   \* the latest response of the user to each document
  slot,     \* localStorage: the envelope of each document
  room,     \* whether setItem succeeds, see Rooms
  tab,      \* each tab, see Tab
  edits     \* snapshots recorded so far: the next token, and the clock

vars == <<scope, server, slot, room, tab, edits>>

-----------------------------------------------------------------------------
\* Data.

Envelope == [token : Nat, by : Tabs, base : Nat, draft : Nat, expired : BOOLEAN]

\* DocDraftState.
DocState == [base : Nat, draft : Nat \cup {None}, write : Nat \cup {None},
             persisted : Nat \cup {None}, blocked : BOOLEAN]

Resumed == [doc : Docs, draft : Nat]
Offers == [doc : Docs, kind : {"resumable", "diverged"}, draft : Nat]
Sending == [doc : Docs, saved : Nat, done : BOOLEAN]

\* docs, timers, opened, ever: SessionState.  active: activeDocId; current: the
\* document of Assigned.  remote: what the server delivered, by the page's props
\* or the fetch of Explore.  screen: the form; restored: browseRestored.
Tab == [phase : {"new", "open", "gone"}, alone : BOOLEAN,
        docs : [Docs -> DocState \cup {None}], timers : [Docs -> Nat \cup {None}],
        opened : Docs \cup {None}, ever : BOOLEAN,
        active : Docs \cup {None}, current : Docs \cup {None},
        remote : [Docs -> Nat \cup {None}], screen : [Docs -> Nat \cup {None}],
        restored : Resumed \cup {None}, dirty : SUBSET Docs,
        offer : Offers \cup {None}, saving : Sending \cup {None}]

\* The documents can be counted, and nothing is none of the values of a variable.
ASSUME DraftAssumption ==
  /\ IsFiniteSet(Docs)
  /\ None # Newer /\ Newer \notin Envelope
  /\ None \notin Docs /\ None \notin Nat /\ None \notin Envelope /\ None \notin DocState
  /\ None \notin Resumed /\ None \notin Offers /\ None \notin Sending
  /\ \A x \in Scopes :
       /\ x.assigned \cup x.newer \subseteq Docs /\ x.places \subseteq Docs \cup {None}
       /\ x.values \subseteq Nat /\ {x.edits, x.ceiling} \subseteq Nat
       /\ {x.together, x.lossy, x.full, x.ages} \subseteq BOOLEAN

Unloaded ==
  [phase |-> "new", alone |-> TRUE,
   docs |-> [d \in Docs |-> None], timers |-> [d \in Docs |-> None],
   opened |-> None, ever |-> FALSE, active |-> None, current |-> None,
   remote |-> [d \in Docs |-> None], screen |-> [d \in Docs |-> None],
   restored |-> None, dirty |-> {}, offer |-> None, saving |-> None]

EmptyDocState(b) ==
  [base |-> b, draft |-> None, write |-> None, persisted |-> None, blocked |-> FALSE]

Assigned(d) == d \in scope.assigned
Open(t) == tab[t].phase = "open"

\* What readSlot returns: a newer format is no content to apply.
Readable(e) == e \notin {None, Newer}
Token(e) == IF Readable(e) THEN e.token ELSE None

\* setItem succeeds, or once the garbage has freed something, or not even then.
Rooms == {"free", "tight", "none"}

\* Types.
TypeOK ==
  /\ scope \in Scopes
  /\ server \in [Docs -> Nat]
  /\ slot \in [Docs -> Envelope \cup {None, Newer}]
  /\ room \in Rooms
  /\ tab \in [Tabs -> Tab]
  /\ edits \in Nat

Session(t) == [slot |-> slot, tab |-> tab[t]]
SetSession(t, s) == slot' = s.slot /\ tab' = [tab EXCEPT ![t] = s.tab]
SetState(s, d, st) == [s EXCEPT !.tab.docs[d] = st]
Offer(s, o) == [s EXCEPT !.tab.offer = o]

-----------------------------------------------------------------------------
\* Garbage collection.

\* sweepOwnKeys: what is dropped at once, and what counts for the ceiling.
Expired(slots, keep) == {d \in Docs \ keep : Readable(slots[d]) /\ slots[d].expired}
Survivors(slots, keep) ==
  {d \in Docs \ keep : Readable(slots[d]) /\ ~slots[d].expired}

\* Above the ceiling the oldest go first; the open document's slot counts if taken.
Evicted(slots, keep) ==
  LET alive == Survivors(slots, keep)
      overflow == Cardinality(alive) + Cardinality({d \in keep : slots[d] # None})
                    - scope.ceiling
  IN  {d \in alive : Cardinality({e \in alive : slots[e].token < slots[d].token}) < overflow}

\* collectCodingDraftGarbage.
Collect(slots, keep) ==
  LET doomed == Expired(slots, keep) \cup Evicted(slots, keep)
  IN  [d \in Docs |-> IF d \in doomed THEN None ELSE slots[d]]

-----------------------------------------------------------------------------
\* The session.

\* The compare-and-swap of writeSlotIfTokenMatches fails.
Taken(e, expected) == e = Newer \/ Token(e) # expected

\* persist: only the current token writes, over the envelope this tab believes to
\* be there, after an emergency collection if the storage is full.  What that
\* collection removed is gone even if it was not enough.
Persist(s, t, d, k) ==
  LET st    == s.tab.docs[d]
      freed == Collect(s.slot, {d})
      Fail(slots, blocked) ==
        [SetState(s, d, [st EXCEPT !.blocked = blocked]) EXCEPT !.slot = slots]
      Write(slots) ==
        [SetState(s, d, [st EXCEPT !.persisted = k, !.blocked = FALSE])
           EXCEPT !.slot = [slots EXCEPT ![d] =
                    [token |-> k, by |-> t, base |-> st.base, draft |-> st.draft,
                     expired |-> FALSE]]]
  IN  IF st = None THEN s
      ELSE IF st.draft = None \/ st.write # k THEN s
      ELSE IF Taken(s.slot[d], st.persisted) THEN Fail(s.slot, TRUE)
      ELSE IF room = "free" THEN Write(s.slot)
      ELSE IF room = "tight" /\ freed # s.slot THEN Write(freed)
      ELSE Fail(freed, FALSE)

\* Mutant: the slot is deleted by the token of the last edit.
LastWrite(s, d) == IF s.tab.docs[d] = None THEN None ELSE s.tab.docs[d].write

\* The envelope dropSlot may delete: this tab's, or else whatever is there.
TokenToDrop(s, d) ==
  LET st == s.tab.docs[d]
  IN  IF st # None /\ st.persisted # None THEN st.persisted ELSE Token(s.slot[d])

\* deleteSlotIfTokenMatches.
Delete(s, d, k) ==
  IF k # None /\ Token(s.slot[d]) = k THEN [s EXCEPT !.slot[d] = None] ELSE s

\* dropSlot.
DropSlot(s, d, b) ==
  SetState([Delete(s, d, TokenToDrop(s, d)) EXCEPT !.tab.timers[d] = None],
           d, EmptyDocState(b))

\* Mutant: a debounce that is due keeps the token of the edit that started it.
DebouncesOnce(s, d, c, k) ==
  LET st == s.tab.docs[d]
  IN  IF st = None THEN s
      ELSE IF c = st.base THEN DropSlot(s, d, st.base)
      ELSE [SetState(s, d, [st EXCEPT !.draft = c, !.write = k])
              EXCEPT !.tab.timers[d] = IF @ = None THEN k ELSE @]

\* recordDraftIn with scheduleWrite: an edit back to the baseline is no draft.
RecordDraft(s, d, c, k) ==
  LET st == s.tab.docs[d]
  IN  IF st = None THEN s
      ELSE IF c = st.base THEN DropSlot(s, d, st.base)
      ELSE [SetState(s, d, [st EXCEPT !.draft = c, !.write = k])
              EXCEPT !.tab.timers[d] = k]

\* seedBaseline: without a live draft the document takes the server's baseline,
\* and the envelope just observed becomes this tab's to overwrite.
SeedBaseline(st, b, observed) ==
  IF st # None /\ st.draft # None THEN st
  ELSE [(IF st = None THEN EmptyDocState(b) ELSE st)
          EXCEPT !.base = b, !.persisted = observed]

\* classifyCodingDraft: redundant before anything else.
Classify(e, b) ==
  CASE e = None -> "none"
    [] e # None /\ e.draft = b -> "redundant"
    [] OTHER -> IF e.base = b THEN "resumable" ELSE "diverged"

\* offerOrClean.
OfferOrClean(s, d, e, b) ==
  LET kind == Classify(e, b)
  IN  CASE kind = "none" -> Offer(s, None)
        [] kind = "redundant" -> Offer(Delete(s, d, e.token), None)
        [] OTHER -> Offer(s, [doc |-> d, draft |-> e.draft, kind |-> kind])

\* The first opening collects the garbage.
FirstGc(s, d) ==
  IF s.tab.ever THEN s ELSE [s EXCEPT !.slot = Collect(s.slot, {d} \ {None})]

\* openDocumentIn: idempotent for the document that is open.
OpenDocument(s, d, b) ==
  IF s.tab.ever /\ s.tab.opened = d THEN s
  ELSE LET o == [FirstGc(s, d) EXCEPT !.tab.ever = TRUE, !.tab.opened = d]
       IN  IF d = None THEN Offer(o, None)
           ELSE LET e == IF Readable(o.slot[d]) THEN o.slot[d] ELSE None
                IN  OfferOrClean(SetState(o, d, SeedBaseline(o.tab.docs[d], b, Token(e))), d, e, b)

\* Mutant: only the write of the open document is done.
FlushesOpen(s, t) ==
  LET d == s.tab.opened
      r == [s EXCEPT !.tab.timers = [e \in Docs |-> None]]
  IN  IF d = None THEN r
      ELSE IF s.tab.timers[d] = None \/ s.tab.docs[d] = None THEN r
      ELSE Persist(r, t, d, r.tab.docs[d].write)

\* A pending write is done at once, with the token its document has now.
Flush(s, t, d) ==
  LET r == [s EXCEPT !.tab.timers[d] = None]
  IN  IF s.tab.docs[d] = None THEN r ELSE Persist(r, t, d, s.tab.docs[d].write)

\* flushAll.
FlushAll(s, t) ==
  FoldSet(LAMBDA d, r : Flush(r, t, d), s, {d \in Docs : s.tab.timers[d] # None})

\* hasStoredDraft, and what the warning on leaving promises once the writes are done.
HasStoredDraft(s, d) == Readable(s.slot[d])
SaysEditsAreKept(s) ==
  s.tab.dirty # {} /\ \A d \in s.tab.dirty : HasStoredDraft(s, d)

-----------------------------------------------------------------------------
\* The page.

Loaded(x, d) == x.remote[d] # None

\* BrowseDocCoder mounts: it starts from what was resumed in this document, or
\* from the server's content.
Mount(x, d) ==
  [x EXCEPT !.screen[d] = IF x.restored # None /\ x.restored.doc = d
                          THEN x.restored.draft ELSE x.remote[d]]

\* Turning to another document of Assigned records its content again if unsent.
RecordsAgain(x, d) == d # None /\ Assigned(d) /\ d # x.current /\ d \in x.dirty

Turn(s, d, k) ==
  [(IF RecordsAgain(s.tab, d) THEN RecordDraft(s, d, s.tab.screen[d], k) ELSE s)
     EXCEPT !.tab.current = d]

\* The document on the screen changes, with the effects of the new render.
Show(s, d, k) ==
  LET a == [s EXCEPT !.tab.active = d]
  IN  IF d = None THEN OpenDocument(a, None, 0)
      ELSE IF Assigned(d) THEN OpenDocument(Turn(a, d, k), d, a.tab.remote[d])
      ELSE IF Loaded(a.tab, d)
      THEN OpenDocument([a EXCEPT !.tab = Mount(@, d)], d, a.tab.remote[d])
      ELSE a

\* Which tokens Show uses up.
Uses(x, d) == IF RecordsAgain(x, d) THEN 1 ELSE 0

\* The page is loaded at a document, or at the list of Explore.
Load(t, d) ==
  /\ tab[t].phase = "new"
  /\ (~scope.together => \A u \in Tabs : ~Open(u))
  /\ LET props == [e \in Docs |-> IF Assigned(e) THEN server[e] ELSE None]
         alone == \A u \in Tabs : ~Open(u)
         x == [Unloaded EXCEPT !.phase = "open", !.alone = alone,
                               !.remote = props, !.screen = props]
         s == Show([slot |-> slot, tab |-> x], d, 0)
     IN  /\ slot' = s.slot
         /\ tab' = [u \in Tabs |-> IF u = t THEN s.tab
                                   ELSE IF Open(u) THEN [tab[u] EXCEPT !.alone = FALSE]
                                   ELSE tab[u]]
  /\ UNCHANGED <<scope, server, room, edits>>

\* Previous, next, the list or the draw of Explore, back, or the other mode.  What
\* leaves a document of Explore waits for a send; the rest does not.
Select(t, d) ==
  /\ Open(t) /\ d # tab[t].active
  /\ (tab[t].saving # None => Assigned(tab[t].saving.doc))
  /\ edits + Uses(tab[t], d) <= scope.edits
  /\ edits' = edits + Uses(tab[t], d)
  /\ SetSession(t, Show(Session(t), d, edits + 1))
  /\ UNCHANGED <<scope, server, room>>

\* The content of the document of Explore arrives.
Fetched(t) ==
  /\ Open(t) /\ tab[t].active # None /\ ~Loaded(tab[t], tab[t].active)
  /\ LET d == tab[t].active
         x == Mount([tab[t] EXCEPT !.remote[d] = server[d]], d)
     IN  SetSession(t, OpenDocument([slot |-> slot, tab |-> x], d, server[d]))
  /\ UNCHANGED <<scope, server, room, edits>>

\* The props of the page as the server has them.
Props(x) == [x EXCEPT !.remote = [d \in Docs |-> IF Assigned(d) THEN server[d] ELSE @[d]]]

\* A navigation or revalidation delivers new props; the form is not seeded again.
Refresh(t) ==
  /\ Open(t)
  /\ \E d \in scope.assigned : tab[t].remote[d] # server[d]
  /\ tab' = [tab EXCEPT ![t] = Props(@)]
  /\ UNCHANGED <<scope, server, slot, room, edits>>

\* A form is on the screen.
Editing(x) == x.active # None /\ Loaded(x, x.active)

\* handleAnswer, handleNotesChange and the recording of what they made.
Type(t, c) ==
  /\ Open(t) /\ Editing(tab[t]) /\ tab[t].saving = None /\ edits < scope.edits
  /\ LET d == tab[t].active
     IN  /\ c # tab[t].screen[d]
         /\ SetSession(t, RecordDraft([slot |-> slot,
                                       tab |-> [tab[t] EXCEPT !.screen[d] = c,
                                                              !.dirty = @ \cup {d}]],
                                      d, c, edits + 1))
  /\ edits' = edits + 1
  /\ UNCHANGED <<scope, server, room>>

\* The debounce of a document ends.
TimerFires(t, d) ==
  /\ Open(t) /\ tab[t].timers[d] # None
  /\ SetSession(t, Persist([Session(t) EXCEPT !.tab.timers[d] = None],
                           t, d, tab[t].timers[d]))
  /\ UNCHANGED <<scope, server, room, edits>>

\* "Retomar": restoreDraft reads the slot of the document that is active, whoever
\* the banner is about; the form takes the content, which Assigned records again.
Restore(t) ==
  /\ Open(t) /\ tab[t].offer # None /\ tab[t].active # None /\ edits < scope.edits
  /\ LET d == tab[t].active
         e == slot[d]
         s == Offer(SetState(Session(t), d,
                      [base |-> e.base, draft |-> e.draft, write |-> e.token,
                       persisted |-> e.token, blocked |-> FALSE]), None)
         x == [s.tab EXCEPT !.dirty = @ \cup {d}]
     IN  IF ~Readable(e)
         THEN SetSession(t, Offer(Session(t), None)) /\ UNCHANGED edits
         ELSE IF Assigned(d)
         THEN /\ SetSession(t, RecordDraft([s EXCEPT !.tab = [x EXCEPT !.screen[d] = e.draft]],
                                           d, e.draft, edits + 1))
              /\ edits' = edits + 1
         ELSE LET y == [x EXCEPT !.restored = [doc |-> d, draft |-> e.draft]]
              IN  /\ SetSession(t, [s EXCEPT !.tab = IF Loaded(y, d) THEN Mount(y, d) ELSE y])
                  /\ UNCHANGED edits
  /\ UNCHANGED <<scope, server, room>>

\* "Descartar", likewise of the document that is active.
Discard(t) ==
  /\ Open(t) /\ tab[t].offer # None /\ tab[t].active # None
  /\ LET d == tab[t].active
         b == IF tab[t].docs[d] = None THEN 0 ELSE tab[t].docs[d].base
     IN  SetSession(t, Offer(DropSlot(Session(t), d, b), None))
  /\ UNCHANGED <<scope, server, room, edits>>

\* "Enviar", its commit on the server, and the answer, which may be lost.
Submit(t) ==
  /\ Open(t) /\ Editing(tab[t]) /\ tab[t].saving = None
  /\ tab[t].screen[tab[t].active] # 0
  /\ tab' = [tab EXCEPT ![t].saving =
               [doc |-> tab[t].active, saved |-> tab[t].screen[tab[t].active], done |-> FALSE]]
  /\ UNCHANGED <<scope, server, slot, room, edits>>

Commit(t) ==
  /\ tab[t].saving # None /\ ~tab[t].saving.done
  /\ server' = [server EXCEPT ![tab[t].saving.doc] = tab[t].saving.saved]
  /\ tab' = [tab EXCEPT ![t].saving.done = TRUE]
  /\ UNCHANGED <<scope, slot, room, edits>>

\* markClean and submitConfirmed.
SubmitConfirmed(s, d, saved) ==
  Offer(DropSlot([s EXCEPT !.tab.dirty = @ \ {d}, !.tab.saving = None], d, saved), None)

\* The send is confirmed, with a render of the page (revalidatePath): the page stays
\* (a required answer is missing), turns to another assigned document, unseen if
\* Explore is shown meanwhile, or closes the one of Explore, which is fetched again.
Confirmed(t) ==
  /\ Open(t) /\ tab[t].saving # None /\ tab[t].saving.done
  /\ LET d == tab[t].saving.doc
         s == SubmitConfirmed(Session(t), d, tab[t].saving.saved)
         r == [s EXCEPT !.tab = IF Assigned(d) THEN Props(@)
                                ELSE [Props(@) EXCEPT !.remote[d] = None]]
     IN  \E next \in {tab[t].active} \cup (IF Assigned(d) THEN scope.assigned ELSE {None}) :
           /\ edits + Uses(r.tab, next) <= scope.edits
           /\ edits' = edits + Uses(r.tab, next)
           /\ SetSession(t, IF next = tab[t].active THEN r
                            ELSE IF Assigned(d) /\ tab[t].active = None
                            THEN Turn(r, next, edits + 1)
                            ELSE Show(r, next, edits + 1))
  /\ UNCHANGED <<scope, server, room>>

\* The action refused, or its answer is lost.
Refused(t) ==
  /\ Open(t) /\ tab[t].saving # None /\ (tab[t].saving.done => scope.lossy)
  /\ tab' = [tab EXCEPT ![t].saving = None]
  /\ UNCHANGED <<scope, server, slot, room, edits>>

\* The tab is hidden; it is closed or left, after the warning; the browser dies.
Hide(t) ==
  /\ Open(t) /\ \E d \in Docs : tab[t].timers[d] # None
  /\ SetSession(t, FlushAll(Session(t), t))
  /\ UNCHANGED <<scope, server, room, edits>>

Leave(t) ==
  /\ Open(t)
  /\ slot' = FlushAll(Session(t), t).slot
  /\ tab' = [tab EXCEPT ![t] = [Unloaded EXCEPT !.phase = "gone"]]
  /\ UNCHANGED <<scope, server, room, edits>>

Crash ==
  /\ \E t \in Tabs : Open(t)
  /\ tab' = [t \in Tabs |-> IF Open(t) THEN [Unloaded EXCEPT !.phase = "gone"] ELSE tab[t]]
  /\ UNCHANGED <<scope, server, slot, room, edits>>

\* The browser's storage fills up, or is emptied; thirty days pass.
Fill ==
  /\ scope.full /\ room' \in Rooms \ {room}
  /\ UNCHANGED <<scope, server, slot, tab, edits>>

Expire(d) ==
  /\ scope.ages /\ Readable(slot[d]) /\ ~slot[d].expired
  /\ slot' = [slot EXCEPT ![d].expired = TRUE]
  /\ UNCHANGED <<scope, server, room, tab, edits>>

-----------------------------------------------------------------------------
Init ==
  /\ scope \in Scopes
  /\ server = [d \in Docs |-> 0]
  /\ slot = [d \in Docs |-> IF d \in scope.newer THEN Newer ELSE None]
  /\ room = "free"
  /\ tab = [t \in Tabs |-> Unloaded]
  /\ edits = 0

TabStep(t) ==
  \/ \E d \in scope.places : Load(t, d) \/ Select(t, d)
  \/ Fetched(t) \/ Refresh(t)
  \/ \E c \in scope.values : Type(t, c)
  \/ \E d \in Docs : TimerFires(t, d)
  \/ Restore(t) \/ Discard(t)
  \/ Submit(t) \/ Commit(t) \/ Confirmed(t) \/ Refused(t)
  \/ Hide(t) \/ Leave(t)

Next ==
  \/ \E t \in Tabs : TabStep(t)
  \/ Crash \/ Fill
  \/ \E d \in Docs : Expire(d)

Spec == Init /\ [][Next]_vars

-----------------------------------------------------------------------------
\* Properties.

\* An envelope that an open tab wrote, and nobody replaced, is the one it believes to
\* be its own: it can still write over it and delete it (persistedToken in
\* coding-draft-storage.ts warns of the orphan that blocks the rest of the session).
NoOrphans ==
  \A t \in Tabs, d \in Docs :
    Open(t) /\ Readable(slot[d]) /\ slot[d].by = t
      => tab[t].docs[d] # None /\ tab[t].docs[d].persisted = slot[d].token

Sends(t, d) == tab[t].saving # None /\ tab[t].saving.doc = d

\* While one tab is open and the storage has room, an edit that the server does not have,
\* and whose write is neither due nor refused, is in localStorage as it was made, and a
\* crash cannot take it; a send of the document on its way aside (useCodingDrafts).
DraftsAreStored ==
  \A t \in Tabs, d \in Docs :
    LET st == tab[t].docs[d]
    IN  Open(t) /\ tab[t].alone /\ ~scope.full /\ st # None /\ ~Sends(t, d)
          => (st.draft \notin {None, server[d]} /\ tab[t].timers[d] = None /\ ~st.blocked
                => Readable(slot[d]) /\ slot[d].draft = st.draft)

\* So it is, unless an answer of the server may be lost: the page goes on with an old
\* baseline, and the envelope of an edit equal to it is deleted as redundant.
UnsentIsKept == ~scope.lossy => DraftsAreStored

\* What the user sees or last typed of a document: the form of Assigned, or what was
\* recorded in Explore.
LastEdit(t, d) == IF Assigned(d) THEN tab[t].screen[d] ELSE tab[t].docs[d].draft

\* The storage refused the last write of d, which the session holds, now or before, and
\* an envelope that this tab may write over is still there.
OlderIsKept(s, t, d) ==
  /\ scope.full /\ (tab[t].timers[d] # None => room # "free")
  /\ s.slot[d].token = s.tab.docs[d].persisted
  /\ s.tab.docs[d].draft = LastEdit(t, d)

\* Another tab is or was open beside this one, and wrote what is there.
OthersIsKept(s, t, d) == ~s.tab.alone /\ s.slot[d].by # t

\* When the warning on leaving says that the edits stay in this browser, each envelope
\* is the last edit of its document, unless the storage refused that one or another tab
\* has the slot: whatever documents were edited, resumed, sent or left before, no
\* debounce is lost on the way (describe in CodingPage, flushAll).
LeavingIsTruthful ==
  \A t \in Tabs :
    LET s == FlushAll(Session(t), t)
    IN  Open(t) /\ SaysEditsAreKept(s)
          => \A d \in tab[t].dirty :
               \/ s.slot[d].draft = LastEdit(t, d)
               \/ OlderIsKept(s, t, d) \/ OthersIsKept(s, t, d)

\* Kept, not claimed by the passing run (see the README).

\* Only another tab, or a newer build, takes a slot from a tab (comment of
\* seedBaseline, coding-draft-storage.ts).
OnlyOthersBlock ==
  \A t \in Tabs, d \in Docs :
    Open(t) /\ tab[t].alone /\ tab[t].docs[d] # None
      => (tab[t].docs[d].blocked => slot[d] = Newer)

\* The warning never promises a copy that is not there: "quando a quota estourou ou quando
\* o slot foi descartado" it says so (hasStoredDraft, coding-draft-storage.ts, and
\* UnsavedWorkDialog).
WarningIsTruthful ==
  \A t \in Tabs :
    LET s == FlushAll(Session(t), t)
    IN  Open(t) /\ SaysEditsAreKept(s)
          => \A d \in tab[t].dirty : s.slot[d].draft = LastEdit(t, d)

\* A document of Explore that is on the screen with nothing unsent shows what the server
\* delivered (comment of handleBrowseSubmit, useBrowseCoding.ts).
CleanFormsShowTheServer ==
  \A t \in Tabs :
    LET d == tab[t].active
    IN  Open(t) /\ d # None
          => (Loaded(tab[t], d) /\ ~Assigned(d) /\ d \notin tab[t].dirty
                => tab[t].screen[d] = tab[t].remote[d])

\* The banner is about the document on the screen ("neste documento", CodingDraftBanner).
OffersAreOfTheActive ==
  \A t \in Tabs : Open(t) /\ tab[t].offer # None => tab[t].offer.doc = tab[t].active

\* A tab deletes from an open document only the envelope it believes to be its own
\* ("sempre por ele que se apaga", comment of persistedToken).
DeletesOnlyItsOwn ==
  [][\A t \in Tabs, d \in Docs :
       Readable(slot[d]) /\ slot'[d] = None /\ tab'[t] # tab[t] /\ tab[t].docs[d] # None
         => tab[t].docs[d].persisted = slot[d].token]_vars
=============================================================================
