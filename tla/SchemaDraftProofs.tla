--------------------------- MODULE SchemaDraftProofs ---------------------------
(***************************************************************************)
(* Theorems about SchemaDraft, for any number of editors, revisions and    *)
(* edits, whatever schemas are committed and whatever the merge returns:   *)
(* a draft differs from the schema it was made over, in memory and in      *)
(* storage, and an editor's own writes never make it take the stored       *)
(* draft for somebody else's.                                              *)
(*                                                                         *)
(* The inductive invariant is SInv: every revision a session, a stored     *)
(* draft or an answer names exists, and who changed the stored draft last  *)
(* knows its token. The invariant says the latter of the editors on the    *)
(* screen only: one that left it has flushed a draft its state is behind.  *)
(***************************************************************************)
EXTENDS SchemaDraft, TLAPS

Revisions == 0..Current

Recorded == \E S : history \in Seq(S) /\ Len(history) > 0

\* The state of an editor names revisions that exist.
Sound(s) ==
  /\ s.kind \in {"closed", "clean", "dirty", "conflict"}
  /\ Open(s) => /\ {"kind", "base", "fields", "token", "stored", "blocked"} \subseteq DOMAIN s
                /\ s.base \in Revisions
  /\ s.kind = "dirty" => s.fields # Snapshot(s.base)
  /\ s.kind = "conflict" => {"remote", "answers"} \subseteq DOMAIN s /\ s.remote \in Revisions

SoundDraft(e) == e # NoDraft => e.base \in Revisions /\ e.fields # Snapshot(e.base)

SoundCall(c) ==
  c.stage = "answered" =>
    c.status \in {"saved", "conflict", "error"} /\ (c.status # "error" => c.rev \in Revisions)

\* The inductive invariant.
SInv ==
  /\ Recorded
  /\ DOMAIN session = Sessions /\ DOMAIN call = Sessions /\ mounted \subseteq Sessions
  /\ \A t \in Sessions : Sound(session[t]) /\ SoundCall(call[t])
  /\ SoundDraft(slot)
  /\ \A t \in mounted : Open(session[t]) /\ (slotBy = t => slot.token = session[t].stored)

-----------------------------------------------------------------------------
\* The transitions of the hook.

\* An editor and the slot.
Good(h) ==
  /\ {"me", "tab", "slot", "by"} \subseteq DOMAIN h
  /\ Open(h.tab) /\ Sound(h.tab) /\ SoundDraft(h.slot)

\* Who changed the slot last knows its token.
Owner(h) == h.by = h.me => h.slot.token = h.tab.stored

\* What a transition makes of an editor and the slot.
Yields(h, k) ==
  /\ Good(k) /\ k.me = h.me
  /\ k.by = h.me \/ (k.slot = h.slot /\ k.by = h.by)
  /\ Owner(h) => Owner(k) /\ (h.by = h.me /\ k.tab.blocked => h.tab.blocked)

LEMMA YieldsStays ==
  ASSUME NEW h, Good(h)
  PROVE  Yields(h, h)
BY DEF Yields

LEMMA YieldsTwice ==
  ASSUME NEW h, NEW k, NEW m, Yields(h, k), Yields(k, m)
  PROVE  Yields(h, m)
BY DEF Yields, Owner

\* A draft over a revision that exists, with other fields, is written or not.
LEMMA WriteYields ==
  ASSUME NEW h, Good(h), NEW base \in Revisions, NEW fields, fields # Snapshot(base), NEW token
  PROVE  Yields(h, AfterWrite(h, base, fields, token))
<1> DEFINE mine == h.slot.token = h.tab.stored
<1>1. CASE mine /\ ~storageFull
  <2> DEFINE k == [h EXCEPT !.tab = Dirty(base, fields, token, token, FALSE),
                            !.slot = Envelope(token, base, fields), !.by = h.me]
  <2>1. AfterWrite(h, base, fields, token) = k  BY <1>1 DEF AfterWrite
  <2>2. /\ k.tab = Dirty(base, fields, token, token, FALSE)
        /\ k.slot = Envelope(token, base, fields) /\ k.by = h.me /\ k.me = h.me
        /\ DOMAIN k = DOMAIN h
    BY DEF Good
  <2> HIDE DEF k
  <2> QED  BY <2>1, <2>2 DEF Yields, Good, Owner, Sound, SoundDraft, Open, Dirty, Envelope
<1>2. CASE mine /\ storageFull
  <2> DEFINE k == [h EXCEPT !.tab = Dirty(base, fields, token, h.tab.stored, FALSE)]
  <2>1. AfterWrite(h, base, fields, token) = k  BY <1>2 DEF AfterWrite
  <2>2. /\ k.tab = Dirty(base, fields, token, h.tab.stored, FALSE)
        /\ k.slot = h.slot /\ k.by = h.by /\ k.me = h.me /\ DOMAIN k = DOMAIN h
    BY DEF Good
  <2> HIDE DEF k
  <2> QED  BY <2>1, <2>2 DEF Yields, Good, Owner, Sound, Open, Dirty
<1>3. CASE ~mine
  <2> DEFINE k == [h EXCEPT !.tab = Dirty(base, fields, token, NoToken, TRUE)]
  <2>1. AfterWrite(h, base, fields, token) = k  BY <1>3 DEF AfterWrite
  <2>2. /\ k.tab = Dirty(base, fields, token, NoToken, TRUE)
        /\ k.slot = h.slot /\ k.by = h.by /\ k.me = h.me /\ DOMAIN k = DOMAIN h
    BY DEF Good
  <2> HIDE DEF k
  <2> QED  BY <1>3, <2>1, <2>2 DEF Yields, Good, Owner, Sound, Open, Dirty
<1> QED  BY <1>1, <1>2, <1>3

\* Nothing is left of a draft this editor owns.
LEMMA DeleteYields ==
  ASSUME NEW h, Good(h), NEW rev \in Revisions
  PROVE  Yields(h, AfterDelete(h, rev))
<1> DEFINE mine == h.tab.stored # NoToken /\ h.slot.token = h.tab.stored
<1>1. CASE mine
  <2> DEFINE k == [h EXCEPT !.tab = Clean(rev), !.slot = NoDraft, !.by = h.me]
  <2>1. AfterDelete(h, rev) = k  BY <1>1 DEF AfterDelete
  <2>2. /\ k.tab = Clean(rev) /\ k.slot = NoDraft /\ k.by = h.me /\ k.me = h.me
        /\ DOMAIN k = DOMAIN h
    BY DEF Good
  <2> HIDE DEF k
  <2> QED  BY <2>1, <2>2 DEF Yields, Good, Owner, Sound, SoundDraft, Open, Clean, NoDraft
<1>2. CASE ~mine
  <2> DEFINE k == [h EXCEPT !.tab = Clean(rev)]
  <2>1. AfterDelete(h, rev) = k  BY <1>2 DEF AfterDelete
  <2>2. /\ k.tab = Clean(rev) /\ k.slot = h.slot /\ k.by = h.by /\ k.me = h.me
        /\ DOMAIN k = DOMAIN h
    BY DEF Good
  <2> HIDE DEF k
  <2> QED  BY <1>2, <2>1, <2>2 DEF Yields, Good, Owner, Sound, Open, Clean
<1> QED  BY <1>1, <1>2

LEMMA PersistYields ==
  ASSUME NEW h, Good(h)
  PROVE  Yields(h, Persisted(h))
BY YieldsStays, WriteYields DEF Persisted, Good, Sound, Open

LEMMA MergeYields ==
  ASSUME NEW h, Good(h), NEW rev \in Revisions, NEW merged
  PROVE  Yields(h, AfterMerge(h, rev, merged))
BY DeleteYields, WriteYields DEF AfterMerge

LEMMA SaveYields ==
  ASSUME NEW h, Good(h), NEW rev \in Revisions
  PROVE  Yields(h, AfterSave(h, rev))
BY DeleteYields, WriteYields DEF AfterSave

\* Who types goes on with the token stored last.
LEMMA FieldsYield ==
  ASSUME NEW h, Good(h), NEW fields
  PROVE  Yields(h, AfterFieldsChange(h, fields))
<1>1. h.tab.base \in Revisions  BY DEF Good, Sound
<1>2. CASE fields = Snapshot(h.tab.base)
  BY <1>1, <1>2, DeleteYields DEF AfterFieldsChange
<1>3. CASE fields # Snapshot(h.tab.base)
  <2> DEFINE tab == Dirty(h.tab.base, fields, FreshToken, h.tab.stored, h.tab.blocked)
             k == [h EXCEPT !.tab = tab]
  <2>1. AfterFieldsChange(h, fields) = k  BY <1>3 DEF AfterFieldsChange
  <2>2. /\ k.tab = tab /\ k.slot = h.slot /\ k.by = h.by /\ k.me = h.me /\ DOMAIN k = DOMAIN h
    BY DEF Good
  <2> HIDE DEF k
  <2>3. /\ Open(tab) /\ Sound(tab) /\ tab.stored = h.tab.stored /\ tab.blocked = h.tab.blocked
    BY <1>1, <1>3 DEF Sound, Open, Dirty
  <2> HIDE DEF tab
  <2> QED  BY <2>1, <2>2, <2>3 DEF Yields, Good, Owner
<1> QED  BY <1>2, <1>3

\* The editor that wrote the slot is still its owner when it has to ask.
LEMMA RemoteYields ==
  ASSUME NEW h, Good(h), NEW rev \in Revisions
  PROVE  Yields(h, AfterRemoteChange(h, rev))
<1> DEFINE answers == IF h.tab.kind = "conflict"
                      THEN AnswersOf(Snapshot(h.tab.base), h.tab.fields,
                                     Snapshot(h.tab.remote), h.tab.answers)
                      ELSE NoAnswers
           base == Snapshot(h.tab.base)
           draft == IF h.tab.kind = "clean"
                    THEN Envelope(FreshToken, h.tab.base, h.tab.fields)
                    ELSE Envelope(h.tab.token, h.tab.base, h.tab.fields)
           remote == Snapshot(rev)
           kept == AnswersOf(base, draft.fields, remote, answers)
           stillMine == h.slot.token = h.tab.stored
           merged == MergedFields(base, draft.fields, remote, answers)
           stored == IF stillMine THEN h.tab.stored ELSE NoToken
           blocked == h.slot # NoDraft /\ ~stillMine
           tab == Conflict(draft, rev, kept, stored, blocked)
           k == [h EXCEPT !.tab = tab]
<1>1. AfterRemoteChange(h, rev) \in {h, AfterMerge(h, rev, merged), k}
  BY Zenon DEF AfterRemoteChange
<1>2. Yields(h, k)
  <2>1. /\ k.tab = tab /\ k.slot = h.slot /\ k.by = h.by /\ k.me = h.me /\ DOMAIN k = DOMAIN h
    BY DEF Good
  <2>2. draft.base = h.tab.base  BY DEF Envelope
  <2> HIDE DEF k, draft, kept, stored, blocked
  <2>3. Open(tab) /\ Sound(tab)  BY <2>2 DEF Sound, Open, Conflict, Good
  <2>4. tab.stored = stored /\ tab.blocked = blocked  BY DEF Conflict
  <2> HIDE DEF tab
  <2>5. Owner(h) /\ h.by = h.me => stored = h.tab.stored /\ ~blocked
    BY DEF Owner, stored, blocked
  <2>6. Good(k)  BY <2>1, <2>3 DEF Good
  <2>7. Owner(h) => Owner(k) /\ (h.by = h.me => ~k.tab.blocked)
    BY <2>1, <2>4, <2>5 DEF Owner
  <2> QED  BY <2>1, <2>6, <2>7 DEF Yields
<1> HIDE DEF merged, k
<1> QED  BY <1>1, <1>2, YieldsStays, MergeYields

LEMMA ResolutionYields ==
  ASSUME NEW h, Good(h), h.tab.kind = "conflict", NEW d, NEW side
  PROVE  Yields(h, AfterResolution(h, d, side))
<1> DEFINE base == Snapshot(h.tab.base)
           remote == Snapshot(h.tab.remote)
           answers == [x \in DOMAIN h.tab.answers \union {d} |->
                         IF x = d THEN side ELSE h.tab.answers[x]]
           tab == [h.tab EXCEPT !.answers = AnswersOf(base, h.tab.fields, remote, answers)]
           k == [h EXCEPT !.tab = tab]
<1>1. AfterResolution(h, d, side) = k  BY DEF AfterResolution
<1>2. /\ k.tab = tab /\ k.slot = h.slot /\ k.by = h.by /\ k.me = h.me /\ DOMAIN k = DOMAIN h
  BY DEF Good
<1>3. /\ DOMAIN tab = DOMAIN h.tab /\ tab.kind = "conflict" /\ tab.base = h.tab.base
      /\ tab.remote = h.tab.remote /\ tab.stored = h.tab.stored /\ tab.blocked = h.tab.blocked
  BY DEF Good, Sound
<1> HIDE DEF tab, k
<1>4. Open(tab) /\ Sound(tab)  BY <1>3 DEF Good, Sound, Open
<1>5. Good(k)  BY <1>2, <1>3, <1>4 DEF Good
<1> QED  BY <1>1, <1>2, <1>3, <1>5 DEF Yields, Owner

-----------------------------------------------------------------------------
\* The steps.

\* Whoever starts to say that another tab owns the draft is not its writer.
OwnStep ==
  \A t \in Sessions :
    Open(session[t]) /\ Open(session'[t]) /\ session'[t].blocked /\ ~session[t].blocked
      => slotBy # t

LEMMA OpenIsGood ==
  ASSUME SInv, NEW t \in Sessions, Open(session[t])
  PROVE  Good(Here(t))
BY DEF SInv, Good, Here

LEMMA HereIsGood ==
  ASSUME SInv, NEW t \in mounted
  PROVE  Good(Here(t)) /\ Owner(Here(t))
BY DEF SInv, Good, Owner, Here

\* An editor on the screen and the slot change together.
LEMMA TurnKeeps ==
  ASSUME SInv, NEW t \in mounted, NEW k, Yields(Here(t), k), Becomes(t, k),
         UNCHANGED <<history, mounted>>, DOMAIN call' = Sessions,
         \A u \in Sessions : SoundCall(call'[u])
  PROVE  SInv' /\ OwnStep
<1>1. t \in Sessions /\ Open(session[t])  BY DEF SInv
<1>2. /\ session' = [session EXCEPT ![t] = k.tab] /\ slot' = k.slot /\ slotBy' = k.by
  BY DEF Becomes
<1>3. DOMAIN session' = Sessions /\ session'[t] = k.tab
      /\ \A u \in Sessions : u # t => session'[u] = session[u]
  BY <1>1, <1>2 DEF SInv
<1>4. /\ Open(k.tab) /\ Sound(k.tab) /\ SoundDraft(k.slot)
      /\ k.by = t => k.slot.token = k.tab.stored
      /\ k.by = t \/ (k.slot = slot /\ k.by = slotBy)
      /\ slotBy = t /\ k.tab.blocked => session[t].blocked
  BY HereIsGood DEF Yields, Good, Owner, Here
<1>5. Recorded' /\ Revisions' = Revisions /\ \A r : Snapshot(r)' = Snapshot(r)
  BY DEF SInv, Recorded, Revisions, Current, Snapshot
<1>6. \A u \in Sessions : Sound(session[u])' /\ SoundCall(call[u])'
  BY <1>3, <1>4, <1>5 DEF SInv, Sound, SoundCall, Open
<1>7. SoundDraft(slot)'  BY <1>2, <1>4, <1>5 DEF SoundDraft
<1>8. \A u \in mounted : Open(session'[u]) /\ (slotBy' = u => slot'.token = session'[u].stored)
  BY <1>1, <1>2, <1>3, <1>4 DEF SInv
<1>9. OwnStep  BY <1>1, <1>3, <1>4 DEF OwnStep
<1> QED  BY <1>3, <1>5, <1>6, <1>7, <1>8, <1>9 DEF SInv, Open

\* Revisions are added, and none of them changes.
LEMMA CommitKeeps ==
  ASSUME SInv, NEW schema, history' = Append(history, schema),
         UNCHANGED <<session, mounted, slot, slotBy>>
  PROVE  /\ Recorded' /\ Revisions \subseteq Revisions' /\ Current + 1 \in Revisions'
         /\ \A u \in Sessions : Sound(session[u])'
         /\ SoundDraft(slot)'
<1>1. PICK S : history \in Seq(S) /\ Len(history) > 0  BY DEF SInv, Recorded
<1>2. history \in Seq(S \union {schema})  BY <1>1
<1>3. /\ history' \in Seq(S \union {schema}) /\ Len(history') = Len(history) + 1
      /\ \A i \in 1..Len(history) : history'[i] = history[i]
  BY <1>2
<1>4. Current' = Current + 1 /\ Current \in Nat  BY <1>1, <1>3 DEF Current
<1>5. Revisions \subseteq Revisions' /\ Current + 1 \in Revisions'  BY <1>4 DEF Revisions
<1>6. \A r \in Revisions : Snapshot(r)' = Snapshot(r)
  BY <1>1, <1>3 DEF Revisions, Snapshot, Current
<1>7. Recorded'  BY <1>1, <1>3 DEF Recorded
<1>8. \A u \in Sessions : Sound(session[u])'
  BY <1>5, <1>6 DEF SInv, Sound, Open
<1>9. SoundDraft(slot)'  BY <1>5, <1>6 DEF SInv, SoundDraft
<1> QED  BY <1>5, <1>7, <1>8, <1>9

\* What does not touch the editors blocks none of them.
LEMMA QuietStep ==
  ASSUME UNCHANGED session
  PROVE  OwnStep
BY DEF OwnStep

\* A draft is recovered, rebased or dropped when its editor opens.
LEMMA MountKeeps ==
  ASSUME SInv, NEW t \in Sessions, Mount(t)
  PROVE  SInv' /\ OwnStep
<1> DEFINE h == Here(t)
           owned == [h EXCEPT !.tab = Dirty(slot.base, slot.fields, slot.token, slot.token, FALSE)]
           merged(rev) == MergedFields(Snapshot(slot.base), slot.fields, Snapshot(rev), NoAnswers)
<1>1. PICK rev \in 0..Current : Becomes(t, AfterMount(h, rev))  BY DEF Mount
<1> DEFINE k == AfterMount(h, rev)
           asks == [h EXCEPT !.tab = Conflict(slot, rev, NoAnswers, slot.token, FALSE)]
<1>2. ~Open(session[t]) /\ mounted' = mounted \union {t} /\ UNCHANGED <<history, call>>
  BY DEF Mount
<1>3. /\ h.me = t /\ h.tab = session[t] /\ h.slot = slot /\ h.by = slotBy
      /\ DOMAIN h = {"me", "tab", "slot", "by"}
  BY DEF Here
<1>4. rev \in Revisions /\ SoundDraft(slot)  BY DEF SInv, Revisions
<1>5. Good(k) /\ Owner(k) /\ k.me = t /\ (k.by = t \/ (k.slot = slot /\ k.by = slotBy))
  <2>1. CASE slot = NoDraft
    <3> DEFINE m == [h EXCEPT !.tab = Clean(rev)]
    <3>1. k = m  BY <2>1, <1>3 DEF AfterMount
    <3>2. /\ m.tab = Clean(rev) /\ m.slot = slot /\ m.by = slotBy /\ m.me = t
          /\ DOMAIN m = DOMAIN h
      BY <1>3
    <3> HIDE DEF k, m, h
    <3> QED  BY <1>3, <1>4, <2>1, <3>1, <3>2 DEF Good, Owner, Sound, Open, Clean, NoDraft
  <2>2. CASE slot # NoDraft
    <3>1. slot.base \in Revisions /\ slot.fields # Snapshot(slot.base)
      BY <1>4, <2>2 DEF SoundDraft
    <3>2. /\ owned.tab = Dirty(slot.base, slot.fields, slot.token, slot.token, FALSE)
          /\ owned.slot = slot /\ owned.by = slotBy /\ owned.me = t /\ DOMAIN owned = DOMAIN h
      BY <1>3
    <3>3. /\ asks.tab = Conflict(slot, rev, NoAnswers, slot.token, FALSE)
          /\ asks.slot = slot /\ asks.by = slotBy /\ asks.me = t /\ DOMAIN asks = DOMAIN h
      BY <1>3
    <3>4. k \in {owned, asks, AfterDelete(owned, rev), AfterMerge(owned, rev, merged(rev))}
      <4>0. h.slot = slot  BY <1>3
      <4>1. slot.base > rev \/ slot.base = rev \/ slot.base < rev
        BY <1>4, <3>1 DEF SInv, Recorded, Revisions, Current
      <4>2. CASE slot.base > rev
        <5>1. k = owned  BY <1>3, <1>4, <2>2, <3>1, <4>2 DEF AfterMount, Revisions
        <5> QED  BY <5>1
      <4>3. CASE slot.base = rev
        <5>1. ~(slot.base > rev)  BY <1>4, <4>3 DEF Revisions
        <5>2. k = IF slot.fields = Snapshot(rev) THEN AfterDelete(owned, rev) ELSE owned
          BY ONLY <4>0, <2>2, <4>3, <5>1 DEF AfterMount
        <5> QED  BY ONLY <5>2
      <4>4. CASE slot.base < rev
        <5>1. ~(slot.base > rev) /\ slot.base # rev
          BY <1>4, <3>1, <4>4 DEF Revisions
        <5>2. k = IF Unanswered(Snapshot(slot.base), slot.fields, Snapshot(rev), NoAnswers) # {}
                  THEN asks ELSE AfterMerge(owned, rev, merged(rev))
          BY ONLY <4>0, <2>2, <4>4, <5>1 DEF AfterMount
        <5> QED  BY ONLY <5>2
      <4> QED  BY <4>1, <4>2, <4>3, <4>4
    <3> HIDE DEF k, owned, asks, h, merged
    <3>5. Good(owned) /\ Owner(owned)
      BY <1>3, <1>4, <3>1, <3>2 DEF Good, Owner, Sound, Open, Dirty
    <3>6. Good(asks) /\ Owner(asks)
      BY <1>3, <1>4, <3>1, <3>3 DEF Good, Owner, Sound, Open, Conflict
    <3>7. \A m : Yields(owned, m) =>
            Good(m) /\ Owner(m) /\ m.me = t /\ (m.by = t \/ (m.slot = slot /\ m.by = slotBy))
      BY <3>2, <3>5 DEF Yields
    <3> QED  BY <1>4, <3>2, <3>3, <3>4, <3>5, <3>6, <3>7, DeleteYields, MergeYields
  <2> QED  BY <2>1, <2>2
<1> HIDE DEF k, h
<1>6. session' = [session EXCEPT ![t] = k.tab] /\ slot' = k.slot /\ slotBy' = k.by
  BY <1>1 DEF Becomes, k
<1>7. DOMAIN session' = Sessions /\ session'[t] = k.tab
      /\ \A u \in Sessions : u # t => session'[u] = session[u]
  BY <1>6 DEF SInv
<1>8. Recorded' /\ Revisions' = Revisions /\ \A r : Snapshot(r)' = Snapshot(r)
  BY <1>2 DEF SInv, Recorded, Revisions, Current, Snapshot
<1>9. \A u \in Sessions : Sound(session[u])' /\ SoundCall(call[u])'
  BY <1>2, <1>5, <1>7, <1>8 DEF SInv, Good, Sound, SoundCall, Open
<1>10. SoundDraft(slot)'  BY <1>5, <1>6, <1>8 DEF Good, SoundDraft
<1>11. \A u \in mounted' : Open(session'[u]) /\ (slotBy' = u => slot'.token = session'[u].stored)
  BY <1>2, <1>5, <1>6, <1>7 DEF SInv, Good, Owner
<1>12. OwnStep  BY <1>2, <1>7 DEF OwnStep
<1> QED  BY <1>2, <1>7, <1>8, <1>9, <1>10, <1>11, <1>12 DEF SInv, Open

\* The calls are unchanged, or one of them goes on.
LEMMA CallsSound ==
  ASSUME SInv, NEW t \in Sessions, NEW c, SoundCall(c), call' \in {call, [call EXCEPT ![t] = c]}
  PROVE  DOMAIN call' = Sessions /\ \A u \in Sessions : SoundCall(call'[u])
BY DEF SInv

\* The coordinator types, or the draft is written.
LEMMA EditKeeps ==
  ASSUME SInv, NEW t \in Sessions, Edit(t)
  PROVE  SInv' /\ OwnStep
<1>1. t \in mounted /\ UNCHANGED <<history, mounted, call>>  BY DEF Edit
<1>2. PICK fields : Becomes(t, AfterFieldsChange(Here(t), fields))  BY DEF Edit
<1>3. Yields(Here(t), AfterFieldsChange(Here(t), fields))
  BY <1>1, HereIsGood, FieldsYield
<1> QED  BY <1>1, <1>2, <1>3, TurnKeeps DEF SInv

LEMMA PersistKeeps ==
  ASSUME SInv, NEW t \in Sessions, Persist(t)
  PROVE  SInv' /\ OwnStep
<1>1. /\ t \in mounted /\ UNCHANGED <<history, mounted, call>>
      /\ Becomes(t, Persisted(Here(t)))
  BY DEF Persist
<1>2. Yields(Here(t), Persisted(Here(t)))  BY <1>1, HereIsGood, PersistYields
<1> QED  BY <1>1, <1>2, TurnKeeps DEF SInv

\* The draft is written first, then the newer schema arrives.
LEMMA PersistedRemoteYields ==
  ASSUME SInv, NEW t \in Sessions, Open(session[t]), NEW rev \in Revisions
  PROVE  Yields(Here(t), AfterRemoteChange(Persisted(Here(t)), rev))
<1> DEFINE h == Here(t)
           k == Persisted(h)
<1>1. Yields(h, k)  BY OpenIsGood, PersistYields
<1> HIDE DEF h, k
<1>2. Yields(k, AfterRemoteChange(k, rev))  BY <1>1, RemoteYields DEF Yields
<1>3. Yields(h, AfterRemoteChange(k, rev))  BY <1>1, <1>2, YieldsTwice
<1> QED  BY <1>3 DEF h, k

LEMMA RenderKeeps ==
  ASSUME SInv, NEW t \in Sessions, Render(t)
  PROVE  SInv' /\ OwnStep
<1>1. t \in mounted /\ UNCHANGED <<history, mounted, call>>  BY DEF Render
<1>2. PICK rev \in (Baseline(session[t]) + 1)..Current :
        Becomes(t, AfterRemoteChange(Persisted(Here(t)), rev))
  BY DEF Render
<1>3. rev \in Revisions
  <2>1. Baseline(session[t]) \in Revisions
    BY <1>1 DEF SInv, Sound, Open, Baseline
  <2> HIDE DEF Baseline
  <2> QED  BY <1>2, <2>1 DEF Revisions
<1>4. Open(session[t])  BY <1>1 DEF SInv
<1> QED  BY <1>1, <1>2, <1>3, <1>4, PersistedRemoteYields, TurnKeeps DEF SInv

\* The questions of a conflict are answered, and the conflict is closed.
LEMMA ConflictKeeps ==
  ASSUME SInv, NEW t \in Sessions, Resolve(t) \/ Apply(t) \/ Discard(t)
  PROVE  SInv' /\ OwnStep
<1> DEFINE h == Here(t)
<1>1. /\ t \in mounted /\ UNCHANGED <<history, mounted, call>> /\ session[t].kind = "conflict"
  BY DEF Resolve, Apply, Discard
<1>2. h.tab = session[t] /\ Good(h)  BY <1>1, HereIsGood DEF Here
<1>3. h.tab.remote \in Revisions  BY <1>1, <1>2 DEF Good, Sound
<1> HIDE DEF h
<1>4. PICK k : Becomes(t, k) /\ Yields(h, k)
  <2>1. CASE Resolve(t)
    <3>1. PICK d, side : Becomes(t, AfterResolution(h, d, side))
      BY <2>1 DEF Resolve, h
    <3> QED  BY <1>1, <1>2, <3>1, ResolutionYields
  <2>2. CASE Apply(t)
    BY <1>2, <1>3, <2>2, MergeYields DEF Apply, AfterApplication, h
  <2>3. CASE Discard(t)
    BY <1>2, <1>3, <2>3, DeleteYields DEF Discard, AfterDiscard, h
  <2> QED  BY <2>1, <2>2, <2>3
<1> QED  BY <1>1, <1>4, TurnKeeps DEF SInv, h

\* An editor that leaves the screen may write, and is not the owner any more.
LEMMA UnmountKeeps ==
  ASSUME SInv, NEW t \in Sessions, Unmount(t)
  PROVE  SInv' /\ OwnStep
<1> DEFINE h == Here(t)
           k == Persisted(h)
<1>1. /\ t \in mounted /\ mounted' = mounted \ {t} /\ UNCHANGED <<history, call>>
      /\ slot' = k.slot /\ slotBy' = k.by
      /\ session' = [session EXCEPT ![t] = IF call[t] = Idle THEN Closed ELSE @]
  BY DEF Unmount
<1>2. Yields(h, k)  BY <1>1, HereIsGood, PersistYields
<1>3. h.me = t /\ h.slot = slot /\ h.by = slotBy  BY DEF Here
<1> HIDE DEF h, k
<1>4. SoundDraft(k.slot) /\ (k.by = t \/ (k.slot = slot /\ k.by = slotBy))
  BY <1>2, <1>3 DEF Yields, Good
<1>5. /\ DOMAIN session' = Sessions /\ session'[t] \in {Closed, session[t]}
      /\ \A u \in Sessions : u # t => session'[u] = session[u]
  BY <1>1 DEF SInv
<1>6. Recorded' /\ Revisions' = Revisions /\ \A r : Snapshot(r)' = Snapshot(r)
  BY <1>1 DEF SInv, Recorded, Revisions, Current, Snapshot
<1>7. Sound(Closed) /\ ~Open(Closed)  BY DEF Sound, Open, Closed
<1>8. \A u \in Sessions : Sound(session[u])' /\ SoundCall(call[u])'
  BY <1>1, <1>5, <1>6, <1>7 DEF SInv, Sound, SoundCall, Open
<1>9. SoundDraft(slot)'  BY <1>1, <1>4, <1>6 DEF SoundDraft
<1>10. \A u \in mounted' : Open(session'[u]) /\ (slotBy' = u => slot'.token = session'[u].stored)
  BY <1>1, <1>4, <1>5 DEF SInv
<1>11. OwnStep  BY <1>5, <1>7 DEF OwnStep
<1> QED  BY <1>1, <1>5, <1>6, <1>8, <1>9, <1>10, <1>11 DEF SInv, Open

LEMMA CrashKeeps ==
  ASSUME SInv, NEW t \in Sessions, Crash(t)
  PROVE  SInv' /\ OwnStep
<1>1. /\ mounted' = mounted \ {t} /\ UNCHANGED <<history, slot, slotBy, call>>
      /\ session' = [session EXCEPT ![t] = Closed]
  BY DEF Crash
<1>2. /\ DOMAIN session' = Sessions /\ session'[t] = Closed
      /\ \A u \in Sessions : u # t => session'[u] = session[u]
  BY <1>1 DEF SInv
<1>3. Recorded' /\ Revisions' = Revisions /\ \A r : Snapshot(r)' = Snapshot(r)
  BY <1>1 DEF SInv, Recorded, Revisions, Current, Snapshot
<1>4. Sound(Closed) /\ ~Open(Closed)  BY DEF Sound, Open, Closed
<1>5. \A u \in Sessions : Sound(session[u])' /\ SoundCall(call[u])'
  BY <1>1, <1>2, <1>3, <1>4 DEF SInv, Sound, SoundCall, Open
<1>6. SoundDraft(slot)'  BY <1>1, <1>3 DEF SInv, SoundDraft
<1>7. \A u \in mounted' : Open(session'[u]) /\ (slotBy' = u => slot'.token = session'[u].stored)
  BY <1>1, <1>2 DEF SInv
<1>8. OwnStep  BY <1>2, <1>4 DEF OwnStep
<1> QED  BY <1>1, <1>2, <1>3, <1>5, <1>6, <1>7, <1>8 DEF SInv, Open

\* What is submitted is what was written last.
LEMMA StartSaveKeeps ==
  ASSUME SInv, NEW t \in Sessions, StartSave(t)
  PROVE  SInv' /\ OwnStep
<1> DEFINE k == Persisted(Here(t))
           c == Request("save", k.tab.base, k.tab.fields)
<1>1. /\ t \in mounted /\ UNCHANGED <<history, mounted>>
      /\ Becomes(t, k) /\ call' = [call EXCEPT ![t] = c]
  BY DEF StartSave
<1>2. Yields(Here(t), k)  BY <1>1, HereIsGood, PersistYields
<1>3. SoundCall(c)  BY DEF SoundCall, Request
<1> HIDE DEF k, c
<1>4. DOMAIN call' = Sessions /\ \A u \in Sessions : SoundCall(call'[u])
  BY <1>1, <1>3, CallsSound
<1> QED  BY <1>1, <1>2, <1>4, TurnKeeps

\* Nothing but the calls changes.
LEMMA CallKeeps ==
  ASSUME SInv, NEW t \in Sessions, NEW c, SoundCall(c), call' = [call EXCEPT ![t] = c],
         UNCHANGED <<history, session, mounted, slot, slotBy>>
  PROVE  SInv' /\ OwnStep
<1>1. DOMAIN call' = Sessions /\ \A u \in Sessions : SoundCall(call'[u])
  BY CallsSound
<1>2. Recorded' /\ Revisions' = Revisions /\ \A r : Snapshot(r)' = Snapshot(r)
  BY DEF SInv, Recorded, Revisions, Current, Snapshot
<1>3. \A u \in Sessions : Sound(session[u])' /\ SoundCall(call[u])'
  BY <1>1, <1>2 DEF SInv, Sound, SoundCall, Open
<1>4. SoundDraft(slot)'  BY <1>2 DEF SInv, SoundDraft
<1> QED  BY <1>1, <1>2, <1>3, <1>4, QuietStep DEF SInv, Open

LEMMA StartPublishKeeps ==
  ASSUME SInv, NEW t \in Sessions, StartPublish(t)
  PROVE  SInv' /\ OwnStep
<1> DEFINE c == Request("publish", session[t].base, session[t].fields)
<1>1. /\ call' = [call EXCEPT ![t] = c]
      /\ UNCHANGED <<history, session, mounted, slot, slotBy>>
  BY DEF StartPublish
<1>2. SoundCall(c)  BY DEF SoundCall, Request
<1> HIDE DEF c
<1> QED  BY <1>1, <1>2, CallKeeps

LEMMA FailKeeps ==
  ASSUME SInv, NEW t \in Sessions, Fail(t)
  PROVE  SInv' /\ OwnStep
<1> DEFINE c == Answered(call[t], "error", 0)
<1>1. /\ call' = [call EXCEPT ![t] = c]
      /\ UNCHANGED <<history, session, mounted, slot, slotBy>>
  BY DEF Fail
<1>2. SoundCall(c)  BY DEF SoundCall, Answered
<1> HIDE DEF c
<1> QED  BY <1>1, <1>2, CallKeeps

\* The answer names the revision that is current.
LEMMA CommitStepKeeps ==
  ASSUME SInv, NEW t \in Sessions, Commit(t)
  PROVE  SInv' /\ OwnStep
<1> DEFINE refused == Answered(call[t], "conflict", Current)
           saved == Answered(call[t], "saved", Current + 1)
<1>1. UNCHANGED <<session, mounted, slot, slotBy>>  BY DEF Commit
<1>2. Current \in Revisions  BY DEF SInv, Recorded, Revisions, Current
<1>3. CASE UNCHANGED history /\ call' = [call EXCEPT ![t] = refused]
  <2>1. SoundCall(refused)  BY <1>2 DEF SoundCall, Answered
  <2> HIDE DEF refused
  <2> QED  BY <1>1, <1>3, <2>1, CallKeeps
<1>4. ASSUME NEW schema, history' = Append(history, schema),
             call' = [call EXCEPT ![t] = saved]
      PROVE  SInv' /\ OwnStep
  <2>1. /\ Recorded' /\ Revisions \subseteq Revisions' /\ Current + 1 \in Revisions'
        /\ \A u \in Sessions : Sound(session[u])'
        /\ SoundDraft(slot)'
    BY <1>1, <1>4, CommitKeeps
  <2>2. /\ saved.stage = "answered" /\ saved.status = "saved" /\ saved.rev = Current + 1
    BY DEF Answered
  <2> HIDE DEF saved
  <2>3. DOMAIN call' = Sessions /\ call'[t] = saved
        /\ \A u \in Sessions : u # t => call'[u] = call[u]
    BY <1>4 DEF SInv
  <2>4. \A u \in Sessions : SoundCall(call[u])'
    BY <2>1, <2>2, <2>3 DEF SInv, SoundCall
  <2> QED  BY <1>1, <2>1, <2>3, <2>4, QuietStep DEF SInv, Open
<1> QED  BY <1>3, <1>4 DEF Commit, Committed

\* A continuation finds the editor, or the state an editor left behind.
LEMMA ReplyKeeps ==
  ASSUME SInv, NEW t \in Sessions, Reply(t)
  PROVE  SInv' /\ OwnStep
<1> DEFINE h == Here(t)
           rev == call[t].rev
           k == CASE call[t].status = "saved" -> AfterSave(h, rev)
                  [] call[t].status = "conflict" -> AfterRemoteChange(Persisted(h), rev)
                  [] call[t].status = "error" -> h
<1>1. /\ call[t].stage = "answered" /\ call' = [call EXCEPT ![t] = Idle]
      /\ UNCHANGED <<history, mounted>>
      /\ IF Open(session[t])
         THEN Becomes(t, IF t \in mounted THEN k ELSE [k EXCEPT !.tab = Closed])
         ELSE UNCHANGED <<session, slot, slotBy>>
  BY DEF Reply
<1>2. SoundCall(Idle)  BY DEF SoundCall, Idle
<1>3. CASE ~Open(session[t])
  BY <1>1, <1>2, <1>3, CallKeeps
<1>4. CASE Open(session[t])
  <2>1. Good(h)  BY <1>4, OpenIsGood
  <2>2. /\ call[t].status \in {"saved", "conflict", "error"}
        /\ call[t].status # "error" => rev \in Revisions
    BY <1>1 DEF SInv, SoundCall
  <2>3. Yields(h, k)
    <3>1. CASE call[t].status = "saved"
      <4>1. k = AfterSave(h, rev)  BY <3>1
      <4> QED  BY <2>1, <2>2, <3>1, <4>1, SaveYields
    <3>2. CASE call[t].status = "conflict"
      <4>1. k = AfterRemoteChange(Persisted(h), rev)  BY <3>2
      <4> QED  BY <1>4, <2>2, <3>2, <4>1, PersistedRemoteYields
    <3>3. CASE call[t].status = "error"
      <4>1. k = h  BY <3>3
      <4> QED  BY <2>1, <4>1, YieldsStays
    <3> QED  BY <2>2, <3>1, <3>2, <3>3
  <2> HIDE DEF k
  <2>4. DOMAIN call' = Sessions /\ \A u \in Sessions : SoundCall(call'[u])
    BY <1>1, <1>2, CallsSound
  <2>5. CASE t \in mounted
    BY <1>1, <1>4, <2>3, <2>4, <2>5, TurnKeeps
  <2>6. CASE t \notin mounted
    <3> DEFINE m == [k EXCEPT !.tab = Closed]
    <3>1. m.tab = Closed /\ m.slot = k.slot /\ m.by = k.by
      BY <2>3 DEF Yields, Good
    <3>2. Becomes(t, m)  BY <1>1, <1>4, <2>6
    <3> HIDE DEF m
    <3>3. /\ session' = [session EXCEPT ![t] = Closed] /\ slot' = k.slot /\ slotBy' = k.by
      BY <3>1, <3>2 DEF Becomes
    <3>4. SoundDraft(k.slot) /\ (k.by = t \/ (k.slot = slot /\ k.by = slotBy))
      BY <2>3 DEF Yields, Good, Here
    <3>5. /\ DOMAIN session' = Sessions /\ session'[t] = Closed
          /\ \A u \in Sessions : u # t => session'[u] = session[u]
      BY <3>3 DEF SInv
    <3>6. Recorded' /\ Revisions' = Revisions /\ \A r : Snapshot(r)' = Snapshot(r)
      BY <1>1 DEF SInv, Recorded, Revisions, Current, Snapshot
    <3>7. Sound(Closed) /\ ~Open(Closed)  BY DEF Sound, Open, Closed
    <3>8. \A u \in Sessions : Sound(session[u])' /\ SoundCall(call[u])'
      BY <2>4, <3>5, <3>6, <3>7 DEF SInv, Sound, SoundCall, Open
    <3>9. SoundDraft(slot)'  BY <3>3, <3>4, <3>6 DEF SoundDraft
    <3>10. \A u \in mounted' :
             Open(session'[u]) /\ (slotBy' = u => slot'.token = session'[u].stored)
      BY <1>1, <2>6, <3>3, <3>4, <3>5 DEF SInv
    <3>11. OwnStep  BY <3>5, <3>7 DEF OwnStep
    <3> QED  BY <1>1, <2>4, <3>5, <3>6, <3>8, <3>9, <3>10, <3>11 DEF SInv, Open
  <2> QED  BY <2>5, <2>6
<1> QED  BY <1>3, <1>4

LEMMA ElsewhereKeeps ==
  ASSUME SInv, CommitElsewhere
  PROVE  SInv' /\ OwnStep
<1>1. UNCHANGED <<session, mounted, slot, slotBy, call>>  BY DEF CommitElsewhere
<1>2. PICK schema : history' = Append(history, schema)  BY DEF CommitElsewhere, Committed
<1>3. /\ Recorded' /\ Revisions \subseteq Revisions'
      /\ \A u \in Sessions : Sound(session[u])'
      /\ SoundDraft(slot)'
  BY <1>1, <1>2, CommitKeeps
<1>4. \A u \in Sessions : SoundCall(call[u])'  BY <1>1, <1>3 DEF SInv, SoundCall
<1> QED  BY <1>1, <1>3, <1>4, QuietStep DEF SInv, Open

-----------------------------------------------------------------------------
\* Theorems.

LEMMA InitSInv == Init => SInv
<1> SUFFICES ASSUME Init PROVE SInv  OBVIOUS
<1>1. history \in Seq({scope.initial}) /\ Len(history) = 1  BY DEF Init
<1>2. Recorded  BY <1>1 DEF Recorded
<1>3. Sound(Closed) /\ SoundCall(Idle) /\ SoundDraft(NoDraft)
  BY DEF Sound, Open, Closed, SoundCall, Idle, SoundDraft
<1> QED  BY <1>2, <1>3 DEF Init, SInv

LEMMA StepSInv ==
  ASSUME SInv, [Next]_vars
  PROVE  SInv' /\ OwnStep
<1>1. CASE UNCHANGED vars
  <2>1. UNCHANGED <<history, session, mounted, slot, slotBy, call>>  BY <1>1 DEF vars
  <2> QED  BY <2>1, QuietStep
           DEF SInv, Recorded, Revisions, Current, Snapshot, Sound, SoundDraft, SoundCall, Open
<1>2. CASE StorageChanges
  <2>1. UNCHANGED <<history, session, mounted, slot, slotBy, call>>  BY <1>2 DEF StorageChanges
  <2> QED  BY <2>1, QuietStep
           DEF SInv, Recorded, Revisions, Current, Snapshot, Sound, SoundDraft, SoundCall, Open
<1>3. CASE CommitElsewhere  BY <1>3, ElsewhereKeeps
<1>4. ASSUME NEW t \in Sessions,
             \/ Mount(t) \/ Edit(t) \/ Persist(t) \/ Render(t)
             \/ Resolve(t) \/ Apply(t) \/ Discard(t) \/ Unmount(t) \/ Crash(t)
             \/ StartSave(t) \/ StartPublish(t) \/ Commit(t)
             \/ Fail(t) \/ Reply(t)
      PROVE  SInv' /\ OwnStep
  BY <1>4, MountKeeps, EditKeeps, PersistKeeps, RenderKeeps, ConflictKeeps, UnmountKeeps,
     CrashKeeps, StartSaveKeeps, StartPublishKeeps, CommitStepKeeps, FailKeeps, ReplyKeeps
<1> QED  BY <1>1, <1>2, <1>3, <1>4 DEF Next

\* What editors, stored drafts and answers name exists, and the writer of the
\* stored draft knows its token (hooks/useSchemaDraft.ts).
THEOREM SchemaDraftInvariance == Spec => []SInv
<1> QED  BY InitSInv, StepSInv, PTL DEF Spec

\* An editor is never dirty, and nothing is stored, without a difference from
\* the schema the draft was made over: recovering, rebasing, saving and
\* closing a conflict all drop a draft the schema has caught up with.
THEOREM DraftsDiffer == Spec => []DirtyDiffersFromBaseline
<1>1. SInv => DirtyDiffersFromBaseline
  BY DEF SInv, Sound, SoundDraft, DirtyDiffersFromBaseline
<1> QED  BY <1>1, SchemaDraftInvariance, PTL

\* The compare-and-swap on the token never refuses the tab that changed the
\* slot last, in whatever order renders, saves and keystrokes come.
THEOREM WritersAreOwners == Spec => OwnWritesNeverBlock
<1>1. SInv /\ [Next]_vars =>
        [\A t \in Sessions :
           (/\ Open(session[t]) /\ Open(session'[t])
            /\ session'[t].blocked /\ ~session[t].blocked) => slotBy # t]_vars
  BY StepSInv DEF OwnStep
<1> QED  BY <1>1, SchemaDraftInvariance, PTL DEF Spec, OwnWritesNeverBlock

-----------------------------------------------------------------------------
\* Answers.

\* A dispute about a field names what is at stake in the remote schema.
LEMMA StakeIsShown ==
  ASSUME NEW base, NEW local, NEW old, NEW new, NEW seen, NEW now, NEW d,
         d \in Disputes(base, local, old, seen), d \in Disputes(base, local, new, now),
         d[1] # "order"
  PROVE  SameStake(d, old, new)
<1> DEFINE b(n) == FieldMap(base)[n]
           l(n) == FieldMap(local)[n]
           r(n) == FieldMap(old)[n]
           q(n) == FieldMap(new)[n]
<1>1. \A remote, answers : d \in Disputes(base, local, remote, answers) =>
        \E n \in Names : d \in FieldDisputes(n, b(n), l(n), FieldMap(remote)[n])
  <2> SUFFICES ASSUME NEW remote, NEW answers, d \in Disputes(base, local, remote, answers)
               PROVE  \E n \in Names : d \in FieldDisputes(n, b(n), l(n), FieldMap(remote)[n])
    OBVIOUS
  <2>1. d \notin OrderDisputes(base, local, remote, answers)
    BY DEF OrderDisputes, OrderDispute
  <2>2. d \in UNION {FieldDisputes(n, b(n), l(n), FieldMap(remote)[n]) : n \in Names}
    BY <2>1 DEF Disputes, OrderDisputes, OrderDispute
  <2> QED  BY <2>2
<1>2. PICK n \in Names : d \in FieldDisputes(n, b(n), l(n), r(n))  BY <1>1
<1>3. PICK m \in Names : d \in FieldDisputes(m, b(m), l(m), q(m))  BY <1>1
<1>4. \A x, u, v, w : d \in FieldDisputes(x, u, v, w) =>
        \/ d = AddAdd(x, v, w)
        \/ d = DeleteEdit(x, w)
        \/ d = EditDelete(x, v) /\ w = Absent
        \/ \E p \in Props : d = PropertyDispute(x, p, v, w)
  <2> SUFFICES ASSUME NEW x, NEW u, NEW v, NEW w, d \in FieldDisputes(x, u, v, w)
               PROVE  \/ d = AddAdd(x, v, w)
                      \/ d = DeleteEdit(x, w)
                      \/ d = EditDelete(x, v) /\ w = Absent
                      \/ \E p \in Props : d = PropertyDispute(x, p, v, w)
    OBVIOUS
  <2>1. ~(v = w \/ v = u \/ w = u)  BY DEF FieldDisputes
  <2>2. CASE u = Absent  BY <2>1, <2>2 DEF FieldDisputes
  <2>3. CASE u # Absent /\ v = Absent  BY <2>1, <2>3 DEF FieldDisputes
  <2>4. CASE u # Absent /\ v # Absent /\ w = Absent  BY <2>1, <2>4 DEF FieldDisputes
  <2>5. CASE u # Absent /\ v # Absent /\ w # Absent
    <3>1. d \in {PropertyDispute(x, p, v, w) : p \in Collisions(u, v, w)}
      BY <2>1, <2>5 DEF FieldDisputes
    <3> QED  BY <3>1 DEF Collisions
  <2> QED  BY <2>2, <2>3, <2>4, <2>5
<1> HIDE DEF b, l, r, q
<1>5. CASE d = AddAdd(n, l(n), r(n))
  <2>1. d = AddAdd(m, l(m), q(m))
    BY <1>3, <1>4, <1>5 DEF AddAdd, DeleteEdit, EditDelete, PropertyDispute
  <2>2. m = n /\ r(n) = q(n) /\ d[1] = "field" /\ d[2] = n
    BY <1>5, <2>1 DEF AddAdd
  <2> QED  BY <2>2 DEF SameStake, Content, r, q
<1>6. CASE d = DeleteEdit(n, r(n))
  <2>1. d = DeleteEdit(m, q(m))
    BY <1>3, <1>4, <1>6 DEF AddAdd, DeleteEdit, EditDelete, PropertyDispute
  <2>2. m = n /\ r(n) = q(n) /\ d[1] = "field" /\ d[2] = n
    BY <1>6, <2>1 DEF DeleteEdit
  <2> QED  BY <2>2 DEF SameStake, Content, r, q
<1>7. CASE d = EditDelete(n, l(n)) /\ r(n) = Absent
  <2>1. d = EditDelete(m, l(m)) /\ q(m) = Absent
    BY <1>3, <1>4, <1>7 DEF AddAdd, DeleteEdit, EditDelete, PropertyDispute
  <2>2. m = n /\ r(n) = q(n) /\ d[1] = "field" /\ d[2] = n
    BY <1>7, <2>1 DEF EditDelete
  <2> QED  BY <2>2 DEF SameStake, Content, r, q
<1>8. ASSUME NEW p \in Props, d = PropertyDispute(n, p, l(n), r(n))
      PROVE  SameStake(d, old, new)
  <2>1. PICK o \in Props : d = PropertyDispute(m, o, l(m), q(m))
    BY <1>3, <1>4, <1>8 DEF AddAdd, DeleteEdit, EditDelete, PropertyDispute
  <2>2. m = n /\ o = p /\ r(n)[p] = q(n)[p] /\ d[1] = "property" /\ d[2] = n /\ d[3] = p
    BY <1>8, <2>1 DEF PropertyDispute
  <2> QED  BY <2>2 DEF SameStake, Content, r, q
<1> QED  BY <1>2, <1>4, <1>5, <1>6, <1>7, <1>8

\* The editor of a conflict waits for no answer of the server.
NoCallInConflict == \A t \in Sessions : session[t].kind = "conflict" => call[t] = Idle

\* Of the other editors nothing changes.
Alone(t) ==
  \A u \in Sessions : u # t => session'[u] = session[u] /\ call'[u] = call[u]

LEMMA WriteIsDirty ==
  ASSUME NEW h, Good(h), NEW base, NEW fields, NEW token
  PROVE  /\ AfterWrite(h, base, fields, token).tab.kind = "dirty"
         /\ AfterWrite(h, base, fields, token).tab.base = base
<1> DEFINE mine == h.slot.token = h.tab.stored
           w == [h EXCEPT !.tab = Dirty(base, fields, token, token, FALSE),
                          !.slot = Envelope(token, base, fields), !.by = h.me]
           v == [h EXCEPT !.tab = Dirty(base, fields, token, h.tab.stored, FALSE)]
           u == [h EXCEPT !.tab = Dirty(base, fields, token, NoToken, TRUE)]
<1>1. \A stored, blocked : /\ Dirty(base, fields, token, stored, blocked).kind = "dirty"
                           /\ Dirty(base, fields, token, stored, blocked).base = base
  BY DEF Dirty
<1>2. /\ w.tab = Dirty(base, fields, token, token, FALSE)
      /\ v.tab = Dirty(base, fields, token, h.tab.stored, FALSE)
      /\ u.tab = Dirty(base, fields, token, NoToken, TRUE)
  BY DEF Good
<1>3. CASE mine /\ ~storageFull
  <2>1. AfterWrite(h, base, fields, token) = w  BY <1>3 DEF AfterWrite
  <2> HIDE DEF w, v, u
  <2> QED  BY <1>1, <1>2, <2>1
<1>4. CASE mine /\ storageFull
  <2>1. AfterWrite(h, base, fields, token) = v  BY <1>4 DEF AfterWrite
  <2> HIDE DEF w, v, u
  <2> QED  BY <1>1, <1>2, <2>1
<1>5. CASE ~mine
  <2>1. AfterWrite(h, base, fields, token) = u  BY <1>5 DEF AfterWrite
  <2> HIDE DEF w, v, u
  <2> QED  BY <1>1, <1>2, <2>1
<1> QED  BY <1>3, <1>4, <1>5

LEMMA DeleteIsClean ==
  ASSUME NEW h, Good(h), NEW rev
  PROVE  AfterDelete(h, rev).tab.kind = "clean" /\ AfterDelete(h, rev).tab.base = rev
<1>1. AfterDelete(h, rev).tab = Clean(rev)  BY DEF AfterDelete, Good
<1> QED  BY <1>1 DEF Clean

\* A merge without questions leaves the editor over the new revision.
LEMMA MergeIsOver ==
  ASSUME NEW h, Good(h), NEW rev, NEW merged
  PROVE  /\ AfterMerge(h, rev, merged).tab.kind \in {"clean", "dirty"}
         /\ AfterMerge(h, rev, merged).tab.base = rev
BY WriteIsDirty, DeleteIsClean DEF AfterMerge

LEMMA PersistedKind ==
  ASSUME NEW h, Good(h)
  PROVE  /\ Persisted(h).tab.kind = h.tab.kind
         /\ h.tab.kind # "dirty" => Persisted(h) = h
BY WriteIsDirty DEF Persisted

LEMMA FieldsLeaveNoConflict ==
  ASSUME NEW h, Good(h), NEW fields
  PROVE  AfterFieldsChange(h, fields).tab.kind # "conflict"
<1>1. CASE fields = Snapshot(h.tab.base)  BY <1>1, DeleteIsClean DEF AfterFieldsChange
<1>2. CASE fields # Snapshot(h.tab.base)
  <2> DEFINE tab == Dirty(h.tab.base, fields, FreshToken, h.tab.stored, h.tab.blocked)
  <2>1. AfterFieldsChange(h, fields) = [h EXCEPT !.tab = tab]
    BY <1>2 DEF AfterFieldsChange
  <2>2. tab.kind = "dirty"  BY DEF Dirty
  <2> HIDE DEF tab
  <2> QED  BY <2>1, <2>2 DEF Good
<1> QED  BY <1>1, <1>2

\* What an editor does that changes its own state.
LEMMA Alters ==
  ASSUME SInv, NEW t \in Sessions, NEW k, Becomes(t, k)
  PROVE  /\ session'[t] = k.tab
         /\ \A u \in Sessions : u # t => session'[u] = session[u]
BY DEF Becomes, SInv

\* What a step does to the editor of a conflict.
ConflictStep(t) ==
  /\ Alone(t)
  /\ session'[t].kind = "conflict" => call'[t] = Idle
  /\ Open(session[t]) /\ session[t].kind = "conflict" /\ Open(session'[t]) =>
       \/ Render(t)
       \/ Baseline(session'[t]) = session[t].remote

LEMMA StepsOfAConflict ==
  ASSUME SInv, NoCallInConflict, NEW t \in Sessions,
         \/ Mount(t) \/ Edit(t) \/ Persist(t) \/ Render(t)
         \/ Resolve(t) \/ Apply(t) \/ Discard(t) \/ Unmount(t) \/ Crash(t)
         \/ StartSave(t) \/ StartPublish(t) \/ Commit(t)
         \/ Fail(t) \/ Reply(t)
  PROVE  ConflictStep(t)
<1> DEFINE h == Here(t)
<1>1. session[t].kind = "conflict" => call[t] = Idle  BY DEF NoCallInConflict
<1>2. Open(session[t]) => Good(h) /\ h.tab = session[t]  BY OpenIsGood DEF Here
<1>3. t \in mounted => Open(session[t])  BY DEF SInv
<1>4. Open(session[t]) /\ session[t].kind = "conflict" => Baseline(session[t]) = session[t].remote
  BY DEF Baseline
<1> HIDE DEF h
<1>5. CASE Mount(t)
  <2>1. PICK rev \in 0..Current : Becomes(t, AfterMount(h, rev))  BY <1>5 DEF Mount, h
  <2>2. ~Open(session[t]) /\ call[t] = Idle /\ call' = call  BY <1>5 DEF Mount
  <2>3. \A u \in Sessions : u # t => session'[u] = session[u]  BY <2>1, Alters
  <2> QED  BY <2>2, <2>3 DEF ConflictStep, Alone
<1>6. CASE Edit(t)
  <2>1. PICK fields : Becomes(t, AfterFieldsChange(h, fields))  BY <1>6 DEF Edit, h
  <2>2. /\ session'[t] = AfterFieldsChange(h, fields).tab
        /\ \A u \in Sessions : u # t => session'[u] = session[u]
    BY <2>1, Alters
  <2>3. session'[t].kind # "conflict"
    BY <1>2, <1>3, <1>6, <2>2, FieldsLeaveNoConflict DEF Edit
  <2> QED  BY <1>6, <2>2, <2>3 DEF Edit, ConflictStep, Alone
<1>7. CASE Persist(t)
  <2>1. Becomes(t, Persisted(h))  BY <1>7 DEF Persist, h
  <2>2. /\ session'[t] = Persisted(h).tab
        /\ \A u \in Sessions : u # t => session'[u] = session[u]
    BY <2>1, Alters
  <2>3. session'[t].kind = "dirty"
    BY <1>2, <1>3, <1>7, <2>2, PersistedKind DEF Persist
  <2> QED  BY <1>7, <2>2, <2>3 DEF Persist, ConflictStep, Alone
<1>8. CASE Render(t)
  <2>1. PICK k : Becomes(t, k)  BY <1>8 DEF Render
  <2>2. \A u \in Sessions : u # t => session'[u] = session[u]  BY <2>1, Alters
  <2> QED  BY <1>8, <2>2 DEF Render, ConflictStep, Alone
<1>9. CASE Resolve(t)
  <2>1. PICK d, side : Becomes(t, AfterResolution(h, d, side))  BY <1>9 DEF Resolve, h
  <2>2. /\ session'[t] = AfterResolution(h, d, side).tab
        /\ \A u \in Sessions : u # t => session'[u] = session[u]
    BY <2>1, Alters
  <2>3. session[t].kind = "conflict" /\ call' = call /\ t \in mounted  BY <1>9 DEF Resolve
  <2>4. PICK answers : AfterResolution(h, d, side).tab = [session[t] EXCEPT !.answers = answers]
    BY <1>2, <1>3, <2>3 DEF AfterResolution, Good
  <2>5. session'[t].kind = "conflict" /\ session'[t].remote = session[t].remote
    BY <1>3, <2>2, <2>3, <2>4 DEF SInv, Sound
  <2> QED  BY <1>1, <2>2, <2>3, <2>5 DEF ConflictStep, Alone, Baseline
<1>10. CASE Apply(t)
  <2>1. session[t].kind = "conflict" /\ call' = call /\ t \in mounted  BY <1>10 DEF Apply
  <2>2. PICK merged : Becomes(t, AfterMerge(h, h.tab.remote, merged))
    BY <1>10 DEF Apply, AfterApplication, h
  <2>3. /\ session'[t] = AfterMerge(h, h.tab.remote, merged).tab
        /\ \A u \in Sessions : u # t => session'[u] = session[u]
    BY <2>2, Alters
  <2>4. session'[t].kind \in {"clean", "dirty"} /\ session'[t].base = session[t].remote
    BY <1>2, <1>3, <2>1, <2>3, MergeIsOver
  <2> QED  BY <2>1, <2>3, <2>4 DEF ConflictStep, Alone, Baseline
<1>11. CASE Discard(t)
  <2>1. session[t].kind = "conflict" /\ call' = call /\ t \in mounted  BY <1>11 DEF Discard
  <2>2. Becomes(t, AfterDelete(h, h.tab.remote))
    BY <1>11 DEF Discard, AfterDiscard, h
  <2>3. /\ session'[t] = AfterDelete(h, h.tab.remote).tab
        /\ \A u \in Sessions : u # t => session'[u] = session[u]
    BY <2>2, Alters
  <2>4. session'[t].kind = "clean" /\ session'[t].base = session[t].remote
    BY <1>2, <1>3, <2>1, <2>3, DeleteIsClean
  <2> QED  BY <2>1, <2>3, <2>4 DEF ConflictStep, Alone, Baseline
<1>12. CASE Unmount(t)
  <2>1. /\ session' = [session EXCEPT ![t] = IF call[t] = Idle THEN Closed ELSE @]
        /\ call' = call
    BY <1>12 DEF Unmount
  <2>2. /\ session'[t] \in {Closed, session[t]}
        /\ \A u \in Sessions : u # t => session'[u] = session[u]
    BY <2>1 DEF SInv
  <2>3. Closed.kind = "closed"  BY DEF Closed
  <2> QED  BY <1>1, <1>4, <2>1, <2>2, <2>3 DEF ConflictStep, Alone, Open
<1>13. CASE Crash(t)
  <2>1. session' = [session EXCEPT ![t] = Closed] /\ call' = call  BY <1>13 DEF Crash
  <2>2. /\ session'[t] = Closed
        /\ \A u \in Sessions : u # t => session'[u] = session[u]
    BY <2>1 DEF SInv
  <2>3. Closed.kind = "closed"  BY DEF Closed
  <2> QED  BY <2>1, <2>2, <2>3 DEF ConflictStep, Alone, Open
<1>14. CASE StartSave(t)
  <2>1. Becomes(t, Persisted(h)) /\ t \in mounted /\ session[t].kind = "dirty"
    BY <1>14 DEF StartSave, h
  <2>2. PICK c : call' = [call EXCEPT ![t] = c]  BY <1>14 DEF StartSave
  <2>3. /\ session'[t] = Persisted(h).tab
        /\ \A u \in Sessions : u # t => session'[u] = session[u]
    BY <2>1, Alters
  <2>4. session'[t].kind = "dirty"  BY <1>2, <1>3, <2>1, <2>3, PersistedKind
  <2>5. \A u \in Sessions : u # t => call'[u] = call[u]  BY <2>2 DEF SInv
  <2> QED  BY <2>1, <2>3, <2>4, <2>5 DEF ConflictStep, Alone
<1>15. CASE StartPublish(t) \/ Commit(t) \/ Fail(t)
  <2>1. UNCHANGED session /\ session[t].kind # "conflict"
    BY <1>1, <1>15 DEF StartPublish, Commit, Fail, Idle
  <2>2. PICK c : call' = [call EXCEPT ![t] = c]
    BY <1>15 DEF StartPublish, Commit, Fail
  <2>3. \A u \in Sessions : u # t => call'[u] = call[u]  BY <2>2 DEF SInv
  <2> QED  BY <2>1, <2>3 DEF ConflictStep, Alone
<1>16. CASE Reply(t)
  <2>1. call[t].stage = "answered" /\ call' = [call EXCEPT ![t] = Idle]  BY <1>16 DEF Reply
  <2>2. session[t].kind # "conflict"  BY <1>1, <2>1 DEF Idle
  <2>3. \A u \in Sessions : u # t => session'[u] = session[u]
    <3>1. (\E k : Becomes(t, k)) \/ session' = session  BY <1>16 DEF Reply
    <3> QED  BY <3>1, Alters
  <2>4. call'[t] = Idle /\ \A u \in Sessions : u # t => call'[u] = call[u]
    BY <2>1 DEF SInv
  <2> QED  BY <2>2, <2>3, <2>4 DEF ConflictStep, Alone
<1> QED  BY <1>5, <1>6, <1>7, <1>8, <1>9, <1>10, <1>11, <1>12, <1>13, <1>14, <1>15, <1>16

\* AnswersFollowTheDispute of disputes about fields: SameStake compares the
\* orders that the answer to a dispute about the order rests on.
FieldAnswersFollow(t) ==
  (/\ Open(session[t]) /\ session[t].kind = "conflict"
   /\ Open(session'[t]) /\ Baseline(session'[t]) # session[t].remote) =>
     LET rev == Baseline(session'[t])
         answers == session[t].answers
         seen(d) == /\ d \in DOMAIN answers
                    /\ d[1] # "order" =>
                         SameStake(d, Snapshot(session[t].remote), Snapshot(rev))
     IN  IF session'[t].kind = "conflict"
         THEN \A d \in DOMAIN session'[t].answers :
                  seen(d) /\ answers[d] = session'[t].answers[d]
         ELSE \A d \in DisputesOf([session[t] EXCEPT !.remote = rev]) : d[1] # "order" => seen(d)

\* Disputes about fields do not depend on the answers.
LEMMA AnswersOpenNoField ==
  ASSUME NEW base, NEW local, NEW remote, NEW seen, NEW now, NEW d, d[1] # "order",
         d \in Disputes(base, local, remote, seen)
  PROVE  d \in Disputes(base, local, remote, now)
<1>1. d \notin OrderDisputes(base, local, remote, seen)
  BY DEF OrderDisputes, OrderDispute
<1> QED  BY <1>1 DEF Disputes

\* A conflict asks again, or closes, with the answers to what was asked.
LEMMA RenderFollows ==
  ASSUME SInv, NEW t \in Sessions, Render(t), session[t].kind = "conflict"
  PROVE  FieldAnswersFollow(t)
<1> DEFINE h == Here(t)
           c == session[t]
           base == Snapshot(c.base)
           old == Snapshot(c.remote)
           answers == AnswersOf(base, c.fields, old, c.answers)
<1>1. t \in mounted /\ Open(c) /\ Good(h) /\ h.tab = c
  BY HereIsGood DEF Render, SInv, Here
<1>2. Persisted(h) = h  BY <1>1, PersistedKind
<1>3. PICK rev \in (Baseline(c) + 1)..Current : Becomes(t, AfterRemoteChange(h, rev))
  BY <1>2 DEF Render
<1> DEFINE new == Snapshot(rev)
           draft == Envelope(c.token, c.base, c.fields)
           kept == AnswersOf(base, c.fields, new, answers)
           open == Unanswered(base, c.fields, new, answers)
           merged == MergedFields(base, c.fields, new, answers)
<1>4. c.remote \in Revisions /\ Baseline(c) = c.remote
  BY DEF SInv, Sound, Baseline
<1>5. ~(rev <= Baseline(c))  BY <1>3, <1>4 DEF Revisions
<1>6. draft.fields = c.fields /\ draft.base = c.base  BY DEF Envelope
<1>7. session'[t] = AfterRemoteChange(h, rev).tab  BY <1>3, Alters
<1> HIDE DEF h
<1>8. \A d : d \in DOMAIN answers =>
        /\ d \in DOMAIN c.answers /\ answers[d] = c.answers[d]
        /\ d \in Disputes(base, c.fields, old, c.answers)
  BY DEF AnswersOf
<1>9. CASE open = {}
  <2>1. AfterRemoteChange(h, rev) = AfterMerge(h, rev, merged)
    BY <1>1, <1>5, <1>6, <1>9 DEF AfterRemoteChange
  <2>2. session'[t].kind \in {"clean", "dirty"} /\ session'[t].base = rev
    BY <1>1, <1>7, <2>1, MergeIsOver
  <2>3. Baseline(session'[t]) = rev  BY <2>2 DEF Baseline
  <2>4. DisputesOf([c EXCEPT !.remote = rev]) = Disputes(base, c.fields, new, c.answers)
    BY DEF DisputesOf, SInv, Sound, Open
  <2>5. ASSUME NEW d \in Disputes(base, c.fields, new, c.answers), d[1] # "order"
        PROVE  d \in DOMAIN c.answers /\ SameStake(d, old, new)
    <3>1. d \in Disputes(base, c.fields, new, answers)  BY <2>5, AnswersOpenNoField
    <3>2. d \in DOMAIN answers  BY <1>9, <3>1 DEF Unanswered, Answer
    <3>3. d \in DOMAIN c.answers /\ d \in Disputes(base, c.fields, old, c.answers)
      BY <1>8, <3>2
    <3> QED  BY <2>5, <3>3, StakeIsShown
  <2> HIDE DEF base, old, new, answers
  <2> QED  BY <2>2, <2>3, <2>4, <2>5 DEF FieldAnswersFollow, old, new
<1>10. CASE open # {}
  <2> DEFINE stored == IF h.slot.token = h.tab.stored THEN h.tab.stored ELSE NoToken
             blocked == h.slot # NoDraft /\ ~(h.slot.token = h.tab.stored)
             tab == Conflict(draft, rev, kept, stored, blocked)
  <2>1. AfterRemoteChange(h, rev) = [h EXCEPT !.tab = tab]
    BY <1>1, <1>5, <1>6, <1>10 DEF AfterRemoteChange
  <2>2. session'[t] = tab  BY <1>1, <1>7, <2>1 DEF Good
  <2>3. tab.kind = "conflict" /\ tab.remote = rev /\ tab.answers = kept  BY DEF Conflict
  <2> HIDE DEF tab
  <2>4. Baseline(session'[t]) = rev  BY <2>2, <2>3 DEF Baseline
  <2>5. ASSUME NEW d \in DOMAIN kept
        PROVE  /\ d \in DOMAIN c.answers /\ c.answers[d] = kept[d]
               /\ d[1] # "order" => SameStake(d, old, new)
    <3>1. /\ d \in DOMAIN answers /\ kept[d] = answers[d]
          /\ d \in Disputes(base, c.fields, new, answers)
      BY DEF AnswersOf
    <3>2. /\ d \in DOMAIN c.answers /\ answers[d] = c.answers[d]
          /\ d \in Disputes(base, c.fields, old, c.answers)
      BY <1>8, <3>1
    <3>3. d[1] # "order" => SameStake(d, old, new)  BY <3>1, <3>2, StakeIsShown
    <3> QED  BY <3>1, <3>2, <3>3
  <2> HIDE DEF base, old, new, answers, kept
  <2> QED  BY <2>2, <2>3, <2>4, <2>5 DEF FieldAnswersFollow, old, new
<1> QED  BY <1>9, <1>10

LEMMA StepNoCall ==
  ASSUME SInv, NoCallInConflict, [Next]_vars
  PROVE  NoCallInConflict' /\ \A t \in Sessions : FieldAnswersFollow(t)
<1>1. CASE UNCHANGED <<session, call>>
  BY <1>1 DEF NoCallInConflict, FieldAnswersFollow, Baseline
<1>2. ASSUME NEW t \in Sessions,
             \/ Mount(t) \/ Edit(t) \/ Persist(t) \/ Render(t)
             \/ Resolve(t) \/ Apply(t) \/ Discard(t) \/ Unmount(t) \/ Crash(t)
             \/ StartSave(t) \/ StartPublish(t) \/ Commit(t)
             \/ Fail(t) \/ Reply(t)
      PROVE  NoCallInConflict' /\ \A u \in Sessions : FieldAnswersFollow(u)
  <2>1. ConflictStep(t)  BY <1>2, StepsOfAConflict
  <2>2. NoCallInConflict'  BY <2>1 DEF ConflictStep, Alone, NoCallInConflict
  <2>3. \A u \in Sessions : u # t => FieldAnswersFollow(u)
    BY <2>1 DEF ConflictStep, Alone, FieldAnswersFollow, Baseline
  <2>4. FieldAnswersFollow(t)
    <3>1. CASE Render(t) /\ session[t].kind = "conflict"  BY <3>1, RenderFollows
    <3>2. CASE ~(Render(t) /\ session[t].kind = "conflict")
      BY <2>1, <3>2 DEF ConflictStep, FieldAnswersFollow
    <3> QED  BY <3>1, <3>2
  <2> QED  BY <2>2, <2>3, <2>4
<1>3. CASE StorageChanges \/ CommitElsewhere
  BY <1>1, <1>3 DEF StorageChanges, CommitElsewhere
<1>4. CASE UNCHANGED vars  BY <1>1, <1>4 DEF vars
<1> QED  BY <1>2, <1>3, <1>4 DEF Next

\* Of what AnswersFollowTheDispute says, the part about fields: when the
\* remote schema moves under an open conflict, an answer is kept only for a
\* dispute that was asked, about the same remote content, and the conflict
\* closes only if all its disputes are such (stateAfterRemoteChange).
THEOREM AnswersFollowTheField == Spec => [][\A t \in Sessions : FieldAnswersFollow(t)]_vars
<1>1. Init => NoCallInConflict  BY DEF Init, NoCallInConflict, Closed
<1>2. SInv /\ NoCallInConflict /\ [Next]_vars =>
        NoCallInConflict' /\ [\A t \in Sessions : FieldAnswersFollow(t)]_vars
  BY StepNoCall
<1> QED  BY <1>1, <1>2, SchemaDraftInvariance, PTL DEF Spec

-----------------------------------------------------------------------------
\* The merge of one field.

\* The content m has every change that side made to b.
Takes(m, b, side) ==
  side # b =>
    /\ m = Absent <=> side = Absent
    /\ b = Absent => m = side
    /\ \A p \in Props : b # Absent /\ side # Absent /\ side[p] # b[p] => m[p] = side[p]

\* An answer is needed only where both sides changed the field differently.
LEMMA DisputesOfAField ==
  ASSUME NEW n, NEW b, NEW l, NEW r, l # r, l # b, r # b
  PROVE  /\ b = Absent => FieldDisputes(n, b, l, r) = {AddAdd(n, l, r)}
         /\ b # Absent /\ l = Absent => FieldDisputes(n, b, l, r) = {DeleteEdit(n, r)}
         /\ b # Absent /\ r = Absent => FieldDisputes(n, b, l, r) = {EditDelete(n, l)}
         /\ b # Absent /\ l # Absent /\ r # Absent =>
              FieldDisputes(n, b, l, r) = {PropertyDispute(n, p, l, r) : p \in Collisions(b, l, r)}
<1>1. CASE b = Absent  BY <1>1 DEF FieldDisputes
<1>2. CASE b # Absent /\ l = Absent  BY <1>2 DEF FieldDisputes
<1>3. CASE b # Absent /\ l # Absent /\ r = Absent  BY <1>3 DEF FieldDisputes
<1>4. CASE b # Absent /\ l # Absent /\ r # Absent  BY <1>4 DEF FieldDisputes
<1> QED  BY <1>1, <1>2, <1>3, <1>4

\* A local change is in the merge unless a dispute about the field has another
\* answer than "local" (mergeField of lib/schema-merge.ts).
THEOREM LocalChangesAreMerged ==
  ASSUME Absent \notin Contents, NEW n, NEW answers,
         NEW b \in Contents \union {Absent}, NEW l \in Contents \union {Absent},
         NEW r \in Contents \union {Absent},
         \A d \in FieldDisputes(n, b, l, r) : Answer(d, answers) = "local"
  PROVE  Takes(MergedField(n, b, l, r, answers), b, l)
<1> DEFINE m == MergedField(n, b, l, r, answers)
<1> SUFFICES Takes(m, b, l)  OBVIOUS
<1>1. CASE b # Absent /\ l # Absent /\ r # Absent
  <2> DEFINE takes(p) == /\ l[p] # b[p]
                         /\ \/ r[p] = b[p]
                            \/ Answer(PropertyDispute(n, p, l, r), answers) = "local"
  <2>1. m = [p \in Props |-> IF takes(p) THEN l[p] ELSE r[p]]
    BY <1>1 DEF MergedField
  <2>2. m \in Contents  BY <1>1, <2>1 DEF Contents
  <2>3. ASSUME NEW p \in Props, l[p] # b[p], ~takes(p)
        PROVE  r[p] = l[p]
    <3>1. SUFFICES ASSUME r[p] # l[p] PROVE FALSE  OBVIOUS
    <3>2. p \in Collisions(b, l, r) /\ l # r /\ l # b /\ r # b
      BY <2>3, <3>1 DEF Collisions
    <3>3. PropertyDispute(n, p, l, r) \in FieldDisputes(n, b, l, r)
      BY <1>1, <3>2, DisputesOfAField
    <3> QED  BY <2>3, <3>3
  <2>4. \A p \in Props : l[p] # b[p] => m[p] = l[p]
    <3> HIDE DEF takes, m
    <3> QED  BY <2>1, <2>3
  <2> HIDE DEF m
  <2> QED  BY <1>1, <2>2, <2>4 DEF Takes
<1>2. CASE ~(b # Absent /\ l # Absent /\ r # Absent)
  <2>1. l # b => m = l
    <3>1. SUFFICES ASSUME l # b, l # r, r # b PROVE m = l
      BY <1>2 DEF MergedField
    <3>2. \E d \in FieldDisputes(n, b, l, r) : TRUE
      BY <1>2, <3>1, DisputesOfAField
    <3>3. \E d \in FieldDisputes(n, b, l, r) : Answer(d, answers) = "local"
      BY <3>2
    <3> QED  BY <1>2, <3>1, <3>3 DEF MergedField
  <2> HIDE DEF m
  <2> QED  BY <2>1 DEF Takes
<1> QED  BY <1>1, <1>2

\* A remote change is in the merge unless a dispute about the field has the
\* answer "local": one without an answer shows the remote side.
THEOREM RemoteChangesAreMerged ==
  ASSUME Absent \notin Contents, NEW n, NEW answers,
         NEW b \in Contents \union {Absent}, NEW l \in Contents \union {Absent},
         NEW r \in Contents \union {Absent},
         \A d \in FieldDisputes(n, b, l, r) : Answer(d, answers) # "local"
  PROVE  Takes(MergedField(n, b, l, r, answers), b, r)
<1> DEFINE m == MergedField(n, b, l, r, answers)
<1> SUFFICES Takes(m, b, r)  OBVIOUS
<1>1. CASE b # Absent /\ l # Absent /\ r # Absent
  <2> DEFINE takes(p) == /\ l[p] # b[p]
                         /\ \/ r[p] = b[p]
                            \/ Answer(PropertyDispute(n, p, l, r), answers) = "local"
  <2>1. m = [p \in Props |-> IF takes(p) THEN l[p] ELSE r[p]]
    BY <1>1 DEF MergedField
  <2>2. m \in Contents  BY <1>1, <2>1 DEF Contents
  <2>3. ASSUME NEW p \in Props, r[p] # b[p], takes(p)
        PROVE  r[p] = l[p]
    <3>1. SUFFICES ASSUME r[p] # l[p] PROVE FALSE  OBVIOUS
    <3>2. p \in Collisions(b, l, r) /\ l # r /\ l # b /\ r # b
      BY <2>3, <3>1 DEF Collisions
    <3>3. PropertyDispute(n, p, l, r) \in FieldDisputes(n, b, l, r)
      BY <1>1, <3>2, DisputesOfAField
    <3> QED  BY <2>3, <3>3
  <2>4. \A p \in Props : r[p] # b[p] => m[p] = r[p]
    <3> HIDE DEF takes, m
    <3> QED  BY <2>1, <2>3
  <2> HIDE DEF m
  <2> QED  BY <1>1, <2>2, <2>4 DEF Takes
<1>2. CASE ~(b # Absent /\ l # Absent /\ r # Absent)
  <2>1. r # b => m = r
    BY <1>2 DEF MergedField
  <2> HIDE DEF m
  <2> QED  BY <2>1 DEF Takes
<1> QED  BY <1>1, <1>2
=============================================================================
