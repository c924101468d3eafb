-------------------------- MODULE CodingDraftProofs --------------------------
(***************************************************************************)
(* Theorems about CodingDraft, for any finite set of documents and any     *)
(* tabs, scopes, edits and collections of garbage: an open tab believes in *)
(* every envelope it wrote, what it has not sent is stored as it was made, *)
(* and the warning on leaving is true of the last edit, unless a storage   *)
(* that is full refused it or another tab has the slot.                    *)
(*                                                                         *)
(* The inductive invariant is IInv: the type invariant, and every open tab *)
(* Fit. Fit says document by document (DocOK) what a session knows of its  *)
(* envelope (Mine), of the server (Fresh), of the form (Shown) and of the  *)
(* draft (Drafted), and of the page (Paged, OnScreen) what it has loaded   *)
(* and opened. The functions of a session are lemmas on sessions; a step   *)
(* of a tab is a session that is Stepped from the tab's own.               *)
(***************************************************************************)
EXTENDS CodingDraft, FiniteSetTheorems, TLAPS

Slots == [Docs -> Envelope \cup {None, Newer}]
Sessions == [slot : Slots, tab : Tab]

\* What the functions of a session leave alone in a tab.
SamePage(x, y) ==
  /\ y.phase = x.phase /\ y.alone = x.alone
  /\ y.active = x.active /\ y.current = x.current
  /\ y.remote = x.remote /\ y.screen = x.screen /\ y.restored = x.restored
  /\ y.dirty = x.dirty /\ y.saving = x.saving

SameOpened(x, y) == y.opened = x.opened /\ y.ever = x.ever /\ y.offer = x.offer

\* Nothing but document d has changed.
OnlyAt(s, r, d) ==
  \A e \in Docs \ {d} :
    r.slot[e] = s.slot[e] /\ r.tab.docs[e] = s.tab.docs[e] /\ r.tab.timers[e] = s.tab.timers[e]

-----------------------------------------------------------------------------
\* The fields of a session.

\* A session is the slots and the tab, each with its type.
LEMMA SessionFields ==
  ASSUME NEW s \in Sessions
  PROVE  /\ s = [slot |-> s.slot, tab |-> s.tab]
         /\ s.slot \in Slots /\ s.tab \in Tab
         /\ s.tab.docs \in [Docs -> DocState \cup {None}]
         /\ s.tab.timers \in [Docs -> Nat \cup {None}]
  BY DEF Sessions, Tab

\* docs.set(docId, state): nothing else of the session moves.
LEMMA SetStateIs ==
  ASSUME NEW s \in Sessions, NEW d \in Docs, NEW st \in DocState
  PROVE  LET r == SetState(s, d, st)
         IN  /\ r \in Sessions /\ SamePage(s.tab, r.tab) /\ SameOpened(s.tab, r.tab)
             /\ r.slot = s.slot /\ r.tab.timers = s.tab.timers
             /\ r.tab.docs = [s.tab.docs EXCEPT ![d] = st]
<1>1. s.tab.docs \in [Docs -> DocState \cup {None}] /\ s.slot \in Slots /\ s.tab \in Tab
  BY SessionFields
<1>2. SetState(s, d, st)
       = [slot |-> s.slot, tab |-> [s.tab EXCEPT !.docs = [s.tab.docs EXCEPT ![d] = st]]]
  BY DEF SetState, Sessions, Tab
<1> DEFINE new == [s.tab.docs EXCEPT ![d] = st]
           x == [s.tab EXCEPT !.docs = new]
<1>3. new \in [Docs -> DocState \cup {None}]
  BY <1>1
<1>4. x \in Tab
  <2> HIDE DEF new
  <2> QED  BY <1>1, <1>3 DEF Tab
<1>5. x.timers = s.tab.timers /\ x.docs = new
  BY <1>1 DEF Tab
<1>6. SamePage(s.tab, x) /\ SameOpened(s.tab, x)
  BY <1>1 DEF SamePage, SameOpened, Tab
<1> DEFINE r == [slot |-> s.slot, tab |-> x]
<1>7. r.slot = s.slot /\ r.tab = x /\ r \in Sessions
  BY <1>1, <1>4 DEF Sessions
<1> HIDE DEF x
<1> QED  BY <1>2, <1>5, <1>6, <1>7 DEF x

\* A timer is armed or cleared: nothing else of the session moves.
LEMMA SetTimerIs ==
  ASSUME NEW s \in Sessions, NEW d \in Docs, NEW k \in Nat \cup {None}
  PROVE  LET r == [s EXCEPT !.tab.timers[d] = k]
         IN  /\ r \in Sessions /\ SamePage(s.tab, r.tab) /\ SameOpened(s.tab, r.tab)
             /\ r.slot = s.slot /\ r.tab.docs = s.tab.docs
             /\ r.tab.timers = [s.tab.timers EXCEPT ![d] = k]
<1>1. s.tab.timers \in [Docs -> Nat \cup {None}] /\ s.slot \in Slots /\ s.tab \in Tab
  BY SessionFields
<1>2. [s EXCEPT !.tab.timers[d] = k]
       = [slot |-> s.slot, tab |-> [s.tab EXCEPT !.timers = [s.tab.timers EXCEPT ![d] = k]]]
  BY DEF Sessions, Tab
<1> DEFINE new == [s.tab.timers EXCEPT ![d] = k]
           x == [s.tab EXCEPT !.timers = new]
<1>3. new \in [Docs -> Nat \cup {None}]
  BY <1>1
<1>4. x \in Tab
  <2> HIDE DEF new
  <2> QED  BY <1>1, <1>3 DEF Tab
<1>5. x.docs = s.tab.docs /\ x.timers = new
  BY <1>1 DEF Tab
<1>6. SamePage(s.tab, x) /\ SameOpened(s.tab, x)
  BY <1>1 DEF SamePage, SameOpened, Tab
<1> DEFINE r == [slot |-> s.slot, tab |-> x]
<1>7. r.slot = s.slot /\ r.tab = x /\ r \in Sessions
  BY <1>1, <1>4 DEF Sessions
<1> HIDE DEF x
<1> QED  BY <1>2, <1>5, <1>6, <1>7 DEF x

\* The banner appears or goes: nothing else of the session moves.
LEMMA OfferIs ==
  ASSUME NEW s \in Sessions, NEW o \in Offers \cup {None}
  PROVE  LET r == Offer(s, o)
         IN  /\ r \in Sessions /\ SamePage(s.tab, r.tab) /\ r.slot = s.slot
             /\ r.tab.docs = s.tab.docs /\ r.tab.timers = s.tab.timers
             /\ r.tab.opened = s.tab.opened /\ r.tab.ever = s.tab.ever /\ r.tab.offer = o
<1>1. s.slot \in Slots /\ s.tab \in Tab
  BY SessionFields
<1>2. Offer(s, o) = [slot |-> s.slot, tab |-> [s.tab EXCEPT !.offer = o]]
  BY DEF Offer, Sessions, Tab
<1>4. [s.tab EXCEPT !.offer = o] \in Tab
  BY <1>1 DEF Tab
<1> QED  BY <1>1, <1>2, <1>4 DEF Sessions, SamePage, Tab

\* Only localStorage changes.
LEMMA SetSlotsIs ==
  ASSUME NEW s \in Sessions, NEW slots \in Slots
  PROVE  LET r == [s EXCEPT !.slot = slots]
         IN  r \in Sessions /\ r.tab = s.tab /\ r.slot = slots
  BY DEF Sessions

-----------------------------------------------------------------------------
\* Garbage.

\* What a garbage collection keeps is as it was.
LEMMA CollectIs ==
  ASSUME NEW slots \in Slots, NEW keep
  PROVE  /\ Collect(slots, keep) \in Slots
         /\ \A e \in Docs : /\ Collect(slots, keep)[e] \in {slots[e], None}
                            /\ e \in keep => Collect(slots, keep)[e] = slots[e]
<1> DEFINE doomed == Expired(slots, keep) \cup Evicted(slots, keep)
<1>1. Collect(slots, keep) = [d \in Docs |-> IF d \in doomed THEN None ELSE slots[d]]
  BY DEF Collect
<1>2. doomed \cap keep = {}
  BY DEF Expired, Evicted, Survivors
<1> HIDE DEF doomed
<1> QED  BY <1>1, <1>2 DEF Slots

-----------------------------------------------------------------------------
\* Folds over finite sets: every fold has one value, found set by set.

Below(U, V) == U \subseteq V /\ U # V

\* Least among the sets of T.
LEMMA SmallestSet ==
  ASSUME NEW D, IsFiniteSet(D), NEW T, T \subseteq SUBSET D, T # {}
  PROVE  \E V \in T : \A U \in T : ~Below(U, V)
<1>1. IsWellFoundedOn(StrictSubsetOrdering(D), SUBSET D)
  BY FS_StrictSubsetOrderingWellFounded, FS_FiniteSubsetsOfFinite
<1>2. PICK V \in T : \A U \in T : <<U, V>> \notin StrictSubsetOrdering(D)
  BY <1>1, WFMin
<1>3. \A U \in T : Below(U, V) => <<U, V>> \in StrictSubsetOrdering(D)
  BY DEF StrictSubsetOrdering, Below
<1> QED  BY <1>2, <1>3

Picked(V) == CHOOSE d \in V : TRUE
\* The choice from a set that is not empty is one of its members.
LEMMA PickedIn == \A V : V # {} => Picked(V) \in V
  BY DEF Picked

\* f is the fold of step from base, over the subsets of V.
Folds(f, V, base, step) ==
  f = [U \in SUBSET V |->
         IF U = {} THEN base ELSE step[<<Picked(U), f[U \ {Picked(U)}]>>]]

\* Two foldings of one step agree wherever both are defined: at a smallest set where
\* they did not, both would be one step away from a set where they do.
LEMMA OneFold ==
  ASSUME NEW D, IsFiniteSet(D), NEW base, NEW step, NEW V \in SUBSET D, NEW W \in SUBSET D,
         NEW f, NEW g, Folds(f, V, base, step), Folds(g, W, base, step)
  PROVE  \A U \in (SUBSET V) \cap (SUBSET W) : f[U] = g[U]
<1> DEFINE T == {U \in (SUBSET V) \cap (SUBSET W) : f[U] # g[U]}
<1> SUFFICES ASSUME T # {} PROVE FALSE
  OBVIOUS
<1>0. T \subseteq SUBSET D
  OBVIOUS
<1>1. PICK U \in T : \A X \in T : ~Below(X, U)
  <2> HIDE DEF T
  <2> QED  BY <1>0, SmallestSet
<1>2. U # {}
  BY DEF Folds
<1>3. U \ {Picked(U)} \in (SUBSET V) \cap (SUBSET W) /\ Below(U \ {Picked(U)}, U)
  BY <1>2, PickedIn DEF Below
<1>4. f[U \ {Picked(U)}] = g[U \ {Picked(U)}]
  BY <1>1, <1>3
<1>5. /\ f[U] = step[<<Picked(U), f[U \ {Picked(U)}]>>]
      /\ g[U] = step[<<Picked(U), g[U \ {Picked(U)}]>>]
  BY <1>1, <1>2 DEF Folds
<1> QED  BY <1>1, <1>4, <1>5

\* A folding over any finite set exists, one member at a time.
LEMMA FoldExists ==
  ASSUME NEW D, IsFiniteSet(D), NEW base, NEW step
  PROVE  \E f : Folds(f, D, base, step)
<1> DEFINE T == {V \in SUBSET D : ~\E f : Folds(f, V, base, step)}
<1> SUFFICES ASSUME T # {} PROVE FALSE
  OBVIOUS
<1>0. T \subseteq SUBSET D
  OBVIOUS
<1>1. PICK V \in T : \A X \in T : ~Below(X, V)
  <2> HIDE DEF T
  <2> QED  BY <1>0, SmallestSet
<1> DEFINE F(U) == CHOOSE f : Folds(f, U, base, step)
           Rest(U) == U \ {Picked(U)}
           g == [U \in SUBSET V |-> IF U = {} THEN base
                              ELSE step[<<Picked(U), F(Rest(U))[Rest(U)]>>]]
<1>2. \A U \in SUBSET V : U # V => Folds(F(U), U, base, step)
  <2> TAKE U \in SUBSET V
  <2> HAVE U # V
  <2>1. \E f : Folds(f, U, base, step)
    BY <1>1 DEF Below
  <2> QED  BY <2>1
<1>3. \A U \in SUBSET V :
        U # {} => /\ Rest(U) \in SUBSET V /\ Rest(U) # V
                  /\ Rest(U) \subseteq U /\ Rest(U) # U
  BY PickedIn
<1> HIDE DEF F, Rest
<1>4. ASSUME NEW U \in SUBSET V, U # {}
      PROVE  g[Rest(U)] = F(Rest(U))[Rest(U)]
  <2>1. CASE Rest(U) = {}
    <3>1. Folds(F({}), {}, base, step)
      BY <1>2, <1>3, <1>4, <2>1
    <3>2. F({})[{}] = base
      BY <3>1 DEF Folds
    <3>3. g[{}] = base
      OBVIOUS
    <3> QED  BY <2>1, <3>2, <3>3
  <2>2. CASE Rest(U) # {}
    <3> DEFINE W == Rest(U)
    <3>0. /\ W \in SUBSET V /\ W # V /\ W # {}
          /\ Rest(W) \in SUBSET V /\ Rest(W) # V /\ Rest(W) \subseteq W
      BY <1>3, <1>4, <2>2
    <3>1. Folds(F(W), W, base, step) /\ Folds(F(Rest(W)), Rest(W), base, step)
      BY <1>2, <3>0
    <3>2. F(W)[Rest(W)] = F(Rest(W))[Rest(W)]
      <4>1. Rest(W) \in (SUBSET W) \cap (SUBSET Rest(W)) /\ W \in SUBSET D /\ Rest(W) \in SUBSET D
        BY <3>0
      <4> DEFINE X == Rest(W)  fw == F(W)  fx == F(X)
      <4>2. Folds(fw, W, base, step) /\ Folds(fx, X, base, step)
        BY <3>1
      <4>3. X \in (SUBSET W) \cap (SUBSET X) /\ W \in SUBSET D /\ X \in SUBSET D
        BY <4>1
      <4>4. fw[X] = fx[X]
        <5> HIDE DEF W, X, fw, fx
        <5> QED  BY <4>2, <4>3, OneFold
      <4> QED  BY <4>4
    <3>3. F(W)[W] = step[<<Picked(W), F(W)[Rest(W)]>>]
      BY <3>0, <3>1 DEF Folds, Rest
    <3>4. g[W] = step[<<Picked(W), F(Rest(W))[Rest(W)]>>]
      BY <3>0
    <3> QED  BY <3>2, <3>3, <3>4
  <2> QED  BY <2>1, <2>2
<1>5. g = [U \in SUBSET V |-> IF U = {} THEN base ELSE step[<<Picked(U), g[Rest(U)]>>]]
  BY <1>4
<1>6. Folds(g, V, base, step)
  BY <1>5 DEF Folds, Rest
<1> QED  BY <1>1, <1>6

-----------------------------------------------------------------------------
\* flushAll.

Pends(s) == {d \in Docs : s.tab.timers[d] # None}

\* What holds of no flush, and of one more flush when it held before, holds of all:
\* G is the set of pairs (documents flushed, session) of which it holds.
LEMMA FlushInduction ==
  ASSUME NEW s, NEW t, NEW S, s \in S, NEW G, <<{}, s>> \in G,
         \A V \in SUBSET Pends(s), d \in Pends(s), r \in S :
           /\ Flush(r, t, d) \in S
           /\ <<V, r>> \in G /\ d \notin V => <<V \cup {d}, Flush(r, t, d)>> \in G
  PROVE  <<Pends(s), FlushAll(s, t)>> \in G
<1> DEFINE D == Pends(s)
           step == [p \in D \X S |-> Flush(p[2], t, p[1])]
           Is(f) == f = [V \in SUBSET D |->
                           IF V = {} THEN s ELSE Flush(f[V \ {Picked(V)}], t, Picked(V))]
           loop == CHOOSE f : Is(f)
<1>1. IsFiniteSet(D)
  BY DraftAssumption, FS_Subset DEF Pends
<1>2. PICK f : Folds(f, D, s, step)
  BY <1>1, FoldExists
<1> DEFINE T == {V \in SUBSET D : ~(f[V] \in S /\ <<V, f[V]>> \in G)}
<1>3. ASSUME NEW V \in SUBSET D, V # {}, V \ {Picked(V)} \notin T
      PROVE  f[V] = Flush(f[V \ {Picked(V)}], t, Picked(V)) /\ V \notin T
  <2>1. Picked(V) \in V
    BY <1>3, PickedIn
  <2> DEFINE U == V \ {Picked(V)}
  <2>2. U \in SUBSET D /\ Picked(V) \in D /\ Picked(V) \notin U /\ V = U \cup {Picked(V)}
    BY <2>1
  <2>3. f[U] \in S /\ <<U, f[U]>> \in G
    BY <1>3, <2>2
  <2>4. f[V] = step[<<Picked(V), f[U]>>]
    BY <1>2, <1>3 DEF Folds
  <2>5. f[V] = Flush(f[U], t, Picked(V))
    BY <2>2, <2>3, <2>4
  <2>6. f[V] \in S /\ <<V, f[V]>> \in G
    BY <2>2, <2>3, <2>5
  <2> QED  BY <2>5, <2>6
<1>4. f[{}] = s
  BY <1>2 DEF Folds
<1>5. T = {}
  <2> SUFFICES ASSUME T # {} PROVE FALSE
    OBVIOUS
  <2>0. T \subseteq SUBSET D
    OBVIOUS
  <2>1. PICK V \in T : \A X \in T : ~Below(X, V)
    <3> HIDE DEF T, D
    <3> QED  BY <1>1, <2>0, SmallestSet
  <2>2. V # {} /\ V \in SUBSET D
    BY <1>4
  <2>3. Below(V \ {Picked(V)}, V)
    BY <2>2, PickedIn DEF Below
  <2>4. V \ {Picked(V)} \notin T
    BY <2>1, <2>3
  <2> HIDE DEF T
  <2> QED  BY <1>3, <2>2, <2>1, <2>4
<1>6. Is(f)
  <2>1. f = [V \in SUBSET D |-> f[V]]
    BY <1>2 DEF Folds
  <2>2. \A V \in SUBSET D :
          f[V] = IF V = {} THEN s ELSE Flush(f[V \ {Picked(V)}], t, Picked(V))
    BY <1>3, <1>4, <1>5
  <2> QED  BY <2>1, <2>2
<1>7. Is(loop)
  <2> HIDE DEF Is
  <2> QED  BY <1>6
<1>8. \A V \in SUBSET D : loop[V] = f[V]
  <2> SUFFICES ASSUME NEW X \in SUBSET D, loop[X] # f[X] PROVE FALSE
    OBVIOUS
  <2> DEFINE Z == {V \in SUBSET D : loop[V] # f[V]}
  <2>0. Z \subseteq SUBSET D /\ Z # {}
    OBVIOUS
  <2>1. PICK V \in Z : \A Y \in Z : ~Below(Y, V)
    <3> HIDE DEF Z, D
    <3> QED  BY <1>1, <2>0, SmallestSet
  <2>2. V \in SUBSET D /\ loop[V] # f[V]
    OBVIOUS
  <2>3. loop[{}] = s
    BY <1>7
  <2>4. V # {}
    BY <1>4, <2>2, <2>3
  <2>5. Below(V \ {Picked(V)}, V) /\ V \ {Picked(V)} \in SUBSET D
    BY <2>2, <2>4, PickedIn DEF Below
  <2>6. loop[V \ {Picked(V)}] = f[V \ {Picked(V)}]
    BY <2>1, <2>5
  <2>7. loop[V] = Flush(loop[V \ {Picked(V)}], t, Picked(V))
    BY <1>7, <2>2, <2>4
  <2>8. f[V] = Flush(f[V \ {Picked(V)}], t, Picked(V))
    BY <1>6, <2>2, <2>4
  <2> QED  BY <2>2, <2>6, <2>7, <2>8
<1>9. FlushAll(s, t) = loop[D]
  BY DEF FlushAll, FoldSet, MapThenFoldSet, Picked, Pends
<1> QED  BY <1>5, <1>8, <1>9

-----------------------------------------------------------------------------
\* The functions of a session, one by one.

\* None and Newer are no values of the variables.
LEMMA NoneIsNoValue ==
  /\ None \notin Docs /\ None \notin Nat /\ None \notin Envelope /\ None \notin DocState
  /\ None \notin Resumed /\ None \notin Offers /\ None \notin Sending
  /\ Newer \notin Envelope /\ None # Newer
  BY DraftAssumption

\* readSlot: content that can be read is an envelope, and its token a number.
LEMMA ReadableIs ==
  ASSUME NEW slots \in Slots, NEW d \in Docs
  PROVE  /\ Readable(slots[d]) <=> slots[d] \in Envelope
         /\ Readable(slots[d]) => Token(slots[d]) = slots[d].token /\ slots[d].token \in Nat
         /\ ~Readable(slots[d]) => Token(slots[d]) = None
  BY NoneIsNoValue DEF Slots, Readable, Token, Envelope

\* The state of a document that opens has a baseline and nothing else.
LEMMA EmptyIsState ==
  ASSUME NEW b \in Nat
  PROVE  /\ EmptyDocState(b) \in DocState /\ EmptyDocState(b).base = b
         /\ EmptyDocState(b).draft = None /\ EmptyDocState(b).persisted = None
         /\ ~EmptyDocState(b).blocked
  BY DEF EmptyDocState, DocState

\* deleteCodingDraftEnvelope removes the slot only if its token is the one expected.
LEMMA DeleteIs ==
  ASSUME NEW s \in Sessions, NEW d \in Docs, NEW k
  PROVE  LET r == Delete(s, d, k)
         IN  /\ r \in Sessions /\ r.tab = s.tab
             /\ \A e \in Docs \ {d} : r.slot[e] = s.slot[e]
             /\ IF k # None /\ Token(s.slot[d]) = k THEN r.slot[d] = None
                ELSE r.slot[d] = s.slot[d]
<1>1. [s.slot EXCEPT ![d] = None] \in Slots
  BY SessionFields DEF Slots
<1>2. [s EXCEPT !.slot[d] = None] = [s EXCEPT !.slot = [s.slot EXCEPT ![d] = None]]
  BY DEF Sessions
<1>3. d \in DOMAIN s.slot /\ s.slot = [e \in Docs |-> s.slot[e]]
  BY SessionFields DEF Slots
<1> QED  BY <1>1, <1>2, <1>3, SetSlotsIs DEF Delete

\* dropSlot leaves no envelope that is the tab's.
LEMMA DropSlotIs ==
  ASSUME NEW s \in Sessions, NEW d \in Docs, NEW b \in Nat
  PROVE  LET r == DropSlot(s, d, b)
         IN  /\ r \in Sessions /\ SamePage(s.tab, r.tab) /\ SameOpened(s.tab, r.tab)
             /\ OnlyAt(s, r, d)
             /\ r.tab.docs[d] = EmptyDocState(b) /\ r.tab.timers[d] = None
             /\ r.slot[d] \in {s.slot[d], None}
             /\ Readable(s.slot[d])
                  /\ (s.tab.docs[d] = None \/ s.tab.docs[d].persisted = None
                        \/ s.tab.docs[d].persisted = s.slot[d].token)
                  => r.slot[d] = None
<1> DEFINE k == TokenToDrop(s, d)
           a == Delete(s, d, k)
           c == [a EXCEPT !.tab.timers[d] = None]
           r == SetState(c, d, EmptyDocState(b))
<1>0. DropSlot(s, d, b) = r
  BY DEF DropSlot
<1>1. /\ a \in Sessions /\ a.tab = s.tab /\ \A e \in Docs \ {d} : a.slot[e] = s.slot[e]
      /\ IF k # None /\ Token(s.slot[d]) = k THEN a.slot[d] = None ELSE a.slot[d] = s.slot[d]
  BY DeleteIs
<1> HIDE DEF k, a
<1>2. /\ c \in Sessions /\ SamePage(a.tab, c.tab) /\ SameOpened(a.tab, c.tab)
      /\ c.slot = a.slot /\ c.tab.docs = a.tab.docs
      /\ c.tab.timers = [a.tab.timers EXCEPT ![d] = None]
  BY <1>1, SetTimerIs
<1> HIDE DEF c
<1>3. /\ r \in Sessions /\ SamePage(c.tab, r.tab) /\ SameOpened(c.tab, r.tab)
      /\ r.slot = c.slot /\ r.tab.timers = c.tab.timers
      /\ r.tab.docs = [c.tab.docs EXCEPT ![d] = EmptyDocState(b)]
  BY <1>2, SetStateIs, EmptyIsState
<1> HIDE DEF r
<1>4. SamePage(s.tab, r.tab) /\ SameOpened(s.tab, r.tab)
  BY <1>1, <1>2, <1>3 DEF SamePage, SameOpened
<1>5. /\ s.tab.docs \in [Docs -> DocState \cup {None}]
      /\ s.tab.timers \in [Docs -> Nat \cup {None}]
  BY SessionFields
<1>6. OnlyAt(s, r, d) /\ r.tab.docs[d] = EmptyDocState(b) /\ r.tab.timers[d] = None
  BY <1>1, <1>2, <1>3, <1>5 DEF OnlyAt
<1>7. r.slot[d] = a.slot[d] /\ r.slot[d] \in {s.slot[d], None}
  BY <1>1, <1>2, <1>3
<1>8. ASSUME Readable(s.slot[d]),
             s.tab.docs[d] = None \/ s.tab.docs[d].persisted = None
               \/ s.tab.docs[d].persisted = s.slot[d].token
      PROVE  k # None /\ Token(s.slot[d]) = k
  BY <1>8, ReadableIs, SessionFields, NoneIsNoValue DEF k, TokenToDrop
<1> QED  BY <1>0, <1>1, <1>3, <1>4, <1>6, <1>7, <1>8

\* recordDraftIn: no draft, or one whose write is due.
LEMMA RecordDraftIs ==
  ASSUME NEW s \in Sessions, NEW d \in Docs, NEW c \in Nat, NEW k \in Nat
  PROVE  LET r == RecordDraft(s, d, c, k)
             st == s.tab.docs[d]
         IN  /\ r \in Sessions /\ SamePage(s.tab, r.tab) /\ SameOpened(s.tab, r.tab)
             /\ OnlyAt(s, r, d)
             /\ st = None => r = s
             /\ st # None /\ c = st.base => r = DropSlot(s, d, c)
             /\ st # None /\ c # st.base =>
                  /\ r.slot[d] = s.slot[d] /\ r.tab.timers[d] = k /\ r.tab.docs[d] \in DocState
                  /\ r.tab.docs[d].draft = c /\ r.tab.docs[d].write = k
                  /\ r.tab.docs[d].persisted = st.persisted
<1> DEFINE st == s.tab.docs[d]
           new == [st EXCEPT !.draft = c, !.write = k]
           a == SetState(s, d, new)
           r == [a EXCEPT !.tab.timers[d] = k]
<1>0. st \in DocState \cup {None} /\ s.slot \in Slots
  BY SessionFields
<1>1. CASE st = None
  BY <1>1 DEF RecordDraft, SamePage, SameOpened, OnlyAt
<1>2. CASE st # None /\ c = st.base
  BY <1>2, DropSlotIs DEF RecordDraft
<1>3. CASE st # None /\ c # st.base
  <2>1. RecordDraft(s, d, c, k) = r
    BY <1>3 DEF RecordDraft
  <2>2. new \in DocState /\ new.draft = c /\ new.write = k /\ new.persisted = st.persisted
    BY <1>0, <1>3 DEF DocState
  <2> HIDE DEF new
  <2>3. /\ a \in Sessions /\ SamePage(s.tab, a.tab) /\ SameOpened(s.tab, a.tab)
        /\ a.slot = s.slot /\ a.tab.timers = s.tab.timers
        /\ a.tab.docs = [s.tab.docs EXCEPT ![d] = new]
    BY <2>2, SetStateIs
  <2> HIDE DEF a
  <2>4. /\ r \in Sessions /\ SamePage(a.tab, r.tab) /\ SameOpened(a.tab, r.tab)
        /\ r.slot = a.slot /\ r.tab.docs = a.tab.docs
        /\ r.tab.timers = [a.tab.timers EXCEPT ![d] = k]
    BY <2>3, SetTimerIs
  <2> HIDE DEF r
  <2>5. SamePage(s.tab, r.tab) /\ SameOpened(s.tab, r.tab)
    BY <2>3, <2>4 DEF SamePage, SameOpened
  <2>6. /\ s.tab.docs \in [Docs -> DocState \cup {None}]
        /\ s.tab.timers \in [Docs -> Nat \cup {None}]
    BY SessionFields
  <2>7. OnlyAt(s, r, d) /\ r.slot = s.slot /\ r.tab.docs[d] = new /\ r.tab.timers[d] = k
    BY <2>3, <2>4, <2>6 DEF OnlyAt
  <2> QED  BY <1>3, <2>1, <2>2, <2>4, <2>5, <2>7
<1> QED  BY <1>1, <1>2, <1>3

\* persist: nothing, a refusal, or the envelope of the draft; where there is room,
\* no other envelope is touched, and a refusal means that the slot is taken.
Persisted(s, r, t, d, k) ==
  LET st == s.tab.docs[d]
      due == st # None /\ st.draft # None /\ st.write = k
  IN  /\ r \in Sessions /\ SamePage(s.tab, r.tab) /\ SameOpened(s.tab, r.tab)
      /\ r.tab.timers = s.tab.timers
      /\ \A e \in Docs \ {d} : /\ r.tab.docs[e] = s.tab.docs[e]
                               /\ r.slot[e] \in {s.slot[e], None}
                               /\ room = "free" => r.slot[e] = s.slot[e]
      /\ ~due => r = s
      /\ due => /\ r.tab.docs[d] \in DocState
                /\ r.tab.docs[d].base = st.base /\ r.tab.docs[d].draft = st.draft
                /\ r.tab.docs[d].write = st.write
                /\ \/ /\ Readable(r.slot[d]) /\ r.slot[d].by = t /\ r.slot[d].token = k
                      /\ r.slot[d].draft = st.draft /\ r.tab.docs[d].persisted = k
                      /\ Token(s.slot[d]) = st.persisted
                   \/ /\ r.slot[d] = s.slot[d] /\ r.tab.docs[d].persisted = st.persisted
                      /\ room = "free" =>
                           r.tab.docs[d].blocked /\ Taken(s.slot[d], st.persisted)

\* persistNow: a slot that another writer holds blocks the document; else the draft is
\* in its envelope or, refused by a full storage, not stored.
LEMMA PersistIs ==
  ASSUME NEW s \in Sessions, NEW t \in Tabs, NEW d \in Docs, NEW k \in Nat \cup {None},
         s.tab.docs[d] # None /\ s.tab.docs[d].draft # None => s.tab.docs[d].write # None
  PROVE  Persisted(s, Persist(s, t, d, k), t, d, k)
<1> DEFINE st == s.tab.docs[d]
           due == st # None /\ st.draft # None /\ st.write = k
           freed == Collect(s.slot, {d})
           Fail(slots, blocked) ==
             [SetState(s, d, [st EXCEPT !.blocked = blocked]) EXCEPT !.slot = slots]
           wrote == [st EXCEPT !.persisted = k, !.blocked = FALSE]
           env == [token |-> k, by |-> t, base |-> st.base, draft |-> st.draft, expired |-> FALSE]
           Write(slots) == [SetState(s, d, wrote) EXCEPT !.slot = [slots EXCEPT ![d] = env]]
           r == Persist(s, t, d, k)
<1>0. st \in DocState \cup {None} /\ s.slot \in Slots
  BY SessionFields
<1>1. CASE ~due
  <2>1. r = s
    BY <1>1 DEF Persist
  <2> QED  BY <1>1, <2>1 DEF Persisted, SamePage, SameOpened
<1>2. CASE due
  <2>0. st \in DocState /\ k \in Nat /\ st.draft \in Nat /\ st.base \in Nat
    BY <1>0, <1>2 DEF DocState
  <2>1. /\ freed \in Slots /\ freed[d] = s.slot[d]
        /\ \A e \in Docs : freed[e] \in {s.slot[e], None}
    BY <1>0, CollectIs
  <2>2. r = IF Taken(s.slot[d], st.persisted) THEN Fail(s.slot, TRUE)
            ELSE IF room = "free" THEN Write(s.slot)
            ELSE IF room = "tight" /\ freed # s.slot THEN Write(freed)
            ELSE Fail(freed, FALSE)
    BY <1>2 DEF Persist
  <2>3. ASSUME NEW slots \in Slots, NEW b \in BOOLEAN
        PROVE  LET f == Fail(slots, b)
               IN  /\ f \in Sessions /\ SamePage(s.tab, f.tab) /\ SameOpened(s.tab, f.tab)
                   /\ f.slot = slots /\ f.tab.timers = s.tab.timers
                   /\ \A e \in Docs \ {d} : f.tab.docs[e] = s.tab.docs[e]
                   /\ f.tab.docs[d] = [st EXCEPT !.blocked = b]
                   /\ [st EXCEPT !.blocked = b] \in DocState
    <3> DEFINE new == [st EXCEPT !.blocked = b]
    <3>1. new \in DocState
      BY <2>0 DEF DocState
    <3> HIDE DEF new
    <3> DEFINE f == SetState(s, d, new)
    <3>2. /\ f \in Sessions /\ SamePage(s.tab, f.tab) /\ SameOpened(s.tab, f.tab)
          /\ f.tab.timers = s.tab.timers /\ f.tab.docs = [s.tab.docs EXCEPT ![d] = new]
      BY <3>1, SetStateIs
    <3> HIDE DEF f
    <3>3. s.tab.docs \in [Docs -> DocState \cup {None}]
      BY SessionFields
    <3>4. LET g == [f EXCEPT !.slot = slots]
          IN  g \in Sessions /\ g.tab = f.tab /\ g.slot = slots
      BY <3>2, SetSlotsIs
    <3> QED  BY <3>1, <3>2, <3>3, <3>4 DEF new, f
  <2>4. ASSUME NEW slots \in Slots
        PROVE  /\ Write(slots) \in Sessions /\ SamePage(s.tab, Write(slots).tab)
               /\ SameOpened(s.tab, Write(slots).tab)
               /\ Write(slots).slot = [slots EXCEPT ![d] = env]
               /\ Write(slots).tab.timers = s.tab.timers
               /\ \A e \in Docs \ {d} : Write(slots).tab.docs[e] = s.tab.docs[e]
               /\ Write(slots).tab.docs[d] = wrote
    <3>1. wrote \in DocState
      BY <2>0 DEF DocState
    <3> HIDE DEF wrote
    <3> DEFINE f == SetState(s, d, wrote)
    <3>2. /\ f \in Sessions /\ SamePage(s.tab, f.tab) /\ SameOpened(s.tab, f.tab)
          /\ f.slot = s.slot /\ f.tab.timers = s.tab.timers
          /\ f.tab.docs = [s.tab.docs EXCEPT ![d] = wrote]
      BY <3>1, SetStateIs
    <3> HIDE DEF f
    <3>3. s.tab.docs \in [Docs -> DocState \cup {None}]
      BY SessionFields
    <3>4. env \in Envelope
      BY <2>0 DEF Envelope
    <3> DEFINE put == [slots EXCEPT ![d] = env]
    <3>5. put \in Slots
      BY <3>4 DEF Slots
    <3> HIDE DEF put
    <3>6. LET g == [f EXCEPT !.slot = put]
          IN  g \in Sessions /\ g.tab = f.tab /\ g.slot = put
      BY <3>2, <3>5, SetSlotsIs
    <3> QED  BY <3>2, <3>3, <3>6 DEF put, f
  <2>5. /\ env.by = t /\ env.token = k /\ env.draft = st.draft
        /\ env \in Envelope /\ Readable(env)
        /\ wrote.persisted = k /\ wrote.base = st.base /\ wrote.draft = st.draft
        /\ wrote.write = st.write /\ wrote \in DocState
    <3>1. env \in Envelope /\ env.by = t /\ env.token = k /\ env.draft = st.draft
      BY <2>0 DEF Envelope
    <3>2. Readable(env)
      <4> HIDE DEF env
      <4> QED  BY <3>1, NoneIsNoValue DEF Readable
    <3>3. wrote \in DocState
      BY <2>0 DEF DocState
    <3>4. /\ wrote.persisted = k /\ wrote.base = st.base /\ wrote.draft = st.draft
          /\ wrote.write = st.write
      BY <2>0 DEF DocState
    <3> QED  BY <3>1, <3>2, <3>3, <3>4
  <2>6. \A b \in BOOLEAN : LET new == [st EXCEPT !.blocked = b] IN
          new.persisted = st.persisted /\ new.base = st.base /\ new.draft = st.draft
            /\ new.write = st.write /\ new.blocked = b
    BY <2>0 DEF DocState
  <2>7. ASSUME NEW slots \in Slots, \A e \in Docs : slots[e] \in {s.slot[e], None}
        PROVE  LET put == [slots EXCEPT ![d] = env]
               IN  /\ put[d] = env
                   /\ \A e \in Docs \ {d} : put[e] = slots[e] /\ put[e] \in {s.slot[e], None}
    BY <2>7 DEF Slots
  <2> HIDE DEF Fail, Write, freed, wrote, env, st, r
  <2>8. CASE Taken(s.slot[d], st.persisted)
    <3>1. r = Fail(s.slot, TRUE)
      BY <2>8, <2>2 DEF r
    <3>2. /\ r \in Sessions /\ SamePage(s.tab, r.tab) /\ SameOpened(s.tab, r.tab)
          /\ r.slot = s.slot /\ r.tab.timers = s.tab.timers
          /\ \A e \in Docs \ {d} : r.tab.docs[e] = s.tab.docs[e]
          /\ r.tab.docs[d] = [st EXCEPT !.blocked = TRUE] /\ r.tab.docs[d] \in DocState
      BY <1>0, <2>3, <3>1
    <3> QED  BY <1>2, <2>6, <2>8, <3>2 DEF st, r, Persisted
  <2>9. CASE ~Taken(s.slot[d], st.persisted) /\ room = "free"
    <3>1. r = Write(s.slot)
      BY <2>9, <2>2 DEF r
    <3>2. LET put == [s.slot EXCEPT ![d] = env]
          IN  put[d] = env /\ \A e \in Docs \ {d} : put[e] = s.slot[e]
      BY <1>0, <2>7
    <3>3. Token(s.slot[d]) = st.persisted
      BY <2>9 DEF Taken
    <3>4. /\ r \in Sessions /\ SamePage(s.tab, r.tab) /\ SameOpened(s.tab, r.tab)
          /\ r.slot = [s.slot EXCEPT ![d] = env] /\ r.tab.timers = s.tab.timers
          /\ \A e \in Docs \ {d} : r.tab.docs[e] = s.tab.docs[e]
          /\ r.tab.docs[d] = wrote
      BY <1>0, <2>4, <3>1
    <3> QED  BY <1>2, <2>5, <3>2, <3>3, <3>4 DEF st, r, Persisted
  <2>10. CASE ~Taken(s.slot[d], st.persisted) /\ room = "tight" /\ freed # s.slot
    <3>1. r = Write(freed)
      BY <2>10, <2>2 DEF r
    <3>2. LET put == [freed EXCEPT ![d] = env]
          IN  put[d] = env /\ \A e \in Docs \ {d} : put[e] \in {s.slot[e], None}
      BY <2>1, <2>7
    <3>3. Token(s.slot[d]) = st.persisted
      BY <2>10 DEF Taken
    <3>4. /\ r \in Sessions /\ SamePage(s.tab, r.tab) /\ SameOpened(s.tab, r.tab)
          /\ r.slot = [freed EXCEPT ![d] = env] /\ r.tab.timers = s.tab.timers
          /\ \A e \in Docs \ {d} : r.tab.docs[e] = s.tab.docs[e]
          /\ r.tab.docs[d] = wrote
      BY <2>1, <2>4, <3>1
    <3> QED  BY <1>2, <2>5, <2>10, <3>2, <3>3, <3>4 DEF st, r, Persisted
  <2>11. CASE /\ ~Taken(s.slot[d], st.persisted) /\ room # "free"
              /\ ~(room = "tight" /\ freed # s.slot)
    <3>1. r = Fail(freed, FALSE)
      BY <2>11, <2>2 DEF r
    <3>2. /\ r \in Sessions /\ SamePage(s.tab, r.tab) /\ SameOpened(s.tab, r.tab)
          /\ r.slot = freed /\ r.tab.timers = s.tab.timers
          /\ \A e \in Docs \ {d} : r.tab.docs[e] = s.tab.docs[e]
          /\ r.tab.docs[d] = [st EXCEPT !.blocked = FALSE] /\ r.tab.docs[d] \in DocState
      BY <2>1, <2>3, <3>1
    <3> QED  BY <1>2, <2>1, <2>6, <2>11, <3>2 DEF st, r, Persisted
  <2> QED  BY <2>8, <2>9, <2>10, <2>11
<1> QED  BY <1>1, <1>2

-----------------------------------------------------------------------------
\* What an open tab knows of a document, and the functions that keep it.

Live(st) == st # None /\ st.draft # None
Due(x, d) == x.timers[d] # None /\ x.timers[d] = x.docs[d].write
Sole(x) == x.alone /\ ~scope.full
Sure(x) == Sole(x) /\ ~scope.lossy
Done(x, d) == x.saving # None /\ x.saving.doc = d /\ x.saving.done

\* The envelope this tab may write over: its own, or any while it is alone.
Own(s, t, d) == Readable(s.slot[d]) /\ (s.slot[d].by = t \/ s.tab.alone)

\* Once the document has been opened, that is the one it believes in.
Mine(s, t, d) ==
  Readable(s.slot[d]) /\ (s.slot[d].by = t \/ (s.tab.alone /\ s.tab.docs[d] # None))
    => s.tab.docs[d] # None /\ s.tab.docs[d].persisted = s.slot[d].token

\* The server's content is the one the page has, but for a send being confirmed.
Fresh(x, d) ==
  Sure(x) /\ x.remote[d] # None => x.remote[d] = server[d] \/ Done(x, d)

\* The form shows the draft.
Shown(x, d) ==
  Assigned(d) /\ d \in x.dirty /\ Live(x.docs[d]) => x.screen[d] = x.docs[d].draft

Held(s, d) == Readable(s.slot[d]) /\ s.slot[d].draft = s.tab.docs[d].draft

\* The envelope the tab may write over holds the draft, or the write is due, or there may
\* be no room for it; an edited document has a draft; a draft is stored, or excused.
Drafted(s, t, d) ==
  LET st == s.tab.docs[d]
  IN  /\ Live(st) => st.write # None
      /\ Own(s, t, d) => /\ Live(st) => Due(s.tab, d) \/ Held(s, d) \/ scope.full
                         /\ d \in s.tab.dirty => Live(st)
      /\ Sure(s.tab) /\ Live(st) =>
           Due(s.tab, d) \/ st.blocked \/ Held(s, d) \/ st.draft = server[d] \/ Done(s.tab, d)

DocOK(s, t, d) == Mine(s, t, d) /\ Fresh(s.tab, d) /\ Shown(s.tab, d) /\ Drafted(s, t, d)

Roomy == ~scope.full => room = "free"

\* A session of t leaves an envelope, removes it, or replaces it by one of its own.
Yields(s, r, t) ==
  \A d \in Docs : \/ r.slot[d] \in {s.slot[d], None}
                  \/ Readable(r.slot[d]) /\ r.slot[d].by = t

\* One thing after another takes from other tabs no more than each does alone.
LEMMA YieldsTwice ==
  ASSUME NEW s, NEW q, NEW r, NEW t, Yields(s, q, t), Yields(q, r, t)
  PROVE  Yields(s, r, t)
  BY NoneIsNoValue DEF Yields, Readable

\* A document is well if nothing of it changes, but that its envelope may be removed
\* by a tab that is not alone.
LEMMA Alike ==
  ASSUME NEW s, NEW r, NEW t, NEW d, DocOK(s, t, d), SamePage(s.tab, r.tab),
         r.tab.docs[d] = s.tab.docs[d], r.tab.timers[d] = s.tab.timers[d],
         r.slot[d] \in {s.slot[d], None}, r.slot[d] = s.slot[d] \/ ~Sole(s.tab)
  PROVE  DocOK(r, t, d)
<1>1. Mine(r, t, d)
  BY DEF DocOK, Mine, SamePage, Sole, Readable
<1>2. Fresh(r.tab, d) /\ Shown(r.tab, d)
  BY DEF DocOK, Fresh, Shown, SamePage, Sole, Sure, Done
<1>3. Drafted(r, t, d)
  BY DEF DocOK, Drafted, Own, Held, SamePage, Sole, Sure, Done, Due, Readable
<1> QED  BY <1>1, <1>2, <1>3 DEF DocOK

\* What dropSlot leaves of the document: no draft, and no envelope of this tab.
LEMMA DropSlotLeaves ==
  ASSUME NEW s \in Sessions, NEW t, NEW d \in Docs, NEW b \in Nat, Mine(s, t, d)
  PROVE  LET r == DropSlot(s, d, b)
         IN  Mine(r, t, d) /\ Shown(r.tab, d) /\ Drafted(r, t, d)
<1> DEFINE r == DropSlot(s, d, b)
<1>1. /\ r \in Sessions /\ SamePage(s.tab, r.tab)
      /\ r.tab.docs[d] = EmptyDocState(b) /\ r.tab.timers[d] = None
      /\ r.slot[d] \in {s.slot[d], None}
      /\ Readable(s.slot[d])
           /\ (s.tab.docs[d] = None \/ s.tab.docs[d].persisted = None
                 \/ s.tab.docs[d].persisted = s.slot[d].token)
           => r.slot[d] = None
  BY DropSlotIs
<1> HIDE DEF r
<1>2. EmptyDocState(b) \in DocState /\ EmptyDocState(b).draft = None
  BY EmptyIsState
<1>3. Readable(r.slot[d]) => r.slot[d] = s.slot[d] /\ r.slot[d].by # t /\ ~s.tab.alone
  BY <1>1 DEF Mine, Readable
<1>4. Mine(r, t, d) /\ ~Own(r, t, d)
  BY <1>1, <1>3 DEF Mine, Own, SamePage
<1>5. ~Live(r.tab.docs[d])
  BY <1>1, <1>2 DEF Live
<1>6. Shown(r.tab, d) /\ Drafted(r, t, d)
  BY <1>4, <1>5 DEF Shown, Drafted
<1> QED  BY <1>4, <1>6 DEF r

\* dropSlot keeps what is known of every document.
LEMMA DropSlotOK ==
  ASSUME NEW s \in Sessions, NEW t, NEW d \in Docs, NEW b \in Nat,
         Mine(s, t, d), Fresh(s.tab, d)
  PROVE  LET r == DropSlot(s, d, b)
         IN  DocOK(r, t, d) /\ \A e \in Docs \ {d} : DocOK(s, t, e) => DocOK(r, t, e)
<1> DEFINE r == DropSlot(s, d, b)
<1>1. r \in Sessions /\ SamePage(s.tab, r.tab) /\ OnlyAt(s, r, d)
  BY DropSlotIs
<1>2. Mine(r, t, d) /\ Shown(r.tab, d) /\ Drafted(r, t, d)
  BY DropSlotLeaves
<1> HIDE DEF r
<1>3. Fresh(r.tab, d)
  BY <1>1 DEF Fresh, Sure, Sole, Done, SamePage
<1>4. \A e \in Docs \ {d} : DocOK(s, t, e) => DocOK(r, t, e)
  BY <1>1, Alike DEF OnlyAt
<1> QED  BY <1>2, <1>3, <1>4 DEF DocOK, r

\* recordDraftIn keeps what is known of every document, if the form shows the draft.
LEMMA RecordDraftOK ==
  ASSUME NEW s \in Sessions, NEW t, NEW d \in Docs, NEW c \in Nat, NEW k \in Nat,
         Mine(s, t, d), Fresh(s.tab, d), s.tab.docs[d] # None,
         Assigned(d) /\ d \in s.tab.dirty => s.tab.screen[d] = c
  PROVE  LET r == RecordDraft(s, d, c, k)
         IN  DocOK(r, t, d) /\ \A e \in Docs \ {d} : DocOK(s, t, e) => DocOK(r, t, e)
<1> DEFINE r == RecordDraft(s, d, c, k)
           st == s.tab.docs[d]
<1>1. CASE c = st.base
  <2>1. r = DropSlot(s, d, c)
    BY <1>1, RecordDraftIs
  <2> QED  BY <2>1, DropSlotOK
<1>2. CASE c # st.base
  <2>1. /\ r \in Sessions /\ SamePage(s.tab, r.tab) /\ OnlyAt(s, r, d)
        /\ r.slot[d] = s.slot[d] /\ r.tab.timers[d] = k /\ r.tab.docs[d] \in DocState
        /\ r.tab.docs[d].draft = c /\ r.tab.docs[d].write = k
        /\ r.tab.docs[d].persisted = st.persisted
    BY <1>2, RecordDraftIs
  <2> HIDE DEF r
  <2>2. r.tab.docs[d] # None /\ c # None /\ k # None
    BY <2>1, NoneIsNoValue
  <2>3. Mine(r, t, d)
    BY <2>1, <2>2 DEF Mine, Sole, SamePage
  <2>4. Fresh(r.tab, d) /\ Shown(r.tab, d)
    BY <2>1 DEF Fresh, Shown, Sure, Sole, Done, SamePage
  <2>5. Drafted(r, t, d)
    BY <2>1, <2>2 DEF Drafted, Own, Held, Due, Live
  <2>6. \A e \in Docs \ {d} : DocOK(s, t, e) => DocOK(r, t, e)
    BY <2>1, Alike DEF OnlyAt
  <2> QED  BY <2>3, <2>4, <2>5, <2>6 DEF DocOK, r
<1> QED  BY <1>1, <1>2

\* What a write leaves behind: the timer cleared first, then persist.
Written(s, t, d, k) == Persist([s EXCEPT !.tab.timers[d] = None], t, d, k)

Wrote(s, r, t, d) ==
  /\ r \in Sessions /\ SamePage(s.tab, r.tab) /\ SameOpened(s.tab, r.tab)
  /\ Yields(s, r, t) /\ r.tab.timers = [s.tab.timers EXCEPT ![d] = None]
  /\ \A e \in Docs : IF s.tab.docs[e] = None THEN r.tab.docs[e] = None
                     ELSE r.tab.docs[e] # None /\ r.tab.docs[e].draft = s.tab.docs[e].draft
  /\ \A e \in Docs \ {d} : /\ r.tab.docs[e] = s.tab.docs[e]
                           /\ room = "free" => r.slot[e] = s.slot[e]
  /\ DocOK(r, t, d) /\ \A e \in Docs \ {d} : DocOK(s, t, e) => DocOK(r, t, e)

\* The write of a draft keeps what is known of every document.
LEMMA WrittenIs ==
  ASSUME NEW s \in Sessions, NEW t \in Tabs, NEW d \in Docs, Roomy, DocOK(s, t, d),
         NEW k, k = s.tab.timers[d] \/ (s.tab.docs[d] # None /\ k = s.tab.docs[d].write)
  PROVE  Wrote(s, Written(s, t, d, k), t, d)
<1> DEFINE a == [s EXCEPT !.tab.timers[d] = None]
           r == Persist(a, t, d, k)
           st == s.tab.docs[d]
           due == st # None /\ st.draft # None /\ st.write = k
<1>0. /\ s.slot \in Slots /\ s.tab.docs \in [Docs -> DocState \cup {None}]
      /\ s.tab.timers \in [Docs -> Nat \cup {None}]
  BY SessionFields
<1>1. /\ a \in Sessions /\ SamePage(s.tab, a.tab) /\ SameOpened(s.tab, a.tab)
      /\ a.slot = s.slot /\ a.tab.docs = s.tab.docs
      /\ a.tab.timers = [s.tab.timers EXCEPT ![d] = None]
  BY SetTimerIs
<1>2. k \in Nat \cup {None} /\ (st # None /\ st.draft # None => st.write # None)
  BY <1>0 DEF DocState, DocOK, Drafted, Own, Held, Live
<1> HIDE DEF a
<1>3. /\ r \in Sessions /\ SamePage(a.tab, r.tab) /\ SameOpened(a.tab, r.tab)
      /\ r.tab.timers = a.tab.timers
      /\ \A e \in Docs \ {d} : /\ r.tab.docs[e] = a.tab.docs[e]
                               /\ r.slot[e] \in {a.slot[e], None}
                               /\ room = "free" => r.slot[e] = a.slot[e]
      /\ ~due => r = a
      /\ due => /\ r.tab.docs[d] \in DocState
                /\ r.tab.docs[d].base = st.base /\ r.tab.docs[d].draft = st.draft
                /\ r.tab.docs[d].write = st.write
                /\ \/ /\ Readable(r.slot[d]) /\ r.slot[d].by = t /\ r.slot[d].token = k
                      /\ r.slot[d].draft = st.draft /\ r.tab.docs[d].persisted = k
                      /\ Token(a.slot[d]) = st.persisted
                   \/ /\ r.slot[d] = a.slot[d] /\ r.tab.docs[d].persisted = st.persisted
                      /\ room = "free" =>
                           r.tab.docs[d].blocked /\ Taken(a.slot[d], st.persisted)
  <2>1. a.tab.docs[d] = st
    BY <1>1
  <2>2. a.tab.docs[d] # None /\ a.tab.docs[d].draft # None => a.tab.docs[d].write # None
    BY <1>2, <2>1
  <2>3. Persisted(a, r, t, d, k)
    BY <1>1, <1>2, <2>2, PersistIs
  <2> HIDE DEF r
  <2> QED  BY <2>1, <2>3 DEF Persisted
<1> HIDE DEF r
<1>4. SamePage(s.tab, r.tab) /\ SameOpened(s.tab, r.tab)
  BY <1>1, <1>3 DEF SamePage, SameOpened
<1>5. r.tab.timers = [s.tab.timers EXCEPT ![d] = None] /\ r.tab.timers[d] = None
  BY <1>0, <1>1, <1>3
<1>6. Yields(s, r, t)
  BY <1>1, <1>3 DEF Yields
<1>7. \A e \in Docs : IF s.tab.docs[e] = None THEN r.tab.docs[e] = None
                      ELSE r.tab.docs[e] # None /\ r.tab.docs[e].draft = s.tab.docs[e].draft
  BY <1>1, <1>3, NoneIsNoValue
<1>8. ASSUME NEW e \in Docs \ {d}, DocOK(s, t, e) PROVE DocOK(r, t, e)
  <2>1. /\ r.tab.docs[e] = s.tab.docs[e] /\ r.tab.timers[e] = s.tab.timers[e]
        /\ r.slot[e] \in {s.slot[e], None} /\ (room = "free" => r.slot[e] = s.slot[e])
    BY <1>0, <1>1, <1>3
  <2>2. Sole(s.tab) => room = "free"
    BY DEF Roomy, Sole
  <2> QED  BY <1>4, <1>8, <2>1, <2>2, Alike
<1>9. DocOK(r, t, d)
  <2>1. CASE ~due
    <3>1. r.tab.docs[d] = st /\ r.slot[d] = s.slot[d]
      BY <1>1, <1>3, <2>1
    <3>2. Live(st) => ~Due(s.tab, d)
      BY <1>2, <2>1 DEF Live, Due
    <3>3. Mine(r, t, d)
      BY <1>4, <3>1 DEF DocOK, Mine, SamePage, Sole
    <3>4. Fresh(r.tab, d) /\ Shown(r.tab, d)
      BY <1>4, <3>1 DEF DocOK, Fresh, Shown, SamePage, Sole, Sure, Done
    <3>5. Drafted(r, t, d)
      BY <1>4, <3>1, <3>2 DEF DocOK, Drafted, Own, Held, SamePage, Sole, Sure, Done
    <3> QED  BY <3>3, <3>4, <3>5 DEF DocOK
  <2>2. CASE due
    <3>0. /\ r.tab.docs[d] # None /\ Live(r.tab.docs[d]) /\ Live(st)
          /\ r.tab.docs[d].draft = st.draft /\ r.tab.docs[d].write = st.write
      BY <1>3, <2>2, NoneIsNoValue DEF Live
    <3>1. Fresh(r.tab, d) /\ Shown(r.tab, d)
      BY <1>4, <3>0 DEF DocOK, Fresh, Shown, SamePage, Sole, Sure, Done
    <3>2. CASE /\ Readable(r.slot[d]) /\ r.slot[d].by = t /\ r.slot[d].token = k
               /\ r.slot[d].draft = st.draft /\ r.tab.docs[d].persisted = k
      <4>1. Mine(r, t, d)
        BY <3>0, <3>2 DEF Mine
      <4>2. Drafted(r, t, d)
        BY <1>2, <3>0, <3>2 DEF Drafted, Own, Held, Live
      <4> QED  BY <3>1, <4>1, <4>2 DEF DocOK
    <3>3. CASE /\ r.slot[d] = s.slot[d] /\ r.tab.docs[d].persisted = st.persisted
               /\ room = "free" => r.tab.docs[d].blocked /\ Taken(s.slot[d], st.persisted)
      <4>1. Mine(r, t, d)
        BY <1>4, <3>0, <3>3 DEF DocOK, Mine, SamePage, Sole, Live
      <4>2. /\ Own(r, t, d) => scope.full
            /\ Sole(s.tab) => r.tab.docs[d].blocked
        BY <1>0, <1>4, <2>2, <3>3, ReadableIs
           DEF Roomy, Sole, DocOK, Mine, Own, Taken, Readable, SamePage
      <4>3. Drafted(r, t, d)
        BY <1>2, <1>4, <3>0, <3>3, <4>2 DEF Drafted, Own, Held, Live, Sure, Sole, SamePage
      <4> QED  BY <3>1, <4>1, <4>3 DEF DocOK
    <3> QED  BY <1>1, <1>3, <2>2, <3>2, <3>3
  <2> QED  BY <2>1, <2>2
<1>10. \A e \in Docs \ {d} : /\ r.tab.docs[e] = s.tab.docs[e]
                             /\ room = "free" => r.slot[e] = s.slot[e]
  BY <1>1, <1>3
<1> QED  BY <1>3, <1>4, <1>5, <1>6, <1>7, <1>8, <1>9, <1>10 DEF Wrote, Written, r, a

\* A draft is in the envelope its tab may write over.
Stores(s, r, t, d) == Live(s.tab.docs[d]) /\ Own(r, t, d) => Held(r, d)

\* flushAll: every document well, no write due and, with room, none of them refused.
Flushed(s, r, t) ==
  /\ r \in Sessions /\ SamePage(s.tab, r.tab) /\ SameOpened(s.tab, r.tab)
  /\ Yields(s, r, t) /\ \A d \in Docs : DocOK(r, t, d) /\ r.tab.timers[d] = None
  /\ room = "free" => \A d \in Docs : s.tab.timers[d] # None => Stores(s, r, t, d)
  /\ \A e \in Docs : IF s.tab.docs[e] = None THEN r.tab.docs[e] = None
                     ELSE r.tab.docs[e] # None /\ r.tab.docs[e].draft = s.tab.docs[e].draft

\* A pending write done at once keeps what is known of every document.
LEMMA FlushIs ==
  ASSUME NEW s \in Sessions, NEW t \in Tabs, NEW d \in Docs, Roomy, DocOK(s, t, d)
  PROVE  Wrote(s, Flush(s, t, d), t, d)
<1>1. CASE s.tab.docs[d] = None
  <2> DEFINE a == [s EXCEPT !.tab.timers[d] = None]
  <2>1. a.tab.docs = s.tab.docs
    BY SetTimerIs, NoneIsNoValue
  <2> HIDE DEF a
  <2>2. Written(s, t, d, s.tab.timers[d]) = a
    BY <1>1, <2>1 DEF Written, Persist, a
  <2>3. Flush(s, t, d) = a
    BY <1>1 DEF Flush, a
  <2> DEFINE k == s.tab.timers[d]
  <2>4. Wrote(s, Written(s, t, d, k), t, d)
    <3>1. k = s.tab.timers[d] \/ (s.tab.docs[d] # None /\ k = s.tab.docs[d].write)
      OBVIOUS
    <3> HIDE DEF k
    <3> QED  BY <3>1, WrittenIs
  <2> QED  BY <2>2, <2>3, <2>4
<1>2. CASE s.tab.docs[d] # None
  <2>1. Flush(s, t, d) = Written(s, t, d, s.tab.docs[d].write)
    BY <1>2 DEF Flush, Written
  <2> QED  BY <1>2, <2>1, WrittenIs
<1> QED  BY <1>1, <1>2

\* With room, a pending write done at once is refused only by the envelope of another tab.
LEMMA FlushHolds ==
  ASSUME NEW s \in Sessions, NEW t \in Tabs, NEW d \in Docs, room = "free", DocOK(s, t, d)
  PROVE  Stores(s, Flush(s, t, d), t, d)
<1> SUFFICES ASSUME Live(s.tab.docs[d]), Own(Flush(s, t, d), t, d)
             PROVE  Held(Flush(s, t, d), d)
  BY DEF Stores
<1> DEFINE a == [s EXCEPT !.tab.timers[d] = None]
           k == s.tab.docs[d].write
           r == Persist(a, t, d, k)
<1>1. Flush(s, t, d) = r
  BY DEF Flush, Live
<1>0. s.slot \in Slots
  BY SessionFields
<1>2. a \in Sessions /\ SamePage(s.tab, a.tab) /\ a.slot = s.slot /\ a.tab.docs = s.tab.docs
  BY SetTimerIs
<1>3. k \in Nat /\ a.tab.docs[d] # None /\ a.tab.docs[d].draft # None
  BY <1>2, SessionFields DEF DocState, DocOK, Drafted, Live
<1> HIDE DEF a
<1>4. Persisted(a, r, t, d, k)
  <2> HIDE DEF k, r
  <2>1. a.tab.docs[d].write # None
    BY <1>2, <1>3, NoneIsNoValue DEF k
  <2> QED  BY <1>2, <1>3, <2>1, PersistIs DEF r
<1>5. Own(r, t, d)
  BY <1>1
<1> HIDE DEF r
<1>6. /\ SamePage(a.tab, r.tab) /\ r.tab.docs[d].draft = a.tab.docs[d].draft
      /\ \/ Readable(r.slot[d]) /\ r.slot[d].draft = a.tab.docs[d].draft
         \/ r.slot[d] = a.slot[d] /\ Taken(a.slot[d], a.tab.docs[d].persisted)
  BY <1>2, <1>3, <1>4 DEF Persisted
<1>7. r.slot[d] = a.slot[d] => ~Taken(a.slot[d], a.tab.docs[d].persisted)
  BY <1>0, <1>2, <1>3, <1>5, <1>6, ReadableIs
     DEF DocOK, Mine, Own, Taken, Readable, SamePage
<1> QED  BY <1>1, <1>6, <1>7 DEF Held

\* flushAll leaves nothing due, and keeps what is known of every document.
LEMMA FlushAllIs ==
  ASSUME NEW s \in Sessions, NEW t \in Tabs, Roomy, \A d \in Docs : DocOK(s, t, d)
  PROVE  Flushed(s, FlushAll(s, t), t)
<1> DEFINE Well == {r \in Sessions : \A d \in Docs : DocOK(r, t, d)}
           Done_(V, r) ==
             /\ SamePage(s.tab, r.tab) /\ SameOpened(s.tab, r.tab) /\ Yields(s, r, t)
             /\ \A e \in Docs : r.tab.timers[e] = IF e \in V THEN None ELSE s.tab.timers[e]
             /\ \A e \in Docs : IF s.tab.docs[e] = None THEN r.tab.docs[e] = None
                                ELSE /\ r.tab.docs[e] # None
                                     /\ r.tab.docs[e].draft = s.tab.docs[e].draft
             /\ room = "free" => \A e \in V : Stores(s, r, t, e)
           G == {p \in (SUBSET Pends(s)) \X Well : Done_(p[1], p[2])}
<1>1. s \in Well /\ Done_({}, s)
  BY DEF SamePage, SameOpened, Yields
<1>2. ASSUME NEW V \in SUBSET Pends(s), NEW d \in Pends(s), NEW r \in Well
      PROVE  /\ Flush(r, t, d) \in Well
             /\ Done_(V, r) => Done_(V \cup {d}, Flush(r, t, d))
  <2> DEFINE q == Flush(r, t, d)
  <2>1. d \in Docs /\ r \in Sessions /\ \A e \in Docs : DocOK(r, t, e)
    BY DEF Pends
  <2>2. Wrote(r, q, t, d)
    BY <2>1, FlushIs
  <2> HIDE DEF q
  <2>3. q \in Well
    BY <2>1, <2>2 DEF Wrote
  <2>4. ASSUME Done_(V, r) PROVE Done_(V \cup {d}, q)
    <3>1. SamePage(s.tab, q.tab) /\ SameOpened(s.tab, q.tab)
      BY <2>2, <2>4 DEF Wrote, SamePage, SameOpened
    <3>2. Yields(s, q, t)
      BY <2>2, <2>4, YieldsTwice DEF Wrote
    <3>3. \A e \in Docs : q.tab.timers[e] = IF e \in V \cup {d} THEN None ELSE s.tab.timers[e]
      BY <2>1, <2>2, <2>4, SessionFields DEF Wrote
    <3>4. \A e \in Docs : IF s.tab.docs[e] = None THEN q.tab.docs[e] = None
                          ELSE q.tab.docs[e] # None /\ q.tab.docs[e].draft = s.tab.docs[e].draft
      BY <2>2, <2>4 DEF Wrote
    <3>5. ASSUME room = "free", NEW e \in V \cup {d} PROVE Stores(s, q, t, e)
      <4>0. e \in Docs /\ (Live(s.tab.docs[e]) => Live(r.tab.docs[e]))
        BY <2>1, <2>4 DEF Pends, Live
      <4>1. CASE e = d
        <5>1. Stores(r, q, t, d)
          BY <2>1, <3>5, FlushHolds DEF q
        <5> QED  BY <4>0, <4>1, <5>1 DEF Stores
      <4>2. CASE e # d
        <5>1. Stores(s, r, t, e)
          BY <2>4, <3>5, <4>2
        <5>2. /\ q.tab.docs[e] = r.tab.docs[e] /\ q.slot[e] = r.slot[e]
              /\ q.tab.alone = r.tab.alone
          BY <2>2, <3>5, <4>0, <4>2 DEF Wrote, SamePage
        <5> QED  BY <5>1, <5>2 DEF Stores, Own, Held
      <4> QED  BY <4>1, <4>2
    <3> QED  BY <3>1, <3>2, <3>3, <3>4, <3>5
  <2> QED  BY <2>3, <2>4 DEF q
<1> HIDE DEF Well, Done_
<1>3. <<{}, s>> \in G
  BY <1>1
<1>4. \A V \in SUBSET Pends(s), d \in Pends(s), r \in Well :
        /\ Flush(r, t, d) \in Well
        /\ <<V, r>> \in G /\ d \notin V => <<V \cup {d}, Flush(r, t, d)>> \in G
  BY <1>2
<1>5. <<Pends(s), FlushAll(s, t)>> \in G
  <2> HIDE DEF G
  <2> QED  BY <1>1, <1>3, <1>4, FlushInduction
<1>6. FlushAll(s, t) \in Well /\ Done_(Pends(s), FlushAll(s, t))
  BY <1>5
<1> QED  BY <1>6 DEF Well, Done_, Pends, Flushed

\* Some document has been opened: nothing else of the session moves.
LEMMA SetEverIs ==
  ASSUME NEW s \in Sessions, NEW v
  PROVE  [s EXCEPT !.tab.ever = v] = [slot |-> s.slot, tab |-> [s.tab EXCEPT !.ever = v]]
  BY DEF Sessions

\* The document that is open changes: nothing else of the session moves.
LEMMA SetOpenedIs ==
  ASSUME NEW s \in Sessions, NEW d \in Docs \cup {None}
  PROVE  LET r == [s EXCEPT !.tab.ever = TRUE, !.tab.opened = d]
         IN  /\ r \in Sessions /\ SamePage(s.tab, r.tab) /\ r.slot = s.slot
             /\ r.tab.docs = s.tab.docs /\ r.tab.timers = s.tab.timers
             /\ r.tab.opened = d /\ r.tab.ever /\ r.tab.offer = s.tab.offer
<1> DEFINE x == [s.tab EXCEPT !.ever = TRUE, !.opened = d]
           r == [slot |-> s.slot, tab |-> x]
<1>1. s.slot \in Slots /\ s.tab \in Tab
  BY SessionFields
<1>2. [s EXCEPT !.tab.ever = TRUE, !.tab.opened = d] = r
  <2> DEFINE y == [s.tab EXCEPT !.ever = TRUE]
             q == [s EXCEPT !.tab.ever = TRUE]
  <2>1. q = [slot |-> s.slot, tab |-> y]
    <3> DEFINE v == TRUE
    <3>1. [s EXCEPT !.tab.ever = v] = [slot |-> s.slot, tab |-> [s.tab EXCEPT !.ever = v]]
      <4> HIDE DEF v
      <4> QED  BY SetEverIs
    <3> QED  BY <3>1
  <2>2. y \in Tab /\ x = [y EXCEPT !.opened = d]
    BY <1>1 DEF Tab
  <2>3. [s EXCEPT !.tab.ever = TRUE, !.tab.opened = d] = [q EXCEPT !.tab.opened = d]
    OBVIOUS
  <2> HIDE DEF q, y
  <2>4. q \in Sessions /\ q.slot = s.slot /\ q.tab = y
    BY <1>1, <2>1, <2>2 DEF Sessions
  <2>5. [q EXCEPT !.tab.opened = d] = [slot |-> q.slot, tab |-> [q.tab EXCEPT !.opened = d]]
    BY <2>4 DEF Sessions, Tab
  <2> QED  BY <2>2, <2>3, <2>4, <2>5
<1>3. x \in Tab
  BY <1>1 DEF Tab
<1>4. /\ SamePage(s.tab, x) /\ x.docs = s.tab.docs /\ x.timers = s.tab.timers
      /\ x.opened = d /\ x.ever /\ x.offer = s.tab.offer
  BY <1>1 DEF Tab, SamePage
<1> HIDE DEF x
<1>5. r.slot = s.slot /\ r.tab = x /\ r \in Sessions
  BY <1>1, <1>3 DEF Sessions
<1> QED  BY <1>2, <1>4, <1>5

\* openDocumentIn at document d, from a session that has opened before or holds nothing.
Opened(s, r, t, d) ==
  /\ r \in Sessions /\ SamePage(s.tab, r.tab) /\ Yields(s, r, t)
  /\ r.tab.ever /\ r.tab.opened = d /\ (d # None => r.tab.docs[d] # None)
  /\ \A e \in Docs : DocOK(r, t, e) /\ (s.tab.docs[e] # None => r.tab.docs[e] # None)

NothingYet(x) ==
  ~x.ever => (\A d \in Docs : x.docs[d] = None) /\ x.offer = None /\ x.saving = None

\* The collection at the first opening takes no envelope from a document in use.
LEMMA FirstGcIs ==
  ASSUME NEW s \in Sessions, NEW t, NEW d, \A e \in Docs : DocOK(s, t, e), NothingYet(s.tab)
  PROVE  LET r == FirstGc(s, d)
         IN  /\ r \in Sessions /\ r.tab = s.tab /\ Yields(s, r, t)
             /\ \A e \in Docs : DocOK(r, t, e)
<1> DEFINE r == FirstGc(s, d)
<1>1. CASE s.tab.ever
  BY <1>1 DEF FirstGc, Yields
<1>2. CASE ~s.tab.ever
  <2> DEFINE slots == Collect(s.slot, {d} \ {None})
  <2>1. slots \in Slots /\ \A e \in Docs : slots[e] \in {s.slot[e], None}
    BY SessionFields, CollectIs
  <2>2. r = [s EXCEPT !.slot = slots]
    BY <1>2 DEF FirstGc
  <2> HIDE DEF slots, r
  <2>3. r \in Sessions /\ r.tab = s.tab /\ r.slot = slots
    BY <2>1, <2>2, SetSlotsIs
  <2>4. ASSUME NEW e \in Docs PROVE DocOK(r, t, e)
    <3>1. DocOK(s, t, e) /\ s.tab.docs[e] = None /\ r.slot[e] \in {s.slot[e], None}
      BY <1>2, <2>1, <2>3 DEF NothingYet
    <3>2. Mine(r, t, e) /\ Fresh(r.tab, e) /\ Shown(r.tab, e)
      BY <2>3, <3>1 DEF DocOK, Mine, Fresh, Shown, Readable
    <3>3. Drafted(r, t, e)
      BY <2>3, <3>1 DEF DocOK, Drafted, Own, Held, Readable, Live
    <3> QED  BY <3>2, <3>3 DEF DocOK
  <2> QED  BY <2>1, <2>3, <2>4 DEF Yields, r
<1> QED  BY <1>1, <1>2

\* seedBaseline keeps a draft that is alive, and takes up the token it finds otherwise.
LEMMA SeedBaselineIs ==
  ASSUME NEW st \in DocState \cup {None}, NEW b \in Nat, NEW k \in Nat \cup {None}
  PROVE  LET r == SeedBaseline(st, b, k)
         IN  /\ r \in DocState
             /\ Live(st) => r = st
             /\ ~Live(st) => r.draft = None /\ r.persisted = k
<1>1. CASE Live(st)
  BY <1>1 DEF SeedBaseline, Live
<1>2. CASE ~Live(st)
  <2> DEFINE o == IF st = None THEN EmptyDocState(b) ELSE st
  <2>1. o \in DocState /\ o.draft = None
    BY <1>2, EmptyIsState DEF Live
  <2>2. SeedBaseline(st, b, k) = [o EXCEPT !.base = b, !.persisted = k]
    BY <1>2 DEF SeedBaseline, Live
  <2> HIDE DEF o
  <2>3. [o EXCEPT !.base = b, !.persisted = k] \in DocState
    BY <2>1 DEF DocState
  <2>4. LET r == [o EXCEPT !.base = b, !.persisted = k] IN r.draft = None /\ r.persisted = k
    BY <2>1 DEF DocState
  <2> QED  BY <1>2, <2>2, <2>3, <2>4
<1> QED  BY <1>1, <1>2

\* offerOrClean: a redundant envelope goes, which a page whose content is fresh may do.
LEMMA OfferOrCleanIs ==
  ASSUME NEW s \in Sessions, NEW t, NEW d \in Docs, NEW e,
         e = IF Readable(s.slot[d]) THEN s.slot[d] ELSE None,
         \A f \in Docs : DocOK(s, t, f), s.tab.remote[d] # None
  PROVE  LET r == OfferOrClean(s, d, e, s.tab.remote[d])
         IN  /\ r \in Sessions /\ SamePage(s.tab, r.tab) /\ Yields(s, r, t)
             /\ r.tab.docs = s.tab.docs /\ r.tab.ever = s.tab.ever
             /\ r.tab.opened = s.tab.opened /\ \A f \in Docs : DocOK(r, t, f)
<1> DEFINE b == s.tab.remote[d]
           r == OfferOrClean(s, d, e, b)
<1>0. s.slot \in Slots /\ (e # None => e \in Envelope /\ e = s.slot[d])
  BY SessionFields, ReadableIs
<1>1. ASSUME NEW o \in Offers \cup {None}, r = Offer(s, o)
      PROVE  /\ r \in Sessions /\ SamePage(s.tab, r.tab) /\ Yields(s, r, t)
             /\ r.tab.docs = s.tab.docs /\ r.tab.ever = s.tab.ever
             /\ r.tab.opened = s.tab.opened /\ \A f \in Docs : DocOK(r, t, f)
  <2> HIDE DEF r
  <2>1. /\ r \in Sessions /\ SamePage(s.tab, r.tab) /\ r.slot = s.slot
        /\ r.tab.docs = s.tab.docs /\ r.tab.timers = s.tab.timers
        /\ r.tab.opened = s.tab.opened /\ r.tab.ever = s.tab.ever
    BY <1>1, OfferIs
  <2> QED  BY <2>1, Alike DEF Yields
<1>2. CASE e = None
  <2>1. r = Offer(s, None)
    BY <1>2 DEF OfferOrClean, Classify
  <2> QED  BY <1>1, <2>1
<1>3. CASE e # None /\ e.draft # b
  <2>1. PICK kind \in {"resumable", "diverged"} :
          r = Offer(s, [doc |-> d, draft |-> e.draft, kind |-> kind])
    BY <1>3 DEF OfferOrClean, Classify
  <2>2. [doc |-> d, draft |-> e.draft, kind |-> kind] \in Offers
    BY <1>0, <1>3 DEF Offers, Envelope
  <2> QED  BY <1>1, <2>1, <2>2
<1>4. CASE e # None /\ e.draft = b
  <2> DEFINE q == Delete(s, d, e.token)
  <2>1. r = Offer(q, None)
    BY <1>4 DEF OfferOrClean, Classify
  <2>2. Readable(s.slot[d]) /\ Token(s.slot[d]) = e.token /\ e.token # None
    BY <1>0, <1>4, ReadableIs, NoneIsNoValue
  <2>3. /\ q \in Sessions /\ q.tab = s.tab /\ \A f \in Docs \ {d} : q.slot[f] = s.slot[f]
        /\ q.slot[d] = None
    BY <2>2, DeleteIs
  <2> HIDE DEF q, r
  <2>4. /\ r \in Sessions /\ SamePage(s.tab, r.tab) /\ r.slot = q.slot
        /\ r.tab.docs = s.tab.docs /\ r.tab.timers = s.tab.timers
        /\ r.tab.opened = s.tab.opened /\ r.tab.ever = s.tab.ever
    BY <2>1, <2>3, OfferIs
  <2>5. \A f \in Docs \ {d} : DocOK(r, t, f)
    BY <2>3, <2>4, Alike
  <2>6. ~Readable(r.slot[d])
    BY <2>3, <2>4 DEF Readable
  <2>7. Mine(r, t, d) /\ Fresh(r.tab, d) /\ Shown(r.tab, d)
    BY <2>4, <2>6 DEF DocOK, Mine, Fresh, Shown, Sure, Sole, SamePage, Done
  <2>8. Drafted(r, t, d)
    <3>1. DocOK(s, t, d)
      OBVIOUS
    <3>2. Sure(s.tab) => b = server[d] \/ Done(s.tab, d)
      BY <3>1 DEF DocOK, Fresh
    <3>3. e = s.slot[d]
      BY <1>0, <1>4
    <3> QED  BY <1>4, <2>4, <2>6, <3>1, <3>2, <3>3
         DEF DocOK, Drafted, Own, Held, Sure, Sole, SamePage, Done, Due
  <2>9. DocOK(r, t, d)
    BY <2>7, <2>8 DEF DocOK
  <2>10. Yields(s, r, t)
    BY <2>3, <2>4 DEF Yields
  <2>11. \A f \in Docs : DocOK(r, t, f)
    BY <2>5, <2>9
  <2> QED  BY <2>4, <2>10, <2>11 DEF r
<1> QED  BY <1>2, <1>3, <1>4

\* openDocument, as a whole: the document is open, the others are as they were.
LEMMA OpenDocumentIs ==
  ASSUME NEW s \in Sessions, NEW t, NEW d \in Docs \cup {None}, NEW b,
         \A e \in Docs : DocOK(s, t, e), NothingYet(s.tab),
         s.tab.opened # None => s.tab.docs[s.tab.opened] # None,
         d # None => b = s.tab.remote[d] /\ b # None
  PROVE  Opened(s, OpenDocument(s, d, b), t, d)
<1> DEFINE r == OpenDocument(s, d, b)
           a == FirstGc(s, d)
           o == [a EXCEPT !.tab.ever = TRUE, !.tab.opened = d]
<1>1. CASE s.tab.ever /\ s.tab.opened = d
  BY <1>1 DEF OpenDocument, Opened, SamePage, Yields
<1>2. CASE ~(s.tab.ever /\ s.tab.opened = d)
  <2>1. /\ a \in Sessions /\ a.tab = s.tab /\ Yields(s, a, t)
        /\ \A e \in Docs : DocOK(a, t, e)
    BY FirstGcIs
  <2> HIDE DEF a
  <2>2. /\ o \in Sessions /\ SamePage(a.tab, o.tab) /\ o.slot = a.slot
        /\ o.tab.docs = a.tab.docs /\ o.tab.timers = a.tab.timers
        /\ o.tab.opened = d /\ o.tab.ever
    BY <2>1, SetOpenedIs
  <2> HIDE DEF o
  <2>3. SamePage(s.tab, o.tab) /\ Yields(s, o, t) /\ \A e \in Docs : DocOK(o, t, e)
    BY <2>1, <2>2, Alike DEF Yields
  <2>4. CASE d = None
    <3>1. r = Offer(o, None) /\ None \in Offers \cup {None}
      BY <1>2, <2>4 DEF OpenDocument, o, a
    <3> HIDE DEF r
    <3>2. /\ r \in Sessions /\ SamePage(o.tab, r.tab) /\ r.slot = o.slot
          /\ r.tab.docs = o.tab.docs /\ r.tab.timers = o.tab.timers
          /\ r.tab.opened = o.tab.opened /\ r.tab.ever = o.tab.ever
      <4> DEFINE nothing == None
      <4>1. nothing \in Offers \cup {None} /\ r = Offer(o, nothing)
        BY <3>1
      <4> HIDE DEF nothing
      <4> QED  BY <2>2, <4>1, OfferIs
    <3>3. \A e \in Docs : DocOK(r, t, e)
      BY <2>3, <3>2, Alike
    <3>4. SamePage(s.tab, r.tab) /\ Yields(s, r, t)
      BY <2>3, <3>2 DEF SamePage, Yields
    <3> QED  BY <2>1, <2>2, <2>4, <3>2, <3>3, <3>4 DEF Opened, r
  <2>5. CASE d # None
    <3> DEFINE e == IF Readable(o.slot[d]) THEN o.slot[d] ELSE None
               st == o.tab.docs[d]
               new == SeedBaseline(st, b, Token(e))
               q == SetState(o, d, new)
    <3>0. d \in Docs /\ b \in Nat /\ s.tab.remote[d] = b /\ o.tab.remote[d] = b
      BY <2>3, <2>5, SessionFields DEF Tab, SamePage
    <3>1. r = OfferOrClean(q, d, e, b)
      BY <1>2, <2>5 DEF OpenDocument, o, a
    <3>2. /\ Token(e) \in Nat \cup {None} /\ st \in DocState \cup {None}
          /\ Readable(o.slot[d]) => Token(e) = o.slot[d].token
      BY <2>2, <3>0, SessionFields, ReadableIs DEF Token, Readable
    <3>3. /\ new \in DocState /\ (Live(st) => new = st)
          /\ ~Live(st) => new.draft = None /\ new.persisted = Token(e)
      <4> DEFINE k == Token(e)
      <4>1. k \in Nat \cup {None} /\ st \in DocState \cup {None}
        BY <3>2
      <4>2. ASSUME NEW v, v = SeedBaseline(st, b, k)
            PROVE  /\ v \in DocState /\ (Live(st) => v = st)
                   /\ ~Live(st) => v.draft = None /\ v.persisted = k
        <5> HIDE DEF st, k
        <5> QED  BY <3>0, <4>1, <4>2, SeedBaselineIs
      <4> QED  BY <4>2
    <3> HIDE DEF new
    <3>4. /\ q \in Sessions /\ SamePage(o.tab, q.tab) /\ SameOpened(o.tab, q.tab)
          /\ q.slot = o.slot /\ q.tab.timers = o.tab.timers
          /\ q.tab.docs = [o.tab.docs EXCEPT ![d] = new]
      BY <2>2, <3>0, <3>3, SetStateIs
    <3> HIDE DEF q, r
    <3>5. o.tab.docs \in [Docs -> DocState \cup {None}]
      BY <2>2, SessionFields
    <3>6. \A f \in Docs \ {d} : DocOK(q, t, f)
      BY <2>3, <3>4, <3>5, Alike
    <3>7. DocOK(q, t, d)
      <4>1. DocOK(o, t, d) /\ q.tab.docs[d] = new /\ q.slot[d] = o.slot[d] /\ new # None
        BY <2>3, <3>0, <3>3, <3>4, <3>5, NoneIsNoValue
      <4>2. CASE Live(st)
        BY <3>3, <3>4, <4>1, <4>2, Alike
      <4>3. CASE ~Live(st)
        <5>1. ~Live(new) /\ new.persisted = Token(e)
          BY <3>3, <4>3 DEF Live
        <5>2. Mine(q, t, d)
          BY <3>2, <4>1, <5>1 DEF Mine
        <5>3. Fresh(q.tab, d) /\ Shown(q.tab, d)
          BY <3>4, <4>1, <5>1 DEF DocOK, Fresh, Shown, Sure, Sole, SamePage, Done
        <5>4. Drafted(q, t, d)
          BY <3>4, <4>1, <4>3, <5>1 DEF DocOK, Drafted, Own, Held, Sole, SamePage
        <5> QED  BY <5>2, <5>3, <5>4 DEF DocOK
      <4> QED  BY <4>2, <4>3
    <3>8. e = (IF Readable(q.slot[d]) THEN q.slot[d] ELSE None) /\ q.tab.remote[d] = b
      BY <3>0, <3>4 DEF SamePage
    <3>9. /\ r \in Sessions /\ SamePage(q.tab, r.tab) /\ Yields(q, r, t)
          /\ r.tab.docs = q.tab.docs /\ r.tab.ever = q.tab.ever
          /\ r.tab.opened = q.tab.opened /\ \A f \in Docs : DocOK(r, t, f)
      <4> HIDE DEF e
      <4>1. \A f \in Docs : DocOK(q, t, f)
        BY <3>6, <3>7
      <4> QED  BY <2>5, <3>0, <3>1, <3>4, <3>8, <4>1, OfferOrCleanIs
    <3>10. Yields(o, q, t) /\ Yields(o, r, t) /\ Yields(s, r, t)
      <4>1. Yields(o, q, t)
        BY <3>4 DEF Yields
      <4> QED  BY <2>3, <3>9, <4>1, YieldsTwice
    <3>11. SamePage(s.tab, r.tab)
      BY <2>3, <3>4, <3>9 DEF SamePage
    <3>12. \A f \in Docs : s.tab.docs[f] # None => r.tab.docs[f] # None
      BY <2>1, <2>2, <3>3, <3>4, <3>5, <3>9, NoneIsNoValue
    <3>13. r.tab.ever /\ r.tab.opened = d /\ r.tab.docs[d] # None
      BY <2>2, <3>0, <3>3, <3>4, <3>5, <3>9, NoneIsNoValue DEF SameOpened
    <3> QED  BY <3>9, <3>10, <3>11, <3>12, <3>13 DEF Opened, r
  <2> QED  BY <2>4, <2>5
<1> QED  BY <1>1, <1>2

-----------------------------------------------------------------------------
\* The page.

\* What a session holds for a tab that is open, document by document and as a page.
Paged(x) ==
  /\ NothingYet(x)
  /\ x.opened # None => x.docs[x.opened] # None
  /\ \A d \in Docs : Assigned(d) => x.remote[d] # None /\ x.screen[d] # None

\* The document on the screen, once loaded, is open.
OnScreen(x) ==
  x.active # None /\ Loaded(x, x.active)
    => x.ever /\ x.docs[x.active] # None /\ x.screen[x.active] # None

Settled(s, t) == (\A d \in Docs : DocOK(s, t, d)) /\ Paged(s.tab)
Fit(s, t) == Settled(s, t) /\ OnScreen(s.tab)

\* What a change of the page leaves alone.
SameWork(x, y) ==
  /\ y.phase = x.phase /\ y.alone = x.alone /\ y.docs = x.docs /\ y.timers = x.timers
  /\ y.opened = x.opened /\ y.ever = x.ever

\* Only the tab changes.
LEMMA SetTabIs ==
  ASSUME NEW s \in Sessions, NEW y \in Tab
  PROVE  LET r == [s EXCEPT !.tab = y]
         IN  r = [slot |-> s.slot, tab |-> y] /\ r \in Sessions /\ r.tab = y /\ r.slot = s.slot
  BY DEF Sessions

\* A session put together from slots and a tab.
LEMMA PairIs ==
  ASSUME NEW a \in Slots, NEW y \in Tab
  PROVE  LET r == [slot |-> a, tab |-> y]
         IN  r \in Sessions /\ r.tab = y /\ r.slot = a
  BY DEF Sessions

\* A document stays well when the page changes, if its form is not touched, and what the
\* page has of the server is as it was, is as the server has it, or is nothing.
LEMMA Carried ==
  ASSUME NEW s, NEW r, NEW t, NEW d, DocOK(s, t, d), SameWork(s.tab, r.tab),
         r.slot[d] = s.slot[d],
         r.tab.remote[d] \in {s.tab.remote[d], server[d], None},
         Done(s.tab, d) => Done(r.tab, d) \/ ~Sure(s.tab)
  PROVE  /\ Mine(r, t, d) /\ Fresh(r.tab, d)
         /\ (d \in r.tab.dirty => d \in s.tab.dirty)
              /\ (Assigned(d) /\ d \in s.tab.dirty => r.tab.screen[d] = s.tab.screen[d])
              => DocOK(r, t, d)
<1>1. Mine(r, t, d)
  BY DEF DocOK, Mine, SameWork, Sole
<1>2. Fresh(r.tab, d)
  BY DEF DocOK, Fresh, SameWork, Sole, Sure
<1>3. ASSUME d \in r.tab.dirty => d \in s.tab.dirty,
             Assigned(d) /\ d \in s.tab.dirty => r.tab.screen[d] = s.tab.screen[d]
      PROVE  Shown(r.tab, d) /\ Drafted(r, t, d)
  <2>1. Shown(r.tab, d)
    BY <1>3 DEF DocOK, Shown, SameWork
  <2>2. Drafted(r, t, d)
    BY <1>3 DEF DocOK, Drafted, Own, Held, SameWork, Sole, Sure, Due
  <2> QED  BY <2>1, <2>2
<1> QED  BY <1>1, <1>2, <1>3 DEF DocOK

\* The document on the screen changes: the work of the tab does not move.
LEMMA SetActiveIs ==
  ASSUME NEW s \in Sessions, NEW d \in Docs \cup {None}
  PROVE  LET r == [s EXCEPT !.tab.active = d]
         IN  /\ r \in Sessions /\ r.slot = s.slot /\ SameWork(s.tab, r.tab)
             /\ r.tab.active = d /\ r.tab.current = s.tab.current
             /\ r.tab.remote = s.tab.remote /\ r.tab.screen = s.tab.screen
             /\ r.tab.restored = s.tab.restored /\ r.tab.dirty = s.tab.dirty
             /\ r.tab.offer = s.tab.offer /\ r.tab.saving = s.tab.saving
<1> DEFINE x == [s.tab EXCEPT !.active = d]
<1>1. s.slot \in Slots /\ s.tab \in Tab
  BY SessionFields
<1>2. [s EXCEPT !.tab.active = d] = [slot |-> s.slot, tab |-> x]
  BY DEF Sessions, Tab
<1>3. x \in Tab
  BY <1>1 DEF Tab
<1>4. /\ SameWork(s.tab, x) /\ x.active = d /\ x.current = s.tab.current
      /\ x.remote = s.tab.remote /\ x.screen = s.tab.screen /\ x.restored = s.tab.restored
      /\ x.dirty = s.tab.dirty /\ x.offer = s.tab.offer /\ x.saving = s.tab.saving
  BY <1>1 DEF Tab, SameWork
<1> HIDE DEF x
<1> QED  BY <1>1, <1>2, <1>3, <1>4, PairIs

\* The document of Assigned changes: the work of the tab does not move.
LEMMA SetCurrentIs ==
  ASSUME NEW s \in Sessions, NEW d \in Docs \cup {None}
  PROVE  LET r == [s EXCEPT !.tab.current = d]
         IN  /\ r \in Sessions /\ r.slot = s.slot /\ SameWork(s.tab, r.tab)
             /\ r.tab.active = s.tab.active
             /\ r.tab.remote = s.tab.remote /\ r.tab.screen = s.tab.screen
             /\ r.tab.restored = s.tab.restored /\ r.tab.dirty = s.tab.dirty
             /\ r.tab.offer = s.tab.offer /\ r.tab.saving = s.tab.saving
<1> DEFINE x == [s.tab EXCEPT !.current = d]
<1>1. s.slot \in Slots /\ s.tab \in Tab
  BY SessionFields
<1>2. [s EXCEPT !.tab.current = d] = [slot |-> s.slot, tab |-> x]
  BY DEF Sessions, Tab
<1>3. x \in Tab
  BY <1>1 DEF Tab
<1>4. /\ SameWork(s.tab, x) /\ x.active = s.tab.active
      /\ x.remote = s.tab.remote /\ x.screen = s.tab.screen /\ x.restored = s.tab.restored
      /\ x.dirty = s.tab.dirty /\ x.offer = s.tab.offer /\ x.saving = s.tab.saving
  BY <1>1 DEF Tab, SameWork
<1> HIDE DEF x
<1> QED  BY <1>1, <1>2, <1>3, <1>4, PairIs

\* BrowseDocCoder mounts with a content.
LEMMA MountIs ==
  ASSUME NEW x \in Tab, NEW d \in Docs, x.remote[d] # None
  PROVE  LET y == Mount(x, d)
         IN  /\ y \in Tab /\ SameWork(x, y) /\ y.active = x.active
             /\ y.remote = x.remote /\ y.dirty = x.dirty
             /\ y.offer = x.offer /\ y.saving = x.saving
             /\ y.screen[d] # None /\ \A e \in Docs \ {d} : y.screen[e] = x.screen[e]
<1> DEFINE v == IF x.restored # None /\ x.restored.doc = d THEN x.restored.draft ELSE x.remote[d]
           new == [x.screen EXCEPT ![d] = v]
           y == [x EXCEPT !.screen = new]
<1>1. v \in Nat
  BY DEF Tab, Resumed
<1>2. Mount(x, d) = y
  BY DEF Mount
<1>3. /\ new \in [Docs -> Nat \cup {None}] /\ new[d] = v
      /\ \A e \in Docs \ {d} : new[e] = x.screen[e]
  <2> HIDE DEF v
  <2> QED  BY <1>1 DEF Tab
<1>4. v # None
  BY <1>1, NoneIsNoValue
<1> HIDE DEF new, v
<1>5. y \in Tab
  BY <1>3 DEF Tab
<1>6. /\ SameWork(x, y) /\ y.active = x.active /\ y.remote = x.remote /\ y.dirty = x.dirty
      /\ y.offer = x.offer /\ y.saving = x.saving /\ y.screen = new
  BY DEF Tab, SameWork
<1> QED  BY <1>2, <1>3, <1>4, <1>5, <1>6

\* What a step of tab t may make of its session.
Stepped(s, r, t) ==
  /\ r \in Sessions /\ Fit(r, t) /\ Yields(s, r, t)
  /\ r.tab.phase = s.tab.phase /\ r.tab.alone = s.tab.alone

\* The types of what a tab holds.
LEMMA DocsType ==
  ASSUME NEW s \in Sessions
  PROVE  /\ s.tab.screen \in [Docs -> Nat \cup {None}]
         /\ s.tab.remote \in [Docs -> Nat \cup {None}]
         /\ s.tab.dirty \subseteq Docs
         /\ s.tab.active \in Docs \cup {None} /\ s.tab.current \in Docs \cup {None}
         /\ s.tab.opened \in Docs \cup {None} /\ s.tab.ever \in BOOLEAN
         /\ s.tab.saving \in Sending \cup {None} /\ s.tab.offer \in Offers \cup {None}
         /\ s.tab.alone \in BOOLEAN
  BY SessionFields DEF Tab

\* Turning to a document leaves every document well.
Turned(s, r, t) ==
  /\ r \in Sessions /\ Settled(r, t) /\ Yields(s, r, t)
  /\ r.tab.phase = s.tab.phase /\ r.tab.alone = s.tab.alone
  /\ r.tab.active = s.tab.active /\ r.tab.remote = s.tab.remote /\ r.tab.screen = s.tab.screen
  /\ r.tab.saving = s.tab.saving

\* The form of Assigned turns to a document.
LEMMA TurnIs ==
  ASSUME NEW s \in Sessions, NEW t, NEW d \in Docs \cup {None}, NEW k \in Nat, Settled(s, t)
  PROVE  Turned(s, Turn(s, d, k), t)
<1> DEFINE q == IF RecordsAgain(s.tab, d) THEN RecordDraft(s, d, s.tab.screen[d], k) ELSE s
           r == [q EXCEPT !.tab.current = d]
<1>1. /\ q \in Sessions /\ SamePage(s.tab, q.tab) /\ SameOpened(s.tab, q.tab)
      /\ Yields(s, q, t) /\ \A e \in Docs : DocOK(q, t, e)
      /\ \A e \in Docs : s.tab.docs[e] = None <=> q.tab.docs[e] = None
  <2>1. CASE ~RecordsAgain(s.tab, d) \/ s.tab.docs[d] = None
    <3>1. q = s
      <4>1. CASE RecordsAgain(s.tab, d)
        BY <2>1, <4>1 DEF RecordDraft
      <4>2. CASE ~RecordsAgain(s.tab, d)
        BY <4>2
      <4> QED  BY <4>1, <4>2
    <3> HIDE DEF q
    <3> QED  BY <3>1 DEF Settled, SamePage, SameOpened, Yields
  <2>2. CASE RecordsAgain(s.tab, d) /\ s.tab.docs[d] # None
    <3> DEFINE c == s.tab.screen[d]
    <3>1. d \in Docs /\ c \in Nat /\ DocOK(s, t, d) /\ Assigned(d)
      BY <2>2, DocsType DEF RecordsAgain, Settled, Paged
    <3>2. q = RecordDraft(s, d, c, k)
      BY <2>2
    <3>3. DocOK(q, t, d) /\ \A e \in Docs \ {d} : DocOK(s, t, e) => DocOK(q, t, e)
      <4>1. c = s.tab.screen[d]
        OBVIOUS
      <4> HIDE DEF c, q
      <4> QED  BY <2>2, <3>1, <3>2, <4>1, RecordDraftOK DEF DocOK
    <3>4. /\ q \in Sessions /\ SamePage(s.tab, q.tab) /\ SameOpened(s.tab, q.tab)
          /\ OnlyAt(s, q, d) /\ q.slot[d] \in {s.slot[d], None} /\ q.tab.docs[d] # None
      <4> HIDE DEF c, q
      <4>1. CASE c = s.tab.docs[d].base
        <5>1. q = DropSlot(s, d, c)
          BY <2>2, <3>1, <3>2, <4>1, RecordDraftIs
        <5>2. EmptyDocState(c) # None
          BY <3>1, EmptyIsState, NoneIsNoValue
        <5> QED  BY <3>1, <5>1, <5>2, DropSlotIs
      <4>2. CASE c # s.tab.docs[d].base
        BY <2>2, <3>1, <3>2, <4>2, RecordDraftIs, NoneIsNoValue
      <4> QED  BY <4>1, <4>2
    <3> HIDE DEF q
    <3> QED  BY <2>2, <3>3, <3>4 DEF Settled, OnlyAt, Yields
  <2> QED  BY <2>1, <2>2
<1>2. Turn(s, d, k) = r
  BY DEF Turn
<1> HIDE DEF q
<1>3. /\ r \in Sessions /\ r.slot = q.slot /\ SameWork(q.tab, r.tab)
      /\ r.tab.active = q.tab.active
      /\ r.tab.remote = q.tab.remote /\ r.tab.screen = q.tab.screen
      /\ r.tab.restored = q.tab.restored /\ r.tab.dirty = q.tab.dirty
      /\ r.tab.offer = q.tab.offer /\ r.tab.saving = q.tab.saving
  BY <1>1, SetCurrentIs
<1> HIDE DEF r
<1>4. \A e \in Docs : DocOK(r, t, e)
  BY <1>1, <1>3, Carried DEF Done
<1>5. Paged(r.tab)
  BY <1>1, <1>3, DocsType DEF Settled, Paged, NothingYet, SamePage, SameOpened, SameWork
<1>6. Yields(s, r, t)
  BY <1>1, <1>3 DEF Yields
<1>7. /\ r.tab.phase = s.tab.phase /\ r.tab.alone = s.tab.alone
      /\ r.tab.active = s.tab.active /\ r.tab.remote = s.tab.remote /\ r.tab.screen = s.tab.screen
      /\ r.tab.saving = s.tab.saving
  BY <1>1, <1>3 DEF SamePage, SameWork
<1> QED  BY <1>2, <1>3, <1>4, <1>5, <1>6, <1>7 DEF Turned, Settled

\* Opening the document that the page shows.
LEMMA OpensActive ==
  ASSUME NEW s \in Sessions, NEW t, NEW d \in Docs \cup {None}, NEW b, Settled(s, t),
         s.tab.active = d,
         d # None => b = s.tab.remote[d] /\ b # None /\ s.tab.screen[d] # None
  PROVE  Stepped(s, OpenDocument(s, d, b), t)
<1> DEFINE r == OpenDocument(s, d, b)
<1>1. Opened(s, r, t, d)
  BY OpenDocumentIs DEF Settled, Paged
<1> HIDE DEF r
<1>2. Paged(r.tab)
  BY <1>1 DEF Opened, Settled, Paged, NothingYet, SamePage
<1>3. OnScreen(r.tab)
  BY <1>1 DEF Opened, OnScreen, SamePage
<1> QED  BY <1>1, <1>2, <1>3 DEF Opened, Stepped, Fit, Settled, SamePage, r

\* The page turns to a document of either view, and opens it once it is loaded.
LEMMA ShowIs ==
  ASSUME NEW s \in Sessions, NEW t, NEW d \in Docs \cup {None}, NEW k \in Nat, Settled(s, t)
  PROVE  Stepped(s, Show(s, d, k), t)
<1> DEFINE a == [s EXCEPT !.tab.active = d]
           r == Show(s, d, k)
<1>1. /\ a \in Sessions /\ a.slot = s.slot /\ SameWork(s.tab, a.tab)
      /\ a.tab.active = d /\ a.tab.current = s.tab.current
      /\ a.tab.remote = s.tab.remote /\ a.tab.screen = s.tab.screen
      /\ a.tab.restored = s.tab.restored /\ a.tab.dirty = s.tab.dirty
      /\ a.tab.offer = s.tab.offer /\ a.tab.saving = s.tab.saving
  BY SetActiveIs
<1>2. r = IF d = None THEN OpenDocument(a, None, 0)
          ELSE IF Assigned(d) THEN OpenDocument(Turn(a, d, k), d, a.tab.remote[d])
          ELSE IF Loaded(a.tab, d)
          THEN OpenDocument([a EXCEPT !.tab = Mount(@, d)], d, a.tab.remote[d])
          ELSE a
  BY DEF Show
<1> HIDE DEF a, r
<1>3. Settled(a, t)
  <2>1. \A e \in Docs : DocOK(a, t, e)
    BY <1>1, Carried DEF Settled, Done
  <2> QED  BY <1>1, <2>1 DEF Settled, Paged, NothingYet, SameWork
<1>4. \A q : Stepped(a, q, t) => Stepped(s, q, t)
  BY <1>1 DEF Stepped, Yields, SameWork
<1>5. CASE d = None
  <2>1. r = OpenDocument(a, d, 0)
    BY <1>2, <1>5
  <2>2. Stepped(a, r, t)
    BY <1>1, <1>3, <1>5, <2>1, OpensActive
  <2> QED  BY <1>4, <2>2 DEF r
<1>6. CASE d # None /\ Assigned(d)
  <2> DEFINE q == Turn(a, d, k)
  <2>1. Turned(a, q, t)
    BY <1>1, <1>3, TurnIs
  <2>2. r = OpenDocument(q, d, a.tab.remote[d])
    BY <1>2, <1>6
  <2> HIDE DEF q
  <2>3. Stepped(q, r, t)
    BY <1>1, <1>6, <2>1, <2>2, OpensActive DEF Turned, Settled, Paged
  <2>4. Yields(a, r, t)
    BY <2>1, <2>3, YieldsTwice DEF Turned, Stepped
  <2> QED  BY <1>4, <2>1, <2>3, <2>4 DEF Turned, Stepped, r
<1>7. CASE d # None /\ ~Assigned(d) /\ Loaded(a.tab, d)
  <2> DEFINE y == Mount(a.tab, d)
             q == [a EXCEPT !.tab = y]
  <2>0. d \in Docs /\ a.tab.remote[d] # None /\ a.tab \in Tab
    BY <1>1, <1>7, SessionFields DEF Loaded
  <2>1. /\ y \in Tab /\ SameWork(a.tab, y) /\ y.active = a.tab.active
        /\ y.remote = a.tab.remote /\ y.dirty = a.tab.dirty
        /\ y.offer = a.tab.offer /\ y.saving = a.tab.saving
        /\ y.screen[d] # None /\ \A e \in Docs \ {d} : y.screen[e] = a.tab.screen[e]
    BY <2>0, MountIs
  <2>2. r = OpenDocument(q, d, a.tab.remote[d])
    BY <1>2, <1>7
  <2> HIDE DEF y
  <2>3. q \in Sessions /\ q.tab = y /\ q.slot = a.slot
    BY <1>1, <2>1, SetTabIs
  <2> HIDE DEF q
  <2>4. \A e \in Docs : DocOK(q, t, e)
    BY <1>3, <1>7, <2>1, <2>3, Carried DEF Settled, Done
  <2>5. Settled(q, t)
    BY <1>3, <1>7, <2>1, <2>3, <2>4 DEF Settled, Paged, NothingYet, SameWork
  <2>6. Stepped(q, r, t)
    BY <1>1, <2>0, <2>1, <2>2, <2>3, <2>5, OpensActive
  <2>7. Stepped(a, r, t)
    BY <2>1, <2>3, <2>6 DEF Stepped, Yields, SameWork
  <2> QED  BY <1>4, <2>7 DEF r
<1>8. CASE d # None /\ ~Assigned(d) /\ ~Loaded(a.tab, d)
  <2>1. r = a /\ OnScreen(a.tab)
    BY <1>1, <1>2, <1>8 DEF OnScreen
  <2> QED  BY <1>1, <1>3, <2>1 DEF Stepped, Fit, Yields, SameWork, r
<1> QED  BY <1>5, <1>6, <1>7, <1>8 DEF r

-----------------------------------------------------------------------------
\* The invariant, and a step of one session.

\* The inductive invariant.
IInv ==
  /\ TypeOK /\ Roomy
  /\ \A d \in Docs : Readable(slot[d]) => tab[slot[d].by].phase # "new"
  /\ \A t \in Tabs :
       /\ Open(t) => Fit(Session(t), t)
       /\ ~Open(t) => tab[t].saving = None
       /\ Open(t) /\ tab[t].alone => \A u \in Tabs \ {t} : ~Open(u)

\* The session of a tab is the shared slots and its own state.
LEMMA SessionIs ==
  ASSUME NEW t \in Tabs, TypeOK
  PROVE  Session(t) \in Sessions /\ Session(t).slot = slot /\ Session(t).tab = tab[t]
  BY PairIs DEF TypeOK, Session, Slots

\* A tab that is fit in a session is fit in the next state with that session.
LEMMA FitNext ==
  ASSUME NEW t \in Tabs, NEW s, s.slot = slot', s.tab = tab'[t], Fit(s, t),
         scope' = scope, server' = server
  PROVE  Fit(Session(t), t)'
<1>1. Paged(s.tab)' /\ OnScreen(s.tab)'
  BY DEF Fit, Settled, Paged, OnScreen, NothingYet, Assigned, Loaded
<1>2. ASSUME NEW d \in Docs PROVE DocOK(s, t, d)'
  <2>1. DocOK(s, t, d)
    BY DEF Fit, Settled
  <2>2. Mine(s, t, d)' /\ Fresh(s.tab, d)' /\ Shown(s.tab, d)'
    BY <2>1 DEF DocOK, Mine, Fresh, Shown, Sole, Sure, Done, Live, Assigned
  <2>3. Drafted(s, t, d)'
    BY <2>1 DEF DocOK, Drafted, Own, Held, Sole, Sure, Done, Live, Due
  <2> QED  BY <2>2, <2>3 DEF DocOK
<1>3. Fit(s, t)'
  BY <1>1, <1>2 DEF Fit, Settled
<1>4. Session(t)'.slot = s.slot /\ Session(t)'.tab = s.tab
  BY DEF Session
<1> QED  BY <1>3, <1>4 DEF Fit, Settled, DocOK, Mine, Fresh, Shown, Drafted, Own, Held,
           Paged, OnScreen, NothingYet, Sole, Sure, Done, Live, Due, Assigned, Loaded

\* A tab that is not alone stays fit whatever another one does: it owes the storage and
\* the server nothing but what it believes of its own envelopes.
LEMMA OthersFit ==
  ASSUME NEW t \in Tabs, NEW u \in Tabs \ {t}, NEW r,
         Fit(Session(u), u), Yields(Session(t), r, t), slot' = r.slot,
         scope' = scope, SameWork([tab[u] EXCEPT !.alone = FALSE], tab'[u]),
         tab[u] \in Tab, SamePage([tab[u] EXCEPT !.alone = FALSE], tab'[u]),
         tab'[u].offer = tab[u].offer
  PROVE  Fit(Session(u), u)'
<1> DEFINE x == tab[u]
           y == tab'[u]
<1>1. /\ y.docs = x.docs /\ y.timers = x.timers /\ y.opened = x.opened /\ y.ever = x.ever
      /\ ~y.alone /\ y.active = x.active /\ y.remote = x.remote /\ y.screen = x.screen
      /\ y.dirty = x.dirty /\ y.saving = x.saving /\ y.offer = x.offer
  BY DEF SameWork, SamePage, Tab
<1> HIDE DEF x, y
<1>2. Session(u).tab = x /\ Session(u).slot = slot /\ Session(t).slot = slot
  BY DEF Session, x
<1>3. Session(u)'.tab = y /\ Session(u)'.slot = slot'
  BY DEF Session, y
<1>4. (Paged(Session(u).tab))' /\ (OnScreen(Session(u).tab))'
  <2>1. Paged(x) /\ OnScreen(x)
    BY <1>2 DEF Fit, Settled
  <2> QED  BY <1>1, <1>3, <2>1 DEF Paged, OnScreen, NothingYet, Assigned, Loaded
<1>5. ASSUME NEW d \in Docs PROVE DocOK(Session(u), u, d)'
  <2>1. Mine(Session(u), u, d) /\ Shown(x, d) /\ Drafted(Session(u), u, d)
    BY <1>2 DEF Fit, Settled, DocOK
  <2>2. \/ slot'[d] \in {slot[d], None}
        \/ slot'[d].by = t
    BY <1>2 DEF Yields
  <2>3. Mine(Session(u), u, d)'
    BY <1>1, <1>2, <1>3, <2>1, <2>2 DEF Mine, Sole, Readable
  <2>4. Fresh(Session(u).tab, d)' /\ Shown(Session(u).tab, d)'
    BY <1>1, <1>3, <2>1 DEF Fresh, Shown, Sure, Sole, Live, Assigned
  <2>5. Drafted(Session(u), u, d)'
    BY <1>1, <1>2, <1>3, <2>1, <2>2 DEF Drafted, Own, Held, Readable, Sure, Sole, Live, Due
  <2> QED  BY <2>3, <2>4, <2>5 DEF DocOK
<1> QED  BY <1>4, <1>5 DEF Fit, Settled

\* A step of one session keeps the invariant.
LEMMA SessionStep ==
  ASSUME IInv, NEW t \in Tabs, Open(t), NEW r, Stepped(Session(t), r, t),
         SetSession(t, r), UNCHANGED <<scope, server, room>>, edits' \in Nat
  PROVE  IInv'
<1>0. TypeOK
  BY DEF IInv
<1>1. /\ tab \in [Tabs -> Tab] /\ tab' = [tab EXCEPT ![t] = r.tab]
      /\ slot' = r.slot /\ r.slot \in Slots /\ r.tab \in Tab
  BY <1>0, SessionFields DEF TypeOK, SetSession, Stepped
<1>2. tab'[t] = r.tab /\ \A u \in Tabs \ {t} : tab'[u] = tab[u]
  BY <1>1
<1>3. TypeOK'
  <2>1. tab' \in [Tabs -> Tab]
    BY <1>1
  <2> QED  BY <1>0, <1>1, <2>1 DEF TypeOK, Slots
<1>4. Session(t) \in Sessions /\ Session(t).slot = slot /\ Session(t).tab = tab[t]
  BY <1>0, SessionIs
<1>5. \A u \in Tabs : tab'[u].phase = tab[u].phase /\ tab'[u].alone = tab[u].alone
  BY <1>2, <1>4 DEF Stepped
<1>6. \A u \in Tabs : Open(u)' <=> Open(u)
  BY <1>5 DEF Open
<1>7. Roomy'
  BY DEF IInv, Roomy
<1>8. \A d \in Docs : Readable(slot'[d]) => tab'[slot'[d].by].phase # "new"
  <2> SUFFICES ASSUME NEW d \in Docs, Readable(slot'[d]) PROVE tab'[slot'[d].by].phase # "new"
    OBVIOUS
  <2>1. CASE slot'[d] \in {slot[d], None}
    <3>1. slot'[d] = slot[d] /\ slot[d].by \in Tabs
      BY <1>0, <2>1, ReadableIs DEF TypeOK, Slots, Readable, Envelope
    <3> QED  BY <1>5, <3>1 DEF IInv
  <2>2. CASE slot'[d].by = t
    BY <1>5, <2>2 DEF Open
  <2> QED  BY <1>1, <1>4, <2>1, <2>2 DEF Stepped, Yields
<1>9. ASSUME NEW u \in Tabs PROVE Open(u)' => Fit(Session(u), u)'
  <2>1. CASE u = t
    BY <1>1, <1>2, <2>1, FitNext DEF Stepped
  <2>2. CASE u # t
    <3> HAVE Open(u)'
    <3>1. Open(u) /\ ~tab[u].alone /\ Fit(Session(u), u)
      BY <1>6, <2>2 DEF IInv
    <3>2. tab[u] \in Tab
      BY <1>1
    <3>3. [tab[u] EXCEPT !.alone = FALSE] = tab[u]
      BY <3>1, <3>2 DEF Tab
    <3> QED  BY <1>1, <1>2, <2>2, <3>1, <3>2, <3>3, OthersFit DEF Stepped, SameWork, SamePage
  <2> QED  BY <2>1, <2>2
<1>10. ASSUME NEW u \in Tabs
       PROVE  /\ ~Open(u)' => tab'[u].saving = None
              /\ Open(u)' /\ tab'[u].alone => \A v \in Tabs \ {u} : ~Open(v)'
  BY <1>2, <1>5, <1>6 DEF IInv
<1> QED  BY <1>3, <1>7, <1>8, <1>9, <1>10 DEF IInv

\* A step of the session: the page is as it was, and no document is forgotten.
LEMMA WorkStep ==
  ASSUME NEW s \in Sessions, NEW r \in Sessions, NEW t, Paged(s.tab), OnScreen(s.tab),
         SamePage(s.tab, r.tab), SameOpened(s.tab, r.tab), Yields(s, r, t),
         \A e \in Docs : /\ DocOK(r, t, e) /\ (s.tab.docs[e] # None => r.tab.docs[e] # None)
                         /\ s.tab.ever \/ (s.tab.docs[e] = None => r.tab.docs[e] = None)
  PROVE  Stepped(s, r, t)
<1>1. Paged(r.tab)
  BY DocsType DEF Paged, NothingYet, SamePage, SameOpened
<1>2. OnScreen(r.tab)
  BY DocsType DEF OnScreen, Loaded, SamePage, SameOpened
<1> QED  BY <1>1, <1>2 DEF Stepped, Fit, Settled, SamePage

\* An edit recorded in a document that is open is a step of the session.
LEMMA RecordStep ==
  ASSUME NEW s \in Sessions, NEW t, NEW d \in Docs, NEW c \in Nat, NEW k \in Nat,
         Paged(s.tab), OnScreen(s.tab), Mine(s, t, d), Fresh(s.tab, d), s.tab.docs[d] # None,
         Assigned(d) /\ d \in s.tab.dirty => s.tab.screen[d] = c,
         \A e \in Docs \ {d} : DocOK(s, t, e)
  PROVE  Stepped(s, RecordDraft(s, d, c, k), t)
<1> DEFINE r == RecordDraft(s, d, c, k)
<1>1. DocOK(r, t, d) /\ \A e \in Docs \ {d} : DocOK(s, t, e) => DocOK(r, t, e)
  BY RecordDraftOK
<1>2. /\ r \in Sessions /\ SamePage(s.tab, r.tab) /\ SameOpened(s.tab, r.tab)
      /\ OnlyAt(s, r, d) /\ r.slot[d] \in {s.slot[d], None} /\ r.tab.docs[d] # None
  <2>1. CASE c = s.tab.docs[d].base
    <3>1. r = DropSlot(s, d, c) /\ EmptyDocState(c) # None
      BY <2>1, RecordDraftIs, EmptyIsState, NoneIsNoValue
    <3> HIDE DEF r
    <3> QED  BY <3>1, DropSlotIs
  <2>2. CASE c # s.tab.docs[d].base
    <3>1. r = RecordDraft(s, d, c, k)
      OBVIOUS
    <3> HIDE DEF r
    <3> QED  BY <2>2, <3>1, RecordDraftIs, NoneIsNoValue
  <2> QED  BY <2>1, <2>2
<1> HIDE DEF r
<1>3. Yields(s, r, t)
  BY <1>2 DEF Yields, OnlyAt
<1>4. \A e \in Docs : DocOK(r, t, e) /\ (s.tab.docs[e] = None <=> r.tab.docs[e] = None)
  BY <1>1, <1>2 DEF OnlyAt
<1> QED  BY <1>2, <1>3, <1>4, WorkStep DEF r

\* A step of the session may end with a change of the banner.
LEMMA OfferStep ==
  ASSUME NEW s \in Sessions, NEW r, NEW t, NEW o \in Offers \cup {None}, Stepped(s, r, t),
         r.tab.ever
  PROVE  Stepped(s, Offer(r, o), t)
<1> DEFINE q == Offer(r, o)
<1>1. /\ q \in Sessions /\ SamePage(r.tab, q.tab) /\ q.slot = r.slot
      /\ q.tab.docs = r.tab.docs /\ q.tab.timers = r.tab.timers
      /\ q.tab.opened = r.tab.opened /\ q.tab.ever = r.tab.ever
  BY OfferIs DEF Stepped
<1> HIDE DEF q
<1>2. \A e \in Docs : DocOK(q, t, e)
  BY <1>1, Alike DEF Stepped, Fit, Settled
<1>3. Paged(q.tab) /\ OnScreen(q.tab)
  BY <1>1 DEF Stepped, Fit, Settled, Paged, NothingYet, OnScreen, Loaded, SamePage
<1> QED  BY <1>1, <1>2, <1>3 DEF Stepped, Fit, Settled, Yields, SamePage, q

\* The types of what a scope allows.
LEMMA ScopeType ==
  ASSUME TypeOK
  PROVE  /\ scope.assigned \subseteq Docs /\ scope.places \subseteq Docs \cup {None}
         /\ scope.values \subseteq Nat /\ scope.edits \in Nat
  BY DraftAssumption DEF TypeOK

\* The opening of a document uses up one token, or none.
LEMMA UsesType == ASSUME NEW x, NEW d PROVE Uses(x, d) \in Nat
  BY DEF Uses

-----------------------------------------------------------------------------
\* The steps.

\* The user chooses a document.
LEMMA SelectKeeps ==
  ASSUME IInv, NEW t \in Tabs, NEW d \in scope.places, Select(t, d)
  PROVE  IInv'
<1>1. TypeOK /\ Open(t) /\ Fit(Session(t), t)
  BY DEF IInv, Select
<1>2. d \in Docs \cup {None} /\ edits + 1 \in Nat /\ edits' \in Nat
  BY <1>1, ScopeType, UsesType DEF Select, TypeOK
<1>3. Session(t) \in Sessions
  BY <1>1, SessionIs
<1>4. Stepped(Session(t), Show(Session(t), d, edits + 1), t)
  BY <1>1, <1>2, <1>3, ShowIs DEF Fit
<1> QED  BY <1>1, <1>2, <1>4, SessionStep DEF Select

\* The debounce of a document elapses.
LEMMA TimerFiresKeeps ==
  ASSUME IInv, NEW t \in Tabs, NEW d \in Docs, TimerFires(t, d)
  PROVE  IInv'
<1> DEFINE s == Session(t)
           k == tab[t].timers[d]
           r == Written(s, t, d, k)
<1>1. TypeOK /\ Open(t) /\ Fit(s, t) /\ Roomy
  BY DEF IInv, TimerFires
<1>2. s \in Sessions /\ s.tab = tab[t]
  BY <1>1, SessionIs
<1> HIDE DEF s
<1>3. Wrote(s, r, t, d)
  BY <1>1, <1>2, WrittenIs DEF Fit, Settled
<1>4. SetSession(t, r) /\ UNCHANGED <<scope, server, room, edits>>
  BY DEF TimerFires, Written, s
<1> HIDE DEF r
<1>5. Stepped(s, r, t)
  BY <1>1, <1>2, <1>3, WorkStep DEF Wrote, Fit, Settled
<1> QED  BY <1>1, <1>4, <1>5, SessionStep DEF s, TypeOK

\* The tab is hidden, and writes what is due.
LEMMA HideKeeps ==
  ASSUME IInv, NEW t \in Tabs, Hide(t)
  PROVE  IInv'
<1> DEFINE s == Session(t)
           r == FlushAll(s, t)
<1>1. TypeOK /\ Open(t) /\ Fit(s, t) /\ Roomy
  BY DEF IInv, Hide
<1>2. s \in Sessions
  BY <1>1, SessionIs
<1>3. SetSession(t, r) /\ UNCHANGED <<scope, server, room, edits>>
  BY DEF Hide
<1> HIDE DEF s
<1>4. Flushed(s, r, t)
  BY <1>1, <1>2, FlushAllIs DEF Fit, Settled
<1> HIDE DEF r
<1>5. Stepped(s, r, t)
  BY <1>1, <1>2, <1>4, WorkStep DEF Flushed, Fit, Settled
<1> QED  BY <1>1, <1>3, <1>5, SessionStep DEF s, TypeOK

\* The form takes content c.
Typed(x, y, d, c) ==
  /\ y \in Tab /\ SameWork(x, y) /\ y.active = x.active
  /\ y.remote = x.remote /\ y.dirty = x.dirty \cup {d}
  /\ y.offer = x.offer /\ y.saving = x.saving
  /\ y.screen[d] = c /\ \A e \in Docs \ {d} : y.screen[e] = x.screen[e]

\* The form after an edit: its document is dirty and shows the edit.
LEMMA TypedIs ==
  ASSUME NEW x \in Tab, NEW d \in Docs, NEW c \in Nat
  PROVE  Typed(x, [x EXCEPT !.screen[d] = c, !.dirty = @ \cup {d}], d, c)
<1> DEFINE new == [x.screen EXCEPT ![d] = c]
           all == x.dirty \cup {d}
           y == [x EXCEPT !.screen = new, !.dirty = all]
<1>1. [x EXCEPT !.screen[d] = c, !.dirty = @ \cup {d}] = y
  BY DEF Tab
<1>2. /\ new \in [Docs -> Nat \cup {None}] /\ new[d] = c /\ all \in SUBSET Docs
      /\ \A e \in Docs \ {d} : new[e] = x.screen[e]
  BY DEF Tab
<1> HIDE DEF new, all
<1>3. y \in Tab
  BY <1>2 DEF Tab
<1>4. /\ SameWork(x, y) /\ y.active = x.active /\ y.remote = x.remote /\ y.dirty = all
      /\ y.offer = x.offer /\ y.saving = x.saving /\ y.screen = new
  BY DEF Tab, SameWork
<1> HIDE DEF y
<1> QED  BY <1>1, <1>2, <1>3, <1>4 DEF all, Typed

\* An edit of the document on the screen, recorded, is a step of the session.
LEMMA TypedStep ==
  ASSUME NEW s \in Sessions, NEW t, NEW d \in Docs, NEW c \in Nat, NEW k \in Nat, NEW y,
         Mine(s, t, d), Fresh(s.tab, d), \A e \in Docs \ {d} : DocOK(s, t, e),
         Paged(s.tab), s.tab.ever, s.tab.docs[d] # None, s.tab.active = d,
         Typed(s.tab, y, d, c)
  PROVE  Stepped(s, RecordDraft([slot |-> s.slot, tab |-> y], d, c, k), t)
<1> DEFINE a == [slot |-> s.slot, tab |-> y]
           r == RecordDraft(a, d, c, k)
<1>1. /\ y \in Tab /\ SameWork(s.tab, y) /\ y.active = s.tab.active
      /\ y.remote = s.tab.remote /\ y.dirty = s.tab.dirty \cup {d}
      /\ y.offer = s.tab.offer /\ y.saving = s.tab.saving
      /\ y.screen[d] = c /\ \A e \in Docs \ {d} : y.screen[e] = s.tab.screen[e]
  BY DEF Typed
<1>2. a \in Sessions /\ a.tab = y /\ a.slot = s.slot
  BY <1>1, PairIs, SessionFields
<1> HIDE DEF a, r
<1>3. Mine(a, t, d) /\ Fresh(a.tab, d)
  BY <1>1, <1>2 DEF Mine, Fresh, Sole, Sure, Done, SameWork
<1>4. \A e \in Docs \ {d} : DocOK(a, t, e)
  BY <1>1, <1>2, Carried DEF Done
<1>5. c # None
  BY NoneIsNoValue
<1>6. Paged(a.tab)
  BY <1>1, <1>2, <1>5 DEF Paged, NothingYet, SameWork
<1>7. OnScreen(a.tab)
  BY <1>1, <1>2, <1>5 DEF OnScreen, SameWork
<1>8. Stepped(a, r, t)
  BY <1>1, <1>2, <1>3, <1>4, <1>6, <1>7, RecordStep DEF SameWork, r
<1> QED  BY <1>1, <1>2, <1>8 DEF Stepped, Yields, SameWork, r, a

\* The user edits the form on the screen.
LEMMA TypeKeeps ==
  ASSUME IInv, NEW t \in Tabs, NEW c \in scope.values, Type(t, c)
  PROVE  IInv'
<1> DEFINE s == Session(t)
           d == tab[t].active
           y == [tab[t] EXCEPT !.screen[d] = c, !.dirty = @ \cup {d}]
           r == RecordDraft([slot |-> slot, tab |-> y], d, c, edits + 1)
<1>1. TypeOK /\ Open(t) /\ Fit(s, t)
  BY DEF IInv, Type
<1>2. s \in Sessions /\ s.tab = tab[t] /\ s.slot = slot
  BY <1>1, SessionIs
<1>3. /\ d \in Docs /\ s.tab.docs[d] # None /\ s.tab.ever /\ c \in Nat
      /\ tab[t] \in Tab /\ edits + 1 \in Nat
  BY <1>1, <1>2, DocsType, ScopeType DEF Type, Editing, Fit, OnScreen, TypeOK
<1>4. SetSession(t, r) /\ edits' = edits + 1 /\ UNCHANGED <<scope, server, room>>
  BY DEF Type
<1>5. Typed(s.tab, y, d, c)
  <2> HIDE DEF d, s
  <2> QED  BY <1>2, <1>3, TypedIs
<1> HIDE DEF y, s
<1>6. /\ Mine(s, t, d) /\ Fresh(s.tab, d) /\ (\A e \in Docs \ {d} : DocOK(s, t, e))
      /\ Paged(s.tab) /\ s.tab.active = d
  BY <1>1, <1>2, <1>3 DEF Fit, Settled, DocOK
<1> HIDE DEF d
<1>7. Stepped(s, r, t)
  BY <1>2, <1>3, <1>5, <1>6, TypedStep
<1> QED  BY <1>1, <1>3, <1>4, <1>7, SessionStep DEF s

\* What the page has of the server, and what it sends, change: a document that was not
\* loaded stays so.
LEMMA PageStep ==
  ASSUME NEW s \in Sessions, NEW y \in Tab, NEW t, Fit(s, t), SameWork(s.tab, y),
         y.active = s.tab.active, y.screen = s.tab.screen, y.dirty = s.tab.dirty,
         y.offer = s.tab.offer, y.saving # None => s.tab.ever,
         \A e \in Docs : /\ y.remote[e] \in {s.tab.remote[e], server[e]}
                         /\ s.tab.remote[e] = None <=> y.remote[e] = None
                         /\ Done(s.tab, e) => Done(y, e) \/ ~Sure(s.tab)
  PROVE  Stepped(s, [slot |-> s.slot, tab |-> y], t)
<1> DEFINE r == [slot |-> s.slot, tab |-> y]
<1>1. r \in Sessions /\ r.tab = y /\ r.slot = s.slot
  BY PairIs, SessionFields
<1> HIDE DEF r
<1>2. \A e \in Docs : DocOK(r, t, e)
  BY <1>1, Carried DEF Fit, Settled
<1>3. Paged(r.tab)
  BY <1>1 DEF Fit, Settled, Paged, NothingYet, SameWork
<1>4. OnScreen(r.tab)
  BY <1>1, DocsType DEF Fit, OnScreen, Loaded, SameWork
<1> QED  BY <1>1, <1>2, <1>3, <1>4 DEF Stepped, Fit, Settled, Yields, SameWork, r

\* What the render of the page delivers.
LEMMA PropsIs ==
  ASSUME NEW x \in Tab, server \in [Docs -> Nat]
  PROVE  LET y == Props(x)
         IN  /\ y \in Tab /\ SameWork(x, y) /\ y.active = x.active
             /\ y.screen = x.screen /\ y.restored = x.restored /\ y.dirty = x.dirty
             /\ y.offer = x.offer /\ y.saving = x.saving
             /\ \A e \in Docs : y.remote[e] = IF Assigned(e) THEN server[e] ELSE x.remote[e]
<1> DEFINE new == [d \in Docs |-> IF Assigned(d) THEN server[d] ELSE x.remote[d]]
           y == [x EXCEPT !.remote = new]
<1>1. Props(x) = y
  BY DEF Props
<1>2. /\ new \in [Docs -> Nat \cup {None}]
      /\ \A e \in Docs : new[e] = IF Assigned(e) THEN server[e] ELSE x.remote[e]
  BY DEF Tab
<1> HIDE DEF new
<1>3. y \in Tab
  BY <1>2 DEF Tab
<1>4. /\ SameWork(x, y) /\ y.active = x.active /\ y.remote = new /\ y.dirty = x.dirty
      /\ y.offer = x.offer /\ y.saving = x.saving /\ y.screen = x.screen
      /\ y.restored = x.restored
  BY DEF Tab, SameWork
<1> HIDE DEF y
<1> QED  BY <1>1, <1>2, <1>3, <1>4

\* Content of the server that arrives for one document, or is taken from it.
LEMMA DeliveredIs ==
  ASSUME NEW x \in Tab, NEW d \in Docs, NEW v \in Nat \cup {None}
  PROVE  LET y == [x EXCEPT !.remote[d] = v]
         IN  /\ y \in Tab /\ SameWork(x, y) /\ y.active = x.active
             /\ y.screen = x.screen /\ y.restored = x.restored /\ y.dirty = x.dirty
             /\ y.offer = x.offer /\ y.saving = x.saving
             /\ y.remote[d] = v /\ \A e \in Docs \ {d} : y.remote[e] = x.remote[e]
<1> DEFINE new == [x.remote EXCEPT ![d] = v]
           y == [x EXCEPT !.remote = new]
<1>1. [x EXCEPT !.remote[d] = v] = y
  BY DEF Tab
<1>2. /\ new \in [Docs -> Nat \cup {None}] /\ new[d] = v
      /\ \A e \in Docs \ {d} : new[e] = x.remote[e]
  BY DEF Tab
<1> HIDE DEF new
<1>3. y \in Tab
  BY <1>2 DEF Tab
<1>4. /\ SameWork(x, y) /\ y.active = x.active /\ y.remote = new /\ y.dirty = x.dirty
      /\ y.offer = x.offer /\ y.saving = x.saving /\ y.screen = x.screen
      /\ y.restored = x.restored
  BY DEF Tab, SameWork
<1> HIDE DEF y
<1> QED  BY <1>1, <1>2, <1>3, <1>4

\* A send begins or ends: the rest of the page does not move.
LEMMA SavingIs ==
  ASSUME NEW x \in Tab, NEW v \in Sending \cup {None}
  PROVE  LET y == [x EXCEPT !.saving = v]
         IN  /\ y \in Tab /\ SameWork(x, y) /\ y.active = x.active /\ y.remote = x.remote
             /\ y.screen = x.screen /\ y.restored = x.restored /\ y.dirty = x.dirty
             /\ y.offer = x.offer /\ y.saving = v
<1> DEFINE y == [x EXCEPT !.saving = v]
<1>1. y \in Tab
  BY DEF Tab
<1>2. /\ SameWork(x, y) /\ y.active = x.active /\ y.remote = x.remote
      /\ y.screen = x.screen /\ y.restored = x.restored /\ y.dirty = x.dirty
      /\ y.offer = x.offer /\ y.saving = v
  BY DEF Tab, SameWork
<1> QED  BY <1>1, <1>2

\* A page step, taken by the tab.
LEMMA PageKeeps ==
  ASSUME IInv, NEW t \in Tabs, Open(t), NEW y, Stepped(Session(t), [slot |-> slot, tab |-> y], t),
         tab' = [tab EXCEPT ![t] = y], UNCHANGED <<scope, server, slot, room, edits>>
  PROVE  IInv'
<1> DEFINE r == [slot |-> slot, tab |-> y]
<1>1. SetSession(t, r) /\ edits' \in Nat
  BY DEF SetSession, IInv, TypeOK
<1> HIDE DEF r
<1> QED  BY <1>1, SessionStep DEF r

\* The page is rendered again with what the server has.
LEMMA RefreshKeeps ==
  ASSUME IInv, NEW t \in Tabs, Refresh(t)
  PROVE  IInv'
<1> DEFINE s == Session(t)
           y == Props(tab[t])
<1>1. TypeOK /\ Open(t) /\ Fit(s, t)
  BY DEF IInv, Refresh
<1>2. /\ s \in Sessions /\ s.tab = tab[t] /\ s.slot = slot
      /\ tab[t] \in Tab /\ server \in [Docs -> Nat]
  BY <1>1, SessionIs DEF TypeOK
<1>3. /\ y \in Tab /\ SameWork(s.tab, y) /\ y.active = s.tab.active
      /\ y.screen = s.tab.screen /\ y.dirty = s.tab.dirty
      /\ y.offer = s.tab.offer /\ y.saving = s.tab.saving
      /\ \A e \in Docs : y.remote[e] = IF Assigned(e) THEN server[e] ELSE s.tab.remote[e]
  BY <1>2, PropsIs
<1>4. tab' = [tab EXCEPT ![t] = y] /\ UNCHANGED <<scope, server, slot, room, edits>>
  BY DEF Refresh
<1> HIDE DEF s, y
<1>5. \A e \in Docs : /\ y.remote[e] \in {s.tab.remote[e], server[e]}
                      /\ s.tab.remote[e] = None <=> y.remote[e] = None
                      /\ Done(s.tab, e) => Done(y, e) \/ ~Sure(s.tab)
  BY <1>1, <1>2, <1>3, NoneIsNoValue DEF Fit, Settled, Paged, Done
<1>6. y.saving # None => s.tab.ever
  BY <1>1, <1>3 DEF Fit, Settled, Paged, NothingYet
<1>7. Stepped(s, [slot |-> s.slot, tab |-> y], t)
  BY <1>1, <1>2, <1>3, <1>5, <1>6, PageStep
<1> QED  BY <1>1, <1>2, <1>4, <1>7, PageKeeps DEF s

\* A send leaves the page.
LEMMA SubmitKeeps ==
  ASSUME IInv, NEW t \in Tabs, Submit(t)
  PROVE  IInv'
<1> DEFINE s == Session(t)
           v == [doc |-> tab[t].active, saved |-> tab[t].screen[tab[t].active], done |-> FALSE]
           y == [tab[t] EXCEPT !.saving = v]
<1>1. TypeOK /\ Open(t) /\ Fit(s, t)
  BY DEF IInv, Submit
<1>2. s \in Sessions /\ s.tab = tab[t] /\ s.slot = slot /\ tab[t] \in Tab
  BY <1>1, SessionIs DEF TypeOK
<1>3. s.tab.ever /\ s.tab.saving = None
  BY <1>1, <1>2 DEF Submit, Editing, Fit, OnScreen
<1>4. tab[t].active \in Docs /\ tab[t].screen[tab[t].active] \in Nat
  BY <1>1, <1>2, DocsType DEF Submit, Editing, Fit, OnScreen
<1>5. v \in Sending
  BY <1>4 DEF Sending
<1>6. tab' = [tab EXCEPT ![t] = y] /\ UNCHANGED <<scope, server, slot, room, edits>>
  BY <1>1 DEF Submit, TypeOK
<1> HIDE DEF v, s
<1>7. /\ y \in Tab /\ SameWork(s.tab, y) /\ y.active = s.tab.active /\ y.remote = s.tab.remote
      /\ y.screen = s.tab.screen /\ y.dirty = s.tab.dirty /\ y.offer = s.tab.offer
  BY <1>2, <1>5, SavingIs
<1> HIDE DEF y
<1>8. Stepped(s, [slot |-> s.slot, tab |-> y], t)
  BY <1>1, <1>2, <1>3, <1>7, PageStep DEF Done
<1> QED  BY <1>1, <1>2, <1>6, <1>8, PageKeeps DEF s

\* A send is refused, or its answer is lost, which Sure excludes.
LEMMA RefusedKeeps ==
  ASSUME IInv, NEW t \in Tabs, Refused(t)
  PROVE  IInv'
<1> DEFINE s == Session(t)
           y == [tab[t] EXCEPT !.saving = None]
<1>1. TypeOK /\ Open(t) /\ Fit(s, t)
  BY DEF IInv, Refused
<1>2. s \in Sessions /\ s.tab = tab[t] /\ s.slot = slot /\ tab[t] \in Tab
  BY <1>1, SessionIs DEF TypeOK
<1>3. \A e \in Docs : Done(s.tab, e) => ~Sure(s.tab)
  BY <1>2 DEF Refused, Done, Sure
<1>4. tab' = [tab EXCEPT ![t] = y] /\ UNCHANGED <<scope, server, slot, room, edits>>
  BY <1>1 DEF Refused, TypeOK
<1> HIDE DEF s
<1>5. /\ y \in Tab /\ SameWork(s.tab, y) /\ y.active = s.tab.active /\ y.remote = s.tab.remote
      /\ y.screen = s.tab.screen /\ y.dirty = s.tab.dirty /\ y.offer = s.tab.offer
      /\ y.saving = None
  <2> DEFINE v == None
  <2>1. v \in Sending \cup {None} /\ y = [tab[t] EXCEPT !.saving = v]
    OBVIOUS
  <2> HIDE DEF y, v
  <2> QED  BY <1>2, <2>1, SavingIs DEF v
<1> HIDE DEF y
<1>6. Stepped(s, [slot |-> s.slot, tab |-> y], t)
  BY <1>1, <1>2, <1>3, <1>5, PageStep
<1> QED  BY <1>1, <1>2, <1>4, <1>6, PageKeeps DEF s

\* The fetch of a document of Explore arrives, and opens it.
LEMMA FetchedKeeps ==
  ASSUME IInv, NEW t \in Tabs, Fetched(t)
  PROVE  IInv'
<1> DEFINE s == Session(t)
           d == tab[t].active
           z == [tab[t] EXCEPT !.remote[d] = server[d]]
           y == Mount(z, d)
           a == [slot |-> slot, tab |-> y]
           r == OpenDocument(a, d, server[d])
<1>1. TypeOK /\ Open(t) /\ Fit(s, t)
  BY DEF IInv, Fetched
<1>2. s \in Sessions /\ s.tab = tab[t] /\ s.slot = slot /\ tab[t] \in Tab /\ slot \in Slots
  BY <1>1, SessionIs DEF TypeOK, Slots
<1>3. /\ d \in Docs /\ s.tab.remote[d] = None /\ server[d] \in Nat /\ server[d] # None
      /\ s.tab.active = d /\ ~Assigned(d)
  BY <1>1, <1>2, DocsType, NoneIsNoValue DEF Fetched, Loaded, TypeOK, Fit, Settled, Paged
<1>4. SetSession(t, r) /\ UNCHANGED <<scope, server, room, edits>>
  BY DEF Fetched
<1> HIDE DEF s, d
<1>5. /\ z \in Tab /\ SameWork(s.tab, z) /\ z.active = d
      /\ z.screen = s.tab.screen /\ z.dirty = s.tab.dirty
      /\ z.offer = s.tab.offer /\ z.saving = s.tab.saving
      /\ z.remote[d] = server[d] /\ \A e \in Docs \ {d} : z.remote[e] = s.tab.remote[e]
  <2> DEFINE v == server[d]
  <2>1. v \in Nat \cup {None} /\ z = [tab[t] EXCEPT !.remote[d] = v]
    BY <1>3
  <2> HIDE DEF z, v
  <2> QED  BY <1>2, <1>3, <2>1, DeliveredIs DEF v
<1> HIDE DEF z
<1>6. /\ y \in Tab /\ SameWork(z, y) /\ y.active = z.active
      /\ y.remote = z.remote /\ y.dirty = z.dirty
      /\ y.offer = z.offer /\ y.saving = z.saving
      /\ y.screen[d] # None /\ \A e \in Docs \ {d} : y.screen[e] = z.screen[e]
  BY <1>3, <1>5, MountIs
<1> HIDE DEF y
<1>7. a \in Sessions /\ a.tab = y /\ a.slot = s.slot
  BY <1>2, <1>6, PairIs
<1> HIDE DEF a, r
<1>8. SameWork(s.tab, a.tab)
  BY <1>5, <1>6, <1>7 DEF SameWork
<1>9. \A e \in Docs : DocOK(a, t, e)
  <2> TAKE e \in Docs
  <2>1. DocOK(s, t, e) /\ (Done(s.tab, e) => Done(a.tab, e))
    BY <1>1, <1>5, <1>6, <1>7 DEF Fit, Settled, Done
  <2>2. /\ a.slot[e] = s.slot[e] /\ a.tab.remote[e] \in {s.tab.remote[e], server[e], None}
        /\ e \in a.tab.dirty => e \in s.tab.dirty
        /\ Assigned(e) /\ e \in s.tab.dirty => a.tab.screen[e] = s.tab.screen[e]
    BY <1>3, <1>5, <1>6, <1>7
  <2> QED  BY <1>8, <2>1, <2>2, Carried
<1>10. Settled(a, t)
  BY <1>1, <1>3, <1>5, <1>6, <1>7, <1>8, <1>9 DEF Fit, Settled, Paged, NothingYet, SameWork
<1>11. Stepped(a, r, t)
  BY <1>3, <1>5, <1>6, <1>7, <1>10, OpensActive DEF r
<1>12. Stepped(s, r, t)
  BY <1>7, <1>8, <1>11 DEF Stepped, Yields, SameWork
<1>13. edits' \in Nat
  BY <1>1, <1>4 DEF TypeOK
<1> QED  BY <1>1, <1>4, <1>12, <1>13, SessionStep DEF s

\* "Descartar" drops the draft of the document on the screen.
LEMMA DiscardKeeps ==
  ASSUME IInv, NEW t \in Tabs, Discard(t)
  PROVE  IInv'
<1> DEFINE s == Session(t)
           d == tab[t].active
           b == IF tab[t].docs[d] = None THEN 0 ELSE tab[t].docs[d].base
           q == DropSlot(s, d, b)
           r == Offer(q, None)
<1>1. TypeOK /\ Open(t) /\ Fit(s, t)
  BY DEF IInv, Discard
<1>2. s \in Sessions /\ s.tab = tab[t] /\ s.slot = slot
  BY <1>1, SessionIs
<1>3. d \in Docs /\ s.tab.ever
  BY <1>1, <1>2, DocsType DEF Discard, Fit, Settled, Paged, NothingYet
<1>4. b \in Nat
  BY <1>2, <1>3, SessionFields DEF DocState
<1>5. SetSession(t, r) /\ UNCHANGED <<scope, server, room, edits>>
  BY DEF Discard
<1> HIDE DEF s, d, b
<1>6. \A e \in Docs : DocOK(q, t, e)
  <2>1. DocOK(q, t, d) /\ \A e \in Docs \ {d} : DocOK(s, t, e) => DocOK(q, t, e)
    BY <1>1, <1>2, <1>3, <1>4, DropSlotOK DEF Fit, Settled, DocOK
  <2> QED  BY <1>1, <2>1 DEF Fit, Settled
<1>7. /\ q \in Sessions /\ SamePage(s.tab, q.tab) /\ SameOpened(s.tab, q.tab)
      /\ OnlyAt(s, q, d) /\ q.tab.docs[d] # None /\ q.slot[d] \in {s.slot[d], None}
  <2>1. EmptyDocState(b) # None
    BY <1>4, EmptyIsState, NoneIsNoValue
  <2> QED  BY <1>2, <1>3, <1>4, <2>1, DropSlotIs
<1> HIDE DEF q
<1>8. Stepped(s, q, t) /\ q.tab.ever
  BY <1>1, <1>2, <1>3, <1>6, <1>7, WorkStep DEF Fit, Settled, Yields, OnlyAt, SameOpened
<1>9. Stepped(s, r, t)
  <2> DEFINE o == None
  <2>1. o \in Offers \cup {None} /\ r = Offer(q, o)
    OBVIOUS
  <2> HIDE DEF o, r
  <2> QED  BY <1>2, <1>8, <2>1, OfferStep
<1> QED  BY <1>1, <1>5, <1>9, SessionStep DEF s, TypeOK

\* The envelope of a document becomes the tab's draft, and the offer is gone.
LEMMA TakenUp ==
  ASSUME NEW s \in Sessions, NEW t, NEW d \in Docs, Fit(s, t), Readable(s.slot[d]), s.tab.ever,
         NEW st \in DocState, st.draft = s.slot[d].draft,
         st.write = s.slot[d].token, st.persisted = s.slot[d].token
  PROVE  LET r == Offer(SetState(s, d, st), None)
         IN  /\ r \in Sessions /\ SamePage(s.tab, r.tab) /\ r.slot = s.slot
             /\ r.tab.docs[d] = st /\ Live(st) /\ st.write # None /\ r.tab.ever
             /\ Mine(r, t, d) /\ Fresh(r.tab, d) /\ \A e \in Docs \ {d} : DocOK(r, t, e)
             /\ Paged(r.tab) /\ OnScreen(r.tab)
<1> DEFINE q == SetState(s, d, st)
           r == Offer(q, None)
<1>0. s.slot \in Slots /\ s.tab.docs \in [Docs -> DocState \cup {None}]
  BY SessionFields
<1>1. s.slot[d] \in Envelope
  BY <1>0, ReadableIs
<1>2. st.draft \in Nat /\ st.write \in Nat
  BY <1>1 DEF Envelope
<1>3. st # None /\ Live(st) /\ st.write # None
  BY <1>2, NoneIsNoValue DEF Live
<1>4. /\ q \in Sessions /\ SamePage(s.tab, q.tab) /\ SameOpened(s.tab, q.tab)
      /\ q.slot = s.slot /\ q.tab.timers = s.tab.timers
      /\ q.tab.docs = [s.tab.docs EXCEPT ![d] = st]
  BY SetStateIs
<1> HIDE DEF q
<1>5. /\ r \in Sessions /\ SamePage(q.tab, r.tab) /\ r.slot = q.slot
      /\ r.tab.docs = q.tab.docs /\ r.tab.timers = q.tab.timers
      /\ r.tab.opened = q.tab.opened /\ r.tab.ever = q.tab.ever
  <2> DEFINE o == None
  <2>1. o \in Offers \cup {None} /\ r = Offer(q, o)
    OBVIOUS
  <2> HIDE DEF o, r
  <2> QED  BY <1>4, <2>1, OfferIs
<1> HIDE DEF r
<1>6. SamePage(s.tab, r.tab) /\ r.slot = s.slot /\ r.tab.docs[d] = st /\ r.tab.ever
  BY <1>0, <1>4, <1>5 DEF SamePage, SameOpened
<1>7. \A e \in Docs \ {d} : r.tab.docs[e] = s.tab.docs[e] /\ r.tab.timers[e] = s.tab.timers[e]
  BY <1>0, <1>4, <1>5
<1>8. \A e \in Docs \ {d} : DocOK(r, t, e)
  BY <1>6, <1>7, Alike DEF Fit, Settled
<1>9. Mine(r, t, d)
  BY <1>2, <1>3, <1>6 DEF Mine
<1>10. Fresh(r.tab, d)
  BY <1>6 DEF Fit, Settled, DocOK, Fresh, Sure, Sole, Done, SamePage
<1>11. \A e \in Docs : s.tab.docs[e] # None => r.tab.docs[e] # None
  BY <1>3, <1>6, <1>7
<1>12. r.tab.opened = s.tab.opened
  BY <1>4, <1>5 DEF SameOpened
<1>13. Paged(r.tab)
  BY <1>6, <1>11, <1>12, DocsType DEF Fit, Settled, Paged, NothingYet, SamePage
<1>14. OnScreen(r.tab)
  BY <1>6, <1>11, DocsType DEF Fit, OnScreen, Loaded, SamePage
<1> QED  BY <1>3, <1>5, <1>6, <1>8, <1>9, <1>10, <1>13, <1>14 DEF r, q

\* A document is marked as edited: the rest of the page does not move.
LEMMA MarkedIs ==
  ASSUME NEW x \in Tab, NEW d \in Docs
  PROVE  LET y == [x EXCEPT !.dirty = @ \cup {d}]
         IN  /\ y \in Tab /\ SameWork(x, y) /\ y.active = x.active /\ y.remote = x.remote
             /\ y.screen = x.screen /\ y.dirty = x.dirty \cup {d}
             /\ y.offer = x.offer /\ y.saving = x.saving /\ y.restored = x.restored
<1> DEFINE all == x.dirty \cup {d}
           y == [x EXCEPT !.dirty = all]
<1>1. all \in SUBSET Docs
  BY DEF Tab
<1> HIDE DEF all
<1>2. y \in Tab
  BY <1>1 DEF Tab
<1>3. /\ SameWork(x, y) /\ y.active = x.active /\ y.remote = x.remote
      /\ y.screen = x.screen /\ y.dirty = all
      /\ y.offer = x.offer /\ y.saving = x.saving /\ y.restored = x.restored
  BY DEF Tab, SameWork
<1> QED  BY <1>2, <1>3 DEF all

\* The form of one document changes: the rest of the page does not move.
LEMMA ScreenIs ==
  ASSUME NEW x \in Tab, NEW d \in Docs, NEW c \in Nat
  PROVE  LET y == [x EXCEPT !.screen[d] = c]
         IN  /\ y \in Tab /\ SameWork(x, y) /\ y.active = x.active /\ y.remote = x.remote
             /\ y.dirty = x.dirty /\ y.offer = x.offer /\ y.saving = x.saving
             /\ y.screen[d] = c /\ \A e \in Docs \ {d} : y.screen[e] = x.screen[e]
<1> DEFINE new == [x.screen EXCEPT ![d] = c]
           y == [x EXCEPT !.screen = new]
<1>1. [x EXCEPT !.screen[d] = c] = y
  BY DEF Tab
<1>2. /\ new \in [Docs -> Nat \cup {None}] /\ new[d] = c
      /\ \A e \in Docs \ {d} : new[e] = x.screen[e]
  BY DEF Tab
<1> HIDE DEF new
<1>3. y \in Tab
  BY <1>2 DEF Tab
<1>4. /\ SameWork(x, y) /\ y.active = x.active /\ y.remote = x.remote /\ y.dirty = x.dirty
      /\ y.offer = x.offer /\ y.saving = x.saving /\ y.screen = new
  BY DEF Tab, SameWork
<1> HIDE DEF y
<1> QED  BY <1>1, <1>2, <1>3, <1>4

\* What Explore shows as resumed changes: the rest of the page does not move.
LEMMA RestoredIs ==
  ASSUME NEW x \in Tab, NEW o \in Resumed
  PROVE  LET y == [x EXCEPT !.restored = o]
         IN  /\ y \in Tab /\ SameWork(x, y) /\ y.active = x.active /\ y.remote = x.remote
             /\ y.screen = x.screen /\ y.dirty = x.dirty
             /\ y.offer = x.offer /\ y.saving = x.saving
<1> DEFINE y == [x EXCEPT !.restored = o]
<1>1. y \in Tab
  BY DEF Tab
<1>2. /\ SameWork(x, y) /\ y.active = x.active /\ y.remote = x.remote
      /\ y.screen = x.screen /\ y.dirty = x.dirty
      /\ y.offer = x.offer /\ y.saving = x.saving
  BY DEF Tab, SameWork
<1> QED  BY <1>1, <1>2

\* "Retomar": the envelope becomes the draft of its document, and the form shows it.
LEMMA RestoreKeeps ==
  ASSUME IInv, NEW t \in Tabs, Restore(t)
  PROVE  IInv'
<1> DEFINE s == Session(t)
           d == tab[t].active
           e == slot[d]
           st == [base |-> e.base, draft |-> e.draft, write |-> e.token,
                  persisted |-> e.token, blocked |-> FALSE]
           z == Offer(SetState(s, d, st), None)
           x == [z.tab EXCEPT !.dirty = @ \cup {d}]
           c == e.draft
           typed == [x EXCEPT !.screen[d] = c]
           o == [doc |-> d, draft |-> c]
           y == [x EXCEPT !.restored = o]
           m == IF Loaded(y, d) THEN Mount(y, d) ELSE y
<1>1. TypeOK /\ Open(t) /\ Fit(s, t)
  BY DEF IInv, Restore
<1>2. s \in Sessions /\ s.tab = tab[t] /\ s.slot = slot /\ slot \in Slots
  BY <1>1, SessionIs DEF TypeOK, Slots
<1>3. d \in Docs /\ s.tab.ever /\ s.tab.active = d /\ edits + 1 \in Nat
  <2>1. tab[t].offer # None /\ tab[t].active # None
    BY DEF Restore
  <2>2. s.tab.active \in Docs \cup {None} /\ NothingYet(s.tab) /\ edits \in Nat
    BY <1>1, <1>2, DocsType DEF Fit, Settled, Paged, TypeOK
  <2> HIDE DEF s
  <2> QED  BY <1>2, <2>1, <2>2 DEF NothingYet
<1>4. UNCHANGED <<scope, server, room>>
  BY DEF Restore
<1>5. CASE ~Readable(e)
  <2> DEFINE n == None
             r == Offer(s, n)
  <2>1. SetSession(t, r) /\ UNCHANGED edits
    BY <1>5 DEF Restore
  <2>2. n \in Offers \cup {None}
    OBVIOUS
  <2>3. Stepped(s, s, t)
    BY <1>1, <1>2 DEF Stepped, Yields
  <2> HIDE DEF n, s
  <2>4. Stepped(s, r, t)
    BY <1>2, <1>3, <2>2, <2>3, OfferStep
  <2> HIDE DEF r
  <2> QED  BY <1>1, <1>4, <2>1, <2>4, SessionStep DEF s, TypeOK
<1>6. CASE Readable(e)
  <2>1. c \in Nat
    BY <1>2, <1>3, <1>6, ReadableIs DEF Envelope
  <2>2. /\ Assigned(d) => /\ SetSession(t, RecordDraft([z EXCEPT !.tab = typed], d, c, edits + 1))
                          /\ edits' = edits + 1
        /\ ~Assigned(d) => SetSession(t, [z EXCEPT !.tab = m]) /\ UNCHANGED edits
    BY <1>6 DEF Restore
  <2>3. /\ z \in Sessions /\ SamePage(s.tab, z.tab) /\ z.slot = s.slot
        /\ z.tab.docs[d] = st /\ Live(st) /\ st.write # None /\ z.tab.ever
        /\ Mine(z, t, d) /\ Fresh(z.tab, d) /\ \A f \in Docs \ {d} : DocOK(z, t, f)
        /\ Paged(z.tab) /\ OnScreen(z.tab)
    <3> HIDE DEF s, d
    <3>1. Readable(s.slot[d])
      BY <1>2, <1>6
    <3>2. /\ st \in DocState /\ st.draft = s.slot[d].draft
          /\ st.write = s.slot[d].token /\ st.persisted = s.slot[d].token
      <4>1. e \in Envelope /\ e = s.slot[d]
        BY <1>2, <1>3, <1>6, ReadableIs
      <4> HIDE DEF e
      <4> QED  BY <4>1 DEF DocState, Envelope
    <3> HIDE DEF st
    <3> QED  BY <1>1, <1>2, <1>3, <3>1, <3>2, TakenUp
  <2>4. st.draft = c
    OBVIOUS
  <2> HIDE DEF s, d, z, c, st
  <2>5. z.tab \in Tab /\ z.slot \in Slots /\ z.tab.active = d
    BY <1>3, <2>3, SessionFields DEF SamePage
  <2>6. /\ x \in Tab /\ SameWork(z.tab, x) /\ x.active = z.tab.active /\ x.remote = z.tab.remote
        /\ x.screen = z.tab.screen /\ x.dirty = z.tab.dirty \cup {d}
        /\ x.offer = z.tab.offer /\ x.saving = z.tab.saving
    BY <1>3, <2>5, MarkedIs
  <2> HIDE DEF x
  <2>7. ASSUME NEW r, Stepped(z, r, t) PROVE Stepped(s, r, t)
    BY <2>3, <2>7 DEF Stepped, Yields, SamePage
  <2>8. CASE Assigned(d)
    <3> DEFINE r == RecordDraft([slot |-> z.slot, tab |-> typed], d, c, edits + 1)
    <3>1. /\ typed \in Tab /\ SameWork(x, typed) /\ typed.active = x.active
          /\ typed.remote = x.remote /\ typed.dirty = x.dirty
          /\ typed.offer = x.offer /\ typed.saving = x.saving
          /\ typed.screen[d] = c /\ \A f \in Docs \ {d} : typed.screen[f] = x.screen[f]
      BY <1>3, <2>1, <2>6, ScreenIs
    <3> HIDE DEF typed
    <3>2. Typed(z.tab, typed, d, c)
      BY <2>6, <3>1 DEF Typed, SameWork
    <3>3. z.tab.docs[d] # None
      BY <2>3 DEF Live
    <3>4. Stepped(z, r, t)
      BY <1>3, <2>1, <2>3, <2>5, <3>2, <3>3, TypedStep
    <3>5. SetSession(t, r) /\ edits' = edits + 1
      <4>1. [z EXCEPT !.tab = typed] = [slot |-> z.slot, tab |-> typed]
        BY <2>3, <3>1, SetTabIs
      <4> QED  BY <2>2, <2>8, <4>1
    <3> HIDE DEF r
    <3> QED  BY <1>1, <1>3, <1>4, <2>7, <3>4, <3>5, SessionStep DEF s
  <2>9. CASE ~Assigned(d)
    <3> DEFINE r == [slot |-> z.slot, tab |-> m]
    <3>1. o \in Resumed
      BY <1>3, <2>1 DEF Resumed
    <3> HIDE DEF o
    <3>2. /\ y \in Tab /\ SameWork(x, y) /\ y.active = x.active /\ y.remote = x.remote
          /\ y.screen = x.screen /\ y.dirty = x.dirty
          /\ y.offer = x.offer /\ y.saving = x.saving
      BY <2>6, <3>1, RestoredIs
    <3> HIDE DEF y
    <3>3. /\ m \in Tab /\ SameWork(y, m) /\ m.active = y.active
          /\ m.remote = y.remote /\ m.dirty = y.dirty /\ m.offer = y.offer /\ m.saving = y.saving
          /\ Loaded(y, d) => m.screen[d] # None
          /\ \A f \in Docs \ {d} : m.screen[f] = y.screen[f]
      <4>1. CASE Loaded(y, d)
        BY <1>3, <3>2, <4>1, MountIs DEF Loaded
      <4>2. CASE ~Loaded(y, d)
        BY <3>2, <4>2 DEF SameWork
      <4> QED  BY <4>1, <4>2
    <3> HIDE DEF m
    <3>4. /\ m \in Tab /\ SameWork(z.tab, m) /\ m.active = d /\ m.remote = z.tab.remote
          /\ m.dirty = z.tab.dirty \cup {d} /\ m.offer = z.tab.offer /\ m.saving = z.tab.saving
          /\ z.tab.remote[d] # None => m.screen[d] # None
          /\ \A f \in Docs \ {d} : m.screen[f] = z.tab.screen[f]
      BY <2>5, <2>6, <3>2, <3>3 DEF SameWork, Loaded
    <3>5. r \in Sessions /\ r.tab = m /\ r.slot = z.slot
      BY <2>5, <3>4, PairIs
    <3> HIDE DEF r
    <3>6. \A f \in Docs \ {d} : DocOK(r, t, f)
      BY <2>3, <3>4, <3>5, Carried DEF Done
    <3>7. DocOK(r, t, d)
      <4>1. Mine(r, t, d) /\ Fresh(r.tab, d)
        BY <2>3, <3>4, <3>5 DEF Mine, Fresh, Sole, Sure, Done, SameWork
      <4>2. Shown(r.tab, d)
        BY <2>9 DEF Shown
      <4>3. r.tab.docs[d] = st /\ r.slot[d] = e
        BY <1>2, <2>3, <3>4, <3>5 DEF SameWork
      <4>4. Drafted(r, t, d)
        <5>1. r.slot[d].draft = r.tab.docs[d].draft
          BY <2>4, <4>3 DEF c
        <5> QED  BY <1>6, <2>3, <4>3, <5>1 DEF Drafted, Own, Held
      <4> QED  BY <4>1, <4>2, <4>4 DEF DocOK
    <3>8. Paged(r.tab)
      BY <2>3, <2>9, <3>4, <3>5 DEF Paged, NothingYet, SameWork
    <3>9. OnScreen(r.tab)
      BY <2>3, <3>4, <3>5 DEF OnScreen, Loaded, SameWork, Live
    <3>10. Stepped(z, r, t)
      BY <3>4, <3>5, <3>6, <3>7, <3>8, <3>9 DEF Stepped, Fit, Settled, Yields, SameWork
    <3>11. SetSession(t, r) /\ UNCHANGED edits
      <4>1. [z EXCEPT !.tab = m] = r
        BY <2>3, <3>4, SetTabIs DEF r
      <4> QED  BY <2>2, <2>9, <4>1
    <3> QED  BY <1>1, <1>4, <2>7, <3>10, <3>11, SessionStep DEF s, TypeOK
  <2> QED  BY <2>8, <2>9
<1> QED  BY <1>5, <1>6

\* markClean: the document is clean, and nothing is being sent.
LEMMA CleanIs ==
  ASSUME NEW s \in Sessions, NEW d \in Docs
  PROVE  LET r == [s EXCEPT !.tab.dirty = @ \ {d}, !.tab.saving = None]
         IN  /\ r \in Sessions /\ r.slot = s.slot /\ SameWork(s.tab, r.tab)
             /\ r.tab.active = s.tab.active /\ r.tab.current = s.tab.current
             /\ r.tab.remote = s.tab.remote /\ r.tab.screen = s.tab.screen
             /\ r.tab.dirty = s.tab.dirty \ {d} /\ r.tab.offer = s.tab.offer
             /\ r.tab.saving = None
<1> DEFINE all == s.tab.dirty \ {d}
           v == None
           y == [s.tab EXCEPT !.dirty = all]
           x == [y EXCEPT !.saving = v]
           q == [s EXCEPT !.tab.dirty = @ \ {d}]
           r == [s EXCEPT !.tab.dirty = @ \ {d}, !.tab.saving = v]
<1>1. s.slot \in Slots /\ s.tab \in Tab /\ all \in SUBSET Docs /\ v \in Sending \cup {None}
  BY SessionFields, DocsType
<1>2. r = [q EXCEPT !.tab.saving = v]
  OBVIOUS
<1>3. q = [slot |-> s.slot, tab |-> y]
  BY DEF Sessions
<1> HIDE DEF all, v, q, r
<1>4. y \in Tab
  BY <1>1 DEF Tab
<1>5. /\ SameWork(s.tab, y) /\ y.active = s.tab.active /\ y.current = s.tab.current
      /\ y.remote = s.tab.remote /\ y.screen = s.tab.screen
      /\ y.dirty = all /\ y.offer = s.tab.offer
  BY <1>1 DEF Tab, SameWork
<1> HIDE DEF y
<1>6. q \in Sessions /\ q.tab = y /\ q.slot = s.slot
  BY <1>1, <1>3, <1>4, PairIs
<1>7. r = [slot |-> q.slot, tab |-> [q.tab EXCEPT !.saving = v]]
  BY <1>2, <1>6 DEF Sessions
<1>8. x \in Tab
  BY <1>1, <1>4 DEF Tab
<1>9. /\ SameWork(y, x) /\ x.active = y.active /\ x.current = y.current
      /\ x.remote = y.remote /\ x.screen = y.screen
      /\ x.dirty = y.dirty /\ x.offer = y.offer /\ x.saving = v
  BY <1>4 DEF Tab, SameWork
<1> HIDE DEF x
<1>10. r \in Sessions /\ r.tab = x /\ r.slot = s.slot
  <2>1. r = [slot |-> s.slot, tab |-> x]
    BY <1>6, <1>7 DEF x
  <2> QED  BY <1>1, <1>8, <2>1, PairIs
<1>11. /\ r \in Sessions /\ r.slot = s.slot /\ SameWork(s.tab, r.tab)
       /\ r.tab.active = s.tab.active /\ r.tab.current = s.tab.current
       /\ r.tab.remote = s.tab.remote /\ r.tab.screen = s.tab.screen
       /\ r.tab.dirty = all /\ r.tab.offer = s.tab.offer
       /\ r.tab.saving = v
  BY <1>5, <1>9, <1>10 DEF SameWork
<1> QED  BY <1>11 DEF r, v, all

\* submitConfirmed, for the document whose send has been done.
LEMMA SubmitConfirmedIs ==
  ASSUME NEW s \in Sessions, NEW t, NEW d \in Docs, NEW b \in Nat, Fit(s, t),
         s.tab.ever, \A e \in Docs \ {d} : ~Done(s.tab, e)
  PROVE  LET r == SubmitConfirmed(s, d, b)
         IN  /\ r \in Sessions /\ Yields(s, r, t) /\ r.tab.ever
             /\ r.tab.phase = s.tab.phase /\ r.tab.alone = s.tab.alone
             /\ r.tab.active = s.tab.active /\ r.tab.remote = s.tab.remote
             /\ r.tab.saving = None /\ d \notin r.tab.dirty
             /\ \A e \in Docs : s.tab.docs[e] # None => r.tab.docs[e] # None
             /\ \A e \in Docs \ {d} : DocOK(r, t, e)
             /\ Mine(r, t, d) /\ Shown(r.tab, d) /\ Drafted(r, t, d) /\ ~Live(r.tab.docs[d])
             /\ Paged(r.tab) /\ OnScreen(r.tab)
<1> DEFINE z == [s EXCEPT !.tab.dirty = @ \ {d}, !.tab.saving = None]
           q == DropSlot(z, d, b)
           n == None
           r == Offer(q, n)
<1>0. SubmitConfirmed(s, d, b) = r /\ n \in Offers \cup {None}
  BY DEF SubmitConfirmed
<1>1. /\ z \in Sessions /\ z.slot = s.slot /\ SameWork(s.tab, z.tab)
      /\ z.tab.active = s.tab.active /\ z.tab.current = s.tab.current
      /\ z.tab.remote = s.tab.remote /\ z.tab.screen = s.tab.screen
      /\ z.tab.dirty = s.tab.dirty \ {d} /\ z.tab.offer = s.tab.offer
      /\ z.tab.saving = None
  BY CleanIs
<1> HIDE DEF z, n
<1>2. \A e \in Docs \ {d} : DocOK(z, t, e)
  BY <1>1, Carried DEF Fit, Settled
<1>3. Mine(z, t, d)
  BY <1>1 DEF Fit, Settled, DocOK, Mine, Sole, SameWork
<1>4. /\ q \in Sessions /\ SamePage(z.tab, q.tab) /\ SameOpened(z.tab, q.tab)
      /\ OnlyAt(z, q, d) /\ q.tab.docs[d] = EmptyDocState(b)
      /\ q.slot[d] \in {z.slot[d], None}
  BY <1>1, DropSlotIs
<1>5. Mine(q, t, d) /\ Shown(q.tab, d) /\ Drafted(q, t, d)
  BY <1>1, <1>3, DropSlotLeaves
<1> HIDE DEF q
<1>6. \A e \in Docs \ {d} : DocOK(q, t, e)
  BY <1>2, <1>4, Alike DEF OnlyAt
<1>7. q.tab.docs[d] # None /\ ~Live(q.tab.docs[d])
  BY <1>4, EmptyIsState, NoneIsNoValue DEF Live
<1>8. /\ r \in Sessions /\ SamePage(q.tab, r.tab) /\ r.slot = q.slot
      /\ r.tab.docs = q.tab.docs /\ r.tab.timers = q.tab.timers
      /\ r.tab.opened = q.tab.opened /\ r.tab.ever = q.tab.ever
  BY <1>0, <1>4, OfferIs
<1> HIDE DEF r
<1>9. \A e \in Docs \ {d} : DocOK(r, t, e)
  BY <1>6, <1>8, Alike
<1>10. Mine(r, t, d) /\ Shown(r.tab, d) /\ Drafted(r, t, d) /\ ~Live(r.tab.docs[d])
  BY <1>5, <1>7, <1>8 DEF Mine, Shown, Drafted, Own, Held, Due, Sole, Sure, Done, SamePage
<1>11. /\ r.tab.ever /\ r.tab.opened = s.tab.opened
       /\ r.tab.phase = s.tab.phase /\ r.tab.alone = s.tab.alone
       /\ r.tab.active = s.tab.active /\ r.tab.remote = s.tab.remote
       /\ r.tab.screen = s.tab.screen
       /\ r.tab.saving = None /\ r.tab.dirty = s.tab.dirty \ {d}
  BY <1>1, <1>4, <1>8 DEF SamePage, SameOpened, SameWork
<1>12. \A e \in Docs : s.tab.docs[e] # None => r.tab.docs[e] # None
  BY <1>1, <1>4, <1>7, <1>8 DEF OnlyAt, SameWork
<1>13. Yields(s, r, t)
  BY <1>1, <1>4, <1>8 DEF Yields, OnlyAt
<1>14. Paged(r.tab)
  BY <1>11, <1>12, DocsType DEF Fit, Settled, Paged, NothingYet
<1>15. OnScreen(r.tab)
  BY <1>11, <1>12, DocsType DEF Fit, OnScreen, Loaded
<1> QED  BY <1>0, <1>8, <1>9, <1>10, <1>11, <1>12, <1>13, <1>14, <1>15

\* The answer of a send arrives: the document is clean, and the page stays, turns to
\* another document or closes it.
LEMMA ConfirmedKeeps ==
  ASSUME IInv, NEW t \in Tabs, Confirmed(t)
  PROVE  IInv'
<1> DEFINE s == Session(t)
           d == tab[t].saving.doc
           b == tab[t].saving.saved
           q == SubmitConfirmed(s, d, b)
           p == Props(q.tab)
           y == IF Assigned(d) THEN p ELSE [p EXCEPT !.remote[d] = None]
           r == [q EXCEPT !.tab = y]
           Next_(n) == IF n = tab[t].active THEN r
                       ELSE IF Assigned(d) /\ tab[t].active = None THEN Turn(r, n, edits + 1)
                       ELSE Show(r, n, edits + 1)
<1>1. TypeOK /\ Open(t) /\ Fit(s, t) /\ server \in [Docs -> Nat] /\ edits \in Nat
  BY DEF IInv, Confirmed, TypeOK
<1>2. s \in Sessions /\ s.tab = tab[t] /\ s.slot = slot
  BY <1>1, SessionIs
<1>3. PICK n \in {tab[t].active} \cup (IF Assigned(d) THEN scope.assigned ELSE {None}) :
        /\ edits' = edits + Uses(r.tab, n)
        /\ SetSession(t, Next_(n))
  BY DEF Confirmed
<1>4. UNCHANGED <<scope, server, room>>
  BY DEF Confirmed
<1>5. tab[t].saving # None /\ s.tab.saving \in Sending \cup {None}
  BY <1>2, DocsType DEF Confirmed
<1>6. /\ d \in Docs /\ b \in Nat /\ s.tab.ever
      /\ \A e \in Docs \ {d} : ~Done(s.tab, e)
  <2>1. tab[t].saving \in Sending
    BY <1>2, <1>5
  <2>2. d \in Docs /\ b \in Nat
    BY <2>1 DEF Sending
  <2> QED  BY <1>1, <1>2, <1>5, <2>2 DEF Fit, Settled, Paged, NothingYet, Done
<1>7. n \in Docs \cup {None}
  BY <1>1, <1>2, <1>3, ScopeType, DocsType
<1> HIDE DEF s, d, b
<1>8. /\ q \in Sessions /\ Yields(s, q, t) /\ q.tab.ever
      /\ q.tab.phase = s.tab.phase /\ q.tab.alone = s.tab.alone
      /\ q.tab.active = s.tab.active /\ q.tab.remote = s.tab.remote
      /\ q.tab.saving = None /\ d \notin q.tab.dirty
      /\ \A e \in Docs \ {d} : DocOK(q, t, e)
      /\ Mine(q, t, d) /\ Shown(q.tab, d) /\ Drafted(q, t, d) /\ ~Live(q.tab.docs[d])
      /\ Paged(q.tab) /\ OnScreen(q.tab)
  BY <1>1, <1>2, <1>6, SubmitConfirmedIs
<1> HIDE DEF q
<1>9. q.tab \in Tab
  BY <1>8, SessionFields
<1>10. /\ p \in Tab /\ SameWork(q.tab, p) /\ p.active = q.tab.active
       /\ p.screen = q.tab.screen /\ p.restored = q.tab.restored /\ p.dirty = q.tab.dirty
       /\ p.offer = q.tab.offer /\ p.saving = q.tab.saving
       /\ \A e \in Docs : p.remote[e] = IF Assigned(e) THEN server[e] ELSE q.tab.remote[e]
  BY <1>1, <1>9, PropsIs
<1> HIDE DEF p
<1>11. /\ y \in Tab /\ SameWork(q.tab, y) /\ y.active = q.tab.active
       /\ y.screen = q.tab.screen /\ y.dirty = q.tab.dirty
       /\ y.offer = q.tab.offer /\ y.saving = q.tab.saving
       /\ \A e \in Docs : Assigned(e) => y.remote[e] = server[e]
       /\ ~Assigned(d) => y.remote[d] = None
       /\ \A e \in Docs \ {d} : ~Assigned(e) => y.remote[e] = q.tab.remote[e]
  <2>1. CASE Assigned(d)
    BY <1>10, <2>1
  <2>2. CASE ~Assigned(d)
    <3> DEFINE v == None
               m == [p EXCEPT !.remote[d] = v]
    <3>1. y = m /\ v \in Nat \cup {None}
      BY <2>2
    <3> HIDE DEF v, y
    <3>2. /\ m \in Tab /\ SameWork(p, m) /\ m.active = p.active
          /\ m.screen = p.screen /\ m.restored = p.restored /\ m.dirty = p.dirty
          /\ m.offer = p.offer /\ m.saving = p.saving
          /\ m.remote[d] = v /\ \A e \in Docs \ {d} : m.remote[e] = p.remote[e]
      BY <1>6, <1>10, <3>1, DeliveredIs
    <3> HIDE DEF m
    <3> QED  BY <1>10, <2>2, <3>1, <3>2 DEF SameWork, v
  <2> QED  BY <2>1, <2>2
<1>12. r = [q EXCEPT !.tab = y]
  OBVIOUS
<1> HIDE DEF y, r
<1>13. r \in Sessions /\ r.tab = y /\ r.slot = q.slot
  BY <1>8, <1>11, <1>12, SetTabIs
<1>14. ASSUME NEW e \in Docs \ {d} PROVE DocOK(r, t, e)
  <2>1. r.tab.remote[e] \in {q.tab.remote[e], server[e], None}
    BY <1>11, <1>13
  <2> QED  BY <1>8, <1>11, <1>13, <2>1, Carried DEF Done
<1>15. DocOK(r, t, d)
  <2>1. r.tab.docs[d] = q.tab.docs[d] /\ r.slot[d] = q.slot[d] /\ r.tab.alone = q.tab.alone
    BY <1>11, <1>13 DEF SameWork
  <2>2. Mine(r, t, d)
    BY <1>8, <2>1 DEF Mine, Sole
  <2>3. Fresh(r.tab, d)
    BY <1>6, <1>11, <1>13 DEF Fresh
  <2>4. Shown(r.tab, d) /\ Drafted(r, t, d)
    BY <1>8, <1>11, <1>13, <2>1 DEF Shown, Drafted, Own, Held
  <2> QED  BY <2>2, <2>3, <2>4 DEF DocOK
<1>16. Paged(r.tab)
  <2>1. \A e \in Docs : Assigned(e) => y.remote[e] # None
    BY <1>1, <1>11, NoneIsNoValue
  <2>2. /\ r.tab.screen = q.tab.screen /\ r.tab.docs = q.tab.docs /\ r.tab.opened = q.tab.opened
        /\ r.tab.ever /\ \A e \in Docs : Assigned(e) => r.tab.remote[e] # None
    BY <1>8, <1>11, <1>13, <2>1 DEF SameWork
  <2>3. Paged(q.tab)
    BY <1>8
  <2> QED  BY <2>2, <2>3 DEF Paged, NothingYet
<1>17. OnScreen(r.tab)
  <2>1. \A e \in Docs : y.remote[e] # None => q.tab.remote[e] # None
    BY <1>6, <1>8, <1>11 DEF Paged
  <2>2. q.tab.active \in Docs \cup {None}
    BY <1>8, DocsType
  <2> QED  BY <1>8, <1>11, <1>13, <2>1, <2>2 DEF OnScreen, Loaded, SameWork
<1>18. Settled(r, t) /\ Stepped(s, r, t)
  <2>1. Settled(r, t)
    BY <1>14, <1>15, <1>16 DEF Settled
  <2>2. r.tab.phase = s.tab.phase /\ r.tab.alone = s.tab.alone
    BY <1>8, <1>11, <1>13 DEF SameWork
  <2> QED  BY <1>8, <1>13, <1>17, <2>1, <2>2 DEF Stepped, Fit, Yields
<1>19. ASSUME NEW o, Stepped(r, o, t) PROVE Stepped(s, o, t)
  <2>1. Yields(s, o, t)
    BY <1>18, <1>19, YieldsTwice DEF Stepped
  <2> QED  BY <1>18, <1>19, <2>1 DEF Stepped
<1>20. Stepped(s, Next_(n), t)
  <2>1. CASE n = tab[t].active
    BY <1>18, <2>1
  <2>2. CASE n # tab[t].active /\ Assigned(d) /\ tab[t].active = None
    <3> DEFINE o == Turn(r, n, edits + 1)
    <3>1. Turned(r, o, t)
      <4> DEFINE k == edits + 1
      <4>1. k \in Nat /\ r \in Sessions /\ Settled(r, t) /\ o = Turn(r, n, k)
        BY <1>1, <1>13, <1>18
      <4> HIDE DEF k, o
      <4> QED  BY <1>7, <4>1, TurnIs
    <3>2. Next_(n) = o
      BY <2>2
    <3> HIDE DEF o
    <3>3. r.tab.active = None
      BY <1>2, <1>8, <1>11, <1>13, <2>2
    <3>4. Stepped(r, o, t)
      BY <3>1, <3>3 DEF Turned, Stepped, Fit, OnScreen
    <3> HIDE DEF Next_
    <3> QED  BY <1>19, <3>2, <3>4
  <2>3. CASE n # tab[t].active /\ ~(Assigned(d) /\ tab[t].active = None)
    <3> DEFINE o == Show(r, n, edits + 1)
    <3>1. Stepped(r, o, t)
      BY <1>1, <1>7, <1>13, <1>18, ShowIs
    <3>2. Next_(n) = o
      BY <2>3
    <3> HIDE DEF o, Next_
    <3> QED  BY <1>19, <3>1, <3>2
  <2> QED  BY <2>1, <2>2, <2>3
<1>21. edits' \in Nat
  BY <1>1, <1>3, UsesType
<1> HIDE DEF Next_
<1> QED  BY <1>1, <1>3, <1>4, <1>20, <1>21, SessionStep DEF s

\* A send that has reached the server excuses its document from what the server has.
LEMMA ServedNext ==
  ASSUME NEW t \in Tabs, NEW s, NEW y, NEW d \in Docs, Fit(s, t), s.tab.ever,
         SameWork(s.tab, y), y.active = s.tab.active, y.remote = s.tab.remote,
         y.screen = s.tab.screen, y.dirty = s.tab.dirty, y.offer = s.tab.offer,
         y.saving # None, y.saving.doc = d, y.saving.done,
         s.slot = slot', y = tab'[t], scope' = scope,
         \A e \in Docs : ~Done(s.tab, e) /\ (e # d => server'[e] = server[e])
  PROVE  Fit(Session(t), t)'
<1>1. Session(t)'.slot = s.slot /\ Session(t)'.tab = y
  BY DEF Session
<1>2. Paged(y)' /\ OnScreen(y)'
  BY DEF Fit, Settled, Paged, OnScreen, NothingYet, Assigned, Loaded, SameWork
<1>3. ASSUME NEW e \in Docs PROVE DocOK([slot |-> s.slot, tab |-> y], t, e)'
  <2> DEFINE r == [slot |-> s.slot, tab |-> y]
  <2>1. DocOK(s, t, e) /\ r.slot = s.slot /\ r.tab = y
    BY DEF Fit, Settled
  <2> HIDE DEF r
  <2>2. Mine(r, t, e)'
    BY <2>1 DEF DocOK, Mine, Sole, SameWork
  <2>3. Fresh(r.tab, e)' /\ Shown(r.tab, e)'
    BY <2>1 DEF DocOK, Fresh, Shown, Sole, Sure, Done, Live, Assigned, SameWork
  <2>4. Drafted(r, t, e)'
    BY <2>1 DEF DocOK, Drafted, Own, Held, Sole, Sure, Done, Live, Due, SameWork
  <2> QED  BY <2>2, <2>3, <2>4 DEF DocOK, r
<1> DEFINE r == [slot |-> s.slot, tab |-> y]
<1>4. Fit(r, t)' /\ r.slot = s.slot /\ r.tab = y
  BY <1>2, <1>3 DEF Fit, Settled
<1> HIDE DEF r
<1> QED  BY <1>1, <1>4 DEF Fit, Settled, DocOK, Mine, Fresh, Shown, Drafted, Own, Held,
           Paged, OnScreen, NothingYet, Sole, Sure, Done, Live, Due, Assigned, Loaded

\* The answer is on its way: the server has the content, and the page does not know yet.
LEMMA CommitKeeps ==
  ASSUME IInv, NEW t \in Tabs, Commit(t)
  PROVE  IInv'
<1> DEFINE d == tab[t].saving.doc
           v == [tab[t].saving EXCEPT !.done = TRUE]
           y == [tab[t] EXCEPT !.saving = v]
<1>1. TypeOK /\ Open(t) /\ Fit(Session(t), t) /\ tab[t] \in Tab
  BY DEF IInv, Commit, TypeOK
<1>2. Session(t) \in Sessions /\ Session(t).tab = tab[t] /\ Session(t).slot = slot
  BY <1>1, SessionIs
<1>3. tab[t].saving \in Sending /\ ~tab[t].saving.done /\ d \in Docs
  BY <1>1 DEF Commit, Tab, Sending
<1>4. v \in Sending /\ v.doc = d /\ v.done
  BY <1>3 DEF Sending
<1>5. /\ server' = [server EXCEPT ![d] = tab[t].saving.saved]
      /\ tab' = [tab EXCEPT ![t] = y] /\ UNCHANGED <<scope, slot, room, edits>>
  <2>1. tab' = [tab EXCEPT ![t].saving.done = TRUE]
    BY DEF Commit
  <2>2. [tab EXCEPT ![t].saving.done = TRUE] = [tab EXCEPT ![t] = y]
    BY <1>1, <1>3 DEF TypeOK
  <2> QED  BY <2>1, <2>2 DEF Commit
<1>6. /\ y \in Tab /\ SameWork(tab[t], y) /\ y.active = tab[t].active /\ y.remote = tab[t].remote
      /\ y.screen = tab[t].screen /\ y.restored = tab[t].restored /\ y.dirty = tab[t].dirty
      /\ y.offer = tab[t].offer /\ y.saving = v
  <2> HIDE DEF v
  <2> QED  BY <1>1, <1>4, SavingIs
<1> HIDE DEF y
<1>7. tab'[t] = y /\ \A u \in Tabs \ {t} : tab'[u] = tab[u]
  BY <1>1, <1>5 DEF TypeOK
<1>8. TypeOK'
  <2>1. tab[t].saving.saved \in Nat
    BY <1>3 DEF Sending
  <2>2. server' \in [Docs -> Nat]
    BY <1>1, <1>5, <2>1 DEF TypeOK
  <2>3. tab' \in [Tabs -> Tab]
    BY <1>1, <1>5, <1>6 DEF TypeOK
  <2> QED  BY <1>1, <1>5, <2>2, <2>3 DEF TypeOK
<1>9. \A u \in Tabs : tab'[u].phase = tab[u].phase /\ tab'[u].alone = tab[u].alone
  BY <1>6, <1>7 DEF SameWork
<1>10. \A u \in Tabs : Open(u)' <=> Open(u)
  BY <1>9 DEF Open
<1>11. \A e \in Docs : Readable(slot'[e]) => tab'[slot'[e].by].phase # "new"
  <2> SUFFICES ASSUME NEW e \in Docs, Readable(slot[e]) PROVE tab'[slot[e].by].phase # "new"
    BY <1>5
  <2>1. slot[e].by \in Tabs
    BY <1>1, ReadableIs DEF TypeOK, Slots, Envelope
  <2> QED  BY <1>9, <2>1 DEF IInv
<1>12. Fit(Session(t), t)'
  <2> DEFINE s == Session(t)
  <2>1. s.slot = slot' /\ s.tab = tab[t] /\ y = tab'[t] /\ Fit(s, t)
    BY <1>1, <1>2, <1>5, <1>7
  <2> HIDE DEF s
  <2>2. s.tab.ever
    BY <1>3, <2>1, NoneIsNoValue DEF Fit, Settled, Paged, NothingYet
  <2>3. \A e \in Docs : ~Done(s.tab, e) /\ (e # d => server'[e] = server[e])
    BY <1>1, <1>3, <1>5, <2>1 DEF Done, TypeOK
  <2>4. y.saving # None /\ y.saving.doc = d /\ y.saving.done
    BY <1>4, <1>6, NoneIsNoValue
  <2> HIDE DEF d, v
  <2> QED  BY <1>3, <1>5, <1>6, <2>1, <2>2, <2>3, <2>4, ServedNext
<1>13. ASSUME NEW u \in Tabs PROVE Open(u)' => Fit(Session(u), u)'
  <2>1. CASE u = t
    BY <1>12, <2>1
  <2>2. CASE u # t
    <3> HAVE Open(u)'
    <3>1. Open(u) /\ ~tab[u].alone /\ Fit(Session(u), u)
      BY <1>1, <1>10, <2>2 DEF IInv
    <3>2. tab[u] \in Tab
      BY <1>1 DEF TypeOK
    <3>3. [tab[u] EXCEPT !.alone = FALSE] = tab[u]
      BY <3>1, <3>2 DEF Tab
    <3>4. Yields(Session(t), Session(t), t) /\ slot' = Session(t).slot
      BY <1>2, <1>5 DEF Yields
    <3> QED  BY <1>5, <1>7, <2>2, <3>1, <3>2, <3>3, <3>4, OthersFit DEF SameWork, SamePage
  <2> QED  BY <2>1, <2>2
<1>14. ASSUME NEW u \in Tabs
       PROVE  /\ ~Open(u)' => tab'[u].saving = None
              /\ Open(u)' /\ tab'[u].alone => \A w \in Tabs \ {u} : ~Open(w)'
  BY <1>1, <1>7, <1>9, <1>10 DEF IInv
<1> QED  BY <1>5, <1>8, <1>11, <1>13, <1>14 DEF IInv, Roomy

\* What a tab that is not open holds.
LEMMA UnloadedIs ==
  /\ Unloaded \in Tab /\ Unloaded.phase = "new" /\ Unloaded.saving = None
  /\ LET g == [Unloaded EXCEPT !.phase = "gone"]
     IN  g \in Tab /\ g.phase = "gone" /\ g.saving = None
<1>1. Unloaded \in Tab /\ Unloaded.phase = "new" /\ Unloaded.saving = None
  BY DEF Unloaded, Tab
<1> QED  BY <1>1 DEF Tab

\* The storage fills up, or is emptied, where the scope says it may.
LEMMA FillKeeps == ASSUME IInv, Fill PROVE IInv'
<1>1. \A u \in Tabs : Open(u)' <=> Open(u)
  BY DEF Fill, Open
<1>2. ASSUME NEW u \in Tabs PROVE Open(u) => Fit(Session(u), u)'
  <2> HAVE Open(u)
  <2>1. Fit(Session(u), u) /\ Session(u).slot = slot /\ Session(u).tab = tab[u]
    BY SessionIs DEF IInv
  <2> QED  BY <2>1, FitNext DEF Fill
<1>3. TypeOK' /\ Roomy'
  BY DEF IInv, TypeOK, Roomy, Fill
<1> QED  BY <1>1, <1>2, <1>3 DEF IInv, Fill

\* Thirty days pass: the envelope is the same but for its age.
LEMMA ExpireKeeps ==
  ASSUME IInv, NEW d \in Docs, Expire(d)
  PROVE  IInv'
<1>1. TypeOK
  BY DEF IInv
<1>2. slot \in Slots /\ slot[d] \in Envelope
  BY <1>1, ReadableIs DEF TypeOK, Slots, Expire
<1> DEFINE e == [slot[d] EXCEPT !.expired = TRUE]
<1>3. /\ e \in Envelope /\ e.token = slot[d].token /\ e.by = slot[d].by /\ e.draft = slot[d].draft
  BY <1>2 DEF Envelope
<1>4. slot' = [slot EXCEPT ![d] = e]
  <2>1. slot' = [slot EXCEPT ![d].expired = TRUE]
    BY DEF Expire
  <2> QED  BY <1>2, <2>1 DEF Slots
<1>5. UNCHANGED <<scope, server, room, tab, edits>>
  BY DEF Expire
<1> HIDE DEF e
<1>6. /\ slot'[d] = e /\ \A f \in Docs \ {d} : slot'[f] = slot[f]
      /\ Readable(e) /\ Readable(slot[d]) /\ slot' \in Slots
  BY <1>2, <1>3, <1>4, NoneIsNoValue DEF Slots, Readable
<1>7. \A f \in Docs : /\ Readable(slot'[f]) <=> Readable(slot[f])
                      /\ Readable(slot[f]) => /\ slot'[f].token = slot[f].token
                                              /\ slot'[f].by = slot[f].by
                                              /\ slot'[f].draft = slot[f].draft
  BY <1>3, <1>6
<1>8. TypeOK' /\ Roomy'
  BY <1>1, <1>5, <1>6 DEF IInv, TypeOK, Slots, Roomy
<1>9. ASSUME NEW u \in Tabs, Open(u) PROVE Fit(Session(u), u)'
  <2> DEFINE s == Session(u)
             r == [slot |-> slot', tab |-> tab[u]]
  <2>1. Fit(s, u) /\ s.slot = slot /\ s.tab = tab[u] /\ r.slot = slot' /\ r.tab = tab[u]
    BY <1>1, <1>9, SessionIs DEF IInv
  <2> HIDE DEF s, r
  <2>2. ASSUME NEW f \in Docs PROVE DocOK(r, u, f)
    <3>1. DocOK(s, u, f)
      BY <2>1 DEF Fit, Settled
    <3>2. Mine(r, u, f)
      BY <1>7, <2>1, <3>1 DEF DocOK, Mine
    <3>3. Fresh(r.tab, f) /\ Shown(r.tab, f)
      BY <2>1, <3>1 DEF DocOK
    <3>4. Drafted(r, u, f)
      BY <1>7, <2>1, <3>1 DEF DocOK, Drafted, Own, Held
    <3> QED  BY <3>2, <3>3, <3>4 DEF DocOK
  <2>3. Fit(r, u)
    BY <2>1, <2>2 DEF Fit, Settled
  <2> QED  BY <1>5, <2>1, <2>3, FitNext
<1>10. \A u \in Tabs : Open(u)' <=> Open(u)
  BY <1>5 DEF Open
<1>11. \A f \in Docs : Readable(slot'[f]) => tab'[slot'[f].by].phase # "new"
  BY <1>5, <1>7 DEF IInv
<1> QED  BY <1>5, <1>8, <1>9, <1>10, <1>11 DEF IInv

\* The tab writes what is due and is gone.
LEMMA LeaveKeeps ==
  ASSUME IInv, NEW t \in Tabs, Leave(t)
  PROVE  IInv'
<1> DEFINE s == Session(t)
           r == FlushAll(s, t)
           g == [Unloaded EXCEPT !.phase = "gone"]
<1>1. TypeOK /\ Open(t) /\ Fit(s, t) /\ Roomy
  BY DEF IInv, Leave
<1>2. s \in Sessions /\ s.slot = slot
  BY <1>1, SessionIs
<1>3. slot' = r.slot /\ tab' = [tab EXCEPT ![t] = g] /\ UNCHANGED <<scope, server, room, edits>>
  BY DEF Leave
<1>4. g \in Tab /\ g.phase = "gone" /\ g.saving = None
  BY UnloadedIs
<1> HIDE DEF s, g
<1>5. Flushed(s, r, t)
  BY <1>1, <1>2, FlushAllIs DEF Fit, Settled
<1> HIDE DEF r
<1>6. r.slot \in Slots /\ Yields(s, r, t)
  BY <1>5, SessionFields DEF Flushed
<1>7. tab'[t] = g /\ \A u \in Tabs \ {t} : tab'[u] = tab[u]
  BY <1>1, <1>3 DEF TypeOK
<1>8. TypeOK' /\ Roomy'
  <2>1. tab' \in [Tabs -> Tab]
    BY <1>1, <1>3, <1>4 DEF TypeOK
  <2> QED  BY <1>1, <1>3, <1>6, <2>1 DEF TypeOK, Slots, Roomy
<1>9. ASSUME NEW u \in Tabs, Open(u)' PROVE u # t /\ Open(u) /\ Fit(Session(u), u)'
  <2>1. u # t /\ Open(u)
    BY <1>4, <1>7, <1>9 DEF Open
  <2>2. Fit(Session(u), u) /\ ~tab[u].alone /\ tab[u] \in Tab
    BY <1>1, <2>1 DEF IInv, TypeOK
  <2>3. [tab[u] EXCEPT !.alone = FALSE] = tab[u]
    BY <2>2 DEF Tab
  <2> QED  BY <1>3, <1>6, <1>7, <2>1, <2>2, <2>3, OthersFit DEF SameWork, SamePage, s
<1>10. ASSUME NEW d \in Docs, Readable(slot'[d]) PROVE tab'[slot'[d].by].phase # "new"
  <2>1. slot'[d].by \in Tabs
    BY <1>3, <1>6, <1>10, ReadableIs DEF Envelope
  <2>2. slot'[d] = slot[d] \/ slot'[d].by = t
    BY <1>2, <1>3, <1>6, <1>10 DEF Yields, Readable
  <2>3. slot'[d].by # t => Readable(slot[d]) /\ tab[slot'[d].by].phase # "new"
    BY <1>10, <2>2 DEF IInv
  <2> QED  BY <1>4, <1>7, <2>1, <2>3
<1>11. ASSUME NEW u \in Tabs
       PROVE  /\ ~Open(u)' => tab'[u].saving = None
              /\ Open(u)' /\ tab'[u].alone => \A w \in Tabs \ {u} : ~Open(w)'
  <2>1. ~Open(u)' => tab'[u].saving = None
    BY <1>4, <1>7 DEF IInv, Open
  <2>2. Open(u)' /\ tab'[u].alone => \A w \in Tabs \ {u} : ~Open(w)'
    BY <1>7, <1>9 DEF IInv
  <2> QED  BY <2>1, <2>2
<1> QED  BY <1>8, <1>9, <1>10, <1>11 DEF IInv

\* The browser dies: no tab is open any more, and envelopes stay.
LEMMA CrashKeeps == ASSUME IInv, Crash PROVE IInv'
<1> DEFINE g == [Unloaded EXCEPT !.phase = "gone"]
<1>1. g \in Tab /\ g.phase = "gone" /\ g.saving = None
  BY UnloadedIs
<1>2. tab' = [t \in Tabs |-> IF Open(t) THEN g ELSE tab[t]]
  BY DEF Crash
<1>3. UNCHANGED <<scope, server, slot, room, edits>>
  BY DEF Crash
<1> HIDE DEF g
<1>4. TypeOK
  BY DEF IInv
<1>5. TypeOK' /\ Roomy'
  <2>1. tab' \in [Tabs -> Tab]
    BY <1>1, <1>2, <1>4 DEF TypeOK
  <2> QED  BY <1>3, <1>4, <2>1 DEF IInv, TypeOK, Roomy
<1>6. \A u \in Tabs : ~Open(u)' /\ tab'[u].saving = None
  BY <1>1, <1>2 DEF IInv, Open
<1>7. ASSUME NEW d \in Docs, Readable(slot'[d]) PROVE tab'[slot'[d].by].phase # "new"
  <2>1. slot[d].by \in Tabs /\ tab[slot[d].by].phase # "new"
    BY <1>3, <1>4, <1>7, ReadableIs DEF IInv, TypeOK, Slots, Envelope
  <2> QED  BY <1>1, <1>2, <1>3, <2>1
<1> QED  BY <1>5, <1>6, <1>7 DEF IInv

\* The page a tab loads holds nothing of any document.
Blank(x, alone, props) ==
  /\ x \in Tab /\ x.phase = "open" /\ x.alone = alone
  /\ \A e \in Docs : x.docs[e] = None
  /\ x.remote = props /\ x.screen = props /\ x.dirty = {}
  /\ x.opened = None /\ x.active = None /\ ~x.ever
  /\ x.offer = None /\ x.saving = None

\* A page that has just been loaded.
LEMMA BlankIs ==
  ASSUME NEW alone \in BOOLEAN, NEW props \in [Docs -> Nat \cup {None}]
  PROVE  Blank([Unloaded EXCEPT !.phase = "open", !.alone = alone,
                                !.remote = props, !.screen = props], alone, props)
<1>2. Unloaded \in Tab
  BY UnloadedIs
<1>3. /\ \A e \in Docs : Unloaded.docs[e] = None
      /\ Unloaded.dirty = {} /\ Unloaded.opened = None /\ Unloaded.active = None
      /\ ~Unloaded.ever /\ Unloaded.offer = None /\ Unloaded.saving = None
  BY DEF Unloaded
<1> QED  BY <1>2, <1>3 DEF Tab, Blank

\* A tab loads the page, alone or beside another, and opens what it shows.
LEMMA LoadKeeps ==
  ASSUME IInv, NEW t \in Tabs, NEW d \in scope.places, Load(t, d)
  PROVE  IInv'
<1> DEFINE props == [e \in Docs |-> IF Assigned(e) THEN server[e] ELSE None]
           alone == \A u \in Tabs : ~Open(u)
           x == [Unloaded EXCEPT !.phase = "open", !.alone = alone,
                                 !.remote = props, !.screen = props]
           a == [slot |-> slot, tab |-> x]
           s == Show(a, d, 0)
<1>1. /\ tab[t].phase = "new" /\ slot' = s.slot
      /\ tab' = [u \in Tabs |-> IF u = t THEN s.tab
                                ELSE IF Open(u) THEN [tab[u] EXCEPT !.alone = FALSE]
                                ELSE tab[u]]
      /\ UNCHANGED <<scope, server, room, edits>>
  BY DEF Load
<1>2. /\ TypeOK /\ server \in [Docs -> Nat] /\ slot \in Slots /\ tab \in [Tabs -> Tab]
      /\ d \in Docs \cup {None}
  BY ScopeType DEF IInv, TypeOK, Slots
<1>3. alone \in BOOLEAN /\ (alone => \A u \in Tabs : ~Open(u))
  OBVIOUS
<1> HIDE DEF alone
<1>4. /\ x \in Tab /\ x.phase = "open" /\ x.alone = alone
      /\ \A e \in Docs : x.docs[e] = None
      /\ x.remote = props /\ x.screen = props /\ x.dirty = {}
      /\ x.opened = None /\ x.active = None /\ ~x.ever
      /\ x.offer = None /\ x.saving = None
  <2>1. props \in [Docs -> Nat \cup {None}]
    BY <1>2
  <2> HIDE DEF props
  <2>2. Blank(x, alone, props)
    BY <1>3, <2>1, BlankIs
  <2> HIDE DEF x
  <2> QED  BY <2>2 DEF Blank
<1>5. \A e \in Docs : props[e] = IF Assigned(e) THEN server[e] ELSE None
  OBVIOUS
<1> HIDE DEF x, props
<1>6. a \in Sessions /\ a.tab = x /\ a.slot = slot
  BY <1>2, <1>4, PairIs
<1> HIDE DEF a, s
<1>7. ASSUME NEW e \in Docs PROVE DocOK(a, t, e)
  <2>1. ~(Readable(slot[e]) /\ slot[e].by = t)
    BY <1>1 DEF IInv
  <2>2. Mine(a, t, e)
    BY <1>4, <1>6, <2>1 DEF Mine
  <2>3. Fresh(a.tab, e) /\ Shown(a.tab, e)
    BY <1>4, <1>5, <1>6 DEF Fresh, Shown
  <2>4. Drafted(a, t, e)
    BY <1>4, <1>6 DEF Drafted, Own, Held, Live
  <2> QED  BY <2>2, <2>3, <2>4 DEF DocOK
<1>8. Paged(a.tab)
  <2>1. \A e \in Docs : Assigned(e) => props[e] # None
    BY <1>2, <1>5, NoneIsNoValue
  <2> QED  BY <1>4, <1>6, <2>1 DEF Paged, NothingYet
<1>9. Stepped(a, s, t)
  <2> DEFINE k == 0
  <2>1. k \in Nat /\ s = Show(a, d, k) /\ Settled(a, t)
    BY <1>7, <1>8 DEF Settled, s
  <2> HIDE DEF k
  <2> QED  BY <1>2, <1>6, <2>1, ShowIs
<1>10. /\ s \in Sessions /\ Fit(s, t) /\ s.slot \in Slots /\ s.tab \in Tab
       /\ s.tab.phase = "open" /\ s.tab.alone = alone
  BY <1>4, <1>6, <1>9, SessionFields DEF Stepped
<1>11. /\ tab'[t] = s.tab
       /\ \A u \in Tabs \ {t} :
            tab'[u] = IF Open(u) THEN [tab[u] EXCEPT !.alone = FALSE] ELSE tab[u]
  BY <1>1
<1>12. ASSUME NEW u \in Tabs \ {t}
       PROVE  /\ tab'[u] \in Tab /\ tab'[u].phase = tab[u].phase
              /\ tab'[u].saving = tab[u].saving /\ (Open(u) => ~tab'[u].alone)
  <2>1. tab[u] \in Tab
    BY <1>2
  <2> QED  BY <1>11, <2>1 DEF Tab
<1>13. Open(t)' /\ ~Open(t) /\ \A u \in Tabs \ {t} : Open(u)' <=> Open(u)
  BY <1>1, <1>10, <1>11, <1>12 DEF Open
<1>14. TypeOK' /\ Roomy'
  <2>1. tab' \in [Tabs -> Tab]
    BY <1>1, <1>10, <1>11, <1>12
  <2> QED  BY <1>1, <1>2, <1>10, <2>1 DEF IInv, TypeOK, Slots, Roomy
<1>15. ASSUME NEW e \in Docs, Readable(slot'[e]) PROVE tab'[slot'[e].by].phase # "new"
  <2>1. slot'[e].by \in Tabs
    BY <1>1, <1>10, <1>15, ReadableIs DEF Envelope
  <2>2. slot'[e] = slot[e] \/ slot'[e].by = t
    BY <1>1, <1>6, <1>9, <1>15 DEF Stepped, Yields, Readable
  <2>3. slot'[e].by # t => tab[slot'[e].by].phase # "new"
    BY <1>15, <2>2 DEF IInv
  <2> QED  BY <1>10, <1>11, <1>12, <2>1, <2>3
<1>16. ASSUME NEW u \in Tabs, Open(u)' PROVE Fit(Session(u), u)'
  <2>1. CASE u = t
    BY <1>1, <1>10, <1>11, <2>1, FitNext
  <2>2. CASE u # t
    <3>1. /\ Open(u) /\ Fit(Session(u), u) /\ tab[u] \in Tab
          /\ tab'[u] = [tab[u] EXCEPT !.alone = FALSE]
      BY <1>2, <1>11, <1>13, <1>16, <2>2 DEF IInv
    <3>2. Yields(Session(t), s, t)
      BY <1>2, <1>6, <1>9, SessionIs DEF Stepped, Yields
    <3>3. [tab[u] EXCEPT !.alone = FALSE].offer = tab[u].offer
      BY <3>1 DEF Tab
    <3> QED  BY <1>1, <2>2, <3>1, <3>2, <3>3, OthersFit DEF SameWork, SamePage
  <2> QED  BY <2>1, <2>2
<1>17. ASSUME NEW u \in Tabs
       PROVE  /\ ~Open(u)' => tab'[u].saving = None
              /\ Open(u)' /\ tab'[u].alone => \A w \in Tabs \ {u} : ~Open(w)'
  BY <1>3, <1>10, <1>11, <1>12, <1>13 DEF IInv
<1> QED  BY <1>14, <1>15, <1>16, <1>17 DEF IInv

-----------------------------------------------------------------------------
\* The theorems.

\* The program starts fit: no tab is open, and nothing is stored that can be read.
THEOREM StartsWell == Init => IInv
<1> SUFFICES ASSUME Init PROVE IInv
  OBVIOUS
<1>1. tab = [t \in Tabs |-> Unloaded] /\ \A t \in Tabs : tab[t] = Unloaded
  BY DEF Init
<1>2. TypeOK
  BY <1>1, UnloadedIs DEF Init, TypeOK, Rooms
<1>3. \A t \in Tabs : ~Open(t) /\ tab[t].saving = None
  BY <1>1, UnloadedIs DEF Open
<1>4. \A d \in Docs : ~Readable(slot[d])
  BY DEF Init, Readable
<1> QED  BY <1>2, <1>3, <1>4 DEF IInv, Roomy, Init

\* Every step of a tab, of the browser or of time keeps the invariant.
LEMMA StepsKeep == IInv /\ [Next]_vars => IInv'
<1> SUFFICES ASSUME IInv, [Next]_vars PROVE IInv'
  OBVIOUS
<1>1. ASSUME NEW t \in Tabs, TabStep(t) PROVE IInv'
  <2>1. CASE \E d \in scope.places : Load(t, d) \/ Select(t, d)
    BY <2>1, LoadKeeps, SelectKeeps
  <2>2. CASE Fetched(t) \/ Refresh(t)
    BY <2>2, FetchedKeeps, RefreshKeeps
  <2>3. CASE \E c \in scope.values : Type(t, c)
    BY <2>3, TypeKeeps
  <2>4. CASE \E d \in Docs : TimerFires(t, d)
    BY <2>4, TimerFiresKeeps
  <2>5. CASE Restore(t) \/ Discard(t)
    BY <2>5, RestoreKeeps, DiscardKeeps
  <2>6. CASE Submit(t) \/ Commit(t) \/ Confirmed(t) \/ Refused(t)
    BY <2>6, SubmitKeeps, CommitKeeps, ConfirmedKeeps, RefusedKeeps
  <2>7. CASE Hide(t) \/ Leave(t)
    BY <2>7, HideKeeps, LeaveKeeps
  <2> QED  BY <1>1, <2>1, <2>2, <2>3, <2>4, <2>5, <2>6, <2>7 DEF TabStep
<1>2. CASE Crash \/ Fill
  BY <1>2, CrashKeeps, FillKeeps
<1>3. CASE \E d \in Docs : Expire(d)
  BY <1>3, ExpireKeeps
<1>4. CASE UNCHANGED vars
  <2>1. ASSUME NEW u \in Tabs, Open(u) PROVE Fit(Session(u), u)'
    <3>1. Fit(Session(u), u) /\ Session(u).slot = slot /\ Session(u).tab = tab[u]
      BY <2>1, SessionIs DEF IInv
    <3> QED  BY <1>4, <3>1, FitNext DEF vars
  <2>2. \A u \in Tabs : Open(u)' <=> Open(u)
    BY <1>4 DEF vars, Open
  <2>3. TypeOK' /\ Roomy'
    BY <1>4 DEF IInv, TypeOK, Roomy, vars
  <2> QED  BY <1>4, <2>1, <2>2, <2>3 DEF IInv, vars
<1> QED  BY <1>1, <1>2, <1>3, <1>4 DEF Next

\* The inductive invariant: always, every open tab is Fit for what localStorage and the
\* server hold (createCodingDraftSession with the coding page around it).
THEOREM SessionsAreFit == Spec => []IInv
<1>1. Init => IInv
  BY StartsWell
<1>2. IInv /\ [Next]_vars => IInv'
  BY StepsKeep
<1> QED  BY <1>1, <1>2, PTL DEF Spec

\* Every variable has its type: sessions, envelopes, offers and sends included.
THEOREM TypeCorrect == Spec => []TypeOK
<1>1. IInv => TypeOK
  BY DEF IInv
<1> QED  BY <1>1, SessionsAreFit, PTL

\* The envelopes of an open tab that nobody replaced are those whose token it knows, so
\* that persistNow and dropSlot never take its own write for that of another tab.
THEOREM KeepsItsOwn == Spec => []NoOrphans
<1>1. IInv => NoOrphans
  <2> SUFFICES ASSUME IInv, NEW t \in Tabs, NEW d \in Docs,
                      Open(t), Readable(slot[d]), slot[d].by = t
               PROVE  tab[t].docs[d] # None /\ tab[t].docs[d].persisted = slot[d].token
    BY DEF NoOrphans
  <2>1. Mine(Session(t), t, d) /\ Session(t).slot = slot /\ Session(t).tab = tab[t]
    BY SessionIs DEF IInv, Fit, Settled, DocOK
  <2> QED  BY <2>1 DEF Mine
<1> QED  BY <1>1, SessionsAreFit, PTL

\* An edit that is neither sent, nor due, nor refused is in localStorage as it was made,
\* while the tab is alone, the storage has room and no answer is lost (useCodingDrafts).
THEOREM KeepsUnsent == Spec => []UnsentIsKept
<1>1. IInv => UnsentIsKept
  <2> SUFFICES ASSUME IInv, NEW t \in Tabs, NEW d \in Docs,
                      Open(t), tab[t].alone, ~scope.full, ~scope.lossy,
                      tab[t].docs[d] # None, ~Sends(t, d),
                      tab[t].docs[d].draft \notin {None, server[d]},
                      tab[t].timers[d] = None, ~tab[t].docs[d].blocked
               PROVE  Readable(slot[d]) /\ slot[d].draft = tab[t].docs[d].draft
    BY DEF UnsentIsKept, DraftsAreStored
  <2>1. Drafted(Session(t), t, d) /\ Session(t).slot = slot /\ Session(t).tab = tab[t]
    BY SessionIs DEF IInv, Fit, Settled, DocOK
  <2>2. ~Done(tab[t], d) /\ ~Due(tab[t], d) /\ Live(tab[t].docs[d]) /\ Sure(tab[t])
    BY DEF Done, Sends, Due, Live, Sure, Sole
  <2> QED  BY <2>1, <2>2 DEF Drafted, Own, Held
<1> QED  BY <1>1, SessionsAreFit, PTL

\* When the page, on leaving, says that the edits stay in this browser, each of them is in
\* its envelope once flushAll is done, but where a full storage has refused it, and left
\* what was there, or another tab has the slot (describe in CodingPage, hasStoredDraft).
THEOREM WarnsTruly == Spec => []LeavingIsTruthful
<1>1. IInv => LeavingIsTruthful
  <2> SUFFICES ASSUME IInv, NEW t \in Tabs, Open(t), NEW d \in tab[t].dirty,
                      SaysEditsAreKept(FlushAll(Session(t), t))
               PROVE  LET r == FlushAll(Session(t), t)
                      IN  \/ r.slot[d].draft = LastEdit(t, d)
                          \/ OlderIsKept(r, t, d) \/ OthersIsKept(r, t, d)
    BY DEF LeavingIsTruthful
  <2> DEFINE s == Session(t)
             r == FlushAll(s, t)
  <2>1. s \in Sessions /\ s.tab = tab[t] /\ Fit(s, t) /\ Roomy
    BY SessionIs DEF IInv
  <2>2. SaysEditsAreKept(r)
    OBVIOUS
  <2> HIDE DEF s
  <2>3. Flushed(s, r, t)
    BY <2>1, FlushAllIs DEF Fit, Settled
  <2> HIDE DEF r
  <2>4. d \in Docs /\ DocOK(r, t, d) /\ r.tab.timers[d] = None /\ SamePage(s.tab, r.tab)
    BY <2>1, <2>3, DocsType DEF Flushed
  <2>5. d \in r.tab.dirty /\ Readable(r.slot[d]) /\ r.tab.screen[d] = tab[t].screen[d]
    BY <2>1, <2>2, <2>4 DEF SamePage, SaysEditsAreKept, HasStoredDraft
  <2>6. CASE ~Own(r, t, d)
    BY <2>5, <2>6 DEF OthersIsKept, Own, r, s
  <2>7. CASE Own(r, t, d)
    <3>1. Live(r.tab.docs[d]) /\ (Held(r, d) \/ scope.full)
      BY <2>4, <2>5, <2>7 DEF DocOK, Drafted, Due
    <3>2. r.tab.docs[d].draft = LastEdit(t, d) /\ Live(tab[t].docs[d])
      <4>1. /\ r.tab.docs[d].draft = tab[t].docs[d].draft /\ Live(tab[t].docs[d])
        BY <2>1, <2>3, <2>4, <3>1 DEF Flushed, Live
      <4>2. Assigned(d) => r.tab.screen[d] = r.tab.docs[d].draft
        BY <2>4, <2>5, <3>1 DEF DocOK, Shown
      <4> QED  BY <2>5, <4>1, <4>2 DEF LastEdit
    <3>3. r.slot[d].token = r.tab.docs[d].persisted
      BY <2>4, <2>5, <2>7, <3>1 DEF DocOK, Mine, Own, Live
    <3>4. tab[t].timers[d] # None /\ room = "free" => Held(r, d)
      BY <2>1, <2>3, <2>4, <2>7, <3>2 DEF Flushed, Stores
    <3> QED  BY <3>1, <3>2, <3>3, <3>4 DEF Held, OlderIsKept, r, s
  <2> QED  BY <2>6, <2>7
<1> QED  BY <1>1, SessionsAreFit, PTL
=============================================================================
