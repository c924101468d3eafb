-------------------------- MODULE ArbitrationProofs --------------------------
(***************************************************************************)
(* Theorems about Arbitration, for every value of its constants.           *)
(*                                                                         *)
(* A row of field_reviews is written by the one session that holds it, and *)
(* a member's queue is filled and closed by sessions that hold a common    *)
(* lock.  The invariant says, of each session, what it is about to commit  *)
(* and which locks it holds for it (SessionOK).  A step of one session     *)
(* keeps that of the others because they hold no lock and no row together  *)
(* (Exclusive, OthersStand); the committed state is in order because what  *)
(* the sessions are about to commit is.                                    *)
(***************************************************************************)
EXTENDS Arbitration, TLAPS

Writes(s) == DOMAIN tx[s].writes

\* Two sessions hold no lock and no row together.
Exclusive ==
  \A s, t \in Sessions : s # t =>
    tx[s].locks \cap tx[t].locks = {} /\ Writes(s) \cap Writes(t) = {}

\* The phases of one row.
InPhase(r) ==
  r # Null =>
    /\ r.final # Null => r.blind # Null
    /\ r.blind # Null => r.arb # Null
    /\ r.arb # Null => r.self = "contesta_llm"

\* What VerdictsStand asks of a row r and the row w that takes its place.
Stands(r, w) ==
  r # Null /\ w # Null /\ w.id = r.id =>
    /\ r.self # Null => w.self = r.self
    /\ r.final # Null => w.final = r.final
    /\ r.blind # Null => w.blind = r.blind \/ w.arb = Null
    /\ r.arb # Null => w.arb \in {r.arb, Null}

\* The committed rows are in phase, and no number of a cycle is above the last
\* one opened.
RowsInPhase ==
  \A f \in Fields : reviews[f] # Null => InPhase(reviews[f]) /\ reviews[f].id <= cycles[f]

\* So are the rows a session is about to commit, and they stand.
WritesInPhase(s) ==
  \A f \in Writes(s) :
    /\ InPhase(tx[s].writes[f])
    /\ Stands(reviews[f], tx[s].writes[f])
    /\ tx[s].writes[f] # Null => tx[s].writes[f].id <= cycles[f]

\* A contest that a row leaves to u.
WaitsFor(r, u) == r # Null /\ r.arb = u /\ r.final = Null

\* A session makes a contest wait for someone only at the end of an assignment.
Grants(s) ==
  \A f \in Writes(s), u \in Members :
    WaitsFor(tx[s].writes[f], u) /\ ~WaitsFor(reviews[f], u) =>
      tx[s].at = "assign" /\ tx[s].arb = u /\ u # Owner[f]

\* Then it holds his member row and a lock of his queue, and he may arbitrate.
Holds(s) ==
  tx[s].at = "assign" /\ tx[s].arb # Null =>
    /\ tx[s].arb \in canArbitrate
    /\ Member(tx[s].arb) \in tx[s].locks
    /\ Doc \in tx[s].locks \/ ArbitrationLock(tx[s].arb) \in tx[s].locks

\* The arbitrator is chosen among those who did not contest, with the document
\* locked and the arbitrators of the rows as they are committed.
Picks(s) ==
  tx[s].at = "pick" =>
    /\ tx[s].arb = Null /\ Doc \in tx[s].locks
    /\ \A f \in Writes(s) :
         /\ Owner[f] \notin tx[s].pool
         /\ tx[s].writes[f] # Null /\ reviews[f] # Null
         /\ tx[s].writes[f].arb = reviews[f].arb

\* A permission is taken away together with all that waits for its holder.
Permits(s) ==
  tx[s].at = "permit" =>
    /\ tx[s].who \in Members /\ Member(tx[s].who) \in tx[s].locks
    /\ tx[s].op = "enable" => Writes(s) = {}
    /\ tx[s].op # "enable" => Pending(reviews, tx[s].who) \subseteq Writes(s)
    /\ \A f \in Writes(s) : tx[s].writes[f] # Null /\ tx[s].writes[f].arb = Null

\* A queue is closed under both locks of those who create contests.
Closes(s) ==
  /\ tx[s].at \in {"close", "closing"} =>
       tx[s].who \in Members /\ FinalLocks(tx[s].who) \subseteq tx[s].locks
  /\ tx[s].at = "closing" =>
       /\ tx[s].victims \subseteq {tx[s].who}
       /\ \A u \in tx[s].victims : Pending(Seen(s), u) = {}

Sweeps(s) ==
  tx[s].at \in {"sweep", "sweeping"} =>
    scope.operations \cap {"revise", "reconcile"} # {}

SessionOK(s) ==
  /\ WritesInPhase(s) /\ Grants(s) /\ Holds(s) /\ Picks(s)
  /\ Permits(s) /\ Closes(s) /\ Sweeps(s)

SessionsOK == \A s \in Sessions : SessionOK(s)

IInv ==
  /\ TypeOK
  /\ Exclusive
  /\ RowsInPhase
  /\ SessionsOK
  /\ ArbitratorsAreEligible
  /\ ContestsAreInQueue

-----------------------------------------------------------------------------
\* Type correctness.

\* Rows written to some fields are well typed.
LEMMA WrittenRows ==
  ASSUME NEW D \in SUBSET Fields, NEW w \in [D -> Review \cup {Null}]
  PROVE  w \in Written
BY DEF Written

\* A transaction that wrote nothing is well typed.
LEMMA NothingWritten == <<>> \in Written /\ DOMAIN <<>> = {}
<1>1. DOMAIN <<>> = {}  OBVIOUS
<1>2. <<>> = [f \in {} |-> Null]  OBVIOUS
<1>3. [f \in {} |-> Null] \in [{} -> Review \cup {Null}]  OBVIOUS
<1> QED  BY <1>1, <1>2, <1>3, WrittenRows

\* What is known of a well-typed transaction and its rows.
LEMMA WrittenType ==
  ASSUME TypeOK, NEW s \in Sessions
  PROVE  /\ tx[s] \in Transaction
         /\ Writes(s) \subseteq Fields
         /\ \A f \in Writes(s) : tx[s].writes[f] \in Review \cup {Null}
<1>1. tx[s] \in Transaction /\ tx[s].writes \in Written
  BY DEF TypeOK, Transaction
<1>2. PICK D \in SUBSET Fields : tx[s].writes \in [D -> Review \cup {Null}]
  BY <1>1 DEF Written
<1> QED  BY <1>1, <1>2 DEF Writes

\* So is one that has not started.
LEMMA IdleType == Idle \in Transaction
BY NothingWritten DEF Idle, Transaction

\* A session sees one well-typed row, or none, per field.
LEMMA SeenType ==
  ASSUME TypeOK, NEW s \in Sessions
  PROVE  Seen(s) \in [Fields -> Review \cup {Null}]
BY WrittenType DEF Seen, Writes, TypeOK

\* A step of s leaves the other variables well typed.
LEMMA BecomeType ==
  ASSUME TypeOK, NEW s \in Sessions, NEW state \in Transaction, Become(s, state)
  PROVE  tx' \in [Sessions -> Transaction]
BY DEF TypeOK, Become

\* The initial state is well typed.
LEMMA InitType == Init => TypeOK
<1> SUFFICES ASSUME Init PROVE TypeOK  OBVIOUS
<1>1. NewReview(1) \in Review \cup {Null}
  BY ArbitrationAssumption DEF NewReview, Review, Init
<1> QED  BY <1>1, IdleType, ArbitrationAssumption DEF Init, TypeOK

-----------------------------------------------------------------------------
\* What a step of one session leaves to the others.

\* Only the transaction of s changes; what it commits, if it commits, is what
\* it sees, and the permission it takes is the one whose row it holds.
Frame(s) ==
  /\ scope' = scope
  /\ \A t \in Sessions \ {s} : tx'[t] = tx[t]
  /\ reviews' = reviews \/ reviews' = Seen(s)
  /\ \A u \in canArbitrate \ canArbitrate' :
       tx[s].at = "permit" /\ tx[s].op # "enable" /\ u = tx[s].who
  /\ \A f \in Fields : cycles'[f] \in Int /\ cycles[f] <= cycles'[f]

\* A step of one session is no step of another.
LEMMA BecomeFrame ==
  ASSUME TypeOK, NEW s \in Sessions, NEW state, Become(s, state)
  PROVE  /\ tx'[s] = state
         /\ \A t \in Sessions \ {s} : tx'[t] = tx[t]
BY DEF TypeOK, Become

\* Locks and rows taken while they are free stay exclusive.
LEMMA TakenApart ==
  ASSUME TypeOK, Exclusive, NEW s \in Sessions, NEW L, NEW R, Free(s, L, R),
         \A t \in Sessions \ {s} : tx'[t] = tx[t],
         tx'[s].locks \subseteq tx[s].locks \cup L,
         DOMAIN tx'[s].writes \subseteq DOMAIN tx[s].writes \cup R
  PROVE  Exclusive'
<1> SUFFICES ASSUME NEW t1 \in Sessions, NEW t2 \in Sessions, t1 # t2
             PROVE  /\ tx'[t1].locks \cap tx'[t2].locks = {}
                    /\ DOMAIN tx'[t1].writes \cap DOMAIN tx'[t2].writes = {}
  BY DEF Exclusive, Writes
<1>1. \A t \in Sessions \ {s} :
        /\ tx'[s].locks \cap tx'[t].locks = {}
        /\ DOMAIN tx'[s].writes \cap DOMAIN tx'[t].writes = {}
  BY DEF Exclusive, Writes, Free
<1> QED  BY <1>1 DEF Exclusive, Writes

\* A step that takes nothing.
LEMMA KeptApart ==
  ASSUME TypeOK, Exclusive, NEW s \in Sessions,
         \A t \in Sessions \ {s} : tx'[t] = tx[t],
         tx'[s].locks \subseteq tx[s].locks,
         DOMAIN tx'[s].writes \subseteq DOMAIN tx[s].writes
  PROVE  Exclusive'
<1>1. Free(s, {}, {})  BY DEF Free
<1> QED  BY <1>1, TakenApart

\* A session writes a row of reviews only if it holds it.
LEMMA CommitRow ==
  ASSUME IInv, NEW s \in Sessions, Frame(s), NEW f \in Fields
  PROVE  \/ reviews'[f] = reviews[f]
         \/ /\ f \in Writes(s) /\ reviews' = Seen(s)
            /\ reviews'[f] = tx[s].writes[f]
<1>1. Seen(s)[f] = IF f \in Writes(s) THEN tx[s].writes[f] ELSE reviews[f]
  BY DEF Seen, Writes
<1>2. reviews' = reviews \/ reviews' = Seen(s)  BY DEF Frame
<1> QED  BY <1>1, <1>2

\* What one session wrote no other session commits.
LEMMA CommitElsewhere ==
  ASSUME IInv, NEW s \in Sessions, Frame(s), NEW t \in Sessions, t # s, NEW f \in Writes(t)
  PROVE  reviews'[f] = reviews[f]
<1>1. f \in Fields /\ f \notin Writes(s)  BY WrittenType DEF IInv, Exclusive
<1> QED  BY <1>1, CommitRow

\* A contest that a step leaves to u waited for u, or is committed by the
\* assignment of u.
LEMMA CommitPending ==
  ASSUME IInv, NEW s \in Sessions, Frame(s), NEW u \in Members,
         NEW f \in Pending(reviews', u)
  PROVE  \/ f \in Pending(reviews, u)
         \/ /\ reviews' = Seen(s) /\ tx[s].at = "assign" /\ tx[s].arb = u /\ u # Owner[f]
            /\ u \in canArbitrate /\ Member(u) \in tx[s].locks
            /\ Doc \in tx[s].locks \/ ArbitrationLock(u) \in tx[s].locks
<1> SUFFICES ASSUME f \notin Pending(reviews, u)
             PROVE  /\ reviews' = Seen(s) /\ tx[s].at = "assign" /\ tx[s].arb = u /\ u # Owner[f]
                    /\ u \in canArbitrate /\ Member(u) \in tx[s].locks
                    /\ Doc \in tx[s].locks \/ ArbitrationLock(u) \in tx[s].locks
  OBVIOUS
<1>1. f \in Fields /\ WaitsFor(reviews'[f], u) /\ ~WaitsFor(reviews[f], u)
  BY DEF Pending, WaitsFor
<1>2. f \in Writes(s) /\ reviews'[f] = tx[s].writes[f] /\ reviews' = Seen(s)
  BY <1>1, CommitRow
<1>3. Grants(s) /\ Holds(s)  BY DEF IInv, SessionsOK, SessionOK
<1>4. tx[s].at = "assign" /\ tx[s].arb = u /\ u # Owner[f]
  BY <1>1, <1>2, <1>3 DEF Grants
<1>5. u # Null  BY ArbitrationAssumption
<1> QED  BY <1>2, <1>3, <1>4, <1>5 DEF Holds

\* The locks keep what another session relies on.
LEMMA OthersStand ==
  ASSUME IInv, NEW s \in Sessions, Frame(s), NEW t \in Sessions, t # s
  PROVE  SessionOK(t)'
<1> USE DEF Writes
<1>1. tx'[t] = tx[t] /\ scope' = scope /\ SessionOK(t)  BY DEF Frame, IInv, SessionsOK
<1>2. \A f \in Writes(t) : f \in Fields /\ reviews'[f] = reviews[f]
  BY CommitElsewhere, WrittenType DEF IInv
<1>3. tx[s].locks \cap tx[t].locks = {}  BY DEF IInv, Exclusive
<1>4. WritesInPhase(t)'
  <2> SUFFICES ASSUME NEW f \in Writes(t)
               PROVE  /\ InPhase(tx[t].writes[f])
                      /\ Stands(reviews[f], tx[t].writes[f])
                      /\ tx[t].writes[f] # Null => tx[t].writes[f].id <= cycles'[f]
    BY <1>1, <1>2 DEF WritesInPhase
  <2>1. f \in Fields /\ tx[t].writes[f] \in Review \cup {Null}
    BY WrittenType DEF IInv
  <2>2. cycles[f] \in Int /\ cycles'[f] \in Int /\ cycles[f] <= cycles'[f]
    BY <2>1 DEF IInv, TypeOK, Frame
  <2> QED  BY <1>1, <2>1, <2>2 DEF SessionOK, WritesInPhase, Review
<1>5. Grants(t)'
  BY <1>1, <1>2 DEF SessionOK, Grants
<1>6. Holds(t)'
  <2> SUFFICES ASSUME tx[t].at = "assign", tx[t].arb # Null, tx[t].arb \notin canArbitrate'
               PROVE  FALSE
    BY <1>1 DEF SessionOK, Holds
  <2>1. tx[s].at = "permit" /\ tx[t].arb = tx[s].who
    BY <1>1 DEF SessionOK, Holds, Frame
  <2>2. Member(tx[t].arb) \in tx[t].locks  BY <1>1 DEF SessionOK, Holds
  <2>3. Member(tx[s].who) \in tx[s].locks  BY <2>1 DEF IInv, SessionsOK, SessionOK, Permits
  <2> QED  BY <1>3, <2>1, <2>2, <2>3
<1>7. Picks(t)'
  BY <1>1, <1>2 DEF SessionOK, Picks
<1>8. Permits(t)'
  <2> SUFFICES ASSUME tx[t].at = "permit", tx[t].op # "enable", NEW f \in Pending(reviews', tx[t].who)
               PROVE  f \in Writes(t)
    BY <1>1 DEF SessionOK, Permits
  <2>1. tx[t].who \in Members /\ Member(tx[t].who) \in tx[t].locks
        /\ Pending(reviews, tx[t].who) \subseteq Writes(t)
    BY <1>1 DEF SessionOK, Permits
  <2> QED  BY <1>3, <2>1, CommitPending
<1>9. Closes(t)'
  <2>1. tx[t].at \in {"close", "closing"} =>
          tx[t].who \in Members /\ FinalLocks(tx[t].who) \subseteq tx[t].locks
    BY <1>1 DEF SessionOK, Closes
  <2>2. ASSUME tx[t].at = "closing", NEW u \in tx[t].victims, NEW f \in Pending(Seen(t), u)'
        PROVE  FALSE
    <3>1. u = tx[t].who /\ Pending(Seen(t), u) = {}
          /\ Doc \in tx[t].locks /\ ArbitrationLock(u) \in tx[t].locks
      BY <1>1, <2>1, <2>2 DEF SessionOK, Closes, FinalLocks
    <3>2. f \in Fields /\ u \in Members /\ f \notin Pending(Seen(t), u)
      BY <2>2, <3>1, WrittenType DEF Pending, IInv, Transaction
    <3>3. /\ Seen(t)[f] = IF f \in Writes(t) THEN tx[t].writes[f] ELSE reviews[f]
          /\ Seen(t)'[f] = IF f \in Writes(t) THEN tx[t].writes[f] ELSE reviews'[f]
      BY <1>1, <3>2 DEF Seen
    <3>4. f \notin Writes(t) /\ f \in Pending(reviews', u) /\ f \notin Pending(reviews, u)
      BY <2>2, <3>2, <3>3 DEF Pending
    <3> QED  BY <1>3, <3>1, <3>2, <3>4, CommitPending
  <2>3. tx[t].at = "closing" => tx[t].victims \subseteq {tx[t].who}
    BY <1>1 DEF SessionOK, Closes
  <2>4. Closes(t)' = /\ tx[t].at \in {"close", "closing"} =>
                          tx[t].who \in Members /\ FinalLocks(tx[t].who) \subseteq tx[t].locks
                     /\ tx[t].at = "closing" =>
                          /\ tx[t].victims \subseteq {tx[t].who}
                          /\ \A u \in tx[t].victims : Pending(Seen(t), u)' = {}
    BY <1>1 DEF Closes, FinalLocks
  <2> QED  BY <2>1, <2>2, <2>3, <2>4
<1>10. Sweeps(t)'
  BY <1>1 DEF SessionOK, Sweeps
<1> QED  BY <1>4, <1>5, <1>6, <1>7, <1>8, <1>9, <1>10 DEF SessionOK

-----------------------------------------------------------------------------
\* The steps of a session.

\* What each of them keeps: types, exclusion, the other sessions, its own.
StepOK(s) == TypeOK' /\ Exclusive' /\ Frame(s) /\ SessionOK(s)'

\* Where no cycle is opened, none is lost.
LEMMA SameCycles ==
  ASSUME IInv, cycles' = cycles
  PROVE  \A f \in Fields : cycles'[f] \in Int /\ cycles[f] <= cycles'[f]
BY DEF IInv, TypeOK

\* A step that commits nothing.
LEMMA PrivateStep ==
  ASSUME IInv, NEW s \in Sessions, NEW state \in Transaction, Become(s, state),
         UNCHANGED <<scope, reviews, cycles, tasks, canArbitrate, toggles>>
  PROVE  TypeOK' /\ Frame(s)
<1>1. TypeOK'  BY BecomeType DEF IInv, TypeOK
<1>2. \A t \in Sessions \ {s} : tx'[t] = tx[t]  BY BecomeFrame DEF IInv
<1>3. \A f \in Fields : cycles'[f] \in Int /\ cycles[f] <= cycles'[f]
  BY SameCycles
<1> QED  BY <1>1, <1>2, <1>3 DEF Frame

\* A session between two transactions has written nothing.
LEMMA RestingSession ==
  ASSUME NEW s \in Sessions, tx'[s].writes = <<>>, tx'[s].at \in {"", "read", "choose"}
  PROVE  SessionOK(s)'
BY NothingWritten
   DEF SessionOK, WritesInPhase, Grants, Holds, Picks, Permits, Closes, Sweeps, Writes

\* A transaction starts with the locks and the rows it takes.
LEMMA StartApart ==
  ASSUME IInv, NEW s \in Sessions, NEW state, Become(s, state), tx[s] = Idle,
         Free(s, state.locks, DOMAIN state.writes)
  PROVE  Exclusive'
<1>1. tx'[s] = state /\ \A t \in Sessions \ {s} : tx'[t] = tx[t]
  BY BecomeFrame DEF IInv
<1> QED  BY <1>1, TakenApart DEF IInv

\* What IInv says of a committed row.
LEMMA CommittedRow ==
  ASSUME IInv, NEW f \in Fields
  PROVE  /\ reviews[f] \in Review \cup {Null}
         /\ cycles[f] \in Nat
         /\ reviews[f] # Null => InPhase(reviews[f]) /\ reviews[f].id <= cycles[f]
BY DEF IInv, TypeOK, RowsInPhase

\* submit_auto_review_verdicts, its rows and its candidates.
LEMMA ContestStep ==
  ASSUME IInv, NEW s \in Sessions, NEW h \in Coders, Contest(s, h)
  PROVE  StepOK(s)
<1> DEFINE decided(f, contested) == IF f \in contested THEN "contesta_llm" ELSE "admite_erro"
           written(f, contested) == [reviews[f] EXCEPT !.self = decided(f, contested)]
           pool(contested) == IF {f \in contested : reviews[f].arb = Null} = {}
                              THEN {} ELSE Eligible(h)
           begun(rows, contested) == [Idle EXCEPT
             !.op = "contest", !.at = "pick", !.who = h, !.locks = {Doc},
             !.pool = pool(contested),
             !.writes = [f \in rows |-> written(f, contested)]]
<1>0. PICK rows \in (SUBSET Rows(h)) \ {{}} : \E contested \in SUBSET rows :
        /\ Free(s, {Doc}, rows)
        /\ \A f \in rows : Decides(f, decided(f, contested))
        /\ Become(s, begun(rows, contested))
  BY DEF Contest
<1>1. PICK contested \in SUBSET rows :
        /\ Free(s, {Doc}, rows)
        /\ \A f \in rows : Decides(f, decided(f, contested))
        /\ Become(s, begun(rows, contested))
  BY <1>0
<1> DEFINE state == begun(rows, contested)
<1>2. /\ state.op = "contest" /\ state.at = "pick" /\ state.who = h /\ state.locks = {Doc}
      /\ state.pool = pool(contested) /\ state.arb = Null
      /\ state.writes = [f \in rows |-> written(f, contested)]
  BY DEF Idle
<1>3. \A f \in rows :
        /\ f \in Fields /\ Owner[f] = h /\ reviews[f] \in Review
        /\ written(f, contested) \in Review
        /\ written(f, contested) = [id |-> reviews[f].id, self |-> decided(f, contested),
             arb |-> reviews[f].arb, blind |-> reviews[f].blind, final |-> reviews[f].final]
        /\ reviews[f].self \in {Null, decided(f, contested)}
        /\ InPhase(reviews[f]) /\ reviews[f].id <= cycles[f]
  BY <1>1, CommittedRow DEF Rows, Review, Decides
<1>4. state \in Transaction
  <2>1. state.writes \in Written  BY <1>2, <1>3, WrittenRows
  <2>2. pool(contested) \in SUBSET Members  BY <1>1 DEF Eligible, IInv, TypeOK
  <2>3. {Doc} \in SUBSET Locks  BY DEF Doc, Locks
  <2>4. h \in Members  BY ArbitrationAssumption
  <2> QED  BY <2>1, <2>2, <2>3, <2>4, <1>2 DEF Idle, Transaction
<1>5. UNCHANGED <<scope, reviews, cycles, tasks, canArbitrate, toggles>> /\ tx[s] = Idle
  BY DEF Contest
<1>6. TypeOK' /\ Frame(s)  BY <1>1, <1>4, <1>5, PrivateStep
<1>7. Exclusive'  BY <1>1, <1>2, <1>5, StartApart
<1>8. tx'[s] = state  BY <1>1, BecomeFrame DEF IInv
<1> HIDE DEF state, written, decided
<1>9. WritesInPhase(s)'
  <2> SUFFICES ASSUME NEW f \in rows
               PROVE  /\ InPhase(written(f, contested))
                      /\ Stands(reviews[f], written(f, contested))
                      /\ written(f, contested).id <= cycles[f]
    BY <1>2, <1>5, <1>8 DEF WritesInPhase, Writes
  <2> QED  BY <1>3, NullAssumption DEF InPhase, Stands, decided, Review
<1>10. Grants(s)'
  <2> SUFFICES ASSUME NEW f \in rows, NEW u \in Members,
                      WaitsFor(written(f, contested), u), ~WaitsFor(reviews[f], u)
               PROVE  FALSE
    BY <1>2, <1>5, <1>8 DEF Grants, Writes
  <2> QED  BY <1>3, NullAssumption DEF WaitsFor, Review
<1>11. Picks(s)'
  <2> SUFFICES ASSUME NEW f \in rows
               PROVE  /\ Owner[f] \notin pool(contested)
                      /\ written(f, contested) # Null /\ reviews[f] # Null
                      /\ written(f, contested).arb = reviews[f].arb
    BY <1>2, <1>5, <1>8 DEF Picks, Writes
  <2> QED  BY <1>1, <1>3, NullAssumption DEF Eligible
<1>12. Holds(s)' /\ Permits(s)' /\ Closes(s)' /\ Sweeps(s)'
  BY <1>2, <1>8 DEF Holds, Permits, Closes, Sweeps
<1> QED  BY <1>6, <1>7, <1>9, <1>10, <1>11, <1>12 DEF StepOK, SessionOK

\* A session that only looks keeps what it wrote.
LEMMA KeptWrites ==
  ASSUME IInv, NEW s \in Sessions, tx[s].at # "assign",
         tx'[s].writes = tx[s].writes, reviews' = reviews, cycles' = cycles
  PROVE  WritesInPhase(s)' /\ Grants(s)'
<1>1. WritesInPhase(s) /\ Grants(s)  BY DEF IInv, SessionsOK, SessionOK
<1>2. WritesInPhase(s)'  BY <1>1 DEF WritesInPhase, Writes
<1>3. Grants(s)'  BY <1>1 DEF Grants, Writes
<1> QED  BY <1>2, <1>3

\* The choice under the member's row: no candidate left, one that lost the
\* permission, or one that has it.
LEMMA PickArbitratorStep ==
  ASSUME IInv, NEW s \in Sessions, PickArbitrator(s)
  PROVE  StepOK(s)
<1>1. /\ tx[s].op = "contest" /\ tx[s].at = "pick"
      /\ UNCHANGED <<scope, reviews, cycles, tasks, canArbitrate, toggles>>
  BY DEF PickArbitrator
<1>2. tx[s] \in Transaction /\ tx[s].arb = Null /\ Doc \in tx[s].locks
      /\ \A f \in Writes(s) :
           /\ Owner[f] \notin tx[s].pool
           /\ tx[s].writes[f] \in Review /\ reviews[f] # Null
           /\ tx[s].writes[f].arb = reviews[f].arb
  BY <1>1, WrittenType DEF IInv, SessionsOK, SessionOK, Picks
<1>3. CASE Become(s, [tx[s] EXCEPT !.at = "assign"])
  <2> DEFINE state == [tx[s] EXCEPT !.at = "assign"]
  <2>1. /\ state \in Transaction /\ state.at = "assign" /\ state.locks = tx[s].locks
        /\ state.writes = tx[s].writes /\ state.arb = Null
    BY <1>2 DEF Transaction
  <2>2. TypeOK' /\ Frame(s) /\ tx'[s] = state
        /\ \A t \in Sessions \ {s} : tx'[t] = tx[t]
    BY <1>1, <1>3, <2>1, PrivateStep, BecomeFrame DEF IInv
  <2> HIDE DEF state
  <2>3. Exclusive'  BY <2>1, <2>2, KeptApart DEF IInv
  <2>4. WritesInPhase(s)' /\ Grants(s)'  BY <1>1, <2>1, <2>2, KeptWrites
  <2>5. Holds(s)' /\ Picks(s)' /\ Permits(s)' /\ Closes(s)' /\ Sweeps(s)'
    BY <2>1, <2>2 DEF Holds, Picks, Permits, Closes, Sweeps
  <2> QED  BY <2>2, <2>3, <2>4, <2>5 DEF StepOK, SessionOK
<1>4. ASSUME NEW u \in Preferred(tx[s].pool), Free(s, {Member(u)}, {}), ~StillEligible(u),
             Become(s, [tx[s] EXCEPT !.pool = @ \ {u}, !.locks = @ \cup {Member(u)}])
      PROVE  StepOK(s)
  <2> DEFINE state == [tx[s] EXCEPT !.pool = @ \ {u}, !.locks = @ \cup {Member(u)}]
  <2>1. Preferred(tx[s].pool) \subseteq tx[s].pool /\ tx[s].pool \subseteq Members
    BY <1>2 DEF Preferred, Transaction
  <2>2. Member(u) \in Locks  BY <2>1 DEF Member, Locks
  <2>3. /\ state \in Transaction /\ state.at = "pick" /\ state.locks = tx[s].locks \cup {Member(u)}
        /\ state.writes = tx[s].writes /\ state.arb = Null /\ state.pool \subseteq tx[s].pool
    BY <1>1, <1>2, <2>2 DEF Transaction
  <2>4. TypeOK' /\ Frame(s) /\ tx'[s] = state
        /\ \A t \in Sessions \ {s} : tx'[t] = tx[t]
    BY <1>1, <1>4, <2>3, PrivateStep, BecomeFrame DEF IInv
  <2> HIDE DEF state
  <2>5. Exclusive'  BY <1>4, <2>3, <2>4, TakenApart DEF IInv
  <2>6. WritesInPhase(s)' /\ Grants(s)'  BY <1>1, <2>3, <2>4, KeptWrites
  <2>7. Picks(s)'
    BY <1>1, <1>2, <2>3, <2>4, NullAssumption DEF Picks, Writes
  <2>8. Holds(s)' /\ Permits(s)' /\ Closes(s)' /\ Sweeps(s)'
    BY <2>3, <2>4 DEF Holds, Permits, Closes, Sweeps
  <2> QED  BY <2>4, <2>5, <2>6, <2>7, <2>8 DEF StepOK, SessionOK
<1> DEFINE chosen(r, u) == IF r.self = "contesta_llm" /\ r.arb = Null
                           THEN [r EXCEPT !.arb = u] ELSE r
           given(u) == [tx[s] EXCEPT
             !.at = "assign", !.arb = u, !.pool = {}, !.locks = @ \cup {Member(u)},
             !.writes = [f \in DOMAIN tx[s].writes |-> chosen(tx[s].writes[f], u)]]
<1>5. ASSUME NEW u \in Preferred(tx[s].pool), Free(s, {Member(u)}, {}), StillEligible(u),
             Become(s, given(u))
      PROVE  StepOK(s)
  <2>1. u \in tx[s].pool /\ u \in Members /\ u \in canArbitrate /\ u # Null
    BY <1>2, <1>5, ArbitrationAssumption DEF Preferred, Transaction, StillEligible
  <2>2. \A f \in Writes(s) : f \in Fields /\ chosen(tx[s].writes[f], u) \in Review
    BY <1>2, <2>1, WrittenType DEF Review, IInv
  <2>3. [f \in Writes(s) |-> chosen(tx[s].writes[f], u)] \in Written
    BY <2>2, WrittenType, WrittenRows DEF IInv
  <2>4. Member(u) \in Locks  BY <2>1 DEF Member, Locks
  <2>5. /\ given(u) \in Transaction /\ given(u).at = "assign" /\ given(u).arb = u
        /\ given(u).locks = tx[s].locks \cup {Member(u)}
        /\ given(u).writes = [f \in Writes(s) |-> chosen(tx[s].writes[f], u)]
    BY <1>2, <2>1, <2>3, <2>4 DEF Transaction, Writes
  <2> HIDE DEF given, chosen
  <2>6. TypeOK' /\ Frame(s) /\ tx'[s] = given(u)
        /\ \A t \in Sessions \ {s} : tx'[t] = tx[t]
    BY <1>1, <1>5, <2>5, PrivateStep, BecomeFrame DEF IInv
  <2>7. Exclusive'  BY <1>5, <2>5, <2>6, TakenApart DEF IInv, Writes
  <2>8. WritesInPhase(s)'
    <3> SUFFICES ASSUME NEW f \in Writes(s)
                 PROVE  /\ InPhase(chosen(tx[s].writes[f], u))
                        /\ Stands(reviews[f], chosen(tx[s].writes[f], u))
                        /\ chosen(tx[s].writes[f], u).id <= cycles[f]
      BY <1>1, <2>5, <2>6 DEF WritesInPhase, Writes
    <3>1. /\ tx[s].writes[f] \in Review /\ reviews[f] \in Review
          /\ tx[s].writes[f].arb = reviews[f].arb
      BY <1>2, <2>2, CommittedRow
    <3>2. /\ InPhase(tx[s].writes[f]) /\ InPhase(reviews[f])
          /\ Stands(reviews[f], tx[s].writes[f])
          /\ tx[s].writes[f].id <= cycles[f]
      BY <1>2, <2>2, <3>1, CommittedRow, NullAssumption DEF IInv, SessionsOK, SessionOK, WritesInPhase
    <3> QED  BY <2>1, <3>1, <3>2, NullAssumption DEF InPhase, Stands, Review, chosen
  <2>9. Grants(s)'
    <3> SUFFICES ASSUME NEW f \in Writes(s), NEW v \in Members,
                        WaitsFor(chosen(tx[s].writes[f], u), v), ~WaitsFor(reviews[f], v)
                 PROVE  v = u /\ u # Owner[f]
      BY <1>1, <2>5, <2>6 DEF Grants, Writes
    <3>1. tx[s].writes[f] \in Review /\ u # Owner[f]  BY <1>2, <2>1
    <3>2. ~WaitsFor(tx[s].writes[f], v)
      BY <1>1 DEF IInv, SessionsOK, SessionOK, Grants
    <3> QED  BY <3>1, <3>2, NullAssumption DEF WaitsFor, Review, chosen
  <2>10. Holds(s)' /\ Picks(s)' /\ Permits(s)' /\ Closes(s)' /\ Sweeps(s)'
    BY <1>1, <1>2, <2>1, <2>5, <2>6 DEF Holds, Picks, Permits, Closes, Sweeps
  <2> QED  BY <2>6, <2>7, <2>8, <2>9, <2>10 DEF StepOK, SessionOK
<1> QED  BY <1>1, <1>3, <1>4, <1>5 DEF PickArbitrator

\* A step that commits what the session sees and lets it rest.
LEMMA CommitStep ==
  ASSUME IInv, NEW s \in Sessions, NEW state \in Transaction, Become(s, state),
         state.writes = <<>>, state.locks = {}, state.at \in {"", "read", "choose"},
         reviews' = Seen(s), UNCHANGED <<scope, cycles, toggles>>,
         tasks' \in [Members -> {"none", "pendente", "concluido"}],
         canArbitrate' \subseteq Members,
         \A u \in canArbitrate \ canArbitrate' :
           tx[s].at = "permit" /\ tx[s].op # "enable" /\ u = tx[s].who
  PROVE  StepOK(s)
<1>1. tx'[s] = state /\ \A t \in Sessions \ {s} : tx'[t] = tx[t]
  BY BecomeFrame DEF IInv
<1>2. TypeOK'  BY BecomeType, SeenType DEF IInv, TypeOK
<1>3. Exclusive'  BY <1>1, NothingWritten, KeptApart DEF IInv
<1>4. \A f \in Fields : cycles'[f] \in Int /\ cycles[f] <= cycles'[f]
  BY SameCycles
<1>5. Frame(s)  BY <1>1, <1>4 DEF Frame
<1>6. SessionOK(s)'  BY <1>1, RestingSession
<1> QED  BY <1>2, <1>3, <1>5, <1>6 DEF StepOK

\* The state of a retry is well typed.
LEMMA RetryType ==
  ASSUME NEW todo \in SUBSET (Fields \X (1..MaxCycles)), NEW at \in {"read", "choose"}
  PROVE  /\ [Idle EXCEPT !.op = "retry", !.at = at, !.todo = todo] \in Transaction
         /\ [Idle EXCEPT !.op = "retry", !.at = at] \in Transaction
BY NothingWritten DEF Idle, Transaction

\* The commit of an assignment.
LEMMA AssignTaskStep ==
  ASSUME IInv, NEW s \in Sessions, AssignTask(s)
  PROVE  StepOK(s)
<1> DEFINE state == IF tx[s].todo = {} THEN Idle
              ELSE [Idle EXCEPT !.op = "retry", !.at = "choose", !.todo = tx[s].todo]
<1>1. tx[s] \in Transaction /\ tx[s].todo \in SUBSET (Fields \X (1..MaxCycles))
  BY WrittenType DEF IInv, Transaction
<1>2. state \in Transaction  BY <1>1, IdleType, RetryType
<1>3. state.writes = <<>> /\ state.locks = {} /\ state.at \in {"", "read", "choose"}
  BY DEF Idle
<1>4. /\ Become(s, state) /\ reviews' = Seen(s) /\ UNCHANGED <<scope, cycles, toggles>>
      /\ canArbitrate' = canArbitrate
      /\ tasks' = IF tx[s].arb = Null THEN tasks ELSE WithTask(tx[s].arb)
  BY DEF AssignTask
<1>5. tasks' \in [Members -> {"none", "pendente", "concluido"}] /\ canArbitrate' \subseteq Members
  BY <1>4 DEF WithTask, IInv, TypeOK
<1> HIDE DEF state
<1> QED  BY <1>2, <1>3, <1>4, <1>5, CommitStep

\* The commit of a permission.
LEMMA CommitPermissionStep ==
  ASSUME IInv, NEW s \in Sessions, CommitPermission(s)
  PROVE  StepOK(s)
<1> DEFINE state == [Idle EXCEPT !.op = "retry", !.at = "read"]
<1>1. state \in Transaction  BY RetryType
<1>2. state.writes = <<>> /\ state.locks = {} /\ state.at \in {"", "read", "choose"}
  BY DEF Idle
<1>3. tx[s].at = "permit" /\ tx[s].who \in Members
  BY DEF CommitPermission, IInv, SessionsOK, SessionOK, Permits
<1>4. /\ Become(s, state) /\ reviews' = Seen(s) /\ UNCHANGED <<scope, cycles, toggles>>
      /\ canArbitrate' = IF tx[s].op = "enable" THEN canArbitrate \cup {tx[s].who}
                         ELSE canArbitrate \ {tx[s].who}
      /\ \/ tasks' = tasks
         \/ tasks' = [tasks EXCEPT ![tx[s].who] = "none"]
  BY DEF CommitPermission
<1>5. tasks' \in [Members -> {"none", "pendente", "concluido"}] /\ canArbitrate' \subseteq Members
  BY <1>3, <1>4 DEF IInv, TypeOK
<1>6. \A u \in canArbitrate \ canArbitrate' :
        tx[s].at = "permit" /\ tx[s].op # "enable" /\ u = tx[s].who
  BY <1>3, <1>4
<1> HIDE DEF state
<1> QED  BY <1>1, <1>2, <1>4, <1>5, <1>6, CommitStep

\* The commits of a final verdict and of a deletion.
LEMMA CloseTaskStep ==
  ASSUME IInv, NEW s \in Sessions, CloseTask(s) \/ Sweep(s)
  PROVE  StepOK(s)
<1>1. /\ Become(s, Idle) /\ reviews' = Seen(s)
      /\ UNCHANGED <<scope, cycles, canArbitrate, toggles>>
  BY DEF CloseTask, Sweep
<1>2. tasks' \in [Members -> {"none", "pendente", "concluido"}]
  BY DEF CloseTask, Sweep, IInv, TypeOK
<1>3. Idle.writes = <<>> /\ Idle.locks = {} /\ Idle.at = ""  BY DEF Idle
<1>4. canArbitrate' \subseteq Members  BY <1>1 DEF IInv, TypeOK
<1> QED  BY <1>1, <1>2, <1>3, <1>4, IdleType, CommitStep

\* A step that changes nothing committed and keeps what the session wrote.
LEMMA LookingStep ==
  ASSUME IInv, NEW s \in Sessions, NEW state \in Transaction, Become(s, state),
         UNCHANGED <<scope, reviews, cycles, tasks, canArbitrate, toggles>>,
         tx[s].at # "assign", state.writes = tx[s].writes, state.locks = tx[s].locks,
         state.at \notin {"pick", "assign", "permit"}
  PROVE  /\ TypeOK' /\ Exclusive' /\ Frame(s) /\ tx'[s] = state
         /\ Closes(s)' /\ Sweeps(s)' => StepOK(s)
<1>1. TypeOK' /\ Frame(s) /\ tx'[s] = state /\ \A t \in Sessions \ {s} : tx'[t] = tx[t]
  BY PrivateStep, BecomeFrame DEF IInv
<1>2. Exclusive'  BY <1>1, KeptApart DEF IInv
<1>3. WritesInPhase(s)' /\ Grants(s)'  BY <1>1, KeptWrites
<1>4. Holds(s)' /\ Picks(s)' /\ Permits(s)'  BY <1>1 DEF Holds, Picks, Permits
<1> QED  BY <1>1, <1>2, <1>3, <1>4 DEF StepOK, SessionOK

\* A step that changes nothing committed and drops what the session held.
LEMMA DroppingStep ==
  ASSUME IInv, NEW s \in Sessions, NEW state \in Transaction, Become(s, state),
         UNCHANGED <<scope, reviews, cycles, tasks, canArbitrate, toggles>>,
         state.writes = <<>>, state.locks = {}, state.at \in {"", "read", "choose"}
  PROVE  StepOK(s)
<1>1. TypeOK' /\ Frame(s) /\ tx'[s] = state /\ \A t \in Sessions \ {s} : tx'[t] = tx[t]
  BY PrivateStep, BecomeFrame DEF IInv
<1>2. Exclusive'  BY <1>1, NothingWritten, KeptApart DEF IInv
<1>3. SessionOK(s)'  BY <1>1, RestingSession
<1> QED  BY <1>1, <1>2, <1>3 DEF StepOK

\* retryPendingArbitrations, its query.
LEMMA ReadContestsStep ==
  ASSUME IInv, NEW s \in Sessions, ReadContests(s)
  PROVE  StepOK(s)
<1> DEFINE orphans == {f \in Fields : /\ reviews[f] # Null
                                      /\ reviews[f].self = "contesta_llm"
                                      /\ reviews[f].arb = Null}
           todo == {<<f, reviews[f].id>> : f \in orphans}
           state == [tx[s] EXCEPT !.at = "choose", !.todo = todo]
<1>1. /\ tx[s].at = "read" /\ UNCHANGED <<scope, reviews, cycles, tasks, canArbitrate, toggles>>
      /\ Become(s, Idle) \/ Become(s, state)
  BY DEF ReadContests
<1>2. Idle.writes = <<>> /\ Idle.locks = {} /\ Idle.at = ""  BY DEF Idle
<1>3. todo \subseteq Fields \X (1..MaxCycles)
  BY CommittedRow DEF Review
<1>4. /\ state \in Transaction /\ state.at = "choose"
      /\ state.writes = tx[s].writes /\ state.locks = tx[s].locks
  BY <1>3, WrittenType DEF IInv, Transaction
<1> HIDE DEF state
<1>5. CASE Become(s, Idle)  BY <1>1, <1>2, <1>5, IdleType, DroppingStep
<1>6. CASE Become(s, state)
  <2>1. tx'[s] = state  BY <1>6, BecomeFrame DEF IInv
  <2>2. Closes(s)' /\ Sweeps(s)'  BY <1>4, <2>1 DEF Closes, Sweeps
  <2> QED  BY <1>1, <1>4, <1>6, <2>2, LookingStep
<1> QED  BY <1>1, <1>5, <1>6

\* retryPendingArbitrations, its choice.
LEMMA ChooseArbitratorStep ==
  ASSUME IInv, NEW s \in Sessions, NEW h \in Coders, ChooseArbitrator(s, h)
  PROVE  StepOK(s)
<1> DEFINE called(u) == [tx[s] EXCEPT !.at = "call", !.who = h, !.arb = u]
           shorter == [tx[s] EXCEPT !.todo = @ \ Group(s, h)]
<1>1. /\ tx[s].at = "choose" /\ UNCHANGED <<scope, reviews, cycles, tasks, canArbitrate, toggles>>
      /\ \/ Become(s, Idle)
         \/ Become(s, shorter)
         \/ \E u \in Preferred(Eligible(h)) : Become(s, called(u))
  BY DEF ChooseArbitrator
<1>2. Idle.writes = <<>> /\ Idle.locks = {} /\ Idle.at = ""  BY DEF Idle
<1>3. tx[s] \in Transaction  BY WrittenType DEF IInv
<1>4. /\ shorter \in Transaction /\ shorter.at = "choose"
      /\ shorter.writes = tx[s].writes /\ shorter.locks = tx[s].locks
  BY <1>1, <1>3 DEF Transaction
<1>5. CASE Become(s, Idle)  BY <1>1, <1>2, <1>5, IdleType, DroppingStep
<1>6. CASE Become(s, shorter)
  <2> HIDE DEF shorter
  <2>1. tx'[s] = shorter  BY <1>6, BecomeFrame DEF IInv
  <2>2. Closes(s)' /\ Sweeps(s)'  BY <1>4, <2>1 DEF Closes, Sweeps
  <2> QED  BY <1>1, <1>4, <1>6, <2>2, LookingStep
<1>7. ASSUME NEW u \in Preferred(Eligible(h)), Become(s, called(u))
      PROVE  StepOK(s)
  <2>1. u \in Members /\ h \in Members
    BY ArbitrationAssumption DEF Preferred, Eligible, IInv, TypeOK
  <2>2. /\ called(u) \in Transaction /\ called(u).at = "call"
        /\ called(u).writes = tx[s].writes /\ called(u).locks = tx[s].locks
    BY <1>3, <2>1 DEF Transaction
  <2> HIDE DEF called
  <2>3. tx'[s] = called(u)  BY <1>7, BecomeFrame DEF IInv
  <2>4. Closes(s)' /\ Sweeps(s)'  BY <2>2, <2>3 DEF Closes, Sweeps
  <2> QED  BY <1>1, <1>7, <2>2, <2>4, LookingStep
<1> QED  BY <1>1, <1>5, <1>6, <1>7

\* What a final verdict decides before it closes a queue.
LEMMA DecideCloseStep ==
  ASSUME IInv, NEW s \in Sessions, DecideClose(s)
  PROVE  StepOK(s)
<1> DEFINE victims == {u \in {tx[s].who} : tasks[u] # "none" /\ Pending(Seen(s), u) = {}}
           state == [tx[s] EXCEPT !.at = "closing", !.victims = victims]
<1>1. /\ tx[s].at = "close" /\ Become(s, state)
      /\ UNCHANGED <<scope, reviews, cycles, tasks, canArbitrate, toggles>>
  BY DEF DecideClose
<1>2. tx[s] \in Transaction /\ FinalLocks(tx[s].who) \subseteq tx[s].locks /\ tx[s].who \in Members
  BY <1>1, WrittenType DEF IInv, SessionsOK, SessionOK, Closes
<1>3. /\ state \in Transaction /\ state.at = "closing" /\ state.who = tx[s].who
      /\ state.writes = tx[s].writes /\ state.locks = tx[s].locks /\ state.victims = victims
  BY <1>2 DEF Transaction
<1> HIDE DEF state
<1>4. tx'[s] = state  BY <1>1, BecomeFrame DEF IInv
<1>5. Seen(s)' = Seen(s)  BY <1>1, <1>3, <1>4 DEF Seen
<1>6. \A u \in victims : Pending(Seen(s), u)' = {}  BY <1>5 DEF Pending
<1>7. Closes(s)'  BY <1>2, <1>3, <1>4, <1>6 DEF Closes, FinalLocks
<1>8. Sweeps(s)'  BY <1>3, <1>4 DEF Sweeps
<1> QED  BY <1>1, <1>3, <1>7, <1>8, LookingStep

\* What a deletion decides before it sweeps the queues.
LEMMA DecideSweepStep ==
  ASSUME IInv, NEW s \in Sessions, DecideSweep(s)
  PROVE  StepOK(s)
<1> DEFINE victims == {u \in Members : tasks[u] = "pendente" /\ Pending(Seen(s), u) = {}}
           state == [tx[s] EXCEPT !.at = "sweeping", !.victims = victims]
<1>1. /\ tx[s].at = "sweep" /\ Become(s, state)
      /\ UNCHANGED <<scope, reviews, cycles, tasks, canArbitrate, toggles>>
  BY DEF DecideSweep
<1>2. tx[s] \in Transaction  BY WrittenType DEF IInv
<1>3. /\ state \in Transaction /\ state.at = "sweeping"
      /\ state.writes = tx[s].writes /\ state.locks = tx[s].locks
  BY <1>2 DEF Transaction
<1> HIDE DEF state
<1>4. tx'[s] = state  BY <1>1, BecomeFrame DEF IInv
<1>5. Closes(s)'  BY <1>3, <1>4 DEF Closes
<1>6. Sweeps(s)'  BY <1>1, <1>3, <1>4 DEF Sweeps, IInv, SessionsOK, SessionOK
<1> QED  BY <1>1, <1>3, <1>5, <1>6, LookingStep

\* A transaction that starts takes what is free, and commits nothing yet.
LEMMA StartStep ==
  ASSUME IInv, NEW s \in Sessions, NEW state \in Transaction, Become(s, state), tx[s] = Idle,
         Free(s, state.locks, DOMAIN state.writes),
         UNCHANGED <<scope, reviews, tasks, canArbitrate>>,
         toggles' \in 0..MaxToggles, cycles' \in [Fields -> 0..MaxCycles],
         \A f \in Fields : cycles[f] <= cycles'[f]
  PROVE  TypeOK' /\ Exclusive' /\ Frame(s) /\ tx'[s] = state
<1>1. tx'[s] = state /\ \A t \in Sessions \ {s} : tx'[t] = tx[t]
  BY BecomeFrame DEF IInv
<1>2. TypeOK'  BY BecomeType DEF IInv, TypeOK
<1>3. Exclusive'  BY StartApart
<1>4. \A f \in Fields : cycles'[f] \in Int  OBVIOUS
<1>5. Frame(s)  BY <1>1, <1>4 DEF Frame
<1> QED  BY <1>1, <1>2, <1>3, <1>5

\* A released row is the row without arbitrator and blind verdict.
LEMMA ReleasedRow ==
  ASSUME NEW r \in Review
  PROVE  /\ Release(r) \in Review /\ Release(r) # Null
         /\ Release(r).id = r.id /\ Release(r).self = r.self
         /\ Release(r).arb = Null /\ Release(r).blind = Null /\ Release(r).final = r.final
BY NullAssumption DEF Release, Review

\* set_member_arbitration_permission, up to its commit.
LEMMA SetPermissionStep ==
  ASSUME IInv, NEW s \in Sessions, NEW u \in scope.members, NEW enabled \in BOOLEAN,
         SetPermission(s, u, enabled)
  PROVE  StepOK(s)
<1> DEFINE rows == Released(u, enabled)
           op == IF enabled THEN "enable" ELSE "disable"
           state == [Idle EXCEPT
             !.op = op, !.at = "permit", !.who = u, !.locks = {Member(u)},
             !.writes = [f \in rows |-> Release(reviews[f])]]
<1>1. /\ tx[s] = Idle /\ toggles < MaxToggles /\ toggles' = toggles + 1
      /\ Free(s, {Member(u)}, rows) /\ Become(s, state)
      /\ UNCHANGED <<scope, reviews, cycles, tasks, canArbitrate>>
  BY DEF SetPermission
<1>2. u \in Members  BY ArbitrationAssumption DEF IInv, TypeOK
<1>3. \A f \in rows :
        /\ f \in Fields /\ reviews[f] \in Review /\ reviews[f].final = Null
        /\ InPhase(reviews[f]) /\ reviews[f].id <= cycles[f]
  BY CommittedRow DEF Released, Pending
<1>4. /\ state.at = "permit" /\ state.op = op /\ state.who = u /\ state.locks = {Member(u)}
      /\ state.writes = [f \in rows |-> Release(reviews[f])]
  BY DEF Idle
<1>5. state \in Transaction
  <2>1. state.writes \in Written  BY <1>3, <1>4, ReleasedRow, WrittenRows
  <2>2. {Member(u)} \in SUBSET Locks  BY <1>2 DEF Member, Locks
  <2> QED  BY <1>2, <1>4, <2>1, <2>2 DEF Idle, Transaction
<1> HIDE DEF state, rows
<1>6. toggles' \in 0..MaxToggles  BY <1>1, ArbitrationAssumption DEF IInv, TypeOK
<1>7. cycles' \in [Fields -> 0..MaxCycles] /\ \A f \in Fields : cycles[f] <= cycles'[f]
  BY <1>1, SameCycles DEF IInv, TypeOK
<1>8. TypeOK' /\ Exclusive' /\ Frame(s) /\ tx'[s] = state
  BY <1>1, <1>4, <1>5, <1>6, <1>7, StartStep
<1>9. WritesInPhase(s)'
  <2> SUFFICES ASSUME NEW f \in rows
               PROVE  /\ InPhase(Release(reviews[f]))
                      /\ Stands(reviews[f], Release(reviews[f]))
                      /\ Release(reviews[f]).id <= cycles[f]
    BY <1>1, <1>4, <1>8 DEF WritesInPhase, Writes
  <2> QED  BY <1>3, ReleasedRow DEF InPhase, Stands
<1>10. Grants(s)'
  <2> SUFFICES ASSUME NEW f \in rows, NEW v \in Members, WaitsFor(Release(reviews[f]), v)
               PROVE  FALSE
    BY <1>1, <1>4, <1>8 DEF Grants, Writes
  <2> QED  BY <1>3, ReleasedRow, ArbitrationAssumption DEF WaitsFor
<1>11. Permits(s)'
  <2>1. enabled => rows = {}  BY DEF rows, Released
  <2>2. ~enabled => Pending(reviews, u) \subseteq rows
    <3> SUFFICES ASSUME ~enabled, NEW f \in Pending(reviews, u), f \in Fields
                 PROVE  reviews[f].self = "contesta_llm"
      BY DEF rows, Released, Pending
    <3> QED  BY <1>2, CommittedRow, ArbitrationAssumption DEF Pending, InPhase
  <2>3. \A f \in rows : Release(reviews[f]) # Null /\ Release(reviews[f]).arb = Null
    BY <1>3, ReleasedRow
  <2> QED  BY <1>1, <1>2, <1>4, <1>8, <2>1, <2>2, <2>3 DEF Permits, Writes
<1>12. Holds(s)' /\ Picks(s)' /\ Closes(s)' /\ Sweeps(s)'
  BY <1>4, <1>8 DEF Holds, Picks, Closes, Sweeps
<1> QED  BY <1>8, <1>9, <1>10, <1>11, <1>12 DEF StepOK, SessionOK

\* An assigned row is the row with its arbitrator.
LEMMA AssignedRow ==
  ASSUME NEW r \in Review, NEW u \in Members
  PROVE  LET w == [r EXCEPT !.arb = u] IN
         /\ w \in Review /\ w # Null
         /\ w.id = r.id /\ w.self = r.self
         /\ w.arb = u /\ w.blind = r.blind /\ w.final = r.final
BY NullAssumption DEF Review

\* assign_arbitration_cycles_if_eligible, up to its commit.
LEMMA AssignCyclesStep ==
  ASSUME IInv, NEW s \in Sessions, AssignCycles(s)
  PROVE  StepOK(s)
<1> DEFINE u == tx[s].arb
           group == Group(s, tx[s].who)
           rest == tx[s].todo \ group
           matched == {c[1] : c \in {x \in group : Assignable(x[1], x[2], u)}}
           written(f) == [reviews[f] EXCEPT !.arb = u]
           called == [tx[s] EXCEPT !.at = "assign", !.todo = rest, !.locks = AssignLocks(u),
                        !.writes = [f \in matched |-> written(f)]]
           retried == [Idle EXCEPT !.op = "retry", !.at = "choose", !.todo = rest]
<1>1. /\ tx[s].at = "call" /\ Free(s, AssignLocks(u), {c[1] : c \in group})
      /\ UNCHANGED <<scope, reviews, cycles, tasks, canArbitrate, toggles>>
      /\ \/ u \in canArbitrate /\ Become(s, called)
         \/ Become(s, Idle)
         \/ Become(s, retried)
  BY DEF AssignCycles
<1>2. tx[s] \in Transaction /\ tx[s].todo \in SUBSET (Fields \X (1..MaxCycles))
  BY WrittenType DEF IInv, Transaction
<1>3. rest \in SUBSET (Fields \X (1..MaxCycles)) /\ group \subseteq tx[s].todo
  BY <1>2 DEF Group
<1>4. CASE Become(s, Idle)
  <2>1. Idle.writes = <<>> /\ Idle.locks = {} /\ Idle.at = ""  BY DEF Idle
  <2> QED  BY <1>1, <1>4, <2>1, IdleType, DroppingStep
<1>5. CASE Become(s, retried)
  <2>1. retried \in Transaction  BY <1>3, RetryType
  <2>2. retried.writes = <<>> /\ retried.locks = {} /\ retried.at = "choose"  BY DEF Idle
  <2> HIDE DEF retried
  <2> QED  BY <1>1, <1>5, <2>1, <2>2, DroppingStep
<1>6. ASSUME u \in canArbitrate, Become(s, called)
      PROVE  StepOK(s)
  <2>1. u \in Members /\ u # Null
    BY <1>6, ArbitrationAssumption DEF IInv, TypeOK
  <2>2. \A f \in matched :
          /\ f \in Fields /\ reviews[f] \in Review
          /\ reviews[f].self = "contesta_llm" /\ reviews[f].arb = Null /\ u # Owner[f]
          /\ InPhase(reviews[f]) /\ reviews[f].id <= cycles[f]
    BY <1>2, <1>3, CommittedRow DEF Assignable
  <2>3. \A f \in matched :
          /\ written(f) \in Review /\ written(f) # Null
          /\ written(f).id = reviews[f].id /\ written(f).self = reviews[f].self
          /\ written(f).arb = u /\ written(f).blind = reviews[f].blind
          /\ written(f).final = reviews[f].final
    BY <2>1, <2>2, AssignedRow
  <2>4. AssignLocks(u) \subseteq Locks  BY <2>1 DEF AssignLocks, Member, ArbitrationLock, Locks
  <2>5. [f \in matched |-> written(f)] \in Written  BY <2>2, <2>3, WrittenRows
  <2>6. /\ called \in Transaction /\ called.at = "assign" /\ called.arb = u
        /\ called.locks = AssignLocks(u) /\ called.writes = [f \in matched |-> written(f)]
    BY <1>2, <1>3, <2>4, <2>5 DEF Transaction
  <2>7. matched \subseteq {c[1] : c \in group}  OBVIOUS
  <2> HIDE DEF called, matched, written, u
  <2>8. TypeOK' /\ Frame(s) /\ tx'[s] = called
        /\ \A t \in Sessions \ {s} : tx'[t] = tx[t]
    BY <1>1, <1>6, <2>6, PrivateStep, BecomeFrame DEF IInv
  <2>9. Exclusive'  BY <1>1, <2>6, <2>7, <2>8, TakenApart DEF IInv
  <2>10. WritesInPhase(s)'
    <3> SUFFICES ASSUME NEW f \in matched
                 PROVE  /\ InPhase(written(f))
                        /\ Stands(reviews[f], written(f))
                        /\ written(f).id <= cycles[f]
      BY <1>1, <2>6, <2>8 DEF WritesInPhase, Writes
    <3> QED  BY <2>1, <2>2, <2>3, NullAssumption DEF InPhase, Stands
  <2>11. Grants(s)'
    <3> SUFFICES ASSUME NEW f \in matched, NEW v \in Members, WaitsFor(written(f), v)
                 PROVE  v = u /\ u # Owner[f]
      BY <1>1, <2>6, <2>8 DEF Grants, Writes
    <3> QED  BY <2>2, <2>3 DEF WaitsFor
  <2>12. Holds(s)' /\ Picks(s)' /\ Permits(s)' /\ Closes(s)' /\ Sweeps(s)'
    BY <1>1, <1>6, <2>6, <2>8 DEF Holds, Picks, Permits, Closes, Sweeps, AssignLocks
  <2> QED  BY <2>8, <2>9, <2>10, <2>11, <2>12 DEF StepOK, SessionOK
<1> QED  BY <1>1, <1>4, <1>5, <1>6

\* submit_final_review_verdicts, up to its decision.
LEMMA SubmitFinalStep ==
  ASSUME IInv, NEW s \in Sessions, NEW u \in Members, SubmitFinal(s, u)
  PROVE  StepOK(s)
<1> DEFINE written(f, v) == [reviews[f] EXCEPT !.final = v]
           begun(rows, v) == [Idle EXCEPT
             !.op = "final", !.at = "close", !.who = u, !.locks = FinalLocks(u),
             !.writes = [f \in rows |-> written(f, v)]]
<1>1. PICK rows \in SUBSET Pending(reviews, u), v \in scope.choices :
        /\ \A f \in rows : reviews[f].blind # Null
        /\ Free(s, FinalLocks(u), rows)
        /\ Become(s, begun(rows, v))
  BY DEF SubmitFinal
<1>2. tx[s] = Idle /\ UNCHANGED <<scope, reviews, cycles, tasks, canArbitrate, toggles>>
  BY DEF SubmitFinal
<1>3. v \in Choices /\ v # Null  BY ArbitrationAssumption DEF IInv, TypeOK
<1>4. \A f \in rows :
        /\ f \in Fields /\ reviews[f] \in Review /\ reviews[f].final = Null
        /\ InPhase(reviews[f]) /\ reviews[f].id <= cycles[f]
  BY CommittedRow DEF Pending
<1>5. \A f \in rows :
        /\ written(f, v) \in Review /\ written(f, v) # Null
        /\ written(f, v).id = reviews[f].id /\ written(f, v).self = reviews[f].self
        /\ written(f, v).arb = reviews[f].arb /\ written(f, v).blind = reviews[f].blind
        /\ written(f, v).final = v
  BY <1>3, <1>4, NullAssumption DEF Review
<1> DEFINE state == begun(rows, v)
<1>6. /\ state.at = "close" /\ state.who = u /\ state.locks = FinalLocks(u)
      /\ state.writes = [f \in rows |-> written(f, v)]
  BY DEF Idle
<1>7. state \in Transaction
  <2>1. state.writes \in Written  BY <1>4, <1>5, <1>6, WrittenRows
  <2>2. FinalLocks(u) \in SUBSET Locks  BY DEF FinalLocks, ArbitrationLock, Doc, Locks
  <2> QED  BY <2>1, <2>2, <1>6 DEF Idle, Transaction
<1>8. Become(s, state)  BY <1>1
<1> HIDE DEF state, written, begun
<1>9. TypeOK' /\ Exclusive' /\ Frame(s) /\ tx'[s] = state
  <2>1. cycles' \in [Fields -> 0..MaxCycles] /\ toggles' \in 0..MaxToggles
    BY <1>2 DEF IInv, TypeOK
  <2>2. \A f \in Fields : cycles[f] <= cycles'[f]  BY <1>2, SameCycles
  <2> QED  BY <1>1, <1>2, <1>6, <1>7, <1>8, <2>1, <2>2, StartStep
<1>10. WritesInPhase(s)'
  <2> SUFFICES ASSUME NEW f \in rows
               PROVE  /\ InPhase(written(f, v))
                      /\ Stands(reviews[f], written(f, v))
                      /\ written(f, v).id <= cycles[f]
    BY <1>2, <1>6, <1>9 DEF WritesInPhase, Writes
  <2> QED  BY <1>1, <1>4, <1>5, NullAssumption DEF InPhase, Stands
<1>11. Grants(s)'
  <2> SUFFICES ASSUME NEW f \in rows, NEW w \in Members, WaitsFor(written(f, v), w)
               PROVE  FALSE
    BY <1>2, <1>6, <1>9 DEF Grants, Writes
  <2> QED  BY <1>3, <1>5 DEF WaitsFor
<1>12. Holds(s)' /\ Picks(s)' /\ Permits(s)' /\ Closes(s)' /\ Sweeps(s)'
  BY <1>6, <1>9 DEF Holds, Picks, Permits, Closes, Sweeps, FinalLocks
<1> QED  BY <1>9, <1>10, <1>11, <1>12 DEF StepOK, SessionOK

\* A save that deletes cycles, up to its decision.
LEMMA ReviseStep ==
  ASSUME IInv, NEW s \in Sessions, NEW h \in Coders \cup {Null}, Revise(s, h)
  PROVE  StepOK(s)
<1> DEFINE begun(gone) == [Idle EXCEPT
             !.op = "revise", !.at = "sweep", !.who = h,
             !.locks = {Response(h)}, !.writes = [f \in gone |-> Null]]
<1>1. PICK gone \in SUBSET Fields : Free(s, {Response(h)}, gone) /\ Become(s, begun(gone))
  BY DEF Revise
<1>2. /\ tx[s] = Idle /\ "revise" \in scope.operations
      /\ UNCHANGED <<scope, reviews, cycles, tasks, canArbitrate, toggles>>
  BY DEF Revise
<1> DEFINE state == begun(gone)
<1>3. /\ state.at = "sweep" /\ state.who = h /\ state.locks = {Response(h)}
      /\ state.writes = [f \in gone |-> Null]
  BY DEF Idle
<1>4. state \in Transaction
  <2>1. state.writes \in Written  BY <1>3, WrittenRows
  <2>2. h \in Members \cup {Null} /\ {Response(h)} \in SUBSET Locks
    BY ArbitrationAssumption DEF Response, Locks
  <2> QED  BY <1>3, <2>1, <2>2 DEF Idle, Transaction
<1>5. Become(s, state)  BY <1>1
<1> HIDE DEF state, begun
<1>6. TypeOK' /\ Exclusive' /\ Frame(s) /\ tx'[s] = state
  <2>1. cycles' \in [Fields -> 0..MaxCycles] /\ toggles' \in 0..MaxToggles
    BY <1>2 DEF IInv, TypeOK
  <2>2. \A f \in Fields : cycles[f] <= cycles'[f]  BY <1>2, SameCycles
  <2> QED  BY <1>1, <1>2, <1>3, <1>4, <1>5, <2>1, <2>2, StartStep
<1>7. WritesInPhase(s)' /\ Grants(s)'
  BY <1>3, <1>6 DEF WritesInPhase, Grants, Writes, InPhase, Stands, WaitsFor
<1>8. Holds(s)' /\ Picks(s)' /\ Permits(s)' /\ Closes(s)' /\ Sweeps(s)'
  BY <1>2, <1>3, <1>6 DEF Holds, Picks, Permits, Closes, Sweeps
<1> QED  BY <1>6, <1>7, <1>8 DEF StepOK, SessionOK

\* A new cycle is a well-typed row in phase.
LEMMA NewRow ==
  ASSUME NEW n \in 1..MaxCycles
  PROVE  /\ NewReview(n) \in Review /\ NewReview(n) # Null
         /\ NewReview(n).id = n /\ NewReview(n).arb = Null /\ InPhase(NewReview(n))
BY NullAssumption DEF NewReview, Review, InPhase

\* reconcile_auto_review_cycles, up to its decision.
LEMMA ReconcileStep ==
  ASSUME IInv, NEW s \in Sessions, NEW h \in Coders, Reconcile(s, h)
  PROVE  StepOK(s)
<1> DEFINE locks == {Response(h), Llm, Doc}
           written(gone, f) == IF f \in gone THEN Null ELSE NewReview(cycles[f] + 1)
           begun(gone, opened) == [Idle EXCEPT
             !.op = "reconcile", !.at = "sweep", !.who = h, !.locks = locks,
             !.writes = [f \in gone \cup opened |-> written(gone, f)]]
<1>1. PICK gone \in SUBSET Fields, opened \in SUBSET Fields :
        /\ \A f \in opened : cycles[f] < MaxCycles
        /\ Free(s, locks, gone \cup opened)
        /\ cycles' = [f \in Fields |-> cycles[f] + IF f \in opened THEN 1 ELSE 0]
        /\ Become(s, begun(gone, opened))
  BY DEF Reconcile
<1>2. /\ tx[s] = Idle /\ "reconcile" \in scope.operations
      /\ UNCHANGED <<scope, reviews, tasks, canArbitrate, toggles>>
  BY DEF Reconcile
<1>3. /\ \A f \in Fields : cycles[f] \in 0..MaxCycles
      /\ cycles' \in [Fields -> 0..MaxCycles]
      /\ \A f \in Fields : cycles[f] <= cycles'[f]
      /\ \A f \in opened : cycles[f] + 1 \in 1..MaxCycles /\ cycles'[f] = cycles[f] + 1
  BY <1>1, ArbitrationAssumption DEF IInv, TypeOK
<1> DEFINE state == begun(gone, opened)
           rows == gone \cup opened
<1>4. /\ state.at = "sweep" /\ state.who = h /\ state.locks = locks
      /\ state.writes = [f \in rows |-> written(gone, f)]
  BY DEF Idle
<1>5. \A f \in rows :
        \/ written(gone, f) = Null
        \/ /\ written(gone, f) \in Review /\ written(gone, f) # Null
           /\ written(gone, f).id = cycles[f] + 1 /\ cycles'[f] = cycles[f] + 1
           /\ written(gone, f).arb = Null /\ InPhase(written(gone, f))
  BY <1>3, NewRow
<1>6. state \in Transaction
  <2>1. state.writes \in Written  BY <1>4, <1>5, WrittenRows
  <2>2. h \in Members /\ locks \in SUBSET Locks
    BY ArbitrationAssumption DEF Response, Llm, Doc, Locks
  <2> QED  BY <1>4, <2>1, <2>2 DEF Idle, Transaction
<1>7. Become(s, state) /\ Free(s, state.locks, DOMAIN state.writes)
  BY <1>1, <1>4
<1> HIDE DEF state, begun, written
<1>8. TypeOK' /\ Exclusive' /\ Frame(s) /\ tx'[s] = state
  <2>1. toggles' \in 0..MaxToggles  BY <1>2 DEF IInv, TypeOK
  <2> QED  BY <1>2, <1>3, <1>6, <1>7, <2>1, StartStep
<1>9. WritesInPhase(s)'
  <2> SUFFICES ASSUME NEW f \in rows
               PROVE  /\ InPhase(written(gone, f))
                      /\ Stands(reviews[f], written(gone, f))
                      /\ written(gone, f) # Null => written(gone, f).id <= cycles'[f]
    BY <1>2, <1>4, <1>8 DEF WritesInPhase, Writes
  <2>1. CASE written(gone, f) = Null  BY <2>1 DEF InPhase, Stands
  <2>2. CASE written(gone, f) # Null
    <3>1. reviews[f] # Null => reviews[f].id <= cycles[f] /\ reviews[f].id \in Int
      BY CommittedRow DEF Review
    <3>2. cycles[f] \in Int  BY <1>3
    <3> QED  BY <1>5, <2>2, <3>1, <3>2 DEF Stands
  <2> QED  BY <2>1, <2>2
<1>10. Grants(s)'
  <2> SUFFICES ASSUME NEW f \in rows, NEW u \in Members, WaitsFor(written(gone, f), u)
               PROVE  FALSE
    BY <1>2, <1>4, <1>8 DEF Grants, Writes
  <2> QED  BY <1>5, ArbitrationAssumption DEF WaitsFor
<1>11. Holds(s)' /\ Picks(s)' /\ Permits(s)' /\ Closes(s)' /\ Sweeps(s)'
  BY <1>2, <1>4, <1>8 DEF Holds, Picks, Permits, Closes, Sweeps
<1> QED  BY <1>8, <1>9, <1>10, <1>11 DEF StepOK, SessionOK

\* Every step of a session keeps what the invariant says of sessions.
LEMMA SessionStep ==
  ASSUME IInv, NEW s \in Sessions, Begin(s) \/ Continue(s)
  PROVE  StepOK(s)
<1>1. CASE Begin(s)
  BY <1>1, ContestStep, ReconcileStep, ReviseStep, SubmitFinalStep, SetPermissionStep DEF Begin
<1>2. CASE Continue(s)
  BY <1>2, PickArbitratorStep, AssignTaskStep, CommitPermissionStep, ReadContestsStep,
     AssignCyclesStep, ChooseArbitratorStep, DecideCloseStep, CloseTaskStep, DecideSweepStep
     DEF Continue
<1> QED  BY <1>1, <1>2

-----------------------------------------------------------------------------
\* What a commit does to the committed state.

\* Permissions, and the queues, change in the steps that say so.
LEMMA WhoCommits ==
  ASSUME NEW s \in Sessions, Begin(s) \/ Continue(s)
  PROVE  /\ tx[s].at = "assign" => AssignTask(s)
         /\ CommitPermission(s) \/ canArbitrate' = canArbitrate
         /\ \/ tasks' = tasks \/ AssignTask(s)
            \/ CommitPermission(s) \/ CloseTask(s) \/ Sweep(s)
<1>1. CASE Begin(s)
  <2>1. tx[s] = Idle /\ canArbitrate' = canArbitrate /\ tasks' = tasks
    BY <1>1 DEF Begin, Contest, Reconcile, Revise, SubmitFinal, SetPermission
  <2>2. Idle.at = ""  BY DEF Idle
  <2> QED  BY <2>1, <2>2
<1>2. CASE Continue(s)
  BY <1>2 DEF Continue, PickArbitrator, AssignTask, CommitPermission, ReadContests,
     AssignCycles, ChooseArbitrator, DecideClose, CloseTask, DecideSweep, Sweep
<1> QED  BY <1>1, <1>2

\* What is committed is in phase.
LEMMA RowsStayInPhase ==
  ASSUME IInv, NEW s \in Sessions, Frame(s)
  PROVE  RowsInPhase'
<1> SUFFICES ASSUME NEW f \in Fields, reviews'[f] # Null
             PROVE  InPhase(reviews'[f]) /\ reviews'[f].id <= cycles'[f]
  BY DEF RowsInPhase, InPhase
<1>1. cycles[f] \in Int /\ cycles'[f] \in Int /\ cycles[f] <= cycles'[f]
  BY CommittedRow DEF Frame
<1>2. CASE reviews'[f] = reviews[f]
  BY <1>1, <1>2, CommittedRow DEF Review
<1>3. CASE f \in Writes(s) /\ reviews'[f] = tx[s].writes[f]
  <2>1. reviews'[f] \in Review  BY <1>3, WrittenType DEF IInv
  <2>2. InPhase(reviews'[f]) /\ reviews'[f].id <= cycles[f]
    BY <1>3 DEF IInv, SessionsOK, SessionOK, WritesInPhase
  <2> QED  BY <1>1, <2>1, <2>2 DEF Review
<1> QED  BY <1>2, <1>3, CommitRow

\* A permission goes with the contests of its holder, and comes before them.
LEMMA ArbitratorsStayEligible ==
  ASSUME IInv, NEW s \in Sessions, Begin(s) \/ Continue(s), Frame(s)
  PROVE  ArbitratorsAreEligible'
<1> SUFFICES ASSUME NEW f \in Fields, NEW u \in Members, f \in Pending(reviews', u)
             PROVE  u \in canArbitrate' /\ u # Owner[f]
  BY DEF ArbitratorsAreEligible, Pending
<1>1. u \in canArbitrate /\ u # Owner[f]
  BY CommitPending DEF IInv, ArbitratorsAreEligible
<1>2. ASSUME u \notin canArbitrate'
      PROVE  FALSE
  <2>1. tx[s].at = "permit" /\ tx[s].op # "enable" /\ u = tx[s].who
    BY <1>1, <1>2 DEF Frame
  <2>2. Permits(s)  BY DEF IInv, SessionsOK, SessionOK
  <2>3. f \in Pending(reviews, u)  BY <2>1, CommitPending
  <2>4. f \in Writes(s) /\ tx[s].writes[f] # Null /\ tx[s].writes[f].arb = Null
    BY <2>1, <2>2, <2>3 DEF Permits
  <2>5. reviews' = Seen(s)  BY <1>1, <1>2, WhoCommits DEF CommitPermission
  <2>6. reviews'[f] = tx[s].writes[f]  BY <2>4, <2>5 DEF Seen, Writes
  <2> QED  BY <2>4, <2>6, ArbitrationAssumption DEF Pending
<1> QED  BY <1>1, <1>2

\* A queue is closed only when no contest waits, and filled with each contest.
LEMMA QueuesStayComplete ==
  ASSUME IInv, NEW s \in Sessions, Begin(s) \/ Continue(s), Frame(s)
  PROVE  ContestsAreInQueue'
<1> SUFFICES ASSUME scope.operations \cap {"revise", "reconcile"} = {},
                    NEW f \in Fields, NEW u \in Members, f \in Pending(reviews', u)
             PROVE  tasks'[u] = "pendente"
  BY DEF ContestsAreInQueue, QueueIsComplete, Pending, Frame
<1>1. tasks \in [Members -> {"none", "pendente", "concluido"}] /\ u # Null
  BY ArbitrationAssumption DEF IInv, TypeOK
<1>2. CASE tx[s].at = "assign" /\ tx[s].arb = u
  BY <1>1, <1>2, WhoCommits DEF AssignTask, WithTask
<1>3. CASE f \in Pending(reviews, u)
  <2>1. tasks[u] = "pendente"  BY <1>3 DEF IInv, ContestsAreInQueue, QueueIsComplete
  <2>2. CASE tasks' = tasks  BY <2>1, <2>2
  <2>3. CASE AssignTask(s)  BY <1>1, <2>1, <2>3 DEF AssignTask, WithTask
  <2>4. CASE CommitPermission(s)
    <3>1. SUFFICES ASSUME DOMAIN tx[s].writes # {}, u = tx[s].who
                   PROVE  FALSE
      BY <1>1, <2>1, <2>4 DEF CommitPermission
    <3>2. tx[s].at = "permit" /\ reviews' = Seen(s) /\ Permits(s)
      BY <2>4 DEF CommitPermission, IInv, SessionsOK, SessionOK
    <3>3. f \in Writes(s) /\ tx[s].writes[f] # Null /\ tx[s].writes[f].arb = Null
      BY <1>3, <3>1, <3>2 DEF Permits, Writes
    <3>4. reviews'[f] = tx[s].writes[f]  BY <3>2, <3>3 DEF Seen, Writes
    <3> QED  BY <1>1, <3>3, <3>4 DEF Pending
  <2>5. CASE CloseTask(s)
    <3>1. tx[s].at = "closing" /\ reviews' = Seen(s) /\ Closes(s)
      BY <2>5 DEF CloseTask, IInv, SessionsOK, SessionOK
    <3>2. u \notin tx[s].victims  BY <3>1 DEF Closes
    <3> QED  BY <2>1, <2>5, <3>2 DEF CloseTask
  <2>6. CASE Sweep(s)
    BY <2>6 DEF Sweep, IInv, SessionsOK, SessionOK, Sweeps
  <2> QED  BY <2>2, <2>3, <2>4, <2>5, <2>6, WhoCommits
<1> QED  BY <1>2, <1>3, CommitPending

-----------------------------------------------------------------------------
\* The theorems.

\* The invariant holds at first.
LEMMA InitIInv == Init => IInv
<1> SUFFICES ASSUME Init PROVE IInv  OBVIOUS
<1>1. TypeOK  BY InitType
<1>2. \A s \in Sessions : tx[s] = Idle /\ Writes(s) = {} /\ tx[s].locks = {}
  BY NothingWritten DEF Init, Idle, Writes
<1>3. Exclusive  BY <1>2 DEF Exclusive
<1>4. \A f \in Fields : /\ reviews[f].arb = Null /\ reviews[f].id = 1 /\ InPhase(reviews[f])
                        /\ cycles[f] = 1
  BY ArbitrationAssumption, NewRow DEF Init
<1>5. RowsInPhase  BY <1>4 DEF RowsInPhase
<1>6. SessionsOK
  <2>1. Idle.at = ""  BY DEF Idle
  <2> QED  BY <1>2, <2>1 DEF SessionsOK, SessionOK, WritesInPhase, Grants, Holds, Picks,
                             Permits, Closes, Sweeps
<1>7. \A u \in Members : Pending(reviews, u) = {}
  BY <1>4, ArbitrationAssumption DEF Pending
<1>8. ArbitratorsAreEligible /\ ContestsAreInQueue
  BY <1>7 DEF ArbitratorsAreEligible, ContestsAreInQueue, QueueIsComplete
<1> QED  BY <1>1, <1>3, <1>5, <1>6, <1>8 DEF IInv

\* A blind verdict changes a row nobody has written, and no queue.
LEMMA BlindStep ==
  ASSUME IInv, NEW u \in Members, NEW f \in Fields, NEW v \in scope.choices,
         SubmitBlind(u, f, v)
  PROVE  IInv'
<1>1. /\ UNCHANGED <<scope, cycles, tasks, canArbitrate, toggles, tx>>
      /\ reviews' = [reviews EXCEPT ![f].blind = v]
      /\ reviews[f] \in Review /\ reviews[f].arb = u /\ reviews[f].blind = Null
      /\ \A s \in Sessions : f \notin Writes(s)
  BY CommittedRow DEF SubmitBlind, BlindOpen, Writes
<1>2. v \in Choices  BY ArbitrationAssumption DEF IInv, TypeOK
<1>3. /\ reviews'[f] \in Review /\ reviews'[f].arb = u /\ reviews'[f].id = reviews[f].id
      /\ reviews'[f].final = reviews[f].final /\ reviews'[f].self = reviews[f].self
      /\ \A g \in Fields \ {f} : reviews'[g] = reviews[g]
      /\ reviews' \in [Fields -> Review \cup {Null}]
  BY <1>1, <1>2 DEF IInv, TypeOK, Review
<1>4. TypeOK'  BY <1>1, <1>3 DEF IInv, TypeOK
<1>5. Exclusive'  BY <1>1 DEF IInv, Exclusive, Writes
<1>6. RowsInPhase'
  <2> SUFFICES ASSUME NEW g \in Fields, reviews'[g] # Null
               PROVE  InPhase(reviews'[g]) /\ reviews'[g].id <= cycles[g]
    BY <1>1 DEF RowsInPhase, InPhase
  <2>1. CASE g # f  BY <2>1, <1>3, CommittedRow
  <2>2. CASE g = f
    BY <2>2, <1>1, <1>3, CommittedRow, ArbitrationAssumption, NullAssumption DEF InPhase
  <2> QED  BY <2>1, <2>2
<1>7. \A w : Pending(reviews', w) = Pending(reviews, w)
  BY <1>1, <1>3, NullAssumption DEF Pending
<1>8. SessionsOK'
  <2> SUFFICES ASSUME NEW s \in Sessions PROVE SessionOK(s)'
    BY DEF SessionsOK
  <2>1. SessionOK(s) /\ \A g \in Writes(s) : g \in Fields /\ reviews'[g] = reviews[g]
    BY <1>1, <1>3, WrittenType DEF IInv, SessionsOK
  <2>2. WritesInPhase(s)' /\ Grants(s)' /\ Picks(s)'
    BY <1>1, <2>1 DEF SessionOK, WritesInPhase, Grants, Picks, Writes
  <2>3. Holds(s)' /\ Sweeps(s)'  BY <1>1, <2>1 DEF SessionOK, Holds, Sweeps
  <2>4. Permits(s)'  BY <1>1, <1>7, <2>1 DEF SessionOK, Permits, Writes
  <2>5. Closes(s)'
    <3>1. \A g \in Fields : \A w : WaitsFor(Seen(s)[g], w)' = WaitsFor(Seen(s)[g], w)
      <4> SUFFICES ASSUME NEW g \in Fields, NEW w
                   PROVE  WaitsFor(Seen(s)[g], w)' = WaitsFor(Seen(s)[g], w)
        OBVIOUS
      <4>1. CASE g \in Writes(s)
        BY <1>1, <4>1 DEF Seen, Writes
      <4>2. CASE g \notin Writes(s)
        <5>1. Seen(s)[g] = reviews[g] /\ Seen(s)'[g] = reviews'[g]
          BY <1>1, <4>2 DEF Seen, Writes
        <5> QED  BY <1>1, <1>3, <5>1, NullAssumption DEF WaitsFor
      <4> QED  BY <4>1, <4>2
    <3>2. \A w : Pending(Seen(s), w)' = Pending(Seen(s), w)
      BY <3>1 DEF Pending, WaitsFor
    <3> QED  BY <1>1, <2>1, <3>2 DEF SessionOK, Closes, FinalLocks
  <2> QED  BY <2>2, <2>3, <2>4, <2>5 DEF SessionOK
<1>9. ArbitratorsAreEligible' /\ ContestsAreInQueue'
  BY <1>1, <1>7 DEF IInv, ArbitratorsAreEligible, ContestsAreInQueue, QueueIsComplete
<1> QED  BY <1>4, <1>5, <1>6, <1>8, <1>9 DEF IInv

\* Every step keeps the invariant.
LEMMA NextIInv == IInv /\ [Next]_vars => IInv'
<1> SUFFICES ASSUME IInv, [Next]_vars PROVE IInv'  OBVIOUS
<1>1. ASSUME NEW s \in Sessions, Begin(s) \/ Continue(s)
      PROVE  IInv'
  <2>1. StepOK(s)  BY <1>1, SessionStep
  <2>2. SessionsOK'  BY <2>1, OthersStand DEF StepOK, SessionsOK
  <2>3. RowsInPhase' /\ ArbitratorsAreEligible' /\ ContestsAreInQueue'
    BY <1>1, <2>1, RowsStayInPhase, ArbitratorsStayEligible, QueuesStayComplete DEF StepOK
  <2> QED  BY <2>1, <2>2, <2>3 DEF StepOK, IInv
<1>2. ASSUME NEW u \in Members, NEW f \in Fields, NEW v \in scope.choices, SubmitBlind(u, f, v)
      PROVE  IInv'
  BY <1>2, BlindStep
<1>3. CASE UNCHANGED vars
  <2> USE <1>3 DEF vars
  <2>1. TypeOK' /\ Exclusive' /\ RowsInPhase'
    BY DEF IInv, TypeOK, Exclusive, RowsInPhase, Writes
  <2>2. ArbitratorsAreEligible' /\ ContestsAreInQueue'
    BY DEF IInv, ArbitratorsAreEligible, ContestsAreInQueue, QueueIsComplete, Pending
  <2>3. ASSUME NEW s \in Sessions PROVE SessionOK(s)'
    <3>1. SessionOK(s)  BY DEF IInv, SessionsOK
    <3>2. WritesInPhase(s)' /\ Grants(s)' /\ Holds(s)' /\ Picks(s)' /\ Sweeps(s)'
      BY <3>1 DEF SessionOK, WritesInPhase, Grants, Holds, Picks, Sweeps, Writes
    <3>3. Permits(s)'  BY <3>1 DEF SessionOK, Permits, Pending, Writes
    <3>4. \A u : Pending(Seen(s), u)' = Pending(Seen(s), u)  BY DEF Pending, Seen
    <3>5. Closes(s)'  BY <3>1, <3>4 DEF SessionOK, Closes, FinalLocks
    <3> QED  BY <3>2, <3>3, <3>5 DEF SessionOK
  <2> QED  BY <2>1, <2>2, <2>3 DEF IInv, SessionsOK
<1> QED  BY <1>1, <1>2, <1>3 DEF Next

\* The inductive invariant.
THEOREM Invariance == Spec => []IInv
<1> QED  BY InitIInv, NextIInv, PTL DEF Spec

\* Every state is well typed, for every number of members, fields and sessions.
THEOREM TypeCorrect == Spec => []TypeOK
<1>1. IInv => TypeOK  BY DEF IInv
<1> QED  BY <1>1, Invariance, PTL

\* While no cycle is deleted, every contest that waits for a member is in the
\* queue his page lists, whatever contests, verdicts, permissions and
\* reassignments run at the same time (issue #582, 20260724110000).
THEOREM QueuesComplete == Spec => []ContestsAreInQueue
<1>1. IInv => ContestsAreInQueue  BY DEF IInv
<1> QED  BY <1>1, Invariance, PTL

\* Nobody holds an undecided contest who may not arbitrate it, or who raised it
\* (set_member_arbitration_permission takes the permission and the cases in one
\* transaction, and assign_arbitration_cycles_if_eligible tests it under the lock).
THEOREM ArbitratorsEligible == Spec => []ArbitratorsAreEligible
<1>1. IInv => ArbitratorsAreEligible  BY DEF IInv
<1> QED  BY <1>1, Invariance, PTL

\* No cycle has a final verdict without a blind one, a blind one without an
\* arbitrator, or an arbitrator without a contest.
THEOREM PhasesOrdered == Spec => []PhasesInOrder
<1>1. IInv => PhasesInOrder  BY DEF IInv, RowsInPhase, InPhase, PhasesInOrder
<1> QED  BY <1>1, Invariance, PTL

\* What an overlapping transaction commits never changes a self verdict or a
\* final verdict that is there, nor gives a case to another arbitrator without
\* taking it from the first.
THEOREM VerdictsAreKept == Spec => VerdictsStand
<1> DEFINE Kept == \A f \in Fields : Stands(reviews[f], reviews'[f])
<1>1. IInv /\ [Next]_vars => [Kept]_vars
  <2> SUFFICES ASSUME IInv, Next PROVE Kept  BY DEF vars
  <2>0. \A f \in Fields : Stands(reviews[f], reviews[f])  BY DEF Stands
  <2>1. ASSUME NEW s \in Sessions, Begin(s) \/ Continue(s), NEW f \in Fields
        PROVE  Stands(reviews[f], reviews'[f])
    <3>1. Frame(s)  BY <2>1, SessionStep DEF StepOK
    <3>2. CASE f \in Writes(s) /\ reviews'[f] = tx[s].writes[f]
      BY <3>2 DEF IInv, SessionsOK, SessionOK, WritesInPhase
    <3> QED  BY <2>0, <2>1, <3>1, <3>2, CommitRow
  <2>2. ASSUME NEW u \in Members, NEW f \in Fields, NEW v \in scope.choices,
               SubmitBlind(u, f, v), NEW g \in Fields
        PROVE  Stands(reviews[g], reviews'[g])
    <3>1. reviews[f] \in Review /\ reviews[f].blind = Null
      BY <2>2, CommittedRow DEF SubmitBlind, BlindOpen
    <3>2. reviews' = [reviews EXCEPT ![f].blind = v] /\ reviews \in [Fields -> Review \cup {Null}]
      BY <2>2 DEF SubmitBlind, IInv, TypeOK
    <3>3. CASE g # f  BY <2>0, <3>2, <3>3
    <3>4. CASE g = f  BY <3>1, <3>2, <3>4 DEF Stands, Review
    <3> QED  BY <3>3, <3>4
  <2> QED  BY <2>1, <2>2 DEF Next
<1>2. [Kept]_vars => [\A f \in Fields :
       reviews[f] # Null /\ reviews'[f] # Null /\ reviews'[f].id = reviews[f].id =>
         /\ reviews[f].self # Null => reviews'[f].self = reviews[f].self
         /\ reviews[f].final # Null => reviews'[f].final = reviews[f].final
         /\ reviews[f].blind # Null =>
              reviews'[f].blind = reviews[f].blind \/ reviews'[f].arb = Null
         /\ reviews[f].arb # Null => reviews'[f].arb \in {reviews[f].arb, Null}]_vars
  BY DEF Stands
<1> QED  BY <1>1, <1>2, Invariance, PTL DEF Spec, VerdictsStand

=============================================================================
