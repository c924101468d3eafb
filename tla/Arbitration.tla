----------------------------- MODULE Arbitration -----------------------------
(***************************************************************************)
(* Arbitration of the contested fields of one document: self-review        *)
(* verdicts, the choice of an arbitrator, blind and final verdicts, the    *)
(* assignments that put a document in an arbitrator's queue, the           *)
(* permission to arbitrate, and the operations that delete cycles.         *)
(*                                                                         *)
(* A session runs one database transaction at a time, under READ           *)
(* COMMITTED.  Its writes are private until it commits; rows it wrote and  *)
(* the locks it took are held until then.  The steps of a transaction are  *)
(* its statements wherever another session's commit in between matters: a  *)
(* statement that decides on a snapshot and writes after waiting for a row *)
(* is two steps.  A step that takes several locks waits for all of them.   *)
(***************************************************************************)
EXTENDS Integers, FiniteSets

CONSTANTS
  Members,     \* rows of project_members
  Fields,      \* fields of the document
  Owner,       \* the coder who self-reviews the cycles of each field
  Coders,      \* members with a response to the document
  Choices,     \* verdicts of an arbitrator: "humano", "llm"
  Scopes,      \* the instances to check, see scope
  Sessions,    \* database sessions
  Null,        \* SQL NULL, or no row
  MaxCycles,   \* bound: cycles of one field
  MaxToggles   \* bound: changes of a permission to arbitrate

ASSUME ArbitrationAssumption ==
  /\ Owner \in [Fields -> Coders]
  /\ Coders \subseteq Members
  /\ Null \notin Members /\ Null \notin Choices
  /\ MaxCycles \in Nat \ {0} /\ MaxToggles \in Nat
  /\ \A s \in Scopes :
       /\ s.members \subseteq Members /\ s.choices \subseteq Choices
       /\ s.operations \subseteq {"contest", "final", "permit", "revise", "reconcile"}

VARIABLES
  scope,       \* members, verdicts and transactions of this instance
  reviews,     \* the row of field_reviews of each field, or Null
  cycles,      \* cycles opened so far per field: the next identity of a row
  tasks,       \* assignments of type 'arbitragem': "none" or their status
  canArbitrate,\* members with can_arbitrate
  toggles,     \* permission changes so far
  tx           \* what each session is doing

vars == <<scope, reviews, cycles, tasks, canArbitrate, toggles, tx>>

-----------------------------------------------------------------------------

\* The verdict "admite_erro" stands for every self verdict that is no contest.
Review == [id : 1..MaxCycles, self : {Null, "admite_erro", "contesta_llm"},
           arb : Members \cup {Null}, blind : Choices \cup {Null},
           final : Choices \cup {Null}]

ASSUME NullAssumption == Null \notin Review \cup {"admite_erro", "contesta_llm"}

\* Mutant: a renewed row keeps the number of the cycle before.
RenumberedLate(n) == [id |-> n - 1, self |-> Null, arb |-> Null, blind |-> Null, final |-> Null]

NewReview(n) == [id |-> n, self |-> Null, arb |-> Null, blind |-> Null, final |-> Null]

\* Advisory locks and rows other than reviews; the rows of field_reviews a
\* session holds are the ones it wrote.
Doc == <<"document", Null>>
ArbitrationLock(u) == <<"arbitration", u>>
Member(u) == <<"member", u>>
Response(h) == <<"response", h>>
Llm == Response(Null)

Idle == [op |-> "idle", at |-> "", who |-> Null, arb |-> Null, writes |-> <<>>,
         locks |-> {}, pool |-> {}, victims |-> {}, todo |-> {}]

Free(s, locks, rows) ==
  \A t \in Sessions \ {s} :
    locks \cap tx[t].locks = {} /\ rows \cap DOMAIN tx[t].writes = {}

\* What the session sees: the committed rows and its own writes.
Seen(s) == [f \in Fields |->
  IF f \in DOMAIN tx[s].writes THEN tx[s].writes[f] ELSE reviews[f]]

Rows(h) == {f \in Fields : Owner[f] = h /\ reviews[f] # Null}

\* A contest that waits for the verdict of u.
Pending(table, u) ==
  {f \in Fields : table[f] # Null /\ table[f].arb = u /\ table[f].final = Null}

\* INSERT ... ON CONFLICT DO UPDATE ... WHERE status = 'concluido'.
WithTask(u) == [tasks EXCEPT ![u] = "pendente"]

Become(s, state) == tx' = [tx EXCEPT ![s] = state]

\* Of some members, those who come first: the ones who did not code the
\* document.  The order by open load is left open.
Preferred(members) ==
  IF members \subseteq Coders THEN members ELSE members \ Coders

\* Members who may arbitrate a contest of h.
Eligible(h) == canArbitrate \ {h}

-----------------------------------------------------------------------------
\* submit_auto_review_verdicts.

\* Mutant: a second submission may change the verdict of the first.
DecidesAnew(f, v) == TRUE

Decides(f, v) == reviews[f].self \in {Null, v}

\* The rows are locked and decided under the document's lock, and candidates
\* are read if some contested row has no arbitrator.
Contest(s, h) ==
  /\ "contest" \in scope.operations /\ tx[s] = Idle
  /\ \E rows \in (SUBSET Rows(h)) \ {{}} : \E contested \in SUBSET rows :
       LET decided(f) == IF f \in contested THEN "contesta_llm" ELSE "admite_erro"
           orphans == {f \in contested : reviews[f].arb = Null}
       IN  /\ Free(s, {Doc}, rows)
           /\ \A f \in rows : Decides(f, decided(f))
           /\ Become(s, [Idle EXCEPT
                !.op = "contest", !.at = "pick", !.who = h, !.locks = {Doc},
                !.pool = IF orphans = {} THEN {} ELSE Eligible(h),
                !.writes = [f \in rows |-> [reviews[f] EXCEPT !.self = decided(f)]]])
  /\ UNCHANGED <<scope, reviews, cycles, tasks, canArbitrate, toggles>>

\* Mutant: the permission is the one read with the candidates.
KeepCandidate(u) == TRUE

\* FOR UPDATE OF member: the row is tested again once it is locked, and the
\* next of the candidates read is tried when this one lost the permission.
StillEligible(u) == u \in canArbitrate

PickArbitrator(s) ==
  LET written == tx[s].writes
      chosen(r, u) == IF r.self = "contesta_llm" /\ r.arb = Null
                      THEN [r EXCEPT !.arb = u] ELSE r
  IN  /\ tx[s].op = "contest" /\ tx[s].at = "pick"
      /\ \/ /\ tx[s].pool = {}
            /\ Become(s, [tx[s] EXCEPT !.at = "assign"])
         \/ \E u \in Preferred(tx[s].pool) :
              /\ Free(s, {Member(u)}, {})
              /\ Become(s,
                   IF StillEligible(u)
                   THEN [tx[s] EXCEPT
                          !.at = "assign", !.arb = u, !.pool = {},
                          !.locks = @ \cup {Member(u)},
                          !.writes = [f \in DOMAIN written |-> chosen(written[f], u)]]
                   ELSE [tx[s] EXCEPT !.pool = @ \ {u},
                                      !.locks = @ \cup {Member(u)}])
      /\ UNCHANGED <<scope, reviews, cycles, tasks, canArbitrate, toggles>>

\* The document enters, or enters again, the queue of the arbitrator; commit.
AssignTask(s) ==
  /\ tx[s].at = "assign"
  /\ tasks' = IF tx[s].arb = Null THEN tasks ELSE WithTask(tx[s].arb)
  /\ reviews' = Seen(s)
  /\ Become(s, IF tx[s].todo = {} THEN Idle
              ELSE [Idle EXCEPT !.op = "retry", !.at = "choose", !.todo = tx[s].todo])
  /\ UNCHANGED <<scope, cycles, canArbitrate, toggles>>

-----------------------------------------------------------------------------
\* setCanArbitrate: set_member_arbitration_permission, then
\* retryPendingArbitrations with one assign_arbitration_cycles_if_eligible per
\* self reviewer.

Released(u, enabled) ==
  IF enabled THEN {}
  ELSE {f \in Pending(reviews, u) : reviews[f].self = "contesta_llm"}

\* Mutant: the blind verdict of the former arbitrator stays.
ReleaseArbitratorOnly(r) == [r EXCEPT !.arb = Null]

Release(r) == [r EXCEPT !.arb = Null, !.blind = Null]

SetPermission(s, u, enabled) ==
  /\ "permit" \in scope.operations /\ tx[s] = Idle /\ toggles < MaxToggles
  /\ Free(s, {Member(u)}, Released(u, enabled))
  /\ toggles' = toggles + 1
  /\ Become(s, [Idle EXCEPT
       !.op = IF enabled THEN "enable" ELSE "disable", !.at = "permit", !.who = u,
       !.locks = {Member(u)},
       !.writes = [f \in Released(u, enabled) |-> Release(reviews[f])]])
  /\ UNCHANGED <<scope, reviews, cycles, tasks, canArbitrate>>

CommitPermission(s) ==
  LET u == tx[s].who IN
  /\ tx[s].at = "permit"
  /\ canArbitrate' = IF tx[s].op = "enable"
                     THEN canArbitrate \cup {u} ELSE canArbitrate \ {u}
  /\ tasks' = IF DOMAIN tx[s].writes # {} /\ tasks[u] = "pendente"
              THEN [tasks EXCEPT ![u] = "none"] ELSE tasks
  /\ reviews' = Seen(s)
  /\ Become(s, [Idle EXCEPT !.op = "retry", !.at = "read"])
  /\ UNCHANGED <<scope, cycles, toggles>>

\* The contests without arbitrator, read outside of any transaction.
ReadContests(s) ==
  LET orphans == {f \in Fields : /\ reviews[f] # Null
                                 /\ reviews[f].self = "contesta_llm"
                                 /\ reviews[f].arb = Null}
  IN  /\ tx[s].op = "retry" /\ tx[s].at = "read"
      /\ Become(s, IF orphans = {} THEN Idle ELSE
           [tx[s] EXCEPT !.at = "choose",
                         !.todo = {<<f, reviews[f].id>> : f \in orphans}])
      /\ UNCHANGED <<scope, reviews, cycles, tasks, canArbitrate, toggles>>

\* The group of one self reviewer, and a candidate among the members read now.
Group(s, h) == {c \in tx[s].todo : Owner[c[1]] = h}

ChooseArbitrator(s, h) ==
  /\ tx[s].at = "choose" /\ Group(s, h) # {}
  /\ \E u \in IF Eligible(h) = {} THEN {Null} ELSE Preferred(Eligible(h)) :
       Become(s, IF u # Null
                THEN [tx[s] EXCEPT !.at = "call", !.who = h, !.arb = u]
                ELSE IF tx[s].todo = Group(s, h) THEN Idle
                     ELSE [tx[s] EXCEPT !.todo = @ \ Group(s, h)])
  /\ UNCHANGED <<scope, reviews, cycles, tasks, canArbitrate, toggles>>

\* The rows the UPDATE of assign_arbitration_cycles_if_eligible still matches.
Assignable(f, id, u) ==
  /\ reviews[f] # Null /\ reviews[f].id = id
  /\ reviews[f].self = "contesta_llm" /\ reviews[f].arb = Null
  /\ reviews[f].final = Null /\ Owner[f] # u

AssignLocks(u) == {Member(u), ArbitrationLock(u)}

AssignCycles(s) ==
  LET u == tx[s].arb
      group == Group(s, tx[s].who)
      rest == tx[s].todo \ group
      matched == {c[1] : c \in {x \in group : Assignable(x[1], x[2], u)}}
  IN  /\ tx[s].at = "call"
      /\ Free(s, AssignLocks(u), {c[1] : c \in group})
      /\ Become(s,
           IF u \in canArbitrate /\ matched # {}
           THEN [tx[s] EXCEPT !.at = "assign", !.todo = rest, !.locks = AssignLocks(u),
                  !.writes = [f \in matched |-> [reviews[f] EXCEPT !.arb = u]]]
           ELSE IF rest = {} THEN Idle
                ELSE [Idle EXCEPT !.op = "retry", !.at = "choose", !.todo = rest])
      /\ UNCHANGED <<scope, reviews, cycles, tasks, canArbitrate, toggles>>

-----------------------------------------------------------------------------
\* Verdicts of the arbitrator.

BlindOpen(f, u) == reviews[f].arb = u /\ reviews[f].blind = Null

\* submitBlindVerdicts: one independent UPDATE per field, some of which may
\* fail; a repetition matches no row.
SubmitBlind(u, f, v) ==
  /\ "final" \in scope.operations /\ reviews[f] # Null
  /\ BlindOpen(f, u)
  /\ \A s \in Sessions : f \notin DOMAIN tx[s].writes
  /\ reviews' = [reviews EXCEPT ![f].blind = v]
  /\ UNCHANGED <<scope, cycles, tasks, canArbitrate, toggles, tx>>

\* Mutant: the close takes the document's lock only.
FinalLocksDocument(u) == {Doc}

\* submit_final_review_verdicts takes the locks of both creators of contests.
FinalLocks(u) == {Doc, ArbitrationLock(u)}

SubmitFinal(s, u) ==
  /\ "final" \in scope.operations /\ tx[s] = Idle
  /\ \E rows \in (SUBSET Pending(reviews, u)) \ {{}}, v \in scope.choices :
       /\ \A f \in rows : reviews[f].blind # Null
       /\ Free(s, FinalLocks(u), rows)
       /\ Become(s, [Idle EXCEPT
            !.op = "final", !.at = "close", !.who = u, !.locks = FinalLocks(u),
            !.writes = [f \in rows |-> [reviews[f] EXCEPT !.final = v]]])
  /\ UNCHANGED <<scope, reviews, cycles, tasks, canArbitrate, toggles>>

\* The closing UPDATE: what it decides on its snapshot, and what it writes.
DecideClose(s) ==
  /\ tx[s].op = "final" /\ tx[s].at = "close"
  /\ Become(s, [tx[s] EXCEPT !.at = "closing",
       !.victims = {u \in {tx[s].who} :
                      tasks[u] # "none" /\ Pending(Seen(s), u) = {}}])
  /\ UNCHANGED <<scope, reviews, cycles, tasks, canArbitrate, toggles>>

CloseTask(s) ==
  /\ tx[s].at = "closing"
  /\ tasks' = [u \in Members |-> IF u \in tx[s].victims /\ tasks[u] # "none"
                                 THEN "concluido" ELSE tasks[u]]
  /\ reviews' = Seen(s)
  /\ Become(s, Idle)
  /\ UNCHANGED <<scope, cycles, canArbitrate, toggles>>

-----------------------------------------------------------------------------
\* What deletes and renews cycles.

\* A save of coder h, or an LLM publication (Null), changes answers: the
\* archiving trigger deletes the cycles whose snapshots changed.
Revise(s, h) ==
  /\ "revise" \in scope.operations /\ tx[s] = Idle
  /\ \E gone \in SUBSET {f \in Fields : reviews[f] # Null /\ h \in {Null, Owner[f]}} :
       /\ Free(s, {Response(h)}, gone)
       /\ Become(s, [Idle EXCEPT !.op = "revise", !.at = "sweep", !.who = h,
                      !.locks = {Response(h)}, !.writes = [f \in gone |-> Null]])
  /\ UNCHANGED <<scope, reviews, cycles, tasks, canArbitrate, toggles>>

\* reconcile_auto_review_cycles of coder h: cycles deleted, renewed, opened.
Reconcile(s, h) ==
  /\ "reconcile" \in scope.operations /\ tx[s] = Idle
  /\ \E gone, opened \in SUBSET {f \in Fields : Owner[f] = h} :
       LET locks == {Response(h), Llm, Doc}
           rows == gone \cup opened
       IN  /\ gone \subseteq Rows(h) /\ gone \cap opened = {} /\ rows # {}
           /\ \A f \in opened : cycles[f] < MaxCycles
           /\ Free(s, locks, rows)
           /\ cycles' = [f \in Fields |-> cycles[f] + IF f \in opened THEN 1 ELSE 0]
           /\ Become(s, [Idle EXCEPT
                !.op = "reconcile", !.at = "sweep", !.who = h, !.locks = locks,
                !.writes = [f \in rows |-> IF f \in gone THEN Null
                                           ELSE NewReview(cycles[f] + 1)]])
  /\ UNCHANGED <<scope, reviews, tasks, canArbitrate, toggles>>

\* Both end with a DELETE of the open arbitration assignments without pending
\* review: what it decides on its snapshot, and what it deletes.
DecideSweep(s) ==
  /\ tx[s].at = "sweep"
  /\ Become(s, [tx[s] EXCEPT !.at = "sweeping", !.victims =
       {u \in Members : tasks[u] = "pendente" /\ Pending(Seen(s), u) = {}}])
  /\ UNCHANGED <<scope, reviews, cycles, tasks, canArbitrate, toggles>>

Sweep(s) ==
  /\ tx[s].at = "sweeping"
  /\ tasks' = [u \in Members |-> IF u \in tx[s].victims /\ tasks[u] = "pendente"
                                 THEN "none" ELSE tasks[u]]
  /\ reviews' = Seen(s)
  /\ Become(s, Idle)
  /\ UNCHANGED <<scope, cycles, canArbitrate, toggles>>

-----------------------------------------------------------------------------

Init ==
  /\ scope \in Scopes
  /\ reviews = [f \in Fields |-> NewReview(1)]
  /\ cycles = [f \in Fields |-> 1]
  /\ tasks = [u \in Members |-> "none"]
  /\ canArbitrate \in SUBSET scope.members
  /\ toggles = 0
  /\ tx = [s \in Sessions |-> Idle]

Begin(s) ==
  \/ \E h \in Coders : Contest(s, h) \/ Reconcile(s, h)
  \/ \E h \in Coders \cup {Null} : Revise(s, h)
  \/ \E u \in Members : SubmitFinal(s, u)
  \/ \E u \in scope.members, enabled \in BOOLEAN : SetPermission(s, u, enabled)

Continue(s) ==
  \/ PickArbitrator(s) \/ AssignTask(s)
  \/ CommitPermission(s) \/ ReadContests(s) \/ AssignCycles(s)
  \/ \E h \in Coders : ChooseArbitrator(s, h)
  \/ DecideClose(s) \/ CloseTask(s)
  \/ DecideSweep(s) \/ Sweep(s)

Next ==
  \/ \E s \in Sessions : Begin(s) \/ Continue(s)
  \/ \E u \in Members, f \in Fields, v \in scope.choices : SubmitBlind(u, f, v)

Spec == Init /\ [][Next]_vars

-----------------------------------------------------------------------------
\* Properties.

Locks == {"document", "arbitration", "member", "response"} \X (Members \cup {Null})

Written == UNION {[D -> Review \cup {Null}] : D \in SUBSET Fields}

Transaction ==
  [op : {"idle", "contest", "enable", "disable", "retry", "final", "revise", "reconcile"},
   at : {"", "pick", "assign", "permit", "read", "choose", "call", "close", "closing",
         "sweep", "sweeping"},
   who : Members \cup {Null}, arb : Members \cup {Null},
   writes : Written,
   locks : SUBSET Locks, pool : SUBSET Members, victims : SUBSET Members,
   todo : SUBSET (Fields \X (1..MaxCycles))]

TypeOK ==
  /\ scope \in Scopes
  /\ reviews \in [Fields -> Review \cup {Null}]
  /\ cycles \in [Fields -> 0..MaxCycles]
  /\ tasks \in [Members -> {"none", "pendente", "concluido"}]
  /\ canArbitrate \subseteq Members
  /\ toggles \in 0..MaxToggles
  /\ tx \in [Sessions -> Transaction]

\* A contest that waits for a member's verdict is in that member's queue: the
\* arbitration page lists the open assignments (issue #582, 20260724110000).
QueueIsComplete ==
  \A f \in Fields, u \in Members :
    f \in Pending(reviews, u) => tasks[u] = "pendente"

\* The queue is complete while contests, verdicts and permissions race, as long
\* as nothing deletes cycles: the final sweep of a deletion takes no lock that
\* stops a contest (see arbitration_gaps.cfg).
ContestsAreInQueue ==
  scope.operations \cap {"revise", "reconcile"} = {} => QueueIsComplete

\* Whoever holds an undecided contest may arbitrate now, and does not judge his
\* own answer, whatever permissions changed meanwhile (assignArbitrator).
ArbitratorsAreEligible ==
  \A f \in Fields, u \in Members :
    f \in Pending(reviews, u) => u \in canArbitrate /\ u # Owner[f]

\* The phases of a cycle come in order: contest, arbitrator, blind, final.
PhasesInOrder ==
  \A f \in Fields : reviews[f] # Null =>
    /\ reviews[f].final # Null => reviews[f].blind # Null
    /\ reviews[f].blind # Null => reviews[f].arb # Null
    /\ reviews[f].arb # Null => reviews[f].self = "contesta_llm"

\* While a cycle lives, its self verdict and its final verdict stand, and its
\* blind verdict stands until the case is taken from its arbitrator.
VerdictsStand ==
  [][\A f \in Fields :
       reviews[f] # Null /\ reviews'[f] # Null /\ reviews'[f].id = reviews[f].id =>
         /\ reviews[f].self # Null => reviews'[f].self = reviews[f].self
         /\ reviews[f].final # Null => reviews'[f].final = reviews[f].final
         /\ reviews[f].blind # Null =>
              reviews'[f].blind = reviews[f].blind \/ reviews'[f].arb = Null
         /\ reviews[f].arb # Null => reviews'[f].arb \in {reviews[f].arb, Null}]_vars

\* When nothing runs, no contest is left without arbitrator although a member
\* could arbitrate it: enabling a member drains the contests that had none
\* (setCanArbitrate).
NoContestForgotten ==
  (\A s \in Sessions : tx[s] = Idle) =>
    \A f \in Fields : reviews[f] # Null /\ reviews[f].self = "contesta_llm"
                        /\ reviews[f].arb = Null => Eligible(Owner[f]) = {}

=============================================================================
