---------------------------- MODULE IdentityProofs ----------------------------
(***************************************************************************)
(* Theorems about Identity, for every value of its constants.              *)
(*                                                                         *)
(* A link resolves to the user of an account because a snapshot said so,   *)
(* or because a coordinator's action found that account and proved, when   *)
(* it wrote, that the snapshot it was found by is the one applied last.    *)
(* The invariant says of each task which snapshot of which account it      *)
(* works with, and that this account, mapped once, keeps its user.         *)
(* A second invariant says who cuts an account that is deleted while it    *)
(* is being mapped.                                                        *)
(***************************************************************************)
EXTENDS Identity, TLAPS

\* A state of the account at Clerk that was published.
Published(a, v) == v \in 1..Version(a)

\* The identity a task works for is the one its account is mapped to.
Acts(c) == mapping[c.account] # None /\ c.user = mapping[c.account].user

Reading == {"mapping", "claim", "create", "reclaim", "begin", "complete", "publish"}

\* What a task c relies on, of Clerk and of the mapping.
Sound(c) ==
  /\ c.at \in Reading \union {"reload", "revoke", "unlink"} => c.account \in Accounts
  /\ c.at = "reload" => Published(c.account, 1)
  /\ c.at = "lookup" => c.proof = None
  /\ c.at \in Reading =>
       /\ Published(c.account, c.version)
       /\ c.kind \notin {"webhook", "access"} => c.email \in Verified(c.account, c.version)
  /\ c.at \in {"claim", "create", "reclaim"} => HasIdentity(c.account, c.version)
  /\ c.at \in {"begin", "complete", "publish", "unlink"} => Acts(c)
  /\ c.at \in {"decide", "write"} /\ c.proof # None =>
       /\ c.account \in Accounts /\ Acts(c)
       /\ Published(c.account, c.proof) /\ c.email \in Verified(c.account, c.proof)

\* What is read for a call is of its kind, and its e-mail and its members exist.
Fits(c) ==
  /\ c.at \in {"lookup", "decide", "write"} => c.kind \notin {"webhook", "access"}
  /\ c.kind \notin {"webhook", "access"} => c.email \in Emails
  /\ c.kind = "add" => c.seen \in ProfileSeen
  /\ c.kind = "link" => c.seen \in LinkSeen
  /\ c.kind \in {"link", "unify", "correct"} => c.member \in Users
  /\ c.kind = "unify" => c.source \in Users

TasksOK == \A t \in Tasks : task[t] # NoTask => Sound(task[t]) /\ Fits(task[t])

\* A webhook is about an account that has signed up.
EventsOK == \A event \in events : Published(event[1], 1)

\* An identity has one account.
MappedOnce ==
  \A a, b \in Accounts :
    mapping[a] # None /\ mapping[b] # None /\ mapping[a].user = mapping[b].user => a = b

\* What an account is mapped to has a profile.
MappedAreRegistered == Mapped \subseteq Registered

\* What is ready was granted by a published snapshot, and was not revoked.
ReadyIsGranted ==
  \A a \in Accounts : Ready(a) =>
    ~mapping[a].deleted /\ Published(a, mapping[a].version)

IInv ==
  /\ TypeOK
  /\ TasksOK
  /\ EventsOK
  /\ MappedOnce
  /\ MappedAreRegistered
  /\ ReadyIsGranted
  /\ ReadyMeansApplied
  /\ Terminal(links, members)

-----------------------------------------------------------------------------
\* What every step keeps, and what of it concerns the other tasks.

\* Published states stay, and a mapping keeps its identity, its last version and
\* its revocation.
Grows ==
  \A a \in Accounts :
    /\ Version(a)' \in Nat /\ Version(a) <= Version(a)'
    /\ \A v \in 1..Version(a) : snapshots'[a][v] = snapshots[a][v]
    /\ mapping[a] # None =>
         /\ mapping'[a] # None
         /\ mapping'[a].user = mapping[a].user
         /\ mapping[a].version <= mapping'[a].version
         /\ mapping[a].deleted => mapping'[a].deleted

\* No profile is deleted.
ProfilesGrow ==
  profiles' \in [Users -> Profile \union {None}] /\ Registered \subseteq Registered'

Secure ==
  /\ MappedOnce /\ MappedAreRegistered
  /\ ReadyIsGranted /\ ReadyMeansApplied /\ Terminal(links, members)

\* A running task.
LEMMA RunningTask ==
  ASSUME TypeOK, NEW t \in Tasks
  PROVE  /\ Is(t, "idle") <=> task[t] = NoTask
         /\ ~Is(t, "idle") => task[t] \in Running
BY DEF TypeOK, Running, NoTask, Is

\* The rows of an account.
LEMMA AccountRows ==
  ASSUME TypeOK, NEW a \in Accounts
  PROVE  /\ snapshots[a] \in Seq(Snapshot) /\ Version(a) \in Nat
         /\ mapping[a] # None => mapping[a] \in Mapping
         /\ \A v \in 1..Version(a) : snapshots[a][v] \in Snapshot
BY DEF TypeOK, Version

\* Most steps change no profile.
LEMMA SameProfiles ==
  ASSUME TypeOK, profiles' = profiles
  PROVE  ProfilesGrow
BY DEF TypeOK, ProfilesGrow, Registered

\* Nothing of Clerk and no mapping changes.
LEMMA SameGrows ==
  ASSUME TypeOK, UNCHANGED <<snapshots, mapping>>
  PROVE  Grows
<1> SUFFICES ASSUME NEW a \in Accounts
             PROVE  /\ Version(a) \in Nat /\ Version(a) <= Version(a)
                    /\ mapping[a] # None => mapping[a].version <= mapping[a].version
  BY DEF Grows, Version
<1> QED  BY AccountRows DEF Mapping

\* An account gets one more state.
LEMMA PublishesGrows ==
  ASSUME TypeOK, NEW a \in Accounts, NEW snapshot \in Snapshot, mapping' = mapping,
         snapshots' = [snapshots EXCEPT ![a] = Append(@, snapshot)]
  PROVE  Grows /\ snapshots' \in [Accounts -> Seq(Snapshot)]
<1>1. snapshots' \in [Accounts -> Seq(Snapshot)]  BY DEF TypeOK
<1>2. ASSUME NEW b \in Accounts
      PROVE  /\ Version(b)' \in Nat /\ Version(b) <= Version(b)'
             /\ \A v \in 1..Version(b) : snapshots'[b][v] = snapshots[b][v]
             /\ mapping[b] # None => mapping[b].version <= mapping[b].version
  <2>1. CASE b = a  BY <2>1, AccountRows DEF TypeOK, Version, Mapping
  <2>2. CASE b # a  BY <2>2, AccountRows DEF TypeOK, Version, Mapping
  <2> QED  BY <2>1, <2>2
<1>3. Grows  BY <1>2 DEF Grows
<1> QED  BY <1>1, <1>3

\* What a task relies on stays true while others work.
LEMMA SoundGrows ==
  ASSUME IInv, Grows, NEW c, Sound(c)
  PROVE  Sound(c)'
<1>1. \A a \in Accounts : \A v : Published(a, v) =>
        /\ Published(a, v)' /\ Verified(a, v)' = Verified(a, v)
        /\ HasIdentity(a, v)' = HasIdentity(a, v)
  <2> SUFFICES ASSUME NEW a \in Accounts, NEW v \in 1..Version(a)
               PROVE  /\ v \in 1..Version(a)' /\ snapshots'[a][v] = snapshots[a][v]
    BY DEF Published, Verified, HasIdentity
  <2> QED  BY AccountRows DEF Grows, IInv
<1>2. \A a \in Accounts : mapping[a] # None =>
        mapping'[a] # None /\ mapping'[a].user = mapping[a].user
  BY DEF Grows
<1> QED  BY <1>1, <1>2 DEF Sound, Acts, Reading

\* So the step of a task is judged by its own state, or by none.
LEMMA TaskStep ==
  ASSUME IInv, Grows, NEW t \in Tasks, NEW c, task' = [task EXCEPT ![t] = c],
         c # NoTask => Sound(c)' /\ Fits(c)
  PROVE  TasksOK'
<1>0. \A x : Sound(task[x])' <=> \A d : d = task'[x] => Sound(d)'
  BY DEF Sound, Acts, Reading, Published, Verified, HasIdentity, Version
<1> SUFFICES ASSUME NEW x \in Tasks, task'[x] # NoTask
             PROVE  (\A d : d = task'[x] => Sound(d)') /\ Fits(task'[x])
  BY <1>0 DEF TasksOK, Fits
<1>1. CASE x = t
  <2>1. task'[x] = c  BY <1>1 DEF IInv, TypeOK
  <2> QED  BY <2>1
<1>2. CASE x # t
  <2>1. task'[x] = task[x]  BY <1>2 DEF IInv, TypeOK
  <2>2. Sound(task[x]) /\ Fits(task[x])  BY <2>1 DEF IInv, TasksOK
  <2> QED  BY <2>1, <2>2, SoundGrows DEF Fits
<1> QED  BY <1>1, <1>2

\* A step of no task.
LEMMA IdleTasks ==
  ASSUME IInv, Grows, task' = task
  PROVE  TasksOK'
<1> SUFFICES ASSUME NEW x \in Tasks, task[x] # NoTask
             PROVE  Sound(task[x])' /\ Fits(task[x])'
  BY DEF TasksOK
<1> QED  BY SoundGrows DEF IInv, TasksOK, Fits

\* A step that leaves the mapping, the links and the members alone.
LEMMA SameSecure ==
  ASSUME IInv, Grows, ProfilesGrow, UNCHANGED <<mapping, links, members>>
  PROVE  Secure'
<1>1. MappedOnce' /\ Terminal(links, members)'
  BY DEF IInv, MappedOnce, Terminal, ResolvedTo
<1>4. MappedAreRegistered'  BY DEF IInv, MappedAreRegistered, ProfilesGrow, Mapped
<1>2. ReadyIsGranted'
  <2> SUFFICES ASSUME NEW a \in Accounts, Ready(a)
               PROVE  ~mapping[a].deleted /\ mapping[a].version \in 1..Version(a)'
    BY DEF ReadyIsGranted, Ready, Published
  <2>1. ~mapping[a].deleted /\ mapping[a].version \in 1..Version(a)
    BY DEF IInv, ReadyIsGranted, Published
  <2> QED  BY <2>1, AccountRows DEF Grows, IInv
<1>3. ReadyMeansApplied'
  <2> SUFFICES ASSUME NEW a \in Accounts, Ready(a)
               PROVE  ResolvedTo(mapping[a].user, links) \subseteq Verified(a, mapping[a].version)'
    BY DEF ReadyMeansApplied, Ready, ResolvedTo
  <2>1. mapping[a].version \in 1..Version(a)  BY DEF IInv, ReadyIsGranted, Published
  <2>2. Verified(a, mapping[a].version)' = Verified(a, mapping[a].version)
    BY <2>1 DEF Grows, Verified, HasIdentity
  <2> QED  BY <2>2 DEF IInv, ReadyMeansApplied
<1> QED  BY <1>1, <1>2, <1>3, <1>4 DEF Secure

-----------------------------------------------------------------------------
\* The steps.

Kept == TypeOK' /\ Grows /\ TasksOK' /\ EventsOK' /\ Secure'

\* Webhooks stay about accounts that have signed up.
LEMMA EventsGrow ==
  ASSUME IInv, Grows,
         \A event \in events' : event \in events \/ (event[1] \in Accounts /\ Published(event[1], 1)')
  PROVE  EventsOK'
<1> SUFFICES ASSUME NEW event \in events'
             PROVE  Published(event[1], 1)'
  BY DEF EventsOK
<1>1. CASE event \in events
  <2>1. event[1] \in Accounts /\ Published(event[1], 1)  BY <1>1 DEF IInv, TypeOK, EventsOK
  <2> QED  BY <2>1, AccountRows DEF Grows, Published, IInv
<1> QED  BY <1>1

\* What happens at Clerk.
LEMMA PublishStep ==
  ASSUME IInv, NEW a \in scope.accounts, NEW snapshot \in Snapshot, Publishes(a, snapshot), AtClerk,
         UNCHANGED <<scope, deleted, profiles, mapping, members, links, task, refused, calls, faults>>
  PROVE  Kept
<1>1. a \in Accounts  BY IdentityAssumption DEF IInv, TypeOK
<1>2. Grows /\ snapshots' \in [Accounts -> Seq(Snapshot)]
  BY <1>1, PublishesGrows DEF Publishes, IInv
<1>3. events' \subseteq Accounts \X Nat
  BY <1>1, AccountRows DEF Publishes, IInv, TypeOK
<1>4. changes' \in Nat  BY DEF AtClerk, IInv, TypeOK
<1>5. TypeOK'  BY <1>2, <1>3, <1>4 DEF IInv, TypeOK
<1>6. Published(a, 1)'
  BY <1>1, AccountRows DEF Publishes, IInv, TypeOK, Published, Version
<1>7. EventsOK'  BY <1>1, <1>2, <1>6, EventsGrow DEF Publishes
<1> QED  BY <1>2, <1>5, <1>7, SameProfiles, IdleTasks, SameSecure DEF IInv, Kept

\* Whatever happens to an account at Clerk is kept as one more published state of it.
LEMMA ClerkStep ==
  ASSUME IInv, Clerk
  PROVE  Kept
<1>1. PICK a \in scope.accounts :
        \/ DeleteAccount(a)
        \/ \E e \in scope.emails : SignUp(a, e) \/ VerifyEmail(a, e) \/ RemoveEmail(a, e)
  BY DEF Clerk
<1>2. a \in Accounts /\ TypeOK  BY IdentityAssumption DEF IInv, TypeOK
<1>3. CASE DeleteAccount(a)
  <2>1. Grows  BY <1>2, <1>3, SameGrows DEF DeleteAccount, database
  <2>2. TypeOK'
    BY <1>2, <1>3 DEF DeleteAccount, AtClerk, TypeOK, database
  <2>3. Published(a, 1)'
    BY <1>2, <1>3, AccountRows DEF DeleteAccount, Alive, Published, Version
  <2>4. EventsOK'  BY <1>2, <1>3, <2>1, <2>3, EventsGrow DEF DeleteAccount
  <2>5. ProfilesGrow  BY <1>2, <1>3, SameProfiles DEF DeleteAccount, database
  <2> QED  BY <1>3, <2>1, <2>2, <2>4, <2>5, IdleTasks, SameSecure DEF DeleteAccount, database, Kept
<1>4. ASSUME NEW e \in scope.emails, SignUp(a, e) PROVE Kept
  <2>1. e \in Emails  BY IdentityAssumption DEF IInv, TypeOK
  <2>2. [primary |-> e, verified |-> {e}, uid |-> None] \in Snapshot  BY <2>1 DEF Snapshot
  <2> QED  BY <1>4, <2>2, PublishStep DEF SignUp, database
<1>5. ASSUME NEW e \in scope.emails, VerifyEmail(a, e) PROVE Kept
  <2>1. e \in Emails  BY IdentityAssumption DEF IInv, TypeOK
  <2>2. snapshots[a][Version(a)] \in Snapshot  BY <1>2, <1>5, AccountRows DEF VerifyEmail, Alive
  <2>3. [snapshots[a][Version(a)] EXCEPT !.verified = @ \union {e}] \in Snapshot
    BY <2>1, <2>2 DEF Snapshot
  <2> QED  BY <1>5, <2>3, PublishStep DEF VerifyEmail, database
<1>6. ASSUME NEW e \in scope.emails, RemoveEmail(a, e) PROVE Kept
  <2> DEFINE now == snapshots[a][Version(a)]
             left == now.verified \ {e}
  <2>1. now \in Snapshot  BY <1>2, <1>6, AccountRows DEF RemoveEmail, Alive
  <2>2. PICK p \in left \union {None, now.primary} :
          Publishes(a, [now EXCEPT !.verified = left, !.primary = p])
    BY <1>6 DEF RemoveEmail
  <2>3. [now EXCEPT !.verified = left, !.primary = p] \in Snapshot
    BY <2>1 DEF Snapshot
  <2> HIDE DEF now, left
  <2> QED  BY <1>6, <2>2, <2>3, PublishStep DEF RemoveEmail, database
<1> QED  BY <1>1, <1>3, <1>4, <1>5, <1>6

\* A step that moves a task and touches neither Clerk nor the mapping.
LEMMA TaskOnly ==
  ASSUME IInv, NEW t \in Tasks, NEW c \in Running \union {NoTask},
         task' = [task EXCEPT ![t] = c], c # NoTask => Sound(c) /\ Fits(c),
         UNCHANGED <<scope, snapshots, deleted, mapping, members, links>>,
         events' \subseteq events, ProfilesGrow,
         refused' \subseteq Accounts, changes' \in Nat, calls' \in Nat, faults' \in Nat
  PROVE  Kept
<1>1. Grows  BY SameGrows DEF IInv
<1>2. TypeOK'  BY DEF IInv, TypeOK, ProfilesGrow
<1>3. c # NoTask => Sound(c)'  BY <1>1, SoundGrows
<1>4. TasksOK'  BY <1>1, <1>3, TaskStep
<1>5. Secure' /\ EventsOK'  BY <1>1, SameSecure, EventsGrow
<1> QED  BY <1>1, <1>2, <1>4, <1>5 DEF Kept

\* Deliveries and pages start without knowing anything.
LEMMA StartStep ==
  ASSUME IInv, NEW t \in Tasks,
         \/ \E event \in events : Deliver(t, event)
         \/ \E a \in scope.accounts : CompleteAccess(t, a)
  PROVE  Kept
<1>1. PICK kind \in {"webhook", "access"}, a \in Accounts, n \in Nat, place \in {"revoke", "reload"} :
        /\ Published(a, 1)
        /\ task' = [task EXCEPT ![t] = Began(kind, <<a, n>>, place)]
        /\ calls' \in Nat
        /\ UNCHANGED <<scope, clerk, database, refused, changes, faults>>
  <2>1. CASE \E event \in events : Deliver(t, event)
    <3>1. PICK event \in events : Deliver(t, event)  BY <2>1
    <3>2. PICK a \in Accounts, n \in Nat : event = <<a, n>>  BY DEF IInv, TypeOK
    <3>3. Published(a, 1)  BY <3>2 DEF IInv, EventsOK
    <3> QED  BY <3>1, <3>2, <3>3 DEF Deliver, IInv, TypeOK
  <2>2. CASE \E a \in scope.accounts : CompleteAccess(t, a)
    <3>1. PICK a \in scope.accounts : CompleteAccess(t, a)  BY <2>2
    <3>2. a \in Accounts /\ Published(a, 1)
      BY <3>1, IdentityAssumption, AccountRows
         DEF IInv, TypeOK, CompleteAccess, Alive, Published
    <3>3. calls' \in Nat  BY <3>1 DEF CompleteAccess, IInv, TypeOK
    <3>4. /\ task' = [task EXCEPT ![t] = Began("access", <<a, 0>>, "reload")]
          /\ UNCHANGED <<scope, clerk, database, refused, changes, faults>>
      BY <3>1 DEF CompleteAccess
    <3> QED  BY <3>2, <3>3, <3>4
  <2> QED  BY <2>1, <2>2
<1> DEFINE c == Began(kind, <<a, n>>, place)
<1>2. c \in Running  BY DEF Began, Running
<1>3. Sound(c) /\ Fits(c)  BY <1>1 DEF Began, Sound, Reading, Fits
<1> HIDE DEF c
<1>4. /\ UNCHANGED <<scope, snapshots, deleted, mapping, members, links>>
      /\ events' \subseteq events /\ ProfilesGrow
      /\ refused' \subseteq Accounts /\ changes' \in Nat /\ calls' \in Nat /\ faults' \in Nat
  BY <1>1, SameProfiles DEF IInv, TypeOK, clerk, database
<1>5. task' = [task EXCEPT ![t] = c]  BY <1>1 DEF c
<1> QED  BY <1>2, <1>3, <1>4, <1>5, TaskOnly

\* What ProfileOf reads is a profile, or none.
LEMMA ProfileSeenType ==
  ASSUME TypeOK, NEW e
  PROVE  ProfileOf(e) \in ProfileSeen
<1>1. CASE ProfilesWith(e) = {}  BY <1>1 DEF ProfileOf, ProfileSeen
<1>2. CASE ProfilesWith(e) # {}
  <2> DEFINE u == CHOOSE x \in ProfilesWith(e) : TRUE
  <2>1. u \in ProfilesWith(e)  BY <1>2
  <2>2. u \in Users  BY <2>1 DEF ProfilesWith, Registered
  <2> HIDE DEF u
  <2>3. [id |-> u, state |-> CASE profiles[u].active -> "active"
                              [] ~profiles[u].active /\ u \in Mapped -> "mapped"
                              [] OTHER -> "claimable"] \in ProfileSeen
    BY <2>2 DEF ProfileSeen
  <2> QED  BY <1>2, <2>3 DEF ProfileOf, u
<1> QED  BY <1>1, <1>2

\* The calls of the coordinator.
LEMMA CallStep ==
  ASSUME IInv, NEW t \in Tasks, NEW e \in scope.emails,
         \/ AddMember(t, e)
         \/ \E m \in members :
              \/ LinkMemberEmail(t, m, e) \/ CorrectEmail(t, m, e)
              \/ \E s \in members : UnifyMembers(t, s, m, e)
  PROVE  Kept
<1>1. e \in Emails /\ members \subseteq Users  BY IdentityAssumption DEF IInv, TypeOK
<1>2. ASSUME NEW c \in Running, Calls(t, c), Fits(c), c.at \in {"lookup", "write"}, c.proof = None
      PROVE  Kept
  <2>1. Sound(c)  BY <1>2 DEF Sound, Reading
  <2>2. /\ UNCHANGED <<scope, snapshots, deleted, mapping, members, links>>
        /\ events' \subseteq events /\ ProfilesGrow
        /\ refused' \subseteq Accounts /\ changes' \in Nat /\ faults' \in Nat
        /\ task' = [task EXCEPT ![t] = c]
    BY <1>2, SameProfiles DEF Calls, clerk, database, IInv, TypeOK
  <2>3. calls' \in Nat  BY <1>2 DEF Calls, IInv, TypeOK
  <2> QED  BY <1>2, <2>1, <2>2, <2>3, TaskOnly
<1>3. ProfileOf(e) \in ProfileSeen /\ links[e] \in Link \union {None}
  BY <1>1, ProfileSeenType DEF IInv, TypeOK
<1>4. CASE AddMember(t, e)
  <2> DEFINE c == [Call("add", e) EXCEPT !.seen = ProfileOf(e)]
  <2>1. c \in Running /\ Fits(c) /\ c.at = "lookup" /\ c.proof = None
    BY <1>1, <1>3 DEF Call, Began, Running, Fits
  <2> HIDE DEF c
  <2> QED  BY <1>2, <1>4, <2>1 DEF AddMember, c
<1>5. ASSUME NEW m \in members, LinkMemberEmail(t, m, e)
      PROVE  Kept
  <2> DEFINE seen == [profile |-> ProfileOf(e), link |-> links[e]]
             c == [Call("link", e) EXCEPT !.member = m, !.seen = seen]
  <2>1. seen \in LinkSeen  BY <1>3 DEF LinkSeen
  <2>2. c \in Running /\ Fits(c) /\ c.at = "lookup" /\ c.proof = None
    BY <1>1, <2>1 DEF Call, Began, Running, Fits
  <2>3. Calls(t, c)  BY <1>5 DEF LinkMemberEmail
  <2> HIDE DEF c
  <2> QED  BY <1>2, <2>2, <2>3
<1>6. ASSUME NEW m \in members, NEW s \in members, UnifyMembers(t, s, m, e)
      PROVE  Kept
  <2> DEFINE c == [Call("unify", e) EXCEPT !.source = s, !.member = m, !.seen = ProfileOf(e)]
  <2>1. c \in Running /\ Fits(c) /\ c.at = "lookup" /\ c.proof = None
    BY <1>1, <1>3 DEF Call, Began, Running, Fits
  <2>2. Calls(t, c)  BY <1>6 DEF UnifyMembers
  <2> HIDE DEF c
  <2> QED  BY <1>2, <2>1, <2>2
<1>7. ASSUME NEW m \in members, CorrectEmail(t, m, e)
      PROVE  Kept
  <2> DEFINE c == [Call("correct", e) EXCEPT !.at = "write", !.member = m]
  <2>1. c \in Running /\ Fits(c) /\ c.at = "write" /\ c.proof = None
    BY <1>1 DEF Call, Began, Running, Fits
  <2>2. Calls(t, c)  BY <1>7 DEF CorrectEmail
  <2> HIDE DEF c
  <2> QED  BY <1>2, <2>1, <2>2
<1> QED  BY <1>4, <1>5, <1>6, <1>7

\* A task that stops leaves nothing to rely on.
LEMMA StopStep ==
  ASSUME IInv, NEW t \in Tasks, Stops(t),
         UNCHANGED <<scope, snapshots, deleted, mapping, members, links, changes, calls>>,
         ProfilesGrow,
         events' \subseteq events, refused' \subseteq Accounts, faults' \in Nat
  PROVE  Kept
<1>1. changes' \in Nat /\ calls' \in Nat
  BY DEF IInv, TypeOK
<1> QED  BY <1>1, TaskOnly DEF Stops

\* A call that fails.
LEMMA FailStep ==
  ASSUME IInv, NEW t \in Tasks, Fail(t)
  PROVE  Kept
<1>1. /\ faults' \in Nat /\ refused' \subseteq Accounts
      /\ ProfilesGrow
  BY SameProfiles DEF Fail, database, IInv, TypeOK
<1> QED  BY <1>1, StopStep DEF Fail, clerk, database

\* The step of a running task to another place.
LEMMA GoStep ==
  ASSUME IInv, NEW t \in Tasks, NEW c \in Running, task' = [task EXCEPT ![t] = c],
         Sound(c), Fits(c),
         UNCHANGED <<scope, snapshots, deleted, mapping, members, links, refused, changes, calls, faults>>,
         events' \subseteq events, ProfilesGrow
  PROVE  Kept
<1>1. /\ refused' \subseteq Accounts /\ changes' \in Nat /\ calls' \in Nat /\ faults' \in Nat
      /\ c # NoTask
  BY DEF IInv, TypeOK, Running, NoTask
<1> QED  BY <1>1, TaskOnly

\* What is known of a running task.
LEMMA KnownTask ==
  ASSUME IInv, NEW t \in Tasks, ~Is(t, "idle")
  PROVE  task[t] \in Running /\ Sound(task[t]) /\ Fits(task[t])
BY RunningTask DEF IInv, TasksOK

\* The account is read again.
LEMMA ReloadStep ==
  ASSUME IInv, NEW t \in Tasks, Reload(t)
  PROVE  Kept
<1> DEFINE c == task[t]
           a == c.account
           revoked == [c EXCEPT !.at = "revoke"]
           read == [c EXCEPT !.at = "mapping", !.version = Version(a)]
<1>1. /\ c.at = "reload" /\ c \in Running /\ Sound(c) /\ Fits(c) /\ a \in Accounts
      /\ Published(a, 1)
  BY KnownTask DEF Reload, Is, Sound
<1>2. /\ UNCHANGED <<scope, snapshots, deleted, profiles, mapping, members, links, refused,
                     changes, calls, faults, events>>
      /\ \/ task' = [task EXCEPT ![t] = revoked]
         \/ Stops(t)
         \/ /\ c.kind \notin {"webhook", "access"} => c.email \in Verified(a, Version(a))
            /\ task' = [task EXCEPT ![t] = read]
  BY DEF Reload, NotFound, Goes, InClerkJob, database
<1>3. ProfilesGrow  BY <1>2, SameProfiles DEF IInv
<1>4. CASE task' = [task EXCEPT ![t] = revoked]
  <2>1. revoked \in Running /\ Sound(revoked) /\ Fits(revoked)
    BY <1>1 DEF Running, Sound, Reading, Fits
  <2> HIDE DEF revoked
  <2> QED  BY <1>2, <1>3, <1>4, <2>1, GoStep
<1>5. CASE Stops(t)
  BY <1>2, <1>3, <1>5, StopStep DEF IInv, TypeOK
<1>6. CASE /\ c.kind \notin {"webhook", "access"} => c.email \in Verified(a, Version(a))
           /\ task' = [task EXCEPT ![t] = read]
  <2>1. Version(a) \in Nat /\ Published(a, Version(a))
    BY <1>1, AccountRows DEF Published, IInv
  <2>2. /\ read \in Running /\ read.at = "mapping" /\ read.account = a
        /\ read.version = Version(a) /\ read.kind = c.kind /\ read.email = c.email
        /\ read.member = c.member /\ read.source = c.source /\ read.seen = c.seen
    BY <1>1, <2>1 DEF Running
  <2> HIDE DEF read, c, a
  <2>3. Sound(read)  BY <1>1, <1>6, <2>1, <2>2 DEF Sound, Reading
  <2>4. Fits(read)  BY <1>1, <2>2 DEF Fits
  <2> QED  BY <1>2, <1>3, <1>6, <2>2, <2>3, <2>4, GoStep
<1> QED  BY <1>2, <1>4, <1>5, <1>6

\* What a reconciliation returns its caller.
LEMMA ContinueStep ==
  ASSUME IInv, NEW t \in Tasks, NEW u, Continues(t, u), task[t].at \in Reading,
         u # None => u \in Users /\ mapping[task[t].account] # None
                     /\ u = mapping[task[t].account].user
  PROVE  \/ Stops(t)
         \/ \E c \in Running :
              c # NoTask /\ Sound(c) /\ Fits(c) /\ task' = [task EXCEPT ![t] = c]
<1> DEFINE c == [task[t] EXCEPT !.at = "decide", !.user = u, !.proof = task[t].version]
<1>1. task[t] \in Running /\ Sound(task[t]) /\ Fits(task[t])
  BY KnownTask DEF Is, Reading
<1>2. CASE Stops(t)  BY <1>2
<1>3. CASE ~InClerkJob(t) /\ u # None /\ task' = [task EXCEPT ![t] = c]
  <2>1. /\ c \in Running /\ c.at = "decide" /\ c.user = u /\ c.proof = task[t].version
        /\ c.account = task[t].account /\ c.kind = task[t].kind /\ c.email = task[t].email
        /\ c.member = task[t].member /\ c.source = task[t].source /\ c.seen = task[t].seen
    BY <1>1, <1>3 DEF Running
  <2> HIDE DEF c
  <2>2. Sound(c)  BY <1>1, <1>3, <2>1 DEF Sound, Acts, InClerkJob, Reading
  <2>3. Fits(c)  BY <1>1, <1>3, <2>1 DEF Fits, InClerkJob
  <2>4. c # NoTask  BY <2>1 DEF NoTask
  <2> QED  BY <1>3, <2>1, <2>2, <2>3, <2>4
<1> QED  BY <1>2, <1>3 DEF Continues

\* The mapping of the account is read.
LEMMA ReadMappingStep ==
  ASSUME IInv, NEW t \in Tasks, ReadMapping(t)
  PROVE  Kept
<1> DEFINE c == task[t]
           row == mapping[c.account]
           claiming == [c EXCEPT !.at = "claim"]
           beginning == [c EXCEPT !.at = "begin", !.user = row.user]
<1>1. /\ c.at = "mapping" /\ c \in Running /\ Sound(c) /\ Fits(c) /\ c.account \in Accounts
  BY KnownTask DEF ReadMapping, Is, Sound, Reading
<1>2. /\ UNCHANGED <<scope, snapshots, deleted, profiles, mapping, members, links, refused,
                     changes, calls, faults>>
      /\ events' \subseteq events
      /\ \/ Stops(t)
         \/ HasIdentity(c.account, c.version) /\ task' = [task EXCEPT ![t] = claiming]
         \/ row # None /\ task' = [task EXCEPT ![t] = beginning]
  BY DEF ReadMapping, Applied, Continues, Goes, database
<1>3. ProfilesGrow  BY <1>2, SameProfiles DEF IInv
<1>4. CASE Stops(t)
  BY <1>2, <1>3, <1>4, StopStep DEF IInv, TypeOK
<1>5. CASE HasIdentity(c.account, c.version) /\ task' = [task EXCEPT ![t] = claiming]
  <2>1. claiming \in Running /\ Sound(claiming) /\ Fits(claiming)
    BY <1>1, <1>5 DEF Running, Sound, Reading, Fits
  <2> HIDE DEF claiming
  <2> QED  BY <1>2, <1>3, <1>5, <2>1, GoStep
<1>6. CASE row # None /\ task' = [task EXCEPT ![t] = beginning]
  <2>1. row.user \in Users  BY <1>1, <1>6, AccountRows DEF IInv, Mapping
  <2>2. /\ beginning \in Running /\ beginning.at = "begin" /\ beginning.user = row.user
        /\ beginning.account = c.account /\ beginning.version = c.version
        /\ beginning.kind = c.kind /\ beginning.email = c.email
        /\ beginning.member = c.member /\ beginning.source = c.source /\ beginning.seen = c.seen
    BY <1>1, <2>1 DEF Running
  <2>3. mapping[c.account] # None /\ row = mapping[c.account]  BY <1>6
  <2> HIDE DEF beginning, c, row
  <2>4. Sound(beginning)  BY <1>1, <2>2, <2>3 DEF Sound, Acts, Reading
  <2>5. Fits(beginning)  BY <1>1, <2>2 DEF Fits
  <2> QED  BY <1>2, <1>3, <1>6, <2>2, <2>4, <2>5, GoStep
<1> QED  BY <1>2, <1>4, <1>5, <1>6

\* A user that is created is one that was none.
LEMMA CreatedProfile ==
  ASSUME TypeOK, NEW e \in Emails, Room(e), profiles' = Created(e)
  PROVE  ProfilesGrow
<1>1. CASE ProfilesWith(e) # {}  BY <1>1, SameProfiles DEF Created
<1>2. CASE ProfilesWith(e) = {}
  <2> DEFINE u == CHOOSE x \in Users : profiles[x] = None
             row == [email |-> e, active |-> FALSE]
  <2>1. u \in Users /\ profiles[u] = None
    <3>1. \E x \in Users : profiles[x] = None  BY <1>2 DEF Room, Registered
    <3> QED  BY <3>1
  <2>2. row \in Profile  BY DEF Profile
  <2>3. profiles' = [profiles EXCEPT ![u] = row]  BY <1>2 DEF Created
  <2> HIDE DEF u, row
  <2> QED  BY <2>1, <2>2, <2>3, NoneAssumption DEF TypeOK, ProfilesGrow, Registered
<1> QED  BY <1>1, <1>2

\* preregisterSupabaseUser.
LEMMA CreateUserStep ==
  ASSUME IInv, NEW t \in Tasks, CreateUser(t)
  PROVE  Kept
<1> DEFINE c == task[t]
           created == [c EXCEPT !.at = "reclaim"]
<1>1. /\ c.at = "create" /\ c \in Running /\ Sound(c) /\ Fits(c) /\ c.account \in Accounts
  BY KnownTask DEF CreateUser, Is, Sound, Reading
<1>2. created \in Running /\ Sound(created) /\ Fits(created)
  BY <1>1 DEF Running, Sound, Reading, Fits
<1>3. /\ UNCHANGED <<scope, snapshots, deleted, events, mapping, members, links, refused,
                     changes, calls, faults>>
      /\ task' = [task EXCEPT ![t] = created] /\ profiles' = Created(Primary(t))
  BY DEF CreateUser, Goes, clerk
<1>4. Primary(t) \in Emails
  <2>1. c.version \in 1..Version(c.account) /\ HasIdentity(c.account, c.version)
    BY <1>1 DEF Sound, Reading, Published
  <2>2. snapshots[c.account][c.version] \in Snapshot  BY <1>1, <2>1, AccountRows DEF IInv
  <2> QED  BY <2>1, <2>2 DEF Primary, HasIdentity, Snapshot
<1>5. ProfilesGrow  BY <1>1, <1>3, <1>4, CreatedProfile DEF CreateUser, IInv
<1> HIDE DEF created
<1> QED  BY <1>2, <1>3, <1>5, GoStep

\* reconcileVerifiedClerkEmailOwner searches the owner of an e-mail.
LEMMA LookupStep ==
  ASSUME IInv, NEW t \in Tasks, Lookup(t)
  PROVE  Kept
<1> DEFINE c == task[t]
           alone == [c EXCEPT !.at = "decide"]
           found(a) == [c EXCEPT !.at = "reload", !.account = a, !.tries = 1]
<1>1. c.at = "lookup" /\ c \in Running /\ Sound(c) /\ Fits(c)
  BY KnownTask DEF Lookup, Is
<1>2. /\ UNCHANGED <<scope, snapshots, deleted, events, profiles, mapping, members, links,
                     refused, changes, calls, faults>>
      /\ \/ Stops(t)
         \/ task' = [task EXCEPT ![t] = alone]
         \/ \E a \in OwnersOf(c.email) : task' = [task EXCEPT ![t] = found(a)]
  BY DEF Lookup, Goes, clerk, database
<1>3. ProfilesGrow  BY <1>2, SameProfiles DEF IInv
<1>4. CASE Stops(t)
  BY <1>2, <1>3, <1>4, StopStep DEF IInv, TypeOK
<1>5. CASE task' = [task EXCEPT ![t] = alone]
  <2>1. alone \in Running /\ Sound(alone) /\ Fits(alone)
    BY <1>1 DEF Running, Sound, Reading, Fits
  <2> HIDE DEF alone
  <2> QED  BY <1>2, <1>3, <1>5, <2>1, GoStep
<1>6. ASSUME NEW a \in OwnersOf(c.email), task' = [task EXCEPT ![t] = found(a)]
      PROVE  Kept
  <2>1. a \in Accounts  BY IdentityAssumption DEF OwnersOf, IInv, TypeOK
  <2>2. Published(a, 1)  BY <2>1, AccountRows DEF OwnersOf, Alive, Published, IInv
  <2>3. /\ found(a) \in Running /\ found(a).at = "reload" /\ found(a).account = a
        /\ found(a).kind = c.kind /\ found(a).email = c.email
        /\ found(a).member = c.member /\ found(a).source = c.source /\ found(a).seen = c.seen
    BY <1>1, <2>1 DEF Running
  <2> HIDE DEF found, c
  <2>4. Sound(found(a)) /\ Fits(found(a))
    BY <1>1, <2>1, <2>2, <2>3 DEF Sound, Reading, Fits
  <2> QED  BY <1>2, <1>3, <1>6, <2>3, <2>4, GoStep
<1> QED  BY <1>2, <1>4, <1>5, <1>6

\* A call that is about to write.
AtWrite(c, u, seen) == [c EXCEPT !.at = "write", !.user = u, !.seen = seen]

\* Its place, its user and what it has seen are new, the rest is as it was.
LEMMA WrittenTask ==
  ASSUME NEW c \in Running, NEW u \in Users \union {None},
         NEW seen \in ProfileSeen \union LinkSeen \union {None}
  PROVE  LET written == AtWrite(c, u, seen) IN
         /\ written \in Running /\ written.at = "write" /\ written.user = u
         /\ written.account = c.account /\ written.proof = c.proof
         /\ written.kind = c.kind /\ written.email = c.email
         /\ written.member = c.member /\ written.source = c.source /\ written.seen = seen
<1> DEFINE S == ProfileSeen \union LinkSeen \union {None}
<1> HIDE DEF S
<1>1. seen \in S  BY DEF S
<1>2. Running = [at : {"lookup", "reload", "mapping", "claim", "create", "reclaim", "begin", "complete",
         "publish", "revoke", "unlink", "decide", "write"},
   kind : {"webhook", "access", "add", "link", "unify", "correct", "refresh"},
   event : (Accounts \union {None}) \X Nat,
   account : Accounts \union {None}, version : Nat, tries : {1, 2},
   user : Users \union {None}, email : Emails \union {None},
   member : Users \union {None}, source : Users \union {None},
   proof : Nat \union {None}, seen : S]
  BY DEF Running, S
<1> QED  BY <1>1, <1>2 DEF AtWrite

\* The step of a call from its decision to its write.
LEMMA WritesStep ==
  ASSUME IInv, NEW t \in Tasks, NEW u \in Users \union {None}, Is(t, "decide"),
         NEW seen, seen # task[t].seen => task[t].kind = "link" /\ seen \in LinkSeen,
         task[t].user # None => u = task[t].user,
         task' = [task EXCEPT ![t].at = "write", ![t].user = u, ![t].seen = seen],
         UNCHANGED <<scope, snapshots, deleted, mapping, members, links, refused,
                     changes, calls, faults, events>>,
         ProfilesGrow
  PROVE  Kept
<1> DEFINE c == task[t]
           written == AtWrite(c, u, seen)
<1>1. c.at = "decide" /\ c \in Running /\ Sound(c) /\ Fits(c)
  BY KnownTask DEF Is
<1>2. /\ written \in Running /\ written.at = "write" /\ written.user = u
      /\ written.account = c.account /\ written.proof = c.proof
      /\ written.kind = c.kind /\ written.email = c.email
      /\ written.member = c.member /\ written.source = c.source /\ written.seen = seen
  <2>1. seen \in ProfileSeen \union LinkSeen \union {None}  BY <1>1 DEF Running
  <2>2. u \in Users \union {None} /\ c \in Running  BY <1>1
  <2> HIDE DEF c
  <2> QED  BY ONLY <2>1, <2>2, WrittenTask
<1>3. task' = [task EXCEPT ![t] = written]  BY DEF AtWrite
<1> HIDE DEF written
<1>4. Sound(written)
  <2> SUFFICES ASSUME c.proof # None
               PROVE  /\ c.account \in Accounts /\ Acts(written)
                      /\ Published(c.account, c.proof) /\ c.email \in Verified(c.account, c.proof)
    BY <1>2 DEF Sound, Reading
  <2>1. /\ c.account \in Accounts /\ Acts(c)
        /\ Published(c.account, c.proof) /\ c.email \in Verified(c.account, c.proof)
    BY <1>1 DEF Sound
  <2>2. c.user \in Users  BY <2>1, AccountRows DEF Acts, Mapping, IInv
  <2>3. u = c.user  BY <2>2, NoneAssumption
  <2> QED  BY <1>2, <2>1, <2>3 DEF Acts
<1>5. Fits(written)  BY <1>1, <1>2 DEF Fits
<1> QED  BY <1>2, <1>3, <1>4, <1>5, GoStep

\* Whom addMember adds is a user.
LEMMA AddedType ==
  ASSUME IInv, NEW t \in Tasks, Is(t, "decide"), task[t].kind = "add", Room(task[t].email)
  PROVE  /\ Added(task[t]) \in Users \union {None}
         /\ task[t].user # None => Added(task[t]) \in {None, task[t].user}
<1> DEFINE c == task[t]
           fresh == CHOOSE u \in Users : profiles[u] = None
           found == CHOOSE u \in ProfilesWith(c.email) : TRUE
<1>1. c \in Running /\ c.seen \in ProfileSeen
  BY KnownTask DEF Is, Fits
<1>2. c.user \in Users \union {None} /\ c.seen.id \in Users \union {None}
  BY <1>1 DEF Running, ProfileSeen
<1>3. ProfilesWith(c.email) # {} => found \in Users
  <2>1. ProfilesWith(c.email) # {} => found \in ProfilesWith(c.email)  OBVIOUS
  <2> QED  BY <2>1 DEF ProfilesWith, Registered
<1>4. ProfilesWith(c.email) = {} => fresh \in Users
  <2>1. ProfilesWith(c.email) = {} => \E u \in Users : profiles[u] = None
    BY DEF Room, Registered
  <2> QED  BY <2>1
<1> HIDE DEF c
<1> QED  BY <1>2, <1>3, <1>4 DEF Added, c

\* What addMember decides.
LEMMA DecideAddStep ==
  ASSUME IInv, NEW t \in Tasks, DecideAdd(t)
  PROVE  Kept
<1>1. Is(t, "decide") /\ task[t].kind = "add" /\ Room(task[t].email)  BY DEF DecideAdd
<1>2. task[t] \in Running /\ task[t].email \in Emails  BY <1>1, KnownTask DEF Is, Fits
<1>3. ProfilesGrow
  BY <1>1, <1>2, CreatedProfile, SameProfiles DEF DecideAdd, IInv
<1>4. UNCHANGED <<scope, snapshots, deleted, events, mapping, members, links, refused,
                  changes, calls, faults>>
  BY DEF DecideAdd, clerk
<1>5. CASE Stops(t)
  BY <1>3, <1>4, <1>5, StopStep DEF IInv, TypeOK
<1>6. CASE Added(task[t]) # None /\ Writes(t, Added(task[t]))
  <2>1. task' = [task EXCEPT ![t].at = "write", ![t].user = Added(task[t]), ![t].seen = task[t].seen]
    BY <1>2, <1>6 DEF Writes, Running
  <2>2. /\ Added(task[t]) \in Users \union {None}
        /\ task[t].user # None => Added(task[t]) = task[t].user
    BY <1>1, <1>6, AddedType
  <2> QED  BY <1>1, <1>3, <1>4, <2>1, <2>2, WritesStep
<1> QED  BY <1>5, <1>6 DEF DecideAdd

\* What linkMemberEmail decides.
LEMMA DecideLinkStep ==
  ASSUME IInv, NEW t \in Tasks, DecideLink(t)
  PROVE  Kept
<1> DEFINE c == task[t]
           seen == IF c.user = None THEN c.seen
                   ELSE [profile |-> ProfileOf(c.email), link |-> links[c.email]]
           own == c.user = None /\ seen.profile.id = c.member
           profile == IF own THEN [id |-> None, state |-> "absent"] ELSE seen.profile
           linked == CASE c.user # None -> c.user
                       [] c.user = None /\ profile.state = "active" -> None
                       [] OTHER -> profile.id
<1>1. /\ Is(t, "decide") /\ c.kind = "link"
      /\ UNCHANGED <<scope, snapshots, deleted, events, profiles, mapping, members, links,
                     refused, changes, calls, faults>>
      /\ \/ Stops(t)
         \/ task' = [task EXCEPT ![t].at = "write", ![t].user = linked, ![t].seen = seen]
  BY DEF DecideLink, clerk, database
<1>2. c \in Running /\ c.email \in Emails /\ c.seen \in LinkSeen
  BY <1>1, KnownTask DEF Is, Fits
<1>3. ProfilesGrow  BY <1>1, SameProfiles DEF IInv
<1>4. seen \in LinkSeen
  <2>1. ProfileOf(c.email) \in ProfileSeen /\ links[c.email] \in Link \union {None}
    BY <1>2, ProfileSeenType DEF IInv, TypeOK
  <2> QED  BY <1>2, <2>1 DEF LinkSeen
<1>5. linked \in Users \union {None} /\ (c.user # None => linked = c.user)
  <2>1. seen.profile \in ProfileSeen  BY <1>4 DEF LinkSeen
  <2>2. profile.id \in Users \union {None}  BY <2>1 DEF ProfileSeen
  <2>3. c.user \in Users \union {None}  BY <1>2 DEF Running
  <2> HIDE DEF profile, c
  <2> QED  BY <2>2, <2>3
<1> HIDE DEF seen, linked
<1>6. CASE Stops(t)
  BY <1>1, <1>3, <1>6, StopStep DEF IInv, TypeOK
<1>7. CASE task' = [task EXCEPT ![t].at = "write", ![t].user = linked, ![t].seen = seen]
  BY <1>1, <1>3, <1>4, <1>5, <1>7, WritesStep
<1> QED  BY <1>1, <1>6, <1>7

\* What unifyProjectMembers decides.
LEMMA DecideUnifyStep ==
  ASSUME IInv, NEW t \in Tasks, DecideUnify(t)
  PROVE  Kept
<1> DEFINE c == task[t]
           linked == IF c.user # None THEN c.user ELSE c.source
<1>1. /\ Is(t, "decide") /\ c.kind = "unify"
      /\ UNCHANGED <<scope, snapshots, deleted, events, profiles, mapping, members, links,
                     refused, changes, calls, faults>>
      /\ Stops(t) \/ Writes(t, linked)
  BY DEF DecideUnify, clerk, database
<1>2. c \in Running  BY <1>1, KnownTask DEF Is
<1>3. linked \in Users \union {None} /\ (c.user # None => linked = c.user)
  BY <1>2 DEF Running
<1>4. ProfilesGrow  BY <1>1, SameProfiles DEF IInv
<1> HIDE DEF linked
<1>5. CASE Stops(t)
  BY <1>1, <1>4, <1>5, StopStep DEF IInv, TypeOK
<1>6. CASE Writes(t, linked)
  <2>1. task' = [task EXCEPT ![t].at = "write", ![t].user = linked, ![t].seen = c.seen]
    BY <1>2, <1>6 DEF Writes, Running
  <2> QED  BY <1>1, <1>3, <1>4, <2>1, WritesStep
<1> QED  BY <1>1, <1>5, <1>6

\* updatePendingMemberEmail.
LEMMA WriteEmailStep ==
  ASSUME IInv, NEW t \in Tasks, WriteEmail(t)
  PROVE  Kept
<1>1. /\ Is(t, "write") /\ task[t].kind = "correct" /\ Stops(t)
      /\ UNCHANGED <<scope, snapshots, deleted, events, mapping, members, links,
                     refused, changes, calls, faults>>
  BY DEF WriteEmail, clerk
<1>2. task[t].email \in Emails /\ task[t].member \in Users
  BY <1>1, KnownTask DEF Is, Fits
<1>3. Claimable(task[t].member) => profiles[task[t].member] \in Profile
  BY <1>2 DEF Claimable, Registered, IInv, TypeOK
<1>4. ProfilesGrow
  <2> DEFINE m == task[t].member
             row == [profiles[m] EXCEPT !.email = task[t].email]
  <2>1. profiles' = profiles \/ (Claimable(m) /\ profiles' = [profiles EXCEPT ![m] = row])
    BY DEF WriteEmail
  <2>2. Claimable(m) => row \in Profile /\ row # None
    BY <1>2, <1>3, NoneAssumption DEF Profile
  <2> HIDE DEF m, row
  <2> QED  BY <2>1, <2>2, SameProfiles DEF IInv, TypeOK, ProfilesGrow, Registered
<1> QED  BY <1>1, <1>4, StopStep DEF IInv, TypeOK
-----------------------------------------------------------------------------
\* The steps that write the mapping or the links.

\* Whoever becomes ready was granted what the links say, by whichever of them wrote.
LEMMA SecureStep ==
  ASSUME IInv, snapshots' = snapshots, MappedOnce', MappedAreRegistered', Terminal(links, members)',
         \A a \in Accounts : mapping'[a] # None /\ mapping'[a].ready =>
           /\ ~mapping'[a].deleted /\ Published(a, mapping'[a].version)
           /\ ResolvedTo(mapping'[a].user, links') \subseteq Verified(a, mapping'[a].version)
  PROVE  Secure'
<1>1. ReadyIsGranted'  BY DEF ReadyIsGranted, Ready, Published, Version
<1>2. ReadyMeansApplied'
  <2> SUFFICES ASSUME NEW a \in Accounts, mapping'[a] # None, mapping'[a].ready
               PROVE  ResolvedTo(mapping'[a].user, links') \subseteq Verified(a, mapping[a].version)'
    BY DEF ReadyMeansApplied, Ready, ResolvedTo
  <2>1. Verified(a, mapping[a].version)' = Verified(a, mapping'[a].version)
    BY DEF Verified, HasIdentity
  <2> QED  BY <2>1
<1> QED  BY <1>1, <1>2 DEF Secure

\* The row of one account changes.
LEMMA RowChange ==
  ASSUME IInv, NEW a \in Accounts, NEW row \in Mapping, snapshots' = snapshots, ProfilesGrow,
         mapping' = [mapping EXCEPT ![a] = row],
         mapping[a] = None => row.user \notin Mapped /\ row.user \in Registered,
         mapping[a] # None =>
           /\ row.user = mapping[a].user /\ mapping[a].version <= row.version
           /\ mapping[a].deleted => row.deleted
  PROVE  /\ Grows /\ mapping' \in [Accounts -> Mapping \union {None}]
         /\ MappedOnce' /\ MappedAreRegistered'
<1>1. mapping' \in [Accounts -> Mapping \union {None}]  BY DEF IInv, TypeOK
<1>2. \A b \in Accounts : mapping'[b] = IF b = a THEN row ELSE mapping[b]
  BY DEF IInv, TypeOK
<1>3. row # None  BY NoneAssumption
<1>4. Grows
  <2> SUFFICES ASSUME NEW b \in Accounts
               PROVE  /\ Version(b) \in Nat /\ Version(b) <= Version(b)
                      /\ mapping[b] # None =>
                           /\ mapping'[b] # None /\ mapping'[b].user = mapping[b].user
                           /\ mapping[b].version <= mapping'[b].version
                           /\ mapping[b].deleted => mapping'[b].deleted
    BY DEF Grows, Version
  <2>1. Version(b) \in Nat /\ (mapping[b] # None => mapping[b] \in Mapping)
    BY AccountRows DEF IInv
  <2>2. mapping[b] # None => mapping[b].version <= mapping[b].version  BY <2>1 DEF Mapping
  <2>3. CASE b = a  BY <1>2, <1>3, <2>1, <2>3
  <2>4. CASE b # a  BY <1>2, <2>1, <2>2, <2>4
  <2> QED  BY <2>3, <2>4
<1>5. MappedOnce'
  <2> SUFFICES ASSUME NEW b \in Accounts, NEW d \in Accounts, mapping'[b] # None,
                      mapping'[d] # None, mapping'[b].user = mapping'[d].user
               PROVE  b = d
    BY DEF MappedOnce
  <2>1. \A b1 \in Accounts : mapping[b1] # None => mapping[b1].user \in Mapped  BY DEF Mapped
  <2>2. \A b1 \in Accounts : b1 # a /\ mapping[b1] # None => mapping[b1].user # row.user
    BY <2>1 DEF IInv, MappedOnce
  <2> QED  BY <1>2, <2>2 DEF IInv, MappedOnce
<1>6. MappedAreRegistered'
  <2> SUFFICES ASSUME NEW b \in Accounts, mapping'[b] # None
               PROVE  mapping'[b].user \in Registered
    BY DEF MappedAreRegistered, Mapped, ProfilesGrow
  <2>1. mapping[b] # None => mapping[b].user \in Registered
    BY DEF IInv, MappedAreRegistered, Mapped
  <2> QED  BY <1>2, <2>1
<1> QED  BY <1>1, <1>4, <1>5, <1>6

\* The row of one account changes and with it what the links say about its user.
LEMMA GrantStep ==
  ASSUME IInv, NEW a \in Accounts, NEW row \in Mapping, snapshots' = snapshots,
         mapping' = [mapping EXCEPT ![a] = row], MappedOnce', MappedAreRegistered',
         Terminal(links, members)',
         \A b \in Accounts : b # a /\ mapping[b] # None =>
           ResolvedTo(mapping[b].user, links') \subseteq ResolvedTo(mapping[b].user, links),
         row.ready => /\ ~row.deleted /\ Published(a, row.version)
                      /\ ResolvedTo(row.user, links') \subseteq Verified(a, row.version)
  PROVE  Secure'
<1>1. \A b \in Accounts : mapping'[b] = IF b = a THEN row ELSE mapping[b]
  BY DEF IInv, TypeOK
<1>2. ASSUME NEW b \in Accounts, mapping'[b] # None, mapping'[b].ready
      PROVE  /\ ~mapping'[b].deleted /\ Published(b, mapping'[b].version)
             /\ ResolvedTo(mapping'[b].user, links') \subseteq Verified(b, mapping'[b].version)
  <2>1. CASE b = a  BY <1>1, <1>2, <2>1
  <2>2. CASE b # a
    <3>1. mapping'[b] = mapping[b]  BY <1>1, <2>2
    <3>2. Ready(b)  BY <1>2, <3>1 DEF Ready
    <3>3. ~mapping[b].deleted /\ Published(b, mapping[b].version)
      BY <3>2 DEF IInv, ReadyIsGranted
    <3>4. ResolvedTo(mapping[b].user, links) \subseteq Verified(b, mapping[b].version)
      BY <3>2 DEF IInv, ReadyMeansApplied
    <3>5. ResolvedTo(mapping[b].user, links') \subseteq ResolvedTo(mapping[b].user, links)
      BY <1>2, <2>2, <3>1
    <3> QED  BY <3>1, <3>3, <3>4, <3>5
  <2> QED  BY <2>1, <2>2
<1> QED  BY <1>2, SecureStep

\* A task that wrote the row of its account goes on for the user of it.
LEMMA RowTask ==
  ASSUME IInv, Grows, NEW t \in Tasks, NEW c \in Running, NEW a \in Accounts, NEW row \in Mapping,
         snapshots' = snapshots, mapping' = [mapping EXCEPT ![a] = row],
         task' = [task EXCEPT ![t] = c], Fits(c),
         c.at \in {"begin", "complete", "publish", "unlink"}, c.account = a, c.user = row.user,
         c.at # "unlink" =>
           /\ Published(a, c.version)
           /\ c.kind \notin {"webhook", "access"} => c.email \in Verified(a, c.version)
  PROVE  TasksOK'
<1>1. mapping'[a] = row  BY DEF IInv, TypeOK
<1>2. row # None  BY NoneAssumption
<1>3. Acts(c)'  BY <1>1, <1>2 DEF Acts
<1>4. c.at # "unlink" =>
        /\ Published(a, c.version)'
        /\ c.kind \notin {"webhook", "access"} => c.email \in Verified(a, c.version)'
  BY DEF Published, Version, Verified, HasIdentity
<1>5. Sound(c)'  BY <1>3, <1>4 DEF Sound, Reading
<1> QED  BY <1>5, TaskStep

\* Claiming a profile.
LEMMA ClaimStep ==
  ASSUME IInv, NEW t \in Tasks, Claim(t)
  PROVE  Kept
<1> DEFINE c == task[t]
           a == c.account
           creating == [c EXCEPT !.at = "create"]
           beginning(u) == [c EXCEPT !.at = "begin", !.user = u]
           claimed(u) == [user |-> u, ready |-> FALSE, version |-> 0, deleted |-> FALSE]
<1>1. /\ c.at \in {"claim", "reclaim"} /\ c \in Running /\ Sound(c) /\ Fits(c) /\ a \in Accounts
  BY KnownTask DEF Claim, Is, Sound, Reading
<1>2. /\ UNCHANGED <<scope, snapshots, deleted, profiles, members, links, changes, calls, faults>>
      /\ events' \subseteq events
  BY DEF Claim, Finishes, Answered
<1>3. /\ ProfilesGrow
      /\ UNCHANGED faults => faults' \in Nat
  BY <1>2, SameProfiles DEF IInv, TypeOK
<1>4. \/ /\ mapping[a] # None /\ mapping' = mapping /\ refused' = refused
         /\ task' = [task EXCEPT ![t].at = "begin", ![t].user = mapping[a].user]
      \/ /\ mapping' = mapping /\ refused' = refused
         /\ task' = [task EXCEPT ![t] = creating]
      \/ /\ mapping' = mapping /\ Stops(t)
         /\ refused' = refused \/ refused' = refused \union {a}
      \/ \E u \in ProfilesWith(Primary(t)) :
           /\ mapping[a] = None /\ IsFree(u) /\ refused' = refused
           /\ mapping' = [mapping EXCEPT ![a] = claimed(u)]
           /\ task' = [task EXCEPT ![t].at = "begin", ![t].user = u]
  BY DEF Claim, Goes, Finishes
<1>5. \A u \in Users :
        /\ beginning(u) \in Running /\ beginning(u).at = "begin" /\ beginning(u).user = u
        /\ beginning(u).account = a /\ beginning(u).version = c.version
        /\ beginning(u).kind = c.kind /\ beginning(u).email = c.email
        /\ beginning(u).member = c.member /\ beginning(u).source = c.source
        /\ beginning(u).seen = c.seen
  BY <1>1 DEF Running
<1>6. creating \in Running /\ Sound(creating) /\ Fits(creating)
  BY <1>1 DEF Running, Sound, Reading, Fits
<1>7. c.kind = beginning(c.user).kind /\ Published(a, c.version)
      /\ (c.kind \notin {"webhook", "access"} => c.email \in Verified(a, c.version))
  BY <1>1 DEF Sound, Reading
<1>8. \A u : [task EXCEPT ![t].at = "begin", ![t].user = u] = [task EXCEPT ![t] = beginning(u)]
  OBVIOUS
<1>9. \/ /\ mapping[a] # None /\ mapping' = mapping /\ refused' = refused
          /\ task' = [task EXCEPT ![t] = beginning(mapping[a].user)]
       \/ /\ mapping' = mapping /\ refused' = refused
          /\ task' = [task EXCEPT ![t] = creating]
       \/ /\ mapping' = mapping /\ Stops(t)
          /\ refused' = refused \/ refused' = refused \union {a}
       \/ \E u \in ProfilesWith(Primary(t)) :
            /\ mapping[a] = None /\ IsFree(u) /\ refused' = refused
            /\ mapping' = [mapping EXCEPT ![a] = claimed(u)]
            /\ task' = [task EXCEPT ![t] = beginning(u)]
  BY <1>4, <1>8
<1> HIDE DEF beginning, creating
<1>10. CASE /\ mapping[a] # None /\ mapping' = mapping /\ refused' = refused
           /\ task' = [task EXCEPT ![t] = beginning(mapping[a].user)]
  <2>1. mapping[a].user \in Users  BY <1>1, <1>10, AccountRows DEF IInv, Mapping
  <2> DEFINE b == beginning(mapping[a].user)
  <2>2. /\ b \in Running /\ b.at = "begin" /\ b.user = mapping[a].user
        /\ b.account = a /\ b.version = c.version /\ b.kind = c.kind /\ b.email = c.email
        /\ b.member = c.member /\ b.source = c.source /\ b.seen = c.seen
    BY <1>5, <2>1
  <2> HIDE DEF b, c, a
  <2>3. Sound(b)  BY <1>1, <1>7, <1>10, <2>2 DEF Sound, Acts, Reading
  <2>4. Fits(b)  BY <1>1, <2>2 DEF Fits
  <2>5. task' = [task EXCEPT ![t] = b]  BY <1>10 DEF b
  <2> QED  BY <1>2, <1>3, <1>10, <2>2, <2>3, <2>4, <2>5, GoStep
<1>11. CASE mapping' = mapping /\ refused' = refused /\ task' = [task EXCEPT ![t] = creating]
  BY <1>2, <1>3, <1>6, <1>11, GoStep
<1>12. CASE /\ mapping' = mapping /\ Stops(t)
            /\ refused' = refused \/ refused' = refused \union {a}
  <2>1. refused' \subseteq Accounts /\ faults' \in Nat  BY <1>1, <1>2, <1>12 DEF IInv, TypeOK
  <2> QED  BY <1>2, <1>3, <1>12, <2>1, StopStep
<1>13. ASSUME NEW u \in ProfilesWith(Primary(t)), mapping[a] = None, IsFree(u), refused' = refused,
              mapping' = [mapping EXCEPT ![a] = claimed(u)],
              task' = [task EXCEPT ![t] = beginning(u)]
       PROVE  Kept
  <2>1. u \in Users /\ u \notin Mapped /\ u \in Registered
    BY <1>13 DEF ProfilesWith, Registered, IsFree, Claimable
  <2>2. claimed(u) \in Mapping /\ claimed(u).user = u /\ ~claimed(u).ready
    BY <2>1 DEF Mapping
  <2>3. mapping'[a] = claimed(u)  BY <1>1, <1>13 DEF IInv, TypeOK
  <2> DEFINE row == claimed(u)
             b == beginning(u)
  <2>4. /\ b \in Running /\ b.at = "begin" /\ b.user = u
        /\ b.account = a /\ b.version = c.version /\ b.kind = c.kind /\ b.email = c.email
        /\ b.member = c.member /\ b.source = c.source /\ b.seen = c.seen
    BY <1>5, <2>1
  <2>5. row \in Mapping /\ row.user = u /\ ~row.ready /\ row # None
    BY <2>2, NoneAssumption
  <2>6. mapping' = [mapping EXCEPT ![a] = row] /\ mapping'[a] = row  BY <1>13, <2>3
  <2>7. task' = [task EXCEPT ![t] = b]  BY <1>13
  <2> HIDE DEF row, b, c, a
  <2>8. Grows /\ mapping' \in [Accounts -> Mapping \union {None}] /\ MappedOnce' /\ MappedAreRegistered'
    BY <1>1, <1>2, <1>3, <1>13, <2>1, <2>5, <2>6, RowChange
  <2>9. Terminal(links, members)'  BY <1>2 DEF IInv, Terminal, ResolvedTo
  <2>10. Secure'
    BY <1>1, <1>2, <2>5, <2>6, <2>8, <2>9, GrantStep
  <2>11. TypeOK'  BY <1>2, <1>3, <1>13, <2>4, <2>7, <2>8 DEF IInv, TypeOK
  <2>12. Fits(b)  BY <1>1, <2>4 DEF Fits
  <2>13. TasksOK'  BY <1>1, <1>2, <1>7, <2>4, <2>5, <2>6, <2>7, <2>8, <2>12, RowTask
  <2>14. EventsOK'  BY <1>2, <2>8, EventsGrow
  <2> QED  BY <2>8, <2>10, <2>11, <2>13, <2>14 DEF Kept
<1> QED  BY <1>9, <1>10, <1>11, <1>12, <1>13

\* What a snapshot takes away it takes from its own user and from the owners of its
\* e-mails.
LEMMA RevokedLinks ==
  ASSUME IInv, NEW u \in Users, NEW emails
  PROVE  /\ Revoked(u, emails) \in [Emails -> Link \union {None}]
         /\ ResolvedTo(u, Revoked(u, emails)) \subseteq emails
         /\ \A w \in Users : ResolvedTo(w, Revoked(u, emails)) \subseteq ResolvedTo(w, links)
         /\ Terminal(Revoked(u, emails), members)
<1> DEFINE rows == Revoked(u, emails)
<1>1. \A e \in Emails :
        /\ rows[e] \in Link \union {None}
        /\ rows[e] # None =>
             /\ links[e] # None /\ rows[e].member = links[e].member
             /\ rows[e].linked # None => rows[e].linked = links[e].linked
             /\ rows[e].linked = u => e \in emails
  <2> SUFFICES ASSUME NEW e \in Emails
               PROVE  /\ rows[e] \in Link \union {None}
                      /\ rows[e] # None =>
                           /\ links[e] # None /\ rows[e].member = links[e].member
                           /\ rows[e].linked # None => rows[e].linked = links[e].linked
                           /\ rows[e].linked = u => e \in emails
    OBVIOUS
  <2>1. links[e] \in Link \union {None}  BY DEF IInv, TypeOK
  <2>2. CASE links[e] # None /\ (e \in emails <=> links[e].linked # u)
    <3>1. rows[e] = [links[e] EXCEPT !.linked = None]  BY <2>2 DEF Revoked
    <3>2. rows[e] \in Link /\ rows[e].member = links[e].member /\ rows[e].linked = None
      BY <2>1, <2>2, <3>1 DEF Link
    <3> HIDE DEF rows
    <3> QED  BY <2>2, <3>2, NoneAssumption
  <2>3. CASE ~(links[e] # None /\ (e \in emails <=> links[e].linked # u))
    <3>1. rows[e] = links[e]  BY <2>3 DEF Revoked
    <3> HIDE DEF rows
    <3> QED  BY <2>1, <2>3, <3>1
  <2> QED  BY <2>2, <2>3
<1>2. DOMAIN rows = Emails /\ rows = [e \in Emails |-> rows[e]]  BY DEF Revoked
<1> HIDE DEF rows
<1>3. rows \in [Emails -> Link \union {None}]  BY <1>1, <1>2
<1>4. ResolvedTo(u, rows) \subseteq emails  BY <1>1 DEF ResolvedTo
<1>5. \A w \in Users : ResolvedTo(w, rows) \subseteq ResolvedTo(w, links)
  BY <1>1, NoneAssumption DEF ResolvedTo
<1>6. Terminal(rows, members)
  BY <1>1 DEF IInv, Terminal, ResolvedTo
<1> QED  BY <1>3, <1>4, <1>5, <1>6 DEF rows

\* reconcile_member_email_links gives the user of a snapshot none but its e-mails,
\* takes nobody else's away but these, and never meets a refusal of the triggers.
LEMMA ReconciledLinks ==
  ASSUME IInv, NEW u \in Users, NEW emails
  PROVE  /\ Reconciled(u, emails) \in [Emails -> Link \union {None}]
         /\ ResolvedTo(u, Reconciled(u, emails)) \subseteq emails
         /\ \A w \in Users : w # u =>
              ResolvedTo(w, Reconciled(u, emails)) \subseteq ResolvedTo(w, links)
         /\ Terminal(Reconciled(u, emails), members)
<1> DEFINE redundant == {e \in emails \intersect Linked : links[e].member = u}
           kept == Linked \ redundant
           found == emails \intersect kept
           owner(e) == CASE e \in found -> IF Contradictory(u, found) THEN None ELSE u
                         [] e \notin found /\ links[e].linked = u -> None
                         [] OTHER -> links[e].linked
           rows == Reconciled(u, emails)
<1>1. \A e \in Emails : rows[e] = IF e \in kept THEN [links[e] EXCEPT !.linked = owner(e)] ELSE None
  BY DEF Reconciled
<1>2. DOMAIN rows = Emails /\ rows = [e \in Emails |-> rows[e]]  BY DEF Reconciled
<1>3. \A e \in kept : e \in Emails /\ links[e] \in Link /\ links[e] # None
  BY DEF Linked, IInv, TypeOK
<1>4. \A e \in kept : owner(e) \in Users \union {None}
  BY <1>3 DEF Link
<1>5. \A e \in found : owner(e) = IF Contradictory(u, found) THEN None ELSE u
  OBVIOUS
<1>6. \A e \in kept \ found : owner(e) = IF links[e].linked = u THEN None ELSE links[e].linked
  OBVIOUS
<1>7. found \subseteq kept /\ found \subseteq emails  OBVIOUS
<1> HIDE DEF owner, found, kept, redundant, rows
<1>8. ASSUME NEW e \in Emails
      PROVE  /\ rows[e] \in Link \union {None}
             /\ rows[e] # None =>
                  /\ e \in kept /\ rows[e].member = links[e].member
                  /\ rows[e].linked = owner(e)
  <2>1. CASE e \in kept
    <3>1. rows[e] = [links[e] EXCEPT !.linked = owner(e)]  BY <1>1, <2>1
    <3>2. rows[e] \in Link /\ rows[e].member = links[e].member /\ rows[e].linked = owner(e)
      BY <1>3, <1>4, <2>1, <3>1 DEF Link
    <3> QED  BY <2>1, <3>2
  <2>2. CASE e \notin kept  BY <1>1, <2>2
  <2> QED  BY <2>1, <2>2
<1>9. rows \in [Emails -> Link \union {None}]  BY <1>2, <1>8
<1>10. u # None  BY NoneAssumption
<1>11. ResolvedTo(u, rows) \subseteq found
  BY <1>5, <1>6, <1>8, <1>10 DEF ResolvedTo
<1>12. ASSUME NEW w \in Users, w # u
       PROVE  ResolvedTo(w, rows) \subseteq ResolvedTo(w, links) \ found
  <2>1. w # None  BY NoneAssumption
  <2> QED  BY <1>3, <1>5, <1>6, <1>8, <1>12, <2>1 DEF ResolvedTo
<1>13. Terminal(rows, members)
  <2> SUFFICES ASSUME NEW e \in Emails, rows[e] # None
               PROVE  /\ rows[e].member \in members
                      /\ rows[e].linked # None =>
                           /\ rows[e].linked \notin members
                           /\ \A f \in ResolvedTo(rows[e].linked, rows) : rows[f].member = rows[e].member
    BY DEF Terminal
  <2>1. e \in kept /\ links[e] # None /\ rows[e].member = links[e].member /\ rows[e].linked = owner(e)
    BY <1>3, <1>8
  <2>2. rows[e].member \in members  BY <2>1 DEF IInv, Terminal
  <2>3. CASE rows[e].linked = None  BY <2>2, <2>3
  <2>4. CASE rows[e].linked = u
    <3>1. e \in found  BY <1>10, <1>11, <2>4 DEF ResolvedTo
    <3>2. ~Contradictory(u, found)  BY <1>5, <1>10, <2>1, <2>4, <3>1
    <3>3. u \notin members /\ \A f \in found : links[e].member = links[f].member
      BY <3>1, <3>2 DEF Contradictory
    <3>4. \A f \in ResolvedTo(u, rows) : rows[f].member = links[f].member
      BY <1>8 DEF ResolvedTo
    <3> QED  BY <1>11, <2>1, <2>2, <2>4, <3>3, <3>4
  <2>5. CASE rows[e].linked # None /\ rows[e].linked # u
    <3> DEFINE w == rows[e].linked
    <3>1. w \in Users  BY <1>4, <2>1, <2>5
    <3>2. e \in ResolvedTo(w, rows)  BY DEF ResolvedTo
    <3> HIDE DEF w
    <3>3. ResolvedTo(w, rows) \subseteq ResolvedTo(w, links)  BY <1>12, <2>5, <3>1 DEF w
    <3>4. links[e].linked = w /\ w # None  BY <2>5, <3>2, <3>3 DEF ResolvedTo, w
    <3>5. w \notin members /\ \A f \in ResolvedTo(w, links) : links[f].member = links[e].member
      BY <2>1, <3>4 DEF IInv, Terminal
    <3>6. \A f \in ResolvedTo(w, rows) : rows[f].member = links[f].member
      BY <1>8 DEF ResolvedTo
    <3> QED  BY <2>1, <2>2, <3>3, <3>5, <3>6 DEF w
  <2> QED  BY <2>3, <2>4, <2>5
<1> QED  BY <1>7, <1>9, <1>11, <1>12, <1>13 DEF rows

\* A snapshot that is not accepted is read again, once.
LEMMA SupersededStep ==
  ASSUME IInv, NEW t \in Tasks, Superseded(t), task[t].at \in {"begin", "complete"},
         UNCHANGED <<scope, snapshots, deleted, events, profiles, mapping, members, links,
                     refused, changes, calls, faults>>
  PROVE  Kept
<1> DEFINE c == task[t]
           again == [c EXCEPT !.at = "reload", !.tries = 2]
<1>1. /\ c.at \in Reading /\ c \in Running /\ Sound(c) /\ Fits(c) /\ c.account \in Accounts
  BY KnownTask DEF Is, Sound, Reading
<1>2. ProfilesGrow /\ refused' \subseteq Accounts /\ faults' \in Nat
  BY SameProfiles DEF IInv, TypeOK
<1>3. CASE Stops(t)  BY <1>2, <1>3, StopStep
<1>4. CASE task' = [task EXCEPT ![t] = again]
  <2>1. /\ again \in Running /\ again.at = "reload" /\ again.account = c.account
        /\ again.kind = c.kind /\ again.email = c.email
        /\ again.member = c.member /\ again.source = c.source /\ again.seen = c.seen
    <3>1. c \in Running  BY <1>1
    <3> HIDE DEF c
    <3>2. again \in Running  BY ONLY <3>1 DEF Running
    <3>3. /\ again.at = "reload" /\ again.account = c.account
          /\ again.kind = c.kind /\ again.email = c.email
      BY ONLY <3>1 DEF Running
    <3>4. again.member = c.member /\ again.source = c.source /\ again.seen = c.seen
      BY ONLY <3>1 DEF Running
    <3> QED  BY ONLY <3>2, <3>3, <3>4
  <2>2. Published(c.account, 1)
    <3>1. c.version \in 1..Version(c.account) /\ Version(c.account) \in Nat
      BY <1>1, AccountRows DEF Sound, Published, IInv
    <3> QED  BY <3>1 DEF Published
  <2> HIDE DEF again, c
  <2>3. Sound(again) /\ Fits(again)  BY <1>1, <2>1, <2>2 DEF Sound, Reading, Fits
  <2> QED  BY <1>2, <1>4, <2>1, <2>3, GoStep
<1> QED  BY <1>3, <1>4 DEF Superseded

\* The first transaction of a snapshot.
LEMMA BeginSnapshotStep ==
  ASSUME IInv, NEW t \in Tasks, BeginSnapshot(t)
  PROVE  Kept
<1> DEFINE c == task[t]
           a == c.account
           v == c.version
           row == [mapping[a] EXCEPT !.version = v,
                                     !.ready = mapping[a].ready /\ mapping[a].version = v]
           completing == [c EXCEPT !.at = "complete"]
<1>1. /\ c.at = "begin" /\ c \in Running /\ Sound(c) /\ Fits(c) /\ a \in Accounts
      /\ Published(a, v) /\ Acts(c)
      /\ c.kind \notin {"webhook", "access"} => c.email \in Verified(a, v)
  BY KnownTask DEF BeginSnapshot, Is, Sound, Reading
<1>2. mapping[a] \in Mapping /\ c.user = mapping[a].user /\ c.user \in Users
  BY <1>1, AccountRows DEF IInv, Acts, Mapping
<1>3. CASE ~Accepts(mapping[a], v)
  <2>1. /\ Superseded(t) /\ c.at \in {"begin", "complete"}
        /\ UNCHANGED <<scope, snapshots, deleted, events, profiles, mapping, members, links,
                       refused, changes, calls, faults>>
    BY <1>1, <1>3 DEF BeginSnapshot, clerk
  <2> QED  BY <2>1, SupersededStep
<1>4. CASE Accepts(mapping[a], v)
  <2>1. /\ mapping' = [mapping EXCEPT ![a] = row] /\ links' = Revoked(c.user, Verified(a, v))
        /\ task' = [task EXCEPT ![t] = completing]
        /\ UNCHANGED <<scope, snapshots, deleted, events, profiles, members, refused,
                       changes, calls, faults>>
    BY <1>4 DEF BeginSnapshot, clerk, Goes
  <2>2. v \in Nat  BY <1>1 DEF Running
  <2>3. /\ row \in Mapping /\ row.user = mapping[a].user /\ row.version = v
        /\ row.deleted = mapping[a].deleted
        /\ row.ready = (mapping[a].ready /\ mapping[a].version = v)
    BY <1>2, <2>2 DEF Mapping
  <2> HIDE DEF row
  <2>4. /\ completing \in Running /\ completing.at = "complete" /\ completing.account = a
        /\ completing.version = v /\ completing.user = c.user
        /\ completing.kind = c.kind /\ completing.email = c.email
        /\ completing.member = c.member /\ completing.source = c.source /\ completing.seen = c.seen
    BY ONLY <1>1 DEF Running
  <2>5. ~mapping[a].deleted /\ mapping[a].version <= v  BY <1>4 DEF Accepts
  <2>6. mapping[a] # None  BY <1>1 DEF Acts
  <2> HIDE DEF completing, c, a, v
  <2>7. Grows /\ mapping' \in [Accounts -> Mapping \union {None}] /\ MappedOnce' /\ MappedAreRegistered'
    BY <1>1, <2>1, <2>3, <2>5, <2>6, RowChange, SameProfiles DEF IInv
  <2> DEFINE rows == Revoked(c.user, Verified(a, v))
  <2>8. /\ rows \in [Emails -> Link \union {None}]
        /\ ResolvedTo(c.user, rows) \subseteq Verified(a, v)
        /\ \A w \in Users : ResolvedTo(w, rows) \subseteq ResolvedTo(w, links)
        /\ Terminal(rows, members)
    BY <1>2, RevokedLinks
  <2>9. links' = rows  BY <2>1
  <2> HIDE DEF rows
  <2>10. Terminal(links, members)'  BY <2>1, <2>8, <2>9 DEF Terminal, ResolvedTo
  <2>11. \A b \in Accounts : b # a /\ mapping[b] # None =>
           ResolvedTo(mapping[b].user, links') \subseteq ResolvedTo(mapping[b].user, links)
    BY <2>8, <2>9, AccountRows DEF IInv, Mapping
  <2>12. Secure'
    BY <1>1, <1>2, <2>1, <2>3, <2>5, <2>7, <2>8, <2>9, <2>10, <2>11, GrantStep
  <2>13. TypeOK'  BY <2>1, <2>4, <2>7, <2>8, <2>9 DEF IInv, TypeOK
  <2>14. Fits(completing)  BY <1>1, <2>4 DEF Fits
  <2>15. TasksOK'  BY <1>1, <1>2, <2>1, <2>3, <2>4, <2>7, <2>14, RowTask
  <2>16. EventsOK'  BY <2>1, <2>7, EventsGrow
  <2> QED  BY <2>7, <2>12, <2>13, <2>15, <2>16 DEF Kept
<1> QED  BY <1>3, <1>4

\* A step of a task that leaves Clerk and the mapping alone, and no account with a
\* link that its snapshot does not say.
LEMMA LinksStep ==
  ASSUME IInv, NEW t \in Tasks, NEW c \in Running \union {NoTask},
         task' = [task EXCEPT ![t] = c], c # NoTask => Sound(c) /\ Fits(c),
         UNCHANGED <<scope, snapshots, deleted, profiles, mapping, refused, changes, calls, faults>>,
         events' \subseteq events, members' \subseteq Users,
         links' \in [Emails -> Link \union {None}], Terminal(links, members)',
         \A a \in Accounts : Ready(a) =>
           ResolvedTo(mapping[a].user, links') \subseteq Verified(a, mapping[a].version)
  PROVE  Kept
<1>1. Grows  BY SameGrows DEF IInv
<1>2. TypeOK'  BY DEF IInv, TypeOK
<1>3. c # NoTask => Sound(c)'  BY <1>1, SoundGrows
<1>4. TasksOK'  BY <1>1, <1>3, TaskStep
<1>5. EventsOK'  BY <1>1, EventsGrow
<1>6. MappedOnce' /\ MappedAreRegistered'
  BY DEF IInv, MappedOnce, MappedAreRegistered, Mapped, Registered
<1>7. Secure'
  BY <1>6, SecureStep DEF IInv, ReadyIsGranted, Ready
<1> QED  BY <1>1, <1>2, <1>4, <1>5, <1>7 DEF Kept

\* The second transaction of a snapshot.
LEMMA CompleteSnapshotStep ==
  ASSUME IInv, NEW t \in Tasks, CompleteSnapshot(t)
  PROVE  Kept
<1> DEFINE c == task[t]
           a == c.account
           v == c.version
           rows == Reconciled(c.user, Verified(a, v))
           row == [mapping[a] EXCEPT !.ready = TRUE]
           publishing == [c EXCEPT !.at = "publish"]
<1>1. /\ c.at = "complete" /\ c \in Running /\ Sound(c) /\ Fits(c) /\ a \in Accounts
      /\ Published(a, v) /\ Acts(c)
      /\ c.kind \notin {"webhook", "access"} => c.email \in Verified(a, v)
  BY KnownTask DEF CompleteSnapshot, Is, Sound, Reading
<1>2. /\ mapping[a] \in Mapping /\ c.user = mapping[a].user /\ c.user \in Users
      /\ mapping[a] # None
  BY <1>1, AccountRows DEF IInv, Acts, Mapping
<1>3. /\ rows \in [Emails -> Link \union {None}]
      /\ ResolvedTo(c.user, rows) \subseteq Verified(a, v)
      /\ \A w \in Users : w # c.user => ResolvedTo(w, rows) \subseteq ResolvedTo(w, links)
      /\ Terminal(rows, members)
  BY <1>2, ReconciledLinks
<1>4. \A b \in Accounts : b # a /\ mapping[b] # None =>
        ResolvedTo(mapping[b].user, rows) \subseteq ResolvedTo(mapping[b].user, links)
  <2> SUFFICES ASSUME NEW b \in Accounts, b # a, mapping[b] # None
               PROVE  mapping[b].user \in Users /\ mapping[b].user # c.user
    BY <1>3
  <2>1. mapping[b].user \in Users  BY AccountRows DEF IInv, Mapping
  <2> QED  BY <1>1, <1>2, <2>1 DEF IInv, MappedOnce
<1>5. CASE Superseded(t) /\ UNCHANGED <<profiles, mapping, links, events>>
  <2>1. /\ c.at \in {"begin", "complete"}
        /\ UNCHANGED <<scope, snapshots, deleted, events, profiles, mapping, members, links,
                       refused, changes, calls, faults>>
    BY <1>1, <1>5 DEF CompleteSnapshot
  <2> QED  BY <1>5, <2>1, SupersededStep
<1>6. CASE Stops(t) /\ UNCHANGED <<profiles, mapping, links, events>>
  <2>1. UNCHANGED <<scope, snapshots, deleted, members, refused, changes, calls, faults>>
    BY DEF CompleteSnapshot
  <2>2. /\ ProfilesGrow /\ refused' \subseteq Accounts
        /\ faults' \in Nat
    BY <1>6, <2>1, SameProfiles DEF IInv, TypeOK
  <2> QED  BY <1>6, <2>1, <2>2, StopStep
<1>7. CASE IsCurrent(mapping[a], v) /\ ~HasIdentity(a, v) /\ CompleteSnapshot(t) /\ links' = rows
           /\ Applied(t, None) /\ UNCHANGED <<profiles, mapping>>
  <2>1. /\ task' = [task EXCEPT ![t] = NoTask] /\ events' \subseteq events
        /\ UNCHANGED <<scope, snapshots, deleted, profiles, mapping, members, refused,
                       changes, calls, faults>>
    BY <1>7 DEF CompleteSnapshot, Applied, Continues, Stops
  <2> HIDE DEF rows, c, a, v
  <2>2. Terminal(links, members)'  BY <1>3, <1>7, <2>1 DEF Terminal, ResolvedTo
  <2>3. \A b \in Accounts : Ready(b) =>
          ResolvedTo(mapping[b].user, links') \subseteq Verified(b, mapping[b].version)
    <3> SUFFICES ASSUME NEW b \in Accounts, Ready(b)
                 PROVE  ResolvedTo(mapping[b].user, rows) \subseteq Verified(b, mapping[b].version)
      BY <1>7
    <3>1. CASE b = a  BY <1>2, <1>3, <1>7, <3>1 DEF IsCurrent
    <3>2. CASE b # a
      <4>1. ResolvedTo(mapping[b].user, links) \subseteq Verified(b, mapping[b].version)
        BY DEF IInv, ReadyMeansApplied
      <4> QED  BY <1>4, <3>2, <4>1 DEF Ready
    <3> QED  BY <3>1, <3>2
  <2>4. members' \subseteq Users  BY <2>1 DEF IInv, TypeOK
  <2> QED  BY <1>3, <1>7, <2>1, <2>2, <2>3, <2>4, LinksStep
<1>8. CASE /\ IsCurrent(mapping[a], v) /\ links' = rows
           /\ profiles' = [profiles EXCEPT ![c.user].active = TRUE]
           /\ mapping' = [mapping EXCEPT ![a].ready = TRUE]
           /\ Goes(t, "publish") /\ UNCHANGED events
  <2>1. /\ mapping' = [mapping EXCEPT ![a] = row] /\ task' = [task EXCEPT ![t] = publishing]
        /\ UNCHANGED <<scope, snapshots, deleted, events, members, refused, changes, calls, faults>>
    BY <1>8 DEF CompleteSnapshot, Goes
  <2>2. /\ row \in Mapping /\ row.user = mapping[a].user /\ row.version = mapping[a].version
        /\ row.deleted = mapping[a].deleted
    BY <1>2 DEF Mapping
  <2> HIDE DEF row
  <2>3. /\ publishing \in Running /\ publishing.at = "publish" /\ publishing.account = a
        /\ publishing.version = v /\ publishing.user = c.user
        /\ publishing.kind = c.kind /\ publishing.email = c.email
        /\ publishing.member = c.member /\ publishing.source = c.source /\ publishing.seen = c.seen
    BY ONLY <1>1 DEF Running
  <2>4. ~mapping[a].deleted /\ mapping[a].version = v  BY <1>8 DEF IsCurrent
  <2>5. mapping[a].version <= row.version  BY <1>2, <2>2 DEF Mapping
  <2>6. ProfilesGrow
    <3> DEFINE profile == [profiles[c.user] EXCEPT !.active = TRUE]
    <3>1. profiles[c.user] \in Profile
      BY <1>1, <1>2 DEF IInv, TypeOK, MappedAreRegistered, Mapped, Registered
    <3>2. profile \in Profile /\ profile # None  BY <3>1, NoneAssumption DEF Profile
    <3>3. profiles' = [profiles EXCEPT ![c.user] = profile]  BY <1>8
    <3> HIDE DEF profile
    <3> QED  BY <3>2, <3>3 DEF IInv, TypeOK, ProfilesGrow, Registered
  <2> HIDE DEF publishing, rows, c, a, v
  <2>7. Grows /\ mapping' \in [Accounts -> Mapping \union {None}] /\ MappedOnce' /\ MappedAreRegistered'
    BY <1>1, <1>2, <2>1, <2>2, <2>5, <2>6, RowChange
  <2>8. Terminal(links, members)'  BY <1>3, <1>8, <2>1 DEF Terminal, ResolvedTo
  <2>9. \A b \in Accounts : b # a /\ mapping[b] # None =>
          ResolvedTo(mapping[b].user, links') \subseteq ResolvedTo(mapping[b].user, links)
    BY <1>4, <1>8
  <2>10. ~row.deleted /\ Published(a, row.version)
        /\ ResolvedTo(row.user, links') \subseteq Verified(a, row.version)
    BY <1>1, <1>2, <1>3, <1>8, <2>2, <2>4
  <2>11. Secure'
    BY <1>1, <2>1, <2>2, <2>7, <2>8, <2>9, <2>10, GrantStep
  <2>12. TypeOK'  BY <1>3, <1>8, <2>1, <2>3, <2>7, <2>6 DEF IInv, TypeOK, ProfilesGrow
  <2>13. Fits(publishing)  BY <1>1, <2>3 DEF Fits
  <2>14. TasksOK'  BY <1>1, <1>2, <2>1, <2>2, <2>3, <2>7, <2>13, RowTask
  <2>15. EventsOK'  BY <2>1, <2>7, EventsGrow
  <2> QED  BY <2>7, <2>11, <2>12, <2>14, <2>15 DEF Kept
<1> QED  BY <1>5, <1>6, <1>7, <1>8 DEF CompleteSnapshot

\* The identity is published in the metadata of the account.
LEMMA PublishUidStep ==
  ASSUME IInv, NEW t \in Tasks, PublishUid(t)
  PROVE  Kept
<1> DEFINE c == task[t]
           a == c.account
           now == snapshots[a][Len(snapshots[a])]
           published == [now EXCEPT !.uid = c.user]
           revoking == [c EXCEPT !.at = "revoke"]
<1>1. /\ c.at = "publish" /\ c \in Running /\ Sound(c) /\ Fits(c) /\ a \in Accounts
      /\ Published(a, c.version) /\ Acts(c)
  BY KnownTask DEF PublishUid, Is, Sound, Reading
<1>2. mapping[a] # None /\ c.user = mapping[a].user /\ c.user \in Users
  BY <1>1, AccountRows DEF IInv, Acts, Mapping
<1>3. UNCHANGED <<scope, deleted, profiles, mapping, members, links, refused, changes, calls, faults>>
  BY DEF PublishUid, database
<1>4. ProfilesGrow  BY <1>3, SameProfiles DEF IInv
<1>5. ASSUME NEW u, u = c.user, Continues(t, u)
      PROVE  \/ Stops(t)
             \/ \E d \in Running :
                  d # NoTask /\ Sound(d) /\ Fits(d) /\ task' = [task EXCEPT ![t] = d]
  <2>1. u \in Users /\ mapping[c.account] # None /\ u = mapping[c.account].user
    BY <1>2, <1>5
  <2>2. c.at \in Reading  BY <1>1 DEF Reading
  <2> QED  BY <1>5, <2>1, <2>2, ContinueStep
<1>6. CASE Applied(t, c.user) /\ UNCHANGED snapshots
  <2>1. Continues(t, c.user) /\ events' \subseteq events  BY <1>6 DEF Applied
  <2>2. CASE Stops(t)
    <3>1. refused' \subseteq Accounts /\ faults' \in Nat  BY <1>3 DEF IInv, TypeOK
    <3> QED  BY <1>3, <1>4, <1>6, <2>1, <2>2, <3>1, StopStep
  <2>3. CASE ~Stops(t)  BY <1>3, <1>4, <1>5, <1>6, <2>1, <2>3, GoStep
  <2> QED  BY <2>2, <2>3
<1>7. CASE NotFound(t) /\ UNCHANGED snapshots
  <2>1. revoking \in Running /\ Sound(revoking) /\ Fits(revoking)
    BY <1>1 DEF Running, Sound, Reading, Fits
  <2>2. task' = [task EXCEPT ![t] = revoking] /\ events' \subseteq events
    BY <1>7 DEF NotFound, Goes
  <2> HIDE DEF revoking
  <2> QED  BY <1>3, <1>4, <1>7, <2>1, <2>2, GoStep
<1>8. ASSUME NEW b \in Accounts, b = a, Continues(t, c.user),
             snapshots' = [snapshots EXCEPT ![a] = Append(@, published)],
             events' = (events \union {<<a, Version(a) + 1>>}) \ Answered(t)
      PROVE  Kept
  <2>1. published \in Snapshot
    <3>1. c.version \in 1..Version(a) /\ Version(a) \in Nat
      BY <1>1, AccountRows DEF Published, IInv
    <3>2. now \in Snapshot  BY <1>1, <3>1, AccountRows DEF IInv, Version
    <3> QED  BY <1>2, <3>2 DEF Snapshot
  <2> HIDE DEF published
  <2>2. Grows /\ snapshots' \in [Accounts -> Seq(Snapshot)]
    BY <1>1, <1>3, <1>8, <2>1, PublishesGrows DEF IInv
  <2>3. Published(b, 1)'
    <3>1. snapshots' = [snapshots EXCEPT ![b] = Append(@, published)]  BY <1>8
    <3>2. Version(b)' = Version(b) + 1
      BY <2>1, <3>1, AccountRows DEF IInv, TypeOK, Version
    <3> QED  BY <3>2, AccountRows DEF IInv, Published
  <2>4. events' \subseteq Accounts \X Nat /\ EventsOK'
    <3>1. events' \subseteq events \union {<<b, Version(b) + 1>>}  BY <1>8
    <3>2. EventsOK'  BY <2>2, <2>3, <3>1, EventsGrow
    <3> QED  BY <3>1, <3>2, AccountRows DEF IInv, TypeOK
  <2>5. Secure'  BY <1>3, <1>4, <2>2, SameSecure
  <2>6. task' \in [Tasks -> Running \union {NoTask}] /\ TasksOK'
    <3>1. CASE Stops(t)  BY <2>2, <3>1, TaskStep DEF Stops, IInv, TypeOK
    <3>2. CASE ~Stops(t)
      <4>1. PICK d \in Running :
              d # NoTask /\ Sound(d) /\ Fits(d) /\ task' = [task EXCEPT ![t] = d]
        BY <1>5, <1>8, <3>2
      <4>2. Sound(d)'  BY <2>2, <4>1, SoundGrows
      <4>3. TasksOK'  BY <2>2, <4>1, <4>2, TaskStep
      <4> QED  BY <4>1, <4>3 DEF IInv, TypeOK
    <3> QED  BY <3>1, <3>2
  <2>7. TypeOK'  BY <1>3, <2>2, <2>4, <2>6 DEF IInv, TypeOK
  <2> QED  BY <1>4, <2>2, <2>4, <2>5, <2>6, <2>7 DEF Kept
<1> QED  BY <1>1, <1>6, <1>7, <1>8 DEF PublishUid

\* The mapping of a deleted account is marked.
LEMMA RevokeStep ==
  ASSUME IInv, NEW t \in Tasks, Revoke(t)
  PROVE  Kept
<1> DEFINE c == task[t]
           a == c.account
           row == [mapping[a] EXCEPT !.ready = FALSE, !.deleted = TRUE]
           unlinking == [c EXCEPT !.at = "unlink", !.user = mapping[a].user]
<1>1. /\ c.at = "revoke" /\ c \in Running /\ Sound(c) /\ Fits(c) /\ a \in Accounts
  BY KnownTask DEF Revoke, Is, Sound, Reading
<1>2. UNCHANGED <<scope, snapshots, deleted, profiles, members, links, refused,
                  changes, calls, faults>>
  BY DEF Revoke
<1>3. ProfilesGrow /\ refused' \subseteq Accounts /\ faults' \in Nat
  BY <1>2, SameProfiles DEF IInv, TypeOK
<1>4. CASE mapping[a] = None
  <2>1. Stops(t) /\ events' \subseteq events /\ mapping' = mapping
    BY <1>4 DEF Revoke, Finishes
  <2> QED  BY <1>2, <1>3, <2>1, StopStep
<1>5. CASE mapping[a] # None
  <2>1. /\ mapping' = [mapping EXCEPT ![a] = row] /\ task' = [task EXCEPT ![t] = unlinking]
        /\ events' = events
    BY <1>5 DEF Revoke
  <2>2. mapping[a] \in Mapping /\ mapping[a].user \in Users
    BY <1>1, <1>5, AccountRows DEF IInv, Mapping
  <2>3. /\ row \in Mapping /\ row.user = mapping[a].user /\ row.version = mapping[a].version
        /\ row.deleted /\ ~row.ready
    BY <2>2 DEF Mapping
  <2> HIDE DEF row
  <2>4. /\ unlinking \in Running /\ unlinking.at = "unlink" /\ unlinking.account = a
        /\ unlinking.user = mapping[a].user /\ unlinking.kind = c.kind /\ unlinking.email = c.email
        /\ unlinking.member = c.member /\ unlinking.source = c.source /\ unlinking.seen = c.seen
    BY ONLY <1>1, <2>2 DEF Running
  <2>5. mapping[a].version <= row.version  BY <2>2, <2>3 DEF Mapping
  <2> HIDE DEF unlinking, c, a
  <2>6. /\ Grows /\ mapping' \in [Accounts -> Mapping \union {None}]
        /\ MappedOnce' /\ MappedAreRegistered'
    BY <1>1, <1>2, <1>3, <1>5, <2>1, <2>3, <2>5, RowChange
  <2>7. Terminal(links, members)'  BY <1>2 DEF IInv, Terminal, ResolvedTo
  <2>8. Secure'  BY <1>1, <1>2, <2>1, <2>3, <2>6, <2>7, GrantStep
  <2>9. TypeOK'  BY <1>2, <2>1, <2>4, <2>6 DEF IInv, TypeOK
  <2>10. Fits(unlinking)  BY <1>1, <2>4 DEF Fits
  <2>11. TasksOK'  BY <1>1, <1>2, <2>1, <2>3, <2>4, <2>6, <2>10, RowTask
  <2>12. EventsOK'  BY <2>1, <2>6, EventsGrow
  <2> QED  BY <2>6, <2>8, <2>9, <2>11, <2>12 DEF Kept
<1> QED  BY <1>4, <1>5

\* A mapped user is one of the users.
LEMMA MappedUser ==
  ASSUME IInv, NEW a \in Accounts, mapping[a] # None
  PROVE  mapping[a].user \in Users
BY AccountRows DEF IInv, Mapping

\* The aliases of a deleted account go.
LEMMA UnlinkStep ==
  ASSUME IInv, NEW t \in Tasks, Unlink(t)
  PROVE  Kept
<1> DEFINE u == task[t].user
           rows == Reconciled(u, {})
<1>1. task[t].account \in Accounts /\ Acts(task[t])
  BY KnownTask DEF Unlink, Is, Sound
<1>2. u \in Users  BY <1>1, MappedUser DEF Acts
<1>3. /\ rows \in [Emails -> Link \union {None}] /\ Terminal(rows, members)
      /\ \A w \in Users : ResolvedTo(w, rows) \subseteq ResolvedTo(w, links)
  BY <1>2, ReconciledLinks
<1>4. /\ links' = rows /\ events' \subseteq events /\ task' = [task EXCEPT ![t] = NoTask]
      /\ UNCHANGED <<scope, snapshots, deleted, profiles, mapping, members, refused,
                     changes, calls, faults>>
  BY DEF Unlink, Finishes, Stops
<1> HIDE DEF rows
<1>5. \A a \in Accounts : Ready(a) =>
        ResolvedTo(mapping[a].user, links') \subseteq Verified(a, mapping[a].version)
  <2> SUFFICES ASSUME NEW a \in Accounts, Ready(a)
               PROVE  ResolvedTo(mapping[a].user, rows) \subseteq Verified(a, mapping[a].version)
    BY <1>4
  <2>1. mapping[a].user \in Users  BY MappedUser DEF Ready
  <2>2. ResolvedTo(mapping[a].user, links) \subseteq Verified(a, mapping[a].version)
    BY DEF IInv, ReadyMeansApplied
  <2> QED  BY <1>3, <2>1, <2>2
<1>6. Terminal(links, members)' /\ members' \subseteq Users
  BY <1>3, <1>4 DEF Terminal, ResolvedTo, IInv, TypeOK
<1> QED  BY <1>3, <1>4, <1>5, <1>6, LinksStep

-----------------------------------------------------------------------------
\* The writes of the coordinator's actions.

\* A proven write gives an account no link that its snapshot does not say.
LEMMA ProvenLinks ==
  ASSUME IInv, NEW t \in Tasks, Is(t, "write"), NEW rows,
         task[t].user # None => Proves(task[t].user, task[t].email, task[t].proof),
         \A w \in Users : ResolvedTo(w, rows) \subseteq
           ResolvedTo(w, links) \union (IF w = task[t].user THEN {task[t].email} ELSE {}),
         NEW a \in Accounts, Ready(a)
  PROVE  ResolvedTo(mapping[a].user, rows) \subseteq Verified(a, mapping[a].version)
<1> DEFINE c == task[t]
<1>1. mapping[a] # None /\ mapping[a].user \in Users  BY MappedUser DEF Ready
<1>2. ResolvedTo(mapping[a].user, links) \subseteq Verified(a, mapping[a].version)
  BY DEF IInv, ReadyMeansApplied
<1>3. CASE mapping[a].user # c.user  BY <1>1, <1>2, <1>3
<1>4. CASE mapping[a].user = c.user
  <2>1. Proves(c.user, c.email, c.proof)  BY <1>1, <1>4, NoneAssumption
  <2>2. c.user \in Mapped  BY <1>1, <1>4 DEF Mapped
  <2>3. c.proof # None  BY <2>1, <2>2 DEF Proves, Claimable
  <2>4. /\ c.account \in Accounts /\ Acts(c) /\ c.email \in Verified(c.account, c.proof)
    BY <2>3, KnownTask DEF Is, Sound
  <2>5. c.account = a  BY <1>1, <1>4, <2>4 DEF Acts, IInv, MappedOnce
  <2>6. mapping[a].version = c.proof
    BY <1>1, <1>4, <2>1, <2>3 DEF Proves, IInv, MappedOnce
  <2> QED  BY <1>1, <1>2, <2>4, <2>5, <2>6
<1> QED  BY <1>3, <1>4

\* Only a user is proven to be an identity.
LEMMA ProvenUser ==
  ASSUME IInv, NEW u, NEW e, NEW proof, Proves(u, e, proof)
  PROVE  u \in Users
BY MappedUser DEF Proves, ProfilesWith, Registered

\* addMember.
LEMMA WriteMemberStep ==
  ASSUME IInv, NEW t \in Tasks, WriteMember(t)
  PROVE  Kept
<1> DEFINE u == task[t].user
<1>1. /\ task' = [task EXCEPT ![t] = NoTask]
      /\ UNCHANGED <<scope, snapshots, deleted, events, profiles, mapping, links, refused,
                     changes, calls, faults>>
  BY DEF WriteMember, Stops, clerk
<1>2. \/ members' = members
      \/ u \in Users /\ ResolvedTo(u, links) = {} /\ members' = members \union {u}
  BY ProvenUser DEF WriteMember
<1> HIDE DEF u
<1>3. members' \subseteq Users /\ links' \in [Emails -> Link \union {None}]
  BY <1>1, <1>2 DEF IInv, TypeOK
<1>4. Terminal(links, members)'
  BY <1>1, <1>2 DEF IInv, Terminal, ResolvedTo
<1>5. \A a \in Accounts : Ready(a) =>
        ResolvedTo(mapping[a].user, links') \subseteq Verified(a, mapping[a].version)
  BY <1>1 DEF IInv, ReadyMeansApplied
<1> QED  BY <1>1, <1>3, <1>4, <1>5, LinksStep

\* linkMemberEmail.
LEMMA WriteLinkStep ==
  ASSUME IInv, NEW t \in Tasks, WriteLink(t)
  PROVE  Kept
<1> DEFINE c == task[t]
           row == [member |-> c.member, linked |-> c.user]
           rows == [links EXCEPT ![c.email] = row]
           refresh == [Call("refresh", c.email) EXCEPT !.member = c.member]
<1>1. /\ Is(t, "write") /\ c \in Running /\ Fits(c) /\ c.kind = "link"
      /\ c.email \in Emails /\ c.member \in Users
  BY KnownTask DEF WriteLink, Is, Fits
<1>2. UNCHANGED <<scope, snapshots, deleted, events, profiles, mapping, members, refused,
                  changes, calls, faults>>
  BY DEF WriteLink, clerk
<1>3. \/ links' = links
      \/ /\ links' = rows /\ Terminal(rows, members)
         /\ c.user # None => Proves(c.user, c.email, c.proof)
  BY DEF WriteLink
<1>4. task' = [task EXCEPT ![t] = refresh] \/ task' = [task EXCEPT ![t] = NoTask]
  BY DEF WriteLink, Stops
<1>5. refresh \in Running /\ Sound(refresh) /\ Fits(refresh)
  <2>1. /\ refresh \in Running /\ refresh.at = "lookup" /\ refresh.kind = "refresh"
        /\ refresh.email = c.email /\ refresh.proof = None
    BY <1>1 DEF Call, Began, Running
  <2> HIDE DEF refresh, c
  <2> QED  BY <1>1, <2>1 DEF Sound, Reading, Fits
<1>6. row \in Link /\ row # None  BY <1>1, NoneAssumption DEF Link, Running
<1>7. row.linked = c.user  OBVIOUS
<1> HIDE DEF refresh, row
<1>8. rows \in [Emails -> Link \union {None}]  BY <1>1, <1>6 DEF IInv, TypeOK
<1>9. \A w \in Users : ResolvedTo(w, rows) \subseteq
        ResolvedTo(w, links) \union (IF w = c.user THEN {c.email} ELSE {})
  BY <1>1, <1>7 DEF ResolvedTo, IInv, TypeOK
<1> HIDE DEF rows
<1>10. \A a \in Accounts : Ready(a) =>
         ResolvedTo(mapping[a].user, links') \subseteq Verified(a, mapping[a].version)
  <2>1. CASE links' = links  BY <2>1 DEF IInv, ReadyMeansApplied
  <2>2. CASE links' # links  BY <1>1, <1>3, <1>9, <2>2, ProvenLinks
  <2> QED  BY <2>1, <2>2
<1>11. /\ links' \in [Emails -> Link \union {None}] /\ members' \subseteq Users
       /\ Terminal(links, members)'
  <2>1. links' \in [Emails -> Link \union {None}] /\ members' \subseteq Users
    BY <1>2, <1>3, <1>8 DEF IInv, TypeOK
  <2>2. CASE links' = links
    BY <1>2, <2>1, <2>2 DEF IInv, Terminal, ResolvedTo
  <2>3. CASE links' = rows /\ Terminal(rows, members)
    BY <1>2, <2>1, <2>3 DEF Terminal, ResolvedTo
  <2> QED  BY <1>3, <2>1, <2>2, <2>3
<1> QED  BY <1>2, <1>4, <1>5, <1>10, <1>11, LinksStep

\* unify_project_members.
LEMMA WriteUnificationStep ==
  ASSUME IInv, NEW t \in Tasks, WriteUnification(t)
  PROVE  Kept
<1> DEFINE c == task[t]
           rows == UnifiedLinks(c)
           who == members \ {c.source}
           row == [member |-> c.member, linked |-> c.user]
           passed(e) == IF e \in Linked /\ links[e].member = c.source
                        THEN [links[e] EXCEPT !.member = c.member] ELSE links[e]
<1>1. /\ Is(t, "write") /\ c \in Running /\ Fits(c) /\ c.email \in Emails /\ c.member \in Users
  BY KnownTask DEF WriteUnification, Is, Fits
<1>2. /\ UNCHANGED <<scope, snapshots, deleted, events, profiles, mapping, refused,
                     changes, calls, faults>>
      /\ task' = [task EXCEPT ![t] = NoTask]
  BY DEF WriteUnification, Stops, clerk
<1>3. \/ links' = links /\ members' = members
      \/ /\ links' = rows /\ members' = who /\ Terminal(rows, who)
         /\ Proves(c.user, c.email, c.proof)
  BY DEF WriteUnification, MayUnify
<1>4. \A e \in Emails : rows[e] = IF e = c.email THEN row ELSE passed(e)
  BY <1>1 DEF UnifiedLinks
<1>5. row \in Link /\ row.linked = c.user  BY <1>1 DEF Link, Running
<1>6. ASSUME NEW e \in Emails
      PROVE  /\ passed(e) \in Link \union {None}
             /\ passed(e) # None => links[e] # None /\ passed(e).linked = links[e].linked
  <2>1. links[e] \in Link \union {None}  BY DEF IInv, TypeOK
  <2>2. CASE e \in Linked /\ links[e].member = c.source
    <3>1. links[e] # None /\ links[e] \in Link  BY <2>1, <2>2 DEF Linked
    <3> QED  BY <1>1, <2>2, <3>1 DEF Link
  <2>3. CASE ~(e \in Linked /\ links[e].member = c.source)  BY <2>1, <2>3
  <2> QED  BY <2>2, <2>3
<1>7. rows = [e \in Emails |-> rows[e]]  BY DEF UnifiedLinks
<1> HIDE DEF row, passed, rows, who
<1>8. rows \in [Emails -> Link \union {None}]  BY <1>4, <1>5, <1>6, <1>7
<1>9. \A w \in Users : ResolvedTo(w, rows) \subseteq
        ResolvedTo(w, links) \union (IF w = c.user THEN {c.email} ELSE {})
  BY <1>4, <1>5, <1>6 DEF ResolvedTo
<1>10. \A a \in Accounts : Ready(a) =>
         ResolvedTo(mapping[a].user, links') \subseteq Verified(a, mapping[a].version)
  <2>1. CASE links' = links  BY <2>1 DEF IInv, ReadyMeansApplied
  <2>2. CASE links' # links  BY <1>1, <1>3, <1>9, <2>2, ProvenLinks
  <2> QED  BY <2>1, <2>2
<1>11. /\ links' \in [Emails -> Link \union {None}] /\ members' \subseteq Users
       /\ Terminal(links, members)'
  <2>1. links' \in [Emails -> Link \union {None}] /\ members' \subseteq Users
    BY <1>3, <1>8 DEF who, IInv, TypeOK
  <2>2. CASE links' = links /\ members' = members
    BY <2>1, <2>2 DEF IInv, Terminal, ResolvedTo
  <2>3. CASE links' = rows /\ members' = who /\ Terminal(rows, who)
    BY <2>1, <2>3 DEF Terminal, ResolvedTo
  <2> QED  BY <1>3, <2>1, <2>2, <2>3
<1> QED  BY <1>2, <1>10, <1>11, LinksStep

\* A step of no task that only takes links and members away.
LEMMA FewerStep ==
  ASSUME IInv, NEW who \in SUBSET members, NEW rows, links' = rows, members' = who,
         rows = [e \in Emails |-> rows[e]],
         \A e \in Emails : rows[e] # None => rows[e] = links[e] /\ links[e].member \in who,
         UNCHANGED <<scope, snapshots, deleted, events, profiles, mapping, task, refused,
                     changes, faults>>,
         calls' \in Nat
  PROVE  Kept
<1>1. Grows /\ ProfilesGrow  BY SameGrows, SameProfiles DEF IInv
<1>2. \A e \in Emails : rows[e] \in Link \union {None}  BY DEF IInv, TypeOK
<1>3. TypeOK'  BY <1>2 DEF IInv, TypeOK
<1>4. TasksOK' /\ EventsOK'  BY <1>1, IdleTasks, EventsGrow
<1>5. \A w : w # None => ResolvedTo(w, rows) \subseteq ResolvedTo(w, links)
  BY DEF ResolvedTo
<1>6. Terminal(links, members)'
  <2> SUFFICES ASSUME NEW e \in Emails, rows[e] # None
               PROVE  /\ rows[e].member \in who
                      /\ rows[e].linked # None =>
                           /\ rows[e].linked \notin who
                           /\ \A f \in ResolvedTo(rows[e].linked, rows) : rows[f].member = rows[e].member
    BY DEF Terminal, ResolvedTo
  <2>1. rows[e] = links[e] /\ links[e].member \in who  OBVIOUS
  <2>2. links[e].linked # None =>
          /\ links[e].linked \notin who
          /\ \A f \in ResolvedTo(links[e].linked, links) : links[f].member = links[e].member
    BY <2>1 DEF IInv, Terminal
  <2>3. \A w : \A f \in ResolvedTo(w, rows) : f \in ResolvedTo(w, links) /\ rows[f] = links[f]
    BY DEF ResolvedTo
  <2> QED  BY <2>1, <2>2, <2>3
<1>7. MappedOnce' /\ MappedAreRegistered'
  BY DEF IInv, MappedOnce, MappedAreRegistered, Mapped, Registered
<1>8. \A a \in Accounts : mapping'[a] # None /\ mapping'[a].ready =>
        /\ ~mapping'[a].deleted /\ Published(a, mapping'[a].version)
        /\ ResolvedTo(mapping'[a].user, links') \subseteq Verified(a, mapping'[a].version)
  <2> SUFFICES ASSUME NEW a \in Accounts, Ready(a)
               PROVE  /\ ~mapping[a].deleted /\ Published(a, mapping[a].version)
                      /\ ResolvedTo(mapping[a].user, rows) \subseteq Verified(a, mapping[a].version)
    BY DEF Ready
  <2>1. mapping[a].user # None  BY MappedUser, NoneAssumption DEF Ready
  <2> QED  BY <1>5, <2>1 DEF IInv, ReadyIsGranted, ReadyMeansApplied
<1>9. Secure'  BY <1>6, <1>7, <1>8, SecureStep
<1> QED  BY <1>1, <1>3, <1>4, <1>9 DEF Kept

\* removeMember and unlinkMemberEmail.
LEMMA RemoveStep ==
  ASSUME IInv,
         \/ \E m \in members : RemoveMember(m)
         \/ \E e \in scope.emails : UnlinkMemberEmail(e)
  PROVE  Kept
<1>1. ASSUME NEW m \in members, RemoveMember(m)
      PROVE  Kept
  <2> DEFINE rows == [e \in Emails |-> IF e \in Linked /\ links[e].member = m THEN None ELSE links[e]]
  <2>1. /\ links' = rows /\ members' = members \ {m}
        /\ UNCHANGED <<scope, snapshots, deleted, events, profiles, mapping, task, refused,
                       changes, faults>>
    BY <1>1 DEF RemoveMember, clerk
  <2>2. calls' \in Nat  BY <1>1 DEF RemoveMember, Counted, IInv, TypeOK
  <2>3. rows = [e \in Emails |-> rows[e]]  OBVIOUS
  <2>4. ASSUME NEW e \in Emails, rows[e] # None
        PROVE  rows[e] = links[e] /\ links[e].member \in members \ {m}
    <3>1. rows[e] = links[e] /\ e \in Linked /\ links[e].member # m  BY <2>4 DEF Linked
    <3> QED  BY <3>1 DEF IInv, Terminal, Linked
  <2> HIDE DEF rows
  <2> QED  BY <2>1, <2>2, <2>3, <2>4, FewerStep
<1>2. ASSUME NEW e \in scope.emails, UnlinkMemberEmail(e)
      PROVE  Kept
  <2> DEFINE rows == [links EXCEPT ![e] = None]
  <2>1. /\ links' = rows /\ members' = members
        /\ UNCHANGED <<scope, snapshots, deleted, events, profiles, mapping, task, refused,
                       changes, faults>>
    BY <1>2 DEF UnlinkMemberEmail, clerk
  <2>2. calls' \in Nat  BY <1>2 DEF UnlinkMemberEmail, Counted, IInv, TypeOK
  <2>3. rows = [f \in Emails |-> rows[f]]  BY DEF IInv, TypeOK
  <2>4. \A f \in Emails : rows[f] # None => rows[f] = links[f] /\ links[f].member \in members
    BY DEF IInv, TypeOK, Terminal
  <2> HIDE DEF rows
  <2> QED  BY <2>1, <2>2, <2>3, <2>4, FewerStep
<1> QED  BY <1>1, <1>2

-----------------------------------------------------------------------------
\* The invariant.

\* At first no account is mapped, no task runs, and no link resolves.
LEMMA InitIInv == Init => IInv
<1> SUFFICES ASSUME Init PROVE IInv  OBVIOUS
<1>1. /\ scope \in Scopes /\ snapshots = [a \in Accounts |->
           IF a \in DOMAIN scope.signed THEN <<scope.signed[a]>> ELSE <<>>]
  BY DEF Init
<1>2. /\ DOMAIN scope.signed \subseteq Accounts
      /\ \A a \in DOMAIN scope.signed : scope.signed[a] \in Snapshot
      /\ DOMAIN scope.placeholders \subseteq Users
      /\ \A u \in DOMAIN scope.placeholders : scope.placeholders[u] \in Emails
      /\ \A e \in DOMAIN scope.links : scope.links[e] \in DOMAIN scope.placeholders
  BY <1>1, IdentityAssumption
<1>3. snapshots \in [Accounts -> Seq(Snapshot)]  BY <1>1, <1>2
<1>4. profiles \in [Users -> Profile \union {None}]
  <2>1. \A u \in DOMAIN scope.placeholders :
          [email |-> scope.placeholders[u], active |-> FALSE] \in Profile
    BY <1>2 DEF Profile
  <2> QED  BY <2>1 DEF Init
<1>5. links \in [Emails -> Link \union {None}]
  <2>1. \A e \in DOMAIN scope.links : [member |-> scope.links[e], linked |-> None] \in Link
    BY <1>2 DEF Link
  <2> QED  BY <2>1 DEF Init
<1>6. TypeOK  BY <1>1, <1>2, <1>3, <1>4, <1>5 DEF Init, TypeOK
<1>7. TasksOK /\ MappedOnce /\ MappedAreRegistered /\ ReadyIsGranted /\ ReadyMeansApplied
  BY DEF Init, TasksOK, MappedOnce, MappedAreRegistered, Mapped, ReadyIsGranted,
         ReadyMeansApplied, Ready
<1>8. EventsOK
  <2> SUFFICES ASSUME NEW a \in DOMAIN scope.signed
               PROVE  Published(a, 1)
    BY DEF Init, EventsOK
  <2>1. snapshots[a] = <<scope.signed[a]>>  BY <1>1, <1>2
  <2>2. Version(a) = 1  BY <2>1 DEF Version
  <2> QED  BY <2>2 DEF Published
<1>9. Terminal(links, members)
  BY <1>2 DEF Init, Terminal
<1> QED  BY <1>6, <1>7, <1>8, <1>9 DEF IInv

\* Every step.
LEMMA StepKept == IInv /\ Next => Kept
<1> SUFFICES ASSUME IInv, Next PROVE Kept  OBVIOUS
<1>1. scope.tasks \subseteq Tasks  BY IdentityAssumption DEF IInv, TypeOK
<1>2. CASE Clerk  BY <1>2, ClerkStep
<1>3. CASE Coordinates  BY <1>1, <1>3, CallStep, RemoveStep DEF Coordinates
<1>4. ASSUME NEW t \in Tasks, Reconciles(t)
      PROVE  Kept
  BY <1>4, ReloadStep, ReadMappingStep, ClaimStep, CreateUserStep, BeginSnapshotStep,
     CompleteSnapshotStep, PublishUidStep, RevokeStep, UnlinkStep DEF Reconciles
<1>5. ASSUME NEW t \in Tasks, Proceeds(t)
      PROVE  Kept
  BY <1>4, <1>5, LookupStep, DecideAddStep, DecideLinkStep, DecideUnifyStep, WriteMemberStep,
     WriteLinkStep, WriteUnificationStep, WriteEmailStep DEF Proceeds
<1>6. ASSUME NEW t \in Tasks,
             \/ Fail(t)
             \/ \E event \in events : Deliver(t, event)
             \/ \E a \in scope.accounts : CompleteAccess(t, a)
      PROVE  Kept
  BY <1>6, FailStep, StartStep
<1> QED  BY <1>1, <1>2, <1>3, <1>5, <1>6 DEF Next

\* A step that changes nothing.
LEMMA StutterKept == IInv /\ UNCHANGED vars => IInv' /\ Grows
<1> SUFFICES ASSUME IInv, UNCHANGED vars PROVE IInv' /\ Grows  OBVIOUS
<1>1. /\ UNCHANGED <<scope, snapshots, deleted, events, profiles, mapping, members, links,
                     task, refused, changes, calls, faults>>
  BY DEF vars
<1>2. Grows /\ ProfilesGrow  BY <1>1, SameGrows, SameProfiles DEF IInv
<1>3. TasksOK' /\ EventsOK' /\ Secure'  BY <1>1, <1>2, IdleTasks, EventsGrow, SameSecure
<1>4. TypeOK'  BY <1>1 DEF IInv, TypeOK
<1> QED  BY <1>2, <1>3, <1>4 DEF IInv, Secure

\* The invariant holds of every account, task and link, whatever their number.
THEOREM Invariance == Spec => []IInv
<1>1. IInv /\ [Next]_vars => IInv'
  BY StepKept, StutterKept DEF Kept, Secure, IInv
<1> QED  BY InitIInv, <1>1, PTL DEF Spec

\* The rows of the database, the states at Clerk and the tasks are of their types.
THEOREM TypeCorrect == Spec => []TypeOK
<1>1. IInv => TypeOK  BY DEF IInv
<1> QED  BY Invariance, <1>1, PTL

\* A ready account acts as a member only by the e-mails of the snapshot it is ready for,
\* whoever wrote the links and in whatever order (completeClerkSnapshot, linkMemberEmail,
\* unifyProjectMembers).
THEOREM ReadyIsApplied == Spec => []ReadyMeansApplied
<1>1. IInv => ReadyMeansApplied  BY DEF IInv
<1> QED  BY Invariance, <1>1, PTL

\* The grant of a snapshot is never refused by the triggers of the links: what
\* reconcile_member_email_links writes of consistent links is consistent.
THEOREM GrantsPass == Spec => []GrantsNeverRaise
<1>1. IInv => GrantsNeverRaise
  <2> SUFFICES ASSUME IInv, NEW t \in Tasks, Is(t, "complete")
               PROVE  Terminal(Reconciled(task[t].user, Verified(task[t].account, task[t].version)), members)
    BY DEF GrantsNeverRaise
  <2>1. task[t].account \in Accounts /\ Acts(task[t])
    BY KnownTask DEF Is, Sound, Reading
  <2>2. task[t].user \in Users  BY <2>1, MappedUser DEF Acts
  <2> QED  BY <2>2, ReconciledLinks
<1> QED  BY Invariance, <1>1, PTL

\* An older snapshot gives no access back, and a revocation is for ever.
THEOREM AccessIsMonotone == Spec => AccessNeverGoesBack
<1> DEFINE Step ==
      \A a \in Accounts :
        /\ mapping[a] # None =>
             /\ mapping'[a] # None /\ mapping'[a].user = mapping[a].user
             /\ mapping'[a].version >= mapping[a].version
        /\ mapping[a] # None /\ mapping[a].deleted => ~Ready(a)'
<1>1. IInv /\ IInv' /\ [Next]_vars => Step
  <2> SUFFICES ASSUME IInv, IInv', [Next]_vars, NEW a \in Accounts, mapping[a] # None
               PROVE  /\ mapping'[a] # None /\ mapping'[a].user = mapping[a].user
                      /\ mapping'[a].version >= mapping[a].version
                      /\ mapping[a].deleted => ~Ready(a)'
    OBVIOUS
  <2>1. Grows  BY StepKept, StutterKept DEF Kept
  <2>2. /\ mapping'[a] # None /\ mapping'[a].user = mapping[a].user
        /\ mapping[a].version <= mapping'[a].version
        /\ mapping[a].deleted => mapping'[a].deleted
    BY <2>1 DEF Grows
  <2>3. Ready(a)' => ~mapping'[a].deleted  BY DEF IInv, ReadyIsGranted
  <2>4. mapping[a].version \in Nat /\ mapping'[a].version \in Nat
    BY <2>2 DEF IInv, TypeOK, Mapping
  <2> QED  BY <2>2, <2>3, <2>4
<1>2. IInv /\ IInv' /\ [Next]_vars => [Step]_vars  BY <1>1
<1> HIDE DEF Step
<1>3. [][Step]_vars => AccessNeverGoesBack  BY PTL DEF Step, AccessNeverGoesBack
<1> QED  BY Invariance, <1>2, <1>3, PTL DEF Spec

-----------------------------------------------------------------------------
\* Deletions.
\*
\* A deletion may find no mapping, and one made after it must still be cut.  Only a
\* task that read the account before it was deleted makes one.  As nothing was
\* published of the account, this task has to publish, or is superseded and reads it
\* again: in both cases it finds the account deleted, and revokes.  Should it be a
\* webhook that fails, the webhook is repeated, and reads it too.

Cut(a) == mapping[a].deleted /\ ResolvedTo(mapping[a].user, links) = {}

\* The deliveries of webhooks.
Delivering == {t \in Tasks : task[t] # NoTask /\ task[t].kind = "webhook"}

\* A webhook is unanswered while its one delivery runs, and a deletion only revokes.
DeliveriesOK ==
  /\ \A t \in Delivering :
       /\ task[t].event \in events /\ task[t].account = task[t].event[1]
       /\ task[t].event[2] = 0 => task[t].at \in {"revoke", "unlink"}
  /\ \A t, x \in Delivering : task[t].event = task[x].event => t = x

NothingPublished(a) == \A v \in 1..Version(a) : snapshots[a][v].uid = None

\* Nothing is published of an account without mapping, and nothing superseded.
UnmappedOK ==
  \A a \in Accounts : mapping[a] = None =>
    /\ NothingPublished(a)
    /\ \A t \in Tasks : task[t] # NoTask /\ task[t].account = a => task[t].tries = 1

\* Aliases go after the mapping was marked.
UnlinksOK ==
  \A t \in Tasks : Is(t, "unlink") => mapping[task[t].account].deleted

\* The task c cuts the deleted account a, if it does not fail.
Cuts(c, a) ==
  /\ c # NoTask /\ c.account = a
  /\ \/ c.at \in {"reload", "revoke", "unlink", "publish"}
     \/ c.at \in {"begin", "complete"} /\ c.tries = 1 /\ HasIdentity(a, c.version)

\* A webhook of the account waits for its delivery.
Waits(a) ==
  \E event \in events : event[1] = a /\ \A t \in Delivering : task[t].event # event

CutsOK ==
  OnlyRepeatedCallsFail =>
    \A a \in deleted : <<a, 0>> \notin events /\ mapping[a] # None /\ ~Cut(a) =>
      NothingPublished(a) /\ (Waits(a) \/ \E t \in Tasks : Cuts(task[t], a))

CutInv == DeliveriesOK /\ UnmappedOK /\ UnlinksOK /\ CutsOK

\* No account that is revoked gets an alias.
NoNewAlias ==
  \A a \in Accounts : mapping[a] # None /\ mapping[a].deleted =>
    ResolvedTo(mapping[a].user, links') \subseteq ResolvedTo(mapping[a].user, links)

\* The task goes on for what it was called for, or it stops.
GoesOn(t) ==
  /\ task' = [task EXCEPT ![t] = task'[t]]
  /\ \A event \in events : event \in events' \/ event \in Answered(t)
  /\ task'[t] # NoTask => events \subseteq events'
  /\ task'[t] # NoTask /\ task'[t].kind = "webhook" =>
       /\ task[t].kind = "webhook"
       /\ task'[t].event = task[t].event /\ task'[t].account = task[t].account
       /\ task[t].at \in {"revoke", "unlink"} => task'[t].at \in {"revoke", "unlink"}
  /\ task'[t] # NoTask /\ task'[t].tries # 1 =>
       /\ task'[t].account = task[t].account
       /\ task'[t].tries = task[t].tries \/ mapping[task[t].account] # None
  /\ task'[t] # NoTask /\ task'[t].at = "unlink" => mapping'[task'[t].account].deleted

\* What it publishes, maps and answers of an account.
Minds(t) ==
  /\ \A a \in Accounts : mapping[a] = None \/ a \in deleted => snapshots'[a] = snapshots[a]
  /\ \A a \in Accounts : mapping[a] = None /\ mapping'[a] # None =>
       Cuts(task'[t], a) /\ snapshots' = snapshots
  /\ \A a \in Accounts : <<a, 0>> \in events /\ <<a, 0>> \notin events' =>
       mapping'[a] = None \/ Cut(a)'

\* A task that cuts the account goes on, is repeated, or is done.
Pursues(t) ==
  OnlyRepeatedCallsFail =>
    \A a \in deleted : Cuts(task[t], a) /\ mapping[a] # None /\ NothingPublished(a) =>
      \/ Cuts(task'[t], a)
      \/ Cut(a)'
      \/ task'[t] = NoTask /\ task[t].kind = "webhook" /\ events' = events

Turn(t) ==
  /\ task[t] # NoTask /\ UNCHANGED <<scope, deleted>>
  /\ NoNewAlias /\ GoesOn(t) /\ Minds(t) /\ Pursues(t)

\* Cut accounts stay cut.
LEMMA CutStays ==
  ASSUME IInv, Grows, NoNewAlias, NEW a \in Accounts, mapping[a] # None, Cut(a)
  PROVE  Cut(a)'
<1>1. /\ mapping'[a].deleted /\ mapping'[a].user = mapping[a].user
  BY DEF Grows, Cut
<1>2. ResolvedTo(mapping[a].user, links') = {}  BY DEF NoNewAlias, Cut
<1> QED  BY <1>1, <1>2 DEF Cut

\* So does what a task has read of the account.
LEMMA CutsStay ==
  ASSUME IInv, Grows, NEW t \in Tasks, NEW a \in Accounts, Cuts(task[t], a), task'[t] = task[t]
  PROVE  Cuts(task[t], a)'
<1>1. CASE task[t].at \in {"begin", "complete"}
  <2>1. Published(a, task[t].version)
    BY <1>1, KnownTask DEF Cuts, Sound, Reading, Is
  <2>2. snapshots'[a][task[t].version] = snapshots[a][task[t].version]
    BY <2>1 DEF Grows, Published
  <2> QED  BY <1>1, <2>2 DEF Cuts, HasIdentity
<1>2. CASE task[t].at \notin {"begin", "complete"}
  BY <1>2 DEF Cuts
<1> QED  BY <1>1, <1>2

LEMMA PublishedNothing ==
  ASSUME NEW a, NothingPublished(a), snapshots'[a] = snapshots[a]
  PROVE  NothingPublished(a)'
BY DEF NothingPublished, Version

\* A turn keeps all that is said of deletions.
LEMMA TurnKeeps ==
  ASSUME IInv, CutInv, Kept, NEW t \in Tasks, Turn(t)
  PROVE  CutInv'
<1>1. /\ Grows /\ GoesOn(t) /\ Minds(t) /\ Pursues(t) /\ NoNewAlias
      /\ deleted' = deleted /\ scope' = scope /\ task[t] # NoTask
  BY DEF Kept, Turn
<1>2. \A x \in Tasks : x # t => task'[x] = task[x]
  BY <1>1 DEF GoesOn, IInv, TypeOK
<1>3. \A event : event \in Answered(t) => t \in Delivering /\ event = task[t].event
  BY <1>1 DEF Answered, Delivering
<1>4. \A x \in Delivering' : x \in Delivering /\ task'[x].event = task[x].event
                            /\ task'[x].account = task[x].account
  BY <1>1, <1>2 DEF Delivering, GoesOn
<1>5. DeliveriesOK'
  <2>1. ASSUME NEW x \in Delivering'
        PROVE  /\ task'[x].event \in events' /\ task'[x].account = task'[x].event[1]
               /\ task'[x].event[2] = 0 => task'[x].at \in {"revoke", "unlink"}
    <3>1. /\ x \in Delivering /\ task[x].event \in events
          /\ task'[x].event = task[x].event /\ task'[x].account = task[x].event[1]
          /\ task[x].event[2] = 0 => task[x].at \in {"revoke", "unlink"}
      BY <1>4 DEF CutInv, DeliveriesOK
    <3>2. CASE x = t  BY <1>1, <3>1, <3>2 DEF GoesOn, Delivering
    <3>3. CASE x # t
      <4>1. task[x].event \notin Answered(t)  BY <1>3, <3>1, <3>3 DEF CutInv, DeliveriesOK
      <4> QED  BY <1>1, <1>2, <3>1, <3>3, <4>1 DEF GoesOn, Delivering
    <3> QED  BY <3>2, <3>3
  <2>2. \A x, y \in Delivering' : task'[x].event = task'[y].event => x = y
    BY <1>4 DEF CutInv, DeliveriesOK
  <2> QED  BY <2>1, <2>2 DEF DeliveriesOK
<1>6. UnmappedOK'
  <2> SUFFICES ASSUME NEW a \in Accounts, mapping'[a] = None
               PROVE  /\ NothingPublished(a)'
                      /\ \A x \in Tasks : task'[x] # NoTask /\ task'[x].account = a =>
                           task'[x].tries = 1
    BY DEF UnmappedOK
  <2>1. mapping[a] = None  BY <1>1 DEF Grows
  <2>2. NothingPublished(a)'
    BY <1>1, <2>1, PublishedNothing DEF Minds, CutInv, UnmappedOK
  <2>3. ASSUME NEW x \in Tasks, task'[x] # NoTask, task'[x].account = a
        PROVE  task'[x].tries = 1
    <3>1. CASE x = t
      <4> SUFFICES ASSUME task'[t].tries # 1 PROVE FALSE  BY <3>1
      <4>1. task[t].account = a /\ task'[t].tries = task[t].tries
        BY <1>1, <2>1, <2>3, <3>1 DEF GoesOn
      <4> QED  BY <1>1, <2>1, <4>1 DEF CutInv, UnmappedOK
    <3>2. CASE x # t  BY <1>2, <2>1, <2>3, <3>2 DEF CutInv, UnmappedOK
    <3> QED  BY <3>1, <3>2
  <2> QED  BY <2>2, <2>3
<1>7. UnlinksOK'
  <2> SUFFICES ASSUME NEW x \in Tasks, task'[x].at = "unlink"
               PROVE  mapping'[task'[x].account].deleted
    BY DEF UnlinksOK, Is
  <2>1. CASE x = t  BY <1>1, <2>1 DEF GoesOn, NoTask
  <2>2. CASE x # t
    <3>1. task[x].at = "unlink" /\ task'[x] = task[x]  BY <1>2, <2>2
    <3>2. task[x].account \in Accounts /\ mapping[task[x].account] # None
      BY <3>1, KnownTask DEF Sound, Acts, Is
    <3> QED  BY <1>1, <3>1, <3>2 DEF Grows, CutInv, UnlinksOK, Is
  <2> QED  BY <2>1, <2>2
<1>8. CutsOK'
  <2> SUFFICES ASSUME OnlyRepeatedCallsFail, NEW a \in deleted,
                      <<a, 0>> \notin events', mapping'[a] # None, ~Cut(a)'
               PROVE  NothingPublished(a)' /\ (Waits(a)' \/ \E x \in Tasks : Cuts(task[x], a)')
    BY <1>1 DEF CutsOK, OnlyRepeatedCallsFail
  <2>1. a \in Accounts  BY DEF IInv, TypeOK
  <2>2. snapshots'[a] = snapshots[a]  BY <1>1, <2>1 DEF Minds
  <2>3. Cuts(task'[t], a) => Cuts(task[t], a)'  BY <2>2 DEF Cuts, HasIdentity
  <2>4. CASE mapping[a] = None
    <3>1. NothingPublished(a)'
      BY <2>1, <2>2, <2>4, PublishedNothing DEF CutInv, UnmappedOK
    <3> QED  BY <1>1, <2>1, <2>3, <2>4, <3>1 DEF Minds
  <2>5. CASE mapping[a] # None
    <3>1. ~Cut(a)  BY <1>1, <2>1, <2>5, CutStays
    <3>2. <<a, 0>> \notin events  BY <1>1, <2>1 DEF Minds
    <3>3. NothingPublished(a) /\ (Waits(a) \/ \E x \in Tasks : Cuts(task[x], a))
      BY <2>5, <3>1, <3>2 DEF CutInv, CutsOK
    <3>4. NothingPublished(a)'  BY <2>2, <3>3, PublishedNothing
    <3>5. CASE Waits(a)
      <4>1. PICK event \in events : event[1] = a /\ \A x \in Delivering : task[x].event # event
        BY <3>5 DEF Waits
      <4>2. event \in events'  BY <1>1, <1>3, <4>1 DEF GoesOn
      <4>3. \A x \in Delivering' : task'[x].event # event  BY <1>4, <4>1
      <4> QED  BY <3>4, <4>1, <4>2, <4>3 DEF Waits
    <3>6. ASSUME NEW x \in Tasks, x # t, Cuts(task[x], a)
          PROVE  Cuts(task[x], a)'
      BY <1>1, <1>2, <2>1, <3>6, CutsStay
    <3>7. CASE Cuts(task[t], a)
      <4>1. \/ Cuts(task'[t], a)
            \/ task'[t] = NoTask /\ task[t].kind = "webhook" /\ events' = events
        BY <1>1, <2>5, <3>3, <3>7 DEF Pursues
      <4>2. CASE task'[t] = NoTask /\ task[t].kind = "webhook" /\ events' = events
        <5>1. /\ t \in Delivering /\ task[t].event \in events' /\ task[t].event[1] = a
          BY <3>7, <4>2 DEF Delivering, Cuts, CutInv, DeliveriesOK
        <5>2. \A x \in Delivering' : task'[x].event # task[t].event
          BY <1>4, <4>2, <5>1 DEF CutInv, DeliveriesOK, Delivering
        <5>3. Waits(a)'  BY <5>1, <5>2 DEF Waits
        <5> QED  BY <3>4, <5>3
      <4> QED  BY <2>3, <3>4, <4>1, <4>2
    <3> QED  BY <3>3, <3>4, <3>5, <3>6, <3>7
  <2> QED  BY <2>4, <2>5
<1> QED  BY <1>5, <1>6, <1>7, <1>8 DEF CutInv

\* Only the delivery of a deletion answers it.
LEMMA DeletionAnswered ==
  ASSUME CutInv, NEW t \in Tasks, task[t] # NoTask, NEW a, <<a, 0>> \in Answered(t)
  PROVE  task[t].at \in {"revoke", "unlink"} /\ task[t].account = a
<1>1. t \in Delivering /\ task[t].event = <<a, 0>>  BY DEF Answered, Delivering
<1> QED  BY <1>1 DEF CutInv, DeliveriesOK

\* Most steps neither map, nor revoke, nor publish of a deleted account.
LEMMA PlainTurn ==
  ASSUME IInv, CutInv, NEW t \in Tasks, task[t] # NoTask, NEW d,
         task' = [task EXCEPT ![t] = d], UNCHANGED <<scope, deleted>>, NoNewAlias,
         \A a \in Accounts : mapping'[a] = None <=> mapping[a] = None,
         \A a \in Accounts : mapping[a] = None \/ a \in deleted => snapshots'[a] = snapshots[a],
         \A event \in events : event \in events' \/ event \in Answered(t),
         task[t].at \notin {"revoke", "unlink"},
         d # NoTask =>
           /\ events \subseteq events' /\ d.at # "unlink"
           /\ d.kind = "webhook" =>
                task[t].kind = "webhook" /\ d.event = task[t].event /\ d.account = task[t].account
           /\ d.tries # 1 =>
                /\ d.account = task[t].account
                /\ d.tries = task[t].tries \/ mapping[task[t].account] # None,
         \A a \in deleted :
           OnlyRepeatedCallsFail /\ Cuts(task[t], a) /\ mapping[a] # None /\ NothingPublished(a)
             => Cuts(d, a)
  PROVE  Turn(t)
<1>1. task'[t] = d  BY DEF IInv, TypeOK
<1>2. GoesOn(t)  BY <1>1 DEF GoesOn
<1>3. Minds(t)
  <2>1. \A a \in Accounts : <<a, 0>> \in events => <<a, 0>> \in events'
    BY DeletionAnswered
  <2> QED  BY <2>1 DEF Minds
<1>4. Pursues(t)  BY <1>1 DEF Pursues
<1> QED  BY <1>2, <1>3, <1>4 DEF Turn

LEMMA SameLinks ==
  ASSUME links' = links
  PROVE  NoNewAlias
BY DEF NoNewAlias, ResolvedTo

\* What a task of the given place is not.
LEMMA TaskIs ==
  ASSUME IInv, NEW t \in Tasks, NEW place, Is(t, place), place # "idle"
  PROVE  task[t] # NoTask /\ task[t].at = place /\ task[t] \in Running
                          /\ Sound(task[t]) /\ Fits(task[t])
BY KnownTask DEF Is, NoTask

\* A deleted account that is read again is revoked.
LEMMA ReloadTurn ==
  ASSUME IInv, CutInv, NEW t \in Tasks, Reload(t)
  PROVE  Turn(t)
<1> DEFINE c == task[t]
           a == c.account
           revoked == [c EXCEPT !.at = "revoke"]
           read == [c EXCEPT !.at = "mapping", !.version = Version(a)]
<1>1. c # NoTask /\ c.at = "reload" /\ c \in Running
  BY TaskIs DEF Reload
<1>2. /\ UNCHANGED <<scope, snapshots, deleted, mapping, links, events>>
      /\ \/ task' = [task EXCEPT ![t] = revoked]
         \/ a \notin deleted /\ task' = [task EXCEPT ![t] = NoTask]
         \/ a \notin deleted /\ task' = [task EXCEPT ![t] = read]
  BY DEF Reload, NotFound, Goes, Stops, InClerkJob, database
<1>3. /\ revoked.at = "revoke" /\ revoked.kind = c.kind /\ revoked.event = c.event
      /\ revoked.account = a /\ revoked.tries = c.tries
  BY ONLY <1>1 DEF Running
<1>4. /\ read.at = "mapping" /\ read.kind = c.kind /\ read.event = c.event
      /\ read.account = a /\ read.tries = c.tries
  BY ONLY <1>1 DEF Running
<1>5. NoNewAlias  BY <1>2, SameLinks
<1>6. CASE task' = [task EXCEPT ![t] = revoked]
  <2> HIDE DEF revoked, read
  <2>1. \A b \in deleted : Cuts(c, b) => Cuts(revoked, b)  BY <1>3 DEF Cuts, NoTask
  <2> QED  BY <1>1, <1>2, <1>3, <1>5, <1>6, <2>1, PlainTurn
<1>7. CASE a \notin deleted /\ task' = [task EXCEPT ![t] = NoTask]
  BY <1>1, <1>2, <1>5, <1>7, PlainTurn DEF Cuts
<1>8. CASE a \notin deleted /\ task' = [task EXCEPT ![t] = read]
  <2> HIDE DEF revoked, read
  <2> QED  BY <1>1, <1>2, <1>4, <1>5, <1>8, PlainTurn DEF Cuts
<1> QED  BY <1>2, <1>6, <1>7, <1>8

LEMMA ReadMappingTurn ==
  ASSUME IInv, CutInv, NEW t \in Tasks, ReadMapping(t)
  PROVE  Turn(t)
<1> DEFINE c == task[t]
           claiming == [c EXCEPT !.at = "claim"]
           beginning == [c EXCEPT !.at = "begin", !.user = mapping[c.account].user]
<1>1. c # NoTask /\ c.at = "mapping" /\ c \in Running
  BY TaskIs DEF ReadMapping
<1>2. /\ UNCHANGED <<scope, snapshots, deleted, mapping, links>>
      /\ \/ task' = [task EXCEPT ![t] = NoTask] /\ events' = events \ Answered(t)
         \/ task' = [task EXCEPT ![t] = claiming] /\ events' = events
         \/ task' = [task EXCEPT ![t] = beginning] /\ events' = events
  BY DEF ReadMapping, Applied, Continues, Stops, Goes, database
<1>3. /\ claiming.at = "claim" /\ claiming.kind = c.kind /\ claiming.event = c.event
      /\ claiming.account = c.account /\ claiming.tries = c.tries
  BY ONLY <1>1 DEF Running
<1>4. /\ beginning.at = "begin" /\ beginning.kind = c.kind /\ beginning.event = c.event
      /\ beginning.account = c.account /\ beginning.tries = c.tries
  BY ONLY <1>1 DEF Running
<1>5. NoNewAlias /\ \A a \in deleted : ~Cuts(c, a)  BY <1>1, <1>2, SameLinks DEF Cuts
<1> HIDE DEF claiming, beginning
<1>6. CASE task' = [task EXCEPT ![t] = NoTask] /\ events' = events \ Answered(t)
  BY <1>1, <1>2, <1>5, <1>6, PlainTurn
<1>7. CASE task' = [task EXCEPT ![t] = claiming] /\ events' = events
  BY <1>1, <1>2, <1>3, <1>5, <1>7, PlainTurn
<1>8. CASE task' = [task EXCEPT ![t] = beginning] /\ events' = events
  BY <1>1, <1>2, <1>4, <1>5, <1>8, PlainTurn
<1> QED  BY <1>2, <1>6, <1>7, <1>8

LEMMA CreateUserTurn ==
  ASSUME IInv, CutInv, NEW t \in Tasks, CreateUser(t)
  PROVE  Turn(t)
<1> DEFINE c == task[t]
           again == [c EXCEPT !.at = "reclaim"]
<1>1. c # NoTask /\ c.at = "create" /\ c \in Running
  BY TaskIs DEF CreateUser
<1>2. /\ UNCHANGED <<scope, snapshots, deleted, mapping, links, events>>
      /\ task' = [task EXCEPT ![t] = again]
  BY DEF CreateUser, Goes, clerk
<1>3. /\ again.at = "reclaim" /\ again.kind = c.kind /\ again.event = c.event
      /\ again.account = c.account /\ again.tries = c.tries
  BY ONLY <1>1 DEF Running
<1>4. NoNewAlias /\ \A a \in deleted : ~Cuts(c, a)  BY <1>1, <1>2, SameLinks DEF Cuts
<1> HIDE DEF again
<1> QED  BY <1>1, <1>2, <1>3, <1>4, PlainTurn

\* Two fields of a task are set at once.
LEMMA Begins ==
  ASSUME IInv, NEW t \in Tasks, NEW u
  PROVE  [task EXCEPT ![t].at = "begin", ![t].user = u]
           = [task EXCEPT ![t] = [task[t] EXCEPT !.at = "begin", !.user = u]]
<1>1. DOMAIN task = Tasks  BY DEF IInv, TypeOK
<1> QED  BY ONLY <1>1, t \in Tasks

\* Whoever maps an account that has been deleted goes on to publish or to read again.
LEMMA ClaimTurn ==
  ASSUME IInv, CutInv, NEW t \in Tasks, Claim(t)
  PROVE  Turn(t)
<1> DEFINE c == task[t]
           a == c.account
           creating == [c EXCEPT !.at = "create"]
           beginning(u) == [c EXCEPT !.at = "begin", !.user = u]
           Begun == /\ UNCHANGED <<mapping, events>>
                    /\ task' = [task EXCEPT ![t].at = "begin", ![t].user = mapping[a].user]
           Left == /\ UNCHANGED mapping
                   /\ \/ Goes(t, "create") /\ UNCHANGED events
                      \/ Stops(t) /\ UNCHANGED events
                      \/ Finishes(t)
           Claimed(u) == /\ mapping[a] = None /\ UNCHANGED events
                         /\ mapping' = [mapping EXCEPT ![a] =
                              [user |-> u, ready |-> FALSE, version |-> 0, deleted |-> FALSE]]
                         /\ task' = [task EXCEPT ![t].at = "begin", ![t].user = u]
<1>1. /\ c # NoTask /\ c.at \in {"claim", "reclaim"} /\ c \in Running /\ Sound(c)
      /\ a \in Accounts /\ HasIdentity(a, c.version)
  BY KnownTask DEF Claim, Is, NoTask, Sound, Reading
<1>2. UNCHANGED <<scope, snapshots, deleted, links>>  BY DEF Claim
<1>3. Begun \/ Left \/ \E u : Claimed(u)
  <2>1. \/ mapping[a] # None /\ Begun
        \/ /\ IF Is(t, "claim") THEN Goes(t, "create") ELSE Stops(t)
           /\ UNCHANGED <<events, mapping>>
        \/ \E u \in ProfilesWith(Primary(t)) : Claimed(u)
        \/ Finishes(t) /\ UNCHANGED mapping
    BY Zenon DEF Claim
  <2> QED  BY <2>1, Zenon
<1>4. /\ creating.at = "create" /\ creating.kind = c.kind /\ creating.event = c.event
      /\ creating.account = a /\ creating.tries = c.tries
  BY ONLY <1>1 DEF Running
<1>5. NoNewAlias /\ \A b \in deleted : ~Cuts(c, b)  BY <1>1, <1>2, SameLinks DEF Cuts
<1>6. CASE Begun
  <2> DEFINE d == beginning(mapping[a].user)
  <2>1. /\ d.at = "begin" /\ d.kind = c.kind /\ d.event = c.event /\ d.account = a
        /\ d.tries = c.tries
    BY ONLY <1>1 DEF Running
  <2>2. task' = [task EXCEPT ![t] = d]  BY <1>6, Begins
  <2>3. mapping' = mapping /\ events' = events  BY <1>6
  <2> HIDE DEF d, c, Begun
  <2>4. \A b \in deleted : ~Cuts(task[t], b)  BY <1>5 DEF c
  <2>5. /\ task[t] # NoTask /\ task[t].at \notin {"revoke", "unlink"}
        /\ d.at # "unlink" /\ d.kind = task[t].kind /\ d.event = task[t].event
        /\ d.account = task[t].account /\ d.tries = task[t].tries
    BY <1>1, <2>1 DEF c
  <2> QED  BY <1>2, <1>5, <2>2, <2>3, <2>4, <2>5, PlainTurn
<1>7. CASE Left
  <2>1. CASE Goes(t, "create") /\ UNCHANGED <<mapping, events>>
    <3>1. task' = [task EXCEPT ![t] = creating]  BY <2>1 DEF Goes
    <3> HIDE DEF creating
    <3> QED  BY <1>1, <1>2, <1>4, <1>5, <2>1, <3>1, PlainTurn
  <2>2. CASE Stops(t) /\ UNCHANGED <<mapping, events>>
    BY <1>1, <1>2, <1>5, <2>2, PlainTurn DEF Stops
  <2>3. CASE Finishes(t) /\ UNCHANGED mapping
    BY <1>1, <1>2, <1>5, <2>3, PlainTurn DEF Finishes, Stops
  <2> QED  BY <1>7, <2>1, <2>2, <2>3
<1>8. ASSUME NEW u, Claimed(u)
      PROVE  Turn(t)
  <2> DEFINE d == beginning(u)
  <2>1. /\ d.at = "begin" /\ d.kind = c.kind /\ d.event = c.event /\ d.account = a
        /\ d.tries = c.tries /\ d.version = c.version
    BY ONLY <1>1 DEF Running
  <2>2. task' = [task EXCEPT ![t] = d]  BY <1>8, Begins
  <2> HIDE DEF d
  <2>3. task'[t] = d /\ task' = [task EXCEPT ![t] = task'[t]]
    BY <2>2 DEF IInv, TypeOK
  <2>4. c.tries = 1  BY <1>1, <1>8 DEF CutInv, UnmappedOK
  <2>5. GoesOn(t)  BY <1>1, <1>8, <2>1, <2>3, <2>4 DEF GoesOn
  <2>6. \A b \in Accounts : mapping[b] = None /\ mapping'[b] # None => b = a
    BY <1>8 DEF IInv, TypeOK
  <2>7. Cuts(task'[t], a)  BY <1>1, <2>1, <2>3, <2>4 DEF Cuts, NoTask
  <2>8. Minds(t)  BY <1>2, <1>8, <2>6, <2>7 DEF Minds
  <2> QED  BY <1>1, <1>2, <1>5, <2>5, <2>8 DEF Turn, Pursues
<1> HIDE DEF Begun, Left, Claimed
<1> QED  BY <1>3, <1>6, <1>7, <1>8

\* Who is superseded the first time reads the account again.
LEMMA SupersededTurn ==
  ASSUME IInv, CutInv, NEW t \in Tasks, task[t].at \in {"begin", "complete"}, Superseded(t),
         UNCHANGED <<scope, snapshots, deleted, mapping, links, events>>
  PROVE  Turn(t)
<1> DEFINE c == task[t]
           again == [c EXCEPT !.at = "reload", !.tries = 2]
<1>1. /\ c # NoTask /\ c \in Running /\ c.account \in Accounts /\ mapping[c.account] # None
  BY KnownTask DEF Is, NoTask, Sound, Reading, Acts
<1>2. \/ c.tries = 1 /\ task' = [task EXCEPT ![t] = again]
      \/ c.tries # 1 /\ task' = [task EXCEPT ![t] = NoTask]
  BY DEF Superseded, Stops
<1>3. /\ again.at = "reload" /\ again.kind = c.kind /\ again.event = c.event
      /\ again.account = c.account
  BY ONLY <1>1 DEF Running
<1>4. NoNewAlias  BY SameLinks
<1> HIDE DEF again
<1>5. CASE c.tries = 1 /\ task' = [task EXCEPT ![t] = again]
  <2>1. \A a \in deleted : Cuts(c, a) => Cuts(again, a)  BY <1>3 DEF Cuts, NoTask
  <2> QED  BY <1>1, <1>3, <1>4, <1>5, <2>1, PlainTurn
<1>6. CASE c.tries # 1 /\ task' = [task EXCEPT ![t] = NoTask]
  <2>1. \A a \in deleted : ~Cuts(c, a)  BY <1>6 DEF Cuts
  <2> QED  BY <1>1, <1>4, <1>6, <2>1, PlainTurn
<1> QED  BY <1>2, <1>5, <1>6

LEMMA BeginSnapshotTurn ==
  ASSUME IInv, CutInv, NEW t \in Tasks, BeginSnapshot(t)
  PROVE  Turn(t)
<1> DEFINE c == task[t]
           a == c.account
           v == c.version
           completing == [c EXCEPT !.at = "complete"]
           rows == Revoked(c.user, Verified(a, v))
<1>1. /\ c # NoTask /\ c.at = "begin" /\ c \in Running /\ a \in Accounts
      /\ mapping[a] # None /\ c.user \in Users
  BY TaskIs, MappedUser DEF BeginSnapshot, Sound, Reading, Acts
<1>2. UNCHANGED <<scope, snapshots, deleted, events>>
  BY DEF BeginSnapshot, clerk
<1>3. CASE Superseded(t) /\ UNCHANGED <<mapping, links>>
  BY <1>1, <1>2, <1>3, SupersededTurn
<1>4. CASE /\ mapping' = [mapping EXCEPT ![a].version = v,
                                         ![a].ready = @ /\ mapping[a].version = v]
           /\ links' = rows
           /\ task' = [task EXCEPT ![t] = completing]
  <2>1. /\ completing.at = "complete" /\ completing.kind = c.kind /\ completing.event = c.event
        /\ completing.account = a /\ completing.tries = c.tries /\ completing.version = v
    BY ONLY <1>1 DEF Running
  <2>2. \A b \in Accounts : mapping'[b] = None <=> mapping[b] = None
    <3>1. mapping[a] \in Mapping  BY <1>1, AccountRows DEF IInv
    <3>2. [[mapping[a] EXCEPT !.version = v] EXCEPT !.ready = @ /\ mapping[a].version = v] # None
      BY <3>1, NoneAssumption, <1>1 DEF Mapping, Running
    <3>3. \A b \in Accounts : b # a => mapping'[b] = mapping[b]
      BY <1>4 DEF IInv, TypeOK
    <3>4. mapping'[a] # None  BY <1>1, <1>4, <3>1, <3>2 DEF IInv, TypeOK
    <3> QED  BY <1>1, <3>3, <3>4
  <2>3. NoNewAlias
    <3>1. \A w \in Users : ResolvedTo(w, rows) \subseteq ResolvedTo(w, links)
      BY <1>1, RevokedLinks
    <3> HIDE DEF rows
    <3> QED  BY <1>4, <3>1, MappedUser DEF NoNewAlias
  <2> HIDE DEF completing, rows
  <2>4. \A b \in deleted : Cuts(c, b) => Cuts(completing, b)
    BY <1>1, <2>1 DEF Cuts, NoTask
  <2> QED  BY <1>1, <1>2, <1>4, <2>1, <2>2, <2>3, <2>4, PlainTurn
<1> QED  BY <1>3, <1>4 DEF BeginSnapshot, Goes

\* A snapshot that has an identity is published next; its grant is never refused.
LEMMA CompleteSnapshotTurn ==
  ASSUME IInv, CutInv, NEW t \in Tasks, CompleteSnapshot(t)
  PROVE  Turn(t)
<1> DEFINE c == task[t]
           a == c.account
           v == c.version
           publishing == [c EXCEPT !.at = "publish"]
           rows == Reconciled(c.user, Verified(a, v))
<1>1. /\ c # NoTask /\ c.at = "complete" /\ c \in Running /\ a \in Accounts
      /\ mapping[a] # None /\ c.user = mapping[a].user /\ c.user \in Users
  BY TaskIs, MappedUser DEF CompleteSnapshot, Sound, Reading, Acts
<1>2. UNCHANGED <<scope, snapshots, deleted>>
  BY DEF CompleteSnapshot
<1>3. /\ Terminal(rows, members)
      /\ \A w \in Users : w # c.user => ResolvedTo(w, rows) \subseteq ResolvedTo(w, links)
  BY <1>1, ReconciledLinks
<1>4. CASE Superseded(t) /\ UNCHANGED <<mapping, links, events>>
  BY <1>1, <1>2, <1>4, SupersededTurn
<1>5. ASSUME IsCurrent(mapping[a], v), links' = rows
      PROVE  NoNewAlias
  <2> SUFFICES ASSUME NEW b \in Accounts, mapping[b] # None, mapping[b].deleted
               PROVE  ResolvedTo(mapping[b].user, rows) \subseteq ResolvedTo(mapping[b].user, links)
    BY <1>5 DEF NoNewAlias
  <2>1. b # a  BY <1>5 DEF IsCurrent
  <2>2. mapping[b].user \in Users /\ mapping[b].user # c.user
    BY <1>1, <2>1, MappedUser DEF IInv, MappedOnce
  <2> QED  BY <1>3, <2>2
<1>6. CASE /\ IsCurrent(mapping[a], v) /\ links' = rows /\ ~HasIdentity(a, v)
           /\ Applied(t, None) /\ mapping' = mapping
  <2>1. task' = [task EXCEPT ![t] = NoTask] /\ events' = events \ Answered(t)
    BY <1>6 DEF Applied, Continues, Stops
  <2>2. \A b \in deleted : ~Cuts(c, b)  BY <1>1, <1>6 DEF Cuts
  <2> HIDE DEF rows
  <2> QED  BY <1>1, <1>2, <1>5, <1>6, <2>1, <2>2, PlainTurn
<1>7. CASE /\ IsCurrent(mapping[a], v) /\ links' = rows /\ events' = events
           /\ mapping' = [mapping EXCEPT ![a].ready = TRUE]
           /\ task' = [task EXCEPT ![t] = publishing]
  <2>1. /\ publishing.at = "publish" /\ publishing.kind = c.kind
        /\ publishing.event = c.event /\ publishing.account = a /\ publishing.tries = c.tries
    BY ONLY <1>1 DEF Running
  <2>2. \A b \in Accounts : mapping'[b] = None <=> mapping[b] = None
    <3>1. mapping[a] \in Mapping  BY <1>1, AccountRows DEF IInv
    <3>2. [mapping[a] EXCEPT !.ready = TRUE] # None
      BY <3>1, NoneAssumption DEF Mapping
    <3> QED  BY <1>1, <1>7, <3>2 DEF IInv, TypeOK
  <2> HIDE DEF publishing, rows
  <2>3. \A b \in deleted : Cuts(c, b) => Cuts(publishing, b)  BY <2>1 DEF Cuts, NoTask
  <2> QED  BY <1>1, <1>2, <1>5, <1>7, <2>1, <2>2, <2>3, PlainTurn
<1> HIDE DEF rows
<1> QED  BY <1>3, <1>4, <1>6, <1>7 DEF CompleteSnapshot, Goes, rows

\* Of a deleted account nothing is published any more.
LEMMA PublishUidTurn ==
  ASSUME IInv, CutInv, NEW t \in Tasks, PublishUid(t)
  PROVE  Turn(t)
<1> DEFINE c == task[t]
           a == c.account
           revoked == [c EXCEPT !.at = "revoke"]
           deciding == [c EXCEPT !.at = "decide", !.user = c.user, !.proof = c.version]
<1>1. /\ c # NoTask /\ c.at = "publish" /\ c \in Running /\ a \in Accounts
      /\ mapping[a] # None /\ c.user = mapping[a].user /\ c.user \in Users
      /\ c.version \in 1..Version(a)
  BY TaskIs, MappedUser DEF PublishUid, Sound, Reading, Acts, Published
<1>2. c.user # None  BY <1>1, NoneAssumption
<1>3. /\ UNCHANGED <<scope, deleted, mapping, links>>
      /\ \A event \in events : event \in events' \/ event \in Answered(t)
  BY DEF PublishUid, Applied, NotFound, database
<1>4. NoNewAlias  BY <1>3, SameLinks
<1>5. \A b \in Accounts : mapping[b] = None \/ b \in deleted => snapshots'[b] = snapshots[b]
  BY <1>1 DEF PublishUid, IInv, TypeOK
<1>6. \/ Continues(t, c.user) /\ snapshots[a][c.version].uid = c.user
         /\ events' = events \ Answered(t)
      \/ Continues(t, c.user) /\ a \notin deleted
         /\ events' = (events \union {<<a, Version(a) + 1>>}) \ Answered(t)
      \/ task' = [task EXCEPT ![t] = revoked] /\ events' = events
  BY DEF PublishUid, Applied, NotFound, Goes
<1>7. /\ revoked.at = "revoke" /\ revoked.kind = c.kind
      /\ revoked.event = c.event /\ revoked.account = a /\ revoked.tries = c.tries
  BY ONLY <1>1 DEF Running
<1>8. /\ deciding.at = "decide" /\ deciding.kind = c.kind
      /\ deciding.event = c.event /\ deciding.account = a /\ deciding.tries = c.tries
  BY ONLY <1>1 DEF Running
<1>9. CASE task' = [task EXCEPT ![t] = revoked] /\ events' = events
  <2> HIDE DEF revoked
  <2>1. \A b \in deleted : Cuts(c, b) => Cuts(revoked, b)  BY <1>7 DEF Cuts, NoTask
  <2> QED  BY <1>1, <1>3, <1>4, <1>5, <1>7, <1>9, <2>1, PlainTurn
<1>10. CASE /\ Continues(t, c.user)
            /\ \/ /\ snapshots[a][c.version].uid = c.user
                  /\ events' = events \ Answered(t)
               \/ /\ a \notin deleted
                  /\ events' = (events \union {<<a, Version(a) + 1>>}) \ Answered(t)
  <2>1. \A b \in deleted : Cuts(c, b) => ~NothingPublished(b)
    <3> SUFFICES ASSUME a \in deleted PROVE ~NothingPublished(a)  BY DEF Cuts
    <3> QED  BY <1>1, <1>2, <1>10 DEF NothingPublished
  <2>2. \/ task' = [task EXCEPT ![t] = NoTask]
        \/ ~InClerkJob(t) /\ task' = [task EXCEPT ![t] = deciding]
    BY <1>10 DEF Continues, Stops
  <2>3. ~InClerkJob(t) => events \subseteq events'
    BY <1>10 DEF InClerkJob, Answered
  <2> HIDE DEF deciding
  <2>4. CASE task' = [task EXCEPT ![t] = NoTask]
    BY <1>1, <1>3, <1>4, <1>5, <2>1, <2>4, PlainTurn
  <2>5. CASE ~InClerkJob(t) /\ task' = [task EXCEPT ![t] = deciding]
    BY <1>1, <1>3, <1>4, <1>5, <1>8, <2>1, <2>3, <2>5, PlainTurn
  <2> QED  BY <2>2, <2>4, <2>5
<1> QED  BY <1>6, <1>9, <1>10

\* The mapping is marked before the aliases go.
LEMMA RevokeTurn ==
  ASSUME IInv, CutInv, NEW t \in Tasks, Revoke(t)
  PROVE  Turn(t)
<1> DEFINE c == task[t]
           a == c.account
           unlinking == [c EXCEPT !.at = "unlink", !.user = mapping[a].user]
<1>1. c # NoTask /\ c.at = "revoke" /\ c \in Running /\ a \in Accounts
  BY TaskIs DEF Revoke, Sound
<1>2. UNCHANGED <<scope, snapshots, deleted, links>>  BY DEF Revoke
<1>3. NoNewAlias  BY <1>2, SameLinks
<1>4. CASE /\ mapping[a] = None /\ task' = [task EXCEPT ![t] = NoTask]
           /\ events' = events \ Answered(t) /\ mapping' = mapping
  <2>1. task'[t] = NoTask  BY <1>4 DEF IInv, TypeOK
  <2>2. GoesOn(t)  BY <1>4, <2>1 DEF GoesOn
  <2>3. \A b \in Accounts : <<b, 0>> \in events /\ <<b, 0>> \notin events' => b = a
    BY <1>1, <1>4, DeletionAnswered
  <2>4. Minds(t)  BY <1>2, <1>4, <2>3 DEF Minds
  <2>5. Pursues(t)  BY <1>4 DEF Pursues, Cuts
  <2> QED  BY <1>1, <1>2, <1>3, <2>2, <2>4, <2>5 DEF Turn
<1>5. CASE /\ mapping[a] # None /\ events' = events
           /\ mapping' = [mapping EXCEPT ![a].ready = FALSE, ![a].deleted = TRUE]
           /\ task' = [task EXCEPT ![t] = unlinking]
  <2>1. /\ unlinking.at = "unlink" /\ unlinking.kind = c.kind /\ unlinking.event = c.event
        /\ unlinking.account = a /\ unlinking.tries = c.tries
    BY ONLY <1>1 DEF Running
  <2>2. task'[t] = unlinking  BY <1>5 DEF IInv, TypeOK
  <2>3. mapping[a] \in Mapping  BY <1>1, <1>5, AccountRows DEF IInv
  <2>4. mapping'[a].deleted  BY <1>1, <1>5, <2>3 DEF IInv, TypeOK, Mapping
  <2>5. \A b \in Accounts : mapping[b] = None => mapping'[b] = None
    BY <1>5 DEF IInv, TypeOK
  <2> HIDE DEF unlinking
  <2>6. GoesOn(t)  BY <1>1, <1>5, <2>1, <2>2, <2>4 DEF GoesOn
  <2>7. Minds(t)  BY <1>2, <1>5, <2>5 DEF Minds
  <2>8. Pursues(t)  BY <2>1, <2>2 DEF Pursues, Cuts, NoTask
  <2> QED  BY <1>1, <1>2, <1>3, <2>6, <2>7, <2>8 DEF Turn
<1> QED  BY <1>4, <1>5 DEF Revoke, Finishes, Stops

\* Then no alias is left.
LEMMA UnlinkTurn ==
  ASSUME IInv, CutInv, NEW t \in Tasks, Unlink(t)
  PROVE  Turn(t)
<1> DEFINE c == task[t]
           rows == Reconciled(c.user, {})
<1>0. PICK a \in Accounts : a = c.account
  BY TaskIs DEF Unlink, Sound
<1>1. /\ c # NoTask /\ c.at = "unlink" /\ c \in Running
      /\ mapping[a] # None /\ c.user = mapping[a].user /\ c.user \in Users
  BY <1>0, TaskIs, MappedUser DEF Unlink, Sound, Acts
<1>2. /\ UNCHANGED <<scope, snapshots, deleted, mapping>> /\ links' = rows
      /\ task' = [task EXCEPT ![t] = NoTask] /\ events' = events \ Answered(t)
  BY DEF Unlink, Finishes, Stops
<1>3. /\ ResolvedTo(c.user, rows) = {}
      /\ \A w \in Users : w # c.user => ResolvedTo(w, rows) \subseteq ResolvedTo(w, links)
  BY <1>1, ReconciledLinks
<1> HIDE DEF rows
<1>4. NoNewAlias  BY <1>2, <1>3, MappedUser DEF NoNewAlias
<1>5. Cut(a)'
  <2>1. mapping[a].deleted  BY <1>0, <1>1 DEF CutInv, UnlinksOK, Is
  <2> QED  BY <1>1, <1>2, <1>3, <2>1 DEF Cut
<1>6. task'[t] = NoTask  BY <1>2 DEF IInv, TypeOK
<1>7. GoesOn(t)  BY <1>2, <1>6 DEF GoesOn
<1>8. \A b \in Accounts : <<b, 0>> \in events /\ <<b, 0>> \notin events' => b = a
  BY <1>0, <1>1, <1>2, DeletionAnswered
<1>9. Minds(t)  BY <1>2, <1>5, <1>8 DEF Minds
<1>10. Pursues(t)  BY <1>0, <1>5 DEF Pursues, Cuts
<1> QED  BY <1>1, <1>2, <1>4, <1>7, <1>9, <1>10 DEF Turn

\* A coordinator's action looks for the owner of an e-mail, and decides.
LEMMA LookupTurn ==
  ASSUME IInv, CutInv, NEW t \in Tasks, Lookup(t)
  PROVE  Turn(t)
<1> DEFINE c == task[t]
           deciding == [c EXCEPT !.at = "decide"]
           reading(a) == [c EXCEPT !.at = "reload", !.account = a, !.tries = 1]
<1>1. c # NoTask /\ c.at = "lookup" /\ c \in Running /\ c.kind # "webhook"
  BY TaskIs DEF Lookup, Fits
<1>2. /\ UNCHANGED <<scope, snapshots, deleted, mapping, links, events>>
      /\ \/ task' = [task EXCEPT ![t] = NoTask]
         \/ task' = [task EXCEPT ![t] = deciding]
         \/ \E a \in OwnersOf(c.email) : task' = [task EXCEPT ![t] = reading(a)]
  BY DEF Lookup, Stops, Goes, clerk, database
<1>3. NoNewAlias /\ \A a \in deleted : ~Cuts(c, a)  BY <1>1, <1>2, SameLinks DEF Cuts
<1>4. CASE task' = [task EXCEPT ![t] = NoTask]
  BY <1>1, <1>2, <1>3, <1>4, PlainTurn
<1>5. CASE task' = [task EXCEPT ![t] = deciding]
  <2>1. deciding.at = "decide" /\ deciding.kind = c.kind /\ deciding.account = c.account
                               /\ deciding.tries = c.tries
    BY ONLY <1>1 DEF Running
  <2> HIDE DEF deciding
  <2> QED  BY <1>1, <1>2, <1>3, <1>5, <2>1, PlainTurn
<1>6. ASSUME NEW a, task' = [task EXCEPT ![t] = reading(a)]
      PROVE  Turn(t)
  <2> DEFINE d == reading(a)
  <2>1. d.at = "reload" /\ d.kind = c.kind /\ d.tries = 1
    BY ONLY <1>1 DEF Running
  <2>2. task' = [task EXCEPT ![t] = d]  BY <1>6
  <2> HIDE DEF d
  <2> QED  BY <1>1, <1>2, <1>3, <2>1, <2>2, PlainTurn
<1> QED  BY <1>2, <1>4, <1>5, <1>6

\* A decision, or the write that it leads to.
LEMMA ActionTurn ==
  ASSUME IInv, CutInv, NEW t \in Tasks, task[t].at \in {"decide", "write"}, NEW d,
         task' = [task EXCEPT ![t] = d],
         d # NoTask => /\ d.at # "unlink" /\ d.kind # "webhook"
                       /\ d.tries # 1 => d.account = task[t].account /\ d.tries = task[t].tries,
         UNCHANGED <<scope, snapshots, deleted, events, mapping>>, NoNewAlias
  PROVE  Turn(t)
<1>1. task[t] # NoTask /\ \A a \in deleted : ~Cuts(task[t], a)  BY DEF Cuts, NoTask
<1> QED  BY <1>1, PlainTurn

LEMMA DecideTurn ==
  ASSUME IInv, CutInv, NEW t \in Tasks, DecideAdd(t) \/ DecideLink(t) \/ DecideUnify(t)
  PROVE  Turn(t)
<1>1. task[t].at = "decide" /\ task[t] \in Running /\ task[t].kind # "webhook"
  BY TaskIs DEF DecideAdd, DecideLink, DecideUnify, Fits
<1>2. UNCHANGED <<scope, snapshots, deleted, mapping, links, events>>
  BY DEF DecideAdd, DecideLink, DecideUnify, clerk, database
<1>3. ASSUME NEW u, NEW seen,
             task' = [task EXCEPT ![t].at = "write", ![t].user = u, ![t].seen = seen]
      PROVE  Turn(t)
  <2> DEFINE d == [task[t] EXCEPT !.at = "write", !.user = u, !.seen = seen]
  <2>1. /\ d.at = "write" /\ d.kind = task[t].kind
        /\ d.account = task[t].account /\ d.tries = task[t].tries
    BY ONLY <1>1 DEF Running
  <2>2. task' = [task EXCEPT ![t] = d]  BY <1>3
  <2> HIDE DEF d
  <2> QED  BY <1>1, <1>2, <2>1, <2>2, SameLinks, ActionTurn
<1>4. ASSUME NEW u, Writes(t, u)
      PROVE  Turn(t)
  <2>1. task' = [task EXCEPT ![t].at = "write", ![t].user = u, ![t].seen = task[t].seen]
    BY <1>1, <1>4 DEF Writes, Running
  <2> QED  BY <1>3, <2>1
<1>5. CASE Stops(t)
  BY <1>1, <1>2, <1>5, SameLinks, ActionTurn DEF Stops
<1>6. CASE DecideAdd(t)  BY <1>4, <1>5, <1>6 DEF DecideAdd
<1>7. CASE DecideLink(t)
  <2> DEFINE c == task[t]
             seen == IF c.user = None THEN c.seen
                     ELSE [profile |-> ProfileOf(c.email), link |-> links[c.email]]
             own == c.user = None /\ seen.profile.id = c.member
             profile == IF own THEN [id |-> None, state |-> "absent"] ELSE seen.profile
             linked == CASE c.user # None -> c.user
                         [] c.user = None /\ profile.state = "active" -> None
                         [] OTHER -> profile.id
  <2>1. \/ Stops(t)
        \/ task' = [task EXCEPT ![t].at = "write", ![t].user = linked, ![t].seen = seen]
    BY <1>7 DEF DecideLink
  <2> HIDE DEF linked, seen
  <2> QED  BY <1>3, <1>5, <2>1
<1>8. CASE DecideUnify(t)  BY <1>4, <1>5, <1>8 DEF DecideUnify
<1> QED  BY <1>6, <1>7, <1>8

\* Nobody proves to be a revoked account.
LEMMA ProvenNotRevoked ==
  ASSUME IInv, NEW a \in Accounts, mapping[a] # None, mapping[a].deleted,
         NEW u, NEW e, NEW proof, Proves(u, e, proof)
  PROVE  u # mapping[a].user
<1>1. CASE proof # None
  <2>1. PICK b \in Accounts : mapping[b] # None /\ mapping[b].user = u /\ mapping[b].ready
    BY <1>1 DEF Proves
  <2>2. b # a  BY <2>1 DEF IInv, ReadyIsGranted, Ready
  <2> QED  BY <2>1, <2>2 DEF IInv, MappedOnce
<1>2. CASE proof = None
  BY <1>2 DEF Proves, Claimable, Mapped
<1> QED  BY <1>1, <1>2

\* So no write makes it an alias.
LEMMA ProvenAlias ==
  ASSUME IInv, NEW u, NEW e, NEW proof, u # None => Proves(u, e, proof),
         \A w \in Users : ResolvedTo(w, links') \subseteq
           ResolvedTo(w, links) \union (IF w = u THEN {e} ELSE {})
  PROVE  NoNewAlias
<1> SUFFICES ASSUME NEW a \in Accounts, mapping[a] # None, mapping[a].deleted
             PROVE  ResolvedTo(mapping[a].user, links') \subseteq ResolvedTo(mapping[a].user, links)
  BY DEF NoNewAlias
<1>1. mapping[a].user \in Users  BY MappedUser
<1>2. mapping[a].user # u  BY <1>1, ProvenNotRevoked, NoneAssumption
<1> QED  BY <1>1, <1>2

LEMMA WriteTurn ==
  ASSUME IInv, CutInv, NEW t \in Tasks, WriteMember(t) \/ WriteEmail(t)
  PROVE  Turn(t)
<1>1. /\ task[t].at = "write" /\ task' = [task EXCEPT ![t] = NoTask]
      /\ UNCHANGED <<scope, snapshots, deleted, mapping, links, events>>
  BY DEF WriteMember, WriteEmail, Is, Stops, clerk
<1> QED  BY <1>1, SameLinks, ActionTurn

LEMMA WriteLinkTurn ==
  ASSUME IInv, CutInv, NEW t \in Tasks, WriteLink(t)
  PROVE  Turn(t)
<1> DEFINE c == task[t]
           rows == [links EXCEPT ![c.email] = [member |-> c.member, linked |-> c.user]]
           refresh == [Call("refresh", c.email) EXCEPT !.member = c.member]
<1>1. c.at = "write" /\ c.email \in Emails
  BY TaskIs DEF WriteLink, Fits
<1>2. UNCHANGED <<scope, snapshots, deleted, events, mapping>>  BY DEF WriteLink, clerk
<1>3. task' = [task EXCEPT ![t] = refresh] \/ task' = [task EXCEPT ![t] = NoTask]
  BY DEF WriteLink, Stops
<1>4. refresh.at = "lookup" /\ refresh.kind = "refresh" /\ refresh.tries = 1
  BY DEF Call, Began
<1>5. NoNewAlias
  <2>1. CASE links' = links  BY <2>1, SameLinks
  <2>2. CASE links' = rows /\ (c.user # None => Proves(c.user, c.email, c.proof))
    <3>1. \A w \in Users : ResolvedTo(w, links') \subseteq
            ResolvedTo(w, links) \union (IF w = c.user THEN {c.email} ELSE {})
      BY <1>1, <2>2 DEF ResolvedTo, IInv, TypeOK
    <3> QED  BY <2>2, <3>1, ProvenAlias
  <2> QED  BY <2>1, <2>2 DEF WriteLink
<1> HIDE DEF refresh
<1> QED  BY <1>1, <1>2, <1>3, <1>4, <1>5, ActionTurn

LEMMA WriteUnificationTurn ==
  ASSUME IInv, CutInv, NEW t \in Tasks, WriteUnification(t)
  PROVE  Turn(t)
<1> DEFINE c == task[t]
           rows == UnifiedLinks(c)
           row == [member |-> c.member, linked |-> c.user]
           passed(e) == IF e \in Linked /\ links[e].member = c.source
                        THEN [links[e] EXCEPT !.member = c.member] ELSE links[e]
<1>1. c.at = "write" /\ c.email \in Emails
  BY TaskIs DEF WriteUnification, Fits
<1>2. /\ UNCHANGED <<scope, snapshots, deleted, events, mapping>>
      /\ task' = [task EXCEPT ![t] = NoTask]
  BY DEF WriteUnification, Stops, clerk
<1>3. NoNewAlias
  <2>1. CASE links' = links  BY <2>1, SameLinks
  <2>2. CASE links' = rows /\ Proves(c.user, c.email, c.proof)
    <3>1. \A e \in Emails : rows[e] = IF e = c.email THEN row ELSE passed(e)
      BY <1>1 DEF UnifiedLinks
    <3>2. \A e \in Emails : passed(e) # None =>
            links[e] # None /\ passed(e).linked = links[e].linked
      <4> SUFFICES ASSUME NEW e \in Emails, passed(e) # None
                   PROVE  links[e] # None /\ passed(e).linked = links[e].linked
        OBVIOUS
      <4>1. CASE e \in Linked /\ links[e].member = c.source
        <5>1. links[e] # None /\ links[e] \in Link  BY <4>1 DEF Linked, IInv, TypeOK
        <5> QED  BY <4>1, <5>1 DEF Link
      <4>2. CASE ~(e \in Linked /\ links[e].member = c.source)  BY <4>2
      <4> QED  BY <4>1, <4>2
    <3>3. row.linked = c.user  OBVIOUS
    <3> HIDE DEF row, passed, rows
    <3>4. \A w \in Users : ResolvedTo(w, links') \subseteq
            ResolvedTo(w, links) \union (IF w = c.user THEN {c.email} ELSE {})
      BY <2>2, <3>1, <3>2, <3>3 DEF ResolvedTo
    <3> QED  BY <2>2, <3>4, ProvenAlias
  <2> QED  BY <2>1, <2>2 DEF WriteUnification, MayUnify
<1> QED  BY <1>1, <1>2, <1>3, ActionTurn

\* Of the tasks that may fail, those are repeated that must be.
LEMMA FailTurn ==
  ASSUME IInv, CutInv, NEW t \in Tasks, Fail(t)
  PROVE  Turn(t)
<1>1. /\ task' = [task EXCEPT ![t] = NoTask]
      /\ UNCHANGED <<scope, snapshots, deleted, events, mapping, links>>
  BY DEF Fail, Stops, clerk, database
<1>2. task'[t] = NoTask  BY <1>1 DEF IInv, TypeOK
<1>3. OnlyRepeatedCallsFail => task[t].kind = "webhook"
  BY DEF Fail, OnlyRepeatedCallsFail, InClerkJob
<1>4. GoesOn(t) /\ Minds(t)  BY <1>1, <1>2 DEF GoesOn, Minds
<1>5. Pursues(t)  BY <1>1, <1>2, <1>3 DEF Pursues
<1>6. task[t] # NoTask  BY DEF Fail, Is, NoTask
<1> QED  BY <1>1, <1>4, <1>5, <1>6, SameLinks DEF Turn

\* A call begins, or a webhook is delivered.
LEMMA BeginningKeeps ==
  ASSUME IInv, CutInv, Grows, NEW t \in Tasks, task[t] = NoTask, NEW c,
         task' = [task EXCEPT ![t] = c], c # NoTask, c.tries = 1, c.at # "unlink",
         c.kind = "webhook" =>
           /\ c.event \in events /\ c.account = c.event[1] /\ c.at \in {"revoke", "reload"}
           /\ c.event[2] = 0 => c.at = "revoke"
           /\ \A x \in Delivering : task[x].event # c.event,
         UNCHANGED <<scope, snapshots, deleted, events, mapping, links>>
  PROVE  CutInv'
<1>1. /\ task'[t] = c /\ \A x \in Tasks : x # t => task'[x] = task[x]
  BY DEF IInv, TypeOK
<1>2. \A x \in Delivering' : IF x = t THEN c.kind = "webhook" ELSE x \in Delivering
  BY <1>1 DEF Delivering
<1>3. DeliveriesOK'
  <2>1. ASSUME NEW x \in Delivering'
        PROVE  /\ task'[x].event \in events' /\ task'[x].account = task'[x].event[1]
               /\ task'[x].event[2] = 0 => task'[x].at \in {"revoke", "unlink"}
    BY <1>1, <1>2 DEF CutInv, DeliveriesOK
  <2>2. ASSUME NEW x \in Delivering', NEW y \in Delivering', task'[x].event = task'[y].event
        PROVE  x = y
    <3>1. x \in Tasks /\ y \in Tasks  BY DEF Delivering
    <3> QED  BY <1>1, <1>2, <2>2, <3>1 DEF CutInv, DeliveriesOK
  <2> QED  BY <2>1, <2>2 DEF DeliveriesOK
<1>4. UnmappedOK'
  BY <1>1 DEF CutInv, UnmappedOK, NothingPublished, Version
<1>5. UnlinksOK'
  BY <1>1 DEF CutInv, UnlinksOK, Is
<1>6. CutsOK'
  <2> SUFFICES ASSUME OnlyRepeatedCallsFail, NEW a \in deleted,
                      <<a, 0>> \notin events, mapping[a] # None, ~Cut(a)
               PROVE  NothingPublished(a) /\ (Waits(a)' \/ \E x \in Tasks : Cuts(task[x], a)')
    BY DEF CutsOK, OnlyRepeatedCallsFail, Cut, ResolvedTo, NothingPublished, Version
  <2>1. a \in Accounts  BY DEF IInv, TypeOK
  <2>2. NothingPublished(a) /\ (Waits(a) \/ \E x \in Tasks : Cuts(task[x], a))
    BY DEF CutInv, CutsOK
  <2>3. ASSUME NEW event \in events, event[1] = a, \A x \in Delivering : task[x].event # event
        PROVE  Waits(a)' \/ Cuts(task[t], a)'
    <3>1. CASE c.kind = "webhook" /\ c.event = event
      BY <1>1, <2>3, <3>1 DEF Cuts
    <3>2. CASE ~(c.kind = "webhook" /\ c.event = event)
      <4>1. \A x \in Delivering' : task'[x].event # event
        BY <1>1, <1>2, <2>3, <3>2
      <4> QED  BY <2>3, <4>1 DEF Waits
    <3> QED  BY <3>1, <3>2
  <2>4. ASSUME NEW x \in Tasks, Cuts(task[x], a)
        PROVE  Cuts(task[x], a)'
    <3>1. x # t  BY <2>4 DEF Cuts
    <3> QED  BY <1>1, <2>1, <2>4, <3>1, CutsStay
  <2> QED  BY <2>2, <2>3, <2>4 DEF Waits
<1> QED  BY <1>3, <1>4, <1>5, <1>6 DEF CutInv

\* A step of no task, that publishes nothing and answers nothing.
LEMMA OtherKeeps ==
  ASSUME IInv, CutInv, Grows, NoNewAlias, UNCHANGED <<scope, mapping, task>>,
         events \subseteq events',
         \A a \in deleted' : a \in deleted \/ <<a, 0>> \in events',
         \A a \in Accounts : NothingPublished(a) => NothingPublished(a)'
  PROVE  CutInv'
<1>1. Delivering' = Delivering  BY DEF Delivering
<1>2. DeliveriesOK'  BY <1>1 DEF CutInv, DeliveriesOK
<1>3. UnmappedOK'
  <2>1. \A a \in Accounts : mapping[a] = None => NothingPublished(a)'
    BY DEF CutInv, UnmappedOK
  <2> QED  BY <2>1 DEF CutInv, UnmappedOK
<1>4. UnlinksOK'  BY DEF CutInv, UnlinksOK, Is
<1>5. CutsOK'
  <2> SUFFICES ASSUME OnlyRepeatedCallsFail, NEW a \in deleted',
                      <<a, 0>> \notin events', mapping'[a] # None, ~Cut(a)'
               PROVE  NothingPublished(a)' /\ (Waits(a)' \/ \E x \in Tasks : Cuts(task[x], a)')
    BY DEF CutsOK, OnlyRepeatedCallsFail
  <2>1. a \in deleted /\ a \in Accounts /\ mapping[a] # None  BY DEF IInv, TypeOK
  <2>2. ~Cut(a)  BY <2>1, CutStays
  <2>3. NothingPublished(a) /\ (Waits(a) \/ \E x \in Tasks : Cuts(task[x], a))
    BY <2>1, <2>2 DEF CutInv, CutsOK
  <2>4. NothingPublished(a)'  BY <2>1, <2>3
  <2>5. Waits(a) => Waits(a)'  BY <1>1 DEF Waits
  <2>6. \A x \in Tasks : Cuts(task[x], a) => Cuts(task[x], a)'  BY <2>1, CutsStay
  <2> QED  BY <2>3, <2>4, <2>5, <2>6
<1> QED  BY <1>2, <1>3, <1>4, <1>5 DEF CutInv

\* What happens at Clerk.
LEMMA ClerkKeeps ==
  ASSUME IInv, CutInv, Grows, Clerk
  PROVE  CutInv'
<1>1. PICK a \in scope.accounts :
        \/ DeleteAccount(a)
        \/ \E e \in scope.emails : SignUp(a, e) \/ VerifyEmail(a, e) \/ RemoveEmail(a, e)
  BY DEF Clerk
<1>2. a \in Accounts  BY IdentityAssumption DEF IInv, TypeOK
<1>3. UNCHANGED <<scope, mapping, task, links>>
  BY <1>1 DEF DeleteAccount, SignUp, VerifyEmail, RemoveEmail, database
<1>4. CASE DeleteAccount(a)
  <2>1. UNCHANGED snapshots /\ events' = events \union {<<a, 0>>} /\ deleted' = deleted \union {a}
    BY <1>4 DEF DeleteAccount
  <2> QED  BY <1>3, <2>1, SameLinks, OtherKeeps DEF NothingPublished, Version
<1>5. ASSUME NEW snapshot, snapshot.uid = None \/ ~NothingPublished(a),
             Publishes(a, snapshot), deleted' = deleted
      PROVE  CutInv'
  <2>1. /\ snapshots' = [snapshots EXCEPT ![a] = Append(@, snapshot)]
        /\ events \subseteq events'
    BY <1>5 DEF Publishes
  <2>2. \A b \in Accounts : b # a => snapshots'[b] = snapshots[b]
    BY <2>1 DEF IInv, TypeOK
  <2>3. NothingPublished(a) => NothingPublished(a)'
    <3>1. snapshots'[a] = Append(snapshots[a], snapshot) /\ snapshots[a] \in Seq(Snapshot)
      BY <1>2, <2>1 DEF IInv, TypeOK
    <3>2. /\ Len(snapshots'[a]) = Len(snapshots[a]) + 1
          /\ \A v \in 1..Len(snapshots[a]) : snapshots'[a][v] = snapshots[a][v]
          /\ snapshots'[a][Len(snapshots[a]) + 1] = snapshot
          /\ Len(snapshots[a]) \in Nat
      BY <3>1
    <3>3. \A v \in 1..(Len(snapshots[a]) + 1) :
            v \in 1..Len(snapshots[a]) \/ v = Len(snapshots[a]) + 1
      BY <3>2
    <3> QED  BY <1>5, <3>2, <3>3 DEF NothingPublished, Version
  <2>4. \A b \in Accounts : NothingPublished(b) => NothingPublished(b)'
    BY <2>2, <2>3, PublishedNothing
  <2> QED  BY <1>3, <1>5, <2>1, <2>4, SameLinks, OtherKeeps
<1>6. Alive(a) => /\ snapshots[a][Version(a)].uid = None \/ ~NothingPublished(a)
                  /\ snapshots[a][Version(a)] \in Snapshot
  BY <1>2, AccountRows DEF Alive, NothingPublished, IInv
<1>7. ASSUME NEW e \in scope.emails, SignUp(a, e) PROVE CutInv'
  <2> DEFINE snapshot == [primary |-> e, verified |-> {e}, uid |-> None]
  <2>1. /\ snapshot.uid = None /\ Publishes(a, snapshot) /\ deleted' = deleted
    BY <1>7 DEF SignUp
  <2> HIDE DEF snapshot
  <2> QED  BY <1>5, <2>1
<1>8. ASSUME NEW e \in scope.emails, VerifyEmail(a, e) PROVE CutInv'
  <2> DEFINE snapshot == [snapshots[a][Version(a)] EXCEPT !.verified = @ \union {e}]
  <2>1. Alive(a) /\ Publishes(a, snapshot) /\ deleted' = deleted  BY <1>8 DEF VerifyEmail
  <2>2. snapshot.uid = snapshots[a][Version(a)].uid  BY <1>6, <2>1 DEF Snapshot
  <2> HIDE DEF snapshot
  <2> QED  BY <1>5, <1>6, <2>1, <2>2
<1>9. ASSUME NEW e \in scope.emails, RemoveEmail(a, e) PROVE CutInv'
  <2> DEFINE now == snapshots[a][Version(a)]
             snapshot(p) == [now EXCEPT !.verified = now.verified \ {e}, !.primary = p]
  <2>1. Alive(a) /\ deleted' = deleted /\ \E p : Publishes(a, snapshot(p))
    BY <1>9 DEF RemoveEmail
  <2>2. now \in Snapshot /\ (now.uid = None \/ ~NothingPublished(a))  BY <1>6, <2>1
  <2>3. \A p : snapshot(p).uid = now.uid  BY ONLY <2>2 DEF Snapshot
  <2> HIDE DEF now, snapshot
  <2> QED  BY <1>5, <2>1, <2>2, <2>3
<1> QED  BY <1>1, <1>4, <1>7, <1>8, <1>9

\* What takes links away.
LEMMA RemoveKeeps ==
  ASSUME IInv, CutInv, Grows,
         \/ \E m \in members : RemoveMember(m)
         \/ \E e \in scope.emails : UnlinkMemberEmail(e)
  PROVE  CutInv'
<1>1. UNCHANGED <<scope, snapshots, deleted, events, mapping, task>>
  BY DEF RemoveMember, UnlinkMemberEmail, clerk
<1>2. \A e \in Emails : links'[e] = None \/ links'[e] = links[e]
  BY DEF RemoveMember, UnlinkMemberEmail, IInv, TypeOK
<1>3. NoNewAlias  BY <1>2 DEF NoNewAlias, ResolvedTo
<1> QED  BY <1>1, <1>3, OtherKeeps DEF NothingPublished, Version

\* What starts: a delivery, a page, or a coordinator's action.
LEMMA StartKeeps ==
  ASSUME IInv, CutInv, Grows, NEW t \in Tasks,
         \/ \E event \in events : Deliver(t, event)
         \/ \E a \in scope.accounts : CompleteAccess(t, a)
  PROVE  CutInv'
<1>1. ASSUME NEW event \in events, Deliver(t, event)
      PROVE  CutInv'
  <2> DEFINE c == Began("webhook", event, IF event[2] = 0 THEN "revoke" ELSE "reload")
  <2>1. /\ c # NoTask /\ c.kind = "webhook" /\ c.tries = 1 /\ c.event = event
        /\ c.account = event[1] /\ c.at = IF event[2] = 0 THEN "revoke" ELSE "reload"
    BY DEF Began, NoTask
  <2>2. /\ task[t] = NoTask /\ task' = [task EXCEPT ![t] = c]
        /\ UNCHANGED <<scope, snapshots, deleted, events, mapping, links>>
    BY <1>1, RunningTask DEF Deliver, Free, clerk, database, IInv
  <2>3. \A x \in Delivering : task[x].event # event
    BY <1>1 DEF Deliver, Delivering, Is, NoTask, IInv, TypeOK, Running
  <2> HIDE DEF c
  <2> QED  BY <2>1, <2>2, <2>3, BeginningKeeps
<1>2. ASSUME NEW a \in scope.accounts, CompleteAccess(t, a)
      PROVE  CutInv'
  <2> DEFINE c == Began("access", <<a, 0>>, "reload")
  <2>1. c # NoTask /\ c.kind = "access" /\ c.tries = 1 /\ c.at = "reload"
    BY DEF Began, NoTask
  <2>2. /\ task[t] = NoTask /\ task' = [task EXCEPT ![t] = c]
        /\ UNCHANGED <<scope, snapshots, deleted, events, mapping, links>>
    BY <1>2, RunningTask DEF CompleteAccess, Free, clerk, database, IInv
  <2> HIDE DEF c
  <2> QED  BY <2>1, <2>2, BeginningKeeps
<1> QED  BY <1>1, <1>2

LEMMA CallKeeps ==
  ASSUME IInv, CutInv, Grows, NEW t \in Tasks, NEW e, NEW m,
         \/ AddMember(t, e)
         \/ LinkMemberEmail(t, m, e) \/ CorrectEmail(t, m, e)
         \/ \E s \in members : UnifyMembers(t, s, m, e)
  PROVE  CutInv'
<1>1. ASSUME NEW c, Calls(t, c), c.tries = 1, c.at # "unlink", c.at # "idle", c.kind # "webhook"
      PROVE  CutInv'
  <2>1. /\ task[t] = NoTask /\ task' = [task EXCEPT ![t] = c]
        /\ UNCHANGED <<scope, snapshots, deleted, events, mapping, links>>
    BY <1>1, RunningTask DEF Calls, Free, clerk, database, IInv
  <2>2. c # NoTask  BY <1>1 DEF NoTask
  <2> QED  BY <1>1, <2>1, <2>2, BeginningKeeps
<1>2. CASE AddMember(t, e)
  <2> DEFINE c == [Call("add", e) EXCEPT !.seen = ProfileOf(e)]
  <2>1. Calls(t, c)  BY <1>2 DEF AddMember
  <2>2. c.tries = 1 /\ c.at = "lookup" /\ c.kind = "add"  BY DEF Call, Began
  <2> HIDE DEF c
  <2> QED  BY <1>1, <2>1, <2>2
<1>3. CASE LinkMemberEmail(t, m, e)
  <2> DEFINE c == [Call("link", e) EXCEPT !.member = m,
                     !.seen = [profile |-> ProfileOf(e), link |-> links[e]]]
  <2>1. Calls(t, c)  BY <1>3 DEF LinkMemberEmail
  <2>2. c.tries = 1 /\ c.at = "lookup" /\ c.kind = "link"  BY DEF Call, Began
  <2> HIDE DEF c
  <2> QED  BY <1>1, <2>1, <2>2
<1>4. CASE CorrectEmail(t, m, e)
  <2> DEFINE c == [Call("correct", e) EXCEPT !.at = "write", !.member = m]
  <2>1. Calls(t, c)  BY <1>4 DEF CorrectEmail
  <2>2. c.tries = 1 /\ c.at = "write" /\ c.kind = "correct"  BY DEF Call, Began
  <2> HIDE DEF c
  <2> QED  BY <1>1, <2>1, <2>2
<1>5. ASSUME NEW s, UnifyMembers(t, s, m, e)
      PROVE  CutInv'
  <2> DEFINE c == [Call("unify", e) EXCEPT !.source = s, !.member = m, !.seen = ProfileOf(e)]
  <2>1. Calls(t, c)  BY <1>5 DEF UnifyMembers
  <2>2. c.tries = 1 /\ c.at = "lookup" /\ c.kind = "unify"  BY DEF Call, Began
  <2> HIDE DEF c
  <2> QED  BY <1>1, <2>1, <2>2
<1> QED  BY <1>2, <1>3, <1>4, <1>5

\* At first nothing is published and nothing is deleted.
LEMMA InitCutInv == Init => CutInv
<1> SUFFICES ASSUME Init PROVE CutInv  OBVIOUS
<1>1. DeliveriesOK /\ UnlinksOK /\ CutsOK
  BY DEF Init, DeliveriesOK, Delivering, UnlinksOK, Is, NoTask, CutsOK
<1>2. UnmappedOK
  <2>1. ASSUME NEW a \in Accounts, NEW v \in 1..Version(a)
        PROVE  snapshots[a][v].uid = None
    <3>1. CASE a \in DOMAIN scope.signed
      <4>1. scope.signed[a].uid = None  BY <3>1, IdentityAssumption DEF Init
      <4>2. snapshots[a] = <<scope.signed[a]>>  BY <3>1 DEF Init
      <4>3. v = 1  BY <4>2 DEF Version
      <4> QED  BY <4>1, <4>2, <4>3
    <3>2. CASE a \notin DOMAIN scope.signed
      <4>1. snapshots[a] = <<>>  BY <3>2 DEF Init
      <4> QED  BY <4>1 DEF Version
    <3> QED  BY <3>1, <3>2
  <2> QED  BY <2>1 DEF Init, UnmappedOK, NothingPublished
<1> QED  BY <1>1, <1>2 DEF CutInv

\* Every step keeps what is said of deletions.
LEMMA StepCutInv == IInv /\ CutInv /\ Next => CutInv'
<1> SUFFICES ASSUME IInv, CutInv, Next PROVE CutInv'  OBVIOUS
<1>1. scope.tasks \subseteq Tasks  BY IdentityAssumption DEF IInv, TypeOK
<1>2. Kept /\ Grows  BY StepKept DEF Kept
<1>3. CASE Clerk  BY <1>2, <1>3, ClerkKeeps
<1>4. CASE Coordinates  BY <1>1, <1>2, <1>4, CallKeeps, RemoveKeeps DEF Coordinates
<1>5. ASSUME NEW t \in Tasks, Reconciles(t)
      PROVE  Turn(t)
  BY <1>5, ReloadTurn, ReadMappingTurn, ClaimTurn, CreateUserTurn, BeginSnapshotTurn,
     CompleteSnapshotTurn, PublishUidTurn, RevokeTurn, UnlinkTurn DEF Reconciles
<1>6. ASSUME NEW t \in Tasks, Proceeds(t) \/ Fail(t)
      PROVE  Turn(t)
  BY <1>5, <1>6, LookupTurn, DecideTurn, WriteTurn, WriteLinkTurn, WriteUnificationTurn,
     FailTurn DEF Proceeds
<1>7. ASSUME NEW t \in Tasks, Proceeds(t) \/ Fail(t)
      PROVE  CutInv'
  BY <1>2, <1>6, <1>7, TurnKeeps
<1>8. ASSUME NEW t \in Tasks,
             \/ \E event \in events : Deliver(t, event)
             \/ \E a \in scope.accounts : CompleteAccess(t, a)
      PROVE  CutInv'
  BY <1>2, <1>8, StartKeeps
<1> QED  BY <1>1, <1>3, <1>4, <1>7, <1>8 DEF Next

\* The invariant of deletions, for any number of accounts, tasks and webhooks.
THEOREM CutInvariance == Spec => []CutInv
<1>1. IInv /\ CutInv /\ UNCHANGED vars => CutInv'
  <2> SUFFICES ASSUME IInv, CutInv, UNCHANGED vars PROVE CutInv'  OBVIOUS
  <2>1. UNCHANGED <<scope, snapshots, deleted, events, mapping, links, task>>  BY DEF vars
  <2>2. Grows  BY StutterKept
  <2> QED  BY <2>1, <2>2, SameLinks, OtherKeeps DEF NothingPublished, Version
<1>2. IInv /\ CutInv /\ [Next]_vars => CutInv'  BY <1>1, StepCutInv
<1> QED  BY InitCutInv, Invariance, <1>2, PTL DEF Spec

\* When nothing of it is on its way any more, a deleted account has no identity and no
\* alias left, although its deletion may have found none yet (revokeClerkUserAccess).
THEOREM DeletionsCut == Spec => []DeletedAccountsAreCut
<1>1. IInv /\ CutInv => DeletedAccountsAreCut
  <2> SUFFICES ASSUME IInv, CutInv, OnlyRepeatedCallsFail, NEW a \in deleted,
                      AtRest(a), mapping[a] # None
               PROVE  Cut(a)
    BY DEF DeletedAccountsAreCut, Cut
  <2>1. <<a, 0>> \notin events /\ ~Waits(a)  BY DEF AtRest, Waits
  <2>2. \A t \in Tasks : ~Cuts(task[t], a)
    BY RunningTask DEF AtRest, Cuts, IInv
  <2> QED  BY <2>1, <2>2 DEF CutInv, CutsOK
<1> QED  BY Invariance, CutInvariance, <1>1, PTL

=============================================================================
