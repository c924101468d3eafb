-------------------------------- MODULE Identity --------------------------------
(***************************************************************************)
(* Who a person is in a project: the accounts at Clerk, the identities of  *)
(* the database they are mapped to, the members of one project and the     *)
(* additional e-mails by which other accounts act as one of them.          *)
(*                                                                         *)
(* Clerk and the database converge by snapshots.  A snapshot is read from  *)
(* Clerk and applied in two transactions: the first takes access away, the *)
(* second grants it.  Webhooks, the page that completes an access and the  *)
(* coordinator's actions run this same sequence, at the same time.  Every  *)
(* function of the database that takes part holds one advisory lock, so    *)
(* each is a step.                                                         *)
(***************************************************************************)
EXTENDS Naturals, Sequences, FiniteSets

CONSTANTS
  Accounts, Emails, Users, Tasks,
  Scopes,                     \* the instances to check, see scope
  MaxVersion,                 \* no account reaches this version, for the fairness
  None

\* A state of an account at Clerk, and the rows of the database.
Snapshot == [primary : Emails \union {None}, verified : SUBSET Emails,
             uid : Users \union {None}]
Profile == [email : Emails, active : BOOLEAN]
Mapping == [user : Users, ready : BOOLEAN, version : Nat, deleted : BOOLEAN]
Link == [member : Users, linked : Users \union {None}]

ASSUME IdentityAssumption ==
  \A s \in Scopes :
    /\ s.accounts \subseteq Accounts /\ s.emails \subseteq Emails
    /\ s.tasks \subseteq Tasks /\ s.fallible \subseteq {"webhook", "access", "call"}
    /\ {s.changes, s.calls, s.faults} \subseteq Nat
    /\ s.changes + 2 <= MaxVersion     \* each change, the sign-up, the identity
    /\ DOMAIN s.signed \subseteq s.accounts
    /\ \A a \in DOMAIN s.signed : s.signed[a] \in Snapshot /\ s.signed[a].uid = None
    /\ DOMAIN s.placeholders \subseteq Users
    /\ \A u \in DOMAIN s.placeholders : s.placeholders[u] \in Emails
    /\ DOMAIN s.links \subseteq Emails
    /\ \A e \in DOMAIN s.links : s.links[e] \in DOMAIN s.placeholders

ASSUME NoneAssumption ==
  /\ None \notin Accounts \union Emails \union Users \union Nat
  /\ None \notin Profile \union Mapping \union Link

VARIABLES
  scope,      \* accounts, e-mails, tasks, kinds of call, and bounds
  snapshots,  \* the states of each account at Clerk, the last one current
  deleted,    \* the accounts deleted at Clerk
  events,     \* webhooks not answered with 2xx: the account, and its version or 0
  profiles,   \* auth.users with profiles
  mapping,    \* clerk_user_mapping
  members,    \* project_members of the project
  links,      \* member_email_links of the project, by e-mail
  task,       \* the server actions and webhook deliveries in flight
  refused,    \* accounts that have met a ClerkIdentityConflictError
  changes, calls, faults

clerk == <<snapshots, deleted, events>>
database == <<profiles, mapping, members, links>>
vars == <<scope, snapshots, deleted, events, profiles, mapping, members, links,
          task, refused, changes, calls, faults>>

-----------------------------------------------------------------------------
\* Clerk.

Version(a) == Len(snapshots[a])
Alive(a) == Version(a) > 0 /\ a \notin deleted

\* getVerifiedEmailIdentity: without a verified primary e-mail there is none.
HasIdentity(a, v) == snapshots[a][v].primary # None
Verified(a, v) == IF HasIdentity(a, v) THEN snapshots[a][v].verified ELSE {}

OwnersOf(e) == {a \in scope.accounts : Alive(a) /\ e \in Verified(a, Version(a))}
Unclaimed(e) == \A a \in scope.accounts : Alive(a) => e \notin snapshots[a][Version(a)].verified

\* The account gets a new state and a webhook is sent.
Publishes(a, snapshot) ==
  /\ snapshots' = [snapshots EXCEPT ![a] = Append(@, snapshot)]
  /\ events' = events \union {<<a, Version(a) + 1>>}

AtClerk == changes < scope.changes /\ changes' = changes + 1

SignUp(a, e) ==
  /\ AtClerk /\ Version(a) = 0 /\ Unclaimed(e)
  /\ Publishes(a, [primary |-> e, verified |-> {e}, uid |-> None])
  /\ UNCHANGED <<scope, deleted, database, task, refused, calls, faults>>

VerifyEmail(a, e) ==
  /\ AtClerk /\ Alive(a) /\ Unclaimed(e)
  /\ Publishes(a, [snapshots[a][Version(a)] EXCEPT !.verified = @ \union {e}])
  /\ UNCHANGED <<scope, deleted, database, task, refused, calls, faults>>

\* Without its primary e-mail the account keeps the others, or chooses one of them.
RemoveEmail(a, e) ==
  /\ AtClerk /\ Alive(a) /\ e \in snapshots[a][Version(a)].verified
  /\ LET left == snapshots[a][Version(a)].verified \ {e}
         now == snapshots[a][Version(a)]
     IN \E p \in IF now.primary = e THEN left \union {None} ELSE {now.primary} :
          Publishes(a, [now EXCEPT !.verified = left, !.primary = p])
  /\ UNCHANGED <<scope, deleted, database, task, refused, calls, faults>>

DeleteAccount(a) ==
  /\ AtClerk /\ Alive(a)
  /\ deleted' = deleted \union {a}
  /\ events' = events \union {<<a, 0>>}
  /\ UNCHANGED <<scope, snapshots, database, task, refused, calls, faults>>

-----------------------------------------------------------------------------
\* The rows.

Registered == {u \in Users : profiles[u] # None}
ProfilesWith(e) == {u \in Registered : profiles[u].email = e}
Mapped == {mapping[a].user : a \in {b \in Accounts : mapping[b] # None}}
Claimable(u) == u \in Registered /\ ~profiles[u].active /\ u \notin Mapped
Linked == {e \in Emails : links[e] # None}
ResolvedTo(u, rows) == {e \in Emails : rows[e] # None /\ rows[e].linked = u}
HasAlias(u) == \E e \in Linked : links[e].member = u /\ links[e].linked # None

\* handle_new_user gives every new user of auth.users its profile.  The e-mail is
\* unique there.
Created(e) ==
  IF ProfilesWith(e) # {} THEN profiles
  ELSE [profiles EXCEPT ![CHOOSE u \in Users : profiles[u] = None] =
          [email |-> e, active |-> FALSE]]

\* Bound: Users are enough for those created.
Room(e) == ProfilesWith(e) = {} => Registered # Users

\* What the constraints of member_email_links and the triggers of it and of
\* project_members demand of its rows: an alias resolves to one member, is no
\* member, and no member is an alias.
Terminal(rows, who) ==
  \A e \in Emails : rows[e] # None =>
    /\ rows[e].member \in who
    /\ rows[e].linked # None =>
         /\ rows[e].linked \notin who
         /\ \A f \in ResolvedTo(rows[e].linked, rows) : rows[f].member = rows[e].member

-----------------------------------------------------------------------------
\* Applying a snapshot.

NoTask == [at |-> "idle"]
Began(kind, event, place) ==
  [at |-> place, kind |-> kind, event |-> event, account |-> event[1], version |-> 0,
   tries |-> 1, user |-> None, email |-> None, member |-> None, source |-> None,
   proof |-> None, seen |-> None]

Is(t, place) == task[t].at = place
Goes(t, place) == task' = [task EXCEPT ![t].at = place]
Stops(t) == task' = [task EXCEPT ![t] = NoTask]
InClerkJob(t) == task[t].kind \in {"webhook", "access"}

\* The delivery is answered with 2xx, and Svix does not repeat it.
Answered(t) == IF task[t].kind = "webhook" THEN {task[t].event} ELSE {}
Finishes(t) == Stops(t) /\ events' = events \ Answered(t)

\* The first attempt is followed by a second one, and this by an error.
Superseded(t) ==
  IF task[t].tries = 1
  THEN task' = [task EXCEPT ![t].at = "reload", ![t].tries = 2]
  ELSE Stops(t)

\* What the caller of the reconciliation does with the identity it returns.
Continues(t, u) ==
  CASE InClerkJob(t) \/ u = None \/ task[t].kind = "refresh" -> Stops(t)
    [] OTHER -> task' = [task EXCEPT ![t].at = "decide", ![t].user = u,
                                     ![t].proof = task[t].version]
Applied(t, u) == Continues(t, u) /\ events' = events \ Answered(t)

\* Any idle task may take a call, it does not matter which.
Free(t) == Is(t, "idle") /\ t = CHOOSE x \in scope.tasks : Is(x, "idle")

\* Svix makes one attempt at a time to deliver a webhook.
Deliver(t, event) ==
  /\ Free(t) /\ event \in events
  /\ \A other \in Tasks : ~Is(other, "idle") => task[other].event # event
  /\ task' = [task EXCEPT ![t] =
                Began("webhook", event, IF event[2] = 0 THEN "revoke" ELSE "reload")]
  /\ UNCHANGED <<scope, clerk, database, refused, changes, calls, faults>>

CompleteAccess(t, a) ==
  /\ Free(t) /\ "access" \in scope.kinds /\ calls < scope.calls /\ Alive(a)
  /\ calls' = calls + 1
  /\ task' = [task EXCEPT ![t] = Began("access", <<a, 0>>, "reload")]
  /\ UNCHANGED <<scope, clerk, database, refused, changes, faults>>

\* Clerk answers 404.
NotFoundIsDone(t) == Finishes(t)
NotFound(t) == Goes(t, "revoke") /\ UNCHANGED events

\* A coordinator's action stops if the account has lost the e-mail it was found by.
Reload(t) ==
  LET a == task[t].account IN
  /\ Is(t, "reload")
  /\ \/ a \in deleted /\ NotFound(t)
     \/ /\ a \notin deleted /\ UNCHANGED events
        /\ IF ~InClerkJob(t) /\ task[t].email \notin Verified(a, Version(a))
           THEN Stops(t)
           ELSE task' = [task EXCEPT ![t].at = "mapping", ![t].version = Version(a)]
  /\ UNCHANGED <<scope, snapshots, deleted, database, refused, changes, calls, faults>>

ReadMapping(t) ==
  LET row == mapping[task[t].account]
      identified == HasIdentity(task[t].account, task[t].version)
  IN
  /\ Is(t, "mapping")
  /\ \/ /\ IF row = None THEN ~identified ELSE row.deleted
        /\ Applied(t, None)
     \/ /\ row = None /\ identified
        /\ Goes(t, "claim") /\ UNCHANGED events
     \/ /\ row # None /\ ~row.deleted
        /\ task' = [task EXCEPT ![t].at = "begin", ![t].user = row.user]
        /\ UNCHANGED events
  /\ UNCHANGED <<scope, snapshots, deleted, database, refused, changes, calls, faults>>

\* A profile may be claimed by its e-mail if nobody has it and nobody works as it.
IsFree(u) == Claimable(u) /\ ~HasAlias(u)

Primary(t) == snapshots[task[t].account][task[t].version].primary

Claim(t) ==
  LET a == task[t].account IN
  /\ task[t].at \in {"claim", "reclaim"}
  /\ \/ /\ mapping[a] # None
        /\ task' = [task EXCEPT ![t].at = "begin", ![t].user = mapping[a].user]
        /\ UNCHANGED <<events, mapping, refused>>
     \/ /\ mapping[a] = None /\ ProfilesWith(Primary(t)) = {}
        /\ IF Is(t, "claim") THEN Goes(t, "create") ELSE Stops(t)
        /\ UNCHANGED <<events, mapping, refused>>
     \/ \E u \in ProfilesWith(Primary(t)) :
        /\ mapping[a] = None /\ IsFree(u)
        /\ mapping' = [mapping EXCEPT ![a] =
                         [user |-> u, ready |-> FALSE, version |-> 0, deleted |-> FALSE]]
        /\ task' = [task EXCEPT ![t].at = "begin", ![t].user = u]
        /\ UNCHANGED <<events, refused>>
     \/ \E u \in ProfilesWith(Primary(t)) :
        /\ mapping[a] = None /\ ~IsFree(u)
        /\ refused' = refused \union {a}
        /\ Finishes(t)
        /\ UNCHANGED mapping
  /\ UNCHANGED <<scope, snapshots, deleted, profiles, members, links, changes, calls, faults>>

CreateUser(t) ==
  /\ Is(t, "create") /\ Room(Primary(t))
  /\ profiles' = Created(Primary(t))
  /\ Goes(t, "reclaim")
  /\ UNCHANGED <<scope, clerk, mapping, members, links, refused, changes, calls, faults>>

\* An applied snapshot may be applied again, without losing the access meanwhile.
AcceptsAny(row, v) == ~row.deleted
AcceptsNewer(row, v) == ~row.deleted /\ row.version < v
Accepts(row, v) == ~row.deleted /\ row.version <= v

\* Before anything is granted, the e-mails of the snapshot resolve to no other
\* account, and the account to no other e-mail.
Revoked(u, emails) ==
  [e \in Emails |->
     IF links[e] # None /\ (e \in emails <=> links[e].linked # u)
     THEN [links[e] EXCEPT !.linked = None] ELSE links[e]]

BeginSnapshot(t) ==
  LET a == task[t].account  v == task[t].version IN
  /\ Is(t, "begin")
  /\ \/ /\ ~Accepts(mapping[a], v)
        /\ Superseded(t) /\ UNCHANGED <<mapping, links>>
     \/ /\ Accepts(mapping[a], v)
        /\ mapping' = [mapping EXCEPT ![a].version = v,
                                      ![a].ready = @ /\ mapping[a].version = v]
        /\ links' = Revoked(task[t].user, Verified(a, v))
        /\ Goes(t, "complete")
  /\ UNCHANGED <<scope, clerk, profiles, members, refused, changes, calls, faults>>

\* Verified e-mails that point to two members, or to one while the account is a
\* member itself, wait for a unification.
ContradictoryTargets(u, found) ==
  \E e, f \in found : links[e].member # links[f].member
Contradictory(u, found) ==
  \/ u \in members /\ found # {}
  \/ \E e, f \in found : links[e].member # links[f].member

\* reconcile_member_email_links.
Reconciled(u, emails) ==
  LET redundant == {e \in emails \intersect Linked : links[e].member = u}
      kept == Linked \ redundant
      found == emails \intersect kept
      owner(e) == CASE e \in found -> IF Contradictory(u, found) THEN None ELSE u
                    [] e \notin found /\ links[e].linked = u -> None
                    [] OTHER -> links[e].linked
  IN [e \in Emails |-> IF e \in kept THEN [links[e] EXCEPT !.linked = owner(e)] ELSE None]

\* The snapshot may be applied while it is the one that was begun last.
IsCurrent(row, v) == ~row.deleted /\ row.version = v

CompleteSnapshot(t) ==
  LET a == task[t].account  v == task[t].version  u == task[t].user
      rows == Reconciled(u, Verified(a, v))
  IN
  /\ Is(t, "complete")
  /\ \/ /\ ~IsCurrent(mapping[a], v)
        /\ Superseded(t)
        /\ UNCHANGED <<profiles, mapping, links, events>>
     \/ /\ IsCurrent(mapping[a], v) /\ ~Terminal(rows, members)   \* a trigger raises
        /\ Stops(t)
        /\ UNCHANGED <<profiles, mapping, links, events>>
     \/ /\ IsCurrent(mapping[a], v) /\ Terminal(rows, members)
        /\ links' = rows
        /\ IF HasIdentity(a, v)
           THEN /\ profiles' = [profiles EXCEPT ![u].active = TRUE]
                /\ mapping' = [mapping EXCEPT ![a].ready = TRUE]
                /\ Goes(t, "publish") /\ UNCHANGED events
           ELSE Applied(t, None) /\ UNCHANGED <<profiles, mapping>>
  /\ UNCHANGED <<scope, snapshots, deleted, members, refused, changes, calls, faults>>

\* The identity is written in the metadata of the account, where the tokens take
\* it from, unless the snapshot has it already.
PublishUid(t) ==
  LET a == task[t].account IN
  /\ Is(t, "publish")
  /\ \/ /\ snapshots[a][task[t].version].uid = task[t].user
        /\ Applied(t, task[t].user) /\ UNCHANGED snapshots
     \/ /\ snapshots[a][task[t].version].uid # task[t].user /\ a \in deleted
        /\ NotFound(t) /\ UNCHANGED snapshots
     \/ /\ snapshots[a][task[t].version].uid # task[t].user /\ a \notin deleted
        /\ snapshots' = [snapshots EXCEPT ![a] =
                           Append(@, [@[Len(@)] EXCEPT !.uid = task[t].user])]
        /\ events' = (events \union {<<a, Version(a) + 1>>}) \ Answered(t)
        /\ Continues(t, task[t].user)
  /\ UNCHANGED <<scope, deleted, database, refused, changes, calls, faults>>

\* revokeClerkUserAccess: the mapping is marked for ever, then the aliases go.
Revoke(t) ==
  LET a == task[t].account IN
  /\ Is(t, "revoke")
  /\ IF mapping[a] = None
     THEN Finishes(t) /\ UNCHANGED mapping
     ELSE /\ mapping' = [mapping EXCEPT ![a].ready = FALSE, ![a].deleted = TRUE]
          /\ task' = [task EXCEPT ![t].at = "unlink", ![t].user = mapping[a].user]
          /\ UNCHANGED events
  /\ UNCHANGED <<scope, snapshots, deleted, profiles, members, links, refused,
                 changes, calls, faults>>

Unlink(t) ==
  /\ Is(t, "unlink")
  /\ links' = Reconciled(task[t].user, {})
  /\ Finishes(t)
  /\ UNCHANGED <<scope, snapshots, deleted, profiles, mapping, members, refused,
                 changes, calls, faults>>

-----------------------------------------------------------------------------
\* The coordinator's actions.

Calls(t, call) ==
  /\ Free(t) /\ call.kind \in scope.kinds /\ calls < scope.calls
  /\ calls' = calls + 1
  /\ task' = [task EXCEPT ![t] = call]
  /\ UNCHANGED <<scope, clerk, database, refused, changes, faults>>

Call(kind, e) == [Began(kind, <<None, 0>>, "lookup") EXCEPT !.email = e]

\* What an action reads of an e-mail: the profile that has it, and whether it is
\* active, mapped to an account, or claimable.
ProfileOf(e) ==
  IF ProfilesWith(e) = {} THEN [id |-> None, state |-> "absent"]
  ELSE LET u == CHOOSE x \in ProfilesWith(e) : TRUE IN
       [id |-> u, state |-> CASE profiles[u].active -> "active"
                              [] ~profiles[u].active /\ u \in Mapped -> "mapped"
                              [] OTHER -> "claimable"]

AddMember(t, e) ==
  /\ links[e] = None
  /\ ProfileOf(e).state \in {"mapped", "claimable"} => ProfileOf(e).id \notin members
  /\ Calls(t, [Call("add", e) EXCEPT !.seen = ProfileOf(e)])

LinkMemberEmail(t, m, e) ==
  /\ m \in members
  /\ links[e] # None => links[e].member = m
  /\ Calls(t, [Call("link", e) EXCEPT !.member = m,
                                      !.seen = [profile |-> ProfileOf(e), link |-> links[e]]])

UnifyMembers(t, s, m, e) ==
  /\ {s, m} \subseteq members /\ s # m
  /\ Calls(t, [Call("unify", e) EXCEPT
                 !.source = s, !.member = m, !.seen = ProfileOf(e)])

\* reconcileVerifiedClerkEmailOwner begins with a search.
Lookup(t) ==
  /\ Is(t, "lookup")
  /\ \/ /\ OwnersOf(task[t].email) = {}
        /\ IF task[t].kind = "refresh" THEN Stops(t) ELSE Goes(t, "decide")
     \/ \E a \in OwnersOf(task[t].email) :
          task' = [task EXCEPT ![t].at = "reload", ![t].account = a, ![t].tries = 1]
  /\ UNCHANGED <<scope, clerk, database, refused, changes, calls, faults>>

Writes(t, u) == task' = [task EXCEPT ![t].at = "write", ![t].user = u]

\* Whom addMember adds: the owner of the e-mail, the placeholder that was read, or
\* the one preregisterSupabaseUser finds or creates.
Added(c) ==
  LET fresh == CHOOSE u \in Users : profiles[u] = None
      found == CHOOSE u \in ProfilesWith(c.email) : TRUE
  IN CASE c.seen.state = "mapped" /\ c.user # c.seen.id -> None
       [] c.user # None /\ (c.seen.state = "mapped" => c.user = c.seen.id) ->
            IF c.user \in members \/ ResolvedTo(c.user, links) # {} THEN None ELSE c.user
       [] c.user = None /\ c.seen.state = "claimable" -> c.seen.id
       [] c.user = None /\ c.seen.state = "absent" ->
            IF ProfilesWith(c.email) = {} THEN fresh
            ELSE IF Claimable(found) THEN found ELSE None
       [] OTHER -> None

DecideAdd(t) ==
  LET c == task[t] IN
  /\ Is(t, "decide") /\ c.kind = "add" /\ Room(c.email)
  /\ IF Added(c) = None THEN Stops(t) ELSE Writes(t, Added(c))
  /\ profiles' = IF c.user = None /\ c.seen.state = "absent" THEN Created(c.email)
                 ELSE profiles
  /\ UNCHANGED <<scope, clerk, mapping, members, links, refused, changes, calls, faults>>

\* After the owner was reconciled linkMemberEmail reads again.  Without an owner it
\* decides on what it had read.  Whoever is a member already has to be unified.
DecideLink(t) ==
  LET c == task[t]
      seen == IF c.user = None THEN c.seen
              ELSE [profile |-> ProfileOf(c.email), link |-> links[c.email]]
      own == c.user = None /\ seen.profile.id = c.member
      profile == IF own THEN [id |-> None, state |-> "absent"] ELSE seen.profile
      sources == ({c.user} \union
                  (IF profile.state = "claimable" \/ (c.user = None /\ profile.state = "active")
                   THEN {profile.id} ELSE {})) \ {None, c.member}
      linked == CASE c.user # None -> c.user
                  [] c.user = None /\ profile.state = "active" -> None
                  [] OTHER -> profile.id
  IN
  /\ Is(t, "decide") /\ c.kind = "link"
  /\ IF \/ c.user # None /\ (c.member \notin members
                             \/ (seen.link # None /\ seen.link.member # c.member))
        \/ seen.profile.state = "mapped" /\ seen.profile.id # c.user
        \/ c.user = c.member
        \/ own /\ seen.link = None
        \/ sources # {} /\ c.member \notin members      \* the preview raises
        \/ sources \intersect members # {}
     THEN Stops(t)
     ELSE task' = [task EXCEPT ![t].at = "write", ![t].user = linked, ![t].seen = seen]
  /\ UNCHANGED <<scope, clerk, database, refused, changes, calls, faults>>

DecideUnify(t) ==
  LET c == task[t]
      linked == IF c.user # None THEN c.user ELSE c.source
      isSource == c.user = c.source \/ c.seen = [id |-> c.source, state |-> "claimable"]
  IN
  /\ Is(t, "decide") /\ c.kind = "unify"
  /\ IF isSource /\ linked # c.member THEN Writes(t, linked) ELSE Stops(t)
  /\ UNCHANGED <<scope, clerk, database, refused, changes, calls, faults>>

\* assert_identity_write_proof: the snapshot by which the owner was found is still
\* the last one applied, or the placeholder still has the e-mail and no account.
ProvesReady(u, e, proof) ==
  IF proof # None
  THEN \E a \in Accounts : /\ mapping[a] # None /\ mapping[a].user = u
                           /\ mapping[a].ready
  ELSE u \in ProfilesWith(e) /\ Claimable(u)
Proves(u, e, proof) ==
  IF proof # None
  THEN \E a \in Accounts : /\ mapping[a] # None /\ mapping[a].user = u
                           /\ mapping[a].ready /\ mapping[a].version = proof
  ELSE u \in ProfilesWith(e) /\ Claimable(u)

WriteMember(t) ==
  LET c == task[t] IN
  /\ Is(t, "write") /\ c.kind = "add"
  /\ members' = IF /\ Proves(c.user, c.email, c.proof)
                   /\ ResolvedTo(c.user, links) = {}
                THEN members \union {c.user} ELSE members
  /\ Stops(t)
  /\ UNCHANGED <<scope, clerk, profiles, mapping, links, refused, changes, calls, faults>>

\* An existing link is updated only if it is as it was read.  A link without access
\* is followed by one more reconciliation: the owner may have signed up meanwhile.
WriteLink(t) ==
  LET c == task[t]
      rows == [links EXCEPT ![c.email] = [member |-> c.member, linked |-> c.user]]
      written == /\ c.user # None => Proves(c.user, c.email, c.proof)
                 /\ links[c.email] = c.seen.link
                 /\ Terminal(rows, members)
  IN
  /\ Is(t, "write") /\ c.kind = "link"
  /\ links' = IF written THEN rows ELSE links
  /\ IF written /\ c.proof = None
     THEN task' = [task EXCEPT ![t] = [Call("refresh", c.email) EXCEPT !.member = c.member]]
     ELSE Stops(t)
  /\ UNCHANGED <<scope, clerk, profiles, mapping, members, refused, changes, calls, faults>>

\* unify_project_members.  The links of the source pass to the target one by one,
\* and a trigger looks at the others before each.
PassOneByOne(s) ==
  \A e, f \in Linked :
    e # f /\ links[e].member = s /\ links[f].member = s /\ links[e].linked # None
      => links[f].linked # links[e].linked

UnifiedLinks(c) ==
  [[e \in Emails |-> IF e \in Linked /\ links[e].member = c.source
                     THEN [links[e] EXCEPT !.member = c.member] ELSE links[e]]
     EXCEPT ![c.email] = [member |-> c.member, linked |-> c.user]]

\* What unify_project_members verifies itself, before its first write.
MayUnify(c) ==
  /\ Proves(c.user, c.email, c.proof)
  /\ c.user # c.source => Proves(c.source, c.email, None)
  /\ {c.source, c.member} \subseteq members
  /\ links[c.email] # None => links[c.email].member \in {c.source, c.member}

WriteUnification(t) ==
  LET c == task[t]
      commits == /\ MayUnify(c) /\ PassOneByOne(c.source)
                 /\ Terminal(UnifiedLinks(c), members \ {c.source})
  IN
  /\ Is(t, "write") /\ c.kind = "unify"
  /\ members' = IF commits THEN members \ {c.source} ELSE members
  /\ links' = IF commits THEN UnifiedLinks(c) ELSE links
  /\ Stops(t)
  /\ UNCHANGED <<scope, clerk, profiles, mapping, refused, changes, calls, faults>>

\* updatePendingMemberEmail, up to its write.
CorrectEmail(t, m, e) ==
  /\ m \in members /\ ~profiles[m].active /\ Claimable(m)
  /\ ProfilesWith(e) \subseteq {m} /\ links[e] = None /\ ~HasAlias(m)
  /\ Calls(t, [Call("correct", e) EXCEPT !.at = "write", !.member = m])

\* The trigger of auth.users asks again, under the lock.
WriteEmail(t) ==
  LET c == task[t] IN
  /\ Is(t, "write") /\ c.kind = "correct"
  /\ profiles' = IF Claimable(c.member) /\ ProfilesWith(c.email) \subseteq {c.member}
                 THEN [profiles EXCEPT ![c.member].email = c.email] ELSE profiles
  /\ Stops(t)
  /\ UNCHANGED <<scope, clerk, mapping, members, links, refused, changes, calls, faults>>

Counted(kind) == kind \in scope.kinds /\ calls < scope.calls /\ calls' = calls + 1

\* The links of a member go with him.
RemoveMember(m) ==
  /\ m \in members /\ Counted("remove")
  /\ members' = members \ {m}
  /\ links' = [e \in Emails |-> IF e \in Linked /\ links[e].member = m THEN None ELSE links[e]]
  /\ UNCHANGED <<scope, clerk, profiles, mapping, task, refused, changes, faults>>

UnlinkMemberEmail(e) ==
  /\ e \in Linked /\ Counted("unlink")
  /\ links' = [links EXCEPT ![e] = None]
  /\ UNCHANGED <<scope, clerk, profiles, mapping, members, task, refused, changes, faults>>

\* A call fails, its answer is lost, or the process dies.
Fail(t) ==
  /\ ~Is(t, "idle") /\ faults < scope.faults
  /\ (IF InClerkJob(t) THEN task[t].kind ELSE "call") \in scope.fallible
  /\ faults' = faults + 1
  /\ Stops(t)
  /\ UNCHANGED <<scope, clerk, database, refused, changes, calls>>

-----------------------------------------------------------------------------
\* At first some accounts have signed up, whose webhooks are on their way, and the
\* project has members and e-mails that wait for their owners.
Init ==
  /\ scope \in Scopes
  /\ snapshots = [a \in Accounts |->
       IF a \in DOMAIN scope.signed
       THEN <<scope.signed[a]>> ELSE <<>>]
  /\ deleted = {} /\ events = (DOMAIN scope.signed) \X {1}
  /\ profiles = [u \in Users |-> IF u \in DOMAIN scope.placeholders
                                 THEN [email |-> scope.placeholders[u], active |-> FALSE]
                                 ELSE None]
  /\ mapping = [a \in Accounts |-> None]
  /\ members = DOMAIN scope.placeholders
  /\ links = [e \in Emails |-> IF e \in DOMAIN scope.links
                                THEN [member |-> scope.links[e], linked |-> None] ELSE None]
  /\ task = [t \in Tasks |-> NoTask]
  /\ refused = {}
  /\ changes = 0 /\ calls = 0 /\ faults = 0

Reconciles(t) ==
  \/ Reload(t) \/ ReadMapping(t) \/ Claim(t) \/ CreateUser(t) \/ BeginSnapshot(t)
  \/ CompleteSnapshot(t) \/ PublishUid(t) \/ Revoke(t) \/ Unlink(t)

Proceeds(t) ==
  \/ Reconciles(t) \/ Lookup(t) \/ DecideAdd(t) \/ DecideLink(t) \/ DecideUnify(t)
  \/ WriteMember(t) \/ WriteLink(t) \/ WriteUnification(t) \/ WriteEmail(t)

Clerk ==
  \E a \in scope.accounts :
    \/ DeleteAccount(a)
    \/ \E e \in scope.emails : SignUp(a, e) \/ VerifyEmail(a, e) \/ RemoveEmail(a, e)

Coordinates ==
  \/ \E t \in scope.tasks, e \in scope.emails :
       \/ AddMember(t, e)
       \/ \E m \in members :
            \/ LinkMemberEmail(t, m, e) \/ CorrectEmail(t, m, e)
            \/ \E s \in members : UnifyMembers(t, s, m, e)
  \/ \E m \in members : RemoveMember(m)
  \/ \E e \in scope.emails : UnlinkMemberEmail(e)

Next ==
  \/ Clerk \/ Coordinates
  \/ \E t \in scope.tasks :
       \/ Proceeds(t) \/ Fail(t)
       \/ \E event \in events : Deliver(t, event)
       \/ \E a \in scope.accounts : CompleteAccess(t, a)

\* Svix repeats a webhook until it is answered, and what runs goes on.
Webhooks == Accounts \X (0..MaxVersion)
Fairness ==
  /\ \A t \in Tasks : WF_vars(Proceeds(t))
  /\ \A event \in Webhooks : WF_vars(\E t \in Tasks : Deliver(t, event))

Spec == Init /\ [][Next]_vars /\ Fairness

-----------------------------------------------------------------------------
\* Properties.

\* A profile as an action read it, and what the calls of the coordinator read.
ProfileSeen == [id : Users \union {None},
                state : {"absent", "active", "mapped", "claimable"}]
LinkSeen == [profile : ProfileSeen, link : Link \union {None}]

Running ==
  [at : {"lookup", "reload", "mapping", "claim", "create", "reclaim", "begin", "complete",
         "publish", "revoke", "unlink", "decide", "write"},
   kind : {"webhook", "access", "add", "link", "unify", "correct", "refresh"},
   event : (Accounts \union {None}) \X Nat,
   account : Accounts \union {None}, version : Nat, tries : {1, 2},
   user : Users \union {None}, email : Emails \union {None},
   member : Users \union {None}, source : Users \union {None},
   proof : Nat \union {None}, seen : ProfileSeen \union LinkSeen \union {None}]

TypeOK ==
  /\ scope \in Scopes
  /\ snapshots \in [Accounts -> Seq(Snapshot)]
  /\ deleted \subseteq Accounts /\ events \subseteq Accounts \X Nat
  /\ profiles \in [Users -> Profile \union {None}]
  /\ mapping \in [Accounts -> Mapping \union {None}]
  /\ members \subseteq Users
  /\ links \in [Emails -> Link \union {None}]
  /\ task \in [Tasks -> Running \union {NoTask}]
  /\ refused \subseteq Accounts
  /\ changes \in Nat /\ calls \in Nat /\ faults \in Nat

Ready(a) == mapping[a] # None /\ mapping[a].ready

\* A ready account acts as a member by the e-mails that the snapshot it is ready
\* for has verified, whoever wrote the link and in whatever order the snapshots,
\* the links and the changes at Clerk came.
ReadyMeansApplied ==
  \A a \in Accounts : Ready(a) =>
    ResolvedTo(mapping[a].user, links) \subseteq Verified(a, mapping[a].version)

\* Access is never given back by an older snapshot.
AccessNeverGoesBack ==
  [][\A a \in Accounts :
       /\ mapping[a] # None =>
            /\ mapping'[a] # None /\ mapping'[a].user = mapping[a].user
            /\ mapping'[a].version >= mapping[a].version
       /\ mapping[a] # None /\ mapping[a].deleted => ~Ready(a)']_vars

\* The grant of a snapshot is never refused by the triggers of the links: they
\* would refuse each repetition of the webhook too.
GrantsNeverRaise ==
  \A t \in Tasks : Is(t, "complete") =>
    LET c == task[t] IN
    IsCurrent(mapping[c.account], c.version) =>
      Terminal(Reconciled(c.user, Verified(c.account, c.version)), members)

\* A webhook that fails is repeated, a page or a coordinator's action may not be:
\* what an action applies from an old snapshot after the last webhook of an account
\* was answered is corrected by the webhook that its own last step provokes.
OnlyRepeatedCallsFail == scope.fallible \subseteq {"webhook"}

\* When nothing of it is on its way any more, a deleted account has no identity
\* and no alias left, although its deletion may have found none yet.
AtRest(a) ==
  /\ \A event \in events : event[1] # a
  /\ \A t \in Tasks : Is(t, "idle") \/ task[t].account # a
DeletedAccountsAreCut ==
  OnlyRepeatedCallsFail =>
    \A a \in deleted : AtRest(a) /\ mapping[a] # None =>
      mapping[a].deleted /\ ResolvedTo(mapping[a].user, links) = {}

\* In the end every account that has an identity can be used with its last state,
\* or its person was told of a conflict; without an identity it cannot.
Settled(a) ==
  \/ a \in deleted \union refused \/ Version(a) = 0
  \/ HasIdentity(a, Version(a)) /\ Ready(a) /\ mapping[a].version = Version(a)
       /\ snapshots[a][Version(a)].uid = mapping[a].user
  \/ ~HasIdentity(a, Version(a)) /\ ~Ready(a)
AccountsSettle == <>[](OnlyRepeatedCallsFail => \A a \in Accounts : Settled(a))

\* What the comment of PreviewUnification promises: the links of the source pass to
\* the target once nothing stands against the unification.
UnificationsPass ==
  \A t \in Tasks : Is(t, "write") /\ task[t].kind = "unify" =>
    (MayUnify(task[t]) => PassOneByOne(task[t].source))

\* In the end a link resolves to the account that has verified its e-mail.
Wanted(a, e) ==
  /\ Alive(a) /\ Ready(a) /\ e \in Verified(a, Version(a)) /\ links[e] # None
  /\ ~Contradictory(mapping[a].user, Verified(a, Version(a)) \intersect Linked)
OwnersAreResolved ==
  <>[](\A a \in Accounts, e \in Emails : Wanted(a, e) => links[e].linked = mapping[a].user)
=============================================================================
