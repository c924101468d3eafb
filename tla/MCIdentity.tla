------------------------------- MODULE MCIdentity -------------------------------
(***************************************************************************)
(* Instances of Identity for TLC: six situations of one or two accounts.   *)
(***************************************************************************)
EXTENDS Identity, TLC

CONSTANTS a1, a2, e1, e2, e3, e4, u1, u2, u3, t1, t2

\* An account that has signed up with e and verified the e-mails of vs.
Signed(e, vs) == [primary |-> e, verified |-> vs, uid |-> None]

Base == [accounts |-> {a1}, emails |-> {e1, e2}, tasks |-> {t1, t2},
         kinds |-> {}, fallible |-> {}, changes |-> 1, calls |-> 1, faults |-> 0,
         signed |-> (a1 :> Signed(e1, {e1})), placeholders |-> (u1 :> e1),
         links |-> <<>>]

\* The webhooks of one account, which may fail, and the page that completes its access.
Alone == [Base EXCEPT !.kinds = {"access"}, !.fallible = {"webhook"}, !.faults = 1]

\* An e-mail that waits for its owner passes from one account to another.
Handover == [Base EXCEPT !.accounts = {a1, a2}, !.emails = {e1}, !.changes = 3,
                         !.placeholders = (u1 :> e3), !.links = (e1 :> u1)]

\* The coordinator adds the account, links its e-mails to a member, unifies the
\* member it is with another, or corrects an invitation.
Adding == [Base EXCEPT !.kinds = {"add"}, !.emails = {e1}, !.placeholders = <<>>,
                       !.fallible = {"call"}, !.faults = 1]
Linking == [Base EXCEPT !.kinds = {"link"}, !.emails = {e2},
                        !.signed = (a1 :> Signed(e1, {e1, e2})),
                        !.placeholders = (u1 :> e3)]
Unifying == [Base EXCEPT !.kinds = {"unify"}, !.placeholders = (u1 :> e1) @@ (u2 :> e3),
                         !.links = (e2 :> u2)]
Correcting == [Base EXCEPT !.kinds = {"correct", "remove", "unlink"}, !.calls = 2,
                           !.links = (e2 :> u1)]

IdentityScopes == {Alone, Handover, Adding, Linking, Unifying, Correcting}

\* The former owner of an e-mail comes late.
LateSnapshot ==
  {[Base EXCEPT !.accounts = {a1, a2}, !.emails = {e1}, !.changes = 2,
                !.signed = (a1 :> Signed(e2, {e1, e2})) @@ (a2 :> Signed(e3, {e3})),
                !.placeholders = (u1 :> e4), !.links = (e1 :> u1)]}

\* The e-mails of one account are two links of the member to be unified.
SplitLinks ==
  {[Base EXCEPT !.kinds = {"unify"}, !.emails = {e3}, !.changes = 0,
                !.signed = (a1 :> Signed(e1, {e1, e2})),
                !.placeholders = (u1 :> e4) @@ (u2 :> e3),
                !.links = (e1 :> u2) @@ (e2 :> u2)]}
=============================================================================
