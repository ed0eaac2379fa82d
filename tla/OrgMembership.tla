---------------------------- MODULE OrgMembership ----------------------------
(***************************************************************************)
(* The members and invitations of one organization                         *)
(* (api/routes/organizations.py).  A request reads the tables in several   *)
(* statements and commits once, at the end; READ COMMITTED lets any other  *)
(* request commit in between, and no constraint of the schema and no guard *)
(* of an UPDATE repeats what was read.  So every awaited statement is a    *)
(* step of its own, named by pc[h]:                                        *)
(*                                                                         *)
(*   seats    invite_member is about to count the members                  *)
(*   invite   ... to commit the invitation                                 *)
(*   expire   accept_invitation is about to commit 'expired'               *)
(*   count    ... to count the members                                     *)
(*   check    ... to look for a membership of its user                     *)
(*   cancel   ... to commit 'cancelled'                                    *)
(*   join     ... to commit the new row and 'accepted'                     *)
(*   find     remove_member is about to look for the row                   *)
(*   delete   ... to delete the row it found                               *)
(***************************************************************************)
EXTENDS Integers, FiniteSets

CONSTANTS
  Users,
  Owner,        \* the user who creates the organization
  Invitations,  \* primary keys of organization_invitations
  Handlers,     \* requests served at one time
  None,
  MaxSeats      \* organizations.max_seats, whatever integer the creator sent

ASSUME OrgAssumption ==
  /\ Owner \in Users
  /\ None \notin Invitations
  /\ IsFiniteSet(Handlers) /\ Handlers # {}
  /\ MaxSeats \in Int

VARIABLES
  members,      \* rows of organization_members
  status,       \* status[i] of an invitation, "absent" before it is made
  role,         \* role[i]: the role the invitation grants
  given,        \* history: given[i], the memberships invitation i ever gave
  overdue,      \* invitations whose expires_at has passed
  pc,           \* pc[h]: the statement request h is about to run
  user,         \* user[h]: the user whose membership it is about
  invitation,   \* invitation[h]: the invitation it loaded, or None
  found         \* found[h]: the row it will delete, as a set

requestVars == <<pc, user, invitation, found>>
invitationVars == <<status, role, given>>
vars == <<members, invitationVars, overdue, requestVars>>

Roles == {"admin", "member"}

\* A row; its key stands for the fresh uuid.
Row(u, r, i, h) == [user |-> u, role |-> r, key |-> <<i, h>>]

\* create_organization: the creator is its first member, an admin.
Init ==
  /\ \E h \in Handlers : members = {Row(Owner, "admin", None, h)}
  /\ status = [i \in Invitations |-> "absent"]
  /\ role = [i \in Invitations |-> "member"]
  /\ given = [i \in Invitations |-> 0]
  /\ overdue = {}
  /\ pc = [h \in Handlers |-> "idle"]
  /\ user = [h \in Handlers |-> Owner]
  /\ invitation = [h \in Handlers |-> None]
  /\ found = [h \in Handlers |-> {}]

-----------------------------------------------------------------------------
(* Helpers.                                                                *)

RowsOf(u) == {m \in members : m.user = u}

\* scalar_one_or_none() raises when there are two rows.
IsAdmin(u) == \E m \in members : RowsOf(u) = {m} /\ m.role = "admin"

\* The seat limit is reached.
Full == Cardinality(members) >= MaxSeats

Begin(h, u, i, step) ==
  /\ pc[h] = "idle"
  /\ pc' = [pc EXCEPT ![h] = step]
  /\ user' = [user EXCEPT ![h] = u]
  /\ invitation' = [invitation EXCEPT ![h] = i]
  /\ UNCHANGED <<members, invitationVars, overdue, found>>

\* The request has read and goes on; or it has raised, and is over.
Read(h, step) ==
  /\ pc' = [pc EXCEPT ![h] = step]
  /\ UNCHANGED <<members, invitationVars, overdue, user, invitation, found>>

\* The request has committed and is over.
Finish(h) ==
  /\ pc' = [pc EXCEPT ![h] = "idle"]
  /\ found' = [found EXCEPT ![h] = {}]
  /\ UNCHANGED <<overdue, user, invitation>>

\* The UPDATE of the status asks nothing of the row's present status.
Close(h, new) == status' = [status EXCEPT ![invitation[h]] = new]

-----------------------------------------------------------------------------
(* POST /organizations/{org_id}/invite.                                    *)

StartInvite(h, u) == IsAdmin(u) /\ Begin(h, u, None, "seats")

CountForInvite(h) ==
  /\ pc[h] = "seats"
  /\ Read(h, IF Full THEN "idle" ELSE "invite")

Invite(h, i, r) ==
  /\ pc[h] = "invite"
  /\ status[i] = "absent"
  /\ status' = [status EXCEPT ![i] = "pending"]
  /\ role' = [role EXCEPT ![i] = r]
  /\ Finish(h)
  /\ UNCHANGED <<members, given>>

\* Seven days go by.
Expire(i) ==
  /\ status[i] # "absent"
  /\ i \notin overdue
  /\ overdue' = overdue \cup {i}
  /\ UNCHANGED <<members, invitationVars, requestVars>>

-----------------------------------------------------------------------------
(* POST /organizations/invitations/accept.                                 *)

\* Mutant: the handler goes on without the row it looked for.
StartAcceptBlind(h, u, i) ==
  /\ status[i] = "pending"
  /\ Begin(h, u, None, IF i \in overdue THEN "expire" ELSE "count")

StartAccept(h, u, i) ==
  /\ status[i] = "pending"
  /\ Begin(h, u, i, IF i \in overdue THEN "expire" ELSE "count")

MarkExpired(h) ==
  /\ pc[h] = "expire"
  /\ Close(h, "expired")
  /\ Finish(h)
  /\ UNCHANGED <<members, role, given>>

\* Mutant: the limit is compared with > instead of >=.
CountOneTooMany(h) ==
  /\ pc[h] = "count"
  /\ Read(h, IF Cardinality(members) > MaxSeats THEN "idle" ELSE "check")

CountForAccept(h) ==
  /\ pc[h] = "count"
  /\ Read(h, IF Full THEN "idle" ELSE "check")

\* Mutant: an accepted invitation is not checked against the members.
CheckNothing(h) == pc[h] = "check" /\ Read(h, "join")

\* With two rows for the user, scalar_one_or_none() raises.
CheckMember(h) ==
  /\ pc[h] = "check"
  /\ \/ RowsOf(user[h]) = {} /\ Read(h, "join")
     \/ (\E m \in members : RowsOf(user[h]) = {m}) /\ Read(h, "cancel")
     \/ Cardinality(RowsOf(user[h])) > 1 /\ Read(h, "idle")

Cancel(h) ==
  /\ pc[h] = "cancel"
  /\ Close(h, "cancelled")
  /\ Finish(h)
  /\ UNCHANGED <<members, role, given>>

\* The new row, with the role the invitation grants.
AddMember(h) ==
  LET i == invitation[h]
  IN  /\ members' = members \cup {Row(user[h], role[i], i, h)}
      /\ given' = [given EXCEPT ![i] = @ + 1]

\* Mutant: the invitation is not marked accepted.
JoinAgain(h) ==
  /\ pc[h] = "join"
  /\ AddMember(h)
  /\ Finish(h)
  /\ UNCHANGED <<status, role>>

Join(h) ==
  /\ pc[h] = "join"
  /\ AddMember(h)
  /\ Close(h, "accepted")
  /\ Finish(h)
  /\ UNCHANGED role

-----------------------------------------------------------------------------
(* DELETE /organizations/{org_id}/members/{user_id}.                       *)

\* Admin u removes v; from here on the request is about v.
StartRemove(h, u, v) ==
  /\ IsAdmin(u)
  /\ u # v
  /\ Begin(h, v, None, "find")

FindMember(h) ==
  /\ pc[h] = "find"
  /\ IF \E m \in members : RowsOf(user[h]) = {m}
     THEN /\ pc' = [pc EXCEPT ![h] = "delete"]
          /\ found' = [found EXCEPT ![h] = RowsOf(user[h])]
          /\ UNCHANGED <<members, invitationVars, overdue, user, invitation>>
     ELSE Read(h, "idle")

\* A row that is gone already is no error.
Delete(h) ==
  /\ pc[h] = "delete"
  /\ members' = members \ found[h]
  /\ Finish(h)
  /\ UNCHANGED invitationVars

-----------------------------------------------------------------------------

RequestStep(h) ==
  \/ CountForInvite(h) \/ MarkExpired(h) \/ CountForAccept(h)
  \/ CheckMember(h) \/ Cancel(h) \/ Join(h) \/ FindMember(h) \/ Delete(h)
  \/ \E i \in Invitations, r \in Roles : Invite(h, i, r)

Next ==
  \/ \E h \in Handlers :
       \/ RequestStep(h)
       \/ \E u \in Users :
            \/ StartInvite(h, u)
            \/ \E i \in Invitations : StartAccept(h, u, i)
            \/ \E v \in Users : StartRemove(h, u, v)
  \/ \E i \in Invitations : Expire(i)

Spec == Init /\ [][Next]_vars

-----------------------------------------------------------------------------
(* Properties.                                                             *)

Steps == {"idle", "seats", "invite", "expire", "count", "check", "cancel",
          "join", "find", "delete"}
InvitationStatuses == {"absent", "pending", "accepted", "expired", "cancelled"}

Keys == (Invitations \cup {None}) \X Handlers

MemberRows == [user : Users, role : Roles, key : Keys]

\* Every variable has its type, and a request that accepts has an invitation.
TypeOK ==
  /\ members \subseteq MemberRows /\ IsFiniteSet(members)
  /\ status \in [Invitations -> InvitationStatuses]
  /\ role \in [Invitations -> Roles]
  /\ given \in [Invitations -> Nat]
  /\ overdue \subseteq Invitations
  /\ pc \in [Handlers -> Steps]
  /\ user \in [Handlers -> Users]
  /\ invitation \in [Handlers -> Invitations \cup {None}]
  /\ found \in [Handlers -> SUBSET MemberRows]
  /\ \A h \in Handlers :
       pc[h] \in {"expire", "count", "check", "cancel", "join"}
         => invitation[h] \in Invitations

\* Requests that have counted the members and may still add one.
Joining == {h \in Handlers : pc[h] \in {"check", "join"}}

\* The creator has a seat whatever max_seats is.
Limit == IF MaxSeats < 1 THEN 1 ELSE MaxSeats

\* The seat limit can only be passed by requests served at the same time: n
\* of them fill at most n - 1 seats too many, however invitations, removals
\* and joins interleave.
SeatsBounded == Cardinality(members) < Limit + Cardinality(Handlers)

\* The inductive form of it: a seat is taken for every request that counted
\* before the limit was reached.
SeatsCounted ==
  Cardinality(members) + Cardinality(Joining) < Limit + Cardinality(Handlers)

\* A user is a member once for every request served at a time, at most: the
\* look for a membership and the insert are two statements, and no constraint
\* forbids a second row, which locks the user out.
MemberRowsBounded ==
  \A u \in Users : Cardinality(RowsOf(u)) <= Cardinality(Handlers)

\* 'expired' or 'cancelled' stands in the row.
Refused(i) == status[i] \in {"expired", "cancelled"}

\* Nothing but concurrency lets an invitation serve twice.  Requests that all
\* read it 'pending' may all join, and any of them may write 'expired' or
\* 'cancelled' over the 'accepted' of another, but n requests at a time come
\* to n uses in all, over the whole life of the invitation: served one at a
\* time, an invitation gives one seat or is refused, and never both.
InvitationUsesBounded ==
  \A i \in Invitations :
    given[i] + (IF Refused(i) THEN 1 ELSE 0) <= Cardinality(Handlers)

\* Requests that have read invitation i as 'pending' and may still use it.
Using(i) ==
  {h \in Handlers :
     pc[h] \in {"expire", "count", "check", "cancel", "join"} /\ invitation[h] = i}

\* The inductive form of it: requests that hold the invitation count as uses,
\* and as long as others can load it, it was not used.
UsesCounted ==
  \A i \in Invitations :
    /\ status[i] \in {"absent", "pending"} => given[i] = 0
    /\ given[i] + (IF Refused(i) THEN 1 ELSE 0) + Cardinality(Using(i))
         <= Cardinality(Handlers)

=============================================================================
