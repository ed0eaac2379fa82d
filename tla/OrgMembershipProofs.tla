------------------------ MODULE OrgMembershipProofs ------------------------
(***************************************************************************)
(* The seat limit of an organization can be passed only by requests that   *)
(* are served at the same time, by n - 1 seats for n of them; a user gets  *)
(* at most n rows, and an invitation is used at most n times.              *)
(***************************************************************************)
EXTENDS OrgMembership, FiniteSetTheorems, TLAPS

USE OrgAssumption

LEMMA TypeInit == Init => TypeOK
<1> SUFFICES ASSUME Init PROVE TypeOK
  OBVIOUS
<1>1. PICK h \in Handlers : members = {Row(Owner, "admin", None, h)}
  BY DEF Init
<1>2. IsFiniteSet(members)
  BY <1>1, FS_Singleton
<1>3. members \subseteq MemberRows
  BY <1>1 DEF Row, MemberRows, Roles, Keys
<1> QED
  BY <1>2, <1>3 DEF Init, TypeOK, InvitationStatuses, Roles, Steps

\* A request that goes on keeps what it has loaded.
LEMMA BeginType ==
  ASSUME TypeOK, NEW h \in Handlers, NEW u \in Users,
         NEW i \in Invitations \cup {None}, NEW step \in Steps,
         step \in {"expire", "count"} => i \in Invitations,
         step \notin {"check", "cancel", "join"},
         Begin(h, u, i, step)
  PROVE  TypeOK'
BY DEF TypeOK, Begin, invitationVars

LEMMA ReadType ==
  ASSUME TypeOK, NEW h \in Handlers, NEW step \in Steps, Read(h, step),
         step \in {"check", "cancel", "join"} => invitation[h] \in Invitations,
         step \notin {"expire", "count"}
  PROVE  TypeOK'
BY DEF TypeOK, Read, invitationVars

LEMMA FinishType ==
  ASSUME TypeOK, NEW h \in Handlers, Finish(h),
         members' \subseteq MemberRows, IsFiniteSet(members'),
         status' \in [Invitations -> InvitationStatuses],
         role' \in [Invitations -> Roles], given' \in [Invitations -> Nat]
  PROVE  TypeOK'
BY DEF TypeOK, Finish, Steps

LEMMA TypeNext == TypeOK /\ [Next]_vars => TypeOK'
<1> SUFFICES ASSUME TypeOK, [Next]_vars PROVE TypeOK'
  OBVIOUS
<1> USE DEF Steps, InvitationStatuses
<1>1. ASSUME NEW h \in Handlers, NEW u \in Users, StartInvite(h, u)
      PROVE  TypeOK'
  BY <1>1, BeginType DEF StartInvite
<1>2. ASSUME NEW h \in Handlers, CountForInvite(h) PROVE TypeOK'
  BY <1>2, ReadType DEF CountForInvite
<1>3. ASSUME NEW h \in Handlers, NEW i \in Invitations, NEW r \in Roles,
             Invite(h, i, r)
      PROVE  TypeOK'
  BY <1>3, FinishType DEF Invite, TypeOK
<1>4. ASSUME NEW i \in Invitations, Expire(i) PROVE TypeOK'
  BY <1>4 DEF Expire, TypeOK, requestVars, invitationVars
<1>5. ASSUME NEW h \in Handlers, NEW u \in Users, NEW i \in Invitations,
             StartAccept(h, u, i)
      PROVE  TypeOK'
  BY <1>5, BeginType DEF StartAccept
<1>6. ASSUME NEW h \in Handlers, MarkExpired(h) PROVE TypeOK'
  BY <1>6, FinishType DEF MarkExpired, Close, TypeOK
<1>7. ASSUME NEW h \in Handlers, CountForAccept(h) PROVE TypeOK'
  BY <1>7, ReadType DEF CountForAccept, TypeOK
<1>8. ASSUME NEW h \in Handlers, CheckMember(h) PROVE TypeOK'
  BY <1>8, ReadType DEF CheckMember, TypeOK
<1>9. ASSUME NEW h \in Handlers, Cancel(h) PROVE TypeOK'
  BY <1>9, FinishType DEF Cancel, Close, TypeOK
<1>10. ASSUME NEW h \in Handlers, Join(h) PROVE TypeOK'
  <2> DEFINE new == Row(user[h], role[invitation[h]], invitation[h], h)
  <2>1. new \in MemberRows
    BY <1>10 DEF Join, Row, TypeOK, MemberRows, Keys
  <2>2. members' = members \cup {new}
    BY <1>10 DEF Join, AddMember
  <2>3. IsFiniteSet(members')
    BY <2>2, FS_AddElement DEF TypeOK
  <2>4. given' \in [Invitations -> Nat]
    BY <1>10 DEF Join, AddMember, TypeOK
  <2> HIDE DEF new
  <2> QED
    BY <1>10, <2>1, <2>2, <2>3, <2>4, FinishType DEF Join, Close, TypeOK
<1>11. ASSUME NEW h \in Handlers, NEW u \in Users, NEW v \in Users,
              StartRemove(h, u, v)
       PROVE  TypeOK'
  BY <1>11, BeginType DEF StartRemove
<1>12. ASSUME NEW h \in Handlers, FindMember(h) PROVE TypeOK'
  <2>1. CASE \E m \in members : RowsOf(user[h]) = {m}
    BY <1>12, <2>1 DEF FindMember, TypeOK, RowsOf, invitationVars
  <2>2. CASE ~ \E m \in members : RowsOf(user[h]) = {m}
    BY <1>12, <2>2, ReadType DEF FindMember
  <2> QED
    BY <2>1, <2>2
<1>13. ASSUME NEW h \in Handlers, Delete(h) PROVE TypeOK'
  <2>1. members' \subseteq members /\ IsFiniteSet(members')
    BY <1>13, FS_Subset DEF Delete, TypeOK
  <2> QED
    BY <1>13, <2>1, FinishType DEF Delete, TypeOK, invitationVars
<1>14. CASE UNCHANGED vars
  BY <1>14 DEF vars, requestVars, invitationVars, TypeOK
<1> QED
  BY <1>1, <1>2, <1>3, <1>4, <1>5, <1>6, <1>7, <1>8, <1>9, <1>10, <1>11,
     <1>12, <1>13, <1>14 DEF Next, RequestStep

\* The variables of the organization keep their types.
THEOREM OrgTypeCorrect == Spec => []TypeOK
BY TypeInit, TypeNext, PTL DEF Spec

-----------------------------------------------------------------------------
(* The seat limit.                                                         *)

\* Neither members nor requests that may add one become more.
LEMMA SeatsShrink ==
  ASSUME TypeOK, SeatsCounted, members' \subseteq members,
         Joining' \subseteq Joining
  PROVE  SeatsCounted'
<1>1. IsFiniteSet(members) /\ IsFiniteSet(Joining)
  BY FS_Subset DEF TypeOK, Joining
<1>2. /\ Cardinality(members) \in Nat /\ Cardinality(Joining) \in Nat
      /\ Cardinality(members') \in Nat /\ Cardinality(Joining') \in Nat
      /\ Cardinality(members') <= Cardinality(members)
      /\ Cardinality(Joining') <= Cardinality(Joining)
  BY <1>1, FS_Subset, FS_CardinalityType
<1>3. Cardinality(Handlers) \in Nat
  BY FS_CardinalityType
<1> QED
  BY <1>2, <1>3 DEF SeatsCounted, Limit

LEMMA SeatsInit == Init => SeatsCounted
<1> SUFFICES ASSUME Init PROVE SeatsCounted
  OBVIOUS
<1>1. PICK h \in Handlers : members = {Row(Owner, "admin", None, h)}
  BY DEF Init
<1>2. Cardinality(members) = 1
  BY <1>1, FS_Singleton
<1>3. Joining = {}
  BY DEF Init, Joining
<1>4. Cardinality(Joining) = 0
  BY <1>3, FS_EmptySet
<1>5. Cardinality(Handlers) \in Nat /\ Cardinality(Handlers) # 0
  BY FS_CardinalityType, FS_EmptySet
<1> QED
  BY <1>2, <1>4, <1>5 DEF SeatsCounted, Limit

LEMMA SeatsNext == TypeOK /\ SeatsCounted /\ [Next]_vars => SeatsCounted'
<1> SUFFICES ASSUME TypeOK, SeatsCounted, [Next]_vars PROVE SeatsCounted'
  OBVIOUS
<1>a. IsFiniteSet(members) /\ IsFiniteSet(Joining) /\ Joining \subseteq Handlers
  BY FS_Subset DEF TypeOK, Joining
<1>b. /\ Cardinality(members) \in Nat /\ Cardinality(Joining) \in Nat
      /\ Cardinality(Handlers) \in Nat
  BY <1>a, FS_CardinalityType
<1>1. ASSUME NEW h \in Handlers, CountForAccept(h) PROVE SeatsCounted'
  <2>1. CASE Full
    BY <1>1, <2>1, SeatsShrink DEF CountForAccept, Read, Joining, TypeOK
  <2>2. CASE ~Full
    <3>1. Cardinality(members') < Limit /\ Cardinality(members') \in Nat
      BY <1>1, <1>b, <2>2 DEF Full, CountForAccept, Read, Limit
    <3>2. Joining' \subseteq Handlers
      BY DEF Joining
    <3>3. IsFiniteSet(Joining')
          /\ Cardinality(Joining') <= Cardinality(Handlers)
      BY <3>2, FS_Subset
    <3>4. Cardinality(Joining') \in Nat
      BY <3>3, FS_CardinalityType
    <3> QED
      BY <1>b, <3>1, <3>3, <3>4 DEF SeatsCounted, Limit
  <2> QED
    BY <2>1, <2>2
<1>2. ASSUME NEW h \in Handlers, Join(h) PROVE SeatsCounted'
  <2>1. /\ Cardinality(members') \in Nat
        /\ Cardinality(members') <= Cardinality(members) + 1
    <3> DEFINE new == Row(user[h], role[invitation[h]], invitation[h], h)
    <3>1. members' = members \cup {new}
      BY <1>2 DEF Join, AddMember
    <3> HIDE DEF new
    <3>2. Cardinality(members')
            = IF new \in members THEN Cardinality(members)
              ELSE Cardinality(members) + 1
      BY <1>a, <3>1, FS_AddElement
    <3> QED
      BY <1>b, <3>2
  <2>2. Joining' = Joining \ {h} /\ h \in Joining
    BY <1>2 DEF Join, Finish, Joining, TypeOK
  <2>3. Cardinality(Joining') = Cardinality(Joining) - 1
    BY <1>a, <2>2, FS_RemoveElement
  <2> QED
    BY <1>b, <2>1, <2>3 DEF SeatsCounted, Limit
<1>3. ASSUME NEW h \in Handlers, Delete(h) PROVE SeatsCounted'
  BY <1>3, SeatsShrink DEF Delete, Finish, Joining, TypeOK
<1>4. ASSUME NEW h \in Handlers,
             \/ CountForInvite(h) \/ MarkExpired(h) \/ CheckMember(h)
             \/ Cancel(h) \/ FindMember(h)
             \/ \E i \in Invitations, r \in Roles : Invite(h, i, r)
      PROVE  SeatsCounted'
  BY <1>4, SeatsShrink
     DEF CountForInvite, MarkExpired, CheckMember, Cancel, FindMember, Invite,
         Read, Finish, Joining, TypeOK
<1>5. ASSUME NEW h \in Handlers, NEW u \in Users,
             \/ StartInvite(h, u)
             \/ \E i \in Invitations : StartAccept(h, u, i)
             \/ \E v \in Users : StartRemove(h, u, v)
      PROVE  SeatsCounted'
  BY <1>5, SeatsShrink
     DEF StartInvite, StartAccept, StartRemove, Begin, Joining, TypeOK
<1>6. ASSUME NEW i \in Invitations, Expire(i) PROVE SeatsCounted'
  BY <1>6, SeatsShrink DEF Expire, requestVars, Joining
<1>7. CASE UNCHANGED vars
  BY <1>7, SeatsShrink DEF vars, requestVars, Joining
<1> QED
  BY <1>1, <1>2, <1>3, <1>4, <1>5, <1>6, <1>7 DEF Next, RequestStep

\* n requests at a time pass the seat limit by n - 1 members at most, whatever
\* max_seats the creator chose.
THEOREM SeatsAlwaysBounded == Spec => []SeatsBounded
<1>1. TypeOK /\ SeatsCounted => SeatsBounded
  <2> SUFFICES ASSUME TypeOK, SeatsCounted PROVE SeatsBounded
    OBVIOUS
  <2>1. IsFiniteSet(members) /\ IsFiniteSet(Joining)
    BY FS_Subset DEF TypeOK, Joining
  <2>2. /\ Cardinality(members) \in Nat /\ Cardinality(Joining) \in Nat
        /\ Cardinality(Handlers) \in Nat
    BY <2>1, FS_CardinalityType
  <2> QED
    BY <2>2 DEF SeatsCounted, SeatsBounded, Limit
<1> QED
  BY <1>1, TypeInit, TypeNext, SeatsInit, SeatsNext, PTL DEF Spec

-----------------------------------------------------------------------------
(* Invitations.                                                            *)

Uses(i) ==
  given[i] + (IF Refused(i) THEN 1 ELSE 0) + Cardinality(Using(i))

LEMMA UsersFinite ==
  ASSUME NEW i
  PROVE  /\ IsFiniteSet(Using(i)) /\ Cardinality(Using(i)) \in Nat
         /\ Cardinality(Using(i)) <= Cardinality(Handlers)
         /\ Cardinality(Handlers) \in Nat
<1>1. Using(i) \subseteq Handlers
  BY DEF Using
<1>2. IsFiniteSet(Using(i)) /\ Cardinality(Using(i)) <= Cardinality(Handlers)
  BY <1>1, FS_Subset
<1> QED
  BY <1>2, FS_CardinalityType

\* A request that gives up the invitation, or none, leaves room for the others.
LEMMA UsersShrink ==
  ASSUME NEW i, Using(i)' \subseteq Using(i)
  PROVE  /\ Cardinality(Using(i)') \in Nat
         /\ Cardinality(Using(i)') <= Cardinality(Using(i))
         /\ \A h \in Using(i) :
              h \notin Using(i)' => Cardinality(Using(i)') <= Cardinality(Using(i)) - 1
<1>1. IsFiniteSet(Using(i)) /\ Cardinality(Using(i)) \in Nat
  BY UsersFinite
<1>2. IsFiniteSet(Using(i)') /\ Cardinality(Using(i)') <= Cardinality(Using(i))
  BY <1>1, FS_Subset
<1>3. ASSUME NEW h \in Using(i), h \notin Using(i)'
      PROVE  Cardinality(Using(i)') <= Cardinality(Using(i)) - 1
  <2>1. /\ IsFiniteSet(Using(i) \ {h})
        /\ Cardinality(Using(i) \ {h}) = Cardinality(Using(i)) - 1
    BY <1>1, FS_RemoveElement
  <2>2. Using(i)' \subseteq Using(i) \ {h}
    BY <1>3
  <2> QED
    BY <2>1, <2>2, FS_Subset
<1> QED
  BY <1>2, <1>3, FS_CardinalityType

\* A step that leaves the invitations alone, and whose requests load pending
\* ones only.
LEMMA UsesKept ==
  ASSUME TypeOK, UsesCounted, NEW i \in Invitations,
         \/ status'[i] = status[i]
         \/ status[i] = "absent" /\ status'[i] = "pending",
         given' = given,
         status[i] = "pending" \/ Using(i)' \subseteq Using(i)
  PROVE  /\ status'[i] \in {"absent", "pending"} => given'[i] = 0
         /\ Uses(i)' <= Cardinality(Handlers)
<1>1. given[i] \in Nat /\ (status[i] \in {"absent", "pending"} => given[i] = 0)
  BY DEF TypeOK, UsesCounted
<1>2. /\ Cardinality(Using(i)) \in Nat /\ Cardinality(Handlers) \in Nat
  BY UsersFinite
<1>3. /\ Cardinality(Using(i)') \in Nat
      /\ Cardinality(Using(i)') <= Cardinality(Handlers)
  <2>1. Using(i)' \subseteq Handlers
    BY DEF Using
  <2>2. /\ IsFiniteSet(Using(i)')
        /\ Cardinality(Using(i)') <= Cardinality(Handlers)
    BY <2>1, FS_Subset
  <2> QED
    BY <2>2, FS_CardinalityType
<1>4. CASE status'[i] \in {"absent", "pending"}
  BY <1>1, <1>3, <1>4 DEF Uses, Refused
<1>5. CASE status'[i] \notin {"absent", "pending"}
  <2>1. status'[i] = status[i] /\ Cardinality(Using(i)') <= Cardinality(Using(i))
    BY <1>5, UsersShrink
  <2>2. given[i] + (IF Refused(i) THEN 1 ELSE 0) + Cardinality(Using(i))
          <= Cardinality(Handlers)
    BY DEF UsesCounted
  <2> QED
    BY <1>1, <1>2, <1>3, <1>5, <2>1, <2>2 DEF Uses, Refused
<1> QED
  BY <1>4, <1>5

\* A request closes its invitation: it stops using it, and has used it once.
LEMMA UsesClosed ==
  ASSUME TypeOK, UsesCounted, NEW h \in Handlers,
         pc[h] \in {"expire", "cancel", "join"}, Finish(h),
         NEW new \in {"accepted", "expired", "cancelled"}, Close(h, new),
         given' = IF new = "accepted"
                  THEN [given EXCEPT ![invitation[h]] = @ + 1] ELSE given
  PROVE  UsesCounted'
<1> SUFFICES ASSUME NEW i \in Invitations
             PROVE  /\ status'[i] \in {"absent", "pending"} => given'[i] = 0
                    /\ Uses(i)' <= Cardinality(Handlers)
  BY DEF UsesCounted, Uses
<1>1. Using(i)' = Using(i) \ {h}
  BY DEF Finish, Using, TypeOK
<1>2. CASE i = invitation[h]
  <2>1. h \in Using(i) /\ h \notin Using(i)'
    BY <1>1, <1>2 DEF Using
  <2>2. /\ Cardinality(Using(i)) \in Nat /\ Cardinality(Handlers) \in Nat
        /\ Cardinality(Using(i)') \in Nat
        /\ Cardinality(Using(i)') <= Cardinality(Using(i)) - 1
    BY <1>1, <2>1, UsersFinite, UsersShrink
  <2>3. /\ given[i] \in Nat
        /\ given[i] + (IF Refused(i) THEN 1 ELSE 0) + Cardinality(Using(i))
             <= Cardinality(Handlers)
    BY DEF TypeOK, UsesCounted
  <2>4. /\ status'[i] = new
        /\ given'[i] = IF new = "accepted" THEN given[i] + 1 ELSE given[i]
    BY <1>2 DEF Close, TypeOK
  <2>5. given'[i] + (IF Refused(i)' THEN 1 ELSE 0) <= given[i] + 1
    BY <2>3, <2>4 DEF Refused
  <2>6. given'[i] \in Nat
    BY <2>3, <2>4
  <2>7. given[i] + Cardinality(Using(i)) <= Cardinality(Handlers)
    BY <2>2, <2>3
  <2>8. Uses(i)' <= Cardinality(Handlers)
    BY <2>2, <2>3, <2>5, <2>6, <2>7 DEF Uses
  <2> QED
    BY <2>4, <2>8
<1>3. CASE i # invitation[h]
  <2>1. /\ status'[i] = status[i] /\ given'[i] = given[i]
        /\ Using(i)' \subseteq Using(i)
    BY <1>1, <1>3 DEF Close, TypeOK
  <2>2. /\ Cardinality(Using(i)) \in Nat /\ Cardinality(Handlers) \in Nat
        /\ Cardinality(Using(i)') \in Nat
        /\ Cardinality(Using(i)') <= Cardinality(Using(i))
    BY <2>1, UsersFinite, UsersShrink
  <2>3. /\ given[i] \in Nat
        /\ status[i] \in {"absent", "pending"} => given[i] = 0
        /\ given[i] + (IF Refused(i) THEN 1 ELSE 0) + Cardinality(Using(i))
             <= Cardinality(Handlers)
    BY DEF TypeOK, UsesCounted
  <2> QED
    BY <2>1, <2>2, <2>3 DEF Uses, Refused
<1> QED
  BY <1>2, <1>3

LEMMA UsesNext == TypeOK /\ UsesCounted /\ [Next]_vars => UsesCounted'
<1> SUFFICES ASSUME TypeOK, UsesCounted, [Next]_vars PROVE UsesCounted'
  OBVIOUS
<1>a. ASSUME given' = given,
             \A i \in Invitations :
               /\ \/ status'[i] = status[i]
                  \/ status[i] = "absent" /\ status'[i] = "pending"
               /\ status[i] = "pending" \/ Using(i)' \subseteq Using(i)
      PROVE  UsesCounted'
  <2> SUFFICES ASSUME NEW i \in Invitations
               PROVE  /\ status'[i] \in {"absent", "pending"} => given'[i] = 0
                      /\ Uses(i)' <= Cardinality(Handlers)
    BY DEF UsesCounted, Uses
  <2>1. /\ \/ status'[i] = status[i]
           \/ status[i] = "absent" /\ status'[i] = "pending"
        /\ given' = given
        /\ status[i] = "pending" \/ Using(i)' \subseteq Using(i)
    BY <1>a
  <2>2. /\ status'[i] \in {"absent", "pending"} => given'[i] = 0
        /\ Uses(i)' <= Cardinality(Handlers)
    BY <2>1, UsesKept
  <2> QED
    BY <2>2
<1>1. ASSUME NEW h \in Handlers, MarkExpired(h) PROVE UsesCounted'
  BY <1>1, UsesClosed DEF MarkExpired
<1>2. ASSUME NEW h \in Handlers, Cancel(h) PROVE UsesCounted'
  BY <1>2, UsesClosed DEF Cancel
<1>3. ASSUME NEW h \in Handlers, Join(h) PROVE UsesCounted'
  BY <1>3, UsesClosed DEF Join, AddMember
<1>4. ASSUME NEW h \in Handlers,
             \/ CountForInvite(h) \/ CountForAccept(h) \/ CheckMember(h)
             \/ FindMember(h) \/ Delete(h)
      PROVE  UsesCounted'
  <2>1. \A i \in Invitations : Using(i)' \subseteq Using(i)
    BY <1>4 DEF CountForInvite, CountForAccept, CheckMember, FindMember, Delete,
       Read, Finish, Using, TypeOK
  <2>2. UNCHANGED <<status, given>>
    BY <1>4 DEF CountForInvite, CountForAccept, CheckMember, FindMember, Delete,
       Read, Finish, invitationVars
  <2> QED
    BY <1>a, <2>1, <2>2
<1>5. ASSUME NEW h \in Handlers, NEW i \in Invitations, NEW r \in Roles,
             Invite(h, i, r)
      PROVE  UsesCounted'
  <2>1. \A k \in Invitations : Using(k)' \subseteq Using(k)
    BY <1>5 DEF Invite, Finish, Using, TypeOK
  <2> QED
    BY <1>5, <1>a, <2>1 DEF Invite, TypeOK
<1>6. ASSUME NEW h \in Handlers, NEW u \in Users, NEW i \in Invitations,
             StartAccept(h, u, i)
      PROVE  UsesCounted'
  <2>1. \A k \in Invitations \ {i} : Using(k)' \subseteq Using(k)
    BY <1>6 DEF StartAccept, Begin, Using, TypeOK
  <2> QED
    BY <1>6, <1>a, <2>1 DEF StartAccept, Begin, invitationVars
<1>7. ASSUME NEW h \in Handlers, NEW u \in Users,
             StartInvite(h, u) \/ \E v \in Users : StartRemove(h, u, v)
      PROVE  UsesCounted'
  <2>1. \A k \in Invitations : Using(k)' \subseteq Using(k)
    BY <1>7 DEF StartInvite, StartRemove, Begin, Using, TypeOK
  <2> QED
    BY <1>7, <1>a, <2>1 DEF StartInvite, StartRemove, Begin, invitationVars
<1>8. ASSUME NEW i \in Invitations, Expire(i) PROVE UsesCounted'
  BY <1>8, <1>a DEF Expire, requestVars, invitationVars, Using
<1>9. CASE UNCHANGED vars
  BY <1>9, <1>a DEF vars, requestVars, invitationVars, Using
<1> QED
  BY <1>1, <1>2, <1>3, <1>4, <1>5, <1>6, <1>7, <1>8, <1>9
     DEF Next, RequestStep

\* n requests at a time use an invitation at most n times, for any numbers of
\* users, invitations and seats.
THEOREM InvitationUsesStayBounded == Spec => []InvitationUsesBounded
<1>1. Init => UsesCounted
  <2> SUFFICES ASSUME Init, NEW i \in Invitations PROVE Uses(i) <= Cardinality(Handlers)
    BY DEF Init, UsesCounted, Uses
  <2>1. Cardinality(Using(i)) \in Nat /\ Cardinality(Using(i)) <= Cardinality(Handlers)
        /\ Cardinality(Handlers) \in Nat
    BY UsersFinite
  <2>2. given[i] = 0 /\ ~Refused(i)
    BY DEF Init, Refused
  <2> QED
    BY <2>1, <2>2 DEF Uses
<1>2. TypeOK /\ UsesCounted => InvitationUsesBounded
  <2> SUFFICES ASSUME TypeOK, UsesCounted, NEW i \in Invitations
               PROVE  given[i] + (IF Refused(i) THEN 1 ELSE 0) <= Cardinality(Handlers)
    BY DEF InvitationUsesBounded
  <2>1. Cardinality(Using(i)) \in Nat /\ Cardinality(Handlers) \in Nat
    BY UsersFinite
  <2> QED
    BY <2>1 DEF UsesCounted, TypeOK
<1> QED
  BY <1>1, <1>2, TypeInit, TypeNext, UsesNext, PTL DEF Spec

-----------------------------------------------------------------------------
(* A user's rows.                                                          *)

\* Requests that found no row of u and are about to insert one.
JoiningAs(u) == {h \in Handlers : pc[h] = "join" /\ user[h] = u}

\* The inductive form of MemberRowsBounded: the requests that will still insert
\* a row have their place too.
RowsCounted ==
  \A u \in Users :
    Cardinality(RowsOf(u)) + Cardinality(JoiningAs(u)) <= Cardinality(Handlers)

LEMMA RowsFinite ==
  ASSUME TypeOK, NEW u \in Users
  PROVE  /\ IsFiniteSet(RowsOf(u)) /\ IsFiniteSet(JoiningAs(u))
         /\ Cardinality(RowsOf(u)) \in Nat /\ Cardinality(JoiningAs(u)) \in Nat
         /\ Cardinality(Handlers) \in Nat
<1>1. RowsOf(u) \subseteq members /\ JoiningAs(u) \subseteq Handlers
  BY DEF RowsOf, JoiningAs
<1>2. IsFiniteSet(RowsOf(u)) /\ IsFiniteSet(JoiningAs(u))
  BY <1>1, FS_Subset DEF TypeOK
<1> QED
  BY <1>2, FS_CardinalityType

\* Neither the rows of u nor the requests that may add one become more.
LEMMA RowsShrink ==
  ASSUME TypeOK, RowsCounted, NEW u \in Users,
         RowsOf(u)' \subseteq RowsOf(u), JoiningAs(u)' \subseteq JoiningAs(u)
  PROVE  Cardinality(RowsOf(u)') + Cardinality(JoiningAs(u)') <= Cardinality(Handlers)
<1>1. /\ IsFiniteSet(RowsOf(u)) /\ IsFiniteSet(JoiningAs(u))
      /\ Cardinality(RowsOf(u)) \in Nat /\ Cardinality(JoiningAs(u)) \in Nat
      /\ Cardinality(Handlers) \in Nat
  BY RowsFinite
<1>2. /\ IsFiniteSet(RowsOf(u)') /\ IsFiniteSet(JoiningAs(u)')
      /\ Cardinality(RowsOf(u)') <= Cardinality(RowsOf(u))
      /\ Cardinality(JoiningAs(u)') <= Cardinality(JoiningAs(u))
  BY <1>1, FS_Subset
<1>3. Cardinality(RowsOf(u)') \in Nat /\ Cardinality(JoiningAs(u)') \in Nat
  BY <1>2, FS_CardinalityType
<1> QED
  BY <1>1, <1>2, <1>3 DEF RowsCounted

LEMMA RowsInit == Init => RowsCounted
<1> SUFFICES ASSUME Init, NEW u \in Users
             PROVE  Cardinality(RowsOf(u)) + Cardinality(JoiningAs(u))
                      <= Cardinality(Handlers)
  BY DEF RowsCounted
<1>1. PICK h \in Handlers : members = {Row(Owner, "admin", None, h)}
  BY DEF Init
<1>2. RowsOf(u) \subseteq members
  BY DEF RowsOf
<1>3. IsFiniteSet(members) /\ Cardinality(members) = 1
  BY <1>1, FS_Singleton
<1>4. Cardinality(RowsOf(u)) <= 1
  BY <1>2, <1>3, FS_Subset
<1>5. JoiningAs(u) = {}
  BY DEF Init, JoiningAs
<1>6. Cardinality(JoiningAs(u)) = 0
  BY <1>5, FS_EmptySet
<1>7. Cardinality(Handlers) \in Nat /\ Cardinality(Handlers) # 0
  BY FS_CardinalityType, FS_EmptySet
<1>8. Cardinality(RowsOf(u)) \in Nat
  BY <1>2, <1>3, FS_Subset, FS_CardinalityType
<1> QED
  BY <1>4, <1>6, <1>7, <1>8

LEMMA RowsNext == TypeOK /\ RowsCounted /\ [Next]_vars => RowsCounted'
<1> SUFFICES ASSUME TypeOK, RowsCounted, [Next]_vars, NEW u \in Users
             PROVE  Cardinality(RowsOf(u)') + Cardinality(JoiningAs(u)')
                      <= Cardinality(Handlers)
  BY DEF RowsCounted
<1>a. /\ IsFiniteSet(RowsOf(u)) /\ IsFiniteSet(JoiningAs(u))
      /\ Cardinality(RowsOf(u)) \in Nat /\ Cardinality(JoiningAs(u)) \in Nat
      /\ Cardinality(Handlers) \in Nat
  BY RowsFinite
<1> DEFINE Goal == Cardinality(RowsOf(u)') + Cardinality(JoiningAs(u)')
                     <= Cardinality(Handlers)
<1>1. ASSUME NEW h \in Handlers, CheckMember(h) PROVE Goal
  <2>1. RowsOf(u)' = RowsOf(u)
    BY <1>1 DEF CheckMember, Read, RowsOf
  <2>2. CASE user[h] = u /\ RowsOf(u) = {}
    <3>1. Cardinality(RowsOf(u)') = 0
      BY <2>1, <2>2, FS_EmptySet
    <3>2. JoiningAs(u)' \subseteq Handlers
      BY DEF JoiningAs
    <3>3. IsFiniteSet(JoiningAs(u)')
          /\ Cardinality(JoiningAs(u)') <= Cardinality(Handlers)
      BY <3>2, FS_Subset
    <3>4. Cardinality(JoiningAs(u)') \in Nat
      BY <3>3, FS_CardinalityType
    <3> QED
      BY <1>a, <3>1, <3>3, <3>4
  <2>3. CASE ~(user[h] = u /\ RowsOf(u) = {})
    <3>1. JoiningAs(u)' \subseteq JoiningAs(u)
      BY <1>1, <2>3, FS_EmptySet DEF CheckMember, Read, JoiningAs, TypeOK
    <3> QED
      BY <2>1, <3>1, RowsShrink
  <2> QED
    BY <2>2, <2>3
<1>2. ASSUME NEW h \in Handlers, Join(h) PROVE Goal
  <2> DEFINE new == Row(user[h], role[invitation[h]], invitation[h], h)
  <2>1. members' = members \cup {new} /\ new.user = user[h]
    BY <1>2 DEF Join, AddMember, Row
  <2>2. CASE user[h] = u
    <3>1. RowsOf(u)' = RowsOf(u) \cup {new}
      BY <2>1, <2>2 DEF RowsOf
    <3>2. JoiningAs(u)' = JoiningAs(u) \ {h} /\ h \in JoiningAs(u)
      BY <1>2, <2>2 DEF Join, Finish, JoiningAs, TypeOK
    <3> HIDE DEF new
    <3>3. Cardinality(RowsOf(u)')
            = IF new \in RowsOf(u) THEN Cardinality(RowsOf(u))
              ELSE Cardinality(RowsOf(u)) + 1
      BY <1>a, <3>1, FS_AddElement
    <3>4. Cardinality(JoiningAs(u)') = Cardinality(JoiningAs(u)) - 1
      BY <1>a, <3>2, FS_RemoveElement
    <3> QED
      BY <1>a, <3>3, <3>4 DEF RowsCounted
  <2>3. CASE user[h] # u
    <3>1. RowsOf(u)' \subseteq RowsOf(u)
      BY <2>1, <2>3 DEF RowsOf
    <3>2. JoiningAs(u)' \subseteq JoiningAs(u)
      BY <1>2 DEF Join, Finish, JoiningAs, TypeOK
    <3> QED
      BY <3>1, <3>2, RowsShrink
  <2> QED
    BY <2>2, <2>3
<1>3. ASSUME NEW h \in Handlers, Delete(h) PROVE Goal
  BY <1>3, RowsShrink DEF Delete, Finish, JoiningAs, RowsOf, TypeOK
<1>4. ASSUME NEW h \in Handlers,
             \/ CountForInvite(h) \/ MarkExpired(h) \/ CountForAccept(h)
             \/ Cancel(h) \/ FindMember(h)
             \/ \E i \in Invitations, r \in Roles : Invite(h, i, r)
      PROVE  Goal
  BY <1>4, RowsShrink
     DEF CountForInvite, MarkExpired, CountForAccept, Cancel, FindMember, Invite,
         Read, Finish, JoiningAs, RowsOf, TypeOK
<1>5. ASSUME NEW h \in Handlers, NEW v \in Users,
             \/ StartInvite(h, v)
             \/ \E i \in Invitations : StartAccept(h, v, i)
             \/ \E x \in Users : StartRemove(h, v, x)
      PROVE  Goal
  BY <1>5, RowsShrink
     DEF StartInvite, StartAccept, StartRemove, Begin, JoiningAs, RowsOf, TypeOK
<1>6. ASSUME NEW i \in Invitations, Expire(i) PROVE Goal
  BY <1>6, RowsShrink DEF Expire, requestVars, JoiningAs, RowsOf
<1>7. CASE UNCHANGED vars
  BY <1>7, RowsShrink DEF vars, requestVars, JoiningAs, RowsOf
<1> QED
  BY <1>1, <1>2, <1>3, <1>4, <1>5, <1>6, <1>7 DEF Next, RequestStep

\* A user has at most one row for every request served at a time.
THEOREM RowsStayBounded == Spec => []MemberRowsBounded
<1>1. TypeOK /\ RowsCounted => MemberRowsBounded
  <2> SUFFICES ASSUME TypeOK, RowsCounted, NEW u \in Users
               PROVE  Cardinality(RowsOf(u)) <= Cardinality(Handlers)
    BY DEF MemberRowsBounded
  <2> QED
    BY RowsFinite DEF RowsCounted
<1> QED
  BY <1>1, TypeInit, TypeNext, RowsInit, RowsNext, PTL DEF Spec

=============================================================================
