-------------------------- MODULE Membership_proofs --------------------------
(***************************************************************************)
(* For any number of users, requests and invites: by how much overlapping  *)
(* requests may exceed the plan, what requests one after the other keep,   *)
(* and both side by side, as MCMembership composes them.                   *)
(***************************************************************************)
EXTENDS MCMembership, FiniteSetTheorems, FunctionTheorems, TLAPS

USE MembershipAssumption

LEMMA NoCtxType == NoCtx \in Contexts
BY DEF NoCtx, Contexts, Roles

LEMMA NoInviteType == NoInvite \in InviteRows /\ NoInvite.state = "none"
BY DEF NoInvite, InviteRows, Roles

\* A statement that only reads keeps the database, and moves one request.
LEMMA CheckMoves ==
  ASSUME TypeOK, NEW q \in Requests, NEW next \in Statements,
         Goto(q, next) \/ End(q), UNCHANGED <<dbVars, abandoned>>
  PROVE  TypeOK'
<1>1. CASE Goto(q, next)
  <2>1. UNCHANGED <<dbVars, abandoned, ctx>> /\ pc' = [pc EXCEPT ![q] = next]
    BY <1>1 DEF Goto
  <2> QED BY <2>1 DEF TypeOK, dbVars, Pending
<1>2. CASE End(q)
  <2>1. /\ UNCHANGED <<dbVars, abandoned>>
        /\ pc' = [pc EXCEPT ![q] = "idle"]
        /\ ctx' = [ctx EXCEPT ![q] = NoCtx]
    BY <1>2 DEF End
  <2> QED BY <2>1, NoCtxType DEF TypeOK, dbVars, Statements
<1> QED BY <1>1, <1>2

LEMMA BeginType ==
  ASSUME TypeOK, NEW q \in Requests, NEW step \in Statements,
         NEW c \in Contexts, Begin(q, step, c)
  PROVE  TypeOK'
BY DEF Begin, TypeOK, dbVars

LEMMA StartType ==
  ASSUME TypeOK, NEW q \in Requests, Start(q)
  PROVE  TypeOK'
<1> USE NoCtxType
<1>1. CASE StartUpdateRole(q)
  <2>1. PICK u \in Users, r \in AskedRoles :
          Begin(q, "role_read", [NoCtx EXCEPT !.user = u, !.role = r])
    BY <1>1 DEF StartUpdateRole
  <2>2. [NoCtx EXCEPT !.user = u, !.role = r] \in Contexts
    BY DEF Contexts
  <2> QED BY <2>1, <2>2, BeginType DEF Statements
<1>2. CASE StartRemoveMember(q)
  <2>1. PICK u \in Users : Begin(q, "remove_read", [NoCtx EXCEPT !.user = u])
    BY <1>2 DEF StartRemoveMember
  <2>2. [NoCtx EXCEPT !.user = u] \in Contexts
    BY DEF Contexts
  <2> QED BY <2>1, <2>2, BeginType DEF Statements
<1>3. CASE StartInvite(q)
  <2>1. PICK a \in Users, e \in Emails, r \in AskedRoles :
          Begin(q, IF Limited THEN "count_members" ELSE "check_member",
                [NoCtx EXCEPT !.actor = a, !.email = e, !.role = r])
    BY <1>3 DEF StartInvite
  <2>2. [NoCtx EXCEPT !.actor = a, !.email = e, !.role = r] \in Contexts
    BY DEF Contexts
  <2> QED BY <2>1, <2>2, BeginType DEF Statements
<1>4. CASE StartRevoke(q)
  <2>1. PICK i \in InviteIds : Begin(q, "revoke", [NoCtx EXCEPT !.invite = i])
    BY <1>4 DEF StartRevoke
  <2>2. [NoCtx EXCEPT !.invite = i] \in Contexts
    BY DEF Contexts
  <2> QED BY <2>1, <2>2, BeginType DEF Statements
<1>5. CASE StartAccept(q)
  <2>1. PICK u \in accounts, i \in Pending :
          Begin(q, "accept_member", [NoCtx EXCEPT
            !.user = u, !.role = invites[i].role, !.invite = i])
    BY <1>5 DEF StartAccept
  <2>2. [NoCtx EXCEPT !.user = u, !.role = invites[i].role, !.invite = i]
          \in Contexts
    BY DEF Contexts, TypeOK, Pending, InviteRows
  <2> QED BY <2>1, <2>2, BeginType DEF Statements
<1>6. CASE StartDeleteAccount(q)
  <2>1. PICK u \in accounts :
          Begin(q, IF \E x \in RowsOf(u) : x.role = "owner"
                     THEN "read_members" ELSE "delete_user",
                [NoCtx EXCEPT !.user = u])
    BY <1>6 DEF StartDeleteAccount
  <2>2. [NoCtx EXCEPT !.user = u] \in Contexts
    BY DEF Contexts, TypeOK
  <2> QED BY <2>1, <2>2, BeginType DEF Statements
<1> QED BY <1>1, <1>2, <1>3, <1>4, <1>5, <1>6 DEF Start

LEMMA ReadType ==
  ASSUME TypeOK, NEW q \in Requests, Read(q), IsFiniteSet(rows)
  PROVE  TypeOK'
<1>1. CASE ReadForRole(q)
  <2>1. CASE End(q)
    BY <1>1, <2>1, NoCtxType DEF ReadForRole, End, TypeOK, dbVars, Statements
  <2>2. CASE ~End(q)
    <3>1. PICK step \in {"role_count", "role_write"} : Goto(q, step)
      BY <1>1, <2>2 DEF ReadForRole
    <3> QED BY <1>1, <3>1 DEF ReadForRole, Goto, TypeOK, dbVars, Statements
  <2> QED BY <2>1, <2>2
<1>2. CASE ReadForRemoval(q)
  <2>1. CASE End(q)
    BY <1>2, <2>1, NoCtxType DEF ReadForRemoval, End, TypeOK, dbVars, Statements
  <2>2. CASE ~End(q)
    <3>1. PICK step \in {"remove_count", "remove_write"} : Goto(q, step)
      BY <1>2, <2>2 DEF ReadForRemoval
    <3> QED BY <1>2, <3>1 DEF ReadForRemoval, Goto, TypeOK, dbVars, Statements
  <2> QED BY <2>1, <2>2
<1>3. CASE CountOwners(q)
  <2>1. CASE End(q)
    BY <1>3, <2>1, CheckMoves DEF CountOwners, Check, Statements
  <2>2. CASE ~End(q)
    <3>1. PICK step \in {"role_write", "remove_write"} : Goto(q, step)
      BY <1>3, <2>2 DEF CountOwners, Check
    <3> QED BY <1>3, <3>1, CheckMoves DEF CountOwners, Check, Statements
  <2> QED BY <2>1, <2>2
<1>4. CASE CountMembers(q)
  <2>1. Cardinality(rows) \in Nat
    BY FS_CardinalityType
  <2>2. [ctx[q] EXCEPT !.count = Cardinality(rows)] \in Contexts
    BY <2>1 DEF TypeOK, Contexts
  <2>3. /\ UNCHANGED <<dbVars, abandoned>>
        /\ pc' = [pc EXCEPT ![q] = "count_invites"]
        /\ ctx' = [ctx EXCEPT ![q] = [ctx[q] EXCEPT !.count = Cardinality(rows)]]
    BY <1>4 DEF CountMembers
  <2> QED BY <2>2, <2>3 DEF TypeOK, dbVars, Statements
<1>5. CASE CountInvites(q)
  BY <1>5, CheckMoves DEF CountInvites, Check, Statements
<1>6. CASE CheckMember(q)
  BY <1>6, CheckMoves DEF CheckMember, Check, Statements
<1>7. CASE CheckPending(q)
  BY <1>7, CheckMoves DEF CheckPending, Check, Statements
<1>8. CASE AcceptCheckMember(q)
  BY <1>8, CheckMoves DEF AcceptCheckMember, Check, Statements
<1>9. CASE AcceptCheckLimit(q)
  BY <1>9, CheckMoves DEF AcceptCheckLimit, Check, Statements
<1>10. CASE ReadMembers(q)
  BY <1>10, CheckMoves DEF ReadMembers, Check, Statements
<1> QED
  BY <1>1, <1>2, <1>3, <1>4, <1>5, <1>6, <1>7, <1>8, <1>9, <1>10 DEF Read

\* What the writing statements do to the tables.
LEMMA EndType ==
  ASSUME TypeOK, NEW q \in Requests, End(q)
  PROVE  /\ pc' \in [Requests -> Statements]
         /\ ctx' \in [Requests -> Contexts]
BY NoCtxType DEF TypeOK, End, Statements

LEMMA Inserted ==
  ASSUME TypeOK, NEW u \in Users, NEW r \in Roles, InsertRow(u, r)
  PROVE  \E x \in MemberRows :
           /\ x \notin rows /\ x.user = u /\ x.role = r
           /\ rows' = rows \cup {x}
<1> DEFINE free == {n \in RowIds : \A x \in rows : x.id # n}
<1>1. PICK n : n = CHOOSE k \in free : TRUE
  OBVIOUS
<1>2. free # {} /\ rows' = rows \cup {[id |-> n, user |-> u, role |-> r]}
  BY <1>1 DEF InsertRow
<1>3. n \in free
  BY <1>1, <1>2
<1> QED BY <1>2, <1>3 DEF MemberRows

LEMMA InvitedOne ==
  ASSUME NEW q \in Requests, InsertInvite(q), ~UNCHANGED invites
  PROVE  \E i \in FreeInvites :
           invites' = [invites EXCEPT ![i] =
             [state |-> "pending", email |-> ctx[q].email, role |-> ctx[q].role,
              by |-> ctx[q].actor]]
<1>1. PICK i : i = CHOOSE k \in FreeInvites : TRUE
  OBVIOUS
<1>2. FreeInvites # {}
  BY DEF InsertInvite
<1>3. i \in FreeInvites
  BY <1>1, <1>2
<1> QED BY <1>1, <1>3 DEF InsertInvite

LEMMA WriteType ==
  ASSUME TypeOK, NEW q \in Requests, Write(q)
  PROVE  TypeOK'
<1> USE EndType
<1>0. ctx[q] \in Contexts
  BY DEF TypeOK
<1>1. CASE WriteRole(q)
  <2>1. rows' \in SUBSET MemberRows
    BY <1>0, <1>1 DEF WriteRole, TypeOK, MemberRows, Contexts
  <2> QED BY <1>1, <2>1 DEF WriteRole, TypeOK
<1>2. CASE RemoveRows(q)
  BY <1>2 DEF RemoveRows, TypeOK
<1>3. CASE InsertInvite(q)
  <2>1. CASE UNCHANGED invites
    BY <1>3, <2>1 DEF InsertInvite, TypeOK
  <2>2. CASE ~UNCHANGED invites
    <3>1. [state |-> "pending", email |-> ctx[q].email, role |-> ctx[q].role,
           by |-> ctx[q].actor] \in InviteRows
      BY <1>0 DEF InviteRows, Contexts
    <3>2. invites' \in [InviteIds -> InviteRows]
      BY <1>3, <2>2, <3>1, InvitedOne DEF TypeOK, FreeInvites
    <3> QED BY <1>3, <3>2 DEF InsertInvite, TypeOK
  <2> QED BY <2>1, <2>2
<1>4. CASE Revoke(q)
  <2>1. invites' \in [InviteIds -> InviteRows]
    BY <1>4, NoInviteType DEF Revoke, TypeOK
  <2> QED BY <1>4, <2>1 DEF Revoke, TypeOK
<1>5. CASE AcceptWrite(q)
  <2>1. CASE UNCHANGED <<rows, invites>>
    BY <1>5, <2>1 DEF AcceptWrite, TypeOK
  <2>2. CASE ~UNCHANGED <<rows, invites>>
    <3>1. /\ InsertRow(ctx[q].user, ctx[q].role)
          /\ invites' = [invites EXCEPT ![ctx[q].invite] = NoInvite]
      BY <1>5, <2>2 DEF AcceptWrite
    <3>2. rows' \in SUBSET MemberRows
      BY <1>0, <3>1, Inserted DEF TypeOK, Contexts
    <3>3. invites' \in [InviteIds -> InviteRows]
      BY <3>1, NoInviteType DEF TypeOK
    <3> QED BY <1>5, <3>2, <3>3 DEF AcceptWrite, TypeOK
  <2> QED BY <2>1, <2>2
<1>6. CASE DeleteUser(q)
  <2>1. invites' \in [InviteIds -> InviteRows]
    BY <1>6, NoInviteType DEF DeleteUser, TypeOK
  <2>2. abandoned' \in BOOLEAN
    BY <1>6 DEF DeleteUser, TypeOK
  <2> QED BY <1>6, <2>1, <2>2 DEF DeleteUser, TypeOK
<1> QED BY <1>1, <1>2, <1>3, <1>4, <1>5, <1>6 DEF Write

LEMMA RowsFinite ==
  ASSUME TypeOK, IsFiniteSet(rows), NEW q \in Requests, Write(q)
  PROVE  /\ IsFiniteSet(rows')
         /\ ~AcceptWrite(q) => Cardinality(rows') <= Cardinality(rows)
<1>1. CASE WriteRole(q)
  <2> DEFINE f == [x \in rows |-> IF x.user = ctx[q].user
                                    THEN [x EXCEPT !.role = ctx[q].role] ELSE x]
  <2>1. f \in Surjection(rows, rows')
    BY <1>1 DEF WriteRole, Surjection
  <2> HIDE DEF f
  <2> QED BY <2>1, FS_Surjection
<1>2. CASE RemoveRows(q)
  BY <1>2, FS_Subset DEF RemoveRows
<1>3. CASE InsertInvite(q) \/ Revoke(q)
  BY <1>3, FS_CardinalityType DEF InsertInvite, Revoke
<1>4. CASE AcceptWrite(q)
  <2>1. CASE rows' = rows
    BY <1>4, <2>1
  <2>2. CASE rows' # rows
    <3>1. InsertRow(ctx[q].user, ctx[q].role)
      BY <1>4, <2>2 DEF AcceptWrite
    <3>2. PICK x : rows' = rows \cup {x}
      BY <3>1 DEF InsertRow
    <3> QED BY <1>4, <3>2, FS_AddElement
  <2> QED BY <2>1, <2>2
<1>5. CASE DeleteUser(q)
  BY <1>5, FS_Subset DEF DeleteUser
<1> QED BY <1>1, <1>2, <1>3, <1>4, <1>5 DEF Write

TypeInv == TypeOK /\ IsFiniteSet(rows)

LEMMA InitType == Init => TypeInv
<1> SUFFICES ASSUME Init PROVE TypeInv
  OBVIOUS
<1>1. rows \in SUBSET MemberRows /\ IsFiniteSet(rows)
  <2> DEFINE first == [id |-> 1, user |-> Founder, role |-> "owner"]
  <2>1. first \in MemberRows
    BY DEF MemberRows, Roles, RowIds
  <2>2. rows = {first}
    BY DEF Init
  <2> QED BY <2>1, <2>2, FS_Singleton
<1>2. invites \in [InviteIds -> InviteRows]
  BY NoInviteType DEF Init
<1> QED BY <1>1, <1>2, NoCtxType DEF Init, TypeOK, TypeInv, Statements

LEMMA NextType == TypeInv /\ [Next]_vars => TypeInv'
<1> SUFFICES ASSUME TypeInv, [Next]_vars PROVE TypeInv'
  OBVIOUS
<1> USE DEF TypeInv
<1>1. ASSUME NEW q \in Requests, Start(q) PROVE TypeInv'
  <2>1. rows' = rows
    BY <1>1 DEF Start, StartUpdateRole, StartRemoveMember, StartInvite,
      StartRevoke, StartAccept, StartDeleteAccount, Begin, dbVars
  <2> QED BY <1>1, <2>1, StartType
<1>2. ASSUME NEW q \in Requests, Read(q) PROVE TypeInv'
  <2>1. rows' = rows
    BY <1>2 DEF Read, ReadForRole, ReadForRemoval, CountOwners, CountMembers,
      CountInvites, CheckMember, CheckPending, AcceptCheckMember,
      AcceptCheckLimit, ReadMembers, Check, dbVars
  <2> QED BY <1>2, <2>1, ReadType
<1>3. ASSUME NEW q \in Requests, Write(q) PROVE TypeInv'
  BY <1>3, WriteType, RowsFinite
<1>4. ASSUME NEW q \in Requests, Fail(q) PROVE TypeInv'
  BY <1>4, EndType DEF Fail, dbVars, TypeOK
<1>5. ASSUME NEW i \in InviteIds, Expire(i) PROVE TypeInv'
  <2>1. invites' \in [InviteIds -> InviteRows]
    BY <1>5 DEF Expire, TypeOK, InviteRows
  <2> QED BY <1>5, <2>1 DEF Expire, TypeOK
<1>6. ASSUME NEW u \in Users, SignIn(u) PROVE TypeInv'
  BY <1>6 DEF SignIn, TypeOK
<1>7. CASE UNCHANGED vars
  BY <1>7 DEF vars, dbVars, TypeOK
<1> QED BY <1>1, <1>2, <1>3, <1>4, <1>5, <1>6, <1>7 DEF Next

\* Every table and every request keeps its shape, whoever interleaves.
THEOREM TypeCorrect == Spec => []TypeOK
<1>1. TypeInv => TypeOK
  BY DEF TypeInv
<1> QED BY <1>1, InitType, NextType, PTL DEF Spec

-----------------------------------------------------------------------------
(* By how much overlapping requests exceed the plan: whoever has passed the *)
(* check counts as a member already.                                        *)

Entering == {q \in Requests : pc[q] = "accept_write"}

Overshoot ==
  Limited => Cardinality(rows) + Cardinality(Entering)
               < Limit + Cardinality(Requests)

LEMMA EnteringFinite ==
  /\ IsFiniteSet(Entering) /\ Cardinality(Entering) \in Nat
  /\ Cardinality(Entering) <= Cardinality(Requests)
  /\ Cardinality(Requests) \in Nat
BY FS_Subset, FS_CardinalityType DEF Entering

LEMMA EnteringFiniteNext ==
  /\ IsFiniteSet(Entering') /\ Cardinality(Entering') \in Nat
  /\ Cardinality(Entering') <= Cardinality(Requests)
BY FS_Subset, FS_CardinalityType DEF Entering

\* Only the check of the limit lets a request in.
LEMMA NobodyElseEnters ==
  ASSUME TypeInv, Limited, [Next]_vars,
         ~\E q \in Requests : AcceptCheckLimit(q)
  PROVE  Entering' \subseteq Entering
<1>1. ASSUME NEW q \in Requests, Start(q) PROVE Entering' \subseteq Entering
  BY <1>1 DEF Start, StartUpdateRole, StartRemoveMember, StartInvite,
    StartRevoke, StartAccept, StartDeleteAccount, Begin, Entering, TypeInv, TypeOK
<1>2. ASSUME NEW q \in Requests, Read(q) PROVE Entering' \subseteq Entering
  BY <1>2 DEF Read, ReadForRole, ReadForRemoval, CountOwners, CountMembers,
    CountInvites, CheckMember, CheckPending, AcceptCheckMember, ReadMembers,
    Check, Goto, End, Entering, TypeInv, TypeOK
<1>3. ASSUME NEW q \in Requests, End(q) PROVE Entering' \subseteq Entering
  BY <1>3 DEF End, Entering, TypeInv, TypeOK
<1>4. ASSUME NEW q \in Requests, Write(q) \/ Fail(q) PROVE End(q)
  BY <1>4 DEF Write, WriteRole, RemoveRows, InsertInvite, Revoke, AcceptWrite,
    DeleteUser, Fail
<1>5. CASE pc' = pc
  BY <1>5 DEF Entering
<1>6. ASSUME \/ \E i \in InviteIds : Expire(i)
             \/ \E u \in Users : SignIn(u)
             \/ UNCHANGED vars
      PROVE  pc' = pc
  BY <1>6 DEF Expire, SignIn, vars
<1> QED BY <1>1, <1>2, <1>3, <1>4, <1>5, <1>6 DEF Next

LEMMA OvershootNext == TypeInv /\ Overshoot /\ [Next]_vars => Overshoot'
<1> SUFFICES ASSUME TypeInv, Overshoot, [Next]_vars, Limited
             PROVE  Cardinality(rows') + Cardinality(Entering')
                      < Limit + Cardinality(Requests)
  BY DEF Overshoot
<1>1. Cardinality(rows) \in Nat /\ Cardinality(rows') \in Nat
  BY NextType, FS_CardinalityType DEF TypeInv
<1>2. Cardinality(rows) + Cardinality(Entering) < Limit + Cardinality(Requests)
  BY DEF Overshoot
<1>3. ASSUME NEW q \in Requests, AcceptCheckLimit(q)
      PROVE  Cardinality(rows') + Cardinality(Entering')
               < Limit + Cardinality(Requests)
  <2>1. CASE Goto(q, "accept_write")
    <3>1. rows' = rows
      BY <1>3 DEF AcceptCheckLimit, Check, dbVars
    <3>2. \/ Cardinality(rows) < Limit
          \/ Entering' \subseteq Entering
      BY <1>3 DEF AcceptCheckLimit, Check, End, Entering, TypeInv, TypeOK
    <3>3. CASE Cardinality(rows) < Limit
      BY <1>1, <3>1, <3>3, EnteringFiniteNext, EnteringFinite
    <3>4. CASE Entering' \subseteq Entering
      <4>1. Cardinality(Entering') <= Cardinality(Entering)
        BY <3>4, FS_Subset, EnteringFinite
      <4> QED BY <1>1, <1>2, <3>1, <4>1, EnteringFiniteNext, EnteringFinite
    <3> QED BY <3>2, <3>3, <3>4
  <2>2. CASE End(q)
    <3>1. rows' = rows /\ Entering' \subseteq Entering
      BY <1>3, <2>2 DEF AcceptCheckLimit, Check, dbVars, End, Entering, TypeInv, TypeOK
    <3>2. Cardinality(Entering') <= Cardinality(Entering)
      BY <3>1, FS_Subset, EnteringFinite
    <3> QED BY <1>1, <1>2, <3>1, <3>2, EnteringFiniteNext, EnteringFinite
  <2> QED BY <1>3, <2>1, <2>2 DEF AcceptCheckLimit, Check
<1>4. ASSUME NEW q \in Requests, AcceptWrite(q)
      PROVE  Cardinality(rows') + Cardinality(Entering')
               < Limit + Cardinality(Requests)
  <2>1. q \in Entering /\ Entering' = Entering \ {q}
    BY <1>4 DEF AcceptWrite, End, Entering, TypeInv, TypeOK
  <2>2. Cardinality(Entering') = Cardinality(Entering) - 1
    BY <2>1, FS_RemoveElement, EnteringFinite
  <2>3. Cardinality(rows') <= Cardinality(rows) + 1
    <3>1. CASE rows' = rows
      BY <1>1, <3>1
    <3>2. CASE rows' # rows
      <4>1. PICK x : rows' = rows \cup {x}
        BY <1>4, <3>2 DEF AcceptWrite, InsertRow
      <4>2. Cardinality(rows') = IF x \in rows THEN Cardinality(rows)
                                               ELSE Cardinality(rows) + 1
        BY <4>1, FS_AddElement DEF TypeInv
      <4> QED BY <1>1, <4>2
    <3> QED BY <3>1, <3>2
  <2> QED BY <1>1, <1>2, <2>2, <2>3, EnteringFiniteNext, EnteringFinite
<1>5. ASSUME ~\E q \in Requests : AcceptCheckLimit(q) \/ AcceptWrite(q)
      PROVE  Cardinality(rows') + Cardinality(Entering')
               < Limit + Cardinality(Requests)
  <2>1. Cardinality(Entering') <= Cardinality(Entering)
    BY <1>5, NobodyElseEnters, FS_Subset, EnteringFinite
  <2>2. Cardinality(rows') <= Cardinality(rows)
    <3>1. CASE \E q \in Requests : Write(q)
      BY <1>5, <3>1, RowsFinite DEF TypeInv
    <3>2. CASE ~\E q \in Requests : Write(q)
      <4>1. rows' = rows
        BY <3>2 DEF Next, Start, StartUpdateRole, StartRemoveMember,
          StartInvite, StartRevoke, StartAccept, StartDeleteAccount, Begin,
          Read, ReadForRole, ReadForRemoval, CountOwners, CountMembers,
          CountInvites, CheckMember, CheckPending, AcceptCheckMember,
          AcceptCheckLimit, ReadMembers, Check, Fail, Expire, SignIn, vars, dbVars
      <4> QED BY <1>1, <4>1
    <3> QED BY <3>1, <3>2
  <2> QED BY <1>1, <1>2, <2>1, <2>2, EnteringFiniteNext, EnteringFinite
<1> QED BY <1>3, <1>4, <1>5

\* Overlapping requests exceed the member limit of the plan by fewer members
\* than there may be requests in progress, for any limit and number of either.
THEOREM OvershootLimited == Spec => []OvershootBounded
<1>1. Init => Overshoot
  <2> SUFFICES ASSUME Init, Limited
               PROVE  Cardinality(rows) + Cardinality(Entering)
                        < Limit + Cardinality(Requests)
    BY DEF Overshoot
  <2>1. Cardinality(rows) = 1
    BY FS_Singleton DEF Init
  <2>2. Entering = {}
    BY DEF Init, Entering
  <2>3. Cardinality(Entering) = 0
    BY <2>2, FS_EmptySet
  <2>4. Cardinality(Requests) \in Nat /\ Cardinality(Requests) # 0
    BY FS_EmptySet, FS_CardinalityType
  <2> QED BY <2>1, <2>3, <2>4
<1>2. TypeInv /\ Overshoot => OvershootBounded
  <2> SUFFICES ASSUME TypeInv, Overshoot, Limited
               PROVE  Cardinality(rows) < Limit + Cardinality(Requests)
    BY DEF OvershootBounded
  <2>1. Cardinality(rows) \in Nat
    BY FS_CardinalityType DEF TypeInv
  <2> QED BY <2>1, EnteringFinite DEF Overshoot
<1> QED BY <1>1, <1>2, InitType, NextType, OvershootNext, PTL DEF Spec

-----------------------------------------------------------------------------
(* Requests one after the other: what each has read still holds when it     *)
(* writes, as nothing but time interferes.                                  *)

Alone == \A p, q \in Requests : pc[p] # "idle" /\ pc[q] # "idle" => p = q

OtherOwner(u) == \E x \in rows : x.role = "owner" /\ x.user # u

\* What a request has found out by the time it runs a statement.
Known(q) ==
  LET u == ctx[q].user IN
  /\ pc[q] = "role_write" /\ ctx[q].role # "owner" /\ ~abandoned => OtherOwner(u)
  /\ pc[q] = "remove_write" /\ ~abandoned => OtherOwner(u)
  /\ pc[q] = "delete_user" /\ ~abandoned =>
       OtherOwner(u) \/ \A x \in rows : x.user = u
  /\ pc[q] \in {"check_pending", "insert_invite"} =>
       \A x \in rows : address[x.user] # ctx[q].email
  /\ pc[q] = "insert_invite" => \A i \in Pending : invites[i].email # ctx[q].email
  /\ pc[q] \in {"accept_count", "accept_write"} => RowsOf(u) = {}
  /\ pc[q] \in {"accept_member", "accept_count", "accept_write"} =>
       /\ ctx[q].invite \in InviteIds
       /\ \A i \in Pending : invites[i].email = address[u] => i = ctx[q].invite

Database ==
  /\ ~abandoned => Owners # {}
  /\ OneRowPerUser
  /\ OneInvitePerAddress

SerialInv == Alone /\ Database /\ \A q \in Requests : Known(q)

LEMMA IdleKnowsNothing ==
  ASSUME NEW q \in Requests, pc[q] = "idle" PROVE Known(q)
BY DEF Known

LEMMA TwoOwners ==
  ASSUME TypeInv, OneRowPerUser, Cardinality(Owners) > 1, NEW u
  PROVE  OtherOwner(u)
<1>1. IsFiniteSet(Owners)
  BY FS_Subset DEF Owners, TypeInv
<1>2. Owners # {}
  BY FS_EmptySet
<1>3. PICK x \in Owners : TRUE
  BY <1>2
<1>4. Owners # {x}
  <2>1. Cardinality({x}) = 1
    BY FS_Singleton
  <2> QED BY <2>1
<1>5. PICK y \in Owners : y # x
  BY <1>3, <1>4
<1> QED BY <1>3, <1>5 DEF OneRowPerUser, Owners, OtherOwner

\* A request that starts or reads leaves the database alone, and is the only one.
LEMMA ReaderAlone ==
  ASSUME TypeInv, SerialInv, NEW q \in Requests,
         \A p \in Requests \ {q} : pc[p] = "idle",
         pc' = [pc EXCEPT ![q] = pc'[q]],
         UNCHANGED <<dbVars, abandoned>>, Known(q)'
  PROVE  SerialInv'
<1>1. \A p \in Requests \ {q} : pc'[p] = "idle"
  BY DEF TypeInv, TypeOK
<1>2. Alone'
  BY <1>1 DEF Alone
<1>3. Database'
  BY DEF SerialInv, Database, dbVars, Owners, OneRowPerUser,
    OneInvitePerAddress, Pending, RowsOf
<1>4. \A p \in Requests : Known(p)'
  BY <1>1 DEF Known
<1> QED BY <1>2, <1>3, <1>4 DEF SerialInv

LEMMA SerialStart ==
  ASSUME OneAtATime, TypeInv, SerialInv, NEW q \in Requests, Start(q)
  PROVE  SerialInv'
<1>1. /\ \A p \in Requests \ {q} : pc[p] = "idle"
      /\ pc' = [pc EXCEPT ![q] = pc'[q]] /\ UNCHANGED <<dbVars, abandoned>>
  BY DEF Start, StartUpdateRole, StartRemoveMember, StartInvite, StartRevoke,
    StartAccept, StartDeleteAccount, Begin, TypeInv, TypeOK
<1>2. CASE StartAccept(q)
  <2>1. PICK u \in accounts, i \in Pending :
          /\ invites[i].email = address[u]
          /\ Begin(q, "accept_member", [NoCtx EXCEPT
               !.user = u, !.role = invites[i].role, !.invite = i])
    BY <1>2 DEF StartAccept
  <2>2. pc'[q] = "accept_member" /\ ctx'[q].user = u /\ ctx'[q].invite = i
    BY <2>1 DEF Begin, TypeInv, TypeOK, NoCtx
  <2>3. UNCHANGED <<address, rows, invites, abandoned>>
    BY <1>1 DEF dbVars
  <2>4. \A k \in Pending : invites[k].email = address[u] => k = i
    BY <2>1 DEF SerialInv, Database, OneInvitePerAddress
  <2>5. Known(q)'
    BY <2>1, <2>2, <2>3, <2>4 DEF Known, Pending
  <2> QED BY <1>1, <2>5, ReaderAlone
<1>3. CASE StartDeleteAccount(q)
  <2>1. PICK u \in accounts :
          Begin(q, IF \E x \in RowsOf(u) : x.role = "owner"
                     THEN "read_members" ELSE "delete_user",
                [NoCtx EXCEPT !.user = u])
    BY <1>3 DEF StartDeleteAccount
  <2>2. /\ pc'[q] \in {"read_members", "delete_user"} /\ ctx'[q].user = u
        /\ pc'[q] = "delete_user" => ~\E x \in RowsOf(u) : x.role = "owner"
    BY <2>1 DEF Begin, TypeInv, TypeOK, NoCtx
  <2>3. UNCHANGED <<rows, invites, abandoned>>
    BY <1>1 DEF dbVars
  <2>4. pc'[q] = "delete_user" /\ ~abandoned => OtherOwner(u)
    BY <2>2 DEF SerialInv, Database, Owners, RowsOf, OtherOwner
  <2>5. Known(q)'
    BY <2>2, <2>3, <2>4 DEF Known, OtherOwner
  <2> QED BY <1>1, <2>5, ReaderAlone
<1>4. CASE ~StartAccept(q) /\ ~StartDeleteAccount(q)
  <2>1. pc'[q] \in {"role_read", "remove_read", "count_members", "check_member",
                    "revoke"}
    BY <1>4 DEF Start, StartUpdateRole, StartRemoveMember, StartInvite,
      StartRevoke, Begin, TypeInv, TypeOK
  <2>2. Known(q)'
    BY <2>1 DEF Known
  <2> QED BY <1>1, <2>2, ReaderAlone
<1> QED BY <1>2, <1>3, <1>4

LEMMA SerialRead ==
  ASSUME TypeInv, SerialInv, NEW q \in Requests, Read(q)
  PROVE  SerialInv'
<1> USE DEF TypeInv, TypeOK
<1>1. /\ \A p \in Requests \ {q} : pc[p] = "idle"
      /\ pc' = [pc EXCEPT ![q] = pc'[q]] /\ UNCHANGED <<dbVars, abandoned>>
  BY DEF Read, ReadForRole, ReadForRemoval, CountOwners, CountMembers,
    CountInvites, CheckMember, CheckPending, AcceptCheckMember,
    AcceptCheckLimit, ReadMembers, Check, Goto, End, SerialInv, Alone
<1>2. UNCHANGED <<address, rows, invites, abandoned>>
  BY <1>1 DEF dbVars
<1>3. SUFFICES Known(q)'
  BY <1>1, ReaderAlone
<1>4. CASE pc'[q] = "idle"
  BY <1>4 DEF Known
<1> USE <1>2
<1> DEFINE u == ctx[q].user
<1>5. CASE ReadForRole(q) /\ pc'[q] # "idle"
  <2>1. PICK x \in RowsOf(u) :
          Goto(q, IF x.role = "owner" /\ ctx[q].role # "owner"
                    THEN "role_count" ELSE "role_write")
    BY <1>5 DEF ReadForRole, End
  <2>2. /\ ctx'[q] = ctx[q] /\ pc'[q] \in {"role_count", "role_write"}
        /\ pc'[q] = "role_write" => x.role # "owner" \/ ctx[q].role = "owner"
    BY <2>1 DEF Goto
  <2>3. ~abandoned /\ x.role # "owner" => OtherOwner(u)
    BY <2>1 DEF SerialInv, Database, Owners, RowsOf, OtherOwner, OneRowPerUser
  <2> QED BY <2>2, <2>3 DEF Known, OtherOwner
<1>6. CASE ReadForRemoval(q) /\ pc'[q] # "idle"
  <2>1. PICK x \in RowsOf(u) :
          Goto(q, IF x.role = "owner" THEN "remove_count" ELSE "remove_write")
    BY <1>6 DEF ReadForRemoval, End
  <2>2. /\ ctx'[q] = ctx[q] /\ pc'[q] \in {"remove_count", "remove_write"}
        /\ pc'[q] = "remove_write" => x.role # "owner"
    BY <2>1 DEF Goto
  <2>3. ~abandoned /\ x.role # "owner" => OtherOwner(u)
    BY <2>1 DEF SerialInv, Database, Owners, RowsOf, OtherOwner, OneRowPerUser
  <2> QED BY <2>2, <2>3 DEF Known, OtherOwner
<1>7. CASE CountOwners(q) /\ pc'[q] # "idle"
  <2>1. /\ ctx'[q] = ctx[q] /\ pc'[q] \in {"role_write", "remove_write"}
        /\ Cardinality(Owners) > 1
    BY <1>7 DEF CountOwners, Check, Goto, End
  <2>2. OtherOwner(u)
    BY <2>1, TwoOwners DEF SerialInv, Database
  <2> QED BY <2>1, <2>2 DEF Known, OtherOwner
<1>8. CASE (CountMembers(q) \/ CountInvites(q)) /\ pc'[q] # "idle"
  <2>1. pc'[q] \in {"count_invites", "check_member"}
    BY <1>8 DEF CountMembers, CountInvites, Check, Goto, End
  <2> QED BY <2>1 DEF Known
<1>9. CASE CheckMember(q) /\ pc'[q] # "idle"
  <2>1. /\ ctx'[q] = ctx[q] /\ pc'[q] = "check_pending"
        /\ \A v \in Users : address[v] = ctx[q].email => RowsOf(v) = {}
    BY <1>9 DEF CheckMember, Check, Goto, End
  <2>2. \A x \in rows : address[x.user] # ctx[q].email
    BY <2>1 DEF RowsOf, MemberRows
  <2> QED BY <2>1, <2>2 DEF Known
<1>10. CASE CheckPending(q) /\ pc'[q] # "idle"
  <2>1. /\ ctx'[q] = ctx[q] /\ pc'[q] = "insert_invite"
        /\ pc[q] = "check_pending" /\ \A i \in Pending : invites[i].email # ctx[q].email
    BY <1>10 DEF CheckPending, Check, Goto, End
  <2>2. \A x \in rows : address[x.user] # ctx[q].email
    BY <2>1 DEF SerialInv, Known
  <2> QED BY <2>1, <2>2 DEF Known, Pending
<1>11. CASE (AcceptCheckMember(q) \/ AcceptCheckLimit(q)) /\ pc'[q] # "idle"
  <2>1. /\ ctx'[q] = ctx[q] /\ pc'[q] \in {"accept_count", "accept_write"}
        /\ pc[q] \in {"accept_member", "accept_count"}
        /\ pc[q] = "accept_member" => RowsOf(u) = {}
    BY <1>11 DEF AcceptCheckMember, AcceptCheckLimit, Check, Goto, End
  <2>2. /\ RowsOf(u) = {} /\ ctx[q].invite \in InviteIds
        /\ \A i \in Pending : invites[i].email = address[u] => i = ctx[q].invite
    BY <2>1 DEF SerialInv, Known
  <2> QED BY <2>1, <2>2 DEF Known, RowsOf, Pending
<1>12. CASE ReadMembers(q) /\ pc'[q] # "idle"
  <2>1. /\ ctx'[q] = ctx[q] /\ pc'[q] = "delete_user"
        /\ OtherOwner(u) \/ \A x \in rows : x.user = u
    BY <1>12 DEF ReadMembers, Check, Goto, End, OtherOwner
  <2> QED BY <2>1 DEF Known, OtherOwner
<1> QED
  BY <1>4, <1>5, <1>6, <1>7, <1>8, <1>9, <1>10, <1>11, <1>12 DEF Read

\* After an answer nothing is in progress that could be wrong.
LEMMA Answered ==
  ASSUME TypeInv, SerialInv, NEW q \in Requests, pc[q] # "idle", End(q), Database'
  PROVE  SerialInv'
<1>1. \A p \in Requests : pc'[p] = "idle"
  BY DEF End, SerialInv, Alone, TypeInv, TypeOK
<1>2. Alone' /\ \A p \in Requests : Known(p)'
  BY <1>1 DEF Alone, Known
<1> QED BY <1>2 DEF SerialInv

LEMMA SerialWrite ==
  ASSUME TypeInv, SerialInv, NEW q \in Requests, Write(q)
  PROVE  SerialInv'
<1> DEFINE u == ctx[q].user
<1>1. pc[q] # "idle" /\ End(q)
  BY DEF Write, WriteRole, RemoveRows, InsertInvite, Revoke, AcceptWrite, DeleteUser
<1>2. SUFFICES Database'
  BY <1>1, Answered
<1>3. Database /\ Known(q)
  BY DEF SerialInv
<1>4. ctx[q] \in Contexts
  BY DEF TypeInv, TypeOK
<1>5. CASE WriteRole(q)
  <2> DEFINE new(x) == IF x.user = u THEN [x EXCEPT !.role = ctx[q].role] ELSE x
  <2>1. /\ pc[q] = "role_write" /\ rows' = {new(x) : x \in rows}
        /\ UNCHANGED <<invites, abandoned>>
    BY <1>5 DEF WriteRole
  <2>2. \A x \in rows :
          /\ new(x).user = x.user
          /\ x.user = u => new(x).role = ctx[q].role
          /\ x.user # u => new(x) = x
    BY DEF TypeInv, TypeOK, MemberRows
  <2>3. ASSUME ~abandoned PROVE Owners' # {}
    <3>1. PICK x \in rows : x.role = "owner" /\ (ctx[q].role # "owner" => x.user # u)
      BY <1>3, <2>1, <2>3 DEF Known, OtherOwner, Database, Owners
    <3>2. new(x) \in rows' /\ new(x).role = "owner"
      BY <2>1, <2>2, <3>1
    <3> HIDE DEF new
    <3> QED BY <3>2 DEF Owners
  <2>4. OneRowPerUser'
    <3>1. SUFFICES ASSUME NEW a \in rows', NEW b \in rows', a.user = b.user
                   PROVE  a = b
      BY DEF OneRowPerUser
    <3>2. PICK x \in rows, y \in rows : a = new(x) /\ b = new(y)
      BY <2>1
    <3> HIDE DEF new
    <3>3. x.user = y.user
      BY <2>2, <3>1, <3>2
    <3>4. x = y
      BY <1>3, <3>3 DEF Database, OneRowPerUser
    <3> QED BY <3>2, <3>4
  <2>5. OneInvitePerAddress'
    BY <1>3, <2>1 DEF Database, OneInvitePerAddress, Pending
  <2> QED BY <2>1, <2>3, <2>4, <2>5 DEF Database
<1>6. CASE RemoveRows(q)
  <2>1. /\ pc[q] = "remove_write" /\ rows' = {x \in rows : x.user # u}
        /\ UNCHANGED <<invites, abandoned>>
    BY <1>6 DEF RemoveRows, RowsOf
  <2>2. ~abandoned => Owners' # {}
    BY <1>3, <2>1 DEF Known, OtherOwner, Owners
  <2> QED BY <1>3, <2>1, <2>2 DEF Database, OneRowPerUser,
            OneInvitePerAddress, Pending, RowsOf
<1>7. CASE InsertInvite(q)
  <2>1. UNCHANGED <<rows, abandoned>> /\ pc[q] = "insert_invite"
    BY <1>7 DEF InsertInvite
  <2>2. CASE UNCHANGED invites
    BY <1>3, <2>1, <2>2 DEF Database, Owners, OneRowPerUser,
      OneInvitePerAddress, Pending, RowsOf
  <2>3. CASE ~UNCHANGED invites
    <3>1. PICK n \in FreeInvites : invites' = [invites EXCEPT ![n] =
               [state |-> "pending", email |-> ctx[q].email, role |-> ctx[q].role,
                by |-> ctx[q].actor]]
      BY <1>7, <2>3, InvitedOne
    <3>2. n \in InviteIds /\ invites'[n].email = ctx[q].email
      BY <3>1 DEF FreeInvites, TypeInv, TypeOK
    <3>3. \A i \in InviteIds \ {n} : invites'[i] = invites[i]
      BY <3>1 DEF TypeInv, TypeOK
    <3>4. \A i \in Pending : invites[i].email # ctx[q].email
      BY <1>3, <2>1 DEF Known
    <3>5. OneInvitePerAddress'
      BY <1>3, <3>2, <3>3, <3>4 DEF Database, OneInvitePerAddress, Pending
    <3> QED BY <1>3, <2>1, <3>5 DEF Database, Owners, OneRowPerUser
  <2> QED BY <2>2, <2>3
<1>8. CASE Revoke(q)
  <2>1. UNCHANGED <<rows, abandoned>>
    BY <1>8 DEF Revoke
  <2>2. \A i \in InviteIds :
          invites'[i].state = "pending" => invites'[i] = invites[i]
    BY <1>8, NoInviteType DEF Revoke, TypeInv, TypeOK
  <2> QED BY <1>3, <2>1, <2>2 DEF Database, Owners, OneRowPerUser,
            OneInvitePerAddress, Pending, RowsOf
<1>9. CASE AcceptWrite(q)
  <2>1. UNCHANGED abandoned /\ pc[q] = "accept_write"
    BY <1>9 DEF AcceptWrite
  <2>2. CASE UNCHANGED <<rows, invites>>
    BY <1>3, <2>1, <2>2 DEF Database, Owners, OneRowPerUser,
      OneInvitePerAddress, Pending, RowsOf
  <2>3. CASE ~UNCHANGED <<rows, invites>>
    <3>1. /\ InsertRow(u, ctx[q].role)
          /\ invites' = [invites EXCEPT ![ctx[q].invite] = NoInvite]
      BY <1>9, <2>3 DEF AcceptWrite
    <3>2. PICK x \in MemberRows : x.user = u /\ rows' = rows \cup {x}
      BY <1>4, <3>1, Inserted DEF TypeInv, Contexts
    <3>3. RowsOf(u) = {}
      BY <1>3, <2>1 DEF Known
    <3>4. OneRowPerUser'
      BY <1>3, <3>2, <3>3 DEF Database, OneRowPerUser, RowsOf
    <3>5. \A i \in InviteIds :
            invites'[i].state = "pending" => invites'[i] = invites[i]
      BY <3>1, NoInviteType DEF TypeInv, TypeOK
    <3>7. OneInvitePerAddress'
      BY <1>3, <3>5 DEF Database, OneInvitePerAddress, Pending
    <3> QED BY <1>3, <2>1, <3>2, <3>4, <3>7 DEF Database, Owners
  <2> QED BY <2>2, <2>3
<1>10. CASE DeleteUser(q)
  <2>1. /\ rows' = {x \in rows : x.user # u} /\ pc[q] = "delete_user"
        /\ abandoned' = (abandoned \/ rows' = {})
    BY <1>10 DEF DeleteUser, RowsOf
  <2>2. ASSUME ~abandoned' PROVE Owners' # {}
    <3>1. ~abandoned /\ rows' # {}
      BY <2>1, <2>2
    <3> QED BY <1>3, <2>1, <3>1 DEF Known, OtherOwner, Owners
  <2>3. \A i \in InviteIds :
          invites'[i].state = "pending" => invites'[i] = invites[i]
    BY <1>10, NoInviteType DEF DeleteUser, TypeInv, TypeOK
  <2> QED BY <1>3, <2>1, <2>2, <2>3 DEF Database, OneRowPerUser,
            OneInvitePerAddress, Pending, RowsOf
<1> QED
  BY <1>5, <1>6, <1>7, <1>8, <1>9, <1>10 DEF Write

LEMMA SerialNext ==
  ASSUME OneAtATime, TypeInv, SerialInv, [Next]_vars PROVE SerialInv'
<1>1. ASSUME NEW q \in Requests, Fail(q) PROVE SerialInv'
  <2>1. Database'
    BY <1>1 DEF Fail, dbVars, SerialInv, Database, Owners, OneRowPerUser,
      OneInvitePerAddress, Pending, RowsOf
  <2> QED BY <1>1, <2>1, Answered DEF Fail
<1>2. ASSUME NEW k \in InviteIds, Expire(k) PROVE SerialInv'
  <2>1. UNCHANGED <<address, rows, pc, ctx, abandoned>>
    BY <1>2 DEF Expire
  <2>2. /\ \A i \in InviteIds : invites'[i].email = invites[i].email
        /\ Pending' \subseteq Pending
    BY <1>2 DEF Expire, Pending, TypeInv, TypeOK, InviteRows
  <2>3. Database'
    BY <2>1, <2>2 DEF SerialInv, Database, Owners, OneRowPerUser,
      OneInvitePerAddress, RowsOf, Pending
  <2>4. \A q \in Requests : Known(q)'
    BY <2>1, <2>2 DEF SerialInv, Known, OtherOwner, RowsOf, Pending
  <2> QED BY <2>1, <2>3, <2>4 DEF SerialInv, Alone
<1>3. ASSUME NEW u \in Users, SignIn(u) PROVE SerialInv'
  <2>1. UNCHANGED <<rows, invites, pc, ctx, abandoned>> /\ \A q \in Requests : pc'[q] = "idle"
    BY <1>3 DEF SignIn
  <2>2. Database'
    BY <2>1 DEF SerialInv, Database, Owners, OneRowPerUser, OneInvitePerAddress, Pending
  <2> QED BY <2>1, <2>2 DEF SerialInv, Alone, Known
<1>4. CASE UNCHANGED vars
  <2>1. \A q \in Requests : Known(q)'
    BY <1>4 DEF vars, dbVars, SerialInv, Known, OtherOwner, RowsOf, Pending
  <2> QED BY <1>4, <2>1 DEF vars, dbVars, SerialInv, Alone, Database, Owners,
            OneRowPerUser, OneInvitePerAddress, Pending, RowsOf
<1> QED
  BY <1>1, <1>2, <1>3, <1>4, SerialStart, SerialRead, SerialWrite DEF Next

LEMMA SerialInit == Init => SerialInv
<1> SUFFICES ASSUME Init PROVE SerialInv
  OBVIOUS
<1>1. Alone /\ \A q \in Requests : Known(q)
  BY DEF Init, Alone, Known
<1>2. Owners # {} /\ OneRowPerUser
  <2> DEFINE first == [id |-> 1, user |-> Founder, role |-> "owner"]
  <2>1. rows = {first} /\ first.role = "owner"
    BY DEF Init
  <2> HIDE DEF first
  <2> QED BY <2>1 DEF Owners, OneRowPerUser
<1>3. Pending = {}
  BY NoInviteType DEF Init, Pending
<1> QED BY <1>1, <1>2, <1>3 DEF SerialInv, Database, OneInvitePerAddress

\* One request after the other, a workspace with members keeps an owner: every
\* demotion, removal and account deletion has seen another one.
THEOREM SerialOwner ==
  ASSUME OneAtATime PROVE Spec => []OwnerKept
<1>1. TypeInv /\ SerialInv => OwnerKept
  BY DEF SerialInv, Database, OwnerKept
<1>2. TypeInv /\ SerialInv /\ [Next]_vars => SerialInv'
  BY SerialNext
<1> QED BY <1>1, <1>2, InitType, NextType, SerialInit, PTL DEF Spec

\* One request after the other, nobody is a member twice.
THEOREM SerialMembers ==
  ASSUME OneAtATime PROVE Spec => []OneRowPerUser
<1>1. TypeInv /\ SerialInv => OneRowPerUser
  BY DEF SerialInv, Database
<1>2. TypeInv /\ SerialInv /\ [Next]_vars => SerialInv'
  BY SerialNext
<1> QED BY <1>1, <1>2, InitType, NextType, SerialInit, PTL DEF Spec

\* The statements that write bring no pending invite and a member together: the new
\* invite was compared with the members' addresses, and the new member's was the only one.
LEMMA InvitesWrite ==
  ASSUME TypeInv, SerialInv, NEW q \in Requests, Write(q)
  PROVE  InvitesToMembers' \subseteq InvitesToMembers
<1>1. address' = address /\ Known(q) /\ ctx[q] \in Contexts
  BY DEF Write, WriteRole, RemoveRows, InsertInvite, Revoke, AcceptWrite, DeleteUser,
    SerialInv, TypeInv, TypeOK
<1>2. ASSUME \A y \in rows' : \E x \in rows : x.user = y.user,
             \A i \in InviteIds : invites'[i].state = "pending" => invites'[i] = invites[i]
      PROVE  InvitesToMembers' \subseteq InvitesToMembers
  BY <1>1, <1>2 DEF InvitesToMembers, Pending
<1>3. CASE WriteRole(q)
  <2>1. \A y \in rows' : \E x \in rows : x.user = y.user
    BY <1>3 DEF WriteRole, TypeInv, TypeOK, MemberRows
  <2> QED BY <1>2, <1>3, <2>1 DEF WriteRole
<1>4. CASE RemoveRows(q)
  BY <1>2, <1>4 DEF RemoveRows
<1>5. CASE Revoke(q)
  BY <1>2, <1>5, NoInviteType DEF Revoke, TypeInv, TypeOK
<1>6. CASE DeleteUser(q)
  BY <1>2, <1>6, NoInviteType DEF DeleteUser, TypeInv, TypeOK
<1>7. CASE InsertInvite(q)
  <2>1. rows' = rows /\ \A x \in rows : address[x.user] # ctx[q].email
    BY <1>1, <1>7 DEF InsertInvite, Known
  <2>2. CASE UNCHANGED invites
    BY <1>2, <2>1, <2>2
  <2>3. CASE ~UNCHANGED invites
    <3>1. PICK n \in FreeInvites : invites' = [invites EXCEPT ![n] =
               [state |-> "pending", email |-> ctx[q].email, role |-> ctx[q].role,
                by |-> ctx[q].actor]]
      BY <1>7, <2>3, InvitedOne
    <3>2. n \in InviteIds /\ invites'[n].email = ctx[q].email
      BY <3>1 DEF FreeInvites, TypeInv, TypeOK
    <3>3. \A i \in InviteIds \ {n} : invites'[i] = invites[i]
      BY <3>1 DEF TypeInv, TypeOK
    <3> QED BY <1>1, <2>1, <3>2, <3>3 DEF InvitesToMembers, Pending
  <2> QED BY <2>2, <2>3
<1>8. CASE AcceptWrite(q)
  <2>1. CASE UNCHANGED <<rows, invites>>
    BY <1>2, <2>1
  <2>2. CASE ~UNCHANGED <<rows, invites>>
    <3>1. /\ InsertRow(ctx[q].user, ctx[q].role)
          /\ invites' = [invites EXCEPT ![ctx[q].invite] = NoInvite]
      BY <1>8, <2>2 DEF AcceptWrite
    <3>2. PICK y \in MemberRows : y.user = ctx[q].user /\ rows' = rows \cup {y}
      BY <1>1, <3>1, Inserted DEF TypeInv, Contexts
    <3>3. /\ ctx[q].invite \in InviteIds
          /\ \A i \in Pending : invites[i].email = address[ctx[q].user] => i = ctx[q].invite
      BY <1>1, <1>8 DEF Known, AcceptWrite
    <3>4. \A i \in Pending' : i \in Pending /\ i # ctx[q].invite /\ invites'[i] = invites[i]
      BY <3>1, <3>3, NoInviteType DEF Pending, TypeInv, TypeOK
    <3> QED BY <1>1, <3>2, <3>3, <3>4 DEF InvitesToMembers
  <2> QED BY <2>1, <2>2
<1> QED BY <1>3, <1>4, <1>5, <1>6, <1>7, <1>8 DEF Write

LEMMA InvitesStep ==
  ASSUME TypeInv, SerialInv, [Next]_vars, address' = address
  PROVE  InvitesToMembers' \subseteq InvitesToMembers
<1>1. CASE UNCHANGED <<rows, invites>>
  BY <1>1 DEF InvitesToMembers, Pending
<1>2. ASSUME NEW q \in Requests, Start(q) \/ Read(q) \/ Fail(q) PROVE UNCHANGED <<rows, invites>>
  BY <1>2 DEF Start, StartUpdateRole, StartRemoveMember, StartInvite, StartRevoke,
    StartAccept, StartDeleteAccount, Begin, Read, ReadForRole, ReadForRemoval,
    CountOwners, CountMembers, CountInvites, CheckMember, CheckPending,
    AcceptCheckMember, AcceptCheckLimit, ReadMembers, Check, Fail, dbVars
<1>3. ASSUME NEW k \in InviteIds, Expire(k) PROVE InvitesToMembers' \subseteq InvitesToMembers
  <2>1. \A i \in InviteIds : invites'[i].state = "pending" => invites'[i] = invites[i]
    BY <1>3 DEF Expire, TypeInv, TypeOK, InviteRows
  <2> QED BY <1>3, <2>1 DEF Expire, InvitesToMembers, Pending
<1>4. ASSUME NEW u \in Users, SignIn(u) PROVE UNCHANGED <<rows, invites>>
  BY <1>4 DEF SignIn
<1>5. CASE UNCHANGED vars
  BY <1>1, <1>5 DEF vars, dbVars
<1> QED BY <1>1, <1>2, <1>3, <1>4, <1>5, InvitesWrite DEF Next

\* One request after the other, an address has at most one pending invite, and only a
\* sign-in, which overwrites a member's address, brings a pending invite and a member
\* together.
THEOREM SerialInvites ==
  ASSUME OneAtATime PROVE Spec => PendingInvitesDistinct
<1>1. TypeInv /\ SerialInv /\ [Next]_vars => SerialInv'
  BY SerialNext
<1>2. TypeInv /\ SerialInv /\ [Next]_vars =>
        [InvitesToMembers' \subseteq InvitesToMembers \/ address' # address]_vars
  BY InvitesStep
<1>3. SerialInv' => OneInvitePerAddress'
  BY DEF SerialInv, Database
<1>4. TypeInv /\ SerialInv /\ TypeInv' /\ SerialInv' /\ [Next]_vars =>
        [/\ OneInvitePerAddress'
         /\ InvitesToMembers' \subseteq InvitesToMembers \/ address' # address]_vars
  BY <1>2, <1>3
<1> QED BY <1>1, <1>4, InitType, NextType, SerialInit, PTL
        DEF Spec, PendingInvitesDistinct

-----------------------------------------------------------------------------
(* Requests one after the other: a request that will take a seat has seen a *)
(* free one, or holds the pending invite that has it.                       *)

\* Where a request has counted members, has found a seat for an invite, and is
\* about to turn an invite into a member.
Inviting == {"check_member", "check_pending", "insert_invite"}
Accepting == {"accept_member", "accept_count", "accept_write"}

SeatKnown(q) ==
  /\ pc[q] = "count_invites" => ctx[q].count = Cardinality(rows)
  /\ pc[q] \in Inviting => Cardinality(rows) + Cardinality(Pending) < Limit
  /\ pc[q] \in Accepting => Cardinality(rows) + Cardinality(Pending \ {ctx[q].invite}) < Limit

Seats ==
  /\ Cardinality(rows) + Cardinality(Pending) <= Limit
  /\ \A q \in Requests : SeatKnown(q)

SeatSteps == {"count_invites"} \cup Inviting \cup Accepting

LEMMA PendingFinite ==
  /\ \A S \in SUBSET InviteIds : IsFiniteSet(S) /\ Cardinality(S) \in Nat
  /\ \A S, T \in SUBSET InviteIds : S \subseteq T => Cardinality(S) <= Cardinality(T)
  /\ Pending \in SUBSET InviteIds /\ Pending' \in SUBSET InviteIds
<1>1. IsFiniteSet(InviteIds)
  BY FS_Interval DEF InviteIds
<1>2. \A S \in SUBSET InviteIds : IsFiniteSet(S) /\ Cardinality(S) \in Nat
  BY <1>1, FS_Subset, FS_CardinalityType
<1>3. \A S, T \in SUBSET InviteIds : S \subseteq T => Cardinality(S) <= Cardinality(T)
  BY <1>2, FS_Subset
<1> QED BY <1>2, <1>3 DEF Pending

\* A step that takes no seat: whoever knows of one has not moved.
LEMMA SeatsFewer ==
  ASSUME TypeInv, TypeInv', Seats,
         Cardinality(rows') <= Cardinality(rows), Pending' \subseteq Pending,
         \A q \in Requests :
           pc'[q] \in SeatSteps => pc'[q] = pc[q] /\ ctx'[q] = ctx[q] /\ rows' = rows
  PROVE  Seats'
<1>1. Cardinality(rows) \in Nat /\ Cardinality(rows') \in Nat
  BY FS_CardinalityType DEF TypeInv
<1>2. /\ Cardinality(Pending) \in Nat /\ Cardinality(Pending') \in Nat
      /\ Cardinality(Pending') <= Cardinality(Pending)
  BY PendingFinite
<1>3. Cardinality(rows') + Cardinality(Pending') <= Limit
  BY <1>1, <1>2 DEF Seats
<1>4. ASSUME NEW q \in Requests PROVE SeatKnown(q)'
  <2>1. CASE pc'[q] \notin SeatSteps
    BY <2>1 DEF SeatSteps, SeatKnown
  <2>2. CASE pc'[q] \in SeatSteps
    <3>1. pc'[q] = pc[q] /\ ctx'[q] = ctx[q] /\ rows' = rows /\ SeatKnown(q)
      BY <2>2 DEF Seats
    <3>2. pc[q] = "count_invites" => ctx[q].count = Cardinality(rows)
      BY <3>1 DEF SeatKnown
    <3>3. pc[q] \in Inviting => Cardinality(rows) + Cardinality(Pending') < Limit
      BY <1>1, <1>2, <3>1 DEF SeatKnown
    <3>4. pc[q] \in Accepting => Cardinality(rows) + Cardinality(Pending' \ {ctx[q].invite}) < Limit
      <4>1. PICK S \in SUBSET InviteIds : S = Pending \ {ctx[q].invite}
        BY PendingFinite
      <4>2. PICK T \in SUBSET InviteIds : T = Pending' \ {ctx[q].invite}
        BY PendingFinite
      <4>3. Cardinality(T) <= Cardinality(S) /\ Cardinality(S) \in Nat /\ Cardinality(T) \in Nat
        BY <4>1, <4>2, PendingFinite
      <4>4. pc[q] \in Accepting => Cardinality(rows) + Cardinality(S) < Limit
        BY <3>1, <4>1 DEF SeatKnown
      <4>5. pc[q] \in Accepting => Cardinality(rows) + Cardinality(T) < Limit
        BY <1>1, <4>3, <4>4
      <4> QED BY <4>2, <4>5
    <3> QED BY <3>1, <3>2, <3>3, <3>4 DEF SeatKnown
  <2> QED BY <2>1, <2>2
<1> QED BY <1>3, <1>4 DEF Seats

\* A step that starts or reads, by the only request.
LEMMA SeatsRead ==
  ASSUME Seats, NEW q \in Requests, UNCHANGED <<rows, invites>>,
         \A p \in Requests \ {q} : pc'[p] = "idle", SeatKnown(q)'
  PROVE  Seats'
<1>1. Pending' = Pending
  BY DEF Pending
<1>2. Cardinality(rows') + Cardinality(Pending') <= Limit
  BY <1>1 DEF Seats
<1>3. ASSUME NEW p \in Requests \ {q} PROVE SeatKnown(p)'
  BY DEF SeatKnown, Inviting, Accepting
<1> QED BY <1>2, <1>3 DEF Seats

LEMMA SeatsStart ==
  ASSUME OneAtATime, Limited, TypeInv, TypeInv', SerialInv, Seats, NEW q \in Requests, Start(q)
  PROVE  Seats'
<1>1. UNCHANGED <<rows, invites>> /\ \A p \in Requests \ {q} : pc'[p] = "idle"
  BY DEF Start, StartUpdateRole, StartRemoveMember, StartInvite, StartRevoke,
    StartAccept, StartDeleteAccount, Begin, TypeInv, TypeOK, dbVars
<1>2. CASE StartAccept(q)
  <2>1. PICK i \in Pending : pc'[q] = "accept_member" /\ ctx'[q].invite = i
    <3>1. PICK u \in accounts, i \in Pending :
            Begin(q, "accept_member", [NoCtx EXCEPT
              !.user = u, !.role = invites[i].role, !.invite = i])
      BY <1>2 DEF StartAccept
    <3> QED BY <3>1 DEF Begin, TypeInv, TypeOK, NoCtx
  <2>2. IsFiniteSet(Pending) /\ Cardinality(Pending) \in Nat
    BY PendingFinite
  <2>3. Cardinality(Pending \ {i}) = Cardinality(Pending) - 1
    BY <2>2, FS_RemoveElement
  <2>4. Cardinality(rows) + Cardinality(Pending) <= Limit /\ Cardinality(rows) \in Nat
    BY FS_CardinalityType DEF Seats, TypeInv
  <2>5. Cardinality(rows) + Cardinality(Pending \ {i}) < Limit
    BY <2>2, <2>3, <2>4
  <2>6. Pending' = Pending
    BY <1>1 DEF Pending
  <2>7. SeatKnown(q)'
    BY <1>1, <2>1, <2>5, <2>6 DEF SeatKnown, Inviting
  <2> QED BY <1>1, <2>7, SeatsRead
<1>3. CASE ~StartAccept(q)
  <2>1. pc'[q] \notin SeatSteps
    BY <1>3 DEF Start, StartUpdateRole, StartRemoveMember, StartInvite, StartRevoke,
      StartDeleteAccount, Begin, TypeInv, TypeOK, SeatSteps, Inviting, Accepting
  <2>2. SeatKnown(q)'
    BY <2>1 DEF SeatSteps, SeatKnown
  <2> QED BY <1>1, <2>2, SeatsRead
<1> QED BY <1>2, <1>3

LEMMA SeatsReads ==
  ASSUME Limited, TypeInv, TypeInv', SerialInv, Seats, NEW q \in Requests, Read(q)
  PROVE  Seats'
<1> USE DEF TypeInv, TypeOK
<1>1. /\ \A p \in Requests \ {q} : pc'[p] = "idle"
      /\ UNCHANGED <<rows, invites>>
  BY DEF Read, ReadForRole, ReadForRemoval, CountOwners, CountMembers,
    CountInvites, CheckMember, CheckPending, AcceptCheckMember,
    AcceptCheckLimit, ReadMembers, Check, Goto, End, SerialInv, Alone, dbVars
<1>2. SUFFICES SeatKnown(q)'
  BY <1>1, SeatsRead
<1>3. Pending' = Pending /\ SeatKnown(q)
  BY <1>1 DEF Pending, Seats
<1>4. CASE pc'[q] \notin SeatSteps
  BY <1>4 DEF SeatSteps, SeatKnown
<1>5. CASE CountMembers(q)
  <2>1. pc'[q] = "count_invites" /\ ctx'[q].count = Cardinality(rows)
    BY <1>5 DEF CountMembers, Contexts
  <2> QED BY <1>1, <2>1 DEF SeatKnown, Inviting, Accepting
<1>6. CASE CountInvites(q) /\ pc'[q] \in SeatSteps
  <2>1. /\ pc[q] = "count_invites" /\ pc'[q] = "check_member"
        /\ ctx[q].count + Cardinality(Pending) < Limit
    BY <1>6 DEF CountInvites, Check, Goto, End, SeatSteps, Inviting, Accepting
  <2>2. Cardinality(rows) + Cardinality(Pending) < Limit
    BY <1>3, <2>1 DEF SeatKnown
  <2> QED BY <1>1, <1>3, <2>1, <2>2 DEF SeatKnown, Accepting
<1>7. CASE (CheckMember(q) \/ CheckPending(q)) /\ pc'[q] \in SeatSteps
  <2>1. pc[q] \in Inviting /\ pc'[q] \in Inviting
    BY <1>7 DEF CheckMember, CheckPending, Check, Goto, End, SeatSteps, Inviting, Accepting
  <2>2. Cardinality(rows) + Cardinality(Pending) < Limit
    BY <1>3, <2>1 DEF SeatKnown
  <2> QED BY <1>1, <1>3, <2>1, <2>2 DEF SeatKnown, Inviting, Accepting
<1>8. CASE (AcceptCheckMember(q) \/ AcceptCheckLimit(q)) /\ pc'[q] \in SeatSteps
  <2>1. pc[q] \in Accepting /\ pc'[q] \in Accepting /\ ctx'[q] = ctx[q]
    BY <1>8 DEF AcceptCheckMember, AcceptCheckLimit, Check, Goto, End, SeatSteps, Inviting, Accepting
  <2>2. Cardinality(rows) + Cardinality(Pending \ {ctx[q].invite}) < Limit
    BY <1>3, <2>1 DEF SeatKnown
  <2> QED BY <1>1, <1>3, <2>1, <2>2 DEF SeatKnown, Inviting, Accepting
<1>9. CASE ReadForRole(q) \/ ReadForRemoval(q) \/ CountOwners(q) \/ ReadMembers(q)
  <2>1. pc'[q] \notin SeatSteps
    BY <1>9 DEF ReadForRole, ReadForRemoval, CountOwners, ReadMembers, Check, Goto, End,
      SeatSteps, Inviting, Accepting
  <2> QED BY <2>1, <1>4
<1> QED BY <1>4, <1>5, <1>6, <1>7, <1>8, <1>9 DEF Read

\* After an answer nobody knows of a seat.
LEMMA SeatsAnswered ==
  ASSUME TypeInv, TypeInv', SerialInv, Seats, NEW q \in Requests, pc[q] # "idle", End(q)
  PROVE  /\ \A p \in Requests : pc'[p] = "idle"
         /\ Cardinality(rows') <= Cardinality(rows) /\ Pending' \subseteq Pending => Seats'
<1>1. \A p \in Requests : pc'[p] = "idle"
  BY DEF End, SerialInv, Alone, TypeInv, TypeOK
<1>2. \A p \in Requests : pc'[p] \notin SeatSteps
  BY <1>1 DEF SeatSteps, Inviting, Accepting
<1> QED BY <1>1, <1>2, SeatsFewer

LEMMA SeatsWrite ==
  ASSUME Limited, TypeInv, TypeInv', SerialInv, Seats, NEW q \in Requests, Write(q)
  PROVE  Seats'
<1>1. pc[q] # "idle" /\ End(q)
  BY DEF Write, WriteRole, RemoveRows, InsertInvite, Revoke, AcceptWrite, DeleteUser
<1>2. \A p \in Requests : pc'[p] = "idle"
  BY <1>1, SeatsAnswered
<1>3. \A p \in Requests : SeatKnown(p)'
  BY <1>2 DEF SeatKnown, Inviting, Accepting
<1>4. Cardinality(rows) \in Nat /\ Cardinality(rows') \in Nat /\ IsFiniteSet(rows)
  BY FS_CardinalityType DEF TypeInv
<1>5. /\ IsFiniteSet(Pending) /\ Cardinality(Pending) \in Nat
      /\ IsFiniteSet(Pending') /\ Cardinality(Pending') \in Nat
  BY PendingFinite
<1>6. SeatKnown(q)
  BY DEF Seats
<1>7. CASE ~AcceptWrite(q) /\ ~InsertInvite(q)
  <2>1. Cardinality(rows') <= Cardinality(rows)
    BY <1>7, RowsFinite DEF TypeInv
  <2>2. \A i \in InviteIds : invites'[i].state = "pending" => invites[i].state = "pending"
    <3>1. CASE WriteRole(q) \/ RemoveRows(q)
      BY <3>1 DEF WriteRole, RemoveRows
    <3>2. CASE Revoke(q)
      BY <3>2, NoInviteType DEF Revoke, TypeInv, TypeOK
    <3>3. CASE DeleteUser(q)
      BY <3>3, NoInviteType DEF DeleteUser, TypeInv, TypeOK
    <3> QED BY <1>7, <3>1, <3>2, <3>3 DEF Write
  <2>3. Pending' \subseteq Pending
    BY <2>2 DEF Pending
  <2> QED BY <1>1, <2>1, <2>3, SeatsAnswered
<1>8. CASE InsertInvite(q)
  <2>1. rows' = rows /\ pc[q] \in Inviting
    BY <1>8 DEF InsertInvite, Inviting
  <2>2. PICK n : Pending' \subseteq Pending \cup {n}
    <3>1. CASE UNCHANGED invites
      BY <3>1 DEF Pending
    <3>2. CASE ~UNCHANGED invites
      BY <1>8, <3>2, InvitedOne DEF Pending, TypeInv, TypeOK
    <3> QED BY <3>1, <3>2
  <2>3. Cardinality(Pending') <= Cardinality(Pending) + 1
    <3>1. /\ IsFiniteSet(Pending \cup {n})
          /\ Cardinality(Pending \cup {n}) \in
               {Cardinality(Pending), Cardinality(Pending) + 1}
      BY <1>5, FS_AddElement
    <3>2. Cardinality(Pending') <= Cardinality(Pending \cup {n})
      BY <2>2, <3>1, FS_Subset
    <3> QED BY <1>5, <3>1, <3>2
  <2>4. Cardinality(rows) + Cardinality(Pending) < Limit
    BY <1>6, <2>1 DEF SeatKnown
  <2>5. Cardinality(rows') + Cardinality(Pending') <= Limit
    BY <1>4, <1>5, <2>1, <2>3, <2>4
  <2> QED BY <1>3, <2>5 DEF Seats
<1>9. CASE AcceptWrite(q)
  <2>1. CASE UNCHANGED <<rows, invites>>
    <3>1. Pending' \subseteq Pending
      BY <2>1 DEF Pending
    <3> QED BY <1>1, <1>4, <2>1, <3>1, SeatsAnswered
  <2>2. CASE ~UNCHANGED <<rows, invites>>
    <3>1. /\ InsertRow(ctx[q].user, ctx[q].role)
          /\ invites' = [invites EXCEPT ![ctx[q].invite] = NoInvite]
      BY <1>9, <2>2 DEF AcceptWrite
    <3>2. PICK x : rows' = rows \cup {x}
      BY <3>1 DEF InsertRow
    <3>3. Cardinality(rows') <= Cardinality(rows) + 1
      <4>1. Cardinality(rows') = IF x \in rows THEN Cardinality(rows)
                                               ELSE Cardinality(rows) + 1
        BY <1>4, <3>2, FS_AddElement
      <4> QED BY <1>4, <4>1
    <3>4. \A i \in InviteIds :
            invites'[i].state = "pending" => invites[i].state = "pending" /\ i # ctx[q].invite
      BY <1>6, <1>9, <3>1, NoInviteType DEF TypeInv, TypeOK
    <3>5. PICK S \in SUBSET InviteIds : S = Pending \ {ctx[q].invite}
      BY PendingFinite
    <3>6. Pending' \subseteq S
      BY <3>4, <3>5 DEF Pending
    <3>7. Cardinality(Pending') <= Cardinality(S) /\ Cardinality(S) \in Nat
      BY <3>6, PendingFinite
    <3>8. Cardinality(rows) + Cardinality(S) < Limit
      BY <1>6, <1>9, <3>5 DEF SeatKnown, AcceptWrite, Accepting
    <3>9. Cardinality(rows') + Cardinality(Pending') <= Limit
      BY <1>4, <1>5, <3>3, <3>7, <3>8
    <3> QED BY <1>3, <3>9 DEF Seats
  <2> QED BY <2>1, <2>2
<1> QED BY <1>7, <1>8, <1>9

LEMMA SeatsNext ==
  ASSUME OneAtATime, Limited, TypeInv, SerialInv, Seats, [Next]_vars PROVE Seats'
<1>1. TypeInv'
  BY NextType
<1>2. Cardinality(rows) \in Nat
  BY FS_CardinalityType DEF TypeInv
<1>3. ASSUME NEW q \in Requests, Fail(q) PROVE Seats'
  <2>1. Cardinality(rows') <= Cardinality(rows) /\ Pending' \subseteq Pending
    BY <1>2, <1>3 DEF Fail, dbVars, Pending
  <2> QED BY <1>1, <1>3, <2>1, SeatsAnswered DEF Fail
<1>4. ASSUME NEW k \in InviteIds, Expire(k) PROVE Seats'
  <2>1. UNCHANGED <<rows, pc, ctx>>
    BY <1>4 DEF Expire
  <2>2. Pending' \subseteq Pending
    BY <1>4 DEF Expire, Pending, TypeInv, TypeOK, InviteRows
  <2> QED BY <1>1, <1>2, <2>1, <2>2, SeatsFewer
<1>5. CASE UNCHANGED vars \/ \E u \in Users : SignIn(u)
  <2>1. UNCHANGED <<rows, invites, pc, ctx>>
    BY <1>5 DEF vars, dbVars, SignIn
  <2>2. Pending' \subseteq Pending
    BY <2>1 DEF Pending
  <2> QED BY <1>1, <1>2, <2>1, <2>2, SeatsFewer
<1> QED BY <1>1, <1>3, <1>4, <1>5, SeatsStart, SeatsReads, SeatsWrite DEF Next

LEMMA SeatsInit == ASSUME Init PROVE Seats
<1>1. Cardinality(rows) = 1
  BY FS_Singleton DEF Init
<1>2. Cardinality(Pending) = 0
  <2>1. Pending = {}
    BY NoInviteType DEF Init, Pending
  <2> QED BY <2>1, FS_EmptySet
<1>3. \A q \in Requests : SeatKnown(q)
  BY DEF Init, SeatKnown, Inviting, Accepting
<1> QED BY <1>1, <1>2, <1>3 DEF Seats

\* One request after the other, members and pending invites together stay within the
\* plan: who invites has found a seat free (countWorkspaceSeats), and who accepts gives up the
\* invite's - also when that has expired meanwhile.
THEOREM SerialSeats ==
  ASSUME OneAtATime PROVE Spec => []SeatsWithinPlan
<1> DEFINE SeatsInv == TypeInv /\ SerialInv /\ (Limited => Seats)
<1>1. Init => SeatsInv
  BY InitType, SerialInit, SeatsInit
<1>2. SeatsInv /\ [Next]_vars => SeatsInv'
  BY NextType, SerialNext, SeatsNext
<1>3. SeatsInv => SeatsWithinPlan
  BY DEF Seats, SeatsWithinPlan
<1> HIDE DEF SeatsInv
<1> QED BY <1>1, <1>2, <1>3, PTL DEF Spec


-----------------------------------------------------------------------------
(* The two instances side by side: the plan under requests that overlap.    *)

Overlapping == {p1, p2}
OverlapEntering == {q \in Overlapping : stmt[q] = "accept_write"}

\* Whoever has passed the check of the limit counts as a member already.
OverlapSeats ==
  Limited =>
    /\ stmt \in [Overlapping -> Statements]
    /\ IsFiniteSet(members)
    /\ Cardinality(members) + Cardinality(OverlapEntering) < Limit + Cardinality(Overlapping)

\* The instance counts as this module does.
LEMMA OverlapCounts == ASSUME NEW S PROVE Overlap!Cardinality(S) = Cardinality(S)
BY DEF Overlap!Cardinality, Cardinality

LEMMA OverlappingFinite ==
  /\ IsFiniteSet(Overlapping) /\ Cardinality(Overlapping) \in Nat \ {0}
  /\ Overlap!Statements = Statements
  /\ IsFiniteSet(OverlapEntering) /\ Cardinality(OverlapEntering) \in Nat
  /\ Cardinality(OverlapEntering) <= Cardinality(Overlapping)
  /\ IsFiniteSet(OverlapEntering') /\ Cardinality(OverlapEntering') \in Nat
  /\ Cardinality(OverlapEntering') <= Cardinality(Overlapping)
<1>1. IsFiniteSet({p1}) /\ Overlapping = {p1} \cup {p2}
  BY FS_Singleton DEF Overlapping
<1>2. IsFiniteSet(Overlapping)
  BY <1>1, FS_AddElement
<1>3. Cardinality(Overlapping) \in Nat /\ Cardinality(Overlapping) # 0
  BY <1>1, <1>2, FS_CardinalityType, FS_EmptySet
<1>4. OverlapEntering \subseteq Overlapping /\ OverlapEntering' \subseteq Overlapping
  BY DEF OverlapEntering
<1> QED BY <1>2, <1>3, <1>4, FS_Subset, FS_CardinalityType DEF Overlap!Statements, Statements

\* What a step of the overlapping requests does to the members and to those about to join:
\* it lets one in below the limit, adds one who was let in, or neither.
LEMMA OverlapCases ==
  ASSUME Limited, OverlapSeats, Overlap!Next
  PROVE  /\ stmt' \in [Overlapping -> Statements]
         /\ \/ /\ OverlapEntering' \subseteq OverlapEntering
               /\ \/ members' \subseteq members
                  \/ \E f : f \in Surjection(members, members')
            \/ members' = members /\ Cardinality(members) < Limit
            \/ \E q \in OverlapEntering : OverlapEntering' = OverlapEntering \ {q}
                 /\ \E x : members' \in {members, members \cup {x}}
<1> USE OverlappingFinite DEF OverlapSeats, Overlapping, OverlapEntering
<1> DEFINE Calm2 == /\ stmt' \in [Overlapping -> Statements]
                    /\ OverlapEntering' \subseteq OverlapEntering
<1>1. ASSUME NEW q \in Overlapping, NEW s \in Statements \ {"accept_write"},
             stmt' = [stmt EXCEPT ![q] = s]
      PROVE  Calm2
  BY <1>1
<1>2. ASSUME NEW q \in Overlapping, Overlap!End(q) PROVE Calm2
  BY <1>1, <1>2 DEF Overlap!End, Statements
<1>3. ASSUME NEW q \in Overlapping, NEW step, NEW s \in Statements \ {"accept_write"}, NEW g,
             Overlap!Check(q, step, g, s)
      PROVE  Calm2 /\ members' = members
  BY <1>1, <1>2, <1>3 DEF Overlap!Check, Overlap!Goto, Overlap!dbVars
<1>4. ASSUME NEW q \in Overlapping, Overlap!Start(q) PROVE Calm2 /\ members' = members
  <2>1. members' = members
    BY <1>4 DEF Overlap!Start, Overlap!StartUpdateRole, Overlap!StartRemoveMember,
      Overlap!StartInvite, Overlap!StartRevoke, Overlap!StartAccept,
      Overlap!StartDeleteAccount, Overlap!Begin, Overlap!dbVars
  <2>2. PICK s \in Statements \ {"accept_write"} : stmt' = [stmt EXCEPT ![q] = s]
    BY <1>4 DEF Overlap!Start, Overlap!StartUpdateRole, Overlap!StartRemoveMember,
      Overlap!StartInvite, Overlap!StartRevoke, Overlap!StartAccept,
      Overlap!StartDeleteAccount, Overlap!Begin, Statements
  <2> QED BY <1>1, <2>1, <2>2
<1>5. ASSUME NEW q \in Overlapping, Overlap!Read(q), ~Overlap!AcceptCheckLimit(q)
      PROVE  Calm2 /\ members' = members
  <2>1. CASE Overlap!ReadForRole(q) \/ Overlap!ReadForRemoval(q)
    <3>1. members' = members
      BY <2>1 DEF Overlap!ReadForRole, Overlap!ReadForRemoval, Overlap!dbVars
    <3>2. \/ Overlap!End(q)
          \/ \E s \in Statements \ {"accept_write"} : Overlap!Goto(q, s)
      BY <2>1 DEF Overlap!ReadForRole, Overlap!ReadForRemoval, Statements
    <3> QED BY <1>1, <1>2, <3>1, <3>2 DEF Overlap!Goto
  <2>2. CASE Overlap!CountOwners(q)
    BY <1>3, <2>2 DEF Overlap!CountOwners, Statements
  <2>3. CASE Overlap!CountMembers(q)
    BY <1>1, <2>3 DEF Overlap!CountMembers, Overlap!dbVars, Statements
  <2>4. CASE \/ Overlap!CountInvites(q) \/ Overlap!CheckMember(q)
             \/ Overlap!CheckPending(q) \/ Overlap!ReadMembers(q)
    BY <1>3, <2>4 DEF Overlap!CountInvites, Overlap!CheckMember, Overlap!CheckPending,
       Overlap!ReadMembers, Statements
  <2>5. CASE Overlap!AcceptCheckMember(q)
    BY <1>3, <2>5 DEF Overlap!AcceptCheckMember, Statements
  <2> QED BY <1>5, <2>1, <2>2, <2>3, <2>4, <2>5 DEF Overlap!Read
<1>6. ASSUME NEW q \in Overlapping, Overlap!AcceptCheckLimit(q)
      PROVE  /\ stmt' \in [Overlapping -> Statements] /\ members' = members
             /\ OverlapEntering' \subseteq OverlapEntering \/ Cardinality(members) < Limit
  <2>1. members' = members
    BY <1>6 DEF Overlap!AcceptCheckLimit, Overlap!Check, Overlap!dbVars
  <2>2. CASE Overlap!End(q)
    BY <1>2, <2>1, <2>2
  <2>3. CASE Cardinality(members) < Limit /\ Overlap!Goto(q, "accept_write")
    BY <2>1, <2>3 DEF Overlap!Goto, Statements
  <2> QED BY <1>6, <2>2, <2>3, OverlapCounts DEF Overlap!AcceptCheckLimit, Overlap!Check
<1>7. ASSUME NEW q \in Overlapping, Overlap!AcceptWrite(q)
      PROVE  /\ Calm2 /\ q \in OverlapEntering /\ OverlapEntering' = OverlapEntering \ {q}
             /\ \E x : members' \in {members, members \cup {x}}
  <2>1. stmt[q] = "accept_write" /\ Overlap!End(q)
    BY <1>7 DEF Overlap!AcceptWrite
  <2>2. \E x : members' \in {members, members \cup {x}}
    BY <1>7 DEF Overlap!AcceptWrite, Overlap!InsertRow
  <2>3. OverlapEntering' = OverlapEntering \ {q}
    BY <2>1 DEF Overlap!End
  <2> QED BY <1>2, <2>1, <2>2, <2>3
<1>8. ASSUME NEW q \in Overlapping, Overlap!Write(q), ~Overlap!AcceptWrite(q)
      PROVE  /\ Calm2
             /\ members' \subseteq members \/ \E f : f \in Surjection(members, members')
  <2>1. Overlap!End(q)
    BY <1>8 DEF Overlap!Write, Overlap!WriteRole, Overlap!RemoveRows, Overlap!InsertInvite,
       Overlap!Revoke, Overlap!DeleteUser
  <2>2. CASE Overlap!WriteRole(q)
    <3> DEFINE f == [x \in members |-> IF x.user = asked[q].user
                                         THEN [x EXCEPT !.role = asked[q].role] ELSE x]
    <3>1. f \in Surjection(members, members')
      BY <2>2 DEF Overlap!WriteRole, Surjection
    <3> HIDE DEF f
    <3> QED BY <1>2, <2>1, <3>1
  <2>3. CASE ~Overlap!WriteRole(q)
    <3>1. members' \subseteq members
      BY <1>8, <2>3 DEF Overlap!Write, Overlap!RemoveRows, Overlap!InsertInvite,
         Overlap!Revoke, Overlap!DeleteUser
    <3> QED BY <1>2, <2>1, <3>1
  <2> QED BY <2>2, <2>3
<1>9. ASSUME NEW q \in Overlapping, Overlap!Fail(q) PROVE Calm2 /\ members' = members
  BY <1>2, <1>9 DEF Overlap!Fail, Overlap!dbVars
<1>10. ASSUME UNCHANGED <<members, stmt>> PROVE Calm2 /\ members' = members
  BY <1>10
<1> HIDE DEF OverlapEntering
<1> QED
  BY <1>4, <1>5, <1>6, <1>7, <1>8, <1>9, <1>10 DEF Overlap!Next, Overlap!Expire, Overlap!SignIn

LEMMA OverlapSeatsNext == OverlapSeats /\ [Overlap!Next]_overlapVars => OverlapSeats'
<1> SUFFICES ASSUME OverlapSeats, Overlap!Next, Limited
             PROVE  /\ stmt' \in [Overlapping -> Statements] /\ IsFiniteSet(members')
                    /\ Cardinality(members') + Cardinality(OverlapEntering')
                         < Limit + Cardinality(Overlapping)
  BY DEF OverlapSeats, OverlapEntering, overlapVars
<1> USE OverlappingFinite, FS_CardinalityType
<1>1. /\ IsFiniteSet(members) /\ Cardinality(members) \in Nat
      /\ Cardinality(members) + Cardinality(OverlapEntering) < Limit + Cardinality(Overlapping)
  BY DEF OverlapSeats
<1>2. CASE /\ OverlapEntering' \subseteq OverlapEntering
           /\ members' \subseteq members \/ \E f : f \in Surjection(members, members')
  <2>1. Cardinality(OverlapEntering') <= Cardinality(OverlapEntering)
    BY <1>2, FS_Subset
  <2>2. IsFiniteSet(members') /\ Cardinality(members') <= Cardinality(members)
    BY <1>1, <1>2, FS_Subset, FS_Surjection
  <2> QED BY <1>1, <2>1, <2>2, OverlapCases
<1>3. CASE members' = members /\ Cardinality(members) < Limit
  BY <1>1, <1>3, OverlapCases
<1>4. ASSUME NEW q \in OverlapEntering, NEW x, OverlapEntering' = OverlapEntering \ {q},
             members' \in {members, members \cup {x}}
      PROVE  /\ IsFiniteSet(members')
             /\ Cardinality(members') + Cardinality(OverlapEntering')
                  < Limit + Cardinality(Overlapping)
  <2>1. Cardinality(OverlapEntering') = Cardinality(OverlapEntering) - 1
    BY <1>4, FS_RemoveElement
  <2>2. IsFiniteSet(members') /\ Cardinality(members') <= Cardinality(members) + 1
    <3>1. CASE members' = members
      BY <1>1, <3>1
    <3>2. CASE members' = members \cup {x}
      <4>1. /\ IsFiniteSet(members')
            /\ Cardinality(members') = IF x \in members THEN Cardinality(members)
                                                        ELSE Cardinality(members) + 1
        BY <1>1, <3>2, FS_AddElement
      <4> QED BY <1>1, <4>1
    <3> QED BY <1>4, <3>1, <3>2
  <2> QED BY <1>1, <2>1, <2>2
<1> QED BY <1>2, <1>3, <1>4, OverlapCases

LEMMA OverlapSeatsInit == Overlap!Init => OverlapSeats
<1> SUFFICES ASSUME Overlap!Init PROVE OverlapSeats
  OBVIOUS
<1>1. IsFiniteSet(members) /\ Cardinality(members) = 1
  BY FS_Singleton DEF Overlap!Init
<1>2. OverlapEntering = {}
  BY DEF Overlap!Init, OverlapEntering, Overlapping
<1>3. Cardinality(OverlapEntering) = 0
  BY <1>2, FS_EmptySet
<1>4. stmt \in [Overlapping -> Statements]
  BY DEF Overlap!Init, Overlapping, Statements
<1> QED BY <1>1, <1>3, <1>4, OverlappingFinite DEF OverlapSeats

\* Each of the two instances behaves as Membership does on its own.
LEMMA EachInstance == MembershipSpec => Spec /\ Overlap!Init /\ [][Overlap!Next]_overlapVars
<1>1. MembershipInit => Init /\ Overlap!Init
  BY DEF MembershipInit
<1>2. [MembershipNext]_<<focus, vars, overlapVars>> => [Next]_vars
  BY DEF MembershipNext, InMode
<1>3. [MembershipNext]_<<focus, vars, overlapVars>> => [Overlap!Next]_overlapVars
  BY DEF MembershipNext, InMode
<1> QED BY <1>1, <1>2, <1>3, PTL DEF MembershipSpec, Spec

\* In both instances at once: requests that overlap exceed the plan by fewer members than
\* there are such requests, because each has passed the check of the limit before it joins.
THEOREM OverlapHolds == MembershipSpec => []OverlapBounded
<1>1. OverlapSeats => OverlapBounded
  <2> SUFFICES ASSUME OverlapSeats, Limited
               PROVE  Cardinality(members) < Limit + Cardinality(Overlapping)
    BY OverlapCounts DEF OverlapBounded, Overlap!OvershootBounded, Overlapping
  <2> QED BY OverlappingFinite, FS_CardinalityType DEF OverlapSeats
<1> QED BY <1>1, EachInstance, OverlapSeatsInit, OverlapSeatsNext, PTL

\* In both instances at once: the requests that come one after the other keep an owner, one
\* row per user and distinct invites, and stay within the plan.
THEOREM SerialHolds ==
  ASSUME OneAtATime
  PROVE  MembershipSpec => /\ [](OwnerKept /\ OneRowPerUser /\ SeatsWithinPlan)
                           /\ PendingInvitesDistinct
BY EachInstance, SerialOwner, SerialMembers, SerialInvites, SerialSeats, PTL
=============================================================================
