----------------------------- MODULE Membership -----------------------------
(***************************************************************************)
(* The people of one workspace: its members and their roles, its invites,  *)
(* and the accounts behind them.                                           *)
(*                                                                         *)
(* An invite goes to an e-mail address, and a user's address is what       *)
(* GitHub said at the last sign-in: it may change, be missing, or be the   *)
(* address of another user too.                                            *)
(*                                                                         *)
(* Every request checks in some statements what it changes in a later one: *)
(* who the target is, how many owners or seats there are, whether somebody *)
(* is a member or invited already.  Only the last statement, or the        *)
(* transaction in its place, changes anything; nothing is locked meanwhile *)
(* and no constraint of the tables says that a person is a member once.    *)
(* Each statement is a step of its own, so requests may interleave between *)
(* any two of them.                                                        *)
(***************************************************************************)
EXTENDS Naturals, FiniteSets

CONSTANTS
  Users,       \* people, by their account
  Emails,      \* e-mail addresses
  NoEmail,     \* GitHub names no address
  Founder,     \* the user who created the workspace
  KeyHolders,  \* users whose API key acts as an admin, member or not
  Requests,    \* requests that may be in progress at the same time
  Limited,     \* PLAN_LIMITS_ENABLED, under a plan with a member limit
  Limit,       \* that limit
  OneAtATime,  \* TRUE: a request is sent after the one before was answered
  AskedRoles,  \* bound: roles that requests ask for
  MaxRows,     \* bound: membership rows at a time
  MaxInvites   \* bound: invites at a time, not counting accepted ones

Roles == {"owner", "admin", "member"}
RowIds == 1..MaxRows
InviteIds == 1..MaxInvites

ASSUME MembershipAssumption ==
  /\ Founder \in Users /\ KeyHolders \subseteq Users
  /\ NoEmail \notin Emails
  /\ IsFiniteSet(Requests) /\ Requests # {}
  /\ Limited \in BOOLEAN /\ OneAtATime \in BOOLEAN
  /\ Limit \in Nat \ {0} /\ AskedRoles \subseteq Roles
  /\ MaxRows \in Nat \ {0} /\ MaxInvites \in Nat

VARIABLES
  accounts,    \* users with an account
  address,     \* users.email
  rows,        \* workspace_members (all of them accepted)
  invites,     \* workspace_invites; no query finds the accepted ones again
  pc,          \* the statement each request is about to run
  ctx,         \* what it was asked, and what it has read
  abandoned    \* observation: the last member has deleted the account

dbVars == <<accounts, address, rows, invites>>
vars == <<dbVars, pc, ctx, abandoned>>

MemberRows == [id : RowIds, user : Users, role : Roles]
InviteRows ==
  [state : {"none", "pending", "expired"},
   email : Emails \cup {NoEmail}, role : Roles, by : Users]
\* Inviter, subject, address, role and invite of the request; a count it has read.
Contexts ==
  [actor : Users, user : Users, email : Emails \cup {NoEmail}, role : Roles,
   invite : InviteIds \cup {0}, count : Nat]

Statements ==
  {"idle", "role_read", "role_count", "role_write",
   "remove_read", "remove_count", "remove_write",
   "count_members", "count_invites", "check_member", "check_pending",
   "insert_invite", "revoke",
   "accept_member", "accept_count", "accept_write",
   "read_members", "delete_user"}

TypeOK ==
  /\ accounts \in SUBSET Users
  /\ address \in [Users -> Emails \cup {NoEmail}]
  /\ rows \in SUBSET MemberRows
  /\ invites \in [InviteIds -> InviteRows]
  /\ pc \in [Requests -> Statements]
  /\ ctx \in [Requests -> Contexts]
  /\ abandoned \in BOOLEAN

NoCtx == [actor |-> Founder, user |-> Founder, email |-> NoEmail,
          role |-> "member", invite |-> 0, count |-> 0]

NoInvite == [state |-> "none", email |-> NoEmail, role |-> "member", by |-> Founder]

\* createWorkspace has made its caller the owner.
Init ==
  /\ accounts = Users
  /\ address = [u \in Users |-> NoEmail]
  /\ rows = {[id |-> 1, user |-> Founder, role |-> "owner"]}
  /\ invites = [i \in InviteIds |-> NoInvite]
  /\ pc = [q \in Requests |-> "idle"]
  /\ ctx = [q \in Requests |-> NoCtx]
  /\ abandoned = FALSE

-----------------------------------------------------------------------------

\* getAcceptedMembership and its like: the rows of a user.
RowsOf(u) == {x \in rows : x.user = u}
Owners == {x \in rows : x.role = "owner"}
Pending == {i \in InviteIds : invites[i].state = "pending"}

\* workspaceScope and roleMeetsMinimum(..., "admin"): a member by any of the
\* rows, or an API key, which goes with the account.
MayAdminister(u) ==
  u \in KeyHolders \cap accounts \/ \E x \in RowsOf(u) : x.role \in {"owner", "admin"}

Begin(q, step, c) ==
  /\ pc[q] = "idle"
  /\ OneAtATime => \A p \in Requests : pc[p] = "idle"
  /\ pc' = [pc EXCEPT ![q] = step]
  /\ ctx' = [ctx EXCEPT ![q] = c]
  /\ UNCHANGED <<dbVars, abandoned>>

Goto(q, step) ==
  /\ pc' = [pc EXCEPT ![q] = step]
  /\ UNCHANGED ctx

\* The request is answered.
End(q) ==
  /\ pc' = [pc EXCEPT ![q] = "idle"]
  /\ ctx' = [ctx EXCEPT ![q] = NoCtx]

\* The statement at step: it is followed by next when the request goes on, and
\* by the answer otherwise.  It changes nothing but the request.
Check(q, step, goesOn, next) ==
  /\ pc[q] = step
  /\ \/ goesOn /\ Goto(q, next)
     \/ ~goesOn /\ End(q)
  /\ UNCHANGED <<dbVars, abandoned>>

-----------------------------------------------------------------------------
(* updateMemberRole and removeMember.                                       *)

\* PATCH .../members/:userId by an admin; nobody changes the own role.
StartUpdateRole(q) ==
  \E a \in Users, u \in Users, r \in AskedRoles :
    /\ MayAdminister(a) /\ u # a
    /\ Begin(q, "role_read", [NoCtx EXCEPT !.user = u, !.role = r])

\* DELETE .../members/:userId by an admin, who may leave this way too.
StartRemoveMember(q) ==
  \E a \in Users, u \in Users :
    /\ MayAdminister(a)
    /\ Begin(q, "remove_read", [NoCtx EXCEPT !.user = u])

\* getAcceptedMembership reads any one row of the user.
ReadForRole(q) ==
  LET u == ctx[q].user IN
  /\ pc[q] = "role_read"
  /\ \/ RowsOf(u) = {} /\ End(q)
     \/ \E x \in RowsOf(u) :
          Goto(q, IF x.role = "owner" /\ ctx[q].role # "owner"
                    THEN "role_count" ELSE "role_write")
  /\ UNCHANGED <<dbVars, abandoned>>

ReadForRemoval(q) ==
  LET u == ctx[q].user IN
  /\ pc[q] = "remove_read"
  /\ \/ RowsOf(u) = {} /\ End(q)
     \/ \E x \in RowsOf(u) :
          Goto(q, IF x.role = "owner" THEN "remove_count" ELSE "remove_write")
  /\ UNCHANGED <<dbVars, abandoned>>

\* countOwners: the last one stays.
CountOwners(q) ==
  \/ Check(q, "role_count", Cardinality(Owners) > 1, "role_write")
  \/ Check(q, "remove_count", Cardinality(Owners) > 1, "remove_write")

\* UPDATE ... WHERE user_id: all rows of the user.
WriteRole(q) ==
  /\ pc[q] = "role_write"
  /\ rows' = {IF x.user = ctx[q].user THEN [x EXCEPT !.role = ctx[q].role] ELSE x :
                x \in rows}
  /\ End(q)
  /\ UNCHANGED <<accounts, address, invites, abandoned>>

\* DELETE ... WHERE user_id: all rows of the user.
RemoveRows(q) ==
  /\ pc[q] = "remove_write"
  /\ rows' = rows \ RowsOf(ctx[q].user)
  /\ End(q)
  /\ UNCHANGED <<accounts, address, invites, abandoned>>

-----------------------------------------------------------------------------
(* createWorkspaceInvite and revokeWorkspaceInvite.                         *)

StartInvite(q) ==
  \E a \in Users, e \in Emails, r \in AskedRoles :
    /\ MayAdminister(a)
    /\ Begin(q, IF Limited THEN "count_members" ELSE "check_member",
             [NoCtx EXCEPT !.actor = a, !.email = e, !.role = r])

\* countWorkspaceSeats counts members and pending invites in two statements.
CountMembers(q) ==
  /\ pc[q] = "count_members"
  /\ pc' = [pc EXCEPT ![q] = "count_invites"]
  /\ ctx' = [ctx EXCEPT ![q].count = Cardinality(rows)]
  /\ UNCHANGED <<dbVars, abandoned>>

\* Mutant: only members take a seat.
CountInvites_MembersOnly(q) ==
  Check(q, "count_invites", ctx[q].count < Limit, "check_member")

CountInvites(q) ==
  Check(q, "count_invites", ctx[q].count + Cardinality(Pending) < Limit,
        "check_member")

\* assertInviteeNotMember: no member's address is the invited one.
CheckMember(q) ==
  Check(q, "check_member", \A u \in Users : address[u] = ctx[q].email => RowsOf(u) = {},
        "check_pending")

\* Mutant: expired invites are looked at, pending ones are not.
CheckPending_OtherState(q) ==
  Check(q, "check_pending",
        \A i \in InviteIds : invites[i].email = ctx[q].email =>
          invites[i].state # "expired",
        "insert_invite")

\* assertNoPendingInvite
CheckPending(q) ==
  Check(q, "check_pending", \A i \in Pending : invites[i].email # ctx[q].email,
        "insert_invite")

\* An id that no invite has, and none had that a request is about.
FreeInvites ==
  {i \in InviteIds : invites[i] = NoInvite /\ \A q \in Requests : ctx[q].invite # i}

\* The inviter must still have an account.
InsertInvite(q) ==
  /\ pc[q] = "insert_invite"
  /\ \/ /\ ctx[q].actor \in accounts /\ FreeInvites # {}
        /\ invites' = [invites EXCEPT ![CHOOSE i \in FreeInvites : TRUE] =
             [state |-> "pending", email |-> ctx[q].email, role |-> ctx[q].role,
              by |-> ctx[q].actor]]
     \/ ctx[q].actor \notin accounts /\ UNCHANGED invites
  /\ End(q)
  /\ UNCHANGED <<accounts, address, rows, abandoned>>

StartRevoke(q) ==
  \E a \in Users, i \in InviteIds :
    /\ MayAdminister(a)
    /\ Begin(q, "revoke", [NoCtx EXCEPT !.invite = i])

\* DELETE ... WHERE accepted_at IS NULL
Revoke(q) ==
  /\ pc[q] = "revoke"
  /\ invites' = [invites EXCEPT ![ctx[q].invite] = NoInvite]
  /\ End(q)
  /\ UNCHANGED <<accounts, address, rows, abandoned>>

\* Seven days have passed.
Expire(i) ==
  /\ invites[i].state = "pending"
  /\ invites' = [invites EXCEPT ![i].state = "expired"]
  /\ UNCHANGED <<accounts, address, rows, pc, ctx, abandoned>>

-----------------------------------------------------------------------------
(* acceptWorkspaceInvite.                                                   *)

\* The invite is read and found pending, and its address is the caller's, whom
\* somebody may have invited under another one.
StartAccept(q) ==
  \E u \in accounts, i \in Pending :
    /\ invites[i].email = address[u]
    /\ Begin(q, "accept_member", [NoCtx EXCEPT
         !.user = u, !.role = invites[i].role, !.invite = i])

\* Mutant: a user who could be invited is taken for no member.
AcceptCheckMember_Unchecked(q) ==
  Check(q, "accept_member", TRUE, IF Limited THEN "accept_count" ELSE "accept_write")

\* The user's own rows: a member's new address may have an invite.
AcceptCheckMember(q) ==
  Check(q, "accept_member", RowsOf(ctx[q].user) = {},
        IF Limited THEN "accept_count" ELSE "accept_write")

\* Mutant: one member too many.
AcceptCheckLimit_OffByOne(q) ==
  Check(q, "accept_count", Cardinality(rows) <= Limit, "accept_write")

\* assertMemberAcceptAllowed
AcceptCheckLimit(q) ==
  Check(q, "accept_count", Cardinality(rows) < Limit, "accept_write")

\* A new row, under an id that no row has.
InsertRow(u, r) ==
  LET free == {n \in RowIds : \A x \in rows : x.id # n} IN
  /\ free # {}
  /\ rows' = rows \cup {[id |-> CHOOSE n \in free : TRUE, user |-> u, role |-> r]}

\* One transaction inserts the membership and marks the invite accepted,
\* whatever has become of it; the foreign key wants the account.
AcceptWrite(q) ==
  /\ pc[q] = "accept_write"
  /\ \/ /\ ctx[q].user \in accounts
        /\ InsertRow(ctx[q].user, ctx[q].role)
        /\ invites' = [invites EXCEPT ![ctx[q].invite] = NoInvite]
     \/ ctx[q].user \notin accounts /\ UNCHANGED <<rows, invites>>
  /\ End(q)
  /\ UNCHANGED <<accounts, address, abandoned>>

-----------------------------------------------------------------------------
(* upsertGitHubUser and deleteUserAccount.                                  *)

\* Every sign-in overwrites the address by what GitHub says now.
SignIn(u) ==
  /\ u \in accounts
  /\ OneAtATime => \A q \in Requests : pc[q] = "idle"
  /\ \E e \in Emails \cup {NoEmail} : address' = [address EXCEPT ![u] = e]
  /\ UNCHANGED <<accounts, rows, invites, pc, ctx, abandoned>>

\* isAccountDeleteBlocked looks for workspaces the user owns ...
StartDeleteAccount(q) ==
  \E u \in accounts :
    Begin(q, IF \E x \in RowsOf(u) : x.role = "owner"
               THEN "read_members" ELSE "delete_user",
          [NoCtx EXCEPT !.user = u])

\* Mutant: the user is not left out of the owners looked for.
ReadMembers_FindsItself(q) ==
  LET others == {x \in rows : x.user # ctx[q].user} IN
  Check(q, "read_members",
        others = {} \/ \E x \in rows : x.role = "owner", "delete_user")

\* ... and, in each, for other members without another owner.
ReadMembers(q) ==
  LET others == {x \in rows : x.user # ctx[q].user} IN
  Check(q, "read_members",
        others = {} \/ \E x \in others : x.role = "owner", "delete_user")

\* The foreign keys cascade to the memberships, and to the invites sent.
DeleteUser(q) ==
  LET u == ctx[q].user IN
  /\ pc[q] = "delete_user"
  /\ accounts' = accounts \ {u}
  /\ rows' = rows \ RowsOf(u)
  /\ invites' = [i \in InviteIds |->
       IF invites[i].by = u THEN NoInvite ELSE invites[i]]
  /\ abandoned' = (abandoned \/ rows' = {})
  /\ End(q)
  /\ UNCHANGED address

-----------------------------------------------------------------------------

\* A statement fails, or the process dies: nothing was changed yet.
Fail(q) ==
  /\ pc[q] # "idle"
  /\ End(q)
  /\ UNCHANGED <<dbVars, abandoned>>

Start(q) ==
  \/ StartUpdateRole(q) \/ StartRemoveMember(q) \/ StartInvite(q)
  \/ StartRevoke(q) \/ StartAccept(q) \/ StartDeleteAccount(q)

Read(q) ==
  \/ ReadForRole(q) \/ ReadForRemoval(q) \/ CountOwners(q)
  \/ CountMembers(q) \/ CountInvites(q) \/ CheckMember(q) \/ CheckPending(q)
  \/ AcceptCheckMember(q) \/ AcceptCheckLimit(q) \/ ReadMembers(q)

Write(q) ==
  \/ WriteRole(q) \/ RemoveRows(q) \/ InsertInvite(q) \/ Revoke(q)
  \/ AcceptWrite(q) \/ DeleteUser(q)

Next ==
  \/ \E q \in Requests : Start(q) \/ Read(q) \/ Write(q) \/ Fail(q)
  \/ \E i \in InviteIds : Expire(i)
  \/ \E u \in Users : SignIn(u)

Spec == Init /\ [][Next]_vars

-----------------------------------------------------------------------------

\* Requests one after the other: a workspace with members has an owner, through
\* demotions, removals, leaving and deleted accounts - unless its last member
\* has deleted the account: an invite sent by somebody else survives that, and
\* whoever accepts it finds no owner.
OwnerKept == rows # {} /\ ~abandoned => Owners # {}

\* "Blocks demoting the last owner", "Blocks removing the last owner": only the
\* end of an account takes the last owner away.
LastOwnerStays ==
  [][Owners # {} /\ accounts' = accounts => Owners' # {}]_vars

\* One after the other: nobody is a member twice, which no constraint of the
\* table says, though the same person may be invited again and again.
OneRowPerUser == \A x, y \in rows : x.user = y.user => x = y

\* One after the other: members and pending invites together never exceed the
\* plan, so that every pending invite can still be accepted.
SeatsWithinPlan == Limited => Cardinality(rows) + Cardinality(Pending) <= Limit

OneInvitePerAddress ==
  \A i, k \in Pending : invites[i].email = invites[k].email => i = k

\* One after the other: after every step an address has at most one pending invite, and
\* no step makes a pending invite one to the address of a member - except a sign-in,
\* which gives a member whatever address GitHub says, invited or not.
InvitesToMembers == {i \in Pending : \E x \in rows : address[x.user] = invites[i].email}

PendingInvitesDistinct ==
  [][/\ OneInvitePerAddress'
     /\ InvitesToMembers' \subseteq InvitesToMembers \/ address' # address]_vars

\* Requests that overlap may exceed the plan, but only by as many members as
\* there were other requests in progress.
OvershootBounded ==
  Limited => Cardinality(rows) < Limit + Cardinality(Requests)

=============================================================================
