----------------------------- MODULE Workspaces ------------------------------
(***************************************************************************)
(* The workspaces of one user: created within the limit of the best plan   *)
(* among those the user owns (Cloud) or only when there is none (community *)
(* edition), renamed, and deleted - in the community edition never the     *)
(* last one.                                                               *)
(*                                                                         *)
(* Counts, the slug and the row are read and written by statements of      *)
(* their own, and several requests of the user are in progress at once.    *)
(***************************************************************************)
EXTENDS Naturals, FiniteSets

CONSTANTS
  Ids,              \* rows of workspaces
  Requests,         \* requests of the user that may be in progress at once
  FreeSpaces, ProSpaces,
  MaxSlug           \* bound: suffixes of the slug that everybody prefers

ASSUME WorkspaceAssumption ==
  /\ IsFiniteSet(Ids) /\ IsFiniteSet(Requests)
  /\ FreeSpaces \in Nat /\ ProSpaces \in Nat /\ MaxSlug \in Nat \ {0}

Tiers == {"free", "pro", "business"}
NoSlug == 0
Slugs == 1 .. MaxSlug   \* 1 is the preferred slug itself, n the one suffixed -n
NoRow == [slug |-> NoSlug, plan |-> "free", role |-> "none"]
NoRequest == [step |-> "idle", slug |-> NoSlug, row |-> NoSlug, count |-> 0]

VARIABLES
  cloud,     \* the edition, fixed when the process starts
  rows,      \* workspaces: slug, plan, and the user's role in each
  request,   \* requests in progress
  \* observation
  room,      \* as many workspaces as the limits so far allowed the user to own ...
  crowd,     \* ... and the most creations that were past their count at once since
  bereft     \* deletions overlapped, or somebody removed the user from a workspace

workspaceVars == <<cloud, rows, request, room, crowd, bereft>>

WorkspaceTypeOK ==
  /\ cloud \in BOOLEAN
  /\ rows \in [Ids -> [slug : Slugs \cup {NoSlug}, plan : Tiers,
                       role : {"none", "member", "owner"}]]
  /\ \A i, j \in Ids : i # j /\ rows[i].slug = rows[j].slug => rows[i].slug = NoSlug
  /\ request \in [Requests ->
       [step : {"idle", "count", "limit", "probe", "insert", "rename", "last", "delete"},
        slug : Slugs \cup {NoSlug}, row : Ids \cup {NoSlug}, count : 0 .. Cardinality(Ids)]]
  /\ room \in Nat /\ crowd \in Nat
  /\ bereft \in BOOLEAN

Of(role) == {i \in Ids : rows[i].role \in role}
Taken(s) == \E i \in Ids : rows[i].slug = s

MostOf(S) == CHOOSE n \in S : \A m \in S : m <= n
LeastOf(S) == CHOOSE n \in S : \A m \in S : n <= m

\* PLAN_LIMITS, the unlimited plan admitting every row; resolveUserWorkspaceLimit.
SpaceCap == [p \in Tiers |-> CASE p = "free" -> FreeSpaces
                               [] p = "pro" -> ProSpaces
                               [] OTHER -> Cardinality(Ids)]
BestLimit == MostOf({SpaceCap["free"]} \cup {SpaceCap[rows[i].plan] : i \in Of({"owner"})})

\* What the edition lets the user own.
Limit == IF cloud THEN BestLimit ELSE 1

Counted == {q \in Requests : request[q].step \in {"limit", "probe", "insert"}}

WorkspaceInit ==
  /\ cloud \in BOOLEAN
  /\ rows = [i \in Ids |-> NoRow]
  /\ request = [q \in Requests |-> NoRequest]
  /\ room = IF cloud THEN FreeSpaces ELSE 1
  /\ crowd = 0
  /\ bereft = FALSE

-----------------------------------------------------------------------------

RequestAt(q, step) == request[q].step = step
Step(q, step) == request' = [request EXCEPT ![q].step = step]
RequestEnds(q) == request' = [request EXCEPT ![q] = NoRequest]
Crowding == crowd' = MostOf({crowd, Cardinality(Counted')})

\* Plans and roles change: the room is reckoned anew from what is owned if no
\* creation has been counted, or else grows by what the change gives the user.
NewRoom ==
  LET given == Cardinality(Of({"owner"})' \ Of({"owner"}))
               + (IF Limit' > Limit THEN Limit' - Limit ELSE 0)
  IN IF Counted = {}
       THEN room' = MostOf({Limit', Cardinality(Of({"owner"})')}) /\ crowd' = 0
       ELSE /\ room' = MostOf({room, LeastOf({room + given, Cardinality(Ids)})})
            /\ UNCHANGED crowd

\* createWorkspace: CE counts memberships, Cloud the workspaces owned.
StartCreate(q) ==
  /\ RequestAt(q, "idle")
  /\ Step(q, "count")
  /\ UNCHANGED <<cloud, rows, room, crowd, bereft>>

CountSpaces(q) ==
  /\ RequestAt(q, "count")
  /\ IF cloud
       THEN request' = [request EXCEPT ![q].step = "limit",
                                       ![q].count = Cardinality(Of({"owner"}))]
       ELSE IF Of({"member", "owner"}) = {}
              THEN request' = [request EXCEPT ![q].step = "probe", ![q].slug = 1]
              ELSE RequestEnds(q)
  /\ Crowding
  /\ UNCHANGED <<cloud, rows, room, bereft>>

CheckLimit(q) ==
  /\ RequestAt(q, "limit")
  /\ IF request[q].count >= BestLimit
       THEN RequestEnds(q)
       ELSE request' = [request EXCEPT ![q].step = "probe", ![q].slug = 1]
  /\ UNCHANGED <<cloud, rows, room, crowd, bereft>>

\* resolveUniqueSlug: the next suffix until one is free.
Probe(q) ==
  /\ RequestAt(q, "probe")
  /\ IF Taken(request[q].slug)
       THEN request[q].slug < MaxSlug /\ request' = [request EXCEPT ![q].slug = @ + 1]
       ELSE Step(q, "insert")
  /\ UNCHANGED <<cloud, rows, room, crowd, bereft>>

\* One transaction inserts the workspace and its owner; a slug taken meanwhile
\* fails it, answered 409 (createWorkspaceSafe).
InsertSpace(q) ==
  /\ RequestAt(q, "insert")
  /\ IF Taken(request[q].slug) THEN UNCHANGED rows
     ELSE \E i \in Ids :
            /\ rows[i] = NoRow
            /\ rows' = [rows EXCEPT ![i] =
                 [slug |-> request[q].slug, plan |-> "free", role |-> "owner"]]
  /\ RequestEnds(q)
  /\ UNCHANGED <<cloud, room, crowd, bereft>>

\* updateWorkspace: the slug is looked for, then written; 409 in both cases.
CheckSlug(q) ==
  /\ RequestAt(q, "idle")
  /\ \E i \in Of({"owner"}), s \in Slugs :
       /\ ~Taken(s)
       /\ request' = [request EXCEPT ![q] =
            [NoRequest EXCEPT !.step = "rename", !.slug = s, !.row = i]]
  /\ UNCHANGED <<cloud, rows, room, crowd, bereft>>

Rename(q) ==
  /\ RequestAt(q, "rename")
  /\ LET i == request[q].row IN
       rows' = IF rows[i].slug = NoSlug \/ Taken(request[q].slug) THEN rows
               ELSE [rows EXCEPT ![i].slug = request[q].slug]
  /\ RequestEnds(q)
  /\ UNCHANGED <<cloud, room, crowd, bereft>>

\* deleteWorkspace, by an owner: CE refuses the only workspace of the user.
StartDelete(q) ==
  /\ RequestAt(q, "idle")
  /\ \E i \in Of({"owner"}) :
       request' = [request EXCEPT ![q] =
         [NoRequest EXCEPT !.step = IF cloud THEN "delete" ELSE "last", !.row = i]]
  /\ UNCHANGED <<cloud, rows, room, crowd, bereft>>

\* Mutant: the user's only workspace may be deleted.
CountBeforeDelete_Zero(q) ==
  /\ RequestAt(q, "last")
  /\ IF Cardinality(Of({"member", "owner"})) <= 0
       THEN RequestEnds(q) ELSE Step(q, "delete")
  /\ UNCHANGED <<cloud, rows, room, crowd, bereft>>

CountBeforeDelete(q) ==
  /\ RequestAt(q, "last")
  /\ IF Cardinality(Of({"member", "owner"})) <= 1
       THEN RequestEnds(q) ELSE Step(q, "delete")
  /\ UNCHANGED <<cloud, rows, room, crowd, bereft>>

DeleteSpace(q) ==
  /\ RequestAt(q, "delete")
  /\ rows' = [rows EXCEPT ![request[q].row] = NoRow]
  /\ bereft' = (bereft \/ \E p \in Requests \ {q} : RequestAt(p, "delete"))
  /\ RequestEnds(q)
  /\ UNCHANGED <<cloud, room, crowd>>

\* Somebody else: another workspace takes a slug, the user is given or loses a
\* role, a payment changes a plan.
OtherSpace(i, s) ==
  /\ rows[i] = NoRow /\ ~Taken(s)
  /\ rows' = [rows EXCEPT ![i].slug = s]
  /\ UNCHANGED <<cloud, request, room, crowd, bereft>>

RoleChanges(i, role) ==
  /\ rows[i].slug # NoSlug /\ rows[i].role # role
  /\ rows' = [rows EXCEPT ![i].role = role]
  /\ bereft' = (bereft \/ role = "none")
  /\ UNCHANGED <<cloud, request>>
  /\ NewRoom

PlanOf(i, p) ==
  /\ cloud /\ rows[i].role = "owner" /\ rows[i].plan # p
  /\ rows' = [rows EXCEPT ![i].plan = p]
  /\ UNCHANGED <<cloud, request, bereft>>
  /\ NewRoom

WorkspaceNext ==
  \/ \E q \in Requests :
       \/ StartCreate(q) \/ CountSpaces(q) \/ CheckLimit(q) \/ Probe(q) \/ InsertSpace(q)
       \/ CheckSlug(q) \/ Rename(q) \/ StartDelete(q) \/ CountBeforeDelete(q) \/ DeleteSpace(q)
  \/ \E i \in Ids, s \in Slugs : OtherSpace(i, s)
  \/ \E i \in Ids, role \in {"none", "member", "owner"} : RoleChanges(i, role)
  \/ \E i \in Ids, p \in Tiers : PlanOf(i, p)

WorkspaceSpec == WorkspaceInit /\ [][WorkspaceNext]_workspaceVars

-----------------------------------------------------------------------------

\* The user owns no more workspaces than the best plan among them ever allowed, or
\* others made the user own, plus one for every creation beyond the first that had
\* been counted at the same time.
OwnedWithinPlan ==
  Cardinality(Of({"owner"})) <= room + (IF crowd = 0 THEN 0 ELSE crowd - 1)

\* "Cannot delete your only workspace in this edition": a community edition's user
\* who deletes one workspace after the other keeps the last.
LastWorkspaceKept ==
  [][~cloud /\ ~bereft' /\ Of({"member", "owner"}) # {} => Of({"member", "owner"})' # {}]_workspaceVars

=============================================================================
