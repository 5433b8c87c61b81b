----------------------------- MODULE Bootstrap ------------------------------
(***************************************************************************)
(* Sign-in through GitHub up to the session: the users row, and on the      *)
(* first sign-in of a community edition the workspace made for its owner.  *)
(*                                                                         *)
(* The callback counts the users, looks for its own, writes it, and then   *)
(* inserts the workspace and the owner's membership, every one a statement *)
(* of its own: two first sign-ins interleave, and a call may end anywhere. *)
(***************************************************************************)
EXTENDS Naturals, FiniteSets

CONSTANTS
  People,          \* GitHub accounts
  SignIns,         \* callbacks that may be in progress at the same time
  MaxSignInFaults  \* bound: callbacks that end early

ASSUME BootstrapAssumption == MaxSignInFaults \in Nat

Nobody == "nobody"

VARIABLES
  accounts,     \* users, by github_id
  myWorkspace,  \* a workspace has the slug "my-workspace"
  owners,       \* its workspace_members rows
  visit,        \* callbacks in progress
  served,       \* people with an answered callback
  signInFaults

bootstrapVars == <<accounts, myWorkspace, owners, visit, served, signInFaults>>

NoVisit == [step |-> "idle", person |-> Nobody, first |-> FALSE, known |-> FALSE]

BootstrapTypeOK ==
  /\ accounts \in SUBSET People
  /\ myWorkspace \in BOOLEAN
  /\ owners \in SUBSET People
  /\ visit \in [SignIns ->
                  [step : {"idle", "count", "find", "write", "workspace", "owner", "session"},
                   person : People \cup {Nobody}, first : BOOLEAN, known : BOOLEAN]]
  /\ served \in SUBSET People
  /\ signInFaults \in 0 .. MaxSignInFaults

BootstrapInit ==
  /\ accounts = {}
  /\ myWorkspace = FALSE
  /\ owners = {}
  /\ visit = [q \in SignIns |-> NoVisit]
  /\ served = {}
  /\ signInFaults = 0

-----------------------------------------------------------------------------

VisitAt(q, step) == visit[q].step = step
VisitGoto(q, step) == visit' = [visit EXCEPT ![q].step = step]
VisitEnds(q) == visit' = [visit EXCEPT ![q] = NoVisit]

\* GitHub returns a person with a code and the state that was sent along.
Callback(q) ==
  /\ VisitAt(q, "idle")
  /\ \E p \in People :
       visit' = [visit EXCEPT ![q] = [NoVisit EXCEPT !.step = "count", !.person = p]]
  /\ UNCHANGED <<accounts, myWorkspace, owners, served, signInFaults>>

CountUsers(q) ==
  /\ VisitAt(q, "count")
  /\ visit' = [visit EXCEPT ![q].step = "find", ![q].first = (accounts = {})]
  /\ UNCHANGED <<accounts, myWorkspace, owners, served, signInFaults>>

\* upsertGitHubUser looks for the row ...
FindUser(q) ==
  /\ VisitAt(q, "find")
  /\ visit' = [visit EXCEPT ![q].step = "write", ![q].known = (visit[q].person \in accounts)]
  /\ UNCHANGED <<accounts, myWorkspace, owners, served, signInFaults>>

\* Mutant: the second first user is turned away from the bootstrap, and so is
\* the first when somebody else has come meanwhile.
WriteUser_OnlyUser(q) ==
  /\ VisitAt(q, "write")
  /\ LET v == visit[q] IN
       /\ accounts' = accounts \cup {v.person}
       /\ IF ~v.known /\ v.person \in accounts THEN VisitEnds(q)
          ELSE VisitGoto(q, IF v.first /\ accounts = {} /\ ~v.known
                              /\ \A p \in SignIns \ {q} : VisitAt(p, "idle")
                            THEN "workspace" ELSE "session")
  /\ UNCHANGED <<myWorkspace, owners, served, signInFaults>>

\* ... and updates or inserts it: github_id is unique, so the loser of two inserts
\* ends here.
WriteUser(q) ==
  /\ VisitAt(q, "write")
  /\ LET v == visit[q] IN
       /\ accounts' = accounts \cup {v.person}
       /\ IF ~v.known /\ v.person \in accounts THEN VisitEnds(q)
          ELSE VisitGoto(q, IF v.first /\ ~v.known THEN "workspace" ELSE "session")
  /\ UNCHANGED <<myWorkspace, owners, served, signInFaults>>

\* bootstrapCeWorkspace: the slug is unique, the second insert fails the callback.
CreateWorkspace(q) ==
  /\ VisitAt(q, "workspace")
  /\ myWorkspace' = TRUE
  /\ IF myWorkspace THEN VisitEnds(q) ELSE VisitGoto(q, "owner")
  /\ UNCHANGED <<accounts, owners, served, signInFaults>>

AddOwner(q) ==
  /\ VisitAt(q, "owner")
  /\ owners' = owners \cup {visit[q].person}
  /\ VisitGoto(q, "session")
  /\ UNCHANGED <<accounts, myWorkspace, served, signInFaults>>

\* The session is stored and the browser redirected.
StartSession(q) ==
  /\ VisitAt(q, "session")
  /\ served' = served \cup {visit[q].person}
  /\ VisitEnds(q)
  /\ UNCHANGED <<accounts, myWorkspace, owners, signInFaults>>

\* The process dies or a statement fails.
SignInFails(q) ==
  /\ ~VisitAt(q, "idle")
  /\ signInFaults < MaxSignInFaults
  /\ signInFaults' = signInFaults + 1
  /\ VisitEnds(q)
  /\ UNCHANGED <<accounts, myWorkspace, owners, served>>

BootstrapNext ==
  \E q \in SignIns :
    \/ Callback(q) \/ CountUsers(q) \/ FindUser(q) \/ WriteUser(q)
    \/ CreateWorkspace(q) \/ AddOwner(q) \/ StartSession(q) \/ SignInFails(q)

BootstrapSpec == BootstrapInit /\ [][BootstrapNext]_bootstrapVars

-----------------------------------------------------------------------------

\* "First user becomes owner": however the first sign-ins interleave, once none is
\* under way and nothing has failed, a community edition with users has the
\* workspace and its owner.
FirstUserOwns ==
  signInFaults = 0 /\ accounts # {} /\ (\A q \in SignIns : VisitAt(q, "idle")) =>
    myWorkspace /\ owners # {}

\* The bootstrap is done once: at most one person becomes the owner this way, and
\* anybody it refused has an account to sign in with again.
BootstrapOnce ==
  /\ Cardinality(owners) <= 1
  /\ owners \cup served \subseteq accounts

\* The first user becomes the owner, and nobody else does by signing in.
BootstrapHolds == FirstUserOwns /\ BootstrapOnce

=============================================================================
