---------------------------- MODULE MCMembership ----------------------------
(***************************************************************************)
(* Two instances of Membership for TLC, of the founder and two more        *)
(* people: requests one after the other, and requests that overlap.        *)
(*                                                                         *)
(* They share no variable; "focus" says which of them a behaviour is       *)
(* about, and the other keeps its initial state.                           *)
(***************************************************************************)
EXTENDS Membership, TLC

CONSTANTS founder, u1, u2, e1, e2, e3, q1, p1, p2

VARIABLES focus, people, mailbox, members, offers, stmt, asked, deserted

\* A plan of two seats; the requests that may overlap are p1 and p2.
Overlap == INSTANCE Membership WITH
  KeyHolders <- {}, Emails <- {e3}, Requests <- {p1, p2}, OneAtATime <- FALSE,
  AskedRoles <- {"admin"}, MaxRows <- 4, MaxInvites <- 1,
  accounts <- people, address <- mailbox, rows <- members, invites <- offers,
  pc <- stmt, ctx <- asked, abandoned <- deserted

overlapVars == <<people, mailbox, members, offers, stmt, asked, deserted>>

MembershipInit ==
  /\ focus \in {"serial", "overlap"}
  /\ Init /\ Overlap!Init

InMode(mode, Step, others) == focus = mode /\ Step /\ UNCHANGED <<focus, others>>

MembershipNext ==
  \/ InMode("serial", Next, overlapVars)
  \/ InMode("overlap", Overlap!Next, vars)

MembershipSpec == MembershipInit /\ [][MembershipNext]_<<focus, vars, overlapVars>>

Symmetry ==
  Permutations({u1, u2}) \cup Permutations({e1, e2}) \cup Permutations({p1, p2})

-----------------------------------------------------------------------------

\* Overlapping requests exceed the plan by fewer members than there are requests in
\* progress (Membership).
OverlapBounded == Overlap!OvershootBounded

=============================================================================
