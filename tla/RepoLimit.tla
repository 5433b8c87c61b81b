------------------------------ MODULE RepoLimit ------------------------------
(***************************************************************************)
(* The limit on the enabled repositories of a workspace (Cloud only).       *)
(*                                                                         *)
(* A PATCH that enables a repository reads the row, the plan and the count *)
(* of the others by three statements and updates the row by a fourth; one  *)
(* that finds the row enabled checks nothing.  Discovery enables what it   *)
(* inserts without a check, and the plan changes whenever a payment does.  *)
(***************************************************************************)
EXTENDS Naturals, FiniteSets

CONSTANTS
  Repos,
  Patches,   \* PATCH requests that may be in progress at the same time
  FreeRepos, ProRepos

Plan == {"free", "pro", "business"}
NoRepo == "none"
NoPatch == [step |-> "idle", repo |-> NoRepo, enable |-> FALSE, plan |-> "free"]

\* PLAN_LIMITS: the business plan has no limit, so it admits every repository.
RepoCap == [p \in Plan |-> CASE p = "free" -> FreeRepos
                             [] p = "pro" -> ProRepos
                             [] OTHER -> Cardinality(Repos)]

ASSUME RepoLimitAssumption ==
  /\ IsFiniteSet(Repos) /\ IsFiniteSet(Patches)
  /\ FreeRepos \in Nat /\ ProRepos \in Nat

VARIABLES
  known,     \* repositories with a row
  enabled,   \* those enabled
  plan,      \* the workspace's plan
  patch,     \* PATCH requests in progress
  \* observation
  allowance, \* what plans, discoveries and earlier counts account for ...
  peak       \* ... and the most writes that were about to happen at once since

repoLimitVars == <<known, enabled, plan, patch, allowance, peak>>

\* "patch" is idle, about to read the plan, to count, or to write.
RepoLimitTypeOK ==
  /\ known \in SUBSET Repos
  /\ enabled \in SUBSET known
  /\ plan \in Plan
  /\ patch \in [Patches -> [step : {"idle", "plan", "count", "write"}, repo : Repos \cup {NoRepo},
                            enable : BOOLEAN, plan : Plan]]
  /\ allowance \in Nat /\ peak \in Nat

Larger(m, n) == IF m > n THEN m ELSE n
Smaller(m, n) == IF m < n THEN m ELSE n

\* Requests about to enable a repository, and what they will enable.
Enabling == {q \in Patches : patch[q].step = "write" /\ patch[q].enable}
Pending == {patch[q].repo : q \in Enabling}

\* More than one write at a time, each counted before the others.
Overshoot == IF peak = 0 THEN 0 ELSE peak - 1

RepoLimitInit ==
  /\ known = {} /\ enabled = {}
  /\ plan = "free"
  /\ patch = [q \in Patches |-> NoPatch]
  /\ allowance = FreeRepos
  /\ peak = 0

-----------------------------------------------------------------------------

PatchIs(q, step) == patch[q].step = step

\* What a request about to write adds to the peak.
Writing == peak' = Larger(peak, Cardinality(Enabling'))

\* Something other than a PATCH makes room for n: what is enabled while no PATCH
\* is past its checks is the new reckoning.
Reckon(n) ==
  IF Enabling = {} /\ (\A q \in Patches : patch[q].step # "count")
    THEN allowance' = Larger(n, Cardinality(enabled')) /\ peak' = 0
    ELSE /\ allowance' = Larger(Larger(allowance, n),
                Smaller(allowance + Cardinality(enabled' \ enabled), Cardinality(Repos)))
         /\ peak' = peak

\* updateWorkspaceRepository reads the row: only a row that is disabled and to be
\* enabled is checked.
ReadRow(q) ==
  /\ PatchIs(q, "idle")
  /\ \E r \in known, want \in BOOLEAN :
       patch' = [patch EXCEPT ![q] =
         [step |-> IF want /\ r \notin enabled THEN "plan" ELSE "write",
          repo |-> r, enable |-> want, plan |-> "free"]]
  /\ Writing
  /\ UNCHANGED <<known, enabled, plan, allowance>>

\* assertRepoEnableAllowed: the plan ...
ReadPlan(q) ==
  /\ PatchIs(q, "plan")
  /\ patch' = [patch EXCEPT ![q].step = "count", ![q].plan = plan]
  /\ UNCHANGED <<known, enabled, plan, allowance, peak>>

\* Mutant: the comparison lets one more pass.
CountRepos_OneMore(q) ==
  /\ PatchIs(q, "count")
  /\ patch' = [patch EXCEPT ![q] =
       IF Cardinality(enabled \ {@.repo}) > RepoCap[@.plan]
         THEN NoPatch ELSE [@ EXCEPT !.step = "write"]]
  /\ Writing
  /\ UNCHANGED <<known, enabled, plan, allowance>>

\* ... and the other enabled repositories; 403 at the limit.
CountRepos(q) ==
  /\ PatchIs(q, "count")
  /\ patch' = [patch EXCEPT ![q] =
       IF Cardinality(enabled \ {@.repo}) >= RepoCap[@.plan]
         THEN NoPatch ELSE [@ EXCEPT !.step = "write"]]
  /\ Writing
  /\ UNCHANGED <<known, enabled, plan, allowance>>

\* The update, of no row if it was deleted meanwhile.
WriteRow(q) ==
  /\ PatchIs(q, "write")
  /\ enabled' = IF patch[q].enable THEN enabled \cup (known \cap {patch[q].repo})
                ELSE enabled \ {patch[q].repo}
  /\ patch' = [patch EXCEPT ![q] = NoPatch]
  /\ UNCHANGED <<known, plan, allowance, peak>>

\* upsertDiscoveredRepository
Discover(r) ==
  /\ r \notin known
  /\ known' = known \cup {r}
  /\ enabled' = enabled \cup {r}
  /\ Reckon(RepoCap[plan])
  /\ UNCHANGED <<plan, patch>>

\* deleteWorkspaceRepository, or its integration is disconnected.
RemoveRepo(r) ==
  /\ r \in known
  /\ known' = known \ {r}
  /\ enabled' = enabled \ {r}
  /\ UNCHANGED <<plan, patch, allowance, peak>>

\* A Stripe event is applied.
PlanChanges(p) ==
  /\ p # plan
  /\ plan' = p
  /\ UNCHANGED enabled
  /\ Reckon(RepoCap[p])
  /\ UNCHANGED <<known, patch>>

RepoLimitNext ==
  \/ \E q \in Patches : ReadRow(q) \/ ReadPlan(q) \/ CountRepos(q) \/ WriteRow(q)
  \/ \E r \in Repos : Discover(r) \/ RemoveRepo(r)
  \/ \E p \in Plan : PlanChanges(p)

RepoLimitSpec == RepoLimitInit /\ [][RepoLimitNext]_repoLimitVars

-----------------------------------------------------------------------------

\* The limit holds but for what overlaps: the enabled repositories are never more
\* than the plan, or what a discovery or a downgrade found enabled, allows, plus
\* one for every write beyond the first that was about to happen at the same time.
ReposWithinPlan == Cardinality(enabled) <= allowance + Overshoot

=============================================================================
