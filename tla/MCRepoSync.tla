----------------------------- MODULE MCRepoSync -----------------------------
(***************************************************************************)
(* Instances of RepoSync for TLC: pages of two runs, and an environment    *)
(* budget.  Polls are checked by MCConvergence.                            *)
(***************************************************************************)
EXTENDS RepoSync, TLC

CONSTANTS b1, w1, w2

NoFault == [k \in EnvEvents |-> 0]

\* A crash, a lost lock, a refused call, an administrator's action and a webhook: a
\* job that is resumed, run twice at once, or stalls too often, of a repository that
\* may go away.
ResumeBudget ==
  "crash" :> 1 @@ "stall" :> 1 @@ "error" :> 1 @@ "admin" :> 1 @@ "webhook" :> 1
    @@ NoFault

\* Bound: only the first of GitHub's runs goes on, and a webhook comes where no call
\* was refused.
FewChanges ==
  /\ \A n \in AllRuns \ {1} : ver[n] <= 1
  /\ left["webhook"] + left["error"] >= 1

WorkerSymmetry == Permutations({w1, w2})
=============================================================================
