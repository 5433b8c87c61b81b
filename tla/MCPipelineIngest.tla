-------------------------- MODULE MCPipelineIngest --------------------------
(***************************************************************************)
(* Instances of PipelineIngest for TLC: one run with one workflow job, and *)
(* an environment budget per question.                                     *)
(***************************************************************************)
EXTENDS PipelineIngest, TLC

CONSTANTS r1, k1, w1, w2

MCRunOf == [k \in {k1} |-> r1]

NoFault == [k \in EnvEvents |-> 0]

\* A failing call, a crash and a lost lock, and an administrator who disables or
\* deletes the repository, or a run that retention purges.
FaultyBudget ==
  "error" :> 1 @@ "crash" :> 1 @@ "stall" :> 1 @@ "admin" :> 1 @@ NoFault

\* A lost and a repeated delivery with a failing call and a crash.
RepeatBudget ==
  "loss" :> 1 @@ "redelivery" :> 1 @@ "error" :> 1 @@ "crash" :> 1 @@ NoFault
=============================================================================
