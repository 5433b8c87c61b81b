----------------------------- MODULE MCAccounts ------------------------------
(***************************************************************************)
(* What stands behind an account, in one run: sessions, the first sign-in, *)
(* billing, the limit on repositories, the user's workspaces, the          *)
(* installations they connect, and how long the plan keeps the runs.       *)
(*                                                                         *)
(* They share no variable; "focus" says which of them a behaviour is       *)
(* about, and the others keep their initial state, so their state spaces   *)
(* add up instead of multiplying.                                          *)
(***************************************************************************)
EXTENDS Sessions, Bootstrap, Billing, RepoLimit, Workspaces, Discovery, Retention

VARIABLE focus

accountVars ==
  <<focus, sessionVars, bootstrapVars, billingVars, repoLimitVars, workspaceVars,
    discoveryVars, retentionVars>>

AccountsInit ==
  /\ SessionInit /\ BootstrapInit /\ BillingInit /\ RepoLimitInit /\ WorkspaceInit
  /\ DiscoveryInit /\ RetentionInit
  /\ focus \in {"sessions", "bootstrap", "billing", "repositories", "workspaces", "discovery",
                "retention"}
  \* one initial state of each component that a behaviour is not about
  /\ focus = "workspaces" \/ cloud
  /\ focus = "retention" \/ hosted
  /\ IF focus = "discovery" THEN installed # <<>> /\ installed[1] = (CHOOSE r \in Found : TRUE)
                             ELSE installed = <<>>

AccountStep(component, next, others) == focus = component /\ next /\ UNCHANGED <<focus, others>>

AccountsNext ==
  \/ AccountStep("sessions", SessionNext,
       <<bootstrapVars, billingVars, repoLimitVars, workspaceVars, discoveryVars, retentionVars>>)
  \/ AccountStep("bootstrap", BootstrapNext,
       <<sessionVars, billingVars, repoLimitVars, workspaceVars, discoveryVars, retentionVars>>)
  \/ AccountStep("billing", BillingNext,
       <<sessionVars, bootstrapVars, repoLimitVars, workspaceVars, discoveryVars, retentionVars>>)
  \/ AccountStep("repositories", RepoLimitNext,
       <<sessionVars, bootstrapVars, billingVars, workspaceVars, discoveryVars, retentionVars>>)
  \/ AccountStep("workspaces", WorkspaceNext,
       <<sessionVars, bootstrapVars, billingVars, repoLimitVars, discoveryVars, retentionVars>>)
  \/ AccountStep("discovery", DiscoveryNext,
       <<sessionVars, bootstrapVars, billingVars, repoLimitVars, workspaceVars, retentionVars>>)
  \/ AccountStep("retention", RetentionNext,
       <<sessionVars, bootstrapVars, billingVars, repoLimitVars, workspaceVars, discoveryVars>>)

AccountsSpec == AccountsInit /\ [][AccountsNext]_accountVars

-----------------------------------------------------------------------------

\* Every variable keeps its type; those of a component a behaviour is not about
\* keep their value.
AccountsTypeOK ==
  /\ focus = "sessions" => SessionTypeOK
  /\ focus = "bootstrap" => BootstrapTypeOK
  /\ focus = "billing" => BillingTypeOK
  /\ focus = "repositories" => RepoLimitTypeOK
  /\ focus = "workspaces" => WorkspaceTypeOK
  /\ focus = "discovery" => DiscoveryTypeOK
  /\ focus = "retention" => RetentionTypeOK

\* Overlapping requests exceed the plan's repositories and workspaces by no more
\* than what overlaps.
PlanLimitsHold == ReposWithinPlan /\ OwnedWithinPlan

=============================================================================
