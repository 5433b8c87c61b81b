---------------------------- MODULE MCConvergence ----------------------------
(***************************************************************************)
(* The two ways by which GitHub's runs reach the database, each by itself: *)
(* ordered deliveries to one worker, which compares no versions, and polls *)
(* beside a backfill and a webhook.                                        *)
(*                                                                         *)
(* They share no variable; "focus" says which of them a behaviour is       *)
(* about, and the other keeps its initial state.                           *)
(***************************************************************************)
EXTENDS PipelineIngest, TLC

CONSTANTS
  r1, k1, w1, p1, b1, NoJob,
  SyncVersions, SyncAttempts, FirstDay, LastDay

VARIABLES
  focus,
  today, nRuns, born, ver,
  syncRepo, synced, syncRow,
  bstate, tries, halts, holder, runsPage,
  step, job, page, since, seen, full,
  owed, finished, webhooks

MCRunOf == [k \in {k1} |-> r1]
NoFault == [k \in EnvEvents |-> 0]

\* One repository with up to two runs on pages of one, and a webhook.
Sync == INSTANCE RepoSync WITH
  Jobs <- {b1}, BackfillWorkers <- {w1}, PollWorkers <- {p1},
  PageSize <- 1, Retention <- 1, MaxRuns <- 2, MaxVersion <- SyncVersions,
  MaxAttempts <- SyncAttempts,
  Budget <- [k \in {"error", "crash", "stall", "admin", "webhook"} |-> IF k = "webhook" THEN 1 ELSE 0],
  repo <- syncRepo, row <- syncRow,
  jstate <- bstate, attempts <- tries, stalls <- halts, lock <- holder,
  pc <- step, left <- webhooks

syncVars ==
  <<today, nRuns, born, ver, syncRepo, synced, syncRow, bstate, tries, halts, holder, runsPage,
    step, job, page, since, seen, full, owed, finished, webhooks>>

convergenceVars == <<focus, vars, syncVars>>

ConvergenceInit ==
  /\ focus \in {"deliveries", "polls"}
  /\ Init /\ Sync!Init
  \* one initial state of the synchronisation that a behaviour is not about
  /\ focus = "polls" \/ (nRuns = 0 /\ \A n \in DOMAIN born : born[n] = FirstDay)

Only(subject, Step, others) == focus = subject /\ Step /\ UNCHANGED <<focus, others>>

ConvergenceNext ==
  \/ Only("deliveries", Next, syncVars)
  \/ Only("polls", Sync!Next, vars)

\* The fairness of each, asked of the behaviours that are about it; nothing of
\* the ingestion is enabled in the others.
ConvergenceFairness ==
  /\ Fairness
  /\ WF_syncVars(focus = "polls" /\ Sync!Queue(b1))
  /\ WF_syncVars(focus = "polls" /\ Sync!Take(w1))
  /\ WF_syncVars(focus = "polls" /\ Sync!PollStart(p1))
  /\ \A h \in {w1, p1} : WF_syncVars(focus = "polls" /\ Sync!Handle(h))

ConvergenceSpec == ConvergenceInit /\ [][ConvergenceNext]_convergenceVars /\ ConvergenceFairness

-----------------------------------------------------------------------------

\* Polls bring the rows of their window to GitHub's last versions (RepoSync).
PollsConverge == focus = "polls" => Sync!PollsConverge

\* Every backfill ends (RepoSync).
BackfillEnds == Sync!BackfillEnds

=============================================================================
