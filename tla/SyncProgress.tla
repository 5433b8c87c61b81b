---------------------------- MODULE SyncProgress ----------------------------
(***************************************************************************)
(* "Re-sync" on the page of integrations, and what the card of one         *)
(* integration shows of it: the requests that queue a backfill for each    *)
(* enabled repository, the backfills on their queue, the API's report on   *)
(* them (sync-status), and the polls of the page, which go on as long as   *)
(* the card is expanded or a re-sync is taken to be in progress.           *)
(***************************************************************************)
EXTENDS Naturals, FiniteSets

CONSTANTS
  Tracked,       \* repositories of the integration
  StatusSlots,   \* requests for the report that a page has under way at a time
  MaxTasks,      \* bound: backfills queued
  MaxTaskTries,  \* attempts of a backfill
  MaxClicks,     \* bound: what the user does on the page
  MaxLost        \* bound: requests refused or without an answer

ASSUME SyncProgressAssumption ==
  /\ MaxTasks \in Nat /\ MaxTaskTries \in Nat \ {0}
  /\ MaxClicks \in Nat /\ MaxLost \in Nat

Tasks == 1 .. MaxTasks
NoTracked == "no repository"

VARIABLES
  tracked,    \* each repository: whether it is enabled, and how often it was synced
  task,       \* the backfills
  expanded,   \* the card shows its repositories
  resyncing,  \* resyncingIds has the integration
  posting,    \* repositories whose backfill the page has asked for without an answer
  status,     \* requests for the report
  report,     \* what the card has of each repository
  clicks, lost

syncProgressVars == <<tracked, task, expanded, resyncing, posting, status, report, clicks, lost>>
cardVars == <<expanded, resyncing, posting, clicks>>

NotAsking == [step |-> "idle", forAll |-> FALSE, rows |-> [r \in Tracked |-> 0], busy |-> {}]

SyncProgressTypeOK ==
  /\ tracked \in [Tracked -> [enabled : BOOLEAN, synced : 0 .. MaxTasks]]
  /\ task \in [Tasks -> [repo : Tracked \cup {NoTracked}, tries : 0 .. MaxTaskTries,
                         state : {"none", "queued", "active", "delayed", "failed", "removed"}]]
  /\ expanded \in BOOLEAN /\ resyncing \in BOOLEAN /\ posting \in SUBSET Tracked
  /\ \A s \in StatusSlots : /\ status[s].step \in {"idle", "rows", "jobs", "answered"}
                            /\ status[s].busy \subseteq Tracked
  /\ report \in [Tracked -> [known : BOOLEAN, synced : 0 .. MaxTasks, busy : BOOLEAN]]
  /\ clicks \in 0 .. MaxClicks /\ lost \in 0 .. MaxLost

SyncProgressInit ==
  /\ tracked = [r \in Tracked |-> [enabled |-> TRUE, synced |-> 0]]
  /\ task = [t \in Tasks |-> [repo |-> NoTracked, state |-> "none", tries |-> 0]]
  /\ expanded = FALSE /\ resyncing = FALSE /\ posting = {}
  /\ status = [s \in StatusSlots |-> NotAsking]
  /\ report = [r \in Tracked |-> [known |-> FALSE, synced |-> 0, busy |-> FALSE]]
  /\ clicks = 0 /\ lost = 0

Click == clicks < MaxClicks /\ clicks' = clicks + 1
Lose == lost < MaxLost /\ lost' = lost + 1

-----------------------------------------------------------------------------
\* The user.

\* handleResync: one request for each enabled repository.  The button waits for the
\* re-sync before.
Resync ==
  /\ Click
  /\ ~resyncing /\ posting = {}
  /\ posting' = {r \in Tracked : tracked[r].enabled} /\ posting' # {}
  /\ resyncing' = TRUE /\ expanded' = TRUE
  /\ UNCHANGED <<tracked, task, status, report, lost>>

ToggleExpand ==
  /\ Click
  /\ expanded' = ~expanded
  /\ UNCHANGED <<tracked, task, resyncing, posting, status, report, lost>>

\* handleRepoToggle
ToggleTracked(r) ==
  /\ Click
  /\ expanded
  /\ tracked' = [tracked EXCEPT ![r].enabled = ~@]
  /\ UNCHANGED <<task, expanded, resyncing, posting, status, report, lost>>

-----------------------------------------------------------------------------
\* The API and the queue.

\* POST /repositories/:id/sync, which does not ask whether the repository is enabled.
EnqueueSync(r) ==
  /\ r \in posting
  /\ posting' = posting \ {r}
  /\ \E t \in Tasks :
       /\ task[t].state = "none" /\ \A u \in 1 .. t - 1 : task[u].state # "none"
       /\ task' = [task EXCEPT ![t] = [repo |-> r, state |-> "queued", tries |-> 0]]
  /\ UNCHANGED <<tracked, expanded, resyncing, status, report, clicks, lost>>

\* One refused request ends the re-sync for the page, whatever the others did.
PostRefused(r) ==
  /\ r \in posting
  /\ Lose
  /\ posting' = posting \ {r}
  /\ resyncing' = FALSE
  /\ UNCHANGED <<tracked, task, expanded, status, report, clicks>>

\* One worker.  A disabled repository is done with at once; a backfill that has
\* succeeded is removed from the queue.
TakeTask(t) ==
  /\ task[t].state = "queued" /\ \A u \in Tasks : task[u].state # "active"
  /\ task' = [task EXCEPT ![t].state = IF tracked[task[t].repo].enabled THEN "active" ELSE "removed"]
  /\ UNCHANGED <<tracked, cardVars, status, report, lost>>

FinishTask(t) ==
  /\ task[t].state = "active"
  /\ task' = [task EXCEPT ![t].state = "removed"]
  /\ tracked' = [tracked EXCEPT ![task[t].repo].synced = @ + 1]
  /\ UNCHANGED <<cardVars, status, report, lost>>

\* Mutant: a backfill gets one attempt more than the queue is configured for.
TaskFails_OneMore(t) ==
  /\ task[t].state = "active"
  /\ task' = [task EXCEPT ![t].tries = @ + 1,
                          ![t].state = IF task[t].tries = MaxTaskTries THEN "failed" ELSE "delayed"]
  /\ UNCHANGED <<tracked, cardVars, status, report, lost>>

TaskFails(t) ==
  /\ task[t].state = "active"
  /\ task' = [task EXCEPT ![t].tries = @ + 1,
                          ![t].state = IF task[t].tries + 1 = MaxTaskTries THEN "failed" ELSE "delayed"]
  /\ UNCHANGED <<tracked, cardVars, status, report, lost>>

RetryTask(t) ==
  /\ task[t].state = "delayed"
  /\ task' = [task EXCEPT ![t].state = "queued"]
  /\ UNCHANGED <<tracked, cardVars, status, report, lost>>

-----------------------------------------------------------------------------
\* The report and who asks for it.

\* pollSyncStatus, by the interval of the expanded card, or by that of pollAll as
\* long as resyncingIds has the integration.
StartStatus(s) ==
  /\ status[s].step = "idle"
  /\ \E forAll \in BOOLEAN :
       /\ IF forAll THEN resyncing ELSE expanded
       /\ status' = [status EXCEPT ![s] = [NotAsking EXCEPT !.step = "rows", !.forAll = forAll]]
  /\ UNCHANGED <<tracked, task, cardVars, report, lost>>

\* getWorkspaceSyncStatus reads the rows of the repositories ...
ReadRows(s) ==
  /\ status[s].step = "rows"
  /\ status' = [status EXCEPT ![s].step = "jobs", ![s].rows = [r \in Tracked |-> tracked[r].synced]]
  /\ UNCHANGED <<tracked, task, cardVars, report, lost>>

\* Mutant: jobs that failed for good are taken for pending.
Pending_Failed(t) == task[t].state \in {"active", "delayed", "failed"}

\* listPendingBackfillJobs.  A job with a priority waits as "prioritized", which the
\* listing does not ask for; and the list of completed jobs, the only ones that could
\* count for being recent, is empty since the queue removes them.
Pending(t) == task[t].state \in {"active", "delayed"}

\* ... and then the jobs.
ReadJobs(s) ==
  /\ status[s].step = "jobs"
  /\ status' = [status EXCEPT ![s].step = "answered",
                              ![s].busy = {task[t].repo : t \in {u \in Tasks : Pending(u)}}]
  /\ UNCHANGED <<tracked, task, cardVars, report, lost>>

\* isIntegrationSyncing, with the resyncingIds of the render that made the poll.
IsSyncing(flagged, busy) == flagged \/ busy # {}

\* setSyncStatusByIntegration; pollAll drops the flag of an integration that is no
\* longer syncing.
ShowStatus(s) ==
  /\ status[s].step = "answered"
  /\ report' = [r \in Tracked |-> [known |-> TRUE, synced |-> status[s].rows[r],
                                   busy |-> r \in status[s].busy]]
  /\ resyncing' = (resyncing /\ ~(status[s].forAll /\ ~IsSyncing(TRUE, status[s].busy)))
  /\ status' = [status EXCEPT ![s] = NotAsking]
  /\ UNCHANGED <<tracked, task, expanded, posting, clicks, lost>>

StatusLost(s) ==
  /\ status[s].step # "idle"
  /\ Lose
  /\ status' = [status EXCEPT ![s] = NotAsking]
  /\ UNCHANGED <<tracked, task, cardVars, report>>

StatusStep == \E s \in StatusSlots : StartStatus(s) \/ ReadRows(s) \/ ReadJobs(s) \/ ShowStatus(s)
TaskStep ==
  \/ \E r \in Tracked : EnqueueSync(r)
  \/ \E t \in Tasks : TakeTask(t) \/ FinishTask(t) \/ TaskFails(t) \/ RetryTask(t)

SyncProgressNext ==
  \/ StatusStep \/ TaskStep
  \/ Resync \/ ToggleExpand
  \/ \E r \in Tracked : ToggleTracked(r) \/ PostRefused(r)
  \/ \E s \in StatusSlots : StatusLost(s)

SyncProgressFairness ==
  WF_syncProgressVars(StatusStep) /\ WF_syncProgressVars(TaskStep)

SyncProgressSpec == SyncProgressInit /\ [][SyncProgressNext]_syncProgressVars /\ SyncProgressFairness

-----------------------------------------------------------------------------

\* A card that stays expanded ends with the truth: when its repositories were last
\* synced, and that no backfill is in progress any more, however the polls overtook
\* each other and the backfills ended.
StatusSettles ==
  <>[](expanded => \A r \in Tracked :
         report[r] = [known |-> TRUE, synced |-> tracked[r].synced, busy |-> FALSE])

\* pipewatch-development-roadmap.md: "re-sync with progress from `sync-status`".  A
\* re-sync that is shown as in progress is not shown so for ever.
ResyncEnds == resyncing ~> ~resyncing

=============================================================================
