------------------------------ MODULE RepoSync ------------------------------
(***************************************************************************)
(* How one repository gets its workflow runs from GitHub's REST API: the   *)
(* "backfill-repo" jobs that read the history page by page, the "poll-repo"*)
(* jobs that read the first page again and again, and the webhooks that    *)
(* store runs beside them.                                                 *)
(*                                                                         *)
(* GitHub lists runs from the newest to the oldest, and only those created *)
(* on or after a day.  A new run moves all others towards later pages.     *)
(* A handler asks for a page, upserts the runs of the answer one by one,   *)
(* and meanwhile GitHub, webhooks and other handlers go on; a backfill     *)
(* keeps the page to continue with in the data of its job.                 *)
(*                                                                         *)
(* A run is its number in the order of creation, a stored run the version  *)
(* that was upserted.  Runs are not deleted, neither on GitHub nor here.   *)
(***************************************************************************)
EXTENDS Integers, FiniteSets

CONSTANTS
  Jobs,             \* backfill-repo jobs of the repository
  BackfillWorkers,  \* handler slots of the backfill queue, one per process
  PollWorkers,      \* handler slots of the polling queue
  NoJob,            \* a polling slot has no such job
  NoWorker,
  PageSize,         \* RUNS_PER_PAGE
  Retention,        \* effective retention, in days
  FirstDay,         \* the day on which everything starts
  LastDay,          \* bound: the last day
  MaxRuns,          \* bound: runs on GitHub
  MaxVersion,       \* bound: versions of a run
  MaxAttempts,      \* QUEUE_RETRY_CONFIG.backfill.attempts
  MaxStalled,       \* BullMQ's default maxStalledCount
  Budget            \* bound: how often each environment event may happen

Handlers == BackfillWorkers \cup PollWorkers
AllRuns == 1..MaxRuns
Days == Int
EnvEvents == {"error", "crash", "stall", "admin", "webhook"}

ASSUME SyncAssumption ==
  /\ BackfillWorkers \cap PollWorkers = {} /\ NoWorker \notin Handlers
  /\ NoJob \notin Jobs
  /\ PageSize \in Nat \ {0} /\ Retention \in Nat
  /\ FirstDay \in Int /\ LastDay \in Int
  /\ MaxRuns \in Nat /\ MaxVersion \in Nat \ {0}
  /\ MaxAttempts \in Nat \ {0} /\ MaxStalled \in Nat
  /\ Budget \in [EnvEvents -> Nat]

VARIABLES
  \* GitHub
  today,
  nRuns,      \* runs created so far
  born,       \* the day each was created
  ver,        \* the version each has reached, 0 before it exists
  \* the database
  repo,       \* the repository: "enabled", "disabled" or "deleted"
  synced,     \* the day of last_synced_at; NeverSynced for null
  row,        \* the stored version, 0 without a row
  \* BullMQ's "backfill" queue
  jstate, attempts, stalls, lock,
  runsPage,   \* data.runsPage of each job, 1 when it has none
  \* the handlers
  pc, job, page, since,
  seen,       \* versions in the answer that are still to be upserted
  full,       \* the answer held a whole page
  \* observation and bounds
  owed,       \* runs that existed when the job was queued
  finished,   \* jobs that have reached the end of the history
  left        \* environment events still allowed

NeverSynced == FirstDay - Retention - 1

ghVars == <<today, nRuns, born, ver>>
dbVars == <<repo, synced, row>>
queueVars == <<jstate, attempts, stalls, lock, runsPage>>
readVars == <<page, since, seen, full>>
handlerVars == <<pc, job, readVars>>
ghostVars == <<owed, finished>>
vars == <<ghVars, dbVars, queueVars, handlerVars, ghostVars, left>>

JobStates == {"none", "waiting", "active", "delayed", "completed", "failed"}
Steps == {"idle", "load", "fetch", "store", "next", "mark", "clear", "settle"}
Versions == [AllRuns -> 0..MaxVersion]
Nothing == [n \in AllRuns |-> 0]

TypeOK ==
  /\ today \in Days /\ nRuns \in 0..MaxRuns
  /\ born \in [AllRuns -> Days] /\ ver \in Versions
  /\ repo \in {"enabled", "disabled", "deleted"}
  /\ synced \in Days /\ row \in Versions
  /\ jstate \in [Jobs -> JobStates]
  /\ attempts \in [Jobs -> Nat] /\ stalls \in [Jobs -> Nat]
  /\ lock \in [Jobs -> BackfillWorkers \cup {NoWorker}]
  /\ runsPage \in [Jobs -> Nat \ {0}]
  /\ pc \in [Handlers -> Steps]
  /\ job \in [Handlers -> Jobs \cup {NoJob}]
  /\ page \in [Handlers -> Nat \ {0}]
  /\ since \in [Handlers -> Days]
  /\ seen \in [Handlers -> Versions]
  /\ full \in [Handlers -> BOOLEAN]
  /\ owed \in [Jobs -> SUBSET AllRuns]
  /\ finished \in SUBSET Jobs
  /\ left \in [EnvEvents -> Nat]

\* A repository with a history.
Init ==
  /\ today = FirstDay
  /\ nRuns \in 0..MaxRuns
  /\ born \in [AllRuns -> (FirstDay - Retention - 1)..FirstDay]
  /\ \A m, n \in AllRuns : m < n => born[m] <= born[n]
  /\ \A n \in AllRuns : n > nRuns => born[n] = FirstDay
  /\ ver = [n \in AllRuns |-> IF n <= nRuns THEN 1 ELSE 0]
  /\ repo = "enabled" /\ synced = NeverSynced /\ row = Nothing
  /\ jstate = [b \in Jobs |-> "none"]
  /\ attempts = [b \in Jobs |-> 0] /\ stalls = [b \in Jobs |-> 0]
  /\ lock = [b \in Jobs |-> NoWorker]
  /\ runsPage = [b \in Jobs |-> 1]
  /\ pc = [h \in Handlers |-> "idle"] /\ job = [h \in Handlers |-> NoJob]
  /\ page = [h \in Handlers |-> 1] /\ since = [h \in Handlers |-> FirstDay]
  /\ seen = [h \in Handlers |-> Nothing] /\ full = [h \in Handlers |-> FALSE]
  /\ owed = [b \in Jobs |-> {}] /\ finished = {}
  /\ left = Budget

Spend(k) ==
  /\ left[k] > 0
  /\ left' = [left EXCEPT ![k] = @ - 1]

-----------------------------------------------------------------------------
(* GitHub, webhooks and administrators.                                     *)

NewRun ==
  /\ nRuns < MaxRuns
  /\ nRuns' = nRuns + 1
  /\ born' = [n \in AllRuns |-> IF n > nRuns THEN today ELSE born[n]]
  /\ ver' = [ver EXCEPT ![nRuns + 1] = 1]
  /\ UNCHANGED <<today, dbVars, queueVars, handlerVars, ghostVars, left>>

RunAdvances(n) ==
  /\ ver[n] \in 1..(MaxVersion - 1)
  /\ ver' = [ver EXCEPT ![n] = @ + 1]
  /\ UNCHANGED <<today, nRuns, born, dbVars, queueVars, handlerVars, ghostVars, left>>

Midnight ==
  /\ today < LastDay
  /\ today' = today + 1
  /\ UNCHANGED <<nRuns, born, ver, dbVars, queueVars, handlerVars, ghostVars, left>>

\* processPipelineRun stores what GitHub sent, now or earlier (see PipelineIngest).
Webhook(n) ==
  /\ Spend("webhook")
  /\ repo = "enabled"
  /\ \E v \in 1..ver[n] : row' = [row EXCEPT ![n] = v]
  /\ UNCHANGED <<ghVars, repo, synced, queueVars, handlerVars, ghostVars>>

SetEnabled(s) ==
  /\ Spend("admin")
  /\ repo \notin {s, "deleted"}
  /\ repo' = s
  /\ UNCHANGED <<ghVars, synced, row, queueVars, handlerVars, ghostVars>>

\* The foreign keys cascade to the runs.
DeleteRepository ==
  /\ Spend("admin")
  /\ repo # "deleted"
  /\ repo' = "deleted"
  /\ row' = Nothing
  /\ UNCHANGED <<ghVars, synced, queueVars, handlerVars, ghostVars>>

-----------------------------------------------------------------------------
(* BullMQ's queue "backfill", as the worker uses it; see PipelineIngest.    *)

\* enqueueBackfillRepo.
Enqueue(b) ==
  /\ jstate[b] = "none" /\ repo # "deleted"
  /\ jstate' = [jstate EXCEPT ![b] = "waiting"]
  /\ owed' = [owed EXCEPT ![b] = 1..nRuns]
  /\ UNCHANGED <<ghVars, dbVars, attempts, stalls, lock, runsPage, handlerVars, finished, left>>

Goto(h, step) == pc' = [pc EXCEPT ![h] = step]

TakeJob(h, b) ==
  /\ pc[h] = "idle" /\ jstate[b] = "waiting" /\ stalls[b] <= MaxStalled
  /\ jstate' = [jstate EXCEPT ![b] = "active"]
  /\ lock' = [lock EXCEPT ![b] = h]
  /\ job' = [job EXCEPT ![h] = b]
  /\ Goto(h, "load")
  /\ UNCHANGED <<ghVars, dbVars, attempts, stalls, runsPage, readVars, ghostVars, left>>

\* A job that stalled too often fails when it is taken.
FailStalledJob(b) ==
  /\ jstate[b] = "waiting" /\ stalls[b] > MaxStalled
  /\ \E h \in BackfillWorkers : pc[h] = "idle"
  /\ jstate' = [jstate EXCEPT ![b] = "failed"]
  /\ attempts' = [attempts EXCEPT ![b] = @ + 1]
  /\ UNCHANGED <<ghVars, dbVars, stalls, lock, runsPage, handlerVars, ghostVars, left>>

Promote(b) ==
  /\ jstate[b] = "delayed"
  /\ jstate' = [jstate EXCEPT ![b] = "waiting"]
  /\ UNCHANGED <<ghVars, dbVars, attempts, stalls, lock, runsPage, handlerVars, ghostVars, left>>

Recover(b) ==
  /\ jstate' = [jstate EXCEPT ![b] = "waiting"]
  /\ stalls' = [stalls EXCEPT ![b] = @ + 1]
  /\ lock' = [lock EXCEPT ![b] = NoWorker]
  /\ UNCHANGED <<ghVars, dbVars, attempts, runsPage, handlerVars, ghostVars>>

Abandoned(b) == jstate[b] = "active" /\ \A h \in BackfillWorkers : lock[b] = h => job[h] # b

RecoverAbandoned(b) == Abandoned(b) /\ Recover(b) /\ UNCHANGED left

\* Its worker lives but did not renew the lock in time, and goes on.
RecoverHeldUp(b) ==
  /\ jstate[b] = "active" /\ ~Abandoned(b)
  /\ Spend("stall")
  /\ Recover(b)

-----------------------------------------------------------------------------
(* The end of a handler.                                                    *)

\* The variables of the handler are gone.
Leave(h) ==
  /\ Goto(h, "idle")
  /\ job' = [job EXCEPT ![h] = NoJob]
  /\ page' = [page EXCEPT ![h] = 1]
  /\ since' = [since EXCEPT ![h] = FirstDay]
  /\ seen' = [seen EXCEPT ![h] = Nothing]
  /\ full' = [full EXCEPT ![h] = FALSE]

Owns(h) == h \in BackfillWorkers /\ lock[job[h]] = h

\* A backfill is tried again after a delay, until its attempts are used up.  A
\* poll is simply followed by the next one.  A handler without the lock can
\* report nothing.
Throws(h) ==
  LET b == job[h] IN
  /\ Leave(h)
  /\ \/ /\ Owns(h)
        /\ attempts' = [attempts EXCEPT ![b] = @ + 1]
        /\ jstate' = [jstate EXCEPT ![b] =
                        IF attempts[b] + 1 >= MaxAttempts THEN "failed" ELSE "delayed"]
        /\ lock' = [lock EXCEPT ![b] = NoWorker]
     \/ ~Owns(h) /\ UNCHANGED <<attempts, jstate, lock>>
  /\ UNCHANGED <<stalls, runsPage>>

Returns(h) ==
  LET b == job[h] IN
  /\ Leave(h)
  /\ \/ /\ Owns(h)
        /\ jstate' = [jstate EXCEPT ![b] = "completed"]
        /\ lock' = [lock EXCEPT ![b] = NoWorker]
     \/ ~Owns(h) /\ UNCHANGED <<jstate, lock>>
  /\ UNCHANGED <<attempts, stalls, runsPage>>

\* Postgres, Redis or GitHub refuses a call, or the process dies.
CallFails(h) ==
  /\ pc[h] \notin {"idle", "settle"}
  /\ Spend("error")
  /\ Throws(h)
  /\ UNCHANGED <<ghVars, dbVars, ghostVars>>

Crash(h) ==
  /\ pc[h] # "idle"
  /\ Spend("crash")
  /\ Leave(h)
  /\ UNCHANGED <<ghVars, dbVars, queueVars, ghostVars>>

-----------------------------------------------------------------------------
(* The handlers: backfillRepo and pollRepo.                                 *)

\* The scheduler's next poll.
PollStart(h) ==
  /\ pc[h] = "idle"
  /\ Goto(h, "load")
  /\ UNCHANGED <<ghVars, dbVars, queueVars, job, readVars, ghostVars, left>>

Cutoff == today - Retention

\* resolvePollCreatedSince.
PollSince == IF synced > Cutoff THEN synced ELSE Cutoff

\* Mutant: a poll asks for runs created after the last one, not on or after.
CreatedSince_After(h) == IF h \in PollWorkers THEN PollSince + 1 ELSE Cutoff

CreatedSince(h) == IF h \in PollWorkers THEN PollSince ELSE Cutoff

\* The handler reads the repository, once: deleted, disabled, or to be synced.
Load(h) ==
  /\ pc[h] = "load"
  /\ \/ repo = "deleted" /\ Throws(h)
     \/ repo = "disabled" /\ Returns(h)
     \/ /\ repo = "enabled"
        /\ page' = [page EXCEPT ![h] = IF h \in PollWorkers THEN 1 ELSE runsPage[job[h]]]
        /\ since' = [since EXCEPT ![h] = CreatedSince(h)]
        /\ Goto(h, "fetch")
        /\ UNCHANGED <<queueVars, job, seen, full>>
  /\ UNCHANGED <<ghVars, dbVars, ghostVars, left>>

\* Position on GitHub's list, newest first, from 0.
OnPage(n, p) == nRuns - n \in ((p - 1) * PageSize)..(p * PageSize - 1)

Answer(p, day) == {n \in 1..nRuns : born[n] >= day /\ OnPage(n, p)}

Reads(h, ans) ==
  /\ seen' = [seen EXCEPT ![h] = [n \in AllRuns |-> IF n \in ans THEN ver[n] ELSE 0]]
  /\ full' = [full EXCEPT ![h] = Cardinality(ans) = PageSize]
  /\ UNCHANGED <<job, page, since>>

\* Mutant: the page to continue with is saved before this one is stored.
Fetch_SavesPage(h) ==
  LET ans == Answer(page[h], since[h]) IN
  /\ pc[h] = "fetch"
  /\ \/ ans # {} /\ Goto(h, "store") /\ Reads(h, ans)
        /\ runsPage' = [b \in Jobs |-> IF b = job[h] THEN page[h] + 1 ELSE runsPage[b]]
        /\ UNCHANGED <<jstate, attempts, stalls, lock>>
     \/ ans = {} /\ h \in PollWorkers /\ Returns(h)
     \/ ans = {} /\ h \in BackfillWorkers /\ Goto(h, "mark") /\ Reads(h, ans)
        /\ UNCHANGED queueVars
  /\ UNCHANGED <<ghVars, dbVars, ghostVars, left>>

\* fetchWorkflowRunsPage.  An empty page ends a backfill; a poll then leaves
\* last_synced_at alone.
Fetch(h) ==
  LET ans == Answer(page[h], since[h]) IN
  /\ pc[h] = "fetch"
  /\ \/ ans # {} /\ Goto(h, "store") /\ Reads(h, ans) /\ UNCHANGED queueVars
     \/ ans = {} /\ h \in PollWorkers /\ Returns(h)
     \/ ans = {} /\ h \in BackfillWorkers /\ Goto(h, "mark") /\ Reads(h, ans)
        /\ UNCHANGED queueVars
  /\ UNCHANGED <<ghVars, dbVars, ghostVars, left>>

Unstored(h) == {n \in AllRuns : seen[h][n] > 0}

\* ingestWorkflowRuns upserts the runs of the answer in its order.  The foreign
\* key rejects a run of a deleted repository.
Store(h) ==
  /\ pc[h] = "store"
  /\ \/ repo = "deleted" /\ Throws(h) /\ UNCHANGED row
     \/ /\ repo # "deleted"
        /\ \E n \in Unstored(h) :
             /\ \A m \in Unstored(h) : m <= n
             /\ row' = [row EXCEPT ![n] = seen[h][n]]
             /\ seen' = [seen EXCEPT ![h][n] = 0]
             /\ Goto(h, IF Unstored(h) # {n} THEN "store"
                        ELSE IF full[h] /\ h \in BackfillWorkers THEN "next" ELSE "mark")
        /\ UNCHANGED <<queueVars, job, page, since, full>>
  /\ UNCHANGED <<ghVars, repo, synced, ghostVars, left>>

\* job.updateData fails when the job is gone: completed jobs are removed.
JobGone(h) == jstate[job[h]] = "completed"

\* Mutant: the handler asks for the same page again.
NextPage_Stays(h) ==
  /\ pc[h] = "next"
  /\ \/ JobGone(h) /\ Throws(h)
     \/ /\ ~JobGone(h)
        /\ runsPage' = [runsPage EXCEPT ![job[h]] = page[h]]
        /\ Goto(h, "fetch")
        /\ UNCHANGED <<page, jstate, attempts, stalls, lock, job, since, seen, full>>
  /\ UNCHANGED <<ghVars, dbVars, ghostVars, left>>

\* The page is stored: the job remembers to continue with the next one.
NextPage(h) ==
  /\ pc[h] = "next"
  /\ \/ JobGone(h) /\ Throws(h)
     \/ /\ ~JobGone(h)
        /\ page' = [page EXCEPT ![h] = @ + 1]
        /\ runsPage' = [runsPage EXCEPT ![job[h]] = page[h] + 1]
        /\ Goto(h, "fetch")
        /\ UNCHANGED <<jstate, attempts, stalls, lock, job, since, seen, full>>
  /\ UNCHANGED <<ghVars, dbVars, ghostVars, left>>

\* markRepositorySynced.
Mark(h) ==
  /\ pc[h] = "mark"
  /\ synced' = IF repo = "deleted" THEN synced ELSE today
  /\ \/ h \in PollWorkers /\ Returns(h) /\ UNCHANGED finished
     \/ /\ h \in BackfillWorkers
        /\ finished' = finished \cup {job[h]}
        /\ Goto(h, "clear")
        /\ UNCHANGED <<queueVars, job, readVars>>
  /\ UNCHANGED <<ghVars, repo, row, owed, left>>

\* The page is taken out of the job's data.
Clear(h) ==
  /\ pc[h] = "clear"
  /\ \/ JobGone(h) /\ Throws(h)
     \/ /\ ~JobGone(h)
        /\ runsPage' = [runsPage EXCEPT ![job[h]] = 1]
        /\ Goto(h, "settle")
        /\ UNCHANGED <<jstate, attempts, stalls, lock, job, readVars>>
  /\ UNCHANGED <<ghVars, dbVars, ghostVars, left>>

Settle(h) ==
  /\ pc[h] = "settle"
  /\ Returns(h)
  /\ UNCHANGED <<ghVars, dbVars, ghostVars, left>>

-----------------------------------------------------------------------------

Environment ==
  \/ NewRun \/ Midnight \/ DeleteRepository
  \/ \E n \in AllRuns : RunAdvances(n) \/ Webhook(n)
  \/ \E s \in {"enabled", "disabled"} : SetEnabled(s)
  \/ \E b \in Jobs : Enqueue(b) \/ RecoverHeldUp(b)
  \/ \E h \in Handlers : CallFails(h) \/ Crash(h)

Handle(h) ==
  Load(h) \/ Fetch(h) \/ Store(h) \/ NextPage(h) \/ Mark(h) \/ Clear(h) \/ Settle(h)

Queue(b) == FailStalledJob(b) \/ Promote(b) \/ RecoverAbandoned(b)

Take(h) == \E b \in Jobs : TakeJob(h, b)

Next ==
  \/ Environment
  \/ \E b \in Jobs : Queue(b)
  \/ \E h \in BackfillWorkers : Take(h)
  \/ \E h \in PollWorkers : PollStart(h)
  \/ \E h \in Handlers : Handle(h)

Spec == Init /\ [][Next]_vars

\* Workers run, BullMQ repeats the poll, ends delays and finds abandoned jobs.
Fairness ==
  /\ \A b \in Jobs : WF_vars(Queue(b))
  /\ \A h \in BackfillWorkers : WF_vars(Take(h))
  /\ \A h \in PollWorkers : WF_vars(PollStart(h))
  /\ \A h \in Handlers : WF_vars(Handle(h))

FairSpec == Spec /\ Fairness

-----------------------------------------------------------------------------

\* When a backfill has reached the end of the history, every run that existed
\* when it was queued and is still within retention is stored - although new
\* runs move the others to later pages, other handlers and webhooks store runs
\* meanwhile, and the job may have been interrupted and resumed at its page by
\* another process, with a later first day.
BackfillCoversHistory ==
  \A b \in finished :
    repo # "deleted" =>
      \A n \in owed[b] : born[n] >= Cutoff => row[n] > 0

\* While the repository stays enabled, polls bring every run on the first page
\* of their window to its last version, although an answer of GitHub may be
\* older than a webhook, or another handler's answer, that was stored before it.
PollsConverge ==
  <>[](repo = "enabled" => \A n \in Answer(1, PollSince) : row[n] = ver[n])

\* Every backfill ends, completed or failed.
BackfillEnds ==
  \A b \in Jobs : jstate[b] = "waiting" ~> jstate[b] \in {"completed", "failed"}
=============================================================================
