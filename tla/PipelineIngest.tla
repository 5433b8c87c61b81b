--------------------------- MODULE PipelineIngest ---------------------------
(***************************************************************************)
(* The webhook path of PipeWatch for one monitored repository.             *)
(*                                                                         *)
(* GitHub moves workflow runs and workflow jobs through versions 1, 2, ... *)
(* (queued, in progress, completed, then a re-run) and posts one delivery  *)
(* per version.  The API checks that the repository is enabled and adds a  *)
(* job to the BullMQ queue "webhook-events"; worker processes take jobs,   *)
(* upsert the row, publish on the repository's SSE channel and report the  *)
(* outcome to BullMQ, which retries with a delay, recovers jobs whose lock *)
(* expired, and keeps failed jobs.  A job that used up its attempts is     *)
(* copied to the dead-letter queue by a call nobody waits for.             *)
(*                                                                         *)
(* A payload is abstracted to the entity it describes and its version: the *)
(* upserts overwrite every column, so the version stored is all that a row *)
(* remembers.  The steps of a workflow job are replaced in the transaction *)
(* that upserts the job, so its row stands for them too.                   *)
(***************************************************************************)
EXTENDS Naturals, Sequences

CONSTANTS
  Runs,         \* workflow runs, by their external id
  Jobs,         \* workflow jobs, by their external id
  RunOf,        \* the run of each workflow job
  Workers,      \* worker processes; each takes one webhook job at a time
  NoWorker,     \* "nobody holds the lock"
  MaxVersion,   \* bound: versions of an entity on GitHub
  MaxQueued,    \* bound: BullMQ jobs created in a behaviour
  MaxAttempts,  \* QUEUE_RETRY_CONFIG["webhook-events"].attempts
  MaxStalled,   \* BullMQ's default maxStalledCount
  InOrder,      \* TRUE: a delivery reaches the API before the next one is sent
  Budget        \* bound: how often each environment event may happen

Entities == Runs \cup Jobs
QueueJobs == 1..MaxQueued
Versions == 1..MaxVersion
Deliveries == [entity : Entities, version : Versions]
EnvEvents == {"loss", "redelivery", "error", "crash", "stall", "admin"}

ASSUME IngestAssumption ==
  /\ Runs # {} /\ Runs \cap Jobs = {}
  /\ RunOf \in [Jobs -> Runs]
  /\ NoWorker \notin Workers
  /\ MaxVersion \in Nat \ {0} /\ MaxQueued \in Nat \ {0}
  /\ MaxAttempts \in Nat \ {0} /\ MaxStalled \in Nat
  /\ InOrder \in BOOLEAN
  /\ Budget \in [EnvEvents -> Nat]

VARIABLES
  \* GitHub and the network
  gh,         \* the version each entity has reached, 0 before it exists
  net,        \* deliveries on their way to the API
  \* the database
  repo,       \* the repository row: "enabled", "disabled" or "deleted"
  row,        \* version held by pipeline_runs / pipeline_jobs, 0 without a row
  \* BullMQ's "webhook-events" queue, in Redis
  nextId,     \* id of the next job
  msg,        \* data of each job
  jstate,     \* where BullMQ keeps the job
  attempts,   \* attemptsMade
  stalls,     \* stalled counter
  lock,       \* the worker whose lock token the job carries
  waitq,      \* jobs ready to be taken, in order
  \* the worker processes
  pc, cur,    \* step of the handler, and the job it runs (0: none)
  held,       \* the run row read by processPipelineJob still exists
  moving,     \* jobs this process is copying to the dead-letter queue
  \* outputs
  dlq,        \* the dead-letter queue
  feed,       \* version last published on the SSE channel, 0 for nothing
  \* observation and bounds
  committed,  \* jobs whose upsert has committed at least once
  announced,  \* jobs whose publish has returned at least once
  dlqLost,    \* jobs whose copy to the dead-letter queue never happened
  left        \* environment events still allowed

dbVars     == <<repo, row>>
queueVars  == <<nextId, msg, jstate, attempts, stalls, lock, waitq>>
workerVars == <<pc, cur, held, moving>>
ghostVars  == <<committed, announced, dlqLost>>
vars == <<gh, net, dbVars, queueVars, workerVars, dlq, feed, ghostVars, left>>

JobStates == {"none", "waiting", "active", "delayed", "completed", "failed"}
Steps     == {"idle", "find", "upsert", "publish", "settle"}

TypeOK ==
  /\ gh \in [Entities -> 0..MaxVersion]
  /\ net \in SUBSET Deliveries
  /\ repo \in {"enabled", "disabled", "deleted"}
  /\ row \in [Entities -> 0..MaxVersion]
  /\ nextId \in 1..(MaxQueued + 1)
  /\ msg \in [QueueJobs -> Deliveries]
  /\ jstate \in [QueueJobs -> JobStates]
  /\ attempts \in [QueueJobs -> Nat]
  /\ stalls \in [QueueJobs -> Nat]
  /\ lock \in [QueueJobs -> Workers \cup {NoWorker}]
  /\ waitq \in Seq(QueueJobs)
  /\ pc \in [Workers -> Steps]
  /\ cur \in [Workers -> 0..MaxQueued]
  /\ held \in [Workers -> BOOLEAN]
  /\ moving \in [Workers -> SUBSET QueueJobs]
  /\ dlq \in SUBSET QueueJobs
  /\ feed \in [Entities -> 0..MaxVersion]
  /\ committed \in SUBSET QueueJobs
  /\ announced \in SUBSET QueueJobs
  /\ dlqLost \in SUBSET QueueJobs
  /\ left \in [EnvEvents -> Nat]

Init ==
  /\ gh = [e \in Entities |-> 0]
  /\ net = {}
  /\ repo = "enabled"
  /\ row = [e \in Entities |-> 0]
  /\ nextId = 1
  /\ msg = [j \in QueueJobs |-> CHOOSE d \in Deliveries : TRUE]
  /\ jstate = [j \in QueueJobs |-> "none"]
  /\ attempts = [j \in QueueJobs |-> 0]
  /\ stalls = [j \in QueueJobs |-> 0]
  /\ lock = [j \in QueueJobs |-> NoWorker]
  /\ waitq = <<>>
  /\ pc = [w \in Workers |-> "idle"]
  /\ cur = [w \in Workers |-> 0]
  /\ held = [w \in Workers |-> FALSE]
  /\ moving = [w \in Workers |-> {}]
  /\ dlq = {}
  /\ feed = [e \in Entities |-> 0]
  /\ committed = {} /\ announced = {} /\ dlqLost = {}
  /\ left = Budget

Spend(k) ==
  /\ left[k] > 0
  /\ left' = [left EXCEPT ![k] = @ - 1]

-----------------------------------------------------------------------------
(* GitHub and the network.                                                  *)

\* Deliveries overtake each other unless InOrder.
Send(d) ==
  /\ InOrder => net = {}
  /\ d \notin net
  /\ net' = net \cup {d}

\* A run or a workflow job moves on and its delivery leaves for the API; a
\* workflow job belongs to a run that exists.
GitHubEvent(e) ==
  /\ gh[e] < MaxVersion
  /\ e \in Jobs => gh[RunOf[e]] > 0
  /\ gh' = [gh EXCEPT ![e] = @ + 1]
  /\ Send([entity |-> e, version |-> gh[e] + 1])
  /\ UNCHANGED <<dbVars, queueVars, workerVars, dlq, feed, ghostVars, left>>

\* Somebody presses "Redeliver" for an old delivery.
Redeliver(e) ==
  /\ Spend("redelivery")
  /\ \E v \in 1..gh[e] : Send([entity |-> e, version |-> v])
  /\ UNCHANGED <<gh, dbVars, queueVars, workerVars, dlq, feed, ghostVars>>

\* The API answers 5xx or is down: GitHub does not send a delivery again.
LoseDelivery(d) ==
  /\ Spend("loss")
  /\ net' = net \ {d}
  /\ UNCHANGED <<gh, dbVars, queueVars, workerVars, dlq, feed, ghostVars>>

-----------------------------------------------------------------------------
(* The API: the receiver, and the changes to the repository it looks up.    *)

\* Mutant: the newest job is taken first.
Enqueue_Lifo(d) ==
  /\ nextId \in QueueJobs
  /\ nextId' = nextId + 1
  /\ msg' = [msg EXCEPT ![nextId] = d]
  /\ jstate' = [jstate EXCEPT ![nextId] = "waiting"]
  /\ waitq' = <<nextId>> \o waitq
  /\ UNCHANGED <<attempts, stalls, lock>>

\* queue.add: a new job, ready at once, with no job id that would recognise a
\* delivery seen before.
Enqueue(d) ==
  /\ nextId \in QueueJobs
  /\ nextId' = nextId + 1
  /\ msg' = [msg EXCEPT ![nextId] = d]
  /\ jstate' = [jstate EXCEPT ![nextId] = "waiting"]
  /\ waitq' = Append(waitq, nextId)
  /\ UNCHANGED <<attempts, stalls, lock>>

\* POST /webhooks/github: the delivery is enqueued when the repository is known
\* and enabled, and acknowledged and dropped otherwise.
ReceiveWebhook(d) ==
  /\ net' = net \ {d}
  /\ \/ repo = "enabled" /\ Enqueue(d)
     \/ repo # "enabled" /\ UNCHANGED queueVars
  /\ UNCHANGED <<gh, dbVars, workerVars, dlq, feed, ghostVars, left>>

\* PATCH .../repos/:id with "enabled".
SetEnabled(s) ==
  /\ Spend("admin")
  /\ repo \notin {s, "deleted"}
  /\ repo' = s
  /\ UNCHANGED <<gh, net, row, queueVars, workerVars, dlq, feed, ghostVars>>

\* The ids that rows of S had are gone for the handlers that hold one.
Forget(S) ==
  held' = [w \in Workers |-> held[w] /\ msg[cur[w]].entity \notin S]

\* DELETE .../repos/:id, or of its integration or workspace: the foreign keys
\* cascade to runs, jobs and steps.
DeleteRepository ==
  /\ Spend("admin")
  /\ repo # "deleted"
  /\ repo' = "deleted"
  /\ row' = [e \in Entities |-> 0]
  /\ Forget(Entities)
  /\ UNCHANGED <<gh, net, queueVars, pc, cur, moving, dlq, feed, ghostVars>>

\* The retention cleanup deletes a run past its cutoff, and its jobs with it.
\* The age of a run is left out: any run may be past it.
PurgeRun(r) ==
  LET gone == {r} \cup {k \in Jobs : RunOf[k] = r} IN
  /\ Spend("admin")
  /\ row[r] > 0
  /\ row' = [e \in Entities |-> IF e \in gone THEN 0 ELSE row[e]]
  /\ Forget(gone)
  /\ UNCHANGED <<gh, net, repo, queueVars, pc, cur, moving, dlq, feed, ghostVars>>

-----------------------------------------------------------------------------
(* BullMQ, as the worker uses it.                                           *)

Goto(w, step) == pc' = [pc EXCEPT ![w] = step]

\* Mutant: a job that is taken stays in the list of ready jobs.
TakeJob_Peeks(w) ==
  /\ pc[w] = "idle" /\ waitq # <<>>
  /\ LET j == Head(waitq) IN
       /\ stalls[j] <= MaxStalled
       /\ jstate' = [jstate EXCEPT ![j] = "active"]
       /\ lock' = [lock EXCEPT ![j] = w]
       /\ cur' = [cur EXCEPT ![w] = j]
       /\ held' = [held EXCEPT ![w] = FALSE]
       /\ Goto(w, IF msg[j].entity \in Jobs THEN "find" ELSE "upsert")
  /\ UNCHANGED <<gh, net, dbVars, waitq, nextId, msg, attempts, stalls, moving>>
  /\ UNCHANGED <<dlq, feed, ghostVars, left>>

\* A worker takes the first ready job and starts its handler.
TakeJob(w) ==
  /\ pc[w] = "idle" /\ waitq # <<>>
  /\ LET j == Head(waitq) IN
       /\ stalls[j] <= MaxStalled
       /\ jstate' = [jstate EXCEPT ![j] = "active"]
       /\ lock' = [lock EXCEPT ![j] = w]
       /\ cur' = [cur EXCEPT ![w] = j]
       /\ held' = [held EXCEPT ![w] = FALSE]
       /\ Goto(w, IF msg[j].entity \in Jobs THEN "find" ELSE "upsert")
  /\ waitq' = Tail(waitq)
  /\ UNCHANGED <<gh, net, dbVars, nextId, msg, attempts, stalls, moving>>
  /\ UNCHANGED <<dlq, feed, ghostVars, left>>

\* Mutant: the delays are taken for the attempts, so there is one too many.
LastAttempt_CountsRetries(made) == made > MaxAttempts

\* The attempts of QUEUE_RETRY_CONFIG count the first try.
LastAttempt(made) == made >= MaxAttempts

\* Mutant: every failed attempt is dead-lettered.
OnFailed_EveryTime(w, j, made) == moving' = [moving EXCEPT ![w] = @ \cup {j}]

\* attachPermanentFailureHandler: a failed job is copied to the dead-letter
\* queue only when its attempts are used up.
OnFailed(w, j, made) ==
  moving' = IF LastAttempt(made) THEN [moving EXCEPT ![w] = @ \cup {j}] ELSE moving

\* A job that stalled more often than BullMQ allows fails for good when it is
\* taken, whatever its attempts; its handler does not run.
FailStalledJob(w) ==
  /\ pc[w] = "idle" /\ waitq # <<>>
  /\ LET j == Head(waitq) IN
       /\ stalls[j] > MaxStalled
       /\ attempts' = [attempts EXCEPT ![j] = @ + 1]
       /\ jstate' = [jstate EXCEPT ![j] = "failed"]
       /\ OnFailed(w, j, attempts[j] + 1)
  /\ waitq' = Tail(waitq)
  /\ UNCHANGED <<gh, net, dbVars, nextId, msg, stalls, lock, pc, cur, held>>
  /\ UNCHANGED <<dlq, feed, ghostVars, left>>

\* The handler of job j threw and worker w still owns it: another attempt after
\* a delay, or the job fails for good.
FailAttempt(w, j) ==
  /\ attempts' = [attempts EXCEPT ![j] = @ + 1]
  /\ jstate' = [jstate EXCEPT ![j] =
                  IF LastAttempt(attempts[j] + 1) THEN "failed" ELSE "delayed"]
  /\ lock' = [lock EXCEPT ![j] = NoWorker]
  /\ OnFailed(w, j, attempts[j] + 1)

\* The handler is over.  A worker that lost the lock meanwhile cannot report
\* anything: BullMQ ignores it.
Leave(w) ==
  /\ Goto(w, "idle")
  /\ cur' = [cur EXCEPT ![w] = 0]
  /\ held' = [held EXCEPT ![w] = FALSE]
  /\ UNCHANGED <<nextId, msg, stalls, waitq>>

HandlerThrows(w) ==
  LET j == cur[w] IN
  /\ Leave(w)
  /\ \/ lock[j] = w /\ FailAttempt(w, j)
     \/ lock[j] # w /\ UNCHANGED <<attempts, jstate, lock, moving>>

\* The backoff of a failed attempt is over.
PromoteDelayed(j) ==
  /\ jstate[j] = "delayed"
  /\ jstate' = [jstate EXCEPT ![j] = "waiting"]
  /\ waitq' = Append(waitq, j)
  /\ UNCHANGED <<nextId, msg, attempts, stalls, lock, workerVars>>
  /\ UNCHANGED <<gh, net, dbVars, dlq, feed, ghostVars, left>>

\* The lock of an active job expired: the job is ready again, before all others.
Recover(j) ==
  /\ jstate' = [jstate EXCEPT ![j] = "waiting"]
  /\ stalls' = [stalls EXCEPT ![j] = @ + 1]
  /\ lock' = [lock EXCEPT ![j] = NoWorker]
  /\ waitq' = <<j>> \o waitq
  /\ UNCHANGED <<nextId, msg, attempts, workerVars>>
  /\ UNCHANGED <<gh, net, dbVars, dlq, feed, ghostVars>>

Abandoned(j) == jstate[j] = "active" /\ \A w \in Workers : lock[j] = w => cur[w] # j

\* Its worker died.
RecoverAbandoned(j) == Abandoned(j) /\ Recover(j) /\ UNCHANGED left

\* Its worker is alive but failed to renew the lock: the handler runs on.
RecoverHeldUp(j) ==
  /\ jstate[j] = "active" /\ ~Abandoned(j)
  /\ Spend("stall")
  /\ Recover(j)

-----------------------------------------------------------------------------
(* The handlers: processPipelineRun and processPipelineJob.                 *)

\* Mutant: a workflow job whose run is unknown is skipped instead of retried.
FindRun_SkipsUnknownRun(w) ==
  /\ pc[w] = "find"
  /\ Goto(w, IF row[RunOf[msg[cur[w]].entity]] > 0 THEN "upsert" ELSE "settle")
  /\ held' = [held EXCEPT ![w] = row[RunOf[msg[cur[w]].entity]] > 0]
  /\ UNCHANGED <<cur, moving, queueVars>>
  /\ UNCHANGED <<gh, net, dbVars, dlq, feed, ghostVars, left>>

\* processPipelineJob looks for the run of its workflow job.
FindRun(w) ==
  /\ pc[w] = "find"
  /\ \/ /\ row[RunOf[msg[cur[w]].entity]] > 0
        /\ Goto(w, "upsert")
        /\ held' = [held EXCEPT ![w] = TRUE]
        /\ UNCHANGED <<cur, moving, queueVars>>
     \/ /\ row[RunOf[msg[cur[w]].entity]] = 0
        /\ HandlerThrows(w)
  /\ UNCHANGED <<gh, net, dbVars, dlq, feed, ghostVars, left>>

\* Mutant: no foreign key from pipeline_jobs to pipeline_runs.
ParentExists_NoForeignKey(w) == repo # "deleted"

\* The row a handler refers to: the repository for a run, the run it has read
\* for a workflow job.  The foreign key rejects the upsert without it.
ParentExists(w) ==
  IF msg[cur[w]].entity \in Runs THEN repo # "deleted" ELSE held[w]

\* Mutant: an upsert keeps a stored row (ON CONFLICT DO NOTHING).
Upsert_KeepsStoredRow(w) ==
  /\ pc[w] = "upsert"
  /\ ParentExists(w)
  /\ row' = [row EXCEPT ![msg[cur[w]].entity] = IF @ = 0 THEN msg[cur[w]].version ELSE @]
  /\ committed' = committed \cup {cur[w]}
  /\ Goto(w, "publish")
  /\ UNCHANGED <<cur, held, moving, queueVars>>
  /\ UNCHANGED <<gh, net, repo, dlq, feed, announced, dlqLost, left>>

\* upsertPipelineRun, or the transaction of upsertPipelineJobAndSteps: insert or
\* overwrite, whatever version is stored.
Upsert(w) ==
  /\ pc[w] = "upsert"
  /\ \/ /\ ParentExists(w)
        /\ row' = [row EXCEPT ![msg[cur[w]].entity] = msg[cur[w]].version]
        /\ committed' = committed \cup {cur[w]}
        /\ Goto(w, "publish")
        /\ UNCHANGED <<cur, held, moving, queueVars>>
     \/ /\ ~ParentExists(w)
        /\ HandlerThrows(w)
        /\ UNCHANGED <<row, committed>>
  /\ UNCHANGED <<gh, net, repo, dlq, feed, announced, dlqLost, left>>

\* Mutant: publishing is best effort; a refused call is not reported.
Publish_BestEffort(w) ==
  /\ pc[w] = "publish"
  /\ \/ /\ feed' = [feed EXCEPT ![msg[cur[w]].entity] = msg[cur[w]].version]
        /\ UNCHANGED left
     \/ Spend("error") /\ UNCHANGED feed
  /\ announced' = announced \cup {cur[w]}
  /\ Goto(w, "settle")
  /\ UNCHANGED <<gh, net, dbVars, queueVars, cur, held, moving, dlq>>
  /\ UNCHANGED <<committed, dlqLost>>

\* publishSseEvent sends the row the upsert returned.
Publish(w) ==
  /\ pc[w] = "publish"
  /\ feed' = [feed EXCEPT ![msg[cur[w]].entity] = msg[cur[w]].version]
  /\ announced' = announced \cup {cur[w]}
  /\ Goto(w, "settle")
  /\ UNCHANGED <<gh, net, dbVars, queueVars, cur, held, moving, dlq>>
  /\ UNCHANGED <<committed, dlqLost, left>>

\* The handler returned: the job is complete and removed.
Complete(w) ==
  LET j == cur[w] IN
  /\ pc[w] = "settle"
  /\ Leave(w)
  /\ \/ /\ lock[j] = w
        /\ jstate' = [jstate EXCEPT ![j] = "completed"]
        /\ lock' = [lock EXCEPT ![j] = NoWorker]
     \/ lock[j] # w /\ UNCHANGED <<jstate, lock>>
  /\ UNCHANGED <<attempts, moving, gh, net, dbVars, dlq, feed, ghostVars, left>>

\* Postgres or Redis refuses a call of the handler.
CallFails(w) ==
  /\ pc[w] \in {"find", "upsert", "publish"}
  /\ Spend("error")
  /\ HandlerThrows(w)
  /\ UNCHANGED <<gh, net, dbVars, dlq, feed, ghostVars>>

\* The process dies; its handler and its unfinished copies go with it.
Crash(w) ==
  /\ pc[w] # "idle" \/ moving[w] # {}
  /\ Spend("crash")
  /\ Goto(w, "idle")
  /\ cur' = [cur EXCEPT ![w] = 0]
  /\ held' = [held EXCEPT ![w] = FALSE]
  /\ moving' = [moving EXCEPT ![w] = {}]
  /\ dlqLost' = dlqLost \cup moving[w]
  /\ UNCHANGED <<gh, net, dbVars, queueVars, dlq, feed, committed, announced>>

-----------------------------------------------------------------------------
(* moveToDeadLetterQueue, started without being awaited.                    *)

MoveToDeadLetterQueue(w, j) ==
  /\ j \in moving[w]
  /\ moving' = [moving EXCEPT ![w] = @ \ {j}]
  /\ dlq' = dlq \cup {j}
  /\ UNCHANGED <<gh, net, dbVars, queueVars, pc, cur, held, feed, ghostVars, left>>

\* The add is rejected: the error is reported and the copy given up.
DeadLetterFails(w, j) ==
  /\ j \in moving[w]
  /\ Spend("error")
  /\ moving' = [moving EXCEPT ![w] = @ \ {j}]
  /\ dlqLost' = dlqLost \cup {j}
  /\ UNCHANGED <<gh, net, dbVars, queueVars, pc, cur, held, dlq, feed>>
  /\ UNCHANGED <<committed, announced>>

-----------------------------------------------------------------------------

Environment ==
  \/ \E e \in Entities : GitHubEvent(e) \/ Redeliver(e)
  \/ \E d \in net : LoseDelivery(d)
  \/ \E s \in {"enabled", "disabled"} : SetEnabled(s)
  \/ DeleteRepository
  \/ \E r \in Runs : PurgeRun(r)
  \/ \E w \in Workers : Crash(w) \/ CallFails(w)
  \/ \E w \in Workers, j \in QueueJobs : DeadLetterFails(w, j)
  \/ \E j \in QueueJobs : RecoverHeldUp(j)

Receive == \E d \in net : ReceiveWebhook(d)
Take(w) == TakeJob(w) \/ FailStalledJob(w)
Handle(w) == FindRun(w) \/ Upsert(w) \/ Publish(w) \/ Complete(w)

Next ==
  \/ Environment
  \/ Receive
  \/ \E w \in Workers : Take(w) \/ Handle(w)
  \/ \E j \in QueueJobs : PromoteDelayed(j) \/ RecoverAbandoned(j)
  \/ \E w \in Workers, j \in QueueJobs : MoveToDeadLetterQueue(w, j)

Spec == Init /\ [][Next]_vars

\* The API answers what reaches it, worker processes run, backoffs end and
\* BullMQ looks for stalled jobs.  Nothing is assumed of the environment.
Fairness ==
  /\ WF_vars(Receive)
  /\ \A w \in Workers : WF_vars(Take(w)) /\ WF_vars(Handle(w))
  /\ \A j \in QueueJobs : WF_vars(PromoteDelayed(j)) /\ WF_vars(RecoverAbandoned(j))
  /\ \A w \in Workers, j \in QueueJobs : WF_vars(MoveToDeadLetterQueue(w, j))

FairSpec == Spec /\ Fairness

-----------------------------------------------------------------------------
(* Safety.                                                                  *)

\* A job that BullMQ has completed - and so forgotten - has committed its upsert
\* and published its event, whatever crashes, retries and lost locks it went
\* through: the handlers return only after both (at-least-once effect).
CompletedTookEffect ==
  \A j \in QueueJobs : jstate[j] = "completed" => j \in committed \cap announced

\* A job is given up only after all its attempts or too many stalls, and it has
\* attempts left as long as BullMQ still works on it.
GiveUpJustified ==
  \A j \in QueueJobs :
    /\ jstate[j] = "failed" => attempts[j] >= MaxAttempts \/ stalls[j] > MaxStalled
    /\ jstate[j] \in {"waiting", "active", "delayed"} => attempts[j] < MaxAttempts

\* The dead-letter queue, the copies under way and the copies lost are three
\* disjoint sets of jobs, and together they are the jobs that failed with no
\* attempt left: no job is dead-lettered while it may still succeed.
DeadLettersAccountedFor ==
  LET copying == UNION {moving[w] : w \in Workers} IN
  /\ dlq \cap copying = {} /\ dlq \cap dlqLost = {} /\ copying \cap dlqLost = {}
  /\ \A u, w \in Workers : u # w => moving[u] \cap moving[w] = {}
  /\ dlq \cup copying \cup dlqLost =
       {j \in QueueJobs : jstate[j] = "failed" /\ attempts[j] >= MaxAttempts}

\* A workflow job is stored only under a run that is stored, although its
\* handler reads the run in one statement and writes the job in another and the
\* run may be purged, or purged and stored anew, between the two.
NoOrphanJobs == \A k \in Jobs : row[k] > 0 => row[RunOf[k]] > 0

\* What subscribers were told was committed before: every event on the channel
\* is the version of some job whose upsert went through.
FeedWasCommitted ==
  \A e \in Entities : feed[e] > 0 =>
    \E j \in committed : msg[j] = [entity |-> e, version |-> feed[e]]

\* Two workers run the same job at once only after its lock was lost.
OneRunnerPerJob ==
  \A u, w \in Workers : u # w /\ cur[u] = cur[w] /\ cur[w] # 0 => stalls[cur[w]] > 0

Undecided == {j \in QueueJobs : jstate[j] \in {"waiting", "active", "delayed"}}

\* One worker process: when every accepted job has completed, subscribers saw
\* last what the database holds, in spite of retries, crashes and reordering.
\* (Two processes may publish in the other order than they commit.)
QuietFeedAgrees ==
  (Undecided = {} /\ \A j \in QueueJobs : jstate[j] # "failed") =>
    \A e \in Entities : row[e] > 0 => feed[e] = row[e]

-----------------------------------------------------------------------------
(* Action properties and liveness.                                          *)

\* With deliveries in order, one worker and no failing call, a stored run never
\* goes back to an earlier version: the queue hands jobs out as they came.  The
\* upsert itself compares nothing.
RunsNeverRegress ==
  [][\A r \in Runs : row'[r] >= row[r] \/ row'[r] = 0]_vars

\* Under the same conditions every run and workflow job that GitHub stops
\* changing is eventually, and from then on, stored in its last version.
Converges == <>[](row = gh)

\* What the queue promises; see EventDelivery.
Phase ==
  [j \in QueueJobs |->
     CASE jstate[j] = "none" -> "absent"
       [] jstate[j] = "completed" -> "settled"
       [] jstate[j] = "failed" -> "given_up"
       [] OTHER -> IF j \in committed THEN "applied" ELSE "pending"]

Delivery == INSTANCE EventDelivery WITH Events <- QueueJobs, phase <- Phase

\* The queue implements at-least-once delivery: an accepted job is settled only
\* after its effect was applied, is settled or given up once and for all, and is
\* eventually one or the other.
DeliveryHolds == Delivery!FairSpec

=============================================================================
