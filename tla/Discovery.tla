------------------------------ MODULE Discovery ------------------------------
(***************************************************************************)
(* Connecting one GitHub installation: the install callback writes an      *)
(* integration and queues a backfill-integration job, which walks GitHub's *)
(* pages of repositories, stores each and queues its backfill.  The page a *)
(* job has come to is kept in the job, where its next attempt resumes.     *)
(*                                                                         *)
(* Meanwhile other callbacks arrive, the user disconnects or disables      *)
(* repositories, the installation gains and loses repositories, and        *)
(* processes die or lose their lock on a job.                              *)
(***************************************************************************)
EXTENDS Naturals, FiniteSets, SequencesExt

CONSTANTS
  Found,         \* repositories the installation may give access to
  Spaces,        \* workspaces that connect it
  Callbacks,     \* install callbacks, each of them run once
  Walkers,       \* worker processes of the backfill queue
  PageOf,        \* repositories per page
  MaxTries,      \* attempts of a job
  Links,         \* bound: rows of integrations
  MaxEdits,      \* bound: disconnections and edits of repositories, by hand or at GitHub
  MaxWalkFaults  \* bound: errors, crashes and lost locks

NoLink == 0
NoWalker == "nobody"
NoSpace == "no workspace"
NoFind == "no job"

ASSUME DiscoveryAssumption ==
  /\ IsFiniteSet(Found) /\ NoWalker \notin Walkers /\ NoSpace \notin Spaces
  /\ PageOf \in Nat \ {0} /\ MaxTries \in Nat \ {0}
  /\ MaxEdits \in Nat /\ MaxWalkFaults \in Nat

\* Each callback queues one job at most, known by its callback.
Finds == Callbacks

VARIABLES
  installed,  \* the installation's repositories, in the order GitHub lists them
  link,       \* integrations: the workspace of each, while it exists
  found,      \* repositories of each integration: none, enabled or disabled
  callback,   \* the install callbacks
  find,       \* backfill-integration jobs: what the queue knows of each
  walk,       \* what each worker process does
  \* observation and bounds
  must,       \* repositories the installation had when a job was queued and still has
  handled,    \* repositories each job queued a backfill for, or found disabled
  shifted,    \* jobs that were reading while the installation lost a repository
  unqueued,   \* integrations written by a call that did not come to queue a job
  edits, walkFaults

discoveryVars == <<installed, link, found, callback, find, walk, must, handled, shifted,
                   unqueued, edits, walkFaults>>
dataVars == <<installed, link, found>>
observed == <<must, handled, shifted, unqueued>>

Answered == [step |-> "done", space |-> NoSpace, link |-> NoLink]
AbsentFind == [state |-> "none", link |-> NoLink, page |-> 1, tries |-> 0, lock |-> NoWalker]
Idle == [job |-> NoFind, step |-> "idle", page |-> 1, batch |-> <<>>, full |-> FALSE]

DiscoveryTypeOK ==
  /\ installed \in Seq(Found) /\ IsInjective(installed)
  /\ link \in [Links -> Spaces \cup {NoSpace, "gone"}]
  /\ found \in [Links -> [Found -> {"none", "on", "off"}]]
  /\ callback \in [Callbacks ->
       [step : {"idle", "update", "insert", "queue", "done"},
        space : Spaces \cup {NoSpace}, link : Links \cup {NoLink}]]
  /\ find \in [Finds -> [state : {"none", "waiting", "active", "completed", "failed"},
                         link : Links \cup {NoLink}, page : Nat \ {0}, tries : 0 .. MaxTries,
                         lock : Walkers \cup {NoWalker}]]
  /\ walk \in [Walkers ->
       [job : Finds \cup {NoFind}, page : Nat \ {0}, batch : Seq(Found), full : BOOLEAN,
        step : {"idle", "load", "fetch", "upsert", "queue", "advance", "clear", "finish"}]]
  /\ \A w \in Walkers :
       /\ Len(walk[w].batch) <= PageOf
       /\ walk[w].step \in {"upsert", "queue"} <=> walk[w].batch # <<>>
  /\ must \in [Finds -> SUBSET Found] /\ handled \in [Finds -> SUBSET Found]
  /\ shifted \in SUBSET Finds /\ unqueued \in SUBSET Links
  /\ edits \in 0 .. MaxEdits /\ walkFaults \in 0 .. MaxWalkFaults

DiscoveryInit ==
  /\ installed \in {SetToSeq(S) : S \in SUBSET Found}
  /\ link = [l \in Links |-> NoSpace]
  /\ found = [l \in Links |-> [r \in Found |-> "none"]]
  /\ callback = [c \in Callbacks |-> [Answered EXCEPT !.step = "idle"]]
  /\ find = [f \in Finds |-> AbsentFind]
  /\ walk = [w \in Walkers |-> Idle]
  /\ must = [f \in Finds |-> {}] /\ handled = [f \in Finds |-> {}]
  /\ shifted = {} /\ unqueued = {}
  /\ edits = 0 /\ walkFaults = 0

Exists(l) == link[l] \in Spaces
Connected == {l \in Links : Exists(l)}
Fresh == {l \in Links : link[l] = NoSpace}

WalkFault == walkFaults < MaxWalkFaults /\ walkFaults' = walkFaults + 1
Edit == edits < MaxEdits /\ edits' = edits + 1

-----------------------------------------------------------------------------
\* The API.

\* processGitHubInstallCallback, once GitHub has answered: an installation connected
\* to another workspace is refused.
LookupInstallation(c) ==
  /\ callback[c].step = "idle"
  /\ \E s \in Spaces :
       \/ /\ Connected = {}
          /\ callback' = [callback EXCEPT ![c].step = "insert", ![c].space = s]
       \/ \E l \in Connected :
            callback' = [callback EXCEPT ![c] =
              IF link[l] = s THEN [step |-> "update", space |-> s, link |-> l] ELSE Answered]
  /\ UNCHANGED <<dataVars, find, walk, observed, edits, walkFaults>>

\* The row found is updated, with a new token, if it is still there.
UpdateLink(c) ==
  /\ callback[c].step = "update"
  /\ callback' = [callback EXCEPT ![c] =
       IF Exists(@.link) THEN [@ EXCEPT !.step = "queue"] ELSE Answered]
  /\ UNCHANGED <<dataVars, find, walk, observed, edits, walkFaults>>

\* A row is inserted, unless another callback has done so: the installation is unique.
InsertLink(c) ==
  /\ callback[c].step = "insert"
  /\ \/ /\ Connected # {}
        /\ callback' = [callback EXCEPT ![c] = Answered]
        /\ UNCHANGED link
     \/ /\ Connected = {}
        /\ \E l \in Fresh :
             /\ link' = [link EXCEPT ![l] = callback[c].space]
             /\ callback' = [callback EXCEPT ![c].step = "queue", ![c].link = l]
  /\ UNCHANGED <<installed, found, find, walk, observed, edits, walkFaults>>

\* Mutant: a callback that found the integration there leaves the discovery to the
\* one that wrote it.
QueueFind_FirstOnly(c) ==
  LET l == callback[c].link IN
  /\ callback[c].step = "queue"
  /\ find' = [find EXCEPT ![c] =
       IF \A r \in Found : found[l][r] = "none" THEN [@ EXCEPT !.link = l] ELSE
       [@ EXCEPT !.state = "waiting", !.link = l]]
  /\ callback' = [callback EXCEPT ![c] = Answered]
  /\ must' = [must EXCEPT ![c] = Range(installed)]
  /\ UNCHANGED <<dataVars, walk, handled, shifted, unqueued, edits, walkFaults>>

\* enqueueBackfillIntegration
QueueFind(c) ==
  /\ callback[c].step = "queue"
  /\ find' = [find EXCEPT ![c].state = "waiting", ![c].link = callback[c].link]
  /\ callback' = [callback EXCEPT ![c] = Answered]
  /\ must' = [must EXCEPT ![c] = Range(installed)]
  /\ UNCHANGED <<dataVars, walk, handled, shifted, unqueued, edits, walkFaults>>

\* The API dies, or Redis refuses: what is written stays.
CallbackFails(c) ==
  /\ callback[c].step \notin {"idle", "done"}
  /\ WalkFault
  /\ callback' = [callback EXCEPT ![c] = Answered]
  /\ unqueued' = IF callback[c].step = "queue" THEN unqueued \cup {callback[c].link} ELSE unqueued
  /\ UNCHANGED <<dataVars, find, walk, must, handled, shifted, edits>>

\* createWorkspaceIntegration, through the API: it queues nothing.
CreateIntegration ==
  /\ Edit
  /\ Connected = {}
  /\ \E s \in Spaces, l \in Fresh :
       /\ link' = [link EXCEPT ![l] = s]
       /\ unqueued' = unqueued \cup {l}
  /\ UNCHANGED <<installed, found, callback, find, walk, must, handled, shifted, walkFaults>>

\* deleteWorkspaceIntegration: the repositories go with it.
Disconnect(l) ==
  /\ Edit
  /\ Exists(l)
  /\ link' = [link EXCEPT ![l] = "gone"]
  /\ found' = [found EXCEPT ![l] = [r \in Found |-> "none"]]
  /\ UNCHANGED <<installed, callback, find, walk, observed, walkFaults>>

\* A repository is disabled in the settings, or enabled again.
Toggle(l, r) ==
  /\ Edit
  /\ found[l][r] # "none"
  /\ found' = [found EXCEPT ![l][r] = IF @ = "on" THEN "off" ELSE "on"]
  /\ UNCHANGED <<installed, link, callback, find, walk, observed, walkFaults>>

\* At GitHub the installation is given a repository, wherever it comes in the order ...
Install(r) ==
  /\ Edit
  /\ r \notin Range(installed)
  /\ \E i \in 1 .. Len(installed) + 1 : installed' = InsertAt(installed, i, r)
  /\ UNCHANGED <<link, found, callback, find, walk, observed, walkFaults>>

\* ... or loses one, and those after it move up, between the pages of whoever reads.
Uninstall(r) ==
  /\ Edit
  /\ \E i \in 1 .. Len(installed) : installed[i] = r /\ installed' = RemoveAt(installed, i)
  /\ must' = [f \in Finds |-> must[f] \ {r}]
  /\ shifted' = shifted \cup {f \in Finds : find[f].page > 1 \/ \E w \in Walkers : walk[w].job = f}
  /\ UNCHANGED <<link, found, callback, find, walk, handled, unqueued, walkFaults>>

-----------------------------------------------------------------------------
\* The worker.

Holds(w) == find[walk[w].job].lock = w
Going(w, step) == walk' = [walk EXCEPT ![w].step = step]

\* The attempt fails: the job waits for the next or has had its last.
Throws(w) ==
  LET y == find[walk[w].job] IN
  /\ walk' = [walk EXCEPT ![w] = Idle]
  /\ find' = IF Holds(w)
       THEN [find EXCEPT ![walk[w].job] =
              [y EXCEPT !.tries = y.tries + 1, !.lock = NoWalker,
                        !.state = IF y.tries + 1 >= MaxTries THEN "failed" ELSE "waiting"]]
       ELSE find

TakeFind(w) ==
  /\ walk[w].step = "idle"
  /\ \E f \in Finds :
       /\ find[f].state = "waiting"
       /\ find' = [find EXCEPT ![f].state = "active", ![f].lock = w]
       /\ walk' = [walk EXCEPT ![w].job = f, ![w].step = "load"]
  /\ UNCHANGED <<dataVars, callback, observed, edits, walkFaults>>

\* loadIntegrationRecord: a job whose integration is gone fails.  It begins with
\* the page that was saved.
LoadLink(w) ==
  /\ walk[w].step = "load"
  /\ LET f == find[walk[w].job] IN
       IF Exists(f.link)
         THEN walk' = [walk EXCEPT ![w].step = "fetch", ![w].page = f.page] /\ UNCHANGED find
         ELSE Throws(w)
  /\ UNCHANGED <<dataVars, callback, observed, edits, walkFaults>>

\* fetchInstallationRepositoriesPage; an empty page is the end.
FetchPage(w) ==
  /\ walk[w].step = "fetch"
  /\ LET before == (walk[w].page - 1) * PageOf
         left == Len(installed) - before
         batch == IF left <= 0 THEN <<>>
                  ELSE SubSeq(installed, before + 1, before + (IF left < PageOf THEN left ELSE PageOf))
     IN walk' = [walk EXCEPT ![w].batch = batch, ![w].full = Len(batch) = PageOf,
                             ![w].step = IF batch = <<>> THEN "clear" ELSE "upsert"]
  /\ UNCHANGED <<dataVars, callback, find, observed, edits, walkFaults>>

\* Done with the first of the batch; a page that is not full is the last.
NextFind(w) ==
  walk' = [walk EXCEPT ![w].batch = Tail(@),
    ![w].step = IF Len(walk[w].batch) > 1 THEN "upsert" ELSE IF walk[w].full THEN "advance" ELSE "clear"]

Handle(w) ==
  handled' = [handled EXCEPT ![walk[w].job] = @ \cup {Head(walk[w].batch)}]

\* upsertDiscoveredRepository: a new one is enabled, one that is known stays as it
\* is; without the integration the insert fails.
UpsertFound(w) ==
  LET l == find[walk[w].job].link
      r == Head(walk[w].batch)
  IN
  /\ walk[w].step = "upsert"
  /\ \/ /\ ~Exists(l)
        /\ Throws(w)
        /\ UNCHANGED <<found, handled>>
     \/ /\ Exists(l)
        /\ found' = [found EXCEPT ![l][r] = IF @ = "none" THEN "on" ELSE @]
        /\ IF found'[l][r] = "on" THEN Going(w, "queue") /\ UNCHANGED handled
                                  ELSE NextFind(w) /\ Handle(w)
        /\ UNCHANGED find
  /\ UNCHANGED <<installed, link, callback, must, shifted, unqueued, edits, walkFaults>>

\* The backfill of an enabled repository is queued.
QueueRepo(w) ==
  /\ walk[w].step = "queue"
  /\ NextFind(w) /\ Handle(w)
  /\ UNCHANGED <<dataVars, callback, find, must, shifted, unqueued, edits, walkFaults>>

\* A job that has ended successfully is gone from the queue.
CanUpdate(w) == find[walk[w].job].state # "completed"

\* Mutant: the page that was read last is saved, as if it were the next, when it
\* is full - and the walk goes on with the one after it.
Advance_Skips(w) ==
  /\ walk[w].step = "advance"
  /\ IF CanUpdate(w)
       THEN /\ walk' = [walk EXCEPT ![w].step = "fetch", ![w].page = @ + 1]
            /\ find' = [find EXCEPT ![walk[w].job].page = walk[w].page + 2]
       ELSE Throws(w)
  /\ UNCHANGED <<dataVars, callback, observed, edits, walkFaults>>

\* The next page is saved in the job.
Advance(w) ==
  /\ walk[w].step = "advance"
  /\ IF CanUpdate(w)
       THEN /\ walk' = [walk EXCEPT ![w].step = "fetch", ![w].page = @ + 1]
            /\ find' = [find EXCEPT ![walk[w].job].page = walk[w].page + 1]
       ELSE Throws(w)
  /\ UNCHANGED <<dataVars, callback, observed, edits, walkFaults>>

\* At the end the page is forgotten.
Clear(w) ==
  /\ walk[w].step = "clear"
  /\ IF CanUpdate(w)
       THEN Going(w, "finish") /\ find' = [find EXCEPT ![walk[w].job].page = 1]
       ELSE Throws(w)
  /\ UNCHANGED <<dataVars, callback, observed, edits, walkFaults>>

\* The job is completed, if it is still this worker's.
Finish(w) ==
  /\ walk[w].step = "finish"
  /\ walk' = [walk EXCEPT ![w] = Idle]
  /\ find' = IF Holds(w) THEN [find EXCEPT ![walk[w].job].state = "completed",
                                           ![walk[w].job].lock = NoWalker]
             ELSE find
  /\ UNCHANGED <<dataVars, callback, observed, edits, walkFaults>>

\* GitHub, Postgres or Redis refuses a call.
WalkFails(w) ==
  /\ walk[w].step # "idle"
  /\ WalkFault
  /\ Throws(w)
  /\ UNCHANGED <<dataVars, callback, observed, edits>>

\* The worker dies, or does not renew its lock in time and goes on without it: the
\* job waits again.
LoseLock(w) ==
  /\ walk[w].step # "idle" /\ Holds(w)
  /\ WalkFault
  /\ find' = [find EXCEPT ![walk[w].job].state = "waiting", ![walk[w].job].lock = NoWalker]
  /\ \/ walk' = [walk EXCEPT ![w] = Idle]
     \/ UNCHANGED walk
  /\ UNCHANGED <<dataVars, callback, observed, edits>>

CallbackStep(c) ==
  LookupInstallation(c) \/ UpdateLink(c) \/ InsertLink(c) \/ QueueFind(c)

WalkStep(w) ==
  \/ TakeFind(w) \/ LoadLink(w) \/ FetchPage(w) \/ UpsertFound(w) \/ QueueRepo(w)
  \/ Advance(w) \/ Clear(w) \/ Finish(w)

DiscoveryNext ==
  \/ \E c \in Callbacks : CallbackStep(c) \/ CallbackFails(c)
  \/ \E w \in Walkers : WalkStep(w) \/ WalkFails(w) \/ LoseLock(w)
  \/ CreateIntegration
  \/ \E l \in Links : Disconnect(l)
  \/ \E l \in Links, r \in Found : Toggle(l, r)
  \/ \E r \in Found : Install(r) \/ Uninstall(r)

\* What has started goes on: an API process or a worker that can take a step.
DiscoveryStep ==
  \/ \E c \in Callbacks : callback[c].step # "idle" /\ CallbackStep(c)
  \/ \E w \in Walkers : WalkStep(w)

DiscoveryFairness == WF_discoveryVars(DiscoveryStep)

DiscoverySpec == DiscoveryInit /\ [][DiscoveryNext]_discoveryVars /\ DiscoveryFairness

-----------------------------------------------------------------------------

\* A job that completes has seen to every repository the installation had when it
\* was queued and still has: each has a backfill queued or was disabled - whatever
\* attempts, crashes and workers it took - unless the installation lost a
\* repository while the pages were read, which moves others past the reader.
DiscoveryComplete ==
  \A f \in Finds \ shifted :
    find[f].state = "completed" /\ Exists(find[f].link) => must[f] \subseteq handled[f]

\* An integration is discovered, or its job fails for good, or the user disconnects
\* it - unless the call that wrote it did not come to queue the job, which nothing
\* else does.
ConnectedIsDiscovered ==
  \A l \in Links :
    Exists(l) ~> \/ ~Exists(l) \/ l \in unqueued
                 \/ \E f \in Finds : find[f].link = l /\ find[f].state \in {"completed", "failed"}

=============================================================================
