# PipeWatch in TLA+

This directory holds TLA+ specifications of [PipeWatch](../src/README.md), the GitHub
Actions dashboard in `src/`, their TLC model-checking runs and TLAPS proofs. Every
definition follows the source code; the documents under `src/docs` and
`src/apps/marketing/content` are used only to state what the code is *said* to do.

Check a run with `tlc -workers 2 -config <cfg> <module>` and a proof with
`tlapm <module>_proofs.tla`. `PROJECT.json` lists the runs, the mutants that show that
each property can fail, the source lines behind each definition, the hazards of the
code and the theorems.

## 1. The system

PipeWatch receives or polls GitHub Actions events and shows them live. Three processes
share Postgres and Redis:

```
  GitHub --webhook--> apps/api --queue.add--> Redis (BullMQ) --> apps/worker --> Postgres
     ^                  |  ^                                        |
     |                  |  +------------- Redis pub/sub <-----------+ publish
     |                  +--SSE--> browser (apps/web)
     +---------------- REST: poll-repo, backfill-repo (apps/worker)
  Stripe, Postmark --webhook--> apps/api
```

| component | state it keeps | operations | interacts with | hard behaviour | correct when |
|---|---|---|---|---|---|
| webhook ingestion (`routes/webhooks/github.ts`, `worker.ts`, `handlers/process-pipeline-*.ts`, `services/pipeline-upsert.ts`, `queues/*`, `lib/sse-publish.ts`) | `pipeline_runs/jobs/steps`; the BullMQ queue and dead-letter queue; the SSE channel | receive, take, find run, upsert, publish, complete, retry, recover a stalled job, dead-letter | GitHub, Postgres, Redis | reordered, lost, repeated deliveries; at-least-once handlers; crash between commit and publish; a job before its run; purge between two statements | an event settled was applied and published; given up only when due; dead letters exact; no orphan rows; rows move forward when events do |
| polling lifecycle (`repository.service.ts`, `polling/lifecycle.ts`) | `repositories.enabled`, `polling_interval_seconds`; the repeatable `poll:<id>` jobs | discover, PATCH, DELETE, remove and add the repeatable job | Postgres, Redis | two stores, no transaction, overlapping PATCHes, refused Redis calls | after a PATCH the jobs are what the row asks for |
| membership (`member.service.ts`, `invite.service.ts`, `plan-limits.ts`, `users/profile.ts`) | `workspace_members`, `workspace_invites`, `users` | invite, revoke, accept, expire, change a role, remove, delete an account | Postgres | check in one statement, act in another | an owner remains; one membership per user; seats within the plan |
| repository synchronisation (`poll-repo.ts`, `backfill-repo.ts`, `services/github/backfill.ts`) | `repositories.lastSyncedAt`; the page to continue with in the job's data | poll one page, backfill page by page | GitHub REST, ingestion's upserts | page drift, day-granular window, stale response against a newer webhook, resume | after a backfill every run in the window is stored |
| sessions (`refresh-token.ts`, `routes/auth/*`) | `refresh_tokens`; two cookies of each browser | sign in, rotate, revoke, revoke all, switch workspace | browser | look up in one statement, act in another; overlapping refreshes; lost replies; logout-all against a rotation | one live token per session, the one in the cookie; logout-all ends all |
| sign-in and bootstrap (`routes/auth/github.ts`, `services/auth/oauth.ts`) | `users`, the first workspace and its owner | count, find, write, bootstrap | GitHub, Postgres | two first sign-ins at once; a process that dies in the middle | the first user owns the workspace, nobody else does by signing in |
| billing (`stripe-checkout.ts`, `stripe-webhook-handler.ts`) | `workspaces.plan`, customer and subscription ids | checkout, change, subscription events | Stripe | repeated and reordered events, two customers | the plan is the one the subscription pays for |
| plan limits (`plan-limits.ts`, `workspace.service.ts`, `cloud-plan.ts`) | `repositories.enabled`, `workspaces` | count the others, then write | discovery, billing | counted by overlapping requests; plans that change meanwhile | limits exceeded only by what overlaps; the last workspace stays |
| integrations and discovery (`install-callback.ts`, `integration.service.ts`, `backfill-integration.ts`) | `integrations`, `repositories`, the page kept in the job | install, connect, disconnect, walk GitHub's pages | GitHub, backfill queue | callbacks side by side; crash before the job is queued; resumption; pages that shift | a connected installation is discovered, and wholly |
| live stream (`sse-token.ts`, `sse-broadcaster.ts`, `stream.ts`, web `sse-client.ts`) | one-time tokens, subscriptions, EventSource and timers | issue, consume, subscribe, forward, reconnect, disconnect | Redis, browser | a page that unmounts in the middle of an await; requests repeated or aborted; subscription gaps | one connection per page, none after it is gone; connected again after a failure |
| pages of the web app (`DashboardView.tsx`, `RepoDetailView.tsx`, run detail, `use-api.ts`, `pipeline-run.service.ts`) | what the page shows | load, patch by an event, filter, page through a list | API, live stream | a response that overwrites a later event; lost and reordered events; runs that move between two pages | what is shown becomes what is stored; each run is listed once |
| retention (`retention-cleanup.ts`, `resolveEffectiveRetentionDays`) | age of `pipeline_runs` | nightly batches | ingestion, plans | settings read once, ids selected before they are deleted, runs that start again, a crash | expired runs go, others stay |
| settings pages (`ApiKeysTable.tsx`, `MembersTable.tsx`, `RepoSettingsForm.tsx`, `WorkspaceGeneralForm.tsx`, `api-key.ts`) | the rows a page shows, its form and dialog; `api_keys` | load, create, change, revoke, undo | API | answers that overtake each other; changes shown early; a load that unmounts a dialog | the page ends with what the database holds; a new key stays until it was read |
| sync status and re-sync (`sync-status.ts`, integrations page) | what the card shows; the ids being re-synced | re-sync, toggle, poll | backfill queue | polls that overtake each other; rows read before jobs | the card ends with the truth; a re-sync is not shown for ever |
| onboarding (`OnboardingWizard.tsx`, `steps/*`, `lib/onboarding/steps.ts`, `github-callback.ts`) | the step in the URL, the context, the list and its selection | create, install, select, start syncing, go back | API, discovery | discovery behind the wizard; PATCHes of which some fail; polls and contexts in flight | the wizard settles; the selection is what is stored |
| web client's access token (`api-client.ts`, `auth.ts`, `use-api.ts`, the app's layout) | the token in memory, a refresh under way | call, refresh, retry, seed from a render | API, cookies | calls of one page that are refused together; the answer to a refresh whose token the page cannot see | one refresh of a client at a time; no call waits for ever; the new token gets into memory |
| waitlist, GitHub tokens | see `PROJECT.json` | | | | not modelled |
| aggregates, marketing UI, deployment | none of their own | queries, rendering | | | not modelled |

`PROJECT.json` lists under `hazards` where each hard behaviour bites.

## 2. Modules

| module | models | lines of |
|---|---|---|
| `PipelineIngest` | webhook ingestion for one repository, with GitHub, the network, BullMQ and the administrators around it | API receiver, worker, queues, upserts, publisher, dead-letter queue |
| `EventDelivery` | the abstract promise of the webhook queue | refined by `PipelineIngest` |
| `PollingLifecycle` | one repository's row and its repeatable jobs | repository service and route, polling lifecycle, discovery |
| `RepoSync` | polls and backfills of one repository against GitHub's paged list of runs | poll and backfill handlers, their GitHub and database helpers |
| `Membership` | one workspace's members, invites and accounts | member, invite and profile services, plan limits |
| `Sessions` | the refresh tokens, cookies and calls of one user | refresh tokens, `routes/auth/*` |
| `Bootstrap` | sign-ins of a community edition up to its first workspace | the GitHub callback |
| `Billing` | one workspace's checkout requests, Stripe, and Stripe's webhook | checkout, webhook handler |
| `RepoLimit`, `Workspaces` | the limits on enabled repositories of a workspace and on workspaces of a user | plan limits, repository and workspace services |
| `Discovery` | one installation: callbacks, integrations, the discovery job and its workers | install callback, integration service, `backfill-integration` |
| `Retention` | the nightly cleanup beside whatever stores runs and changes settings | `retention-cleanup`, effective days |
| `LiveStream` | one repository's stream: pages, tokens, API requests, Redis | SSE client, token service, route, broadcaster |
| `LiveView` | one page of the web app on top of a stream and of loads that overtake it | the live hooks, the pages that use them, the status mapping |
| `RunPages` | a list of runs read page after page while the runs change | the list query and its cursor |
| `SettingsPage` | a settings page, the requests of its buttons and the loads each render starts | the four settings pages, the API key service |
| `SyncProgress` | the card of an integration, its polls, the report they get and the backfills it is about | integrations page, `sync-status` |
| `Onboarding` | the onboarding wizard beside the discovery it waits for | wizard, its steps, install callback's redirect |
| `ApiClient` | one page's requests, its clients, the cookies and the token in memory | API client, layout, refresh route |
| `MCAccounts` | `Sessions`, `Bootstrap`, `Billing`, `RepoLimit`, `Workspaces`, `Discovery`, `Retention` in one run | |
| `MCDashboard` | `Discovery`, `PollingLifecycle`, `LiveStream`, `LiveView`, `RunPages`, `SettingsPage`, `SyncProgress`, `Onboarding`, `ApiClient` in one run | |
| `MCConvergence` | `PipelineIngest` without faults, and polls and a backfill of `RepoSync`, in one run | |
| `MCMembership` | `Membership` with requests one after the other, and with requests that overlap, in one run | |
| other `MC*` | model values, budgets and symmetry for TLC | |
| `*_proofs` | theorems for every value of the constants | |

The components of `MCAccounts`, those of `MCDashboard`, and the two of `MCConvergence`, share no variable. Each
behaviour is about one of them, its `focus`, chosen at the start; the others keep one
initial state. So the state spaces add up instead of multiplying, and nothing is lost,
as no property relates two of them. Where components do interact, the other side is part
of the module as its environment: `Discovery` and `Billing` change what `RepoLimit`
counts, `PlanChanges` is a Stripe event applied, `LiveView` sees the stream open and
break, `Retention` sees runs stored and started again.

### PipelineIngest

State: `gh` and `net` are GitHub and the deliveries on their way; `repo` and `row` are
the database; `nextId .. waitq` are what BullMQ keeps in Redis for the queue
`webhook-events`; `pc, cur, held, moving` are the memory of each worker process; `dlq`
and `feed` are the dead-letter queue and the SSE channel. `committed`, `announced`,
`dlqLost` only observe, `left` bounds the environment.

A payload is the entity it describes (a workflow run or workflow job) and its version:
the upserts overwrite every column, so the version is all a row remembers. The steps of
a workflow job are replaced in the transaction that upserts the job and are part of its row.

| action | code |
|---|---|
| `ReceiveWebhook` | the receiver after signature and envelope checks: look the repository up, enqueue if enabled |
| `TakeJob`, `FailStalledJob`, `HandlerThrows`, `PromoteDelayed`, `Recover*`, `Complete` | BullMQ as the worker configures it: attempts 3, custom delays, lock, stalled check with `maxStalledCount` 1 |
| `FindRun` | `processPipelineJob` looks for the run and throws without it |
| `Upsert` | the upsert or the transaction; the foreign key rejects it when the parent is gone |
| `Publish` | `publishSseEvent`; an error fails the attempt although the row is committed |
| `OnFailed`, `MoveToDeadLetterQueue`, `DeadLetterFails` | the `failed` listener and the copy nobody awaits |
| `SetEnabled`, `DeleteRepository`, `PurgeRun` | administrators and retention |
| `GitHubEvent`, `Redeliver`, `LoseDelivery`, `CallFails`, `Crash` | the environment, limited by `Budget` |

BullMQ is third-party code and is modelled from how the worker uses it: its actions are
marked external in `PROJECT.json`.

### PollingLifecycle

`row` is the repository, `sched` the intervals under which Redis repeats its poll. A
PATCH reads the row (`StartPatch`), writes it (`WriteRow`), removes the job under the
intervals of both rows (`RemoveRepeatable`, sent together and answered in any order) and
adds it again if wanted (`AddRepeatable`). Redis may refuse a call, the process may die.

### RepoSync

`nRuns`, `born` and `ver` are GitHub: a run is its number, and the list is from the
newest to the oldest, so that a new run moves all others towards later pages. `row` and
`synced` are the database; `runsPage` is what a backfill keeps in the data of its job;
`page, since, seen, full` are the local variables of a handler, `seen` holding the
versions of the answer that are still to be upserted. `owed` and `finished` only
observe: what existed when the job was queued, and the jobs that reached the end.

| action | code |
|---|---|
| `Load` | the repository is read once: deleted throws, disabled returns, else page and first day are fixed |
| `Fetch`, `Store` | one page; then one upsert per run, the newest first, overwriting any version |
| `NextPage`, `Clear` | `job.updateData`, which fails when the job was completed by another process |
| `Mark` | `last_synced_at`, by a poll only when it stored something |
| `TakeJob`, `Throws`, `Returns`, `Promote`, `Recover*` | BullMQ; the order of waiting jobs is left open. A failed poll is followed by the next one, which covers its retries |
| `NewRun`, `RunAdvances`, `Midnight`, `Webhook`, `SetEnabled`, `DeleteRepository` | GitHub, the clock, ingestion and administrators beside the handlers |

A day is the unit of time because the code asks GitHub by day. Retention is one constant
for the repository; runs deleted on GitHub and GitHub's limit of 1000 results are not in
the model. `Webhook` stores any version sent so far: the details are in `PipelineIngest`.

### Membership

`rows`, `invites`, `accounts` and `address` (the e-mail address of each account) are the
tables; an invite that was accepted leaves `invites`, as every query passes it over. An
invite goes to an address. `SignIn` overwrites the address of a user with what GitHub says,
which may be none, or one that another user has, or that was invited. A request is a sequence of statements,
one step each (`pc`), with what it was asked and has read in `ctx`. `Start*` authorises
and begins a request; the reads end it or lead on; the last statement writes. Cascades
of the foreign keys are part of `DeleteUser`.

### Sessions

`token`, `chain` and `issued` are the rows of `refresh_tokens` with the sign-in each
descends from; `refresh` and `access` the cookies of each browser; `call` the requests
under way: sent with the cookies of that moment (`Send`), looked up (`Lookup`), acted on
(`SignIn`, `Rotate`, `Logout`, `LogoutAll`, `SwitchWorkspace`) and answered (`Reply`, which
sets the cookies), or ended anywhere in between (`Drop`). The second look of a refresh
is not a step of its own: a row never becomes live again, so only the last look
counts. `disturbed` and `cleared` observe: the sign-ins of which one token was carried
by two calls at once, or that lost an answer, expired or were ended by logout-all;
and that logout-all ran beside no rotation. Only `CookieStaysLive` excuses a disturbed
session. `OneLivePerSession` excuses nothing: `overlaps` counts, for each sign-in, the
refreshes that looked their token up between another's lookup and its rotation, and each
of them may leave one more live token, through expiry, failures, lost answers and both logouts.

### Bootstrap

`visit` is what each callback has come to: `CountUsers`, `FindUser`, `WriteUser`, then for
the first user `CreateWorkspace` and `AddOwner`, and `StartSession`; `SignInFails` ends it
after any of them. The unique `github_id` and the unique slug fail the loser of two inserts.

### Billing

`space` is the workspace row; `subs, payer, customers, events, made` are Stripe, `shop` the
checkout requests, `delivery` the webhook requests. The handlers compare no times:
`disordered` observes when events were applied out of order or two checkouts crossed,
which is all that `PlanIsPaidPlan` excuses - not failures, repetitions, or the two events
of one checkout in either order. A subscription may be one the customer made at Stripe itself
(`PayElsewhere`): its session names no plan and is answered without a write (`NamesPlan`). It may
also pay a price that the environment does not name (`Unknown`): then the row takes the
subscription and keeps its plan, whatever that was.

### RepoLimit and Workspaces

A request reads the row, the plan, the count and writes, one step each (`ReadRow`,
`ReadPlan`, `CountRepos`, `WriteRow`; `CountSpaces`, `CheckLimit`, `Probe`, `InsertSpace`,
`CheckSlug`, `Rename`, `CountBeforeDelete`, `DeleteSpace`). `Discover` enables without a check
and `PlanChanges` lowers the limit under what is enabled. `allowance` is what plans and
discoveries account for, `peak` the most writes that were about to happen at once
(`room` and `crowd` for workspaces): the limits hold up to the requests that overlap.

### Discovery

`callback`, `link` and `found` are the API and its tables, `find` the jobs in Redis with the
page they have come to, `walk` the worker processes, `installed` GitHub's list. The
install callback looks, writes and queues (`LookupInstallation`, `UpdateLink` or `InsertLink`,
`QueueFind`); the worker reads the integration, fetches a page, stores each repository and
queues its backfill, and saves the next page in the job (`LoadLink`, `FetchPage`,
`UpsertFound`, `QueueRepo`, `Advance`, `Clear`, `Finish`). `Throws` is what BullMQ makes of an
error. `shifted` observes the jobs during which the installation lost a repository: those
after it move up past the reader, and the walk may miss one. `unqueued` observes the
integrations that no job was queued for - a crash between insert and queue, or the
connection through the API, which queues none.

### Retention

`row` is `pipeline_runs` with its repository and day, `today` the clock; `keep` and `hosted`
are the settings and the edition; `cleanup` the job: the days of every repository read once
(`StartCleanup`), then for one repository after the other ids selected (`SelectBatch`) and
deleted (`DeleteBatch`). `excused` are the rows that ran again or whose settings changed
since, which the code may delete wrongly.

### LiveStream

`page` is each page of the web app with its EventSources and what it does next, `grant` the
one-time tokens, `stream`, `aborted` and `wire` the requests at the API and what is written to them. `Mount`, `TokenArrives`, `Opened`, `Receive`,
`OnError`, `FetchFails`, `Reconnect`, `Unmount` are the client; `IssueToken`, `Consume`,
`CheckMember`, `Subscribed`, `Release` the API; `Publish` the worker.

### LiveView

`stored` is the database, `events` what is on its way to the page, `view` what is shown,
`request` the loads under way. The three kinds of page differ in what a load answers (`Answer`) and
how an event is applied (`Patched`): the card shows any run an event is about, the list
ignores its filter, the page of one run takes its own. `useApi` calls
`createWorkspaceApi` at every render, the loading callbacks depend on the result, and so
every change of a page's state loads its data again (`dirty`). That is costly, but
`ViewSettles` rests on it: the mutant that memoizes the client leaves a page stale for ever
after a response that overtook an event. It also means that a page never stops loading: each
answer is a render, so the spinner (`loading`) comes back over and over, and `ViewSettles` only
asks that it goes each time. A load that fails, or is answered with 404 because the run of the
page is not stored yet, shows an error (`failed`) until the next one starts. `succeeded` observes
the runs GitHub reported a success of, `unheard` those it reported in a status `mapGitHubStatus`
does not know: it takes them for completed, without a conclusion, and the badge shows that as
passed. So a run may be shown as passed while GitHub still works on it, and `GreenIsEarned` says
that this is the only way.

### RunPages

`startedAt` is the table, `reader` the cursor. `shown` counts how often a run was on a page,
`moved` are the runs stored or started again meanwhile, which may be shown twice or not at all.

### SettingsPage

`sheet` is which page it is, `entry` the database, `listed` what is shown of each entry - a
sequence, as a row may be shown twice -, `draft` the form, `modal` the dialog that creates a
key, `load` and `ask` the requests under way. As in `LiveView` every render loads the data
again (`StartSheetLoad`), and the skeleton takes the place of the page and of the dialog on
it. `AskSetting` shows a change before its answer, `ShowFailed` puts back what was shown
before it; `OtherAdmin` changes the database beside the page.

### SyncProgress

`tracked` is the database, `task` the backfills on their queue, and the rest the page:
`resyncing` and `posting` belong to a re-sync, `status` are the polls, `report` is what the
card says. A report reads the rows first (`ReadRows`) and the jobs later (`ReadJobs`). Two
things the API means to count never do: BullMQ lists jobs with a priority under
"prioritized", which is not asked for, so a queued backfill counts only once it is active; and a
backfill that ended lately is not found, since the queue removes completed jobs
(`services/sync-status.ts:15`, `queues/index.ts:69`).

### Onboarding

`created`, `connected` and `tracking` are the database, which the worker fills beside the
wizard (`FindRepository`); `url` is the step in the URL and `known` the context, from which
the step that is shown follows (`ActiveStep`): the later of the two. A step that is no longer
shown loses its state (`PickerFollows`). Each request is sent, served and shown by steps of its
own: the context (`ListWorkspaces`, `ReadContext`, `ShowContext`), the list of repositories
(`StartPoll`, `AnswerPoll`, `ShowPoll`) and the PATCHes of one click on "Start syncing"
(`StartSync`, `ServePatch`, `SyncStarted` or `SyncRefused`), which go on when the first of
them has failed. A load of the context that fails is taken for an empty database. The user has at most one workspace.
A poll of the list that fails while rows are there, or that another poll overtakes, leaves the error
in front of the list: nothing polls any more, and only a click on "Retry" brings it back
(`SelectReposStep.tsx:85`, `:242`). `beside` observes that this happened; in every other case
`WizardSettles` asks that the error goes by itself.

### ApiClient

The refresh token and the access token are numbers, issued by one refresh; `unrevoked` and
`expired` are the server's view of them, `jar` the cookies, `memory` what the page sends. A
`call` is sent, refused, waits for a refresh and is sent once more; `refresh` is the refresh
under way, which the calls of one client (`by`) share. The cookies come with its answer
(`Refreshed`), the token only with the next render of the server's layout (`ReadCookie`,
`Seed`), for which nobody waits. `parted` observes that two clients of the page refreshed at
a time, or that a refresh was lost, after which the session may be gone. `Sessions` has the same
exchange with several browsers, signing out and the switch of the workspace, but no page.

## 3. Runs

| run | instance | shows |
|---|---|---|
| `ingest_faults` | 2 workers, 1 run with 1 workflow job, 2 queue jobs, one each of failing call, crash, lost lock, administrator action or purge | given-up jobs used their attempts or stalled too often; dead letters, copies under way and lost copies partition the exhausted jobs; two runners of one job only after a stall; no orphan workflow job; the queue implements `EventDelivery` with its liveness |
| `ingest_single` | 1 worker, reordered, lost and repeated deliveries, a failing call, a crash | when the queue is quiet and nothing failed, subscribers last saw what the database holds |
| `convergence` | deliveries: 1 worker, 3 versions, in order, no fault; polls: 1 poll slot, 1 backfill, 2 runs in 2 versions on pages of 1, one midnight, a webhook | runs never go back to an earlier version, and rows converge to GitHub's last state. Neither holds without these conditions: the upsert compares nothing. The first page of a poll's window converges to GitHub's last versions, although an older answer may overwrite a newer row for a while; every backfill ends |
| `sync_backfill` | 2 workers, 1 job, up to 3 runs on pages of 2, one midnight, one each of crash, lost lock, refused call, administrator action, webhook | a backfill that reached the end has stored every run that existed when it was queued and is within retention: pages that move, resumption at the saved page and two runners of one job lose nothing |
| `membership` | 3 people with 2 addresses, 2 invites at a time, limit 2; requests one after the other that may fail between any two statements, and sign-ins; or 2 requests at once, with 1 address and 1 invite | one after the other: an owner remains, one membership per user, at most one pending invite per address, and none to a member's address but by a sign-in, seats within the plan. At once: the plan is exceeded by fewer members than there are requests |
| `accounts` | sessions: 2 calls, 3 tokens; bootstrap: 3 callbacks of 2 people; billing: 2 checkouts, 2 subscriptions; 3 repositories and 2 PATCHes, 2 workspaces and 2 requests; discovery: 2 callbacks, 2 workers, pages of 1; retention: 2 repositories, 2 rows in batches of 1; one fault in each | a sign-in has one live token, and one more for each refresh that overlapped another between lookup and rotation; unless something befell the session, the token in the cookie is live; logout-all leaves none; the first user becomes the one owner; the row has the subscription in force and the plan it pays for, if its price is configured; limits are exceeded only by what overlaps; a discovery that completes has seen every repository; the last workspace of a community edition stays; the cleanup deletes exactly what expired |
| `dashboard` | discovery: 2 callbacks, 1 worker; polling: PATCHes one after the other, 2 intervals, 2 faults; 1 page, 3 tokens, 2 events, 2 failures; 3 kinds of page with 2 runs; lists of 4 runs on pages of 2; 4 settings pages with 2 entries, 2 requests, a fault; 1 repository, 2 backfills with 2 attempts, 2 clicks, a lost request; onboarding: 2 repositories on a plan for 1, 2 polls at a time, 2 clicks on "Start syncing", a fault; 2 requests of 2 clients, 3 tokens, one expiry, one lost refresh | a connected installation is discovered; an answered PATCH leaves exactly the wanted polling job, or after faults at least that one; a page has one connection, none outlives it, and it is connected again; what a page shows becomes what is stored, and only a success or a status the code does not know is shown as passed; an untouched run is listed once; a settings page and the card of an integration end with the truth; the wizard settles, its list behind an error only when a load failed beside another, and what was selected is what is stored; refreshes of one client at a time keep the session, and the token in memory becomes the one of the cookie |

Runs that find a difference between the code and what is said of it:

| run | said | found |
|---|---|---|
| `membership_owners` | "Blocks demoting the last owner", "Blocks removing the last owner" | two owners demoted or removed at once leave none |
| `session_switch` | "preserve active workspace context after switch-workspace" | a refresh after the access cookie expired takes the browser back to its primary workspace |
| `settings_key` | "one-time full key reveal", "Copy this key now. It won't be shown again." | showing the key renders the table, whose load unmounts the dialog and the key with it |
| `resync_ends` | "re-sync with progress from `sync-status`" | every re-sync is shown as in progress until the page is left |
| `token_retry` | "refreshes once on 401 and retries the original request" | the retry goes out before the new token is in memory, with the one that was refused |

More remarks, without a run:

* The PRD gives the webhook queue "3 retries" with delays of 1, 5 and 30 s, but `attempts: 3`
  counts the first try: there are two retries and the last delay is unused (`LastAttempt`).
* "On permanent failure: move to BullMQ Dead Letter Queue": a job over the stall limit fails with
  attempts left, and `OnFailed` does not move it. `DeadLettersAccountedFor` is about the jobs out of
  attempts.
* "Repo disabled: remove repeatable job": two overlapping PATCHes may leave a job for a disabled
  repository. `SerialSyncExact` is about PATCHes one after the other.
* An invite accepted twice at once makes two memberships; `OneRowPerUser` is checked for
  requests one after the other.
* "Returns to wizard step 3", "User selects repos to track (wizard step 3)": the discovery stores
  repositories as enabled (`services/github/backfill.ts:465`). If one is there before the wizard
  has loaded its context, the database is up to step 4, and the wizard goes there at once: nobody
  is asked what to track. The end-to-end tests store repositories that are disabled.
* The wizard shows the later of the URL's step and the one the database is up to. So "back navigation
  preserved in URL" holds for no step that is done: "Back" shows the same step again, and "Re-entrant: reachable later" does
  not hold either, as step 1 cannot be reached by a user with a workspace. A load that
  fails counts as an empty database ("never regress below completed work"): the card stays blank at
  step 3 or 4, and without a step in the URL the wizard offers to create a workspace once more.
* "Start syncing" sends a PATCH for each repository of the list: those found after the first
  answer that was not empty are not listed and stay enabled, and if a late empty answer
  replaced the list while a selection was there, it sends none. `SelectionStored` is about the repositories of the list.
* The PRD says that the backfill "uses `last_synced_at` as cursor"; the code keeps a page in the
  job's data.

### Bounds

* Ingestion: the orders that matter are between a run and its workflow job, and between
  versions of one entity. `ingest_faults` has one of each, as its properties do not compare
  versions, and spends its states on faults; the runs about versions have up to three.
  `MaxQueued` is the number of deliveries that are enqueued. `MaxAttempts` and
  `MaxStalled` are the code's and BullMQ's values. Each environment event of a budget is
  allowed once; two workers are enough for one handler
  to run beside another.
* Synchronisation: with three runs and pages of two there is a page that is whole, one that
  is not, and an empty one, and new runs move others across the page boundary. One run has a
  second version; `FewChanges` (in `MCRepoSync`) keeps the others at their first, and
  the webhook and the refused call out of one behaviour. Retention
  of one day and one midnight let runs fall out of the window during a backfill. The crash
  and the lost lock together exceed `MaxStalled`. The polls need two runs (one newer, one
  pushed off the page) and two versions (an answer that is overtaken); `MaxAttempts` is 2 instead of 5, which only shortens the sequence of equal retries.
* Polling: the code treats intervals only as equal or different, and a PATCH knows at
  most two of them; two intervals, one of them the default, cover both. Two faults are a
  refused removal and a refused add, or a refusal and a crash.
* Membership: three people are an actor, a target and a bystander. Two invites at a time are one that
  expired beside the next one of the same address, or two addresses invited; how many invites follow each other
  is not bounded. Two addresses let a user go from one that was invited to another. The overlapping requests are about
  the number of members only, for which one invite is enough: it can be accepted by both at once. With a limit of
  two, the third person is the one the plan has no seat for; `MaxRows` exceeds the limit so
  that an excess would be seen.
  Requests one after the other ask for the roles owner and member; admins come in the
  overlapping runs.
* Accounts: two calls are the fewest that overlap; three tokens are a session, its rotation and
  another session or rotation. Three callbacks allow two first sign-ins beside a third of one of
  them. Two plans and one change distinguish a changed plan from an ended one. Limits of 1 and 2
  with three repositories let an upgrade, a downgrade and an overshoot happen. Two callbacks and
  two workers let one job be walked twice and two jobs walk one installation; one repository per
  page makes every repository a page boundary. One integration row in `Links` means an
  installation is not connected again after it was disconnected.
  Two rows in batches of one need a second batch and a last one that is empty; two
  days pass the shorter of the two windows.
* Dashboard: three tokens are a connection, a reconnection
  and a token that is never used; two failures are one of the stream and one of the reconnection.
  Two runs let the card show the wrong one. Four runs at two instants on pages of two put
  runs that started together on both sides of a page boundary. Two loads of a settings page and two polls of a
  card are the fewest of which one overtakes the other; two entries let one change while another is asked about. Two
  backfills with two attempts are one that is retried beside another. Two repositories on a plan
  for one make a selection that the limit refuses; two clicks on "Start syncing" are an attempt
  that failed and another beside its late PATCHes. The context is loaded once at a
  time, the list by two polls. Two requests of one client share a refresh, two of two clients do not;
  three tokens are the first and one for each request; one expiry refuses both.
* `CHECK_DEADLOCK FALSE` everywhere: the system is idle when no delivery or request is
  left and the budgets are spent.

### Fairness

Only the steps of the system itself are fair: the API receives what reached it, each
worker process takes jobs and continues its handler (an event loop), backoffs end (BullMQ's
delayed set), BullMQ looks for abandoned jobs every 30 s, a started copy to the
dead-letter queue ends, and the repeatable poll comes again. Weak fairness is enough, as nothing but a crash disables these
steps for good. In the modules of `MCDashboard` fairness is asked of the whole component (`DiscoveryStep`,
`LiveStreamStep`, `LoadStep`: some step of it happens) and not of each process, which is less than the code
gives; in `LiveView` the event loop also delivers what has arrived (`Deliver`). `SettingsPage` asks it of
its loads and of requests that were sent (`SheetLoadStep`, `AskStep`), `SyncProgress` of the polls and of the
backfill queue (`StatusStep`, `TaskStep`), `Onboarding` of the loads of the context and of the list (`LoadContextStep`,
`ListStep`), but not of the PATCHes or of anything the user or the discovery does, and
`ApiClient` of the answers, the refresh and the render (`ApiClientStep`). `Retention`, `RunPages` and the modules of
`MCAccounts` but `Discovery` state safety only. Nothing is assumed of GitHub, administrators, or failing calls.

## 4. Proofs

All theorems hold for every value of the constants under the modules' `ASSUME`s, which
say only that sets are finite or not empty, that numbers are numbers and that ids do not
clash. A theorem that needs more has it as a hypothesis. Every safety property a run checks is proved.

* `PipelineIngest_proofs`. Type correctness needs `Busy` (a worker past "idle" runs a
  job). `EffectInv` adds `Progressed`: a handler at "publish" has committed, one at
  "settle" has also published, so completing is justified, also for a handler that lost
  its lock. `QueueInv` adds that unused ids are fresh (`Fresh`), that ids in `waitq` are
  waiting and occur once (`Ready`), that a lock is only on active jobs (`Locked`), and that
  a running job is locked by its worker or has stalled (`Running`): without these a job
  could be taken twice and `GiveUpJustified` would not be inductive. `LettersInv` adds
  the partition of exhausted jobs into dead letters, copies and lost copies.
  `OrphanInv`: while a handler holds a run row, the row exists;
  purges and deletions withdraw it. `FeedInv`: committed jobs keep their data. Then every
  step maps to a step of `EventDelivery` or to a stutter (`ImplementsDelivery`, the safety
  part of `DeliveryHolds`).
  Worker processes race in two ways, and `NoRace` excludes both: a job that is run twice at once, and two
  handlers between commit and event of one entity. As long as they do not, `QuietInv` says that what a handler
  has stored and published is still what is stored and published (`Told`), and that a row subscribers have not
  seen has a job left that will publish it (`Debts`): hence `QuietUnlessRaced` for any number of workers, and
  `QuietFeed` for one, which cannot race (`OneWorker` implies `NoRace`). That no run goes back
  needs an order of everything under way: the stored row is no later than the handler's job, that no later than
  the line of ready jobs, each job in the line no later than the next, the last no later than the delivery on its way, and
  that no later than GitHub (`OrderInv`). It holds as long as no two workers are about to store one run (`OneStoring`):
  `NoRegressUnlessRaced`, and `NoRegress` for one worker. The hypothesis `Undisturbed` - deliveries in order, no
  redelivery, failing call, crash or lost lock - still allows lost deliveries, administrators and purges, which the
  run `convergence` excludes; under it a job stores its run at the first attempt (`Calm`), and only workflow jobs whose run is not there yet are retried (`RetriesAreJobs`).
  With no loss and no administrator either (`Undiminished`), `SettleInv` adds where the newest version of a run is
  while the row has an older one: on its way, ready, or with a handler about to store it (`NewestComing`). So
  the queue cannot come to rest behind GitHub (`RestsCaughtUp`). For one worker `LineInv` says that jobs are taken in the order of their
  ids (`InTurn`), that the versions of an entity grow in that order (`VersionsInTurn`), and that the run of a workflow
  job was accepted before it (`RunsBefore`) and is therefore found: no job is ever retried, and at
  rest the workflow jobs too are as GitHub has them (`RestsAsGitHub`). The two are what safety there is in `Converges`.
* `Membership_proofs`. `OvershootLimited` counts the requests that have passed the limit
  check (`Entering`): members plus entering requests stay below limit plus requests, by
  cardinality arithmetic over finite sets. `SerialInv` says for each statement what the
  busy request knows to be still true (`Known`), so that its write keeps `Database`. The invites to members are not part of it,
  as a sign-in may add one; `InvitesStep` shows that nothing else does: a new invite was compared with the addresses of all
  members, and the invite that a new member accepts was the only pending one to that member's address. `Seats` does this for the plan: a
  request that will add a member or an invite knows of a free seat, or holds the pending invite that has one, also if
  that expires before it is accepted (`SerialSeats`). `EachInstance` takes a behaviour of `MCMembership` apart: each of
  its two instances of `Membership` makes its own steps or stutters. `OverlapSeats` is the count of `OvershootLimited`
  over again for the instance with overlapping requests, whose operators are its own, so that the theorems give what the run checks
  (`OverlapHolds`, `SerialHolds`).
* `RepoSync_proofs`. `CoverInv` says where a job's missing runs are: from the page in its
  data on (`Resumable`), and for each handler by its step (`Knows`): from the page it asks
  for, or in the answer it holds, or behind a whole page. `PageEnds` is the core: an answer
  that is no whole page has everything of the window from its page on, because runs are
  listed in the order of their creation (`Timeline`). Positions only grow and the window
  only shrinks (`MissingShrinks`), so every other step keeps it. `BackfillCovers` follows.
* `Sessions_proofs`. A call acts on a token it looked up earlier, so `Inv` follows every token from
  the cookie through the calls that carry it to the answer that replaces it. `OneHolder`: a token is in
  one browser's cookie and that browser's calls, and a new one only in its answer. `OverlapDisturbs`: two calls with one token
  have disturbed its session. Then, in a session that is not disturbed, what a call looked up is still live when
  it acts (`TokensLive`), and a cookie is live or an
  answer that replaces it is on its way (`CookiesLive`). How many tokens of a sign-in are live is counted apart,
  for every session: each refresh past its lookup (`Rotating`) will store one, and what none of them rotates stays
  (`Loose`); together they are no more than one and the overlaps (`SplitsCounted`), since a refresh that passes its lookup
  takes a token that was loose, or overlaps. Each action is first reduced to what it does to tokens and calls
  (`RotateEffect` and so on), and the four parts are kept effect by effect. `Cleared`, for logout-all, stands beside them.
* `PlanLimits_proofs`. A limit is not inductive: a request that has counted will write whatever
  happens meanwhile. `ReposReckoned` therefore counts the repositories that
  are about to be enabled with those that are: when a request passes its check, those others are below
  the limit, and the pending ones are no more than the requests about to write. `OwnedInv` counts the workspaces of a
  user in the same way. `WorkspaceInv` adds that a chosen slug is of the slugs that may be probed, that slugs are distinct, and
  that a community request past its check of the last workspace leaves another one (`AnotherStays`), or `bereft` says that two overlapped.
* `Discovery_proofs`. `DiscoveryInv` follows a repository of `must` through the job: it was handled, or it is in the installation at or
  behind the page saved in the job (`JobsSaw`), and for a worker it was handled, is in the batch it has not yet stored,
  or is behind the page it asks for (`WalksSaw`). An installation without repetition (`IsInjective`) that only grows at its end pushes nobody forward, so
  "behind page p" survives every step but a removal, which sets `shifted`. A page that is not full has everything that is left.
  `InHand` says who still has to act for an integration: its job exists or a callback is about to queue it (`LinksInHand`), and a
  job that is active is the one its worker is at (`JobsInHand`). With nothing under way, then, no integration was
  forgotten but those whose job was never queued (`NoLinkForgotten`).
* `Accounts_proofs`. Bootstrap: while callbacks overlap, `Bootstrapping` says who will still make the
  workspace or its owner: a callback that saw no user, or one past its insert. Billing: `InOrder` says, as long as
  `disordered` is false, that at most one subscription is active, that every open event is of the past or tells what Stripe
  holds, if it names a plan (`EventsFit`), and that the last such event is open or is what the row says (`LastTold`); an older event that is applied again therefore
  finds the last one still open. Retention: a batch in hand holds expired rows of the repository the job is at (`BatchExpired`), every due row that
  was not seen to is of this or a coming repository (`DueToCome`), and a batch that is not full leaves none behind (`LastBatchWhole`).
  `EachComponent` then takes a behaviour of `MCAccounts` apart: each component makes its own steps or stutters, so that
  the theorems about the components give `AccountsTypeOK`, `PlanLimitsHold` and, for each promise the run `accounts` checks, `PromisesKept`.
* `Dashboard_proofs`. PATCHes: `SerialInv`: one request is busy (`Alone`); the row it read
  is the current one (`Current`); at rest the jobs are those of the row (`Rest`, exact
  without faults); while it clears, every stray interval is still to be removed
  (`Clearing`). `OneAtATime` is a hypothesis of these theorems. List of runs: a page takes the next rows in the order of
  the cursor, so everything of it was before the cursor and nothing behind is. Wizard: `StoredStays` says that what an attempt
  stored stays as long as it is alone, and `DoneStored` that all of it was stored when it moves on. Token: `OneRefresh` says, as long as
  `parted` is false, that one token is unrevoked, and that the cookie or the one refresh under way has it.
  Live stream: each step of a page is first reduced to its fields (`Looks`). `LiveInv` says that an open page has
  the source of its own token and any other page none (`PageSound`), that no two pages have one token
  (`TokensApart`), how far the API may be with a token (`TokensInv`), that the API serves a stream only for a page that
  listens or one that aborted it (`StreamsServed`), and that events on their way are in order and none is older than what its page has seen
  (`EventsInOrder`), whence `OneConnectionEach` and `EventsForward`. `PassedOrUnheard` is the safety half of `ViewSettles`: whatever rows are stored, on their
  way, shown or in an answer are green only for runs that passed or have a status the code does not know (`EarnedInv`), so it does not matter which comes last. Settings: a row is added
  only by the answer to a creation, and an entry is created once, so none is shown three times (`EntrySound`). Re-sync: a repository
  is synced no more often than backfills were taken off the queue. What `TokenSettles`, `WizardSettles`, `StreamResumes` and
  `NothingOutlivesThePage` settle on is a state of rest that is right, and that much is safety: a call waits for refreshes that are under
  way, and memory has the cookie's token unless a render will bring it (`TokenFollowsCookie`); a skeleton stands for a load
  under way (`SkeletonsEnd`); a page that stays is connecting or connected (`PagesConnect`), so that at rest it has a stream of
  its own and each stream has a page (`StreamsArePages`). `EachPart` takes a behaviour of `MCDashboard` apart, as
  `EachComponent` does, for `DashboardTypesKept`, `EachPartIsSafe`, `EachPartRests` and `SerialPartIsSafe`.

The types of `RepoSync`, `PipelineIngest` and `Membership` are proved and not checked by a run.

Only model-checked: liveness (`Converges`, `PollsConverge`, `BackfillEnds`, the fair part of
`DeliveryHolds`, `ConnectedIsDiscovered`, the second halves of `NothingOutlivesThePage`, `StreamResumes` and
`ViewSettles`, and `SettingsSettle`, `StatusSettles`, `OnboardingSettles`, `MemorySettles`), which is out of the prover's
reach with `ENABLED`. Of `Converges`, `ConnectedIsDiscovered`, `MemorySettles`, `StreamResumes` and `NothingOutlivesThePage`,
and of the skeletons of `OnboardingSettles`, that a state of rest is the right one is proved; that it comes to rest is not.

## 5. Not modelled

* Installation tokens and rate limits: GitHub keeps every token it issued valid until it
  expires, so processes that refresh side by side do not disturb each other. What a handler sees of
  them, a call that takes long or fails, is in `RepoSync` and `Discovery`.
* A member who is removed or demoted keeps the claims of the access token for up to fifteen
  minutes, and a refresh with an access cookie copies them: in `Sessions` the user is a member
  of every workspace.
* The waitlist: one statement for each operation, and nothing reads it.
* How a request is authenticated by an API key: a read, and a time stamp nobody waits for.
* Parts of pages: validation of forms, the check of a slug, actions that leave a settings page,
  adding and removing an integration on its page (`Discovery` has what they do), the wizard of a
  user of several workspaces. Of the web client's token: other tabs, and what signing out and the switch
  of the workspace do to it.
* Aggregates, insights, jobs and steps on a page, sorting and searching; the marketing site; e-mail and Sentry;
  signature checks and cryptography; deployment. They keep no state of their own, or are only drawn.
* Postgres statements and transactions are atomic steps at READ COMMITTED; Redis commands are atomic.
