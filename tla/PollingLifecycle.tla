-------------------------- MODULE PollingLifecycle --------------------------
(***************************************************************************)
(* Who polls a repository, and how often: the repository row in Postgres   *)
(* and its repeatable "poll-repo" jobs in Redis.                           *)
(*                                                                         *)
(* A PATCH of the repository reads the row, checks the plan limits, writes *)
(* the row and then brings the repeatable job in line with it: it removes  *)
(* the job under the interval of the row it read and of the row it wrote,  *)
(* and adds the job again if the repository is still to be polled.  None   *)
(* of these calls holds a lock or shares a transaction with another, and   *)
(* Redis may refuse any of those it gets.                                  *)
(***************************************************************************)
EXTENDS Naturals, FiniteSets

CONSTANTS
  Requests,       \* PATCH requests that may be in progress at the same time
  Intervals,      \* polling_interval_seconds
  Default,        \* DEFAULT_POLLING_INTERVAL_SECONDS
  GlobalPolling,  \* PIPEWATCH_MODE = "polling"
  OneAtATime,     \* TRUE: a PATCH is sent after the one before was answered
  MaxFaults       \* bound: Redis calls refused and API processes killed

NoInterval == 0

ASSUME PollingAssumption ==
  /\ Intervals \subseteq Nat \ {0} /\ Default \in Intervals
  /\ GlobalPolling \in BOOLEAN /\ OneAtATime \in BOOLEAN
  /\ MaxFaults \in Nat

Rows == [state : {"unknown", "present", "deleted"}, enabled : BOOLEAN,
         interval : Intervals \cup {NoInterval}]

\* A PATCH body: the fields it has, and what it sets them to.
Fields == {"enabled", "interval", "retention"}
Patches == [fields : SUBSET Fields, enabled : BOOLEAN,
            interval : Intervals \cup {NoInterval}]

VARIABLES
  row,       \* the repository
  sched,     \* intervals under which Redis repeats poll:<repoId>
  pc,        \* step of each request
  patch,     \* its body
  before,    \* the row it read
  after,     \* the row it wrote
  todo,      \* intervals whose removal has not been answered
  rejected,  \* one of the removals was refused
  \* observation and bound
  settled,   \* the last PATCH that wrote the row also synced the job
  faults     \* calls refused and processes killed so far

reqVars == <<patch, before, after, todo, rejected>>
vars == <<row, sched, pc, reqVars, settled, faults>>

NoRow == [state |-> "unknown", enabled |-> FALSE, interval |-> NoInterval]
NoPatch == [fields |-> {}, enabled |-> FALSE, interval |-> NoInterval]

TypeOK ==
  /\ row \in Rows
  /\ sched \in SUBSET Intervals
  /\ pc \in [Requests -> {"idle", "update", "remove", "add"}]
  /\ patch \in [Requests -> Patches]
  /\ before \in [Requests -> Rows]
  /\ after \in [Requests -> Rows]
  /\ todo \in [Requests -> SUBSET Intervals]
  /\ rejected \in [Requests -> BOOLEAN]
  /\ settled \in BOOLEAN
  /\ faults \in Nat

Init ==
  /\ row = NoRow
  /\ sched = {}
  /\ pc = [q \in Requests |-> "idle"]
  /\ patch = [q \in Requests |-> NoPatch]
  /\ before = [q \in Requests |-> NoRow]
  /\ after = [q \in Requests |-> NoRow]
  /\ todo = [q \in Requests |-> {}]
  /\ rejected = [q \in Requests |-> FALSE]
  /\ settled = FALSE
  /\ faults = 0

-----------------------------------------------------------------------------

\* resolveEffectivePollingIntervalSeconds, as the set of its result: empty when
\* the repository is in webhook mode.
Effective(r) ==
  IF r.interval # NoInterval THEN {r.interval}
  ELSE IF GlobalPolling THEN {Default} ELSE {}

\* shouldSchedulePolling, as the set of intervals to schedule.
Wanted(r) == IF r.state = "present" /\ r.enabled THEN Effective(r) ELSE {}

\* Mutant: only the new interval is looked for.
Known_NewOnly(old, new) == Effective(new)

\* collectPollingIntervals
Known(old, new) == Effective(new) \cup Effective(old)

Applied(p, r) ==
  [r EXCEPT !.enabled  = IF "enabled" \in p.fields THEN p.enabled ELSE @,
            !.interval = IF "interval" \in p.fields THEN p.interval ELSE @]

Goto(q, step) == pc' = [pc EXCEPT ![q] = step]

\* The request is answered, or dies with its process.
End(q) ==
  /\ Goto(q, "idle")
  /\ patch' = [patch EXCEPT ![q] = NoPatch]
  /\ before' = [before EXCEPT ![q] = NoRow]
  /\ after' = [after EXCEPT ![q] = NoRow]
  /\ todo' = [todo EXCEPT ![q] = {}]
  /\ rejected' = [rejected EXCEPT ![q] = FALSE]

Fault ==
  /\ faults < MaxFaults
  /\ faults' = faults + 1

-----------------------------------------------------------------------------

\* backfillIntegration finds the repository: it is stored enabled, and nothing
\* is scheduled for it.
Discover ==
  /\ row.state = "unknown"
  /\ row' = [state |-> "present", enabled |-> TRUE, interval |-> NoInterval]
  /\ UNCHANGED <<sched, pc, reqVars, settled, faults>>

\* DELETE of the repository, its integration or its workspace: no call to Redis.
Delete ==
  /\ row.state = "present"
  /\ row' = [row EXCEPT !.state = "deleted"]
  /\ UNCHANGED <<sched, pc, reqVars, settled, faults>>

\* updateWorkspaceRepository reads the row.  A repository it does not find, an
\* empty PATCH and one refused by validation or a plan limit end here.
StartPatch(q) ==
  /\ pc[q] = "idle"
  /\ OneAtATime => \A p \in Requests : pc[p] = "idle"
  /\ row.state = "present"
  /\ \E p \in Patches : p.fields # {} /\ patch' = [patch EXCEPT ![q] = p]
  /\ before' = [before EXCEPT ![q] = row]
  /\ Goto(q, "update")
  /\ UNCHANGED <<row, sched, after, todo, rejected, settled, faults>>

\* A plan limit refuses to enable the repository.
RefuseToEnable(q) ==
  /\ pc[q] = "update"
  /\ ~before[q].enabled /\ Applied(patch[q], before[q]).enabled
  /\ End(q)
  /\ UNCHANGED <<row, sched, settled, faults>>

\* UPDATE ... RETURNING: only the columns of the PATCH are written.  The row may
\* be gone.
WriteRow(q) ==
  /\ pc[q] = "update"
  /\ \/ /\ row.state = "present"
        /\ row' = Applied(patch[q], row)
        /\ after' = [after EXCEPT ![q] = row']
        /\ todo' = [todo EXCEPT ![q] = Known(before[q], row')]
        /\ settled' = FALSE
        /\ Goto(q, "remove")
        /\ UNCHANGED <<patch, before, rejected>>
     \/ /\ row.state # "present"
        /\ End(q)
        /\ UNCHANGED <<row, settled>>
  /\ UNCHANGED <<sched, faults>>

\* removePollingRepeatable: the removals are sent together and answered in any
\* order; removing what is not there is no error.
RemoveRepeatable(q, i) ==
  /\ pc[q] = "remove" /\ i \in todo[q]
  /\ sched' = sched \ {i}
  /\ todo' = [todo EXCEPT ![q] = @ \ {i}]
  /\ UNCHANGED <<row, pc, patch, before, after, rejected, settled, faults>>

RemovalFails(q, i) ==
  /\ pc[q] = "remove" /\ i \in todo[q]
  /\ Fault
  /\ todo' = [todo EXCEPT ![q] = @ \ {i}]
  /\ rejected' = [rejected EXCEPT ![q] = TRUE]
  /\ UNCHANGED <<row, sched, pc, patch, before, after, settled>>

\* All removals are answered: one that was refused ends the request with a 500.
AfterRemovals(q) ==
  /\ pc[q] = "remove" /\ todo[q] = {}
  /\ \/ rejected[q] /\ End(q)
     \/ ~rejected[q] /\ Goto(q, "add") /\ UNCHANGED reqVars
  /\ UNCHANGED <<row, sched, settled, faults>>

\* Mutant: the interval column is used as it is, null or not.
AddRepeatable_RawColumn(q) ==
  /\ pc[q] = "add"
  /\ sched' = sched \cup (IF after[q].enabled THEN {after[q].interval} ELSE {})
  /\ settled' = TRUE
  /\ End(q)
  /\ UNCHANGED <<row, faults>>

\* Mutant: the job is added only when the PATCH changed something about it.
AddRepeatable_IfChanged(q) ==
  /\ pc[q] = "add"
  /\ sched' = IF Effective(before[q]) = Effective(after[q]) /\ before[q].enabled
                THEN sched ELSE sched \cup Wanted(after[q])
  /\ settled' = TRUE
  /\ End(q)
  /\ UNCHANGED <<row, faults>>

\* addPollingRepeatable
AddRepeatable(q) ==
  /\ pc[q] = "add"
  /\ sched' = sched \cup Wanted(after[q])
  /\ settled' = TRUE
  /\ End(q)
  /\ UNCHANGED <<row, faults>>

\* Redis refuses the add: the row stays as written.
AddFails(q) ==
  /\ pc[q] = "add" /\ Wanted(after[q]) # {}
  /\ Fault
  /\ End(q)
  /\ UNCHANGED <<row, sched, settled>>

\* The API process dies.
Crash(q) ==
  /\ pc[q] # "idle"
  /\ Fault
  /\ End(q)
  /\ UNCHANGED <<row, sched, settled>>

Sync(q) ==
  \/ WriteRow(q) \/ AfterRemovals(q) \/ AddRepeatable(q)
  \/ \E i \in Intervals : RemoveRepeatable(q, i)

Next ==
  \/ Discover \/ Delete
  \/ \E q \in Requests :
       StartPatch(q) \/ RefuseToEnable(q) \/ Sync(q) \/ AddFails(q) \/ Crash(q)
  \/ \E q \in Requests, i \in Intervals : RemovalFails(q, i)

Spec == Init /\ [][Next]_vars

-----------------------------------------------------------------------------

Quiet == \A q \in Requests : pc[q] = "idle"

\* PATCHes one after the other and no fault so far: once a PATCH has been
\* answered, the repository is polled under the interval of its row and no
\* other, or not at all - although a PATCH looks only for the intervals of the
\* rows it has seen.
SerialSyncExact ==
  Quiet /\ faults = 0 /\ settled /\ row.state = "present" => sched = Wanted(row)

\* One after the other, whatever was refused or killed before: a PATCH that is
\* answered without an error leaves the repository polled as its row says, and
\* repairs a job that an earlier one failed to add.
SerialSyncRepairs ==
  Quiet /\ settled /\ row.state = "present" => Wanted(row) \subseteq sched

=============================================================================
