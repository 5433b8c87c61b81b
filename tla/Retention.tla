------------------------------ MODULE Retention ------------------------------
(***************************************************************************)
(* The nightly cleanup: it reads the settings of all repositories once,    *)
(* works out how many days each keeps, and deletes what is older, a batch  *)
(* at a time - one statement selects the ids, the next deletes them.       *)
(*                                                                         *)
(* Meanwhile runs are stored and re-run, settings and plans change, days   *)
(* pass, and the worker may die: the job is then tried again from the top. *)
(***************************************************************************)
EXTENDS Naturals, FiniteSets

CONSTANTS
  RetentionRepos,
  Rows,             \* rows of pipeline_runs: a run stored anew has another id
  BatchSize,
  FixedDays,        \* what a free plan keeps, and the least a paid one may keep
  CeilingDays,      \* the most a paid plan keeps
  EnvDays,          \* RETENTION_DAYS of a community edition
  LastDay,          \* bound: days
  MaxHistory,       \* bound: runs stored later than the day they started
  MaxSettings,      \* bound: changes of settings
  MaxCleanupCrashes \* bound

Unset == 0               \* retention_days is null
NoRepository == "none"

ASSUME RetentionAssumption ==
  /\ NoRepository \notin RetentionRepos /\ IsFiniteSet(Rows)
  /\ BatchSize \in Nat \ {0} /\ EnvDays \in Nat \ {0}
  /\ FixedDays \in Nat \ {0} /\ CeilingDays \in Nat /\ FixedDays <= CeilingDays
  /\ LastDay \in Nat /\ MaxHistory \in Nat /\ MaxSettings \in Nat /\ MaxCleanupCrashes \in Nat

VARIABLES
  hosted,    \* the Cloud edition
  today,
  row,       \* each row: its repository and the day it started
  keep,      \* retention_days of each repository, the workspace's default and plan
  cleanup,   \* the job in progress
  \* observation and bounds
  due,       \* rows the cleanup found expired when it started
  excused,   \* rows stored or started again since, or whose settings changed
  history, settings, cleanupCrashes

retentionVars ==
  <<hosted, today, row, keep, cleanup, due, excused, history, settings, cleanupCrashes>>

NoRun == [repo |-> NoRepository, day |-> 0]
NoCleanup == [step |-> "idle", left |-> {}, repo |-> NoRepository, now |-> 0,
              days |-> [r \in RetentionRepos |-> 0], batch |-> {}]

Stored == {i \in Rows : row[i] # NoRun}
DayChoices == 1 .. CeilingDays

RetentionTypeOK ==
  /\ hosted \in BOOLEAN
  /\ today \in 0 .. LastDay
  /\ row \in [Rows -> [repo : RetentionRepos \cup {NoRepository}, day : 0 .. LastDay]]
  /\ keep \in [repo : [RetentionRepos -> DayChoices \cup {Unset}], default : DayChoices,
               plan : {"free", "pro"}]
  /\ cleanup \in [step : {"idle", "repo", "select", "delete"}, left : SUBSET RetentionRepos,
                  repo : RetentionRepos \cup {NoRepository}, now : 0 .. LastDay,
                  days : [RetentionRepos -> Nat], batch : SUBSET Rows]
  /\ Cardinality(cleanup.batch) <= BatchSize
  /\ due \in SUBSET Rows /\ excused \in SUBSET Rows
  /\ history \in 0 .. MaxHistory /\ settings \in 0 .. MaxSettings
  /\ cleanupCrashes \in 0 .. MaxCleanupCrashes

Shorter(m, n) == IF m < n THEN m ELSE n

\* resolveEffectiveRetentionDays
EffectiveDays(r) ==
  LET base == IF keep.repo[r] # Unset THEN keep.repo[r]
              ELSE IF hosted THEN keep.default ELSE EnvDays
  IN IF ~hosted THEN base
     ELSE IF keep.plan = "free" THEN FixedDays ELSE Shorter(base, CeilingDays)

\* What the settings of this moment keep.
WithinWindow(i) == row[i].day + EffectiveDays(row[i].repo) >= today

\* Started before the cutoff the job works with.
BeforeCutoff(i, r) == row[i].repo = r /\ row[i].day + cleanup.days[r] < cleanup.now

RetentionInit ==
  /\ hosted \in BOOLEAN
  /\ today = 0
  /\ row = [i \in Rows |-> NoRun]
  /\ keep = [repo |-> [r \in RetentionRepos |-> Unset], default |-> FixedDays, plan |-> "free"]
  /\ cleanup = NoCleanup
  /\ due = {} /\ excused = {}
  /\ history = 0 /\ settings = 0 /\ cleanupCrashes = 0

-----------------------------------------------------------------------------

Excuse(S) == excused' = IF cleanup.step = "idle" THEN {} ELSE excused \cup S

\* A run is stored: a new one, or by a backfill one that started earlier, inside the
\* window (retentionCreatedSince).
StoreRun(i) ==
  /\ row[i] = NoRun /\ i \notin cleanup.batch
  /\ \E r \in RetentionRepos, d \in 0 .. today :
       /\ d + EffectiveDays(r) >= today
       /\ row' = [row EXCEPT ![i] = [repo |-> r, day |-> d]]
       /\ IF d = today THEN UNCHANGED history
          ELSE history < MaxHistory /\ history' = history + 1
  /\ Excuse({i})
  /\ UNCHANGED <<hosted, today, keep, cleanup, due, settings, cleanupCrashes>>

\* It runs again: the upsert moves its start to today.
Rerun(i) ==
  /\ i \in Stored /\ row[i].day # today
  /\ row' = [row EXCEPT ![i].day = today]
  /\ Excuse({i})
  /\ UNCHANGED <<hosted, today, keep, cleanup, due, settings, cleanupCrashes, history>>

\* A PATCH of a repository or of the workspace, whose days a Cloud edition keeps
\* between the minimum and the plan's maximum; or the plan changes.
ChangeSettings ==
  /\ settings < MaxSettings
  /\ settings' = settings + 1
  /\ \E days \in DayChoices, p \in {"free", "pro"} :
       LET clamped == IF ~hosted THEN days
                      ELSE Shorter(days, IF keep.plan = "free" THEN FixedDays ELSE CeilingDays)
       IN \/ /\ ~hosted \/ days >= FixedDays
             /\ \/ \E r \in RetentionRepos, d \in {Unset, clamped} :
                     keep' = [keep EXCEPT !.repo[r] = d]
                \/ keep' = [keep EXCEPT !.default = clamped]
          \/ hosted /\ keep' = [keep EXCEPT !.plan = p]
  /\ Excuse(Rows)
  /\ UNCHANGED <<hosted, today, row, cleanup, due, cleanupCrashes, history>>

NextDay ==
  /\ today < LastDay
  /\ today' = today + 1
  /\ UNCHANGED <<hosted, row, keep, cleanup, due, excused, history, settings, cleanupCrashes>>

-----------------------------------------------------------------------------

\* retentionCleanup: one statement reads the settings of every repository.
StartCleanup ==
  /\ cleanup.step = "idle"
  /\ cleanup' = [step |-> "repo", left |-> RetentionRepos, repo |-> NoRepository,
                 now |-> today, days |-> [r \in RetentionRepos |-> EffectiveDays(r)],
                 batch |-> {}]
  /\ due' = {i \in Stored : ~WithinWindow(i)}
  /\ UNCHANGED <<hosted, today, row, keep, excused, history, settings, cleanupCrashes>>

\* The repositories come in no order.
NextRepo ==
  /\ cleanup.step = "repo"
  /\ IF cleanup.left = {} THEN cleanup' = NoCleanup /\ due' = {} /\ excused' = {}
     ELSE \E r \in cleanup.left :
            /\ cleanup' = [cleanup EXCEPT !.step = "select", !.repo = r, !.left = @ \ {r}]
            /\ UNCHANGED <<due, excused>>
  /\ UNCHANGED <<hosted, today, row, keep, settings, cleanupCrashes, history>>

\* deleteExpiredRunsBatch selects the ids of a batch ...
SelectBatch ==
  /\ cleanup.step = "select"
  /\ LET expired == {i \in Stored : BeforeCutoff(i, cleanup.repo)} IN
       \E S \in SUBSET expired :
         /\ Cardinality(S) = Shorter(BatchSize, Cardinality(expired))
         /\ cleanup' = IF S = {} THEN [cleanup EXCEPT !.step = "repo"]
                       ELSE [cleanup EXCEPT !.step = "delete", !.batch = S]
  /\ UNCHANGED <<hosted, today, row, keep, due, excused, history, settings, cleanupCrashes>>

\* Mutant: the loop ends with the first batch.
DeleteBatch_Once ==
  /\ cleanup.step = "delete"
  /\ row' = [i \in Rows |-> IF i \in cleanup.batch THEN NoRun ELSE row[i]]
  /\ cleanup' = [cleanup EXCEPT !.step = "repo", !.batch = {}]
  /\ UNCHANGED <<hosted, today, keep, due, excused, history, settings, cleanupCrashes>>

\* ... and deletes them, whatever became of them; a batch that is not full is the
\* last of its repository.
DeleteBatch ==
  /\ cleanup.step = "delete"
  /\ row' = [i \in Rows |-> IF i \in cleanup.batch THEN NoRun ELSE row[i]]
  /\ cleanup' = [cleanup EXCEPT !.batch = {},
       !.step = IF Cardinality(cleanup.batch) < BatchSize THEN "repo" ELSE "select"]
  /\ UNCHANGED <<hosted, today, keep, due, excused, history, settings, cleanupCrashes>>

\* The worker dies or a statement fails: the job starts over, or waits for the
\* next night.
CleanupDies ==
  /\ cleanup.step # "idle"
  /\ cleanupCrashes < MaxCleanupCrashes
  /\ cleanupCrashes' = cleanupCrashes + 1
  /\ cleanup' = NoCleanup
  /\ due' = {} /\ excused' = {}
  /\ UNCHANGED <<hosted, today, row, keep, settings, history>>

CleanupStep == StartCleanup \/ NextRepo \/ SelectBatch \/ DeleteBatch

RetentionNext ==
  \/ CleanupStep \/ CleanupDies \/ ChangeSettings \/ NextDay
  \/ \E i \in Rows : StoreRun(i) \/ Rerun(i)

RetentionSpec == RetentionInit /\ [][RetentionNext]_retentionVars

-----------------------------------------------------------------------------

\* The cleanup takes no run that is kept: one it deletes is outside the window of
\* its repository by the settings of the moment, unless it ran again or the
\* settings changed since the job read them.  And one that ends has deleted every
\* run that was expired when it started and has not run again: no batch and no
\* repository was left out.
CleanupIsExact ==
  [][/\ \A i \in Stored : row'[i] = NoRun => ~WithinWindow(i) \/ i \in excused
     /\ cleanup.step = "repo" /\ cleanup' = NoCleanup /\ cleanupCrashes' = cleanupCrashes =>
          \A i \in due \ excused : row[i] = NoRun]_retentionVars

=============================================================================
