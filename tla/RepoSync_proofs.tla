-------------------------- MODULE RepoSync_proofs --------------------------
(***************************************************************************)
(* Theorems about RepoSync, for any number of jobs, handlers, runs and     *)
(* days: type correctness, and that a backfill that reached the end has    *)
(* stored the history it was queued for.                                   *)
(***************************************************************************)
EXTENDS RepoSync, FiniteSetTheorems, TLAPS

USE SyncAssumption

-----------------------------------------------------------------------------
(* Types.                                                                   *)

\* A busy backfill slot runs a job; a polling slot never does.
Busy ==
  /\ \A h \in BackfillWorkers : pc[h] # "idle" => job[h] \in Jobs
  /\ \A h \in PollWorkers : pc[h] \notin {"next", "clear", "settle"}

TypeInv == TypeOK /\ Busy

\* The handler variables when the handler of h is over.
LEMMA LeaveTypes ==
  ASSUME TypeInv, NEW h \in Handlers, Leave(h)
  PROVE  /\ pc' \in [Handlers -> Steps]
         /\ job' \in [Handlers -> Jobs \cup {NoJob}]
         /\ page' \in [Handlers -> Nat \ {0}]
         /\ since' \in [Handlers -> Days]
         /\ seen' \in [Handlers -> Versions]
         /\ full' \in [Handlers -> BOOLEAN]
         /\ Busy'
<1>1. Nothing \in Versions
  BY DEF Nothing, Versions
<1>2. FirstDay \in Days /\ 1 \in Nat \ {0}
  BY DEF Days
<1>3. /\ pc' \in [Handlers -> Steps]
      /\ job' \in [Handlers -> Jobs \cup {NoJob}]
      /\ page' \in [Handlers -> Nat \ {0}]
      /\ since' \in [Handlers -> Days]
      /\ seen' \in [Handlers -> Versions]
      /\ full' \in [Handlers -> BOOLEAN]
  BY <1>1, <1>2 DEF TypeInv, TypeOK, Leave, Goto, Steps
<1>4. Busy'
  BY DEF TypeInv, TypeOK, Busy, Leave, Goto, Handlers
<1> QED
  BY <1>3, <1>4

\* What is left of the types when a handler throws, or returns.
LEMMA ThrowsTypes ==
  ASSUME TypeInv, NEW h \in Handlers, pc[h] # "idle", Throws(h) \/ Returns(h),
         UNCHANGED <<ghVars, dbVars, owed>>, finished' = finished,
         left' \in [EnvEvents -> Nat]
  PROVE  TypeInv'
<1>1. Leave(h)
  BY DEF Throws, Returns
<1>2. Owns(h) => job[h] \in Jobs
  BY DEF Owns, TypeInv, Busy
<1>3. /\ attempts' \in [Jobs -> Nat]
      /\ jstate' \in [Jobs -> JobStates]
      /\ lock' \in [Jobs -> BackfillWorkers \cup {NoWorker}]
      /\ stalls' = stalls /\ runsPage' = runsPage
  BY <1>2 DEF Throws, Returns, TypeInv, TypeOK, JobStates
<1> QED
  BY <1>1, <1>3, LeaveTypes DEF TypeInv, TypeOK, ghVars, dbVars

LEMMA SpendTypes ==
  ASSUME TypeOK, NEW k \in EnvEvents, Spend(k)
  PROVE  left' \in [EnvEvents -> Nat]
BY DEF TypeOK, Spend

LEMMA TypeInit == Init => TypeInv
<1> SUFFICES ASSUME Init PROVE TypeInv
  OBVIOUS
<1>1. Nothing \in Versions
  BY DEF Nothing, Versions
<1>2. ver \in Versions
  BY DEF Init, Versions
<1>3. born \in [AllRuns -> Days]
  BY DEF Init, Days
<1>4. /\ today \in Days /\ nRuns \in 0..MaxRuns
      /\ repo \in {"enabled", "disabled", "deleted"}
      /\ synced \in Days /\ row \in Versions
  BY <1>1 DEF Init, Days, NeverSynced
<1>5. /\ jstate \in [Jobs -> JobStates]
      /\ attempts \in [Jobs -> Nat] /\ stalls \in [Jobs -> Nat]
      /\ lock \in [Jobs -> BackfillWorkers \cup {NoWorker}]
      /\ runsPage \in [Jobs -> Nat \ {0}]
      /\ owed \in [Jobs -> SUBSET AllRuns]
      /\ finished \in SUBSET Jobs
      /\ left \in [EnvEvents -> Nat]
  BY DEF Init, JobStates
<1>6. /\ pc \in [Handlers -> Steps]
      /\ job \in [Handlers -> Jobs \cup {NoJob}]
      /\ page \in [Handlers -> Nat \ {0}]
      /\ since \in [Handlers -> Days]
      /\ seen \in [Handlers -> Versions]
      /\ full \in [Handlers -> BOOLEAN]
  BY <1>1 DEF Init, Steps, Days
<1>7. Busy
  BY DEF Init, Busy, Handlers
<1> QED
  BY <1>2, <1>3, <1>4, <1>5, <1>6, <1>7 DEF TypeInv, TypeOK

LEMMA EnvironmentTypes == TypeInv /\ Environment => TypeInv'
<1> SUFFICES ASSUME TypeInv, Environment PROVE TypeInv'
  OBVIOUS
<1> USE DEF TypeInv
<1>1. CASE NewRun
  <2>1. nRuns + 1 \in AllRuns /\ nRuns' \in 0..MaxRuns
    BY <1>1 DEF NewRun, TypeOK, AllRuns
  <2>2. born' \in [AllRuns -> Days]
    BY <1>1 DEF NewRun, TypeOK
  <2>3. ver' \in Versions
    <3>1. 1 \in 0..MaxVersion
      OBVIOUS
    <3> QED
      BY <1>1, <3>1 DEF NewRun, TypeOK, Versions
  <2> QED
    BY <1>1, <2>1, <2>2, <2>3
    DEF NewRun, TypeOK, Busy, dbVars, queueVars, handlerVars, readVars, ghostVars
<1>2. CASE Midnight
  BY <1>2 DEF Midnight, TypeOK, Busy, Days, dbVars, queueVars, handlerVars, readVars, ghostVars
<1>3. CASE DeleteRepository
  <2>1. left' \in [EnvEvents -> Nat]
    BY <1>3, SpendTypes DEF DeleteRepository, EnvEvents
  <2>2. row' \in Versions
    BY <1>3 DEF DeleteRepository, Nothing, Versions
  <2> QED
    BY <1>3, <2>1, <2>2
    DEF DeleteRepository, TypeOK, Busy, ghVars, queueVars, handlerVars, readVars, ghostVars
<1>4. ASSUME NEW n \in AllRuns, RunAdvances(n) PROVE TypeInv'
  <2>1. ver' \in Versions
    BY <1>4 DEF RunAdvances, TypeOK, Versions
  <2> QED
    BY <1>4, <2>1
    DEF RunAdvances, TypeOK, Busy, dbVars, queueVars, handlerVars, readVars, ghostVars
<1>5. ASSUME NEW n \in AllRuns, Webhook(n) PROVE TypeInv'
  <2>1. left' \in [EnvEvents -> Nat]
    BY <1>5, SpendTypes DEF Webhook, EnvEvents
  <2>2. row' \in Versions
    BY <1>5 DEF Webhook, TypeOK, Versions
  <2> QED
    BY <1>5, <2>1, <2>2
    DEF Webhook, TypeOK, Busy, ghVars, queueVars, handlerVars, readVars, ghostVars
<1>6. ASSUME NEW s \in {"enabled", "disabled"}, SetEnabled(s) PROVE TypeInv'
  <2>1. left' \in [EnvEvents -> Nat]
    BY <1>6, SpendTypes DEF SetEnabled, EnvEvents
  <2> QED
    BY <1>6, <2>1
    DEF SetEnabled, TypeOK, Busy, ghVars, queueVars, handlerVars, readVars, ghostVars
<1>7. ASSUME NEW b \in Jobs, Enqueue(b) PROVE TypeInv'
  <2>1. 1..nRuns \in SUBSET AllRuns
    BY DEF TypeOK, AllRuns
  <2> QED
    BY <1>7, <2>1
    DEF Enqueue, TypeOK, Busy, JobStates, ghVars, dbVars, handlerVars, readVars
<1>8. ASSUME NEW b \in Jobs, RecoverHeldUp(b) PROVE TypeInv'
  <2>1. left' \in [EnvEvents -> Nat]
    BY <1>8, SpendTypes DEF RecoverHeldUp, EnvEvents
  <2> QED
    BY <1>8, <2>1
    DEF RecoverHeldUp, Recover, TypeOK, Busy, JobStates, ghVars, dbVars, handlerVars,
        readVars, ghostVars
<1>9. ASSUME NEW h \in Handlers, CallFails(h) PROVE TypeInv'
  <2>1. left' \in [EnvEvents -> Nat]
    BY <1>9, SpendTypes DEF CallFails, EnvEvents
  <2> QED
    BY <1>9, <2>1, ThrowsTypes DEF CallFails, ghostVars
<1>10. ASSUME NEW h \in Handlers, Crash(h) PROVE TypeInv'
  <2>1. left' \in [EnvEvents -> Nat]
    BY <1>10, SpendTypes DEF Crash, EnvEvents
  <2> QED
    BY <1>10, <2>1, LeaveTypes DEF Crash, TypeOK, ghVars, dbVars, queueVars, ghostVars
<1> QED
  BY <1>1, <1>2, <1>3, <1>4, <1>5, <1>6, <1>7, <1>8, <1>9, <1>10 DEF Environment

LEMMA QueueTypes ==
  ASSUME TypeInv, NEW b \in Jobs, Queue(b)
  PROVE  TypeInv'
BY DEF TypeInv, Queue, FailStalledJob, Promote, RecoverAbandoned, Recover, TypeOK, Busy,
       JobStates, ghVars, dbVars, handlerVars, readVars, ghostVars

LEMMA TakeTypes ==
  ASSUME TypeInv, NEW h \in BackfillWorkers, NEW b \in Jobs, TakeJob(h, b)
  PROVE  TypeInv'
<1>1. h \in Handlers /\ h \notin PollWorkers
  BY DEF Handlers
<1>2. Busy'
  BY <1>1 DEF TypeInv, TakeJob, Goto, TypeOK, Busy, Handlers
<1> QED
  BY <1>1, <1>2 DEF TypeInv, TakeJob, Goto, TypeOK, JobStates, Steps, ghVars, dbVars,
       readVars, ghostVars

LEMMA PollStartTypes ==
  ASSUME TypeInv, NEW h \in PollWorkers, PollStart(h)
  PROVE  TypeInv'
<1>1. h \in Handlers /\ h \notin BackfillWorkers
  BY DEF Handlers
<1>2. Busy'
  BY <1>1 DEF TypeInv, PollStart, Goto, TypeOK, Busy, Handlers
<1> QED
  BY <1>1, <1>2 DEF TypeInv, PollStart, Goto, TypeOK, Steps, ghVars, dbVars, queueVars,
       readVars, ghostVars

LEMMA AnswerTypes ==
  ASSUME TypeInv, NEW h \in Handlers, NEW ans \in SUBSET (1..nRuns), Reads(h, ans)
  PROVE  /\ seen' \in [Handlers -> Versions]
         /\ full' \in [Handlers -> BOOLEAN]
<1>1. [n \in AllRuns |-> IF n \in ans THEN ver[n] ELSE 0] \in Versions
  BY DEF TypeInv, TypeOK, Versions
<1> QED
  BY <1>1 DEF Reads, TypeInv, TypeOK

LEMMA HandleTypes ==
  ASSUME TypeInv, NEW h \in Handlers, Handle(h)
  PROVE  TypeInv'
<1> USE DEF TypeInv
<1>0. h \in BackfillWorkers /\ pc[h] # "idle" => job[h] \in Jobs
  BY DEF Busy
<1>1. left' \in [EnvEvents -> Nat] /\ nRuns' = nRuns
  BY DEF Handle, Load, Fetch, Store, NextPage, Mark, Clear, Settle, TypeOK, ghVars
<1>2. CASE Load(h)
  <2>1. CASE repo # "enabled"
    BY <1>1, <1>2, <2>1, ThrowsTypes DEF Load, ghostVars
  <2>2. CASE repo = "enabled"
    <3>1. CreatedSince(h) \in Days
      BY DEF CreatedSince, PollSince, Cutoff, TypeOK, Days
    <3>2. (IF h \in PollWorkers THEN 1 ELSE runsPage[job[h]]) \in Nat \ {0}
      BY <1>0, <1>2 DEF Load, TypeOK, Handlers
    <3>3. page' \in [Handlers -> Nat \ {0}] /\ since' \in [Handlers -> Days]
      BY <1>2, <2>2, <3>1, <3>2 DEF Load, TypeOK
    <3>4. Busy' /\ pc' \in [Handlers -> Steps]
      BY <1>0, <1>2, <2>2 DEF Load, Goto, TypeOK, Busy, Steps, Handlers
    <3> QED
      BY <1>1, <1>2, <2>2, <3>3, <3>4 DEF Load, TypeOK, ghVars, dbVars, queueVars, ghostVars
  <2> QED
    BY <2>1, <2>2
<1>3. CASE Fetch(h)
  <2> DEFINE ans == Answer(page[h], since[h])
  <2>1. ans \in SUBSET (1..nRuns)
    BY DEF Answer
  <2> HIDE DEF ans
  <2>2. \/ Returns(h)
        \/ /\ (Goto(h, "store") \/ (h \in BackfillWorkers /\ Goto(h, "mark")))
           /\ Reads(h, ans) /\ UNCHANGED queueVars
    BY <1>3 DEF Fetch, ans
  <2>3. CASE Returns(h)
    BY <1>1, <1>3, <2>3, ThrowsTypes DEF Fetch, ghostVars
  <2>4. CASE ~Returns(h)
    <3>1. Busy' /\ pc' \in [Handlers -> Steps]
      BY <1>0, <1>3, <2>2, <2>4 DEF Fetch, Goto, Reads, TypeOK, Busy, Steps, Handlers
    <3> QED
      BY <1>1, <1>3, <2>1, <2>2, <2>4, <3>1, AnswerTypes
      DEF Fetch, Reads, TypeOK, ghVars, dbVars, queueVars, ghostVars
  <2> QED
    BY <2>3, <2>4
<1>4. CASE Store(h)
  <2>1. CASE repo = "deleted"
    BY <1>1, <1>4, <2>1, ThrowsTypes DEF Store, dbVars, ghostVars
  <2>2. CASE repo # "deleted"
    <3>1. PICK n \in Unstored(h) :
             /\ row' = [row EXCEPT ![n] = seen[h][n]]
             /\ seen' = [seen EXCEPT ![h][n] = 0]
             /\ Goto(h, IF Unstored(h) # {n} THEN "store"
                        ELSE IF full[h] /\ h \in BackfillWorkers THEN "next" ELSE "mark")
      BY <1>4, <2>2 DEF Store
    <3>2. row' \in Versions /\ seen' \in [Handlers -> Versions]
      <4>1. seen[h] \in Versions /\ n \in AllRuns
        BY DEF Unstored, TypeOK
      <4>2. [seen[h] EXCEPT ![n] = 0] \in Versions
        BY <4>1 DEF Versions
      <4> QED
        BY <3>1, <4>1, <4>2 DEF TypeOK, Versions
    <3>3. Busy' /\ pc' \in [Handlers -> Steps]
      <4>1. job' = job
        BY <1>4, <2>2 DEF Store
      <4> DEFINE step == IF Unstored(h) # {n} THEN "store"
                         ELSE IF full[h] /\ h \in BackfillWorkers THEN "next" ELSE "mark"
      <4>2. step \in {"store", "mark"} \/ (step = "next" /\ h \in BackfillWorkers)
        OBVIOUS
      <4>3. pc' = [pc EXCEPT ![h] = step]
        BY <3>1 DEF Goto
      <4> HIDE DEF step
      <4> QED BY <1>0, <1>4, <4>1, <4>2, <4>3 DEF Store, TypeOK, Busy, Steps, Handlers
    <3> QED
      BY <1>1, <1>4, <2>2, <3>2, <3>3 DEF Store, TypeOK, ghVars, queueVars, ghostVars
  <2> QED
    BY <2>1, <2>2
<1>5. CASE NextPage(h)
  <2>1. h \in BackfillWorkers
    BY <1>5 DEF NextPage, Busy, Handlers
  <2>2. CASE JobGone(h)
    BY <1>1, <1>5, <2>2, ThrowsTypes DEF NextPage, ghostVars
  <2>3. CASE ~JobGone(h)
    <3>1. page[h] + 1 \in Nat \ {0}
      BY DEF TypeOK
    <3>2. page' \in [Handlers -> Nat \ {0}] /\ runsPage' \in [Jobs -> Nat \ {0}]
      BY <1>5, <2>3, <3>1 DEF NextPage, TypeOK
    <3>3. Busy' /\ pc' \in [Handlers -> Steps]
      BY <1>0, <1>5, <2>1, <2>3 DEF NextPage, Goto, TypeOK, Busy, Steps, Handlers
    <3> QED
      BY <1>1, <1>5, <2>3, <3>2, <3>3 DEF NextPage, TypeOK, ghVars, dbVars, ghostVars
  <2> QED
    BY <2>2, <2>3
<1>6. CASE Mark(h)
  <2>1. synced' \in Days
    BY <1>6 DEF Mark, TypeOK
  <2>2. CASE h \in PollWorkers
    <3>1. Returns(h) /\ finished' = finished
      BY <1>6, <2>2 DEF Mark
    <3>2. Leave(h) /\ ~Owns(h)
      BY <2>2, <3>1 DEF Returns, Owns
    <3> QED
      BY <1>1, <1>6, <2>1, <3>1, <3>2, LeaveTypes DEF Mark, Returns, TypeOK, ghVars
  <2>3. CASE h \in BackfillWorkers
    <3>1. Busy' /\ pc' \in [Handlers -> Steps]
      BY <1>0, <1>6, <2>3 DEF Mark, Goto, TypeOK, Busy, Steps, Handlers
    <3> QED
      BY <1>0, <1>1, <1>6, <2>1, <2>3, <3>1 DEF Mark, TypeOK, ghVars, queueVars, readVars
  <2> QED
    BY <2>2, <2>3 DEF Handlers
<1>7. CASE Clear(h)
  <2>1. h \in BackfillWorkers
    BY <1>7 DEF Clear, Busy, Handlers
  <2>2. CASE JobGone(h)
    BY <1>1, <1>7, <2>2, ThrowsTypes DEF Clear, ghostVars
  <2>3. CASE ~JobGone(h)
    <3>1. Busy' /\ pc' \in [Handlers -> Steps]
      BY <1>0, <1>7, <2>1, <2>3 DEF Clear, Goto, TypeOK, Busy, Steps, Handlers
    <3>2. runsPage' \in [Jobs -> Nat \ {0}]
      BY <1>7, <2>3 DEF Clear, TypeOK
    <3> QED
      BY <1>1, <1>7, <2>3, <3>1, <3>2 DEF Clear, TypeOK, ghVars, dbVars, readVars, ghostVars
  <2> QED
    BY <2>2, <2>3
<1>8. CASE Settle(h)
  BY <1>1, <1>8, ThrowsTypes DEF Settle, ghostVars
<1> QED
  BY <1>2, <1>3, <1>4, <1>5, <1>6, <1>7, <1>8 DEF Handle

LEMMA TypeStep == TypeInv /\ [Next]_vars => TypeInv'
<1> SUFFICES ASSUME TypeInv, [Next]_vars PROVE TypeInv'
  OBVIOUS
<1>1. CASE Environment
  BY <1>1, EnvironmentTypes
<1>2. ASSUME NEW b \in Jobs, Queue(b) PROVE TypeInv'
  BY <1>2, QueueTypes
<1>3. ASSUME NEW h \in BackfillWorkers, Take(h) PROVE TypeInv'
  BY <1>3, TakeTypes DEF Take
<1>4. ASSUME NEW h \in PollWorkers, PollStart(h) PROVE TypeInv'
  BY <1>4, PollStartTypes
<1>5. ASSUME NEW h \in Handlers, Handle(h) PROVE TypeInv'
  BY <1>5, HandleTypes
<1>6. CASE UNCHANGED vars
  BY <1>6 DEF TypeInv, TypeOK, Busy, vars, ghVars, dbVars, queueVars, handlerVars,
       readVars, ghostVars
<1> QED
  BY <1>1, <1>2, <1>3, <1>4, <1>5, <1>6 DEF Next

\* Every variable keeps its type, for any number of jobs, slots, runs and days.
THEOREM TypeCorrect == Spec => []TypeOK
<1>1. Spec => []TypeInv
  BY TypeInit, TypeStep, PTL DEF Spec
<1>2. TypeInv => TypeOK
  BY DEF TypeInv
<1> QED
  BY <1>1, <1>2, PTL

-----------------------------------------------------------------------------
(* What a backfill has read.                                                *)

\* GitHub's runs in the order of their creation; a backfill is owed some of them.
Timeline ==
  /\ \A n \in AllRuns : born[n] <= today
  /\ \A m, n \in 1..nRuns : m < n => born[m] <= born[n]
  /\ \A n \in 1..nRuns : ver[n] > 0
  /\ \A b \in Jobs : owed[b] \subseteq 1..nRuns

\* A job that was not queued yet has left no trace.
Fresh ==
  \A b \in Jobs : jstate[b] = "none" =>
    /\ owed[b] = {} /\ b \notin finished /\ runsPage[b] = 1
    /\ \A h \in Handlers : job[h] # b

\* Runs that a job still has to store.
Missing(b) == {n \in owed[b] : born[n] >= Cutoff /\ row[n] = 0}

\* The position at which page p begins.
Offset(p) == (p - 1) * PageSize

\* They are all on page p or a later one.
Beyond(b, p) == \A n \in Missing(b) : nRuns - n >= Offset(p)

\* What a handler knows of its job's missing runs: it asks for all within
\* retention, and while it holds an answer,
\* they are in it, or on a later page if it was a whole page.
Knows(h) ==
  LET b == job[h] IN
  /\ pc[h] \in {"fetch", "store", "next"} => since[h] <= Cutoff
  /\ pc[h] = "fetch" => Beyond(b, page[h])
  /\ pc[h] = "store" =>
       \A n \in Missing(b) :
         seen[h][n] > 0 \/ (full[h] /\ nRuns - n >= Offset(page[h] + 1))
  /\ pc[h] = "next" => Beyond(b, page[h] + 1)
  /\ pc[h] = "mark" => Missing(b) = {}

\* The page that a job continues with, and its end.
Resumable(b) ==
  /\ Beyond(b, runsPage[b])
  /\ b \in finished => Missing(b) = {}

CoverInv ==
  /\ TypeInv /\ Timeline /\ Fresh
  /\ repo # "deleted" =>
       /\ \A b \in Jobs : Resumable(b)
       /\ \A h \in BackfillWorkers : Knows(h)

LEMMA OffsetNext ==
  ASSUME NEW p \in Nat \ {0}
  PROVE  /\ Offset(p) \in Nat /\ Offset(p + 1) = Offset(p) + PageSize
         /\ Offset(p + 1) = p * PageSize
         /\ Offset(1) = 0
<1>1. PageSize \in Nat /\ p - 1 \in Nat /\ (p + 1) - 1 = p
  OBVIOUS
<1>2. (p - 1) * PageSize + PageSize = p * PageSize
  OBVIOUS
<1>3. (p - 1) * PageSize \in Nat
  BY <1>1
<1>4. (1 - 1) * PageSize = 0
  OBVIOUS
<1> QED
  BY <1>1, <1>2, <1>3, <1>4 DEF Offset

\* An answer holds every run of the window from its page on, or it is a whole
\* page and the run is on a later one.
LEMMA PageEnds ==
  ASSUME TypeInv, Timeline, NEW p \in Nat \ {0}, NEW day \in Int,
         NEW n \in 1..nRuns, born[n] >= day, nRuns - n >= Offset(p),
         n \notin Answer(p, day)
  PROVE  Cardinality(Answer(p, day)) = PageSize /\ nRuns - n >= Offset(p + 1)
<1> DEFINE a == nRuns - Offset(p + 1) + 1
           z == nRuns - Offset(p)
<1>0. nRuns \in Nat
  BY DEF TypeInv, TypeOK
<1>1. /\ Offset(p) \in Nat /\ Offset(p + 1) = Offset(p) + PageSize
      /\ Offset(p) = (p - 1) * PageSize /\ Offset(p + 1) = p * PageSize
  BY OffsetNext DEF Offset
<1> HIDE DEF Offset
<1>2. Answer(p, day) = {m \in 1..nRuns : born[m] >= day /\ nRuns - m \in Offset(p)..(Offset(p + 1) - 1)}
  BY <1>1 DEF Answer, OnPage
<1>3. nRuns - n >= Offset(p + 1)
  BY <1>0, <1>1, <1>2
<1>4. a \in Int /\ z \in Int /\ z - a + 1 = PageSize /\ a > n /\ z <= nRuns /\ a <= z
  BY <1>0, <1>1, <1>3
<1>5. ASSUME NEW m \in Int
      PROVE  m \in a..z <=> m \in 1..nRuns /\ nRuns - m \in Offset(p)..(Offset(p + 1) - 1)
  BY <1>0, <1>1, <1>4
<1>6. ASSUME NEW m \in a..z PROVE m \in 1..nRuns /\ born[m] >= day
  <2>1. m \in Int /\ m \in 1..nRuns /\ n < m
    BY <1>4, <1>5
  <2>2. born[n] <= born[m]
    BY <2>1 DEF Timeline
  <2>3. born[n] \in Int /\ born[m] \in Int
    BY <1>0, <2>1 DEF TypeInv, TypeOK, AllRuns, Days
  <2> QED
    BY <2>1, <2>2, <2>3
<1>7. Answer(p, day) = a..z
  BY <1>2, <1>5, <1>6
<1> HIDE DEF a, z
<1>8. Cardinality(a..z) = PageSize
  <2>1. Cardinality(a..z) = IF a > z THEN 0 ELSE z - a + 1
    BY <1>4, FS_Interval, Zenon
  <2> QED
    BY <1>4, <2>1
<1> QED
  BY <1>3, <1>7, <1>8

\* Time goes on, and rows stay unless the repository goes.
Grows ==
  /\ today' >= today /\ nRuns' >= nRuns
  /\ \A n \in 1..nRuns : born'[n] = born[n]
  /\ repo' # "deleted" =>
       repo # "deleted" /\ \A n \in AllRuns : row[n] > 0 => row'[n] > 0

LEMMA Later ==
  ASSUME NEW r \in Int, NEW s \in Int, NEW n \in Int, NEW k \in Int, r <= s
  PROVE  s - n >= r - n /\ (r - n >= k => s - n >= k)
OBVIOUS

LEMMA MissingShrinks ==
  ASSUME TypeInv, TypeInv', Timeline, Grows, repo' # "deleted",
         NEW b \in Jobs, owed'[b] = owed[b]
  PROVE  \A n \in Missing(b)' : n \in Missing(b) /\ nRuns' - n >= nRuns - n
<1> SUFFICES ASSUME NEW n \in Missing(b)'
             PROVE  n \in Missing(b) /\ nRuns' - n >= nRuns - n
  OBVIOUS
<1>1. n \in 1..nRuns /\ n \in AllRuns /\ n \in owed[b]
  BY DEF Missing, Timeline, TypeInv, TypeOK, AllRuns
<1>2. /\ born'[n] = born[n] /\ born[n] \in Int /\ today \in Int /\ today' \in Int
      /\ row[n] \in Nat /\ row'[n] \in Nat /\ nRuns \in Nat /\ nRuns' \in Nat
  BY <1>1 DEF Grows, TypeInv, TypeOK, Days, Versions
<1>3. born'[n] >= today' - Retention /\ row'[n] = 0
  BY DEF Missing, Cutoff
<1>4. row[n] = 0
  BY <1>1, <1>2, <1>3 DEF Grows
<1>5. born[n] >= today - Retention
  BY <1>2, <1>3 DEF Grows
<1> QED
  <2>1. n \in Missing(b)
    BY <1>1, <1>4, <1>5 DEF Missing, Cutoff
  <2>2. nRuns' - n >= nRuns - n
    <3>1. nRuns <= nRuns' /\ nRuns \in Int /\ nRuns' \in Int /\ n \in Int
      BY <1>1, <1>2 DEF Grows
    <3> QED
      BY <3>1, Later
  <2> QED
    BY <2>1, <2>2

LEMMA BeyondKept ==
  ASSUME TypeInv, TypeInv', Timeline, Grows, repo' # "deleted",
         NEW b \in Jobs, owed'[b] = owed[b], NEW p \in Nat \ {0}, Beyond(b, p)
  PROVE  Beyond(b, p)'
<1> SUFFICES ASSUME NEW n \in Missing(b)' PROVE nRuns' - n >= Offset(p)
  BY DEF Beyond, Offset
<1>1. n \in Missing(b) /\ nRuns' - n >= nRuns - n
  BY MissingShrinks
<1>2. nRuns - n >= Offset(p) /\ Offset(p) \in Nat
  BY <1>1, OffsetNext DEF Beyond
<1>3. n \in Int /\ nRuns \in Int /\ nRuns' \in Int
  BY <1>1 DEF Missing, TypeInv, TypeOK, AllRuns
<1> HIDE DEF Offset
<1> QED
  BY <1>1, <1>2, <1>3

Same(h) ==
  /\ pc'[h] = pc[h] /\ job'[h] = job[h] /\ page'[h] = page[h]
  /\ since'[h] = since[h] /\ seen'[h] = seen[h] /\ full'[h] = full[h]

Reading == {"fetch", "store", "next", "mark"}

LEMMA KnowsKept ==
  ASSUME TypeInv, TypeInv', Timeline, Grows, repo' # "deleted", owed' = owed,
         NEW h \in BackfillWorkers, Knows(h), Same(h) \/ pc'[h] \notin Reading
  PROVE  Knows(h)'
<1>1. CASE pc'[h] \notin Reading
  BY <1>1 DEF Knows, Reading
<1>2. CASE pc'[h] \in Reading
  <2>1. Same(h) /\ pc[h] \in Reading
    BY <1>2 DEF Same
  <2>2. PICK b \in Jobs, p \in Nat \ {0} : b = job[h] /\ p = page[h]
    BY <2>1 DEF TypeInv, TypeOK, Busy, Reading, Handlers
  <2>3. b = job'[h] /\ p = page'[h] /\ owed'[b] = owed[b] /\ p + 1 \in Nat \ {0}
    BY <2>1, <2>2 DEF Same
  <2>4. pc'[h] = "fetch" => Beyond(b, p)'
    <3> SUFFICES ASSUME pc'[h] = "fetch" PROVE Beyond(b, p)'
      OBVIOUS
    <3>1. Beyond(b, p)
      BY <2>1, <2>2 DEF Knows, Same
    <3> QED
      BY <2>3, <3>1, BeyondKept
  <2>8. pc'[h] \in {"fetch", "store", "next"} => since'[h] <= Cutoff'
    <3>1. since'[h] = since[h] /\ since[h] \in Int /\ today \in Int /\ today' \in Int
      BY <2>1 DEF Same, TypeInv, TypeOK, Days, Handlers
    <3> QED
      BY <2>1, <3>1 DEF Knows, Same, Cutoff, Grows
  <2>5. pc'[h] = "store" =>
          \A n \in Missing(b)' :
            seen'[h][n] > 0 \/ (full'[h] /\ nRuns' - n >= Offset(p + 1))
    <3> SUFFICES ASSUME pc'[h] = "store", NEW n \in Missing(b)'
                 PROVE  seen'[h][n] > 0 \/ (full'[h] /\ nRuns' - n >= Offset(p + 1))
      OBVIOUS
    <3>1. n \in Missing(b) /\ nRuns' - n >= nRuns - n
      BY <2>3, MissingShrinks
    <3>2. seen[h][n] > 0 \/ (full[h] /\ nRuns - n >= Offset(p + 1))
      BY <2>1, <2>2, <3>1 DEF Knows, Same
    <3>3. n \in Int /\ nRuns \in Int /\ nRuns' \in Int /\ Offset(p + 1) \in Int
      BY <3>1, OffsetNext DEF Missing, TypeInv, TypeOK, AllRuns
    <3>4. seen'[h] = seen[h] /\ full'[h] = full[h]
      BY <2>1 DEF Same
    <3>5. CASE seen[h][n] > 0
      BY <3>4, <3>5
    <3>6. CASE full[h] /\ nRuns - n >= Offset(p + 1)
      <4>1. nRuns' - n >= Offset(p + 1)
        <5>1. nRuns <= nRuns'
          BY <3>3 DEF Grows
        <5> QED
          BY <3>3, <3>6, <5>1, Later
      <4>2. full'[h]
        BY <3>4, <3>6
      <4> QED
        BY <4>1, <4>2
    <3> QED
      BY <3>2, <3>5, <3>6
  <2>6. pc'[h] = "next" => Beyond(b, p + 1)'
    <3> SUFFICES ASSUME pc'[h] = "next" PROVE Beyond(b, p + 1)'
      OBVIOUS
    <3>1. Beyond(b, p + 1)
      BY <2>1, <2>2 DEF Knows, Same
    <3> QED
      BY <2>3, <3>1, BeyondKept
  <2>7. pc'[h] = "mark" => Missing(b)' = {}
    BY <2>1, <2>2, <2>3, MissingShrinks DEF Knows, Same
  <2> QED
    BY <2>3, <2>4, <2>5, <2>6, <2>7, <2>8 DEF Knows, Offset, Beyond
<1> QED
  BY <1>1, <1>2

LEMMA ResumableKept ==
  ASSUME TypeInv, TypeInv', Timeline, Grows, repo' # "deleted",
         NEW b \in Jobs, owed'[b] = owed[b], runsPage'[b] = runsPage[b],
         b \in finished' => b \in finished, Resumable(b)
  PROVE  Resumable(b)'
<1>1. PICK p \in Nat \ {0} : p = runsPage[b]
  BY DEF TypeInv, TypeOK
<1>2. Beyond(b, p)'
  BY <1>1, BeyondKept DEF Resumable
<1>3. b \in finished' => Missing(b)' = {}
  BY MissingShrinks DEF Resumable
<1> QED
  BY <1>1, <1>2, <1>3 DEF Resumable, Beyond, Offset

\* The part of CoverInv that most steps keep for the same reason.
LEMMA CoverKept ==
  ASSUME CoverInv, TypeInv', Timeline', Fresh', Grows, owed' = owed,
         runsPage' = runsPage, finished' = finished,
         \A h \in BackfillWorkers : Same(h) \/ pc'[h] \notin Reading
  PROVE  CoverInv'
<1> SUFFICES ASSUME repo' # "deleted"
             PROVE  /\ \A b \in Jobs : Resumable(b)'
                    /\ \A h \in BackfillWorkers : Knows(h)'
  BY DEF CoverInv
<1>1. repo # "deleted"
  BY DEF Grows
<1>2. ASSUME NEW b \in Jobs PROVE Resumable(b)'
  BY <1>1, ResumableKept DEF CoverInv
<1>3. ASSUME NEW h \in BackfillWorkers PROVE Knows(h)'
  BY <1>1, KnowsKept DEF CoverInv
<1> QED
  BY <1>2, <1>3

LEMMA CoverInit == Init => CoverInv
<1> SUFFICES ASSUME Init PROVE CoverInv
  OBVIOUS
<1>1. TypeInv
  BY TypeInit
<1>2. Timeline
  <2>1. nRuns \in 0..MaxRuns /\ 1..nRuns \subseteq AllRuns
    BY DEF Init, AllRuns
  <2>2. \A n \in AllRuns : born[n] <= today
    BY DEF Init
  <2>3. \A m, n \in 1..nRuns : m < n => born[m] <= born[n]
    BY <2>1 DEF Init
  <2>4. \A n \in 1..nRuns : ver[n] > 0
    BY <2>1 DEF Init
  <2> QED
    BY <2>2, <2>3, <2>4 DEF Init, Timeline
<1>3. Fresh
  BY DEF Init, Fresh
<1>4. \A b \in Jobs : Missing(b) = {}
  BY DEF Init, Missing
<1>5. \A b \in Jobs : Resumable(b)
  BY <1>4 DEF Resumable, Beyond
<1>6. \A h \in BackfillWorkers : Knows(h)
  BY DEF Init, Knows, Handlers
<1> QED
  BY <1>1, <1>2, <1>3, <1>5, <1>6 DEF CoverInv

LEMMA TimelineKept ==
  ASSUME Timeline, UNCHANGED ghVars, owed' = owed
  PROVE  Timeline'
BY DEF Timeline, ghVars

LEMMA FreshKept ==
  ASSUME Fresh, owed' = owed, finished' = finished, runsPage' = runsPage,
         \A b \in Jobs : jstate'[b] = "none" => jstate[b] = "none",
         \A h \in Handlers : job'[h] = job[h] \/ job'[h] = NoJob
  PROVE  Fresh'
BY DEF Fresh

\* Steps that neither move a handler nor touch GitHub.
LEMMA QuietCover ==
  ASSUME CoverInv, TypeInv', UNCHANGED <<ghVars, repo, row, runsPage, handlerVars, ghostVars>>,
         \A b \in Jobs : jstate'[b] = "none" => jstate[b] = "none"
  PROVE  CoverInv'
<1>1. Timeline' /\ Fresh'
  BY TimelineKept, FreshKept DEF CoverInv, handlerVars, ghostVars
<1>2. Grows
  BY DEF Grows, ghVars, CoverInv, TypeInv, TypeOK, Days
<1>3. \A h \in BackfillWorkers : Same(h)
  BY DEF Same, handlerVars, readVars
<1> QED
  BY <1>1, <1>2, <1>3, CoverKept DEF ghostVars

LEMMA LeaveCover ==
  ASSUME CoverInv, TypeInv', NEW h \in Handlers, Leave(h),
         UNCHANGED <<ghVars, repo, row, runsPage, ghostVars>>,
         \A b \in Jobs : jstate'[b] = "none" => jstate[b] = "none"
  PROVE  CoverInv'
<1>1. /\ pc'[h] = "idle" /\ \A g \in Handlers : job'[g] = job[g] \/ job'[g] = NoJob
      /\ \A g \in Handlers : g # h => Same(g)
  BY DEF Leave, Goto, Same, CoverInv, TypeInv, TypeOK
<1>2. Timeline' /\ Fresh'
  BY <1>1, TimelineKept, FreshKept DEF CoverInv, ghostVars
<1>3. Grows
  BY DEF Grows, ghVars, CoverInv, TypeInv, TypeOK, Days
<1>4. \A g \in BackfillWorkers : Same(g) \/ pc'[g] \notin Reading
  BY <1>1 DEF Reading, Handlers
<1> QED
  BY <1>2, <1>3, <1>4, CoverKept DEF ghostVars

LEMMA EndCover ==
  ASSUME CoverInv, TypeInv', NEW h \in Handlers, pc[h] # "idle", Throws(h) \/ Returns(h),
         UNCHANGED <<ghVars, repo, row, ghostVars>>
  PROVE  CoverInv'
<1>1. Leave(h) /\ UNCHANGED runsPage
  BY DEF Throws, Returns
<1>2. \A b \in Jobs : jstate'[b] = "none" => jstate[b] = "none"
  BY DEF Throws, Returns, CoverInv, TypeInv, TypeOK
<1> QED
  BY <1>1, <1>2, LeaveCover DEF ghostVars

LEMMA EnvironmentCover == CoverInv /\ Environment => CoverInv'
<1> SUFFICES ASSUME CoverInv, Environment PROVE CoverInv'
  OBVIOUS
<1>0. TypeInv'
  BY EnvironmentTypes DEF CoverInv
<1>1. CASE NewRun
  <2>1. nRuns \in Nat /\ nRuns' = nRuns + 1 /\ nRuns + 1 \in AllRuns /\ today' = today
    BY <1>1 DEF NewRun, CoverInv, TypeInv, TypeOK, AllRuns
  <2>2. \A n \in AllRuns : born'[n] = IF n > nRuns THEN today ELSE born[n]
    BY <1>1 DEF NewRun
  <2>3. Timeline'
    <3>1. \A n \in AllRuns : born'[n] <= today'
      BY <2>1, <2>2 DEF CoverInv, TypeInv, TypeOK, Timeline, Days
    <3>2. ASSUME NEW m \in 1..nRuns', NEW n \in 1..nRuns', m < n PROVE born'[m] <= born'[n]
      <4>1. m \in 1..nRuns /\ m \in AllRuns /\ n \in AllRuns /\ born'[m] = born[m]
        BY <2>1, <2>2, <3>2 DEF AllRuns
      <4>2. CASE n \in 1..nRuns
        <5>1. born[m] <= born[n]
          BY <3>2, <4>1, <4>2 DEF CoverInv, Timeline
        <5>2. born'[n] = born[n]
          BY <2>1, <2>2, <4>1, <4>2
        <5> QED
          BY <4>1, <5>1, <5>2
      <4>3. CASE n \notin 1..nRuns
        <5>1. born'[n] = today
          BY <2>1, <2>2, <4>1, <4>3
        <5> QED
          BY <4>1, <5>1 DEF CoverInv, Timeline
      <4> QED
        BY <4>2, <4>3
    <3>3. \A n \in 1..nRuns' : ver'[n] > 0
      BY <1>1, <2>1 DEF NewRun, CoverInv, TypeInv, TypeOK, Timeline, Versions, AllRuns
    <3>4. \A b \in Jobs : owed'[b] \subseteq 1..nRuns'
      <4>1. 1..nRuns \subseteq 1..nRuns'
        BY <2>1
      <4> QED
        BY <1>1, <4>1 DEF NewRun, ghostVars, CoverInv, Timeline
    <3> QED
      BY <3>1, <3>2, <3>3, <3>4 DEF Timeline
  <2>4. Fresh'
    BY <1>1, FreshKept DEF NewRun, CoverInv, queueVars, handlerVars, ghostVars
  <2>5. Grows
    <3>1. \A n \in 1..nRuns : born'[n] = born[n]
      BY <2>1, <2>2 DEF AllRuns
    <3> QED
      BY <1>1, <2>1, <3>1 DEF NewRun, Grows, dbVars, CoverInv, TypeInv, TypeOK, Days
  <2>6. \A h \in BackfillWorkers : Same(h)
    BY <1>1 DEF NewRun, Same, handlerVars, readVars
  <2> QED
    BY <1>0, <1>1, <2>3, <2>4, <2>5, <2>6, CoverKept DEF NewRun, queueVars, ghostVars
<1>2. CASE Midnight
  <2>1. Timeline'
    BY <1>2 DEF Midnight, CoverInv, TypeInv, TypeOK, Timeline, Days, ghostVars
  <2>2. Fresh'
    BY <1>2, FreshKept DEF Midnight, CoverInv, queueVars, handlerVars, ghostVars
  <2>3. Grows
    BY <1>2 DEF Midnight, Grows, dbVars, CoverInv, TypeInv, TypeOK, Days
  <2>4. \A h \in BackfillWorkers : Same(h)
    BY <1>2 DEF Midnight, Same, handlerVars, readVars
  <2> QED
    BY <1>0, <1>2, <2>1, <2>2, <2>3, <2>4, CoverKept DEF Midnight, queueVars, ghostVars
<1>3. CASE DeleteRepository
  <2>1. Timeline' /\ Fresh'
    BY <1>3, TimelineKept, FreshKept
    DEF DeleteRepository, CoverInv, queueVars, handlerVars, ghostVars
  <2> QED
    BY <1>0, <1>3, <2>1 DEF DeleteRepository, CoverInv
<1>4. ASSUME NEW n \in AllRuns, RunAdvances(n) PROVE CoverInv'
  <2>1. Timeline'
    BY <1>4 DEF RunAdvances, CoverInv, TypeInv, TypeOK, Timeline, Versions, AllRuns, ghostVars
  <2>2. Fresh'
    BY <1>4, FreshKept DEF RunAdvances, CoverInv, queueVars, handlerVars, ghostVars
  <2>3. Grows
    BY <1>4 DEF RunAdvances, Grows, dbVars, CoverInv, TypeInv, TypeOK, Days
  <2>4. \A h \in BackfillWorkers : Same(h)
    BY <1>4 DEF RunAdvances, Same, handlerVars, readVars
  <2> QED
    BY <1>0, <1>4, <2>1, <2>2, <2>3, <2>4, CoverKept DEF RunAdvances, queueVars, ghostVars
<1>5. ASSUME NEW n \in AllRuns, Webhook(n) PROVE CoverInv'
  <2>1. Timeline' /\ Fresh'
    BY <1>5, TimelineKept, FreshKept DEF Webhook, CoverInv, queueVars, handlerVars, ghostVars
  <2>2. Grows
    BY <1>5 DEF Webhook, Grows, ghVars, CoverInv, TypeInv, TypeOK, Days, Versions
  <2>3. \A h \in BackfillWorkers : Same(h)
    BY <1>5 DEF Webhook, Same, handlerVars, readVars
  <2> QED
    BY <1>0, <1>5, <2>1, <2>2, <2>3, CoverKept DEF Webhook, queueVars, ghostVars
<1>6. ASSUME NEW s \in {"enabled", "disabled"}, SetEnabled(s) PROVE CoverInv'
  <2>1. Timeline' /\ Fresh'
    BY <1>6, TimelineKept, FreshKept DEF SetEnabled, CoverInv, queueVars, handlerVars, ghostVars
  <2>2. Grows
    BY <1>6 DEF SetEnabled, Grows, ghVars, CoverInv, TypeInv, TypeOK, Days
  <2>3. \A h \in BackfillWorkers : Same(h)
    BY <1>6 DEF SetEnabled, Same, handlerVars, readVars
  <2> QED
    BY <1>0, <1>6, <2>1, <2>2, <2>3, CoverKept DEF SetEnabled, queueVars, ghostVars
<1>7. ASSUME NEW b \in Jobs, Enqueue(b) PROVE CoverInv'
  <2>1. /\ jstate[b] = "none" /\ jstate' = [jstate EXCEPT ![b] = "waiting"]
        /\ owed' = [owed EXCEPT ![b] = 1..nRuns]
        /\ UNCHANGED <<today, nRuns, born, ver, repo, row, runsPage, job, finished>>
        /\ \A h \in BackfillWorkers : Same(h)
    BY <1>7 DEF Enqueue, Same, ghVars, dbVars, handlerVars, readVars
  <2>2. owed'[b] = 1..nRuns /\ runsPage[b] = 1 /\ b \notin finished
        /\ \A h \in Handlers : job[h] # b
    BY <2>1 DEF CoverInv, TypeInv, TypeOK, Fresh
  <2>3. \A c \in Jobs : c # b => owed'[c] = owed[c]
    BY <2>1 DEF CoverInv, TypeInv, TypeOK
  <2>4. Timeline'
    BY <2>1, <2>2, <2>3 DEF CoverInv, Timeline
  <2>5. Fresh'
    BY <2>1, <2>2, <2>3 DEF CoverInv, TypeInv, TypeOK, Fresh
  <2>6. ASSUME repo # "deleted", NEW c \in Jobs PROVE Resumable(c)'
    <3>1. CASE c = b
      <4>1. ASSUME NEW n \in Missing(b)' PROVE nRuns' - n >= Offset(1)
        <5>1. n \in 1..nRuns /\ nRuns \in Nat
          BY <2>1, <2>2 DEF Missing, CoverInv, TypeInv, TypeOK
        <5> QED
          BY <2>1, <5>1, OffsetNext
      <4> QED
        BY <2>1, <2>2, <3>1, <4>1 DEF Resumable, Beyond, Offset
    <3>2. CASE c # b
      BY <2>1, <2>3, <2>6, <3>2 DEF CoverInv, Resumable, Beyond, Missing, Cutoff, Offset
    <3> QED
      BY <3>1, <3>2
  <2>7. ASSUME repo # "deleted", NEW h \in BackfillWorkers PROVE Knows(h)'
    <3>1. CASE pc[h] \in Reading
      <4>1. job[h] \in Jobs /\ job[h] # b
        BY <2>2, <3>1 DEF CoverInv, TypeInv, Busy, Reading, Handlers
      <4>2. Missing(job[h])' = Missing(job[h])
        BY <2>1, <2>3, <4>1 DEF Missing, Cutoff
      <4> QED
        BY <2>1, <2>7, <4>2 DEF CoverInv, Knows, Same, Beyond, Cutoff, Offset, Missing
    <3>2. CASE pc[h] \notin Reading
      BY <2>1, <3>2 DEF Same, Knows, Reading
    <3> QED
      BY <3>1, <3>2
  <2> QED
    BY <1>0, <2>1, <2>4, <2>5, <2>6, <2>7 DEF CoverInv
<1>8. ASSUME NEW b \in Jobs, RecoverHeldUp(b) PROVE CoverInv'
  BY <1>0, <1>8, QuietCover
  DEF RecoverHeldUp, Recover, dbVars, CoverInv, TypeInv, TypeOK
<1>9. ASSUME NEW h \in Handlers, CallFails(h) PROVE CoverInv'
  BY <1>0, <1>9, EndCover DEF CallFails, dbVars
<1>10. ASSUME NEW h \in Handlers, Crash(h) PROVE CoverInv'
  BY <1>0, <1>10, LeaveCover DEF Crash, dbVars, queueVars
<1> QED
  BY <1>1, <1>2, <1>3, <1>4, <1>5, <1>6, <1>7, <1>8, <1>9, <1>10 DEF Environment

LEMMA QueueCover ==
  ASSUME CoverInv, NEW b \in Jobs, Queue(b)
  PROVE  CoverInv'
<1>1. TypeInv'
  BY QueueTypes DEF CoverInv
<1> QED
  BY <1>1, QuietCover DEF Queue, FailStalledJob, Promote, RecoverAbandoned, Recover, dbVars,
     CoverInv, TypeInv, TypeOK

\* A handler starts.
LEMMA StartCover ==
  ASSUME CoverInv, NEW h \in Handlers,
         \/ h \in BackfillWorkers /\ Take(h)
         \/ h \in PollWorkers /\ PollStart(h)
  PROVE  CoverInv'
<1>1. TypeInv'
  BY TakeTypes, PollStartTypes DEF CoverInv, Take
<1>2. /\ UNCHANGED <<ghVars, dbVars, runsPage, ghostVars>>
      /\ pc'[h] = "load" /\ \A g \in Handlers : g # h => Same(g)
  BY DEF Take, TakeJob, PollStart, Goto, Same, queueVars, readVars, CoverInv, TypeInv, TypeOK
<1>3. Timeline'
  BY <1>2, TimelineKept DEF CoverInv, ghostVars
<1>4. Fresh'
  <2>1. CASE \E b \in Jobs : TakeJob(h, b)
    BY <1>2, <2>1 DEF TakeJob, Fresh, ghostVars, CoverInv, TypeInv, TypeOK
  <2>2. CASE PollStart(h)
    BY <2>2, FreshKept DEF PollStart, queueVars, ghostVars, CoverInv
  <2> QED
    BY <2>1, <2>2 DEF Take
<1>5. Grows
  BY <1>2 DEF Grows, ghVars, dbVars, CoverInv, TypeInv, TypeOK, Days
<1>6. \A g \in BackfillWorkers : Same(g) \/ pc'[g] \notin Reading
  BY <1>2 DEF Reading, Handlers
<1> QED
  BY <1>1, <1>2, <1>3, <1>4, <1>5, <1>6, CoverKept DEF ghostVars

\* A handler goes on: its own knowledge, and the pages and ends of jobs, are to
\* be shown; the rest stays.
LEMMA HandlerCover ==
  ASSUME CoverInv, TypeInv', NEW h \in Handlers, pc[h] # "idle",
         UNCHANGED <<ghVars, repo, jstate, job, owed>>, Grows,
         \A b \in Jobs : job[h] # b =>
           runsPage'[b] = runsPage[b] /\ (b \in finished' => b \in finished),
         \A g \in Handlers : g # h => Same(g),
         repo # "deleted" =>
           /\ h \in BackfillWorkers => Knows(h)'
           /\ \A b \in Jobs : job[h] = b => Resumable(b)'
  PROVE  CoverInv'
<1>1. Timeline'
  BY TimelineKept DEF CoverInv
<1>2. Fresh'
  BY DEF CoverInv, Fresh
<1>3. ASSUME repo # "deleted", NEW b \in Jobs PROVE Resumable(b)'
  <2>1. CASE job[h] = b
    BY <1>3, <2>1
  <2>2. CASE job[h] # b
    BY <1>3, <2>2, ResumableKept DEF CoverInv
  <2> QED
    BY <2>1, <2>2
<1>4. ASSUME repo # "deleted", NEW g \in BackfillWorkers PROVE Knows(g)'
  <2>1. CASE g = h
    BY <1>4, <2>1
  <2>2. CASE g # h
    BY <1>4, <2>2, KnowsKept DEF CoverInv, Handlers
  <2> QED
    BY <2>1, <2>2
<1> QED
  BY <1>1, <1>2, <1>3, <1>4 DEF CoverInv

LEMMA LoadCover ==
  ASSUME CoverInv, TypeInv', NEW h \in Handlers, Load(h)
  PROVE  CoverInv'
<1>1. CASE repo # "enabled"
  BY <1>1, EndCover DEF Load, dbVars
<1>2. CASE repo = "enabled"
  <2>1. /\ UNCHANGED <<ghVars, repo, row, jstate, runsPage, job, owed, finished>>
        /\ \A g \in Handlers : g # h => Same(g)
        /\ pc[h] = "load" /\ pc'[h] = "fetch"
        /\ page'[h] = IF h \in PollWorkers THEN 1 ELSE runsPage[job[h]]
        /\ since'[h] = CreatedSince(h)
    BY <1>2 DEF Load, Goto, Same, dbVars, queueVars, ghostVars, CoverInv, TypeInv, TypeOK
  <2>2. Grows
    BY <2>1 DEF Grows, ghVars, CoverInv, TypeInv, TypeOK, Days
  <2>3. ASSUME NEW b \in Jobs PROVE Resumable(b)'
    BY <1>2, <2>1, <2>2, ResumableKept DEF CoverInv
  <2>4. ASSUME h \in BackfillWorkers PROVE Knows(h)'
    <3>1. PICK b \in Jobs : b = job[h]
      BY <2>1, <2>4 DEF CoverInv, TypeInv, Busy
    <3>2. page'[h] = runsPage'[b] /\ job'[h] = b
      BY <2>1, <2>4, <3>1
    <3>3. Resumable(b)'
      BY <2>3
    <3>4. since'[h] <= Cutoff'
      BY <2>1, <2>4 DEF CreatedSince, Cutoff, ghVars, CoverInv, TypeInv, TypeOK, Days
    <3> QED
      BY <2>1, <3>2, <3>3, <3>4 DEF Knows, Resumable, Beyond
  <2> QED
    BY <2>1, <2>2, <2>3, <2>4, HandlerCover
<1> QED
  BY <1>1, <1>2

LEMMA FetchCover ==
  ASSUME CoverInv, TypeInv', NEW h \in Handlers, Fetch(h)
  PROVE  CoverInv'
<1> DEFINE ans == Answer(page[h], since[h])
<1>1. CASE Returns(h)
  BY <1>1, EndCover DEF Fetch, dbVars
<1>2. CASE ~Returns(h)
  <2>1. /\ UNCHANGED <<ghVars, repo, row, jstate, runsPage, job, owed, finished>>
        /\ \A g \in Handlers : g # h => Same(g)
        /\ pc[h] = "fetch" /\ page'[h] = page[h] /\ since'[h] = since[h]
        /\ pc'[h] = "store" \/ (pc'[h] = "mark" /\ ans = {})
        /\ \A n \in AllRuns : seen'[h][n] = IF n \in ans THEN ver[n] ELSE 0
        /\ full'[h] = (Cardinality(ans) = PageSize)
    BY <1>2 DEF Fetch, Reads, Goto, Same, dbVars, queueVars, ghostVars, CoverInv, TypeInv, TypeOK
  <2>2. Grows
    BY <2>1 DEF Grows, ghVars, CoverInv, TypeInv, TypeOK, Days
  <2>3. ASSUME repo # "deleted", NEW b \in Jobs PROVE Resumable(b)'
    BY <2>1, <2>2, <2>3, ResumableKept DEF CoverInv
  <2>4. ASSUME repo # "deleted", h \in BackfillWorkers PROVE Knows(h)'
    <3>1. PICK b \in Jobs, p \in Nat \ {0}, day \in Int :
            b = job[h] /\ p = page[h] /\ day = since[h]
      BY <2>1, <2>4 DEF CoverInv, TypeInv, TypeOK, Busy, Days
    <3>2. day <= Cutoff /\ Beyond(b, p) /\ ans = Answer(p, day)
      BY <2>1, <2>4, <3>1 DEF CoverInv, Knows
    <3>3. Missing(b)' = Missing(b) /\ job'[h] = b /\ page'[h] = p
      BY <2>1, <3>1 DEF Missing, Cutoff, ghVars
    <3>4. ASSUME NEW n \in Missing(b)
          PROVE  n \in ans \/ (Cardinality(ans) = PageSize /\ nRuns - n >= Offset(p + 1))
      <4>1. n \in 1..nRuns /\ born[n] >= Cutoff /\ nRuns - n >= Offset(p)
        BY <3>2 DEF Missing, Beyond, CoverInv, Timeline
      <4>2. born[n] >= day
        <5>1. born[n] \in Int /\ Cutoff \in Int
          BY <4>1 DEF Cutoff, CoverInv, TypeInv, TypeOK, Days, AllRuns
        <5> QED BY <3>2, <4>1, <5>1
      <4> QED
        BY <3>2, <4>1, <4>2, PageEnds DEF CoverInv
    <3>5. ASSUME NEW n \in Missing(b)
          PROVE  seen'[h][n] > 0 \/ (full'[h] /\ nRuns - n >= Offset(p + 1))
      <4>1. n \in AllRuns /\ n \in 1..nRuns /\ ver[n] > 0
        BY DEF Missing, CoverInv, Timeline, TypeInv, TypeOK
      <4> QED
        BY <2>1, <3>4, <4>1
    <3>6. pc'[h] = "mark" => Missing(b) = {}
      <4>1. Cardinality({}) = 0
        BY FS_EmptySet
      <4> QED
        BY <2>1, <3>4, <4>1
    <3>7. since'[h] <= Cutoff'
      BY <2>1, <3>1, <3>2 DEF Cutoff, ghVars
    <3> QED
      BY <2>1, <3>3, <3>5, <3>6, <3>7 DEF Knows, Offset, ghVars
  <2> QED
    BY <2>1, <2>2, <2>3, <2>4, HandlerCover
<1> QED
  BY <1>1, <1>2

LEMMA StoreCover ==
  ASSUME CoverInv, TypeInv', NEW h \in Handlers, Store(h)
  PROVE  CoverInv'
<1>1. CASE repo = "deleted"
  BY <1>1, EndCover DEF Store, dbVars
<1>2. CASE repo # "deleted"
  <2>1. PICK n \in Unstored(h) :
           /\ row' = [row EXCEPT ![n] = seen[h][n]]
           /\ seen' = [seen EXCEPT ![h][n] = 0]
           /\ Goto(h, IF Unstored(h) # {n} THEN "store"
                      ELSE IF full[h] /\ h \in BackfillWorkers THEN "next" ELSE "mark")
    BY <1>2 DEF Store
  <2>2. n \in AllRuns /\ seen[h][n] > 0
    BY DEF Unstored
  <2>3. /\ UNCHANGED <<ghVars, repo, jstate, runsPage, job, owed, finished>>
        /\ \A g \in Handlers : g # h => Same(g)
        /\ pc[h] = "store" /\ page'[h] = page[h] /\ full'[h] = full[h]
        /\ since'[h] = since[h]
        /\ row'[n] > 0 /\ \A m \in AllRuns : m # n => row'[m] = row[m]
        /\ \A m \in AllRuns : m # n => seen'[h][m] = seen[h][m]
    BY <1>2, <2>1, <2>2
    DEF Store, Goto, Same, queueVars, ghostVars, CoverInv, TypeInv, TypeOK, Versions
  <2>4. pc'[h] = IF Unstored(h) # {n} THEN "store"
                 ELSE IF full[h] /\ h \in BackfillWorkers THEN "next" ELSE "mark"
    BY <2>1 DEF Goto, CoverInv, TypeInv, TypeOK
  <2>5. Grows
    BY <1>2, <2>2, <2>3 DEF Grows, ghVars, CoverInv, TypeInv, TypeOK, Days
  <2>6. ASSUME NEW b \in Jobs PROVE Resumable(b)'
    BY <1>2, <2>3, <2>5, ResumableKept DEF CoverInv
  <2>7. ASSUME h \in BackfillWorkers PROVE Knows(h)'
    <3>1. PICK b \in Jobs, p \in Nat \ {0} : b = job[h] /\ p = page[h]
      BY <2>3, <2>7 DEF CoverInv, TypeInv, TypeOK, Busy
    <3>2. \A m \in Missing(b)' : m \in Missing(b) /\ m # n
      BY <2>2, <2>3, <2>5, <1>2, MissingShrinks DEF CoverInv, Missing
    <3>3. ASSUME NEW m \in Missing(b)'
          PROVE  seen'[h][m] > 0 \/ (full[h] /\ nRuns - m >= Offset(p + 1))
      <4>1. m \in Missing(b) /\ m # n /\ m \in AllRuns
        BY <3>2 DEF Missing, CoverInv, TypeInv, TypeOK
      <4>2. seen[h][m] > 0 \/ (full[h] /\ nRuns - m >= Offset(p + 1))
        BY <1>2, <2>3, <2>7, <3>1, <4>1 DEF CoverInv, Knows
      <4> QED
        BY <2>3, <4>1, <4>2
    <3>4. ASSUME NEW m \in Missing(b)', pc'[h] # "store"
          PROVE  full[h] /\ nRuns - m >= Offset(p + 1)
      <4>1. m \in Missing(b) /\ m # n /\ m \in AllRuns
        BY <3>2 DEF Missing, CoverInv, TypeInv, TypeOK
      <4>2. ~(seen[h][m] > 0)
        BY <2>4, <3>4, <4>1 DEF Unstored
      <4> QED
        BY <1>2, <2>3, <2>7, <3>1, <4>1, <4>2 DEF CoverInv, Knows
    <3>5. pc'[h] = "mark" => Missing(b)' = {}
      BY <2>4, <2>7, <3>4
    <3>6. job'[h] = b /\ page'[h] = p /\ nRuns' = nRuns /\ full'[h] = full[h]
      BY <2>3, <3>1 DEF ghVars
    <3>7. pc'[h] = "store" =>
            \A m \in Missing(b)' :
              seen'[h][m] > 0 \/ (full'[h] /\ nRuns' - m >= Offset(p + 1))
      BY <3>3, <3>6
    <3>8. pc'[h] = "next" => \A m \in Missing(b)' : nRuns' - m >= Offset(p + 1)
      BY <3>4, <3>6
    <3>9. since'[h] <= Cutoff'
      BY <1>2, <2>3, <2>7 DEF CoverInv, Knows, Cutoff, ghVars
    <3> QED
      BY <2>4, <3>5, <3>6, <3>7, <3>8, <3>9 DEF Knows, Offset, Beyond
  <2> QED
    BY <2>3, <2>5, <2>6, <2>7, HandlerCover
<1> QED
  BY <1>1, <1>2

LEMMA NextPageCover ==
  ASSUME CoverInv, TypeInv', NEW h \in Handlers, NextPage(h)
  PROVE  CoverInv'
<1>0. h \in BackfillWorkers /\ job[h] \in Jobs
  BY DEF NextPage, CoverInv, TypeInv, Busy, Handlers
<1>1. CASE JobGone(h)
  BY <1>1, EndCover DEF NextPage, dbVars
<1>2. CASE ~JobGone(h)
  <2>1. PICK b \in Jobs, p \in Nat \ {0} : b = job[h] /\ p = page[h]
    BY <1>0 DEF CoverInv, TypeInv, TypeOK
  <2>2. /\ UNCHANGED <<ghVars, repo, row, jstate, job, owed, finished>>
        /\ \A g \in Handlers : g # h => Same(g)
        /\ \A c \in Jobs : c # b => runsPage'[c] = runsPage[c]
        /\ pc[h] = "next" /\ pc'[h] = "fetch" /\ since'[h] = since[h]
        /\ page'[h] = p + 1 /\ runsPage'[b] = p + 1 /\ job'[h] = b
    BY <1>2, <2>1 DEF NextPage, Goto, Same, dbVars, ghostVars, CoverInv, TypeInv, TypeOK
  <2>3. Grows
    BY <2>2 DEF Grows, ghVars, CoverInv, TypeInv, TypeOK, Days
  <2>4. ASSUME repo # "deleted"
        PROVE  Beyond(b, p + 1)' /\ (b \in finished' => Missing(b)' = {})
    <3>1. Beyond(b, p + 1) /\ (b \in finished => Missing(b) = {})
      BY <1>0, <2>1, <2>2, <2>4 DEF CoverInv, Knows, Resumable
    <3>2. p + 1 \in Nat \ {0}
      OBVIOUS
    <3>3. Beyond(b, p + 1)'
      BY <2>2, <2>3, <2>4, <3>1, <3>2, BeyondKept DEF CoverInv
    <3> QED
      BY <2>2, <3>1, <3>3 DEF Missing, Cutoff, ghVars
  <2>5. repo # "deleted" => Resumable(b)'
    BY <2>2, <2>4 DEF Resumable, Beyond, Offset
  <2>6. ASSUME repo # "deleted" PROVE Knows(h)'
    <3>1. since[h] <= Cutoff
      BY <1>0, <2>2, <2>6 DEF CoverInv, Knows
    <3> QED
      BY <2>2, <2>4, <2>6, <3>1 DEF Knows, Beyond, Offset, Cutoff, ghVars
  <2> QED
    BY <2>1, <2>2, <2>3, <2>5, <2>6, HandlerCover
<1> QED
  BY <1>1, <1>2

LEMMA MarkCover ==
  ASSUME CoverInv, TypeInv', NEW h \in Handlers, Mark(h)
  PROVE  CoverInv'
<1>1. CASE h \in PollWorkers
  BY <1>1, EndCover DEF Mark, ghostVars
<1>2. CASE h \in BackfillWorkers
  <2>1. PICK b \in Jobs : b = job[h]
    BY <1>2 DEF Mark, CoverInv, TypeInv, Busy
  <2>2. /\ UNCHANGED <<ghVars, repo, row, jstate, runsPage, job, owed>>
        /\ \A g \in Handlers : g # h => Same(g)
        /\ finished' = finished \cup {b}
        /\ pc[h] = "mark" /\ pc'[h] = "clear"
    BY <1>2, <2>1 DEF Mark, Goto, Same, queueVars, readVars, CoverInv, TypeInv, TypeOK
  <2>3. Grows
    BY <2>2 DEF Grows, ghVars, CoverInv, TypeInv, TypeOK, Days
  <2>4. Knows(h)'
    BY <2>2 DEF Knows
  <2>5. ASSUME repo # "deleted" PROVE Resumable(b)'
    BY <1>2, <2>1, <2>2, <2>5
    DEF CoverInv, Knows, Resumable, Beyond, Missing, Cutoff, Offset, ghVars
  <2> QED
    BY <2>1, <2>2, <2>3, <2>4, <2>5, HandlerCover
<1> QED
  BY <1>1, <1>2 DEF Handlers

LEMMA ClearCover ==
  ASSUME CoverInv, TypeInv', NEW h \in Handlers, Clear(h)
  PROVE  CoverInv'
<1>0. h \in BackfillWorkers /\ job[h] \in Jobs
  BY DEF Clear, CoverInv, TypeInv, Busy, Handlers
<1>1. CASE JobGone(h)
  BY <1>1, EndCover DEF Clear, dbVars
<1>2. CASE ~JobGone(h)
  <2>1. PICK b \in Jobs : b = job[h]
    BY <1>0
  <2>2. /\ UNCHANGED <<ghVars, repo, row, jstate, job, owed, finished>>
        /\ \A g \in Handlers : g # h => Same(g)
        /\ \A c \in Jobs : c # b => runsPage'[c] = runsPage[c]
        /\ runsPage'[b] = 1 /\ pc[h] = "clear" /\ pc'[h] = "settle"
    BY <1>2, <2>1
    DEF Clear, Goto, Same, dbVars, readVars, ghostVars, CoverInv, TypeInv, TypeOK
  <2>3. Grows
    BY <2>2 DEF Grows, ghVars, CoverInv, TypeInv, TypeOK, Days
  <2>4. Knows(h)'
    BY <2>2 DEF Knows
  <2>5. ASSUME repo # "deleted" PROVE Resumable(b)'
    <3>1. Missing(b)' = Missing(b)
      BY <2>2 DEF Missing, Cutoff, ghVars
    <3>2. ASSUME NEW n \in Missing(b) PROVE nRuns - n >= Offset(1)
      <4>1. n \in 1..nRuns /\ nRuns \in Nat
        BY DEF Missing, CoverInv, Timeline, TypeInv, TypeOK
      <4> QED
        BY <4>1, OffsetNext
    <3> QED
      BY <2>2, <2>5, <3>1, <3>2 DEF CoverInv, Resumable, Beyond, Offset, ghVars
  <2> QED
    BY <2>1, <2>2, <2>3, <2>4, <2>5, HandlerCover
<1> QED
  BY <1>1, <1>2

LEMMA CoverStep == CoverInv /\ [Next]_vars => CoverInv'
<1> SUFFICES ASSUME CoverInv, [Next]_vars PROVE CoverInv'
  OBVIOUS
<1>0. TypeInv'
  BY TypeStep DEF CoverInv
<1>1. CASE Environment
  BY <1>1, EnvironmentCover
<1>2. ASSUME NEW b \in Jobs, Queue(b) PROVE CoverInv'
  BY <1>2, QueueCover
<1>3. ASSUME NEW h \in BackfillWorkers, Take(h) PROVE CoverInv'
  BY <1>3, StartCover DEF Handlers
<1>4. ASSUME NEW h \in PollWorkers, PollStart(h) PROVE CoverInv'
  BY <1>4, StartCover DEF Handlers
<1>5. ASSUME NEW h \in Handlers, Handle(h) PROVE CoverInv'
  <2>1. CASE Settle(h)
    BY <1>0, <2>1, EndCover DEF Settle, dbVars
  <2> QED
    BY <1>0, <1>5, <2>1, LoadCover, FetchCover, StoreCover, NextPageCover, MarkCover,
       ClearCover DEF Handle
<1>6. CASE UNCHANGED vars
  BY <1>0, <1>6, QuietCover DEF vars, dbVars, queueVars
<1> QED
  BY <1>1, <1>2, <1>3, <1>4, <1>5, <1>6 DEF Next

\* A backfill that reached the end of the history has stored every run that it
\* was queued for and that is still within retention: whatever GitHub, webhooks,
\* administrators, crashes, lost locks and other handlers did meanwhile.
THEOREM BackfillCovers == Spec => []BackfillCoversHistory
<1>1. Spec => []CoverInv
  BY CoverInit, CoverStep, PTL DEF Spec
<1>2. CoverInv => BackfillCoversHistory
  <2> SUFFICES ASSUME CoverInv, NEW b \in finished, repo # "deleted",
                      NEW n \in owed[b], born[n] >= Cutoff
               PROVE  row[n] > 0
    BY DEF BackfillCoversHistory
  <2>1. b \in Jobs /\ n \in AllRuns
    BY DEF CoverInv, TypeInv, TypeOK
  <2>2. n \notin Missing(b)
    BY <2>1 DEF CoverInv, Resumable
  <2> QED
    BY <2>1, <2>2 DEF Missing, CoverInv, TypeInv, TypeOK, Versions
<1> QED
  BY <1>1, <1>2, PTL
=============================================================================
