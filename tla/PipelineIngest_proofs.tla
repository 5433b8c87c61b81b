------------------------ MODULE PipelineIngest_proofs ------------------------
(***************************************************************************)
(* Proofs about PipelineIngest, for every set of runs, workflow jobs and   *)
(* workers and every value of the bounds: the queue and its dead letters,  *)
(* what is stored and published, that it implements EventDelivery, and what *)
(* it achieves as long as its worker processes do not race.                 *)
(***************************************************************************)
EXTENDS PipelineIngest, TLAPS

USE DEF LastAttempt

-----------------------------------------------------------------------------
(* Type correctness.                                                        *)

LEMMA InitTypeOK == Init => TypeOK
<1> SUFFICES ASSUME Init PROVE TypeOK
  OBVIOUS
<1>1. (CHOOSE d \in Deliveries : TRUE) \in Deliveries
  <2>1. PICK r \in Runs : TRUE
    BY IngestAssumption
  <2>2. [entity |-> r, version |-> 1] \in Deliveries
    BY IngestAssumption DEF Deliveries, Entities, Versions
  <2> QED BY <2>2
<1> QED
  BY <1>1, IngestAssumption
  DEF Init, TypeOK, QueueJobs, JobStates, Steps

\* The part of every step that has a type of its own to keep.
LEMMA SpendTypeOK ==
  ASSUME TypeOK, NEW k \in EnvEvents, Spend(k)
  PROVE  left' \in [EnvEvents -> Nat]
BY DEF TypeOK, Spend

LEMMA EnqueueTypeOK ==
  ASSUME TypeOK, NEW d \in Deliveries, Enqueue(d)
  PROVE  /\ nextId' \in 1..(MaxQueued + 1) /\ msg' \in [QueueJobs -> Deliveries]
         /\ jstate' \in [QueueJobs -> JobStates] /\ waitq' \in Seq(QueueJobs)
         /\ UNCHANGED <<attempts, stalls, lock>>
BY IngestAssumption DEF TypeOK, Enqueue, QueueJobs, JobStates

LEMMA LeaveTypeOK ==
  ASSUME TypeOK, NEW w \in Workers, Leave(w)
  PROVE  /\ pc' \in [Workers -> Steps] /\ cur' \in [Workers -> 0..MaxQueued]
         /\ held' \in [Workers -> BOOLEAN]
         /\ UNCHANGED <<nextId, msg, stalls, waitq>>
BY IngestAssumption DEF TypeOK, Leave, Goto, Steps

LEMMA HandlerThrowsTypeOK ==
  ASSUME TypeOK, NEW w \in Workers, cur[w] \in QueueJobs, HandlerThrows(w)
  PROVE  /\ pc' \in [Workers -> Steps] /\ cur' \in [Workers -> 0..MaxQueued]
         /\ held' \in [Workers -> BOOLEAN] /\ moving' \in [Workers -> SUBSET QueueJobs]
         /\ attempts' \in [QueueJobs -> Nat] /\ jstate' \in [QueueJobs -> JobStates]
         /\ lock' \in [QueueJobs -> Workers \cup {NoWorker}]
         /\ UNCHANGED <<nextId, msg, stalls, waitq>>
<1>1. CASE UNCHANGED <<attempts, jstate, lock, moving>>
  BY <1>1, LeaveTypeOK DEF HandlerThrows, TypeOK
<1>2. CASE FailAttempt(w, cur[w])
  <2> DEFINE j == cur[w]
  <2>1. attempts' \in [QueueJobs -> Nat]
    BY <1>2 DEF FailAttempt, TypeOK
  <2>2. \E s \in JobStates : jstate' = [jstate EXCEPT ![j] = s]
    BY <1>2 DEF FailAttempt, JobStates
  <2>3. jstate' \in [QueueJobs -> JobStates]
    BY <2>2 DEF TypeOK
  <2>4. lock' \in [QueueJobs -> Workers \cup {NoWorker}]
    BY <1>2 DEF FailAttempt, TypeOK
  <2>5. moving' = moving \/ moving' = [moving EXCEPT ![w] = @ \cup {j}]
    BY <1>2 DEF FailAttempt, OnFailed
  <2>6. moving \in [Workers -> SUBSET QueueJobs] /\ moving[w] \cup {j} \in SUBSET QueueJobs
    BY DEF TypeOK
  <2>7. moving' \in [Workers -> SUBSET QueueJobs]
    BY <2>5, <2>6
  <2> QED
    BY <2>1, <2>3, <2>4, <2>7, LeaveTypeOK DEF HandlerThrows
<1> QED
  BY <1>1, <1>2 DEF HandlerThrows

\* A busy worker runs a job that exists.
Busy == \A w \in Workers : pc[w] # "idle" => cur[w] \in QueueJobs

LEMMA InitBusy == Init => Busy
BY DEF Init, Busy

LEMMA NextTypeOK == TypeOK /\ Busy /\ [Next]_vars => TypeOK' /\ Busy'
<1> SUFFICES ASSUME TypeOK, Busy, [Next]_vars
             PROVE  TypeOK' /\ Busy'
  OBVIOUS
<1>1. ASSUME NEW e \in Entities, GitHubEvent(e) PROVE TypeOK' /\ Busy'
  <2>1. [entity |-> e, version |-> gh[e] + 1] \in Deliveries
    BY <1>1, IngestAssumption DEF TypeOK, GitHubEvent, Deliveries, Versions
  <2>2. gh' \in [Entities -> 0..MaxVersion] /\ net' \in SUBSET Deliveries
    BY <1>1, <2>1, IngestAssumption DEF TypeOK, GitHubEvent, Send
  <2> QED
    BY <1>1, <2>2
    DEF TypeOK, Busy, GitHubEvent, dbVars, queueVars, workerVars, ghostVars
<1>2. ASSUME NEW e \in Entities, Redeliver(e) PROVE TypeOK' /\ Busy'
  <2>1. \A v \in 1..gh[e] : [entity |-> e, version |-> v] \in Deliveries
    BY IngestAssumption DEF TypeOK, Deliveries, Versions
  <2>2. net' \in SUBSET Deliveries
    BY <1>2, <2>1 DEF TypeOK, Redeliver, Send
  <2>3. left' \in [EnvEvents -> Nat]
    BY <1>2, SpendTypeOK DEF Redeliver, EnvEvents
  <2> QED
    BY <1>2, <2>2, <2>3
    DEF TypeOK, Busy, Redeliver, dbVars, queueVars, workerVars, ghostVars
<1>3. ASSUME NEW d \in net, LoseDelivery(d) PROVE TypeOK' /\ Busy'
  <2>1. left' \in [EnvEvents -> Nat]
    BY <1>3, SpendTypeOK DEF LoseDelivery, EnvEvents
  <2> QED
    BY <1>3, <2>1
    DEF TypeOK, Busy, LoseDelivery, dbVars, queueVars, workerVars, ghostVars
<1>4. ASSUME NEW d \in net, ReceiveWebhook(d) PROVE TypeOK' /\ Busy'
  <2>1. d \in Deliveries
    BY DEF TypeOK
  <2>2. /\ nextId' \in 1..(MaxQueued + 1) /\ msg' \in [QueueJobs -> Deliveries]
        /\ jstate' \in [QueueJobs -> JobStates] /\ waitq' \in Seq(QueueJobs)
        /\ UNCHANGED <<attempts, stalls, lock>>
    BY <1>4, <2>1, EnqueueTypeOK DEF ReceiveWebhook, TypeOK, queueVars
  <2> QED
    BY <1>4, <2>2 DEF TypeOK, Busy, ReceiveWebhook, dbVars, workerVars, ghostVars
<1>5. ASSUME NEW s \in {"enabled", "disabled"}, SetEnabled(s) PROVE TypeOK' /\ Busy'
  <2>1. left' \in [EnvEvents -> Nat]
    BY <1>5, SpendTypeOK DEF SetEnabled, EnvEvents
  <2> QED
    BY <1>5, <2>1 DEF TypeOK, Busy, SetEnabled, queueVars, workerVars, ghostVars
<1>6. ASSUME DeleteRepository PROVE TypeOK' /\ Busy'
  <2>1. left' \in [EnvEvents -> Nat]
    BY <1>6, SpendTypeOK DEF DeleteRepository, EnvEvents
  <2> QED
    BY <1>6, <2>1, IngestAssumption
    DEF TypeOK, Busy, DeleteRepository, Forget, queueVars, ghostVars
<1>7. ASSUME NEW r \in Runs, PurgeRun(r) PROVE TypeOK' /\ Busy'
  <2>1. left' \in [EnvEvents -> Nat]
    BY <1>7, SpendTypeOK DEF PurgeRun, EnvEvents
  <2> QED
    BY <1>7, <2>1, IngestAssumption
    DEF TypeOK, Busy, PurgeRun, Forget, queueVars, ghostVars
<1>8. ASSUME NEW w \in Workers, Crash(w) PROVE TypeOK' /\ Busy'
  <2>1. left' \in [EnvEvents -> Nat]
    BY <1>8, SpendTypeOK DEF Crash, EnvEvents
  <2>2. moving[w] \subseteq QueueJobs
    BY DEF TypeOK
  <2> QED
    BY <1>8, <2>1, <2>2, IngestAssumption
    DEF TypeOK, Busy, Crash, Goto, Steps, dbVars, queueVars
<1>9. ASSUME NEW w \in Workers, CallFails(w) PROVE TypeOK' /\ Busy'
  <2>1. left' \in [EnvEvents -> Nat]
    BY <1>9, SpendTypeOK DEF CallFails, EnvEvents
  <2>2. cur[w] \in QueueJobs /\ HandlerThrows(w)
    BY <1>9 DEF CallFails, Busy
  <2>3. Busy'
    BY <2>2 DEF Busy, TypeOK, HandlerThrows, Leave, Goto
  <2> QED
    BY <1>9, <2>1, <2>2, <2>3, HandlerThrowsTypeOK
    DEF TypeOK, CallFails, dbVars, ghostVars
<1>10. ASSUME NEW w \in Workers, NEW j \in QueueJobs, DeadLetterFails(w, j)
       PROVE  TypeOK' /\ Busy'
  <2>1. left' \in [EnvEvents -> Nat]
    BY <1>10, SpendTypeOK DEF DeadLetterFails, EnvEvents
  <2> QED
    BY <1>10, <2>1 DEF TypeOK, Busy, DeadLetterFails, dbVars, queueVars
<1>11. ASSUME NEW j \in QueueJobs, Recover(j)
       PROVE  left' \in [EnvEvents -> Nat] => TypeOK' /\ Busy'
  BY <1>11
  DEF TypeOK, Busy, Recover, JobStates, dbVars, workerVars, ghostVars
<1>12. ASSUME NEW j \in QueueJobs, RecoverHeldUp(j) PROVE TypeOK' /\ Busy'
  BY <1>11, <1>12, SpendTypeOK DEF RecoverHeldUp, EnvEvents
<1>13. ASSUME NEW j \in QueueJobs, RecoverAbandoned(j) PROVE TypeOK' /\ Busy'
  BY <1>11, <1>13 DEF RecoverAbandoned, TypeOK
<1>14. ASSUME NEW w \in Workers, TakeJob(w) PROVE TypeOK' /\ Busy'
  <2>1. Head(waitq) \in QueueJobs /\ Tail(waitq) \in Seq(QueueJobs)
    BY <1>14 DEF TypeOK, TakeJob
  <2>2. QueueJobs \subseteq 0..MaxQueued
    BY IngestAssumption DEF QueueJobs
  <2> QED
    BY <1>14, <2>1, <2>2
    DEF TypeOK, Busy, TakeJob, Goto, JobStates, Steps, dbVars, ghostVars
<1>15. ASSUME NEW w \in Workers, FailStalledJob(w) PROVE TypeOK' /\ Busy'
  <2>1. Head(waitq) \in QueueJobs /\ Tail(waitq) \in Seq(QueueJobs)
    BY <1>15 DEF TypeOK, FailStalledJob
  <2> QED
    BY <1>15, <2>1
    DEF TypeOK, Busy, FailStalledJob, OnFailed, JobStates, dbVars, ghostVars
<1>16. ASSUME NEW w \in Workers, FindRun(w) PROVE TypeOK' /\ Busy'
  <2>1. cur[w] \in QueueJobs
    BY <1>16 DEF FindRun, Busy
  <2>2. CASE HandlerThrows(w)
    <3>1. Busy'
      BY <2>2 DEF Busy, TypeOK, HandlerThrows, Leave, Goto
    <3> QED
      BY <1>16, <2>1, <2>2, <3>1, HandlerThrowsTypeOK
      DEF TypeOK, FindRun, dbVars, ghostVars
  <2>3. CASE ~HandlerThrows(w)
    BY <1>16, <2>1, <2>3
    DEF TypeOK, Busy, FindRun, Goto, Steps, dbVars, queueVars, ghostVars
  <2> QED BY <2>2, <2>3
<1>17. ASSUME NEW w \in Workers, Upsert(w) PROVE TypeOK' /\ Busy'
  <2>1. cur[w] \in QueueJobs
    BY <1>17 DEF Upsert, Busy
  <2>2. CASE HandlerThrows(w) /\ UNCHANGED <<row, committed>>
    <3>1. Busy'
      BY <2>2 DEF Busy, TypeOK, HandlerThrows, Leave, Goto
    <3> QED
      BY <1>17, <2>1, <2>2, <3>1, HandlerThrowsTypeOK DEF TypeOK, Upsert
  <2>3. CASE ~(HandlerThrows(w) /\ UNCHANGED <<row, committed>>)
    <3>1. msg[cur[w]].entity \in Entities /\ msg[cur[w]].version \in 0..MaxVersion
      BY <2>1, IngestAssumption DEF TypeOK, Deliveries, Versions
    <3> QED
      BY <1>17, <2>1, <2>3, <3>1 DEF TypeOK, Busy, Upsert, Goto, Steps, queueVars
  <2> QED BY <2>2, <2>3
<1>18. ASSUME NEW w \in Workers, Publish(w) PROVE TypeOK' /\ Busy'
  <2>1. cur[w] \in QueueJobs
    BY <1>18 DEF Publish, Busy
  <2>2. msg[cur[w]].entity \in Entities /\ msg[cur[w]].version \in 0..MaxVersion
    BY <2>1, IngestAssumption DEF TypeOK, Deliveries, Versions
  <2> QED
    BY <1>18, <2>1, <2>2 DEF TypeOK, Busy, Publish, Goto, Steps, dbVars, queueVars
<1>19. ASSUME NEW w \in Workers, Complete(w) PROVE TypeOK' /\ Busy'
  <2>1. Busy'
    BY <1>19 DEF Busy, TypeOK, Complete, Leave, Goto
  <2>2. jstate' \in [QueueJobs -> JobStates] /\ lock' \in [QueueJobs -> Workers \cup {NoWorker}]
    BY <1>19 DEF TypeOK, Complete, JobStates
  <2> QED
    BY <1>19, <2>1, <2>2, LeaveTypeOK DEF TypeOK, Complete, dbVars, ghostVars
<1>20. ASSUME NEW j \in QueueJobs, PromoteDelayed(j) PROVE TypeOK' /\ Busy'
  BY <1>20
  DEF TypeOK, Busy, PromoteDelayed, JobStates, dbVars, workerVars, ghostVars
<1>21. ASSUME NEW w \in Workers, NEW j \in QueueJobs, MoveToDeadLetterQueue(w, j)
       PROVE  TypeOK' /\ Busy'
  BY <1>21 DEF TypeOK, Busy, MoveToDeadLetterQueue, dbVars, queueVars, ghostVars
<1>22. ASSUME UNCHANGED vars PROVE TypeOK' /\ Busy'
  BY <1>22 DEF TypeOK, Busy, vars, dbVars, queueVars, workerVars, ghostVars
<1> QED
  BY <1>1, <1>2, <1>3, <1>4, <1>5, <1>6, <1>7, <1>8, <1>9, <1>10, <1>12, <1>13,
     <1>14, <1>15, <1>16, <1>17, <1>18, <1>19, <1>20, <1>21, <1>22
  DEF Next, Environment, Receive, Take, Handle

\* Every variable keeps its type.
THEOREM TypeCorrect == Spec => []TypeOK
<1>1. Spec => [](TypeOK /\ Busy)
  BY InitTypeOK, InitBusy, NextTypeOK, PTL DEF Spec
<1> QED
  BY <1>1, PTL


-----------------------------------------------------------------------------
(* What a step can do to the queue and to the workers.                      *)

\* Nothing that the queue, a handler or the dead-letter queue depends on.
Elsewhere ==
  UNCHANGED <<queueVars, pc, cur, moving, dlq, ghostVars>>

Accepts(d) ==
  Enqueue(d) /\ UNCHANGED <<workerVars, dlq, ghostVars>>

Throws(w) ==
  pc[w] # "idle" /\ HandlerThrows(w) /\ UNCHANGED <<dlq, ghostVars>>

\* A handler gets through one of its steps.
Advances(w) ==
  /\ UNCHANGED <<queueVars, cur, moving, dlq, dlqLost>>
  /\ \/ /\ pc[w] = "find" /\ Goto(w, "upsert")
        /\ UNCHANGED <<committed, announced>>
     \/ /\ pc[w] = "upsert" /\ Goto(w, "publish")
        /\ committed' = committed \cup {cur[w]} /\ UNCHANGED announced
     \/ /\ pc[w] = "publish" /\ Goto(w, "settle")
        /\ announced' = announced \cup {cur[w]} /\ UNCHANGED committed

QueueStep ==
  \/ Elsewhere
  \/ \E d \in Deliveries : Accepts(d)
  \/ \E w \in Workers : TakeJob(w) \/ FailStalledJob(w) \/ Throws(w)
  \/ \E w \in Workers : Advances(w) \/ Complete(w) \/ Crash(w)
  \/ \E j \in QueueJobs : PromoteDelayed(j)
  \/ \E j \in QueueJobs : jstate[j] = "active" /\ Recover(j)
  \/ \E w \in Workers, j \in QueueJobs : MoveToDeadLetterQueue(w, j) \/ DeadLetterFails(w, j)

LEMMA StepCases == TypeOK /\ [Next]_vars => QueueStep
<1> SUFFICES ASSUME TypeOK, [Next]_vars PROVE QueueStep
  OBVIOUS
<1>1. ASSUME NEW e \in Entities, GitHubEvent(e) \/ Redeliver(e) PROVE QueueStep
  BY <1>1 DEF QueueStep, Elsewhere, GitHubEvent, Redeliver, workerVars
<1>2. ASSUME NEW d \in net, LoseDelivery(d) PROVE QueueStep
  BY <1>2 DEF QueueStep, Elsewhere, LoseDelivery, workerVars
<1>3. ASSUME NEW d \in net, ReceiveWebhook(d) PROVE QueueStep
  <2>1. d \in Deliveries
    BY DEF TypeOK
  <2> QED
    BY <1>3, <2>1 DEF QueueStep, Elsewhere, Accepts, ReceiveWebhook, workerVars
<1>4. ASSUME NEW s \in {"enabled", "disabled"}, SetEnabled(s) PROVE QueueStep
  BY <1>4 DEF QueueStep, Elsewhere, SetEnabled, workerVars
<1>5. ASSUME DeleteRepository \/ \E r \in Runs : PurgeRun(r) PROVE QueueStep
  BY <1>5 DEF QueueStep, Elsewhere, DeleteRepository, PurgeRun, workerVars
<1>6. ASSUME NEW w \in Workers, Crash(w) \/ CallFails(w) PROVE QueueStep
  BY <1>6 DEF QueueStep, Throws, CallFails
<1>7. ASSUME NEW j \in QueueJobs, RecoverHeldUp(j) \/ RecoverAbandoned(j) PROVE QueueStep
  BY <1>7 DEF QueueStep, RecoverHeldUp, RecoverAbandoned, Abandoned
<1>8. ASSUME NEW w \in Workers, FindRun(w) PROVE QueueStep
  BY <1>8 DEF QueueStep, FindRun, Throws, Advances, ghostVars
<1>9. ASSUME NEW w \in Workers, Upsert(w) PROVE QueueStep
  BY <1>9 DEF QueueStep, Upsert, Throws, Advances, ghostVars
<1>10. ASSUME NEW w \in Workers, Publish(w) PROVE QueueStep
  BY <1>10 DEF QueueStep, Publish, Advances
<1>11. ASSUME UNCHANGED vars PROVE QueueStep
  BY <1>11 DEF QueueStep, Elsewhere, vars, workerVars
<1> QED
  BY <1>1, <1>2, <1>3, <1>4, <1>5, <1>6, <1>7, <1>8, <1>9, <1>10, <1>11
  DEF Next, Environment, Receive, Take, Handle, QueueStep

-----------------------------------------------------------------------------
(* A completed job took effect.                                             *)

\* How far a handler has come shows in what its job has done; an idle worker
\* runs nothing.
Progressed ==
  \A w \in Workers :
    /\ pc[w] = "idle" => cur[w] = 0
    /\ pc[w] \in {"publish", "settle"} => cur[w] \in committed
    /\ pc[w] = "settle" => cur[w] \in announced

EffectInv == TypeOK /\ Busy /\ Progressed /\ CompletedTookEffect

LEMMA InitEffect == Init => EffectInv
BY InitTypeOK, InitBusy DEF Init, EffectInv, Progressed, CompletedTookEffect

LEMMA NextEffect == EffectInv /\ [Next]_vars => EffectInv'
<1> SUFFICES ASSUME EffectInv, [Next]_vars
             PROVE  (Progressed /\ CompletedTookEffect)'
  BY NextTypeOK DEF EffectInv
<1> USE DEF EffectInv
<1>1. QueueStep
  BY StepCases
<1>2. CASE Elsewhere
  BY <1>2 DEF Elsewhere, queueVars, ghostVars, Progressed, CompletedTookEffect
<1>3. ASSUME NEW d \in Deliveries, Accepts(d)
      PROVE  (Progressed /\ CompletedTookEffect)'
  BY <1>3 DEF Accepts, Enqueue, workerVars, ghostVars, Progressed,
     CompletedTookEffect, TypeOK
<1>4. ASSUME NEW w \in Workers, TakeJob(w)
      PROVE  (Progressed /\ CompletedTookEffect)'
  BY <1>4 DEF TakeJob, Goto, ghostVars, Progressed, CompletedTookEffect, TypeOK
<1>5. ASSUME NEW w \in Workers, FailStalledJob(w)
      PROVE  (Progressed /\ CompletedTookEffect)'
  BY <1>5 DEF FailStalledJob, ghostVars, Progressed, CompletedTookEffect, TypeOK
<1>6. ASSUME NEW w \in Workers, Throws(w)
      PROVE  (Progressed /\ CompletedTookEffect)'
  <2>1. UNCHANGED <<committed, announced>>
    BY <1>6 DEF Throws, ghostVars
  <2>2. Progressed'
    BY <1>6, <2>1 DEF Throws, HandlerThrows, Leave, Goto, Progressed, TypeOK
  <2>3. \A j \in QueueJobs : jstate'[j] = "completed" => jstate[j] = "completed"
    BY <1>6 DEF Throws, HandlerThrows, FailAttempt, TypeOK
  <2> QED
    BY <2>1, <2>2, <2>3 DEF CompletedTookEffect
<1>7. ASSUME NEW w \in Workers, Advances(w)
      PROVE  (Progressed /\ CompletedTookEffect)'
  BY <1>7 DEF Advances, Goto, queueVars, Progressed, CompletedTookEffect, TypeOK
<1>8. ASSUME NEW w \in Workers, Complete(w)
      PROVE  (Progressed /\ CompletedTookEffect)'
  <2>1. cur[w] \in committed /\ cur[w] \in announced
    BY <1>8 DEF Complete, Progressed
  <2> QED
    BY <1>8, <2>1 DEF Complete, Leave, Goto, ghostVars, Progressed,
       CompletedTookEffect, TypeOK
<1>9. ASSUME NEW w \in Workers, Crash(w)
      PROVE  (Progressed /\ CompletedTookEffect)'
  BY <1>9 DEF Crash, Goto, queueVars, Progressed, CompletedTookEffect, TypeOK
<1>10. ASSUME NEW j \in QueueJobs, PromoteDelayed(j) \/ Recover(j)
       PROVE  (Progressed /\ CompletedTookEffect)'
  BY <1>10 DEF PromoteDelayed, Recover, workerVars, ghostVars, Progressed,
     CompletedTookEffect, TypeOK
<1>11. ASSUME NEW w \in Workers, NEW j \in QueueJobs,
              MoveToDeadLetterQueue(w, j) \/ DeadLetterFails(w, j)
       PROVE  (Progressed /\ CompletedTookEffect)'
  BY <1>11 DEF MoveToDeadLetterQueue, DeadLetterFails, queueVars, ghostVars,
     Progressed, CompletedTookEffect
<1> QED
  BY <1>1, <1>2, <1>3, <1>4, <1>5, <1>6, <1>7, <1>8, <1>9, <1>10, <1>11 DEF QueueStep

LEMMA AlwaysEffect == Spec => []EffectInv
BY InitEffect, NextEffect, PTL DEF Spec

\* A job that BullMQ has completed has committed its upsert and published its
\* event, whatever crashes, retries and lost locks it went through.
THEOREM CompletedEffect == Spec => []CompletedTookEffect
<1>1. EffectInv => CompletedTookEffect
  BY DEF EffectInv
<1> QED
  BY <1>1, AlwaysEffect, PTL

-----------------------------------------------------------------------------
(* The queue keeps a job in one place.                                      *)

\* Jobs not yet created are nowhere and have failed nothing.
Fresh ==
  /\ \A j \in QueueJobs : j >= nextId => jstate[j] = "none"
  /\ \A j \in QueueJobs : jstate[j] = "none" => attempts[j] = 0

\* A job stands in the list of ready jobs once, and only while it waits.
Ready ==
  /\ \A i \in 1..Len(waitq) : jstate[waitq[i]] = "waiting"
  /\ \A i, k \in 1..Len(waitq) : i # k => waitq[i] # waitq[k]

\* Only an active job carries a lock.
Locked == \A j \in QueueJobs : lock[j] # NoWorker => jstate[j] = "active"

\* A worker runs a job that was created, and holds its lock unless it stalled.
Running ==
  \A w \in Workers : cur[w] # 0 =>
    /\ cur[w] \in QueueJobs /\ jstate[cur[w]] # "none"
    /\ stalls[cur[w]] = 0 => lock[cur[w]] = w

QueueInv == EffectInv /\ Fresh /\ Ready /\ Locked /\ Running /\ GiveUpJustified

LEMMA InitQueue == Init => QueueInv
BY InitEffect, IngestAssumption
DEF Init, QueueInv, Fresh, Ready, Locked, Running, GiveUpJustified

LEMMA ReadyHead ==
  ASSUME TypeOK, Ready, waitq # <<>>
  PROVE  /\ Head(waitq) \in QueueJobs /\ jstate[Head(waitq)] = "waiting"
         /\ Tail(waitq) \in Seq(QueueJobs)
         /\ \A i \in 1..Len(Tail(waitq)) :
              /\ jstate[Tail(waitq)[i]] = "waiting"
              /\ Tail(waitq)[i] # Head(waitq)
         /\ \A i, k \in 1..Len(Tail(waitq)) : i # k => Tail(waitq)[i] # Tail(waitq)[k]
<1>1. waitq \in Seq(QueueJobs) /\ Len(waitq) \in Nat \ {0}
  BY DEF TypeOK
<1>2. /\ Tail(waitq) \in Seq(QueueJobs) /\ Len(Tail(waitq)) = Len(waitq) - 1
      /\ \A i \in 1..Len(Tail(waitq)) : Tail(waitq)[i] = waitq[i + 1]
      /\ Head(waitq) = waitq[1] /\ waitq[1] \in QueueJobs
  BY <1>1
<1> QED
  BY <1>1, <1>2 DEF Ready

LEMMA NextQueue == QueueInv /\ [Next]_vars => QueueInv'
<1> DEFINE I == Fresh /\ Ready /\ Locked /\ Running /\ GiveUpJustified
<1> SUFFICES ASSUME QueueInv, [Next]_vars PROVE I'
  BY NextEffect DEF QueueInv
<1> USE DEF QueueInv, EffectInv
<1>1. QueueStep
  BY StepCases
<1>2. CASE Elsewhere
  BY <1>2 DEF Elsewhere, queueVars, Fresh, Ready, Locked, Running, GiveUpJustified
<1>3. ASSUME NEW d \in Deliveries, Accepts(d) PROVE I'
  <2>1. /\ nextId \in QueueJobs /\ nextId' = nextId + 1 /\ jstate[nextId] = "none"
        /\ jstate' = [jstate EXCEPT ![nextId] = "waiting"]
        /\ waitq' = Append(waitq, nextId) /\ attempts[nextId] = 0
        /\ UNCHANGED <<attempts, stalls, lock, cur>>
    BY <1>3 DEF Accepts, Enqueue, workerVars, Fresh, TypeOK, QueueJobs
  <2>2. Fresh'
    BY <2>1 DEF Fresh, TypeOK, QueueJobs
  <2>3. /\ Len(waitq') = Len(waitq) + 1 /\ waitq'[Len(waitq) + 1] = nextId
        /\ \A i \in 1..Len(waitq) : waitq'[i] = waitq[i] /\ waitq[i] \in QueueJobs
    BY <2>1 DEF TypeOK
  <2>4. Ready'
    BY <2>1, <2>3 DEF Ready, TypeOK
  <2>5. jstate'[nextId] = "waiting" /\ \A j \in QueueJobs \ {nextId} : jstate'[j] = jstate[j]
    BY <2>1 DEF TypeOK
  <2>6. Locked' /\ Running'
    BY <2>1, <2>5 DEF Locked, Running
  <2>7. 0 < MaxAttempts
    BY IngestAssumption
  <2>8. GiveUpJustified'
    BY <2>1, <2>5, <2>7 DEF GiveUpJustified
  <2> QED BY <2>2, <2>4, <2>6, <2>8
<1>4. ASSUME NEW w \in Workers, TakeJob(w) PROVE I'
  <2> DEFINE j == Head(waitq)
  <2>1. /\ waitq # <<>> /\ waitq' = Tail(waitq)
        /\ jstate' = [jstate EXCEPT ![j] = "active"] /\ lock' = [lock EXCEPT ![j] = w]
        /\ cur' = [cur EXCEPT ![w] = j] /\ UNCHANGED <<nextId, attempts, stalls>>
    BY <1>4 DEF TakeJob
  <2>2. j \in QueueJobs /\ jstate[j] = "waiting"
    BY <2>1, ReadyHead
  <2>3. Fresh' /\ Locked' /\ GiveUpJustified'
    BY <2>1, <2>2 DEF Fresh, Locked, GiveUpJustified, TypeOK
  <2>4. \A i \in 1..Len(waitq') : waitq'[i] \in QueueJobs
    BY <2>1, ReadyHead
  <2>5. Ready'
    BY <2>1, <2>2, <2>4, ReadyHead DEF Ready, TypeOK
  <2>6. lock[j] = NoWorker
    BY <2>2 DEF Locked
  <2>7. \A v \in Workers : cur[v] = j => stalls[j] # 0
    <3>1. j # 0 /\ NoWorker \notin Workers
      BY <2>2, IngestAssumption DEF QueueJobs
    <3> QED
      BY <2>6, <3>1 DEF Running
  <2>8. ASSUME NEW u \in Workers, cur'[u] # 0
        PROVE  /\ cur'[u] \in QueueJobs /\ jstate'[cur'[u]] # "none"
               /\ stalls'[cur'[u]] = 0 => lock'[cur'[u]] = u
    <3>1. CASE u = w
      BY <2>1, <2>2, <3>1 DEF TypeOK
    <3>2. CASE u # w
      BY <2>1, <2>2, <2>7, <2>8, <3>2 DEF Running, TypeOK
    <3> QED BY <3>1, <3>2
  <2>9. Running'
    BY <2>8 DEF Running
  <2> QED BY <2>3, <2>5, <2>9
<1>5. ASSUME NEW w \in Workers, FailStalledJob(w) PROVE I'
  <2> DEFINE j == Head(waitq)
  <2>1. /\ waitq # <<>> /\ waitq' = Tail(waitq) /\ stalls[j] > MaxStalled
        /\ jstate' = [jstate EXCEPT ![j] = "failed"]
        /\ attempts' = [attempts EXCEPT ![j] = @ + 1]
        /\ UNCHANGED <<nextId, stalls, lock, cur>>
    BY <1>5 DEF FailStalledJob
  <2>2. j \in QueueJobs /\ jstate[j] = "waiting"
    BY <2>1, ReadyHead
  <2>3. Fresh' /\ Locked' /\ GiveUpJustified'
    BY <2>1, <2>2 DEF Fresh, Locked, GiveUpJustified, TypeOK
  <2>4. \A i \in 1..Len(waitq') : waitq'[i] \in QueueJobs
    BY <2>1, ReadyHead
  <2>5. Ready'
    BY <2>1, <2>2, <2>4, ReadyHead DEF Ready, TypeOK
  <2>6. Running'
    BY <2>1, <2>2 DEF Running, TypeOK
  <2> QED BY <2>3, <2>5, <2>6
<1>6. ASSUME NEW w \in Workers, Throws(w) PROVE I'
  <2> DEFINE j == cur[w]
  <2>1. /\ j \in QueueJobs /\ cur' = [cur EXCEPT ![w] = 0]
        /\ UNCHANGED <<nextId, stalls, waitq>>
    BY <1>6 DEF Throws, HandlerThrows, Leave, Busy
  <2>2. CASE UNCHANGED <<attempts, jstate, lock>>
    BY <2>1, <2>2 DEF Fresh, Ready, Locked, Running, GiveUpJustified, TypeOK
  <2>3. CASE lock[j] = w /\ FailAttempt(w, j)
    <3>1. /\ attempts' = [attempts EXCEPT ![j] = @ + 1]
          /\ lock' = [lock EXCEPT ![j] = NoWorker]
          /\ jstate' = [jstate EXCEPT ![j] =
                          IF LastAttempt(attempts[j] + 1) THEN "failed" ELSE "delayed"]
      BY <2>3 DEF FailAttempt
    <3>2. jstate[j] = "active"
      BY <2>1, <2>3, IngestAssumption DEF Locked
    <3>3. jstate'[j] # "none" /\ \A i \in QueueJobs \ {j} : jstate'[i] = jstate[i]
      BY <2>1, <3>1 DEF TypeOK
    <3>4. Fresh' /\ Locked'
      BY <2>1, <3>1, <3>2, <3>3 DEF Fresh, Locked, TypeOK
    <3>5. \A i \in 1..Len(waitq) : waitq[i] \in QueueJobs
      BY DEF TypeOK
    <3>6. Ready'
      BY <2>1, <3>2, <3>3, <3>5 DEF Ready
    <3>7. Running'
      BY <2>1, <2>3, <3>1, <3>3 DEF Running, TypeOK
    <3>8. attempts'[j] = attempts[j] + 1 /\ attempts[j] \in Nat
      BY <2>1, <3>1 DEF TypeOK
    <3>9. \/ attempts[j] + 1 < MaxAttempts /\ jstate'[j] = "delayed"
          \/ attempts[j] + 1 >= MaxAttempts /\ jstate'[j] = "failed"
      BY <2>1, <3>1, <3>8, IngestAssumption DEF TypeOK
    <3>10. \A i \in QueueJobs \ {j} : attempts'[i] = attempts[i]
      BY <2>1, <3>1 DEF TypeOK
    <3>11. GiveUpJustified'
      BY <2>1, <3>3, <3>8, <3>9, <3>10 DEF GiveUpJustified
    <3> QED BY <3>4, <3>6, <3>7, <3>11
  <2> QED
    BY <1>6, <2>2, <2>3 DEF Throws, HandlerThrows
<1>7. ASSUME NEW w \in Workers, Advances(w) PROVE I'
  BY <1>7 DEF Advances, queueVars, Fresh, Ready, Locked, Running, GiveUpJustified
<1>8. ASSUME NEW w \in Workers, Complete(w) PROVE I'
  <2> DEFINE j == cur[w]
  <2>1. /\ j \in QueueJobs /\ cur' = [cur EXCEPT ![w] = 0]
        /\ UNCHANGED <<nextId, stalls, waitq, attempts>>
    BY <1>8 DEF Complete, Leave, Busy
  <2>2. CASE UNCHANGED <<jstate, lock>>
    BY <2>1, <2>2 DEF Fresh, Ready, Locked, Running, GiveUpJustified, TypeOK
  <2>3. CASE /\ lock[j] = w /\ lock' = [lock EXCEPT ![j] = NoWorker]
             /\ jstate' = [jstate EXCEPT ![j] = "completed"]
    <3>1. jstate[j] = "active"
      BY <2>1, <2>3, IngestAssumption DEF Locked
    <3>2. \A i \in 1..Len(waitq) : waitq[i] \in QueueJobs
      BY DEF TypeOK
    <3> QED
      BY <2>1, <2>3, <3>1, <3>2
      DEF Fresh, Ready, Locked, Running, GiveUpJustified, TypeOK
  <2> QED
    BY <1>8, <2>2, <2>3 DEF Complete
<1>9. ASSUME NEW w \in Workers, Crash(w) PROVE I'
  BY <1>9
  DEF Crash, queueVars, Fresh, Ready, Locked, Running, GiveUpJustified, TypeOK
<1>10. ASSUME NEW j \in QueueJobs, PromoteDelayed(j) PROVE I'
  <2>1. /\ jstate[j] = "delayed" /\ jstate' = [jstate EXCEPT ![j] = "waiting"]
        /\ waitq' = Append(waitq, j)
        /\ UNCHANGED <<nextId, attempts, stalls, lock, cur>>
    BY <1>10 DEF PromoteDelayed, workerVars
  <2>2. /\ Len(waitq') = Len(waitq) + 1 /\ waitq'[Len(waitq) + 1] = j
        /\ \A i \in 1..Len(waitq) : waitq'[i] = waitq[i] /\ waitq[i] \in QueueJobs
    BY <2>1 DEF TypeOK
  <2>3. jstate'[j] = "waiting" /\ \A i \in QueueJobs \ {j} : jstate'[i] = jstate[i]
    BY <2>1 DEF TypeOK
  <2>4. Ready'
    BY <2>1, <2>2, <2>3 DEF Ready
  <2> QED
    BY <2>1, <2>4 DEF Fresh, Locked, Running, GiveUpJustified, TypeOK
<1>11. ASSUME NEW j \in QueueJobs, jstate[j] = "active", Recover(j) PROVE I'
  <2>1. /\ jstate' = [jstate EXCEPT ![j] = "waiting"]
        /\ stalls' = [stalls EXCEPT ![j] = @ + 1] /\ waitq' = <<j>> \o waitq
        /\ lock' = [lock EXCEPT ![j] = NoWorker] /\ UNCHANGED <<nextId, attempts, cur>>
    BY <1>11 DEF Recover, workerVars
  <2>2. /\ Len(waitq') = Len(waitq) + 1 /\ waitq'[1] = j
        /\ \A i \in 2..Len(waitq') : waitq'[i] = waitq[i - 1]
        /\ \A i \in 1..Len(waitq) : waitq[i] \in QueueJobs
    BY <2>1 DEF TypeOK
  <2>3. Ready'
    <3>1. jstate'[j] = "waiting" /\ \A i \in QueueJobs \ {j} : jstate'[i] = jstate[i]
      BY <2>1 DEF TypeOK
    <3>2. \A i \in 1..Len(waitq) : waitq[i] # j
      BY <1>11 DEF Ready
    <3>3. Len(waitq) \in Nat /\ \A i \in 2..Len(waitq') : i - 1 \in 1..Len(waitq)
      BY <2>2 DEF TypeOK
    <3>4. \A i \in 2..Len(waitq') : /\ waitq'[i] \in QueueJobs \ {j}
                                   /\ jstate'[waitq'[i]] = "waiting"
      BY <2>2, <3>1, <3>2, <3>3 DEF Ready
    <3>5. \A i, k \in 2..Len(waitq') : i # k => waitq'[i] # waitq'[k]
      BY <2>2, <3>3 DEF Ready
    <3>6. \A i \in 1..Len(waitq') : i = 1 \/ i \in 2..Len(waitq')
      BY <2>2, <3>3
    <3> QED
      BY <2>2, <3>1, <3>4, <3>5, <3>6 DEF Ready
  <2>4. stalls'[j] # 0 /\ \A i \in QueueJobs \ {j} : stalls'[i] = stalls[i]
    BY <2>1 DEF TypeOK
  <2>5. Running'
    BY <2>1, <2>4 DEF Running, TypeOK
  <2> QED
    BY <1>11, <2>1, <2>3, <2>5 DEF Fresh, Locked, GiveUpJustified, TypeOK
<1>12. ASSUME NEW w \in Workers, NEW j \in QueueJobs,
              MoveToDeadLetterQueue(w, j) \/ DeadLetterFails(w, j)
       PROVE  I'
  BY <1>12 DEF MoveToDeadLetterQueue, DeadLetterFails, queueVars,
     Fresh, Ready, Locked, Running, GiveUpJustified
<1> QED
  BY <1>1, <1>2, <1>3, <1>4, <1>5, <1>6, <1>7, <1>8, <1>9, <1>10, <1>11, <1>12
  DEF QueueStep

LEMMA AlwaysQueue == Spec => []QueueInv
BY InitQueue, NextQueue, PTL DEF Spec

\* A job is given up only after all its attempts or too many stalls, and has
\* attempts left while BullMQ still works on it.
THEOREM GiveUps == Spec => []GiveUpJustified
<1>1. QueueInv => GiveUpJustified
  BY DEF QueueInv
<1> QED
  BY <1>1, AlwaysQueue, PTL

\* Two workers run the same job at once only after its lock was lost.
THEOREM OneRunner == Spec => []OneRunnerPerJob
<1>1. QueueInv => OneRunnerPerJob
  BY DEF QueueInv, EffectInv, TypeOK, Running, OneRunnerPerJob
<1> QED
  BY <1>1, AlwaysQueue, PTL

-----------------------------------------------------------------------------
(* The dead-letter queue.                                                   *)

Spent(j) == jstate[j] = "failed" /\ attempts[j] >= MaxAttempts

\* A job out of attempts is in exactly one place, and only such a job.
Letters ==
  \A j \in QueueJobs :
    /\ j \in dlq => Spent(j) /\ j \notin dlqLost
    /\ j \in dlqLost => Spent(j)
    /\ \A w \in Workers : j \in moving[w] =>
         /\ Spent(j) /\ j \notin dlq /\ j \notin dlqLost
         /\ \A u \in Workers \ {w} : j \notin moving[u]
    /\ Spent(j) => j \in dlq \/ j \in dlqLost \/ \E w \in Workers : j \in moving[w]

LettersInv == QueueInv /\ Letters

LEMMA InitLetters == Init => LettersInv
BY InitQueue DEF Init, LettersInv, Letters, Spent

\* The failure of one job, with OnFailed deciding on the copy.
LEMMA FailureLetters ==
  ASSUME LettersInv, NEW w \in Workers, NEW j \in QueueJobs, jstate[j] # "failed",
         attempts' = [attempts EXCEPT ![j] = @ + 1],
         \A i \in QueueJobs \ {j} : jstate'[i] = jstate[i],
         jstate'[j] # "failed" => attempts[j] + 1 < MaxAttempts,
         attempts[j] + 1 >= MaxAttempts => jstate'[j] = "failed",
         OnFailed(w, j, attempts[j] + 1), UNCHANGED <<dlq, dlqLost>>
  PROVE  Letters'
<1> USE DEF LettersInv, QueueInv, EffectInv
<1>1. /\ attempts'[j] = attempts[j] + 1 /\ attempts[j] \in Nat /\ MaxAttempts \in Nat
      /\ \A i \in QueueJobs \ {j} : attempts'[i] = attempts[i]
  BY IngestAssumption DEF TypeOK
<1>2. \A i \in QueueJobs \ {j} : Spent(i)' <=> Spent(i)
  BY <1>1 DEF Spent
<1>3. /\ j \notin dlq /\ j \notin dlqLost /\ \A v \in Workers : j \notin moving[v]
  BY DEF Letters, Spent
<1>4. CASE attempts[j] + 1 < MaxAttempts
  <2>1. moving' = moving /\ ~Spent(j)'
    BY <1>1, <1>4 DEF OnFailed, Spent
  <2> QED
    BY <1>2, <1>3, <2>1 DEF Letters
<1>5. CASE attempts[j] + 1 >= MaxAttempts
  <2>1. moving' = [moving EXCEPT ![w] = @ \cup {j}] /\ Spent(j)'
    BY <1>1, <1>5 DEF OnFailed, Spent
  <2>2. moving'[w] = moving[w] \cup {j} /\ \A v \in Workers \ {w} : moving'[v] = moving[v]
    BY <2>1 DEF TypeOK
  <2> QED
    BY <1>2, <1>3, <2>1, <2>2 DEF Letters
<1> QED
  BY <1>1, <1>4, <1>5

LEMMA NextLetters == LettersInv /\ [Next]_vars => LettersInv'
<1> SUFFICES ASSUME LettersInv, [Next]_vars PROVE Letters'
  BY NextQueue DEF LettersInv
<1> USE DEF LettersInv, QueueInv, EffectInv
<1>1. QueueStep
  BY StepCases
<1>2. ASSUME UNCHANGED <<moving, dlq, dlqLost, attempts>>,
             \A j \in QueueJobs : jstate'[j] = "failed" <=> jstate[j] = "failed"
      PROVE  Letters'
  BY <1>2 DEF Letters, Spent
<1>3. CASE Elsewhere
  BY <1>2, <1>3 DEF Elsewhere, queueVars, ghostVars
<1>4. ASSUME NEW d \in Deliveries, Accepts(d) PROVE Letters'
  <2>1. /\ nextId \in QueueJobs /\ jstate[nextId] = "none"
        /\ jstate' = [jstate EXCEPT ![nextId] = "waiting"]
    BY <1>4 DEF Accepts, Enqueue, Fresh, TypeOK, QueueJobs
  <2>2. \A j \in QueueJobs : jstate'[j] = "failed" <=> jstate[j] = "failed"
    BY <2>1 DEF TypeOK
  <2> QED
    BY <1>2, <1>4, <2>2 DEF Accepts, Enqueue, workerVars, ghostVars
<1>5. ASSUME NEW w \in Workers, TakeJob(w) PROVE Letters'
  <2>1. /\ Head(waitq) \in QueueJobs /\ jstate[Head(waitq)] = "waiting"
        /\ jstate' = [jstate EXCEPT ![Head(waitq)] = "active"]
    BY <1>5, ReadyHead DEF TakeJob
  <2>2. \A j \in QueueJobs : jstate'[j] = "failed" <=> jstate[j] = "failed"
    BY <2>1 DEF TypeOK
  <2> QED
    BY <1>2, <1>5, <2>2 DEF TakeJob, ghostVars
<1>6. ASSUME NEW w \in Workers, FailStalledJob(w) PROVE Letters'
  <2> DEFINE j == Head(waitq)
  <2>1. /\ j \in QueueJobs /\ jstate[j] = "waiting"
        /\ jstate' = [jstate EXCEPT ![j] = "failed"]
        /\ attempts' = [attempts EXCEPT ![j] = @ + 1]
        /\ OnFailed(w, j, attempts[j] + 1) /\ UNCHANGED <<dlq, dlqLost>>
    BY <1>6, ReadyHead DEF FailStalledJob, ghostVars
  <2>2. jstate'[j] = "failed" /\ \A i \in QueueJobs \ {j} : jstate'[i] = jstate[i]
    BY <2>1 DEF TypeOK
  <2> QED
    BY <2>1, <2>2, FailureLetters
<1>7. ASSUME NEW w \in Workers, Throws(w) PROVE Letters'
  <2> DEFINE j == cur[w]
  <2>1. j \in QueueJobs /\ UNCHANGED <<dlq, dlqLost>>
    BY <1>7 DEF Throws, Busy, ghostVars
  <2>2. CASE UNCHANGED <<attempts, jstate, moving>>
    BY <1>2, <2>1, <2>2
  <2>3. CASE lock[j] = w /\ FailAttempt(w, j)
    <3>1. jstate[j] = "active"
      BY <2>1, <2>3, IngestAssumption DEF Locked
    <3>2. /\ attempts' = [attempts EXCEPT ![j] = @ + 1]
          /\ jstate' = [jstate EXCEPT ![j] =
                          IF LastAttempt(attempts[j] + 1) THEN "failed" ELSE "delayed"]
          /\ OnFailed(w, j, attempts[j] + 1)
      BY <2>3 DEF FailAttempt
    <3>3. /\ jstate'[j] = IF LastAttempt(attempts[j] + 1) THEN "failed" ELSE "delayed"
          /\ \A i \in QueueJobs \ {j} : jstate'[i] = jstate[i]
      BY <2>1, <3>2 DEF TypeOK
    <3>4. attempts[j] + 1 >= MaxAttempts <=> ~(attempts[j] + 1 < MaxAttempts)
      BY <2>1, IngestAssumption DEF TypeOK
    <3> QED
      BY <2>1, <3>1, <3>2, <3>3, <3>4, FailureLetters
  <2> QED
    BY <1>7, <2>2, <2>3 DEF Throws, HandlerThrows
<1>8. ASSUME NEW w \in Workers, Advances(w) PROVE Letters'
  BY <1>2, <1>8 DEF Advances, queueVars
<1>9. ASSUME NEW w \in Workers, Complete(w) PROVE Letters'
  <2>1. cur[w] \in QueueJobs /\ UNCHANGED <<moving, dlq, dlqLost, attempts>>
    BY <1>9 DEF Complete, Busy, ghostVars
  <2>2. CASE UNCHANGED jstate
    BY <1>2, <2>1, <2>2
  <2>3. CASE lock[cur[w]] = w /\ jstate' = [jstate EXCEPT ![cur[w]] = "completed"]
    <3>1. jstate[cur[w]] = "active"
      BY <2>1, <2>3, IngestAssumption DEF Locked
    <3>2. \A j \in QueueJobs : jstate'[j] = "failed" <=> jstate[j] = "failed"
      BY <2>1, <2>3, <3>1 DEF TypeOK
    <3> QED BY <1>2, <2>1, <3>2
  <2> QED
    BY <1>9, <2>2, <2>3 DEF Complete
<1>10. ASSUME NEW w \in Workers, Crash(w) PROVE Letters'
  <2>1. /\ moving' = [moving EXCEPT ![w] = {}] /\ dlqLost' = dlqLost \cup moving[w]
        /\ UNCHANGED <<jstate, attempts, dlq>>
    BY <1>10 DEF Crash, queueVars
  <2>2. moving'[w] = {} /\ \A v \in Workers \ {w} : moving'[v] = moving[v]
    BY <2>1 DEF TypeOK
  <2>3. \A j \in QueueJobs : Spent(j)' <=> Spent(j)
    BY <2>1 DEF Spent
  <2> QED
    BY <2>1, <2>2, <2>3 DEF Letters
<1>11. ASSUME NEW j \in QueueJobs, jstate[j] # "failed",
              jstate' = [jstate EXCEPT ![j] = "waiting"],
              UNCHANGED <<attempts, moving, dlq, dlqLost>>
       PROVE  Letters'
  <2>1. \A i \in QueueJobs : jstate'[i] = "failed" <=> jstate[i] = "failed"
    BY <1>11 DEF TypeOK
  <2> QED
    BY <1>2, <1>11, <2>1
<1>12. ASSUME NEW j \in QueueJobs, PromoteDelayed(j) PROVE Letters'
  BY <1>11, <1>12 DEF PromoteDelayed, workerVars, ghostVars
<1>13. ASSUME NEW j \in QueueJobs, jstate[j] = "active", Recover(j) PROVE Letters'
  BY <1>11, <1>13 DEF Recover, workerVars, ghostVars
<1>14. ASSUME NEW w \in Workers, NEW j \in QueueJobs,
              MoveToDeadLetterQueue(w, j) \/ DeadLetterFails(w, j)
       PROVE  Letters'
  <2>1. /\ j \in moving[w] /\ moving' = [moving EXCEPT ![w] = @ \ {j}]
        /\ UNCHANGED <<jstate, attempts>>
        /\ \/ dlq' = dlq \cup {j} /\ dlqLost' = dlqLost
           \/ dlq' = dlq /\ dlqLost' = dlqLost \cup {j}
    BY <1>14 DEF MoveToDeadLetterQueue, DeadLetterFails, queueVars, ghostVars
  <2>2. moving'[w] = moving[w] \ {j} /\ \A v \in Workers \ {w} : moving'[v] = moving[v]
    BY <2>1 DEF TypeOK
  <2>3. \A i \in QueueJobs : Spent(i)' <=> Spent(i)
    BY <2>1 DEF Spent
  <2> QED
    BY <2>1, <2>2, <2>3 DEF Letters
<1> QED
  BY <1>1, <1>3, <1>4, <1>5, <1>6, <1>7, <1>8, <1>9, <1>10, <1>12, <1>13,
     <1>14
  DEF QueueStep

\* The dead-letter queue, the copies under way and the copies lost are disjoint
\* and together hold exactly the jobs that failed with no attempt left.
THEOREM DeadLetters == Spec => []DeadLettersAccountedFor
<1>1. ASSUME LettersInv PROVE DeadLettersAccountedFor
  <2> USE <1>1 DEF LettersInv, QueueInv, EffectInv
  <2> DEFINE copying == UNION {moving[w] : w \in Workers}
  <2>1. \A j : j \in copying <=> \E w \in Workers : j \in moving[w]
    OBVIOUS
  <2>2. dlq \subseteq QueueJobs /\ dlqLost \subseteq QueueJobs
        /\ \A w \in Workers : moving[w] \subseteq QueueJobs
    BY DEF TypeOK
  <2> HIDE DEF copying
  <2>3. dlq \cap copying = {} /\ dlq \cap dlqLost = {} /\ copying \cap dlqLost = {}
    BY <2>1, <2>2 DEF Letters
  <2>4. \A u, w \in Workers : u # w => moving[u] \cap moving[w] = {}
    BY <2>2 DEF Letters
  <2>5. dlq \cup copying \cup dlqLost = {j \in QueueJobs : Spent(j)}
    BY <2>1, <2>2 DEF Letters
  <2>6. {j \in QueueJobs : Spent(j)} =
          {j \in QueueJobs : jstate[j] = "failed" /\ attempts[j] >= MaxAttempts}
    BY DEF Spent
  <2> QED
    BY <2>3, <2>4, <2>5, <2>6 DEF DeadLettersAccountedFor, copying
<1> QED
  BY <1>1, InitLetters, NextLetters, PTL DEF Spec

-----------------------------------------------------------------------------
(* A workflow job is stored only under a run that is stored.                *)

\* A handler that holds a run row runs a workflow job of that run, and the row
\* is still there.
Kept ==
  \A w \in Workers :
    /\ pc[w] = "find" => msg[cur[w]].entity \in Jobs
    /\ held[w] => /\ cur[w] # 0 /\ msg[cur[w]].entity \in Jobs
                  /\ row[RunOf[msg[cur[w]].entity]] > 0

OrphanInv == QueueInv /\ Kept /\ NoOrphanJobs

LEMMA InitOrphan == Init => OrphanInv
BY InitQueue, IngestAssumption DEF Init, OrphanInv, Kept, NoOrphanJobs, Entities

\* The row, and what a handler holds of it, stay as they are.
LEMMA SameRows ==
  ASSUME OrphanInv, UNCHANGED <<row, msg>>,
         \A w \in Workers : /\ pc'[w] = "find" => pc[w] = "find" /\ cur'[w] = cur[w]
                            /\ held'[w] => held[w] /\ cur'[w] = cur[w]
  PROVE  (Kept /\ NoOrphanJobs)'
BY DEF OrphanInv, Kept, NoOrphanJobs

LEMMA ThrowsRows ==
  ASSUME OrphanInv, NEW w \in Workers, HandlerThrows(w), UNCHANGED row
  PROVE  (Kept /\ NoOrphanJobs)'
<1>1. /\ pc' = [pc EXCEPT ![w] = "idle"] /\ cur' = [cur EXCEPT ![w] = 0]
      /\ held' = [held EXCEPT ![w] = FALSE] /\ UNCHANGED <<row, msg>>
  BY DEF HandlerThrows, Leave, Goto
<1>2. \A v \in Workers : /\ pc'[v] = "find" => pc[v] = "find" /\ cur'[v] = cur[v]
                         /\ held'[v] => held[v] /\ cur'[v] = cur[v]
  BY <1>1 DEF OrphanInv, QueueInv, EffectInv, TypeOK
<1> QED
  BY <1>1, <1>2, SameRows

LEMMA NextOrphan == OrphanInv /\ [Next]_vars => OrphanInv'
<1> DEFINE I == Kept /\ NoOrphanJobs
<1> SUFFICES ASSUME OrphanInv, [Next]_vars PROVE I'
  BY NextQueue DEF OrphanInv
<1> USE DEF QueueInv, EffectInv
<1>1. ASSUME UNCHANGED <<row, msg, pc, cur, held>> PROVE I'
  BY <1>1, SameRows
<1>2. ASSUME NEW e \in Entities, GitHubEvent(e) \/ Redeliver(e) PROVE I'
  BY <1>1, <1>2 DEF GitHubEvent, Redeliver, dbVars, queueVars, workerVars
<1>3. ASSUME NEW d \in net, LoseDelivery(d) PROVE I'
  BY <1>1, <1>3 DEF LoseDelivery, dbVars, queueVars, workerVars
<1>4. ASSUME NEW d \in net, ReceiveWebhook(d) PROVE I'
  <2>1. CASE UNCHANGED queueVars
    BY <1>1, <1>4, <2>1 DEF ReceiveWebhook, dbVars, queueVars, workerVars
  <2>2. CASE Enqueue(d)
    <3>1. jstate[nextId] = "none" /\ nextId \in QueueJobs
      BY <2>2 DEF OrphanInv, Enqueue, Fresh, TypeOK, QueueJobs
    <3>2. \A w \in Workers : cur[w] # 0 => cur[w] \in QueueJobs /\ cur[w] # nextId
      BY <3>1 DEF OrphanInv, Running
    <3>3. \A w \in Workers : cur[w] # 0 => msg'[cur[w]] = msg[cur[w]]
      BY <2>2, <3>2 DEF Enqueue, OrphanInv, TypeOK
    <3>4. \A w \in Workers : pc[w] = "find" => cur[w] # 0
      BY DEF OrphanInv, Busy, QueueJobs
    <3> QED
      BY <1>4, <3>3, <3>4
      DEF ReceiveWebhook, dbVars, workerVars, OrphanInv, Kept, NoOrphanJobs
  <2> QED
    BY <1>4, <2>1, <2>2 DEF ReceiveWebhook
<1>5. ASSUME NEW s \in {"enabled", "disabled"}, SetEnabled(s) PROVE I'
  BY <1>1, <1>5 DEF SetEnabled, queueVars, workerVars
<1>6. ASSUME DeleteRepository PROVE I'
  <2>1. /\ row' = [e \in Entities |-> 0] /\ UNCHANGED <<msg, pc, cur>>
        /\ held' = [w \in Workers |-> held[w] /\ msg[cur[w]].entity \notin Entities]
    BY <1>6 DEF DeleteRepository, Forget, queueVars
  <2>2. \A w \in Workers : ~held'[w]
    BY <2>1 DEF OrphanInv, Kept, Entities
  <2>3. NoOrphanJobs'
    BY <2>1 DEF NoOrphanJobs, Entities
  <2> QED
    BY <2>1, <2>2, <2>3 DEF OrphanInv, Kept
<1>7. ASSUME NEW r \in Runs, PurgeRun(r) PROVE I'
  <2> DEFINE gone == {r} \cup {k \in Jobs : RunOf[k] = r}
  <2>1. /\ row' = [e \in Entities |-> IF e \in gone THEN 0 ELSE row[e]]
        /\ held' = [w \in Workers |-> held[w] /\ msg[cur[w]].entity \notin gone]
        /\ UNCHANGED <<msg, pc, cur>>
    BY <1>7 DEF PurgeRun, Forget, queueVars
  <2>2. \A k \in Jobs : k \notin gone =>
          row'[k] = row[k] /\ row'[RunOf[k]] = row[RunOf[k]]
    BY <2>1, IngestAssumption DEF Entities
  <2> HIDE DEF gone
  <2>3. \A k \in Jobs : k \in gone => row'[k] = 0
    BY <2>1 DEF Entities
  <2>4. NoOrphanJobs'
    <3>1. \A k \in Jobs : row'[k] > 0 => k \notin gone
      BY <2>3
    <3> QED
      BY <2>2, <3>1 DEF OrphanInv, NoOrphanJobs
  <2>5. ASSUME NEW w \in Workers, held'[w]
        PROVE  held[w] /\ msg[cur[w]].entity \notin gone
    <3>1. held'[w] = (held[w] /\ msg[cur[w]].entity \notin gone)
      BY <2>1
    <3> QED BY <2>5, <3>1
  <2>6. Kept'
    BY <2>1, <2>2, <2>5 DEF OrphanInv, Kept
  <2> QED BY <2>4, <2>6
<1>8. ASSUME NEW w \in Workers, Crash(w) PROVE I'
  <2>1. /\ pc' = [pc EXCEPT ![w] = "idle"] /\ cur' = [cur EXCEPT ![w] = 0]
        /\ held' = [held EXCEPT ![w] = FALSE] /\ UNCHANGED <<row, msg>>
    BY <1>8 DEF Crash, Goto, dbVars, queueVars
  <2>2. \A v \in Workers : /\ pc'[v] = "find" => pc[v] = "find" /\ cur'[v] = cur[v]
                           /\ held'[v] => held[v] /\ cur'[v] = cur[v]
    BY <2>1 DEF OrphanInv, TypeOK
  <2> QED BY <2>1, <2>2, SameRows
<1>9. ASSUME NEW w \in Workers, CallFails(w) PROVE I'
  BY <1>9, ThrowsRows DEF CallFails, dbVars
<1>10. ASSUME NEW w \in Workers, NEW j \in QueueJobs,
              DeadLetterFails(w, j) \/ MoveToDeadLetterQueue(w, j)
       PROVE  I'
  BY <1>1, <1>10 DEF DeadLetterFails, MoveToDeadLetterQueue, dbVars, queueVars
<1>11. ASSUME NEW j \in QueueJobs,
              RecoverHeldUp(j) \/ RecoverAbandoned(j) \/ PromoteDelayed(j)
       PROVE  I'
  BY <1>1, <1>11
  DEF RecoverHeldUp, RecoverAbandoned, Recover, PromoteDelayed, dbVars, workerVars
<1>12. ASSUME NEW w \in Workers, TakeJob(w) PROVE I'
  <2> DEFINE j == Head(waitq)
  <2>1. /\ cur' = [cur EXCEPT ![w] = j] /\ held' = [held EXCEPT ![w] = FALSE]
        /\ pc' = [pc EXCEPT ![w] = IF msg[j].entity \in Jobs THEN "find" ELSE "upsert"]
        /\ UNCHANGED <<row, msg>>
    BY <1>12 DEF TakeJob, Goto, dbVars
  <2>2. /\ cur'[w] = j /\ ~held'[w] /\ (pc'[w] = "find" => msg[j].entity \in Jobs)
        /\ \A v \in Workers \ {w} :
             cur'[v] = cur[v] /\ held'[v] = held[v] /\ pc'[v] = pc[v]
    BY <2>1 DEF OrphanInv, TypeOK
  <2> QED
    BY <2>1, <2>2 DEF OrphanInv, Kept, NoOrphanJobs
<1>13. ASSUME NEW w \in Workers, FailStalledJob(w) PROVE I'
  BY <1>1, <1>13 DEF FailStalledJob, dbVars
<1>14. ASSUME NEW w \in Workers, FindRun(w) PROVE I'
  <2>1. CASE HandlerThrows(w)
    BY <1>14, <2>1, ThrowsRows DEF FindRun, dbVars
  <2>2. CASE /\ row[RunOf[msg[cur[w]].entity]] > 0 /\ Goto(w, "upsert")
             /\ held' = [held EXCEPT ![w] = TRUE] /\ UNCHANGED <<cur, queueVars>>
    <3>1. msg[cur[w]].entity \in Jobs /\ cur[w] # 0 /\ UNCHANGED <<row, msg, cur>>
      BY <1>14, <2>2 DEF FindRun, OrphanInv, Kept, Busy, QueueJobs, dbVars, queueVars
    <3>2. /\ held'[w] /\ pc'[w] = "upsert"
          /\ \A v \in Workers \ {w} : held'[v] = held[v] /\ pc'[v] = pc[v]
      BY <2>2 DEF Goto, OrphanInv, TypeOK
    <3> QED
      BY <2>2, <3>1, <3>2 DEF OrphanInv, Kept, NoOrphanJobs
  <2> QED
    BY <1>14, <2>1, <2>2 DEF FindRun
<1>15. ASSUME NEW w \in Workers, Upsert(w) PROVE I'
  <2> DEFINE e == msg[cur[w]].entity
  <2>1. CASE HandlerThrows(w) /\ UNCHANGED row
    BY <2>1, ThrowsRows
  <2>2. CASE /\ ParentExists(w) /\ row' = [row EXCEPT ![e] = msg[cur[w]].version]
             /\ Goto(w, "publish") /\ UNCHANGED <<cur, held, queueVars>>
    <3>1. cur[w] \in QueueJobs /\ UNCHANGED <<cur, held, msg>>
      BY <1>15, <2>2 DEF Upsert, OrphanInv, Busy, queueVars
    <3>2. e \in Entities /\ msg[cur[w]].version \in Nat \ {0}
      BY <3>1, IngestAssumption DEF OrphanInv, TypeOK, Deliveries, Versions
    <3>3. row'[e] > 0 /\ \A f \in Entities \ {e} : row'[f] = row[f]
      BY <2>2, <3>2 DEF OrphanInv, TypeOK
    <3>4. \A f \in Entities : row[f] > 0 => row'[f] > 0
      BY <3>3
    <3>5. \A v \in Workers : pc'[v] = "find" => pc[v] = "find"
      BY <2>2 DEF Goto, OrphanInv, TypeOK
    <3>6. RunOf \in [Jobs -> Runs] /\ Runs \subseteq Entities /\ Jobs \subseteq Entities
      BY IngestAssumption DEF Entities
    <3>7. Kept'
      BY <3>1, <3>4, <3>5, <3>6 DEF OrphanInv, Kept
    <3>8. e \in Jobs => row[RunOf[e]] > 0
      BY <2>2, IngestAssumption DEF ParentExists, OrphanInv, Kept
    <3>9. NoOrphanJobs'
      BY <3>3, <3>4, <3>6, <3>8 DEF OrphanInv, NoOrphanJobs
    <3> QED BY <3>7, <3>9
  <2> QED
    BY <1>15, <2>1, <2>2 DEF Upsert
<1>16. ASSUME NEW w \in Workers, Publish(w) PROVE I'
  <2>1. \A v \in Workers : pc'[v] = "find" => pc[v] = "find"
    BY <1>16 DEF Publish, Goto, OrphanInv, TypeOK
  <2> QED
    BY <1>16, <2>1, SameRows DEF Publish, dbVars, queueVars
<1>17. ASSUME NEW w \in Workers, Complete(w) PROVE I'
  <2>1. /\ pc' = [pc EXCEPT ![w] = "idle"] /\ cur' = [cur EXCEPT ![w] = 0]
        /\ held' = [held EXCEPT ![w] = FALSE] /\ UNCHANGED <<row, msg>>
    BY <1>17 DEF Complete, Leave, Goto, dbVars
  <2>2. \A v \in Workers : /\ pc'[v] = "find" => pc[v] = "find" /\ cur'[v] = cur[v]
                           /\ held'[v] => held[v] /\ cur'[v] = cur[v]
    BY <2>1 DEF OrphanInv, TypeOK
  <2> QED BY <2>1, <2>2, SameRows
<1>18. CASE UNCHANGED vars
  BY <1>1, <1>18 DEF vars, dbVars, queueVars, workerVars
<1> QED
  BY <1>2, <1>3, <1>4, <1>5, <1>6, <1>7, <1>8, <1>9, <1>10, <1>11, <1>12, <1>13,
     <1>14, <1>15, <1>16, <1>17, <1>18
  DEF Next, Environment, Receive, Take, Handle

\* Every stored workflow job has its run stored, although the handler reads the
\* run in one statement and writes the job in another.
THEOREM NoOrphans == Spec => []NoOrphanJobs
<1>1. OrphanInv => NoOrphanJobs
  BY DEF OrphanInv
<1> QED
  BY <1>1, InitOrphan, NextOrphan, PTL DEF Spec

-----------------------------------------------------------------------------
(* What was published had been committed.                                   *)

\* A job whose upsert committed was created.
Known == \A j \in committed : jstate[j] # "none"

FeedInv == QueueInv /\ Known /\ FeedWasCommitted

\* No step takes back a commit, or changes the data of a job that was created.
LEMMA CommitsStay ==
  ASSUME QueueInv, Known, [Next]_vars
  PROVE  /\ Known' /\ committed \subseteq committed'
         /\ \A j \in committed : msg'[j] = msg[j]
<1> USE DEF QueueInv, EffectInv
<1>1. QueueStep
  BY StepCases
<1>2. ASSUME UNCHANGED <<committed, msg>>,
             \A j \in QueueJobs : jstate'[j] = "none" => jstate[j] = "none"
      PROVE  /\ Known' /\ committed \subseteq committed'
             /\ \A j \in committed : msg'[j] = msg[j]
  BY <1>2 DEF Known, TypeOK
<1>3. CASE Elsewhere
  BY <1>2, <1>3 DEF Elsewhere, queueVars, ghostVars
<1>4. ASSUME NEW d \in Deliveries, Accepts(d)
      PROVE  /\ Known' /\ committed \subseteq committed'
             /\ \A j \in committed : msg'[j] = msg[j]
  <2>1. /\ nextId \in QueueJobs /\ jstate[nextId] = "none" /\ committed' = committed
        /\ msg' = [msg EXCEPT ![nextId] = d]
        /\ jstate' = [jstate EXCEPT ![nextId] = "waiting"]
    BY <1>4 DEF Accepts, Enqueue, Fresh, TypeOK, QueueJobs, ghostVars
  <2>2. nextId \notin committed /\ committed \subseteq QueueJobs
    BY <2>1 DEF Known, TypeOK
  <2> QED
    BY <2>1, <2>2 DEF Known, TypeOK
<1>5. ASSUME NEW w \in Workers, TakeJob(w) \/ FailStalledJob(w)
      PROVE  /\ Known' /\ committed \subseteq committed'
             /\ \A j \in committed : msg'[j] = msg[j]
  <2>1. \A j \in QueueJobs : jstate'[j] = "none" => jstate[j] = "none"
    BY <1>5 DEF TakeJob, FailStalledJob, TypeOK
  <2> QED
    BY <1>2, <1>5, <2>1 DEF TakeJob, FailStalledJob, ghostVars
<1>6. ASSUME NEW w \in Workers, Throws(w) \/ Complete(w)
      PROVE  /\ Known' /\ committed \subseteq committed'
             /\ \A j \in committed : msg'[j] = msg[j]
  <2>1. \A j \in QueueJobs : jstate'[j] = "none" => jstate[j] = "none"
    BY <1>6 DEF Throws, HandlerThrows, FailAttempt, Complete, TypeOK
  <2> QED
    BY <1>2, <1>6, <2>1 DEF Throws, HandlerThrows, Complete, Leave, ghostVars
<1>7. ASSUME NEW w \in Workers, Advances(w)
      PROVE  /\ Known' /\ committed \subseteq committed'
             /\ \A j \in committed : msg'[j] = msg[j]
  <2>1. cur[w] \in QueueJobs /\ jstate[cur[w]] # "none"
    BY <1>7 DEF Advances, Busy, Running, QueueJobs
  <2>2. UNCHANGED <<msg, jstate>> /\ (committed' = committed \/ committed' = committed \cup {cur[w]})
    BY <1>7 DEF Advances, queueVars
  <2> QED
    BY <2>1, <2>2 DEF Known
<1>8. ASSUME NEW w \in Workers, Crash(w)
      PROVE  /\ Known' /\ committed \subseteq committed'
             /\ \A j \in committed : msg'[j] = msg[j]
  BY <1>2, <1>8 DEF Crash, queueVars
<1>9. ASSUME NEW j \in QueueJobs, PromoteDelayed(j) \/ Recover(j)
      PROVE  /\ Known' /\ committed \subseteq committed'
             /\ \A i \in committed : msg'[i] = msg[i]
  <2>1. \A i \in QueueJobs : jstate'[i] = "none" => jstate[i] = "none"
    BY <1>9 DEF PromoteDelayed, Recover, TypeOK
  <2> QED
    BY <1>2, <1>9, <2>1 DEF PromoteDelayed, Recover, ghostVars
<1>10. ASSUME NEW w \in Workers, NEW j \in QueueJobs,
              MoveToDeadLetterQueue(w, j) \/ DeadLetterFails(w, j)
       PROVE  /\ Known' /\ committed \subseteq committed'
              /\ \A i \in committed : msg'[i] = msg[i]
  BY <1>2, <1>10 DEF MoveToDeadLetterQueue, DeadLetterFails, queueVars, ghostVars
<1> QED
  BY <1>1, <1>3, <1>4, <1>5, <1>6, <1>7, <1>8, <1>9, <1>10 DEF QueueStep

\* Only a publish changes what subscribers saw last.
LEMMA FeedStep ==
  [Next]_vars => feed' = feed \/ \E w \in Workers : Publish(w)
BY DEF Next, Environment, Receive, Take, Handle, vars, GitHubEvent, Redeliver,
   LoseDelivery, ReceiveWebhook, SetEnabled, DeleteRepository, PurgeRun, Crash,
   CallFails, DeadLetterFails, RecoverHeldUp, RecoverAbandoned, Recover, TakeJob,
   FailStalledJob, FindRun, Upsert, Complete, PromoteDelayed, MoveToDeadLetterQueue

LEMMA InitFeed == Init => FeedInv
BY InitQueue DEF Init, FeedInv, Known, FeedWasCommitted

LEMMA NextFeed == FeedInv /\ [Next]_vars => FeedInv'
<1> SUFFICES ASSUME FeedInv, [Next]_vars PROVE FeedWasCommitted'
  BY NextQueue, CommitsStay DEF FeedInv
<1> USE DEF FeedInv, QueueInv, EffectInv
<1>1. committed \subseteq committed' /\ \A j \in committed : msg'[j] = msg[j]
  BY CommitsStay
<1>2. CASE feed' = feed
  BY <1>1, <1>2 DEF FeedWasCommitted
<1>3. ASSUME NEW w \in Workers, Publish(w) PROVE FeedWasCommitted'
  <2> DEFINE d == msg[cur[w]]
  <2>1. cur[w] \in committed /\ cur[w] \in QueueJobs
    BY <1>3 DEF Publish, Progressed, Busy
  <2>2. /\ d \in Deliveries /\ feed' = [feed EXCEPT ![d.entity] = d.version]
        /\ d.entity \in Entities
    BY <1>3, <2>1 DEF Publish, TypeOK, Deliveries
  <2>3. msg'[cur[w]] = [entity |-> d.entity, version |-> d.version]
    BY <1>1, <2>1, <2>2 DEF Deliveries
  <2>4. feed'[d.entity] = d.version /\ \A e \in Entities \ {d.entity} : feed'[e] = feed[e]
    BY <2>2 DEF TypeOK
  <2> QED
    BY <1>1, <2>1, <2>3, <2>4 DEF FeedWasCommitted
<1> QED
  BY <1>2, <1>3, FeedStep

\* Every event on the channel carries the version of a job that committed.
THEOREM PublishedWasCommitted == Spec => []FeedWasCommitted
<1>1. FeedInv => FeedWasCommitted
  BY DEF FeedInv
<1> QED
  BY <1>1, InitFeed, NextFeed, PTL DEF Spec

-----------------------------------------------------------------------------
(* The queue implements EventDelivery.                                      *)

\* The phase of one job.
PhaseOf(j) ==
  CASE jstate[j] = "none" -> "absent"
    [] jstate[j] = "completed" -> "settled"
    [] jstate[j] = "failed" -> "given_up"
    [] OTHER -> IF j \in committed THEN "applied" ELSE "pending"

\* A step that leaves the phase of every job alone is a stutter; one that
\* changes one job's phase along an action of EventDelivery is that action.
LEMMA PhaseStutter ==
  ASSUME \A i \in QueueJobs : PhaseOf(i)' = PhaseOf(i)
  PROVE  Phase' = Phase
BY DEF Phase, PhaseOf

LEMMA PhaseMove ==
  ASSUME NEW j \in QueueJobs, \A i \in QueueJobs \ {j} : PhaseOf(i)' = PhaseOf(i),
         \/ PhaseOf(j) = "absent" /\ PhaseOf(j)' = "pending"
         \/ PhaseOf(j) = "pending" /\ PhaseOf(j)' = "applied"
         \/ PhaseOf(j) = "applied" /\ PhaseOf(j)' = "settled"
         \/ PhaseOf(j) \in {"pending", "applied"} /\ PhaseOf(j)' = "given_up"
  PROVE  Delivery!Next
<1>1. Phase = [i \in QueueJobs |-> PhaseOf(i)]
  BY DEF Phase, PhaseOf
<1>2. Phase' = [i \in QueueJobs |-> PhaseOf(i)']
  BY DEF Phase, PhaseOf
<1>3. Phase[j] = PhaseOf(j) /\ Phase' = [Phase EXCEPT ![j] = PhaseOf(j)']
  BY <1>1, <1>2
<1> QED
  BY <1>3 DEF Delivery!Next, Delivery!Accept, Delivery!Apply, Delivery!Settle,
     Delivery!GiveUp, Delivery!Move

LEMMA InitDelivery == Init => Delivery!Init
BY DEF Init, Delivery!Init, Phase

LEMMA NextDelivery == FeedInv /\ FeedInv' /\ [Next]_vars => [Delivery!Next]_Phase
<1> SUFFICES ASSUME FeedInv, FeedInv', [Next]_vars PROVE [Delivery!Next]_Phase
  OBVIOUS
<1> USE DEF FeedInv, QueueInv, EffectInv
<1>1. QueueStep
  BY StepCases
<1>2. ASSUME UNCHANGED <<jstate, committed>> PROVE [Delivery!Next]_Phase
  BY <1>2, PhaseStutter DEF PhaseOf
\* One job changes its place in the queue, nothing commits.
<1>3. ASSUME NEW j \in QueueJobs, NEW s \in JobStates,
             jstate' = [jstate EXCEPT ![j] = s], UNCHANGED committed,
             \/ jstate[j] = "none" /\ s = "waiting" /\ j \notin committed
             \/ /\ jstate[j] \in {"waiting", "active", "delayed"}
                /\ s \in {"waiting", "active", "delayed", "failed"}
             \/ /\ jstate[j] \in {"waiting", "active", "delayed"}
                /\ s = "completed" /\ j \in committed
      PROVE  [Delivery!Next]_Phase
  <2>1. jstate'[j] = s /\ \A i \in QueueJobs \ {j} : jstate'[i] = jstate[i]
    BY <1>3 DEF TypeOK
  <2>2. \A i \in QueueJobs \ {j} : PhaseOf(i)' = PhaseOf(i)
    BY <1>3, <2>1 DEF PhaseOf
  <2>3. CASE s \in {"waiting", "active", "delayed"} /\ jstate[j] # "none"
    <3>1. PhaseOf(j)' = PhaseOf(j)
      BY <1>3, <2>1, <2>3 DEF PhaseOf
    <3> QED BY <2>2, <3>1, PhaseStutter
  <2>4. CASE s = "waiting" /\ jstate[j] = "none"
    <3>1. PhaseOf(j) = "absent" /\ PhaseOf(j)' = "pending"
      BY <1>3, <2>1, <2>4 DEF PhaseOf
    <3> QED BY <2>2, <3>1, PhaseMove
  <2>5. CASE s = "failed"
    <3>1. PhaseOf(j) \in {"pending", "applied"} /\ PhaseOf(j)' = "given_up"
      BY <1>3, <2>1, <2>5 DEF PhaseOf
    <3> QED BY <2>2, <3>1, PhaseMove
  <2>6. CASE s = "completed"
    <3>1. PhaseOf(j) = "applied" /\ PhaseOf(j)' = "settled"
      BY <1>3, <2>1, <2>6 DEF PhaseOf
    <3> QED BY <2>2, <3>1, PhaseMove
  <2> QED BY <1>3, <2>3, <2>4, <2>5, <2>6
<1>4. CASE Elsewhere
  BY <1>2, <1>4 DEF Elsewhere, queueVars, ghostVars
<1>5. ASSUME NEW d \in Deliveries, Accepts(d) PROVE [Delivery!Next]_Phase
  <2>1. /\ nextId \in QueueJobs /\ jstate[nextId] = "none" /\ committed' = committed
        /\ jstate' = [jstate EXCEPT ![nextId] = "waiting"]
    BY <1>5 DEF Accepts, Enqueue, Fresh, TypeOK, QueueJobs, ghostVars
  <2>2. nextId \notin committed /\ "waiting" \in JobStates
    BY <2>1 DEF Known, JobStates
  <2> QED
    BY <1>3, <2>1, <2>2
<1>6. ASSUME NEW w \in Workers, TakeJob(w) \/ FailStalledJob(w)
      PROVE  [Delivery!Next]_Phase
  <2> DEFINE j == Head(waitq)
  <2>1. j \in QueueJobs /\ jstate[j] = "waiting" /\ committed' = committed
    BY <1>6, ReadyHead DEF TakeJob, FailStalledJob, ghostVars
  <2>2. \E s \in {"active", "failed"} : jstate' = [jstate EXCEPT ![j] = s]
    BY <1>6 DEF TakeJob, FailStalledJob
  <2> QED
    BY <1>3, <2>1, <2>2 DEF JobStates
<1>7. ASSUME NEW w \in Workers, Throws(w) PROVE [Delivery!Next]_Phase
  <2> DEFINE j == cur[w]
  <2>1. j \in QueueJobs /\ committed' = committed
    BY <1>7 DEF Throws, Busy, ghostVars
  <2>2. CASE UNCHANGED jstate
    BY <1>2, <2>1, <2>2
  <2>3. CASE lock[j] = w /\ FailAttempt(w, j)
    <3>1. jstate[j] = "active"
      BY <2>1, <2>3, IngestAssumption DEF Locked
    <3>2. \E s \in {"delayed", "failed"} : jstate' = [jstate EXCEPT ![j] = s]
      BY <2>3 DEF FailAttempt
    <3> QED BY <1>3, <2>1, <3>1, <3>2 DEF JobStates
  <2> QED
    BY <1>7, <2>2, <2>3 DEF Throws, HandlerThrows
<1>8. ASSUME NEW w \in Workers, Advances(w) PROVE [Delivery!Next]_Phase
  <2>1. PICK j \in QueueJobs :
          /\ jstate' = jstate
          /\ committed' = committed \/ committed' = committed \cup {j}
    BY <1>8 DEF Advances, Busy, queueVars
  <2>2. CASE committed' = committed
    BY <1>2, <2>1, <2>2
  <2>3. CASE committed' = committed \cup {j}
    <3>1. \A i \in QueueJobs \ {j} : i \in committed' <=> i \in committed
      BY <2>3
    <3>2. \A i \in QueueJobs \ {j} : PhaseOf(i)' = PhaseOf(i)
      BY <2>1, <3>1 DEF PhaseOf
    <3>3. j \in committed'
      BY <2>3
    <3>4. CASE jstate[j] \in {"none", "completed", "failed"} \/ j \in committed
      <4>1. PhaseOf(j)' = PhaseOf(j)
        BY <2>1, <3>3, <3>4 DEF PhaseOf
      <4> QED BY <3>2, <4>1, PhaseStutter
    <3>5. CASE jstate[j] \notin {"none", "completed", "failed"} /\ j \notin committed
      <4>1. PhaseOf(j) = "pending" /\ PhaseOf(j)' = "applied"
        BY <2>1, <3>3, <3>5 DEF PhaseOf
      <4> QED BY <2>1, <3>2, <4>1, PhaseMove
    <3> QED BY <3>4, <3>5
  <2> QED BY <2>1, <2>2, <2>3
<1>9. ASSUME NEW w \in Workers, Complete(w) PROVE [Delivery!Next]_Phase
  <2> DEFINE j == cur[w]
  <2>1. j \in QueueJobs /\ j \in committed /\ committed' = committed
    BY <1>9 DEF Complete, Busy, Progressed, ghostVars
  <2>2. CASE UNCHANGED jstate
    BY <1>2, <2>1, <2>2
  <2>3. CASE lock[j] = w /\ jstate' = [jstate EXCEPT ![j] = "completed"]
    <3>1. jstate[j] = "active"
      BY <2>1, <2>3, IngestAssumption DEF Locked
    <3> QED BY <1>3, <2>1, <2>3, <3>1 DEF JobStates
  <2> QED
    BY <1>9, <2>2, <2>3 DEF Complete
<1>10. ASSUME NEW w \in Workers, Crash(w) PROVE [Delivery!Next]_Phase
  BY <1>2, <1>10 DEF Crash, queueVars
<1>11. ASSUME NEW j \in QueueJobs, PromoteDelayed(j) PROVE [Delivery!Next]_Phase
  BY <1>3, <1>11 DEF PromoteDelayed, ghostVars, JobStates
<1>12. ASSUME NEW j \in QueueJobs, jstate[j] = "active", Recover(j)
       PROVE  [Delivery!Next]_Phase
  BY <1>3, <1>12 DEF Recover, ghostVars, JobStates
<1>13. ASSUME NEW w \in Workers, NEW j \in QueueJobs,
              MoveToDeadLetterQueue(w, j) \/ DeadLetterFails(w, j)
       PROVE  [Delivery!Next]_Phase
  BY <1>2, <1>13 DEF MoveToDeadLetterQueue, DeadLetterFails, queueVars, ghostVars
<1> QED
  BY <1>1, <1>4, <1>5, <1>6, <1>7, <1>8, <1>9, <1>10, <1>11, <1>12, <1>13
  DEF QueueStep

\* Every behaviour of the webhook queue is one of EventDelivery: an accepted job
\* is settled only after its effect was applied, and is settled or given up once
\* and for all.
THEOREM ImplementsDelivery == Spec => Delivery!Spec
<1>1. Spec => []FeedInv
  BY InitFeed, NextFeed, PTL DEF Spec
<1> QED
  BY <1>1, InitDelivery, NextDelivery, PTL DEF Spec, Delivery!Spec

-----------------------------------------------------------------------------
(* Who has not been told of what is stored will be, unless two workers race.  *)

OneWorker == \A u, w \in Workers : u = w

\* No job is run twice at the same time, and no two handlers are between the commit and
\* the event of the same entity.
NoRace ==
  \A u, w \in Workers : u # w =>
    /\ pc[u] # "idle" /\ pc[w] # "idle" => cur[u] # cur[w]
    /\ pc[u] = "publish" /\ pc[w] = "publish" => msg[cur[u]].entity # msg[cur[w]].entity

\* BullMQ works on the job still, or keeps it as failed.
InQueue(j) == jstate[j] \in {"waiting", "active", "delayed", "failed"}

\* What a handler has stored and not yet published is what is stored.
Told ==
  \A w \in Workers : pc[w] # "idle" =>
    /\ InQueue(cur[w])
    /\ pc[w] = "publish" => row[msg[cur[w]].entity] \in {0, msg[cur[w]].version}

\* No handler has published for job j and only has to report it.
Unsettled(j) == \A w \in Workers : cur[w] = j => pc[w] # "settle"

\* A row that subscribers have not seen has a job left that will publish it.
Debts ==
  \A e \in Entities : row[e] > 0 /\ feed[e] # row[e] =>
    \E j \in QueueJobs : InQueue(j) /\ Unsettled(j) /\ msg[j].entity = e

QuietInv == QueueInv /\ Told /\ Debts

LEMMA InitQuiet == Init => QuietInv
BY InitQueue DEF Init, QuietInv, Told, Debts

\* A step that stores and publishes nothing, and keeps every job.
LEMMA QuietSame ==
  ASSUME QuietInv, QueueInv', feed' = feed,
         \A e \in Entities : row'[e] \in {0, row[e]},
         \A j \in QueueJobs : InQueue(j) => InQueue(j)' /\ msg'[j] = msg[j],
         \A w \in Workers : pc'[w] # "idle" =>
           /\ cur'[w] \in QueueJobs /\ InQueue(cur[w])'
           /\ pc'[w] \in {"publish", "settle"} => pc'[w] = pc[w] /\ cur'[w] = cur[w]
  PROVE  QuietInv'
<1>1. Told'
  <2> SUFFICES ASSUME NEW w \in Workers, pc'[w] = "publish"
               PROVE  row'[msg'[cur[w]].entity] \in {0, msg'[cur[w]].version}
    BY DEF Told
  <2>1. pc'[w] = pc[w] /\ cur'[w] = cur[w] /\ cur[w] \in QueueJobs
    BY DEF QuietInv, QueueInv, EffectInv, Busy
  <2>2. msg'[cur[w]] = msg[cur[w]] /\ msg[cur[w]].entity \in Entities
    BY <2>1 DEF QuietInv, QueueInv, EffectInv, Told, TypeOK, Deliveries
  <2> QED BY <2>1, <2>2 DEF QuietInv, Told
<1>2. Debts'
  <2> SUFFICES ASSUME NEW e \in Entities, row'[e] > 0, feed'[e] # row'[e]
               PROVE  \E j \in QueueJobs : InQueue(j)' /\ Unsettled(j)' /\ msg'[j].entity = e
    BY DEF Debts
  <2>1. row'[e] = row[e]
    OBVIOUS
  <2>2. PICK j \in QueueJobs : InQueue(j) /\ Unsettled(j) /\ msg[j].entity = e
    BY <2>1 DEF QuietInv, Debts
  <2>3. Unsettled(j)'
    BY <2>2 DEF Unsettled
  <2> QED BY <2>2, <2>3
<1> QED BY <1>1, <1>2 DEF QuietInv

\* The step that stores: its job is still to be completed.
LEMMA QuietStores ==
  ASSUME NoRace, NoRace', QuietInv, QueueInv', NEW w \in Workers, Upsert(w), pc'[w] = "publish"
  PROVE  QuietInv'
<1> DEFINE d == msg[cur[w]]
<1>1. /\ pc[w] = "upsert" /\ pc' = [pc EXCEPT ![w] = "publish"] /\ UNCHANGED <<cur, queueVars, feed>>
      /\ row' = [row EXCEPT ![d.entity] = d.version]
  <2>1. ~HandlerThrows(w)
    BY DEF HandlerThrows, Leave, Goto, QuietInv, QueueInv, EffectInv, TypeOK
  <2> QED BY <2>1 DEF Upsert, Goto
<1>2. cur[w] \in QueueJobs /\ InQueue(cur[w])
  BY <1>1 DEF QuietInv, QueueInv, EffectInv, Busy, Told
<1>3. d.entity \in Entities
  BY <1>2 DEF QuietInv, QueueInv, EffectInv, TypeOK, Deliveries
<1>4. row'[d.entity] = d.version /\ \A e \in Entities \ {d.entity} : row'[e] = row[e]
  BY <1>1, <1>3 DEF QuietInv, QueueInv, EffectInv, TypeOK
<1>5. pc'[w] = "publish" /\ \A u \in Workers \ {w} : pc'[u] = pc[u]
  BY <1>1 DEF QuietInv, QueueInv, EffectInv, TypeOK
<1>6. UNCHANGED <<cur, msg, jstate, feed>>
  BY <1>1 DEF queueVars
<1>7. Told'
  <2> SUFFICES ASSUME NEW u \in Workers, pc'[u] # "idle"
               PROVE  /\ InQueue(cur[u])
                      /\ pc'[u] = "publish" => row'[msg[cur[u]].entity] \in {0, msg[cur[u]].version}
    BY <1>6 DEF Told, InQueue
  <2>1. CASE u = w
    BY <1>2, <1>4, <2>1
  <2>2. CASE u # w
    <3>1. pc[u] = pc'[u] /\ InQueue(cur[u]) /\ cur[u] \in QueueJobs
      BY <1>5, <2>2 DEF QuietInv, QueueInv, EffectInv, Told, Busy
    <3>2. pc[u] = "publish" => msg[cur[u]].entity # d.entity
      BY <1>5, <1>6, <2>2, <3>1 DEF NoRace
    <3>3. msg[cur[u]].entity \in Entities
      BY <3>1 DEF QuietInv, QueueInv, EffectInv, TypeOK, Deliveries
    <3> QED BY <1>4, <3>1, <3>2, <3>3 DEF QuietInv, Told
  <2> QED BY <2>1, <2>2
<1>8. Debts'
  <2> SUFFICES ASSUME NEW e \in Entities, row'[e] > 0, feed[e] # row'[e]
               PROVE  \E j \in QueueJobs : InQueue(j) /\ Unsettled(j)' /\ msg[j].entity = e
    BY <1>6 DEF Debts, InQueue
  <2>1. CASE e = d.entity
    <3>1. PICK j \in QueueJobs : j = cur[w]
      BY <1>2
    <3>2. \A u \in Workers : cur'[u] = j => pc'[u] # "settle"
      BY <1>1, <1>5, <1>6, <3>1 DEF NoRace
    <3>3. Unsettled(j)'
      BY <3>2 DEF Unsettled
    <3> QED BY <1>2, <2>1, <3>1, <3>3
  <2>2. CASE e # d.entity
    <3>1. PICK j \in QueueJobs : InQueue(j) /\ Unsettled(j) /\ msg[j].entity = e
      BY <1>4, <2>2 DEF QuietInv, Debts
    <3>2. Unsettled(j)'
      BY <1>5, <1>6, <3>1 DEF Unsettled
    <3> QED BY <3>1, <3>2
  <2> QED BY <2>1, <2>2
<1> QED BY <1>7, <1>8 DEF QuietInv

\* The step that publishes: what its job stored is stored, unless it was deleted.
LEMMA QuietPublishes ==
  ASSUME QuietInv, QueueInv', NEW w \in Workers, Publish(w) PROVE QuietInv'
<1> DEFINE d == msg[cur[w]]
<1>1. /\ pc[w] = "publish" /\ pc' = [pc EXCEPT ![w] = "settle"] /\ UNCHANGED <<cur, queueVars, row>>
      /\ feed' = [feed EXCEPT ![d.entity] = d.version]
  BY DEF Publish, Goto, dbVars
<1>2. cur[w] \in QueueJobs /\ InQueue(cur[w]) /\ row[d.entity] \in {0, d.version}
  BY <1>1 DEF QuietInv, QueueInv, EffectInv, Busy, Told
<1>3. d.entity \in Entities
  BY <1>2 DEF QuietInv, QueueInv, EffectInv, TypeOK, Deliveries
<1>4. feed'[d.entity] = d.version /\ \A e \in Entities \ {d.entity} : feed'[e] = feed[e]
  BY <1>1, <1>3 DEF QuietInv, QueueInv, EffectInv, TypeOK
<1>5. pc'[w] = "settle" /\ \A u \in Workers \ {w} : pc'[u] = pc[u]
  BY <1>1 DEF QuietInv, QueueInv, EffectInv, TypeOK
<1>6. UNCHANGED <<cur, msg, jstate, row>>
  BY <1>1 DEF queueVars
<1>7. Told'
  BY <1>2, <1>5, <1>6 DEF QuietInv, Told, InQueue
<1>8. Debts'
  <2> SUFFICES ASSUME NEW e \in Entities, row[e] > 0, feed'[e] # row[e]
               PROVE  \E j \in QueueJobs : InQueue(j) /\ Unsettled(j)' /\ msg[j].entity = e
    BY <1>6 DEF Debts, InQueue
  <2>1. e # d.entity /\ feed[e] # row[e]
    BY <1>2, <1>4
  <2>2. PICK j \in QueueJobs : InQueue(j) /\ Unsettled(j) /\ msg[j].entity = e
    BY <2>1 DEF QuietInv, Debts
  <2>3. Unsettled(j)'
    BY <1>5, <1>6, <2>1, <2>2 DEF Unsettled
  <2> QED BY <2>2, <2>3
<1> QED BY <1>7, <1>8 DEF QuietInv

\* The step that completes: its job owes nothing.
LEMMA QuietCompletes ==
  ASSUME NoRace, QuietInv, QueueInv', NEW w \in Workers, Complete(w) PROVE QuietInv'
<1>1. /\ pc[w] = "settle" /\ UNCHANGED <<msg, row, feed>>
      /\ pc' = [pc EXCEPT ![w] = "idle"] /\ cur' = [cur EXCEPT ![w] = 0]
      /\ \A j \in QueueJobs \ {cur[w]} : jstate'[j] = jstate[j]
  BY DEF Complete, Leave, Goto, dbVars, QuietInv, QueueInv, EffectInv, TypeOK
<1>2. pc'[w] = "idle" /\ \A u \in Workers \ {w} : pc'[u] = pc[u] /\ cur'[u] = cur[u]
  BY <1>1 DEF QuietInv, QueueInv, EffectInv, TypeOK
<1>3. ASSUME NEW j \in QueueJobs, j # cur[w], InQueue(j) PROVE InQueue(j)'
  BY <1>1, <1>3 DEF InQueue
<1>4. Told'
  <2> SUFFICES ASSUME NEW u \in Workers, pc'[u] # "idle"
               PROVE  /\ InQueue(cur[u])'
                      /\ pc'[u] = "publish" => row[msg[cur'[u]].entity] \in {0, msg[cur'[u]].version}
    BY <1>1 DEF Told
  <2>1. u # w /\ pc'[u] = pc[u] /\ cur'[u] = cur[u] /\ cur[u] \in QueueJobs
    BY <1>2 DEF QuietInv, QueueInv, EffectInv, Busy
  <2>2. cur[u] # cur[w] /\ InQueue(cur[u])
    BY <1>1, <2>1 DEF NoRace, QuietInv, Told
  <2>3. InQueue(cur[u])'
    BY <1>1, <2>1, <2>2 DEF InQueue
  <2> QED BY <2>1, <2>3 DEF QuietInv, Told
<1>5. Debts'
  <2> SUFFICES ASSUME NEW e \in Entities, row[e] > 0, feed[e] # row[e]
               PROVE  \E j \in QueueJobs : InQueue(j)' /\ Unsettled(j)' /\ msg[j].entity = e
    BY <1>1 DEF Debts
  <2>1. PICK j \in QueueJobs : InQueue(j) /\ Unsettled(j) /\ msg[j].entity = e
    BY DEF QuietInv, Debts
  <2>2. j # cur[w]
    BY <1>1, <2>1 DEF Unsettled
  <2>3. Unsettled(j)'
    BY <1>2, <2>1 DEF Unsettled
  <2> QED BY <1>3, <2>1, <2>2, <2>3
<1> QED BY <1>4, <1>5 DEF QuietInv

\* A handler that throws leaves its job to be tried again, or failed.
LEMMA QuietThrows ==
  ASSUME QuietInv, QueueInv', NEW w \in Workers, pc[w] # "idle", HandlerThrows(w),
         UNCHANGED <<row, feed>>
  PROVE  QuietInv'
<1> USE DEF QuietInv, QueueInv, EffectInv
<1>1. cur[w] \in QueueJobs /\ InQueue(cur[w])
  BY DEF Busy, Told
<1>2. msg' = msg /\ \A j \in QueueJobs : InQueue(j) => InQueue(j)'
  BY <1>1 DEF HandlerThrows, Leave, FailAttempt, InQueue, TypeOK
<1>3. \A u \in Workers : pc'[u] = "idle" \/ (pc'[u] = pc[u] /\ cur'[u] = cur[u])
  BY DEF HandlerThrows, Leave, Goto, TypeOK
<1>4. \A u \in Workers : pc[u] # "idle" => cur[u] \in QueueJobs /\ InQueue(cur[u])
  BY DEF Busy, Told
<1>5. ASSUME NEW u \in Workers, pc'[u] # "idle"
      PROVE  cur'[u] \in QueueJobs /\ InQueue(cur[u])' /\ pc'[u] = pc[u] /\ cur'[u] = cur[u]
  <2>1. pc'[u] = pc[u] /\ cur'[u] = cur[u] /\ cur[u] \in QueueJobs /\ InQueue(cur[u])
    BY <1>3, <1>4, <1>5
  <2> QED BY <1>2, <2>1 DEF InQueue
<1>6. \A e \in Entities : row'[e] \in {0, row[e]}
  OBVIOUS
<1> QED BY <1>2, <1>5, <1>6, QuietSame

\* What the environment, the API and the queue do.
LEMMA QuietElsewhere ==
  ASSUME QuietInv, QueueInv', UNCHANGED <<msg, jstate, pc, cur, feed>>,
         \A e \in Entities : row'[e] \in {0, row[e]}
  PROVE  QuietInv'
<1>1. \A w \in Workers : pc[w] # "idle" => cur[w] \in QueueJobs /\ InQueue(cur[w])
  BY DEF QuietInv, QueueInv, EffectInv, Busy, Told
<1>2. \A w \in Workers : pc'[w] # "idle" => cur'[w] \in QueueJobs /\ InQueue(cur[w])'
  BY <1>1 DEF InQueue
<1>3. \A j \in QueueJobs : InQueue(j) => InQueue(j)'
  BY DEF InQueue
<1> QED BY <1>2, <1>3, QuietSame

LEMMA NextQuiet == ASSUME NoRace, NoRace', QuietInv, [Next]_vars PROVE QuietInv'
<1> USE DEF QuietInv, QueueInv, EffectInv
<1>1. QueueInv'
  BY NextQueue
<1>2. \A w \in Workers : pc[w] # "idle" => cur[w] \in QueueJobs /\ InQueue(cur[w])
  BY DEF Busy, Told
<1>s. ASSUME UNCHANGED feed,
             \A e \in Entities : row'[e] \in {0, row[e]},
             \A j \in QueueJobs : InQueue(j) => InQueue(j)' /\ msg'[j] = msg[j],
             \A w \in Workers :
               \/ pc'[w] = "idle"
               \/ pc[w] # "idle" /\ cur'[w] = cur[w] /\ pc'[w] \in {pc[w], "upsert"}
               \/ pc'[w] \in {"find", "upsert"} /\ cur'[w] \in QueueJobs /\ InQueue(cur[w])'
      PROVE  QuietInv'
  <2>1. ASSUME NEW w \in Workers, pc'[w] # "idle"
        PROVE  /\ cur'[w] \in QueueJobs /\ InQueue(cur[w])'
               /\ pc'[w] \in {"publish", "settle"} => pc'[w] = pc[w] /\ cur'[w] = cur[w]
    <3>1. CASE pc[w] # "idle" /\ cur'[w] = cur[w] /\ pc'[w] \in {pc[w], "upsert"}
      <4>1. InQueue(cur[w]) => InQueue(cur[w])'
        BY <1>2, <1>s, <3>1 DEF InQueue
      <4> QED BY <1>2, <3>1, <4>1
    <3>2. CASE pc'[w] \in {"find", "upsert"} /\ cur'[w] \in QueueJobs /\ InQueue(cur[w])'
      BY <3>2
    <3> QED BY <1>s, <2>1, <3>1, <3>2
  <2> QED BY <1>1, <1>s, <2>1, QuietSame
<1>3. ASSUME NEW e \in Entities, GitHubEvent(e) \/ Redeliver(e) PROVE QuietInv'
  BY <1>1, <1>3, QuietElsewhere DEF GitHubEvent, Redeliver, dbVars, queueVars, workerVars
<1>4. ASSUME NEW d \in net, LoseDelivery(d) PROVE QuietInv'
  BY <1>1, <1>4, QuietElsewhere DEF LoseDelivery, dbVars, queueVars, workerVars
<1>5. ASSUME NEW s \in {"enabled", "disabled"}, SetEnabled(s) PROVE QuietInv'
  BY <1>1, <1>5, QuietElsewhere DEF SetEnabled, queueVars, workerVars
<1>6. CASE DeleteRepository
  <2>1. \A e \in Entities : row'[e] \in {0, row[e]}
    BY <1>6 DEF DeleteRepository
  <2> QED BY <1>1, <1>6, <2>1, QuietElsewhere DEF DeleteRepository, queueVars
<1>7. ASSUME NEW r \in Runs, PurgeRun(r) PROVE QuietInv'
  <2>1. \A e \in Entities : row'[e] \in {0, row[e]}
    BY <1>7 DEF PurgeRun
  <2> QED BY <1>1, <1>7, <2>1, QuietElsewhere DEF PurgeRun, queueVars
<1>8. ASSUME NEW w \in Workers, Crash(w) PROVE QuietInv'
  <2>1. UNCHANGED <<msg, jstate, row, feed>>
    BY <1>8 DEF Crash, dbVars, queueVars
  <2>2. \A u \in Workers : pc'[u] = "idle" \/ (pc'[u] = pc[u] /\ cur'[u] = cur[u])
    BY <1>8 DEF Crash, Goto, TypeOK
  <2>3. \A j \in QueueJobs : InQueue(j) => InQueue(j)'
    BY <2>1 DEF InQueue
  <2>4. \A e \in Entities : row'[e] \in {0, row[e]}
    BY <2>1
  <2>5. \A u \in Workers : pc'[u] = "idle" \/ (pc[u] # "idle" /\ cur'[u] = cur[u] /\ pc'[u] = pc[u])
    BY <2>2
  <2> QED BY <1>s, <2>1, <2>3, <2>4, <2>5
<1>9. ASSUME NEW w \in Workers, CallFails(w) PROVE QuietInv'
  BY <1>1, <1>9, QuietThrows DEF CallFails, dbVars
<1>10. ASSUME NEW w \in Workers, NEW j \in QueueJobs,
              DeadLetterFails(w, j) \/ MoveToDeadLetterQueue(w, j)
       PROVE  QuietInv'
  BY <1>1, <1>10, QuietElsewhere DEF DeadLetterFails, MoveToDeadLetterQueue, dbVars, queueVars
<1>11. ASSUME NEW j \in QueueJobs, RecoverHeldUp(j) \/ RecoverAbandoned(j) \/ PromoteDelayed(j)
       PROVE  QuietInv'
  <2>1. /\ UNCHANGED <<msg, row, feed, pc, cur>> /\ jstate[j] \in {"active", "delayed"}
        /\ jstate' = [jstate EXCEPT ![j] = "waiting"]
    BY <1>11 DEF RecoverHeldUp, RecoverAbandoned, Abandoned, Recover, PromoteDelayed, dbVars, workerVars
  <2>2. \A i \in QueueJobs : jstate'[i] = IF i = j THEN "waiting" ELSE jstate[i]
    BY <2>1 DEF TypeOK
  <2>3. \A i \in QueueJobs : InQueue(i) => InQueue(i)'
    BY <2>2 DEF InQueue
  <2> QED BY <1>s, <2>1, <2>3
<1>12. ASSUME NEW d \in net, ReceiveWebhook(d) PROVE QuietInv'
  <2>1. CASE UNCHANGED queueVars
    BY <1>1, <1>12, <2>1, QuietElsewhere DEF ReceiveWebhook, dbVars, queueVars, workerVars
  <2>2. CASE Enqueue(d)
    <3>1. /\ nextId \in QueueJobs /\ jstate[nextId] = "none"
          /\ \A j \in QueueJobs \ {nextId} : jstate'[j] = jstate[j] /\ msg'[j] = msg[j]
      BY <2>2 DEF Enqueue, Fresh, TypeOK, QueueJobs
    <3>2. \A j \in QueueJobs : InQueue(j) => InQueue(j)' /\ msg'[j] = msg[j]
      BY <3>1 DEF InQueue
    <3>3. UNCHANGED <<row, feed, pc, cur>>
      BY <1>12 DEF ReceiveWebhook, dbVars, workerVars
    <3> QED BY <1>s, <3>2, <3>3
  <2> QED BY <1>12, <2>1, <2>2 DEF ReceiveWebhook
<1>13. ASSUME NEW w \in Workers, TakeJob(w) PROVE QuietInv'
  <2>1. Head(waitq) \in QueueJobs /\ jstate[Head(waitq)] = "waiting"
    BY <1>13, ReadyHead DEF TakeJob
  <2>2. /\ UNCHANGED <<msg, row, feed>>
        /\ \A j \in QueueJobs : jstate'[j] = IF j = Head(waitq) THEN "active" ELSE jstate[j]
    BY <1>13, <2>1 DEF TakeJob, dbVars, TypeOK
  <2>3. cur'[w] = Head(waitq) /\ pc'[w] \in {"find", "upsert"}
    BY <1>13 DEF TakeJob, Goto, TypeOK
  <2>4. \A j \in QueueJobs : InQueue(j) => InQueue(j)'
    BY <2>1, <2>2 DEF InQueue
  <2>5. jstate'[cur'[w]] = "active"
    BY <2>1, <2>2, <2>3
  <2>6. \A u \in Workers \ {w} : pc'[u] = pc[u] /\ cur'[u] = cur[u]
    BY <1>13 DEF TakeJob, Goto, TypeOK
  <2>7. InQueue(cur[w])'
    BY <2>5 DEF InQueue
  <2> QED BY <1>s, <2>1, <2>2, <2>3, <2>4, <2>6, <2>7
<1>14. ASSUME NEW w \in Workers, FailStalledJob(w) PROVE QuietInv'
  <2>1. Head(waitq) \in QueueJobs /\ jstate[Head(waitq)] = "waiting"
    BY <1>14, ReadyHead DEF FailStalledJob
  <2>2. /\ UNCHANGED <<msg, row, feed, pc, cur>> /\ pc[w] = "idle"
        /\ \A j \in QueueJobs : jstate'[j] = IF j = Head(waitq) THEN "failed" ELSE jstate[j]
    BY <1>14, <2>1 DEF FailStalledJob, dbVars, TypeOK
  <2>3. \A j \in QueueJobs : InQueue(j) => InQueue(j)'
    BY <2>1, <2>2 DEF InQueue
  <2> QED BY <1>s, <2>2, <2>3
<1>15. ASSUME NEW w \in Workers, FindRun(w) PROVE QuietInv'
  <2>1. CASE HandlerThrows(w)
    BY <1>1, <1>15, <2>1, QuietThrows DEF FindRun, dbVars
  <2>2. CASE ~HandlerThrows(w)
    <3>1. /\ UNCHANGED <<msg, jstate, row, feed, cur>> /\ pc[w] = "find"
          /\ pc' = [pc EXCEPT ![w] = "upsert"]
      BY <1>15, <2>2 DEF FindRun, Goto, dbVars, queueVars
    <3>2. \A u \in Workers : pc'[u] = IF u = w THEN "upsert" ELSE pc[u]
      BY <3>1 DEF TypeOK
    <3>3. \A j \in QueueJobs : InQueue(j) => InQueue(j)'
      BY <3>1 DEF InQueue
    <3> QED BY <1>s, <3>1, <3>2, <3>3
  <2> QED BY <2>1, <2>2
<1>16. ASSUME NEW w \in Workers, Upsert(w) PROVE QuietInv'
  <2>1. CASE pc'[w] = "publish"
    BY <1>1, <1>16, <2>1, QuietStores
  <2>2. CASE pc'[w] # "publish"
    <3>1. HandlerThrows(w) /\ UNCHANGED <<row, feed>> /\ pc[w] # "idle"
      BY <1>16, <2>2 DEF Upsert, Goto, TypeOK
    <3> QED BY <1>1, <3>1, QuietThrows
  <2> QED BY <2>1, <2>2
<1>17. ASSUME NEW w \in Workers, Publish(w) \/ Complete(w) PROVE QuietInv'
  BY <1>1, <1>17, QuietPublishes, QuietCompletes
<1>18. CASE UNCHANGED vars
  BY <1>1, <1>18, QuietElsewhere DEF vars, dbVars, queueVars, workerVars
<1> QED
  BY <1>3, <1>4, <1>5, <1>6, <1>7, <1>8, <1>9, <1>10, <1>11, <1>12, <1>13, <1>14, <1>15, <1>16,
     <1>17, <1>18
  DEF Next, Environment, Receive, Take, Handle

\* Whatever is lost, repeated, refused, purged or stalls, and with any number of worker
\* processes: as long as these do not race, subscribers saw last what the database holds
\* once every accepted job has completed. So nothing but the two races of NoRace can leave
\* the pages with something else than the database.
THEOREM QuietUnlessRaced == Spec /\ []NoRace => []QuietFeedAgrees
<1>1. QuietInv => QuietFeedAgrees
  <2> SUFFICES ASSUME QuietInv, Undecided = {}, \A j \in QueueJobs : jstate[j] # "failed",
                      NEW e \in Entities, row[e] > 0
               PROVE  feed[e] = row[e]
    BY DEF QuietFeedAgrees
  <2>1. \A j \in QueueJobs : ~InQueue(j)
    BY DEF Undecided, InQueue
  <2> QED BY <2>1 DEF QuietInv, Debts
<1>2. QuietInv /\ NoRace /\ NoRace' /\ [Next]_vars => QuietInv'
  BY NextQuiet
<1> QED BY <1>1, <1>2, InitQuiet, PTL DEF Spec

\* One worker process does not race.
THEOREM QuietFeed == ASSUME OneWorker PROVE Spec => []QuietFeedAgrees
<1>1. NoRace
  BY DEF OneWorker, NoRace
<1> QED BY <1>1, QuietUnlessRaced, PTL

-----------------------------------------------------------------------------
(* Nothing disturbs the order of deliveries: stored runs only move forward. *)

Disturbances == {"redelivery", "error", "crash", "stall"}

\* Deliveries arrive in order, and no call, process or lock fails. They may be lost,
\* repositories disabled or deleted, and runs purged.
Undisturbed == InOrder /\ \A k \in Disturbances : Budget[k] = 0

\* One delivery at a time; handlers run to their end, and store a run at the first attempt.
Calm == \A k \in Disturbances : left[k] = 0
OneDelivery == \A c, d \in net : c = d
NoneAbandoned ==
  \A j \in QueueJobs : jstate[j] = "active" =>
    \E w \in Workers : lock[j] = w /\ cur[w] = j /\ pc[w] # "idle"
FindsForJobs == \A w \in Workers : pc[w] = "find" => msg[cur[w]].entity \in Jobs
RetriesAreJobs ==
  repo # "deleted" => \A j \in QueueJobs : jstate[j] = "delayed" => msg[j].entity \in Jobs
NothingLeft == repo = "deleted" => \A r \in Runs : row[r] = 0

Smooth ==
  Calm /\ OneDelivery /\ NoneAbandoned /\ FindsForJobs /\ RetriesAreJobs /\ NothingLeft

Places == 1..Len(waitq)
Storing(w) == pc[w] = "upsert"
RunJob(j) == msg[j].entity \in Runs

\* No two workers are about to store the same run.
OneStoring ==
  \A u, w \in Workers :
    u # w /\ Storing(u) /\ Storing(w) /\ RunJob(cur[u]) => msg[cur[u]].entity # msg[cur[w]].entity

\* Of two jobs about the same run, i carries no later version than j.
NoLater(i, j) == RunJob(i) /\ msg[i].entity = msg[j].entity => msg[i].version <= msg[j].version

\* Job j is between the row and what is still to come.
Between(j) ==
  RunJob(j) =>
    /\ row[msg[j].entity] <= msg[j].version /\ msg[j].version <= gh[msg[j].entity]
    /\ \A d \in net : d.entity = msg[j].entity => msg[j].version <= d.version

\* From the row over the handler, the line of ready jobs and the delivery to GitHub,
\* the versions of a run do not decrease.
LineOrdered == \A p, q \in Places : p < q => NoLater(waitq[p], waitq[q])
HandlerFirst == \A w \in Workers, p \in Places : Storing(w) => NoLater(cur[w], waitq[p])
LineBetween == \A p \in Places : Between(waitq[p])
HandlerBetween == \A w \in Workers : Storing(w) => Between(cur[w])
RowsFirst ==
  \A r \in Runs :
    /\ row[r] <= gh[r]
    /\ \A d \in net : d.entity = r => row[r] <= d.version /\ d.version <= gh[r]

Ordered == LineOrdered /\ HandlerFirst /\ LineBetween /\ HandlerBetween /\ RowsFirst

OrderInv == QueueInv /\ Smooth /\ (repo # "deleted" => Ordered)

LEMMA InitOrder == ASSUME Undisturbed, Init PROVE OrderInv
<1>1. QueueInv
  BY InitQueue
<1>2. Smooth
  BY DEF Init, Undisturbed, Disturbances, EnvEvents, Smooth, Calm, OneDelivery, NoneAbandoned,
         FindsForJobs, RetriesAreJobs, NothingLeft
<1>3. Ordered
  BY DEF Init, Entities, Places, Storing, Ordered, LineOrdered, HandlerFirst, LineBetween,
         HandlerBetween, RowsFirst
<1> QED BY <1>1, <1>2, <1>3 DEF OrderInv

\* Jobs at work, in line or delayed keep what they carry.
LEMMA JobsKeep ==
  ASSUME QueueInv, [Next]_vars
  PROVE  \A j \in QueueJobs : jstate[j] # "none" => msg'[j] = msg[j]
<1> USE DEF QueueInv, EffectInv
<1>1. ASSUME NEW d \in net, ReceiveWebhook(d), NEW j \in QueueJobs, jstate[j] # "none"
      PROVE  msg'[j] = msg[j]
  <2>1. jstate[nextId] = "none" \/ nextId \notin QueueJobs
    BY DEF Fresh, TypeOK, QueueJobs
  <2> QED BY <1>1, <2>1 DEF ReceiveWebhook, Enqueue, queueVars, TypeOK
<1> QED
  BY <1>1
  DEF Next, vars, Environment, Receive, Take, Handle, queueVars, dbVars, GitHubEvent, Redeliver,
      LoseDelivery, SetEnabled, DeleteRepository, PurgeRun, TakeJob, FailStalledJob, Leave,
      HandlerThrows, PromoteDelayed, Recover, RecoverAbandoned, RecoverHeldUp, FindRun, Upsert,
      Publish, Complete, CallFails, Crash, MoveToDeadLetterQueue, DeadLetterFails

LEMMA CalmKept == ASSUME OrderInv, [Next]_vars PROVE Calm'
<1> USE DEF OrderInv, QueueInv, EffectInv, Smooth, Calm, Disturbances
<1>1. ASSUME NEW k \in {"loss", "admin"}, Spend(k) PROVE Calm'
  BY <1>1 DEF Spend, TypeOK, EnvEvents
<1>2. \A k \in Disturbances : ~Spend(k)
  BY DEF Spend
<1> QED
  BY <1>1, <1>2
  DEF Next, vars, Environment, Receive, Take, Handle, GitHubEvent, Redeliver,
      LoseDelivery, ReceiveWebhook, SetEnabled, DeleteRepository, PurgeRun, TakeJob, FailStalledJob,
      PromoteDelayed, RecoverAbandoned, RecoverHeldUp, FindRun, Upsert,
      Publish, Complete, CallFails, Crash, MoveToDeadLetterQueue, DeadLetterFails

LEMMA OneDeliveryKept == ASSUME Undisturbed, OrderInv, [Next]_vars PROVE OneDelivery'
<1> USE DEF OrderInv, Smooth, OneDelivery
<1>1. ASSUME NEW d, Send(d) PROVE OneDelivery'
  BY <1>1 DEF Send, Undisturbed
<1>2. ASSUME NEW e \in Entities, GitHubEvent(e) \/ Redeliver(e) PROVE OneDelivery'
  BY <1>1, <1>2 DEF GitHubEvent, Redeliver
<1> QED
  BY <1>2
  DEF Next, vars, Environment, Receive, Take, Handle,
      LoseDelivery, ReceiveWebhook, SetEnabled, DeleteRepository, PurgeRun, TakeJob, FailStalledJob,
      PromoteDelayed, Recover, RecoverAbandoned, RecoverHeldUp, FindRun, Upsert,
      Publish, Complete, CallFails, Crash, MoveToDeadLetterQueue, DeadLetterFails

LEMMA NothingLeftKept == ASSUME OrderInv, [Next]_vars PROVE NothingLeft'
<1> USE DEF OrderInv, QueueInv, EffectInv, Smooth, NothingLeft
<1>1. ASSUME NEW w \in Workers, Upsert(w) PROVE NothingLeft'
  BY <1>1, IngestAssumption DEF Upsert, ParentExists, TypeOK, Entities
<1>2. CASE DeleteRepository \/ \E r \in Runs : PurgeRun(r)
  BY <1>2 DEF DeleteRepository, PurgeRun, Entities
<1>3. CASE \E s \in {"enabled", "disabled"} : SetEnabled(s)
  BY <1>3 DEF SetEnabled
<1> QED
  BY <1>1, <1>2, <1>3
  DEF Next, vars, dbVars, Environment, Receive, Take, Handle, GitHubEvent, Redeliver,
      LoseDelivery, ReceiveWebhook, TakeJob, FailStalledJob,
      PromoteDelayed, Recover, RecoverAbandoned, RecoverHeldUp, FindRun,
      Publish, Complete, CallFails, Crash, MoveToDeadLetterQueue, DeadLetterFails

LEMMA FindsForJobsKept == ASSUME OrderInv, [Next]_vars PROVE FindsForJobs'
<1> USE DEF OrderInv, QueueInv, EffectInv, Smooth, FindsForJobs
<1>1. ASSUME NEW w \in Workers, TakeJob(w) PROVE FindsForJobs'
  <2>1. Head(waitq) \in QueueJobs
    BY <1>1, ReadyHead DEF TakeJob
  <2>2. /\ cur' = [cur EXCEPT ![w] = Head(waitq)] /\ msg' = msg
        /\ pc' = [pc EXCEPT ![w] = IF msg[Head(waitq)].entity \in Jobs THEN "find" ELSE "upsert"]
    BY <1>1 DEF TakeJob, Goto
  <2> QED BY <2>1, <2>2 DEF TypeOK
<1>2. ASSUME \A w \in Workers : pc'[w] = "find" => pc[w] = "find" /\ cur'[w] = cur[w]
      PROVE  FindsForJobs'
  <2>1. \A w \in Workers : pc[w] = "find" => cur[w] \in QueueJobs /\ jstate[cur[w]] # "none"
    BY DEF Busy, Running, QueueJobs
  <2>2. \A w \in Workers : pc[w] = "find" => msg'[cur[w]] = msg[cur[w]]
    BY <2>1, JobsKeep
  <2> QED BY <1>2, <2>2
<1>3. ASSUME NEW w \in Workers, NEW step \in Steps \ {"find"},
             Goto(w, step), cur' = cur \/ cur' = [cur EXCEPT ![w] = 0]
      PROVE  FindsForJobs'
  BY <1>2, <1>3 DEF Goto, TypeOK
<1>4. CASE UNCHANGED <<pc, cur>>
  BY <1>2, <1>4
<1>5. ASSUME NEW w \in Workers, HandlerThrows(w) PROVE FindsForJobs'
  BY <1>3, <1>5 DEF HandlerThrows, Leave, Steps
<1>6. ASSUME NEW w \in Workers, FindRun(w) \/ Upsert(w) \/ Publish(w) \/ Complete(w) \/ CallFails(w) \/ Crash(w)
      PROVE  FindsForJobs'
  BY <1>3, <1>5, <1>6 DEF FindRun, Upsert, Publish, Complete, Leave, CallFails, Crash, Steps
<1> QED
  BY <1>1, <1>4, <1>6
  DEF Next, vars, workerVars, Environment, Receive, Take, Handle, GitHubEvent, Redeliver,
      LoseDelivery, ReceiveWebhook, SetEnabled, DeleteRepository, PurgeRun, FailStalledJob,
      PromoteDelayed, Recover, RecoverAbandoned, RecoverHeldUp, MoveToDeadLetterQueue,
      DeadLetterFails

LEMMA NoneAbandonedKept == ASSUME Undisturbed, OrderInv, [Next]_vars PROVE NoneAbandoned'
<1> USE DEF OrderInv, QueueInv, EffectInv, Smooth, NoneAbandoned
<1>1. ASSUME NEW w \in Workers, TakeJob(w) PROVE NoneAbandoned'
  <2>1. Head(waitq) \in QueueJobs
    BY <1>1, ReadyHead DEF TakeJob
  <2>2. /\ cur' = [cur EXCEPT ![w] = Head(waitq)] /\ lock' = [lock EXCEPT ![Head(waitq)] = w]
        /\ jstate' = [jstate EXCEPT ![Head(waitq)] = "active"] /\ pc[w] = "idle"
        /\ \E step \in {"find", "upsert"} : pc' = [pc EXCEPT ![w] = step]
    BY <1>1 DEF TakeJob, Goto
  <2> QED BY <2>1, <2>2 DEF TypeOK
<1>2. ASSUME NEW w \in Workers, pc[w] # "idle", HandlerThrows(w) \/ Complete(w)
      PROVE  NoneAbandoned'
  <2>1. cur[w] \in QueueJobs
    BY <1>2 DEF Busy
  <2>2. /\ \A u \in Workers \ {w} : cur'[u] = cur[u] /\ pc'[u] = pc[u]
        /\ \A j \in QueueJobs \ {cur[w]} : jstate'[j] = jstate[j] /\ lock'[j] = lock[j]
    BY <1>2 DEF HandlerThrows, Complete, FailAttempt, Leave, Goto, TypeOK
  <2>3. \/ lock[cur[w]] = w /\ jstate'[cur[w]] # "active"
        \/ lock[cur[w]] # w /\ UNCHANGED <<jstate, lock>>
    BY <1>2, <2>1 DEF HandlerThrows, Complete, FailAttempt, TypeOK
  <2> QED BY <2>2, <2>3
<1>3. ASSUME UNCHANGED <<jstate, lock, cur>>,
             \A w \in Workers : pc[w] # "idle" => pc'[w] # "idle"
      PROVE  NoneAbandoned'
  BY <1>3
<1>4. ASSUME NEW w \in Workers, FindRun(w) \/ Upsert(w) \/ Publish(w)
      PROVE  NoneAbandoned'
  <2>1. pc[w] # "idle" /\ (HandlerThrows(w) \/ (UNCHANGED <<jstate, lock, cur>>
          /\ \E step \in {"upsert", "publish", "settle"} : Goto(w, step)))
    BY <1>4 DEF FindRun, Upsert, Publish, queueVars
  <2> QED BY <1>2, <1>3, <2>1 DEF Goto, TypeOK
<1>5. ASSUME UNCHANGED <<lock, cur, pc>>,
             \A j \in QueueJobs : jstate'[j] = "active" => jstate[j] = "active"
      PROVE  NoneAbandoned'
  BY <1>5
<1>6. ASSUME NEW d \in net, ReceiveWebhook(d) PROVE NoneAbandoned'
  BY <1>5, <1>6 DEF ReceiveWebhook, Enqueue, queueVars, workerVars, TypeOK
<1>7. CASE \/ \E w \in Workers : FailStalledJob(w)
           \/ \E j \in QueueJobs : PromoteDelayed(j)
  BY <1>5, <1>7 DEF FailStalledJob, PromoteDelayed, workerVars, TypeOK
<1>8. \A k \in Disturbances : ~Spend(k)
  BY DEF Spend, Calm
<1>9. \A j \in QueueJobs : ~RecoverAbandoned(j)
  BY DEF RecoverAbandoned, Abandoned
<1> QED
  BY <1>1, <1>2, <1>3, <1>4, <1>6, <1>7, <1>8, <1>9
  DEF Next, vars, queueVars, workerVars, Environment, Receive, Take, Handle, GitHubEvent,
      Redeliver, LoseDelivery, SetEnabled, DeleteRepository, PurgeRun, RecoverHeldUp, CallFails,
      Crash, Complete, MoveToDeadLetterQueue, DeadLetterFails, Disturbances

LEMMA RetriesAreJobsKept == ASSUME OrderInv, [Next]_vars PROVE RetriesAreJobs'
<1> USE DEF OrderInv, QueueInv, EffectInv, Smooth, RetriesAreJobs
<1>1. ASSUME NEW w \in Workers, pc[w] # "idle", HandlerThrows(w),
             repo # "deleted" => msg[cur[w]].entity \in Jobs, UNCHANGED repo
      PROVE  RetriesAreJobs'
  BY <1>1 DEF HandlerThrows, FailAttempt, Leave, TypeOK
<1>2. ASSUME repo' = "deleted" \/ repo # "deleted",
             \A j \in QueueJobs : jstate'[j] = "delayed" => jstate[j] = "delayed"
      PROVE  RetriesAreJobs'
  BY <1>2, JobsKeep
<1>3. ASSUME NEW w \in Workers, FindRun(w) \/ Upsert(w)
      PROVE  RetriesAreJobs'
  <2>1. cur[w] \in QueueJobs /\ pc[w] # "idle"
    BY <1>3 DEF Busy, FindRun, Upsert
  <2>2. HandlerThrows(w) => (repo # "deleted" => msg[cur[w]].entity \in Jobs)
    BY <1>3, <2>1 DEF FindRun, FindsForJobs, Upsert, ParentExists, TypeOK, Deliveries, Entities, HandlerThrows, Leave, Goto
  <2> QED BY <1>1, <1>2, <1>3, <2>1, <2>2 DEF FindRun, Upsert, dbVars, queueVars
<1>4. ASSUME NEW w \in Workers, TakeJob(w) \/ FailStalledJob(w) \/ Publish(w) \/ Complete(w)
      PROVE  RetriesAreJobs'
  BY <1>2, <1>4 DEF TakeJob, FailStalledJob, Publish, Complete, dbVars, queueVars, TypeOK
<1>5. ASSUME NEW d \in net, ReceiveWebhook(d) PROVE RetriesAreJobs'
  BY <1>2, <1>5 DEF ReceiveWebhook, Enqueue, queueVars, dbVars, TypeOK
<1>6. ASSUME NEW j \in QueueJobs, PromoteDelayed(j) \/ RecoverAbandoned(j) PROVE RetriesAreJobs'
  BY <1>2, <1>6 DEF PromoteDelayed, RecoverAbandoned, Recover, dbVars, TypeOK
<1>7. \A k \in Disturbances : ~Spend(k)
  BY DEF Spend, Calm
<1> QED
  BY <1>2, <1>3, <1>4, <1>5, <1>6, <1>7
  DEF Next, vars, queueVars, dbVars, Environment, Receive, Take, Handle, GitHubEvent,
      Redeliver, LoseDelivery, SetEnabled, DeleteRepository, PurgeRun, RecoverHeldUp, CallFails,
      Crash, MoveToDeadLetterQueue, DeadLetterFails, Disturbances

\* A handler at work, or a job in line, keeps its job and what it carries.
LEMMA NamedJobs ==
  ASSUME QueueInv
  PROVE  /\ \A w \in Workers : pc[w] # "idle" => cur[w] \in QueueJobs /\ jstate[cur[w]] # "none"
         /\ \A p \in Places : waitq[p] \in QueueJobs /\ jstate[waitq[p]] = "waiting"
         /\ \A j \in QueueJobs : /\ msg[j].entity \in Entities
                                 /\ msg[j].version \in 1..MaxVersion
<1> USE DEF QueueInv, EffectInv
<1>1. \A w \in Workers : pc[w] # "idle" => cur[w] \in QueueJobs /\ jstate[cur[w]] # "none"
  BY DEF Busy, Running, QueueJobs
<1>2. \A p \in Places : waitq[p] \in QueueJobs /\ jstate[waitq[p]] = "waiting"
  BY DEF TypeOK, Ready, Places
<1>3. \A j \in QueueJobs : msg[j].entity \in Entities /\ msg[j].version \in 1..MaxVersion
  BY DEF TypeOK, Deliveries, Versions
<1> QED BY <1>1, <1>2, <1>3

\* A step that stores no run and sends nothing, and after which the same jobs are in line,
\* or all but the first, or one more that is not about a run.
LEMMA OrderSame ==
  ASSUME QueueInv, repo # "deleted" => Ordered,
         \A j \in QueueJobs : jstate[j] # "none" => msg'[j] = msg[j],
         \/ waitq' = waitq \/ (waitq # <<>> /\ waitq' = Tail(waitq))
         \/ \E j \in QueueJobs : jstate[j] # "none" /\ msg[j].entity \notin Runs
                                 /\ waitq' = Append(waitq, j),
         \A w \in Workers : pc'[w] = "upsert" =>
           \/ pc[w] = "upsert" /\ cur'[w] = cur[w]
           \/ pc[w] # "idle" /\ cur'[w] = cur[w] /\ msg[cur[w]].entity \notin Runs,
         \A r \in Runs : row'[r] \in {0, row[r]},
         net' \subseteq net, gh' = gh, repo' # "deleted", repo # "deleted"
  PROVE  Ordered'
<1>1. Ordered
  OBVIOUS
<1>2. PICK s \in {0, 1} : \A p \in Places' :
        /\ waitq'[p] \in QueueJobs /\ jstate[waitq'[p]] # "none"
        /\ \/ msg[waitq'[p]].entity \notin Runs
           \/ p + s \in Places /\ waitq'[p] = waitq[p + s]
  <2>0. waitq \in Seq(QueueJobs)
    BY DEF QueueInv, EffectInv, TypeOK
  <2>1. CASE waitq' = waitq
    BY <2>1, NamedJobs DEF Places
  <2>2. CASE waitq # <<>> /\ waitq' = Tail(waitq)
    <3>1. \A p \in Places' : p + 1 \in Places /\ waitq'[p] = waitq[p + 1]
      BY <2>0, <2>2 DEF Places
    <3> QED BY <3>1, NamedJobs
  <2>3. ASSUME NEW j \in QueueJobs, jstate[j] # "none", msg[j].entity \notin Runs,
               waitq' = Append(waitq, j)
        PROVE  \A p \in Places' :
                 /\ waitq'[p] \in QueueJobs /\ jstate[waitq'[p]] # "none"
                 /\ \/ msg[waitq'[p]].entity \notin Runs
                    \/ p + 0 \in Places /\ waitq'[p] = waitq[p + 0]
    <3> SUFFICES ASSUME NEW p \in Places'
                 PROVE  waitq'[p] = j \/ (p \in Places /\ waitq'[p] = waitq[p])
      BY <2>3, NamedJobs DEF Places
    <3>1. p \in 1..(Len(waitq) + 1)
      BY <2>0, <2>3 DEF Places
    <3>2. p = Len(waitq) + 1 => Append(waitq, j)[p] = j
      BY <2>0
    <3>3. p \in 1..Len(waitq) => Append(waitq, j)[p] = waitq[p]
      BY <2>0
    <3>4. Len(waitq) \in Nat
      BY <2>0
    <3>5. waitq'[p] = Append(waitq, j)[p]
      BY <2>3
    <3> QED BY <3>1, <3>2, <3>3, <3>4, <3>5 DEF Places
  <2>4. CASE \E j \in QueueJobs : /\ jstate[j] # "none" /\ msg[j].entity \notin Runs
                                 /\ waitq' = Append(waitq, j)
    BY <2>3, <2>4
  <2> QED BY <2>1, <2>2, <2>4
<1>3. \A p \in Places' : msg'[waitq'[p]] = msg[waitq'[p]]
  BY <1>2
<1>4. \A w \in Workers : Storing(w)' =>
        /\ cur'[w] = cur[w] /\ msg'[cur[w]] = msg[cur[w]]
        /\ pc[w] = "upsert" \/ msg[cur[w]].entity \notin Runs
  BY NamedJobs DEF Storing
<1>5. LineOrdered'
  <2> SUFFICES ASSUME NEW p \in Places', NEW q \in Places', p < q,
                      RunJob(waitq[p + s]), p + s \in Places, q + s \in Places
               PROVE  NoLater(waitq[p + s], waitq[q + s])
    BY <1>2, <1>3 DEF LineOrdered, NoLater, RunJob
  <2> QED BY <1>1 DEF Ordered, LineOrdered, Places
<1>6. HandlerFirst'
  <2> SUFFICES ASSUME NEW w \in Workers, NEW p \in Places', pc[w] = "upsert", p + s \in Places
               PROVE  NoLater(cur[w], waitq[p + s])
    BY <1>2, <1>3, <1>4 DEF HandlerFirst, NoLater, RunJob
  <2> QED BY <1>1 DEF Ordered, HandlerFirst, Storing
<1>7. \A r \in Runs : row[r] \in Nat /\ gh[r] \in Nat /\ row'[r] <= row[r]
  <2>1. \A e \in Entities : row[e] \in 0..MaxVersion /\ gh[e] \in 0..MaxVersion
    BY DEF QueueInv, EffectInv, TypeOK
  <2> QED BY <2>1, IngestAssumption DEF Entities
<1>8. ASSUME NEW j \in QueueJobs, msg'[j] = msg[j], RunJob(j) => Between(j) PROVE Between(j)'
  <2> SUFFICES ASSUME RunJob(j), Between(j)
               PROVE  row'[msg[j].entity] <= msg[j].version
    BY <1>8 DEF Between, RunJob
  <2>1. row'[msg[j].entity] <= row[msg[j].entity] /\ row[msg[j].entity] \in Nat
    BY <1>7 DEF RunJob
  <2>2. row'[msg[j].entity] \in Nat /\ msg[j].version \in Nat
    BY <2>1, NamedJobs DEF RunJob
  <2> QED BY <2>1, <2>2 DEF Between
<1>9. LineBetween'
  BY <1>1, <1>2, <1>3, <1>8 DEF Ordered, LineBetween, RunJob
<1>10. HandlerBetween'
  BY <1>1, <1>4, <1>8, NamedJobs DEF Ordered, HandlerBetween, Storing, RunJob
<1>11. RowsFirst'
  <2> SUFFICES ASSUME NEW r \in Runs
               PROVE  /\ row'[r] <= gh[r]
                      /\ \A d \in net : d.entity = r => row'[r] <= d.version /\ d.version <= gh[r]
    BY DEF RowsFirst
  <2>1. \A d \in net : d.version \in Nat
    BY DEF QueueInv, EffectInv, TypeOK, Deliveries, Versions
  <2>2. row[r] <= gh[r] /\ \A d \in net : d.entity = r => row[r] <= d.version /\ d.version <= gh[r]
    BY <1>1 DEF Ordered, RowsFirst
  <2> QED BY <1>7, <2>1, <2>2
<1> QED BY <1>5, <1>6, <1>9, <1>10, <1>11 DEF Ordered

SameData(j) == msg'[j] = msg[j]

LEMMA NextOrdered ==
  ASSUME Undisturbed, OneStoring, OrderInv, [Next]_vars, repo' # "deleted" PROVE Ordered'
<1> QueueInv /\ Smooth /\ TypeOK /\ (repo # "deleted" => Ordered)
  BY DEF OrderInv, QueueInv, EffectInv
<1>0. \A j \in QueueJobs : jstate[j] # "none" => msg'[j] = msg[j]
  BY JobsKeep
<1>1. repo # "deleted"
  BY DEF Next, vars, dbVars, Environment, Receive, Take, Handle, GitHubEvent, Redeliver,
      LoseDelivery, ReceiveWebhook, SetEnabled, DeleteRepository, PurgeRun, TakeJob, FailStalledJob,
      PromoteDelayed, Recover, RecoverAbandoned, RecoverHeldUp, FindRun, Upsert,
      Publish, Complete, CallFails, Crash, MoveToDeadLetterQueue, DeadLetterFails
<1> DEFINE KeepLine == waitq' = waitq \/ (waitq # <<>> /\ waitq' = Tail(waitq))
<1>s. ASSUME KeepLine, UNCHANGED gh, net' \subseteq net,
             \A w \in Workers : pc'[w] = "upsert" => pc[w] = "upsert" /\ cur'[w] = cur[w],
             \A r \in Runs : row'[r] \in {0, row[r]}
      PROVE  Ordered'
  BY <1>0, <1>1, <1>s, OrderSame
<1>2. ASSUME NEW w \in Workers, HandlerThrows(w), UNCHANGED <<gh, net, row>> PROVE Ordered'
  <2>1. \A u \in Workers : pc'[u] = "upsert" => pc[u] = "upsert" /\ cur'[u] = cur[u]
    BY <1>2 DEF HandlerThrows, Leave, Goto, TypeOK
  <2> QED BY <1>s, <1>2, <2>1 DEF HandlerThrows, Leave
<1>3. ASSUME NEW w \in Workers, Publish(w) \/ Complete(w) PROVE Ordered'
  <2>1. \A u \in Workers : pc'[u] = "upsert" => pc[u] = "upsert" /\ cur'[u] = cur[u]
    BY <1>3 DEF Publish, Complete, Leave, Goto, TypeOK
  <2> QED BY <1>s, <1>3, <2>1 DEF Publish, Complete, Leave, dbVars, queueVars
<1>4. ASSUME NEW w \in Workers, FindRun(w) PROVE Ordered'
  <2>1. CASE HandlerThrows(w)
    BY <1>2, <1>4, <2>1 DEF FindRun, dbVars
  <2>2. CASE ~HandlerThrows(w)
    <3>1. pc[w] = "find" /\ Goto(w, "upsert") /\ UNCHANGED <<cur, queueVars, gh, net, row>>
      BY <1>4, <2>2 DEF FindRun, dbVars
    <3>2. msg[cur[w]].entity \notin Runs
      BY <3>1, IngestAssumption DEF Smooth, FindsForJobs
    <3>3. \A u \in Workers : pc'[u] = "upsert" =>
            \/ pc[u] = "upsert" /\ cur'[u] = cur[u]
            \/ pc[u] # "idle" /\ cur'[u] = cur[u] /\ msg[cur[u]].entity \notin Runs
      BY <3>1, <3>2 DEF Goto, TypeOK
    <3>4. waitq' = waitq /\ net' \subseteq net /\ \A r \in Runs : row'[r] \in {0, row[r]}
      BY <3>1 DEF queueVars
    <3> QED BY <1>0, <1>1, <3>1, <3>3, <3>4, OrderSame
  <2> QED BY <2>1, <2>2
<1>5. ASSUME NEW j \in QueueJobs, PromoteDelayed(j) PROVE Ordered'
  <2>1. msg[j].entity \notin Runs /\ jstate[j] # "none"
    BY <1>1, <1>5, IngestAssumption DEF PromoteDelayed, Smooth, RetriesAreJobs
  <2> QED BY <1>0, <1>1, <1>5, <2>1, OrderSame DEF PromoteDelayed, workerVars, dbVars
<1>6. ASSUME NEW w \in Workers, FailStalledJob(w) PROVE Ordered'
  BY <1>s, <1>6 DEF FailStalledJob, dbVars
<1>7. ASSUME NEW r \in Runs, PurgeRun(r) PROVE Ordered'
  <2>1. \A s \in Runs : row'[s] \in {0, row[s]}
    BY <1>7 DEF PurgeRun, Entities
  <2> QED BY <1>s, <1>7, <2>1 DEF PurgeRun, queueVars
<1>8. ASSUME UNCHANGED <<queueVars, pc, cur, row, gh>>, net' \subseteq net PROVE Ordered'
  BY <1>s, <1>8 DEF queueVars
<1>a. /\ \A p \in Places : waitq[p] \in QueueJobs /\ SameData(waitq[p])
      /\ \A u \in Workers : pc[u] # "idle" => cur[u] \in QueueJobs /\ SameData(cur[u])
  BY <1>0, NamedJobs DEF SameData
<1>b. /\ \A r \in Runs : row[r] \in Nat /\ gh[r] \in Nat
      /\ \A j \in QueueJobs : msg[j].version \in Nat
      /\ \A d \in net : d.version \in Nat /\ d.entity \in Entities
  <2>1. \A e \in Entities : row[e] \in 0..MaxVersion /\ gh[e] \in 0..MaxVersion
    BY DEF TypeOK
  <2> QED BY <2>1, NamedJobs, IngestAssumption DEF TypeOK, Entities, Deliveries, Versions
<1>c. Ordered
  BY <1>1
<1>9. ASSUME NEW e \in Entities, GitHubEvent(e) PROVE Ordered'
  <2> DEFINE d == [entity |-> e, version |-> gh[e] + 1]
  <2>1. net' = {d} /\ UNCHANGED <<row, queueVars, workerVars>>
    BY <1>9 DEF GitHubEvent, Send, Undisturbed, dbVars
  <2>2. \A r \in Runs : gh'[r] = IF r = e THEN gh[r] + 1 ELSE gh[r]
    BY <1>9 DEF GitHubEvent, TypeOK, Entities
  <2>3. LineOrdered' /\ HandlerFirst'
    BY <1>c, <2>1 DEF Ordered, LineOrdered, HandlerFirst, Places, Storing, NoLater, RunJob,
                      queueVars, workerVars
  <2>4. ASSUME NEW j \in QueueJobs, Between(j) PROVE Between(j)'
    BY <1>b, <2>1, <2>2, <2>4 DEF Between, RunJob, queueVars
  <2>5. LineBetween' /\ HandlerBetween'
    BY <1>a, <1>c, <2>1, <2>4 DEF Ordered, LineBetween, HandlerBetween, Places, Storing,
                                  queueVars, workerVars
  <2>6. RowsFirst'
    BY <1>b, <1>c, <2>1, <2>2 DEF Ordered, RowsFirst
  <2> QED BY <2>3, <2>5, <2>6 DEF Ordered
<1>10. ASSUME NEW d \in net, Enqueue(d), net' = net \ {d}, UNCHANGED <<gh, row, pc, cur>>
       PROVE  Ordered'
  <2>1. net' = {}
    BY <1>10 DEF Smooth, OneDelivery
  <2>2. PICK n \in QueueJobs : msg'[n] = d /\ waitq' = Append(waitq, n)
    BY <1>10 DEF Enqueue, TypeOK
  <2>3. \A p \in Places' : \/ p \in Places /\ waitq'[p] = waitq[p] /\ SameData(waitq[p])
                           \/ p = Len(waitq) + 1 /\ waitq'[p] = n
    BY <1>a, <2>2 DEF Places, TypeOK
  <2>4. ASSUME NEW j \in QueueJobs, SameData(j), Between(j)
        PROVE  NoLater(j, n)' /\ Between(j)'
    BY <1>10, <2>1, <2>2, <2>4 DEF Between, NoLater, RunJob, SameData
  <2>5. LineOrdered'
    <3> SUFFICES ASSUME NEW p \in Places', NEW q \in Places', p < q
                 PROVE  NoLater(waitq[p], waitq[q])'
      BY DEF LineOrdered
    <3>1. p \in Places /\ waitq'[p] = waitq[p] /\ SameData(waitq[p])
      BY <2>2, <2>3 DEF Places, TypeOK
    <3>2. CASE waitq'[q] = n
      BY <1>a, <1>c, <2>4, <3>1, <3>2 DEF Ordered, LineBetween, NoLater, RunJob
    <3>3. CASE q \in Places /\ waitq'[q] = waitq[q] /\ SameData(waitq[q])
      BY <1>c, <3>1, <3>3 DEF Ordered, LineOrdered, NoLater, RunJob, SameData
    <3> QED BY <2>3, <3>2, <3>3
  <2>6. HandlerFirst'
    <3> SUFFICES ASSUME NEW w \in Workers, Storing(w), NEW p \in Places'
                 PROVE  NoLater(cur[w], waitq[p])'
      BY <1>10 DEF HandlerFirst, Storing
    <3>1. cur[w] \in QueueJobs /\ SameData(cur[w]) /\ Between(cur[w])
      BY <1>a, <1>c DEF Ordered, HandlerBetween, Storing
    <3>2. CASE waitq'[p] = n
      BY <1>10, <2>4, <3>1, <3>2 DEF NoLater, RunJob
    <3>3. CASE p \in Places /\ waitq'[p] = waitq[p] /\ SameData(waitq[p])
      BY <1>10, <1>c, <3>1, <3>3 DEF Ordered, HandlerFirst, NoLater, RunJob, SameData
    <3> QED BY <2>3, <3>2, <3>3
  <2>7. Between(n)'
    BY <1>10, <1>c, <2>1, <2>2 DEF Ordered, RowsFirst, Between, RunJob
  <2>8. LineBetween' /\ HandlerBetween'
    <3>1. ASSUME NEW p \in Places' PROVE Between(waitq[p])'
      <4>1. CASE waitq'[p] = n
        BY <2>7, <4>1 DEF Between, RunJob
      <4>2. CASE p \in Places /\ waitq'[p] = waitq[p] /\ SameData(waitq[p])
        BY <1>a, <1>c, <2>4, <4>2 DEF Ordered, LineBetween, Between, RunJob
      <4> QED BY <2>3, <4>1, <4>2
    <3>2. ASSUME NEW w \in Workers, Storing(w) PROVE Between(cur[w])'
      BY <1>10, <1>a, <1>c, <2>4, <3>2 DEF Ordered, HandlerBetween, Storing, Between, RunJob
    <3> QED BY <1>10, <3>1, <3>2 DEF LineBetween, HandlerBetween, Storing
  <2>9. RowsFirst'
    BY <1>10, <1>c, <2>1 DEF Ordered, RowsFirst
  <2> QED BY <2>5, <2>6, <2>8, <2>9 DEF Ordered
<1>11. ASSUME NEW w \in Workers, TakeJob(w) PROVE Ordered'
  <2>1. /\ waitq \in Seq(QueueJobs) /\ waitq # <<>> /\ waitq' = Tail(waitq)
        /\ UNCHANGED <<msg, row, gh, net>>
    BY <1>11 DEF TakeJob, TypeOK, dbVars
  <2>2. \A p \in Places' : p + 1 \in Places /\ waitq'[p] = waitq[p + 1]
    BY <2>1 DEF Places
  <2>3. 1 \in Places /\ cur'[w] = waitq[1]
    BY <1>11, <2>1 DEF TakeJob, TypeOK, Places
  <2>4. \A u \in Workers \ {w} : pc'[u] = pc[u] /\ cur'[u] = cur[u]
    BY <1>11 DEF TakeJob, Goto, TypeOK
  <2>5. LineOrdered'
    <3> SUFFICES ASSUME NEW p \in Places', NEW q \in Places', p < q
                 PROVE  NoLater(waitq[p + 1], waitq[q + 1])
      BY <2>1, <2>2 DEF LineOrdered, NoLater, RunJob
    <3>1. p + 1 < q + 1 /\ p + 1 \in Places /\ q + 1 \in Places
      BY <2>2 DEF Places
    <3> QED BY <1>c, <3>1 DEF Ordered, LineOrdered
  <2>6. HandlerFirst'
    <3> SUFFICES ASSUME NEW u \in Workers, Storing(u)', NEW p \in Places'
                 PROVE  NoLater(cur[u], waitq[p])'
      BY DEF HandlerFirst
    <3>1. 1 < p + 1 /\ p + 1 \in Places /\ waitq'[p] = waitq[p + 1]
      BY <2>2 DEF Places
    <3>2. CASE u = w
      <4>1. NoLater(waitq[1], waitq[p + 1])
        BY <1>c, <2>3, <3>1 DEF Ordered, LineOrdered
      <4> QED BY <2>1, <2>3, <3>1, <3>2, <4>1 DEF NoLater, RunJob
    <3>3. CASE u # w
      <4>1. NoLater(cur[u], waitq[p + 1]) /\ cur'[u] = cur[u]
        BY <1>c, <2>4, <3>1, <3>3 DEF Ordered, HandlerFirst, Storing
      <4> QED BY <2>1, <3>1, <4>1 DEF NoLater, RunJob
    <3> QED BY <3>2, <3>3
  <2>7. LineBetween' /\ HandlerBetween'
    <3>1. \A p \in Places : Between(waitq[p])
      BY <1>c DEF Ordered, LineBetween
    <3>2. ASSUME NEW p \in Places' PROVE Between(waitq[p])'
      <4>1. waitq'[p] = waitq[p + 1] /\ Between(waitq[p + 1])
        BY <2>2, <3>1
      <4> QED BY <2>1, <4>1 DEF Between, RunJob
    <3>3. ASSUME NEW u \in Workers, Storing(u)' PROVE Between(cur[u])'
      <4>1. CASE u = w
        <5>1. cur'[u] = waitq[1] /\ Between(waitq[1])
          BY <2>3, <3>1, <4>1
        <5> QED BY <2>1, <5>1 DEF Between, RunJob
      <4>2. CASE u # w
        <5>1. cur'[u] = cur[u] /\ Between(cur[u])
          BY <1>c, <2>4, <3>3, <4>2 DEF Ordered, HandlerBetween, Storing
        <5> QED BY <2>1, <5>1 DEF Between, RunJob
      <4> QED BY <4>1, <4>2
    <3> QED BY <3>2, <3>3 DEF LineBetween, HandlerBetween
  <2>8. RowsFirst'
    BY <1>c, <2>1 DEF Ordered, RowsFirst
  <2> QED BY <2>5, <2>6, <2>7, <2>8 DEF Ordered
<1>12. ASSUME NEW w \in Workers, pc[w] = "upsert", Goto(w, "publish"),
              row' = [row EXCEPT ![msg[cur[w]].entity] = msg[cur[w]].version],
              UNCHANGED <<cur, queueVars, gh, net>>
       PROVE  Ordered'
  <2>1. cur[w] \in QueueJobs /\ \A u \in Workers : Storing(u)' => u # w /\ Storing(u)
    BY <1>12, <1>a DEF Goto, Storing, TypeOK
  <2>2. msg[cur[w]].entity \in Entities
    BY <2>1, NamedJobs
  <2>3. \A r \in Runs : row'[r] = IF r = msg[cur[w]].entity THEN msg[cur[w]].version ELSE row[r]
    BY <1>12 DEF TypeOK, Entities
  <2>4. LineOrdered' /\ HandlerFirst'
    BY <1>12, <1>c, <2>1 DEF Ordered, LineOrdered, HandlerFirst, Places, NoLater,
                             RunJob, queueVars
  <2>a. ASSUME NEW u \in Workers, Storing(u)' PROVE Between(cur[u])'
    <3>1. Between(cur[u]) /\ u # w /\ Storing(u) /\ cur'[u] = cur[u] /\ UNCHANGED <<msg, gh, net>>
      BY <1>12, <1>c, <2>1, <2>a DEF Ordered, HandlerBetween, queueVars
    <3>2. RunJob(cur[u]) => row'[msg[cur[u]].entity] = row[msg[cur[u]].entity]
      BY <1>12, <2>3, <3>1 DEF OneStoring, Storing, RunJob
    <3> QED BY <3>1, <3>2 DEF Between, RunJob
  <2>b. HandlerBetween'
    BY <2>a DEF HandlerBetween
  <2>5. LineBetween'
    <3> SUFFICES ASSUME NEW p \in Places, RunJob(waitq[p])
                 PROVE  row'[msg[waitq[p]].entity] <= msg[waitq[p]].version
      BY <1>12, <1>c DEF Ordered, LineBetween, Between, Places, RunJob, queueVars
    <3> QED BY <1>12, <1>c, <2>3
            DEF Ordered, LineBetween, HandlerFirst, Between, NoLater, Storing, RunJob
  <2>6. RowsFirst'
    BY <1>12, <1>b, <1>c, <2>1, <2>3 DEF Ordered, RowsFirst, HandlerBetween, Between, Storing, RunJob
  <2> QED BY <2>4, <2>b, <2>5, <2>6 DEF Ordered
<1>13. \A k \in Disturbances : ~Spend(k)
  BY DEF Spend, Calm, Smooth
<1>14. \A j \in QueueJobs : ~RecoverAbandoned(j)
  BY DEF RecoverAbandoned, Abandoned, Smooth, NoneAbandoned
<1>15. ASSUME NEW d \in net, ReceiveWebhook(d) PROVE Ordered'
  BY <1>8, <1>10, <1>15 DEF ReceiveWebhook, dbVars, workerVars
<1>16. ASSUME NEW w \in Workers, Upsert(w) PROVE Ordered'
  <2>1. CASE HandlerThrows(w) /\ UNCHANGED row
    BY <1>2, <1>16, <2>1 DEF Upsert
  <2>2. CASE ~(HandlerThrows(w) /\ UNCHANGED row)
    BY <1>12, <1>16, <2>2 DEF Upsert
  <2> QED BY <2>1, <2>2
<1> QED
  BY <1>3, <1>4, <1>5, <1>6, <1>7, <1>8, <1>9, <1>11, <1>13, <1>14, <1>15, <1>16
  DEF Next, vars, queueVars, dbVars, workerVars, Environment, Receive, Take, Handle,
      Redeliver, LoseDelivery, SetEnabled, DeleteRepository, RecoverHeldUp, CallFails,
      Crash, MoveToDeadLetterQueue, DeadLetterFails, Disturbances

LEMMA OrderNext == ASSUME Undisturbed, OneStoring, OrderInv, [Next]_vars PROVE OrderInv'
<1>1. QueueInv'
  BY NextQueue DEF OrderInv
<1>2. Smooth'
  BY CalmKept, OneDeliveryKept, NoneAbandonedKept, FindsForJobsKept, RetriesAreJobsKept,
     NothingLeftKept DEF Smooth
<1>3. repo' # "deleted" => Ordered'
  BY NextOrdered
<1> QED BY <1>1, <1>2, <1>3 DEF OrderInv

\* Deliveries in order and no failing call: as long as no two worker processes are about to
\* store the same run, a stored run never goes back to an earlier version, although the
\* upsert compares nothing - also when deliveries are lost, and the repository is disabled,
\* deleted or purged of runs.
THEOREM NoRegressUnlessRaced == ASSUME Undisturbed PROVE Spec /\ []OneStoring => RunsNeverRegress
<1>1. Init => OrderInv
  BY InitOrder
<1>2. OrderInv /\ OneStoring /\ [Next]_vars => OrderInv'
  BY OrderNext
<1>3. OrderInv /\ [Next]_vars => [\A r \in Runs : row'[r] >= row[r] \/ row'[r] = 0]_vars
  <2> SUFFICES ASSUME OrderInv, Next, NEW r \in Runs PROVE row'[r] >= row[r] \/ row'[r] = 0
    OBVIOUS
  <2>1. \A s \in Runs : row[s] \in Nat
    BY IngestAssumption DEF OrderInv, QueueInv, EffectInv, TypeOK, Entities
  <2>2. ASSUME NEW w \in Workers, Upsert(w), row'[r] # row[r] PROVE row'[r] >= row[r]
    <3>1. pc[w] = "upsert" /\ row' = [row EXCEPT ![msg[cur[w]].entity] = msg[cur[w]].version]
      BY <2>2 DEF Upsert
    <3>2. r = msg[cur[w]].entity /\ row'[r] = msg[cur[w]].version
      BY <2>2, <3>1 DEF OrderInv, QueueInv, EffectInv, TypeOK, Entities
    <3>3. repo # "deleted"
      BY <2>2, <3>2, <2>1 DEF Upsert, ParentExists, OrderInv, QueueInv, EffectInv, TypeOK, HandlerThrows
    <3>4. Between(cur[w])
      BY <3>1, <3>3 DEF OrderInv, Ordered, HandlerBetween, Storing
    <3> QED BY <2>1, <3>2, <3>4 DEF Between, RunJob
  <2>3. CASE row'[r] \in {0, row[r]}
    BY <2>1, <2>3
  <2>4. CASE DeleteRepository \/ \E s \in Runs : PurgeRun(s)
    BY <2>3, <2>4 DEF DeleteRepository, PurgeRun, Entities
  <2> QED
    BY <2>2, <2>3, <2>4
    DEF Next, vars, queueVars, dbVars, workerVars, Environment, Receive, Take, Handle,
      GitHubEvent, Redeliver, LoseDelivery, ReceiveWebhook, SetEnabled, RecoverHeldUp, Recover,
      RecoverAbandoned, PromoteDelayed, TakeJob, FailStalledJob, FindRun, Publish, Complete,
      CallFails, Crash, MoveToDeadLetterQueue, DeadLetterFails
<1> QED BY <1>1, <1>2, <1>3, PTL DEF Spec, RunsNeverRegress

\* One worker process never races.
THEOREM NoRegress == ASSUME Undisturbed, OneWorker PROVE Spec => RunsNeverRegress
<1>1. OneStoring
  BY DEF OneWorker, OneStoring
<1> QED BY <1>1, NoRegressUnlessRaced, PTL


-----------------------------------------------------------------------------
(* Where the newest version of a run is while the row does not have it.      *)

\* Every delivery reaches an enabled repository, and nothing but a handler changes a row.
Undiminished == Budget["loss"] = 0 /\ Budget["admin"] = 0

Untouched ==
  /\ repo = "enabled" /\ left["loss"] = 0 /\ left["admin"] = 0
  /\ \A j \in QueueJobs : stalls[j] = 0

\* Job j is ready, or a handler is about to store what it carries.
Coming(j) == jstate[j] = "waiting" \/ \E w \in Workers : Storing(w) /\ cur[w] = j

NewestComing ==
  \A r \in Runs : row[r] # gh[r] =>
    \/ [entity |-> r, version |-> gh[r]] \in net
    \/ \E j \in QueueJobs : msg[j] = [entity |-> r, version |-> gh[r]] /\ Coming(j)

SettleInv == OrderInv /\ Untouched /\ NewestComing

LEMMA UntouchedNext == ASSUME OrderInv, Untouched, [Next]_vars PROVE Untouched'
<1> QueueInv /\ Smooth /\ TypeOK
  BY DEF OrderInv, QueueInv, EffectInv
<1>1. \A k \in EnvEvents : ~Spend(k)
  BY DEF Spend, Untouched, Smooth, Calm, Disturbances, EnvEvents
<1>2. \A j \in QueueJobs : ~RecoverAbandoned(j)
  BY DEF RecoverAbandoned, Abandoned, Smooth, NoneAbandoned
<1>3. \A d \in net : ReceiveWebhook(d) => UNCHANGED <<repo, left, stalls>>
  BY DEF ReceiveWebhook, Enqueue, dbVars, queueVars
<1>4. \A w \in Workers : TakeJob(w) \/ FailStalledJob(w) \/ FindRun(w) \/ Upsert(w)
                         \/ Publish(w) \/ Complete(w) => UNCHANGED <<repo, left, stalls>>
  BY DEF TakeJob, FailStalledJob, FindRun, Upsert, Publish, Complete, HandlerThrows, Leave,
         dbVars, queueVars
<1> QED
  BY <1>1, <1>2, <1>3, <1>4
  DEF Next, vars, queueVars, dbVars, Environment, Receive, Take, Handle, GitHubEvent, Redeliver,
      LoseDelivery, SetEnabled, DeleteRepository, PurgeRun, CallFails, Crash, DeadLetterFails,
      RecoverHeldUp, PromoteDelayed, MoveToDeadLetterQueue, EnvEvents, Untouched

LEMMA NewestComingNext ==
  ASSUME Undisturbed, SettleInv, [Next]_vars PROVE NewestComing'
<1> QueueInv /\ Smooth /\ TypeOK /\ Untouched /\ Ordered /\ NewestComing
  BY DEF SettleInv, OrderInv, QueueInv, EffectInv, Untouched
<1>0. \A j \in QueueJobs : jstate[j] # "none" => msg'[j] = msg[j]
  BY JobsKeep
\* Nothing is stored or sent, and what was coming still comes.
<1>s. ASSUME UNCHANGED <<gh, row>>, net \subseteq net',
             \A j \in QueueJobs : jstate[j] = "waiting" /\ RunJob(j) => Coming(j)',
             \A w \in Workers : Storing(w) /\ RunJob(cur[w]) => Storing(w)' /\ cur'[w] = cur[w]
      PROVE  NewestComing'
  <2>1. ASSUME NEW j \in QueueJobs, Coming(j), RunJob(j) PROVE Coming(j)' /\ msg'[j] = msg[j]
    BY <1>s, <1>0, <2>1, NamedJobs DEF Coming, Storing
  <2> SUFFICES ASSUME NEW r \in Runs, row[r] # gh[r]
               PROVE  \/ [entity |-> r, version |-> gh[r]] \in net'
                      \/ \E j \in QueueJobs : /\ msg'[j] = [entity |-> r, version |-> gh[r]]
                                              /\ Coming(j)'
    BY <1>s DEF NewestComing
  <2>2. CASE [entity |-> r, version |-> gh[r]] \in net
    BY <1>s, <2>2
  <2>3. CASE \E j \in QueueJobs : msg[j] = [entity |-> r, version |-> gh[r]] /\ Coming(j)
    BY <2>1, <2>3 DEF RunJob
  <2> QED BY <2>2, <2>3 DEF NewestComing
<1>1. \A k \in EnvEvents : ~Spend(k)
  BY DEF Spend, Untouched, Smooth, Calm, Disturbances, EnvEvents
<1>2. \A j \in QueueJobs : ~RecoverAbandoned(j)
  BY DEF RecoverAbandoned, Abandoned, Smooth, NoneAbandoned
<1>3. ASSUME NEW w \in Workers PROVE ~FailStalledJob(w)
  BY ReadyHead, IngestAssumption DEF FailStalledJob, Untouched, QueueInv
<1>4. ASSUME NEW e \in Entities, GitHubEvent(e) PROVE NewestComing'
  <2>1. /\ net = {} /\ net' = {[entity |-> e, version |-> gh[e] + 1]}
        /\ \A r \in Runs : gh'[r] = IF r = e THEN gh[r] + 1 ELSE gh[r]
    BY <1>4 DEF GitHubEvent, Send, Undisturbed, TypeOK, Entities
  <2>2. UNCHANGED <<row, msg, jstate, pc, cur>>
    BY <1>4 DEF GitHubEvent, dbVars, queueVars, workerVars
  <2> QED BY <2>1, <2>2 DEF NewestComing, Coming, Storing
<1>5. ASSUME NEW d \in net, ReceiveWebhook(d) PROVE NewestComing'
  <2>1. Enqueue(d) /\ net' = net \ {d} /\ UNCHANGED <<gh, row, pc, cur>>
    BY <1>5 DEF ReceiveWebhook, Untouched, dbVars, workerVars
  <2>2. PICK n \in QueueJobs : /\ jstate[n] = "none" /\ msg'[n] = d /\ jstate'[n] = "waiting"
                               /\ \A j \in QueueJobs \ {n} : msg'[j] = msg[j] /\ jstate'[j] = jstate[j]
    BY <2>1 DEF Enqueue, TypeOK, QueueInv, Fresh, QueueJobs
  <2> SUFFICES ASSUME NEW r \in Runs, row[r] # gh[r]
               PROVE  \/ [entity |-> r, version |-> gh[r]] \in net'
                      \/ \E j \in QueueJobs : /\ msg'[j] = [entity |-> r, version |-> gh[r]]
                                              /\ Coming(j)'
    BY <2>1 DEF NewestComing
  <2>3. CASE [entity |-> r, version |-> gh[r]] \in net
    BY <2>1, <2>2, <2>3 DEF Coming
  <2>4. ASSUME NEW j \in QueueJobs, msg[j] = [entity |-> r, version |-> gh[r]], Coming(j)
        PROVE  msg'[j] = msg[j] /\ Coming(j)'
    <3>1. j # n
      BY <2>2, <2>4, NamedJobs DEF Coming, Storing
    <3> QED BY <2>1, <2>2, <2>4, <3>1 DEF Coming, Storing
  <2> QED BY <2>3, <2>4 DEF NewestComing
<1>6. ASSUME NEW w \in Workers, TakeJob(w) PROVE NewestComing'
  <2>1. PICK h \in QueueJobs : h = Head(waitq)
    BY <1>6, ReadyHead DEF TakeJob, QueueInv
  <2>2. /\ pc[w] = "idle" /\ UNCHANGED <<gh, row, net>>
        /\ cur'[w] = h /\ pc'[w] = IF msg[h].entity \in Jobs THEN "find" ELSE "upsert"
        /\ \A u \in Workers \ {w} : pc'[u] = pc[u] /\ cur'[u] = cur[u]
        /\ \A j \in QueueJobs \ {h} : jstate'[j] = jstate[j]
    BY <1>6, <2>1 DEF TakeJob, Goto, dbVars, TypeOK
  <2>3. RunJob(h) => Coming(h)'
    BY <2>2, IngestAssumption DEF RunJob, Coming, Storing
  <2>4. \A j \in QueueJobs : jstate[j] = "waiting" /\ RunJob(j) => Coming(j)'
    BY <2>2, <2>3 DEF Coming
  <2>5. \A u \in Workers : Storing(u) => Storing(u)' /\ cur'[u] = cur[u]
    BY <2>2 DEF Storing
  <2> QED BY <1>s, <2>2, <2>4, <2>5
\* A run is never tried again: its handler throws nothing.
<1>7. ASSUME NEW w \in Workers, HandlerThrows(w), ~(Storing(w) /\ RunJob(cur[w])), pc[w] # "idle",
             UNCHANGED <<gh, row, net>>
      PROVE  NewestComing'
  <2>1. \A u \in Workers \ {w} : pc'[u] = pc[u] /\ cur'[u] = cur[u]
    BY <1>7 DEF HandlerThrows, Leave, Goto, TypeOK
  <2>2. cur[w] \in QueueJobs /\ (lock[cur[w]] = w => jstate[cur[w]] = "active")
    BY <1>7, NamedJobs, IngestAssumption DEF QueueInv, Locked
  <2>3. \A j \in QueueJobs : jstate[j] = "waiting" => jstate'[j] = "waiting"
    BY <1>7, <2>2 DEF HandlerThrows, FailAttempt, TypeOK
  <2> QED BY <1>s, <1>7, <2>1, <2>3 DEF Coming, Storing
<1>8. ASSUME NEW w \in Workers, FindRun(w) PROVE NewestComing'
  <2>1. CASE HandlerThrows(w)
    BY <1>7, <1>8, <2>1 DEF FindRun, dbVars, Storing
  <2>2. CASE ~HandlerThrows(w)
    <3>1. UNCHANGED <<gh, row, net, jstate, cur>> /\ pc[w] = "find" /\ pc' = [pc EXCEPT ![w] = "upsert"]
      BY <1>8, <2>2 DEF FindRun, Goto, dbVars, queueVars
    <3>2. \A u \in Workers : Storing(u) => Storing(u)'
      BY <3>1 DEF Storing, TypeOK
    <3> QED BY <1>s, <3>1, <3>2 DEF Coming
  <2> QED BY <2>1, <2>2
<1>9. ASSUME NEW w \in Workers, Upsert(w) PROVE NewestComing'
  <2>1. CASE ~ParentExists(w)
    <3>1. ~RunJob(cur[w])
      BY <2>1 DEF ParentExists, Untouched, RunJob
    <3> QED BY <1>7, <1>9, <2>1, <3>1 DEF Upsert
  <2>2. CASE ParentExists(w)
    <3>1. /\ UNCHANGED <<gh, net, msg, jstate, cur>> /\ pc[w] = "upsert"
          /\ pc' = [pc EXCEPT ![w] = "publish"]
          /\ row' = [row EXCEPT ![msg[cur[w]].entity] = msg[cur[w]].version]
      BY <1>9, <2>2 DEF Upsert, Goto, queueVars
    <3>2. \A u \in Workers \ {w} : Storing(u) => Storing(u)'
      BY <3>1 DEF Storing, TypeOK
    <3> SUFFICES ASSUME NEW r \in Runs, row'[r] # gh[r]
                 PROVE  \/ [entity |-> r, version |-> gh[r]] \in net
                        \/ \E j \in QueueJobs : /\ msg[j] = [entity |-> r, version |-> gh[r]]
                                                /\ Coming(j)'
      BY <3>1 DEF NewestComing
    <3>3. row[r] # gh[r]
      <4>1. CASE r = msg[cur[w]].entity
        <5>1. cur[w] \in QueueJobs /\ Between(cur[w]) /\ RunJob(cur[w])
          BY <3>1, <4>1, NamedJobs DEF Ordered, HandlerBetween, Storing, RunJob
        <5>2. row'[r] = msg[cur[w]].version /\ row[r] <= row'[r] /\ row'[r] <= gh[r]
          BY <3>1, <4>1, <5>1 DEF Between, TypeOK, Entities
        <5>3. row[r] \in Nat /\ gh[r] \in Nat /\ row'[r] \in Nat
          <6>1. r \in Entities
            BY DEF Entities
          <6> QED BY <5>1, <5>2, <6>1, NamedJobs, IngestAssumption DEF TypeOK
        <5> QED BY <5>2, <5>3
      <4>2. CASE r # msg[cur[w]].entity
        BY <3>1, <4>2 DEF TypeOK, Entities
      <4> QED BY <4>1, <4>2
    <3>4. ASSUME NEW j \in QueueJobs, msg[j] = [entity |-> r, version |-> gh[r]], Coming(j)
          PROVE  Coming(j)'
      <4>1. CASE jstate[j] = "waiting"
        BY <3>1, <4>1 DEF Coming
      <4>2. ASSUME NEW u \in Workers, Storing(u), cur[u] = j PROVE Coming(j)'
        <5>1. u # w
          BY <3>1, <3>4, <4>2 DEF TypeOK, Entities
        <5> QED BY <3>1, <3>2, <4>2, <5>1 DEF Coming
      <4> QED BY <3>4, <4>1, <4>2 DEF Coming
    <3> QED BY <3>3, <3>4 DEF NewestComing
  <2> QED BY <2>1, <2>2
<1>10. ASSUME NEW w \in Workers, Publish(w) PROVE NewestComing'
  <2>1. UNCHANGED <<gh, row, net, jstate, cur>> /\ pc[w] = "publish" /\ pc' = [pc EXCEPT ![w] = "settle"]
    BY <1>10 DEF Publish, Goto, dbVars, queueVars
  <2>2. \A u \in Workers : Storing(u) => Storing(u)'
    BY <2>1 DEF Storing, TypeOK
  <2> QED BY <1>s, <2>1, <2>2 DEF Coming
<1>11. ASSUME NEW w \in Workers, Complete(w) PROVE NewestComing'
  <2>1. /\ UNCHANGED <<gh, row, net>> /\ pc[w] = "settle"
        /\ \A u \in Workers \ {w} : pc'[u] = pc[u] /\ cur'[u] = cur[u]
    BY <1>11 DEF Complete, Leave, Goto, dbVars, TypeOK
  <2>2. cur[w] \in QueueJobs /\ (lock[cur[w]] = w => jstate[cur[w]] = "active")
    BY <2>1, NamedJobs, IngestAssumption DEF QueueInv, Locked
  <2>3. \A j \in QueueJobs : jstate[j] = "waiting" => jstate'[j] = "waiting"
    BY <1>11, <2>2 DEF Complete, TypeOK
  <2> QED BY <1>s, <2>1, <2>3 DEF Coming, Storing
<1>12. ASSUME NEW j \in QueueJobs, PromoteDelayed(j) PROVE NewestComing'
  <2>1. /\ UNCHANGED <<gh, row, net, pc, cur>>
        /\ \A i \in QueueJobs : jstate[i] = "waiting" => jstate'[i] = "waiting"
    BY <1>12 DEF PromoteDelayed, dbVars, workerVars, TypeOK
  <2> QED BY <1>s, <2>1 DEF Coming, Storing
<1>13. ASSUME UNCHANGED <<gh, row, net, pc, cur, jstate>> PROVE NewestComing'
  BY <1>s, <1>13 DEF Coming, Storing
<1> QED
  BY <1>1, <1>2, <1>3, <1>4, <1>5, <1>6, <1>8, <1>9, <1>10, <1>11, <1>12, <1>13
  DEF Next, vars, queueVars, dbVars, workerVars, Environment, Receive, Take, Handle, Redeliver,
      LoseDelivery, SetEnabled, DeleteRepository, PurgeRun, CallFails, Crash, DeadLetterFails,
      RecoverHeldUp, MoveToDeadLetterQueue, EnvEvents

\* When no delivery is on its way and no job is undecided, the database holds every run as
\* GitHub has it.
RunsCaughtUp == net = {} /\ Undecided = {} => \A r \in Runs : row[r] = gh[r]

\* The safety half of Converges, for any number of worker processes: nothing lost and
\* nothing failing, and no two workers about to store the same run, the queue never comes to
\* rest with an older version of a run than GitHub has, although no step compares versions.
THEOREM RestsCaughtUp ==
  ASSUME Undisturbed, Undiminished PROVE Spec /\ []OneStoring => []RunsCaughtUp
<1>1. Init => SettleInv
  <2> SUFFICES ASSUME Init PROVE SettleInv
    OBVIOUS
  <2>1. \A r \in Runs : row[r] = 0 /\ gh[r] = 0
    BY DEF Init, Entities
  <2> QED BY <2>1, InitOrder DEF Init, SettleInv, Untouched, NewestComing, Undiminished
<1>2. SettleInv /\ OneStoring /\ [Next]_vars => SettleInv'
  BY OrderNext, UntouchedNext, NewestComingNext DEF SettleInv
<1>3. SettleInv => RunsCaughtUp
  <2> SUFFICES ASSUME SettleInv, net = {}, Undecided = {}, NEW j \in QueueJobs PROVE ~Coming(j)
    BY DEF RunsCaughtUp, SettleInv, NewestComing
  <2>1. ASSUME NEW w \in Workers, Storing(w), cur[w] = j PROVE FALSE
    <3>1. lock[j] = w /\ stalls[j] = 0
      BY <2>1, IngestAssumption DEF SettleInv, Untouched, OrderInv, QueueInv, Running, QueueJobs
    <3>2. jstate[j] = "active"
      BY <3>1, IngestAssumption DEF SettleInv, OrderInv, QueueInv, Locked
    <3> QED BY <3>2 DEF Undecided
  <2> QED BY <2>1 DEF Coming, Undecided
<1> QED BY <1>1, <1>2, <1>3, PTL DEF Spec

-----------------------------------------------------------------------------
(* One worker process and nothing disturbed: deliveries are stored in the    *)
(* order in which they were accepted, each at its first attempt.             *)

Made(j) == jstate[j] # "none"
Stored(j) ==
  jstate[j] = "completed" \/ \E w \in Workers : cur[w] = j /\ pc[w] \in {"publish", "settle"}

\* Jobs are taken in the order of their ids, and never put back.
InTurn ==
  /\ \A j \in QueueJobs : jstate[j] \notin {"delayed", "failed"}
  /\ \A j \in QueueJobs : jstate[j] = "waiting" => \E p \in Places : waitq[p] = j
  /\ \A p, q \in Places : p < q => waitq[p] < waitq[q]
  /\ \A i, j \in QueueJobs :
       i < j /\ Made(i) /\ jstate[j] \in {"active", "completed"} => jstate[i] = "completed"

\* Of one entity the versions grow with the ids, to that of the delivery on its way.
VersionsInTurn ==
  /\ \A i, j \in QueueJobs :
       i < j /\ Made(i) /\ Made(j) /\ msg[i].entity = msg[j].entity
         => msg[i].version < msg[j].version
  /\ \A j \in QueueJobs : Made(j) => msg[j].version <= gh[msg[j].entity]
  /\ \A d \in net :
       /\ d.version <= gh[d.entity]
       /\ \A j \in QueueJobs :
            Made(j) /\ msg[j].entity = d.entity => msg[j].version < d.version

NewestSent ==
  \A e \in Entities : gh[e] > 0 =>
    \/ [entity |-> e, version |-> gh[e]] \in net
    \/ \E j \in QueueJobs : Made(j) /\ msg[j] = [entity |-> e, version |-> gh[e]]

\* The run of a workflow job was accepted before it.
RunsBefore ==
  /\ \A j \in QueueJobs : Made(j) /\ msg[j].entity \in Jobs =>
       \E i \in QueueJobs : i < j /\ Made(i) /\ msg[i].entity = RunOf[msg[j].entity]
  /\ \A d \in net : d.entity \in Jobs =>
       \E i \in QueueJobs : Made(i) /\ msg[i].entity = RunOf[d.entity]

RowsStored ==
  /\ \A e \in Entities : row[e] <= gh[e]
  /\ \A j \in QueueJobs : Stored(j) => msg[j].version <= row[msg[j].entity]
  /\ \A w \in Workers : pc[w] = "upsert" /\ msg[cur[w]].entity \in Jobs => held[w]

InLine == InTurn /\ VersionsInTurn /\ NewestSent /\ RunsBefore /\ RowsStored
LineInv == OneWorker /\ SettleInv /\ InLine

\* A handler at work has its job locked, and every job made before it is stored.
LEMMA AtWork ==
  ASSUME LineInv, NEW w \in Workers, pc[w] # "idle"
  PROVE  /\ cur[w] \in QueueJobs /\ jstate[cur[w]] = "active" /\ lock[cur[w]] = w
         /\ \A i \in QueueJobs : i < cur[w] /\ Made(i) => Stored(i)
         /\ \A i \in QueueJobs : jstate[i] = "completed" => i < cur[w]
<1>1. cur[w] \in QueueJobs /\ Made(cur[w]) /\ stalls[cur[w]] = 0
  BY NamedJobs DEF LineInv, SettleInv, OrderInv, Untouched, Made
<1>2. lock[cur[w]] = w
  BY <1>1 DEF LineInv, SettleInv, OrderInv, QueueInv, Running, QueueJobs
<1>3. jstate[cur[w]] = "active"
  BY <1>1, <1>2, IngestAssumption DEF LineInv, SettleInv, OrderInv, QueueInv, Locked
<1>4. \A i \in QueueJobs : i < cur[w] /\ Made(i) => Stored(i)
  BY <1>1, <1>3 DEF LineInv, InLine, InTurn, Stored
<1>5. \A i \in QueueJobs : jstate[i] = "completed" => i < cur[w]
  BY <1>1, <1>3 DEF LineInv, InLine, InTurn, Made, QueueJobs
<1> QED BY <1>1, <1>2, <1>3, <1>4, <1>5

\* A step that makes no job, sends nothing and stores nothing.
LEMMA LineSame ==
  ASSUME LineInv, UNCHANGED <<msg, waitq, gh, row>>, net' = net,
         \A j \in QueueJobs :
           \/ jstate'[j] = jstate[j]
           \/ jstate[j] = "active" /\ jstate'[j] = "completed" /\ Stored(j),
         \A w \in Workers :
           /\ pc'[w] \in {"publish", "settle"} => cur'[w] = cur[w] /\ pc[w] \in {"publish", "settle"}
           /\ pc'[w] = "upsert" =>
                held'[w] \/ (cur'[w] = cur[w] /\ held'[w] = held[w] /\ pc[w] = "upsert")
  PROVE  InLine'
<1> USE DEF LineInv, InLine
<1>1. \A j \in QueueJobs : Made(j)' <=> Made(j)
  BY DEF Made
<1>2. \A j \in QueueJobs : Stored(j)' => Stored(j)
  BY DEF Stored
<1>3. ASSUME NEW i \in QueueJobs, NEW j \in QueueJobs, i < j, Made(i),
             jstate'[j] \in {"active", "completed"}
      PROVE  jstate'[i] = "completed"
  <2>1. jstate[i] = "completed"
    BY <1>3 DEF InTurn
  <2> QED BY <2>1
<1>4. InTurn'
  <2>1. \A j \in QueueJobs : jstate'[j] \notin {"delayed", "failed"}
    BY DEF InTurn
  <2>2. \A j \in QueueJobs : jstate'[j] = "waiting" => \E p \in Places : waitq[p] = j
    BY DEF InTurn
  <2> QED BY <1>1, <1>3, <2>1, <2>2 DEF InTurn, Places
<1>5. VersionsInTurn'
  BY <1>1 DEF VersionsInTurn
<1>6. NewestSent'
  BY <1>1 DEF NewestSent
<1>7. RunsBefore'
  BY <1>1 DEF RunsBefore
<1>8. RowsStored'
  BY <1>2 DEF RowsStored
<1> QED BY <1>4, <1>5, <1>6, <1>7, <1>8

LEMMA LineSends == ASSUME Undisturbed, LineInv, NEW e \in Entities, GitHubEvent(e) PROVE InLine'
<1> USE DEF LineInv, InLine
<1> QueueInv /\ TypeOK
  BY DEF SettleInv, OrderInv, QueueInv, EffectInv
<1>1. /\ net = {} /\ net' = {[entity |-> e, version |-> gh[e] + 1]}
      /\ e \in Jobs => gh[RunOf[e]] > 0
      /\ \A f \in Entities : gh'[f] = IF f = e THEN gh[f] + 1 ELSE gh[f]
  BY DEF GitHubEvent, Send, Undisturbed, TypeOK
<1>2. UNCHANGED <<row, msg, jstate, waitq, pc, cur, held>>
  BY DEF GitHubEvent, dbVars, queueVars, workerVars
<1>3. \A f \in Entities : gh[f] \in Nat /\ gh'[f] \in Nat /\ gh[f] <= gh'[f] /\ row[f] \in Nat
  <2>1. \A f \in Entities : gh[f] \in 0..MaxVersion /\ row[f] \in 0..MaxVersion
    BY DEF TypeOK
  <2> QED BY <1>1, <2>1, IngestAssumption
<1>4. \A j \in QueueJobs : msg[j].entity \in Entities /\ msg[j].version \in Nat
  BY NamedJobs, IngestAssumption
<1>5. InTurn'
  BY <1>2 DEF InTurn, Places, Made
<1>6. VersionsInTurn'
  <2>1. \A j \in QueueJobs : Made(j) => msg[j].version <= gh'[msg[j].entity]
    BY <1>3, <1>4 DEF VersionsInTurn
  <2>2. \A j \in QueueJobs : Made(j) /\ msg[j].entity = e => msg[j].version < gh[e] + 1
    BY <1>3, <1>4 DEF VersionsInTurn
  <2> QED BY <1>1, <1>2, <1>3, <2>1, <2>2 DEF VersionsInTurn, Made
<1>7. NewestSent'
  BY <1>1, <1>2 DEF NewestSent, Made
<1>8. RunsBefore'
  <2>1. ASSUME e \in Jobs PROVE \E i \in QueueJobs : Made(i) /\ msg[i].entity = RunOf[e]
    <3>1. RunOf[e] \in Entities
      BY <2>1, IngestAssumption DEF Entities
    <3>2. PICK i \in QueueJobs : Made(i) /\ msg[i] = [entity |-> RunOf[e], version |-> gh[RunOf[e]]]
      BY <1>1, <2>1, <3>1 DEF NewestSent
    <3> QED BY <3>2
  <2> QED BY <1>1, <1>2, <2>1 DEF RunsBefore, Made
<1>9. RowsStored'
  <2>1. \A f \in Entities : row[f] <= gh'[f]
    BY <1>3 DEF RowsStored
  <2> QED BY <1>2, <2>1 DEF RowsStored, Stored
<1> QED BY <1>5, <1>6, <1>7, <1>8, <1>9

LEMMA LineAccepts == ASSUME LineInv, NEW d \in net, ReceiveWebhook(d) PROVE InLine'
<1> USE DEF LineInv, InLine
<1> QueueInv /\ TypeOK
  BY DEF SettleInv, OrderInv, QueueInv, EffectInv
<1>1. Enqueue(d) /\ UNCHANGED <<gh, row, pc, cur, held>>
  BY DEF ReceiveWebhook, SettleInv, Untouched, dbVars, workerVars
<1>2. net' = {}
  BY DEF ReceiveWebhook, SettleInv, OrderInv, Smooth, OneDelivery
<1>3. PICK n \in QueueJobs :
        /\ n = nextId /\ jstate[n] = "none" /\ msg'[n] = d /\ jstate'[n] = "waiting"
        /\ waitq' = Append(waitq, n)
        /\ \A j \in QueueJobs \ {n} : msg'[j] = msg[j] /\ jstate'[j] = jstate[j]
  BY <1>1 DEF Enqueue, TypeOK, QueueInv, Fresh, QueueJobs
<1>4. \A j \in QueueJobs : Made(j) => j < n
  BY <1>3 DEF QueueInv, Fresh, Made, QueueJobs, TypeOK
<1>5. /\ Made(n)' /\ ~Made(n)
      /\ \A j \in QueueJobs \ {n} : (Made(j)' <=> Made(j)) /\ msg'[j] = msg[j]
  BY <1>3 DEF Made
<1>6. \A p \in Places' : \/ p \in Places /\ waitq'[p] = waitq[p]
                         \/ p = Len(waitq) + 1 /\ waitq'[p] = n
  BY <1>3 DEF Places, TypeOK
<1>7. \A p \in Places : p \in Places' /\ waitq'[p] = waitq[p] /\ waitq[p] < n
  <2>1. \A p \in Places : p \in Places' /\ waitq'[p] = waitq[p]
    BY <1>3 DEF Places, TypeOK
  <2>2. \A p \in Places : waitq[p] \in QueueJobs /\ Made(waitq[p])
    BY NamedJobs DEF Made
  <2> QED BY <1>4, <2>1, <2>2
<1>8. Len(waitq) + 1 \in Places' /\ waitq'[Len(waitq) + 1] = n /\ Len(waitq) \in Nat
  BY <1>3 DEF Places, TypeOK
<1>9. InTurn'
  <2>1. \A j \in QueueJobs : jstate'[j] \notin {"delayed", "failed"}
    BY <1>3 DEF InTurn
  <2>2. ASSUME NEW j \in QueueJobs, jstate'[j] = "waiting" PROVE \E p \in Places' : waitq'[p] = j
    <3>1. CASE j = n
      BY <1>8, <3>1
    <3>2. CASE j # n
      <4>1. PICK p \in Places : waitq[p] = j
        BY <1>3, <2>2, <3>2 DEF InTurn
      <4> QED BY <1>7, <4>1
    <3> QED BY <3>1, <3>2
  <2>3. ASSUME NEW p \in Places', NEW q \in Places', p < q PROVE waitq'[p] < waitq'[q]
    <3>1. p \in Places /\ waitq'[p] = waitq[p]
      BY <1>6, <1>8, <2>3 DEF Places
    <3> QED BY <1>6, <1>7, <2>3, <3>1 DEF InTurn
  <2>4. ASSUME NEW i \in QueueJobs, NEW j \in QueueJobs, i < j, Made(i)',
               jstate'[j] \in {"active", "completed"}
        PROVE  jstate'[i] = "completed"
    <3>1. j # n /\ Made(j)
      BY <1>3, <2>4 DEF Made
    <3>2. i # n
      BY <1>4, <2>4, <3>1 DEF QueueJobs
    <3> QED BY <1>3, <1>5, <2>4, <3>1, <3>2 DEF InTurn
  <2> QED BY <2>1, <2>2, <2>3, <2>4 DEF InTurn
<1>10. VersionsInTurn'
  <2>1. ASSUME NEW i \in QueueJobs, NEW j \in QueueJobs, i < j, Made(i)', Made(j)',
               msg'[i].entity = msg'[j].entity
        PROVE  msg'[i].version < msg'[j].version
    <3>1. i # n /\ Made(i) /\ msg'[i] = msg[i]
      BY <1>4, <1>5, <2>1 DEF QueueJobs
    <3>2. CASE j = n
      BY <1>3, <2>1, <3>1, <3>2 DEF VersionsInTurn
    <3>3. CASE j # n
      BY <1>5, <2>1, <3>1, <3>3 DEF VersionsInTurn
    <3> QED BY <3>2, <3>3
  <2>2. ASSUME NEW j \in QueueJobs, Made(j)' PROVE msg'[j].version <= gh[msg'[j].entity]
    BY <1>3, <1>5, <2>2 DEF VersionsInTurn
  <2> QED BY <1>1, <1>2, <2>1, <2>2 DEF VersionsInTurn
<1>11. NewestSent'
  <2> SUFFICES ASSUME NEW e \in Entities, gh[e] > 0
               PROVE  \E j \in QueueJobs : Made(j)' /\ msg'[j] = [entity |-> e, version |-> gh[e]]
    BY <1>1 DEF NewestSent
  <2>1. CASE [entity |-> e, version |-> gh[e]] \in net
    <3>1. d = [entity |-> e, version |-> gh[e]]
      BY <2>1 DEF SettleInv, OrderInv, Smooth, OneDelivery
    <3> QED BY <1>3, <1>5, <3>1
  <2>2. CASE \E j \in QueueJobs : Made(j) /\ msg[j] = [entity |-> e, version |-> gh[e]]
    BY <1>5, <2>2
  <2> QED BY <2>1, <2>2 DEF NewestSent
<1>12. RunsBefore'
  <2> SUFFICES ASSUME NEW j \in QueueJobs, Made(j)', msg'[j].entity \in Jobs
               PROVE  \E i \in QueueJobs : i < j /\ Made(i)' /\ msg'[i].entity = RunOf[msg'[j].entity]
    BY <1>2 DEF RunsBefore
  <2>1. PICK i \in QueueJobs : i < j /\ Made(i) /\ msg[i].entity = RunOf[msg'[j].entity]
    <3>1. CASE j = n
      BY <1>3, <1>4, <3>1 DEF RunsBefore
    <3>2. CASE j # n
      BY <1>5, <3>2 DEF RunsBefore
    <3> QED BY <3>1, <3>2
  <2> QED BY <1>5, <2>1
<1>13. RowsStored'
  <2>1. \A j \in QueueJobs : Stored(j)' => Stored(j) /\ Made(j)
    BY <1>1, <1>3, NamedJobs DEF Stored, Made
  <2> QED BY <1>1, <1>5, <2>1, NamedJobs DEF RowsStored, Made
<1> QED BY <1>9, <1>10, <1>11, <1>12, <1>13

LEMMA LineTakes == ASSUME LineInv, NEW w \in Workers, TakeJob(w) PROVE InLine'
<1> USE DEF LineInv, InLine
<1> QueueInv /\ TypeOK
  BY DEF SettleInv, OrderInv, QueueInv, EffectInv
<1>1. /\ waitq # <<>> /\ waitq' = Tail(waitq) /\ pc[w] = "idle"
      /\ UNCHANGED <<msg, row, gh, net>>
  BY DEF TakeJob, dbVars
<1>2. PICK h \in QueueJobs : h = waitq[1] /\ h = Head(waitq) /\ jstate[h] = "waiting"
  BY <1>1, ReadyHead DEF QueueInv, TypeOK
<1>3. /\ \A j \in QueueJobs : jstate'[j] = IF j = h THEN "active" ELSE jstate[j]
      /\ \A u \in Workers : u = w
      /\ pc'[w] = IF msg[h].entity \in Jobs THEN "find" ELSE "upsert"
      /\ cur'[w] = h
  BY <1>2 DEF TakeJob, Goto, TypeOK, OneWorker
<1>4. \A p \in Places' : p + 1 \in Places /\ waitq'[p] = waitq[p + 1]
  BY <1>1 DEF Places, TypeOK
<1>5. \A j \in QueueJobs : Made(j)' <=> Made(j)
  BY <1>2, <1>3 DEF Made
<1>6. 1 \in Places /\ \A p \in Places : p = 1 \/ (p - 1 \in Places' /\ waitq'[p - 1] = waitq[p])
  BY <1>1 DEF Places, TypeOK
<1>7. \A j \in QueueJobs : jstate[j] # "active"
  BY <1>1, <1>3 DEF SettleInv, OrderInv, Smooth, NoneAbandoned
<1>8. ASSUME NEW i \in QueueJobs, i < h, Made(i) PROVE jstate[i] = "completed"
  <2>1. jstate[i] # "waiting"
    <3>1. SUFFICES ASSUME NEW p \in Places, waitq[p] = i PROVE FALSE
      BY DEF InTurn
    <3>2. p # 1 => 1 < p
      BY DEF Places
    <3>3. h <= i
      BY <1>2, <1>6, <3>1, <3>2 DEF InTurn, QueueJobs
    <3> QED BY <1>8, <3>3 DEF QueueJobs
  <2> QED BY <1>7, <1>8, <2>1 DEF InTurn, Made, TypeOK, JobStates
<1>9. InTurn'
  <2>1. \A j \in QueueJobs : jstate'[j] \notin {"delayed", "failed"}
    BY <1>3 DEF InTurn
  <2>2. ASSUME NEW j \in QueueJobs, jstate'[j] = "waiting" PROVE \E p \in Places' : waitq'[p] = j
    <3>1. PICK p \in Places : waitq[p] = j
      BY <1>3, <2>2 DEF InTurn
    <3>2. p # 1
      BY <1>2, <1>3, <2>2, <3>1
    <3> QED BY <1>6, <3>1, <3>2
  <2>3. ASSUME NEW p \in Places', NEW q \in Places', p < q PROVE waitq'[p] < waitq'[q]
    <3>1. p + 1 < q + 1
      BY <2>3 DEF Places
    <3> QED BY <1>4, <3>1 DEF InTurn
  <2>4. ASSUME NEW i \in QueueJobs, NEW j \in QueueJobs, i < j, Made(i),
               jstate'[j] \in {"active", "completed"}
        PROVE  jstate'[i] = "completed"
    <3>1. jstate[i] = "completed"
      BY <1>3, <1>8, <2>4 DEF InTurn
    <3> QED BY <1>2, <1>3, <3>1
  <2> QED BY <1>5, <2>1, <2>2, <2>3, <2>4 DEF InTurn
<1>10. VersionsInTurn' /\ NewestSent' /\ RunsBefore'
  BY <1>1, <1>5 DEF VersionsInTurn, NewestSent, RunsBefore
<1>11. RowsStored'
  <2>1. \A j \in QueueJobs : Stored(j)' => Stored(j)
    BY <1>3 DEF Stored
  <2> QED BY <1>1, <1>3, <2>1 DEF RowsStored
<1> QED BY <1>9, <1>10, <1>11

\* The run of the workflow job is stored already.
LEMMA LineFinds == ASSUME LineInv, NEW w \in Workers, FindRun(w) PROVE InLine'
<1> USE DEF LineInv, InLine
<1> QueueInv /\ TypeOK
  BY DEF SettleInv, OrderInv, QueueInv, EffectInv
<1>1. pc[w] = "find" /\ cur[w] \in QueueJobs /\ msg[cur[w]].entity \in Jobs /\ Made(cur[w])
  BY NamedJobs DEF FindRun, SettleInv, OrderInv, Smooth, FindsForJobs, Made
<1>2. PICK i \in QueueJobs : i < cur[w] /\ Made(i) /\ msg[i].entity = RunOf[msg[cur[w]].entity]
  BY <1>1 DEF RunsBefore
<1>3. msg[i].version <= row[msg[i].entity] /\ msg[i].version \in Nat \ {0}
  BY <1>1, <1>2, AtWork, NamedJobs, IngestAssumption DEF RowsStored
<1>4. row[msg[i].entity] \in Nat
  <2>1. row[msg[i].entity] \in 0..MaxVersion
    BY NamedJobs DEF TypeOK
  <2> QED BY <2>1, IngestAssumption
<1>5. row[RunOf[msg[cur[w]].entity]] # 0
  BY <1>2, <1>3, <1>4
<1>6. Goto(w, "upsert") /\ held' = [held EXCEPT ![w] = TRUE]
      /\ UNCHANGED <<cur, queueVars, gh, net, dbVars>>
  BY <1>5 DEF FindRun
<1>7. \A u \in Workers : u = w
  BY DEF OneWorker
<1>8. pc'[w] = "upsert" /\ held'[w]
  BY <1>6 DEF Goto, TypeOK
<1> QED BY <1>6, <1>7, <1>8, LineSame DEF queueVars, dbVars

LEMMA LineStores == ASSUME LineInv, NEW w \in Workers, Upsert(w) PROVE InLine'
<1> USE DEF LineInv, InLine
<1> QueueInv /\ TypeOK
  BY DEF SettleInv, OrderInv, QueueInv, EffectInv
<1>1. pc[w] = "upsert" /\ cur[w] \in QueueJobs /\ Made(cur[w]) /\ jstate[cur[w]] = "active"
      /\ msg[cur[w]].entity \in Entities
  BY NamedJobs, AtWork DEF Upsert, Made
<1>2. ParentExists(w)
  BY <1>1 DEF ParentExists, SettleInv, Untouched, RowsStored, Entities
<1>3. /\ Goto(w, "publish") /\ UNCHANGED <<cur, queueVars, gh, net>>
      /\ row' = [row EXCEPT ![msg[cur[w]].entity] = msg[cur[w]].version]
  BY <1>2 DEF Upsert
<1>4. \A e \in Entities : row'[e] = IF e = msg[cur[w]].entity THEN msg[cur[w]].version ELSE row[e]
  BY <1>3 DEF TypeOK
<1>5. pc'[w] = "publish" /\ \A u \in Workers : u = w
  BY <1>3 DEF Goto, TypeOK, OneWorker
<1>6. InTurn' /\ VersionsInTurn' /\ NewestSent' /\ RunsBefore'
  BY <1>3 DEF InTurn, VersionsInTurn, NewestSent, RunsBefore, Places, Made, queueVars
<1>7. RowsStored'
  <2>1. \A e \in Entities : row'[e] <= gh[e]
    BY <1>1, <1>4 DEF RowsStored, VersionsInTurn
  <2>2. ASSUME NEW j \in QueueJobs, Stored(j)' PROVE msg[j].version <= row'[msg[j].entity]
    <3>1. CASE j = cur[w]
      <4>1. msg[j].version \in Nat
        BY <3>1, NamedJobs, IngestAssumption
      <4> QED BY <1>1, <1>4, <3>1, <4>1
    <3>2. CASE j # cur[w]
      <4>1. Stored(j) /\ jstate[j] = "completed" /\ msg[j].entity \in Entities
        BY <1>3, <1>5, <2>2, <3>2, NamedJobs DEF Stored, queueVars
      <4>2. j < cur[w]
        BY <1>1, <4>1, AtWork
      <4>3. msg[j].entity = msg[cur[w]].entity => msg[j].version < msg[cur[w]].version
        BY <1>1, <4>1, <4>2 DEF VersionsInTurn, Made
      <4>4. msg[j].version \in Nat /\ msg[cur[w]].version \in Nat
        BY <1>1, NamedJobs, IngestAssumption
      <4> QED BY <1>4, <4>1, <4>3, <4>4 DEF RowsStored
    <3> QED BY <3>1, <3>2
  <2> QED BY <1>3, <1>5, <2>1, <2>2 DEF RowsStored, queueVars
<1> QED BY <1>6, <1>7

LEMMA LineCompletes ==
  ASSUME LineInv, NEW w \in Workers, Publish(w) \/ Complete(w) PROVE InLine'
<1> USE DEF LineInv, InLine
<1> QueueInv /\ TypeOK
  BY DEF SettleInv, OrderInv, QueueInv, EffectInv
<1>1. \A u \in Workers : u = w
  BY DEF OneWorker
<1>2. CASE Publish(w)
  <2>1. pc[w] = "publish" /\ pc'[w] = "settle" /\ UNCHANGED <<cur, queueVars, gh, net, dbVars>>
    BY <1>2 DEF Publish, Goto, TypeOK
  <2> QED BY <1>1, <2>1, LineSame DEF queueVars, dbVars
<1>3. CASE Complete(w)
  <2>1. pc[w] = "settle" /\ cur[w] \in QueueJobs /\ jstate[cur[w]] = "active" /\ Stored(cur[w])
    BY <1>3, AtWork DEF Complete, Stored
  <2>2. /\ pc'[w] = "idle" /\ UNCHANGED <<msg, waitq, gh, net, row>>
        /\ \A j \in QueueJobs : jstate'[j] = jstate[j] \/ (j = cur[w] /\ jstate'[j] = "completed")
    BY <1>3, <2>1 DEF Complete, Leave, Goto, dbVars, TypeOK
  <2> QED BY <1>1, <2>1, <2>2, LineSame
<1> QED BY <1>2, <1>3

LEMMA LineNext == ASSUME Undisturbed, LineInv, [Next]_vars PROVE LineInv'
<1> QueueInv /\ TypeOK
  BY DEF LineInv, SettleInv, OrderInv, QueueInv, EffectInv
<1>1. OneStoring
  BY DEF LineInv, OneWorker, OneStoring
<1>2. SettleInv'
  BY <1>1, OrderNext, UntouchedNext, NewestComingNext DEF LineInv, SettleInv
<1>3. \A k \in EnvEvents : ~Spend(k)
  BY DEF Spend, LineInv, SettleInv, OrderInv, Untouched, Smooth, Calm, Disturbances, EnvEvents
<1>4. \A j \in QueueJobs : ~RecoverAbandoned(j) /\ ~PromoteDelayed(j)
  BY DEF RecoverAbandoned, Abandoned, PromoteDelayed, LineInv, InLine, InTurn, SettleInv, OrderInv,
         Smooth, NoneAbandoned
<1>5. \A w \in Workers : ~FailStalledJob(w)
  BY ReadyHead, IngestAssumption DEF FailStalledJob, LineInv, SettleInv, Untouched, QueueInv
<1>6. ASSUME UNCHANGED <<gh, net, row, msg, jstate, waitq, pc, cur, held>> PROVE InLine'
  BY <1>6, LineSame
<1>7. InLine'
  BY <1>3, <1>4, <1>5, <1>6, LineSends, LineAccepts, LineTakes, LineFinds, LineStores, LineCompletes
  DEF Next, vars, queueVars, dbVars, workerVars, Environment, Receive, Take, Handle, Redeliver,
      LoseDelivery, SetEnabled, DeleteRepository, PurgeRun, CallFails, Crash, DeadLetterFails,
      RecoverHeldUp, MoveToDeadLetterQueue, EnvEvents
<1> QED BY <1>2, <1>7 DEF LineInv, OneWorker

LEMMA LineInit == ASSUME Undisturbed, Undiminished, OneWorker, Init PROVE LineInv
<1>1. SettleInv
  <2>1. \A r \in Runs : row[r] = 0 /\ gh[r] = 0
    BY DEF Init, Entities
  <2> QED BY <2>1, InitOrder DEF Init, SettleInv, Untouched, NewestComing, Undiminished
<1>2. InLine
  BY DEF Init, InLine, InTurn, VersionsInTurn, NewestSent, RunsBefore, RowsStored, Places, Made, Stored
<1> QED BY <1>1, <1>2 DEF LineInv

\* When nothing is under way, the database holds every run and workflow job as GitHub has it.
AllCaughtUp == net = {} /\ Undecided = {} => row = gh

\* No delivery needs a second attempt, or fails.
NoneRetried == \A j \in QueueJobs : jstate[j] \notin {"delayed", "failed"}

\* The safety half of Converges: deliveries in order to one worker process, nothing lost and
\* nothing failing, no delivery needs a second attempt - the run of a workflow job is always
\* there before it - and when the queue is at rest the database is what GitHub has.
THEOREM RestsAsGitHub ==
  ASSUME Undisturbed, Undiminished, OneWorker PROVE Spec => [](NoneRetried /\ AllCaughtUp)
<1>1. Init => LineInv
  BY LineInit
<1>2. LineInv /\ [Next]_vars => LineInv'
  BY LineNext
<1>3. LineInv => NoneRetried /\ AllCaughtUp
  <2> SUFFICES ASSUME LineInv PROVE NoneRetried /\ AllCaughtUp
    OBVIOUS
  <2>1. QueueInv /\ TypeOK /\ NoneRetried
    BY DEF LineInv, SettleInv, OrderInv, QueueInv, EffectInv, InLine, InTurn, NoneRetried
  <2>2. ASSUME net = {}, Undecided = {}, NEW e \in Entities PROVE row[e] = gh[e]
    <3>1. row[e] \in Nat /\ gh[e] \in Nat /\ row[e] <= gh[e]
      <4>1. row[e] \in 0..MaxVersion /\ gh[e] \in 0..MaxVersion
        BY <2>1 DEF TypeOK
      <4> QED BY <4>1, IngestAssumption DEF LineInv, InLine, RowsStored
    <3>2. CASE gh[e] > 0
      <4>1. PICK j \in QueueJobs : Made(j) /\ msg[j] = [entity |-> e, version |-> gh[e]]
        BY <2>2, <3>2 DEF LineInv, InLine, NewestSent
      <4>2. Stored(j)
        BY <2>1, <2>2, <4>1 DEF NoneRetried, Undecided, Made, Stored, TypeOK, JobStates
      <4>3. gh[e] <= row[e]
        BY <4>1, <4>2 DEF LineInv, InLine, RowsStored
      <4> QED BY <3>1, <4>3
    <3> QED BY <3>1, <3>2
  <2> QED BY <2>1, <2>2 DEF AllCaughtUp, TypeOK
<1> QED BY <1>1, <1>2, <1>3, PTL DEF Spec
=============================================================================
